----------------------------- MODULE NodeConfig -----------------------------
(***************************************************************************)
(* The files that decide which network a node is on, and what changes them: *)
(* config.Load and Save, LoadOrCreateIdentity, LoadPSK and the start of run, *)
(* and the handlers of POST /invite/generate and /invite/accept.            *)
(*                                                                         *)
(* os.WriteFile empties the file and then fills it, and may fail or be cut   *)
(* short in between: config.yaml, network.psk and node.key are written that  *)
(* way, not to another file that is then renamed.  ApplyInvite changes the   *)
(* Config that every handler shares; the host keeps the network it was built *)
(* for until the process starts again.                                      *)
(*                                                                         *)
(* born, paths, cut, wasPrivate, alone and joined are history variables.     *)
(***************************************************************************)
EXTENDS InviteCodec, ApiAuth, Functions

CONSTANTS
  Handler,       \* goroutines of HTTP requests
  Identity,      \* private keys
  KeyPath,       \* values of keypair_path
  DefaultKey,    \* the one in Default()
  PSK,           \* keys of private networks
  Label,         \* values of network_id
  Invites,       \* invites that other nodes hand out
  Edits,         \* what an operator may put in place: a config and a PSK
  MyAddrs,       \* the addresses this node advertises
  DefaultPeers,  \* network.DefaultBootstrapPeers
  MaxEdits,      \* bound on the operator's edits
  MaxFaults      \* bound on crashes and failed writes

NoLabel == <<>>

Mode == {"public", "private", "custom_public"}

\* What is left of an address in a text that ends in the middle of it
CutAddr == <<>>

\* The fields of config.Config that name the identity or the network, or guard the
\* API, in the order in which Save writes them.  psk_path is left out: it comes before
\* network_id and bootstrap_peers, so a file cut in it is valid only as that of a public
\* node, which reads no PSK until an acceptance has written one to the path it then has.
Config == [key : KeyPath, mode : Mode, net : Label \cup {NoLabel},
           peers : SUBSET (Multiaddr \cup {CutAddr}), token : Token \cup {NoToken}]

Invite == [addrs : Seq(Multiaddr), psk : PSK, label : Label \cup {NoLabel}]

ASSUME ConfigAssumption ==
  /\ PSK \subseteq [1..pskLen -> Byte]
  /\ DefaultKey \in KeyPath
  /\ Label \subseteq Seq(Byte) \ {NoLabel}
  /\ \A l \in Label : \A n \in 1..Len(l) : SubSeq(l, 1, n) \in Label
  /\ MyAddrs \in Seq(Multiaddr) \ {<<>>}
  /\ DefaultPeers \subseteq Multiaddr
  /\ \A e \in Edits : e.config \in Config /\ e.psk \in PSK
  /\ \A inv \in Invites : inv \in Invite /\ Encodable(inv)
  /\ MaxEdits \in Nat
  /\ MaxFaults \in Nat

\* Default()
Default == [key |-> DefaultKey, mode |-> "public", net |-> NoLabel, peers |-> {},
            token |-> NoToken]

\* A file that does not exist, and one whose contents nothing can read: part of
\* a key, or text that is not YAML.
Absent == [is |-> "absent"]

Garbled == [is |-> "garbled"]

Whole(x) == [is |-> "whole", x |-> x]

VARIABLES
  yaml,        \* config.yaml
  pskFile,     \* network.psk
  keyFile,     \* [KeyPath -> the file there]: node.key
  proc,        \* "down", "identity" and "psk" during the start, or "up"
  cfg,         \* the shared Config
  run,         \* the network the host was built for, and its identity
  handler,     \* [Handler -> where in handleInviteAccept it is, and its data]
  edits,       \* number of the operator's edits
  faults,      \* number of crashes and failed writes
  born,        \* the identities the node has run with, each with its key path
  paths,       \* the key paths the node ran with since the last edit
  cut,         \* a write of config.yaml was cut short since the last edit
  wasPrivate,  \* the node ran on a private network since the last edit
  alone,       \* the handler that nothing else has overlapped, if there is one
  joined       \* the invite it accepted, until another begins or an edit

files == <<yaml, pskFile, keyFile>>

bounds == <<edits, faults>>

history == <<born, paths, cut, wasPrivate, alone, joined>>

vars == <<files, proc, cfg, run, handler, bounds, history>>

Nothing == [is |-> "nothing"]

Idle == [pc |-> "idle", inv |-> Nothing, list |-> {}, text |-> Default]

NotBuilt(i) == [id |-> i, mode |-> "public", net |-> NoLabel, peers |-> {}, psk |-> NoLabel]

Init ==
  /\ yaml = Absent /\ pskFile = Absent /\ keyFile = [k \in KeyPath |-> Absent]
  /\ proc = "down"
  /\ cfg = Default
  /\ run = Nothing
  /\ handler = [h \in Handler |-> Idle]
  /\ edits = 0 /\ faults = 0
  /\ born = {} /\ paths = {}
  /\ cut = FALSE /\ wasPrivate = FALSE
  /\ alone = {}
  /\ joined = Nothing

-----------------------------------------------------------------------------
\* The start: config.Load, LoadOrCreateIdentity, LoadPSK, New.

\* A list of peers, or the entries before the cut and what is left of one
leftOf(ps) == {ps} \cup {s \in SUBSET (ps \cup {CutAddr}) : ~(ps \subseteq s)}

\* What yaml.Unmarshal over the defaults makes of the beginning of a text: the
\* fields that are there, the last one cut, or part of a list.  An emptied file is the
\* defaults.  Part of a path is some other path, and part of a token some token; part
\* of a mode is refused by Validate, as Garbled is by Unmarshal.
beginnings(c) ==
  {[Default EXCEPT !.key = k] : k \in KeyPath}
  \cup {[Default EXCEPT !.key = c.key, !.mode = c.mode, !.net = SubSeq(c.net, 1, n)] :
          n \in 0..Len(c.net)}
  \cup {[c EXCEPT !.peers = ps, !.token = NoToken] : ps \in leftOf(c.peers)}
  \cup {[c EXCEPT !.token = t] : t \in Token \cup {NoToken}}

\* What a write of config.yaml that was cut short may leave
cutShort(c) == {Garbled} \cup {Whole(b) : b \in beginnings(c)}

\* Mutated form of parsed: a file that cannot be parsed is as good as none.
parsedOrDefault(f) == IF f.is = "whole" THEN {f.x} ELSE {Default}

\* os.ReadFile and yaml.Unmarshal
parsed(f) == IF f.is = "absent" THEN {Default} ELSE IF f.is = "whole" THEN {f.x} ELSE {}

\* Mutated form of stripped: the token stays.
strippedNot(c) == c

\* A public node's token is ignored, and taken out of the file.
stripped(c) == IF c.mode = "public" THEN [c EXCEPT !.token = NoToken] ELSE c

\* Validate, but for the ranges of numbers
valid(c) ==
  /\ c.mode = "private" => c.peers # {}
  /\ c.mode = "custom_public" => c.net # NoLabel

\* Load writes the file on the first run and when it takes out a token.
Load ==
  /\ proc = "down"
  /\ \E read \in parsed(yaml) :
       LET c == stripped(read)
           saves == yaml.is = "absent" \/ c # read
       IN \/ /\ valid(c)
             /\ cfg' = c
             /\ yaml' = IF saves THEN Whole(c) ELSE yaml
             /\ proc' = "identity"
             /\ UNCHANGED <<bounds, cut>>
          \/ /\ saves
             /\ faults < MaxFaults /\ faults' = faults + 1
             /\ yaml' \in cutShort(c)
             /\ cut' = TRUE
             /\ UNCHANGED <<proc, cfg, edits>>
  /\ UNCHANGED <<pskFile, keyFile, run, handler, born, paths, wasPrivate, alone, joined>>

\* Mutated form of LoadOrCreateIdentity: a key is made after any error.
LoadOrCreateOnError(i) ==
  /\ proc = "identity"
  /\ keyFile' = [keyFile EXCEPT ![cfg.key] = Whole(i)]
  /\ run' = NotBuilt(i)
  /\ proc' = "psk"
  /\ UNCHANGED <<yaml, pskFile, cfg, handler, bounds, history>>

\* The key is read, or made and written when there is no file; any other error
\* ends the start.
LoadOrCreateIdentity(i) ==
  /\ proc = "identity"
  /\ \/ keyFile[cfg.key] = Whole(i) /\ UNCHANGED keyFile
     \/ keyFile[cfg.key] = Absent /\ keyFile' = [keyFile EXCEPT ![cfg.key] = Whole(i)]
  /\ run' = NotBuilt(i)
  /\ proc' = "psk"
  /\ UNCHANGED <<yaml, pskFile, cfg, handler, bounds, history>>

\* network.Scope: what the names of the DHT and of the gossip topics contain
Scope(c) == IF c.mode = "custom_public" THEN c.net ELSE NoLabel

\* network.BootstrapPeers
BootstrapPeers(c) ==
  IF c.peers # {} THEN c.peers ELSE IF c.mode = "public" THEN DefaultPeers ELSE {}

\* LoadPSK returns no error: the file is as long as a key.
LoadPSK == pskFile.is = "whole"

\* Mutated form of Start: a private node starts without its PSK.
StartUnkeyed ==
  /\ proc = "psk"
  /\ run' = [id |-> run.id, mode |-> cfg.mode, net |-> Scope(cfg),
             peers |-> BootstrapPeers(cfg),
             psk |-> IF cfg.mode = "private" /\ LoadPSK THEN pskFile.x ELSE NoLabel]
  /\ proc' = "up"
  /\ born' = born \cup {[key |-> cfg.key, id |-> run.id]}
  /\ paths' = paths \cup {cfg.key}
  /\ wasPrivate' = (wasPrivate \/ cfg.mode = "private")
  /\ UNCHANGED <<files, cfg, handler, bounds, cut, alone, joined>>

\* A private node needs its PSK; the host is built and the API served.
Start ==
  /\ proc = "psk"
  /\ cfg.mode = "private" => LoadPSK
  /\ run' = [id |-> run.id, mode |-> cfg.mode, net |-> Scope(cfg),
             peers |-> BootstrapPeers(cfg),
             psk |-> IF cfg.mode = "private" /\ LoadPSK THEN pskFile.x ELSE NoLabel]
  /\ proc' = "up"
  /\ born' = born \cup {[key |-> cfg.key, id |-> run.id]}
  /\ paths' = paths \cup {cfg.key}
  /\ wasPrivate' = (wasPrivate \/ cfg.mode = "private")
  /\ UNCHANGED <<files, cfg, handler, bounds, cut, alone, joined>>

\* The process has ended.
Gone == proc' = "down" /\ cfg' = Default /\ run' = Nothing

\* run returns the error of LoadOrCreateIdentity or LoadPSK.
StartFails ==
  /\ \/ proc = "identity" /\ keyFile[cfg.key] = Garbled
     \/ proc = "psk" /\ cfg.mode = "private" /\ ~ LoadPSK
  /\ Gone
  /\ UNCHANGED <<files, handler, bounds, history>>

-----------------------------------------------------------------------------
\* handleInviteGenerate and handleInviteAccept.

\* There is a request that gets past authed and operatorOnly.
Admits(requireJSON) ==
  {r \in Request : authed(cfg.token, r) /\ operatorOnly(cfg.token, r, requireJSON)} # {}

\* The invite of handleInviteGenerate
Issued == [addrs |-> MyAddrs, psk |-> pskFile.x, label |-> cfg.net]

\* It is handed out.
Issues ==
  /\ proc = "up"
  /\ Admits(FALSE)
  /\ cfg.mode = "private"
  /\ LoadPSK
  /\ Encodable(Issued)

\* The code is in the answer; the node keeps nothing of it.
Generate == Issues /\ UNCHANGED vars

\* The request is let in and its invite decoded.
Accept(h, code) ==
  /\ proc = "up"
  /\ handler[h].pc = "idle"
  /\ Admits(TRUE)
  /\ Decodable(code)
  /\ handler' = [handler EXCEPT ![h].pc = "psk", ![h].inv = DecodeInvite(code)]
  /\ alone' = IF \A g \in Handler : handler[g].pc = "idle" THEN {h} ELSE {}
  /\ joined' = Nothing
  /\ UNCHANGED <<files, proc, cfg, run, bounds, born, paths, cut, wasPrivate>>

HandlerGo(h, l) == handler' = [handler EXCEPT ![h].pc = l]

\* ApplyInvite: os.WriteFile(pskPath, inv.PSK) empties the file
OpenPSK(h) ==
  /\ handler[h].pc = "psk"
  /\ pskFile' = Garbled
  /\ HandlerGo(h, "pskWrite")
  /\ UNCHANGED <<yaml, keyFile, proc, cfg, run, bounds, history>>

\* and fills it.  Keys have one length: the last one written is there whole.
WritePSK(h) ==
  /\ handler[h].pc = "pskWrite"
  /\ pskFile' = Whole(handler[h].inv.psk)
  /\ HandlerGo(h, "apply")
  /\ UNCHANGED <<yaml, keyFile, proc, cfg, run, bounds, history>>

\* Mutated form of Apply: a network of the operator's own is not left.
ApplyKeepsCustom(h) ==
  /\ handler[h].pc = "apply"
  /\ LET inv == handler[h].inv
     IN /\ cfg' = [cfg EXCEPT !.mode = IF @ = "public" THEN "private" ELSE @,
                              !.net = IF inv.label = NoLabel THEN @ ELSE inv.label]
        /\ handler' = [handler EXCEPT ![h].pc = "append",
                                      ![h].list = cfg.peers \cup Range(inv.addrs)]
  /\ UNCHANGED <<files, proc, run, bounds, history>>

\* The mode and the label are set and the list of peers read, without a lock,
Apply(h) ==
  /\ handler[h].pc = "apply"
  /\ LET inv == handler[h].inv
     IN /\ cfg' = [cfg EXCEPT !.mode = "private",
                              !.net = IF inv.label = NoLabel THEN @ ELSE inv.label]
        /\ handler' = [handler EXCEPT ![h].pc = "append",
                                      ![h].list = cfg.peers \cup Range(inv.addrs)]
  /\ UNCHANGED <<files, proc, run, bounds, history>>

\* and the longer list is stored: one stored in the meantime is lost.
AppendPeers(h) ==
  /\ handler[h].pc = "append"
  /\ cfg' = [cfg EXCEPT !.peers = handler[h].list]
  /\ HandlerGo(h, "save")
  /\ UNCHANGED <<files, proc, run, bounds, history>>

\* config.Save: the text is made, and os.WriteFile empties config.yaml
OpenConfig(h) ==
  /\ handler[h].pc = "save"
  /\ yaml' = Whole(Default)
  /\ handler' = [handler EXCEPT ![h].pc = "saveWrite", ![h].text = cfg]
  /\ UNCHANGED <<pskFile, keyFile, proc, cfg, run, bounds, history>>

\* and fills it, and the invite is answered "accepted".  Over a longer text that
\* another handler has written since, the end of that one is left.
WriteConfig(h) ==
  /\ handler[h].pc = "saveWrite"
  /\ yaml' \in {Whole(handler[h].text)} \cup IF h \in alone THEN {} ELSE {Garbled}
  /\ handler' = [handler EXCEPT ![h] = Idle]
  /\ alone' = {}
  /\ joined' = IF h \in alone THEN handler[h].inv ELSE joined
  /\ UNCHANGED <<pskFile, keyFile, proc, cfg, run, bounds, born, paths, cut, wasPrivate>>

-----------------------------------------------------------------------------
\* What else happens to the files.

Writing(h) == handler[h].pc = "saveWrite"

\* A write fails, and the handler answers 500.  What it has done stays done.
WriteFails(h) ==
  /\ faults < MaxFaults
  /\ \/ /\ handler[h].pc \in {"psk", "save"}
        /\ UNCHANGED <<yaml, pskFile, cut>>
     \/ /\ handler[h].pc = "pskWrite"
        /\ pskFile' = Garbled
        /\ UNCHANGED <<yaml, cut>>
     \/ /\ Writing(h)
        /\ yaml' \in cutShort(handler[h].text)
        /\ cut' = TRUE
        /\ UNCHANGED pskFile
  /\ faults' = faults + 1
  /\ handler' = [handler EXCEPT ![h] = Idle]
  /\ alone' = alone \ {h}
  /\ UNCHANGED <<keyFile, proc, cfg, run, edits, born, paths, wasPrivate, joined>>

\* SIGTERM: Shutdown waits for the handlers.
Shutdown ==
  /\ proc = "up"
  /\ \A h \in Handler : handler[h].pc = "idle"
  /\ Gone
  /\ UNCHANGED <<files, handler, bounds, history>>

\* The process ends at any point: in the middle of a write too.
Crash ==
  /\ proc # "down"
  /\ faults < MaxFaults
  /\ \/ UNCHANGED <<yaml, keyFile>> /\ cut' = (cut \/ \E h \in Handler : Writing(h))
     \/ /\ \E h \in Handler : Writing(h) /\ yaml' \in cutShort(handler[h].text)
        /\ cut' = TRUE
        /\ UNCHANGED keyFile
     \/ /\ proc = "identity" /\ keyFile[cfg.key] = Absent
        /\ keyFile' = [keyFile EXCEPT ![cfg.key] = Garbled]
        /\ UNCHANGED <<yaml, cut>>
  /\ faults' = faults + 1
  /\ Gone
  /\ handler' = [h \in Handler |-> Idle]
  /\ alone' = {}
  /\ UNCHANGED <<pskFile, edits, born, paths, wasPrivate, joined>>

\* The operator puts a config.yaml and a network.psk in place, though not in the
\* moment of a start.  Nothing reads config.yaml before the next one.
OperatorEdit(e) ==
  /\ proc \in {"down", "up"}
  /\ edits < MaxEdits
  /\ edits' = edits + 1
  /\ yaml' = Whole(e.config)
  /\ pskFile' = Whole(e.psk)
  /\ cut' = FALSE /\ wasPrivate' = FALSE /\ paths' = {}
  /\ alone' = {} /\ joined' = Nothing
  /\ UNCHANGED <<keyFile, proc, cfg, run, handler, faults, born>>

Next ==
  \/ Load
  \/ \E i \in Identity : LoadOrCreateIdentity(i)
  \/ Start
  \/ StartFails
  \/ Generate
  \/ \E h \in Handler, inv \in Invites : Accept(h, EncodeInvite(inv))
  \/ \E h \in Handler :
       \/ OpenPSK(h)
       \/ WritePSK(h)
       \/ Apply(h)
       \/ AppendPeers(h)
       \/ OpenConfig(h)
       \/ WriteConfig(h)
       \/ WriteFails(h)
  \/ Shutdown
  \/ Crash
  \/ \E e \in Edits : OperatorEdit(e)

Spec == Init /\ [][Next]_vars

-----------------------------------------------------------------------------
\* What a file may hold, of what is written to it
FileOf(S) == {Absent, Garbled} \cup {Whole(x) : x \in S}

ConfigFile == FileOf(Config)

\* Type invariant: files, the process and its handlers are in the states that the
\* code knows, and a host on a private network has a whole key.
TypeOK ==
  /\ yaml \in ConfigFile
  /\ pskFile \in FileOf(PSK)
  /\ \A k \in KeyPath : keyFile[k] \in FileOf(Identity)
  /\ proc \in {"down", "identity", "psk", "up"}
  /\ cfg \in Config
  /\ proc \in {"psk", "up"} => run.id \in Identity
  /\ proc = "up" /\ run.mode = "private" => run.psk \in PSK
  /\ \A h \in Handler :
       /\ handler[h].pc \in {"idle", "psk", "pskWrite", "apply", "append", "save", "saveWrite"}
       /\ handler[h].pc # "idle" => proc = "up" /\ handler[h].inv \in Invite
       /\ handler[h].list \subseteq Multiaddr \cup {CutAddr}
       /\ handler[h].text \in Config
  /\ edits \in 0..MaxEdits /\ faults \in 0..MaxFaults
  /\ born \subseteq [key : KeyPath, id : Identity] /\ paths \subseteq KeyPath
  /\ cut \in BOOLEAN /\ wasPrivate \in BOOLEAN
  /\ alone \subseteq Handler
  /\ joined = Nothing \/ joined \in Invite

\* While a node runs on the public network every app reaches its API without a
\* token, whatever the operator has put in config.yaml and whatever invite was
\* accepted in the meantime (Load strips api_token, checkAuth).
PublicIsOpen ==
  proc = "up" /\ run.mode = "public" =>
    \A r \in Request : originAllowed(r) => authed(cfg.token, r)

\* A key path stands for one identity for life: no crash, unreadable key or restart
\* makes the node run under a second one from there (LoadOrCreateIdentity).  And
\* unless the operator or a write of config.yaml that was cut short changes
\* keypair_path, every start is from the same path, whatever invites are accepted in
\* between (Load, Save).
IdentityStable ==
  /\ \A a, b \in born : a.key = b.key => a.id = b.id
  /\ ~ cut => \A p, q \in paths : p = q

\* A restart after an acceptance that was answered "accepted", and that no other
\* acceptance and no edit overlapped or followed, puts the node on the network of the
\* invite, with its addresses to dial, whatever failed or was cut short before it
\* (handleInviteAccept, ApplyInvite, Save, Load).
AcceptedJoins ==
  [][proc # "up" /\ proc' = "up" /\ joined # Nothing =>
       /\ run'.mode = "private"
       /\ run'.psk = joined.psk
       /\ Range(joined.addrs) \subseteq run'.peers]_vars

\* A node that ran on a private network does not come up on a public one, unless
\* the operator says so or a write of config.yaml was cut short: acceptances that
\* overlap never take it there (Load, Save).
PrivateStays ==
  proc = "up" /\ wasPrivate /\ ~ cut => run.mode = "private"

\* The code of an invite handed out is read back as the whole key of a network,
\* every address and the label, whatever the writes of network.psk left behind
\* (EncodeInvite, DecodeInvite, LoadPSK).
IssuedDecodes ==
  Issues =>
    /\ Issued.psk \in PSK
    /\ Decodable(EncodeInvite(Issued))
    /\ DecodeInvite(EncodeInvite(Issued)) = Issued
=============================================================================
