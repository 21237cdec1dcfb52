------------------------------ MODULE PeerMemory ----------------------------
(***************************************************************************)
(* internal/host/peers.go with its callers in cmd/node/main.go: how nodes   *)
(* remember the peers they were connected to and redial them after crashes, *)
(* restarts and lost connections.                                          *)
(*                                                                         *)
(* Nodes meet by discovery.  At boot and every 90 seconds a node dials its   *)
(* bootstrap peers and the peers it remembers.  It remembers whoever it is   *)
(* connected to when it takes a snapshot, and writes what it remembers to    *)
(* known_peers.json with a plain os.WriteFile, which empties the file first: *)
(* a crash in the middle of it, or a write that fails, as on a full disk,    *)
(* leaves a file that the next boot cannot read, which is a fresh start.     *)
(*                                                                         *)
(* Left out: addresses (a peer that is up is reached at a remembered one),   *)
(* the 30 days after which a peer is forgotten and the cap of 64 peers.     *)
(* Outages are shorter and networks smaller than that.                     *)
(***************************************************************************)
EXTENDS Naturals

CONSTANTS
  Mesh,          \* the nodes
  Bootstrap,     \* the peers in the bootstrap list of every node; those that are
                 \* not in Mesh are never up
  Returning,     \* the nodes that are started again after they stop
  MaxFailures,   \* bound on crashes, stops and lost connections together
  MaxTorn        \* bound on writes that fail or crash once the file is emptied

ASSUME MeshAssumption ==
  /\ Returning \subseteq Mesh
  /\ MaxFailures \in Nat
  /\ MaxTorn \in Nat

VARIABLES
  pc,        \* [Mesh -> "off", "booting" or "running"]
  links,     \* the pairs of nodes that are connected
  peers,     \* [Mesh -> PeerMemory.peers]
  dirty,     \* [Mesh -> PeerMemory.dirty]
  file,      \* [Mesh -> what LoadPeerMemory would read from known_peers.json]
  todo,      \* [Mesh -> the targets that ConnectPeers has still to dial]
  failures,  \* how much of MaxFailures is used up
  torn       \* how much of MaxTorn is used up

memoryVars == <<pc, links, peers, dirty, file, todo, failures, torn>>

MemoryInit ==
  /\ pc = [n \in Mesh |-> "off"]
  /\ links = {}
  /\ peers = [n \in Mesh |-> {}]
  /\ dirty = [n \in Mesh |-> FALSE]
  /\ file = [n \in Mesh |-> {}]
  /\ todo = [n \in Mesh |-> {}]
  /\ failures = 0
  /\ torn = 0

-----------------------------------------------------------------------------
Neighbours(n) == {m \in Mesh \ {n} : {n, m} \in links}

\* Snapshot adds the connected peers and forgets nobody.
Seen(n) == peers[n] \cup Neighbours(n)

Changed(n) == dirty[n] \/ Neighbours(n) # {}

\* DialTargets and MergeTargets; ConnectPeers skips the node itself.
Targets(n, known) == (Bootstrap \cup known) \ {n}

\* os.WriteFile ends before all of it is written, in a crash or with an error.
Tear(n) ==
  /\ torn < MaxTorn
  /\ torn' = torn + 1
  /\ file' = [file EXCEPT ![n] = {}]

\* Mutated form of SnapshotAndSave: the file gets only the present neighbours.
SnapshotAndSaveForgets(n) ==
  /\ peers' = [peers EXCEPT ![n] = Neighbours(n)]
  /\ \/ /\ file' = [file EXCEPT ![n] = Neighbours(n)]
        /\ dirty' = [dirty EXCEPT ![n] = FALSE]
        /\ UNCHANGED torn
     \/ /\ dirty' = [dirty EXCEPT ![n] = Changed(n)]
        /\ Tear(n) \/ UNCHANGED <<file, torn>>

\* Snapshot, then Save, which writes nothing when nothing changed and keeps the
\* dirty flag when the write fails: os.WriteFile cannot open the file, or cannot
\* write it once it is emptied.
SnapshotAndSave(n) ==
  /\ peers' = [peers EXCEPT ![n] = Seen(n)]
  /\ \/ /\ file' = IF Changed(n) THEN [file EXCEPT ![n] = Seen(n)] ELSE file
        /\ dirty' = [dirty EXCEPT ![n] = FALSE]
        /\ UNCHANGED torn
     \/ /\ Changed(n)
        /\ dirty' = [dirty EXCEPT ![n] = TRUE]
        /\ Tear(n) \/ UNCHANGED <<file, torn>>

\* run, up to the first ConnectPeers
Boot(n) ==
  /\ pc[n] = "off"
  /\ pc' = [pc EXCEPT ![n] = "booting"]
  /\ peers' = [peers EXCEPT ![n] = file[n]]
  /\ dirty' = [dirty EXCEPT ![n] = FALSE]
  /\ todo' = [todo EXCEPT ![n] = Targets(n, file[n])]
  /\ UNCHANGED <<links, file, failures, torn>>

\* One target of ConnectPeers: connected to already, reached, or not up.
Dial(n, m) ==
  /\ m \in todo[n]
  /\ links' = IF m \in Mesh /\ pc[m] # "off" THEN links \cup {{n, m}} ELSE links
  /\ todo' = [todo EXCEPT ![n] = @ \ {m}]
  /\ UNCHANGED <<pc, peers, dirty, file, failures, torn>>

\* The end of the first ConnectPeers.  A node without targets saves nothing.
BootDone(n) ==
  /\ pc[n] = "booting"
  /\ todo[n] = {}
  /\ pc' = [pc EXCEPT ![n] = "running"]
  /\ IF Targets(n, peers[n]) # {} THEN SnapshotAndSave(n)
     ELSE UNCHANGED <<peers, dirty, file, torn>>
  /\ UNCHANGED <<links, todo, failures>>

\* Mutated form of Reconnect: only the bootstrap peers are dialled again.
ReconnectBootstrap(n) ==
  /\ pc[n] = "running"
  /\ todo[n] = {}
  /\ SnapshotAndSave(n)
  /\ todo' = [todo EXCEPT ![n] = Targets(n, {})]
  /\ UNCHANGED <<pc, links, failures>>

\* A tick of persistentReconnectLoop
Reconnect(n) ==
  /\ pc[n] = "running"
  /\ todo[n] = {}
  /\ SnapshotAndSave(n)
  /\ todo' = [todo EXCEPT ![n] = Targets(n, Seen(n))]
  /\ UNCHANGED <<pc, links, failures>>

\* Discovery in the DHT or on the LAN connects n to a node it need not remember.
Discover(n, m) ==
  /\ n # m
  /\ pc[n] # "off" /\ pc[m] # "off"
  /\ {n, m} \notin links
  /\ links' = links \cup {{n, m}}
  /\ UNCHANGED <<pc, peers, dirty, file, todo, failures, torn>>

-----------------------------------------------------------------------------
\* Failures

\* The process of n ends, and with it its connections.
Down(n) ==
  /\ failures < MaxFailures
  /\ failures' = failures + 1
  /\ pc' = [pc EXCEPT ![n] = "off"]
  /\ links' = {e \in links : n \notin e}
  /\ todo' = [todo EXCEPT ![n] = {}]

\* SIGTERM: a last snapshot is saved while the connections are still there.
Stop(n) ==
  /\ pc[n] # "off"
  /\ Down(n)
  /\ SnapshotAndSave(n)

Crash(n) ==
  /\ pc[n] # "off"
  /\ Down(n)
  /\ UNCHANGED <<peers, dirty, file, torn>>

\* A crash while Save writes the file, which it does once the first ConnectPeers
\* has ended.
CrashInSave(n) ==
  /\ \/ pc[n] = "running"
     \/ pc[n] = "booting" /\ todo[n] = {} /\ Targets(n, peers[n]) # {}
  /\ Changed(n)
  /\ Tear(n)
  /\ Down(n)
  /\ UNCHANGED <<peers, dirty>>

Disconnect(e) ==
  /\ failures < MaxFailures
  /\ e \in links
  /\ failures' = failures + 1
  /\ links' = links \ {e}
  /\ UNCHANGED <<pc, peers, dirty, file, todo, torn>>

MemoryNext ==
  \/ \E n \in Mesh : \/ Boot(n) \/ BootDone(n) \/ Reconnect(n)
                     \/ Stop(n) \/ Crash(n) \/ CrashInSave(n)
  \/ \E n \in Mesh, m \in Mesh \cup Bootstrap : Dial(n, m)
  \/ \E n, m \in Mesh : Discover(n, m)
  \/ \E e \in links : Disconnect(e)

\* Nodes that return are started again, the reconnect ticker ticks, and a dial
\* ends within its deadline.  Discovery need not find anyone: private networks
\* have no DHT, and mDNS is for the LAN.
MemorySpec ==
  /\ MemoryInit /\ [][MemoryNext]_memoryVars
  /\ \A n \in Returning : WF_memoryVars(Boot(n))
  /\ \A n \in Mesh : /\ WF_memoryVars(BootDone(n))
                     /\ WF_memoryVars(Reconnect(n))
                     /\ WF_memoryVars(\E m \in Mesh \cup Bootstrap : Dial(n, m))

-----------------------------------------------------------------------------
\* Properties.

\* main.go:186 "Remembering who we were connected to lets every node redial the
\* mesh it last saw, so the network heals from whichever side comes back first":
\* two nodes that have each other on file end up connected again after whatever
\* crashes, stops and lost connections follow, with no bootstrap node up, even if
\* one crash or one failed write destroys a file.
MeshHeals ==
  \A n, m \in Returning :
    (m \in file[n] /\ n \in file[m]) ~> [](<>({n, m} \in links))

\* A running node forgets nobody: what a boot would load from the file, it still
\* remembers, and it keeps dialling the peers that were up when the file was saved.
FileIsRemembered == \A n \in Mesh : pc[n] # "off" => file[n] \subseteq peers[n]

\* Nor does the file: a save after a crash, a restart or a save that failed never
\* writes less than what earlier processes saved, and only a write that crashes or
\* fails once os.WriteFile has emptied the file loses it.
FileForgetsNobody == [][torn' > torn \/ \A n \in Mesh : file[n] \subseteq file'[n]]_memoryVars
=============================================================================
