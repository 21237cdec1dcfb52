---------------------------- MODULE RendezvousNet ---------------------------
(***************************************************************************)
(* The pairing directories of several nodes and the gossip topic between    *)
(* them: handleRendezvousRegister of internal/api/rendezvous.go, the         *)
(* re-announce loop of internal/api/server.go and readLoop of                *)
(* internal/relay/rendezvous.go.  The map of a node and its methods are      *)
(* those of RendezvousRules; the file is in RendezvousStore.                 *)
(*                                                                         *)
(* The topic may delay messages, by at most MaxDelay, reorder them and, at   *)
(* most MaxLost times, lose one.  Times are counted from the present, as in  *)
(* Presence: Tick subtracts one from each of them, and now is 0.             *)
(*                                                                         *)
(* due and behind are history variables.                                    *)
(***************************************************************************)
EXTENDS RendezvousRules

CONSTANTS
  Node,
  TTL,                  \* values of ttl_seconds in registrations
  ReannounceInterval,   \* 5 min in the code
  MaxPersist,           \* bound on the time put takes to write the file
  MaxDelay,             \* bound on the time from publication to readLoop
  MaxLost,              \* bound on the messages lost
  MaxRegistrations      \* bound on the registrations

ASSUME NetAssumption ==
  /\ TTL \subseteq Int
  /\ ReannounceInterval \in Nat \ {0}
  /\ MaxPersist \in Nat
  /\ MaxDelay \in Nat
  /\ MaxLost \in Nat
  /\ MaxRegistrations \in Nat

VARIABLES
  entries,   \* [Node -> rendezvousStore.entries]
  pending,   \* [Node -> registrations stored and not yet announced]
  timer,     \* [Node -> time until the ticker of RendezvousReannounceLoop]
  inbox,     \* [Node -> messages on their way to readLoop]
  lost,      \* number of messages lost
  count,     \* number of registrations
  due,       \* [Namespace -> [Record -> when the last grant of the record ends]]
  behind     \* [Node -> [Namespace -> how long the node has lacked a record]]

vars == <<entries, pending, timer, inbox, lost, count, due, behind>>

\* How long a node may lack a record that another one keeps announcing.
SpreadTime == ReannounceInterval * (MaxLost + 1) + MaxDelay

Span == -1..(MaxTTL + MaxPersist)

rendezvousMsg ==
  [namespace : Namespace, record : Record, expires : Span, left : 0..MaxDelay]

Registration ==
  [namespace : Namespace, record : Record, ttl : 1..MaxTTL, left : 0..MaxPersist]

\* Type invariant; no lifetime is longer than MaxTTL and none is empty when granted.
TypeOK ==
  /\ entries \in [Node -> Entries]
  /\ timer \in [Node -> 0..ReannounceInterval]
  /\ pending \in [Node -> SUBSET Registration]
  /\ inbox \in [Node -> SUBSET rendezvousMsg]
  /\ lost \in 0..MaxLost
  /\ count \in 0..MaxRegistrations
  /\ due \in [Namespace -> [Record -> Span]]
  /\ behind \in [Node -> [Namespace -> 0..SpreadTime + 1]]

InTime == [n \in Node |-> [ns \in Namespace |-> 0]]

Init ==
  /\ entries = [n \in Node |-> NoEntries]
  /\ pending = [n \in Node |-> {}]
  /\ timer = [n \in Node |-> ReannounceInterval]
  /\ inbox = [n \in Node |-> {}]
  /\ lost = 0
  /\ count = 0
  /\ due = [ns \in Namespace |-> [r \in Record |-> -1]]
  /\ behind = InTime

-----------------------------------------------------------------------------
\* The inboxes after n published msgs.  readLoop skips a node's own messages.
publish(n, msgs) ==
  [m \in Node |-> IF m = n THEN inbox[m] ELSE inbox[m] \cup msgs]

message(ns, r, exp) ==
  [namespace |-> ns, record |-> r, expires |-> exp, left |-> MaxDelay]

Larger(j, k) == IF j < k THEN k ELSE j

\* handleRendezvousRegister up to the end of put
Register(n, ns, r, ttl) ==
  /\ count < MaxRegistrations
  /\ count' = count + 1
  /\ ~AtCapacity(entries[n], ns)
  /\ entries' = [entries EXCEPT ![n] = AfterPut(@, ns, r, Clip(ttl))]
  /\ pending' = [pending EXCEPT ![n] = @ \cup
       {[namespace |-> ns, record |-> r, ttl |-> Clip(ttl), left |-> MaxPersist]}]
  /\ due' = [due EXCEPT ![ns][r] = Larger(@, Clip(ttl) + MaxPersist)]
  /\ behind' = InTime
  /\ UNCHANGED <<timer, inbox, lost>>

\* Its announcement, with an expiry counted from the moment put has returned
Announce(n, reg) ==
  /\ reg \in pending[n]
  /\ pending' = [pending EXCEPT ![n] = @ \ {reg}]
  /\ inbox' = publish(n, {message(reg.namespace, reg.record, reg.ttl)})
  /\ UNCHANGED <<entries, timer, lost, count, due, behind>>

\* localEntries: the live records registered here
localEntries(n) ==
  {ns \in Used(entries[n]) : entries[n][ns].local /\ entries[n][ns].expires > 0}

\* The messages that n publishes on the next tick of RendezvousReannounceLoop
announces(n) ==
  {message(ns, entries[n][ns].record, entries[n][ns].expires) : ns \in localEntries(n)}

\* RendezvousReannounceLoop, case <-ticker.C
Reannounce(n) ==
  /\ timer[n] = 0
  /\ timer' = [timer EXCEPT ![n] = ReannounceInterval]
  /\ inbox' = publish(n, announces(n))
  /\ UNCHANGED <<entries, pending, lost, count, due, behind>>

\* Mutated form of Receive: each announcement grants the whole lifetime anew.
ReceiveRenews(n, msg) ==
  /\ msg \in inbox[n]
  /\ inbox' = [inbox EXCEPT ![n] = @ \ {msg}]
  /\ entries' = [entries EXCEPT ![n] =
       IF msg.expires <= 0 THEN @
       ELSE AfterPutRemote(@, msg.namespace, msg.record, MaxTTL)]
  /\ behind' = IF announces(n)' = announces(n) THEN behind ELSE InTime
  /\ UNCHANGED <<pending, timer, lost, count, due>>

\* readLoop and putRemote: a record that is dead on arrival is skipped.
Receive(n, msg) ==
  LET exp == Clip(msg.expires)
  IN /\ msg \in inbox[n]
     /\ inbox' = [inbox EXCEPT ![n] = @ \ {msg}]
     /\ entries' = [entries EXCEPT ![n] =
          IF msg.expires <= 0 \/ RemoteIgnored(@, msg.namespace, exp) THEN @
          ELSE AfterPutRemote(@, msg.namespace, msg.record, exp)]
     /\ behind' = IF announces(n)' # announces(n) THEN InTime
                  ELSE [behind EXCEPT ![n][msg.namespace] =
                          IF AtCapacity(entries[n], msg.namespace) THEN 0 ELSE @]
     /\ UNCHANGED <<pending, timer, lost, count, due>>

\* The topic, or a subscription whose buffer is full, drops a message.
Lose(n, msg) ==
  /\ lost < MaxLost
  /\ msg \in inbox[n]
  /\ inbox' = [inbox EXCEPT ![n] = @ \ {msg}]
  /\ lost' = lost + 1
  /\ UNCHANGED <<entries, pending, timer, count, due, behind>>

Janitor(n) ==
  /\ entries' = [entries EXCEPT ![n] = Cleaned(@, 0)]
  /\ UNCHANGED <<pending, timer, inbox, lost, count, due, behind>>

\* get of a record that has expired: the lookup removes it.
Lookup(n, ns) ==
  /\ entries[n][ns] # None /\ Past(entries[n][ns], 0)
  /\ entries' = [entries EXCEPT ![n][ns] = None]
  /\ UNCHANGED <<pending, timer, inbox, lost, count, due, behind>>

\* The process ends and starts again, with the map from a file that is up to
\* date.  What it has not announced yet is left to the re-announce loop.
Restart(n) ==
  /\ entries' = [entries EXCEPT ![n] = Loaded(@, 0)]
  /\ pending' = [pending EXCEPT ![n] = {}]
  /\ timer' = [timer EXCEPT ![n] = ReannounceInterval]
  /\ inbox' = [inbox EXCEPT ![n] = {}]
  /\ behind' = InTime
  /\ UNCHANGED <<lost, count, due>>

-----------------------------------------------------------------------------
\* Time.

Sooner(t) == IF t = -1 THEN -1 ELSE t - 1

\* Some node goes on announcing a record for ns that outlives what n has.
Lacks(n, ns) ==
  /\ ~AtCapacity(entries[n], ns)
  /\ \E m \in Node \ {n} :
       /\ ns \in localEntries(m)
       /\ entries[n][ns] = None \/ entries[n][ns].expires < entries[m][ns].expires

Tick ==
  /\ \A n \in Node : /\ timer[n] > 0
                     /\ \A msg \in inbox[n] : msg.left > 0
                     /\ \A reg \in pending[n] : reg.left > 0
  /\ entries' = [n \in Node |-> [ns \in Namespace |->
                   IF entries[n][ns] = None THEN None
                   ELSE [entries[n][ns] EXCEPT !.expires = Sooner(@)]]]
  /\ pending' = [n \in Node |-> {[reg EXCEPT !.left = @ - 1] : reg \in pending[n]}]
  /\ timer' = [n \in Node |-> timer[n] - 1]
  /\ inbox' = [n \in Node |-> {[msg EXCEPT !.left = @ - 1, !.expires = Sooner(@)] :
                                 msg \in inbox[n]}]
  /\ due' = [ns \in Namespace |-> [r \in Record |-> Sooner(due[ns][r])]]
  /\ behind' = [n \in Node |-> [ns \in Namespace |->
                  IF Lacks(n, ns) THEN behind[n][ns] + 1 ELSE 0]]
  /\ UNCHANGED <<lost, count>>

Next ==
  \/ Tick
  \/ \E n \in Node, ns \in Namespace, r \in Record, ttl \in TTL : Register(n, ns, r, ttl)
  \/ \E n \in Node : \/ Reannounce(n) \/ Janitor(n) \/ Restart(n)
                     \/ \E ns \in Namespace : Lookup(n, ns)
                     \/ \E reg \in pending[n] : Announce(n, reg)
                     \/ \E msg \in inbox[n] : Receive(n, msg) \/ Lose(n, msg)

Spec == Init /\ [][Next]_vars

-----------------------------------------------------------------------------
\* Properties.

\* No node serves or passes on a record for longer than the last registration of it
\* granted, however often it went round between nodes and through restarts
\* (readLoop, putRemote, RendezvousReannounceLoop).
NoneOverstays ==
  \A n \in Node :
    /\ \A ns \in Used(entries[n]) :
         entries[n][ns].expires <= due[ns][entries[n][ns].record]
    /\ \A msg \in inbox[n] : msg.expires <= due[msg.namespace][msg.record]

\* A record that a node goes on announcing is, after SpreadTime at the latest, at
\* every node that has had room for it since, unless that one has a record that lives
\* as long: the re-announce loop makes up for lost messages and missed announcements.
SpreadsInTime == \A n \in Node, ns \in Namespace : behind[n][ns] <= SpreadTime
=============================================================================
