------------------------------ MODULE Presence ------------------------------
(***************************************************************************)
(* internal/relay/presence.go between nodes: the announcements and          *)
(* tombstones that the managers of several nodes publish for their apps,    *)
(* the gossip topic that carries them, and the routing tables they fill.    *)
(*                                                                         *)
(* The topic may delay messages, by at most MaxDelay, reorder them and, at   *)
(* most MaxLost times, lose one.  The delay includes the time readLoop is    *)
(* busy forwarding packets for an earlier message.  Times are counted from   *)
(* the present: Tick subtracts one from every expiry, timer and deadline, so *)
(* the routing table's methods run with now = 0.  A timer that has run down  *)
(* holds the next Tick back until its goroutine has acted.                   *)
(*                                                                         *)
(* What one node reads changes nothing for another, so the tables of the     *)
(* Watched nodes are enough.  gone and dark are history variables.           *)
(***************************************************************************)
EXTENDS Integers, RelayRouter

CONSTANTS
  Home,                      \* the nodes that apps connect to
  Watched,                   \* the nodes whose routing table is followed
  PresenceTTL,               \* 60 s in the code
  PresenceRefreshInterval,   \* 45 s in the code
  MaxDelay,                  \* bound on the time from publication to readLoop
  MaxLost                    \* bound on the messages lost

ASSUME PresenceAssumption ==
  /\ Home \subseteq Node
  /\ Watched \subseteq Node
  /\ PresenceTTL \in Nat \ {0}
  /\ PresenceRefreshInterval \in Nat \ {0}
  /\ MaxDelay \in Nat
  /\ MaxLost \in Nat

VARIABLES
  up,       \* the nodes that run
  local,    \* [Node -> Manager.localApps]
  timer,    \* [Node -> [App -> time until refreshLoop's next tick]]
  table,    \* [Watched -> Router.table]
  inbox,    \* [Watched -> messages on their way to readLoop]
  lost,     \* number of messages lost
  gone,     \* [Node -> [App -> time since the app was last registered there]]
  dark      \* [Watched -> [App -> time without a route to an app that is registered]]

vars == <<up, local, timer, table, inbox, lost, gone, dark>>

\* How long a route may name a node that its app has left.
Afterlife == PresenceTTL + MaxDelay

\* How long an app that stays where it is may be without a route to it.
HealTime == PresenceRefreshInterval * (MaxLost + 1) + 2 * MaxDelay

NotDark == [m \in Watched |-> [a \in App |-> 0]]

Init ==
  /\ up = Node
  /\ local = [n \in Node |-> {}]
  /\ timer = [n \in Node |-> [a \in App |-> 0]]
  /\ table = [n \in Watched |-> EmptyTable]
  /\ inbox = [n \in Watched |-> {}]
  /\ lost = 0
  /\ gone = [n \in Node |-> [a \in App |-> Afterlife + 1]]
  /\ dark = NotDark

-----------------------------------------------------------------------------
\* The messages.

announcement(n, a) ==
  [app |-> a, via |-> n, tombstone |-> FALSE, left |-> MaxDelay]

tombstoneFor(n, a) ==
  [app |-> a, via |-> n, tombstone |-> TRUE, left |-> MaxDelay]

\* The inboxes after n published msgs.  readLoop skips a node's own messages.
publish(n, msgs) ==
  [m \in Watched |-> IF m \in up \ {n} THEN inbox[m] \cup msgs ELSE inbox[m]]

-----------------------------------------------------------------------------
\* AppConnected: the app is registered and announced, and its refreshLoop, in
\* place of any earlier one, starts a ticker.
AppConnected(n, a) ==
  /\ n \in up
  /\ local' = [local EXCEPT ![n] = @ \cup {a}]
  /\ timer' = [timer EXCEPT ![n][a] = PresenceRefreshInterval]
  /\ inbox' = publish(n, {announcement(n, a)})
  /\ gone' = [gone EXCEPT ![n][a] = 0]
  /\ dark' = NotDark
  /\ UNCHANGED <<up, table, lost>>

\* AppDisconnected: the tombstone is published.  A refreshLoop whose tick has
\* come may take it before it sees that it is cancelled, and announces the app
\* once more.
AppDisconnected(n, a) ==
  /\ a \in local[n]
  /\ local' = [local EXCEPT ![n] = @ \ {a}]
  /\ timer' = [timer EXCEPT ![n][a] = 0]
  /\ \/ inbox' = publish(n, {tombstoneFor(n, a)})
     \/ /\ timer[n][a] = 0
        /\ inbox' = publish(n, {tombstoneFor(n, a), announcement(n, a)})
  /\ dark' = NotDark
  /\ UNCHANGED <<up, table, lost, gone>>

\* Mutated form of Refresh: the app is announced when it connects and not again.
RefreshSilent(n, a) ==
  /\ a \in local[n]
  /\ timer[n][a] = 0
  /\ timer' = [timer EXCEPT ![n][a] = PresenceRefreshInterval]
  /\ UNCHANGED <<up, local, table, inbox, lost, gone, dark>>

\* refreshLoop, case <-ticker.C
Refresh(n, a) ==
  /\ a \in local[n]
  /\ timer[n][a] = 0
  /\ timer' = [timer EXCEPT ![n][a] = PresenceRefreshInterval]
  /\ inbox' = publish(n, {announcement(n, a)})
  /\ UNCHANGED <<up, local, table, lost, gone, dark>>

\* readLoop at m
Receive(m, msg) ==
  /\ msg \in inbox[m]
  /\ inbox' = [inbox EXCEPT ![m] = @ \ {msg}]
  /\ table' = [table EXCEPT ![m] =
                 IF msg.tombstone THEN Remove(@, msg.app)
                 ELSE Upsert(@, msg.app, msg.via, 0, PresenceTTL)]
  /\ UNCHANGED <<up, local, timer, lost, gone, dark>>

\* The topic, or a subscription whose buffer is full, drops a message.
Lose(m, msg) ==
  /\ lost < MaxLost
  /\ msg \in inbox[m]
  /\ inbox' = [inbox EXCEPT ![m] = @ \ {msg}]
  /\ lost' = lost + 1
  /\ UNCHANGED <<up, local, timer, table, gone, dark>>

Prune(n) ==
  /\ table' = [table EXCEPT ![n] = Pruned(@, 0)]
  /\ UNCHANGED <<up, local, timer, inbox, lost, gone, dark>>

\* A node stops: the context it publishes with ends before its sockets do, so
\* that the tombstones of its apps go out or not.  After a crash none does.
Stop(n) ==
  /\ n \in up
  /\ up' = up \ {n}
  /\ local' = [local EXCEPT ![n] = {}]
  /\ timer' = [timer EXCEPT ![n] = [a \in App |-> 0]]
  /\ table' = [m \in Watched |-> IF m = n THEN EmptyTable ELSE table[m]]
  /\ \E said \in SUBSET local[n] :
       LET sent == publish(n, {tombstoneFor(n, a) : a \in said})
       IN inbox' = [m \in Watched |-> IF m = n THEN {} ELSE sent[m]]
  /\ dark' = NotDark
  /\ UNCHANGED <<lost, gone>>

Restart(n) ==
  /\ n \notin up
  /\ up' = up \cup {n}
  /\ dark' = NotDark
  /\ UNCHANGED <<local, timer, table, inbox, lost, gone>>

-----------------------------------------------------------------------------
\* Time.

Hosts(a) == {n \in up : a \in local[n]}

\* m has no use for its table while the app is its own.
Unreachable(m, a) ==
  /\ m \in up \ Hosts(a)
  /\ Hosts(a) # {}
  /\ Lookup(table[m], a, 0) \notin Hosts(a)

OneLess(e) == IF e = NoRoute \/ e.expires = -1 THEN e ELSE [e EXCEPT !.expires = @ - 1]

AtMost(k, max) == IF k < max THEN k ELSE max

Tick ==
  /\ \A n \in Node : \A a \in local[n] : timer[n][a] > 0
  /\ \A m \in Watched : \A msg \in inbox[m] : msg.left > 0
  /\ timer' = [n \in Node |-> [a \in App |-> IF a \in local[n] THEN timer[n][a] - 1
                                             ELSE timer[n][a]]]
  /\ table' = [n \in Watched |-> [a \in App |-> OneLess(table[n][a])]]
  /\ inbox' = [m \in Watched |-> {[msg EXCEPT !.left = @ - 1] : msg \in inbox[m]}]
  /\ gone' = [n \in Node |-> [a \in App |->
                IF a \in local[n] THEN 0 ELSE AtMost(gone[n][a] + 1, Afterlife + 1)]]
  /\ dark' = [m \in Watched |-> [a \in App |->
                IF Unreachable(m, a) THEN AtMost(dark[m][a] + 1, HealTime + 1) ELSE 0]]
  /\ UNCHANGED <<up, local, lost>>

Next ==
  \/ Tick
  \/ \E n \in Home, a \in App : AppConnected(n, a) \/ AppDisconnected(n, a) \/ Refresh(n, a)
  \/ \E m \in Watched : Prune(m) \/ \E msg \in inbox[m] : Receive(m, msg) \/ Lose(m, msg)
  \/ \E n \in Node : Stop(n) \/ Restart(n)

Spec == Init /\ [][Next]_vars

-----------------------------------------------------------------------------
\* Properties.

\* A node forwards packets for an app only to a node that the app is connected to
\* or was until PresenceTTL and the delay of gossip ago: late and repeated
\* announcements, lost tombstones and crashed nodes keep no route alive for longer
\* (readLoop, Upsert, Lookup).
RouteBacked ==
  \A m \in Watched, n \in Node, a \in App :
    Lookup(table[m], a, 0) = n => gone[n][a] <= Afterlife

\* While apps stay where they are, no node is for longer than HealTime without a
\* route to a node that an app is connected to: the refresh repairs what lost
\* announcements, and tombstones of its last node that come late, have done to it
\* (refreshLoop, readLoop).
HealsInTime == \A m \in Watched, a \in App : dark[m][a] <= HealTime
=============================================================================
