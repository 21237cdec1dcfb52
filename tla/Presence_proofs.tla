--------------------------- MODULE Presence_proofs --------------------------
(***************************************************************************)
(* Theorems about Presence, for any number of nodes, apps and lost messages   *)
(* and for any lengths of time.                                             *)
(***************************************************************************)
EXTENDS Presence, FiniteSetTheorems, TLAPS

-----------------------------------------------------------------------------
(***************************************************************************)
(* Types.                                                                  *)
(***************************************************************************)

\* Times are counted from the present: an entry that has expired is at -1.
Route == [via : Node, expires : -1..PresenceTTL]

Routes == [App -> Route \cup {NoRoute}]

Message == [app : App, via : Node, tombstone : BOOLEAN, left : 0..MaxDelay]

Types ==
  /\ up \subseteq Node
  /\ local \in [Node -> SUBSET App]
  /\ \A n \in Node : local[n] # {} => n \in up
  /\ timer \in [Node -> [App -> 0..PresenceRefreshInterval]]
  /\ table \in [Watched -> Routes]
  /\ inbox \in [Watched -> SUBSET Message]
  /\ lost \in 0..MaxLost
  /\ gone \in [Node -> [App -> Nat]]
  /\ dark \in [Watched -> [App -> Nat]]

LEMMA MessageTypes ==
  ASSUME NEW n \in Node, NEW a \in App
  PROVE  announcement(n, a) \in Message /\ tombstoneFor(n, a) \in Message
<1>1. MaxDelay \in 0..MaxDelay
  BY PresenceAssumption
<1>2. QED
  BY <1>1 DEF announcement, tombstoneFor, Message

LEMMA PublishTypes ==
  ASSUME Types, NEW n, NEW msgs \in SUBSET Message
  PROVE  publish(n, msgs) \in [Watched -> SUBSET Message]
  BY DEF publish, Types

LEMMA NotDarkType == NotDark \in [Watched -> [App -> Nat]]
  BY DEF NotDark

LEMMA Durations == Afterlife \in Nat /\ HealTime \in Nat
<1>1. PresenceRefreshInterval * (MaxLost + 1) \in Nat
  BY PresenceAssumption
<1>2. QED
  BY <1>1, PresenceAssumption DEF Afterlife, HealTime

LEMMA TypesInit == Init => Types
<1> USE PresenceAssumption
<1>1. Afterlife + 1 \in Nat
  BY Durations
<1>2. QED
  BY <1>1, NotDarkType DEF Init, Types, EmptyTable, Routes

LEMMA TypesStep == Types /\ [Next]_vars => Types'
<1> SUFFICES ASSUME Types, [Next]_vars PROVE Types'
  OBVIOUS
<1> USE PresenceAssumption
<1>1. CASE Tick
  <2>1. timer' \in [Node -> [App -> 0..PresenceRefreshInterval]]
    <3>1. ASSUME NEW n \in Node, NEW a \in App
          PROVE  (IF a \in local[n] THEN timer[n][a] - 1 ELSE timer[n][a])
                   \in 0..PresenceRefreshInterval
      <4>1. timer[n][a] \in 0..PresenceRefreshInterval
        BY DEF Types
      <4>2. a \in local[n] => timer[n][a] > 0
        BY <1>1 DEF Tick
      <4>3. QED
        BY <4>1, <4>2
    <3>2. timer' = [n \in Node |-> [a \in App |->
                      IF a \in local[n] THEN timer[n][a] - 1 ELSE timer[n][a]]]
      BY <1>1 DEF Tick
    <3>3. QED
      BY <3>1, <3>2
  <2>2. table' \in [Watched -> Routes]
    <3>1. ASSUME NEW m \in Watched, NEW a \in App
          PROVE  OneLess(table[m][a]) \in Route \cup {NoRoute}
      <4>1. table[m][a] \in Route \cup {NoRoute}
        BY DEF Types, Routes
      <4>2. CASE table[m][a] # NoRoute /\ table[m][a].expires # -1
        <5>1. table[m][a] \in Route
          BY <4>1, <4>2
        <5>2. table[m][a].expires - 1 \in -1..PresenceTTL
          BY <4>2, <5>1 DEF Route
        <5>3. QED
          BY <4>2, <5>1, <5>2 DEF Route, OneLess
      <4>3. QED
        BY <4>1, <4>2 DEF OneLess
    <3>2. table' = [m \in Watched |-> [a \in App |-> OneLess(table[m][a])]]
      BY <1>1 DEF Tick
    <3>3. QED
      BY <3>1, <3>2 DEF Routes
  <2>3. inbox' \in [Watched -> SUBSET Message]
    <3>1. ASSUME NEW m \in Watched, NEW msg \in inbox[m]
          PROVE  [msg EXCEPT !.left = @ - 1] \in Message
      <4>1. msg \in Message /\ msg.left > 0
        BY <1>1 DEF Tick, Types
      <4>2. msg.left - 1 \in 0..MaxDelay
        BY <4>1 DEF Message
      <4>3. QED
        BY <4>1, <4>2 DEF Message
    <3>2. inbox' = [m \in Watched |-> {[msg EXCEPT !.left = @ - 1] : msg \in inbox[m]}]
      BY <1>1 DEF Tick
    <3>3. QED
      BY <3>1, <3>2
  <2>4. gone' \in [Node -> [App -> Nat]]
    <3>1. \A n \in Node, a \in App :
            (IF a \in local[n] THEN 0 ELSE AtMost(gone[n][a] + 1, Afterlife + 1)) \in Nat
      BY Durations DEF AtMost, Types
    <3>2. gone' = [n \in Node |-> [a \in App |->
                     IF a \in local[n] THEN 0 ELSE AtMost(gone[n][a] + 1, Afterlife + 1)]]
      BY <1>1 DEF Tick
    <3>3. QED
      BY <3>1, <3>2
  <2>5. dark' \in [Watched -> [App -> Nat]]
    <3>1. \A m \in Watched, a \in App :
            (IF Unreachable(m, a) THEN AtMost(dark[m][a] + 1, HealTime + 1) ELSE 0) \in Nat
      BY Durations DEF AtMost, Types
    <3>2. dark' = [m \in Watched |-> [a \in App |->
                     IF Unreachable(m, a) THEN AtMost(dark[m][a] + 1, HealTime + 1) ELSE 0]]
      BY <1>1 DEF Tick
    <3>3. QED
      BY <3>1, <3>2
  <2>6. UNCHANGED <<up, local, lost>>
    BY <1>1 DEF Tick
  <2>7. QED
    BY <2>1, <2>2, <2>3, <2>4, <2>5, <2>6 DEF Types
<1>2. ASSUME NEW n \in Home, NEW a \in App, AppConnected(n, a) PROVE Types'
  <2>1. inbox' \in [Watched -> SUBSET Message]
    BY <1>2, MessageTypes, PublishTypes DEF AppConnected
  <2>2. timer' \in [Node -> [App -> 0..PresenceRefreshInterval]]
    BY <1>2 DEF AppConnected, Types
  <2>3. \A k \in Node : local'[k] # {} => k \in up'
    BY <1>2 DEF AppConnected, Types
  <2>4. QED
    BY <1>2, <2>1, <2>2, <2>3, NotDarkType DEF AppConnected, Types
<1>3. ASSUME NEW n \in Home, NEW a \in App, AppDisconnected(n, a) PROVE Types'
  <2>1. inbox' \in [Watched -> SUBSET Message]
    BY <1>3, MessageTypes, PublishTypes DEF AppDisconnected
  <2>2. timer' \in [Node -> [App -> 0..PresenceRefreshInterval]]
    BY <1>3 DEF AppDisconnected, Types
  <2>3. \A k \in Node : local'[k] # {} => k \in up'
    BY <1>3 DEF AppDisconnected, Types
  <2>4. QED
    BY <1>3, <2>1, <2>2, <2>3, NotDarkType DEF AppDisconnected, Types
<1>4. ASSUME NEW n \in Home, NEW a \in App, Refresh(n, a) PROVE Types'
  <2>1. inbox' \in [Watched -> SUBSET Message]
    BY <1>4, MessageTypes, PublishTypes DEF Refresh
  <2>2. timer' \in [Node -> [App -> 0..PresenceRefreshInterval]]
    BY <1>4 DEF Refresh, Types
  <2>3. QED
    BY <1>4, <2>1, <2>2 DEF Refresh, Types
<1>5. ASSUME NEW m \in Watched, Prune(m) PROVE Types'
  <2>1. Pruned(table[m], 0) \in Routes
    BY DEF Types, Pruned, Routes
  <2>2. QED
    BY <1>5, <2>1 DEF Prune, Types
<1>6. ASSUME NEW m \in Watched, NEW msg \in inbox[m], Receive(m, msg) PROVE Types'
  <2>1. msg \in Message
    BY DEF Types
  <2>2. [via |-> msg.via, expires |-> 0 + PresenceTTL] \in Route
    BY <2>1 DEF Message, Route
  <2>3. /\ Remove(table[m], msg.app) \in Routes
        /\ Upsert(table[m], msg.app, msg.via, 0, PresenceTTL) \in Routes
    BY <2>1, <2>2 DEF Types, Remove, Upsert, Routes
  <2>4. QED
    BY <1>6, <2>3 DEF Receive, Types
<1>7. ASSUME NEW m \in Watched, NEW msg \in inbox[m], Lose(m, msg) PROVE Types'
  BY <1>7 DEF Lose, Types
<1>8. ASSUME NEW n \in Node, Stop(n) PROVE Types'
  <2>1. inbox' \in [Watched -> SUBSET Message]
    <3>1. PICK said \in SUBSET local[n] :
            inbox' = [m \in Watched |-> IF m = n THEN {}
                        ELSE publish(n, {tombstoneFor(n, a) : a \in said})[m]]
      BY <1>8 DEF Stop
    <3>2. {tombstoneFor(n, a) : a \in said} \in SUBSET Message
      BY MessageTypes DEF Types
    <3>3. publish(n, {tombstoneFor(n, a) : a \in said}) \in [Watched -> SUBSET Message]
      BY <3>2, PublishTypes
    <3>4. QED
      BY <3>1, <3>3
  <2>2. timer' \in [Node -> [App -> 0..PresenceRefreshInterval]]
    BY <1>8 DEF Stop, Types
  <2>3. table' \in [Watched -> Routes]
    BY <1>8 DEF Stop, Types, EmptyTable, Routes
  <2>4. \A k \in Node : local'[k] # {} => k \in up'
    BY <1>8 DEF Stop, Types
  <2>5. QED
    BY <1>8, <2>1, <2>2, <2>3, <2>4, NotDarkType DEF Stop, Types
<1>9. ASSUME NEW n \in Node, Restart(n) PROVE Types'
  BY <1>9, NotDarkType DEF Restart, Types
<1>10. CASE UNCHANGED vars
  BY <1>10 DEF vars, Types
<1>11. QED
  BY <1>1, <1>2, <1>3, <1>4, <1>5, <1>6, <1>7, <1>8, <1>9, <1>10 DEF Next

-----------------------------------------------------------------------------
(***************************************************************************)
(* Routes.  An announcement was sent when its app was there, and an entry     *)
(* was made from one that was under way for at most MaxDelay.                *)
(***************************************************************************)

BackInv ==
  /\ \A n \in Node : \A a \in local[n] : gone[n][a] = 0
  /\ \A m \in Watched : \A msg \in inbox[m] :
       ~msg.tombstone => gone[msg.via][msg.app] + msg.left <= MaxDelay
  /\ \A m \in Watched, a \in App :
       Known(table[m], a, 0) => gone[table[m][a].via][a] + table[m][a].expires <= Afterlife

LEMMA BackInit == Init => BackInv
  BY DEF Init, BackInv, EmptyTable, Known

LEMMA BackImplies == Types /\ BackInv => RouteBacked
<1> SUFFICES ASSUME Types, BackInv, NEW m \in Watched, NEW n \in Node, NEW a \in App,
                    Lookup(table[m], a, 0) = n
             PROVE  gone[n][a] <= Afterlife
  BY DEF RouteBacked
<1>1. Known(table[m], a, 0) /\ table[m][a].via = n
  BY RouterAssumption DEF Lookup
<1>2. gone[n][a] + table[m][a].expires <= Afterlife
  BY <1>1 DEF BackInv
<1>3. table[m][a] \in Route /\ ~(0 > table[m][a].expires)
  BY <1>1 DEF Types, Routes, Known, Expired
<1>4. gone[n][a] \in Nat /\ table[m][a].expires \in Nat
  BY <1>3, PresenceAssumption DEF Types, Route
<1>5. QED
  BY <1>2, <1>4, Durations

\* A step that publishes and removes messages, and leaves the tables alone or
\* forgets entries.
LEMMA BackPublish ==
  ASSUME Types, BackInv, gone' = gone,
         \A n \in Node : local'[n] \subseteq local[n],
         \A m \in Watched : \A msg \in inbox'[m] :
           \/ msg \in inbox[m]
           \/ msg.tombstone
           \/ \E n \in Node : \E a \in local[n] : msg = announcement(n, a),
         \A m \in Watched, a \in App :
           Known(table'[m], a, 0) => table'[m][a] = table[m][a]
  PROVE  BackInv'
<1> USE PresenceAssumption
<1>1. \A n \in Node : \A a \in local'[n] : gone'[n][a] = 0
  BY DEF BackInv
<1>2. ASSUME NEW m \in Watched, NEW msg \in inbox'[m], ~msg.tombstone
      PROVE  gone'[msg.via][msg.app] + msg.left <= MaxDelay
  <2>1. CASE msg \in inbox[m]
    BY <1>2, <2>1 DEF BackInv
  <2>2. CASE \E n \in Node : \E a \in local[n] : msg = announcement(n, a)
    BY <2>2 DEF BackInv, announcement
  <2>3. QED
    BY <1>2, <2>1, <2>2
<1>3. \A m \in Watched, a \in App :
        Known(table'[m], a, 0) =>
          gone'[table'[m][a].via][a] + table'[m][a].expires <= Afterlife
  BY DEF BackInv, Known
<1>4. QED
  BY <1>1, <1>2, <1>3 DEF BackInv

LEMMA BackTick == ASSUME Types, BackInv, Tick PROVE BackInv'
<1> USE PresenceAssumption
<1>1. ASSUME NEW n \in Node, NEW a \in App
      PROVE  /\ gone[n][a] \in Nat /\ gone'[n][a] \in Nat
             /\ gone'[n][a] <= gone[n][a] + 1
             /\ a \in local'[n] => gone'[n][a] = 0
  <2>1. gone'[n][a] = IF a \in local[n] THEN 0 ELSE AtMost(gone[n][a] + 1, Afterlife + 1)
    BY DEF Tick
  <2>2. gone[n][a] \in Nat /\ local' = local
    BY DEF Types, Tick
  <2>3. QED
    BY <2>1, <2>2, Durations DEF AtMost
<1>2. ASSUME NEW m \in Watched, NEW msg \in inbox'[m], ~msg.tombstone
      PROVE  gone'[msg.via][msg.app] + msg.left <= MaxDelay
  <2>1. PICK old \in inbox[m] : msg = [old EXCEPT !.left = @ - 1]
    BY DEF Tick
  <2>2. old \in Message
    BY DEF Types
  <2>3. /\ msg.via = old.via /\ msg.app = old.app /\ msg.tombstone = old.tombstone
        /\ msg.left = old.left - 1 /\ old.left \in Nat
        /\ old.via \in Node /\ old.app \in App
    BY <2>1, <2>2 DEF Message
  <2>4. gone[old.via][old.app] + old.left <= MaxDelay
    BY <1>2, <2>3 DEF BackInv
  <2>5. QED
    BY <1>1, <2>3, <2>4
<1>3. ASSUME NEW m \in Watched, NEW a \in App, Known(table'[m], a, 0)
      PROVE  gone'[table'[m][a].via][a] + table'[m][a].expires <= Afterlife
  <2>1. table'[m][a] = OneLess(table[m][a]) /\ table[m][a] \in Route \cup {NoRoute}
    BY DEF Tick, Types, Routes
  <2>2. table'[m][a] # NoRoute /\ ~(0 > table'[m][a].expires)
    BY <1>3 DEF Known, Expired
  <2>3. table[m][a] # NoRoute /\ table[m][a] \in Route
    BY <2>1, <2>2 DEF OneLess
  <2>4. table[m][a].expires # -1
    BY <2>1, <2>2 DEF OneLess
  <2>5. /\ table'[m][a].via = table[m][a].via
        /\ table'[m][a].expires = table[m][a].expires - 1
        /\ table[m][a].via \in Node /\ table[m][a].expires \in Nat
    BY <2>1, <2>3, <2>4 DEF OneLess, Route
  <2>6. Known(table[m], a, 0)
    BY <2>3, <2>5 DEF Known, Expired
  <2>7. gone[table[m][a].via][a] + table[m][a].expires <= Afterlife
    BY <2>6 DEF BackInv
  <2>8. QED
    BY <1>1, <2>5, <2>7, Durations
<1>4. QED
  BY <1>1, <1>2, <1>3 DEF BackInv, Tick, Types

LEMMA BackStep == Types /\ BackInv /\ [Next]_vars => BackInv'
<1> SUFFICES ASSUME Types, BackInv, [Next]_vars PROVE BackInv'
  OBVIOUS
<1> USE PresenceAssumption
<1>1. CASE Tick
  BY <1>1, BackTick
<1>2. ASSUME NEW n \in Home, NEW a \in App, AppConnected(n, a) PROVE BackInv'
  <2>1. /\ gone' = [gone EXCEPT ![n][a] = 0]
        /\ local' = [local EXCEPT ![n] = @ \cup {a}]
        /\ inbox' = publish(n, {announcement(n, a)})
        /\ table' = table
    BY <1>2 DEF AppConnected
  <2>2. \A k \in Node, b \in App :
          gone'[k][b] \in Nat /\ gone[k][b] \in Nat /\ gone'[k][b] <= gone[k][b]
    BY <2>1 DEF Types
  <2>3. gone'[n][a] = 0
    BY <2>1 DEF Types
  <2>4. \A k \in Node : \A b \in local'[k] : gone'[k][b] = 0
    <3>1. ASSUME NEW k \in Node, NEW b \in local'[k], ~(k = n /\ b = a)
          PROVE  gone'[k][b] = 0
      <4>1. b \in local[k]
        BY <2>1, <3>1 DEF Types
      <4>2. gone[k][b] = 0 /\ b \in App
        BY <4>1 DEF BackInv, Types
      <4>3. QED
        BY <2>2, <4>2
    <3>2. QED
      BY <2>3, <3>1
  <2>5. ASSUME NEW m \in Watched, NEW msg \in inbox'[m], ~msg.tombstone
        PROVE  gone'[msg.via][msg.app] + msg.left <= MaxDelay
    <3>1. CASE msg \in inbox[m]
      <4>1. msg \in Message /\ gone[msg.via][msg.app] + msg.left <= MaxDelay
        BY <2>5, <3>1 DEF BackInv, Types
      <4>2. msg.via \in Node /\ msg.app \in App /\ msg.left \in Nat
        BY <4>1 DEF Message
      <4>3. QED
        BY <2>2, <4>1, <4>2
    <3>2. CASE msg = announcement(n, a)
      BY <2>3, <3>2 DEF announcement
    <3>3. QED
      BY <2>1, <3>1, <3>2 DEF publish
  <2>6. ASSUME NEW m \in Watched, NEW b \in App, Known(table'[m], b, 0)
        PROVE  gone'[table'[m][b].via][b] + table'[m][b].expires <= Afterlife
    <3>1. table[m][b] \in Route /\ gone[table[m][b].via][b] + table[m][b].expires <= Afterlife
      <4>1. Known(table[m], b, 0)
        BY <2>1, <2>6
      <4>2. table[m][b] \in Route
        BY <4>1 DEF Known, Types, Routes
      <4>3. QED
        BY <4>1, <4>2 DEF BackInv
    <3>2. table[m][b].via \in Node /\ table[m][b].expires \in Int
      BY <3>1 DEF Route
    <3>3. QED
      BY <2>1, <2>2, <3>1, <3>2, Durations
  <2>7. QED
    BY <2>4, <2>5, <2>6 DEF BackInv
<1>3. ASSUME NEW n \in Home, NEW a \in App, AppDisconnected(n, a) PROVE BackInv'
  <2>1. UNCHANGED <<gone, table>> /\ \A k \in Node : local'[k] \subseteq local[k]
    BY <1>3 DEF AppDisconnected, Types
  <2>2. tombstoneFor(n, a).tombstone /\ a \in local[n] /\ n \in Node
    BY <1>3 DEF tombstoneFor, AppDisconnected
  <2>3. \A m \in Watched : \A msg \in inbox'[m] :
          msg \in inbox[m] \/ msg = tombstoneFor(n, a) \/ msg = announcement(n, a)
    BY <1>3 DEF AppDisconnected, publish
  <2>4. QED
    BY <2>1, <2>2, <2>3, BackPublish
<1>4. ASSUME NEW n \in Home, NEW a \in App, Refresh(n, a) PROVE BackInv'
  <2>1. UNCHANGED <<gone, table, local>> /\ a \in local[n] /\ n \in Node
    BY <1>4 DEF Refresh
  <2>2. \A m \in Watched : \A msg \in inbox'[m] : msg \in inbox[m] \/ msg = announcement(n, a)
    BY <1>4 DEF Refresh, publish
  <2>3. QED
    BY <2>1, <2>2, BackPublish
<1>5. ASSUME NEW m \in Watched, Prune(m) PROVE BackInv'
  <2>1. UNCHANGED <<gone, local, inbox>>
    BY <1>5 DEF Prune
  <2>2. \A k \in Watched, a \in App : Known(table'[k], a, 0) => table'[k][a] = table[k][a]
    BY <1>5 DEF Prune, Pruned, Known, Types, Routes
  <2>3. QED
    BY <2>1, <2>2, BackPublish
<1>6. ASSUME NEW m \in Watched, NEW msg \in inbox[m], Receive(m, msg) PROVE BackInv'
  <2>1. /\ UNCHANGED <<gone, local>>
        /\ \A k \in Watched : inbox'[k] \subseteq inbox[k]
        /\ table' = [table EXCEPT ![m] =
             IF msg.tombstone THEN Remove(@, msg.app)
             ELSE Upsert(@, msg.app, msg.via, 0, PresenceTTL)]
    BY <1>6 DEF Receive, Types
  <2>2. msg \in Message
    BY DEF Types
  <2>3. CASE msg.tombstone
    <3>1. \A k \in Watched, a \in App : Known(table'[k], a, 0) => table'[k][a] = table[k][a]
      BY <2>1, <2>2, <2>3 DEF Remove, Known, Types, Routes, Message
    <3>2. QED
      BY <2>1, <3>1, BackPublish
  <2>4. CASE ~msg.tombstone
    <3>1. ASSUME NEW k \in Watched, NEW a \in App, Known(table'[k], a, 0)
          PROVE  gone'[table'[k][a].via][a] + table'[k][a].expires <= Afterlife
      <4>1. CASE k = m /\ a = msg.app
        <5>1. table'[k][a] = [via |-> msg.via, expires |-> 0 + PresenceTTL]
          BY <2>1, <2>2, <2>4, <4>1 DEF Upsert, Types, Routes, Message
        <5>2. table'[k][a].via = msg.via /\ table'[k][a].expires = PresenceTTL
          BY <5>1
        <5>3. gone[msg.via][msg.app] + msg.left <= MaxDelay
          BY <2>4 DEF BackInv
        <5>4. gone[msg.via][msg.app] \in Nat /\ msg.left \in Nat
          BY <2>2 DEF Types, Message
        <5>5. QED
          BY <2>1, <4>1, <5>2, <5>3, <5>4 DEF Afterlife
      <4>2. CASE ~(k = m /\ a = msg.app)
        <5>1. table'[k][a] = table[k][a]
          BY <2>1, <2>2, <2>4, <4>2 DEF Upsert, Types, Routes, Message
        <5>2. QED
          BY <2>1, <3>1, <5>1 DEF BackInv, Known
      <4>3. QED
        BY <4>1, <4>2
    <3>2. QED
      BY <2>1, <3>1 DEF BackInv
  <2>5. QED
    BY <2>3, <2>4
<1>7. ASSUME NEW m \in Watched, NEW msg \in inbox[m], Lose(m, msg) PROVE BackInv'
  <2>1. UNCHANGED <<gone, table, local>> /\ \A k \in Watched : inbox'[k] \subseteq inbox[k]
    BY <1>7 DEF Lose, Types
  <2>2. QED
    BY <2>1, BackPublish
<1>8. ASSUME NEW n \in Node, Stop(n) PROVE BackInv'
  <2>1. gone' = gone /\ \A k \in Node : local'[k] \subseteq local[k]
    BY <1>8 DEF Stop, Types
  <2>2. \A a : tombstoneFor(n, a).tombstone
    BY DEF tombstoneFor
  <2>3. \A m \in Watched : \A msg \in inbox'[m] : msg \in inbox[m] \/ msg.tombstone
    BY <1>8, <2>2 DEF Stop, publish
  <2>4. \A k \in Watched, a \in App : Known(table'[k], a, 0) => table'[k][a] = table[k][a]
    BY <1>8 DEF Stop, EmptyTable, Known, Types, Routes
  <2>5. QED
    BY <2>1, <2>3, <2>4, BackPublish
<1>9. ASSUME NEW n \in Node, Restart(n) PROVE BackInv'
  <2>1. UNCHANGED <<gone, table, local, inbox>>
    BY <1>9 DEF Restart
  <2>2. QED
    BY <2>1, BackPublish
<1>10. CASE UNCHANGED vars
  BY <1>10 DEF vars, BackInv
<1>11. QED
  BY <1>1, <1>2, <1>3, <1>4, <1>5, <1>6, <1>7, <1>8, <1>9, <1>10 DEF Next

\* A route names a node that the app is connected to, or was until Afterlife ago.
THEOREM RoutesAreBacked == Spec => []RouteBacked
  BY TypesInit, TypesStep, BackInit, BackStep, BackImplies, PTL DEF Spec

-----------------------------------------------------------------------------
(***************************************************************************)
(* How long an app is out of reach.  The ticker of a refreshLoop fired for    *)
(* the last time Age(t, 0) ago, where t is the time until it fires next, and  *)
(* for the j-th time before that Age(t, j) ago.                              *)
(***************************************************************************)

Age(t, j) == PresenceRefreshInterval - t + j * PresenceRefreshInterval

\* Of the announcements of the last b time units all but l are under way, where
\* coming is the set of the times that announcements under way have left.
Followed(b, t, l, coming) ==
  \E L \in SUBSET Nat :
    /\ IsFiniteSet(L) /\ Cardinality(L) <= l
    /\ \A j \in Nat \ L : Age(t, j) < b => MaxDelay - Age(t, j) \in coming

LEMMA AgeFacts ==
  ASSUME NEW t \in 0..PresenceRefreshInterval, NEW j \in Nat
  PROVE  /\ Age(t, j) \in Nat
         /\ t > 0 => Age(t - 1, j) = Age(t, j) + 1
         /\ Age(PresenceRefreshInterval, 0) = 0
         /\ Age(PresenceRefreshInterval, j + 1) = Age(0, j)
         /\ \A k \in Nat : Age(t, k) = Age(t, j) => k = j
<1> USE PresenceAssumption
<1>1. j * PresenceRefreshInterval \in Nat
  OBVIOUS
<1>2. Age(t, j) \in Nat /\ (t > 0 => Age(t - 1, j) = Age(t, j) + 1)
  BY <1>1 DEF Age
<1>3. Age(PresenceRefreshInterval, 0) = 0
  BY DEF Age
<1>4. (j + 1) * PresenceRefreshInterval = j * PresenceRefreshInterval + PresenceRefreshInterval
  OBVIOUS
<1>5. Age(PresenceRefreshInterval, j + 1) = Age(0, j)
  BY <1>1, <1>4 DEF Age
<1>6. ASSUME NEW k \in Nat, Age(t, k) = Age(t, j) PROVE k = j
  <2>1. k * PresenceRefreshInterval = j * PresenceRefreshInterval
    BY <1>1, <1>6 DEF Age
  <2>2. QED
    BY <2>1
<1>7. QED
  BY <1>2, <1>3, <1>5, <1>6

LEMMA FollowStart ==
  ASSUME NEW b \in Int, b <= 0, NEW t \in 0..PresenceRefreshInterval, NEW l \in Nat, NEW coming
  PROVE  Followed(b, t, l, coming)
<1>1. \A j \in Nat : ~(Age(t, j) < b)
  BY AgeFacts
<1>2. IsFiniteSet({}) /\ Cardinality({}) <= l
  BY FS_EmptySet
<1>3. QED
  BY <1>1, <1>2 DEF Followed

LEMMA FollowTick ==
  ASSUME NEW b \in Int, NEW t \in 1..PresenceRefreshInterval, NEW l,
         NEW coming, NEW coming2, Followed(b, t, l, coming),
         \A k \in coming : k - 1 \in coming2
  PROVE  Followed(b + 1, t - 1, l, coming2)
<1>1. PICK L \in SUBSET Nat :
        /\ IsFiniteSet(L) /\ Cardinality(L) <= l
        /\ \A j \in Nat \ L : Age(t, j) < b => MaxDelay - Age(t, j) \in coming
  BY DEF Followed
<1>2. ASSUME NEW j \in Nat \ L, Age(t - 1, j) < b + 1
      PROVE  MaxDelay - Age(t - 1, j) \in coming2
  <2>1. Age(t, j) \in Nat /\ Age(t - 1, j) = Age(t, j) + 1
    BY AgeFacts, PresenceAssumption
  <2>2. (MaxDelay - Age(t, j)) - 1 \in coming2
    BY <1>1, <1>2, <2>1
  <2>3. MaxDelay - Age(t - 1, j) = (MaxDelay - Age(t, j)) - 1
    BY <2>1, PresenceAssumption
  <2>4. QED
    BY <2>2, <2>3
<1>3. QED
  BY <1>1, <1>2 DEF Followed

LEMMA FollowFire ==
  ASSUME NEW b \in Int, NEW l \in Nat, NEW coming, NEW coming2,
         Followed(b, 0, l, coming), coming \cup {MaxDelay} \subseteq coming2
  PROVE  Followed(b, PresenceRefreshInterval, l, coming2)
<1>1. PICK L \in SUBSET Nat :
        /\ IsFiniteSet(L) /\ Cardinality(L) <= l
        /\ \A j \in Nat \ L : Age(0, j) < b => MaxDelay - Age(0, j) \in coming
  BY DEF Followed
<1> DEFINE L2 == {j + 1 : j \in L}
           f == [j \in L |-> j + 1]
<1>2. f \in Surjection(L, L2)
  BY DEF Surjection
<1>3. IsFiniteSet(L2) /\ Cardinality(L2) <= Cardinality(L)
  BY <1>1, <1>2, FS_Surjection
<1>4. Cardinality(L2) <= l
  BY <1>1, <1>3, FS_CardinalityType
<1>5. ASSUME NEW j \in Nat \ L2, Age(PresenceRefreshInterval, j) < b
      PROVE  MaxDelay - Age(PresenceRefreshInterval, j) \in coming2
  <2>1. CASE j = 0
    <3>1. MaxDelay - Age(PresenceRefreshInterval, j) = MaxDelay
      BY <2>1, AgeFacts, PresenceAssumption
    <3>2. QED
      BY <3>1
  <2>2. CASE j # 0
    <3>1. j - 1 \in Nat /\ (j - 1) + 1 = j
      BY <2>2
    <3>2. j - 1 \notin L
      BY <3>1
    <3>3. Age(PresenceRefreshInterval, j) = Age(0, j - 1)
      BY <3>1, AgeFacts, PresenceAssumption
    <3>4. QED
      BY <1>1, <1>5, <3>1, <3>2, <3>3
  <2>3. QED
    BY <2>1, <2>2
<1>6. L2 \in SUBSET Nat
  OBVIOUS
<1> HIDE DEF L2
<1>7. QED
  BY <1>3, <1>4, <1>5, <1>6 DEF Followed

LEMMA FollowLose ==
  ASSUME NEW b \in Int, NEW t \in 0..PresenceRefreshInterval, NEW l \in Nat,
         NEW coming, NEW coming2, NEW k,
         Followed(b, t, l, coming), coming \ {k} \subseteq coming2
  PROVE  Followed(b, t, l + 1, coming2)
<1>1. PICK L \in SUBSET Nat :
        /\ IsFiniteSet(L) /\ Cardinality(L) <= l
        /\ \A j \in Nat \ L : Age(t, j) < b => MaxDelay - Age(t, j) \in coming
  BY DEF Followed
<1>2. Cardinality(L) \in Nat
  BY <1>1, FS_CardinalityType
<1>3. CASE \E i \in Nat : k = MaxDelay - Age(t, i)
  <2>1. PICK i \in Nat : k = MaxDelay - Age(t, i)
    BY <1>3
  <2>2. /\ IsFiniteSet(L \cup {i}) /\ L \cup {i} \in SUBSET Nat
        /\ Cardinality(L \cup {i}) <= l + 1
    <3>1. /\ IsFiniteSet(L \cup {i})
          /\ Cardinality(L \cup {i}) = IF i \in L THEN Cardinality(L) ELSE Cardinality(L) + 1
      BY <1>1, FS_AddElement
    <3>2. QED
      BY <1>1, <1>2, <3>1
  <2>3. ASSUME NEW j \in Nat \ (L \cup {i}), Age(t, j) < b
        PROVE  MaxDelay - Age(t, j) \in coming2
    <3>1. Age(t, j) # Age(t, i) /\ Age(t, j) \in Nat /\ Age(t, i) \in Nat
      BY AgeFacts
    <3>2. MaxDelay - Age(t, j) # k
      BY <2>1, <3>1, PresenceAssumption
    <3>3. QED
      BY <1>1, <2>3, <3>2
  <2>4. QED
    BY <2>2, <2>3 DEF Followed
<1>4. CASE ~\E i \in Nat : k = MaxDelay - Age(t, i)
  <2>1. \A j \in Nat \ L : Age(t, j) < b => MaxDelay - Age(t, j) \in coming2
    BY <1>1, <1>4
  <2>2. Cardinality(L) <= l + 1
    BY <1>1, <1>2
  <2>3. QED
    BY <1>1, <2>1, <2>2 DEF Followed
<1>5. QED
  BY <1>3, <1>4

LEMMA FollowMore ==
  ASSUME NEW b, NEW t, NEW l, NEW coming, NEW coming2,
         Followed(b, t, l, coming), coming \subseteq coming2
  PROVE  Followed(b, t, l, coming2)
  BY DEF Followed

\* An announcement as old as MaxDelay, or up to one interval older.
LEMMA FirstDue ==
  ASSUME NEW t \in 1..PresenceRefreshInterval
  PROVE  \E j \in Nat :
           MaxDelay <= Age(t, j) /\ Age(t, j) < MaxDelay + PresenceRefreshInterval
<1> USE PresenceAssumption
<1> DEFINE x == MaxDelay - (PresenceRefreshInterval - t)
           q == (x + PresenceRefreshInterval - 1) \div PresenceRefreshInterval
<1>1. x \in Int
  OBVIOUS
<1>2. CASE x <= 0
  <2>1. Age(t, 0) = PresenceRefreshInterval - t
    BY DEF Age
  <2>2. QED
    BY <1>2, <2>1
<1>3. CASE x > 0
  <2> HIDE DEF x
  <2>1. /\ q \in Nat
        /\ q * PresenceRefreshInterval >= x
        /\ q * PresenceRefreshInterval < x + PresenceRefreshInterval
    <3>1. x + PresenceRefreshInterval - 1 \in Nat
      BY <1>1, <1>3
    <3>2. QED
      BY <1>1, <1>3, <3>1
  <2> HIDE DEF q
  <2>2. QED
    BY <2>1 DEF Age, x
<1>4. QED
  BY <1>1, <1>2, <1>3

\* If none of what is under way is due, b is short: else MaxLost + 1 announcements
\* would be missing.
LEMMA FollowBound ==
  ASSUME NEW b \in Int, NEW t \in 1..PresenceRefreshInterval, NEW l \in 0..MaxLost,
         NEW coming, Followed(b, t, l, coming), \A k \in coming : k > 0
  PROVE  b < PresenceRefreshInterval * (MaxLost + 1) + MaxDelay
<1> USE PresenceAssumption
<1> DEFINE z == MaxLost * PresenceRefreshInterval
<1>1. PresenceRefreshInterval * (MaxLost + 1) = z + PresenceRefreshInterval /\ z \in Nat
  OBVIOUS
<1> SUFFICES ASSUME b >= z + PresenceRefreshInterval + MaxDelay PROVE FALSE
  <2> HIDE DEF z
  <2>1. QED
    BY <1>1
<1>2. PICK L \in SUBSET Nat :
        /\ IsFiniteSet(L) /\ Cardinality(L) <= l
        /\ \A j \in Nat \ L : Age(t, j) < b => MaxDelay - Age(t, j) \in coming
  BY DEF Followed
<1>3. PICK i \in Nat : MaxDelay <= Age(t, i) /\ Age(t, i) < MaxDelay + PresenceRefreshInterval
  BY FirstDue
<1>4. ASSUME NEW j \in i..(i + l) PROVE j \in L
  <2> DEFINE y == (j - i) * PresenceRefreshInterval
  <2>1. j \in Nat /\ t \in 0..PresenceRefreshInterval /\ j - i \in 0..MaxLost
    OBVIOUS
  <2>2. Age(t, j) \in Nat /\ Age(t, i) \in Nat
    BY <2>1, AgeFacts
  <2>3. Age(t, j) = Age(t, i) + y
    BY DEF Age
  <2>4. y \in Nat /\ y <= z
    BY <2>1
  <2> HIDE DEF y, z
  <2>5. MaxDelay <= Age(t, j) /\ Age(t, j) < b
    BY <1>1, <1>3, <2>2, <2>3, <2>4
  <2>6. ~(MaxDelay - Age(t, j) > 0)
    BY <2>2, <2>5
  <2>7. QED
    BY <1>2, <2>1, <2>5, <2>6
<1>5. Cardinality(i..(i + l)) = l + 1
  BY FS_Interval
<1>6. Cardinality(i..(i + l)) <= Cardinality(L) /\ Cardinality(L) \in Nat
  BY <1>2, <1>4, FS_Subset, FS_CardinalityType
<1>7. QED
  BY <1>2, <1>5, <1>6

-----------------------------------------------------------------------------
(***************************************************************************)
(* Reachability.  Since m has been in the dark nothing but announcements by   *)
(* hosts of the app was published about it: after MaxDelay only these are     *)
(* left, and the first of them that m receives ends the dark.                 *)
(***************************************************************************)

\* The times left of h's announcements of a that are on their way to m.
Coming(m, h, a) ==
  {k \in 0..MaxDelay : [app |-> a, via |-> h, tombstone |-> FALSE, left |-> k] \in inbox[m]}

HealInv ==
  /\ HealsInTime
  /\ \A m \in Watched : \A msg \in inbox[m] :
       msg.tombstone \/ msg.via \notin Hosts(msg.app) =>
         msg.left + dark[m][msg.app] <= MaxDelay
  /\ \A m \in Watched, a \in App : \A h \in Hosts(a) :
       m \in up /\ h # m /\ Lookup(table[m], a, 0) \notin Hosts(a) =>
         Followed(dark[m][a] - MaxDelay, timer[h][a], lost, Coming(m, h, a))

\* A step that leaves nobody in the dark.
LEMMA HealReset ==
  ASSUME Types', dark' = NotDark
  PROVE  HealInv'
<1> USE PresenceAssumption
<1>1. \A m \in Watched, a \in App : dark'[m][a] = 0
  BY DEF NotDark
<1>2. HealsInTime'
  BY <1>1, Durations DEF HealsInTime
<1>3. ASSUME NEW m \in Watched, NEW msg \in inbox'[m]
      PROVE  msg.left + dark'[m][msg.app] <= MaxDelay
  <2>1. msg \in Message
    BY DEF Types
  <2>2. msg.app \in App /\ msg.left \in 0..MaxDelay
    BY <2>1 DEF Message
  <2>3. QED
    BY <1>1, <2>2
<1>4. ASSUME NEW m \in Watched, NEW a \in App, NEW h \in Hosts(a)'
      PROVE  Followed(dark'[m][a] - MaxDelay, timer'[h][a], lost', Coming(m, h, a)')
  <2>1. h \in Node
    BY DEF Hosts, Types
  <2>2. timer'[h][a] \in 0..PresenceRefreshInterval /\ lost' \in Nat
    BY <2>1 DEF Types
  <2>3. dark'[m][a] - MaxDelay \in Int /\ dark'[m][a] - MaxDelay <= 0
    BY <1>1
  <2>4. QED
    BY <2>2, <2>3, FollowStart
<1>5. QED
  BY <1>2, <1>3, <1>4 DEF HealInv

LEMMA HealInit == Init => HealInv
<1> SUFFICES ASSUME Init PROVE HealInv
  OBVIOUS
<1>1. \A a \in App : Hosts(a) = {}
  BY DEF Init, Hosts
<1>2. \A m \in Watched : inbox[m] = {}
  BY DEF Init
<1>3. HealsInTime
  BY Durations DEF Init, NotDark, HealsInTime
<1>4. QED
  BY <1>1, <1>2, <1>3 DEF HealInv

\* A step that changes neither the hosts nor the dark, publishes announcements by
\* hosts, and keeps what is needed of the messages.
LEMMA HealKept ==
  ASSUME Types, Types', HealInv, UNCHANGED <<up, local, dark>>,
         \A m \in Watched : \A msg \in inbox'[m] :
           msg \in inbox[m] \/ (~msg.tombstone /\ msg.via \in Hosts(msg.app)),
         \A m \in Watched, a \in App : \A h \in Hosts(a) :
           m \in up /\ h # m /\ Lookup(table'[m], a, 0) \notin Hosts(a) =>
             \/ dark[m][a] <= MaxDelay
             \/ /\ Lookup(table[m], a, 0) \notin Hosts(a)
                /\ Followed(dark[m][a] - MaxDelay, timer[h][a], lost, Coming(m, h, a)) =>
                     Followed(dark[m][a] - MaxDelay, timer'[h][a], lost', Coming(m, h, a)')
  PROVE  HealInv'
<1> USE PresenceAssumption
<1>1. \A a : Hosts(a)' = Hosts(a)
  BY DEF Hosts
<1>2. HealsInTime'
  BY DEF HealInv, HealsInTime
<1>3. ASSUME NEW m \in Watched, NEW msg \in inbox'[m],
             msg.tombstone \/ msg.via \notin Hosts(msg.app)'
      PROVE  msg.left + dark'[m][msg.app] <= MaxDelay
  BY <1>1, <1>3 DEF HealInv
<1>4. ASSUME NEW m \in Watched, NEW a \in App, NEW h \in Hosts(a)',
             m \in up', h # m, Lookup(table'[m], a, 0) \notin Hosts(a)'
      PROVE  Followed(dark'[m][a] - MaxDelay, timer'[h][a], lost', Coming(m, h, a)')
  <2>1. /\ h \in Hosts(a) /\ h \in Node
        /\ m \in up /\ Lookup(table'[m], a, 0) \notin Hosts(a)
    BY <1>1, <1>4 DEF Hosts, Types
  <2>2. dark' = dark /\ dark[m][a] \in Nat
    BY DEF Types
  <2>3. CASE dark[m][a] <= MaxDelay
    <3>1. timer'[h][a] \in 0..PresenceRefreshInterval /\ lost' \in Nat
      BY <2>1 DEF Types
    <3>2. dark'[m][a] - MaxDelay \in Int /\ dark'[m][a] - MaxDelay <= 0
      BY <2>2, <2>3
    <3>3. QED
      BY <3>1, <3>2, FollowStart
  <2>4. CASE ~(dark[m][a] <= MaxDelay)
    <3>1. /\ Lookup(table[m], a, 0) \notin Hosts(a)
          /\ Followed(dark[m][a] - MaxDelay, timer[h][a], lost, Coming(m, h, a)) =>
               Followed(dark[m][a] - MaxDelay, timer'[h][a], lost', Coming(m, h, a)')
      BY <1>4, <2>1, <2>4
    <3>2. Followed(dark[m][a] - MaxDelay, timer[h][a], lost, Coming(m, h, a))
      BY <1>4, <2>1, <3>1 DEF HealInv
    <3>3. QED
      BY <2>2, <3>1, <3>2
  <2>5. QED
    BY <2>3, <2>4
<1>5. QED
  BY <1>2, <1>3, <1>4 DEF HealInv

\* An announcement one time unit later.
LEMMA OneLeftLess ==
  ASSUME NEW a, NEW h, NEW k, NEW old, NEW new,
         old = [app |-> a, via |-> h, tombstone |-> FALSE, left |-> k],
         new = [old EXCEPT !.left = k - 1]
  PROVE  new = [app |-> a, via |-> h, tombstone |-> FALSE, left |-> k - 1]
  OBVIOUS

LEMMA HealTick == ASSUME Types, Types', HealInv, Tick PROVE HealInv'
<1> USE PresenceAssumption
<1>1. UNCHANGED <<up, local, lost>> /\ \A a : Hosts(a)' = Hosts(a)
  BY DEF Tick, Hosts
<1>2. inbox' = [m \in Watched |-> {[msg EXCEPT !.left = @ - 1] : msg \in inbox[m]}]
  BY DEF Tick
<1>3. ASSUME NEW m \in Watched, NEW a \in App
      PROVE  /\ dark[m][a] \in Nat
             /\ dark'[m][a] \in {0, dark[m][a] + 1}
             /\ dark'[m][a] # 0 => Unreachable(m, a)
             /\ dark'[m][a] <= HealTime
  <2>1. dark[m][a] \in Nat /\ dark[m][a] <= HealTime
    BY DEF Types, HealInv, HealsInTime
  <2>2. dark'[m][a] = IF Unreachable(m, a) THEN AtMost(dark[m][a] + 1, HealTime + 1) ELSE 0
    BY DEF Tick
  <2>3. AtMost(dark[m][a] + 1, HealTime + 1) = dark[m][a] + 1
    BY <2>1, Durations DEF AtMost
  <2>4. ASSUME Unreachable(m, a) PROVE dark[m][a] < HealTime
    <3>1. m \in up \ Hosts(a) /\ Hosts(a) # {} /\ Lookup(table[m], a, 0) \notin Hosts(a)
      BY <2>4 DEF Unreachable
    <3>2. PICK h \in Hosts(a) : h # m
      BY <3>1
    <3>3. h \in Node /\ a \in local[h]
      BY DEF Hosts, Types
    <3>4. timer[h][a] \in 0..PresenceRefreshInterval /\ timer[h][a] > 0
      BY <3>3 DEF Tick, Types
    <3>5. timer[h][a] \in 1..PresenceRefreshInterval
      BY <3>4
    <3>6. Followed(dark[m][a] - MaxDelay, timer[h][a], lost, Coming(m, h, a))
      BY <3>1, <3>2 DEF HealInv
    <3>7. \A k \in Coming(m, h, a) : k > 0
      <4>1. \A msg \in inbox[m] : msg.left > 0
        BY DEF Tick
      <4>2. QED
        BY <4>1 DEF Coming
    <3>8. lost \in 0..MaxLost /\ dark[m][a] - MaxDelay \in Int
      BY <2>1 DEF Types
    <3>9. dark[m][a] - MaxDelay < PresenceRefreshInterval * (MaxLost + 1) + MaxDelay
      BY <3>5, <3>6, <3>7, <3>8, FollowBound
    <3> DEFINE z == PresenceRefreshInterval * (MaxLost + 1)
    <3>10. z \in Nat /\ HealTime = z + 2 * MaxDelay
      BY DEF HealTime
    <3> HIDE DEF z
    <3>11. dark[m][a] - MaxDelay < z + MaxDelay
      BY <3>9 DEF z
    <3>12. QED
      BY <2>1, <3>10, <3>11
  <2>5. QED
    BY <2>1, <2>2, <2>3, <2>4, Durations
<1>4. HealsInTime'
  BY <1>3 DEF HealsInTime
<1>5. ASSUME NEW m \in Watched, NEW msg \in inbox'[m],
             msg.tombstone \/ msg.via \notin Hosts(msg.app)'
      PROVE  msg.left + dark'[m][msg.app] <= MaxDelay
  <2>1. PICK old \in inbox[m] : msg = [old EXCEPT !.left = @ - 1]
    BY <1>2
  <2>2. old \in Message
    BY DEF Types
  <2>3. /\ msg.via = old.via /\ msg.app = old.app /\ msg.tombstone = old.tombstone
        /\ msg.left = old.left - 1 /\ old.left \in 0..MaxDelay /\ old.app \in App
    BY <2>1, <2>2 DEF Message
  <2>4. old.left + dark[m][old.app] <= MaxDelay
    BY <1>1, <1>5, <2>3 DEF HealInv
  <2>5. QED
    BY <1>3, <2>3, <2>4
<1>6. ASSUME NEW m \in Watched, NEW a \in App, NEW h \in Hosts(a)', m \in up', h # m
      PROVE  Followed(dark'[m][a] - MaxDelay, timer'[h][a], lost', Coming(m, h, a)')
  <2>1. h \in Hosts(a) /\ h \in Node /\ m \in up /\ a \in local[h]
    BY <1>1, <1>6 DEF Hosts, Types
  <2>2. CASE dark'[m][a] = 0
    <3>1. timer'[h][a] \in 0..PresenceRefreshInterval /\ lost' \in Nat
      BY <2>1 DEF Types
    <3>2. dark'[m][a] - MaxDelay \in Int /\ dark'[m][a] - MaxDelay <= 0
      BY <2>2
    <3>3. QED
      BY <3>1, <3>2, FollowStart
  <2>3. CASE dark'[m][a] # 0
    <3>1. Unreachable(m, a) /\ dark'[m][a] = dark[m][a] + 1 /\ dark[m][a] \in Nat
      BY <1>3, <2>3
    <3>2. Followed(dark[m][a] - MaxDelay, timer[h][a], lost, Coming(m, h, a))
      BY <1>6, <2>1, <3>1 DEF HealInv, Unreachable
    <3>3. timer[h][a] \in 0..PresenceRefreshInterval /\ timer[h][a] > 0
      BY <2>1 DEF Tick, Types
    <3>4. timer[h][a] \in 1..PresenceRefreshInterval /\ timer'[h][a] = timer[h][a] - 1
      <4>1. timer' = [n \in Node |-> [b \in App |-> IF b \in local[n] THEN timer[n][b] - 1
                                                    ELSE timer[n][b]]]
        BY DEF Tick
      <4>2. QED
        BY <2>1, <3>3, <4>1
    <3>5. ASSUME NEW k \in Coming(m, h, a) PROVE k - 1 \in Coming(m, h, a)'
      <4>1. PICK msg : msg = [app |-> a, via |-> h, tombstone |-> FALSE, left |-> k]
        OBVIOUS
      <4>2. msg \in inbox[m] /\ msg.left = k /\ k \in 0..MaxDelay
        BY <4>1 DEF Coming
      <4>3. k > 0
        BY <4>2 DEF Tick
      <4>4. PICK new : new = [msg EXCEPT !.left = k - 1]
        OBVIOUS
      <4>5. new = [app |-> a, via |-> h, tombstone |-> FALSE, left |-> k - 1]
        BY <4>1, <4>4, OneLeftLess
      <4>6. new \in inbox'[m]
        BY <1>2, <4>2, <4>4
      <4>7. k - 1 \in 0..MaxDelay
        BY <4>2, <4>3
      <4>8. QED
        BY <4>5, <4>6, <4>7 DEF Coming
    <3>6. (dark[m][a] - MaxDelay) + 1 = dark'[m][a] - MaxDelay /\ dark[m][a] - MaxDelay \in Int
      BY <3>1
    <3>7. Followed((dark[m][a] - MaxDelay) + 1, timer[h][a] - 1, lost, Coming(m, h, a)')
      BY <3>2, <3>4, <3>5, <3>6, FollowTick
    <3>8. QED
      BY <1>1, <3>4, <3>6, <3>7
  <2>4. QED
    BY <2>2, <2>3
<1>7. QED
  BY <1>4, <1>5, <1>6 DEF HealInv

LEMMA HealRefresh ==
  ASSUME Types, Types', HealInv, NEW n \in Home, NEW b \in App, Refresh(n, b)
  PROVE  HealInv'
<1> USE PresenceAssumption
<1>1. /\ UNCHANGED <<up, local, table, lost, dark>>
      /\ b \in local[n] /\ timer[n][b] = 0
      /\ timer' = [timer EXCEPT ![n][b] = PresenceRefreshInterval]
      /\ inbox' = publish(n, {announcement(n, b)})
  BY DEF Refresh
<1>2. ASSUME NEW m \in Watched, NEW msg \in inbox'[m], msg \notin inbox[m]
      PROVE  ~msg.tombstone /\ msg.via \in Hosts(msg.app)
  <2>1. msg = announcement(n, b) /\ m \in up \ {n}
    BY <1>1, <1>2 DEF publish
  <2>2. n \in up
    BY <1>1 DEF Types
  <2>3. QED
    BY <1>1, <2>1, <2>2 DEF announcement, Hosts
<1>3. ASSUME NEW m \in Watched, NEW a \in App, NEW h \in Hosts(a), m \in up, h # m,
             Followed(dark[m][a] - MaxDelay, timer[h][a], lost, Coming(m, h, a))
      PROVE  Followed(dark[m][a] - MaxDelay, timer'[h][a], lost, Coming(m, h, a)')
  <2>1. inbox[m] \subseteq inbox'[m]
    BY <1>1 DEF publish
  <2>2. Coming(m, h, a) \subseteq Coming(m, h, a)'
    BY <2>1 DEF Coming
  <2>3. h \in Node /\ dark[m][a] - MaxDelay \in Int /\ lost \in Nat
    BY DEF Hosts, Types
  <2>4. CASE h = n /\ a = b
    <3>1. announcement(h, a) \in inbox'[m]
      BY <1>1, <1>3, <2>4 DEF publish
    <3>2. MaxDelay \in Coming(m, h, a)'
      BY <3>1 DEF Coming, announcement
    <3>3. timer[h][a] = 0 /\ timer'[h][a] = PresenceRefreshInterval
      BY <1>1, <2>4 DEF Types
    <3>4. QED
      BY <1>3, <2>2, <2>3, <3>2, <3>3, FollowFire
  <2>5. CASE ~(h = n /\ a = b)
    <3>1. timer'[h][a] = timer[h][a]
      BY <1>1, <2>3, <2>5 DEF Types
    <3>2. QED
      BY <1>3, <2>2, <3>1, FollowMore
  <2>6. QED
    BY <2>4, <2>5
<1>4. QED
  BY <1>1, <1>2, <1>3, HealKept

LEMMA HealReceive ==
  ASSUME Types, Types', HealInv, NEW p \in Watched, NEW msg \in inbox[p], Receive(p, msg)
  PROVE  HealInv'
<1> USE PresenceAssumption
<1>1. /\ UNCHANGED <<up, local, timer, lost, dark>>
      /\ inbox' = [inbox EXCEPT ![p] = @ \ {msg}]
      /\ table' = [table EXCEPT ![p] =
           IF msg.tombstone THEN Remove(@, msg.app)
           ELSE Upsert(@, msg.app, msg.via, 0, PresenceTTL)]
  BY DEF Receive
<1>2. msg \in Message
  BY DEF Types
<1>3. msg.app \in App /\ msg.via \in Node /\ msg.left \in 0..MaxDelay
  BY <1>2 DEF Message
<1>4. \A m \in Watched : inbox'[m] \subseteq inbox[m]
  BY <1>1 DEF Types
<1>5. ASSUME NEW m \in Watched, NEW a \in App, NEW h \in Hosts(a),
             Lookup(table'[m], a, 0) \notin Hosts(a)
      PROVE  \/ dark[m][a] <= MaxDelay
             \/ /\ Lookup(table[m], a, 0) \notin Hosts(a)
                /\ Coming(m, h, a) \subseteq Coming(m, h, a)'
  <2>1. CASE m = p /\ a = msg.app
    <3>1. CASE msg.tombstone \/ msg.via \notin Hosts(a)
      <4>1. msg.left + dark[m][a] <= MaxDelay
        BY <2>1, <3>1 DEF HealInv
      <4>2. dark[m][a] \in Nat
        BY DEF Types
      <4>3. QED
        BY <1>3, <4>1, <4>2
    <3>2. CASE ~(msg.tombstone \/ msg.via \notin Hosts(a))
      <4>1. table'[m][a] = [via |-> msg.via, expires |-> 0 + PresenceTTL]
        BY <1>1, <1>3, <2>1, <3>2 DEF Upsert, Types, Routes
      <4>2. table'[m][a].via = msg.via /\ table'[m][a].expires = PresenceTTL
        BY <4>1
      <4>3. table'[m][a] \in [via : Node, expires : Nat]
        BY <1>3, <4>1
      <4>4. Known(table'[m], a, 0)
        BY <4>2, <4>3, RouterAssumption DEF Known, Expired
      <4>5. Lookup(table'[m], a, 0) = msg.via
        BY <4>2, <4>4 DEF Lookup
      <4>6. QED
        BY <1>5, <3>2, <4>5
    <3>3. QED
      BY <3>1, <3>2
  <2>2. CASE ~(m = p /\ a = msg.app)
    <3>1. table'[m][a] = table[m][a]
      BY <1>1, <1>3, <2>2 DEF Upsert, Remove, Types, Routes
    <3>2. Lookup(table[m], a, 0) = Lookup(table'[m], a, 0)
      BY <3>1 DEF Lookup, Known
    <3>3. \A k : [app |-> a, via |-> h, tombstone |-> FALSE, left |-> k] \in inbox[m] =>
                 [app |-> a, via |-> h, tombstone |-> FALSE, left |-> k] \in inbox'[m]
      BY <1>1, <2>2 DEF Types
    <3>4. Coming(m, h, a) \subseteq Coming(m, h, a)'
      BY <3>3 DEF Coming
    <3>5. QED
      BY <1>5, <3>2, <3>4
  <2>3. QED
    BY <2>1, <2>2
<1>6. QED
  BY <1>1, <1>4, <1>5, HealKept, FollowMore

LEMMA HealLose ==
  ASSUME Types, Types', HealInv, NEW p \in Watched, NEW msg \in inbox[p], Lose(p, msg)
  PROVE  HealInv'
<1> USE PresenceAssumption
<1>1. /\ UNCHANGED <<up, local, timer, table, dark>>
      /\ lost' = lost + 1
      /\ inbox' = [inbox EXCEPT ![p] = @ \ {msg}]
  BY DEF Lose
<1>2. ASSUME NEW m \in Watched, NEW a \in App, NEW h \in Hosts(a),
             Followed(dark[m][a] - MaxDelay, timer[h][a], lost, Coming(m, h, a))
      PROVE  Followed(dark[m][a] - MaxDelay, timer'[h][a], lost', Coming(m, h, a)')
  <2>1. inbox[m] \ {msg} \subseteq inbox'[m]
    BY <1>1 DEF Types
  <2>2. \A k : [app |-> a, via |-> h, tombstone |-> FALSE, left |-> k] = msg => k = msg.left
    OBVIOUS
  <2>3. Coming(m, h, a) \ {msg.left} \subseteq Coming(m, h, a)'
    BY <2>1, <2>2 DEF Coming
  <2>4. h \in Node /\ dark[m][a] - MaxDelay \in Int /\ lost \in Nat
    BY DEF Hosts, Types
  <2>5. timer[h][a] \in 0..PresenceRefreshInterval
    BY <2>4 DEF Types
  <2>6. QED
    BY <1>1, <1>2, <2>3, <2>4, <2>5, FollowLose
<1>3. \A m \in Watched : inbox'[m] \subseteq inbox[m]
  BY <1>1 DEF Types
<1>4. QED
  BY <1>1, <1>2, <1>3, HealKept

LEMMA HealPrune ==
  ASSUME Types, Types', HealInv, NEW p \in Watched, Prune(p)
  PROVE  HealInv'
<1>1. UNCHANGED <<up, local, timer, inbox, lost, dark>>
  BY DEF Prune
<1>2. \A m \in Watched, a \in App : Lookup(table'[m], a, 0) = Lookup(table[m], a, 0)
  BY DEF Prune, Pruned, Lookup, Known, Types, Routes
<1>3. \A m, h, a : Coming(m, h, a)' = Coming(m, h, a)
  BY <1>1 DEF Coming
<1>4. QED
  BY <1>1, <1>2, <1>3, HealKept

LEMMA HealStep == Types /\ Types' /\ HealInv /\ [Next]_vars => HealInv'
<1> SUFFICES ASSUME Types, Types', HealInv, [Next]_vars PROVE HealInv'
  OBVIOUS
<1>1. CASE Tick
  BY <1>1, HealTick
<1>2. CASE dark' = NotDark
  BY <1>2, HealReset
<1>3. ASSUME NEW n \in Home, NEW a \in App, Refresh(n, a) PROVE HealInv'
  BY <1>3, HealRefresh
<1>4. ASSUME NEW m \in Watched, Prune(m) PROVE HealInv'
  BY <1>4, HealPrune
<1>5. ASSUME NEW m \in Watched, NEW msg \in inbox[m], Receive(m, msg) \/ Lose(m, msg)
      PROVE  HealInv'
  BY <1>5, HealReceive, HealLose
<1>6. CASE UNCHANGED vars
  <2>1. UNCHANGED <<up, local, timer, table, inbox, lost, dark>>
    BY <1>6 DEF vars
  <2>2. \A m, h, a : Coming(m, h, a)' = Coming(m, h, a)
    BY <2>1 DEF Coming
  <2>3. QED
    BY <2>1, <2>2, HealKept
<1>7. QED
  BY <1>1, <1>2, <1>3, <1>4, <1>5, <1>6
     DEF Next, AppConnected, AppDisconnected, Stop, Restart

\* However many nodes and apps there are and whatever is lost, up to MaxLost
\* messages: while apps stay where they are, no node is for longer than HealTime
\* without a route to an app.
THEOREM RoutesHealInTime == Spec => []HealsInTime
<1>1. HealInv => HealsInTime
  BY DEF HealInv
<1>2. QED
  BY <1>1, TypesInit, TypesStep, HealInit, HealStep, PTL DEF Spec
=============================================================================
