--------------------------- MODULE RelayNode_proofs -------------------------
(***************************************************************************)
(* Theorems about RelayNode, for any number of packets, apps, nodes and     *)
(* goroutines and any limits.                                              *)
(***************************************************************************)
EXTENDS RelayNode, FiniteSetTheorems, TLAPS

LEMMA TypeInit == Init => TypeOK
  BY PacketAssumption, NodeAssumption
     DEF Init, TypeOK, EmptyTable, Table, Idle, Resting, RouteAt, FlushAt

LEMMA TypeStep == TypeOK /\ [Next]_vars => TypeOK'
<1> SUFFICES ASSUME TypeOK, [Next]_vars PROVE TypeOK'
  OBVIOUS
<1> USE PacketAssumption, NodeAssumption, QueueAssumption DEF TypeOK
<1>1. CASE Tick
  BY <1>1 DEF Tick
<1>2. ASSUME NEW h \in Handler, NEW p \in Pkt, Route(h, p) PROVE TypeOK'
  <2>1. CASE dedup[idOf[p]] # None
    BY <1>2, <2>1 DEF Route, Seen, Ended
  <2>2. CASE dedup[idOf[p]] = None /\ recipientOf[p] = NoPeer
    BY <1>2, <2>2 DEF Route, Seen, Ended
  <2>3. CASE dedup[idOf[p]] = None /\ recipientOf[p] # NoPeer
    <3>1. /\ route' = [route EXCEPT ![h] = [pc |-> "local", pkt |-> p]]
          /\ dedup' = [dedup EXCEPT ![idOf[p]] = clock]
          /\ acceptedAt' = [acceptedAt EXCEPT ![p] = clock]
          /\ fate' = [fate EXCEPT ![p] = "live"]
          /\ UNCHANGED <<clock, table, queue, localApps, flush>>
      BY <1>2, <2>3 DEF Route, Seen
    <3>2. recipientOf[p] \in App
      BY <2>3
    <3>3. route' \in [Handler -> RouteAt]
      BY <3>1 DEF RouteAt
    <3>4. \A g \in Handler : route'[g].pc # "idle" =>
            route'[g].pkt \in Pkt /\ recipientOf[route'[g].pkt] \in App
      BY <3>1, <3>2 DEF RouteAt
    <3>5. QED
      BY <3>1, <3>3, <3>4
  <2>4. QED
    BY <2>1, <2>2, <2>3
<1>3. ASSUME NEW h \in Handler, RouteLocal(h) PROVE TypeOK'
  BY <1>3 DEF RouteLocal, RouteGo, RouteAt
<1>4. ASSUME NEW h \in Handler, RouteDeliver(h) PROVE TypeOK'
  BY <1>4 DEF RouteDeliver, RouteAt, Idle, Ended
<1>5. ASSUME NEW h \in Handler, RouteLookup(h) PROVE TypeOK'
  BY <1>5 DEF RouteLookup, RouteGo, RouteAt
<1>6. ASSUME NEW h \in Handler, RouteForward(h) PROVE TypeOK'
  BY <1>6 DEF RouteForward, RouteAt, Idle, Ended
<1>7. ASSUME NEW h \in Handler, RoutePut(h) PROVE TypeOK'
  BY <1>7 DEF RoutePut, RouteAt, Idle, Ended, PutHeld, Put, queuedPacket
<1>8. ASSUME NEW c \in Conn, NEW a \in App, AppConnected(c, a) PROVE TypeOK'
  BY <1>8 DEF AppConnected, Flusher, FlushAt, Resting
<1>9. ASSUME NEW a \in App, AppDisconnected(a) PROVE TypeOK'
  BY <1>9 DEF AppDisconnected
<1>10. ASSUME NEW a \in App, NEW via \in Node, NEW ttl \in AnnouncedTTL,
              PresenceOnline(a, via, ttl)
       PROVE TypeOK'
  BY <1>10 DEF PresenceOnline, Flusher, FlushAt, Resting, Upsert, Table, RoutingEntry
<1>11. ASSUME NEW a \in App, PresenceTombstone(a) PROVE TypeOK'
  BY <1>11 DEF PresenceTombstone, Remove, Table
<1>12. ASSUME NEW f \in Flusher, FlushTake(f) PROVE TypeOK'
  <2> DEFINE a == flush[f].app
             pending == Taken(queue, a, clock)
  <2>1. pending \subseteq Pkt
    BY DEF Taken, Bucket, queuedPacket
  <2>2. a \in App
    BY <1>12 DEF FlushTake
  <2>3. /\ queue' \subseteq queue
        /\ fate' = [x \in Pkt |-> IF x \in PktsOf(Bucket(queue, a)) \ pending
                                  THEN "expired" ELSE fate[x]]
        /\ flush' = [flush EXCEPT ![f] =
                       IF pending = {} THEN Resting
                       ELSE [pc |-> "local", app |-> a, pending |-> pending]]
        /\ UNCHANGED <<clock, dedup, table, localApps, route, acceptedAt>>
    BY <1>12 DEF FlushTake, ExpireAll, AfterTake
  <2> HIDE DEF pending, a
  <2>4. flush' \in [Flusher -> FlushAt]
    BY <2>1, <2>2, <2>3 DEF FlushAt, Resting
  <2>5. \A g \in Flusher :
          /\ flush'[g].pc # "idle" => flush'[g].app \in App
          /\ flush'[g].pc \in {"idle", "take"} <=> flush'[g].pending = {}
    BY <2>1, <2>2, <2>3 DEF FlushAt, Resting
  <2>6. QED
    BY <2>3, <2>4, <2>5 DEF Ended
<1>13. ASSUME NEW f \in Flusher, FlushLocal(f) PROVE TypeOK'
  BY <1>13 DEF FlushLocal, FlushGo, FlushAt
<1>14. ASSUME NEW f \in Flusher, FlushLookup(f) PROVE TypeOK'
  BY <1>14 DEF FlushLookup, FlushGo, FlushAt
<1>15. ASSUME NEW f \in Flusher, NEW p \in Pkt, FlushDeliver(f, p) PROVE TypeOK'
  BY <1>15 DEF FlushDeliver, FlushAt, Without, Resting, Ended
<1>16. ASSUME NEW f \in Flusher, NEW p \in Pkt, FlushForward(f, p) PROVE TypeOK'
  BY <1>16 DEF FlushForward, FlushAt, Without, Resting, Ended
<1>17. ASSUME NEW f \in Flusher, NEW p \in Pkt, FlushPut(f, p) PROVE TypeOK'
  BY <1>17 DEF FlushPut, FlushAt, Without, Resting, Ended, PutHeld, Put, queuedPacket
<1>18. CASE Prune
  BY <1>18 DEF Prune, Pruned, Table
<1>19. CASE Sweep
  BY <1>19 DEF Sweep, Swept, ExpireAll, Ended
<1>20. CASE Evict
  BY <1>20 DEF Evict
<1>21. CASE UNCHANGED vars
  BY <1>21 DEF vars
<1>22. QED
  BY <1>1, <1>2, <1>3, <1>4, <1>5, <1>6, <1>7, <1>8, <1>9, <1>10, <1>11, <1>12,
     <1>13, <1>14, <1>15, <1>16, <1>17, <1>18, <1>19, <1>20, <1>21
     DEF Next, handleSend, handleStream, RouteNext, FlushNext

\* The state of the relay keeps its types, and the loops of FlushQueued always
\* have a packet left to work on.
THEOREM TypeCorrect == Spec => []TypeOK
  BY TypeInit, TypeStep, PTL DEF Spec

-----------------------------------------------------------------------------
(***************************************************************************)
(* Where packets are.                                                      *)
(***************************************************************************)

\* An accepted Put adds p and takes out what was in its slot, nothing else.
LEMMA PutPkts ==
  ASSUME NEW q, q \subseteq queuedPacket, NEW p \in Pkt, NEW now \in Nat, ~Refused(q, p)
  PROVE  PktsOf(Put(q, p, now)) = (PktsOf(q) \ PktsOf(Slot(q, p))) \cup {p}
<1>1. Put(q, p, now) = (q \ Slot(q, p)) \cup {[pkt |-> p, at |-> now]}
  BY DEF Put
<1>2. \A e, x \in q : e.pkt = x.pkt => (e \in Slot(q, p) <=> x \in Slot(q, p))
  BY DEF Slot, Bucket
<1>3. Slot(q, p) \subseteq q
  BY DEF Slot, Bucket
<1>4. PktsOf(q \ Slot(q, p)) = PktsOf(q) \ PktsOf(Slot(q, p))
  BY <1>2, <1>3 DEF PktsOf
<1>5. \A x, e : PktsOf(x \cup {e}) = PktsOf(x) \cup {e.pkt}
  BY DEF PktsOf
<1>6. [pkt |-> p, at |-> now].pkt = p
  OBVIOUS
<1>7. PktsOf(Put(q, p, now)) = PktsOf(q \ Slot(q, p)) \cup {[pkt |-> p, at |-> now].pkt}
  BY <1>1, <1>5
<1>8. QED
  BY <1>4, <1>6, <1>7

\* Take empties the bucket and returns packets that were in it.
LEMMA TakePkts ==
  ASSUME NEW q, q \subseteq queuedPacket, NEW r, NEW now \in Nat
  PROVE  /\ PktsOf(AfterTake(q, r)) = PktsOf(q) \ PktsOf(Bucket(q, r))
         /\ Taken(q, r, now) \subseteq PktsOf(Bucket(q, r))
         /\ PktsOf(Bucket(q, r)) \subseteq PktsOf(q)
<1>1. \A e, x \in q : e.pkt = x.pkt => (e \in Bucket(q, r) <=> x \in Bucket(q, r))
  BY DEF Bucket
<1>2. Bucket(q, r) \subseteq q
  BY DEF Bucket
<1>3. PktsOf(AfterTake(q, r)) = PktsOf(q) \ PktsOf(Bucket(q, r))
  BY <1>1, <1>2 DEF PktsOf, AfterTake
<1>4. PktsOf(Bucket(q, r)) \subseteq PktsOf(q)
  BY <1>2 DEF PktsOf
<1>5. Taken(q, r, now) \subseteq PktsOf(Bucket(q, r))
  BY DEF PktsOf, Taken
<1>6. QED
  BY <1>3, <1>4, <1>5

LEMMA SweptPkts ==
  ASSUME NEW q, NEW now PROVE PktsOf(Swept(q, now)) \subseteq PktsOf(q)
  BY DEF PktsOf, Swept

\* NothingLost and SingleHolder are inductive together.
Held == NothingLost /\ SingleHolder

LEMMA ClockNat == TypeOK => clock \in Nat
  BY NodeAssumption DEF TypeOK

LEMMA HeldInit == Init => Held
  BY DEF Init, Held, NothingLost, SingleHolder, InQueue, PktsOf, InRoute, InFlush,
         Idle, Resting

\* What a goroutine that gives up the packet it puts does to the invariant.
LEMMA HeldByRoutePut ==
  ASSUME TypeOK, Held, NEW h \in Handler, NEW p \in Pkt, InRoute(h, p), PutHeld(p),
         \A g \in Handler, x \in Pkt : InRoute(g, x)' <=> g # h /\ InRoute(g, x),
         \A f \in Flusher, x \in Pkt : InFlush(f, x)' <=> InFlush(f, x)
  PROVE  Held'
<1>1. fate[p] = "live" /\ ~InQueue(p)
  BY DEF Held, SingleHolder
<1>2. \A x \in Pkt : InRoute(h, x) => x = p
  BY DEF InRoute
<1>3. CASE Refused(queue, p)
  <2>1. /\ fate' = [fate EXCEPT ![p] = "refused"]
        /\ \A x \in Pkt : InQueue(x)' <=> InQueue(x)
    BY <1>3 DEF PutHeld, Put, InQueue
  <2>2. QED
    BY <1>1, <1>2, <2>1 DEF TypeOK, Held, NothingLost, SingleHolder
<1>4. CASE ~Refused(queue, p)
  <2>1. \A x \in Pkt : InQueue(x)' <=> x = p \/ (InQueue(x) /\ x \notin PktsOf(Slot(queue, p)))
    BY <1>4, PutPkts, ClockNat DEF PutHeld, InQueue, TypeOK
  <2>2. fate' = [x \in Pkt |-> IF x \in PktsOf(Slot(queue, p)) THEN "superseded" ELSE fate[x]]
    BY <1>4 DEF PutHeld
  <2>3. \A x \in PktsOf(Slot(queue, p)) : InQueue(x)
    BY DEF PktsOf, Slot, Bucket, InQueue
  <2>4. QED
    BY <1>1, <1>2, <2>1, <2>2, <2>3 DEF TypeOK, Held, NothingLost, SingleHolder
<1>5. QED
  BY <1>3, <1>4

LEMMA HeldByFlushPut ==
  ASSUME TypeOK, Held, NEW f \in Flusher, NEW p \in Pkt, InFlush(f, p), PutHeld(p),
         \A g \in Handler, x \in Pkt : InRoute(g, x)' <=> InRoute(g, x),
         \A g \in Flusher, x \in Pkt :
           InFlush(g, x)' <=> InFlush(g, x) /\ ~(g = f /\ x = p)
  PROVE  Held'
<1>1. fate[p] = "live" /\ ~InQueue(p)
  BY DEF Held, SingleHolder
<1>2. CASE Refused(queue, p)
  <2>1. /\ fate' = [fate EXCEPT ![p] = "refused"]
        /\ \A x \in Pkt : InQueue(x)' <=> InQueue(x)
    BY <1>2 DEF PutHeld, Put, InQueue
  <2>2. QED
    BY <1>1, <2>1 DEF TypeOK, Held, NothingLost, SingleHolder
<1>3. CASE ~Refused(queue, p)
  <2>1. \A x \in Pkt : InQueue(x)' <=> x = p \/ (InQueue(x) /\ x \notin PktsOf(Slot(queue, p)))
    <3>1. queue' = Put(queue, p, clock)
      BY DEF PutHeld
    <3>2. queue \subseteq queuedPacket /\ clock \in Nat
      BY ClockNat DEF TypeOK
    <3>3. PktsOf(queue') = (PktsOf(queue) \ PktsOf(Slot(queue, p))) \cup {p}
      BY <1>3, <3>1, <3>2, PutPkts
    <3>4. QED
      BY <3>3 DEF InQueue
  <2>2. fate' = [x \in Pkt |-> IF x \in PktsOf(Slot(queue, p)) THEN "superseded" ELSE fate[x]]
    BY <1>3 DEF PutHeld
  <2>3. \A x \in PktsOf(Slot(queue, p)) : InQueue(x)
    BY DEF PktsOf, Slot, Bucket, InQueue
  <2>4. QED
    BY <1>1, <2>1, <2>2, <2>3 DEF TypeOK, Held, NothingLost, SingleHolder
<1>4. QED
  BY <1>2, <1>3

LEMMA HeldStep == TypeOK /\ Held /\ [Next]_vars => Held'
<1> SUFFICES ASSUME TypeOK, Held, [Next]_vars PROVE Held'
  OBVIOUS
<1> USE PacketAssumption, NodeAssumption
    DEF TypeOK, Held, NothingLost, SingleHolder, InQueue, InRoute, InFlush
<1>1. CASE Tick
  BY <1>1 DEF Tick
<1>2. ASSUME NEW h \in Handler, NEW p \in Pkt, Route(h, p) PROVE Held'
  <2>1. CASE dedup[idOf[p]] # None
    BY <1>2, <2>1 DEF Route, Seen
  <2>2. CASE dedup[idOf[p]] = None /\ recipientOf[p] = NoPeer
    BY <1>2, <2>2 DEF Route, Seen
  <2>3. CASE dedup[idOf[p]] = None /\ recipientOf[p] # NoPeer
    <3>1. /\ route' = [route EXCEPT ![h] = [pc |-> "local", pkt |-> p]]
          /\ fate' = [fate EXCEPT ![p] = "live"]
          /\ UNCHANGED <<queue, flush>>
      BY <1>2, <2>3 DEF Route, Seen
    <3>2. route[h].pc = "idle" /\ fate[p] = "new"
      BY <1>2 DEF Route, Seen, Idle
    <3>3. \A g \in Handler, x \in Pkt :
            InRoute(g, x)' <=> (g = h /\ x = p) \/ InRoute(g, x)
      BY <3>1, <3>2 DEF RouteAt
    <3> HIDE DEF InRoute
    <3>4. QED
      BY <3>1, <3>2, <3>3
  <2>4. QED
    BY <2>1, <2>2, <2>3
<1>3. ASSUME NEW h \in Handler, RouteLocal(h) PROVE Held'
  BY <1>3 DEF RouteLocal, RouteGo, RouteAt
<1>4. ASSUME NEW h \in Handler, RouteDeliver(h) PROVE Held'
  <2> DEFINE p == route[h].pkt
  <2>1. p \in Pkt /\ InRoute(h, p)
    BY <1>4 DEF RouteDeliver
  <2>2. fate' = [fate EXCEPT ![p] = "delivered"] /\ UNCHANGED <<queue, flush>>
    BY <1>4 DEF RouteDeliver
  <2>3. \A g \in Handler, x \in Pkt : InRoute(g, x)' <=> g # h /\ InRoute(g, x)
    BY <1>4 DEF RouteDeliver, Idle, RouteAt
  <2>4. \A x \in Pkt : InRoute(h, x) => x = p
    OBVIOUS
  <2> HIDE DEF p, InRoute
  <2>5. QED
    BY <2>1, <2>2, <2>3, <2>4
<1>5. ASSUME NEW h \in Handler, RouteLookup(h) PROVE Held'
  BY <1>5 DEF RouteLookup, RouteGo, RouteAt
<1>6. ASSUME NEW h \in Handler, RouteForward(h) PROVE Held'
  <2> DEFINE p == route[h].pkt
  <2>1. p \in Pkt /\ InRoute(h, p)
    BY <1>6 DEF RouteForward
  <2>2. fate' = [fate EXCEPT ![p] = "forwarded"] /\ UNCHANGED <<queue, flush>>
    BY <1>6 DEF RouteForward
  <2>3. \A g \in Handler, x \in Pkt : InRoute(g, x)' <=> g # h /\ InRoute(g, x)
    BY <1>6 DEF RouteForward, Idle, RouteAt
  <2>4. \A x \in Pkt : InRoute(h, x) => x = p
    OBVIOUS
  <2> HIDE DEF p, InRoute
  <2>5. QED
    BY <2>1, <2>2, <2>3, <2>4
<1>7. ASSUME NEW h \in Handler, RoutePut(h) PROVE Held'
  <2> DEFINE p == route[h].pkt
  <2>1. p \in Pkt /\ InRoute(h, p)
    BY <1>7 DEF RoutePut
  <2>2. \A g \in Handler, x \in Pkt : InRoute(g, x)' <=> g # h /\ InRoute(g, x)
    BY <1>7 DEF RoutePut, Idle, RouteAt
  <2>3. \A f \in Flusher, x \in Pkt : InFlush(f, x)' <=> InFlush(f, x)
    BY <1>7 DEF RoutePut
  <2>4. PutHeld(p)
    BY <1>7 DEF RoutePut
  <2> HIDE DEF p, TypeOK, Held, InRoute, InFlush
  <2>5. QED
    BY <2>1, <2>2, <2>3, <2>4, HeldByRoutePut
<1>8. ASSUME NEW c \in Conn, NEW a \in App, AppConnected(c, a) PROVE Held'
  <2>1. c \in Flusher
    BY DEF Flusher
  <2>2. flush[c].pending = {} /\ flush'[c].pending = {}
    BY <1>8, <2>1 DEF AppConnected, Resting
  <2>3. \A g \in Flusher : flush'[g].pending = flush[g].pending
    BY <1>8, <2>1, <2>2 DEF AppConnected
  <2>4. \A g \in Flusher, x \in Pkt : InFlush(g, x)' <=> InFlush(g, x)
    BY <2>3
  <2>5. UNCHANGED <<queue, route, fate>>
    BY <1>8 DEF AppConnected
  <2> HIDE DEF InFlush
  <2>6. QED
    BY <2>4, <2>5
<1>9. ASSUME NEW a \in App, AppDisconnected(a) PROVE Held'
  BY <1>9 DEF AppDisconnected
<1>10. ASSUME NEW a \in App, NEW via \in Node, NEW ttl \in AnnouncedTTL,
              PresenceOnline(a, via, ttl)
       PROVE Held'
  BY <1>10 DEF PresenceOnline, Flusher, FlushAt, Resting
<1>11. ASSUME NEW a \in App, PresenceTombstone(a) PROVE Held'
  BY <1>11 DEF PresenceTombstone
<1>12. ASSUME NEW f \in Flusher, FlushTake(f) PROVE Held'
  <2> DEFINE a == flush[f].app
             pending == Taken(queue, a, clock)
             bucket == PktsOf(Bucket(queue, a))
  <2>1. /\ fate' = [x \in Pkt |-> IF x \in bucket \ pending THEN "expired" ELSE fate[x]]
        /\ PktsOf(queue') = PktsOf(queue) \ bucket
        /\ UNCHANGED route
    BY <1>12, TakePkts, ClockNat DEF FlushTake, ExpireAll
  <2>2. pending \subseteq bucket /\ bucket \subseteq PktsOf(queue)
    <3>1. queue \subseteq queuedPacket /\ clock \in Nat
      BY ClockNat DEF TypeOK
    <3> HIDE DEF TypeOK, Held
    <3>2. QED
      BY <3>1, TakePkts
  <2>3. /\ flush[f].pending = {}
        /\ flush' = [flush EXCEPT ![f] =
                       IF pending = {} THEN Resting
                       ELSE [pc |-> "local", app |-> a, pending |-> pending]]
    BY <1>12 DEF FlushTake
  <2> HIDE DEF pending, a, bucket
  <2>4. flush'[f].pending = pending /\ \A g \in Flusher \ {f} : flush'[g] = flush[g]
    BY <2>3 DEF Resting
  <2>5. \A g \in Flusher, x \in Pkt :
          InFlush(g, x)' <=> InFlush(g, x) \/ (g = f /\ x \in pending)
    BY <2>3, <2>4
  <2>6. \A g \in Handler, x \in Pkt : InRoute(g, x)' <=> InRoute(g, x)
    BY <2>1
  <2> HIDE DEF InFlush, InRoute
  <2>7. QED
    BY <2>1, <2>2, <2>5, <2>6
<1>13. ASSUME NEW f \in Flusher, FlushLocal(f) PROVE Held'
  BY <1>13 DEF FlushLocal, FlushGo, FlushAt
<1>14. ASSUME NEW f \in Flusher, FlushLookup(f) PROVE Held'
  BY <1>14 DEF FlushLookup, FlushGo, FlushAt
<1>15. ASSUME NEW f \in Flusher, NEW p \in Pkt, FlushDeliver(f, p) PROVE Held'
  <2>1. InFlush(f, p)
    BY <1>15 DEF FlushDeliver
  <2>2. fate' = [fate EXCEPT ![p] = "delivered"] /\ UNCHANGED <<queue, route>>
    BY <1>15 DEF FlushDeliver
  <2>3. flush' = [flush EXCEPT ![f] = Without(f, p)]
    BY <1>15 DEF FlushDeliver
  <2>4. Without(f, p).pending = flush[f].pending \ {p}
    BY <2>1 DEF Without, Resting
  <2>5. \A g \in Flusher, x \in Pkt :
          InFlush(g, x)' <=> InFlush(g, x) /\ ~(g = f /\ x = p)
    BY <2>3, <2>4
  <2> HIDE DEF InFlush
  <2>6. QED
    BY <2>1, <2>2, <2>5
<1>16. ASSUME NEW f \in Flusher, NEW p \in Pkt, FlushForward(f, p) PROVE Held'
  <2>1. InFlush(f, p)
    BY <1>16 DEF FlushForward
  <2>2. fate' = [fate EXCEPT ![p] = "forwarded"] /\ UNCHANGED <<queue, route>>
    BY <1>16 DEF FlushForward
  <2>3. flush' = [flush EXCEPT ![f] = Without(f, p)]
    BY <1>16 DEF FlushForward
  <2>4. Without(f, p).pending = flush[f].pending \ {p}
    BY <2>1 DEF Without, Resting
  <2>5. \A g \in Flusher, x \in Pkt :
          InFlush(g, x)' <=> InFlush(g, x) /\ ~(g = f /\ x = p)
    BY <2>3, <2>4
  <2> HIDE DEF InFlush
  <2>6. QED
    BY <2>1, <2>2, <2>5
<1>17. ASSUME NEW f \in Flusher, NEW p \in Pkt, FlushPut(f, p) PROVE Held'
  <2>1. InFlush(f, p)
    BY <1>17 DEF FlushPut
  <2>2. \A g \in Handler, x \in Pkt : InRoute(g, x)' <=> InRoute(g, x)
    BY <1>17 DEF FlushPut
  <2>3. flush' = [flush EXCEPT ![f] = Without(f, p)]
    BY <1>17 DEF FlushPut
  <2>4. Without(f, p).pending = flush[f].pending \ {p}
    BY <2>1 DEF Without, Resting
  <2>5. \A g \in Flusher, x \in Pkt :
          InFlush(g, x)' <=> InFlush(g, x) /\ ~(g = f /\ x = p)
    BY <2>3, <2>4
  <2>6. PutHeld(p)
    BY <1>17 DEF FlushPut
  <2> HIDE DEF TypeOK, Held, InRoute, InFlush
  <2>7. QED
    BY <2>1, <2>2, <2>5, <2>6, HeldByFlushPut
<1>18. CASE Prune
  BY <1>18 DEF Prune
<1>19. CASE Sweep
  BY <1>19, SweptPkts DEF Sweep, ExpireAll
<1>20. CASE Evict
  BY <1>20 DEF Evict
<1>21. CASE UNCHANGED vars
  BY <1>21 DEF vars
<1>22. QED
  BY <1>1, <1>2, <1>3, <1>4, <1>5, <1>6, <1>7, <1>8, <1>9, <1>10, <1>11, <1>12,
     <1>13, <1>14, <1>15, <1>16, <1>17, <1>18, <1>19, <1>20, <1>21
     DEF Next, handleSend, handleStream, RouteNext, FlushNext

\* No packet that the node accepted is lost, whatever Route calls, flushes and
\* tickers interleave.
THEOREM PacketsAreNotLost == Spec => []NothingLost
  BY TypeInit, TypeStep, HeldInit, HeldStep, PTL DEF Spec, Held

\* No packet is in two places at once, and none is anywhere once it has reached
\* its end: the node neither delivers nor forwards a packet twice.
THEOREM PacketsAreNotDoubled == Spec => []SingleHolder
  BY TypeInit, TypeStep, HeldInit, HeldStep, PTL DEF Spec, Held

-----------------------------------------------------------------------------
(***************************************************************************)
(* The duplicate cache.                                                    *)
(***************************************************************************)

\* The cache entry of an ID is no older than any packet accepted with that ID,
\* and if there is none, those packets are all older than the window.
DedupInv ==
  \A p \in Pkt : acceptedAt[p] # None =>
    /\ acceptedAt[p] <= clock
    /\ dedup[idOf[p]] # None => acceptedAt[p] <= dedup[idOf[p]]
    /\ dedup[idOf[p]] = None => acceptedAt[p] + DedupCacheTTL < clock

DedupAll == DedupInv /\ DedupWindow

LEMMA DedupInit == Init => DedupAll
  BY NodeAssumption DEF Init, DedupAll, DedupInv, DedupWindow

LEMMA DedupStep == TypeOK /\ DedupAll /\ [Next]_vars => DedupAll'
<1> SUFFICES ASSUME TypeOK, DedupAll, [Next]_vars PROVE DedupAll'
  OBVIOUS
<1> USE NodeAssumption DEF DedupAll, DedupInv, DedupWindow
<1> clock \in Nat
  BY ClockNat
<1>1. CASE Tick
  BY <1>1 DEF Tick, TypeOK
<1>2. ASSUME NEW h \in Handler, NEW p \in Pkt, Route(h, p) PROVE DedupAll'
  <2>1. CASE dedup[idOf[p]] # None
    BY <1>2, <2>1 DEF Route, Seen, TypeOK
  <2>2. CASE dedup[idOf[p]] = None
    <3>1. /\ dedup' = [dedup EXCEPT ![idOf[p]] = clock]
          /\ acceptedAt' = [acceptedAt EXCEPT ![p] = clock]
          /\ clock' = clock
      BY <1>2, <2>2 DEF Route, Seen
    <3>2. DedupInv'
      BY <2>2, <3>1 DEF TypeOK
    <3>3. DedupWindow'
      BY <2>2, <3>1 DEF TypeOK
    <3>4. QED
      BY <3>2, <3>3
  <2>3. QED
    BY <2>1, <2>2
<1>3. CASE Evict
  BY <1>3 DEF Evict, TypeOK
<1>4. CASE UNCHANGED <<clock, dedup, acceptedAt>>
  BY <1>4
<1>5. ASSUME NEW h \in Handler, RouteNext(h) PROVE UNCHANGED <<clock, dedup, acceptedAt>>
  BY <1>5 DEF RouteNext, RouteLocal, RouteDeliver, RouteLookup, RouteForward, RoutePut
<1>6. ASSUME NEW f \in Flusher, FlushNext(f) PROVE UNCHANGED <<clock, dedup, acceptedAt>>
  BY <1>6 DEF FlushNext, FlushTake, FlushLocal, FlushLookup, FlushDeliver, FlushForward,
              FlushPut
<1>7. ASSUME NEW a \in App, NEW c, NEW via, NEW ttl,
             \/ AppConnected(c, a) \/ AppDisconnected(a)
             \/ PresenceTombstone(a) \/ PresenceOnline(a, via, ttl)
      PROVE UNCHANGED <<clock, dedup, acceptedAt>>
  BY <1>7 DEF AppConnected, AppDisconnected, PresenceTombstone, PresenceOnline
<1>8. ASSUME Prune \/ Sweep \/ UNCHANGED vars PROVE UNCHANGED <<clock, dedup, acceptedAt>>
  BY <1>8 DEF Prune, Sweep, vars
<1>9. QED
  BY <1>1, <1>2, <1>3, <1>4, <1>5, <1>6, <1>7, <1>8
     DEF Next, handleSend, handleStream

\* Within DedupCacheTTL the node accepts a packet ID once, however evictions fall.
THEOREM DuplicatesAreDropped == Spec => []DedupWindow
  BY TypeInit, TypeStep, DedupInit, DedupStep, PTL DEF Spec, DedupAll

-----------------------------------------------------------------------------
(***************************************************************************)
(* How long a packet is kept.  Entries are stamped when they are put, which  *)
(* is never before their packet was accepted.                               *)
(***************************************************************************)

AgeInv ==
  /\ \A p \in Pkt : acceptedAt[p] # None => acceptedAt[p] <= clock
  /\ \A p \in Pkt : fate[p] = "live" => acceptedAt[p] # None
  /\ \A e \in queue : acceptedAt[e.pkt] # None /\ acceptedAt[e.pkt] <= e.at
  /\ NotExpiredEarly

\* A step that puts nothing into the queue and calls only stale entries expired.
LEMMA AgeKept ==
  ASSUME TypeOK, AgeInv, queue' \subseteq queue, acceptedAt' = acceptedAt,
         clock' \in Nat, clock <= clock',
         \A p \in Pkt : fate'[p] = "live" => fate[p] = "live",
         \A p \in Pkt : fate'[p] = "expired" =>
           fate[p] = "expired" \/ \E e \in queue : e.pkt = p /\ Stale(e, clock)
  PROVE  AgeInv'
<1> USE QueueAssumption, NodeAssumption
<1>1. clock \in Nat
  BY ClockNat
<1>2. \A p \in Pkt : acceptedAt[p] \in Nat \cup {None}
  BY DEF TypeOK
<1>3. \A e \in queue : e.pkt \in Pkt /\ e.at \in Nat
  BY DEF TypeOK, queuedPacket
<1>4. ASSUME NEW p \in Pkt, fate'[p] = "expired"
      PROVE  acceptedAt[p] # None /\ acceptedAt[p] + QueueEntryTTL < clock
  <2>1. CASE fate[p] = "expired"
    BY <2>1 DEF AgeInv, NotExpiredEarly
  <2>2. ASSUME NEW e \in queue, e.pkt = p, Stale(e, clock)
        PROVE  acceptedAt[p] # None /\ acceptedAt[p] + QueueEntryTTL < clock
    BY <1>1, <1>2, <1>3, <2>2 DEF AgeInv, Stale
  <2>3. QED
    BY <1>4, <2>1, <2>2
<1>5. NotExpiredEarly'
  BY <1>1, <1>2, <1>4 DEF NotExpiredEarly
<1>6. QED
  BY <1>1, <1>2, <1>5 DEF AgeInv

LEMMA AgePut ==
  ASSUME TypeOK, AgeInv, NEW p \in Pkt, fate[p] = "live", PutHeld(p),
         UNCHANGED <<clock, acceptedAt>>
  PROVE  AgeInv'
<1> USE NodeAssumption
<1>1. clock \in Nat
  BY ClockNat
<1>2. queue' \subseteq queue \cup {[pkt |-> p, at |-> clock]}
  BY DEF PutHeld, Put
<1>3. \A x \in Pkt : /\ fate'[x] = "live" => fate[x] = "live"
                     /\ fate'[x] = "expired" => fate[x] = "expired"
  BY DEF PutHeld, TypeOK
<1>4. \A e \in queue' : acceptedAt[e.pkt] # None /\ acceptedAt[e.pkt] <= e.at
  <2>1. acceptedAt[p] # None /\ acceptedAt[p] <= clock
    BY DEF AgeInv
  <2>2. QED
    BY <1>2, <2>1 DEF AgeInv
<1>5. QED
  BY <1>3, <1>4 DEF AgeInv, NotExpiredEarly

LEMMA AgeStep == TypeOK /\ Held /\ AgeInv /\ [Next]_vars => AgeInv'
<1> SUFFICES ASSUME TypeOK, Held, AgeInv, [Next]_vars PROVE AgeInv'
  OBVIOUS
<1> USE NodeAssumption
<1> clock \in Nat
  BY ClockNat
<1>1. CASE Tick
  BY <1>1, AgeKept DEF Tick
<1>2. ASSUME NEW h \in Handler, NEW p \in Pkt, Route(h, p) PROVE AgeInv'
  <2>1. CASE Seen(p)
    BY <1>2, <2>1, AgeKept DEF Route, TypeOK
  <2>2. CASE ~Seen(p)
    <3>1. /\ acceptedAt' = [acceptedAt EXCEPT ![p] = clock]
          /\ UNCHANGED <<clock, queue>>
          /\ \A x \in Pkt \ {p} : fate'[x] = fate[x]
          /\ fate'[p] # "expired" /\ fate[p] = "new"
      BY <1>2, <2>2 DEF Route, TypeOK
    <3>2. \A x \in Pkt : acceptedAt'[x] = IF x = p THEN clock ELSE acceptedAt[x]
      BY <3>1 DEF TypeOK
    <3>3. \A e \in queue : e.pkt \in Pkt \ {p}
      BY <3>1 DEF Held, SingleHolder, InQueue, PktsOf, TypeOK, queuedPacket
    <3>4. \A e \in queue' : acceptedAt'[e.pkt] # None /\ acceptedAt'[e.pkt] <= e.at
      BY <3>1, <3>2, <3>3 DEF AgeInv
    <3>5. NotExpiredEarly'
      BY <3>1, <3>2 DEF AgeInv, NotExpiredEarly
    <3>6. QED
      BY <3>1, <3>2, <3>4, <3>5 DEF AgeInv
  <2>3. QED
    BY <2>1, <2>2
<1>3. ASSUME NEW h \in Handler, RoutePut(h) PROVE AgeInv'
  <2>1. route[h].pkt \in Pkt /\ fate[route[h].pkt] = "live"
    BY <1>3 DEF RoutePut, Held, SingleHolder, InRoute, TypeOK
  <2>2. QED
    BY <1>3, <2>1, AgePut DEF RoutePut
<1>4. ASSUME NEW f \in Flusher, NEW p \in Pkt, FlushPut(f, p) PROVE AgeInv'
  <2>1. fate[p] = "live"
    BY <1>4 DEF FlushPut, Held, SingleHolder, InFlush
  <2>2. QED
    BY <1>4, <2>1, AgePut DEF FlushPut
<1>5. ASSUME NEW f \in Flusher, FlushTake(f) PROVE AgeInv'
  <2>1. \A p \in PktsOf(Bucket(queue, flush[f].app)) \ Taken(queue, flush[f].app, clock) :
          \E e \in queue : e.pkt = p /\ Stale(e, clock)
    BY DEF PktsOf, Bucket, Taken
  <2>2. QED
    BY <1>5, <2>1, AgeKept DEF FlushTake, AfterTake, ExpireAll
<1>6. CASE Sweep
  <2>1. \A p \in PktsOf(queue) \ PktsOf(Swept(queue, clock)) :
          \E e \in queue : e.pkt = p /\ Stale(e, clock)
    BY DEF PktsOf, Swept
  <2>2. Swept(queue, clock) \subseteq queue
    BY DEF Swept
  <2>3. QED
    BY <1>6, <2>1, <2>2, AgeKept DEF Sweep, ExpireAll
<1>7. ASSUME NEW p \in Pkt, NEW end \in {"delivered", "forwarded"},
             fate' = [fate EXCEPT ![p] = end], UNCHANGED <<clock, queue, acceptedAt>>
      PROVE  AgeInv'
  BY <1>7, AgeKept DEF TypeOK
<1>8. ASSUME UNCHANGED <<clock, queue, acceptedAt, fate>> PROVE AgeInv'
  BY <1>8, AgeKept
<1>9. ASSUME NEW h \in Handler, RouteNext(h) PROVE AgeInv'
  <2>1. CASE RouteDeliver(h) \/ RouteForward(h)
    <3>1. route[h].pkt \in Pkt
      BY <2>1 DEF RouteDeliver, RouteForward, TypeOK
    <3>2. QED
      BY <1>7, <2>1, <3>1 DEF RouteDeliver, RouteForward
  <2>2. QED
    BY <1>3, <1>8, <1>9, <2>1 DEF RouteNext, RouteLocal, RouteLookup
<1>10. ASSUME NEW f \in Flusher, FlushNext(f) PROVE AgeInv'
  BY <1>4, <1>5, <1>7, <1>8, <1>10
     DEF FlushNext, FlushLocal, FlushLookup, FlushDeliver, FlushForward
<1>11. ASSUME NEW a \in App, NEW c, NEW via, NEW ttl,
              \/ AppConnected(c, a) \/ AppDisconnected(a)
              \/ PresenceTombstone(a) \/ PresenceOnline(a, via, ttl)
       PROVE AgeInv'
  BY <1>8, <1>11 DEF AppConnected, AppDisconnected, PresenceTombstone, PresenceOnline
<1>12. ASSUME Prune \/ Evict \/ UNCHANGED vars PROVE AgeInv'
  BY <1>8, <1>12 DEF Prune, Evict, vars
<1>13. QED
  BY <1>1, <1>2, <1>6, <1>9, <1>10, <1>11, <1>12 DEF Next, handleSend, handleStream

\* No packet is dropped for its age within QueueEntryTTL of its acceptance, however
\* often flushes take it and put it back.
THEOREM PacketsKeepTheirTime == Spec => []NotExpiredEarly
<1>1. Init => AgeInv
  BY DEF Init, AgeInv, NotExpiredEarly
<1>2. AgeInv => NotExpiredEarly
  BY DEF AgeInv
<1>3. QED
  BY <1>1, <1>2, TypeInit, TypeStep, HeldInit, HeldStep, AgeStep, PTL DEF Spec

-----------------------------------------------------------------------------
(***************************************************************************)
(* The size of the queue.                                                  *)
(***************************************************************************)

LEMMA BoundedSubset ==
  ASSUME NEW q, IsFiniteSet(q), Bounded(q), NEW r, r \subseteq q
  PROVE  IsFiniteSet(r) /\ Bounded(r)
<1>1. IsFiniteSet(r)
  BY FS_Subset
<1>2. ASSUME NEW e \in r
      PROVE  /\ Slot(r, e.pkt) = {e}
             /\ Cardinality(Bucket(r, recipientOf[e.pkt])) <= QueueMaxSenders
  <2> DEFINE a == recipientOf[e.pkt]
  <2>1. Slot(q, e.pkt) = {e} /\ Cardinality(Bucket(q, a)) <= QueueMaxSenders
    BY <1>2 DEF Bounded
  <2>2. Slot(r, e.pkt) \subseteq Slot(q, e.pkt) /\ e \in Slot(r, e.pkt)
    BY <1>2 DEF Slot, Bucket
  <2>3. Bucket(r, a) \subseteq Bucket(q, a) /\ Bucket(q, a) \subseteq q
    BY DEF Bucket
  <2> HIDE DEF a
  <2>4. IsFiniteSet(Bucket(q, a))
    BY <2>3, FS_Subset
  <2>5. /\ Cardinality(Bucket(r, a)) <= Cardinality(Bucket(q, a))
        /\ Cardinality(Bucket(r, a)) \in Nat
        /\ Cardinality(Bucket(q, a)) \in Nat
    BY <2>3, <2>4, FS_Subset, FS_CardinalityType
  <2>6. QED
    BY <2>1, <2>2, <2>5, QueueAssumption DEF a
<1>3. QED
  BY <1>1, <1>2 DEF Bounded

LEMMA BoundedPut ==
  ASSUME NEW q, IsFiniteSet(q), Bounded(q), NEW p \in Pkt, NEW now \in Nat
  PROVE  IsFiniteSet(Put(q, p, now)) /\ Bounded(Put(q, p, now))
<1>1. CASE Refused(q, p)
  BY <1>1 DEF Put
<1>2. CASE ~Refused(q, p)
  <2> DEFINE n == [pkt |-> p, at |-> now]
             rest == q \ Slot(q, p)
             a == recipientOf[p]
  <2>1. Put(q, p, now) = rest \cup {n} /\ n.pkt = p
    BY <1>2 DEF Put
  <2>2. IsFiniteSet(rest) /\ Bounded(rest)
    BY BoundedSubset
  <2>3. IsFiniteSet(rest \cup {n})
    BY <2>2, FS_AddElement
  <2>4. Slot(rest, p) = {}
    BY DEF Slot, Bucket
  <2>5. Bucket(rest, a) = Bucket(q, a) \ Slot(q, p) /\ Bucket(q, a) \subseteq q
    BY DEF Bucket, Slot
  <2>6. IsFiniteSet(Bucket(q, a)) /\ Cardinality(Bucket(q, a)) \in Nat
    BY <2>5, FS_Subset, FS_CardinalityType
  <2>7. Cardinality(Bucket(rest, a)) \in Nat /\ Cardinality(Bucket(rest, a)) < QueueMaxSenders
    <3>1. CASE Slot(q, p) = {}
      BY <1>2, <2>5, <2>6, <3>1, QueueAssumption DEF Refused, Full
    <3>2. CASE Slot(q, p) # {}
      <4>1. PICK e \in Slot(q, p) : TRUE
        BY <3>2
      <4>2. /\ e \in q
            /\ e \in Bucket(q, a)
            /\ recipientOf[e.pkt] = a
            /\ Slot(q, e.pkt) = Slot(q, p)
        BY <4>1 DEF Slot, Bucket
      <4>3. Slot(q, p) = {e} /\ Cardinality(Bucket(q, a)) <= QueueMaxSenders
        BY <4>2 DEF Bounded
      <4>4. Cardinality(Bucket(q, a) \ {e}) = Cardinality(Bucket(q, a)) - 1
        BY <2>6, <4>2, FS_RemoveElement
      <4>5. Cardinality(Bucket(q, a) \ {e}) \in Nat
        BY <2>6, FS_Subset, FS_CardinalityType
      <4>6. Bucket(rest, a) = Bucket(q, a) \ {e}
        BY <2>5, <4>3
      <4> HIDE DEF rest, a
      <4>7. QED
        BY <2>6, <4>3, <4>4, <4>5, <4>6, QueueAssumption
    <3>3. QED
      BY <3>1, <3>2
  <2>8. IsFiniteSet(Bucket(rest, a))
    BY <2>5, <2>6, FS_Subset
  <2>9. Cardinality(Bucket(rest, a) \cup {n}) <= QueueMaxSenders
    <3>1. Cardinality(Bucket(rest, a) \cup {n}) \in
            {Cardinality(Bucket(rest, a)), Cardinality(Bucket(rest, a)) + 1}
      BY <2>8, FS_AddElement
    <3>2. QED
      BY <2>7, <3>1, QueueAssumption
  <2> HIDE DEF n, rest
  <2>10. ASSUME NEW e \in rest \cup {n}
         PROVE  /\ Slot(rest \cup {n}, e.pkt) = {e}
                /\ Cardinality(Bucket(rest \cup {n}, recipientOf[e.pkt])) <= QueueMaxSenders
    <3>1. CASE recipientOf[e.pkt] = a
      <4>1. Bucket(rest \cup {n}, recipientOf[e.pkt]) = Bucket(rest, a) \cup {n}
        BY <2>1, <3>1 DEF Bucket
      <4>2. CASE e = n
        <5>1. Slot(rest \cup {n}, p) = Slot(rest, p) \cup {n}
          BY <2>1 DEF Slot, Bucket
        <5>2. QED
          BY <2>1, <2>4, <2>9, <4>1, <4>2, <5>1
      <4>3. CASE e # n
        <5>1. Slot(rest, e.pkt) = {e}
          BY <2>2, <4>3 DEF Bounded
        <5>2. senderOf[e.pkt] # senderOf[p]
          BY <2>4, <3>1, <4>3 DEF Slot, Bucket
        <5>3. Slot(rest \cup {n}, e.pkt) = Slot(rest, e.pkt)
          BY <2>1, <5>2 DEF Slot, Bucket
        <5>4. QED
          BY <2>9, <4>1, <5>1, <5>3
      <4>4. QED
        BY <4>2, <4>3
    <3>2. CASE recipientOf[e.pkt] # a
      <4>1. e # n /\ e \in rest
        BY <2>1, <3>2
      <4>2. Bucket(rest \cup {n}, recipientOf[e.pkt]) = Bucket(rest, recipientOf[e.pkt])
        BY <2>1, <3>2 DEF Bucket
      <4>3. Slot(rest \cup {n}, e.pkt) = Slot(rest, e.pkt)
        BY <4>2 DEF Slot
      <4>4. QED
        BY <2>2, <4>1, <4>2, <4>3 DEF Bounded
    <3>3. QED
      BY <3>1, <3>2
  <2>11. QED
    BY <2>1, <2>3, <2>10 DEF Bounded
<1>3. QED
  BY <1>1, <1>2

QueueInv == IsFiniteSet(queue) /\ QueueBounded

LEMMA QueueInit == Init => QueueInv
  BY FS_EmptySet DEF Init, QueueInv, QueueBounded, Bounded

LEMMA QueueStep == TypeOK /\ QueueInv /\ [Next]_vars => QueueInv'
<1> SUFFICES ASSUME TypeOK, QueueInv, [Next]_vars PROVE QueueInv'
  OBVIOUS
<1> USE DEF QueueInv, QueueBounded
<1>1. CASE queue' \subseteq queue
  BY <1>1, BoundedSubset
<1>2. ASSUME NEW p \in Pkt, PutHeld(p) PROVE QueueInv'
  BY <1>2, BoundedPut, ClockNat DEF PutHeld
<1>3. ASSUME NEW h \in Handler, RouteNext(h) PROVE QueueInv'
  BY <1>1, <1>2, <1>3
     DEF TypeOK, RouteNext, RouteLocal, RouteDeliver, RouteLookup, RouteForward, RoutePut
<1>4. ASSUME NEW f \in Flusher, FlushNext(f) PROVE QueueInv'
  BY <1>1, <1>2, <1>4
     DEF FlushNext, FlushTake, FlushLocal, FlushLookup, FlushDeliver, FlushForward,
         FlushPut, AfterTake
<1>5. ASSUME NEW h, NEW p, Route(h, p) PROVE QueueInv'
  BY <1>1, <1>5 DEF Route, Seen
<1>6. ASSUME NEW a \in App, NEW c, NEW via, NEW ttl,
             \/ AppConnected(c, a) \/ AppDisconnected(a)
             \/ PresenceTombstone(a) \/ PresenceOnline(a, via, ttl)
      PROVE QueueInv'
  BY <1>1, <1>6 DEF AppConnected, AppDisconnected, PresenceTombstone, PresenceOnline
<1>7. ASSUME Tick \/ Prune \/ Sweep \/ Evict \/ UNCHANGED vars PROVE QueueInv'
  BY <1>1, <1>7 DEF Tick, Prune, Sweep, Swept, Evict, vars
<1>8. QED
  BY <1>3, <1>4, <1>5, <1>6, <1>7 DEF Next, handleSend, handleStream

\* The queue never holds two packets of one sender for one recipient, nor more
\* than QueueMaxSenders packets for a recipient.
THEOREM QueueStaysBounded == Spec => []QueueBounded
  BY TypeInit, TypeStep, QueueInit, QueueStep, PTL DEF Spec, QueueInv

-----------------------------------------------------------------------------
(***************************************************************************)
(* The node implements PacketService.                                      *)
(***************************************************************************)

Busy(p) == (\E h \in Handler : InRoute(h, p)) \/ (\E f \in Flusher : InFlush(f, p))

\* The refinement mapping, before and after a step.
LEMMA PlaceDef ==
  ASSUME NEW p \in Pkt
  PROVE  /\ placeOf[p] = IF fate[p] # "live" THEN fate[p]
                         ELSE IF InQueue(p) THEN "held"
                         ELSE IF Busy(p) THEN "moving" ELSE "nowhere"
         /\ placeOf'[p] = IF fate'[p] # "live" THEN fate'[p]
                          ELSE IF InQueue(p)' THEN "held"
                          ELSE IF Busy(p)' THEN "moving" ELSE "nowhere"
  BY DEF placeOf, Busy

\* What the invariant says of the mapping.
LEMMA PlaceHeld ==
  ASSUME TypeOK, Held, NEW p \in Pkt
  PROVE  /\ placeOf[p] = "held" <=> InQueue(p)
         /\ placeOf[p] = "moving" <=> Busy(p)
         /\ placeOf[p] = "new" <=> fate[p] = "new"
<1>1. placeOf[p] = IF fate[p] # "live" THEN fate[p]
                   ELSE IF InQueue(p) THEN "held"
                   ELSE IF Busy(p) THEN "moving" ELSE "nowhere"
  BY PlaceDef
<1>2. fate[p] \in {"new", "live"} \cup Ended
  BY DEF TypeOK
<1>3. /\ fate[p] # "live" => ~InQueue(p) /\ ~Busy(p)
      /\ InQueue(p) => ~Busy(p)
      /\ fate[p] = "live" => InQueue(p) \/ Busy(p)
  BY DEF Held, NothingLost, SingleHolder, Busy
<1>4. QED
  BY <1>1, <1>2, <1>3 DEF Ended

\* A step that disturbs no packet but p moves p alone.
LEMMA PlaceMoves ==
  ASSUME NEW p \in Pkt,
         \A x \in Pkt \ {p} : /\ fate'[x] = fate[x]
                              /\ InQueue(x)' <=> InQueue(x)
                              /\ Busy(x)' <=> Busy(x)
  PROVE  placeOf' = [placeOf EXCEPT ![p] = placeOf'[p]]
<1>1. \A x \in Pkt \ {p} : placeOf'[x] = placeOf[x]
  BY PlaceDef
<1>2. /\ placeOf = [x \in Pkt |-> placeOf[x]]
      /\ placeOf' = [x \in Pkt |-> placeOf'[x]]
  BY DEF placeOf
<1>3. QED
  BY <1>1, <1>2

LEMMA PlaceStays ==
  ASSUME UNCHANGED <<fate, queue>>, \A x \in Pkt : Busy(x)' <=> Busy(x)
  PROVE  UNCHANGED placeOf
<1>1. \A x \in Pkt : placeOf'[x] = placeOf[x]
  BY PlaceDef DEF InQueue
<1>2. /\ placeOf = [x \in Pkt |-> placeOf[x]]
      /\ placeOf' = [x \in Pkt |-> placeOf'[x]]
  BY DEF placeOf
<1>3. QED
  BY <1>1, <1>2

\* A goroutine hands over a packet it has: HandOver of the service.
LEMMA HandOverStep ==
  ASSUME TypeOK, Held, NEW p \in Pkt, Busy(p),
         NEW l \in {"delivered", "forwarded"},
         fate' = [fate EXCEPT ![p] = l], queue' = queue,
         \A x \in Pkt \ {p} : Busy(x)' <=> Busy(x)
  PROVE  Service!ServiceNext
<1>1. placeOf[p] = "moving"
  BY PlaceHeld
<1>2. placeOf' = [placeOf EXCEPT ![p] = placeOf'[p]]
  BY PlaceMoves DEF InQueue, TypeOK
<1>3. placeOf'[p] = l
  BY PlaceDef DEF TypeOK
<1>4. Service!HandOver(p)
  BY <1>1, <1>2, <1>3 DEF Service!HandOver
<1>5. QED
  BY <1>4 DEF Service!ServiceNext

\* The rivals that the service speaks of are the packets of the slot.
LEMMA RivalsAreSlot ==
  ASSUME TypeOK, Held, NEW p \in Pkt
  PROVE  Service!Rivals(p) = PktsOf(Slot(queue, p))
<1>1. Service!Rivals(p) = {x \in Pkt : InQueue(x) /\ senderOf[x] = senderOf[p]
                                                  /\ recipientOf[x] = recipientOf[p]}
  BY PlaceHeld DEF Service!Rivals
<1>2. queue \subseteq queuedPacket
  BY DEF TypeOK
<1>3. QED
  BY <1>1, <1>2 DEF InQueue, PktsOf, Slot, Bucket, queuedPacket

\* A goroutine puts a packet it has into the queue: Hold or Refuse.
LEMMA PutStep ==
  ASSUME TypeOK, Held, Held', NEW p \in Pkt, Busy(p), PutHeld(p),
         \A x \in Pkt \ {p} : Busy(x)' <=> Busy(x)
  PROVE  Service!ServiceNext
<1>1. placeOf[p] = "moving" /\ fate[p] = "live" /\ ~InQueue(p)
  BY PlaceHeld DEF Held, SingleHolder, Busy
<1>2. CASE Refused(queue, p)
  <2>1. fate' = [fate EXCEPT ![p] = "refused"] /\ queue' = queue
    BY <1>2 DEF PutHeld, Put
  <2>2. placeOf' = [placeOf EXCEPT ![p] = placeOf'[p]]
    BY <2>1, PlaceMoves DEF InQueue, TypeOK
  <2>3. placeOf'[p] = "refused"
    BY <2>1, PlaceDef DEF TypeOK
  <2>4. Service!Rivals(p) = {}
    BY <1>2, RivalsAreSlot DEF Refused, PktsOf
  <2>5. Service!Refuse(p)
    BY <1>1, <2>2, <2>3, <2>4 DEF Service!Refuse
  <2>6. QED
    BY <2>5 DEF Service!ServiceNext
<1>3. CASE ~Refused(queue, p)
  <2> DEFINE slot == PktsOf(Slot(queue, p))
  <2>1. \A x \in Pkt : InQueue(x)' <=> x = p \/ (InQueue(x) /\ x \notin slot)
    <3>1. queue' = Put(queue, p, clock)
      BY DEF PutHeld
    <3>2. queue \subseteq queuedPacket /\ clock \in Nat
      BY ClockNat DEF TypeOK
    <3>3. PktsOf(queue') = (PktsOf(queue) \ slot) \cup {p}
      BY <1>3, <3>1, <3>2, PutPkts
    <3>4. QED
      BY <3>3 DEF InQueue
  <2>2. fate' = [x \in Pkt |-> IF x \in slot THEN "superseded" ELSE fate[x]]
    BY <1>3 DEF PutHeld
  <2>3. \A x \in slot : InQueue(x)
    BY DEF PktsOf, Slot, Bucket, InQueue
  <2>4. Service!Rivals(p) = slot
    BY RivalsAreSlot
  <2> HIDE DEF slot
  <2>5. p \notin slot
    BY <1>1, <2>3
  <2>6. \A x \in Pkt : placeOf'[x] = IF x = p THEN "held"
                                     ELSE IF x \in slot THEN "superseded" ELSE placeOf[x]
    BY <1>1, <2>1, <2>2, <2>5, PlaceDef
  <2>7. placeOf' = [x \in Pkt |-> placeOf'[x]]
    BY DEF placeOf
  <2>8. Service!Hold(p)
    BY <1>1, <2>4, <2>6, <2>7 DEF Service!Hold
  <2>9. QED
    BY <2>8 DEF Service!ServiceNext
<1>4. QED
  BY <1>2, <1>3

\* A step that only takes packets out of the queue: Release.
LEMMA ReleaseStep ==
  ASSUME TypeOK, Held, NEW gone,
         fate' = [x \in Pkt |-> IF x \in gone THEN "expired" ELSE fate[x]],
         \A x \in gone : InQueue(x),
         \A x \in Pkt : InQueue(x)' => InQueue(x),
         \A x \in Pkt : Busy(x)' <=> Busy(x) \/ (InQueue(x) /\ ~InQueue(x)' /\ x \notin gone)
  PROVE  Service!ServiceNext
<1>1. ASSUME NEW x \in Pkt
      PROVE  \/ placeOf'[x] = placeOf[x]
             \/ placeOf[x] = "held" /\ placeOf'[x] \in {"moving", "expired"}
  <2>1. placeOf[x] = "held" <=> InQueue(x)
    BY PlaceHeld
  <2>2. InQueue(x) => fate[x] = "live"
    BY DEF Held, SingleHolder
  <2>3. QED
    BY <2>1, <2>2, PlaceDef
<1>2. Service!Release
  BY <1>1 DEF Service!Release
<1>3. QED
  BY <1>2 DEF Service!ServiceNext

LEMMA ServiceStep == TypeOK /\ Held /\ Held' /\ [Next]_vars => [Service!ServiceNext]_placeOf
<1> SUFFICES ASSUME TypeOK, Held, Held', [Next]_vars PROVE [Service!ServiceNext]_placeOf
  OBVIOUS
<1> USE PacketAssumption, NodeAssumption DEF InRoute, InFlush
<1>1. ASSUME NEW h \in Handler, NEW p \in Pkt, Route(h, p) PROVE Service!ServiceNext
  <2>1. route[h].pc = "idle" /\ fate[p] = "new" /\ UNCHANGED <<queue, flush>>
    BY <1>1 DEF Route, Idle
  <2>2. PICK l \in {"live", "duplicate", "invalid"} :
          /\ fate' = [fate EXCEPT ![p] = l]
          /\ IF l = "live" THEN route' = [route EXCEPT ![h] = [pc |-> "local", pkt |-> p]]
             ELSE route' = route
    BY <1>1 DEF Route, Seen
  <2>3. \A x \in Pkt \ {p} : Busy(x)' <=> Busy(x)
    BY <2>1, <2>2 DEF Busy, TypeOK, RouteAt
  <2>4. l = "live" => Busy(p)'
    BY <2>1, <2>2 DEF Busy, TypeOK, RouteAt
  <2>5. placeOf[p] = "new" /\ ~InQueue(p)
    BY <2>1, PlaceHeld DEF Held, SingleHolder
  <2>6. placeOf' = [placeOf EXCEPT ![p] = placeOf'[p]]
    BY <2>1, <2>2, <2>3, PlaceMoves DEF InQueue, TypeOK
  <2>7. placeOf'[p] \in {"moving", "duplicate", "invalid"}
    BY <2>1, <2>2, <2>4, <2>5, PlaceDef DEF InQueue, TypeOK
  <2>8. Service!Receive(p)
    BY <2>5, <2>6, <2>7 DEF Service!Receive
  <2>9. QED
    BY <2>8 DEF Service!ServiceNext
<1>2. ASSUME NEW h \in Handler, RouteDeliver(h) \/ RouteForward(h) PROVE Service!ServiceNext
  <2> DEFINE p == route[h].pkt
  <2>1. p \in Pkt /\ Busy(p)
    BY <1>2 DEF RouteDeliver, RouteForward, TypeOK, Busy
  <2>2. /\ \E l \in {"delivered", "forwarded"} : fate' = [fate EXCEPT ![p] = l]
        /\ route' = [route EXCEPT ![h] = Idle]
        /\ UNCHANGED <<queue, flush>>
    BY <1>2 DEF RouteDeliver, RouteForward
  <2>3. \A x \in Pkt \ {p} : Busy(x)' <=> Busy(x)
    BY <2>2 DEF Idle, Busy, TypeOK, RouteAt
  <2> HIDE DEF p
  <2>4. QED
    BY <2>1, <2>2, <2>3, HandOverStep
<1>3. ASSUME NEW h \in Handler, RoutePut(h) PROVE Service!ServiceNext
  <2> DEFINE p == route[h].pkt
  <2>1. p \in Pkt /\ Busy(p)
    BY <1>3 DEF RoutePut, TypeOK, Busy
  <2>2. PutHeld(p)
    BY <1>3 DEF RoutePut
  <2>3. \A x \in Pkt \ {p} : Busy(x)' <=> Busy(x)
    BY <1>3 DEF RoutePut, Idle, Busy, TypeOK, RouteAt
  <2> HIDE DEF p
  <2>4. QED
    BY <2>1, <2>2, <2>3, PutStep
<1>4. ASSUME NEW f \in Flusher, NEW p \in Pkt, p \in flush[f].pending,
             flush' = [flush EXCEPT ![f] = Without(f, p)], route' = route
      PROVE  Busy(p) /\ \A x \in Pkt \ {p} : Busy(x)' <=> Busy(x)
  <2>1. Without(f, p).pending = flush[f].pending \ {p}
    BY DEF Without, Resting
  <2>2. \A g \in Flusher, x \in Pkt \ {p} : InFlush(g, x)' <=> InFlush(g, x)
    BY <1>4, <2>1 DEF TypeOK
  <2>3. QED
    BY <1>4, <2>2 DEF Busy
<1>5. ASSUME NEW f \in Flusher, NEW p \in Pkt, FlushDeliver(f, p) \/ FlushForward(f, p)
      PROVE  Service!ServiceNext
  <2>1. /\ \E l \in {"delivered", "forwarded"} : fate' = [fate EXCEPT ![p] = l]
        /\ UNCHANGED <<queue, route>>
        /\ p \in flush[f].pending
        /\ flush' = [flush EXCEPT ![f] = Without(f, p)]
    BY <1>5 DEF FlushDeliver, FlushForward
  <2>2. QED
    BY <1>4, <2>1, HandOverStep
<1>6. ASSUME NEW f \in Flusher, NEW p \in Pkt, FlushPut(f, p) PROVE Service!ServiceNext
  <2>1. /\ PutHeld(p)
        /\ route' = route
        /\ p \in flush[f].pending
        /\ flush' = [flush EXCEPT ![f] = Without(f, p)]
    BY <1>6 DEF FlushPut
  <2>2. QED
    BY <1>4, <2>1, PutStep
<1>7. ASSUME NEW f \in Flusher, FlushTake(f) PROVE Service!ServiceNext
  <2> DEFINE a == flush[f].app
             pending == Taken(queue, a, clock)
             bucket == PktsOf(Bucket(queue, a))
  <2>1. queue \subseteq queuedPacket /\ clock \in Nat
    BY ClockNat DEF TypeOK
  <2>2. queue' = AfterTake(queue, a)
    BY <1>7 DEF FlushTake
  <2>3. /\ PktsOf(queue') = PktsOf(queue) \ bucket
        /\ pending \subseteq bucket
        /\ bucket \subseteq PktsOf(queue)
    BY <2>1, <2>2, TakePkts
  <2>4. fate' = [x \in Pkt |-> IF x \in bucket \ pending THEN "expired" ELSE fate[x]]
    BY <1>7 DEF FlushTake, ExpireAll
  <2>5. /\ flush[f].pending = {}
        /\ flush' = [flush EXCEPT ![f] =
                       IF pending = {} THEN Resting
                       ELSE [pc |-> "local", app |-> a, pending |-> pending]]
        /\ route' = route
    BY <1>7 DEF FlushTake, TypeOK
  <2> HIDE DEF pending, a, bucket
  <2>6. flush'[f].pending = pending /\ \A g \in Flusher \ {f} : flush'[g] = flush[g]
    BY <2>5 DEF Resting, TypeOK
  <2>7. \A x \in Pkt : Busy(x)' <=> Busy(x) \/ x \in pending
    BY <2>5, <2>6 DEF Busy
  <2>8. /\ \A x \in bucket \ pending : InQueue(x)
        /\ \A x \in Pkt : InQueue(x)' => InQueue(x)
        /\ \A x \in Pkt : x \in pending
                            <=> InQueue(x) /\ ~InQueue(x)' /\ x \notin bucket \ pending
    BY <2>3 DEF InQueue
  <2>9. QED
    BY <2>4, <2>7, <2>8, ReleaseStep
<1>8. CASE Sweep
  <2> DEFINE gone == PktsOf(queue) \ PktsOf(Swept(queue, clock))
  <2>1. /\ fate' = [x \in Pkt |-> IF x \in gone THEN "expired" ELSE fate[x]]
        /\ PktsOf(queue') = PktsOf(Swept(queue, clock))
        /\ UNCHANGED <<route, flush>>
    BY <1>8 DEF Sweep, ExpireAll
  <2>2. \A x \in Pkt : Busy(x)' <=> Busy(x)
    BY <2>1 DEF Busy
  <2>3. /\ \A x \in gone : InQueue(x)
        /\ \A x \in Pkt : InQueue(x)' => InQueue(x)
        /\ \A x \in Pkt : InQueue(x) /\ ~InQueue(x)' => x \in gone
    BY <2>1, SweptPkts DEF InQueue
  <2> HIDE DEF gone
  <2>4. QED
    BY <2>1, <2>2, <2>3, ReleaseStep
<1>9. ASSUME UNCHANGED <<fate, queue>>,
             \A h \in Handler, x \in Pkt : InRoute(h, x)' <=> InRoute(h, x),
             \A f \in Flusher : flush'[f].pending = flush[f].pending
      PROVE  UNCHANGED placeOf
  <2>1. \A x \in Pkt : Busy(x)' <=> Busy(x)
    BY <1>9 DEF Busy
  <2>2. QED
    BY <1>9, <2>1, PlaceStays
<1>10. ASSUME NEW h \in Handler, RouteLocal(h) \/ RouteLookup(h) PROVE UNCHANGED placeOf
  BY <1>9, <1>10 DEF RouteLocal, RouteLookup, RouteGo, TypeOK, RouteAt
<1>11. ASSUME NEW f \in Flusher, FlushLocal(f) \/ FlushLookup(f) PROVE UNCHANGED placeOf
  BY <1>9, <1>11 DEF FlushLocal, FlushLookup, FlushGo, TypeOK, FlushAt
<1>12. ASSUME NEW a \in App,
              \/ \E c \in Conn : AppConnected(c, a)
              \/ \E via \in Node, ttl \in AnnouncedTTL : PresenceOnline(a, via, ttl)
       PROVE  UNCHANGED placeOf
  <2>1. \A f \in Flusher : flush'[f].pending = flush[f].pending
    <3>1. PICK c \in Flusher :
            /\ flush[c] = Resting
            /\ flush' = [flush EXCEPT ![c] = [pc |-> "take", app |-> a, pending |-> {}]]
      BY <1>12 DEF AppConnected, PresenceOnline, Flusher
    <3>2. flush \in [Flusher -> FlushAt]
      BY DEF TypeOK
    <3>3. flush[c].pending = {} /\ flush'[c].pending = {}
      BY <3>1, <3>2 DEF Resting
    <3>4. QED
      BY <3>1, <3>2, <3>3
  <2>2. UNCHANGED <<fate, queue, route>>
    BY <1>12 DEF AppConnected, PresenceOnline
  <2>3. QED
    BY <1>9, <2>1, <2>2
<1>13. ASSUME \/ Tick \/ Prune \/ Evict \/ UNCHANGED vars
              \/ \E a \in App : AppDisconnected(a) \/ PresenceTombstone(a)
       PROVE  UNCHANGED placeOf
  <2>1. UNCHANGED <<fate, queue, route, flush>>
    BY <1>13 DEF Tick, Prune, Evict, vars, AppDisconnected, PresenceTombstone
  <2>2. QED
    BY <1>9, <2>1
<1>14. QED
  BY <1>1, <1>2, <1>3, <1>5, <1>6, <1>7, <1>8, <1>10, <1>11, <1>12, <1>13
     DEF Next, handleSend, handleStream, RouteNext, FlushNext

\* The relay implements PacketService: every step of Route, FlushQueued and the
\* tickers moves packets as one step of the service, or none at all.
THEOREM NodeImplementsService == Spec => ImplementsService
<1>1. Init => Service!ServiceInit
  BY DEF Init, Service!ServiceInit, placeOf
<1>2. QED
  BY <1>1, TypeInit, TypeStep, HeldInit, HeldStep, ServiceStep, PTL
     DEF Spec, ImplementsService, Service!Service
=============================================================================
