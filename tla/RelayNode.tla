------------------------------ MODULE RelayNode -----------------------------
(***************************************************************************)
(* internal/relay/manager.go: the relay.Manager of one node, with its       *)
(* queue, routing table and duplicate cache, and the goroutines that share  *)
(* them.  A step is what a goroutine does between two lock acquisitions:    *)
(* Manager.mu, Queue.mu, Router.mu and DedupCache.mu are different locks    *)
(* and Route and FlushQueued take them one after the other.                *)
(*                                                                         *)
(*   Handler  goroutines running Route: one per POST /send or relay stream  *)
(*   Conn     goroutines running AppConnected: one per WebSocket handshake  *)
(*   ReadLoop the goroutine that reads the presence topic and flushes       *)
(*                                                                         *)
(* fate and acceptedAt are history variables.                              *)
(***************************************************************************)
EXTENDS RelayQueue, RelayRouter

CONSTANTS
  PktID, idOf,      \* Packet.ID
  Handler, Conn, ReadLoop,
  Self,             \* this node
  DedupCacheTTL,    \* 10 s in the code
  PresenceTTL,      \* 60 s in the code
  AnnouncedTTL,     \* values of ttl_seconds in presence messages, 0 if absent
  None,
  MaxClock          \* bound on the clock

ASSUME NodeAssumption ==
  /\ idOf \in [Pkt -> PktID]
  /\ Self \in Node
  /\ ReadLoop \notin Conn
  /\ DedupCacheTTL \in Nat
  /\ PresenceTTL \in Nat
  /\ AnnouncedTTL \subseteq Nat
  /\ None \notin Nat \cup Pkt \cup App
  /\ MaxClock \in Nat

Flusher == Conn \cup {ReadLoop}

VARIABLES
  clock,
  dedup,       \* DedupCache.m: time of first sight, or None
  table,       \* Router.table
  queue,       \* Queue.items
  localApps,   \* Manager.localApps
  route,       \* [Handler -> program counter and packet of Route]
  flush,       \* [Flusher -> program counter, recipient and pending of FlushQueued]
  fate,        \* what became of each packet
  acceptedAt   \* when SeenOrAdd let the packet through

vars == <<clock, dedup, table, queue, localApps, route, flush,
          fate, acceptedAt>>

Ended == {"delivered", "forwarded", "duplicate", "invalid",
          "superseded", "refused", "expired"}

RouteAt == [pc : {"idle", "local", "deliver", "lookup", "forward", "put"},
            pkt : Pkt \cup {None}]

FlushAt == [pc : {"idle", "take", "local", "deliver", "lookup", "forward", "put"},
            app : App \cup {None}, pending : SUBSET Pkt]

Idle == [pc |-> "idle", pkt |-> None]

Resting == [pc |-> "idle", app |-> None, pending |-> {}]

\* Types, and that the loops of FlushQueued run over a non-empty list.
TypeOK ==
  /\ clock \in 0..MaxClock
  /\ dedup \in [PktID -> Nat \cup {None}]
  /\ table \in Table
  /\ queue \subseteq queuedPacket
  /\ localApps \subseteq App
  /\ route \in [Handler -> RouteAt]
  /\ flush \in [Flusher -> FlushAt]
  /\ fate \in [Pkt -> {"new", "live"} \cup Ended]
  /\ acceptedAt \in [Pkt -> Nat \cup {None}]
  /\ \A h \in Handler :
       (route[h].pc # "idle") => /\ route[h].pkt \in Pkt
                                 /\ recipientOf[route[h].pkt] \in App
  /\ \A f \in Flusher :
       /\ flush[f].pc # "idle" => flush[f].app \in App
       /\ flush[f].pc \in {"idle", "take"} <=> flush[f].pending = {}

Init ==
  /\ clock = 0
  /\ dedup = [i \in PktID |-> None]
  /\ table = EmptyTable
  /\ queue = {}
  /\ localApps = {}
  /\ route = [h \in Handler |-> Idle]
  /\ flush = [f \in Flusher |-> Resting]
  /\ fate = [p \in Pkt |-> "new"]
  /\ acceptedAt = [p \in Pkt |-> None]

Tick ==
  /\ clock < MaxClock
  /\ clock' = clock + 1
  /\ UNCHANGED <<dedup, table, queue, localApps, route, flush, fate,
                 acceptedAt>>

-----------------------------------------------------------------------------
\* The queue operations, with what they mean for the packets involved.

\* queue.Put(recipient, p) by a goroutine that holds p
PutHeld(p) ==
  /\ queue' = Put(queue, p, clock)
  /\ fate' = IF Refused(queue, p)
             THEN [fate EXCEPT ![p] = "refused"]
             ELSE [x \in Pkt |-> IF x \in PktsOf(Slot(queue, p)) THEN "superseded"
                                 ELSE fate[x]]

\* The packets of the entries gone are past their TTL.
ExpireAll(gone) ==
  fate' = [x \in Pkt |-> IF x \in gone THEN "expired" ELSE fate[x]]

-----------------------------------------------------------------------------
\* Route and forwardOrDeliver.

\* What SeenOrAdd returns for the ID of p
Seen(p) == dedup[idOf[p]] # None

\* SeenOrAdd, then the parse of the recipient ID, which touches no shared state.
Route(h, p) ==
  /\ route[h] = Idle
  /\ fate[p] = "new"
  /\ IF Seen(p)
     THEN /\ fate' = [fate EXCEPT ![p] = "duplicate"]
          /\ UNCHANGED <<dedup, acceptedAt, route>>
     ELSE /\ dedup' = [dedup EXCEPT ![idOf[p]] = clock]
          /\ acceptedAt' = [acceptedAt EXCEPT ![p] = clock]
          /\ IF recipientOf[p] = NoPeer
             THEN /\ fate' = [fate EXCEPT ![p] = "invalid"]
                  /\ UNCHANGED route
             ELSE /\ fate' = [fate EXCEPT ![p] = "live"]
                  /\ route' = [route EXCEPT ![h] = [pc |-> "local", pkt |-> p]]
  /\ UNCHANGED <<clock, table, queue, localApps, flush>>

\* POST /send, which has checked the recipient ID and answers "queued" whatever
\* Route does
handleSend(h, p) == recipientOf[p] # NoPeer /\ Route(h, p)

\* A packet read from a relay stream of another node
handleStream(h, p) == Route(h, p)

RouteGo(h, l) == route' = [route EXCEPT ![h] = [pc |-> l, pkt |-> route[h].pkt]]

\* deliver, isLocal := m.localApps[recipient]
RouteLocal(h) ==
  /\ route[h].pc = "local"
  /\ RouteGo(h, IF recipientOf[route[h].pkt] \in localApps THEN "deliver" ELSE "lookup")
  /\ UNCHANGED <<clock, dedup, table, queue, localApps, flush, fate,
                 acceptedAt>>

\* deliver(p), with Manager.mu released
RouteDeliver(h) ==
  /\ route[h].pc = "deliver"
  /\ fate' = [fate EXCEPT ![route[h].pkt] = "delivered"]
  /\ route' = [route EXCEPT ![h] = Idle]
  /\ UNCHANGED <<clock, dedup, table, queue, localApps, flush, acceptedAt>>

\* via, ok := m.router.Lookup(recipient); !ok || via == m.self
NoWay(a) == Lookup(table, a, clock) \in {NoRoute, Self}

RouteLookup(h) ==
  /\ route[h].pc = "lookup"
  /\ RouteGo(h, IF NoWay(recipientOf[route[h].pkt]) THEN "put" ELSE "forward")
  /\ UNCHANGED <<clock, dedup, table, queue, localApps, flush, fate,
                 acceptedAt>>

\* forwardTo returned nil: the packet was written to a stream to via.
RouteForward(h) ==
  /\ route[h].pc = "forward"
  /\ fate' = [fate EXCEPT ![route[h].pkt] = "forwarded"]
  /\ route' = [route EXCEPT ![h] = Idle]
  /\ UNCHANGED <<clock, dedup, table, queue, localApps, flush, acceptedAt>>

\* Put, for want of a route or after forwardTo failed.
RoutePut(h) ==
  /\ route[h].pc \in {"forward", "put"}
  /\ PutHeld(route[h].pkt)
  /\ route' = [route EXCEPT ![h] = Idle]
  /\ UNCHANGED <<clock, dedup, table, localApps, flush, acceptedAt>>

-----------------------------------------------------------------------------
\* Apps and presence messages.

\* AppConnected registers the app and goes on to FlushQueued.  The announcement
\* between them is a message to other nodes: readLoop skips this node's own.
AppConnected(c, a) ==
  /\ flush[c] = Resting
  /\ localApps' = localApps \cup {a}
  /\ flush' = [flush EXCEPT ![c] = [pc |-> "take", app |-> a, pending |-> {}]]
  /\ UNCHANGED <<clock, dedup, table, queue, route, fate, acceptedAt>>

AppDisconnected(a) ==
  /\ localApps' = localApps \ {a}
  /\ UNCHANGED <<clock, dedup, table, queue, route, flush, fate, acceptedAt>>

\* readLoop, an announcement: the route is stored, then fire calls FlushQueued.
PresenceOnline(a, via, ttl) ==
  /\ flush[ReadLoop] = Resting
  /\ table' = Upsert(table, a, via, clock, IF ttl = 0 THEN PresenceTTL ELSE ttl)
  /\ flush' = [flush EXCEPT ![ReadLoop] = [pc |-> "take", app |-> a, pending |-> {}]]
  /\ UNCHANGED <<clock, dedup, queue, localApps, route, fate, acceptedAt>>

\* readLoop, a tombstone
PresenceTombstone(a) ==
  /\ flush[ReadLoop] = Resting
  /\ table' = Remove(table, a)
  /\ UNCHANGED <<clock, dedup, queue, localApps, route, flush, fate, acceptedAt>>

-----------------------------------------------------------------------------
\* FlushQueued, run by f for flush[f].app.

FlushGo(f, l) ==
  flush' = [flush EXCEPT ![f] = [pc |-> l, app |-> flush[f].app,
                                 pending |-> flush[f].pending]]

\* Mutated form of FlushTake: no return when there is nothing to flush.
FlushTakeOnward(f) ==
  LET a == flush[f].app
      pending == Taken(queue, a, clock)
  IN /\ flush[f].pc = "take"
     /\ queue' = AfterTake(queue, a)
     /\ ExpireAll(PktsOf(Bucket(queue, a)) \ pending)
     /\ flush' = [flush EXCEPT ![f] = [pc |-> "local", app |-> a, pending |-> pending]]
     /\ UNCHANGED <<clock, dedup, table, localApps, route, acceptedAt>>

\* pending := m.queue.Take(recipient)
FlushTake(f) ==
  LET a == flush[f].app
      pending == Taken(queue, a, clock)
  IN /\ flush[f].pc = "take"
     /\ queue' = AfterTake(queue, a)
     /\ ExpireAll(PktsOf(Bucket(queue, a)) \ pending)
     /\ flush' = [flush EXCEPT ![f] =
                    IF pending = {} THEN Resting
                    ELSE [pc |-> "local", app |-> a, pending |-> pending]]
     /\ UNCHANGED <<clock, dedup, table, localApps, route, acceptedAt>>

\* Mutated form of FlushLocal: the routing table is tried for local apps too.
FlushLocalIgnored(f) ==
  /\ flush[f].pc = "local"
  /\ FlushGo(f, "lookup")
  /\ UNCHANGED <<clock, dedup, table, queue, localApps, route, fate,
                 acceptedAt>>

FlushLocal(f) ==
  /\ flush[f].pc = "local"
  /\ FlushGo(f, IF flush[f].app \in localApps THEN "deliver" ELSE "lookup")
  /\ UNCHANGED <<clock, dedup, table, queue, localApps, route, fate,
                 acceptedAt>>

\* The rest of the loop once p has been dealt with.
Without(f, p) ==
  IF flush[f].pending = {p} THEN Resting
  ELSE [pc |-> flush[f].pc, app |-> flush[f].app, pending |-> flush[f].pending \ {p}]

FlushDeliver(f, p) ==
  /\ flush[f].pc = "deliver"
  /\ p \in flush[f].pending
  /\ fate' = [fate EXCEPT ![p] = "delivered"]
  /\ flush' = [flush EXCEPT ![f] = Without(f, p)]
  /\ UNCHANGED <<clock, dedup, table, queue, localApps, route, acceptedAt>>

FlushLookup(f) ==
  /\ flush[f].pc = "lookup"
  /\ FlushGo(f, IF NoWay(flush[f].app) THEN "put" ELSE "forward")
  /\ UNCHANGED <<clock, dedup, table, queue, localApps, route, fate,
                 acceptedAt>>

FlushForward(f, p) ==
  /\ flush[f].pc = "forward"
  /\ p \in flush[f].pending
  /\ fate' = [fate EXCEPT ![p] = "forwarded"]
  /\ flush' = [flush EXCEPT ![f] = Without(f, p)]
  /\ UNCHANGED <<clock, dedup, table, queue, localApps, route, acceptedAt>>

\* Mutated form of FlushPut: a packet that forwardTo failed for is not put back.
FlushPutForgets(f, p) ==
  /\ flush[f].pc \in {"forward", "put"}
  /\ p \in flush[f].pending
  /\ IF flush[f].pc = "put" THEN PutHeld(p) ELSE UNCHANGED <<queue, fate>>
  /\ flush' = [flush EXCEPT ![f] = Without(f, p)]
  /\ UNCHANGED <<clock, dedup, table, localApps, route, acceptedAt>>

\* The packet is put back, for want of a route or after forwardTo failed.
FlushPut(f, p) ==
  /\ flush[f].pc \in {"forward", "put"}
  /\ p \in flush[f].pending
  /\ PutHeld(p)
  /\ flush' = [flush EXCEPT ![f] = Without(f, p)]
  /\ UNCHANGED <<clock, dedup, table, localApps, route, acceptedAt>>

-----------------------------------------------------------------------------
\* The tickers: pruneLoop, sweepLoop and evictLoop.

Prune ==
  /\ table' = Pruned(table, clock)
  /\ UNCHANGED <<clock, dedup, queue, localApps, route, flush, fate,
                 acceptedAt>>

Sweep ==
  /\ queue' = Swept(queue, clock)
  /\ ExpireAll(PktsOf(queue) \ PktsOf(Swept(queue, clock)))
  /\ UNCHANGED <<clock, dedup, table, localApps, route, flush, acceptedAt>>

\* Mutated form of Evict: entries go as soon as they reach the TTL.
EvictEarly ==
  /\ dedup' = [i \in PktID |-> IF /\ dedup[i] # None
                                  /\ clock - dedup[i] >= DedupCacheTTL
                               THEN None ELSE dedup[i]]
  /\ UNCHANGED <<clock, table, queue, localApps, route, flush, fate,
                 acceptedAt>>

Evict ==
  /\ dedup' = [i \in PktID |-> IF /\ dedup[i] # None
                                  /\ clock - dedup[i] > DedupCacheTTL
                               THEN None ELSE dedup[i]]
  /\ UNCHANGED <<clock, table, queue, localApps, route, flush, fate,
                 acceptedAt>>

-----------------------------------------------------------------------------
RouteNext(h) ==
  \/ RouteLocal(h)
  \/ RouteDeliver(h)
  \/ RouteLookup(h)
  \/ RouteForward(h)
  \/ RoutePut(h)

FlushNext(f) ==
  \/ FlushTake(f)
  \/ FlushLocal(f)
  \/ FlushLookup(f)
  \/ \E p \in Pkt : FlushDeliver(f, p) \/ FlushForward(f, p) \/ FlushPut(f, p)

Next ==
  \/ Tick
  \/ \E h \in Handler, p \in Pkt : handleSend(h, p) \/ handleStream(h, p)
  \/ \E h \in Handler : RouteNext(h)
  \/ \E c \in Conn, a \in App : AppConnected(c, a)
  \/ \E a \in App : AppDisconnected(a) \/ PresenceTombstone(a)
  \/ \E a \in App, via \in Node, ttl \in AnnouncedTTL : PresenceOnline(a, via, ttl)
  \/ \E f \in Flusher : FlushNext(f)
  \/ Prune \/ Sweep \/ Evict

Spec == Init /\ [][Next]_vars

FlushOwnSteps(f) ==
  FlushTake(f) \/ FlushLocal(f) \/ \E p \in Pkt : FlushDeliver(f, p)

\* A goroutine that waits for a lock gets it, and deliver only appends to the
\* send buffers of sockets.  Nothing is assumed of forwardTo, whose write to the
\* stream has no deadline.
FairSpec ==
  /\ Spec
  /\ \A f \in Flusher : WF_vars(FlushOwnSteps(f))

-----------------------------------------------------------------------------
\* Properties.

InRoute(h, p) == route[h].pc # "idle" /\ route[h].pkt = p

InFlush(f, p) == p \in flush[f].pending

InQueue(p) == p \in PktsOf(queue)

\* No packet is lost: one that Route accepted and that has not reached an end
\* the code decides on (delivery, forwarding, expiry, replacement, refusal) is
\* in the hands of a Route call, in the list of a FlushQueued call, or queued.
NothingLost ==
  \A p \in Pkt :
    fate[p] = "live" => \/ InQueue(p)
                        \/ \E h \in Handler : InRoute(h, p)
                        \/ \E f \in Flusher : InFlush(f, p)

\* No packet is handled twice: a packet is in one of those places only, and one
\* that has reached its end is in none, whatever flushes and Route calls overlap.
SingleHolder ==
  \A p \in Pkt :
    /\ fate[p] # "live" => /\ ~InQueue(p)
                           /\ \A h \in Handler : ~InRoute(h, p)
                           /\ \A f \in Flusher : ~InFlush(f, p)
    /\ InQueue(p) => /\ \A h \in Handler : ~InRoute(h, p)
                     /\ \A f \in Flusher : ~InFlush(f, p)
    /\ \A h \in Handler, f \in Flusher : ~(InRoute(h, p) /\ InFlush(f, p))
    /\ \A h, g \in Handler : InRoute(h, p) /\ InRoute(g, p) => h = g
    /\ \A f, g \in Flusher : InFlush(f, p) /\ InFlush(g, p) => f = g

\* Two packets with the same ID are both let through only if more than
\* DedupCacheTTL passed between them (SeenOrAdd against evict).
DedupWindow ==
  \A p, q \in Pkt :
    (/\ p # q
     /\ idOf[p] = idOf[q]
     /\ acceptedAt[p] # None
     /\ acceptedAt[q] # None)
      => \/ acceptedAt[p] + DedupCacheTTL < acceptedAt[q]
         \/ acceptedAt[q] + DedupCacheTTL < acceptedAt[p]

\* A packet is dropped for its age only when more than QueueEntryTTL has passed
\* since Route accepted it: flushes that take it and put it back lengthen its stay
\* and never shorten it.
NotExpiredEarly ==
  \A p \in Pkt :
    fate[p] = "expired" => acceptedAt[p] # None /\ acceptedAt[p] + QueueEntryTTL < clock

\* Whatever Route calls and put-backs interleave, the queue holds one packet per
\* sender and recipient and at most QueueMaxSenders per recipient.
QueueBounded == Bounded(queue)

\* What is queued for an app when it is registered and its flush begins reaches
\* the app, or another end, unless the app disconnects first; no concurrent
\* presence message, flush or Route call can strand it.
FlushDelivers ==
  \A p \in {x \in Pkt : recipientOf[x] \in App} :
    (/\ \E f \in Flusher : flush[f].pc = "take" /\ flush[f].app = recipientOf[p]
     /\ recipientOf[p] \in localApps
     /\ InQueue(p))
      ~> (fate[p] # "live" \/ recipientOf[p] \notin localApps)

\* Where each packet is, for the service that the node implements, which knows no
\* "nowhere".
placeOf ==
  [p \in Pkt |->
     IF fate[p] # "live" THEN fate[p]
     ELSE IF InQueue(p) THEN "held"
     ELSE IF (\E h \in Handler : InRoute(h, p)) \/ (\E f \in Flusher : InFlush(f, p))
          THEN "moving"
     ELSE "nowhere"]

Service == INSTANCE PacketService WITH
  Packet <- Pkt,
  slotOf <- [p \in Pkt |-> <<senderOf[p], recipientOf[p]>>],
  place <- placeOf

\* The node implements PacketService: step by step, whatever Route calls, flushes,
\* connections and presence messages interleave, packets only move as the service
\* allows, none vanishes between the queue and a goroutine, and none is refused or
\* replaced but for a packet of its own sender or a full bucket.
ImplementsService == Service!Service

\* queue.go:27 "Queue holds the NEWEST undeliverable packet per (recipient,
\* sender) pair": a Put never replaces a packet that Route accepted later than the
\* packet put.
NewestKept ==
  [][\A e \in queue : \A x \in queue' :
       (x \notin queue /\ x \in Slot(queue', e.pkt) /\ e \notin queue')
         => acceptedAt[e.pkt] <= acceptedAt[x.pkt]]_vars
=============================================================================
