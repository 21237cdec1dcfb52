----------------------------- MODULE RelayRouter ----------------------------
(***************************************************************************)
(* internal/relay/router.go: the routing table of one node, a map          *)
(* app -> (node the app is connected to, expiry).  Each operator is the     *)
(* body of one method, which runs under Router.mu.                         *)
(***************************************************************************)
EXTENDS Naturals, Peers

CONSTANT
  NoRoute    \* what the map holds for an app it has no entry for

ASSUME RouterAssumption == NoRoute \notin Node \cup [via : Node, expires : Nat]

RoutingEntry == [via : Node, expires : Nat]

Table == [App -> RoutingEntry \cup {NoRoute}]

EmptyTable == [a \in App |-> NoRoute]

Upsert(t, target, via, now, ttl) ==
  [t EXCEPT ![target] = [via |-> via, expires |-> now + ttl]]

Remove(t, target) == [t EXCEPT ![target] = NoRoute]

\* time.Now().After(e.ExpiresAt)
Expired(e, now) == now > e.expires

\* Mutated form of Known: an entry counts until it is pruned.
KnownUnpruned(t, target, now) == t[target] # NoRoute

Known(t, target, now) == t[target] # NoRoute /\ ~Expired(t[target], now)

\* The node to forward to, or NoRoute.
Lookup(t, target, now) ==
  IF Known(t, target, now) THEN t[target].via ELSE NoRoute

\* prune()
Pruned(t, now) == [a \in App |-> IF Known(t, a, now) THEN t[a] ELSE NoRoute]
=============================================================================
