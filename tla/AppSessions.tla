----------------------------- MODULE AppSessions ----------------------------
(***************************************************************************)
(* WebSocket sessions of apps on one node: handleWS of internal/api, the    *)
(* client set of api.Server, and AppConnected, AppDisconnected and          *)
(* refreshLoop of relay.Manager.                                           *)
(*                                                                         *)
(* Each session runs in the goroutine of its HTTP handler.  Server.mu and   *)
(* Manager.mu are different locks, taken one after the other, so sessions   *)
(* of the same app (linked devices, or a reconnect that overtakes the close *)
(* of the old socket) interleave between them.  What FlushQueued does in    *)
(* AppConnected is in RelayNode, the sockets' send buffers are in WsClient. *)
(*                                                                         *)
(* Conn is a set of session slots, each used for one app at a time over and *)
(* over; Ctx is a pool of contexts, one for each refreshLoop.  raced is a    *)
(* history variable.                                                       *)
(***************************************************************************)
EXTENDS Naturals, FiniteSets, Peers

CONSTANTS
  Conn, appOf,         \* sessions and the peer_id each one passes
  Ctx,                 \* contexts made by AppConnected
  None,
  MaxAppConnections    \* 0 is no limit

ASSUME SessionAssumption ==
  /\ appOf \in [Conn -> App]
  /\ None \notin App \cup Ctx
  /\ MaxAppConnections \in Nat

VARIABLES
  clients,     \* Server.clients
  appPeer,     \* Server.appPeer, or None
  localApps,   \* Manager.localApps
  refreshers,  \* Manager.refreshers: the context that the cancel function ends
  ctx,         \* [Ctx -> "free", "live" or "cancelled"]
  loop,        \* [Ctx -> state of the refreshLoop that has the context]
  loopApp,     \* [Ctx -> the app the context was made for]
  sess,        \* [Conn -> program counter of handleWS]
  rctx,        \* [Conn -> the context its AppConnected call made]
  topic,       \* [App -> the last presence message published about the app]
  raced,       \* sessions another of which added its client during their upgrade
  node         \* "up", "stopping" after a signal ended Manager.ctx, "down" after Shutdown

vars == <<clients, appPeer, localApps, refreshers, ctx, loop, loopApp, sess,
          rctx, topic, raced, node>>

TypeOK ==
  /\ clients \subseteq Conn
  /\ appPeer \in App \cup {None}
  /\ localApps \subseteq App
  /\ refreshers \in [App -> Ctx \cup {None}]
  /\ ctx \in [Ctx -> {"free", "live", "cancelled"}]
  /\ loop \in [Ctx -> {"none", "waiting", "firing"}]
  /\ loopApp \in [Ctx -> App \cup {None}]
  /\ sess \in [Conn -> {"idle", "upgrading", "added", "announce", "starting",
                        "reading", "removing", "checking", "leaving", "tombstone"}]
  /\ rctx \in [Conn -> Ctx \cup {None}]
  /\ topic \in [App -> {"none", "online", "tombstone"}]
  /\ raced \subseteq Conn
  /\ node \in {"up", "stopping", "down"}
  /\ \A c \in Conn : sess[c] = "starting" => rctx[c] \in Ctx
  /\ \A x \in Ctx : loop[x] # "none" => ctx[x] # "free" /\ loopApp[x] \in App

Init ==
  /\ clients = {}
  /\ appPeer = None
  /\ localApps = {}
  /\ refreshers = [a \in App |-> None]
  /\ ctx = [x \in Ctx |-> "free"]
  /\ loop = [x \in Ctx |-> "none"]
  /\ loopApp = [x \in Ctx |-> None]
  /\ sess = [c \in Conn |-> "idle"]
  /\ rctx = [c \in Conn |-> None]
  /\ topic = [a \in App |-> "none"]
  /\ raced = {}
  /\ node = "up"

manager == <<localApps, refreshers, ctx, loopApp>>

server == <<clients, appPeer, raced>>

\* A context derived from Manager.ctx, which is done once the node is stopping.
Fresh == IF node = "up" THEN "live" ELSE "cancelled"

\* The contexts after the cancel function that refreshers has for a, if any.
Cancelled(a) ==
  [y \in Ctx |-> IF y = refreshers[a] /\ ctx[y] = "live" THEN "cancelled" ELSE ctx[y]]

\* A presence message about a is published.  Manager.ctx is the context of the
\* publication too: once it is done, the message may or may not go out.
publish(a, msg) ==
  \/ topic' = [topic EXCEPT ![a] = msg]
  \/ node # "up" /\ UNCHANGED topic

-----------------------------------------------------------------------------
\* handleWS up to the read loop.

\* Mutated form of AtCapacity: one client more is let in.
AtCapacityLate == MaxAppConnections > 0 /\ Cardinality(clients) > MaxAppConnections

AtCapacity == MaxAppConnections > 0 /\ Cardinality(clients) >= MaxAppConnections

\* The capacity check, which releases Server.mu before the upgrade.
Accept(c) ==
  /\ sess[c] = "idle"
  /\ ~AtCapacity
  /\ sess' = [sess EXCEPT ![c] = "upgrading"]
  /\ UNCHANGED <<server, manager, loop, rctx, topic, node>>

UpgradeFails(c) ==
  /\ sess[c] = "upgrading"
  /\ sess' = [sess EXCEPT ![c] = "idle"]
  /\ raced' = raced \ {c}
  /\ UNCHANGED <<clients, appPeer, manager, loop, rctx, topic, node>>

AddClient(c) ==
  /\ sess[c] = "upgrading"
  /\ clients' = clients \cup {c}
  /\ appPeer' = appOf[c]
  /\ sess' = [sess EXCEPT ![c] = "added"]
  /\ raced' = raced \cup {o \in Conn \ {c} : sess[o] = "upgrading"}
  /\ UNCHANGED <<manager, loop, rctx, topic, node>>

\* Mutated form of AppConnected: the context of the earlier call is not cancelled.
AppConnectedKeepsOld(c, x) ==
  LET a == appOf[c]
  IN /\ sess[c] = "added"
     /\ ctx[x] = "free"
     /\ ctx' = [ctx EXCEPT ![x] = Fresh]
     /\ loopApp' = [loopApp EXCEPT ![x] = a]
     /\ localApps' = localApps \cup {a}
     /\ refreshers' = [refreshers EXCEPT ![a] = x]
     /\ rctx' = [rctx EXCEPT ![c] = x]
     /\ sess' = [sess EXCEPT ![c] = "announce"]
     /\ UNCHANGED <<server, loop, topic, node>>

\* AppConnected, under Manager.mu: any earlier refresher of the app is cancelled.
AppConnected(c, x) ==
  LET a == appOf[c]
  IN /\ sess[c] = "added"
     /\ ctx[x] = "free"
     /\ ctx' = [Cancelled(a) EXCEPT ![x] = Fresh]
     /\ loopApp' = [loopApp EXCEPT ![x] = a]
     /\ localApps' = localApps \cup {a}
     /\ refreshers' = [refreshers EXCEPT ![a] = x]
     /\ rctx' = [rctx EXCEPT ![c] = x]
     /\ sess' = [sess EXCEPT ![c] = "announce"]
     /\ UNCHANGED <<server, loop, topic, node>>

\* presence.Announce
Announce(c) ==
  /\ sess[c] = "announce"
  /\ publish(appOf[c], "online")
  /\ sess' = [sess EXCEPT ![c] = "starting"]
  /\ UNCHANGED <<server, manager, loop, rctx, node>>

\* Mutated form of StartRefresh: no refreshLoop is started.
StartRefreshForgotten(c) ==
  /\ sess[c] = "starting"
  /\ sess' = [sess EXCEPT ![c] = "reading"]
  /\ rctx' = [rctx EXCEPT ![c] = None]
  /\ UNCHANGED <<server, manager, loop, topic, node>>

\* go m.refreshLoop(rctx, appPeer), then readPump
StartRefresh(c) ==
  /\ sess[c] = "starting"
  /\ loop' = [loop EXCEPT ![rctx[c]] = "waiting"]
  /\ sess' = [sess EXCEPT ![c] = "reading"]
  /\ rctx' = [rctx EXCEPT ![c] = None]
  /\ UNCHANGED <<server, manager, topic, node>>

-----------------------------------------------------------------------------
\* The end of a session: readPump returns and runs onClose.

\* ReadMessage failed: the app closed the socket, or its pongs stopped.
SocketCloses(c) ==
  /\ sess[c] = "reading"
  /\ sess' = [sess EXCEPT ![c] = "removing"]
  /\ UNCHANGED <<server, manager, loop, rctx, topic, node>>

\* Mutated form of RemoveClient: appPeer is left as it is.
RemoveClientKeepsPeer(c) ==
  /\ sess[c] = "removing"
  /\ clients' = clients \ {c}
  /\ sess' = [sess EXCEPT ![c] = "checking"]
  /\ raced' = raced \ {c}
  /\ UNCHANGED <<appPeer, manager, loop, rctx, topic, node>>

\* Mutated form of RemoveClient: the client stays in the set.
RemoveClientLeaks(c) ==
  /\ sess[c] = "removing"
  /\ sess' = [sess EXCEPT ![c] = "checking"]
  /\ UNCHANGED <<server, manager, loop, rctx, topic, node>>

\* removeClient and client.close
RemoveClient(c) ==
  /\ sess[c] = "removing"
  /\ clients' = clients \ {c}
  /\ appPeer' = IF appPeer = appOf[c] /\ \A o \in clients \ {c} : appOf[o] # appOf[c]
                THEN None ELSE appPeer
  /\ sess' = [sess EXCEPT ![c] = "checking"]
  /\ raced' = raced \ {c}
  /\ UNCHANGED <<manager, loop, rctx, topic, node>>

hasClientFor(a) == \E c \in clients : appOf[c] = a

\* Mutated form of CheckSiblings: a socket that is still in its handshake counts.
CheckAnySession(c) ==
  /\ sess[c] = "checking"
  /\ sess' = [sess EXCEPT ![c] =
       IF \E o \in Conn \ {c} : appOf[o] = appOf[c] /\ sess[o] # "idle"
       THEN "idle" ELSE "leaving"]
  /\ UNCHANGED <<server, manager, loop, rctx, topic, node>>

\* if !s.hasClientFor(appPeer)
CheckSiblings(c) ==
  /\ sess[c] = "checking"
  /\ sess' = [sess EXCEPT ![c] = IF hasClientFor(appOf[c]) THEN "idle" ELSE "leaving"]
  /\ UNCHANGED <<server, manager, loop, rctx, topic, node>>

\* AppDisconnected, under Manager.mu
AppDisconnected(c) ==
  LET a == appOf[c]
  IN /\ sess[c] = "leaving"
     /\ localApps' = localApps \ {a}
     /\ ctx' = Cancelled(a)
     /\ refreshers' = [refreshers EXCEPT ![a] = None]
     /\ sess' = [sess EXCEPT ![c] = "tombstone"]
     /\ UNCHANGED <<server, loop, loopApp, rctx, topic, node>>

\* presence.Tombstone
Tombstone(c) ==
  /\ sess[c] = "tombstone"
  /\ publish(appOf[c], "tombstone")
  /\ sess' = [sess EXCEPT ![c] = "idle"]
  /\ UNCHANGED <<server, manager, loop, rctx, node>>

-----------------------------------------------------------------------------
\* refreshLoop.  A select with both channels ready takes either one, so a
\* cancelled loop may still announce.

RefreshTick(x) ==
  /\ loop[x] = "waiting"
  /\ loop' = [loop EXCEPT ![x] = "firing"]
  /\ UNCHANGED <<server, manager, sess, rctx, topic, node>>

RefreshAnnounce(x) ==
  /\ loop[x] = "firing"
  /\ publish(loopApp[x], "online")
  /\ loop' = [loop EXCEPT ![x] = "waiting"]
  /\ UNCHANGED <<server, manager, sess, rctx, node>>

\* case <-ctx.Done()
RefreshDone(x) ==
  /\ loop[x] = "waiting"
  /\ ctx[x] = "cancelled"
  /\ loop' = [loop EXCEPT ![x] = "none"]
  /\ ctx' = [ctx EXCEPT ![x] = "free"]
  /\ loopApp' = [loopApp EXCEPT ![x] = None]
  /\ UNCHANGED <<server, localApps, refreshers, sess, rctx, topic, node>>

\* SIGTERM: run's context ends, and every context derived from it.
Signal ==
  /\ node = "up"
  /\ node' = "stopping"
  /\ ctx' = [x \in Ctx |-> IF ctx[x] = "live" THEN "cancelled" ELSE ctx[x]]
  /\ UNCHANGED <<server, localApps, refreshers, loop, loopApp, sess, rctx, topic>>

\* Server.Shutdown: the sockets are closed and forgotten; sessions then end as
\* after any other close.
Shutdown ==
  /\ node = "stopping"
  /\ node' = "down"
  /\ clients' = {}
  /\ UNCHANGED <<appPeer, raced, manager, loop, sess, rctx, topic>>

-----------------------------------------------------------------------------
\* The steps of a session that wait for nothing but a lock.
SessionStep(c) ==
  \/ \E x \in Ctx : AppConnected(c, x)
  \/ Announce(c)
  \/ StartRefresh(c)
  \/ RemoveClient(c)
  \/ CheckSiblings(c)
  \/ AppDisconnected(c)
  \/ Tombstone(c)

Next ==
  \/ \E c \in Conn : \/ Accept(c) \/ UpgradeFails(c) \/ AddClient(c)
                     \/ SocketCloses(c) \/ SessionStep(c)
  \/ \E x \in Ctx : RefreshTick(x) \/ RefreshAnnounce(x) \/ RefreshDone(x)
  \/ Signal \/ Shutdown

Spec == Init /\ [][Next]_vars

\* The handler goroutine runs on once it has a client, and tickers tick; whether
\* sockets open or close is up to the apps.  RefreshDone is strongly fair because
\* select chooses at random among the channels that are ready.
FairSpec ==
  /\ Spec
  /\ \A c \in Conn : WF_vars(SessionStep(c))
  /\ \A x \in Ctx : /\ WF_vars(RefreshTick(x))
                    /\ WF_vars(RefreshAnnounce(x))
                    /\ SF_vars(RefreshDone(x))

-----------------------------------------------------------------------------
\* Properties.

\* The sessions of a that have added their client and not yet decided whether
\* the app is gone.
Present(a) ==
  {c \in Conn : /\ appOf[c] = a
                /\ sess[c] \in {"added", "announce", "starting", "reading",
                                "removing", "checking", "leaving"}}

\* An app stays registered with the relay only while some session of it is under
\* way: whichever sockets of the app open and close together, the last one to
\* leave deregisters it.
NoGhostRegistration == \A a \in localApps : Present(a) # {}

\* A context that is not cancelled is the one that the app registered with: no
\* refreshLoop announces an app for longer than it is registered, and an app
\* registered by several sockets in turn has one refreshLoop.
LiveRefresher ==
  \A x \in Ctx : ctx[x] = "live" => /\ loopApp[x] \in localApps
                                    /\ refreshers[loopApp[x]] = x

\* Until shutdown, the app that /send takes as the sender when the request names
\* none has a connected client.
AppPeerIsLive == node # "down" /\ appPeer # None => hasClientFor(appPeer)

\* max_app_connections is exceeded only by sessions that were overtaken between the
\* capacity check and addClient: the clients of the others are within the limit.
OnlyRacesExceed ==
  MaxAppConnections > 0 => Cardinality(clients \ raced) <= MaxAppConnections

\* While the node is up, an app all of whose sockets have closed is deregistered
\* or opens another one.
GoneAppLeaves ==
  \A a \in App :
    (\A c \in Conn : appOf[c] = a => sess[c] \in {"idle", "removing", "checking",
                                                  "leaving", "tombstone"})
      ~> \/ a \notin localApps
         \/ \E c \in Conn : appOf[c] = a /\ sess[c] = "added"
         \/ node # "up"

\* While the node is up and an app registered, its announcement is the last word on
\* the topic again and again: a tombstone that is published late is followed by a
\* refresh.
AnnounceHeals ==
  \A a \in App :
    a \in localApps ~> (topic[a] = "online" \/ a \notin localApps \/ node # "up")

\* handlers.go:209 "all of them must receive. This also survives the registering
\* socket closing while siblings remain": an app with an open socket that has
\* finished its handshake is registered with the relay.
RegisteredWhileConnected ==
  \A c \in clients : sess[c] = "reading" => appOf[c] \in localApps
=============================================================================
