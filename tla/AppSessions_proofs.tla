-------------------------- MODULE AppSessions_proofs ------------------------
(***************************************************************************)
(* Theorems about AppSessions, for any number of apps, sessions and         *)
(* contexts and any connection limit.                                      *)
(***************************************************************************)
EXTENDS AppSessions, FiniteSetTheorems, TLAPS

\* A context that AppConnected has made and not yet given to a refreshLoop is
\* held by that one session, and no loop has it.
RctxInv ==
  /\ \A c \in Conn : sess[c] \in {"announce", "starting"} =>
       /\ rctx[c] \in Ctx
       /\ ctx[rctx[c]] # "free"
       /\ loop[rctx[c]] = "none"
       /\ loopApp[rctx[c]] \in App
  /\ \A c, d \in Conn :
       (/\ sess[c] \in {"announce", "starting"}
        /\ sess[d] \in {"announce", "starting"}
        /\ rctx[c] = rctx[d]) => c = d

TypeInv == TypeOK /\ RctxInv

LEMMA TypeInit == Init => TypeInv
<1>1. Init => TypeOK
  <2> SUFFICES ASSUME Init PROVE TypeOK
    OBVIOUS
  <2>1. node \in {"up", "stopping", "down"}
    BY DEF Init
  <2>2. /\ refreshers \in [App -> Ctx \cup {None}]
        /\ ctx \in [Ctx -> {"free", "live", "cancelled"}]
        /\ loop \in [Ctx -> {"none", "waiting", "firing"}]
        /\ loopApp \in [Ctx -> App \cup {None}]
        /\ rctx \in [Conn -> Ctx \cup {None}]
        /\ topic \in [App -> {"none", "online", "tombstone"}]
    BY DEF Init
  <2>3. sess \in [Conn -> {"idle"}]
    BY DEF Init
  <2>4. QED
    BY <2>1, <2>2, <2>3 DEF Init, TypeOK
<1>2. Init => RctxInv
  BY DEF Init, RctxInv
<1>3. QED
  BY <1>1, <1>2 DEF TypeInv

LEMMA TypeStep == TypeInv /\ [Next]_vars => TypeInv'
<1> SUFFICES ASSUME TypeInv, [Next]_vars PROVE TypeInv'
  OBVIOUS
<1> USE SessionAssumption DEF TypeInv, TypeOK, RctxInv
<1>1. ASSUME NEW c \in Conn, Accept(c) PROVE TypeInv'
  BY <1>1 DEF Accept, manager, server
<1>2. ASSUME NEW c \in Conn, UpgradeFails(c) PROVE TypeInv'
  BY <1>2 DEF UpgradeFails, manager, server
<1>3. ASSUME NEW c \in Conn, AddClient(c) PROVE TypeInv'
  BY <1>3 DEF AddClient, manager, server
<1>4. ASSUME NEW c \in Conn, NEW x \in Ctx, AppConnected(c, x) PROVE TypeInv'
  BY <1>4 DEF AppConnected, Fresh, Cancelled, manager, server
<1>5. ASSUME NEW c \in Conn, Announce(c) PROVE TypeInv'
  BY <1>5 DEF Announce, publish, manager, server
<1>6. ASSUME NEW c \in Conn, StartRefresh(c) PROVE TypeInv'
  BY <1>6 DEF StartRefresh, manager, server
<1>7. ASSUME NEW c \in Conn, SocketCloses(c) PROVE TypeInv'
  BY <1>7 DEF SocketCloses, manager, server
<1>8. ASSUME NEW c \in Conn, RemoveClient(c) PROVE TypeInv'
  BY <1>8 DEF RemoveClient, manager, server
<1>9. ASSUME NEW c \in Conn, CheckSiblings(c) PROVE TypeInv'
  BY <1>9 DEF CheckSiblings, manager, server
<1>10. ASSUME NEW c \in Conn, AppDisconnected(c) PROVE TypeInv'
  BY <1>10 DEF AppDisconnected, Cancelled, manager, server
<1>11. ASSUME NEW c \in Conn, Tombstone(c) PROVE TypeInv'
  BY <1>11 DEF Tombstone, publish, manager, server
<1>12. ASSUME NEW x \in Ctx, RefreshTick(x) PROVE TypeInv'
  BY <1>12 DEF RefreshTick, manager, server
<1>13. ASSUME NEW x \in Ctx, RefreshAnnounce(x) PROVE TypeInv'
  BY <1>13 DEF RefreshAnnounce, publish, manager, server
<1>14. ASSUME NEW x \in Ctx, RefreshDone(x) PROVE TypeInv'
  BY <1>14 DEF RefreshDone, manager, server
<1>15. CASE Signal
  BY <1>15 DEF Signal, server
<1>16. CASE Shutdown
  BY <1>16 DEF Shutdown, manager, server
<1>17. CASE UNCHANGED vars
  BY <1>17 DEF vars
<1>18. QED
  BY <1>1, <1>2, <1>3, <1>4, <1>5, <1>6, <1>7, <1>8, <1>9, <1>10, <1>11, <1>12, <1>13, <1>14, <1>15, <1>16, <1>17
     DEF Next, SessionStep

\* The state of the sessions keeps its types, and a refreshLoop that is under way
\* has a context and an app.
THEOREM TypeCorrect == Spec => []TypeOK
  BY TypeInit, TypeStep, PTL DEF Spec, TypeInv

-----------------------------------------------------------------------------
\* A client is in the set only while its session has it there.
ClientInv ==
  \A c \in clients : sess[c] \in {"added", "announce", "starting", "reading", "removing"}

GhostInv == ClientInv /\ NoGhostRegistration

LEMMA GhostInit == Init => GhostInv
  BY DEF Init, GhostInv, ClientInv, NoGhostRegistration

LEMMA GhostStep == TypeInv /\ GhostInv /\ [Next]_vars => GhostInv'
<1> SUFFICES ASSUME TypeInv, GhostInv, [Next]_vars PROVE GhostInv'
  OBVIOUS
<1> USE SessionAssumption DEF TypeInv, TypeOK, GhostInv, ClientInv, NoGhostRegistration, Present
<1>1. ASSUME NEW c \in Conn, Accept(c) PROVE GhostInv'
  BY <1>1 DEF Accept, manager, server
<1>2. ASSUME NEW c \in Conn, UpgradeFails(c) PROVE GhostInv'
  BY <1>2 DEF UpgradeFails, manager, server
<1>3. ASSUME NEW c \in Conn, AddClient(c) PROVE GhostInv'
  BY <1>3 DEF AddClient, manager, server
<1>4. ASSUME NEW c \in Conn, NEW x \in Ctx, AppConnected(c, x) PROVE GhostInv'
  BY <1>4 DEF AppConnected, Fresh, Cancelled, manager, server
<1>5. ASSUME NEW c \in Conn, Announce(c) PROVE GhostInv'
  BY <1>5 DEF Announce, publish, manager, server
<1>6. ASSUME NEW c \in Conn, StartRefresh(c) PROVE GhostInv'
  BY <1>6 DEF StartRefresh, manager, server
<1>7. ASSUME NEW c \in Conn, SocketCloses(c) PROVE GhostInv'
  BY <1>7 DEF SocketCloses, manager, server
<1>8. ASSUME NEW c \in Conn, RemoveClient(c) PROVE GhostInv'
  BY <1>8 DEF RemoveClient, manager, server
<1>9. ASSUME NEW c \in Conn, CheckSiblings(c) PROVE GhostInv'
  BY <1>9 DEF CheckSiblings, hasClientFor, manager, server
<1>10. ASSUME NEW c \in Conn, AppDisconnected(c) PROVE GhostInv'
  BY <1>10 DEF AppDisconnected, Cancelled, manager, server
<1>11. ASSUME NEW c \in Conn, Tombstone(c) PROVE GhostInv'
  BY <1>11 DEF Tombstone, publish, manager, server
<1>12. ASSUME NEW x \in Ctx, RefreshTick(x) PROVE GhostInv'
  BY <1>12 DEF RefreshTick, manager, server
<1>13. ASSUME NEW x \in Ctx, RefreshAnnounce(x) PROVE GhostInv'
  BY <1>13 DEF RefreshAnnounce, publish, manager, server
<1>14. ASSUME NEW x \in Ctx, RefreshDone(x) PROVE GhostInv'
  BY <1>14 DEF RefreshDone, manager, server
<1>15. CASE Signal
  BY <1>15 DEF Signal, server
<1>16. CASE Shutdown
  BY <1>16 DEF Shutdown, manager, server
<1>17. CASE UNCHANGED vars
  BY <1>17 DEF vars
<1>18. QED
  BY <1>1, <1>2, <1>3, <1>4, <1>5, <1>6, <1>7, <1>8, <1>9, <1>10, <1>11, <1>12, <1>13, <1>14, <1>15, <1>16, <1>17
     DEF Next, SessionStep

\* No app stays registered with the relay after its last session, however its
\* sockets open and close together.
THEOREM NoGhosts == Spec => []NoGhostRegistration
  BY TypeInit, TypeStep, GhostInit, GhostStep, PTL DEF Spec, GhostInv

-----------------------------------------------------------------------------
\* Until the node stops, Manager.refreshers holds a live context of that very app
\* for every registered app, and nothing for the others.  Then none is live.
RefresherInv ==
  /\ LiveRefresher
  /\ node = "up" =>
       \A a \in App : IF a \in localApps
                      THEN /\ refreshers[a] \in Ctx
                           /\ ctx[refreshers[a]] = "live"
                           /\ loopApp[refreshers[a]] = a
                      ELSE refreshers[a] = None
  /\ node # "up" => \A x \in Ctx : ctx[x] # "live"

LEMMA RefresherInit == Init => RefresherInv
  BY DEF Init, RefresherInv, LiveRefresher

LEMMA RefresherStep == TypeInv /\ RefresherInv /\ [Next]_vars => RefresherInv'
<1> SUFFICES ASSUME TypeInv, RefresherInv, [Next]_vars PROVE RefresherInv'
  OBVIOUS
<1> USE SessionAssumption DEF TypeInv, TypeOK, RefresherInv, LiveRefresher
<1>1. ASSUME NEW c \in Conn, Accept(c) PROVE RefresherInv'
  BY <1>1 DEF Accept, manager, server
<1>2. ASSUME NEW c \in Conn, UpgradeFails(c) PROVE RefresherInv'
  BY <1>2 DEF UpgradeFails, manager, server
<1>3. ASSUME NEW c \in Conn, AddClient(c) PROVE RefresherInv'
  BY <1>3 DEF AddClient, manager, server
<1>4. ASSUME NEW c \in Conn, NEW x \in Ctx, AppConnected(c, x) PROVE RefresherInv'
  BY <1>4 DEF AppConnected, Fresh, Cancelled, manager, server
<1>5. ASSUME NEW c \in Conn, Announce(c) PROVE RefresherInv'
  BY <1>5 DEF Announce, publish, manager, server
<1>6. ASSUME NEW c \in Conn, StartRefresh(c) PROVE RefresherInv'
  BY <1>6 DEF StartRefresh, manager, server
<1>7. ASSUME NEW c \in Conn, SocketCloses(c) PROVE RefresherInv'
  BY <1>7 DEF SocketCloses, manager, server
<1>8. ASSUME NEW c \in Conn, RemoveClient(c) PROVE RefresherInv'
  BY <1>8 DEF RemoveClient, manager, server
<1>9. ASSUME NEW c \in Conn, CheckSiblings(c) PROVE RefresherInv'
  BY <1>9 DEF CheckSiblings, manager, server
<1>10. ASSUME NEW c \in Conn, AppDisconnected(c) PROVE RefresherInv'
  BY <1>10 DEF AppDisconnected, Cancelled, manager, server
<1>11. ASSUME NEW c \in Conn, Tombstone(c) PROVE RefresherInv'
  BY <1>11 DEF Tombstone, publish, manager, server
<1>12. ASSUME NEW x \in Ctx, RefreshTick(x) PROVE RefresherInv'
  BY <1>12 DEF RefreshTick, manager, server
<1>13. ASSUME NEW x \in Ctx, RefreshAnnounce(x) PROVE RefresherInv'
  BY <1>13 DEF RefreshAnnounce, publish, manager, server
<1>14. ASSUME NEW x \in Ctx, RefreshDone(x) PROVE RefresherInv'
  BY <1>14 DEF RefreshDone, manager, server
<1>15. CASE Signal
  BY <1>15 DEF Signal, server
<1>16. CASE Shutdown
  BY <1>16 DEF Shutdown, manager, server
<1>17. CASE UNCHANGED vars
  BY <1>17 DEF vars
<1>18. QED
  BY <1>1, <1>2, <1>3, <1>4, <1>5, <1>6, <1>7, <1>8, <1>9, <1>10, <1>11, <1>12, <1>13, <1>14, <1>15, <1>16, <1>17
     DEF Next, SessionStep

\* An app that is registered has one context that is not cancelled, and an app
\* that is not has none.
THEOREM OneRefresher == Spec => []LiveRefresher
  BY TypeInit, TypeStep, RefresherInit, RefresherStep, PTL DEF Spec, RefresherInv

-----------------------------------------------------------------------------
LEMMA AppPeerInit == Init => AppPeerIsLive
  BY DEF Init, AppPeerIsLive

LEMMA AppPeerStep == TypeInv /\ AppPeerIsLive /\ [Next]_vars => AppPeerIsLive'
<1> SUFFICES ASSUME TypeInv, AppPeerIsLive, [Next]_vars PROVE AppPeerIsLive'
  OBVIOUS
<1> USE SessionAssumption DEF TypeInv, TypeOK, AppPeerIsLive, hasClientFor
<1>1. ASSUME NEW c \in Conn, Accept(c) PROVE AppPeerIsLive'
  BY <1>1 DEF Accept, manager, server
<1>2. ASSUME NEW c \in Conn, UpgradeFails(c) PROVE AppPeerIsLive'
  BY <1>2 DEF UpgradeFails, manager, server
<1>3. ASSUME NEW c \in Conn, AddClient(c) PROVE AppPeerIsLive'
  BY <1>3 DEF AddClient, manager, server
<1>4. ASSUME NEW c \in Conn, NEW x \in Ctx, AppConnected(c, x) PROVE AppPeerIsLive'
  BY <1>4 DEF AppConnected, Fresh, Cancelled, manager, server
<1>5. ASSUME NEW c \in Conn, Announce(c) PROVE AppPeerIsLive'
  BY <1>5 DEF Announce, publish, manager, server
<1>6. ASSUME NEW c \in Conn, StartRefresh(c) PROVE AppPeerIsLive'
  BY <1>6 DEF StartRefresh, manager, server
<1>7. ASSUME NEW c \in Conn, SocketCloses(c) PROVE AppPeerIsLive'
  BY <1>7 DEF SocketCloses, manager, server
<1>8. ASSUME NEW c \in Conn, RemoveClient(c) PROVE AppPeerIsLive'
  BY <1>8 DEF RemoveClient, manager, server
<1>9. ASSUME NEW c \in Conn, CheckSiblings(c) PROVE AppPeerIsLive'
  BY <1>9 DEF CheckSiblings, manager, server
<1>10. ASSUME NEW c \in Conn, AppDisconnected(c) PROVE AppPeerIsLive'
  BY <1>10 DEF AppDisconnected, Cancelled, manager, server
<1>11. ASSUME NEW c \in Conn, Tombstone(c) PROVE AppPeerIsLive'
  BY <1>11 DEF Tombstone, publish, manager, server
<1>12. ASSUME NEW x \in Ctx, RefreshTick(x) PROVE AppPeerIsLive'
  BY <1>12 DEF RefreshTick, manager, server
<1>13. ASSUME NEW x \in Ctx, RefreshAnnounce(x) PROVE AppPeerIsLive'
  BY <1>13 DEF RefreshAnnounce, publish, manager, server
<1>14. ASSUME NEW x \in Ctx, RefreshDone(x) PROVE AppPeerIsLive'
  BY <1>14 DEF RefreshDone, manager, server
<1>15. CASE Signal
  BY <1>15 DEF Signal, server
<1>16. CASE Shutdown
  BY <1>16 DEF Shutdown, manager, server
<1>17. CASE UNCHANGED vars
  BY <1>17 DEF vars
<1>18. QED
  BY <1>1, <1>2, <1>3, <1>4, <1>5, <1>6, <1>7, <1>8, <1>9, <1>10, <1>11, <1>12, <1>13, <1>14, <1>15, <1>16, <1>17
     DEF Next, SessionStep

\* Until shutdown, the default sender of /send has a connected client.
THEOREM AppPeerConnected == Spec => []AppPeerIsLive
  BY TypeInit, TypeStep, AppPeerInit, AppPeerStep, PTL DEF Spec
-----------------------------------------------------------------------------
(***************************************************************************)
(* The limit.  A session that is upgrading and has not been overtaken finds  *)
(* the room that its check found: clients were only removed since.          *)
(***************************************************************************)

LimitInv ==
  /\ IsFiniteSet(clients)
  /\ MaxAppConnections > 0 =>
       /\ \A c \in Conn : sess[c] = "upgrading" /\ c \notin raced =>
            Cardinality(clients) < MaxAppConnections
       /\ Cardinality(clients \ raced) <= MaxAppConnections

\* A step that adds no client and starts no upgrade.
LEMMA LimitKept ==
  ASSUME LimitInv, clients' \subseteq clients, clients' \ raced' \subseteq clients \ raced,
         \A c \in Conn : sess'[c] = "upgrading" /\ c \notin raced' =>
           sess[c] = "upgrading" /\ c \notin raced
  PROVE  LimitInv'
<1>1. IsFiniteSet(clients) /\ IsFiniteSet(clients \ raced)
  BY FS_Subset DEF LimitInv
<1>2. /\ IsFiniteSet(clients')
      /\ Cardinality(clients') <= Cardinality(clients)
      /\ Cardinality(clients' \ raced') <= Cardinality(clients \ raced)
  BY <1>1, FS_Subset
<1>3. /\ Cardinality(clients) \in Nat /\ Cardinality(clients') \in Nat
      /\ Cardinality(clients \ raced) \in Nat /\ Cardinality(clients' \ raced') \in Nat
  BY <1>1, <1>2, FS_CardinalityType, FS_Subset
<1>4. QED
  BY <1>2, <1>3, SessionAssumption DEF LimitInv

LEMMA LimitAdd ==
  ASSUME TypeOK, LimitInv, NEW c \in Conn, AddClient(c)
  PROVE  LimitInv'
<1>1. /\ clients' = clients \cup {c}
      /\ raced \subseteq raced'
      /\ \A o \in Conn : sess'[o] = "upgrading" => o \in raced'
      /\ sess[c] = "upgrading"
  BY DEF AddClient, TypeOK
<1>2. IsFiniteSet(clients) /\ Cardinality(clients) \in Nat
  BY FS_CardinalityType DEF LimitInv
<1>3. /\ IsFiniteSet(clients') /\ Cardinality(clients') \in Nat
      /\ Cardinality(clients') <= Cardinality(clients) + 1
  <2>1. /\ IsFiniteSet(clients \cup {c})
        /\ Cardinality(clients \cup {c}) = IF c \in clients THEN Cardinality(clients)
                                         ELSE Cardinality(clients) + 1
    BY <1>2, FS_AddElement
  <2>2. QED
    BY <1>1, <1>2, <2>1
<1>4. ASSUME MaxAppConnections > 0
      PROVE  Cardinality(clients' \ raced') <= MaxAppConnections
  <2>1. CASE c \in raced
    <3>1. clients' \ raced' \subseteq clients \ raced
      BY <1>1, <2>1
    <3>2. IsFiniteSet(clients \ raced)
      BY <1>2, FS_Subset
    <3>3. /\ Cardinality(clients' \ raced') <= Cardinality(clients \ raced)
          /\ Cardinality(clients' \ raced') \in Nat /\ Cardinality(clients \ raced) \in Nat
      BY <3>1, <3>2, FS_Subset, FS_CardinalityType
    <3>4. QED
      BY <1>4, <3>3, SessionAssumption DEF LimitInv
  <2>2. CASE c \notin raced
    <3>1. Cardinality(clients) < MaxAppConnections
      BY <1>1, <1>4, <2>2 DEF LimitInv
    <3>2. /\ Cardinality(clients' \ raced') <= Cardinality(clients')
          /\ Cardinality(clients' \ raced') \in Nat
      BY <1>3, FS_Subset, FS_CardinalityType
    <3>3. QED
      BY <1>2, <1>3, <3>1, <3>2, SessionAssumption
  <2>3. QED
    BY <2>1, <2>2
<1>5. QED
  BY <1>1, <1>3, <1>4 DEF LimitInv

LEMMA LimitStep == TypeInv /\ ClientInv /\ LimitInv /\ [Next]_vars => LimitInv'
<1> SUFFICES ASSUME TypeInv, ClientInv, LimitInv, [Next]_vars PROVE LimitInv'
  OBVIOUS
<1> USE SessionAssumption DEF TypeInv, TypeOK
<1>1. ASSUME NEW c \in Conn, Accept(c) PROVE LimitInv'
  <2>1. Cardinality(clients) \in Nat
    BY FS_CardinalityType DEF LimitInv
  <2>2. QED
    BY <1>1, <2>1 DEF Accept, AtCapacity, server, LimitInv
<1>2. ASSUME NEW c \in Conn, UpgradeFails(c) PROVE LimitInv'
  <2>1. c \notin clients
    BY <1>2 DEF UpgradeFails, ClientInv
  <2>2. QED
    BY <1>2, <2>1, LimitKept DEF UpgradeFails
<1>3. ASSUME NEW c \in Conn, AddClient(c) PROVE LimitInv'
  BY <1>3, LimitAdd
<1>4. ASSUME NEW c \in Conn, NEW x \in Ctx, AppConnected(c, x) PROVE LimitInv'
  BY <1>4, LimitKept DEF AppConnected, server
<1>5. ASSUME NEW c \in Conn, Announce(c) PROVE LimitInv'
  BY <1>5, LimitKept DEF Announce, server
<1>6. ASSUME NEW c \in Conn, StartRefresh(c) PROVE LimitInv'
  BY <1>6, LimitKept DEF StartRefresh, server
<1>7. ASSUME NEW c \in Conn, SocketCloses(c) PROVE LimitInv'
  BY <1>7, LimitKept DEF SocketCloses, server
<1>8. ASSUME NEW c \in Conn, RemoveClient(c) PROVE LimitInv'
  BY <1>8, LimitKept DEF RemoveClient, server
<1>9. ASSUME NEW c \in Conn, CheckSiblings(c) PROVE LimitInv'
  BY <1>9, LimitKept DEF CheckSiblings, server
<1>10. ASSUME NEW c \in Conn, AppDisconnected(c) PROVE LimitInv'
  BY <1>10, LimitKept DEF AppDisconnected, server
<1>11. ASSUME NEW c \in Conn, Tombstone(c) PROVE LimitInv'
  BY <1>11, LimitKept DEF Tombstone, server
<1>12. ASSUME UNCHANGED <<server, sess>> PROVE LimitInv'
  BY <1>12, LimitKept DEF server
<1>13. CASE Shutdown
  BY <1>13, LimitKept DEF Shutdown
<1>14. QED
  BY <1>1, <1>2, <1>3, <1>4, <1>5, <1>6, <1>7, <1>8, <1>9, <1>10, <1>11, <1>12, <1>13
     DEF Next, SessionStep, RefreshTick, RefreshAnnounce, RefreshDone, Signal, vars, server

\* For any limit and any handshakes, only sessions that were overtaken between the
\* capacity check and addClient take the clients beyond max_app_connections.
THEOREM RacesAloneExceed == Spec => []OnlyRacesExceed
<1>1. Init => LimitInv
  BY FS_EmptySet, SessionAssumption DEF Init, LimitInv
<1>2. LimitInv => OnlyRacesExceed
  BY DEF LimitInv, OnlyRacesExceed
<1>3. QED
  BY <1>1, <1>2, TypeInit, TypeStep, GhostInit, GhostStep, LimitStep, PTL DEF Spec, GhostInv
=============================================================================
