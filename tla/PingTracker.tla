---------------------------- MODULE PingTracker -----------------------------
(***************************************************************************)
(* internal/ping/manager.go: what apps are told of the nodes that connect    *)
(* and disconnect.  libp2p keeps the connections (external): it adds one and *)
(* then calls ConnectedF, removes one and then, in a goroutine of its own,   *)
(* calls DisconnectedF.  measure runs in a goroutine for each connection.    *)
(*                                                                         *)
(* told and late are history variables.                                     *)
(***************************************************************************)
CONSTANTS Peer, Conn, remote    \* remote[c]: the peer of a connection

ASSUME RemoteAssumption == remote \in [Conn -> Peer]

VARIABLES
  conn,     \* [Conn -> where it is in its life; "check" to "event": DisconnectedF]
  measure,  \* [Conn -> where its measurement is]
  rtts,     \* the peers with a measured round trip
  view,     \* [Peer -> the last event broadcast about it, or "none"]
  told,     \* the peers reported gone since one of their connections was removed
  late      \* the peers reported connected when they were not

pingVars == <<conn, measure, rtts, view, told, late>>

PingInit ==
  /\ conn = [c \in Conn |-> "none"]
  /\ measure = [c \in Conn |-> "none"]
  /\ rtts = {}
  /\ view = [p \in Peer |-> "none"]
  /\ told = Peer
  /\ late = {}

\* Network.ConnsToPeer
ConnsToPeer(p) == {c \in Conn : remote[c] = p /\ conn[c] \in {"added", "open"}}

ConnGo(c, from, to) == conn[c] = from /\ conn' = [conn EXCEPT ![c] = to]

MeasureGo(c, from, to) == measure[c] = from /\ measure' = [measure EXCEPT ![c] = to]

\* libp2p adds a connection, and removes one whose ConnectedF has returned.
Add(c) ==
  /\ measure[c] \in {"none", "done"}
  /\ ConnGo(c, "none", "added")
  /\ measure' = [measure EXCEPT ![c] = "none"]
  /\ UNCHANGED <<rtts, view, told, late>>

Remove(c) ==
  /\ ConnGo(c, "open", "check")
  /\ told' = told \ {remote[c]}
  /\ UNCHANGED <<measure, rtts, view, late>>

ConnectedF(c) ==
  /\ ConnGo(c, "added", "open")
  /\ MeasureGo(c, "none", "Ping")
  /\ UNCHANGED <<rtts, view, told, late>>

\* Mutated form of DisconnectedCheck: the connection that goes counts, too.
DisconnectedCheckAll(c) ==
  /\ ConnGo(c, "check", IF ConnsToPeer(remote[c]) \cup {c} = {} THEN "delete" ELSE "none")
  /\ UNCHANGED <<measure, rtts, view, told, late>>

\* DisconnectedF returns when the peer has another connection;
DisconnectedCheck(c) ==
  /\ ConnGo(c, "check", IF ConnsToPeer(remote[c]) = {} THEN "delete" ELSE "none")
  /\ UNCHANGED <<measure, rtts, view, told, late>>

\* Mutated form of DisconnectedDelete: a peer that has no round trip was never
\* reported, and needs no report.
DisconnectedDeleteQuiet(c) ==
  /\ ConnGo(c, "delete", IF remote[c] \in rtts THEN "event" ELSE "none")
  /\ rtts' = rtts \ {remote[c]}
  /\ UNCHANGED <<measure, view, told, late>>

\* the round trip is forgotten,
DisconnectedDelete(c) ==
  /\ ConnGo(c, "delete", "event")
  /\ rtts' = rtts \ {remote[c]}
  /\ UNCHANGED <<measure, view, told, late>>

\* and the apps are told.
DisconnectedEvent(c) ==
  /\ ConnGo(c, "event", "none")
  /\ view' = [view EXCEPT ![remote[c]] = "disconnected"]
  /\ told' = told \cup {remote[c]}
  /\ UNCHANGED <<measure, rtts, late>>

\* The ping is answered, or fails or takes more than 10 s.
MeasureStore(c) ==
  /\ \/ MeasureGo(c, "Ping", "event") /\ rtts' = rtts \cup {remote[c]}
     \/ MeasureGo(c, "Ping", "done") /\ UNCHANGED rtts
  /\ UNCHANGED <<conn, view, told, late>>

MeasureEvent(c) ==
  /\ MeasureGo(c, "event", "done")
  /\ view' = [view EXCEPT ![remote[c]] = "connected"]
  /\ late' = IF ConnsToPeer(remote[c]) = {} THEN late \cup {remote[c]} ELSE late \ {remote[c]}
  /\ UNCHANGED <<conn, rtts, told>>

Disconnected(c) == DisconnectedCheck(c) \/ DisconnectedDelete(c) \/ DisconnectedEvent(c)

PingNext ==
  \E c \in Conn :
    \/ Add(c)
    \/ Remove(c)
    \/ ConnectedF(c)
    \/ Disconnected(c)
    \/ MeasureStore(c)
    \/ MeasureEvent(c)

PingSpec == PingInit /\ [][PingNext]_pingVars

\* libp2p calls DisconnectedF of every connection it removed, and it does not wait.
FairPingSpec == PingSpec /\ \A c \in Conn : WF_pingVars(Disconnected(c))

-----------------------------------------------------------------------------
\* A node whose last connection goes is reported gone, unless it comes back, even
\* when its connections go at the same time and each DisconnectedF has to leave the
\* report to another.
GoneIsReported ==
  \A p \in Peer : p \notin told ~> p \in told \/ ConnsToPeer(p) # {}

\* Only a measurement that outlives the connection can leave apps believing that a
\* node is connected when it is not.
OnlyLateMisleads ==
  \A p \in Peer :
    /\ view[p] = "connected"
    /\ \A c \in Conn : remote[c] = p => conn[c] = "none"
    => p \in late
=============================================================================
