------------------------------- MODULE WsClient -----------------------------
(***************************************************************************)
(* internal/api/wsclient.go: one app socket, with its bounded send channel. *)
(*                                                                         *)
(* The goroutines that meet here are the handler (handleWS: broadcast of    *)
(* peer_online, flush of the relay queue in AppConnected, start of          *)
(* writePump, readPump, onClose), the writePump, and any goroutine of the   *)
(* node that broadcasts an event or delivers a packet.  Every trySend and   *)
(* close runs under wsClient.mu.  Messages are numbered in the order of the  *)
(* trySend calls.                                                          *)
(***************************************************************************)
EXTENDS Naturals, Sequences

CONSTANTS
  wsSendBuffer,   \* 64 in the code
  Held,           \* packets that the relay holds for the app when it connects
  MaxMsgs         \* bound on the trySend calls of Event

ASSUME WsAssumption ==
  /\ wsSendBuffer \in Nat \ {0}
  /\ Held \in Nat
  /\ MaxMsgs \in Nat

VARIABLES
  member,    \* the client is in Server.clients
  send,      \* the channel's buffer
  closed,    \* wsClient.closed; the channel is closed too
  conn,      \* the WebSocket connection: "open", or "gone" for this node
  handler,   \* program counter of handleWS
  left,      \* packets of the flush not yet handed over
  pump,      \* program counter of writePump
  offered,   \* number of trySend calls
  dropped,   \* the messages trySend did not put into the buffer
  written,   \* the messages written to the connection, in order
  bye        \* the close message has been written

vars == <<member, send, closed, conn, handler, left, pump, offered,
          dropped, written, bye>>

TypeOK ==
  /\ member \in BOOLEAN
  /\ send \in Seq(1..offered) /\ Len(send) <= wsSendBuffer
  /\ closed \in BOOLEAN
  /\ conn \in {"open", "gone"}
  /\ handler \in {"adding", "greeting", "flushing", "reading", "removing",
                  "closing", "done"}
  /\ left \in 0..Held
  /\ pump \in {"off", "on", "done"}
  /\ offered \in 0..(MaxMsgs + 1 + Held)
  /\ dropped \subseteq 1..offered
  /\ written \in Seq(1..offered)
  /\ bye \in BOOLEAN

Init ==
  /\ member = FALSE
  /\ send = <<>>
  /\ closed = FALSE
  /\ conn = "open"
  /\ handler = "adding"
  /\ left = Held
  /\ pump = "off"
  /\ offered = 0
  /\ dropped = {}
  /\ written = <<>>
  /\ bye = FALSE

\* trySend, by any goroutine
trySend ==
  /\ offered' = offered + 1
  /\ IF closed \/ Len(send) = wsSendBuffer
     THEN /\ dropped' = dropped \cup {offered + 1}
          /\ UNCHANGED send
     ELSE /\ send' = Append(send, offered + 1)
          /\ UNCHANGED dropped

AddClient ==
  /\ handler = "adding"
  /\ member' = TRUE
  /\ handler' = "greeting"
  /\ UNCHANGED <<send, closed, conn, left, pump, offered, dropped,
                 written, bye>>

\* broadcast of peer_online, which reaches the new client too while it is a member
Greet ==
  /\ handler = "greeting"
  /\ handler' = "flushing"
  /\ IF member THEN trySend ELSE UNCHANGED <<send, offered, dropped>>
  /\ UNCHANGED <<member, closed, conn, left, pump, written, bye>>

\* deliver(p) for the next packet of FlushQueued
FlushOne ==
  /\ handler = "flushing"
  /\ left > 0
  /\ left' = left - 1
  /\ IF member
     THEN trySend
     ELSE UNCHANGED <<send, offered, dropped>>
  /\ UNCHANGED <<member, closed, conn, handler, pump, written, bye>>

\* go client.writePump(), then readPump
StartPump ==
  /\ handler = "flushing"
  /\ left = 0
  /\ pump' = "on"
  /\ handler' = "reading"
  /\ UNCHANGED <<member, send, closed, conn, left, offered, dropped,
                 written, bye>>

\* broadcast or sendToApp elsewhere in the node
Event ==
  /\ member
  /\ offered < MaxMsgs
  /\ trySend
  /\ UNCHANGED <<member, closed, conn, handler, left, pump, written, bye>>

\* The app closes the socket, or the network fails.
SocketGone ==
  /\ conn = "open"
  /\ conn' = "gone"
  /\ UNCHANGED <<member, send, closed, handler, left, pump, offered,
                 dropped, written, bye>>

-----------------------------------------------------------------------------
\* writePump

PumpWrite ==
  /\ pump = "on"
  /\ send # <<>>
  /\ conn = "open"
  /\ send' = Tail(send)
  /\ written' = Append(written, Head(send))
  /\ UNCHANGED <<member, closed, conn, handler, left, pump, offered,
                 dropped, bye>>

\* Mutated form of PumpFails: the connection is not closed.
PumpFailsLeavesConn ==
  /\ pump = "on"
  /\ send' \in {send} \cup {Tail(s) : s \in {send} \ {<<>>}}
  /\ pump' = "done"
  /\ UNCHANGED <<member, closed, conn, handler, left, offered, dropped,
                 written, bye>>

\* A write of a message or of a ping fails, and the deferred Close runs.  A write
\* to an open connection fails when the app does not read for wsWriteWait.
PumpFails ==
  /\ pump = "on"
  /\ send' \in {send} \cup {Tail(s) : s \in {send} \ {<<>>}}
  /\ pump' = "done"
  /\ conn' = "gone"
  /\ UNCHANGED <<member, closed, handler, left, offered, dropped,
                 written, bye>>

\* Mutated form of PumpEnds: a close is noticed before the buffer is empty.
PumpEndsEarly ==
  /\ pump = "on"
  /\ closed
  /\ bye' = (conn = "open")
  /\ pump' = "done"
  /\ conn' = "gone"
  /\ UNCHANGED <<member, send, closed, handler, left, offered, dropped,
                 written>>

\* Receive from a closed channel that has been drained.
PumpEnds ==
  /\ pump = "on"
  /\ closed
  /\ send = <<>>
  /\ bye' = (conn = "open")
  /\ pump' = "done"
  /\ conn' = "gone"
  /\ UNCHANGED <<member, send, closed, handler, left, offered, dropped,
                 written>>

-----------------------------------------------------------------------------
\* readPump and onClose

\* ReadMessage fails on a connection that is gone.
ReadFails ==
  /\ handler = "reading"
  /\ conn = "gone"
  /\ handler' = "removing"
  /\ UNCHANGED <<member, send, closed, conn, left, pump, offered,
                 dropped, written, bye>>

\* The read deadline passes, as when no pong comes: the connection stays open for
\* writePump, which may still drain the buffer and say goodbye.
ReadDeadline ==
  /\ handler = "reading"
  /\ conn = "open"
  /\ handler' = "removing"
  /\ UNCHANGED <<member, send, closed, conn, left, pump, offered,
                 dropped, written, bye>>

RemoveClient ==
  /\ handler = "removing"
  /\ member' = FALSE
  /\ handler' = "closing"
  /\ UNCHANGED <<send, closed, conn, left, pump, offered, dropped,
                 written, bye>>

Close ==
  /\ handler = "closing"
  /\ closed' = TRUE
  /\ handler' = "done"
  /\ UNCHANGED <<member, send, conn, left, pump, offered, dropped,
                 written, bye>>

\* Mutated form of Shutdown: the closed clients stay in the map.
ShutdownKeepsClients ==
  /\ member
  /\ closed' = TRUE
  /\ UNCHANGED <<member, send, conn, handler, left, pump, offered, dropped,
                 written, bye>>

\* Server.Shutdown, for this client
Shutdown ==
  /\ member
  /\ closed' = TRUE
  /\ member' = FALSE
  /\ UNCHANGED <<send, conn, handler, left, pump, offered, dropped,
                 written, bye>>

-----------------------------------------------------------------------------
HandlerStep ==
  \/ AddClient \/ Greet \/ FlushOne \/ StartPump
  \/ ReadFails \/ RemoveClient \/ Close

PumpStep == PumpWrite \/ PumpFails \/ PumpEnds

Next == HandlerStep \/ PumpStep \/ Event \/ SocketGone \/ ReadDeadline \/ Shutdown

\* Both goroutines run while they can.  Pings are sent on an idle connection too,
\* so writePump always has a step to take.
Spec == Init /\ [][Next]_vars /\ WF_vars(HandlerStep) /\ WF_vars(PumpStep)

-----------------------------------------------------------------------------
\* Properties.

Elements(s) == {s[i] : i \in DOMAIN s}

\* No goroutine is handed a closed channel to send on, which would panic but for the
\* flag that trySend looks at: whoever closes a socket, onClose or Shutdown, has it
\* out of Server.clients before anyone can look there again, and no handshake that
\* is still under way puts a closed one in.
ClosedIsUnreachable == member => ~closed

\* A socket that was told goodbye had been written every message that was ever
\* accepted for it, even the ones buffered when it was closed.
DrainedBeforeBye == bye => Elements(written) = (1..offered) \ dropped

\* Every way a socket can end (the app leaves, a write fails, the node shuts down)
\* ends both goroutines, whichever one notices first.
BothGoroutinesEnd ==
  (closed \/ conn = "gone") ~> (handler = "done" /\ pump = "done")
=============================================================================
