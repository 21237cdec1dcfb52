--------------------------- MODULE WsClient_proofs --------------------------
(***************************************************************************)
(* Theorems about WsClient, for any size of the send buffer and any number   *)
(* of messages.                                                            *)
(***************************************************************************)
EXTENDS WsClient, SequenceTheorems, TLAPS

-----------------------------------------------------------------------------
(***************************************************************************)
(* The line of messages: what is written, followed by what is buffered.     *)
(***************************************************************************)

\* A message that trySend accepts joins the end of the line.
LEMMA LineAppend ==
  ASSUME NEW S, NEW w \in Seq(S), NEW s \in Seq(S), NEW x \in S
  PROVE  w \o Append(s, x) = Append(w \o s, x)
<1>1. <<x>> \in Seq(S)
  OBVIOUS
<1>2. w \o s \in Seq(S)
  BY ConcatProperties
<1>3. Append(s, x) = s \o <<x>> /\ Append(w \o s, x) = (w \o s) \o <<x>>
  BY <1>2, AppendIsConcat
<1>4. QED
  BY <1>1, <1>3, ConcatAssociative

\* A message that writePump writes keeps its place in the line.
LEMMA LineWrite ==
  ASSUME NEW S, NEW w \in Seq(S), NEW s \in Seq(S), s # <<>>
  PROVE  Append(w, Head(s)) \o Tail(s) = w \o s
<1>1. /\ Head(s) \in S
      /\ Tail(s) \in Seq(S)
      /\ Len(Tail(s)) = Len(s) - 1
      /\ \A i \in 1..Len(Tail(s)) : Tail(s)[i] = s[i + 1]
  BY HeadTailProperties
<1> DEFINE a == Append(w, Head(s))
           t == Tail(s)
<1>2. /\ a \in Seq(S)
      /\ Len(a) = Len(w) + 1
      /\ \A i \in 1..Len(w) : a[i] = w[i]
      /\ a[Len(w) + 1] = s[1]
  BY <1>1, AppendProperties
<1>3. Len(w) \in Nat /\ Len(s) \in Nat \ {0}
  BY EmptySeq, LenProperties
<1> HIDE DEF a, t
<1>4. /\ a \o t \in Seq(S)
      /\ Len(a \o t) = Len(a) + Len(t)
      /\ \A i \in 1..Len(a) + Len(t) :
           (a \o t)[i] = IF i <= Len(a) THEN a[i] ELSE t[i - Len(a)]
  BY <1>1, <1>2, ConcatProperties DEF t
<1>5. /\ w \o s \in Seq(S)
      /\ Len(w \o s) = Len(w) + Len(s)
      /\ \A i \in 1..Len(w) + Len(s) :
           (w \o s)[i] = IF i <= Len(w) THEN w[i] ELSE s[i - Len(w)]
  BY ConcatProperties
<1>6. t \in Seq(S) /\ Len(t) = Len(s) - 1 /\ \A i \in 1..Len(t) : t[i] = s[i + 1]
  BY <1>1 DEF t
<1>7. Len(a \o t) = Len(w \o s)
  BY <1>2, <1>3, <1>4, <1>5, <1>6
<1>8. ASSUME NEW i \in 1..Len(a \o t) PROVE (a \o t)[i] = (w \o s)[i]
  <2>1. CASE i <= Len(w)
    BY <1>2, <1>3, <1>4, <1>5, <1>6, <2>1
  <2>2. CASE i = Len(w) + 1
    BY <1>2, <1>3, <1>4, <1>5, <1>6, <2>2
  <2>3. CASE i > Len(w) + 1
    <3>1. (a \o t)[i] = t[i - Len(w) - 1]
      BY <1>2, <1>3, <1>4, <1>6, <2>3
    <3>2. i - Len(w) - 1 \in 1..Len(t)
      BY <1>2, <1>3, <1>4, <1>6, <2>3
    <3>3. t[i - Len(w) - 1] = s[i - Len(w)]
      <4>1. t[i - Len(w) - 1] = s[(i - Len(w) - 1) + 1]
        BY <1>6, <3>2
      <4>2. (i - Len(w) - 1) + 1 = i - Len(w)
        BY <1>3, <1>7
      <4>3. QED
        BY <4>1, <4>2
    <3>4. QED
      BY <1>2, <1>3, <1>4, <1>5, <1>6, <2>3, <3>1, <3>3
  <2>4. QED
    BY <1>2, <1>3, <1>4, <1>6, <2>1, <2>2, <2>3
<1>9. a \o t = w \o s
  BY <1>4, <1>5, <1>7, <1>8, SeqEqual
<1>10. QED
  BY <1>9 DEF a, t

\* The line then has one message more.
LEMMA LineGrows ==
  ASSUME NEW n \in Nat, NEW s \in Seq(1..n)
  PROVE  /\ Elements(Append(s, n + 1)) = Elements(s) \cup {n + 1}
         /\ Elements(s) \subseteq 1..n
<1> DEFINE a == Append(s, n + 1)
<1>1. s \in Seq(1..(n + 1)) /\ n + 1 \in 1..(n + 1)
  BY SeqMonotonic
<1>2. /\ a \in Seq(1..(n + 1))
      /\ Len(a) = Len(s) + 1
      /\ \A i \in 1..Len(s) : a[i] = s[i]
      /\ a[Len(s) + 1] = n + 1
  BY <1>1, AppendProperties
<1>3. /\ Len(s) \in Nat /\ DOMAIN s = 1..Len(s) /\ DOMAIN a = 1..(Len(s) + 1)
      /\ \A i \in 1..Len(s) : s[i] \in 1..n
  BY <1>1, <1>2, LenProperties, ElementOfSeq
<1> HIDE DEF a
<1>4. Elements(a) = Elements(s) \cup {n + 1}
  <2>1. \A i \in 1..(Len(s) + 1) : i \in 1..Len(s) \/ i = Len(s) + 1
    BY <1>3
  <2>2. Elements(a) \subseteq Elements(s) \cup {n + 1}
    BY <1>2, <1>3, <2>1 DEF Elements
  <2>3. Elements(s) \subseteq Elements(a)
    BY <1>2, <1>3 DEF Elements
  <2>4. n + 1 \in Elements(a)
    <3>1. Len(s) + 1 \in DOMAIN a
      BY <1>3
    <3>2. a[Len(s) + 1] \in Elements(a)
      BY <3>1 DEF Elements
    <3>3. QED
      BY <1>2, <3>2
  <2>5. QED
    BY <2>2, <2>3, <2>4
<1>5. QED
  BY <1>3, <1>4 DEF a, Elements

-----------------------------------------------------------------------------
(***************************************************************************)
(* Types.  Event stops at MaxMsgs; the greeting and the flush add at most    *)
(* one message and Held messages to that.                                   *)
(***************************************************************************)

Types ==
  /\ TypeOK
  /\ offered <= MaxMsgs + (IF handler \in {"adding", "greeting"} THEN 0 ELSE 1)
                        + (Held - left)

\* What trySend does to the types.
LEMMA TrySendTypes ==
  ASSUME TypeOK, trySend, written' = written
  PROVE  /\ offered' = offered + 1
         /\ send' \in Seq(1..offered') /\ Len(send') <= wsSendBuffer
         /\ dropped' \subseteq 1..offered'
         /\ written' \in Seq(1..offered')
<1> USE WsAssumption
<1>1. offered' = offered + 1 /\ offered \in Nat
  BY DEF trySend, TypeOK
<1>2. 1..offered \subseteq 1..offered' /\ offered + 1 \in 1..offered'
  BY <1>1
<1>3. send \in Seq(1..offered') /\ written' \in Seq(1..offered')
  BY <1>2, SeqMonotonic DEF TypeOK
<1>4. CASE closed \/ Len(send) = wsSendBuffer
  BY <1>1, <1>2, <1>3, <1>4 DEF trySend, TypeOK
<1>5. CASE ~(closed \/ Len(send) = wsSendBuffer)
  <2>1. send' = Append(send, offered + 1) /\ dropped' = dropped
    BY <1>5 DEF trySend
  <2>2. send' \in Seq(1..offered') /\ Len(send') = Len(send) + 1
    BY <1>2, <1>3, <2>1, AppendProperties
  <2>3. Len(send) \in Nat /\ Len(send) <= wsSendBuffer
    BY <1>3, LenProperties DEF TypeOK
  <2>4. QED
    BY <1>1, <1>2, <1>3, <1>5, <2>1, <2>2, <2>3 DEF TypeOK
<1>6. QED
  BY <1>4, <1>5

LEMMA TypesInit == Init => Types
<1> SUFFICES ASSUME Init PROVE Types
  OBVIOUS
<1>1. send \in Seq(1..offered) /\ written \in Seq(1..offered) /\ Len(send) = 0
  BY EmptySeq DEF Init
<1>2. offered = 0 /\ left = Held /\ handler = "adding" /\ dropped = {}
  BY DEF Init
<1>3. /\ Len(send) <= wsSendBuffer
      /\ left \in 0..Held
      /\ offered \in 0..(MaxMsgs + 1 + Held)
      /\ offered <= MaxMsgs + 0 + (Held - left)
  BY <1>1, <1>2, WsAssumption
<1>4. TypeOK
  BY <1>1, <1>3 DEF Init, TypeOK
<1>5. QED
  BY <1>2, <1>3, <1>4 DEF Types

LEMMA TypesStep == Types /\ [Next]_vars => Types'
<1> SUFFICES ASSUME Types, [Next]_vars PROVE Types'
  OBVIOUS
<1> USE WsAssumption
<1>0. TypeOK
  BY DEF Types
<1>1. CASE AddClient
  BY <1>1 DEF AddClient, Types, TypeOK
<1>2. CASE Greet
  <2>1. CASE member
    BY <1>0, <1>2, <2>1, TrySendTypes DEF Greet, Types, TypeOK
  <2>2. CASE ~member
    <3>1. UNCHANGED <<send, offered, dropped, written>>
      BY <1>2, <2>2 DEF Greet
    <3>2. /\ send' \in Seq(1..offered') /\ Len(send') <= wsSendBuffer
          /\ dropped' \subseteq 1..offered'
          /\ written' \in Seq(1..offered')
          /\ offered' \in 0..(MaxMsgs + 1 + Held)
      BY <1>0, <3>1 DEF TypeOK
    <3>3. QED
      BY <1>2, <3>1, <3>2 DEF Greet, Types, TypeOK
  <2>3. QED
    BY <2>1, <2>2
<1>3. CASE FlushOne
  <2>1. CASE member
    BY <1>0, <1>3, <2>1, TrySendTypes DEF FlushOne, Types, TypeOK
  <2>2. CASE ~member
    <3>1. UNCHANGED <<send, offered, dropped, written>>
      BY <1>3, <2>2 DEF FlushOne
    <3>2. /\ send' \in Seq(1..offered') /\ Len(send') <= wsSendBuffer
          /\ dropped' \subseteq 1..offered'
          /\ written' \in Seq(1..offered')
          /\ offered' \in 0..(MaxMsgs + 1 + Held)
      BY <1>0, <3>1 DEF TypeOK
    <3>3. QED
      BY <1>3, <3>1, <3>2 DEF FlushOne, Types, TypeOK
  <2>3. QED
    BY <2>1, <2>2
<1>4. CASE StartPump
  BY <1>4 DEF StartPump, Types, TypeOK
<1>5. CASE Event
  BY <1>0, <1>5, TrySendTypes DEF Event, Types, TypeOK
<1>6. CASE SocketGone
  BY <1>6 DEF SocketGone, Types, TypeOK
<1>7. CASE PumpWrite
  <2>1. send # <<>> /\ send' = Tail(send) /\ written' = Append(written, Head(send))
    BY <1>7 DEF PumpWrite
  <2>2. /\ Head(send) \in 1..offered
        /\ Tail(send) \in Seq(1..offered)
        /\ Len(Tail(send)) = Len(send) - 1
    BY <1>0, <2>1, HeadTailProperties DEF TypeOK
  <2>3. written' \in Seq(1..offered)
    BY <1>0, <2>1, <2>2, AppendProperties DEF TypeOK
  <2>4. Len(send) \in Nat
    BY <1>0, LenProperties DEF TypeOK
  <2>5. QED
    BY <1>7, <2>1, <2>2, <2>3, <2>4 DEF PumpWrite, Types, TypeOK
<1>8. CASE PumpFails
  <2>1. send' = send \/ (send # <<>> /\ send' = Tail(send))
    BY <1>8 DEF PumpFails
  <2>2. Len(send) \in Nat
    BY <1>0, LenProperties DEF TypeOK
  <2>3. send' \in Seq(1..offered) /\ Len(send') <= wsSendBuffer
    <3>1. send \in Seq(1..offered) /\ Len(send) <= wsSendBuffer
      BY <1>0 DEF TypeOK
    <3>2. CASE send # <<>> /\ send' = Tail(send)
      <4>1. Tail(send) \in Seq(1..offered) /\ Len(Tail(send)) = Len(send) - 1
        BY <3>1, <3>2, HeadTailProperties
      <4>2. QED
        BY <2>2, <3>1, <3>2, <4>1
    <3>3. QED
      BY <2>1, <3>1, <3>2
  <2>4. QED
    BY <1>8, <2>3 DEF PumpFails, Types, TypeOK
<1>9. CASE PumpEnds
  <2>1. bye' \in BOOLEAN
    BY <1>9 DEF PumpEnds
  <2>2. QED
    BY <1>9, <2>1 DEF PumpEnds, Types, TypeOK
<1>10. CASE ReadFails
  BY <1>10 DEF ReadFails, Types, TypeOK
<1>11. CASE RemoveClient
  BY <1>11 DEF RemoveClient, Types, TypeOK
<1>12. CASE Close
  BY <1>12 DEF Close, Types, TypeOK
<1>13. CASE Shutdown
  BY <1>13 DEF Shutdown, Types, TypeOK
<1>14. CASE ReadDeadline
  BY <1>14 DEF ReadDeadline, Types, TypeOK
<1>15. CASE UNCHANGED vars
  BY <1>15 DEF vars, Types, TypeOK
<1>16. QED
  BY <1>1, <1>2, <1>3, <1>4, <1>5, <1>6, <1>7, <1>8, <1>9, <1>10, <1>11, <1>12,
     <1>13, <1>14, <1>15 DEF Next, HandlerStep, PumpStep

\* The channel never holds more than wsSendBuffer messages, and the state of the
\* socket keeps its types.
THEOREM SocketTypes == Spec => []TypeOK
<1>1. Types => TypeOK
  BY DEF Types
<1>2. QED
  BY <1>1, TypesInit, TypesStep, PTL DEF Spec

-----------------------------------------------------------------------------
(***************************************************************************)
(* Who can reach a closed socket.  It is closed by onClose, after             *)
(* removeClient, or by Shutdown, which finds it only in the map; and          *)
(* addClient puts it there once, before either.                             *)
(***************************************************************************)

ReachInv ==
  /\ ClosedIsUnreachable
  /\ handler = "adding" => ~member /\ ~closed
  /\ handler \in {"closing", "done"} => ~member

LEMMA ReachInit == Init => ReachInv
  BY DEF Init, ReachInv, ClosedIsUnreachable

LEMMA ReachStep == ReachInv /\ [Next]_vars => ReachInv'
<1> SUFFICES ASSUME ReachInv, [Next]_vars PROVE ReachInv'
  OBVIOUS
<1> USE DEF ReachInv, ClosedIsUnreachable
<1>1. CASE AddClient
  BY <1>1 DEF AddClient
<1>2. CASE Greet \/ StartPump \/ ReadFails \/ ReadDeadline
  BY <1>2 DEF Greet, StartPump, ReadFails, ReadDeadline
<1>3. CASE RemoveClient
  BY <1>3 DEF RemoveClient
<1>4. CASE Close
  BY <1>4 DEF Close
<1>5. CASE Shutdown
  BY <1>5 DEF Shutdown
<1>6. CASE UNCHANGED <<member, closed, handler>>
  BY <1>6
<1>7. QED
  BY <1>1, <1>2, <1>3, <1>4, <1>5, <1>6
     DEF Next, HandlerStep, PumpStep, FlushOne, Event, SocketGone, PumpWrite, PumpFails,
         PumpEnds, vars

\* Whatever closes a socket, and in whatever order, no broadcast and no delivery is
\* handed a closed one.
THEOREM NoSendAfterClose == Spec => []ClosedIsUnreachable
<1>1. ReachInv => ClosedIsUnreachable
  BY DEF ReachInv
<1>2. QED
  BY <1>1, ReachInit, ReachStep, PTL DEF Spec

-----------------------------------------------------------------------------
(***************************************************************************)
(* What was written when the socket is told goodbye.                        *)
(***************************************************************************)

\* What trySend does to the line and to the messages dropped.
LEMMA TrySendLine ==
  ASSUME TypeOK, trySend, written' = written
  PROVE  \/ /\ written' \o send' = written \o send
            /\ dropped' = dropped \cup {offered + 1}
         \/ /\ ~closed
            /\ Elements(written' \o send') = Elements(written \o send) \cup {offered + 1}
            /\ dropped' = dropped
<1> DEFINE line == written \o send
<1>1. offered \in Nat /\ line \in Seq(1..offered)
  BY WsAssumption, ConcatProperties DEF TypeOK
<1>2. Elements(Append(line, offered + 1)) = Elements(line) \cup {offered + 1}
  <2> HIDE DEF line
  <2>1. QED
    BY <1>1, LineGrows
<1>3. CASE closed \/ Len(send) = wsSendBuffer
  BY <1>3 DEF trySend
<1>4. CASE ~(closed \/ Len(send) = wsSendBuffer)
  <2>1. send' = Append(send, offered + 1) /\ dropped' = dropped
    BY <1>4 DEF trySend
  <2>2. written \in Seq(Nat) /\ send \in Seq(Nat) /\ offered + 1 \in Nat
    BY <1>1, SeqMonotonic DEF TypeOK
  <2>3. written' \o send' = Append(line, offered + 1)
    BY <2>1, <2>2, LineAppend
  <2> HIDE DEF line
  <2>4. QED
    BY <1>2, <1>4, <2>1, <2>3 DEF line
<1>5. QED
  BY <1>3, <1>4

\* Until writePump has ended, every message accepted is in the line; after goodbye
\* the socket is closed, so that nothing more is accepted.
DrainInv ==
  /\ handler \in {"adding", "greeting", "flushing"} => pump = "off"
  /\ pump # "done" => Elements(written \o send) = (1..offered) \ dropped
  /\ bye => pump = "done" /\ closed
  /\ DrainedBeforeBye

LEMMA DrainInit == Init => DrainInv
<1> SUFFICES ASSUME Init PROVE DrainInv
  OBVIOUS
<1>1. written \o send = <<>> /\ 1..offered = {}
  BY DEF Init
<1>2. QED
  BY <1>1 DEF Init, DrainInv, DrainedBeforeBye, Elements

LEMMA DrainTrySend ==
  ASSUME TypeOK, DrainInv, trySend, UNCHANGED <<written, closed, pump, bye>>,
         handler' = handler \/ (handler = "greeting" /\ handler' = "flushing")
  PROVE  DrainInv'
<1>1. offered \in Nat /\ offered' = offered + 1 /\ dropped \subseteq 1..offered
  BY WsAssumption DEF TypeOK, trySend
<1>2. 1..offered' = (1..offered) \cup {offered + 1} /\ offered + 1 \notin 1..offered
  BY <1>1
<1>3. \/ /\ written' \o send' = written \o send
         /\ dropped' = dropped \cup {offered + 1}
      \/ /\ ~closed
         /\ Elements(written' \o send') = Elements(written \o send) \cup {offered + 1}
         /\ dropped' = dropped
  BY TrySendLine
<1>4. pump # "done" => Elements(written' \o send') = (1..offered') \ dropped'
  BY <1>1, <1>2, <1>3 DEF DrainInv
<1>5. bye => Elements(written') = (1..offered') \ dropped'
  BY <1>1, <1>2, <1>3 DEF DrainInv, DrainedBeforeBye
<1>6. QED
  BY <1>4, <1>5 DEF DrainInv, DrainedBeforeBye

LEMMA DrainStep == Types /\ DrainInv /\ [Next]_vars => DrainInv'
<1> SUFFICES ASSUME TypeOK, DrainInv, [Next]_vars PROVE DrainInv'
  BY DEF Types
<1>1. CASE Greet \/ FlushOne \/ Event
  <2>1. CASE trySend
    BY <1>1, <2>1, DrainTrySend DEF Greet, FlushOne, Event
  <2>2. CASE UNCHANGED <<send, offered, dropped>>
    BY <1>1, <2>2 DEF Greet, FlushOne, Event, DrainInv, DrainedBeforeBye
  <2>3. QED
    BY <1>1, <2>1, <2>2 DEF Greet, FlushOne, Event
<1>2. CASE StartPump
  BY <1>2 DEF StartPump, DrainInv, DrainedBeforeBye
<1>3. CASE PumpWrite
  <2>1. written' \o send' = written \o send
    BY <1>3, LineWrite DEF PumpWrite, TypeOK
  <2>2. /\ pump = "on" /\ UNCHANGED <<closed, handler, pump, offered, dropped, bye>>
    BY <1>3 DEF PumpWrite
  <2>3. QED
    BY <2>1, <2>2 DEF DrainInv, DrainedBeforeBye
<1>4. CASE PumpFails
  BY <1>4 DEF PumpFails, DrainInv, DrainedBeforeBye
<1>5. CASE PumpEnds
  <2>1. /\ pump = "on" /\ closed /\ send = <<>> /\ pump' = "done"
        /\ UNCHANGED <<send, closed, handler, offered, dropped, written>>
    BY <1>5 DEF PumpEnds
  <2>2. written \o send = written
    BY <2>1, ConcatEmptySeq DEF TypeOK
  <2>3. Elements(written') = (1..offered') \ dropped'
    BY <2>1, <2>2 DEF DrainInv
  <2>4. QED
    BY <2>1, <2>3 DEF DrainInv, DrainedBeforeBye
<1>6. CASE AddClient \/ ReadFails \/ ReadDeadline \/ RemoveClient \/ Close \/ Shutdown
           \/ SocketGone \/ UNCHANGED vars
  <2>1. /\ UNCHANGED <<send, pump, offered, dropped, written, bye>>
        /\ closed => closed'
        /\ handler' \in {"adding", "greeting", "flushing"} =>
             handler \in {"adding", "greeting", "flushing"}
    BY <1>6 DEF AddClient, ReadFails, ReadDeadline, RemoveClient, Close, Shutdown, SocketGone, vars
  <2>2. QED
    BY <2>1 DEF DrainInv, DrainedBeforeBye
<1>7. QED
  BY <1>1, <1>2, <1>3, <1>4, <1>5, <1>6 DEF Next, HandlerStep, PumpStep

\* A socket told goodbye had been written every message accepted for it.
THEOREM GoodbyeComesLast == Spec => []DrainedBeforeBye
<1>1. DrainInv => DrainedBeforeBye
  BY DEF DrainInv
<1>2. QED
  BY <1>1, TypesInit, TypesStep, DrainInit, DrainStep, PTL DEF Spec
=============================================================================
