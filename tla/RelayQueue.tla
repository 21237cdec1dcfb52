----------------------------- MODULE RelayQueue -----------------------------
(***************************************************************************)
(* internal/relay/queue.go: the store-and-forward queue of one node.       *)
(*                                                                         *)
(* The Go value is a map recipient -> sender -> (packet, time of Put).  A   *)
(* packet is only ever filed under its own recipient and its own sender,   *)
(* so the map is represented by the set of its entries and the two keys    *)
(* are read off the packet.  Pkt is the set of *Packet objects, one for    *)
(* each packet that arrives: two objects may carry the same packet ID.     *)
(*                                                                         *)
(* Each operator is the body of one method, which runs under Queue.mu.     *)
(***************************************************************************)
EXTENDS Naturals, FiniteSets, Peers

CONSTANTS
  Sender,           \* values of Packet.SenderID
  Pkt,              \* *Packet objects
  senderOf,         \* Packet.SenderID
  recipientOf,      \* Packet.RecipientID; NoPeer when it is no peer ID
  NoPeer,
  QueueMaxSenders,  \* 500 in the code
  QueueEntryTTL     \* 7 days in the code

ASSUME PacketAssumption ==
  /\ NoPeer \notin App
  /\ senderOf \in [Pkt -> Sender]
  /\ recipientOf \in [Pkt -> App \cup {NoPeer}]

ASSUME QueueAssumption ==
  /\ QueueMaxSenders \in Nat \ {0}
  /\ QueueEntryTTL \in Nat

queuedPacket == [pkt : Pkt, at : Nat]

Bucket(q, r) == {e \in q : recipientOf[e.pkt] = r}

\* The entry that q holds for the sender and the recipient of p, if any.
Slot(q, p) == {e \in Bucket(q, recipientOf[p]) : senderOf[e.pkt] = senderOf[p]}

\* Mutated form of Full: off by one.
FullOffByOne(q, r) == Cardinality(Bucket(q, r)) > QueueMaxSenders

\* len(bucket) >= QueueMaxSenders; entries past their TTL still count.
Full(q, r) == Cardinality(Bucket(q, r)) >= QueueMaxSenders

\* Mutated form of Refused: a full bucket refuses a sender that has a slot, too.
RefusedIfFull(q, p) == Full(q, recipientOf[p])

Refused(q, p) == Slot(q, p) = {} /\ Full(q, recipientOf[p])

Put(q, p, now) ==
  IF Refused(q, p) THEN q
  ELSE (q \ Slot(q, p)) \cup {[pkt |-> p, at |-> now]}

\* Mutated form of Stale: an entry goes as soon as it reaches the TTL.
StaleEarly(e, now) == e.at + QueueEntryTTL <= now

\* entry.at.Before(now - QueueEntryTTL)
Stale(e, now) == e.at + QueueEntryTTL < now

\* What Take(r) returns, and the queue it leaves.
Taken(q, r, now) == {e.pkt : e \in {x \in Bucket(q, r) : ~Stale(x, now)}}

\* Mutated form of AfterTake: the packets returned stay in the map.
AfterTakeKeeps(q, r) == q

AfterTake(q, r) == q \ Bucket(q, r)

\* sweep()
Swept(q, now) == {e \in q : ~Stale(e, now)}

PktsOf(q) == {e.pkt : e \in q}

\* What Put keeps true of the map: one entry per slot, and no bucket over the cap.
Bounded(q) ==
  \A e \in q : /\ Slot(q, e.pkt) = {e}
               /\ Cardinality(Bucket(q, recipientOf[e.pkt])) <= QueueMaxSenders
=============================================================================
