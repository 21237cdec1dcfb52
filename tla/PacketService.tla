---------------------------- MODULE PacketService ---------------------------
(***************************************************************************)
(* What the relay of a node promises for each packet, whatever goroutines,  *)
(* locks, queue and routing table it uses: a packet that comes in is        *)
(* dropped at once as a duplicate or as malformed, or it is accepted, and    *)
(* from then on it is in one place.  It is "moving" while a goroutine has    *)
(* it, "held" while it is stored for a recipient out of reach, and it       *)
(* reaches one end: delivered to its app, forwarded to another node, or      *)
(* dropped for one of three reasons.                                        *)
(*                                                                         *)
(* No step moves a packet that it does not name; at most one packet is held  *)
(* for a slot, that is for a sender and a recipient; and a held packet is    *)
(* superseded only by a packet of its slot that is held in its place.        *)
(***************************************************************************)
CONSTANTS
  Packet,
  slotOf      \* the sender and the recipient of each packet

VARIABLE place

Dropped == {"duplicate", "invalid", "refused", "superseded", "expired"}

Place == {"new", "moving", "held", "delivered", "forwarded"} \cup Dropped

ServiceInit == place = [p \in Packet |-> "new"]

Receive(p) ==
  /\ place[p] = "new"
  /\ \E l \in {"moving", "duplicate", "invalid"} : place' = [place EXCEPT ![p] = l]

HandOver(p) ==
  /\ place[p] = "moving"
  /\ \E l \in {"delivered", "forwarded"} : place' = [place EXCEPT ![p] = l]

\* The packets held for the sender and the recipient of p
Rivals(p) == {q \in Packet : place[q] = "held" /\ slotOf[q] = slotOf[p]}

\* p is stored and takes the place of any rival.
Hold(p) ==
  /\ place[p] = "moving"
  /\ place' = [q \in Packet |-> IF q = p THEN "held"
                                ELSE IF q \in Rivals(p) THEN "superseded"
                                ELSE place[q]]

\* p is dropped for want of room, which is never so when it has a rival.
Refuse(p) ==
  /\ place[p] = "moving"
  /\ Rivals(p) = {}
  /\ place' = [place EXCEPT ![p] = "refused"]

\* Held packets are taken out, for another try or because they are too old.
Release ==
  \A p \in Packet : \/ place'[p] = place[p]
                    \/ place[p] = "held" /\ place'[p] \in {"moving", "expired"}

ServiceNext ==
  \/ Release
  \/ \E p \in Packet : Receive(p) \/ HandOver(p) \/ Hold(p) \/ Refuse(p)

Service == ServiceInit /\ [][ServiceNext]_place
=============================================================================
