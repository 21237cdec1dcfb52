----------------------------- MODULE MCRelayNode ----------------------------
(***************************************************************************)
(* Small instances of RelayNode.  The packets go to appA: p1 and p2 are an *)
(* older and a newer packet of one sender and p3 has another sender.  d1    *)
(* and bad carry the packet ID of p1 again, bad with a recipient that is no  *)
(* peer ID.                                                                *)
(***************************************************************************)
EXTENDS RelayNode

CONSTANTS appA, s1, s2, p1, p2, p3, d1, bad

MCsenderOf == [p \in Pkt |-> IF p = p3 THEN s2 ELSE s1]

MCrecipientOf == [p \in Pkt |-> IF p = bad THEN NoPeer ELSE appA]

MCidOf == [p \in Pkt |-> IF p \in {d1, bad} THEN p1 ELSE p]

MCPktID == {MCidOf[p] : p \in Pkt}
=============================================================================
