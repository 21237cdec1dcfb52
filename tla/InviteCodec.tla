----------------------------- MODULE InviteCodec ----------------------------
(***************************************************************************)
(* internal/network/invite.go: the bytes of an invite code.                 *)
(*                                                                         *)
(*   version, number of addresses, (length high, length low, address)*,     *)
(*   PSK, label                                                            *)
(*                                                                         *)
(* The number base of the format is a parameter, so that the largest number *)
(* of addresses and the longest address are within reach of small           *)
(* instances.  The scheme and base58 around the bytes are one-to-one and    *)
(* left out.                                                               *)
(***************************************************************************)
EXTENDS Naturals, Sequences

CONSTANTS
  ByteBase,    \* 256 in the code
  pskLen,      \* 32 in the code
  Multiaddr    \* the byte strings that ma.NewMultiaddrBytes accepts

Byte == 0..(ByteBase - 1)

ASSUME CodecAssumption ==
  /\ ByteBase \in Nat \ {0, 1}
  /\ pskLen \in Nat
  /\ Multiaddr \subseteq Seq(Byte)

inviteVersion == 1

\* Mutated form of withLength: the length is little-endian.
withLengthLittle(ab) == <<Len(ab) % ByteBase, Len(ab) \div ByteBase>> \o ab

\* binary.BigEndian.PutUint16 and the address
withLength(ab) == <<Len(ab) \div ByteBase, Len(ab) % ByteBase>> \o ab

\* The addresses up to the k-th, one after the other
addrBytes(addrs) ==
  LET upTo[k \in 0..Len(addrs)] ==
        IF k = 0 THEN <<>> ELSE upTo[k - 1] \o withLength(addrs[k])
  IN upTo[Len(addrs)]

\* EncodeInvite returns no error.
Encodable(inv) ==
  /\ Len(inv.psk) = pskLen
  /\ Len(inv.addrs) \in 1..(ByteBase - 1)
  /\ \A i \in DOMAIN inv.addrs : Len(inv.addrs[i]) < ByteBase * ByteBase

EncodeInvite(inv) ==
  <<inviteVersion, Len(inv.addrs) % ByteBase>> \o addrBytes(inv.addrs) \o inv.psk \o inv.label

\* The position of the reader, the addresses read so far, and whether all is well
Reader == [pos |-> 2, addrs |-> <<>>, ok |-> TRUE]

\* One round of the loop of DecodeInvite
readAddr(raw, r) ==
  LET n == raw[r.pos + 1] * ByteBase + raw[r.pos + 2]
      ab == SubSeq(raw, r.pos + 3, r.pos + 2 + n)
  IN IF r.ok /\ r.pos + 2 <= Len(raw) /\ r.pos + 2 + n <= Len(raw) /\ ab \in Multiaddr
     THEN [pos |-> r.pos + 2 + n, addrs |-> Append(r.addrs, ab), ok |-> TRUE]
     ELSE [r EXCEPT !.ok = FALSE]

readAddrs(raw) ==
  LET after[k \in 0..raw[2]] == IF k = 0 THEN Reader ELSE readAddr(raw, after[k - 1])
  IN after[raw[2]]

\* DecodeInvite returns no error.  Nothing is asked of the number of addresses.
Decodable(raw) ==
  /\ Len(raw) >= 2
  /\ raw[1] = inviteVersion
  /\ readAddrs(raw).ok
  /\ readAddrs(raw).pos + pskLen <= Len(raw)

\* The label is what is left after the PSK.
DecodeInvite(raw) ==
  LET r == readAddrs(raw)
  IN [addrs |-> r.addrs,
      psk |-> SubSeq(raw, r.pos + 1, r.pos + pskLen),
      label |-> SubSeq(raw, r.pos + pskLen + 1, Len(raw))]
=============================================================================
