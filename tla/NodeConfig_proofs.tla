------------------------- MODULE NodeConfig_proofs --------------------------
(***************************************************************************)
(* Theorems about NodeConfig and the invite codes it hands out, for any       *)
(* number base and key length of the format, any addresses, keys, labels and  *)
(* invites, any number of handlers, edits and faults.                        *)
(***************************************************************************)
EXTENDS NodeConfig, SequenceTheorems, WellFoundedInduction, TLAPS

-----------------------------------------------------------------------------
(***************************************************************************)
(* Induction, as a property of sets.                                         *)
(***************************************************************************)

LEMMA LeastNatural ==
  ASSUME NEW T \in SUBSET Nat, T # {}
  PROVE  \E x \in T : \A y \in T : x <= y
<1> DEFINE R == {ss \in Nat \X Nat : ss[1] < ss[2]}
<1>1. IsWellFoundedOn(R, Nat)
  BY NatLessThanWellFounded, Zenon DEF OpToRel
<1>2. PICK x \in T : \A y \in T : ~(<<y, x>> \in R)
  <2> HIDE DEF R
  <2>1. QED
    BY <1>1, WFMin
<1>3. \A y \in T : ~(y < x)
  BY <1>2
<1>4. QED
  BY <1>3

\* A set that has 0 and, with each number below n, the next one.
LEMMA CountUp ==
  ASSUME NEW n \in Nat, NEW T, 0 \in T, \A k \in 1..n : k - 1 \in T => k \in T
  PROVE  0..n \subseteq T
<1> SUFFICES ASSUME (0..n) \ T # {} PROVE FALSE
  OBVIOUS
<1> DEFINE U == (0..n) \ T
<1>1. PICK x \in U : \A y \in U : x <= y
  <2>1. U \in SUBSET Nat /\ U # {}
    OBVIOUS
  <2> HIDE DEF U
  <2>2. QED
    BY <2>1, LeastNatural
<1>2. x \in 1..n /\ x - 1 \in 0..n /\ ~(x <= x - 1)
  BY <1>1
<1>3. x - 1 \in T
  BY <1>1, <1>2
<1>4. QED
  BY <1>1, <1>2, <1>3

\* The concatenations of the first parts of w.
LEMMA Concatenations ==
  ASSUME NEW n \in Nat, NEW w \in [1..n -> Seq(Nat)]
  PROVE  \E f \in [0..n -> Seq(Nat)] :
           f[0] = <<>> /\ \A k \in 1..n : f[k] = f[k - 1] \o w[k]
<1> DEFINE T == {m \in 0..n : \E f \in [0..m -> Seq(Nat)] :
                   f[0] = <<>> /\ \A k \in 1..m : f[k] = f[k - 1] \o w[k]}
<1>1. 0 \in T
  <2>1. PICK f : f = [k \in 0..0 |-> <<>>]
    OBVIOUS
  <2>2. f \in [0..0 -> Seq(Nat)] /\ f[0] = <<>>
    BY <2>1
  <2>3. 0 \in 0..n /\ 1..0 = {}
    OBVIOUS
  <2>4. QED
    BY <2>2, <2>3
<1>2. ASSUME NEW m \in 1..n, m - 1 \in T PROVE m \in T
  <2>1. PICK f \in [0..(m - 1) -> Seq(Nat)] :
          f[0] = <<>> /\ \A k \in 1..(m - 1) : f[k] = f[k - 1] \o w[k]
    BY <1>2
  <2>2. f[m - 1] \o w[m] \in Seq(Nat)
    BY ConcatProperties
  <2>3. PICK g : g = [k \in 0..m |-> IF k = m THEN f[m - 1] \o w[m] ELSE f[k]]
    OBVIOUS
  <2>4. g \in [0..m -> Seq(Nat)]
    BY <2>2, <2>3
  <2>5. g[0] = <<>>
    BY <2>1, <2>3
  <2>6. ASSUME NEW k \in 1..m PROVE g[k] = g[k - 1] \o w[k]
    <3>1. k - 1 \in 0..(m - 1) /\ g[k - 1] = f[k - 1]
      BY <2>3
    <3>2. CASE k = m
      <4>1. g[m] = f[m - 1] \o w[m]
        BY <2>3
      <4>2. QED
        BY <3>1, <3>2, <4>1
    <3>3. CASE k # m
      <4>1. k \in 1..(m - 1) /\ g[k] = f[k]
        BY <2>3, <3>3
      <4>2. QED
        BY <2>1, <3>1, <4>1
    <3>4. QED
      BY <3>2, <3>3
  <2>7. m \in 0..n
    OBVIOUS
  <2>8. QED
    BY <2>4, <2>5, <2>6, <2>7
<1>3. n \in T
  <2> HIDE DEF T
  <2>1. 0..n \subseteq T
    BY <1>1, <1>2, CountUp
  <2>2. QED
    BY <2>1
<1>4. QED
  BY <1>3

-----------------------------------------------------------------------------
(***************************************************************************)
(* The invite code.  IsUpTo(addrs, u) says that u[k] is the bytes of the    *)
(* first k addresses.                                                       *)
(***************************************************************************)

IsUpTo(addrs, u) ==
  u = [k \in 0..Len(addrs) |-> IF k = 0 THEN <<>> ELSE u[k - 1] \o withLength(addrs[k])]

LEMMA MultiaddrType ==
  ASSUME NEW ab \in Multiaddr
  PROVE  ab \in Seq(Nat) /\ Len(ab) \in Nat
<1>1. ab \in Seq(Byte) /\ Byte \subseteq Nat
  BY CodecAssumption DEF Byte
<1>2. QED
  BY <1>1, SeqMonotonic, LenProperties

LEMMA WithLength ==
  ASSUME NEW ab \in Multiaddr
  PROVE  /\ withLength(ab) \in Seq(Nat)
         /\ Len(withLength(ab)) = 2 + Len(ab)
         /\ withLength(ab)[1] * ByteBase + withLength(ab)[2] = Len(ab)
         /\ \A i \in 1..Len(ab) : withLength(ab)[2 + i] = ab[i]
<1> USE CodecAssumption
<1> DEFINE l == Len(ab)
           h == <<l \div ByteBase, l % ByteBase>>
<1>1. ab \in Seq(Nat) /\ l \in Nat
  BY MultiaddrType
<1> HIDE DEF l
<1>2. l \div ByteBase \in Nat /\ l % ByteBase \in Nat
      /\ (l \div ByteBase) * ByteBase + (l % ByteBase) = l
  BY <1>1
<1>3. h \in Seq(Nat) /\ Len(h) = 2 /\ h[1] = l \div ByteBase /\ h[2] = l % ByteBase
  BY <1>2
<1>4. withLength(ab) = h \o ab
  BY DEF withLength, l
<1> HIDE DEF h
<1>5. /\ h \o ab \in Seq(Nat)
      /\ Len(h \o ab) = Len(h) + Len(ab)
      /\ \A i \in 1..Len(h) + Len(ab) : (h \o ab)[i] = IF i <= Len(h) THEN h[i] ELSE ab[i - Len(h)]
  BY <1>1, <1>3, ConcatProperties
<1>6. withLength(ab)[1] = l \div ByteBase /\ withLength(ab)[2] = l % ByteBase
  BY <1>1, <1>3, <1>4, <1>5 DEF l
<1>7. ASSUME NEW i \in 1..Len(ab) PROVE withLength(ab)[2 + i] = ab[i]
  <2>1. 2 + i \in 1..(2 + Len(ab)) /\ ~(2 + i <= 2) /\ (2 + i) - 2 = i
    BY <1>1 DEF l
  <2>2. QED
    BY <1>3, <1>4, <1>5, <2>1
<1>8. QED
  BY <1>2, <1>3, <1>4, <1>5, <1>6, <1>7 DEF l

LEMMA UpToExists ==
  ASSUME NEW addrs \in Seq(Multiaddr)
  PROVE  \E u : IsUpTo(addrs, u) /\ addrBytes(addrs) = u[Len(addrs)]
<1> DEFINE n == Len(addrs)
           w == [k \in 1..n |-> withLength(addrs[k])]
<1>1. n \in Nat
  BY LenProperties
<1>2. w \in [1..n -> Seq(Nat)]
  BY ElementOfSeq, WithLength
<1>3. PICK f \in [0..n -> Seq(Nat)] : f[0] = <<>> /\ \A k \in 1..n : f[k] = f[k - 1] \o w[k]
  <2> HIDE DEF n, w
  <2>1. QED
    BY <1>1, <1>2, Concatenations
<1>4. \A k \in 1..n : f[k] = f[k - 1] \o withLength(addrs[k])
  BY <1>3
<1> HIDE DEF n, w
<1>5. ASSUME NEW k \in 0..n
      PROVE  f[k] = IF k = 0 THEN <<>> ELSE f[k - 1] \o withLength(addrs[k])
  <2>1. CASE k = 0
    BY <1>3, <2>1
  <2>2. CASE k # 0
    <3>1. k \in 1..n
      BY <1>1, <2>2
    <3>2. QED
      BY <1>4, <2>2, <3>1
  <2>3. QED
    BY <2>1, <2>2
<1>6. f = [k \in 0..n |-> IF k = 0 THEN <<>> ELSE f[k - 1] \o withLength(addrs[k])]
  BY <1>3, <1>5
<1> DEFINE c == CHOOSE g : g = [k \in 0..n |-> IF k = 0 THEN <<>> ELSE g[k - 1] \o withLength(addrs[k])]
<1>7. c = [k \in 0..n |-> IF k = 0 THEN <<>> ELSE c[k - 1] \o withLength(addrs[k])]
  BY <1>6
<1>8. addrBytes(addrs) = c[n]
  BY DEF addrBytes, n
<1>9. QED
  BY <1>7, <1>8 DEF IsUpTo, n

\* Each concatenation is the beginning of the next.
LEMMA UpToFacts ==
  ASSUME NEW addrs \in Seq(Multiaddr), NEW u, IsUpTo(addrs, u)
  PROVE  /\ u[0] = <<>>
         /\ \A k \in 1..Len(addrs) : u[k] = u[k - 1] \o withLength(addrs[k])
         /\ \A k \in 0..Len(addrs) : u[k] \in Seq(Nat) /\ Len(u[k]) \in Nat
<1>1. Len(addrs) \in Nat
  BY LenProperties
<1>2. u[0] = <<>>
  BY <1>1 DEF IsUpTo
<1>3. ASSUME NEW k \in 1..Len(addrs) PROVE u[k] = u[k - 1] \o withLength(addrs[k])
  <2>1. k \in 0..Len(addrs) /\ k # 0
    BY <1>1
  <2>2. QED
    BY <2>1 DEF IsUpTo
<1> DEFINE T == {k \in 0..Len(addrs) : u[k] \in Seq(Nat)}
<1>4. 0 \in T
  <2>1. 0 \in 0..Len(addrs) /\ <<>> \in Seq(Nat)
    BY <1>1
  <2>2. QED
    BY <1>2, <2>1
<1>5. ASSUME NEW k \in 1..Len(addrs), k - 1 \in T PROVE k \in T
  <2>1. addrs[k] \in Multiaddr
    BY ElementOfSeq
  <2>2. withLength(addrs[k]) \in Seq(Nat) /\ u[k - 1] \in Seq(Nat)
    BY <1>5, <2>1, WithLength
  <2>3. u[k - 1] \o withLength(addrs[k]) \in Seq(Nat)
    BY <2>2, ConcatProperties
  <2>4. u[k] \in Seq(Nat)
    BY <1>3, <2>3, Zenon
  <2>5. k \in 0..Len(addrs)
    BY <1>1
  <2>6. QED
    BY <2>4, <2>5
<1>6. 0..Len(addrs) \subseteq T
  <2> HIDE DEF T
  <2>1. QED
    BY <1>1, <1>4, <1>5, CountUp
<1>7. \A k \in 0..Len(addrs) : u[k] \in Seq(Nat) /\ Len(u[k]) \in Nat
  BY <1>6, LenProperties
<1>8. QED
  BY <1>2, <1>3, <1>7

LEMMA UpToPrefix ==
  ASSUME NEW addrs \in Seq(Multiaddr), NEW u, IsUpTo(addrs, u), NEW k \in 0..Len(addrs)
  PROVE  /\ Len(u[k]) <= Len(u[Len(addrs)])
         /\ \A i \in 1..Len(u[k]) : u[Len(addrs)][i] = u[k][i]
<1> DEFINE n == Len(addrs)
           Begins(m) == Len(u[k]) <= Len(u[m]) /\ \A i \in 1..Len(u[k]) : u[m][i] = u[k][i]
           T == {m \in 0..n : k <= m => Begins(m)}
<1>1. n \in Nat /\ k \in Nat
  BY LenProperties
<1>2. \A m \in 0..n : u[m] \in Seq(Nat) /\ Len(u[m]) \in Nat
  BY UpToFacts
<1>3. Begins(k)
  BY <1>2
<1>4. 0 \in T
  BY <1>1, <1>3
<1>5. ASSUME NEW m \in 1..n, m - 1 \in T PROVE m \in T
  <2>1. CASE k > m - 1
    BY <1>1, <1>3, <2>1
  <2>2. CASE k <= m - 1
    <3> DEFINE a == u[m - 1]
               b == withLength(addrs[m])
    <3>1. addrs[m] \in Multiaddr
      BY ElementOfSeq
    <3>2. b \in Seq(Nat) /\ Len(b) \in Nat /\ a \in Seq(Nat) /\ Len(a) \in Nat
      <4>1. m - 1 \in 0..n
        BY <1>1
      <4>2. Len(addrs[m]) \in Nat
        BY <3>1, MultiaddrType
      <4>3. b \in Seq(Nat) /\ Len(b) = 2 + Len(addrs[m])
        BY <3>1, WithLength
      <4>4. QED
        BY <1>2, <4>1, <4>2, <4>3
    <3>3. u[m] = a \o b
      BY UpToFacts
    <3>4. Len(u[k]) <= Len(a) /\ \A i \in 1..Len(u[k]) : a[i] = u[k][i]
      BY <1>5, <2>2
    <3>5. Len(u[k]) \in Nat
      BY <1>2
    <3> HIDE DEF a, b
    <3>6. /\ Len(a \o b) = Len(a) + Len(b)
          /\ \A i \in 1..Len(a) + Len(b) : (a \o b)[i] = IF i <= Len(a) THEN a[i] ELSE b[i - Len(a)]
      BY <3>2, ConcatProperties
    <3>7. Len(u[k]) <= Len(a) + Len(b)
      BY <3>2, <3>4, <3>5
    <3>8. ASSUME NEW i \in 1..Len(u[k]) PROVE (a \o b)[i] = u[k][i]
      <4>1. i \in 1..Len(a) + Len(b) /\ i <= Len(a)
        BY <3>2, <3>4, <3>5
      <4>2. QED
        BY <3>4, <3>6, <4>1
    <3>9. QED
      BY <1>1, <3>3, <3>6, <3>7, <3>8
  <2>3. QED
    BY <1>1, <2>1, <2>2
<1>6. n \in T
  <2> HIDE DEF T, n
  <2>1. 0..n \subseteq T
    BY <1>1, <1>4, <1>5, CountUp
  <2>2. QED
    BY <1>1, <2>1
<1>7. QED
  BY <1>1, <1>6

\* The part of s that is b.
LEMMA Cut ==
  ASSUME NEW s \in Seq(Nat), NEW b \in Seq(Nat), NEW l \in Nat, l + Len(b) <= Len(s),
         \A i \in 1..Len(b) : s[l + i] = b[i],
         NEW m, NEW n, m = l + 1, n = l + Len(b)
  PROVE  SubSeq(s, m, n) = b
<1>1. Len(b) \in Nat /\ Len(s) \in Nat
  BY LenProperties
<1>2. m \in Int /\ n \in Int /\ n - m + 1 = Len(b)
  BY <1>1
<1>3. PICK t : t = SubSeq(s, m, n)
  OBVIOUS
<1>4. \A i \in m..n : s[i] \in Nat
  <2>1. \A i \in m..n : i \in 1..Len(s)
    BY <1>1, <1>2
  <2>2. QED
    BY <2>1, ElementOfSeq
<1>5. /\ t \in Seq(Nat) /\ Len(t) = IF m <= n THEN n - m + 1 ELSE 0
      /\ \A i \in 1..n - m + 1 : t[i] = s[m + i - 1]
  BY <1>2, <1>3, <1>4, SubSeqProperties
<1>6. Len(t) = Len(b)
  BY <1>1, <1>2, <1>5
<1>7. ASSUME NEW i \in 1..Len(t) PROVE t[i] = b[i]
  <2>1. i \in 1..Len(b) /\ i \in 1..n - m + 1 /\ m + i - 1 = l + i
    BY <1>1, <1>2, <1>6
  <2>2. QED
    BY <1>5, <2>1
<1>8. t = b
  BY <1>5, <1>6, <1>7, SeqEqual
<1>9. QED
  BY <1>3, <1>8

-----------------------------------------------------------------------------
\* What the reader has when it has read k addresses.
AfterReading(addrs, u, k) ==
  [pos |-> 2 + Len(u[k]), addrs |-> SubSeq(addrs, 1, k), ok |-> TRUE]

\* raw has the addresses after its first two bytes.
Carries(raw, addrs, u) ==
  /\ raw \in Seq(Nat)
  /\ 2 + Len(u[Len(addrs)]) <= Len(raw)
  /\ \A i \in 1..Len(u[Len(addrs)]) : raw[2 + i] = u[Len(addrs)][i]

LEMMA ReadOne ==
  ASSUME NEW addrs \in Seq(Multiaddr), NEW u, IsUpTo(addrs, u),
         NEW raw, Carries(raw, addrs, u), NEW k \in 1..Len(addrs)
  PROVE  readAddr(raw, AfterReading(addrs, u, k - 1)) = AfterReading(addrs, u, k)
<1> DEFINE n == Len(addrs)
           a == u[k - 1]
           ab == addrs[k]
           w == withLength(ab)
           p == 2 + Len(a)
<1>1. n \in Nat /\ k - 1 \in 0..n /\ k \in 0..n /\ ab \in Multiaddr
  BY LenProperties, ElementOfSeq
<1>2. /\ a \in Seq(Nat) /\ Len(a) \in Nat /\ u[k] = a \o w
      /\ Len(u[k]) \in Nat /\ Len(u[n]) \in Nat
  <2>1. u[k] = a \o w
    BY UpToFacts
  <2>2. \A j \in 0..n : u[j] \in Seq(Nat) /\ Len(u[j]) \in Nat
    BY UpToFacts
  <2>3. n \in 0..n
    BY <1>1
  <2>4. QED
    BY <1>1, <2>1, <2>2, <2>3, Zenon
<1>3. /\ w \in Seq(Nat) /\ Len(w) = 2 + Len(ab) /\ w[1] * ByteBase + w[2] = Len(ab)
      /\ \A i \in 1..Len(ab) : w[2 + i] = ab[i]
  BY <1>1, WithLength
<1>4. Len(ab) \in Nat /\ ab \in Seq(Nat)
  BY <1>1, MultiaddrType
<1>5. Len(u[k]) <= Len(u[n]) /\ \A i \in 1..Len(u[k]) : u[n][i] = u[k][i]
  BY <1>1, UpToPrefix
<1>6. /\ raw \in Seq(Nat) /\ Len(raw) \in Nat /\ 2 + Len(u[n]) <= Len(raw)
      /\ \A i \in 1..Len(u[n]) : raw[2 + i] = u[n][i]
  BY LenProperties DEF Carries
<1> HIDE DEF n, a, ab, w
<1>7. /\ Len(a \o w) = Len(a) + Len(w)
      /\ \A i \in 1..Len(a) + Len(w) : (a \o w)[i] = IF i <= Len(a) THEN a[i] ELSE w[i - Len(a)]
  <2>1. a \in Seq(Nat) /\ w \in Seq(Nat)
    BY <1>2, <1>3
  <2>2. QED
    BY <2>1, ConcatProperties
<1>8. Len(u[k]) = Len(a) + 2 + Len(ab)
  BY <1>2, <1>3, <1>4, <1>7
<1>9. ASSUME NEW i \in 1..(2 + Len(ab)) PROVE raw[p + i] = w[i]
  <2>1. /\ Len(a) + i \in 1..Len(a) + Len(w) /\ ~(Len(a) + i <= Len(a)) /\ (Len(a) + i) - Len(a) = i
    BY <1>2, <1>3, <1>4
  <2>2. (a \o w)[Len(a) + i] = w[i]
    BY <1>7, <2>1
  <2>3. Len(a) + i \in 1..Len(u[k]) /\ Len(a) + i \in 1..Len(u[n])
    BY <1>2, <1>4, <1>5, <1>8
  <2>4. raw[2 + (Len(a) + i)] = w[i]
    BY <1>2, <1>5, <1>6, <2>2, <2>3
  <2>5. 2 + (Len(a) + i) = p + i
    BY <1>2
  <2>6. QED
    BY <2>4, <2>5
<1>10. raw[p + 1] = w[1] /\ raw[p + 2] = w[2]
  BY <1>4, <1>9
<1>11. raw[p + 1] * ByteBase + raw[p + 2] = Len(ab)
  BY <1>3, <1>10
<1>12. p \in Nat /\ p + 2 <= Len(raw) /\ p + 2 + Len(ab) <= Len(raw)
  <2>1. Len(a) \in Nat /\ Len(u[k]) \in Nat /\ Len(u[n]) \in Nat /\ Len(u[k]) <= Len(u[n])
    BY <1>2, <1>5
  <2>2. Len(raw) \in Nat /\ 2 + Len(u[n]) <= Len(raw)
    BY <1>6
  <2>3. QED
    BY <1>4, <1>8, <2>1, <2>2
<1> HIDE DEF p
<1>13. SubSeq(raw, p + 3, p + 2 + Len(ab)) = ab
  <2>1. \A i \in 1..Len(ab) : 2 + i \in 1..(2 + Len(ab)) /\ p + (2 + i) = (p + 2) + i
    BY <1>4, <1>12
  <2>2. \A i \in 1..Len(ab) : raw[(p + 2) + i] = ab[i]
    BY <1>3, <1>9, <2>1
  <2>3. p + 2 \in Nat /\ p + 3 = (p + 2) + 1
    BY <1>12
  <2>4. QED
    BY <1>4, <1>6, <1>12, <2>2, <2>3, Cut
<1> DEFINE before == AfterReading(addrs, u, k - 1)
<1>14. before.pos = p /\ before.ok = TRUE /\ before.addrs = SubSeq(addrs, 1, k - 1)
  BY DEF AfterReading, p, a
<1>15. Append(SubSeq(addrs, 1, k - 1), ab) = SubSeq(addrs, 1, k)
  <2>1. 1 \in 1..Len(addrs) /\ k \in 1..Len(addrs)
    BY <1>1 DEF n
  <2>2. SubSeq(addrs, 1, k) = SubSeq(addrs, 1, k - 1) \o <<addrs[k]>>
    BY <2>1, SubSeqRecursiveSecond
  <2>3. SubSeq(addrs, 1, k - 1) \in Seq(Multiaddr)
    OBVIOUS
  <2>4. QED
    BY <2>2, <2>3 DEF ab
<1> HIDE DEF before
<1>16. readAddr(raw, before) =
         [pos |-> p + 2 + Len(ab), addrs |-> Append(SubSeq(addrs, 1, k - 1), ab), ok |-> TRUE]
  BY <1>1, <1>11, <1>12, <1>13, <1>14 DEF readAddr
<1>17. p + 2 + Len(ab) = 2 + Len(u[k])
  BY <1>2, <1>4, <1>8 DEF p
<1>18. QED
  BY <1>15, <1>16, <1>17 DEF AfterReading, before

LEMMA ReadAll ==
  ASSUME NEW addrs \in Seq(Multiaddr), NEW u, IsUpTo(addrs, u),
         NEW raw, Carries(raw, addrs, u), raw[2] = Len(addrs)
  PROVE  readAddrs(raw) = AfterReading(addrs, u, Len(addrs))
<1> DEFINE n == Len(addrs)
           st(k) == AfterReading(addrs, u, k)
<1>1. n \in Nat
  BY LenProperties
<1>2. st(0) = Reader
  <2>1. u[0] = <<>>
    BY UpToFacts
  <2>2. SubSeq(addrs, 1, 0) = <<>>
    BY SubSeqEmpty
  <2>3. 2 + Len(u[0]) = 2
    BY <2>1
  <2>4. QED
    BY <2>2, <2>3 DEF AfterReading, Reader
<1>3. \A k \in 1..n : st(k) = readAddr(raw, st(k - 1))
  BY ReadOne
<1> DEFINE Fun(g) == [k \in 0..n |-> IF k = 0 THEN Reader ELSE readAddr(raw, g[k - 1])]
           c == CHOOSE g : g = Fun(g)
<1>4. c = Fun(c)
  <2>1. PICK f : f = [k \in 0..n |-> st(k)]
    OBVIOUS
  <2>2. ASSUME NEW k \in 0..n
        PROVE  st(k) = IF k = 0 THEN Reader ELSE readAddr(raw, f[k - 1])
    <3>1. CASE k = 0
      BY <1>2, <3>1
    <3>2. CASE k # 0
      <4>1. k \in 1..n /\ k - 1 \in 0..n
        BY <1>1, <3>2
      <4>2. f[k - 1] = st(k - 1)
        BY <2>1, <4>1
      <4>3. QED
        BY <1>3, <3>2, <4>1, <4>2
    <3>3. QED
      BY <3>1, <3>2
  <2>3. f = Fun(f)
    BY <2>1, <2>2
  <2>4. QED
    BY <2>3
<1>5. readAddrs(raw) = c[n]
  BY DEF readAddrs
<1> HIDE DEF c, st
<1> DEFINE T == {k \in 0..n : c[k] = st(k)}
<1>6. 0 \in T
  <2>1. 0 \in 0..n
    BY <1>1
  <2>2. c[0] = Reader
    BY <1>4, <2>1
  <2>3. QED
    BY <1>2, <2>1, <2>2
<1>7. ASSUME NEW k \in 1..n, k - 1 \in T PROVE k \in T
  <2>1. k \in 0..n /\ k # 0
    BY <1>1
  <2>2. c[k] = readAddr(raw, c[k - 1])
    BY <1>4, <2>1
  <2>3. QED
    BY <1>3, <1>7, <2>1, <2>2
<1>8. n \in T
  <2> HIDE DEF T, n
  <2>1. 0..n \subseteq T
    BY <1>1, <1>6, <1>7, CountUp
  <2>2. QED
    BY <1>1, <2>1
<1>9. QED
  BY <1>5, <1>8 DEF st

\* The second and the third of three parts.
LEMMA Parts ==
  ASSUME NEW a \in Seq(Nat), NEW b \in Seq(Nat), NEW c \in Seq(Nat), NEW s, s = (a \o b) \o c
  PROVE  /\ s \in Seq(Nat)
         /\ Len(s) = Len(a) + Len(b) + Len(c)
         /\ \A i \in 1..Len(a) : s[i] = a[i]
         /\ SubSeq(s, Len(a) + 1, Len(a) + Len(b)) = b
         /\ SubSeq(s, Len(a) + Len(b) + 1, Len(s)) = c
<1>1. Len(a) \in Nat /\ Len(b) \in Nat /\ Len(c) \in Nat
  BY LenProperties
<1>2. PICK ab : ab = a \o b
  OBVIOUS
<1>3. /\ ab \in Seq(Nat) /\ Len(ab) = Len(a) + Len(b)
      /\ \A i \in 1..Len(a) + Len(b) : ab[i] = IF i <= Len(a) THEN a[i] ELSE b[i - Len(a)]
  BY <1>2, ConcatProperties
<1>4. /\ s \in Seq(Nat) /\ Len(s) = Len(ab) + Len(c)
      /\ \A i \in 1..Len(ab) + Len(c) : s[i] = IF i <= Len(ab) THEN ab[i] ELSE c[i - Len(ab)]
  BY <1>2, <1>3, ConcatProperties
<1>5. Len(s) = Len(a) + Len(b) + Len(c)
  BY <1>1, <1>3, <1>4
<1>6. \A i \in 1..Len(a) : s[i] = a[i]
  BY <1>1, <1>3, <1>4
<1>7. \A i \in 1..Len(b) : s[Len(a) + i] = b[i]
  <2>1. ASSUME NEW i \in 1..Len(b) PROVE s[Len(a) + i] = b[i]
    <3>1. /\ Len(a) + i \in 1..Len(a) + Len(b) /\ Len(a) + i \in 1..Len(ab) + Len(c)
          /\ Len(a) + i <= Len(ab) /\ ~(Len(a) + i <= Len(a)) /\ (Len(a) + i) - Len(a) = i
      BY <1>1, <1>3
    <3>2. QED
      BY <1>3, <1>4, <3>1
  <2>2. QED
    BY <2>1
<1>8. \A i \in 1..Len(c) : s[Len(a) + Len(b) + i] = c[i]
  <2>1. ASSUME NEW i \in 1..Len(c) PROVE s[Len(a) + Len(b) + i] = c[i]
    <3>1. /\ Len(ab) + i \in 1..Len(ab) + Len(c) /\ Len(ab) + i = Len(a) + Len(b) + i
          /\ ~(Len(ab) + i <= Len(ab)) /\ (Len(ab) + i) - Len(ab) = i
      BY <1>1, <1>3
    <3>2. QED
      BY <1>4, <3>1
  <2>2. QED
    BY <2>1
<1>9. SubSeq(s, Len(a) + 1, Len(a) + Len(b)) = b
  <2>1. Len(a) + Len(b) <= Len(s)
    BY <1>1, <1>5
  <2>2. QED
    BY <1>1, <1>4, <1>7, <2>1, Cut
<1>10. SubSeq(s, Len(a) + Len(b) + 1, Len(s)) = c
  <2>1. Len(a) + Len(b) \in Nat /\ (Len(a) + Len(b)) + Len(c) <= Len(s)
    BY <1>1, <1>5
  <2>2. QED
    BY <1>4, <1>5, <1>8, <2>1, Cut
<1>11. QED
  BY <1>4, <1>5, <1>6, <1>9, <1>10

LEMMA OneDigit == \A k \in 1..(ByteBase - 1) : k % ByteBase = k
<1> SUFFICES ASSUME NEW b \in Nat \ {0, 1}, NEW k \in 1..(b - 1) PROVE k % b = k
  BY CodecAssumption
<1>1. k % b \in 0..(b - 1) /\ k \div b \in Nat /\ k = b * (k \div b) + (k % b)
  OBVIOUS
<1>2. k \div b = 0
  OBVIOUS
<1>3. QED
  BY <1>1, <1>2

\* What EncodeInvite writes DecodeInvite reads, whatever the addresses, the key and
\* the label are.
LEMMA RoundTrip ==
  ASSUME NEW addrs \in Seq(Multiaddr), NEW psk \in Seq(Nat), NEW label \in Seq(Nat),
         NEW inv, inv = [addrs |-> addrs, psk |-> psk, label |-> label], Encodable(inv)
  PROVE  Decodable(EncodeInvite(inv)) /\ DecodeInvite(EncodeInvite(inv)) = inv
<1> USE CodecAssumption
<1>1. inv.addrs = addrs /\ inv.psk = psk /\ inv.label = label
  OBVIOUS
<1>2. Len(psk) = pskLen /\ Len(addrs) \in 1..(ByteBase - 1) /\ Len(label) \in Nat
  BY <1>1, LenProperties DEF Encodable
<1>3. PICK u : IsUpTo(addrs, u) /\ addrBytes(addrs) = u[Len(addrs)]
  BY UpToExists
<1>4. PICK bytes : bytes = u[Len(addrs)]
  OBVIOUS
<1>5. bytes \in Seq(Nat) /\ Len(bytes) \in Nat
  <2>1. Len(addrs) \in 0..Len(addrs)
    BY <1>2
  <2>2. QED
    BY <1>3, <1>4, <2>1, UpToFacts
<1>6. Len(addrs) % ByteBase = Len(addrs)
  <2>1. PICK k : k = Len(addrs)
    OBVIOUS
  <2>2. k \in 1..(ByteBase - 1)
    BY <1>2, <2>1
  <2>3. k % ByteBase = k
    BY <2>2, OneDigit
  <2>4. QED
    BY <2>1, <2>3
<1>7. PICK head : head = <<1, Len(addrs)>>
  OBVIOUS
<1>8. head \in Seq(Nat) /\ Len(head) = 2 /\ head[1] = 1 /\ head[2] = Len(addrs)
  BY <1>2, <1>7
<1>9. PICK front : front = head \o bytes
  OBVIOUS
<1>10. /\ front \in Seq(Nat) /\ Len(front) = 2 + Len(bytes)
       /\ \A i \in 1..2 + Len(bytes) : front[i] = IF i <= 2 THEN head[i] ELSE bytes[i - 2]
  <2>1. head \in Seq(Nat) /\ Len(head) = 2
    BY <1>8
  <2>2. /\ head \o bytes \in Seq(Nat) /\ Len(head \o bytes) = Len(head) + Len(bytes)
        /\ \A i \in 1..Len(head) + Len(bytes) :
             (head \o bytes)[i] = IF i <= Len(head) THEN head[i] ELSE bytes[i - Len(head)]
    BY <1>5, <2>1, ConcatProperties
  <2>3. QED
    BY <1>9, <2>1, <2>2
<1>11. PICK raw : raw = (front \o psk) \o label
  OBVIOUS
<1>12. EncodeInvite(inv) = raw
  BY <1>1, <1>3, <1>4, <1>6, <1>7, <1>9, <1>11, Zenon DEF EncodeInvite, inviteVersion
<1>13. /\ raw \in Seq(Nat)
       /\ Len(raw) = Len(front) + Len(psk) + Len(label)
       /\ \A i \in 1..Len(front) : raw[i] = front[i]
       /\ SubSeq(raw, Len(front) + 1, Len(front) + Len(psk)) = psk
       /\ SubSeq(raw, Len(front) + Len(psk) + 1, Len(raw)) = label
  <2>1. front \in Seq(Nat)
    BY <1>10
  <2>2. QED
    BY <1>11, <2>1, Parts
<1>14. raw[1] = 1 /\ raw[2] = Len(addrs)
  <2>1. 1 \in 1..2 + Len(bytes) /\ 2 \in 1..2 + Len(bytes)
    BY <1>5
  <2>2. front[1] = head[1] /\ front[2] = head[2]
    BY <1>10, <2>1
  <2>3. raw[1] = front[1] /\ raw[2] = front[2]
    BY <1>10, <1>13, <2>1
  <2>4. QED
    BY <1>8, <2>2, <2>3
<1>15. Carries(raw, addrs, u)
  <2>1. 2 + Len(bytes) <= Len(raw)
    BY <1>2, <1>5, <1>10, <1>13
  <2>2. ASSUME NEW i \in 1..Len(bytes) PROVE raw[2 + i] = bytes[i]
    <3>1. 2 + i \in 1..2 + Len(bytes) /\ ~(2 + i <= 2) /\ (2 + i) - 2 = i /\ 2 + i \in 1..Len(front)
      BY <1>5, <1>10
    <3>2. QED
      BY <1>10, <1>13, <3>1
  <2>3. QED
    BY <1>4, <1>13, <2>1, <2>2 DEF Carries
<1>16. readAddrs(raw) = AfterReading(addrs, u, Len(addrs))
  BY <1>3, <1>14, <1>15, ReadAll
<1>17. SubSeq(addrs, 1, Len(addrs)) = addrs
  BY SubSeqFull
<1>18. /\ readAddrs(raw).pos = Len(front) /\ readAddrs(raw).addrs = addrs
       /\ readAddrs(raw).ok = TRUE
  BY <1>4, <1>10, <1>16, <1>17 DEF AfterReading
<1>19. Len(raw) >= 2 /\ Len(front) + pskLen <= Len(raw)
  BY <1>2, <1>5, <1>10, <1>13
<1>20. Decodable(raw)
  BY <1>14, <1>18, <1>19 DEF Decodable, inviteVersion
<1>21. DecodeInvite(raw) = [addrs |-> addrs, psk |-> psk, label |-> label]
  BY <1>2, <1>13, <1>18 DEF DecodeInvite
<1>22. QED
  BY <1>12, <1>20, <1>21
-----------------------------------------------------------------------------
(***************************************************************************)
(* Types: TypeOK, with the domains of handler and keyFile.                    *)
(***************************************************************************)

PC == {"idle", "psk", "pskWrite", "apply", "append", "save", "saveWrite"}

Listed == Multiaddr \cup {CutAddr}

HandlerState ==
  [pc : PC, inv : Invite \cup {Nothing}, list : SUBSET Listed, text : Config]

PSKFile == FileOf(PSK)

KeyFile == FileOf(Identity)

Types ==
  /\ yaml \in ConfigFile
  /\ pskFile \in PSKFile
  /\ keyFile \in [KeyPath -> KeyFile]
  /\ proc \in {"down", "identity", "psk", "up"}
  /\ cfg \in Config
  /\ proc \in {"psk", "up"} => run.id \in Identity
  /\ proc = "up" /\ run.mode = "private" => run.psk \in PSK
  /\ handler \in [Handler -> HandlerState]
  /\ \A h \in Handler : handler[h].pc # "idle" => proc = "up" /\ handler[h].inv \in Invite
  /\ edits \in 0..MaxEdits /\ faults \in 0..MaxFaults
  /\ born \subseteq [key : KeyPath, id : Identity] /\ paths \subseteq KeyPath
  /\ cut \in BOOLEAN /\ wasPrivate \in BOOLEAN
  /\ alone \subseteq Handler
  /\ joined = Nothing \/ joined \in Invite

LEMMA TypesImply == Types => TypeOK
<1> SUFFICES ASSUME Types PROVE TypeOK
  OBVIOUS
<1>1. ASSUME NEW h \in Handler
      PROVE  /\ handler[h].pc \in PC
             /\ handler[h].list \subseteq Multiaddr \cup {CutAddr}
             /\ handler[h].text \in Config
  <2>1. handler[h] \in HandlerState
    BY DEF Types
  <2>2. QED
    BY <2>1 DEF HandlerState, Listed
<1>2. QED
  BY <1>1 DEF Types, TypeOK, PC, PSKFile, KeyFile

\* What is in a whole file.
LEMMA WholeFacts ==
  /\ \A x, y : Whole(x) = Whole(y) => x = y
  /\ \A x : Whole(x).is = "whole" /\ Whole(x).x = x /\ Whole(x) # Absent /\ Whole(x) # Garbled
  /\ Absent # Garbled /\ Absent.is = "absent" /\ Garbled.is = "garbled"
<1>1. \A x : Whole(x).is = "whole" /\ Whole(x).x = x
  BY DEF Whole
<1>2. Absent.is = "absent" /\ Garbled.is = "garbled"
  BY DEF Absent, Garbled
<1>3. \A x, y : Whole(x) = Whole(y) => x = y
  <2>1. ASSUME NEW x, NEW y, Whole(x) = Whole(y) PROVE x = y
    <3>1. Whole(x).x = Whole(y).x
      BY <2>1
    <3>2. QED
      BY <1>1, <3>1
  <2>2. QED
    BY <2>1
<1>4. QED
  BY <1>1, <1>2, <1>3

LEMMA FileCases ==
  /\ \A f \in ConfigFile : f.is = "whole" => f.x \in Config /\ f = Whole(f.x)
  /\ \A f \in PSKFile : f.is = "whole" => f.x \in PSK /\ f = Whole(f.x)
  BY WholeFacts DEF ConfigFile, FileOf, PSKFile

LEMMA DefaultType == Default \in Config
  BY ConfigAssumption DEF Default, Config, Mode

LEMMA BeginningTypes ==
  ASSUME NEW c \in Config
  PROVE  beginnings(c) \subseteq Config /\ cutShort(c) \subseteq ConfigFile
<1> USE ConfigAssumption
<1>1. ASSUME NEW k \in KeyPath PROVE [Default EXCEPT !.key = k] \in Config
  BY DEF Default, Config, Mode
<1>2. ASSUME NEW n \in 0..Len(c.net)
      PROVE  [Default EXCEPT !.key = c.key, !.mode = c.mode, !.net = SubSeq(c.net, 1, n)] \in Config
  <2>1. c.net \in Label \cup {NoLabel}
    BY DEF Config
  <2>2. SubSeq(c.net, 1, n) \in Label \cup {NoLabel}
    <3>1. c.net \in Seq(Byte)
      BY <2>1, EmptySeq DEF NoLabel
    <3>2. Len(c.net) \in Nat
      BY <3>1, LenProperties
    <3>3. CASE n = 0
      <4>1. SubSeq(c.net, 1, 0) = <<>>
        BY <3>1, SubSeqEmpty
      <4>2. QED
        BY <3>3, <4>1 DEF NoLabel
    <3>4. CASE n # 0 /\ c.net \in Label
      BY <3>2, <3>4
    <3>5. CASE n # 0 /\ c.net = NoLabel
      BY <3>5, EmptySeq DEF NoLabel
    <3>6. QED
      BY <2>1, <3>3, <3>4, <3>5
  <2>3. QED
    BY <2>2 DEF Default, Config, Mode
<1>3. ASSUME NEW ps \in leftOf(c.peers) PROVE [c EXCEPT !.peers = ps, !.token = NoToken] \in Config
  <2>1. ps \in SUBSET (Multiaddr \cup {CutAddr})
    BY DEF leftOf, Config
  <2>2. QED
    BY <2>1 DEF Config
<1>4. ASSUME NEW t \in Token \cup {NoToken} PROVE [c EXCEPT !.token = t] \in Config
  BY DEF Config
<1>5. beginnings(c) \subseteq Config
  BY <1>1, <1>2, <1>3, <1>4 DEF beginnings
<1>6. QED
  BY <1>5 DEF cutShort, ConfigFile, FileOf

LEMMA StrippedFacts ==
  ASSUME NEW c \in Config
  PROVE  /\ stripped(c) \in Config
         /\ stripped(c).mode = c.mode /\ stripped(c).key = c.key
         /\ c.mode = "public" => stripped(c).token = NoToken
         /\ c.mode # "public" => stripped(c) = c
<1>1. CASE c.mode = "public"
  <2>1. stripped(c) = [c EXCEPT !.token = NoToken]
    BY <1>1 DEF stripped
  <2>2. QED
    BY <1>1, <2>1 DEF Config
<1>2. CASE c.mode # "public"
  BY <1>2 DEF stripped
<1>3. QED
  BY <1>1, <1>2

SaysPrivate(f) == f.is = "whole" /\ f.x.mode = "private"

\* What a start makes of config.yaml.
LEMMA LoadFacts ==
  ASSUME Types, Load
  PROVE  /\ proc = "down" /\ yaml # Garbled
         /\ UNCHANGED <<pskFile, keyFile, run, handler, edits, born, paths, wasPrivate, alone, joined>>
         /\ \/ /\ proc' = "identity" /\ cfg' \in Config /\ yaml' = Whole(cfg')
               /\ cfg'.mode = "public" => cfg'.token = NoToken
               /\ SaysPrivate(yaml) => yaml' = yaml
               /\ yaml # Absent => yaml.is = "whole" /\ cfg'.key = yaml.x.key
               /\ UNCHANGED <<faults, cut>>
            \/ /\ proc' = "down" /\ cfg' = cfg /\ yaml' \in ConfigFile
               /\ cut' = TRUE
               /\ ~SaysPrivate(yaml)
               /\ faults < MaxFaults /\ faults' = faults + 1
<1>1. PICK read \in parsed(yaml) :
        LET c == stripped(read)
            saves == yaml.is = "absent" \/ c # read
        IN \/ /\ valid(c)
              /\ cfg' = c
              /\ yaml' = IF saves THEN Whole(c) ELSE yaml
              /\ proc' = "identity"
              /\ UNCHANGED <<bounds, cut>>
           \/ /\ saves
              /\ faults < MaxFaults /\ faults' = faults + 1
              /\ yaml' \in cutShort(c)
              /\ cut' = TRUE
              /\ UNCHANGED <<proc, cfg, edits>>
  BY DEF Load
<1>2. /\ proc = "down"
      /\ UNCHANGED <<pskFile, keyFile, run, handler, born, paths, wasPrivate, alone, joined>>
  BY DEF Load
<1>3. yaml \in ConfigFile
  BY DEF Types
<1>4. /\ yaml # Garbled /\ read \in Config
      /\ yaml.is = "absent" \/ (yaml.is = "whole" /\ yaml = Whole(read) /\ yaml.x = read)
  <2>1. yaml.is = "absent" \/ yaml.is = "whole"
    BY DEF parsed
  <2>2. CASE yaml.is = "absent"
    BY <2>2, WholeFacts, DefaultType DEF parsed
  <2>3. CASE yaml.is = "whole"
    <3>1. read = yaml.x
      BY <2>3 DEF parsed
    <3>2. QED
      BY <1>3, <2>3, <3>1, FileCases, WholeFacts
  <2>4. QED
    BY <2>1, <2>2, <2>3
<1>5. PICK c : c = stripped(read)
  OBVIOUS
<1>6. /\ c \in Config /\ c.mode = read.mode /\ c.key = read.key
      /\ c.mode = "public" => c.token = NoToken
      /\ c.mode # "public" => c = read
  BY <1>4, <1>5, StrippedFacts
<1>7. SaysPrivate(yaml) => yaml.is # "absent" /\ c = read
  BY <1>4, <1>6, WholeFacts DEF SaysPrivate
<1>8. CASE /\ cfg' = c /\ proc' = "identity" /\ UNCHANGED <<bounds, cut>>
           /\ yaml' = IF yaml.is = "absent" \/ c # read THEN Whole(c) ELSE yaml
  <2>1. yaml' = Whole(c)
    BY <1>4, <1>8
  <2>2. SaysPrivate(yaml) => yaml' = yaml
    BY <1>7, <1>8
  <2>3. UNCHANGED <<faults, edits, cut>>
    BY <1>8 DEF bounds
  <2>4. yaml # Absent => yaml.is = "whole" /\ cfg'.key = yaml.x.key
    BY <1>3, <1>4, <1>6, <1>8, WholeFacts DEF ConfigFile, FileOf
  <2>5. QED
    BY <1>2, <1>4, <1>6, <1>8, <2>1, <2>2, <2>3, <2>4
<1>9. CASE /\ yaml.is = "absent" \/ c # read
           /\ faults < MaxFaults /\ faults' = faults + 1
           /\ yaml' \in cutShort(c) /\ cut' = TRUE /\ UNCHANGED <<proc, cfg, edits>>
  <2>1. yaml' \in ConfigFile
    BY <1>6, <1>9, BeginningTypes
  <2>2. ~SaysPrivate(yaml)
    BY <1>7, <1>9
  <2>3. QED
    BY <1>2, <1>4, <1>9, <2>1, <2>2
<1>10. QED
  BY <1>1, <1>5, <1>8, <1>9

-----------------------------------------------------------------------------
\* What the steps of a handler do to it.

\* h goes to l with inv, list and text, and the others stay.
Moves(h, l, inv, list, text) ==
  /\ handler' \in [Handler -> HandlerState]
  /\ handler'[h].pc = l /\ handler'[h].inv = inv
  /\ handler'[h].list = list /\ handler'[h].text = text
  /\ \A g \in Handler \ {h} : handler'[g] = handler[g]

LEMMA HandlerFields ==
  ASSUME Types, NEW h \in Handler
  PROVE  /\ handler[h] \in HandlerState
         /\ handler[h].pc \in PC
         /\ handler[h].inv \in Invite \cup {Nothing}
         /\ handler[h].list \in SUBSET Listed
         /\ handler[h].text \in Config
<1>1. handler[h] \in HandlerState
  BY DEF Types
<1>2. QED
  BY <1>1 DEF HandlerState

LEMMA IdleFacts ==
  /\ Idle \in HandlerState /\ Idle.pc = "idle"
  /\ Idle.inv = Nothing /\ Idle.list = {} /\ Idle.text = Default
  BY DefaultType DEF Idle, HandlerState, PC

LEMMA GoMoves ==
  ASSUME Types, NEW h \in Handler, NEW l \in PC, HandlerGo(h, l)
  PROVE  Moves(h, l, handler[h].inv, handler[h].list, handler[h].text)
<1>1. PICK s : s = [handler[h] EXCEPT !.pc = l]
  OBVIOUS
<1>2. handler' = [handler EXCEPT ![h] = s]
  BY <1>1 DEF HandlerGo
<1>3. /\ s \in HandlerState /\ s.pc = l /\ s.inv = handler[h].inv
      /\ s.list = handler[h].list /\ s.text = handler[h].text
  BY <1>1, HandlerFields DEF HandlerState
<1>4. QED
  BY <1>2, <1>3 DEF Moves, Types

LEMMA InvMoves ==
  ASSUME Types, NEW h \in Handler, NEW inv \in Invite,
         handler' = [handler EXCEPT ![h].pc = "psk", ![h].inv = inv]
  PROVE  Moves(h, "psk", inv, handler[h].list, handler[h].text)
<1>1. PICK s : s = [handler[h] EXCEPT !.pc = "psk", !.inv = inv]
  OBVIOUS
<1>2. handler' = [handler EXCEPT ![h] = s]
  BY <1>1, HandlerFields DEF Types
<1>3. /\ s \in HandlerState /\ s.pc = "psk" /\ s.inv = inv
      /\ s.list = handler[h].list /\ s.text = handler[h].text
  BY <1>1, HandlerFields DEF HandlerState, PC
<1>4. QED
  BY <1>2, <1>3 DEF Moves, Types

LEMMA ListMoves ==
  ASSUME Types, NEW h \in Handler, NEW list \in SUBSET Listed,
         handler' = [handler EXCEPT ![h].pc = "append", ![h].list = list]
  PROVE  Moves(h, "append", handler[h].inv, list, handler[h].text)
<1>1. PICK s : s = [handler[h] EXCEPT !.pc = "append", !.list = list]
  OBVIOUS
<1>2. handler' = [handler EXCEPT ![h] = s]
  BY <1>1, HandlerFields DEF Types
<1>3. /\ s \in HandlerState /\ s.pc = "append" /\ s.inv = handler[h].inv
      /\ s.list = list /\ s.text = handler[h].text
  BY <1>1, HandlerFields DEF HandlerState, PC
<1>4. QED
  BY <1>2, <1>3 DEF Moves, Types

LEMMA TextMoves ==
  ASSUME Types, NEW h \in Handler,
         handler' = [handler EXCEPT ![h].pc = "saveWrite", ![h].text = cfg]
  PROVE  Moves(h, "saveWrite", handler[h].inv, handler[h].list, cfg)
<1>1. PICK s : s = [handler[h] EXCEPT !.pc = "saveWrite", !.text = cfg]
  OBVIOUS
<1>2. handler' = [handler EXCEPT ![h] = s]
  BY <1>1, HandlerFields DEF Types
<1>3. /\ s \in HandlerState /\ s.pc = "saveWrite" /\ s.inv = handler[h].inv
      /\ s.list = handler[h].list /\ s.text = cfg
  BY <1>1, HandlerFields DEF HandlerState, PC, Types
<1>4. QED
  BY <1>2, <1>3 DEF Moves, Types

LEMMA IdleMoves ==
  ASSUME Types, NEW h \in Handler, handler' = [handler EXCEPT ![h] = Idle]
  PROVE  Moves(h, "idle", Nothing, {}, Default)
  BY IdleFacts DEF Moves, Types

LEMMA InviteFields ==
  ASSUME NEW inv \in Invite
  PROVE  /\ inv.addrs \in Seq(Multiaddr) /\ Range(inv.addrs) \subseteq Multiaddr
         /\ inv.psk \in PSK /\ inv.psk \in Seq(Nat)
         /\ inv.label \in Label \cup {NoLabel} /\ inv.label \in Seq(Nat)
         /\ inv = [addrs |-> inv.addrs, psk |-> inv.psk, label |-> inv.label]
<1>1. inv.addrs \in Seq(Multiaddr) /\ inv.psk \in PSK /\ inv.label \in Label \cup {NoLabel}
  BY DEF Invite
<1>2. Range(inv.addrs) \subseteq Multiaddr
  BY <1>1, LenProperties DEF Range
<1>3. Byte \subseteq Nat
  BY CodecAssumption DEF Byte
<1>4. inv.psk \in Seq(Nat)
  <2>1. inv.psk \in [1..pskLen -> Nat]
    BY <1>1, <1>3, ConfigAssumption
  <2>2. QED
    BY <2>1, CodecAssumption, SeqDef
<1>5. inv.label \in Seq(Nat)
  <2>1. inv.label \in Seq(Byte)
    <3>1. NoLabel \in Seq(Byte)
      BY EmptySeq DEF NoLabel
    <3>2. QED
      BY <1>1, <3>1, ConfigAssumption
  <2>2. QED
    BY <1>3, <2>1, SeqMonotonic
<1>6. inv = [addrs |-> inv.addrs, psk |-> inv.psk, label |-> inv.label]
  BY DEF Invite
<1>7. QED
  BY <1>1, <1>2, <1>4, <1>5, <1>6

\* DecodeInvite reads what EncodeInvite wrote: every address, the key and the label,
\* for every invite that has a code.
THEOREM InviteRoundTrip ==
  \A inv \in Invite :
    Encodable(inv) => Decodable(EncodeInvite(inv)) /\ DecodeInvite(EncodeInvite(inv)) = inv
  BY InviteFields, RoundTrip

-----------------------------------------------------------------------------
(***************************************************************************)
(* The other way round: what DecodeInvite reads has one code.                *)
(***************************************************************************)

LEMMA AddrBytesEmpty == addrBytes(<<>>) = <<>>
<1>1. PICK addrs : addrs = <<>>
  OBVIOUS
<1>2. addrs \in Seq(Multiaddr) /\ Len(addrs) = 0
  BY <1>1
<1>3. PICK u : IsUpTo(addrs, u) /\ addrBytes(addrs) = u[Len(addrs)]
  BY <1>2, UpToExists
<1>4. u[0] = <<>>
  BY <1>2, <1>3, UpToFacts
<1>5. QED
  BY <1>1, <1>2, <1>3, <1>4

LEMMA AddrBytesAppend ==
  ASSUME NEW addrs \in Seq(Multiaddr), NEW ab \in Multiaddr
  PROVE  /\ addrBytes(Append(addrs, ab)) = addrBytes(addrs) \o withLength(ab)
         /\ addrBytes(addrs) \in Seq(Nat)
<1> DEFINE more == Append(addrs, ab)
           n == Len(addrs)
<1>1. /\ more \in Seq(Multiaddr) /\ Len(more) = n + 1 /\ more[n + 1] = ab
      /\ \A i \in 1..n : more[i] = addrs[i]
  BY AppendProperties
<1>2. n \in Nat /\ n \in 0..n /\ n + 1 \in 1..(n + 1) /\ (n + 1) - 1 = n
  BY LenProperties
<1>3. PICK u : IsUpTo(more, u) /\ addrBytes(more) = u[Len(more)]
  BY <1>1, UpToExists
<1>4. PICK v : IsUpTo(addrs, v) /\ addrBytes(addrs) = v[Len(addrs)]
  BY UpToExists
<1>5. u[0] = <<>> /\ \A k \in 1..(n + 1) : u[k] = u[k - 1] \o withLength(more[k])
  BY <1>1, <1>3, UpToFacts
<1>6. /\ v[0] = <<>> /\ v[n] \in Seq(Nat)
      /\ \A k \in 1..n : v[k] = v[k - 1] \o withLength(addrs[k])
  BY <1>2, <1>4, UpToFacts
<1> HIDE DEF more, n
<1> DEFINE T == {k \in 0..n : u[k] = v[k]}
<1>7. 0 \in T
  BY <1>2, <1>5, <1>6
<1>8. ASSUME NEW k \in 1..n, k - 1 \in T PROVE k \in T
  <2>1. k \in 0..n /\ k \in 1..(n + 1)
    BY <1>2
  <2>2. u[k] = u[k - 1] \o withLength(more[k]) /\ v[k] = v[k - 1] \o withLength(addrs[k])
    BY <1>5, <1>6, <2>1
  <2>3. QED
    BY <1>1, <1>8, <2>1, <2>2
<1>9. n \in T
  <2> HIDE DEF T
  <2>1. 0..n \subseteq T
    BY <1>2, <1>7, <1>8, CountUp
  <2>2. QED
    BY <1>2, <2>1
<1>10. u[n + 1] = u[n] \o withLength(ab)
  <2>1. u[n + 1] = u[(n + 1) - 1] \o withLength(more[n + 1])
    BY <1>2, <1>5
  <2>2. QED
    BY <1>1, <1>2, <2>1
<1>11. QED
  BY <1>1, <1>3, <1>4, <1>6, <1>9, <1>10 DEF more, n

\* Two bytes are the digits of the length that they say.
LEMMA TwoDigits ==
  ASSUME NEW hi \in Byte, NEW lo \in Byte
  PROVE  /\ hi * ByteBase + lo \in Nat
         /\ (hi * ByteBase + lo) \div ByteBase = hi
         /\ (hi * ByteBase + lo) % ByteBase = lo
<1> SUFFICES ASSUME NEW b \in Nat \ {0, 1}, NEW h \in 0..(b - 1), NEW l \in 0..(b - 1)
             PROVE  h * b + l \in Nat /\ (h * b + l) \div b = h /\ (h * b + l) % b = l
  BY CodecAssumption DEF Byte
<1> DEFINE n == h * b + l
           q == n \div b
           m == n % b
<1>1. n \in Nat
  OBVIOUS
<1>2. q \in Int /\ m \in 0..(b - 1) /\ n = b * q + m
  BY <1>1
<1> HIDE DEF q, m
<1>3. ~(q >= h + 1)
  <2> SUFFICES ASSUME q >= h + 1 PROVE FALSE
    OBVIOUS
  <2>1. b * q >= b * (h + 1)
    BY <1>2
  <2>2. QED
    BY <1>2, <2>1
<1>4. ~(h >= q + 1)
  <2> SUFFICES ASSUME h >= q + 1 PROVE FALSE
    OBVIOUS
  <2>1. b * h >= b * (q + 1)
    BY <1>2
  <2>2. QED
    BY <1>2, <2>1
<1>5. q = h
  BY <1>2, <1>3, <1>4
<1>6. m = l
  BY <1>2, <1>5
<1>7. QED
  BY <1>1, <1>5, <1>6 DEF q, m

\* b is in raw after the first p bytes.
At(raw, p, b) == p + Len(b) <= Len(raw) /\ \A i \in 1..Len(b) : raw[p + i] = b[i]

State == [pos : Nat, addrs : Seq(Multiaddr), ok : BOOLEAN]

\* The reader r has read k addresses, and their bytes are what it has passed.
HasRead(raw, r, k) ==
  /\ Len(r.addrs) = k
  /\ addrBytes(r.addrs) \in Seq(Nat)
  /\ 2 + Len(addrBytes(r.addrs)) = r.pos
  /\ At(raw, 2, addrBytes(r.addrs))

LEMMA Joined ==
  \A a, b \in Seq(Nat) :
    /\ a \o b \in Seq(Nat) /\ Len(a \o b) = Len(a) + Len(b)
    /\ \A i \in 1..Len(a) + Len(b) : (a \o b)[i] = IF i <= Len(a) THEN a[i] ELSE b[i - Len(a)]
  BY ConcatProperties

\* The bytes of the address that readAddr reads.
LEMMA AddressRead ==
  ASSUME NEW raw \in Seq(Byte), NEW p \in Nat, NEW l,
         p + 2 <= Len(raw), l = raw[p + 1] * ByteBase + raw[p + 2], p + 2 + l <= Len(raw),
         NEW ab \in Multiaddr, ab = SubSeq(raw, p + 3, p + 2 + l)
  PROVE  l \in Nat /\ Len(withLength(ab)) = 2 + l /\ At(raw, p, withLength(ab))
<1>1. Len(raw) \in Nat /\ \A i \in 1..Len(raw) : raw[i] \in Byte
  BY LenProperties, ElementOfSeq
<1>2. p + 1 \in 1..Len(raw) /\ p + 2 \in 1..Len(raw)
  BY <1>1
<1>3. PICK hi \in Byte, lo \in Byte : hi = raw[p + 1] /\ lo = raw[p + 2]
  BY <1>1, <1>2
<1>4. l \in Nat /\ l \div ByteBase = hi /\ l % ByteBase = lo
  BY <1>3, TwoDigits
<1>5. /\ Len(ab) = l
      /\ \A i \in 1..l : ab[i] = raw[p + 2 + i]
  <2>1. p + 3 \in Int /\ p + 2 + l \in Int
    BY <1>4
  <2>2. \A i \in (p + 3)..(p + 2 + l) : raw[i] \in Byte
    BY <1>1, <1>4
  <2>3. /\ Len(ab) = IF p + 3 <= p + 2 + l THEN (p + 2 + l) - (p + 3) + 1 ELSE 0
        /\ \A i \in 1..(p + 2 + l) - (p + 3) + 1 : ab[i] = raw[p + 3 + i - 1]
    BY <2>1, <2>2, SubSeqProperties
  <2>4. (p + 2 + l) - (p + 3) + 1 = l /\ (~(p + 3 <= p + 2 + l) => l = 0)
    BY <1>4
  <2>5. \A i \in 1..l : p + 3 + i - 1 = p + 2 + i
    BY <1>4
  <2>6. QED
    BY <2>3, <2>4, <2>5
<1>6. ab \in Seq(Nat)
  BY MultiaddrType
<1>7. PICK h : h = <<hi, lo>>
  OBVIOUS
<1>8. h \in Seq(Nat) /\ Len(h) = 2 /\ h[1] = hi /\ h[2] = lo
  BY <1>7, CodecAssumption DEF Byte
<1>9. withLength(ab) = h \o ab
  BY <1>4, <1>5, <1>7 DEF withLength
<1>10. /\ Len(h \o ab) = 2 + l
       /\ \A i \in 1..(2 + l) : (h \o ab)[i] = IF i <= 2 THEN h[i] ELSE ab[i - 2]
  <2>1. /\ Len(h \o ab) = Len(h) + Len(ab)
        /\ \A i \in 1..Len(h) + Len(ab) : (h \o ab)[i] = IF i <= Len(h) THEN h[i] ELSE ab[i - Len(h)]
    <3>1. ab \in Seq(Nat) /\ h \in Seq(Nat)
      BY <1>6, <1>8
    <3>2. QED
      BY <3>1, Joined, Zenon
  <2>2. QED
    BY <1>5, <1>8, <2>1
<1>11. ASSUME NEW i \in 1..(2 + l) PROVE (h \o ab)[i] = raw[p + i]
  <2>1. CASE i = 1 \/ i = 2
    <3>1. i <= 2 /\ h[i] = raw[p + i]
      BY <1>3, <1>8, <2>1
    <3>2. QED
      BY <1>10, <3>1
  <2>2. CASE i \notin {1, 2}
    <3>1. i - 2 \in 1..l /\ ~(i <= 2) /\ p + 2 + (i - 2) = p + i
      BY <1>4, <2>2
    <3>2. QED
      BY <1>5, <1>10, <3>1
  <2>3. QED
    BY <2>1, <2>2
<1>12. p + (2 + l) <= Len(raw)
  BY <1>1, <1>4
<1>13. QED
  BY <1>4, <1>9, <1>10, <1>11, <1>12 DEF At

\* Two parts that follow each other are one.
LEMMA Adjacent ==
  ASSUME NEW raw \in Seq(Nat), NEW p \in Nat, NEW a \in Seq(Nat), NEW w \in Seq(Nat),
         At(raw, p, a), At(raw, p + Len(a), w)
  PROVE  a \o w \in Seq(Nat) /\ Len(a \o w) = Len(a) + Len(w) /\ At(raw, p, a \o w)
<1>1. /\ a \o w \in Seq(Nat) /\ Len(a \o w) = Len(a) + Len(w)
      /\ \A i \in 1..Len(a) + Len(w) : (a \o w)[i] = IF i <= Len(a) THEN a[i] ELSE w[i - Len(a)]
  BY Joined
<1>2. PICK x \in Nat, y \in Nat, n \in Nat : x = Len(a) /\ y = Len(w) /\ n = Len(raw)
  BY LenProperties
<1>3. (p + x) + y <= n /\ \A i \in 1..y : raw[(p + x) + i] = w[i]
  BY <1>2 DEF At
<1>4. p + (x + y) <= n
  BY <1>3
<1>5. ASSUME NEW i \in 1..(x + y) PROVE raw[p + i] = (a \o w)[i]
  <2>1. (a \o w)[i] = IF i <= x THEN a[i] ELSE w[i - x]
    BY <1>1, <1>2
  <2>2. CASE i <= x
    <3>1. i \in 1..x
      BY <2>2
    <3>2. raw[p + i] = a[i]
      BY <1>2, <3>1 DEF At
    <3>3. QED
      BY <2>1, <2>2, <3>2
  <2>3. CASE ~(i <= x)
    <3>1. i - x \in 1..y /\ (p + x) + (i - x) = p + i
      BY <2>3
    <3>2. raw[(p + x) + (i - x)] = w[i - x]
      BY <1>3, <3>1
    <3>3. QED
      BY <2>1, <2>3, <3>1, <3>2
  <2>4. QED
    BY <2>2, <2>3
<1>6. QED
  BY <1>1, <1>2, <1>4, <1>5 DEF At

LEMMA ReadBack ==
  ASSUME NEW raw \in Seq(Byte), NEW r \in State, NEW k \in Nat, r.ok => HasRead(raw, r, k)
  PROVE  /\ readAddr(raw, r) \in State
         /\ readAddr(raw, r).ok => HasRead(raw, readAddr(raw, r), k + 1)
<1>1. PICK l : l = raw[r.pos + 1] * ByteBase + raw[r.pos + 2]
  OBVIOUS
<1>2. PICK ab : ab = SubSeq(raw, r.pos + 3, r.pos + 2 + l)
  OBVIOUS
<1>3. PICK s : s = readAddr(raw, r)
  OBVIOUS
<1> DEFINE good == r.ok /\ r.pos + 2 <= Len(raw) /\ r.pos + 2 + l <= Len(raw) /\ ab \in Multiaddr
<1>4. s = IF good THEN [pos |-> r.pos + 2 + l, addrs |-> Append(r.addrs, ab), ok |-> TRUE]
          ELSE [r EXCEPT !.ok = FALSE]
  BY <1>1, <1>2, <1>3 DEF readAddr
<1>5. CASE ~good
  <2>1. s \in State /\ s.ok = FALSE
    BY <1>4, <1>5 DEF State
  <2>2. QED
    BY <1>3, <2>1
<1>6. CASE good
  <2>1. PICK p \in Nat, addrs \in Seq(Multiaddr) : p = r.pos /\ addrs = r.addrs
    BY DEF State
  <2>2. p + 2 <= Len(raw) /\ p + 2 + l <= Len(raw) /\ ab \in Multiaddr
    BY <1>6, <2>1
  <2>3. l = raw[p + 1] * ByteBase + raw[p + 2] /\ ab = SubSeq(raw, p + 3, p + 2 + l)
    BY <1>1, <1>2, <2>1
  <2>4. PICK w, a : w = withLength(ab) /\ a = addrBytes(addrs)
    OBVIOUS
  <2>5. l \in Nat /\ Len(w) = 2 + l /\ At(raw, p, w)
    BY <2>2, <2>3, <2>4, AddressRead
  <2>6. w \in Seq(Nat) /\ raw \in Seq(Nat)
    <3>1. Byte \subseteq Nat
      BY CodecAssumption DEF Byte
    <3>2. QED
      BY <2>2, <2>4, <3>1, WithLength, SeqMonotonic
  <2>7. a \in Seq(Nat) /\ addrBytes(Append(addrs, ab)) = a \o w
    BY <2>2, <2>4, AddrBytesAppend
  <2>8. 2 + Len(a) = p /\ Len(addrs) = k /\ At(raw, 2, a)
    BY <1>6, <2>1, <2>4 DEF HasRead
  <2>9. a \o w \in Seq(Nat) /\ Len(a \o w) = Len(a) + Len(w) /\ At(raw, 2, a \o w)
    BY <2>5, <2>6, <2>7, <2>8, Adjacent
  <2>10. Append(addrs, ab) \in Seq(Multiaddr) /\ Len(Append(addrs, ab)) = k + 1
    BY <2>2, <2>8, AppendProperties
  <2>11. PICK x \in Nat, z \in Nat : x = Len(a) /\ z = Len(a \o w)
    BY <2>7, <2>9, LenProperties
  <2>12. 2 + x = p /\ z = x + (2 + l)
    BY <2>5, <2>8, <2>9, <2>11
  <2>13. 2 + z = p + 2 + l /\ p + 2 + l \in Nat
    BY <2>5, <2>12
  <2>14. s = [pos |-> p + 2 + l, addrs |-> Append(addrs, ab), ok |-> TRUE]
    BY <1>4, <1>6, <2>1
  <2>15. s \in State /\ s.pos = p + 2 + l /\ s.addrs = Append(addrs, ab)
    BY <2>10, <2>13, <2>14 DEF State
  <2>16. HasRead(raw, s, k + 1)
    BY <2>7, <2>9, <2>10, <2>11, <2>13, <2>15, Zenon DEF HasRead
  <2>17. QED
    BY <1>3, <2>15, <2>16
<1>7. QED
  BY <1>5, <1>6

\* The loop of DecodeInvite, whatever the bytes are.
LEMMA LoopExists ==
  ASSUME NEW raw, NEW n \in Nat
  PROVE  \E c : c = [k \in 0..n |-> IF k = 0 THEN Reader ELSE readAddr(raw, c[k - 1])]
<1> DEFINE Fun(g, m) == [k \in 0..m |-> IF k = 0 THEN Reader ELSE readAddr(raw, g[k - 1])]
           T == {m \in 0..n : \E f : f = Fun(f, m)}
<1>1. 0 \in T
  <2>1. PICK f : f = [k \in 0..0 |-> Reader]
    OBVIOUS
  <2>2. f = Fun(f, 0)
    BY <2>1
  <2>3. QED
    BY <2>2
<1>2. ASSUME NEW m \in 1..n, m - 1 \in T PROVE m \in T
  <2>1. PICK f : f = Fun(f, m - 1)
    BY <1>2
  <2>2. PICK g : g = [k \in 0..m |-> IF k = m THEN readAddr(raw, f[m - 1]) ELSE f[k]]
    OBVIOUS
  <2>3. ASSUME NEW k \in 0..m
        PROVE  g[k] = IF k = 0 THEN Reader ELSE readAddr(raw, g[k - 1])
    <3>1. CASE k = m
      <4>1. m - 1 \in 0..m /\ m - 1 # m /\ k # 0
        BY <3>1
      <4>2. g[m - 1] = f[m - 1] /\ g[k] = readAddr(raw, f[m - 1])
        BY <2>2, <3>1, <4>1
      <4>3. QED
        BY <3>1, <4>1, <4>2
    <3>2. CASE k # m
      <4>1. k \in 0..(m - 1) /\ g[k] = f[k]
        BY <2>2, <3>2
      <4>2. f[k] = IF k = 0 THEN Reader ELSE readAddr(raw, f[k - 1])
        BY <2>1, <4>1
      <4>3. k # 0 => g[k - 1] = f[k - 1]
        <5>1. k # 0 => k - 1 \in 0..m /\ k - 1 # m
          BY <4>1
        <5>2. QED
          BY <2>2, <5>1
      <4>4. QED
        BY <4>1, <4>2, <4>3
    <3>3. QED
      BY <3>1, <3>2
  <2>4. g = Fun(g, m)
    BY <2>2, <2>3
  <2>5. QED
    BY <2>4
<1>3. n \in T
  <2> HIDE DEF T
  <2>1. 0..n \subseteq T
    BY <1>1, <1>2, CountUp
  <2>2. QED
    BY <2>1
<1>4. QED
  BY <1>3

\* If all is well after the loop, what was passed is the addresses that were read.
LEMMA LoopReads ==
  ASSUME NEW raw \in Seq(Byte), raw[2] \in Nat, Len(raw) >= 2
  PROVE  /\ readAddrs(raw) \in State
         /\ readAddrs(raw).ok => HasRead(raw, readAddrs(raw), raw[2])
<1>1. PICK n \in Nat : n = raw[2]
  OBVIOUS
<1> DEFINE c == CHOOSE g : g = [k \in 0..n |-> IF k = 0 THEN Reader ELSE readAddr(raw, g[k - 1])]
<1>2. c = [k \in 0..n |-> IF k = 0 THEN Reader ELSE readAddr(raw, c[k - 1])]
  BY LoopExists
<1>3. readAddrs(raw) = c[n]
  BY <1>1 DEF readAddrs
<1> HIDE DEF c
<1> DEFINE T == {k \in 0..n : c[k] \in State /\ (c[k].ok => HasRead(raw, c[k], k))}
<1>4. 0 \in T
  <2>1. 0 \in 0..n
    OBVIOUS
  <2>2. c[0] = Reader
    BY <1>2, <2>1
  <2>3. Reader \in State /\ Reader.pos = 2 /\ Reader.addrs = <<>>
    BY DEF Reader, State
  <2>4. HasRead(raw, Reader, 0)
    <3>1. At(raw, 2, <<>>)
      BY LenProperties DEF At
    <3>2. Len(<<>>) = 0 /\ <<>> \in Seq(Nat) /\ 2 + 0 = 2
      OBVIOUS
    <3>3. QED
      BY <2>3, <3>1, <3>2, AddrBytesEmpty, Zenon DEF HasRead
  <2>5. QED
    BY <2>1, <2>2, <2>3, <2>4
<1>5. ASSUME NEW k \in 1..n, k - 1 \in T PROVE k \in T
  <2>1. k \in 0..n /\ k # 0 /\ k - 1 \in Nat /\ (k - 1) + 1 = k
    OBVIOUS
  <2>2. c[k] = readAddr(raw, c[k - 1])
    BY <1>2, <2>1
  <2>3. c[k - 1] \in State /\ (c[k - 1].ok => HasRead(raw, c[k - 1], k - 1))
    BY <1>5
  <2>4. /\ readAddr(raw, c[k - 1]) \in State
        /\ readAddr(raw, c[k - 1]).ok => HasRead(raw, readAddr(raw, c[k - 1]), (k - 1) + 1)
    BY <2>1, <2>3, ReadBack
  <2>5. QED
    BY <2>1, <2>2, <2>4
<1>6. n \in T
  <2> HIDE DEF T
  <2>1. 0..n \subseteq T
    BY <1>4, <1>5, CountUp
  <2>2. QED
    BY <2>1
<1>7. QED
  BY <1>1, <1>3, <1>6

\* The part of raw between two positions is there.
LEMMA CutAt ==
  ASSUME NEW raw \in Seq(Nat), NEW p \in Nat, NEW q \in Nat, p <= q, q <= Len(raw),
         NEW b, b = SubSeq(raw, p + 1, q)
  PROVE  b \in Seq(Nat) /\ Len(b) = q - p /\ At(raw, p, b)
<1>1. PICK n \in Nat : n = Len(raw)
  BY LenProperties
<1>2. \A i \in (p + 1)..q : raw[i] \in Nat
  <2>1. \A i \in (p + 1)..q : i \in 1..n
    BY <1>1
  <2>2. QED
    BY <1>1, <2>1, ElementOfSeq
<1>3. /\ b \in Seq(Nat) /\ Len(b) = IF p + 1 <= q THEN q - (p + 1) + 1 ELSE 0
      /\ \A i \in 1..q - (p + 1) + 1 : b[i] = raw[(p + 1) + i - 1]
  <2>1. p + 1 \in Int /\ q \in Int
    OBVIOUS
  <2>2. QED
    BY <1>2, <2>1, SubSeqProperties
<1>4. q - (p + 1) + 1 = q - p /\ (~(p + 1 <= q) => q - p = 0)
  OBVIOUS
<1>5. Len(b) = q - p
  BY <1>3, <1>4
<1>6. ASSUME NEW i \in 1..(q - p) PROVE raw[p + i] = b[i]
  <2>1. (p + 1) + i - 1 = p + i
    OBVIOUS
  <2>2. QED
    BY <1>3, <1>4, <2>1
<1>7. p + (q - p) <= n
  BY <1>1
<1>8. QED
  BY <1>1, <1>3, <1>5, <1>6, <1>7 DEF At

\* b is what raw has between p and q.
Piece(raw, p, b, q) == b \in Seq(Nat) /\ p + Len(b) = q /\ At(raw, p, b)

LEMMA Longer ==
  ASSUME NEW raw \in Seq(Nat), NEW p \in Nat, NEW q \in Nat, NEW x, NEW b,
         Piece(raw, 0, x, p), Piece(raw, p, b, q)
  PROVE  Piece(raw, 0, x \o b, q)
<1>1. x \in Seq(Nat) /\ 0 + Len(x) = p /\ At(raw, 0, x)
  BY DEF Piece
<1>2. b \in Seq(Nat) /\ p + Len(b) = q /\ At(raw, p, b)
  BY DEF Piece
<1>3. At(raw, 0 + Len(x), b)
  BY <1>1, <1>2, Zenon
<1>4. 0 \in Nat
  OBVIOUS
<1>5. x \o b \in Seq(Nat) /\ Len(x \o b) = Len(x) + Len(b) /\ At(raw, 0, x \o b)
  BY <1>1, <1>2, <1>3, <1>4, Adjacent, Zenon
<1>6. PICK l \in Nat, m \in Nat, n \in Nat : l = Len(x) /\ m = Len(b) /\ n = Len(x \o b)
  BY <1>1, <1>2, <1>5, LenProperties
<1>7. 0 + l = p /\ p + m = q /\ n = l + m
  BY <1>1, <1>2, <1>5, <1>6, Zenon
<1>8. 0 + n = q
  BY <1>7
<1>9. QED
  BY <1>5, <1>6, <1>8 DEF Piece

\* The code of what DecodeInvite reads is what it read: no two codes are of one
\* invite, and no byte of a code is passed over.
THEOREM InviteIsCanonical ==
  \A raw \in Seq(Byte) : Decodable(raw) => EncodeInvite(DecodeInvite(raw)) = raw
<1> SUFFICES ASSUME NEW raw \in Seq(Byte), Decodable(raw)
             PROVE  EncodeInvite(DecodeInvite(raw)) = raw
  OBVIOUS
<1>1. PICK len \in Nat : len = Len(raw)
  BY LenProperties
<1>2. len >= 2 /\ raw[1] = 1 /\ raw[2] \in Byte
  <2>1. len >= 2 /\ raw[1] = 1
    BY <1>1 DEF Decodable, inviteVersion
  <2>2. 2 \in 1..Len(raw)
    BY <1>1, <2>1
  <2>3. QED
    BY <2>1, <2>2, ElementOfSeq
<1>3. Byte \subseteq Nat /\ raw \in Seq(Nat) /\ pskLen \in Nat
  <2>1. Byte \subseteq Nat /\ pskLen \in Nat
    BY CodecAssumption DEF Byte
  <2>2. QED
    BY <2>1, SeqMonotonic
<1>4. PICK r : r = readAddrs(raw)
  OBVIOUS
<1>5. r \in State /\ HasRead(raw, r, raw[2])
  BY <1>1, <1>2, <1>3, <1>4, LoopReads DEF Decodable
<1>6. PICK p \in Nat : p = r.pos
  BY <1>5 DEF State
<1>7. PICK q \in Nat : q = p + pskLen
  BY <1>3
<1>8. PICK a, psk, label :
        /\ a = addrBytes(r.addrs)
        /\ psk = SubSeq(raw, p + 1, q)
        /\ label = SubSeq(raw, q + 1, len)
  OBVIOUS
<1>9. Len(r.addrs) = raw[2] /\ a \in Seq(Nat) /\ 2 + Len(a) = p /\ At(raw, 2, a)
  BY <1>5, <1>6, <1>8 DEF HasRead
<1>10. q <= len /\ q <= Len(raw) /\ p <= q /\ p + (q - p) = q /\ q + (len - q) = len
  <2>1. q <= len
    BY <1>1, <1>4, <1>6, <1>7 DEF Decodable
  <2>2. p <= q
    BY <1>3, <1>7
  <2>3. p + (q - p) = q /\ q + (len - q) = len
    OBVIOUS
  <2>4. QED
    BY <1>1, <2>1, <2>2, <2>3
<1>11. /\ psk \in Seq(Nat) /\ p + Len(psk) = q /\ At(raw, p, psk)
       /\ label \in Seq(Nat) /\ q + Len(label) = len /\ At(raw, q, label)
  <2>1. psk \in Seq(Nat) /\ Len(psk) = q - p /\ At(raw, p, psk)
    BY <1>3, <1>8, <1>10, CutAt, Zenon
  <2>2. label \in Seq(Nat) /\ Len(label) = len - q /\ At(raw, q, label)
    <3>1. len <= Len(raw)
      BY <1>1
    <3>2. QED
      BY <1>3, <1>8, <1>10, <3>1, CutAt, Zenon
  <2>3. QED
    BY <1>10, <2>1, <2>2
<1>12. raw[2] % ByteBase = raw[2]
  <2>1. \A b \in Nat \ {0, 1} : 0 % b = 0
    OBVIOUS
  <2>2. QED
    BY <1>2, <2>1, OneDigit, CodecAssumption DEF Byte
<1>13. PICK head : head = <<1, raw[2]>>
  OBVIOUS
<1>14. head \in Seq(Nat) /\ Len(head) = 2 /\ At(raw, 0, head)
  <2>1. raw[2] \in Nat
    BY <1>2, <1>3
  <2>2. head \in Seq(Nat) /\ Len(head) = 2 /\ head[1] = 1 /\ head[2] = raw[2]
    BY <1>13, <2>1
  <2>3. \A i \in 1..2 : 0 + i = i /\ (i = 1 \/ i = 2)
    OBVIOUS
  <2>4. \A i \in 1..2 : raw[0 + i] = head[i]
    BY <1>2, <2>2, <2>3
  <2>5. QED
    BY <1>1, <1>2, <2>2, <2>4 DEF At
<1>15. EncodeInvite(DecodeInvite(raw)) = ((head \o a) \o psk) \o label
  <2>1. DecodeInvite(raw) = [addrs |-> r.addrs, psk |-> psk, label |-> label]
    BY <1>1, <1>4, <1>6, <1>7, <1>8 DEF DecodeInvite
  <2>2. PICK inv : inv = DecodeInvite(raw)
    OBVIOUS
  <2>3. inv.addrs = r.addrs /\ inv.psk = psk /\ inv.label = label
    BY <2>1, <2>2
  <2>4. QED
    BY <1>8, <1>9, <1>12, <1>13, <2>2, <2>3, Zenon DEF EncodeInvite, inviteVersion
<1>16. Piece(raw, 0, head, 2) /\ Piece(raw, 2, a, p)
  BY <1>9, <1>14 DEF Piece
<1>17. Piece(raw, p, psk, q) /\ Piece(raw, q, label, len)
  BY <1>11 DEF Piece
<1>18. Piece(raw, 0, head \o a, p)
  BY <1>3, <1>16, Longer
<1>19. Piece(raw, 0, (head \o a) \o psk, q)
  BY <1>3, <1>17, <1>18, Longer
<1>20. PICK z : z = ((head \o a) \o psk) \o label
  OBVIOUS
<1>21. z \in Seq(Nat) /\ Len(z) = len /\ At(raw, 0, z)
  <2>1. Piece(raw, 0, z, len)
    BY <1>3, <1>17, <1>19, <1>20, Longer
  <2>2. z \in Seq(Nat) /\ 0 + Len(z) = len /\ At(raw, 0, z)
    BY <2>1 DEF Piece
  <2>3. Len(z) \in Nat
    BY <2>2, LenProperties
  <2>4. QED
    BY <2>2, <2>3
<1>22. z = raw
  <2>1. \A i \in 1..len : 0 + i = i
    OBVIOUS
  <2>2. \A i \in 1..Len(z) : z[i] = raw[i]
    BY <1>21, <2>1 DEF At
  <2>3. QED
    BY <1>1, <1>3, <1>21, <2>2, SeqEqual
<1>23. QED
  BY <1>15, <1>20, <1>22

-----------------------------------------------------------------------------
(***************************************************************************)
(* What the operations of an invite change.                                  *)
(***************************************************************************)

LEMMA AcceptFacts ==
  ASSUME Types, NEW h \in Handler, NEW inv \in Invites, Accept(h, EncodeInvite(inv))
  PROVE  /\ inv \in Invite /\ Moves(h, "psk", inv, handler[h].list, handler[h].text)
         /\ proc = "up" /\ handler[h].pc = "idle"
         /\ alone' = IF \A g \in Handler : handler[g].pc = "idle" THEN {h} ELSE {}
         /\ joined' = Nothing
         /\ UNCHANGED <<yaml, pskFile, keyFile, proc, cfg, run, edits, faults, born, paths, cut, wasPrivate>>
<1>1. inv \in Invite /\ DecodeInvite(EncodeInvite(inv)) = inv
  BY ConfigAssumption, InviteRoundTrip
<1>2. handler' = [handler EXCEPT ![h].pc = "psk", ![h].inv = inv]
  BY <1>1 DEF Accept
<1>3. Moves(h, "psk", inv, handler[h].list, handler[h].text)
  BY <1>1, <1>2, InvMoves
<1>4. QED
  BY <1>1, <1>3 DEF Accept, files, bounds

LEMMA ApplyFacts ==
  ASSUME Types, NEW h \in Handler, Apply(h)
  PROVE  /\ handler[h].pc = "apply" /\ handler[h].inv \in Invite
         /\ Moves(h, "append", handler[h].inv, cfg.peers \cup Range(handler[h].inv.addrs),
                  handler[h].text)
         /\ cfg' \in Config /\ cfg'.mode = "private" /\ cfg'.token = cfg.token
         /\ cfg'.key = cfg.key
         /\ UNCHANGED <<yaml, pskFile, keyFile, proc, run, edits, faults, history>>
<1>1. PICK inv : inv = handler[h].inv
  OBVIOUS
<1>2. handler[h].pc = "apply" /\ inv \in Invite
  BY <1>1 DEF Apply, Types
<1>3. PICK label : label = IF inv.label = NoLabel THEN cfg.net ELSE inv.label
  OBVIOUS
<1>4. cfg' = [cfg EXCEPT !.mode = "private", !.net = label]
  BY <1>1, <1>3 DEF Apply, Types, Config
<1>5. cfg \in Config /\ label \in Label \cup {NoLabel}
  BY <1>2, <1>3, InviteFields DEF Types, Config
<1>6. /\ cfg' \in Config /\ cfg'.mode = "private" /\ cfg'.token = cfg.token
      /\ cfg'.key = cfg.key
  BY <1>4, <1>5 DEF Config, Mode
<1>7. cfg.peers \cup Range(inv.addrs) \in SUBSET Listed
  BY <1>2, <1>5, InviteFields DEF Config, Listed
<1>8. handler' = [handler EXCEPT ![h].pc = "append", ![h].list = cfg.peers \cup Range(inv.addrs)]
  BY <1>1 DEF Apply
<1>9. Moves(h, "append", handler[h].inv, cfg.peers \cup Range(inv.addrs), handler[h].text)
  BY <1>7, <1>8, ListMoves
<1>10. QED
  BY <1>1, <1>2, <1>6, <1>9 DEF Apply, files, bounds

LEMMA AppendFacts ==
  ASSUME Types, NEW h \in Handler, AppendPeers(h)
  PROVE  /\ handler[h].pc = "append"
         /\ Moves(h, "save", handler[h].inv, handler[h].list, handler[h].text)
         /\ cfg' \in Config /\ cfg'.mode = cfg.mode /\ cfg'.token = cfg.token
         /\ cfg'.peers = handler[h].list /\ cfg'.key = cfg.key
         /\ UNCHANGED <<yaml, pskFile, keyFile, proc, run, edits, faults, history>>
<1>1. Moves(h, "save", handler[h].inv, handler[h].list, handler[h].text)
  BY GoMoves DEF AppendPeers, PC
<1>2. cfg' = [cfg EXCEPT !.peers = handler[h].list] /\ cfg \in Config
  BY DEF AppendPeers, Types
<1>3. handler[h].list \in SUBSET Listed
  BY HandlerFields
<1>4. /\ cfg' \in Config /\ cfg'.mode = cfg.mode /\ cfg'.token = cfg.token
      /\ cfg'.peers = handler[h].list /\ cfg'.key = cfg.key
  BY <1>2, <1>3 DEF Config, Listed
<1>5. QED
  BY <1>1, <1>4 DEF AppendPeers, files, bounds

LEMMA TypesInit == Init => Types
<1> SUFFICES ASSUME Init PROVE Types
  OBVIOUS
<1>1. handler \in [Handler -> HandlerState] /\ \A h \in Handler : handler[h].pc = "idle"
  BY IdleFacts DEF Init
<1>2. yaml \in ConfigFile /\ pskFile \in PSKFile /\ keyFile \in [KeyPath -> KeyFile]
  BY DEF Init, ConfigFile, FileOf, PSKFile, KeyFile
<1>3. 0 \in 0..MaxEdits /\ 0 \in 0..MaxFaults
  BY ConfigAssumption
<1>4. QED
  BY <1>1, <1>2, <1>3, DefaultType DEF Init, Types

\* A step of a handler that goes on: its invite stays one.
LEMMA MovesTypes ==
  ASSUME Types, NEW h \in Handler, NEW l, NEW inv \in Invite, NEW list, NEW text,
         Moves(h, l, inv, list, text), proc = "up", proc' = "up"
  PROVE  /\ handler' \in [Handler -> HandlerState]
         /\ \A g \in Handler : handler'[g].pc # "idle" => proc' = "up" /\ handler'[g].inv \in Invite
  BY DEF Moves, Types

\* A handler that is done.
LEMMA DoneTypes ==
  ASSUME Types, NEW h \in Handler, handler' = [handler EXCEPT ![h] = Idle], proc' = proc
  PROVE  /\ handler' \in [Handler -> HandlerState]
         /\ \A g \in Handler : handler'[g].pc # "idle" => proc' = "up" /\ handler'[g].inv \in Invite
<1>1. Moves(h, "idle", Nothing, {}, Default)
  BY IdleMoves
<1>2. QED
  BY <1>1 DEF Moves, Types

LEMMA TypesStep == Types /\ [Next]_vars => Types'
<1> SUFFICES ASSUME Types, [Next]_vars PROVE Types'
  OBVIOUS
<1> USE ConfigAssumption
<1>1. CASE Load
  <2>1. yaml' \in ConfigFile /\ cfg' \in Config /\ proc' \in {"down", "identity"} /\ cut' \in BOOLEAN
    BY <1>1, LoadFacts DEF Types, ConfigFile, FileOf
  <2>2. faults' \in 0..MaxFaults
    <3>1. faults' = faults \/ (faults < MaxFaults /\ faults' = faults + 1)
      BY <1>1, LoadFacts
    <3>2. faults \in 0..MaxFaults /\ MaxFaults \in Nat
      BY DEF Types
    <3>3. QED
      BY <3>1, <3>2
  <2>3. proc = "down" /\ UNCHANGED <<pskFile, keyFile, run, handler, edits, born, paths, wasPrivate, alone, joined>>
    BY <1>1, LoadFacts
  <2>4. \A h \in Handler : handler[h].pc = "idle"
    BY <2>3 DEF Types
  <2>5. QED
    BY <2>1, <2>2, <2>3, <2>4 DEF Types
<1>2. ASSUME NEW i \in Identity, LoadOrCreateIdentity(i) PROVE Types'
  <2>1. keyFile' \in [KeyPath -> KeyFile]
    BY <1>2 DEF LoadOrCreateIdentity, KeyFile, FileOf, Types, Config
  <2>2. proc' = "psk" /\ run'.id \in Identity
    BY <1>2 DEF LoadOrCreateIdentity, NotBuilt
  <2>3. proc = "identity" /\ UNCHANGED <<yaml, pskFile, cfg, handler, edits, faults, born, paths, cut, wasPrivate, alone, joined>>
    BY <1>2 DEF LoadOrCreateIdentity, bounds, history
  <2>4. \A h \in Handler : handler[h].pc = "idle"
    BY <2>3 DEF Types
  <2>5. QED
    BY <2>1, <2>2, <2>3, <2>4 DEF Types
<1>3. CASE Start
  <2>1. /\ run' = [id |-> run.id, mode |-> cfg.mode, net |-> Scope(cfg),
                   peers |-> BootstrapPeers(cfg),
                   psk |-> IF cfg.mode = "private" /\ LoadPSK THEN pskFile.x ELSE NoLabel]
        /\ proc = "psk" /\ proc' = "up"
        /\ born' = born \cup {[key |-> cfg.key, id |-> run.id]} /\ paths' = paths \cup {cfg.key}
        /\ cfg.mode = "private" => LoadPSK
        /\ UNCHANGED <<yaml, pskFile, keyFile, cfg, handler, edits, faults, cut, alone, joined>>
    BY <1>3 DEF Start, files, bounds
  <2>2. wasPrivate' \in BOOLEAN
    BY <1>3, Zenon DEF Start
  <2>3. /\ run'.id = run.id /\ run'.mode = cfg.mode
        /\ run'.psk = IF cfg.mode = "private" /\ LoadPSK THEN pskFile.x ELSE NoLabel
    BY <2>1
  <2>4. run.id \in Identity /\ cfg.key \in KeyPath /\ \A h \in Handler : handler[h].pc = "idle"
    BY <2>1 DEF Types, Config
  <2>5. run'.mode = "private" => run'.psk \in PSK
    BY <2>1, <2>3, FileCases DEF LoadPSK, Types
  <2>6. QED
    BY <2>1, <2>2, <2>3, <2>4, <2>5 DEF Types
<1>4. CASE StartFails
  <2>1. /\ proc' = "down" /\ cfg' = Default /\ proc \in {"identity", "psk"}
        /\ UNCHANGED <<yaml, pskFile, keyFile, handler, edits, faults, born, paths, cut, wasPrivate, alone, joined>>
    BY <1>4 DEF StartFails, Gone, files, bounds, history
  <2>2. \A h \in Handler : handler[h].pc = "idle"
    BY <2>1 DEF Types
  <2>3. QED
    BY <2>1, <2>2, DefaultType DEF Types
<1>5. CASE Generate
  BY <1>5 DEF Generate, Types, vars, files, bounds, history
<1>6. ASSUME NEW h \in Handler, NEW inv \in Invites, Accept(h, EncodeInvite(inv)) PROVE Types'
  <2>1. /\ inv \in Invite /\ proc = "up" /\ proc' = "up" /\ joined' = Nothing
        /\ Moves(h, "psk", inv, handler[h].list, handler[h].text)
        /\ UNCHANGED <<yaml, pskFile, keyFile, cfg, run, edits, faults, born, paths, cut, wasPrivate>>
    BY <1>6, AcceptFacts
  <2>2. alone' \subseteq Handler
    BY <1>6, AcceptFacts
  <2>3. QED
    BY <2>1, <2>2, MovesTypes DEF Types
<1>7. ASSUME NEW h \in Handler, OpenPSK(h) \/ WritePSK(h) PROVE Types'
  <2>1. proc = "up" /\ handler[h].inv \in Invite
    BY <1>7 DEF OpenPSK, WritePSK, Types
  <2>2. \E l \in PC : HandlerGo(h, l)
    BY <1>7 DEF OpenPSK, WritePSK, PC
  <2>3. /\ pskFile' \in PSKFile
        /\ UNCHANGED <<yaml, keyFile, proc, cfg, run, edits, faults, born, paths, cut, wasPrivate, alone, joined>>
    BY <1>7, <2>1, InviteFields DEF OpenPSK, WritePSK, PSKFile, FileOf, bounds, history
  <2>4. \E l : Moves(h, l, handler[h].inv, handler[h].list, handler[h].text)
    BY <2>2, GoMoves
  <2>5. QED
    BY <2>1, <2>3, <2>4, MovesTypes DEF Types
<1>8. ASSUME NEW h \in Handler, Apply(h) PROVE Types'
  <2>1. handler[h].pc = "apply" /\ proc = "up" /\ handler[h].inv \in Invite
    BY <1>8, ApplyFacts DEF Types
  <2>2. /\ cfg' \in Config
        /\ UNCHANGED <<yaml, pskFile, keyFile, proc, run, edits, faults, born, paths, cut, wasPrivate, alone, joined>>
    BY <1>8, ApplyFacts DEF history
  <2>3. QED
    BY <1>8, <2>1, <2>2, ApplyFacts, MovesTypes DEF Types
<1>9. ASSUME NEW h \in Handler, AppendPeers(h) PROVE Types'
  <2>1. handler[h].pc = "append" /\ proc = "up" /\ handler[h].inv \in Invite
    BY <1>9, AppendFacts DEF Types
  <2>2. /\ cfg' \in Config
        /\ UNCHANGED <<yaml, pskFile, keyFile, proc, run, edits, faults, born, paths, cut, wasPrivate, alone, joined>>
    BY <1>9, AppendFacts DEF history
  <2>3. QED
    BY <1>9, <2>1, <2>2, AppendFacts, MovesTypes DEF Types
<1>10. ASSUME NEW h \in Handler, OpenConfig(h) PROVE Types'
  <2>1. proc = "up" /\ handler[h].inv \in Invite
    BY <1>10 DEF OpenConfig, Types
  <2>2. Moves(h, "saveWrite", handler[h].inv, handler[h].list, cfg)
    BY <1>10, TextMoves DEF OpenConfig
  <2>3. /\ yaml' \in ConfigFile
        /\ UNCHANGED <<pskFile, keyFile, proc, cfg, run, edits, faults, born, paths, cut, wasPrivate, alone, joined>>
    BY <1>10, DefaultType DEF OpenConfig, ConfigFile, FileOf, bounds, history
  <2>4. QED
    BY <2>1, <2>2, <2>3, MovesTypes DEF Types
<1>11. ASSUME NEW h \in Handler, WriteConfig(h) PROVE Types'
  <2>1. proc = "up" /\ handler[h].inv \in Invite /\ handler[h].text \in Config
    BY <1>11, HandlerFields DEF WriteConfig, Types
  <2>2. yaml' \in ConfigFile /\ alone' = {} /\ (joined' = Nothing \/ joined' \in Invite)
    BY <1>11, <2>1 DEF WriteConfig, ConfigFile, FileOf, Types
  <2>3. /\ handler' = [handler EXCEPT ![h] = Idle]
        /\ UNCHANGED <<pskFile, keyFile, proc, cfg, run, edits, faults, born, paths, cut, wasPrivate>>
    BY <1>11 DEF WriteConfig, bounds
  <2>4. QED
    BY <2>2, <2>3, DoneTypes DEF Types
<1>12. ASSUME NEW h \in Handler, WriteFails(h) PROVE Types'
  <2>1. handler[h].text \in Config
    BY HandlerFields
  <2>2. yaml' \in ConfigFile /\ pskFile' \in PSKFile /\ cut' \in BOOLEAN
    BY <1>12, <2>1, BeginningTypes DEF WriteFails, ConfigFile, FileOf, PSKFile, Types
  <2>3. /\ handler' = [handler EXCEPT ![h] = Idle]
        /\ alone' \subseteq Handler /\ faults' \in 0..MaxFaults
        /\ UNCHANGED <<keyFile, proc, cfg, run, edits, born, paths, wasPrivate, joined>>
    BY <1>12 DEF WriteFails, Types
  <2>4. QED
    BY <2>2, <2>3, DoneTypes DEF Types
<1>13. CASE Shutdown
  <2>1. /\ proc' = "down" /\ cfg' = Default /\ \A h \in Handler : handler[h].pc = "idle"
        /\ UNCHANGED <<yaml, pskFile, keyFile, handler, edits, faults, born, paths, cut, wasPrivate, alone, joined>>
    BY <1>13 DEF Shutdown, Gone, files, bounds, history
  <2>2. QED
    BY <2>1, DefaultType DEF Types
<1>14. CASE Crash
  <2>1. yaml' \in ConfigFile
    BY <1>14, HandlerFields, BeginningTypes DEF Crash, Types
  <2>2. keyFile' \in [KeyPath -> KeyFile]
    BY <1>14 DEF Crash, KeyFile, FileOf, Types, Config
  <2>3. cut' \in BOOLEAN
    BY <1>14, Zenon DEF Crash, Types
  <2>4. /\ proc' = "down" /\ cfg' = Default /\ faults' \in 0..MaxFaults
        /\ handler' = [h \in Handler |-> Idle] /\ alone' = {}
        /\ UNCHANGED <<pskFile, edits, born, paths, wasPrivate, joined>>
    BY <1>14 DEF Crash, Gone, Types
  <2>5. handler' \in [Handler -> HandlerState] /\ \A h \in Handler : handler'[h].pc = "idle"
    BY <2>4, IdleFacts
  <2>6. QED
    BY <2>1, <2>2, <2>3, <2>4, <2>5, DefaultType DEF Types
<1>15. ASSUME NEW e \in Edits, OperatorEdit(e) PROVE Types'
  <2>1. yaml' \in ConfigFile /\ pskFile' \in PSKFile /\ edits' \in 0..MaxEdits
    BY <1>15 DEF OperatorEdit, ConfigFile, FileOf, PSKFile, Types
  <2>2. /\ cut' = FALSE /\ wasPrivate' = FALSE /\ paths' = {} /\ alone' = {} /\ joined' = Nothing
        /\ UNCHANGED <<keyFile, proc, cfg, run, handler, faults, born>>
    BY <1>15 DEF OperatorEdit
  <2>3. QED
    BY <2>1, <2>2 DEF Types
<1>16. CASE UNCHANGED vars
  BY <1>16 DEF vars, files, bounds, history, Types
<1>17. QED
  BY <1>1, <1>2, <1>3, <1>4, <1>5, <1>6, <1>7, <1>8, <1>9, <1>10, <1>11, <1>12, <1>13,
     <1>14, <1>15, <1>16 DEF Next

\* The files, the process and its handlers are in the states that the code knows, and
\* a host on a private network has a whole key.
THEOREM ConfigTypes == Spec => []TypeOK
  BY TypesInit, TypesStep, TypesImply, PTL DEF Spec

-----------------------------------------------------------------------------
(***************************************************************************)
(* The API of a public node.  Load takes the token away from a config that     *)
(* says public, and nothing gives the shared Config another one.              *)
(***************************************************************************)

OpenInv ==
  /\ proc \in {"identity", "psk"} /\ cfg.mode = "public" => cfg.token = NoToken
  /\ proc = "up" /\ run.mode = "public" => cfg.token = NoToken

LEMMA OpenInit == Init => OpenInv
  BY DEF Init, OpenInv

LEMMA OpenStep == Types /\ OpenInv /\ [Next]_vars => OpenInv'
<1> SUFFICES ASSUME Types, OpenInv, [Next]_vars PROVE OpenInv'
  OBVIOUS
<1>1. CASE Load
  <2>1. \/ proc' = "identity" /\ (cfg'.mode = "public" => cfg'.token = NoToken)
        \/ proc' = "down"
    BY <1>1, LoadFacts
  <2>2. QED
    BY <2>1 DEF OpenInv
<1>2. ASSUME NEW i \in Identity, LoadOrCreateIdentity(i) PROVE OpenInv'
  BY <1>2 DEF LoadOrCreateIdentity, OpenInv
<1>3. CASE Start
  <2>1. proc = "psk" /\ proc' = "up" /\ run'.mode = cfg.mode /\ cfg' = cfg
    BY <1>3 DEF Start
  <2>2. QED
    BY <2>1 DEF OpenInv
<1>4. CASE proc' = "down"
  BY <1>4 DEF OpenInv
<1>5. ASSUME NEW h \in Handler, Apply(h) \/ AppendPeers(h) PROVE OpenInv'
  <2>1. UNCHANGED <<proc, run>> /\ cfg'.token = cfg.token
    BY <1>5, ApplyFacts, AppendFacts
  <2>2. proc = "up"
    BY <1>5 DEF Apply, AppendPeers, Types
  <2>3. QED
    BY <2>1, <2>2 DEF OpenInv
<1>6. CASE UNCHANGED <<proc, cfg, run>>
  BY <1>6 DEF OpenInv
<1>7. QED
  BY <1>1, <1>2, <1>3, <1>4, <1>5, <1>6
     DEF Next, StartFails, Generate, Accept, OpenPSK, WritePSK, OpenConfig,
         WriteConfig, WriteFails, Shutdown, Crash, Gone, OperatorEdit, vars

\* While the node is on the public network every app is let in without a token.
THEOREM PublicStaysOpen == Spec => []PublicIsOpen
<1>1. OpenInv => PublicIsOpen
  BY DEF OpenInv, PublicIsOpen, authed, checkAuth
<1>2. QED
  BY <1>1, TypesInit, TypesStep, OpenInit, OpenStep, PTL DEF Spec

-----------------------------------------------------------------------------
(***************************************************************************)
(* A private node.  A handler that saves has made the shared Config private,   *)
(* so that every text it writes says private.  What a file says otherwise it   *)
(* says while a handler is still writing it.                                 *)
(***************************************************************************)

\* A handler that has applied its invite has a private Config to save.
SaveInv ==
  \A h \in Handler :
    /\ handler[h].pc \in {"append", "save", "saveWrite"} => cfg.mode = "private"
    /\ Writing(h) => handler[h].text.mode = "private"

PrivateInv ==
  /\ SaveInv
  /\ proc \in {"identity", "psk"} => yaml = Whole(cfg)
  /\ wasPrivate /\ ~cut =>
       yaml = Garbled \/ SaysPrivate(yaml) \/ \E h \in Handler : Writing(h)
  /\ PrivateStays

LEMMA PrivateInit == Init => PrivateInv
<1> SUFFICES ASSUME Init PROVE PrivateInv
  OBVIOUS
<1>1. \A h \in Handler : handler[h].pc = "idle"
  BY IdleFacts DEF Init
<1>2. QED
  BY <1>1 DEF Init, PrivateInv, SaveInv, PrivateStays, Writing

\* The others keep what SaveInv says of them while the Config stays private.
LEMMA SaveMoves ==
  ASSUME SaveInv, NEW h \in Handler, NEW l, NEW inv, NEW list, NEW text,
         Moves(h, l, inv, list, text),
         cfg'.mode = cfg.mode \/ cfg'.mode = "private",
         l \in {"append", "save", "saveWrite"} => cfg'.mode = "private",
         l = "saveWrite" => text.mode = "private"
  PROVE  SaveInv'
  BY DEF SaveInv, Moves, Writing

LEMMA PrivateStep == Types /\ PrivateInv /\ [Next]_vars => PrivateInv'
<1> SUFFICES ASSUME Types, PrivateInv, [Next]_vars PROVE PrivateInv'
  OBVIOUS
<1> USE WholeFacts
<1>1. CASE Load
  <2>1. proc = "down" /\ yaml # Garbled /\ UNCHANGED <<handler, wasPrivate>>
    BY <1>1, LoadFacts
  <2>2. \A h \in Handler : handler[h].pc = "idle" /\ ~Writing(h)
    BY <2>1 DEF Types, Writing
  <2>3. SaveInv'
    BY <2>1, <2>2 DEF SaveInv, Writing
  <2>4. CASE proc' = "identity" /\ yaml' = Whole(cfg') /\ (SaysPrivate(yaml) => yaml' = yaml) /\ cut' = cut
    <3>1. wasPrivate' /\ ~cut' => SaysPrivate(yaml)'
      BY <2>1, <2>2, <2>4 DEF PrivateInv, SaysPrivate
    <3>2. QED
      BY <2>3, <2>4, <3>1 DEF PrivateInv, PrivateStays
  <2>5. CASE proc' = "down" /\ cut' = TRUE
    BY <2>3, <2>5 DEF PrivateInv, PrivateStays
  <2>6. QED
    BY <1>1, <2>4, <2>5, LoadFacts
<1>2. ASSUME NEW i \in Identity, LoadOrCreateIdentity(i) PROVE PrivateInv'
  <2>1. proc = "identity" /\ proc' = "psk" /\ UNCHANGED <<yaml, cfg, handler, wasPrivate, cut>>
    BY <1>2 DEF LoadOrCreateIdentity, history
  <2>2. QED
    BY <2>1 DEF PrivateInv, SaveInv, PrivateStays, Writing, SaysPrivate
<1>3. CASE Start
  <2>1. /\ proc = "psk" /\ proc' = "up" /\ run'.mode = cfg.mode
        /\ UNCHANGED <<yaml, cfg, handler, cut>>
    BY <1>3 DEF Start, files
  <2>2. wasPrivate' => wasPrivate \/ cfg.mode = "private"
    BY <1>3 DEF Start
  <2>3. yaml = Whole(cfg) /\ \A h \in Handler : ~Writing(h)
    BY <2>1 DEF PrivateInv, Types, Writing
  <2>4. wasPrivate' /\ ~cut => cfg.mode = "private" /\ SaysPrivate(yaml)
    BY <2>2, <2>3 DEF PrivateInv, SaysPrivate
  <2>5. QED
    BY <2>1, <2>4 DEF PrivateInv, SaveInv, PrivateStays, Writing, SaysPrivate
<1>4. CASE StartFails \/ Shutdown
  <2>1. proc' = "down" /\ UNCHANGED <<yaml, handler, wasPrivate, cut>>
    BY <1>4 DEF StartFails, Shutdown, Gone, files, history
  <2>2. \A h \in Handler : handler[h].pc = "idle"
    BY <1>4 DEF StartFails, Shutdown, Types
  <2>3. SaveInv'
    BY <2>1, <2>2 DEF SaveInv, Writing
  <2>4. QED
    BY <2>1, <2>3 DEF PrivateInv, PrivateStays, Writing, SaysPrivate
<1>5. CASE Crash
  <2>1. proc' = "down" /\ wasPrivate' = wasPrivate /\ handler' = [h \in Handler |-> Idle]
    BY <1>5 DEF Crash, Gone
  <2>2. \A h \in Handler : handler'[h].pc = "idle"
    BY <2>1, IdleFacts
  <2>3. ~cut' => yaml' = yaml /\ ~cut /\ \A h \in Handler : ~Writing(h)
    <3>1. CASE yaml' = yaml /\ cut' = (cut \/ \E h \in Handler : Writing(h))
      BY <3>1
    <3>2. CASE cut' = TRUE
      BY <3>2
    <3>3. CASE proc = "identity" /\ UNCHANGED <<yaml, cut>>
      BY <3>3 DEF Types, Writing
    <3>4. QED
      BY <1>5, <3>1, <3>2, <3>3 DEF Crash
  <2>4. SaveInv'
    BY <2>2 DEF SaveInv, Writing
  <2>5. QED
    BY <2>1, <2>3, <2>4 DEF PrivateInv, PrivateStays, SaysPrivate
<1>6. ASSUME NEW h \in Handler, NEW inv \in Invites, Accept(h, EncodeInvite(inv)) PROVE PrivateInv'
  <2>1. /\ Moves(h, "psk", inv, handler[h].list, handler[h].text) /\ handler[h].pc = "idle"
        /\ UNCHANGED <<yaml, proc, cfg, run, wasPrivate, cut>>
    BY <1>6, AcceptFacts
  <2>2. SaveInv'
    BY <2>1, SaveMoves DEF PrivateInv
  <2>3. \A g \in Handler : Writing(g) => Writing(g)'
    BY <2>1 DEF Moves, Writing
  <2>4. QED
    BY <2>1, <2>2, <2>3 DEF PrivateInv, PrivateStays, SaysPrivate
<1>7. ASSUME NEW h \in Handler, OpenPSK(h) \/ WritePSK(h) PROVE PrivateInv'
  <2>1. \E l \in {"pskWrite", "apply"} : HandlerGo(h, l)
    BY <1>7 DEF OpenPSK, WritePSK
  <2>2. PICK l \in {"pskWrite", "apply"} :
          Moves(h, l, handler[h].inv, handler[h].list, handler[h].text)
    BY <2>1, GoMoves DEF PC
  <2>3. ~Writing(h) /\ UNCHANGED <<yaml, proc, cfg, run, wasPrivate, cut>>
    BY <1>7 DEF OpenPSK, WritePSK, Writing, history
  <2>4. SaveInv'
    BY <2>2, <2>3, SaveMoves DEF PrivateInv
  <2>5. \A g \in Handler : Writing(g) => Writing(g)'
    BY <2>2, <2>3 DEF Moves, Writing
  <2>6. QED
    BY <2>3, <2>4, <2>5 DEF PrivateInv, PrivateStays, SaysPrivate
<1>8. ASSUME NEW h \in Handler, Apply(h) PROVE PrivateInv'
  <2>1. /\ Moves(h, "append", handler[h].inv, cfg.peers \cup Range(handler[h].inv.addrs),
                 handler[h].text)
        /\ handler[h].pc = "apply" /\ cfg'.mode = "private"
        /\ UNCHANGED <<yaml, proc, run, wasPrivate, cut>>
    BY <1>8, ApplyFacts DEF history
  <2>2. proc = "up"
    BY <2>1 DEF Types
  <2>3. SaveInv'
    BY <2>1, SaveMoves DEF PrivateInv
  <2>4. \A g \in Handler : Writing(g) => Writing(g)'
    BY <2>1 DEF Moves, Writing
  <2>5. QED
    BY <2>1, <2>2, <2>3, <2>4 DEF PrivateInv, PrivateStays, SaysPrivate
<1>9. ASSUME NEW h \in Handler, AppendPeers(h) PROVE PrivateInv'
  <2>1. /\ Moves(h, "save", handler[h].inv, handler[h].list, handler[h].text)
        /\ handler[h].pc = "append" /\ cfg'.mode = cfg.mode
        /\ UNCHANGED <<yaml, proc, run, wasPrivate, cut>>
    BY <1>9, AppendFacts DEF history
  <2>2. proc = "up" /\ cfg.mode = "private"
    BY <2>1 DEF Types, PrivateInv, SaveInv
  <2>3. SaveInv'
    BY <2>1, <2>2, SaveMoves DEF PrivateInv
  <2>4. \A g \in Handler : Writing(g) => Writing(g)'
    BY <2>1 DEF Moves, Writing
  <2>5. QED
    BY <2>1, <2>2, <2>3, <2>4 DEF PrivateInv, PrivateStays, SaysPrivate
<1>10. ASSUME NEW h \in Handler, OpenConfig(h) PROVE PrivateInv'
  <2>1. Moves(h, "saveWrite", handler[h].inv, handler[h].list, cfg)
    BY <1>10, TextMoves DEF OpenConfig
  <2>2. handler[h].pc = "save" /\ UNCHANGED <<proc, cfg, run, wasPrivate, cut>>
    BY <1>10 DEF OpenConfig, history
  <2>3. proc = "up" /\ cfg.mode = "private"
    BY <2>2 DEF Types, PrivateInv, SaveInv
  <2>4. SaveInv'
    BY <2>1, <2>2, <2>3, SaveMoves DEF PrivateInv
  <2>5. Writing(h)'
    BY <2>1 DEF Moves, Writing
  <2>6. QED
    BY <2>2, <2>3, <2>4, <2>5 DEF PrivateInv, PrivateStays
<1>11. ASSUME NEW h \in Handler, WriteConfig(h) PROVE PrivateInv'
  <2>1. Moves(h, "idle", Nothing, {}, Default)
    BY <1>11, IdleMoves DEF WriteConfig
  <2>2. /\ Writing(h) /\ UNCHANGED <<proc, cfg, run, wasPrivate, cut>>
        /\ yaml' = Whole(handler[h].text) \/ yaml' = Garbled
    BY <1>11 DEF WriteConfig, Writing
  <2>3. proc = "up" /\ handler[h].text.mode = "private"
    BY <2>2 DEF Types, PrivateInv, SaveInv, Writing
  <2>4. SaveInv'
    BY <2>1, <2>2, SaveMoves DEF PrivateInv
  <2>5. yaml' = Garbled \/ SaysPrivate(yaml)'
    BY <2>2, <2>3 DEF SaysPrivate
  <2>6. QED
    BY <2>2, <2>3, <2>4, <2>5 DEF PrivateInv, PrivateStays
<1>12. ASSUME NEW h \in Handler, WriteFails(h) PROVE PrivateInv'
  <2>1. Moves(h, "idle", Nothing, {}, Default)
    BY <1>12, IdleMoves DEF WriteFails
  <2>2. /\ UNCHANGED <<proc, cfg, run, wasPrivate>>
        /\ cut' = TRUE \/ (~Writing(h) /\ UNCHANGED <<yaml, cut>>)
        /\ handler[h].pc # "idle"
    BY <1>12 DEF WriteFails, Writing
  <2>3. proc = "up"
    BY <2>2 DEF Types
  <2>4. SaveInv'
    BY <2>1, <2>2, SaveMoves DEF PrivateInv
  <2>5. \A g \in Handler \ {h} : Writing(g) => Writing(g)'
    BY <2>1 DEF Moves, Writing
  <2>6. QED
    BY <2>2, <2>3, <2>4, <2>5 DEF PrivateInv, PrivateStays, SaysPrivate
<1>13. ASSUME NEW e \in Edits, OperatorEdit(e) PROVE PrivateInv'
  <2>1. proc \in {"down", "up"} /\ wasPrivate' = FALSE /\ UNCHANGED <<proc, cfg, run, handler>>
    BY <1>13 DEF OperatorEdit
  <2>2. QED
    BY <2>1 DEF PrivateInv, SaveInv, PrivateStays, Writing
<1>14. CASE UNCHANGED <<yaml, proc, cfg, run, handler, wasPrivate, cut>>
  BY <1>14 DEF PrivateInv, SaveInv, PrivateStays, Writing, SaysPrivate
<1>15. QED
  BY <1>1, <1>2, <1>3, <1>4, <1>5, <1>6, <1>7, <1>8, <1>9, <1>10, <1>11, <1>12, <1>13, <1>14
     DEF Next, Generate, vars, files, history

\* Unless a write of config.yaml was cut short or the operator edits it, a node that was
\* on a private network comes up on one, however acceptances overlap.
THEOREM PrivateNodesStay == Spec => []PrivateStays
<1>1. PrivateInv => PrivateStays
  BY DEF PrivateInv
<1>2. QED
  BY <1>1, TypesInit, TypesStep, PrivateInit, PrivateStep, PTL DEF Spec

-----------------------------------------------------------------------------
(***************************************************************************)
(* The identity.  Whoever the node has run as is whom its key file names: the  *)
(* file at a path changes only while it does not exist, and no identity ran    *)
(* from there.                                                             *)
(***************************************************************************)

IdInv ==
  /\ \A b \in born : keyFile[b.key] = Whole(b.id)
  /\ proc = "psk" => keyFile[cfg.key] = Whole(run.id)

LEMMA IdInit == Init => IdInv
  BY DEF Init, IdInv

\* A key file changes only while it does not exist.
LEMMA KeyFilesStay ==
  ASSUME Types, IdInv, born' = born,
         \A k \in KeyPath : keyFile'[k] = keyFile[k] \/ keyFile[k] = Absent
  PROVE  \A b \in born' : keyFile'[b.key] = Whole(b.id)
<1>1. \A b \in born : b.key \in KeyPath
  BY DEF Types
<1>2. QED
  BY <1>1, WholeFacts DEF IdInv

LEMMA IdStep == Types /\ IdInv /\ [Next]_vars => IdInv'
<1> SUFFICES ASSUME Types, IdInv, [Next]_vars PROVE IdInv'
  OBVIOUS
<1>1. CASE Load
  <2>1. UNCHANGED <<keyFile, born>> /\ proc' \in {"down", "identity"}
    BY <1>1, LoadFacts
  <2>2. QED
    BY <2>1 DEF IdInv
<1>2. ASSUME NEW i \in Identity, LoadOrCreateIdentity(i) PROVE IdInv'
  <2>1. run'.id = i /\ UNCHANGED <<born, cfg>>
    BY <1>2 DEF LoadOrCreateIdentity, NotBuilt, history
  <2>2. /\ keyFile'[cfg.key] = Whole(i)
        /\ \A k \in KeyPath : keyFile'[k] = keyFile[k] \/ keyFile[k] = Absent
    BY <1>2 DEF LoadOrCreateIdentity, Types, Config
  <2>3. QED
    BY <2>1, <2>2, KeyFilesStay DEF IdInv
<1>3. CASE Start
  <2>1. /\ proc = "psk" /\ proc' = "up" /\ keyFile' = keyFile
        /\ born' = born \cup {[key |-> cfg.key, id |-> run.id]}
    BY <1>3 DEF Start, files
  <2>2. QED
    BY <2>1 DEF IdInv
<1>4. CASE StartFails \/ Shutdown
  <2>1. proc' = "down" /\ UNCHANGED <<keyFile, born>>
    BY <1>4 DEF StartFails, Shutdown, Gone, files, history
  <2>2. QED
    BY <2>1 DEF IdInv
<1>5. CASE Crash
  <2>1. /\ proc' = "down" /\ born' = born
        /\ \A k \in KeyPath : keyFile'[k] = keyFile[k] \/ keyFile[k] = Absent
    BY <1>5 DEF Crash, Gone, Types
  <2>2. QED
    BY <2>1, KeyFilesStay DEF IdInv
<1>6. ASSUME NEW h \in Handler, Apply(h) \/ AppendPeers(h) PROVE IdInv'
  <2>1. proc = "up" /\ UNCHANGED <<keyFile, proc, born>>
    BY <1>6, ApplyFacts, AppendFacts DEF Types, history
  <2>2. QED
    BY <2>1 DEF IdInv
<1>7. CASE UNCHANGED <<keyFile, proc, cfg, run, born>>
  BY <1>7 DEF IdInv
<1>8. QED
  BY <1>1, <1>2, <1>3, <1>4, <1>5, <1>6, <1>7
     DEF Next, Generate, Accept, OpenPSK, WritePSK, OpenConfig, WriteConfig, WriteFails,
         OperatorEdit, vars, files, history

(***************************************************************************)
(* The key path.  Once the node has run from p, and until an edit, p is the    *)
(* path in the shared Config, and so in every text that a handler saves and in *)
(* config.yaml, but while a handler is writing that.                         *)
(***************************************************************************)

Keyed(p) ==
  /\ yaml # Absent
  /\ yaml.is = "whole" => yaml.x.key = p \/ \E h \in Handler : Writing(h)
  /\ proc # "down" => cfg.key = p
  /\ \A h \in Handler : Writing(h) => handler[h].text.key = p

PathInv ==
  ~cut => /\ \A p \in paths : Keyed(p)
          /\ \A p, q \in paths : p = q

LEMMA PathInit == Init => PathInv
  BY DEF Init, PathInv

\* A step of a handler that neither is writing config.yaml nor begins to.
LEMMA PathMoves ==
  ASSUME PathInv, NEW h \in Handler, NEW l \in PC \ {"saveWrite"}, NEW inv, NEW list, NEW text,
         Moves(h, l, inv, list, text), ~Writing(h),
         cfg'.key = cfg.key, UNCHANGED <<yaml, proc, paths, cut>>
  PROVE  PathInv'
<1>1. ~Writing(h)' /\ \A g \in Handler \ {h} : handler'[g] = handler[g] /\ Writing(g)' = Writing(g)
  BY DEF Moves, Writing
<1>2. \A p : Keyed(p) => Keyed(p)'
  BY <1>1 DEF Keyed
<1>3. QED
  BY <1>2 DEF PathInv

LEMMA PathStep == Types /\ PrivateInv /\ PathInv /\ [Next]_vars => PathInv'
<1> SUFFICES ASSUME Types, PrivateInv, PathInv, [Next]_vars PROVE PathInv'
  OBVIOUS
<1> USE WholeFacts
<1>1. CASE Load
  <2>1. proc = "down" /\ UNCHANGED <<handler, paths>>
    BY <1>1, LoadFacts
  <2>2. \A h \in Handler : ~Writing(h) /\ ~Writing(h)'
    BY <2>1 DEF Types, Writing
  <2>3. CASE cut' = TRUE
    BY <2>3 DEF PathInv
  <2>4. CASE /\ yaml' = Whole(cfg') /\ cut' = cut
             /\ yaml # Absent => yaml.is = "whole" /\ cfg'.key = yaml.x.key
    <3>1. \A p : Keyed(p) => Keyed(p)'
      BY <2>2, <2>4 DEF Keyed
    <3>2. QED
      BY <2>1, <2>4, <3>1 DEF PathInv
  <2>5. QED
    BY <1>1, <2>3, <2>4, LoadFacts
<1>2. ASSUME NEW i \in Identity, LoadOrCreateIdentity(i) PROVE PathInv'
  <2>1. proc = "identity" /\ proc' = "psk" /\ UNCHANGED <<yaml, cfg, handler, paths, cut>>
    BY <1>2 DEF LoadOrCreateIdentity, history
  <2>2. QED
    BY <2>1 DEF PathInv, Keyed, Writing
<1>3. CASE Start
  <2>1. /\ proc = "psk" /\ proc' = "up" /\ paths' = paths \cup {cfg.key}
        /\ UNCHANGED <<yaml, cfg, handler, cut>>
    BY <1>3 DEF Start, files
  <2>2. yaml = Whole(cfg) /\ \A h \in Handler : ~Writing(h)
    BY <2>1 DEF PrivateInv, Types, Writing
  <2>3. Keyed(cfg.key)'
    BY <2>1, <2>2 DEF Keyed, Writing
  <2>4. ~cut => \A p \in paths : p = cfg.key
    BY <2>1 DEF PathInv, Keyed
  <2>5. QED
    BY <2>1, <2>3, <2>4 DEF PathInv
<1>4. CASE StartFails \/ Shutdown
  <2>1. proc' = "down" /\ UNCHANGED <<yaml, handler, paths, cut>>
    BY <1>4 DEF StartFails, Shutdown, Gone, files, history
  <2>2. QED
    BY <2>1 DEF PathInv, Keyed, Writing
<1>5. CASE Crash
  <2>1. proc' = "down" /\ paths' = paths /\ handler' = [h \in Handler |-> Idle]
    BY <1>5 DEF Crash, Gone
  <2>2. \A h \in Handler : ~Writing(h)'
    BY <2>1, IdleFacts DEF Writing
  <2>3. ~cut' => yaml' = yaml /\ ~cut /\ \A h \in Handler : ~Writing(h)
    <3>1. CASE yaml' = yaml /\ cut' = (cut \/ \E h \in Handler : Writing(h))
      BY <3>1
    <3>2. CASE cut' = TRUE
      BY <3>2
    <3>3. CASE proc = "identity" /\ UNCHANGED <<yaml, cut>>
      BY <3>3 DEF Types, Writing
    <3>4. QED
      BY <1>5, <3>1, <3>2, <3>3 DEF Crash
  <2>4. QED
    BY <2>1, <2>2, <2>3 DEF PathInv, Keyed
<1>6. ASSUME NEW h \in Handler, NEW inv \in Invites, Accept(h, EncodeInvite(inv)) PROVE PathInv'
  <2>1. /\ Moves(h, "psk", inv, handler[h].list, handler[h].text) /\ ~Writing(h)
        /\ UNCHANGED <<yaml, proc, cfg, paths, cut>>
    BY <1>6, AcceptFacts DEF Writing
  <2>2. QED
    BY <2>1, PathMoves DEF PC
<1>7. ASSUME NEW h \in Handler, OpenPSK(h) \/ WritePSK(h) PROVE PathInv'
  <2>1. \E l \in {"pskWrite", "apply"} : HandlerGo(h, l)
    BY <1>7 DEF OpenPSK, WritePSK
  <2>2. PICK l \in {"pskWrite", "apply"} :
          Moves(h, l, handler[h].inv, handler[h].list, handler[h].text)
    BY <2>1, GoMoves DEF PC
  <2>3. ~Writing(h) /\ UNCHANGED <<yaml, proc, cfg, paths, cut>>
    BY <1>7 DEF OpenPSK, WritePSK, Writing, history
  <2>4. QED
    BY <2>2, <2>3, PathMoves DEF PC
<1>8. ASSUME NEW h \in Handler, Apply(h) \/ AppendPeers(h) PROVE PathInv'
  <2>1. /\ ~Writing(h) /\ cfg'.key = cfg.key
        /\ UNCHANGED <<yaml, proc, paths, cut>>
    BY <1>8, ApplyFacts, AppendFacts DEF Writing, history
  <2>2. \E l \in {"append", "save"} : \E list :
          Moves(h, l, handler[h].inv, list, handler[h].text)
    BY <1>8, ApplyFacts, AppendFacts
  <2>3. QED
    BY <2>1, <2>2, PathMoves DEF PC
<1>9. ASSUME NEW h \in Handler, OpenConfig(h) PROVE PathInv'
  <2>1. Moves(h, "saveWrite", handler[h].inv, handler[h].list, cfg)
    BY <1>9, TextMoves DEF OpenConfig
  <2>2. /\ handler[h].pc = "save" /\ yaml' = Whole(Default)
        /\ UNCHANGED <<proc, cfg, paths, cut>>
    BY <1>9 DEF OpenConfig, history
  <2>3. proc = "up"
    BY <2>2 DEF Types
  <2>4. /\ Writing(h)' /\ handler'[h].text = cfg
        /\ \A g \in Handler \ {h} : handler'[g] = handler[g] /\ Writing(g)' = Writing(g)
    BY <2>1 DEF Moves, Writing
  <2>5. \A p : Keyed(p) => Keyed(p)'
    BY <2>2, <2>3, <2>4 DEF Keyed
  <2>6. QED
    BY <2>2, <2>5 DEF PathInv
<1>10. ASSUME NEW h \in Handler, WriteConfig(h) PROVE PathInv'
  <2>1. Moves(h, "idle", Nothing, {}, Default)
    BY <1>10, IdleMoves DEF WriteConfig
  <2>2. /\ Writing(h) /\ UNCHANGED <<proc, cfg, paths, cut>>
        /\ yaml' = Whole(handler[h].text) \/ yaml' = Garbled
    BY <1>10 DEF WriteConfig, Writing
  <2>3. /\ ~Writing(h)'
        /\ \A g \in Handler \ {h} : handler'[g] = handler[g] /\ Writing(g)' = Writing(g)
    BY <2>1 DEF Moves, Writing
  <2>4. \A p : Keyed(p) => Keyed(p)'
    BY <2>2, <2>3 DEF Keyed
  <2>5. QED
    BY <2>2, <2>4 DEF PathInv
<1>11. ASSUME NEW h \in Handler, WriteFails(h) PROVE PathInv'
  <2>1. Moves(h, "idle", Nothing, {}, Default)
    BY <1>11, IdleMoves DEF WriteFails
  <2>2. /\ UNCHANGED <<proc, cfg, paths>>
        /\ cut' = TRUE \/ (~Writing(h) /\ UNCHANGED <<yaml, cut>>)
    BY <1>11 DEF WriteFails, Writing
  <2>3. CASE cut' = TRUE
    BY <2>3 DEF PathInv
  <2>4. CASE ~Writing(h) /\ UNCHANGED <<yaml, cut>>
    BY <2>1, <2>2, <2>4, PathMoves DEF PC
  <2>5. QED
    BY <2>2, <2>3, <2>4
<1>12. ASSUME NEW e \in Edits, OperatorEdit(e) PROVE PathInv'
  BY <1>12 DEF OperatorEdit, PathInv
<1>13. CASE UNCHANGED <<yaml, proc, cfg, handler, paths, cut>>
  BY <1>13 DEF PathInv, Keyed, Writing
<1>14. QED
  BY <1>1, <1>2, <1>3, <1>4, <1>5, <1>6, <1>7, <1>8, <1>9, <1>10, <1>11, <1>12, <1>13
     DEF Next, Generate, vars, files, history

LEMMA IdImplies == IdInv /\ PathInv => IdentityStable
  BY WholeFacts DEF IdInv, PathInv, IdentityStable

\* However often the node crashes, fails to start and starts again, it runs under one
\* identity for each key path, and from one path until an edit or a cut config.yaml.
THEOREM OneIdentity == Spec => []IdentityStable
  BY TypesInit, TypesStep, PrivateInit, PrivateStep, PathInit, PathStep, IdInit, IdStep,
     IdImplies, PTL DEF Spec

-----------------------------------------------------------------------------
(***************************************************************************)
(* An acceptance that nothing overlapped.  alone names a handler only while    *)
(* every other one is idle: what it has written and set is there when it goes  *)
(* on.  What it was answered for stays in the files, as the next acceptance    *)
(* and an edit forget joined before they change them.                        *)
(***************************************************************************)

AllIdle == \A h \in Handler : handler[h].pc = "idle"

\* What the handler h, alone, has done so far.
Progress(h) ==
  /\ handler[h].pc # "idle"
  /\ \A g \in Handler \ {h} : handler[g].pc = "idle"
  /\ handler[h].pc \in {"apply", "append", "save", "saveWrite"} =>
       pskFile = Whole(handler[h].inv.psk)
  /\ handler[h].pc = "append" => Range(handler[h].inv.addrs) \subseteq handler[h].list
  /\ handler[h].pc = "save" => Range(handler[h].inv.addrs) \subseteq cfg.peers
  /\ handler[h].pc = "saveWrite" => Range(handler[h].inv.addrs) \subseteq handler[h].text.peers

\* The files say what inv says.
OnFile(inv) ==
  /\ pskFile = Whole(inv.psk)
  /\ SaysPrivate(yaml)
  /\ Range(inv.addrs) \subseteq yaml.x.peers

JoinInv ==
  /\ \A h \in alone : Progress(h)
  /\ alone # {} => joined = Nothing
  /\ joined # Nothing => AllIdle /\ OnFile(joined)

LEMMA JoinInit == Init => JoinInv
  BY DEF Init, JoinInv

\* A step of one handler that leaves joined alone.
LEMMA JoinMoves ==
  ASSUME Types, JoinInv, NEW h \in Handler, handler[h].pc # "idle",
         \A g \in Handler \ {h} : handler'[g] = handler[g],
         alone' \subseteq alone, joined' = joined,
         h \in alone' => Progress(h)'
  PROVE  JoinInv'
<1>1. joined = Nothing
  BY DEF JoinInv, AllIdle
<1>2. \A g \in alone : g = h
  BY DEF JoinInv, Progress, Types
<1>3. QED
  BY <1>1, <1>2 DEF JoinInv

\* A step in which no handler is at work.
LEMMA JoinIdle ==
  ASSUME Types, JoinInv, AllIdle, AllIdle', joined' = joined, alone' \subseteq alone,
         joined # Nothing => UNCHANGED <<pskFile, yaml>>
  PROVE  JoinInv'
<1>1. alone = {}
  BY DEF JoinInv, Progress, AllIdle, Types
<1>2. joined # Nothing => OnFile(joined)'
  BY DEF JoinInv, OnFile, SaysPrivate
<1>3. QED
  BY <1>1, <1>2 DEF JoinInv

LEMMA JoinStep == Types /\ PrivateInv /\ JoinInv /\ [Next]_vars => JoinInv'
<1> SUFFICES ASSUME Types, PrivateInv, JoinInv, [Next]_vars PROVE JoinInv'
  OBVIOUS
<1> USE WholeFacts
<1>1. CASE Load
  <2>1. proc = "down" /\ UNCHANGED <<pskFile, handler, alone, joined>>
    BY <1>1, LoadFacts
  <2>2. AllIdle /\ AllIdle'
    BY <2>1 DEF Types, AllIdle
  <2>3. joined # Nothing => SaysPrivate(yaml)
    BY DEF JoinInv, OnFile
  <2>4. SaysPrivate(yaml) => yaml' = yaml
    BY <1>1, LoadFacts
  <2>5. QED
    BY <2>1, <2>2, <2>3, <2>4, JoinIdle
<1>2. ASSUME NEW h \in Handler, NEW inv \in Invites, Accept(h, EncodeInvite(inv)) PROVE JoinInv'
  <2>1. /\ Moves(h, "psk", inv, handler[h].list, handler[h].text)
        /\ alone' = IF AllIdle THEN {h} ELSE {}
        /\ joined' = Nothing
    BY <1>2, AcceptFacts DEF AllIdle
  <2>2. ASSUME AllIdle PROVE Progress(h)'
    BY <2>1, <2>2 DEF Moves, AllIdle, Progress
  <2>3. QED
    BY <2>1, <2>2 DEF JoinInv
<1>3. ASSUME NEW h \in Handler, OpenPSK(h) PROVE JoinInv'
  <2>1. Moves(h, "pskWrite", handler[h].inv, handler[h].list, handler[h].text)
    BY <1>3, GoMoves DEF OpenPSK, PC
  <2>2. handler[h].pc = "psk" /\ UNCHANGED <<alone, joined>>
    BY <1>3 DEF OpenPSK, history
  <2>3. h \in alone => Progress(h)'
    BY <2>1 DEF JoinInv, Progress, Moves
  <2>4. QED
    BY <2>1, <2>2, <2>3, JoinMoves DEF Moves
<1>4. ASSUME NEW h \in Handler, WritePSK(h) PROVE JoinInv'
  <2>1. Moves(h, "apply", handler[h].inv, handler[h].list, handler[h].text)
    BY <1>4, GoMoves DEF WritePSK, PC
  <2>2. /\ handler[h].pc = "pskWrite" /\ UNCHANGED <<alone, joined>>
        /\ pskFile' = Whole(handler[h].inv.psk)
    BY <1>4 DEF WritePSK, history
  <2>3. h \in alone => Progress(h)'
    BY <2>1, <2>2 DEF JoinInv, Progress, Moves
  <2>4. QED
    BY <2>1, <2>2, <2>3, JoinMoves DEF Moves
<1>5. ASSUME NEW h \in Handler, Apply(h) PROVE JoinInv'
  <2>1. /\ Moves(h, "append", handler[h].inv, cfg.peers \cup Range(handler[h].inv.addrs),
                 handler[h].text)
        /\ handler[h].pc = "apply" /\ UNCHANGED <<pskFile, alone, joined>>
    BY <1>5, ApplyFacts DEF history
  <2>2. h \in alone => Progress(h)'
    BY <2>1 DEF JoinInv, Progress, Moves
  <2>3. QED
    BY <2>1, <2>2, JoinMoves DEF Moves
<1>6. ASSUME NEW h \in Handler, AppendPeers(h) PROVE JoinInv'
  <2>1. /\ Moves(h, "save", handler[h].inv, handler[h].list, handler[h].text)
        /\ handler[h].pc = "append" /\ cfg'.peers = handler[h].list
        /\ UNCHANGED <<pskFile, alone, joined>>
    BY <1>6, AppendFacts DEF history
  <2>2. h \in alone => Progress(h)'
    BY <2>1 DEF JoinInv, Progress, Moves
  <2>3. QED
    BY <2>1, <2>2, JoinMoves DEF Moves
<1>7. ASSUME NEW h \in Handler, OpenConfig(h) PROVE JoinInv'
  <2>1. Moves(h, "saveWrite", handler[h].inv, handler[h].list, cfg)
    BY <1>7, TextMoves DEF OpenConfig
  <2>2. handler[h].pc = "save" /\ UNCHANGED <<pskFile, alone, joined>>
    BY <1>7 DEF OpenConfig, history
  <2>3. h \in alone => Progress(h)'
    BY <2>1, <2>2 DEF JoinInv, Progress, Moves
  <2>4. QED
    BY <2>1, <2>2, <2>3, JoinMoves DEF Moves
<1>8. ASSUME NEW h \in Handler, WriteConfig(h) PROVE JoinInv'
  <2>1. Moves(h, "idle", Nothing, {}, Default)
    BY <1>8, IdleMoves DEF WriteConfig
  <2>2. handler[h].pc = "saveWrite" /\ alone' = {} /\ pskFile' = pskFile
    BY <1>8 DEF WriteConfig
  <2>3. CASE h \in alone
    <3>1. joined' = handler[h].inv /\ yaml' = Whole(handler[h].text)
      BY <1>8, <2>3 DEF WriteConfig
    <3>2. Progress(h) /\ handler[h].text.mode = "private"
      BY <2>2, <2>3 DEF JoinInv, PrivateInv, SaveInv, Writing
    <3>3. AllIdle'
      BY <2>1, <3>2 DEF AllIdle, Moves, Progress
    <3>4. OnFile(joined)'
      BY <2>2, <3>1, <3>2 DEF OnFile, SaysPrivate, Progress
    <3>5. QED
      BY <2>2, <3>3, <3>4 DEF JoinInv
  <2>4. CASE h \notin alone
    <3>1. joined' = joined
      BY <1>8, <2>4 DEF WriteConfig
    <3>2. QED
      BY <2>1, <2>2, <3>1, JoinMoves DEF Moves
  <2>5. QED
    BY <2>3, <2>4
<1>9. ASSUME NEW h \in Handler, WriteFails(h) PROVE JoinInv'
  <2>1. Moves(h, "idle", Nothing, {}, Default)
    BY <1>9, IdleMoves DEF WriteFails
  <2>2. handler[h].pc # "idle" /\ alone' = alone \ {h} /\ joined' = joined
    BY <1>9 DEF WriteFails, Writing
  <2>3. QED
    BY <2>1, <2>2, JoinMoves DEF Moves
<1>10. CASE Crash
  <2>1. /\ handler' = [h \in Handler |-> Idle] /\ alone' = {} /\ joined' = joined
        /\ pskFile' = pskFile
    BY <1>10 DEF Crash
  <2>2. AllIdle'
    BY <2>1, IdleFacts DEF AllIdle
  <2>3. AllIdle => yaml' = yaml
    BY <1>10 DEF Crash, AllIdle, Writing
  <2>4. joined # Nothing => AllIdle /\ OnFile(joined)
    BY DEF JoinInv
  <2>5. joined' # Nothing => OnFile(joined)'
    BY <2>1, <2>3, <2>4 DEF OnFile, SaysPrivate
  <2>6. QED
    BY <2>1, <2>2, <2>5 DEF JoinInv
<1>11. ASSUME NEW e \in Edits, OperatorEdit(e) PROVE JoinInv'
  BY <1>11 DEF OperatorEdit, JoinInv
<1>12. CASE UNCHANGED <<yaml, pskFile, handler, alone, joined>> /\ (cfg' = cfg \/ AllIdle)
  <2>1. CASE AllIdle
    <3>1. AllIdle'
      BY <1>12, <2>1 DEF AllIdle
    <3>2. QED
      BY <1>12, <2>1, <3>1, JoinIdle
  <2>2. CASE cfg' = cfg
    BY <1>12, <2>2 DEF JoinInv, Progress, AllIdle, OnFile, SaysPrivate
  <2>3. QED
    BY <1>12, <2>1, <2>2
<1>13. CASE StartFails \/ Shutdown
  <2>1. UNCHANGED <<yaml, pskFile, handler, alone, joined>>
    BY <1>13 DEF StartFails, Shutdown, files, history
  <2>2. AllIdle
    BY <1>13 DEF StartFails, Shutdown, AllIdle, Types
  <2>3. QED
    BY <1>12, <2>1, <2>2
<1>14. ASSUME NEW i \in Identity, LoadOrCreateIdentity(i) PROVE JoinInv'
  BY <1>12, <1>14 DEF LoadOrCreateIdentity, history
<1>15. CASE Start \/ Generate \/ UNCHANGED vars
  BY <1>12, <1>15 DEF Start, Generate, vars, files, history
<1>16. QED
  BY <1>1, <1>2, <1>3, <1>4, <1>5, <1>6, <1>7, <1>8, <1>9, <1>10, <1>11, <1>13, <1>14, <1>15
     DEF Next

\* The start after an acceptance that was answered "accepted".
LEMMA JoinStart ==
  ASSUME Types, PrivateInv, JoinInv, [Next]_vars, proc # "up", proc' = "up", joined # Nothing
  PROVE  /\ run'.mode = "private"
         /\ run'.psk = joined.psk
         /\ Range(joined.addrs) \subseteq run'.peers
<1>1. \A h \in Handler : handler[h].pc = "idle"
  BY DEF JoinInv, AllIdle
<1>2. Start
  <2>1. ~Load
    BY LoadFacts
  <2>2. QED
    BY <1>1, <2>1
       DEF Next, LoadOrCreateIdentity, StartFails, Generate, Accept, OpenPSK, WritePSK, Apply,
           AppendPeers, OpenConfig, WriteConfig, WriteFails, Writing, Shutdown, Crash, Gone,
           OperatorEdit, vars
<1>3. proc = "psk" /\ yaml = Whole(cfg) /\ OnFile(joined)
  BY <1>2 DEF Start, PrivateInv, JoinInv
<1>4. cfg.mode = "private" /\ Range(joined.addrs) \subseteq cfg.peers /\ pskFile.x = joined.psk
  BY <1>3, WholeFacts DEF OnFile, SaysPrivate
<1>5. /\ run' = [id |-> run.id, mode |-> cfg.mode, net |-> Scope(cfg),
                 peers |-> BootstrapPeers(cfg),
                 psk |-> IF cfg.mode = "private" /\ LoadPSK THEN pskFile.x ELSE NoLabel]
      /\ LoadPSK
  BY <1>2, <1>4 DEF Start
<1>6. run'.mode = cfg.mode /\ run'.peers = BootstrapPeers(cfg) /\ run'.psk = pskFile.x
  BY <1>4, <1>5
<1>7. Range(joined.addrs) \subseteq BootstrapPeers(cfg)
  BY <1>4 DEF BootstrapPeers
<1>8. QED
  BY <1>4, <1>6, <1>7

\* A start after an acceptance that was answered "accepted", and that no other acceptance
\* and no edit overlapped or followed, puts the node on the network of the invite, with
\* its key and its addresses.
THEOREM AcceptedInvitesJoin == Spec => AcceptedJoins
<1>1. Types /\ PrivateInv /\ JoinInv /\ [Next]_vars =>
        [proc # "up" /\ proc' = "up" /\ joined # Nothing =>
           /\ run'.mode = "private"
           /\ run'.psk = joined.psk
           /\ Range(joined.addrs) \subseteq run'.peers]_vars
  BY JoinStart
<1>2. QED
  BY <1>1, TypesInit, TypesStep, PrivateInit, PrivateStep, JoinInit, JoinStep, PTL
     DEF Spec, AcceptedJoins

-----------------------------------------------------------------------------
(***************************************************************************)
(* The invite that is handed out.  LoadPSK has seen a whole key when the code  *)
(* is made, and the label in the Config, cut or not, is one.                  *)
(***************************************************************************)

LEMMA IssuedFacts == Types => IssuedDecodes
<1> SUFFICES ASSUME Types, Issues
             PROVE  /\ Issued.psk \in PSK
                    /\ Decodable(EncodeInvite(Issued))
                    /\ DecodeInvite(EncodeInvite(Issued)) = Issued
  BY DEF IssuedDecodes
<1> USE ConfigAssumption
<1>1. pskFile.x \in PSK /\ cfg.net \in Label \cup {NoLabel}
  BY FileCases DEF Issues, LoadPSK, Types, Config
<1>2. Issued \in Invite /\ Issued.psk \in PSK
  BY <1>1 DEF Issued, Invite
<1>3. Encodable(Issued)
  BY DEF Issues
<1>4. QED
  BY <1>2, <1>3, InviteRoundTrip

\* Every invite handed out is read back whole: the key of a network, every address and
\* the label.
THEOREM IssuedInvitesDecode == Spec => []IssuedDecodes
  BY TypesInit, TypesStep, IssuedFacts, PTL DEF Spec
=============================================================================
