--------------------------- MODULE RendezvousRules --------------------------
(***************************************************************************)
(* The map of internal/api/rendezvous.go: namespace -> (record, expiry,     *)
(* registered here), and what each method of rendezvousStore does to it     *)
(* under rendezvousStore.mu.  Time is in ticks, Second ticks to a second:   *)
(* expiries are kept in full in memory and in whole seconds on disk.        *)
(***************************************************************************)
EXTENDS Integers, FiniteSets

CONSTANTS
  Namespace,
  Record,
  None,          \* no entry for the namespace
  MaxEntries,    \* 20000 in the code
  MaxTTL,        \* one hour in the code
  Second

ASSUME RendezvousAssumption ==
  /\ None \notin [record : Record, expires : Int, local : BOOLEAN]
  /\ MaxEntries \in Nat \ {0}
  /\ MaxTTL \in Nat \ {0}
  /\ Second \in Nat \ {0}

rendezvousEntry == [record : Record, expires : Int, local : BOOLEAN]

Entries == [Namespace -> rendezvousEntry \cup {None}]

NoEntries == [n \in Namespace |-> None]

Used(m) == {n \in Namespace : m[n] # None}

AtCapacity(m, n) == m[n] = None /\ Cardinality(Used(m)) >= MaxEntries

\* The TTL that handleRendezvousRegister passes on, or that gossip is cut to.
Clip(ttl) == IF ttl <= 0 \/ ttl > MaxTTL THEN MaxTTL ELSE ttl

Past(e, now) == now > e.expires

Entry(r, exp, local) == [record |-> r, expires |-> exp, local |-> local]

AfterPut(m, n, r, exp) == [m EXCEPT ![n] = Entry(r, exp, TRUE)]

\* Mutated form of RemoteIgnored: a record is never replaced.
RemoteIgnoredIfKnown(m, n, exp) == m[n] # None \/ AtCapacity(m, n)

\* putRemote ignores a record that does not live longer than the one it has.
RemoteIgnored(m, n, exp) ==
  IF m[n] = None THEN AtCapacity(m, n) ELSE m[n].expires >= exp

AfterPutRemote(m, n, r, exp) ==
  [m EXCEPT ![n] = Entry(r, exp, m[n] # None /\ m[n].local)]

\* The janitor's pass.
Cleaned(m, now) ==
  [n \in Namespace |-> IF m[n] # None /\ Past(m[n], now) THEN None ELSE m[n]]

\* Mutated form of Unix: seconds are rounded up.
UnixUp(t) == Second * ((t + Second - 1) \div Second)

\* time.Time.Unix drops the fraction of the second.
Unix(t) == Second * (t \div Second)

\* snapshotLocked
Snapshot(m) ==
  [n \in Namespace |->
     IF m[n] = None THEN None
     ELSE Entry(m[n].record, Unix(m[n].expires), m[n].local)]

\* load keeps what expires after now.
Loaded(m, now) ==
  [n \in Namespace |-> IF m[n] # None /\ m[n].expires > now THEN m[n] ELSE None]
=============================================================================
