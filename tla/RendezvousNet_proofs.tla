------------------------ MODULE RendezvousNet_proofs ------------------------
(***************************************************************************)
(* Theorems about RendezvousNet, for any number of nodes, namespaces and     *)
(* messages lost.                                                          *)
(***************************************************************************)
EXTENDS RendezvousNet, FiniteSetTheorems, TLAPS

-----------------------------------------------------------------------------
(***************************************************************************)
(* Types: TypeOK without the bound on behind, which is SpreadsInTime, and    *)
(* with expiries of at most MaxTTL, which Clip sees to.                      *)
(***************************************************************************)

Live == [record : Record, expires : -1..MaxTTL, local : BOOLEAN]

Directory == [Namespace -> Live \cup {None}]

Types ==
  /\ entries \in [Node -> Directory]
  /\ timer \in [Node -> 0..ReannounceInterval]
  /\ pending \in [Node -> SUBSET Registration]
  /\ inbox \in [Node -> SUBSET rendezvousMsg]
  /\ \A n \in Node : \A msg \in inbox[n] : msg.expires <= MaxTTL
  /\ lost \in 0..MaxLost
  /\ count \in 0..MaxRegistrations
  /\ due \in [Namespace -> [Record -> Span]]
  /\ behind \in [Node -> [Namespace -> Nat]]

LEMMA LiveIsEntry == Live \subseteq rendezvousEntry /\ None \notin Live
  BY RendezvousAssumption DEF Live, rendezvousEntry

LEMMA ClipRange ==
  ASSUME NEW ttl \in Int
  PROVE  Clip(ttl) \in 1..MaxTTL /\ (ttl \in 1..MaxTTL => Clip(ttl) = ttl)
  BY RendezvousAssumption DEF Clip

\* What the methods of the map make of a directory.
LEMMA MapTypes ==
  ASSUME NEW m \in Directory, NEW ns \in Namespace, NEW r \in Record,
         NEW e \in 1..MaxTTL
  PROVE  /\ AfterPut(m, ns, r, e) \in Directory
         /\ AfterPutRemote(m, ns, r, e) \in Directory
         /\ Cleaned(m, 0) \in Directory
         /\ Loaded(m, 0) \in Directory
         /\ [m EXCEPT ![ns] = None] \in Directory
<1> USE RendezvousAssumption
<1>1. e \in -1..MaxTTL
  OBVIOUS
<1>2. m[ns] # None => m[ns].local \in BOOLEAN
  BY DEF Directory, Live
<1>3. (m[ns] # None /\ m[ns].local) \in BOOLEAN
  OBVIOUS
<1>4. Entry(r, e, TRUE) \in Live /\ Entry(r, e, m[ns] # None /\ m[ns].local) \in Live
  BY <1>1, <1>3 DEF Entry, Live
<1>5. QED
  BY <1>4 DEF AfterPut, AfterPutRemote, Cleaned, Loaded, Directory

LEMMA MessageType ==
  ASSUME NEW ns \in Namespace, NEW r \in Record, NEW e \in -1..MaxTTL
  PROVE  message(ns, r, e) \in rendezvousMsg /\ message(ns, r, e).expires <= MaxTTL
<1>1. e \in Span /\ MaxDelay \in 0..MaxDelay
  BY RendezvousAssumption, NetAssumption DEF Span
<1>2. QED
  BY <1>1, RendezvousAssumption DEF message, rendezvousMsg

LEMMA AnnouncesTypes ==
  ASSUME Types, NEW n \in Node
  PROVE  /\ announces(n) \subseteq rendezvousMsg
         /\ \A msg \in announces(n) : msg.expires <= MaxTTL
<1>1. ASSUME NEW ns \in localEntries(n)
      PROVE  /\ ns \in Namespace
             /\ entries[n][ns].record \in Record
             /\ entries[n][ns].expires \in -1..MaxTTL
  BY DEF Types, Directory, Live, localEntries, Used
<1>2. QED
  BY <1>1, MessageType DEF announces

LEMMA PublishTypes ==
  ASSUME Types, NEW n \in Node, NEW msgs \in SUBSET rendezvousMsg,
         \A msg \in msgs : msg.expires <= MaxTTL,
         inbox' = publish(n, msgs)
  PROVE  /\ inbox' \in [Node -> SUBSET rendezvousMsg]
         /\ \A m \in Node : \A msg \in inbox'[m] : msg.expires <= MaxTTL
  BY DEF publish, Types

LEMMA TypesInit == Init => Types
<1> USE RendezvousAssumption, NetAssumption
<1>1. -1 \in Span
  BY DEF Span
<1>2. QED
  BY <1>1 DEF Init, Types, InTime, NoEntries, Directory

LEMMA InTimeType == InTime \in [Node -> [Namespace -> Nat]]
  BY DEF InTime

LEMMA SoonerRange ==
  ASSUME NEW k \in Int, NEW t \in -1..k
  PROVE  Sooner(t) \in -1..k /\ Sooner(t) <= t
  BY DEF Sooner

LEMMA TypesStep == Types /\ [Next]_vars => Types'
<1> SUFFICES ASSUME Types, [Next]_vars PROVE Types'
  OBVIOUS
<1> USE RendezvousAssumption, NetAssumption
<1>1. CASE Tick
  <2>1. entries' \in [Node -> Directory]
    <3> SUFFICES ASSUME NEW n \in Node, NEW ns \in Namespace
                 PROVE  entries'[n][ns] \in Live \cup {None}
      BY <1>1 DEF Tick, Directory
    <3>1. CASE entries[n][ns] = None
      BY <1>1, <3>1 DEF Tick
    <3>2. CASE entries[n][ns] # None
      <4>1. /\ entries[n][ns] \in Live
            /\ entries'[n][ns] = [entries[n][ns] EXCEPT !.expires = Sooner(@)]
        BY <1>1, <3>2 DEF Tick, Types, Directory
      <4>2. Sooner(entries[n][ns].expires) \in -1..MaxTTL
        BY <4>1, SoonerRange DEF Live
      <4>3. QED
        BY <4>1, <4>2 DEF Live
    <3>3. QED
      BY <3>1, <3>2
  <2>2. timer' \in [Node -> 0..ReannounceInterval]
    <3>1. /\ timer' = [n \in Node |-> timer[n] - 1]
          /\ \A n \in Node : timer[n] > 0 /\ timer[n] \in 0..ReannounceInterval
      BY <1>1 DEF Tick, Types
    <3>2. \A n \in Node : timer[n] - 1 \in 0..ReannounceInterval
      BY <3>1
    <3>3. QED
      BY <3>1, <3>2
  <2>3. pending' \in [Node -> SUBSET Registration]
    <3>1. ASSUME NEW n \in Node, NEW reg \in pending[n]
          PROVE  [reg EXCEPT !.left = @ - 1] \in Registration
      <4>1. reg \in Registration /\ reg.left > 0
        BY <1>1 DEF Tick, Types
      <4>2. reg.left - 1 \in 0..MaxPersist
        BY <4>1 DEF Registration
      <4>3. QED
        BY <4>1, <4>2 DEF Registration
    <3>2. QED
      BY <1>1, <3>1 DEF Tick, Types
  <2>4. /\ inbox' \in [Node -> SUBSET rendezvousMsg]
        /\ \A n \in Node : \A msg \in inbox'[n] : msg.expires <= MaxTTL
    <3>1. ASSUME NEW n \in Node, NEW msg \in inbox[n]
          PROVE  LET next == [msg EXCEPT !.left = @ - 1, !.expires = Sooner(@)]
                 IN  next \in rendezvousMsg /\ next.expires <= MaxTTL
      <4>1. msg \in rendezvousMsg /\ msg.left > 0 /\ msg.expires <= MaxTTL
        BY <1>1 DEF Tick, Types
      <4>2. msg.left - 1 \in 0..MaxDelay
        BY <4>1 DEF rendezvousMsg
      <4>3. msg.expires \in -1..(MaxTTL + MaxPersist)
        BY <4>1 DEF rendezvousMsg, Span
      <4>4. Sooner(msg.expires) \in Span /\ Sooner(msg.expires) <= MaxTTL
        BY <4>1, <4>3, SoonerRange DEF Span
      <4>5. QED
        BY <4>1, <4>2, <4>4 DEF rendezvousMsg
    <3>2. inbox' = [n \in Node |->
                      {[msg EXCEPT !.left = @ - 1, !.expires = Sooner(@)] : msg \in inbox[n]}]
      BY <1>1 DEF Tick
    <3>3. QED
      BY <3>1, <3>2
  <2>5. due' \in [Namespace -> [Record -> Span]]
    <3>1. \A ns \in Namespace, r \in Record : Sooner(due[ns][r]) \in Span
      BY SoonerRange DEF Types, Span
    <3>2. due' = [ns \in Namespace |-> [r \in Record |-> Sooner(due[ns][r])]]
      BY <1>1 DEF Tick
    <3>3. QED
      BY <3>1, <3>2
  <2>6. behind' \in [Node -> [Namespace -> Nat]]
    <3>1. \A n \in Node, ns \in Namespace :
            (IF Lacks(n, ns) THEN behind[n][ns] + 1 ELSE 0) \in Nat
      BY DEF Types
    <3>2. behind' = [n \in Node |-> [ns \in Namespace |->
                       IF Lacks(n, ns) THEN behind[n][ns] + 1 ELSE 0]]
      BY <1>1 DEF Tick
    <3>3. QED
      BY <3>1, <3>2
  <2>7. UNCHANGED <<lost, count>>
    BY <1>1 DEF Tick
  <2>8. QED
    BY <2>1, <2>2, <2>3, <2>4, <2>5, <2>6, <2>7 DEF Types
<1>2. CASE \E n \in Node, ns \in Namespace, r \in Record, ttl \in TTL : Register(n, ns, r, ttl)
  <2> PICK n \in Node, ns \in Namespace, r \in Record, ttl \in TTL : Register(n, ns, r, ttl)
    BY <1>2
  <2>1. Clip(ttl) \in 1..MaxTTL
    BY ClipRange
  <2>2. entries' \in [Node -> Directory]
    BY <2>1, MapTypes DEF Register, Types
  <2>3. [namespace |-> ns, record |-> r, ttl |-> Clip(ttl), left |-> MaxPersist]
          \in Registration
    BY <2>1 DEF Registration
  <2>4. pending' \in [Node -> SUBSET Registration]
    BY <2>3 DEF Register, Types
  <2>5. due' \in [Namespace -> [Record -> Span]]
    <3>1. Clip(ttl) + MaxPersist \in Span
      BY <2>1 DEF Span
    <3>2. Larger(due[ns][r], Clip(ttl) + MaxPersist) \in Span
      BY <3>1 DEF Types, Larger
    <3>3. QED
      BY <3>2 DEF Register, Types
  <2>6. QED
    BY <2>2, <2>4, <2>5, InTimeType DEF Register, Types
<1>3. ASSUME NEW n \in Node, Reannounce(n) PROVE Types'
  BY <1>3, AnnouncesTypes, PublishTypes DEF Reannounce, Types
<1>4. ASSUME NEW n \in Node, Janitor(n) PROVE Types'
  <2>1. Cleaned(entries[n], 0) \in Directory
    BY DEF Types, Cleaned, Directory
  <2>2. QED
    BY <1>4, <2>1 DEF Janitor, Types
<1>5. ASSUME NEW n \in Node, Restart(n) PROVE Types'
  <2>1. Loaded(entries[n], 0) \in Directory
    BY DEF Types, Loaded, Directory
  <2>2. /\ entries' \in [Node -> Directory]
        /\ timer' \in [Node -> 0..ReannounceInterval]
        /\ pending' \in [Node -> SUBSET Registration]
    BY <1>5, <2>1 DEF Restart, Types
  <2>3. /\ inbox' \in [Node -> SUBSET rendezvousMsg]
        /\ \A m \in Node : \A msg \in inbox'[m] : msg.expires <= MaxTTL
    BY <1>5 DEF Restart, Types
  <2>4. QED
    BY <1>5, <2>2, <2>3, InTimeType DEF Restart, Types
<1>6. ASSUME NEW n \in Node, NEW ns \in Namespace, Lookup(n, ns) PROVE Types'
  <2>1. entries' \in [Node -> Directory]
    BY <1>6 DEF Lookup, Types, Directory
  <2>2. QED
    BY <1>6, <2>1 DEF Lookup, Types
<1>7. ASSUME NEW n \in Node, NEW reg \in pending[n], Announce(n, reg) PROVE Types'
  <2>1. reg \in Registration
    BY DEF Types
  <2>2. reg.namespace \in Namespace /\ reg.record \in Record /\ reg.ttl \in -1..MaxTTL
    BY <2>1 DEF Registration
  <2>3. /\ message(reg.namespace, reg.record, reg.ttl) \in rendezvousMsg
        /\ message(reg.namespace, reg.record, reg.ttl).expires <= MaxTTL
    BY <2>2, MessageType
  <2>4. /\ inbox' \in [Node -> SUBSET rendezvousMsg]
        /\ \A m \in Node : \A msg \in inbox'[m] : msg.expires <= MaxTTL
    BY <1>7, <2>3, PublishTypes DEF Announce
  <2>5. QED
    BY <1>7, <2>4 DEF Announce, Types
<1>8. ASSUME NEW n \in Node, NEW msg \in inbox[n], Receive(n, msg) PROVE Types'
  <2>1. msg \in rendezvousMsg
    BY DEF Types
  <2>2. msg.namespace \in Namespace /\ msg.record \in Record /\ Clip(msg.expires) \in 1..MaxTTL
    BY <2>1, ClipRange DEF rendezvousMsg, Span
  <2>3. entries' \in [Node -> Directory]
    BY <1>8, <2>2, MapTypes DEF Receive, Types
  <2>4. behind' \in [Node -> [Namespace -> Nat]]
    BY <1>8, <2>2, InTimeType DEF Receive, Types
  <2>5. QED
    BY <1>8, <2>3, <2>4 DEF Receive, Types
<1>9. ASSUME NEW n \in Node, NEW msg \in inbox[n], Lose(n, msg) PROVE Types'
  BY <1>9 DEF Lose, Types
<1>10. CASE UNCHANGED vars
  BY <1>10 DEF vars, Types
<1>11. QED
  BY <1>1, <1>2, <1>3, <1>4, <1>5, <1>6, <1>7, <1>8, <1>9, <1>10 DEF Next
-----------------------------------------------------------------------------
(***************************************************************************)
(* Lifetimes.  A registration under way may be announced up to MaxPersist    *)
(* after put has stored it, with its whole lifetime ahead of it.             *)
(***************************************************************************)

GrantInv ==
  /\ NoneOverstays
  /\ \A n \in Node : \A reg \in pending[n] :
       reg.ttl + reg.left <= due[reg.namespace][reg.record]

LEMMA GrantInit == Init => GrantInv
  BY DEF Init, GrantInv, NoneOverstays, Used, NoEntries

LEMMA SoonerMonotonic ==
  ASSUME NEW t \in Int, NEW u \in Int, -1 <= t, t <= u
  PROVE  Sooner(t) <= Sooner(u)
  BY DEF Sooner

\* A step that lets no grant end earlier, and that adds no record, message or
\* registration beyond what is granted.
LEMMA GrantKept ==
  ASSUME Types, Types', GrantInv,
         \A ns \in Namespace, r \in Record : due[ns][r] <= due'[ns][r],
         \A n \in Node, ns \in Namespace :
           \/ entries'[n][ns] = None
           \/ entries'[n][ns] = entries[n][ns]
           \/ entries'[n][ns].expires <= due'[ns][entries'[n][ns].record],
         \A n \in Node : \A msg \in inbox'[n] :
           msg \in inbox[n] \/ msg.expires <= due'[msg.namespace][msg.record],
         \A n \in Node : \A reg \in pending'[n] :
           \/ reg \in pending[n]
           \/ reg.ttl + reg.left <= due'[reg.namespace][reg.record]
  PROVE  GrantInv'
<1> USE RendezvousAssumption, NetAssumption
<1>1. \A ns \in Namespace, r \in Record : due[ns][r] \in Int /\ due'[ns][r] \in Int
  BY DEF Types, Span
<1>2. ASSUME NEW n \in Node, NEW ns \in Namespace, entries'[n][ns] # None
      PROVE  entries'[n][ns].expires <= due'[ns][entries'[n][ns].record]
  <2>1. entries'[n][ns] \in Live
    BY <1>2 DEF Types, Directory
  <2>2. CASE entries'[n][ns] = entries[n][ns]
    <3>1. entries[n][ns].expires <= due[ns][entries[n][ns].record]
      BY <1>2, <2>2 DEF GrantInv, NoneOverstays, Used
    <3>2. QED
      BY <1>1, <2>1, <2>2, <3>1 DEF Live
  <2>3. QED
    BY <1>2, <2>2
<1>3. ASSUME NEW n \in Node, NEW msg \in inbox'[n]
      PROVE  msg.expires <= due'[msg.namespace][msg.record]
  <2>1. msg \in rendezvousMsg
    BY DEF Types
  <2>2. msg.expires \in Int /\ msg.namespace \in Namespace /\ msg.record \in Record
    BY <2>1 DEF rendezvousMsg, Span
  <2>3. CASE msg \in inbox[n]
    <3>1. msg.expires <= due[msg.namespace][msg.record]
      BY <2>3 DEF GrantInv, NoneOverstays
    <3>2. QED
      BY <1>1, <2>2, <3>1
  <2>4. QED
    BY <2>3
<1>4. ASSUME NEW n \in Node, NEW reg \in pending'[n]
      PROVE  reg.ttl + reg.left <= due'[reg.namespace][reg.record]
  <2>1. reg \in Registration
    BY DEF Types
  <2>2. /\ reg.ttl \in Int /\ reg.left \in Int
        /\ reg.namespace \in Namespace /\ reg.record \in Record
    BY <2>1 DEF Registration
  <2>3. CASE reg \in pending[n]
    <3>1. reg.ttl + reg.left <= due[reg.namespace][reg.record]
      BY <2>3 DEF GrantInv
    <3>2. QED
      BY <1>1, <2>2, <3>1
  <2>4. QED
    BY <2>3
<1>5. QED
  BY <1>2, <1>3, <1>4 DEF GrantInv, NoneOverstays, Used

LEMMA GrantTick == ASSUME Types, GrantInv, Tick PROVE GrantInv'
<1> USE RendezvousAssumption, NetAssumption
<1>1. \A ns \in Namespace, r \in Record :
        due[ns][r] \in Int /\ -1 <= due[ns][r] /\ due'[ns][r] = Sooner(due[ns][r])
  <2>1. due' = [ns \in Namespace |-> [r \in Record |-> Sooner(due[ns][r])]]
    BY DEF Tick
  <2>2. \A ns \in Namespace, r \in Record : due[ns][r] \in -1..(MaxTTL + MaxPersist)
    BY DEF Types, Span
  <2>3. QED
    BY <2>1, <2>2
<1>2. ASSUME NEW n \in Node, NEW ns \in Namespace, entries'[n][ns] # None
      PROVE  entries'[n][ns].expires <= due'[ns][entries'[n][ns].record]
  <2>1. /\ entries[n][ns] # None
        /\ entries'[n][ns] = [entries[n][ns] EXCEPT !.expires = Sooner(@)]
    BY <1>2 DEF Tick
  <2>2. entries[n][ns] \in Live
    BY <2>1 DEF Types, Directory
  <2>3. /\ entries'[n][ns].expires = Sooner(entries[n][ns].expires)
        /\ entries'[n][ns].record = entries[n][ns].record
        /\ entries[n][ns].record \in Record
        /\ entries[n][ns].expires \in Int /\ -1 <= entries[n][ns].expires
    BY <2>1, <2>2 DEF Live
  <2>4. entries[n][ns].expires <= due[ns][entries[n][ns].record]
    BY <2>1 DEF GrantInv, NoneOverstays, Used
  <2>5. QED
    BY <1>1, <2>3, <2>4, SoonerMonotonic
<1>3. ASSUME NEW n \in Node, NEW msg \in inbox'[n]
      PROVE  msg.expires <= due'[msg.namespace][msg.record]
  <2>1. PICK old \in inbox[n] : msg = [old EXCEPT !.left = @ - 1, !.expires = Sooner(@)]
    BY DEF Tick
  <2>2. old \in rendezvousMsg /\ old.expires <= due[old.namespace][old.record]
    BY DEF Types, GrantInv, NoneOverstays
  <2>3. /\ msg.expires = Sooner(old.expires)
        /\ msg.namespace = old.namespace /\ msg.record = old.record
        /\ old.namespace \in Namespace /\ old.record \in Record
        /\ old.expires \in Int /\ -1 <= old.expires
    BY <2>1, <2>2 DEF rendezvousMsg, Span
  <2>4. QED
    BY <1>1, <2>2, <2>3, SoonerMonotonic
<1>4. ASSUME NEW n \in Node, NEW reg \in pending'[n]
      PROVE  reg.ttl + reg.left <= due'[reg.namespace][reg.record]
  <2>1. PICK old \in pending[n] : reg = [old EXCEPT !.left = @ - 1]
    BY DEF Tick
  <2>2. /\ old \in Registration /\ old.left > 0
        /\ old.ttl + old.left <= due[old.namespace][old.record]
    BY DEF Types, GrantInv, Tick
  <2>3. /\ reg.ttl = old.ttl /\ reg.left = old.left - 1
        /\ reg.namespace = old.namespace /\ reg.record = old.record
        /\ old.namespace \in Namespace /\ old.record \in Record
        /\ old.ttl \in 1..MaxTTL /\ old.left \in Nat
    BY <2>1, <2>2 DEF Registration
  <2>4. QED
    BY <1>1, <2>2, <2>3 DEF Sooner
<1>5. QED
  BY <1>2, <1>3, <1>4 DEF GrantInv, NoneOverstays, Used

LEMMA GrantStep == Types /\ Types' /\ GrantInv /\ [Next]_vars => GrantInv'
<1> SUFFICES ASSUME Types, Types', GrantInv, [Next]_vars PROVE GrantInv'
  OBVIOUS
<1> USE RendezvousAssumption, NetAssumption
<1>0. \A ns \in Namespace, r \in Record : due[ns][r] \in Int
  BY DEF Types, Span
<1>1. CASE Tick
  BY <1>1, GrantTick
<1>2. CASE \E n \in Node, ns \in Namespace, r \in Record, ttl \in TTL : Register(n, ns, r, ttl)
  <2> PICK n \in Node, ns \in Namespace, r \in Record, ttl \in TTL : Register(n, ns, r, ttl)
    BY <1>2
  <2>1. Clip(ttl) \in 1..MaxTTL
    BY ClipRange
  <2>2. due' = [due EXCEPT ![ns][r] = Larger(@, Clip(ttl) + MaxPersist)]
    BY DEF Register
  <2>3. /\ due[ns][r] <= Larger(due[ns][r], Clip(ttl) + MaxPersist)
        /\ Clip(ttl) + MaxPersist <= Larger(due[ns][r], Clip(ttl) + MaxPersist)
    BY <1>0, <2>1 DEF Larger
  <2>4. /\ Clip(ttl) + MaxPersist <= due'[ns][r] /\ due'[ns][r] \in Int
        /\ \A k \in Namespace, s \in Record : due[k][s] <= due'[k][s]
    BY <1>0, <2>2, <2>3 DEF Types, Span
  <2>5. ASSUME NEW m \in Node, NEW k \in Namespace
        PROVE  \/ entries'[m][k] = entries[m][k]
               \/ entries'[m][k].expires <= due'[k][entries'[m][k].record]
    <3>1. CASE m = n /\ k = ns
      <4>1. entries'[n][ns] = Entry(r, Clip(ttl), TRUE)
        BY DEF Register, AfterPut, Types, Directory
      <4>2. QED
        BY <2>1, <2>4, <3>1, <4>1 DEF Entry
    <3>2. CASE ~(m = n /\ k = ns)
      BY <3>2 DEF Register, AfterPut, Types, Directory
    <3>3. QED
      BY <3>1, <3>2
  <2>6. ASSUME NEW m \in Node, NEW reg \in pending'[m]
        PROVE  \/ reg \in pending[m]
               \/ reg.ttl + reg.left <= due'[reg.namespace][reg.record]
    BY <2>4 DEF Register, Types
  <2>7. inbox' = inbox
    BY DEF Register
  <2>8. QED
    BY <2>4, <2>5, <2>6, <2>7, GrantKept
<1>3. ASSUME NEW n \in Node, Reannounce(n) PROVE GrantInv'
  <2>1. ASSUME NEW msg \in announces(n)
        PROVE  msg.expires <= due[msg.namespace][msg.record]
    <3>1. PICK ns \in localEntries(n) :
            msg = message(ns, entries[n][ns].record, entries[n][ns].expires)
      BY DEF announces
    <3>2. entries[n][ns].expires <= due[ns][entries[n][ns].record]
      BY DEF localEntries, GrantInv, NoneOverstays
    <3>3. QED
      BY <3>1, <3>2 DEF message
  <2>2. UNCHANGED <<entries, pending, due>> /\ inbox' = publish(n, announces(n))
    BY <1>3 DEF Reannounce
  <2>3. \A m \in Node : \A msg \in inbox'[m] :
          msg \in inbox[m] \/ msg.expires <= due'[msg.namespace][msg.record]
    BY <2>1, <2>2 DEF publish
  <2>4. QED
    BY <1>0, <2>2, <2>3, GrantKept
<1>4. ASSUME NEW n \in Node, Janitor(n) PROVE GrantInv'
  <2>1. UNCHANGED <<inbox, pending, due>>
    BY <1>4 DEF Janitor
  <2>2. \A m \in Node, ns \in Namespace :
          entries'[m][ns] = None \/ entries'[m][ns] = entries[m][ns]
    BY <1>4 DEF Janitor, Cleaned, Types, Directory
  <2>3. QED
    BY <1>0, <2>1, <2>2, GrantKept
<1>5. ASSUME NEW n \in Node, Restart(n) PROVE GrantInv'
  <2>1. /\ due' = due
        /\ \A m \in Node : inbox'[m] \subseteq inbox[m] /\ pending'[m] \subseteq pending[m]
    BY <1>5 DEF Restart, Types
  <2>2. \A m \in Node, ns \in Namespace :
          entries'[m][ns] = None \/ entries'[m][ns] = entries[m][ns]
    BY <1>5 DEF Restart, Loaded, Types, Directory
  <2>3. QED
    BY <1>0, <2>1, <2>2, GrantKept
<1>6. ASSUME NEW n \in Node, NEW ns \in Namespace, Lookup(n, ns) PROVE GrantInv'
  <2>1. UNCHANGED <<inbox, pending, due>>
    BY <1>6 DEF Lookup
  <2>2. \A m \in Node, k \in Namespace :
          entries'[m][k] = None \/ entries'[m][k] = entries[m][k]
    BY <1>6 DEF Lookup, Types, Directory
  <2>3. QED
    BY <1>0, <2>1, <2>2, GrantKept
<1>7. ASSUME NEW n \in Node, NEW reg \in pending[n], Announce(n, reg) PROVE GrantInv'
  <2>1. UNCHANGED <<entries, due>> /\ \A m \in Node : pending'[m] \subseteq pending[m]
    BY <1>7 DEF Announce, Types
  <2>2. reg \in Registration /\ reg.ttl + reg.left <= due[reg.namespace][reg.record]
    BY DEF Types, GrantInv
  <2>3. reg.ttl <= due[reg.namespace][reg.record]
    BY <1>0, <2>2 DEF Registration
  <2>4. inbox' = publish(n, {message(reg.namespace, reg.record, reg.ttl)})
    BY <1>7 DEF Announce
  <2>5. \A m \in Node : \A msg \in inbox'[m] :
          msg \in inbox[m] \/ msg.expires <= due'[msg.namespace][msg.record]
    BY <2>1, <2>3, <2>4 DEF publish, message
  <2>6. QED
    BY <1>0, <2>1, <2>5, GrantKept
<1>8. ASSUME NEW n \in Node, NEW msg \in inbox[n], Receive(n, msg) PROVE GrantInv'
  <2>1. UNCHANGED <<pending, due>> /\ \A m \in Node : inbox'[m] \subseteq inbox[m]
    BY <1>8 DEF Receive, Types
  <2>2. /\ msg \in rendezvousMsg /\ msg.expires <= MaxTTL
        /\ msg.expires <= due[msg.namespace][msg.record]
    BY DEF Types, GrantInv, NoneOverstays
  <2>3. msg.namespace \in Namespace /\ msg.record \in Record /\ msg.expires \in Int
    BY <2>2 DEF rendezvousMsg, Span
  <2>4. msg.expires > 0 => Clip(msg.expires) = msg.expires
    BY <2>2, <2>3, ClipRange
  <2>5. ASSUME NEW m \in Node, NEW ns \in Namespace
        PROVE  \/ entries'[m][ns] = entries[m][ns]
               \/ entries'[m][ns].expires <= due'[ns][entries'[m][ns].record]
    <3> DEFINE ignored ==
          msg.expires <= 0 \/ RemoteIgnored(entries[n], msg.namespace, Clip(msg.expires))
    <3>0. entries' = [entries EXCEPT ![n] = IF ignored THEN @ ELSE
                        AfterPutRemote(@, msg.namespace, msg.record, Clip(msg.expires))]
      BY <1>8 DEF Receive
    <3>1. CASE entries' = [entries EXCEPT ![n] =
                 AfterPutRemote(@, msg.namespace, msg.record, Clip(msg.expires))]
               /\ msg.expires > 0
      <4>1. CASE m = n /\ ns = msg.namespace
        <5>1. /\ entries'[m][ns].record = msg.record
              /\ entries'[m][ns].expires = Clip(msg.expires)
          BY <3>1, <4>1 DEF AfterPutRemote, Entry, Types, Directory
        <5>2. QED
          BY <2>1, <2>2, <2>4, <3>1, <4>1, <5>1
      <4>2. CASE ~(m = n /\ ns = msg.namespace)
        BY <3>1, <4>2 DEF AfterPutRemote, Types, Directory
      <4>3. QED
        BY <4>1, <4>2
    <3>2. CASE entries' = entries
      BY <3>2
    <3>3. CASE ignored
      <4> HIDE DEF ignored
      <4>1. QED
        BY <3>0, <3>2, <3>3 DEF Types
    <3>4. CASE ~ignored
      BY <2>3, <3>0, <3>1, <3>4
    <3>5. QED
      BY <3>3, <3>4
  <2>6. QED
    BY <1>0, <2>1, <2>5, GrantKept
<1>9. ASSUME NEW n \in Node, NEW msg \in inbox[n], Lose(n, msg) PROVE GrantInv'
  <2>1. UNCHANGED <<entries, pending, due>> /\ \A m \in Node : inbox'[m] \subseteq inbox[m]
    BY <1>9 DEF Lose, Types
  <2>2. QED
    BY <1>0, <2>1, GrantKept
<1>10. CASE UNCHANGED vars
  BY <1>10 DEF vars, GrantInv, NoneOverstays
<1>11. QED
  BY <1>1, <1>2, <1>3, <1>4, <1>5, <1>6, <1>7, <1>8, <1>9, <1>10 DEF Next

\* No record is served or passed on for longer than its last registration granted,
\* whatever way it takes between nodes and through restarts.
THEOREM RecordsDoNotOverstay == Spec => []NoneOverstays
<1>1. GrantInv => NoneOverstays
  BY DEF GrantInv
<1>2. QED
  BY <1>1, TypesInit, TypesStep, GrantInit, GrantStep, PTL DEF Spec

-----------------------------------------------------------------------------
(***************************************************************************)
(* How long a node lacks a record.  The ticker of the announcing node fired   *)
(* for the last time Age(t, 0) ago, where t is the time until it fires next,  *)
(* and for the j-th time before that Age(t, j) ago.                          *)
(***************************************************************************)

Age(t, j) == ReannounceInterval - t + j * ReannounceInterval

\* The announcement of the record e for ns, as it is when it has left to go.
Call(ns, e, left) ==
  [namespace |-> ns, record |-> e.record, expires |-> e.expires, left |-> left]

\* Of the announcements of e in the last b time units, all but l are in box.
Followed(b, t, l, ns, e, box) ==
  \E L \in SUBSET Nat :
    /\ IsFiniteSet(L) /\ Cardinality(L) <= l
    /\ \A j \in Nat \ L :
         Age(t, j) < b => Call(ns, e, MaxDelay - Age(t, j)) \in box

LEMMA AgeFacts ==
  ASSUME NEW t \in 0..ReannounceInterval, NEW j \in Nat
  PROVE  /\ Age(t, j) \in Nat
         /\ t > 0 => Age(t - 1, j) = Age(t, j) + 1
         /\ Age(ReannounceInterval, 0) = 0
         /\ Age(ReannounceInterval, j + 1) = Age(0, j)
         /\ \A k \in Nat : Age(t, k) = Age(t, j) => k = j
<1> USE NetAssumption
<1>1. j * ReannounceInterval \in Nat
  OBVIOUS
<1>2. Age(t, j) \in Nat /\ (t > 0 => Age(t - 1, j) = Age(t, j) + 1)
  BY <1>1 DEF Age
<1>3. Age(ReannounceInterval, 0) = 0
  BY DEF Age
<1>4. (j + 1) * ReannounceInterval = j * ReannounceInterval + ReannounceInterval
  OBVIOUS
<1>5. Age(ReannounceInterval, j + 1) = Age(0, j)
  BY <1>1, <1>4 DEF Age
<1>6. ASSUME NEW k \in Nat, Age(t, k) = Age(t, j) PROVE k = j
  <2>1. k * ReannounceInterval = j * ReannounceInterval
    BY <1>1, <1>6 DEF Age
  <2>2. QED
    BY <2>1
<1>7. QED
  BY <1>2, <1>3, <1>5, <1>6

LEMMA FollowStart ==
  ASSUME NEW t \in 0..ReannounceInterval, NEW l \in Nat, NEW ns, NEW e, NEW box
  PROVE  Followed(0, t, l, ns, e, box)
<1>1. \A j \in Nat : ~(Age(t, j) < 0)
  BY AgeFacts
<1>2. IsFiniteSet({}) /\ Cardinality({}) <= l
  BY FS_EmptySet
<1>3. QED
  BY <1>1, <1>2 DEF Followed

LEMMA FollowTick ==
  ASSUME NEW b \in Nat, NEW t \in 1..ReannounceInterval, NEW l, NEW ns,
         NEW e \in Live, NEW box \in SUBSET rendezvousMsg,
         Followed(b, t, l, ns, e, box)
  PROVE  Followed(b + 1, t - 1, l, ns, [e EXCEPT !.expires = Sooner(@)],
                  {[msg EXCEPT !.left = @ - 1, !.expires = Sooner(@)] : msg \in box})
<1> DEFINE e2 == [e EXCEPT !.expires = Sooner(@)]
           box2 == {[msg EXCEPT !.left = @ - 1, !.expires = Sooner(@)] : msg \in box}
<1>1. PICK L \in SUBSET Nat :
        /\ IsFiniteSet(L) /\ Cardinality(L) <= l
        /\ \A j \in Nat \ L :
             Age(t, j) < b => Call(ns, e, MaxDelay - Age(t, j)) \in box
  BY DEF Followed
<1>2. e2.record = e.record /\ e2.expires = Sooner(e.expires)
  BY DEF Live
<1> HIDE DEF e2
<1>3. ASSUME NEW j \in Nat \ L, Age(t - 1, j) < b + 1
      PROVE  Call(ns, e2, MaxDelay - Age(t - 1, j)) \in box2
  <2>1. Age(t, j) \in Nat /\ Age(t - 1, j) = Age(t, j) + 1
    BY AgeFacts, NetAssumption
  <2>2. Call(ns, e, MaxDelay - Age(t, j)) \in box
    BY <1>1, <1>3, <2>1
  <2>3. MaxDelay - Age(t - 1, j) = (MaxDelay - Age(t, j)) - 1
    BY <2>1, NetAssumption
  <2>4. Call(ns, e2, MaxDelay - Age(t - 1, j))
          = [Call(ns, e, MaxDelay - Age(t, j)) EXCEPT !.left = @ - 1, !.expires = Sooner(@)]
    <3> DEFINE k == MaxDelay - Age(t, j)
               now == Call(ns, e, k)
    <3> HIDE DEF k
    <3>1. now.left = k /\ now.expires = e.expires
      BY DEF Call
    <3>2. [now EXCEPT !.left = k - 1, !.expires = Sooner(e.expires)]
            = [namespace |-> ns, record |-> e.record, expires |-> Sooner(e.expires),
               left |-> k - 1]
      <4>1. [now EXCEPT !.left = k - 1]
              = [namespace |-> ns, record |-> e.record, expires |-> e.expires, left |-> k - 1]
        BY DEF Call
      <4>2. [[namespace |-> ns, record |-> e.record, expires |-> e.expires, left |-> k - 1]
                EXCEPT !.expires = Sooner(e.expires)]
              = [namespace |-> ns, record |-> e.record, expires |-> Sooner(e.expires),
                 left |-> k - 1]
        OBVIOUS
      <4>3. QED
        BY <4>1, <4>2
    <3>3. Call(ns, e2, k - 1) = [namespace |-> ns, record |-> e.record,
                                 expires |-> Sooner(e.expires), left |-> k - 1]
      BY <1>2 DEF Call
    <3>4. Call(ns, e2, MaxDelay - Age(t - 1, j)) = Call(ns, e2, k - 1)
      BY <2>3 DEF k
    <3> HIDE DEF now
    <3>5. Call(ns, e2, k - 1) = [now EXCEPT !.left = @ - 1, !.expires = Sooner(@)]
      BY <3>1, <3>2, <3>3
    <3>6. QED
      BY <3>4, <3>5 DEF now, k
  <2>5. QED
    BY <2>2, <2>4
<1>4. Followed(b + 1, t - 1, l, ns, e2, box2)
  <2> HIDE DEF box2
  <2>1. QED
    BY <1>1, <1>3 DEF Followed
<1>5. QED
  BY <1>4 DEF e2

LEMMA FollowFire ==
  ASSUME NEW b \in Nat, NEW l \in Nat, NEW ns, NEW e, NEW box, NEW box2,
         Followed(b, 0, l, ns, e, box),
         box \subseteq box2, Call(ns, e, MaxDelay) \in box2
  PROVE  Followed(b, ReannounceInterval, l, ns, e, box2)
<1>1. PICK L \in SUBSET Nat :
        /\ IsFiniteSet(L) /\ Cardinality(L) <= l
        /\ \A j \in Nat \ L :
             Age(0, j) < b => Call(ns, e, MaxDelay - Age(0, j)) \in box
  BY DEF Followed
<1> DEFINE L2 == {j + 1 : j \in L}
           f == [j \in L |-> j + 1]
<1>2. f \in Surjection(L, L2)
  BY DEF Surjection
<1>3. IsFiniteSet(L2) /\ Cardinality(L2) <= Cardinality(L)
  BY <1>1, <1>2, FS_Surjection
<1>4. Cardinality(L2) <= l
  BY <1>1, <1>3, FS_CardinalityType
<1>5. ASSUME NEW j \in Nat \ L2, Age(ReannounceInterval, j) < b
      PROVE  Call(ns, e, MaxDelay - Age(ReannounceInterval, j)) \in box2
  <2>1. CASE j = 0
    <3>1. MaxDelay - Age(ReannounceInterval, j) = MaxDelay
      BY <2>1, AgeFacts, NetAssumption
    <3>2. QED
      BY <3>1
  <2>2. CASE j # 0
    <3>1. j - 1 \in Nat /\ (j - 1) + 1 = j
      BY <2>2
    <3>2. j - 1 \notin L
      BY <3>1
    <3>3. Age(ReannounceInterval, j) = Age(0, j - 1)
      BY <3>1, AgeFacts, NetAssumption
    <3>4. QED
      BY <1>1, <1>5, <3>1, <3>2, <3>3
  <2>3. QED
    BY <2>1, <2>2
<1>6. L2 \in SUBSET Nat
  OBVIOUS
<1> HIDE DEF L2
<1>7. QED
  BY <1>3, <1>4, <1>5, <1>6 DEF Followed

\* A message lost, here or elsewhere.
LEMMA FollowLose ==
  ASSUME NEW b \in Nat, NEW t \in 0..ReannounceInterval, NEW l \in Nat, NEW ns, NEW e,
         NEW box, NEW box2, NEW msg,
         Followed(b, t, l, ns, e, box), box \ {msg} \subseteq box2
  PROVE  Followed(b, t, l + 1, ns, e, box2)
<1>1. PICK L \in SUBSET Nat :
        /\ IsFiniteSet(L) /\ Cardinality(L) <= l
        /\ \A j \in Nat \ L :
             Age(t, j) < b => Call(ns, e, MaxDelay - Age(t, j)) \in box
  BY DEF Followed
<1>2. Cardinality(L) \in Nat
  BY <1>1, FS_CardinalityType
<1>3. CASE \E k \in Nat : msg = Call(ns, e, MaxDelay - Age(t, k))
  <2>1. PICK k \in Nat : msg = Call(ns, e, MaxDelay - Age(t, k))
    BY <1>3
  <2>2. /\ IsFiniteSet(L \cup {k}) /\ L \cup {k} \in SUBSET Nat
        /\ Cardinality(L \cup {k}) <= l + 1
    BY <1>1, <1>2, FS_AddElement
  <2>3. ASSUME NEW j \in Nat \ (L \cup {k}), Age(t, j) < b
        PROVE  Call(ns, e, MaxDelay - Age(t, j)) \in box2
    <3>1. Age(t, j) # Age(t, k) /\ Age(t, j) \in Nat /\ Age(t, k) \in Nat
      BY AgeFacts
    <3>2. MaxDelay - Age(t, j) # MaxDelay - Age(t, k)
      BY <3>1, NetAssumption
    <3>3. Call(ns, e, MaxDelay - Age(t, j)).left # msg.left
      BY <2>1, <3>2 DEF Call
    <3>4. QED
      BY <1>1, <2>3, <3>3
  <2>4. QED
    BY <2>2, <2>3 DEF Followed
<1>4. CASE ~\E k \in Nat : msg = Call(ns, e, MaxDelay - Age(t, k))
  <2>1. \A j \in Nat \ L : Age(t, j) < b => Call(ns, e, MaxDelay - Age(t, j)) \in box2
    BY <1>1, <1>4
  <2>2. Cardinality(L) <= l + 1
    BY <1>1, <1>2
  <2>3. QED
    BY <1>1, <2>1, <2>2 DEF Followed
<1>5. QED
  BY <1>3, <1>4

\* Other messages come and go.
LEMMA FollowOthers ==
  ASSUME NEW b, NEW t, NEW l, NEW ns, NEW e, NEW box, NEW box2,
         Followed(b, t, l, ns, e, box),
         \A left : Call(ns, e, left) \in box => Call(ns, e, left) \in box2
  PROVE  Followed(b, t, l, ns, e, box2)
  BY DEF Followed

\* Only the record and the expiry of an entry matter.
LEMMA FollowSame ==
  ASSUME NEW b, NEW t, NEW l, NEW ns, NEW e, NEW e2, NEW box,
         Followed(b, t, l, ns, e, box),
         e2.record = e.record, e2.expires = e.expires
  PROVE  Followed(b, t, l, ns, e2, box)
  BY DEF Followed, Call

\* The announcement that is due.
LEMMA FirstDue ==
  ASSUME NEW t \in 1..ReannounceInterval
  PROVE  \E j \in Nat : MaxDelay <= Age(t, j) /\ Age(t, j) < MaxDelay + ReannounceInterval
<1> USE NetAssumption
<1> DEFINE x == MaxDelay - (ReannounceInterval - t)
           q == (x + ReannounceInterval - 1) \div ReannounceInterval
<1>1. x \in Int
  OBVIOUS
<1>2. CASE x <= 0
  <2>1. Age(t, 0) = ReannounceInterval - t
    BY DEF Age
  <2>2. QED
    BY <1>2, <2>1
<1>3. CASE x > 0
  <2> HIDE DEF x
  <2>1. q \in Nat /\ q * ReannounceInterval >= x /\ q * ReannounceInterval < x + ReannounceInterval
    <3>1. x + ReannounceInterval - 1 \in Nat
      BY <1>1, <1>3
    <3>2. QED
      BY <1>1, <1>3, <3>1
  <2> HIDE DEF q
  <2>2. QED
    BY <2>1 DEF Age, x
<1>4. QED
  BY <1>1, <1>2, <1>3

LEMMA FollowBound ==
  ASSUME NEW b \in Nat, NEW t \in 1..ReannounceInterval, NEW l \in 0..MaxLost, NEW ns,
         NEW e, NEW box,
         Followed(b, t, l, ns, e, box),
         \A msg \in box : msg.left > 0
  PROVE  b < SpreadTime
<1> USE NetAssumption
<1> SUFFICES ASSUME b >= SpreadTime PROVE FALSE
  <2>1. ReannounceInterval * (MaxLost + 1) \in Nat
    OBVIOUS
  <2>2. SpreadTime \in Nat
    BY <2>1 DEF SpreadTime
  <2>3. QED
    BY <2>2
<1>1. PICK L \in SUBSET Nat :
        /\ IsFiniteSet(L) /\ Cardinality(L) <= l
        /\ \A j \in Nat \ L :
             Age(t, j) < b => Call(ns, e, MaxDelay - Age(t, j)) \in box
  BY DEF Followed
<1>2. PICK i \in Nat : MaxDelay <= Age(t, i) /\ Age(t, i) < MaxDelay + ReannounceInterval
  BY FirstDue
<1>3. ASSUME NEW j \in i..(i + l) PROVE j \in L
  <2>1. j \in Nat /\ Age(t, j) \in Nat /\ Age(t, i) \in Nat
    <3>1. j \in Nat /\ t \in 0..ReannounceInterval
      OBVIOUS
    <3>2. QED
      BY <3>1, AgeFacts
  <2>2. Age(t, j) = Age(t, i) + (j - i) * ReannounceInterval
    BY DEF Age
  <2>3. 0 <= (j - i) * ReannounceInterval
    BY <2>1
  <2>4. (j - i) * ReannounceInterval <= MaxLost * ReannounceInterval
    <3>1. j - i \in 0..MaxLost
      OBVIOUS
    <3>2. QED
      BY <3>1
  <2>5. ReannounceInterval * (MaxLost + 1) = MaxLost * ReannounceInterval + ReannounceInterval
    OBVIOUS
  <2>6. MaxDelay <= Age(t, j) /\ Age(t, j) < b
    <3> DEFINE y == (j - i) * ReannounceInterval
               z == MaxLost * ReannounceInterval
    <3>1. y \in Int /\ z \in Int
      OBVIOUS
    <3>2. b >= z + ReannounceInterval + MaxDelay
      BY <2>5 DEF SpreadTime
    <3> HIDE DEF y, z
    <3>3. Age(t, j) = Age(t, i) + y /\ 0 <= y /\ y <= z
      BY <2>2, <2>3, <2>4 DEF y, z
    <3>4. QED
      BY <1>2, <2>1, <3>1, <3>2, <3>3
  <2>7. ~(Call(ns, e, MaxDelay - Age(t, j)).left > 0)
    BY <2>1, <2>6 DEF Call
  <2>8. QED
    BY <1>1, <2>1, <2>6, <2>7
<1>4. Cardinality(i..(i + l)) = l + 1
  BY FS_Interval
<1>5. Cardinality(i..(i + l)) <= Cardinality(L)
  BY <1>1, <1>3, FS_Subset
<1>6. Cardinality(L) \in Nat
  BY <1>1, FS_CardinalityType
<1>7. QED
  BY <1>1, <1>4, <1>5, <1>6
\* m goes on announcing a record for ns that outlives what n has.
Outlives(n, m, ns) ==
  /\ ns \in localEntries(m)
  /\ entries[n][ns] = None \/ entries[n][ns].expires < entries[m][ns].expires

\* While a record outlives what n has, all but the lost ones of the announcements
\* of it since n began to lack it are on their way to n.
SpreadInv ==
  /\ SpreadsInTime
  /\ \A n, m \in Node, ns \in Namespace : n # m /\ Outlives(n, m, ns) =>
       Followed(behind[n][ns], timer[m], lost, ns, entries[m][ns], inbox[n])

LEMMA SpreadInit == Init => SpreadInv
<1> USE NetAssumption
<1> SUFFICES ASSUME Init PROVE SpreadInv
  OBVIOUS
<1>1. SpreadTime \in Nat
  BY DEF SpreadTime
<1>2. \A n \in Node, ns \in Namespace : behind[n][ns] = 0
  BY DEF Init, InTime
<1>3. SpreadsInTime
  BY <1>1, <1>2 DEF SpreadsInTime
<1>4. \A m \in Node, ns \in Namespace : ns \notin localEntries(m)
  BY DEF Init, localEntries, Used, NoEntries
<1>5. QED
  BY <1>3, <1>4 DEF SpreadInv, Outlives

LEMMA LocalEntry ==
  ASSUME Types, NEW m \in Node, NEW ns \in Namespace
  PROVE  ns \in localEntries(m) <=>
           /\ entries[m][ns] # None
           /\ entries[m][ns].local
           /\ entries[m][ns].expires > 0
  BY DEF localEntries, Used

LEMMA SpreadTick == ASSUME Types, Types', SpreadInv, Tick PROVE SpreadInv'
<1> USE RendezvousAssumption, NetAssumption
<1>1. ASSUME NEW n \in Node
      PROVE  /\ timer[n] \in 1..ReannounceInterval /\ timer'[n] = timer[n] - 1
             /\ inbox[n] \in SUBSET rendezvousMsg
             /\ inbox'[n] = {[msg EXCEPT !.left = @ - 1, !.expires = Sooner(@)] :
                               msg \in inbox[n]}
             /\ \A msg \in inbox[n] : msg.left > 0
  <2>1. timer[n] \in 0..ReannounceInterval /\ timer[n] > 0
    BY DEF Tick, Types
  <2>2. timer' = [m \in Node |-> timer[m] - 1]
    BY DEF Tick
  <2>3. inbox' = [m \in Node |-> {[msg EXCEPT !.left = @ - 1, !.expires = Sooner(@)] :
                                    msg \in inbox[m]}]
    BY DEF Tick
  <2>4. inbox[n] \in SUBSET rendezvousMsg /\ \A msg \in inbox[n] : msg.left > 0
    BY DEF Tick, Types
  <2>5. timer[n] \in 1..ReannounceInterval /\ timer'[n] = timer[n] - 1
    BY <2>1, <2>2
  <2>6. inbox'[n] = {[msg EXCEPT !.left = @ - 1, !.expires = Sooner(@)] : msg \in inbox[n]}
    BY <2>3, Zenon
  <2>7. QED
    BY <2>4, <2>5, <2>6, Zenon
<1>2. ASSUME NEW n \in Node, NEW ns \in Namespace
      PROVE  /\ behind[n][ns] \in Nat
             /\ behind'[n][ns] = IF Lacks(n, ns) THEN behind[n][ns] + 1 ELSE 0
  BY DEF Tick, Types
<1>3. ASSUME NEW n \in Node, NEW ns \in Namespace
      PROVE  \/ entries[n][ns] = None /\ entries'[n][ns] = None
             \/ /\ entries[n][ns] \in Live /\ entries'[n][ns] # None
                /\ entries'[n][ns] = [entries[n][ns] EXCEPT !.expires = Sooner(@)]
                /\ entries'[n][ns].expires = Sooner(entries[n][ns].expires)
                /\ entries'[n][ns].local = entries[n][ns].local
  <2>1. entries[n][ns] \in Live \cup {None} /\ entries'[n][ns] \in Live \cup {None}
    BY DEF Types, Directory
  <2>2. entries'[n][ns] = IF entries[n][ns] = None THEN None
                          ELSE [entries[n][ns] EXCEPT !.expires = Sooner(@)]
    BY DEF Tick
  <2>3. CASE entries[n][ns] # None
    <3>1. [entries[n][ns] EXCEPT !.expires = Sooner(@)] \in Live
      <4>1. entries[n][ns] \in Live
        BY <2>1, <2>3
      <4>2. Sooner(entries[n][ns].expires) \in -1..MaxTTL
        BY <4>1, SoonerRange DEF Live
      <4>3. QED
        BY <4>1, <4>2 DEF Live
    <3>2. QED
      BY <2>1, <2>2, <2>3, <3>1, LiveIsEntry DEF Live
  <2>4. QED
    BY <2>2, <2>3
<1>4. ASSUME NEW n \in Node, NEW m \in Node, NEW ns \in Namespace, Outlives(n, m, ns)'
      PROVE  Outlives(n, m, ns)
  <2>1. ns \in localEntries(m)' /\ (entries'[n][ns] = None
          \/ entries'[n][ns].expires < entries'[m][ns].expires)
    BY <1>4 DEF Outlives
  <2>2. entries'[m][ns] # None /\ entries'[m][ns].local /\ entries'[m][ns].expires > 0
    BY <2>1 DEF localEntries, Used
  <2>3. /\ entries[m][ns] \in Live /\ entries[m][ns].local
        /\ entries'[m][ns].expires = Sooner(entries[m][ns].expires)
    BY <1>3, <2>2
  <2>4. entries[m][ns].expires \in Int /\ entries[m][ns].expires > 0
    BY <2>2, <2>3 DEF Live, Sooner
  <2>5. ns \in localEntries(m)
    BY <2>3, <2>4, LocalEntry, LiveIsEntry
  <2>6. entries[n][ns] = None \/ entries[n][ns].expires < entries[m][ns].expires
    <3>1. CASE entries[n][ns] # None
      <4>1. /\ entries[n][ns] \in Live /\ entries'[n][ns] # None
            /\ entries'[n][ns].expires = Sooner(entries[n][ns].expires)
        BY <1>3, <3>1
      <4>2. entries[n][ns].expires \in Int /\ -1 <= entries[n][ns].expires
        BY <4>1 DEF Live
      <4>3. QED
        BY <2>1, <2>3, <2>4, <4>1, <4>2 DEF Sooner
    <3>2. QED
      BY <3>1
  <2>7. QED
    BY <2>5, <2>6 DEF Outlives
<1>5. ASSUME NEW n \in Node, NEW ns \in Namespace
      PROVE  behind'[n][ns] <= SpreadTime
  <2>1. SpreadTime \in Nat
    BY DEF SpreadTime
  <2>2. CASE Lacks(n, ns)
    <3>1. PICK m \in Node \ {n} : Outlives(n, m, ns)
      BY <2>2 DEF Lacks, Outlives
    <3>2. Followed(behind[n][ns], timer[m], lost, ns, entries[m][ns], inbox[n])
      BY <3>1 DEF SpreadInv
    <3>3. lost \in 0..MaxLost
      BY DEF Types
    <3>4. behind[n][ns] < SpreadTime
      BY <1>1, <1>2, <3>2, <3>3, FollowBound
    <3>5. QED
      BY <1>2, <2>1, <2>2, <3>4
  <2>3. QED
    BY <1>2, <2>1, <2>2
<1>6. ASSUME NEW n \in Node, NEW m \in Node, NEW ns \in Namespace, n # m, Outlives(n, m, ns)'
      PROVE  Followed(behind'[n][ns], timer'[m], lost', ns, entries'[m][ns], inbox'[n])
  <2>1. Followed(behind[n][ns], timer[m], lost, ns, entries[m][ns], inbox[n])
    BY <1>4, <1>6 DEF SpreadInv
  <2>2. entries[m][ns] \in Live /\ entries'[m][ns] = [entries[m][ns] EXCEPT !.expires = Sooner(@)]
    <3>1. entries'[m][ns] # None
      BY <1>6 DEF Outlives, localEntries, Used
    <3>2. QED
      BY <1>3, <3>1
  <2>3. lost' = lost /\ lost \in Nat
    <3>1. lost' = lost
      BY DEF Tick
    <3>2. lost \in 0..MaxLost
      BY DEF Types
    <3>3. QED
      BY <3>1, <3>2
  <2>4. CASE Lacks(n, ns)
    <3> DEFINE box == inbox[n]
               e == entries[m][ns]
               b == behind[n][ns]
               t == timer[m]
    <3>1. /\ b \in Nat /\ t \in 1..ReannounceInterval /\ e \in Live
          /\ box \in SUBSET rendezvousMsg /\ Followed(b, t, lost, ns, e, box)
      BY <1>1, <1>2, <2>1, <2>2
    <3>2. /\ behind'[n][ns] = b + 1 /\ timer'[m] = t - 1 /\ lost' = lost
          /\ entries'[m][ns] = [e EXCEPT !.expires = Sooner(@)]
          /\ inbox'[n] = {[msg EXCEPT !.left = @ - 1, !.expires = Sooner(@)] : msg \in box}
      BY <1>1, <1>2, <2>2, <2>3, <2>4
    <3> HIDE DEF box, e, b, t
    <3>3. Followed(b + 1, t - 1, lost, ns, [e EXCEPT !.expires = Sooner(@)],
                   {[msg EXCEPT !.left = @ - 1, !.expires = Sooner(@)] : msg \in box})
      BY <3>1, FollowTick
    <3>4. QED
      BY <3>2, <3>3
  <2>5. CASE ~Lacks(n, ns)
    <3>1. behind'[n][ns] = 0 /\ timer'[m] \in 0..ReannounceInterval
      BY <1>2, <2>5 DEF Types
    <3>2. QED
      BY <2>3, <3>1, FollowStart
  <2>6. QED
    BY <2>4, <2>5
<1>7. QED
  BY <1>5, <1>6 DEF SpreadInv, SpreadsInTime

\* A step after which behind is not longer anywhere, and what was on its way and is
\* still needed is still on its way.
LEMMA SpreadKept ==
  ASSUME Types, Types', SpreadInv,
         \A n \in Node, ns \in Namespace : behind'[n][ns] \in {0, behind[n][ns]},
         \A n, m \in Node, ns \in Namespace :
           n # m /\ Outlives(n, m, ns)' /\ behind'[n][ns] # 0 =>
             /\ Outlives(n, m, ns)
             /\ Followed(behind[n][ns], timer[m], lost, ns, entries[m][ns], inbox[n]) =>
                  Followed(behind[n][ns], timer'[m], lost', ns, entries'[m][ns], inbox'[n])
  PROVE  SpreadInv'
<1> USE NetAssumption
<1>1. SpreadTime \in Nat
  BY DEF SpreadTime
<1>2. SpreadsInTime'
  BY <1>1 DEF SpreadInv, SpreadsInTime
<1>3. ASSUME NEW n \in Node, NEW m \in Node, NEW ns \in Namespace, n # m, Outlives(n, m, ns)'
      PROVE  Followed(behind'[n][ns], timer'[m], lost', ns, entries'[m][ns], inbox'[n])
  <2>1. CASE behind'[n][ns] = 0
    <3>1. timer'[m] \in 0..ReannounceInterval /\ lost' \in Nat
      BY DEF Types
    <3>2. QED
      BY <2>1, <3>1, FollowStart
  <2>2. CASE behind'[n][ns] # 0
    <3>1. behind'[n][ns] = behind[n][ns]
      BY <2>2
    <3>2. /\ Outlives(n, m, ns)
          /\ Followed(behind[n][ns], timer[m], lost, ns, entries[m][ns], inbox[n]) =>
               Followed(behind[n][ns], timer'[m], lost', ns, entries'[m][ns], inbox'[n])
      BY <1>3, <2>2
    <3>3. QED
      BY <1>3, <3>1, <3>2 DEF SpreadInv
  <2>3. QED
    BY <2>1, <2>2
<1>4. QED
  BY <1>2, <1>3 DEF SpreadInv

\* Removing what has expired does not make another record outlive it.
LEMMA SpreadClean ==
  ASSUME Types, Types', SpreadInv, UNCHANGED <<timer, inbox, lost, behind>>,
         \A n \in Node, ns \in Namespace :
           \/ entries'[n][ns] = entries[n][ns]
           \/ entries'[n][ns] = None /\ entries[n][ns] # None /\ 0 > entries[n][ns].expires
  PROVE  SpreadInv'
<1>1. ASSUME NEW n \in Node, NEW m \in Node, NEW ns \in Namespace, Outlives(n, m, ns)'
      PROVE  Outlives(n, m, ns) /\ entries'[m][ns] = entries[m][ns]
  <2>1. /\ entries'[m][ns] # None /\ entries'[m][ns].local /\ entries'[m][ns].expires > 0
        /\ entries'[n][ns] = None \/ entries'[n][ns].expires < entries'[m][ns].expires
    BY <1>1 DEF Outlives, localEntries, Used
  <2>2. entries'[m][ns] = entries[m][ns]
    BY <2>1
  <2>3. ns \in localEntries(m)
    BY <2>1, <2>2, LocalEntry
  <2>4. entries[m][ns] \in Live
    BY <2>1, <2>2 DEF Types, Directory
  <2>5. entries[n][ns] = None \/ entries[n][ns].expires < entries[m][ns].expires
    <3>1. CASE entries[n][ns] # None /\ 0 > entries[n][ns].expires
      <4>1. entries[n][ns] \in Live
        BY <3>1 DEF Types, Directory
      <4>2. QED
        BY <2>1, <2>2, <2>4, <3>1, <4>1 DEF Live
    <3>2. CASE entries'[n][ns] = entries[n][ns]
      BY <2>1, <2>2, <3>2
    <3>3. QED
      BY <3>1, <3>2
  <2>6. QED
    BY <2>2, <2>3, <2>5 DEF Outlives
<1>2. QED
  BY <1>1, SpreadKept

LEMMA SpreadReannounce ==
  ASSUME Types, Types', SpreadInv, NEW p \in Node, Reannounce(p)
  PROVE  SpreadInv'
<1>1. /\ timer[p] = 0 /\ timer' = [timer EXCEPT ![p] = ReannounceInterval]
      /\ inbox' = publish(p, announces(p))
      /\ UNCHANGED <<entries, lost, behind>>
  BY DEF Reannounce
<1>2. ASSUME NEW n \in Node, NEW m \in Node, NEW ns \in Namespace, n # m, Outlives(n, m, ns),
             Followed(behind[n][ns], timer[m], lost, ns, entries[m][ns], inbox[n])
      PROVE  Followed(behind[n][ns], timer'[m], lost, ns, entries[m][ns], inbox'[n])
  <2>1. inbox[n] \subseteq inbox'[n]
    BY <1>1 DEF publish
  <2>2. behind[n][ns] \in Nat /\ lost \in Nat
    BY NetAssumption DEF Types
  <2>3. CASE m = p
    <3>1. Call(ns, entries[m][ns], MaxDelay) \in announces(m)
      BY <1>2 DEF Outlives, announces, message, Call
    <3>2. Call(ns, entries[m][ns], MaxDelay) \in inbox'[n]
      BY <1>1, <1>2, <2>3, <3>1 DEF publish
    <3>3. timer[m] = 0 /\ timer'[m] = ReannounceInterval
      BY <1>1, <2>3 DEF Types
    <3>4. QED
      BY <1>2, <2>1, <2>2, <3>2, <3>3, FollowFire
  <2>4. CASE m # p
    <3>1. timer'[m] = timer[m]
      BY <1>1, <2>4 DEF Types
    <3>2. QED
      BY <1>2, <2>1, <3>1, FollowOthers
  <2>5. QED
    BY <2>3, <2>4
<1>3. \A n, m \in Node, ns \in Namespace : Outlives(n, m, ns)' => Outlives(n, m, ns)
  BY <1>1 DEF Outlives, localEntries
<1>4. QED
  BY <1>1, <1>2, <1>3, SpreadKept

LEMMA SpreadReceive ==
  ASSUME Types, Types', SpreadInv, NEW p \in Node, NEW msg \in inbox[p], Receive(p, msg)
  PROVE  SpreadInv'
<1> USE RendezvousAssumption, NetAssumption
<1> DEFINE k == msg.namespace
           x == Clip(msg.expires)
           ignored == msg.expires <= 0 \/ RemoteIgnored(entries[p], k, x)
<1>1. msg \in rendezvousMsg /\ msg.expires <= MaxTTL
  BY DEF Types
<1>2. k \in Namespace /\ msg.record \in Record /\ msg.expires \in Int
  BY <1>1 DEF rendezvousMsg, Span
<1>3. x \in 1..MaxTTL /\ (msg.expires > 0 => x = msg.expires)
  BY <1>1, <1>2, ClipRange
<1>4. /\ timer' = timer /\ lost' = lost
      /\ inbox' = [inbox EXCEPT ![p] = @ \ {msg}]
      /\ entries' = [entries EXCEPT ![p] =
           IF ignored THEN @ ELSE AfterPutRemote(@, k, msg.record, x)]
      /\ behind' = IF announces(p)' # announces(p) THEN InTime
                   ELSE [behind EXCEPT ![p][k] = IF AtCapacity(entries[p], k) THEN 0 ELSE @]
  BY DEF Receive
<1> HIDE DEF ignored, x
<1>5. \A n \in Node, ns \in Namespace : behind'[n][ns] \in {0, behind[n][ns]}
  BY <1>2, <1>4 DEF InTime, Types
<1>6. \A n \in Node, ns \in Namespace :
        ignored \/ n # p \/ ns # k => entries'[n][ns] = entries[n][ns]
  BY <1>2, <1>4 DEF AfterPutRemote, Types, Directory
<1>7. ~ignored => entries'[p][k].expires = x /\ entries'[p][k] # None
  <2>1. ~ignored => entries'[p][k] = Entry(msg.record, x, entries[p][k] # None /\ entries[p][k].local)
    BY <1>2, <1>4 DEF AfterPutRemote, Types, Directory
  <2>2. Entry(msg.record, x, entries[p][k] # None /\ entries[p][k].local) \in rendezvousEntry
    BY <1>2, <1>3 DEF Entry, rendezvousEntry
  <2>3. Entry(msg.record, x, entries[p][k] # None /\ entries[p][k].local).expires = x
    BY DEF Entry
  <2>4. QED
    BY <2>1, <2>2, <2>3 DEF rendezvousEntry
<1>8. ~ignored => msg.expires > 0 /\ (entries[p][k] = None \/ entries[p][k].expires < x)
  <2>1. entries[p][k] # None => entries[p][k].expires \in Int
    BY <1>2 DEF Types, Directory, Live
  <2>2. QED
    BY <1>2, <1>3, <2>1 DEF ignored, RemoteIgnored
<1>9. ASSUME NEW n \in Node, NEW m \in Node, NEW ns \in Namespace, n # m, Outlives(n, m, ns)',
             behind'[n][ns] # 0
      PROVE  /\ Outlives(n, m, ns)
             /\ Followed(behind[n][ns], timer[m], lost, ns, entries[m][ns], inbox[n]) =>
                  Followed(behind[n][ns], timer'[m], lost', ns, entries'[m][ns], inbox'[n])
  <2>1. announces(p)' = announces(p)
    BY <1>4, <1>9 DEF InTime
  <2>2. /\ entries'[m][ns] # None /\ entries'[m][ns].local /\ entries'[m][ns].expires > 0
        /\ entries'[n][ns] = None \/ entries'[n][ns].expires < entries'[m][ns].expires
        /\ ns \in localEntries(m)'
    BY <1>9 DEF Outlives, localEntries, Used
  <2>3. CASE p = n
    <3>1. entries'[m][ns] = entries[m][ns]
      BY <1>6, <1>9, <2>3
    <3>2. ns \in localEntries(m)
      BY <2>2, <3>1, LocalEntry
    <3>3. entries[m][ns] \in Live
      BY <2>2, <3>1 DEF Types, Directory
    <3>4. entries[m][ns].expires \in 1..MaxTTL
      BY <2>2, <3>1, <3>3 DEF Live
    <3>5. entries[n][ns] = None \/ entries[n][ns].expires < entries[m][ns].expires
      <4>1. CASE ignored \/ ns # k
        BY <1>6, <2>2, <2>3, <3>1, <4>1
      <4>2. CASE ~ignored /\ ns = k /\ entries[n][ns] # None
        <5>1. entries[n][ns].expires < x /\ x < entries[m][ns].expires
          BY <1>7, <1>8, <2>2, <2>3, <3>1, <4>2
        <5>2. entries[n][ns].expires \in Int
          BY <4>2 DEF Types, Directory, Live
        <5>3. QED
          BY <1>3, <3>4, <5>1, <5>2
      <4>3. QED
        BY <4>1, <4>2
    <3>6. \A left : Call(ns, entries[m][ns], left) # msg
      <4> SUFFICES ASSUME NEW left, Call(ns, entries[m][ns], left) = msg PROVE FALSE
        OBVIOUS
      <4>1. ns = k /\ msg.expires = entries[m][ns].expires
        BY DEF Call
      <4>2. x = entries[m][ns].expires
        BY <1>3, <3>4, <4>1
      <4>3. CASE ignored
        <5>1. RemoteIgnored(entries[n], k, x)
          BY <2>3, <3>4, <4>1, <4>3 DEF ignored
        <5>2. entries[n][ns] # None => entries[n][ns].expires \in Int
          BY DEF Types, Directory, Live
        <5>3. AtCapacity(entries[n], k)
          BY <3>4, <3>5, <4>1, <4>2, <5>1, <5>2 DEF RemoteIgnored
        <5>4. behind'[n][ns] = 0
          BY <1>2, <1>4, <2>1, <2>3, <4>1, <5>3 DEF Types
        <5>5. QED
          BY <1>9, <5>4
      <4>4. CASE ~ignored
        BY <1>3, <1>7, <2>2, <2>3, <3>1, <4>1, <4>2, <4>4
      <4>5. QED
        BY <4>3, <4>4
    <3>7. inbox'[n] = inbox[n] \ {msg}
      BY <1>4, <2>3 DEF Types
    <3>8. QED
      BY <1>4, <3>1, <3>2, <3>5, <3>6, <3>7, FollowOthers DEF Outlives
  <2>4. CASE p = m
    <3>1. message(ns, entries'[m][ns].record, entries'[m][ns].expires) \in announces(m)
      BY <2>1, <2>2, <2>4 DEF announces
    <3>2. PICK ns2 \in localEntries(m) :
            message(ns, entries'[m][ns].record, entries'[m][ns].expires)
              = message(ns2, entries[m][ns2].record, entries[m][ns2].expires)
      BY <3>1 DEF announces
    <3>3. /\ ns \in localEntries(m)
          /\ entries'[m][ns].record = entries[m][ns].record
          /\ entries'[m][ns].expires = entries[m][ns].expires
      BY <3>2 DEF message
    <3>4. entries'[n][ns] = entries[n][ns] /\ inbox'[n] = inbox[n]
      BY <1>4, <1>6, <1>9, <2>4 DEF Types
    <3>5. QED
      BY <1>4, <2>2, <3>3, <3>4, FollowSame DEF Outlives
  <2>5. CASE p # n /\ p # m
    <3>1. /\ entries'[n][ns] = entries[n][ns] /\ entries'[m][ns] = entries[m][ns]
          /\ inbox'[n] = inbox[n]
      BY <1>4, <1>6, <2>5 DEF Types
    <3>2. ns \in localEntries(m)
      BY <2>2, <3>1, LocalEntry
    <3>3. QED
      BY <1>4, <2>2, <3>1, <3>2 DEF Outlives
  <2>6. QED
    BY <2>3, <2>4, <2>5
<1>10. QED
  BY <1>5, <1>9, SpreadKept

LEMMA SpreadLose ==
  ASSUME Types, Types', SpreadInv, NEW p \in Node, NEW msg \in inbox[p], Lose(p, msg)
  PROVE  SpreadInv'
<1>1. /\ UNCHANGED <<entries, timer, behind>>
      /\ lost' = lost + 1
      /\ inbox' = [inbox EXCEPT ![p] = @ \ {msg}]
  BY DEF Lose
<1>2. ASSUME NEW n \in Node, NEW m \in Node, NEW ns \in Namespace,
             Followed(behind[n][ns], timer[m], lost, ns, entries[m][ns], inbox[n])
      PROVE  Followed(behind[n][ns], timer[m], lost', ns, entries[m][ns], inbox'[n])
  <2>1. inbox[n] \ {msg} \subseteq inbox'[n]
    BY <1>1 DEF Types
  <2>2. behind[n][ns] \in Nat /\ timer[m] \in 0..ReannounceInterval /\ lost \in Nat
    BY NetAssumption DEF Types
  <2>3. QED
    BY <1>1, <1>2, <2>1, <2>2, FollowLose
<1>3. \A n, m \in Node, ns \in Namespace : Outlives(n, m, ns)' => Outlives(n, m, ns)
  BY <1>1 DEF Outlives, localEntries
<1>4. QED
  BY <1>1, <1>2, <1>3, SpreadKept

LEMMA SpreadStep == Types /\ Types' /\ SpreadInv /\ [Next]_vars => SpreadInv'
<1> SUFFICES ASSUME Types, Types', SpreadInv, [Next]_vars PROVE SpreadInv'
  OBVIOUS
<1>1. CASE Tick
  BY <1>1, SpreadTick
<1>2. CASE behind' = InTime
  <2>1. \A n \in Node, ns \in Namespace : behind'[n][ns] = 0
    BY <1>2 DEF InTime
  <2>2. QED
    BY <2>1, SpreadKept
<1>3. ASSUME NEW n \in Node, Reannounce(n) PROVE SpreadInv'
  BY <1>3, SpreadReannounce
<1>4. ASSUME NEW n \in Node, Janitor(n) PROVE SpreadInv'
  <2>1. \A m \in Node, ns \in Namespace :
          \/ entries'[m][ns] = entries[m][ns]
          \/ entries'[m][ns] = None /\ entries[m][ns] # None /\ 0 > entries[m][ns].expires
    BY <1>4 DEF Janitor, Cleaned, Past, Types, Directory
  <2>2. QED
    BY <1>4, <2>1, SpreadClean DEF Janitor
<1>5. ASSUME NEW n \in Node, NEW k \in Namespace, Lookup(n, k) PROVE SpreadInv'
  <2>1. \A m \in Node, ns \in Namespace :
          \/ entries'[m][ns] = entries[m][ns]
          \/ entries'[m][ns] = None /\ entries[m][ns] # None /\ 0 > entries[m][ns].expires
    BY <1>5 DEF Lookup, Past, Types, Directory
  <2>2. QED
    BY <1>5, <2>1, SpreadClean DEF Lookup
<1>6. ASSUME NEW n \in Node, NEW reg \in pending[n], Announce(n, reg) PROVE SpreadInv'
  <2>1. /\ UNCHANGED <<entries, timer, lost, behind>>
        /\ \A m \in Node : inbox[m] \subseteq inbox'[m]
    BY <1>6 DEF Announce, publish
  <2>2. \A m, k \in Node, ns \in Namespace : Outlives(m, k, ns)' => Outlives(m, k, ns)
    BY <2>1 DEF Outlives, localEntries
  <2>3. QED
    BY <2>1, <2>2, SpreadKept, FollowOthers
<1>7. ASSUME NEW n \in Node, NEW msg \in inbox[n], Receive(n, msg) PROVE SpreadInv'
  BY <1>7, SpreadReceive
<1>8. ASSUME NEW n \in Node, NEW msg \in inbox[n], Lose(n, msg) PROVE SpreadInv'
  BY <1>8, SpreadLose
<1>9. CASE UNCHANGED vars
  BY <1>9 DEF vars, SpreadInv, SpreadsInTime, Outlives, localEntries
<1>10. QED
  BY <1>1, <1>2, <1>3, <1>4, <1>5, <1>6, <1>7, <1>8, <1>9 DEF Next, Register, Restart

\* However many nodes there are and whatever is lost, up to MaxLost messages: a node
\* with room for a record lacks one that another goes on announcing for at most
\* SpreadTime.
THEOREM RecordsSpreadInTime == Spec => []SpreadsInTime
<1>1. SpreadInv => SpreadsInTime
  BY DEF SpreadInv
<1>2. QED
  BY <1>1, TypesInit, TypesStep, SpreadInit, SpreadStep, PTL DEF Spec

\* The state of the nodes and of the topic keeps its types.
THEOREM NetTypes == Spec => []TypeOK
<1> USE RendezvousAssumption, NetAssumption
<1>1. ASSUME Types, SpreadsInTime PROVE TypeOK
  <2>1. entries \in [Node -> Entries]
    BY <1>1, LiveIsEntry DEF Types, Directory, Entries
  <2>2. SpreadTime \in Nat
    BY DEF SpreadTime
  <2>3. behind \in [Node -> [Namespace -> 0..SpreadTime + 1]]
    <3>1. \A n \in Node, ns \in Namespace : behind[n][ns] \in 0..SpreadTime + 1
      BY <1>1, <2>2 DEF Types, SpreadsInTime
    <3>2. QED
      BY <1>1, <3>1 DEF Types
  <2>4. QED
    BY <1>1, <2>1, <2>3 DEF Types, TypeOK
<1>2. Types /\ SpreadInv => TypeOK
  BY <1>1 DEF SpreadInv
<1>3. QED
  BY <1>2, TypesInit, TypesStep, SpreadInit, SpreadStep, PTL DEF Spec
=============================================================================
