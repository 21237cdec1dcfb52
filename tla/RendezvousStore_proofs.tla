------------------------ MODULE RendezvousStore_proofs ----------------------
(***************************************************************************)
(* Theorems about RendezvousStore, for any namespaces, records, goroutines,  *)
(* limits and lifetimes.                                                   *)
(***************************************************************************)
EXTENDS RendezvousStore, FiniteSetTheorems, TLAPS

-----------------------------------------------------------------------------
(***************************************************************************)
(* The operators on the map.                                               *)
(***************************************************************************)

\* A time written in whole seconds is never later than the time itself.
LEMMA UnixEarlier ==
  ASSUME NEW t \in Int
  PROVE  Unix(t) \in Int /\ Unix(t) <= t
<1>1. Second \in Nat /\ Second > 0
  BY RendezvousAssumption
<1>2. t \div Second \in Int /\ t % Second \in Int /\ t % Second >= 0
  BY <1>1
<1>3. t = Second * (t \div Second) + (t % Second)
  BY <1>1
<1>4. Second * (t \div Second) \in Int
  BY <1>1, <1>2
<1>5. QED
  BY <1>2, <1>3, <1>4 DEF Unix

LEMMA ClipLife ==
  ASSUME NEW ttl \in Int
  PROVE  Clip(ttl) \in Nat /\ Clip(ttl) > 0 /\ Clip(ttl) <= MaxTTL
  BY RendezvousAssumption DEF Clip

LEMMA EntryType ==
  ASSUME NEW r \in Record, NEW exp \in Int, NEW local \in BOOLEAN
  PROVE  /\ Entry(r, exp, local) \in rendezvousEntry
         /\ Entry(r, exp, local) # None
         /\ Entry(r, exp, local).record = r
         /\ Entry(r, exp, local).expires = exp
         /\ Entry(r, exp, local).local = local
  BY RendezvousAssumption DEF Entry, rendezvousEntry

\* A snapshot has the namespaces and records of the map, and no later expiries.
LEMMA SnapshotFacts ==
  ASSUME NEW m \in Entries
  PROVE  /\ Snapshot(m) \in Entries
         /\ Used(Snapshot(m)) = Used(m)
         /\ \A n \in Used(m) : /\ Snapshot(m)[n].record = m[n].record
                               /\ Snapshot(m)[n].local = m[n].local
                               /\ Snapshot(m)[n].expires <= m[n].expires
<1>1. \A n \in Namespace : m[n] # None =>
        /\ m[n].record \in Record
        /\ m[n].expires \in Int
        /\ m[n].local \in BOOLEAN
  BY DEF Entries, rendezvousEntry
<1>2. \A n \in Namespace : m[n] # None =>
        /\ Unix(m[n].expires) \in Int
        /\ Unix(m[n].expires) <= m[n].expires
  BY <1>1, UnixEarlier
<1>3. \A n \in Namespace :
        /\ m[n] = None => Snapshot(m)[n] = None
        /\ m[n] # None =>
             Snapshot(m)[n] = Entry(m[n].record, Unix(m[n].expires), m[n].local)
  BY DEF Snapshot
<1>4. \A n \in Namespace : m[n] # None =>
        /\ Snapshot(m)[n] \in rendezvousEntry
        /\ Snapshot(m)[n] # None
        /\ Snapshot(m)[n].record = m[n].record
        /\ Snapshot(m)[n].local = m[n].local
        /\ Snapshot(m)[n].expires <= m[n].expires
  BY <1>1, <1>2, <1>3, EntryType
<1>5. Snapshot(m) = [n \in Namespace |-> Snapshot(m)[n]]
  BY DEF Snapshot
<1>6. Snapshot(m) \in Entries
  BY <1>3, <1>4, <1>5 DEF Entries
<1>7. QED
  BY <1>3, <1>4, <1>6 DEF Used

-----------------------------------------------------------------------------
(***************************************************************************)
(* Types.  At most one goroutine is between WriteFile and Rename: fileMu.    *)
(***************************************************************************)

OneAtRename ==
  \A v, w \in Writer : writer[v].pc = "rename" /\ writer[w].pc = "rename" => v = w

Types ==
  /\ clock \in 0..MaxClock
  /\ up \in BOOLEAN
  /\ entries \in Entries
  /\ disk \in Entries
  /\ tmp \in Entries
  /\ writer \in [Writer -> WriterAt]
  /\ granted \in [Namespace -> [Record -> Int]]
  /\ lone \in Writer \cup {None}
  /\ settled \in BOOLEAN
  /\ OneAtRename

LEMMA TypesImplyTypeOK == Types => TypeOK
<1> SUFFICES ASSUME Types PROVE TypeOK
  OBVIOUS
<1> DEFINE S == {w \in Writer : writer[w].pc = "rename"}
<1>1. Cardinality(S) <= 1
  <2>1. CASE S = {}
    BY <2>1, FS_EmptySet
  <2>2. CASE S # {}
    <3>1. PICK w \in S : TRUE
      BY <2>2
    <3>2. S = {w}
      BY <3>1 DEF Types, OneAtRename
    <3> HIDE DEF S
    <3>3. Cardinality(S) = 1
      BY <3>2, FS_Singleton
    <3>4. QED
      BY <3>3
  <2>3. QED
    BY <2>1, <2>2
<1>2. QED
  BY <1>1 DEF Types, TypeOK

LEMMA NoEntriesType == NoEntries \in Entries /\ Used(NoEntries) = {}
  BY DEF NoEntries, Entries, Used

LEMMA TypesInit == Init => Types
  BY StoreAssumption, NoEntriesType DEF Init, Types, OneAtRename, WriterAt, Idle

\* What a goroutine does when it has changed the map and goes on to persist it.
LEMMA PersistTypes ==
  ASSUME Types, NEW w \in Writer, writer[w] = Idle, Persist(w), entries' \in Entries
  PROVE  /\ writer' \in [Writer -> WriterAt]
         /\ lone' \in Writer \cup {None}
         /\ settled' \in BOOLEAN
         /\ OneAtRename'
<1>1. Snapshot(entries') \in Entries
  BY SnapshotFacts
<1>2. writer' = [writer EXCEPT ![w] = [pc |-> "lock", snap |-> Snapshot(entries')]]
  BY DEF Persist
<1> DEFINE s == Snapshot(entries')
<1> HIDE DEF s
<1>3. writer' \in [Writer -> WriterAt] /\ OneAtRename'
  BY <1>1, <1>2 DEF Types, WriterAt, OneAtRename, s
<1>4. QED
  BY <1>3 DEF Persist, Begin

LEMMA GrantType ==
  ASSUME Types, NEW n \in Namespace, NEW r \in Record, NEW exp \in Int, Grant(n, r, exp)
  PROVE  /\ granted' \in [Namespace -> [Record -> Int]]
         /\ granted'[n][r] >= exp
         /\ \A k \in Namespace, x \in Record : granted'[k][x] >= granted[k][x]
  BY DEF Types, Grant

LEMMA TypesStep == Types /\ [Next]_vars => Types'
<1> SUFFICES ASSUME Types, [Next]_vars PROVE Types'
  OBVIOUS
<1> USE StoreAssumption
<1>1. CASE Tick
  BY <1>1 DEF Tick, Types, OneAtRename
<1>2. ASSUME NEW w \in Writer, NEW n \in Namespace, NEW r \in Record, NEW ttl \in TTL,
             Put(w, n, r, ttl) \/ PutRemote(w, n, r, ttl)
      PROVE  Types'
  <2> DEFINE exp == clock + Clip(ttl)
  <2>1. exp \in Int
    BY ClipLife DEF Types
  <2>2. Grant(n, r, exp) /\ Persist(w) /\ writer[w] = Idle /\ UNCHANGED <<clock, up, disk, tmp>>
    BY <1>2 DEF Put, PutRemote
  <2>3. PICK local \in BOOLEAN : entries' = [entries EXCEPT ![n] = Entry(r, exp, local)]
    BY <1>2 DEF Put, PutRemote, AfterPut, AfterPutRemote
  <2> HIDE DEF exp
  <2>4. entries' \in Entries
    BY <2>1, <2>3, EntryType DEF Types, Entries
  <2>5. QED
    BY <2>1, <2>2, <2>4, PersistTypes, GrantType DEF Types
<1>3. ASSUME NEW w \in Writer, Janitor(w) PROVE Types'
  <2>1. entries' \in Entries
    BY <1>3 DEF Janitor, Cleaned, Types, Entries
  <2>2. Persist(w) /\ writer[w] = Idle /\ UNCHANGED <<clock, up, disk, tmp, granted>>
    BY <1>3 DEF Janitor
  <2>3. QED
    BY <2>1, <2>2, PersistTypes DEF Types
<1>4. ASSUME NEW w \in Writer, WriteTmp(w) PROVE Types'
  BY <1>4 DEF WriteTmp, Types, WriterAt, OneAtRename
<1>5. ASSUME NEW w \in Writer, WriteFails(w) PROVE Types'
  BY <1>5, NoEntriesType DEF WriteFails, Types, WriterAt, OneAtRename, Idle
<1>6. ASSUME NEW w \in Writer, Rename(w) PROVE Types'
  <2>1. writer' \in [Writer -> WriterAt] /\ OneAtRename'
    BY <1>6, NoEntriesType DEF Rename, Types, WriterAt, OneAtRename, Idle
  <2>2. settled' \in BOOLEAN
    BY <1>6 DEF Rename
  <2>3. QED
    BY <1>6, <2>1, <2>2 DEF Rename, Types
<1>7. ASSUME NEW n \in Namespace, Get(n) PROVE Types'
  BY <1>7 DEF Get, Types, Entries, OneAtRename
<1>8. CASE Crash
  BY <1>8, NoEntriesType DEF Crash, Types, WriterAt, OneAtRename, Idle
<1>9. CASE Restart
  BY <1>9 DEF Restart, Loaded, Types, Entries, OneAtRename
<1>10. CASE UNCHANGED vars
  BY <1>10 DEF vars, Types, OneAtRename
<1>11. QED
  BY <1>1, <1>2, <1>3, <1>4, <1>5, <1>6, <1>7, <1>8, <1>9, <1>10 DEF Next

\* The directory and its files keep their types, and fileMu lets one goroutine at a
\* time write them.
THEOREM StoreTypes == Spec => []TypeOK
  BY TypesInit, TypesStep, TypesImplyTypeOK, PTL DEF Spec

-----------------------------------------------------------------------------
(***************************************************************************)
(* Every copy of the map comes from a map that was in memory.               *)
(***************************************************************************)

\* A step makes no copy but the new map, its snapshot and the empty map.
LEMMA CopiesStep ==
  ASSUME Types, [Next]_vars, NEW m \in Copies'
  PROVE  m \in Copies \/ m \in {entries', Snapshot(entries'), NoEntries}
<1> USE DEF Copies
<1>1. ASSUME NEW w \in Writer, Persist(w), UNCHANGED <<disk, tmp>>
      PROVE  m \in Copies \/ m \in {entries', Snapshot(entries'), NoEntries}
  <2>1. \A v \in Writer : writer'[v].snap \in {writer[v].snap, Snapshot(entries')}
    BY <1>1 DEF Persist, Types, WriterAt
  <2>2. QED
    BY <1>1, <2>1
<1>2. ASSUME NEW w \in Writer, NEW n, NEW r, NEW ttl,
             Put(w, n, r, ttl) \/ PutRemote(w, n, r, ttl) \/ Janitor(w)
      PROVE  Persist(w) /\ UNCHANGED <<disk, tmp>>
  BY <1>2 DEF Put, PutRemote, Janitor
<1>3. ASSUME NEW w \in Writer, WriteTmp(w) \/ WriteFails(w) \/ Rename(w)
      PROVE  m \in Copies \/ m \in {entries', Snapshot(entries'), NoEntries}
  <2>1. \A v \in Writer : writer'[v].snap \in {writer[v].snap, NoEntries}
    BY <1>3 DEF WriteTmp, WriteFails, Rename, Types, WriterAt, Idle
  <2>2. disk' \in {disk, tmp} /\ tmp' \in {tmp, writer[w].snap}
    BY <1>3 DEF WriteTmp, WriteFails, Rename
  <2>3. QED
    BY <2>1, <2>2
<1>4. ASSUME NEW n \in Namespace, Get(n)
      PROVE  m \in Copies \/ m \in {entries', Snapshot(entries'), NoEntries}
  BY <1>4 DEF Get
<1>5. ASSUME Tick \/ Restart \/ UNCHANGED vars
      PROVE  m \in Copies \/ m \in {entries', Snapshot(entries'), NoEntries}
  BY <1>5 DEF Tick, Restart, vars
<1>6. CASE Crash
  BY <1>6 DEF Crash, Idle
<1>7. QED
  BY <1>1, <1>2, <1>3, <1>4, <1>5, <1>6 DEF Next

LEMMA CopiesType == ASSUME Types, NEW m \in Copies PROVE m \in Entries
  BY DEF Types, Copies, WriterAt

\* What becomes of the map in memory: one entry is set,
SetsEntry(n, r, exp, local) ==
  /\ entries' = [entries EXCEPT ![n] = Entry(r, exp, local)]
  /\ Grant(n, r, exp)
  /\ clock' = clock
  /\ exp <= clock + MaxTTL
  /\ ~AtCapacity(entries, n)

\* or entries are dropped from it, or from the file as it is loaded.
DropsEntries ==
  /\ \E m \in {entries, disk} : \A n \in Namespace : entries'[n] \in {m[n], None}
  /\ UNCHANGED granted
  /\ clock' >= clock

LEMMA EntriesStep ==
  ASSUME Types, [Next]_vars
  PROVE  \/ \E n \in Namespace, r \in Record, exp \in Int, local \in BOOLEAN :
              SetsEntry(n, r, exp, local)
         \/ DropsEntries
<1> USE StoreAssumption
<1>1. ASSUME NEW w \in Writer, NEW n \in Namespace, NEW r \in Record, NEW ttl \in TTL,
             Put(w, n, r, ttl) \/ PutRemote(w, n, r, ttl)
      PROVE  \E exp \in Int, local \in BOOLEAN : SetsEntry(n, r, exp, local)
  <2> DEFINE e == clock + Clip(ttl)
  <2>1. e \in Int /\ e <= clock + MaxTTL
    BY ClipLife, RendezvousAssumption DEF Types
  <2>2. ~AtCapacity(entries, n)
    BY <1>1 DEF Put, PutRemote, AtCapacity, RemoteIgnored
  <2>3. Grant(n, r, e) /\ clock' = clock
    BY <1>1 DEF Put, PutRemote
  <2>4. PICK local \in BOOLEAN : entries' = [entries EXCEPT ![n] = Entry(r, e, local)]
    BY <1>1 DEF Put, PutRemote, AfterPut, AfterPutRemote
  <2> HIDE DEF e
  <2>5. SetsEntry(n, r, e, local)
    BY <2>1, <2>2, <2>3, <2>4 DEF SetsEntry
  <2>6. QED
    BY <2>1, <2>5
<1>2. clock \in Int
  BY DEF Types
<1>3. ASSUME NEW w \in Writer, Janitor(w) PROVE DropsEntries
  BY <1>2, <1>3 DEF Janitor, Cleaned, DropsEntries
<1>4. ASSUME NEW n \in Namespace, Get(n) PROVE DropsEntries
  BY <1>2, <1>4 DEF Get, Types, Entries, DropsEntries
<1>5. ASSUME NEW w \in Writer, WriteTmp(w) \/ WriteFails(w) \/ Rename(w)
      PROVE  DropsEntries
  BY <1>2, <1>5 DEF WriteTmp, WriteFails, Rename, DropsEntries
<1>6. ASSUME Crash \/ Restart \/ Tick \/ UNCHANGED vars PROVE DropsEntries
  BY <1>2, <1>6 DEF Crash, NoEntries, Restart, Loaded, Tick, vars, DropsEntries
<1>7. QED
  BY <1>1, <1>3, <1>4, <1>5, <1>6 DEF Next

-----------------------------------------------------------------------------
(***************************************************************************)
(* The size of the directory.                                              *)
(***************************************************************************)

Fits(m) == IsFiniteSet(Used(m)) /\ Cardinality(Used(m)) <= MaxEntries

LEMMA FitsSubset ==
  ASSUME NEW m, Fits(m), NEW k, Used(k) \subseteq Used(m)
  PROVE  Fits(k)
<1>1. IsFiniteSet(Used(k)) /\ Cardinality(Used(k)) <= Cardinality(Used(m))
  BY FS_Subset DEF Fits
<1>2. Cardinality(Used(k)) \in Nat /\ Cardinality(Used(m)) \in Nat
  BY <1>1, FS_CardinalityType DEF Fits
<1>3. QED
  BY <1>1, <1>2, RendezvousAssumption DEF Fits

LimitInv == \A m \in Copies : Fits(m)

LEMMA LimitInit == Init => LimitInv
<1> SUFFICES ASSUME Init, NEW m \in Copies PROVE Fits(m)
  BY DEF LimitInv
<1>1. m = NoEntries
  BY DEF Init, Copies, Idle
<1>2. QED
  BY <1>1, NoEntriesType, FS_EmptySet, RendezvousAssumption DEF Fits

LEMMA LimitStep == Types /\ LimitInv /\ [Next]_vars => LimitInv'
<1> SUFFICES ASSUME Types, Types', LimitInv, [Next]_vars PROVE LimitInv'
  BY TypesStep
<1>1. Fits(entries) /\ Fits(disk)
  BY DEF LimitInv, Copies
<1>2. Fits(entries')
  <2>1. CASE DropsEntries
    BY <1>1, <2>1, FitsSubset DEF Used, DropsEntries
  <2>2. ASSUME NEW n \in Namespace, NEW r \in Record, NEW exp \in Int, NEW local \in BOOLEAN,
               SetsEntry(n, r, exp, local)
        PROVE  Fits(entries')
    <3>1. Used(entries') = Used(entries) \cup {n}
      BY <2>2, EntryType DEF SetsEntry, Used, Types, Entries
    <3>2. CASE entries[n] # None
      BY <1>1, <3>1, <3>2, FitsSubset DEF Used
    <3>3. CASE ~(Cardinality(Used(entries)) >= MaxEntries)
      <4>1. /\ IsFiniteSet(Used(entries) \cup {n})
            /\ Cardinality(Used(entries) \cup {n}) \in
                 {Cardinality(Used(entries)), Cardinality(Used(entries)) + 1}
            /\ Cardinality(Used(entries)) \in Nat
        BY <1>1, FS_AddElement, FS_CardinalityType DEF Fits
      <4>2. QED
        BY <3>1, <3>3, <4>1, RendezvousAssumption DEF Fits
    <3>4. QED
      BY <2>2, <3>2, <3>3 DEF SetsEntry, AtCapacity
  <2>3. QED
    BY <2>1, <2>2, EntriesStep
<1>3. Fits(Snapshot(entries'))
  <2>1. entries' \in Entries
    BY DEF Types
  <2>2. Used(Snapshot(entries')) = Used(entries')
    BY <2>1, SnapshotFacts
  <2>3. QED
    BY <1>2, <2>2, FitsSubset
<1>4. Fits(NoEntries)
  BY <1>1, NoEntriesType, FitsSubset
<1>5. ASSUME NEW m \in Copies' PROVE Fits(m)
  BY <1>2, <1>3, <1>4, <1>5, CopiesStep DEF LimitInv
<1>6. QED
  BY <1>5 DEF LimitInv

\* The directory never holds more than MaxEntries namespaces, in memory, in a
\* snapshot or in a file.
THEOREM DirectoryWithinLimit == Spec => []WithinLimit
<1>1. LimitInv => WithinLimit
  BY DEF LimitInv, WithinLimit, Fits
<1>2. QED
  BY <1>1, TypesInit, TypesStep, LimitInit, LimitStep, PTL DEF Spec

-----------------------------------------------------------------------------
(***************************************************************************)
(* How long records live.                                                  *)
(***************************************************************************)

\* What NoneOutlivesGrant says of one copy.
Lawful(m) ==
  \A n \in Used(m) :
    m[n].expires <= granted[n][m[n].record] /\ m[n].expires <= clock + MaxTTL

LEMMA LawfulStays ==
  ASSUME Types, Types', [Next]_vars, NEW m \in Entries, Lawful(m)
  PROVE  Lawful(m)'
<1>1. /\ clock' >= clock
      /\ \A n \in Namespace, r \in Record : granted'[n][r] >= granted[n][r]
  <2>1. CASE DropsEntries
    BY <2>1 DEF DropsEntries, Types
  <2>2. ASSUME NEW n \in Namespace, NEW r \in Record, NEW exp \in Int, NEW local \in BOOLEAN,
               SetsEntry(n, r, exp, local)
        PROVE  /\ clock' >= clock
               /\ \A k \in Namespace, x \in Record : granted'[k][x] >= granted[k][x]
    BY <2>2, GrantType, StoreAssumption DEF SetsEntry, Types
  <2>3. QED
    BY <2>1, <2>2, EntriesStep
<1>2. \A n \in Used(m) : n \in Namespace /\ m[n].record \in Record /\ m[n].expires \in Int
  BY DEF Used, Entries, rendezvousEntry
<1>3. /\ clock \in Int /\ clock' \in Int
      /\ \A n \in Namespace, r \in Record : granted[n][r] \in Int /\ granted'[n][r] \in Int
  BY StoreAssumption DEF Types
<1>4. QED
  BY <1>1, <1>2, <1>3, RendezvousAssumption DEF Lawful

\* Lawful(m) of a copy that the step makes: m is a state function there.
LawfulNext(m) ==
  \A n \in Used(m) :
    m[n].expires <= granted'[n][m[n].record] /\ m[n].expires <= clock' + MaxTTL

LEMMA LawfulEntries ==
  ASSUME Types, Types', [Next]_vars, NoneOutlivesGrant
  PROVE  LawfulNext(entries')
<1>1. ASSUME NEW m \in {entries, disk} PROVE LawfulNext(m)
  <2>1. m \in Entries /\ Lawful(m)
    BY DEF Types, NoneOutlivesGrant, Copies, Lawful
  <2>2. QED
    BY <2>1, LawfulStays DEF Lawful, LawfulNext
<1>2. CASE DropsEntries
  BY <1>1, <1>2 DEF DropsEntries, LawfulNext, Used
<1>3. ASSUME NEW n \in Namespace, NEW r \in Record, NEW exp \in Int, NEW local \in BOOLEAN,
             SetsEntry(n, r, exp, local)
      PROVE  LawfulNext(entries')
  <2>1. /\ entries' = [entries EXCEPT ![n] = Entry(r, exp, local)]
        /\ entries \in [Namespace -> rendezvousEntry \cup {None}]
        /\ clock' = clock
        /\ exp <= clock + MaxTTL
    BY <1>3 DEF SetsEntry, Types, Entries
  <2>2. granted'[n][r] >= exp
    BY <1>3, GrantType DEF SetsEntry
  <2>3. granted'[n][r] \in Int
    BY DEF Types
  <2>4. entries'[n].expires = exp /\ entries'[n].record = r
    BY <2>1, EntryType
  <2>5. ASSUME NEW k \in Used(entries')
        PROVE  /\ entries'[k].expires <= granted'[k][entries'[k].record]
               /\ entries'[k].expires <= clock' + MaxTTL
    <3>1. CASE k = n
      BY <2>1, <2>2, <2>3, <2>4, <3>1
    <3>2. CASE k # n
      <4>1. entries'[k] = entries[k] /\ k \in Used(entries)
        BY <2>1, <2>5, <3>2 DEF Used
      <4>2. QED
        BY <1>1, <4>1 DEF LawfulNext
    <3>3. QED
      BY <3>1, <3>2
  <2>6. QED
    BY <2>5 DEF LawfulNext
<1>4. QED
  BY <1>2, <1>3, EntriesStep

LEMMA GrantStep == Types /\ NoneOutlivesGrant /\ [Next]_vars => NoneOutlivesGrant'
<1> SUFFICES ASSUME Types, Types', NoneOutlivesGrant, [Next]_vars PROVE NoneOutlivesGrant'
  BY TypesStep
<1>1. LawfulNext(entries')
  BY LawfulEntries
<1>2. LawfulNext(Snapshot(entries'))
  <2> DEFINE m == entries'
             s == Snapshot(entries')
  <2>1. m \in Entries
    BY DEF Types
  <2>2. /\ Used(s) = Used(m)
        /\ s \in Entries
        /\ \A n \in Used(m) : /\ s[n].record = m[n].record
                              /\ s[n].expires <= m[n].expires
    BY <2>1, SnapshotFacts
  <2>3. /\ \A n \in Used(m) : /\ n \in Namespace
                              /\ m[n].record \in Record
                              /\ m[n].expires \in Int
                              /\ s[n].expires \in Int
    BY <2>1, <2>2 DEF Used, Entries, rendezvousEntry
  <2>4. /\ clock' + MaxTTL \in Int
        /\ \A n \in Namespace, r \in Record : granted'[n][r] \in Int
    BY StoreAssumption, RendezvousAssumption DEF Types
  <2> HIDE DEF m, s
  <2>5. LawfulNext(m)
    BY <1>1 DEF m
  <2>6. LawfulNext(s)
    BY <2>2, <2>3, <2>4, <2>5 DEF LawfulNext
  <2>7. QED
    BY <2>6 DEF s
<1>3. LawfulNext(NoEntries)
  BY NoEntriesType DEF LawfulNext
<1>4. ASSUME NEW m \in Copies' PROVE LawfulNext(m)
  <2>1. CASE m \in Copies
    <3>1. m \in Entries /\ Lawful(m)
      BY <2>1, CopiesType DEF NoneOutlivesGrant, Lawful
    <3>2. QED
      BY <3>1, LawfulStays DEF Lawful, LawfulNext
  <2>2. QED
    BY <1>1, <1>2, <1>3, <2>1, CopiesStep
<1>5. QED
  BY <1>4 DEF NoneOutlivesGrant, LawfulNext

\* No copy of the directory, a file that a restart would load included, keeps a
\* record beyond what it was granted or beyond MaxTTL from now.
THEOREM RecordsDoNotOutliveGrants == Spec => []NoneOutlivesGrant
<1>1. Init => NoneOutlivesGrant
  BY NoEntriesType DEF Init, NoneOutlivesGrant, Copies, Idle
<1>2. QED
  BY <1>1, TypesInit, TypesStep, GrantStep, PTL DEF Spec

-----------------------------------------------------------------------------
(***************************************************************************)
(* Who announces a namespace.                                              *)
(***************************************************************************)

\* The body of LocalStays.
LocalKept ==
  \A n \in Namespace :
    (up /\ up' /\ entries[n] # None /\ entries[n].local /\ entries'[n] # None)
      => entries'[n].local

LEMMA LocalStep == Types /\ [Next]_vars => LocalKept
<1> SUFFICES ASSUME Types, [Next]_vars PROVE LocalKept
  OBVIOUS
<1>1. ASSUME NEW n \in Namespace, NEW r \in Record, NEW exp \in Int, NEW local \in BOOLEAN,
             entries' = [entries EXCEPT ![n] = Entry(r, exp, local)],
             entries[n] # None /\ entries[n].local => local
      PROVE  LocalKept
  BY <1>1, EntryType DEF LocalKept, Types, Entries
<1>2. ASSUME NEW w \in Writer, NEW n \in Namespace, NEW r \in Record, NEW ttl \in TTL,
             Put(w, n, r, ttl) \/ PutRemote(w, n, r, ttl)
      PROVE  LocalKept
  <2> DEFINE exp == clock + Clip(ttl)
  <2>1. exp \in Int
    BY ClipLife, StoreAssumption DEF Types
  <2>2. \/ entries' = [entries EXCEPT ![n] = Entry(r, exp, TRUE)]
        \/ entries' = [entries EXCEPT ![n] = Entry(r, exp, entries[n] # None /\ entries[n].local)]
    BY <1>2 DEF Put, PutRemote, AfterPut, AfterPutRemote
  <2>3. (entries[n] # None /\ entries[n].local) \in BOOLEAN
    OBVIOUS
  <2> HIDE DEF exp
  <2>4. QED
    BY <1>1, <2>1, <2>2, <2>3
<1>3. ASSUME \A n \in Namespace : entries'[n] \in {entries[n], None} PROVE LocalKept
  BY <1>3 DEF LocalKept
<1>4. ASSUME NEW w \in Writer, Janitor(w) PROVE LocalKept
  BY <1>3, <1>4 DEF Janitor, Cleaned
<1>5. ASSUME NEW n \in Namespace, Get(n) PROVE LocalKept
  BY <1>3, <1>5 DEF Get, Types, Entries
<1>6. ASSUME NEW w \in Writer, WriteTmp(w) \/ WriteFails(w) \/ Rename(w) PROVE LocalKept
  BY <1>3, <1>6 DEF WriteTmp, WriteFails, Rename
<1>7. ASSUME Crash \/ Restart PROVE LocalKept
  BY <1>7 DEF Crash, Restart, LocalKept
<1>8. ASSUME Tick \/ UNCHANGED vars PROVE LocalKept
  BY <1>3, <1>8 DEF Tick, vars
<1>9. QED
  BY <1>2, <1>4, <1>5, <1>6, <1>7, <1>8 DEF Next

\* Gossip about a namespace registered here never takes its announcement over.
THEOREM LocalRecordsStayLocal == Spec => LocalStays
  BY TypesInit, TypesStep, LocalStep, PTL DEF Spec, LocalStays, LocalKept

-----------------------------------------------------------------------------
(***************************************************************************)
(* What a successful write leaves in the file.                             *)
(***************************************************************************)

\* m has every record of k.
Covers(m, k) ==
  \A n \in Used(k) : /\ m[n] # None
                     /\ m[n].record = k[n].record
                     /\ m[n].local = k[n].local

\* Why the file is good once the goroutine that worked alone has renamed it: until
\* then its snapshot covers the map, which only get shrinks, and the temporary file
\* is the snapshot of the goroutine that has fileMu.
SettleInv ==
  /\ \A w \in Writer : writer[w].pc = "rename" => tmp = writer[w].snap
  /\ ~up => \A w \in Writer : writer[w].pc = "idle"
  /\ \A w \in Writer : lone = w /\ writer[w].pc # "idle" => Covers(writer[w].snap, entries)
  /\ up /\ settled => Covers(disk, entries)

LEMMA CoversSnapshot == ASSUME NEW m \in Entries PROVE Covers(Snapshot(m), m)
<1>1. /\ Used(Snapshot(m)) = Used(m)
      /\ \A n \in Used(m) : /\ Snapshot(m)[n].record = m[n].record
                            /\ Snapshot(m)[n].local = m[n].local
  BY SnapshotFacts
<1>2. QED
  BY <1>1 DEF Covers, Used

LEMMA CoversLess ==
  ASSUME NEW m, NEW k, Covers(m, k), NEW l, \A n \in Namespace : l[n] \in {k[n], None}
  PROVE  Covers(m, l)
  BY DEF Covers, Used

LEMMA SettlePersist ==
  ASSUME Types, Types', SettleInv, NEW w \in Writer, writer[w] = Idle, Persist(w), up, UNCHANGED <<tmp, up>>
  PROVE  SettleInv'
<1> DEFINE s == Snapshot(entries')
<1>1. Covers(s, entries')
  BY CoversSnapshot DEF Types
<1>2. /\ writer' = [writer EXCEPT ![w] = [pc |-> "lock", snap |-> s]]
      /\ settled' = FALSE
      /\ lone' \in {w, None}
  BY DEF Persist, Begin
<1> HIDE DEF s
<1>3. writer \in [Writer -> WriterAt]
  BY DEF Types
<1>4. /\ writer'[w] = [pc |-> "lock", snap |-> s]
      /\ \A v \in Writer \ {w} : writer'[v] = writer[v]
  BY <1>2, <1>3
<1>5. \A v \in Writer : lone' = v => v = w
  BY <1>2, StoreAssumption
<1>6. QED
  BY <1>1, <1>2, <1>4, <1>5 DEF SettleInv

LEMMA SettleStep == Types /\ SettleInv /\ [Next]_vars => SettleInv'
<1> SUFFICES ASSUME Types, Types', SettleInv, [Next]_vars PROVE SettleInv'
  BY TypesStep
<1>0. writer \in [Writer -> WriterAt]
  BY DEF Types
<1>1. ASSUME NEW w \in Writer, NEW n, NEW r, NEW ttl,
             Put(w, n, r, ttl) \/ PutRemote(w, n, r, ttl) \/ Janitor(w)
      PROVE  SettleInv'
  BY <1>1, SettlePersist DEF Put, PutRemote, Janitor
<1>2. ASSUME NEW w \in Writer, WriteTmp(w) PROVE SettleInv'
  <2>1. /\ writer[w].pc = "lock"
        /\ \A v \in Writer : writer[v].pc # "rename"
        /\ tmp' = writer[w].snap
        /\ writer' = [writer EXCEPT ![w].pc = "rename"]
        /\ UNCHANGED <<up, entries, disk, lone, settled>>
    BY <1>2 DEF WriteTmp
  <2>2. /\ writer'[w].pc = "rename" /\ writer'[w].snap = writer[w].snap
        /\ \A v \in Writer \ {w} : writer'[v] = writer[v]
    BY <1>0, <2>1 DEF WriterAt
  <2>3. QED
    BY <2>1, <2>2 DEF SettleInv
<1>3. ASSUME NEW w \in Writer, WriteFails(w) PROVE SettleInv'
  <2>1. /\ writer' = [writer EXCEPT ![w] = Idle]
        /\ UNCHANGED <<up, entries, disk, tmp, lone, settled>>
    BY <1>3 DEF WriteFails
  <2>2. writer'[w].pc = "idle" /\ \A v \in Writer \ {w} : writer'[v] = writer[v]
    BY <1>0, <2>1 DEF Idle
  <2>3. QED
    BY <2>1, <2>2 DEF SettleInv
<1>4. ASSUME NEW w \in Writer, Rename(w) PROVE SettleInv'
  <2>1. /\ writer[w].pc = "rename"
        /\ writer' = [writer EXCEPT ![w] = Idle]
        /\ UNCHANGED <<up, entries, tmp, lone>>
    BY <1>4 DEF Rename
  <2>2. settled' => lone = w /\ disk' = tmp
    BY <1>4 DEF Rename
  <2>3. writer'[w].pc = "idle" /\ \A v \in Writer \ {w} : writer'[v] = writer[v]
    BY <1>0, <2>1 DEF Idle
  <2>4. settled' => Covers(disk', entries')
    BY <2>1, <2>2 DEF SettleInv
  <2>5. QED
    BY <2>1, <2>3, <2>4 DEF SettleInv
<1>5. ASSUME NEW n \in Namespace, Get(n) PROVE SettleInv'
  <2>1. \A k \in Namespace : entries'[k] \in {entries[k], None}
    BY <1>5 DEF Get, Types, Entries
  <2>2. UNCHANGED <<up, disk, tmp, writer, lone, settled>>
    BY <1>5 DEF Get
  <2>3. QED
    BY <2>1, <2>2, CoversLess DEF SettleInv
<1>6. CASE Crash
  <2>1. \A w \in Writer : writer'[w].pc = "idle"
    BY <1>6 DEF Crash, Idle
  <2>2. QED
    BY <1>6, <2>1 DEF Crash, SettleInv
<1>7. CASE Restart
  <2>1. \A w \in Writer : writer'[w].pc = "idle"
    BY <1>7 DEF Restart, SettleInv
  <2>2. \A n \in Namespace : entries'[n] \in {disk[n], None}
    BY <1>7 DEF Restart, Loaded
  <2>3. Covers(disk, entries')
    BY <2>2 DEF Covers, Used
  <2>4. disk' = disk
    BY <1>7 DEF Restart
  <2>5. QED
    BY <2>1, <2>3, <2>4 DEF SettleInv
<1>8. ASSUME Tick \/ UNCHANGED vars PROVE SettleInv'
  BY <1>8 DEF Tick, vars, SettleInv
<1>9. QED
  BY <1>1, <1>2, <1>3, <1>4, <1>5, <1>6, <1>7, <1>8 DEF Next

\* When the last change was written alone and its write succeeded, the file has
\* every live record of the directory.
THEOREM SettledWritesPersist == Spec => []SettledIsPersisted
<1>1. Init => SettleInv
  BY NoEntriesType DEF Init, SettleInv, Covers, Idle
<1>2. SettleInv => SettledIsPersisted
  BY DEF SettleInv, SettledIsPersisted, Covers
<1>3. QED
  BY <1>1, <1>2, TypesInit, TypesStep, SettleStep, PTL DEF Spec
=============================================================================
