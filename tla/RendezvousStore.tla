--------------------------- MODULE RendezvousStore --------------------------
(***************************************************************************)
(* internal/api/rendezvous.go: the pairing directory of one node with its   *)
(* file rendezvous.json.                                                   *)
(*                                                                         *)
(* A goroutine changes the map and takes a snapshot of it under mu, lets mu  *)
(* go, and then writes the snapshot under fileMu, first to a temporary file *)
(* and then over the old one by a rename.  Writer is the set of those       *)
(* goroutines: handlers of POST /rendezvous/register, the gossip read loop  *)
(* and the janitor.  Any of them may do the work of any other, which allows  *)
(* more interleavings than the code has and no fewer.  A crash loses the map *)
(* and everything under way; the files stay.                               *)
(*                                                                         *)
(* granted, lone and settled are history variables.                         *)
(***************************************************************************)
EXTENDS RendezvousRules

CONSTANTS
  Writer,
  TTL,             \* values of ttl_seconds and of the remaining life in gossip, in ticks
  MaxClock         \* bound on the clock

ASSUME StoreAssumption ==
  /\ TTL \subseteq Int
  /\ None \notin Writer
  /\ MaxClock \in Nat

VARIABLES
  clock,
  up,        \* the process runs
  entries,   \* rendezvousStore.entries
  disk,      \* contents of rendezvous.json
  tmp,       \* contents of rendezvous.json.tmp
  writer,    \* [Writer -> where in persist the goroutine is, and its snapshot]
  granted,   \* the latest expiry each record was given, by registration or gossip
  lone,      \* the goroutine whose work overlaps nobody else's, or None
  settled    \* its snapshot has become the file, and no other was taken since

vars == <<clock, up, entries, disk, tmp, writer, granted, lone, settled>>

WriterAt == [pc : {"idle", "lock", "rename"}, snap : Entries]

Idle == [pc |-> "idle", snap |-> NoEntries]

TypeOK ==
  /\ clock \in 0..MaxClock
  /\ up \in BOOLEAN
  /\ entries \in Entries
  /\ disk \in Entries
  /\ tmp \in Entries
  /\ writer \in [Writer -> WriterAt]
  /\ granted \in [Namespace -> [Record -> Int]]
  /\ lone \in Writer \cup {None}
  /\ settled \in BOOLEAN
  /\ Cardinality({w \in Writer : writer[w].pc = "rename"}) <= 1

Init ==
  /\ clock = 0
  /\ up = TRUE
  /\ entries = NoEntries
  /\ disk = NoEntries
  /\ tmp = NoEntries
  /\ writer = [w \in Writer |-> Idle]
  /\ granted = [n \in Namespace |-> [r \in Record |-> 0]]
  /\ lone = None
  /\ settled = TRUE

Tick ==
  /\ clock < MaxClock
  /\ clock' = clock + 1
  /\ UNCHANGED <<up, entries, disk, tmp, writer, granted, lone, settled>>

Grant(n, r, exp) ==
  granted' = [granted EXCEPT ![n][r] = IF @ < exp THEN exp ELSE @]

\* w begins, while nobody else is at work or not.
Begin(w) ==
  /\ lone' = IF \A v \in Writer : writer[v] = Idle THEN w ELSE None
  /\ settled' = FALSE

\* Mutated form of Persist: the snapshot is taken before the change.
PersistStale(w) ==
  /\ writer' = [writer EXCEPT ![w] = [pc |-> "lock", snap |-> Snapshot(entries)]]
  /\ Begin(w)

\* w goes on to persist a snapshot of the map it leaves.
Persist(w) ==
  /\ writer' = [writer EXCEPT ![w] = [pc |-> "lock", snap |-> Snapshot(entries')]]
  /\ Begin(w)

\* Mutated form of Put: there is no limit on the number of namespaces.
PutUnlimited(w, n, r, ttl) ==
  /\ up /\ writer[w] = Idle
  /\ entries' = AfterPut(entries, n, r, clock + Clip(ttl))
  /\ Grant(n, r, clock + Clip(ttl))
  /\ Persist(w)
  /\ UNCHANGED <<clock, up, disk, tmp>>

\* handleRendezvousRegister and put; a full map refuses and changes nothing.
Put(w, n, r, ttl) ==
  /\ up /\ writer[w] = Idle
  /\ ~AtCapacity(entries, n)
  /\ entries' = AfterPut(entries, n, r, clock + Clip(ttl))
  /\ Grant(n, r, clock + Clip(ttl))
  /\ Persist(w)
  /\ UNCHANGED <<clock, up, disk, tmp>>

\* Mutated form of PutRemote: the entry counts as remote from then on.
PutRemoteDisowns(w, n, r, ttl) ==
  LET exp == clock + Clip(ttl)
  IN /\ up /\ writer[w] = Idle
     /\ ttl > 0
     /\ ~RemoteIgnored(entries, n, exp)
     /\ entries' = [entries EXCEPT ![n] = Entry(r, exp, FALSE)]
     /\ Grant(n, r, exp)
     /\ Persist(w)
     /\ UNCHANGED <<clock, up, disk, tmp>>

\* readLoop of RendezvousGossip and putRemote; ttl is what is left of the
\* record's life by this node's clock, and a dead record is skipped.
PutRemote(w, n, r, ttl) ==
  LET exp == clock + Clip(ttl)
  IN /\ up /\ writer[w] = Idle
     /\ ttl > 0
     /\ ~RemoteIgnored(entries, n, exp)
     /\ entries' = AfterPutRemote(entries, n, r, exp)
     /\ Grant(n, r, exp)
     /\ Persist(w)
     /\ UNCHANGED <<clock, up, disk, tmp>>

\* janitor, when it removes anything
Janitor(w) ==
  /\ up /\ writer[w] = Idle
  /\ Cleaned(entries, clock) # entries
  /\ entries' = Cleaned(entries, clock)
  /\ Persist(w)
  /\ UNCHANGED <<clock, up, disk, tmp, granted>>

\* get of an expired record, which removes it without a snapshot
Get(n) ==
  /\ up
  /\ entries[n] # None
  /\ Past(entries[n], clock)
  /\ entries' = [entries EXCEPT ![n] = None]
  /\ UNCHANGED <<clock, up, disk, tmp, writer, granted, lone, settled>>

-----------------------------------------------------------------------------
\* persist, under fileMu

\* os.WriteFile(tmp)
WriteTmp(w) ==
  /\ writer[w].pc = "lock"
  /\ \A v \in Writer : writer[v].pc # "rename"
  /\ tmp' = writer[w].snap
  /\ writer' = [writer EXCEPT ![w].pc = "rename"]
  /\ UNCHANGED <<clock, up, entries, disk, granted, lone, settled>>

\* os.WriteFile fails: the file is left as it is, and nobody is told.
WriteFails(w) ==
  /\ writer[w].pc = "lock"
  /\ \A v \in Writer : writer[v].pc # "rename"
  /\ writer' = [writer EXCEPT ![w] = Idle]
  /\ UNCHANGED <<clock, up, entries, disk, tmp, granted, lone, settled>>

\* os.Rename, whose error is ignored
Rename(w) ==
  /\ writer[w].pc = "rename"
  /\ disk' \in {tmp, disk}
  /\ writer' = [writer EXCEPT ![w] = Idle]
  /\ settled' = (lone = w /\ disk' = tmp)
  /\ UNCHANGED <<clock, up, entries, tmp, granted, lone>>

-----------------------------------------------------------------------------
Crash ==
  /\ up
  /\ up' = FALSE
  /\ entries' = NoEntries
  /\ writer' = [w \in Writer |-> Idle]
  /\ lone' = None
  /\ UNCHANGED <<clock, disk, tmp, granted, settled>>

\* newRendezvousStore and load
Restart ==
  /\ ~up
  /\ up' = TRUE
  /\ entries' = Loaded(disk, clock)
  /\ UNCHANGED <<clock, disk, tmp, writer, granted, lone, settled>>

Next ==
  \/ Tick
  \/ \E w \in Writer, n \in Namespace, r \in Record, ttl \in TTL :
       Put(w, n, r, ttl) \/ PutRemote(w, n, r, ttl)
  \/ \E w \in Writer : Janitor(w) \/ WriteTmp(w) \/ WriteFails(w) \/ Rename(w)
  \/ \E n \in Namespace : Get(n)
  \/ Crash \/ Restart

Spec == Init /\ [][Next]_vars

-----------------------------------------------------------------------------
\* Properties.

\* Every copy of the map: in memory, in the files, and in snapshots to be written.
Copies == {entries, disk, tmp} \cup {writer[w].snap : w \in Writer}

\* No copy of the directory, the ones on disk that a restart would load included,
\* has more than MaxEntries namespaces.
WithinLimit == \A m \in Copies : Cardinality(Used(m)) <= MaxEntries

\* No copy of the directory keeps a record beyond the latest expiry the record was
\* given, and none beyond MaxTTL from now: neither a restart nor a snapshot that is
\* written late brings back a record that should be gone.
NoneOutlivesGrant ==
  \A m \in Copies : \A n \in Used(m) :
    m[n].expires <= granted[n][m[n].record] /\ m[n].expires <= clock + MaxTTL

\* While the process runs, a namespace registered here is announced by this node
\* for as long as it has a record: gossip about it does not take that over.
LocalStays ==
  [][\A n \in Namespace :
       (up /\ up' /\ entries[n] # None /\ entries[n].local /\ entries'[n] # None)
         => entries'[n].local]_vars

\* When the last change was written alone and its write succeeded, the file has every
\* live record of the directory, a restart in between or not: only writes that fail
\* or overlap leave it behind (put, putRemote, janitor, persist, load).
SettledIsPersisted ==
  up /\ settled =>
    \A n \in Used(entries) :
      ~Past(entries[n], clock) =>
        /\ disk[n] # None
        /\ disk[n].record = entries[n].record
        /\ disk[n].local = entries[n].local
=============================================================================
