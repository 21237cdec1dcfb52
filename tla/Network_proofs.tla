--------------------------- MODULE Network_proofs ---------------------------
(***************************************************************************)
(* Theorems about what a node keeps of the others: NetworkCards, for any      *)
(* nodes, networks and cards, any directory and any number of faults;         *)
(* PeerMemory, for any nodes and bootstrap peers and any number of failures   *)
(* and torn files; PingTracker, for any peers and connections.               *)
(***************************************************************************)
EXTENDS NetworkCards, PeerMemory, PingTracker, SequenceTheorems, TLAPS

-----------------------------------------------------------------------------
(***************************************************************************)
(* Cards.  Types: TypeOK, with the domains of its functions.  A node without a        *)
(* directory_url has nothing left to fetch.                                  *)
(***************************************************************************)

Signed == {c \in Card : c.signed}

Slot == {NoCard} \cup Signed

Busy == {Waiting} \cup [at : {"Put", "publish"}, card : Signed]

Types ==
  /\ store \in [Node -> [NetworkID -> Slot]]
  /\ \A n \in Node, id \in NetworkID : store[n][id] # NoCard => store[n][id].id = id
  /\ reading \in [Node -> Busy]
  /\ fetched \in [Node -> 0..Len(Directory)]
  /\ \A n \in Node \ WithDirectory : fetched[n] = Len(Directory)
  /\ net \subseteq [to : Node, card : Card]
  /\ faults \in 0..MaxFaults
  /\ announced \subseteq Signed
  /\ missed \subseteq Node

LEMMA TypesImply == Types => TypeOK
<1> SUFFICES ASSUME Types PROVE TypeOK
  OBVIOUS
<1>1. \A n \in Node, id \in NetworkID :
        store[n][id] \in {NoCard} \cup {c \in Signed : c.id = id}
  BY DEF Types, Slot
<1>2. \A n \in Node : reading[n] \in Busy /\ fetched[n] \in 0..Len(Directory)
  BY DEF Types
<1>3. QED
  BY <1>1, <1>2 DEF Types, TypeOK, Signed, Busy

LEMMA DirectoryLength == Len(Directory) \in Nat
  BY CardAssumption, LenProperties

LEMMA UnfetchedType == \A n \in Node : Unfetched(n) \in 0..Len(Directory)
  BY DirectoryLength DEF Unfetched

LEMMA TypesInit == Init => Types
  BY UnfetchedType, CardAssumption DEF Init, Types, Slot, Busy, Unfetched

\* Storing a signed card.
LEMMA PutTypes ==
  ASSUME Types, NEW n \in Node, NEW c \in Signed, Put(n, c)
  PROVE  /\ store' \in [Node -> [NetworkID -> Slot]]
         /\ \A k \in Node, id \in NetworkID : store'[k][id] # NoCard => store'[k][id].id = id
         /\ store'[n][c.id] = c
         /\ \A k \in Node, id \in NetworkID :
              ~(k = n /\ id = c.id) => store'[k][id] = store[k][id]
<1>1. c.id \in NetworkID
  BY CardAssumption DEF Signed
<1>2. store' = [store EXCEPT ![n][c.id] = c]
  BY DEF Put
<1>3. store' \in [Node -> [NetworkID -> Slot]]
  BY <1>1, <1>2 DEF Types, Slot
<1>4. store'[n][c.id] = c
  BY <1>1, <1>2 DEF Types
<1>5. \A k \in Node, id \in NetworkID :
        ~(k = n /\ id = c.id) => store'[k][id] = store[k][id]
  BY <1>1, <1>2 DEF Types
<1>6. \A k \in Node, id \in NetworkID : store'[k][id] # NoCard => store'[k][id].id = id
  BY <1>4, <1>5 DEF Types
<1>7. QED
  BY <1>3, <1>4, <1>5, <1>6

LEMMA PublishTypes ==
  ASSUME Types, NEW n \in Node, NEW c \in Signed, publish(n, c)
  PROVE  net' \subseteq [to : Node, card : Card]
  BY DEF Types, publish, Signed

LEMMA TypesStep == Types /\ [Next]_vars => Types'
<1> SUFFICES ASSUME Types, [Next]_vars PROVE Types'
  OBVIOUS
<1> USE CardAssumption, DirectoryLength
<1>1. ASSUME NEW n \in Node, NEW c \in Card, Announce(n, c) PROVE Types'
  <2>1. c \in Signed
    BY <1>1 DEF Announce, VerifyNetworkCard, Signed
  <2>2. QED
    BY <1>1, <2>1, PutTypes, PublishTypes DEF Announce, Types
<1>2. ASSUME NEW n \in Node, NEW m \in net, Receive(n, m) PROVE Types'
  <2>1. m \in [to : Node, card : Card]
    BY DEF Types
  <2>2. VerifyNetworkCard(m.card) => [at |-> "Put", card |-> m.card] \in Busy
    BY <2>1 DEF VerifyNetworkCard, Signed, Busy
  <2>3. reading' \in [Node -> Busy]
    BY <1>2, <2>2 DEF Receive, Types
  <2>4. QED
    BY <1>2, <2>3 DEF Receive, Types
<1>3. ASSUME NEW n \in Node, ReadPut(n) PROVE Types'
  <2>1. reading[n] \in [at : {"Put", "publish"}, card : Signed]
    BY <1>3 DEF ReadPut, Types, Busy, Waiting
  <2>2. reading[n].card \in Signed /\ [reading[n] EXCEPT !.at = "publish"] \in Busy
    BY <2>1 DEF Busy
  <2>3. reading' \in [Node -> Busy]
    BY <1>3, <2>2 DEF ReadPut, Types
  <2>4. QED
    BY <1>3, <2>2, <2>3, PutTypes DEF ReadPut, Types
<1>4. ASSUME NEW n \in Node, ReadPublish(n) PROVE Types'
  <2>1. reading[n] \in [at : {"Put", "publish"}, card : Signed]
    BY <1>4 DEF ReadPublish, Types, Busy, Waiting
  <2>2. reading[n].card \in Signed
    BY <2>1
  <2>3. reading' \in [Node -> Busy]
    BY <1>4 DEF ReadPublish, Types, Busy
  <2>4. QED
    BY <1>4, <2>2, <2>3, PublishTypes DEF ReadPublish, Types
<1>5. ASSUME NEW n \in Node, FetchDirectory(n) PROVE Types'
  <2>1. fetched[n] \in 0..Len(Directory) /\ fetched[n] < Len(Directory)
    BY <1>5 DEF FetchDirectory, Types
  <2>2. fetched[n] + 1 \in 1..Len(Directory)
    BY <2>1
  <2>3. Directory[fetched[n] + 1] \in Card
    BY <2>2, ElementOfSeq
  <2>4. fetched' \in [Node -> 0..Len(Directory)]
    <3>1. fetched' = [fetched EXCEPT ![n] = fetched[n] + 1]
      BY <1>5 DEF FetchDirectory
    <3>2. fetched[n] + 1 \in 0..Len(Directory)
      BY <2>2
    <3>3. QED
      BY <3>1, <3>2 DEF Types
  <2>5. CASE VerifyNetworkCard(Directory[fetched[n] + 1])
    <3>1. Directory[fetched[n] + 1] \in Signed /\ Put(n, Directory[fetched[n] + 1])
      BY <1>5, <2>3, <2>5 DEF FetchDirectory, VerifyNetworkCard, Signed
    <3>2. QED
      BY <1>5, <2>4, <3>1, PutTypes DEF FetchDirectory, Types
  <2>6. CASE ~VerifyNetworkCard(Directory[fetched[n] + 1])
    BY <1>5, <2>4, <2>6 DEF FetchDirectory, Types
  <2>7. QED
    BY <2>5, <2>6
<1>6. ASSUME NEW n \in Node, FetchFails(n) PROVE Types'
  BY <1>6 DEF FetchFails, Types
<1>7. ASSUME NEW n \in Node, PutFails(n) PROVE Types'
  BY <1>7 DEF PutFails, Types, Busy
<1>8. ASSUME NEW n \in Node, Restart(n) PROVE Types'
  <2>1. /\ fetched' \in [Node -> 0..Len(Directory)]
        /\ \A k \in Node \ WithDirectory : fetched'[k] = Len(Directory)
    BY <1>8, UnfetchedType DEF Restart, Types, Unfetched
  <2>2. reading' \in [Node -> Busy]
    BY <1>8 DEF Restart, Types, Busy
  <2>3. QED
    BY <1>8, <2>1, <2>2 DEF Restart, Types
<1>9. ASSUME NEW m \in net, Lose(m) PROVE Types'
  BY <1>9 DEF Lose, Types
<1>10. ASSUME NEW c \in Card, PublishForeign(c) PROVE Types'
  BY <1>10 DEF PublishForeign, Types
<1>11. CASE UNCHANGED vars
  BY <1>11 DEF vars, Types
<1>12. QED
  BY <1>1, <1>2, <1>3, <1>4, <1>5, <1>6, <1>7, <1>8, <1>9, <1>10, <1>11 DEF Next, ReadLoop

\* Whatever cards others put on the topic or in the directory, a node keeps, has in
\* hand and passes on signed ones only.
THEOREM CardsAreSigned == Spec => []TypeOK
  BY TypesInit, TypesStep, TypesImply, PTL DEF Spec

-----------------------------------------------------------------------------
(***************************************************************************)
(* Catching up.  What readLoop decided on by looking is still right when it   *)
(* stores, as nothing else writes a follower's database.  So the age of what   *)
(* a follower has only grows, and an announced card is on its way to it, in    *)
(* its hands, or no newer than what it has.                                  *)
(***************************************************************************)

\* n is about to store a card at least as new as c.
InHand(n, c) ==
  /\ reading[n].at = "Put"
  /\ reading[n].card.id = c.id
  /\ reading[n].card.CreatedAt >= c.CreatedAt

UpToDate(n, c) == store[n][c.id].CreatedAt >= c.CreatedAt

FollowInv ==
  /\ \A n \in Follower : reading[n].at = "Put" => Newer(n, reading[n].card)
  /\ \A n \in Follower \ missed, c \in announced :
       [to |-> n, card |-> c] \in net \/ InHand(n, c) \/ UpToDate(n, c)

LEMMA FollowInit == Init => FollowInv
  BY DEF Init, FollowInv, Waiting, Follower

LEMMA FollowImplies == FollowInv => CaughtUp
  BY DEF FollowInv, CaughtUp, Quiet, InHand, UpToDate, Waiting, Follower

\* A step of another node, or one that n's fault excuses: n's database and hands
\* stay, and messages to n stay.
LEMMA FollowOthers ==
  ASSUME Types, FollowInv, announced' = announced, missed \subseteq missed',
         \A n \in Follower :
           \/ store'[n] = store[n] /\ reading'[n] = reading[n]
           \/ n \in missed' /\ reading'[n].at # "Put",
         \A m \in net : m.to \notin missed' => m \in net'
  PROVE  FollowInv'
<1>1. ASSUME NEW n \in Follower, reading'[n].at = "Put" PROVE Newer(n, reading[n].card)'
  BY <1>1 DEF FollowInv, Newer
<1>2. ASSUME NEW n \in Follower \ missed', NEW c \in announced'
      PROVE  [to |-> n, card |-> c] \in net' \/ InHand(n, c)' \/ UpToDate(n, c)'
  <2>1. [to |-> n, card |-> c] \in net \/ InHand(n, c) \/ UpToDate(n, c)
    BY <1>2 DEF FollowInv
  <2>2. store'[n] = store[n] /\ reading'[n] = reading[n]
    BY <1>2
  <2>3. [to |-> n, card |-> c] \in net => [to |-> n, card |-> c] \in net'
    BY <1>2
  <2>4. QED
    BY <2>1, <2>2, <2>3 DEF InHand, UpToDate
<1>3. QED
  BY <1>1, <1>2 DEF FollowInv

LEMMA FollowStep == Types /\ FollowInv /\ [Next]_vars => FollowInv'
<1> SUFFICES ASSUME Types, FollowInv, [Next]_vars PROVE FollowInv'
  OBVIOUS
<1> USE CardAssumption
<1>1. ASSUME NEW n \in Node, NEW c \in Card, Announce(n, c) PROVE FollowInv'
  <2>1. c \in Signed /\ n \notin Follower
    BY <1>1 DEF Announce, VerifyNetworkCard, Signed, Follower
  <2>2. /\ UNCHANGED <<reading, missed>> /\ announced' = announced \cup {c}
        /\ net' = net \cup {[to |-> m, card |-> c] : m \in Node \ {n}}
    BY <1>1 DEF Announce, publish
  <2>3. \A k \in Follower : store'[k] = store[k] /\ k \in Node \ {n}
    BY <1>1, <2>1 DEF Announce, Put, Types, Follower
  <2>4. QED
    BY <2>2, <2>3 DEF FollowInv, Newer, InHand, UpToDate
<1>2. ASSUME NEW n \in Node, NEW m \in net, Receive(n, m) PROVE FollowInv'
  <2>1. /\ UNCHANGED <<store, announced, missed>>
        /\ reading[n] = Waiting /\ m.to = n /\ net' = net \ {m}
    BY <1>2 DEF Receive
  <2>2. m \in [to : Node, card : Card]
    BY DEF Types
  <2>3. VerifyNetworkCard(m.card) <=> m.card \in Signed
    BY <2>2 DEF VerifyNetworkCard, Signed
  <2>4. m = [to |-> n, card |-> m.card]
    BY <2>1, <2>2
  <2>5. \A k \in Node : k # n => reading'[k] = reading[k]
    BY <1>2 DEF Receive, Types
  <2>6. ~InHand(n, m.card) /\ \A c : ~InHand(n, c)
    BY <2>1 DEF InHand, Waiting
  <2>7. CASE VerifyNetworkCard(m.card) /\ Newer(n, m.card)
    <3>1. reading'[n] = [at |-> "Put", card |-> m.card]
      BY <1>2, <2>3, <2>7 DEF Receive, Types
    <3>2. m.card.CreatedAt >= m.card.CreatedAt
      BY <2>2
    <3>3. InHand(n, m.card)'
      BY <3>1, <3>2 DEF InHand
    <3>4. \A k \in Follower : reading'[k].at = "Put" => Newer(k, reading[k].card)'
      BY <2>1, <2>5, <2>7, <3>1 DEF FollowInv, Newer, Follower
    <3>5. ASSUME NEW k \in Follower \ missed', NEW c \in announced'
          PROVE  [to |-> k, card |-> c] \in net' \/ InHand(k, c)' \/ UpToDate(k, c)'
      <4>1. [to |-> k, card |-> c] \in net \/ InHand(k, c) \/ UpToDate(k, c)
        BY <2>1, <3>5 DEF FollowInv
      <4>2. CASE k = n /\ c = m.card
        BY <3>3, <4>2
      <4>3. CASE k = n /\ c # m.card
        <5>1. [to |-> k, card |-> c] # m
          BY <4>3
        <5>2. QED
          BY <2>1, <2>6, <4>1, <4>3, <5>1 DEF UpToDate
      <4>4. CASE k # n
        <5>1. [to |-> k, card |-> c] # m /\ reading'[k] = reading[k]
          BY <2>1, <2>5, <4>4 DEF Follower
        <5>2. QED
          BY <2>1, <4>1, <5>1 DEF InHand, UpToDate
      <4>5. QED
        BY <4>2, <4>3, <4>4
    <3>6. QED
      BY <3>4, <3>5 DEF FollowInv
  <2>8. CASE ~(VerifyNetworkCard(m.card) /\ Newer(n, m.card))
    <3>1. reading' = reading
      BY <1>2, <2>8 DEF Receive
    <3>2. VerifyNetworkCard(m.card) => UpToDate(n, m.card)'
      <4> SUFFICES ASSUME VerifyNetworkCard(m.card) PROVE UpToDate(n, m.card)'
        OBVIOUS
      <4>1. m.card.id \in NetworkID /\ m.card.CreatedAt \in Nat
        BY <2>3 DEF Signed
      <4>2. store[n][m.card.id] \in Slot /\ store[n][m.card.id] # NoCard
        BY <2>8, <4>1 DEF Types, Newer
      <4>3. store[n][m.card.id].CreatedAt \in Nat
        BY <4>2 DEF Slot, Signed
      <4>4. QED
        BY <2>1, <2>8, <4>1, <4>3 DEF Newer, UpToDate
    <3>3. \A k \in Follower : reading'[k].at = "Put" => Newer(k, reading[k].card)'
      BY <2>1, <3>1 DEF FollowInv, Newer
    <3>4. ASSUME NEW k \in Follower \ missed', NEW c \in announced'
          PROVE  [to |-> k, card |-> c] \in net' \/ InHand(k, c)' \/ UpToDate(k, c)'
      <4>1. [to |-> k, card |-> c] \in net \/ InHand(k, c) \/ UpToDate(k, c)
        BY <2>1, <3>4 DEF FollowInv
      <4>2. CASE k = n /\ c = m.card
        <5>1. c \in Signed
          BY <2>1 DEF Types
        <5>2. QED
          BY <2>3, <3>2, <4>2, <5>1
      <4>3. CASE ~(k = n /\ c = m.card)
        <5>1. [to |-> k, card |-> c] # m
          BY <2>1, <4>3
        <5>2. QED
          BY <2>1, <3>1, <4>1, <5>1 DEF InHand, UpToDate
      <4>4. QED
        BY <4>2, <4>3
    <3>5. QED
      BY <3>3, <3>4 DEF FollowInv
  <2>9. QED
    BY <2>7, <2>8
<1>3. ASSUME NEW n \in Node, ReadPut(n) PROVE FollowInv'
  <2> DEFINE new == reading[n].card
  <2>1. reading[n] \in [at : {"Put", "publish"}, card : Signed]
    BY <1>3 DEF ReadPut, Types, Busy, Waiting
  <2>2. new \in Signed /\ new.id \in NetworkID /\ new.CreatedAt \in Nat
    BY <2>1 DEF Signed
  <2>3. /\ UNCHANGED <<net, announced, missed>> /\ Put(n, new)
        /\ reading[n].at = "Put" /\ reading' = [reading EXCEPT ![n].at = "publish"]
    BY <1>3 DEF ReadPut
  <2>4. reading'[n].at = "publish" /\ \A k \in Node : k # n => reading'[k] = reading[k]
    BY <2>1, <2>3 DEF Types
  <2>5. /\ store'[n][new.id] = new
        /\ \A k \in Node, id \in NetworkID :
             ~(k = n /\ id = new.id) => store'[k][id] = store[k][id]
    BY <2>2, <2>3, PutTypes
  <2>6. ASSUME NEW k \in Follower, reading'[k].at = "Put" PROVE Newer(k, reading[k].card)'
    <3>1. k # n /\ k \in Node /\ reading'[k] = reading[k]
      BY <2>4, <2>6 DEF Follower
    <3>2. reading[k].card.id \in NetworkID
      BY <2>6, <3>1 DEF Types, Busy, Waiting, Signed
    <3>3. QED
      BY <2>5, <2>6, <3>1, <3>2 DEF FollowInv, Newer
  <2>7. ASSUME NEW k \in Follower \ missed', NEW c \in announced'
        PROVE  [to |-> k, card |-> c] \in net' \/ InHand(k, c)' \/ UpToDate(k, c)'
    <3>1. [to |-> k, card |-> c] \in net \/ InHand(k, c) \/ UpToDate(k, c)
      BY <2>3, <2>7 DEF FollowInv
    <3>2. k \in Node /\ c.id \in NetworkID /\ c.CreatedAt \in Nat
      BY <2>3 DEF Follower, Types, Signed
    <3>3. CASE k # n \/ c.id # new.id
      <4>1. store'[k][c.id] = store[k][c.id]
        BY <2>5, <3>2, <3>3
      <4>2. InHand(k, c) => k # n
        BY <3>3 DEF InHand
      <4>3. QED
        BY <2>3, <2>4, <3>1, <3>2, <4>1, <4>2 DEF InHand, UpToDate
    <3>4. CASE k = n /\ c.id = new.id
      <4>1. [to |-> k, card |-> c] \in net => [to |-> k, card |-> c] \in net'
        BY <2>3
      <4>2. InHand(k, c) => UpToDate(k, c)'
        BY <2>5, <3>4 DEF InHand, UpToDate
      <4>3. ASSUME UpToDate(k, c) PROVE UpToDate(k, c)'
        <5>1. Newer(n, new)
          BY <2>3, <3>4 DEF FollowInv
        <5>2. store[n][c.id] \in Slot
          BY <3>2 DEF Types
        <5>3. store[n][c.id].CreatedAt \in Nat /\ (store[n][c.id] = NoCard => store[n][c.id].CreatedAt = 0)
          BY <5>2 DEF Slot, Signed, NoCard
        <5>4. new.CreatedAt >= c.CreatedAt
          BY <2>2, <3>2, <3>4, <4>3, <5>1, <5>3 DEF Newer, UpToDate
        <5>5. QED
          BY <2>5, <3>4, <5>4 DEF UpToDate
      <4>4. QED
        BY <3>1, <4>1, <4>2, <4>3
    <3>5. QED
      BY <3>3, <3>4
  <2>8. QED
    BY <2>6, <2>7 DEF FollowInv
<1>4. ASSUME NEW n \in Node, ReadPublish(n) PROVE FollowInv'
  <2>1. /\ UNCHANGED <<store, announced, missed>> /\ net \subseteq net'
        /\ reading[n].at = "publish" /\ reading' = [reading EXCEPT ![n] = Waiting]
    BY <1>4 DEF ReadPublish, publish
  <2>2. \A k \in Node : k # n => reading'[k] = reading[k]
    BY <2>1 DEF Types
  <2>3. reading'[n].at # "Put" /\ \A c : ~InHand(n, c)
    BY <2>1 DEF Types, Waiting, InHand
  <2>4. \A k \in Follower : reading'[k].at = "Put" => Newer(k, reading[k].card)'
    BY <2>1, <2>2, <2>3 DEF FollowInv, Newer, Follower
  <2>5. \A k \in Follower : \A c : InHand(k, c) => InHand(k, c)'
    BY <2>2, <2>3 DEF InHand, Follower
  <2>6. QED
    BY <2>1, <2>4, <2>5 DEF FollowInv, UpToDate
<1>5. ASSUME NEW n \in Node, FetchDirectory(n) PROVE FollowInv'
  <2>1. CASE n \notin Follower
    <3>1. \A k \in Follower : store'[k] = store[k]
      BY <1>5, <2>1 DEF FetchDirectory, Put, Types, Follower
    <3>2. QED
      BY <1>5, <3>1, FollowOthers DEF FetchDirectory
  <2>2. CASE n \in Follower
    <3>1. fetched[n] = Len(Directory)
      BY <2>2 DEF Types, Follower
    <3>2. QED
      BY <1>5, <3>1, DirectoryLength DEF FetchDirectory
  <2>3. QED
    BY <2>1, <2>2
<1>6. ASSUME NEW n \in Node, FetchFails(n) PROVE FollowInv'
  BY <1>6, FollowOthers DEF FetchFails
<1>7. ASSUME NEW n \in Node, PutFails(n) PROVE FollowInv'
  <2>1. \A k \in Follower : reading'[k] = reading[k] \/ (k \in missed' /\ reading'[k].at # "Put")
    BY <1>7 DEF PutFails, Types, Waiting, Follower
  <2>2. QED
    BY <1>7, <2>1, FollowOthers DEF PutFails
<1>8. ASSUME NEW n \in Node, Restart(n) PROVE FollowInv'
  <2>1. \A k \in Follower : reading'[k] = reading[k] \/ (k \in missed' /\ reading'[k].at # "Put")
    BY <1>8 DEF Restart, Types, Waiting, Follower
  <2>2. QED
    BY <1>8, <2>1, FollowOthers DEF Restart
<1>9. ASSUME NEW m \in net, Lose(m) PROVE FollowInv'
  BY <1>9, FollowOthers DEF Lose
<1>10. ASSUME NEW c \in Card, PublishForeign(c) PROVE FollowInv'
  BY <1>10, FollowOthers DEF PublishForeign
<1>11. CASE UNCHANGED vars
  BY <1>11, FollowOthers DEF vars
<1>12. QED
  BY <1>1, <1>2, <1>3, <1>4, <1>5, <1>6, <1>7, <1>8, <1>9, <1>10, <1>11 DEF Next, ReadLoop

\* Once gossip is at rest, every follower that lost nothing has the newest card of
\* each network, however many nodes pass however many cards around.
THEOREM FollowersCatchUp == Spec => []CaughtUp
  BY TypesInit, TypesStep, FollowInit, FollowStep, FollowImplies, PTL DEF Spec

\* A step changes a follower's database only by storing what readLoop has in hand.
LEMMA ReplaceStep ==
  ASSUME Types, FollowInv, [Next]_vars, NEW n \in Follower, NEW id \in NetworkID,
         store'[n][id] # store[n][id], store[n][id] # NoCard
  PROVE  store'[n][id].CreatedAt > store[n][id].CreatedAt
<1> USE CardAssumption DEF Follower
<1>1. ASSUME NEW k \in Node, NEW c \in Card, Announce(k, c) PROVE FALSE
  BY <1>1 DEF Announce, Put, Types
<1>2. ASSUME NEW k \in Node, FetchDirectory(k) PROVE FALSE
  <2>1. k \in WithDirectory
    BY <1>2, DirectoryLength DEF FetchDirectory, Types
  <2>2. QED
    BY <1>2, <2>1 DEF FetchDirectory, Put, Types
<1>3. ASSUME NEW k \in Node, ReadPut(k)
      PROVE  store'[n][id].CreatedAt > store[n][id].CreatedAt
  <2>1. reading[k].at = "Put" /\ Put(k, reading[k].card)
    BY <1>3 DEF ReadPut
  <2>2. reading[k].card \in Signed
    BY <2>1 DEF Types, Busy, Waiting
  <2>3. k = n /\ id = reading[k].card.id /\ store'[n][id] = reading[n].card
    BY <2>1, <2>2, PutTypes
  <2>4. Newer(n, reading[n].card)
    BY <2>1, <2>3 DEF FollowInv
  <2>5. QED
    BY <2>3, <2>4 DEF Newer
<1>4. ASSUME UNCHANGED store PROVE FALSE
  BY <1>4
<1>5. QED
  BY <1>1, <1>2, <1>3, <1>4
     DEF Next, ReadLoop, Receive, ReadPublish, FetchFails, PutFails, Restart, Lose, PublishForeign, vars

\* With any number of faults and restarts, a follower replaces a card only by a
\* newer one: the lookup and the transaction of readLoop need not be one step.
THEOREM OldCardsStayReplaced == Spec => OnlyNewerReplaces
<1>1. Types /\ FollowInv /\ [Next]_vars =>
        [\A n \in Follower, id \in NetworkID :
           \/ store'[n][id] = store[n][id]
           \/ store[n][id] = NoCard
           \/ store'[n][id].CreatedAt > store[n][id].CreatedAt]_vars
  BY ReplaceStep
<1>2. QED
  BY <1>1, TypesInit, TypesStep, FollowInit, FollowStep, PTL DEF Spec, OnlyNewerReplaces

-----------------------------------------------------------------------------
(***************************************************************************)
(* Peer memory.  While a process runs, its memory holds what it loaded and    *)
(* all it has saved, so that every save writes at least what is on file.      *)
(***************************************************************************)

MemoryInv ==
  /\ pc \in [Mesh -> {"off", "booting", "running"}]
  /\ peers \in [Mesh -> SUBSET (Mesh \cup Bootstrap)]
  /\ file \in [Mesh -> SUBSET (Mesh \cup Bootstrap)]
  /\ torn \in Nat
  /\ FileIsRemembered

LEMMA MemoryInvInit == MemoryInit => MemoryInv
  BY DEF MemoryInit, MemoryInv, FileIsRemembered

\* The memory only grows, and a save writes all of it or nothing, or tears the file.
LEMMA SnapshotFacts ==
  ASSUME MemoryInv, NEW n \in Mesh, SnapshotAndSave(n)
  PROVE  /\ peers' \in [Mesh -> SUBSET (Mesh \cup Bootstrap)]
         /\ file' \in [Mesh -> SUBSET (Mesh \cup Bootstrap)]
         /\ peers[n] \subseteq peers'[n]
         /\ torn' \in Nat
         /\ (torn' > torn /\ file'[n] = {}) \/ file'[n] = file[n] \/ file'[n] = peers'[n]
         /\ \A k \in Mesh \ {n} : peers'[k] = peers[k] /\ file'[k] = file[k]
<1>1. peers' = [peers EXCEPT ![n] = Seen(n)] /\ Seen(n) \in SUBSET (Mesh \cup Bootstrap)
  BY DEF MemoryInv, SnapshotAndSave, Seen, Neighbours
<1>2. /\ peers' \in [Mesh -> SUBSET (Mesh \cup Bootstrap)]
      /\ peers'[n] = Seen(n) /\ peers[n] \subseteq Seen(n)
      /\ \A k \in Mesh \ {n} : peers'[k] = peers[k]
  BY <1>1 DEF MemoryInv, Seen
<1>3. CASE UNCHANGED <<file, torn>>
  BY <1>2, <1>3 DEF MemoryInv
<1>4. CASE file' = [file EXCEPT ![n] = Seen(n)] /\ UNCHANGED torn
  BY <1>1, <1>2, <1>4 DEF MemoryInv
<1>5. CASE Tear(n)
  BY <1>2, <1>5 DEF MemoryInv, Tear
<1>6. QED
  BY <1>3, <1>4, <1>5 DEF SnapshotAndSave

LEMMA MemoryInvStep == MemoryInv /\ [MemoryNext]_memoryVars => MemoryInv'
<1> SUFFICES ASSUME MemoryInv, [MemoryNext]_memoryVars PROVE MemoryInv'
  OBVIOUS
<1>1. ASSUME NEW n \in Mesh, Boot(n) PROVE MemoryInv'
  BY <1>1 DEF Boot, MemoryInv, FileIsRemembered
<1>2. ASSUME NEW n \in Mesh, BootDone(n) PROVE MemoryInv'
  <2>1. CASE SnapshotAndSave(n)
    BY <1>2, <2>1, SnapshotFacts DEF BootDone, MemoryInv, FileIsRemembered
  <2>2. CASE UNCHANGED <<peers, dirty, file, torn>>
    BY <1>2, <2>2 DEF BootDone, MemoryInv, FileIsRemembered
  <2>3. QED
    BY <1>2, <2>1, <2>2 DEF BootDone
<1>3. ASSUME NEW n \in Mesh, Reconnect(n) PROVE MemoryInv'
  BY <1>3, SnapshotFacts DEF Reconnect, MemoryInv, FileIsRemembered
<1>4. ASSUME NEW n \in Mesh, Stop(n) PROVE MemoryInv'
  BY <1>4, SnapshotFacts DEF Stop, Down, MemoryInv, FileIsRemembered
<1>5. ASSUME NEW n \in Mesh, Crash(n) PROVE MemoryInv'
  BY <1>5 DEF Crash, Down, MemoryInv, FileIsRemembered
<1>6. ASSUME NEW n \in Mesh, CrashInSave(n) PROVE MemoryInv'
  BY <1>6 DEF CrashInSave, Tear, Down, MemoryInv, FileIsRemembered
<1>7. ASSUME UNCHANGED <<pc, peers, file, torn>> PROVE MemoryInv'
  BY <1>7 DEF MemoryInv, FileIsRemembered
<1>8. QED
  BY <1>1, <1>2, <1>3, <1>4, <1>5, <1>6, <1>7
     DEF MemoryNext, memoryVars, Dial, Discover, Disconnect

\* In a mesh of any size, however its nodes crash, stop and start, a node that runs
\* remembers everyone on file.
THEOREM FilesAreRemembered == MemorySpec => []FileIsRemembered
<1>1. MemoryInv => FileIsRemembered
  BY DEF MemoryInv
<1>2. QED
  BY <1>1, MemoryInvInit, MemoryInvStep, PTL DEF MemorySpec

LEMMA FileStep ==
  ASSUME MemoryInv, [MemoryNext]_memoryVars, NEW n \in Mesh
  PROVE  torn' > torn \/ file[n] \subseteq file'[n]
<1>1. ASSUME NEW k \in Mesh, pc[k] # "off", SnapshotAndSave(k)
      PROVE  torn' > torn \/ file[n] \subseteq file'[n]
  BY <1>1, SnapshotFacts DEF MemoryInv, FileIsRemembered
<1>2. ASSUME NEW k \in Mesh, CrashInSave(k) PROVE torn' > torn
  BY <1>2 DEF CrashInSave, Tear, MemoryInv
<1>3. ASSUME NEW k \in Mesh, BootDone(k) \/ Reconnect(k) \/ Stop(k)
      PROVE  torn' > torn \/ file[n] \subseteq file'[n]
  BY <1>1, <1>3 DEF BootDone, Reconnect, Stop
<1>4. ASSUME UNCHANGED file PROVE file[n] \subseteq file'[n]
  BY <1>4
<1>5. QED
  BY <1>2, <1>3, <1>4
     DEF MemoryNext, memoryVars, Boot, Crash, Dial, Discover, Disconnect

\* Only a write that crashes or fails half-way takes anyone off the file.
THEOREM FilesOnlyGrow == MemorySpec => FileForgetsNobody
<1>1. MemoryInv /\ [MemoryNext]_memoryVars =>
        [torn' > torn \/ \A n \in Mesh : file[n] \subseteq file'[n]]_memoryVars
  BY FileStep
<1>2. QED
  BY <1>1, MemoryInvInit, MemoryInvStep, PTL DEF MemorySpec, FileForgetsNobody

-----------------------------------------------------------------------------
(***************************************************************************)
(* Ping tracker.  The report that a node is connected goes out while it has   *)
(* a connection, unless it is late; and that connection ends in one of three  *)
(* ways, with a report, or leaving the report to a connection of the same     *)
(* node that is still there, or whose DisconnectedF has yet to look.         *)
(***************************************************************************)

Life == {"none", "added", "open", "check", "delete", "event"}

\* Of a node that apps believe to be connected and that is not late, some connection
\* is there or has yet to be dealt with.
PingInv ==
  /\ conn \in [Conn -> Life]
  /\ view \in [Peer -> {"none", "connected", "disconnected"}]
  /\ \A p \in Peer :
       view[p] = "connected" /\ p \notin late =>
         \E c \in Conn : remote[c] = p /\ conn[c] # "none"

LEMMA PingInvInit == PingInit => PingInv
  BY DEF PingInit, PingInv, Life

LEMMA PingImplies == PingInv => OnlyLateMisleads
  BY DEF PingInv, OnlyLateMisleads

\* A connection that moves on without going: it still speaks for its peer.
LEMMA PingMoves ==
  ASSUME PingInv, UNCHANGED <<view, late>>, NEW c \in Conn, NEW to \in Life \ {"none"},
         conn' = [conn EXCEPT ![c] = to]
  PROVE  PingInv'
<1>1. conn' \in [Conn -> Life]
  BY DEF PingInv
<1>2. \A k \in Conn : conn[k] # "none" => conn'[k] # "none"
  BY DEF PingInv
<1>3. QED
  BY <1>1, <1>2 DEF PingInv

LEMMA PingInvStep ==
  ASSUME PingInv, [PingNext]_pingVars
  PROVE  PingInv'
<1> USE RemoteAssumption
<1>1. ASSUME NEW c \in Conn, Add(c) PROVE PingInv'
  BY <1>1, PingMoves DEF Add, ConnGo, Life
<1>2. ASSUME NEW c \in Conn, Remove(c) PROVE PingInv'
  BY <1>2, PingMoves DEF Remove, ConnGo, Life
<1>3. ASSUME NEW c \in Conn, ConnectedF(c) PROVE PingInv'
  BY <1>3, PingMoves DEF ConnectedF, ConnGo, Life
<1>4. ASSUME NEW c \in Conn, DisconnectedCheck(c) PROVE PingInv'
  <2>1. CASE ConnsToPeer(remote[c]) = {}
    BY <1>4, <2>1, PingMoves DEF DisconnectedCheck, ConnGo, Life
  <2>2. CASE ConnsToPeer(remote[c]) # {}
    <3>1. conn[c] = "check" /\ conn' = [conn EXCEPT ![c] = "none"] /\ UNCHANGED <<view, late>>
      BY <1>4, <2>2 DEF DisconnectedCheck, ConnGo
    <3>2. PICK k \in Conn : remote[k] = remote[c] /\ conn[k] \in {"added", "open"}
      BY <2>2 DEF ConnsToPeer
    <3>3. conn'[k] # "none" /\ \A d \in Conn \ {c} : conn'[d] = conn[d]
      BY <3>1, <3>2 DEF PingInv
    <3>4. conn' \in [Conn -> Life]
      BY <3>1 DEF PingInv, Life
    <3>5. QED
      BY <3>1, <3>2, <3>3, <3>4 DEF PingInv
  <2>3. QED
    BY <2>1, <2>2
<1>5. ASSUME NEW c \in Conn, DisconnectedDelete(c) PROVE PingInv'
  BY <1>5, PingMoves DEF DisconnectedDelete, ConnGo, Life
<1>6. ASSUME NEW c \in Conn, DisconnectedEvent(c) PROVE PingInv'
  <2>1. /\ conn' = [conn EXCEPT ![c] = "none"] /\ UNCHANGED late
        /\ view' = [view EXCEPT ![remote[c]] = "disconnected"]
    BY <1>6 DEF DisconnectedEvent, ConnGo
  <2>2. /\ conn' \in [Conn -> Life]
        /\ view' \in [Peer -> {"none", "connected", "disconnected"}]
        /\ view'[remote[c]] = "disconnected"
        /\ \A d \in Conn \ {c} : conn'[d] = conn[d]
        /\ \A p \in Peer \ {remote[c]} : view'[p] = view[p]
    BY <2>1 DEF PingInv, Life
  <2>3. QED
    BY <2>1, <2>2 DEF PingInv
<1>7. ASSUME NEW c \in Conn, MeasureStore(c) PROVE PingInv'
  BY <1>7 DEF MeasureStore, PingInv
<1>8. ASSUME NEW c \in Conn, MeasureEvent(c) PROVE PingInv'
  <2>1. /\ UNCHANGED conn /\ view' = [view EXCEPT ![remote[c]] = "connected"]
        /\ \A p \in Peer \ {remote[c]} : p \in late => p \in late'
        /\ remote[c] \notin late' => ConnsToPeer(remote[c]) # {}
        /\ \A p \in Peer \ {remote[c]} : p \in late' => p \in late
    BY <1>8 DEF MeasureEvent
  <2>2. /\ view' \in [Peer -> {"none", "connected", "disconnected"}]
        /\ \A p \in Peer \ {remote[c]} : view'[p] = view[p]
    BY <2>1 DEF PingInv
  <2>3. remote[c] \notin late' => \E k \in Conn : remote[k] = remote[c] /\ conn[k] # "none"
    BY <2>1 DEF ConnsToPeer
  <2>4. QED
    BY <2>1, <2>2, <2>3 DEF PingInv
<1>9. CASE UNCHANGED pingVars
  BY <1>9 DEF pingVars, PingInv
<1>10. QED
  BY <1>1, <1>2, <1>3, <1>4, <1>5, <1>6, <1>7, <1>8, <1>9 DEF PingNext, Disconnected

\* However many connections a node has and in whatever order they go, apps are left
\* believing in a node that is gone only by a measurement that outlives them all.
THEOREM OnlyLateReportsMislead == PingSpec => []OnlyLateMisleads
<1>1. PingInv /\ [PingNext]_pingVars => PingInv'
  BY PingInvStep
<1>2. QED
  BY <1>1, PingInvInit, PingImplies, PTL DEF PingSpec
=============================================================================
