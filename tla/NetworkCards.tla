---------------------------- MODULE NetworkCards ----------------------------
(***************************************************************************)
(* internal/network/networks.go, store.go and VerifyNetworkCard: the cards   *)
(* of known networks, one for each network id, that each node keeps in a     *)
(* database and passes on over gossip.                                      *)
(*                                                                         *)
(* readLoop looks a card up and stores it in two transactions, and publishes *)
(* a card that is newer than the stored one.  A node with a directory_url    *)
(* also fetches the directory at each start, in a goroutine of its own, and  *)
(* stores its cards without looking.  The database outlives the process;     *)
(* messages to a node that is down are lost.                                *)
(*                                                                         *)
(* announced and missed are history variables.                              *)
(***************************************************************************)
EXTENDS Naturals, Sequences

CONSTANTS
  Node,
  NetworkID,
  Card,           \* records with fields id, CreatedAt and signed, and any others
  Announcer,      \* the nodes on which Announce is called
  WithDirectory,  \* the nodes that have a directory_url
  Directory,      \* the sequence of cards at that URL
  MaxFaults       \* bound on lost messages, failed transactions, restarts and
                  \* cards that others publish

NoCard == [CreatedAt |-> 0]

ASSUME CardAssumption ==
  /\ \A c \in Card : c.id \in NetworkID /\ c.CreatedAt \in Nat /\ c.signed \in BOOLEAN
  /\ Announcer \subseteq Node
  /\ WithDirectory \subseteq Node
  /\ Directory \in Seq(Card)
  /\ MaxFaults \in Nat

VARIABLES
  store,      \* [Node -> [NetworkID -> card or NoCard]]: networks.db
  reading,    \* [Node -> the card readLoop is busy with, and what is left to do]
  fetched,    \* [Node -> number of the directory's cards that are dealt with]
  net,        \* messages on their way, records [to, card]; copies are one
  faults,     \* how much of MaxFaults is used up
  announced,  \* the cards that were announced
  missed      \* the nodes that lost a message, a transaction or a restart

vars == <<store, reading, fetched, net, faults, announced, missed>>

Waiting == [at |-> "Next", card |-> NoCard]

\* FetchDirectory returns at once when there is no URL.
Unfetched(n) == IF n \in WithDirectory THEN 0 ELSE Len(Directory)

Init ==
  /\ store = [n \in Node |-> [id \in NetworkID |-> NoCard]]
  /\ reading = [n \in Node |-> Waiting]
  /\ fetched = [n \in Node |-> Unfetched(n)]
  /\ net = {}
  /\ faults = 0
  /\ announced = {}
  /\ missed = {}

\* The signature is that of the key in created_by over the rest of the card.
VerifyNetworkCard(c) == c.signed

\* Store.Put
Put(n, c) == store' = [store EXCEPT ![n][c.id] = c]

\* topic.Publish: a message to every other node, whose readLoop skips its own.
publish(n, c) == net' = net \cup {[to |-> m, card |-> c] : m \in Node \ {n}}

Announce(n, c) ==
  /\ n \in Announcer
  /\ c \notin announced
  /\ VerifyNetworkCard(c)
  /\ Put(n, c)
  /\ publish(n, c)
  /\ announced' = announced \cup {c}
  /\ UNCHANGED <<reading, fetched, faults, missed>>

\* Mutated form of Newer: what is not stored yet is no newer card.
NewerIfFound(n, c) ==
  store[n][c.id] # NoCard /\ c.CreatedAt > store[n][c.id].CreatedAt

\* Mutated form of Newer: a card of the same age counts.
NewerOrSame(n, c) ==
  \/ store[n][c.id] = NoCard
  \/ c.CreatedAt >= store[n][c.id].CreatedAt

\* Store.Get found nothing, or a card that is older.
Newer(n, c) ==
  \/ store[n][c.id] = NoCard
  \/ c.CreatedAt > store[n][c.id].CreatedAt

\* Mutated form of Receive: the signature is not checked.
ReceiveUnverified(n, m) ==
  /\ reading[n] = Waiting
  /\ m.to = n
  /\ net' = net \ {m}
  /\ reading' = IF Newer(n, m.card)
                THEN [reading EXCEPT ![n] = [at |-> "Put", card |-> m.card]]
                ELSE reading
  /\ UNCHANGED <<store, fetched, faults, announced, missed>>

\* sub.Next, VerifyNetworkCard and store.Get of readLoop
Receive(n, m) ==
  /\ reading[n] = Waiting
  /\ m.to = n
  /\ net' = net \ {m}
  /\ reading' = IF VerifyNetworkCard(m.card) /\ Newer(n, m.card)
                THEN [reading EXCEPT ![n] = [at |-> "Put", card |-> m.card]]
                ELSE reading
  /\ UNCHANGED <<store, fetched, faults, announced, missed>>

ReadPut(n) ==
  /\ reading[n].at = "Put"
  /\ Put(n, reading[n].card)
  /\ reading' = [reading EXCEPT ![n].at = "publish"]
  /\ UNCHANGED <<fetched, net, faults, announced, missed>>

ReadPublish(n) ==
  /\ reading[n].at = "publish"
  /\ publish(n, reading[n].card)
  /\ reading' = [reading EXCEPT ![n] = Waiting]
  /\ UNCHANGED <<store, fetched, faults, announced, missed>>

\* The next card of the directory: one that does not verify is skipped.
FetchDirectory(n) ==
  /\ fetched[n] < Len(Directory)
  /\ LET c == Directory[fetched[n] + 1]
     IN IF VerifyNetworkCard(c) THEN Put(n, c) ELSE UNCHANGED store
  /\ fetched' = [fetched EXCEPT ![n] = @ + 1]
  /\ UNCHANGED <<reading, net, faults, announced, missed>>

\* The directory does not answer, or not with cards.
FetchFails(n) ==
  /\ fetched[n] = 0
  /\ fetched' = [fetched EXCEPT ![n] = Len(Directory)]
  /\ UNCHANGED <<store, reading, net, faults, announced, missed>>

\* The topic is open: a peer that is none of these nodes publishes any card, one that
\* was replaced long ago or one whose signature is not right.
PublishForeign(c) ==
  /\ faults < MaxFaults /\ faults' = faults + 1
  /\ net' = net \cup {[to |-> m, card |-> c] : m \in Node}
  /\ UNCHANGED <<store, reading, fetched, announced, missed>>

\* A message does not arrive.
Lose(m) ==
  /\ faults < MaxFaults /\ faults' = faults + 1
  /\ net' = net \ {m}
  /\ missed' = missed \cup {m.to}
  /\ UNCHANGED <<store, reading, fetched, announced>>

\* Store.Put returns an error, and readLoop goes on with the next message.
PutFails(n) ==
  /\ faults < MaxFaults /\ faults' = faults + 1
  /\ reading[n].at = "Put"
  /\ reading' = [reading EXCEPT ![n] = Waiting]
  /\ missed' = missed \cup {n}
  /\ UNCHANGED <<store, fetched, net, announced>>

\* The node goes down and starts again: OpenStore finds the cards of before.
Restart(n) ==
  /\ faults < MaxFaults /\ faults' = faults + 1
  /\ reading' = [reading EXCEPT ![n] = Waiting]
  /\ fetched' = [fetched EXCEPT ![n] = Unfetched(n)]
  /\ net' = {m \in net : m.to # n}
  /\ missed' = missed \cup {n}
  /\ UNCHANGED <<store, announced>>

ReadLoop(n) == (\E m \in net : Receive(n, m)) \/ ReadPut(n) \/ ReadPublish(n)

Next ==
  \/ \E n \in Node, c \in Card : Announce(n, c)
  \/ \E c \in Card : PublishForeign(c)
  \/ \E n \in Node : ReadLoop(n) \/ FetchDirectory(n) \/ FetchFails(n) \/ PutFails(n) \/ Restart(n)
  \/ \E m \in net : Lose(m)

Spec == Init /\ [][Next]_vars

\* readLoop is a goroutine that only waits for the next message.
FairSpec == Spec /\ \A n \in Node : WF_vars(ReadLoop(n))

-----------------------------------------------------------------------------
\* Type invariant: what a node serves on /networks, has in hand and is about to pass
\* on is signed by the key it names, though anyone may put a card on the topic and
\* the directory may hold any (the checks of readLoop and FetchDirectory).
TypeOK ==
  LET Signed == {c \in Card : c.signed}
  IN /\ \A n \in Node, id \in NetworkID :
          store[n][id] \in {NoCard} \cup {c \in Signed : c.id = id}
     /\ \A n \in Node :
          /\ reading[n] \in {Waiting} \cup [at : {"Put", "publish"}, card : Signed]
          /\ fetched[n] \in 0..Len(Directory)
     /\ net \subseteq [to : Node, card : Card]
     /\ faults \in 0..MaxFaults
     /\ announced \subseteq Card
     /\ missed \subseteq Node

Quiet == net = {} /\ \A n \in Node : reading[n] = Waiting

\* The nodes whose database readLoop alone writes
Follower == Node \ (Announcer \cup WithDirectory)

\* When gossip is at rest, a follower that lost nothing has, for every network, a
\* card no older than any announced: two transactions for a card, messages that
\* overtake each other and cards that come round again leave it with the newest.
CaughtUp ==
  Quiet => \A n \in Follower \ missed, c \in announced :
             store[n][c.id].CreatedAt >= c.CreatedAt

\* A follower's card is only ever replaced by a newer one: what readLoop looked up
\* before its transaction is still true in it, so an old card that comes round
\* again, before or after a restart and from whomever, never takes back a newer one.
OnlyNewerReplaces ==
  [][\A n \in Follower, id \in NetworkID :
       \/ store'[n][id] = store[n][id]
       \/ store[n][id] = NoCard
       \/ store'[n][id].CreatedAt > store[n][id].CreatedAt]_vars

\* Gossip comes to rest once others add nothing to it: nodes that publish what they
\* receive do not keep a card going round, not even two of one age (the <= of readLoop).
Settles == <>[]Quiet
=============================================================================
