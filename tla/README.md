# A TLA+ model of Plural Star Node

Plural Star Node is a relay. Apps connect to a node over a WebSocket and are
known by a libp2p peer ID; nodes find each other over libp2p, tell each other by
GossipSub which apps are where, and forward packets for them. A packet for an
app that is nowhere to be found is held until the app comes back. A node also
keeps a directory of pairing records, and a list of the nodes it has met.

The modules here model the parts of the node in which goroutines, crashes or
lost messages can interleave. They are checked with TLC on small instances,
and their safety properties are proved with TLAPS for every
instance. `PROJECT.json` maps each definition to the lines it models.

## Inventory

| Component | State | Operations | Hard part |
|---|---|---|---|
| Relay manager, `relay/manager.go` | `localApps`, `refreshers` | `Route`, `FlushQueued`, `AppConnected`, `AppDisconnected`, `handleStream` | four locks taken one after the other by handlers, sockets and the presence reader |
| Queue, `relay/queue.go` | recipient → sender → (packet, time) | `Put`, `Take`, `sweep` | the cap, the TTL, packets put back |
| Routing table, `relay/router.go` | app → (node, expiry) | `Upsert`, `Remove`, `Lookup`, `prune` | routes that go stale between lookup and use |
| Duplicate cache, `relay/dedup.go` | packet ID → first sight | `SeenOrAdd`, `evict` | the boundary of the window |
| Presence, `relay/presence.go` | topic, subscription | `Announce`, `Tombstone`, `readLoop` | order of announcements and tombstones |
| App sessions, `api/handlers.go`, `api/server.go` | `clients`, `appPeer` | `handleWS`, `addClient`, `removeClient`, `Shutdown` | several sockets of one app open and close together |
| App socket, `api/wsclient.go` | `send` channel, `closed` | `trySend`, `writePump`, `readPump`, `close` | a bounded buffer, three ways to end |
| Pairing directory, `api/rendezvous.go` | `entries`, `rendezvous.json` | `put`, `putRemote`, `get`, `janitor`, `persist`, `load` | snapshots written late, crashes, rounding of expiries |
| Rendezvous gossip, `relay/rendezvous.go` | topic | `Announce`, `readLoop` | records learnt twice, from several nodes |
| Peer memory, `host/peers.go`, `cmd/node/main.go` | `peers`, `known_peers.json` | `Snapshot`, `Save`, `DialTargets`, `ConnectPeers` | crashes, a torn file, no bootstrap node |
| Network cards, `network/networks.go`, `store.go`, `card.go` | `networks.db` | `Announce`, `readLoop`, `FetchDirectory` | a comparison and a write in two transactions; every node publishes what it receives |
| Invites, `network/invite.go`, `invite_apply.go`, `api/handlers.go` | `network.psk`, `config.yaml` | `EncodeInvite`, `DecodeInvite`, `ApplyInvite` | two files written one after the other, a shared `Config` without a lock |
| Configuration, `config/config.go`, `network/network.go` | `config.yaml`, `node.key` | `Load`, `Save`, `Validate`, `LoadOrCreateIdentity`, `LoadPSK` | files that are emptied before they are filled |
| Ping tracker, `ping/manager.go` | `rtts` | `measure`, `ConnectedF`, `DisconnectedF` | callbacks and measurements in any order |
| Authentication, `api/auth.go` | none | `authed`, `operatorOnly` | the token and the mode change at different times |
| Host and discovery, `host/host.go`, `network/discovery.go` | libp2p objects | construction | — |

How they interact: `handleWS` adds a client to the server, then calls
`AppConnected`, which registers the app, announces it, flushes its queue into the
socket's buffer and starts a `refreshLoop`. `/send` and relay streams call
`Route`. The presence reader updates the routing table and calls `FlushQueued`
from its own goroutine. `/rendezvous/register` and the rendezvous reader change
the directory, and the re-announce loop repeats what was registered here. `run`
loads the configuration and the key, builds the host for the network they name,
loads the peer memory, dials, and starts the reconnect loop. `/invite/accept`
changes the `Config` in memory and its file; the host follows at the next start.

What each must get right: the relay loses no packet and hands none over twice, and
keeps within its limits; an app is registered exactly while it has sessions; a
closed socket is sent nothing and both its goroutines end; the directory keeps no
record beyond its time, survives crashes and reaches the other nodes; routes are
neither kept for long after an app left nor missing for long while it stays; nodes
that knew each other find each other again; a node comes up on the network its
operator chose, with one identity, and a public one is open to every app.

## Modules

* `Peers` declares the two kinds of peer ID.
* `RelayQueue` and `RelayRouter` are the methods of the queue and of the routing
  table as operators on their maps; each runs under one lock in the code.
* `RelayNode` composes them with the duplicate cache and the manager. A step is
  one critical section: `Route`, `RouteLocal`, `RouteDeliver`, `RouteLookup`,
  `RouteForward`, `RoutePut` for `Route`, and the `Flush...` actions for
  `FlushQueued`, whose list of pending packets is a set (map order is random in
  Go). `forwardTo` succeeds or fails at will. A packet handed to `deliver` counts as
  delivered, though `sendToApp` may find no client of the app any more, or a full
  buffer; what the buffer does is `WsClient`'s. `fate` and `acceptedAt` are history
  variables: they record what became of a packet and no action's guard reads them,
  except that a packet object arrives once.
* `PacketService` is what the relay promises for each packet, with no queue, lock or
  goroutine in it: a place for every packet and the moves between places.
  `RelayNode` implements it under the mapping `placeOf`.
* `AppSessions` is `handleWS` with the client set, the registrations and the
  refreshers: one program counter per session, one state per `refreshLoop`.
  `select` in `refreshLoop` picks at random, so a cancelled loop may announce
  once more. A signal ends `Manager.ctx` first, and `Shutdown` follows.
* `WsClient` is one socket: handler, `writePump`, and everyone else who sends. The
  connection may go, or the read deadline pass on one that can still be written.
* `Presence` is several nodes, the apps that move between them, the topic and the
  routing tables, with the methods of `RelayRouter`. It is timed: expiries, tickers
  and the deadlines of messages are counted down by `Tick`, which waits for a ticker
  that has run down. The topic delays, reorders and loses. Of the tables only those
  of the `Watched` nodes are kept; what one node reads changes nothing for another.
  All nodes share one clock, as they do in `RendezvousNet`: there the code sends an
  expiry as an absolute time, which the receiver reads by its own clock
  (`relay/rendezvous.go:61`, `89`), and the model sends the life that is left. Clocks
  that differ shift a record's end by the difference.
* `RendezvousRules` has the methods of the directory as operators on its map.
  `RendezvousStore` adds the goroutines, the two locks, the files and crashes of one
  node; time has a unit finer than a second, since expiries are whole seconds on
  disk. `RendezvousNet` is several directories and the topic between them, timed as
  in `Presence`.
* `PeerMemory` is a set of nodes, each with its memory and its file. A save may fail
  before or after `os.WriteFile` has emptied the file, with or without a crash.
* `NetworkCards` is a set of nodes, each with its database, its `readLoop` and,
  where it has a `directory_url`, a `FetchDirectory` at every start. A lookup, a
  write and a publication are steps of their own. Whether a signature verifies is a
  field of a card. The topic is open: others may put any card on it, forged or old.
* `InviteCodec` is the format of an invite in bytes, with the number base as a
  parameter, so that counts and lengths at their limits are within reach. `ApiAuth`
  is the decision about a request. `NodeConfig` uses both: three files, the start of
  the process, the shared `Config`, and handlers of `/invite/accept` that interleave
  with each other, with `/invite/generate`, with crashes and with the operator.
  `os.WriteFile` is two steps, emptying and filling, and a cut in between leaves
  any beginning of the text: for `config.yaml` the defaults with some fields set, the
  last of them cut as well, or part of the list of peers. A cut `keypair_path` is any
  other path, and each path has a key file of its own. `/invite/generate` leaves
  nothing behind; `IssuedDecodes` is about the invite it would hand out in each state.
* `PingTracker` is the connections of libp2p, as the callbacks see them, and the
  events apps get.
* `MC...` modules give the small instances their functions and symmetries.
  `..._proofs` modules hold the theorems about the module they are named after, and
  `Network_proofs` those about `NetworkCards`, `PeerMemory` and `PingTracker`.

A definition whose comment begins with "Mutated form of" is a plausible mistake
in the definition after it. Nothing uses it; each shows that some property notices.

## Runs that pass

| Run | States | What it shows |
|---|---|---|
| `relay` | 579,000 | `NothingLost`, `SingleHolder`: an accepted packet is in exactly one of a handler's hands, a flush's list and the queue until it ends. `QueueBounded`, `DedupWindow` at their limits. `NotExpiredEarly`: no packet is dropped for its age before `QueueEntryTTL` has passed since it was accepted. `FlushDelivers`: what is queued when a connected app's flush begins leaves the queue for good, unless the app disconnects. `ImplementsService`: every step is a move of `PacketService`, so a packet is superseded only by one of its own sender and recipient, and refused only when none of these is held |
| `sessions` | 210,000 | `NoGhostRegistration`, `LiveRefresher`, `AppPeerIsLive` for two sockets of one app, through shutdown. `OnlyRacesExceed`: without the sessions that another overtook during their upgrade, the clients are within the limit. `GoneAppLeaves`: the last socket deregisters the app. `AnnounceHeals`: a late tombstone is followed by a refresh |
| `socket` | 860 | `ClosedIsUnreachable`: no client that others can find has a closed channel, whichever of `onClose` and `Shutdown` closed it. `DrainedBeforeBye`, `BothGoroutinesEnd` for one socket; the session ends, so TLC's deadlock check is off |
| `presence` | 558,000 | `RouteBacked`: a node forwards only to a node that the app is at, or was until `PresenceTTL + MaxDelay` ago. `HealsInTime`: while apps stay, no node lacks a route for longer than `PresenceRefreshInterval * (MaxLost + 1) + 2 * MaxDelay`, whatever tombstone comes late. Both bounds are reached |
| `rendezvous` | 480,000 | `WithinLimit`, `NoneOutlivesGrant`, `LocalStays` with crashes and failing writes. `SettledIsPersisted`: a change that overlapped no other, and whose write succeeded, is in the file |
| `rendezvous_net` | 192,000 | `NoneOverstays`: no round between nodes lengthens a record's life beyond its last grant. `SpreadsInTime`: a record that is still announced is, after `ReannounceInterval * (MaxLost + 1) + MaxDelay`, at every node that has had room for it in that time and has none living as long |
| `peer_memory` | 10,000 | `FileIsRemembered`, `FileForgetsNobody`: what is on file stays remembered and on file, unless a crash or a failed write tears it. `MeshHeals`: two nodes that have each other on file reconnect after any five failures, and one file destroyed by a crash or a full disk, while the bootstrap node is down throughout |
| `config` | 824,000 | `PublicIsOpen`; `IdentityStable`: one identity for each key path, and one path until an edit or a cut `config.yaml`; `PrivateStays`: overlapping acceptances do not take a node off private networks; `AcceptedJoins`: after an acceptance that overlapped no other and no edit, every start until the next acceptance or edit is on the invite's network; `IssuedDecodes`: what is handed out is read back whole. A node whose files cannot be read stays down until the operator acts, so TLC's deadlock check is off |
| `cards` | 1,300,000 | `TypeOK`: only signed cards are kept and passed on, whatever comes over the topic or from the directory. `CaughtUp`: nodes whose database only `readLoop` writes end with the newest card, and `OnlyNewerReplaces`: no step takes them back to an older one. `Settles`: the gossip comes to rest, so TLC's deadlock check is off |
| `ping` | 69,000 | `GoneIsReported`: the last connection to go is reported. `OnlyLateMisleads`: only a measurement that outlives its connection leaves a node reported as connected that is not |

## Runs that show a disagreement

Each of these checks one sentence of the repository and TLC finds an execution of
the code that contradicts it.

| Run | The sentence | What happens |
|---|---|---|
| `relay_newest` | "Queue holds the NEWEST undeliverable packet per (recipient, sender) pair" (`queue.go:27`) | a flush takes the old packet, a newer one is queued, the flush fails and puts the old one over it |
| `sessions_sibling` | "all of them must receive. This also survives the registering socket closing while siblings remain" (`handlers.go:209`) | a closing socket finds no sibling, a new one registers, the closing one deregisters the app |

Seen while modelling, and not shown by a run:

* `Route` may see no local app, the app connects and flushes nothing, and then
  `Route` queues the packet for the connected app (`manager.go:163` and `172`). It
  stays there until the next reconnect or presence message.
* The flush of a connecting app runs before `writePump` starts, so nothing empties the
  send buffer of 64 while up to 500 packets are handed over, and the rest are dropped on
  an open socket (`handlers.go:225`, `wsclient.go:43`, against "nothing is lost by a
  failed flush", `manager.go:74`).
* When other senders fill a bucket between `Take` and a put-back, `Put` refuses the
  packet and it is lost (`manager.go:92` and `98`, against `manager.go:74`).
* A put-back stamps the packet anew, so it is held for as long as flushes keep
  failing and not for `QueueEntryTTL` (`queue.go:60`, against `queue.go:14`).
  `NotExpiredEarly` is the other side: it is never held for less.
* `handleWS` lets go of the lock between the capacity check and `addClient`, so
  overlapping handshakes exceed `max_app_connections` (`handlers.go:191`), and nothing
  else does: `OnlyRacesExceed`.
* Two registrations may write their snapshots in the opposite order; the file then
  lacks one that was answered (`api/rendezvous.go:136`).
* Of two records for a namespace the one that expires later wins, which need not be
  the newer one; two that expire together stay where they are (`api/rendezvous.go:144`).
* A `config.yaml` that was emptied or cut loads as the defaults with some fields: a
  private node may come up public, or with its mode but without its token, and a node
  with another `keypair_path` than `./node.key` under a second identity, which
  `LoadOrCreateIdentity` makes there (`config.go:49`, `85`, `116`, `main.go:59`).
* A write of `known_peers.json` that fails, as on a full disk, has emptied the file
  (`peers.go:138`); the node still remembers, and the next save that succeeds restores it.
* A failed write of `network.psk` destroys the old key (`invite_apply.go:19`), and a
  node that runs on it does not start again.
* `DecodeInvite` takes an invite without addresses; accepted by a node without
  bootstrap peers, it leaves a `config.yaml` that `Validate` refuses at the next start
  (`invite.go:83`, `config.go:126`).
* Between an acceptance and the restart `/invite/generate` combines the new network's
  key with this node's addresses on the old one; during one, the new key with the old
  label (`handlers.go:248` to `261`).
* Overlapping acceptances may lose addresses from the list, and the shorter of two
  texts written over the longer one leaves its end (`invite_apply.go:31`,
  `config.go:116`).
* On a node that announces or has a `directory_url`, `Announce` or `FetchDirectory`
  may put an older card in place of a newer one, and `readLoop`, which has compared
  with an older one, may overwrite theirs (`networks.go:45`, `83` and `118`). Nothing
  in the repository calls `Announce`.
* A measurement that ends after the peer has gone is broadcast as `node_connected`
  and leaves a round-trip time behind (`ping/manager.go:71`).

## Bounds

Every bound is a constant. The clock is bounded by `MaxClock`, chosen beyond the
TTLs of the run so that entries expire and IDs leave the duplicate window; in `relay`
the TTLs are 0, which means to the end of the same tick, so that two ticks suffice.
`relay` has a packet and its duplicate, another one with the same ID whose recipient
is no peer ID, and one of another sender, at a cap of one sender, where off-by-one shows, so that
packets are replaced and refused; it has one handler, one connecting app and the
presence reader, which is two flushes and a `Route` call at a time.
`AppSessions` has a pool of three contexts, each reused after its loop has ended: one
for the registered session and two for cancelled loops that have not noticed yet;
the cap is one session, which overlapping handshakes exceed. What several apps and
more handlers could do to the safety properties of these two modules is covered by
the proofs. `WsClient` has a buffer of two and up to three packets held, more than
fit. `RendezvousStore` has two namespaces and room for one, two writers, two ticks to
the second and TTLs of 0, below and beyond the maximum.

`Presence` has an app, two nodes it may be at besides the watched one, which it may
be at as well, the TTL longer than the refresh interval as in the code, one lost
message and a delay of one tick. With a lower `HealTime` or `Afterlife` TLC finds a
violation. A refresh interval and a TTL in the proportion of 45 s to 60 s would need
more ticks and show nothing else. `RendezvousNet` has two nodes, two namespaces and
room for one, two records, two registrations, one lost message. The registrations are
bounded because each sets the count of `behind` back: any `Register` or `Restart` does,
not only one of the record concerned, and in `Presence` any app's connect or disconnect
and any node's stop or restart sets `dark` back. The two bounds are about times in which
nothing of the kind happens. `PeerMemory` has two nodes that
return and a bootstrap node that is down throughout, five failures (`MaxFailures`) and
one torn file (`MaxTorn`), by a crash or by a write that fails; two torn files, one on each side, can separate two nodes for
good, which is why the bound is stated.

`NodeConfig` has two acceptances at a time, of two invites for different networks, one
edit by the operator out of a public configuration with a token, a custom network and
a private one, of which one names another key path, and one crash or failed write. The
labels are one byte and two, so that a cut one is a label. A byte has three values and a key two
bytes, so that the longer address needs both bytes of its length. `NetworkCards` has
three nodes, the first of which announces and has a directory; an old card, two newer
ones of the same age and a forged one; and one fault, which may be a card that others
publish. `PingTracker` has three
connections to one peer; peers do not affect each other.

Symmetry is used for nodes, handlers, keys, namespaces and records, and only in runs
whose temporal properties, if any, are of the form `[][A]_vars`.

## Fairness

* `relay` assumes that a goroutine waiting for a lock gets it and that
  `deliver` returns (it only appends to buffers). It assumes nothing of
  `forwardTo`: its write has no deadline.
* `sessions` assumes that a handler goroutine runs on, that tickers tick, and
  that `select` does not for ever avoid a channel that is ready (strong fairness of
  `RefreshDone`). Apps need not open or close anything. Both properties end with
  the node's life: after a signal nothing is claimed.
* `socket` assumes that both goroutines run, while the process does. Pings are
  sent on an idle connection, so `writePump` notices a dead one.
* `peer_memory` assumes that nodes which return are started again, that the ticker
  of the reconnect loop ticks, and that a dial ends, which its 30-second timeout
  ensures. That a node which is up is reached at an address its peer remembers is an
  assumption about the network. Discovery may find a node and need not.
* `cards` assumes that `readLoop` goes on; nobody needs to announce or to fetch.
* `ping` assumes that libp2p calls `DisconnectedF` for every connection it removed and
  that its goroutine runs. Measurements may take for ever.

`presence` and `rendezvous_net` need no fairness: their properties are bounds on time,
checked as invariants, and it is time that waits for tickers and messages. `MaxDelay`
is an assumption about GossipSub and, in `Presence`, about the readers: a forward
inside `readLoop` that never returned would break it.

## Proofs

`RelayNode_proofs` proves, for any sets of apps, senders, packets, handlers and
sockets, any cap and any TTLs (assumptions `PacketAssumption`, `QueueAssumption`,
`RouterAssumption`, `NodeAssumption`):

* `TypeCorrect`. `TypeOK` is inductive as it stands: it includes that the loops of
  a flush run over non-empty lists for an app.
* `PacketsAreNotLost` and `PacketsAreNotDoubled`. Neither is inductive alone: that
  a put-back loses nothing needs that the packet is held by this flush only, and
  that a packet is in one place needs that a replaced one is in no other. Their
  conjunction `Held` is. Lemmas `PutPkts`, `TakePkts` and `SweptPkts` say what the
  queue's methods do to the set of packets held; `HeldByRoutePut` and
  `HeldByFlushPut` are the two hard steps.
* `DuplicatesAreDropped`. The invariant `DedupInv` ties the cache to the past: an
  entry is no older than any packet accepted with its ID, and where there is no
  entry those packets are all older than the window.
* `PacketsKeepTheirTime`, from `AgeInv`: a packet in the queue was put there no earlier
  than it was accepted, as `Put` stamps with the present and `Route` accepts first.
* `QueueStaysBounded`. The invariant adds that the queue is finite; `BoundedPut`
  and `BoundedSubset` are the facts about cardinality.
* `NodeImplementsService`: every step of the relay is a step of `PacketService` or
  changes no packet's place. It rests on `Held` before and after the step: a packet in
  one place at most has a definite `placeOf`, and one that is held nowhere has ended.
  `PutStep` shows that what `Put` replaces or refuses is what the service lets go.

`AppSessions_proofs` proves, for any apps, sockets and contexts and any limit
(`SessionAssumption`):

* `TypeCorrect`, strengthened by `RctxInv`: a context not yet given to its loop
  belongs to one session.
* `NoGhosts`, strengthened by `ClientInv`: a client is in the set only while its
  session has it there. Without that, the check for siblings could find a client
  whose session is already past its own check.
* `OneRefresher`, strengthened by `RefresherInv`: until the node stops,
  `refreshers` has a live context of that very app for each registered app and for
  no other; afterwards no context is live.
* `AppPeerConnected`, which is inductive given the types.
* `RacesAloneExceed`, from `LimitInv`: while a session that nothing has overtaken is
  upgrading, the clients that were not overtaken are fewer than the limit, as at its
  check. `LimitAdd` counts the one that `addClient` adds.

`RendezvousStore_proofs` proves, for any namespaces, records, goroutines, limits and
lifetimes (`RendezvousAssumption`, `StoreAssumption`: `None`, which stands for "no
goroutine" and "no entry", is neither):

* `StoreTypes`, with `OneAtRename`, which is `fileMu`: one goroutine at a time is
  between `WriteFile` and `Rename`.
* `DirectoryWithinLimit`. `WithinLimit` speaks of every copy of the map, on disk and in
  the snapshots of writers, because a crash may make any of them the map; `LimitInv`
  adds that they are finite. `CopiesStep` says which copy a step changes, and
  `EntriesStep` that a step sets one entry, drops some, or neither.
* `RecordsDoNotOutliveGrants`, inductive for the same reason; rounding to seconds only
  shortens (`UnixEarlier`).
* `LocalRecordsStayLocal`, an action property.
* `SettledWritesPersist`, from `SettleInv`: while a goroutine works alone its snapshot
  has all that the map has, which only lookups shrink, and the temporary file is the
  snapshot of whoever holds `fileMu`.

`WsClient_proofs` proves, for every buffer and any number of messages (`WsAssumption`):

* `SocketTypes`, with the bound on the messages offered that the handler has left.
* `NoSendAfterClose`, from `ReachInv`: a socket that is still to be added is not closed, as
  `Shutdown` finds it only in the map, and one that `onClose` closes has left it.
* `GoodbyeComesLast`, from `DrainInv`: until `writePump` ends, the line has all that was
  accepted, and after a goodbye the socket is closed, so that nothing more is.

`Presence_proofs` proves, for any nodes, apps, intervals, delays and number of lost
messages (`PresenceAssumption`):

* `RoutesAreBacked`, from `BackInv`: the time an announcement has been under way, or a
  route in the table, bounds the time since its app was there.
* `RoutesHealInTime`. That the dark lasts at most `HealTime` is not inductive: one has to
  know what is under way. `Age(t, j)` is the time since the ticker fired for the `j`-th
  time before the last, given the time `t` to the next; `Followed` says that of all
  announcements of a host since the dark began, except as many as were lost, each is on
  its way with the right time left. `HealInv` has this for every host, and that tombstones
  older than the dark are gone after `MaxDelay`. `FollowBound` closes the argument by
  counting: were the dark longer, `MaxLost + 1` announcements would be overdue, and none
  is, since time waits for messages.

`RendezvousNet_proofs` proves, for any nodes, namespaces, limits, intervals, delays and
number of lost messages (`RendezvousAssumption`, `NetAssumption`):

* `NetTypes`, from a stronger `Types` with the ranges of timers and expiries.
* `RecordsDoNotOverstay`, from `GrantInv`, which adds the registrations that are stored
  and not yet announced.
* `RecordsSpreadInTime`, from `SpreadInv`, with `Followed` as in `Presence`, for the
  announcements of the very entry that its node has.

`Network_proofs` proves, for any nodes, cards, directory and number of faults
(`CardAssumption`):

* `CardsAreSigned`: what is stored, decided on and passed on is signed; the cards on the
  topic, in the directory and given to `Announce` need not be.
* `FollowersCatchUp`, from `FollowInv`: on a node whose database only `readLoop` writes,
  what it decided on is still newer when it is stored, so that the age of what it has
  only grows, and an announced card is under way, in hand, or no newer than that.
* `OldCardsStayReplaced`, an action property, from the first half of `FollowInv`.

It also extends `PeerMemory` and `PingTracker`, whose specifications are `MemorySpec` and
`PingSpec`, and proves for any nodes, bootstrap peers and failures (no assumption is
needed), and for any connections, each to one peer (`RemoteAssumption`):

* `FilesAreRemembered`, which is inductive given the types (`MemoryInv`): a boot loads the
  file, a snapshot only adds, and a save writes all that is remembered.
* `FilesOnlyGrow`, an action property, from `MemoryInv`: only a process that runs saves,
  and it remembers what is on file; only a torn write takes anything off it.
* `OnlyLateReportsMislead`, from `PingInv`: of a node that apps believe to be connected
  and whose last report was not late, some connection is up, or its `DisconnectedF` is
  still at work. When one `DisconnectedF` leaves the report to another connection, that
  connection takes its place.

`NodeConfig_proofs` proves, for any handlers, keys, labels, addresses, edits and number
of faults (`CodecAssumption`, `ConfigAssumption`: the node has an address, and the invites
that are pasted and the edits are well-formed):

* `InviteRoundTrip`: `DecodeInvite` gives back every invite that can be encoded, for
  every number base, key length and list of addresses. What the folds of `InviteCodec`
  compute is first turned into a function on `0..Len(addrs)` (`IsUpTo`, `AfterReading`);
  where the argument is by induction on the number of addresses, it is put as a fact about
  sets, that the set of failures has no least element (`LeastNatural`, `CountUp`).
* `InviteIsCanonical`, the other direction: whatever bytes `DecodeInvite` takes,
  `EncodeInvite` gives back from what it read, so that an invite has one code. `HasRead`
  says that the bytes a reader has passed are those of the addresses it has, `ReadBack`
  that a round of the loop keeps that, and `TwoDigits` that two bytes are the digits of
  the length they say. It covers codes without an address as well: `DecodeInvite` takes
  them, though Go's `EncodeInvite` refuses to make one (`invite.go:33`), which `Encodable`
  says and the bytes of `EncodeInvite` here do not depend on.
* `ConfigTypes`, through every beginning of a file that was cut.
* `OneIdentity`, from `IdInv`, that the key file at a path names whoever the node has run
  as from there, and `PathInv`: until an edit or a cut write, the path the node ran from
  is in the shared `Config`, in every text being saved and in `config.yaml`. A
  start has what is in `config.yaml` (`PrivateInv`).
* `PublicStaysOpen`, from `OpenInv`: `Load` strips the token and nothing sets one.
* `PrivateNodesStay`, from `PrivateInv`: a handler that saves has made the shared
  `Config` private, and so has every text that it writes; a file that says otherwise is
  being written.
* `AcceptedInvitesJoin`, an action property, from `JoinInv`: `Progress` is what a handler
  that nothing overlapped has done, `OnFile` what stays in the files afterwards.
* `IssuedInvitesDecode`, from `InviteRoundTrip`.

Each inductive invariant was model-checked, or its conclusion was, before it was
proved. One attempt failed for a good reason. `SpreadsInTime` did not hold for three
namespaces and room for two: a directory that was full when an announcement came, and
had room again at the next tick, counted as having had room throughout. TLC confirmed
it. `behind` now starts again when `putRemote` turns a record away for lack of room,
which is what the property means, and a lookup, which removes an expired record and so
makes room, is an action of its own.

Only model-checked: the liveness properties `FlushDelivers`, `GoneAppLeaves`,
`AnnounceHeals`, `BothGoroutinesEnd`, `MeshHeals`, `Settles` and `GoneIsReported`
(temporal reasoning with fairness is beyond the prover). Only proved: the type invariants
of `AppSessions`, `WsClient`, `RendezvousStore` and `RendezvousNet`, which the proofs of
the other theorems use, and the two theorems about `InviteCodec`.

## Not modelled

* Packet contents and codecs (`packet.go`, `codec.go`), and the JSON of events
  (`events.go`): they carry no state.
* What libp2p, GossipSub, the DHT, mDNS and bbolt do inside: the models have what the
  code relies on, that a connection is up or not, that a message arrives or not, that a
  transaction happens or not.
* Addresses, the 30-day limit, the cap of 64 peers and circuit connections in the peer
  memory.
* HTTP request parsing, and limits on the length of names and records, which change no
  state before the modelled steps; `Len`, `Online`, `Nodes`, `List`, `/config` and
  other reads.
* Errors of `topic.Publish`, which are logged; they count as lost messages.
* A `store.Put` that fails inside `FetchDirectory`, which skips one card.
* Configuration fields that neither name the identity or the network nor guard the API,
  and `psk_path`: it comes before `network_id` and `bootstrap_peers`, so a file cut in it
  is valid only as that of a public node, which reads no PSK until an acceptance has
  written one. That the operator keeps one path for it is an assumption.

The process that stops after `Shutdown` may cut sessions short; no property depends on
what they do then.

## Plan

`RelayNet`: two and more relays with coarser steps, packets sent on several paths with
one ID, and deduplication end to end (`README.md:118`).
