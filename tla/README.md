# TLA+ verification of SystemScale

SystemScale connects vehicles to a cloud. An **edge agent** on the vehicle
(Rust) keeps a QUIC connection to a **relay** (Rust), which publishes telemetry
to **NATS** and brings commands back; **Go services** store telemetry, send
commands and manage the fleet; SDKs and a dashboard are the users' ends.

    vehicle hardware
       | MAVLink / Unix socket          MavlinkAdapter, CustomUnixAdapter, SocketFraming
    edge agent
       | sequencer -> ring -> QUIC      TelemetryRing, AgentLink
       | QUIC -> dispatcher -> ACKs     CommandDelivery
    relay                               RelaySession
       | command forwarder              CommandDelivery
    NATS / JetStream (external)
       | telemetry-ingest -> QuestDB    TelemetryIngest
       | command-api (gRPC, REST)       CommandStream, AckStore, WireCodec
       | ws-gateway                     AlertPath
    dashboard (browser)
       | live connection and stores     WsManager, CircularBuffer, LiveStores
       | project page                   ProjectPage
       | session, guards, renewal       AuthSession
       | projects, team, API keys       PageTasks, HomePage, TeamPage, ApiKeysPage, ConsolePages

This directory has one module per part, modules that compose parts that
interact, TLC configurations, and proofs checked by TLAPS. `PROJECT.json`
relates every definition to source lines, lists the runs, and lists the hazards
of the code with the properties that watch them.

## Inventory

| part | state | operations | hard behaviour | what makes it correct |
|---|---|---|---|---|
| ring buffer | head, tail, slots, one notify permit | push, pop, on_reconnect | lock-free; index loaded before an await | order, bounded backlog, no lost wake-up |
| QUIC transport | backoff, connection, the frame in hand | connect, send telemetry, receive commands, send ACKs | a drop at any point | order, at most once; ACKs go on after a reconnect |
| agent core | sequence counter, command and ACK channels | sequence, dispatch, local ACK | a task per command, bounded channels | one answer per dispatch, honest status |
| MAVLink adapter | waiters by the low 16 bits of the command type | send_command, receive COMMAND_ACK | calls of the same key at once, timeouts | a call returns what the autopilot said, and returns |
| Unix-socket adapter | broadcast queues, one ACK queue under a lock | send_command, accept, read frames | calls that take each other's ACKs, `select!` in the middle of a read | same; frames stay whole unless a prefix was cut |
| relay core | registry by vehicle, sessions | accept, register, serve, heartbeat, clean up, monitor | overlapping connections of a vehicle | no dead entry, no live session hidden |
| command forwarder | JetStream consumer | forward, ack, nak | lost ack, full or closed channel | no command vanishes or is doubled on the way |
| command-api gRPC | pending ACK channels of a session | send, route ACK, wait, time out | goroutines and timeouts that race | every command is answered, truthfully |
| command-api REST | ACKs by command, SSE waiters | listen, expire, stream | check and wait | no waiter hangs, none leaks |
| message router | channels of 256 | Subscribe (durable, core) | ack before hand-over, drop when full | what is lost is known |
| telemetry-ingest | channel, batches, connections | read, decode, add, flush, tick, close | retries, shutdown | nothing vanishes; batches get written |
| ws-gateway | NATS subscriptions of an operator | subscribe, decode, fan out | which stream claims a subject | an alert arrives as one |
| dashboard: live connection | one socket, subscribed vehicles, retry timer, rings, flags | subscribe, unsubscribe, retry, push, flush | a retry, a closing socket and a new subscription at once | one socket, truthful indicator, reconnection, no frame unshown |
| dashboard: project page | devices, effect and animation-frame loop, rows | open, jump, load, add, leave | answers for an earlier project, loops that survive | subscriptions and rows are those of the page |
| dashboard: session | auth store, local storage, renewals, guard | sign in, callback, renew, expire, 401, log out | overlapping renewals, effects run twice, late 401s | no token outlives its expiry, logout stays |
| dashboard: list pages | lists, dialogs, busy flags, handlers under way | create, invite, save, remove, revoke, reload | answers out of order, lost, or for a page that is gone | the list shows one's own writes; a key is seen |
| srt-relay, video-sender | processes | supervise | restarts | planned |
| fleet and auth APIs | projects, devices, members in Keycloak, keys | HTTP handlers | lists read while others write, read-modify-write, stale caches | what the pages sent is what they list |
| query, video APIs | none | HTTP handlers | none | not modelled |
| SDKs | queues, streams | emit, receive, reconnect | retries | planned |

The parts talk through QUIC streams (agent and relay), JetStream and core NATS
(relay and services), in-process channels, two shared maps in the relay, and
HTTP and one WebSocket (dashboard).

## Modules

* **RingContract** - what the ring promises: items are accepted; they are
  delivered exactly once and in order until an overrun, and lossily after it.
* **TelemetryRing** - `ring-buffer/src/lib.rs` with every atomic load, store and
  slot copy an action of its own. A slot holds the index that was written to
  it; a copy that overlaps a write is `Torn`. `overrun` is a history variable:
  some push found the ring full.
* **RelaySession** - the relay's accept loop (`main.rs`), `handle_connection`
  and its streams (`session.rs`), and the health monitor, whose scan and
  removals are separate steps. `overlapped` and `reaped` are history: vehicles
  that had two handlers at once, and those the monitor removed.
* **CommandDelivery** - one composition from JetStream to the adapter and back:
  consumer (external), forwarder, session channel, QUIC link, the agent's
  command channel, a task per command, the ACK channel. A session is registered
  first and waits for its streams in a state of its own, in which its channel
  takes commands and nobody drains it. The forwarder looks into a registry of
  its own, which no code of the repository fills: `Embedded` says whether the
  program that runs the forwarder fills it from the relay's sessions, as the
  module's comments tell it to (`Fill` and `Unfill`, external). The guard the
  forwarder holds across `msg.ack().await` is `EntryFree`. The agent may skip a
  command it cannot decode, and ends a link on a frame that is too long.
* **CommandStream** - a session of gRPC `SendCommand`: the receive loop, the
  ACK router (look-up and send are two steps) and a waiter per command.
* **AckStore** - the REST face: `startACKListener`, the expiry ticker and
  `handleCommandStream`, whose deferred removal is a step of its own. A request
  may be `cut` (its client left, or the server's write deadline passed): what is
  written to it then arrives nowhere.
* **WireCodec** - the hand-written protobuf codecs as operators: a message is
  the sequence of its fields, decoders keep the last value of a known field.
* **CommandApi** - command-api as a whole: the two faces and the codecs.
* **AgentLink** - the agent's telemetry side over several runs of the process:
  sequencer, ring, reconnecting transport, the flag behind `healthz`, and the
  relay's handler of each link. The ring is what RingContract says of it and no
  more: exact up to the first overrun, afterwards a source of items nobody can
  name (`Mixed`). A stream takes `Window` frames unread and then blocks the send
  loop. A handler goes on publishing what it has while the agent is already on
  another link.
* **MavlinkAdapter**, **CustomUnixAdapter**, **SocketFraming** - the two
  protocol adapters and the bytes of one Unix-socket connection;
  **ProtocolAdapters** composes them as `main` does, one adapter per process. A
  waiter in `pending_acks` is filed under the number of its command modulo 2^16.
  What a Unix client acknowledges on a connection whose framing is cut may reach
  the queue or not; that a cut happens, and what it does to the bytes, is
  SocketFraming.
* **TelemetryIngest** - the durable `Subscribe` of the router, the workers, and
  the ILP writer with its lock, ticker, retries, drop and close. What it handles are
  deliveries, `<<m, k>>` being the k-th of message m, since a lost ack brings a
  message again.
* **CircularBuffer**, **LiveStores** - the dashboard's ring of frames and its two
  zustand stores: a push marks the store dirty, an animation frame raises the
  generation. `arrived` is history.
* **WsManager** - the one WebSocket to ws-gateway. The singleton is a record and
  each method an operator on it, since one JavaScript task may call several.
  `orphans` counts live sockets `this.ws` no longer names.
* **LiveContract** - what WsManager promises: the indicator and the subscription
  of the connection follow what is wanted.
* **ProjectPage** - a project's page composed with WsManager, the stores and the
  fleet API's device requests. A setState, its render and the effects of that
  render are one step; an unmounted instance ignores its answers. `jumped` is
  history: the browser's history took this instance to another project.
* **AuthSession** - the auth store, the guards and routes of `App.tsx`, login,
  callback, sidebar and HTTP client. A handler may outlive its page and send
  again after a logout; the servers may refuse any token with a 401.
  oidc-client-ts and Keycloak are external. Leaving for Keycloak or loading a URL ends the page; local storage stays.
* **PageTasks** - what the list pages share: an asynchronous handler is a task
  that awaits a write, a list, or the device lists that follow one; the server's
  moment and the answer's moment differ. **HomePage**, **TeamPage** and
  **ApiKeysPage** are the three pages with the handlers of the fleet API and the
  auth service behind them (`server/api/fleet/main.go`, `server/api/auth/main.go`):
  what each accepts, changes and lists. **ConsolePages** puts them under one
  router, with claims that change.
* **AlertPath** - how the dashboard's subscription request becomes NATS
  subscriptions in ws-gateway, and which store a message ends in.
* **...Proofs** - the theorems about a component, see Proofs. **ServerProofs** is about
  RelaySession and TelemetryIngest, **DashboardProofs** about the list pages and AuthSession.
* A component's TLC instance is the `.cfg` of its name; **MCProjectPage** and
  **MCConsolePages** are the two that need definitions of their own.

CommandApi and ProtocolAdapters compose parts that share no variable and whose
properties speak of one part each. Their instances let a part run while the
others rest; a property that related two parts would need the product. What the
parts have to do with each other in the code is put into each as a choice: the
framing of a connection into CustomUnixAdapter (`cut`), for example.

## Runs

Deadlock checking is off everywhere: each instance has bounded input and comes
to rest when it is used up.

| run | instance | shows |
|---|---|---|
| `ring` | 2 slots, 5 pushes, 1 reconnect | backlog bound, what pop may read, refinement of RingContract, draining |
| `relay` | 2 vehicles, 3 connections, capacity 2, agents that open 3 or 4 streams | registry invariants, dead sessions leave |
| `delivery` | 1 command, 2 connections, channels of 1, 2 deliveries, the registry filled and emptied at will | `DeliveryInv`: one fate per delivered copy, nothing acknowledged is forgotten, honest ACKs; the one place where a command gets stuck |
| `command_api` | 3 gRPC commands (one forbidden), 2 REST commands, 2 SSE requests | `SessionInv`: true and complete answers; `RestInv`: no hung or leaked waiter; what each end decodes of what the other encoded, field by field; everybody is answered |
| `agent_link` | 2 slots, window of 2, 4 items and 4 pops per run, 2 links, 2 runs | `LinkInv`: order, at most once, no gap on a link, one item lost per link; progress |
| `adapters` | 2 calls at once on each adapter, MAVLink types that share a key or not, 3 frames with 2 commands in between | `MavlinkInv`, `UnixInv`: whose answer a call gets, what a rival can spoil; framing; every call returns |
| `ingest` | a good and an undecodable message, 2 workers, batch 2, 2 attempts, 2 deliveries | `IngestInv`: nothing vanishes, rows per delivery; draining |
| `live` | 2 projects with one device each, 2 visits, 3 requests, 3 frames, 1 loss, rings of 2, 2 rows | one socket, refinement of LiveContract, rings, subscriptions and rows follow the page; frames get shown, the connection returns |
| `session` | 3 tokens, 2 requests, 2 page loads, 1 failure | one landing of the callback, what ends a good session, what undoes a logout, expired tokens go |
| `pages` | 2 visits, 3 handlers, 1 failure, 2 members, 3 projects | lists show one's own writes, busy flags, keys are seen, entitlement, spinners end |
| `relay_streams`, `alerts` | smaller | violations, see below |

An `...Inv` is the conjunction of the named invariants of its component (its
module lists them, each with its comment); TLC checks them together, because
they are the parts of one statement about that component.

**Bounds.** They are the constants whose declaration says "bound", and they
limit inputs only (pushes, drops, dials, deliveries, ACKs, runs). Two slots and
five pushes let the producer go round the ring twice while a pop sleeps. Three
connections let a vehicle overlap itself while another takes the last place.
Channels of capacity one are full after one message, so every full-channel
branch is taken; the real capacities (64 to 4096) only delay it. Two calls at
once are what the adapters' races need. Two attempts in place of three of the
ILP writer have a first, a last and a repeated one. In `live` two visits let an
answer outlive its page, three requests a reload overtake a load, and three
frames wrap a ring of two; the retry delay runs from 2 to a cap of 3, so that
it is doubled and cut. In `session` three tokens let a request leave under one,
a renewal follow, and another fail. In `agent_link` four items go round a ring of
two and overrun it, and a link of window two fills while nobody reads. In `pages`
three handlers are a first load and two writes whose reloads overlap, or
handlers of a page that was left.

**Fairness.** Weak fairness, only of steps that belong to a running task: a
push that has begun, the transport's loop, relay handlers, forwarder,
goroutines, tickers and timers. Nothing obliges a vehicle to dial or answer, a
link to drop or hold, or a client to act. No relay handler owes the acceptance
of its streams, no program an entry in the forwarder's registry. The agent's send loop takes what the ring is sure to have
(after an overrun, nothing is sure) and writes when the stream has room;
`RingMovesOn` is conditional on the link staying up with a handler that has its
streams. `VehicleServed`, the statement that fails, is conditional on the link
staying up.
JetStream is taken to deliver what it holds, up to its delivery limit.
In the dashboard, timers, animation frames and settled promises are the
browser's to run; a gateway that is up accepts, and losses are bounded;
`signinSilent` ends one way or the other (the library's timeout), and so does
every request (ky's default timeout of 10 s). Nothing obliges the operator, or
Keycloak to succeed.

## What the properties say about the code

* The ring's comment that tail is "always <= head" (`lib.rs:80`) is not exact:
  push's discard and pop's advance can both count one slot, and tail passes
  head by one; an item is then skipped. `TailBound` is the exact bound. After an
  overrun a pop that slept may return a newer item than the one it meant to,
  or a torn one (`ReadsOwnSlot`).
* A relay entry may go missing for a live session: when a vehicle reconnects
  before its old handler has ended, and when the monitor removes a vehicle whose
  heartbeat arrived after the scan. `HiddenOnlyByOverlapOrReap` says there is no
  third way. The capacity check precedes the handshake by an unbounded time, so
  `max_connections` can be exceeded.
* A command that JetStream considers delivered can be skipped by an agent that
  cannot decode it, or be lost with a session that has ended, its channel and its
  link (`AckedIsAccountedFor`, `LostWithSession`). One place holds it for good:
  the channel of a registered session that waits for its streams, and with this
  repository's agent every session does (`StuckOnlyUndrained`).
* An ACK that comes in between publish and registration finds no waiter, and
  the operator is told TIMEOUT for a command that ran. `AnswersAreTrue` allows
  that; an answer that names a status of the vehicle is true.
* Of a command the agent decodes all but the priority, which comes out one lower;
  of an ACK command-api decodes the command it is for, and neither status nor
  message (`DecodedAs`).
* An SSE client hears of an ACK that lands while it waits unless it has left or
  the server's write deadline has passed (`RestWaiterHears`).
* MAVLink: two commands with the same low 16 bits share one waiter, so that the
  first may be told Timeout before its time (`EarlyTimeoutByRival`), and a command
  of more than 16 bits can be told what the autopilot said to another type
  (`AnswerFromAutopilot`); a type unknown to the dialect is sent as DO_SET_MODE;
  IN_PROGRESS is reported as Failed.
* Unix socket: an ACK that arrives in time can be thrown away by another call, or
  garbled because a command, its own included, cut the framing of its connection
  (`TimelyAckLost`). A command that is sent while a length prefix is half read
  makes the cut (`UnixFramesIntactUnlessCut`).
* Telemetry arrives in order and at most once until the ring overruns; from then
  to the next restart the ring itself promises no order (`InOrderAtMostOnce`).
  A lost link costs the item in hand and what its stream still held.
* telemetry-ingest acknowledges before it stores: what is in its hands at a
  shutdown, and a batch after the last attempt, is lost (`NothingVanishes` lists
  the places).
* The dashboard's socket: no order of subscriptions, closes and retries makes a
  second socket (`OneSocket`), though the manager keeps no counts; with one page
  at a time its set is exactly that page's devices (`FollowsDevices`).
* A project page that the history takes to another project shows the earlier
  project's devices until the answer comes, and again if an old answer comes
  last; a page opened afresh never does (`OtherProjectOnlyAfterJump`).
* A session whose token is good is ended by the 401 of a request that left before
  that token was issued, also one a handler made after a logout, or by a server
  that refuses the good token itself: the validator answers 401 for any error (a
  rotated key), and the invite handler passes on Keycloak's status
  (`GoodSessionEndedByStaleOrRefused`). A logout is undone only by a renewal that
  was running (`LogoutUndoneOnlyByRenewal`).
* Reloads of a list are not ordered: the later answer wins, and the list may be
  older than one's own write after two overlapping reloads, a lost answer, or a
  write begun on an earlier visit; otherwise it is current
  (`ListShowsOwnWrites`). What can be current is what the servers list: the
  devices chosen in the team page's dialogs are sent and not decoded by the invite
  and access handlers (`fleet/main.go:765`, `:842`), so that no list has them, and
  a revoked key is not listed any more. A created key can stay unseen only when its answer is
  lost or its page was left (`KeyRevealed`).
* The project list is filtered with the vehicle_set of the render load() began
  in and the role of the moment it ends (`UnentitledOnlyAfterClaimsChange`). The list is
  loaded when the page is mounted and not when the claims change: one who becomes an
  admin on the page sees the old selection until the next load.

Two runs end in a counterexample to what a comment of the code says:
`relay_streams` (the relay awaits four streams and the agent opens three: a
vehicle is connected and not served) and `alerts` (alerts are decoded; the order
in which the dashboard asks prevents it). PROJECT.json quotes the lines.

Seven more statements are refuted by TLC with configurations kept here beside the
listed runs:

* `ExecutedAtMostOnce` (CommandDeliveryOnce.cfg): "Deduplication happens at the
  edge agent" (`command-forwarder/src/main.rs:93`); no code does it.
* `NackedOnlyIfAway` (CommandDeliveryStandalone.cfg): a missing entry means
  "Vehicle not connected to this relay" (`command-forwarder/src/main.rs:184`);
  the forwarder's own binary has an empty registry (line 236), so that it gives
  every command back, whoever is connected.
* `AckStatusArrives` (CommandApiAckStatus.cfg): `encode_ack` must match the
  proto; it writes the status as field 2 (`quic-transport/src/lib.rs:279`), and
  command-api reads field 3.
* `PriorityArrives` (CommandApiPriority.cfg): "0=NORMAL, 1=HIGH, 2=EMERGENCY"
  (`commands/main.go:173`); the agent reads 2 as High and 3 as Emergency
  (`quic-transport/src/lib.rs:335`).
* `RestWaiterResolved` (CommandApiSse.cfg): the SSE request "resolves as soon as
  the ACK lands" (`commands/main.go:684`); the server's WriteTimeout of 15 s
  (line 874) lets a later ACK reach nobody.
* `FlagFollowsLink` (AgentLinkFlag.cfg): relay_connected is "written true on
  connect" (`quic-transport/src/lib.rs:79`); it is only ever lowered.
* `SurvivesRestart` (AgentLinkRestart.cfg): the ring file "survives process
  restart" (`ring-buffer/src/lib.rs:9`); its indices restart at 0.

Also seen, and not made runs: the TTL of a command is never enforced
(`envelope.proto:61`); "whichever arrives first wins"
(`agent-core/src/main.rs:191`), while the REST store keeps the last ACK;
WsManager's comments call its set "ref-counted" (`WsManager.ts:15`);
`ProjectPage.tsx:86` selects from the alert store with a function that returns a
new array every time, which zustand 5 (`package.json:26`) does not allow: the
model takes the selector as it is meant.

Hazards of the code that no property watches, beside those PROJECT.json lists with
a note. The models have these and the properties except them, by name: a command
parked in a session without streams (`relay-core/src/session.rs:96`), a command
the agent skips (`quic-transport/src/lib.rs:209`), a cut length prefix
(`custom-unix/src/lib.rs:282`), what the ingest holds at its exit
(`ingest/main.go:138`), claims that change while the project list is loading
(`HomePage.tsx:39`), the flag behind healthz (`quic-transport/src/lib.rs:99`), a
forwarder nobody gave sessions to (`command-forwarder/src/main.rs:236`). These have no
model: the relay compares its capacity before the handshake and inserts much later
(`relay-core/src/main.rs:148`); nothing compares ttl_ms with the time
(`command-forwarder/src/main.rs:137`); several goroutines call `stream.Send`
(`commands/main.go:336`); a channel closed while a NATS callback may be sending
(`router/nats.go:152`); member attributes read, changed and written back whole
(`fleet/main.go:875`).

## Proofs

Everything below holds for all values of the constants that satisfy the named
assumptions: at least one slot (`RingAssumption`), slots, windows and runs positive and
`Mixed` no number (`LinkAssumption`); capacities and bounds
are naturals, positive where the code's channels are; `None` and `NoConn` are none
of the values they stand beside; the retry delay starts positive and at most at
its cap (`DelayAssumption`); the connections of a command's relay are finitely many
(`DeliveryAssumption`: copies are counted over them; `Embedded` is either); no id is empty
(`ApiAssumption`: the agent skips an envelope without one, and command-api makes
UUIDs); the fleet's vehicles are finitely many (`ProjectsAssumption`: an effect makes
a call for each). TLC evaluates each of them on its runs.

| theorem | module | states of the runs' properties |
|---|---|---|
| `LagIsBounded`, `PopReadsOwnSlot`, `RingImplementsContract` | TelemetryRingProofs | `LagBound`, `ReadsOwnSlot`, `ImplementsContract` |
| `RegistryHasNoDeadSession`, `HiddenOnlyByTwoRaces` | ServerProofs | `NoDeadSession`, `HiddenOnlyByOverlapOrReap` |
| `DeliveriesAccounted` | ServerProofs | `IngestInv` |
| `DeliverySafe` | CommandDeliveryProofs | `DeliveryInv` |
| `LinkSafe` | AgentLinkProofs | `LinkInv` |
| `MavlinkSafe`, `UnixSafe`, `FramesSafe` | ProtocolAdaptersProofs | `MavlinkInv`, `UnixInv`, `UnixFramesIntactUnlessCut` |
| `SessionSafe`, `RestSafe`, `CodecsSafe` | CommandApiProofs | `SessionInv`, `RestInv`, `DecodedAs` |
| `WsManagerOneSocket`, `WsManagerImplements` | ProjectPageProofs | `OneSocket`, `ImplementsLiveContract` |
| `RingSafe`, `FeedSafe`, `ShownSafe` | ProjectPageProofs | `RingKeepsNewest`, `FeedFromCurrentDevices`, `OtherProjectOnlyAfterJump` |
| `PageFollows`, `PageOneSocket`, `PageImplements` | ProjectPageProofs | `FollowsDevices`, `OneSocket`, `ImplementsLiveContract` |
| `Busy`, `Revealed`, `Entitled`, `OwnWrites` | DashboardProofs | `BusyWhileWriting`, `KeyRevealed`, `UnentitledOnlyAfterClaimsChange`, `ListShowsOwnWrites` |
| `CallbackOnce`, `EndedByStaleOrRefused`, `LogoutLasts` | DashboardProofs | `CallbackLandsOnce`, `GoodSessionEndedByStaleOrRefused`, `LogoutUndoneOnlyByRenewal` |

Each rests on an inductive invariant, which TLC checked on the run's instance
before it was proved. A proof has one lemma per part of the invariant and, in it, one step
per action.

**The ring.** The goals are not inductive, because each half works with values
it read earlier. Three invariants strengthen them:

1. `TailInv` counts the increments of `tail` that a thread has decided on and
   not yet made: one of the producer between its check and its discard, one of
   the consumer from finding the ring not empty to its advance. `tail` with
   what is owed to it stays at most one past `head`, which gives
   `TailIsBounded`. `LagBound`, which looks at the producer's position, is
   inductive with the types alone: `LagIsBounded`.
2. `SlotInv`: a slot holds items of its own index only, and for each index
   pushed so far that item or a later one. With lemmas about `%` it gives
   `PopReadsOwnSlot`.
3. `ExactInv`: until the first overrun, `tail` is the number of deliveries, the
   tail a pop has loaded is still the current one, and each unread index is in
   its slot. With it every step of the ring is a step of RingContract or leaves
   its variables alone: `RingImplementsContract`.

**The relay.** `NoDeadSession` is inductive with `RelayTypeOK`. For
`HiddenOnlyByTwoRaces`, `HiddenInv` adds that a vehicle with two handlers at once is
recorded in `overlapped`: without overlap, `Cleanup`'s removal by vehicle
removes the handler's own entry.

**The ingest.** `NothingVanishes` alone is not inductive: a step that empties one place
could lose what another place forgot. `PlaceInv` adds that a delivery is in one place of the
process at a time (`OnePlace`) and is new when the reader takes it (`TakenInv`). The
bound on rows needs their history: a delivery has made no row before it is in a buffer,
and in it at most one per attempt of the flush going on (`RowsInv`). A buffer
has room, and its attempt counter is 0, whenever nobody holds the writer's lock
(`WriterInv`), which is where `Add` and the ticker rely on the mutex. What a write
adds to the rows is a cardinality, at most 1 because a buffer holds no delivery twice
(`StoredIs`). The steps then fall into those that move no line (`IdleStep`), those that
hand one on, and the ends of a flush (`EmptyStep`).

**Command delivery.** Copies of a command are counted over all channels and
links by cardinality, so that the counting lemmas (append, take, clear a channel) follow
from the library's theorems on finite sets. What the deliveries of a command
have come to (`Fates`) grows in one step only, the forwarder's `try_send`; every
other step moves a copy, ends it or loses it (`FatesMove`). `FateInv` therefore
counts the message in the forwarder's hands beside the fates. `LostWithSession` is
inductive with the types: only the end of a session loses anything, and a session
that has ended stays so. `AckInv` follows a
hardware ACK back from NATS through the ACK channel to the task that got the
adapter's result.

**The agent's link.** What the relay has published is a part of what was written,
so `Order` is shown of everything written: each link's frames in order and before
those of the next link, all before the item in hand, that before what the ring
gives out next. An overrun makes the next item `Mixed`, behind everything of its run, and a
restart begins the numbers anew in a later run. For `NoGapOnLink`, `Trail` says
that the link's last frame, the item in hand and the next one follow each
other. For `OneLostPerLink`, `Cost` counts what was lost since the latest link
that carried something: at most the item in hand for each link since.

**The adapters.** MAVLink: an entry of `pending_acks` is of the key it is filed
under (`EntryInv`), so what is put into its oneshot was said to a command of
the type its key spells (`SlotInv`); a oneshot that is closed early was closed by a call of
the same key (`RivalInv`). Unix socket: a call that has begun stays begun, so
that a rival remains one (`BegunInv`); who is in the lock's queue (`QueueInv`) and
where an ACK that came in time can be (`TimelyInv`, `LateInv`) leave only a
rival or a cut connection to lose it (`Excused`). Frames: `WireInv` says which pieces of the client's stream are
still unread, `Aligned` that the reader is at the place in the frame its state
says, as long as no prefix was cut.

**command-api.** Session: a command is unanswered until its goroutine is done
(`Unanswered`), the loop's command is published and nothing else (`LoopInv`), and
whatever is on its way to the operator as an ACK was sent by the vehicle
(`Heard`). REST: what a request's channel holds is an ACK of the command it asks about
(`ChannelInv`); with lemmas on appending to a list without repetitions and on
cutting a member out of it, that makes `NoHungWaiter` and `OnlyLiveWaiters` inductive. Codecs:
`Says` and `Silent` state what a sequence of fields tells a decoder that keeps the
last value; one more optional field disturbs no other number (`OneMore`).

**The WebSocket manager.** `WsSpec` lets callers subscribe and unsubscribe any
vehicle at any moment, and the network open, close and refuse. `OneSocket` is not
inductive: that no socket is live when `_open` overwrites `this.ws` depends on
the subscriptions, the flag and the timer. `Consistent` adds what ties them
together: a socket or a retry exists exactly while something is wanted, never
both; `destroyed` is off then; the status, the indicator and what the gateway
was told follow the socket. Each method has a lemma for its type, one for what it makes of a
consistent manager, and one that says which step of LiveContract it is. From
these follow `WsManagerOneSocket` and the refinement `WsManagerImplements`.

These two are about `WsSpec`, where each call is a step. An effect of the page makes one
call per device, and so does its cleanup, in one step: a fold over the set of devices.
The library's induction theorems cannot be used here (they take an operator as a
parameter), so the induction is done by a smallest counterexample (`SmallestSubset`,
from the well-foundedness of strict inclusion): that the fold's function exists
and is unique (`FoldExists`, `FoldUnique`), that it keeps the manager consistent,
adds or removes exactly the set, and is at most one change of what is wanted in
the contract's eyes (`FoldCalls`). `FollowInv` then says that the effect is active for the
devices shown, the manager subscribed to them, and nothing shown once the page is
unmounted; with `ShownInv` (an answer holds vehicles) it is inductive. It gives
`PageFollows`, and `OneSocket` and the refinement for the page as it is.

**The project page.** `RingKeepsNewest` says nothing about the slots, and a push
writes one: `RingOf` says where each of the newest frames is, in writing order until the ring is full
and counted from `head` from then on. The remainder of an index that has
passed the end at most once is a subtraction (`ModWraps`), after which the rest is linear.
`StoreInv` keeps a ring of its own frames for every vehicle; `LoopInv`, that the
one loop is that of the effect in force; with both, each row of a new feed comes from
a current device. `ShownInv` follows the requests: none is of a later instance,
those of the mounted instance name its project until a jump, and an answer holds
devices of the project it names. The list an answer read may be old when it is
shown; it is still right because the fleet API has no call that takes a device
out of a project.

**The list pages.** The thirty handlers of the three pages do one of eleven things to
the tasks and the page (`PageStep`): a handler starts, the server reads or applies or fails, the
handler goes on or ends, the page is mounted or left, the claims change. Each handler is shown
to be of its class once, and each part of `PagesInv` to survive each class. The
parts: the page's shape (`PageShape`); tasks are numbered, and those of the mounted page
are of its kind (`TasksInv`); a busy flag is up exactly while one handler of its kind is
under way (`BusyInv`); a key was shown, is recorded as unseen, or is in the answer to its
request (`KeyInv`); loads of a page whose claims have not changed select with these
claims (`EntitledInv`); and, unless a reason for an old list is recorded, there is one
load at most, it goes well, what it has read is current, and a list that lacks one's own
write has a reload to come (`ListInv`). The attempt to prove the last part showed
that the model had overlooked one who is made admin while on the home page, whose
list is not loaded again; the model now follows the code there.

**The session of the dashboard.** `SessionInv` adds what the properties rest on: where the
guard is mounted (`GuardInv`), what the callback page has processed and is
waiting for (`CallbackInv`), that tokens and requests are numbered by what was issued
(`StoreInv`), and that after a logout without a renewal under way the store, local
storage and the renewals are empty (`LogoutInv`).

**Only model-checked:** all liveness properties (TLAPS 1.4.5 does not handle
`ENABLED` and fairness), and the two runs that end in a counterexample. Every invariant and
every action property of the passing runs is also proved.

## Plan

1. *Done:* ring, relay, command delivery, command-api, agent link, adapters,
   ingest; the dashboard's live connection, project page, session and list pages;
   the alert path through ws-gateway; theorems of all of them but the last.
2. *Models left:* ws-gateway's fan-out queues; the SDKs' stream emitter and
   message receiver with the agent's local API; the validator's key cache; the
   fleet API's member changes against each other (attributes are read, changed and
   written back whole); video-sender and srt-relay as
   supervised processes; StreamTelemetry of command-api and the storage library.

## Not modelled

TLS and certificates, configuration, metrics and logs, the bytes of payloads
and ILP lines, memory orderings weaker than sequential consistency (the ring's
indices are read-modify-write or acquire loads of single words), real time
(timeouts may fire whenever they are armed), NATS, JetStream, QuestDB and QUIC
beyond what the code relies on; generated protobuf code and deployment files. Of
the dashboard: layout and styles, the columns and formats of tables, form texts,
the steps of the key setup guide, type declarations, build files and the
generated Playwright report; several tabs of a browser sharing local storage.
