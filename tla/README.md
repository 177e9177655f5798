# TLA+ specifications of FreeTetra

FreeTetra (`src/`) is a server for networks of TETRA base stations. Base
stations, and bridge programs that behave like base stations, connect to it over
WebSocket and speak the Brew protocol; servers connect to each other over gRPC
and form a federation mesh; bridges lead to SIP-like proxies, DMR, Zello, web
radio and an echo service; a dashboard shows what goes on. The program is written
in Go and is highly concurrent: every base station, every federation stream, every
bridge and every timer is a goroutine, and they share maps guarded by mutexes.

This directory holds TLA+ modules of the parts whose correctness depends on the
order in which these goroutines run, the TLC configurations that check them on
small instances, and TLAPS proofs of their main properties for every instance.
`PROJECT.json` lists components, runs, the source lines each definition stands
for, the hazards the properties are aimed at, findings and theorems.

## 1. The system

| part | source | state | operations | hard because |
|---|---|---|---|---|
| mesh router | `federation/mesh.go` | ids seen in the last 30 s | PrepareOutgoing, ShouldProcess, PrepareRelay, clean-up | flooding over cycles, two streams per pair, drops, late copies, test and mark under two locks |
| peer registry | `federation/hub.go`, `peer.go` | `peers` by name and direction, `pendingPeers` with timers | Connect, maintainOutgoingPeer, registerPeer, renamePeer, unregisterPeer, redeemPending | eviction races the end of a read loop, timers race reconnects, peers change their name |
| subscriber tables | `hub.go`, `peer.go`, `service/federation_bridge.go`, `brew/client.go` | radios and groups per base station; per peer, remote radios with their origin | subscriber messages, anti-entropy, full sync | relays, partial announcements, lost connections, stale snapshots |
| federated calls | `hub.go`, `federation_bridge.go`, `service/service.go` | `calls`, `activeCalls`, `privateCalls` | call start, end, reply, voice, both ways | handlers and route entries are updated under different locks, messages of a call may take different streams |
| peer discovery | `hub.go` 1245-1333 | `knownPeers` | PeerExchange gossip | dial loops started twice |
| Brew server | `brew/server.go`, `client.go`, `protocol.go` | clients, tokens, send queues | discovery, WebSocket upgrade, read and write loops, broadcasts | broadcasts use a snapshot of clients that are being closed |
| service core | `service/service.go`, `virtual_sds.go`, `attachment_control.go` | `calls`, SDS route hints, activity log | call control, voice, SDS from base stations | calls of a lost base station, route hints that expire |
| stations | `service/stations.go`, `tmo_site_heartbeat.go` | station rows, tombstones, index by radio | upsert, delete, link, reap, reload, federated updates | tombstones and live rows cross each other |
| proxy bridge | `service/proxy_bridge.go` | bridged call pairs | setup, answer, release of two legs, sweep | each leg may fail while the other proceeds |
| echo bridge | `service/echo_bridge.go` | captures, playback queue | capture, play back, Stop | delayed goroutines take captures the speaker adds to; bounded queue |
| DMR bridge | `dmrbridge/bridge.go` | mirrored calls | mirror, garbage collection | collection races live calls |
| Zello bridge | `service/zello_*.go` | session, streams of both directions, transcoders | connect, stream in, stream out, Stop | requests to Zello outside the lock, sessions lost meanwhile |
| web radio | `service/webradio_*.go` | source, session, mute, silence flag | frame loop, watchdog, skip, reload, mute, Stop | four goroutines cancel one session |
| call-out | `service/callout_*.go` | threads, open call-out per route, states | send, follow up, clear, acknowledge, relay a text | numbers wrap, two tables under two locks |
| last heard, rate limiter, positions, coverage, APRS, RadioID, MOTD, dashboard, telemetry, configuration, web front end, voice codec | `service/*.go`, `config/`, `web/`, `codec/` | tables, files, pages | mostly input and output | |

How they interact: a message of a base station enters at the Brew server's read
loop, which updates the client record and calls the service; the service
broadcasts to other base stations and calls the federation bridge; the bridge
calls the hub, which sends to the peers through the mesh router's stamping. In
the other direction a peer's read loop passes the mesh router, the hub's handler
calls the bridge (`CallHandler`), and the bridge broadcasts to base stations and
edits the service's tables. Bridges sit beside the service as Brew clients or
through the module plane.

What makes the parts correct: a flooded message reaches everybody, dies out and
is acted on once by each read loop; `peers` holds live streams only, and a lost peer's table is
either adopted whole or forgotten; the servers agree on which radio is where; a
call that ends is ended at every server and leaves no table entry behind; a
bridged call never keeps one leg of two.

## 2. Modules

### MeshFlood, MeshRouter, MCMesh, MeshRouterProofs

`MeshFlood` is what the mesh promises about one message: it starts somewhere,
spreads along links from a server that has it to one that has not, and never comes
back to the server it is attributed to. `MeshRouter` is the mesh as coded. A
*stream* is `<<from, to, connection>>`: two servers that dial each other hold two
connections, and each direction has a send queue (`Peer.send`, capacity
`SendBuf`) and a read loop at the receiving end. The read loop is split where
`ShouldProcess` gives up the router's lock: `Check` (everything up to
`alreadySeen`), `MarkSeen`, `Handle` (the handler with its relay). `Discard` is
`ShouldProcess` returning false. `Broadcast` is any `Broadcast*` of the hub;
`Cleanup` is the clean-up of one id, whenever it happens; `Disconnect` and
`Reconnect` are the loss of a connection and the redial. `handled[s][id]` counts
what the read loop of `s` acted on; `birth` records who started a flood and for
which origin. `Lossy` and `LateDelivery` choose the environment.

Abstractions: payloads (all flooded types share this path); the 30 s window,
which is any time at all with `LateDelivery` and otherwise no earlier than the
last copy's arrival; the write loop and the network, which are one queue per
stream. Message ids do not repeat; in the code they are 32 random bits.

### PeerRegistry, FederationProofs

The table of peers of one hub. A connection `c` is a peer object with the
goroutine that made it; `pc[c]` walks through `registerPeer` (redeem, adopt,
insert, evict), the read loop and `unregisterPeer` (test, close, remove, park),
split at every lock and inside `Peer.Close` between test and close. `mu` is
`h.mu` where it is held across two steps. `label` is `Peer.Name`, which a Hello
changes from a bootstrap label to `remote`; `dialled` is the name of the dial
loop. A parked peer has a `timer`: armed, fired, its function between its two
steps, done. `parked` and `intime` are history. A panic stops everything
(`crashed`).

### SubscriberSync, MCSubscriberSync, SubscriberSyncProofs

Radios and groups: `subs[c][i]` is base station `c`'s record of radio `i`;
`issis[<<n, p>>]` and `aff[<<n, p>>]` are the tables of server `n`'s peer object
for `p`. `OnMessage` is the whole path of a subscriber message (apply, announce);
`OnDisconnect` a base station that goes away; `SyncSnapshot` and `SyncSend` an
anti-entropy round, whose snapshot may be stale when its entries are sent;
`HandleUpdate` and `HandleSync` the receiving side; `Break` and `Return` a lost
connection that comes back, with the table kept or forgotten according to the
redemption window. Receiving is one step here and there is one stream per
direction; the finer interleavings are `MeshRouter`'s. `AffiliateUpdate` and the
deregister action exist in the protocol, but nothing in the program sends them.

### PrivateCall, FederationProofs

One radio-to-radio call between servers `A` and `B`; every table is keyed by the
call's uuid, so one call is enough. `phone` is what the two base stations see,
`out` what they sent and the server has not read. At each server `pc` walks the
base station's read loop through `onCallControlFromClient`: look up, track, send
the start, bind, reply, untrack, end, one step per lock; `rd[s]` walks the read
loop of federation stream `s` through `handleCallStart` (ring, track, bind),
`handleCallEnd` (release, untrack, unbind) and `handleCallReply`. `calls` is
`Service.calls`, `priv` is `Hub.privateCalls`. `Conn` is one connection or two;
the code sends a start on the stream `FindPeerForISSI` meets first in a map and
everything else on the outgoing stream, so with two the messages of a call may
overtake each other.

Base stations are free in what they do when. The called one may accept, answer or
refuse while the handler that delivered the setup has not tracked or bound the call
yet, and its ConnectRequest may repeat the route of the setup (`"echoed"`) or name the
answerer as its source (`"connect"`), which is what the repository's own proxy bridge
sends (`proxy_bridge.go:352-357`). `Entered` says what the table then holds: a known
call keeps its endpoints, an unknown one gets those of the request, and a request that
names the answerer looks like a setup of a call in the other direction, which rings the
caller back (`"rungBack"`, not followed further). Voice frames only read the tables.

### ProxyBridge, BridgedPair, MCProxyBridge, ProxyBridgeProofs

The bridge that accepts a private call and places a second one. A call `k` has
legs `<<k, "in">>` and `<<k, "out">>`, both keys of `sessions`. The three
goroutines (read loop, watchdog, `Stop`) work on the table under the lock and send
after it: `todo[p]` is what `p` still has to send, `send` the plane's queue.
`HandleInboundSetup`, `HandleOutboundAccept`, `HandleOutboundConnect` and
`HandleLegFailure` are the handlers; `DialTimeout` and `IdleTimeout` one session of
a sweep; `Flap` and `Reconnect` the plane's session loop, with the server's
`OnDisconnect` that ends outbound legs; `Cancel` and `Stop` the shut-down. Radios
are the environment: they may hang up, answer or refuse whenever their state
allows it. Voice frames appear through the idle time-out they put off, which may
therefore happen at any time or never.

`BridgedPair` is what the bridge promises the two radios of each call, without
queues, messages or time-outs: a call is taken once and within the cap; a radio is
rung or told that it rings only for a call that was taken; the caller is connected
only to a target that has picked up, and the target only to a caller that is or was
connected; nobody goes back. `RefinesPair` maps `ProxyBridge` to it: the radios are
the radios, and a call is open while it is in `sessions` and closed when it is not
any more. That the second half of the promise holds depends on the order of the two
sends of `handleOutboundConnect` (`AnswerWords`), which its comment numbers 1 and 2
without saying that it matters.

### GroupCall, MCGroupCall, FederationProofs

One group call across the federation, from the speaker's base station or an
injecting bridge (`source`) to the radios of every server. At the talker's server
`at` walks through starting, speaking, pausing and ending; at the others the read
loop of each link (`rd`, `cur`) walks through `handleCallStart` (tell the radios,
`Track`, `Note`, `Relay`) and `handleCallEnd` (tell, `Untrack`, `Forget`,
`RelayEnd`), split at `Service.callMu` and `Hub.callMu`. `New` is the dedup test,
which is one step here (its race is `MeshRouter`'s). `stray` collects servers whose
radios got voice outside a call, `crashed` those that wrote into a nil map.

### PeerDiscovery, MCPeerDiscovery

`known` is `knownPeers`, `loops` the dial loops, `conns` the connections with the
messages of both directions. `Connect` is a dial with its Hello, `HelloBack` and
`HelloOut` the two ends of `handleHello` (rename, exchange), `HandlePeerExchange`
adds what is new and starts loops. Registration details are `PeerRegistry`'s.

### BrewSession, BrewAdmission, BrewServerProofs

`BrewSession` has the read loop, the write loop and the channel of each client, the
table of clients, and broadcasts: `Read` and `FedCast` take the snapshot, `Enqueue`
sends to one of it, `Unregister`, `CloseClient` and `Notify` are the three parts of
`disconnectClient`. A send on a closed channel panics; net/http recovers it in a
read loop, nobody does in a goroutine of the federation (`crashed`).
`BrewAdmission` has challenges, digests, tokens, the upgrade and the rate limiter,
with the remote verifier's answer as a step of its own. The limiter appends the time
of each failure, so the attempts that left its window are the first of the list, and
`Failure` drops as many (`InOrder` is part of what is checked). Digests are taken to be
unforgeable. `IsBanned` is FALSE for everybody, as it is in the code.

### CallControl, CallControlProofs

Calls inside one server: radios `From[id]` that call `To[id]`: a radio, a group or
the virtual circuit. `job` walks a client's read loop through
`onCallControlFromClient` (`Lookup`, `Track`, `Virtual`, `Forward`, `Untrack`) and
through `OnDisconnect` (`Disconnect`, `Tell`). `tracked` is `calls`, `shown` the
last-heard list.

### SdsRouting, SdsEnvelope, SdsCodec, BrewProtocol, MessagingProofs

`SdsRouting` is where a short data message goes: explicit addresses, a hint that is
younger than its TTL, or the only possible destination; reading a hint and removing
an old one are two steps. `SdsEnvelope` has the addresses in front of a message,
`SdsCodec` the two layouts of call-outs. `BrewProtocol` is the parser and the
builder of every packet: `Layout` gives the fields of a call-control payload by state
and length, `ParseFrame` and `BuildFrame` lengths and kept bytes; a packet goes
through `MaxHops` servers, each of which parses it and builds it anew.

### StationStore

Two servers' registries, stations pushed (with a `last_seen` of the agent's or without) or
linked anywhere, updates and periodic syncs in a channel that loses and reorders, `Reap`,
`Restart` from disk. `LinkOrCreate` is two steps with a copy of the row between them.
`retired` is history: stations deleted and not pushed since.

### Callout

Requests of operators (`Allocate` or `Forced`, then `Note`, then `NoteBoard`, each
under its own lock), acknowledgements and call-outs of radios, of which either may clear,
and their plain texts. `threads` are the manager's threads, each with what the desk sent
last as a history, and `age` their order by the time of the last update; `board` and
`replies` are the states shown on the dashboard, `unnoted` is history. A request whose bytes
the operator gives himself (`payload_hex`) is not modelled.

### PolledBuffers

Four small machines, of which `which` selects one: the activity ring with the
dashboard's two-part snapshot, a mailbox that is polled, consumed, deleted and
created again, the last-heard list with its index, and the pool of virtual numbers.

### EchoBridge, DmrBridge, WebRadio, ZelloBridge, ModulesProofs

Modules that connect as base stations. `EchoBridge`: captures, the goroutines that
take them (`sleeping`, `carrying`), the queue and the player. `DmrBridge`: calls of
two networks and their mirrors; `job` is a message between the two lock sections of
`handleCall`; networks in `Echoes` send the bridge its own messages back; `dropped`
is history: mirrors that lost their entry without a release. `WebRadio`: `at` walks
`runLoop` through sessions; `cause` is the cancel cause, of which the first counts;
`command` an operator's request that holds a session's cancel function, perhaps
after the session has ended; `lines` what ffmpeg printed and nobody has read yet.
`ZelloBridge`: `at` walks `loop` through sessions, whose clients are numbered; `job` is
the plane's read loop between the lock sections of `ensureOutboundStream` and
`stopOutboundCall`, with the client it has read; `leaving` is what `cleanupSession` has
taken out of the tables and not yet released; `lost` is history: streams that are open
at Zello although the request to stop them failed, or the one to start them did, or was
answered too late; a stream is a pair of its session and a
number, so that the model can tell streams of different sessions apart; a transcoder is
a number of packets which its goroutine sends later, perhaps after `Close`.

### ServerParts, FederationParts, ModuleParts

Components that share no state, side by side under names of their own, with one
property for each. `ServerParts` has the stations (`Sta`), sessions (`Ses`), admission
(`Adm`), calls (`Cal`), routes of short data (`Sds`), their bytes (`Cod`) and the polled
buffers (`Buf`); `FederationParts` has the peer registry (`Reg`), private calls (`Prv`) and group
calls (`Grp`); `ModuleParts` the echo
(`Ech`), the DMR bridge (`Dmr`), the web radio (`Rad`) and Zello (`Zel`). The runs
`server_parts`, `federation` and `modules` check these properties on a small instance, and
the proof modules, which extend the same three modules, prove them for every instance:
both speak of the same formula.

### MCFederation, MCDirectory, MCServer, MCModules

Harnesses that run several components which share no state beyond what is described in
their modules; `MCServer` extends `ServerParts`, `MCFederation` extends `FederationParts`
and `MCModules` extends `ModuleParts`. `part` says which component a behaviour is about;
the others stand still. Behaviours are exactly those of the components, under the
components' own fairness; a property that names a part is about the behaviours of that
part.

## 3. Runs

| run | instance | states | shows |
|---|---|---|---|
| `federation` | mesh: 4 servers, two of them linked twice, no loss; again 3 servers all linked, queues of 1, lost connections, late copies; registry: 2 connections, one remote, one label; private call: one connection; group call: a line of 3 servers, 2 spurts | 28334 | `LoopFree`, `HopBudget`, `OncePerReadLoop`, `EveryoneHears`, `RefinesFlood`; `FloodWithstands`: loop freedom, hop budget, refinement and the end of every flood also under loss and late copies; `TablesSound` (`SlotsLive`, `ParkedHasTimer`), `RedeemedIntact`, `PeersResolve` (`EvictedLeaves`, `ParkedResolves`); `TalkingBound`, `GroupSound` (`VoiceInCall`: no radio hears voice outside a call and no server panics; `CallsAgree`: at rest all servers are in the call or none), `PrivateFollows` (`HangUpReaches`, `EndCarried`, `AnswerCarried`); `GroupFollows`: start and end reach the radios of every server and leave no entry (voice goes to direct peers only, section 5) |
| `directory` | a line of 3 servers, 2 base stations, one radio, one group, 2 messages, 1 lost connection; 3 servers that each configure the next; 2 that configure each other, 2 lost connections | 91111 | `TablesTrue` (`OriginTrue`); `RegisteredSpreads`: who stays registered becomes known everywhere with its groups; `Discovery`: everybody is connected in the end, nobody dialled twice |
| `server_parts` | 1 station on 2 servers; 2 stations on one that compete for a radio; 2 sessions, queue of 1, 2 broadcasts; 2 users, 2 nonces, 1 token; 2 calls of 2 base stations, private or group and echo; 1 radio at 2 base stations; 2 operators, 3 messages; buffers of 2; catalogues of call-outs and packets | 159102 | `StationsSound`, `StationDeletes`; `SessionsSound`, `BrokenEnds`; `AdmissionSound`; `Anchored`, `ShownLive`, `HangUpHeard`; `FreshHintKept`; `SdsArrives`; `RelayFaithful`; `CalloutsSound`; `BuffersSound` |
| `modules` | one bridged call, 1 lost connection, a shut-down; echo of one call, 2 frames, queue of 1; 2 transmissions of which one passes the gate, an echoing network; 2 sources, a call renewed after 3 frames, 3 events; Zello: one call, streams one after another, 4 events | 146526 | `EchoSound`: a frame is in one place, so it is heard once, and the talkgroup is free between playbacks; `MirrorsSound`; `RadioSound`; `ZelloSound`: calls and streams belong to each other and to their session; `LegsEnd`: when one leg ends so does the other, no call rings for ever; `ModulesSettle`: playbacks end, networks fall silent, commands and mutes are heeded and hanging streams left, Zello's streams end with the speaker, the session and Stop |
| `proxy_two` | two calls at a cap of one; or one call and a lost connection | 2249555 | `TableSound` (types, the pairing of keys, `CapHolds`), `NoEarlyConnect`, `NoOrphan`, `RefinesPair` |
| `registry_close` | 2 connections | violation | `ClosedOnce` fails: finding 1 |
| `subs_forget` | 3 servers, all linked, one base station, 3 messages | violation | `DeregisteredForgotten` fails: finding 2 |
| `private_paths` | two connections | violation | `HangUpReaches` fails: finding 3 |
| `group_mesh` | 3 servers, all linked | violation | `EndReaches` fails: finding 4 |
| `discovery_twice` | 3 servers that each configure the next, 1 lost connection | violation | `DialledOnce` fails: finding 5 |
| `station_delete` | a station pushed at one server and deleted at the other | violation | `DeletedStaysGone` fails: finding 6 |
| `callout_text` | one operator, one radio of the group | violation | `TextRelayed` fails: finding 7 |

Types are part of the runs: within the first property of their part, of the extended
component as `TypeOK` where no such property has them. Deadlock is not checked: all of
these systems may legitimately come to rest (a flood has died, a call is over).

### Bounds, and why they are enough

* *Mesh*: one message id per run. Nothing in the router relates two ids, except
  that they compete for room in a queue; with `SendBuf = 1` a copy may be dropped
  anyway. `MaxTTL = 3` makes TTL run out on the longest paths of these meshes; the
  code's 10 does not in a mesh of three or four. The timely runs use `SendBuf = 2`,
  which no stream of them fills, as 256 is meant to be. The proofs (section 6) are
  for every mesh, `MaxTTL` and `SendBuf`.
* *Registry*: two connections are what registration races are about: a
  replacement and the one it replaces, or two dial loops. Each is made once: a third
  connection to the same remote, and so a second redemption, is left to the proofs of
  section 6, which are for any number of connections.
* *Subscribers*: `MaxMsgs` and `MaxBreaks` bound what the environment does;
  anti-entropy is unbounded. One message id means that announcements follow one
  another; copies of one announcement still overtake each other on different links,
  and a stale anti-entropy entry still follows a newer message.
* *Private call*: no bound at all; the states are finite.
* *Proxy*: `MaxFlaps` bounds lost connections. The plane's queue (1024) is taken to
  be long enough. `Sent` keeps a time-out from taking a session whose opening
  messages have not been enqueued yet: two channel sends take less than 10 s.
  `CallsOrLoss` explores two calls without a lost connection, and after one only a
  single call: the server's clean-up treats each leg by itself.
* *Group call*: `MaxSpurts = 2` lets a call end and be paused and taken up again. The
  line has no two paths between servers; what goes wrong where there are two is
  finding 4.
* *Discovery*: `MaxBreaks` bounds lost connections. With three servers in a chain and
  a break finding 5 appears, so the passing run breaks only the pair.
* *Sessions*: two clients are a sender and a receiver that may both end; a queue of 1
  fills.
* *Admission*: one token for two users, `TTL` 1 in 3 ticks: expiry before and after
  use both happen.
* *Call control*: one call that is private or to the group beside one to the echo.
  Entries are keyed by call, so two calls meet only at radios and sessions.
* *Call-outs*: a counter of 3 of which the old layout carries 2 numbers, so that both
  wrap within the three messages.
* *Buffers*: rings of 2 overflow within the 5 events.
* *Protocol and codec*: every call state with lengths at, below and above each
  boundary of the parser and with zero bytes in each field; frames whose stated length
  is below, at and above the real one, and at 16 bits' limit.
* *DMR*: two transmissions from one side and an echoing far side make both read loops
  work; the echo that comes after the release needs one call.
* *Web radio*: three events out of commands, mutes, hangs and reports reach every pair
  of causes; three frames per call make it begin anew.
* *Zello*: four events are a call with a frame, a lost session and another frame, or a
  talk with audio on either side of its stop. Frames left in the channels die with
  the session.

### Fairness

Weak fairness of read loops, write loops, timers and redialling: these are
goroutines that are always runnable when they have something to do, and
`maintainOutgoingPeer` and `BrewModulePlane.Run` retry without end. In
`SubscriberSync` the anti-entropy round has strong fairness: in the model it needs
one of a few message ids, which others may hold now and then; in the code it needs
nothing and its ticker fires for ever. Nothing is assumed of radios and base
stations, which may never answer, or of the idle time-out, since two radios may
talk for ever. The dial time-out is fair: `sweep` runs every few seconds and the
dial time of a session only grows.

The same weak fairness is assumed of the session, write and playback goroutines of the
newer modules. Where a goroutine shares a mutex with others for a step (`PeerRegistry`),
or where a message may be lost any number of times and is sent again for ever
(`StationStore.Receive`), fairness is strong. The watchdog of the web radio is a ticker,
and a process that was killed ends. Requests to Zello are answered or time out
(`DefaultTimeout`), and Go's `select` does not pass over a ready channel for ever. A
stream may hang for ever and a speaker need not stop.

## 4. Findings

1. **`registry_close`** (`federation/peer.go:329`). `Peer.Close` tests a channel and
   then closes it; the goroutine that evicts and the peer's own may both pass the
   test, and the second close panics.
2. **`subs_forget`** (`service/federation_bridge.go:133`). Nothing ever tells the mesh
   that a radio is gone; the comment on anti-entropy promises convergence to the
   complete local state.
3. **`private_paths`** (`federation/hub.go:1620`). With two connections a CallEnd may
   take another stream than its CallStart, arrive first and be lost; the called
   radio rings for ever. The comment promises the same path.
4. **`group_mesh`** (`federation/hub.go:1085`). The relayed end of a group call may
   be handled before its direct start; the start then opens the call, and the direct
   end is dropped as a duplicate. The call stays open on that server.
5. **`discovery_twice`** (`federation/hub.go:1426`). Bootstrap labels are gossiped;
   `renamePeer` then removes another server's entry by label, and its URL is dialled
   again. The two loops evict each other.
6. **`station_delete`** (`service/stations.go:271`). A delete on a server that did not
   create the row never reaches the one that did, whose next sync revives it.
7. **`callout_text`** (`service/callout_manager.go:278`). The comment at
   `service.go:614-616` says that a plain text is relayed as an answer "while a callout
   is active for its group". The search passes over every call-out whose source is not
   the sending radio, so the desk's call-outs are never answered this way.

## 5. Limits of the code the models show, without a run of their own

For most of these no document of the repository promises otherwise; where one does, the
item quotes it.

* A table redeemed by `renamePeer` may replace one that has been filled since the
  connection was made (`hub.go:1368-1371`): the read loop runs before the Hello.
* The relayed copy of a registration may overtake the direct one. `OriginTrue`
  holds, but the radio is entered under the relay, and `FindPeerForISSI` then routes
  its calls there (`hub.go:778`, `1143`).
* The dedup test and the mark of `ShouldProcess` are two lock sections (`mesh.go:68-73`):
  two read loops with copies of one message may both act on it, where `README.md:138`
  speaks of "msg-ID dedup". What does hold, and is proved, is `OncePerReadLoop`.
* An accept, reject or answer that is quicker than the steps from ringing the radio to
  binding the call (`federation_bridge.go:221-242`, `hub.go:815`) finds the call untracked
  or unbound and is dropped, or stays on its server. The comment of `OnPeerCallReply`
  (`federation_bridge.go:279-288`) promises that the originator "sees the same state
  transition it would for a non-federated call" and that without this path the
  originating proxy "never learns the target picked up": that is then what happens.
  `AnswerCarried` and `EndCarried` speak of answers that find the call.
* An answer that names the answerer as its source and is read before the call is
  tracked, or after its end, tracks it anew as a call of its own and rings the caller back
  (`service.go:371`, `413-459`). A caller's entry such a start has overwritten is one of
  the federation, which `OnDisconnect` does not end if the caller's base station is lost.
* `privateCalls` entries are removed only by the end of the call; one bound after
  the end was handled stays (`hub.go:815`, `1609`).
* `OnDisconnect` ends the calls a base station started, not those it was called in.
* When the proxy bridge loses its connection, or is shut down, the server ends the
  outbound legs; the caller may be left talking to nobody until the idle time-out.
  That is why `BothLegsEnd` and `NoOrphan` speak of unbroken runs.
* Servers that all configure the same one do not necessarily get to know each other:
  its PeerExchange is sent once, in answer to a Hello (`hub.go:728`), and may come
  before the others' Hellos. A server without `FEDERATION_SELF_URL` may learn its own
  URL under another label and dial itself.
* On a full mesh the end of a group call handled between the two lock sections of
  `handleCallStart` leaves a nil map that is then written: a panic (`hub.go:846`).
  Voice goes to direct peers only, so that servers behind a relay hear nothing; voice
  of an injected call is not federated.
* A broadcast whose snapshot holds a client that is then closed sends on a closed
  channel; in a goroutine of the federation this ends the process (`client.go:52`).
  `SessionsSound` is about the table, not about snapshots.
* A nonce or a token that is never presented stays in its map (`server.go:547`, `581`).
* A short data message with addresses beyond the length it states loses its last
  eight bytes at a server that does not recognise them (`protocol.go:349`,
  `service.go:661`); one cut to two bytes is taken for a status. Addresses whose
  lowest byte looks like a protocol number are not recognised.
* The release of a virtual circuit leaves its last-heard entry active.
* `LinkOrCreate` writes back a copy of a row read in an earlier lock section.
* A dashboard request that fails after it took a number leaves the route on it. A radio's
  call-out message that clears (function "clear" or the end flag) marks the desk's thread
  cleared and leaves `activeByRoute` alone (`callout_manager.go:235`): the next follow-up
  goes to a call-out the radio has cleared. `RouteIsOpen` is about what operators ended.
* The echo plays captures in the order they are taken, which need not be that of the
  transmissions; frames that come after a capture was taken start another one, which
  no one ends if the release has passed.
* A DMR call that is keyed again, or lasts more than 60 s, loses the entry of its
  mirror without a release (`dmrbridge/bridge.go:122`, `205`): the mirror stays open on
  the other network. An echo that comes after the release is mirrored back once.
* The web radio's silence flag outlives its session: a new session may be gated as
  silent until ffmpeg reports an end of silence (`webradio_telemetry.go:78`). If the
  encoder ends by itself, `runSession` waits for an ffmpeg nobody kills: only the
  watchdog, if configured, or a command ends it (`webradio_bridge.go:367-376`). A source
  that ends, rather than hangs, is tried again and not rotated.
* A Zello transcoder's goroutine may send after `Close`: a packet for a stream that was
  just stopped, or voice for a group call that was just released. Its error is kept for
  the rest of the call, whose later frames are dropped. "zello logon success" is logged
  without an answer (`zello_bridge.go:195`). An unwanted stream is stopped while `mu` is
  held (`zello_bridge.go:586`): everything else waits for Zello. A stream whose StartStream timed
  out after Zello had opened it (`zello_bridge.go:577-581`), or whose StopStream failed
  (`672-678`, `586`), is forgotten: nothing closes it before the session ends.
  `StreamsBacked` and `Silent` except exactly these streams, `StopReturns` none.
* `BroadcastCallStart` tells every peer, where its comment (`hub.go:1003`) speaks of
  peers with subscribers on the group: more than promised, never less.
* Snapshots of attachments are broadcast by two goroutines and may arrive in the other
  order (`attachment_control.go`).

## 6. Proofs

Checked by TLAPS, for every value of the constants that satisfies the modules'
named assumptions. What is proved of a safety property TLC also checks on the
instances of section 3.

**`MeshRouterProofs`**, from `MeshConstants` (streams join different servers,
`MaxTTL` and `SendBuf` at least 1) and `NoMsgAssumption`:

* `TypeCorrect`.
* `CopiesAlwaysOK`, from which `LoopFreedom` and `HopBudgetHolds` follow. `LoopFree`
  alone is not inductive: that a relayed copy does not return rests on its path
  ending at its sender and holding no server twice, and the TTL rests on the
  path's length. `CopiesOK` says this of each copy, queued or in a handler's hands.
  `CopiesStep` says once where a copy can come from.
* `DedupHolds`: `OncePerReadLoop` if no copy is late. `DedupInv` adds that what a
  read loop has acted on stays remembered while copies are under way and that what
  it holds it has not acted on; `StartedInv` adds that an id under way was started.
* `MeshRefinesFlood`: each step of the mesh is a step or a stutter of `MeshFlood`
  under the mapping in `MeshRouter`. `SourceInv` supplies what the abstract step
  needs: the sender of a copy has the message, and the origins agree.

**`SubscriberSyncProofs`**, from `SyncConstants` (links are symmetric and join
different servers, each base station has a home):

* `SyncTypeCorrect`: also that a table has groups only for radios it has.
* `TablesAlwaysTrue`: `TablesTrue`, which is `OriginTrue` and the types. `OriginTrue`
  speaks of tables, which are written from messages, which are made from other messages,
  from rounds and from base stations' records; `ClaimsTrue` and `HeldTrue` carry the same
  fact through all of these.

**`ProxyBridgeProofs`**, from `ProxyConstants` (finitely many calls, a cap of at
least 1):

* `ProxyTypeCorrect`: also that a call is in the table under both keys or none.
* `ConnectAfterAnswer`: `NoEarlyConnect`, lost connections and shut-down included.
  `NoEarlyWord` carries it along the way of an answer: received, to be sent, queued;
  `PickedStays` says that picking up is never undone.
* `CapAlwaysHolds`: `CapHolds`. By the pairing of keys `KeysAreTwiceCalls` shows that
  what `uniqueSessionCountLocked` counts is half of the map's size. `TableAlwaysSound`
  joins both: `TableSound`.
* `BridgeRefinesPair`: each step of the bridge is a step or a stutter of `BridgedPair`
  (`PromiseStep`, `DeliverKept`). `PromiseInv` supplies the guards of the abstract steps:
  `NoEarlyWord` that of the caller's connection; `CallerFirst` that of the target's, which
  says of the target's word, still to be sent or at any position of the queue, that the
  caller's is before it, or the caller has been told, or the target's leg is gone (which
  is what a lost connection does to a target that has picked up, so that the loss of the
  caller's word alone breaks nothing); `SetUpOnce` that a call is taken once: its setup is
  under way at one position at most, and not after it was taken; `OnlyTaken` that nobody
  is rung or told of a call that was not taken. `SameCount` says that the cardinality the
  abstract module counts with is that of `FiniteSets`.
* `NoOrphanLegs`: `NoOrphan`. A leg that is not in the table has its release *behind*
  everything in the queue that would still open it: `LetGo` says so of every position
  of the queue. `LoopKnows`: what the read loop still has to send and would open a leg
  is of a call in the table, since time-outs leave calls alone whose opening words are
  not enqueued yet (`Sent`). `FailuresReal`: a failure comes from a radio that has left,
  which is why the leg that failed needs no release.

**`FederationProofs`**, the hub's registry and both kinds of calls. From
`RegistryConstants` (there is a remote, and no connection is called `NoConn`):

* `TablesAlwaysSound`: `TablesSound`. A peer is taken out by the goroutine whose slot it
  is in, so the slots are sound only together with `EvictReady`: between the test and the
  close of an eviction, which holds `h.mu`, the evicted peer stays in its slot.
* `RedemptionIntact`: `RedeemedIntact`. `ParkedKept` keeps a parked table as it was until
  its timer has run, and `AdoptedApart` says that a peer is adopted from by one other at
  most, is finished, in no slot, and if redeemed in time has no timer left.

From `Tree` (each server but the talker's has one link towards it, on which the distance
falls by one, and every link is one of these or its reverse):

* `GroupAlwaysSound`: `GroupSound`, types included, for any tree of servers and any number
  of spurts. `VoiceInCall` speaks of one server, but the start that lets it hear voice may
  still be at any server on the way. `GroupInv` counts the starts and ends each server has
  taken from its link (`got`): `Chain` says that a stream leads from the count of its
  receiver to that of its sender with none missing, `NodeWell` reads a server's tables
  off its count and the step at which its read loop stands, and `QuietBack` that nothing
  runs towards the talker, which the copies' paths show (`PathWell`). Where servers meet
  over two paths there is no such order: `group_mesh` shows the call that comes to life
  after its end.

From `CallConstants` (the caller's server dialled connection 1):

* `TalkingAlwaysBound`: `TalkingBound`, types included, for any connections between the two
  servers, for answers by either route and for answers that come before the call is
  tracked or bound. `Held` is the heart of it: while neither radio has ended, the caller's
  server has the call from the moment it has read the setup and has it bound from the
  moment it sent the start; the other has it once it works on a connect request, and has
  it bound when a connect is on its way or the caller is through. What could take a table
  entry away again is excluded by `Staying` (a radio that has not ended has sent nothing
  that ends the call) and by `OneStart` (the call's start is at one place, the called
  radio is idle until it arrives, so a radio that has ended stays so). `Roles` says that
  only the caller sends a setup and only the called radio answers, `Working` what a read
  loop holds at its later stages.

**`BrewServerProofs`**, three modules of the server, each from its own constants' sets:

* `AdmissionAlwaysSound` (`AdmissionConstants`): a token opens one session at most, under
  the name that was proven at most a TTL before. `TokensUnused` (a token in the table has
  opened nothing) and `UpgradesApart` (requests under way hold different tokens) make it
  inductive. `LimiterStep` shows that the rate limiter's attempts stay in the order of
  time, which its cut relies on.
* `SessionsAlwaysSound` (`SessionConstants`): `SessionsSound`.
* `StationsAlwaysSound` (`StationConstants`): types, `IndexSound` and `SeenForward`, for
  any mix of pushes, deletes, reloads and late updates. `SeenPast`, no `last_seen` is
  ahead of the clock, is what carries `SeenForward`.

**`CallControlProofs`**, from `CallConstants`:

* `CallsTyped`.
* `AlwaysAnchored`: `Anchored`, for any number of base stations and calls. What an answer
  is given of the table is read in one lock section and written in another: `JobOK` says
  of each read loop that what it has looked up is still right, or the call has ended;
  `EntriesOK`, `PhonesOK` and `UplinksOK` say the same of the table, of the radios and of
  messages under way.
* `AlwaysShownLive`: `ShownLive`, types included. `Closing` names what will close the
  entry of a call whose caller has left (a lost link, a message that ends the call, a read
  loop that releases it) and that the call's opening comes before its end.

**`MessagingProofs`**, short data, the buffers and the packets of the protocol:

* `FreshHintsKept` (`RoutingConstants`): `FreshHintKept`, an action property. A read loop
  that is about to remove a hint has seen one too old, and the hint a step later may be
  another: what the loop holds and the hint it compares with are in `TaskOK`.
* `BuffersAlwaysSound` (`BufferConstants`): `BuffersSound`, for every size of ring,
  mailbox, list and pool. `Sorted` makes the part of a buffer after a number a suffix
  (`BeforeSplits`); the pool's search for a free number is the least of a set, which
  exists by well-foundedness (`Least`).
* `CalloutsArrive` (`CodecConstants`): `SdsArrives`, for every call-out and text, where the
  run has a catalogue. `NewLayout` and `OldLayout` undo the builder octet by octet. The
  old layout's optional control byte is never taken for text because it has no bit that
  a letter has, and its scheme never for the new layout's flag; `WrappedRead` finds the
  addresses unless the source's lowest byte looks like a protocol. `CodecConstants` says
  that fields fit the builder's masks and that the destination is not 0, as
  `dashboard_ui.go:196` requires.
* `CalloutsAlwaysSound` (`CalloutConstants`): `CalloutsSound`, types and an action property
  included, for any number of operators, radios and numbers. A number is chosen in one lock
  section and noted in another; `RouteIsOpen` holds at all times because it names the two
  places where a number that is not noted can be, with a request that is being built or
  with one that failed (`RouteStays`). `ThreadUpdated` shows that no two threads were
  updated last.
* `RelayAlwaysFaithful` (`ProtocolConstants`: packets of any bytes, a type below 256, a
  length below 65536; strings of a service message hold no zero; the call's addresses are
  any numbers): `RelayFaithful`, for any number of servers. What a server understood is
  compared with what the first one did, so `RelayInv` speaks of the packet under way: it
  will be understood as something the first message leads to (`Seen`). For everything but
  short data that is the first message (`Settled`), because parsing what was built gives
  back what was parsed: `LayoutWritten` says it of any fields that stand one behind
  the other, whatever follows them, `LayoutLaid` that the fields of every payload do, and
  `FieldWritten` that each kind of field is read as it was written, names cut at a zero
  included. A short data message changes with each server, which puts addresses in front
  and keeps the length: `SdsForwarded` shows what the next one receives, `SdsAgain` that
  recognised addresses are recognised again, so that from the second server on nothing
  is lost.

**`ModulesProofs`**, the modules that are Brew clients, for any number of calls, frames,
sources and events:

* `RadioAlwaysSound` (`RadioConstants`): `RadioSound`.
* `EchoAlwaysSound` (`EchoConstants`): `EchoSound`. That a frame is heard once is the end
  of its way from a capture through a goroutine, the queue and the player; `EchoOnce`
  therefore says of all these places at once that a frame is in one of them, at one
  position. `Comes` says what a step does to them: each frame that is somewhere after it
  comes from a place of its own before it (`ComesOr`: or is the one new frame), and
  `Joined` and `StillApart` that no frame is then in two places.
* `ZelloAlwaysSound` (`ZelloConstants`): `ZelloSound`. `InInv` adds that the start of a
  stream is read once and before the stream is followed, `JobInv` what the read loop still
  knows when it has the lock back: a stream Zello has just given is entered for a call
  that has none, of the client it was made with; what is about to be deleted is not open
  any more, or a request for it failed (`lost`). `NoneWithoutClient` is why nothing is
  lost when `cleanupSession` finds no client.
* `MirrorsAlwaysSound` (`DmrConstants`: identifiers of radios' calls are none of the
  bridge's): `MirrorsSound`. `PlaneWell` says of every position of a plane's queue what the
  property says of its head: voice stands after the beginning of its mirror and before
  the release, and a mirror that will begin is followed or will be released; `TablesWell`
  that calls have mirrors of their own and that what a read loop has found not to be the
  bridge's own still is not, when the other read loop has made more mirrors.

The sets of assumptions that name a module's constants only (`RegistryConstants`,
`SessionConstants`, ...) are hypotheses of the theorems; `MCFederation`, `MCServer` and
`MCModules` assume them of their instances, where TLC evaluates them. The last five
modules extend `FederationParts`, `ServerParts` or `ModuleParts`: a theorem about
`Cal!Spec`, say, is about the instance of `CallControl` that the run `server_parts`
checks, with its constants left open.

Only model-checked, and why:

* all liveness properties: liveness under fairness is out of the prover's reach;
* everything about the modules without a proof module.

## 7. Not modelled

* *Zello transcoders*: external programs and signal processing.
* *Netstack bridge*: packet data through a user-space network stack; the state that
  matters is the library's.
* *Attachment control*: a snapshot of groups sent as JSON.
* *Positions, coverage, APRS, RadioID, MOTD, pages, telemetry, configuration*: files,
  SQL, HTTP and text.
* *Voice codec*: signal processing. *Protobuf code*: generated.
* Of the modelled parts: `AffiliateUpdate` and the federated deregister action, which
  nothing sends; discovery and digest authentication of the module plane; ping timers;
  HTTP wording; text encodings and location reports of short data; single voice frames
  inside one server, which only read the tables; the filter chain, the status page and
  the repacking of codec frames of the web radio; talkgroups that are not bridged.

## 8. Plan

1. Abstract specifications: a directory that `SubscriberSync` approaches, a call that
   `PrivateCall` and `GroupCall` implement.
2. Composition of `BrewSession` with `CallControl`: handlers that run while the session
   of the receiver is being closed.
