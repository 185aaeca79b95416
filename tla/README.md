# PicoLimbo in TLA+

PicoLimbo is a Minecraft *limbo* server: it accepts players of any version of
the game, shows a status page, takes players through login (with the
forwarding modes of proxies and the handshake of Forge), and keeps them in a
world that is empty or made of a schematic. This directory models it in two
halves. One is the control: the life of a connection, the handlers that drive
the protocol, the shared counter of players, the timers, the framing of packets,
the recording of an upstream's Forge handshake, the cache of its status and the
state of a player in the world. The other is what a player is shown: from the
configuration file, the schematic and the data of the registries to the packets
of a join, in the form each version of the game reads. TLC checks the models on
small instances, and TLAPS proves the central results for every instance.

The reference is the code, read with its tests and docs. Paths below are
relative to `src/`.

## The system

| Component | State | Operations | Talks to |
|---|---|---|---|
| Connection task (`pico_limbo/src/server/network.rs`, `client_data.rs`) | packet stream, client state, two timers, `was_in_play_state` | accept, read a packet or serve a timer, process a packet, kick, close | one client, the handlers, the shared `ServerState` behind an `RwLock` |
| Client state and handlers (`server/client_state.rs`, `handlers/`) | protocol state, version, identity, kick message, keep-alive status, Forge session, position, flight | one handler per packet: client state and packet to a batch or an error | called by the task; read the configuration |
| Online player count (`server_state/mod.rs`) | `connected_clients` | `increment`, `decrement`, read by the status page | all tasks |
| Packet registry (`server/packet_registry.rs`) | none | which packet is decodable in which state and version | the task |
| Packet stream (`crates/net`) | the compression format | read and write one frame | the socket |
| Timers (`server/controllable_interval.rs`) | an interval behind a Mutex, a `Notify` | `tick`, `set_interval`, `set_interval_at`, `clear_interval` | the task, and whoever sets them |
| Forge status cache (`forge/status_proxy.rs`) | a value, its age, the snapshot fallback | `get` | pings on one side, the upstream server on the other |
| Forge replay (`forge/replay.rs`) | next step, message ids, pending answers | send the next recorded step, match an answer | the handlers of Login |
| Forge recorder (`forge/recorder.rs`, `upstream_client.rs`) | phase, recorded steps, deadline | log into an upstream and record its handshake | the upstream, snapshot files |
| Snapshot files (`forge/snapshot_io.rs`) | a file and a temporary file | load, save by rename | recorder, start-up |
| Play (`handlers/play`) | height, flight abilities | positions, abilities, commands | the client |
| Versions (`crates/protocol_version`) | none | numbers, comparisons, unknown numbers | everything |
| Forwarding (`forwarding/`) | none | parse the hostname, check tokens and signatures | handlers of Handshake and Login |
| Configuration and server state (`configuration/`, `server/start_server.rs`) | the file, `ServerState` | load or create, parse, build | start-up; read by all handlers |
| Schematics and world (`crates/pico_structures`, `crates/blocks_report*`) | the palette, sections, block entities by column, two volumes of light and the queue of their propagation | load, pack, propagate | start-up; read by the chunks |
| Chunks (`minecraft_packets/src/play`, `send_chunks_circularly.rs`) | the place in the spiral | next chunk, its packet in each version | the batch of a join |
| Batch (`server/batch.rs`) | the producers that are left, the one under way | poll | handlers push, the task polls |
| Registries (`pico_registries`, `pico_precomputed_registries`) | tables made when the limbo is built | entries, ids, codecs and tags of a version | login and configuration packets |
| Commands (`commands_packet.rs`, `handlers/play/commands.rs`) | none | build the graph, parse a line | the player |
| NBT (`pico_nbt`) | none | values from and to bytes | schematics, registries, packets |
| Other data (`pico_binutils`, `pico_text_component`, `pico_identifier`) | none | conversions | everything |

What is hard in it:

* **Interleavings.** Every connection is a task of its own; they meet in
  `connected_clients`. Inside one task, `select!` races the read of a packet
  against two timers, and drops the loser wherever it stands.
* **The protocol.** The format of frames and the state of the client change in
  the middle of batches, while the peer makes the same changes on its side when
  it receives them. Login alone has paths for two forwarding styles, Forge, and
  versions with and without a Configuration state.
* **Failure.** Writes fail on connections that are gone; errors are of two
  kinds, one ends the task and the other drops a batch and goes on; a kick is a
  note in the client state that is looked at later.
* **Time.** Keep-alives, a cache with a TTL, an upstream that answers late, a
  recording that must end for the limbo to start.
* **Versions.** A join is some twenty packets, each with other fields in other
  versions, and ids that mean something only together with what was sent before:
  dimensions, biomes and tags with the registries, blocks with a palette. The
  server writes them in one place and the client reads them in another.
* **Laziness.** The packets of a batch are made when their turn comes: an error
  or a wait in the middle, the skin of a profile for one, decides about the rest.
* **Crashes.** The snapshot of a recording is the one thing that outlives the
  process.

`PROJECT.json` lists each of these at the line where it bites (`hazards`) with
the properties that watch it.

## The modules

```
ProtocolVersion <- Handlers <- Connection <- MCConnection        PlayerRoster
                                   ^                                  ^
                           Connection_proofs             (refined) ---+
                                   ^--- Conversation_proofs

ControllableInterval <- ControllableInterval_proofs
ForgeStatusCache, PlayerRoster <- StatusPage <- StatusPage_proofs
PacketFraming <- MCPacketFraming     PlayerMovement <- MCPlayerMovement
     ^--- PacketFraming_proofs             ^--- PlayerMovement_proofs

Nbt, BlockReports <- Schematic <- ServerState ---------+
                        ^                              |
     Light <------ World <- Chunks --------------------+-- JoinPackets <- JoinClient
                                                       |                     ^
                  Nbt <- Registries, Commands ---------+                   Join <- MCJoin
                              ProtocolVersion ---------+                     ^
                                                                        Join_proofs

SnapshotFile (refined) --- Recorder <- MCRecorder
                              ^
                       Recorder_proofs
```

**ProtocolVersion** (`crates/protocol_version`). Versions are their protocol
numbers; `TryFrom` and `From` say what becomes of a number the code has no
name for, with and without `allow_unsupported_versions`.

**Handlers** (`pico_limbo/src/handlers`, `client_state.rs`,
`forge/replay.rs`). Each handler is an operator from a client state, a packet
and the configuration to an outcome `[client_state, batch, error]`: the
`Result<Batch, PacketHandlerError>` of the code together with what it wrote
through `&mut client_state`. An error drops the batch and keeps the writes, as
in the code; that difference matters for kicks. Packets are records of their
type and of the fields the protocol depends on. World data are two packets
(`ConfigurationData`, `PlayData`) that stand for all of them; names, texts,
registries and chunks are left out; identities are reduced to where their UUID
came from (`Profiles`); a hostname to the forwarding data it carries; an answer
of a proxy to whether its signature is good (`key_valid`).

**Connection** (`network.rs`, `client_data.rs`). One record per task: its place
(`pc`) and its locals, with the client state of Handlers. A step of the model is
a stretch of code between two awaits at which another task or the peer can
observe something:

| Action | Code |
|---|---|
| `Accept` | the accept loop spawns `handle_client` |
| `ProcessPacket` | `read_packet`, `decode_packet`, `handle`, and noticing the entry into Play |
| `Increment`, `Decrement` | the two write locks of `ServerState` |
| `WritePacket`, `WriteFails` | one turn of the loop over the batch, with the change of format after SetCompression; it fails when the client has left, or, for a client that is there, when the world has no encoding for its version (`CannotEncode`) |
| `FinishPacket`, `FindKick` | the end of `process_packet`: timers on, or kick |
| `KickClient` | `kick_client` |
| `KeepAliveTick`, `ActionBarTick` | the timer branches of `select!` |
| `ReadEnd`, `Shutdown` | the end of the stream, `client_data.shutdown()` |

The client (`Connect`, `Receive`, `SendInput`, `Leave`) is external: it is the
game, which follows the protocol, keeps its own idea of phase and format,
reports `"Error"` when a frame makes no sense to it, and may leave at any
moment. What it had sent may still arrive, or be lost with it. A slot of
`Clients` is used by one connection after another: a new client connects to it
once the task of the previous one is over.

**PlayerRoster** is the abstract specification of the counter: a set of players
that join and quit one at a time, and a number that moves with it. Connection
implements it with `players <- Players`, the tasks between increment and
decrement.

**ControllableInterval** (`controllable_interval.rs`). Ticks and setters of one
timer, step by step between awaits; a tick may be dropped at any of them
(`Drop`), as `select!` does. A `Notified` future hears every `notify_waiters`
from its creation on. Time is one bit: whether the next tick is due.

**PacketFraming** (`crates/net`). Two ends of a byte stream; bytes are
delivered one at a time; `TimerWins` drops a call of `read_packet` with the
bytes it holds. Bytes are a digit and a continuation bit so that any byte can be
mistaken for a part of a VarInt. Deflate is a bijection on payloads.

**ForgeStatusCache** (`status_proxy.rs`). Concurrent lookups: fast path, fetch,
store or fall back. The upstream (external) changes its forgeData, answers with
or without it, or fails, at any time.

**StatusPage** (`status_request.rs`) composes it with the roster: a request
reads the count, then waits for the lookup, while players come and go.

**PlayerMovement** (`handlers/play`). A player and the server's idea of it,
joined by two channels: positions one way, teleports and abilities the other.
Heights are integers, `FallSpeed` stands for `FALL_SPEED` (3.8855).

**Recorder** (`forge/recorder.rs`, `upstream_client.rs`, `snapshot_io.rs`,
`start_server.rs`). The start of a limbo with the Forge bridge, from
`maybe_record_forge_snapshot` to the moment it serves: `Detect` asks for the
upstream's protocol; `Connect` opens one probe after another of the two lists;
each `Read...` action is one arm of the `match` on the packet's number, first in
Login (`ReadsInLogin`), then in Configuration; `Fail` and `Succeed` are what an
`Err` and an `Ok` of a probe do; `Deadline`, `StreamFails` and `ConnectFails` are
the ways a probe ends without a packet. `Capture` decides whether there is
something to save; `OpenTmp`, `WriteTmp`, `Rename` and `SaveFails` are
`save_snapshot` between its system calls; `LoadFallback` and `LoadSnapshot` the
two reads of the file. `Crash` kills the process anywhere and starts it again,
maybe with another upstream. The upstream (external) sends what a server of its
version and kind sends, under the numbers of the repository's own packet
reports (`data/generated`), and the recorder goes by the numbers it knows. Both
sections of a snapshot are Options, written as sets of at most one element.

**SnapshotFile** is the abstract specification of the file of snapshots: it
changes only at once, and only to a whole recording with something to replay.
Recorder implements it with `stored <- file`.

**Nbt** (`pico_nbt`). Values by tag, their binary form (root name or none, lists
of one type or, from 1.21.5 on, of several), reading it back, and what becomes
of JSON: the narrowest tags its numbers fit in.

**BlockReports** (`crates/blocks_report*`). Every block state of every version
under an internal id, with the mapping from internal ids to those of a version:
a state the version lacks is stone.

**Schematic** (`schematic_file.rs`, `schematic.rs`, `block_entities/`). Files of
Sponge's versions 2 and 3: palette, block data as VarInts, block entities, and
signs in the formats before and since 1.20.

**Light** (`world.rs`, `propagate_light_starlight`). The propagation, one
direction of one entry of the queue per step; it is used for the sky and for the
blocks that shine.

**World** (`world.rs`, `palette.rs`, `pack_direct.rs`). Sections with a palette
of one block, an indirect one, or none, packed into words; the sources of light;
the transparent cells; block entities by column.

**Chunks** (`chunk_data.rs`, `chunk_section.rs`, `palette_container.rs`,
`light_data.rs`, `send_chunks_circularly.rs`). The chunk packet of each version
from 1.16 on, and the spiral, leg by leg.

**Registries** (`pico_registries`, `pico_precomputed_registries`). Which
registries a version has, entries numbered by the order of their files, codecs in
one compound (before 1.20.5) or by entry, tags resolved through other tags.

**Commands**. The graph the client is told and the parser of what it sends, with
aliases, optional arguments and bounds.

**ServerState** (`configuration/`, `start_server.rs`). A file, the defaults of
what it lacks, and the state built of it, with the errors that keep the limbo
from starting.

**JoinPackets** (`configuration/` and `play/` of `minecraft_packets`,
`login_acknowledged`, `send_play_packets`). The packets of both batches with
their fields in each version, as producers: a packet, a future, an iterator.

**JoinClient** is external: the game. It reads each field as its version does,
numbers registry entries itself, resolves ids, unpacks sections, and keeps what
it was told.

**Join** composes them: `Start` loads or writes the file, `LoadWorld` reads the
schematic, `PropagateLight`, `SkyLightIsDone` and `BlockLightIsDone` light it;
`PlayerJoins` and `AcknowledgeConfiguration` begin a batch; `PollSync`,
`PollNext`, `FutureIsReady`, `PollIterator`, `PollChunks` and `IteratorIsDone`
are the branches of `BatchStream::poll_next`, with the packet encoded and written, or
found not to be encodable, in which case the rest of the batch is lost and the
connection goes on (`network.rs`); `PlayerLeaves` and `Stop` end it, and a stopped limbo
starts again on the file it wrote.

`MC*` modules hold the instances. Operators whose comment starts with
*Mutant* are plausible bugs: each property is checked to fail when the mutant
takes the place of the definition it is a variant of. They belong to no
specification.

## What is checked

Passing runs:

| Run | Instance | Shows |
|---|---|---|
| `connection_one` | one slot, 19 configurations, about 50 openings, 1 input, 2 ticks | the client and the server never misunderstand each other (`ClientNeverConfused`, `ServerNeverConfused`); Forge clients get every step before they are let in (`ReplayBeforeSuccess`); nobody kicked is let in or counted; modern forwarding admits the identity the proxy vouched for (`ModernIdentity`); the identity told is the identity kept and never changes; the timers of a player run, but for what a world without an encoding costs it (`PlayersKeptAlive`); who sees the world is counted; every login ends; every departed client is forgotten |
| `connection_two` | two symmetric slots, 2 configurations, 2 openings | `OnlineCountExact`, and the refinement of PlayerRoster, through failed writes, resets, kicks and reuse of slots |
| `interval` | 2 ticks, 2 setters | no wakeup is lost between looking at the state and waiting; the Mutex is held exactly by the tick that waits for the interval, whatever is dropped; ticks and setters are served |
| `framing` | 3 packets of 1, 2 and 4 bytes, base-2 VarInts of up to 3 bytes, both formats | as long as no call is dropped inside a frame, what is written is read: in order, whole, all of it |
| `status_page` | 2 concurrent pings, 2 lookups each, 2 versions of the upstream's data, one player who comes and goes | the fallback chain across lookups that overtake each other; the number shown was true at some moment since the page was asked for; lookups return |
| `join` | 11 configuration files, 4 schematics, every release of the protocol | the light is that of the brightest source and arrives at its cell (`LightIsExact`, `LightArrives`); every block and block entity is shown where it was built, under the id of the client's version (`WorldIsShown`); chunks arrive once, nearest first, within the distance (`ChunksArriveNearestFirst`); no packet is lost but behind a block entity that cannot be told, and all texts are shown (`EveryPacketIsSent`); dimensions, biomes and tags mean to the client what they mean to the server (`IdsAgree`); game mode, hardcore, flight, distance and time are those of the file (`RulesAreKept`); every line the graph of commands offers is understood as it was meant (`OfferedIsUnderstood`) |
| `recorder` | 9 upstreams of 1.19.4, 1.20.1, 1.21 and 1.21.9 (gated, online, strict or not, impatient), both handshakes of two steps, one crash anywhere | recorded, in memory, on disk and loaded are only what an upstream sent its Forge clients, in order from the first step (`RecordedIsFaithful`); an upstream that answers is recorded whole, whatever fails before (`HandshakeIsRecorded`); the refinement of SnapshotFile; every start comes to serve (`StartsServing`) |
| `player_movement` | boundary two falls below the spawn, 2 packets in flight each way | falls end in one teleport, and flight rights never get out of step |

Runs that end in a violation, each a disagreement between the code and what a
doc, a comment or a test says (quoted under `findings`):

| Run | Disagreement |
|---|---|
| `kick_is_told` | a refused legacy or BungeeGuard login records its kick message and returns an error; the error closes the connection before the message is looked at, so it is never sent |
| `framing_timers` | a timer that fires while a packet is half read drops the bytes read; the rest is taken for the head of another packet, although a test expects slow packets to be read |
| `recorder_1_20_2` | the recorder reads Configuration by the packet numbers of 1.20.5; against 1.20.2, which its doc and its list of probes name, plugin messages look like a disconnect and keep-alives like the end |
| `first_start` | a limbo started without a file writes one that says `enabled = false` for the title, and shows the title all the same, until it is started again; `docs/config/title.md`, 21, says that there is none |

Also met, and left as notes because no run of its own is worth it:

* `controllable_interval.rs`, 31, 45 and 56, say that setting or clearing an
  interval wakes whoever waits in `tick()`; the call waits for the Mutex that
  `tick()` holds until the old interval fires (`Store`).
* `status_proxy.rs`, 117, records the time of an answer without forgeData to
  avoid hammering the upstream; without a value nothing looks at the time, and
  every ping asks (`NoForgeData`).
* The default of the boss bar has the same contradiction as that of the title
  (`boss_bar.rs`, 53).
* A section of one block is written with the palette of a single value that
  1.18 brought (`palette_container.rs`, 48 and 89-98); clients of 1.16 and 1.17
  misread it unless it is air and left out,
  where `docs/config/schematic-loading.md`, 6, offers schematics from 1.16 on;
  `WorldIsShown` leaves it out.
* A schematic without air in its palette is surrounded by its first block
  (`unwrap_or(0)` in `schematic.rs`); the schematics of the instance have air.
* The text on `lock_time` in `docs/config/world.md` has its meaning reversed.
* `PlayerInfoUpdate` shows creative mode in the list of players to clients before
  1.19.3, whatever the game mode is.
* When the state cannot be built the process ends with `ExitCode::SUCCESS`
  (`start_server.rs`, 55).
* A block entity whose list has several types after its numbers were narrowed
  cannot be encoded before 1.21.5, and costs the client the rest of the batch
  (`EveryPacketIsSent` names the case) and the timers that the end of its packet would
  start: the keep-alive until a packet of the client is handled to its end, and the
  action bar for good, although `ACTION_BAR_PERSISTENCE_IMPLEMENTATION.md`, 5 and 118,
  has it resent to everybody who plays (`PlayersKeptAlive` says which players).
* A sign whose messages are compounds becomes blank (`sign.rs`, 31); a malformed
  one stops the start with a panic; one `"` alone as a text panics.
* A session server that hangs keeps the chunks behind a skin from a player for
  ever (`fetch_minecraft_profile.rs`, 27-32).
* `write_compressed_packet_format` (`packet_stream.rs`, 150) does not check the
  maximum length the reader enforces, the uncompressed writer does (117-119).
  `Writable` models this.
* `status_proxy.rs`, 12-16, says that pings during a refresh get the previous
  value without waiting; every lookup that finds the value stale fetches.
* `/fly` tells the client `allow && is_flying` and records `is_flying = allow`
  (`commands.rs`, 60-80), so the flying flags differ until the client reports.
  `AllowedAgrees` is about the right to fly, which does not drift.
* A step of more than FALL_SPEED through the boundary of the world is never
  teleported, where `docs/config/world.md`, 47, says that players below it are;
  `FallenAreTeleported` is checked of players that fall no faster.
* `recorder.rs`, 89-91, says that without a secret Velocity's request is
  answered with an empty payload; the probe fails as Malformed
  (`ReadVelocityRequest`).
* A disconnect in Configuration has number 2 from 1.20.5 on. The recorder looks
  for 0, skips it, and loses the steps recorded before it with the connection,
  where `recorder.rs`, 678-680, says that they are kept. `Recordable` leaves
  upstreams that disconnect out, `RecordedIsFaithful` does not.
* The first probe of Configuration has the protocol of the status ping, also when
  that is below 764, while `recorder.rs`, 205-207, speaks of protocols from 764
  on; the packets of Play that follow are read as Configuration's (`Chatter`).
* The first probe that succeeds ends the list, also with no step at all: an
  upstream of FML network version 2 that lets vanilla clients in is recorded as
  an empty handshake. `Recordable` leaves it out.
* The FML3 replay has handlers and no caller that starts it; without a snapshot
  a Forge client goes on as a vanilla one, where `server_state/mod.rs`, 120-124,
  says it is kicked.
* Under legacy forwarding LoginSuccess carries the UUID of LoginStart, and the
  state keeps the forwarded one; `IdentityAgreed` leaves those modes out.
* A handshake number in a gap of the version enum becomes the latest version
  when `allow_unsupported_versions` is set.

### Bounds, and why they are enough

* *Connections.* A task shares nothing with another but the counter. One slot
  is therefore enough for every property of a client and its own task, and it
  is combined with all configurations and openings that reach different
  branches; two slots give every race on the counter. The proofs remove the
  bound for the properties they cover.
* *Configurations.* One per combination of compression, forwarding mode and
  number of Forge steps (none or two, so that there is a first, a last and a
  next step), with strict and lenient variants of the other switches, including
  a spawn outside of the chunk coordinates, and one with a world that two of the
  versions cannot be told (`unwritable`: any set of versions that have chunks, of
  which the proofs assume no more).
* *Openings.* Versions on each side of every comparison a handler makes (1.7,
  1.12, 1.13, 1.20, 1.20.2, one to come), the Forge markers, the three hostnames, good
  and bad signatures, and the intentions 1 to 4.
* `MaxInputs` and `MaxTicks` only stop a client in the world from sending and a
  timer from firing for ever; one input lets a command race a tick, two ticks
  let each timer fire, or one fire again after a failed write.
* *Framing.* Base 2 and at most 3 bytes give one-, two- and three-byte lengths;
  the payloads are below, at and above the threshold, and one starts with bytes
  that read as a length themselves. `MaximumLength = 7` fits the largest frame.
* *Status page.* Two versions tell "the value" from "another value"; two lookups
  of two pings let a value be fetched, expire and be replaced while another
  lookup is under way; a player that comes and goes moves the count both ways. The
  proofs remove these bounds.
* *Join.* A section has 2 blocks a side instead of 16, and all that depends on
  it scales: palettes are indirect up to 4 blocks and direct beyond, ids have 4 bits and
  words 9, so that words have bits left over as they have with 15-bit ids in 64.
  Light has levels up to 4, enough to cross a section and to be
  split around an obstacle. The schematics have one and two columns, sections of
  each kind of palette, both formats with both formats of signs, an id of two bytes, a block without
  the state asked for, one nobody knows, data that ends early, and a block entity
  that cannot be told. The files have a spawn below zero, distances from
  negative to one, every game mode, and texts, aliases and switches present,
  empty, absent and malformed. The players have every release's protocol when there is no
  schematic, and one release for each form of a chunk when there is one. Nothing a player is
  sent depends on another, so there is one at a time. The build's data (blocks,
  registries) is a small set with the features the code looks at: several
  numberings, a registry that appears in a later version, tags within tags.
* *Recorder.* The upstreams are on both sides of 1.20.2, below the one fallback
  of Login, in the list of fallbacks and above it, so that detection is needed,
  helps or makes no difference. Two steps give a first and a last one, and a
  partial recording. After one crash every file the first run can have left is
  there at the start of the second, where everything else begins anew: a second
  crash adds nothing. The lists of probes are the code's.
* *Movement.* The boundary takes two falls to reach and the lowest height is
  more than a fall below it; two packets each way let a position cross a
  teleport and be followed by another.

### Fairness

* `Connection!Fairness`: weak fairness of every task (the runtime polls what is
  ready; all steps of one task are one thread of control, so one formula covers
  them) and of `Receive` (a client that stays reads its socket). Nobody has to
  connect, type, or leave: `DepartedAreForgotten` starts from a departure, and
  `LoginCompletes` ends in one if there is one.
* `ControllableInterval`: weak fairness of the steps of a tick and of
  notification, strong fairness of taking the Mutex (tokio's Mutex is a fair
  queue), weak fairness of time. Dropping is never required.
* `StatusPage`: weak fairness of lookups, because every fetch is under
  `status_request_timeout`; it may always fail.
* `Recorder`: weak fairness of the limbo's own steps, one thread of control, and
  of `Deadline`, which is time. Nothing is assumed of the upstream: it may be
  silent or send packets for ever.
* `Join` states none: its properties are about what has arrived.
* `PacketFraming`: weak fairness of reading what is on the wire. Timers may fire
  or not.

## What is proved

TLAPS proves, for any finite set of clients, any configurations and any
openings (the assumptions named in `Connection`):

* `HandlersSound` (*Connection_proofs*): whatever packet is read in whatever client
  state and configuration, the outcome has its type; an error carries no
  packets; and a batch holds the Login packet, the one that opens the world,
  only if the state became Play without an error. It rests on one lemma per
  handler and on how batches are concatenated.
* `Typed`: `Spec => []TypeOK`. The step is split by action;
  `ProcessPacket` uses `HandlersSound`, the client's half uses the types of
  `React` and `Replies`.
* `RosterImplemented`: `Spec => ImplementsRoster`. `TypeOK` alone is not
  inductive enough: a step that closes a slot could forget a counted task. The
  strengthening is `Places`: a task that is closed or in the backlog was never
  in Play, and one that counts or gives its count back was. From it every
  action is one of three moves (`Moves`): it counts its task, gives its count
  back, or leaves both alone; `MovesRoster` maps these to `Join`, `Quit` and
  stuttering.
* `CountExact`: `Spec => []OnlineCountExact`, inherited: `RosterCount`
  says that the abstract roster counts exactly, and the refinement carries it to the
  server.
* `JoinedCounted`: `Spec => []JoinedAreCounted`. That the client has joined says
  nothing about what is still queued for it, so the invariant is about the
  Login packet on its whole way: in a batch, only when the entry into Play was
  noticed; on the wire or received, only when the task is counted or over
  (`Admission`). `IInv` is the conjunction with `TypeOK` and `Places`.

The rest of what is promised about clients is in *Conversation_proofs* and rests on
one invariant, `Conversation`: `Spec => []ConversationInv`. None of the properties is
inductive, nor is their conjunction, because task and client never see the same
moment: a client reads what was sent a while ago, and the task reads the answer to
something older still, while a batch is half written and a timer puts a packet
between. So the invariant speaks of the moment when everything under way will have
been received:

* a *view* is a client with the packets it has sent that are not read yet; `Trace`
  is a sequence of views, one more than there are packets to the client (first those
  on the wire, then those of the batch), in which each packet comes when the client
  `Expected` it and in the format it reads by then (`Follows`, `Formats`);
* the last view is in the `Stage` that the task's client state expects: it has sent
  the handshake, or LoginStart, or the answer to the one query that is under way with
  its id (`Vouches`, `Replays`), and so on; it was let in only if the server may do so
  (`Admits`) and under the name the task keeps (`Remembers`);
* what needs no trace is kept per task (`Simple`), and a client that left is sent
  nothing, while its task still reads what it sent before (`Leftover`).

That every handler extends such a trace is one lemma per handler (`Answered`); that a
write moves a packet from the batch to the wire, a receipt moves the first view on, a
packet sent by the client appears in every view, and a kick, a tick or a reset keep the
rest, one lemma per step (`InConversation`). A batch that is dropped before the world of
a client that is there leaves the views up to it (`TracePrefix`): the client has joined
by then, and no packet changes what it is (`ConversesCutting`). A slot is used again, so
the invariant holds of a task from its start. From it:

* `ClientUnderstands`: `Spec => []ClientNeverConfused` and `ServerUnderstands`:
  `Spec => []ServerNeverConfused`: the first packet under way is expected, the first
  frame has the format its reader is in, and what the task reads is what its stage
  names.
* `ReplayedInFull` (`ReplayBeforeSuccess`), `ForwardedIsVouchedFor`
  (`ModernIdentity`), `IdentityIsShared` (`IdentityAgreed`) and `KickedStaysOut`
  (`KickedNeverAdmitted`): a client that is in the world will still be the same when
  it has received everything (`Foreseen`), and there `Admits` and `Remembers` hold.
* `IdentityIsKept`: `Spec => IdentityNeverChanges`, one lemma per handler: a name is
  given only where there is none. Only the start of a task forgets it, and `Simple`
  says that there it has none to forget.
* `PlayersStayAlive`: `Spec => []PlayersKeptAlive`, over `Alive`: no timer runs before
  Play, the packet that enters Play asks for the keep-alive, and no other is read
  before the timers run. Where the version cannot be told the world, the batch of that
  packet ends with it (`Carries`) and is never written to its end: the action bar timer
  does not start, and the keep-alive is either still asked for or started by a later
  packet (`Late`).

The assumptions are those `Connection` names. `GameVersionsAssumption` is one about
the clients and not about the code: where `allow_unsupported_versions` is set, they
speak a version the enum knows or one beyond its ends. A number in a gap of the enum
is taken for the latest version (`expand.rs`, 135-145), the handlers then send the
packets of a login the client does not have, and `ClientNeverConfused` does not hold
of it. No released version has such a number; snapshots do, and a client may claim any.

For any heights, habits of players and number of packets under way
(*PlayerMovement_proofs*):

* `FlightAgrees`: `Spec => []AllowedAgrees`, inductive with the types.
* `FallersComeBack`: `TopSpeed <= FallSpeed` implies `Spec => []FallenAreTeleported`.
  The server may be several positions behind, and the position before the boundary may
  be followed by teleports that were answered already, so the invariant keeps an anchor
  (`Anchored`): where no teleport is under way, some position the server has seen or
  will see lies within the boundaries, and from there to the player every step is short
  enough to be noticed. It is the hypothesis of the property's comment; without it the
  property is false.
* `OneTeleportForAFall`: `SpawnY - MinY > FallSpeed` implies
  `Spec => []OneTeleportPerFall`. The positions under way are of a fall that has been
  answered, then of one that goes down to where the player is (`Falls`); the first are
  not answered again because the server has put the player at the spawn, too far above
  them, or below the boundary already.

For any upstreams, any two handshakes and any number of crashes:

* `RecorderTypeOK` (*Recorder_proofs*): `Spec => []TypeOK`. What upstreams send are
  packets (`AnswerType`); each way a probe goes on or ends keeps the types
  (`RecordedInv`, `SucceedInv`, `FailInv`), and every arm of the `match` is one of the
  three. That a probe is in its list needs that the version the list was made for
  does not change while it is gone through (`Placed`).
* `SnapshotFileImplemented`: `Spec => ImplementsSnapshotFile`. That `Rename` puts
  a whole recording in place depends on what happened several steps before, so
  the invariant (`SavesTheRecording`) carries it along: from the decision to save
  on there is a section, and what is about to be renamed is the snapshot in
  memory. Every other step leaves the file alone.
* `RecordingIsFaithful`: `Spec => []RecordedIsFaithful`. What an upstream answers is a
  fixed sequence by the kind of client, and in it the recorded steps are one contiguous
  run, in order (`Shape`). The invariant (`Session`) says how far the probe has read:
  what waits in the inbox is the next of the sequence or something the upstream sends
  by the way, and `steps` are the steps among what was read. A section of a snapshot is
  made of them only, and files and what is loaded only of snapshots (`KeptFaithfully`).
* `HandshakeRecorded`: `NumbersAreKnown` implies `Spec => []HandshakeIsRecorded`. The
  probe that will succeed is in the list, by the upstream's version and marker; no probe
  before it ends the probes, and it ends only with the whole handshake (`Progress`,
  with `LoginDecided` and `ConfigurationDecided`). `NumbersAreKnown` says of upstreams
  that shake hands in Configuration that their protocol is 766 or later and their marker
  FML3; for the others the property is false, and `recorder_1_20_2` shows it.

For a volume of any size and shape, any blocks and any number of levels of light:

* `LightEndsExact` (*Join_proofs*): `LightSpec => []LightIsExact`. The property is
  about the end; the invariant says where the work is that remains
  (`GiftsArePending`): whenever a cell could give light to a neighbour, an
  entry is pending that has the cell's present level and still looks that way.
  Entries may be older than their cells, never brighter (`EntriesAreOld`), and
  light that was given came from a cell that is brighter still
  (`LightIsGrounded`, also a theorem), so the way back can be left out. With
  nothing pending no cell can give any light, which is exactness. That the queue
  starts with every source needs that ranking cells numbers them without gaps
  (`RankIsOnto`), by counting.
* `LightOfTheWorldIsExact`: `Spec => []LightIsExact` of Join, where the limbo runs two
  propagations one after the other. Each begins from a volume that the first theorem is
  about (`WorldLightInv`): every block of a schematic that loads has a level and lets
  light pass or not (`BlocksHaveLight`), also where the file has no block, and the
  volume of the blocks waits unchanged until the sky's is done. A schematic without any
  cell is a case of its own (`NothingIsLit`).

For any configuration files, schematics, reports of blocks, data of registries and
sizes of sections (*Join_proofs*, over `JoinInvariant`: `Spec => []JoinInv`):

* `ChunksComeNearestFirst`: `Spec => []ChunksArriveNearestFirst`.
* `PacketsOfAJoinAreSent`: `Spec => []EveryPacketIsSent`.
* `RulesOfTheFileAreKept`: `Spec => []RulesAreKept`.

The three are about the moment when a batch is done, so none is inductive. The
invariant speaks of the whole batch: of each thing the client is to be told (`GameIsTold`,
`TextsAreTold`, `PlaceIsTold`, `ChunksAreTold`), either it has been told or a producer
that is left tells it; and every packet of the batch can be encoded and tells what the
file says or nothing of it (`IsPlayPacket`), so that none undoes another. The batch is
looked at once, when it is made: one lemma for each part of it and each form the
versions give that part, put together in `BatchOfTheState` and `ConfigurationBatch`;
from then on a step takes one producer off (`Leaves`, `RestOfBatch`). A batch that is
lost is so by a block entity (`Lost`), because nothing else of it lacks an encoding.
That the file's values reach the packets goes through the state that was built of the
file or of the defaults that were written to it (`StateIsBuilt`, `SameRules`).

The spiral has an invariant of its own. `StepSpiral` knows a direction, a length and a
number of steps, not where it is; `OnItsWay` gives each place of its walk a radius and
a leg, by which the current chunk and the set of those behind it are determined:
the whole square of that radius and, of the ring around it, the part the legs have
reached (`Behind`). A step adds exactly the current chunk to it (`NextPlace`), the
spiral is done when the radius is that of the view (`AllArrived`), and the chunks of a
square are counted by the ring that was added to it.

The assumptions are named where the constants are declared. `SectionAssumption`,
`MaxLightAssumption` and `LevelsAssumption` are about numbers and the table of light.
`FilesAssumption` and `PlayersAssumption` give fields their types; players have the
number of a release. `SchematicsAssumption` says of a file that loads that
its blocks are of its palette (an index that is not would be a panic, which the model
leaves out) and lists in `unwritable` the block entities that cannot be encoded for some
version, none from 1.21.5 on. That a block entity can be encoded otherwise is thus
assumed by the proof; TLC evaluates the assumption, and with it NBT's side of it, on
the schematics of the instance.

For any tasks that tick and set one timer:

* `NoTickSleepsOn` and `MutexIsHeldByTick` (*ControllableInterval_proofs*): with the
  types the two properties are inductive, one step per action. Nobody may be
  called as the free Mutex is (`TickersAssumption`).

For any pings, versions of the upstream, fallbacks and players:

* `PagesFallBack` (*StatusPage_proofs*): what a lookup found known the cache still
  has when it returns (`CacheKeepsAValue`), whatever the others stored.
* `PagesCounted`: the response is one of the counts since the request
  (`ResponseWasTrue`). Every step of the page is one of the cache or leaves it
  alone, so the two halves are proved apart.

For any base, limits, thresholds and packets (*PacketFraming_proofs*):

* `VarIntRoundTrip`: `VarIntValue[ToVarInt[n]] = n` for every number `n`, without a
  hypothesis. The two are recursive functions; that each satisfies its equation is a
  lemma (`ToVarIntOf`, `VarIntValueOf`). The library's induction theorems take an operator,
  which no installed prover can instantiate; instead, `LeastNumber` says that a
  set of numbers that is not empty has a least one, and a proof by induction
  refutes the least counterexample.
* `NothingIsLost`: `FramesFit` implies `Spec => []NothingLost`, and
  `PacketsArriveInOrder`: `FramesFit` implies `Spec => []PacketsInOrder`. The invariant
  (`FramingInv`) ties the three places where bytes are to the packets: what the reader
  holds and what is on the wire are the frames of the packets it has not returned
  (`Pending`); in the length it holds less than a whole VarInt (`InLength`); in the
  body it holds the whole length of the next frame and less than its body (`InBody`).
  A byte is then a digit of the length or of the body by its position alone, and a
  prefix of a VarInt is never taken for the whole (`ToVarIntShape`). When the last byte comes,
  `DecodeBody` gives back the packet in either format.

`FramesFit` says that the longest length has a VarInt and that a packet in the compressed
format has room for its two lengths. The first holds of the code's numbers:
2097151 takes three bytes of the five. The second is not the code's to ensure:
`write_uncompressed_packet` checks the length (`packet_stream.rs`, 117),
`write_compressed_packet_format` does not, and `read_packet` would refuse such a packet
(`packet_stream.rs`, 164). The packets of a limbo are far shorter. TLC evaluates
`FramesFit` on the instances it checks.

What is only model-checked:

* Of Join, what depends on trees of data or on folds: `WorldIsShown`, `LightArrives`,
  `IdsAgree` and `OfferedIsUnderstood`. A client reads the height of a world, the lines of
  a sign, the entries of a codec out of NBT that was written before; that reading gives
  back what was written is an induction over trees, in the code's
  recursion over values. Palettes and words, tags within tags and the
  walk of the graph of commands need inductions over folds and strings. The library's
  theorems of induction take an operator, which no installed prover can
  instantiate. For numbers, and recursive functions of them, least elements take their
  place (`VarIntRoundTrip`).
* Everything temporal: liveness under fairness and ENABLED are beyond the prover.
* The runs that end in a violation, of course.

Recursion is written as recursive functions throughout, so that the prover keeps its
arithmetic. Those over data have the domain `Trees`, which stands for all trees of
values; TLC is given `Any`, a set that has every value as a member.

## What is not modelled, and why

* Text components and identifiers: their parsers and printers. The model has
  texts and names as values, and knows of a text whether it can be parsed.
* Numbers and bytes of packets: ids of packets beyond which version has which packet,
  positions and rotations, colours, and fields the clients' behaviour does not depend on.
* Of NBT: SNBT, borrowed values, enum variants, and lengths beyond their fields. Of
  schematics: gzip and malformed NBT.
* The parsing of hostnames and the HMAC of modern forwarding: only their verdict.
* The syntax of TOML and the placeholders of the environment: a file is a
  function from keys to values. The shutdown of the server drops every task
  and leaves no state behind.
* Of the recorder: compression, signatures and the layout of LoginStart. A loss
  of power, after which a file that was renamed but not synced may be empty.
* `/transfer`, chat, `/spawn` effects other than the position: no state.
* A skin server that never answers: `FutureIsReady` has no fairness, so a join may
  stop there, and no property says that it goes on.

## The plan

Done, in this order: versions, handlers, connection with its roster, then the
timers, framing, Forge cache and movement, which share no state with the
connection but its `select!`; the recorder and its file; the status page; the
join with all the data it sends; the proofs of the roster, of the handlers, of the
connection and its conversation with a client, of movement, of the recorder, of the
timers, of the status page, of the light, of framing and of the join.

To come, by importance:

1. The batches of Join under the task of Connection, with timers between their
   packets.
2. Hostname parsing; negative VarInts, which no length is but which packets contain.
