------------------------------ MODULE Recorder ------------------------------
(***************************************************************************)
(* The start of a limbo with the Forge bridge: maybe_record_forge_snapshot *)
(* logs into the upstream as a client, once for each probe of two lists,   *)
(* and records what the upstream sends its Forge clients; save_snapshot    *)
(* puts the recording on disk; build_state loads it; the limbo serves.     *)
(*                                                                         *)
(* A packet is its number and, for plugin messages, its channel: the       *)
(* numbers are those of the upstream's version, and the recorder goes by   *)
(* them.  A step, channel and payload, is the channel.  An Option is a set *)
(* of at most one element.  A crash is one of the process: what it has     *)
(* written stays written.                                                  *)
(***************************************************************************)
EXTENDS Naturals, Sequences, SequencesExt

CONSTANTS
  Upstreams,   \* the upstream servers there may be
  Fml2Steps,   \* what an upstream sends a Forge client in Login
  Fml3Steps,   \* what it sends one in Configuration
  MaxCrashes   \* bound: crashes and restarts of the limbo

Velocity == "velocity:player_info"
Brand == "minecraft:brand"
Garbage == "not a string"

\* protocol: of the version it runs; marker: of its FML network version;
\* gated: it asks for Velocity's signature; online_mode: it asks for encryption;
\* strict: it turns clients without its marker away; impatient: it disconnects
\* the recorder for its empty answer to the first step.
ASSUME UpstreamsAssumption ==
  /\ Upstreams \subseteq [protocol : Nat \ {0}, marker : {"FML2", "FML3"}, gated : BOOLEAN,
                          online_mode : BOOLEAN, strict : BOOLEAN, impatient : BOOLEAN]
  /\ Fml2Steps \in Seq(STRING) \ {<< >>} /\ Fml3Steps \in Seq(STRING) \ {<< >>}
  /\ {Velocity, Brand, Garbage} \cap (Range(Fml2Steps) \cup Range(Fml3Steps)) = {}
  /\ MaxCrashes \in Nat

VARIABLES
  upstream,          \* the upstream server (external)
  velocity_secret,   \* is there a secret of Modern Forwarding?
  record_on_start,   \* ForgeConfig::record_on_start
  stage,             \* where the start of the limbo is
  auto_protocol,     \* detect_upstream_protocol, 0 for None
  probe,             \* position in the list of probes
  connected,         \* is a probe talking to the upstream?
  sent,              \* how much of its answer the upstream has sent
  inbox,             \* the packet in the socket, at most one
  in_configuration, steps,   \* of record_login_phase, record_configuration_phase
  snapshot,          \* Snapshot in memory
  file, tmp,         \* snapshot_path and its sibling .tmp
  loaded,            \* ServerState::forge_snapshot and the fallback of the status cache
  troubled,          \* history: has the upstream failed this recording?
  crashes            \* bound

config_vars == << velocity_secret, record_on_start >>
session_vars == << connected, sent, inbox, in_configuration, steps >>
disk_vars == << file, tmp >>
vars == << upstream, config_vars, stage, auto_protocol, probe, session_vars, snapshot,
           disk_vars, loaded, troubled, crashes >>

-----------------------------------------------------------------------------
(* Snapshots and files *)

Channels == {Velocity, Brand, Garbage} \cup Range(Fml2Steps) \cup Range(Fml3Steps)

Snapshots == [fml2 : SUBSET Seq(Channels), fml3 : SUBSET Seq(Channels),
              status_forge_data : BOOLEAN]

NewSnapshot == [fml2 |-> {}, fml3 |-> {}, status_forge_data |-> FALSE]
HasSection(s) == s.fml2 # {} \/ s.fml3 # {}

Whole(s) == [content |-> "Whole", of |-> s]
Absent == [content |-> "Absent", of |-> NewSnapshot]
Torn == [content |-> "Torn", of |-> NewSnapshot]
Files == [content : {"Absent", "Torn", "Whole"}, of : Snapshots]

\* load_snapshot: a file that does not parse or has another version is an error,
\* and degrades to None in both callers.
Load(f) == IF f.content = "Whole" THEN {f.of} ELSE {}

-----------------------------------------------------------------------------
(* The upstream server (external) *)

Packet(id, channel) == [id |-> id, channel |-> channel]
Packets == [id : 0 .. 255, channel : Channels]

Login == [disconnect |-> 0, hello |-> 1, success |-> 2, compression |-> 3, custom_query |-> 4]

\* The packets of Configuration were renumbered by 1.20.5.
Config(protocol) ==
  IF protocol < 766
  THEN [custom_payload |-> 0, disconnect |-> 1, finish |-> 2, keep_alive |-> 3, registry |-> 5]
  ELSE [custom_payload |-> 1, disconnect |-> 2, finish |-> 3, keep_alive |-> 4, registry |-> 7]
SelectKnownPacks == 14

Offered(u, offer) == IF u.impatient THEN SubSeq(offer, 1, 1) ELSE offer
Sending(id, offer) == [i \in 1 .. Len(offer) |-> Packet(id, offer[i])]
Plain(id) == Packet(id, Garbage)

\* Forge's handshake is in Login up to 1.20.1, in Configuration from 1.20.2.
InLogin(u) == u.protocol <= 763

LoginAnswer(u, marker) ==
  Sending(Login.custom_query, IF u.gated THEN << Velocity >> ELSE << >>)
  \o (IF marker = u.marker /\ InLogin(u)
      THEN Sending(Login.custom_query, Offered(u, Fml2Steps)) ELSE << >>)
  \o << Plain(IF IF marker = u.marker THEN InLogin(u) /\ u.impatient ELSE u.strict
              THEN Login.disconnect ELSE Login.success) >>

ConfigurationAnswer(u, marker) ==
  LET id == Config(u.protocol) IN
  (IF u.protocol >= 766 THEN << Plain(SelectKnownPacks) >> ELSE << >>)
  \o << Packet(id.custom_payload, Brand), Plain(id.registry) >>
  \o (IF marker = u.marker THEN Sending(id.custom_payload, Offered(u, Fml3Steps)) ELSE << >>)
  \o << Plain(IF marker = u.marker /\ u.impatient THEN id.disconnect ELSE id.finish) >>

\* What the upstream sends to a client of this marker and protocol, unless it
\* or the connection fails.
Answer(u, marker, protocol) ==
  IF protocol # u.protocol THEN << Plain(Login.disconnect) >>
  ELSE IF u.online_mode THEN << Plain(Login.hello) >>
  ELSE << Plain(Login.compression) >> \o LoginAnswer(u, marker)
       \o (IF InLogin(u) THEN << >> ELSE ConfigurationAnswer(u, marker))

\* What it may send at any time after Login: it keeps a client alive in
\* Configuration; before 1.20.2 the client is in the world already.
Chatter(u) ==
  IF InLogin(u) THEN [id : {0, 1, 3, 14, 35}, channel : {Garbage, Brand}]
  ELSE {Plain(Config(u.protocol).keep_alive)}

-----------------------------------------------------------------------------
(* The lists of probes *)

None == 0
Probe(marker, protocol) == << marker, protocol >>

FallbackProtocols == << 772, 771, 770, 769, 768, 767, 766, 764 >>

LoginProbes(auto) ==
  (IF auto \notin {None, 763} /\ auto <= 763
   THEN << Probe("FML3", auto), Probe("FML2", auto) >> ELSE << >>)
  \o << Probe("FML3", 763), Probe("FML2", 763) >>

\* Mutant: the protocol of the status ping is not tried.
FallbackProbes(auto) ==
  [i \in 1 .. Len(FallbackProtocols) |-> Probe("FML3", FallbackProtocols[i])]

ConfigurationProbes(auto) ==
  (IF auto # None THEN << Probe("FML3", auto) >> ELSE << >>)
  \o LET others ==
           IF auto \in Range(FallbackProtocols)
           THEN RemoveAt(FallbackProtocols,
                         CHOOSE i \in DOMAIN FallbackProtocols : FallbackProtocols[i] = auto)
           ELSE FallbackProtocols
     IN [i \in 1 .. Len(others) |-> Probe("FML3", others[i])]

Probes ==
  IF stage = "Login" THEN LoginProbes(auto_protocol) ELSE ConfigurationProbes(auto_protocol)

Expected == Answer(upstream, Probes[probe][1], Probes[probe][2])

-----------------------------------------------------------------------------
(* State *)

Stages == {"Starting", "Detecting", "Login", "Configuration", "Capturing", "Saving",
           "Writing", "Renaming", "LoadingFallback", "LoadingSnapshot", "Serving"}
Probing == stage \in {"Login", "Configuration"}

Typed ==
  /\ upstream \in Upstreams
  /\ velocity_secret \in BOOLEAN
  /\ record_on_start \in BOOLEAN
  /\ stage \in Stages
  /\ auto_protocol \in Nat
  /\ probe \in Nat \ {0}
  /\ connected \in BOOLEAN
  /\ connected => Probing
  /\ sent \in Nat
  /\ inbox \in SUBSET Packets
  /\ in_configuration \in BOOLEAN
  /\ steps \in Seq(Channels)
  /\ snapshot \in Snapshots
  /\ file \in Files
  /\ tmp \in Files
  /\ loaded \in [fallback : BOOLEAN, full : SUBSET Snapshots]
  /\ troubled \in BOOLEAN
  /\ crashes \in 0 .. MaxCrashes

TypeOK == Typed /\ (Probing => probe <= Len(Probes))

NothingLoaded == [fallback |-> FALSE, full |-> {}]

\* A recording of an earlier start, of 1.20.1 with its first step only.
EarlierRecording == [NewSnapshot EXCEPT !.fml2 = {SubSeq(Fml2Steps, 1, 1)}]

Init ==
  /\ upstream \in Upstreams
  /\ velocity_secret \in BOOLEAN
  /\ record_on_start \in BOOLEAN
  /\ stage = "Starting"
  /\ auto_protocol = None
  /\ probe = 1
  /\ connected = FALSE
  /\ sent = 0
  /\ inbox = {}
  /\ in_configuration = FALSE
  /\ steps = << >>
  /\ snapshot = NewSnapshot
  /\ file \in {Absent, Torn, Whole(EarlierRecording)}
  /\ tmp = Absent
  /\ loaded = NothingLoaded
  /\ troubled = FALSE
  /\ crashes = 0

-----------------------------------------------------------------------------
(* record_and_persist: one probe after another *)

rest == << upstream, config_vars, auto_protocol, disk_vars, loaded, crashes >>

Start ==
  /\ stage = "Starting"
  /\ stage' = IF record_on_start THEN "Detecting" ELSE "LoadingFallback"
  /\ UNCHANGED << upstream, config_vars, auto_protocol, probe, session_vars, snapshot,
                  disk_vars, loaded, troubled, crashes >>

\* detect_upstream_protocol: any failure is None.
Detect ==
  /\ stage = "Detecting"
  /\ auto_protocol' \in {None, upstream.protocol}
  /\ stage' = "Login"
  /\ UNCHANGED << upstream, config_vars, probe, session_vars, snapshot, disk_vars, loaded,
                  troubled, crashes >>

Disconnected ==
  /\ connected' = FALSE
  /\ sent' = 0
  /\ inbox' = {}
  /\ in_configuration' = FALSE
  /\ steps' = << >>

NextStage == IF stage = "Login" THEN "Configuration" ELSE "Capturing"

\* Mutant: one probe too many.
FailPast ==
  /\ Disconnected
  /\ IF probe <= Len(Probes)
     THEN probe' = probe + 1 /\ stage' = stage
     ELSE probe' = 1 /\ stage' = NextStage
  /\ UNCHANGED snapshot

\* Err: on to the next probe of the list, if there is one.
Fail ==
  /\ Disconnected
  /\ IF probe < Len(Probes)
     THEN probe' = probe + 1 /\ stage' = stage
     ELSE probe' = 1 /\ stage' = NextStage
  /\ UNCHANGED snapshot

\* Ok: the steps are a section of the snapshot, and the rest of the list is left.
Succeed ==
  /\ Disconnected
  /\ probe' = 1 /\ stage' = NextStage
  /\ snapshot' = IF stage = "Login" THEN [snapshot EXCEPT !.fml2 = {steps}]
                                    ELSE [snapshot EXCEPT !.fml3 = {steps}]

\* Connect, Handshake and Login Start.
Connect ==
  /\ Probing /\ ~connected
  /\ connected' = TRUE
  /\ UNCHANGED << rest, stage, probe, sent, inbox, in_configuration, steps, snapshot, troubled >>

ConnectFails ==
  /\ Probing /\ ~connected
  /\ troubled' = TRUE
  /\ Fail
  /\ UNCHANGED rest

\* The upstream closes the connection, or the connection breaks.
StreamFails ==
  /\ connected
  /\ troubled' = (troubled \/ sent < Len(Expected) \/ inbox # {})
  /\ Fail
  /\ UNCHANGED rest

\* Mutant: every read has the whole timeout.
ReadTimeout ==
  /\ connected /\ inbox = {}
  /\ troubled' = (troubled \/ sent < Len(Expected))
  /\ Fail
  /\ UNCHANGED rest

\* One deadline for the whole probe, before a read or during one.
Deadline ==
  /\ connected
  /\ troubled' = (troubled \/ sent < Len(Expected) \/ inbox # {})
  /\ Fail
  /\ UNCHANGED rest

UpstreamSends ==
  /\ connected /\ inbox = {} /\ sent < Len(Expected)
  /\ inbox' = {Expected[sent + 1]}
  /\ sent' = sent + 1
  /\ UNCHANGED << rest, stage, probe, connected, in_configuration, steps, snapshot, troubled >>

UpstreamChatters ==
  /\ connected /\ inbox = {} /\ in_configuration
  /\ upstream.impatient => sent < Len(Expected)
  /\ \E packet \in Chatter(upstream) : inbox' = {packet}
  /\ UNCHANGED << rest, stage, probe, connected, sent, in_configuration, steps, snapshot, troubled >>

-----------------------------------------------------------------------------
(* What a probe reads *)

ReadsInLogin(packet) == connected /\ ~in_configuration /\ packet \in inbox
ReadsInConfiguration(packet) == connected /\ in_configuration /\ packet \in inbox

Recorded(recorded) ==
  /\ steps' = recorded
  /\ inbox' = {}
  /\ UNCHANGED << stage, probe, connected, sent, in_configuration, snapshot >>

\* set_compression, for a threshold that is not negative.
ReadSetCompression(packet) ==
  /\ ReadsInLogin(packet) /\ packet.id = 3
  /\ Recorded(steps)
  /\ UNCHANGED << rest, troubled >>

\* Mutant: the step is recorded before the channel is looked at.
RecordVelocityRequest(packet) ==
  /\ ReadsInLogin(packet) /\ packet.id = 4 /\ packet.channel = Velocity
  /\ IF velocity_secret THEN Recorded(Append(steps, packet.channel)) ELSE Fail
  /\ UNCHANGED << rest, troubled >>

\* Velocity's request is signed with the secret and not recorded; without one it
\* is Malformed.
ReadVelocityRequest(packet) ==
  /\ ReadsInLogin(packet) /\ packet.id = 4 /\ packet.channel = Velocity
  /\ IF velocity_secret THEN Recorded(steps) ELSE Fail
  /\ UNCHANGED << rest, troubled >>

\* Any other request is answered with nothing, and recorded by a probe of Login.
ReadPluginRequest(packet) ==
  /\ ReadsInLogin(packet) /\ packet.id = 4 /\ packet.channel # Velocity
  /\ Recorded(IF stage = "Login" THEN Append(steps, packet.channel) ELSE steps)
  /\ UNCHANGED << rest, troubled >>

\* The end of a probe of Login; one of Configuration acknowledges and goes on.
ReadLoginSuccess(packet) ==
  /\ ReadsInLogin(packet) /\ packet.id = 2
  /\ IF stage = "Login"
     THEN Succeed
     ELSE /\ in_configuration' = TRUE
          /\ inbox' = {}
          /\ UNCHANGED << stage, probe, connected, sent, steps, snapshot >>
  /\ UNCHANGED << rest, troubled >>

\* A disconnect after some steps is a partial recording: in Login, and by the
\* same number in Configuration.
ReadDisconnect(packet) ==
  /\ connected /\ packet \in inbox /\ packet.id = 0
  /\ IF steps # << >> THEN Succeed ELSE Fail
  /\ UNCHANGED << rest, troubled >>

\* OnlineModeRequired, UnexpectedPacket.
ReadUnexpected(packet) ==
  /\ ReadsInLogin(packet) /\ packet.id \notin {0, 2, 3, 4}
  /\ Fail
  /\ UNCHANGED << rest, troubled >>

\* A channel of fml or neoforge is answered with nothing and recorded.
ReadPluginMessage(packet) ==
  /\ ReadsInConfiguration(packet) /\ packet.id = 1
  /\ CASE packet.channel = Garbage -> Fail
       [] packet.channel \in Range(Fml3Steps) -> Recorded(Append(steps, packet.channel))
       [] OTHER -> Recorded(steps)
  /\ UNCHANGED << rest, troubled >>

ReadFinishConfiguration(packet) ==
  /\ ReadsInConfiguration(packet) /\ packet.id = 3
  /\ Succeed
  /\ UNCHANGED << rest, troubled >>

\* Select Known Packs is acknowledged; every other packet is skipped.
ReadOther(packet) ==
  /\ ReadsInConfiguration(packet) /\ packet.id \notin {0, 1, 3}
  /\ Recorded(steps)
  /\ UNCHANGED << rest, troubled >>

Read ==
  \E packet \in inbox :
    \/ ReadSetCompression(packet) \/ ReadVelocityRequest(packet) \/ ReadPluginRequest(packet)
    \/ ReadLoginSuccess(packet) \/ ReadDisconnect(packet) \/ ReadUnexpected(packet)
    \/ ReadPluginMessage(packet) \/ ReadFinishConfiguration(packet) \/ ReadOther(packet)

-----------------------------------------------------------------------------
(* save_snapshot, and the start of the limbo *)

afar == << upstream, config_vars, auto_protocol, probe, session_vars, troubled, crashes >>

\* Mutant: a recording without a section is saved as well.
CaptureAnything ==
  /\ stage = "Capturing"
  /\ \E captured \in BOOLEAN : snapshot' = [snapshot EXCEPT !.status_forge_data = captured]
  /\ stage' = "Saving"
  /\ UNCHANGED << afar, disk_vars, loaded >>

\* The status is captured, if it can be; without a section there is nothing to
\* save (AllDialectsFailed), and the file on disk is used as it is.
Capture ==
  /\ stage = "Capturing"
  /\ \E captured \in BOOLEAN : snapshot' = [snapshot EXCEPT !.status_forge_data = captured]
  /\ stage' = IF HasSection(snapshot) THEN "Saving" ELSE "LoadingFallback"
  /\ UNCHANGED << afar, disk_vars, loaded >>

\* Mutant: the file is written in place.
WriteInPlace ==
  /\ stage = "Saving"
  /\ file' = Torn
  /\ stage' = "Writing"
  /\ UNCHANGED << afar, snapshot, tmp, loaded >>

\* fs::write makes the temporary file empty...
OpenTmp ==
  /\ stage = "Saving"
  /\ tmp' = Torn
  /\ stage' = "Writing"
  /\ UNCHANGED << afar, snapshot, file, loaded >>

\* ...and fills it.
WriteTmp ==
  /\ stage = "Writing"
  /\ tmp' = Whole(snapshot)
  /\ stage' = "Renaming"
  /\ UNCHANGED << afar, snapshot, file, loaded >>

Rename ==
  /\ stage = "Renaming"
  /\ file' = tmp
  /\ tmp' = Absent
  /\ stage' = "LoadingFallback"
  /\ UNCHANGED << afar, snapshot, loaded >>

\* The directory, the temporary file or the rename: any I/O error ends the
\* recording, and the start goes on.
SaveFails ==
  /\ stage \in {"Saving", "Writing", "Renaming"}
  /\ stage' = "LoadingFallback"
  /\ UNCHANGED << afar, snapshot, disk_vars, loaded >>

\* build_forge_status_cache.
LoadFallback ==
  /\ stage = "LoadingFallback"
  /\ loaded' = [loaded EXCEPT !.fallback = \E s \in Load(file) : s.status_forge_data]
  /\ stage' = "LoadingSnapshot"
  /\ UNCHANGED << afar, snapshot, disk_vars >>

\* load_full_snapshot, which reads the file again.
LoadSnapshot ==
  /\ stage = "LoadingSnapshot"
  /\ loaded' = [loaded EXCEPT !.full = Load(file)]
  /\ stage' = "Serving"
  /\ UNCHANGED << afar, snapshot, disk_vars >>

\* The limbo is killed, at any point, and started again; the upstream may be
\* another by then.
Crash ==
  /\ stage # "Starting" /\ crashes < MaxCrashes
  /\ crashes' = crashes + 1
  /\ upstream' \in Upstreams
  /\ stage' = "Starting"
  /\ auto_protocol' = None
  /\ probe' = 1
  /\ Disconnected
  /\ snapshot' = NewSnapshot
  /\ loaded' = NothingLoaded
  /\ troubled' = FALSE
  /\ UNCHANGED << config_vars, disk_vars >>

LimboStep ==
  \/ Start \/ Detect \/ Connect \/ ConnectFails \/ Read
  \/ Capture \/ OpenTmp \/ WriteTmp \/ Rename \/ SaveFails \/ LoadFallback \/ LoadSnapshot

Next == LimboStep \/ StreamFails \/ Deadline \/ UpstreamSends \/ UpstreamChatters \/ Crash

Spec == Init /\ [][Next]_vars

\* The limbo goes on and time passes; of the upstream nothing is assumed.
FairSpec == Spec /\ WF_vars(LimboStep) /\ WF_vars(Deadline)

-----------------------------------------------------------------------------
(* Properties *)

Faithful(s) ==
  /\ \A recorded \in s.fml2 : IsPrefix(recorded, Fml2Steps)
  /\ \A recorded \in s.fml3 : IsPrefix(recorded, Fml3Steps)

\* What a Forge client will be replayed is what the upstream sent, from its first
\* step on: none of another probe, none missing, and never Velocity's request
\* (recorder.rs:404-409), wherever the recording is: underway, in memory, in a
\* file or loaded.
RecordedIsFaithful ==
  /\ stage = "Login" => IsPrefix(steps, Fml2Steps)
  /\ stage = "Configuration" => IsPrefix(steps, Fml3Steps)
  /\ \A s \in {snapshot} \cup Load(file) \cup Load(tmp) \cup loaded.full : Faithful(s)

\* An upstream a recording should succeed with: of a protocol the recorder knows
\* or was told, that takes offline clients, with a secret if it is gated, that
\* needs no better answer, and that does not take a probe for a vanilla client.
Recordable ==
  /\ upstream.protocol \in {auto_protocol, 763} \cup Range(FallbackProtocols)
  /\ upstream.gated => velocity_secret
  /\ ~upstream.online_mode
  /\ ~upstream.impatient
  /\ upstream.strict \/ upstream.marker = "FML3"

\* "Records a complete Forge handshake against a live upstream server" (lines
\* 10-11): whichever probes fail before, and whatever else the upstream sends, the
\* recording of an upstream that answers has every step of its handshake.
HandshakeIsRecorded ==
  stage \in {"Capturing", "Saving", "Writing", "Renaming"} /\ ~troubled /\ Recordable =>
    IF InLogin(upstream) THEN snapshot.fml2 = {Fml2Steps} ELSE snapshot.fml3 = {Fml3Steps}

Recordings == {f \in Files : f.content = "Whole" /\ HasSection(f.of)}

FileStore ==
  INSTANCE SnapshotFile WITH
    stored <- file, Given <- {Absent, Torn, Whole(EarlierRecording)}

\* "A crash mid-write never leaves a half-baked file" (snapshot_io.rs:7-9), and a
\* recording that fails leaves the file that was there.
ImplementsSnapshotFile == FileStore!FileSpec

\* Every start comes to serve, however slow, silent or talkative the upstream:
\* each probe has one deadline (recorder.rs:368-375).
StartsServing == stage = "Starting" ~> stage = "Serving"
=============================================================================
