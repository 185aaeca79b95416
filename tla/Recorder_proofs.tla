-------------------------- MODULE Recorder_proofs --------------------------
(***************************************************************************)
(* Theorems of Recorder, for any upstreams, any handshakes and any number  *)
(* of crashes: the types; that the file of snapshots is replaced only at   *)
(* once and only by a recording that has something to replay; that what is *)
(* recorded is the beginning of a handshake; and that of an upstream that  *)
(* can be recorded the whole handshake is.                                 *)
(***************************************************************************)
EXTENDS Recorder, TLAPS

-----------------------------------------------------------------------------
(* What an upstream sends are packets *)

LEMMA StepsType == Fml2Steps \in Seq(Channels) /\ Fml3Steps \in Seq(Channels)
<1>1. ASSUME NEW s \in Seq(STRING), Range(s) \subseteq Channels
      PROVE  s \in Seq(Channels)
  <2>1. \A i \in 1 .. Len(s) : s[i] \in Channels
    BY <1>1 DEF Range
  <2>2. s = [i \in 1 .. Len(s) |-> s[i]]
    OBVIOUS
  <2>3. QED
    BY <2>1, <2>2
<1>2. Range(Fml2Steps) \subseteq Channels /\ Range(Fml3Steps) \subseteq Channels
  BY DEF Channels
<1>3. QED
  BY <1>1, <1>2, UpstreamsAssumption

LEMMA ChannelsType == Velocity \in Channels /\ Brand \in Channels /\ Garbage \in Channels
BY DEF Channels

LEMMA PacketType ==
  ASSUME NEW id \in 0 .. 255, NEW channel \in Channels
  PROVE  Packet(id, channel) \in Packets /\ << Packet(id, channel) >> \in Seq(Packets)
BY DEF Packet, Packets

LEMMA PlainType ==
  ASSUME NEW id \in 0 .. 255
  PROVE  Plain(id) \in Packets /\ << Plain(id) >> \in Seq(Packets)
BY PacketType, ChannelsType DEF Plain

LEMMA SendingType ==
  ASSUME NEW id \in 0 .. 255, NEW offer \in Seq(Channels)
  PROVE  Sending(id, offer) \in Seq(Packets)
<1>1. \A i \in 1 .. Len(offer) : offer[i] \in Channels
  OBVIOUS
<1>2. \A i \in 1 .. Len(offer) : Packet(id, offer[i]) \in Packets
  BY <1>1, PacketType
<1>3. [i \in 1 .. Len(offer) |-> Packet(id, offer[i])] \in Seq(Packets)
  BY <1>2
<1>4. QED
  BY <1>3 DEF Sending

LEMMA OfferedType ==
  ASSUME NEW u, NEW offer \in Seq(Channels), offer # << >>
  PROVE  Offered(u, offer) \in Seq(Channels)
<1>1. SubSeq(offer, 1, 1) \in Seq(Channels)
  OBVIOUS
<1>2. QED
  BY <1>1 DEF Offered

LEMMA ConcatType ==
  ASSUME NEW s \in Seq(Packets), NEW t \in Seq(Packets)
  PROVE  s \o t \in Seq(Packets)
OBVIOUS

LEMMA LoginIds ==
  /\ Login.disconnect = 0 /\ Login.hello = 1 /\ Login.success = 2
  /\ Login.compression = 3 /\ Login.custom_query = 4
BY DEF Login

LEMMA ConfigIds ==
  ASSUME NEW protocol
  PROVE  /\ Config(protocol).custom_payload \in 0 .. 255
         /\ Config(protocol).disconnect \in 0 .. 255
         /\ Config(protocol).finish \in 0 .. 255
         /\ Config(protocol).keep_alive \in 0 .. 255
         /\ Config(protocol).registry \in 0 .. 255
<1>1. CASE protocol < 766
  BY <1>1 DEF Config
<1>2. CASE ~(protocol < 766)
  BY <1>2 DEF Config
<1>3. QED
  BY <1>1, <1>2

LEMMA LoginAnswerType ==
  ASSUME NEW u, NEW marker
  PROVE  LoginAnswer(u, marker) \in Seq(Packets)
<1> DEFINE gate == Sending(Login.custom_query, IF u.gated THEN << Velocity >> ELSE << >>)
           offer == IF marker = u.marker /\ InLogin(u)
                    THEN Sending(Login.custom_query, Offered(u, Fml2Steps)) ELSE << >>
           end == IF IF marker = u.marker THEN InLogin(u) /\ u.impatient ELSE u.strict
                  THEN Login.disconnect ELSE Login.success
<1>1. Login.custom_query \in 0 .. 255
  BY LoginIds
<1>2. gate \in Seq(Packets)
  <2>1. (IF u.gated THEN << Velocity >> ELSE << >>) \in Seq(Channels)
    BY ChannelsType
  <2>2. QED
    BY <1>1, <2>1, SendingType
<1>3. Offered(u, Fml2Steps) \in Seq(Channels)
  BY UpstreamsAssumption, OfferedType, StepsType
<1>4. offer \in Seq(Packets)
  <2>1. Sending(Login.custom_query, Offered(u, Fml2Steps)) \in Seq(Packets)
    BY <1>1, <1>3, SendingType
  <2>2. QED
    BY <2>1
<1>5. end \in 0 .. 255
  BY LoginIds
<1>6. << Plain(end) >> \in Seq(Packets)
  BY <1>5, PlainType
<1>7. gate \o offer \o << Plain(end) >> \in Seq(Packets)
  BY <1>2, <1>4, <1>6, ConcatType
<1>8. QED
  BY <1>7 DEF LoginAnswer

LEMMA ConfigurationAnswerType ==
  ASSUME NEW u, NEW marker
  PROVE  ConfigurationAnswer(u, marker) \in Seq(Packets)
<1> DEFINE id == Config(u.protocol)
           known == IF u.protocol >= 766 THEN << Plain(SelectKnownPacks) >> ELSE << >>
           offer == IF marker = u.marker
                    THEN Sending(id.custom_payload, Offered(u, Fml3Steps)) ELSE << >>
           end == IF marker = u.marker /\ u.impatient THEN id.disconnect ELSE id.finish
<1>1. known \in Seq(Packets)
  BY PlainType DEF SelectKnownPacks
<1>2. Packet(id.custom_payload, Brand) \in Packets /\ Plain(id.registry) \in Packets
  BY PacketType, PlainType, ConfigIds, ChannelsType
<1>3. << Packet(id.custom_payload, Brand), Plain(id.registry) >> \in Seq(Packets)
  BY <1>2
<1>4. Offered(u, Fml3Steps) \in Seq(Channels)
  BY UpstreamsAssumption, OfferedType, StepsType
<1>5. offer \in Seq(Packets)
  <2>1. id.custom_payload \in 0 .. 255
    BY ConfigIds
  <2>2. Sending(id.custom_payload, Offered(u, Fml3Steps)) \in Seq(Packets)
    BY <2>1, <1>4, SendingType
  <2>3. QED
    BY <2>2
<1>6. << Plain(end) >> \in Seq(Packets)
  BY PlainType, ConfigIds
<1>7. known \o << Packet(id.custom_payload, Brand), Plain(id.registry) >> \o offer
        \o << Plain(end) >> \in Seq(Packets)
  BY <1>1, <1>3, <1>5, <1>6, ConcatType
<1>8. QED
  BY <1>7 DEF ConfigurationAnswer

LEMMA AnswerType ==
  ASSUME NEW u, NEW marker, NEW protocol
  PROVE  Answer(u, marker, protocol) \in Seq(Packets)
<1>1. /\ << Plain(Login.disconnect) >> \in Seq(Packets)
      /\ << Plain(Login.hello) >> \in Seq(Packets)
      /\ << Plain(Login.compression) >> \in Seq(Packets)
  BY PlainType, LoginIds
<1>2. (IF InLogin(u) THEN << >> ELSE ConfigurationAnswer(u, marker)) \in Seq(Packets)
  BY ConfigurationAnswerType
<1>3. << Plain(Login.compression) >> \o LoginAnswer(u, marker)
        \o (IF InLogin(u) THEN << >> ELSE ConfigurationAnswer(u, marker)) \in Seq(Packets)
  BY <1>1, <1>2, LoginAnswerType, ConcatType
<1>4. QED
  BY <1>1, <1>3 DEF Answer

LEMMA ChatterType ==
  ASSUME NEW u
  PROVE  Chatter(u) \subseteq Packets
<1>1. [id : {0, 1, 3, 14, 35}, channel : {Garbage, Brand}] \subseteq Packets
  BY ChannelsType DEF Packets
<1>2. Plain(Config(u.protocol).keep_alive) \in Packets
  BY PlainType, ConfigIds
<1>3. QED
  BY <1>1, <1>2 DEF Chatter

LEMMA ExpectedType == Expected \in Seq(Packets)
BY AnswerType DEF Expected

-----------------------------------------------------------------------------
(* The invariant *)

\* From the decision to save on there is something to replay, and what is about
\* to be renamed is it.
SavesTheRecording ==
  /\ stage \in {"Saving", "Writing", "Renaming"} => HasSection(snapshot)
  /\ stage = "Renaming" => tmp = Whole(snapshot)

Inv == Typed /\ SavesTheRecording

LEMMA SnapshotType ==
  /\ NewSnapshot \in Snapshots
  /\ Absent \in Files /\ Torn \in Files
  /\ \A s \in Snapshots : Whole(s) \in Files
BY DEF NewSnapshot, Snapshots, Absent, Torn, Whole, Files

LEMMA EarlierType == EarlierRecording \in Snapshots
<1>1. Fml2Steps \in Seq(Channels) /\ Fml2Steps # << >>
  BY StepsType, UpstreamsAssumption
<1>2. SubSeq(Fml2Steps, 1, 1) \in Seq(Channels)
  BY <1>1
<1>3. QED
  BY <1>2 DEF EarlierRecording, NewSnapshot, Snapshots

LEMMA InitInv == Init => Inv
<1> SUFFICES ASSUME Init PROVE Inv
  OBVIOUS
<1>1. file \in Files
  BY SnapshotType, EarlierType DEF Init
<1>2. Typed
  <2>1. loaded \in [fallback : BOOLEAN, full : SUBSET Snapshots]
    BY DEF Init, NothingLoaded
  <2>2. inbox \in SUBSET Packets /\ steps \in Seq(Channels)
    BY DEF Init
  <2>3. snapshot \in Snapshots /\ tmp \in Files
    BY SnapshotType DEF Init
  <2>4. crashes \in 0 .. MaxCrashes
    BY UpstreamsAssumption DEF Init
  <2>5. probe \in Nat \ {0} /\ auto_protocol \in Nat /\ sent \in Nat
    BY DEF Init, None
  <2>6. stage \in Stages
    BY DEF Init, Stages
  <2>7. QED
    BY <1>1, <2>1, <2>2, <2>3, <2>4, <2>5, <2>6 DEF Init, Typed
<1>3. SavesTheRecording
  BY DEF Init, SavesTheRecording
<1>4. QED
  BY <1>2, <1>3 DEF Inv

\* A probe that fails leaves the snapshot as it was.
LEMMA FailInv ==
  ASSUME Inv, Probing, Fail, UNCHANGED rest, troubled' \in BOOLEAN
  PROVE  Inv'
<1>1. stage' \in {"Login", "Configuration", "Capturing"}
  BY DEF Fail, NextStage, Probing
<1>2. probe' \in Nat \ {0}
  BY DEF Fail, Inv, Typed
<1>3. connected' = FALSE /\ sent' = 0 /\ inbox' = {} /\ in_configuration' = FALSE /\ steps' = << >>
  BY DEF Fail, Disconnected
<1>4. Typed'
  <2>1. inbox' \in SUBSET Packets /\ steps' \in Seq(Channels) /\ sent' \in Nat
    BY <1>3
  <2>2. stage' \in Stages
    BY <1>1 DEF Stages
  <2>3. snapshot' \in Snapshots
    BY DEF Fail, Inv, Typed
  <2>4. QED
    BY <1>2, <1>3, <2>1, <2>2, <2>3 DEF Inv, Typed, rest, config_vars, disk_vars
<1>5. SavesTheRecording'
  BY <1>1 DEF SavesTheRecording
<1>6. QED
  BY <1>4, <1>5 DEF Inv

\* One that succeeds makes its steps a section.
LEMMA SucceedInv ==
  ASSUME Inv, Probing, Succeed, UNCHANGED rest, troubled' \in BOOLEAN
  PROVE  Inv'
<1>1. stage' \in {"Configuration", "Capturing"}
  BY DEF Succeed, NextStage
<1>2. snapshot' \in Snapshots
  BY DEF Succeed, Inv, Typed, Snapshots
<1>3. /\ connected' = FALSE /\ sent' = 0 /\ inbox' = {} /\ in_configuration' = FALSE
      /\ steps' = << >> /\ probe' = 1
  BY DEF Succeed, Disconnected
<1>4. Typed'
  <2>1. inbox' \in SUBSET Packets /\ steps' \in Seq(Channels) /\ sent' \in Nat
    BY <1>3
  <2>2. stage' \in Stages
    BY <1>1 DEF Stages
  <2>3. probe' \in Nat \ {0}
    BY <1>3
  <2>4. QED
    BY <1>2, <1>3, <2>1, <2>2, <2>3 DEF Inv, Typed, rest, config_vars, disk_vars
<1>5. SavesTheRecording'
  BY <1>1 DEF SavesTheRecording
<1>6. QED
  BY <1>4, <1>5 DEF Inv

\* One that goes on has read a packet, and may have recorded its channel.
LEMMA RecordedInv ==
  ASSUME Inv, Probing, NEW recorded \in Seq(Channels), Recorded(recorded),
         UNCHANGED << rest, troubled >>
  PROVE  Inv'
<1>1. Typed'
  BY DEF Recorded, Inv, Typed, rest, config_vars, disk_vars, Probing
<1>2. SavesTheRecording'
  BY DEF Recorded, Probing, SavesTheRecording
<1>3. QED
  BY <1>1, <1>2 DEF Inv

-----------------------------------------------------------------------------
(* The steps *)

LEMMA ProbeInv ==
  ASSUME Inv, Connect \/ ConnectFails \/ StreamFails \/ Deadline
  PROVE  Inv'
<1>1. Probing \/ connected
  BY DEF Connect, ConnectFails, StreamFails, Deadline
<1>2. Probing
  BY <1>1 DEF Inv, Typed
<1>3. CASE Connect
  <2>1. Typed'
    BY <1>2, <1>3 DEF Connect, Inv, Typed, rest, config_vars, disk_vars, Probing
  <2>2. SavesTheRecording'
    BY <1>3 DEF Connect, Probing, SavesTheRecording
  <2>3. QED
    BY <2>1, <2>2 DEF Inv
<1>4. CASE ConnectFails
  BY <1>2, <1>4, FailInv DEF ConnectFails
<1>5. ASSUME troubled' = (troubled \/ sent < Len(Expected) \/ inbox # {})
      PROVE  troubled' \in BOOLEAN
  BY <1>5 DEF Inv, Typed
<1>6. CASE StreamFails
  BY <1>2, <1>5, <1>6, FailInv DEF StreamFails
<1>7. CASE Deadline
  BY <1>2, <1>5, <1>7, FailInv DEF Deadline
<1>8. QED
  BY <1>3, <1>4, <1>6, <1>7

LEMMA UpstreamInv ==
  ASSUME Inv, UpstreamSends \/ UpstreamChatters
  PROVE  Inv'
<1>1. connected /\ Probing
  BY DEF UpstreamSends, UpstreamChatters, Inv, Typed
<1>2. inbox' \in SUBSET Packets /\ sent' \in Nat
  <2>1. CASE UpstreamSends
    <3>1. Expected[sent + 1] \in Packets
      BY <2>1, ExpectedType DEF UpstreamSends, Inv, Typed
    <3>2. QED
      BY <2>1, <3>1 DEF UpstreamSends, Inv, Typed
  <2>2. CASE UpstreamChatters
    BY <2>2, ChatterType DEF UpstreamChatters, Inv, Typed
  <2>3. QED
    BY <2>1, <2>2
<1>3. UNCHANGED << rest, stage, probe, connected, in_configuration, steps, snapshot, troubled >>
  BY DEF UpstreamSends, UpstreamChatters
<1>4. Typed'
  BY <1>2, <1>3 DEF Inv, Typed, rest, config_vars, disk_vars, Probing
<1>5. SavesTheRecording'
  BY <1>1, <1>3 DEF Probing, SavesTheRecording
<1>6. QED
  BY <1>4, <1>5 DEF Inv

LEMMA ReadInv ==
  ASSUME Inv, Read
  PROVE  Inv'
<1>1. PICK packet \in inbox :
        \/ ReadSetCompression(packet) \/ ReadVelocityRequest(packet) \/ ReadPluginRequest(packet)
        \/ ReadLoginSuccess(packet) \/ ReadDisconnect(packet) \/ ReadUnexpected(packet)
        \/ ReadPluginMessage(packet) \/ ReadFinishConfiguration(packet) \/ ReadOther(packet)
  BY DEF Read
<1>2. connected
  BY <1>1 DEF ReadSetCompression, ReadVelocityRequest, ReadPluginRequest, ReadLoginSuccess,
              ReadDisconnect, ReadUnexpected, ReadPluginMessage, ReadFinishConfiguration,
              ReadOther, ReadsInLogin, ReadsInConfiguration
<1>3. Probing
  BY <1>2 DEF Inv, Typed
<1>4. steps \in Seq(Channels) /\ packet.channel \in Channels /\ troubled \in BOOLEAN
  BY DEF Inv, Typed, Packets
<1>5. Append(steps, packet.channel) \in Seq(Channels)
  BY <1>4
<1>6. UNCHANGED << rest, troubled >>
  BY <1>1 DEF ReadSetCompression, ReadVelocityRequest, ReadPluginRequest, ReadLoginSuccess,
              ReadDisconnect, ReadUnexpected, ReadPluginMessage, ReadFinishConfiguration,
              ReadOther
<1>7. troubled' \in BOOLEAN
  BY <1>4, <1>6
<1>8. ASSUME Fail PROVE Inv'
  BY <1>3, <1>6, <1>7, <1>8, FailInv
<1>9. ASSUME Succeed PROVE Inv'
  BY <1>3, <1>6, <1>7, <1>9, SucceedInv
<1>10. ASSUME Recorded(steps) \/ Recorded(Append(steps, packet.channel)) PROVE Inv'
  BY <1>3, <1>4, <1>5, <1>6, <1>10, RecordedInv
<1>11. CASE ReadSetCompression(packet)
  BY <1>10, <1>11 DEF ReadSetCompression
<1>12. CASE ReadVelocityRequest(packet)
  BY <1>8, <1>10, <1>12 DEF ReadVelocityRequest
<1>13. CASE ReadPluginRequest(packet)
  <2>1. CASE stage = "Login"
    BY <1>10, <1>13, <2>1 DEF ReadPluginRequest
  <2>2. CASE stage # "Login"
    BY <1>10, <1>13, <2>2 DEF ReadPluginRequest
  <2>3. QED
    BY <2>1, <2>2
<1>14. CASE ReadLoginSuccess(packet)
  <2>1. CASE stage = "Login"
    BY <1>9, <1>14, <2>1 DEF ReadLoginSuccess
  <2>2. CASE stage # "Login"
    <3>1. /\ in_configuration' = TRUE /\ inbox' = {}
          /\ UNCHANGED << stage, probe, connected, sent, steps, snapshot >>
      BY <1>14, <2>2 DEF ReadLoginSuccess
    <3>2. Typed'
      BY <1>6, <3>1 DEF Inv, Typed, rest, config_vars, disk_vars, Probing
    <3>3. SavesTheRecording'
      BY <1>3, <3>1 DEF Probing, SavesTheRecording
    <3>4. QED
      BY <3>2, <3>3 DEF Inv
  <2>3. QED
    BY <2>1, <2>2
<1>15. CASE ReadDisconnect(packet)
  BY <1>8, <1>9, <1>15 DEF ReadDisconnect
<1>16. CASE ReadUnexpected(packet)
  BY <1>8, <1>16 DEF ReadUnexpected
<1>17. CASE ReadPluginMessage(packet)
  BY <1>8, <1>10, <1>17 DEF ReadPluginMessage
<1>18. CASE ReadFinishConfiguration(packet)
  BY <1>9, <1>18 DEF ReadFinishConfiguration
<1>19. CASE ReadOther(packet)
  BY <1>10, <1>19 DEF ReadOther
<1>20. QED
  BY <1>1, <1>11, <1>12, <1>13, <1>14, <1>15, <1>16, <1>17, <1>18, <1>19

\* The steps outside the probes: the start, the saving and the loading.
LEMMA StartInv ==
  ASSUME Inv, Start \/ Detect
  PROVE  Inv'
<1>1. stage' \in {"Detecting", "LoadingFallback", "Login"} /\ auto_protocol' \in Nat
  <2>1. upstream.protocol \in Nat
    BY UpstreamsAssumption DEF Inv, Typed
  <2>2. QED
    BY <2>1 DEF Start, Detect, None, Inv, Typed
<1>2. ~connected
  BY DEF Start, Detect, Inv, Typed, Probing
<1>3. UNCHANGED << upstream, config_vars, probe, session_vars, snapshot, disk_vars, loaded,
                   troubled, crashes >>
  BY DEF Start, Detect
<1>4. stage' \in Stages
  BY <1>1 DEF Stages
<1>5. Typed'
  BY <1>1, <1>2, <1>3, <1>4 DEF Inv, Typed, config_vars, session_vars, disk_vars
<1>6. SavesTheRecording'
  BY <1>1 DEF SavesTheRecording
<1>7. QED
  BY <1>5, <1>6 DEF Inv

LEMMA SaveInv ==
  ASSUME Inv, Capture \/ OpenTmp \/ WriteTmp \/ Rename \/ SaveFails
  PROVE  Inv'
<1>1. ~connected /\ UNCHANGED afar /\ UNCHANGED loaded
  BY DEF Capture, OpenTmp, WriteTmp, Rename, SaveFails, Inv, Typed, Probing
<1>2. stage' \in Stages
  BY DEF Capture, OpenTmp, WriteTmp, Rename, SaveFails, Stages
<1>3. snapshot' \in Snapshots /\ file' \in Files /\ tmp' \in Files
  <2>1. CASE Capture
    BY <2>1 DEF Capture, Inv, Typed, Snapshots, disk_vars
  <2>2. CASE OpenTmp
    BY <2>2, SnapshotType DEF OpenTmp, Inv, Typed
  <2>3. CASE WriteTmp
    BY <2>3, SnapshotType DEF WriteTmp, Inv, Typed
  <2>4. CASE Rename
    BY <2>4, SnapshotType DEF Rename, Inv, Typed
  <2>5. CASE SaveFails
    BY <2>5 DEF SaveFails, Inv, Typed, disk_vars
  <2>6. QED
    BY <2>1, <2>2, <2>3, <2>4, <2>5
<1>4. Typed'
  BY <1>1, <1>2, <1>3 DEF Inv, Typed, afar, config_vars, session_vars
<1>5. SavesTheRecording'
  <2>1. CASE Capture
    BY <2>1 DEF Capture, HasSection, SavesTheRecording, Inv, Typed, Snapshots
  <2>2. CASE OpenTmp
    BY <2>2 DEF OpenTmp, SavesTheRecording, HasSection, Inv
  <2>3. CASE WriteTmp
    BY <2>3 DEF WriteTmp, SavesTheRecording, HasSection, Whole, Inv
  <2>4. CASE Rename
    BY <2>4 DEF Rename, SavesTheRecording
  <2>5. CASE SaveFails
    BY <2>5 DEF SaveFails, SavesTheRecording
  <2>6. QED
    BY <2>1, <2>2, <2>3, <2>4, <2>5
<1>6. QED
  BY <1>4, <1>5 DEF Inv

LEMMA LoadInv ==
  ASSUME Inv, LoadFallback \/ LoadSnapshot
  PROVE  Inv'
<1>1. Load(file) \subseteq Snapshots
  BY DEF Load, Files, Inv, Typed
<1>2. loaded' \in [fallback : BOOLEAN, full : SUBSET Snapshots]
  <2>1. CASE LoadFallback
    <3>1. (\E s \in Load(file) : s.status_forge_data) \in BOOLEAN
      OBVIOUS
    <3>2. QED
      BY <2>1, <3>1 DEF LoadFallback, Inv, Typed
  <2>2. CASE LoadSnapshot
    BY <1>1, <2>2 DEF LoadSnapshot, Inv, Typed
  <2>3. QED
    BY <2>1, <2>2
<1>3. /\ ~connected /\ stage' \in {"LoadingSnapshot", "Serving"}
      /\ UNCHANGED << afar, snapshot, disk_vars >>
  BY DEF LoadFallback, LoadSnapshot, Inv, Typed, Probing
<1>4. Typed'
  BY <1>2, <1>3 DEF Inv, Typed, afar, config_vars, session_vars, disk_vars, Stages
<1>5. SavesTheRecording'
  BY <1>3 DEF SavesTheRecording
<1>6. QED
  BY <1>4, <1>5 DEF Inv

LEMMA CrashInv ==
  ASSUME Inv, Crash
  PROVE  Inv'
<1>1. /\ crashes' \in 0 .. MaxCrashes /\ upstream' \in Upstreams /\ stage' = "Starting"
      /\ auto_protocol' \in Nat /\ probe' \in Nat \ {0} /\ troubled' = FALSE
  BY UpstreamsAssumption DEF Crash, None, Inv, Typed
<1>2. /\ connected' = FALSE /\ sent' = 0 /\ inbox' = {} /\ in_configuration' = FALSE
      /\ steps' = << >>
  BY DEF Crash, Disconnected
<1>3. inbox' \in SUBSET Packets /\ steps' \in Seq(Channels) /\ sent' \in Nat
  BY <1>2
<1>4. snapshot' \in Snapshots /\ loaded' \in [fallback : BOOLEAN, full : SUBSET Snapshots]
  BY SnapshotType DEF Crash, NothingLoaded
<1>5. stage' \in Stages
  BY <1>1 DEF Stages
<1>6. UNCHANGED << config_vars, disk_vars >>
  BY DEF Crash
<1>7. Typed'
  BY <1>1, <1>2, <1>3, <1>4, <1>5, <1>6 DEF Inv, Typed, config_vars, disk_vars
<1>8. SavesTheRecording'
  BY <1>1 DEF SavesTheRecording
<1>9. QED
  BY <1>7, <1>8 DEF Inv

LEMMA NextInv == Inv /\ [Next]_vars => Inv'
<1> SUFFICES ASSUME Inv, [Next]_vars PROVE Inv'
  OBVIOUS
<1>1. CASE LimboStep
  BY <1>1, StartInv, ProbeInv, ReadInv, SaveInv, LoadInv DEF LimboStep
<1>2. CASE StreamFails \/ Deadline
  BY <1>2, ProbeInv
<1>3. CASE UpstreamSends \/ UpstreamChatters
  BY <1>3, UpstreamInv
<1>4. CASE Crash
  BY <1>4, CrashInv
<1>5. CASE UNCHANGED vars
  <2>1. Typed'
    BY <1>5 DEF vars, Inv, Typed, config_vars, session_vars, disk_vars, Probing
  <2>2. SavesTheRecording'
    BY <1>5 DEF vars, disk_vars, Inv, SavesTheRecording
  <2>3. QED
    BY <2>1, <2>2 DEF Inv
<1>6. QED
  BY <1>1, <1>2, <1>3, <1>4, <1>5 DEF Next

-----------------------------------------------------------------------------
(* The file of snapshots *)

\* In every reachable state the invariant holds.
THEOREM Invariant == Spec => []Inv
BY InitInv, NextInv, PTL DEF Spec

\* A step of the limbo leaves the file of snapshots or replaces it by a whole
\* recording with a section.
LEMMA StepReplaces == Inv /\ [Next]_vars => [FileStore!Replace]_file
<1> SUFFICES ASSUME Inv, [Next]_vars PROVE [FileStore!Replace]_file
  OBVIOUS
<1>1. CASE Rename
  <2>1. file' = Whole(snapshot) /\ HasSection(snapshot) /\ snapshot \in Snapshots
    BY <1>1 DEF Rename, Inv, Typed, SavesTheRecording
  <2>2. file' \in Recordings
    BY <2>1, SnapshotType DEF Recordings, Whole
  <2>3. QED
    BY <2>2 DEF FileStore!Replace
<1>2. CASE ~Rename
  <2>1. UNCHANGED file
    <3>1. CASE Read
      BY <3>1 DEF Read, ReadSetCompression, ReadVelocityRequest, ReadPluginRequest,
                  ReadLoginSuccess, ReadDisconnect, ReadUnexpected, ReadPluginMessage,
                  ReadFinishConfiguration, ReadOther, rest, disk_vars
    <3>2. CASE Connect \/ ConnectFails \/ StreamFails \/ Deadline \/ UpstreamSends
                 \/ UpstreamChatters
      BY <3>2 DEF Connect, ConnectFails, StreamFails, Deadline, UpstreamSends,
                  UpstreamChatters, rest, disk_vars
    <3>3. CASE Start \/ Detect \/ Capture \/ OpenTmp \/ WriteTmp \/ SaveFails
                 \/ LoadFallback \/ LoadSnapshot \/ Crash
      BY <3>3 DEF Start, Detect, Capture, OpenTmp, WriteTmp, SaveFails, LoadFallback,
                  LoadSnapshot, Crash, disk_vars
    <3>4. CASE UNCHANGED vars
      BY <3>4 DEF vars, disk_vars
    <3>5. QED
      BY <1>2, <3>1, <3>2, <3>3, <3>4 DEF Next, LimboStep
  <2>2. QED
    BY <2>1
<1>3. QED
  BY <1>1, <1>2

\* The recorder keeps the promise of SnapshotFile: no crash and no failure at any
\* step tears, empties or loses the file (save_snapshot).
THEOREM SnapshotFileImplemented == Spec => ImplementsSnapshotFile
<1>1. Init => FileStore!FileInit
  BY DEF Init, FileStore!FileInit
<1>2. QED
  BY <1>1, Invariant, StepReplaces, PTL DEF Spec, ImplementsSnapshotFile, FileStore!FileSpec

-----------------------------------------------------------------------------
(* The lists of probes *)

Probed == {"FML2", "FML3"} \X Nat

LEMMA FallbackType == FallbackProtocols \in Seq(Nat) /\ Len(FallbackProtocols) = 8
BY DEF FallbackProtocols

\* What is left of a list without one of its elements is a list.
LEMMA RemoveAtType ==
  ASSUME NEW S, NEW s \in Seq(S), NEW i \in 1 .. Len(s)
  PROVE  RemoveAt(s, i) \in Seq(S)
<1>1. SubSeq(s, 1, i - 1) \in Seq(S) /\ SubSeq(s, i + 1, Len(s)) \in Seq(S)
  OBVIOUS
<1>2. QED
  BY <1>1 DEF RemoveAt

LEMMA LoginProbesType ==
  ASSUME NEW auto \in Nat
  PROVE  LoginProbes(auto) \in Seq(Probed) /\ Len(LoginProbes(auto)) >= 2
<1>1. /\ Probe("FML3", auto) \in Probed /\ Probe("FML2", auto) \in Probed
      /\ Probe("FML3", 763) \in Probed /\ Probe("FML2", 763) \in Probed
  BY DEF Probe, Probed
<1>2. << Probe("FML3", auto), Probe("FML2", auto) >> \in Seq(Probed)
  BY <1>1
<1>3. << Probe("FML3", 763), Probe("FML2", 763) >> \in Seq(Probed)
  BY <1>1
<1>4. QED
  BY <1>2, <1>3 DEF LoginProbes

\* The protocol of the status ping comes first, and once; without one, the list
\* is the fallback list.
LEMMA ConfigurationProbesType ==
  ASSUME NEW auto \in Nat
  PROVE  /\ ConfigurationProbes(auto) \in Seq(Probed)
         /\ Len(ConfigurationProbes(auto)) >= 1
         /\ auto # None => ConfigurationProbes(auto)[1] = Probe("FML3", auto)
         /\ auto = None => /\ Len(ConfigurationProbes(auto)) = 8
                           /\ \A i \in 1 .. 8 : ConfigurationProbes(auto)[i]
                                                  = Probe("FML3", FallbackProtocols[i])
<1> DEFINE at == CHOOSE i \in DOMAIN FallbackProtocols : FallbackProtocols[i] = auto
           others == IF auto \in Range(FallbackProtocols)
                     THEN RemoveAt(FallbackProtocols, at) ELSE FallbackProtocols
           first == IF auto # None THEN << Probe("FML3", auto) >> ELSE << >>
           next == [i \in 1 .. Len(others) |-> Probe("FML3", others[i])]
<1>1. others \in Seq(Nat)
  <2>1. CASE auto \in Range(FallbackProtocols)
    <3>1. \E i \in DOMAIN FallbackProtocols : FallbackProtocols[i] = auto
      BY <2>1 DEF Range
    <3>2. at \in DOMAIN FallbackProtocols
      BY <3>1
    <3>3. DOMAIN FallbackProtocols = 1 .. Len(FallbackProtocols)
      BY FallbackType
    <3>4. RemoveAt(FallbackProtocols, at) \in Seq(Nat)
      BY <3>2, <3>3, FallbackType, RemoveAtType
    <3>5. QED
      BY <2>1, <3>4
  <2>2. CASE auto \notin Range(FallbackProtocols)
    BY <2>2, FallbackType
  <2>3. QED
    BY <2>1, <2>2
<1>2. auto = None => others = FallbackProtocols
  <2>1. \A i \in DOMAIN FallbackProtocols : FallbackProtocols[i] # 0
    BY DEF FallbackProtocols
  <2>2. QED
    BY <2>1 DEF None, Range
<1>3. ConfigurationProbes(auto) = first \o next
  BY DEF ConfigurationProbes
<1> HIDE DEF others
<1>4. next \in Seq(Probed) /\ Len(next) = Len(others)
  <2>1. \A i \in 1 .. Len(others) : Probe("FML3", others[i]) \in Probed
    BY <1>1 DEF Probe, Probed
  <2>2. Len(others) \in Nat
    BY <1>1
  <2>3. QED
    BY <2>1, <2>2
<1>5. CASE auto # None
  <2>1. first = << Probe("FML3", auto) >> /\ first \in Seq(Probed)
    BY <1>5 DEF Probe, Probed
  <2> HIDE DEF first, next
  <2>2. first \o next \in Seq(Probed) /\ Len(first \o next) = 1 + Len(next)
    BY <1>4, <2>1
  <2>3. (first \o next)[1] = Probe("FML3", auto)
    BY <1>4, <2>1
  <2>4. Len(next) \in Nat
    BY <1>4
  <2>5. QED
    BY <1>3, <1>5, <2>2, <2>3, <2>4
<1>6. CASE auto = None
  <2>1. first = << >>
    BY <1>6
  <2>2. Len(others) = 8 /\ others = FallbackProtocols
    BY <1>2, <1>6, FallbackType
  <2>3. \A i \in 1 .. 8 : next[i] = Probe("FML3", FallbackProtocols[i])
    BY <2>2
  <2> HIDE DEF first, next
  <2>4. first \o next = next
    BY <1>4, <2>1
  <2>5. QED
    BY <1>3, <1>4, <1>6, <2>2, <2>3, <2>4
<1>7. QED
  BY <1>5, <1>6

LEMMA ProbesType ==
  ASSUME Typed
  PROVE  Probes \in Seq(Probed) /\ Len(Probes) >= 1 /\ (stage = "Login" => Len(Probes) >= 2)
<1>1. auto_protocol \in Nat
  BY DEF Typed
<1>2. CASE stage = "Login"
  BY <1>1, <1>2, LoginProbesType DEF Probes
<1>3. CASE stage # "Login"
  BY <1>1, <1>3, ConfigurationProbesType DEF Probes
<1>4. QED
  BY <1>2, <1>3

-----------------------------------------------------------------------------
(* Where the probes are *)

\* A probe is one of its list, and is not begun before the lists; the protocol
\* that was detected is the upstream's; without a connection nothing is underway.
Placed ==
  /\ Probing => probe <= Len(Probes)
  /\ stage \in {"Starting", "Detecting"} => probe = 1 /\ auto_protocol = None
  /\ auto_protocol \in {None, upstream.protocol}
  /\ ~connected => sent = 0 /\ inbox = {} /\ ~in_configuration /\ steps = << >>
  /\ in_configuration => stage = "Configuration"

LEMMA InitPlaced == Init => Placed
<1> SUFFICES ASSUME Init PROVE Placed
  OBVIOUS
<1>1. ~Probing
  BY DEF Init, Probing
<1>2. QED
  BY <1>1 DEF Init, Placed, None

\* A probe that ends makes way for the next of its list, or for the next list.
LEMMA EndPlaced ==
  ASSUME Typed, Placed, Probing, Fail \/ Succeed, UNCHANGED rest
  PROVE  Placed'
<1>1. auto_protocol' = auto_protocol /\ upstream' = upstream
  BY DEF rest
<1>2. sent' = 0 /\ inbox' = {} /\ ~in_configuration' /\ steps' = << >>
  BY DEF Fail, Succeed, Disconnected
<1>3. stage' \in {"Login", "Configuration", "Capturing"}
  BY DEF Fail, Succeed, NextStage, Probing
<1>4. Probing' => probe' <= Len(Probes')
  <2>1. CASE Fail /\ probe < Len(Probes)
    <3>1. Probes' = Probes
      BY <1>1, <2>1 DEF Fail, Probes
    <3>2. probe \in Nat /\ Len(Probes) \in Nat
      BY ProbesType DEF Typed
    <3>3. QED
      BY <2>1, <3>1, <3>2 DEF Fail
  <2>2. CASE Succeed \/ ~(probe < Len(Probes))
    <3>1. probe' = 1 /\ stage' = NextStage
      BY <2>2 DEF Fail, Succeed
    <3>2. stage' # "Login"
      BY <3>1 DEF NextStage
    <3>3. Probes' = ConfigurationProbes(auto_protocol)
      BY <1>1, <3>2 DEF Probes
    <3>4. Len(ConfigurationProbes(auto_protocol)) >= 1
      BY ConfigurationProbesType DEF Typed
    <3>5. QED
      BY <3>1, <3>3, <3>4
  <2>3. QED
    BY <2>1, <2>2
<1>5. auto_protocol' \in {None, upstream'.protocol}
  BY <1>1 DEF Placed
<1>6. QED
  BY <1>2, <1>3, <1>4, <1>5 DEF Placed

LEMMA NextPlaced == Inv /\ Placed /\ [Next]_vars => Placed'
<1> SUFFICES ASSUME Inv, Placed, [Next]_vars PROVE Placed'
  OBVIOUS
<1> USE DEF Inv
<1>1. ASSUME UNCHANGED << upstream, auto_protocol, stage, probe >>,
             Probing, connected', in_configuration' => stage = "Configuration"
      PROVE  Placed'
  <2>1. Probes' = Probes
    BY <1>1 DEF Probes
  <2>2. QED
    BY <1>1, <2>1 DEF Placed, Probing
<1>2. ASSUME ~connected, UNCHANGED << upstream, auto_protocol, probe, session_vars >>,
             stage' \notin {"Starting", "Detecting", "Login", "Configuration"}
      PROVE  Placed'
  BY <1>2 DEF Placed, Probing, session_vars
<1>3. CASE Start
  <2>1. stage' \in {"Detecting", "LoadingFallback"}
    BY <1>3 DEF Start
  <2>2. UNCHANGED << upstream, auto_protocol, probe, session_vars >>
    BY <1>3 DEF Start
  <2>3. QED
    BY <1>3, <2>1, <2>2 DEF Start, Placed, Probing, session_vars
<1>4. CASE Detect
  <2>1. auto_protocol' \in {None, upstream.protocol} /\ stage' = "Login" /\ probe' = 1
        /\ upstream' = upstream /\ UNCHANGED session_vars
    BY <1>4 DEF Detect, Placed
  <2>2. auto_protocol' \in Nat
    <3>1. upstream.protocol \in Nat
      BY UpstreamsAssumption DEF Typed
    <3>2. QED
      BY <2>1, <3>1 DEF None
  <2>3. Probes' = LoginProbes(auto_protocol')
    BY <2>1 DEF Probes
  <2>4. Len(LoginProbes(auto_protocol')) >= 2
    BY <2>2, LoginProbesType
  <2>5. in_configuration => FALSE
    BY <1>4 DEF Detect, Placed
  <2>6. QED
    BY <2>1, <2>3, <2>4, <2>5 DEF Placed, session_vars
<1>5. CASE Connect
  BY <1>1, <1>5 DEF Connect, rest, Placed
<1>6. CASE ConnectFails
  BY <1>6, EndPlaced DEF ConnectFails
<1>7. CASE Read
  <2>1. PICK packet \in inbox :
        \/ ReadSetCompression(packet) \/ ReadVelocityRequest(packet) \/ ReadPluginRequest(packet)
        \/ ReadLoginSuccess(packet) \/ ReadDisconnect(packet) \/ ReadUnexpected(packet)
        \/ ReadPluginMessage(packet) \/ ReadFinishConfiguration(packet) \/ ReadOther(packet)
    BY <1>7 DEF Read
  <2>2. connected /\ Probing /\ UNCHANGED rest
    BY <2>1 DEF ReadSetCompression, ReadVelocityRequest, ReadPluginRequest, ReadLoginSuccess,
                ReadDisconnect, ReadUnexpected, ReadPluginMessage, ReadFinishConfiguration,
                ReadOther, ReadsInLogin, ReadsInConfiguration, Typed
  <2>3. ASSUME Fail \/ Succeed PROVE Placed'
    BY <2>2, <2>3, EndPlaced
  <2>4. ASSUME NEW recorded, Recorded(recorded) PROVE Placed'
    BY <1>1, <2>2, <2>4 DEF Recorded, rest, Placed
  <2>5. CASE ReadLoginSuccess(packet)
    BY <1>1, <2>2, <2>3, <2>5 DEF ReadLoginSuccess, rest, Placed, Probing
  <2>6. CASE ReadSetCompression(packet) \/ ReadVelocityRequest(packet)
             \/ ReadPluginRequest(packet)
    BY <2>3, <2>4, <2>6 DEF ReadSetCompression, ReadVelocityRequest, ReadPluginRequest
  <2>7. CASE ReadDisconnect(packet) \/ ReadUnexpected(packet)
             \/ ReadFinishConfiguration(packet) \/ ReadOther(packet)
    BY <2>3, <2>4, <2>7 DEF ReadDisconnect, ReadUnexpected, ReadFinishConfiguration, ReadOther
  <2>8. CASE ReadPluginMessage(packet)
    BY <2>3, <2>4, <2>8 DEF ReadPluginMessage
  <2>9. QED
    BY <2>1, <2>5, <2>6, <2>7, <2>8
<1>8. CASE Capture \/ OpenTmp \/ WriteTmp \/ Rename \/ SaveFails \/ LoadFallback
            \/ LoadSnapshot
  <2>1. /\ ~connected /\ UNCHANGED afar
        /\ stage' \notin {"Starting", "Detecting", "Login", "Configuration"}
    BY <1>8 DEF Capture, OpenTmp, WriteTmp, Rename, SaveFails, LoadFallback, LoadSnapshot,
                Typed, Probing
  <2>2. QED
    BY <1>2, <2>1 DEF afar
<1>9. CASE StreamFails \/ Deadline
  <2>1. Fail /\ UNCHANGED rest /\ connected
    BY <1>9 DEF StreamFails, Deadline
  <2>2. QED
    BY <2>1, EndPlaced DEF Typed
<1>10. CASE UpstreamSends \/ UpstreamChatters
  BY <1>1, <1>10 DEF UpstreamSends, UpstreamChatters, rest, Placed, Typed
<1>11. CASE Crash
  <2>1. stage' = "Starting" /\ auto_protocol' = None /\ probe' = 1
    BY <1>11 DEF Crash
  <2>2. sent' = 0 /\ inbox' = {} /\ ~in_configuration' /\ steps' = << >>
    BY <1>11 DEF Crash, Disconnected
  <2>3. ~Probing'
    BY <2>1 DEF Probing
  <2>4. QED
    BY <2>1, <2>2, <2>3 DEF Placed
<1>12. CASE UNCHANGED vars
  <2>1. UNCHANGED << upstream, auto_protocol, stage, probe, session_vars >>
    BY <1>12 DEF vars
  <2>2. Probes' = Probes
    BY <2>1 DEF Probes
  <2>3. QED
    BY <2>1, <2>2 DEF Placed, Probing, session_vars
<1>13. QED
  BY <1>3, <1>4, <1>5, <1>6, <1>7, <1>8, <1>9, <1>10, <1>11, <1>12 DEF Next, LimboStep

\* The start of the limbo keeps the types of its state, and no probe is tried that
\* is not in its list (record_and_persist).
THEOREM RecorderTypeOK == Spec => []TypeOK
<1>1. Typed /\ Placed => TypeOK
  BY DEF Placed, TypeOK
<1>2. Inv => Typed
  BY DEF Inv
<1>3. Spec => []Placed
  BY InitPlaced, NextPlaced, Invariant, PTL DEF Spec
<1>4. QED
  BY <1>1, <1>2, <1>3, Invariant, PTL

-----------------------------------------------------------------------------
(* What an upstream answers, packet by packet *)

Fml2Offer(u, marker) ==
  IF marker = u.marker /\ InLogin(u) THEN Offered(u, Fml2Steps) ELSE << >>

Fml3Offer(u, marker) == IF marker = u.marker THEN Offered(u, Fml3Steps) ELSE << >>

Gates(u) == IF u.gated THEN 1 ELSE 0

\* An offer is the handshake, or its first step.
LEMMA OfferedShape ==
  ASSUME NEW u \in Upstreams, NEW offer \in Seq(Channels), offer # << >>
  PROVE  /\ Offered(u, offer) \in Seq(Channels)
         /\ Len(Offered(u, offer)) <= Len(offer)
         /\ \A i \in 1 .. Len(Offered(u, offer)) : Offered(u, offer)[i] = offer[i]
         /\ ~u.impatient => Offered(u, offer) = offer
<1>1. Len(offer) >= 1
  OBVIOUS
<1>2. SubSeq(offer, 1, 1) \in Seq(Channels) /\ Len(SubSeq(offer, 1, 1)) = 1
      /\ SubSeq(offer, 1, 1)[1] = offer[1]
  BY <1>1
<1>3. CASE u.impatient
  BY <1>1, <1>2, <1>3 DEF Offered
<1>4. CASE ~u.impatient
  BY <1>4 DEF Offered
<1>5. QED
  BY <1>3, <1>4

LEMMA Fml2OfferShape ==
  ASSUME NEW u \in Upstreams, NEW marker
  PROVE  /\ Fml2Offer(u, marker) \in Seq(Channels)
         /\ Len(Fml2Offer(u, marker)) <= Len(Fml2Steps)
         /\ \A i \in 1 .. Len(Fml2Offer(u, marker)) : Fml2Offer(u, marker)[i] = Fml2Steps[i]
         /\ \A i \in 1 .. Len(Fml2Offer(u, marker)) :
              Fml2Offer(u, marker)[i] \in Channels \ {Velocity, Brand, Garbage}
         /\ ~u.impatient /\ marker = u.marker /\ InLogin(u) => Fml2Offer(u, marker) = Fml2Steps
         /\ marker # u.marker => Fml2Offer(u, marker) = << >>
<1>1. Fml2Steps \in Seq(Channels) /\ Fml2Steps # << >>
  BY StepsType, UpstreamsAssumption
<1>2. \A i \in 1 .. Len(Fml2Steps) : Fml2Steps[i] \in Channels \ {Velocity, Brand, Garbage}
  <2>1. \A i \in 1 .. Len(Fml2Steps) : Fml2Steps[i] \in Range(Fml2Steps)
    BY <1>1 DEF Range
  <2>2. QED
    BY <1>1, <2>1, UpstreamsAssumption
<1>3. CASE marker = u.marker /\ InLogin(u)
  <2>1. Fml2Offer(u, marker) = Offered(u, Fml2Steps)
    BY <1>3 DEF Fml2Offer
  <2>2. QED
    BY <1>1, <1>2, <1>3, <2>1, OfferedShape
<1>4. CASE ~(marker = u.marker /\ InLogin(u))
  <2>1. Fml2Offer(u, marker) = << >>
    BY <1>4 DEF Fml2Offer
  <2>2. QED
    BY <1>1, <1>4, <2>1
<1>5. QED
  BY <1>3, <1>4

LEMMA Fml3OfferShape ==
  ASSUME NEW u \in Upstreams, NEW marker
  PROVE  /\ Fml3Offer(u, marker) \in Seq(Channels)
         /\ Len(Fml3Offer(u, marker)) <= Len(Fml3Steps)
         /\ \A i \in 1 .. Len(Fml3Offer(u, marker)) : Fml3Offer(u, marker)[i] = Fml3Steps[i]
         /\ \A i \in 1 .. Len(Fml3Offer(u, marker)) :
              /\ Fml3Offer(u, marker)[i] \in Range(Fml3Steps)
              /\ Fml3Offer(u, marker)[i] \notin {Velocity, Brand, Garbage}
         /\ ~u.impatient /\ marker = u.marker => Fml3Offer(u, marker) = Fml3Steps
<1>1. Fml3Steps \in Seq(Channels) /\ Fml3Steps # << >>
  BY StepsType, UpstreamsAssumption
<1>2. \A i \in 1 .. Len(Fml3Steps) :
        Fml3Steps[i] \in Range(Fml3Steps) /\ Fml3Steps[i] \notin {Velocity, Brand, Garbage}
  <2>1. \A i \in 1 .. Len(Fml3Steps) : Fml3Steps[i] \in Range(Fml3Steps)
    BY <1>1 DEF Range
  <2>2. QED
    BY <1>1, <2>1, UpstreamsAssumption
<1>3. CASE marker = u.marker
  <2>1. Fml3Offer(u, marker) = Offered(u, Fml3Steps)
    BY <1>3 DEF Fml3Offer
  <2>2. QED
    BY <1>1, <1>2, <1>3, <2>1, OfferedShape
<1>4. CASE ~(marker = u.marker)
  <2>1. Fml3Offer(u, marker) = << >>
    BY <1>4 DEF Fml3Offer
  <2>2. QED
    BY <1>1, <1>4, <2>1
<1>5. QED
  BY <1>3, <1>4

LEMMA SendingShape ==
  ASSUME NEW id \in 0 .. 255, NEW offer \in Seq(Channels)
  PROVE  /\ Sending(id, offer) \in Seq(Packets)
         /\ Len(Sending(id, offer)) = Len(offer)
         /\ \A i \in 1 .. Len(offer) : Sending(id, offer)[i] = Packet(id, offer[i])
<1>1. Sending(id, offer) \in Seq(Packets)
  BY SendingType
<1>2. QED
  BY <1>1 DEF Sending

\* The two sequences of a concatenation, by position.
LEMMA ConcatShape ==
  ASSUME NEW s \in Seq(Packets), NEW t \in Seq(Packets)
  PROVE  /\ s \o t \in Seq(Packets)
         /\ Len(s \o t) = Len(s) + Len(t)
         /\ \A i \in 1 .. Len(s) : (s \o t)[i] = s[i]
         /\ \A i \in 1 .. Len(t) : (s \o t)[Len(s) + i] = t[i]
OBVIOUS

LoginEnd(u, marker) ==
  IF IF marker = u.marker THEN InLogin(u) /\ u.impatient ELSE u.strict
  THEN Login.disconnect ELSE Login.success

\* In Login: Velocity's request if there is one, the handshake, the end.
LEMMA LoginAnswerShape ==
  ASSUME NEW u \in Upstreams, NEW marker
  PROVE  LET answer == LoginAnswer(u, marker)
             g == Gates(u)
             n == Len(Fml2Offer(u, marker))
         IN /\ answer \in Seq(Packets)
            /\ Len(answer) = g + n + 1
            /\ g = 1 => answer[1] = Packet(4, Velocity)
            /\ \A i \in 1 .. n : answer[g + i] = Packet(4, Fml2Offer(u, marker)[i])
            /\ answer[g + n + 1] = Plain(LoginEnd(u, marker))
<1> DEFINE gate == Sending(Login.custom_query, IF u.gated THEN << Velocity >> ELSE << >>)
           offer == Sending(4, Fml2Offer(u, marker))
           n == Len(Fml2Offer(u, marker))
           end == << Plain(LoginEnd(u, marker)) >>
<1>0. 4 \in 0 .. 255
  OBVIOUS
<1>1. Login.custom_query = 4
  BY LoginIds
<1>2. gate \in Seq(Packets) /\ Len(gate) = Gates(u)
      /\ (Gates(u) = 1 => gate[1] = Packet(4, Velocity))
  <2>1. CASE u.gated
    <3>1. << Velocity >> \in Seq(Channels) /\ Len(<< Velocity >>) = 1
          /\ << Velocity >>[1] = Velocity
      BY ChannelsType
    <3>2. gate = Sending(4, << Velocity >>)
      BY <1>1, <2>1
    <3> HIDE DEF gate
    <3>3. PICK asked \in Seq(Channels) : asked = << Velocity >>
      BY <3>1
    <3>4. Len(asked) = 1 /\ asked[1] = Velocity
      BY <3>1, <3>3
    <3>5. /\ Sending(4, asked) \in Seq(Packets) /\ Len(Sending(4, asked)) = 1
          /\ Sending(4, asked)[1] = Packet(4, Velocity)
      <4>1. /\ Sending(4, asked) \in Seq(Packets)
            /\ Len(Sending(4, asked)) = Len(asked)
            /\ \A i \in 1 .. Len(asked) : Sending(4, asked)[i] = Packet(4, asked[i])
        BY <1>0, SendingShape
      <4>2. QED
        BY <3>4, <4>1
    <3>6. QED
      BY <2>1, <3>2, <3>3, <3>5 DEF Gates
  <2>2. CASE ~u.gated
    <3>1. gate = Sending(4, << >>) /\ << >> \in Seq(Channels) /\ Len(<< >>) = 0
      BY <1>1, <2>2
    <3> HIDE DEF gate
    <3>2. PICK asked \in Seq(Channels) : asked = << >>
      BY <3>1
    <3>3. Len(asked) = 0
      BY <3>2
    <3>4. Sending(4, asked) \in Seq(Packets) /\ Len(Sending(4, asked)) = 0
      BY <1>0, <3>3, SendingShape
    <3>5. QED
      BY <2>2, <3>1, <3>2, <3>4 DEF Gates
  <2>3. QED
    BY <2>1, <2>2
<1>3. offer \in Seq(Packets) /\ Len(offer) = n
      /\ \A i \in 1 .. n : offer[i] = Packet(4, Fml2Offer(u, marker)[i])
  BY SendingShape, Fml2OfferShape
<1>4. end \in Seq(Packets) /\ Len(end) = 1 /\ end[1] = Plain(LoginEnd(u, marker))
  <2>1. LoginEnd(u, marker) \in 0 .. 255
    BY LoginIds DEF LoginEnd
  <2>2. QED
    BY <2>1, PlainType
<1>5. LoginAnswer(u, marker) = (gate \o offer) \o end
  <2>1. offer = IF marker = u.marker /\ InLogin(u)
                THEN Sending(Login.custom_query, Offered(u, Fml2Steps)) ELSE << >>
    <3>1. CASE marker = u.marker /\ InLogin(u)
      BY <1>1, <3>1 DEF Fml2Offer
    <3>2. CASE ~(marker = u.marker /\ InLogin(u))
      <4>1. Fml2Offer(u, marker) = << >>
        BY <3>2 DEF Fml2Offer
      <4>2. QED
        BY <1>3, <3>2, <4>1
    <3>3. QED
      BY <3>1, <3>2
  <2>2. QED
    BY <2>1 DEF LoginAnswer, LoginEnd
<1>6. n \in Nat /\ Gates(u) \in Nat
  BY Fml2OfferShape DEF Gates
<1> HIDE DEF gate, offer, n, end
<1>7. /\ gate \o offer \in Seq(Packets)
      /\ Len(gate \o offer) = Gates(u) + n
      /\ \A i \in 1 .. Gates(u) : (gate \o offer)[i] = gate[i]
      /\ \A i \in 1 .. n : (gate \o offer)[Gates(u) + i] = offer[i]
  BY <1>2, <1>3, ConcatShape
<1>8. PICK both : both = gate \o offer
  OBVIOUS
<1>9. /\ both \o end \in Seq(Packets)
      /\ Len(both \o end) = Gates(u) + n + 1
      /\ \A i \in 1 .. Gates(u) + n : (both \o end)[i] = both[i]
      /\ (both \o end)[Gates(u) + n + 1] = end[1]
  <2>1. both \in Seq(Packets) /\ Len(both) = Gates(u) + n
    BY <1>7, <1>8
  <2>2. /\ both \o end \in Seq(Packets)
        /\ Len(both \o end) = Len(both) + Len(end)
        /\ \A i \in 1 .. Len(both) : (both \o end)[i] = both[i]
        /\ \A i \in 1 .. Len(end) : (both \o end)[Len(both) + i] = end[i]
    BY <1>4, <2>1, ConcatShape
  <2>3. QED
    BY <1>4, <1>6, <2>1, <2>2
<1>10. Gates(u) = 1 => (both \o end)[1] = gate[1]
  BY <1>6, <1>7, <1>8, <1>9
<1>11. \A i \in 1 .. n : (both \o end)[Gates(u) + i] = offer[i]
  BY <1>6, <1>7, <1>8, <1>9
<1>12. LoginAnswer(u, marker) = both \o end
  BY <1>5, <1>8
<1>13. QED
  BY <1>2, <1>3, <1>4, <1>9, <1>10, <1>11, <1>12 DEF n

Known(u) == IF u.protocol >= 766 THEN 1 ELSE 0

ConfigurationEnd(u, marker) ==
  IF marker = u.marker /\ u.impatient THEN Config(u.protocol).disconnect
                                      ELSE Config(u.protocol).finish

\* In Configuration: the packs it knows, from 1.20.5 on; its brand, the registries,
\* the handshake, the end.
LEMMA ConfigurationAnswerShape ==
  ASSUME NEW u \in Upstreams, NEW marker
  PROVE  LET answer == ConfigurationAnswer(u, marker)
             id == Config(u.protocol)
             k == Known(u)
             n == Len(Fml3Offer(u, marker))
         IN /\ answer \in Seq(Packets)
            /\ Len(answer) = k + n + 3
            /\ k = 1 => answer[1] = Plain(14)
            /\ answer[k + 1] = Packet(id.custom_payload, Brand)
            /\ answer[k + 2] = Plain(id.registry)
            /\ \A i \in 1 .. n :
                 answer[k + 2 + i] = Packet(id.custom_payload, Fml3Offer(u, marker)[i])
            /\ answer[k + n + 3] = Plain(ConfigurationEnd(u, marker))
<1> DEFINE id == Config(u.protocol)
           known == IF u.protocol >= 766 THEN << Plain(SelectKnownPacks) >> ELSE << >>
           fixed == << Packet(id.custom_payload, Brand), Plain(id.registry) >>
           offer == Sending(id.custom_payload, Fml3Offer(u, marker))
           n == Len(Fml3Offer(u, marker))
           end == << Plain(ConfigurationEnd(u, marker)) >>
<1>1. id.custom_payload \in 0 .. 255 /\ id.registry \in 0 .. 255
  BY ConfigIds
<1>2. known \in Seq(Packets) /\ Len(known) = Known(u)
      /\ (Known(u) = 1 => known[1] = Plain(14))
  <2>1. << Plain(14) >> \in Seq(Packets)
    BY PlainType
  <2>2. QED
    BY <2>1 DEF SelectKnownPacks, Known
<1>3. fixed \in Seq(Packets) /\ Len(fixed) = 2
      /\ fixed[1] = Packet(id.custom_payload, Brand) /\ fixed[2] = Plain(id.registry)
  <2>1. Packet(id.custom_payload, Brand) \in Packets /\ Plain(id.registry) \in Packets
    BY <1>1, PacketType, PlainType, ChannelsType
  <2>2. QED
    BY <2>1
<1>4. offer \in Seq(Packets) /\ Len(offer) = n
      /\ \A i \in 1 .. n : offer[i] = Packet(id.custom_payload, Fml3Offer(u, marker)[i])
  BY <1>1, SendingShape, Fml3OfferShape
<1>5. end \in Seq(Packets) /\ Len(end) = 1 /\ end[1] = Plain(ConfigurationEnd(u, marker))
  <2>1. ConfigurationEnd(u, marker) \in 0 .. 255
    BY ConfigIds DEF ConfigurationEnd
  <2>2. QED
    BY <2>1, PlainType
<1>6. ConfigurationAnswer(u, marker) = ((known \o fixed) \o offer) \o end
  <2>1. offer = IF marker = u.marker
                THEN Sending(id.custom_payload, Offered(u, Fml3Steps)) ELSE << >>
    <3>1. CASE marker = u.marker
      BY <3>1 DEF Fml3Offer
    <3>2. CASE ~(marker = u.marker)
      <4>1. Fml3Offer(u, marker) = << >>
        BY <3>2 DEF Fml3Offer
      <4>2. QED
        BY <1>4, <3>2, <4>1
    <3>3. QED
      BY <3>1, <3>2
  <2>2. QED
    BY <2>1 DEF ConfigurationAnswer, ConfigurationEnd
<1>7. n \in Nat /\ Known(u) \in Nat
  BY Fml3OfferShape DEF Known
<1>8. PICK a : a = Packet(id.custom_payload, Brand)
  OBVIOUS
<1>9. PICK b : b = Plain(id.registry)
  OBVIOUS
<1> HIDE DEF known, fixed, offer, n, end
<1>10. PICK one : one = known \o fixed
  OBVIOUS
<1>11. /\ one \in Seq(Packets) /\ Len(one) = Known(u) + 2
       /\ Known(u) = 1 => one[1] = Plain(14)
       /\ one[Known(u) + 1] = fixed[1] /\ one[Known(u) + 2] = fixed[2]
  <2>1. /\ one \in Seq(Packets) /\ Len(one) = Len(known) + Len(fixed)
        /\ \A i \in 1 .. Len(known) : one[i] = known[i]
        /\ \A i \in 1 .. Len(fixed) : one[Len(known) + i] = fixed[i]
    BY <1>2, <1>3, <1>10, ConcatShape
  <2>2. QED
    BY <1>2, <1>3, <1>7, <2>1
<1>12. PICK two : two = one \o offer
  OBVIOUS
<1>13. /\ two \in Seq(Packets) /\ Len(two) = Known(u) + 2 + n
       /\ \A i \in 1 .. Known(u) + 2 : two[i] = one[i]
       /\ \A i \in 1 .. n : two[Known(u) + 2 + i] = offer[i]
  <2>1. /\ two \in Seq(Packets) /\ Len(two) = Len(one) + Len(offer)
        /\ \A i \in 1 .. Len(one) : two[i] = one[i]
        /\ \A i \in 1 .. Len(offer) : two[Len(one) + i] = offer[i]
    BY <1>4, <1>11, <1>12, ConcatShape
  <2>2. QED
    BY <1>4, <1>7, <1>11, <2>1
<1>14. PICK all : all = two \o end
  OBVIOUS
<1>15. /\ all \in Seq(Packets) /\ Len(all) = Known(u) + n + 3
       /\ \A i \in 1 .. Known(u) + 2 + n : all[i] = two[i]
       /\ all[Known(u) + n + 3] = end[1]
  <2>1. /\ all \in Seq(Packets) /\ Len(all) = Len(two) + Len(end)
        /\ \A i \in 1 .. Len(two) : all[i] = two[i]
        /\ \A i \in 1 .. Len(end) : all[Len(two) + i] = end[i]
    BY <1>5, <1>13, <1>14, ConcatShape
  <2>2. QED
    BY <1>5, <1>7, <1>13, <2>1
<1>16. /\ Known(u) = 1 => all[1] = one[1]
       /\ all[Known(u) + 1] = one[Known(u) + 1] /\ all[Known(u) + 2] = one[Known(u) + 2]
  <2>1. \A i \in 1 .. Known(u) + 2 : all[i] = one[i]
    BY <1>7, <1>13, <1>15
  <2>2. /\ Known(u) = 1 => 1 \in 1 .. Known(u) + 2
        /\ Known(u) + 1 \in 1 .. Known(u) + 2 /\ Known(u) + 2 \in 1 .. Known(u) + 2
    BY <1>7
  <2>3. QED
    BY <2>1, <2>2
<1>17. \A i \in 1 .. n : all[Known(u) + 2 + i] = offer[i]
  BY <1>7, <1>13, <1>15
<1>18. ConfigurationAnswer(u, marker) = all
  BY <1>6, <1>10, <1>12, <1>14
<1>19. QED
  BY <1>3, <1>4, <1>5, <1>11, <1>15, <1>16, <1>17, <1>18 DEF n

ConfigurationPart(u, marker) ==
  IF InLogin(u) THEN << >> ELSE ConfigurationAnswer(u, marker)

\* Up to 1.20.1 the answer ends with Login.
LEMMA AnswerShape ==
  ASSUME NEW u \in Upstreams, NEW marker, ~u.online_mode
  PROVE  LET answer == Answer(u, marker, u.protocol)
             login == LoginAnswer(u, marker)
             config == ConfigurationPart(u, marker)
         IN /\ answer \in Seq(Packets) /\ config \in Seq(Packets)
            /\ Len(answer) = 1 + Len(login) + Len(config)
            /\ answer[1] = Plain(3)
            /\ \A i \in 1 .. Len(login) : answer[1 + i] = login[i]
            /\ \A i \in 1 .. Len(config) : answer[1 + Len(login) + i] = config[i]
<1> DEFINE login == LoginAnswer(u, marker)
           config == ConfigurationPart(u, marker)
           start == << Plain(Login.compression) >>
<1>1. login \in Seq(Packets) /\ config \in Seq(Packets)
  BY LoginAnswerType, ConfigurationAnswerType DEF ConfigurationPart
<1>2. start \in Seq(Packets) /\ Len(start) = 1 /\ start[1] = Plain(3)
  BY PlainType, LoginIds
<1>3. Answer(u, marker, u.protocol) = (start \o login) \o config
  BY DEF Answer, ConfigurationPart
<1> HIDE DEF login, config, start
<1>4. PICK one : one = start \o login
  OBVIOUS
<1>5. /\ one \in Seq(Packets) /\ Len(one) = Len(start) + Len(login)
      /\ \A i \in 1 .. Len(start) : one[i] = start[i]
      /\ \A i \in 1 .. Len(login) : one[Len(start) + i] = login[i]
  BY <1>1, <1>2, <1>4, ConcatShape
<1>6. PICK all : all = one \o config
  OBVIOUS
<1>7. /\ all \in Seq(Packets) /\ Len(all) = Len(one) + Len(config)
      /\ \A i \in 1 .. Len(one) : all[i] = one[i]
      /\ \A i \in 1 .. Len(config) : all[Len(one) + i] = config[i]
  BY <1>1, <1>5, <1>6, ConcatShape
<1>8. Len(login) \in Nat /\ Len(config) \in Nat
  BY <1>1
<1>9. /\ Len(all) = 1 + Len(login) + Len(config) /\ all[1] = Plain(3)
      /\ \A i \in 1 .. Len(login) : all[1 + i] = login[i]
      /\ \A i \in 1 .. Len(config) : all[1 + Len(login) + i] = config[i]
  BY <1>2, <1>5, <1>7, <1>8
<1>10. Answer(u, marker, u.protocol) = all
  BY <1>3, <1>4, <1>6
<1>11. QED
  BY <1>1, <1>7, <1>9, <1>10 DEF login, config

-----------------------------------------------------------------------------
(* The steps of a handshake are one run of packets of the answer *)

\* A packet whose channel a probe of this list records.
Counts(where, packet) ==
  IF where = "Login" THEN packet.id = 4 /\ packet.channel # Velocity
                     ELSE packet.id = 1 /\ packet.channel \in Range(Fml3Steps)

StepsOf(where) == IF where = "Login" THEN Fml2Steps ELSE Fml3Steps

\* After the first off packets come m steps, from the first on, and no others.
Shape(where, answer, off, m) ==
  /\ m <= Len(StepsOf(where)) /\ off + m <= Len(answer)
  /\ \A j \in 1 .. Len(answer) : Counts(where, answer[j]) <=> (off < j /\ j <= off + m)
  /\ \A i \in 1 .. m : answer[off + i].channel = StepsOf(where)[i]

\* The packets of Login before its end, of an answer up to position n.
BeforeEnd(answer, n, gated) ==
  \A j \in 1 .. n : answer[j].id \in {3, 4} /\ (answer[j].channel = Velocity => gated)

LEMMA PacketFields ==
  ASSUME NEW id, NEW channel
  PROVE  /\ Packet(id, channel).id = id /\ Packet(id, channel).channel = channel
         /\ Plain(id).id = id /\ Plain(id).channel = Garbage
BY DEF Packet, Plain

LEMMA ChannelsDiffer ==
  /\ Velocity # Brand /\ Velocity # Garbage /\ Brand # Garbage
  /\ Velocity \notin Range(Fml3Steps) /\ Brand \notin Range(Fml3Steps)
  /\ Garbage \notin Range(Fml3Steps)
<1>1. Velocity # Brand /\ Velocity # Garbage /\ Brand # Garbage
  BY DEF Velocity, Brand, Garbage
<1>2. QED
  BY <1>1, UpstreamsAssumption

LoginLength(u, marker) == Gates(u) + Len(Fml2Offer(u, marker)) + 2

\* The answer of an upstream of the same protocol, through Login.
LEMMA LoginPackets ==
  ASSUME NEW u \in Upstreams, NEW marker, ~u.online_mode
  PROVE  LET answer == Answer(u, marker, u.protocol)
             config == ConfigurationPart(u, marker)
             n == Len(Fml2Offer(u, marker))
             b == LoginLength(u, marker)
         IN /\ answer \in Seq(Packets) /\ config \in Seq(Packets)
            /\ n \in Nat /\ Gates(u) \in {0, 1} /\ b \in Nat
            /\ Len(answer) = b + Len(config)
            /\ answer[1] = Plain(3)
            /\ Gates(u) = 1 => answer[2] = Packet(4, Velocity)
            /\ \A i \in 1 .. n : answer[1 + Gates(u) + i] = Packet(4, Fml2Offer(u, marker)[i])
            /\ answer[b] = Plain(LoginEnd(u, marker))
            /\ \A i \in 1 .. Len(config) : answer[b + i] = config[i]
<1> DEFINE answer == Answer(u, marker, u.protocol)
           login == LoginAnswer(u, marker)
           config == ConfigurationPart(u, marker)
           n == Len(Fml2Offer(u, marker))
           g == Gates(u)
<1>1. /\ answer \in Seq(Packets) /\ config \in Seq(Packets)
      /\ Len(answer) = 1 + Len(login) + Len(config)
      /\ answer[1] = Plain(3)
      /\ \A i \in 1 .. Len(login) : answer[1 + i] = login[i]
      /\ \A i \in 1 .. Len(config) : answer[1 + Len(login) + i] = config[i]
  BY AnswerShape
<1>2. /\ Len(login) = g + n + 1
      /\ g = 1 => login[1] = Packet(4, Velocity)
      /\ \A i \in 1 .. n : login[g + i] = Packet(4, Fml2Offer(u, marker)[i])
      /\ login[g + n + 1] = Plain(LoginEnd(u, marker))
  BY LoginAnswerShape
<1>3. n \in Nat /\ g \in {0, 1}
  BY Fml2OfferShape DEF Gates
<1> HIDE DEF answer, login, config, n, g
<1>4. g = 1 => answer[2] = login[1]
  BY <1>1, <1>2, <1>3
<1>5. \A i \in 1 .. n : answer[1 + g + i] = login[g + i]
  <2>1. TAKE i \in 1 .. n
  <2>2. g + i \in 1 .. Len(login) /\ 1 + (g + i) = 1 + g + i
    BY <1>2, <1>3
  <2>3. QED
    BY <1>1, <2>2
<1>6. answer[g + n + 2] = login[g + n + 1]
  BY <1>1, <1>2, <1>3
<1>7. \A i \in 1 .. Len(config) : answer[g + n + 2 + i] = config[i]
  BY <1>1, <1>2, <1>3
<1>8. Len(answer) = g + n + 2 + Len(config) /\ g + n + 2 \in Nat
  BY <1>1, <1>2, <1>3
<1>9. QED
  BY <1>1, <1>2, <1>3, <1>4, <1>5, <1>6, <1>7, <1>8 DEF answer, login, config, n, g, LoginLength

\* Through Login there are no steps of Configuration, and the steps of Login are
\* the offered ones.
LEMMA LoginCounts ==
  ASSUME NEW u \in Upstreams, NEW marker, ~u.online_mode
  PROVE  LET answer == Answer(u, marker, u.protocol)
             n == Len(Fml2Offer(u, marker))
             b == LoginLength(u, marker)
             off == 1 + Gates(u)
         IN /\ \A j \in 1 .. b : ~Counts("Configuration", answer[j])
            /\ \A j \in 1 .. b : Counts("Login", answer[j]) <=> (off < j /\ j <= off + n)
            /\ \A i \in 1 .. n : answer[off + i].channel = Fml2Steps[i]
            /\ BeforeEnd(answer, b - 1, u.gated)
            /\ answer[b].id = LoginEnd(u, marker)
<1> DEFINE offer == Fml2Offer(u, marker)
           n == Len(Fml2Offer(u, marker))
           b == LoginLength(u, marker)
           g == Gates(u)
<1>1. PICK answer : answer = Answer(u, marker, u.protocol)
  OBVIOUS
<1>2. /\ n \in Nat /\ g \in {0, 1} /\ b = g + n + 2
      /\ answer[1] = Plain(3)
      /\ g = 1 => answer[2] = Packet(4, Velocity)
      /\ \A i \in 1 .. n : answer[1 + g + i] = Packet(4, offer[i])
      /\ answer[b] = Plain(LoginEnd(u, marker))
  BY <1>1, LoginPackets DEF LoginLength
<1>3. /\ \A i \in 1 .. n : offer[i] = Fml2Steps[i]
      /\ \A i \in 1 .. n : offer[i] # Velocity
  BY Fml2OfferShape
<1>4. LoginEnd(u, marker) \in {0, 2}
  BY LoginIds DEF LoginEnd
<1>5. g = 1 => u.gated
  BY DEF Gates
<1> HIDE DEF offer, n, b, g
<1>6. \A j \in 1 .. b : j = 1 \/ (g = 1 /\ j = 2) \/ j = b \/ j - 1 - g \in 1 .. n
  BY <1>2
<1>7. \A i \in 1 .. n : answer[1 + g + i].id = 4 /\ answer[1 + g + i].channel = Fml2Steps[i]
                        /\ answer[1 + g + i].channel # Velocity
  BY <1>2, <1>3, PacketFields
<1>8. /\ answer[1].id = 3 /\ answer[1].channel = Garbage
      /\ g = 1 => answer[2].id = 4 /\ answer[2].channel = Velocity
      /\ answer[b].id = LoginEnd(u, marker)
  BY <1>2, PacketFields
<1>9. ASSUME NEW j \in 1 .. b
      PROVE  /\ ~Counts("Configuration", answer[j])
             /\ Counts("Login", answer[j]) <=> (1 + g < j /\ j <= 1 + g + n)
             /\ j # b => answer[j].id \in {3, 4} /\ (answer[j].channel = Velocity => u.gated)
  <2>1. CASE j = 1
    BY <1>2, <1>8, <2>1, ChannelsDiffer DEF Counts
  <2>2. CASE g = 1 /\ j = 2
    BY <1>2, <1>5, <1>8, <2>2 DEF Counts
  <2>3. CASE j = b
    BY <1>2, <1>4, <1>8, <2>3 DEF Counts
  <2>4. CASE j - 1 - g \in 1 .. n
    <3>1. j = 1 + g + (j - 1 - g)
      BY <1>2
    <3>2. answer[j].id = 4 /\ answer[j].channel # Velocity
      BY <1>7, <2>4, <3>1
    <3>3. 1 + g < j /\ j <= 1 + g + n
      BY <1>2, <2>4
    <3>4. QED
      BY <3>2, <3>3 DEF Counts
  <2>5. QED
    BY <1>6, <2>1, <2>2, <2>3, <2>4
<1>10. BeforeEnd(answer, b - 1, u.gated)
  <2>1. \A j \in 1 .. b - 1 : j \in 1 .. b /\ j # b
    BY <1>2
  <2>2. QED
    BY <1>9, <2>1 DEF BeforeEnd
<1>11. QED
  BY <1>1, <1>7, <1>8, <1>9, <1>10 DEF b, n, g

\* From 1.20.5 on the part of Configuration has the offered steps as a run; before,
\* their number is another. No packet of Configuration looks like a step of Login.
LEMMA ConfigurationCounts ==
  ASSUME NEW u \in Upstreams, NEW marker
  PROVE  LET config == ConfigurationAnswer(u, marker)
             n == Len(Fml3Offer(u, marker))
         IN /\ Len(config) = Known(u) + n + 3 /\ n \in Nat /\ Known(u) \in {0, 1}
            /\ \A j \in 1 .. Len(config) : ~Counts("Login", config[j])
            /\ u.protocol < 766 =>
                 \A j \in 1 .. Len(config) : ~Counts("Configuration", config[j])
            /\ u.protocol >= 766 =>
                 /\ Known(u) = 1
                 /\ \A j \in 1 .. Len(config) :
                      Counts("Configuration", config[j]) <=> (3 < j /\ j <= 3 + n)
                 /\ \A i \in 1 .. n : config[3 + i].channel = Fml3Steps[i]
                 /\ \A j \in 1 .. Len(config) - 1 :
                      /\ config[j].id \in {1, 7, 14}
                      /\ config[j].id = 1 => config[j].channel # Garbage
                 /\ config[Len(config)].id = ConfigurationEnd(u, marker)
<1> DEFINE offer == Fml3Offer(u, marker)
           n == Len(Fml3Offer(u, marker))
           id == Config(u.protocol)
           k == Known(u)
<1>1. PICK config : config = ConfigurationAnswer(u, marker)
  OBVIOUS
<1>2. /\ Len(config) = k + n + 3
      /\ k = 1 => config[1] = Plain(14)
      /\ config[k + 1] = Packet(id.custom_payload, Brand)
      /\ config[k + 2] = Plain(id.registry)
      /\ \A i \in 1 .. n : config[k + 2 + i] = Packet(id.custom_payload, offer[i])
      /\ config[k + n + 3] = Plain(ConfigurationEnd(u, marker))
  BY <1>1, ConfigurationAnswerShape
<1>3. /\ n \in Nat /\ k \in {0, 1}
      /\ \A i \in 1 .. n : offer[i] = Fml3Steps[i]
      /\ \A i \in 1 .. n : offer[i] \in Range(Fml3Steps) /\ offer[i] # Garbage
  BY Fml3OfferShape DEF Known
<1>4. u.protocol \in Nat
  BY UpstreamsAssumption
<1>5. /\ u.protocol < 766 => /\ id.custom_payload = 0 /\ id.registry = 5 /\ k = 0
                             /\ ConfigurationEnd(u, marker) \in {1, 2}
      /\ u.protocol >= 766 => /\ id.custom_payload = 1 /\ id.registry = 7 /\ k = 1
                              /\ ConfigurationEnd(u, marker) \in {2, 3}
  <2>1. CASE u.protocol < 766
    BY <1>4, <2>1 DEF Config, ConfigurationEnd, Known
  <2>2. CASE u.protocol >= 766
    BY <1>4, <2>2 DEF Config, ConfigurationEnd, Known
  <2>3. QED
    BY <1>4, <2>1, <2>2
<1> HIDE DEF offer, n, id, k
<1>6. /\ config[k + 1].id = id.custom_payload /\ config[k + 1].channel = Brand
      /\ config[k + 2].id = id.registry /\ config[k + 2].channel = Garbage
      /\ \A i \in 1 .. n : config[k + 2 + i].id = id.custom_payload
                           /\ config[k + 2 + i].channel = offer[i]
      /\ config[k + n + 3].id = ConfigurationEnd(u, marker)
      /\ config[k + n + 3].channel = Garbage
      /\ k = 1 => (config[1].id = 14 /\ config[1].channel = Garbage)
  <2>1. /\ config[k + 1].id = id.custom_payload /\ config[k + 1].channel = Brand
        /\ config[k + 2].id = id.registry /\ config[k + 2].channel = Garbage
    BY <1>2, PacketFields
  <2>2. \A i \in 1 .. n : config[k + 2 + i].id = id.custom_payload
                           /\ config[k + 2 + i].channel = offer[i]
    BY <1>2, PacketFields
  <2>3. /\ config[k + n + 3].id = ConfigurationEnd(u, marker)
        /\ config[k + n + 3].channel = Garbage
    BY <1>2, PacketFields
  <2>4. k = 1 => (config[1].id = 14 /\ config[1].channel = Garbage)
    <3>1. Plain(14).id = 14 /\ Plain(14).channel = Garbage
      BY PacketFields
    <3>2. QED
      BY <1>2, <3>1
  <2>5. QED
    BY <2>1, <2>2, <2>3, <2>4
<1>7. \A j \in 1 .. k + n + 3 : \/ k = 1 /\ j = 1
                                \/ j = k + 1 \/ j = k + 2 \/ j = k + n + 3
                                \/ j - k - 2 \in 1 .. n
  BY <1>3
<1>8. ASSUME NEW j \in 1 .. Len(config)
      PROVE  /\ ~Counts("Login", config[j])
             /\ u.protocol < 766 => ~Counts("Configuration", config[j])
             /\ u.protocol >= 766 =>
                  /\ Counts("Configuration", config[j]) <=> (3 < j /\ j <= 3 + n)
                  /\ j # Len(config) => /\ config[j].id \in {1, 7, 14}
                                        /\ config[j].id = 1 => config[j].channel # Garbage
  <2>0. u.protocol < 766 \/ u.protocol >= 766
    BY <1>4
  <2>1. CASE k = 1 /\ j = 1
    <3>1. config[j].id = 14 /\ ~(3 < j)
      BY <1>6, <2>1
    <3>2. QED
      BY <3>1 DEF Counts
  <2>2. CASE j = k + 1
    <3>1. config[j].id = id.custom_payload /\ config[j].channel = Brand /\ ~(3 < j)
      BY <1>3, <1>6, <2>2
    <3>2. QED
      BY <1>5, <2>0, <3>1, ChannelsDiffer DEF Counts
  <2>3. CASE j = k + 2
    <3>1. config[j].id = id.registry /\ config[j].channel = Garbage /\ ~(3 < j)
      BY <1>3, <1>6, <2>3
    <3>2. QED
      BY <1>5, <2>0, <3>1, ChannelsDiffer DEF Counts
  <2>4. CASE j = k + n + 3
    <3>1. /\ config[j].id = ConfigurationEnd(u, marker) /\ config[j].channel = Garbage
          /\ j = Len(config)
      BY <1>2, <1>6, <2>4
    <3>2. k = 1 => ~(j <= 3 + n)
      BY <1>3, <2>4
    <3>3. QED
      BY <1>5, <2>0, <3>1, <3>2, ChannelsDiffer DEF Counts
  <2>5. CASE j - k - 2 \in 1 .. n
    <3>1. PICK i \in 1 .. n : j = k + 2 + i
      BY <1>3, <2>5
    <3>2. /\ config[j].id = id.custom_payload
          /\ config[j].channel \in Range(Fml3Steps) /\ config[j].channel # Garbage
      BY <1>3, <1>6, <3>1
    <3>3. k = 1 => 3 < j /\ j <= 3 + n
      BY <1>3, <2>5
    <3>4. QED
      BY <1>5, <2>0, <3>2, <3>3 DEF Counts
  <2>6. QED
    BY <1>2, <1>7, <2>1, <2>2, <2>3, <2>4, <2>5
<1>9. k = 1 => \A i \in 1 .. n : config[3 + i].channel = Fml3Steps[i]
  BY <1>3, <1>6
<1>10. \A j \in 1 .. Len(config) - 1 : j \in 1 .. Len(config) /\ j # Len(config)
  BY <1>2, <1>3
<1>11. config[Len(config)].id = ConfigurationEnd(u, marker)
  BY <1>2, <1>6
<1>12. Len(ConfigurationAnswer(u, marker)) = Known(u) + n + 3
  BY <1>1, <1>2 DEF k
<1>13. QED
  BY <1>1, <1>3, <1>5, <1>8, <1>9, <1>10, <1>11, <1>12 DEF k, n

\* Wherever the probe and whatever the upstream: the steps that the probe records
\* are one run, in order.
LEMMA HasShape ==
  ASSUME NEW u \in Upstreams, NEW marker, NEW protocol, NEW where
  PROVE  /\ Answer(u, marker, protocol) \in Seq(Packets)
         /\ \E off, m \in Nat : Shape(where, Answer(u, marker, protocol), off, m)
<1>1. PICK answer : answer = Answer(u, marker, protocol)
  OBVIOUS
<1>2. answer \in Seq(Packets) /\ Len(answer) \in Nat
  BY <1>1, AnswerType
<1>3. Len(StepsOf(where)) \in Nat
  BY UpstreamsAssumption DEF StepsOf
<1>4. ASSUME \A j \in 1 .. Len(answer) : ~Counts(where, answer[j])
      PROVE  Shape(where, answer, 0, 0)
  BY <1>2, <1>3, <1>4 DEF Shape
<1>5. CASE protocol # u.protocol
  <2>1. answer = << Plain(0) >>
    BY <1>1, <1>5, LoginIds DEF Answer
  <2>2. Len(answer) = 1 /\ answer[1].id = 0
    BY <2>1, PacketFields DEF Plain, Packet
  <2>3. \A j \in 1 .. Len(answer) : ~Counts(where, answer[j])
    BY <2>2 DEF Counts
  <2>4. QED
    BY <1>1, <1>2, <1>4, <2>3
<1>6. CASE protocol = u.protocol /\ u.online_mode
  <2>1. answer = << Plain(1) >>
    BY <1>1, <1>6, LoginIds DEF Answer
  <2>2. Len(answer) = 1 /\ answer[1].id = 1 /\ answer[1].channel = Garbage
    BY <2>1 DEF Plain, Packet
  <2>3. \A j \in 1 .. Len(answer) : ~Counts(where, answer[j])
    BY <2>2, ChannelsDiffer DEF Counts
  <2>4. QED
    BY <1>1, <1>2, <1>4, <2>3
<1>7. CASE protocol = u.protocol /\ ~u.online_mode
  <2>1. PICK n : n = Len(Fml2Offer(u, marker))
    OBVIOUS
  <2>2. PICK b : b = LoginLength(u, marker)
    OBVIOUS
  <2>3. PICK config : config = ConfigurationPart(u, marker)
    OBVIOUS
  <2>4. /\ n \in Nat /\ Gates(u) \in {0, 1} /\ b = Gates(u) + n + 2
        /\ Len(answer) = b + Len(config) /\ config \in Seq(Packets)
        /\ \A i \in 1 .. Len(config) : answer[b + i] = config[i]
    BY <1>1, <1>7, <2>1, <2>2, <2>3, LoginPackets DEF LoginLength
  <2>5. /\ \A j \in 1 .. b : ~Counts("Configuration", answer[j])
        /\ \A j \in 1 .. b : Counts("Login", answer[j])
                              <=> (1 + Gates(u) < j /\ j <= 1 + Gates(u) + n)
        /\ \A i \in 1 .. n : answer[1 + Gates(u) + i].channel = Fml2Steps[i]
    BY <1>1, <1>7, <2>1, <2>2, LoginCounts
  <2>6. n <= Len(Fml2Steps)
    BY <2>1, Fml2OfferShape
  <2>7. Len(config) \in Nat
    BY <2>4
  <2>8. \A j \in 1 .. Len(answer) :
          j \in 1 .. b \/ (j - b \in 1 .. Len(config) /\ answer[j] = config[j - b])
    <3>1. TAKE j \in 1 .. Len(answer)
    <3>2. j \in 1 .. b \/ (j - b \in 1 .. Len(config) /\ b + (j - b) = j)
      BY <2>4, <2>7
    <3>3. QED
      BY <2>4, <3>2
  <2>9. CASE where = "Login"
    <3>1. \A j \in 1 .. Len(config) : ~Counts("Login", config[j])
      BY <2>3, ConfigurationCounts DEF ConfigurationPart
    <3>2. \A j \in 1 .. Len(answer) :
            Counts(where, answer[j]) <=> (1 + Gates(u) < j /\ j <= 1 + Gates(u) + n)
      <4>1. TAKE j \in 1 .. Len(answer)
      <4>2. CASE j \in 1 .. b
        BY <2>5, <2>9, <4>2
      <4>3. CASE j - b \in 1 .. Len(config) /\ answer[j] = config[j - b]
        <5>1. ~Counts("Login", answer[j])
          BY <3>1, <4>3
        <5>2. ~(j <= 1 + Gates(u) + n)
          BY <2>4, <4>3
        <5>3. QED
          BY <2>9, <5>1, <5>2
      <4>4. QED
        BY <2>8, <4>2, <4>3
    <3>3. StepsOf(where) = Fml2Steps
      BY <2>9 DEF StepsOf
    <3>4. 1 + Gates(u) + n <= Len(answer) /\ 1 + Gates(u) \in Nat
      BY <2>4, <2>7
    <3>5. Shape(where, answer, 1 + Gates(u), n)
      BY <2>5, <2>6, <3>2, <3>3, <3>4 DEF Shape
    <3>6. QED
      BY <1>1, <1>2, <2>4, <3>4, <3>5
  <2>10. CASE where # "Login" /\ (InLogin(u) \/ u.protocol < 766)
    <3>1. \A j \in 1 .. Len(config) : ~Counts("Configuration", config[j])
      BY <2>3, <2>10, ConfigurationCounts DEF ConfigurationPart
    <3>2. \A j \in 1 .. Len(answer) : ~Counts("Configuration", answer[j])
      BY <2>5, <2>8, <3>1
    <3>3. \A packet : Counts(where, packet) <=> Counts("Configuration", packet)
      BY <2>10 DEF Counts
    <3>4. QED
      BY <1>1, <1>2, <1>4, <3>2, <3>3
  <2>11. CASE where # "Login" /\ ~InLogin(u) /\ u.protocol >= 766
    <3>1. config = ConfigurationAnswer(u, marker)
      BY <2>3, <2>11 DEF ConfigurationPart
    <3>2. PICK m : m = Len(Fml3Offer(u, marker))
      OBVIOUS
    <3>3. /\ Len(config) = m + 4 /\ m \in Nat
          /\ \A j \in 1 .. Len(config) :
               Counts("Configuration", config[j]) <=> (3 < j /\ j <= 3 + m)
          /\ \A i \in 1 .. m : config[3 + i].channel = Fml3Steps[i]
      BY <2>11, <3>1, <3>2, ConfigurationCounts
    <3>4. m <= Len(Fml3Steps)
      BY <3>2, Fml3OfferShape
    <3>5. \A packet : Counts(where, packet) <=> Counts("Configuration", packet)
      BY <2>11 DEF Counts
    <3>6. \A j \in 1 .. Len(answer) :
            Counts(where, answer[j]) <=> (b + 3 < j /\ j <= b + 3 + m)
      <4>1. TAKE j \in 1 .. Len(answer)
      <4>2. CASE j \in 1 .. b
        BY <2>4, <2>5, <3>5, <4>2
      <4>3. CASE j - b \in 1 .. Len(config) /\ answer[j] = config[j - b]
        <5>1. Counts("Configuration", answer[j]) <=> (3 < j - b /\ j - b <= 3 + m)
          BY <3>3, <4>3
        <5>2. (3 < j - b /\ j - b <= 3 + m) <=> (b + 3 < j /\ j <= b + 3 + m)
          BY <2>4, <3>3
        <5>3. QED
          BY <3>5, <5>1, <5>2
      <4>4. QED
        BY <2>8, <4>2, <4>3
    <3>7. \A i \in 1 .. m : answer[b + 3 + i].channel = Fml3Steps[i]
      <4>1. TAKE i \in 1 .. m
      <4>2. 3 + i \in 1 .. Len(config) /\ b + (3 + i) = b + 3 + i
        BY <2>4, <3>3
      <4>3. QED
        BY <2>4, <3>3, <4>2
    <3>8. StepsOf(where) = Fml3Steps
      BY <2>11 DEF StepsOf
    <3>9. b + 3 + m <= Len(answer) /\ b + 3 \in Nat
      BY <2>4, <3>3
    <3>10. Shape(where, answer, b + 3, m)
      BY <3>4, <3>6, <3>7, <3>8, <3>9 DEF Shape
    <3>11. QED
      BY <1>1, <1>2, <3>3, <3>9, <3>10
  <2>12. u.protocol \in Nat
    BY UpstreamsAssumption
  <2>13. QED
    BY <2>9, <2>10, <2>11, <2>12
<1>8. QED
  BY <1>5, <1>6, <1>7

-----------------------------------------------------------------------------
(* What has been recorded, from what has been read *)

\* Of the run of m steps after the first off packets, those that have been read.
Collected(where, recorded, read, off, m) ==
  /\ Len(recorded) = IF read <= off THEN 0 ELSE IF read <= off + m THEN read - off ELSE m
  /\ \A i \in 1 .. Len(recorded) : recorded[i] = StepsOf(where)[i]

LEMMA CollectedNone ==
  ASSUME NEW where, NEW off \in Nat, NEW m \in Nat
  PROVE  Collected(where, << >>, 0, off, m)
BY DEF Collected

\* One more packet: its channel is the next step if it is in the run.
LEMMA CollectedNext ==
  ASSUME NEW where, NEW answer \in Seq(Packets), NEW recorded \in Seq(Channels),
         NEW read \in Nat, NEW off \in Nat, NEW m \in Nat, read + 1 <= Len(answer),
         Shape(where, answer, off, m), Collected(where, recorded, read, off, m)
  PROVE  LET packet == answer[read + 1]
         IN Collected(where, IF Counts(where, packet) THEN Append(recorded, packet.channel)
                                                      ELSE recorded,
                      read + 1, off, m)
<1>1. PICK packet : packet = answer[read + 1]
  OBVIOUS
<1>2. packet \in Packets /\ packet.channel \in Channels
  <2>1. read + 1 \in 1 .. Len(answer)
    OBVIOUS
  <2>2. packet \in Packets
    BY <1>1, <2>1
  <2>3. QED
    BY <2>2 DEF Packets
<1>3. Counts(where, packet) <=> (off < read + 1 /\ read + 1 <= off + m)
  BY <1>1 DEF Shape
<1>4. CASE Counts(where, packet)
  <2>1. read - off + 1 \in 1 .. m /\ off + (read - off + 1) = read + 1
    BY <1>3, <1>4
  <2>2. packet.channel = StepsOf(where)[read - off + 1]
    BY <1>1, <2>1 DEF Shape
  <2>3. Len(recorded) = read - off
    BY <1>3, <1>4 DEF Collected
  <2>4. PICK longer : longer = Append(recorded, packet.channel)
    OBVIOUS
  <2>5. /\ Len(longer) = Len(recorded) + 1
        /\ \A i \in 1 .. Len(recorded) : longer[i] = recorded[i]
        /\ longer[Len(recorded) + 1] = packet.channel
    BY <1>2, <2>4
  <2>6. \A i \in 1 .. Len(longer) : longer[i] = StepsOf(where)[i]
    <3>1. TAKE i \in 1 .. Len(longer)
    <3>2. CASE i \in 1 .. Len(recorded)
      BY <2>5, <3>2 DEF Collected
    <3>3. CASE i = Len(recorded) + 1
      BY <2>2, <2>3, <2>5, <3>3
    <3>4. i \in 1 .. Len(recorded) \/ i = Len(recorded) + 1
      BY <2>1, <2>3, <2>5
    <3>5. QED
      BY <3>2, <3>3, <3>4
  <2>7. Len(longer) = IF read + 1 <= off THEN 0
                      ELSE IF read + 1 <= off + m THEN read + 1 - off ELSE m
    BY <1>3, <1>4, <2>3, <2>5
  <2>8. Collected(where, longer, read + 1, off, m)
    BY <2>6, <2>7 DEF Collected
  <2>9. QED
    BY <1>1, <1>4, <2>4, <2>8
<1>5. CASE ~Counts(where, packet)
  <2>1. read + 1 <= off \/ off + m <= read
    BY <1>3, <1>5
  <2>2. Len(recorded) = IF read + 1 <= off THEN 0
                        ELSE IF read + 1 <= off + m THEN read + 1 - off ELSE m
    BY <2>1 DEF Collected
  <2>3. Collected(where, recorded, read + 1, off, m)
    BY <2>2 DEF Collected
  <2>4. QED
    BY <1>1, <1>5, <2>3
<1>6. QED
  BY <1>4, <1>5

\* A sequence that agrees with another as far as it goes is a prefix of it.
LEMMA PrefixOf ==
  ASSUME NEW S, NEW s \in Seq(S), NEW t \in Seq(S), Len(s) <= Len(t),
         \A i \in 1 .. Len(s) : s[i] = t[i]
  PROVE  IsPrefix(s, t) /\ (Len(s) = Len(t) => s = t)
<1>1. SubSeq(s, 1, Len(s)) \in Seq(S) /\ SubSeq(t, 1, Len(s)) \in Seq(S)
  OBVIOUS
<1>2. Len(SubSeq(s, 1, Len(s))) = Len(s) /\ Len(SubSeq(t, 1, Len(s))) = Len(s)
  OBVIOUS
<1>3. \A i \in 1 .. Len(s) : SubSeq(s, 1, Len(s))[i] = SubSeq(t, 1, Len(s))[i]
  OBVIOUS
<1>4. SubSeq(s, 1, Len(s)) = SubSeq(t, 1, Len(s))
  BY <1>1, <1>2, <1>3
<1>5. Len(s) = Len(t) => s = t
  OBVIOUS
<1>6. QED
  BY <1>4, <1>5 DEF IsPrefix

LEMMA CollectedPrefix ==
  ASSUME NEW where, NEW answer, NEW recorded \in Seq(Channels),
         NEW read \in Nat, NEW off \in Nat, NEW m \in Nat,
         Shape(where, answer, off, m), Collected(where, recorded, read, off, m)
  PROVE  /\ IsPrefix(recorded, StepsOf(where))
         /\ read >= off + m /\ m = Len(StepsOf(where)) => recorded = StepsOf(where)
         /\ m = 0 => recorded = << >>
<1>1. StepsOf(where) \in Seq(Channels)
  BY StepsType DEF StepsOf
<1>2. Len(recorded) <= m /\ (read >= off + m => Len(recorded) = m)
  BY DEF Collected
<1>3. m <= Len(StepsOf(where)) /\ Len(StepsOf(where)) \in Nat
  BY <1>1 DEF Shape
<1>4. Len(recorded) <= Len(StepsOf(where))
  BY <1>2, <1>3
<1>5. \A i \in 1 .. Len(recorded) : recorded[i] = StepsOf(where)[i]
  BY DEF Collected
<1>6. IsPrefix(recorded, StepsOf(where))
      /\ (Len(recorded) = Len(StepsOf(where)) => recorded = StepsOf(where))
  BY <1>1, <1>4, <1>5, PrefixOf
<1>7. m = 0 => recorded = << >>
  BY <1>2
<1>8. QED
  BY <1>2, <1>6, <1>7

-----------------------------------------------------------------------------
(* The invariant of a probe underway *)

\* What a client has read of an answer: in Login nothing but compression and
\* requests; then the success of Login, and neither of the ends of Configuration.
Passed(answer, read, configuring) ==
  IF configuring
  THEN \E l \in 1 .. read :
         /\ answer[l].id = 2
         /\ \A j \in 1 .. l - 1 : answer[j].id \in {3, 4}
         /\ \A j \in l + 1 .. read : answer[j].id \notin {0, 3}
  ELSE \A j \in 1 .. read : answer[j].id \in {3, 4}

\* The socket holds nothing, something by the way, or the packet after the last
\* that was read.
HasRead(read) ==
  \/ sent = read /\ (inbox = {} \/ (in_configuration /\ inbox \subseteq Chatter(upstream)))
  \/ sent = read + 1 /\ read + 1 <= Len(Expected) /\ inbox = {Expected[read + 1]}

Reads(read) ==
  /\ read <= Len(Expected)
  /\ HasRead(read)
  /\ Passed(Expected, read, in_configuration)
  /\ \A off, m \in Nat :
       Shape(stage, Expected, off, m) => Collected(stage, steps, read, off, m)

Session == connected => \E read \in Nat : Reads(read)

\* A packet after which the probe goes on.
Goes(packet) ==
  /\ UNCHANGED << upstream, auto_protocol, stage, probe, connected, sent, snapshot >>
  /\ inbox' = {}
  /\ steps' = IF Counts(stage, packet) THEN Append(steps, packet.channel) ELSE steps
  /\ \/ ~in_configuration /\ ~in_configuration' /\ packet.id \in {3, 4}
     \/ ~in_configuration /\ in_configuration' /\ stage = "Configuration" /\ packet.id = 2
     \/ in_configuration /\ in_configuration' /\ packet.id \notin {0, 3}

FailsOn(packet) ==
  \/ packet.id = 0 /\ steps = << >>
  \/ ~in_configuration /\ packet.id = 4 /\ packet.channel = Velocity /\ ~velocity_secret
  \/ ~in_configuration /\ packet.id \notin {0, 2, 3, 4}
  \/ in_configuration /\ packet.id = 1 /\ packet.channel = Garbage

SucceedsOn(packet) ==
  \/ packet.id = 0 /\ steps # << >>
  \/ ~in_configuration /\ stage = "Login" /\ packet.id = 2
  \/ in_configuration /\ packet.id = 3

\* The three ways a read ends.
LEMMA ReadEnds ==
  ASSUME Typed, Placed, Read
  PROVE  /\ connected /\ Probing /\ UNCHANGED << rest, troubled >>
         /\ \E packet \in inbox : \/ Fail /\ FailsOn(packet)
                                  \/ Succeed /\ SucceedsOn(packet)
                                  \/ Goes(packet)
<1>1. PICK packet \in inbox :
        \/ ReadSetCompression(packet) \/ ReadVelocityRequest(packet) \/ ReadPluginRequest(packet)
        \/ ReadLoginSuccess(packet) \/ ReadDisconnect(packet) \/ ReadUnexpected(packet)
        \/ ReadPluginMessage(packet) \/ ReadFinishConfiguration(packet) \/ ReadOther(packet)
  BY DEF Read
<1>2. connected /\ Probing /\ UNCHANGED << rest, troubled >>
  BY <1>1 DEF ReadSetCompression, ReadVelocityRequest, ReadPluginRequest, ReadLoginSuccess,
              ReadDisconnect, ReadUnexpected, ReadPluginMessage, ReadFinishConfiguration,
              ReadOther, ReadsInLogin, ReadsInConfiguration, Typed
<1>3. upstream' = upstream /\ auto_protocol' = auto_protocol
  BY <1>2 DEF rest
<1>4. in_configuration \in BOOLEAN /\ (in_configuration => stage # "Login")
  BY DEF Typed, Placed
<1>5. ASSUME NEW recorded, Recorded(recorded),
             recorded = IF Counts(stage, packet) THEN Append(steps, packet.channel) ELSE steps,
             \/ ~in_configuration /\ packet.id \in {3, 4}
             \/ in_configuration /\ packet.id \notin {0, 3}
      PROVE  Goes(packet)
  BY <1>3, <1>5 DEF Recorded, Goes
<1>6. CASE ReadSetCompression(packet)
  BY <1>2, <1>5, <1>6 DEF ReadSetCompression, ReadsInLogin, Counts
<1>7. CASE ReadVelocityRequest(packet)
  <2>1. ~Counts(stage, packet)
    BY <1>7 DEF ReadVelocityRequest, Counts
  <2>2. QED
    BY <1>2, <1>5, <1>7, <2>1 DEF ReadVelocityRequest, ReadsInLogin, FailsOn
<1>8. CASE ReadPluginRequest(packet)
  <2>1. Counts(stage, packet) <=> stage = "Login"
    BY <1>8 DEF ReadPluginRequest, Counts
  <2>2. QED
    BY <1>2, <1>5, <1>8, <2>1 DEF ReadPluginRequest, ReadsInLogin
<1>9. CASE ReadLoginSuccess(packet)
  <2>1. CASE stage = "Login"
    BY <1>2, <1>9, <2>1 DEF ReadLoginSuccess, ReadsInLogin, SucceedsOn
  <2>2. CASE stage # "Login"
    <3>1. ~Counts(stage, packet) /\ stage = "Configuration"
      BY <1>2, <1>9, <2>2 DEF ReadLoginSuccess, Counts, Probing
    <3>2. Goes(packet)
      BY <1>3, <1>9, <2>2, <3>1 DEF ReadLoginSuccess, ReadsInLogin, Goes
    <3>3. QED
      BY <1>2, <3>2
  <2>3. QED
    BY <2>1, <2>2
<1>10. CASE ReadDisconnect(packet)
  BY <1>2, <1>10 DEF ReadDisconnect, FailsOn, SucceedsOn
<1>11. CASE ReadUnexpected(packet)
  BY <1>2, <1>11 DEF ReadUnexpected, ReadsInLogin, FailsOn
<1>12. CASE ReadPluginMessage(packet)
  <2>1. Counts(stage, packet) <=> packet.channel \in Range(Fml3Steps)
    BY <1>4, <1>12 DEF ReadPluginMessage, ReadsInConfiguration, Counts
  <2>2. CASE packet.channel = Garbage
    <3>1. Fail
      BY <1>12, <2>2, ChannelsDiffer DEF ReadPluginMessage
    <3>2. FailsOn(packet)
      BY <1>12, <2>2 DEF ReadPluginMessage, ReadsInConfiguration, FailsOn
    <3>3. QED
      BY <1>2, <3>1, <3>2
  <2>3. CASE packet.channel # Garbage /\ packet.channel \in Range(Fml3Steps)
    <3>1. Recorded(Append(steps, packet.channel))
      BY <1>12, <2>3 DEF ReadPluginMessage
    <3>2. in_configuration /\ packet.id = 1
      BY <1>12 DEF ReadPluginMessage, ReadsInConfiguration
    <3>3. PICK recorded : recorded = Append(steps, packet.channel)
      OBVIOUS
    <3>4. Recorded(recorded)
      BY <3>1, <3>3
    <3>5. recorded = IF Counts(stage, packet) THEN Append(steps, packet.channel) ELSE steps
      BY <2>1, <2>3, <3>3
    <3>6. \/ ~in_configuration /\ packet.id \in {3, 4}
          \/ in_configuration /\ packet.id \notin {0, 3}
      BY <3>2
    <3>7. Goes(packet)
      BY <1>5, <3>4, <3>5, <3>6
    <3>8. QED
      BY <1>2, <3>7
  <2>4. CASE packet.channel # Garbage /\ packet.channel \notin Range(Fml3Steps)
    BY <1>2, <1>5, <1>12, <2>1, <2>4 DEF ReadPluginMessage, ReadsInConfiguration
  <2>5. QED
    BY <2>2, <2>3, <2>4
<1>13. CASE ReadFinishConfiguration(packet)
  BY <1>2, <1>13 DEF ReadFinishConfiguration, ReadsInConfiguration, SucceedsOn
<1>14. CASE ReadOther(packet)
  <2>1. ~Counts(stage, packet)
    BY <1>4, <1>14 DEF ReadOther, ReadsInConfiguration, Counts
  <2>2. QED
    BY <1>2, <1>5, <1>14, <2>1 DEF ReadOther, ReadsInConfiguration
<1>15. QED
  BY <1>1, <1>6, <1>7, <1>8, <1>9, <1>10, <1>11, <1>12, <1>13, <1>14

LEMMA ExpectedShape ==
  ASSUME Typed
  PROVE  /\ Expected \in Seq(Packets)
         /\ \E off, m \in Nat : Shape(stage, Expected, off, m)
<1>1. upstream \in Upstreams
  BY DEF Typed
<1>2. QED
  BY <1>1, HasShape DEF Expected

LEMMA ExpectedStays ==
  ASSUME UNCHANGED << upstream, auto_protocol, stage, probe >>
  PROVE  Expected' = Expected
<1>1. Probes' = Probes
  BY DEF Probes
<1>2. QED
  BY <1>1 DEF Expected

\* What an upstream sends by the way is not a step.
LEMMA ChatterIsNoStep ==
  ASSUME NEW u, NEW packet \in Chatter(u)
  PROVE  ~Counts("Configuration", packet) /\ packet.channel \in {Garbage, Brand}
<1>1. packet.channel \in {Garbage, Brand}
  <2>1. CASE InLogin(u)
    BY <2>1 DEF Chatter
  <2>2. CASE ~InLogin(u)
    BY <2>2, PacketFields DEF Chatter, Plain, Packet
  <2>3. QED
    BY <2>1, <2>2
<1>2. QED
  BY <1>1, ChannelsDiffer DEF Counts

\* The packet that is read is by the way, or the next of the answer.
LEMMA NextRead ==
  ASSUME Typed, Placed, NEW read \in Nat, HasRead(read), NEW packet \in inbox
  PROVE  \/ in_configuration /\ packet \in Chatter(upstream) /\ sent = read
         \/ read + 1 <= Len(Expected) /\ packet = Expected[read + 1] /\ sent = read + 1
BY DEF HasRead

LEMMA PassedNext ==
  ASSUME NEW answer \in Seq(Packets), NEW read \in Nat, NEW configuring \in BOOLEAN,
         NEW after \in BOOLEAN,
         read + 1 <= Len(answer), Passed(answer, read, configuring),
         LET packet == answer[read + 1]
         IN \/ ~configuring /\ ~after /\ packet.id \in {3, 4}
            \/ ~configuring /\ after /\ packet.id = 2
            \/ configuring /\ after /\ packet.id \notin {0, 3}
  PROVE  Passed(answer, read + 1, after)
<1>1. \A j \in 1 .. read + 1 : j \in 1 .. read \/ j = read + 1
  OBVIOUS
<1>2. CASE ~configuring /\ ~after
  BY <1>1, <1>2 DEF Passed
<1>3. CASE ~configuring /\ after
  <2>1. \A j \in 1 .. read : answer[j].id \in {3, 4}
    BY <1>3 DEF Passed
  <2>2. answer[read + 1].id = 2
    BY <1>3
  <2>3. read + 1 \in 1 .. read + 1 /\ read + 1 - 1 = read
        /\ \A j \in read + 1 + 1 .. read + 1 : FALSE
    OBVIOUS
  <2>4. QED
    BY <1>3, <2>1, <2>2, <2>3 DEF Passed
<1>4. CASE configuring /\ after
  <2>1. PICK l \in 1 .. read : /\ answer[l].id = 2
                               /\ \A j \in 1 .. l - 1 : answer[j].id \in {3, 4}
                               /\ \A j \in l + 1 .. read : answer[j].id \notin {0, 3}
    BY <1>4 DEF Passed
  <2>2. answer[read + 1].id \notin {0, 3}
    BY <1>4
  <2>3. \A j \in l + 1 .. read + 1 : j \in l + 1 .. read \/ j = read + 1
    OBVIOUS
  <2>4. \A j \in l + 1 .. read + 1 : answer[j].id \notin {0, 3}
    BY <2>1, <2>2, <2>3
  <2>5. l \in 1 .. read + 1
    OBVIOUS
  <2>6. QED
    BY <1>4, <2>1, <2>4, <2>5 DEF Passed
<1>5. QED
  BY <1>2, <1>3, <1>4

\* A probe that goes on has read one packet more of the answer, or one by the way.
LEMMA GoesSession ==
  ASSUME Typed, Placed, connected, NEW read \in Nat, Reads(read), NEW packet \in inbox,
         Goes(packet), in_configuration' \in BOOLEAN
  PROVE  Session'
<1>1. Expected' = Expected
  BY ExpectedStays DEF Goes
<1>2. stage' = stage /\ upstream' = upstream /\ sent' = sent /\ inbox' = {}
  BY DEF Goes
<1>3. CASE in_configuration /\ packet \in Chatter(upstream) /\ sent = read
  <2>1. in_configuration' = in_configuration
    BY <1>3 DEF Goes, Typed
  <2>2. steps' = steps
    <3>1. stage = "Configuration"
      BY <1>3 DEF Placed
    <3>2. ~Counts(stage, packet)
      BY <1>3, <3>1, ChatterIsNoStep
    <3>3. QED
      BY <3>2 DEF Goes
  <2>3. HasRead(read)'
    BY <1>2, <1>3 DEF HasRead
  <2>4. Passed(Expected, read, in_configuration)'
    BY <1>1, <2>1 DEF Reads, Passed
  <2>5. \A off, m \in Nat :
          Shape(stage', Expected', off, m) => Collected(stage', steps', read, off, m)
    BY <1>1, <1>2, <2>2 DEF Reads
  <2>6. Reads(read)'
    BY <1>1, <2>3, <2>4, <2>5 DEF Reads
  <2>7. QED
    BY <2>6 DEF Session
<1>4. CASE read + 1 <= Len(Expected) /\ packet = Expected[read + 1] /\ sent = read + 1
  <2>1. Expected \in Seq(Packets)
    BY ExpectedShape
  <2>2. steps \in Seq(Channels) /\ in_configuration \in BOOLEAN
    BY DEF Typed
  <2>3. HasRead(read + 1)'
    BY <1>2, <1>4 DEF HasRead
  <2>4. Passed(Expected, read + 1, in_configuration')
    <3>1. Passed(Expected, read, in_configuration)
      BY DEF Reads
    <3>2. \/ ~in_configuration /\ ~in_configuration' /\ packet.id \in {3, 4}
          \/ ~in_configuration /\ in_configuration' /\ packet.id = 2
          \/ in_configuration /\ in_configuration' /\ packet.id \notin {0, 3}
      BY DEF Goes
    <3>3. QED
      BY <1>4, <2>1, <2>2, <3>1, <3>2, PassedNext
  <2>5. ASSUME NEW off \in Nat, NEW m \in Nat, Shape(stage, Expected, off, m)
        PROVE  Collected(stage, steps', read + 1, off, m)
    <3>1. Collected(stage, steps, read, off, m)
      BY <2>5 DEF Reads
    <3>2. steps' = IF Counts(stage, packet) THEN Append(steps, packet.channel) ELSE steps
      BY DEF Goes
    <3>3. QED
      BY <1>4, <2>1, <2>2, <2>5, <3>1, <3>2, CollectedNext
  <2>6. Reads(read + 1)'
    <3>1. Passed(Expected', read + 1, in_configuration')
      BY <1>1, <2>4
    <3>2. read + 1 <= Len(Expected')
      BY <1>1, <1>4
    <3>3. \A off, m \in Nat :
            Shape(stage', Expected', off, m) => Collected(stage', steps', read + 1, off, m)
      BY <1>1, <1>2, <2>5
    <3>4. QED
      BY <2>3, <3>1, <3>2, <3>3 DEF Reads
  <2>7. QED
    BY <2>6 DEF Session
<1>5. HasRead(read)
  BY DEF Reads
<1>6. QED
  BY <1>3, <1>4, <1>5, NextRead

\* The upstream sends, of its answer or by the way.
LEMMA SendsSession ==
  ASSUME Typed, Placed, Session, UpstreamSends \/ UpstreamChatters
  PROVE  Session'
<1>1. /\ connected /\ inbox = {}
      /\ UNCHANGED << upstream, auto_protocol, stage, probe, in_configuration, steps >>
  BY DEF UpstreamSends, UpstreamChatters, rest
<1>2. PICK read \in Nat : Reads(read)
  BY <1>1 DEF Session
<1>3. sent = read
  BY <1>1, <1>2 DEF Reads, HasRead
<1>4. Expected' = Expected
  BY <1>1, ExpectedStays
<1>5. HasRead(read)'
  <2>1. CASE UpstreamSends
    <3>1. sent' = read + 1 /\ inbox' = {Expected[read + 1]} /\ read < Len(Expected)
      BY <1>3, <2>1 DEF UpstreamSends
    <3>2. Len(Expected) \in Nat
      BY ExpectedShape
    <3>3. read + 1 <= Len(Expected)
      BY <3>1, <3>2
    <3>4. QED
      BY <1>4, <3>1, <3>3 DEF HasRead
  <2>2. CASE UpstreamChatters
    <3>1. sent' = read /\ in_configuration' /\ inbox' \subseteq Chatter(upstream')
      BY <1>1, <1>3, <2>2 DEF UpstreamChatters
    <3>2. QED
      BY <3>1 DEF HasRead
  <2>3. QED
    BY <2>1, <2>2
<1>6. read <= Len(Expected') /\ Passed(Expected', read, in_configuration')
  BY <1>1, <1>2, <1>4 DEF Reads
<1>7. \A off, m \in Nat :
        Shape(stage', Expected', off, m) => Collected(stage', steps', read, off, m)
  BY <1>1, <1>2, <1>4 DEF Reads
<1>8. Reads(read)'
  BY <1>5, <1>6, <1>7 DEF Reads
<1>9. QED
  BY <1>8 DEF Session

LEMMA ConnectSession ==
  ASSUME Typed, Placed, Connect
  PROVE  Session'
<1>1. UNCHANGED << upstream, auto_protocol, stage, probe, sent, inbox, in_configuration, steps >>
  BY DEF Connect, rest
<1>2. sent' = 0 /\ inbox' = {} /\ ~in_configuration' /\ steps' = << >>
  BY <1>1 DEF Connect, Placed
<1>3. Expected' = Expected
  BY <1>1, ExpectedStays
<1>4. 0 <= Len(Expected')
  BY <1>3, ExpectedShape
<1>5. HasRead(0)'
  BY <1>2 DEF HasRead
<1>6. Passed(Expected', 0, in_configuration')
  BY <1>2 DEF Passed
<1>7. \A off, m \in Nat :
        Shape(stage', Expected', off, m) => Collected(stage', steps', 0, off, m)
  BY <1>2, CollectedNone
<1>8. Reads(0)'
  BY <1>4, <1>5, <1>6, <1>7 DEF Reads
<1>9. QED
  BY <1>8 DEF Session

LEMMA NextSession == Inv /\ Placed /\ Session /\ [Next]_vars => Session'
<1> SUFFICES ASSUME Inv, Placed, Session, [Next]_vars PROVE Session'
  OBVIOUS
<1>1. Typed /\ Typed'
  BY NextInv DEF Inv
<1>2. ASSUME ~connected' PROVE Session'
  BY <1>2 DEF Session
<1>3. ASSUME Fail \/ Succeed PROVE ~connected'
  BY <1>3 DEF Fail, Succeed, Disconnected
<1>4. CASE Read
  <2>1. connected
    BY <1>1, <1>4, ReadEnds
  <2>2. PICK read \in Nat : Reads(read)
    BY <2>1 DEF Session
  <2>3. PICK packet \in inbox : Fail \/ Succeed \/ Goes(packet)
    BY <1>1, <1>4, ReadEnds
  <2>4. in_configuration' \in BOOLEAN
    BY <1>1 DEF Typed
  <2>5. QED
    BY <1>1, <1>2, <1>3, <2>1, <2>2, <2>3, <2>4, GoesSession
<1>5. CASE Connect
  BY <1>1, <1>5, ConnectSession
<1>6. CASE UpstreamSends \/ UpstreamChatters
  BY <1>1, <1>6, SendsSession
<1>7. CASE ConnectFails \/ StreamFails \/ Deadline
  BY <1>2, <1>3, <1>7 DEF ConnectFails, StreamFails, Deadline
<1>8. CASE Crash
  BY <1>2, <1>8 DEF Crash, Disconnected
<1>9. CASE Start \/ Detect \/ Capture \/ OpenTmp \/ WriteTmp \/ Rename \/ SaveFails
           \/ LoadFallback \/ LoadSnapshot
  <2>1. ~Probing /\ UNCHANGED session_vars
    BY <1>9 DEF Start, Detect, Capture, OpenTmp, WriteTmp, Rename, SaveFails, LoadFallback,
                LoadSnapshot, Probing, afar
  <2>2. ~connected'
    BY <1>1, <2>1 DEF Typed, session_vars
  <2>3. QED
    BY <1>2, <2>2
<1>10. CASE UNCHANGED vars
  <2>1. UNCHANGED << upstream, auto_protocol, stage, probe, session_vars >>
    BY <1>10 DEF vars
  <2>2. Expected' = Expected
    BY <2>1, ExpectedStays
  <2>3. ASSUME NEW read \in Nat, Reads(read) PROVE Reads(read)'
    BY <2>1, <2>2, <2>3 DEF Reads, HasRead, session_vars
  <2>4. QED
    BY <2>1, <2>3 DEF Session, session_vars
<1>11. QED
  BY <1>4, <1>5, <1>6, <1>7, <1>8, <1>9, <1>10 DEF Next, LimboStep

\* What a probe has recorded so far is the beginning of the handshake.
LEMMA StepsArePrefix ==
  ASSUME Typed, Session, connected
  PROVE  IsPrefix(steps, StepsOf(stage))
<1>1. PICK read \in Nat : Reads(read)
  BY DEF Session
<1>2. PICK off \in Nat, m \in Nat : Shape(stage, Expected, off, m)
  BY ExpectedShape
<1>3. Collected(stage, steps, read, off, m)
  BY <1>1, <1>2 DEF Reads
<1>4. steps \in Seq(Channels)
  BY DEF Typed
<1>5. QED
  BY <1>2, <1>3, <1>4, CollectedPrefix

-----------------------------------------------------------------------------
(* What is kept of a recording *)

\* In memory, in the files and loaded there are only beginnings of the handshakes.
KeptFaithfully ==
  /\ Faithful(snapshot)
  /\ \A s \in Load(file) : Faithful(s)
  /\ \A s \in Load(tmp) : Faithful(s)
  /\ \A s \in loaded.full : Faithful(s)

LEMMA LoadOf ==
  /\ Load(Absent) = {} /\ Load(Torn) = {}
  /\ \A s : Load(Whole(s)) = {s}
BY DEF Load, Absent, Torn, Whole

LEMMA NewIsFaithful == Faithful(NewSnapshot)
BY DEF Faithful, NewSnapshot

LEMMA EarlierIsFaithful == Faithful(EarlierRecording)
<1>1. Fml2Steps \in Seq(Channels) /\ Len(Fml2Steps) >= 1
  BY StepsType, UpstreamsAssumption
<1>2. PICK first : first = SubSeq(Fml2Steps, 1, 1)
  OBVIOUS
<1>3. first \in Seq(Channels) /\ Len(first) = 1 /\ first[1] = Fml2Steps[1]
  BY <1>1, <1>2
<1>4. IsPrefix(first, Fml2Steps)
  BY <1>1, <1>3, PrefixOf
<1>5. EarlierRecording.fml2 = {first} /\ EarlierRecording.fml3 = {}
  BY <1>2 DEF EarlierRecording, NewSnapshot
<1>6. QED
  BY <1>4, <1>5 DEF Faithful

LEMMA InitKept == Init => KeptFaithfully
<1> SUFFICES ASSUME Init PROVE KeptFaithfully
  OBVIOUS
<1>1. Faithful(snapshot)
  BY NewIsFaithful DEF Init
<1>2. \A s \in Load(file) : Faithful(s)
  <2>1. file = Absent \/ file = Torn \/ file = Whole(EarlierRecording)
    BY DEF Init
  <2>2. QED
    BY <2>1, LoadOf, EarlierIsFaithful
<1>3. \A s \in Load(tmp) : Faithful(s)
  BY LoadOf DEF Init
<1>4. \A s \in loaded.full : Faithful(s)
  BY DEF Init, NothingLoaded
<1>5. QED
  BY <1>1, <1>2, <1>3, <1>4 DEF KeptFaithfully

\* A section that is the beginning of its handshake can be added.
LEMMA SectionIsFaithful ==
  ASSUME Typed, Faithful(snapshot), Probing, Succeed, IsPrefix(steps, StepsOf(stage))
  PROVE  Faithful(snapshot')
<1>1. CASE stage = "Login"
  <2>1. snapshot'.fml2 = {steps} /\ snapshot'.fml3 = snapshot.fml3
    BY <1>1 DEF Succeed, Typed, Snapshots
  <2>2. IsPrefix(steps, Fml2Steps)
    BY <1>1 DEF StepsOf
  <2>3. QED
    BY <2>1, <2>2 DEF Faithful
<1>2. CASE stage # "Login"
  <2>1. snapshot'.fml2 = snapshot.fml2 /\ snapshot'.fml3 = {steps}
    BY <1>2 DEF Succeed, Typed, Snapshots
  <2>2. IsPrefix(steps, Fml3Steps)
    BY <1>2 DEF StepsOf
  <2>3. QED
    BY <2>1, <2>2 DEF Faithful
<1>3. QED
  BY <1>1, <1>2

LEMMA NextKept == Inv /\ Placed /\ Session /\ KeptFaithfully /\ [Next]_vars => KeptFaithfully'
<1> SUFFICES ASSUME Inv, Placed, Session, KeptFaithfully, [Next]_vars PROVE KeptFaithfully'
  OBVIOUS
<1>1. Typed
  BY DEF Inv
<1>2. ASSUME UNCHANGED << disk_vars, loaded >>, Faithful(snapshot') PROVE KeptFaithfully'
  BY <1>2 DEF KeptFaithfully, disk_vars
<1>3. CASE Read
  <2>1. connected /\ Probing /\ UNCHANGED << rest, troubled >>
    BY <1>1, <1>3, ReadEnds
  <2>2. PICK packet \in inbox : Fail \/ Succeed \/ Goes(packet)
    BY <1>1, <1>3, ReadEnds
  <2>3. UNCHANGED << disk_vars, loaded >>
    BY <2>1 DEF rest
  <2>4. CASE Fail \/ Goes(packet)
    BY <1>2, <2>3, <2>4 DEF Fail, Goes, KeptFaithfully
  <2>5. CASE Succeed
    <3>1. Faithful(snapshot')
      BY <1>1, <2>1, <2>5, StepsArePrefix, SectionIsFaithful DEF KeptFaithfully
    <3>2. QED
      BY <1>2, <2>3, <3>1
  <2>6. QED
    BY <2>2, <2>4, <2>5
<1>4. CASE Connect \/ ConnectFails \/ StreamFails \/ Deadline \/ UpstreamSends
            \/ UpstreamChatters
  <2>1. UNCHANGED << snapshot, rest >>
    BY <1>4 DEF Connect, ConnectFails, StreamFails, Deadline, UpstreamSends,
                UpstreamChatters, Fail
  <2>2. QED
    BY <1>2, <2>1 DEF KeptFaithfully, rest
<1>5. CASE Start \/ Detect
  BY <1>2, <1>5 DEF Start, Detect, KeptFaithfully
<1>6. CASE Capture
  <2>1. snapshot'.fml2 = snapshot.fml2 /\ snapshot'.fml3 = snapshot.fml3
    BY <1>1, <1>6 DEF Capture, Typed, Snapshots
  <2>2. Faithful(snapshot')
    BY <2>1 DEF Faithful, KeptFaithfully
  <2>3. QED
    BY <1>2, <1>6, <2>2 DEF Capture
<1>7. CASE OpenTmp
  BY <1>7, LoadOf DEF OpenTmp, KeptFaithfully
<1>8. CASE WriteTmp
  <2>1. tmp' = Whole(snapshot) /\ UNCHANGED << snapshot, file, loaded >>
    BY <1>8 DEF WriteTmp
  <2>2. Load(tmp') = {snapshot}
    BY <2>1, LoadOf
  <2>3. QED
    BY <2>1, <2>2 DEF KeptFaithfully
<1>9. CASE Rename
  <2>1. file' = tmp /\ tmp' = Absent /\ UNCHANGED << snapshot, loaded >>
    BY <1>9 DEF Rename
  <2>2. Load(tmp') = {}
    BY <2>1, LoadOf
  <2>3. QED
    BY <2>1, <2>2 DEF KeptFaithfully
<1>10. CASE SaveFails
  BY <1>2, <1>10 DEF SaveFails, KeptFaithfully
<1>11. CASE LoadFallback
  <2>1. loaded'.full = loaded.full /\ UNCHANGED << snapshot, disk_vars >>
    BY <1>1, <1>11 DEF LoadFallback, Typed
  <2>2. QED
    BY <2>1 DEF KeptFaithfully, disk_vars
<1>12. CASE LoadSnapshot
  <2>1. loaded'.full = Load(file) /\ UNCHANGED << snapshot, disk_vars >>
    BY <1>1, <1>12 DEF LoadSnapshot, Typed
  <2>2. QED
    BY <2>1 DEF KeptFaithfully, disk_vars
<1>13. CASE Crash
  <2>1. loaded'.full = {} /\ snapshot' = NewSnapshot /\ UNCHANGED disk_vars
    BY <1>13 DEF Crash, NothingLoaded
  <2>2. QED
    BY <2>1, NewIsFaithful DEF KeptFaithfully, disk_vars
<1>14. CASE UNCHANGED vars
  BY <1>2, <1>14 DEF vars, KeptFaithfully
<1>15. QED
  BY <1>3, <1>4, <1>5, <1>6, <1>7, <1>8, <1>9, <1>10, <1>11, <1>12, <1>13, <1>14
     DEF Next, LimboStep

\* The invariant of the sessions and of what is kept of them.
Recording == Placed /\ Session /\ KeptFaithfully

LEMMA RecordingInvariant == Spec => []Recording
<1>1. Init => Recording
  <2>1. Init => Session
    BY DEF Init, Session
  <2>2. QED
    BY <2>1, InitPlaced, InitKept DEF Recording
<1>2. Inv /\ Recording /\ [Next]_vars => Recording'
  BY NextPlaced, NextSession, NextKept DEF Recording
<1>3. QED
  BY <1>1, <1>2, Invariant, PTL DEF Spec

\* Whatever upstreams there are, and wherever a probe breaks off or the limbo is
\* killed: what is recorded, saved or loaded is the beginning of what an upstream
\* sent its Forge clients (record_login_phase, record_configuration_phase,
\* save_snapshot).
THEOREM RecordingIsFaithful == Spec => []RecordedIsFaithful
<1>1. ASSUME Typed, Recording PROVE RecordedIsFaithful
  <2>1. Probing => IsPrefix(steps, StepsOf(stage))
    <3>1. CASE connected
      BY <1>1, <3>1, StepsArePrefix DEF Recording
    <3>2. CASE ~connected
      <4>1. steps = << >> /\ StepsOf(stage) \in Seq(Channels)
        BY <1>1, <3>2, StepsType DEF Recording, Placed, StepsOf
      <4>2. steps \in Seq(Channels) /\ Len(steps) = 0
        BY <4>1
      <4>3. Len(steps) <= Len(StepsOf(stage)) /\ \A i \in 1 .. Len(steps) : FALSE
        BY <4>1, <4>2
      <4>4. QED
        BY <4>1, <4>2, <4>3, PrefixOf
    <3>3. QED
      BY <3>1, <3>2
  <2>2. stage = "Login" => IsPrefix(steps, Fml2Steps)
    BY <2>1 DEF Probing, StepsOf
  <2>3. stage = "Configuration" => IsPrefix(steps, Fml3Steps)
    BY <2>1 DEF Probing, StepsOf
  <2>4. QED
    BY <1>1, <2>2, <2>3 DEF Recording, KeptFaithfully, RecordedIsFaithful
<1>2. Inv => Typed
  BY DEF Inv
<1>3. QED
  BY <1>1, <1>2, Invariant, RecordingInvariant, PTL

-----------------------------------------------------------------------------
(* The answers that a recording goes by *)

\* The numbers of the packets of Configuration are those that the recorder knows
\* (they are others from 1.20.2 to 1.20.4: the run recorder_1_20_2 shows what
\* comes of it), and its handshake is asked for by the one marker it tries there.
NumbersAreKnown ==
  \A u \in Upstreams : ~InLogin(u) => u.protocol >= 766 /\ u.marker = "FML3"

\* An upstream of Login sends a client of its marker the whole handshake, and
\* the success of Login last.
LEMMA LoginHandshake ==
  ASSUME NEW u \in Upstreams, InLogin(u), ~u.online_mode, ~u.impatient
  PROVE  LET answer == Answer(u, u.marker, u.protocol)
         IN /\ Len(answer) \in Nat \ {0}
            /\ BeforeEnd(answer, Len(answer) - 1, u.gated)
            /\ answer[Len(answer)].id = 2
            /\ \E off \in Nat : /\ Shape("Login", answer, off, Len(Fml2Steps))
                                /\ off + Len(Fml2Steps) + 1 = Len(answer)
<1>1. PICK answer : answer = Answer(u, u.marker, u.protocol)
  OBVIOUS
<1>2. PICK n : n = Len(Fml2Offer(u, u.marker))
  OBVIOUS
<1>3. PICK b : b = LoginLength(u, u.marker)
  OBVIOUS
<1>4. n = Len(Fml2Steps) /\ n \in Nat
  BY <1>2, Fml2OfferShape, UpstreamsAssumption
<1>5. Len(answer) = b /\ b = Gates(u) + n + 2 /\ Gates(u) \in {0, 1}
  <2>1. /\ Len(answer) = b + Len(ConfigurationPart(u, u.marker)) /\ Gates(u) \in {0, 1}
        /\ b \in Nat
    BY <1>1, <1>3, LoginPackets
  <2>2. Len(ConfigurationPart(u, u.marker)) = 0
    BY DEF ConfigurationPart
  <2>3. QED
    BY <1>2, <1>3, <2>1, <2>2 DEF LoginLength
<1>6. /\ \A j \in 1 .. b : Counts("Login", answer[j])
                              <=> (1 + Gates(u) < j /\ j <= 1 + Gates(u) + n)
      /\ \A i \in 1 .. n : answer[1 + Gates(u) + i].channel = Fml2Steps[i]
      /\ BeforeEnd(answer, b - 1, u.gated)
      /\ answer[b].id = LoginEnd(u, u.marker)
  BY <1>1, <1>2, <1>3, LoginCounts
<1>7. LoginEnd(u, u.marker) = 2
  BY LoginIds DEF LoginEnd
<1>8. Shape("Login", answer, 1 + Gates(u), Len(Fml2Steps))
  <2>1. StepsOf("Login") = Fml2Steps
    BY DEF StepsOf
  <2>2. 1 + Gates(u) + n <= Len(answer)
    BY <1>4, <1>5
  <2>3. QED
    BY <1>4, <1>5, <1>6, <2>1, <2>2 DEF Shape
<1>9. 1 + Gates(u) \in Nat /\ 1 + Gates(u) + Len(Fml2Steps) + 1 = Len(answer)
      /\ Len(answer) \in Nat \ {0}
  BY <1>4, <1>5
<1>10. QED
  BY <1>1, <1>5, <1>6, <1>7, <1>8, <1>9

\* A strict one sends a client of another marker no step, and turns it away.
LEMMA LoginRefusal ==
  ASSUME NEW u \in Upstreams, InLogin(u), ~u.online_mode, u.strict, NEW marker, marker # u.marker
  PROVE  LET answer == Answer(u, marker, u.protocol)
         IN /\ Len(answer) \in Nat \ {0}
            /\ BeforeEnd(answer, Len(answer) - 1, u.gated)
            /\ answer[Len(answer)].id = 0
            /\ \E off \in Nat : Shape("Login", answer, off, 0)
<1>1. PICK answer : answer = Answer(u, marker, u.protocol)
  OBVIOUS
<1>2. PICK n : n = Len(Fml2Offer(u, marker))
  OBVIOUS
<1>3. PICK b : b = LoginLength(u, marker)
  OBVIOUS
<1>4. n = 0
  BY <1>2, Fml2OfferShape
<1>5. Len(answer) = b /\ b = Gates(u) + 2 /\ Gates(u) \in {0, 1}
  <2>1. /\ Len(answer) = b + Len(ConfigurationPart(u, marker)) /\ Gates(u) \in {0, 1}
        /\ b \in Nat
    BY <1>1, <1>3, LoginPackets
  <2>2. Len(ConfigurationPart(u, marker)) = 0
    BY DEF ConfigurationPart
  <2>3. b = Gates(u) + n + 2
    BY <1>2, <1>3 DEF LoginLength
  <2>4. QED
    BY <1>4, <2>1, <2>2, <2>3
<1>6. /\ \A j \in 1 .. b : Counts("Login", answer[j])
                              <=> (1 + Gates(u) < j /\ j <= 1 + Gates(u) + n)
      /\ BeforeEnd(answer, b - 1, u.gated)
      /\ answer[b].id = LoginEnd(u, marker)
  BY <1>1, <1>2, <1>3, LoginCounts
<1>7. LoginEnd(u, marker) = 0
  BY LoginIds DEF LoginEnd
<1>8. Shape("Login", answer, 1 + Gates(u), 0)
  <2>1. 0 <= Len(StepsOf("Login"))
    BY UpstreamsAssumption DEF StepsOf
  <2>2. 1 + Gates(u) + 0 <= Len(answer)
    BY <1>5
  <2>3. QED
    BY <1>4, <1>5, <1>6, <2>1, <2>2 DEF Shape
<1>9. 1 + Gates(u) \in Nat /\ Len(answer) \in Nat \ {0}
  BY <1>5
<1>10. QED
  BY <1>1, <1>5, <1>6, <1>7, <1>8, <1>9

\* An upstream of Configuration sends a client of its marker the success of Login,
\* then the whole handshake, and the end of Configuration last.
LEMMA ConfigurationHandshake ==
  ASSUME NEW u \in Upstreams, ~InLogin(u), u.protocol >= 766, ~u.online_mode, ~u.impatient
  PROVE  LET answer == Answer(u, u.marker, u.protocol)
         IN /\ Len(answer) \in Nat
            /\ \E b \in 1 .. Len(answer) - 1 :
                 /\ BeforeEnd(answer, b - 1, u.gated) /\ answer[b].id = 2
                 /\ \A j \in b + 1 .. Len(answer) - 1 :
                      /\ answer[j].id \notin {0, 3}
                      /\ answer[j].id = 1 => answer[j].channel # Garbage
            /\ answer[Len(answer)].id = 3
            /\ \E off \in Nat : /\ Shape("Configuration", answer, off, Len(Fml3Steps))
                                /\ off + Len(Fml3Steps) + 1 = Len(answer)
<1>1. PICK answer : answer = Answer(u, u.marker, u.protocol)
  OBVIOUS
<1>2. PICK b : b = LoginLength(u, u.marker)
  OBVIOUS
<1>3. PICK config : config = ConfigurationAnswer(u, u.marker)
  OBVIOUS
<1>4. PICK n : n = Len(Fml3Offer(u, u.marker))
  OBVIOUS
<1>5. n = Len(Fml3Steps) /\ n \in Nat
  BY <1>4, Fml3OfferShape, UpstreamsAssumption
<1>6. /\ b \in Nat /\ b >= 1 /\ Len(answer) = b + Len(config)
      /\ \A i \in 1 .. Len(config) : answer[b + i] = config[i]
  <2>1. ConfigurationPart(u, u.marker) = config
    BY <1>3 DEF ConfigurationPart
  <2>2. b = Gates(u) + Len(Fml2Offer(u, u.marker)) + 2
    BY <1>2 DEF LoginLength
  <2>3. /\ Len(Fml2Offer(u, u.marker)) \in Nat /\ Gates(u) \in {0, 1}
        /\ Len(answer) = b + Len(config)
        /\ \A i \in 1 .. Len(config) : answer[b + i] = config[i]
    BY <1>1, <1>2, <2>1, LoginPackets
  <2>4. b \in Nat /\ b >= 1
    BY <2>2, <2>3
  <2>5. QED
    BY <2>3, <2>4
<1>7. /\ \A j \in 1 .. b : ~Counts("Configuration", answer[j])
      /\ BeforeEnd(answer, b - 1, u.gated)
      /\ answer[b].id = LoginEnd(u, u.marker)
  BY <1>1, <1>2, LoginCounts
<1>8. LoginEnd(u, u.marker) = 2 /\ ConfigurationEnd(u, u.marker) = 3
  <2>1. ~(u.protocol < 766)
    BY UpstreamsAssumption
  <2>2. QED
    BY <2>1, LoginIds DEF LoginEnd, ConfigurationEnd, Config
<1>9. /\ Len(config) = n + 4
      /\ \A j \in 1 .. Len(config) :
           Counts("Configuration", config[j]) <=> (3 < j /\ j <= 3 + n)
      /\ \A i \in 1 .. n : config[3 + i].channel = Fml3Steps[i]
      /\ \A j \in 1 .. Len(config) - 1 : /\ config[j].id \in {1, 7, 14}
                                         /\ config[j].id = 1 => config[j].channel # Garbage
      /\ config[Len(config)].id = ConfigurationEnd(u, u.marker)
  <2>1. /\ Len(config) = Known(u) + n + 3 /\ Known(u) = 1
        /\ \A j \in 1 .. Len(config) :
             Counts("Configuration", config[j]) <=> (3 < j /\ j <= 3 + n)
        /\ \A i \in 1 .. n : config[3 + i].channel = Fml3Steps[i]
        /\ \A j \in 1 .. Len(config) - 1 : /\ config[j].id \in {1, 7, 14}
                                           /\ config[j].id = 1 => config[j].channel # Garbage
        /\ config[Len(config)].id = ConfigurationEnd(u, u.marker)
    BY <1>3, <1>4, ConfigurationCounts
  <2>2. QED
    BY <1>5, <2>1
<1>10. \A j \in 1 .. Len(answer) :
         j \in 1 .. b \/ (j - b \in 1 .. Len(config) /\ answer[j] = config[j - b])
  <2>1. TAKE j \in 1 .. Len(answer)
  <2>2. j \in 1 .. b \/ (j - b \in 1 .. Len(config) /\ b + (j - b) = j)
    BY <1>5, <1>6, <1>9
  <2>3. QED
    BY <1>6, <2>2
<1>11. \A j \in b + 1 .. Len(answer) - 1 :
         /\ answer[j].id \notin {0, 3}
         /\ answer[j].id = 1 => answer[j].channel # Garbage
  <2>1. TAKE j \in b + 1 .. Len(answer) - 1
  <2>2. j - b \in 1 .. Len(config) - 1 /\ j \in 1 .. Len(answer) /\ j \notin 1 .. b
    BY <1>5, <1>6, <1>9
  <2>3. answer[j] = config[j - b]
    BY <1>10, <2>2
  <2>4. QED
    BY <1>9, <2>2, <2>3
<1>12. answer[Len(answer)].id = 3
  <2>1. Len(config) \in 1 .. Len(config)
    BY <1>5, <1>9
  <2>2. QED
    BY <1>6, <1>8, <1>9, <2>1
<1>13. Shape("Configuration", answer, b + 3, Len(Fml3Steps))
  <2>1. StepsOf("Configuration") = Fml3Steps
    BY DEF StepsOf
  <2>2. b + 3 + n <= Len(answer)
    BY <1>5, <1>6, <1>9
  <2>3. \A j \in 1 .. Len(answer) :
          Counts("Configuration", answer[j]) <=> (b + 3 < j /\ j <= b + 3 + n)
    <3>1. TAKE j \in 1 .. Len(answer)
    <3>2. CASE j \in 1 .. b
      BY <1>6, <1>7, <3>2
    <3>3. CASE j - b \in 1 .. Len(config) /\ answer[j] = config[j - b]
      <4>1. Counts("Configuration", answer[j]) <=> (3 < j - b /\ j - b <= 3 + n)
        BY <1>9, <3>3
      <4>2. (3 < j - b /\ j - b <= 3 + n) <=> (b + 3 < j /\ j <= b + 3 + n)
        BY <1>5, <1>6
      <4>3. QED
        BY <4>1, <4>2
    <3>4. QED
      BY <1>10, <3>2, <3>3
  <2>4. \A i \in 1 .. n : answer[b + 3 + i].channel = Fml3Steps[i]
    <3>1. TAKE i \in 1 .. n
    <3>2. 3 + i \in 1 .. Len(config) /\ b + (3 + i) = b + 3 + i
      BY <1>5, <1>6, <1>9
    <3>3. QED
      BY <1>6, <1>9, <3>2
  <2>5. QED
    BY <1>5, <2>1, <2>2, <2>3, <2>4 DEF Shape
<1>14. b + 3 \in Nat /\ b + 3 + Len(Fml3Steps) + 1 = Len(answer)
       /\ b \in 1 .. Len(answer) - 1 /\ Len(answer) \in Nat
  BY <1>5, <1>6, <1>9
<1>15. QED
  BY <1>1, <1>7, <1>8, <1>11, <1>12, <1>13, <1>14

\* A client of another protocol is turned away.
LEMMA OtherProtocol ==
  ASSUME NEW u \in Upstreams, NEW marker, NEW protocol, protocol # u.protocol
  PROVE  LET answer == Answer(u, marker, protocol)
         IN Len(answer) = 1 /\ answer[1].id = 0
BY LoginIds DEF Answer, Plain, Packet

-----------------------------------------------------------------------------
(* The probes that fail before the one that succeeds *)

\* The list of probes that can record this upstream.
Decisive ==
  \/ stage = "Login" /\ InLogin(upstream)
  \/ stage = "Configuration" /\ ~InLogin(upstream)

Over == stage \in {"Capturing", "Saving", "Writing", "Renaming"}

\* None of the first n probes of a list is of this protocol.
NoneOf(protocol, list, n) == \A i \in 1 .. n : list[i][2] # protocol

\* No probe that should succeed has been passed; the list that can record this
\* upstream is left with the whole handshake.
Progress ==
  ~troubled /\ Recordable =>
    /\ stage = "Login" /\ InLogin(upstream) =>
         probe = 1 \/ (probe = 2 /\ upstream.marker = "FML2")
    /\ (stage = "Configuration" \/ Over) /\ InLogin(upstream) => snapshot.fml2 = {Fml2Steps}
    /\ stage = "Configuration" /\ ~InLogin(upstream) =>
         NoneOf(upstream.protocol, Probes, probe - 1)
    /\ Over /\ ~InLogin(upstream) => snapshot.fml3 = {Fml3Steps}

\* When a probe of the list that can record the upstream may fail, and succeed.
MayFail ==
  /\ stage = "Login" /\ InLogin(upstream) => probe = 1 /\ upstream.marker = "FML2"
  /\ stage = "Configuration" /\ ~InLogin(upstream) =>
       Probes[probe][2] # upstream.protocol

MaySucceed ==
  /\ stage = "Login" /\ InLogin(upstream) => steps = Fml2Steps
  /\ stage = "Configuration" /\ ~InLogin(upstream) => steps = Fml3Steps

\* The first two probes of Login are of the upstream's protocol.
LEMMA FirstLoginProbes ==
  ASSUME Typed, Placed, Recordable, stage = "Login", InLogin(upstream)
  PROVE  Probes[1] = << "FML3", upstream.protocol >> /\ Probes[2] = << "FML2", upstream.protocol >>
<1>1. upstream.protocol \in Nat \ {0} /\ upstream.protocol <= 763
  BY UpstreamsAssumption DEF Typed, InLogin
<1>2. upstream.protocol = auto_protocol \/ upstream.protocol = 763
  <2>1. upstream.protocol \notin Range(FallbackProtocols)
    BY <1>1 DEF FallbackProtocols, Range
  <2>2. QED
    BY <2>1 DEF Recordable
<1>3. auto_protocol \in {0, upstream.protocol}
  BY DEF Placed, None
<1>4. Probes = LoginProbes(auto_protocol)
  BY DEF Probes
<1>5. CASE auto_protocol \in {0, 763}
  <2>1. upstream.protocol = 763
    BY <1>1, <1>2, <1>3, <1>5
  <2>2. LoginProbes(auto_protocol) = << >> \o << Probe("FML3", 763), Probe("FML2", 763) >>
    BY <1>5 DEF LoginProbes, None
  <2>3. QED
    BY <1>4, <2>1, <2>2 DEF Probe
<1>6. CASE auto_protocol \notin {0, 763}
  <2>1. auto_protocol = upstream.protocol /\ auto_protocol <= 763
    BY <1>1, <1>3, <1>6
  <2>2. LoginProbes(auto_protocol)
          = << Probe("FML3", auto_protocol), Probe("FML2", auto_protocol) >>
            \o << Probe("FML3", 763), Probe("FML2", 763) >>
    BY <1>6, <2>1 DEF LoginProbes, None
  <2>3. QED
    BY <1>4, <2>1, <2>2 DEF Probe
<1>7. QED
  BY <1>5, <1>6

\* A probe of Configuration asks as FML3, and one of another protocol than the
\* upstream's is not the last if none of the upstream's came before.
LEMMA ConfigurationProbe ==
  ASSUME Typed, Placed, Recordable, stage = "Configuration", ~InLogin(upstream),
         \A i \in 1 .. probe - 1 : Probes[i][2] # upstream.protocol
  PROVE  /\ Probes[probe] = << "FML3", Probes[probe][2] >>
         /\ Probes[probe][2] # upstream.protocol => probe < Len(Probes)
<1>1. /\ upstream.protocol \in Nat /\ ~(upstream.protocol <= 763)
      /\ auto_protocol \in Nat /\ probe \in Nat \ {0}
  BY UpstreamsAssumption DEF Typed, InLogin
<1>2. Probes = ConfigurationProbes(auto_protocol)
  BY DEF Probes
<1>3. Len(Probes) \in Nat /\ probe <= Len(Probes)
  BY ProbesType DEF Placed, Probing
<1>4. CASE auto_protocol # None
  <2>1. auto_protocol = upstream.protocol
    BY <1>4 DEF Placed
  <2>2. Probes[1] = Probe("FML3", upstream.protocol)
    BY <1>1, <1>2, <1>4, <2>1, ConfigurationProbesType
  <2>3. Probes[1] = << "FML3", upstream.protocol >> /\ Probes[1][2] = upstream.protocol
    BY <2>2 DEF Probe
  <2>4. probe = 1
    <3>1. 1 \notin 1 .. probe - 1
      BY <2>3
    <3>2. QED
      BY <1>1, <3>1
  <2>5. QED
    BY <2>3, <2>4
<1>5. CASE auto_protocol = None
  <2>1. /\ Len(Probes) = 8
        /\ \A i \in 1 .. 8 : Probes[i] = Probe("FML3", FallbackProtocols[i])
    BY <1>1, <1>2, <1>5, ConfigurationProbesType
  <2>2. \A i \in 1 .. 8 : Probes[i] = << "FML3", FallbackProtocols[i] >>
                          /\ Probes[i][2] = FallbackProtocols[i]
    BY <2>1 DEF Probe
  <2>3. PICK k \in 1 .. 8 : FallbackProtocols[k] = upstream.protocol
    <3>1. upstream.protocol \in Range(FallbackProtocols)
      BY <1>1, <1>5 DEF Recordable, None
    <3>2. DOMAIN FallbackProtocols = 1 .. 8
      BY FallbackType
    <3>3. QED
      BY <3>1, <3>2 DEF Range
  <2>4. probe \in 1 .. 8
    BY <1>1, <1>3, <2>1
  <2>5. k \notin 1 .. probe - 1
    BY <2>2, <2>3
  <2>6. k >= probe
    BY <1>1, <2>5
  <2>7. Probes[probe][2] # upstream.protocol => k # probe
    BY <2>2, <2>3, <2>4
  <2>8. Probes[probe][2] # upstream.protocol => probe < Len(Probes)
    BY <1>1, <2>1, <2>6, <2>7
  <2>9. QED
    BY <2>2, <2>4, <2>8
<1>6. QED
  BY <1>4, <1>5

\* In Login a client with a secret, if one is asked for, comes to the end of Login.
LEMMA ThroughLogin ==
  ASSUME Typed, Placed, NEW read \in Nat, Reads(read), connected, ~in_configuration,
         upstream.gated => velocity_secret,
         NEW b \in 1 .. Len(Expected), BeforeEnd(Expected, b - 1, upstream.gated),
         Expected[b].id \in {0, 2}
  PROVE  /\ read < b
         /\ \A packet \in inbox :
              /\ FailsOn(packet) => read + 1 = b /\ Expected[b].id = 0 /\ steps = << >>
              /\ SucceedsOn(packet) =>
                   /\ read + 1 = b
                   /\ \/ Expected[b].id = 2 /\ stage = "Login"
                      \/ Expected[b].id = 0 /\ steps # << >>
<1>1. Len(Expected) \in Nat /\ read <= Len(Expected)
  BY ExpectedShape DEF Reads
<1>2. \A j \in 1 .. read : Expected[j].id \in {3, 4}
  BY DEF Reads, Passed
<1>3. read < b
  <2>1. b \notin 1 .. read
    BY <1>2
  <2>2. QED
    BY <2>1
<1>4. ASSUME NEW packet \in inbox
      PROVE  /\ FailsOn(packet) => read + 1 = b /\ Expected[b].id = 0 /\ steps = << >>
             /\ SucceedsOn(packet) => /\ read + 1 = b
                                      /\ \/ Expected[b].id = 2 /\ stage = "Login"
                                         \/ Expected[b].id = 0 /\ steps # << >>
  <2>1. packet = Expected[read + 1]
    <3>1. HasRead(read)
      BY DEF Reads
    <3>2. QED
      BY <3>1, NextRead
  <2>2. CASE read + 1 = b
    <3>1. packet.id \in {0, 2} /\ packet.id = Expected[b].id
      BY <2>1, <2>2
    <3>2. QED
      BY <2>2, <3>1 DEF FailsOn, SucceedsOn
  <2>3. CASE read + 1 # b
    <3>1. read + 1 \in 1 .. b - 1
      BY <1>3, <2>3
    <3>2. packet.id \in {3, 4} /\ (packet.channel = Velocity => upstream.gated)
      BY <2>1, <3>1 DEF BeforeEnd
    <3>3. ~FailsOn(packet)
      BY <3>2 DEF FailsOn
    <3>4. ~SucceedsOn(packet)
      BY <3>2 DEF SucceedsOn
    <3>5. QED
      BY <3>3, <3>4
  <2>4. QED
    BY <2>2, <2>3
<1>5. QED
  BY <1>3, <1>4

\* In Configuration one that is sent the whole handshake comes to its end.
LEMMA ThroughConfiguration ==
  ASSUME Typed, Placed, NEW read \in Nat, Reads(read), connected, in_configuration,
         ~InLogin(upstream), upstream.protocol >= 766,
         NEW b \in 1 .. Len(Expected) - 1, BeforeEnd(Expected, b - 1, upstream.gated),
         Expected[b].id = 2,
         \A j \in b + 1 .. Len(Expected) - 1 :
           /\ Expected[j].id \notin {0, 3}
           /\ Expected[j].id = 1 => Expected[j].channel # Garbage,
         Expected[Len(Expected)].id = 3
  PROVE  /\ read < Len(Expected)
         /\ \A packet \in inbox : /\ ~FailsOn(packet)
                                  /\ SucceedsOn(packet) => read + 1 = Len(Expected)
<1>1. Len(Expected) \in Nat /\ read <= Len(Expected)
  BY ExpectedShape DEF Reads
<1>2. PICK l \in 1 .. read : /\ Expected[l].id = 2
                             /\ \A j \in 1 .. l - 1 : Expected[j].id \in {3, 4}
                             /\ \A j \in l + 1 .. read : Expected[j].id \notin {0, 3}
  BY DEF Reads, Passed
<1>3. l = b
  <2>1. b \notin 1 .. l - 1
    BY <1>2
  <2>2. l \notin 1 .. b - 1
    BY <1>2 DEF BeforeEnd
  <2>3. QED
    BY <2>1, <2>2
<1>4. read < Len(Expected)
  <2>1. Len(Expected) \notin l + 1 .. read
    BY <1>2
  <2>2. l < Len(Expected)
    BY <1>1, <1>3
  <2>3. QED
    BY <1>1, <2>1, <2>2
<1>5. ASSUME NEW packet \in inbox
      PROVE  ~FailsOn(packet) /\ (SucceedsOn(packet) => read + 1 = Len(Expected))
  <2>1. \/ packet \in Chatter(upstream)
        \/ read + 1 <= Len(Expected) /\ packet = Expected[read + 1]
    <3>1. HasRead(read)
      BY DEF Reads
    <3>2. QED
      BY <3>1, NextRead
  <2>2. CASE packet \in Chatter(upstream)
    <3>1. upstream.protocol \in Nat
      BY UpstreamsAssumption DEF Typed
    <3>2. ~(upstream.protocol < 766)
      BY <3>1
    <3>3. packet.id = 4
      BY <2>2, <3>2 DEF Chatter, Plain, Packet, Config
    <3>4. QED
      BY <3>3 DEF FailsOn, SucceedsOn
  <2>3. CASE packet = Expected[read + 1] /\ read + 1 # Len(Expected)
    <3>1. read + 1 \in b + 1 .. Len(Expected) - 1
      BY <1>1, <1>3, <1>4, <2>3
    <3>2. packet.id \notin {0, 3} /\ (packet.id = 1 => packet.channel # Garbage)
      BY <2>3, <3>1
    <3>3. QED
      BY <3>2 DEF FailsOn, SucceedsOn
  <2>4. CASE packet = Expected[read + 1] /\ read + 1 = Len(Expected)
    <3>1. packet.id = 3
      BY <2>4
    <3>2. QED
      BY <2>4, <3>1 DEF FailsOn
  <2>5. QED
    BY <2>1, <2>2, <2>3, <2>4
<1>6. QED
  BY <1>4, <1>5

LEMMA ExpectedCollected ==
  ASSUME Typed, NEW read \in Nat, Reads(read), NEW off \in Nat, NEW m \in Nat,
         Shape(stage, Expected, off, m)
  PROVE  /\ m = 0 => steps = << >>
         /\ read >= off + m /\ m = Len(StepsOf(stage)) => steps = StepsOf(stage)
<1>1. Collected(stage, steps, read, off, m)
  BY DEF Reads
<1>2. steps \in Seq(Channels)
  BY DEF Typed
<1>3. QED
  BY <1>1, <1>2, CollectedPrefix

\* In Login: the probe of the upstream's marker succeeds with all its steps; the
\* one before it fails.
LEMMA LoginDecided ==
  ASSUME Typed, Placed, Progress, connected, ~troubled, Recordable,
         stage = "Login", InLogin(upstream), NEW read \in Nat, Reads(read)
  PROVE  /\ read < Len(Expected)
         /\ \A packet \in inbox : /\ FailsOn(packet) => MayFail
                                  /\ SucceedsOn(packet) => MaySucceed
<1>1. /\ upstream \in Upstreams /\ ~in_configuration /\ ~upstream.online_mode
      /\ ~upstream.impatient /\ (upstream.gated => velocity_secret)
      /\ (upstream.strict \/ upstream.marker = "FML3")
      /\ upstream.marker \in {"FML2", "FML3"}
  BY UpstreamsAssumption DEF Typed, Placed, Recordable
<1>2. probe = 1 \/ (probe = 2 /\ upstream.marker = "FML2")
  BY DEF Progress
<1>3. PICK marker : marker = Probes[probe][1]
  OBVIOUS
<1>4. /\ marker = IF probe = 1 THEN "FML3" ELSE "FML2"
      /\ Expected = Answer(upstream, marker, upstream.protocol)
  BY <1>2, <1>3, FirstLoginProbes DEF Expected
<1>5. PICK n : n = Len(Expected)
  OBVIOUS
<1>6. CASE marker = upstream.marker
  <2>1. PICK off \in Nat : /\ Shape("Login", Expected, off, Len(Fml2Steps))
                           /\ off + Len(Fml2Steps) + 1 = n
    BY <1>1, <1>4, <1>5, <1>6, LoginHandshake
  <2>2. n \in Nat \ {0} /\ BeforeEnd(Expected, n - 1, upstream.gated) /\ Expected[n].id = 2
    BY <1>1, <1>4, <1>5, <1>6, LoginHandshake
  <2>3. n \in 1 .. Len(Expected) /\ Expected[n].id \in {0, 2}
    BY <1>5, <2>2
  <2>4. read < n /\ \A packet \in inbox : /\ ~FailsOn(packet)
                                          /\ SucceedsOn(packet) => read + 1 = n
    BY <1>1, <2>2, <2>3, ThroughLogin
  <2>5. read + 1 = n => steps = Fml2Steps
    <3>1. Len(Fml2Steps) \in Nat /\ StepsOf(stage) = Fml2Steps
      BY UpstreamsAssumption DEF StepsOf
    <3>2. read + 1 = n => read >= off + Len(Fml2Steps)
      BY <2>1, <3>1
    <3>3. QED
      BY <2>1, <3>1, <3>2, ExpectedCollected
  <2>6. QED
    BY <1>5, <2>4, <2>5 DEF MaySucceed
<1>7. CASE marker # upstream.marker
  <2>1. probe = 1 /\ upstream.marker = "FML2" /\ upstream.strict
    BY <1>1, <1>2, <1>4, <1>7
  <2>2. n \in Nat \ {0} /\ BeforeEnd(Expected, n - 1, upstream.gated) /\ Expected[n].id = 0
    BY <1>1, <1>4, <1>5, <1>7, <2>1, LoginRefusal
  <2>3. PICK off \in Nat : Shape("Login", Expected, off, 0)
    BY <1>1, <1>4, <1>7, <2>1, LoginRefusal
  <2>4. steps = << >>
    BY <2>3, ExpectedCollected
  <2>5. n \in 1 .. Len(Expected) /\ Expected[n].id \in {0, 2}
    BY <1>5, <2>2
  <2>6. read < n /\ \A packet \in inbox : ~SucceedsOn(packet)
    BY <1>1, <2>2, <2>4, <2>5, ThroughLogin
  <2>7. MayFail
    BY <2>1 DEF MayFail
  <2>8. QED
    BY <1>5, <2>6, <2>7
<1>8. QED
  BY <1>6, <1>7

\* In Configuration: the probe of the upstream's protocol succeeds with all its
\* steps; the ones before it fail.
LEMMA ConfigurationDecided ==
  ASSUME NumbersAreKnown, Typed, Placed, Progress, connected, ~troubled, Recordable,
         stage = "Configuration", ~InLogin(upstream), NEW read \in Nat, Reads(read)
  PROVE  /\ read < Len(Expected)
         /\ \A packet \in inbox : /\ FailsOn(packet) => MayFail
                                  /\ SucceedsOn(packet) => MaySucceed
<1>1. /\ upstream \in Upstreams /\ in_configuration \in BOOLEAN /\ ~upstream.online_mode
      /\ ~upstream.impatient /\ (upstream.gated => velocity_secret)
      /\ upstream.marker = "FML3" /\ upstream.protocol >= 766
  BY UpstreamsAssumption DEF Typed, Recordable, NumbersAreKnown
<1>2. \A i \in 1 .. probe - 1 : Probes[i][2] # upstream.protocol
  BY DEF Progress, NoneOf
<1>3. PICK protocol : protocol = Probes[probe][2]
  OBVIOUS
<1>4. Probes[probe][1] = "FML3"
  BY <1>2, ConfigurationProbe
<1>5. Expected = Answer(upstream, "FML3", protocol)
  BY <1>3, <1>4 DEF Expected
<1>6. PICK n : n = Len(Expected)
  OBVIOUS
<1>7. CASE protocol = upstream.protocol
  <2>0. Expected = Answer(upstream, upstream.marker, upstream.protocol)
    BY <1>1, <1>5, <1>7
  <2>1. PICK off \in Nat : /\ Shape("Configuration", Expected, off, Len(Fml3Steps))
                           /\ off + Len(Fml3Steps) + 1 = n
    BY <1>1, <1>6, <2>0, ConfigurationHandshake
  <2>2. PICK b \in 1 .. n - 1 :
          /\ BeforeEnd(Expected, b - 1, upstream.gated) /\ Expected[b].id = 2
          /\ \A j \in b + 1 .. n - 1 : /\ Expected[j].id \notin {0, 3}
                                       /\ Expected[j].id = 1 => Expected[j].channel # Garbage
    BY <1>1, <1>6, <2>0, ConfigurationHandshake
  <2>3. n \in Nat /\ Expected[n].id = 3
    BY <1>1, <1>6, <2>0, ConfigurationHandshake
  <2>4. read + 1 = n => steps = Fml3Steps
    <3>1. Len(Fml3Steps) \in Nat /\ StepsOf(stage) = Fml3Steps
      BY UpstreamsAssumption DEF StepsOf
    <3>2. read + 1 = n => read >= off + Len(Fml3Steps)
      BY <2>1, <3>1
    <3>3. QED
      BY <2>1, <3>1, <3>2, ExpectedCollected
  <2>5. CASE ~in_configuration
    <3>1. b \in 1 .. Len(Expected) /\ Expected[b].id \in {0, 2} /\ b < n
      BY <1>6, <2>2, <2>3
    <3>2. read < b /\ \A packet \in inbox : ~FailsOn(packet) /\ ~SucceedsOn(packet)
      BY <1>1, <2>2, <2>5, <3>1, ThroughLogin
    <3>3. read < n
      BY <2>3, <3>1, <3>2
    <3>4. QED
      BY <1>6, <3>2, <3>3
  <2>6. CASE in_configuration
    <3>1. read < n /\ \A packet \in inbox : ~FailsOn(packet) /\ (SucceedsOn(packet) => read + 1 = n)
      BY <1>1, <1>6, <2>2, <2>3, <2>6, ThroughConfiguration
    <3>2. QED
      BY <1>6, <2>4, <3>1 DEF MaySucceed
  <2>7. QED
    BY <2>5, <2>6
<1>8. CASE protocol # upstream.protocol
  <2>1. Len(Expected) = 1 /\ Expected[1].id = 0
    BY <1>1, <1>5, <1>8, OtherProtocol
  <2>2. ~in_configuration
    <3>1. read <= 1
      BY <2>1 DEF Reads
    <3>2. \A l \in 1 .. read : Expected[l].id # 2
      BY <2>1, <3>1
    <3>3. QED
      BY <3>2 DEF Reads, Passed
  <2>3. 1 \in 1 .. Len(Expected) /\ Expected[1].id \in {0, 2}
        /\ BeforeEnd(Expected, 1 - 1, upstream.gated)
    BY <2>1 DEF BeforeEnd
  <2>4. steps = << >>
    <3>1. PICK off \in Nat, m \in Nat : Shape(stage, Expected, off, m)
      BY ExpectedShape
    <3>2. ~Counts(stage, Expected[1])
      BY <2>1 DEF Counts
    <3>3. m = 0
      <4>1. off + m <= 1
        BY <2>1, <3>1 DEF Shape
      <4>2. Counts(stage, Expected[1]) <=> (off < 1 /\ 1 <= off + m)
        BY <2>1, <3>1 DEF Shape
      <4>3. QED
        BY <3>2, <4>1, <4>2
    <3>4. QED
      BY <3>1, <3>3, ExpectedCollected
  <2>5. read < 1 /\ \A packet \in inbox : ~SucceedsOn(packet)
    BY <1>1, <2>1, <2>2, <2>3, <2>4, ThroughLogin
  <2>6. MayFail
    BY <1>3, <1>8 DEF MayFail
  <2>7. QED
    BY <2>1, <2>5, <2>6
<1>9. QED
  BY <1>7, <1>8

-----------------------------------------------------------------------------
(* The whole handshake is recorded *)

\* An upstream that can be recorded is the same one after a step of the recording.
LEMMA RecordableStays ==
  ASSUME UNCHANGED << upstream, velocity_secret, auto_protocol >>
  PROVE  Recordable' <=> Recordable
BY DEF Recordable

LEMMA FailProgress ==
  ASSUME Typed, Placed, Progress, Probing, Fail, UNCHANGED rest,
         ~troubled' => ~troubled,
         ~troubled' /\ Recordable => MayFail
  PROVE  Progress'
<1>1. /\ upstream' = upstream /\ auto_protocol' = auto_protocol
      /\ velocity_secret' = velocity_secret /\ snapshot' = snapshot
  BY DEF rest, config_vars, Fail
<1>2. Recordable' <=> Recordable
  BY <1>1, RecordableStays
<1>3. SUFFICES ASSUME ~troubled, Recordable, MayFail PROVE Progress'
  BY <1>2 DEF Progress
<1>4. CASE stage = "Login" /\ InLogin(upstream)
  <2>1. probe = 1 /\ upstream.marker = "FML2" /\ Len(Probes) >= 2 /\ Len(Probes) \in Nat
    BY <1>3, <1>4, ProbesType DEF MayFail
  <2>2. probe' = 2 /\ stage' = stage
    BY <2>1 DEF Fail
  <2>3. QED
    BY <1>1, <1>4, <2>1, <2>2 DEF Progress, Over
<1>5. CASE stage = "Configuration" /\ ~InLogin(upstream)
  <2>1. \A i \in 1 .. probe - 1 : Probes[i][2] # upstream.protocol
    BY <1>3, <1>5 DEF Progress, NoneOf
  <2>2. Probes[probe][2] # upstream.protocol
    BY <1>3, <1>5 DEF MayFail
  <2>3. probe < Len(Probes)
    BY <1>3, <1>5, <2>1, <2>2, ConfigurationProbe
  <2>4. probe' = probe + 1 /\ stage' = stage
    BY <2>3 DEF Fail
  <2>5. Probes' = Probes
    BY <1>1, <2>4 DEF Probes
  <2>6. NoneOf(upstream'.protocol, Probes', probe' - 1)
    <3>1. probe \in Nat /\ probe' - 1 = probe
      BY <2>4 DEF Typed
    <3>2. \A i \in 1 .. probe : i \in 1 .. probe - 1 \/ i = probe
      BY <3>1
    <3>3. NoneOf(upstream.protocol, Probes, probe)
      BY <2>1, <2>2, <3>2 DEF NoneOf
    <3>4. QED
      BY <1>1, <2>5, <3>1, <3>3
  <2>7. QED
    BY <1>1, <1>5, <2>4, <2>6 DEF Progress, Over
<1>6. CASE stage = "Configuration" /\ InLogin(upstream)
  <2>1. snapshot'.fml2 = {Fml2Steps}
    BY <1>1, <1>3, <1>6 DEF Progress
  <2>2. stage' # "Login"
    BY <1>6 DEF Fail, NextStage
  <2>3. QED
    BY <1>1, <1>6, <2>1, <2>2 DEF Progress
<1>7. CASE stage = "Login" /\ ~InLogin(upstream)
  <2>1. stage' = "Login" \/ (stage' = "Configuration" /\ probe' = 1)
    BY <1>7 DEF Fail, NextStage
  <2>2. stage' = "Configuration" => NoneOf(upstream'.protocol, Probes', probe' - 1)
    BY <2>1 DEF NoneOf
  <2>3. QED
    BY <1>1, <1>7, <2>1, <2>2 DEF Progress, Over
<1>8. QED
  BY <1>4, <1>5, <1>6, <1>7 DEF Probing

LEMMA SucceedProgress ==
  ASSUME Typed, Placed, Progress, Probing, Succeed, UNCHANGED rest,
         ~troubled' => ~troubled,
         ~troubled' /\ Recordable => MaySucceed
  PROVE  Progress'
<1>1. /\ upstream' = upstream /\ auto_protocol' = auto_protocol
      /\ velocity_secret' = velocity_secret /\ probe' = 1 /\ stage' = NextStage
  BY DEF rest, config_vars, Succeed
<1>2. Recordable' <=> Recordable
  BY <1>1, RecordableStays
<1>3. SUFFICES ASSUME ~troubled, Recordable, MaySucceed PROVE Progress'
  BY <1>2 DEF Progress
<1>4. /\ stage = "Login" => snapshot'.fml2 = {steps}
      /\ stage # "Login" => snapshot'.fml2 = snapshot.fml2 /\ snapshot'.fml3 = {steps}
  BY DEF Succeed, Typed, Snapshots
<1>5. CASE stage = "Login"
  <2>1. stage' = "Configuration" /\ NoneOf(upstream'.protocol, Probes', probe' - 1)
    BY <1>1, <1>5 DEF NextStage, NoneOf
  <2>2. InLogin(upstream) => snapshot'.fml2 = {Fml2Steps}
    BY <1>3, <1>4, <1>5 DEF MaySucceed
  <2>3. QED
    BY <1>1, <2>1, <2>2 DEF Progress, Over
<1>6. CASE stage = "Configuration"
  <2>1. stage' = "Capturing"
    BY <1>1, <1>6 DEF NextStage
  <2>2. InLogin(upstream) => snapshot'.fml2 = {Fml2Steps}
    BY <1>3, <1>4, <1>6 DEF Progress
  <2>3. ~InLogin(upstream) => snapshot'.fml3 = {Fml3Steps}
    BY <1>3, <1>4, <1>6 DEF MaySucceed
  <2>4. QED
    BY <1>1, <2>1, <2>2, <2>3 DEF Progress, Over
<1>7. QED
  BY <1>5, <1>6 DEF Probing

LEMMA StillProgress ==
  ASSUME Progress, UNCHANGED << upstream, velocity_secret, auto_protocol, stage, probe, snapshot >>,
         ~troubled' => ~troubled
  PROVE  Progress'
<1>1. Recordable' <=> Recordable
  BY RecordableStays
<1>2. Probes' = Probes
  BY DEF Probes
<1>3. QED
  BY <1>1, <1>2 DEF Progress, Over

\* A probe ends of itself.
LEMMA ReadProgress ==
  ASSUME NumbersAreKnown, Typed, Placed, Session, Progress, Read
  PROVE  Progress'
<1>1. connected /\ Probing /\ UNCHANGED << rest, troubled >>
  BY ReadEnds
<1>2. PICK read \in Nat : Reads(read)
  BY <1>1 DEF Session
<1>3. PICK packet \in inbox : \/ Fail /\ FailsOn(packet)
                              \/ Succeed /\ SucceedsOn(packet)
                              \/ Goes(packet)
  BY ReadEnds
<1>4. ASSUME ~troubled, Recordable
      PROVE  (FailsOn(packet) => MayFail) /\ (SucceedsOn(packet) => MaySucceed)
  <2>1. CASE stage = "Login" /\ InLogin(upstream)
    BY <1>1, <1>2, <1>4, <2>1, LoginDecided
  <2>2. CASE stage = "Configuration" /\ ~InLogin(upstream)
    BY <1>1, <1>2, <1>4, <2>2, ConfigurationDecided
  <2>3. CASE ~Decisive
    BY <2>3 DEF Decisive, MayFail, MaySucceed
  <2>4. QED
    BY <2>1, <2>2, <2>3 DEF Decisive
<1>5. CASE Fail /\ FailsOn(packet)
  BY <1>1, <1>4, <1>5, FailProgress
<1>6. CASE Succeed /\ SucceedsOn(packet)
  BY <1>1, <1>4, <1>6, SucceedProgress
<1>7. CASE Goes(packet)
  BY <1>1, <1>7, StillProgress DEF Goes, rest, config_vars
<1>8. QED
  BY <1>3, <1>5, <1>6, <1>7

\* A probe that the upstream does not fail is not left before its end.
LEMMA BreakProgress ==
  ASSUME NumbersAreKnown, Typed, Placed, Session, Progress, StreamFails \/ Deadline
  PROVE  Progress'
<1>1. /\ connected /\ Probing /\ Fail /\ UNCHANGED rest
      /\ troubled' = (troubled \/ sent < Len(Expected) \/ inbox # {})
  BY DEF StreamFails, Deadline, Typed
<1>2. PICK read \in Nat : Reads(read)
  BY <1>1 DEF Session
<1>3. ~troubled' => ~troubled
  BY <1>1
<1>4. ASSUME ~troubled', Recordable PROVE MayFail
  <2>1. ~(sent < Len(Expected)) /\ inbox = {}
    BY <1>1, <1>4
  <2>2. sent = read
    BY <1>2, <2>1 DEF Reads, HasRead
  <2>3. ~(read < Len(Expected))
    BY <2>1, <2>2
  <2>4. ~(stage = "Login" /\ InLogin(upstream))
    BY <1>1, <1>2, <1>3, <1>4, <2>3, LoginDecided
  <2>5. ~(stage = "Configuration" /\ ~InLogin(upstream))
    BY <1>1, <1>2, <1>3, <1>4, <2>3, ConfigurationDecided
  <2>6. QED
    BY <2>4, <2>5 DEF MayFail
<1>5. QED
  BY <1>1, <1>3, <1>4, FailProgress

LEMMA NextProgress ==
  ASSUME NumbersAreKnown
  PROVE  Inv /\ Recording /\ Progress /\ [Next]_vars => Progress'
<1> SUFFICES ASSUME Inv, Recording, Progress, [Next]_vars PROVE Progress'
  OBVIOUS
<1>1. Typed /\ Placed /\ Session
  BY DEF Inv, Recording
<1>2. CASE Read
  BY <1>1, <1>2, ReadProgress
<1>3. CASE StreamFails \/ Deadline
  BY <1>1, <1>3, BreakProgress
<1>4. CASE ConnectFails
  <2>1. troubled' = TRUE
    BY <1>4 DEF ConnectFails
  <2>2. QED
    BY <2>1 DEF Progress
<1>5. CASE Connect \/ UpstreamSends \/ UpstreamChatters
  BY <1>5, StillProgress DEF Connect, UpstreamSends, UpstreamChatters, rest, config_vars
<1>6. CASE Start \/ LoadFallback \/ LoadSnapshot \/ SaveFails \/ Crash
  <2>1. stage' \notin {"Login", "Configuration", "Capturing", "Saving", "Writing", "Renaming"}
    BY <1>6 DEF Start, LoadFallback, LoadSnapshot, SaveFails, Crash
  <2>2. QED
    BY <2>1 DEF Progress, Over
<1>7. CASE Detect
  <2>1. stage' = "Login" /\ probe' = 1
    BY <1>1, <1>7 DEF Detect, Placed
  <2>2. QED
    BY <2>1 DEF Progress, Over
<1>8. CASE Capture \/ OpenTmp \/ WriteTmp \/ Rename
  <2>1. /\ Over /\ stage' \notin {"Login", "Configuration"}
        /\ UNCHANGED << upstream, velocity_secret, auto_protocol, troubled >>
    BY <1>8 DEF Capture, OpenTmp, WriteTmp, Rename, Over, afar, config_vars
  <2>2. snapshot'.fml2 = snapshot.fml2 /\ snapshot'.fml3 = snapshot.fml3
    BY <1>1, <1>8 DEF Capture, OpenTmp, WriteTmp, Rename, Typed, Snapshots
  <2>3. Recordable' <=> Recordable
    BY <2>1, RecordableStays
  <2>4. QED
    BY <2>1, <2>2, <2>3 DEF Progress
<1>9. CASE UNCHANGED vars
  BY <1>9, StillProgress DEF vars, config_vars
<1>10. QED
  BY <1>2, <1>3, <1>4, <1>5, <1>6, <1>7, <1>8, <1>9 DEF Next, LimboStep

\* Of an upstream whose packets the recorder knows by their numbers, that can be
\* recorded and that does not fail, the whole handshake is recorded: whichever
\* probes are turned away before, and whatever comes by the way
\* (maybe_record_forge_snapshot, record_login_phase, record_configuration_phase).
THEOREM HandshakeRecorded ==
  ASSUME NumbersAreKnown
  PROVE  Spec => []HandshakeIsRecorded
<1>1. Init => Progress
  BY DEF Init, Progress, Over
<1>2. Inv /\ Recording /\ Progress /\ [Next]_vars => Progress'
  BY NextProgress
<1>3. Progress => HandshakeIsRecorded
  <2>1. SUFFICES ASSUME Progress, Over, ~troubled, Recordable
                 PROVE  IF InLogin(upstream) THEN snapshot.fml2 = {Fml2Steps}
                                             ELSE snapshot.fml3 = {Fml3Steps}
    BY DEF HandshakeIsRecorded, Over
  <2>2. QED
    BY <2>1 DEF Progress
<1>4. QED
  BY <1>1, <1>2, <1>3, Invariant, RecordingInvariant, PTL DEF Spec
=============================================================================
