------------------------- MODULE Connection_proofs -------------------------
(***************************************************************************)
(* Theorems of Connection, for any set of clients, any configurations and  *)
(* any way the clients open: what every handler returns, whatever it is    *)
(* given, the types, the roster the server implements, and that nobody     *)
(* sees the world before it is counted.                                    *)
(***************************************************************************)
EXTENDS Connection, FiniteSetTheorems, SequenceTheorems, TLAPS

-----------------------------------------------------------------------------
(* What a handler returns *)

Opens(batch) == \E i \in DOMAIN batch : batch[i].type = "Login"
Sound(outcome) ==
  /\ outcome \in Outcomes
  /\ Opens(outcome.batch) => outcome.error = "None" /\ outcome.client_state.state = "Play"

-----------------------------------------------------------------------------
(* Packets and outcomes *)

PlainTypes == {"StatusResponse", "PongResponse", "SetCompression", "ConfigurationData",
               "FinishConfiguration", "Login", "PlayData", "KeepAlive", "ActionBar",
               "LoginDisconnect", "ConfigurationDisconnect", "PlayDisconnect"}

\* Client packets without contents.
LEMMA PlainPackets ==
  ASSUME NEW type \in PlainTypes
  PROVE  Packet(type) \in ClientBound /\ Packet(type).type = type
BY DEF Packet, ClientBound, PlainTypes

\* Success and failure, as handlers return them.
LEMMA SoundQueued ==
  ASSUME NEW cs \in ClientStates, NEW batch \in Seq(ClientBound),
         Opens(batch) => cs.state = "Play"
  PROVE  Sound(Queued(cs, batch))
BY DEF Queued, Sound, Outcomes, Errors

\* A failure drops the batch, so it opens nothing.
LEMMA SoundFailed ==
  ASSUME NEW cs \in ClientStates, NEW error \in Errors
  PROVE  Sound(Failed(cs, error))
BY DEF Failed, Sound, Outcomes, Opens

\* A single packet other than Login.
LEMMA SoundOfOne ==
  ASSUME NEW cs \in ClientStates, NEW packet \in ClientBound, packet.type # "Login"
  PROVE  Sound(Queued(cs, << packet >>))
BY SoundQueued DEF Opens

\* No packet at all.
LEMMA SoundOfNone ==
  ASSUME NEW cs \in ClientStates
  PROVE  Sound(Queued(cs, << >>))
<1>1. << >> \in Seq(ClientBound) /\ ~Opens(<< >>)
  BY DEF Opens
<1>2. QED
  BY <1>1, SoundQueued

\* A batch opens the world when a part of it does.
LEMMA OpensConcat ==
  ASSUME NEW first \in Seq(ClientBound), NEW second \in Seq(ClientBound),
         ~Opens(first), ~Opens(second)
  PROVE  first \o second \in Seq(ClientBound) /\ ~Opens(first \o second)
<1>1. first \o second \in Seq(ClientBound)
  OBVIOUS
<1>2. ASSUME NEW i \in DOMAIN (first \o second)
      PROVE  (first \o second)[i].type # "Login"
  <2>1. i \in 1 .. Len(first) + Len(second)
    BY <1>2
  <2>2. CASE i <= Len(first)
    <3>1. i \in DOMAIN first /\ (first \o second)[i] = first[i]
      BY <2>1, <2>2
    <3>2. QED
      BY <3>1 DEF Opens
  <2>3. CASE i > Len(first)
    <3>1. i - Len(first) \in DOMAIN second /\ (first \o second)[i] = second[i - Len(first)]
      BY <2>1, <2>3
    <3>2. QED
      BY <3>1 DEF Opens
  <2>4. QED
    BY <2>1, <2>2, <2>3
<1>3. QED
  BY <1>1, <1>2 DEF Opens

-----------------------------------------------------------------------------
(* Changes of the client state *)

\* ClientState::set_game_profile keeps the type.
LEMMA SetGameProfileType ==
  ASSUME NEW cs \in ClientStates, NEW profile \in Profiles
  PROVE  SetGameProfile(cs, profile) \in ClientStates
BY DEF ClientStates, SetGameProfile

\* ClientState::kick keeps the type.
LEMMA KickType ==
  ASSUME NEW cs \in ClientStates
  PROVE  Kick(cs) \in ClientStates
BY DEF ClientStates, Kick

\* Fml2ReplaySession::take_next_step: the numbers stay natural ones.
LEMMA TakeNextStepType ==
  ASSUME NEW session \in Sessions
  PROVE  /\ TakeNextStep(session) \in Sessions
         /\ TakeNextStep(session).next_step \in Nat
         /\ TakeNextStep(session).next_message_id \in Nat
<1>1. /\ session.next_step + 1 \in Nat /\ session.next_message_id + 1 \in Nat
      /\ session.pending \cup {session.next_message_id + 1} \in SUBSET Nat
      /\ session.active \in BOOLEAN
  BY DEF Sessions
<1>2. ASSUME NEW step \in Nat, NEW id \in Nat, NEW pending \in SUBSET Nat
      PROVE  LET next == [session EXCEPT !.next_step = step, !.next_message_id = id,
                                         !.pending = pending]
             IN  /\ next \in Sessions
                 /\ next.next_step \in Nat /\ next.next_message_id \in Nat
  BY DEF Sessions
<1>3. QED
  BY <1>1, <1>2 DEF TakeNextStep

-----------------------------------------------------------------------------
(* Handlers of Play and Configuration *)

\* send_play_packets enters Play before it queues Login, or fails.
LEMMA SendPlayPacketsSound ==
  ASSUME NEW cs \in ClientStates, NEW batch \in Seq(ClientBound), NEW server \in ServerStates
  PROVE  Sound(SendPlayPackets(cs, batch, server))
<1> DEFINE playing == SetKeepAliveShouldEnable([cs EXCEPT !.state = "Play"])
<1>1. playing \in ClientStates /\ playing.state = "Play"
  BY DEF ClientStates, SetKeepAliveShouldEnable, States
<1>2. batch \o << Packet("Login"), Packet("PlayData") >> \in Seq(ClientBound)
  BY PlainPackets DEF PlainTypes
<1>3. Sound(Queued(playing, batch \o << Packet("Login"), Packet("PlayData") >>))
  BY <1>1, <1>2, SoundQueued
<1>4. Sound(Failed(cs, "Disconnected"))
  BY SoundFailed DEF Errors
<1>5. QED
  BY <1>3, <1>4 DEF SendPlayPackets

\* The answer to LoginAcknowledged never opens the world.
LEMMA LoginAcknowledgedSound ==
  ASSUME NEW cs \in ClientStates
  PROVE  Sound(HandleLoginAcknowledged(cs))
<1> DEFINE batch == << Packet("ConfigurationData"), Packet("FinishConfiguration") >>
<1>1. [cs EXCEPT !.state = "Configuration"] \in ClientStates
  BY DEF ClientStates, States
<1>2. batch \in Seq(ClientBound) /\ ~Opens(batch)
  BY PlainPackets DEF PlainTypes, Opens
<1>3. Sound(Queued([cs EXCEPT !.state = "Configuration"], batch))
  BY <1>1, <1>2, SoundQueued
<1>4. Sound(Failed(cs, "Disconnected"))
  BY SoundFailed DEF Errors
<1>5. QED
  BY <1>3, <1>4 DEF HandleLoginAcknowledged

-----------------------------------------------------------------------------
(* Handlers of Login *)

\* fire_login_success opens the world only for a version without Configuration.
LEMMA FireLoginSuccessSound ==
  ASSUME NEW cs \in ClientStates, NEW server \in ServerStates, NEW profile \in Profiles
  PROVE  Sound(FireLoginSuccess(cs, << >>, server, profile))
<1> DEFINE success == [type |-> "LoginSuccess", profile |-> profile]
           queued(compress) ==
             << >> \o (IF compress THEN << Packet("SetCompression") >> ELSE << >>)
                   \o << success >>
           named == SetGameProfile(cs, profile)
<1>1. named \in ClientStates
  BY SetGameProfileType
<1>2. success \in ClientBound /\ success.type # "Login"
  BY DEF ClientBound
<1>3. ASSUME NEW compress \in BOOLEAN
      PROVE  queued(compress) \in Seq(ClientBound) /\ ~Opens(queued(compress))
  <2>1. Packet("SetCompression") \in ClientBound /\ Packet("SetCompression").type # "Login"
    BY PlainPackets DEF PlainTypes
  <2>2. /\ << >> \in Seq(ClientBound) /\ ~Opens(<< >>)
        /\ << Packet("SetCompression") >> \in Seq(ClientBound)
        /\ ~Opens(<< Packet("SetCompression") >>)
        /\ << success >> \in Seq(ClientBound) /\ ~Opens(<< success >>)
    BY <2>1, <1>2 DEF Opens
  <2>3. QED
    BY <2>2, OpensConcat
<1> HIDE DEF queued, named
<1>4. ASSUME NEW compress \in BOOLEAN
      PROVE  /\ Sound(Queued(named, queued(compress)))
             /\ Sound(SendPlayPackets(named, queued(compress), server))
  BY <1>1, <1>3, SoundQueued, SendPlayPacketsSound
<1>5. QED
  <2> DEFINE compress == IsAfterInclusive(cs.protocol_version, V1_8) /\ server.compression
  <2>1. compress \in BOOLEAN
    BY DEF ServerStates
  <2>2. FireLoginSuccess(cs, << >>, server, profile)
          = IF SupportsConfigurationState(cs.protocol_version)
            THEN Queued(named, queued(compress))
            ELSE SendPlayPackets(named, queued(compress), server)
    BY DEF FireLoginSuccess, queued, named
  <2>3. QED
    BY <2>1, <2>2, <1>4

\* A step of the Forge snapshot is one query.
LEMMA EnqueueNextForgeStepSound ==
  ASSUME NEW cs \in ClientStates
  PROVE  Sound(EnqueueNextForgeStep(cs))
<1> DEFINE session == TakeNextStep(cs.forge_session)
           query == [type |-> "CustomQuery", message_id |-> session.next_message_id,
                     step |-> session.next_step]
<1>1. session \in Sessions /\ session.next_step \in Nat /\ session.next_message_id \in Int
  BY TakeNextStepType DEF ClientStates
<1> HIDE DEF session
<1>2. query \in ClientBound /\ query.type # "Login"
  BY <1>1 DEF ClientBound
<1>3. [cs EXCEPT !.forge_session = session] \in ClientStates
  BY <1>1 DEF ClientStates
<1>4. Sound(Queued([cs EXCEPT !.forge_session = session], << query >>))
  BY <1>2, <1>3, SoundOfOne
<1>5. QED
  BY <1>4 DEF EnqueueNextForgeStep, session

\* The handler of LoginStart: Forge, modern forwarding or none.
LEMMA LoginStartSound ==
  ASSUME NEW cs \in ClientStates, NEW server \in ServerStates, NEW velocity_id \in Int
  PROVE  Sound(HandleLoginStart(cs, server, velocity_id))
<1> DEFINE query == [type |-> "CustomQuery", message_id |-> velocity_id, step |-> 0]
           started == [SetGameProfile(cs, "LoginStart")
                         EXCEPT !.forge_session = [NoSession EXCEPT !.active = TRUE]]
<1>1. "LoginStart" \in Profiles
  BY DEF Profiles
<1>2. started \in ClientStates
  <2>1. SetGameProfile(cs, "LoginStart") \in ClientStates
    BY <1>1, SetGameProfileType
  <2>2. [NoSession EXCEPT !.active = TRUE] \in Sessions
    BY DEF NoSession, Sessions
  <2>3. QED
    BY <2>1, <2>2 DEF ClientStates
<1>3. Sound(EnqueueNextForgeStep(started))
  BY <1>2, EnqueueNextForgeStepSound
<1>4. Sound(FireLoginSuccess(cs, << >>, server, "LoginStart"))
  BY <1>1, FireLoginSuccessSound
<1>5. Sound(Queued([cs EXCEPT !.message_id = velocity_id], << query >>))
  <2>1. query \in ClientBound /\ query.type # "Login"
    BY DEF ClientBound
  <2>2. [cs EXCEPT !.message_id = velocity_id] \in ClientStates
    BY DEF ClientStates
  <2>3. QED
    BY <2>1, <2>2, SoundOfOne
<1>6. Sound(Queued(Kick(cs), << >>))
  BY KickType, SoundOfNone
<1>7. QED
  BY <1>3, <1>4, <1>5, <1>6 DEF HandleLoginStart

\* The handler of the answers to queries, whichever query they answer.
LEMMA CustomQueryAnswerSound ==
  ASSUME NEW cs \in ClientStates, NEW server \in ServerStates, NEW packet
  PROVE  Sound(HandleCustomQueryAnswer(cs, server, packet))
<1>1. Sound(HandleForgeAnswer(cs, server, packet.message_id))
  <2> DEFINE answered == [cs EXCEPT !.forge_session.pending = @ \ {packet.message_id}]
             done == [answered EXCEPT !.forge_session = NoSession]
  <2>1. answered \in ClientStates
    <3>1. cs.forge_session.pending \ {packet.message_id} \in SUBSET Nat
      BY DEF ClientStates, Sessions
    <3>2. ASSUME NEW pending \in SUBSET Nat
          PROVE  [cs EXCEPT !.forge_session.pending = pending] \in ClientStates
      BY DEF ClientStates, Sessions
    <3>3. QED
      BY <3>1, <3>2
  <2> HIDE DEF answered
  <2>2. done \in ClientStates /\ done.game_profile \in Profiles
    <3>1. NoSession \in Sessions
      BY DEF NoSession, Sessions
    <3>2. QED
      BY <2>1, <3>1 DEF ClientStates
  <2> HIDE DEF done
  <2>3. Sound(EnqueueNextForgeStep(answered))
    BY <2>1, EnqueueNextForgeStepSound
  <2>4. Sound(Failed(done, "Custom"))
    BY <2>2, SoundFailed DEF Errors
  <2>5. Sound(FireLoginSuccess(done, << >>, server, done.game_profile))
    BY <2>2, FireLoginSuccessSound
  <2>6. QED
    BY <2>3, <2>4, <2>5 DEF HandleForgeAnswer, answered, done
<1>2. Sound(HandleVelocityAnswer(cs, server, packet))
  <2>1. Sound(FireLoginSuccess(cs, << >>, server, "Forwarded"))
    BY FireLoginSuccessSound DEF Profiles
  <2>2. Sound(Queued(Kick(cs), << >>))
    BY KickType, SoundOfNone
  <2>3. QED
    BY <2>1, <2>2 DEF HandleVelocityAnswer
<1>3. Sound(Queued(cs, << >>))
  BY SoundOfNone
<1>4. QED
  BY <1>1, <1>2, <1>3 DEF HandleCustomQueryAnswer

-----------------------------------------------------------------------------
(* The handler of Handshake, and the dispatch *)

\* begin_login: versions and forwarding data that are turned away.
LEMMA BeginLoginSound ==
  ASSUME NEW cs \in ClientStates, NEW server \in ServerStates, NEW hostname \in Hostnames
  PROVE  Sound(BeginLogin(cs, server, hostname))
<1>1. Sound(Failed(cs, "Disconnected")) /\ Sound(Failed(Kick(cs), "Disconnected"))
  BY KickType, SoundFailed DEF Errors
<1>2. Sound(Queued(SetGameProfile(cs, "Forwarded"), << >>))
  BY SetGameProfileType, SoundOfNone DEF Profiles
<1>3. Sound(Queued(cs, << >>))
  BY SoundOfNone
<1>4. CheckBungeeCord(server, hostname) \in {"NoForwarding", "Anonymous", "Invalid"}
  BY DEF CheckBungeeCord, ServerStates
<1>5. QED
  BY <1>1, <1>2, <1>3, <1>4 DEF BeginLogin

\* Any protocol number of the wire becomes a version the code has a name for.
LEMMA GetProtocolType ==
  ASSUME NEW pvn \in Int, NEW server \in ServerStates
  PROVE  GetProtocol(pvn, server) \in KnownVersions
BY DEF GetProtocol, KnownVersions, From, TryFrom, Releases, oldest, latest, V1_7_2, V26_1

\* The handler of Handshake, for every intention.
LEMMA HandshakeSound ==
  ASSUME NEW cs \in ClientStates, NEW server \in ServerStates,
         NEW packet \in ServerBound, packet.type = "Handshake"
  PROVE  Sound(HandleHandshake(cs, server, packet))
<1> DEFINE versioned == [cs EXCEPT !.protocol_version = GetProtocol(packet.protocol, server)]
           login == [versioned EXCEPT !.state = "Login", !.forge_kind = packet.forge_kind]
           status == [versioned EXCEPT !.state = "Status"]
           transfer == [versioned EXCEPT !.state = "Transfer"]
<1>1. /\ packet.protocol \in Int /\ packet.forge_kind \in ForgeKinds
      /\ packet.hostname \in Hostnames /\ packet.next_state \in Int
  BY DEF ServerBound
<1>2. versioned \in ClientStates
  BY <1>1, GetProtocolType DEF ClientStates
<1> HIDE DEF versioned
<1>3. login \in ClientStates /\ status \in ClientStates /\ transfer \in ClientStates
  BY <1>1, <1>2 DEF ClientStates, States
<1> HIDE DEF login, status, transfer
<1>4. /\ Sound(Queued(status, << >>)) /\ Sound(Failed(status, "Disconnected"))
      /\ Sound(Failed(transfer, "Disconnected")) /\ Sound(Failed(versioned, "Disconnected"))
  BY <1>2, <1>3, SoundOfNone, SoundFailed DEF Errors
<1>5. Sound(BeginLogin(login, server, packet.hostname))
  BY <1>1, <1>3, BeginLoginSound
<1>6. packet.next_state \in {1, 2, 3} \/ packet.next_state \notin 1 .. 3
  BY <1>1
<1>7. QED
  BY <1>4, <1>5, <1>6 DEF HandleHandshake, versioned, login, status, transfer

\* Whatever a task reads, in whatever state, the outcome is a sound one.
THEOREM HandlersSound ==
  ASSUME NEW cs \in ClientStates, NEW server \in ServerStates,
         NEW packet \in ServerBound, NEW velocity_id \in Int
  PROVE  Sound(DecodeAndHandle(cs, server, packet, velocity_id))
<1>1. packet.type \in {"Handshake", "CustomQueryAnswer", "StatusRequest", "PingRequest",
                       "LoginStart", "LoginAcknowledged", "AcknowledgeConfiguration",
                       "ConfigurationPluginMessage", "PlayCommand", "Unknown"}
  BY DEF ServerBound
<1>2. Sound(Failed(cs, "Custom")) /\ Sound(Queued(cs, << >>))
  BY SoundFailed, SoundOfNone DEF Errors
<1>3. /\ Sound(Queued(cs, << Packet("StatusResponse") >>))
      /\ Sound(Queued(cs, << Packet("PongResponse") >>))
      /\ Sound(Queued(cs, << Packet("PlayData") >>))
  <2>1. ASSUME NEW type \in {"StatusResponse", "PongResponse", "PlayData"}
        PROVE  Packet(type) \in ClientBound /\ Packet(type).type # "Login"
    BY PlainPackets DEF PlainTypes
  <2>2. QED
    BY <2>1, SoundOfOne
<1>4. packet.type = "Handshake" => Sound(HandleHandshake(cs, server, packet))
  BY HandshakeSound
<1>5. /\ Sound(HandleLoginStart(cs, server, velocity_id))
      /\ Sound(HandleCustomQueryAnswer(cs, server, packet))
      /\ Sound(HandleLoginAcknowledged(cs))
  BY LoginStartSound, CustomQueryAnswerSound, LoginAcknowledgedSound
<1>6. Sound(HandleAcknowledgeConfiguration(cs, server))
  <2>1. << >> \in Seq(ClientBound)
    OBVIOUS
  <2>2. QED
    BY <2>1, SendPlayPacketsSound DEF HandleAcknowledgeConfiguration
<1>7. Sound(Handle(cs, server, packet, velocity_id))
  BY <1>1, <1>2, <1>3, <1>4, <1>5, <1>6 DEF Handle
<1>8. QED
  BY <1>2, <1>7 DEF DecodeAndHandle

-----------------------------------------------------------------------------
(* What the clients send *)

\* Framing a sequence of packets gives a sequence of frames.
LEMMA FrameAllType ==
  ASSUME NEW packets \in Seq(ServerBound), NEW compressed \in BOOLEAN
  PROVE  FrameAll(packets, compressed) \in Seq(Frames(ServerBound))
<1>1. \A i \in 1 .. Len(packets) :
        Frame(packets[i], compressed) \in Frames(ServerBound)
  BY DEF Frame, Frames
<1>2. FrameAll(packets, compressed)
        = [i \in 1 .. Len(packets) |-> Frame(packets[i], compressed)]
  BY DEF FrameAll
<1>3. QED
  BY <1>1, <1>2

\* Packets without contents.
LEMMA PlainRequests ==
  ASSUME NEW type \in {"StatusRequest", "PingRequest", "LoginStart", "LoginAcknowledged",
                       "AcknowledgeConfiguration", "ConfigurationPluginMessage",
                       "PlayCommand", "Unknown"}
  PROVE  Packet(type) \in ServerBound
BY DEF Packet, ServerBound

\* A client answers with packets of its own.
LEMMA RepliesType ==
  ASSUME NEW p \in Peers, NEW packet \in ClientBound
  PROVE  Replies(p, packet) \in Seq(ServerBound)
<1>1. /\ << >> \in Seq(ServerBound)
      /\ << Packet("PingRequest") >> \in Seq(ServerBound)
      /\ << Packet("LoginAcknowledged"), Packet("ConfigurationPluginMessage") >>
           \in Seq(ServerBound)
      /\ << Packet("AcknowledgeConfiguration") >> \in Seq(ServerBound)
  BY PlainRequests
<1>2. packet.type = "CustomQuery" =>
        [type |-> "CustomQueryAnswer", message_id |-> packet.message_id,
         key_valid |-> p.key_valid] \in ServerBound
  BY DEF ServerBound, ClientBound, Peers
<1>3. QED
  BY <1>1, <1>2 DEF Replies

\* What a packet makes of a client.
LEMMA ReactType ==
  ASSUME NEW p \in Peers, NEW packet \in ClientBound
  PROVE  React(p, packet) \in Peers
<1>1. CASE packet.type = "CustomQuery"
  BY <1>1 DEF React, Peers, ClientBound
<1>2. CASE packet.type = "LoginSuccess"
  BY <1>2 DEF React, Peers, ClientBound, Phases
<1>3. CASE packet.type \notin {"CustomQuery", "LoginSuccess"}
  BY <1>3 DEF React, Peers, Phases
<1>4. QED
  BY <1>1, <1>2, <1>3

-----------------------------------------------------------------------------
(* The tasks *)

\* A task that has not started, or is dropped.
LEMMA NewTaskType ==
  ASSUME NEW at \in Pcs
  PROVE  NewTask(at) \in Tasks
<1>1. DefaultClientState \in ClientStates
  BY DEF DefaultClientState, ClientStates, NoSession, Sessions, States, Profiles,
         ForgeKinds, KnownVersions
<1>2. << >> \in Seq(ClientBound)
  OBVIOUS
<1>3. QED
  BY <1>1, <1>2 DEF NewTask, Tasks, NoTimers, Timers

\* A task that goes elsewhere, and nothing else.
LEMMA MovedType ==
  ASSUME NEW t \in Tasks, NEW pc \in Pcs
  PROVE  [t EXCEPT !.pc = pc] \in Tasks
BY DEF Tasks

\* Whatever a task reads it handles soundly.
LEMMA ReadSound ==
  ASSUME TypeOK, NEW c \in Clients, NEW frame \in Frames(ServerBound),
         NEW velocity_id \in VelocityIds
  PROVE  Sound(ReadAndHandle(c, frame, velocity_id))
<1>1. /\ config \in ServerStates /\ velocity_id \in Int
      /\ task[c].client_state \in ClientStates /\ frame.packet \in ServerBound
  BY ConfigsAssumption, VelocityIdsAssumption DEF TypeOK, Tasks, Frames
<1>2. Sound(Failed(task[c].client_state, "Custom"))
  BY <1>1, SoundFailed DEF Errors
<1>3. QED
  BY <1>1, <1>2, HandlersSound DEF ReadAndHandle

\* What handling a packet with an outcome makes of a task, field by field.
Processed(c, outcome) ==
  LET entering == /\ outcome.error = "None"
                  /\ ~task[c].was_in_play
                  /\ outcome.client_state.state = "Play"
  IN  /\ task'[c].client_state = outcome.client_state
      /\ task'[c].batch = outcome.batch
      /\ task'[c].was_in_play <=> (task[c].was_in_play \/ entering)
      /\ task'[c].just_entered <=> entering
      /\ task'[c].pc = IF outcome.error # "None" THEN AfterError(outcome.error)
                       ELSE IF entering THEN "Counting" ELSE "Writing"
      /\ task'[c].compression = task[c].compression
      /\ task'[c].timers = task[c].timers
      /\ task'[c].ticks = task[c].ticks

\* A task is replaced by another, and the rest stay.
LEMMA ReplacedTask ==
  ASSUME NEW c \in Clients, task \in [Clients -> Tasks], NEW after \in Tasks,
         task' = [task EXCEPT ![c] = after]
  PROVE  /\ task' \in [Clients -> Tasks] /\ task'[c] = after
         /\ \A d \in Clients \ {c} : task'[d] = task[d]
OBVIOUS

\* The task after a packet, as ProcessPacket writes it.
Handled(c, outcome) ==
  LET entering == /\ outcome.error = "None"
                  /\ ~task[c].was_in_play
                  /\ outcome.client_state.state = "Play"
  IN  task' = [task EXCEPT
                 ![c].client_state = outcome.client_state,
                 ![c].batch = outcome.batch,
                 ![c].was_in_play = @ \/ entering,
                 ![c].just_entered = entering,
                 ![c].pc = IF outcome.error # "None" THEN AfterError(outcome.error)
                           ELSE IF entering THEN "Counting" ELSE "Writing"]

LEMMA ProcessedFields ==
  ASSUME NEW c \in Clients, task \in [Clients -> Tasks],
         NEW outcome \in Outcomes,
         Handled(c, outcome)
  PROVE  /\ task' \in [Clients -> Tasks]
         /\ \A d \in Clients \ {c} : task'[d] = task[d]
         /\ Processed(c, outcome)
<1> DEFINE entering == /\ outcome.error = "None"
                       /\ ~task[c].was_in_play
                       /\ outcome.client_state.state = "Play"
<1>1. /\ task[c] \in Tasks /\ task[c].was_in_play \in BOOLEAN
      /\ outcome.client_state \in ClientStates /\ outcome.batch \in Seq(ClientBound)
      /\ AfterError(outcome.error) \in Pcs /\ {"Counting", "Writing"} \subseteq Pcs
  BY DEF Outcomes, AfterError, Pcs, Tasks
<1> DEFINE Assigned(was, just, pc) ==
             task' = [task EXCEPT ![c].client_state = outcome.client_state,
                             ![c].batch = outcome.batch,
                             ![c].was_in_play = was, ![c].just_entered = just,
                             ![c].pc = pc]
<1>2. PICK was \in BOOLEAN, just \in BOOLEAN, pc \in Pcs :
        /\ just <=> entering
        /\ was <=> (task[c].was_in_play \/ entering)
        /\ pc = IF outcome.error # "None" THEN AfterError(outcome.error)
                ELSE IF entering THEN "Counting" ELSE "Writing"
        /\ Assigned(was, just, pc)
  <2>1. CASE entering
    <3>1. Assigned(TRUE, TRUE, "Counting")
      BY <2>1 DEF Handled
    <3>2. QED
      BY <1>1, <2>1, <3>1
  <2>2. CASE ~entering
    <3> DEFINE pc == IF outcome.error # "None" THEN AfterError(outcome.error) ELSE "Writing"
    <3>1. Assigned(task[c].was_in_play, FALSE, pc)
      BY <1>1, <2>2 DEF Handled
    <3>2. pc \in Pcs
      BY <1>1
    <3>3. QED
      BY <1>1, <2>2, <3>1, <3>2
  <2>3. QED
    BY <2>1, <2>2
<1> DEFINE after == [task[c] EXCEPT !.client_state = outcome.client_state,
                                    !.batch = outcome.batch, !.was_in_play = was,
                                    !.just_entered = just, !.pc = pc]
<1>3. task' = [task EXCEPT ![c] = after]
  BY <1>2
<1>4. /\ after \in Tasks
      /\ after.client_state = outcome.client_state /\ after.batch = outcome.batch
      /\ after.was_in_play = was /\ after.just_entered = just /\ after.pc = pc
      /\ after.compression = task[c].compression
      /\ after.timers = task[c].timers /\ after.ticks = task[c].ticks
  <2> HIDE DEF entering
  <2>1. QED
    BY <1>1 DEF Tasks
<1> HIDE DEF after
<1>5. /\ task' \in [Clients -> Tasks] /\ task'[c] = after
      /\ \A d \in Clients \ {c} : task'[d] = task[d]
  BY <1>3, <1>4, ReplacedTask, Zenon
<1> HIDE DEF Assigned
<1>6. /\ task'[c].just_entered <=> entering
      /\ task'[c].was_in_play <=> (task[c].was_in_play \/ entering)
      /\ task'[c].pc = IF outcome.error # "None" THEN AfterError(outcome.error)
                       ELSE IF entering THEN "Counting" ELSE "Writing"
  BY <1>2, <1>4, <1>5
<1>7. QED
  BY <1>4, <1>5, <1>6 DEF Processed

\* A packet is handled soundly, and nothing else of the system is touched.
LEMMA ProcessPacketEffect ==
  ASSUME TypeOK, NEW c \in Clients, ProcessPacket(c)
  PROVE  /\ Head(to_server[c]) \in Frames(ServerBound)
         /\ task' \in [Clients -> Tasks]
         /\ \A d \in Clients \ {c} : task'[d] = task[d]
         /\ \E velocity_id \in VelocityIds :
              LET outcome == ReadAndHandle(c, Head(to_server[c]), velocity_id)
              IN  Sound(outcome) /\ Processed(c, outcome)
<1>1. Head(to_server[c]) \in Frames(ServerBound)
  <2>1. to_server[c] \in Seq(Frames(ServerBound)) /\ to_server[c] # << >>
    BY DEF TypeOK, ProcessPacket
  <2>2. QED
    BY <2>1
<1>2. PICK velocity_id \in VelocityIds :
        Handled(c, ReadAndHandle(c, Head(to_server[c]), velocity_id))
  BY DEF ProcessPacket, Handled
<1> DEFINE outcome == ReadAndHandle(c, Head(to_server[c]), velocity_id)
<1>3. Sound(outcome) /\ outcome \in Outcomes
  BY <1>1, ReadSound DEF Sound
<1>4. /\ task' \in [Clients -> Tasks]
      /\ \A d \in Clients \ {c} : task'[d] = task[d]
      /\ Processed(c, outcome)
  <2>1. task \in [Clients -> Tasks]
    BY DEF TypeOK
  <2> HIDE DEF outcome
  <2>2. QED
    BY <1>2, <1>3, <2>1, ProcessedFields DEF outcome
<1>5. QED
  BY <1>1, <1>3, <1>4

\* What the end of a packet makes of a task, field by field.
Finished(c) ==
  LET cs == task[c].client_state
      starts == cs.keep_alive_enabled = "ShouldEnable"
  IN  /\ task'[c].pc = "Reading"
      /\ task'[c].client_state
           = [cs EXCEPT !.keep_alive_enabled = IF starts THEN "Enabled" ELSE @]
      /\ task'[c].timers.keep_alive <=> task[c].timers.keep_alive \/ starts
      /\ task'[c].timers.action_bar
           <=> \/ task[c].timers.action_bar
               \/ task[c].just_entered /\ EnableActionBarIfNeeded(cs)
      /\ task'[c].batch = task[c].batch
      /\ task'[c].compression = task[c].compression
      /\ task'[c].was_in_play = task[c].was_in_play
      /\ task'[c].just_entered = task[c].just_entered
      /\ task'[c].ticks = task[c].ticks

\* The end of a packet keeps the types, and touches nothing else.
LEMMA FinishPacketEffect ==
  ASSUME TypeOK, NEW c \in Clients, FinishPacket(c)
  PROVE  /\ task' \in [Clients -> Tasks]
         /\ \A d \in Clients \ {c} : task'[d] = task[d]
         /\ Finished(c)
<1> DEFINE cs == task[c].client_state
           starts == cs.keep_alive_enabled = "ShouldEnable"
           alive_after == task[c].timers.keep_alive \/ starts
           bar_after == \/ task[c].timers.action_bar
                        \/ task[c].just_entered /\ EnableActionBarIfNeeded(cs)
           kept == IF starts THEN "Enabled" ELSE cs.keep_alive_enabled
<1>1. /\ task \in [Clients -> Tasks] /\ task[c] \in Tasks
      /\ cs \in ClientStates /\ task[c].timers \in Timers
      /\ kept \in {"Disabled", "ShouldEnable", "Enabled"} /\ "Reading" \in Pcs
  BY DEF TypeOK, Tasks, Pcs, ClientStates
<1>2. task' = [task EXCEPT ![c].pc = "Reading",
                           ![c].client_state.keep_alive_enabled = kept,
                           ![c].timers.keep_alive = alive_after,
                           ![c].timers.action_bar = bar_after]
  BY DEF FinishPacket
<1>3. alive_after \in BOOLEAN /\ bar_after \in BOOLEAN
  BY <1>1, ConfigsAssumption DEF Timers, Tasks, TypeOK, EnableActionBarIfNeeded, ServerStates
<1> HIDE DEF alive_after, bar_after, kept
<1> DEFINE state_after == [cs EXCEPT !.keep_alive_enabled = kept]
           timers_after == [task[c].timers EXCEPT !.keep_alive = alive_after,
                                                  !.action_bar = bar_after]
           after == [task[c] EXCEPT !.pc = "Reading", !.client_state = state_after,
                                    !.timers = timers_after]
<1>4. task' = [task EXCEPT ![c] = after]
  <2> DEFINE written == [task[c] EXCEPT !.pc = "Reading",
                                        !.client_state.keep_alive_enabled = kept,
                                        !.timers.keep_alive = alive_after,
                                        !.timers.action_bar = bar_after]
  <2>1. task' = [task EXCEPT ![c] = written]
    BY <1>2
  <2>2. written = after
    BY <1>1 DEF Tasks
  <2>3. QED
    BY <2>1, <2>2
<1>5. /\ state_after \in ClientStates
      /\ timers_after \in Timers
      /\ timers_after.keep_alive = alive_after /\ timers_after.action_bar = bar_after
  BY <1>1, <1>3 DEF ClientStates, Timers
<1> HIDE DEF state_after, timers_after
<1>6. /\ after \in Tasks /\ after.pc = "Reading" /\ after.client_state = state_after
      /\ after.timers = timers_after /\ after.batch = task[c].batch
      /\ after.compression = task[c].compression
      /\ after.was_in_play = task[c].was_in_play
      /\ after.just_entered = task[c].just_entered /\ after.ticks = task[c].ticks
  BY <1>1, <1>5 DEF Tasks
<1> HIDE DEF after
<1>7. /\ task' \in [Clients -> Tasks] /\ task'[c] = after
      /\ \A d \in Clients \ {c} : task'[d] = task[d]
  BY <1>1, <1>4, <1>6, ReplacedTask
<1>8. /\ task'[c].timers.keep_alive <=> alive_after
      /\ task'[c].timers.action_bar <=> bar_after
  BY <1>3, <1>5, <1>6, <1>7
<1>9. QED
  BY <1>6, <1>7, <1>8 DEF Finished, state_after, kept, alive_after, bar_after

\* A packet that is sent is a frame of the client's queue, or is lost.
LEMMA SendType ==
  ASSUME TypeOK, NEW c \in Clients, NEW packet \in ClientBound, Send(c, packet)
  PROVE  to_client' \in [Clients -> Seq(Frames(ClientBound))]
<1>1. Frame(packet, task[c].compression) \in Frames(ClientBound)
  BY DEF Frame, Frames, TypeOK, Tasks
<1>2. QED
  BY <1>1 DEF Send, TypeOK

\* One step of a task keeps the types.
LEMMA ServerStepType ==
  ASSUME TypeOK, NEW c \in Clients, ServerStep(c)
  PROVE  TypeOK'
<1> USE DEF TypeOK
<1>1. /\ task[c] \in Tasks /\ task[c].batch \in Seq(ClientBound)
      /\ task[c].client_state \in ClientStates
      /\ config \in ServerStates
  BY ConfigsAssumption DEF Tasks
<1>2. CASE Accept(c)
  BY <1>2, NewTaskType DEF Accept, Pcs, channels
<1>3. CASE ProcessPacket(c)
  <2>1. task' \in [Clients -> Tasks]
    BY <1>3, ProcessPacketEffect
  <2>2. Tail(to_server[c]) \in Seq(Frames(ServerBound))
    BY <1>3 DEF ProcessPacket
  <2>3. to_server' \in [Clients -> Seq(Frames(ServerBound))]
    BY <1>3, <2>2 DEF ProcessPacket
  <2>4. QED
    BY <1>3, <2>1, <2>3 DEF ProcessPacket
<1>4. CASE Increment(c)
  <2>1. [task[c] EXCEPT !.pc = "Writing"] \in Tasks
    BY <1>1, MovedType DEF Pcs
  <2>2. QED
    BY <1>4, <2>1 DEF Increment, channels
<1>5. CASE WritePacket(c)
  <2>1. Head(task[c].batch) \in ClientBound /\ Tail(task[c].batch) \in Seq(ClientBound)
    BY <1>1, <1>5 DEF WritePacket
  <2>2. to_client' \in [Clients -> Seq(Frames(ClientBound))]
    BY <1>5, <2>1, SendType DEF WritePacket
  <2>3. config.compression \in BOOLEAN
    BY <1>1 DEF ServerStates
  <2>4. task' \in [Clients -> Tasks]
    BY <1>1, <1>5, <2>1, <2>3 DEF WritePacket, Tasks
  <2>5. QED
    BY <1>5, <2>2, <2>4 DEF WritePacket
<1>6. CASE WriteFails(c)
  <2>1. ASSUME NEW pc \in Pcs
        PROVE  [task[c] EXCEPT !.batch = << >>, !.pc = pc] \in Tasks
    <3>1. << >> \in Seq(ClientBound)
      OBVIOUS
    <3>2. QED
      BY <1>1, <3>1 DEF Tasks
  <2>2. \A error \in Errors : AfterError(error) \in Pcs
    BY DEF AfterError, Pcs
  <2>3. task' \in [Clients -> Tasks]
    <3>1. WriteErrors(c) \subseteq Errors
      BY DEF WriteErrors, Errors
    <3>2. PICK error \in Errors :
            task' = [task EXCEPT ![c].batch = << >>, ![c].pc = AfterError(error)]
      BY <1>6, <3>1 DEF WriteFails
    <3>3. [task[c] EXCEPT !.batch = << >>, !.pc = AfterError(error)] \in Tasks
      BY <2>1, <2>2
    <3>4. QED
      BY <3>2, <3>3
  <2>4. QED
    BY <1>6, <2>3 DEF WriteFails, channels
<1>7. CASE FinishPacket(c)
  <2>1. task' \in [Clients -> Tasks]
    BY <1>7, FinishPacketEffect
  <2>2. QED
    BY <1>7, <2>1 DEF FinishPacket, channels
<1>8. CASE FindKick(c)
  <2>1. [task[c] EXCEPT !.pc = "Kicking"] \in Tasks
    BY <1>1, MovedType DEF Pcs
  <2>2. QED
    BY <1>8, <2>1 DEF FindKick, channels
<1>9. CASE KickClient(c)
  <2>1. task[c].client_state.state \in {"Login", "Configuration", "Play"} =>
          DisconnectPacket(task[c].client_state.state) \in ClientBound
    BY PlainPackets DEF DisconnectPacket, PlainTypes
  <2>2. to_client' \in [Clients -> Seq(Frames(ClientBound))]
    BY <1>9, <2>1, SendType DEF KickClient
  <2>3. task' \in [Clients -> Tasks]
    BY <1>1, <1>9 DEF KickClient, Tasks, Pcs
  <2>4. QED
    BY <1>9, <2>2, <2>3 DEF KickClient
<1>10. ASSUME NEW type \in {"KeepAlive", "ActionBar"}, Tick(c, type)
       PROVE  TypeOK'
  <2>1. Packet(type) \in ClientBound
    BY PlainPackets DEF PlainTypes
  <2>2. to_client' \in [Clients -> Seq(Frames(ClientBound))]
    BY <1>10, <2>1, SendType DEF Tick
  <2>3. task' \in [Clients -> Tasks]
    <3>1. PICK error \in Errors :
            task' = [task EXCEPT ![c].ticks = @ + 1,
                                 ![c].pc = IF task[c].client_state.state = "Play"
                                           THEN AfterError(error) ELSE @]
      BY <1>10 DEF Tick, Errors
    <3>2. AfterError(error) \in Pcs /\ task[c].ticks + 1 \in Nat /\ task[c].pc \in Pcs
      BY <1>1 DEF AfterError, Pcs, Tasks
    <3>3. ASSUME NEW pc \in Pcs, NEW ticks \in Nat
          PROVE  [task[c] EXCEPT !.ticks = ticks, !.pc = pc] \in Tasks
      BY <1>1 DEF Tasks
    <3>4. QED
      BY <3>1, <3>2, <3>3
  <2>4. QED
    BY <1>10, <2>2, <2>3 DEF Tick
<1>11. CASE ReadEnd(c)
  <2>1. [task[c] EXCEPT !.pc = "Closing"] \in Tasks
    BY <1>1, MovedType DEF Pcs
  <2>2. QED
    BY <1>11, <2>1 DEF ReadEnd, channels
<1>12. CASE Shutdown(c)
  <2>1. NewTask("Closed") \in Tasks
    BY NewTaskType DEF Pcs
  <2>2. /\ [task[c] EXCEPT !.pc = "Leaving"] \in Tasks
        /\ [task[c] EXCEPT !.pc = "Leaving", !.timers = NoTimers] \in Tasks
    BY <1>1 DEF Tasks, Pcs, NoTimers, Timers
  <2>3. task' \in [Clients -> Tasks]
    BY <1>12, <2>1, <2>2 DEF Shutdown
  <2>4. QED
    BY <1>12, <2>3 DEF Shutdown, channels
<1>13. CASE Decrement(c)
  BY <1>13, NewTaskType DEF Decrement, Pcs, channels
<1>14. QED
  BY <1>2, <1>3, <1>4, <1>5, <1>6, <1>7, <1>8, <1>9, <1>10, <1>11, <1>12, <1>13
  DEF ServerStep, KeepAliveTick, ActionBarTick

\* One step of a client keeps the types.
LEMMA ClientStepType ==
  ASSUME TypeOK, NEW c \in Clients, ClientStep(c)
  PROVE  TypeOK'
<1> USE DEF TypeOK
<1>1. peer[c] \in Peers /\ NoPeer \in Peers
  BY DEF NoPeer, Peers, Phases, ForgeKinds, Profiles, AnyVersion
<1>2. CASE Connect(c)
  <2>1. PICK greeting \in Greetings :
          /\ peer' = [peer EXCEPT ![c] =
                        [NoPeer EXCEPT !.phase = Opening(greeting.handshake).phase,
                                       !.protocol = greeting.handshake.protocol,
                                       !.forge_kind = greeting.handshake.forge_kind,
                                       !.key_valid = greeting.key_valid]]
          /\ to_server' = [to_server EXCEPT ![c] =
                             FrameAll(<< greeting.handshake,
                                         Opening(greeting.handshake).packet >>, FALSE)]
    BY <1>2 DEF Connect
  <2>2. /\ greeting.handshake \in ServerBound /\ greeting.handshake.type = "Handshake"
        /\ greeting.key_valid \in BOOLEAN
    BY GreetingsAssumption
  <2>3. /\ greeting.handshake.protocol \in Int
        /\ greeting.handshake.forge_kind \in ForgeKinds
    BY <2>2 DEF ServerBound
  <2>4. /\ Opening(greeting.handshake).phase \in Phases
        /\ Opening(greeting.handshake).packet \in ServerBound
    BY PlainRequests DEF Opening, Phases
  <2>5. peer' \in [Clients -> Peers]
    BY <1>1, <2>1, <2>2, <2>3, <2>4 DEF Peers
  <2>6. FrameAll(<< greeting.handshake, Opening(greeting.handshake).packet >>, FALSE)
          \in Seq(Frames(ServerBound))
    <3>1. << greeting.handshake, Opening(greeting.handshake).packet >> \in Seq(ServerBound)
      BY <2>2, <2>4
    <3>2. QED
      BY <3>1, FrameAllType
  <2>7. to_server' \in [Clients -> Seq(Frames(ServerBound))]
    BY <2>1, <2>6
  <2>8. task' \in [Clients -> Tasks]
    <3>1. [task[c] EXCEPT !.pc = "Pending"] \in Tasks
      BY MovedType DEF Pcs
    <3>2. QED
      BY <1>2, <3>1 DEF Connect
  <2>9. QED
    BY <1>2, <2>5, <2>7, <2>8 DEF Connect
<1>3. CASE Receive(c)
  <2>1. /\ Head(to_client[c]) \in Frames(ClientBound)
        /\ Tail(to_client[c]) \in Seq(Frames(ClientBound))
    BY <1>3 DEF Receive
  <2>2. /\ Head(to_client[c]).packet \in ClientBound
        /\ peer[c].compressed \in BOOLEAN
    BY <1>1, <2>1 DEF Frames, Peers
  <2>3. /\ React(peer[c], Head(to_client[c]).packet) \in Peers
        /\ [peer[c] EXCEPT !.phase = "Error"] \in Peers
    BY <1>1, <2>2, ReactType DEF Peers, Phases
  <2>4. FrameAll(Replies(peer[c], Head(to_client[c]).packet), peer[c].compressed)
          \in Seq(Frames(ServerBound))
    BY <1>1, <2>2, RepliesType, FrameAllType
  <2>5. peer' \in [Clients -> Peers]
    BY <1>3, <2>3 DEF Receive
  <2>6. to_server' \in [Clients -> Seq(Frames(ServerBound))]
    BY <1>3, <2>4 DEF Receive
  <2>7. to_client' \in [Clients -> Seq(Frames(ClientBound))]
    BY <1>3, <2>1 DEF Receive
  <2>8. QED
    BY <1>3, <2>5, <2>6, <2>7 DEF Receive
<1>4. CASE SendInput(c)
  <2>1. \A type \in {"Unknown", "PlayCommand"} :
          Frame(Packet(type), peer[c].compressed) \in Frames(ServerBound)
    BY <1>1, PlainRequests DEF Frame, Frames, Peers
  <2>2. to_server' \in [Clients -> Seq(Frames(ServerBound))]
    BY <1>4, <2>1 DEF SendInput
  <2>3. peer' \in [Clients -> Peers]
    <3>1. ASSUME NEW inputs \in Nat
          PROVE  [peer[c] EXCEPT !.inputs = inputs] \in Peers
      BY <1>1 DEF Peers
    <3>2. peer[c].inputs + 1 \in Nat
      BY <1>1 DEF Peers
    <3>3. QED
      BY <1>4, <3>1, <3>2 DEF SendInput
  <2>4. QED
    BY <1>4, <2>2, <2>3 DEF SendInput
<1>5. CASE Leave(c)
  <2>1. << >> \in Seq(Frames(ServerBound)) /\ << >> \in Seq(Frames(ClientBound))
    OBVIOUS
  <2>2. QED
    BY <1>1, <1>5, <2>1 DEF Leave
<1>6. QED
  BY <1>2, <1>3, <1>4, <1>5 DEF ClientStep

LEMMA InitType == Init => TypeOK
<1>1. NewTask("Closed") \in Tasks /\ NoPeer \in Peers
  BY NewTaskType DEF Pcs, NoPeer, Peers, Phases, ForgeKinds, Profiles, AnyVersion
<1>2. QED
  BY <1>1 DEF Init, TypeOK

LEMMA StepType == TypeOK /\ [Next]_vars => TypeOK'
<1>1. TypeOK /\ Next => TypeOK'
  BY ServerStepType, ClientStepType DEF Next
<1>2. TypeOK /\ UNCHANGED vars => TypeOK'
  BY DEF TypeOK, vars, channels
<1>3. QED
  BY <1>1, <1>2

\* Every variable keeps its type.
THEOREM Typed == Spec => []TypeOK
BY InitType, StepType, PTL DEF Spec

-----------------------------------------------------------------------------
(* The roster *)

\* A task that has not begun was never in Play; one that counts or gives its
\* count back was.
Places ==
  \A c \in Clients :
    /\ task[c].pc \in {"Closed", "Pending"} => ~task[c].was_in_play
    /\ task[c].pc \in {"Counting", "Leaving"} => task[c].was_in_play

\* What a step does to a task, as far as counting goes: it counts it, gives its
\* count back, or leaves it where it was.
Moves(c) ==
  /\ \A d \in Clients \ {c} : task'[d] = task[d]
  /\ task'[c].pc \in {"Closed", "Pending"} => ~task'[c].was_in_play
  /\ task'[c].pc \in {"Counting", "Leaving"} => task'[c].was_in_play
  /\ \/ online' = online + 1 /\ ~Counted(c) /\ Counted(c)'
     \/ online' = online - 1 /\ Counted(c) /\ ~Counted(c)'
     \/ online' = online /\ (Counted(c)' <=> Counted(c))

\* Every step of a task and of a client is one of these.
LEMMA ServerStepMoves ==
  ASSUME TypeOK, Places, NEW c \in Clients, ServerStep(c)
  PROVE  Moves(c)
<1> USE DEF Moves, Places, Counted
<1>1. task \in [Clients -> Tasks] /\ task[c].was_in_play \in BOOLEAN /\ task[c].pc \in Pcs
  BY DEF TypeOK, Tasks
<1>2. CASE Accept(c)
  BY <1>1, <1>2 DEF Accept, NewTask
<1>3. CASE ProcessPacket(c)
  <2>1. PICK velocity_id \in VelocityIds :
          Processed(c, ReadAndHandle(c, Head(to_server[c]), velocity_id))
    BY <1>3, ProcessPacketEffect
  <2>2. \A d \in Clients \ {c} : task'[d] = task[d]
    BY <1>3, ProcessPacketEffect
  <2>3. task[c].pc = "Reading" /\ online' = online
    BY <1>3 DEF ProcessPacket
  <2>4. QED
    BY <1>1, <2>1, <2>2, <2>3 DEF AfterError, Processed
<1>4. CASE Increment(c)
  BY <1>1, <1>4 DEF Increment, Tasks
<1>5. CASE WritePacket(c)
  BY <1>1, <1>5 DEF WritePacket, Tasks
<1>6. CASE WriteFails(c)
  BY <1>1, <1>6 DEF WriteFails, Tasks, AfterError
<1>7. CASE FinishPacket(c)
  <2>1. /\ \A d \in Clients \ {c} : task'[d] = task[d]
        /\ task'[c].pc = "Reading" /\ task'[c].was_in_play = task[c].was_in_play
    BY <1>7, FinishPacketEffect DEF Finished
  <2>2. task[c].pc = "Writing" /\ online' = online
    BY <1>7 DEF FinishPacket
  <2>3. QED
    BY <1>1, <2>1, <2>2
<1>8. CASE FindKick(c) \/ KickClient(c) \/ ReadEnd(c)
  <2>1. /\ \A d \in Clients \ {c} : task'[d] = task[d]
        /\ task'[c].was_in_play = task[c].was_in_play
        /\ task[c].pc \in {"Writing", "Kicking", "Reading"}
        /\ task'[c].pc \in {"Kicking", "Closing"} /\ online' = online
    <3>1. CASE FindKick(c)
      BY <1>1, <3>1 DEF FindKick, Tasks
    <3>2. CASE KickClient(c)
      BY <1>1, <3>2 DEF KickClient, Tasks
    <3>3. CASE ReadEnd(c)
      BY <1>1, <3>3 DEF ReadEnd, Tasks
    <3>4. QED
      BY <1>8, <3>1, <3>2, <3>3
  <2>2. QED
    BY <1>1, <2>1
<1>9. ASSUME NEW type, Tick(c, type)
      PROVE  Moves(c)
  BY <1>1, <1>9 DEF Tick, Tasks, AfterError
<1>10. CASE Shutdown(c)
  BY <1>1, <1>10 DEF Shutdown, Tasks, NewTask
<1>11. CASE Decrement(c)
  BY <1>1, <1>11 DEF Decrement, NewTask
<1>12. QED
  BY <1>2, <1>3, <1>4, <1>5, <1>6, <1>7, <1>8, <1>9, <1>10, <1>11
  DEF ServerStep, KeepAliveTick, ActionBarTick

\* A client moves the tasks only by connecting to one that is closed.
LEMMA ClientStepMoves ==
  ASSUME TypeOK, Places, NEW c \in Clients, ClientStep(c)
  PROVE  Moves(c)
<1> USE DEF Moves, Places, Counted
<1>1. task \in [Clients -> Tasks]
  BY DEF TypeOK
<1>2. CASE Connect(c)
  BY <1>1, <1>2 DEF Connect, Tasks
<1>3. CASE Receive(c) \/ SendInput(c) \/ Leave(c)
  BY <1>3 DEF Receive, SendInput, Leave
<1>4. QED
  BY <1>2, <1>3 DEF ClientStep

\* Such a step is one of the roster's, or leaves the roster as it was.
LEMMA MovesRoster ==
  ASSUME Places, NEW c \in Clients, Moves(c)
  PROVE  Places' /\ [Roster!RosterNext]_Roster!roster_vars
<1>1. Places'
  BY DEF Places, Moves
<1>2. \A d \in Clients \ {c} : Counted(d)' <=> Counted(d)
  BY DEF Moves, Counted
<1>3. CASE online' = online + 1 /\ ~Counted(c) /\ Counted(c)'
  <2>1. c \notin Players /\ Players' = Players \cup {c}
    BY <1>2, <1>3 DEF Players
  <2>2. QED
    BY <1>1, <1>3, <2>1 DEF Roster!RosterNext, Roster!Join
<1>4. CASE online' = online - 1 /\ Counted(c) /\ ~Counted(c)'
  <2>1. c \in Players /\ Players' = Players \ {c}
    BY <1>2, <1>4 DEF Players
  <2>2. QED
    BY <1>1, <1>4, <2>1 DEF Roster!RosterNext, Roster!Quit
<1>5. CASE online' = online /\ (Counted(c)' <=> Counted(c))
  <2>1. Players' = Players
    BY <1>2, <1>5 DEF Players
  <2>2. QED
    BY <1>1, <1>5, <2>1 DEF Roster!roster_vars
<1>6. QED
  BY <1>3, <1>4, <1>5 DEF Moves

\* The server implements the roster: a player joins at the increment of its
\* task and quits at the decrement, and no other step touches the count
\* (network.rs, 165-167 and 260-261).
THEOREM RosterImplemented == Spec => ImplementsRoster
<1> DEFINE Inv == TypeOK /\ Places
<1>1. Init => Inv /\ Roster!RosterInit
  BY InitType DEF Init, NewTask, Places, Roster!RosterInit, Players, Counted
<1>2. Inv /\ [Next]_vars => Inv' /\ [Roster!RosterNext]_Roster!roster_vars
  <2>1. ASSUME Inv, Next
        PROVE  Places' /\ [Roster!RosterNext]_Roster!roster_vars
    BY <2>1, ServerStepMoves, ClientStepMoves, MovesRoster DEF Next
  <2>2. ASSUME Inv, UNCHANGED vars
        PROVE  Places' /\ [Roster!RosterNext]_Roster!roster_vars
    BY <2>2 DEF vars, Places, Players, Counted, Roster!roster_vars
  <2>3. QED
    BY <2>1, <2>2, StepType
<1>3. QED
  BY <1>1, <1>2, PTL DEF Spec, ImplementsRoster, Roster!RosterSpec

RosterInv == IsFiniteSet(Players) /\ OnlineCountExact

\* A player that joins or quits moves the count by the one it moves the set by.
LEMMA RosterStep ==
  ASSUME RosterInv, Roster!RosterNext
  PROVE  RosterInv'
<1>1. PICK c \in Clients : Roster!Join(c) \/ Roster!Quit(c)
  BY DEF Roster!RosterNext
<1>2. CASE Roster!Join(c)
  BY <1>2, FS_AddElement, FS_CardinalityType DEF Roster!Join, RosterInv, OnlineCountExact
<1>3. CASE Roster!Quit(c)
  BY <1>3, FS_RemoveElement, FS_CardinalityType DEF Roster!Quit, RosterInv, OnlineCountExact
<1>4. QED
  BY <1>1, <1>2, <1>3

\* The roster counts its players exactly, however many come and go.
THEOREM RosterCount == Roster!RosterSpec => []Roster!RosterExact
<1>1. Roster!RosterInit => RosterInv
  BY FS_EmptySet DEF Roster!RosterInit, RosterInv, OnlineCountExact
<1>2. RosterInv /\ [Roster!RosterNext]_Roster!roster_vars => RosterInv'
  <2>1. CASE Roster!RosterNext
    BY <2>1, RosterStep
  <2>2. CASE UNCHANGED Roster!roster_vars
    BY <2>2 DEF Roster!roster_vars, RosterInv, OnlineCountExact
  <2>3. QED
    BY <2>1, <2>2
<1>3. RosterInv => Roster!RosterExact
  BY DEF RosterInv, OnlineCountExact, Roster!RosterExact, Cardinality, Roster!Cardinality
<1>4. QED
  BY <1>1, <1>2, <1>3, PTL DEF Roster!RosterSpec

\* The number of online players of the status page is exact, whatever becomes
\* of the connections: this is the theorem of the roster, inherited.
THEOREM CountExact == Spec => []OnlineCountExact
<1>1. Roster!RosterExact => OnlineCountExact
  BY DEF OnlineCountExact, Roster!RosterExact, Cardinality, Roster!Cardinality
<1>2. QED
  BY <1>1, RosterImplemented, RosterCount, PTL DEF ImplementsRoster

-----------------------------------------------------------------------------
(* Nobody sees the world before it is counted *)

\* The client was let into the world, or the packet that does so is under way.
LetsIn(c) ==
  \/ peer[c].joined
  \/ \E i \in DOMAIN to_client[c] : to_client[c][i].packet.type = "Login"

\* Only a counted task, or one that is over, let its client in; what it still
\* has to write lets it in only after the entry into Play was noticed.
Admission(c) ==
  /\ Gone(c) => ~LetsIn(c)
  /\ LetsIn(c) => task[c].pc = "Closed" \/ Counted(c)
  /\ task[c].pc = "Writing" /\ Opens(task[c].batch) => task[c].was_in_play

IInv == TypeOK /\ Places /\ \A c \in Clients : Admission(c)

\* A packet put on the wire lets its client in only if it is Login.
LEMMA SendLetsIn ==
  ASSUME TypeOK, NEW c \in Clients, NEW packet \in ClientBound, Send(c, packet),
         UNCHANGED peer, LetsIn(c)'
  PROVE  LetsIn(c) \/ (~Gone(c) /\ packet.type = "Login")
<1>1. CASE Gone(c)
  <2>1. to_client'[c] = to_client[c]
    BY <1>1 DEF Send, TypeOK
  <2>2. QED
    BY <2>1 DEF LetsIn
<1>2. CASE ~Gone(c)
  <2> DEFINE queue == to_client[c]
             frame == Frame(packet, task[c].compression)
  <2>1. queue \in Seq(Frames(ClientBound)) /\ frame \in Frames(ClientBound)
    BY DEF TypeOK, Tasks, Frame, Frames
  <2>2. to_client'[c] = Append(queue, frame)
    BY <1>2 DEF Send, TypeOK
  <2>3. frame.packet = packet
    BY DEF Frame
  <2> HIDE DEF frame
  <2>4. ASSUME NEW i \in DOMAIN to_client'[c]
        PROVE  (i \in DOMAIN queue /\ to_client'[c][i] = queue[i]) \/ to_client'[c][i] = frame
    BY <2>1, <2>2
  <2>5. CASE peer'[c].joined
    BY <2>5 DEF LetsIn
  <2>6. CASE \E i \in DOMAIN to_client'[c] : to_client'[c][i].packet.type = "Login"
    BY <1>2, <2>3, <2>4, <2>6 DEF LetsIn
  <2>7. QED
    BY <2>5, <2>6 DEF LetsIn
<1>3. QED
  BY <1>1, <1>2

\* The rest of a batch, or of a queue, opens nothing that the whole did not.
LEMMA TailOpens ==
  ASSUME NEW batch \in Seq(ClientBound), batch # << >>, Opens(Tail(batch))
  PROVE  Opens(batch)
<1>1. PICK i \in DOMAIN Tail(batch) : Tail(batch)[i].type = "Login"
  BY DEF Opens
<1>2. i + 1 \in DOMAIN batch /\ batch[i + 1] = Tail(batch)[i]
  OBVIOUS
<1>3. QED
  BY <1>1, <1>2 DEF Opens

LEMMA HeadOpens ==
  ASSUME NEW batch \in Seq(ClientBound), batch # << >>, Head(batch).type = "Login"
  PROVE  Opens(batch)
<1>1. 1 \in DOMAIN batch /\ batch[1] = Head(batch)
  OBVIOUS
<1>2. QED
  BY <1>1 DEF Opens

\* A step of a task keeps the promise for its own client.
LEMMA ServerStepAdmission ==
  ASSUME IInv, NEW c \in Clients, ServerStep(c)
  PROVE  Admission(c)'
<1>1. /\ TypeOK /\ Places /\ Admission(c)
      /\ task \in [Clients -> Tasks] /\ task[c] \in Tasks
      /\ task[c].batch \in Seq(ClientBound) /\ task[c].was_in_play \in BOOLEAN
  BY DEF IInv, TypeOK, Tasks
<1>2. Moves(c)
  BY <1>1, ServerStepMoves
<1>3. Gone(c)' <=> Gone(c)
  BY DEF ServerStep, Gone, Accept, ProcessPacket, Increment, WritePacket, WriteFails,
         FinishPacket, FindKick, KickClient, KeepAliveTick, ActionBarTick, Tick,
         ReadEnd, Shutdown, Decrement
<1>4. ASSUME NEW packet \in ClientBound, packet.type # "Login", Send(c, packet),
             UNCHANGED peer
      PROVE  LetsIn(c)' => LetsIn(c)
  BY <1>1, <1>4, SendLetsIn
<1>5. CASE Accept(c)
  BY <1>1, <1>3, <1>5 DEF Accept, NewTask, Admission, Places, LetsIn, channels, Counted
<1>6. CASE ProcessPacket(c)
  <2>1. LetsIn(c)' <=> LetsIn(c)
    BY <1>6 DEF ProcessPacket, LetsIn
  <2>2. task[c].pc = "Reading" /\ (Counted(c) => Counted(c)')
    <3>1. task[c].pc = "Reading" /\ online' = online /\ online \in Int
      BY <1>1, <1>6 DEF ProcessPacket, TypeOK
    <3>2. QED
      BY <1>2, <3>1 DEF Moves
  <2>3. task'[c].pc = "Writing" /\ Opens(task'[c].batch) => task'[c].was_in_play
    <3>1. PICK velocity_id \in VelocityIds :
            LET outcome == ReadAndHandle(c, Head(to_server[c]), velocity_id)
            IN  Sound(outcome) /\ Processed(c, outcome)
      BY <1>1, <1>6, ProcessPacketEffect
    <3>2. QED
      BY <3>1 DEF Sound, Processed
  <2>4. QED
    BY <1>1, <1>3, <2>1, <2>2, <2>3 DEF Admission
<1>7. CASE Increment(c)
  BY <1>1, <1>3, <1>7 DEF Increment, Tasks, Admission, Places, LetsIn, channels, Counted
<1>8. CASE WritePacket(c)
  <2>1. Head(task[c].batch) \in ClientBound
    BY <1>1, <1>8 DEF WritePacket
  <2>2. LetsIn(c)' => LetsIn(c) \/ (~Gone(c) /\ Opens(task[c].batch))
    BY <1>1, <1>8, <2>1, SendLetsIn, HeadOpens DEF WritePacket
  <2>3. /\ task'[c].pc = "Writing" /\ task[c].pc = "Writing"
        /\ task'[c].was_in_play = task[c].was_in_play
        /\ task'[c].batch = Tail(task[c].batch)
    BY <1>1, <1>8 DEF WritePacket, Tasks
  <2>4. Opens(task'[c].batch) => Opens(task[c].batch)
    BY <1>1, <1>8, <2>3, TailOpens DEF WritePacket
  <2>5. QED
    BY <1>1, <1>3, <2>2, <2>3, <2>4 DEF Admission, Counted
<1>9. CASE WriteFails(c)
  BY <1>1, <1>3, <1>9
  DEF WriteFails, AfterError, Tasks, Admission, LetsIn, channels, Counted
<1>10. CASE FinishPacket(c) \/ FindKick(c) \/ ReadEnd(c)
  <2>1. /\ task'[c].was_in_play = task[c].was_in_play
        /\ task'[c].pc \in {"Reading", "Kicking", "Closing"}
        /\ task[c].pc \in {"Writing", "Reading"} /\ UNCHANGED << peer, channels >>
    <3>1. CASE FinishPacket(c)
      BY <1>1, <3>1, FinishPacketEffect DEF FinishPacket, Finished
    <3>2. CASE FindKick(c)
      BY <1>1, <3>2 DEF FindKick, Tasks
    <3>3. CASE ReadEnd(c)
      BY <1>1, <3>3 DEF ReadEnd, Tasks
    <3>4. QED
      BY <1>10, <3>1, <3>2, <3>3
  <2>2. QED
    BY <1>1, <1>3, <2>1 DEF Admission, LetsIn, channels, Counted
<1>11. CASE KickClient(c)
  <2>1. LetsIn(c)' => LetsIn(c)
    <3>1. CASE task[c].client_state.state \in {"Login", "Configuration", "Play"}
      <4> DEFINE packet == DisconnectPacket(task[c].client_state.state)
      <4>1. packet \in ClientBound /\ packet.type # "Login"
        BY <3>1, PlainPackets DEF DisconnectPacket, PlainTypes
      <4>2. QED
        BY <1>4, <1>11, <3>1, <4>1 DEF KickClient
    <3>2. CASE task[c].client_state.state \notin {"Login", "Configuration", "Play"}
      BY <1>11, <3>2 DEF KickClient, LetsIn
    <3>3. QED
      BY <3>1, <3>2
  <2>2. task'[c].pc = "Closing" /\ task[c].pc = "Kicking"
        /\ task'[c].was_in_play = task[c].was_in_play
    BY <1>1, <1>11 DEF KickClient, Tasks
  <2>3. QED
    BY <1>1, <1>3, <2>1, <2>2 DEF Admission, Counted
<1>12. ASSUME NEW type \in {"KeepAlive", "ActionBar"}, Tick(c, type)
       PROVE  Admission(c)'
  <2>1. LetsIn(c)' => LetsIn(c)
    <3>1. Packet(type) \in ClientBound /\ Packet(type).type # "Login"
      BY PlainPackets DEF PlainTypes
    <3>2. CASE task[c].client_state.state = "Play"
      BY <1>4, <1>12, <3>1, <3>2 DEF Tick
    <3>3. CASE task[c].client_state.state # "Play"
      BY <1>12, <3>3 DEF Tick, LetsIn
    <3>4. QED
      BY <3>2, <3>3
  <2>2. /\ task'[c].pc \in {"Reading", "Closing"} /\ task[c].pc = "Reading"
        /\ task'[c].was_in_play = task[c].was_in_play
    BY <1>1, <1>12 DEF Tick, Tasks, AfterError
  <2>3. QED
    BY <1>1, <1>3, <2>1, <2>2 DEF Admission, Counted
<1>13. CASE Shutdown(c)
  BY <1>1, <1>3, <1>13
  DEF Shutdown, Tasks, NewTask, Admission, LetsIn, channels, Counted
<1>14. CASE Decrement(c)
  BY <1>1, <1>3, <1>14 DEF Decrement, NewTask, Admission, LetsIn, channels, Counted
<1>15. QED
  BY <1>5, <1>6, <1>7, <1>8, <1>9, <1>10, <1>11, <1>12, <1>13, <1>14
  DEF ServerStep, KeepAliveTick, ActionBarTick

\* Only the Login packet lets a client join.
LEMMA ReactJoins ==
  ASSUME NEW p \in Peers, NEW packet \in ClientBound
  PROVE  /\ React(p, packet).joined => p.joined \/ packet.type = "Login"
         /\ p.phase # "Gone" => React(p, packet).phase # "Gone"
BY DEF React, Peers

\* A step of a client keeps the promise for the client.
LEMMA ClientStepAdmission ==
  ASSUME IInv, NEW c \in Clients, ClientStep(c)
  PROVE  Admission(c)'
<1>1. /\ TypeOK /\ Places /\ Admission(c)
      /\ task \in [Clients -> Tasks] /\ task[c] \in Tasks
      /\ peer \in [Clients -> Peers] /\ peer[c] \in Peers
      /\ to_client \in [Clients -> Seq(Frames(ClientBound))]
  BY DEF IInv, TypeOK
<1>2. CASE Connect(c)
  <2>1. peer'[c].joined = FALSE /\ to_client' = to_client
    BY <1>1, <1>2 DEF Connect, NoPeer
  <2>2. ~LetsIn(c)'
    BY <1>1, <1>2, <2>1 DEF Connect, Admission, LetsIn
  <2>3. task'[c].pc = "Pending"
    BY <1>1, <1>2 DEF Connect, Tasks
  <2>4. QED
    BY <2>2, <2>3 DEF Admission
<1>3. CASE Receive(c)
  <2> DEFINE queue == to_client[c]
  <2>1. /\ queue \in Seq(Frames(ClientBound)) /\ queue # << >>
        /\ to_client'[c] = Tail(queue) /\ task' = task
        /\ ~Gone(c)
    BY <1>1, <1>3 DEF Receive, Gone
  <2>2. Head(queue) \in Frames(ClientBound) /\ Head(queue).packet \in ClientBound
    <3> HIDE DEF queue
    <3>1. Head(queue) \in Frames(ClientBound)
      BY <2>1
    <3>2. QED
      BY <3>1 DEF Frames
  <2>3. /\ peer'[c].joined => peer[c].joined \/ Head(queue).packet.type = "Login"
        /\ ~Gone(c)'
    <3>1. peer'[c] = React(peer[c], Head(queue).packet)
            \/ peer'[c] = [peer[c] EXCEPT !.phase = "Error"]
      BY <1>1, <1>3 DEF Receive
    <3>2. CASE peer'[c] = React(peer[c], Head(queue).packet)
      BY <1>1, <2>1, <2>2, <3>2, ReactJoins DEF Gone
    <3>3. CASE peer'[c] = [peer[c] EXCEPT !.phase = "Error"]
      BY <1>1, <3>3 DEF Gone, Peers
    <3>4. QED
      BY <3>1, <3>2, <3>3
  <2>4. 1 \in DOMAIN queue /\ queue[1] = Head(queue)
    BY <2>1
  <2>5. \A i \in DOMAIN Tail(queue) : i + 1 \in DOMAIN queue /\ Tail(queue)[i] = queue[i + 1]
    BY <2>1
  <2>6. LetsIn(c)' => LetsIn(c)
    <3>1. CASE peer'[c].joined
      BY <2>3, <2>4, <3>1 DEF LetsIn
    <3>2. CASE \E i \in DOMAIN to_client'[c] : to_client'[c][i].packet.type = "Login"
      BY <2>1, <2>5, <3>2 DEF LetsIn
    <3>3. QED
      BY <3>1, <3>2 DEF LetsIn
  <2>7. QED
    BY <1>1, <2>1, <2>3, <2>6 DEF Admission, Counted
<1>4. CASE SendInput(c)
  <2>1. /\ peer'[c].joined = peer[c].joined /\ peer'[c].phase = peer[c].phase
        /\ task' = task /\ to_client' = to_client
    BY <1>1, <1>4 DEF SendInput, Peers
  <2>2. QED
    BY <1>1, <2>1 DEF Admission, LetsIn, Gone, Counted
<1>5. CASE Leave(c)
  <2>1. peer'[c].joined = FALSE /\ to_client'[c] = << >> /\ task' = task
    BY <1>1, <1>5 DEF Leave, NoPeer
  <2>2. ~LetsIn(c)'
    BY <2>1 DEF LetsIn
  <2>3. QED
    BY <1>1, <2>1, <2>2 DEF Admission
<1>6. QED
  BY <1>2, <1>3, <1>4, <1>5 DEF ClientStep

\* No step reaches across to another connection.
LEMMA OthersAdmission ==
  ASSUME IInv, NEW c \in Clients, ServerStep(c) \/ ClientStep(c), NEW d \in Clients \ {c}
  PROVE  Admission(d)'
<1>1. /\ task \in [Clients -> Tasks] /\ peer \in [Clients -> Peers]
      /\ to_client \in [Clients -> Seq(Frames(ClientBound))]
  BY DEF IInv, TypeOK
<1>2. task'[d] = task[d]
  BY ServerStepMoves, ClientStepMoves DEF IInv, Moves
<1>3. peer'[d] = peer[d] /\ to_client'[d] = to_client[d]
  <2>1. CASE ServerStep(c)
    BY <1>1, <2>1
    DEF ServerStep, Accept, ProcessPacket, Increment, WritePacket, WriteFails,
        FinishPacket, FindKick, KickClient, KeepAliveTick, ActionBarTick, Tick,
        ReadEnd, Shutdown, Decrement, Send, channels
  <2>2. CASE ClientStep(c)
    BY <1>1, <2>2 DEF ClientStep, Connect, Receive, SendInput, Leave
  <2>3. QED
    BY <2>1, <2>2
<1>4. Admission(d)
  BY DEF IInv
<1>5. QED
  BY <1>2, <1>3, <1>4 DEF Admission, LetsIn, Gone, Counted

\* A client that was let into the world is counted for as long as its task
\* lives: increment comes before the batch with the Login packet is written,
\* and decrement after the connection is shut down (network.rs, 165-180).
THEOREM JoinedCounted == Spec => []JoinedAreCounted
<1>1. Init => IInv
  <2>1. ASSUME Init, NEW c \in Clients
        PROVE  Admission(c)
    <3>1. /\ task[c].pc = "Closed" /\ ~peer[c].joined /\ to_client[c] = << >>
      BY <2>1 DEF Init, NewTask, NoPeer
    <3>2. ~LetsIn(c)
      BY <3>1 DEF LetsIn
    <3>3. QED
      BY <3>1, <3>2 DEF Admission
  <2>2. Init => Places
    BY DEF Init, Places, NewTask
  <2>3. QED
    BY <2>1, <2>2, InitType DEF IInv
<1>2. IInv /\ [Next]_vars => IInv'
  <2>1. ASSUME IInv, Next
        PROVE  IInv'
    <3>1. PICK c \in Clients : ServerStep(c) \/ ClientStep(c)
      BY <2>1 DEF Next
    <3>2. Places'
      BY <2>1, <3>1, ServerStepMoves, ClientStepMoves, MovesRoster DEF IInv
    <3>3. Admission(c)' /\ \A d \in Clients \ {c} : Admission(d)'
      BY <2>1, <3>1, ServerStepAdmission, ClientStepAdmission, OthersAdmission
    <3>4. QED
      BY <2>1, <3>2, <3>3, StepType, Zenon DEF IInv
  <2>2. ASSUME IInv, UNCHANGED vars
        PROVE  IInv'
    BY <2>2 DEF IInv, vars, channels, TypeOK, Places, Admission, LetsIn, Gone, Counted
  <2>3. QED
    BY <2>1, <2>2
<1>3. IInv => JoinedAreCounted
  BY DEF IInv, Admission, LetsIn, JoinedAreCounted
<1>4. QED
  BY <1>1, <1>2, <1>3, PTL DEF Spec
=============================================================================
