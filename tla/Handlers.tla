----------------------------- MODULE Handlers -----------------------------
(***************************************************************************)
(* The packet handlers of pico_limbo: what each one does to the state of   *)
(* its client and the packets it queues.  A handler is an operator from    *)
(* the client state, the packet and the configuration to an outcome        *)
(*     [client_state, batch, error]                                        *)
(* which is the Result<Batch, PacketHandlerError> of the code together     *)
(* with what was written through &mut client_state.  An error discards the *)
(* batch and keeps the changes made to the client state.                   *)
(*                                                                         *)
(* Abstracted: names and chat text, textures, the contents of registries,  *)
(* chunks and the other packets of the world ("ConfigurationData" and      *)
(* "PlayData" stand for all of them), and the movement and flight fields.  *)
(***************************************************************************)
EXTENDS ProtocolVersion, Sequences

-----------------------------------------------------------------------------
(* Types *)

States == {"Handshake", "Status", "Login", "Transfer", "Configuration", "Play"}
ForgeKinds == {"None", "Fml1", "Fml2", "Fml3"}

\* Whose UUID a GameProfile carries: the one the LoginStart packet gave (or the
\* offline UUID of its name), or the one a proxy forwarded.
Profiles == {"Absent", "LoginStart", "Forwarded"}
Sessions == [active : BOOLEAN, next_step : Nat, next_message_id : Nat,
             pending : SUBSET Nat]
ClientStates ==
  [state : States, protocol_version : KnownVersions, kick_message : BOOLEAN,
   message_id : Int, game_profile : Profiles,
   keep_alive_enabled : {"Disabled", "ShouldEnable", "Enabled"},
   forge_kind : ForgeKinds, forge_session : Sessions]

\* The part of ServerState the handlers read; it never changes after start-up.
\* fml2_steps is the number of FML2 steps of the loaded snapshot, 0 for none;
\* spawn_fits says that the spawn position is within chunk coordinates; unwritable
\* are the versions for which a chunk within the view distance cannot be encoded,
\* for a block entity (Join tells which); none before there are chunks.
ServerStates ==
  [compression : BOOLEAN, forwarding : {"None", "Legacy", "BungeeGuard", "Modern"},
   fml2_steps : Nat, reply_to_status : BOOLEAN, accept_transfers : BOOLEAN,
   allow_unsupported_versions : BOOLEAN, action_bar : BOOLEAN, spawn_fits : BOOLEAN,
   unwritable : SUBSET {v \in Releases : v >= V1_16}]

\* What the hostname of a handshake carries besides the name: nothing, a
\* forwarded UUID, or a forwarded UUID with a token the server knows.
Hostnames == {"Plain", "Uuid", "UuidAndToken"}
ServerBound ==
  [type : {"Handshake"}, protocol : Int, next_state : Int,
   forge_kind : ForgeKinds, hostname : Hostnames]
  \cup [type : {"CustomQueryAnswer"}, message_id : Int, key_valid : BOOLEAN]
  \cup [type : {"StatusRequest", "PingRequest", "LoginStart", "LoginAcknowledged",
                "AcknowledgeConfiguration", "ConfigurationPluginMessage",
                "PlayCommand", "Unknown"}]

\* step is 0 for the Velocity query and the index of the snapshot step otherwise.
ClientBound ==
  [type : {"CustomQuery"}, message_id : Int, step : Nat]
  \cup [type : {"LoginSuccess"}, profile : Profiles]
  \cup [type : {"StatusResponse", "PongResponse", "SetCompression",
                "ConfigurationData", "FinishConfiguration", "Login", "PlayData",
                "KeepAlive", "ActionBar", "LoginDisconnect",
                "ConfigurationDisconnect", "PlayDisconnect"}]

Packet(type) == [type |-> type]

Errors == {"None", "Custom", "Disconnected"}
Outcomes == [client_state : ClientStates, batch : Seq(ClientBound), error : Errors]

Queued(cs, batch) == [client_state |-> cs, batch |-> batch, error |-> "None"]
Failed(cs, error) == [client_state |-> cs, batch |-> << >>, error |-> error]

-----------------------------------------------------------------------------
(* Client state *)

NoSession == [active |-> FALSE, next_step |-> 0, next_message_id |-> 0, pending |-> {}]

DefaultClientState ==
  [state |-> "Handshake", protocol_version |-> AnyVersion, kick_message |-> FALSE,
   message_id |-> -1, game_profile |-> "Absent", keep_alive_enabled |-> "Disabled",
   forge_kind |-> "None", forge_session |-> NoSession]

Kick(cs) == [cs EXCEPT !.kick_message = TRUE]

\* Mutant: the whole profile is replaced.
SetGameProfileAnew(cs, profile) == [cs EXCEPT !.game_profile = profile]

\* Only the name of a profile that is already there is replaced.
SetGameProfile(cs, profile) ==
  [cs EXCEPT !.game_profile = IF @ = "Absent" THEN profile ELSE @]

SetKeepAliveShouldEnable(cs) ==
  [cs EXCEPT !.keep_alive_enabled = IF @ = "Disabled" THEN "ShouldEnable" ELSE @]

-----------------------------------------------------------------------------
(* Play and Configuration *)

CanBuildLoginPacket(version) == version \in Releases
CanSendChunks(version, server) == IsAfterInclusive(version, V1_16) => server.spawn_fits

\* Mutant: the keep-alive is not asked for.
SendPlayPacketsSilent(cs, batch, server) ==
  IF /\ CanBuildLoginPacket(cs.protocol_version)
     /\ CanSendChunks(cs.protocol_version, server)
  THEN Queued([cs EXCEPT !.state = "Play"],
              batch \o << Packet("Login"), Packet("PlayData") >>)
  ELSE Failed(cs, "Disconnected")

\* send_play_packets on top of the packets already queued.
SendPlayPackets(cs, batch, server) ==
  IF /\ CanBuildLoginPacket(cs.protocol_version)
     /\ CanSendChunks(cs.protocol_version, server)
  THEN Queued(SetKeepAliveShouldEnable([cs EXCEPT !.state = "Play"]),
              batch \o << Packet("Login"), Packet("PlayData") >>)
  ELSE Failed(cs, "Disconnected")

HandleAcknowledgeConfiguration(cs, server) == SendPlayPackets(cs, << >>, server)

\* Mutant: the state changes with the answer to the configuration.
HandleLoginAcknowledgedLate(cs) ==
  IF SupportsConfigurationState(cs.protocol_version)
  THEN Queued(cs, << Packet("ConfigurationData"), Packet("FinishConfiguration") >>)
  ELSE Failed(cs, "Disconnected")

HandleLoginAcknowledged(cs) ==
  IF SupportsConfigurationState(cs.protocol_version)
  THEN Queued([cs EXCEPT !.state = "Configuration"],
              << Packet("ConfigurationData"), Packet("FinishConfiguration") >>)
  ELSE Failed(cs, "Disconnected")

-----------------------------------------------------------------------------
(* Login *)

FireLoginSuccess(cs, batch, server, profile) ==
  LET compress == /\ IsAfterInclusive(cs.protocol_version, V1_8)
                  /\ server.compression
      queued == batch
                \o (IF compress THEN << Packet("SetCompression") >> ELSE << >>)
                \o << [type |-> "LoginSuccess", profile |-> profile] >>
      named == SetGameProfile(cs, profile)
  IN  IF SupportsConfigurationState(cs.protocol_version)
      THEN Queued(named, queued)
      ELSE SendPlayPackets(named, queued, server)

ShouldReplay(kind) == kind \in {"Fml2", "Fml3"}

\* Mutant: the last step is forgotten.
HasNextStepButLast(session, server) == session.next_step + 1 < server.fml2_steps

\* Fml2ReplaySession::take_next_step
HasNextStep(session, server) == session.next_step < server.fml2_steps
TakeNextStep(session) ==
  [session EXCEPT !.next_step = @ + 1,
                  !.next_message_id = @ + 1,
                  !.pending = @ \cup {session.next_message_id + 1}]

\* enqueue_next_forge_step, when a step is left.
EnqueueNextForgeStep(cs) ==
  LET session == TakeNextStep(cs.forge_session)
  IN  Queued([cs EXCEPT !.forge_session = session],
             << [type |-> "CustomQuery", message_id |-> session.next_message_id,
                 step |-> session.next_step] >>)

\* Mutant: the identity is kept before the proxy has vouched for it.
HandleLoginStartEager(cs, server, velocity_id) ==
  IF server.forwarding # "Modern"
  THEN FireLoginSuccess(cs, << >>, server, "LoginStart")
  ELSE Queued([SetGameProfile(cs, "LoginStart") EXCEPT !.message_id = velocity_id],
              << [type |-> "CustomQuery", message_id |-> velocity_id, step |-> 0] >>)

\* velocity_id is the random number login_start_velocity draws.
HandleLoginStart(cs, server, velocity_id) ==
  IF ShouldReplay(cs.forge_kind) /\ server.fml2_steps > 0
  THEN EnqueueNextForgeStep(
         [SetGameProfile(cs, "LoginStart")
            EXCEPT !.forge_session = [NoSession EXCEPT !.active = TRUE]])
  ELSE IF server.forwarding # "Modern"
  THEN FireLoginSuccess(cs, << >>, server, "LoginStart")
  ELSE IF IsModern(cs.protocol_version)
  THEN Queued([cs EXCEPT !.message_id = velocity_id],
              << [type |-> "CustomQuery", message_id |-> velocity_id, step |-> 0] >>)
  ELSE Queued(Kick(cs), << >>)

\* Mutant: nothing follows the last step.
HandleForgeAnswerIdle(cs, server, message_id) ==
  LET answered == [cs EXCEPT !.forge_session.pending = @ \ {message_id}]
  IN  IF HasNextStep(answered.forge_session, server)
      THEN EnqueueNextForgeStep(answered)
      ELSE Queued([answered EXCEPT !.forge_session = NoSession], << >>)

HandleForgeAnswer(cs, server, message_id) ==
  LET answered == [cs EXCEPT !.forge_session.pending = @ \ {message_id}]
  IN  IF HasNextStep(answered.forge_session, server)
      THEN EnqueueNextForgeStep(answered)
      ELSE LET done == [answered EXCEPT !.forge_session = NoSession]
           IN  IF done.game_profile = "Absent"
               THEN Failed(done, "Custom")
               ELSE FireLoginSuccess(done, << >>, server, done.game_profile)

\* Mutant: the kick does not return.
HandleVelocityAnswerOnward(cs, server, packet) ==
  FireLoginSuccess(IF packet.key_valid THEN cs ELSE Kick(cs), << >>, server, "Forwarded")

\* Mutant: the signature is not looked at.
HandleVelocityAnswerTrusting(cs, server, packet) ==
  FireLoginSuccess(cs, << >>, server, "Forwarded")

HandleVelocityAnswer(cs, server, packet) ==
  IF packet.key_valid
  THEN FireLoginSuccess(cs, << >>, server, "Forwarded")
  ELSE Queued(Kick(cs), << >>)

HandleCustomQueryAnswer(cs, server, packet) ==
  IF packet.message_id \in cs.forge_session.pending
  THEN HandleForgeAnswer(cs, server, packet.message_id)
  ELSE IF server.forwarding = "Modern" /\ packet.message_id = cs.message_id
  THEN HandleVelocityAnswer(cs, server, packet)
  ELSE Queued(cs, << >>)

-----------------------------------------------------------------------------
(* Handshake *)

GetProtocol(pvn, server) ==
  IF pvn = -1 THEN AnyVersion
  ELSE IF server.allow_unsupported_versions THEN From(pvn)
  ELSE TryFrom(pvn)

\* check_bungee_cord: what the forwarding mode makes of the hostname.
CheckBungeeCord(server, hostname) ==
  CASE server.forwarding \notin {"Legacy", "BungeeGuard"} -> "NoForwarding"
    [] server.forwarding = "Legacy" /\ hostname # "Plain" -> "Anonymous"
    [] server.forwarding = "BungeeGuard" /\ hostname = "UuidAndToken" -> "Anonymous"
    [] OTHER -> "Invalid"

BeginLogin(cs, server, hostname) ==
  LET forwarding == CheckBungeeCord(server, hostname)
  IN  CASE cs.protocol_version = Unsupported -> Failed(cs, "Disconnected")
        [] cs.protocol_version # Unsupported /\ forwarding = "Invalid" ->
             Failed(Kick(cs), "Disconnected")
        [] cs.protocol_version # Unsupported /\ forwarding = "Anonymous" ->
             Queued(SetGameProfile(cs, "Forwarded"), << >>)
        [] cs.protocol_version # Unsupported /\ forwarding = "NoForwarding" ->
             Queued(cs, << >>)

HandleHandshake(cs, server, packet) ==
  LET versioned == [cs EXCEPT !.protocol_version = GetProtocol(packet.protocol, server)]
      login == [versioned EXCEPT !.state = "Login", !.forge_kind = packet.forge_kind]
  IN  CASE packet.next_state = 1 ->
             LET status == [versioned EXCEPT !.state = "Status"]
             IN  IF server.reply_to_status
                 THEN Queued(status, << >>)
                 ELSE Failed(status, "Disconnected")
        [] packet.next_state = 2 -> BeginLogin(login, server, packet.hostname)
        [] packet.next_state = 3 ->
             IF server.accept_transfers
             THEN BeginLogin(login, server, packet.hostname)
             ELSE Failed([versioned EXCEPT !.state = "Transfer"], "Disconnected")
        [] packet.next_state \notin 1 .. 3 -> Failed(versioned, "Disconnected")

-----------------------------------------------------------------------------
(* Dispatch *)

\* The packets decode_packet knows in each state.
Decodable(state) ==
  CASE state = "Handshake" -> {"Handshake"}
    [] state = "Status" -> {"StatusRequest", "PingRequest"}
    [] state = "Login" -> {"LoginStart", "CustomQueryAnswer", "LoginAcknowledged"}
    [] state = "Configuration" ->
         {"AcknowledgeConfiguration", "ConfigurationPluginMessage"}
    [] state = "Play" -> {"PlayCommand"}
    [] OTHER -> {}

\* PacketRegistry::handle.  A command of the player is answered by one packet;
\* a plugin message of the configuration finds no FML3 session to advance.
Handle(cs, server, packet, velocity_id) ==
  CASE packet.type = "Handshake" -> HandleHandshake(cs, server, packet)
    [] packet.type = "StatusRequest" -> Queued(cs, << Packet("StatusResponse") >>)
    [] packet.type = "PingRequest" -> Queued(cs, << Packet("PongResponse") >>)
    [] packet.type = "LoginStart" -> HandleLoginStart(cs, server, velocity_id)
    [] packet.type = "CustomQueryAnswer" -> HandleCustomQueryAnswer(cs, server, packet)
    [] packet.type = "LoginAcknowledged" -> HandleLoginAcknowledged(cs)
    [] packet.type = "AcknowledgeConfiguration" -> HandleAcknowledgeConfiguration(cs, server)
    [] packet.type = "ConfigurationPluginMessage" -> Queued(cs, << >>)
    [] packet.type = "PlayCommand" -> Queued(cs, << Packet("PlayData") >>)
    [] OTHER -> Failed(cs, "Custom")

\* Decoding, then handling.  A packet the registry does not know in the present
\* state is the DecodePacketError of process_packet: nothing changes.
DecodeAndHandle(cs, server, packet, velocity_id) ==
  IF packet.type \in Decodable(cs.state)
  THEN Handle(cs, server, packet, velocity_id)
  ELSE Failed(cs, "Custom")
=============================================================================
