---------------------------- MODULE Connection ----------------------------
(***************************************************************************)
(* The life of the connections of a PicoLimbo server: one task per client  *)
(* (handle_client) that reads a packet, handles it, writes the batch the   *)
(* handler queued and serves the timers, and the counter of online players *)
(* all tasks share.  The clients are the game's: they follow the login     *)
(* protocol, play, and leave at any moment.                                *)
(*                                                                         *)
(* A task is one thread of control; its steps are the stretches of code    *)
(* between the awaits at which another task or the peer can be seen.       *)
(* Frames are read and written whole: PacketFraming is about their bytes.  *)
(* A member of Clients is one connection at a time, then another.          *)
(***************************************************************************)
EXTENDS Handlers, FiniteSets

CONSTANTS
  Clients,     \* connection slots
  Configs,     \* the configurations a server may be started with
  Greetings,   \* how a client may open: its first packet and its secret
  VelocityIds, \* the message ids login_start_velocity may draw
  MaxInputs,   \* bound: packets a client sends of its own accord
  MaxTicks     \* bound: timer ticks served per connection

ASSUME ClientsAssumption == IsFiniteSet(Clients)
ASSUME ConfigsAssumption == Configs \subseteq ServerStates
ASSUME VelocityIdsAssumption == VelocityIds \subseteq Int /\ VelocityIds # {}
ASSUME GreetingsAssumption ==
  Greetings \subseteq [handshake : {p \in ServerBound : p.type = "Handshake"},
                       key_valid : BOOLEAN]

\* A version that allow_unsupported_versions takes to its nearest neighbour: one in
\* a gap of the enum goes to the latest (expand.rs, 135-145), whose login differs.
Familiar(server, protocol) ==
  server.allow_unsupported_versions =>
    protocol \in KnownVersions \/ protocol < oldest \/ protocol > latest
ASSUME GameVersionsAssumption ==
  \A greeting \in Greetings, server \in Configs :
    Familiar(server, greeting.handshake.protocol)

ASSUME BoundsAssumption == MaxInputs \in Nat /\ MaxTicks \in Nat

VARIABLES
  config,     \* the immutable part of ServerState
  online,     \* ServerState::connected_clients
  task,       \* the task of each connection: its place and its locals
  peer,       \* the client at the other end
  to_server,  \* frames on their way to the server
  to_client   \* frames on their way to the client

channels == << to_server, to_client >>
vars == << config, online, task, peer, channels >>

\* Closed: no task and no socket; Pending: in the backlog of the listener.
Pcs == {"Closed", "Pending", "Reading", "Counting", "Writing", "Kicking",
        "Closing", "Leaving"}
Timers == [keep_alive : BOOLEAN, action_bar : BOOLEAN]
NoTimers == [keep_alive |-> FALSE, action_bar |-> FALSE]

\* compression: PacketStream::compression_settings is set; batch: what is left
\* of the batch being written; was_in_play: was_in_play_state of handle_client;
\* just_entered: just_entered_play of process_packet; timers: the intervals set.
Tasks == [pc : Pcs, client_state : ClientStates, compression : BOOLEAN,
          batch : Seq(ClientBound), was_in_play : BOOLEAN, just_entered : BOOLEAN,
          timers : Timers, ticks : Nat]

\* The data of a task that has not started, or is dropped.
NewTask(at) ==
  [pc |-> at, client_state |-> DefaultClientState, compression |-> FALSE,
   batch |-> << >>, was_in_play |-> FALSE, just_entered |-> FALSE,
   timers |-> NoTimers, ticks |-> 0]

\* steps counts the snapshot steps the client was led through; joined says that
\* it received the Login packet of the Play state.
Phases == {"Gone", "Status", "Login", "Configuration", "Play", "Kicked", "Error"}
Peers == [phase : Phases, compressed : BOOLEAN, protocol : Int, key_valid : BOOLEAN,
          forge_kind : ForgeKinds, profile : Profiles, steps : Nat, joined : BOOLEAN,
          inputs : Nat]
NoPeer == [phase |-> "Gone", compressed |-> FALSE, protocol |-> AnyVersion,
           key_valid |-> FALSE, forge_kind |-> "None", profile |-> "Absent",
           steps |-> 0, joined |-> FALSE, inputs |-> 0]

Frames(Packets) == [packet : Packets, compressed : BOOLEAN]
Frame(packet, compressed) == [packet |-> packet, compressed |-> compressed]

Init ==
  /\ config \in Configs
  /\ online = 0
  /\ task = [c \in Clients |-> NewTask("Closed")]
  /\ peer = [c \in Clients |-> NoPeer]
  /\ to_server = [c \in Clients |-> << >>]
  /\ to_client = [c \in Clients |-> << >>]

-----------------------------------------------------------------------------
(* The task of a connection *)

Gone(c) == peer[c].phase = "Gone"

AfterError(error) == IF error = "Disconnected" THEN "Closing" ELSE "Reading"

\* The accept loop: handle_client starts with fresh client data.
Accept(c) ==
  /\ task[c].pc = "Pending"
  /\ task' = [task EXCEPT ![c] = NewTask("Reading")]
  /\ UNCHANGED << config, online, peer, channels >>

\* read_packet, then decode_packet and handle of process_packet.  A frame in the
\* other format is garbage to read_packet: an error that is not a disconnection.
ReadAndHandle(c, frame, velocity_id) ==
  IF frame.compressed = task[c].compression
  THEN DecodeAndHandle(task[c].client_state, config, frame.packet, velocity_id)
  ELSE Failed(task[c].client_state, "Custom")

\* Mutant: the entry into Play is looked for before the packet is handled.
ProcessPacketStale(c) ==
  /\ task[c].pc = "Reading"
  /\ to_server[c] # << >>
  /\ \E velocity_id \in VelocityIds :
       LET outcome == ReadAndHandle(c, Head(to_server[c]), velocity_id)
           entering == /\ outcome.error = "None"
                       /\ ~task[c].was_in_play
                       /\ task[c].client_state.state = "Play"
       IN  task' = [task EXCEPT
                      ![c].client_state = outcome.client_state,
                      ![c].batch = outcome.batch,
                      ![c].was_in_play = @ \/ entering,
                      ![c].just_entered = entering,
                      ![c].pc = IF outcome.error # "None" THEN AfterError(outcome.error)
                                ELSE IF entering THEN "Counting" ELSE "Writing"]
  /\ to_server' = [to_server EXCEPT ![c] = Tail(@)]
  /\ UNCHANGED << config, online, peer, to_client >>

\* Mutant: every packet handled in Play enters it.
ProcessPacketReentering(c) ==
  /\ task[c].pc = "Reading"
  /\ to_server[c] # << >>
  /\ \E velocity_id \in VelocityIds :
       LET outcome == ReadAndHandle(c, Head(to_server[c]), velocity_id)
           entering == /\ outcome.error = "None"
                       /\ outcome.client_state.state = "Play"
       IN  task' = [task EXCEPT
                      ![c].client_state = outcome.client_state,
                      ![c].batch = outcome.batch,
                      ![c].was_in_play = @ \/ entering,
                      ![c].just_entered = entering,
                      ![c].pc = IF outcome.error # "None" THEN AfterError(outcome.error)
                                ELSE IF entering THEN "Counting" ELSE "Writing"]
  /\ to_server' = [to_server EXCEPT ![c] = Tail(@)]
  /\ UNCHANGED << config, online, peer, to_client >>

\* process_packet up to its first write: handle, notice the entry into Play.
ProcessPacket(c) ==
  /\ task[c].pc = "Reading"
  /\ to_server[c] # << >>
  /\ \E velocity_id \in VelocityIds :
       LET outcome == ReadAndHandle(c, Head(to_server[c]), velocity_id)
           entering == /\ outcome.error = "None"
                       /\ ~task[c].was_in_play
                       /\ outcome.client_state.state = "Play"
       IN  task' = [task EXCEPT
                      ![c].client_state = outcome.client_state,
                      ![c].batch = outcome.batch,
                      ![c].was_in_play = @ \/ entering,
                      ![c].just_entered = entering,
                      ![c].pc = IF outcome.error # "None" THEN AfterError(outcome.error)
                                ELSE IF entering THEN "Counting" ELSE "Writing"]
  /\ to_server' = [to_server EXCEPT ![c] = Tail(@)]
  /\ UNCHANGED << config, online, peer, to_client >>

\* server_state.write().await.increment()
Increment(c) ==
  /\ task[c].pc = "Counting"
  /\ online' = online + 1
  /\ task' = [task EXCEPT ![c].pc = "Writing"]
  /\ UNCHANGED << config, peer, channels >>

\* The packet to write next has no encoding for the version: the chunks come with
\* the entry into Play, PlayData after a command is a plain answer.  What precedes
\* the chunk is written, and adds nothing to what the client knows by Login.
CannotEncode(c) ==
  /\ task[c].just_entered
  /\ Head(task[c].batch).type = "PlayData"
  /\ task[c].client_state.protocol_version \in config.unwritable

\* A packet put on the wire in the format in force; a client that has left
\* never sees it.
Send(c, packet) ==
  to_client' = [to_client EXCEPT ![c] =
                  IF Gone(c) THEN @ ELSE Append(@, Frame(packet, task[c].compression))]

\* Mutant: the format changes before SetCompression is written.
WritePacketEarly(c) ==
  LET packet == Head(task[c].batch)
      compression == \/ task[c].compression
                     \/ packet.type = "SetCompression" /\ config.compression
  IN  /\ task[c].pc = "Writing"
      /\ task[c].batch # << >>
      /\ ~CannotEncode(c)
      /\ to_client' = [to_client EXCEPT ![c] =
                         IF Gone(c) THEN @ ELSE Append(@, Frame(packet, compression))]
      /\ task' = [task EXCEPT ![c].batch = Tail(@), ![c].compression = compression]
      /\ UNCHANGED << config, online, peer, to_server >>

\* One turn of the loop over the batch.
WritePacket(c) ==
  /\ task[c].pc = "Writing"
  /\ task[c].batch # << >>
  /\ ~CannotEncode(c)
  /\ Send(c, Head(task[c].batch))
  /\ task' = [task EXCEPT
                ![c].batch = Tail(@),
                ![c].compression = \/ @
                                   \/ /\ Head(task[c].batch).type = "SetCompression"
                                      /\ config.compression]
  /\ UNCHANGED << config, online, peer, to_server >>

\* How a turn of the loop may fail: to encode, whoever listens, before anything is
\* written; to write, only when the client has left.
WriteErrors(c) ==
  IF CannotEncode(c) THEN {"Custom"}
  ELSE IF Gone(c) THEN {"Custom", "Disconnected"} ELSE {}

\* A turn of the loop fails: on a reset connection the task ends, on any other
\* error it reads on.  The rest of the batch is forgotten, and FinishPacket with
\* the timers it starts is not reached.
WriteFails(c) ==
  /\ task[c].pc = "Writing"
  /\ task[c].batch # << >>
  /\ \E error \in WriteErrors(c) :
       task' = [task EXCEPT ![c].batch = << >>, ![c].pc = AfterError(error)]
  /\ UNCHANGED << config, online, peer, channels >>

EnableActionBarIfNeeded(cs) ==
  /\ IsAfterInclusive(cs.protocol_version, V1_8)
  /\ config.action_bar

\* The end of process_packet when no kick is due: the timers are switched on.
FinishPacket(c) ==
  LET cs == task[c].client_state
      starts == cs.keep_alive_enabled = "ShouldEnable"
  IN  /\ task[c].pc = "Writing"
      /\ task[c].batch = << >>
      /\ ~cs.kick_message
      /\ task' = [task EXCEPT
                    ![c].pc = "Reading",
                    ![c].client_state.keep_alive_enabled =
                       IF starts THEN "Enabled" ELSE @,
                    ![c].timers.keep_alive = @ \/ starts,
                    ![c].timers.action_bar =
                       @ \/ (task[c].just_entered /\ EnableActionBarIfNeeded(cs))]
      /\ UNCHANGED << config, online, peer, channels >>

FindKick(c) ==
  /\ task[c].pc = "Writing"
  /\ task[c].batch = << >>
  /\ task[c].client_state.kick_message
  /\ task' = [task EXCEPT ![c].pc = "Kicking"]
  /\ UNCHANGED << config, online, peer, channels >>

\* Mutant: one packet for every state.
DisconnectPacketAlike(state) == Packet("Disconnect")

DisconnectPacket(state) ==
  Packet(CASE state = "Login" -> "LoginDisconnect"
           [] state = "Configuration" -> "ConfigurationDisconnect"
           [] state = "Play" -> "PlayDisconnect")

\* kick_client: whatever becomes of the disconnect packet the task ends.
KickClient(c) ==
  /\ task[c].pc = "Kicking"
  /\ task' = [task EXCEPT ![c].pc = "Closing"]
  /\ IF task[c].client_state.state \in {"Login", "Configuration", "Play"}
     THEN Send(c, DisconnectPacket(task[c].client_state.state))
     ELSE UNCHANGED to_client
  /\ UNCHANGED << config, online, peer, to_server >>

\* A timer fires while the task waits for a packet: send_keep_alive and
\* send_action_bar write one packet, in the Play state only.
Tick(c, type) ==
  /\ task[c].pc = "Reading"
  /\ task[c].ticks < MaxTicks
  /\ \E error \in IF Gone(c) THEN {"Custom", "Disconnected"} ELSE {"None"} :
       task' = [task EXCEPT ![c].ticks = @ + 1,
                            ![c].pc = IF task[c].client_state.state = "Play"
                                      THEN AfterError(error) ELSE @]
  /\ IF task[c].client_state.state = "Play"
     THEN Send(c, Packet(type))
     ELSE UNCHANGED to_client
  /\ UNCHANGED << config, online, peer, to_server >>

KeepAliveTick(c) == task[c].timers.keep_alive /\ Tick(c, "KeepAlive")
ActionBarTick(c) == task[c].timers.action_bar /\ Tick(c, "ActionBar")

\* Mutant: the end of the stream is an error like any other.
ReadEndAgain(c) ==
  /\ task[c].pc = "Reading"
  /\ Gone(c)
  /\ to_server[c] = << >>
  /\ UNCHANGED vars

\* read_packet finds the end of the stream, or the connection reset.
ReadEnd(c) ==
  /\ task[c].pc = "Reading"
  /\ Gone(c)
  /\ to_server[c] = << >>
  /\ task' = [task EXCEPT ![c].pc = "Closing"]
  /\ UNCHANGED << config, online, peer, channels >>

\* Mutant: a failed shutdown returns at once.
ShutdownGivingUp(c) ==
  /\ task[c].pc = "Closing"
  /\ task' = [task EXCEPT ![c] =
                IF task[c].was_in_play /\ ~Gone(c)
                THEN [@ EXCEPT !.pc = "Leaving", !.timers = NoTimers]
                ELSE NewTask("Closed")]
  /\ UNCHANGED << config, online, peer, channels >>

\* client_data.shutdown(), which fails on a connection that is gone and then
\* clears no timer; after it a task that was not in Play is over.
Shutdown(c) ==
  /\ task[c].pc = "Closing"
  /\ \/ /\ task[c].was_in_play
        /\ task' = [task EXCEPT ![c].pc = "Leaving", ![c].timers = NoTimers]
     \/ /\ task[c].was_in_play /\ Gone(c)
        /\ task' = [task EXCEPT ![c].pc = "Leaving"]
     \/ /\ ~task[c].was_in_play
        /\ task' = [task EXCEPT ![c] = NewTask("Closed")]
  /\ UNCHANGED << config, online, peer, channels >>

\* server_state.write().await.decrement()
Decrement(c) ==
  /\ task[c].pc = "Leaving"
  /\ online' = online - 1
  /\ task' = [task EXCEPT ![c] = NewTask("Closed")]
  /\ UNCHANGED << config, peer, channels >>

ServerStep(c) ==
  \/ Accept(c) \/ ProcessPacket(c) \/ Increment(c) \/ WritePacket(c)
  \/ WriteFails(c) \/ FinishPacket(c) \/ FindKick(c) \/ KickClient(c)
  \/ KeepAliveTick(c) \/ ActionBarTick(c) \/ ReadEnd(c) \/ Shutdown(c)
  \/ Decrement(c)

-----------------------------------------------------------------------------
(* The client (external: the game, as the protocol prescribes it) *)

FrameAll(packets, compressed) ==
  [i \in DOMAIN packets |-> Frame(packets[i], compressed)]

Opening(handshake) ==
  IF handshake.next_state = 1
  THEN [phase |-> "Status", packet |-> Packet("StatusRequest")]
  ELSE [phase |-> "Login", packet |-> Packet("LoginStart")]

\* A new client opens a connection.
Connect(c) ==
  /\ task[c].pc = "Closed"
  /\ Gone(c)
  /\ task' = [task EXCEPT ![c].pc = "Pending"]
  /\ \E greeting \in Greetings :
       LET hello == greeting.handshake
       IN  /\ peer' = [peer EXCEPT ![c] =
                         [NoPeer EXCEPT !.phase = Opening(hello).phase,
                                        !.protocol = hello.protocol,
                                        !.forge_kind = hello.forge_kind,
                                        !.key_valid = greeting.key_valid]]
           /\ to_server' = [to_server EXCEPT ![c] =
                              FrameAll(<< hello, Opening(hello).packet >>, FALSE)]
  /\ UNCHANGED << config, online, to_client >>

\* Whether a client that follows the protocol can make sense of a packet.
Expected(p, packet) ==
  CASE p.phase = "Status" -> packet.type \in {"StatusResponse", "PongResponse"}
    [] p.phase = "Login" ->
         \/ packet.type \in {"LoginSuccess", "LoginDisconnect"}
         \/ packet.type = "SetCompression" /\ p.protocol >= V1_8
         \/ packet.type = "CustomQuery" /\ packet.step = 0 /\ p.protocol >= V1_13
         \/ /\ packet.type = "CustomQuery" /\ packet.step = p.steps + 1
            /\ ShouldReplay(p.forge_kind)
    [] p.phase = "Configuration" ->
         packet.type \in {"ConfigurationData", "FinishConfiguration",
                          "ConfigurationDisconnect"}
    [] p.phase = "Play" /\ ~p.joined -> packet.type = "Login"
    [] p.phase = "Play" /\ p.joined ->
         packet.type \in {"PlayData", "KeepAlive", "ActionBar", "PlayDisconnect"}

React(p, packet) ==
  CASE packet.type = "CustomQuery" ->
         [p EXCEPT !.steps = IF packet.step = 0 THEN @ ELSE packet.step]
    [] packet.type = "SetCompression" -> [p EXCEPT !.compressed = TRUE]
    [] packet.type = "LoginSuccess" ->
         [p EXCEPT !.profile = packet.profile,
                   !.phase = IF SupportsConfigurationState(p.protocol)
                             THEN "Configuration" ELSE "Play"]
    [] packet.type = "FinishConfiguration" -> [p EXCEPT !.phase = "Play"]
    [] packet.type = "Login" -> [p EXCEPT !.joined = TRUE]
    [] packet.type \in {"LoginDisconnect", "ConfigurationDisconnect",
                        "PlayDisconnect"} -> [p EXCEPT !.phase = "Kicked"]
    [] OTHER -> p

Replies(p, packet) ==
  CASE packet.type = "StatusResponse" -> << Packet("PingRequest") >>
    [] packet.type = "CustomQuery" ->
         << [type |-> "CustomQueryAnswer", message_id |-> packet.message_id,
             key_valid |-> p.key_valid] >>
    [] packet.type = "LoginSuccess" /\ SupportsConfigurationState(p.protocol) ->
         << Packet("LoginAcknowledged"), Packet("ConfigurationPluginMessage") >>
    [] packet.type = "FinishConfiguration" -> << Packet("AcknowledgeConfiguration") >>
    [] OTHER -> << >>

Receive(c) ==
  LET p == peer[c]
      frame == Head(to_client[c])
      understood == frame.compressed = p.compressed /\ Expected(p, frame.packet)
  IN  /\ p.phase \in {"Status", "Login", "Configuration", "Play"}
      /\ to_client[c] # << >>
      /\ peer' = [peer EXCEPT ![c] =
                    IF understood THEN React(p, frame.packet)
                    ELSE [p EXCEPT !.phase = "Error"]]
      /\ to_server' = [to_server EXCEPT ![c] =
                         IF understood
                         THEN @ \o FrameAll(Replies(p, frame.packet), p.compressed)
                         ELSE @]
      /\ to_client' = [to_client EXCEPT ![c] = Tail(@)]
      /\ UNCHANGED << config, online, task >>

\* The player moves or types a command.
SendInput(c) ==
  /\ peer[c].joined /\ peer[c].phase = "Play"
  /\ peer[c].inputs < MaxInputs
  /\ \E type \in {"Unknown", "PlayCommand"} :
       to_server' = [to_server EXCEPT
                       ![c] = Append(@, Frame(Packet(type), peer[c].compressed))]
  /\ peer' = [peer EXCEPT ![c].inputs = @ + 1]
  /\ UNCHANGED << config, online, task, to_client >>

\* The client closes its end, or its connection is lost with what it had sent.
Leave(c) ==
  /\ ~Gone(c)
  /\ peer' = [peer EXCEPT ![c] = NoPeer]
  /\ to_client' = [to_client EXCEPT ![c] = << >>]
  /\ \E left \in {<< >>, to_server[c]} :
       to_server' = [to_server EXCEPT ![c] = left]
  /\ UNCHANGED << config, online, task >>

ClientStep(c) == Connect(c) \/ Receive(c) \/ SendInput(c) \/ Leave(c)

-----------------------------------------------------------------------------
Next == \E c \in Clients : ServerStep(c) \/ ClientStep(c)

Spec == Init /\ [][Next]_vars

\* The runtime polls every task that can go on, and a client that stays reads
\* what it is sent.  Nobody has to connect, to play or to leave.
Fairness == \A c \in Clients : WF_vars(ServerStep(c)) /\ WF_vars(Receive(c))
FairSpec == Spec /\ Fairness
-----------------------------------------------------------------------------
(* Properties *)

TypeOK ==
  /\ config \in Configs
  /\ online \in Int
  /\ task \in [Clients -> Tasks]
  /\ peer \in [Clients -> Peers]
  /\ to_server \in [Clients -> Seq(Frames(ServerBound))]
  /\ to_client \in [Clients -> Seq(Frames(ClientBound))]

\* ServerState counts the connection: after increment, until decrement.
Counted(c) == task[c].was_in_play /\ task[c].pc # "Counting"
Players == {c \in Clients : Counted(c)}

\* The number of online players of the status page is the number of tasks
\* between their increment and their decrement, across failed writes, kicks,
\* reset connections and the reuse of slots (network.rs, 165-167 and 260-261).
OnlineCountExact == online = Cardinality(Players)

\* The server implements the roster of PlayerRoster.
Roster == INSTANCE PlayerRoster WITH players <- Players
ImplementsRoster == Roster!RosterSpec

\* A client that was let into the world is counted for as long as its task
\* lives: it never sees the world before the counter sees it.
JoinedAreCounted ==
  \A c \in Clients : peer[c].joined /\ task[c].pc # "Closed" => Counted(c)

\* A client that follows the protocol never receives a frame in the other
\* format, nor a packet that its phase does not know, whatever the server is
\* configured to do: batches, kicks and timers come in an order it understands.
ClientNeverConfused == \A c \in Clients : peer[c].phase # "Error"

\* The other way round: whenever the task is about to read, the next frame of
\* such a client is in the format the task reads and of a packet that is
\* decodable in the state the handlers left, or of none the registry knows.
ServerNeverConfused ==
  \A c \in Clients :
    task[c].pc = "Reading" /\ to_server[c] # << >> =>
      LET frame == Head(to_server[c])
      IN  /\ frame.compressed = task[c].compression
          /\ frame.packet.type \in Decodable(task[c].client_state.state) \cup {"Unknown"}

InWorld(c) == peer[c].phase \in {"Configuration", "Play"}

\* A Forge client the snapshot serves is let in only after every recorded step,
\* in order (login_start.rs, 26-32).
ReplayBeforeSuccess ==
  \A c \in Clients :
    InWorld(c) /\ ShouldReplay(peer[c].forge_kind) => peer[c].steps = config.fml2_steps

\* A client that is to be kicked is never let in nor counted, whatever was
\* queued for it before.
KickedNeverAdmitted ==
  \A c \in Clients : task[c].client_state.kick_message => ~InWorld(c) /\ ~Counted(c)

\* With modern forwarding a client without Forge is let in as the player the
\* proxy vouched for, and only when the proxy's signature was good.
ModernIdentity ==
  \A c \in Clients :
    InWorld(c) /\ config.forwarding = "Modern" /\ ~ShouldReplay(peer[c].forge_kind) =>
      peer[c].key_valid /\ peer[c].profile = "Forwarded"

\* The identity the client was told is the one the server keeps for it.  Legacy
\* forwarding is left out: there LoginSuccess carries the UUID of LoginStart
\* while the state keeps the forwarded one (login_start.rs, 58-59 and 139).
IdentityAgreed ==
  \A c \in Clients :
    /\ InWorld(c) /\ task[c].pc # "Closed"
    /\ config.forwarding \notin {"Legacy", "BungeeGuard"}
    => peer[c].profile = task[c].client_state.game_profile

\* While a player is served its keep-alive timer runs, and the action bar timer
\* runs exactly when it was configured for a version that shows it.  A version
\* whose world cannot be encoded loses the end of process_packet with the batch
\* (network.rs, 180): the action bar, which ACTION_BAR_PERSISTENCE_IMPLEMENTATION.md,
\* 5, keeps on every screen, is never resent, and the keep-alive stays asked for until
\* the first packet of the player that is handled to its end.
PlayersKeptAlive ==
  \A c \in Clients :
    task[c].pc = "Reading" /\ task[c].client_state.state = "Play" /\ ~Gone(c) =>
      LET cs == task[c].client_state
          timers == task[c].timers
          cut == cs.protocol_version \in config.unwritable
      IN  /\ timers.keep_alive \/ (cut /\ cs.keep_alive_enabled = "ShouldEnable")
          /\ timers.action_bar = (EnableActionBarIfNeeded(cs) /\ ~cut)

\* A task that closes on a client it decided to kick has told it so (the test at
\* handshake.rs, 269-287, and kick_client).
KickIsTold ==
  \A c \in Clients :
    /\ task[c].pc = "Closing" /\ task[c].client_state.kick_message /\ ~Gone(c)
    => \/ peer[c].phase = "Kicked"
       \/ \E i \in DOMAIN to_client[c] :
            to_client[c][i].packet.type \in {"LoginDisconnect", "ConfigurationDisconnect",
                                             "PlayDisconnect"}

\* Once a connection has an identity no later packet gives it another UUID.
IdentityNeverChanges ==
  [][\A c \in Clients :
       task[c].client_state.game_profile # "Absent" /\ task'[c].pc # "Closed" =>
         task'[c].client_state.game_profile = task[c].client_state.game_profile]_vars

\* A client that has left is forgotten: its task ends and gives its count back.
DepartedAreForgotten == \A c \in Clients : Gone(c) ~> task[c].pc = "Closed"

\* Nobody waits for ever in Login: every client that stays is let into the
\* world, kicked or cut off, through forwarding queries and Forge steps.
LoginCompletes ==
  \A c \in Clients :
    peer[c].phase = "Login" ~>
      peer[c].joined \/ peer[c].phase \in {"Kicked", "Gone"} \/ task[c].pc = "Closed"
=============================================================================
