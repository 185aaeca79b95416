---------------------------------- MODULE Join ----------------------------------
(***************************************************************************)
(* The limbo from its start to what a player who joins sees of it: the      *)
(* configuration is loaded (start_server.rs), the world is made of the      *)
(* schematic and its light propagated (world.rs), and each player is sent   *)
(* the packets of the configuration and of the play state, one at a time,   *)
(* as the stream of a batch yields them (batch.rs, network.rs).             *)
(*                                                                         *)
(* The packets of the login are in Connection. Nothing one player is sent   *)
(* depends on another, so there is one player at a time.                    *)
(***************************************************************************)
EXTENDS JoinClient

CONSTANTS
    ConfigurationFiles,         \* what may be in the file when the limbo starts
    PlayersOf(_)                \* players who may join, for a file

\* The file may also be the one the limbo writes.
Files == ConfigurationFiles \cup {Written(DEFAULT_CONFIG)}

\* Values have the types of the fields of Config; heights and distances are whole.
ASSUME FilesAssumption ==
    \A file \in ConfigurationFiles :
        LET config == Parsed(file)
        IN  /\ config.spawn_position \in Int \X Int \X Int
            /\ config.view_distance \in Int
            /\ config.default_game_mode \in {"survival", "creative", "adventure", "spectator"}
            /\ {config.hardcore, config.reduced_debug_info, config.allow_flight,
                 config.lock_time} \subseteq BOOLEAN

ASSUME PlayersAssumption ==
    \A file \in Files : \A joining \in PlayersOf(file) :
        DOMAIN joining = {"pvn", "textures", "uuid_is_nil"} /\ joining.pvn \in Releases

\* Lengths are whole, every block is one of the palette, and a file lists the
\* block entities whose data cannot be written for a version that has them: none
\* from 1.21.5 on.
ASSUME SchematicsAssumption ==
    \A path \in DOMAIN SchematicFiles :
        LET file == SchematicFiles[path]
            ids == 0..BlockPaletteMax(file)
        IN  /\ {file.width, file.height, file.length} \subseteq Nat
            /\ Loads(file) =>
                 /\ IsKnownState(InternalMapping, AIR_IDENTIFIER)
                 /\ AirPaletteIndex(file) \in ids
                 /\ VarInts[file.data] \in Seq(ids)
                 /\ \A e \in ToSet(LoadSchematic(file, InternalMapping).block_entities) :
                    \A pvn \in Releases :
                       \/ e.block_entity_type \notin DOMAIN BlockEntityTypeLookup(pvn)
                       \/ CanEncode(BlockEntityNbt(e, pvn), pvn)
                       \/ pvn < 770 /\ e.position \in file.unwritable

VARIABLES
    config_file,                \* the configuration file
    stage,                      \* stopped, started, sky, block or serving
    server_state,               \* what build_state makes of the file
    world,                      \* the world of the schematic
    volumes,                    \* the light of the schematic, cell by cell
    player,                     \* the player who joins
    producers,                  \* what the batch still has to produce
    current,                    \* the producer that is being used
    client                      \* what the client has made of it

joinVars == <<config_file, stage, server_state, world, volumes, player, producers, current, client>>
vars == <<joinVars, lightVars>>

connectionVars == <<player, producers, current, client>>

NoWorld == [exists |-> FALSE]
NoPlayer == [pvn |-> 0]
Idle == [kind |-> "idle"]

IsIdle == current = Idle
BatchIsDone == IsIdle /\ producers = <<>>

NoLightVolume ==
    /\ transparent = <<>> /\ sources = <<>> /\ light_volume = <<>> /\ queue = <<>>
    /\ entry = NoEntry

ForgetLight ==
    /\ transparent' = <<>> /\ sources' = <<>> /\ light_volume' = <<>> /\ queue' = <<>>
    /\ entry' = NoEntry

SchematicFile == SchematicFiles[Parsed(config_file).schematic_file]
HasSchematic(file) == Parsed(file).schematic_file # ""

Init ==
    /\ config_file \in ConfigurationFiles
    /\ stage = "stopped"
    /\ server_state = <<>>
    /\ world = NoWorld
    /\ volumes = <<>>
    /\ player = NoPlayer
    /\ producers = <<>>
    /\ current = Idle
    /\ client = NewClient
    /\ NoLightVolume

(***************************************************************************)
(* Start                                                                    *)
(***************************************************************************)
\* A configuration that cannot be built leaves the limbo stopped.
Start ==
    /\ stage = "stopped"
    /\ LET loaded == LoadOrCreate(config_file)
       IN  /\ config_file' = loaded.file
           /\ IF CanBuild(loaded.config)
              THEN stage' = "started" /\ server_state' = BuildState(loaded.config)
              ELSE UNCHANGED <<stage, server_state>>
    /\ UNCHANGED <<world, volumes, connectionVars, lightVars>>

StartWithoutWorld ==
    /\ stage = "started"
    /\ ~HasSchematic(config_file)
    /\ stage' = "serving"
    /\ UNCHANGED <<config_file, server_state, world, volumes, connectionVars, lightVars>>

\* from_schematic, up to the light of the sky
LoadWorld ==
    /\ stage = "started"
    /\ HasSchematic(config_file)
    /\ stage' = "sky"
    /\ \E mapping \in {InternalMapping} :
       \E schematic \in {LoadSchematic(SchematicFile, mapping)} :
       \E size \in {SizeInChunks(schematic)} :
         /\ world' = [exists |-> TRUE,
                      size_in_chunks |-> size,
                      world_sections |-> WorldSections(schematic),
                      block_entities_by_chunk |-> BlockEntitiesByChunk(schematic, size),
                      sky_light_by_chunk |-> <<>>,
                      block_light_by_chunk |-> <<>>]
         /\ transparent' = Transparency(schematic, size)
         /\ volumes' = [sky |-> SkyLightSources(Transparency(schematic, size)),
                        block |-> BlockLightSources(schematic, size)]
    /\ StartPropagation(volumes'.sky)
    /\ UNCHANGED <<config_file, server_state, connectionVars>>

PropagateLight ==
    /\ stage \in {"sky", "block"}
    /\ Propagate
    /\ UNCHANGED joinVars

SkyLightIsDone ==
    /\ stage = "sky"
    /\ PropagationIsDone
    /\ stage' = "block"
    /\ volumes' = [volumes EXCEPT !.sky = light_volume]
    /\ world' = [world EXCEPT !.sky_light_by_chunk = ByChunk(light_volume, world.size_in_chunks)]
    /\ StartPropagation(volumes.block)
    /\ UNCHANGED <<config_file, server_state, connectionVars, transparent>>

BlockLightIsDone ==
    /\ stage = "block"
    /\ PropagationIsDone
    /\ stage' = "serving"
    /\ volumes' = [volumes EXCEPT !.block = light_volume]
    /\ world' = [world EXCEPT !.block_light_by_chunk = ByChunk(light_volume, world.size_in_chunks)]
    /\ ForgetLight
    /\ UNCHANGED <<config_file, server_state, connectionVars>>

(***************************************************************************)
(* A player. The batches of configuration and play are begun by handlers:   *)
(* login_acknowledged, and acknowledge_configuration or login_start.        *)
(***************************************************************************)
PlayerJoins ==
    /\ stage = "serving"
    /\ player = NoPlayer
    /\ \E joining \in PlayersOf(config_file) :
          player' = joining ++ [registries |-> LoadRegistries(joining.pvn)]
    /\ IF SupportsConfigurationState(player'.pvn)
       THEN /\ producers' = ConfigurationPackets(player')
            /\ client' = [NewClient EXCEPT !.phase = "configuration"]
       ELSE /\ producers' = PlayPackets(server_state, world, player')
            /\ UNCHANGED client
    /\ UNCHANGED <<config_file, stage, server_state, world, volumes, current, lightVars>>

AcknowledgeConfiguration ==
    /\ client.phase = "configured"
    /\ BatchIsDone
    /\ producers' = PlayPackets(server_state, world, player)
    /\ client' = [client EXCEPT !.phase = "acknowledged"]
    /\ UNCHANGED <<config_file, stage, server_state, world, volumes, player, current, lightVars>>

(***************************************************************************)
(* An iteration of poll_next, and what process_packet does with an item: it *)
(* is sent, unless it cannot be encoded, which drops the rest of the batch  *)
(* and keeps the connection.                                                *)
(***************************************************************************)
Send(packet, next_current, next_producers) ==
    IF CanEncodePacket(packet, player.pvn)
    THEN /\ client' = Receive(client, packet, player)
         /\ current' = next_current
         /\ producers' = next_producers
    ELSE /\ client' = [client EXCEPT !.phase = "lost"]
         /\ current' = Idle
         /\ producers' = <<>>

batchUnchanged == <<config_file, stage, server_state, world, volumes, player, lightVars>>

NextIs(kind) == IsIdle /\ producers # <<>> /\ Head(producers).kind = kind

PollSync ==
    /\ NextIs("sync")
    /\ Send(Head(producers).packet, Idle, Tail(producers))
    /\ UNCHANGED batchUnchanged

\* A producer of another kind becomes the current one.
PollNext ==
    /\ \E kind \in {"async", "iterator", "chunks"} : NextIs(kind)
    /\ current' = Head(producers)
    /\ producers' = Tail(producers)
    /\ UNCHANGED <<client, batchUnchanged>>

\* The session server (outside the repository) has the player's textures or
\* not, or does not answer as it should.
FutureIsReady ==
    /\ current.kind = "async"
    /\ \E fetched \in IF current.content.fetch THEN {<<>>, <<"textures">>} ELSE {<<>>} :
         LET properties == IF current.content.textures # <<>> THEN current.content.textures
                           ELSE fetched
         IN  Send(PlayerInfoUpdate(properties, current.content.listed, player.pvn),
                  Idle, producers)
    /\ UNCHANGED batchUnchanged

PollIterator ==
    /\ current.kind = "iterator"
    /\ current.items # <<>>
    /\ Send(Head(current.items), [current EXCEPT !.items = Tail(@)], producers)
    /\ UNCHANGED batchUnchanged

\* CircularChunkPacketIterator::next
PollChunks ==
    /\ current.kind = "chunks"
    /\ ~SpiralIsDone(current.chunks.spiral)
    /\ \E chunk \in {ChunkPacket(world, current.chunks, player.pvn)} :
          Send(Packet("level_chunk_with_light", chunk),
               [current EXCEPT !.chunks.spiral = StepSpiral(@)], producers)
    /\ UNCHANGED batchUnchanged

IteratorIsDone ==
    /\ \/ current.kind = "iterator" /\ current.items = <<>>
       \/ current.kind = "chunks" /\ SpiralIsDone(current.chunks.spiral)
    /\ current' = Idle
    /\ UNCHANGED <<producers, client, batchUnchanged>>

PlayerLeaves ==
    /\ player # NoPlayer
    /\ client.phase \in {"play", "lost"}
    /\ BatchIsDone
    /\ player' = NoPlayer
    /\ client' = NewClient
    /\ UNCHANGED <<config_file, stage, server_state, world, volumes, producers, current, lightVars>>

\* The limbo stops and forgets all but its configuration file.
Stop ==
    /\ stage = "serving"
    /\ player = NoPlayer
    /\ stage' = "stopped"
    /\ server_state' = <<>>
    /\ world' = NoWorld
    /\ volumes' = <<>>
    /\ ForgetLight
    /\ UNCHANGED <<config_file, connectionVars>>

Next ==
    \/ Start \/ StartWithoutWorld \/ LoadWorld
    \/ PropagateLight \/ SkyLightIsDone \/ BlockLightIsDone
    \/ PlayerJoins \/ AcknowledgeConfiguration
    \/ PollSync \/ PollNext \/ FutureIsReady \/ PollIterator \/ PollChunks \/ IteratorIsDone
    \/ PlayerLeaves \/ Stop

Spec == Init /\ [][Next]_vars

-----------------------------------------------------------------------------
(***************************************************************************)
(* Properties. What a schematic holds is said by three more fields of its   *)
(* file, which nothing of the limbo reads: the block of each cell, the      *)
(* block entities with the texts of their lines, and the positions of those *)
(* whose data no version before 1.21.5 can be told.                         *)
(***************************************************************************)
ShowsTheSchematic == world.exists /\ HasBlocksReport(player.pvn)

CellOf(i, section, column) ==
    <<column.x * S + SectionCells[i][1], (section - 1) * S + SectionCells[i][2],
      column.z * S + SectionCells[i][3]>>

IsState(state, name, properties) == state.name = name /\ state.properties = properties

\* The id a version has for a block: the state's own, stone's if the version does
\* not have the state, and air's if no version has it. Without properties the
\* default state is meant.
IdOf(block, pvn) ==
    LET states == UNION {BlocksReports[i].states : i \in DOMAIN BlocksReports}
        properties == IF block.properties = NoProperties THEN DefaultProperties(block.name)
                      ELSE block.properties
        here == {s \in BlocksReportOf(pvn).states : IsState(s, block.name, properties)}
    IN  IF /\ \E s \in states : s.name = block.name
           /\ \E s \in states : IsState(s, block.name, properties)
        THEN IF here = {} THEN FALLBACK_STONE_ID ELSE (CHOOSE s \in here : TRUE).id
        ELSE AIR_ID

ExpectedId(cell) ==
    LET blocks == SchematicFile.blocks
    IN  IF cell \in DOMAIN blocks THEN IdOf(blocks[cell], player.pvn) ELSE AIR_ID

\* A client of 1.16 or 1.17 misreads a section that is all of one block but air.
HasSolidSection(column) ==
    \E y \in 1..world.size_in_chunks[2] : \E id \in 1..(2 ^ DirectBits) :
        \A i \in DOMAIN SectionCells : ExpectedId(CellOf(i, y, column)) = id

ShownEntities(column) ==
    {e \in SchematicFile.entities :
       /\ e.position[1] \div S = column.x /\ e.position[3] \div S = column.z
       /\ e.type \in DOMAIN BlockEntityTypeLookup(player.pvn)}

\* Each column of the schematic is shown as it was built: a client reads every
\* block at its place under its version's id for it, through a palette or without
\* one, air around it, and every block entity its version has at its place and
\* with the lines of its signs, whichever version wrote the file.
WorldIsShown ==
    LET column == client.column
    IN  column.exists /\ ShowsTheSchematic /\ (player.pvn >= 757 \/ ~HasSolidSection(column)) =>
          /\ Len(column.sections) = client.login.dimension.data.v["height"].v \div S
          /\ \A y \in DOMAIN column.sections :
                /\ ~column.sections[y].misread
                /\ \A i \in DOMAIN SectionCells :
                      column.sections[y].blocks[i] = ExpectedId(CellOf(i, y, column))
          /\ column.block_entities = ShownEntities(column)

LevelAt(arrays, section, i) ==
    LET byte == arrays[section][(i + 1) \div 2]
    IN  IF i % 2 = 1 THEN byte % 16 ELSE byte \div 16

\* The light of each column is the light that was propagated, cell by cell, with
\* open sky below, above and beside the schematic; there is exactly one section
\* of it below and one above the dimension.
LightArrives ==
    LET column == client.column
    IN  column.exists /\ player.pvn >= 757 =>
          /\ Len(column.light.sky) = Len(column.sections) + 2
          /\ Len(column.light.block) = Len(column.sections) + 2
          /\ \A section \in DOMAIN column.light.sky : \A i \in DOMAIN SectionCells :
                LET cell == CellOf(i, section - 1, column)
                    lit == ShowsTheSchematic /\ cell \in DOMAIN volumes.sky
                IN  /\ LevelAt(column.light.sky, section, i)
                         = IF lit THEN volumes.sky[cell] ELSE MaxLight
                    /\ LevelAt(column.light.block, section, i)
                         = IF lit THEN volumes.block[cell] ELSE 0

Distance(a, b) ==
    LET dx == Absolute(a[1] - b[1])  dz == Absolute(a[2] - b[2])
    IN  IF dx < dz THEN dz ELSE dx

\* The chunk in which a position is
IsChunkOf(chunk, position) ==
    /\ chunk[1] * S <= position[1] /\ position[1] < (chunk[1] + 1) * S
    /\ chunk[2] * S <= position[3] /\ position[3] < (chunk[2] + 1) * S

\* The chunks around the spawn position arrive, each once, nearer ones before
\* farther ones, all of them within the view distance unless the batch is lost,
\* and only after the client has been told where its center is and to wait for
\* them.
ChunksArriveNearestFirst ==
    LET arrived == client.arrived
        configured == Parsed(config_file)
        distance == IF configured.view_distance < 0 THEN 0 ELSE configured.view_distance
    IN  /\ arrived # <<>> =>
             /\ IsChunkOf(arrived[1], configured.spawn_position)
             /\ player.pvn >= 759 => client.center = arrived[1]
             /\ player.pvn >= 765 => client.waits_for_chunks
        /\ \A i, j \in DOMAIN arrived :
             i < j => /\ arrived[i] # arrived[j]
                      /\ Distance(arrived[i], arrived[1]) <= Distance(arrived[j], arrived[1])
        /\ client.phase = "play" /\ BatchIsDone /\ player.pvn >= 735 =>
             /\ Len(arrived) = (2 * distance + 1) * (2 * distance + 1)
             /\ Distance(Last(arrived), arrived[1]) = distance

ExpectedTexts(pvn) ==
    LET s == server_state
        In(place, texts, field) == IF field \in DOMAIN texts THEN {<<place, texts[field]>>} ELSE {}
    IN  (IF s.welcome_message # "" THEN {<<"chat", s.welcome_message>>} ELSE {})
          \cup (IF pvn >= 47 /\ s.action_bar # "" THEN {<<"action_bar", s.action_bar>>} ELSE {})
          \cup (IF pvn >= 47
                THEN In("title", s.title, "title") \cup In("subtitle", s.title, "subtitle")
                       \cup In("header", s.tab_list, "header")
                       \cup In("footer", s.tab_list, "footer")
                ELSE {})
          \cup (IF pvn >= 107 THEN In("boss_bar", s.boss_bar, "title") ELSE {})

\* Every packet of a join has a number in the player's version and can be
\* encoded for it, so that all texts are shown, each where it belongs; but a
\* block entity with lists of different types loses versions before 1.21.5 the
\* rest of the batch, on a connection that goes on.
EveryPacketIsSent ==
    /\ client.phase = "lost" =>
         /\ ShowsTheSchematic
         /\ player.pvn < 770
         /\ SchematicFile.unwritable # {}
    /\ client.phase = "play" /\ BatchIsDone => client.shown = ExpectedTexts(player.pvn)

\* The names that a tag stands for in the data of a version
NamesUnder(tags, of) ==
    LET under[tag \in STRING] ==
          UNION {IF value.is_tag THEN under[value.name] ELSE {value.name} :
                   value \in ToSet(tags[tag])}
    IN  under[of]

\* Dimensions, biomes and tags are sent as numbers: to the client, which numbers
\* the entries as they arrived, they mean what they meant to the server.
IdsAgree ==
    LET data == ResourceData[DataVersion(player.pvn)]
        configured == Parsed(config_file)
        type == client.login.dimension
        JsonOf(name) == CHOOSE f \in data["dimension_type"].files : f.name = name
    IN  /\ client.login # <<>> => type.name = Identifier(configured.dimension)
        /\ client.login # <<>> /\ player.pvn >= 735 =>
             type.data.v["height"].v = JsonOf(type.name).json.v["height"].v
        /\ client.column.exists /\ player.pvn >= 751 =>
             {NameOf(client, "worldgen/biome", b) : b \in client.column.biomes} \subseteq {"plains"}
        /\ client.phase = "configured" =>
             \A r \in DOMAIN client.tags : \A t \in DOMAIN client.tags[r] :
                {NameOf(client, r, n) : n \in ToSet(client.tags[r][t])}
                  = NamesUnder(data[r].tags, t)

\* What a client is told of the game is what the file says, in every form the
\* versions have for it: game mode and hardcore, the distance it sees, reduced
\* debug information, who may fly and who does, and whether time stands still.
RulesAreKept ==
    LET configured == Parsed(config_file)
        mode == IF player.pvn <= 5 /\ configured.default_game_mode = "spectator" THEN "creative"
                ELSE configured.default_game_mode
    IN  client.phase = "play" /\ BatchIsDone =>
          /\ client.login.game_mode = GameModeValue(mode)
          /\ client.login.hardcore = configured.hardcore
          /\ player.pvn >= 477 /\ configured.view_distance >= 0 =>
               client.login.view_distance = configured.view_distance
          /\ player.pvn >= 47 =>
               client.login.reduced_debug_info = configured.reduced_debug_info
          /\ ("flying" \in client.abilities) = (mode = "spectator")
          /\ ("may_fly" \in client.abilities) = (configured.allow_flight \/ mode = "spectator")
          /\ ("creative" \in client.abilities) = (mode = "creative")
          /\ player.pvn >= 768 => client.time_advances = ~configured.lock_time

\* The line of a command that the graph lets a player enter, as the server reads it
Understood(aliases, line) ==
    LET command == Parse(aliases, line)
    IN  /\ command # Error
        /\ Head(line) = aliases[command.command]
        /\ command.command = "fly_speed" =>
             command.speed = IF Len(line) = 2 THEN FloatWords[line[2]] ELSE 5
        /\ command.command = "transfer" =>
             /\ command.host = line[2]
             /\ command.port = IF Len(line) = 3 THEN IntegerWords[line[3]] ELSE 25565

\* Every line the graph of commands lets a player enter is one that the server
\* understands, as the command and with the arguments the player meant, and every
\* command that is enabled can be entered.
OfferedIsUnderstood ==
    client.commands # <<>> =>
        LET lines == OfferedLines(client.commands)
            aliases == Parsed(config_file).commands
        IN  /\ \A line \in lines : Understood(aliases, line)
            /\ \A c \in COMMAND_NAMES :
                  Enabled(aliases[c]) /\ (c = "transfer" => player.pvn >= 766) =>
                    \E line \in lines : Head(line) = aliases[c]

\* docs/config/title.md:21: with enabled = false there is no title. The file is
\* the one on disk, which the limbo may have written itself.
DisabledTitleIsNotShown ==
    \A text \in client.shown :
        text[1] \in {"title", "subtitle"} => config_file.title.enabled

=============================================================================
