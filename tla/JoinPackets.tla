------------------------------ MODULE JoinPackets ------------------------------
(***************************************************************************)
(* The packets a player who joins is sent (pico_limbo: login_acknowledged   *)
(* and configuration; minecraft_packets: configuration/ and play/), as the  *)
(* producers of a batch, which make each packet when its turn comes.        *)
(*                                                                         *)
(* A packet is its name and the fields that its version has.                *)
(***************************************************************************)
EXTENDS Registries, Chunks, Commands, ServerState, ProtocolVersion

Packet(name, content) == [name |-> name, content |-> content]

\* Producers of a batch: one packet, one that is awaited, and those of an iterator
Sync(name, content) == <<[kind |-> "sync", packet |-> Packet(name, content)]>>
Async(content) == <<[kind |-> "async", content |-> content]>>
Iterator(items) == <<[kind |-> "iterator", items |-> items]>>
ChunkIterator(chunks) == <<[kind |-> "chunks", chunks |-> chunks]>>

\* What only some versions have: packets, or fields
When(condition, them) == IF condition THEN them ELSE <<>>

(***************************************************************************)
(* send_configuration_packets                                               *)
(***************************************************************************)
RegistryDataPacket(registry, pvn) ==
    Packet("registry_data",
           [registry_id |-> registry.registry_id,
            entries |-> [i \in DOMAIN registry.entries |->
                           [entry_id |-> registry.entries[i].entry_id,
                            data |-> When(pvn <= 769, <<registry.entries[i].nbt_bytes>>)]]])

ConfigurationPackets(player) ==
    LET pvn == player.pvn
        registries == RegistryData(player.registries, pvn)
    IN  Sync("custom_payload", "PicoLimbo")
          \o When(pvn >= 766, Sync("select_known_packs", pvn))
          \o When(pvn >= 771, Sync("update_tags", TaggedRegistries(player.registries)))
          \o (IF pvn >= 766
              THEN Iterator([i \in DOMAIN registries |-> RegistryDataPacket(registries[i], pvn)])
              ELSE Sync("registry_data",
                        EncodeCompound(RegistryCodec(player.registries, pvn), pvn)))
          \o Sync("finish_configuration", "")

(***************************************************************************)
(* build_login_packet                                                       *)
(***************************************************************************)
\* Dimension::identifier, and its number before identifiers
Identifier(dimension) ==
    CASE dimension = "overworld" -> "overworld"
      [] dimension = "nether" -> "the_nether"
      [] dimension = "end" -> "the_end"

LegacyId(dimension) ==
    CASE dimension = "overworld" -> 0
      [] dimension = "nether" -> -1
      [] dimension = "end" -> 1

GameModeValue(mode) ==
    CASE mode = "survival" -> 0
      [] mode = "creative" -> 1
      [] mode = "adventure" -> 2
      [] mode = "spectator" -> 3

\* Mutant: every version knows spectators.
GameModeAlike(state, pvn) == state.game_mode

\* Spectators are creative in versions that do not know them.
GameMode(state, pvn) ==
    IF pvn <= 5 /\ state.game_mode = "spectator" THEN "creative" ELSE state.game_mode

\* The eighth bit of the game mode said hardcore.
WithHardcoreBit(value, hardcore) == IF hardcore THEN value + 8 ELSE value

PreV1_16Data(state, pvn) ==
    [game_mode |-> WithHardcoreBit(GameModeValue(GameMode(state, pvn)), state.hardcore),
     dimension |-> LegacyId(state.spawn_dimension)]
      ++ When(pvn >= 477, [view_distance |-> state.view_distance])
      ++ When(pvn >= 47, [reduced_debug_info |-> state.reduced_debug_info])

PostV1_16Data(state, player) ==
    LET pvn == player.pvn
        identifier == Identifier(state.spawn_dimension)
    IN  [game_mode |-> WithHardcoreBit(GameModeValue(state.game_mode),
                                       state.hardcore /\ pvn <= 736),
         registry_codec |-> EncodeCompound(RegistryCodec(player.registries, pvn), pvn),
         world_name |-> identifier,
         view_distance |-> state.view_distance,
         reduced_debug_info |-> state.reduced_debug_info]
          ++ When(pvn >= 751, [is_hardcore |-> state.hardcore])
          ++ When(pvn \in 751..758,
                  [dimension_codec |->
                     EncodeCompound(DimensionCodec(player.registries, identifier), pvn)])
          ++ When(pvn >= 759, [dimension_type |-> identifier])
          ++ When(pvn < 751, [dimension_name |-> identifier])
          ++ When(pvn >= 757, [simulation_distance |-> state.view_distance])

PostV1_20_2Data(state, player) ==
    LET identifier == Identifier(state.spawn_dimension)
    IN  [game_mode |-> GameModeValue(state.game_mode),
         is_hardcore |-> state.hardcore,
         dimension_name |-> identifier,
         dimension_type |-> IF player.pvn >= 766
                            THEN DimensionInfo(player.registries, identifier).protocol_id
                            ELSE identifier,
         view_distance |-> state.view_distance,
         simulation_distance |-> state.view_distance,
         reduced_debug_info |-> state.reduced_debug_info]

LoginPacket(state, player) ==
    CASE player.pvn \in 4..578 -> PreV1_16Data(state, player.pvn)
      [] player.pvn \in 735..763 -> PostV1_16Data(state, player)
      [] player.pvn >= 764 -> PostV1_20_2Data(state, player)

\* PlayerAbilitiesPacketBuilder::build
AbilitiesFlags(flying, allow_flying, creative) ==
    (IF flying THEN 2 ELSE 0) + (IF allow_flying THEN 4 ELSE 0) + (IF creative THEN 8 ELSE 0)

PlayerAbilities(state, pvn) ==
    LET mode == GameMode(state, pvn)
        is_flying == mode = "spectator"
    IN  AbilitiesFlags(is_flying, state.allow_flight \/ is_flying, mode = "creative")

UpdateTime(state, pvn) ==
    LET increasing == ~state.lock_time
    IN  [game_time |-> state.time_world]
          ++ When(pvn < 775, [time_of_day |-> state.time_world])
          ++ When(pvn \in 768..774, [time_of_day_increasing |-> increasing])
          ++ When(pvn >= 775,
                  [clock_updates |-> [total_ticks |-> state.time_world,
                                      rate |-> IF increasing THEN 1 ELSE 0]])

(***************************************************************************)
(* Texts                                                                    *)
(***************************************************************************)
SendMessage(text, pvn) ==
    IF pvn >= 759 THEN Sync("system_chat", text)
    ELSE Sync("legacy_chat_message", [content |-> text] ++ When(pvn >= 47, [position |-> 1]))

NO_TYPE_ID == -1

LegacyTitleId(action, pvn) ==
    CASE action = "title" -> 0
      [] action = "subtitle" -> 1
      [] action = "action_bar" -> IF pvn >= 315 THEN 2 ELSE NO_TYPE_ID
      [] action = "times" -> IF pvn >= 315 THEN 3 ELSE 2

LegacySetTitle(action, text, pvn) ==
    Sync("legacy_set_title", [type_id |-> LegacyTitleId(action, pvn), text |-> text])

\* Mutant: an action for the action bar in every version with titles.
ActionBarPacketsAlike(text, pvn) ==
    IF pvn >= 755 THEN Sync("set_action_bar_text", text)
    ELSE LegacySetTitle("action_bar", text, pvn)

ActionBarPackets(text, pvn) ==
    CASE pvn >= 755 -> Sync("set_action_bar_text", text)
      [] pvn \in 315..754 -> LegacySetTitle("action_bar", text, pvn)
      [] pvn < 315 -> Sync("legacy_chat_message", [content |-> text, position |-> 2])

TitlePackets(title, pvn) ==
    LET Part(field, name) ==
          When(field \in DOMAIN title,
               IF pvn >= 755 THEN Sync(name, title[field])
               ELSE LegacySetTitle(field, title[field], pvn))
    IN  When(title # <<>>,
             (IF pvn >= 755 THEN Sync("set_titles_animation", "")
              ELSE LegacySetTitle("times", "", pvn))
               \o Part("title", "set_title_text")
               \o Part("subtitle", "set_subtitle_text"))

(***************************************************************************)
(* Skins                                                                    *)
(***************************************************************************)
\* A player's own textures are used, else they may be fetched.
PlayerInfoUpdate(properties, listed, pvn) ==
    Packet("player_info_update",
           [properties |-> properties]
             ++ When(pvn < 761, [action |-> 0, game_mode |-> 1])
             ++ When(pvn >= 761, [mask |-> 1 + 8, listed |-> listed]))

SkinPartsIndex(pvn) ==
    CASE pvn >= 773 -> 16
      [] pvn \in 755..772 -> 17
      [] pvn \in 573..754 -> 16
      [] pvn \in 477..572 -> 15
      [] pvn \in 335..476 -> 13
      [] pvn \in 107..334 -> 15
      [] pvn \in 47..106 -> 10

SkinPackets(state, player) ==
    When(~player.uuid_is_nil,
         Async([textures |-> player.textures, fetch |-> state.fetch_player_skins,
                listed |-> state.is_player_listed]))
      \o Sync("set_entity_data", SkinPartsIndex(player.pvn))

(***************************************************************************)
(* send_play_packets                                                        *)
(***************************************************************************)
Floor(position, i) == position[i] \div S
CenterChunk(state) == <<Floor(state.spawn_position, 1), Floor(state.spawn_position, 3)>>

ChunkPackets(state, world, player) ==
    LET center == CenterChunk(state)
    IN  ChunkIterator([spiral |-> NewSpiral(center[1], center[2], state.view_distance),
                       biome |-> BiomeId(player.registries),
                       dimension |-> DimensionInfo(player.registries, Identifier(state.spawn_dimension)),
                       schematic_context |-> SchematicContext(world, player.pvn)])

PlayPackets(state, world, player) ==
    LET pvn == player.pvn
    IN  Sync("login", LoginPacket(state, player))
          \o Sync("player_abilities", PlayerAbilities(state, pvn))
          \o When(pvn >= 759, Sync("set_default_spawn_position", state.spawn_position))
          \o Sync("player_position", state.spawn_position)
          \o When(pvn >= 393, Sync("commands", CommandsPacket(state.server_commands, pvn)))
          \o When(pvn \in 393..763, Sync("custom_payload", "PicoLimbo"))
          \o When(state.welcome_message # "", SendMessage(state.welcome_message, pvn))
          \o Sync("set_time", UpdateTime(state, pvn))
          \o When(pvn >= 47,
                  When(state.action_bar # "", ActionBarPackets(state.action_bar, pvn))
                    \o SkinPackets(state, player)
                    \o When(state.tab_list # <<>>, Sync("tab_list", state.tab_list))
                    \o TitlePackets(state.title, pvn))
          \o When(pvn >= 107,
                  When(state.boss_bar # <<>>, Sync("boss_event", state.boss_bar.title)))
          \o When(pvn >= 765, Sync("game_event", 13))
          \o When(pvn >= 759, Sync("set_chunk_cache_center", CenterChunk(state)))
          \o When(pvn >= 735, ChunkPackets(state, world, player))

(***************************************************************************)
(* encode_packet: the packet has to have a number in the version, and its   *)
(* content has to be something the version can be told.                     *)
(***************************************************************************)
VersionsOf(name) ==
    CASE name \in {"login", "player_abilities", "player_position", "set_time",
                   "player_info_update", "set_entity_data"} -> 4..775
      [] name \in {"tab_list"} -> 47..775
      [] name \in {"boss_event"} -> 107..775
      [] name \in {"commands", "custom_payload"} -> 393..775
      [] name = "legacy_chat_message" -> 4..758
      [] name = "legacy_set_title" -> 47..754
      [] name \in {"set_titles_animation", "set_title_text", "set_subtitle_text",
                   "set_action_bar_text"} -> 755..775
      [] name = "level_chunk_with_light" -> 735..775
      [] name = "set_default_spawn_position" -> 751..775
      [] name \in {"set_chunk_cache_center", "system_chat"} -> 759..775
      [] name \in {"registry_data", "finish_configuration"} -> 764..775
      [] name = "game_event" -> 765..775
      [] name = "select_known_packs" -> 766..775
      [] name = "update_tags" -> 767..775

CanEncodePacket(packet, pvn) ==
    /\ pvn \in VersionsOf(packet.name)
    /\ packet.name = "legacy_set_title" => packet.content.type_id # NO_TYPE_ID
    /\ packet.name = "level_chunk_with_light" => CanEncodeChunk(packet.content, pvn)

\* The tables of the build script have every version that needs them: nothing of
\* a join fails for the lack of one.
ASSUME TablesAreComplete ==
    \A pvn \in {v \in Releases : v >= 735} :
        LET manager == LoadRegistries(pvn)
        IN  /\ HasDimensions(manager)
            /\ pvn <= 765 => HasRegistryCodec(manager, pvn)
            /\ pvn \in 751..758 => HasDimensionCodec(manager, pvn)

=============================================================================
