------------------------------ MODULE ServerState ------------------------------
(***************************************************************************)
(* From the configuration file to the state of the server                   *)
(* (pico_limbo: configuration/, server/start_server.rs,                     *)
(* server_state/mod.rs), for what the join of a player depends on.          *)
(*                                                                         *)
(* A file is a function from the keys it has to their values; the tables of *)
(* the file are flattened. Texts are values; "" is the empty one.           *)
(***************************************************************************)
EXTENDS Schematic

CONSTANTS
    SchematicFiles,             \* the schematics there are, by path
    MalformedTexts              \* texts that are not MiniMessage

(***************************************************************************)
(* Sections with a mode are untagged enums: what the file says of "enabled" *)
(* picks the variant. Their defaults are values of the enum.                *)
(***************************************************************************)
EnabledSection(section) == [mode |-> "Enabled"] ++ section
DisabledSection(section) == [mode |-> "Disabled"] ++ [enabled |-> section.enabled]

MODAL_KEYS == {"boundaries", "tab_list", "boss_bar", "title"}

ParseSection(section) ==
    IF section.enabled THEN EnabledSection(section) ELSE DisabledSection(section)

\* Config::default
DEFAULT_CONFIG ==
    [welcome_message |-> "Welcome to PicoLimbo!",
     action_bar |-> "Welcome to PicoLimbo!",
     default_game_mode |-> "spectator",
     hardcore |-> FALSE,
     fetch_player_skins |-> FALSE,
     reduced_debug_info |-> FALSE,
     allow_flight |-> FALSE,
     spawn_position |-> <<0, 320, 0>>,
     dimension |-> "end",
     time |-> "day",
     view_distance |-> 2,
     schematic_file |-> "",
     lock_time |-> FALSE,
     player_listed |-> TRUE,
     commands |-> [spawn |-> "spawn", fly |-> "fly", fly_speed |-> "flyspeed",
                   transfer |-> "transfer"],
     boundaries |-> EnabledSection([enabled |-> TRUE, min_y |-> -64, teleport_message |-> "bottom"]),
     tab_list |-> EnabledSection([enabled |-> TRUE, header |-> "Welcome", footer |-> "Enjoy"]),
     boss_bar |-> EnabledSection([enabled |-> FALSE, title |-> "Welcome to PicoLimbo!"]),
     title |-> EnabledSection([enabled |-> FALSE, title |-> "Welcome!",
                               subtitle |-> "Enjoy your stay"])]

\* What is written of a configuration: the mode itself is not.
Written(config) ==
    [k \in DOMAIN config |->
       IF k \in MODAL_KEYS
       THEN [f \in DOMAIN config[k] \ {"mode"} |-> config[k][f]]
       ELSE config[k]]

Parsed(file) ==
    [k \in DOMAIN DEFAULT_CONFIG |->
       CASE k \notin DOMAIN file -> DEFAULT_CONFIG[k]
         [] k \in DOMAIN file /\ k \in MODAL_KEYS -> ParseSection(file[k])
         [] k \in DOMAIN file /\ k \notin MODAL_KEYS -> file[k]]

\* load_or_create: without a file, or with an empty one, the default
\* configuration is written and used.
LoadOrCreate(file) ==
    IF file = <<>> THEN [config |-> DEFAULT_CONFIG, file |-> Written(DEFAULT_CONFIG)]
    ELSE [config |-> Parsed(file), file |-> file]

(***************************************************************************)
(* build_state                                                              *)
(***************************************************************************)
\* A time given in ticks is taken as it is; the files modelled have names.
Time(time) ==
    CASE time = "day" -> 1000
      [] time = "noon" -> 6000
      [] time = "night" -> 13000
      [] time = "midnight" -> 18000

\* A mode is a variant of the enum: build_state looks at nothing else.
IsEnabled(section) == section.mode = "Enabled"

TextsOf(config) ==
    {config.welcome_message, config.action_bar}
      \cup UNION {{config[k][f] : f \in DOMAIN config[k] \ {"mode", "enabled", "min_y"}} :
                    k \in {m \in MODAL_KEYS : IsEnabled(config[m])}}

SpawnIsInBoundaries(config) ==
    IsEnabled(config.boundaries) => config.spawn_position[2] >= config.boundaries.min_y

\* Otherwise the server says why and stops.
CanBuild(config) ==
    /\ SpawnIsInBoundaries(config)
    /\ TextsOf(config) \cap MalformedTexts = {}
    /\ config.schematic_file # "" =>
         /\ config.schematic_file \in DOMAIN SchematicFiles
         /\ Loads(SchematicFiles[config.schematic_file])

\* A section's fields as they were given, or nothing
Given(section, fields) ==
    IF IsEnabled(section) THEN [f \in fields |-> section[f]] ELSE <<>>

BuildState(config) ==
    [welcome_message |-> config.welcome_message,
     action_bar |-> config.action_bar,
     tab_list |-> Given(config.tab_list, {"header", "footer"}),
     boss_bar |-> Given(config.boss_bar, {"title"}),
     title |-> LET title == Given(config.title, {"title", "subtitle"})
               IN  [f \in {g \in DOMAIN title : title[g] # ""} |-> title[f]],
     spawn_dimension |-> config.dimension,
     time_world |-> Time(config.time),
     lock_time |-> config.lock_time,
     game_mode |-> config.default_game_mode,
     hardcore |-> config.hardcore,
     spawn_position |-> config.spawn_position,
     view_distance |-> IF config.view_distance < 0 THEN 0 ELSE config.view_distance,
     fetch_player_skins |-> config.fetch_player_skins,
     reduced_debug_info |-> config.reduced_debug_info,
     is_player_listed |-> config.player_listed,
     allow_flight |-> config.allow_flight,
     server_commands |-> config.commands]

=============================================================================
