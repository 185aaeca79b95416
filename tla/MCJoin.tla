-------------------------------- MODULE MCJoin --------------------------------
(***************************************************************************)
(* Instances of Join for TLC: sections of two blocks a side, levels of      *)
(* light up to 4, palettes of at most four blocks, data of every version,   *)
(* schematics that take every branch, and files that vary what is told.     *)
(***************************************************************************)
EXTENDS Join

(***************************************************************************)
(* Blocks, in reports of which the later ones number the states otherwise,  *)
(* and lack one and add others; no report for the other versions.           *)
(***************************************************************************)
Block(name, properties) == [name |-> name, properties |-> properties]

Air == AIR_IDENTIFIER
Stone == Block("stone", {})
Glass == Block("glass", {})
Torch == Block("torch", {})
Log(axis) == Block("log", {<<"axis", axis>>})
SignBlock == Block("sign", {<<"rotation", 0>>})
Cherry == Block("cherry", {})
Removed == Block("removed", {})

State(block, id, default) ==
  [name |-> block.name, properties |-> block.properties, id |-> id, default |-> default]

OldStates ==
  {State(Air, 0, TRUE), State(Stone, 1, TRUE), State(Torch, 2, TRUE),
   State(Log("x"), 3, FALSE), State(Log("y"), 4, TRUE), State(SignBlock, 5, TRUE),
   State(Glass, 6, TRUE)}

NewStates ==
  {State(Air, 0, TRUE), State(Stone, 1, TRUE), State(Cherry, 2, TRUE), State(Torch, 9, TRUE),
   State(Log("x"), 5, FALSE), State(Log("y"), 6, TRUE), State(Log("z"), 7, FALSE),
   State(SignBlock, 8, TRUE), State(Glass, 15, TRUE)}

MCBlocksReports ==
  <<[pvn |-> 751, states |-> OldStates], [pvn |-> 757, states |-> OldStates],
    [pvn |-> 763, states |-> NewStates], [pvn |-> 770, states |-> NewStates],
    [pvn |-> 775, states |-> NewStates]>>

MCBlockEntityTypes ==
  <<[pvn |-> 751, type_map |-> ("minecraft:chest" :> 1) @@ ("minecraft:sign" :> 7)],
    [pvn |-> 762, type_map |-> ("minecraft:chest" :> 1) @@ ("minecraft:sign" :> 8)
                                 @@ ("minecraft:hanging_sign" :> 7)]>>

MCTransparentBlocks == {"minecraft:air", "glass", "torch", "sign"}
MCLightEmittingBlocks == ("torch" :> 4) @@ ("cherry" :> 3)
MCHashMapOrder(states) == FoldSet(LAMBDA state, seq : Append(seq, state), <<>>, states)

(***************************************************************************)
(* Schematics                                                               *)
(***************************************************************************)
Lines(first) == List(<<first, Quoted(""), Quoted(""), Quoted("")>>)
PlainLines(first) == List(<<first, String(""), String(""), String("")>>)
Face(lines) == Compound([messages |-> lines, color |-> String("red"), has_glowing_text |-> Byte(1)])

ModernSign(type, pos, lines) ==
  Compound([Id |-> String(type), Pos |-> IntArray(pos), is_waxed |-> Byte(1),
            front_text |-> Face(lines), back_text |-> Face(PlainLines(String("back")))])

LegacySign(pos, text) ==
  Compound([Id |-> String("minecraft:sign"), Pos |-> IntArray(pos), GlowingText |-> Byte(0),
            Color |-> String("black"), Text1 |-> Quoted(text), Text2 |-> Quoted(""),
            Text3 |-> Quoted(""), Text4 |-> Quoted("")])

Chest(pos, items) ==
  Compound([Id |-> String("minecraft:chest"), Pos |-> IntArray(pos), Items |-> items])

SignShown(type, pos, text) == [position |-> pos, type |-> type, lines |-> <<text, "", "", "">>]
ChestShown(pos) == [position |-> pos, type |-> "minecraft:chest", lines |-> <<>>]

\* Five blocks in one section, an id of two bytes, a state without a block of
\* its own, a block nobody knows, a lamp in a cave, and data that ends early.
House ==
  [v3 |-> FALSE, width |-> 3, height |-> 3, length |-> 2, palette_max |-> 129,
   palette |-> (Air :> 0) @@ (Stone :> 1) @@ (Glass :> 2) @@ (Torch :> 3) @@ (Log("x") :> 128)
                 @@ (Removed :> 4) @@ (Block("log", {}) :> 5),
   data |-> <<1, 1, 128, 1,   0, 3, 2,
              1, 5, 1,        1, 0, 4,
              128, 1, 1>>,
   block_entities |-> <<>>,
   blocks |->
     (<<0, 0, 0>> :> Stone) @@ (<<1, 0, 0>> :> Stone) @@ (<<2, 0, 0>> :> Log("x"))
       @@ (<<1, 0, 1>> :> Torch) @@ (<<2, 0, 1>> :> Glass)
       @@ (<<0, 1, 0>> :> Stone) @@ (<<1, 1, 0>> :> Block("log", {})) @@ (<<2, 1, 0>> :> Stone)
       @@ (<<0, 1, 1>> :> Stone) @@ (<<2, 1, 1>> :> Removed)
       @@ (<<0, 2, 0>> :> Log("x")) @@ (<<1, 2, 0>> :> Stone),
   entities |-> {}, unwritable |-> {}]

\* Two columns, one of them solid below, with the signs of both formats
Shop ==
  [v3 |-> TRUE, width |-> 2, height |-> 4, length |-> 4, palette_max |-> 0,
   palette |-> (Air :> 0) @@ (Stone :> 1) @@ (SignBlock :> 2) @@ (Cherry :> 3) @@ (Log("z") :> 4),
   data |-> <<1, 1, 1, 1, 3, 4, 0, 0,   1, 1, 1, 1, 0, 0, 0, 0,
              2, 0, 0, 2, 0, 0, 2, 0,   0, 0, 0, 0, 0, 0, 0, 0>>,
   block_entities |-> <<LegacySign(<<0, 2, 0>>, "open"),
                        ModernSign("minecraft:sign", <<1, 2, 1>>, Lines(Quoted("closed"))),
                        ModernSign("minecraft:hanging_sign", <<0, 2, 3>>, PlainLines(String("pull"))),
                        Chest(<<1, 1, 3>>, List(<<>>))>>,
   blocks |->
     [c \in {<<x, y, z>> : x, y, z \in 0..1} |-> Stone]
       @@ (<<0, 0, 2>> :> Cherry) @@ (<<1, 0, 2>> :> Log("z"))
       @@ (<<0, 2, 0>> :> SignBlock) @@ (<<1, 2, 1>> :> SignBlock) @@ (<<0, 2, 3>> :> SignBlock),
   entities |-> {SignShown("minecraft:sign", <<0, 2, 0>>, "open"),
                 SignShown("minecraft:sign", <<1, 2, 1>>, "closed"),
                 SignShown("minecraft:hanging_sign", <<0, 2, 3>>, "pull"),
                 ChestShown(<<1, 1, 3>>)},
   unwritable |-> {}]

\* A chest whose list of numbers is one of types after narrowing
Cellar ==
  [v3 |-> FALSE, width |-> 1, height |-> 1, length |-> 1, palette_max |-> 1,
   palette |-> (Air :> 1) @@ (Glass :> 0), data |-> <<0>>,
   block_entities |-> <<Chest(<<0, 0, 0>>, IntArray(<<1, 300>>))>>,
   blocks |-> <<0, 0, 0>> :> Glass,
   entities |-> {ChestShown(<<0, 0, 0>>)}, unwritable |-> {<<0, 0, 0>>}]

Truncated == [Cellar EXCEPT !.data = <<129>>]

MCSchematicFiles ==
  ("house.schem" :> House) @@ ("shop.schem" :> Shop) @@ ("cellar.schem" :> Cellar)
    @@ ("truncated.schem" :> Truncated)

\* TLC's Any holds whatever there is.
MCTrees == Any

(***************************************************************************)
(* The data of the registries                                               *)
(***************************************************************************)
Number(n) == [j |-> "number", v |-> n]
Text(s) == [j |-> "string", v |-> s]
Boolean(b) == [j |-> "boolean", v |-> b]
Fraction(n) == [j |-> "fraction", single |-> FALSE, v |-> n]
Array(s) == [j |-> "array", v |-> s]
Object(f) == [j |-> "object", v |-> f]
File(rank, name, json) == [rank |-> rank, name |-> name, json |-> json]
Directory(files) == [files |-> files, tags |-> <<>>]

DimensionJson(fixed_time) ==
  Object([height |-> Number(16 * SectionSize), min_y |-> Number(0), natural |-> Boolean(TRUE),
          coordinate_scale |-> Fraction(800), fixed_time |-> Number(fixed_time)])

DimensionFiles ==
  {File(1, "overworld", DimensionJson(0)), File(3, "the_end", DimensionJson(6000)),
   File(4, "the_nether", DimensionJson(18000))}

BiomeJson == Object([downfall |-> Fraction(40), carvers |-> Array(<<Text("cave")>>),
                     effects |-> Object([colors |-> Array(<<Number(1), Number(400)>>)])])
Named(s) == Object([name |-> Text(s)])
EntryOf(name) == [is_tag |-> FALSE, name |-> name]
TagOf(name) == [is_tag |-> TRUE, name |-> name]

DamageTags ==
  [burns |-> <<EntryOf("lava"), EntryOf("fire")>>, hurts |-> <<TagOf("burns"), EntryOf("cactus")>>]

AllDirectories ==
  ("dimension_type" :> Directory(DimensionFiles))
    @@ ("worldgen/biome" :> Directory({File(1, "badlands", BiomeJson), File(2, "plains", BiomeJson),
                                       File(3, "taiga", BiomeJson)}))
    @@ ("damage_type" :> [files |-> {File(1, "cactus", Named("c")), File(2, "fire", Named("f")),
                                     File(3, "lava", Named("l"))}, tags |-> DamageTags])
    @@ ("wolf_variant" :> Directory({File(1, "pale", Named("w"))}))
    @@ ("dialog" :> [files |-> {File(1, "links", Named("d"))}, tags |-> [actions |-> <<>>]])
    @@ ("timeline" :> [files |-> {File(1, "day", Named("t")), File(2, "moon", Named("m")),
                                  File(3, "schedule", Named("s"))},
                       tags |-> [universal |-> <<EntryOf("schedule")>>,
                                 in_overworld |-> <<TagOf("universal"), EntryOf("day"), EntryOf("moon")>>,
                                 in_end |-> <<TagOf("universal")>>]])

FirstVersionOf(directory) ==
  CASE directory = "dimension_type" -> 735
    [] directory = "worldgen/biome" -> 751
    [] directory = "damage_type" -> 762
    [] directory = "wolf_variant" -> 766
    [] directory = "dialog" -> 771
    [] directory = "timeline" -> 774

\* The first one has a dimension more. No version but the last has the tags of
\* damage.
DataOf(version) ==
  [d \in {e \in DOMAIN AllDirectories : FirstVersionOf(e) <= version} |->
     CASE d = "dimension_type" /\ version = 735 ->
            Directory(DimensionFiles \cup {File(2, "overworld_caves", DimensionJson(0))})
       [] d = "damage_type" /\ version < 775 -> Directory(AllDirectories[d].files)
       [] OTHER -> AllDirectories[d]]

MCResourceData ==
  [v \in {DataVersion(p) : p \in {r \in Releases : r >= 735}} |-> DataOf(v)]

(***************************************************************************)
(* Configuration files                                                      *)
(***************************************************************************)
MCFloatWords == ("0.05" :> 5) @@ ("0" :> 0) @@ ("1.0" :> 100) @@ ("2.5" :> 250)
MCIntegerWords == ("25565" :> 25565) @@ ("0" :> 0) @@ ("65535" :> 65535) @@ ("70000" :> 70000)

MCMalformedTexts == {"<red"}

Aliases(spawn, fly, fly_speed, transfer) ==
  [spawn |-> spawn, fly |-> fly, fly_speed |-> fly_speed, transfer |-> transfer]

Enabling(section) == [enabled |-> TRUE] @@ section
Off == [enabled |-> FALSE]

\* All texts, a spawn position in a chunk below zero, and spectators
Hub ==
  [spawn_position |-> <<-1, 5, 3>>, dimension |-> "overworld", view_distance |-> 1,
   title |-> Enabling([title |-> "hello", subtitle |-> ""]),
   boss_bar |-> Enabling([title |-> "boss"]), allow_flight |-> TRUE]

\* No text at all, hardcore, and nearly no commands
Quiet ==
  [spawn_position |-> <<4, 0, -4>>, dimension |-> "nether", view_distance |-> -1,
   welcome_message |-> "", action_bar |-> "", default_game_mode |-> "survival",
   hardcore |-> TRUE, reduced_debug_info |-> TRUE, lock_time |-> TRUE, time |-> "midnight",
   tab_list |-> Off, title |-> Off, boss_bar |-> Off, boundaries |-> Off,
   commands |-> Aliases("", "wings", "", "go")]

\* Texts of one kind only, skins, and creative
Event ==
  [view_distance |-> 0, default_game_mode |-> "creative", fetch_player_skins |-> TRUE,
   hardcore |-> TRUE, player_listed |-> FALSE, action_bar |-> "soon",
   title |-> Enabling([title |-> "", subtitle |-> "now"]), boss_bar |-> Off,
   commands |-> Aliases("home", "", "speed", "")]

Building(path, position, distance) ==
  [schematic_file |-> path, spawn_position |-> position, view_distance |-> distance,
   dimension |-> "overworld", default_game_mode |-> "adventure", action_bar |-> "",
   title |-> Off, boss_bar |-> Off, tab_list |-> Off]

TooLow == [boundaries |-> Enabling([min_y |-> 10, teleport_message |-> "bottom"]),
           spawn_position |-> <<0, 9, 0>>]

MCConfigurationFiles ==
  {<<>>, Hub, Quiet, Event, TooLow, "welcome_message" :> "<red",
   Building("house.schem", <<2, 2, 0>>, 1), Building("shop.schem", <<1, 4, 1>>, 1),
   Building("cellar.schem", <<0, 1, 0>>, 1), Building("truncated.schem", <<0, 0, 0>>, 0),
   Building("missing.schem", <<0, 0, 0>>, 0)}

Player(pvn) == [pvn |-> pvn, textures |-> <<>>, uuid_is_nil |-> FALSE]

\* Every release sees a world without a schematic. A schematic is seen by those
\* with a report of its blocks, and one without.
MCPlayersOf(file) ==
  IF Parsed(file).schematic_file # ""
  THEN {Player(pvn) : pvn \in {751, 757, 762, 763, 770, 775}}
  ELSE {Player(pvn) : pvn \in Releases}
         \cup {[Player(775) EXCEPT !.uuid_is_nil = TRUE], [Player(47) EXCEPT !.textures = <<"own">>]}

NewServer == {<<>>}
FewPlayersOf(file) == {Player(pvn) : pvn \in {47, 763, 775}}

=============================================================================
