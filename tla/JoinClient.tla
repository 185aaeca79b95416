------------------------------- MODULE JoinClient -------------------------------
(***************************************************************************)
(* What the client of a version makes of the packets of a join. The client  *)
(* is not in the repository: it reads each field the way its version does,  *)
(* in the order in which the packets arrive, and numbers registry entries   *)
(* itself. From 1.21.5 on it knows the content of the entries from its own  *)
(* pack, which is taken to be that of the server's data.                    *)
(***************************************************************************)
EXTENDS JoinPackets

NoColumn == [exists |-> FALSE]

NewClient ==
    [phase |-> "none",          \* none, configuration, configured, play or lost
     registries |-> <<>>,       \* by registry, a function from numbers to entries
     tags |-> <<>>,             \* by registry, a function from tags to numbers
     login |-> <<>>,            \* what it was told of the game
     abilities |-> {},          \* flags of the last player_abilities
     time_advances |-> TRUE,
     shown |-> {},              \* texts, with where they are shown
     commands |-> <<>>,         \* the graph of commands
     waits_for_chunks |-> FALSE,
     center |-> <<>>,           \* set_chunk_cache_center
     arrived |-> <<>>,          \* the columns that have arrived, in order
     column |-> NoColumn]       \* the last of them

(***************************************************************************)
(* Registries                                                               *)
(***************************************************************************)
Numbered(entries) == [n \in 0..(Len(entries) - 1) |-> entries[n + 1]]

\* A codec of 1.16.2 or later numbers its entries itself.
ReadCodec(codec, pvn) ==
    LET root == ReadRoot(codec, CodecOptions(pvn)).v
        WithId(elements, n) == CHOOSE e \in ToSet(elements) : e.v["id"].v = n
    IN  IF pvn < 751
        THEN [dimension_type |->
                Numbered([i \in DOMAIN root.dimension.v |->
                            [name |-> root.dimension.v[i].v["name"].v[2],
                             data |-> root.dimension.v[i]]])]
        ELSE [id \in DOMAIN root |->
                LET elements == root[id].v["value"].v
                IN  [n \in {elements[i].v["id"].v : i \in DOMAIN elements} |->
                       [name |-> WithId(elements, n).v["name"].v[2],
                        data |-> WithId(elements, n).v["element"]]]]

\* What the client's own pack says of an entry that comes without data
OwnData(id, name, player) == Entry(player.registries, id, name).value

ReadRegistry(content, player) ==
    Numbered([i \in DOMAIN content.entries |->
                [name |-> content.entries[i].entry_id,
                 data |-> IF content.entries[i].data = <<>>
                          THEN OwnData(content.registry_id, content.entries[i].entry_id, player)
                          ELSE ReadRoot(content.entries[i].data[1], [nameless_root |-> TRUE])]])

NameOf(client, id, number) ==
    IF id \in DOMAIN client.registries /\ number \in DOMAIN client.registries[id]
    THEN client.registries[id][number].name ELSE "unknown"

(***************************************************************************)
(* Login                                                                    *)
(***************************************************************************)
\* The dimension type the packet means: by name, by number, or as an element that
\* is like one of the registry
DimensionType(registries, login, pvn) ==
    LET types == registries["dimension_type"]
        Named(name) == types[CHOOSE n \in DOMAIN types : types[n].name = name]
        Alike(data) == types[CHOOSE n \in DOMAIN types : types[n].data = data]
    IN  CASE pvn < 735 -> [name |-> CHOOSE d \in Dimensions :
                                      \E c \in {"overworld", "nether", "end"} :
                                         d = Identifier(c) /\ LegacyId(c) = login.dimension]
          [] pvn \in 735..750 -> Named(login.dimension_name)
          [] pvn \in 751..758 -> Alike(ReadRoot(login.dimension_codec, CodecOptions(pvn)))
          [] pvn \in 759..765 -> Named(login.dimension_type)
          [] pvn >= 766 -> types[login.dimension_type]

HardcoreFlag(login) ==
    IF "is_hardcore" \in DOMAIN login THEN login.is_hardcore ELSE login.game_mode >= 8

ReadLogin(client, login, pvn) ==
    LET registries == IF "registry_codec" \in DOMAIN login
                      THEN ReadCodec(login.registry_codec, pvn) ELSE client.registries
    IN  [client EXCEPT
           !.phase = "play",
           !.registries = registries,
           !.login = [game_mode |-> IF "is_hardcore" \in DOMAIN login THEN login.game_mode
                                    ELSE login.game_mode % 8,
                      hardcore |-> HardcoreFlag(login),
                      dimension |-> DimensionType(registries, login, pvn),
                      view_distance |-> IF "view_distance" \in DOMAIN login
                                        THEN login.view_distance ELSE 0,
                      reduced_debug_info |-> "reduced_debug_info" \in DOMAIN login
                                             /\ login.reduced_debug_info]]

AbilitiesOf(flags) ==
    (IF (flags \div 2) % 2 = 1 THEN {"flying"} ELSE {})
      \cup (IF (flags \div 4) % 2 = 1 THEN {"may_fly"} ELSE {})
      \cup (IF (flags \div 8) % 2 = 1 THEN {"creative"} ELSE {})

TimeAdvances(time, pvn) ==
    CASE pvn < 768 -> TRUE
      [] pvn \in 768..774 -> time.time_of_day_increasing
      [] pvn >= 775 -> time.clock_updates.rate = 1

LegacyTitleAction(id, pvn) ==
    CASE id = 0 -> "title"
      [] id = 1 -> "subtitle"
      [] id = 2 -> IF pvn >= 315 THEN "action_bar" ELSE "times"
      [] id = 3 -> IF pvn >= 315 THEN "times" ELSE "hide"

LegacyChatPlace(message) ==
    IF "position" \in DOMAIN message /\ message.position = 2 THEN "action_bar" ELSE "chat"

Shown(packet, pvn) ==
    LET c == packet.content
    IN  CASE packet.name = "system_chat" -> {<<"chat", c>>}
          [] packet.name = "legacy_chat_message" -> {<<LegacyChatPlace(c), c.content>>}
          [] packet.name = "set_action_bar_text" -> {<<"action_bar", c>>}
          [] packet.name = "set_title_text" -> {<<"title", c>>}
          [] packet.name = "set_subtitle_text" -> {<<"subtitle", c>>}
          [] packet.name = "legacy_set_title" ->
               {<<LegacyTitleAction(c.type_id, pvn), c.text>>} \ {<<"times", "">>}
          [] packet.name = "boss_event" -> {<<"boss_bar", c>>}
          [] packet.name = "tab_list" -> {<<"header", c.header>>, <<"footer", c.footer>>}
          [] OTHER -> {}

(***************************************************************************)
(* Chunks                                                                   *)
(***************************************************************************)
WordsFor(count, bits) == (count + (WordBits \div bits) - 1) \div (WordBits \div bits)

Unpacked(words, bits, count) ==
    LET per_word == WordBits \div bits
    IN  [i \in 1..count |->
           (words[((i - 1) \div per_word) + 1] \div 2 ^ (((i - 1) % per_word) * bits)) % 2 ^ bits]

After(tokens, n) == SubSeq(tokens, n + 1, Len(tokens))

Container(values, rest) == [misread |-> FALSE, values |-> values, rest |-> rest]
Misread == [misread |-> TRUE, values |-> <<>>, rest |-> <<>>]

\* No bits are one value, or up to 1.17 a palette: empty if the value is 0, which
\* is all air, and else not what was written. Up to 1.21.4 words have a length.
ReadContainer(tokens, count, pvn) ==
    LET bits == Head(tokens)
        length == IF pvn <= 769 THEN 1 ELSE 0
        words == WordsFor(count, bits)
        palette == SubSeq(tokens, 3, 2 + tokens[2])
        packed == After(tokens, 2 + tokens[2] + length)
    IN  CASE bits = 0 /\ pvn >= 757 -> Container(Repeated(tokens[2], count), After(tokens, 2 + length))
          [] bits = 0 /\ pvn < 757 -> IF tokens[2] = 0 THEN Container(Repeated(AIR_ID, count), After(tokens, 3))
                                      ELSE Misread
          [] bits \in 1..MaxBits ->
               LET indexes == Unpacked(packed, bits, count)
               IN  Container([i \in 1..count |-> palette[indexes[i] + 1]], After(packed, words))
          [] bits > MaxBits ->
               LET direct == After(tokens, 1 + length)
               IN  Container(Unpacked(direct, bits, count), After(direct, words))

SectionStart(pvn) == IF pvn >= 775 THEN 2 ELSE 1

\* A section: its blocks in the order of SectionCells and its biome. One that is
\* shorter or longer than it says shifts those after it.
ReadSection(tokens, pvn) ==
    LET blocks == ReadContainer(After(tokens, SectionStart(pvn)), S * S * S, pvn)
        biome == IF pvn >= 757 /\ ~blocks.misread THEN ReadContainer(blocks.rest, 1, pvn)
                 ELSE Container(<<>>, blocks.rest)
    IN  [misread |-> blocks.misread \/ biome.rest # <<>>,
         blocks |-> blocks.values, biomes |-> ToSet(biome.values)]

\* From 1.21.5 on the lines of a sign are text, before that JSON.
LineShown(value, pvn) ==
    IF value.t = 8 /\ value.v[1] = (IF pvn >= 770 THEN 0 ELSE 1) THEN value.v[2] ELSE "garbled"

LinesShown(nbt, pvn) ==
    LET messages == IF pvn >= 763
                    THEN IF "front_text" \in DOMAIN nbt.v
                         THEN nbt.v["front_text"].v["messages"].v ELSE <<>>
                    ELSE SelectSeq([i \in 1..4 |-> Field(nbt, <<"Text1", "Text2", "Text3", "Text4">>[i],
                                                         Byte(0))],
                                   LAMBDA value : value.t = 8)
    IN  [i \in DOMAIN messages |-> LineShown(messages[i], pvn)]

TypeNamed(number, pvn) ==
    LET types == BlockEntityTypeLookup(pvn)
    IN  CHOOSE t \in DOMAIN types : types[t] = number

ReadBlockEntity(entity, x, z, pvn) ==
    LET nbt == ReadRoot(EncodeNbt(entity.nbt, pvn), NbtOptions(pvn))
    IN  IF pvn >= 757
        THEN [position |-> <<(x * S) + (entity.packed_xz \div S), entity.y,
                             (z * S) + (entity.packed_xz % S)>>,
              type |-> TypeNamed(entity.type, pvn), lines |-> LinesShown(nbt, pvn)]
        ELSE [position |-> <<nbt.v["x"].v, nbt.v["y"].v, nbt.v["z"].v>>,
              type |-> nbt.v["id"].v[2], lines |-> LinesShown(nbt, pvn)]

\* Up to 1.17 the sections are those of the mask.
SectionsIn(chunk, height, pvn) ==
    IF pvn >= 757 THEN height \div S ELSE Cardinality(chunk.bit_mask)

ReadColumn(chunk, height, pvn) ==
    LET sections == [i \in 1..SectionsIn(chunk, height, pvn) |-> ReadSection(chunk.data[i], pvn)]
    IN  [exists |-> TRUE, x |-> chunk.chunk_x, z |-> chunk.chunk_z,
         sections |-> sections,
         biomes |-> ToSet(chunk.biomes) \cup
                    UNION {sections[i].biomes : i \in DOMAIN sections},
         block_entities |-> {ReadBlockEntity(e, chunk.chunk_x, chunk.chunk_z, pvn) :
                              e \in chunk.block_entities},
         light |-> IF pvn >= 757 THEN chunk.light ELSE <<>>]

ReceiveChunk(client, chunk, pvn) ==
    [client EXCEPT !.arrived = Append(@, <<chunk.chunk_x, chunk.chunk_z>>),
                   !.column = ReadColumn(chunk, client.login.dimension.data.v["height"].v, pvn)]

(***************************************************************************)
(* A packet                                                                 *)
(***************************************************************************)
Receive(client, packet, player) ==
    LET c == packet.content
        pvn == player.pvn
    IN  CASE packet.name = "registry_data" ->
               [client EXCEPT !.registries =
                  IF pvn >= 766 THEN (c.registry_id :> ReadRegistry(c, player)) ++ @
                  ELSE ReadCodec(c, pvn)]
          [] packet.name = "update_tags" ->
               [client EXCEPT !.tags = [r \in {c[i].registry_id : i \in DOMAIN c} |->
                  c[CHOOSE i \in DOMAIN c : c[i].registry_id = r].tags]]
          [] packet.name = "finish_configuration" -> [client EXCEPT !.phase = "configured"]
          [] packet.name = "login" -> ReadLogin(client, c, pvn)
          [] packet.name = "player_abilities" -> [client EXCEPT !.abilities = AbilitiesOf(c)]
          [] packet.name = "set_time" -> [client EXCEPT !.time_advances = TimeAdvances(c, pvn)]
          [] packet.name = "commands" -> [client EXCEPT !.commands = c]
          [] packet.name = "game_event" -> [client EXCEPT !.waits_for_chunks = TRUE]
          [] packet.name = "set_chunk_cache_center" -> [client EXCEPT !.center = c]
          [] packet.name = "level_chunk_with_light" -> ReceiveChunk(client, c, pvn)
          [] OTHER -> [client EXCEPT !.shown = @ \cup Shown(packet, pvn)]

=============================================================================
