-------------------------------- MODULE Chunks --------------------------------
(***************************************************************************)
(* The chunks a client is sent (minecraft_packets: chunk_data.rs,           *)
(* chunk_section.rs, palette_container.rs, light_data.rs,                   *)
(* chunk_data_and_update_light_packet.rs) and the order in which they are   *)
(* (pico_limbo: send_chunks_circularly.rs).                                 *)
(*                                                                         *)
(* A chunk packet is a record of the fields its version has. A section is a *)
(* sequence of numbers that the client takes apart.                         *)
(***************************************************************************)
EXTENDS World

Repeated(x, n) == [i \in 1..n |-> x]

\* Light sections that the sky fills and that no block lights.
FullLight == Repeated(MaxLight + 16 * MaxLight, (S * S * S) \div 2)
NoLight == Repeated(0, (S * S * S) \div 2)

(***************************************************************************)
(* Sections. From 1.21.5 on packed data has no length, from 1.18 on biomes  *)
(* belong to the section, from 26.1 on there is a count of fluids.          *)
(***************************************************************************)
SingleValued(value, pvn) == <<0, value>> \o (IF pvn <= 769 THEN <<0>> ELSE <<>>)

PackedData(words, pvn) == IF pvn >= 770 THEN words ELSE <<Len(words)>> \o words

AIR_ID == 0

\* PaletteContainer::from_palette, encoded
BlockStates(palette, id_mapping, pvn) ==
    LET MapId(id) == IF id \in DOMAIN id_mapping THEN id_mapping[id] ELSE AIR_ID
    IN  CASE palette.kind = "single" -> SingleValued(MapId(palette.internal_id), pvn)
          [] palette.kind = "paletted" ->
               <<palette.bits_per_entry, Len(palette.internal_palette)>>
                 \o Mapped(MapId, palette.internal_palette)
                 \o PackedData(palette.packed_data, pvn)
          [] palette.kind = "direct" ->
               <<DirectBits>>
                 \o PackedData(PackDirect(Mapped(MapId, palette.internal_data), DirectBits), pvn)

ChunkSection(block_count, block_states, biome, pvn) ==
    <<block_count>> \o (IF pvn >= 775 THEN <<0>> ELSE <<>>)
      \o block_states
      \o (IF pvn >= 757 THEN SingleValued(biome, pvn) ELSE <<>>)

VoidSection(biome, pvn) == ChunkSection(0, SingleValued(AIR_ID, pvn), biome, pvn)

SchematicSection(world, id_mapping, x, y, z, biome, pvn) ==
    IF IsSectionInBounds(world, x, y, z)
    THEN ChunkSection(S * S * S, BlockStates(Section(world, x, y, z), id_mapping, pvn), biome, pvn)
    ELSE VoidSection(biome, pvn)

Absolute(n) == IF n < 0 THEN -n ELSE n

\* The sections of a dimension that are below zero come first.
SectionsFromSchematic(world, id_mapping, x, z, biome, dimension, pvn) ==
    LET negative == Absolute(dimension.min_y) \div S
        sections == dimension.height \div S
    IN  [i \in 1..sections |->
          SchematicSection(world, id_mapping, x, i - 1 - negative, z, biome, pvn)]

(***************************************************************************)
(* Block entities. From 1.18 on they have a position within the chunk and   *)
(* a type; a version without the type is not sent the entity.               *)
(***************************************************************************)
PackedXZ(x, z) == (x % S) * S + (z % S)

EntitiesOf(world, x, z, pvn) ==
    IF IsColumnInBounds(world, x, z)
    THEN {e \in world.block_entities_by_chunk[ColumnIndex(world, x, z)] :
            e.block_entity_type \in DOMAIN BlockEntityTypeLookup(pvn)}
    ELSE {}

LegacyBlockEntity(e, pvn) ==
    Compound(ToValue[ToNbt(e, pvn)].v ++
             [id |-> String(e.block_entity_type), x |-> IntTag(e.position[1]),
              y |-> IntTag(e.position[2]), z |-> IntTag(e.position[3])])

BlockEntityNbt(e, pvn) == IF pvn >= 757 THEN ToNbt(e, pvn) ELSE LegacyBlockEntity(e, pvn)

ChunkBlockEntity(e, pvn) ==
    [nbt |-> BlockEntityNbt(e, pvn)]
      ++ (IF pvn >= 757
          THEN [packed_xz |-> PackedXZ(e.position[1], e.position[3]),
                y |-> e.position[2],
                type |-> BlockEntityTypeLookup(pvn)[e.block_entity_type]]
          ELSE <<>>)

(***************************************************************************)
(* Light: one section below, those of the schematic, at least one above.    *)
(***************************************************************************)
LightSectionCount(dimension) == dimension.height \div S + 2

\* Mutant: no section below the first.
LightArraysFromZero(sections, outside, dimension) ==
    sections \o Repeated(outside, LightSectionCount(dimension) - Len(sections))

LightArrays(sections, outside, dimension) ==
    LET given == <<outside>> \o sections \o <<outside>>
        missing == LightSectionCount(dimension) - Len(given)
    IN  given \o Repeated(outside, IF missing > 0 THEN missing ELSE 0)

LightData(world, x, z, dimension) ==
    IF IsColumnInBounds(world, x, z)
    THEN LET column == ColumnIndex(world, x, z)
         IN  [sky |-> LightArrays(world.sky_light_by_chunk[column], FullLight, dimension),
              block |-> LightArrays(world.block_light_by_chunk[column], NoLight, dimension)]
    ELSE [sky |-> Repeated(FullLight, LightSectionCount(dimension)),
          block |-> Repeated(NoLight, LightSectionCount(dimension))]

VoidLight(dimension) ==
    [sky |-> Repeated(FullLight, LightSectionCount(dimension)),
     block |-> Repeated(NoLight, LightSectionCount(dimension))]

(***************************************************************************)
(* Packets. Up to 1.17 a mask says which sections there are: all sixteen of *)
(* a schematic, none of a void chunk, whose data has them nevertheless.     *)
(***************************************************************************)
HeightMaps(pvn) ==
    IF pvn >= 770 THEN <<>>
    ELSE <<Compound([MOTION_BLOCKING |-> LongArray(<<0, 0>>)])>>

AllSectionsMask == 0..15

\* The array of biomes of the versions before 1.18
Biomes(biome, pvn) == IF pvn < 757 THEN <<biome>> ELSE <<>>

VoidChunk(x, z, biome, dimension, pvn) ==
    [chunk_x |-> x, chunk_z |-> z,
     bit_mask |-> {},
     height_maps |-> HeightMaps(pvn),
     biomes |-> Biomes(biome, pvn),
     data |-> Repeated(VoidSection(biome, pvn), dimension.height \div S),
     block_entities |-> {},
     light |-> VoidLight(dimension)]

SchematicChunk(world, id_mapping, x, z, biome, dimension, pvn) ==
    [chunk_x |-> x, chunk_z |-> z,
     bit_mask |-> AllSectionsMask,
     height_maps |-> HeightMaps(pvn),
     biomes |-> Biomes(biome, pvn),
     data |-> SectionsFromSchematic(world, id_mapping, x, z, biome, dimension, pvn),
     block_entities |-> {ChunkBlockEntity(e, pvn) : e \in EntitiesOf(world, x, z, pvn)},
     light |-> LightData(world, x, z, dimension)]

\* Every block entity of a column has to be encodable.
CanEncodeChunk(chunk, pvn) ==
    \A entity \in chunk.block_entities : CanEncode(entity.nbt, pvn)

(***************************************************************************)
(* SpiralIterator                                                           *)
(***************************************************************************)
Directions == <<[x |-> 1, z |-> 0], [x |-> 0, z |-> -1], [x |-> -1, z |-> 0], [x |-> 0, z |-> 1]>>

NewSpiral(x, z, radius) ==
    [center |-> <<x, z>>, current |-> <<x, z>>, direction |-> 1, leg_length |-> 1,
     steps_remaining_in_leg |-> 1, grow_next_leg |-> FALSE, max_radius |-> radius]

SpiralIsDone(spiral) ==
    \E i \in 1..2 : Absolute(spiral.current[i] - spiral.center[i]) > spiral.max_radius

\* Mutant: every leg is longer than the one before.
StepSpiralWide(spiral) ==
    LET step == Directions[spiral.direction]
        next == [spiral EXCEPT !.current = <<@[1] + step.x, @[2] + step.z>>]
    IN  IF spiral.steps_remaining_in_leg > 1
        THEN [next EXCEPT !.steps_remaining_in_leg = @ - 1]
        ELSE [next EXCEPT !.direction = (@ % 4) + 1, !.leg_length = @ + 1,
                          !.steps_remaining_in_leg = spiral.leg_length + 1]

StepSpiral(spiral) ==
    LET step == Directions[spiral.direction]
        next == [spiral EXCEPT !.current = <<@[1] + step.x, @[2] + step.z>>]
        leg == IF spiral.grow_next_leg THEN spiral.leg_length + 1 ELSE spiral.leg_length
    IN  IF spiral.steps_remaining_in_leg > 1
        THEN [next EXCEPT !.steps_remaining_in_leg = @ - 1]
        ELSE [next EXCEPT !.direction = (@ % 4) + 1, !.leg_length = leg,
                          !.steps_remaining_in_leg = leg, !.grow_next_leg = ~@]

\* CircularChunkPacketIterator: the schematic, if there is one and the version
\* has a report of its blocks, with the ids of the version
SchematicContext(world, pvn) ==
    IF world.exists /\ HasBlocksReport(pvn) THEN <<ReportMapping[pvn]>> ELSE <<>>

ChunkPacket(world, chunks, pvn) ==
    LET x == chunks.spiral.current[1]
        z == chunks.spiral.current[2]
    IN  IF chunks.schematic_context # <<>>
        THEN SchematicChunk(world, Head(chunks.schematic_context), x, z, chunks.biome,
                            chunks.dimension, pvn)
        ELSE VoidChunk(x, z, chunks.biome, chunks.dimension, pvn)

=============================================================================
