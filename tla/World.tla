-------------------------------- MODULE World --------------------------------
(***************************************************************************)
(* The world made of a schematic when the limbo starts                      *)
(* (crates/pico_structures: world.rs, chunk_processor.rs, palette.rs,       *)
(* pack_direct.rs): sections of packed palettes, the block entities of each *)
(* column of chunks, and light.                                             *)
(***************************************************************************)
EXTENDS Schematic, Light

CONSTANTS
    SectionSize,                \* 16
    MinBits, MaxBits,           \* bits of an entry of a palette: 4 and 8
    DirectBits,                 \* bits of an entry without a palette: 15
    WordBits                    \* bits of a word of packed data: 64

ASSUME SectionAssumption == SectionSize \in Nat \ {0}

ASSUME LevelsAssumption ==
    \A name \in DOMAIN LightEmittingBlocks : LightEmittingBlocks[name] \in 0..MaxLight

S == SectionSize

\* Positions of a section, in the order y, z, x.
SectionCells ==
    [i \in 1..(S * S * S) |-> <<(i - 1) % S, (i - 1) \div (S * S), ((i - 1) \div S) % S>>]

(***************************************************************************)
(* Palettes                                                                 *)
(***************************************************************************)
BitsNeeded(n) == CHOOSE b \in 1..n : 2 ^ b >= n /\ \A c \in 1..(b - 1) : 2 ^ c < n

\* An entry does not cross words; what is left of a word is zero.
PackDirect(entries, bits) ==
    LET per_word == WordBits \div bits
        words == (Len(entries) + per_word - 1) \div per_word
        Entry(w, j) == LET i == (w - 1) * per_word + j
                       IN  IF i <= Len(entries) THEN entries[i] % 2 ^ bits ELSE 0
        Word(w) == LET first[n \in 0..per_word] ==
                         IF n = 0 THEN 0
                         ELSE first[n - 1] + Entry(w, n) * 2 ^ ((n - 1) * bits)
                   IN  first[per_word]
    IN  [w \in 1..words |-> Word(w)]

Distinct(seq) ==
    FoldLeft(LAMBDA seen, id : IF Contains(seen, id) THEN seen ELSE Append(seen, id), <<>>, seq)

\* process_section: one block, a palette in the order of first occurrence, or
\* no palette
ProcessSection(schematic, position) ==
    LET ids == [i \in DOMAIN SectionCells |->
                  BlockState(schematic, position[1] * S + SectionCells[i][1],
                             position[2] * S + SectionCells[i][2],
                             position[3] * S + SectionCells[i][3]).internal_id]
        palette == Distinct(ids)
        IndexOf(id) == (CHOOSE k \in DOMAIN palette : palette[k] = id) - 1
        needed == BitsNeeded(Len(palette))
        bits == IF needed < MinBits THEN MinBits ELSE needed
    IN  CASE Len(palette) = 1 -> [kind |-> "single", internal_id |-> palette[1]]
          [] Len(palette) > 1 /\ needed <= MaxBits ->
               [kind |-> "paletted", bits_per_entry |-> bits, internal_palette |-> palette,
                packed_data |-> PackDirect([i \in DOMAIN ids |-> IndexOf(ids[i])], bits)]
          [] Len(palette) > 1 /\ needed > MaxBits ->
               [kind |-> "direct", internal_data |-> ids]

(***************************************************************************)
(* Light                                                                    *)
(***************************************************************************)
SizeInChunks(schematic) ==
    [i \in 1..3 |-> (schematic.dimensions[i] + S - 1) \div S]

VolumeCells(size) ==
    (0..(size[1] * S - 1)) \X (0..(size[2] * S - 1)) \X (0..(size[3] * S - 1))

Transparency(schematic, size) ==
    [c \in VolumeCells(size) |-> BlockState(schematic, c[1], c[2], c[3]).transparent]

\* Full light from above, down to the first block it does not pass.
SkyLightSources(transparency) ==
    [c \in DOMAIN transparency |->
       IF \A d \in DOMAIN transparency :
             d[1] = c[1] /\ d[3] = c[3] /\ d[2] >= c[2] => transparency[d]
       THEN MaxLight ELSE 0]

BlockLightSources(schematic, size) ==
    [c \in VolumeCells(size) |-> BlockState(schematic, c[1], c[2], c[3]).light]

\* convert_to_chunk_sections: two levels to a byte, the first in the low half
LightSections(volume, size, column) ==
    LET chunk_x == column \div size[3]
        chunk_z == column % size[3]
        LevelAt(section_y, i) == volume[<<chunk_x * S + SectionCells[i][1],
                                          section_y * S + SectionCells[i][2],
                                          chunk_z * S + SectionCells[i][3]>>]
    IN  [y \in 1..size[2] |->
           [b \in 1..((S * S * S) \div 2) |->
              LevelAt(y - 1, 2 * b - 1) + 16 * LevelAt(y - 1, 2 * b)]]

Columns(size) == 0..(size[1] * size[3] - 1)

ByChunk(volume, size) == [column \in Columns(size) |-> LightSections(volume, size, column)]

(***************************************************************************)
(* The world                                                                *)
(***************************************************************************)
\* Division of integers rounds to zero.
Quotient(a, b) == IF a >= 0 THEN a \div b ELSE -((-a) \div b)

\* The block entities of each column, a set: nothing depends on their order.
BlockEntitiesByChunk(schematic, size) ==
    LET ColumnOf(e) == Quotient(e.position[3], S) + Quotient(e.position[1], S) * size[3]
    IN  [column \in Columns(size) |->
           {e \in ToSet(schematic.block_entities) : ColumnOf(e) = column}]

\* from_schematic, but for the light
WorldSections(schematic) ==
    LET size == SizeInChunks(schematic)
    IN  [i \in 0..(size[1] * size[2] * size[3] - 1) |->
           ProcessSection(schematic, <<i \div (size[2] * size[3]),
                                       (i \div size[3]) % size[2],
                                       i % size[3]>>)]

IsColumnInBounds(world, x, z) ==
    x \in 0..(world.size_in_chunks[1] - 1) /\ z \in 0..(world.size_in_chunks[3] - 1)

IsSectionInBounds(world, x, y, z) ==
    IsColumnInBounds(world, x, z) /\ y \in 0..(world.size_in_chunks[2] - 1)

ColumnIndex(world, x, z) == z + x * world.size_in_chunks[3]

\* get_section, of a section in bounds
Section(world, x, y, z) ==
    world.world_sections[z + y * world.size_in_chunks[3]
                           + x * world.size_in_chunks[2] * world.size_in_chunks[3]]

=============================================================================
