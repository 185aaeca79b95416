------------------------------ MODULE Schematic ------------------------------
(***************************************************************************)
(* A schematic as it is loaded when the limbo starts                        *)
(* (crates/pico_structures: schematic_file.rs, schematic.rs,                *)
(* internal_block_entity.rs, block_entities/).                              *)
(*                                                                         *)
(* A file is a record: whether it has version 3, its dimensions, PaletteMax *)
(* (of version 2), its palette from blocks to ids, the bytes of its block   *)
(* data and its block entities, NBT compounds.                              *)
(***************************************************************************)
EXTENDS Nbt, BlockReports

AIR_IDENTIFIER == [name |-> "minecraft:air", properties |-> NoProperties]

(***************************************************************************)
(* deserialize_var_int_array                                                *)
(***************************************************************************)
VarIntLength(bytes) ==
    CHOOSE n \in DOMAIN bytes : bytes[n] < 128 /\ \A m \in 1..(n - 1) : bytes[m] >= 128

\* Every number ends, and none has more than five bytes.
IsVarIntArray[bytes \in Seq(0..255)] ==
    bytes # <<>> =>
      /\ \E i \in DOMAIN bytes : bytes[i] < 128
      /\ VarIntLength(bytes) <= 5
      /\ IsVarIntArray[SubSeq(bytes, VarIntLength(bytes) + 1, Len(bytes))]

VarIntValue[bytes \in Seq(0..255)] ==
    IF bytes = <<>> THEN 0 ELSE (Head(bytes) % 128) + 128 * VarIntValue[Tail(bytes)]

VarInts[bytes \in Seq(0..255)] ==
    IF bytes = <<>> THEN <<>>
    ELSE LET n == VarIntLength(bytes)
         IN  <<VarIntValue[SubSeq(bytes, 1, n)]>> \o VarInts[SubSeq(bytes, n + 1, Len(bytes))]

(***************************************************************************)
(* Block entities                                                           *)
(***************************************************************************)
Field(compound, name, default) ==
    IF name \in DOMAIN compound.v THEN compound.v[name] ELSE default

\* The deserialized entity: Pos and Id are fields of their own, the rest is data.
EntityData(nbt) ==
    Narrow[Compound([n \in DOMAIN nbt.v \ {"Pos", "Id"} |-> nbt.v[n]])]

HasPosition(nbt) == Len(nbt.v["Pos"].v) = 3

RemoveStringTagQuote[value \in Trees] ==
    CASE value.t = 8 /\ value.v[1] > 0 -> Tag(8, <<value.v[1] - 1, value.v[2]>>)
      [] value.t = 9 -> List([i \in DOMAIN value.v |-> RemoveStringTagQuote[value.v[i]]])
      [] value.t = 10 -> Compound([n \in DOMAIN value.v |-> RemoveStringTagQuote[value.v[n]]])
      [] OTHER -> value

BLACK == String("black")

\* deserialize_messages: one message that is not a string and all are lost.
Messages(list) ==
    IF \A i \in DOMAIN list.v : list.v[i].t = 8 THEN list.v ELSE <<>>

SignFace(compound) ==
    [has_glowing_text |-> Field(compound, "has_glowing_text", Byte(0)).v,
     color |-> Field(compound, "color", BLACK),
     messages |-> Messages(Field(compound, "messages", List(<<>>)))]

DefaultFace == SignFace(Compound(<<>>))

LegacyFields == {"GlowingText", "Color", "Text1", "Text2", "Text3", "Text4"}

\* SignBlockEntity: legacy if it has all the fields, modern otherwise
Sign(data) ==
    IF LegacyFields \subseteq DOMAIN data.v
    THEN [modern |-> FALSE, is_waxed |-> 0,
          front_text |-> [has_glowing_text |-> data.v["GlowingText"].v, color |-> data.v["Color"],
                          messages |-> <<data.v["Text1"], data.v["Text2"],
                                         data.v["Text3"], data.v["Text4"]>>],
          back_text |-> DefaultFace]
    ELSE [modern |-> TRUE, is_waxed |-> Field(data, "is_waxed", Byte(0)).v,
          front_text |-> SignFace(Field(data, "front_text", Compound(<<>>))),
          back_text |-> SignFace(Field(data, "back_text", Compound(<<>>)))]

SignTypes == {"minecraft:sign", "minecraft:hanging_sign"}

\* The type "sign" without a namespace stands for "minecraft:sign".
BlockEntityType(id) == IF id = "sign" THEN "minecraft:sign" ELSE id

KEYS_TO_REMOVE == {"Id", "Pos", "x", "y", "z", "keepPacked"}

GenericNbt(data) == Compound([n \in DOMAIN data.v \ KEYS_TO_REMOVE |-> data.v[n]])

BlockEntityFromNbt(nbt) ==
    LET id == nbt.v["Id"].v[2]
        data == RemoveStringTagQuote[EntityData(nbt)]
        pos == nbt.v["Pos"].v
    IN  [position |-> <<pos[1], pos[2], pos[3]>>,
         block_entity_type |-> BlockEntityType(id),
         is_sign |-> id \in SignTypes,
         data |-> IF id \in SignTypes THEN Sign(data) ELSE GenericNbt(data)]

\* Component::to_json: a string in quotes
ToJson(text) == Tag(8, <<text.v[1] + 1, text.v[2]>>)

FaceValue(face, pvn) ==
    Compound([has_glowing_text |-> Byte(face.has_glowing_text),
              color |-> face.color,
              messages |-> List(IF pvn >= 770 THEN face.messages
                                ELSE Mapped(ToJson, face.messages))])

\* to_legacy keeps the front, and of its messages the first four.
LegacyText(sign, n) ==
    LET messages == sign.front_text.messages
    IN  ToJson(IF n <= Len(messages) THEN messages[n] ELSE String(""))

SignValue(sign, pvn) ==
    IF pvn >= 763
    THEN Compound([is_waxed |-> Byte(sign.is_waxed),
                   front_text |-> FaceValue(sign.front_text, pvn),
                   back_text |-> FaceValue(sign.back_text, pvn)])
    ELSE Compound([GlowingText |-> Byte(sign.front_text.has_glowing_text),
                   Color |-> sign.front_text.color,
                   Text1 |-> LegacyText(sign, 1), Text2 |-> LegacyText(sign, 2),
                   Text3 |-> LegacyText(sign, 3), Text4 |-> LegacyText(sign, 4)])

\* BlockEntity::to_nbt
ToNbt(entity, pvn) == IF entity.is_sign THEN SignValue(entity.data, pvn) ELSE entity.data

(***************************************************************************)
(* The schematic                                                            *)
(***************************************************************************)
\* get_block_palette_max
BlockPaletteMax(file) ==
    IF file.v3 THEN Cardinality(DOMAIN file.palette)
    ELSE IF file.palette_max < 0 THEN 0 ELSE file.palette_max

\* get_palette_and_air_index: air where the file has nothing for an id; unknown
\* states and ids beyond the maximum are skipped.
LoadPalette(file, mapping) ==
    LET max == BlockPaletteMax(file)
        air == ParseStateString(mapping, AIR_IDENTIFIER)
        Known(id) == {b \in DOMAIN file.palette : file.palette[b] = id /\ IsKnownState(mapping, b)}
    IN  [id \in 0..max |->
           IF Known(id) = {} THEN air ELSE ParseStateString(mapping, CHOOSE b \in Known(id) : TRUE)]

AirPaletteIndex(file) ==
    IF AIR_IDENTIFIER \in DOMAIN file.palette THEN file.palette[AIR_IDENTIFIER] ELSE 0

Loads(file) == IsVarIntArray[file.data]

LoadSchematic(file, mapping) ==
    [palette |-> LoadPalette(file, mapping),
     block_data |-> VarInts[file.data],
     dimensions |-> <<file.width, file.height, file.length>>,
     air_palette_index |-> AirPaletteIndex(file),
     block_entities |->
        LET placed == SelectSeq(file.block_entities, HasPosition)
        IN  [i \in DOMAIN placed |-> BlockEntityFromNbt(placed[i])]]

\* Mutant: x before z.
PositionToIndexXZ(schematic, x, y, z) ==
    y * schematic.dimensions[3] * schematic.dimensions[1] + x * schematic.dimensions[3] + z

PositionToIndex(schematic, x, y, z) ==
    y * schematic.dimensions[3] * schematic.dimensions[1] + z * schematic.dimensions[1] + x

IsOutOfBounds(schematic, x, y, z) ==
    ~ /\ x \in 0..(schematic.dimensions[1] - 1)
      /\ y \in 0..(schematic.dimensions[2] - 1)
      /\ z \in 0..(schematic.dimensions[3] - 1)

\* get_block_state_id. An index the palette does not have is a panic: of the
\* files modelled, none has one.
BlockState(schematic, x, y, z) ==
    LET index == PositionToIndex(schematic, x, y, z)
    IN  schematic.palette[
          IF IsOutOfBounds(schematic, x, y, z) \/ index >= Len(schematic.block_data)
          THEN schematic.air_palette_index ELSE schematic.block_data[index + 1]]

=============================================================================
