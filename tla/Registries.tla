------------------------------ MODULE Registries ------------------------------
(***************************************************************************)
(* The registries a client is sent: which ones a version has, the ids of    *)
(* their entries, and their encodings (pico_libraries/pico_registries,      *)
(* evaluated by the build script of pico_precomputed_registries, whose      *)
(* tables the server looks its version up in).                              *)
(*                                                                         *)
(* A directory of data is a record: its files, with the rank of each name   *)
(* in the order of names, and its tags. JSON is a record of its kind and    *)
(* its content.                                                             *)
(***************************************************************************)
EXTENDS Nbt

CONSTANT ResourceData           \* by data version, the directories by registry

(***************************************************************************)
(* json_to_nbt                                                              *)
(***************************************************************************)
IsConvertible[json \in Trees] ==
    /\ json.j # "null"
    /\ json.j = "array" => \A i \in DOMAIN json.v : IsConvertible[json.v[i]]
    /\ json.j = "object" => \A n \in DOMAIN json.v : IsConvertible[json.v[n]]

AreNumbers(jsons) == \A i \in DOMAIN jsons : jsons[i].j = "number"
NumbersOf(jsons) == [i \in DOMAIN jsons |-> jsons[i].v]

\* convert_array: whole numbers become the array of the narrowest type.
JsonToNbt[json \in Trees] ==
    CASE json.j = "boolean" -> Byte(IF json.v THEN 1 ELSE 0)
      [] json.j = "number" -> NarrowInteger(json.v)
      [] json.j = "fraction" -> IF json.single THEN Float(json.v) ELSE Double(json.v)
      [] json.j = "string" -> String(json.v)
      [] json.j = "array" /\ (json.v = <<>> \/ ~AreNumbers(json.v)) ->
           List([i \in DOMAIN json.v |-> JsonToNbt[json.v[i]]])
      [] json.j = "array" /\ json.v # <<>> /\ AreNumbers(json.v) ->
           IF \A i \in DOMAIN json.v : json.v[i].v \in -128..127
           THEN ByteArray([i \in DOMAIN json.v |-> json.v[i].v % 256])
           ELSE IntArray(NumbersOf(json.v))
      [] json.j = "object" -> Compound([n \in DOMAIN json.v |-> JsonToNbt[json.v[n]]])

(***************************************************************************)
(* Which registries there are                                               *)
(***************************************************************************)
\* RegistryKeys, with the version from which each is mandatory
ALL_REGISTRIES == <<
    [id |-> "banner_pattern", minimum_version |-> 775],
    [id |-> "cat_sound_variant", minimum_version |-> 775],
    [id |-> "cat_variant", minimum_version |-> 770],
    [id |-> "chicken_sound_variant", minimum_version |-> 775],
    [id |-> "chicken_variant", minimum_version |-> 770],
    [id |-> "cow_sound_variant", minimum_version |-> 775],
    [id |-> "cow_variant", minimum_version |-> 770],
    [id |-> "damage_type", minimum_version |-> 762],
    [id |-> "dialog", minimum_version |-> 771],
    [id |-> "dimension_type", minimum_version |-> 735],
    [id |-> "frog_variant", minimum_version |-> 770],
    [id |-> "instrument", minimum_version |-> 775],
    [id |-> "jukebox_song", minimum_version |-> 775],
    [id |-> "painting_variant", minimum_version |-> 767],
    [id |-> "pig_sound_variant", minimum_version |-> 775],
    [id |-> "pig_variant", minimum_version |-> 770],
    [id |-> "timeline", minimum_version |-> 774],
    [id |-> "trim_material", minimum_version |-> 775],
    [id |-> "wolf_sound_variant", minimum_version |-> 770],
    [id |-> "wolf_variant", minimum_version |-> 766],
    [id |-> "world_clock", minimum_version |-> 775],
    [id |-> "worldgen/biome", minimum_version |-> 751],
    [id |-> "zombie_nautilus_variant", minimum_version |-> 774]>>

\* The elements of a sequence that pass a test, in their order
Passing(seq, Test(_)) ==
    LET passing == {i \in DOMAIN seq : Test(seq[i])}
        Place(n) == CHOOSE i \in passing : Cardinality({j \in passing : j <= i}) = n
    IN  [n \in 1..Cardinality(passing) |-> seq[Place(n)]]

GetRegistryKeys(pvn) ==
    LET keys == Passing(ALL_REGISTRIES, LAMBDA k : pvn >= k.minimum_version)
    IN  [i \in DOMAIN keys |-> keys[i].id]

\* The version whose data a version takes: its own, unless the enum says another.
DataVersion(pvn) ==
    CASE pvn \in {772, 773} -> 771
      [] pvn = 765 -> 764
      [] pvn \in {760, 761} -> 759
      [] pvn = 756 -> 755
      [] pvn \in {753, 754} -> 751
      [] pvn = 736 -> 735
      [] OTHER -> pvn

(***************************************************************************)
(* Registry::load                                                           *)
(***************************************************************************)
\* Mutant: the first id is 1.
LoadEntriesFromOne(directory) ==
    LET files == SetToSortSeq(directory.files, LAMBDA a, b : a.rank < b.rank)
    IN  [i \in DOMAIN files |->
           [name |-> files[i].name, value |-> JsonToNbt[files[i].json], protocol_id |-> i]]

\* The position of a file among the names is the id of its entry.
LoadEntries(directory) ==
    LET files == SetToSortSeq(directory.files, LAMBDA a, b : a.rank < b.rank)
    IN  [i \in DOMAIN files |->
           [name |-> files[i].name, value |-> JsonToNbt[files[i].json], protocol_id |-> i - 1]]

LoadRegistry(id, directory) ==
    [id |-> id, entries |-> LoadEntries(directory), tags |-> directory.tags]

\* load_from_resource_path: a registry that does not load is skipped. A version
\* without data has none.
LoadRegistries(pvn) ==
    IF DataVersion(pvn) \notin DOMAIN ResourceData THEN <<>>
    ELSE LET data == ResourceData[DataVersion(pvn)]
             keys == {id \in ToSet(GetRegistryKeys(pvn)) :
                        id \in DOMAIN data /\ \A f \in data[id].files : IsConvertible[f.json]}
         IN  [id \in keys |-> LoadRegistry(id, data[id])]

HasEntry(manager, id, name) ==
    /\ id \in DOMAIN manager
    /\ \E i \in DOMAIN manager[id].entries : manager[id].entries[i].name = name

Entry(manager, id, name) ==
    LET entries == manager[id].entries
    IN  entries[CHOOSE i \in DOMAIN entries : entries[i].name = name]

(***************************************************************************)
(* What the tables of PrecomputedRegistries say of a version. One that does *)
(* not have it is not in the table; all dimensions are in it or none.       *)
(***************************************************************************)
Dimensions == {"overworld", "the_nether", "the_end"}

HasDimensions(manager) == \A d \in Dimensions : HasEntry(manager, "dimension_type", d)

DimensionInfo(manager, dimension) ==
    LET entry == Entry(manager, "dimension_type", dimension)
    IN  [height |-> entry.value.v["height"].v, min_y |-> entry.value.v["min_y"].v,
         protocol_id |-> entry.protocol_id]

\* get_biome_protocol_id of plains, or 1
BiomeId(manager) ==
    IF HasEntry(manager, "worldgen/biome", "plains")
    THEN Entry(manager, "worldgen/biome", "plains").protocol_id ELSE 1

\* encode_nameless_compound_to_bytes
CodecOptions(pvn) == [nameless_root |-> pvn >= 764, dynamic_lists |-> FALSE]
EncodeCompound(value, pvn) == WriteRoot(ToValue[value], CodecOptions(pvn))
CanEncodeCompound(value, pvn) == CanWrite(ToValue[value], CodecOptions(pvn))

RegistryCodecV1_16(manager) ==
    LET entries == manager["dimension_type"].entries
    IN  Compound([dimension |->
          List([i \in DOMAIN entries |->
                  Compound(("name" :> String(entries[i].name)) ++ entries[i].value.v)])])

RegistryCodecV1_16_2(manager) ==
    LET Elements(entries) ==
          List([i \in DOMAIN entries |->
                  Compound([name |-> String(entries[i].name), id |-> IntTag(i - 1),
                            element |-> entries[i].value])])
    IN  Compound([id \in DOMAIN manager |->
          Compound([type |-> String(id), value |-> Elements(manager[id].entries)])])

RegistryCodec(manager, pvn) ==
    IF pvn >= 751 THEN RegistryCodecV1_16_2(manager) ELSE RegistryCodecV1_16(manager)

HasRegistryCodec(manager, pvn) ==
    /\ pvn < 751 => "dimension_type" \in DOMAIN manager
    /\ CanEncodeCompound(RegistryCodec(manager, pvn), pvn)

DimensionCodec(manager, dimension) == Entry(manager, "dimension_type", dimension).value

HasDimensionCodec(manager, pvn) ==
    /\ HasDimensions(manager)
    /\ \A d \in Dimensions : CanEncodeCompound(DimensionCodec(manager, d), pvn)

\* get_registry_data_v1_20_5: the registries in the order of the keys
RegistryData(manager, pvn) ==
    LET keys == Passing(GetRegistryKeys(pvn), LAMBDA id : id \in DOMAIN manager)
        Entries(entries) ==
          [i \in DOMAIN entries |->
             [entry_id |-> entries[i].name,
              nbt_bytes |-> WriteRoot(ToValue[entries[i].value],
                                      [nameless_root |-> TRUE, dynamic_lists |-> TRUE])]]
    IN  [i \in DOMAIN keys |->
           [registry_id |-> keys[i], entries |-> Entries(manager[keys[i]].entries)]]

(***************************************************************************)
(* Tags: a value is an entry or, after a #, another tag.                    *)
(***************************************************************************)
IdsOf(entries, name) ==
    LET found == Passing(entries, LAMBDA e : e.name = name)
    IN  [i \in DOMAIN found |-> found[i].protocol_id]

EvaluateTag(registry, of) ==
    LET evaluated[tag \in STRING] ==
          IF tag \notin DOMAIN registry.tags THEN <<>>
          ELSE LET values == registry.tags[tag]
               IN  FlattenSeq([i \in DOMAIN values |->
                     IF values[i].is_tag THEN evaluated[values[i].name]
                     ELSE IdsOf(registry.entries, values[i].name)])
    IN  evaluated[of]

TAG_REGISTRIES == <<"banner_pattern", "damage_type", "dialog", "timeline">>

TaggedRegistries(manager) ==
    LET keys == Passing(TAG_REGISTRIES, LAMBDA id : id \in DOMAIN manager)
    IN  [i \in DOMAIN keys |->
           [registry_id |-> keys[i],
            tags |-> [t \in DOMAIN manager[keys[i]].tags |-> EvaluateTag(manager[keys[i]], t)]]]

=============================================================================
