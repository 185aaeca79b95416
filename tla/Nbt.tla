--------------------------------- MODULE Nbt ---------------------------------
(***************************************************************************)
(* NBT values and their binary form (pico_libraries/pico_nbt), as far as    *)
(* packets and schematics use them.                                         *)
(*                                                                         *)
(* A value is a record of its tag and its payload: a number, a string, a    *)
(* sequence, or for a compound a function from names to values, whose order *)
(* nothing depends on. A string is the text and the number of pairs of      *)
(* quotes around it. In the binary form a value's tag is where the format   *)
(* has it: at the root, before each value of a compound, once for a list.   *)
(* Of a number's width the model keeps what tells the tags apart; numbers   *)
(* beyond 32 bits, and lengths beyond the fields that hold them, are left   *)
(* out.                                                                     *)
(***************************************************************************)
EXTENDS Integers, Sequences, FiniteSets, SequencesExt

CONSTANT Trees                  \* JSON, NBT and what is written of it, with their parts

Tag(type, payload) == [t |-> type, v |-> payload]

Byte(n) == Tag(1, n)
Short(n) == Tag(2, n)
IntTag(n) == Tag(3, n)
Long(n) == Tag(4, n)
Float(n) == Tag(5, n)
Double(n) == Tag(6, n)
ByteArray(s) == Tag(7, s)
String(s) == Tag(8, <<0, s>>)
Quoted(s) == Tag(8, <<1, s>>)
List(s) == Tag(9, s)
Compound(f) == Tag(10, f)
IntArray(s) == Tag(11, s)
LongArray(s) == Tag(12, s)

\* A function, or record, and what another has besides
f ++ g ==
    [x \in DOMAIN f \cup DOMAIN g |-> IF x \in DOMAIN f THEN f[x] ELSE g[x]]

Mapped(Op(_), s) == [i \in DOMAIN s |-> Op(s[i])]

\* from_protocol_version: the format of network NBT
NbtOptions(pvn) == [nameless_root |-> pvn >= 764, dynamic_lists |-> pvn >= 770]

\* to_value: a Value is serialized once more, without its tags: arrays of
\* numbers come out as lists.
ToValue[value \in Trees] ==
    CASE value.t = 9 -> List([i \in DOMAIN value.v |-> ToValue[value.v[i]]])
      [] value.t = 10 -> Compound([n \in DOMAIN value.v |-> ToValue[value.v[n]]])
      [] value.t = 11 -> List(Mapped(IntTag, value.v))
      [] value.t = 12 -> List(Mapped(Long, value.v))
      [] OTHER -> value

Heterogenous(list) == \E i \in DOMAIN list : list[i].t # Head(list).t

\* write_value fails on a heterogeneous list, unless the format has dynamic lists.
CanWrite(root, options) ==
    LET writable[value \in Trees] ==
          CASE value.t = 9 -> /\ Heterogenous(value.v) => options.dynamic_lists
                              /\ \A i \in DOMAIN value.v : writable[value.v[i]]
            [] value.t = 10 -> \A n \in DOMAIN value.v : writable[value.v[n]]
            [] OTHER -> TRUE
    IN  writable[root]

\* The payload of a list starts with the tag of its elements, the first one's;
\* those of a heterogeneous list are wrapped, each in a compound without a name.
WriteValue[value \in Trees] ==
    CASE value.t = 9 /\ value.v = <<>> -> [elements |-> 0, payloads |-> <<>>]
      [] value.t = 9 /\ value.v # <<>> /\ ~Heterogenous(value.v) ->
           [elements |-> Head(value.v).t, payloads |-> [i \in DOMAIN value.v |-> WriteValue[value.v[i]]]]
      [] value.t = 9 /\ value.v # <<>> /\ Heterogenous(value.v) ->
           [elements |-> 10,
            payloads |-> [i \in DOMAIN value.v |->
                            "" :> [tag |-> value.v[i].t, payload |-> WriteValue[value.v[i]]]]]
      [] value.t = 10 -> [n \in DOMAIN value.v |->
                            [tag |-> value.v[n].t, payload |-> WriteValue[value.v[n]]]]
      [] OTHER -> value.v

\* write_root, with the empty name or none
WriteRoot(value, options) ==
    [named |-> ~options.nameless_root, tag |-> value.t, payload |-> WriteValue[value]]

\* Value::encode: to_bytes_with_options. An error is UnsupportedOperation.
CanEncode(value, pvn) == CanWrite(ToValue[value], NbtOptions(pvn))
EncodeNbt(value, pvn) == WriteRoot(ToValue[value], NbtOptions(pvn))

(***************************************************************************)
(* Reading                                                                  *)
(***************************************************************************)
ReadValue[tag \in 1..12, payload \in Trees] ==
    CASE tag = 9 -> List([i \in DOMAIN payload.payloads |->
                            ReadValue[payload.elements, payload.payloads[i]]])
      [] tag = 10 -> Compound([n \in DOMAIN payload |-> ReadValue[payload[n].tag, payload[n].payload]])
      [] OTHER -> Tag(tag, payload)

\* A name where none is expected, or none where one is, leaves nothing to read.
ReadRoot(root, options) ==
    IF root.named = options.nameless_root THEN Compound(<<>>)
    ELSE ReadValue[root.tag, root.payload]

(***************************************************************************)
(* Deserializing a Value with serde: the first variant of the untagged enum *)
(* that takes what was read. Whole numbers become the narrowest that holds  *)
(* them, doubles floats, arrays lists and bytes that are text a string.     *)
(***************************************************************************)
NarrowInteger(n) ==
    CASE n \in -128..127 -> Byte(n)
      [] n \in (-32768..32767) \ (-128..127) -> Short(n)
      [] OTHER -> IntTag(n)

IsText(bytes) == \A i \in DOMAIN bytes : bytes[i] \in 0..127

Narrow[value \in Trees] ==
    CASE value.t \in {1, 2, 3, 4} -> NarrowInteger(value.v)
      [] value.t = 6 -> Float(value.v)
      [] value.t = 7 /\ IsText(value.v) -> Tag(8, <<0, value.v>>)
      [] value.t = 9 -> List([i \in DOMAIN value.v |-> Narrow[value.v[i]]])
      [] value.t = 10 -> Compound([n \in DOMAIN value.v |-> Narrow[value.v[n]]])
      [] value.t \in {11, 12} -> List(Mapped(NarrowInteger, value.v))
      [] OTHER -> value

=============================================================================
