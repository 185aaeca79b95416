--------------------------- MODULE PacketFraming ---------------------------
(***************************************************************************)
(* PacketStream on the byte stream of one direction of a connection: a     *)
(* peer writes frames, the bytes arrive one by one, and the task of the    *)
(* connection reads them back into packets (crates/net).                   *)
(*                                                                         *)
(* A byte is a digit and a continuation bit, so that every byte can be     *)
(* taken for a part of a VarInt: 128 digits and VarInts of 5 bytes in the  *)
(* code, fewer here.  Deflate is any length-preserving bijection on        *)
(* payloads: the reversal.                                                 *)
(***************************************************************************)
EXTENDS Naturals, Sequences, SequencesExt

CONSTANTS
  Base,           \* digits of a VarInt byte
  VarIntBytes,    \* bytes of the longest VarInt
  MaximumLength,  \* MAXIMUM_PACKET_LENGTH
  Thresholds,     \* compression thresholds, or NoCompression
  NoCompression,
  Payloads,       \* packets written, as byte sequences
  MaxFrames       \* bound: frames written

Bytes == [digit : 0 .. Base - 1, more : BOOLEAN]

ASSUME FramingAssumption ==
  /\ Base \in Nat \ {0, 1} /\ VarIntBytes \in Nat \ {0}
  /\ MaximumLength \in Nat /\ Thresholds \subseteq Nat \cup {NoCompression}
  /\ Payloads \subseteq Seq(Bytes) \ {<< >>}
  /\ MaxFrames \in Nat

VARIABLES
  threshold,    \* compression_settings, at both ends
  wire,         \* bytes written and not read
  written,      \* packets written so far
  pc,           \* where read_packet is: not called, in the length, in the body
  var_int_buf,  \* bytes of the length read so far
  data,         \* bytes of the body read so far
  results,      \* what read_packet has returned: packets and errors
  torn          \* history: a call was dropped in the middle of a frame

reader_vars == << pc, var_int_buf, data, results >>
vars == << threshold, wire, written, reader_vars, torn >>

-----------------------------------------------------------------------------
(* VarInts, from the least significant digit *)

ToVarInt[n \in Nat] ==
  IF n < Base THEN << [digit |-> n, more |-> FALSE] >>
  ELSE << [digit |-> n % Base, more |-> TRUE] >> \o ToVarInt[n \div Base]

VarIntValue[bytes \in Seq(Bytes)] ==
  IF bytes = << >> THEN 0
  ELSE Head(bytes).digit + Base * VarIntValue[Tail(bytes)]

\* The VarInt at the head of a sequence of bytes: how many bytes it takes, 0 for
\* a sequence too short or a VarInt too long.
VarIntSize(bytes) ==
  LET ends == {n \in 1 .. VarIntBytes : n <= Len(bytes) /\ ~bytes[n].more}
  IN  IF ends = {} THEN 0 ELSE CHOOSE n \in ends : \A m \in ends : n <= m

Deflate(payload) == Reverse(payload)
Inflate(payload) == Reverse(payload)

-----------------------------------------------------------------------------
(* write_packet *)

\* Mutant: a compressed body is announced as a plain one.
BodyUnannounced(payload) ==
  IF threshold = NoCompression THEN payload
  ELSE ToVarInt[0] \o (IF Len(payload) >= threshold THEN Deflate(payload) ELSE payload)

Body(payload) ==
  IF threshold = NoCompression THEN payload
  ELSE IF Len(payload) >= threshold
  THEN ToVarInt[Len(payload)] \o Deflate(payload)
  ELSE ToVarInt[0] \o payload

\* Only the uncompressed format is checked against the maximum.
Writable(payload) == threshold = NoCompression => Len(payload) <= MaximumLength

WritePacket ==
  /\ Len(written) < MaxFrames
  /\ \E payload \in Payloads :
       /\ Writable(payload)
       /\ wire' = wire \o ToVarInt[Len(Body(payload))] \o Body(payload)
       /\ written' = Append(written, payload)
  /\ UNCHANGED << threshold, reader_vars, torn >>

\* What is written can be read: the longest length has a VarInt, and a packet that
\* is compressed has room for both of its lengths (only a packet in the plain
\* format is checked when it is written).
FramesFit ==
  /\ Len(ToVarInt[MaximumLength]) <= VarIntBytes
  /\ \A p \in Payloads :
       Thresholds # {NoCompression} => Len(ToVarInt[Len(p)]) + Len(p) <= MaximumLength

-----------------------------------------------------------------------------
(* read_packet *)

Return(result) ==
  /\ results' = Append(results, result)
  /\ pc' = "Called"
  /\ var_int_buf' = << >>
  /\ data' = << >>

Error(reason) == [error |-> reason, payload |-> << >>]
Success(payload) == [error |-> "None", payload |-> payload]

\* read_and_validate_packet_length: one byte of the length.
ReadLength ==
  LET buf == Append(var_int_buf, Head(wire))
  IN  /\ pc = "Called"
      /\ wire # << >>
      /\ wire' = Tail(wire)
      /\ IF VarIntSize(buf) = 0
         THEN IF Len(buf) < VarIntBytes
              THEN /\ var_int_buf' = buf
                   /\ UNCHANGED << pc, data, results >>
              ELSE Return(Error("LengthParse"))
         ELSE IF VarIntValue[buf] > MaximumLength
         THEN Return(Error("PacketTooLarge"))
         ELSE IF VarIntValue[buf] = 0
         THEN Return(Error("ZeroLengthPacket"))
         ELSE /\ var_int_buf' = buf
              /\ pc' = "Body"
              /\ UNCHANGED << data, results >>
      /\ UNCHANGED << threshold, written, torn >>

\* What read_packet makes of a whole body.
Decode(body) ==
  IF threshold = NoCompression THEN Success(body)
  ELSE LET size == VarIntSize(body)
           rest == SubSeq(body, size + 1, Len(body))
           data_length == VarIntValue[SubSeq(body, 1, size)]
       IN  IF size = 0 THEN Error("BinaryReader")
           ELSE IF data_length > 0 /\ data_length # Len(Inflate(rest))
           THEN Error("DecompressionSizeMismatch")
           ELSE IF rest = << >> THEN Error("MissingPacketId")
           ELSE Success(IF data_length > 0 THEN Inflate(rest) ELSE rest)

\* Mutant: one byte too many.
ReadBodyLong ==
  /\ pc = "Body"
  /\ wire # << >>
  /\ wire' = Tail(wire)
  /\ IF Len(data) < VarIntValue[var_int_buf]
     THEN /\ data' = Append(data, Head(wire))
          /\ UNCHANGED << pc, var_int_buf, results >>
     ELSE Return(Decode(Append(data, Head(wire))))
  /\ UNCHANGED << threshold, written, torn >>

\* read_exact of the body: one byte of it.
ReadBody ==
  /\ pc = "Body"
  /\ wire # << >>
  /\ wire' = Tail(wire)
  /\ IF Len(data) + 1 < VarIntValue[var_int_buf]
     THEN /\ data' = Append(data, Head(wire))
          /\ UNCHANGED << pc, var_int_buf, results >>
     ELSE Return(Decode(Append(data, Head(wire))))
  /\ UNCHANGED << threshold, written, torn >>

\* A timer wins the select! of read: the future of read_packet is dropped with
\* the bytes it holds, and the next turn of the loop calls read_packet afresh.
TimerWins ==
  /\ torn' = (torn \/ var_int_buf # << >>)
  /\ pc' = "Called"
  /\ var_int_buf' = << >>
  /\ data' = << >>
  /\ UNCHANGED << threshold, wire, written, results >>

-----------------------------------------------------------------------------
Init ==
  /\ threshold \in Thresholds /\ torn = FALSE
  /\ wire = << >> /\ written = << >> /\ results = << >>
  /\ pc = "Called" /\ var_int_buf = << >> /\ data = << >>

Read == ReadLength \/ ReadBody
Next == WritePacket \/ Read \/ TimerWins
Spec == Init /\ [][Next]_vars
FairSpec == Spec /\ WF_vars(Read)

-----------------------------------------------------------------------------
(* Properties *)

\* read_packet returns the packets that were written, in order and unchanged, in
\* either format and across timers that fire between two frames.
PacketsInOrder ==
  ~torn => /\ Len(results) <= Len(written)
           /\ \A i \in DOMAIN results : results[i] = Success(written[i])

\* What read_packet holds and what is still on the wire are exactly the frames
\* of the packets not yet returned: nothing is skipped, nothing read twice.
NothingLost ==
  LET frame(i) == ToVarInt[Len(Body(written[i]))] \o Body(written[i])
      missing == [k \in 1 .. Len(written) - Len(results) |-> frame(Len(results) + k)]
  IN  ~torn => var_int_buf \o data \o wire = FlattenSeq(missing)

\* Every packet written is returned.
EveryPacketIsRead ==
  \A n \in 1 .. MaxFrames : Len(written) >= n ~> Len(results) >= n \/ torn

\* A packet whose bytes arrive slowly is read like any other, timers or not (the
\* test test_slow_read_packet, packet_stream.rs 295-313).
SlowPacketsAreRead ==
  \A i \in DOMAIN results :
    i <= Len(written) => results[i] = Success(written[i])
=============================================================================
