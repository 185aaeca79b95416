-------------------------- MODULE MCPacketFraming --------------------------
(***************************************************************************)
(* Instances of PacketFraming for TLC: packets of 1 to 4 bytes, so that    *)
(* with 2 digits a length takes up to 3 bytes.                             *)
(***************************************************************************)
EXTENDS PacketFraming

Byte(digit, more) == [digit |-> digit, more |-> more]
Zero == Byte(0, FALSE)
More == Byte(1, TRUE)

MCPayloads == {<< Zero >>, << More, Zero >>, << Zero, More, More, Zero >>}

\* The theorems of PacketFraming_proofs hold of these instances.
ASSUME FramesFit
=============================================================================
