------------------------- MODULE ProtocolVersion -------------------------
(***************************************************************************)
(* The protocol versions of crates/protocol_version.  A version is its     *)
(* protocol number, so the comparisons of the code are those of integers. *)
(***************************************************************************)
EXTENDS Integers

Unsupported == -2
AnyVersion == -1
V1_7_2      == 4
V1_8        == 47
V1_13       == 393
V1_16       == 735
V1_20_2     == 764
V26_1       == 775

oldest == V1_7_2
latest == V26_1

\* The discriminants of the enum that are releases of the game.
Releases ==
  { 4, 5, 47, 107, 108, 109, 110, 210, 315, 316, 335, 338, 340, 393, 401,
    404, 477, 480, 485, 490, 498, 573, 575, 578, 735, 736, 751, 753, 754,
    755, 756, 757, 758, 759, 760, 761, 762, 763, 764, 765, 766, 767, 768,
    769, 770, 771, 772, 773, 774, 775 }

KnownVersions == Releases \cup {AnyVersion, Unsupported}

\* ProtocolVersion::try_from(pvn).unwrap_or(Unsupported)
TryFrom(pvn) == IF pvn \in KnownVersions THEN pvn ELSE Unsupported

\* ProtocolVersion::from: a number outside the known range goes to its nearest
\* end, a number in one of the gaps to the default variant, V26_1.
From(pvn) ==
  IF pvn \in KnownVersions THEN pvn
  ELSE IF pvn < oldest THEN oldest
  ELSE latest

IsAfterInclusive(version, other) == version >= other
IsModern(version) == IsAfterInclusive(version, V1_13)
SupportsConfigurationState(version) == IsAfterInclusive(version, V1_20_2)
=============================================================================
