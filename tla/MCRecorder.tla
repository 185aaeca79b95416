----------------------------- MODULE MCRecorder -----------------------------
(***************************************************************************)
(* Instances of Recorder for TLC: handshakes of two steps, and upstreams   *)
(* on either side of 1.20.2 and of 1.20.5.                                 *)
(***************************************************************************)
EXTENDS Recorder

MCFml2Steps == << "fml:loginwrapper 1", "fml:loginwrapper 2" >>
MCFml3Steps == << "fml:handshake", "neoforge:handshake" >>

Server(protocol, marker) ==
  [protocol |-> protocol, marker |-> marker, gated |-> FALSE, online_mode |-> FALSE,
   strict |-> TRUE, impatient |-> FALSE]

Forge1_19_4 == Server(762, "FML2")
Forge1_20_1 == Server(763, "FML3")
NeoForge1_20_2 == Server(764, "FML3")
NeoForge1_21 == Server(767, "FML3")
NeoForge1_21_9 == Server(773, "FML3")

MCUpstreams ==
  {Forge1_19_4, [Forge1_19_4 EXCEPT !.strict = FALSE],
   Forge1_20_1, [Forge1_20_1 EXCEPT !.gated = TRUE, !.strict = FALSE],
   [Forge1_20_1 EXCEPT !.impatient = TRUE],
   [NeoForge1_21 EXCEPT !.gated = TRUE], [NeoForge1_21 EXCEPT !.online_mode = TRUE],
   [NeoForge1_21_9 EXCEPT !.impatient = TRUE], NeoForge1_21_9}

OldUpstreams == {NeoForge1_20_2}
=============================================================================
