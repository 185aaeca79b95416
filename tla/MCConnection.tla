--------------------------- MODULE MCConnection ---------------------------
(***************************************************************************)
(* Instances of Connection for TLC: configurations and clients that take   *)
(* every branch of the handlers.                                           *)
(***************************************************************************)
EXTENDS Connection, TLC

Symmetry == Permutations(Clients)

Server(compression, forwarding, steps) ==
  [compression |-> compression, forwarding |-> forwarding, fml2_steps |-> steps,
   reply_to_status |-> TRUE, accept_transfers |-> TRUE,
   allow_unsupported_versions |-> FALSE, action_bar |-> TRUE, spawn_fits |-> TRUE,
   unwritable |-> {}]

Strict == [Server(FALSE, "None", 0) EXCEPT !.reply_to_status = FALSE,
                                           !.accept_transfers = FALSE,
                                           !.action_bar = FALSE,
                                           !.spawn_fits = FALSE]
Lenient == [Server(TRUE, "None", 0) EXCEPT !.allow_unsupported_versions = TRUE]

\* A schematic with a block entity that only 1.21.5 and later can be told.
Untold == [Server(TRUE, "None", 0) EXCEPT !.unwritable = {763, 764}]

AllConfigs ==
  {Strict, Lenient, Untold, Server(TRUE, "Modern", 2)}
  \cup {Server(compression, forwarding, steps) :
          compression \in BOOLEAN, steps \in {0, 2},
          forwarding \in {"None", "Legacy", "BungeeGuard", "Modern"}}

FewConfigs == {Server(TRUE, "None", 0), Server(TRUE, "Modern", 1)}

Hello(protocol, next_state, forge_kind, hostname) ==
  [type |-> "Handshake", protocol |-> protocol, next_state |-> next_state,
   forge_kind |-> forge_kind, hostname |-> hostname]
Greets(hellos) == {[handshake |-> hello, key_valid |-> key] :
                     hello \in hellos, key \in BOOLEAN}

\* 1.7, 1.12, 1.13, 1.20, 1.20.2 and a version to come; with and without forwarding
\* data; with the Forge markers; pings, transfers and an unknown intention.
AllGreetings ==
  Greets({Hello(protocol, 2, "None", hostname) :
            protocol \in {5, 340, 393, 763, 764, 999}, hostname \in {"Plain", "UuidAndToken"}})
  \cup Greets({Hello(protocol, 2, kind, hostname) :
                 protocol \in {340, 764}, kind \in {"Fml1", "Fml2", "Fml3"},
                 hostname \in {"Plain", "Uuid"}})
  \cup {[handshake |-> Hello(764, next_state, "None", "Plain"), key_valid |-> TRUE] :
          next_state \in {1, 3, 4}}
  \cup {[handshake |-> Hello(-1, 1, "None", "Plain"), key_valid |-> TRUE]}

FewGreetings ==
  {[handshake |-> Hello(340, 2, "None", "Plain"), key_valid |-> TRUE],
   [handshake |-> Hello(764, 2, "None", "Plain"), key_valid |-> TRUE]}

MCVelocityIds == {7}
=============================================================================
