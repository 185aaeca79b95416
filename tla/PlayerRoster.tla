--------------------------- MODULE PlayerRoster ---------------------------
(***************************************************************************)
(* What the server promises about its players: a roster that players join  *)
(* and leave one at a time, and a count of it.  Connection implements it,  *)
(* with ServerState::connected_clients for the count.                      *)
(***************************************************************************)
EXTENDS Integers, FiniteSets

CONSTANT Clients

VARIABLES
  players,  \* who is playing
  online    \* how many the server says there are

roster_vars == << players, online >>

RosterInit == players = {} /\ online = 0

Join(c) ==
  /\ c \notin players
  /\ players' = players \cup {c}
  /\ online' = online + 1

Quit(c) ==
  /\ c \in players
  /\ players' = players \ {c}
  /\ online' = online - 1

RosterNext == \E c \in Clients : Join(c) \/ Quit(c)

RosterSpec == RosterInit /\ [][RosterNext]_roster_vars

\* The count is that of the players: it never drifts, however many come and go.
RosterExact == online = Cardinality(players)
=============================================================================
