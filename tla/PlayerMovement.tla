--------------------------- MODULE PlayerMovement ---------------------------
(***************************************************************************)
(* A player in the Play state: where the server believes it is and whether *)
(* it flies, against what the client does.  The two talk through ordered   *)
(* channels, so each acts on what the other did a while ago: a player      *)
(* falls on while the packet that teleports it to the spawn is on its way. *)
(*                                                                         *)
(* Heights are integers, in a unit of which FallSpeed is FALL_SPEED.  The  *)
(* commands are those that touch this state: /spawn, /fly and /flyspeed.   *)
(***************************************************************************)
EXTENDS Integers, Sequences

CONSTANTS
  SpawnY,        \* the height of spawn_position
  MinY,          \* Boundaries::min_y
  FallSpeed,     \* FALL_SPEED
  TopSpeed,      \* how far down a client moves between two position packets
  LowestY,       \* bound: how far below a client falls
  Habits,        \* the players there are: first abilities, commands used
  MaxInFlight    \* bound: packets on their way in each direction

ASSUME HeightsAssumption ==
  /\ SpawnY \in Int /\ MinY \in Int /\ LowestY \in Int
  /\ LowestY < MinY /\ MinY <= SpawnY
  /\ FallSpeed \in Nat /\ TopSpeed \in Nat \ {0}
\* Whoever flies from the start, in spectator mode, may fly (configuration.rs, 165).
ASSUME PlayAssumption ==
  /\ Habits \subseteq [abilities : [allowed : BOOLEAN, flying : BOOLEAN],
                       commands : SUBSET {"Spawn", "Fly", "FlySpeed"}]
  /\ \A h \in Habits : h.abilities.flying => h.abilities.allowed
  /\ MaxInFlight \in Nat

VARIABLES
  feet_y,     \* ClientState::feet_y
  abilities,  \* ClientState::is_flight_allowed and is_flying
  habit,      \* what the player starts with and does
  player,     \* the client: where it is, its abilities
  to_server,
  to_client

vars == << feet_y, abilities, habit, player, to_server, to_client >>

Heights == LowestY .. SpawnY

\* send_play_packets has placed the player at the spawn, and the client knows.
Init ==
  /\ feet_y = SpawnY
  /\ habit \in Habits
  /\ abilities = habit.abilities
  /\ player = [y |-> SpawnY, abilities |-> abilities]
  /\ to_server = << >>
  /\ to_client = << >>

-----------------------------------------------------------------------------
(* The server *)

Takes(type) == to_server # << >> /\ Head(to_server).type = type
Room == Len(to_client) < MaxInFlight

Synchronize == [type |-> "SynchronizePosition"]
ToAbilities(allowed, flying) ==
  [type |-> "Abilities", abilities |-> [allowed |-> allowed, flying |-> flying]]

\* Mutant: every position below the boundary is teleported.
OutOfBoundsAlways(y) == y < MinY

\* Mutant: a fall of exactly FALL_SPEED is too long.
OutOfBoundsStrict(y) ==
  /\ y < MinY
  /\ feet_y >= MinY
  /\ feet_y - y < FallSpeed

OutOfBounds(y) ==
  /\ y < MinY
  /\ feet_y >= MinY
  /\ feet_y - y <= FallSpeed

\* teleport_player_to_spawn_out_of_bounds
HandlePosition ==
  /\ Takes("Position") /\ Room
  /\ LET y == Head(to_server).y
     IN  IF OutOfBounds(y)
         THEN /\ feet_y' = SpawnY
              /\ to_client' = Append(to_client, Synchronize)
         ELSE /\ feet_y' = y
              /\ UNCHANGED to_client
  /\ to_server' = Tail(to_server)
  /\ UNCHANGED << abilities, habit, player >>

HandleSetFlying ==
  /\ Takes("SetFlying")
  /\ abilities' = [abilities EXCEPT !.flying = Head(to_server).flying]
  /\ to_server' = Tail(to_server)
  /\ UNCHANGED << feet_y, habit, player, to_client >>

\* /spawn: teleport_player_to_spawn
RunSpawn ==
  /\ Takes("Spawn") /\ Room
  /\ feet_y' = SpawnY
  /\ to_client' = Append(to_client, Synchronize)
  /\ to_server' = Tail(to_server)
  /\ UNCHANGED << abilities, habit, player >>

\* Mutant: the right to fly is recorded as the packet's flying.
RunFlyConfused ==
  /\ Takes("Fly") /\ Room
  /\ LET allowed == ~abilities.allowed
         flying == allowed /\ abilities.flying
     IN  /\ to_client' = Append(to_client, ToAbilities(allowed, flying))
         /\ abilities' = [allowed |-> flying, flying |-> allowed]
  /\ to_server' = Tail(to_server)
  /\ UNCHANGED << feet_y, habit, player >>

\* /fly: the packet asks for flight only if the player flew; the state records
\* that it flies whenever it may.
RunFly ==
  /\ Takes("Fly") /\ Room
  /\ LET allowed == ~abilities.allowed
     IN  /\ to_client' = Append(to_client, ToAbilities(allowed, allowed /\ abilities.flying))
         /\ abilities' = [allowed |-> allowed, flying |-> allowed]
  /\ to_server' = Tail(to_server)
  /\ UNCHANGED << feet_y, habit, player >>

\* /flyspeed: the speed, with the abilities the server believes in.
RunFlySpeed ==
  /\ Takes("FlySpeed") /\ Room
  /\ to_client' = Append(to_client, ToAbilities(abilities.allowed, abilities.flying))
  /\ to_server' = Tail(to_server)
  /\ UNCHANGED << feet_y, abilities, habit, player >>

ServerStep == HandlePosition \/ HandleSetFlying \/ RunSpawn \/ RunFly \/ RunFlySpeed

-----------------------------------------------------------------------------
(* The client (external) *)

SendToServer(packet) ==
  /\ Len(to_server) < MaxInFlight
  /\ to_server' = Append(to_server, packet)

\* A tick of its physics: it falls, flies up or down, and says where it is.
Move ==
  /\ \E y \in Heights :
       /\ y # player.y
       /\ player.y - y <= TopSpeed
       /\ y > player.y => player.abilities.flying
       /\ player' = [player EXCEPT !.y = y]
       /\ SendToServer([type |-> "Position", y |-> y])
  /\ UNCHANGED << feet_y, abilities, habit, to_client >>

\* The player takes off or lands.
ToggleFlight ==
  /\ player.abilities.allowed
  /\ player' = [player EXCEPT !.abilities.flying = ~@]
  /\ SendToServer([type |-> "SetFlying", flying |-> ~player.abilities.flying])
  /\ UNCHANGED << feet_y, abilities, habit, to_client >>

TypeCommand ==
  /\ \E command \in habit.commands : SendToServer([type |-> command])
  /\ UNCHANGED << feet_y, abilities, habit, player, to_client >>

\* It is teleported and confirms where it is.
ReceiveSynchronize ==
  /\ to_client # << >> /\ Head(to_client).type = "SynchronizePosition"
  /\ player' = [player EXCEPT !.y = SpawnY]
  /\ to_server' = Append(to_server, [type |-> "Position", y |-> SpawnY])
  /\ to_client' = Tail(to_client)
  /\ UNCHANGED << feet_y, abilities, habit >>

ReceiveAbilities ==
  /\ to_client # << >> /\ Head(to_client).type = "Abilities"
  /\ player' = [player EXCEPT !.abilities = Head(to_client).abilities]
  /\ to_client' = Tail(to_client)
  /\ UNCHANGED << feet_y, abilities, habit, to_server >>

ClientStep == Move \/ ToggleFlight \/ TypeCommand \/ ReceiveSynchronize \/ ReceiveAbilities

-----------------------------------------------------------------------------
Next == ServerStep \/ ClientStep
Spec == Init /\ [][Next]_vars

-----------------------------------------------------------------------------
(* Properties *)

PositionsOnTheWay == {i \in DOMAIN to_server : to_server[i].type = "Position"}
Teleports == {i \in DOMAIN to_client : to_client[i].type = "SynchronizePosition"}

\* A player below the boundary is on its way back: once the server has seen all
\* its positions, a teleport is under way (docs/config/world.md: "When players
\* fall below this level, they'll be teleported back to spawn").  It holds for
\* clients that fall no faster than FALL_SPEED: a longer step through the boundary
\* is not seen, nor is any later one.
FallenAreTeleported ==
  player.y < MinY /\ PositionsOnTheWay = {} => Teleports # {}

\* A player that only falls, from a spawn more than FallSpeed above the boundary,
\* is teleported once for each fall, whatever positions it sent before it received
\* the teleport (the test test_should_teleport_once_two_packets).
OnlyFalls == habit.commands = {} /\ ~habit.abilities.allowed
OneTeleportPerFall ==
  OnlyFalls => \A i, j \in Teleports : i = j

\* The last the client was told, or knows, of its right to fly is what the server
\* believes: toggling /fly again and again never gets out of step.
AllowedAgrees ==
  LET told == {i \in DOMAIN to_client : to_client[i].type = "Abilities"}
  IN  /\ told = {} => abilities.allowed = player.abilities.allowed
      /\ \A last \in told :
           (\A i \in told : i <= last) =>
             abilities.allowed = to_client[last].abilities.allowed
=============================================================================
