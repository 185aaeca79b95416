----------------------- MODULE PlayerMovement_proofs -----------------------
(***************************************************************************)
(* Theorems of PlayerMovement, for any heights, any habits of the players  *)
(* and any number of packets on their way.                                 *)
(***************************************************************************)
EXTENDS PlayerMovement, TLAPS

-----------------------------------------------------------------------------
(* Types *)

Abilities == [allowed : BOOLEAN, flying : BOOLEAN]
FromPlayer ==
  [type : {"Position"}, y : Heights] \cup [type : {"SetFlying"}, flying : BOOLEAN]
    \cup [type : {"Spawn", "Fly", "FlySpeed"}]
FromServer ==
  [type : {"SynchronizePosition"}] \cup [type : {"Abilities"}, abilities : Abilities]

TypeOK ==
  /\ feet_y \in Heights
  /\ abilities \in Abilities
  /\ habit \in Habits
  /\ player \in [y : Heights, abilities : Abilities]
  /\ to_server \in Seq(FromPlayer)
  /\ to_client \in Seq(FromServer)

\* The two ends of a channel, for the provers.
LEMMA AppendFacts ==
  ASSUME NEW S, NEW s \in Seq(S), NEW e \in S
  PROVE  /\ Append(s, e) \in Seq(S) /\ Len(s) \in Nat /\ Len(Append(s, e)) = Len(s) + 1
         /\ DOMAIN s = 1 .. Len(s) /\ DOMAIN Append(s, e) = 1 .. Len(s) + 1
         /\ \A i \in 1 .. Len(s) : Append(s, e)[i] = s[i]
         /\ Append(s, e)[Len(s) + 1] = e
OBVIOUS

LEMMA TailFacts ==
  ASSUME NEW S, NEW s \in Seq(S), s # << >>
  PROVE  /\ Tail(s) \in Seq(S) /\ Len(s) \in Nat /\ Len(s) >= 1 /\ Len(Tail(s)) = Len(s) - 1
         /\ DOMAIN s = 1 .. Len(s) /\ DOMAIN Tail(s) = 1 .. Len(s) - 1
         /\ \A i \in 1 .. Len(s) - 1 : Tail(s)[i] = s[i + 1]
         /\ Head(s) = s[1] /\ s[1] \in S
OBVIOUS

\* What a packet carries, by its type.
LEMMA PacketFields ==
  /\ \A p \in FromPlayer :
       /\ p.type \in {"Position", "SetFlying", "Spawn", "Fly", "FlySpeed"}
       /\ p.type = "Position" => p.y \in Heights
       /\ p.type = "SetFlying" => p.flying \in BOOLEAN
  /\ \A p \in FromServer :
       /\ p.type \in {"SynchronizePosition", "Abilities"}
       /\ p.type = "Abilities" => p.abilities \in Abilities
BY DEF FromPlayer, FromServer

\* The packets the two sides send.
LEMMA PacketTypes ==
  /\ \A y \in Heights : [type |-> "Position", y |-> y] \in FromPlayer
  /\ \A flying \in BOOLEAN : [type |-> "SetFlying", flying |-> flying] \in FromPlayer
  /\ \A command \in {"Spawn", "Fly", "FlySpeed"} : [type |-> command] \in FromPlayer
  /\ Synchronize \in FromServer
  /\ \A allowed, flying \in BOOLEAN : ToAbilities(allowed, flying) \in FromServer
BY DEF FromPlayer, FromServer, Synchronize, ToAbilities, Abilities

LEMMA SpawnType == SpawnY \in Heights
BY HeightsAssumption DEF Heights

\* Every step keeps the types.
LEMMA StepType ==
  ASSUME TypeOK, [Next]_vars
  PROVE  TypeOK'
<1>1. /\ player.y \in Heights /\ player.abilities \in Abilities
      /\ player.abilities.flying \in BOOLEAN
      /\ abilities.allowed \in BOOLEAN /\ abilities.flying \in BOOLEAN
      /\ to_server # << >> => Head(to_server) \in FromPlayer /\ Tail(to_server) \in Seq(FromPlayer)
      /\ to_client # << >> => Head(to_client) \in FromServer /\ Tail(to_client) \in Seq(FromServer)
      /\ habit.commands \subseteq {"Spawn", "Fly", "FlySpeed"}
  BY PlayAssumption DEF TypeOK, Abilities
<1>2. CASE HandlePosition
  <2>1. Head(to_server).y \in Heights
    BY <1>1, <1>2, PacketFields DEF HandlePosition, Takes
  <2>2. Append(to_client, Synchronize) \in Seq(FromServer)
    BY PacketTypes, AppendFacts DEF TypeOK
  <2>3. QED
    BY <1>1, <1>2, <2>1, <2>2, SpawnType DEF HandlePosition, TypeOK, Takes
<1>3. CASE HandleSetFlying
  <2>1. Head(to_server).flying \in BOOLEAN
    BY <1>1, <1>3, PacketFields DEF HandleSetFlying, Takes
  <2>2. abilities' \in Abilities
    BY <1>3, <2>1 DEF HandleSetFlying, TypeOK, Abilities
  <2>3. QED
    BY <1>1, <1>3, <2>2 DEF HandleSetFlying, TypeOK, Takes
<1>4. CASE RunSpawn
  <2>1. Append(to_client, Synchronize) \in Seq(FromServer)
    BY PacketTypes, AppendFacts DEF TypeOK
  <2>2. QED
    BY <1>1, <1>4, <2>1, SpawnType DEF RunSpawn, TypeOK, Takes
<1>5. CASE RunFly
  <2>1. \A allowed, flying \in BOOLEAN :
          Append(to_client, ToAbilities(allowed, flying)) \in Seq(FromServer)
    BY PacketTypes, AppendFacts DEF TypeOK
  <2>2. \A allowed \in BOOLEAN : [allowed |-> allowed, flying |-> allowed] \in Abilities
    BY DEF Abilities
  <2>3. (~abilities.allowed) \in BOOLEAN /\ (~abilities.allowed /\ abilities.flying) \in BOOLEAN
    BY <1>1
  <2>4. QED
    BY <1>1, <1>5, <2>1, <2>2, <2>3 DEF RunFly, TypeOK, Takes
<1>6. CASE RunFlySpeed
  <2>1. Append(to_client, ToAbilities(abilities.allowed, abilities.flying)) \in Seq(FromServer)
    BY <1>1, PacketTypes, AppendFacts DEF TypeOK
  <2>2. QED
    BY <1>1, <1>6, <2>1 DEF RunFlySpeed, TypeOK, Takes
<1>7. CASE Move
  <2>1. PICK y \in Heights : /\ player' = [player EXCEPT !.y = y]
                             /\ SendToServer([type |-> "Position", y |-> y])
    BY <1>7 DEF Move
  <2>2. Append(to_server, [type |-> "Position", y |-> y]) \in Seq(FromPlayer)
    BY PacketTypes, AppendFacts DEF TypeOK
  <2>3. QED
    BY <1>7, <2>1, <2>2 DEF Move, SendToServer, TypeOK
<1>8. CASE ToggleFlight
  <2>1. Append(to_server, [type |-> "SetFlying", flying |-> ~player.abilities.flying])
          \in Seq(FromPlayer)
    BY <1>1, PacketTypes, AppendFacts DEF TypeOK
  <2>2. player' \in [y : Heights, abilities : Abilities]
    BY <1>1, <1>8 DEF ToggleFlight, TypeOK, Abilities
  <2>3. QED
    BY <1>8, <2>1, <2>2 DEF ToggleFlight, SendToServer, TypeOK
<1>9. CASE TypeCommand
  <2>1. \A command \in habit.commands : Append(to_server, [type |-> command]) \in Seq(FromPlayer)
    BY <1>1, PacketTypes, AppendFacts DEF TypeOK
  <2>2. QED
    BY <1>9, <2>1 DEF TypeCommand, SendToServer, TypeOK
<1>10. CASE ReceiveSynchronize
  <2>1. Append(to_server, [type |-> "Position", y |-> SpawnY]) \in Seq(FromPlayer)
    BY SpawnType, PacketTypes, AppendFacts DEF TypeOK
  <2>2. QED
    BY <1>1, <1>10, <2>1, SpawnType DEF ReceiveSynchronize, TypeOK
<1>11. CASE ReceiveAbilities
  <2>1. Head(to_client).abilities \in Abilities
    BY <1>1, <1>11, PacketFields DEF ReceiveAbilities
  <2>2. QED
    BY <1>1, <1>11, <2>1 DEF ReceiveAbilities, TypeOK
<1>12. CASE UNCHANGED vars
  BY <1>12 DEF vars, TypeOK
<1>13. QED
  BY <1>2, <1>3, <1>4, <1>5, <1>6, <1>7, <1>8, <1>9, <1>10, <1>11, <1>12
  DEF Next, ServerStep, ClientStep

\* And so do the initial states.
LEMMA InitType == Init => TypeOK
<1> SUFFICES ASSUME Init PROVE TypeOK
  OBVIOUS
<1>1. abilities \in Abilities /\ habit \in Habits
  BY PlayAssumption DEF Init, Abilities
<1>2. player \in [y : Heights, abilities : Abilities]
  BY <1>1, SpawnType DEF Init
<1>3. QED
  BY <1>1, <1>2, SpawnType DEF Init, TypeOK

-----------------------------------------------------------------------------
(* The right to fly *)

\* One packet more, or the first one received.
LEMMA StepAllowed ==
  ASSUME TypeOK, AllowedAgrees, [Next]_vars
  PROVE  AllowedAgrees'
<1> DEFINE n == Len(to_client)
           Told(s) == {i \in DOMAIN s : s[i].type = "Abilities"}
<1>1. /\ to_client \in Seq(FromServer) /\ n \in Nat /\ DOMAIN to_client = 1 .. n
      /\ abilities.allowed \in BOOLEAN
  BY DEF TypeOK, Abilities
<1>2. ASSUME to_client' = to_client, player'.abilities.allowed = player.abilities.allowed,
             abilities'.allowed = abilities.allowed
      PROVE  AllowedAgrees'
  BY <1>2 DEF AllowedAgrees
<1>3. ASSUME to_client' = Append(to_client, Synchronize), player' = player,
             abilities' = abilities
      PROVE  AllowedAgrees'
  <2>1. /\ DOMAIN to_client' = 1 .. n + 1
        /\ \A i \in 1 .. n : to_client'[i] = to_client[i]
        /\ to_client'[n + 1].type = "SynchronizePosition"
    BY <1>1, <1>3, PacketTypes, AppendFacts DEF Synchronize
  <2>2. Told(to_client') = Told(to_client)
    BY <1>1, <2>1
  <2>3. QED
    BY <1>1, <1>3, <2>1, <2>2 DEF AllowedAgrees
<1>4. ASSUME NEW flying \in BOOLEAN, abilities'.allowed \in BOOLEAN, player' = player,
             to_client' = Append(to_client, ToAbilities(abilities'.allowed, flying))
      PROVE  AllowedAgrees'
  <2>1. /\ DOMAIN to_client' = 1 .. n + 1
        /\ to_client'[n + 1] = ToAbilities(abilities'.allowed, flying)
    BY <1>1, <1>4, PacketTypes, AppendFacts
  <2>2. /\ to_client'[n + 1].type = "Abilities"
        /\ to_client'[n + 1].abilities.allowed = abilities'.allowed
    BY <2>1 DEF ToAbilities
  <2>3. QED
    BY <1>1, <2>1, <2>2 DEF AllowedAgrees
<1>5. CASE HandlePosition
  BY <1>2, <1>3, <1>5 DEF HandlePosition
<1>6. CASE HandleSetFlying
  BY <1>2, <1>6 DEF HandleSetFlying, TypeOK, Abilities
<1>7. CASE RunSpawn
  BY <1>3, <1>7 DEF RunSpawn
<1>8. CASE RunFly
  <2>1. /\ abilities'.allowed = ~abilities.allowed /\ abilities'.allowed \in BOOLEAN
        /\ player' = player
        /\ to_client' = Append(to_client, ToAbilities(abilities'.allowed,
                                                      ~abilities.allowed /\ abilities.flying))
    BY <1>8 DEF RunFly
  <2>2. (~abilities.allowed /\ abilities.flying) \in BOOLEAN
    OBVIOUS
  <2>3. QED
    BY <1>4, <2>1, <2>2
<1>9. CASE RunFlySpeed
  <2>1. abilities.flying \in BOOLEAN /\ abilities' = abilities /\ player' = player
    BY <1>9 DEF RunFlySpeed, TypeOK, Abilities
  <2>2. QED
    BY <1>1, <1>4, <1>9, <2>1 DEF RunFlySpeed
<1>10. CASE Move
  BY <1>2, <1>10 DEF Move, TypeOK
<1>11. CASE ToggleFlight
  BY <1>2, <1>11 DEF ToggleFlight, TypeOK, Abilities
<1>12. CASE TypeCommand
  BY <1>2, <1>12 DEF TypeCommand
<1>13. ASSUME to_client # << >>, to_client' = Tail(to_client), abilities' = abilities,
              to_client[1].type = "Abilities" =>
                player'.abilities.allowed = to_client[1].abilities.allowed,
              to_client[1].type # "Abilities" =>
                player'.abilities.allowed = player.abilities.allowed
       PROVE  AllowedAgrees'
  <2>1. /\ n >= 1 /\ DOMAIN to_client' = 1 .. n - 1
        /\ \A i \in 1 .. n - 1 : to_client'[i] = to_client[i + 1]
    BY <1>1, <1>13, TailFacts
  <2>2. ASSUME \A i \in 1 .. n - 1 : to_client'[i].type # "Abilities"
        PROVE  abilities'.allowed = player'.abilities.allowed
    <3>1. \A i \in 1 .. n : i # 1 => to_client[i].type # "Abilities"
      <4>1. \A i \in 1 .. n : i # 1 => i - 1 \in 1 .. n - 1 /\ (i - 1) + 1 = i
        BY <1>1
      <4>2. \A i \in 1 .. n : i # 1 => to_client'[i - 1] = to_client[i]
        BY <2>1, <4>1
      <4>3. QED
        BY <2>2, <4>1, <4>2
    <3>2. QED
      BY <1>1, <1>13, <2>1, <3>1 DEF AllowedAgrees
  <2>3. ASSUME NEW last \in 1 .. n - 1, to_client'[last].type = "Abilities",
               \A i \in 1 .. n - 1 : to_client'[i].type = "Abilities" => i <= last
        PROVE  abilities'.allowed = to_client'[last].abilities.allowed
    <3>1. to_client'[last] = to_client[last + 1] /\ last + 1 \in 1 .. n
      BY <1>1, <2>1
    <3>2. \A i \in 1 .. n : to_client[i].type = "Abilities" => i <= last + 1
      <4>1. \A i \in 1 .. n : i # 1 => i - 1 \in 1 .. n - 1 /\ (i - 1) + 1 = i
        BY <1>1
      <4>2. \A i \in 1 .. n : i # 1 /\ to_client[i].type = "Abilities" => i - 1 <= last
        BY <2>1, <2>3, <4>1
      <4>3. QED
        BY <1>1, <4>2
    <3>3. QED
      BY <1>1, <1>13, <2>3, <3>1, <3>2 DEF AllowedAgrees
  <2>4. QED
    BY <2>1, <2>2, <2>3 DEF AllowedAgrees
<1>14. to_client # << >> => Head(to_client) = to_client[1]
  BY <1>1
<1>15. CASE ReceiveSynchronize
  BY <1>13, <1>14, <1>15 DEF ReceiveSynchronize, TypeOK
<1>16. CASE ReceiveAbilities
  <2>1. to_client # << >> /\ to_client[1].type = "Abilities" /\ abilities' = abilities
    BY <1>14, <1>16 DEF ReceiveAbilities
  <2>2. player'.abilities = to_client[1].abilities
    BY <1>14, <1>16 DEF ReceiveAbilities, TypeOK
  <2>3. QED
    BY <1>13, <1>16, <2>1, <2>2 DEF ReceiveAbilities
<1>17. CASE UNCHANGED vars
  BY <1>2, <1>17 DEF vars
<1>18. QED
  BY <1>5, <1>6, <1>7, <1>8, <1>9, <1>10, <1>11, <1>12, <1>15, <1>16, <1>17
  DEF Next, ServerStep, ClientStep

\* Client and server agree on the right to fly, whatever is on its way
\* (commands.rs, 58-78): toggled however often, it never gets out of step.
THEOREM FlightAgrees == Spec => []AllowedAgrees
<1>1. Init => TypeOK /\ AllowedAgrees
  BY InitType DEF Init, AllowedAgrees
<1>2. TypeOK /\ AllowedAgrees /\ [Next]_vars => TypeOK' /\ AllowedAgrees'
  BY StepType, StepAllowed
<1>3. QED
  BY <1>1, <1>2, PTL DEF Spec
-----------------------------------------------------------------------------
(* A fall is answered *)

\* What the server makes of a position.
LEMMA PositionHandled ==
  ASSUME TypeOK, HandlePosition
  PROVE  LET y == to_server[1].y
         IN  /\ to_server # << >> /\ to_server[1].type = "Position" /\ y \in Heights
             /\ to_server' = Tail(to_server) /\ player' = player /\ habit' = habit
             /\ OutOfBounds(y) => /\ feet_y' = SpawnY
                                 /\ to_client' = Append(to_client, Synchronize)
             /\ ~OutOfBounds(y) => feet_y' = y /\ to_client' = to_client
<1>1. to_server # << >> => Head(to_server) = to_server[1] /\ to_server[1] \in FromPlayer
  BY TailFacts DEF TypeOK
<1>2. QED
  BY <1>1, PacketFields DEF HandlePosition, Takes

\* The heights between an anchor, a position within the boundaries that the server
\* saw or will see, and the player: each the height after one more packet.
Steps(k, heights) ==
  /\ \A i \in k + 1 .. Len(to_server) :
       /\ to_server[i].type = "Position" => heights[i] = to_server[i].y
       /\ heights[i - 1] - heights[i] <= FallSpeed
  /\ \A i, j \in k .. Len(to_server) :
       i <= j /\ (\A m \in i + 1 .. j : to_server[m].type # "Position") =>
         heights[i] = heights[j]

Descends(k, heights) ==
  /\ k \in 0 .. Len(to_server) /\ heights \in [0 .. Len(to_server) -> Int]
  /\ k = 0 => heights[0] = feet_y
  /\ k > 0 => to_server[k].type = "Position" /\ heights[k] = to_server[k].y
  /\ heights[k] >= MinY
  /\ Steps(k, heights)
  /\ heights[Len(to_server)] = player.y

\* Where no teleport is under way, the server will see every step of the fall.
Anchored == Teleports = {} => \E k, heights : Descends(k, heights)

\* No step loses the anchor but by a teleport.
LEMMA StepAnchored ==
  ASSUME TypeOK, Anchored, [Next]_vars, TopSpeed <= FallSpeed
  PROVE  Anchored'
<1> DEFINE n == Len(to_server)
<1>1. /\ to_server \in Seq(FromPlayer) /\ n \in Nat /\ DOMAIN to_server = 1 .. n
      /\ to_client \in Seq(FromServer) /\ player.y \in Int /\ feet_y \in Int
  BY DEF TypeOK, Heights
<1>2. MinY \in Int /\ SpawnY \in Int /\ SpawnY >= MinY /\ FallSpeed \in Nat /\ TopSpeed \in Nat
  BY HeightsAssumption
<1>3. ASSUME UNCHANGED << feet_y, to_server >>, player'.y = player.y,
             Teleports' = {} => Teleports = {}
      PROVE  Anchored'
  <2>1. SUFFICES ASSUME Teleports = {} PROVE \E k, heights : Descends(k, heights)'
    BY <1>3 DEF Anchored
  <2>2. PICK k, heights : Descends(k, heights)
    BY <2>1 DEF Anchored
  <2>3. Steps(k, heights)'
    BY <1>3, <2>2 DEF Descends, Steps
  <2>4. Descends(k, heights)'
    BY <1>3, <2>2, <2>3 DEF Descends
  <2>5. QED
    BY <2>4
<1>4. ASSUME to_client' = Append(to_client, Synchronize)
      PROVE  Anchored'
  <2>1. Len(to_client) + 1 \in DOMAIN to_client' /\ to_client'[Len(to_client) + 1] = Synchronize
    BY <1>1, <1>4, PacketTypes, AppendFacts
  <2>2. QED
    BY <2>1 DEF Anchored, Teleports, Synchronize
<1>5. ASSUME NEW packet \in FromPlayer, to_server' = Append(to_server, packet),
             Teleports' = {} => Teleports = {}, feet_y' = feet_y,
             packet.type = "Position" => packet.y = player'.y /\ player.y - packet.y <= FallSpeed,
             packet.type # "Position" => player'.y = player.y
      PROVE  Anchored'
  <2>1. SUFFICES ASSUME Teleports = {} PROVE \E k, heights : Descends(k, heights)'
    BY <1>5 DEF Anchored
  <2>2. PICK k, heights : Descends(k, heights)
    BY <2>1 DEF Anchored
  <2>3. /\ Len(to_server') = n + 1 /\ to_server'[n + 1] = packet
        /\ \A i \in 1 .. n : to_server'[i] = to_server[i]
    BY <1>1, <1>5, AppendFacts
  <2>4. player'.y \in Int
    BY <1>1, <1>5, PacketFields DEF Heights
  <2>5. PICK more \in [0 .. n + 1 -> Int] :
          more[n + 1] = player'.y /\ \A i \in 0 .. n : more[i] = heights[i]
    <3> DEFINE more == [i \in 0 .. n + 1 |-> IF i <= n THEN heights[i] ELSE player'.y]
    <3>1. /\ more \in [0 .. n + 1 -> Int] /\ more[n + 1] = player'.y
          /\ \A i \in 0 .. n : more[i] = heights[i]
      BY <1>1, <2>2, <2>4 DEF Descends
    <3>2. QED
      BY <3>1
  <2>6. /\ k \in 0 .. n + 1 /\ more[k] = heights[k] /\ more[k] >= MinY
        /\ k = 0 => more[0] = feet_y'
        /\ k > 0 => to_server'[k].type = "Position" /\ more[k] = to_server'[k].y
    BY <1>1, <1>5, <2>2, <2>3, <2>5 DEF Descends
  <2>7. ASSUME NEW i \in k + 1 .. n + 1
        PROVE  /\ to_server'[i].type = "Position" => more[i] = to_server'[i].y
               /\ more[i - 1] - more[i] <= FallSpeed
    <3>1. CASE i = n + 1
      <4>1. more[i - 1] = player.y
        BY <1>1, <2>2, <2>5, <3>1 DEF Descends
      <4>2. more[i] = player'.y /\ to_server'[i] = packet
        BY <2>3, <2>5, <3>1
      <4>3. CASE packet.type = "Position"
        BY <1>5, <4>1, <4>2, <4>3
      <4>4. CASE packet.type # "Position"
        <5>1. player'.y = player.y /\ player.y - player.y = 0
          BY <1>1, <1>5, <4>4
        <5>2. QED
          BY <1>2, <4>1, <4>2, <4>4, <5>1
      <4>5. QED
        BY <4>3, <4>4
    <3>2. CASE i # n + 1
      <4>1. k \in 0 .. n
        BY <2>2 DEF Descends
      <4>2. i \in k + 1 .. n /\ i \in 1 .. n /\ i \in 0 .. n /\ i - 1 \in 0 .. n
        BY <1>1, <3>2, <4>1
      <4>3. more[i] = heights[i] /\ more[i - 1] = heights[i - 1] /\ to_server'[i] = to_server[i]
        BY <2>3, <2>5, <4>2
      <4>4. QED
        BY <2>2, <4>2, <4>3 DEF Descends, Steps
    <3>3. QED
      BY <3>1, <3>2
  <2>8. ASSUME NEW i \in k .. n + 1, NEW j \in k .. n + 1, i <= j,
               \A m \in i + 1 .. j : to_server'[m].type # "Position"
        PROVE  more[i] = more[j]
    <3>1. k \in 0 .. n
      BY <2>2 DEF Descends
    <3>2. CASE i = j
      BY <3>2
    <3>3. CASE i # j
      <4> DEFINE l == IF j = n + 1 THEN n ELSE j
      <4>1. /\ i \in k .. n /\ l \in k .. n /\ i <= l /\ i \in 0 .. n /\ l \in 0 .. n
            /\ \A m \in i + 1 .. l : m \in i + 1 .. j /\ m \in 1 .. n
        BY <1>1, <2>8, <3>1, <3>3
      <4> HIDE DEF l
      <4>2. \A m \in i + 1 .. l : to_server[m].type # "Position"
        BY <2>3, <2>8, <4>1
      <4>3. heights[i] = heights[l]
        BY <2>2, <4>1, <4>2 DEF Descends, Steps
      <4>4. more[j] = heights[l]
        <5>1. CASE j = n + 1
          <6>1. to_server'[n + 1].type # "Position" /\ l = n
            BY <1>1, <2>8, <3>1, <3>3, <5>1 DEF l
          <6>2. QED
            BY <1>5, <2>2, <2>3, <2>5, <5>1, <6>1 DEF Descends
        <5>2. CASE j # n + 1
          BY <2>5, <4>1, <5>2 DEF l
        <5>3. QED
          BY <5>1, <5>2
      <4>5. QED
        BY <2>5, <4>1, <4>3, <4>4
    <3>4. QED
      BY <3>2, <3>3
  <2>9. Steps(k, more)'
    BY <2>3, <2>7, <2>8 DEF Steps
  <2>10. Descends(k, more)'
    BY <2>3, <2>5, <2>6, <2>9 DEF Descends
  <2>11. QED
    BY <2>10
<1>6. ASSUME to_server # << >>, to_server' = Tail(to_server), player' = player,
             Teleports' = {} => Teleports = {},
             feet_y' = IF to_server[1].type = "Position" THEN to_server[1].y ELSE feet_y,
             to_server[1].type = "Position" => ~OutOfBounds(to_server[1].y)
      PROVE  Anchored'
  <2>1. SUFFICES ASSUME Teleports = {} PROVE \E k, heights : Descends(k, heights)'
    BY <1>6 DEF Anchored
  <2>2. PICK k, heights : Descends(k, heights)
    BY <2>1 DEF Anchored
  <2>3. /\ n >= 1 /\ Len(to_server') = n - 1 /\ to_server[1] \in FromPlayer
        /\ \A i \in 1 .. n - 1 : to_server'[i] = to_server[i + 1]
    BY <1>1, <1>6, TailFacts
  <2>4. PICK less \in [0 .. n - 1 -> Int] :
          less[n - 1] = player'.y /\ \A i \in 0 .. n - 1 : less[i] = heights[i + 1]
    <3> DEFINE less == [i \in 0 .. n - 1 |-> heights[i + 1]]
    <3>1. /\ less \in [0 .. n - 1 -> Int] /\ less[n - 1] = player'.y
          /\ \A i \in 0 .. n - 1 : less[i] = heights[i + 1]
      BY <1>1, <1>6, <2>2, <2>3 DEF Descends
    <3>2. QED
      BY <3>1
  <2>5. PICK j \in 0 .. n - 1 :
          /\ k \in 0 .. n /\ heights \in [0 .. n -> Int]
          /\ j = IF k = 0 THEN 0 ELSE k - 1
    BY <1>1, <2>2, <2>3 DEF Descends
  <2>12. k = 0 => /\ heights[1] = IF to_server[1].type = "Position" THEN to_server[1].y ELSE feet_y
                  /\ feet_y - heights[1] <= FallSpeed
    <3>1. SUFFICES ASSUME k = 0
                   PROVE  /\ heights[1] = IF to_server[1].type = "Position" THEN to_server[1].y
                                          ELSE feet_y
                          /\ feet_y - heights[1] <= FallSpeed
      OBVIOUS
    <3>2. heights[0] = feet_y /\ Steps(0, heights)
      BY <2>2, <3>1 DEF Descends
    <3>3. /\ 1 \in 0 + 1 .. n /\ 0 \in 0 .. n /\ 1 \in 0 .. n /\ 1 - 1 = 0 /\ 0 <= 1
          /\ \A m \in 0 + 1 .. 1 : m = 1
      BY <1>1, <2>3
    <3>4. QED
      BY <3>2, <3>3 DEF Steps
  <2>6. less[j] >= MinY
    <3>1. CASE k = 0
      <4>1. /\ heights[0] = feet_y /\ feet_y >= MinY
            /\ heights[1] = IF to_server[1].type = "Position" THEN to_server[1].y ELSE feet_y
            /\ feet_y - heights[1] <= FallSpeed
        BY <2>2, <2>12, <3>1 DEF Descends
      <4>2. less[0] = heights[1] /\ heights[1] \in Int
        BY <1>1, <2>3, <2>4, <2>5
      <4>3. heights[1] >= MinY
        <5>1. CASE to_server[1].type = "Position"
          <6>1. ~OutOfBounds(heights[1])
            BY <1>6, <4>1, <5>1
          <6>2. QED
            BY <1>2, <4>1, <4>2, <6>1 DEF OutOfBounds
        <5>2. CASE to_server[1].type # "Position"
          BY <4>1, <5>2
        <5>3. QED
          BY <5>1, <5>2
      <4>4. QED
        BY <2>5, <3>1, <4>2, <4>3
    <3>2. CASE k # 0
      BY <1>1, <2>2, <2>4, <2>5, <3>2 DEF Descends
    <3>3. QED
      BY <3>1, <3>2
  <2>7. j = 0 => less[0] = feet_y'
    <3>1. less[0] = heights[1]
      BY <1>1, <2>3, <2>4
    <3>2. CASE k = 0
      BY <1>6, <2>12, <3>1, <3>2
    <3>3. CASE k = 1
      BY <1>6, <2>2, <3>1, <3>3 DEF Descends
    <3>4. QED
      BY <2>5, <3>2, <3>3
  <2>8. j > 0 => to_server'[j].type = "Position" /\ less[j] = to_server'[j].y
    <3>1. j > 0 => j + 1 = k /\ j \in 1 .. n - 1 /\ k > 0
      BY <2>5
    <3>2. j > 0 => to_server'[j] = to_server[k] /\ less[j] = heights[k]
      BY <2>3, <2>4, <3>1
    <3>3. QED
      BY <2>2, <3>1, <3>2 DEF Descends
  <2>9. ASSUME NEW i \in j + 1 .. n - 1
        PROVE  /\ to_server'[i].type = "Position" => less[i] = to_server'[i].y
               /\ less[i - 1] - less[i] <= FallSpeed
    <3>1. /\ i + 1 \in k + 1 .. n /\ i \in 1 .. n - 1 /\ i - 1 \in 0 .. n - 1 /\ (i - 1) + 1 = i
          /\ (i + 1) - 1 = i /\ i \in 0 .. n - 1
      BY <1>1, <2>3, <2>5
    <3>2. to_server'[i] = to_server[i + 1] /\ less[i] = heights[i + 1] /\ less[i - 1] = heights[i]
      BY <2>3, <2>4, <3>1
    <3>3. QED
      BY <2>2, <3>1, <3>2 DEF Descends, Steps
  <2>10. ASSUME NEW i \in j .. n - 1, NEW l \in j .. n - 1, i <= l,
                \A m \in i + 1 .. l : to_server'[m].type # "Position"
         PROVE  less[i] = less[l]
    <3>1. /\ i + 1 \in k .. n /\ l + 1 \in k .. n /\ i + 1 <= l + 1
          /\ i \in 0 .. n - 1 /\ l \in 0 .. n - 1
          /\ \A m \in (i + 1) + 1 .. l + 1 :
               m - 1 \in i + 1 .. l /\ m - 1 \in 1 .. n - 1 /\ (m - 1) + 1 = m
      BY <1>1, <2>3, <2>5, <2>10
    <3>2. \A m \in (i + 1) + 1 .. l + 1 : to_server'[m - 1] = to_server[m]
      BY <2>3, <3>1
    <3>3. \A m \in (i + 1) + 1 .. l + 1 : to_server[m].type # "Position"
      BY <2>10, <3>1, <3>2
    <3>4. heights[i + 1] = heights[l + 1]
      BY <2>2, <3>1, <3>3 DEF Descends, Steps
    <3>5. QED
      BY <2>4, <3>1, <3>4
  <2>11. Steps(j, less)'
    BY <2>3, <2>9, <2>10 DEF Steps
  <2>13. Descends(j, less)'
    BY <2>3, <2>4, <2>5, <2>6, <2>7, <2>8, <2>11 DEF Descends
  <2>14. QED
    BY <2>13
<1>7. CASE HandlePosition
  <2>1. to_client' = to_client => (Teleports' = {} => Teleports = {})
    BY DEF Teleports
  <2>2. QED
    BY <1>4, <1>6, <1>7, <2>1, PositionHandled
<1>8. to_server # << >> => Head(to_server) = to_server[1]
  BY <1>1
<1>9. CASE HandleSetFlying
  <2>1. to_server[1].type # "Position" /\ to_server # << >>
    BY <1>8, <1>9 DEF HandleSetFlying, Takes
  <2>2. Teleports' = Teleports
    BY <1>9 DEF HandleSetFlying, Teleports
  <2>3. QED
    BY <1>6, <1>9, <2>1, <2>2 DEF HandleSetFlying
<1>10. CASE RunSpawn
  BY <1>4, <1>10 DEF RunSpawn
<1>11. ASSUME NEW packet \in FromServer, packet.type = "Abilities",
              to_client' = Append(to_client, packet)
       PROVE  Teleports' = {} => Teleports = {}
  <2>1. /\ DOMAIN to_client = 1 .. Len(to_client) /\ Len(to_client) \in Nat
        /\ DOMAIN to_client' = 1 .. Len(to_client) + 1
        /\ \A i \in 1 .. Len(to_client) : to_client'[i] = to_client[i]
    BY <1>1, <1>11, AppendFacts
  <2>2. QED
    BY <2>1 DEF Teleports
<1>12. CASE RunFly \/ RunFlySpeed
  <2>1. /\ to_server[1].type # "Position" /\ to_server # << >>
        /\ to_server' = Tail(to_server) /\ player' = player /\ feet_y' = feet_y
    BY <1>8, <1>12 DEF RunFly, RunFlySpeed, Takes
  <2>2. abilities.allowed \in BOOLEAN /\ abilities.flying \in BOOLEAN
    BY DEF TypeOK, Abilities
  <2>3. PICK allowed \in BOOLEAN, flying \in BOOLEAN :
          to_client' = Append(to_client, ToAbilities(allowed, flying))
    <3>1. CASE RunFly
      <4>1. /\ (~abilities.allowed) \in BOOLEAN
            /\ (~abilities.allowed /\ abilities.flying) \in BOOLEAN
        OBVIOUS
      <4>2. QED
        BY <3>1, <4>1 DEF RunFly
    <3>2. CASE RunFlySpeed
      BY <2>2, <3>2 DEF RunFlySpeed
    <3>3. QED
      BY <1>12, <3>1, <3>2
  <2>4. Teleports' = {} => Teleports = {}
    <3>1. /\ ToAbilities(allowed, flying) \in FromServer
          /\ ToAbilities(allowed, flying).type = "Abilities"
      BY PacketTypes DEF ToAbilities
    <3>2. QED
      BY <1>11, <2>3, <3>1
  <2>5. QED
    BY <1>6, <2>1, <2>4
<1>13. CASE Move
  <2>1. PICK y \in Heights :
          /\ player.y - y <= TopSpeed /\ player' = [player EXCEPT !.y = y]
          /\ to_server' = Append(to_server, [type |-> "Position", y |-> y])
    BY <1>13 DEF Move, SendToServer
  <2>2. player'.y = y /\ y \in Int
    BY <2>1 DEF TypeOK, Heights
  <2>3. player.y - y <= FallSpeed
    BY <1>1, <1>2, <2>1, <2>2
  <2>4. Teleports' = Teleports /\ feet_y' = feet_y
    BY <1>13 DEF Move, Teleports
  <2> DEFINE packet == [type |-> "Position", y |-> y]
  <2>5. packet \in FromPlayer /\ packet.type = "Position" /\ packet.y = y
    BY PacketTypes
  <2> HIDE DEF packet
  <2>6. QED
    BY <1>5, <2>1, <2>2, <2>3, <2>4, <2>5 DEF packet
<1>14. CASE ToggleFlight \/ TypeCommand
  <2>1. player'.y = player.y /\ feet_y' = feet_y /\ to_client' = to_client
    BY <1>14 DEF ToggleFlight, TypeCommand, TypeOK
  <2>2. PICK packet \in FromPlayer :
          packet.type # "Position" /\ to_server' = Append(to_server, packet)
    <3>1. CASE ToggleFlight
      <4>1. (~player.abilities.flying) \in BOOLEAN
        OBVIOUS
      <4>2. [type |-> "SetFlying", flying |-> ~player.abilities.flying] \in FromPlayer
        BY <4>1, PacketTypes
      <4>3. QED
        BY <3>1, <4>2 DEF ToggleFlight, SendToServer
    <3>2. CASE TypeCommand
      <4>1. habit.commands \subseteq {"Spawn", "Fly", "FlySpeed"}
        BY PlayAssumption DEF TypeOK
      <4>2. PICK command \in habit.commands :
              to_server' = Append(to_server, [type |-> command])
        BY <3>2 DEF TypeCommand, SendToServer
      <4>3. [type |-> command] \in FromPlayer /\ [type |-> command].type # "Position"
        BY <4>1, <4>2, PacketTypes
      <4>4. QED
        BY <4>2, <4>3
    <3>3. QED
      BY <1>14, <3>1, <3>2
  <2>3. QED
    BY <1>5, <2>1, <2>2 DEF Teleports
<1>15. CASE ReceiveSynchronize
  <2>1. SUFFICES ASSUME TRUE PROVE \E k, heights : Descends(k, heights)'
    BY DEF Anchored
  <2>2. /\ player'.y = SpawnY
        /\ to_server' = Append(to_server, [type |-> "Position", y |-> SpawnY])
    BY <1>15 DEF ReceiveSynchronize, TypeOK
  <2>3. Len(to_server') = n + 1 /\ to_server'[n + 1] = [type |-> "Position", y |-> SpawnY]
    BY <1>1, <2>2, SpawnType, PacketTypes, AppendFacts
  <2>4. PICK k, heights :
          /\ k = n + 1 /\ heights \in [0 .. n + 1 -> Int] /\ heights[n + 1] = SpawnY
          /\ n + 1 \in 0 .. n + 1 /\ n + 1 # 0
    <3> DEFINE heights == [i \in 0 .. n + 1 |-> SpawnY]
    <3>1. /\ heights \in [0 .. n + 1 -> Int] /\ heights[n + 1] = SpawnY
          /\ n + 1 \in 0 .. n + 1 /\ n + 1 # 0
      BY <1>1, <1>2
    <3>2. QED
      BY <3>1
  <2>5. \A i \in (n + 1) + 1 .. n + 1 : FALSE
    BY <1>1
  <2>6. Descends(k, heights)'
    <3>1. /\ to_server'[n + 1].type = "Position" /\ to_server'[n + 1].y = SpawnY
      BY <2>3
    <3>2. \A i \in (n + 1) + 1 .. Len(to_server') : FALSE
      BY <2>3, <2>5
    <3>3. \A i, j \in n + 1 .. Len(to_server') : i = j
      BY <1>1, <2>3
    <3>4. Steps(k, heights)'
      BY <2>4, <3>2, <3>3 DEF Steps
    <3>5. QED
      BY <1>1, <1>2, <2>2, <2>3, <2>4, <3>1, <3>4 DEF Descends
  <2>7. QED
    BY <2>6
<1>16. CASE ReceiveAbilities
  <2>1. /\ player'.y = player.y /\ to_client' = Tail(to_client) /\ feet_y' = feet_y
        /\ to_server' = to_server /\ to_client # << >>
    BY <1>16 DEF ReceiveAbilities, TypeOK
  <2>2. Teleports' = {} => Teleports = {}
    <3>1. /\ Len(to_client) \in Nat /\ DOMAIN to_client = 1 .. Len(to_client)
          /\ DOMAIN to_client' = 1 .. Len(to_client) - 1
          /\ \A i \in 1 .. Len(to_client) - 1 : to_client'[i] = to_client[i + 1]
          /\ to_client[1].type = "Abilities"
      BY <1>1, <1>16, <2>1, TailFacts DEF ReceiveAbilities
    <3>2. ASSUME NEW i \in 1 .. Len(to_client), to_client[i].type = "SynchronizePosition"
          PROVE  i - 1 \in Teleports'
      <4>1. i # 1
        BY <3>1, <3>2
      <4>2. i - 1 \in 1 .. Len(to_client) - 1 /\ (i - 1) + 1 = i
        BY <3>1, <4>1
      <4>3. to_client'[i - 1] = to_client[i]
        BY <3>1, <4>2
      <4>4. QED
        BY <3>1, <3>2, <4>2, <4>3 DEF Teleports
    <3>3. QED
      BY <3>1, <3>2 DEF Teleports
  <2>3. QED
    BY <1>3, <2>1, <2>2
<1>17. CASE UNCHANGED vars
  BY <1>3, <1>17 DEF vars, Teleports
<1>18. QED
  BY <1>7, <1>9, <1>10, <1>12, <1>13, <1>14, <1>15, <1>16, <1>17
  DEF Next, ServerStep, ClientStep

\* Players that fall no faster than FALL_SPEED are brought back, from whatever
\* depth, however many packets are under way and whatever commands they use
\* (set_player_position.rs, 36-60).
THEOREM FallersComeBack ==
  ASSUME TopSpeed <= FallSpeed
  PROVE  Spec => []FallenAreTeleported
<1> DEFINE I == TypeOK /\ Anchored
<1>1. Init => I
  <2>1. SUFFICES ASSUME Init PROVE Anchored
    BY InitType
  <2> DEFINE heights == [i \in 0 .. 0 |-> SpawnY]
  <2>2. /\ heights \in [0 .. 0 -> Int] /\ 0 \in 0 .. 0 /\ heights[0] = SpawnY
        /\ SpawnY >= MinY
    <3>1. SpawnY \in Int /\ MinY \in Int /\ SpawnY >= MinY /\ 0 \in 0 .. 0
      BY HeightsAssumption
    <3>2. QED
      BY <3>1
  <2>3. Len(to_server) = 0 /\ feet_y = SpawnY /\ player.y = SpawnY
    <3>1. to_server = << >> /\ player = [y |-> SpawnY, abilities |-> abilities]
      BY <2>1 DEF Init
    <3>2. QED
      BY <2>1, <3>1 DEF Init
  <2> HIDE DEF heights
  <2>4. \A i \in 0 + 1 .. 0 : FALSE
    OBVIOUS
  <2>5. Steps(0, heights)
    BY <2>3, <2>4 DEF Steps
  <2>6. Descends(0, heights)
    BY <2>2, <2>3, <2>5 DEF Descends
  <2>7. QED
    BY <2>6 DEF Anchored
<1>2. I /\ [Next]_vars => I'
  BY StepType, StepAnchored
<1>3. I => FallenAreTeleported
  <2>1. SUFFICES ASSUME TypeOK, Teleports = {}, PositionsOnTheWay = {},
                        NEW k, NEW heights, Descends(k, heights)
                 PROVE  player.y >= MinY
    BY HeightsAssumption DEF Anchored, FallenAreTeleported, TypeOK, Heights
  <2> DEFINE n == Len(to_server)
  <2>2. /\ n \in Nat /\ \A i \in 1 .. n : to_server[i].type # "Position"
        /\ feet_y \in Int /\ player.y \in Int
    BY <2>1 DEF TypeOK, PositionsOnTheWay, Heights
  <2>3. k = 0 /\ heights[0] >= MinY
    BY <2>1, <2>2 DEF Descends
  <2>4. heights[0] = heights[n]
    <3>1. 0 \in 0 .. n /\ n \in 0 .. n /\ 0 <= n /\ \A m \in 0 + 1 .. n : m \in 1 .. n
      BY <2>2
    <3>2. QED
      BY <2>1, <2>2, <2>3, <3>1 DEF Descends, Steps
  <2>5. QED
    BY <2>1, <2>3, <2>4 DEF Descends
<1>4. QED
  BY <1>1, <1>2, <1>3, PTL DEF Spec
-----------------------------------------------------------------------------
(* One teleport for a fall *)

\* Below the boundary, or put back at the spawn.
Out == feet_y < MinY \/ feet_y = SpawnY

\* Of the positions under way the first k are of a fall that has been answered,
\* the others go down to where the player is.
Falls(k) ==
  /\ k \in 0 .. Len(to_server)
  /\ \A i \in 1 .. k : to_server[i].y < MinY
  /\ \A i, j \in k + 1 .. Len(to_server) : i <= j => to_server[j].y <= to_server[i].y
  /\ \A i \in k + 1 .. Len(to_server) : player.y <= to_server[i].y
  /\ k > 0 => Out

\* A player that only falls, and what is under way then.
Falling ==
  /\ ~player.abilities.flying /\ ~player.abilities.allowed
  /\ \A i \in 1 .. Len(to_server) : to_server[i].type = "Position"
  /\ \A i \in 1 .. Len(to_client) : to_client[i].type = "SynchronizePosition"
  /\ Len(to_client) <= 1
  /\ to_client = << >> => \E k \in Nat : Falls(k)
  /\ to_client # << >> => Falls(Len(to_server)) /\ player.y < MinY /\ Out

\* No step makes the server answer a fall twice.
LEMMA StepFalling ==
  ASSUME TypeOK, OnlyFalls, Falling, [Next]_vars, SpawnY - MinY > FallSpeed
  PROVE  OnlyFalls' /\ Falling'
<1>0. PICK n : n = Len(to_server)
  OBVIOUS
<1>1. /\ to_server \in Seq(FromPlayer) /\ n \in Nat /\ n = Len(to_server)
      /\ to_client \in Seq(FromServer) /\ Len(to_client) \in Nat
      /\ player.y \in Int /\ feet_y \in Int
      /\ \A i \in 1 .. n : to_server[i].y \in Int
  <2>1. \A i \in 1 .. n : to_server[i] \in FromPlayer /\ to_server[i].type = "Position"
    BY <1>0 DEF TypeOK, Falling
  <2>2. QED
    BY <1>0, <2>1, PacketFields DEF TypeOK, Heights
<1>2. MinY \in Int /\ SpawnY \in Int /\ SpawnY >= MinY /\ FallSpeed \in Nat
  BY HeightsAssumption
<1>3. OnlyFalls'
  <2>1. habit' = habit
    BY DEF Next, ServerStep, ClientStep, vars, HandlePosition, HandleSetFlying, RunSpawn,
           RunFly, RunFlySpeed, Move, ToggleFlight, TypeCommand, ReceiveSynchronize,
           ReceiveAbilities
  <2>2. QED
    BY <1>1, <2>1 DEF OnlyFalls
<1>4. ~(HandleSetFlying \/ RunSpawn \/ RunFly \/ RunFlySpeed \/ ToggleFlight
          \/ TypeCommand \/ ReceiveAbilities)
  <2>1. to_server # << >> => Head(to_server).type = "Position"
    BY <1>1, TailFacts DEF Falling
  <2>2. to_client # << >> => Head(to_client).type = "SynchronizePosition"
    BY <1>1, TailFacts DEF Falling
  <2>3. habit.commands = {} /\ ~player.abilities.allowed
    BY DEF OnlyFalls, Falling
  <2>4. QED
    BY <2>1, <2>2, <2>3 DEF HandleSetFlying, RunSpawn, RunFly, RunFlySpeed, ToggleFlight,
       TypeCommand, ReceiveAbilities, Takes
<1>5. CASE HandlePosition
  <2> DEFINE y == to_server[1].y
  <2>1. /\ to_server # << >> /\ y \in Int /\ to_server' = Tail(to_server) /\ player' = player
        /\ OutOfBounds(y) => /\ feet_y' = SpawnY
                            /\ to_client' = Append(to_client, Synchronize)
        /\ ~OutOfBounds(y) => feet_y' = y /\ to_client' = to_client
    BY <1>5, PositionHandled DEF Heights
  <2>2. /\ n >= 1 /\ Len(to_server') = n - 1
        /\ \A i \in 1 .. n - 1 : to_server'[i] = to_server[i + 1]
    BY <1>1, <2>1, TailFacts
  <2>3. \A i \in 1 .. n - 1 : i + 1 \in 1 .. n
    BY <1>1
  <2>4. \A i \in 1 .. Len(to_server') : to_server'[i].type = "Position"
    BY <1>1, <2>2, <2>3 DEF Falling
  <2>5. Out /\ y < MinY => ~OutOfBounds(y)
    BY <1>1, <1>2, <2>1 DEF Out, OutOfBounds
  <2> HIDE DEF y
  <2>6. ASSUME NEW k \in 1 .. n, Falls(k), Out
        PROVE  to_client' = to_client /\ Out' /\ Falls(k - 1)'
    <3>1. y < MinY
      BY <1>1, <2>6 DEF Falls, y
    <3>2. to_client' = to_client /\ feet_y' = y
      BY <2>1, <2>5, <2>6, <3>1
    <3>3. Out'
      BY <3>1, <3>2 DEF Out
    <3>4. /\ k - 1 \in 0 .. n - 1
          /\ \A i \in 1 .. k - 1 : i + 1 \in 1 .. k /\ i \in 1 .. n - 1
          /\ \A i \in (k - 1) + 1 .. n - 1 : i + 1 \in k + 1 .. n /\ i \in 1 .. n - 1
      BY <1>1
    <3>5. /\ \A i \in 1 .. k - 1 : to_server'[i].y < MinY
          /\ \A i, j \in (k - 1) + 1 .. n - 1 : i <= j => to_server'[j].y <= to_server'[i].y
          /\ \A i \in (k - 1) + 1 .. n - 1 : player.y <= to_server'[i].y
      <4>1. \A i \in 1 .. k - 1 : to_server'[i].y < MinY
        BY <1>1, <2>2, <2>6, <3>4 DEF Falls
      <4>2. ASSUME NEW i \in (k - 1) + 1 .. n - 1, NEW j \in (k - 1) + 1 .. n - 1, i <= j
            PROVE  to_server'[j].y <= to_server'[i].y
        <5>1. /\ i + 1 \in k + 1 .. n /\ j + 1 \in k + 1 .. n /\ i + 1 <= j + 1
              /\ to_server'[i] = to_server[i + 1] /\ to_server'[j] = to_server[j + 1]
          BY <1>1, <2>2, <3>4, <4>2
        <5>2. QED
          BY <1>1, <2>6, <5>1 DEF Falls
      <4>3. \A i \in (k - 1) + 1 .. n - 1 : player.y <= to_server'[i].y
        BY <1>1, <2>2, <2>6, <3>4 DEF Falls
      <4>4. QED
        BY <4>1, <4>2, <4>3
    <3>6. QED
      BY <1>1, <2>1, <2>2, <3>2, <3>3, <3>4, <3>5 DEF Falls
  <2>7. CASE to_client # << >>
    <3>1. /\ n \in 1 .. n /\ Falls(n) /\ Out /\ player.y < MinY
          /\ n - 1 = Len(to_server')
      BY <1>1, <2>2, <2>7 DEF Falling
    <3>2. to_client' = to_client /\ Out' /\ Falls(n - 1)'
      BY <2>6, <3>1
    <3>3. Falls(Len(to_server))'
      BY <1>1, <2>2, <3>2 DEF Falls
    <3>4. QED
      BY <1>1, <1>3, <2>1, <2>4, <2>7, <3>1, <3>2, <3>3 DEF Falling
  <2>8. CASE to_client = << >>
    <3>1. PICK k \in Nat : Falls(k)
      BY <1>1, <2>8 DEF Falling
    <3>2. CASE k > 0
      <4>1. k \in 1 .. n /\ Out /\ k - 1 \in Nat
        BY <1>1, <3>1, <3>2 DEF Falls
      <4>2. to_client' = to_client /\ Falls(k - 1)'
        BY <2>6, <3>1, <4>1
      <4>3. \E i \in Nat : Falls(i)'
        BY <4>1, <4>2
      <4>4. QED
        BY <1>1, <1>3, <2>1, <2>4, <2>8, <4>2, <4>3 DEF Falling
    <3>3. CASE k = 0
      <4>1. /\ \A i, j \in 1 .. n : i <= j => to_server[j].y <= to_server[i].y
            /\ \A i \in 1 .. n : player.y <= to_server[i].y
        BY <1>1, <3>1, <3>3 DEF Falls
      <4>2. /\ \A i, j \in 1 .. n - 1 : i <= j => to_server'[j].y <= to_server'[i].y
            /\ \A i \in 1 .. n - 1 : player.y <= to_server'[i].y
        <5>1. \A i, j \in 1 .. n - 1 : i <= j => i + 1 <= j + 1
          BY <1>1
        <5>2. QED
          BY <2>2, <2>3, <4>1, <5>1
      <4>3. CASE OutOfBounds(y)
        <5>1. to_client' = << Synchronize >> /\ feet_y' = SpawnY /\ y < MinY
          BY <2>1, <2>8, <4>3 DEF OutOfBounds
        <5>2. \A i \in 1 .. n - 1 : to_server'[i].y < MinY
          <6>1. \A i \in 1 .. n : to_server[i].y <= y
            <7>1. 1 \in 1 .. n /\ \A i \in 1 .. n : 1 <= i
              BY <1>1, <2>2
            <7>2. QED
              BY <4>1, <7>1 DEF y
          <6>2. \A i \in 1 .. n : to_server[i].y < MinY
            BY <1>1, <1>2, <2>1, <5>1, <6>1
          <6>3. QED
            BY <2>2, <2>3, <6>2
        <5>3. player.y < MinY
          <6>1. 1 \in 1 .. n /\ player.y <= y
            BY <1>1, <2>2, <4>1 DEF y
          <6>2. QED
            BY <1>1, <1>2, <2>1, <5>1, <6>1
        <5>4. Out'
          BY <5>1 DEF Out
        <5>5. Falls(Len(to_server))'
          <6>1. n - 1 \in 0 .. n - 1 /\ \A i \in (n - 1) + 1 .. n - 1 : FALSE
            BY <1>1, <2>2
          <6>2. QED
            BY <1>1, <2>2, <5>2, <5>4, <6>1 DEF Falls
        <5>6. /\ to_client' # << >> /\ Len(to_client') = 1
              /\ \A i \in 1 .. 1 : to_client'[i].type = "SynchronizePosition"
          BY <5>1 DEF Synchronize
        <5>7. QED
          BY <1>1, <1>3, <2>1, <2>4, <5>3, <5>4, <5>5, <5>6 DEF Falling
      <4>4. CASE ~OutOfBounds(y)
        <5>1. to_client' = << >>
          BY <2>1, <2>8, <4>4
        <5>2. Falls(0)'
          <6>1. 0 \in 0 .. n - 1 /\ (\A i \in 1 .. 0 : FALSE) /\ 0 + 1 = 1 /\ ~(0 > 0)
            BY <1>1, <2>2
          <6>2. QED
            BY <1>1, <2>1, <2>2, <4>2, <6>1 DEF Falls
        <5>3. \E i \in Nat : Falls(i)'
          BY <5>2
        <5>4. QED
          BY <1>1, <1>3, <2>1, <2>4, <5>1, <5>3 DEF Falling
      <4>5. QED
        BY <4>3, <4>4
    <3>4. QED
      BY <3>2, <3>3
  <2>9. QED
    BY <2>7, <2>8
<1>6. ASSUME NEW y \in Int,
             to_server' = Append(to_server, [type |-> "Position", y |-> y]),
             [type |-> "Position", y |-> y] \in FromPlayer,
             player'.y = y, feet_y' = feet_y
      PROVE  /\ \A i \in 1 .. Len(to_server') : to_server'[i].type = "Position"
             /\ y < player.y => \A k \in Nat : Falls(k) => Falls(k)'
             /\ y < MinY /\ Out => (Falls(n) => Falls(Len(to_server))')
             /\ Falls(n) => Falls(n)'
  <2>1. /\ Len(to_server') = n + 1 /\ to_server'[n + 1].type = "Position"
        /\ to_server'[n + 1].y = y
        /\ \A i \in 1 .. n : to_server'[i] = to_server[i]
    BY <1>1, <1>6, AppendFacts
  <2>2. \A i \in 1 .. n + 1 : i # n + 1 => i \in 1 .. n
    BY <1>1
  <2>3. \A i \in 1 .. Len(to_server') : to_server'[i].type = "Position"
    BY <1>1, <2>1, <2>2 DEF Falling
  <2>4. Out' <=> Out
    BY <1>6 DEF Out
  <2>5. ASSUME NEW k \in Nat, Falls(k), y < player.y
        PROVE  Falls(k)'
    <3>1. k \in 0 .. n /\ k \in 0 .. n + 1 /\ \A i \in 1 .. k : i \in 1 .. n
      BY <1>1, <2>5 DEF Falls
    <3>2. \A i \in k + 1 .. n + 1 : (i = n + 1 \/ i \in k + 1 .. n) /\ (i \in k + 1 .. n => i \in 1 .. n)
      BY <1>1, <3>1
    <3>3. \A i \in k + 1 .. n + 1 : y <= to_server'[i].y
      BY <1>1, <1>6, <2>1, <2>5, <3>2 DEF Falls
    <3>4. \A i, j \in k + 1 .. n + 1 : i <= j => to_server'[j].y <= to_server'[i].y
      <4>1. SUFFICES ASSUME NEW i \in k + 1 .. n + 1, NEW j \in k + 1 .. n + 1, i <= j
                     PROVE  to_server'[j].y <= to_server'[i].y
        OBVIOUS
      <4>2. CASE j = n + 1
        BY <2>1, <3>3, <4>2
      <4>3. CASE j # n + 1
        <5>1. i \in k + 1 .. n /\ j \in k + 1 .. n /\ i \in 1 .. n /\ j \in 1 .. n
          BY <1>1, <3>1, <4>1, <4>3
        <5>2. QED
          BY <1>1, <2>1, <2>5, <4>1, <5>1 DEF Falls
      <4>4. QED
        BY <4>2, <4>3
    <3>5. \A i \in 1 .. k : to_server'[i].y < MinY
      BY <1>1, <2>1, <2>5, <3>1 DEF Falls
    <3>6. QED
      BY <1>1, <1>6, <2>1, <2>4, <2>5, <3>1, <3>3, <3>4, <3>5 DEF Falls
  <2>6. ASSUME Falls(n), y < MinY, Out
        PROVE  Falls(Len(to_server))'
    <3>1. \A i \in 1 .. n + 1 : to_server'[i].y < MinY
      BY <1>1, <2>1, <2>2, <2>6 DEF Falls
    <3>2. n + 1 \in 0 .. n + 1 /\ \A i \in (n + 1) + 1 .. n + 1 : FALSE
      BY <1>1
    <3>3. QED
      BY <1>1, <2>1, <2>4, <2>6, <3>1, <3>2 DEF Falls
  <2>7. ASSUME Falls(n)
        PROVE  Falls(n)'
    <3>1. \A i \in 1 .. n : to_server'[i].y < MinY
      BY <1>1, <2>1, <2>7 DEF Falls
    <3>2. n \in 0 .. n + 1 /\ \A i \in n + 1 .. n + 1 : i = n + 1
      BY <1>1
    <3>3. n > 0 => Out'
      BY <1>1, <2>4, <2>7 DEF Falls
    <3>4. \A i \in n + 1 .. n + 1 : player'.y <= to_server'[i].y
      BY <1>1, <1>6, <2>1, <3>2
    <3>5. \A i, j \in n + 1 .. n + 1 : i <= j => to_server'[j].y <= to_server'[i].y
      BY <1>1, <1>6, <2>1, <3>2
    <3>6. QED
      BY <2>1, <3>1, <3>2, <3>3, <3>4, <3>5 DEF Falls
  <2>8. QED
    BY <2>3, <2>5, <2>6, <2>7
<1>7. CASE Move
  <2>1. PICK y \in Heights :
          /\ y # player.y
          /\ y > player.y => player.abilities.flying
          /\ player' = [player EXCEPT !.y = y]
          /\ to_server' = Append(to_server, [type |-> "Position", y |-> y])
    BY <1>7 DEF Move, SendToServer
  <2>2. /\ y \in Int /\ y < player.y /\ player'.y = y
        /\ player'.abilities = player.abilities
        /\ [type |-> "Position", y |-> y] \in FromPlayer
    <3>1. y \in Int /\ [type |-> "Position", y |-> y] \in FromPlayer
      BY PacketTypes DEF Heights
    <3>2. player'.y = y /\ player'.abilities = player.abilities
      BY <2>1 DEF TypeOK
    <3>3. y < player.y
      <4>1. ~(y > player.y) /\ y # player.y
        BY <2>1 DEF Falling
      <4>2. QED
        BY <1>1, <3>1, <4>1
    <3>4. QED
      BY <3>1, <3>2, <3>3
  <2>3. feet_y' = feet_y /\ to_client' = to_client
    BY <1>7 DEF Move
  <2>4. /\ \A i \in 1 .. Len(to_server') : to_server'[i].type = "Position"
        /\ \A k \in Nat : Falls(k) => Falls(k)'
        /\ y < MinY /\ Out => (Falls(n) => Falls(Len(to_server))')
    BY <1>6, <2>1, <2>2, <2>3
  <2>5. to_client # << >> => player'.y < MinY /\ Out' /\ Falls(Len(to_server))'
    <3>1. SUFFICES ASSUME to_client # << >>
                   PROVE  player'.y < MinY /\ Out' /\ Falls(Len(to_server))'
      OBVIOUS
    <3>2. Falls(n) /\ player.y < MinY /\ Out
      BY <1>0, <3>1 DEF Falling
    <3>3. y < MinY
      BY <1>1, <1>2, <2>2, <3>2
    <3>4. Out'
      BY <2>3, <3>2 DEF Out
    <3>5. QED
      BY <2>2, <2>4, <3>2, <3>3, <3>4
  <2>6. to_client = << >> => \E k \in Nat : Falls(k)'
    BY <2>4 DEF Falling
  <2>7. QED
    BY <1>3, <2>2, <2>3, <2>4, <2>5, <2>6 DEF Falling
<1>8. CASE ReceiveSynchronize
  <2>1. /\ to_client # << >> /\ to_client' = Tail(to_client) /\ feet_y' = feet_y
        /\ player'.y = SpawnY /\ player'.abilities = player.abilities
        /\ to_server' = Append(to_server, [type |-> "Position", y |-> SpawnY])
    BY <1>8 DEF ReceiveSynchronize, TypeOK
  <2>2. Falls(n) /\ player.y < MinY /\ Out /\ Len(to_client) = 1
    <3>1. Falls(n) /\ player.y < MinY /\ Out /\ Len(to_client) <= 1
      BY <1>0, <2>1 DEF Falling
    <3>2. Len(to_client) >= 1
      BY <1>1, <2>1, TailFacts
    <3>3. Len(to_client) = 1
      <4> DEFINE m == Len(to_client)
      <4>1. m \in Nat /\ m <= 1 /\ m >= 1
        BY <1>1, <3>1, <3>2
      <4> HIDE DEF m
      <4>2. m = 1
        BY <4>1
      <4>3. QED
        BY <4>2 DEF m
    <3>4. QED
      BY <3>1, <3>3
  <2>3. to_client' = << >>
    BY <1>1, <2>1, <2>2
  <2>4. [type |-> "Position", y |-> SpawnY] \in FromPlayer
    BY SpawnType, PacketTypes
  <2>5. /\ \A i \in 1 .. Len(to_server') : to_server'[i].type = "Position"
        /\ Falls(n) => Falls(n)'
    BY <1>2, <1>6, <2>1, <2>2, <2>4
  <2>6. \E k \in Nat : Falls(k)'
    BY <1>1, <2>2, <2>5
  <2>7. QED
    BY <1>3, <2>1, <2>3, <2>5, <2>6 DEF Falling
<1>9. CASE UNCHANGED vars
  BY <1>3, <1>9 DEF vars, Falling, Falls, Out
<1>10. QED
  BY <1>4, <1>5, <1>7, <1>8, <1>9 DEF Next, ServerStep, ClientStep

\* A player that only falls is teleported once for each fall, though the server
\* sees several positions below the boundary before the player is back
\* (set_player_position.rs, 36-60).
THEOREM OneTeleportForAFall ==
  ASSUME SpawnY - MinY > FallSpeed
  PROVE  Spec => []OneTeleportPerFall
<1> DEFINE I == TypeOK /\ (OnlyFalls => Falling)
<1>1. Init => I
  <2>1. SUFFICES ASSUME Init, OnlyFalls PROVE Falling
    BY InitType
  <2>2. /\ to_client = << >> /\ to_server = << >> /\ player.abilities = habit.abilities
        /\ habit \in Habits
    BY <2>1 DEF Init
  <2>3. ~player.abilities.flying /\ ~player.abilities.allowed
    BY <2>1, <2>2, PlayAssumption DEF OnlyFalls
  <2>4. Falls(0)
    BY <2>2 DEF Falls
  <2>5. QED
    BY <2>2, <2>3, <2>4 DEF Falling
<1>2. I /\ [Next]_vars => I'
  <2>1. ASSUME [Next]_vars, TypeOK, OnlyFalls'
        PROVE  OnlyFalls
    <3>1. habit' = habit
      BY <2>1 DEF Next, ServerStep, ClientStep, vars, HandlePosition, HandleSetFlying,
         RunSpawn, RunFly, RunFlySpeed, Move, ToggleFlight, TypeCommand,
         ReceiveSynchronize, ReceiveAbilities
    <3>2. QED
      BY <2>1, <3>1 DEF OnlyFalls
  <2>2. QED
    BY <2>1, StepType, StepFalling
<1>3. I => OneTeleportPerFall
  <2>1. SUFFICES ASSUME TypeOK, Falling, NEW i \in Teleports, NEW j \in Teleports
                 PROVE  i = j
    BY DEF OneTeleportPerFall
  <2>2. i \in 1 .. Len(to_client) /\ j \in 1 .. Len(to_client) /\ Len(to_client) \in Nat
    BY <2>1 DEF Teleports, TypeOK
  <2>3. QED
    BY <2>1, <2>2 DEF Falling
<1>4. QED
  BY <1>1, <1>2, <1>3, PTL DEF Spec
=============================================================================
