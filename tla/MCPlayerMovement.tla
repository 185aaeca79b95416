-------------------------- MODULE MCPlayerMovement --------------------------
(***************************************************************************)
(* Instances of PlayerMovement for TLC: the boundary lies two falls under  *)
(* the spawn, as the default one lies many falls under the default spawn.  *)
(***************************************************************************)
EXTENDS PlayerMovement

MCMinY == -1
MCLowestY == -4

Habit(allowed, flying, commands) ==
  [abilities |-> [allowed |-> allowed, flying |-> flying], commands |-> commands]
Faller == Habit(FALSE, FALSE, {})
AllHabits ==
  {Faller} \cup {Habit(flight[1], flight[2], {"Spawn", "Fly", "FlySpeed"}) :
                   flight \in {<< FALSE, FALSE >>, << TRUE, FALSE >>, << TRUE, TRUE >>}}
=============================================================================
