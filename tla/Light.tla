-------------------------------- MODULE Light --------------------------------
(***************************************************************************)
(* The propagation of light through a loaded schematic                      *)
(* (crates/pico_structures/src/world.rs, propagate_light_starlight).        *)
(*                                                                         *)
(* A volume of light levels starts with its sources. A queue of entries,    *)
(* each a cell, a level and the directions still worth looking at, spreads  *)
(* it: every entry offers its level minus one to its neighbours, and a      *)
(* neighbour that takes the offer is queued, without the way back. The      *)
(* model takes one direction of one entry per step.                         *)
(*                                                                         *)
(* A cell is its coordinates, where the code has an index into a vector;    *)
(* being in bounds is being in the domain of the volume.                    *)
(***************************************************************************)
EXTENDS Integers, Sequences, FiniteSets

CONSTANT MaxLight               \* 15 in the code

ASSUME MaxLightAssumption == MaxLight \in Nat

VARIABLES
    transparent,                \* cells that light passes through
    sources,                    \* the volume before propagation
    light_volume,               \* the volume
    queue,                      \* entries not yet read
    entry                       \* the entry that is being read

lightVars == <<transparent, sources, light_volume, queue, entry>>

\* -x, +x, -y, +y, -z, +z
Dirs == 0..5

Neighbor(cell, dir) ==
    LET x == cell[1]  y == cell[2]  z == cell[3]
    IN  CASE dir = 0 -> <<x - 1, y, z>>
          [] dir = 1 -> <<x + 1, y, z>>
          [] dir = 2 -> <<x, y - 1, z>>
          [] dir = 3 -> <<x, y + 1, z>>
          [] dir = 4 -> <<x, y, z - 1>>
          [] dir = 5 -> <<x, y, z + 1>>

Opposite(dir) == IF dir \in {0, 2, 4} THEN dir + 1 ELSE dir - 1

\* Mutant: the way on is left out, not the way back.
ExcludeOnward(dir) == Dirs \ {dir}

\* exclude_opposite: the directions a cell lit from the given side looks at
ExcludeOpposite(dir) == Dirs \ {Opposite(dir)}

Cells == DOMAIN light_volume

\* The order of the indexes: y, then z, then x.
Before(c, d) ==
    \/ c[2] < d[2]
    \/ c[2] = d[2] /\ c[3] < d[3]
    \/ c[2] = d[2] /\ c[3] = d[3] /\ c[1] < d[1]

Rank(c, cells) == Cardinality({b \in cells : ~Before(c, b)})

\* Sources of level 1 have nothing to give.
Lit(volume) == {c \in DOMAIN volume : volume[c] > 1}

InitialQueue(volume) ==
    LET Source(i) == CHOOSE c \in Lit(volume) : Rank(c, Lit(volume)) = i
    IN  [i \in 1..Cardinality(Lit(volume)) |->
           [cell |-> Source(i), level |-> volume[Source(i)], dirs |-> Dirs]]

Entries == [cell : Cells, level : 0..MaxLight, dirs : SUBSET Dirs]

\* No entry is being read.
NoEntry == [cell |-> <<0, 0, 0>>, level |-> 0, dirs |-> {}]

(***************************************************************************)
(* One call of propagate_light_starlight.                                   *)
(***************************************************************************)
StartPropagation(volume) ==
    /\ sources' = volume
    /\ light_volume' = volume
    /\ queue' = InitialQueue(volume)
    /\ entry' = NoEntry

ReadEntry ==
    /\ entry.dirs = {}
    /\ queue # <<>>
    /\ entry' = Head(queue)
    /\ queue' = Tail(queue)
    /\ UNCHANGED <<transparent, sources, light_volume>>

\* The neighbour in a direction takes what it is offered if that is more light
\* than it has.
Takes(dir) ==
    LET n == Neighbor(entry.cell, dir)
    IN  /\ n \in Cells
        /\ transparent[n]
        /\ light_volume[n] < entry.level - 1

CheckDirection ==
    /\ entry.dirs # {}
    /\ LET dir == CHOOSE d \in entry.dirs : \A e \in entry.dirs : d <= e
           n == Neighbor(entry.cell, dir)
           target == entry.level - 1
       IN  /\ entry' = [entry EXCEPT !.dirs = @ \ {dir}]
           /\ IF Takes(dir)
              THEN /\ light_volume' = [light_volume EXCEPT ![n] = target]
                   /\ queue' = IF target > 1
                               THEN Append(queue, [cell |-> n, level |-> target,
                                                   dirs |-> ExcludeOpposite(dir)])
                               ELSE queue
              ELSE UNCHANGED <<light_volume, queue>>
    /\ UNCHANGED <<transparent, sources>>

Propagate == ReadEntry \/ CheckDirection

PropagationIsDone == entry.dirs = {} /\ queue = <<>>

\* A propagation of its own, from any volume of any shape.
Volumes == UNION {[(0..s[1]) \X (0..s[2]) \X (0..s[3]) -> 0..MaxLight] :
                    s \in Nat \X Nat \X Nat}

LightInit ==
    /\ light_volume \in Volumes
    /\ transparent \in [Cells -> BOOLEAN]
    /\ sources = light_volume
    /\ queue = InitialQueue(light_volume)
    /\ entry = NoEntry

LightSpec == LightInit /\ [][Propagate]_lightVars

-----------------------------------------------------------------------------
\* A cell shines on another if light can pass from the one to the other.
Shines(c, d) ==
    /\ transparent[d]
    /\ \E dir \in Dirs : d = Neighbor(c, dir)

\* The light of every cell is its own or comes from a brighter neighbour: in no
\* state is a cell brighter than the sources around it make it.
LightIsGrounded ==
    \A c \in Cells :
        \/ light_volume[c] = sources[c]
        \/ /\ light_volume[c] > sources[c]
           /\ \E d \in Cells : Shines(d, c) /\ light_volume[d] > light_volume[c]

\* When propagation is done, every cell has the light of its brightest source,
\* less one for each step of the way: what it has is its own or one less than a
\* neighbour's, no neighbour could give it more, and none took its own away.
\* Leaving out the way back, reading an entry whose cell has become brighter
\* since, and not queueing what is down to level 1 lose nothing.
LightIsExact ==
    PropagationIsDone =>
        \A c \in Cells :
            /\ light_volume[c] >= sources[c]
            /\ \A d \in Cells : Shines(d, c) => light_volume[c] >= light_volume[d] - 1
            /\ light_volume[c] > sources[c] =>
                 \E d \in Cells : Shines(d, c) /\ light_volume[c] = light_volume[d] - 1

=============================================================================
