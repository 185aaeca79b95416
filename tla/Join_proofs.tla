------------------------------ MODULE Join_proofs ------------------------------
(***************************************************************************)
(* What a player is told by joining, and the light of the world the player  *)
(* sees, for every configuration file, schematic, version and size.         *)
(*                                                                         *)
(* Light: whenever a cell has light to give to a neighbour, an entry is     *)
(* pending that knows the cell's present level and still looks that way     *)
(* (LightInv). With an empty queue no cell has light to give. The limbo     *)
(* begins a propagation from a volume of this kind (WorldLightInv).         *)
(*                                                                         *)
(* The spiral: a place of its walk is given by the square that is filled    *)
(* and the leg; what has arrived is that square and the part of the ring    *)
(* around it that the leg has reached (OnItsWay).                           *)
(*                                                                         *)
(* The join (JoinInv): of each thing the client is to be told, it has been  *)
(* told it or a packet that tells it is still in the batch, and no packet   *)
(* of the batch tells anything else. A batch is looked at when it is made;  *)
(* from then on each step takes one producer off it. With nothing left of   *)
(* the batch everything has been told.                                      *)
(***************************************************************************)
EXTENDS Join, FiniteSetTheorems, SequenceTheorems, TLAPS

-----------------------------------------------------------------------------
(* The propagation of light                                                    *)

Points == Int \X Int \X Int

LightTypeOK ==
  /\ Cells \subseteq Points
  /\ light_volume \in [Cells -> 0..MaxLight]
  /\ sources \in [Cells -> 0..MaxLight]
  /\ transparent \in [Cells -> BOOLEAN]
  /\ queue \in Seq(Entries)
  /\ entry \in Entries

Pending(e) == e = entry \/ \E i \in 1..Len(queue) : e = queue[i]

\* A cell may have become brighter than its entries, never darker.
EntriesAreOld == \A e \in Entries : Pending(e) => e.level <= light_volume[e.cell]

CouldGive(c, dir) ==
  LET n == Neighbor(c, dir)
  IN  n \in Cells /\ transparent[n] /\ light_volume[n] < light_volume[c] - 1

GiftsArePending ==
  \A c \in Cells, dir \in Dirs :
    CouldGive(c, dir) =>
      \E e \in Entries : Pending(e) /\ e.cell = c /\ e.level = light_volume[c] /\ dir \in e.dirs

LightInv == LightTypeOK /\ EntriesAreOld /\ GiftsArePending /\ LightIsGrounded

-----------------------------------------------------------------------------
(* Directions and cells *)

LEMMA NeighborPoint ==
  ASSUME NEW c \in Points, NEW dir \in Dirs
  PROVE  /\ Neighbor(c, dir) \in Points
         /\ Neighbor(c, dir) # c
         /\ Opposite(dir) \in Dirs
         /\ \A back \in Dirs :
              back = Opposite(dir) => Neighbor(Neighbor(c, dir), back) = c
<1> DEFINE x == c[1]  y == c[2]  z == c[3]
<1>1. c = <<x, y, z>> /\ x \in Int /\ y \in Int /\ z \in Int
  BY DEF Points
<1> HIDE DEF x, y, z
<1>2. CASE dir = 0
  BY <1>1, <1>2 DEF Neighbor, Opposite, Dirs, Points
<1>3. CASE dir = 1
  BY <1>1, <1>3 DEF Neighbor, Opposite, Dirs, Points
<1>4. CASE dir = 2
  BY <1>1, <1>4 DEF Neighbor, Opposite, Dirs, Points
<1>5. CASE dir = 3
  BY <1>1, <1>5 DEF Neighbor, Opposite, Dirs, Points
<1>6. CASE dir = 4
  BY <1>1, <1>6 DEF Neighbor, Opposite, Dirs, Points
<1>7. CASE dir = 5
  BY <1>1, <1>7 DEF Neighbor, Opposite, Dirs, Points
<1>8. QED
  BY <1>2, <1>3, <1>4, <1>5, <1>6, <1>7 DEF Dirs

\* The direction that is checked next is one of those that are left.
LEMMA FirstDirection ==
  ASSUME NEW dirs \in SUBSET Dirs, dirs # {}
  PROVE  (CHOOSE d \in dirs : \A e \in dirs : d <= e) \in dirs
<1>1. \E d \in dirs : \A e \in dirs : d <= e
  <2>1. CASE 0 \in dirs
    BY <2>1 DEF Dirs
  <2>2. CASE 0 \notin dirs /\ 1 \in dirs
    BY <2>2 DEF Dirs
  <2>3. CASE 0 \notin dirs /\ 1 \notin dirs /\ 2 \in dirs
    BY <2>3 DEF Dirs
  <2>4. CASE 0 \notin dirs /\ 1 \notin dirs /\ 2 \notin dirs /\ 3 \in dirs
    BY <2>4 DEF Dirs
  <2>5. CASE dirs \subseteq {4, 5} /\ 4 \in dirs
    BY <2>5
  <2>6. CASE dirs \subseteq {5}
    <3>1. \A e \in dirs : e = 5
      BY <2>6
    <3>2. QED
      BY <3>1
  <2>7. dirs \subseteq {0, 1, 2, 3, 4, 5}
    BY DEF Dirs
  <2>8. QED
    BY <2>1, <2>2, <2>3, <2>4, <2>5, <2>6, <2>7
<1>2. QED
  BY <1>1

-----------------------------------------------------------------------------
(* The queue that propagation starts with *)

LEMMA BeforeRank ==
  ASSUME NEW V, V \subseteq Points, IsFiniteSet(V),
         NEW c \in V, NEW d \in V, Before(c, d)
  PROVE  Rank(c, V) < Rank(d, V)
<1> DEFINE C == {b \in V : ~Before(c, b)}
           D == {b \in V : ~Before(d, b)}
<1>1. C \subseteq D
  <2> SUFFICES ASSUME NEW b \in C
               PROVE  ~Before(d, b)
    OBVIOUS
  <2>1. /\ b[1] \in Int /\ b[2] \in Int /\ b[3] \in Int
        /\ c[1] \in Int /\ c[2] \in Int /\ c[3] \in Int
        /\ d[1] \in Int /\ d[2] \in Int /\ d[3] \in Int
    BY DEF Points
  <2>2. QED
    BY <2>1 DEF Before
<1>2. d \in D /\ d \notin C
  <2>1. d[1] \in Int /\ d[2] \in Int /\ d[3] \in Int
    BY DEF Points
  <2>2. QED
    BY <2>1 DEF Before
<1>3. IsFiniteSet(D) /\ IsFiniteSet(C)
  BY FS_Subset
<1>4. Cardinality(C) <= Cardinality(D) /\ Cardinality(C) # Cardinality(D)
  BY <1>1, <1>2, <1>3, FS_Subset
<1>5. Cardinality(C) \in Nat /\ Cardinality(D) \in Nat
  BY <1>3, FS_CardinalityType
<1>6. QED
  BY <1>4, <1>5 DEF Rank

\* The ranks of the cells of a set are the numbers up to its size.
LEMMA RankIsOnto ==
  ASSUME NEW V, V \subseteq Points, IsFiniteSet(V)
  PROVE  /\ Cardinality(V) \in Nat
         /\ \A c \in V : Rank(c, V) \in 1..Cardinality(V)
         /\ \A c, d \in V : Rank(c, V) = Rank(d, V) => c = d
         /\ \A i \in 1..Cardinality(V) : \E c \in V : Rank(c, V) = i
<1> DEFINE N == Cardinality(V)
<1>1. N \in Nat
  BY FS_CardinalityType
<1>2. ASSUME NEW c \in V
      PROVE  Rank(c, V) \in 1..N
  <2> DEFINE C == {b \in V : ~Before(c, b)}
  <2>1. IsFiniteSet(C) /\ Cardinality(C) <= N
    BY FS_Subset
  <2>2. c \in C
    <3>1. c[1] \in Int /\ c[2] \in Int /\ c[3] \in Int
      BY DEF Points
    <3>2. QED
      BY <3>1 DEF Before
  <2>3. Cardinality(C) \in Nat /\ Cardinality(C) # 0
    BY <2>1, <2>2, FS_CardinalityType, FS_EmptySet
  <2>4. QED
    BY <1>1, <2>1, <2>3 DEF Rank
<1>3. ASSUME NEW c \in V, NEW d \in V, c # d
      PROVE  Rank(c, V) # Rank(d, V)
  <2>1. c \in Points /\ d \in Points
    OBVIOUS
  <2>2. Before(c, d) \/ Before(d, c)
    <3>1. /\ c = <<c[1], c[2], c[3]>> /\ c[1] \in Int /\ c[2] \in Int /\ c[3] \in Int
          /\ d = <<d[1], d[2], d[3]>> /\ d[1] \in Int /\ d[2] \in Int /\ d[3] \in Int
      BY <2>1 DEF Points
    <3>2. c[1] # d[1] \/ c[2] # d[2] \/ c[3] # d[3]
      BY <3>1, <1>3
    <3>3. QED
      BY <3>1, <3>2 DEF Before
  <2>3. Rank(c, V) \in Int /\ Rank(d, V) \in Int
    BY <1>1, <1>2
  <2>4. QED
    BY <2>2, <2>3, BeforeRank
<1>4. ASSUME NEW i \in 1..N
      PROVE  \E c \in V : Rank(c, V) = i
  <2> DEFINE f == [c \in V |-> Rank(c, V)]
  <2>1. f \in Injection(V, 1..N)
    BY <1>2, <1>3 DEF Injection, IsInjective
  <2>2. IsFiniteSet(1..N) /\ Cardinality(1..N) = N
    BY <1>1, FS_Interval
  <2>3. f \in Surjection(V, 1..N)
    BY <2>1, <2>2, FS_Injection
  <2>4. QED
    BY <2>3 DEF Surjection
<1>5. QED
  BY <1>1, <1>2, <1>3, <1>4

LEMMA FunctionIsSeq ==
  ASSUME NEW T, NEW n \in Nat, NEW q \in [1..n -> T]
  PROVE  q \in Seq(T) /\ Len(q) = n
<1>1. q \in Seq(T)
  BY SeqDef
<1>2. QED
  BY <1>1, LenProperties

\* The queue has the lit cells, with their levels and every direction.
LEMMA QueueOfSources ==
  ASSUME NEW V, V \subseteq Points, IsFiniteSet(V), NEW volume \in [V -> 0..MaxLight]
  PROVE  /\ InitialQueue(volume) \in Seq([cell : V, level : 0..MaxLight, dirs : SUBSET Dirs])
         /\ \A i \in 1..Len(InitialQueue(volume)) :
              /\ InitialQueue(volume)[i].level = volume[InitialQueue(volume)[i].cell]
              /\ InitialQueue(volume)[i].dirs = Dirs
         /\ \A c \in V : volume[c] > 1 =>
              \E i \in 1..Len(InitialQueue(volume)) : InitialQueue(volume)[i].cell = c
<1> DEFINE L == Lit(volume)
           N == Cardinality(L)
           Source(i) == CHOOSE c \in L : Rank(c, L) = i
           E(i) == [cell |-> Source(i), level |-> volume[Source(i)], dirs |-> Dirs]
           Q == [i \in 1..N |-> E(i)]
           T == [cell : V, level : 0..MaxLight, dirs : SUBSET Dirs]
<1>1. InitialQueue(volume) = Q
  BY DEF InitialQueue
<1>2. L \subseteq V /\ L \subseteq Points /\ IsFiniteSet(L)
  BY FS_Subset DEF Lit
<1>3. /\ N \in Nat
      /\ \A c \in L : Rank(c, L) \in 1..N
      /\ \A c, d \in L : Rank(c, L) = Rank(d, L) => c = d
      /\ \A i \in 1..N : \E c \in L : Rank(c, L) = i
  BY <1>2, RankIsOnto
<1>4. \A i \in 1..N : Source(i) \in L
  BY <1>3
<1>5. \A c \in L : Source(Rank(c, L)) = c
  BY <1>3
<1> HIDE DEF N, L, Source
<1>6. \A i \in 1..N : E(i) \in T
  BY <1>2, <1>4, MaxLightAssumption
<1>7. Q \in [1..N -> T]
  BY <1>6
<1>8. \A i \in 1..N : Q[i].cell = Source(i) /\ Q[i].level = volume[Source(i)] /\ Q[i].dirs = Dirs
  OBVIOUS
<1> HIDE DEF Q, T
<1>9. \A c \in V : volume[c] > 1 => c \in L
  BY DEF L, Lit
<1>10. \A c \in V : volume[c] > 1 => \E i \in 1..N : Q[i].cell = c
  BY <1>3, <1>5, <1>8, <1>9
<1>11. Q \in Seq(T) /\ Len(Q) = N
  BY <1>3, <1>7, FunctionIsSeq
<1>12. \A i \in 1..N : Q[i].level = volume[Q[i].cell] /\ Q[i].dirs = Dirs
  BY <1>8
<1>13. QED
  BY <1>1, <1>10, <1>11, <1>12 DEF T

\* A volume is a finite box of cells that begins at the origin.
LEMMA VolumeIsABox ==
  ASSUME NEW volume \in Volumes
  PROVE  /\ DOMAIN volume \subseteq Points
         /\ IsFiniteSet(DOMAIN volume)
         /\ <<0, 0, 0>> \in DOMAIN volume
         /\ volume \in [DOMAIN volume -> 0..MaxLight]
<1>1. PICK a \in Nat, b \in Nat, c \in Nat :
        volume \in [(0..a) \X (0..b) \X (0..c) -> 0..MaxLight]
  <2>1. PICK s \in Nat \X Nat \X Nat :
          volume \in [(0..s[1]) \X (0..s[2]) \X (0..s[3]) -> 0..MaxLight]
    BY DEF Volumes
  <2>2. QED
    BY <2>1
<1> DEFINE Pairs == (0..a) \X (0..b)
           Box == (0..a) \X (0..b) \X (0..c)
           f == [p \in Pairs \X (0..c) |-> <<p[1][1], p[1][2], p[2]>>]
<1>2. IsFiniteSet(Pairs \X (0..c))
  <2>1. IsFiniteSet(0..a) /\ IsFiniteSet(0..b) /\ IsFiniteSet(0..c)
    BY FS_Interval
  <2>2. IsFiniteSet(Pairs)
    BY <2>1, FS_Product
  <2>3. QED
    BY <2>1, <2>2, FS_Product
<1>3. f \in Surjection(Pairs \X (0..c), Box)
  <2>1. f \in [Pairs \X (0..c) -> Box]
    OBVIOUS
  <2>2. ASSUME NEW q \in Box
        PROVE  \E p \in Pairs \X (0..c) : f[p] = q
    <3>1. <<<<q[1], q[2]>>, q[3]>> \in Pairs \X (0..c)
      OBVIOUS
    <3>2. f[<<<<q[1], q[2]>>, q[3]>>] = q
      BY <3>1
    <3>3. QED
      BY <3>1, <3>2
  <2>3. QED
    BY <2>1, <2>2 DEF Surjection
<1>4. IsFiniteSet(Box)
  BY <1>2, <1>3, FS_Surjection
<1>5. DOMAIN volume = Box
  BY <1>1
<1>6. QED
  BY <1>1, <1>4, <1>5 DEF Points

-----------------------------------------------------------------------------
(* The invariant *)

LEMMA LightStart == LightInit => LightInv
<1> SUFFICES ASSUME LightInit
             PROVE  LightInv
  OBVIOUS
<1>1. /\ Cells \subseteq Points /\ IsFiniteSet(Cells) /\ <<0, 0, 0>> \in Cells
      /\ light_volume \in [Cells -> 0..MaxLight]
  BY VolumeIsABox DEF LightInit, Cells
<1>2. /\ queue \in Seq(Entries)
      /\ \A i \in 1..Len(queue) :
           queue[i].level = light_volume[queue[i].cell] /\ queue[i].dirs = Dirs
      /\ \A c \in Cells :
           light_volume[c] > 1 => \E i \in 1..Len(queue) : queue[i].cell = c
  <2>1. queue = InitialQueue(light_volume)
    BY DEF LightInit
  <2>2. Entries = [cell : Cells, level : 0..MaxLight, dirs : SUBSET Dirs]
    BY DEF Entries
  <2> HIDE DEF LightInit
  <2> DEFINE volume == light_volume
  <2>3. volume \in [Cells -> 0..MaxLight] /\ queue = InitialQueue(volume)
    BY <1>1, <2>1
  <2> HIDE DEF volume
  <2>4. /\ InitialQueue(volume)
             \in Seq([cell : Cells, level : 0..MaxLight, dirs : SUBSET Dirs])
        /\ \A i \in 1..Len(InitialQueue(volume)) :
             /\ InitialQueue(volume)[i].level = volume[InitialQueue(volume)[i].cell]
             /\ InitialQueue(volume)[i].dirs = Dirs
        /\ \A c \in Cells : volume[c] > 1 =>
             \E i \in 1..Len(InitialQueue(volume)) : InitialQueue(volume)[i].cell = c
    BY <1>1, <2>3, QueueOfSources
  <2>5. QED
    BY <2>1, <2>2, <2>4 DEF volume
<1>3. entry = NoEntry /\ NoEntry \in Entries /\ NoEntry.level = 0 /\ NoEntry.cell \in Cells
  BY <1>1, MaxLightAssumption DEF LightInit, NoEntry, Entries
<1>4. LightTypeOK
  BY <1>1, <1>2, <1>3 DEF LightTypeOK, LightInit
<1>5. EntriesAreOld
  <2> SUFFICES ASSUME NEW e \in Entries, Pending(e)
               PROVE  e.level <= light_volume[e.cell]
    BY DEF EntriesAreOld
  <2>1. e.cell \in Cells /\ e.level \in Int /\ light_volume[e.cell] \in Nat
    BY <1>1, MaxLightAssumption DEF Entries
  <2>2. CASE e = entry
    BY <1>3, <2>1, <2>2
  <2>3. CASE \E i \in 1..Len(queue) : e = queue[i]
    BY <1>2, <2>1, <2>3
  <2>4. QED
    BY <2>2, <2>3 DEF Pending
<1>6. GiftsArePending
  <2> SUFFICES ASSUME NEW c \in Cells, NEW dir \in Dirs, CouldGive(c, dir)
               PROVE  \E e \in Entries : /\ Pending(e) /\ e.cell = c
                                         /\ e.level = light_volume[c] /\ dir \in e.dirs
    BY DEF GiftsArePending
  <2>1. light_volume[c] > 1
    BY <1>1, MaxLightAssumption DEF CouldGive
  <2>2. PICK i \in 1..Len(queue) : queue[i].cell = c
    BY <1>2, <2>1
  <2>3. queue[i] \in Entries
    BY <1>2, ElementOfSeq
  <2>4. QED
    BY <1>2, <2>2, <2>3 DEF Pending
<1>7. LightIsGrounded
  BY DEF LightInit, LightIsGrounded
<1>8. QED
  BY <1>4, <1>5, <1>6, <1>7 DEF LightInv

\* The entry that is dropped has no direction left.
LEMMA ReadStep ==
  ASSUME LightInv, ReadEntry
  PROVE  LightInv'
<1>1. /\ light_volume' = light_volume /\ sources' = sources /\ transparent' = transparent
      /\ Cells' = Cells /\ Entries' = Entries
  BY DEF ReadEntry, Cells, Entries
<1>2. /\ queue \in Seq(Entries) /\ queue # <<>> /\ entry.dirs = {}
      /\ entry' = Head(queue) /\ queue' = Tail(queue)
  BY DEF LightInv, LightTypeOK, ReadEntry
<1>3. /\ Len(queue) \in Nat /\ Len(queue) # 0 /\ Head(queue) = queue[1]
      /\ Head(queue) \in Entries /\ Tail(queue) \in Seq(Entries)
      /\ Len(Tail(queue)) = Len(queue) - 1
      /\ \A i \in 1..Len(Tail(queue)) : Tail(queue)[i] = queue[i + 1]
  BY <1>2, HeadTailProperties, EmptySeq, LenProperties
<1>4. \A e \in Entries : Pending(e)' => Pending(e)
  <2> SUFFICES ASSUME NEW e \in Entries, Pending(e)'
               PROVE  \E i \in 1..Len(queue) : e = queue[i]
    BY DEF Pending
  <2>1. CASE e = queue[1]
    BY <1>3, <2>1
  <2>2. ASSUME NEW i \in 1..Len(Tail(queue)), e = Tail(queue)[i]
        PROVE  \E j \in 1..Len(queue) : e = queue[j]
    BY <1>3, <2>2
  <2>3. QED
    BY <1>2, <1>3, <2>1, <2>2 DEF Pending
<1>5. \A e \in Entries : Pending(e) /\ e.dirs # {} => Pending(e)'
  <2> SUFFICES ASSUME NEW e \in Entries, NEW i \in 1..Len(queue), e = queue[i]
               PROVE  e = entry' \/ \E j \in 1..Len(queue') : e = queue'[j]
    BY <1>2 DEF Pending
  <2>1. CASE i = 1
    BY <1>2, <1>3, <2>1
  <2>2. CASE i # 1
    <3>1. i - 1 \in 1..Len(Tail(queue)) /\ Tail(queue)[i - 1] = queue[i]
      BY <1>3, <2>2
    <3>2. QED
      BY <1>2, <3>1
  <2>3. QED
    BY <2>1, <2>2
<1>6. LightTypeOK'
  BY <1>1, <1>2, <1>3 DEF LightInv, LightTypeOK
<1>7. EntriesAreOld'
  BY <1>1, <1>4 DEF LightInv, EntriesAreOld
<1>8. GiftsArePending'
  <2> SUFFICES ASSUME NEW c \in Cells, NEW dir \in Dirs, CouldGive(c, dir)
               PROVE  \E e \in Entries : /\ Pending(e)' /\ e.cell = c
                                         /\ e.level = light_volume[c] /\ dir \in e.dirs
    BY <1>1 DEF GiftsArePending, CouldGive
  <2>1. PICK e \in Entries : /\ Pending(e) /\ e.cell = c
                             /\ e.level = light_volume[c] /\ dir \in e.dirs
    BY DEF LightInv, GiftsArePending
  <2>2. QED
    BY <1>5, <2>1
<1>9. LightIsGrounded'
  BY <1>1 DEF LightInv, LightIsGrounded, Shines
<1>10. QED
  BY <1>6, <1>7, <1>8, <1>9 DEF LightInv

\* A direction is done with: either the neighbour could not be given any light, or
\* it has been given it and is queued for what it may give in turn.
LEMMA CheckStep ==
  ASSUME LightInv, CheckDirection
  PROVE  LightInv'
<1> DEFINE dir == CHOOSE d \in entry.dirs : \A e \in entry.dirs : d <= e
           cell == entry.cell
           n == Neighbor(cell, dir)
           target == entry.level - 1
           gift == [cell |-> n, level |-> target, dirs |-> ExcludeOpposite(dir)]
           rest == [entry EXCEPT !.dirs = @ \ {dir}]
<1>1. /\ Cells \subseteq Points /\ light_volume \in [Cells -> 0..MaxLight]
      /\ sources \in [Cells -> 0..MaxLight] /\ transparent \in [Cells -> BOOLEAN]
      /\ queue \in Seq(Entries) /\ entry \in Entries
  BY DEF LightInv, LightTypeOK
<1>2. /\ cell \in Cells /\ cell \in Points /\ entry.level \in 0..MaxLight
      /\ entry.dirs \in SUBSET Dirs
  BY <1>1 DEF Entries
<1>3. dir \in entry.dirs /\ dir \in Dirs
  BY <1>2, FirstDirection DEF CheckDirection
<1>4. /\ entry' = rest /\ sources' = sources /\ transparent' = transparent
      /\ Takes(dir) => light_volume' = [light_volume EXCEPT ![n] = target]
      /\ Takes(dir) /\ target > 1 => queue' = Append(queue, gift)
      /\ Takes(dir) /\ ~(target > 1) => queue' = queue
      /\ ~Takes(dir) => light_volume' = light_volume /\ queue' = queue
  BY DEF CheckDirection
<1> HIDE DEF dir
<1>5. /\ n # cell /\ Opposite(dir) \in Dirs
      /\ \A back \in Dirs : back = Opposite(dir) => Neighbor(n, back) = cell
  BY <1>2, <1>3, NeighborPoint
<1>6. /\ Takes(dir) <=> n \in Cells /\ transparent[n] /\ light_volume[n] < target
      /\ \A c \in Cells : light_volume[c] \in Nat /\ sources[c] \in Nat
      /\ entry.level \in Nat /\ entry.level <= light_volume[cell]
  BY <1>1, <1>2, MaxLightAssumption DEF Takes, LightInv, EntriesAreOld, Pending
<1>7. /\ rest \in Entries /\ rest.cell = cell /\ rest.level = entry.level
      /\ rest.dirs = entry.dirs \ {dir}
  BY <1>1, <1>2 DEF Entries
<1>8. Takes(dir) => target \in 0..MaxLight /\ gift \in Entries
  BY <1>2, <1>6, MaxLightAssumption DEF Entries, ExcludeOpposite
<1>9. Cells' = Cells /\ Entries' = Entries
  BY <1>1, <1>4 DEF Cells, Entries
<1> HIDE DEF n, gift, rest
<1>10. light_volume' \in [Cells -> 0..MaxLight]
  BY <1>1, <1>4, <1>8
<1>11. /\ \A c \in Cells : light_volume'[c] \in Nat /\ light_volume[c] <= light_volume'[c]
       /\ \A c \in Cells : c # n => light_volume'[c] = light_volume[c]
       /\ Takes(dir) => light_volume'[n] = target
  BY <1>1, <1>4, <1>6, <1>8
<1>12. /\ queue' \in Seq(Entries)
       /\ \A e \in Entries : (\E i \in 1..Len(queue') : e = queue'[i]) =>
            (\E i \in 1..Len(queue) : e = queue[i]) \/ (Takes(dir) /\ e = gift)
       /\ \A e \in Entries : (\E i \in 1..Len(queue) : e = queue[i]) =>
            \E i \in 1..Len(queue') : e = queue'[i]
       /\ Takes(dir) /\ target > 1 => \E i \in 1..Len(queue') : queue'[i] = gift
  <2>1. CASE Takes(dir) /\ target > 1
    <3>1. /\ Append(queue, gift) \in Seq(Entries)
          /\ Len(Append(queue, gift)) = Len(queue) + 1 /\ Len(queue) \in Nat
          /\ \A i \in 1..Len(queue) : Append(queue, gift)[i] = queue[i]
          /\ Append(queue, gift)[Len(queue) + 1] = gift
      BY <1>1, <1>8, <2>1, AppendProperties, LenProperties
    <3>2. QED
      BY <1>4, <2>1, <3>1
  <2>2. CASE ~(Takes(dir) /\ target > 1)
    BY <1>1, <1>4, <2>2
  <2>3. QED
    BY <2>1, <2>2
<1>13. \A e \in Entries : Pending(e)' =>
         e = rest \/ (\E i \in 1..Len(queue) : e = queue[i]) \/ (Takes(dir) /\ e = gift)
  BY <1>4, <1>12 DEF Pending
<1>14. LightTypeOK'
  BY <1>1, <1>4, <1>7, <1>9, <1>10, <1>12 DEF LightTypeOK
<1>15. EntriesAreOld'
  <2> SUFFICES ASSUME NEW e \in Entries, Pending(e)'
               PROVE  e.level <= light_volume'[e.cell]
    BY <1>9 DEF EntriesAreOld
  <2>1. e.cell \in Cells /\ e.level \in Int
    BY MaxLightAssumption DEF Entries
  <2>2. CASE e = rest
    BY <1>2, <1>6, <1>7, <1>11, <2>2
  <2>3. CASE \E i \in 1..Len(queue) : e = queue[i]
    <3>1. e.level <= light_volume[e.cell]
      BY <2>3 DEF LightInv, EntriesAreOld, Pending
    <3>2. QED
      BY <1>6, <1>11, <2>1, <3>1
  <2>4. CASE Takes(dir) /\ e = gift
    BY <1>6, <1>11, <2>1, <2>4 DEF gift
  <2>5. QED
    BY <1>13, <2>2, <2>3, <2>4
<1>16. GiftsArePending'
  <2> SUFFICES ASSUME NEW c \in Cells, NEW way \in Dirs, CouldGive(c, way)'
               PROVE  \E e \in Entries : /\ Pending(e)' /\ e.cell = c
                                         /\ e.level = light_volume'[c] /\ way \in e.dirs
    BY <1>9 DEF GiftsArePending
  <2> DEFINE m == Neighbor(c, way)
  <2>1. m \in Cells /\ transparent[m] /\ light_volume'[m] < light_volume'[c] - 1
    BY <1>4, <1>9 DEF CouldGive
  <2>2. CASE Takes(dir) /\ c = n
    <3>1. light_volume'[c] = target /\ target > 1
      BY <1>11, <2>1, <2>2
    <3>2. way # Opposite(dir)
      <4>1. way = Opposite(dir) => m = cell /\ light_volume'[cell] = light_volume[cell]
        BY <1>2, <1>5, <1>11, <2>2
      <4>2. QED
        BY <1>6, <2>1, <3>1, <4>1
    <3>3. gift \in Entries /\ gift.cell = c /\ gift.level = target /\ way \in gift.dirs
      BY <1>8, <2>2, <3>2 DEF gift, ExcludeOpposite
    <3>4. PICK e \in Entries : e = gift
      BY <3>3
    <3>5. \E i \in 1..Len(queue') : e = queue'[i]
      BY <1>12, <2>2, <3>1, <3>4
    <3>6. QED
      BY <3>1, <3>3, <3>4, <3>5 DEF Pending
  <2>3. CASE ~(Takes(dir) /\ c = n)
    <3>1. light_volume'[c] = light_volume[c]
      BY <1>4, <1>11, <2>3
    <3>2. CouldGive(c, way)
      BY <1>6, <1>11, <2>1, <3>1 DEF CouldGive
    <3>3. PICK e \in Entries : /\ Pending(e) /\ e.cell = c
                               /\ e.level = light_volume[c] /\ way \in e.dirs
      BY <3>2 DEF LightInv, GiftsArePending
    <3>4. CASE \E i \in 1..Len(queue) : e = queue[i]
      BY <1>12, <3>1, <3>3, <3>4 DEF Pending
    <3>5. CASE e = entry /\ way # dir
      BY <1>4, <1>7, <3>1, <3>3, <3>5 DEF Pending
    <3>6. CASE e = entry /\ way = dir
      <4>1. m = n /\ light_volume[n] < target
        BY <1>6, <1>11, <2>1, <3>1, <3>3, <3>6 DEF n
      <4>2. Takes(dir)
        BY <1>6, <2>1, <4>1
      <4>3. light_volume'[n] = target /\ light_volume'[c] = entry.level
        BY <1>11, <3>1, <3>3, <3>6, <4>2
      <4>4. QED
        BY <1>6, <2>1, <4>1, <4>3
    <3>7. QED
      BY <3>3, <3>4, <3>5, <3>6 DEF Pending
  <2>4. QED
    BY <2>2, <2>3
<1>17. LightIsGrounded'
  <2> SUFFICES ASSUME NEW c \in Cells
               PROVE  \/ light_volume'[c] = sources[c]
                      \/ /\ light_volume'[c] > sources[c]
                         /\ \E d \in Cells : Shines(d, c) /\ light_volume'[d] > light_volume'[c]
    BY <1>4, <1>9 DEF LightIsGrounded, Shines
  <2>1. \/ light_volume[c] = sources[c]
        \/ /\ light_volume[c] > sources[c]
           /\ \E d \in Cells : Shines(d, c) /\ light_volume[d] > light_volume[c]
    BY DEF LightInv, LightIsGrounded
  <2>2. CASE Takes(dir) /\ c = n
    <3>1. Shines(cell, c)
      BY <1>3, <1>6, <2>2 DEF Shines, n
    <3>2. light_volume'[cell] > light_volume'[c]
      BY <1>2, <1>5, <1>6, <1>11, <2>2
    <3>3. light_volume'[c] > sources[c]
      BY <1>6, <1>11, <2>1, <2>2
    <3>4. QED
      BY <1>2, <3>1, <3>2, <3>3
  <2>3. CASE ~(Takes(dir) /\ c = n)
    <3>1. light_volume'[c] = light_volume[c]
      BY <1>4, <1>11, <2>3
    <3>2. QED
      BY <1>6, <1>11, <2>1, <3>1
  <2>4. QED
    BY <2>2, <2>3
<1>18. QED
  BY <1>14, <1>15, <1>16, <1>17 DEF LightInv

LEMMA LightSteps == LightInv /\ [Propagate]_lightVars => LightInv'
<1>1. ASSUME LightInv, Propagate
      PROVE  LightInv'
  BY <1>1, ReadStep, CheckStep DEF Propagate
<1>2. ASSUME LightInv, UNCHANGED lightVars
      PROVE  LightInv'
  <2>1. /\ transparent' = transparent /\ sources' = sources /\ light_volume' = light_volume
        /\ queue' = queue /\ entry' = entry /\ Cells' = Cells /\ Entries' = Entries
    BY <1>2 DEF lightVars, Cells, Entries
  <2>2. \A e \in Entries : Pending(e)' = Pending(e)
    BY <2>1 DEF Pending
  <2>3. LightTypeOK' /\ EntriesAreOld'
    BY <1>2, <2>1, <2>2 DEF LightInv, LightTypeOK, EntriesAreOld
  <2>4. GiftsArePending'
    BY <1>2, <2>1, <2>2 DEF LightInv, GiftsArePending, CouldGive
  <2>5. LightIsGrounded'
    BY <1>2, <2>1 DEF LightInv, LightIsGrounded, Shines
  <2>6. QED
    BY <2>3, <2>4, <2>5 DEF LightInv
<1>3. QED
  BY <1>1, <1>2

LEMMA LightInvariant == LightSpec => []LightInv
<1>1. LightInv /\ [Propagate]_lightVars => LightInv'
  BY LightSteps
<1>2. QED
  BY LightStart, <1>1, PTL DEF LightSpec

\* No cell is ever brighter than the sources around it make it
\* (propagate_light_starlight), in any volume.
THEOREM LightStaysGrounded == LightSpec => []LightIsGrounded
<1>1. LightInv => LightIsGrounded
  BY DEF LightInv
<1>2. QED
  BY LightInvariant, <1>1, PTL

LEMMA LightInvIsExact == LightInv => LightIsExact
<1> SUFFICES ASSUME LightInv, PropagationIsDone, NEW c \in Cells
             PROVE  /\ light_volume[c] >= sources[c]
                    /\ \A d \in Cells : Shines(d, c) => light_volume[c] >= light_volume[d] - 1
                    /\ light_volume[c] > sources[c] =>
                         \E d \in Cells : Shines(d, c) /\ light_volume[c] = light_volume[d] - 1
  BY DEF LightIsExact
<1>1. \A d \in Cells : light_volume[d] \in Nat /\ sources[d] \in Nat
  BY MaxLightAssumption DEF LightInv, LightTypeOK
<1>2. \A e \in Entries : Pending(e) => e.dirs = {}
  BY EmptySeq DEF Pending, PropagationIsDone
<1>3. ASSUME NEW d \in Cells, Shines(d, c)
      PROVE  light_volume[c] >= light_volume[d] - 1
  <2>1. PICK dir \in Dirs : c = Neighbor(d, dir)
    BY <1>3 DEF Shines
  <2>2. ~CouldGive(d, dir)
    BY <1>2 DEF LightInv, GiftsArePending
  <2>3. QED
    BY <1>1, <1>3, <2>1, <2>2 DEF CouldGive, Shines
<1>4. \/ light_volume[c] = sources[c]
      \/ /\ light_volume[c] > sources[c]
         /\ \E d \in Cells : Shines(d, c) /\ light_volume[d] > light_volume[c]
  BY DEF LightInv, LightIsGrounded
<1>5. QED
  BY <1>1, <1>3, <1>4

\* When the queue is empty every cell has exactly the light of its brightest source,
\* in any volume with any blocks: what the queue leaves out loses nothing.
THEOREM LightEndsExact == LightSpec => []LightIsExact
<1>1. LightInv => LightIsExact
  BY LightInvIsExact
<1>2. QED
  BY LightInvariant, <1>1, PTL

-----------------------------------------------------------------------------
(* The spiral: a place of its walk is a direction, the radius k of the square  *)
(* that is filled, or will be with this leg, and the steps that rest.          *)

Spirals == [center : Int \X Int, current : Int \X Int, direction : 1..4, leg_length : Nat,
            steps_remaining_in_leg : Nat, grow_next_leg : BOOLEAN, max_radius : Nat]

LegLength(dir, k) == IF dir \in {1, 2} THEN 2 * k + 1 ELSE 2 * k + 2

EastOf(dir, k, rest) ==
  CASE dir = 1 -> k + 1 - rest
    [] dir = 2 -> k + 1
    [] dir = 3 -> rest - k - 1
    [] dir = 4 -> -k - 1

SouthOf(dir, k, rest) ==
  CASE dir = 1 -> k
    [] dir = 2 -> rest - k - 1
    [] dir = 3 -> -k - 1
    [] dir = 4 -> k + 1 - rest

Area(k) == (2 * k + 1) * (2 * k + 1)

\* How many chunks come before a place, and which.
Passed(dir, k, rest) ==
  CASE dir = 1 -> Area(k) - rest
    [] dir = 2 -> Area(k) + 2 * k + 1 - rest
    [] dir = 3 -> Area(k) + 4 * k + 3 - rest
    [] dir = 4 -> Area(k) + 6 * k + 5 - rest

Behind(dir, k, rest, x, z) ==
  \/ /\ x \in -k..k /\ z \in -k..k
     /\ dir = 1 => z < k \/ x < k + 1 - rest
  \/ dir = 2 /\ x = k + 1 /\ z \in (rest - k)..k
  \/ dir \in {3, 4} /\ x = k + 1 /\ z \in -k..k
  \/ dir = 3 /\ z = -k - 1 /\ x \in (rest - k)..(k + 1)
  \/ dir = 4 /\ z = -k - 1 /\ x \in -k..(k + 1)
  \/ dir = 4 /\ x = -k - 1 /\ z \in (-k - 1)..(k - rest)

Far(x, z) == IF Absolute(x) < Absolute(z) THEN Absolute(z) ELSE Absolute(x)

InRadius(dir, k, rest, radius) ==
  k <= radius /\ (k = radius => dir = 1 \/ (dir = 2 /\ rest = LegLength(dir, k)))

LEMMA DirectionsAre ==
  /\ Directions[1].x = 1 /\ Directions[1].z = 0
  /\ Directions[2].x = 0 /\ Directions[2].z = -1
  /\ Directions[3].x = -1 /\ Directions[3].z = 0
  /\ Directions[4].x = 0 /\ Directions[4].z = 1
BY DEF Directions

LEMMA PlacesAreWhole ==
  ASSUME NEW dir \in 1..4, NEW k \in Nat, NEW rest \in Nat
  PROVE  /\ EastOf(dir, k, rest) \in Int /\ SouthOf(dir, k, rest) \in Int
         /\ LegLength(dir, k) \in Nat /\ Area(k) \in Int /\ Passed(dir, k, rest) \in Int
BY DEF EastOf, SouthOf, LegLength, Passed, Area

\* What a step does: the place is the next one, those behind it are those before
\* and the one it leaves, and there is one more.
NextPlace(dir, k, rest, dir2, k2, rest2) ==
  /\ EastOf(dir2, k2, rest2) = EastOf(dir, k, rest) + Directions[dir].x
  /\ SouthOf(dir2, k2, rest2) = SouthOf(dir, k, rest) + Directions[dir].z
  /\ Passed(dir2, k2, rest2) = Passed(dir, k, rest) + 1
  /\ \A x, z \in Int :
       Behind(dir2, k2, rest2, x, z)
         <=> Behind(dir, k, rest, x, z) \/ (x = EastOf(dir, k, rest) /\ z = SouthOf(dir, k, rest))

LEMMA StepOnItsLeg ==
  ASSUME NEW dir \in 1..4, NEW k \in Nat, NEW rest \in 2..LegLength(dir, k)
  PROVE  NextPlace(dir, k, rest, dir, k, rest - 1)
<1>0. Area(k) \in Int
  BY DEF Area
<1>1. CASE dir = 1
  BY <1>0, <1>1, DirectionsAre DEF NextPlace, LegLength, EastOf, SouthOf, Passed, Behind
<1>2. CASE dir = 2
  BY <1>0, <1>2, DirectionsAre DEF NextPlace, LegLength, EastOf, SouthOf, Passed, Behind
<1>3. CASE dir = 3
  BY <1>0, <1>3, DirectionsAre DEF NextPlace, LegLength, EastOf, SouthOf, Passed, Behind
<1>4. CASE dir = 4
  BY <1>0, <1>4, DirectionsAre DEF NextPlace, LegLength, EastOf, SouthOf, Passed, Behind
<1>5. QED
  BY <1>1, <1>2, <1>3, <1>4

NextDirection(dir) == IF dir = 4 THEN 1 ELSE dir + 1
NextRing(dir, k) == IF dir = 4 THEN k + 1 ELSE k
NextLeg(dir, k) == LegLength(NextDirection(dir), NextRing(dir, k))

LEMMA LegsGrow ==
  ASSUME NEW dir \in 1..4, NEW k \in Nat
  PROVE  /\ NextDirection(dir) \in 1..4 /\ NextRing(dir, k) \in Nat
         /\ NextDirection(dir) = (dir % 4) + 1
         /\ NextLeg(dir, k) \in Nat \ {0}
         /\ NextLeg(dir, k) = IF dir \in {2, 4} THEN LegLength(dir, k) + 1 ELSE LegLength(dir, k)
         /\ NextDirection(dir) \in {2, 4} <=> ~(dir \in {2, 4})
<1>1. CASE dir = 1
  BY <1>1 DEF NextDirection, NextRing, NextLeg, LegLength
<1>2. CASE dir = 2
  BY <1>2 DEF NextDirection, NextRing, NextLeg, LegLength
<1>3. CASE dir = 3
  BY <1>3 DEF NextDirection, NextRing, NextLeg, LegLength
<1>4. CASE dir = 4
  BY <1>4 DEF NextDirection, NextRing, NextLeg, LegLength
<1>5. QED
  BY <1>1, <1>2, <1>3, <1>4

LEMMA StepToTheNextLeg ==
  ASSUME NEW dir \in 1..4, NEW k \in Nat
  PROVE  NextPlace(dir, k, 1, NextDirection(dir), NextRing(dir, k), NextLeg(dir, k))
<1>0. Area(k) \in Int /\ Area(k + 1) = Area(k) + 8 * k + 8
  BY DEF Area
<1>1. CASE dir = 1
  BY <1>0, <1>1, DirectionsAre
     DEF NextPlace, NextDirection, NextRing, NextLeg, LegLength, EastOf, SouthOf, Passed, Behind
<1>2. CASE dir = 2
  BY <1>0, <1>2, DirectionsAre
     DEF NextPlace, NextDirection, NextRing, NextLeg, LegLength, EastOf, SouthOf, Passed, Behind
<1>3. CASE dir = 3
  BY <1>0, <1>3, DirectionsAre
     DEF NextPlace, NextDirection, NextRing, NextLeg, LegLength, EastOf, SouthOf, Passed, Behind
<1>4. CASE dir = 4
  BY <1>0, <1>4, DirectionsAre
     DEF NextPlace, NextDirection, NextRing, NextLeg, LegLength, EastOf, SouthOf, Passed, Behind
<1>5. QED
  BY <1>1, <1>2, <1>3, <1>4

\* A place is not behind itself, and at least as far as those that are.
LEMMA PlaceIsOutermost ==
  ASSUME NEW dir \in 1..4, NEW k \in Nat, NEW rest \in 1..LegLength(dir, k),
         NEW x \in Int, NEW z \in Int, Behind(dir, k, rest, x, z)
  PROVE  /\ x # EastOf(dir, k, rest) \/ z # SouthOf(dir, k, rest)
         /\ Far(x, z) <= Far(EastOf(dir, k, rest), SouthOf(dir, k, rest))
<1>1. CASE dir = 1
  BY <1>1 DEF LegLength, EastOf, SouthOf, Behind, Far, Absolute
<1>2. CASE dir = 2
  BY <1>2 DEF LegLength, EastOf, SouthOf, Behind, Far, Absolute
<1>3. CASE dir = 3
  BY <1>3 DEF LegLength, EastOf, SouthOf, Behind, Far, Absolute
<1>4. CASE dir = 4
  BY <1>4 DEF LegLength, EastOf, SouthOf, Behind, Far, Absolute
<1>5. QED
  BY <1>1, <1>2, <1>3, <1>4

\* A walk that stays within the radius ends where its square is filled.
LEMMA RadiusIsKept ==
  ASSUME NEW dir \in 1..4, NEW k \in Nat, NEW rest \in 1..LegLength(dir, k), NEW radius \in Nat,
         InRadius(dir, k, rest, radius)
  PROVE  LET far == Far(EastOf(dir, k, rest), SouthOf(dir, k, rest))
         IN  /\ far <= radius /\ rest > 1 => InRadius(dir, k, rest - 1, radius)
             /\ far <= radius /\ rest = 1 =>
                  InRadius(NextDirection(dir), NextRing(dir, k), NextLeg(dir, k), radius)
             /\ ~(far <= radius) => k = radius /\ dir = 2 /\ rest = LegLength(dir, k)
<1>1. CASE dir = 1
  BY <1>1 DEF InRadius, LegLength, EastOf, SouthOf, NextDirection, NextRing, NextLeg, Far, Absolute
<1>2. CASE dir = 2
  BY <1>2 DEF InRadius, LegLength, EastOf, SouthOf, NextDirection, NextRing, NextLeg, Far, Absolute
<1>3. CASE dir = 3
  BY <1>3 DEF InRadius, LegLength, EastOf, SouthOf, NextDirection, NextRing, NextLeg, Far, Absolute
<1>4. CASE dir = 4
  BY <1>4 DEF InRadius, LegLength, EastOf, SouthOf, NextDirection, NextRing, NextLeg, Far, Absolute
<1>5. QED
  BY <1>1, <1>2, <1>3, <1>4

-----------------------------------------------------------------------------
(* The chunks that a spiral has yielded *)

Places == Int \X Int

\* Each once, nearer ones before farther ones, the center first.
NearestFirst(arrived, center) ==
  /\ arrived # <<>> => arrived[1] = center
  /\ \A i, j \in 1..Len(arrived) :
       i < j => /\ arrived[i] # arrived[j]
                /\ Distance(arrived[i], center) <= Distance(arrived[j], center)

\* The spiral is at a place of the walk around a center.
IsAt(spiral, dir, k, rest) ==
  /\ spiral.direction = dir /\ spiral.steps_remaining_in_leg = rest
  /\ spiral.leg_length = LegLength(dir, k)
  /\ spiral.grow_next_leg <=> dir \in {2, 4}
  /\ spiral.current = <<spiral.center[1] + EastOf(dir, k, rest),
                        spiral.center[2] + SouthOf(dir, k, rest)>>

\* The chunks behind a place have arrived, the farthest corner last.
HaveArrived(arrived, center, dir, k, rest) ==
  /\ Len(arrived) = Passed(dir, k, rest)
  /\ \A i \in 1..Len(arrived) :
       Behind(dir, k, rest, arrived[i][1] - center[1], arrived[i][2] - center[2])
  /\ dir = 2 /\ rest = LegLength(dir, k) =>
       arrived # <<>> /\ arrived[Len(arrived)] = <<center[1] + k, center[2] + k>>

OnItsWay(spiral, arrived) ==
  /\ spiral \in Spirals
  /\ arrived \in Seq(Places)
  /\ arrived = <<>> => spiral.current = spiral.center
  /\ NearestFirst(arrived, spiral.center)
  /\ \E dir \in 1..4, k \in Nat : \E rest \in 1..LegLength(dir, k) :
       /\ IsAt(spiral, dir, k, rest)
       /\ InRadius(dir, k, rest, spiral.max_radius)
       /\ HaveArrived(arrived, spiral.center, dir, k, rest)

LEMMA SpiralStarts ==
  ASSUME NEW center \in Int \X Int, NEW radius \in Nat
  PROVE  OnItsWay(NewSpiral(center[1], center[2], radius), <<>>)
<1>1. PICK new : new = NewSpiral(center[1], center[2], radius)
  OBVIOUS
<1>2. /\ new \in Spirals /\ new.center = center /\ new.current = center /\ new.direction = 1
      /\ new.leg_length = 1 /\ new.steps_remaining_in_leg = 1 /\ new.grow_next_leg = FALSE
      /\ new.max_radius = radius
  BY <1>1 DEF NewSpiral, Spirals
<1>3. /\ <<>> \in Seq(Places) /\ Len(<<>>) = 0
  OBVIOUS
<1>4. NearestFirst(<<>>, center)
  BY <1>3 DEF NearestFirst
<1>5. /\ LegLength(1, 0) = 1 /\ EastOf(1, 0, 1) = 0 /\ SouthOf(1, 0, 1) = 0
      /\ Passed(1, 0, 1) = 0
  <2>1. LegLength(1, 0) = 1 /\ EastOf(1, 0, 1) = 0 /\ SouthOf(1, 0, 1) = 0
    BY DEF LegLength, EastOf, SouthOf
  <2>2. Area(0) = 1
    BY DEF Area
  <2>3. Passed(1, 0, 1) = 0
    BY <2>2 DEF Passed
  <2>4. QED
    BY <2>1, <2>3
<1>6. IsAt(new, 1, 0, 1)
  BY <1>2, <1>5 DEF IsAt
<1>7. InRadius(1, 0, 1, new.max_radius)
  BY <1>2 DEF InRadius
<1>8. HaveArrived(<<>>, center, 1, 0, 1)
  BY <1>3, <1>5 DEF HaveArrived
<1>9. OnItsWay(new, <<>>)
  BY <1>2, <1>3, <1>4, <1>5, <1>6, <1>7, <1>8 DEF OnItsWay
<1>10. QED
  BY <1>1, <1>9

\* What the iterator does with its fields
LEMMA SpiralStep ==
  ASSUME NEW spiral \in Spirals, NEW dir \in 1..4, NEW k \in Nat, NEW rest \in 1..LegLength(dir, k),
         IsAt(spiral, dir, k, rest), NEW next, next = StepSpiral(spiral)
  PROVE  /\ next \in Spirals
         /\ next.center = spiral.center /\ next.max_radius = spiral.max_radius
         /\ rest > 1 => IsAt(next, dir, k, rest - 1)
         /\ rest = 1 => IsAt(next, NextDirection(dir), NextRing(dir, k), NextLeg(dir, k))
<1>1. PICK center, there, step :
        /\ center = spiral.center /\ step = Directions[dir]
        /\ there = <<spiral.current[1] + step.x, spiral.current[2] + step.z>>
  OBVIOUS
<1>2. /\ spiral = [center |-> spiral.center, current |-> spiral.current,
                   direction |-> spiral.direction, leg_length |-> spiral.leg_length,
                   steps_remaining_in_leg |-> spiral.steps_remaining_in_leg,
                   grow_next_leg |-> spiral.grow_next_leg, max_radius |-> spiral.max_radius]
      /\ center \in Int \X Int /\ spiral.current \in Int \X Int /\ spiral.max_radius \in Nat
      /\ spiral.direction = dir /\ spiral.steps_remaining_in_leg = rest
      /\ spiral.leg_length = LegLength(dir, k) /\ spiral.grow_next_leg \in BOOLEAN
      /\ spiral.grow_next_leg <=> dir \in {2, 4}
  BY <1>1 DEF Spirals, IsAt
<1>3. step.x \in Int /\ step.z \in Int /\ there \in Int \X Int
  BY <1>1, <1>2, DirectionsAre
<1>4. \A dir2 \in 1..4, k2 \in Nat : \A rest2 \in Nat :
        NextPlace(dir, k, rest, dir2, k2, rest2) =>
          there = <<center[1] + EastOf(dir2, k2, rest2), center[2] + SouthOf(dir2, k2, rest2)>>
  <2> SUFFICES ASSUME NEW dir2 \in 1..4, NEW k2 \in Nat, NEW rest2 \in Nat,
                      NextPlace(dir, k, rest, dir2, k2, rest2)
               PROVE  there = <<center[1] + EastOf(dir2, k2, rest2),
                                center[2] + SouthOf(dir2, k2, rest2)>>
    OBVIOUS
  <2>1. /\ EastOf(dir2, k2, rest2) = EastOf(dir, k, rest) + step.x
        /\ SouthOf(dir2, k2, rest2) = SouthOf(dir, k, rest) + step.z
    BY <1>1 DEF NextPlace
  <2>2. spiral.current = <<center[1] + EastOf(dir, k, rest), center[2] + SouthOf(dir, k, rest)>>
    BY <1>1 DEF IsAt
  <2>3. rest \in Nat /\ EastOf(dir, k, rest) \in Int /\ SouthOf(dir, k, rest) \in Int
    BY PlacesAreWhole DEF LegLength
  <2>4. QED
    BY <2>1, <2>2, <2>3, <1>1, <1>2, <1>3
<1>5. CASE rest > 1
  <2>1. next = [spiral EXCEPT !.current = there, !.steps_remaining_in_leg = @ - 1]
    BY <1>1, <1>2, <1>5 DEF StepSpiral
  <2>2. next = [center |-> spiral.center, current |-> there, direction |-> spiral.direction,
                leg_length |-> spiral.leg_length,
                steps_remaining_in_leg |-> spiral.steps_remaining_in_leg - 1,
                grow_next_leg |-> spiral.grow_next_leg, max_radius |-> spiral.max_radius]
    BY <2>1, <1>2
  <2>3. /\ next.center = center /\ next.current = there /\ next.direction = dir
        /\ next.leg_length = LegLength(dir, k) /\ next.steps_remaining_in_leg = rest - 1
        /\ next.grow_next_leg = spiral.grow_next_leg /\ next.max_radius = spiral.max_radius
    BY <2>2, <1>1, <1>2
  <2>4. rest - 1 \in Nat /\ LegLength(dir, k) \in Nat /\ rest \in 2..LegLength(dir, k)
    BY <1>5 DEF LegLength
  <2>5. there = <<center[1] + EastOf(dir, k, rest - 1), center[2] + SouthOf(dir, k, rest - 1)>>
    BY <2>4, <1>4, StepOnItsLeg
  <2>6. next \in Spirals
    BY <2>2, <2>4, <1>1, <1>2, <1>3 DEF Spirals
  <2>7. IsAt(next, dir, k, rest - 1)
    BY <2>3, <2>5, <1>2 DEF IsAt
  <2>8. QED
    BY <2>3, <2>6, <2>7, <1>1, <1>5
<1>6. CASE rest = 1
  <2>1. PICK dir2, k2, leg2 :
          dir2 = NextDirection(dir) /\ k2 = NextRing(dir, k) /\ leg2 = NextLeg(dir, k)
    OBVIOUS
  <2>2. /\ dir2 \in 1..4 /\ k2 \in Nat /\ leg2 \in Nat /\ dir2 = (dir % 4) + 1
        /\ leg2 = IF dir \in {2, 4} THEN LegLength(dir, k) + 1 ELSE LegLength(dir, k)
        /\ leg2 = LegLength(dir2, k2)
        /\ dir2 \in {2, 4} <=> ~(dir \in {2, 4})
    BY <2>1, LegsGrow DEF NextLeg
  <2>3. PICK grows : grows = ~spiral.grow_next_leg
    OBVIOUS
  <2>4. ~(spiral.steps_remaining_in_leg > 1)
    BY <1>2, <1>6
  <2>5. leg2 = IF spiral.grow_next_leg THEN spiral.leg_length + 1 ELSE spiral.leg_length
    BY <2>2, <1>2
  <2>6. next = [spiral EXCEPT !.current = there, !.direction = (@ % 4) + 1, !.leg_length = leg2,
                              !.steps_remaining_in_leg = leg2, !.grow_next_leg = ~@]
    <3>1. there = <<spiral.current[1] + Directions[spiral.direction].x,
                    spiral.current[2] + Directions[spiral.direction].z>>
      BY <1>1, <1>2
    <3>2. QED
      BY <2>4, <2>5, <3>1 DEF StepSpiral
  <2>7. next = [center |-> spiral.center, current |-> there,
                direction |-> (spiral.direction % 4) + 1,
                leg_length |-> leg2, steps_remaining_in_leg |-> leg2,
                grow_next_leg |-> grows, max_radius |-> spiral.max_radius]
    BY <2>3, <2>6, <1>2
  <2>8. /\ next.center = center /\ next.current = there /\ next.direction = dir2
        /\ next.leg_length = leg2 /\ next.steps_remaining_in_leg = leg2
        /\ next.grow_next_leg = grows /\ next.max_radius = spiral.max_radius
    BY <2>2, <2>7, <1>1, <1>2
  <2>9. grows \in BOOLEAN /\ (grows <=> dir2 \in {2, 4})
    BY <2>2, <2>3, <1>2
  <2>10. there = <<center[1] + EastOf(dir2, k2, leg2), center[2] + SouthOf(dir2, k2, leg2)>>
    BY <2>1, <2>2, <1>4, <1>6, StepToTheNextLeg
  <2>11. next \in Spirals
    <3>1. (spiral.direction % 4) + 1 \in 1..4 /\ spiral.center \in Int \X Int
      BY <2>2, <1>1, <1>2
    <3>2. QED
      BY <3>1, <2>2, <2>7, <2>9, <1>2, <1>3 DEF Spirals
  <2>12. IsAt(next, dir2, k2, leg2)
    BY <2>2, <2>8, <2>9, <2>10 DEF IsAt
  <2>13. QED
    BY <2>1, <2>8, <2>11, <2>12, <1>1, <1>6
<1>7. QED
  <2>1. rest > 1 \/ rest = 1
    BY DEF LegLength
  <2>2. QED
    BY <2>1, <1>5, <1>6

LEMMA OneMore ==
  ASSUME NEW arrived \in Seq(Places), NEW chunk \in Places,
         NEW more, more = Append(arrived, chunk)
  PROVE  /\ Len(arrived) \in Nat /\ Len(more) = Len(arrived) + 1 /\ more # <<>>
         /\ more \in Seq(Places)
         /\ \A i \in 1..Len(arrived) : more[i] = arrived[i]
         /\ \A i \in 1..Len(arrived) : arrived[i] \in Places
         /\ more[Len(arrived) + 1] = chunk
<1>1. Len(arrived) \in Nat /\ \A i \in 1..Len(arrived) : arrived[i] \in Places
  BY LenProperties, ElementOfSeq
<1>2. /\ more \in Seq(Places) /\ Len(more) = Len(arrived) + 1
      /\ \A i \in 1..Len(arrived) : more[i] = arrived[i]
      /\ more[Len(arrived) + 1] = chunk
  BY AppendProperties
<1>3. more # <<>>
  BY <1>1, <1>2
<1>4. QED
  BY <1>1, <1>2, <1>3

\* The chunk at a place is one that has not arrived, at least as far as those.
LEMMA NextIsFarther ==
  ASSUME NEW arrived \in Seq(Places), NEW center \in Places, NEW chunk \in Places,
         NEW dir \in 1..4, NEW k \in Nat, NEW rest \in 1..LegLength(dir, k),
         HaveArrived(arrived, center, dir, k, rest), NearestFirst(arrived, center),
         arrived = <<>> => chunk = center,
         chunk = <<center[1] + EastOf(dir, k, rest), center[2] + SouthOf(dir, k, rest)>>
  PROVE  NearestFirst(Append(arrived, chunk), center)
<1>1. PICK more : more = Append(arrived, chunk)
  OBVIOUS
<1>2. /\ Len(arrived) \in Nat /\ Len(more) = Len(arrived) + 1 /\ more # <<>>
      /\ \A i \in 1..Len(arrived) : more[i] = arrived[i]
      /\ \A i \in 1..Len(arrived) : arrived[i] \in Places
      /\ more[Len(arrived) + 1] = chunk
  BY <1>1, OneMore
<1>3. PICK east, south : east = EastOf(dir, k, rest) /\ south = SouthOf(dir, k, rest)
  OBVIOUS
<1>4. east \in Int /\ south \in Int /\ chunk[1] - center[1] = east /\ chunk[2] - center[2] = south
  <2>1. rest \in Nat
    BY DEF LegLength
  <2>2. east \in Int /\ south \in Int /\ chunk = <<center[1] + east, center[2] + south>>
    BY <1>3, <2>1, PlacesAreWhole
  <2>3. QED
    BY <2>2 DEF Places
<1>5. ASSUME NEW i \in 1..Len(arrived)
      PROVE  /\ arrived[i] # chunk
             /\ Distance(arrived[i], center) <= Distance(chunk, center)
  <2>0. PICK a : a = arrived[i]
    OBVIOUS
  <2>1. PICK x, z : x = a[1] - center[1] /\ z = a[2] - center[2]
    OBVIOUS
  <2>2. a \in Places /\ x \in Int /\ z \in Int
    <3>1. a \in Places
      BY <2>0, <1>2
    <3>2. a[1] \in Int /\ a[2] \in Int /\ center[1] \in Int /\ center[2] \in Int
      BY <3>1 DEF Places
    <3>3. QED
      BY <3>1, <3>2, <2>1
  <2>3. Behind(dir, k, rest, x, z)
    BY <2>0, <2>1 DEF HaveArrived
  <2>4. (x # east \/ z # south) /\ Far(x, z) <= Far(east, south)
    BY <2>2, <2>3, <1>3, PlaceIsOutermost
  <2>5. Distance(a, center) = Far(x, z) /\ Distance(chunk, center) = Far(east, south)
    BY <2>1, <2>2, <1>4 DEF Distance, Far, Places
  <2>6. QED
    BY <2>0, <2>1, <2>4, <2>5, <1>4
<1>6. more[1] = center
  <2>1. CASE arrived = <<>>
    BY <2>1, <1>2
  <2>2. CASE arrived # <<>>
    <3>1. 1 \in 1..Len(arrived)
      BY <2>2, <1>2, EmptySeq
    <3>2. QED
      BY <3>1, <2>2, <1>2 DEF NearestFirst
  <2>3. QED
    BY <2>1, <2>2
<1>7. ASSUME NEW i \in 1..Len(more), NEW j \in 1..Len(more), i < j
      PROVE  more[i] # more[j] /\ Distance(more[i], center) <= Distance(more[j], center)
  <2>1. i \in 1..Len(arrived) /\ (j \in 1..Len(arrived) \/ j = Len(arrived) + 1)
    BY <1>2, <1>7
  <2>2. CASE j \in 1..Len(arrived)
    BY <2>1, <2>2, <1>2, <1>7 DEF NearestFirst
  <2>3. CASE j = Len(arrived) + 1
    BY <2>1, <2>3, <1>2, <1>5
  <2>4. QED
    BY <2>1, <2>2, <2>3
<1>8. NearestFirst(more, center)
  BY <1>6, <1>7 DEF NearestFirst
<1>9. QED
  BY <1>1, <1>8

\* And then the chunks behind the next place have arrived.
LEMMA OneMoreHasArrived ==
  ASSUME NEW arrived \in Seq(Places), NEW center \in Places, NEW chunk \in Places,
         NEW dir \in 1..4, NEW k \in Nat, NEW rest \in Nat,
         NEW dir2 \in 1..4, NEW k2 \in Nat, NEW rest2 \in Nat,
         HaveArrived(arrived, center, dir, k, rest),
         NextPlace(dir, k, rest, dir2, k2, rest2),
         chunk = <<center[1] + EastOf(dir, k, rest), center[2] + SouthOf(dir, k, rest)>>,
         dir2 = 2 /\ rest2 = LegLength(dir2, k2) =>
           EastOf(dir, k, rest) = k2 /\ SouthOf(dir, k, rest) = k2
  PROVE  HaveArrived(Append(arrived, chunk), center, dir2, k2, rest2)
<1>1. PICK more : more = Append(arrived, chunk)
  OBVIOUS
<1>2. /\ Len(arrived) \in Nat /\ Len(more) = Len(arrived) + 1 /\ more # <<>>
      /\ \A i \in 1..Len(arrived) : more[i] = arrived[i]
      /\ \A i \in 1..Len(arrived) : arrived[i] \in Places
      /\ more[Len(arrived) + 1] = chunk
  BY <1>1, OneMore
<1>3. PICK east, south : east = EastOf(dir, k, rest) /\ south = SouthOf(dir, k, rest)
  OBVIOUS
<1>4. east \in Int /\ south \in Int /\ chunk[1] - center[1] = east /\ chunk[2] - center[2] = south
  <2>1. east \in Int /\ south \in Int /\ chunk = <<center[1] + east, center[2] + south>>
    BY <1>3, PlacesAreWhole
  <2>2. QED
    BY <2>1 DEF Places
<1>5. \A x, z \in Int : Behind(dir2, k2, rest2, x, z)
                          <=> Behind(dir, k, rest, x, z) \/ (x = east /\ z = south)
  BY <1>3 DEF NextPlace
<1>6. ASSUME NEW i \in 1..Len(more)
      PROVE  Behind(dir2, k2, rest2, more[i][1] - center[1], more[i][2] - center[2])
  <2>1. PICK x, z : x = more[i][1] - center[1] /\ z = more[i][2] - center[2]
    OBVIOUS
  <2>2. CASE i \in 1..Len(arrived)
    <3>0. arrived[i] \in Places /\ more[i] = arrived[i]
      BY <2>2, <1>2
    <3>a. /\ arrived[i][1] \in Int /\ arrived[i][2] \in Int
          /\ center[1] \in Int /\ center[2] \in Int
      BY <3>0 DEF Places
    <3>b. x = arrived[i][1] - center[1] /\ z = arrived[i][2] - center[2]
      BY <3>0, <2>1, Zenon
    <3>1. /\ x = arrived[i][1] - center[1] /\ z = arrived[i][2] - center[2]
          /\ x \in Int /\ z \in Int
      BY <3>a, <3>b
    <3>2. Behind(dir, k, rest, x, z)
      BY <3>1, <2>2 DEF HaveArrived
    <3>3. Behind(dir2, k2, rest2, x, z)
      BY <3>1, <3>2, <1>5
    <3>4. QED
      BY <2>1, <3>3
  <2>3. CASE i = Len(arrived) + 1
    <3>1. x = east /\ z = south
      BY <2>1, <2>3, <1>2, <1>4
    <3>2. Behind(dir2, k2, rest2, x, z)
      BY <3>1, <1>4, <1>5
    <3>3. QED
      BY <2>1, <3>2
  <2>4. QED
    BY <2>2, <2>3, <1>2
<1>7. Len(more) = Passed(dir2, k2, rest2)
  BY <1>2 DEF HaveArrived, NextPlace
<1>8. dir2 = 2 /\ rest2 = LegLength(dir2, k2) =>
        more # <<>> /\ more[Len(more)] = <<center[1] + k2, center[2] + k2>>
  BY <1>2
<1>9. HaveArrived(more, center, dir2, k2, rest2)
  BY <1>6, <1>7, <1>8 DEF HaveArrived
<1>10. QED
  BY <1>1, <1>9

\* A step yields the chunk the spiral is at.
LEMMA SpiralGoesOn ==
  ASSUME NEW spiral, NEW arrived, OnItsWay(spiral, arrived), ~SpiralIsDone(spiral)
  PROVE  /\ OnItsWay(StepSpiral(spiral), Append(arrived, spiral.current))
         /\ StepSpiral(spiral).center = spiral.center
         /\ StepSpiral(spiral).max_radius = spiral.max_radius
<1>1. PICK next, more, center, chunk, radius :
        /\ next = StepSpiral(spiral) /\ more = Append(arrived, chunk)
        /\ center = spiral.center /\ chunk = spiral.current /\ radius = spiral.max_radius
  OBVIOUS
<1>2. /\ spiral \in Spirals /\ arrived \in Seq(Places) /\ center \in Places /\ chunk \in Places
      /\ radius \in Nat /\ NearestFirst(arrived, center) /\ (arrived = <<>> => chunk = center)
  BY <1>1 DEF OnItsWay, Spirals, Places
<1>3. PICK dir \in 1..4, k \in Nat : \E rest \in 1..LegLength(dir, k) :
        /\ IsAt(spiral, dir, k, rest)
        /\ InRadius(dir, k, rest, radius)
        /\ HaveArrived(arrived, center, dir, k, rest)
  BY <1>1 DEF OnItsWay
<1>4. PICK rest \in 1..LegLength(dir, k) :
        /\ IsAt(spiral, dir, k, rest)
        /\ InRadius(dir, k, rest, radius)
        /\ HaveArrived(arrived, center, dir, k, rest)
  BY <1>3
<1>5. PICK east, south : east = EastOf(dir, k, rest) /\ south = SouthOf(dir, k, rest)
  OBVIOUS
<1>6. rest \in Nat /\ LegLength(dir, k) \in Nat
  BY DEF LegLength
<1>7. /\ east \in Int /\ south \in Int /\ chunk = <<center[1] + east, center[2] + south>>
      /\ center[1] \in Int /\ center[2] \in Int
      /\ chunk = <<center[1] + EastOf(dir, k, rest), center[2] + SouthOf(dir, k, rest)>>
  BY <1>1, <1>2, <1>4, <1>5, <1>6, PlacesAreWhole DEF IsAt, Places
<1>8. Far(east, south) <= radius
  <2>1. chunk[1] - center[1] = east /\ chunk[2] - center[2] = south
    BY <1>7
  <2>2. ~(Absolute(east) > radius) /\ ~(Absolute(south) > radius)
    BY <2>1, <1>1 DEF SpiralIsDone
  <2>3. QED
    BY <2>2, <1>2, <1>7 DEF Far, Absolute
<1>9. /\ next \in Spirals /\ next.center = center /\ next.max_radius = radius
      /\ rest > 1 => IsAt(next, dir, k, rest - 1)
      /\ rest = 1 => IsAt(next, NextDirection(dir), NextRing(dir, k), NextLeg(dir, k))
  BY <1>1, <1>2, <1>4, SpiralStep
<1>10. NearestFirst(more, next.center)
  BY <1>1, <1>2, <1>4, <1>7, <1>9, NextIsFarther
<1>11. more \in Seq(Places) /\ more # <<>>
  BY <1>1, <1>2, OneMore
<1>12. \E dir2 \in 1..4, k2 \in Nat : \E rest2 \in 1..LegLength(dir2, k2) :
         /\ IsAt(next, dir2, k2, rest2)
         /\ InRadius(dir2, k2, rest2, radius)
         /\ HaveArrived(more, center, dir2, k2, rest2)
  <2>1. CASE rest > 1
    <3>1. rest - 1 \in 1..LegLength(dir, k) /\ rest \in 2..LegLength(dir, k) /\ rest - 1 \in Nat
      BY <2>1, <1>6
    <3>2. IsAt(next, dir, k, rest - 1)
      BY <2>1, <1>9
    <3>3. InRadius(dir, k, rest - 1, radius)
      BY <2>1, <1>2, <1>4, <1>5, <1>8, RadiusIsKept
    <3>4. NextPlace(dir, k, rest, dir, k, rest - 1)
      BY <3>1, StepOnItsLeg
    <3>5. ~(dir = 2 /\ rest - 1 = LegLength(dir, k))
      BY <3>1, <1>6
    <3>6. HaveArrived(more, center, dir, k, rest - 1)
      BY <3>1, <3>4, <3>5, <1>1, <1>2, <1>4, <1>6, <1>7, OneMoreHasArrived
    <3>7. QED
      BY <3>1, <3>2, <3>3, <3>6
  <2>2. CASE rest = 1
    <3>1. PICK dir2, k2, leg2 :
            dir2 = NextDirection(dir) /\ k2 = NextRing(dir, k) /\ leg2 = NextLeg(dir, k)
      OBVIOUS
    <3>2. /\ dir2 \in 1..4 /\ k2 \in Nat /\ leg2 \in Nat /\ leg2 \in 1..LegLength(dir2, k2)
          /\ leg2 = LegLength(dir2, k2)
      <4>1. dir2 \in 1..4 /\ k2 \in Nat /\ leg2 \in Nat \ {0}
        BY <3>1, LegsGrow
      <4>2. leg2 = LegLength(dir2, k2)
        BY <3>1 DEF NextLeg
      <4>3. QED
        BY <4>1, <4>2
    <3>3. IsAt(next, dir2, k2, leg2)
      BY <3>1, <2>2, <1>9
    <3>4. InRadius(dir2, k2, leg2, radius)
      BY <3>1, <2>2, <1>2, <1>4, <1>5, <1>8, RadiusIsKept
    <3>5. NextPlace(dir, k, rest, dir2, k2, leg2)
      BY <3>1, <2>2, StepToTheNextLeg
    <3>6. dir2 = 2 /\ leg2 = LegLength(dir2, k2) =>
            EastOf(dir, k, rest) = k2 /\ SouthOf(dir, k, rest) = k2
      BY <3>1, <2>2 DEF NextDirection, NextRing, EastOf, SouthOf
    <3>7. HaveArrived(more, center, dir2, k2, leg2)
      BY <3>2, <3>5, <3>6, <1>1, <1>2, <1>4, <1>6, <1>7, OneMoreHasArrived
    <3>8. QED
      BY <3>2, <3>3, <3>4, <3>7
  <2>3. QED
    BY <2>1, <2>2, <1>6
<1>13. OnItsWay(next, more)
  BY <1>9, <1>10, <1>11, <1>12 DEF OnItsWay
<1>14. QED
  BY <1>1, <1>9, <1>13

\* What has arrived when the iterator is done: the square of its radius
AllArrived(arrived, center, radius) ==
  /\ Len(arrived) = (2 * radius + 1) * (2 * radius + 1)
  /\ Distance(Last(arrived), center) = radius

LEMMA SpiralEnds ==
  ASSUME NEW spiral, NEW arrived, OnItsWay(spiral, arrived), SpiralIsDone(spiral)
  PROVE  AllArrived(arrived, spiral.center, spiral.max_radius)
<1>1. PICK center, chunk, radius :
        center = spiral.center /\ chunk = spiral.current /\ radius = spiral.max_radius
  OBVIOUS
<1>2. /\ arrived \in Seq(Places) /\ center \in Places /\ chunk \in Places /\ radius \in Nat
  BY <1>1 DEF OnItsWay, Spirals, Places
<1>3. PICK dir \in 1..4, k \in Nat : \E rest \in 1..LegLength(dir, k) :
        /\ IsAt(spiral, dir, k, rest)
        /\ InRadius(dir, k, rest, radius)
        /\ HaveArrived(arrived, center, dir, k, rest)
  BY <1>1 DEF OnItsWay
<1>4. PICK rest \in 1..LegLength(dir, k) :
        /\ IsAt(spiral, dir, k, rest)
        /\ InRadius(dir, k, rest, radius)
        /\ HaveArrived(arrived, center, dir, k, rest)
  BY <1>3
<1>5. PICK east, south : east = EastOf(dir, k, rest) /\ south = SouthOf(dir, k, rest)
  OBVIOUS
<1>6. rest \in Nat /\ LegLength(dir, k) \in Nat
  BY DEF LegLength
<1>7. /\ east \in Int /\ south \in Int /\ chunk = <<center[1] + east, center[2] + south>>
      /\ center[1] \in Int /\ center[2] \in Int
  BY <1>1, <1>2, <1>4, <1>5, <1>6, PlacesAreWhole DEF IsAt, Places
<1>8. ~(Far(east, south) <= radius)
  <2>1. chunk[1] - center[1] = east /\ chunk[2] - center[2] = south
    BY <1>7
  <2>2. Absolute(east) > radius \/ Absolute(south) > radius
    BY <2>1, <1>1 DEF SpiralIsDone
  <2>3. QED
    BY <2>2, <1>2, <1>7 DEF Far, Absolute
<1>9. k = radius /\ dir = 2 /\ rest = LegLength(dir, k)
  BY <1>2, <1>4, <1>5, <1>8, RadiusIsKept
<1>10. Len(arrived) = Area(radius)
  <2>1. Passed(2, radius, LegLength(2, radius)) = Area(radius)
    BY <1>2 DEF Passed, LegLength, Area
  <2>2. QED
    BY <2>1, <1>4, <1>9 DEF HaveArrived
<1>11. Distance(Last(arrived), center) = radius
  <2>1. Last(arrived) = <<center[1] + radius, center[2] + radius>>
    BY <1>4, <1>9 DEF Last, HaveArrived
  <2>2. QED
    BY <2>1, <1>2, <1>7 DEF Distance, Absolute
<1>12. QED
  BY <1>1, <1>10, <1>11 DEF AllArrived, Area

-----------------------------------------------------------------------------
(* Batches: what they are made of                                              *)

IsList(s) == s \in Seq(ToSet(s))

LEMMA ListsAre ==
  ASSUME NEW T, NEW s \in Seq(T)
  PROVE  /\ IsList(s)
         /\ ToSet(s) \subseteq T
         /\ \A e : e \in ToSet(s) <=> \E i \in 1..Len(s) : s[i] = e
<1>1. Len(s) \in Nat /\ DOMAIN s = 1..Len(s) /\ s \in [1..Len(s) -> T]
  BY LenProperties
<1>2. \A i \in 1..Len(s) : s[i] \in ToSet(s) /\ s[i] \in T
  BY <1>1 DEF ToSet
<1>3. s \in [1..Len(s) -> ToSet(s)]
  BY <1>1, <1>2
<1>4. s \in Seq(ToSet(s))
  BY <1>1, <1>3, SeqDef
<1>5. \A e : e \in ToSet(s) <=> \E i \in 1..Len(s) : s[i] = e
  BY <1>1 DEF ToSet
<1>6. ToSet(s) \subseteq T
  BY <1>2, <1>5
<1>7. QED
  BY <1>4, <1>5, <1>6 DEF IsList

LEMMA ConcatenatedLists ==
  ASSUME NEW s, NEW t, IsList(s), IsList(t)
  PROVE  /\ IsList(s \o t)
         /\ ToSet(s \o t) = ToSet(s) \cup ToSet(t)
<1>1. PICK T : T = ToSet(s) \cup ToSet(t)
  OBVIOUS
<1>2. s \in Seq(T) /\ t \in Seq(T)
  BY <1>1, SeqMonotonic DEF IsList
<1>3. PICK u : u = s \o t
  OBVIOUS
<1>4. /\ u \in Seq(T) /\ Len(u) = Len(s) + Len(t) /\ Len(s) \in Nat /\ Len(t) \in Nat
      /\ \A i \in 1..Len(s) + Len(t) : u[i] = IF i <= Len(s) THEN s[i] ELSE t[i - Len(s)]
  BY <1>2, <1>3, ConcatProperties, LenProperties
<1>5. IsList(u) /\ ToSet(u) \subseteq T
  BY <1>4, ListsAre
<1>6. ASSUME NEW e \in ToSet(s) PROVE e \in ToSet(u)
  <2>1. PICK i \in 1..Len(s) : s[i] = e
    BY <1>2, ListsAre
  <2>2. i \in 1..Len(u) /\ u[i] = e
    BY <2>1, <1>4
  <2>3. QED
    BY <2>2, <1>4, ListsAre
<1>7. ASSUME NEW e \in ToSet(t) PROVE e \in ToSet(u)
  <2>1. PICK i \in 1..Len(t) : t[i] = e
    BY <1>2, ListsAre
  <2>2. PICK j : j = Len(s) + i
    OBVIOUS
  <2>3. j \in 1..Len(u) /\ u[j] = e
    BY <2>1, <2>2, <1>4
  <2>4. QED
    BY <2>3, <1>4, ListsAre
<1>8. QED
  BY <1>1, <1>3, <1>5, <1>6, <1>7

LEMMA SmallLists ==
  /\ IsList(<<>>) /\ ToSet(<<>>) = {}
  /\ \A e : IsList(<<e>>) /\ ToSet(<<e>>) = {e}
<1>1. <<>> \in Seq({}) /\ Len(<<>>) = 0
  OBVIOUS
<1>2. IsList(<<>>) /\ ToSet(<<>>) = {}
  <2>1. IsList(<<>>) /\ \A e : e \in ToSet(<<>>) <=> \E i \in 1..Len(<<>>) : <<>>[i] = e
    BY <1>1, ListsAre, Zenon
  <2>2. \A e : e \notin ToSet(<<>>)
    BY <1>1, <2>1
  <2>3. QED
    BY <2>1, <2>2
<1>3. ASSUME NEW e PROVE IsList(<<e>>) /\ ToSet(<<e>>) = {e}
  <2>1. <<e>> \in Seq({e}) /\ Len(<<e>>) = 1 /\ <<e>>[1] = e
    OBVIOUS
  <2>2. /\ IsList(<<e>>)
        /\ \A d : d \in ToSet(<<e>>) <=> \E i \in 1..Len(<<e>>) : <<e>>[i] = d
    BY <2>1, ListsAre, Zenon
  <2>3. \A d : d \in ToSet(<<e>>) <=> d = e
    BY <2>1, <2>2
  <2>4. QED
    BY <2>2, <2>3
<1>4. QED
  BY <1>2, <1>3

\* What is taken from the front, and what is left
LEMMA HeadAndTail ==
  ASSUME NEW s, IsList(s), s # <<>>
  PROVE  /\ IsList(Tail(s))
         /\ Head(s) \in ToSet(s)
         /\ ToSet(s) = {Head(s)} \cup ToSet(Tail(s))
<1>1. PICK T : T = ToSet(s)
  OBVIOUS
<1>2. s \in Seq(T) /\ Head(s) = s[1] /\ Len(s) \in Nat /\ Len(s) >= 1
  BY <1>1, EmptySeq, LenProperties DEF IsList
<1>3. /\ Tail(s) \in Seq(T) /\ Len(Tail(s)) = Len(s) - 1
      /\ \A i \in 1..Len(Tail(s)) : Tail(s)[i] = s[i + 1]
  BY <1>2, HeadTailProperties
<1>4. IsList(Tail(s)) /\ ToSet(Tail(s)) \subseteq T
  BY <1>3, ListsAre
<1>5. Head(s) \in T
  BY <1>1, <1>2, ListsAre
<1>6. ASSUME NEW e \in T PROVE e = Head(s) \/ e \in ToSet(Tail(s))
  <2>1. PICK i \in 1..Len(s) : s[i] = e
    BY <1>1, <1>2, ListsAre
  <2>2. CASE i = 1
    BY <2>1, <2>2, <1>2
  <2>3. CASE i # 1
    <3>1. PICK j : j = i - 1
      OBVIOUS
    <3>2. j \in 1..Len(Tail(s)) /\ Tail(s)[j] = e
      BY <3>1, <2>1, <2>3, <1>2, <1>3
    <3>3. QED
      BY <3>2, <1>3, ListsAre
  <2>4. QED
    BY <2>2, <2>3
<1>7. QED
  BY <1>1, <1>4, <1>5, <1>6

\* Producers and what only some versions have
Synced(name, content) == [kind |-> "sync", packet |-> Packet(name, content)]

LEMMA SyncIs ==
  ASSUME NEW name, NEW content
  PROVE  /\ IsList(Sync(name, content))
         /\ ToSet(Sync(name, content)) = {Synced(name, content)}
         /\ Synced(name, content).kind = "sync"
         /\ Synced(name, content).packet.name = name
         /\ Synced(name, content).packet.content = content
BY SmallLists DEF Sync, Synced, Packet

LEMMA WhenIs ==
  ASSUME NEW condition \in BOOLEAN, NEW them, condition => IsList(them)
  PROVE  /\ IsList(When(condition, them))
         /\ ToSet(When(condition, them)) = IF condition THEN ToSet(them) ELSE {}
BY SmallLists DEF When

\* Fields that only some versions have
LEMMA MoreFields ==
  ASSUME NEW f, NEW g
  PROVE  /\ DOMAIN (f ++ g) = DOMAIN f \cup DOMAIN g
         /\ \A x \in DOMAIN f : (f ++ g)[x] = f[x]
         /\ \A x \in DOMAIN g \ DOMAIN f : (f ++ g)[x] = g[x]
BY DEF ++

-----------------------------------------------------------------------------
(* The invariant                                                               *)

\* What the limbo tells is what the file says, whether the file was read or written.
SameRules(config, other) ==
  \A k \in DOMAIN DEFAULT_CONFIG \ MODAL_KEYS : config[k] = other[k]

StateIsBuilt ==
  \E config \in {Parsed(config_file), DEFAULT_CONFIG} :
    /\ server_state = BuildState(config)
    /\ CanBuild(config)
    /\ SameRules(config, Parsed(config_file))

LoadedSchematic == LoadSchematic(SchematicFile, InternalMapping)

\* The world is that of the schematic of the file.
WorldIsBuilt ==
  \/ world = NoWorld
  \/ /\ stage \in {"sky", "block", "serving"}
     /\ HasSchematic(config_file)
     /\ world = [exists |-> TRUE,
                 size_in_chunks |-> SizeInChunks(LoadedSchematic),
                 world_sections |-> world.world_sections,
                 block_entities_by_chunk |->
                   BlockEntitiesByChunk(LoadedSchematic, SizeInChunks(LoadedSchematic)),
                 sky_light_by_chunk |-> world.sky_light_by_chunk,
                 block_light_by_chunk |-> world.block_light_by_chunk]

IsClient(c) ==
  c = [phase |-> c.phase, registries |-> c.registries, tags |-> c.tags, login |-> c.login,
       abilities |-> c.abilities, time_advances |-> c.time_advances, shown |-> c.shown,
       commands |-> c.commands, waits_for_chunks |-> c.waits_for_chunks, center |-> c.center,
       arrived |-> c.arrived, column |-> c.column]

\* What a packet of the configuration is
IsConfigurationPacket(packet) ==
  /\ packet.name \in {"custom_payload", "select_known_packs", "update_tags", "registry_data",
                      "finish_configuration"}
  /\ CanEncodePacket(packet, player.pvn)

IsRegistryIterator(p) ==
  /\ p = [kind |-> "iterator", items |-> p.items]
  /\ IsList(p.items)
  /\ \A packet \in ToSet(p.items) : packet.name = "registry_data"

IsInConfiguration(p) ==
  \/ p.kind = "sync" /\ IsConfigurationPacket(p.packet)
  \/ IsRegistryIterator(p)

Configuring ==
  /\ player.pvn >= 764
  /\ IsList(producers)
  /\ \A p \in ToSet(producers) : IsInConfiguration(p)
  /\ current = Idle \/ IsRegistryIterator(current)
  /\ client.shown = {} /\ client.arrived = <<>>

\* What the packets of the play state say
LoginSays(c) ==
  /\ (IF "is_hardcore" \in DOMAIN c THEN c.game_mode ELSE c.game_mode % 8)
       = GameModeValue(GameMode(server_state, player.pvn))
  /\ HardcoreFlag(c) <=> server_state.hardcore
  /\ "is_hardcore" \in DOMAIN c => c.is_hardcore \in BOOLEAN
  /\ player.pvn >= 477 =>
       "view_distance" \in DOMAIN c /\ c.view_distance = server_state.view_distance
  /\ player.pvn >= 47 =>
       "reduced_debug_info" \in DOMAIN c /\ c.reduced_debug_info = server_state.reduced_debug_info

AbilitiesSay(abilities) ==
  LET mode == GameMode(server_state, player.pvn)
  IN  /\ "flying" \in abilities <=> mode = "spectator"
      /\ "may_fly" \in abilities <=> server_state.allow_flight \/ mode = "spectator"
      /\ "creative" \in abilities <=> mode = "creative"

TimeSays(advances) == player.pvn >= 768 => advances = ~server_state.lock_time

IsPlayPacket(packet) ==
  /\ packet.name \in {"login", "player_abilities", "set_default_spawn_position", "player_position",
                      "commands", "custom_payload", "system_chat", "legacy_chat_message",
                      "set_time", "set_action_bar_text", "legacy_set_title", "set_entity_data",
                      "tab_list", "set_titles_animation", "set_title_text", "set_subtitle_text",
                      "boss_event", "game_event", "set_chunk_cache_center"}
  /\ CanEncodePacket(packet, player.pvn)
  /\ Shown(packet, player.pvn) \subseteq ExpectedTexts(player.pvn)
  /\ packet.name = "login" => LoginSays(packet.content)
  /\ packet.name = "player_abilities" => AbilitiesSay(AbilitiesOf(packet.content))
  /\ packet.name = "set_time" => TimeSays(TimeAdvances(packet.content, player.pvn))
  /\ packet.name = "set_chunk_cache_center" => packet.content = CenterChunk(server_state)

\* An iterator of the chunks around the spawn position
IsChunkIterator(p) ==
  /\ player.pvn >= 735
  /\ p = [kind |-> "chunks",
          chunks |-> [spiral |-> p.chunks.spiral, biome |-> p.chunks.biome,
                      dimension |-> p.chunks.dimension,
                      schematic_context |-> SchematicContext(world, player.pvn)]]
  /\ p.chunks.spiral.center = CenterChunk(server_state)
  /\ p.chunks.spiral.max_radius = server_state.view_distance

IsInPlay(p) ==
  \/ p.kind = "sync" /\ IsPlayPacket(p.packet)
  \/ p.kind = "async"
  \/ IsChunkIterator(p) /\ OnItsWay(p.chunks.spiral, <<>>)

ChunksAreLast(batch) == \A i \in 1..Len(batch) : batch[i].kind = "chunks" => i = Len(batch)

\* What is still to come of a batch
Comes(batch, name) == \E p \in ToSet(batch) : p.kind = "sync" /\ p.packet.name = name
ChunksCome(batch) == \E p \in ToSet(batch) : p.kind = "chunks"
TextComes(batch, text) ==
  \E p \in ToSet(batch) : p.kind = "sync" /\ text \in Shown(p.packet, player.pvn)

IsPlayBatch(batch) ==
  /\ IsList(batch)
  /\ \A p \in ToSet(batch) : IsInPlay(p)
  /\ ChunksAreLast(batch)

LoginIsTold ==
  /\ client.phase = "play"
  /\ client.login.game_mode = GameModeValue(GameMode(server_state, player.pvn))
  /\ client.login.hardcore = server_state.hardcore
  /\ player.pvn >= 477 => client.login.view_distance = server_state.view_distance
  /\ player.pvn >= 47 => client.login.reduced_debug_info = server_state.reduced_debug_info

\* Everything there is to tell comes or has been told.
GameIsTold ==
  /\ Comes(producers, "login") \/ LoginIsTold
  /\ Comes(producers, "player_abilities") \/ AbilitiesSay(client.abilities)
  /\ Comes(producers, "set_time") \/ TimeSays(client.time_advances)

TextsAreTold ==
  /\ client.shown \subseteq ExpectedTexts(player.pvn)
  /\ \A text \in ExpectedTexts(player.pvn) : text \in client.shown \/ TextComes(producers, text)

PlaceIsTold ==
  /\ player.pvn >= 759 =>
       Comes(producers, "set_chunk_cache_center") \/ client.center = CenterChunk(server_state)
  /\ player.pvn >= 765 => Comes(producers, "game_event") \/ client.waits_for_chunks

ChunksAreTold ==
  /\ producers # <<>> => client.arrived = <<>>
  /\ current.kind = "chunks" =>
       /\ producers = <<>>
       /\ IsChunkIterator(current)
       /\ OnItsWay(current.chunks.spiral, client.arrived)
  /\ player.pvn >= 735 =>
       \/ ChunksCome(producers)
       \/ current.kind = "chunks"
       \/ AllArrived(client.arrived, CenterChunk(server_state), server_state.view_distance)

Playing ==
  /\ IsPlayBatch(producers)
  /\ current.kind \in {"async", "chunks"} \/ current = Idle
  /\ GameIsTold
  /\ TextsAreTold
  /\ PlaceIsTold
  /\ ChunksAreTold

\* Whatever becomes of the batch
ArrivalsAreOrdered ==
  /\ client.arrived \in Seq(Places)
  /\ NearestFirst(client.arrived, CenterChunk(server_state))
  /\ client.arrived # <<>> =>
       /\ player.pvn >= 759 => client.center = CenterChunk(server_state)
       /\ player.pvn >= 765 => client.waits_for_chunks

Lost ==
  /\ BatchIsDone
  /\ ShowsTheSchematic
  /\ player.pvn < 770
  /\ SchematicFile.unwritable # {}

JoinInv ==
  /\ config_file \in Files
  /\ stage # "stopped" => StateIsBuilt
  /\ WorldIsBuilt
  /\ IsClient(client)
  /\ player = NoPlayer => producers = <<>> /\ current = Idle /\ client = NewClient
  /\ player # NoPlayer =>
       /\ stage = "serving"
       /\ player.pvn \in Releases
       /\ ArrivalsAreOrdered
       /\ \/ client.phase \in {"configuration", "configured"} /\ Configuring
          \/ client.phase \in {"none", "acknowledged", "play"} /\ Playing
          \/ client.phase = "lost" /\ Lost

-----------------------------------------------------------------------------
(* The configuration                                                           *)

RulesHaveTypes(config) ==
  /\ config.spawn_position \in Int \X Int \X Int
  /\ config.view_distance \in Int
  /\ config.default_game_mode \in {"survival", "creative", "adventure", "spectator"}
  /\ config.hardcore \in BOOLEAN /\ config.reduced_debug_info \in BOOLEAN
  /\ config.allow_flight \in BOOLEAN /\ config.lock_time \in BOOLEAN

RuleNames == {"welcome_message", "action_bar", "default_game_mode", "hardcore",
  "fetch_player_skins", "reduced_debug_info", "allow_flight", "spawn_position", "dimension",
  "time", "view_distance", "schematic_file", "lock_time", "player_listed", "commands"}

LEMMA RulesAre == DOMAIN DEFAULT_CONFIG \ MODAL_KEYS = RuleNames
BY DEF DEFAULT_CONFIG, MODAL_KEYS, RuleNames

LEMMA DefaultsHaveTypes == RulesHaveTypes(DEFAULT_CONFIG)
BY DEF DEFAULT_CONFIG, RulesHaveTypes

\* The defaults are written as they are read.
LEMMA WrittenDefaults == SameRules(DEFAULT_CONFIG, Parsed(Written(DEFAULT_CONFIG)))
<1>1. PICK default, file, config :
        default = DEFAULT_CONFIG /\ file = Written(DEFAULT_CONFIG) /\ config = Parsed(file)
  OBVIOUS
<1>2. DOMAIN file = DOMAIN default /\ DOMAIN config = DOMAIN default
  BY <1>1 DEF Written, Parsed
<1>3. ASSUME NEW k \in DOMAIN default \ MODAL_KEYS PROVE default[k] = config[k]
  <2>1. file[k] = default[k]
    BY <1>1 DEF Written
  <2>2. config[k] = file[k]
    BY <1>1, <1>2 DEF Parsed
  <2>3. QED
    BY <2>1, <2>2
<1>4. QED
  BY <1>1, <1>3 DEF SameRules

LEMMA SameTypes ==
  ASSUME NEW config, NEW other, SameRules(config, other), RulesHaveTypes(config)
  PROVE  RulesHaveTypes(other)
<1>1. \A k \in RuleNames : config[k] = other[k]
  BY RulesAre DEF SameRules
<1>2. QED
  BY <1>1 DEF RulesHaveTypes, RuleNames

LEMMA FilesHaveTypes ==
  ASSUME NEW file \in Files
  PROVE  RulesHaveTypes(Parsed(file))
<1>1. CASE file \in ConfigurationFiles
  <2>1. PICK config : config = Parsed(file)
    OBVIOUS
  <2>2. /\ config.spawn_position \in Int \X Int \X Int
        /\ config.view_distance \in Int
        /\ config.default_game_mode \in {"survival", "creative", "adventure", "spectator"}
        /\ {config.hardcore, config.reduced_debug_info, config.allow_flight,
             config.lock_time} \subseteq BOOLEAN
    BY <1>1, <2>1, FilesAssumption, Zenon
  <2>3. QED
    BY <2>1, <2>2 DEF RulesHaveTypes
<1>2. CASE file = Written(DEFAULT_CONFIG)
  BY <1>2, WrittenDefaults, DefaultsHaveTypes, SameTypes
<1>3. QED
  BY <1>1, <1>2 DEF Files

\* What build_state makes of the rules in the file
StateIsRight(state, config) ==
  /\ state.spawn_position = config.spawn_position
  /\ state.view_distance = IF config.view_distance < 0 THEN 0 ELSE config.view_distance
  /\ state.game_mode = config.default_game_mode
  /\ state.hardcore = config.hardcore
  /\ state.reduced_debug_info = config.reduced_debug_info
  /\ state.allow_flight = config.allow_flight
  /\ state.lock_time = config.lock_time

TextsHaveFields(state) ==
  /\ state.tab_list = <<>> \/ state.tab_list = [header |-> state.tab_list.header,
                                                footer |-> state.tab_list.footer]
  /\ state.boss_bar = <<>> \/ state.boss_bar = [title |-> state.boss_bar.title]
  /\ DOMAIN state.title \subseteq {"title", "subtitle"}

LEMMA BuiltState ==
  ASSUME NEW config
  PROVE  StateIsRight(BuildState(config), config) /\ TextsHaveFields(BuildState(config))
<1>1. PICK state : state = BuildState(config)
  OBVIOUS
<1>2. StateIsRight(state, config)
  BY <1>1 DEF BuildState, StateIsRight
<1>3. /\ state.tab_list = Given(config.tab_list, {"header", "footer"})
      /\ state.boss_bar = Given(config.boss_bar, {"title"})
  BY <1>1 DEF BuildState
<1>4. state.tab_list = <<>> \/ state.tab_list = [header |-> state.tab_list.header,
                                                 footer |-> state.tab_list.footer]
  BY <1>3 DEF Given
<1>5. state.boss_bar = <<>> \/ state.boss_bar = [title |-> state.boss_bar.title]
  BY <1>3 DEF Given
<1>6. PICK title : title = Given(config.title, {"title", "subtitle"})
  OBVIOUS
<1>7. DOMAIN title \subseteq {"title", "subtitle"}
  BY <1>6 DEF Given
<1>8. state.title = [f \in {g \in DOMAIN title : title[g] # ""} |-> title[f]]
  BY <1>1, <1>6 DEF BuildState
<1>9. DOMAIN state.title \subseteq {"title", "subtitle"}
  BY <1>7, <1>8
<1>10. QED
  BY <1>1, <1>2, <1>4, <1>5, <1>9 DEF TextsHaveFields

LEMMA ServerStateIsRight ==
  ASSUME config_file \in Files, StateIsBuilt
  PROVE  /\ StateIsRight(server_state, Parsed(config_file))
         /\ RulesHaveTypes(Parsed(config_file))
         /\ TextsHaveFields(server_state)
         /\ HasSchematic(config_file) =>
              /\ Parsed(config_file).schematic_file \in DOMAIN SchematicFiles
              /\ Loads(SchematicFile)
<1>1. PICK config : /\ server_state = BuildState(config)
                    /\ CanBuild(config)
                    /\ SameRules(config, Parsed(config_file))
  BY DEF StateIsBuilt
<1>2. PICK parsed : parsed = Parsed(config_file)
  OBVIOUS
<1>3. \A k \in RuleNames : config[k] = parsed[k]
  BY <1>1, <1>2, RulesAre DEF SameRules
<1>4. StateIsRight(server_state, config) /\ TextsHaveFields(server_state)
  BY <1>1, BuiltState
<1>5. StateIsRight(server_state, parsed)
  BY <1>3, <1>4 DEF StateIsRight, RuleNames
<1>6. parsed.schematic_file # "" => /\ parsed.schematic_file \in DOMAIN SchematicFiles
                                    /\ Loads(SchematicFiles[parsed.schematic_file])
  <2>1. config.schematic_file = parsed.schematic_file
    BY <1>3 DEF RuleNames
  <2>2. QED
    BY <1>1, <2>1 DEF CanBuild
<1>7. QED
  BY <1>2, <1>4, <1>5, <1>6, FilesHaveTypes DEF HasSchematic, SchematicFile

-----------------------------------------------------------------------------
(* The parts of the batch of the play state                                    *)

LEMMA ReleasesAre ==
  ASSUME NEW pvn \in Releases
  PROVE  /\ pvn \in Int /\ pvn \in 4..775
         /\ ~(pvn \in 579..734)
BY DEF Releases

\* A list of producers of the play state, none of them of chunks
Playable(b) == IsList(b) /\ \A p \in ToSet(b) : IsInPlay(p) /\ p.kind # "chunks"

LEMMA PlayableLists ==
  ASSUME NEW s, NEW t, Playable(s), Playable(t)
  PROVE  Playable(s \o t) /\ ToSet(s \o t) = ToSet(s) \cup ToSet(t)
<1>1. IsList(s \o t) /\ ToSet(s \o t) = ToSet(s) \cup ToSet(t)
  BY ConcatenatedLists DEF Playable
<1>2. QED
  BY <1>1 DEF Playable

LEMMA PlayableSync ==
  ASSUME NEW name, NEW content, IsPlayPacket(Packet(name, content))
  PROVE  /\ Playable(Sync(name, content))
         /\ ToSet(Sync(name, content)) = {Synced(name, content)}
         /\ Synced(name, content).kind = "sync"
         /\ Synced(name, content).packet = Packet(name, content)
         /\ Packet(name, content).name = name
         /\ Packet(name, content).content = content
<1>1. /\ IsList(Sync(name, content))
      /\ ToSet(Sync(name, content)) = {Synced(name, content)}
      /\ Synced(name, content).kind = "sync"
  BY SyncIs
<1>2. Synced(name, content).packet = Packet(name, content)
  BY DEF Synced
<1>3. IsInPlay(Synced(name, content))
  BY <1>1, <1>2 DEF IsInPlay
<1>4. QED
  BY <1>1, <1>2, <1>3 DEF Playable, Packet

LEMMA PlayableWhen ==
  ASSUME NEW condition \in BOOLEAN, NEW them, condition => Playable(them)
  PROVE  /\ Playable(When(condition, them))
         /\ condition => ToSet(When(condition, them)) = ToSet(them)
<1>1. CASE condition
  BY <1>1 DEF When
<1>2. CASE ~condition
  <2>1. When(condition, them) = <<>>
    BY <1>2 DEF When
  <2>2. QED
    BY <1>2, <2>1, SmallLists DEF Playable
<1>3. QED
  BY <1>1, <1>2

\* Packets that show no text
SilentNames ==
  {"login", "player_abilities", "set_default_spawn_position", "player_position", "commands",
   "custom_payload", "set_time", "set_entity_data", "set_titles_animation", "game_event",
   "set_chunk_cache_center"}

LEMMA SilentPackets ==
  ASSUME NEW name \in SilentNames, NEW content, NEW pvn
  PROVE  Shown(Packet(name, content), pvn) = {}
BY DEF SilentNames, Shown, Packet

LEMMA SilentPacketIs ==
  ASSUME NEW name \in SilentNames, NEW content, player.pvn \in VersionsOf(name),
         name = "login" => LoginSays(content),
         name = "player_abilities" => AbilitiesSay(AbilitiesOf(content)),
         name = "set_time" => TimeSays(TimeAdvances(content, player.pvn)),
         name = "set_chunk_cache_center" => content = CenterChunk(server_state)
  PROVE  IsPlayPacket(Packet(name, content))
<1>1. PICK packet : packet = Packet(name, content)
  OBVIOUS
<1>2. packet.name = name /\ packet.content = content
  BY <1>1 DEF Packet
<1>3. Shown(packet, player.pvn) = {}
  BY <1>1, SilentPackets
<1>4. CanEncodePacket(packet, player.pvn)
  BY <1>2 DEF CanEncodePacket, SilentNames
<1>5. QED
  BY <1>1, <1>2, <1>3, <1>4 DEF IsPlayPacket, SilentNames

TextNames ==
  {"system_chat", "legacy_chat_message", "set_action_bar_text", "legacy_set_title", "tab_list",
   "set_title_text", "set_subtitle_text", "boss_event"}

LEMMA TextPacketIs ==
  ASSUME NEW name \in TextNames, NEW content, player.pvn \in VersionsOf(name),
         name = "legacy_set_title" => content.type_id # NO_TYPE_ID,
         Shown(Packet(name, content), player.pvn) \subseteq ExpectedTexts(player.pvn)
  PROVE  IsPlayPacket(Packet(name, content))
<1>1. PICK packet : packet = Packet(name, content)
  OBVIOUS
<1>2. packet.name = name /\ packet.content = content
  BY <1>1 DEF Packet
<1>3. CanEncodePacket(packet, player.pvn)
  BY <1>2 DEF CanEncodePacket, TextNames
<1>4. QED
  BY <1>1, <1>2, <1>3 DEF IsPlayPacket, TextNames

-----------------------------------------------------------------------------
(* What the packets say of the game                                            *)

GameModes == {"survival", "creative", "adventure", "spectator"}

LEMMA ModeValues ==
  ASSUME NEW mode \in GameModes
  PROVE  /\ GameModeValue(mode) \in 0..3
         /\ \A hardcore \in BOOLEAN :
              LET value == WithHardcoreBit(GameModeValue(mode), hardcore)
              IN  value % 8 = GameModeValue(mode) /\ (value >= 8 <=> hardcore)
BY DEF GameModes, GameModeValue, WithHardcoreBit

LEMMA FlagsAreRead ==
  ASSUME NEW flying \in BOOLEAN, NEW may_fly \in BOOLEAN, NEW creative \in BOOLEAN
  PROVE  LET abilities == AbilitiesOf(AbilitiesFlags(flying, may_fly, creative))
         IN  /\ "flying" \in abilities <=> flying
             /\ "may_fly" \in abilities <=> may_fly
             /\ "creative" \in abilities <=> creative
<1>1. PICK flags : flags = AbilitiesFlags(flying, may_fly, creative)
  OBVIOUS
<1>2. /\ (flags \div 2) % 2 = 1 <=> flying
      /\ (flags \div 4) % 2 = 1 <=> may_fly
      /\ (flags \div 8) % 2 = 1 <=> creative
  BY <1>1 DEF AbilitiesFlags
<1>3. QED
  BY <1>1, <1>2 DEF AbilitiesOf

\* Fields that a version may not have
HasMore(all, r, condition, more) ==
  /\ \A x \in DOMAIN r : x \in DOMAIN all /\ all[x] = r[x]
  /\ condition => \A x \in DOMAIN more \ DOMAIN r : x \in DOMAIN all /\ all[x] = more[x]
  /\ \A x \in DOMAIN all : x \in DOMAIN r \/ (condition /\ x \in DOMAIN more)

LEMMA LoginBefore1_16 ==
  ASSUME player.pvn \in 4..578, server_state.game_mode \in GameModes,
         server_state.hardcore \in BOOLEAN
  PROVE  LoginSays(PreV1_16Data(server_state, player.pvn))
<1>1. PICK pvn, mode, hardcore : /\ pvn = player.pvn /\ mode = GameMode(server_state, pvn)
                                 /\ hardcore = server_state.hardcore
  OBVIOUS
<1>2. PICK r1, distance, info :
        /\ r1 = [game_mode |-> WithHardcoreBit(GameModeValue(mode), hardcore),
                 dimension |-> LegacyId(server_state.spawn_dimension)]
        /\ distance = [view_distance |-> server_state.view_distance]
        /\ info = [reduced_debug_info |-> server_state.reduced_debug_info]
  OBVIOUS
<1>a. PICK r2 : r2 = r1 ++ When(pvn >= 477, distance)
  OBVIOUS
<1>b. PICK r3 : r3 = r2 ++ When(pvn >= 47, info)
  OBVIOUS
<1>3. r3 = PreV1_16Data(server_state, player.pvn)
  BY <1>1, <1>2, <1>a, <1>b DEF PreV1_16Data
<1>4. mode \in GameModes /\ hardcore \in BOOLEAN /\ pvn \in Int
  BY <1>1 DEF GameMode, GameModes
<1>5. r1.game_mode = WithHardcoreBit(GameModeValue(mode), hardcore)
      /\ DOMAIN r1 = {"game_mode", "dimension"}
  BY <1>2
<1>7. /\ DOMAIN distance = {"view_distance"}
      /\ distance.view_distance = server_state.view_distance
      /\ DOMAIN info = {"reduced_debug_info"}
      /\ info.reduced_debug_info = server_state.reduced_debug_info
  BY <1>2
<1>8. HasMore(r2, r1, pvn >= 477, distance)
  BY <1>4, <1>a DEF HasMore, When, ++
<1>9. HasMore(r3, r2, pvn >= 47, info)
  BY <1>4, <1>b DEF HasMore, When, ++
<1>10. r3.game_mode = WithHardcoreBit(GameModeValue(mode), hardcore)
  BY <1>5, <1>8, <1>9 DEF HasMore
<1>11. "is_hardcore" \notin DOMAIN r3
  BY <1>5, <1>7, <1>8, <1>9 DEF HasMore
<1>12. pvn >= 477 => "view_distance" \in DOMAIN r3 /\ r3.view_distance = server_state.view_distance
  BY <1>5, <1>7, <1>8, <1>9 DEF HasMore
<1>13. pvn >= 47 => /\ "reduced_debug_info" \in DOMAIN r3
                    /\ r3.reduced_debug_info = server_state.reduced_debug_info
  BY <1>5, <1>7, <1>8, <1>9 DEF HasMore
<1>14. r3.game_mode % 8 = GameModeValue(mode) /\ (r3.game_mode >= 8 <=> hardcore)
  BY <1>4, <1>10, ModeValues
<1>15. QED
  BY <1>1, <1>3, <1>11, <1>12, <1>13, <1>14 DEF LoginSays, HardcoreFlag

LEMMA LoginFrom1_16 ==
  ASSUME player.pvn \in Releases, player.pvn \in 735..763, server_state.game_mode \in GameModes,
         server_state.hardcore \in BOOLEAN
  PROVE  LoginSays(PostV1_16Data(server_state, player))
<1>1. PICK pvn, mode, hardcore, identifier :
        /\ pvn = player.pvn /\ mode = server_state.game_mode
        /\ hardcore = server_state.hardcore /\ identifier = Identifier(server_state.spawn_dimension)
  OBVIOUS
<1>2. PICK r1 :
        r1 = [game_mode |-> WithHardcoreBit(GameModeValue(mode), hardcore /\ pvn <= 736),
              registry_codec |-> EncodeCompound(RegistryCodec(player.registries, pvn), pvn),
              world_name |-> identifier,
              view_distance |-> server_state.view_distance,
              reduced_debug_info |-> server_state.reduced_debug_info]
  OBVIOUS
<1>3. PICK h, d, t, n, s :
        /\ h = [is_hardcore |-> hardcore]
        /\ d = [dimension_codec |->
                  EncodeCompound(DimensionCodec(player.registries, identifier), pvn)]
        /\ t = [dimension_type |-> identifier]
        /\ n = [dimension_name |-> identifier]
        /\ s = [simulation_distance |-> server_state.view_distance]
  OBVIOUS
<1>4. PICK r2 : r2 = r1 ++ When(pvn >= 751, h)
  OBVIOUS
<1>5. PICK r3 : r3 = r2 ++ When(pvn \in 751..758, d)
  OBVIOUS
<1>6. PICK r4 : r4 = r3 ++ When(pvn >= 759, t)
  OBVIOUS
<1>7. PICK r5 : r5 = r4 ++ When(pvn < 751, n)
  OBVIOUS
<1>8. PICK r6 : r6 = r5 ++ When(pvn >= 757, s)
  OBVIOUS
<1>9. r6 = PostV1_16Data(server_state, player)
  BY <1>1, <1>2, <1>3, <1>4, <1>5, <1>6, <1>7, <1>8 DEF PostV1_16Data
<1>10. /\ DOMAIN r1 = {"game_mode", "registry_codec", "world_name", "view_distance",
                       "reduced_debug_info"}
       /\ r1.game_mode = WithHardcoreBit(GameModeValue(mode), hardcore /\ pvn <= 736)
       /\ r1.view_distance = server_state.view_distance
       /\ r1.reduced_debug_info = server_state.reduced_debug_info
  BY <1>2
<1>11. /\ DOMAIN h = {"is_hardcore"} /\ DOMAIN d = {"dimension_codec"}
       /\ DOMAIN t = {"dimension_type"} /\ DOMAIN n = {"dimension_name"}
       /\ DOMAIN s = {"simulation_distance"}
       /\ h.is_hardcore = hardcore
  BY <1>3
<1>12. pvn \in Int
  BY <1>1
<1>13. /\ HasMore(r2, r1, pvn >= 751, h)
       /\ HasMore(r3, r2, pvn \in 751..758, d)
       /\ HasMore(r4, r3, pvn >= 759, t)
       /\ HasMore(r5, r4, pvn < 751, n)
       /\ HasMore(r6, r5, pvn >= 757, s)
  <2>1. HasMore(r2, r1, pvn >= 751, h)
    BY <1>4, <1>12 DEF HasMore, When, ++
  <2>2. HasMore(r3, r2, pvn \in 751..758, d)
    BY <1>5, <1>12 DEF HasMore, When, ++
  <2>3. HasMore(r4, r3, pvn >= 759, t)
    BY <1>6, <1>12 DEF HasMore, When, ++
  <2>4. HasMore(r5, r4, pvn < 751, n)
    BY <1>7, <1>12 DEF HasMore, When, ++
  <2>5. HasMore(r6, r5, pvn >= 757, s)
    BY <1>8, <1>12 DEF HasMore, When, ++
  <2>6. QED
    BY <2>1, <2>2, <2>3, <2>4, <2>5
<1>14. \A x \in DOMAIN r2 : x \in DOMAIN r6 /\ r6[x] = r2[x]
  BY <1>13 DEF HasMore
<1>15. \A x \in DOMAIN r1 : x \in DOMAIN r6 /\ r6[x] = r1[x]
  BY <1>13, <1>14 DEF HasMore
<1>16. /\ r6.game_mode = r1.game_mode
       /\ "view_distance" \in DOMAIN r6 /\ r6.view_distance = server_state.view_distance
       /\ "reduced_debug_info" \in DOMAIN r6
       /\ r6.reduced_debug_info = server_state.reduced_debug_info
  BY <1>10, <1>15
<1>17. GameMode(server_state, pvn) = mode
  BY <1>1 DEF GameMode
<1>18. CASE pvn >= 751
  <2>1. "is_hardcore" \in DOMAIN r6 /\ r6.is_hardcore = hardcore
    BY <1>18, <1>10, <1>11, <1>13, <1>14 DEF HasMore
  <2>2. r6.game_mode = GameModeValue(mode)
    <3>1. ~(hardcore /\ pvn <= 736)
      BY <1>18, <1>12
    <3>2. QED
      BY <3>1, <1>10, <1>16 DEF WithHardcoreBit
  <2>3. QED
    BY <2>1, <2>2, <1>1, <1>9, <1>16, <1>17 DEF LoginSays, HardcoreFlag
<1>19. CASE ~(pvn >= 751)
  <2>1. "is_hardcore" \notin DOMAIN r6
    BY <1>19, <1>10, <1>11, <1>13 DEF HasMore
  <2>2. pvn <= 736
    BY <1>19, <1>1 DEF Releases
  <2>3. PICK value : value = WithHardcoreBit(GameModeValue(mode), hardcore)
    OBVIOUS
  <2>4. value % 8 = GameModeValue(mode) /\ (value >= 8 <=> hardcore)
    BY <2>3, <1>1, ModeValues
  <2>5. r6.game_mode = value
    <3>1. CASE hardcore
      BY <3>1, <2>2, <2>3, <1>10, <1>16
    <3>2. CASE ~hardcore
      BY <3>2, <2>3, <1>10, <1>16 DEF WithHardcoreBit
    <3>3. QED
      BY <3>1, <3>2
  <2>6. QED
    BY <2>1, <2>4, <2>5, <1>1, <1>9, <1>16, <1>17 DEF LoginSays, HardcoreFlag
<1>20. QED
  BY <1>18, <1>19

LEMMA LoginFrom1_20_2 ==
  ASSUME player.pvn >= 764, player.pvn \in Int, server_state.hardcore \in BOOLEAN
  PROVE  LoginSays(PostV1_20_2Data(server_state, player))
<1>1. PICK r : r = PostV1_20_2Data(server_state, player)
  OBVIOUS
<1>2. /\ {"is_hardcore", "view_distance", "reduced_debug_info"} \subseteq DOMAIN r
      /\ r.is_hardcore = server_state.hardcore
      /\ r.game_mode = GameModeValue(server_state.game_mode)
      /\ r.view_distance = server_state.view_distance
      /\ r.reduced_debug_info = server_state.reduced_debug_info
  BY <1>1 DEF PostV1_20_2Data
<1>3. GameMode(server_state, player.pvn) = server_state.game_mode
  BY DEF GameMode
<1>4. QED
  BY <1>1, <1>2, <1>3 DEF LoginSays, HardcoreFlag

LEMMA LoginIsRight ==
  ASSUME player.pvn \in Releases, server_state.game_mode \in GameModes,
         server_state.hardcore \in BOOLEAN
  PROVE  LoginSays(LoginPacket(server_state, player))
<1>1. /\ player.pvn \in Int
      /\ player.pvn \in 4..578 \/ player.pvn \in 735..763 \/ player.pvn >= 764
  <2>1. PICK pvn : pvn = player.pvn
    OBVIOUS
  <2>2. pvn \in Int /\ pvn \in 4..775 /\ ~(pvn \in 579..734)
    BY <2>1, ReleasesAre
  <2>3. QED
    BY <2>1, <2>2
<1>2. CASE player.pvn \in 4..578
  <2>1. LoginPacket(server_state, player) = PreV1_16Data(server_state, player.pvn)
    BY <1>2, SMTT(60) DEF LoginPacket
  <2>2. QED
    BY <2>1, <1>2, LoginBefore1_16
<1>3. CASE player.pvn \in 735..763
  <2>1. LoginPacket(server_state, player) = PostV1_16Data(server_state, player)
    BY <1>3 DEF LoginPacket
  <2>2. QED
    BY <2>1, <1>3, LoginFrom1_16
<1>4. CASE player.pvn >= 764
  <2>1. LoginPacket(server_state, player) = PostV1_20_2Data(server_state, player)
    BY <1>1, <1>4 DEF LoginPacket
  <2>2. QED
    BY <2>1, <1>1, <1>4, LoginFrom1_20_2
<1>5. QED
  BY <1>1, <1>2, <1>3, <1>4

LEMMA AbilitiesAreRight ==
  ASSUME server_state.allow_flight \in BOOLEAN
  PROVE  AbilitiesSay(AbilitiesOf(PlayerAbilities(server_state, player.pvn)))
<1>1. PICK mode : mode = GameMode(server_state, player.pvn)
  OBVIOUS
<1>2. PlayerAbilities(server_state, player.pvn)
        = AbilitiesFlags(mode = "spectator", server_state.allow_flight \/ mode = "spectator",
                         mode = "creative")
  BY <1>1 DEF PlayerAbilities
<1>3. QED
  BY <1>1, <1>2, FlagsAreRead DEF AbilitiesSay

LEMMA TimeIsRight ==
  ASSUME player.pvn \in Releases, server_state.lock_time \in BOOLEAN
  PROVE  TimeSays(TimeAdvances(UpdateTime(server_state, player.pvn), player.pvn))
<1>1. PICK pvn, locked : pvn = player.pvn /\ locked = server_state.lock_time
  OBVIOUS
<1>2. PICK r1, d, a, c :
        /\ r1 = [game_time |-> server_state.time_world]
        /\ d = [time_of_day |-> server_state.time_world]
        /\ a = [time_of_day_increasing |-> ~server_state.lock_time]
        /\ c = [clock_updates |-> [total_ticks |-> server_state.time_world,
                                   rate |-> IF ~server_state.lock_time THEN 1 ELSE 0]]
  OBVIOUS
<1>3. PICK r2 : r2 = r1 ++ When(pvn < 775, d)
  OBVIOUS
<1>4. PICK r3 : r3 = r2 ++ When(pvn \in 768..774, a)
  OBVIOUS
<1>5. PICK r4 : r4 = r3 ++ When(pvn >= 775, c)
  OBVIOUS
<1>6. r4 = UpdateTime(server_state, player.pvn)
  BY <1>1, <1>2, <1>3, <1>4, <1>5 DEF UpdateTime
<1>7. /\ DOMAIN r1 = {"game_time"} /\ DOMAIN d = {"time_of_day"}
      /\ DOMAIN a = {"time_of_day_increasing"} /\ DOMAIN c = {"clock_updates"}
      /\ a.time_of_day_increasing = ~server_state.lock_time
      /\ c.clock_updates = [total_ticks |-> server_state.time_world,
                            rate |-> IF ~server_state.lock_time THEN 1 ELSE 0]
  BY <1>2
<1>8. pvn \in Int /\ pvn \in 4..775 /\ locked \in BOOLEAN
  BY <1>1, ReleasesAre
<1>9. /\ HasMore(r2, r1, pvn < 775, d)
      /\ HasMore(r3, r2, pvn \in 768..774, a)
      /\ HasMore(r4, r3, pvn >= 775, c)
  <2>1. HasMore(r2, r1, pvn < 775, d)
    BY <1>3, <1>8 DEF HasMore, When, ++
  <2>2. HasMore(r3, r2, pvn \in 768..774, a)
    BY <1>4, <1>8 DEF HasMore, When, ++
  <2>3. HasMore(r4, r3, pvn >= 775, c)
    BY <1>5, <1>8 DEF HasMore, When, ++
  <2>4. QED
    BY <2>1, <2>2, <2>3
<1>10. CASE pvn \in 768..774
  <2>1. r4.time_of_day_increasing = ~server_state.lock_time
    BY <1>10, <1>7, <1>9 DEF HasMore
  <2>2. TimeAdvances(r4, pvn) = r4.time_of_day_increasing
    BY <1>10 DEF TimeAdvances
  <2>3. QED
    BY <2>1, <2>2, <1>1, <1>6 DEF TimeSays
<1>11. CASE pvn >= 775
  <2>1. r4.clock_updates = c.clock_updates
    BY <1>11, <1>7, <1>8, <1>9 DEF HasMore
  <2>2. r4.clock_updates.rate = IF ~server_state.lock_time THEN 1 ELSE 0
    BY <2>1, <1>7
  <2>3. TimeAdvances(r4, pvn) <=> r4.clock_updates.rate = 1
    BY <1>8, <1>11 DEF TimeAdvances
  <2>4. TimeAdvances(r4, pvn) \in BOOLEAN
    BY <1>8, <1>11 DEF TimeAdvances
  <2>5. TimeAdvances(r4, pvn) = ~server_state.lock_time
    BY <2>2, <2>3, <2>4, <1>8
  <2>6. QED
    BY <2>5, <1>1, <1>6 DEF TimeSays
<1>12. CASE pvn < 768
  BY <1>1, <1>8, <1>12 DEF TimeSays
<1>13. QED
  BY <1>8, <1>10, <1>11, <1>12

-----------------------------------------------------------------------------
(* The texts of the batch                                                      *)

\* The packets of a part carry some of the texts.
Carries(b, texts) == \A text \in texts : TextComes(b, text)

\* A packet that shows texts the player is to see
LEMMA OneText ==
  ASSUME NEW name \in TextNames, NEW content, NEW texts, player.pvn \in VersionsOf(name),
         name = "legacy_set_title" => content.type_id # NO_TYPE_ID,
         Shown(Packet(name, content), player.pvn) = texts,
         texts \subseteq ExpectedTexts(player.pvn)
  PROVE  Playable(Sync(name, content)) /\ Carries(Sync(name, content), texts)
<1>1. PICK packet, b : packet = Packet(name, content) /\ b = Sync(name, content)
  OBVIOUS
<1>2. IsPlayPacket(packet)
  BY <1>1, TextPacketIs
<1>3. /\ Playable(b)
      /\ ToSet(b) = {Synced(name, content)}
      /\ Synced(name, content).kind = "sync"
      /\ Synced(name, content).packet = packet
  BY <1>1, <1>2, PlayableSync
<1>4. \A text \in texts : TextComes(b, text)
  BY <1>1, <1>3 DEF TextComes
<1>5. QED
  BY <1>1, <1>3, <1>4 DEF Carries

LEMMA MoreTexts ==
  ASSUME NEW s, NEW t, NEW texts, NEW others, Playable(s), Playable(t),
         Carries(s, texts), Carries(t, others)
  PROVE  Playable(s \o t) /\ Carries(s \o t, texts \cup others)
<1>1. Playable(s \o t) /\ ToSet(s \o t) = ToSet(s) \cup ToSet(t)
  BY PlayableLists
<1>2. QED
  BY <1>1 DEF Carries, TextComes

LEMMA TextsWhen ==
  ASSUME NEW condition \in BOOLEAN, NEW them, NEW texts,
         condition => Playable(them) /\ Carries(them, texts), ~condition => texts = {}
  PROVE  Playable(When(condition, them)) /\ Carries(When(condition, them), texts)
<1>1. CASE condition
  BY <1>1 DEF When
<1>2. CASE ~condition
  BY <1>2, PlayableWhen DEF Carries
<1>3. QED
  BY <1>1, <1>2

LEMMA NoTexts ==
  ASSUME NEW b, Playable(b)
  PROVE  Carries(b, {})
BY DEF Carries

\* The texts of each kind
ChatTexts ==
  IF server_state.welcome_message # "" THEN {<<"chat", server_state.welcome_message>>} ELSE {}
ActionBarTexts ==
  IF server_state.action_bar # "" THEN {<<"action_bar", server_state.action_bar>>} ELSE {}
TextIn(place, texts, field) == IF field \in DOMAIN texts THEN {<<place, texts[field]>>} ELSE {}
TitleTexts ==
  TextIn("title", server_state.title, "title") \cup TextIn("subtitle", server_state.title, "subtitle")
TabListTexts ==
  TextIn("header", server_state.tab_list, "header")
    \cup TextIn("footer", server_state.tab_list, "footer")
BossBarTexts == TextIn("boss_bar", server_state.boss_bar, "title")

LEMMA TextsAre ==
  ExpectedTexts(player.pvn) =
    ChatTexts \cup (IF player.pvn >= 47 THEN ActionBarTexts \cup TitleTexts \cup TabListTexts ELSE {})
      \cup (IF player.pvn >= 107 THEN BossBarTexts ELSE {})
BY DEF ExpectedTexts, ChatTexts, ActionBarTexts, TitleTexts, TabListTexts, BossBarTexts, TextIn

LEMMA ChatIsCarried ==
  ASSUME player.pvn \in Releases
  PROVE  LET b == When(server_state.welcome_message # "",
                       SendMessage(server_state.welcome_message, player.pvn))
         IN  Playable(b) /\ Carries(b, ChatTexts)
<1>1. PICK pvn, text : pvn = player.pvn /\ text = server_state.welcome_message
  OBVIOUS
<1>2. pvn \in Int /\ pvn \in 4..775
  BY <1>1, ReleasesAre
<1>3. ASSUME text # "" PROVE /\ Playable(SendMessage(text, pvn))
                             /\ Carries(SendMessage(text, pvn), {<<"chat", text>>})
  <2>1. {<<"chat", text>>} \subseteq ExpectedTexts(player.pvn)
    BY <1>1, <1>3, TextsAre DEF ChatTexts
  <2>2. CASE pvn >= 759
    <3>1. SendMessage(text, pvn) = Sync("system_chat", text)
      BY <1>2, <2>2 DEF SendMessage
    <3>2. Shown(Packet("system_chat", text), player.pvn) = {<<"chat", text>>}
      BY DEF Shown, Packet
    <3>3. player.pvn \in VersionsOf("system_chat")
      BY <1>1, <1>2, <2>2 DEF VersionsOf
    <3>4. QED
      BY <2>1, <3>1, <3>2, <3>3, OneText DEF TextNames
  <2>3. CASE ~(pvn >= 759)
    <3>1. PICK r, position : r = [content |-> text] /\ position = [position |-> 1]
      OBVIOUS
    <3>2. PICK message : message = r ++ When(pvn >= 47, position)
      OBVIOUS
    <3>3. SendMessage(text, pvn) = Sync("legacy_chat_message", message)
      BY <1>2, <2>3, <3>1, <3>2 DEF SendMessage
    <3>4. HasMore(message, r, pvn >= 47, position)
      BY <3>2, <1>2 DEF HasMore, When, ++
    <3>5. /\ DOMAIN r = {"content"} /\ r.content = text
          /\ DOMAIN position = {"position"} /\ position.position = 1
      BY <3>1
    <3>6. message.content = text
      BY <3>4, <3>5 DEF HasMore
    <3>7. "position" \in DOMAIN message => message.position = 1
      BY <3>4, <3>5 DEF HasMore
    <3>8. LegacyChatPlace(message) = "chat"
      BY <3>7 DEF LegacyChatPlace
    <3>9. Shown(Packet("legacy_chat_message", message), player.pvn) = {<<"chat", text>>}
      BY <3>6, <3>8 DEF Shown, Packet
    <3>10. player.pvn \in VersionsOf("legacy_chat_message")
      BY <1>1, <1>2, <2>3 DEF VersionsOf
    <3>11. QED
      BY <2>1, <3>3, <3>9, <3>10, OneText DEF TextNames
  <2>4. QED
    BY <2>2, <2>3
<1>4. PICK b : b = When(text # "", SendMessage(text, pvn))
  OBVIOUS
<1>5. CASE text # ""
  <2>1. b = SendMessage(text, pvn) /\ ChatTexts = {<<"chat", text>>}
    BY <1>1, <1>4, <1>5 DEF When, ChatTexts
  <2>2. QED
    BY <2>1, <1>1, <1>3, <1>4, <1>5
<1>6. CASE ~(text # "")
  <2>1. b = <<>> /\ ChatTexts = {}
    BY <1>1, <1>4, <1>6 DEF When, ChatTexts
  <2>2. Playable(b) /\ Carries(b, {})
    BY <2>1, SmallLists DEF Playable, Carries
  <2>3. QED
    BY <2>1, <2>2, <1>1, <1>4
<1>7. QED
  BY <1>5, <1>6

LEMMA ActionBarIsCarried ==
  ASSUME player.pvn \in Releases, player.pvn >= 47
  PROVE  LET b == When(server_state.action_bar # "",
                       ActionBarPackets(server_state.action_bar, player.pvn))
         IN  Playable(b) /\ Carries(b, ActionBarTexts)
<1>1. PICK pvn, text : pvn = player.pvn /\ text = server_state.action_bar
  OBVIOUS
<1>2. pvn \in Int /\ pvn \in 47..775
  BY <1>1, ReleasesAre
<1>3. ASSUME text # "" PROVE /\ Playable(ActionBarPackets(text, pvn))
                             /\ Carries(ActionBarPackets(text, pvn), {<<"action_bar", text>>})
  <2>1. {<<"action_bar", text>>} \subseteq ExpectedTexts(player.pvn)
    BY <1>1, <1>3, TextsAre DEF ActionBarTexts
  <2>2. CASE pvn >= 755
    <3>1. ActionBarPackets(text, pvn) = Sync("set_action_bar_text", text)
      BY <1>2, <2>2, SMTT(60) DEF ActionBarPackets
    <3>2. Shown(Packet("set_action_bar_text", text), player.pvn) = {<<"action_bar", text>>}
      BY DEF Shown, Packet
    <3>3. player.pvn \in VersionsOf("set_action_bar_text")
      BY <1>1, <1>2, <2>2 DEF VersionsOf
    <3>4. QED
      BY <2>1, <3>1, <3>2, <3>3, OneText DEF TextNames
  <2>3. CASE pvn \in 315..754
    <3>1. PICK content : content = [type_id |-> 2, text |-> text]
      OBVIOUS
    <3>2. ActionBarPackets(text, pvn) = Sync("legacy_set_title", content)
      <4>1. ActionBarPackets(text, pvn) = LegacySetTitle("action_bar", text, pvn)
        BY <2>3, SMTT(60) DEF ActionBarPackets
      <4>2. LegacyTitleId("action_bar", pvn) = 2
        BY <2>3 DEF LegacyTitleId
      <4>3. QED
        BY <3>1, <4>1, <4>2 DEF LegacySetTitle
    <3>3. content.type_id = 2 /\ content.text = text
      BY <3>1
    <3>4. LegacyTitleAction(2, pvn) = "action_bar"
      BY <2>3 DEF LegacyTitleAction
    <3>5. Shown(Packet("legacy_set_title", content), pvn) = {<<"action_bar", text>>}
      <4>1. Shown(Packet("legacy_set_title", content), pvn)
              = {<<LegacyTitleAction(content.type_id, pvn), content.text>>} \ {<<"times", "">>}
        BY DEF Shown, Packet
      <4>2. <<"action_bar", text>> # <<"times", "">>
        OBVIOUS
      <4>3. {<<"action_bar", text>>} \ {<<"times", "">>} = {<<"action_bar", text>>}
        BY <4>2
      <4>4. QED
        BY <4>1, <4>3, <3>3, <3>4
    <3>6. player.pvn \in VersionsOf("legacy_set_title")
      BY <1>1, <2>3 DEF VersionsOf
    <3>7. QED
      BY <1>1, <2>1, <3>2, <3>3, <3>5, <3>6, OneText DEF TextNames, NO_TYPE_ID
  <2>4. CASE pvn < 315
    <3>1. PICK content : content = [content |-> text, position |-> 2]
      OBVIOUS
    <3>2. ActionBarPackets(text, pvn) = Sync("legacy_chat_message", content)
      BY <1>2, <2>4, <3>1, SMTT(60) DEF ActionBarPackets
    <3>3. content.content = text /\ LegacyChatPlace(content) = "action_bar"
      BY <3>1 DEF LegacyChatPlace
    <3>4. Shown(Packet("legacy_chat_message", content), player.pvn) = {<<"action_bar", text>>}
      BY <3>3 DEF Shown, Packet
    <3>5. player.pvn \in VersionsOf("legacy_chat_message")
      BY <1>1, <1>2, <2>4 DEF VersionsOf
    <3>6. QED
      BY <2>1, <3>2, <3>4, <3>5, OneText DEF TextNames
  <2>5. QED
    BY <1>2, <2>2, <2>3, <2>4
<1>4. PICK b : b = When(text # "", ActionBarPackets(text, pvn))
  OBVIOUS
<1>5. CASE text # ""
  <2>1. b = ActionBarPackets(text, pvn) /\ ActionBarTexts = {<<"action_bar", text>>}
    BY <1>1, <1>4, <1>5 DEF When, ActionBarTexts
  <2>2. QED
    BY <2>1, <1>1, <1>3, <1>4, <1>5
<1>6. CASE ~(text # "")
  <2>1. b = <<>> /\ ActionBarTexts = {}
    BY <1>1, <1>4, <1>6 DEF When, ActionBarTexts
  <2>2. Playable(b) /\ Carries(b, {})
    BY <2>1, SmallLists DEF Playable, Carries
  <2>3. QED
    BY <2>1, <2>2, <1>1, <1>4
<1>7. QED
  BY <1>5, <1>6

LEMMA NothingIsCarried == Playable(<<>>) /\ Carries(<<>>, {}) /\ DOMAIN <<>> = {}
<1>1. DOMAIN <<>> = {}
  OBVIOUS
<1>2. QED
  BY <1>1, SmallLists DEF Playable, Carries

\* The title or the subtitle
TitlePart(title, field, name, pvn) ==
  When(field \in DOMAIN title,
       IF pvn >= 755 THEN Sync(name, title[field])
       ELSE LegacySetTitle(field, title[field], pvn))

LEMMA TitlePartIsCarried ==
  ASSUME player.pvn \in Releases, player.pvn >= 47,
         NEW field \in {"title", "subtitle"}, NEW name, NEW texts,
         name = IF field = "title" THEN "set_title_text" ELSE "set_subtitle_text",
         texts = TextIn(field, server_state.title, field)
  PROVE  /\ Playable(TitlePart(server_state.title, field, name, player.pvn))
         /\ Carries(TitlePart(server_state.title, field, name, player.pvn), texts)
<1>1. PICK pvn, title, b : /\ pvn = player.pvn /\ title = server_state.title
                           /\ b = TitlePart(title, field, name, pvn)
  OBVIOUS
<1>2. pvn \in Int /\ pvn \in 47..775
  BY <1>1, ReleasesAre
<1>3. CASE field \notin DOMAIN title
  <2>1. b = <<>> /\ texts = {}
    BY <1>1, <1>3 DEF TitlePart, When, TextIn
  <2>2. QED
    BY <2>1, <1>1, NothingIsCarried
<1>4. CASE field \in DOMAIN title
  <2>1. PICK text : text = title[field]
    OBVIOUS
  <2>2. texts = {<<field, text>>}
    BY <1>1, <1>4, <2>1 DEF TextIn
  <2>3. texts \subseteq ExpectedTexts(player.pvn)
    <3>1. texts \subseteq TitleTexts
      <4>1. CASE field = "title"
        BY <4>1 DEF TitleTexts
      <4>2. CASE field = "subtitle"
        BY <4>2 DEF TitleTexts
      <4>3. QED
        BY <4>1, <4>2
    <3>2. QED
      BY <3>1, TextsAre
  <2>4. CASE pvn >= 755
    <3>1. b = Sync(name, text)
      BY <1>1, <1>4, <2>1, <2>4 DEF TitlePart, When
    <3>2. Shown(Packet(name, text), player.pvn) = {<<field, text>>}
      <4>1. CASE field = "title"
        BY <4>1 DEF Shown, Packet
      <4>2. CASE field = "subtitle"
        BY <4>2 DEF Shown, Packet
      <4>3. QED
        BY <4>1, <4>2
    <3>3. player.pvn \in VersionsOf(name) /\ name \in TextNames /\ name # "legacy_set_title"
      BY <1>1, <1>2, <2>4 DEF VersionsOf, TextNames
    <3>4. QED
      BY <1>1, <2>2, <2>3, <3>1, <3>2, <3>3, OneText
  <2>5. CASE ~(pvn >= 755)
    <3>1. PICK id, content : /\ id = IF field = "title" THEN 0 ELSE 1
                             /\ content = [type_id |-> id, text |-> text]
      OBVIOUS
    <3>2. LegacyTitleId(field, pvn) = id /\ id # NO_TYPE_ID /\ LegacyTitleAction(id, pvn) = field
      <4>1. CASE field = "title"
        BY <4>1, <3>1 DEF LegacyTitleId, LegacyTitleAction, NO_TYPE_ID
      <4>2. CASE field = "subtitle"
        BY <4>2, <3>1 DEF LegacyTitleId, LegacyTitleAction, NO_TYPE_ID
      <4>3. QED
        BY <4>1, <4>2
    <3>3. b = Sync("legacy_set_title", content)
      BY <1>1, <1>4, <2>1, <2>5, <3>1, <3>2 DEF TitlePart, When, LegacySetTitle
    <3>4. content.type_id = id /\ content.text = text
      BY <3>1
    <3>5. Shown(Packet("legacy_set_title", content), pvn) = {<<field, text>>}
      <4>1. Shown(Packet("legacy_set_title", content), pvn)
              = {<<LegacyTitleAction(content.type_id, pvn), content.text>>} \ {<<"times", "">>}
        BY DEF Shown, Packet
      <4>2. <<field, text>> # <<"times", "">>
        OBVIOUS
      <4>3. {<<field, text>>} \ {<<"times", "">>} = {<<field, text>>}
        BY <4>2
      <4>4. QED
        BY <4>1, <4>3, <3>2, <3>4
    <3>6. player.pvn \in VersionsOf("legacy_set_title")
      BY <1>1, <1>2, <2>5 DEF VersionsOf
    <3>7. QED
      BY <1>1, <2>2, <2>3, <3>2, <3>3, <3>4, <3>5, <3>6, OneText DEF TextNames
  <2>6. QED
    BY <2>4, <2>5
<1>5. QED
  BY <1>3, <1>4

\* How long a title is shown
TitleTimes(pvn) ==
  IF pvn >= 755 THEN Sync("set_titles_animation", "") ELSE LegacySetTitle("times", "", pvn)

LEMMA TimesArePlayable ==
  ASSUME player.pvn \in Releases, player.pvn >= 47
  PROVE  Playable(TitleTimes(player.pvn))
<1>1. PICK pvn : pvn = player.pvn
  OBVIOUS
<1>2. pvn \in Int /\ pvn \in 47..775
  BY <1>1, ReleasesAre
<1>3. CASE pvn >= 755
  <2>1. IsPlayPacket(Packet("set_titles_animation", ""))
    <3>1. player.pvn \in VersionsOf("set_titles_animation")
      BY <1>1, <1>2, <1>3 DEF VersionsOf
    <3>2. QED
      BY <3>1, SilentPacketIs DEF SilentNames
  <2>2. QED
    BY <1>1, <1>3, <2>1, PlayableSync DEF TitleTimes
<1>4. CASE ~(pvn >= 755)
  <2>a. PICK id : id = IF pvn >= 315 THEN 3 ELSE 2
    OBVIOUS
  <2>1. PICK content : content = [type_id |-> id, text |-> ""]
    OBVIOUS
  <2>2. LegacyTitleId("times", pvn) = id /\ id # NO_TYPE_ID /\ LegacyTitleAction(id, pvn) = "times"
    <3>1. CASE pvn >= 315
      <4>1. id = 3
        BY <3>1, <2>a
      <4>2. LegacyTitleId("times", pvn) = 3 /\ LegacyTitleAction(3, pvn) = "times"
        BY <3>1 DEF LegacyTitleId, LegacyTitleAction
      <4>3. QED
        BY <4>1, <4>2 DEF NO_TYPE_ID
    <3>2. CASE ~(pvn >= 315)
      <4>1. id = 2
        BY <3>2, <2>a
      <4>2. LegacyTitleId("times", pvn) = 2 /\ LegacyTitleAction(2, pvn) = "times"
        BY <3>2 DEF LegacyTitleId, LegacyTitleAction
      <4>3. QED
        BY <4>1, <4>2 DEF NO_TYPE_ID
    <3>3. QED
      BY <3>1, <3>2
  <2>3. TitleTimes(player.pvn) = Sync("legacy_set_title", content)
    <3>1. TitleTimes(pvn) = LegacySetTitle("times", "", pvn)
      BY <1>4, Zenon DEF TitleTimes
    <3>2. QED
      BY <3>1, <1>1, <2>1, <2>2 DEF LegacySetTitle
  <2>4. content.type_id = id /\ content.text = ""
    BY <2>1
  <2>5. Shown(Packet("legacy_set_title", content), pvn) = {}
    BY <2>2, <2>4 DEF Shown, Packet
  <2>6. player.pvn \in VersionsOf("legacy_set_title")
    BY <1>1, <1>2, <1>4 DEF VersionsOf
  <2>7. QED
    BY <1>1, <2>2, <2>3, <2>4, <2>5, <2>6, OneText DEF TextNames
<1>5. QED
  BY <1>3, <1>4

LEMMA TitleIsCarried ==
  ASSUME player.pvn \in Releases, player.pvn >= 47
  PROVE  /\ Playable(TitlePackets(server_state.title, player.pvn))
         /\ Carries(TitlePackets(server_state.title, player.pvn), TitleTexts)
<1>1. PICK pvn, title : pvn = player.pvn /\ title = server_state.title
  OBVIOUS
<1>2. PICK times, first, second :
        /\ times = TitleTimes(pvn)
        /\ first = TitlePart(title, "title", "set_title_text", pvn)
        /\ second = TitlePart(title, "subtitle", "set_subtitle_text", pvn)
  OBVIOUS
<1>3. TitlePackets(title, pvn) = When(title # <<>>, (times \o first) \o second)
  BY <1>2 DEF TitlePackets, TitlePart, TitleTimes
<1>4. PICK t1, t2 : /\ t1 = TextIn("title", title, "title")
                    /\ t2 = TextIn("subtitle", title, "subtitle")
  OBVIOUS
<1>5. Playable(times) /\ Carries(times, {})
  BY <1>1, <1>2, TimesArePlayable, NoTexts
<1>6. Playable(first) /\ Carries(first, t1)
  BY <1>1, <1>2, <1>4, TitlePartIsCarried
<1>7. Playable(second) /\ Carries(second, t2)
  BY <1>1, <1>2, <1>4, TitlePartIsCarried
<1>8. Playable(times \o first) /\ Carries(times \o first, {} \cup t1)
  BY <1>5, <1>6, MoreTexts
<1>9. /\ Playable((times \o first) \o second)
      /\ Carries((times \o first) \o second, ({} \cup t1) \cup t2)
  BY <1>7, <1>8, MoreTexts
<1>10. TitleTexts = ({} \cup t1) \cup t2
  BY <1>1, <1>4 DEF TitleTexts
<1>11. CASE title # <<>>
  BY <1>1, <1>3, <1>9, <1>10, <1>11 DEF When
<1>12. CASE title = <<>>
  <2>1. t1 = {} /\ t2 = {}
    BY <1>4, <1>12, NothingIsCarried DEF TextIn
  <2>2. TitlePackets(title, pvn) = <<>>
    BY <1>3, <1>12 DEF When
  <2>3. QED
    BY <1>1, <1>10, <2>1, <2>2, NothingIsCarried
<1>13. QED
  BY <1>11, <1>12

LEMMA TabListIsCarried ==
  ASSUME player.pvn \in Releases, player.pvn >= 47, TextsHaveFields(server_state)
  PROVE  LET b == When(server_state.tab_list # <<>>, Sync("tab_list", server_state.tab_list))
         IN  Playable(b) /\ Carries(b, TabListTexts)
<1>1. PICK list, b : list = server_state.tab_list /\ b = When(list # <<>>, Sync("tab_list", list))
  OBVIOUS
<1>2. CASE list = <<>>
  <2>1. b = <<>> /\ TabListTexts = {}
    BY <1>1, <1>2, NothingIsCarried DEF When, TabListTexts, TextIn
  <2>2. QED
    BY <2>1, <1>1, NothingIsCarried
<1>3. CASE list # <<>>
  <2>1. list = [header |-> list.header, footer |-> list.footer]
    BY <1>1, <1>3 DEF TextsHaveFields
  <2>2. TabListTexts = {<<"header", list.header>>, <<"footer", list.footer>>}
    <3>1. DOMAIN list = {"header", "footer"}
      BY <2>1
    <3>2. QED
      BY <1>1, <3>1 DEF TabListTexts, TextIn
  <2>3. Shown(Packet("tab_list", list), player.pvn) = TabListTexts
    BY <2>2 DEF Shown, Packet
  <2>4. TabListTexts \subseteq ExpectedTexts(player.pvn)
    BY TextsAre
  <2>5. player.pvn \in VersionsOf("tab_list")
    BY ReleasesAre DEF VersionsOf
  <2>6. b = Sync("tab_list", list)
    BY <1>1, <1>3 DEF When
  <2>7. QED
    BY <1>1, <2>3, <2>4, <2>5, <2>6, OneText DEF TextNames
<1>4. QED
  BY <1>2, <1>3

LEMMA BossBarIsCarried ==
  ASSUME player.pvn \in Releases, player.pvn >= 107, TextsHaveFields(server_state)
  PROVE  LET b == When(server_state.boss_bar # <<>>, Sync("boss_event", server_state.boss_bar.title))
         IN  Playable(b) /\ Carries(b, BossBarTexts)
<1>1. PICK bar, b : bar = server_state.boss_bar /\ b = When(bar # <<>>, Sync("boss_event", bar.title))
  OBVIOUS
<1>2. CASE bar = <<>>
  <2>1. b = <<>> /\ BossBarTexts = {}
    BY <1>1, <1>2, NothingIsCarried DEF When, BossBarTexts, TextIn
  <2>2. QED
    BY <2>1, <1>1, NothingIsCarried
<1>3. CASE bar # <<>>
  <2>1. bar = [title |-> bar.title]
    BY <1>1, <1>3 DEF TextsHaveFields
  <2>2. BossBarTexts = {<<"boss_bar", bar.title>>}
    <3>1. DOMAIN bar = {"title"}
      BY <2>1
    <3>2. QED
      BY <1>1, <3>1 DEF BossBarTexts, TextIn
  <2>3. Shown(Packet("boss_event", bar.title), player.pvn) = BossBarTexts
    BY <2>2 DEF Shown, Packet
  <2>4. BossBarTexts \subseteq ExpectedTexts(player.pvn)
    BY TextsAre
  <2>5. player.pvn \in VersionsOf("boss_event")
    BY ReleasesAre DEF VersionsOf
  <2>6. b = Sync("boss_event", bar.title)
    BY <1>1, <1>3 DEF When
  <2>7. QED
    BY <1>1, <2>3, <2>4, <2>5, <2>6, OneText DEF TextNames
<1>4. QED
  BY <1>2, <1>3

LEMMA SkinIsPlayable ==
  ASSUME player.pvn \in Releases
  PROVE  Playable(SkinPackets(server_state, player))
<1>1. PICK content, skin, parts :
        /\ content = [textures |-> player.textures, fetch |-> server_state.fetch_player_skins,
                      listed |-> server_state.is_player_listed]
        /\ skin = When(~player.uuid_is_nil, Async(content))
        /\ parts = Sync("set_entity_data", SkinPartsIndex(player.pvn))
  OBVIOUS
<1>2. SkinPackets(server_state, player) = skin \o parts
  BY <1>1 DEF SkinPackets
<1>3. Playable(Async(content))
  <2>1. PICK p : p = [kind |-> "async", content |-> content]
    OBVIOUS
  <2>2. p.kind = "async" /\ Async(content) = <<p>>
    BY <2>1 DEF Async
  <2>3. QED
    BY <2>2, SmallLists DEF Playable, IsInPlay
<1>4. Playable(skin)
  BY <1>1, <1>3, NothingIsCarried DEF When
<1>5. Playable(parts)
  <2>1. player.pvn \in VersionsOf("set_entity_data")
    BY ReleasesAre DEF VersionsOf
  <2>2. IsPlayPacket(Packet("set_entity_data", SkinPartsIndex(player.pvn)))
    BY <2>1, SilentPacketIs DEF SilentNames
  <2>3. QED
    BY <1>1, <2>2, PlayableSync
<1>6. QED
  BY <1>2, <1>4, <1>5, PlayableLists

-----------------------------------------------------------------------------
(* The batch of the play state                                                 *)

LEMMA CenterIsAPlace ==
  ASSUME NEW state, state.spawn_position \in Int \X Int \X Int
  PROVE  /\ CenterChunk(state) \in Int \X Int
         /\ CenterChunk(state) = <<CenterChunk(state)[1], CenterChunk(state)[2]>>
         /\ IsChunkOf(CenterChunk(state), state.spawn_position)
<1>1. PICK x, z : x = state.spawn_position[1] /\ z = state.spawn_position[3]
  OBVIOUS
<1>2. x \in Int /\ z \in Int /\ S \in Int /\ S > 0
  BY <1>1, SectionAssumption DEF S
<1>3. PICK cx, cz : cx = x \div S /\ cz = z \div S
  OBVIOUS
<1>4. /\ cx \in Int /\ cz \in Int
      /\ cx * S <= x /\ x < (cx + 1) * S
      /\ cz * S <= z /\ z < (cz + 1) * S
  BY <1>2, <1>3
<1>5. CenterChunk(state) = <<cx, cz>>
  BY <1>1, <1>3 DEF CenterChunk, Floor
<1>6. QED
  BY <1>1, <1>4, <1>5 DEF IsChunkOf

\* The iterator of chunks ends a batch.
LEMMA ChunksEndTheBatch ==
  ASSUME NEW s, NEW p, Playable(s)
  PROVE  ChunksAreLast(s \o <<p>>) /\ ChunksAreLast(s \o <<>>)
<1>1. PICK t : t = <<p>>
  OBVIOUS
<1>2. PICK T : T = ToSet(s) \cup {p}
  OBVIOUS
<1>3. s \in Seq(T) /\ t \in Seq(T) /\ Len(t) = 1 /\ Len(s) \in Nat
  <2>1. s \in Seq(ToSet(s))
    BY DEF Playable, IsList
  <2>2. s \in Seq(T)
    BY <2>1, <1>2, SeqMonotonic
  <2>3. QED
    BY <2>2, <1>1, <1>2, LenProperties
<1>4. \A i \in 1..Len(s) : s[i] \in ToSet(s)
  BY <1>3, ListsAre
<1>5. \A i \in 1..Len(s) : s[i].kind # "chunks"
  BY <1>4 DEF Playable
<1>6. PICK u : u = s \o t
  OBVIOUS
<1>7. Len(u) = Len(s) + 1 /\ \A i \in 1..Len(s) : u[i] = s[i]
  <2>1. /\ Len(u) = Len(s) + Len(t)
        /\ \A i \in 1..Len(s) + Len(t) : u[i] = IF i <= Len(s) THEN s[i] ELSE t[i - Len(s)]
    BY <1>3, <1>6, ConcatProperties
  <2>2. QED
    BY <2>1, <1>3
<1>8. ChunksAreLast(u)
  BY <1>3, <1>5, <1>7 DEF ChunksAreLast
<1>9. ChunksAreLast(s)
  BY <1>5 DEF ChunksAreLast
<1>10. s \o <<>> = s
  BY <1>3, ConcatEmptySeq
<1>11. QED
  BY <1>1, <1>6, <1>8, <1>9, <1>10

BatchBegins(batch) ==
  /\ IsPlayBatch(batch)
  /\ Comes(batch, "login") /\ Comes(batch, "player_abilities") /\ Comes(batch, "set_time")
  /\ player.pvn >= 759 => Comes(batch, "set_chunk_cache_center")
  /\ player.pvn >= 765 => Comes(batch, "game_event")
  /\ player.pvn >= 735 => ChunksCome(batch)
  /\ Carries(batch, ExpectedTexts(player.pvn))

LEMMA SilentPart ==
  ASSUME NEW name \in SilentNames, NEW content, player.pvn \in VersionsOf(name),
         name = "login" => LoginSays(content),
         name = "player_abilities" => AbilitiesSay(AbilitiesOf(content)),
         name = "set_time" => TimeSays(TimeAdvances(content, player.pvn)),
         name = "set_chunk_cache_center" => content = CenterChunk(server_state)
  PROVE  Playable(Sync(name, content)) /\ Comes(Sync(name, content), name)
<1>1. IsPlayPacket(Packet(name, content))
  BY SilentPacketIs
<1>2. /\ Playable(Sync(name, content))
      /\ ToSet(Sync(name, content)) = {Synced(name, content)}
      /\ Synced(name, content).kind = "sync"
      /\ Synced(name, content).packet.name = name
  BY <1>1, PlayableSync
<1>3. QED
  BY <1>2 DEF Comes

LEMMA ChunkPartIs ==
  ASSUME player.pvn \in Releases, player.pvn >= 735,
         server_state.spawn_position \in Int \X Int \X Int, server_state.view_distance \in Nat
  PROVE  \E p : /\ ChunkPackets(server_state, world, player) = <<p>>
                /\ p.kind = "chunks"
                /\ IsInPlay(p)
<1>1. PICK center, spiral : /\ center = CenterChunk(server_state)
                            /\ spiral = NewSpiral(center[1], center[2], server_state.view_distance)
  OBVIOUS
<1>2. PICK chunks :
        chunks = [spiral |-> spiral,
                  biome |-> BiomeId(player.registries),
                  dimension |-> DimensionInfo(player.registries,
                                              Identifier(server_state.spawn_dimension)),
                  schematic_context |-> SchematicContext(world, player.pvn)]
  OBVIOUS
<1>3. PICK p : p = [kind |-> "chunks", chunks |-> chunks]
  OBVIOUS
<1>4. ChunkPackets(server_state, world, player) = <<p>>
  BY <1>1, <1>2, <1>3 DEF ChunkPackets, ChunkIterator
<1>5. p.kind = "chunks" /\ p.chunks = chunks /\ chunks.spiral = spiral
  BY <1>2, <1>3
<1>6. OnItsWay(spiral, <<>>)
  BY <1>1, CenterIsAPlace, SpiralStarts
<1>7. spiral.center = center /\ spiral.max_radius = server_state.view_distance
  <2>1. spiral.center = <<center[1], center[2]>> /\ spiral.max_radius = server_state.view_distance
    BY <1>1 DEF NewSpiral
  <2>2. QED
    BY <2>1, <1>1, CenterIsAPlace
<1>8. p = [kind |-> "chunks",
           chunks |-> [spiral |-> p.chunks.spiral, biome |-> p.chunks.biome,
                       dimension |-> p.chunks.dimension,
                       schematic_context |-> SchematicContext(world, player.pvn)]]
  BY <1>2, <1>3
<1>9. IsChunkIterator(p)
  BY <1>1, <1>5, <1>7, <1>8 DEF IsChunkIterator
<1>10. IsInPlay(p)
  BY <1>5, <1>6, <1>9 DEF IsInPlay
<1>11. QED
  BY <1>4, <1>5, <1>10

\* The part that versions from 1.8 on have
LEMMA MiddlePart ==
  ASSUME player.pvn \in Releases, TextsHaveFields(server_state), NEW b,
         b = When(player.pvn >= 47,
                  When(server_state.action_bar # "",
                       ActionBarPackets(server_state.action_bar, player.pvn))
                    \o SkinPackets(server_state, player)
                    \o When(server_state.tab_list # <<>>, Sync("tab_list", server_state.tab_list))
                    \o TitlePackets(server_state.title, player.pvn))
  PROVE  /\ Playable(b)
         /\ player.pvn >= 47 => Carries(b, ActionBarTexts \cup TitleTexts \cup TabListTexts)
<1>1. CASE player.pvn >= 47
  <2>1. PICK bar, skin, list, title :
          /\ bar = When(server_state.action_bar # "",
                        ActionBarPackets(server_state.action_bar, player.pvn))
          /\ skin = SkinPackets(server_state, player)
          /\ list = When(server_state.tab_list # <<>>, Sync("tab_list", server_state.tab_list))
          /\ title = TitlePackets(server_state.title, player.pvn)
    OBVIOUS
  <2>2. Playable(bar) /\ Carries(bar, ActionBarTexts)
    BY <1>1, <2>1, ActionBarIsCarried
  <2>3. Playable(skin) /\ Carries(skin, {})
    BY <2>1, SkinIsPlayable, NoTexts
  <2>4. Playable(list) /\ Carries(list, TabListTexts)
    BY <1>1, <2>1, TabListIsCarried
  <2>5. Playable(title) /\ Carries(title, TitleTexts)
    BY <1>1, <2>1, TitleIsCarried
  <2>6. Playable(bar \o skin) /\ Carries(bar \o skin, ActionBarTexts \cup {})
    BY <2>2, <2>3, MoreTexts
  <2>7. /\ Playable((bar \o skin) \o list)
        /\ Carries((bar \o skin) \o list, (ActionBarTexts \cup {}) \cup TabListTexts)
    BY <2>4, <2>6, MoreTexts
  <2>8. /\ Playable(((bar \o skin) \o list) \o title)
        /\ Carries(((bar \o skin) \o list) \o title,
                   ((ActionBarTexts \cup {}) \cup TabListTexts) \cup TitleTexts)
    BY <2>5, <2>7, MoreTexts
  <2>9. b = ((bar \o skin) \o list) \o title
    BY <1>1, <2>1 DEF When
  <2>10. ((ActionBarTexts \cup {}) \cup TabListTexts) \cup TitleTexts
           = ActionBarTexts \cup TitleTexts \cup TabListTexts
    OBVIOUS
  <2>11. QED
    BY <2>8, <2>9, <2>10
<1>2. CASE ~(player.pvn >= 47)
  <2>1. b = <<>>
    BY <1>2 DEF When
  <2>2. QED
    BY <1>2, <2>1, NothingIsCarried
<1>3. QED
  BY <1>1, <1>2

LEMMA BossPart ==
  ASSUME player.pvn \in Releases, TextsHaveFields(server_state), NEW b,
         b = When(player.pvn >= 107,
                  When(server_state.boss_bar # <<>>,
                       Sync("boss_event", server_state.boss_bar.title)))
  PROVE  Playable(b) /\ (player.pvn >= 107 => Carries(b, BossBarTexts))
<1>1. CASE player.pvn >= 107
  BY <1>1, BossBarIsCarried DEF When
<1>2. CASE ~(player.pvn >= 107)
  BY <1>2, NothingIsCarried DEF When
<1>3. QED
  BY <1>1, <1>2

\* The whole batch of the play state
LEMMA WholeBatch ==
  ASSUME player.pvn \in Releases, server_state.spawn_position \in Int \X Int \X Int,
         server_state.view_distance \in Nat, server_state.game_mode \in GameModes,
         server_state.hardcore \in BOOLEAN, server_state.allow_flight \in BOOLEAN,
         server_state.lock_time \in BOOLEAN, TextsHaveFields(server_state)
  PROVE  BatchBegins(PlayPackets(server_state, world, player))
<1> DEFINE b1 == Sync("login", LoginPacket(server_state, player))
           b2 == Sync("player_abilities", PlayerAbilities(server_state, player.pvn))
           b3 == When(player.pvn >= 759,
                      Sync("set_default_spawn_position", server_state.spawn_position))
           b4 == Sync("player_position", server_state.spawn_position)
           b5 == When(player.pvn >= 393,
                      Sync("commands", CommandsPacket(server_state.server_commands, player.pvn)))
           b6 == When(player.pvn \in 393..763, Sync("custom_payload", "PicoLimbo"))
           b7 == When(server_state.welcome_message # "",
                      SendMessage(server_state.welcome_message, player.pvn))
           b8 == Sync("set_time", UpdateTime(server_state, player.pvn))
           b9 == When(player.pvn >= 47,
                      When(server_state.action_bar # "",
                           ActionBarPackets(server_state.action_bar, player.pvn))
                        \o SkinPackets(server_state, player)
                        \o When(server_state.tab_list # <<>>,
                                Sync("tab_list", server_state.tab_list))
                        \o TitlePackets(server_state.title, player.pvn))
           b10 == When(player.pvn >= 107,
                       When(server_state.boss_bar # <<>>,
                            Sync("boss_event", server_state.boss_bar.title)))
           b11 == When(player.pvn >= 765, Sync("game_event", 13))
           b12 == When(player.pvn >= 759,
                       Sync("set_chunk_cache_center", CenterChunk(server_state)))
           b13 == When(player.pvn >= 735, ChunkPackets(server_state, world, player))
           s == b1 \o b2 \o b3 \o b4 \o b5 \o b6 \o b7 \o b8 \o b9 \o b10 \o b11 \o b12
           batch == s \o b13
<1>1. PlayPackets(server_state, world, player) = batch
  BY DEF PlayPackets
<1>2. player.pvn \in Int /\ player.pvn \in 4..775
  BY ReleasesAre
<1> HIDE DEF b1, b2, b3, b4, b5, b6, b7, b8, b9, b10, b11, b12, b13, s, batch
<1>3. Playable(b1) /\ Comes(b1, "login")
  <2>1. LoginSays(LoginPacket(server_state, player))
    BY LoginIsRight
  <2>2. player.pvn \in VersionsOf("login")
    BY <1>2 DEF VersionsOf
  <2>3. QED
    BY <2>1, <2>2, SilentPart DEF SilentNames, b1
<1>4. Playable(b2) /\ Comes(b2, "player_abilities")
  <2>1. AbilitiesSay(AbilitiesOf(PlayerAbilities(server_state, player.pvn)))
    BY AbilitiesAreRight
  <2>2. player.pvn \in VersionsOf("player_abilities")
    BY <1>2 DEF VersionsOf
  <2>3. QED
    BY <2>1, <2>2, SilentPart DEF SilentNames, b2
<1>5. Playable(b8) /\ Comes(b8, "set_time")
  <2>1. TimeSays(TimeAdvances(UpdateTime(server_state, player.pvn), player.pvn))
    BY TimeIsRight
  <2>2. player.pvn \in VersionsOf("set_time")
    BY <1>2 DEF VersionsOf
  <2>3. QED
    BY <2>1, <2>2, SilentPart DEF SilentNames, b8
<1>6. Playable(b4)
  <2>1. player.pvn \in VersionsOf("player_position")
    BY <1>2 DEF VersionsOf
  <2>2. QED
    BY <2>1, SilentPart DEF SilentNames, b4
<1>7. Playable(b3)
  <2>1. CASE player.pvn >= 759
    <3>1. player.pvn \in VersionsOf("set_default_spawn_position")
      BY <1>2, <2>1 DEF VersionsOf
    <3>2. Playable(Sync("set_default_spawn_position", server_state.spawn_position))
      BY <3>1, SilentPart DEF SilentNames
    <3>3. QED
      BY <2>1, <3>2 DEF When, b3
  <2>2. CASE ~(player.pvn >= 759)
    BY <2>2, NothingIsCarried DEF When, b3
  <2>3. QED
    BY <2>1, <2>2
<1>8. Playable(b5)
  <2>1. CASE player.pvn >= 393
    <3>1. player.pvn \in VersionsOf("commands")
      BY <1>2, <2>1 DEF VersionsOf
    <3>2. Playable(Sync("commands", CommandsPacket(server_state.server_commands, player.pvn)))
      BY <3>1, SilentPart DEF SilentNames
    <3>3. QED
      BY <2>1, <3>2 DEF When, b5
  <2>2. CASE ~(player.pvn >= 393)
    BY <2>2, NothingIsCarried DEF When, b5
  <2>3. QED
    BY <2>1, <2>2
<1>9. Playable(b6)
  <2>1. CASE player.pvn \in 393..763
    <3>1. player.pvn \in VersionsOf("custom_payload")
      BY <1>2, <2>1 DEF VersionsOf
    <3>2. Playable(Sync("custom_payload", "PicoLimbo"))
      BY <3>1, SilentPart DEF SilentNames
    <3>3. QED
      BY <2>1, <3>2 DEF When, b6
  <2>2. CASE ~(player.pvn \in 393..763)
    BY <2>2, NothingIsCarried DEF When, b6
  <2>3. QED
    BY <2>1, <2>2
<1>10. Playable(b7) /\ Carries(b7, ChatTexts)
  BY ChatIsCarried DEF b7
<1>11. /\ Playable(b9)
       /\ player.pvn >= 47 => Carries(b9, ActionBarTexts \cup TitleTexts \cup TabListTexts)
  BY MiddlePart DEF b9
<1>12. Playable(b10) /\ (player.pvn >= 107 => Carries(b10, BossBarTexts))
  BY BossPart DEF b10
<1>13. Playable(b11) /\ ((player.pvn >= 765) => Comes(b11, "game_event"))
  <2>1. CASE player.pvn >= 765
    <3>1. player.pvn \in VersionsOf("game_event")
      BY <1>2, <2>1 DEF VersionsOf
    <3>2. Playable(Sync("game_event", 13)) /\ Comes(Sync("game_event", 13), "game_event")
      BY <3>1, SilentPart DEF SilentNames
    <3>3. QED
      BY <2>1, <3>2 DEF When, b11
  <2>2. CASE ~(player.pvn >= 765)
    BY <2>2, NothingIsCarried DEF When, b11
  <2>3. QED
    BY <2>1, <2>2
<1>14. Playable(b12) /\ ((player.pvn >= 759) => Comes(b12, "set_chunk_cache_center"))
  <2>1. CASE player.pvn >= 759
    <3>1. player.pvn \in VersionsOf("set_chunk_cache_center")
      BY <1>2, <2>1 DEF VersionsOf
    <3>2. /\ Playable(Sync("set_chunk_cache_center", CenterChunk(server_state)))
          /\ Comes(Sync("set_chunk_cache_center", CenterChunk(server_state)),
                   "set_chunk_cache_center")
      BY <3>1, SilentPart DEF SilentNames
    <3>3. QED
      BY <2>1, <3>2 DEF When, b12
  <2>2. CASE ~(player.pvn >= 759)
    BY <2>2, NothingIsCarried DEF When, b12
  <2>3. QED
    BY <2>1, <2>2
<1>15. /\ Playable(s)
       /\ ToSet(b1) \subseteq ToSet(s) /\ ToSet(b2) \subseteq ToSet(s)
       /\ ToSet(b7) \subseteq ToSet(s) /\ ToSet(b8) \subseteq ToSet(s)
       /\ ToSet(b9) \subseteq ToSet(s) /\ ToSet(b10) \subseteq ToSet(s)
       /\ ToSet(b11) \subseteq ToSet(s) /\ ToSet(b12) \subseteq ToSet(s)
  <2> DEFINE s2 == b1 \o b2
             s3 == s2 \o b3
             s4 == s3 \o b4
             s5 == s4 \o b5
             s6 == s5 \o b6
             s7 == s6 \o b7
             s8 == s7 \o b8
             s9 == s8 \o b9
             s10 == s9 \o b10
             s11 == s10 \o b11
  <2>1. s = s11 \o b12
    BY DEF s
  <2> HIDE DEF s2, s3, s4, s5, s6, s7, s8, s9, s10, s11
  <2>2. Playable(s2) /\ ToSet(s2) = ToSet(b1) \cup ToSet(b2)
    BY <1>3, <1>4, PlayableLists DEF s2
  <2>3. Playable(s3) /\ ToSet(s3) = ToSet(s2) \cup ToSet(b3)
    BY <2>2, <1>7, PlayableLists DEF s3
  <2>4. Playable(s4) /\ ToSet(s4) = ToSet(s3) \cup ToSet(b4)
    BY <2>3, <1>6, PlayableLists DEF s4
  <2>5. Playable(s5) /\ ToSet(s5) = ToSet(s4) \cup ToSet(b5)
    BY <2>4, <1>8, PlayableLists DEF s5
  <2>6. Playable(s6) /\ ToSet(s6) = ToSet(s5) \cup ToSet(b6)
    BY <2>5, <1>9, PlayableLists DEF s6
  <2>7. Playable(s7) /\ ToSet(s7) = ToSet(s6) \cup ToSet(b7)
    BY <2>6, <1>10, PlayableLists DEF s7
  <2>8. Playable(s8) /\ ToSet(s8) = ToSet(s7) \cup ToSet(b8)
    BY <2>7, <1>5, PlayableLists DEF s8
  <2>9. Playable(s9) /\ ToSet(s9) = ToSet(s8) \cup ToSet(b9)
    BY <2>8, <1>11, PlayableLists DEF s9
  <2>10. Playable(s10) /\ ToSet(s10) = ToSet(s9) \cup ToSet(b10)
    BY <2>9, <1>12, PlayableLists DEF s10
  <2>11. Playable(s11) /\ ToSet(s11) = ToSet(s10) \cup ToSet(b11)
    BY <2>10, <1>13, PlayableLists DEF s11
  <2>12. Playable(s) /\ ToSet(s) = ToSet(s11) \cup ToSet(b12)
    BY <2>1, <2>11, <1>14, PlayableLists
  <2>13. QED
    BY <2>2, <2>3, <2>4, <2>5, <2>6, <2>7, <2>8, <2>9, <2>10, <2>11, <2>12
<1>16. /\ IsPlayBatch(batch)
       /\ ToSet(s) \subseteq ToSet(batch)
       /\ player.pvn >= 735 => ChunksCome(batch)
  <2>1. CASE player.pvn >= 735
    <3>1. PICK p : b13 = <<p>> /\ p.kind = "chunks" /\ IsInPlay(p)
      BY <2>1, ChunkPartIs DEF When, b13
    <3>2. IsList(b13) /\ ToSet(b13) = {p}
      BY <3>1, SmallLists
    <3>3. IsList(batch) /\ ToSet(batch) = ToSet(s) \cup {p}
      BY <1>15, <3>2, ConcatenatedLists DEF Playable, batch
    <3>4. ChunksAreLast(batch)
      BY <1>15, <3>1, ChunksEndTheBatch DEF batch
    <3>5. QED
      BY <1>15, <3>1, <3>3, <3>4 DEF IsPlayBatch, Playable, ChunksCome
  <2>2. CASE ~(player.pvn >= 735)
    <3>1. b13 = <<>>
      BY <2>2 DEF When, b13
    <3>2. IsList(batch) /\ ToSet(batch) = ToSet(s)
      <4>1. IsList(b13) /\ ToSet(b13) = {}
        BY <3>1, SmallLists
      <4>2. QED
        <5>1. IsList(s)
          BY <1>15 DEF Playable
        <5>2. IsList(s \o b13) /\ ToSet(s \o b13) = ToSet(s) \cup ToSet(b13)
          BY <4>1, <5>1, ConcatenatedLists
        <5>3. QED
          BY <4>1, <5>2 DEF batch
    <3>3. ChunksAreLast(batch)
      BY <1>15, <3>1, ChunksEndTheBatch DEF batch
    <3>4. QED
      BY <1>15, <2>2, <3>2, <3>3 DEF IsPlayBatch, Playable
  <2>3. QED
    BY <2>1, <2>2
<1>17. ASSUME NEW b, NEW name, ToSet(b) \subseteq ToSet(s), Comes(b, name)
       PROVE  Comes(batch, name)
  BY <1>16, <1>17 DEF Comes
<1>18. ASSUME NEW b, NEW texts, ToSet(b) \subseteq ToSet(s), Carries(b, texts)
       PROVE  Carries(batch, texts)
  BY <1>16, <1>18 DEF Carries, TextComes
<1>19. /\ Comes(batch, "login") /\ Comes(batch, "player_abilities") /\ Comes(batch, "set_time")
       /\ player.pvn >= 759 => Comes(batch, "set_chunk_cache_center")
       /\ player.pvn >= 765 => Comes(batch, "game_event")
  BY <1>3, <1>4, <1>5, <1>13, <1>14, <1>15, <1>17
<1>20. Carries(batch, ExpectedTexts(player.pvn))
  <2>1. Carries(batch, ChatTexts)
    BY <1>10, <1>15, <1>18
  <2>2. player.pvn >= 47 => Carries(batch, ActionBarTexts \cup TitleTexts \cup TabListTexts)
    BY <1>11, <1>15, <1>18
  <2>3. player.pvn >= 107 => Carries(batch, BossBarTexts)
    BY <1>12, <1>15, <1>18
  <2>4. QED
    BY <2>1, <2>2, <2>3, TextsAre DEF Carries
<1>21. QED
  BY <1>1, <1>16, <1>19, <1>20 DEF BatchBegins

LEMMA BatchOfTheState ==
  config_file \in Files /\ StateIsBuilt /\ player.pvn \in Releases =>
    BatchBegins(PlayPackets(server_state, world, player))
<1> SUFFICES ASSUME config_file \in Files, StateIsBuilt, player.pvn \in Releases
             PROVE  BatchBegins(PlayPackets(server_state, world, player))
  OBVIOUS
<1>1. /\ StateIsRight(server_state, Parsed(config_file))
      /\ RulesHaveTypes(Parsed(config_file))
      /\ TextsHaveFields(server_state)
  BY ServerStateIsRight
<1>2. /\ server_state.spawn_position \in Int \X Int \X Int
      /\ server_state.view_distance \in Nat /\ server_state.game_mode \in GameModes
      /\ server_state.hardcore \in BOOLEAN /\ server_state.allow_flight \in BOOLEAN
      /\ server_state.lock_time \in BOOLEAN
  BY <1>1 DEF StateIsRight, RulesHaveTypes, GameModes
<1>3. QED
  BY <1>1, <1>2, WholeBatch

-----------------------------------------------------------------------------
(* The batch of the configuration                                              *)

LEMMA NumberOfPlaces ==
  ASSUME NEW n \in Nat, NEW places, places \subseteq 1..n
  PROVE  Cardinality(places) \in Nat
<1>1. IsFiniteSet(1..n)
  BY FS_Interval
<1>2. IsFiniteSet(places)
  BY <1>1, FS_Subset
<1>3. QED
  BY <1>2, FS_CardinalityType

LEMMA FunctionIsAList ==
  ASSUME NEW m \in Nat, NEW s, s = [i \in 1..m |-> s[i]]
  PROVE  IsList(s) /\ \A e \in ToSet(s) : \E i \in 1..m : e = s[i]
<1>1. DOMAIN s = 1..m
  OBVIOUS
<1>2. s \in [1..m -> ToSet(s)]
  BY <1>1 DEF ToSet
<1>3. s \in Seq(ToSet(s))
  BY <1>2, SeqDef
<1>4. QED
  BY <1>1, <1>3 DEF IsList, ToSet

LEMMA RegistriesAreListed ==
  ASSUME NEW manager, NEW pvn
  PROVE  \E m \in Nat : DOMAIN RegistryData(manager, pvn) = 1..m
<1> DEFINE all == {i \in DOMAIN ALL_REGISTRIES : pvn >= ALL_REGISTRIES[i].minimum_version}
<1>1. PICK n \in Nat : DOMAIN ALL_REGISTRIES = 1..n
  BY DEF ALL_REGISTRIES
<1>2. PICK a \in Nat : a = Cardinality(all)
  BY <1>1, NumberOfPlaces
<1>3. DOMAIN GetRegistryKeys(pvn) = 1..a
  BY <1>2 DEF GetRegistryKeys, Passing
<1> DEFINE keys == GetRegistryKeys(pvn)
           passing == {i \in DOMAIN keys : keys[i] \in DOMAIN manager}
<1>4. PICK m \in Nat : m = Cardinality(passing)
  BY <1>3, NumberOfPlaces
<1>5. DOMAIN RegistryData(manager, pvn) = 1..m
  BY <1>4 DEF RegistryData, Passing
<1>6. QED
  BY <1>5

ConfigurationPart(b) == IsList(b) /\ \A p \in ToSet(b) : IsInConfiguration(p)

LEMMA ConfigurationPartsAreJoined ==
  ASSUME NEW s, NEW t, ConfigurationPart(s), ConfigurationPart(t)
  PROVE  ConfigurationPart(s \o t)
BY ConcatenatedLists DEF ConfigurationPart

LEMMA SyncInConfiguration ==
  ASSUME NEW name \in {"custom_payload", "select_known_packs", "update_tags", "registry_data",
                       "finish_configuration"},
         NEW content, player.pvn \in VersionsOf(name)
  PROVE  ConfigurationPart(Sync(name, content))
<1>1. PICK packet, p : packet = Packet(name, content) /\ p = Synced(name, content)
  OBVIOUS
<1>2. packet.name = name /\ p.kind = "sync" /\ p.packet = packet
  BY <1>1 DEF Packet, Synced
<1>3. CanEncodePacket(packet, player.pvn)
  BY <1>2 DEF CanEncodePacket
<1>4. IsInConfiguration(p)
  BY <1>2, <1>3 DEF IsInConfiguration, IsConfigurationPacket
<1>5. IsList(Sync(name, content)) /\ ToSet(Sync(name, content)) = {p}
  BY <1>1, SyncIs
<1>6. QED
  BY <1>4, <1>5 DEF ConfigurationPart

LEMMA ConfigurationBatch ==
  ASSUME player.pvn \in Releases, player.pvn >= 764
  PROVE  ConfigurationPart(ConfigurationPackets(player))
<1> DEFINE registries == RegistryData(player.registries, player.pvn)
           items == [i \in DOMAIN registries |-> RegistryDataPacket(registries[i], player.pvn)]
           b1 == Sync("custom_payload", "PicoLimbo")
           b2 == When(player.pvn >= 766, Sync("select_known_packs", player.pvn))
           b3 == When(player.pvn >= 771, Sync("update_tags", TaggedRegistries(player.registries)))
           codec == EncodeCompound(RegistryCodec(player.registries, player.pvn), player.pvn)
           b4 == IF player.pvn >= 766 THEN Iterator(items) ELSE Sync("registry_data", codec)
           b5 == Sync("finish_configuration", "")
<1>1. ConfigurationPackets(player) = b1 \o b2 \o b3 \o b4 \o b5
  BY DEF ConfigurationPackets
<1>2. player.pvn \in Int /\ player.pvn \in 764..775
  BY ReleasesAre
<1>3. ConfigurationPart(Iterator(items))
  <2>1. PICK m \in Nat : DOMAIN registries = 1..m
    BY RegistriesAreListed
  <2>2. items = [i \in 1..m |-> items[i]]
    BY <2>1
  <2>3. IsList(items) /\ \A e \in ToSet(items) : \E i \in 1..m : e = items[i]
    BY <2>2, FunctionIsAList
  <2>4. ASSUME NEW packet \in ToSet(items) PROVE packet.name = "registry_data"
    <3>1. PICK i \in 1..m : packet = items[i]
      BY <2>3, <2>4
    <3>2. packet = RegistryDataPacket(registries[i], player.pvn)
      BY <2>1, <3>1
    <3>3. QED
      BY <3>2 DEF RegistryDataPacket, Packet
  <2> HIDE DEF items
  <2>5. PICK p : p = [kind |-> "iterator", items |-> items]
    OBVIOUS
  <2>6. IsRegistryIterator(p)
    BY <2>3, <2>4, <2>5 DEF IsRegistryIterator
  <2>7. QED
    BY <2>5, <2>6, SmallLists DEF Iterator, ConfigurationPart, IsInConfiguration
<1> HIDE DEF registries, items, codec
<1>4. ConfigurationPart(<<>>)
  BY SmallLists DEF ConfigurationPart
<1>5. ConfigurationPart(b1) /\ ConfigurationPart(b5)
  <2>1. player.pvn \in VersionsOf("custom_payload")
    BY <1>2 DEF VersionsOf
  <2>2. player.pvn \in VersionsOf("finish_configuration")
    BY <1>2 DEF VersionsOf
  <2>3. QED
    BY <2>1, <2>2, SyncInConfiguration
<1>6. ConfigurationPart(b2)
  <2>1. CASE player.pvn >= 766
    BY <1>2, <2>1, SyncInConfiguration DEF VersionsOf, When
  <2>2. CASE ~(player.pvn >= 766)
    BY <1>4, <2>2 DEF When
  <2>3. QED
    BY <2>1, <2>2
<1>7. ConfigurationPart(b3)
  <2>1. CASE player.pvn >= 771
    BY <1>2, <2>1, SyncInConfiguration DEF VersionsOf, When
  <2>2. CASE ~(player.pvn >= 771)
    BY <1>4, <2>2 DEF When
  <2>3. QED
    BY <2>1, <2>2
<1>8. ConfigurationPart(b4)
  <2>1. CASE player.pvn >= 766
    BY <1>3, <2>1
  <2>2. CASE ~(player.pvn >= 766)
    BY <1>2, <2>2, SyncInConfiguration DEF VersionsOf
  <2>3. QED
    BY <2>1, <2>2
<1> HIDE DEF b1, b2, b3, b4, b5
<1>9. ConfigurationPart(b1 \o b2)
  BY <1>5, <1>6, ConfigurationPartsAreJoined
<1>10. ConfigurationPart((b1 \o b2) \o b3)
  BY <1>7, <1>9, ConfigurationPartsAreJoined
<1>11. ConfigurationPart(((b1 \o b2) \o b3) \o b4)
  BY <1>8, <1>10, ConfigurationPartsAreJoined
<1>12. ConfigurationPart((((b1 \o b2) \o b3) \o b4) \o b5)
  BY <1>5, <1>11, ConfigurationPartsAreJoined
<1>13. QED
  BY <1>1, <1>12

-----------------------------------------------------------------------------
(* What a packet changes for the client                                        *)

ClientFields ==
  {"phase", "registries", "tags", "login", "abilities", "time_advances", "shown", "commands",
   "waits_for_chunks", "center", "arrived", "column"}

SameBut(next, fields) ==
  IsClient(next) /\ \A f \in ClientFields \ fields : next[f] = client[f]

LEMMA ClientIsAFunction ==
  ASSUME IsClient(client)
  PROVE  DOMAIN client = ClientFields /\ client = [f \in ClientFields |-> client[f]]
BY DEF IsClient, ClientFields

LEMMA FunctionIsAClient ==
  ASSUME NEW next, next = [f \in ClientFields |-> next[f]]
  PROVE  IsClient(next)
BY DEF IsClient, ClientFields

LEMMA NewClientIs == IsClient(NewClient) /\ NewClient.shown = {} /\ NewClient.arrived = <<>>
BY DEF IsClient, NewClient

LEMMA ChangedPhase ==
  ASSUME IsClient(client), NEW v, NEW next, next = [client EXCEPT !.phase = v]
  PROVE  SameBut(next, {"phase"}) /\ next.phase = v
BY ClientIsAFunction, FunctionIsAClient DEF SameBut, ClientFields

\* The packets of the play state but the chunks
PlayNames ==
  {"login", "player_abilities", "set_default_spawn_position", "player_position",
   "commands", "custom_payload", "system_chat", "legacy_chat_message",
   "set_time", "set_action_bar_text", "legacy_set_title", "set_entity_data",
   "tab_list", "set_titles_animation", "set_title_text", "set_subtitle_text",
   "boss_event", "game_event", "set_chunk_cache_center", "player_info_update"}

LoginIsRead(login, c) ==
  /\ login.game_mode = IF "is_hardcore" \in DOMAIN c THEN c.game_mode ELSE c.game_mode % 8
  /\ login.hardcore = HardcoreFlag(c)
  /\ "view_distance" \in DOMAIN c => login.view_distance = c.view_distance
  /\ "reduced_debug_info" \in DOMAIN c =>
       login.reduced_debug_info = (c.reduced_debug_info /\ TRUE)

LEMMA LoginIsReceived ==
  ASSUME IsClient(client), NEW packet, packet.name = "login",
         NEW next, next = Receive(client, packet, player)
  PROVE  /\ SameBut(next, {"phase", "registries", "login"})
         /\ next.phase = "play"
         /\ LoginIsRead(next.login, packet.content)
<1>1. next = ReadLogin(client, packet.content, player.pvn)
  BY DEF Receive
<1>2. PICK c : c = packet.content
  OBVIOUS
<1>3. PICK registries :
        registries = IF "registry_codec" \in DOMAIN c
                     THEN ReadCodec(c.registry_codec, player.pvn) ELSE client.registries
  OBVIOUS
<1>4. PICK login :
        login = [game_mode |-> IF "is_hardcore" \in DOMAIN c THEN c.game_mode
                               ELSE c.game_mode % 8,
                 hardcore |-> HardcoreFlag(c),
                 dimension |-> DimensionType(registries, c, player.pvn),
                 view_distance |-> IF "view_distance" \in DOMAIN c
                                   THEN c.view_distance ELSE 0,
                 reduced_debug_info |-> "reduced_debug_info" \in DOMAIN c
                                        /\ c.reduced_debug_info]
  OBVIOUS
<1>5. next = [client EXCEPT !.phase = "play", !.registries = registries, !.login = login]
  BY <1>1, <1>2, <1>3, <1>4 DEF ReadLogin
<1>6. /\ SameBut(next, {"phase", "registries", "login"})
      /\ next.phase = "play" /\ next.login = login
  BY <1>5, ClientIsAFunction, FunctionIsAClient DEF SameBut, ClientFields
<1>7. LoginIsRead(login, c)
  BY <1>4 DEF LoginIsRead
<1>8. QED
  BY <1>2, <1>6, <1>7

LEMMA FieldIsReceived ==
  ASSUME IsClient(client), NEW packet, NEW next, next = Receive(client, packet, player)
  PROVE  /\ packet.name = "player_abilities" =>
              /\ SameBut(next, {"abilities"})
              /\ next.abilities = AbilitiesOf(packet.content)
         /\ packet.name = "set_time" =>
              /\ SameBut(next, {"time_advances"})
              /\ next.time_advances = TimeAdvances(packet.content, player.pvn)
         /\ packet.name = "commands" => SameBut(next, {"commands"})
         /\ packet.name = "game_event" =>
              SameBut(next, {"waits_for_chunks"}) /\ next.waits_for_chunks
         /\ packet.name = "set_chunk_cache_center" =>
              SameBut(next, {"center"}) /\ next.center = packet.content
         /\ packet.name = "registry_data" => SameBut(next, {"registries"})
         /\ packet.name = "update_tags" => SameBut(next, {"tags"})
         /\ packet.name = "finish_configuration" =>
              SameBut(next, {"phase"}) /\ next.phase = "configured"
<1> USE ClientIsAFunction, FunctionIsAClient DEF SameBut, ClientFields
<1>1. CASE packet.name = "player_abilities"
  <2>1. next = [client EXCEPT !.abilities = AbilitiesOf(packet.content)]
    BY <1>1 DEF Receive
  <2>2. QED
    BY <1>1, <2>1
<1>2. CASE packet.name = "set_time"
  <2>1. next = [client EXCEPT !.time_advances = TimeAdvances(packet.content, player.pvn)]
    BY <1>2 DEF Receive
  <2>2. QED
    BY <1>2, <2>1
<1>3. CASE packet.name = "commands"
  <2>1. next = [client EXCEPT !.commands = packet.content]
    BY <1>3 DEF Receive
  <2>2. QED
    BY <1>3, <2>1
<1>4. CASE packet.name = "game_event"
  <2>1. next = [client EXCEPT !.waits_for_chunks = TRUE]
    BY <1>4 DEF Receive
  <2>2. QED
    BY <1>4, <2>1
<1>5. CASE packet.name = "set_chunk_cache_center"
  <2>1. next = [client EXCEPT !.center = packet.content]
    BY <1>5 DEF Receive
  <2>2. QED
    BY <1>5, <2>1
<1>6. CASE packet.name = "registry_data"
  <2>1. \E v : next = [client EXCEPT !.registries = v]
    BY <1>6 DEF Receive
  <2>2. QED
    BY <1>6, <2>1
<1>7. CASE packet.name = "update_tags"
  <2>1. \E v : next = [client EXCEPT !.tags = v]
    BY <1>7 DEF Receive
  <2>2. QED
    BY <1>7, <2>1
<1>8. CASE packet.name = "finish_configuration"
  <2>1. next = [client EXCEPT !.phase = "configured"]
    BY <1>8 DEF Receive
  <2>2. QED
    BY <1>8, <2>1
<1>9. QED
  BY <1>1, <1>2, <1>3, <1>4, <1>5, <1>6, <1>7, <1>8

LEMMA OtherIsReceived ==
  ASSUME IsClient(client), NEW packet,
         packet.name \in PlayNames \ {"login", "player_abilities", "set_time", "commands",
                                      "game_event", "set_chunk_cache_center"},
         NEW next, next = Receive(client, packet, player)
  PROVE  /\ SameBut(next, {"shown"})
         /\ next.shown = client.shown \cup Shown(packet, player.pvn)
<1>1. next = [client EXCEPT !.shown = @ \cup Shown(packet, player.pvn)]
  BY DEF Receive, PlayNames
<1>2. next = [client EXCEPT !.shown = client.shown \cup Shown(packet, player.pvn)]
  BY <1>1
<1>3. QED
  BY <1>2, ClientIsAFunction, FunctionIsAClient DEF SameBut, ClientFields

-----------------------------------------------------------------------------
(* What is left of a batch                                                     *)

LEMMA RestOfBatch ==
  ASSUME NEW batch, IsPlayBatch(batch), batch # <<>>
  PROVE  /\ IsInPlay(Head(batch))
         /\ IsPlayBatch(Tail(batch))
         /\ Head(batch).kind = "chunks" => Tail(batch) = <<>>
         /\ \A name : Comes(batch, name) =>
              \/ Comes(Tail(batch), name)
              \/ Head(batch).kind = "sync" /\ Head(batch).packet.name = name
         /\ ChunksCome(batch) => ChunksCome(Tail(batch)) \/ Head(batch).kind = "chunks"
         /\ \A text : TextComes(batch, text) =>
              \/ TextComes(Tail(batch), text)
              \/ Head(batch).kind = "sync" /\ text \in Shown(Head(batch).packet, player.pvn)
<1>1. PICK head, rest : head = Head(batch) /\ rest = Tail(batch)
  OBVIOUS
<1>2. IsList(batch)
  BY DEF IsPlayBatch
<1>3. IsList(rest) /\ ToSet(batch) = {head} \cup ToSet(rest)
  BY <1>1, <1>2, HeadAndTail
<1>4. /\ Len(batch) \in Nat /\ Len(batch) >= 1 /\ head = batch[1]
      /\ Len(rest) = Len(batch) - 1
      /\ \A i \in 1..Len(rest) : rest[i] = batch[i + 1]
  <2>1. batch \in Seq(ToSet(batch))
    BY <1>2 DEF IsList
  <2>2. QED
    BY <1>1, <2>1, EmptySeq, LenProperties, HeadTailProperties
<1>5. ChunksAreLast(rest)
  <2>1. SUFFICES ASSUME NEW i \in 1..Len(rest), rest[i].kind = "chunks"
                 PROVE  i = Len(rest)
    BY DEF ChunksAreLast
  <2>2. i + 1 \in 1..Len(batch) /\ batch[i + 1].kind = "chunks"
    BY <1>4, <2>1
  <2>3. i + 1 = Len(batch)
    BY <2>2 DEF IsPlayBatch, ChunksAreLast
  <2>4. QED
    BY <1>4, <2>3
<1>6. head.kind = "chunks" => rest = <<>>
  <2>1. SUFFICES ASSUME head.kind = "chunks" PROVE rest = <<>>
    OBVIOUS
  <2>2. Len(batch) = 1
    <3>1. 1 \in 1..Len(batch) /\ batch[1].kind = "chunks"
      BY <1>4, <2>1
    <3>2. ChunksAreLast(batch)
      BY DEF IsPlayBatch
    <3>3. QED
      BY <3>1, <3>2 DEF ChunksAreLast
  <2>3. Len(rest) = 0
    BY <1>4, <2>2
  <2>4. rest \in Seq(ToSet(rest))
    BY <1>3 DEF IsList
  <2>5. QED
    BY <2>3, <2>4, EmptySeq
<1>7. IsInPlay(head) /\ IsPlayBatch(rest)
  BY <1>3, <1>5 DEF IsPlayBatch
<1>8. \A name : Comes(batch, name) =>
        Comes(rest, name) \/ (head.kind = "sync" /\ head.packet.name = name)
  <2>1. TAKE name
  <2>2. HAVE Comes(batch, name)
  <2>3. PICK p \in ToSet(batch) : p.kind = "sync" /\ p.packet.name = name
    BY <2>2 DEF Comes
  <2>4. p \in ToSet(rest) => Comes(rest, name)
    BY <2>3 DEF Comes
  <2>5. CASE p = head
    BY <2>3, <2>5
  <2>6. CASE p \in ToSet(rest)
    BY <2>4, <2>6
  <2>7. QED
    BY <1>3, <2>3, <2>5, <2>6
<1>9. ChunksCome(batch) => ChunksCome(rest) \/ head.kind = "chunks"
  BY <1>3 DEF ChunksCome
<1>10. \A text : TextComes(batch, text) =>
         TextComes(rest, text) \/ (head.kind = "sync" /\ text \in Shown(head.packet, player.pvn))
  <2>1. TAKE text
  <2>2. HAVE TextComes(batch, text)
  <2>3. PICK p \in ToSet(batch) : p.kind = "sync" /\ text \in Shown(p.packet, player.pvn)
    BY <2>2 DEF TextComes
  <2>4. p \in ToSet(rest) => TextComes(rest, text)
    BY <2>3 DEF TextComes
  <2>5. CASE p = head
    BY <2>3, <2>5
  <2>6. CASE p \in ToSet(rest)
    BY <2>4, <2>6
  <2>7. QED
    BY <1>3, <2>3, <2>5, <2>6
<1>11. QED
  BY <1>1, <1>6, <1>7, <1>8, <1>9, <1>10

LEMMA NothingComes ==
  /\ \A name : ~Comes(<<>>, name)
  /\ ~ChunksCome(<<>>)
  /\ \A text : ~TextComes(<<>>, text)
BY SmallLists DEF Comes, ChunksCome, TextComes

-----------------------------------------------------------------------------
(* Steps that keep the world, what the limbo was told and the player            *)

LEMMA TheSameWorld ==
  ASSUME UNCHANGED <<server_state, world, player>>
  PROVE  /\ \A p : IsInPlay(p)' <=> IsInPlay(p)
         /\ \A p : IsInConfiguration(p)' <=> IsInConfiguration(p)
         /\ \A p : IsChunkIterator(p)' <=> IsChunkIterator(p)
         /\ ExpectedTexts(player.pvn)' = ExpectedTexts(player.pvn)
         /\ \A abilities : AbilitiesSay(abilities)' <=> AbilitiesSay(abilities)
         /\ \A advances : TimeSays(advances)' <=> TimeSays(advances)
<1>1. ExpectedTexts(player.pvn)' = ExpectedTexts(player.pvn)
  BY DEF ExpectedTexts
<1>2. \A abilities : AbilitiesSay(abilities)' <=> AbilitiesSay(abilities)
  BY DEF AbilitiesSay
<1>3. \A advances : TimeSays(advances)' <=> TimeSays(advances)
  BY DEF TimeSays
<1>4. \A content : LoginSays(content)' <=> LoginSays(content)
  BY DEF LoginSays
<1>5. \A packet : IsPlayPacket(packet)' <=> IsPlayPacket(packet)
  BY <1>1, <1>2, <1>3, <1>4 DEF IsPlayPacket
<1>6. \A p : IsChunkIterator(p)' <=> IsChunkIterator(p)
  BY DEF IsChunkIterator
<1>7. \A p : IsInPlay(p)' <=> IsInPlay(p)
  BY <1>5, <1>6 DEF IsInPlay
<1>8. \A p : IsInConfiguration(p)' <=> IsInConfiguration(p)
  BY DEF IsInConfiguration, IsConfigurationPacket
<1>9. QED
  BY <1>1, <1>2, <1>3, <1>6, <1>7, <1>8

-----------------------------------------------------------------------------
(* A packet of the play state is sent                                          *)

IsPlaySent(packet) ==
  \/ IsPlayPacket(packet)
  \/ packet.name = "player_info_update" /\ CanEncodePacket(packet, player.pvn)

LEMMA SilentNamesShowNothing ==
  ASSUME NEW packet, packet.name \in SilentNames \cup {"player_info_update"}, NEW pvn
  PROVE  Shown(packet, pvn) = {}
BY DEF Shown, SilentNames

Heard(packet) ==
  /\ IsClient(client)'
  /\ client'.arrived = client.arrived
  /\ client'.shown = client.shown \cup Shown(packet, player.pvn)
  /\ client'.phase = client.phase \/ client'.phase = "play"
  /\ packet.name = "login" \/ LoginIsTold => LoginIsTold'
  /\ packet.name = "player_abilities" \/ AbilitiesSay(client.abilities) =>
       AbilitiesSay(client'.abilities)
  /\ packet.name = "set_time" \/ TimeSays(client.time_advances) => TimeSays(client'.time_advances)
  /\ packet.name = "set_chunk_cache_center" \/ client.center = CenterChunk(server_state) =>
       client'.center = CenterChunk(server_state)
  /\ packet.name = "game_event" \/ client.waits_for_chunks => client'.waits_for_chunks

LEMMA LoginIsHeard ==
  ASSUME IsClient(client), UNCHANGED <<server_state, player>>,
         server_state.hardcore \in BOOLEAN, server_state.reduced_debug_info \in BOOLEAN,
         NEW packet, packet.name = "login", LoginSays(packet.content),
         client' = Receive(client, packet, player)
  PROVE  Heard(packet)
<1>1. /\ SameBut(client', {"phase", "registries", "login"})
      /\ client'.phase = "play"
      /\ LoginIsRead(client'.login, packet.content)
  BY LoginIsReceived
<1>2. Shown(packet, player.pvn) = {}
  BY SilentNamesShowNothing DEF SilentNames
<1>3. PICK c, login : c = packet.content /\ login = client'.login
  OBVIOUS
<1>4. /\ login.game_mode = GameModeValue(GameMode(server_state, player.pvn))
      /\ player.pvn >= 477 => login.view_distance = server_state.view_distance
  BY <1>1, <1>3 DEF LoginSays, LoginIsRead
<1>5. login.hardcore = server_state.hardcore
  <2>1. HardcoreFlag(c) \in BOOLEAN
    BY <1>3 DEF LoginSays, HardcoreFlag
  <2>2. HardcoreFlag(c) <=> server_state.hardcore
    BY <1>3 DEF LoginSays
  <2>3. login.hardcore = HardcoreFlag(c)
    BY <1>1, <1>3 DEF LoginIsRead
  <2>4. QED
    BY <2>1, <2>2, <2>3
<1>6. player.pvn >= 47 => login.reduced_debug_info = server_state.reduced_debug_info
  BY <1>1, <1>3 DEF LoginSays, LoginIsRead
<1>7. LoginIsTold'
  BY <1>1, <1>3, <1>4, <1>5, <1>6 DEF LoginIsTold
<1>8. QED
  BY <1>1, <1>2, <1>7 DEF Heard, SameBut, ClientFields

LEMMA FieldIsHeard ==
  ASSUME IsClient(client), UNCHANGED <<server_state, player>>,
         NEW packet, IsPlaySent(packet),
         packet.name \in {"player_abilities", "set_time", "commands", "game_event",
                          "set_chunk_cache_center"},
         client' = Receive(client, packet, player)
  PROVE  Heard(packet)
<1>1. IsPlayPacket(packet)
  BY DEF IsPlaySent
<1>2. Shown(packet, player.pvn) = {}
  BY SilentNamesShowNothing DEF SilentNames
<1>3. LoginIsTold /\ client'.login = client.login /\ client'.phase = client.phase => LoginIsTold'
  BY DEF LoginIsTold
<1>4. CASE packet.name = "player_abilities"
  <2>1. SameBut(client', {"abilities"}) /\ client'.abilities = AbilitiesOf(packet.content)
    BY <1>4, FieldIsReceived
  <2>2. AbilitiesSay(client'.abilities)
    BY <1>1, <1>4, <2>1 DEF IsPlayPacket
  <2>3. QED
    BY <1>2, <1>3, <1>4, <2>1, <2>2 DEF Heard, SameBut, ClientFields
<1>5. CASE packet.name = "set_time"
  <2>1. /\ SameBut(client', {"time_advances"})
        /\ client'.time_advances = TimeAdvances(packet.content, player.pvn)
    BY <1>5, FieldIsReceived
  <2>2. TimeSays(client'.time_advances)
    BY <1>1, <1>5, <2>1 DEF IsPlayPacket
  <2>3. QED
    BY <1>2, <1>3, <1>5, <2>1, <2>2 DEF Heard, SameBut, ClientFields
<1>6. CASE packet.name = "commands"
  <2>1. SameBut(client', {"commands"})
    BY <1>6, FieldIsReceived
  <2>2. QED
    BY <1>2, <1>3, <1>6, <2>1 DEF Heard, SameBut, ClientFields
<1>7. CASE packet.name = "game_event"
  <2>1. SameBut(client', {"waits_for_chunks"}) /\ client'.waits_for_chunks
    BY <1>7, FieldIsReceived
  <2>2. QED
    BY <1>2, <1>3, <1>7, <2>1 DEF Heard, SameBut, ClientFields
<1>8. CASE packet.name = "set_chunk_cache_center"
  <2>1. SameBut(client', {"center"}) /\ client'.center = packet.content
    BY <1>8, FieldIsReceived
  <2>2. client'.center = CenterChunk(server_state)
    BY <1>1, <1>8, <2>1 DEF IsPlayPacket
  <2>3. QED
    BY <1>2, <1>3, <1>8, <2>1, <2>2 DEF Heard, SameBut, ClientFields
<1>9. QED
  BY <1>4, <1>5, <1>6, <1>7, <1>8

LEMMA PacketIsHeard ==
  ASSUME IsClient(client), UNCHANGED <<server_state, player>>,
         server_state.hardcore \in BOOLEAN, server_state.reduced_debug_info \in BOOLEAN,
         NEW packet, IsPlaySent(packet), client' = Receive(client, packet, player)
  PROVE  Heard(packet) /\ Shown(packet, player.pvn) \subseteq ExpectedTexts(player.pvn)
<1>1. Shown(packet, player.pvn) \subseteq ExpectedTexts(player.pvn)
  BY SilentNamesShowNothing DEF IsPlaySent, IsPlayPacket
<1>2. packet.name \in PlayNames
  BY DEF IsPlaySent, IsPlayPacket, PlayNames
<1>3. CASE packet.name = "login"
  BY <1>1, <1>3, LoginIsHeard DEF IsPlaySent, IsPlayPacket
<1>4. CASE packet.name \in {"player_abilities", "set_time", "commands", "game_event",
                            "set_chunk_cache_center"}
  BY <1>1, <1>4, FieldIsHeard
<1>5. CASE packet.name \notin {"login", "player_abilities", "set_time", "commands",
                               "game_event", "set_chunk_cache_center"}
  <2>1. /\ SameBut(client', {"shown"})
        /\ client'.shown = client.shown \cup Shown(packet, player.pvn)
    BY <1>2, <1>5, OtherIsReceived
  <2>2. LoginIsTold /\ client'.login = client.login /\ client'.phase = client.phase => LoginIsTold'
    BY DEF LoginIsTold
  <2>3. QED
    BY <1>1, <1>5, <2>1, <2>2 DEF Heard, SameBut, ClientFields
<1>6. QED
  BY <1>3, <1>4, <1>5

\* What is left of a batch after a packet of it
Leaves(packet, rest) ==
  /\ IsPlayBatch(rest)
  /\ \A name : Comes(producers, name) => Comes(rest, name) \/ packet.name = name
  /\ ChunksCome(producers) => ChunksCome(rest)
  /\ \A text : TextComes(producers, text) =>
       TextComes(rest, text) \/ text \in Shown(packet, player.pvn)
  /\ producers = <<>> => rest = <<>>

LEMMA BatchInTheSameWorld ==
  ASSUME UNCHANGED <<server_state, world, player>>, IsPlayBatch(producers')
  PROVE  IsPlayBatch(producers)'
BY TheSameWorld DEF IsPlayBatch

LEMMA TextsInTheSameWorld ==
  ASSUME UNCHANGED player
  PROVE  \A text, batch : TextComes(batch, text)' <=> TextComes(batch, text)
BY DEF TextComes

LEMMA PlayGoesOn ==
  ASSUME Playing, ArrivalsAreOrdered, UNCHANGED <<server_state, world, player>>,
         NEW packet, Heard(packet), Shown(packet, player.pvn) \subseteq ExpectedTexts(player.pvn),
         NEW rest, Leaves(packet, rest), current.kind # "chunks",
         producers' = rest, current' = Idle
  PROVE  Playing' /\ ArrivalsAreOrdered'
<1>1. IsPlayBatch(producers)'
  BY BatchInTheSameWorld DEF Leaves
<1>2. current'.kind = "idle"
  BY DEF Idle
<1>3. GameIsTold'
  <2>1. Comes(rest, "login") \/ LoginIsTold'
    BY DEF Playing, GameIsTold, Leaves, Heard
  <2>2. Comes(rest, "player_abilities") \/ AbilitiesSay(client'.abilities)
    BY DEF Playing, GameIsTold, Leaves, Heard
  <2>3. Comes(rest, "set_time") \/ TimeSays(client'.time_advances)
    BY DEF Playing, GameIsTold, Leaves, Heard
  <2>4. /\ AbilitiesSay(client'.abilities) => AbilitiesSay(client.abilities)'
        /\ TimeSays(client'.time_advances) => TimeSays(client.time_advances)'
    BY DEF AbilitiesSay, TimeSays
  <2>5. QED
    BY <2>1, <2>2, <2>3, <2>4 DEF GameIsTold
<1>4. TextsAreTold'
  <2>1. ExpectedTexts(player.pvn)' = ExpectedTexts(player.pvn)
    BY TheSameWorld
  <2>2. client'.shown \subseteq ExpectedTexts(player.pvn)
    BY DEF Playing, TextsAreTold, Heard
  <2>3. ASSUME NEW text \in ExpectedTexts(player.pvn)
        PROVE  text \in client'.shown \/ TextComes(rest, text)
    BY DEF Playing, TextsAreTold, Heard, Leaves
  <2>4. \A text : TextComes(producers', text) => TextComes(producers, text)'
    BY DEF TextComes
  <2>5. QED
    BY <2>1, <2>2, <2>3, <2>4 DEF TextsAreTold
<1>5. PlaceIsTold'
  BY DEF Playing, PlaceIsTold, Leaves, Heard
<1>6. ChunksAreTold'
  <2>1. producers' # <<>> => client'.arrived = <<>>
    BY DEF Playing, ChunksAreTold, Leaves, Heard
  <2>2. player.pvn >= 735 =>
          \/ ChunksCome(producers')
          \/ AllArrived(client'.arrived, CenterChunk(server_state), server_state.view_distance)
    BY DEF Playing, ChunksAreTold, Leaves, Heard
  <2>3. QED
    BY <1>2, <2>1, <2>2 DEF ChunksAreTold
<1>7. ArrivalsAreOrdered'
  BY DEF ArrivalsAreOrdered, Heard
<1>8. QED
  BY <1>1, <1>3, <1>4, <1>5, <1>6, <1>7 DEF Playing

-----------------------------------------------------------------------------
(* The chunks                                                                  *)

LEMMA ColumnsAreCounted ==
  ASSUME NEW a \in Nat, NEW b \in Nat, NEW x \in 0..(a - 1), NEW z \in 0..(b - 1)
  PROVE  z + x * b \in 0..(a * b - 1)
<1>1. x \in Nat /\ z \in Nat /\ x <= a - 1 /\ z <= b - 1
  OBVIOUS
<1>2. x * b \in Nat /\ a * b \in Nat
  BY <1>1
<1>3. PICK d \in Nat : a = x + 1 + d
  BY <1>1
<1>4. d * b \in Nat
  OBVIOUS
<1>5. a * b = x * b + b + d * b
  BY <1>1, <1>3
<1>6. QED
  BY <1>1, <1>2, <1>4, <1>5

LEMMA SizesAreCounted ==
  ASSUME NEW length \in Nat
  PROVE  (length + S - 1) \div S \in Nat
<1>1. S \in Nat /\ S > 0
  BY SectionAssumption DEF S
<1>2. length + S - 1 \in Nat
  BY <1>1
<1>3. QED
  BY <1>1, <1>2

\* Where a column that cannot be encoded comes from
LEMMA LostColumn ==
  ASSUME config_file \in Files, StateIsBuilt, WorldIsBuilt, player.pvn \in Releases,
         NEW chunks, chunks.schematic_context = SchematicContext(world, player.pvn),
         NEW chunk, chunk = ChunkPacket(world, chunks, player.pvn),
         ~CanEncodeChunk(chunk, player.pvn)
  PROVE  /\ ShowsTheSchematic
         /\ player.pvn < 770
         /\ SchematicFile.unwritable # {}
<1>1. PICK x, z : x = chunks.spiral.current[1] /\ z = chunks.spiral.current[2]
  OBVIOUS
<1>2. chunks.schematic_context # <<>>
  <2>1. SUFFICES ASSUME ~(chunks.schematic_context # <<>>) PROVE FALSE
    OBVIOUS
  <2>2. chunk = VoidChunk(x, z, chunks.biome, chunks.dimension, player.pvn)
    BY <1>1, <2>1 DEF ChunkPacket
  <2>3. chunk.block_entities = {}
    BY <2>2 DEF VoidChunk
  <2>4. QED
    BY <2>3 DEF CanEncodeChunk
<1>3. world.exists /\ HasBlocksReport(player.pvn)
  BY <1>2 DEF SchematicContext
<1>4. /\ HasSchematic(config_file)
      /\ world.size_in_chunks = SizeInChunks(LoadedSchematic)
      /\ world.block_entities_by_chunk
           = BlockEntitiesByChunk(LoadedSchematic, SizeInChunks(LoadedSchematic))
  BY <1>3 DEF WorldIsBuilt, NoWorld
<1>5. /\ Parsed(config_file).schematic_file \in DOMAIN SchematicFiles
      /\ Loads(SchematicFile)
  BY <1>4, ServerStateIsRight
<1>6. PICK file : file = SchematicFile
  OBVIOUS
<1>7. /\ {file.width, file.height, file.length} \subseteq Nat
      /\ \A e \in ToSet(LoadSchematic(file, InternalMapping).block_entities) :
         \A pvn \in Releases :
            \/ e.block_entity_type \notin DOMAIN BlockEntityTypeLookup(pvn)
            \/ CanEncode(BlockEntityNbt(e, pvn), pvn)
            \/ pvn < 770 /\ e.position \in file.unwritable
  BY <1>5, <1>6, SchematicsAssumption DEF SchematicFile
<1>8. PICK size : size = SizeInChunks(LoadedSchematic)
  OBVIOUS
<1>9. size[1] \in Nat /\ size[3] \in Nat
  <2>1. LoadedSchematic.dimensions = <<file.width, file.height, file.length>>
    BY <1>6 DEF LoadedSchematic, LoadSchematic
  <2>2. /\ size[1] = (file.width + S - 1) \div S
        /\ size[3] = (file.length + S - 1) \div S
    BY <1>8, <2>1 DEF SizeInChunks
  <2>3. QED
    BY <1>7, <2>2, SizesAreCounted
<1>10. chunk = SchematicChunk(world, Head(chunks.schematic_context), x, z, chunks.biome,
                              chunks.dimension, player.pvn)
  BY <1>1, <1>2 DEF ChunkPacket
<1>11. chunk.block_entities
         = {ChunkBlockEntity(e, player.pvn) : e \in EntitiesOf(world, x, z, player.pvn)}
  BY <1>10 DEF SchematicChunk
<1>12. PICK e \in EntitiesOf(world, x, z, player.pvn) :
         ~CanEncode(ChunkBlockEntity(e, player.pvn).nbt, player.pvn)
  BY <1>11 DEF CanEncodeChunk
<1>13. ChunkBlockEntity(e, player.pvn).nbt = BlockEntityNbt(e, player.pvn)
  BY DEF ChunkBlockEntity, ++
<1>14. /\ IsColumnInBounds(world, x, z)
       /\ e \in world.block_entities_by_chunk[ColumnIndex(world, x, z)]
       /\ e.block_entity_type \in DOMAIN BlockEntityTypeLookup(player.pvn)
  BY DEF EntitiesOf
<1>15. ColumnIndex(world, x, z) \in Columns(size)
  BY <1>4, <1>8, <1>9, <1>14, ColumnsAreCounted DEF IsColumnInBounds, ColumnIndex, Columns
<1>16. e \in ToSet(LoadedSchematic.block_entities)
  BY <1>4, <1>8, <1>14, <1>15 DEF BlockEntitiesByChunk
<1>17. player.pvn < 770 /\ e.position \in file.unwritable
  BY <1>6, <1>7, <1>12, <1>13, <1>14, <1>16 DEF LoadedSchematic
<1>18. QED
  BY <1>3, <1>6, <1>17 DEF ShowsTheSchematic

LEMMA ChunkIsReceived ==
  ASSUME IsClient(client), NEW chunk,
         client' = Receive(client, Packet("level_chunk_with_light", chunk), player)
  PROVE  /\ SameBut(client', {"arrived", "column"})
         /\ client'.arrived = Append(client.arrived, <<chunk.chunk_x, chunk.chunk_z>>)
<1>1. PICK packet : packet = Packet("level_chunk_with_light", chunk)
  OBVIOUS
<1>2. packet.name = "level_chunk_with_light" /\ packet.content = chunk
  BY <1>1 DEF Packet
<1>3. client' = ReceiveChunk(client, chunk, player.pvn)
  BY <1>1, <1>2 DEF Receive
<1>4. PICK column :
        client' = [client EXCEPT !.arrived = Append(@, <<chunk.chunk_x, chunk.chunk_z>>),
                                 !.column = column]
  BY <1>3 DEF ReceiveChunk
<1>5. QED
  BY <1>4, ClientIsAFunction, FunctionIsAClient DEF SameBut, ClientFields

LEMMA ChunkIsAt ==
  ASSUME NEW chunks, chunks.spiral.current \in Places,
         NEW chunk, chunk = ChunkPacket(world, chunks, player.pvn)
  PROVE  <<chunk.chunk_x, chunk.chunk_z>> = chunks.spiral.current
<1>1. PICK x, z : x = chunks.spiral.current[1] /\ z = chunks.spiral.current[2]
  OBVIOUS
<1>2. chunks.spiral.current = <<x, z>>
  BY <1>1 DEF Places
<1>3. chunk.chunk_x = x /\ chunk.chunk_z = z
  <2>1. CASE chunks.schematic_context # <<>>
    BY <1>1, <2>1 DEF ChunkPacket, SchematicChunk
  <2>2. CASE ~(chunks.schematic_context # <<>>)
    BY <1>1, <2>2 DEF ChunkPacket, VoidChunk
  <2>3. QED
    BY <2>1, <2>2
<1>4. QED
  BY <1>2, <1>3

LEMMA ChunkIsSent ==
  ASSUME IsClient(client), Playing, ArrivalsAreOrdered,
         UNCHANGED <<server_state, world, player, producers>>,
         current.kind = "chunks", ~SpiralIsDone(current.chunks.spiral),
         NEW chunk, chunk = ChunkPacket(world, current.chunks, player.pvn),
         client' = Receive(client, Packet("level_chunk_with_light", chunk), player),
         current' = [current EXCEPT !.chunks.spiral = StepSpiral(@)]
  PROVE  /\ IsClient(client)' /\ Playing' /\ ArrivalsAreOrdered'
         /\ client'.phase = client.phase
<1>1. PICK spiral, step : spiral = current.chunks.spiral /\ step = StepSpiral(spiral)
  OBVIOUS
<1>2. /\ producers = <<>> /\ IsChunkIterator(current)
      /\ OnItsWay(spiral, client.arrived)
      /\ spiral.center = CenterChunk(server_state)
      /\ spiral.max_radius = server_state.view_distance
  BY <1>1 DEF Playing, ChunksAreTold, IsChunkIterator
<1>3. PICK more : more = Append(client.arrived, spiral.current)
  OBVIOUS
<1>4. spiral.current \in Places /\ client.arrived \in Seq(Places)
  BY <1>2 DEF OnItsWay, Spirals, Places
<1>5. SameBut(client', {"arrived", "column"}) /\ client'.arrived = more
  <2>1. <<chunk.chunk_x, chunk.chunk_z>> = spiral.current
    BY <1>1, <1>4, ChunkIsAt
  <2>2. QED
    BY <1>3, <2>1, ChunkIsReceived
<1>6. OnItsWay(step, more) /\ step.center = spiral.center /\ step.max_radius = spiral.max_radius
  BY <1>1, <1>2, <1>3, SpiralGoesOn
<1>7. IsChunkIterator(current') /\ current'.kind = "chunks" /\ current'.chunks.spiral = step
  <2>1. PICK chunks : chunks = current.chunks
    OBVIOUS
  <2>2. /\ current = [kind |-> "chunks", chunks |-> chunks]
        /\ chunks = [spiral |-> chunks.spiral, biome |-> chunks.biome,
                     dimension |-> chunks.dimension,
                     schematic_context |-> SchematicContext(world, player.pvn)]
        /\ player.pvn >= 735
    BY <1>2, <2>1 DEF IsChunkIterator
  <2>3. current' = [kind |-> "chunks", chunks |-> [chunks EXCEPT !.spiral = step]]
    BY <1>1, <2>1, <2>2
  <2>4. [chunks EXCEPT !.spiral = step]
          = [spiral |-> step, biome |-> chunks.biome, dimension |-> chunks.dimension,
             schematic_context |-> SchematicContext(world, player.pvn)]
    BY <2>2
  <2>5. QED
    BY <1>2, <1>6, <2>2, <2>3, <2>4 DEF IsChunkIterator
<1>8. IsChunkIterator(current)'
  BY <1>7, TheSameWorld
<1>9. more # <<>> /\ more \in Seq(Places)
  BY <1>3, <1>4, OneMore
<1>10. IsPlayBatch(producers)'
  BY BatchInTheSameWorld DEF Playing
<1>11. /\ client'.login = client.login /\ client'.phase = client.phase
       /\ client'.abilities = client.abilities
       /\ client'.time_advances = client.time_advances
       /\ client'.shown = client.shown /\ client'.center = client.center
       /\ client'.waits_for_chunks = client.waits_for_chunks
  BY <1>5 DEF SameBut, ClientFields
<1>12. GameIsTold'
  <2>1. GameIsTold
    BY DEF Playing
  <2>2. LoginIsTold => LoginIsTold'
    BY <1>11 DEF LoginIsTold
  <2>3. /\ AbilitiesSay(client.abilities) => AbilitiesSay(client.abilities)'
        /\ TimeSays(client.time_advances) => TimeSays(client.time_advances)'
    BY <1>11 DEF AbilitiesSay, TimeSays
  <2>4. QED
    BY <2>1, <2>2, <2>3 DEF GameIsTold
<1>13. TextsAreTold'
  <2>1. TextsAreTold
    BY DEF Playing
  <2>2. ExpectedTexts(player.pvn)' = ExpectedTexts(player.pvn)
    BY TheSameWorld
  <2>3. \A text : TextComes(producers, text) => TextComes(producers, text)'
    BY DEF TextComes
  <2>4. QED
    BY <1>11, <2>1, <2>2, <2>3 DEF TextsAreTold
<1>14. PlaceIsTold'
  BY <1>11 DEF Playing, PlaceIsTold
<1>15. ChunksAreTold'
  BY <1>2, <1>5, <1>6, <1>7, <1>8 DEF ChunksAreTold
<1>16. ArrivalsAreOrdered'
  <2>1. NearestFirst(more, CenterChunk(server_state))
    BY <1>2, <1>6 DEF OnItsWay
  <2>2. /\ player.pvn >= 759 => client.center = CenterChunk(server_state)
        /\ player.pvn >= 765 => client.waits_for_chunks
    BY <1>2, NothingComes DEF Playing, PlaceIsTold
  <2>3. QED
    BY <1>5, <1>9, <1>11, <2>1, <2>2 DEF ArrivalsAreOrdered
<1>17. current'.kind = "chunks" /\ IsClient(client)'
  BY <1>5, <1>7 DEF SameBut
<1>18. QED
  BY <1>10, <1>11, <1>12, <1>13, <1>14, <1>15, <1>16, <1>17 DEF Playing

-----------------------------------------------------------------------------
(* The steps of a batch                                                        *)

LEMMA KeptByABatch ==
  ASSUME JoinInv, UNCHANGED batchUnchanged
  PROVE  /\ config_file' \in Files
         /\ stage' # "stopped" => StateIsBuilt'
         /\ WorldIsBuilt'
         /\ UNCHANGED <<server_state, world, player>>
<1>1. StateIsBuilt => StateIsBuilt'
  BY DEF batchUnchanged, StateIsBuilt
<1>2. WorldIsBuilt'
  BY DEF JoinInv, batchUnchanged, WorldIsBuilt, LoadedSchematic, SchematicFile
<1>3. QED
  BY <1>1, <1>2 DEF JoinInv, batchUnchanged

\* Whose batch it is
InPlay == client.phase \in {"none", "acknowledged", "play"} /\ Playing

InConfiguration == client.phase \in {"configuration", "configured"} /\ Configuring

LEMMA SomeoneIsJoining ==
  ASSUME JoinInv, producers # <<>> \/ current # Idle
  PROVE  /\ player # NoPlayer /\ stage = "serving" /\ player.pvn \in Releases
         /\ config_file \in Files /\ StateIsBuilt /\ WorldIsBuilt /\ IsClient(client)
         /\ ArrivalsAreOrdered
         /\ InConfiguration \/ InPlay
         /\ server_state.hardcore \in BOOLEAN /\ server_state.reduced_debug_info \in BOOLEAN
<1>1. player # NoPlayer
  BY DEF JoinInv
<1>2. /\ stage = "serving" /\ player.pvn \in Releases /\ config_file \in Files
      /\ StateIsBuilt /\ WorldIsBuilt /\ IsClient(client) /\ ArrivalsAreOrdered
  BY <1>1 DEF JoinInv
<1>3. ~Lost
  BY DEF Lost, BatchIsDone, IsIdle
<1>4. InConfiguration \/ InPlay
  BY <1>1, <1>3 DEF JoinInv, InConfiguration, InPlay
<1>5. server_state.hardcore \in BOOLEAN /\ server_state.reduced_debug_info \in BOOLEAN
  BY <1>2, ServerStateIsRight DEF StateIsRight, RulesHaveTypes
<1>6. QED
  BY <1>1, <1>2, <1>4, <1>5

LEMMA StillInPlay ==
  ASSUME JoinInv, producers # <<>> \/ current # Idle, UNCHANGED batchUnchanged,
         IsClient(client)', Playing', ArrivalsAreOrdered',
         client'.phase \in {"none", "acknowledged", "play"}
  PROVE  JoinInv'
<1>1. /\ player # NoPlayer /\ stage = "serving" /\ player.pvn \in Releases
  BY SomeoneIsJoining
<1>2. player' # NoPlayer /\ stage' = "serving" /\ player'.pvn \in Releases
  BY <1>1 DEF batchUnchanged
<1>3. QED
  BY <1>2, KeptByABatch DEF JoinInv

LEMMA StillInConfiguration ==
  ASSUME JoinInv, producers # <<>> \/ current # Idle, UNCHANGED batchUnchanged,
         IsClient(client)', Configuring', client'.arrived = client.arrived,
         client'.arrived = <<>>,
         client'.phase \in {"configuration", "configured"}
  PROVE  JoinInv'
<1>1. player # NoPlayer /\ stage = "serving" /\ player.pvn \in Releases /\ ArrivalsAreOrdered
  BY SomeoneIsJoining
<1>2. player' # NoPlayer /\ stage' = "serving" /\ player'.pvn \in Releases
  BY <1>1 DEF batchUnchanged
<1>3. ArrivalsAreOrdered'
  BY <1>1 DEF ArrivalsAreOrdered, batchUnchanged
<1>4. QED
  BY <1>2, <1>3, KeptByABatch DEF JoinInv

LEMMA PacketInPlay ==
  ASSUME JoinInv, producers # <<>> \/ current # Idle, UNCHANGED batchUnchanged,
         InPlay, NEW packet, IsPlaySent(packet), NEW rest, Leaves(packet, rest),
         current.kind # "chunks", Send(packet, Idle, rest)
  PROVE  JoinInv'
<1>1. CanEncodePacket(packet, player.pvn)
  BY DEF IsPlaySent, IsPlayPacket
<1>2. client' = Receive(client, packet, player) /\ current' = Idle /\ producers' = rest
  BY <1>1 DEF Send
<1>3. UNCHANGED <<server_state, world, player>>
  BY KeptByABatch
<1>4. /\ IsClient(client) /\ ArrivalsAreOrdered
      /\ server_state.hardcore \in BOOLEAN /\ server_state.reduced_debug_info \in BOOLEAN
  BY SomeoneIsJoining
<1>5. Heard(packet) /\ Shown(packet, player.pvn) \subseteq ExpectedTexts(player.pvn)
  BY <1>2, <1>3, <1>4, PacketIsHeard
<1>6. Playing' /\ ArrivalsAreOrdered'
  BY <1>2, <1>3, <1>4, <1>5, PlayGoesOn DEF InPlay
<1>7. IsClient(client)' /\ client'.phase \in {"none", "acknowledged", "play"}
  BY <1>5 DEF Heard, InPlay
<1>8. QED
  BY <1>6, <1>7, StillInPlay

LEMMA SyncInPlay ==
  ASSUME JoinInv, InPlay, PollSync
  PROVE  JoinInv'
<1>1. PICK head, rest : head = Head(producers) /\ rest = Tail(producers)
  OBVIOUS
<1>2. /\ producers # <<>> /\ current = Idle /\ head.kind = "sync"
      /\ Send(head.packet, Idle, rest) /\ UNCHANGED batchUnchanged
  BY <1>1 DEF PollSync, NextIs, IsIdle
<1>3. IsPlayBatch(producers)
  BY DEF InPlay, Playing
<1>4. /\ IsInPlay(head) /\ IsPlayBatch(rest)
      /\ \A name : Comes(producers, name) =>
           Comes(rest, name) \/ (head.kind = "sync" /\ head.packet.name = name)
      /\ ChunksCome(producers) => ChunksCome(rest) \/ head.kind = "chunks"
      /\ \A text : TextComes(producers, text) =>
           \/ TextComes(rest, text)
           \/ head.kind = "sync" /\ text \in Shown(head.packet, player.pvn)
  BY <1>1, <1>2, <1>3, RestOfBatch
<1>5. IsPlaySent(head.packet)
  BY <1>2, <1>4 DEF IsInPlay, IsChunkIterator, IsPlaySent
<1>6. Leaves(head.packet, rest)
  BY <1>2, <1>4 DEF Leaves
<1>7. current.kind # "chunks"
  BY <1>2 DEF Idle
<1>8. QED
  BY <1>2, <1>5, <1>6, <1>7, PacketInPlay

LEMMA FutureInPlay ==
  ASSUME JoinInv, InPlay, FutureIsReady
  PROVE  JoinInv'
<1>1. current.kind = "async" /\ UNCHANGED batchUnchanged
  BY DEF FutureIsReady
<1>2. current # Idle
  BY <1>1 DEF Idle
<1>3. PICK packet : /\ packet.name = "player_info_update"
                    /\ Send(packet, Idle, producers)
  BY DEF FutureIsReady, PlayerInfoUpdate, Packet
<1>4. CanEncodePacket(packet, player.pvn)
  <2>1. player.pvn \in 4..775
    BY <1>2, SomeoneIsJoining, ReleasesAre
  <2>2. QED
    BY <1>3, <2>1 DEF CanEncodePacket, VersionsOf
<1>5. IsPlaySent(packet)
  BY <1>3, <1>4 DEF IsPlaySent
<1>6. Leaves(packet, producers)
  BY DEF Leaves, InPlay, Playing
<1>7. QED
  BY <1>1, <1>2, <1>3, <1>5, <1>6, PacketInPlay

\* A step of the play state that tells the client nothing
LEMMA NothingIsTold ==
  ASSUME Playing, UNCHANGED <<server_state, world, player, client>>,
         IsPlayBatch(producers'),
         \A name : Comes(producers, name) => Comes(producers', name),
         \A text : TextComes(producers, text) => TextComes(producers', text)
  PROVE  IsPlayBatch(producers)' /\ GameIsTold' /\ TextsAreTold' /\ PlaceIsTold'
<1>1. IsPlayBatch(producers)'
  BY BatchInTheSameWorld
<1>2. GameIsTold'
  <2>1. GameIsTold
    BY DEF Playing
  <2>2. LoginIsTold => LoginIsTold'
    BY DEF LoginIsTold
  <2>3. /\ AbilitiesSay(client.abilities) => AbilitiesSay(client.abilities)'
        /\ TimeSays(client.time_advances) => TimeSays(client.time_advances)'
    BY DEF AbilitiesSay, TimeSays
  <2>4. QED
    BY <2>1, <2>2, <2>3 DEF GameIsTold
<1>3. TextsAreTold'
  <2>1. TextsAreTold
    BY DEF Playing
  <2>2. ExpectedTexts(player.pvn)' = ExpectedTexts(player.pvn)
    BY TheSameWorld
  <2>3. \A text : TextComes(producers, text) => TextComes(producers, text)'
    BY DEF TextComes
  <2>4. QED
    BY <2>1, <2>2, <2>3 DEF TextsAreTold
<1>4. PlaceIsTold'
  BY DEF Playing, PlaceIsTold
<1>5. QED
  BY <1>1, <1>2, <1>3, <1>4

LEMMA NextInPlay ==
  ASSUME JoinInv, InPlay, PollNext
  PROVE  JoinInv'
<1>1. PICK head, rest : head = Head(producers) /\ rest = Tail(producers)
  OBVIOUS
<1>2. /\ producers # <<>> /\ current = Idle /\ head.kind \in {"async", "iterator", "chunks"}
      /\ current' = head /\ producers' = rest /\ UNCHANGED <<client, batchUnchanged>>
  BY <1>1 DEF PollNext, NextIs, IsIdle
<1>3. UNCHANGED <<server_state, world, player, client>>
  BY <1>2 DEF batchUnchanged
<1>4. IsPlayBatch(producers)
  BY DEF InPlay, Playing
<1>5. /\ IsInPlay(head) /\ IsPlayBatch(rest)
      /\ head.kind = "chunks" => rest = <<>>
      /\ \A name : Comes(producers, name) =>
           Comes(rest, name) \/ (head.kind = "sync" /\ head.packet.name = name)
      /\ ChunksCome(producers) => ChunksCome(rest) \/ head.kind = "chunks"
      /\ \A text : TextComes(producers, text) =>
           \/ TextComes(rest, text)
           \/ head.kind = "sync" /\ text \in Shown(head.packet, player.pvn)
  BY <1>1, <1>2, <1>4, RestOfBatch
<1>6. head.kind # "sync"
  BY <1>2
<1>7. IsPlayBatch(producers)' /\ GameIsTold' /\ TextsAreTold' /\ PlaceIsTold'
  BY <1>2, <1>3, <1>5, <1>6, NothingIsTold DEF InPlay
<1>8. client.arrived = <<>>
  BY <1>2 DEF InPlay, Playing, ChunksAreTold
<1>9. \/ head.kind = "async"
      \/ /\ head.kind = "chunks" /\ IsChunkIterator(head)
         /\ OnItsWay(head.chunks.spiral, <<>>)
  <2>1. IsChunkIterator(head) => head.kind = "chunks"
    BY DEF IsChunkIterator
  <2>2. QED
    BY <1>5, <1>6, <2>1 DEF IsInPlay
<1>10. IsChunkIterator(head) => IsChunkIterator(current)'
  BY <1>2, <1>3, TheSameWorld
<1>11. /\ current.kind # "chunks"
       /\ player.pvn >= 735 =>
            \/ ChunksCome(rest) \/ head.kind = "chunks"
            \/ AllArrived(client.arrived, CenterChunk(server_state), server_state.view_distance)
  BY <1>2, <1>5 DEF Idle, InPlay, Playing, ChunksAreTold
<1>12. ChunksAreTold'
  <2>1. producers' # <<>> => client'.arrived = <<>>
    BY <1>3, <1>8
  <2>2. current'.kind = "chunks" =>
          /\ producers' = <<>>
          /\ IsChunkIterator(current)'
          /\ OnItsWay(current'.chunks.spiral, client'.arrived)
    BY <1>2, <1>3, <1>5, <1>8, <1>9, <1>10
  <2>3. player'.pvn >= 735 =>
          \/ ChunksCome(producers')
          \/ current'.kind = "chunks"
          \/ AllArrived(client'.arrived, CenterChunk(server_state'), server_state'.view_distance)
    BY <1>2, <1>3, <1>11
  <2>4. QED
    BY <2>1, <2>2, <2>3 DEF ChunksAreTold
<1>13. Playing'
  BY <1>2, <1>7, <1>9, <1>12 DEF Playing
<1>14. IsClient(client) /\ ArrivalsAreOrdered
  BY <1>2, SomeoneIsJoining
<1>15. IsClient(client)' /\ ArrivalsAreOrdered'
  BY <1>3, <1>14 DEF IsClient, ArrivalsAreOrdered
<1>16. QED
  BY <1>2, <1>3, <1>13, <1>15, StillInPlay DEF InPlay

LEMMA DoneInPlay ==
  ASSUME JoinInv, InPlay, IteratorIsDone
  PROVE  JoinInv'
<1>1. /\ current' = Idle /\ UNCHANGED <<producers, client, batchUnchanged>>
      /\ current.kind \in {"iterator", "chunks"}
  BY DEF IteratorIsDone
<1>2. current.kind = "chunks" /\ SpiralIsDone(current.chunks.spiral)
  BY DEF IteratorIsDone, InPlay, Playing, Idle
<1>3. current # Idle
  BY <1>2 DEF Idle
<1>4. UNCHANGED <<server_state, world, player, client, producers>>
  BY <1>1 DEF batchUnchanged
<1>5. IsPlayBatch(producers)' /\ GameIsTold' /\ TextsAreTold' /\ PlaceIsTold'
  <2>1. IsPlayBatch(producers')
    BY <1>4 DEF InPlay, Playing
  <2>2. QED
    BY <1>4, <2>1, NothingIsTold DEF InPlay
<1>6. AllArrived(client.arrived, CenterChunk(server_state), server_state.view_distance)
  <2>1. /\ OnItsWay(current.chunks.spiral, client.arrived)
        /\ current.chunks.spiral.center = CenterChunk(server_state)
        /\ current.chunks.spiral.max_radius = server_state.view_distance
    BY <1>2 DEF InPlay, Playing, ChunksAreTold, IsChunkIterator
  <2>2. PICK spiral : spiral = current.chunks.spiral
    OBVIOUS
  <2>3. AllArrived(client.arrived, spiral.center, spiral.max_radius)
    BY <1>2, <2>1, <2>2, SpiralEnds
  <2>4. QED
    BY <2>1, <2>2, <2>3
<1>7. current'.kind = "idle"
  BY <1>1 DEF Idle
<1>8. ChunksAreTold'
  <2>1. producers # <<>> => client.arrived = <<>>
    BY DEF InPlay, Playing, ChunksAreTold
  <2>2. QED
    BY <1>4, <1>6, <1>7, <2>1 DEF ChunksAreTold
<1>9. Playing'
  BY <1>1, <1>5, <1>8 DEF Playing, Idle
<1>10. IsClient(client) /\ ArrivalsAreOrdered
  BY <1>3, SomeoneIsJoining
<1>11. IsClient(client)' /\ ArrivalsAreOrdered'
  BY <1>4, <1>10 DEF IsClient, ArrivalsAreOrdered
<1>12. QED
  BY <1>1, <1>3, <1>4, <1>9, <1>11, StillInPlay DEF InPlay

LEMMA ChunksInPlay ==
  ASSUME JoinInv, InPlay, PollChunks
  PROVE  JoinInv'
<1>1. PICK chunk : /\ chunk = ChunkPacket(world, current.chunks, player.pvn)
                   /\ Send(Packet("level_chunk_with_light", chunk),
                           [current EXCEPT !.chunks.spiral = StepSpiral(@)], producers)
  BY DEF PollChunks
<1>2. /\ current.kind = "chunks" /\ ~SpiralIsDone(current.chunks.spiral)
      /\ UNCHANGED batchUnchanged
  BY DEF PollChunks
<1>3. current # Idle
  BY <1>2 DEF Idle
<1>4. /\ player # NoPlayer /\ stage = "serving" /\ player.pvn \in Releases
      /\ config_file \in Files /\ StateIsBuilt /\ WorldIsBuilt /\ IsClient(client)
      /\ ArrivalsAreOrdered
  BY <1>3, SomeoneIsJoining
<1>5. UNCHANGED <<server_state, world, player>>
  BY <1>2, KeptByABatch
<1>6. /\ producers = <<>> /\ player.pvn >= 735
      /\ current.chunks.schematic_context = SchematicContext(world, player.pvn)
  <2>1. producers = <<>> /\ IsChunkIterator(current)
    BY <1>2 DEF InPlay, Playing, ChunksAreTold
  <2>2. PICK chunks : chunks = current.chunks
    OBVIOUS
  <2>3. /\ player.pvn >= 735
        /\ current = [kind |-> "chunks",
                      chunks |-> [spiral |-> chunks.spiral, biome |-> chunks.biome,
                                  dimension |-> chunks.dimension,
                                  schematic_context |-> SchematicContext(world, player.pvn)]]
    BY <2>1, <2>2 DEF IsChunkIterator
  <2>4. QED
    BY <2>1, <2>3
<1>7. CASE CanEncodePacket(Packet("level_chunk_with_light", chunk), player.pvn)
  <2>1. /\ client' = Receive(client, Packet("level_chunk_with_light", chunk), player)
        /\ current' = [current EXCEPT !.chunks.spiral = StepSpiral(@)]
        /\ producers' = producers
    BY <1>1, <1>7 DEF Send
  <2>2. /\ IsClient(client)' /\ Playing' /\ ArrivalsAreOrdered'
        /\ client'.phase = client.phase
    BY <1>1, <1>2, <1>4, <1>5, <2>1, ChunkIsSent DEF InPlay
  <2>3. QED
    BY <1>2, <1>3, <2>2, StillInPlay DEF InPlay
<1>8. CASE ~CanEncodePacket(Packet("level_chunk_with_light", chunk), player.pvn)
  <2>1. client' = [client EXCEPT !.phase = "lost"] /\ current' = Idle /\ producers' = <<>>
    BY <1>1, <1>8 DEF Send
  <2>2. SameBut(client', {"phase"}) /\ client'.phase = "lost"
    BY <1>4, <2>1, ChangedPhase
  <2>3. ~CanEncodeChunk(chunk, player.pvn)
    <3>1. PICK packet : packet = Packet("level_chunk_with_light", chunk)
      OBVIOUS
    <3>2. packet.name = "level_chunk_with_light" /\ packet.content = chunk
      BY <3>1 DEF Packet
    <3>3. player.pvn \in VersionsOf(packet.name)
      <4>1. player.pvn \in 735..775
        <5>1. player.pvn \in Int /\ player.pvn \in 4..775
          BY <1>4, ReleasesAre
        <5>2. player.pvn >= 735
          BY <1>6
        <5>3. QED
          BY <5>1, <5>2
      <4>2. VersionsOf("level_chunk_with_light") = 735..775
        BY DEF VersionsOf
      <4>3. QED
        BY <3>2, <4>1, <4>2
    <3>4. ~CanEncodePacket(packet, player.pvn)
      BY <1>8, <3>1
    <3>5. QED
      BY <3>2, <3>3, <3>4 DEF CanEncodePacket
  <2>4. ShowsTheSchematic /\ player.pvn < 770 /\ SchematicFile.unwritable # {}
    BY <1>1, <1>4, <1>6, <2>3, LostColumn
  <2>5. Lost'
    BY <1>2, <2>1, <2>4 DEF Lost, BatchIsDone, IsIdle, ShowsTheSchematic, SchematicFile,
       batchUnchanged
  <2>6. IsClient(client)' /\ ArrivalsAreOrdered'
    BY <1>4, <1>5, <2>2 DEF SameBut, ClientFields, ArrivalsAreOrdered
  <2>7. player' # NoPlayer /\ stage' = "serving" /\ player'.pvn \in Releases
    BY <1>2, <1>4 DEF batchUnchanged
  <2>8. QED
    BY <1>2, <2>2, <2>5, <2>6, <2>7, KeptByABatch DEF JoinInv
<1>9. QED
  BY <1>7, <1>8

-----------------------------------------------------------------------------
(* A batch of the configuration                                                *)

ConfigurationNames ==
  {"custom_payload", "select_known_packs", "update_tags", "registry_data", "finish_configuration"}

LEMMA ConfigurationIsReceived ==
  ASSUME IsClient(client), NEW packet, packet.name \in ConfigurationNames,
         client.shown = {}, client.phase \in {"configuration", "configured"},
         client' = Receive(client, packet, player)
  PROVE  /\ IsClient(client)'
         /\ client'.phase \in {"configuration", "configured"}
         /\ client'.shown = {} /\ client'.arrived = client.arrived
<1>1. CASE packet.name \in {"custom_payload", "select_known_packs"}
  <2>1. Shown(packet, player.pvn) = {}
    BY <1>1 DEF Shown
  <2>2. client' = [client EXCEPT !.shown = @ \cup Shown(packet, player.pvn)]
    BY <1>1 DEF Receive
  <2>3. client' = [client EXCEPT !.shown = {}]
    BY <2>1, <2>2
  <2>4. SameBut(client', {"shown"}) /\ client'.shown = {}
    BY <2>3, ClientIsAFunction, FunctionIsAClient DEF SameBut, ClientFields
  <2>5. QED
    BY <2>4 DEF SameBut, ClientFields
<1>2. CASE packet.name = "update_tags"
  <2>1. SameBut(client', {"tags"})
    BY <1>2, FieldIsReceived
  <2>2. QED
    BY <2>1 DEF SameBut, ClientFields
<1>3. CASE packet.name = "registry_data"
  <2>1. SameBut(client', {"registries"})
    BY <1>3, FieldIsReceived
  <2>2. QED
    BY <2>1 DEF SameBut, ClientFields
<1>4. CASE packet.name = "finish_configuration"
  <2>1. SameBut(client', {"phase"}) /\ client'.phase = "configured"
    BY <1>4, FieldIsReceived
  <2>2. QED
    BY <2>1 DEF SameBut, ClientFields
<1>5. QED
  BY <1>1, <1>2, <1>3, <1>4 DEF ConfigurationNames

LEMMA IteratorsInTheSameWorld ==
  ASSUME UNCHANGED player
  PROVE  \A p : IsInConfiguration(p) => IsInConfiguration(p)'
BY DEF IsInConfiguration, IsConfigurationPacket

\* A packet of the configuration is sent: what is left is left.
LEMMA PacketInConfiguration ==
  ASSUME JoinInv, producers # <<>> \/ current # Idle, UNCHANGED batchUnchanged,
         InConfiguration, NEW packet, packet.name \in ConfigurationNames,
         CanEncodePacket(packet, player.pvn),
         NEW next, next = Idle \/ IsRegistryIterator(next),
         NEW rest, IsList(rest), ToSet(rest) \subseteq ToSet(producers),
         Send(packet, next, rest)
  PROVE  JoinInv'
<1>1. client' = Receive(client, packet, player) /\ current' = next /\ producers' = rest
  BY DEF Send
<1>2. UNCHANGED player
  BY DEF batchUnchanged
<1>3. /\ IsClient(client) /\ client.shown = {} /\ client.arrived = <<>>
      /\ client.phase \in {"configuration", "configured"}
      /\ player.pvn >= 764
      /\ \A p \in ToSet(producers) : IsInConfiguration(p)
  BY SomeoneIsJoining DEF InConfiguration, Configuring
<1>4. /\ IsClient(client)'
      /\ client'.phase \in {"configuration", "configured"}
      /\ client'.shown = {} /\ client'.arrived = client.arrived
  BY <1>1, <1>3, ConfigurationIsReceived
<1>5. \A p \in ToSet(rest) : IsInConfiguration(p)'
  BY <1>2, <1>3, IteratorsInTheSameWorld
<1>6. Configuring'
  BY <1>1, <1>2, <1>3, <1>4, <1>5 DEF Configuring
<1>7. QED
  BY <1>3, <1>4, <1>6, StillInConfiguration

LEMMA SyncInTheConfiguration ==
  ASSUME JoinInv, InConfiguration, PollSync
  PROVE  JoinInv'
<1>1. PICK head, rest : head = Head(producers) /\ rest = Tail(producers)
  OBVIOUS
<1>2. /\ producers # <<>> /\ head.kind = "sync"
      /\ Send(head.packet, Idle, rest) /\ UNCHANGED batchUnchanged
  BY <1>1 DEF PollSync, NextIs
<1>3. IsList(producers) /\ \A p \in ToSet(producers) : IsInConfiguration(p)
  BY DEF InConfiguration, Configuring
<1>4. IsList(rest) /\ head \in ToSet(producers) /\ ToSet(rest) \subseteq ToSet(producers)
  BY <1>1, <1>2, <1>3, HeadAndTail
<1>5. IsConfigurationPacket(head.packet)
  <2>1. IsInConfiguration(head)
    BY <1>3, <1>4
  <2>2. IsRegistryIterator(head) => head.kind = "iterator"
    BY DEF IsRegistryIterator
  <2>3. QED
    BY <1>2, <2>1, <2>2 DEF IsInConfiguration
<1>6. QED
  BY <1>2, <1>4, <1>5, PacketInConfiguration DEF IsConfigurationPacket, ConfigurationNames

LEMMA ItemInTheConfiguration ==
  ASSUME JoinInv, InConfiguration, PollIterator
  PROVE  JoinInv'
<1>1. PICK items : items = current.items
  OBVIOUS
<1>2. /\ current.kind = "iterator" /\ items # <<>>
      /\ Send(Head(items), [current EXCEPT !.items = Tail(@)], producers)
      /\ UNCHANGED batchUnchanged
  BY <1>1 DEF PollIterator
<1>3. current # Idle /\ current.kind # "idle"
  BY <1>2 DEF Idle
<1>4. /\ current = [kind |-> "iterator", items |-> items] /\ IsList(items)
      /\ \A packet \in ToSet(items) : packet.name = "registry_data"
      /\ IsList(producers) /\ player.pvn >= 764
  BY <1>1, <1>3 DEF InConfiguration, Configuring, IsRegistryIterator
<1>5. /\ IsList(Tail(items)) /\ Head(items) \in ToSet(items)
      /\ ToSet(Tail(items)) \subseteq ToSet(items)
  BY <1>2, <1>4, HeadAndTail
<1>6. PICK packet : packet = Head(items) /\ packet.name = "registry_data"
  BY <1>4, <1>5
<1>7. CanEncodePacket(packet, player.pvn)
  <2>1. player.pvn \in 764..775
    BY <1>3, <1>4, SomeoneIsJoining, ReleasesAre
  <2>2. VersionsOf("registry_data") = 764..775
    BY DEF VersionsOf
  <2>3. QED
    BY <1>6, <2>1, <2>2 DEF CanEncodePacket
<1>8. PICK next : next = [current EXCEPT !.items = Tail(@)]
  OBVIOUS
<1>9. next = [kind |-> "iterator", items |-> Tail(items)]
  BY <1>4, <1>8
<1>10. IsRegistryIterator(next)
  BY <1>4, <1>5, <1>9 DEF IsRegistryIterator
<1>11. Send(packet, next, producers)
  BY <1>2, <1>6, <1>8
<1>12. QED
  BY <1>2, <1>3, <1>4, <1>6, <1>7, <1>10, <1>11, PacketInConfiguration DEF ConfigurationNames

\* A step of the configuration that tells the client nothing
LEMMA NothingInConfiguration ==
  ASSUME JoinInv, producers # <<>> \/ current # Idle, InConfiguration,
         UNCHANGED <<client, batchUnchanged>>,
         IsList(producers'), ToSet(producers') \subseteq ToSet(producers),
         current' = Idle \/ IsRegistryIterator(current')
  PROVE  JoinInv'
<1>1. UNCHANGED <<player, client>>
  BY DEF batchUnchanged
<1>2. /\ IsClient(client) /\ client.shown = {} /\ client.arrived = <<>>
      /\ client.phase \in {"configuration", "configured"}
      /\ player.pvn >= 764
      /\ \A p \in ToSet(producers) : IsInConfiguration(p)
  BY SomeoneIsJoining DEF InConfiguration, Configuring
<1>3. \A p \in ToSet(producers') : IsInConfiguration(p)'
  BY <1>1, <1>2, IteratorsInTheSameWorld
<1>4. Configuring'
  BY <1>1, <1>2, <1>3 DEF Configuring
<1>5. IsClient(client)'
  BY <1>1, <1>2 DEF IsClient
<1>6. QED
  BY <1>1, <1>2, <1>4, <1>5, StillInConfiguration

LEMMA NextInTheConfiguration ==
  ASSUME JoinInv, InConfiguration, PollNext
  PROVE  JoinInv'
<1>1. PICK head, rest : head = Head(producers) /\ rest = Tail(producers)
  OBVIOUS
<1>2. /\ producers # <<>> /\ head.kind # "sync"
      /\ current' = head /\ producers' = rest /\ UNCHANGED <<client, batchUnchanged>>
  BY <1>1 DEF PollNext, NextIs
<1>3. IsList(producers) /\ \A p \in ToSet(producers) : IsInConfiguration(p)
  BY DEF InConfiguration, Configuring
<1>4. IsList(rest) /\ head \in ToSet(producers) /\ ToSet(rest) \subseteq ToSet(producers)
  BY <1>1, <1>2, <1>3, HeadAndTail
<1>5. IsRegistryIterator(head)
  BY <1>2, <1>3, <1>4 DEF IsInConfiguration
<1>6. QED
  BY <1>2, <1>4, <1>5, NothingInConfiguration

LEMMA DoneInTheConfiguration ==
  ASSUME JoinInv, InConfiguration, IteratorIsDone
  PROVE  JoinInv'
<1>1. /\ current' = Idle /\ UNCHANGED <<producers, client, batchUnchanged>>
      /\ current.kind \in {"iterator", "chunks"}
  BY DEF IteratorIsDone
<1>2. current # Idle
  BY <1>1 DEF Idle
<1>3. IsList(producers)
  BY DEF InConfiguration, Configuring
<1>4. QED
  BY <1>1, <1>2, <1>3, NothingInConfiguration

-----------------------------------------------------------------------------
(* A batch begins                                                              *)

LEMMA PlayBegins ==
  /\ BatchBegins(producers) /\ current = Idle
  /\ client.shown = {} /\ client.arrived = <<>>
  => Playing /\ ArrivalsAreOrdered
<1> SUFFICES ASSUME BatchBegins(producers), current = Idle,
                    client.shown = {}, client.arrived = <<>>
             PROVE  Playing /\ ArrivalsAreOrdered
  OBVIOUS
<1>1. current.kind = "idle"
  BY DEF Idle
<1>2. IsPlayBatch(producers) /\ GameIsTold /\ PlaceIsTold
  BY DEF BatchBegins, GameIsTold, PlaceIsTold
<1>3. TextsAreTold
  BY DEF BatchBegins, Carries, TextsAreTold
<1>4. ChunksAreTold
  BY <1>1 DEF BatchBegins, ChunksAreTold
<1>5. ArrivalsAreOrdered
  <2>1. PICK arrived : arrived = client.arrived /\ arrived = <<>>
    OBVIOUS
  <2>2. arrived \in Seq(Places) /\ Len(arrived) = 0
    BY <2>1
  <2>3. 1..Len(arrived) = {}
    BY <2>2
  <2>4. NearestFirst(arrived, CenterChunk(server_state))
    BY <2>1, <2>3 DEF NearestFirst
  <2>5. QED
    BY <2>1, <2>2, <2>4 DEF ArrivalsAreOrdered
<1>6. QED
  BY <1>2, <1>3, <1>4, <1>5 DEF Playing

LEMMA ConfigurationBegins ==
  /\ player.pvn \in Releases /\ player.pvn >= 764
  /\ producers = ConfigurationPackets(player) /\ current = Idle
  /\ client.shown = {} /\ client.arrived = <<>>
  => Configuring
<1> SUFFICES ASSUME player.pvn \in Releases, player.pvn >= 764,
                    producers = ConfigurationPackets(player), current = Idle,
                    client.shown = {}, client.arrived = <<>>
             PROVE  Configuring
  OBVIOUS
<1>1. ConfigurationPart(ConfigurationPackets(player))
  BY ConfigurationBatch
<1>2. QED
  BY <1>1 DEF Configuring, ConfigurationPart

LEMMA NothingArrived ==
  client.arrived = <<>> => ArrivalsAreOrdered
<1> SUFFICES ASSUME client.arrived = <<>> PROVE ArrivalsAreOrdered
  OBVIOUS
<1>1. PICK arrived : arrived = client.arrived /\ arrived = <<>>
  OBVIOUS
<1>2. arrived \in Seq(Places) /\ Len(arrived) = 0
  BY <1>1
<1>3. 1..Len(arrived) = {}
  BY <1>2
<1>4. NearestFirst(arrived, CenterChunk(server_state))
  BY <1>1, <1>3 DEF NearestFirst
<1>5. QED
  BY <1>1, <1>2, <1>4 DEF ArrivalsAreOrdered

LEMMA JoiningKeeps ==
  ASSUME JoinInv, PlayerJoins
  PROVE  JoinInv'
<1>1. /\ stage = "serving" /\ player = NoPlayer
      /\ UNCHANGED <<config_file, stage, server_state, world, current>>
  BY DEF PlayerJoins
<1>2. /\ config_file \in Files /\ StateIsBuilt /\ WorldIsBuilt
      /\ producers = <<>> /\ current = Idle /\ client = NewClient
  BY <1>1 DEF JoinInv
<1>3. PICK joining \in PlayersOf(config_file) :
        player' = joining ++ [registries |-> LoadRegistries(joining.pvn)]
  BY DEF PlayerJoins
<1>4. player'.pvn \in Releases
  <2>1. DOMAIN joining = {"pvn", "textures", "uuid_is_nil"} /\ joining.pvn \in Releases
    BY <1>2, <1>3, PlayersAssumption
  <2>2. player'.pvn = joining.pvn
    BY <1>3, <2>1 DEF ++
  <2>3. QED
    BY <2>1, <2>2
<1>5. player' # NoPlayer
  BY <1>4, ReleasesAre DEF NoPlayer
<1>6. config_file' \in Files /\ StateIsBuilt' /\ WorldIsBuilt' /\ stage' = "serving"
  BY <1>1, <1>2 DEF StateIsBuilt, WorldIsBuilt, LoadedSchematic, SchematicFile
<1>7. CASE SupportsConfigurationState(player'.pvn)
  <2>1. producers' = ConfigurationPackets(player')
        /\ client' = [NewClient EXCEPT !.phase = "configuration"]
    BY <1>7 DEF PlayerJoins
  <2>2. /\ IsClient(client)' /\ client'.phase = "configuration"
        /\ client'.shown = {} /\ client'.arrived = <<>>
    BY <2>1 DEF NewClient, IsClient
  <2>3. player'.pvn >= 764
    BY <1>7 DEF SupportsConfigurationState, IsAfterInclusive, V1_20_2
  <2>4. Configuring'
    <3>1. (/\ player.pvn \in Releases /\ player.pvn >= 764
           /\ producers = ConfigurationPackets(player) /\ current = Idle
           /\ client.shown = {} /\ client.arrived = <<>>
           => Configuring)'
      BY ConfigurationBegins, PTL
    <3>2. QED
      BY <1>1, <1>2, <1>4, <2>1, <2>2, <2>3, <3>1
  <2>5. ArrivalsAreOrdered'
    <3>1. (client.arrived = <<>> => ArrivalsAreOrdered)'
      BY NothingArrived, PTL
    <3>2. QED
      BY <2>2, <3>1
  <2>6. QED
    BY <1>4, <1>5, <1>6, <2>2, <2>4, <2>5 DEF JoinInv
<1>8. CASE ~SupportsConfigurationState(player'.pvn)
  <2>1. producers' = PlayPackets(server_state, world, player') /\ client' = client
    BY <1>8 DEF PlayerJoins
  <2>2. /\ IsClient(client)' /\ client'.phase = "none"
        /\ client'.shown = {} /\ client'.arrived = <<>>
    BY <1>2, <2>1 DEF NewClient, IsClient
  <2>3. BatchBegins(producers)'
    <3>1. (config_file \in Files /\ StateIsBuilt /\ player.pvn \in Releases =>
             BatchBegins(PlayPackets(server_state, world, player)))'
      BY BatchOfTheState, PTL
    <3>2. producers' = PlayPackets(server_state', world', player')
      BY <1>1, <2>1
    <3>3. QED
      BY <1>4, <1>6, <3>1, <3>2
  <2>4. Playing' /\ ArrivalsAreOrdered'
    <3>1. (/\ BatchBegins(producers) /\ current = Idle
           /\ client.shown = {} /\ client.arrived = <<>>
           => Playing /\ ArrivalsAreOrdered)'
      BY PlayBegins, PTL
    <3>2. QED
      BY <1>1, <1>2, <2>2, <2>3, <3>1
  <2>5. QED
    BY <1>4, <1>5, <1>6, <2>2, <2>4 DEF JoinInv
<1>9. QED
  BY <1>7, <1>8

LEMMA AcknowledgingKeeps ==
  ASSUME JoinInv, AcknowledgeConfiguration
  PROVE  JoinInv'
<1>1. /\ client.phase = "configured" /\ producers = <<>> /\ current = Idle
      /\ producers' = PlayPackets(server_state, world, player)
      /\ client' = [client EXCEPT !.phase = "acknowledged"]
      /\ UNCHANGED <<config_file, stage, server_state, world, player, current>>
  BY DEF AcknowledgeConfiguration, BatchIsDone, IsIdle
<1>2. player # NoPlayer
  BY <1>1 DEF JoinInv, NewClient
<1>3. /\ stage = "serving" /\ player.pvn \in Releases /\ config_file \in Files
      /\ StateIsBuilt /\ WorldIsBuilt /\ IsClient(client)
  BY <1>2 DEF JoinInv
<1>4. client.shown = {} /\ client.arrived = <<>>
  BY <1>1, <1>2 DEF JoinInv, Configuring
<1>5. SameBut(client', {"phase"}) /\ client'.phase = "acknowledged"
  BY <1>1, <1>3, ChangedPhase
<1>6. IsClient(client)' /\ client'.shown = {} /\ client'.arrived = <<>>
  BY <1>4, <1>5 DEF SameBut, ClientFields
<1>7. config_file' \in Files /\ StateIsBuilt' /\ WorldIsBuilt' /\ stage' = "serving"
  BY <1>1, <1>3 DEF StateIsBuilt, WorldIsBuilt, LoadedSchematic, SchematicFile
<1>8. BatchBegins(producers)'
  <2>1. (config_file \in Files /\ StateIsBuilt /\ player.pvn \in Releases =>
           BatchBegins(PlayPackets(server_state, world, player)))'
    BY BatchOfTheState, PTL
  <2>2. producers' = PlayPackets(server_state', world', player')
    BY <1>1
  <2>3. QED
    BY <1>1, <1>3, <1>7, <2>1, <2>2
<1>9. Playing' /\ ArrivalsAreOrdered'
  <2>1. (/\ BatchBegins(producers) /\ current = Idle
         /\ client.shown = {} /\ client.arrived = <<>>
         => Playing /\ ArrivalsAreOrdered)'
    BY PlayBegins, PTL
  <2>2. QED
    BY <1>1, <1>6, <1>8, <2>1
<1>10. QED
  BY <1>1, <1>2, <1>3, <1>5, <1>6, <1>7, <1>9 DEF JoinInv

-----------------------------------------------------------------------------
(* The limbo starts, makes its world and stops                                 *)

\* While nobody is there, only the file, the state and the world matter.
LEMMA NobodyIsThere ==
  ASSUME JoinInv, stage # "serving"
  PROVE  player = NoPlayer /\ producers = <<>> /\ current = Idle /\ client = NewClient
BY DEF JoinInv

LEMMA StillNobody ==
  ASSUME player = NoPlayer, producers = <<>>, current = Idle, client = NewClient,
         UNCHANGED <<player, producers, current, client>>,
         config_file' \in Files, stage' # "stopped" => StateIsBuilt', WorldIsBuilt'
  PROVE  JoinInv'
<1>1. IsClient(client)'
  BY DEF IsClient, NewClient
<1>2. QED
  BY <1>1 DEF JoinInv, NewClient

LEMMA StartingKeeps ==
  ASSUME JoinInv, Start
  PROVE  JoinInv'
<1>1. PICK file, loaded : file = config_file /\ loaded = LoadOrCreate(file)
  OBVIOUS
<1>2. /\ stage = "stopped" /\ config_file' = loaded.file
      /\ UNCHANGED <<world, player, producers, current, client>>
      /\ \/ /\ CanBuild(loaded.config)
            /\ stage' = "started" /\ server_state' = BuildState(loaded.config)
         \/ stage' = stage /\ server_state' = server_state
  BY <1>1 DEF Start, connectionVars
<1>3. player = NoPlayer /\ producers = <<>> /\ current = Idle /\ client = NewClient
  BY <1>2, NobodyIsThere
<1>4. /\ loaded.config \in {Parsed(loaded.file), DEFAULT_CONFIG}
      /\ SameRules(loaded.config, Parsed(loaded.file))
      /\ loaded.file \in Files
  <2>1. CASE file = <<>>
    <3>1. loaded.config = DEFAULT_CONFIG /\ loaded.file = Written(DEFAULT_CONFIG)
      BY <1>1, <2>1 DEF LoadOrCreate
    <3>2. QED
      BY <3>1, WrittenDefaults DEF Files
  <2>2. CASE file # <<>>
    <3>1. loaded.config = Parsed(file) /\ loaded.file = file
      BY <1>1, <2>2 DEF LoadOrCreate
    <3>2. file \in Files
      BY <1>1 DEF JoinInv
    <3>3. QED
      BY <3>1, <3>2 DEF SameRules
  <2>3. QED
    BY <2>1, <2>2
<1>5. stage' # "stopped" => StateIsBuilt'
  BY <1>2, <1>4 DEF StateIsBuilt
<1>6. WorldIsBuilt'
  BY <1>2 DEF JoinInv, WorldIsBuilt
<1>7. QED
  BY <1>2, <1>3, <1>4, <1>5, <1>6, StillNobody

LEMMA ServingKeeps ==
  ASSUME JoinInv, StartWithoutWorld
  PROVE  JoinInv'
<1>1. /\ stage = "started" /\ stage' = "serving"
      /\ UNCHANGED <<config_file, server_state, world, player, producers, current, client>>
  BY DEF StartWithoutWorld, connectionVars
<1>2. player = NoPlayer /\ producers = <<>> /\ current = Idle /\ client = NewClient
  BY <1>1, NobodyIsThere
<1>3. config_file \in Files /\ StateIsBuilt /\ world = NoWorld
  BY <1>1 DEF JoinInv, WorldIsBuilt
<1>4. config_file' \in Files /\ StateIsBuilt' /\ WorldIsBuilt'
  BY <1>1, <1>3 DEF StateIsBuilt, WorldIsBuilt
<1>5. QED
  BY <1>1, <1>2, <1>4, StillNobody

LEMMA LoadingKeeps ==
  ASSUME JoinInv, LoadWorld
  PROVE  JoinInv'
<1>1. /\ stage = "started" /\ stage' = "sky" /\ HasSchematic(config_file)
      /\ UNCHANGED <<config_file, server_state, player, producers, current, client>>
  BY DEF LoadWorld, connectionVars
<1>2. player = NoPlayer /\ producers = <<>> /\ current = Idle /\ client = NewClient
  BY <1>1, NobodyIsThere
<1>3. PICK schematic, size, sections :
        /\ schematic = LoadedSchematic /\ size = SizeInChunks(schematic)
        /\ world' = [exists |-> TRUE,
                     size_in_chunks |-> size,
                     world_sections |-> sections,
                     block_entities_by_chunk |-> BlockEntitiesByChunk(schematic, size),
                     sky_light_by_chunk |-> <<>>,
                     block_light_by_chunk |-> <<>>]
  BY DEF LoadWorld, LoadedSchematic
<1>4. LoadedSchematic' = LoadedSchematic
  BY <1>1 DEF LoadedSchematic, SchematicFile
<1>5. WorldIsBuilt'
  BY <1>1, <1>3, <1>4 DEF WorldIsBuilt
<1>6. config_file' \in Files /\ StateIsBuilt'
  BY <1>1 DEF JoinInv, StateIsBuilt
<1>7. QED
  BY <1>1, <1>2, <1>5, <1>6, StillNobody

\* Light is kept by the world, which is otherwise the same.
LEMMA LitWorld ==
  ASSUME WorldIsBuilt, stage' \in {"sky", "block", "serving"}, UNCHANGED config_file,
         stage \in {"sky", "block", "serving"}, NEW light,
         \/ world' = [world EXCEPT !.sky_light_by_chunk = light]
         \/ world' = [world EXCEPT !.block_light_by_chunk = light]
  PROVE  WorldIsBuilt'
<1>1. LoadedSchematic' = LoadedSchematic
  BY DEF LoadedSchematic, SchematicFile
<1>2. CASE world = NoWorld
  <2>1. world' = NoWorld
    BY <1>2 DEF NoWorld
  <2>2. QED
    BY <2>1 DEF WorldIsBuilt
<1>3. CASE world # NoWorld
  <2>1. PICK w, size, entities :
          /\ w = world /\ size = SizeInChunks(LoadedSchematic)
          /\ entities = BlockEntitiesByChunk(LoadedSchematic, size)
    OBVIOUS
  <2>2. /\ HasSchematic(config_file)
        /\ w = [exists |-> TRUE,
                size_in_chunks |-> size,
                world_sections |-> w.world_sections,
                block_entities_by_chunk |-> entities,
                sky_light_by_chunk |-> w.sky_light_by_chunk,
                block_light_by_chunk |-> w.block_light_by_chunk]
    BY <1>3, <2>1 DEF WorldIsBuilt
  <2>3. PICK v : v = world'
    OBVIOUS
  <2>4. v = [exists |-> TRUE,
             size_in_chunks |-> size,
             world_sections |-> v.world_sections,
             block_entities_by_chunk |-> entities,
             sky_light_by_chunk |-> v.sky_light_by_chunk,
             block_light_by_chunk |-> v.block_light_by_chunk]
    BY <2>1, <2>2, <2>3
  <2>5. QED
    BY <1>1, <2>1, <2>2, <2>3, <2>4 DEF WorldIsBuilt
<1>4. QED
  BY <1>2, <1>3

LEMMA LightingKeeps ==
  ASSUME JoinInv, SkyLightIsDone \/ BlockLightIsDone
  PROVE  JoinInv'
<1>1. /\ stage \in {"sky", "block"} /\ stage' \in {"block", "serving"}
      /\ UNCHANGED <<config_file, server_state, player, producers, current, client>>
  BY DEF SkyLightIsDone, BlockLightIsDone, connectionVars
<1>2. PICK light : \/ world' = [world EXCEPT !.sky_light_by_chunk = light]
                   \/ world' = [world EXCEPT !.block_light_by_chunk = light]
  BY DEF SkyLightIsDone, BlockLightIsDone
<1>3. player = NoPlayer /\ producers = <<>> /\ current = Idle /\ client = NewClient
  BY <1>1, NobodyIsThere
<1>4. WorldIsBuilt'
  BY <1>1, <1>2, LitWorld DEF JoinInv
<1>5. config_file' \in Files /\ StateIsBuilt'
  BY <1>1 DEF JoinInv, StateIsBuilt
<1>6. QED
  BY <1>1, <1>3, <1>4, <1>5, StillNobody

LEMMA LeavingKeeps ==
  ASSUME JoinInv, PlayerLeaves
  PROVE  JoinInv'
<1>1. /\ player # NoPlayer /\ producers = <<>> /\ current = Idle
      /\ player' = NoPlayer /\ client' = NewClient
      /\ UNCHANGED <<config_file, stage, server_state, world, producers, current>>
  BY DEF PlayerLeaves, BatchIsDone, IsIdle
<1>2. config_file \in Files /\ stage = "serving" /\ StateIsBuilt /\ WorldIsBuilt
  BY <1>1 DEF JoinInv
<1>3. config_file' \in Files /\ StateIsBuilt' /\ WorldIsBuilt'
  BY <1>1, <1>2 DEF StateIsBuilt, WorldIsBuilt, LoadedSchematic, SchematicFile
<1>4. IsClient(client)'
  BY <1>1 DEF IsClient, NewClient
<1>5. QED
  BY <1>1, <1>3, <1>4 DEF JoinInv, NewClient

LEMMA StoppingKeeps ==
  ASSUME JoinInv, Stop
  PROVE  JoinInv'
<1>1. /\ player = NoPlayer /\ stage' = "stopped" /\ world' = NoWorld
      /\ UNCHANGED <<config_file, player, producers, current, client>>
  BY DEF Stop, connectionVars
<1>2. config_file' \in Files /\ WorldIsBuilt'
  BY <1>1 DEF JoinInv, WorldIsBuilt
<1>3. producers = <<>> /\ current = Idle /\ client = NewClient
  BY <1>1 DEF JoinInv
<1>4. QED
  BY <1>1, <1>2, <1>3, StillNobody

LEMMA InitHolds == Init => JoinInv
<1> SUFFICES ASSUME Init PROVE JoinInv
  OBVIOUS
<1>1. IsClient(client)
  BY DEF Init, IsClient, NewClient
<1>2. QED
  BY <1>1 DEF Init, JoinInv, Files, WorldIsBuilt

LEMMA StutteringKeeps ==
  ASSUME JoinInv, UNCHANGED joinVars
  PROVE  JoinInv'
<1>1. UNCHANGED <<config_file, stage, server_state, world, player, producers, current, client>>
  BY DEF joinVars
<1>2. (StateIsBuilt => StateIsBuilt') /\ (IsClient(client) => IsClient(client)')
  BY <1>1 DEF StateIsBuilt, IsClient
<1>3. WorldIsBuilt => WorldIsBuilt'
  BY <1>1 DEF WorldIsBuilt, LoadedSchematic, SchematicFile
<1>4. ArrivalsAreOrdered => ArrivalsAreOrdered'
  BY <1>1 DEF ArrivalsAreOrdered
<1>5. Configuring => Configuring'
  <2>1. \A p : IsInConfiguration(p) => IsInConfiguration(p)'
    BY <1>1, IteratorsInTheSameWorld
  <2>2. QED
    BY <1>1, <2>1 DEF Configuring
<1>6. Playing => Playing'
  <2>1. SUFFICES ASSUME Playing PROVE Playing'
    OBVIOUS
  <2>2. IsPlayBatch(producers')
    BY <1>1, <2>1 DEF Playing
  <2>3. IsPlayBatch(producers)' /\ GameIsTold' /\ TextsAreTold' /\ PlaceIsTold'
    BY <1>1, <2>1, <2>2, NothingIsTold
  <2>4. IsChunkIterator(current) => IsChunkIterator(current)'
    BY <1>1, TheSameWorld
  <2>5. ChunksAreTold'
    BY <1>1, <2>1, <2>4 DEF Playing, ChunksAreTold
  <2>6. QED
    BY <1>1, <2>1, <2>3, <2>5 DEF Playing
<1>7. Lost => Lost'
  BY <1>1 DEF Lost, BatchIsDone, IsIdle, ShowsTheSchematic, SchematicFile
<1>8. QED
  BY <1>1, <1>2, <1>3, <1>4, <1>5, <1>6, <1>7 DEF JoinInv

-----------------------------------------------------------------------------
(* What the invariant says                                                     *)

\* Of a player whose batch of the play state is done
LEMMA PlayIsDone ==
  ASSUME JoinInv, client.phase = "play", BatchIsDone
  PROVE  /\ StateIsRight(server_state, Parsed(config_file))
         /\ RulesHaveTypes(Parsed(config_file))
         /\ player.pvn \in Int
         /\ LoginIsTold /\ AbilitiesSay(client.abilities) /\ TimeSays(client.time_advances)
         /\ client.shown = ExpectedTexts(player.pvn)
         /\ player.pvn >= 735 =>
              AllArrived(client.arrived, CenterChunk(server_state), server_state.view_distance)
<1>1. player # NoPlayer
  BY DEF JoinInv, NewClient
<1>2. /\ config_file \in Files /\ StateIsBuilt /\ player.pvn \in Releases
      /\ Playing
  BY <1>1 DEF JoinInv
<1>3. producers = <<>> /\ current.kind = "idle"
  BY DEF BatchIsDone, IsIdle, Idle
<1>4. LoginIsTold /\ AbilitiesSay(client.abilities) /\ TimeSays(client.time_advances)
  BY <1>2, <1>3, NothingComes DEF Playing, GameIsTold
<1>5. client.shown = ExpectedTexts(player.pvn)
  BY <1>2, <1>3, NothingComes DEF Playing, TextsAreTold
<1>6. player.pvn >= 735 =>
        AllArrived(client.arrived, CenterChunk(server_state), server_state.view_distance)
  BY <1>2, <1>3, NothingComes DEF Playing, ChunksAreTold
<1>7. StateIsRight(server_state, Parsed(config_file)) /\ RulesHaveTypes(Parsed(config_file))
  BY <1>2, ServerStateIsRight
<1>8. QED
  BY <1>2, <1>4, <1>5, <1>6, <1>7, ReleasesAre

LEMMA PacketsAreSent == JoinInv => EveryPacketIsSent
<1> SUFFICES ASSUME JoinInv PROVE EveryPacketIsSent
  OBVIOUS
<1>1. CASE client.phase = "lost"
  <2>1. player # NoPlayer
    BY <1>1 DEF JoinInv, NewClient
  <2>2. Lost
    BY <1>1, <2>1 DEF JoinInv
  <2>3. QED
    BY <1>1, <2>2 DEF Lost, EveryPacketIsSent
<1>2. CASE client.phase # "lost"
  BY <1>2, PlayIsDone DEF EveryPacketIsSent
<1>3. QED
  BY <1>1, <1>2

LEMMA RulesArrive == JoinInv => RulesAreKept
<1> SUFFICES ASSUME JoinInv, client.phase = "play", BatchIsDone
             PROVE  RulesAreKept
  BY DEF RulesAreKept
<1>1. PICK configured : configured = Parsed(config_file)
  OBVIOUS
<1>2. PICK mode : mode = GameMode(server_state, player.pvn)
  OBVIOUS
<1>3. /\ StateIsRight(server_state, configured) /\ RulesHaveTypes(configured)
      /\ LoginIsTold /\ AbilitiesSay(client.abilities) /\ TimeSays(client.time_advances)
  BY <1>1, PlayIsDone
<1>4. mode = IF player.pvn <= 5 /\ configured.default_game_mode = "spectator" THEN "creative"
             ELSE configured.default_game_mode
  BY <1>2, <1>3 DEF GameMode, StateIsRight
<1>5. /\ client.login.game_mode = GameModeValue(mode)
      /\ client.login.hardcore = configured.hardcore
      /\ player.pvn >= 477 /\ configured.view_distance >= 0 =>
           client.login.view_distance = configured.view_distance
      /\ player.pvn >= 47 => client.login.reduced_debug_info = configured.reduced_debug_info
  BY <1>2, <1>3 DEF LoginIsTold, StateIsRight, RulesHaveTypes
<1>6. /\ ("flying" \in client.abilities) = (mode = "spectator")
      /\ ("may_fly" \in client.abilities) = (configured.allow_flight \/ mode = "spectator")
      /\ ("creative" \in client.abilities) = (mode = "creative")
  BY <1>2, <1>3 DEF AbilitiesSay, StateIsRight, RulesHaveTypes
<1>7. player.pvn >= 768 => client.time_advances = ~configured.lock_time
  BY <1>3 DEF TimeSays, StateIsRight
<1>8. QED
  BY <1>1, <1>4, <1>5, <1>6, <1>7 DEF RulesAreKept

LEMMA AreasAreCounted ==
  ASSUME NEW radius \in Nat
  PROVE  (2 * radius + 1) * (2 * radius + 1) > 0
<1>1. PICK side \in Nat : side = 2 * radius + 1 /\ side >= 1
  OBVIOUS
<1>2. side * side >= 1
  BY <1>1
<1>3. QED
  BY <1>1, <1>2

LEMMA ChunksArrive == JoinInv => ChunksArriveNearestFirst
<1> SUFFICES ASSUME JoinInv PROVE ChunksArriveNearestFirst
  OBVIOUS
<1>1. CASE player = NoPlayer
  <2>1. client.arrived = <<>> /\ client.phase = "none"
    BY <1>1 DEF JoinInv, NewClient
  <2>2. DOMAIN client.arrived = {}
    BY <2>1
  <2>3. QED
    BY <2>1, <2>2 DEF ChunksArriveNearestFirst
<1>2. CASE player # NoPlayer
  <2>1. PICK arrived, center, configured :
          /\ arrived = client.arrived /\ center = CenterChunk(server_state)
          /\ configured = Parsed(config_file)
    OBVIOUS
  <2>2. /\ arrived \in Seq(Places)
        /\ NearestFirst(arrived, center)
        /\ arrived # <<>> =>
             /\ player.pvn >= 759 => client.center = center
             /\ player.pvn >= 765 => client.waits_for_chunks
    BY <1>2, <2>1 DEF JoinInv, ArrivalsAreOrdered
  <2>3. StateIsRight(server_state, configured) /\ RulesHaveTypes(configured)
    BY <1>2, <2>1, ServerStateIsRight DEF JoinInv
  <2>4. IsChunkOf(center, configured.spawn_position)
    <3>1. /\ server_state.spawn_position \in Int \X Int \X Int
          /\ server_state.spawn_position = configured.spawn_position
      BY <2>3 DEF StateIsRight, RulesHaveTypes
    <3>2. QED
      BY <2>1, <3>1, CenterIsAPlace
  <2>5. arrived # <<>> => arrived[1] = center
    BY <2>2 DEF NearestFirst
  <2>6. DOMAIN arrived = 1..Len(arrived) /\ Len(arrived) \in Nat
    BY <2>2, LenProperties
  <2>7. ASSUME NEW i \in DOMAIN arrived, NEW j \in DOMAIN arrived, i < j
        PROVE  /\ arrived[i] # arrived[j]
               /\ Distance(arrived[i], arrived[1]) <= Distance(arrived[j], arrived[1])
    <3>1. arrived[1] = center
      BY <2>5, <2>6, <2>7
    <3>2. QED
      BY <2>2, <2>6, <2>7, <3>1 DEF NearestFirst
  <2>8. PICK distance \in Nat :
          /\ distance = IF configured.view_distance < 0 THEN 0 ELSE configured.view_distance
          /\ distance = server_state.view_distance
    BY <2>3 DEF StateIsRight, RulesHaveTypes
  <2>9. client.phase = "play" /\ BatchIsDone /\ player.pvn >= 735 =>
          /\ Len(arrived) = (2 * distance + 1) * (2 * distance + 1)
          /\ Distance(Last(arrived), arrived[1]) = distance
    <3>1. SUFFICES ASSUME client.phase = "play", BatchIsDone, player.pvn >= 735
                   PROVE  /\ Len(arrived) = (2 * distance + 1) * (2 * distance + 1)
                          /\ Distance(Last(arrived), arrived[1]) = distance
      OBVIOUS
    <3>2. AllArrived(arrived, center, distance)
      BY <2>1, <2>8, <3>1, PlayIsDone
    <3>3. Len(arrived) = (2 * distance + 1) * (2 * distance + 1)
      BY <3>2 DEF AllArrived
    <3>4. Len(arrived) > 0
      BY <3>3, AreasAreCounted
    <3>5. arrived[1] = center
      BY <2>2, <2>5, <3>4, EmptySeq
    <3>6. QED
      BY <3>2, <3>3, <3>5 DEF AllArrived
  <2>10. QED
    BY <2>1, <2>2, <2>4, <2>5, <2>7, <2>8, <2>9 DEF ChunksArriveNearestFirst
<1>3. QED
  BY <1>1, <1>2

-----------------------------------------------------------------------------
LEMMA EveryStepKeeps == JoinInv /\ [Next]_vars => JoinInv'
<1> SUFFICES ASSUME JoinInv, [Next]_vars PROVE JoinInv'
  OBVIOUS
<1>1. CASE PollSync
  <2>1. producers # <<>>
    BY <1>1 DEF PollSync, NextIs
  <2>2. QED
    BY <1>1, <2>1, SomeoneIsJoining, SyncInPlay, SyncInTheConfiguration
<1>2. CASE PollNext
  <2>1. producers # <<>>
    BY <1>2 DEF PollNext, NextIs
  <2>2. QED
    BY <1>2, <2>1, SomeoneIsJoining, NextInPlay, NextInTheConfiguration
<1>3. CASE FutureIsReady
  <2>1. current # Idle /\ ~InConfiguration
    BY <1>3 DEF FutureIsReady, Idle, InConfiguration, Configuring, IsRegistryIterator
  <2>2. QED
    BY <1>3, <2>1, SomeoneIsJoining, FutureInPlay
<1>4. CASE PollIterator
  <2>1. current # Idle /\ ~InPlay
    BY <1>4 DEF PollIterator, Idle, InPlay, Playing
  <2>2. QED
    BY <1>4, <2>1, SomeoneIsJoining, ItemInTheConfiguration
<1>5. CASE PollChunks
  <2>1. current # Idle /\ ~InConfiguration
    BY <1>5 DEF PollChunks, Idle, InConfiguration, Configuring, IsRegistryIterator
  <2>2. QED
    BY <1>5, <2>1, SomeoneIsJoining, ChunksInPlay
<1>6. CASE IteratorIsDone
  <2>1. current # Idle
    BY <1>6 DEF IteratorIsDone, Idle
  <2>2. QED
    BY <1>6, <2>1, SomeoneIsJoining, DoneInPlay, DoneInTheConfiguration
<1>7. CASE PropagateLight
  BY <1>7, StutteringKeeps DEF PropagateLight
<1>8. CASE UNCHANGED vars
  BY <1>8, StutteringKeeps DEF vars
<1>9. QED
  BY <1>1, <1>2, <1>3, <1>4, <1>5, <1>6, <1>7, <1>8, StartingKeeps, ServingKeeps, LoadingKeeps,
     LightingKeeps, JoiningKeeps, AcknowledgingKeeps, LeavingKeeps, StoppingKeeps
  DEF Next

LEMMA JoinInvariant == Spec => []JoinInv
<1>1. Init => JoinInv
  BY InitHolds
<1>2. JoinInv /\ [Next]_vars => JoinInv'
  BY EveryStepKeeps
<1>3. QED
  BY <1>1, <1>2, PTL DEF Spec

\* Chunks come in a spiral from the one of the spawn position (SpiralIterator), each
\* once, nearer ones before farther ones, after the packets that tell a client where its
\* center is and to wait, and, unless the batch is lost, until the whole square within the
\* view distance has arrived: at any position and view distance.
THEOREM ChunksComeNearestFirst == Spec => []ChunksArriveNearestFirst
<1>1. JoinInv => ChunksArriveNearestFirst
  BY ChunksArrive
<1>2. QED
  BY <1>1, JoinInvariant, PTL

\* Every packet of a join can be encoded for the player's version and every text of the
\* configuration is shown once the batch is done, each in its place (batch.rs, network.rs);
\* only the data of a block entity can lose a version before 1.21.5 the rest of its batch.
THEOREM PacketsOfAJoinAreSent == Spec => []EveryPacketIsSent
<1>1. JoinInv => EveryPacketIsSent
  BY PacketsAreSent
<1>2. QED
  BY <1>1, JoinInvariant, PTL

\* What a client is told of the game once its batch is done is what the configuration file
\* says, in the form of its version (login_start.rs, play packets): no packet that comes
\* later, and no other default, changes it.
THEOREM RulesOfTheFileAreKept == Spec => []RulesAreKept
<1>1. JoinInv => RulesAreKept
  BY RulesArrive
<1>2. QED
  BY <1>1, JoinInvariant, PTL

-----------------------------------------------------------------------------
(* The light of the world                                                      *)

HasLight(data) == data.transparent \in BOOLEAN /\ data.light \in 0..MaxLight

LEMMA DataHaveLight ==
  ASSUME NEW id, NEW name
  PROVE  HasLight(StateData(id, name))
<1>1. StateData(id, name).transparent \in BOOLEAN
  BY DEF StateData
<1>2. StateData(id, name).light \in 0..MaxLight
  <2>1. CASE name \in DOMAIN LightEmittingBlocks
    <3>1. PICK level \in 0..MaxLight : level = LightEmittingBlocks[name]
      BY <2>1, LevelsAssumption
    <3>2. level \in Nat /\ level % 16 \in 0..level
      BY <3>1, MaxLightAssumption
    <3>3. level % 16 \in 0..MaxLight
      BY <3>1, <3>2, MaxLightAssumption
    <3>4. StateData(id, name).light = level % 16
      BY <2>1, <3>1 DEF StateData
    <3>5. QED
      BY <3>3, <3>4
  <2>2. CASE name \notin DOMAIN LightEmittingBlocks
    BY <2>2, MaxLightAssumption DEF StateData
  <2>3. QED
    BY <2>1, <2>2
<1>3. QED
  BY <1>1, <1>2 DEF HasLight

LEMMA KnownStatesHaveLight ==
  ASSUME NEW block, IsKnownState(InternalMapping, block)
  PROVE  HasLight(ParseStateString(InternalMapping, block))
<1> DEFINE name == block.name
           states == InternalMapping[name]
<1>1. name \in DOMAIN InternalMapping
  BY DEF IsKnownState
<1>2. /\ \E id : states.default_state_data = StateData(id, name)
      /\ \A s \in states.states : \E id : s.state_data = StateData(id, name)
  BY <1>1 DEF InternalMapping
<1>3. /\ HasLight(states.default_state_data)
      /\ \A s \in states.states : HasLight(s.state_data)
  BY <1>2, DataHaveLight
<1> HIDE DEF states
<1>4. CASE block.properties = NoProperties
  BY <1>3, <1>4 DEF ParseStateString, states
<1>5. CASE block.properties # NoProperties
  <2>1. \E s \in states.states : s.properties = block.properties
    BY <1>5 DEF IsKnownState, states
  <2>2. PICK s \in states.states :
          ParseStateString(InternalMapping, block) = s.state_data
    BY <1>5, <2>1 DEF ParseStateString, states
  <2>3. QED
    BY <1>3, <2>2
<1>6. QED
  BY <1>4, <1>5

LEMMA IndexesAreNumbers ==
  ASSUME NEW w \in Nat, NEW l \in Nat, NEW x \in Nat, NEW y \in Nat, NEW z \in Nat
  PROVE  y * l * w + z * w + x \in Nat
<1>1. y * l \in Nat /\ z * w \in Nat
  OBVIOUS
<1>2. PICK a \in Nat : a = y * l
  BY <1>1
<1>3. a * w \in Nat
  OBVIOUS
<1>4. y * l * w = a * w
  BY <1>2
<1>5. QED
  BY <1>1, <1>3, <1>4

\* Every block of a schematic that loads has a level of light and lets light pass or not.
LEMMA BlocksHaveLight ==
  ASSUME NEW path \in DOMAIN SchematicFiles, Loads(SchematicFiles[path]),
         NEW schematic, schematic = LoadSchematic(SchematicFiles[path], InternalMapping),
         NEW x, NEW y, NEW z
  PROVE  HasLight(BlockState(schematic, x, y, z))
<1> DEFINE file == SchematicFiles[path]
           ids == 0..BlockPaletteMax(file)
           index == PositionToIndex(schematic, x, y, z)
<1>1. /\ {file.width, file.height, file.length} \subseteq Nat
      /\ IsKnownState(InternalMapping, AIR_IDENTIFIER)
      /\ AirPaletteIndex(file) \in ids
      /\ VarInts[file.data] \in Seq(ids)
  BY SchematicsAssumption
<1>2. /\ schematic.dimensions = <<file.width, file.height, file.length>>
      /\ schematic.palette = LoadPalette(file, InternalMapping)
      /\ schematic.block_data = VarInts[file.data]
      /\ schematic.air_palette_index = AirPaletteIndex(file)
  BY DEF LoadSchematic
<1>3. \A id \in ids : HasLight(schematic.palette[id])
  <2> SUFFICES ASSUME NEW id \in ids PROVE HasLight(schematic.palette[id])
    OBVIOUS
  <2> DEFINE Known == {b \in DOMAIN file.palette :
                         file.palette[b] = id /\ IsKnownState(InternalMapping, b)}
  <2>1. schematic.palette[id] = IF Known = {} THEN ParseStateString(InternalMapping, AIR_IDENTIFIER)
                                ELSE ParseStateString(InternalMapping, CHOOSE b \in Known : TRUE)
    BY <1>2 DEF LoadPalette
  <2>2. Known # {} => IsKnownState(InternalMapping, CHOOSE b \in Known : TRUE)
    <3>1. Known # {} => (CHOOSE b \in Known : TRUE) \in Known
      OBVIOUS
    <3>2. \A b \in Known : IsKnownState(InternalMapping, b)
      OBVIOUS
    <3>3. QED
      BY <3>1, <3>2
  <2>3. QED
    BY <1>1, <2>1, <2>2, KnownStatesHaveLight
<1> HIDE DEF file
<1>4. CASE IsOutOfBounds(schematic, x, y, z) \/ index >= Len(schematic.block_data)
  BY <1>1, <1>2, <1>3, <1>4 DEF BlockState
<1>5. CASE ~(IsOutOfBounds(schematic, x, y, z) \/ index >= Len(schematic.block_data))
  <2>1. x \in Nat /\ y \in Nat /\ z \in Nat
    BY <1>1, <1>2, <1>5 DEF IsOutOfBounds
  <2>2. index \in Nat
    <3>1. PICK w \in Nat, l \in Nat : w = file.width /\ l = file.length
      BY <1>1
    <3>2. index = y * l * w + z * w + x
      BY <1>2, <3>1 DEF PositionToIndex
    <3>3. QED
      BY <2>1, <3>1, <3>2, IndexesAreNumbers
  <2>3. Len(schematic.block_data) \in Nat
    BY <1>1, <1>2
  <2>4. index + 1 \in 1..Len(schematic.block_data)
    BY <1>5, <2>2, <2>3
  <2>5. schematic.block_data[index + 1] \in ids
    <3>1. PICK T, data : T = ids /\ data = schematic.block_data /\ data \in Seq(T)
      BY <1>1, <1>2
    <3>2. data[index + 1] \in T
      BY <2>4, <3>1, ElementOfSeq
    <3>3. QED
      BY <3>1, <3>2
  <2>6. BlockState(schematic, x, y, z) = schematic.palette[schematic.block_data[index + 1]]
    BY <1>5 DEF BlockState
  <2>7. QED
    BY <1>3, <2>5, <2>6
<1>6. QED
  BY <1>4, <1>5

\* The schematic of the file, when the state is built
LEMMA SchematicIsThere ==
  ASSUME JoinInv, stage # "stopped", HasSchematic(config_file)
  PROVE  \E path \in DOMAIN SchematicFiles :
           /\ Loads(SchematicFiles[path])
           /\ SchematicFile = SchematicFiles[path]
<1>1. PICK config \in {Parsed(config_file), DEFAULT_CONFIG} :
        CanBuild(config) /\ SameRules(config, Parsed(config_file))
  BY DEF JoinInv, StateIsBuilt
<1>2. "schematic_file" \in DOMAIN DEFAULT_CONFIG \ MODAL_KEYS
  BY DEF DEFAULT_CONFIG, MODAL_KEYS
<1>3. config.schematic_file = Parsed(config_file).schematic_file
  <2>1. config["schematic_file"] = Parsed(config_file)["schematic_file"]
    BY <1>1, <1>2 DEF SameRules
  <2>2. QED
    BY <2>1
<1>4. QED
  BY <1>1, <1>3 DEF CanBuild, HasSchematic, SchematicFile

\* Chunks of a schematic, in each direction
LEMMA SizesAreNumbers ==
  ASSUME NEW path \in DOMAIN SchematicFiles, Loads(SchematicFiles[path]),
         NEW schematic, schematic = LoadSchematic(SchematicFiles[path], InternalMapping)
  PROVE  SizeInChunks(schematic) \in [1..3 -> Nat]
<1> DEFINE file == SchematicFiles[path]
<1>1. S \in Nat \ {0}
  BY SectionAssumption DEF S
<1>2. \A n \in Nat : (n + S - 1) \div S \in Nat
  BY <1>1
<1>3. {file.width, file.height, file.length} \subseteq Nat
  BY SchematicsAssumption
<1>4. schematic.dimensions = <<file.width, file.height, file.length>>
  BY DEF LoadSchematic
<1>5. \A i \in 1..3 : schematic.dimensions[i] \in Nat
  BY <1>3, <1>4
<1>6. QED
  BY <1>2, <1>5 DEF SizeInChunks

-----------------------------------------------------------------------------
(* What the light of the world is as it is propagated                          *)

\* There is no cell to light: no world, or one of a schematic without blocks.
NothingIsLit == Cells = {} /\ queue = <<>> /\ entry = NoEntry

WorldLightInv ==
  /\ LightInv \/ NothingIsLit
  /\ stage = "sky" =>
       /\ transparent \in [Cells -> BOOLEAN]
       /\ volumes.block \in [Cells -> 0..MaxLight]
       /\ \E size \in [1..3 -> Nat] : Cells = VolumeCells(size)

\* Light is propagated from a volume.
Begins(volume) ==
  /\ transparent \in [DOMAIN volume -> BOOLEAN]
  /\ sources = volume
  /\ light_volume = volume
  /\ queue = InitialQueue(volume)
  /\ entry = NoEntry

LEMMA VolumesAreBoxes ==
  ASSUME NEW size \in [1..3 -> Nat], NEW volume \in [VolumeCells(size) -> 0..MaxLight]
  PROVE  volume \in Volumes \/ DOMAIN volume = {}
<1>1. S \in Nat \ {0}
  BY SectionAssumption DEF S
<1>2. CASE \E i \in 1..3 : size[i] = 0
  <2>1. VolumeCells(size) = {}
    <3>1. 0 * S - 1 = -1 /\ 0..(-1) = {}
      BY <1>1
    <3>2. QED
      BY <1>2, <3>1 DEF VolumeCells
  <2>2. QED
    BY <2>1
<1>3. CASE ~\E i \in 1..3 : size[i] = 0
  <2> DEFINE s == <<size[1] * S - 1, size[2] * S - 1, size[3] * S - 1>>
  <2>1. ASSUME NEW n \in Nat, n # 0 PROVE n * S - 1 \in Nat
    <3>1. n * S \in Nat /\ n * S # 0
      BY <1>1, <2>1
    <3>2. QED
      BY <3>1
  <2>2. s \in Nat \X Nat \X Nat
    BY <1>3, <2>1
  <2>3. volume \in [(0..s[1]) \X (0..s[2]) \X (0..s[3]) -> 0..MaxLight]
    BY DEF VolumeCells
  <2> HIDE DEF s
  <2>4. QED
    BY <2>2, <2>3 DEF Volumes
<1>4. QED
  BY <1>2, <1>3

LEMMA NoQueue ==
  ASSUME NEW volume, DOMAIN volume = {}
  PROVE  InitialQueue(volume) = <<>>
<1>1. Lit(volume) = {}
  BY DEF Lit
<1>2. Cardinality({}) = 0
  BY FS_EmptySet
<1>3. 1..Cardinality(Lit(volume)) = {}
  BY <1>1, <1>2
<1> HIDE DEF Lit
<1>4. QED
  BY <1>3 DEF InitialQueue

LEMMA LightBegins ==
  ASSUME NEW volume, Begins(volume), volume \in Volumes \/ DOMAIN volume = {}
  PROVE  LightInv \/ NothingIsLit
<1>1. CASE volume \in Volumes
  BY <1>1, LightStart DEF LightInit, Begins, Cells
<1>2. CASE DOMAIN volume = {}
  BY <1>2, NoQueue DEF Begins, NothingIsLit, Cells
<1>3. QED
  BY <1>1, <1>2

\* Nothing happens to the light of the world.
LEMMA LightRests ==
  ASSUME WorldLightInv, UNCHANGED lightVars, stage' = "sky" => stage = "sky" /\ volumes' = volumes
  PROVE  WorldLightInv'
<1>1. /\ transparent' = transparent /\ sources' = sources /\ light_volume' = light_volume
      /\ queue' = queue /\ entry' = entry /\ Cells' = Cells
  BY DEF lightVars, Cells
<1>2. LightInv => LightInv'
  BY LightSteps
<1>3. NothingIsLit => NothingIsLit'
  BY <1>1 DEF NothingIsLit
<1>4. QED
  BY <1>1, <1>2, <1>3 DEF WorldLightInv

LEMMA NoLightAtAll ==
  ASSUME ForgetLight, stage' # "sky"
  PROVE  WorldLightInv'
<1>1. DOMAIN <<>> = {}
  OBVIOUS
<1>2. NothingIsLit'
  BY <1>1 DEF ForgetLight, NothingIsLit, Cells
<1>3. QED
  BY <1>2 DEF WorldLightInv

LEMMA LightIsPropagated ==
  ASSUME WorldLightInv, PropagateLight
  PROVE  WorldLightInv'
<1>1. Propagate /\ stage' = stage /\ volumes' = volumes
  BY DEF PropagateLight, joinVars
<1>2. LightInv
  <2>1. ~NothingIsLit
    BY <1>1 DEF NothingIsLit, NoEntry, Propagate, ReadEntry, CheckDirection
  <2>2. QED
    BY <2>1 DEF WorldLightInv
<1>3. LightInv'
  BY <1>1, <1>2, LightSteps
<1>4. transparent' = transparent
  BY <1>1 DEF Propagate, ReadEntry, CheckDirection
<1>5. Cells' = Cells
  <2>1. light_volume \in [Cells -> 0..MaxLight]
    BY <1>2 DEF LightInv, LightTypeOK
  <2>2. CASE light_volume' = light_volume
    BY <2>2 DEF Cells
  <2>3. CASE light_volume' # light_volume
    <3>1. \E n, level : light_volume' = [light_volume EXCEPT ![n] = level]
      BY <1>1, <2>3 DEF Propagate, ReadEntry, CheckDirection
    <3>2. QED
      BY <2>1, <3>1 DEF Cells
  <2>4. QED
    BY <2>2, <2>3
<1>6. QED
  BY <1>1, <1>3, <1>4, <1>5 DEF WorldLightInv

\* A volume of light after a step
LEMMA LightHasBegun ==
  ASSUME NEW volume, volume \in Volumes \/ DOMAIN volume = {},
         transparent' \in [DOMAIN volume -> BOOLEAN],
         StartPropagation(volume)
  PROVE  (LightInv \/ NothingIsLit)'
<1>1. /\ sources' = volume /\ light_volume' = volume /\ queue' = InitialQueue(volume)
      /\ entry' = NoEntry /\ Cells' = DOMAIN volume
  BY DEF StartPropagation, Cells
<1>2. CASE volume \in Volumes
  <2>1. LightInit'
    BY <1>1, <1>2 DEF LightInit
  <2>2. LightInit' => LightInv'
    BY LightStart, PTL
  <2>3. QED
    BY <2>1, <2>2
<1>3. CASE DOMAIN volume = {}
  BY <1>1, <1>3, NoQueue DEF NothingIsLit
<1>4. QED
  BY <1>2, <1>3

LEMMA WorldIsLit ==
  ASSUME JoinInv, LoadWorld
  PROVE  WorldLightInv'
<1>1. /\ stage = "started" /\ HasSchematic(config_file)
  BY DEF LoadWorld
<1>2. PICK path \in DOMAIN SchematicFiles :
        Loads(SchematicFiles[path]) /\ SchematicFile = SchematicFiles[path]
  BY <1>1, SchematicIsThere
<1>3. PICK schematic : schematic = LoadSchematic(SchematicFile, InternalMapping)
  OBVIOUS
<1>4. PICK size : size = SizeInChunks(schematic)
  OBVIOUS
<1>5. size \in [1..3 -> Nat]
  BY <1>2, <1>3, <1>4, SizesAreNumbers
<1>6. /\ transparent' = Transparency(schematic, size)
      /\ volumes' = [sky |-> SkyLightSources(Transparency(schematic, size)),
                     block |-> BlockLightSources(schematic, size)]
      /\ StartPropagation(volumes'.sky)
  BY <1>3, <1>4 DEF LoadWorld
<1>7. \A x, y, z : HasLight(BlockState(schematic, x, y, z))
  BY <1>2, <1>3, BlocksHaveLight
<1>8. Transparency(schematic, size) \in [VolumeCells(size) -> BOOLEAN]
  BY <1>7 DEF Transparency, HasLight
<1>9. BlockLightSources(schematic, size) \in [VolumeCells(size) -> 0..MaxLight]
  BY <1>7 DEF BlockLightSources, HasLight
<1>10. SkyLightSources(Transparency(schematic, size)) \in [VolumeCells(size) -> 0..MaxLight]
  <2>1. 0 \in 0..MaxLight /\ MaxLight \in 0..MaxLight
    BY MaxLightAssumption
  <2>2. DOMAIN Transparency(schematic, size) = VolumeCells(size)
    BY <1>8
  <2>3. QED
    BY <2>1, <2>2 DEF SkyLightSources
<1>11. PICK sky, block :
         /\ sky = SkyLightSources(Transparency(schematic, size))
         /\ block = BlockLightSources(schematic, size)
  OBVIOUS
<1>12. /\ volumes'.sky = sky /\ volumes'.block = block
       /\ sky \in [VolumeCells(size) -> 0..MaxLight] /\ block \in [VolumeCells(size) -> 0..MaxLight]
       /\ transparent' \in [VolumeCells(size) -> BOOLEAN]
       /\ StartPropagation(sky)
  BY <1>6, <1>8, <1>9, <1>10, <1>11
<1>13. DOMAIN sky = VolumeCells(size) /\ Cells' = VolumeCells(size)
  BY <1>12 DEF StartPropagation, Cells
<1>14. sky \in Volumes \/ DOMAIN sky = {}
  BY <1>5, <1>12, VolumesAreBoxes
<1>15. (LightInv \/ NothingIsLit)'
  BY <1>12, <1>13, <1>14, LightHasBegun
<1>16. QED
  BY <1>5, <1>12, <1>13, <1>15 DEF WorldLightInv

LEMMA SkyIsDone ==
  ASSUME WorldLightInv, SkyLightIsDone
  PROVE  WorldLightInv'
<1>1. PICK size, block :
        /\ size \in [1..3 -> Nat]
        /\ block = volumes.block /\ Cells = VolumeCells(size)
        /\ transparent \in [VolumeCells(size) -> BOOLEAN]
        /\ block \in [VolumeCells(size) -> 0..MaxLight]
  BY DEF WorldLightInv, SkyLightIsDone
<1>2. /\ StartPropagation(block) /\ transparent' = transparent /\ stage' = "block"
  BY <1>1 DEF SkyLightIsDone
<1>3. block \in Volumes \/ DOMAIN block = {}
  BY <1>1, VolumesAreBoxes
<1>4. (LightInv \/ NothingIsLit)'
  BY <1>1, <1>2, <1>3, LightHasBegun
<1>5. QED
  BY <1>2, <1>4 DEF WorldLightInv

LEMMA EveryStepKeepsLight == JoinInv /\ WorldLightInv /\ [Next]_vars => WorldLightInv'
<1> SUFFICES ASSUME JoinInv, WorldLightInv, [Next]_vars PROVE WorldLightInv'
  OBVIOUS
<1>1. CASE Start
  BY <1>1, LightRests DEF Start
<1>2. CASE StartWithoutWorld
  BY <1>2, LightRests DEF StartWithoutWorld
<1>3. CASE PlayerJoins
  BY <1>3, LightRests DEF PlayerJoins
<1>4. CASE AcknowledgeConfiguration
  BY <1>4, LightRests DEF AcknowledgeConfiguration
<1>5. CASE PollSync \/ PollNext \/ FutureIsReady \/ PollIterator \/ PollChunks \/ IteratorIsDone
  <2>1. UNCHANGED batchUnchanged
    BY <1>5 DEF PollSync, PollNext, FutureIsReady, PollIterator, PollChunks, IteratorIsDone
  <2>2. QED
    BY <2>1, LightRests DEF batchUnchanged
<1>6. CASE PlayerLeaves
  BY <1>6, LightRests DEF PlayerLeaves
<1>7. CASE UNCHANGED vars
  BY <1>7, LightRests DEF vars, joinVars
<1>8. CASE BlockLightIsDone
  BY <1>8, NoLightAtAll DEF BlockLightIsDone
<1>9. CASE Stop
  BY <1>9, NoLightAtAll DEF Stop
<1>10. QED
  BY <1>1, <1>2, <1>3, <1>4, <1>5, <1>6, <1>7, <1>8, <1>9, WorldIsLit, SkyIsDone, LightIsPropagated
  DEF Next

\* The light of a schematic's world is exact when its propagation ends, of the sky as
\* of the blocks, whatever the schematic and its size (from_schematic of world.rs and
\* propagate_light_starlight): no cell is brighter or darker than the sources make it.
THEOREM LightOfTheWorldIsExact == Spec => []LightIsExact
<1>1. Init => WorldLightInv
  <2> SUFFICES ASSUME Init PROVE WorldLightInv
    OBVIOUS
  <2>1. DOMAIN <<>> = {}
    OBVIOUS
  <2>2. NothingIsLit
    BY <2>1 DEF Init, NoLightVolume, NothingIsLit, Cells
  <2>3. QED
    BY <2>2 DEF Init, WorldLightInv
<1>2. JoinInv /\ WorldLightInv /\ [Next]_vars => WorldLightInv'
  BY EveryStepKeepsLight
<1>3. WorldLightInv => LightIsExact
  BY LightInvIsExact DEF WorldLightInv, NothingIsLit, LightIsExact
<1>4. QED
  BY <1>1, <1>2, <1>3, JoinInvariant, PTL DEF Spec
================================================================================
