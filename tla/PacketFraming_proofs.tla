----------------------- MODULE PacketFraming_proofs -----------------------
(***************************************************************************)
(* Theorems of PacketFraming, for any base, threshold and packets: a       *)
(* number is read as it was written, and so is every packet, however its   *)
(* bytes arrive.  Induction is by least elements: a set of numbers that is *)
(* not empty has one (LeastNumber).                                        *)
(***************************************************************************)
EXTENDS PacketFraming, FiniteSetTheorems, SequenceTheorems, TLAPS

\* A set of numbers has a least one: what induction is done with here.
LEMMA LeastNumber ==
  ASSUME NEW T, T \subseteq Nat, T # {}
  PROVE  \E m \in T : \A k \in T : m <= k
<1> DEFINE Below == {0 .. n : n \in T}
<1>1. Below \subseteq FiniteSubsetsOf(Nat)
  <2>1. \A n \in Nat : IsFiniteSet(0 .. n) /\ 0 .. n \subseteq Nat
    BY FS_Interval
  <2>2. QED
    BY <2>1 DEF FiniteSubsetsOf
<1>2. Below # {}
  OBVIOUS
<1>3. IsWellFoundedOn(StrictSubsetOrdering(Nat), FiniteSubsetsOf(Nat))
  BY FS_StrictSubsetOrderingWellFounded
<1>4. PICK x \in Below : \A y \in Below : ~ (<<y, x>> \in StrictSubsetOrdering(Nat))
  <2> HIDE DEF Below
  <2>1. QED
    BY <1>1, <1>2, <1>3, WFMin
<1>5. PICK m \in T : x = 0 .. m
  OBVIOUS
<1>6. ASSUME NEW k \in T, ~(m <= k) PROVE FALSE
  <2>1. k \in Nat /\ m \in Nat /\ k < m
    BY <1>6
  <2>2. 0 .. k \subseteq 0 .. m /\ m \in 0 .. m /\ m \notin 0 .. k
    BY <2>1
  <2>3. << 0 .. k, 0 .. m >> \in StrictSubsetOrdering(Nat)
    BY <2>1, <2>2 DEF StrictSubsetOrdering
  <2>4. QED
    BY <1>4, <1>5, <2>3
<1>7. QED
  BY <1>6

LEMMA BaseType == Base \in Nat /\ Base > 1
BY FramingAssumption

LEMMA DivMod ==
  ASSUME NEW n \in Nat, NEW b \in Nat, b > 0
  PROVE  /\ n % b \in 0 .. b - 1
         /\ n \div b \in Nat
         /\ n = (n % b) + b * (n \div b)
OBVIOUS

LEMMA DivLess ==
  ASSUME NEW n \in Nat, NEW b \in Nat, b > 1, n >= b
  PROVE  n \div b < n /\ n \div b >= 1
BY DivMod

LEMMA DivMonotone ==
  ASSUME NEW n \in Nat, NEW m \in Nat, NEW b \in Nat, b > 0, n <= m
  PROVE  n \div b <= m \div b
BY DivMod

-----------------------------------------------------------------------------
(* ToVarInt is the function its equation describes *)

LastByte(n) == [digit |-> n, more |-> FALSE]
NextByte(n) == [digit |-> n % Base, more |-> TRUE]
WriteFrom(g, n) ==
  IF n < Base THEN << LastByte(n) >> ELSE << NextByte(n) >> \o g[n \div Base]
WritesUpTo(g, m) == g = [n \in 0 .. m |-> WriteFrom(g, n)]

LEMMA WriterAt ==
  ASSUME NEW g, NEW m \in Nat, WritesUpTo(g, m)
  PROVE  \A n \in 0 .. m : g[n] = WriteFrom(g, n)
<1>1. ASSUME NEW h, h = [n \in 0 .. m |-> WriteFrom(g, n)]
      PROVE  \A n \in 0 .. m : h[n] = WriteFrom(g, n)
  BY <1>1
<1>2. QED
  BY <1>1 DEF WritesUpTo

\* For the numbers up to any m there is such a function.
LEMMA WriterUpTo == \A m \in Nat : \E g : WritesUpTo(g, m)
<1> DEFINE T == {m \in Nat : ~ \E g : WritesUpTo(g, m)}
<1>1. ASSUME NEW m \in T, \A k \in T : m <= k PROVE FALSE
  <2>1. CASE m = 0
    <3> DEFINE g == [n \in 0 .. 0 |-> << LastByte(n) >>]
    <3>1. \A n \in 0 .. 0 : WriteFrom(g, n) = << LastByte(n) >>
      BY BaseType DEF WriteFrom
    <3>2. WritesUpTo(g, 0)
      BY <3>1 DEF WritesUpTo
    <3>3. QED
      BY <2>1, <3>2
  <2>2. CASE m # 0
    <3>1. m - 1 \in Nat /\ m - 1 \notin T
      BY <1>1, <2>2
    <3>2. PICK g : WritesUpTo(g, m - 1)
      BY <3>1
    <3> DEFINE h == [n \in 0 .. m |-> WriteFrom(g, n)]
    <3>3. ASSUME NEW n \in 0 .. m PROVE WriteFrom(h, n) = WriteFrom(g, n)
      <4>1. CASE n < Base
        BY <4>1 DEF WriteFrom
      <4>2. CASE n >= Base
        <5>1. n \div Base \in 0 .. m - 1
          BY <4>2, <1>1, BaseType, DivLess, DivMod
        <5>2. h[n \div Base] = WriteFrom(g, n \div Base)
          BY <5>1, <3>1
        <5>3. g[n \div Base] = WriteFrom(g, n \div Base)
          BY <1>1, <5>1, <3>1, <3>2, WriterAt
        <5>4. QED
          <6> HIDE DEF h
          <6>1. h[n \div Base] = g[n \div Base]
            BY <5>2, <5>3
          <6>2. QED
            BY <6>1 DEF WriteFrom
      <4>3. QED
        BY <4>1, <4>2, BaseType
    <3>4. WritesUpTo(h, m)
      BY <3>3 DEF WritesUpTo
    <3>5. QED
      BY <3>4
  <2>3. QED
    BY <2>1, <2>2
<1>2. T = {}
  <2> HIDE DEF T
  <2>1. T \subseteq Nat
    BY DEF T
  <2>2. QED
    BY <1>1, <2>1, LeastNumber
<1>3. QED
  BY <1>2

\* All of them agree.
LEMMA WritersAgree ==
  ASSUME NEW g, NEW h, NEW k \in Nat, NEW m \in Nat, WritesUpTo(g, k), WritesUpTo(h, m)
  PROVE  \A n \in Nat : n <= k /\ n <= m => g[n] = h[n]
<1> DEFINE T == {n \in Nat : n <= k /\ n <= m /\ g[n] # h[n]}
<1>1. ASSUME NEW n \in T, \A i \in T : n <= i PROVE FALSE
  <2>1. g[n] = WriteFrom(g, n) /\ h[n] = WriteFrom(h, n)
    BY <1>1, WriterAt
  <2>2. CASE n < Base
    BY <1>1, <2>1, <2>2 DEF WriteFrom
  <2>3. CASE n >= Base
    <3>1. n \div Base \in Nat /\ n \div Base < n
      BY <1>1, <2>3, BaseType, DivLess, DivMod
    <3>2. n \div Base \notin T
      BY <1>1, <3>1
    <3>3. g[n \div Base] = h[n \div Base]
      BY <1>1, <3>1, <3>2
    <3>4. QED
      BY <1>1, <2>1, <3>3 DEF WriteFrom
  <2>4. QED
    BY <1>1, <2>2, <2>3, BaseType
<1>2. T = {}
  <2> HIDE DEF T
  <2>1. T \subseteq Nat
    BY DEF T
  <2>2. QED
    BY <1>1, <2>1, LeastNumber
<1>3. QED
  BY <1>2

\* What write_packet writes for a number: its digits, from the least significant
\* one, each but the last with the continuation bit (VarInt).
LEMMA ToVarIntOf ==
  ASSUME NEW n \in Nat
  PROVE  ToVarInt[n] = WriteFrom(ToVarInt, n)
<1> DEFINE f == [i \in Nat |-> (CHOOSE g : WritesUpTo(g, i))[i]]
<1>1. \A i \in Nat : WritesUpTo(CHOOSE g : WritesUpTo(g, i), i)
  BY WriterUpTo
<1>2. ASSUME NEW i \in Nat PROVE f[i] = WriteFrom(f, i)
  <2> DEFINE g == CHOOSE g : WritesUpTo(g, i)
  <2>1. WritesUpTo(g, i)
    BY <1>1
  <2>2. f[i] = WriteFrom(g, i)
    <3>1. f[i] = g[i]
      OBVIOUS
    <3> HIDE DEF f, g
    <3>2. QED
      BY <2>1, <3>1, WriterAt
  <2>3. CASE i < Base
    BY <2>2, <2>3 DEF WriteFrom
  <2>4. CASE i >= Base
    <3> DEFINE j == i \div Base
    <3>1. j \in Nat /\ j < i
      BY <2>4, BaseType, DivLess, DivMod
    <3> DEFINE h == CHOOSE h : WritesUpTo(h, j)
    <3>2. WritesUpTo(h, j)
      BY <1>1, <3>1
    <3>3. h[j] = g[j]
      <4> HIDE DEF g, h, j
      <4>1. QED
        BY <2>1, <3>1, <3>2, WritersAgree
    <3>4. f[j] = g[j]
      BY <3>1, <3>3
    <3>5. QED
      BY <2>2, <3>4 DEF WriteFrom
  <2>5. QED
    BY <2>3, <2>4, BaseType
<1>3. f = [i \in Nat |-> WriteFrom(f, i)]
  BY <1>2
<1>4. \E g : g = [i \in Nat |-> WriteFrom(g, i)]
  <2> HIDE DEF f
  <2>1. QED
    BY <1>3
<1>5. ToVarInt = [i \in Nat |-> WriteFrom(ToVarInt, i)]
  BY <1>4 DEF ToVarInt, WriteFrom, LastByte, NextByte
<1>6. QED
  BY <1>5

-----------------------------------------------------------------------------
(* The VarInt of a number *)

IsVarInt(t) ==
  /\ t \in Seq(Bytes)
  /\ t # << >>
  /\ \A i \in 1 .. Len(t) : t[i].more <=> i # Len(t)

LEMMA ByteTypes ==
  ASSUME NEW n \in Nat
  PROVE  /\ n < Base => LastByte(n) \in Bytes /\ ToVarInt[n] = << LastByte(n) >>
         /\ n >= Base => /\ NextByte(n) \in Bytes /\ n \div Base \in Nat /\ n \div Base < n
                         /\ ToVarInt[n] = << NextByte(n) >> \o ToVarInt[n \div Base]
<1>1. n < Base => LastByte(n) \in Bytes
  BY BaseType DEF LastByte, Bytes
<1>2. NextByte(n) \in Bytes
  BY BaseType, DivMod DEF NextByte, Bytes
<1>3. n >= Base => n \div Base \in Nat /\ n \div Base < n
  BY BaseType, DivMod, DivLess
<1>4. ToVarInt[n] = WriteFrom(ToVarInt, n)
  BY ToVarIntOf
<1>5. n < Base => ToVarInt[n] = << LastByte(n) >>
  BY <1>4 DEF WriteFrom
<1>6. n >= Base => ToVarInt[n] = << NextByte(n) >> \o ToVarInt[n \div Base]
  <2>1. n >= Base => ~(n < Base)
    BY BaseType
  <2>2. QED
    BY <1>4, <2>1 DEF WriteFrom
<1>7. QED
  BY <1>1, <1>2, <1>3, <1>5, <1>6

\* Its last byte, and only that, has no continuation bit.
LEMMA ToVarIntShape == \A n \in Nat : IsVarInt(ToVarInt[n])
<1> DEFINE T == {n \in Nat : ~IsVarInt(ToVarInt[n])}
<1>1. ASSUME NEW n \in T, \A k \in T : n <= k PROVE FALSE
  <2>1. CASE n < Base
    <3>1. ToVarInt[n] = << LastByte(n) >> /\ LastByte(n) \in Bytes
      BY <1>1, <2>1, ByteTypes
    <3>2. ~LastByte(n).more
      BY DEF LastByte
    <3>3. IsVarInt(<< LastByte(n) >>)
      BY <3>1, <3>2 DEF IsVarInt
    <3>4. QED
      BY <3>1, <3>3
  <2>2. CASE n >= Base
    <3> DEFINE t == ToVarInt[n \div Base]
    <3>1. /\ n \div Base \in Nat /\ n \div Base < n
          /\ ToVarInt[n] = << NextByte(n) >> \o t /\ NextByte(n) \in Bytes
      BY <1>1, <2>2, ByteTypes
    <3>2. IsVarInt(t)
      BY <1>1, <3>1
    <3>3. NextByte(n).more
      BY DEF NextByte
    <3>4. IsVarInt(<< NextByte(n) >> \o t)
      <4> HIDE DEF t
      <4> DEFINE s == << NextByte(n) >> \o t
      <4>1. /\ << NextByte(n) >> \in Seq(Bytes) /\ Len(<< NextByte(n) >>) = 1
            /\ t \in Seq(Bytes) /\ Len(t) \in Nat \ {0}
        BY <3>1, <3>2, LenProperties, EmptySeq DEF IsVarInt
      <4>2. /\ s \in Seq(Bytes) /\ Len(s) = 1 + Len(t)
            /\ s[1] = NextByte(n)
            /\ \A i \in 2 .. 1 + Len(t) : s[i] = t[i - 1]
        BY <4>1, ConcatProperties
      <4>3. ASSUME NEW i \in 1 .. Len(s) PROVE s[i].more <=> i # Len(s)
        <5>1. CASE i = 1
          BY <4>1, <4>2, <5>1, <3>3
        <5>2. CASE i # 1
          <6>1. i - 1 \in 1 .. Len(t) /\ s[i] = t[i - 1]
            BY <4>1, <4>2, <5>2
          <6>2. t[i - 1].more <=> i - 1 # Len(t)
            BY <6>1, <3>2 DEF IsVarInt
          <6>3. QED
            BY <4>1, <4>2, <6>1, <6>2
        <5>3. QED
          BY <5>1, <5>2
      <4>4. s # << >>
        BY <4>1, <4>2, EmptySeq
      <4>5. QED
        BY <4>2, <4>3, <4>4 DEF IsVarInt
    <3>5. QED
      BY <3>1, <3>4
  <2>3. QED
    BY <1>1, <2>1, <2>2, BaseType
<1>2. T = {}
  <2> HIDE DEF T
  <2>1. T \subseteq Nat
    BY DEF T
  <2>2. QED
    BY <1>1, <2>1, LeastNumber
<1>3. QED
  BY <1>2

LEMMA ToVarIntType ==
  ASSUME NEW n \in Nat
  PROVE  ToVarInt[n] \in Seq(Bytes) /\ Len(ToVarInt[n]) \in Nat \ {0}
BY ToVarIntShape, LenProperties, EmptySeq DEF IsVarInt

\* A larger number is not shorter.
LEMMA ToVarIntLength ==
  \A m \in Nat : \A n \in Nat : n <= m => Len(ToVarInt[n]) <= Len(ToVarInt[m])
<1> DEFINE T == {m \in Nat : \E n \in Nat : n <= m /\ ~(Len(ToVarInt[n]) <= Len(ToVarInt[m]))}
<1>1. ASSUME NEW m \in T, \A k \in T : m <= k PROVE FALSE
  <2>1. PICK n \in Nat : n <= m /\ ~(Len(ToVarInt[n]) <= Len(ToVarInt[m]))
    OBVIOUS
  <2>2. m \in Nat /\ Len(ToVarInt[m]) \in Nat \ {0}
    BY ToVarIntType
  <2>3. CASE n < Base
    <3>1. ToVarInt[n] = << LastByte(n) >>
      BY <2>3, ByteTypes
    <3>2. Len(ToVarInt[n]) = 1
      BY <3>1
    <3>3. QED
      BY <2>1, <2>2, <3>2
  <2>4. CASE n >= Base
    <3>1. m >= Base
      BY <2>1, <2>2, <2>4, BaseType
    <3> DEFINE i == n \div Base  j == m \div Base
    <3>2. /\ i \in Nat /\ j \in Nat /\ i <= j /\ j < m
      BY <2>1, <2>2, <2>4, <3>1, BaseType, DivMonotone, ByteTypes
    <3>3. Len(ToVarInt[i]) <= Len(ToVarInt[j])
      BY <1>1, <2>2, <3>2
    <3>4. Len(ToVarInt[n]) = 1 + Len(ToVarInt[i])
      <4>1. ToVarInt[n] = << NextByte(n) >> \o ToVarInt[i] /\ NextByte(n) \in Bytes
        BY <2>4, ByteTypes
      <4>2. << NextByte(n) >> \in Seq(Bytes) /\ Len(<< NextByte(n) >>) = 1
        BY <4>1
      <4>3. QED
        BY <4>1, <4>2, <3>2, ToVarIntType, ConcatProperties
    <3>5. Len(ToVarInt[m]) = 1 + Len(ToVarInt[j])
      <4>1. ToVarInt[m] = << NextByte(m) >> \o ToVarInt[j] /\ NextByte(m) \in Bytes
        BY <2>2, <3>1, ByteTypes
      <4>2. << NextByte(m) >> \in Seq(Bytes) /\ Len(<< NextByte(m) >>) = 1
        BY <4>1
      <4>3. QED
        BY <4>1, <4>2, <3>2, ToVarIntType, ConcatProperties
    <3>6. Len(ToVarInt[i]) \in Nat /\ Len(ToVarInt[j]) \in Nat
      BY <3>2, ToVarIntType
    <3> HIDE DEF i, j, T
    <3>7. QED
      BY <2>1, <3>3, <3>4, <3>5, <3>6
  <2>5. QED
    BY <2>3, <2>4, BaseType
<1>2. T = {}
  <2> HIDE DEF T
  <2>1. T \subseteq Nat
    BY DEF T
  <2>2. QED
    BY <1>1, <2>1, LeastNumber
<1>3. QED
  BY <1>2

-----------------------------------------------------------------------------
(* VarIntValue is the function its equation describes *)

ReadFrom(g, s) == IF s = << >> THEN 0 ELSE Head(s).digit + Base * g[Tail(s)]
Short(m) == {s \in Seq(Bytes) : Len(s) <= m}
ReadsUpTo(g, m) == g = [s \in Short(m) |-> ReadFrom(g, s)]

LEMMA ReaderAt ==
  ASSUME NEW g, NEW m \in Nat, ReadsUpTo(g, m)
  PROVE  \A s \in Short(m) : g[s] = ReadFrom(g, s)
<1>1. ASSUME NEW h, h = [s \in Short(m) |-> ReadFrom(g, s)]
      PROVE  \A s \in Short(m) : h[s] = ReadFrom(g, s)
  BY <1>1
<1>2. QED
  BY <1>1 DEF ReadsUpTo

LEMMA TailIsShort ==
  ASSUME NEW s \in Seq(Bytes), s # << >>
  PROVE  Tail(s) \in Seq(Bytes) /\ Len(Tail(s)) = Len(s) - 1 /\ Len(Tail(s)) \in Nat
BY HeadTailProperties, LenProperties

\* For the sequences up to any length there is such a function.
LEMMA ReaderUpTo == \A m \in Nat : \E g : ReadsUpTo(g, m)
<1> DEFINE T == {m \in Nat : ~ \E g : ReadsUpTo(g, m)}
<1>1. ASSUME NEW m \in T, \A k \in T : m <= k PROVE FALSE
  <2>1. CASE m = 0
    <3> DEFINE g == [s \in Short(0) |-> 0]
    <3>1. ASSUME NEW s \in Short(0) PROVE ReadFrom(g, s) = 0
      <4>1. s = << >>
        BY EmptySeq, LenProperties DEF Short
      <4>2. QED
        BY <4>1 DEF ReadFrom
    <3>2. ReadsUpTo(g, 0)
      BY <3>1 DEF ReadsUpTo
    <3>3. QED
      BY <2>1, <3>2
  <2>2. CASE m # 0
    <3>1. m - 1 \in Nat /\ m - 1 \notin T
      BY <1>1, <2>2
    <3>2. PICK g : ReadsUpTo(g, m - 1)
      BY <3>1
    <3> DEFINE h == [s \in Short(m) |-> ReadFrom(g, s)]
    <3>3. ASSUME NEW s \in Short(m) PROVE ReadFrom(h, s) = ReadFrom(g, s)
      <4>1. CASE s = << >>
        BY <4>1 DEF ReadFrom
      <4>2. CASE s # << >>
        <5>1. Tail(s) \in Short(m - 1) /\ Tail(s) \in Short(m)
          BY <1>1, <4>2, <3>1, TailIsShort DEF Short
        <5>2. h[Tail(s)] = ReadFrom(g, Tail(s))
          BY <5>1
        <5>3. g[Tail(s)] = ReadFrom(g, Tail(s))
          BY <5>1, <3>1, <3>2, ReaderAt
        <5>4. QED
          <6> HIDE DEF h
          <6>1. h[Tail(s)] = g[Tail(s)]
            BY <5>2, <5>3
          <6>2. QED
            BY <6>1 DEF ReadFrom
      <4>3. QED
        BY <4>1, <4>2
    <3>4. ReadsUpTo(h, m)
      BY <3>3 DEF ReadsUpTo
    <3>5. QED
      BY <3>4
  <2>3. QED
    BY <2>1, <2>2
<1>2. T = {}
  <2> HIDE DEF T
  <2>1. T \subseteq Nat
    BY DEF T
  <2>2. QED
    BY <1>1, <2>1, LeastNumber
<1>3. QED
  BY <1>2

\* All of them agree.
LEMMA ReadersAgree ==
  ASSUME NEW g, NEW h, NEW k \in Nat, NEW m \in Nat, ReadsUpTo(g, k), ReadsUpTo(h, m)
  PROVE  \A s \in Seq(Bytes) : Len(s) <= k /\ Len(s) <= m => g[s] = h[s]
<1> DEFINE Differ(s) == Len(s) <= k /\ Len(s) <= m /\ g[s] # h[s]
           T == {n \in Nat : \E s \in Seq(Bytes) : Len(s) = n /\ Differ(s)}
<1>1. ASSUME NEW n \in T, \A i \in T : n <= i PROVE FALSE
  <2>1. PICK s \in Seq(Bytes) : Len(s) = n /\ Differ(s)
    OBVIOUS
  <2>2. g[s] = ReadFrom(g, s) /\ h[s] = ReadFrom(h, s)
    BY <2>1, ReaderAt DEF Short
  <2>3. CASE s = << >>
    BY <2>1, <2>2, <2>3 DEF ReadFrom
  <2>4. CASE s # << >>
    <3>1. Tail(s) \in Seq(Bytes) /\ Len(Tail(s)) = n - 1 /\ Len(Tail(s)) \in Nat
      BY <2>1, <2>4, TailIsShort
    <3>2. Len(Tail(s)) \notin T
      BY <1>1, <3>1
    <3>3. ~Differ(Tail(s))
      BY <3>1, <3>2
    <3>4. Len(Tail(s)) <= k /\ Len(Tail(s)) <= m
      BY <1>1, <2>1, <3>1
    <3>5. g[Tail(s)] = h[Tail(s)]
      BY <3>3, <3>4
    <3>6. QED
      BY <2>1, <2>2, <3>5 DEF ReadFrom
  <2>5. QED
    BY <2>3, <2>4
<1>2. T = {}
  <2> HIDE DEF T
  <2>1. T \subseteq Nat
    BY DEF T
  <2>2. QED
    BY <1>1, <2>1, LeastNumber
<1>3. ASSUME NEW s \in Seq(Bytes), Differ(s) PROVE FALSE
  BY <1>2, <1>3, LenProperties
<1>4. QED
  BY <1>3

LEMMA VarIntValueOf ==
  ASSUME NEW s \in Seq(Bytes)
  PROVE  VarIntValue[s] = ReadFrom(VarIntValue, s)
<1> DEFINE f == [r \in Seq(Bytes) |-> (CHOOSE g : ReadsUpTo(g, Len(r)))[r]]
<1>1. \A i \in Nat : ReadsUpTo(CHOOSE g : ReadsUpTo(g, i), i)
  BY ReaderUpTo
<1>2. ASSUME NEW r \in Seq(Bytes) PROVE f[r] = ReadFrom(f, r)
  <2> DEFINE g == CHOOSE g : ReadsUpTo(g, Len(r))
  <2>1. Len(r) \in Nat /\ ReadsUpTo(g, Len(r))
    BY <1>1, LenProperties
  <2>2. f[r] = ReadFrom(g, r)
    <3>1. f[r] = g[r] /\ r \in Short(Len(r))
      BY <2>1 DEF Short
    <3> HIDE DEF f, g
    <3>2. QED
      BY <2>1, <3>1, ReaderAt
  <2>3. CASE r = << >>
    BY <2>2, <2>3 DEF ReadFrom
  <2>4. CASE r # << >>
    <3> DEFINE t == Tail(r)
    <3>1. t \in Seq(Bytes) /\ Len(t) <= Len(r) /\ Len(t) \in Nat
      BY <2>1, <2>4, TailIsShort
    <3> DEFINE h == CHOOSE h : ReadsUpTo(h, Len(t))
    <3>2. ReadsUpTo(h, Len(t))
      BY <1>1, <3>1
    <3>3. h[t] = g[t]
      <4> HIDE DEF g, h, t
      <4>1. QED
        BY <2>1, <3>1, <3>2, ReadersAgree
    <3>4. f[t] = g[t]
      BY <3>1, <3>3
    <3>5. QED
      BY <2>2, <3>4 DEF ReadFrom
  <2>5. QED
    BY <2>3, <2>4
<1>3. f = [r \in Seq(Bytes) |-> ReadFrom(f, r)]
  BY <1>2
<1>4. \E g : g = [r \in Seq(Bytes) |-> ReadFrom(g, r)]
  <2> HIDE DEF f
  <2>1. QED
    BY <1>3
<1>5. VarIntValue = [r \in Seq(Bytes) |-> ReadFrom(VarIntValue, r)]
  BY <1>4 DEF VarIntValue, ReadFrom
<1>6. QED
  BY <1>5

\* The number that was written is the number that is read, whatever it is and
\* however many bytes it takes (VarInt::encode, VarInt::decode).
THEOREM VarIntRoundTrip == \A n \in Nat : VarIntValue[ToVarInt[n]] = n
<1> DEFINE T == {n \in Nat : VarIntValue[ToVarInt[n]] # n}
<1>1. ASSUME NEW n \in T, \A k \in T : n <= k PROVE FALSE
  <2>1. /\ ToVarInt[n] \in Seq(Bytes) /\ ToVarInt[n] # << >>
        /\ VarIntValue[ToVarInt[n]]
             = Head(ToVarInt[n]).digit + Base * VarIntValue[Tail(ToVarInt[n])]
    BY ToVarIntType, EmptySeq, VarIntValueOf DEF ReadFrom
  <2>2. CASE n < Base
    <3>1. ToVarInt[n] = << LastByte(n) >>
      BY <2>2, ByteTypes
    <3>2. Head(ToVarInt[n]).digit = n /\ Tail(ToVarInt[n]) = << >>
      BY <3>1 DEF LastByte
    <3>3. << >> \in Seq(Bytes)
      BY EmptySeq
    <3>4. VarIntValue[<< >>] = 0
      BY <3>3, VarIntValueOf DEF ReadFrom
    <3>5. n + Base * 0 = n
      BY BaseType
    <3>6. QED
      BY <2>1, <3>2, <3>4, <3>5
  <2>3. CASE n >= Base
    <3> DEFINE i == n \div Base
    <3>1. /\ i \in Nat /\ i < n
          /\ ToVarInt[n] = << NextByte(n) >> \o ToVarInt[i] /\ NextByte(n) \in Bytes
      BY <2>3, ByteTypes
    <3>2. Head(ToVarInt[n]) = NextByte(n) /\ Tail(ToVarInt[n]) = ToVarInt[i]
      BY <3>1, ToVarIntType
    <3>3. VarIntValue[ToVarInt[i]] = i
      BY <1>1, <3>1
    <3>4. VarIntValue[ToVarInt[n]] = (n % Base) + Base * i
      BY <2>1, <3>2, <3>3 DEF NextByte
    <3>5. n = (n % Base) + Base * i
      BY <1>1, BaseType, DivMod
    <3>6. QED
      BY <3>4, <3>5
  <2>4. QED
    BY <2>2, <2>3, BaseType
<1>2. T = {}
  <2> HIDE DEF T
  <2>1. T \subseteq Nat
    BY DEF T
  <2>2. QED
    BY <1>1, <2>1, LeastNumber
<1>3. QED
  BY <1>2

-----------------------------------------------------------------------------
(* A VarInt at the head of a sequence *)

LEMMA VarIntSizeNone ==
  ASSUME NEW s \in Seq(Bytes), \A i \in 1 .. Len(s) : s[i].more
  PROVE  VarIntSize(s) = 0
BY LenProperties DEF VarIntSize

LEMMA VarIntSizeWhole ==
  ASSUME NEW t, IsVarInt(t), Len(t) <= VarIntBytes, NEW r \in Seq(Bytes)
  PROVE  VarIntSize(t \o r) = Len(t)
<1> DEFINE s == t \o r
           Ends == {n \in 1 .. VarIntBytes : n <= Len(s) /\ ~s[n].more}
<1>1. Len(t) \in Nat \ {0} /\ Len(r) \in Nat /\ VarIntBytes \in Nat
  BY LenProperties, EmptySeq, FramingAssumption DEF IsVarInt
<1>2. Len(s) = Len(t) + Len(r) /\ \A i \in 1 .. Len(t) : s[i] = t[i]
  BY <1>1, ConcatProperties DEF IsVarInt
<1>3. Len(t) \in Ends
  BY <1>1, <1>2 DEF IsVarInt
<1>4. \A m \in Ends : Len(t) <= m
  BY <1>1, <1>2 DEF IsVarInt
<1>5. VarIntSize(s) = CHOOSE n \in Ends : \A m \in Ends : n <= m
  BY <1>3 DEF VarIntSize
<1>6. \A n \in Ends : (\A m \in Ends : n <= m) => n = Len(t)
  BY <1>1, <1>3, <1>4
<1>7. QED
  <2> HIDE DEF Ends
  <2>1. \E n \in Ends : \A m \in Ends : n <= m
    BY <1>3, <1>4
  <2>2. QED
    BY <1>5, <1>6, <2>1

LEMMA ConcatParts ==
  ASSUME NEW t \in Seq(Bytes), NEW r \in Seq(Bytes), t # << >>
  PROVE  /\ SubSeq(t \o r, 1, Len(t)) = t
         /\ SubSeq(t \o r, Len(t) + 1, Len(t \o r)) = r
<1> DEFINE s == t \o r
<1>1. Len(t) \in Nat \ {0} /\ Len(r) \in Nat
  BY LenProperties, EmptySeq
<1>2. /\ s \in Seq(Bytes) /\ Len(s) = Len(t) + Len(r)
      /\ \A i \in 1 .. Len(t) + Len(r) : s[i] = IF i <= Len(t) THEN t[i] ELSE r[i - Len(t)]
  BY ConcatProperties
<1> DEFINE u == SubSeq(s, 1, Len(t))
           v == SubSeq(s, Len(t) + 1, Len(s))
<1>3. \A i \in 1 .. Len(s) : s[i] \in Bytes
  BY <1>2, ElementOfSeq
<1>4. u \in Seq(Bytes) /\ Len(u) = Len(t) /\ \A i \in 1 .. Len(t) : u[i] = s[i]
  <2>1. \A i \in 1 .. Len(t) : s[i] \in Bytes
    BY <1>1, <1>2, <1>3
  <2> HIDE DEF s
  <2>2. QED
    BY <1>1, <2>1, SubSeqProperties
<1>5. v \in Seq(Bytes) /\ Len(v) = Len(r) /\ \A i \in 1 .. Len(r) : v[i] = s[Len(t) + i]
  <2>1. \A i \in Len(t) + 1 .. Len(s) : s[i] \in Bytes
    BY <1>1, <1>2, <1>3
  <2>2. Len(s) \in Int /\ Len(t) + 1 \in Int
    BY <1>1, <1>2
  <2> HIDE DEF s
  <2>3. /\ v \in Seq(Bytes)
        /\ Len(v) = IF Len(t) + 1 <= Len(s) THEN Len(s) - (Len(t) + 1) + 1 ELSE 0
        /\ \A i \in 1 .. Len(s) - (Len(t) + 1) + 1 : v[i] = s[Len(t) + 1 + i - 1]
    BY <2>1, <2>2, SubSeqProperties
  <2> HIDE DEF v
  <2>4. Len(s) - (Len(t) + 1) + 1 = Len(r) /\ (Len(t) + 1 <= Len(s) <=> Len(r) # 0)
    BY <1>1, <1>2
  <2>5. \A i \in 1 .. Len(r) : Len(t) + 1 + i - 1 = Len(t) + i
    BY <1>1
  <2>6. Len(v) = Len(r)
    BY <2>3, <2>4
  <2>7. ASSUME NEW i \in 1 .. Len(r) PROVE v[i] = s[Len(t) + i]
    BY <2>3, <2>4, <2>5
  <2>8. QED
    BY <2>3, <2>6, <2>7
<1>6. u = t
  <2>1. \A i \in 1 .. Len(u) : u[i] = t[i]
    BY <1>1, <1>2, <1>4
  <2> HIDE DEF u
  <2>2. QED
    BY <1>4, <2>1, SeqEqual
<1>7. v = r
  <2>1. \A i \in 1 .. Len(v) : v[i] = r[i]
    BY <1>1, <1>2, <1>5
  <2> HIDE DEF v
  <2>2. QED
    BY <1>5, <2>1, SeqEqual
<1>8. QED
  BY <1>6, <1>7

-----------------------------------------------------------------------------
(* What write_packet writes, read_packet understands *)

LEMMA ReverseType ==
  ASSUME NEW s \in Seq(Bytes)
  PROVE  /\ Reverse(s) \in Seq(Bytes) /\ Len(Reverse(s)) = Len(s)
         /\ \A i \in 1 .. Len(s) : Reverse(s)[i] = s[Len(s) - i + 1]
<1>1. Len(s) \in Nat
  BY LenProperties
<1>2. \A i \in 1 .. Len(s) : Len(s) - i + 1 \in 1 .. Len(s)
  BY <1>1
<1>3. \A i \in 1 .. Len(s) : s[Len(s) - i + 1] \in Bytes
  BY <1>2, ElementOfSeq
<1>4. Reverse(s) \in [1 .. Len(s) -> Bytes]
  BY <1>3 DEF Reverse
<1>5. QED
  BY <1>1, <1>4 DEF Reverse

LEMMA ReverseTwice ==
  ASSUME NEW s \in Seq(Bytes)
  PROVE  Reverse(Reverse(s)) = s
<1> DEFINE r == Reverse(s)
<1>1. Len(s) \in Nat
  BY LenProperties
<1>2. r \in Seq(Bytes) /\ Len(r) = Len(s) /\ \A i \in 1 .. Len(s) : r[i] = s[Len(s) - i + 1]
  BY ReverseType
<1>3. /\ Reverse(r) \in Seq(Bytes) /\ Len(Reverse(r)) = Len(s)
      /\ \A i \in 1 .. Len(s) : Reverse(r)[i] = r[Len(s) - i + 1]
  <2> HIDE DEF r
  <2>1. QED
    BY <1>2, ReverseType
<1>4. ASSUME NEW i \in 1 .. Len(s) PROVE Reverse(r)[i] = s[i]
  <2>1. Len(s) - i + 1 \in 1 .. Len(s) /\ Len(s) - (Len(s) - i + 1) + 1 = i
    BY <1>1
  <2> HIDE DEF r
  <2>2. QED
    BY <1>2, <1>3, <2>1
<1>5. QED
  <2> HIDE DEF r
  <2>1. Reverse(r) = s
    BY <1>3, <1>4, SeqEqual
  <2>2. QED
    BY <2>1 DEF r

LEMMA SuccessOf ==
  ASSUME NEW t \in Seq(Bytes), IsVarInt(t), Len(t) <= VarIntBytes,
         NEW r \in Seq(Bytes) \ {<< >>}, threshold # NoCompression,
         VarIntValue[t] > 0 => VarIntValue[t] = Len(Inflate(r))
  PROVE  Decode(t \o r) = Success(IF VarIntValue[t] > 0 THEN Inflate(r) ELSE r)
<1>1. VarIntSize(t \o r) = Len(t)
  BY VarIntSizeWhole
<1>2. Len(t) # 0 /\ t # << >>
  BY EmptySeq DEF IsVarInt
<1>3. /\ SubSeq(t \o r, 1, VarIntSize(t \o r)) = t
      /\ SubSeq(t \o r, VarIntSize(t \o r) + 1, Len(t \o r)) = r
  BY <1>1, <1>2, ConcatParts
<1>4. QED
  BY <1>1, <1>2, <1>3 DEF Decode

LEMMA NumberFits ==
  ASSUME NEW n \in Nat, NEW m \in Nat, n <= m, Len(ToVarInt[m]) <= VarIntBytes
  PROVE  Len(ToVarInt[n]) <= VarIntBytes
<1>1. Len(ToVarInt[n]) <= Len(ToVarInt[m])
  BY ToVarIntLength
<1>2. Len(ToVarInt[n]) \in Nat /\ Len(ToVarInt[m]) \in Nat /\ VarIntBytes \in Nat
  BY ToVarIntType, FramingAssumption
<1>3. QED
  BY <1>1, <1>2

\* The body of a packet is decoded to the packet, in either format.
LEMMA DecodeBody ==
  ASSUME NEW p \in Seq(Bytes) \ {<< >>},
         Len(ToVarInt[Len(p)]) <= VarIntBytes
  PROVE  /\ Body(p) \in Seq(Bytes) /\ Len(Body(p)) \in Nat \ {0} /\ Len(p) <= Len(Body(p))
         /\ Decode(Body(p)) = Success(p)
<1>1. Len(p) \in Nat \ {0}
  BY LenProperties, EmptySeq
<1>2. CASE threshold = NoCompression
  BY <1>1, <1>2 DEF Body, Decode
<1>3. CASE threshold # NoCompression /\ Len(p) >= threshold
  <2> DEFINE t == ToVarInt[Len(p)]  r == Reverse(p)
  <2>1. t \in Seq(Bytes) /\ Len(t) \in Nat \ {0} /\ IsVarInt(t)
    BY <1>1, ToVarIntType, ToVarIntShape
  <2>2. r \in Seq(Bytes) /\ Len(r) = Len(p) /\ Inflate(r) = p
    BY ReverseType, ReverseTwice DEF Inflate
  <2>3. r # << >>
    BY <1>1, <2>2
  <2>4. VarIntValue[t] = Len(p)
    BY <1>1, VarIntRoundTrip
  <2>5. Body(p) = t \o r
    BY <1>3 DEF Body, Deflate
  <2> HIDE DEF t, r
  <2>6. Decode(t \o r) = Success(p)
    <3>1. Len(t) <= VarIntBytes
      BY DEF t
    <3>2. Decode(t \o r) = Success(IF VarIntValue[t] > 0 THEN Inflate(r) ELSE r)
      BY <1>1, <1>3, <2>1, <2>2, <2>3, <2>4, <3>1, SuccessOf
    <3>3. QED
      BY <3>2, <2>2, <2>4, <1>1
  <2>7. t \o r \in Seq(Bytes) /\ Len(t \o r) = Len(t) + Len(r)
    BY <2>1, <2>2, ConcatProperties
  <2>8. QED
    BY <1>1, <2>1, <2>2, <2>5, <2>6, <2>7
<1>4. CASE threshold # NoCompression /\ ~(Len(p) >= threshold)
  <2> DEFINE t == ToVarInt[0]
  <2>1. t \in Seq(Bytes) /\ Len(t) \in Nat \ {0} /\ IsVarInt(t)
    BY ToVarIntType, ToVarIntShape
  <2>2. Len(t) <= VarIntBytes
    BY <1>1, NumberFits
  <2>3. VarIntValue[t] = 0
    BY VarIntRoundTrip
  <2>4. Body(p) = t \o p
    BY <1>4 DEF Body
  <2> HIDE DEF t
  <2>5. Decode(t \o p) = Success(p)
    <3>1. Decode(t \o p) = Success(IF VarIntValue[t] > 0 THEN Inflate(p) ELSE p)
      BY <1>4, <2>1, <2>2, <2>3, SuccessOf
    <3>2. QED
      BY <3>1, <2>3
  <2>6. t \o p \in Seq(Bytes) /\ Len(t \o p) = Len(t) + Len(p)
    BY <2>1, ConcatProperties
  <2>7. QED
    BY <1>1, <2>1, <2>4, <2>5, <2>6
<1>5. QED
  BY <1>2, <1>3, <1>4

-----------------------------------------------------------------------------
(* FlattenSeq is the function its equation describes *)

LEMMA BytesAssociate ==
  \A s, t, u \in Seq(Bytes) : (s \o t) \o u = s \o (t \o u)
BY ConcatAssociative

Joined(g, seqs, i) == IF i = 1 THEN seqs[i] ELSE g[i - 1] \o seqs[i]
Joins(g, seqs, m) == g = [i \in 1 .. m |-> Joined(g, seqs, i)]

LEMMA JoinsAt ==
  ASSUME NEW g, NEW seqs, NEW m \in Nat, Joins(g, seqs, m)
  PROVE  \A i \in 1 .. m : g[i] = Joined(g, seqs, i)
<1>1. ASSUME NEW h, h = [i \in 1 .. m |-> Joined(g, seqs, i)]
      PROVE  \A i \in 1 .. m : h[i] = Joined(g, seqs, i)
  BY <1>1
<1>2. QED
  BY <1>1 DEF Joins

\* For sequences of any length there is such a function.
LEMMA JoinsSome ==
  ASSUME NEW seqs
  PROVE  \A m \in Nat : \E g : Joins(g, seqs, m)
<1> DEFINE T == {m \in Nat : ~ \E g : Joins(g, seqs, m)}
<1>1. ASSUME NEW m \in T, \A k \in T : m <= k PROVE FALSE
  <2>1. CASE m = 0
    <3> DEFINE g == [i \in 1 .. 0 |-> << >>]
    <3>1. Joins(g, seqs, 0)
      BY DEF Joins
    <3>2. QED
      BY <2>1, <3>1
  <2>2. CASE m # 0
    <3>1. m - 1 \in Nat /\ m - 1 \notin T
      BY <1>1, <2>2
    <3>2. PICK g : Joins(g, seqs, m - 1)
      BY <3>1
    <3> DEFINE h == [i \in 1 .. m |-> Joined(g, seqs, i)]
    <3>3. ASSUME NEW i \in 1 .. m PROVE Joined(h, seqs, i) = Joined(g, seqs, i)
      <4>1. CASE i = 1
        BY <4>1 DEF Joined
      <4>2. CASE i # 1
        <5>1. i - 1 \in 1 .. m - 1 /\ i - 1 \in 1 .. m
          BY <1>1, <4>2
        <5>2. h[i - 1] = Joined(g, seqs, i - 1)
          BY <5>1
        <5>3. g[i - 1] = Joined(g, seqs, i - 1)
          BY <5>1, <3>1, <3>2, JoinsAt
        <5>4. QED
          <6> HIDE DEF h
          <6>1. QED
            BY <5>2, <5>3 DEF Joined
      <4>3. QED
        BY <4>1, <4>2
    <3>4. Joins(h, seqs, m)
      BY <3>3 DEF Joins
    <3>5. QED
      BY <3>4
  <2>3. QED
    BY <2>1, <2>2
<1>2. T = {}
  <2> HIDE DEF T
  <2>1. T \subseteq Nat
    BY DEF T
  <2>2. QED
    BY <1>1, <2>1, LeastNumber
<1>3. QED
  BY <1>2

Frames(m) == [1 .. m -> Seq(Bytes)]

LEMMA JoinsType ==
  ASSUME NEW m \in Nat, NEW seqs \in Frames(m), NEW g, Joins(g, seqs, m)
  PROVE  \A i \in 1 .. m : g[i] \in Seq(Bytes)
<1> DEFINE T == {i \in Nat : i \in 1 .. m /\ g[i] \notin Seq(Bytes)}
<1>1. ASSUME NEW i \in T, \A k \in T : i <= k PROVE FALSE
  <2>1. g[i] = Joined(g, seqs, i) /\ seqs[i] \in Seq(Bytes)
    BY <1>1, JoinsAt DEF Frames
  <2>2. CASE i = 1
    BY <1>1, <2>1, <2>2 DEF Joined
  <2>3. CASE i # 1
    <3>1. i - 1 \in Nat /\ i - 1 \in 1 .. m /\ ~(i <= i - 1)
      BY <1>1, <2>3
    <3>2. g[i - 1] \in Seq(Bytes)
      BY <1>1, <3>1
    <3>3. g[i - 1] \o seqs[i] \in Seq(Bytes)
      BY <2>1, <3>2, ConcatProperties
    <3>4. QED
      BY <1>1, <2>1, <2>3, <3>3 DEF Joined
  <2>4. QED
    BY <2>2, <2>3
<1>2. T = {}
  <2> HIDE DEF T
  <2>1. T \subseteq Nat
    BY DEF T
  <2>2. QED
    BY <1>1, <2>1, LeastNumber
<1>3. QED
  BY <1>2

\* What is joined does not depend on what comes after it.
LEMMA JoinsAgree ==
  ASSUME NEW k \in Nat, NEW m \in Nat, k <= m, NEW seqs, NEW more,
         \A i \in 1 .. k : seqs[i] = more[i],
         NEW g, Joins(g, seqs, k), NEW h, Joins(h, more, m)
  PROVE  \A i \in 1 .. k : g[i] = h[i]
<1> DEFINE T == {i \in Nat : i \in 1 .. k /\ g[i] # h[i]}
<1>1. ASSUME NEW i \in T, \A j \in T : i <= j PROVE FALSE
  <2>1. i \in 1 .. k /\ i \in 1 .. m /\ g[i] # h[i]
    BY <1>1
  <2>2. g[i] = Joined(g, seqs, i) /\ h[i] = Joined(h, more, i) /\ seqs[i] = more[i]
    BY <2>1, JoinsAt
  <2>3. CASE i = 1
    BY <2>1, <2>2, <2>3 DEF Joined
  <2>4. CASE i # 1
    <3>1. i - 1 \in Nat /\ i - 1 \in 1 .. k /\ ~(i <= i - 1)
      BY <2>1, <2>4
    <3>2. g[i - 1] = h[i - 1]
      BY <1>1, <3>1
    <3>3. QED
      BY <2>1, <2>2, <3>2 DEF Joined
  <2>5. QED
    BY <2>3, <2>4
<1>2. T = {}
  <2> HIDE DEF T
  <2>1. T \subseteq Nat
    BY DEF T
  <2>2. QED
    BY <1>1, <2>1, LeastNumber
<1>3. QED
  BY <1>2

Shifted(rest, seqs, m) == \A i \in 1 .. m : rest[i] = seqs[i + 1]
Prefixed(h, first, g, m) == \A i \in 1 .. m : h[i + 1] = first \o g[i]

\* What is joined begins with the first.
LEMMA JoinsHead ==
  ASSUME NEW m \in Nat, NEW n \in Nat, n = m + 1,
         NEW seqs \in Frames(n), NEW rest \in Frames(m),
         Shifted(rest, seqs, m),
         NEW g, Joins(g, rest, m), NEW h, Joins(h, seqs, n)
  PROVE  Prefixed(h, seqs[1], g, m)
<1> DEFINE Same(i) == h[i + 1] = seqs[1] \o g[i]
           T == {i \in Nat : i \in 1 .. m /\ ~Same(i)}
<1>0. seqs[1] \in Seq(Bytes) /\ h[1] = seqs[1]
  <2>1. 1 \in 1 .. n
    OBVIOUS
  <2>2. h[1] = Joined(h, seqs, 1)
    BY <2>1, JoinsAt
  <2>3. QED
    BY <2>1, <2>2 DEF Frames, Joined
<1>1. ASSUME NEW i \in T, \A j \in T : i <= j PROVE Same(i)
  <2> HIDE DEF Same
  <2>1. i \in 1 .. m /\ i + 1 \in 1 .. n /\ i + 1 # 1 /\ (i + 1) - 1 = i /\ 1 \in 1 .. m
    BY <1>1
  <2>2. g[i] = Joined(g, rest, i) /\ rest[i] = seqs[i + 1] /\ rest[i] \in Seq(Bytes)
    BY <2>1, JoinsAt DEF Frames, Shifted
  <2>3. h[i + 1] = Joined(h, seqs, i + 1)
    BY <2>1, JoinsAt
  <2>4. Joined(h, seqs, i + 1) = h[i] \o seqs[i + 1]
    <3> HIDE DEF T
    <3>1. Joined(h, seqs, i + 1) = h[(i + 1) - 1] \o seqs[i + 1]
      BY <2>1 DEF Joined
    <3>2. h[(i + 1) - 1] = h[i]
      BY <2>1
    <3>3. QED
      BY <3>1, <3>2
  <2>5. h[i + 1] = h[i] \o rest[i]
    BY <2>2, <2>3, <2>4
  <2>6. CASE i = 1
    BY <1>0, <2>2, <2>5, <2>6 DEF Joined, Same
  <2>7. CASE i # 1
    <3>1. i - 1 \in Nat /\ i - 1 \in 1 .. m /\ ~(i <= i - 1) /\ i - 1 + 1 = i
      BY <2>1, <2>7
    <3>2. Same(i - 1)
      BY <1>1, <3>1
    <3> HIDE DEF T
    <3>3. h[i] = seqs[1] \o g[i - 1]
      BY <3>1, <3>2 DEF Same
    <3>4. g[i] = g[i - 1] \o rest[i]
      BY <2>2, <2>7 DEF Joined
    <3>5. g[i - 1] \in Seq(Bytes)
      BY <3>1, JoinsType
    <3>6. (seqs[1] \o g[i - 1]) \o rest[i] = seqs[1] \o (g[i - 1] \o rest[i])
      BY <1>0, <2>2, <3>5, BytesAssociate
    <3>7. QED
      BY <2>5, <3>3, <3>4, <3>6 DEF Same
  <2>8. QED
    BY <2>6, <2>7
<1>2. T = {}
  <2>1. T \subseteq Nat /\ \A i \in T : ~Same(i)
    OBVIOUS
  <2> HIDE DEF T, Same
  <2>2. QED
    BY <1>1, <2>1, LeastNumber
<1>3. \A i \in 1 .. m : Same(i)
  <2> HIDE DEF Same
  <2>1. QED
    BY <1>2
<1>4. QED
  BY <1>3 DEF Prefixed

LEMMA FlattenJoins ==
  ASSUME NEW m \in Nat \ {0}, NEW seqs \in Frames(m)
  PROVE  \E g : Joins(g, seqs, m) /\ FlattenSeq(seqs) = g[m]
<1> DEFINE g == CHOOSE g : Joins(g, seqs, m)
<1>1. Joins(g, seqs, m)
  BY JoinsSome
<1>2. Len(seqs) = m
  BY DEF Frames
<1>3. FlattenSeq(seqs) = g[m]
  BY <1>2 DEF FlattenSeq, Joins, Joined
<1>4. QED
  BY <1>1, <1>3

LEMMA FlattenNone ==
  ASSUME NEW seqs \in Frames(0)
  PROVE  FlattenSeq(seqs) = << >>
BY DEF FlattenSeq, Frames

LEMMA FlattenType ==
  ASSUME NEW m \in Nat, NEW seqs \in Frames(m)
  PROVE  FlattenSeq(seqs) \in Seq(Bytes)
<1>1. CASE m = 0
  BY <1>1, FlattenNone, EmptySeq
<1>2. CASE m # 0
  <2>1. PICK g : Joins(g, seqs, m) /\ FlattenSeq(seqs) = g[m]
    BY <1>2, FlattenJoins
  <2>2. m \in 1 .. m
    BY <1>2
  <2>3. QED
    BY <2>1, <2>2, JoinsType
<1>3. QED
  BY <1>1, <1>2

\* The bytes of one more frame come after those of the others.
LEMMA FlattenLast ==
  ASSUME NEW m \in Nat, NEW seqs \in Frames(m + 1), NEW front \in Frames(m),
         \A i \in 1 .. m : front[i] = seqs[i]
  PROVE  FlattenSeq(seqs) = FlattenSeq(front) \o seqs[m + 1]
<1>1. m + 1 \in Nat \ {0} /\ m + 1 \in 1 .. m + 1 /\ m <= m + 1 /\ (m + 1) - 1 = m
  OBVIOUS
<1>2. PICK h : Joins(h, seqs, m + 1) /\ FlattenSeq(seqs) = h[m + 1]
  BY <1>1, FlattenJoins
<1>3. h[m + 1] = Joined(h, seqs, m + 1) /\ seqs[m + 1] \in Seq(Bytes)
  BY <1>1, <1>2, JoinsAt DEF Frames
<1>4. CASE m = 0
  <2>1. FlattenSeq(front) = << >>
    BY <1>4, FlattenNone
  <2>2. FlattenSeq(seqs) = seqs[m + 1]
    BY <1>2, <1>3, <1>4 DEF Joined
  <2>3. QED
    BY <1>3, <2>1, <2>2, ConcatEmptySeq
<1>5. CASE m # 0
  <2>1. PICK g : Joins(g, front, m) /\ FlattenSeq(front) = g[m]
    BY <1>5, FlattenJoins
  <2>2. m \in 1 .. m /\ m + 1 # 1
    BY <1>5
  <2>3. g[m] = h[m]
    BY <1>1, <1>2, <2>1, <2>2, JoinsAgree
  <2>4. h[m + 1] = h[(m + 1) - 1] \o seqs[m + 1]
    BY <1>3, <2>2 DEF Joined
  <2>5. h[(m + 1) - 1] = h[m]
    BY <1>1
  <2>6. QED
    BY <1>2, <2>1, <2>3, <2>4, <2>5
<1>6. QED
  BY <1>4, <1>5

\* The bytes of the first frame come before those of the others.
LEMMA FlattenFirst ==
  ASSUME NEW m \in Nat, NEW seqs \in Frames(m + 1), NEW rest \in Frames(m),
         Shifted(rest, seqs, m)
  PROVE  FlattenSeq(seqs) = seqs[1] \o FlattenSeq(rest)
<1>1. m + 1 \in Nat \ {0} /\ 1 \in 1 .. m + 1
  OBVIOUS
<1>2. PICK h : Joins(h, seqs, m + 1) /\ FlattenSeq(seqs) = h[m + 1]
  BY <1>1, FlattenJoins
<1>3. h[1] = Joined(h, seqs, 1) /\ seqs[1] \in Seq(Bytes)
  BY <1>1, <1>2, JoinsAt DEF Frames
<1>4. CASE m = 0
  <2>1. FlattenSeq(rest) = << >>
    BY <1>4, FlattenNone
  <2>2. FlattenSeq(seqs) = seqs[1]
    BY <1>2, <1>3, <1>4 DEF Joined
  <2>3. QED
    BY <1>3, <2>1, <2>2, ConcatEmptySeq
<1>5. CASE m # 0
  <2>1. PICK g : Joins(g, rest, m) /\ FlattenSeq(rest) = g[m]
    BY <1>5, FlattenJoins
  <2>2. m \in 1 .. m
    BY <1>5
  <2>3. h[m + 1] = seqs[1] \o g[m]
    <3>1. PICK n \in Nat : n = m + 1
      OBVIOUS
    <3>2. seqs \in Frames(n) /\ Joins(h, seqs, n)
      BY <1>2, <3>1
    <3>3. Prefixed(h, seqs[1], g, m)
      BY <2>1, <3>1, <3>2, JoinsHead
    <3>4. QED
      BY <2>2, <3>3 DEF Prefixed
  <2>4. QED
    BY <1>2, <2>1, <2>3
<1>6. QED
  BY <1>4, <1>5

-----------------------------------------------------------------------------
(* One byte moves from the wire to what is being read *)

SameBytes(s, u, v, w) == s \o u = v \o w
Begins(s, v) == \A i \in 1 .. Len(s) : s[i] = v[i]

LEMMA SameStart ==
  ASSUME NEW s \in Seq(Bytes), NEW u \in Seq(Bytes), NEW v \in Seq(Bytes), NEW w \in Seq(Bytes),
         SameBytes(s, u, v, w), Len(s) <= Len(v)
  PROVE  /\ Begins(s, v)
         /\ Len(s) = Len(v) => s = v /\ u = w
<1>1. /\ Len(s) \in Nat /\ Len(u) \in Nat /\ Len(v) \in Nat /\ Len(w) \in Nat
  BY LenProperties
<1>2. \A i \in 1 .. Len(s) : s[i] = (s \o u)[i] /\ v[i] = (v \o w)[i]
  <2>1. \A i \in 1 .. Len(s) : s[i] = (s \o u)[i]
    BY <1>1, ConcatProperties
  <2>2. \A i \in 1 .. Len(v) : v[i] = (v \o w)[i]
    BY <1>1, ConcatProperties
  <2>3. QED
    BY <1>1, <2>1, <2>2
<1>3. \A i \in 1 .. Len(s) : s[i] = v[i]
  BY <1>2 DEF SameBytes
<1>4. ASSUME Len(s) = Len(v) PROVE s = v /\ u = w
  <2>1. s = v
    BY <1>3, <1>4, SeqEqual
  <2>2. s \o u = s \o w
    BY <2>1 DEF SameBytes
  <2>3. QED
    BY <2>1, <2>2, ConcatSimplifications
<1>5. QED
  BY <1>3, <1>4 DEF Begins

LEMMA ByteMoves ==
  ASSUME NEW s \in Seq(Bytes), NEW w \in Seq(Bytes), w # << >>
  PROVE  /\ Append(s, Head(w)) \in Seq(Bytes) /\ Len(Append(s, Head(w))) = Len(s) + 1
         /\ Tail(w) \in Seq(Bytes) /\ Head(w) \in Bytes
         /\ Append(s, Head(w)) \o Tail(w) = s \o w
<1>1. Head(w) \in Bytes /\ Tail(w) \in Seq(Bytes)
  BY HeadTailProperties
<1>2. /\ Append(s, Head(w)) \in Seq(Bytes) /\ Len(Append(s, Head(w))) = Len(s) + 1
      /\ Append(s, Head(w)) = s \o << Head(w) >>
  BY <1>1, AppendProperties, AppendIsConcat
<1>3. << Head(w) >> \in Seq(Bytes)
  BY <1>1
<1>4. w = << Head(w) >> \o Tail(w)
  <2>1. /\ << Head(w) >> \o Tail(w) \in Seq(Bytes)
        /\ Len(<< Head(w) >> \o Tail(w)) = 1 + Len(Tail(w))
        /\ \A i \in 1 .. 1 + Len(Tail(w)) :
             (<< Head(w) >> \o Tail(w))[i] = IF i <= 1 THEN << Head(w) >>[i] ELSE Tail(w)[i - 1]
    BY <1>1, <1>3, ConcatProperties
  <2>2. /\ Len(w) \in Nat \ {0} /\ Len(Tail(w)) = Len(w) - 1
        /\ \A i \in 1 .. Len(Tail(w)) : Tail(w)[i] = w[i + 1]
        /\ Head(w) = w[1]
    BY HeadTailProperties, LenProperties, EmptySeq
  <2>3. ASSUME NEW i \in 1 .. Len(w) PROVE (<< Head(w) >> \o Tail(w))[i] = w[i]
    <3>1. CASE i = 1
      BY <2>1, <2>2, <3>1
    <3>2. CASE i # 1
      <4>1. i - 1 \in 1 .. Len(Tail(w)) /\ (i - 1) + 1 = i /\ ~(i <= 1)
        BY <2>2, <3>2
      <4>2. (<< Head(w) >> \o Tail(w))[i] = Tail(w)[i - 1]
        BY <2>1, <2>2, <4>1
      <4>3. Tail(w)[i - 1] = w[(i - 1) + 1]
        BY <2>2, <4>1
      <4>4. QED
        BY <4>1, <4>2, <4>3
    <3>3. QED
      BY <3>1, <3>2
  <2>4. Len(<< Head(w) >> \o Tail(w)) = Len(w)
    BY <2>1, <2>2
  <2>5. QED
    BY <2>1, <2>3, <2>4, SeqEqual
<1>5. (s \o << Head(w) >>) \o Tail(w) = s \o (<< Head(w) >> \o Tail(w))
  BY <1>1, <1>3, BytesAssociate
<1>6. QED
  BY <1>1, <1>2, <1>4, <1>5

\* A byte of the length: the length is not over yet, or it is whole.
LEMMA LengthByte ==
  ASSUME NEW s \in Seq(Bytes), NEW w \in Seq(Bytes), w # << >>,
         NEW t \in Seq(Bytes), IsVarInt(t), NEW r \in Seq(Bytes),
         \A i \in 1 .. Len(s) : s[i].more,
         SameBytes(s, w, t, r)
  PROVE  /\ Len(s) + 1 <= Len(t)
         /\ Len(s) + 1 = Len(t) => Append(s, Head(w)) = t
         /\ Len(s) + 1 < Len(t) =>
              \A i \in 1 .. Len(Append(s, Head(w))) : Append(s, Head(w))[i].more
<1> DEFINE n == Append(s, Head(w))
<1>1. n \in Seq(Bytes) /\ Len(n) = Len(s) + 1 /\ Tail(w) \in Seq(Bytes) /\ n \o Tail(w) = t \o r
  BY ByteMoves DEF SameBytes
<1>2. Len(s) \in Nat /\ Len(t) \in Nat \ {0} /\ Len(r) \in Nat
  BY LenProperties, EmptySeq DEF IsVarInt
<1>3. Len(s) + 1 <= Len(t)
  <2>1. ASSUME Len(t) <= Len(s) PROVE FALSE
    <3>0. SameBytes(t, r, s, w)
      BY DEF SameBytes
    <3>1. \A i \in 1 .. Len(t) : t[i] = s[i]
      BY <2>1, <3>0, SameStart DEF Begins
    <3>2. t[Len(t)] = s[Len(t)] /\ ~t[Len(t)].more
      BY <1>2, <3>1 DEF IsVarInt
    <3>3. Len(t) \in 1 .. Len(s)
      BY <1>2, <2>1
    <3>4. QED
      BY <3>2, <3>3
  <2>2. QED
    BY <1>2, <2>1
<1>4. /\ Begins(n, t)
      /\ Len(n) = Len(t) => n = t
  <2> HIDE DEF n
  <2>1. Len(n) <= Len(t)
    BY <1>1, <1>3
  <2>2. PICK u \in Seq(Bytes) : u = Tail(w)
    BY <1>1
  <2>3. SameBytes(n, u, t, r) /\ n \in Seq(Bytes)
    BY <1>1, <2>2 DEF SameBytes
  <2>4. QED
    BY <2>1, <2>3, SameStart
<1>5. ASSUME Len(s) + 1 < Len(t), NEW i \in 1 .. Len(n) PROVE n[i].more
  <2>1. i \in 1 .. Len(t) /\ i # Len(t)
    BY <1>1, <1>2, <1>5
  <2>2. QED
    BY <1>4, <2>1 DEF Begins, IsVarInt
<1>6. QED
  BY <1>1, <1>3, <1>4, <1>5

-----------------------------------------------------------------------------
(* The frames not read yet *)

BodyAt(limit, p) ==
  IF limit = NoCompression THEN p
  ELSE IF Len(p) >= limit THEN ToVarInt[Len(p)] \o Deflate(p) ELSE ToVarInt[0] \o p
WritableAt(limit, p) == limit = NoCompression => Len(p) <= MaximumLength
Frame(limit, p) == ToVarInt[Len(BodyAt(limit, p))] \o BodyAt(limit, p)

\* The frames of the packets after the first n.
Missing(limit, packets, n) ==
  [k \in 1 .. Len(packets) - n |-> Frame(limit, packets[n + k])]

PayloadRead == [error : {"None"}, payload : Payloads]

Types ==
  /\ threshold \in Thresholds
  /\ wire \in Seq(Bytes) /\ var_int_buf \in Seq(Bytes) /\ data \in Seq(Bytes)
  /\ written \in Seq(Payloads)
  /\ \A i \in 1 .. Len(written) : WritableAt(threshold, written[i])
  /\ results \in Seq(PayloadRead)
  /\ pc \in {"Called", "Body"}

Delivered ==
  /\ Len(results) <= Len(written)
  /\ \A i \in 1 .. Len(results) : results[i] = Success(written[i])

Pending == var_int_buf \o data \o wire = FlattenSeq(Missing(threshold, written, Len(results)))

InLength ==
  pc = "Called" => data = << >> /\ \A i \in 1 .. Len(var_int_buf) : var_int_buf[i].more

InBody ==
  pc = "Body" =>
    LET body == BodyAt(threshold, written[Len(results) + 1])
    IN  /\ Len(results) < Len(written)
        /\ var_int_buf = ToVarInt[Len(body)]
        /\ Len(data) < Len(body)

Untorn == Types /\ Delivered /\ Pending /\ InLength /\ InBody
FramingInv == ~torn => Untorn

\* The frame of a packet that may be written.
LEMMA FrameType ==
  ASSUME FramesFit, threshold \in Thresholds, NEW p \in Payloads, WritableAt(threshold, p)
  PROVE  /\ p \in Seq(Bytes) \ {<< >>}
         /\ BodyAt(threshold, p) \in Seq(Bytes)
         /\ Len(BodyAt(threshold, p)) \in 1 .. MaximumLength
         /\ Decode(BodyAt(threshold, p)) = Success(p)
         /\ IsVarInt(ToVarInt[Len(BodyAt(threshold, p))])
         /\ ToVarInt[Len(BodyAt(threshold, p))] \in Seq(Bytes)
         /\ Len(ToVarInt[Len(BodyAt(threshold, p))]) <= VarIntBytes
         /\ Frame(threshold, p) \in Seq(Bytes)
<1>1. p \in Seq(Bytes) \ {<< >>} /\ MaximumLength \in Nat
  BY FramingAssumption
<1>2. Len(p) \in Nat \ {0} /\ Len(ToVarInt[Len(p)]) \in Nat
  BY <1>1, LenProperties, EmptySeq, ToVarIntType
<1>3. Len(p) <= MaximumLength
  BY <1>1, <1>2 DEF FramesFit, WritableAt
<1>4. Len(ToVarInt[Len(p)]) <= VarIntBytes
  BY <1>1, <1>2, <1>3, NumberFits DEF FramesFit
<1>5. Body(p) \in Seq(Bytes) /\ Len(Body(p)) \in Nat \ {0} /\ Decode(Body(p)) = Success(p)
  BY <1>1, <1>4, DecodeBody
<1>6. Len(Body(p)) <= MaximumLength
  <2>1. CASE threshold = NoCompression
    BY <1>3, <2>1 DEF Body
  <2>2. CASE threshold # NoCompression
    <3>1. Len(ToVarInt[Len(p)]) + Len(p) <= MaximumLength
      BY <2>2 DEF FramesFit
    <3>2. CASE Len(p) >= threshold
      <4>1. Body(p) = ToVarInt[Len(p)] \o Reverse(p)
        BY <2>2, <3>2 DEF Body, Deflate
      <4>2. Len(Body(p)) = Len(ToVarInt[Len(p)]) + Len(p)
        BY <1>1, <1>2, <4>1, ReverseType, ToVarIntType, ConcatProperties
      <4>3. QED
        BY <3>1, <4>2
    <3>3. CASE ~(Len(p) >= threshold)
      <4>1. Body(p) = ToVarInt[0] \o p
        BY <2>2, <3>3 DEF Body
      <4>2. Len(Body(p)) = Len(ToVarInt[0]) + Len(p)
        BY <1>1, <1>2, <4>1, ToVarIntType, ConcatProperties
      <4>3. Len(ToVarInt[0]) <= Len(ToVarInt[Len(p)]) /\ Len(ToVarInt[0]) \in Nat
        BY <1>2, ToVarIntLength, ToVarIntType
      <4>4. QED
        BY <1>1, <1>2, <3>1, <4>2, <4>3
    <3>4. QED
      BY <3>2, <3>3
  <2>3. QED
    BY <2>1, <2>2
<1>7. ToVarInt[Len(Body(p))] \in Seq(Bytes) /\ IsVarInt(ToVarInt[Len(Body(p))])
  BY <1>5, ToVarIntType, ToVarIntShape
<1>8. Len(ToVarInt[Len(Body(p))]) <= VarIntBytes
  BY <1>1, <1>5, <1>6, NumberFits DEF FramesFit
<1>9. Body(p) = BodyAt(threshold, p)
  BY DEF Body, BodyAt
<1>10. Frame(threshold, p) \in Seq(Bytes)
  BY <1>5, <1>7, <1>9, ConcatProperties DEF Frame
<1>11. Len(Body(p)) \in 1 .. MaximumLength
  BY <1>1, <1>5, <1>6
<1>12. QED
  BY <1>1, <1>5, <1>7, <1>8, <1>9, <1>10, <1>11

-----------------------------------------------------------------------------
(* The steps *)

LEMMA Lengths ==
  ASSUME Types, Delivered
  PROVE  /\ Len(written) \in Nat /\ Len(results) \in Nat
         /\ Len(written) - Len(results) \in Nat
         /\ \A k \in 1 .. Len(written) - Len(results) :
              /\ Len(results) + k \in 1 .. Len(written)
              /\ written[Len(results) + k] \in Payloads
              /\ WritableAt(threshold, written[Len(results) + k])
<1>1. Len(written) \in Nat /\ Len(results) \in Nat
  BY LenProperties DEF Types
<1>2. \A i \in 1 .. Len(written) : written[i] \in Payloads
  BY ElementOfSeq DEF Types
<1>3. \A k \in 1 .. Len(written) - Len(results) : Len(results) + k \in 1 .. Len(written)
  BY <1>1
<1>4. QED
  BY <1>1, <1>2, <1>3 DEF Types, Delivered

LEMMA MissingType ==
  ASSUME FramesFit, Types, Delivered
  PROVE  Missing(threshold, written, Len(results)) \in Frames(Len(written) - Len(results))
<1>1. \A k \in 1 .. Len(written) - Len(results) :
        Frame(threshold, written[Len(results) + k]) \in Seq(Bytes)
  BY Lengths, FrameType DEF Types
<1>2. QED
  BY <1>1 DEF Missing, Frames

LEMMA InitUntorn ==
  ASSUME Init
  PROVE  Untorn
<1>1. Types
  BY EmptySeq DEF Init, Types
<1>2. Delivered /\ InLength /\ InBody
  BY EmptySeq DEF Init, Delivered, InLength, InBody
<1>3. Missing(threshold, written, Len(results)) \in Frames(0)
  <2>1. written = << >> /\ results = << >> /\ Len(<< >>) = 0
    BY DEF Init
  <2>2. Len(written) - Len(results) = 0
    BY <2>1
  <2>3. QED
    BY <2>2 DEF Missing, Frames
<1>4. Pending
  <2>1. FlattenSeq(Missing(threshold, written, Len(results))) = << >>
    BY <1>3, FlattenNone
  <2>2. << >> \o << >> \o << >> = << >>
    OBVIOUS
  <2>3. QED
    BY <2>1, <2>2 DEF Init, Pending
<1>5. QED
  BY <1>1, <1>2, <1>4 DEF Untorn

\* A packet that is written is one more that is missing (write_packet).
LEMMA WriteStep ==
  ASSUME FramesFit, Untorn, WritePacket
  PROVE  Untorn'
<1> USE DEF Untorn
<1>0. PICK limit : limit = threshold
  OBVIOUS
<1>1. PICK p \in Payloads :
        /\ Writable(p)
        /\ wire' = wire \o ToVarInt[Len(Body(p))] \o Body(p)
        /\ written' = Append(written, p)
  BY DEF WritePacket
<1>2. /\ UNCHANGED << threshold, pc, var_int_buf, data, results, torn >>
      /\ threshold' = limit
  BY <1>0 DEF WritePacket, reader_vars
<1> DEFINE body == BodyAt(limit, p)
<1>3. /\ Len(written) \in Nat /\ Len(results) \in Nat /\ Len(results) <= Len(written)
      /\ Len(written') = Len(written) + 1
      /\ \A i \in 1 .. Len(written) : written'[i] = written[i]
      /\ written'[Len(written) + 1] = p
      /\ written' \in Seq(Payloads)
  BY <1>1, Lengths, AppendProperties DEF Types, Delivered
<1>4. /\ Body(p) = body /\ WritableAt(limit, p)
      /\ IsVarInt(ToVarInt[Len(body)]) /\ ToVarInt[Len(body)] \in Seq(Bytes)
      /\ body \in Seq(Bytes) /\ Frame(limit, p) \in Seq(Bytes)
  <2>1. Body(p) = body /\ WritableAt(threshold, p)
    BY <1>0, <1>1 DEF Body, BodyAt, Writable, WritableAt
  <2>2. QED
    BY <1>0, <2>1, FrameType DEF Types
<1> HIDE DEF body
<1>5. wire' = wire \o Frame(limit, p) /\ wire' \in Seq(Bytes)
  <2>1. wire \in Seq(Bytes)
    BY DEF Types
  <2>2. wire' = wire \o (ToVarInt[Len(body)] \o body)
    BY <1>1, <1>4, <2>1, BytesAssociate
  <2>3. wire' = wire \o Frame(limit, p)
    BY <2>2 DEF Frame, body
  <2>4. QED
    BY <1>4, <2>1, <2>3, ConcatProperties
<1>6. Types'
  <2>1. ASSUME NEW i \in 1 .. Len(written') PROVE WritableAt(limit, written'[i])
    <3>1. CASE i = Len(written) + 1
      BY <1>3, <1>4, <3>1
    <3>2. CASE i # Len(written) + 1
      <4>1. i \in 1 .. Len(written)
        BY <1>3, <3>2
      <4>2. WritableAt(threshold, written[i])
        BY <4>1 DEF Types
      <4>3. QED
        BY <1>0, <1>3, <4>1, <4>2
    <3>3. QED
      BY <3>1, <3>2
  <2>2. QED
    BY <1>2, <1>3, <1>5, <2>1 DEF Types
<1>7. Delivered'
  <2>1. Len(results') = Len(results) /\ Len(results') <= Len(written')
    BY <1>2, <1>3
  <2>2. ASSUME NEW i \in 1 .. Len(results) PROVE results'[i] = Success(written'[i])
    <3>1. i \in 1 .. Len(written)
      BY <1>3
    <3>2. written'[i] = written[i] /\ results[i] = Success(written[i])
      BY <1>3, <3>1 DEF Delivered
    <3>3. QED
      BY <1>2, <3>2
  <2>3. QED
    BY <2>1, <2>2 DEF Delivered, Success
<1>8. Pending'
  <2> DEFINE m == Len(written) - Len(results)
             front == Missing(limit, written, Len(results))
             seqs == Missing(limit, written', Len(results))
  <2>1. m \in Nat /\ Len(written') - Len(results) = m + 1 /\ front \in Frames(m)
    BY <1>0, <1>3, MissingType
  <2>2. seqs = [k \in 1 .. m + 1 |-> Frame(limit, written'[Len(results) + k])]
    BY <2>1 DEF Missing
  <2>3. ASSUME NEW k \in 1 .. m PROVE front[k] = seqs[k]
    <3>1. Len(results) + k \in 1 .. Len(written) /\ k \in 1 .. m + 1
      BY <1>3
    <3>2. written'[Len(results) + k] = written[Len(results) + k]
      BY <1>3, <3>1
    <3>3. front[k] = Frame(limit, written[Len(results) + k])
      BY DEF Missing
    <3>4. QED
      BY <2>2, <3>1, <3>2, <3>3
  <2>4. seqs[m + 1] = Frame(limit, p)
    <3>1. Len(results) + (m + 1) = Len(written) + 1 /\ m + 1 \in 1 .. m + 1
      BY <1>3, <2>1
    <3>2. QED
      BY <1>3, <2>2, <3>1
  <2>5. seqs \in Frames(m + 1)
    <3>1. ASSUME NEW k \in 1 .. m + 1 PROVE seqs[k] \in Seq(Bytes)
      <4>1. CASE k = m + 1
        BY <1>4, <2>4, <4>1
      <4>2. CASE k # m + 1
        <5>1. k \in 1 .. m
          BY <2>1, <4>2
        <5>2. QED
          BY <2>1, <2>3, <5>1 DEF Frames
      <4>3. QED
        BY <4>1, <4>2
    <3>2. QED
      BY <2>2, <3>1 DEF Frames
  <2>6. var_int_buf \o data \o wire = FlattenSeq(front)
    BY <1>0 DEF Pending
  <2>7. Missing(threshold, written, Len(results))' = seqs
    BY <1>2
  <2> HIDE DEF m, front, seqs
  <2>8. FlattenSeq(seqs) = FlattenSeq(front) \o Frame(limit, p)
    BY <2>1, <2>3, <2>4, <2>5, FlattenLast
  <2>9. var_int_buf \o data \in Seq(Bytes) /\ wire \in Seq(Bytes)
    BY ConcatProperties DEF Types
  <2>10. ((var_int_buf \o data) \o wire) \o Frame(limit, p)
           = (var_int_buf \o data) \o (wire \o Frame(limit, p))
    <3>1. PICK s, w, f \in Seq(Bytes) :
            s = var_int_buf \o data /\ w = wire /\ f = Frame(limit, p)
      BY <1>4, <2>9
    <3>2. (s \o w) \o f = s \o (w \o f)
      BY BytesAssociate
    <3>3. QED
      BY <3>1, <3>2
  <2>11. (var_int_buf \o data \o wire)' = FlattenSeq(seqs)
    BY <1>2, <1>5, <2>6, <2>8, <2>10
  <2>12. QED
    BY <2>7, <2>11 DEF Pending
<1>9. InLength'
  BY <1>2 DEF InLength
<1>10. InBody'
  <2>1. CASE pc = "Body"
    <3>1. Len(results) + 1 \in 1 .. Len(written)
      BY <1>3, <2>1 DEF InBody
    <3>2. written'[Len(results) + 1] = written[Len(results) + 1]
      BY <1>3, <3>1
    <3>3. QED
      BY <1>2, <1>3, <2>1, <3>2 DEF InBody
  <2>2. QED
    BY <1>2, <2>1 DEF InBody
<1>11. QED
  BY <1>6, <1>7, <1>8, <1>9, <1>10

\* What is on its way begins with the frame of the next packet.
LEMMA NextFrame ==
  ASSUME FramesFit, Untorn, Len(results) < Len(written)
  PROVE  LET p == written[Len(results) + 1]
             rest == FlattenSeq(Missing(threshold, written, Len(results) + 1))
         IN  /\ p \in Payloads /\ WritableAt(threshold, p)
             /\ rest \in Seq(Bytes)
             /\ var_int_buf \o data \o wire = Frame(threshold, p) \o rest
<1> USE DEF Untorn
<1> DEFINE p == written[Len(results) + 1]
           m == Len(written) - (Len(results) + 1)
           seqs == Missing(threshold, written, Len(results))
           rest == Missing(threshold, written, Len(results) + 1)
<1>1. Len(written) \in Nat /\ Len(results) \in Nat
  BY Lengths
<1>2. m \in Nat /\ Len(written) - Len(results) = m + 1 /\ 1 \in 1 .. m + 1
  BY <1>1
<1>3. seqs \in Frames(m + 1)
  BY <1>2, MissingType
<1>4. p \in Payloads /\ WritableAt(threshold, p)
  BY <1>2, Lengths
<1>5. \A i \in 1 .. m : rest[i] = seqs[i + 1]
  <2>1. ASSUME NEW i \in 1 .. m PROVE rest[i] = seqs[i + 1]
    <3>1. i + 1 \in 1 .. m + 1 /\ (Len(results) + 1) + i = Len(results) + (i + 1)
      BY <1>1, <1>2
    <3>2. rest[i] = Frame(threshold, written[(Len(results) + 1) + i])
      BY DEF Missing
    <3>3. seqs[i + 1] = Frame(threshold, written[Len(results) + (i + 1)])
      BY <1>2, <3>1 DEF Missing
    <3>4. QED
      BY <3>1, <3>2, <3>3
  <2>2. QED
    BY <2>1
<1>6. rest \in Frames(m)
  <2>1. ASSUME NEW i \in 1 .. m PROVE rest[i] \in Seq(Bytes)
    <3>1. i + 1 \in 1 .. m + 1
      BY <1>2
    <3>2. seqs[i + 1] \in Seq(Bytes)
      BY <1>3, <3>1 DEF Frames
    <3>3. QED
      BY <1>5, <3>2
  <2>2. rest = [i \in 1 .. m |-> rest[i]]
    BY DEF Missing
  <2> HIDE DEF rest
  <2>3. QED
    BY <2>1, <2>2 DEF Frames
<1>7. seqs[1] = Frame(threshold, p)
  BY <1>2 DEF Missing
<1>8. var_int_buf \o data \o wire = FlattenSeq(seqs)
  BY DEF Pending
<1>9. /\ FlattenSeq(seqs) = Frame(threshold, p) \o FlattenSeq(rest)
      /\ FlattenSeq(rest) \in Seq(Bytes)
  <2> HIDE DEF m, rest, seqs, p
  <2>1. Shifted(rest, seqs, m)
    BY <1>5 DEF Shifted
  <2>2. QED
    BY <1>2, <1>3, <1>6, <1>7, <2>1, FlattenFirst, FlattenType
<1>10. QED
  BY <1>4, <1>8, <1>9

\* While there is anything on the wire, a packet is missing.
LEMMA SomethingMissing ==
  ASSUME FramesFit, Untorn, wire # << >>
  PROVE  Len(results) < Len(written)
<1> USE DEF Untorn
<1>1. Len(written) \in Nat /\ Len(results) \in Nat /\ Len(results) <= Len(written)
  BY Lengths DEF Delivered
<1>2. ASSUME Len(results) = Len(written) PROVE FALSE
  <2>1. Len(written) - Len(results) = 0
    BY <1>1, <1>2
  <2>2. Missing(threshold, written, Len(results)) \in Frames(0)
    BY <2>1, MissingType
  <2>3. var_int_buf \o data \o wire = << >>
    BY <2>2, FlattenNone DEF Pending
  <2>4. PICK s \in Seq(Bytes) : s = var_int_buf \o data
    BY ConcatProperties DEF Types
  <2>5. wire \in Seq(Bytes) /\ s \o wire = << >>
    BY <2>3, <2>4 DEF Types
  <2>6. Len(s) \in Nat /\ Len(wire) \in Nat \ {0}
    BY <2>5, LenProperties, EmptySeq
  <2>7. Len(s \o wire) = Len(s) + Len(wire)
    BY <2>5, ConcatProperties
  <2>8. Len(s \o wire) = 0
    BY <2>5
  <2>9. QED
    BY <2>6, <2>7, <2>8
<1>3. QED
  BY <1>1, <1>2

\* A byte of the length (read_and_validate_packet_length).
LEMMA ReadLengthStep ==
  ASSUME FramesFit, Untorn, ReadLength
  PROVE  Untorn'
<1> USE DEF Untorn
<1> DEFINE p == written[Len(results) + 1]
           body == BodyAt(threshold, p)
           t == ToVarInt[Len(body)]
           rest == FlattenSeq(Missing(threshold, written, Len(results) + 1))
           n == Append(var_int_buf, Head(wire))
<1>1. /\ pc = "Called" /\ wire # << >> /\ wire' = Tail(wire)
      /\ UNCHANGED << threshold, written, torn >>
  BY DEF ReadLength
<1>2. Len(results) < Len(written)
  BY <1>1, SomethingMissing
<1>3. /\ p \in Payloads /\ WritableAt(threshold, p) /\ rest \in Seq(Bytes)
      /\ var_int_buf \o data \o wire = Frame(threshold, p) \o rest
  BY <1>2, NextFrame
<1>4. /\ body \in Seq(Bytes) /\ Len(body) \in 1 .. MaximumLength
      /\ IsVarInt(t) /\ t \in Seq(Bytes) /\ Len(t) <= VarIntBytes
  <2> HIDE DEF p
  <2>1. QED
    BY <1>3, FrameType DEF Types
<1>5. data = << >> /\ \A i \in 1 .. Len(var_int_buf) : var_int_buf[i].more
  BY <1>1 DEF InLength
<1>6. var_int_buf \in Seq(Bytes) /\ wire \in Seq(Bytes)
  BY DEF Types
<1> HIDE DEF p, t, rest
<1>7. var_int_buf \o wire = t \o (body \o rest) /\ body \o rest \in Seq(Bytes)
  <2>1. var_int_buf \o data = var_int_buf
    BY <1>5, <1>6, ConcatEmptySeq
  <2>2. Frame(threshold, p) \o rest = (t \o body) \o rest
    BY DEF Frame, t
  <2> HIDE DEF body
  <2>3. (t \o body) \o rest = t \o (body \o rest)
    BY <1>3, <1>4, BytesAssociate
  <2>4. body \o rest \in Seq(Bytes)
    BY <1>3, <1>4, ConcatProperties
  <2>5. QED
    BY <1>3, <2>1, <2>2, <2>3, <2>4
<1> HIDE DEF body
<1>8. /\ n \in Seq(Bytes) /\ Len(n) = Len(var_int_buf) + 1 /\ Tail(wire) \in Seq(Bytes)
      /\ n \o Tail(wire) = var_int_buf \o wire
  BY <1>1, <1>6, ByteMoves
<1>9. /\ Len(n) <= Len(t)
      /\ Len(n) = Len(t) => n = t
      /\ Len(n) < Len(t) => \A i \in 1 .. Len(n) : n[i].more
  <2>1. PICK r \in Seq(Bytes) : r = body \o rest
    BY <1>7
  <2>2. SameBytes(var_int_buf, wire, t, r)
    BY <1>7, <2>1 DEF SameBytes
  <2>3. /\ Len(var_int_buf) + 1 <= Len(t)
        /\ Len(var_int_buf) + 1 = Len(t) => n = t
        /\ Len(var_int_buf) + 1 < Len(t) => \A i \in 1 .. Len(n) : n[i].more
    BY <1>1, <1>4, <1>5, <1>6, <2>1, <2>2, LengthByte
  <2> HIDE DEF n
  <2>4. QED
    BY <1>8, <2>3
<1>10. /\ Len(n) \in Nat /\ Len(t) \in Nat /\ Len(body) \in Nat
       /\ MaximumLength \in Nat /\ VarIntBytes \in Nat
  BY <1>4, <1>8, LenProperties, FramingAssumption
<1>11. /\ var_int_buf' = n
       /\ UNCHANGED << data, results >>
       /\ pc' = IF Len(n) = Len(t) THEN "Body" ELSE "Called"
  <2>1. CASE Len(n) = Len(t)
    <3>1. n = t
      BY <1>9, <2>1
    <3>2. VarIntSize(t) = Len(t) /\ Len(t) # 0
      <4>1. t \o << >> = t /\ << >> \in Seq(Bytes) /\ t # << >>
        BY <1>4, ConcatEmptySeq, EmptySeq DEF IsVarInt
      <4>2. VarIntSize(t \o << >>) = Len(t)
        BY <1>4, <4>1, VarIntSizeWhole
      <4>3. QED
        BY <1>4, <4>1, <4>2, EmptySeq
    <3>3. VarIntValue[t] = Len(body)
      BY <1>10, VarIntRoundTrip DEF t
    <3>4. VarIntSize(n) # 0 /\ ~(VarIntValue[n] > MaximumLength) /\ VarIntValue[n] # 0
      <4> HIDE DEF n
      <4>1. QED
        BY <1>4, <1>10, <3>1, <3>2, <3>3
    <3>5. QED
      BY <2>1, <3>4 DEF ReadLength
  <2>2. CASE Len(n) # Len(t)
    <3>1. Len(n) < Len(t) /\ Len(n) < VarIntBytes
      <4> HIDE DEF n
      <4>1. QED
        BY <1>4, <1>9, <1>10, <2>2
    <3>2. VarIntSize(n) = 0
      <4> HIDE DEF n
      <4>1. QED
        BY <1>8, <1>9, <3>1, VarIntSizeNone
    <3>3. QED
      BY <1>1, <2>2, <3>1, <3>2 DEF ReadLength
  <2>3. QED
    BY <2>1, <2>2
<1> HIDE DEF n
<1>12. Types'
  BY <1>1, <1>8, <1>11 DEF Types
<1>13. Delivered'
  BY <1>1, <1>11 DEF Delivered, Success
<1>14. Pending'
  <2>1. n \o data \o Tail(wire) = var_int_buf \o data \o wire
    <3>1. n \o data = n /\ var_int_buf \o data = var_int_buf
      BY <1>5, <1>6, <1>8, ConcatEmptySeq
    <3>2. QED
      BY <1>8, <3>1
  <2>2. QED
    BY <1>1, <1>11, <2>1 DEF Pending
<1>15. InLength'
  <2>1. pc' = "Called" => Len(n) < Len(t)
    BY <1>9, <1>10, <1>11
  <2>2. QED
    BY <1>5, <1>9, <1>11, <2>1 DEF InLength
<1>16. InBody'
  <2>1. ASSUME pc' = "Body"
        PROVE  n = t /\ Len(data) < Len(body)
    BY <1>4, <1>5, <1>9, <1>11, <2>1
  <2>2. QED
    BY <1>1, <1>2, <1>11, <2>1 DEF InBody, t, body, p
<1>17. QED
  BY <1>12, <1>13, <1>14, <1>15, <1>16

\* A byte of the body: when it is whole, it is the packet (read_packet).
LEMMA ReadBodyStep ==
  ASSUME FramesFit, Untorn, ReadBody
  PROVE  Untorn'
<1> USE DEF Untorn
<1> DEFINE p == written[Len(results) + 1]
           body == BodyAt(threshold, p)
           t == ToVarInt[Len(body)]
           rest == FlattenSeq(Missing(threshold, written, Len(results) + 1))
           n == Append(data, Head(wire))
<1>1. /\ pc = "Body" /\ wire # << >> /\ wire' = Tail(wire)
      /\ UNCHANGED << threshold, written, torn >>
  BY DEF ReadBody
<1>2. Len(results) < Len(written) /\ var_int_buf = t /\ Len(data) < Len(body)
  BY <1>1 DEF InBody
<1>3. /\ p \in Payloads /\ WritableAt(threshold, p) /\ rest \in Seq(Bytes)
      /\ var_int_buf \o data \o wire = Frame(threshold, p) \o rest
  BY <1>2, NextFrame
<1>4. /\ body \in Seq(Bytes) /\ Len(body) \in 1 .. MaximumLength /\ t \in Seq(Bytes)
      /\ Decode(body) = Success(p)
  <2> HIDE DEF p
  <2>1. body = Body(p) /\ Writable(p)
    BY <1>3 DEF Body, BodyAt, Writable, WritableAt
  <2>2. QED
    BY <1>3, <2>1, FrameType DEF Types
<1>5. data \in Seq(Bytes) /\ wire \in Seq(Bytes)
  BY DEF Types
<1>6. Len(written) \in Nat /\ Len(results) \in Nat /\ Len(data) \in Nat /\ Len(body) \in Nat
  BY <1>4, <1>5, LenProperties, Lengths
<1>7. Frame(threshold, p) \o rest = (t \o body) \o rest
  BY DEF Frame
<1> HIDE DEF p, t, rest, body
<1>8. data \o wire = body \o rest /\ body \o rest \in Seq(Bytes)
  <2>1. (t \o data) \o wire = t \o (data \o wire) /\ (t \o body) \o rest = t \o (body \o rest)
    BY <1>3, <1>4, <1>5, BytesAssociate
  <2>2. data \o wire \in Seq(Bytes) /\ body \o rest \in Seq(Bytes)
    BY <1>3, <1>4, <1>5, ConcatProperties
  <2>3. t \o (data \o wire) = t \o (body \o rest)
    BY <1>2, <1>3, <1>7, <2>1
  <2>4. PICK u, v \in Seq(Bytes) : u = data \o wire /\ v = body \o rest
    BY <2>2
  <2>5. u = v
    BY <1>4, <2>3, <2>4, ConcatSimplifications
  <2>6. QED
    BY <2>2, <2>4, <2>5
<1>9. /\ n \in Seq(Bytes) /\ Len(n) = Len(data) + 1 /\ Tail(wire) \in Seq(Bytes)
      /\ n \o Tail(wire) = data \o wire
  BY <1>1, <1>5, ByteMoves
<1>10. VarIntValue[var_int_buf] = Len(body)
  BY <1>2, <1>6, VarIntRoundTrip DEF t
<1>11. CASE Len(data) + 1 < Len(body)
  <2>1. data' = n /\ UNCHANGED << pc, var_int_buf, results >>
    BY <1>10, <1>11 DEF ReadBody
  <2>2. Types'
    BY <1>1, <1>9, <2>1 DEF Types
  <2>3. Delivered' /\ InLength'
    BY <1>1, <2>1 DEF Delivered, Success, InLength
  <2>4. Pending'
    <3>1. t \o n \o Tail(wire) = t \o data \o wire
      <4>1. (t \o n) \o Tail(wire) = t \o (n \o Tail(wire))
            /\ (t \o data) \o wire = t \o (data \o wire)
        BY <1>4, <1>5, <1>9, BytesAssociate
      <4>2. QED
        BY <1>9, <4>1
    <3>2. QED
      BY <1>1, <1>2, <2>1, <3>1 DEF Pending
  <2>5. InBody'
    BY <1>1, <1>2, <1>9, <1>11, <2>1 DEF InBody, t, body, p
  <2>6. QED
    BY <2>2, <2>3, <2>4, <2>5
<1>12. CASE ~(Len(data) + 1 < Len(body))
  <2>1. Len(n) = Len(body)
    BY <1>2, <1>6, <1>9, <1>12
  <2>2. n = body /\ Tail(wire) = rest
    <3>1. SameBytes(n, Tail(wire), body, rest)
      BY <1>8, <1>9 DEF SameBytes
    <3> HIDE DEF n
    <3>2. Len(n) <= Len(body)
      BY <1>6, <2>1
    <3>3. PICK u \in Seq(Bytes) : u = Tail(wire)
      BY <1>9
    <3>4. SameBytes(n, u, body, rest)
      BY <3>1, <3>3
    <3>5. QED
      BY <1>3, <1>4, <1>9, <2>1, <3>2, <3>3, <3>4, SameStart
  <2>3. /\ results' = Append(results, Decode(body))
        /\ pc' = "Called" /\ var_int_buf' = << >> /\ data' = << >>
    BY <1>10, <1>12, <2>2 DEF ReadBody, Return
  <2>4. results' = Append(results, Success(p)) /\ Success(p) \in PayloadRead
    BY <1>3, <1>4, <2>3 DEF Success, PayloadRead
  <2>5. /\ Len(results') = Len(results) + 1
        /\ \A i \in 1 .. Len(results) : results'[i] = results[i]
        /\ results'[Len(results) + 1] = Success(p)
        /\ results' \in Seq(PayloadRead)
    BY <2>4, AppendProperties DEF Types
  <2>6. Types'
    BY <1>1, <1>9, <2>3, <2>5, EmptySeq DEF Types
  <2>7. Delivered'
    <3>1. Len(results') <= Len(written')
      BY <1>1, <1>2, <1>6, <2>5
    <3>2. ASSUME NEW i \in 1 .. Len(results') PROVE results'[i] = Success(written'[i])
      <4>1. CASE i = Len(results) + 1
        BY <1>1, <2>5, <4>1 DEF p
      <4>2. CASE i # Len(results) + 1
        <5>1. i \in 1 .. Len(results)
          BY <1>6, <2>5, <4>2
        <5>2. QED
          BY <1>1, <2>5, <5>1 DEF Delivered
      <4>3. QED
        BY <4>1, <4>2
    <3>3. QED
      BY <3>1, <3>2 DEF Delivered, Success
  <2>8. Pending'
    <3>1. << >> \o << >> \o Tail(wire) = Tail(wire)
      BY <1>9, ConcatEmptySeq, EmptySeq
    <3>2. FlattenSeq(Missing(threshold, written, Len(results)))' = rest
      BY <1>1, <2>5 DEF rest
    <3>3. QED
      BY <1>1, <2>2, <2>3, <3>1, <3>2 DEF Pending
  <2>9. InLength' /\ InBody'
    BY <2>3 DEF InLength, InBody
  <2>10. QED
    BY <2>6, <2>7, <2>8, <2>9
<1>13. QED
  BY <1>11, <1>12

\* A timer between two frames takes nothing away.
LEMMA TimerStep ==
  ASSUME FramesFit, Untorn, TimerWins, ~torn'
  PROVE  Untorn'
<1> USE DEF Untorn
<1>1. /\ var_int_buf = << >> /\ UNCHANGED << threshold, wire, written, results >>
      /\ pc' = "Called" /\ var_int_buf' = << >> /\ data' = << >>
  BY DEF TimerWins
<1>2. pc = "Called"
  <2>1. ASSUME pc = "Body" PROVE FALSE
    <3>1. Len(results) < Len(written)
          /\ var_int_buf = ToVarInt[Len(BodyAt(threshold, written[Len(results) + 1]))]
      BY <2>1 DEF InBody
    <3>2. written[Len(results) + 1] \in Payloads
          /\ WritableAt(threshold, written[Len(results) + 1])
      BY <3>1, NextFrame
    <3>3. IsVarInt(var_int_buf)
      BY <3>1, <3>2, FrameType DEF Types
    <3>4. QED
      BY <1>1, <3>3 DEF IsVarInt
  <2>2. QED
    BY <2>1 DEF Types
<1>3. data = << >>
  BY <1>2 DEF InLength
<1>4. UNCHANGED << threshold, wire, written, results, pc, var_int_buf, data >>
  BY <1>1, <1>2, <1>3
<1>5. QED
  BY <1>4 DEF Types, Delivered, Success, Pending, InLength, InBody

LEMMA FramingStep ==
  ASSUME FramesFit, FramingInv, [Next]_vars
  PROVE  FramingInv'
<1> SUFFICES ASSUME ~torn' PROVE Untorn'
  BY DEF FramingInv
<1>1. ~torn
  BY DEF Next, Read, WritePacket, ReadLength, ReadBody, TimerWins, vars
<1>2. Untorn
  BY <1>1 DEF FramingInv
<1>3. CASE WritePacket
  BY <1>2, <1>3, WriteStep
<1>4. CASE ReadLength
  BY <1>2, <1>4, ReadLengthStep
<1>5. CASE ReadBody
  BY <1>2, <1>5, ReadBodyStep
<1>6. CASE TimerWins
  BY <1>2, <1>6, TimerStep
<1>7. CASE UNCHANGED vars
  BY <1>2, <1>7
  DEF Untorn, Types, Delivered, Success, Pending, InLength, InBody, vars, reader_vars
<1>8. QED
  BY <1>3, <1>4, <1>5, <1>6, <1>7 DEF Next, Read

LEMMA FramingInvariant ==
  ASSUME FramesFit
  PROVE  Spec => []FramingInv
<1>1. Init => FramingInv
  BY InitUntorn DEF FramingInv
<1>2. FramingInv /\ [Next]_vars => FramingInv'
  BY FramingStep
<1>3. QED
  BY <1>1, <1>2, PTL DEF Spec

\* Nothing is skipped and nothing read twice, whatever the packets, the threshold
\* and the base, and however the bytes arrive (read_packet): what is held and what
\* is on the wire are the frames of the packets not returned yet.
THEOREM NothingIsLost ==
  ASSUME FramesFit
  PROVE  Spec => []NothingLost
<1>1. FramingInv => NothingLost
  <2>1. ASSUME Untorn
        PROVE  var_int_buf \o data \o wire
                 = FlattenSeq(Missing(threshold, written, Len(results)))
    BY <2>1 DEF Untorn, Pending
  <2>2. \A p : Body(p) = BodyAt(threshold, p)
    BY DEF Body, BodyAt
  <2>3. Missing(threshold, written, Len(results))
          = [k \in 1 .. Len(written) - Len(results) |->
               ToVarInt[Len(Body(written[Len(results) + k]))] \o Body(written[Len(results) + k])]
    BY <2>2 DEF Missing, Frame
  <2>4. QED
    BY <2>1, <2>3 DEF FramingInv, NothingLost
<1>2. QED
  BY <1>1, FramingInvariant, PTL

\* The packets that were written are returned, in order and unchanged
\* (read_packet, across timers between two frames).
THEOREM PacketsArriveInOrder ==
  ASSUME FramesFit
  PROVE  Spec => []PacketsInOrder
<1>1. FramingInv => PacketsInOrder
  <2>1. ASSUME Untorn PROVE Delivered /\ DOMAIN results = 1 .. Len(results)
    BY <2>1, LenProperties DEF Untorn, Types
  <2>2. QED
    BY <2>1 DEF FramingInv, PacketsInOrder, Delivered
<1>2. QED
  BY <1>1, FramingInvariant, PTL
=============================================================================
