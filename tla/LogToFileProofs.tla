---------------------------- MODULE LogToFileProofs ----------------------------
(***************************************************************************)
(* Theorems of LogToFile, for any number of loggers and of lines, lines of *)
(* any length and buffers and files of any size.                           *)
(*                                                                         *)
(* What FlattenSeq computes is proved by induction over the length of its  *)
(* argument, with sets of numbers in the place of predicates.              *)
(***************************************************************************)
EXTENDS LogToFile, SequenceTheorems, WellFoundedInduction, TLAPS

-------------------------------------------------------------------------------
(* Induction *)

LEMMA LeastNatural ==
  ASSUME NEW T \in SUBSET Nat, T # {}
  PROVE  \E x \in T : \A y \in T : x <= y
<1> DEFINE R == OpToRel(<, Nat)
<1>1. IsWellFoundedOn(R, Nat)
  BY NatLessThanWellFounded
<1>2. \A x, y \in Nat : x < y => <<x, y>> \in R
  BY DEF OpToRel
<1> HIDE DEF R
<1>3. PICK x \in T : \A y \in T : ~ (<<y, x>> \in R)
  BY <1>1, WFMin
<1>4. ASSUME NEW y \in T
      PROVE  x <= y
  <2>1. x \in Nat /\ y \in Nat
    OBVIOUS
  <2>2. ~(y < x)
    BY <1>2, <1>3, <2>1
  <2> QED
    BY <2>1, <2>2
<1> QED
  BY <1>4

\* A set of numbers up to n that begins with 0 and goes on is all of them.
LEMMA IntervalInduction ==
  ASSUME NEW n \in Nat, NEW S, 0 \in S, \A i \in 0 .. n - 1 : i \in S => i + 1 \in S
  PROVE  \A i \in 0 .. n : i \in S
<1> DEFINE T == {i \in 0 .. n : i \notin S}
<1>1. CASE T # {}
  <2>1. T \in SUBSET Nat
    OBVIOUS
  <2>2. PICK x \in T : \A y \in T : x <= y
    <3> HIDE DEF T
    <3> QED
      BY <1>1, <2>1, LeastNatural
  <2>3. x \in 0 .. n /\ x # 0 /\ x \notin S
    OBVIOUS
  <2>4. x - 1 \in 0 .. n - 1 /\ x - 1 \in 0 .. n /\ ~(x <= x - 1) /\ (x - 1) + 1 = x
    BY <2>3
  <2>5. x - 1 \in S
    BY <2>2, <2>4
  <2> QED
    BY <2>3, <2>4, <2>5
<1>2. CASE T = {}
  BY <1>2
<1> QED
  BY <1>1, <1>2

-------------------------------------------------------------------------------
(* FlattenSeq *)

LEMMA Associate ==
  ASSUME NEW S
  PROVE  \A x, y, z \in Seq(S) : (x \o y) \o z = x \o (y \o z)
BY ConcatAssociative

LEMMA AssociateThree ==
  ASSUME NEW S, NEW a, NEW b, NEW c, a \in Seq(S), b \in Seq(S), c \in Seq(S)
  PROVE  (a \o b) \o c = a \o (b \o c)
BY Associate

\* The sequences of s are the first ones of t.
Begins(s, t) == Len(s) <= Len(t) /\ \A i \in 1 .. Len(s) : s[i] = t[i]

\* j[i] is what the first i sequences of s are together.
Joins(S, j, s) ==
    /\ j \in [0 .. Len(s) -> Seq(S)]
    /\ j[0] = <<>>
    /\ \A i \in 1 .. Len(s) : j[i] = j[i - 1] \o s[i]

LEMMA JoinsExist ==
  ASSUME NEW S, NEW s \in Seq(Seq(S))
  PROVE  \E j : Joins(S, j, s)
<1> DEFINE Upto(n, j) == /\ j \in [0 .. n -> Seq(S)] /\ j[0] = <<>>
                         /\ \A i \in 1 .. n : j[i] = j[i - 1] \o s[i]
           T == {n \in 0 .. Len(s) : \E j : Upto(n, j)}
<1>1. Len(s) \in Nat /\ \A i \in 1 .. Len(s) : s[i] \in Seq(S)
  BY LenProperties, ElementOfSeq
<1>2. 0 \in T
  <2> DEFINE j == [i \in 0 .. 0 |-> <<>>]
  <2>1. j \in [0 .. 0 -> Seq(S)] /\ j[0] = <<>>
    BY EmptySeq
  <2> HIDE DEF j
  <2>2. Upto(0, j)
    BY <2>1
  <2>3. 0 \in 0 .. Len(s)
    BY <1>1
  <2> HIDE DEF Upto
  <2> QED
    BY <2>2, <2>3
<1>3. ASSUME NEW n \in 0 .. Len(s) - 1, n \in T
      PROVE  n + 1 \in T
  <2>1. PICK j : Upto(n, j)
    BY <1>3
  <2>2. n \in Nat /\ n + 1 \in 1 .. Len(s) /\ n \in 0 .. n
    BY <1>1
  <2>3. j[n] \o s[n + 1] \in Seq(S)
    BY <1>1, <2>1, <2>2, ConcatProperties
  <2> DEFINE h == [i \in 0 .. n + 1 |-> IF i = n + 1 THEN j[n] \o s[n + 1] ELSE j[i]]
  <2>4. h \in [0 .. n + 1 -> Seq(S)]
    BY <2>1, <2>2, <2>3
  <2>5. h[n + 1] = j[n] \o s[n + 1] /\ \A i \in 0 .. n : h[i] = j[i]
    <3>1. n + 1 \in 0 .. n + 1 /\ \A i \in 0 .. n : i \in 0 .. n + 1 /\ i # n + 1
      BY <2>2
    <3> QED
      BY <3>1
  <2> HIDE DEF h
  <2>6. h[0] = <<>>
    BY <2>1, <2>2, <2>5
  <2>7. ASSUME NEW i \in 1 .. n + 1
        PROVE  h[i] = h[i - 1] \o s[i]
    <3>1. CASE i = n + 1
      <4>1. i - 1 = n
        BY <2>2, <3>1
      <4> QED
        BY <2>2, <2>5, <3>1, <4>1
    <3>2. CASE i # n + 1
      <4>1. i \in 1 .. n /\ i \in 0 .. n /\ i - 1 \in 0 .. n
        BY <2>2, <3>2
      <4> QED
        BY <2>1, <2>5, <4>1
    <3> QED
      BY <3>1, <3>2
  <2>8. Upto(n + 1, h)
    BY <2>4, <2>6, <2>7
  <2>9. n + 1 \in 0 .. Len(s)
    BY <2>2
  <2> HIDE DEF Upto
  <2> QED
    BY <2>8, <2>9
<1>4. Len(s) \in T
  <2> HIDE DEF T
  <2>1. Len(s) \in 0 .. Len(s)
    BY <1>1
  <2> QED
    BY <1>1, <1>2, <1>3, <2>1, IntervalInduction
<1>5. PICK j : Upto(Len(s), j)
  BY <1>4
<1> QED
  BY <1>5 DEF Joins

\* What is joined depends on the sequences only.
LEMMA JoinsUnique ==
  ASSUME NEW S, NEW s \in Seq(Seq(S)), NEW t \in Seq(Seq(S)), NEW j, NEW h,
         Joins(S, j, s), Joins(S, h, t), Begins(s, t)
  PROVE  \A i \in 0 .. Len(s) : j[i] = h[i]
<1> DEFINE T == {i \in 0 .. Len(s) : j[i] = h[i]}
<1>1. Len(s) \in Nat /\ Len(t) \in Nat /\ Len(s) <= Len(t) /\ \A i \in 1 .. Len(s) : s[i] = t[i]
  BY LenProperties DEF Begins
<1>2. 0 \in T
  BY <1>1 DEF Joins
<1>3. ASSUME NEW i \in 0 .. Len(s) - 1, i \in T
      PROVE  i + 1 \in T
  <2>1. /\ i + 1 \in 1 .. Len(s) /\ i + 1 \in 1 .. Len(t) /\ (i + 1) - 1 = i
        /\ i + 1 \in 0 .. Len(s)
    BY <1>1
  <2>2. j[i + 1] = j[i] \o s[i + 1] /\ h[i + 1] = h[i] \o t[i + 1]
    BY <2>1 DEF Joins
  <2>3. s[i + 1] = t[i + 1]
    BY <1>1, <2>1
  <2> QED
    BY <1>3, <2>1, <2>2, <2>3
<1>4. \A i \in 0 .. Len(s) : i \in T
  <2> HIDE DEF T
  <2> QED
    BY <1>1, <1>2, <1>3, IntervalInduction
<1> QED
  BY <1>4

LEMMA FlattenJoins ==
  ASSUME NEW S, NEW s \in Seq(Seq(S)), NEW j, Joins(S, j, s)
  PROVE  FlattenSeq(s) = j[Len(s)] /\ FlattenSeq(s) \in Seq(S)
<1> DEFINE Flat(f) == f = [i \in 1 .. Len(s) |-> IF i = 1 THEN s[i] ELSE f[i - 1] \o s[i]]
<1>1. Len(s) \in Nat /\ \A i \in 1 .. Len(s) : s[i] \in Seq(S)
  BY LenProperties, ElementOfSeq
<1>2. Len(s) \in 0 .. Len(s) /\ j[Len(s)] \in Seq(S)
  BY <1>1 DEF Joins
<1>3. CASE Len(s) = 0
  <2>1. s = <<>> /\ FlattenSeq(s) = s
    BY <1>3, EmptySeq DEF FlattenSeq
  <2> QED
    BY <1>2, <1>3, <2>1 DEF Joins
<1>4. CASE Len(s) # 0
  <2> DEFINE f == [i \in 1 .. Len(s) |-> j[i]]
  <2>1. Flat(f)
    <3>1. ASSUME NEW i \in 1 .. Len(s)
          PROVE  f[i] = IF i = 1 THEN s[i] ELSE f[i - 1] \o s[i]
      <4>1. j[i] = j[i - 1] \o s[i] /\ f[i] = j[i]
        BY DEF Joins
      <4>2. CASE i = 1
        <5>1. j[i - 1] = <<>> /\ s[i] \in Seq(S)
          BY <1>1, <4>2 DEF Joins
        <5> QED
          BY <4>1, <4>2, <5>1, ConcatEmptySeq
      <4>3. CASE i # 1
        <5>1. i - 1 \in 1 .. Len(s)
          BY <1>1, <4>3
        <5> QED
          BY <4>1, <4>3, <5>1
      <4> QED
        BY <4>2, <4>3
    <3>2. f = [i \in 1 .. Len(s) |-> f[i]]
      OBVIOUS
    <3> HIDE DEF f
    <3> QED
      BY <3>1, <3>2
  <2> DEFINE g == CHOOSE e : Flat(e)
  <2>2. FlattenSeq(s) = g[Len(s)]
    BY <1>4 DEF FlattenSeq
  <2>3. Flat(g)
    <3> HIDE DEF Flat, f
    <3> QED
      BY <2>1
  <2> HIDE DEF g
  <2>4. \A i \in 1 .. Len(s) : g[i] = IF i = 1 THEN s[i] ELSE g[i - 1] \o s[i]
    BY <2>3
  <2> DEFINE T == {i \in 0 .. Len(s) : i = 0 \/ g[i] = j[i]}
  <2>5. 0 \in T
    BY <1>1
  <2>6. ASSUME NEW i \in 0 .. Len(s) - 1, i \in T
        PROVE  i + 1 \in T
    <3>1. i + 1 \in 1 .. Len(s) /\ (i + 1) - 1 = i /\ i + 1 \in 0 .. Len(s)
      BY <1>1
    <3>2. j[i + 1] = j[i] \o s[i + 1]
      BY <3>1 DEF Joins
    <3>3. CASE i = 0
      <4>1. g[i + 1] = s[i + 1] /\ j[i] = <<>>
        BY <2>4, <3>1, <3>3 DEF Joins
      <4>2. s[i + 1] \in Seq(S)
        BY <1>1, <3>1
      <4>3. <<>> \o s[i + 1] = s[i + 1]
        BY <4>2, ConcatEmptySeq
      <4> QED
        BY <3>1, <3>2, <4>1, <4>3
    <3>4. CASE i # 0
      <4>1. i + 1 # 1
        BY <3>1, <3>4
      <4>2. g[i + 1] = g[i] \o s[i + 1]
        BY <2>4, <3>1, <4>1
      <4> QED
        BY <2>6, <3>1, <3>2, <3>4, <4>2
    <3> QED
      BY <3>3, <3>4
  <2>7. Len(s) \in T
    <3> HIDE DEF T
    <3> QED
      BY <1>1, <1>2, <2>5, <2>6, IntervalInduction
  <2> QED
    BY <1>2, <1>4, <2>2, <2>7
<1> QED
  BY <1>3, <1>4

LEMMA FlattenTyped ==
  ASSUME NEW S, NEW s \in Seq(Seq(S))
  PROVE  FlattenSeq(s) \in Seq(S)
BY JoinsExist, FlattenJoins

\* The sequences of s and then those of t.
LEMMA FlattenConcat ==
  ASSUME NEW S
  PROVE  \A s, t \in Seq(Seq(S)) : FlattenSeq(s \o t) = FlattenSeq(s) \o FlattenSeq(t)
<1>0. SUFFICES ASSUME NEW s, NEW t, s \in Seq(Seq(S)), t \in Seq(Seq(S))
               PROVE  FlattenSeq(s \o t) = FlattenSeq(s) \o FlattenSeq(t)
  OBVIOUS
<1> DEFINE u == s \o t
<1>1. /\ u \in Seq(Seq(S)) /\ Len(u) = Len(s) + Len(t)
      /\ Len(s) \in Nat /\ Len(t) \in Nat
      /\ \A i \in 1 .. Len(s) + Len(t) : u[i] = IF i <= Len(s) THEN s[i] ELSE t[i - Len(s)]
  BY <1>0, ConcatProperties, LenProperties
<1> HIDE DEF u
<1>2. PICK g : Joins(S, g, s)
  BY <1>0, JoinsExist
<1>3. PICK h : Joins(S, h, t)
  BY <1>0, JoinsExist
<1>4. PICK k : Joins(S, k, u)
  BY <1>1, JoinsExist
<1>5. \A i \in 1 .. Len(s) : s[i] = u[i]
  BY <1>1
<1>6. Len(s) <= Len(u) /\ Len(s) \in 0 .. Len(s)
  BY <1>1
<1>7. g[Len(s)] = k[Len(s)] /\ g[Len(s)] \in Seq(S)
  <2>1. \A i \in 0 .. Len(s) : g[i] = k[i]
    <3>1. u \in Seq(Seq(S)) /\ Begins(s, u)
      BY <1>1, <1>5, <1>6 DEF Begins
    <3> QED
      BY <1>0, <1>2, <1>4, <3>1, JoinsUnique
  <2>2. g[Len(s)] \in Seq(S)
    BY <1>2, <1>6 DEF Joins
  <2> QED
    BY <1>6, <2>1, <2>2
<1> DEFINE T == {i \in 0 .. Len(t) : k[Len(s) + i] = g[Len(s)] \o h[i]}
<1>8. 0 \in T
  <2>1. Len(s) + 0 = Len(s) /\ 0 \in 0 .. Len(t) /\ h[0] = <<>>
    BY <1>1, <1>3 DEF Joins
  <2>2. g[Len(s)] \o <<>> = g[Len(s)]
    BY <1>7, ConcatEmptySeq
  <2> QED
    BY <1>7, <2>1, <2>2
<1>9. ASSUME NEW i \in 0 .. Len(t) - 1, i \in T
      PROVE  i + 1 \in T
  <2>1. /\ i + 1 \in 1 .. Len(t) /\ (i + 1) - 1 = i /\ i \in 0 .. Len(t) /\ i + 1 \in 0 .. Len(t)
        /\ Len(s) + (i + 1) \in 1 .. Len(u) /\ (Len(s) + (i + 1)) - 1 = Len(s) + i
        /\ ~(Len(s) + (i + 1) <= Len(s)) /\ (Len(s) + (i + 1)) - Len(s) = i + 1
    BY <1>1
  <2>2. k[Len(s) + (i + 1)] = k[Len(s) + i] \o u[Len(s) + (i + 1)]
    BY <1>4, <2>1 DEF Joins
  <2>3. u[Len(s) + (i + 1)] = t[i + 1]
    BY <1>1, <2>1
  <2>4. h[i + 1] = h[i] \o t[i + 1] /\ h[i] \in Seq(S) /\ t[i + 1] \in Seq(S)
    BY <1>0, <1>3, <2>1, ElementOfSeq DEF Joins
  <2> DEFINE a == g[Len(s)]
             b == h[i]
             c == t[i + 1]
  <2>5. (a \o b) \o c = a \o (b \o c)
    <3>1. a \in Seq(S) /\ b \in Seq(S) /\ c \in Seq(S)
      BY <1>7, <2>4
    <3> HIDE DEF a, b, c
    <3> QED
      BY <3>1, AssociateThree
  <2>6. k[Len(s) + i] = a \o b
    BY <1>9
  <2>7. k[Len(s) + (i + 1)] = a \o h[i + 1]
    BY <2>2, <2>3, <2>4, <2>5, <2>6
  <2> QED
    BY <2>1, <2>7
<1>10. Len(t) \in T
  <2>1. Len(t) \in 0 .. Len(t)
    BY <1>1
  <2> HIDE DEF T
  <2> QED
    BY <1>1, <1>8, <1>9, <2>1, IntervalInduction
<1>11. k[Len(s) + Len(t)] = g[Len(s)] \o h[Len(t)]
  BY <1>10
<1> QED
  BY <1>0, <1>1, <1>2, <1>3, <1>4, <1>11, FlattenJoins DEF u

LEMMA FlattenOne ==
  ASSUME NEW S, NEW x \in Seq(S)
  PROVE  <<x>> \in Seq(Seq(S)) /\ FlattenSeq(<<x>>) = x
<1> DEFINE s == <<x>>
<1>1. s \in Seq(Seq(S)) /\ Len(s) = 1 /\ s[1] = x
  OBVIOUS
<1> HIDE DEF s
<1>2. PICK j : Joins(S, j, s)
  BY <1>1, JoinsExist
<1>3. j[1] = j[0] \o s[1] /\ j[0] = <<>>
  <2>1. 1 \in 1 .. Len(s) /\ 1 - 1 = 0
    BY <1>1
  <2>2. j[1] = j[1 - 1] \o s[1]
    BY <1>2, <2>1 DEF Joins
  <2> QED
    BY <1>2, <2>1, <2>2 DEF Joins
<1>4. j[1] = x
  BY <1>1, <1>3, ConcatEmptySeq
<1>5. FlattenSeq(s) = x
  BY <1>1, <1>2, <1>4, FlattenJoins
<1> QED
  BY <1>1, <1>5 DEF s

LEMMA FlattenEmpty == FlattenSeq(<<>>) = <<>>
BY EmptySeq DEF FlattenSeq

\* The first sequence, and then the others.
LEMMA FlattenHead ==
  ASSUME NEW S, NEW s \in Seq(Seq(S)), s # <<>>
  PROVE  /\ Head(s) \in Seq(S) /\ Tail(s) \in Seq(Seq(S))
         /\ FlattenSeq(s) = Head(s) \o FlattenSeq(Tail(s))
<1> DEFINE h == Head(s)
           t == Tail(s)
<1>1. /\ h \in Seq(S) /\ t \in Seq(Seq(S)) /\ Len(t) = Len(s) - 1 /\ h = s[1]
      /\ \A i \in 1 .. Len(t) : t[i] = s[i + 1]
  BY HeadTailProperties
<1> HIDE DEF h, t
<1>2. <<h>> \in Seq(Seq(S)) /\ Len(<<h>>) = 1 /\ <<h>>[1] = h /\ FlattenSeq(<<h>>) = h
  BY <1>1, FlattenOne
<1>3. <<h>> \o t = s
  <2>1. Len(s) \in Nat
    BY LenProperties
  <2> DEFINE u == <<h>>
             v == u \o t
  <2> HIDE DEF u
  <2>2. u \in Seq(Seq(S)) /\ Len(u) = 1 /\ u[1] = h
    BY <1>2 DEF u
  <2>3. /\ v \in Seq(Seq(S)) /\ Len(v) = Len(u) + Len(t)
        /\ \A i \in 1 .. Len(u) + Len(t) : v[i] = IF i <= Len(u) THEN u[i] ELSE t[i - Len(u)]
    <3>1. u \in Seq(Seq(S)) /\ t \in Seq(Seq(S))
      BY <1>1, <2>2
    <3> QED
      BY <3>1, ConcatProperties
  <2> HIDE DEF v
  <2>4. Len(v) = Len(s)
    BY <1>1, <2>1, <2>2, <2>3
  <2>5. ASSUME NEW i \in 1 .. Len(s)
        PROVE  v[i] = s[i]
    <3>1. CASE i = 1
      BY <1>1, <2>1, <2>2, <2>3, <2>4, <3>1
    <3>2. CASE i # 1
      <4>1. i - 1 \in 1 .. Len(t) /\ (i - 1) + 1 = i /\ ~(i <= 1)
        BY <1>1, <2>1, <3>2
      <4> QED
        BY <1>1, <2>2, <2>3, <2>4, <4>1
    <3> QED
      BY <3>1, <3>2
  <2>6. v = s
    BY <2>3, <2>4, <2>5, SeqEqual
  <2> QED
    BY <2>6 DEF u, v
<1>4. FlattenSeq(<<h>> \o t) = h \o FlattenSeq(t)
  BY <1>1, <1>2, FlattenConcat
<1> QED
  BY <1>1, <1>3, <1>4 DEF h, t

-------------------------------------------------------------------------------
(* The sequences of the log *)

\* A line, whatever its number.
Entry == [num : Nat, len : Lengths]

LEMMA Associates ==
  \A a, b, c \in Seq(Entry) : (a \o b) \o c = a \o (b \o c)
BY Associate

LEMMA Flattened == \A s \in Seq(Seq(Entry)) : FlattenSeq(s) \in Seq(Entry)
BY FlattenTyped

LEMMA Joined == \A a, b \in Seq(Entry) : a \o b \in Seq(Entry) /\ Len(a \o b) = Len(a) + Len(b)
BY ConcatProperties

LEMMA EmptyJoined == <<>> \in Seq(Entry) /\ \A a \in Seq(Entry) : a \o <<>> = a /\ <<>> \o a = a
BY EmptySeq, ConcatEmptySeq

\* The current buffer comes after the others.
LEMMA FlattenAppended ==
  \A s \in Seq(Seq(Entry)), x \in Seq(Entry) :
    /\ s \o <<x>> \in Seq(Seq(Entry)) /\ Append(s, x) = s \o <<x>>
    /\ FlattenSeq(s \o <<x>>) = FlattenSeq(s) \o x
<1> SUFFICES ASSUME NEW s \in Seq(Seq(Entry)), NEW x \in Seq(Entry)
             PROVE  /\ s \o <<x>> \in Seq(Seq(Entry)) /\ Append(s, x) = s \o <<x>>
                    /\ FlattenSeq(s \o <<x>>) = FlattenSeq(s) \o x
  OBVIOUS
<1>1. <<x>> \in Seq(Seq(Entry)) /\ FlattenSeq(<<x>>) = x
  BY FlattenOne
<1>2. FlattenSeq(s \o <<x>>) = FlattenSeq(s) \o FlattenSeq(<<x>>)
  BY <1>1, FlattenConcat
<1>3. s \o <<x>> \in Seq(Seq(Entry))
  BY <1>1, ConcatProperties
<1>4. Append(s, x) = s \o <<x>>
  BY AppendIsConcat
<1> QED
  BY <1>1, <1>2, <1>3, <1>4

LEMMA TwoJoined ==
  ASSUME NEW S, NEW a \in S, NEW b \in S
  PROVE  <<a>> \o <<b>> = <<a, b>>
<1> DEFINE s == <<a>>
           t == <<b>>
           u == <<a, b>>
           v == s \o t
<1>1. s \in Seq(S) /\ Len(s) = 1 /\ s[1] = a /\ t \in Seq(S) /\ Len(t) = 1 /\ t[1] = b
  OBVIOUS
<1>2. u \in Seq(S) /\ Len(u) = 2 /\ u[1] = a /\ u[2] = b
  OBVIOUS
<1> HIDE DEF s, t, u
<1>3. /\ v \in Seq(S) /\ Len(v) = Len(s) + Len(t)
      /\ \A i \in 1 .. Len(s) + Len(t) : v[i] = IF i <= Len(s) THEN s[i] ELSE t[i - Len(s)]
  BY <1>1, ConcatProperties
<1> HIDE DEF v
<1>4. \A i \in 1 .. 2 : v[i] = u[i]
  BY <1>1, <1>2, <1>3
<1>5. v = u
  BY <1>1, <1>2, <1>3, <1>4, SeqEqual
<1> QED
  BY <1>5 DEF s, t, u, v

\* A sequence is its front and its last element.
LEMMA FrontLast ==
  ASSUME NEW s \in Seq(Seq(Entry)), s # <<>>
  PROVE  /\ Front(s) \in Seq(Seq(Entry)) /\ Last(s) \in Seq(Entry)
         /\ s = Front(s) \o <<Last(s)>>
<1>1. PICK r \in Seq(Seq(Entry)), x \in Seq(Entry) : s = Append(r, x)
  BY SequenceEmptyOrAppend
<1>2. /\ Len(r) \in Nat /\ Len(s) = Len(r) + 1 /\ s[Len(r) + 1] = x
      /\ \A i \in 1 .. Len(r) : s[i] = r[i]
  BY <1>1, AppendProperties, LenProperties
<1>3. Last(s) = x
  BY <1>2 DEF Last
<1>4. Front(s) = r
  <2>1. Front(s) = SubSeq(s, 1, Len(r))
    BY <1>2 DEF Front
  <2>2. SubSeq(s, 1, Len(r)) = r
    BY <1>2
  <2> QED
    BY <2>1, <2>2
<1>5. s = r \o <<x>>
  BY <1>1, FlattenAppended
<1> QED
  BY <1>1, <1>3, <1>4, <1>5

-------------------------------------------------------------------------------
(* The lines are in order *)

LogTypes ==
    /\ files \in Seq(Seq(Entry)) /\ files # <<>>
    /\ vecWriteBuff \in Seq(Seq(Entry)) /\ vecBuff \in Seq(Seq(Entry))
    /\ currentBuffer \in Seq(Entry) /\ accepted \in Seq(Entry)

\* The log thread has buffers to write while it writes.
OnlyWriting == logPc # "write" => vecWriteBuff = <<>>

LinesInv == LogTypes /\ OnlyWriting /\ LinesInOrder

\* What Written and the other parts of LinesInOrder are.
LEMMA Parts ==
  ASSUME LogTypes
  PROVE  /\ Written \in Seq(Entry) /\ FlattenSeq(vecWriteBuff) \in Seq(Entry)
         /\ Buffers \in Seq(Seq(Entry)) /\ FlattenSeq(Buffers) \in Seq(Entry)
         /\ FlattenSeq(Buffers) = FlattenSeq(vecBuff) \o currentBuffer
<1>1. Written \in Seq(Entry) /\ FlattenSeq(vecWriteBuff) \in Seq(Entry)
      /\ FlattenSeq(vecBuff) \in Seq(Entry)
  BY Flattened DEF LogTypes, Written
<1>2. CASE currentBuffer = <<>>
  <2>1. vecBuff \o <<>> = vecBuff
    BY ConcatEmptySeq DEF LogTypes
  <2>2. Buffers = vecBuff
    BY <1>2, <2>1 DEF Buffers
  <2>3. FlattenSeq(vecBuff) \o <<>> = FlattenSeq(vecBuff)
    BY <1>1, EmptyJoined
  <2> QED
    BY <1>1, <1>2, <2>2, <2>3 DEF LogTypes
<1>3. CASE currentBuffer # <<>>
  <2>1. Buffers = vecBuff \o <<currentBuffer>>
    BY <1>3 DEF Buffers
  <2>2. /\ vecBuff \o <<currentBuffer>> \in Seq(Seq(Entry))
        /\ FlattenSeq(vecBuff \o <<currentBuffer>>) = FlattenSeq(vecBuff) \o currentBuffer
    BY FlattenAppended DEF LogTypes
  <2>3. FlattenSeq(vecBuff) \o currentBuffer \in Seq(Entry)
    BY <1>1, Joined DEF LogTypes
  <2> QED
    BY <1>1, <2>1, <2>2, <2>3
<1> QED
  BY <1>2, <1>3

LEMMA BuffersParts == LogTypes => FlattenSeq(Buffers) = FlattenSeq(vecBuff) \o currentBuffer
BY Parts

LEMMA LinesInit == LogInit => LinesInv
<1> SUFFICES ASSUME LogInit
             PROVE  LinesInv
  OBVIOUS
<1>1. <<>> \in Seq(Entry) /\ <<>> \in Seq(Seq(Entry)) /\ <<>> \o <<>> = <<>>
  BY EmptySeq, EmptyJoined
<1>2. << <<>> >> \in Seq(Seq(Entry)) /\ FlattenSeq(<< <<>> >>) = <<>>
  BY <1>1, FlattenOne
<1>3. << <<>> >> # <<>>
  OBVIOUS
<1>4. LogTypes /\ OnlyWriting
  BY <1>1, <1>2, <1>3 DEF LogInit, LogTypes, OnlyWriting
<1>5. Written = <<>> /\ FlattenSeq(vecWriteBuff) = <<>>
  BY <1>2, FlattenEmpty DEF LogInit, Written
<1>6. Buffers = <<>>
  BY <1>1 DEF LogInit, Buffers
<1>7. LinesInOrder
  BY <1>1, <1>5, <1>6, FlattenEmpty DEF LogInit, LinesInOrder
<1> QED
  BY <1>4, <1>7 DEF LinesInv

\* What a step leaves alone.
LEMMA LinesSame ==
  ASSUME LinesInv,
         files' = files, vecWriteBuff' = vecWriteBuff, vecBuff' = vecBuff,
         currentBuffer' = currentBuffer, accepted' = accepted, OnlyWriting'
  PROVE  LinesInv'
<1>1. Written' = Written /\ Buffers' = Buffers
  BY DEF Written, Buffers
<1>2. LinesInOrder'
  BY <1>1 DEF LinesInv, LinesInOrder
<1> QED
  BY <1>2 DEF LinesInv, LogTypes

LEMMA AppendLines ==
  ASSUME LinesInv, NEW t \in Loggers, NEW len \in Lengths, append(t, len)
  PROVE  LinesInv' /\ Written' = Written /\ vecWriteBuff' = vecWriteBuff
         /\ Len(accepted') = Len(accepted) + 1
         /\ currentBuffer' # <<>>
<1> DEFINE line == [num |-> Len(accepted) + 1, len |-> len]
<1>1. LogTypes /\ OnlyWriting /\ LinesInOrder
  BY DEF LinesInv
<1>2. line \in Entry
  <2>1. Len(accepted) \in Nat
    BY <1>1, LenProperties DEF LogTypes
  <2> QED
    BY <2>1 DEF Entry
<1>3. accepted' = Append(accepted, line)
  BY DEF append
<1>4. /\ UNCHANGED <<logPc, vecWriteBuff, files>>
  BY DEF append
<1>5. \/ currentBuffer' = Append(currentBuffer, line) /\ vecBuff' = vecBuff
      \/ currentBuffer' = <<line>> /\ vecBuff' = Append(vecBuff, currentBuffer)
  BY DEF append, Full
<1> HIDE DEF line
<1>6. <<line>> \in Seq(Entry) /\ <<line>> # <<>>
  BY <1>2
<1>7. accepted' = accepted \o <<line>> /\ accepted' \in Seq(Entry)
      /\ Len(accepted') = Len(accepted) + 1
  BY <1>1, <1>2, <1>3, AppendIsConcat, AppendProperties DEF LogTypes
<1>8. /\ vecBuff' \in Seq(Seq(Entry)) /\ currentBuffer' \in Seq(Entry) /\ currentBuffer' # <<>>
      /\ FlattenSeq(vecBuff') \o currentBuffer'
           = (FlattenSeq(vecBuff) \o currentBuffer) \o <<line>>
  <2>1. currentBuffer \in Seq(Entry) /\ FlattenSeq(vecBuff) \in Seq(Entry)
        /\ vecBuff \in Seq(Seq(Entry))
    BY <1>1, Flattened DEF LogTypes
  <2>2. CASE currentBuffer' = Append(currentBuffer, line) /\ vecBuff' = vecBuff
    <3>1. /\ Append(currentBuffer, line) = currentBuffer \o <<line>>
          /\ Append(currentBuffer, line) \in Seq(Entry)
          /\ Append(currentBuffer, line) # <<>>
      BY <1>2, <2>1, AppendIsConcat, AppendProperties
    <3>2. FlattenSeq(vecBuff) \o (currentBuffer \o <<line>>)
            = (FlattenSeq(vecBuff) \o currentBuffer) \o <<line>>
      BY <1>6, <2>1, Associates
    <3> QED
      BY <2>1, <2>2, <3>1, <3>2
  <2>3. CASE currentBuffer' = <<line>> /\ vecBuff' = Append(vecBuff, currentBuffer)
    <3>1. /\ Append(vecBuff, currentBuffer) \in Seq(Seq(Entry))
          /\ FlattenSeq(Append(vecBuff, currentBuffer)) = FlattenSeq(vecBuff) \o currentBuffer
      BY <2>1, FlattenAppended
    <3> QED
      BY <1>6, <2>3, <3>1
  <2> QED
    BY <1>5, <2>2, <2>3
<1>9. LogTypes'
  BY <1>1, <1>4, <1>7, <1>8 DEF LogTypes
<1>10. OnlyWriting'
  BY <1>1, <1>4 DEF OnlyWriting
<1>11. Written' = Written /\ FlattenSeq(vecWriteBuff') = FlattenSeq(vecWriteBuff)
  BY <1>4 DEF Written
<1>12. LinesInOrder'
  <2> DEFINE p == Written \o FlattenSeq(vecWriteBuff)
             q == FlattenSeq(Buffers)
             r == <<line>>
  <2>1. p \in Seq(Entry) /\ q \in Seq(Entry) /\ r \in Seq(Entry)
    BY <1>1, <1>6, Parts, Joined
  <2>2. FlattenSeq(Buffers') = q \o r
    <3>1. (FlattenSeq(Buffers) = FlattenSeq(vecBuff) \o currentBuffer)'
      BY <1>9, BuffersParts, PTL
    <3>2. FlattenSeq(Buffers) = FlattenSeq(vecBuff) \o currentBuffer
      BY <1>1, Parts
    <3> QED
      BY <1>8, <3>1, <3>2
  <2>3. p \o q = accepted
    BY <1>1 DEF LinesInOrder
  <2>4. p \o (q \o r) = (p \o q) \o r
    <3> HIDE DEF p, q, r
    <3> QED
      BY <2>1, Associates
  <2>5. p \o FlattenSeq(Buffers') = accepted'
    BY <1>7, <2>2, <2>3, <2>4
  <2> QED
    BY <1>11, <2>5 DEF LinesInOrder
<1> QED
  BY <1>4, <1>7, <1>8, <1>9, <1>10, <1>11, <1>12 DEF LinesInv

LEMMA CollectLines ==
  ASSUME LinesInv, logPc # "write", Collect
  PROVE  LinesInv' /\ Written' \o FlattenSeq(vecWriteBuff') = accepted'
<1>1. LogTypes /\ LinesInOrder /\ vecWriteBuff = <<>>
  BY DEF LinesInv, OnlyWriting
<1>2. /\ vecWriteBuff' = Buffers /\ vecBuff' = <<>> /\ currentBuffer' = <<>>
      /\ logPc' = "write" /\ UNCHANGED <<files, accepted>>
  BY DEF Collect
<1>3. LogTypes'
  BY <1>1, <1>2, Parts, EmptySeq DEF LogTypes
<1>4. OnlyWriting'
  BY <1>2 DEF OnlyWriting
<1>5. Written' = Written /\ Written \in Seq(Entry) /\ FlattenSeq(Buffers) \in Seq(Entry)
  BY <1>1, <1>2, Parts DEF Written
<1>6. Written \o FlattenSeq(Buffers) = accepted
  <2>1. Written \o FlattenSeq(vecWriteBuff) = Written
    BY <1>1, <1>5, FlattenEmpty, EmptyJoined
  <2> QED
    BY <1>1, <2>1 DEF LinesInOrder
<1>7. Written' \o FlattenSeq(vecWriteBuff') = accepted'
  BY <1>2, <1>5, <1>6
<1>8. LinesInOrder'
  <2>1. FlattenSeq(Buffers') = <<>>
    <3>1. <<>> \o <<>> = <<>>
      BY EmptyJoined
    <3>2. Buffers' = <<>>
      BY <1>2, <3>1 DEF Buffers
    <3> QED
      BY <3>2, FlattenEmpty
  <2>2. accepted' \o <<>> = accepted'
    BY <1>3, EmptyJoined DEF LogTypes
  <2> QED
    BY <1>7, <2>1, <2>2 DEF LinesInOrder
<1> QED
  BY <1>3, <1>4, <1>7, <1>8 DEF LinesInv

\* What a write takes from the buffers is what it adds to the files.
LEMMA WriteLines ==
  ASSUME LinesInv, NEW newDay, NEW newSecond, WriteBuffer(newDay, newSecond)
  PROVE  /\ LinesInv'
         /\ Written' \o FlattenSeq(vecWriteBuff') = Written \o FlattenSeq(vecWriteBuff)
<1> DEFINE h    == Head(vecWriteBuff)
           last == Last(files)
           file == last \o h
           fr   == Front(files)
<1>1. LogTypes /\ LinesInOrder /\ vecWriteBuff # <<>> /\ logPc = "write"
  BY DEF LinesInv, WriteBuffer
<1>2. /\ vecWriteBuff' = Tail(vecWriteBuff)
      /\ UNCHANGED <<currentBuffer, vecBuff, logPc, accepted>>
  BY DEF WriteBuffer
<1>3. files' = fr \o <<file, <<>>>> \/ files' = fr \o <<file>>
  BY DEF WriteBuffer
<1>4. /\ h \in Seq(Entry) /\ Tail(vecWriteBuff) \in Seq(Seq(Entry))
      /\ FlattenSeq(vecWriteBuff) = h \o FlattenSeq(Tail(vecWriteBuff))
  BY <1>1, FlattenHead DEF LogTypes
<1>5. fr \in Seq(Seq(Entry)) /\ last \in Seq(Entry) /\ files = fr \o <<last>>
  BY <1>1, FrontLast DEF LogTypes
<1>6. file \in Seq(Entry)
  BY <1>4, <1>5, Joined
<1> HIDE DEF h, last, file, fr
<1>7. FlattenSeq(fr) \in Seq(Entry)
  BY <1>5, Flattened
<1>8. /\ fr \o <<file>> \in Seq(Seq(Entry)) /\ fr \o <<file>> # <<>>
      /\ FlattenSeq(fr \o <<file>>) = FlattenSeq(fr) \o file
  <2>1. Append(fr, file) # <<>>
    BY <1>5, <1>6, AppendProperties
  <2> QED
    BY <1>5, <1>6, <2>1, FlattenAppended
<1>9. /\ fr \o <<file, <<>>>> \in Seq(Seq(Entry)) /\ fr \o <<file, <<>>>> # <<>>
      /\ FlattenSeq(fr \o <<file, <<>>>>) = FlattenSeq(fr) \o file
  <2> DEFINE e == <<>>
             a == fr \o <<file>>
             b == a \o <<e>>
  <2>1. e \in Seq(Entry)
    BY EmptyJoined
  <2>2. fr \o <<file, e>> = b
    <3>1. <<file>> \in Seq(Seq(Entry)) /\ <<e>> \in Seq(Seq(Entry))
      BY <1>6, <2>1
    <3>2. (fr \o <<file>>) \o <<e>> = fr \o (<<file>> \o <<e>>)
      BY <1>5, <3>1, Associate
    <3>3. <<file>> \o <<e>> = <<file, e>>
      BY <1>6, <2>1, TwoJoined
    <3> QED
      BY <3>2, <3>3
  <2>3. /\ b \in Seq(Seq(Entry)) /\ b = Append(a, e)
        /\ FlattenSeq(b) = FlattenSeq(a) \o e
    <3> HIDE DEF e, a
    <3>1. a \in Seq(Seq(Entry))
      BY <1>8 DEF a
    <3> QED
      BY <2>1, <3>1, FlattenAppended
  <2>4. b # <<>>
    BY <1>8, <2>1, <2>3, AppendProperties
  <2>5. FlattenSeq(a) \o e = FlattenSeq(a)
    BY <1>8, Flattened, EmptyJoined
  <2> QED
    BY <1>8, <2>2, <2>3, <2>4, <2>5
<1>10. files' \in Seq(Seq(Entry)) /\ files' # <<>> /\ Written' = FlattenSeq(fr) \o file
  BY <1>3, <1>8, <1>9 DEF Written
<1>11. Written = FlattenSeq(fr) \o last
  BY <1>5, FlattenAppended DEF Written
<1>12. Written' = Written \o h
  <2>1. FlattenSeq(fr) \o (last \o h) = (FlattenSeq(fr) \o last) \o h
    BY <1>4, <1>5, <1>7, Associates
  <2> QED
    BY <1>10, <1>11, <2>1 DEF file
<1>13. Written' \o FlattenSeq(vecWriteBuff') = Written \o FlattenSeq(vecWriteBuff)
  <2>1. FlattenSeq(Tail(vecWriteBuff)) \in Seq(Entry) /\ Written \in Seq(Entry)
    BY <1>1, <1>4, Flattened, Parts
  <2>2. (Written \o h) \o FlattenSeq(Tail(vecWriteBuff))
          = Written \o (h \o FlattenSeq(Tail(vecWriteBuff)))
    BY <1>4, <2>1, Associates
  <2> QED
    BY <1>2, <1>4, <1>12, <2>2
<1>14. LogTypes'
  BY <1>1, <1>2, <1>4, <1>10 DEF LogTypes
<1>15. OnlyWriting'
  BY <1>1, <1>2 DEF OnlyWriting
<1>16. LinesInOrder'
  <2>1. Buffers' = Buffers
    BY <1>2 DEF Buffers
  <2> QED
    BY <1>1, <1>2, <1>13, <2>1 DEF LinesInOrder
<1> QED
  BY <1>13, <1>14, <1>15, <1>16 DEF LinesInv

LEMMA LinesStep == LinesInv /\ [LogNext]_logVars => LinesInv'
<1> SUFFICES ASSUME LinesInv, [LogNext]_logVars
             PROVE  LinesInv'
  OBVIOUS
<1>1. LogTypes /\ OnlyWriting
  BY DEF LinesInv
<1>2. CASE \E t \in Loggers : CallAppend(t)
  BY <1>1, <1>2, LinesSame DEF CallAppend, OnlyWriting
<1>3. CASE \E t \in Loggers : \E len \in Lengths : append(t, len)
  BY <1>3, AppendLines
<1>4. CASE Stop
  BY <1>1, <1>4, LinesSame DEF Stop, OnlyWriting
<1>5. CASE Stopped
  BY <1>1, <1>5, LinesSame DEF Stopped, OnlyWriting
<1>6. CASE Check
  BY <1>1, <1>6, LinesSame DEF Check, OnlyWriting
<1>7. CASE CollectFull
  BY <1>7, CollectLines DEF CollectFull
<1>8. CASE WaitReady
  BY <1>1, <1>8, LinesSame DEF WaitReady, OnlyWriting
<1>9. CASE Woken
  BY <1>1, <1>9, LinesSame DEF Woken, OnlyWriting
<1>10. CASE CollectAll
  BY <1>10, CollectLines DEF CollectAll
<1>11. CASE CollectNothing
  BY <1>1, <1>11, LinesSame DEF CollectNothing, OnlyWriting
<1>12. CASE \E newDay, newSecond \in BOOLEAN : WriteBuffer(newDay, newSecond)
  BY <1>12, WriteLines
<1>13. CASE Flush
  BY <1>1, <1>13, LinesSame DEF Flush, OnlyWriting
<1>14. CASE UNCHANGED logVars
  BY <1>1, <1>14, LinesSame DEF logVars, OnlyWriting
<1> QED
  BY <1>2, <1>3, <1>4, <1>5, <1>6, <1>7, <1>8, <1>9, <1>10, <1>11, <1>12, <1>13, <1>14
     DEF LogNext, LogThreadStep

\* Lines and buffers are of their types, the log thread has buffers to write only while it
\* writes, and the lines are in order.
THEOREM LinesInvariant == LogSpec => []LinesInv
<1>1. LogInit => LinesInv
  BY LinesInit
<1>2. LinesInv /\ [LogNext]_logVars => LinesInv'
  BY LinesStep
<1> QED
  BY <1>1, <1>2, PTL DEF LogSpec

\* No line that append has accepted is lost, doubled or moved, by no swap of the buffers
\* and no roll of the file, whatever the number of loggers and the sizes.
THEOREM LinesInOrderHolds == LogSpec => []LinesInOrder
<1>1. LinesInv => LinesInOrder
  BY DEF LinesInv
<1> QED
  BY <1>1, LinesInvariant, PTL

-------------------------------------------------------------------------------
(* What Stop keeps *)

Waiting == {"check", "wait", "collect"}
Ending  == {"loop", "off", "closed"}

\* As long as the log thread has not looked at the buffers, it owes no line that is not
\* accepted; then none that it has not taken; and then none that it has not written.
Owing ==
    /\ owed \in Nat
    /\ logPc \in Waiting \cup {"write"} \cup Ending
    /\ logPc \in Waiting => owed <= Len(accepted)
    /\ logPc = "write" => owed <= Len(Written) + Len(FlattenSeq(vecWriteBuff))
    /\ logPc \in Ending => owed <= Len(Written)

\* Behind a full buffer there is always one with a line in it.
CurrentLast == vecBuff # <<>> => currentBuffer # <<>>

StopInv == LinesInv /\ CurrentLast /\ Owing

LEMMA PartLengths ==
  ASSUME LinesInv
  PROVE  /\ Len(Written) \in Nat /\ Len(FlattenSeq(vecWriteBuff)) \in Nat
         /\ Len(accepted) \in Nat
         /\ Len(Written \o FlattenSeq(vecWriteBuff))
              = Len(Written) + Len(FlattenSeq(vecWriteBuff))
         /\ Len(Written) <= Len(accepted)
<1>1. LogTypes /\ LinesInOrder
  BY DEF LinesInv
<1>2. /\ Written \in Seq(Entry) /\ FlattenSeq(vecWriteBuff) \in Seq(Entry)
      /\ FlattenSeq(Buffers) \in Seq(Entry) /\ accepted \in Seq(Entry)
  BY <1>1, Parts DEF LogTypes
<1>3. /\ Written \o FlattenSeq(vecWriteBuff) \in Seq(Entry)
      /\ Len(Written \o FlattenSeq(vecWriteBuff))
           = Len(Written) + Len(FlattenSeq(vecWriteBuff))
  BY <1>2, Joined
<1>4. Len(Written) \in Nat /\ Len(FlattenSeq(vecWriteBuff)) \in Nat
      /\ Len(FlattenSeq(Buffers)) \in Nat /\ Len(accepted) \in Nat
  BY <1>2, LenProperties
<1>5. Len(accepted) = Len(Written \o FlattenSeq(vecWriteBuff)) + Len(FlattenSeq(Buffers))
  BY <1>1, <1>2, <1>3, Joined DEF LinesInOrder
<1> QED
  BY <1>3, <1>4, <1>5

LEMMA LinesLengths ==
  LinesInv => /\ Len(Written) \in Nat /\ Len(FlattenSeq(vecWriteBuff)) \in Nat
              /\ Len(accepted) \in Nat
              /\ Len(Written \o FlattenSeq(vecWriteBuff))
                   = Len(Written) + Len(FlattenSeq(vecWriteBuff))
BY PartLengths

LEMMA OwingSame ==
  ASSUME Owing, UNCHANGED <<owed, accepted, files, vecWriteBuff, logPc>>
  PROVE  Owing'
<1>1. Written' = Written
  BY DEF Written
<1> QED
  BY <1>1 DEF Owing

\* A step of the log thread that leaves the lines alone and does not begin to wait.
LEMMA OwingMoves ==
  ASSUME LinesInv, Owing, UNCHANGED <<owed, accepted, files, vecWriteBuff>>,
         \/ logPc \in Waiting /\ logPc' \in Waiting
         \/ logPc \in Ending /\ logPc' \in Waiting \cup Ending
  PROVE  Owing'
<1>1. Written' = Written
  BY DEF Written
<1>2. Len(Written) \in Nat /\ Len(accepted) \in Nat /\ Len(Written) <= Len(accepted)
  BY PartLengths
<1>3. "write" \notin Waiting \cup Ending /\ Waiting \cap Ending = {}
  BY DEF Waiting, Ending
<1> QED
  BY <1>1, <1>2, <1>3 DEF Owing

LEMMA OwingCollect ==
  ASSUME LinesInv, LinesInv', Owing, logPc \in Waiting, Collect
  PROVE  Owing'
<1>1. logPc # "write" /\ "write" \notin Waiting \cup Ending
  BY DEF Waiting, Ending
<1>2. logPc' = "write" /\ owed' = owed /\ accepted' = accepted
  BY DEF Collect
<1>3. Written' \o FlattenSeq(vecWriteBuff') = accepted'
  BY <1>1, CollectLines
<1>4. (Len(Written \o FlattenSeq(vecWriteBuff))
        = Len(Written) + Len(FlattenSeq(vecWriteBuff)))'
  BY LinesLengths, PTL
<1>5. owed <= Len(accepted) /\ owed \in Nat
  BY DEF Owing
<1>6. owed' <= Len(Written') + Len(FlattenSeq(vecWriteBuff'))
  BY <1>2, <1>3, <1>4, <1>5
<1> QED
  BY <1>1, <1>2, <1>5, <1>6 DEF Owing

LEMMA OwingWrite ==
  ASSUME LinesInv, LinesInv', Owing, NEW newDay, NEW newSecond,
         WriteBuffer(newDay, newSecond)
  PROVE  Owing'
<1>1. logPc = "write" /\ logPc' = "write" /\ owed' = owed
  BY DEF WriteBuffer
<1>2. "write" \notin Waiting \cup Ending
  BY DEF Waiting, Ending
<1>3. Written' \o FlattenSeq(vecWriteBuff') = Written \o FlattenSeq(vecWriteBuff)
  BY WriteLines
<1>4. (Len(Written \o FlattenSeq(vecWriteBuff))
        = Len(Written) + Len(FlattenSeq(vecWriteBuff)))'
  BY LinesLengths, PTL
<1>5. Len(Written \o FlattenSeq(vecWriteBuff))
        = Len(Written) + Len(FlattenSeq(vecWriteBuff))
  BY PartLengths
<1>6. owed <= Len(Written) + Len(FlattenSeq(vecWriteBuff)) /\ owed \in Nat
  BY <1>1 DEF Owing
<1> QED
  BY <1>1, <1>2, <1>3, <1>4, <1>5, <1>6 DEF Owing

\* With no buffer to write everything that was taken is in the files.
LEMMA NothingToWrite ==
  ASSUME LinesInv, vecWriteBuff = <<>>
  PROVE  Len(FlattenSeq(vecWriteBuff)) = 0
BY FlattenEmpty

LEMMA StopStep == StopInv /\ [LogNext]_logVars => StopInv'
<1> SUFFICES ASSUME StopInv, [LogNext]_logVars
             PROVE  StopInv'
  OBVIOUS
<1>1. LinesInv /\ CurrentLast /\ Owing
  BY DEF StopInv
<1>2. LinesInv'
  BY <1>1, LinesStep
<1>3. "check" \in Waiting /\ "wait" \in Waiting /\ "collect" \in Waiting
      /\ "loop" \in Ending /\ "off" \in Ending /\ "closed" \in Ending
      /\ "write" \notin Waiting /\ "write" \notin Ending /\ Waiting \cap Ending = {}
  BY DEF Waiting, Ending
<1>4. CASE \E t \in Loggers : CallAppend(t)
  BY <1>1, <1>2, <1>4, OwingSame DEF CallAppend, CurrentLast, StopInv
<1>5. ASSUME NEW t \in Loggers, NEW len \in Lengths, append(t, len)
      PROVE  StopInv'
  <2>1. /\ Written' = Written /\ vecWriteBuff' = vecWriteBuff
        /\ Len(accepted') = Len(accepted) + 1 /\ currentBuffer' # <<>>
    BY <1>1, <1>5, AppendLines
  <2>2. owed' = owed /\ logPc' = logPc
    BY <1>5 DEF append
  <2>3. Len(accepted) \in Nat
    BY <1>1, PartLengths
  <2>4. Owing'
    BY <1>1, <2>1, <2>2, <2>3 DEF Owing
  <2>5. CurrentLast'
    BY <2>1 DEF CurrentLast
  <2> QED
    BY <1>2, <2>4, <2>5 DEF StopInv
<1>6. CASE Stop
  <2>1. /\ UNCHANGED <<currentBuffer, vecBuff, logPc, vecWriteBuff, files, accepted>>
        /\ owed' = IF logPc \in Waiting THEN Len(accepted)
                   ELSE Len(Written) + Len(FlattenSeq(vecWriteBuff))
    BY <1>6 DEF Stop, Waiting
  <2>2. Len(Written) \in Nat /\ Len(FlattenSeq(vecWriteBuff)) \in Nat /\ Len(accepted) \in Nat
    BY <1>1, PartLengths
  <2>3. Written' = Written
    BY <2>1 DEF Written
  <2>4. logPc \in Ending => Len(FlattenSeq(vecWriteBuff)) = 0
    BY <1>1, <1>3, NothingToWrite DEF LinesInv, OnlyWriting
  <2>5. Owing'
    BY <1>1, <1>3, <2>1, <2>2, <2>3, <2>4 DEF Owing
  <2> QED
    BY <1>1, <1>2, <2>1, <2>5 DEF CurrentLast, StopInv
<1>7. CASE Stopped
  BY <1>1, <1>2, <1>3, <1>7, OwingMoves DEF Stopped, CurrentLast, StopInv
<1>8. CASE Check
  BY <1>1, <1>2, <1>3, <1>8, OwingMoves DEF Check, CurrentLast, StopInv
<1>9. ASSUME Collect, logPc \in Waiting
      PROVE  StopInv'
  <2>1. Owing'
    BY <1>1, <1>2, <1>9, OwingCollect
  <2>2. CurrentLast'
    BY <1>9 DEF Collect, CurrentLast
  <2> QED
    BY <1>2, <2>1, <2>2 DEF StopInv
<1>10. CASE CollectFull
  BY <1>3, <1>9, <1>10 DEF CollectFull
<1>11. CASE WaitReady
  BY <1>1, <1>2, <1>3, <1>11, OwingMoves DEF WaitReady, CurrentLast, StopInv
<1>12. CASE Woken
  BY <1>1, <1>2, <1>3, <1>12, OwingMoves DEF Woken, CurrentLast, StopInv
<1>13. CASE CollectAll
  BY <1>3, <1>9, <1>13 DEF CollectAll
<1>14. CASE CollectNothing
  <2>1. /\ logPc = "collect" /\ logPc' = "loop" /\ currentBuffer = <<>>
        /\ UNCHANGED <<currentBuffer, vecBuff, vecWriteBuff, files, accepted, owed>>
    BY <1>14 DEF CollectNothing
  <2>2. LogTypes /\ LinesInOrder /\ vecWriteBuff = <<>> /\ vecBuff = <<>>
    BY <1>1, <2>1 DEF LinesInv, OnlyWriting, CurrentLast
  <2>3. Written = accepted
    <3>1. Buffers = <<>>
      BY <2>1, <2>2, EmptyJoined DEF Buffers
    <3>2. Written \in Seq(Entry)
      BY <2>2, Parts
    <3>3. Written \o <<>> = Written
      BY <3>2, EmptyJoined
    <3> QED
      BY <2>2, <3>1, <3>3, FlattenEmpty DEF LinesInOrder
  <2>4. Written' = Written
    BY <2>1 DEF Written
  <2>5. Owing'
    BY <1>1, <1>3, <2>1, <2>3, <2>4 DEF Owing
  <2> QED
    BY <1>1, <1>2, <2>1, <2>5 DEF CurrentLast, StopInv
<1>15. ASSUME NEW newDay \in BOOLEAN, NEW newSecond \in BOOLEAN,
              WriteBuffer(newDay, newSecond)
       PROVE  StopInv'
  <2>1. Owing'
    BY <1>1, <1>2, <1>15, OwingWrite
  <2>2. CurrentLast'
    BY <1>1, <1>15 DEF WriteBuffer, CurrentLast
  <2> QED
    BY <1>2, <2>1, <2>2 DEF StopInv
<1>16. CASE Flush
  <2>1. /\ logPc = "write" /\ vecWriteBuff = <<>> /\ logPc' = "loop"
        /\ UNCHANGED <<currentBuffer, vecBuff, vecWriteBuff, files, accepted, owed>>
    BY <1>16 DEF Flush
  <2>2. Len(FlattenSeq(vecWriteBuff)) = 0 /\ Len(Written) \in Nat
    BY <1>1, <2>1, NothingToWrite, PartLengths
  <2>3. Written' = Written
    BY <2>1 DEF Written
  <2>4. Owing'
    BY <1>1, <1>3, <2>1, <2>2, <2>3 DEF Owing
  <2> QED
    BY <1>1, <1>2, <2>1, <2>4 DEF CurrentLast, StopInv
<1>17. CASE UNCHANGED logVars
  BY <1>1, <1>2, <1>17, OwingSame DEF logVars, CurrentLast, StopInv
<1> QED
  BY <1>4, <1>5, <1>6, <1>7, <1>8, <1>10, <1>11, <1>12, <1>13, <1>14, <1>15, <1>16, <1>17
     DEF LogNext, LogThreadStep

\* What Stop is owed has come as far as the log thread has, on every turn of its loop.
THEOREM StopInvariant == LogSpec => []StopInv
<1>1. LogInit => StopInv
  <2> SUFFICES ASSUME LogInit
               PROVE  StopInv
    OBVIOUS
  <2>1. LinesInv
    BY LinesInit
  <2>2. CurrentLast
    BY DEF LogInit, CurrentLast
  <2>3. Len(Written) \in Nat
    BY <2>1, PartLengths
  <2>4. Owing
    BY <2>3 DEF LogInit, Owing, Waiting, Ending
  <2> QED
    BY <2>1, <2>2, <2>4 DEF StopInv
<1>2. StopInv /\ [LogNext]_logVars => StopInv'
  BY StopStep
<1> QED
  BY <1>1, <1>2, PTL DEF LogSpec

\* A line that Stop finds written, taken by the log thread, or in a buffer that the thread
\* has yet to look at in this turn, is in a file when the thread has ended.
THEOREM StopKeepsHolds == LogSpec => []StopKeeps
<1>1. StopInv => StopKeeps
  BY DEF StopInv, Owing, Ending, StopKeeps
<1> QED
  BY <1>1, StopInvariant, PTL

===============================================================================
