--------------------------- MODULE TimerWheelProofs ---------------------------
(***************************************************************************)
(* Theorems of TimerWheel, for any timers, addresses, delays and intervals *)
(* and a clock of any length.                                              *)
(***************************************************************************)
EXTENDS TimerWheel, FiniteSetTheorems, FunctionTheorems, SequenceTheorems, TLAPS

-------------------------------------------------------------------------------
(* The order of the set *)

Pair == [when : Nat, ent : Nat]

\* Two pairs are in one order or in the other.
LEMMA BeforeOrders ==
  /\ \A x, y \in Pair : x # y => Before(x, y) \/ Before(y, x)
  /\ \A x, y, z \in Pair : Before(x, y) /\ Before(y, z) => Before(x, z)
  /\ \A x \in Pair : ~Before(x, x)
<1>1. ASSUME NEW x \in Pair, NEW y \in Pair, x # y
      PROVE  Before(x, y) \/ Before(y, x)
  <2>1. x.when # y.when \/ x.ent # y.ent
    BY <1>1 DEF Pair
  <2>2. x.when \in Nat /\ y.when \in Nat /\ x.ent \in Nat /\ y.ent \in Nat
    BY DEF Pair
  <2> QED
    BY <2>1, <2>2 DEF Before
<1>2. ASSUME NEW x \in Pair, NEW y \in Pair, NEW z \in Pair, Before(x, y), Before(y, z)
      PROVE  Before(x, z)
  <2>1. /\ x.when \in Nat /\ y.when \in Nat /\ x.ent \in Nat /\ y.ent \in Nat
        /\ z.when \in Nat /\ z.ent \in Nat
    BY DEF Pair
  <2> QED
    BY <1>2, <2>1 DEF Before
<1>3. ASSUME NEW x \in Pair PROVE ~Before(x, x)
  BY DEF Before, Pair
<1> QED
  BY <1>1, <1>2, <1>3

\* Each place of the order has one pair: Rank is a bijection.
LEMMA RankProperties ==
  ASSUME NEW S \in SUBSET Pair, IsFiniteSet(S)
  PROVE  /\ Cardinality(S) \in Nat
         /\ \A x \in S : Rank(S, x) \in 0 .. Cardinality(S) - 1
         /\ \A x, y \in S : Rank(S, x) = Rank(S, y) => x = y
         /\ \A n \in 0 .. Cardinality(S) - 1 : \E x \in S : Rank(S, x) = n
<1> DEFINE below(x) == {y \in S : Before(y, x)}
           N == Cardinality(S)
<1>1. N \in Nat
  BY FS_CardinalityType
<1>2. ASSUME NEW x \in S
      PROVE  IsFiniteSet(below(x)) /\ Cardinality(below(x)) \in 0 .. N - 1
  <2>1. below(x) \in SUBSET S
    OBVIOUS
  <2>2. IsFiniteSet(below(x)) /\ Cardinality(below(x)) <= N
        /\ (N = Cardinality(below(x)) => S = below(x))
    BY <2>1, FS_Subset
  <2>3. Cardinality(below(x)) \in Nat
    BY <2>2, FS_CardinalityType
  <2>4. x \notin below(x)
    BY BeforeOrders
  <2>5. Cardinality(below(x)) # N
    BY <2>2, <2>4
  <2> QED
    BY <1>1, <2>2, <2>3, <2>5
<1>3. ASSUME NEW x \in S, NEW y \in S, Before(x, y)
      PROVE  Cardinality(below(x)) # Cardinality(below(y))
  <2>1. below(x) \in SUBSET below(y)
    BY <1>3, BeforeOrders
  <2>2. x \in below(y) /\ x \notin below(x)
    BY <1>3, BeforeOrders
  <2>3. Cardinality(below(y)) = Cardinality(below(x)) => below(y) = below(x)
    BY <1>2, <2>1, FS_Subset
  <2> QED
    BY <2>2, <2>3
<1>4. ASSUME NEW x \in S, NEW y \in S, Rank(S, x) = Rank(S, y)
      PROVE  x = y
  BY <1>3, <1>4, BeforeOrders DEF Rank
<1>5. \A x \in S : Rank(S, x) \in 0 .. N - 1
  BY <1>2 DEF Rank
<1> DEFINE f == [x \in S |-> Rank(S, x)]
<1>6. f \in [S -> 0 .. N - 1]
  BY <1>5
<1>7. f \in Injection(S, 0 .. N - 1)
  BY <1>4, <1>6, Fun_IsInj
<1>8. IsFiniteSet(0 .. N - 1) /\ Cardinality(0 .. N - 1) = N
  <2>1. /\ IsFiniteSet(0 .. N - 1)
        /\ Cardinality(0 .. N - 1) = IF 0 > N - 1 THEN 0 ELSE (N - 1) - 0 + 1
    <3> HIDE DEF N
    <3>1. 0 \in Int /\ N - 1 \in Int
      BY <1>1
    <3> QED
      BY <3>1, FS_Interval
  <2> QED
    BY <1>1, <2>1
<1>9. f \in Surjection(S, 0 .. N - 1)
  <2> HIDE DEF f, N
  <2> QED
    BY <1>7, <1>8, FS_Injection DEF N
<1>10. \A n \in 0 .. N - 1 : \E x \in S : f[x] = n
  <2> DEFINE T == 0 .. N - 1
  <2>1. f \in Surjection(S, T)
    BY <1>9
  <2> HIDE DEF f, T
  <2>2. \A n \in T : \E x \in S : f[x] = n
    BY <2>1, Fun_SurjectionProperties
  <2> QED
    BY <2>2 DEF T
<1>11. \A n \in 0 .. N - 1 : \E x \in S : Rank(S, x) = n
  BY <1>10
<1> QED
  BY <1>1, <1>4, <1>5, <1>11

LEMMA NthProperties ==
  ASSUME NEW S \in SUBSET Pair, IsFiniteSet(S)
  PROVE  /\ Cardinality(S) \in Nat
         /\ \A i \in 1 .. Cardinality(S) : Nth(S, i) \in S
         /\ \A i, j \in 1 .. Cardinality(S) : Nth(S, i) = Nth(S, j) => i = j
         /\ \A x \in S : \E i \in 1 .. Cardinality(S) : Nth(S, i) = x
<1> DEFINE N == Cardinality(S)
<1>1. /\ N \in Nat
      /\ \A x \in S : Rank(S, x) \in 0 .. N - 1
      /\ \A x, y \in S : Rank(S, x) = Rank(S, y) => x = y
      /\ \A n \in 0 .. N - 1 : \E x \in S : Rank(S, x) = n
  BY RankProperties
<1> HIDE DEF N
<1>2. ASSUME NEW i \in 1 .. N
      PROVE  Nth(S, i) \in S /\ Rank(S, Nth(S, i)) = i - 1
  <2>1. i - 1 \in 0 .. N - 1
    BY <1>1
  <2>2. \E x \in S : Rank(S, x) = i - 1
    BY <1>1, <2>1
  <2> QED
    BY <2>2 DEF Nth
<1>3. ASSUME NEW i \in 1 .. N, NEW j \in 1 .. N, Nth(S, i) = Nth(S, j)
      PROVE  i = j
  <2>1. i - 1 = j - 1
    BY <1>2, <1>3
  <2> QED
    BY <1>1, <2>1
<1>4. ASSUME NEW x \in S
      PROVE  \E i \in 1 .. N : Nth(S, i) = x
  <2>1. Rank(S, x) \in 0 .. N - 1
    BY <1>1
  <2>2. Rank(S, x) + 1 \in 1 .. N /\ (Rank(S, x) + 1) - 1 = Rank(S, x)
    BY <1>1, <2>1
  <2>3. Nth(S, Rank(S, x) + 1) \in S /\ Rank(S, Nth(S, Rank(S, x) + 1)) = Rank(S, x)
    BY <1>2, <2>2
  <2> QED
    BY <1>1, <2>2, <2>3
<1> QED
  BY <1>1, <1>2, <1>3, <1>4 DEF N

\* A set that is not empty has a first pair.
LEMMA FirstProperties ==
  ASSUME NEW S \in SUBSET Pair, IsFiniteSet(S), S # {}
  PROVE  First(S) \in S
<1>1. Cardinality(S) \in Nat /\ Cardinality(S) # 0
  BY FS_EmptySet, FS_CardinalityType
<1>2. 0 \in 0 .. Cardinality(S) - 1
  BY <1>1
<1>3. PICK x \in S : Rank(S, x) = 0
  BY <1>2, RankProperties
<1>4. {y \in S : Before(y, x)} = {}
  <2>1. {y \in S : Before(y, x)} \in SUBSET S
    OBVIOUS
  <2>2. IsFiniteSet({y \in S : Before(y, x)})
    BY <2>1, FS_Subset
  <2> QED
    BY <1>3, <2>2, FS_EmptySet DEF Rank
<1>5. \A y \in S \ {x} : Before(x, y)
  BY <1>4, BeforeOrders
<1> QED
  BY <1>5 DEF First

-------------------------------------------------------------------------------
(* Who owns the entities *)

TimerTypes ==
    /\ now \in Nat /\ nowTick \in Nat
    /\ tpc \in {"idle", "next", "timer"}
    /\ IsFiniteSet(allTimers) /\ allTimers \subseteq [when : 0 .. Wrap - 1, ent : Address]
    /\ DOMAIN heap \subseteq Address /\ heap \in [DOMAIN heap -> Entity]
    /\ expired \in Seq(Address)
    /\ tpc = "idle" => expired = <<>>
    /\ tpc = "timer" => expired # <<>>

\* An entity is in the set, where it was put, or among the copies that OnEvent has not
\* come to.
Owned ==
    /\ DOMAIN heap = Held \cup ToSet(expired)
    /\ Held \cap ToSet(expired) = {} /\ IsInjective(expired)
    /\ \A x \in allTimers : x.when = heap[x.ent].when

OwnInv == TimerTypes /\ Owned

LEMMA TickProperties ==
  ASSUME NEW n \in Nat
  PROVE  /\ n % Wrap \in 0 .. Wrap - 1
         /\ n % Wrap <= n
         /\ n < Wrap => n % Wrap = n
<1>1. Wrap \in Nat \ {0}
  BY TimerAssumption
<1> QED
  BY <1>1

LEMMA AllTimersPairs ==
  ASSUME TimerTypes
  PROVE  /\ allTimers \in SUBSET Pair
         /\ \A x \in allTimers : x = At(x.when, x.ent) /\ x.when \in 0 .. Wrap - 1 /\ x.ent \in Address
<1>1. Address \subseteq Nat /\ Wrap \in Nat \ {0}
  BY TimerAssumption
<1>2. allTimers \subseteq [when : 0 .. Wrap - 1, ent : Address]
  BY DEF TimerTypes
<1>3. 0 .. Wrap - 1 \subseteq Nat
  BY <1>1
<1>4. ASSUME NEW x \in allTimers
      PROVE  /\ x \in Pair /\ x = At(x.when, x.ent)
             /\ x.when \in 0 .. Wrap - 1 /\ x.ent \in Address
  BY <1>1, <1>2, <1>3 DEF Pair, At
<1> QED
  BY <1>4

LEMMA HeldProperties ==
  ASSUME OwnInv
  PROVE  /\ Held \subseteq DOMAIN heap
         /\ \A x, y \in allTimers : x.ent = y.ent => x = y
<1>1. Held \subseteq DOMAIN heap
  BY DEF OwnInv, Owned
<1>2. ASSUME NEW x \in allTimers, NEW y \in allTimers, x.ent = y.ent
      PROVE  x = y
  <2>1. x.when = y.when
    BY <1>2 DEF OwnInv, Owned
  <2>2. x = At(x.when, x.ent) /\ y = At(y.when, y.ent)
    BY AllTimersPairs DEF OwnInv
  <2> QED
    BY <1>2, <2>1, <2>2
<1> QED
  BY <1>1, <1>2

\* The tail of a sequence without repetitions is without its head.
LEMMA TailProperties ==
  ASSUME NEW S, NEW s \in Seq(S), s # <<>>, IsInjective(s)
  PROVE  /\ Tail(s) \in Seq(S) /\ IsInjective(Tail(s))
         /\ Head(s) \in ToSet(s) /\ ToSet(Tail(s)) = ToSet(s) \ {Head(s)}
<1> DEFINE t == Tail(s)
<1>1. /\ t \in Seq(S) /\ Len(t) = Len(s) - 1 /\ \A i \in 1 .. Len(t) : t[i] = s[i + 1]
      /\ Len(s) \in Nat /\ DOMAIN s = 1 .. Len(s) /\ DOMAIN t = 1 .. Len(t)
      /\ Head(s) = s[1] /\ Len(s) > 0
  BY HeadTailProperties, LenProperties, EmptySeq
<1> HIDE DEF t
<1>2. \A i \in 1 .. Len(t) : i + 1 \in 1 .. Len(s) /\ i + 1 # 1
  BY <1>1
<1>3. 1 \in 1 .. Len(s)
  BY <1>1
<1>4. \A i, j \in 1 .. Len(s) : s[i] = s[j] => i = j
  BY <1>1 DEF IsInjective
<1>5. IsInjective(t)
  <2>1. ASSUME NEW i \in 1 .. Len(t), NEW j \in 1 .. Len(t), t[i] = t[j]
        PROVE  i = j
    <3>1. i + 1 = j + 1
      BY <1>1, <1>2, <1>4, <2>1
    <3> QED
      BY <1>1, <3>1
  <2> QED
    BY <1>1, <2>1 DEF IsInjective
<1>6. Head(s) \in ToSet(s)
  BY <1>1, <1>3 DEF ToSet
<1>7. ASSUME NEW x \in ToSet(t)
      PROVE  x \in ToSet(s) \ {Head(s)}
  <2>1. PICK i \in 1 .. Len(t) : x = t[i]
    BY <1>1 DEF ToSet
  <2>2. x = s[i + 1] /\ s[i + 1] # s[1]
    BY <1>1, <1>2, <1>3, <1>4, <2>1
  <2> QED
    BY <1>1, <1>2, <2>2 DEF ToSet
<1>8. ASSUME NEW x \in ToSet(s) \ {Head(s)}
      PROVE  x \in ToSet(t)
  <2>1. PICK i \in 1 .. Len(s) : x = s[i]
    BY <1>1 DEF ToSet
  <2>2. i # 1
    BY <1>1, <2>1
  <2>3. i - 1 \in 1 .. Len(t) /\ (i - 1) + 1 = i
    BY <1>1, <2>2
  <2>4. x = t[i - 1]
    BY <1>1, <2>1, <2>3
  <2> QED
    BY <1>1, <2>3, <2>4 DEF ToSet
<1> QED
  BY <1>1, <1>5, <1>6, <1>7, <1>8 DEF t

LEMMA OwnInit == TimerInit => OwnInv
<1> SUFFICES ASSUME TimerInit PROVE OwnInv
  OBVIOUS
<1>1. /\ now \in Nat /\ nowTick \in Nat /\ tpc = "idle" /\ allTimers = {}
      /\ heap = NoEntities /\ expired = <<>>
  BY TimerAssumption DEF TimerInit
<1>2. DOMAIN heap = {} /\ heap \in [DOMAIN heap -> Entity]
  BY <1>1 DEF NoEntities
<1>3. expired \in Seq(Address) /\ ToSet(expired) = {} /\ IsInjective(expired)
  BY <1>1, EmptySeq DEF ToSet, IsInjective
<1>4. Held = {}
  BY <1>1 DEF Held
<1> QED
  BY <1>1, <1>2, <1>3, <1>4, FS_EmptySet DEF OwnInv, TimerTypes, Owned

\* An entity more, at an address where none is.
LEMMA AddOwned ==
  ASSUME OwnInv, NEW t \in Timers, NEW when \in Delays, NEW interval \in Intervals,
         AddTimer(t, when, interval)
  PROVE  OwnInv'
<1>1. PICK a \in Address \ DOMAIN heap :
         /\ heap' = [b \in DOMAIN heap \cup {a} |->
                       IF b = a THEN [timer |-> t, when |-> (Tick + when) % Wrap,
                                      interval |-> interval, due |-> now + when]
                       ELSE heap[b]]
         /\ allTimers' = allTimers \cup {At((Tick + when) % Wrap, a)}
  BY DEF AddTimer
<1>2. UNCHANGED <<now, expired, nowTick, tpc>>
  BY DEF AddTimer
<1> DEFINE w == (Tick + when) % Wrap
           e == [timer |-> t, when |-> w, interval |-> interval, due |-> now + when]
<1>3. TimerTypes /\ Owned /\ now \in Nat /\ when \in Nat
  BY TimerAssumption DEF OwnInv, TimerTypes
<1>4. w \in 0 .. Wrap - 1
  <2>1. Tick \in Nat
    BY <1>3, TickProperties, TimerAssumption DEF Tick
  <2>2. Tick + when \in Nat
    BY <1>3, <2>1
  <2> QED
    BY <2>2, TickProperties
<1>5. e \in Entity
  BY <1>3, <1>4 DEF Entity
<1>6. At(w, a) \in [when : 0 .. Wrap - 1, ent : Address] /\ At(w, a).ent = a /\ At(w, a).when = w
  BY <1>4 DEF At
<1>7. /\ DOMAIN heap' = DOMAIN heap \cup {a} /\ heap'[a].when = w /\ heap'[a] = e
      /\ \A b \in DOMAIN heap : heap'[b] = heap[b]
  BY <1>1
<1>8. heap' \in [DOMAIN heap' -> Entity]
  BY <1>1, <1>3, <1>5, <1>7 DEF TimerTypes
<1> HIDE DEF w, e
<1>9. allTimers' = allTimers \cup {At(w, a)}
  BY <1>1 DEF w
<1>10. IsFiniteSet(allTimers')
  BY <1>3, <1>9, FS_AddElement DEF TimerTypes
<1>11. Held' = Held \cup {a}
  BY <1>6, <1>9 DEF Held
<1>12. expired' = expired /\ ToSet(expired') = ToSet(expired)
  BY <1>2
<1>13. TimerTypes'
  BY <1>2, <1>3, <1>6, <1>7, <1>8, <1>9, <1>10 DEF TimerTypes
<1>14. DOMAIN heap = Held \cup ToSet(expired)
  BY <1>3 DEF Owned
<1>15. \A x \in allTimers' : x.when = heap'[x.ent].when
  <2> TAKE x \in allTimers'
  <2>1. CASE x = At(w, a)
    BY <1>6, <1>7, <2>1
  <2>2. CASE x \in allTimers
    <3>1. x.ent \in DOMAIN heap /\ x.when = heap[x.ent].when
      BY <1>3, <2>2 DEF Owned, Held
    <3> QED
      BY <1>7, <3>1
  <2> QED
    BY <1>9, <2>1, <2>2
<1>16. Owned'
  BY <1>3, <1>7, <1>11, <1>12, <1>14, <1>15 DEF Owned
<1> QED
  BY <1>13, <1>16 DEF OwnInv

\* An entity less: its pair leaves the set.
LEMMA RemoveOwned ==
  ASSUME OwnInv, NEW x \in allTimers, allTimers' = allTimers \ {x},
         heap' = Without(heap, x.ent), UNCHANGED <<now, expired, nowTick, tpc>>
  PROVE  OwnInv'
<1>1. TimerTypes /\ Owned
  BY DEF OwnInv
<1>2. x.ent \in Held /\ x.ent \notin ToSet(expired) /\ DOMAIN heap = Held \cup ToSet(expired)
  BY <1>1 DEF Owned, Held
<1>3. /\ DOMAIN heap' = DOMAIN heap \ {x.ent}
      /\ \A b \in DOMAIN heap' : heap'[b] = heap[b]
  BY DEF Without
<1>4. heap' \in [DOMAIN heap' -> Entity]
  BY <1>1, <1>3 DEF TimerTypes, Without
<1>5. Held' = Held \ {x.ent}
  BY HeldProperties DEF Held
<1>6. IsFiniteSet(allTimers')
  BY <1>1, FS_RemoveElement DEF TimerTypes
<1>7. TimerTypes'
  BY <1>1, <1>3, <1>4, <1>6 DEF TimerTypes
<1>8. \A y \in allTimers' : y.when = heap'[y.ent].when
  <2> TAKE y \in allTimers'
  <2>1. y \in allTimers /\ y.ent \in Held'
    BY DEF Held
  <2>2. y.ent \in DOMAIN heap'
    BY <1>2, <1>3, <1>5, <2>1
  <2> QED
    BY <1>1, <1>3, <2>1, <2>2 DEF Owned
<1>9. Owned'
  BY <1>1, <1>2, <1>3, <1>5, <1>8 DEF Owned
<1> QED
  BY <1>7, <1>9 DEF OwnInv

\* The pairs of a timer are some of the set's.
LEMMA HolderProperties ==
  ASSUME TimerTypes, NEW t
  PROVE  /\ Holder(t) \in SUBSET allTimers
         /\ Holder(t) # {} => First(Holder(t)) \in Holder(t)
<1>1. Holder(t) \in SUBSET allTimers
  BY DEF Holder
<1>2. IsFiniteSet(Holder(t)) /\ Holder(t) \in SUBSET Pair
  BY <1>1, FS_Subset, AllTimersPairs DEF TimerTypes
<1> QED
  BY <1>1, <1>2, FirstProperties

\* The copies are the pairs that are due, and those leave the set.
LEMMA EventOwned ==
  ASSUME OwnInv, OnEvent
  PROVE  /\ OwnInv'
         /\ \A a \in ToSet(expired') : \E x \in Due : x.ent = a
<1> DEFINE N == Cardinality(Due)
<1>1. /\ tpc = "idle" /\ nowTick' = now /\ tpc' = "next"
      /\ expired' = [i \in 1 .. N |-> Nth(Due, i).ent]
      /\ allTimers' = allTimers \ Due
      /\ UNCHANGED <<now, heap>>
  BY DEF OnEvent, Erase
<1>2. TimerTypes /\ Owned /\ expired = <<>> /\ ToSet(expired) = {}
  BY <1>1, EmptySeq DEF OwnInv, TimerTypes, ToSet
<1>3. Due \in SUBSET allTimers /\ Due \in SUBSET Pair /\ IsFiniteSet(Due)
  <2>1. Due \in SUBSET allTimers
    BY DEF Due
  <2> QED
    BY <1>2, <2>1, AllTimersPairs, FS_Subset DEF TimerTypes
<1>4. /\ N \in Nat
      /\ \A i \in 1 .. N : Nth(Due, i) \in Due
      /\ \A i, j \in 1 .. N : Nth(Due, i) = Nth(Due, j) => i = j
      /\ \A x \in Due : \E i \in 1 .. N : Nth(Due, i) = x
  BY <1>3, NthProperties
<1> HIDE DEF N
<1>5. \A i \in 1 .. N : Nth(Due, i).ent \in Address
  BY <1>2, <1>3, <1>4, AllTimersPairs
<1>6. expired' \in [1 .. N -> Address]
  BY <1>1, <1>5
<1>7. expired' \in Seq(Address) /\ DOMAIN expired' = 1 .. N
  BY <1>4, <1>6, SeqDef
<1>8. IsInjective(expired')
  <2>1. ASSUME NEW i \in 1 .. N, NEW j \in 1 .. N, expired'[i] = expired'[j]
        PROVE  i = j
    <3>1. Nth(Due, i).ent = Nth(Due, j).ent
      BY <1>1, <2>1
    <3>2. Nth(Due, i) \in allTimers /\ Nth(Due, j) \in allTimers
      BY <1>3, <1>4
    <3> QED
      BY <1>4, <3>1, <3>2, HeldProperties
  <2> QED
    BY <1>7, <2>1 DEF IsInjective
<1>9. ToSet(expired') = {x.ent : x \in Due}
  <2>1. ASSUME NEW a \in ToSet(expired')
        PROVE  a \in {x.ent : x \in Due}
    <3>1. PICK i \in 1 .. N : a = expired'[i]
      BY <1>7 DEF ToSet
    <3> QED
      BY <1>1, <1>4, <3>1
  <2>2. ASSUME NEW x \in Due
        PROVE  x.ent \in ToSet(expired')
    <3>1. PICK i \in 1 .. N : Nth(Due, i) = x
      BY <1>4
    <3>2. expired'[i] = x.ent
      BY <1>1, <3>1
    <3> QED
      BY <1>7, <3>2 DEF ToSet
  <2> QED
    BY <2>1, <2>2
<1>10. Held' = {x.ent : x \in allTimers \ Due}
  BY <1>1 DEF Held
<1>11. /\ Held' \cup ToSet(expired') = Held
       /\ Held' \cap ToSet(expired') = {}
  BY <1>3, <1>9, <1>10, HeldProperties DEF Held
<1>12. IsFiniteSet(allTimers')
  <2>1. allTimers' \in SUBSET allTimers
    BY <1>1
  <2> QED
    BY <1>2, <2>1, FS_Subset DEF TimerTypes
<1>13. TimerTypes'
  BY <1>1, <1>2, <1>7, <1>12 DEF TimerTypes
<1>14. Owned'
  BY <1>1, <1>2, <1>8, <1>11 DEF Owned
<1> QED
  BY <1>9, <1>13, <1>14 DEF OwnInv

\* The entity that was called goes back to the set or is deleted.
LEMMA ReturnOwned ==
  ASSUME OwnInv, OnTimerReturns
  PROVE  /\ OwnInv' /\ ToSet(expired') = ToSet(expired) \ {Head(expired)}
         /\ Head(expired) \in DOMAIN heap
<1> DEFINE a == Head(expired)
           e == heap[a]
<1>1. TimerTypes /\ Owned /\ tpc = "timer" /\ expired # <<>>
  BY DEF OwnInv, OnTimerReturns, TimerTypes
<1>2. /\ expired' = Tail(expired) /\ tpc' = "next" /\ UNCHANGED <<now, nowTick>>
  BY DEF OnTimerReturns
<1>3. /\ Tail(expired) \in Seq(Address) /\ IsInjective(Tail(expired))
      /\ a \in ToSet(expired) /\ ToSet(Tail(expired)) = ToSet(expired) \ {a}
  BY <1>1, TailProperties DEF TimerTypes, Owned
<1>4. /\ a \in DOMAIN heap /\ a \notin Held /\ e \in Entity /\ a \in Address
      /\ DOMAIN heap = Held \cup ToSet(expired)
  BY <1>1, <1>3 DEF Owned, TimerTypes
<1>5. CASE e.interval = 0
  <2>1. heap' = Without(heap, a) /\ allTimers' = allTimers
    BY <1>5 DEF OnTimerReturns
  <2>2. /\ DOMAIN heap' = DOMAIN heap \ {a} /\ Held' = Held
        /\ \A b \in DOMAIN heap' : heap'[b] = heap[b]
    BY <2>1 DEF Without, Held
  <2>3. heap' \in [DOMAIN heap' -> Entity]
    BY <1>1, <2>1, <2>2 DEF TimerTypes, Without
  <2>4. TimerTypes'
    BY <1>1, <1>2, <1>3, <2>1, <2>2, <2>3 DEF TimerTypes
  <2>5. \A x \in allTimers' : x.when = heap'[x.ent].when
    <3> TAKE x \in allTimers'
    <3>1. x \in allTimers /\ x.ent \in Held
      BY <2>1 DEF Held
    <3> QED
      BY <1>1, <1>4, <2>2, <3>1 DEF Owned
  <2>6. Owned'
    BY <1>1, <1>2, <1>3, <1>4, <2>2, <2>5 DEF Owned
  <2> QED
    BY <1>2, <1>3, <1>4, <2>4, <2>6 DEF OwnInv
<1>6. CASE e.interval # 0
  <2> DEFINE w == NextWhen(e.interval)
  <2>1. /\ heap' = [heap EXCEPT ![a].when = w, ![a].due = nowTick + e.interval]
        /\ allTimers' = allTimers \cup {At(w, a)}
    BY <1>6 DEF OnTimerReturns
  <2>2. e.interval \in Nat /\ nowTick \in Nat
    BY <1>1, <1>4, TimerAssumption DEF Entity, TimerTypes
  <2>3. w \in 0 .. Wrap - 1 /\ nowTick + e.interval \in Nat
    BY <2>2, TickProperties DEF NextWhen
  <2> HIDE DEF w
  <2>4. /\ DOMAIN heap' = DOMAIN heap /\ heap'[a].when = w
        /\ heap'[a] \in Entity
        /\ \A b \in DOMAIN heap \ {a} : heap'[b] = heap[b]
    BY <1>4, <2>1, <2>3 DEF Entity
  <2>5. heap' \in [DOMAIN heap' -> Entity]
    <3>1. \A b \in DOMAIN heap' : heap'[b] \in Entity
      BY <1>1, <2>4 DEF TimerTypes
    <3>2. heap' = [b \in DOMAIN heap' |-> heap'[b]]
      BY <1>1, <2>1 DEF TimerTypes
    <3> QED
      BY <3>1, <3>2
  <2>6. At(w, a) \in [when : 0 .. Wrap - 1, ent : Address] /\ At(w, a).ent = a /\ At(w, a).when = w
    BY <1>4, <2>3 DEF At
  <2>7. IsFiniteSet(allTimers')
    BY <1>1, <2>1, FS_AddElement DEF TimerTypes
  <2>8. Held' = Held \cup {a}
    BY <2>1, <2>6 DEF Held
  <2>9. TimerTypes'
    BY <1>1, <1>2, <1>3, <2>1, <2>4, <2>5, <2>6, <2>7 DEF TimerTypes
  <2>10. \A x \in allTimers' : x.when = heap'[x.ent].when
    <3> TAKE x \in allTimers'
    <3>1. CASE x = At(w, a)
      BY <2>4, <2>6, <3>1
    <3>2. CASE x \in allTimers
      <4>1. x.ent \in Held /\ x.when = heap[x.ent].when
        BY <1>1, <3>2 DEF Held, Owned
      <4>2. x.ent \in DOMAIN heap \ {a}
        BY <1>4, <4>1
      <4> QED
        BY <2>4, <4>1, <4>2
    <3> QED
      BY <2>1, <3>1, <3>2
  <2>11. Owned'
    BY <1>1, <1>2, <1>3, <1>4, <2>4, <2>8, <2>10 DEF Owned
  <2> QED
    BY <1>2, <1>3, <1>4, <2>9, <2>11 DEF OwnInv
<1> QED
  BY <1>5, <1>6

\* DelTimer, of a timer that has no pair in the set, or of the first one it has.
LEMMA DelCases ==
  ASSUME OwnInv, NEW t, DelTimer(t)
  PROVE  \/ Holder(t) = {} /\ UNCHANGED <<allTimers, heap>>
         \/ \E x \in Holder(t) : /\ x \in allTimers /\ allTimers' = allTimers \ {x}
                                 /\ heap' = Without(heap, x.ent)
<1>1. CASE Holder(t) = {}
  BY <1>1 DEF DelTimer
<1>2. CASE Holder(t) # {}
  <2>1. First(Holder(t)) \in Holder(t) /\ Holder(t) \in SUBSET allTimers
    BY <1>2, HolderProperties DEF OwnInv
  <2>2. /\ allTimers' = allTimers \ {First(Holder(t))}
        /\ heap' = Without(heap, First(Holder(t)).ent)
    BY <1>2 DEF DelTimer
  <2> QED
    BY <2>1, <2>2
<1> QED
  BY <1>1, <1>2

LEMMA OwnStep ==
  ASSUME OwnInv, [TimerNext]_timerVars
  PROVE  OwnInv'
<1>1. ASSUME UNCHANGED <<allTimers, heap, expired, nowTick, tpc>>, now' \in Nat
      PROVE  OwnInv'
  BY <1>1 DEF OwnInv, TimerTypes, Owned, Held
<1>2. CASE TickPasses
  BY <1>1, <1>2 DEF TickPasses, OwnInv, TimerTypes
<1>3. ASSUME NEW t \in Timers, NEW w \in Delays, NEW i \in Intervals, AddTimer(t, w, i)
      PROVE  OwnInv'
  BY <1>3, AddOwned
<1>4. ASSUME NEW t \in Timers, DelTimer(t)
      PROVE  OwnInv'
  <2>1. UNCHANGED <<now, expired, nowTick, tpc>>
    BY <1>4 DEF DelTimer
  <2>2. CASE UNCHANGED <<allTimers, heap>>
    BY <1>1, <2>1, <2>2 DEF OwnInv, TimerTypes
  <2>3. CASE \E x \in Holder(t) : /\ x \in allTimers /\ allTimers' = allTimers \ {x}
                                  /\ heap' = Without(heap, x.ent)
    BY <2>1, <2>3, RemoveOwned
  <2> QED
    BY <1>4, <2>2, <2>3, DelCases
<1>5. CASE OnEvent
  BY <1>5, EventOwned
<1>6. CASE OnEventDone
  BY <1>6 DEF OnEventDone, OwnInv, TimerTypes, Owned, Held
<1>7. CASE CallOnTimer
  BY <1>7 DEF CallOnTimer, OwnInv, TimerTypes, Owned, Held
<1>8. CASE OnTimerReturns
  BY <1>8, ReturnOwned
<1>9. CASE UNCHANGED timerVars
  BY <1>1, <1>9 DEF timerVars, OwnInv, TimerTypes
<1> QED
  BY <1>2, <1>3, <1>4, <1>5, <1>6, <1>7, <1>8, <1>9 DEF TimerNext, TimerStep

\* The set and the copies of OnEvent hold every entity of the wheel, and each once.
THEOREM OwnInvariant == TimerSpec => []OwnInv
<1>1. OwnInv /\ [TimerNext]_timerVars => OwnInv'
  BY OwnStep
<1> QED
  BY OwnInit, <1>1, PTL DEF TimerSpec

\* The set has as many pairs as entities.
LEMMA HeldCardinality ==
  ASSUME OwnInv
  PROVE  Cardinality(Held) = Cardinality(allTimers)
<1> DEFINE f == [x \in allTimers |-> x.ent]
<1>1. f \in [allTimers -> Held] /\ \A x \in allTimers : f[x] = x.ent
  BY DEF Held
<1>2. \A x, y \in allTimers : f[x] = f[y] => x = y
  BY <1>1, HeldProperties
<1>3. \A a \in Held : \E x \in allTimers : f[x] = a
  BY DEF Held
<1> HIDE DEF f
<1>4. f \in Bijection(allTimers, Held)
  BY <1>1, <1>2, <1>3, Fun_IsBij
<1>5. ExistsBijection(allTimers, Held)
  BY <1>4 DEF ExistsBijection
<1> QED
  BY <1>5, FS_Bijection DEF OwnInv, TimerTypes

\* TimerWheel, whatever the timers add and delete in OnTimer: every entity is in the set
\* or among the copies of OnEvent, and in one of them only.
THEOREM EntitiesOwnedHolds == TimerSpec => []EntitiesOwned
<1>1. OwnInv => EntitiesOwned
  BY HeldCardinality DEF OwnInv, TimerTypes, Owned, EntitiesOwned
<1> QED
  BY OwnInvariant, <1>1, PTL

-------------------------------------------------------------------------------
(* The times *)

\* In the first round of the clock, the tick of an entity is its time, and the copies of
\* OnEvent are of a time that is over.
Timely ==
    /\ early = FALSE
    /\ \A a \in DOMAIN heap : heap[a].due < Wrap => heap[a].when = heap[a].due
    /\ \A a \in ToSet(expired) : heap[a].due < Wrap => heap[a].due < now

TimeInv == OwnInv /\ Timely

LEMMA TimeStep ==
  ASSUME TimeInv, [TimerNext]_timerVars
  PROVE  TimeInv'
<1>0. /\ OwnInv /\ OwnInv' /\ Timely /\ TimerTypes /\ Owned
      /\ now \in Nat /\ nowTick \in Nat /\ Wrap \in Nat \ {0}
      /\ \A a \in DOMAIN heap : heap[a] \in Entity
      /\ ToSet(expired) \subseteq DOMAIN heap
  BY OwnStep, TimerAssumption DEF TimeInv, OwnInv, TimerTypes, Owned
<1>1. ASSUME UNCHANGED <<heap, expired, early>>, now' \in Nat, now <= now'
      PROVE  TimeInv'
  <2>1. ASSUME NEW a \in ToSet(expired'), heap'[a].due < Wrap
        PROVE  heap'[a].due < now'
    <3>1. a \in ToSet(expired) /\ heap[a].due < now /\ heap[a].due \in Nat
      BY <1>0, <1>1, <2>1 DEF Timely, Entity
    <3> QED
      BY <1>0, <1>1, <3>1
  <2> QED
    BY <1>0, <1>1, <2>1 DEF TimeInv, Timely
<1>2. CASE TickPasses
  <2>1. UNCHANGED <<heap, expired, early>> /\ now' = now + 1
    BY <1>2 DEF TickPasses
  <2> QED
    BY <1>0, <1>1, <2>1
<1>3. ASSUME NEW t \in Timers, NEW w \in Delays, NEW i \in Intervals, AddTimer(t, w, i)
      PROVE  TimeInv'
  <2>1. PICK a \in Address \ DOMAIN heap :
          heap' = [b \in DOMAIN heap \cup {a} |->
                     IF b = a THEN [timer |-> t, when |-> (Tick + w) % Wrap,
                                    interval |-> i, due |-> now + w]
                     ELSE heap[b]]
    BY <1>3 DEF AddTimer
  <2>2. UNCHANGED <<now, expired, early>>
    BY <1>3 DEF AddTimer
  <2>3. /\ DOMAIN heap' = DOMAIN heap \cup {a} /\ heap'[a].when = (Tick + w) % Wrap
        /\ heap'[a].due = now + w /\ \A b \in DOMAIN heap : heap'[b] = heap[b]
    BY <2>1
  <2>4. ASSUME now + w < Wrap
        PROVE  (Tick + w) % Wrap = now + w
    <3>1. w \in Nat
      BY TimerAssumption
    <3>2. now < Wrap /\ now + w \in Nat
      BY <1>0, <2>4, <3>1
    <3>3. Tick = now
      BY <1>0, <3>2, TickProperties DEF Tick
    <3> QED
      BY <2>4, <3>2, <3>3, TickProperties
  <2>5. \A b \in DOMAIN heap' : heap'[b].due < Wrap => heap'[b].when = heap'[b].due
    BY <1>0, <2>3, <2>4 DEF Timely
  <2>6. \A b \in ToSet(expired') : heap'[b].due < Wrap => heap'[b].due < now'
    BY <1>0, <2>2, <2>3 DEF Timely
  <2> QED
    BY <1>0, <2>2, <2>5, <2>6 DEF TimeInv, Timely
<1>4. ASSUME NEW t \in Timers, DelTimer(t)
      PROVE  TimeInv'
  <2>1. UNCHANGED <<now, expired, early>>
    BY <1>4 DEF DelTimer
  <2>2. CASE UNCHANGED heap
    BY <1>0, <1>1, <2>1, <2>2
  <2>3. CASE \E x \in Holder(t) : /\ x \in allTimers /\ allTimers' = allTimers \ {x}
                                  /\ heap' = Without(heap, x.ent)
    <3>1. PICK x \in allTimers : heap' = Without(heap, x.ent)
      BY <2>3
    <3>2. /\ DOMAIN heap' = DOMAIN heap \ {x.ent}
          /\ \A b \in DOMAIN heap' : heap'[b] = heap[b]
      BY <3>1 DEF Without
    <3>3. ToSet(expired') \subseteq DOMAIN heap'
      BY <1>0 DEF OwnInv, Owned
    <3>4. \A b \in DOMAIN heap' : heap'[b].due < Wrap => heap'[b].when = heap'[b].due
      BY <1>0, <3>2 DEF Timely
    <3>5. \A b \in ToSet(expired') : heap'[b].due < Wrap => heap'[b].due < now'
      BY <1>0, <2>1, <3>2, <3>3 DEF Timely
    <3> QED
      BY <1>0, <2>1, <3>4, <3>5 DEF TimeInv, Timely
  <2> QED
    BY <1>0, <1>4, <2>2, <2>3, DelCases
<1>5. CASE OnEvent
  <2>1. UNCHANGED <<heap, early, now>>
    BY <1>5 DEF OnEvent
  <2>2. ASSUME NEW a \in ToSet(expired'), heap[a].due < Wrap
        PROVE  heap[a].due < now
    <3>1. PICK x \in Due : x.ent = a
      BY <1>0, <1>5, EventOwned
    <3>2. x \in allTimers /\ x.when < Tick
      BY DEF Due
    <3>3. a \in DOMAIN heap /\ x.when = heap[a].when
      BY <1>0, <3>1, <3>2 DEF Owned, Held
    <3>4. heap[a].due = heap[a].when /\ heap[a].due \in Nat
      BY <1>0, <2>2, <3>3 DEF Timely, Entity
    <3>5. Tick <= now /\ Tick \in Nat
      BY <1>0, TickProperties DEF Tick
    <3> QED
      BY <1>0, <3>2, <3>3, <3>4, <3>5
  <2> QED
    BY <1>0, <2>1, <2>2 DEF TimeInv, Timely
<1>6. CASE OnEventDone
  <2>1. UNCHANGED <<heap, expired, early, now>>
    BY <1>6 DEF OnEventDone
  <2> QED
    BY <1>0, <1>1, <2>1
<1>7. CASE CallOnTimer
  <2> DEFINE a == Head(expired)
  <2>1. UNCHANGED <<heap, expired, now>> /\ expired # <<>>
    BY <1>7 DEF CallOnTimer
  <2>2. a \in ToSet(expired)
    BY <1>0, <2>1, TailProperties DEF TimerTypes, Owned
  <2>3. heap[a].due \in Nat /\ (heap[a].due < Wrap => heap[a].due < now)
    BY <1>0, <2>2 DEF Timely, Entity
  <2>4. ~(now < heap[a].due /\ heap[a].due < Wrap)
    BY <1>0, <2>3
  <2>5. early' = (early \/ (now < heap[a].due /\ heap[a].due < Wrap))
    BY <1>7 DEF CallOnTimer
  <2>6. early' = FALSE
    <3>1. early = FALSE
      BY <1>0 DEF Timely
    <3> HIDE DEF a
    <3> QED
      BY <2>4, <2>5, <3>1, Zenon
  <2> QED
    BY <1>0, <2>1, <2>6 DEF TimeInv, Timely
<1>8. CASE OnTimerReturns
  <2> DEFINE a == Head(expired)
             e == heap[a]
  <2>1. /\ ToSet(expired') = ToSet(expired) \ {a} /\ a \in DOMAIN heap
        /\ UNCHANGED <<now, early>>
    BY <1>0, <1>8, ReturnOwned DEF OnTimerReturns
  <2>2. ASSUME NEW b \in DOMAIN heap \ {a}, b \in DOMAIN heap'
        PROVE  heap'[b] = heap[b]
    BY <1>8, <2>2 DEF OnTimerReturns, Without
  <2>3. /\ DOMAIN heap' \subseteq DOMAIN heap
        /\ a \in DOMAIN heap' =>
             /\ heap'[a].when = NextWhen(e.interval)
             /\ heap'[a].due = nowTick + e.interval
    <3>1. CASE e.interval = 0
      BY <1>8, <2>1, <3>1 DEF OnTimerReturns, Without
    <3>2. CASE e.interval # 0
      <4>1. heap' = [heap EXCEPT ![a].when = NextWhen(e.interval),
                                 ![a].due = nowTick + e.interval]
        BY <1>8, <3>2 DEF OnTimerReturns
      <4>2. e \in Entity
        BY <1>0, <2>1
      <4> QED
        BY <2>1, <4>1, <4>2 DEF Entity
    <3> QED
      BY <3>1, <3>2
  <2>4. ASSUME a \in DOMAIN heap', heap'[a].due < Wrap
        PROVE  heap'[a].when = heap'[a].due
    <3>1. e.interval \in Nat
      BY <1>0, <2>1, TimerAssumption DEF Entity
    <3>2. nowTick + e.interval \in Nat /\ nowTick + e.interval < Wrap
      BY <1>0, <2>3, <2>4, <3>1
    <3> QED
      BY <2>3, <2>4, <3>2, TickProperties DEF NextWhen
  <2>5. \A b \in DOMAIN heap' : heap'[b].due < Wrap => heap'[b].when = heap'[b].due
    BY <1>0, <2>2, <2>3, <2>4 DEF Timely
  <2>6. \A b \in ToSet(expired') : heap'[b].due < Wrap => heap'[b].due < now'
    <3>1. ToSet(expired') \subseteq DOMAIN heap'
      BY <1>0 DEF OwnInv, Owned
    <3> QED
      BY <1>0, <2>1, <2>2, <3>1 DEF Timely
  <2> QED
    BY <1>0, <2>1, <2>5, <2>6 DEF TimeInv, Timely
<1>9. CASE UNCHANGED timerVars
  <2>1. UNCHANGED <<heap, expired, early, now>>
    BY <1>9 DEF timerVars
  <2> QED
    BY <1>0, <1>1, <2>1
<1> QED
  BY <1>2, <1>3, <1>4, <1>5, <1>6, <1>7, <1>8, <1>9 DEF TimerNext, TimerStep

\* Until the clock has started over, the tick of every entity stands for its time, and
\* the copies of OnEvent are due.
THEOREM TimeInvariant == TimerSpec => []TimeInv
<1>1. TimerInit => TimeInv
  BY OwnInit DEF TimerInit, NoEntities, TimeInv, Timely, ToSet
<1>2. TimeInv /\ [TimerNext]_timerVars => TimeInv'
  BY TimeStep
<1> QED
  BY <1>1, <1>2, PTL DEF TimerSpec

\* OnEvent calls no timer before its time, until the clock has started over.
THEOREM NeverEarlyHolds == TimerSpec => []NeverEarly
<1>1. TimeInv => NeverEarly
  BY DEF TimeInv, Timely, NeverEarly
<1> QED
  BY TimeInvariant, <1>1, PTL

-------------------------------------------------------------------------------
(* Deleted timers *)

\* A timer that was never added while a copy of it waited has one entity at most, and
\* none if it was deleted.
Silence ==
    /\ loud \subseteq Timers
    /\ \A t \in Timers \ twice :
          /\ t \notin loud
          /\ \A a, b \in DOMAIN heap : heap[a].timer = t /\ heap[b].timer = t => a = b
          /\ t \in silent => \A a \in DOMAIN heap : heap[a].timer # t

SilentInv == OwnInv /\ Silence

LEMMA SilentStep ==
  ASSUME SilentInv, [TimerNext]_timerVars
  PROVE  SilentInv'
<1>0. OwnInv /\ OwnInv' /\ Silence /\ TimerTypes /\ Owned
  BY OwnStep DEF SilentInv, OwnInv
<1>1. ASSUME DOMAIN heap' \subseteq DOMAIN heap, \A a \in DOMAIN heap' : heap'[a].timer = heap[a].timer,
             UNCHANGED <<silent, twice, loud>>
      PROVE  SilentInv'
  BY <1>0, <1>1 DEF SilentInv, Silence
<1>2. CASE TickPasses
  BY <1>1, <1>2 DEF TickPasses
<1>3. ASSUME NEW t \in Timers, NEW w \in Delays, NEW i \in Intervals, AddTimer(t, w, i)
      PROVE  SilentInv'
  <2>1. PICK a \in Address \ DOMAIN heap :
          heap' = [b \in DOMAIN heap \cup {a} |->
                     IF b = a THEN [timer |-> t, when |-> (Tick + w) % Wrap,
                                    interval |-> i, due |-> now + w]
                     ELSE heap[b]]
    BY <1>3 DEF AddTimer
  <2>2. /\ silent' = silent \ {t} /\ loud' = loud /\ Holder(t) = {}
        /\ twice' = IF Copied(t) THEN twice \cup {t} ELSE twice
    BY <1>3 DEF AddTimer
  <2>3. /\ DOMAIN heap' = DOMAIN heap \cup {a} /\ heap'[a].timer = t
        /\ \A b \in DOMAIN heap : heap'[b] = heap[b]
    BY <2>1
  <2>4. ASSUME t \notin twice' PROVE \A b \in DOMAIN heap : heap[b].timer # t
    <3>1. ~Copied(t)
      BY <2>2, <2>4
    <3> QED
      BY <1>0, <2>2, <3>1 DEF Copied, Holder, Held, Owned
  <2>5. ASSUME NEW s \in Timers \ twice'
        PROVE  /\ s \notin loud'
               /\ \A c, b \in DOMAIN heap' : heap'[c].timer = s /\ heap'[b].timer = s => c = b
               /\ s \in silent' => \A b \in DOMAIN heap' : heap'[b].timer # s
    <3>1. s \notin twice
      BY <2>2, <2>5
    <3> QED
      BY <1>0, <2>2, <2>3, <2>4, <2>5, <3>1 DEF Silence
  <2> QED
    BY <1>0, <2>2, <2>5 DEF SilentInv, Silence
<1>4. ASSUME NEW t \in Timers, DelTimer(t)
      PROVE  SilentInv'
  <2>1. UNCHANGED <<twice, loud>> /\ silent' = IF Copied(t) THEN silent ELSE silent \cup {t}
    BY <1>4 DEF DelTimer
  <2>2. /\ DOMAIN heap' \subseteq DOMAIN heap
        /\ \A a \in DOMAIN heap' : heap'[a].timer = heap[a].timer
        /\ (Holder(t) # {} =>
              \E x \in Holder(t) : /\ x \in allTimers /\ x.ent \in DOMAIN heap
                                   /\ DOMAIN heap' = DOMAIN heap \ {x.ent})
    <3>1. CASE Holder(t) = {} /\ UNCHANGED <<allTimers, heap>>
      BY <3>1
    <3>2. CASE \E x \in Holder(t) : /\ x \in allTimers /\ allTimers' = allTimers \ {x}
                                    /\ heap' = Without(heap, x.ent)
      <4>1. PICK x \in Holder(t) : x \in allTimers /\ heap' = Without(heap, x.ent)
        BY <3>2
      <4>2. x.ent \in DOMAIN heap
        BY <1>0, <4>1 DEF Owned, Held
      <4> QED
        BY <4>1, <4>2 DEF Without
    <3> QED
      BY <1>0, <1>4, <3>1, <3>2, DelCases
  <2>3. CASE Copied(t)
    BY <1>1, <2>1, <2>2, <2>3
  <2>4. CASE ~Copied(t)
    <3>1. ASSUME t \notin twice, NEW a \in DOMAIN heap', heap[a].timer = t
          PROVE  FALSE
      <4>1. a \in Held
        BY <1>0, <2>2, <2>4, <3>1 DEF Owned, Copied
      <4>2. PICK y \in allTimers : y.ent = a
        BY <4>1 DEF Held
      <4>3. y \in Holder(t)
        BY <3>1, <4>2 DEF Holder
      <4>4. PICK x \in Holder(t) : x.ent \in DOMAIN heap /\ DOMAIN heap' = DOMAIN heap \ {x.ent}
        BY <2>2, <4>3
      <4>5. heap[x.ent].timer = t
        BY DEF Holder
      <4> QED
        BY <1>0, <2>2, <3>1, <4>4, <4>5 DEF Silence
    <3>2. ASSUME NEW s \in Timers \ twice'
          PROVE  /\ s \notin loud'
                 /\ \A c, b \in DOMAIN heap' : heap'[c].timer = s /\ heap'[b].timer = s => c = b
                 /\ s \in silent' => \A b \in DOMAIN heap' : heap'[b].timer # s
      BY <1>0, <2>1, <2>2, <3>1, <3>2 DEF Silence
    <3> QED
      BY <1>0, <2>1, <3>2 DEF SilentInv, Silence
  <2> QED
    BY <2>3, <2>4
<1>5. CASE OnEvent
  BY <1>1, <1>5 DEF OnEvent
<1>6. CASE OnEventDone
  BY <1>1, <1>6 DEF OnEventDone
<1>7. CASE CallOnTimer
  <2> DEFINE a == Head(expired)
  <2>1. UNCHANGED <<heap, expired, silent, twice>> /\ expired # <<>>
    BY <1>7 DEF CallOnTimer
  <2>2. a \in ToSet(expired) /\ a \in DOMAIN heap
    BY <1>0, <2>1, TailProperties DEF TimerTypes, Owned
  <2>3. loud' = loud \cup ({heap[a].timer} \cap silent) /\ heap[a].timer \in Timers
    BY <1>0, <1>7, <2>2 DEF CallOnTimer, TimerTypes, Entity
  <2> HIDE DEF a
  <2>4. \A s \in Timers \ twice : s \notin loud'
    BY <1>0, <2>2, <2>3 DEF Silence
  <2> QED
    BY <1>0, <2>1, <2>3, <2>4 DEF SilentInv, Silence
<1>8. CASE OnTimerReturns
  <2> DEFINE a == Head(expired)
             e == heap[a]
  <2>1. a \in DOMAIN heap /\ UNCHANGED <<silent, twice, loud>>
    BY <1>0, <1>8, ReturnOwned DEF OnTimerReturns
  <2>2. CASE e.interval = 0
    BY <1>1, <1>8, <2>1, <2>2 DEF OnTimerReturns, Without
  <2>3. CASE e.interval # 0
    <3>1. heap' = [heap EXCEPT ![a].when = NextWhen(e.interval),
                               ![a].due = nowTick + e.interval]
      BY <1>8, <2>3 DEF OnTimerReturns
    <3>2. e \in Entity
      BY <1>0, <2>1 DEF TimerTypes
    <3>3. /\ DOMAIN heap' = DOMAIN heap /\ heap'[a].timer = e.timer
          /\ \A b \in DOMAIN heap \ {a} : heap'[b] = heap[b]
      BY <2>1, <3>1, <3>2 DEF Entity
    <3> QED
      BY <1>1, <2>1, <3>3
  <2> QED
    BY <2>2, <2>3
<1>9. CASE UNCHANGED timerVars
  BY <1>1, <1>9 DEF timerVars
<1> QED
  BY <1>2, <1>3, <1>4, <1>5, <1>6, <1>7, <1>8, <1>9 DEF TimerNext, TimerStep

\* A timer that was deleted has no entity left, unless it was added twice.
THEOREM SilentInvariant == TimerSpec => []SilentInv
<1>1. TimerInit => SilentInv
  BY OwnInit DEF TimerInit, NoEntities, SilentInv, Silence
<1>2. SilentInv /\ [TimerNext]_timerVars => SilentInv'
  BY SilentStep
<1> QED
  BY <1>1, <1>2, PTL DEF TimerSpec

\* A timer that is deleted while no copy of it waits is not called any more until it is
\* added again, whatever OnEvent was about to do before and however many timers there
\* are, unless it was once added while a copy of it waited.
THEOREM DeletedIsSilentHolds == TimerSpec => []DeletedIsSilent
<1>1. SilentInv => DeletedIsSilent
  BY DEF SilentInv, Silence, DeletedIsSilent
<1> QED
  BY SilentInvariant, <1>1, PTL
===============================================================================
