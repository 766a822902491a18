--------------------------- MODULE LogicThreadProofs ---------------------------
(***************************************************************************)
(* Theorems of LogicThread, for any number of threads, events and          *)
(* functions, whatever the functions and the sinks call.                   *)
(***************************************************************************)
EXTENDS LogicThread, SequenceTheorems, TLAPS

Pcs == {"idle", "lock", "in", "stop", "join"}

\* The mutex belongs to whoever is in a critical section of more than one step: to the
\* loop while it runs functions, to another thread while it is in its call.
MutexOwned ==
    /\ cpc \in [Callers -> Pcs]
    /\ owner = "loop" <=> lpc = "funcs"
    /\ \A c \in Callers : cpc[c] = "in" => owner = c

MutexInv == MutexOwned /\ NeverTorn

LEMMA MutexInit == Init => MutexInv
  BY DEF Init, MutexInv, MutexOwned, NeverTorn, Pcs

\* A function runs under the mutex, so nobody else is at the vector.
LEMMA FuncAlone ==
  ASSUME MutexInv, RunFunc
  PROVE  ~torn' /\ lpc' = lpc /\ owner' = owner /\ cpc' = cpc
<1>1. lpc = "funcs" /\ owner = "loop" /\ \A c \in Callers : cpc[c] # "in"
  BY LogicAssumption DEF RunFunc, MutexInv, MutexOwned
<1>2. ~\E y \in Threads \ {"loop"} : AtVector(y)
  BY <1>1, LogicAssumption DEF AtVector, Threads
<1> QED
  BY <1>2 DEF RunFunc, Tears, loopVars, callVars

LEMMA MutexStep == MutexInv /\ [Next]_<<load, vars>> => MutexInv'
<1> SUFFICES ASSUME MutexInv, [Next]_<<load, vars>> PROVE MutexInv'
  OBVIOUS
<1> USE LogicAssumption
    DEF MutexInv, MutexOwned, NeverTorn, Pcs, loopVars, callVars, funcVars, vecVars
<1>1. ASSUME NEW c \in Callers, Call(c) PROVE MutexInv'
  BY <1>1 DEF Call
<1>2. ASSUME NEW c \in Callers, Lock(c) PROVE MutexInv'
  BY <1>2 DEF Lock
<1>3. ASSUME NEW c \in Callers, NEW call, NEW pc \in Pcs \ {"in"}, Leave(c, call, pc)
      PROVE  MutexInv'
  BY <1>3 DEF Leave
<1>4. ASSUME NEW c \in Callers, CallStep(c) PROVE MutexInv'
  BY <1>3, <1>4 DEF CallStep, AddEvent, RemoveEvent, RunInLoop, Release, ReleaseStop
<1>5. ASSUME NEW c \in Callers, ReleaseJoined(c) PROVE MutexInv'
  BY <1>5 DEF ReleaseJoined
<1>6. ASSUME NEW e \in Events, SetEvent(e) PROVE MutexInv'
  BY <1>6 DEF SetEvent
<1>7. CASE LoopEnds \/ LockFuncs \/ ClearFuncs \/ CopyEvents \/ WaitEvent \/ WaitNothing
  BY <1>7 DEF LoopEnds, LockFuncs, ClearFuncs, CopyEvents, WaitEvent, WaitNothing
<1>8. CASE RunFunc
  BY <1>8, FuncAlone
\* A sink runs without it, and the loop is out of its functions.
<1>9. CASE OnEvent \/ SinkScan \/ SinkAct
  BY <1>9 DEF OnEvent, SinkScan, SinkAct
<1>10. CASE UNCHANGED vars
  BY <1>10 DEF vars
<1> QED
  BY <1>1, <1>2, <1>4, <1>5, <1>6, <1>7, <1>8, <1>9, <1>10 DEF Next, LoopStep

\* While the loop runs functions, which may add and remove events, no other thread is in
\* the vector of events.
THEOREM NeverTornHolds == Spec => []NeverTorn
<1>1. MutexInv => NeverTorn
  BY DEF MutexInv
<1> QED
  BY <1>1, MutexInit, MutexStep, PTL DEF Spec

-------------------------------------------------------------------------------
(* The functions *)

\* The loop is at a function of its list, or behind the last; out of the list it has none
\* left over that it would not run.
FuncsTyped ==
    /\ posted \in Seq(Nat) /\ ran \in Seq(Nat) /\ funcs \in Seq(Nat)
    /\ next \in 1 .. Len(funcs) + 1

FuncsInv == FuncsTyped /\ FuncsInOrder /\ (lpc # "funcs" => next = 1)

\* What is left of a list grows with the list.
LEMMA RestAppend ==
  ASSUME NEW s \in Seq(Nat), NEW n \in 1 .. Len(s) + 1, NEW x \in Nat
  PROVE  SubSeq(Append(s, x), n, Len(s) + 1) = Append(SubSeq(s, n, Len(s)), x)
  BY SMTT(60)

\* An element between two lists is the last of the first or the first of the second.
LEMMA ConcatMiddle ==
  ASSUME NEW r \in Seq(Nat), NEW x \in Nat, NEW s \in Seq(Nat)
  PROVE  r \o (<<x>> \o s) = Append(r, x) \o s
<1>1. <<x>> \in Seq(Nat)
  OBVIOUS
<1>2. Append(r, x) = r \o <<x>>
  BY AppendIsConcat
<1>3. (r \o <<x>>) \o s = r \o (<<x>> \o s)
  BY <1>1, ConcatAssociative
<1> QED
  BY <1>2, <1>3

\* What is left of a list loses its first.
LEMMA RestHead ==
  ASSUME NEW r \in Seq(Nat), NEW s \in Seq(Nat), NEW n \in 1 .. Len(s)
  PROVE  r \o SubSeq(s, n, Len(s)) = Append(r, s[n]) \o SubSeq(s, n + 1, Len(s))
<1>1. n + 1 \in Int /\ Len(s) \in n .. Len(s) /\ \A i \in n + 1 .. Len(s) : s[i] \in Nat
  OBVIOUS
<1>2. s[n] \in Nat /\ SubSeq(s, n + 1, Len(s)) \in Seq(Nat)
  BY <1>1, SubSeqProperties
<1>3. SubSeq(s, n, Len(s)) = <<s[n]>> \o SubSeq(s, n + 1, Len(s))
  BY <1>1, SubSeqRecursiveFirst
<1>4. r \o (<<s[n]>> \o SubSeq(s, n + 1, Len(s))) = Append(r, s[n]) \o SubSeq(s, n + 1, Len(s))
  <2> SUFFICES ASSUME NEW x \in Nat, NEW rest \in Seq(Nat)
               PROVE  r \o (<<x>> \o rest) = Append(r, x) \o rest
    BY <1>2
  <2> QED
    BY ConcatMiddle
<1> QED
  BY <1>3, <1>4

\* An element put behind the second of two lists is behind both.
LEMMA ConcatAppend ==
  ASSUME NEW r \in Seq(Nat), NEW s \in Seq(Nat), NEW x \in Nat
  PROVE  r \o Append(s, x) = Append(r \o s, x)
<1>1. <<x>> \in Seq(Nat) /\ r \o s \in Seq(Nat)
  BY ConcatProperties
<1>2. Append(s, x) = s \o <<x>> /\ Append(r \o s, x) = (r \o s) \o <<x>>
  BY <1>1, AppendIsConcat
<1> QED
  BY <1>1, <1>2, ConcatAssociative

LEMMA FuncsInit == Init => FuncsInv
  BY DEF Init, FuncsInv, FuncsTyped, FuncsInOrder

LEMMA FuncsStep == MutexInv /\ FuncsInv /\ [Next]_<<load, vars>> => FuncsInv'
<1> SUFFICES ASSUME MutexInv, FuncsInv, [Next]_<<load, vars>> PROVE FuncsInv'
  OBVIOUS
<1> USE DEF FuncsInv, FuncsTyped, FuncsInOrder, loopVars, callVars, funcVars
<1>1. CASE UNCHANGED <<funcVars, lpc>>
  BY <1>1
<1>2. ASSUME NEW c \in Callers, RunInLoop(c) PROVE FuncsInv'
  <2>1. lpc' = lpc /\ next' = next /\ ran' = ran
    BY <1>2 DEF RunInLoop, Leave
  <2>2. PICK x \in Nat : posted' = Append(posted, x) /\ funcs' = Append(funcs, x)
    <3>1. Len(posted) + 1 \in Nat
      OBVIOUS
    <3> QED
      BY <1>2, <3>1 DEF RunInLoop
  <2>3. /\ posted' \in Seq(Nat) /\ funcs' \in Seq(Nat)
        /\ Len(funcs') = Len(funcs) + 1
    BY <2>2, AppendProperties
  <2>4. PICK rest \in Seq(Nat) : rest = SubSeq(funcs, next, Len(funcs))
    <3>1. next \in Int /\ Len(funcs) \in Int /\ \A i \in next .. Len(funcs) : funcs[i] \in Nat
      OBVIOUS
    <3> QED
      BY <3>1, SubSeqProperties
  <2>5. SubSeq(funcs', next', Len(funcs')) = Append(rest, x)
    <3>1. SubSeq(Append(funcs, x), next, Len(funcs) + 1) = Append(rest, x)
      BY <2>4, RestAppend
    <3> QED
      BY <3>1, <2>1, <2>2, <2>3
  <2>6. posted' = ran' \o SubSeq(funcs', next', Len(funcs'))
    <3>1. posted = ran \o rest
      BY <2>4
    <3>2. posted' = Append(ran \o rest, x)
      BY <3>1, <2>2
    <3>3. ran \o Append(rest, x) = Append(ran \o rest, x)
      BY <2>4, ConcatAppend
    <3> QED
      BY <3>2, <3>3, <2>1, <2>5
  <2>7. next' \in 1 .. Len(funcs') + 1
    BY <2>1, <2>3
  <2> QED
    BY <2>1, <2>3, <2>6, <2>7
<1>3. CASE LockFuncs
  BY <1>3 DEF LockFuncs
<1>4. CASE RunFunc
  <2>1. /\ next \in 1 .. Len(funcs) /\ next' = next + 1
        /\ ran' = Append(ran, funcs[next])
        /\ UNCHANGED <<posted, funcs, lpc>>
    BY <1>4 DEF RunFunc
  <2>2. lpc = "funcs" /\ ran' \in Seq(Nat)
    BY <1>4, <2>1 DEF RunFunc
  <2>3. ran \o SubSeq(funcs, next, Len(funcs)) = ran' \o SubSeq(funcs, next', Len(funcs))
    BY <2>1, RestHead
  <2> QED
    BY <2>1, <2>2, <2>3
<1>5. CASE ClearFuncs
  <2>1. /\ next = Len(funcs) + 1
        /\ funcs' = <<>> /\ next' = 1
        /\ UNCHANGED <<posted, ran>>
    BY <1>5 DEF ClearFuncs
  <2>2. SubSeq(funcs, next, Len(funcs)) = <<>>
    BY <2>1
  <2>3. SubSeq(funcs', next', Len(funcs')) = <<>>
    BY <2>1
  <2> QED
    BY <2>1, <2>2, <2>3
<1>6. CASE \/ LoopEnds \/ CopyEvents \/ WaitEvent \/ WaitNothing
           \/ OnEvent \/ SinkScan \/ SinkAct
  BY <1>6 DEF LoopEnds, CopyEvents, WaitEvent, WaitNothing, OnEvent, SinkScan, SinkAct
<1>7. ASSUME NEW c \in Callers,
             Call(c) \/ Lock(c) \/ AddEvent(c) \/ RemoveEvent(c) \/ Release(c)
               \/ ReleaseStop(c) \/ ReleaseJoined(c)
      PROVE  UNCHANGED <<funcVars, lpc>>
  BY <1>7 DEF Call, Lock, AddEvent, RemoveEvent, Release, Leave, ReleaseStop, ReleaseJoined
<1>8. ASSUME NEW e \in Events, SetEvent(e) PROVE UNCHANGED <<funcVars, lpc>>
  BY <1>8 DEF SetEvent
<1>9. CASE UNCHANGED vars
  BY <1>9 DEF vars
<1> QED
  BY <1>1, <1>2, <1>3, <1>4, <1>5, <1>6, <1>7, <1>8, <1>9 DEF Next, CallStep, LoopStep

\* Every function handed over is run once, in the order of RunInLoop, or is in the list
\* behind those that were run.
THEOREM FuncsInOrderHolds == Spec => []FuncsInOrder
<1>1. FuncsInv => FuncsInOrder
  BY DEF FuncsInv
<1> QED
  BY <1>1, MutexInit, MutexStep, FuncsInit, FuncsStep, PTL DEF Spec

-------------------------------------------------------------------------------
(* The vector of events *)

Distinct(vec) == \A i, j \in 1 .. Len(vec) : vec[i] = vec[j] => i = j

LEMMA AppendDistinct ==
  ASSUME NEW vec \in Seq(Events), Distinct(vec), NEW e \in Events, ~InVec(e, vec)
  PROVE  Distinct(Append(vec, e))
<1>1. Append(vec, e) \in Seq(Events) /\ Len(Append(vec, e)) = Len(vec) + 1
  OBVIOUS
<1>2. \A i \in 1 .. Len(vec) + 1 :
         Append(vec, e)[i] = IF i = Len(vec) + 1 THEN e ELSE vec[i]
  OBVIOUS
<1>3. \A i \in 1 .. Len(vec) : vec[i] # e
  BY DEF InVec
<1> QED
  BY <1>1, <1>2, <1>3 DEF Distinct

\* The entries in front of one that is erased stay where they are, those behind it move up.
LEMMA ErasedDistinct ==
  ASSUME NEW vec \in Seq(Events), NEW k \in 1 .. Len(vec)
  PROVE  Erased(vec, k) \in Seq(Events) /\ (Distinct(vec) => Distinct(Erased(vec, k)))
<1>1. /\ Erased(vec, k) \in Seq(Events) /\ Len(Erased(vec, k)) = Len(vec) - 1
      /\ \A i \in 1 .. Len(vec) - 1 : Erased(vec, k)[i] = IF i < k THEN vec[i] ELSE vec[i + 1]
  <2> DEFINE front == SubSeq(vec, 1, k - 1)
             back  == SubSeq(vec, k + 1, Len(vec))
  <2>1. /\ front \in Seq(Events) /\ Len(front) = k - 1
        /\ \A i \in 1 .. k - 1 : front[i] = vec[i]
    OBVIOUS
  <2>2. /\ back \in Seq(Events) /\ Len(back) = Len(vec) - k
        /\ \A i \in 1 .. Len(vec) - k : back[i] = vec[k + i]
    OBVIOUS
  <2> HIDE DEF front, back
  <2>3. /\ front \o back \in Seq(Events)
        /\ Len(front \o back) = (k - 1) + (Len(vec) - k)
        /\ \A i \in 1 .. (k - 1) + (Len(vec) - k) :
              (front \o back)[i] = IF i <= k - 1 THEN front[i] ELSE back[i - (k - 1)]
    <3>1. \A i \in 1 .. Len(front) + Len(back) :
             (front \o back)[i] = IF i <= Len(front) THEN front[i] ELSE back[i - Len(front)]
      BY <2>1, <2>2, ConcatProperties
    <3>2. front \o back \in Seq(Events) /\ Len(front \o back) = Len(front) + Len(back)
      BY <2>1, <2>2, ConcatProperties
    <3> QED
      BY <2>1, <2>2, <3>1, <3>2
  <2>4. /\ (k - 1) + (Len(vec) - k) = Len(vec) - 1
        /\ \A i \in 1 .. Len(vec) - 1 : (i <= k - 1) = (i < k)
    OBVIOUS
  <2>5. \A i \in 1 .. Len(vec) - 1 :
           IF i < k THEN front[i] = vec[i] ELSE back[i - (k - 1)] = vec[i + 1]
    <3> TAKE i \in 1 .. Len(vec) - 1
    <3>1. CASE i < k
      BY <2>1, <3>1
    <3>2. CASE ~(i < k)
      <4>1. i - (k - 1) \in 1 .. Len(vec) - k /\ k + (i - (k - 1)) = i + 1
        BY <3>2
      <4> QED
        BY <2>2, <3>2, <4>1
    <3> QED
      BY <3>1, <3>2
  <2>6. \A i \in 1 .. Len(vec) - 1 :
           (front \o back)[i] = IF i < k THEN vec[i] ELSE vec[i + 1]
    BY <2>3, <2>4, <2>5
  <2>7. Erased(vec, k) = front \o back
    BY DEF front, back, Erased
  <2>8. Len(front \o back) = Len(vec) - 1
    BY <2>3, <2>4
  <2> QED
    BY <2>3, <2>6, <2>7, <2>8, Zenon
<1> DEFINE r == Erased(vec, k)
<1>2. r \in Seq(Events) /\ Len(r) = Len(vec) - 1
      /\ \A i \in 1 .. Len(vec) - 1 : r[i] = IF i < k THEN vec[i] ELSE vec[i + 1]
  BY <1>1
<1> HIDE DEF r
<1>3. ASSUME Distinct(vec), NEW i \in 1 .. Len(r), NEW j \in 1 .. Len(r), r[i] = r[j]
      PROVE  i = j
  BY <1>2, <1>3 DEF Distinct
<1>4. r \in Seq(Events) /\ (Distinct(vec) => Distinct(r))
  BY <1>2, <1>3 DEF Distinct
<1> QED
  BY <1>4 DEF r

\* What a search that found nothing means, if no event is there twice.
LEMMA IndexOfNone ==
  ASSUME NEW vec \in Seq(Events), Distinct(vec), NEW e \in Events, IndexOf(e, vec) = 0
  PROVE  ~InVec(e, vec)
<1> SUFFICES ASSUME InVec(e, vec) PROVE FALSE
  OBVIOUS
<1>1. PICK i \in 1 .. Len(vec) : vec[i] = e
  BY DEF InVec
<1>2. \A j \in 1 .. i - 1 : vec[j] # e
  BY <1>1 DEF Distinct
<1> DEFINE k == CHOOSE k \in 1 .. Len(vec) : vec[k] = e /\ \A j \in 1 .. k - 1 : vec[j] # e
<1>3. k \in 1 .. Len(vec)
  BY <1>1, <1>2
<1>4. k = 0
  BY Zenon DEF IndexOf
<1> HIDE DEF k
<1> QED
  BY <1>3, <1>4

LEMMA EffectDistinct ==
  ASSUME vecEvents \in Seq(Events), NEW call, NEW e, NEW i, call = "add" => e \in Events
  PROVE  /\ Effect(call, e, i) \in Seq(Events)
         /\ Distinct(vecEvents) /\ (call = "add" /\ i = 0 => ~InVec(e, vecEvents))
               => Distinct(Effect(call, e, i))
<1>1. CASE call = "add" /\ i = 0
  BY <1>1, AppendDistinct DEF Effect
<1>2. CASE call = "remove" /\ i \in 1 .. Len(vecEvents)
  BY <1>2, ErasedDistinct DEF Effect
<1>3. CASE call = "clear"
  BY <1>3 DEF Effect, Distinct
<1>4. CASE ~(call = "add" /\ i = 0) /\ ~(call = "remove" /\ i \in 1 .. Len(vecEvents)) /\ call # "clear"
  BY <1>4 DEF Effect
<1> QED
  BY <1>1, <1>2, <1>3, <1>4

-------------------------------------------------------------------------------
(* Who is at the vector *)

VectorOps == [call : {"add", "remove"}, event : Events]

\* A call is about an event if it adds or removes one.
CallsTyped ==
    /\ load \in Loads
    /\ op \in [Threads -> Ops \cup {NoOp}]
    /\ at = [x \in Threads |-> at[x]]
    /\ lpc = "sink" => op["loop"] \in VectorOps
    /\ stale \in [Events -> Nat] /\ snapshot \in Seq(Events)

VecInv ==
    /\ vecEvents \in Seq(Events) /\ races \in Nat
    /\ races = 0 => Distinct(vecEvents)

\* As long as no sink has met another thread, one thread at most is between its search and
\* what follows from it, and what it did not find is not there.
Alone ==
    races = 0 =>
        /\ \A x, y \in Threads : AtVector(x) /\ AtVector(y) => x = y
        /\ \A x \in Threads :
              AtVector(x) /\ op[x].call = "add" /\ at[x] = 0 => ~InVec(op[x].event, vecEvents)

\* An event that the loop has copied and that was removed since then was not served since.
CopyInv ==
    /\ \A e \in Events : stale[e] <= 1
    /\ lpc = "wait" => \A e \in Events :
          InVec(e, snapshot) /\ ~InVec(e, vecEvents) => stale[e] = 0

EventInv == MutexInv /\ CallsTyped /\ VecInv /\ Alone /\ CopyInv

LEMMA EventInit == Init => EventInv
<1> SUFFICES ASSUME Init PROVE EventInv
  OBVIOUS
<1>1. CallsTyped /\ VecInv /\ CopyInv
  BY DEF Init, CallsTyped, VecInv, Distinct, CopyInv
<1>2. \A x \in Threads : ~AtVector(x)
  BY DEF Init, AtVector, NoOp
<1> QED
  BY <1>1, <1>2, MutexInit DEF EventInv, Alone

\* The vector that a call leaves behind, and the sinks that were called since, whoever
\* makes the call.
LEMMA SetEventsStep ==
  ASSUME EventInv, NEW call, NEW e, NEW i, call = "add" => e \in Events,
         SetEvents(Effect(call, e, i)), races' = races,
         races = 0 /\ call = "add" /\ i = 0 => ~InVec(e, vecEvents),
         UNCHANGED snapshot \/ lpc' # "wait", lpc' = "wait" => lpc = "wait"
  PROVE  VecInv' /\ CopyInv' /\ stale' \in [Events -> Nat]
<1>1. VecInv'
  <2>1. vecEvents' = Effect(call, e, i) /\ vecEvents \in Seq(Events) /\ races \in Nat
    BY DEF SetEvents, EventInv, VecInv
  <2>2. vecEvents' \in Seq(Events) /\ (races = 0 => Distinct(vecEvents'))
    BY <2>1, EffectDistinct DEF EventInv, VecInv
  <2> QED
    BY <2>1, <2>2 DEF VecInv, Distinct
<1>2. stale' = [d \in Events |-> IF InVec(d, vecEvents)' = InVec(d, vecEvents)
                                 THEN stale[d] ELSE 0]
  BY DEF SetEvents, InVec
<1>3. CopyInv' /\ stale' \in [Events -> Nat]
  BY <1>2 DEF EventInv, CallsTyped, CopyInv
<1> QED
  BY <1>1, <1>3

\* Steps that leave the vector alone, and do not bring a thread to it.
LEMMA AwayStep ==
  ASSUME EventInv, UNCHANGED <<load, vecEvents, stale, races>>,
         op' \in [Threads -> Ops \cup {NoOp}], at' = [x \in Threads |-> at'[x]],
         \A x \in Threads : AtVector(x)' => AtVector(x) /\ op'[x] = op[x] /\ at'[x] = at[x],
         lpc' = "sink" => lpc = "sink" /\ op'["loop"] = op["loop"],
         lpc' # "wait" \/ (UNCHANGED <<lpc, snapshot>>), snapshot' \in Seq(Events)
  PROVE  CallsTyped' /\ VecInv' /\ Alone' /\ CopyInv'
<1>1. CallsTyped'
  BY DEF EventInv, CallsTyped
<1>2. VecInv' /\ CopyInv'
  BY DEF EventInv, VecInv, CopyInv, Distinct, InVec
<1>3. Alone'
  BY DEF EventInv, Alone, InVec
<1> QED
  BY <1>1, <1>2, <1>3

LEMMA AddsEvent ==
  ASSUME CallsTyped, NEW x \in Threads, op[x].call = "add"
  PROVE  op[x].event \in Events
  BY DEF CallsTyped, Ops, NoOp

\* A call that is over leaves nobody at the vector, if no sink has met another thread.
LEMMA LeaveStep ==
  ASSUME EventInv, NEW x \in Threads, AtVector(x), load' = load, races' = races,
         op' = [op EXCEPT ![x] = NoOp], at' = [at EXCEPT ![x] = 0],
         \A y \in Threads : AtVector(y)' => AtVector(y) /\ y # x,
         SetEvents(Effect(op[x].call, op[x].event, at[x])),
         lpc' = "sink" => lpc = "sink" /\ x # "loop",
         lpc' # "wait" \/ (UNCHANGED <<lpc, snapshot>>), snapshot' \in Seq(Events)
  PROVE  CallsTyped' /\ VecInv' /\ Alone' /\ CopyInv'
<1>1. op[x].call = "add" => op[x].event \in Events
  BY AddsEvent DEF EventInv
<1>2. races = 0 /\ op[x].call = "add" /\ at[x] = 0 => ~InVec(op[x].event, vecEvents)
  BY DEF EventInv, Alone
<1>3. VecInv' /\ CopyInv' /\ stale' \in [Events -> Nat]
  BY <1>1, <1>2, SetEventsStep
<1>4. CallsTyped'
  <2>1. op' \in [Threads -> Ops \cup {NoOp}] /\ at' = [y \in Threads |-> at'[y]]
    BY DEF EventInv, CallsTyped
  <2>2. lpc' = "sink" => op'["loop"] \in VectorOps
    BY DEF EventInv, CallsTyped
  <2> QED
    BY <1>3, <2>1, <2>2 DEF EventInv, CallsTyped
<1>5. races = 0 => \A y \in Threads : ~AtVector(y)'
  BY DEF EventInv, Alone
<1> QED
  BY <1>3, <1>4, <1>5 DEF Alone

\* A thread that comes to the vector under the mutex meets no other, but for a sink.
LEMMA LockStep ==
  ASSUME EventInv, NEW c \in Callers, Lock(c), load' = load
  PROVE  CallsTyped' /\ VecInv' /\ Alone' /\ CopyInv'
<1> DEFINE i == IF op[c].call \in {"add", "remove"} THEN IndexOf(op[c].event, vecEvents) ELSE 0
<1>0. /\ c \in Threads /\ c # "loop" /\ cpc[c] = "lock" /\ owner = "free"
      /\ at' = [at EXCEPT ![c] = i] /\ cpc' = [cpc EXCEPT ![c] = "in"]
      /\ UNCHANGED <<vecEvents, stale, op, lpc, snapshot>>
  BY LogicAssumption DEF Lock, Threads, vecVars, loopVars
<1> HIDE DEF i
<1>1. at' = [x \in Threads |-> at'[x]] /\ at'[c] = i /\ \A x \in Threads \ {c} : at'[x] = at[x]
  BY <1>0 DEF EventInv, CallsTyped
<1>2. CallsTyped' /\ CopyInv'
  BY <1>0, <1>1 DEF EventInv, CallsTyped, CopyInv
<1>3. races' = races \/ races' = races + 1
  BY DEF Lock, Race
<1>4. VecInv'
  BY <1>0, <1>3 DEF EventInv, VecInv, Distinct
<1>5. \A x \in Threads \ {c} : AtVector(x)' = AtVector(x)
  BY <1>0 DEF AtVector, Threads, EventInv, MutexInv, MutexOwned
<1>6. \A x \in Callers : ~AtVector(x)
  BY <1>0, LogicAssumption DEF AtVector, EventInv, MutexInv, MutexOwned
<1>7. races' = 0 => races = 0 /\ (AtVector(c)' => ~AtVector("loop"))
  <2>1. op[c].call = "post" => ~AtVector(c)'
    BY <1>0 DEF AtVector
  <2>2. op[c].call # "post" => races' = IF AtVector("loop") THEN races + 1 ELSE races
    BY DEF Lock, Race
  <2> QED
    BY <1>3, <2>1, <2>2 DEF EventInv, VecInv
<1>8. races' = 0 /\ op[c].call = "add" /\ i = 0 => ~InVec(op[c].event, vecEvents)
  <2>1. op[c].call = "add" => op[c].event \in Events
    BY <1>0, AddsEvent DEF EventInv
  <2> QED
    BY <1>7, <2>1, IndexOfNone DEF i, EventInv, VecInv
<1>9. Alone'
  <2> SUFFICES ASSUME races' = 0
               PROVE  /\ \A x, y \in Threads : AtVector(x)' /\ AtVector(y)' => x = y
                      /\ \A x \in Threads :
                            AtVector(x)' /\ op'[x].call = "add" /\ at'[x] = 0
                              => ~InVec(op'[x].event, vecEvents')
    BY DEF Alone, InVec
  <2>1. \A x \in Threads : x = c \/ x = "loop" \/ ~AtVector(x)'
    BY <1>5, <1>6 DEF Threads
  <2> QED
    BY <1>0, <1>1, <1>5, <1>7, <1>8, <2>1 DEF EventInv, Alone, Threads
<1> QED
  BY <1>2, <1>4, <1>9

\* A sink comes to the vector without it.
LEMMA SinkScanStep ==
  ASSUME EventInv, SinkScan, load' = load
  PROVE  CallsTyped' /\ VecInv' /\ Alone' /\ CopyInv'
<1>0. PICK call \in OnEventCalls \ {"none"}, e \in load.events :
         /\ op' = [op EXCEPT !["loop"] = [call |-> call, event |-> e]]
         /\ at' = [at EXCEPT !["loop"] = IndexOf(e, vecEvents)]
  BY DEF SinkScan
<1>1. e \in Events /\ call \in {"add", "remove"} /\ "loop" \in Threads
  BY LogicAssumption DEF EventInv, CallsTyped, Calls, Threads
<1>2. [call |-> call, event |-> e] \in VectorOps /\ VectorOps \subseteq Ops
  BY <1>1 DEF VectorOps, Ops
<1>3. /\ lpc = "event" /\ lpc' = "sink" /\ UNCHANGED <<vecEvents, stale, cpc, snapshot>>
      /\ races' = IF \E y \in Callers : AtVector(y) THEN races + 1 ELSE races
  BY DEF SinkScan, Race, vecVars
<1>4. CallsTyped' /\ CopyInv'
  BY <1>0, <1>1, <1>2, <1>3 DEF EventInv, CallsTyped, CopyInv
<1>5. VecInv'
  BY <1>3 DEF EventInv, VecInv, Distinct
<1>6. \A x \in Callers : AtVector(x)' = AtVector(x)
  BY <1>0, <1>3, LogicAssumption DEF AtVector, EventInv, CallsTyped, Threads
<1>7. races' = 0 => races = 0 /\ \A x \in Callers : ~AtVector(x)'
  BY <1>3, <1>6 DEF EventInv, VecInv
<1>8. races' = 0 /\ at'["loop"] = 0 => ~InVec(op'["loop"].event, vecEvents')
  <2>1. at'["loop"] = IndexOf(e, vecEvents) /\ op'["loop"].event = e
    BY <1>0, <1>1 DEF EventInv, CallsTyped
  <2> QED
    BY <1>1, <1>3, <1>7, <2>1, IndexOfNone DEF EventInv, VecInv
<1>9. Alone'
  BY <1>7, <1>8 DEF Alone, Threads, InVec
<1> QED
  BY <1>4, <1>5, <1>9

LEMMA EventStep == EventInv /\ [Next]_<<load, vars>> => EventInv'
<1> SUFFICES ASSUME EventInv, [Next]_<<load, vars>>
             PROVE  CallsTyped' /\ VecInv' /\ Alone' /\ CopyInv'
  BY MutexStep DEF EventInv
<1>0. /\ load' = load /\ snapshot \in Seq(Events) /\ <<>> \in Seq(Events)
      /\ op \in [Threads -> Ops \cup {NoOp}] /\ at = [x \in Threads |-> at[x]]
      /\ Callers \subseteq Threads /\ "loop" \in Threads /\ "loop" \notin Callers
      /\ cpc \in [Callers -> Pcs]
  BY LogicAssumption
  DEF Next, EventInv, CallsTyped, Threads, MutexInv, MutexOwned
<1>1. ASSUME NEW c \in Callers, AddEvent(c) \/ RemoveEvent(c) \/ Release(c)
      PROVE  CallsTyped' /\ VecInv' /\ Alone' /\ CopyInv'
  <2>1. /\ cpc[c] = "in" /\ op[c].call \in {"add", "remove", "clear"}
        /\ op' = [op EXCEPT ![c] = NoOp] /\ at' = [at EXCEPT ![c] = 0]
        /\ cpc' = [cpc EXCEPT ![c] = IF Release(c) THEN "stop" ELSE "idle"]
        /\ UNCHANGED <<lpc, snapshot, races>>
    BY <1>1 DEF AddEvent, RemoveEvent, Release, Leave, loopVars
  <2>2. SetEvents(Effect(op[c].call, op[c].event, at[c]))
    BY <1>1 DEF AddEvent, RemoveEvent, Release, Leave, Effect
  <2>3. AtVector(c) /\ \A y \in Threads : AtVector(y)' => AtVector(y) /\ y # c
    BY <1>0, <2>1 DEF AtVector, NoOp, Threads
  <2>4. lpc' = "sink" => lpc = "sink" /\ c # "loop"
    BY <1>0, <2>1
  <2> QED
    BY <1>0, <2>1, <2>2, <2>3, <2>4, LeaveStep
<1>2. CASE SinkAct
  <2>1. /\ lpc = "sink" /\ lpc' = "top" /\ snapshot' = <<>> /\ UNCHANGED <<cpc, races>>
        /\ op' = [op EXCEPT !["loop"] = NoOp] /\ at' = [at EXCEPT !["loop"] = 0]
        /\ SetEvents(Effect(op["loop"].call, op["loop"].event, at["loop"]))
    BY <1>2 DEF SinkAct
  <2>2. AtVector("loop") /\ \A y \in Threads : AtVector(y)' => AtVector(y) /\ y # "loop"
    BY <1>0, <2>1 DEF AtVector, Threads, EventInv, CallsTyped, VectorOps
  <2> QED
    BY <1>0, <2>1, <2>2, LeaveStep
<1>3. CASE RunFunc
  <2>1. PICK call \in FuncCalls, e \in Events :
           SetEvents(Effect(call, e, IndexOf(e, vecEvents)))
    BY <1>3 DEF RunFunc
  <2>2. /\ lpc = "funcs" /\ owner = "loop" /\ UNCHANGED <<op, at, cpc, lpc, snapshot, races>>
    BY <1>3 DEF RunFunc, loopVars, callVars, EventInv, MutexInv, MutexOwned
  <2>3. \A x \in Threads : ~AtVector(x)'
    BY <1>0, <2>2 DEF AtVector, Threads, EventInv, MutexInv, MutexOwned
  <2>4. races = 0 /\ IndexOf(e, vecEvents) = 0 => ~InVec(e, vecEvents)
    BY IndexOfNone DEF EventInv, VecInv
  <2>5. VecInv' /\ CopyInv' /\ stale' \in [Events -> Nat]
    BY <2>1, <2>2, <2>4, SetEventsStep
  <2>6. CallsTyped'
    BY <1>0, <2>2, <2>5 DEF CallsTyped, EventInv
  <2> QED
    BY <2>3, <2>5, <2>6 DEF Alone
<1>4. ASSUME NEW c \in Callers, Lock(c) PROVE CallsTyped' /\ VecInv' /\ Alone' /\ CopyInv'
  BY <1>0, <1>4, LockStep
<1>5. CASE SinkScan
  BY <1>0, <1>5, SinkScanStep
\* The other steps leave the vector alone, and do not bring a thread to it.
<1>6. ASSUME NEW c \in Callers, Call(c) \/ RunInLoop(c) \/ ReleaseStop(c) \/ ReleaseJoined(c)
      PROVE  CallsTyped' /\ VecInv' /\ Alone' /\ CopyInv'
  <2>1. UNCHANGED <<vecEvents, stale, races, lpc, snapshot>>
    BY <1>6 DEF Call, RunInLoop, Leave, ReleaseStop, ReleaseJoined, vecVars, loopVars
  <2>2. /\ op' \in [Threads -> Ops \cup {NoOp}] /\ at' = [x \in Threads |-> at'[x]]
        /\ op'["loop"] = op["loop"] /\ at'["loop"] = at["loop"]
        /\ \A x \in Callers \ {c} : op'[x] = op[x] /\ at'[x] = at[x] /\ cpc'[x] = cpc[x]
        /\ cpc'[c] # "in"
    BY <1>0, <1>6 DEF Call, RunInLoop, Leave, ReleaseStop, ReleaseJoined
  <2>3. \A x \in Threads : AtVector(x)' => AtVector(x) /\ op'[x] = op[x] /\ at'[x] = at[x]
    BY <1>0, <2>1, <2>2 DEF AtVector, Threads
  <2> QED
    BY <1>0, <2>1, <2>2, <2>3, AwayStep
<1>7. CASE CopyEvents
  <2>1. UNCHANGED <<vecEvents, stale, races, op, at, cpc>> /\ snapshot' = vecEvents
    BY <1>7 DEF CopyEvents, vecVars, callVars
  <2>2. lpc = "snap" /\ lpc' = "wait"
    BY <1>7 DEF CopyEvents
  <2>3. \A x \in Threads : AtVector(x)' = AtVector(x)
    BY <1>0, <2>1, <2>2 DEF AtVector
  <2>4. CallsTyped' /\ VecInv' /\ CopyInv'
    BY <1>0, <2>1, <2>2 DEF EventInv, CallsTyped, VecInv, Distinct, CopyInv, InVec
  <2> QED
    BY <2>1, <2>3, <2>4 DEF EventInv, Alone, InVec
<1>8. CASE WaitEvent
  <2>1. PICK i \in 1 .. Len(snapshot) :
           stale' = IF InVec(snapshot[i], vecEvents) THEN stale
                    ELSE [stale EXCEPT ![snapshot[i]] = @ + 1]
    BY <1>8 DEF WaitEvent
  <2>2. snapshot[i] \in Events /\ InVec(snapshot[i], snapshot) /\ lpc = "wait"
    BY <1>8, <1>0 DEF WaitEvent, InVec
  <2>3. UNCHANGED <<vecEvents, op, at, cpc, races, snapshot>> /\ lpc' = "event"
    BY <1>8 DEF WaitEvent, callVars
  <2>4. \A x \in Threads : AtVector(x)' = AtVector(x)
    BY <1>0, <2>2, <2>3 DEF AtVector
  <2>5. CallsTyped' /\ VecInv' /\ CopyInv'
    BY <1>0, <2>1, <2>2, <2>3 DEF EventInv, CallsTyped, VecInv, Distinct, CopyInv
  <2> QED
    BY <2>3, <2>4, <2>5 DEF EventInv, Alone, InVec
<1>9. CASE \/ LoopEnds \/ LockFuncs \/ ClearFuncs \/ WaitNothing \/ OnEvent
           \/ UNCHANGED vars \/ \E e \in Events : SetEvent(e)
  <2>1. UNCHANGED <<vecEvents, stale, races, op, at, cpc>>
    BY <1>9
    DEF LoopEnds, LockFuncs, ClearFuncs, WaitNothing, OnEvent, SetEvent, vars, vecVars, callVars
  <2>2. snapshot' = snapshot \/ snapshot' = <<>>
    BY <1>9
    DEF LoopEnds, LockFuncs, ClearFuncs, WaitNothing, OnEvent, SetEvent, vars, loopVars
  <2>3. (lpc' \notin {"sink", "wait"}) \/ UNCHANGED <<lpc, snapshot>>
    BY <1>9
    DEF LoopEnds, LockFuncs, ClearFuncs, WaitNothing, OnEvent, SetEvent, vars, loopVars
  <2>4. \A x \in Threads : AtVector(x)' => AtVector(x)
    BY <2>1, <2>3 DEF AtVector
  <2> QED
    BY <1>0, <2>1, <2>2, <2>3, <2>4, AwayStep
<1> QED
  BY <1>1, <1>2, <1>3, <1>4, <1>5, <1>6, <1>7, <1>8, <1>9 DEF Next, CallStep, LoopStep

\* No event is in the vector twice, however many threads and functions add and remove
\* events, as long as no sink does so while another thread is at the vector.
THEOREM NoEventTwiceHolds == Spec => []NoEventTwice
<1>1. EventInv => NoEventTwice
  BY DEF EventInv, VecInv, Distinct, NoEventTwice
<1> QED
  BY <1>1, EventInit, EventStep, PTL DEF Spec

\* Once an event has left the vector its sink is called at most once more, from the copy
\* that the loop has made before, whatever the sinks do to the vector.
THEOREM StaleOnceHolds == Spec => []StaleOnce
<1>1. EventInv => StaleOnce
  BY DEF EventInv, CopyInv, StaleOnce
<1> QED
  BY <1>1, EventInit, EventStep, PTL DEF Spec
===============================================================================
