--------------------------- MODULE ThreadQueueProofs ---------------------------
(***************************************************************************)
(* Theorems of ThreadQueue, for any number of workers and work objects.    *)
(***************************************************************************)
EXTENDS ThreadQueue, TLAPS

LEMMA TypeInit == Init => TypeOK
<1> SUFFICES ASSUME Init PROVE TypeOK
  OBVIOUS
<1>1. running \in BOOLEAN /\ abort \in BOOLEAN /\ stop \in BOOLEAN
  BY Zenon DEF Init
<1>2. creates \in 0 .. MaxCreates /\ sem \in 0 .. SemMax
  BY ThreadQueueAssumption DEF Init
<1>3. /\ cur \in [Workers -> Tasks \cup {NoTask}]
      /\ wpc \in [Workers -> {"loop", "wait", "get", "task", "off"}]
      /\ \A w \in Workers : wpc[w] = "task" <=> cur[w] # NoTask
  BY DEF Init
<1>4. queue \in Seq(Tasks) /\ upc = "off" /\ opc = "released" /\ inserted = {} /\ done = {}
  BY DEF Init
<1> QED
  BY <1>1, <1>2, <1>3, <1>4 DEF TypeOK

\* Create finds no worker left, and so no object in the hands of one.
LEMMA TypeStep == TypeOK /\ HandlesOutlive /\ [Next]_vars => TypeOK'
<1> SUFFICES ASSUME TypeOK, HandlesOutlive, [Next]_vars PROVE TypeOK'
  OBVIOUS
<1> USE ThreadQueueAssumption DEF TypeOK, taskVars
<1>1. ASSUME NEW started \in SUBSET Workers, Create(started) PROVE TypeOK'
  <2>1. running' \in BOOLEAN /\ abort' \in BOOLEAN /\ stop' \in BOOLEAN
    BY <1>1, Zenon DEF Create
  <2>2. creates' \in 0 .. MaxCreates /\ sem' \in 0 .. SemMax
    BY <1>1 DEF Create
  <2>3. /\ cur' = cur /\ \A w \in Workers : cur[w] = NoTask
        /\ wpc' \in [Workers -> {"loop", "wait", "get", "task", "off"}]
        /\ \A w \in Workers : wpc'[w] # "task"
    BY <1>1 DEF Create, HandlesOutlive, NoThreadLeft
  <2>4. /\ upc' = "loop" /\ opc' \in {"created", "failed"}
        /\ UNCHANGED <<queue, inserted, done>>
    BY <1>1 DEF Create
  <2> QED
    BY <2>1, <2>2, <2>3, <2>4
<1>2. ASSUME NEW t \in Tasks, Insert(t) PROVE TypeOK'
  BY <1>2 DEF Insert
<1>3. CASE Release
  BY <1>3 DEF Release
<1>4. CASE OwnerJoins
  BY <1>4 DEF OwnerJoins, Undo, Drained, UpdateJoined, SetAbort, WorkersJoined
<1>5. CASE UpdateStep
  BY <1>5 DEF UpdateStep, UpdateLoop, Signal
<1>6. ASSUME NEW w \in Workers, WorkerStep(w) PROVE TypeOK'
  <2>1. CASE WorkerLoop(w) \/ WakeForWork(w) \/ WakeForAbort(w) \/ GetNothing(w)
    BY <2>1 DEF WorkerLoop, WakeForWork, WakeForAbort, GetNothing
  <2>2. CASE GetNextWorkObj(w)
    <3>1. Head(queue) \in Tasks /\ Tail(queue) \in Seq(Tasks)
      BY <2>2 DEF GetNextWorkObj
    <3> QED
      BY <2>2, <3>1 DEF GetNextWorkObj
  <2>3. CASE TaskDone(w)
    BY <2>3 DEF TaskDone
  <2> QED
    BY <1>6, <2>1, <2>2, <2>3 DEF WorkerStep
<1>7. CASE UNCHANGED vars
  BY <1>7 DEF vars
<1> QED
  BY <1>1, <1>2, <1>3, <1>4, <1>5, <1>6, <1>7 DEF Next

-------------------------------------------------------------------------------
LEMMA JoinInit == Init => JoinedInOrder /\ HandlesOutlive
  BY DEF Init, JoinedInOrder, HandlesOutlive, NoThreadLeft

LEMMA JoinStep ==
  TypeOK /\ JoinedInOrder /\ HandlesOutlive /\ [Next]_vars
    => JoinedInOrder' /\ HandlesOutlive'
<1> SUFFICES ASSUME TypeOK, JoinedInOrder, HandlesOutlive, [Next]_vars
             PROVE  JoinedInOrder' /\ HandlesOutlive'
  OBVIOUS
<1> USE DEF JoinedInOrder, HandlesOutlive, NoThreadLeft
<1>1. ASSUME NEW started \in SUBSET Workers, Create(started)
      PROVE  JoinedInOrder' /\ HandlesOutlive'
  BY <1>1 DEF Create
<1>2. CASE Release \/ \E t \in Tasks : Insert(t)
  BY <1>2 DEF Insert, Release
<1>3. CASE OwnerJoins
  BY <1>3 DEF OwnerJoins, Undo, Drained, UpdateJoined, SetAbort, WorkersJoined
<1>4. CASE UpdateStep
  BY <1>4 DEF UpdateStep, UpdateLoop, Signal
<1>5. ASSUME NEW w \in Workers, WorkerStep(w)
      PROVE  JoinedInOrder' /\ HandlesOutlive'
  <2>1. wpc[w] # "off"
    BY <1>5
    DEF WorkerStep, WorkerLoop, WakeForWork, WakeForAbort, GetNextWorkObj, GetNothing,
        TaskDone
  <2>2. opc # "released"
    BY <2>1
  <2>3. opc' = opc /\ upc' = upc
    BY <1>5
    DEF WorkerStep, WorkerLoop, WakeForWork, WakeForAbort, GetNextWorkObj, GetNothing,
        TaskDone
  <2> QED
    BY <2>2, <2>3
<1>6. CASE UNCHANGED vars
  BY <1>6 DEF vars
<1> QED
  BY <1>1, <1>2, <1>3, <1>4, <1>5, <1>6 DEF Next

Inv == TypeOK /\ JoinedInOrder /\ HandlesOutlive

LEMMA Invariant == Spec => []Inv
<1>1. Init => Inv
  BY TypeInit, JoinInit DEF Inv
<1>2. Inv /\ [Next]_vars => Inv'
  BY TypeStep, JoinStep DEF Inv
<1> QED
  BY <1>1, <1>2, PTL DEF Spec

\* The pool keeps its types: a worker that runs DoTask runs it on an object.
THEOREM TypeCorrect == Spec => []TypeOK
<1>1. Inv => TypeOK
  BY DEF Inv
<1> QED
  BY <1>1, Invariant, PTL

\* Release closes the handles of the pool only after the last of its threads has ended.
THEOREM HandlesOutliveThreads == Spec => []HandlesOutlive
<1>1. Inv => HandlesOutlive
  BY DEF Inv
<1> QED
  BY <1>1, Invariant, PTL

-------------------------------------------------------------------------------
\* A step that leaves the queue, the workers' objects and the history alone.
LEMMA AccountedFrame ==
  Accounted /\ UNCHANGED <<queue, cur, inserted, done>> => Accounted'
  BY DEF Accounted, Waiting, Held

LEMMA AccountedStep == TypeOK /\ Accounted /\ [Next]_vars => Accounted'
<1> SUFFICES ASSUME TypeOK, Accounted, [Next]_vars PROVE Accounted'
  OBVIOUS
<1> USE ThreadQueueAssumption
<1>1. ASSUME NEW t \in Tasks, Insert(t) PROVE Accounted'
  <2>1. /\ queue \in Seq(Tasks) /\ queue' = Append(queue, t)
        /\ inserted' = inserted \cup {t} /\ t \notin inserted
        /\ cur' = cur /\ done' = done
    BY <1>1 DEF Insert, TypeOK
  <2>2. Waiting' = Waiting \cup {t}
    BY <2>1 DEF Waiting
  <2>3. Held' = Held /\ t \notin Waiting /\ t \notin Held /\ t \notin done
    BY <2>1 DEF Held, Accounted
  <2>4. \A i, j \in DOMAIN queue' : queue'[i] = queue'[j] => i = j
    BY <2>1, <2>3 DEF Accounted, Waiting
  <2> QED
    BY <2>1, <2>2, <2>3, <2>4 DEF Accounted
<1>2. ASSUME NEW w \in Workers, GetNextWorkObj(w) PROVE Accounted'
  <2> DEFINE t == Head(queue)
  <2>1. /\ queue \in Seq(Tasks) /\ queue # <<>> /\ queue' = Tail(queue)
        /\ cur \in [Workers -> Tasks \cup {NoTask}] /\ cur[w] = NoTask
        /\ cur' = [cur EXCEPT ![w] = t]
        /\ inserted' = inserted /\ done' = done
    BY <1>2 DEF GetNextWorkObj, TypeOK, taskVars
  <2>2. t \in Tasks /\ t = queue[1] /\ t # NoTask
    BY <2>1
  <2>3. /\ DOMAIN queue' = 1 .. Len(queue) - 1
        /\ \A i \in DOMAIN queue' : queue'[i] = queue[i + 1] /\ i + 1 \in DOMAIN queue
    BY <2>1
  <2>4. \A i, j \in DOMAIN queue' : queue'[i] = queue'[j] => i = j
    BY <2>1, <2>3 DEF Accounted
  <2>5. Waiting' = Waiting \ {t} /\ t \in Waiting
    <3>1. \A i \in DOMAIN queue : i = 1 \/ (i - 1 \in DOMAIN queue' /\ queue[i] = queue'[i - 1])
      BY <2>1, <2>3
    <3>2. \A i \in DOMAIN queue' : queue'[i] # t
      BY <2>1, <2>2, <2>3 DEF Accounted
    <3>3. 1 \in DOMAIN queue
      BY <2>1
    <3> QED
      BY <2>2, <2>3, <3>1, <3>2, <3>3 DEF Waiting
  <2>6. Held' = Held \cup {t} /\ t \notin Held
    BY <2>1, <2>2, <2>5 DEF Held, Accounted
  <2>7. \A u, v \in Workers : cur'[u] = cur'[v] /\ cur'[u] # NoTask => u = v
    BY <2>1, <2>2, <2>6 DEF Held, Accounted
  <2> HIDE DEF t
  <2> QED
    BY <2>1, <2>4, <2>5, <2>6, <2>7 DEF Accounted
<1>3. ASSUME NEW w \in Workers, TaskDone(w) PROVE Accounted'
  <2>1. /\ cur \in [Workers -> Tasks \cup {NoTask}] /\ cur[w] # NoTask
        /\ cur' = [cur EXCEPT ![w] = NoTask]
        /\ done' = done \cup {cur[w]} /\ inserted' = inserted /\ queue' = queue
    BY <1>3 DEF TaskDone, TypeOK
  <2>2. Held' = Held \ {cur[w]} /\ cur[w] \in Held
    BY <2>1 DEF Held, Accounted
  <2>3. Waiting' = Waiting
    BY <2>1 DEF Waiting
  <2>4. \A u, v \in Workers : cur'[u] = cur'[v] /\ cur'[u] # NoTask => u = v
    BY <2>1 DEF Accounted
  <2> QED
    BY <2>1, <2>2, <2>3, <2>4 DEF Accounted
<1>4. ASSUME NEW w \in Workers, WorkerStep(w), ~GetNextWorkObj(w), ~TaskDone(w)
      PROVE  Accounted'
  BY <1>4, AccountedFrame
  DEF WorkerStep, WorkerLoop, WakeForWork, WakeForAbort, GetNothing, taskVars
<1>5. ASSUME NEW started \in SUBSET Workers, Create(started) PROVE Accounted'
  BY <1>5, AccountedFrame DEF Create, taskVars
<1>6. CASE Release \/ OwnerJoins \/ UpdateStep \/ UNCHANGED vars
  BY <1>6, AccountedFrame
  DEF Release, OwnerJoins, Undo, Drained, UpdateJoined, SetAbort, WorkersJoined, UpdateStep,
      UpdateLoop, Signal, vars, taskVars
<1> QED
  BY <1>1, <1>2, <1>3, <1>4, <1>5, <1>6 DEF Next

\* Every object that InsertThreadWorkObj accepts is in the queue once, or held by one
\* worker, or done: none is run twice and none is lost.
THEOREM WorkAccounted == Spec => []Accounted
<1>1. Init => Accounted
  BY DEF Init, Accounted, Waiting, Held
<1>2. Inv /\ Accounted /\ [Next]_vars => Accounted'
  BY AccountedStep DEF Inv
<1> QED
  BY <1>1, <1>2, Invariant, PTL DEF Spec
===============================================================================
