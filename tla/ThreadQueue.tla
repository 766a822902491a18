------------------------------ MODULE ThreadQueue ------------------------------
(***************************************************************************)
(* CThreadQueue, the thread pool under CServerSocket and CClientSocket,    *)
(* with the CThread it starts and joins.                                   *)
(*                                                                         *)
(* Its owner, one thread, creates the pool, inserts work objects and       *)
(* releases it.  The update thread spins, and as long as it finds the      *)
(* queue not empty it adds one to a semaphore.  Workers wait for the       *)
(* semaphore or for the abort event, and take one object for each count of *)
(* the semaphore, if one is left.  Release clears _running, waits for the  *)
(* queue to be empty, and then joins the update thread and the workers.    *)
(***************************************************************************)
EXTENDS Naturals, Sequences

CONSTANTS Workers,      \* the threads of the pool, THREAD_POOL_MAX_NUM at most
          Tasks,        \* work objects
          NoTask,       \* NULL
          Looping,      \* those whose DoTask runs until their owner stops
          SemMax,       \* the maximum of the semaphore, LONG_MAX in the code
          MaxCreates,   \* bound: calls of Create
          Patient       \* TRUE: the owner calls Release only with an empty queue

ASSUME ThreadQueueAssumption ==
    /\ NoTask \notin Tasks
    /\ Looping \subseteq Tasks
    /\ SemMax \in Nat \ {0}
    /\ MaxCreates \in Nat \ {0}
    /\ Patient \in BOOLEAN

VARIABLES
    running,    \* _running
    queue,      \* _threadWorkObjQueue
    sem,        \* count of the semaphore
    abort,      \* the abort event, a manual-reset one
    upc,        \* update thread: where it is in threadUpdateWorkFun
    wpc,        \* worker: where it is in threadWorkFun
    cur,        \* worker: pWorkObj
    opc,        \* owner: where it is in Create and Release
    stop,       \* the owner has told its looping objects to end
    creates,    \* calls of Create so far
    inserted,   \* history: objects accepted by InsertThreadWorkObj
    done        \* history: objects whose DoTask has returned

vars == <<running, queue, sem, abort, upc, wpc, cur, opc, stop, creates, inserted,
          done>>

taskVars == <<inserted, done>>

Init ==
    /\ running = FALSE
    /\ queue = <<>> /\ sem = 0 /\ abort = FALSE
    /\ upc = "off"
    /\ wpc = [w \in Workers |-> "off"] /\ cur = [w \in Workers |-> NoTask]
    /\ opc = "released" /\ stop = FALSE /\ creates = 0
    /\ inserted = {} /\ done = {}

-------------------------------------------------------------------------------
(* The owner *)

\* Create.  A worker may fail to start.
Create(started) ==
    /\ opc = "released" /\ creates < MaxCreates
    /\ creates' = creates + 1
    /\ running' = TRUE
    /\ sem' = 0 /\ abort' = FALSE
    /\ stop' = FALSE
    /\ upc' = "loop"
    /\ wpc' = [w \in Workers |-> IF w \in started THEN "loop" ELSE "off"]
    /\ opc' = IF started = Workers THEN "created" ELSE "failed"
    /\ UNCHANGED <<queue, cur, taskVars>>

\* Then Create releases the threads that were started.
Undo ==
    /\ opc = "failed"
    /\ running' = FALSE
    /\ opc' = "drain"
    /\ UNCHANGED <<queue, sem, abort, upc, wpc, cur, stop, creates, taskVars>>

\* InsertThreadWorkObj, called by the thread that calls Release: _running stays as it was
\* read until the object is in the queue.
Insert(t) ==
    /\ opc = "created" /\ running
    /\ t \notin inserted
    /\ queue' = Append(queue, t)
    /\ inserted' = inserted \cup {t}
    /\ UNCHANGED <<running, sem, abort, upc, wpc, cur, opc, stop, creates, done>>

\* Release, called by an owner that has told its objects to end: _running goes down...
Release ==
    /\ opc = "created"
    /\ Patient => queue = <<>>
    /\ stop' = TRUE
    /\ running' = FALSE
    /\ opc' = "drain"
    /\ UNCHANGED <<queue, sem, abort, upc, wpc, cur, creates, taskVars>>

\* ... ExistAllThread waits for the queue to be empty...
Drained ==
    /\ opc = "drain" /\ queue = <<>>
    /\ opc' = "stop"
    /\ UNCHANGED <<running, queue, sem, abort, upc, wpc, cur, stop, creates, taskVars>>

\* Mutant: the exit of the update thread is not waited for.
MutUpdateJoined ==
    /\ opc = "stop"
    /\ opc' = "abort"
    /\ UNCHANGED <<running, queue, sem, abort, upc, wpc, cur, stop, creates, taskVars>>

\* ... joins the update thread...
UpdateJoined ==
    /\ opc = "stop" /\ upc = "off"
    /\ opc' = "abort"
    /\ UNCHANGED <<running, queue, sem, abort, upc, wpc, cur, stop, creates, taskVars>>

\* ... sets the abort event...
SetAbort ==
    /\ opc = "abort"
    /\ abort' = TRUE
    /\ opc' = "join"
    /\ UNCHANGED <<running, queue, sem, upc, wpc, cur, stop, creates, taskVars>>

\* ... and joins the workers.  Then the handles are closed.
WorkersJoined ==
    /\ opc = "join" /\ \A w \in Workers : wpc[w] = "off"
    /\ opc' = "released"
    /\ UNCHANGED <<running, queue, sem, abort, upc, wpc, cur, stop, creates, taskVars>>

-------------------------------------------------------------------------------
(* The update thread *)

\* Mutant: the last object of the queue is not counted.
MutNeedWork == Len(queue) > 1

\* needWorkNum > 0
NeedWork == Len(queue) > 0

UpdateLoop ==
    /\ upc = "loop"
    /\ upc' = IF ~running THEN "off" ELSE IF NeedWork THEN "signal" ELSE "loop"
    /\ UNCHANGED <<running, queue, sem, abort, wpc, cur, opc, stop, creates, taskVars>>

\* ReleaseSemaphore, which fails without effect at the maximum.
Signal ==
    /\ upc = "signal"
    /\ sem' = IF sem < SemMax THEN sem + 1 ELSE sem
    /\ upc' = "loop"
    /\ UNCHANGED <<running, queue, abort, wpc, cur, opc, stop, creates, taskVars>>

-------------------------------------------------------------------------------
(* The workers *)

WorkerLoop(w) ==
    /\ wpc[w] = "loop"
    /\ wpc' = [wpc EXCEPT ![w] = IF running THEN "wait" ELSE "off"]
    /\ UNCHANGED <<running, queue, sem, abort, upc, cur, opc, stop, creates, taskVars>>

\* WaitForMultipleObjects prefers the semaphore, which has the lower index.
WakeForWork(w) ==
    /\ wpc[w] = "wait" /\ sem > 0
    /\ sem' = sem - 1
    /\ wpc' = [wpc EXCEPT ![w] = "get"]
    /\ UNCHANGED <<running, queue, abort, upc, cur, opc, stop, creates, taskVars>>

\* Mutant: the abort event resets itself and wakes one worker only.
MutWakeForAbort(w) ==
    /\ wpc[w] = "wait" /\ sem = 0 /\ abort
    /\ abort' = FALSE
    /\ wpc' = [wpc EXCEPT ![w] = "off"]
    /\ UNCHANGED <<running, queue, sem, upc, cur, opc, stop, creates, taskVars>>

WakeForAbort(w) ==
    /\ wpc[w] = "wait" /\ sem = 0 /\ abort
    /\ wpc' = [wpc EXCEPT ![w] = "off"]
    /\ UNCHANGED <<running, queue, sem, abort, upc, cur, opc, stop, creates, taskVars>>

\* Mutant: front() and pop() are not one critical section, and the pop is lost.
MutGetNextWorkObj(w) ==
    /\ wpc[w] = "get" /\ queue # <<>>
    /\ cur' = [cur EXCEPT ![w] = Head(queue)]
    /\ wpc' = [wpc EXCEPT ![w] = "task"]
    /\ UNCHANGED <<running, queue, sem, abort, upc, opc, stop, creates, taskVars>>

\* GetNextWorkObj returns an object, and DoTask begins...
GetNextWorkObj(w) ==
    /\ wpc[w] = "get" /\ queue # <<>>
    /\ cur' = [cur EXCEPT ![w] = Head(queue)]
    /\ queue' = Tail(queue)
    /\ wpc' = [wpc EXCEPT ![w] = "task"]
    /\ UNCHANGED <<running, sem, abort, upc, opc, stop, creates, taskVars>>

\* Mutant: NULL is run like any object.
MutGetNothing(w) ==
    /\ wpc[w] = "get" /\ queue = <<>>
    /\ wpc' = [wpc EXCEPT ![w] = "task"]
    /\ UNCHANGED <<running, queue, sem, abort, upc, cur, opc, stop, creates, taskVars>>

\* ... or it returns NULL: the semaphore was counted up once too often.
GetNothing(w) ==
    /\ wpc[w] = "get" /\ queue = <<>>
    /\ wpc' = [wpc EXCEPT ![w] = "loop"]
    /\ UNCHANGED <<running, queue, sem, abort, upc, cur, opc, stop, creates, taskVars>>

\* DoTask returns.
TaskDone(w) ==
    /\ wpc[w] = "task"
    /\ cur[w] \in Looping => stop
    /\ done' = done \cup {cur[w]}
    /\ cur' = [cur EXCEPT ![w] = NoTask]
    /\ wpc' = [wpc EXCEPT ![w] = "loop"]
    /\ UNCHANGED <<running, queue, sem, abort, upc, opc, stop, creates, inserted>>

-------------------------------------------------------------------------------
OwnerJoins == Undo \/ Drained \/ UpdateJoined \/ SetAbort \/ WorkersJoined
UpdateStep == UpdateLoop \/ Signal
WorkerStep(w) == \/ WorkerLoop(w) \/ WakeForWork(w) \/ WakeForAbort(w)
                 \/ GetNextWorkObj(w) \/ GetNothing(w) \/ TaskDone(w)

Next ==
    \/ \E started \in SUBSET Workers : Create(started)
    \/ \E t \in Tasks : Insert(t)
    \/ Release \/ OwnerJoins \/ UpdateStep
    \/ \E w \in Workers : WorkerStep(w)

Spec == Init /\ [][Next]_vars

\* Windows schedules every thread: the pool's own steps are not put off for ever.
\* The owner need not insert or release anything.
Fairness == /\ WF_vars(OwnerJoins)
            /\ WF_vars(UpdateStep)
            /\ \A w \in Workers : WF_vars(WorkerStep(w))

FairSpec == Spec /\ Fairness

-------------------------------------------------------------------------------
(* Properties *)

\* Every variable keeps its type; a worker runs an object exactly while it holds one,
\* never NULL.
TypeOK ==
    /\ running \in BOOLEAN
    /\ queue \in Seq(Tasks)
    /\ sem \in 0 .. SemMax
    /\ abort \in BOOLEAN
    /\ upc \in {"loop", "signal", "off"}
    /\ wpc \in [Workers -> {"loop", "wait", "get", "task", "off"}]
    /\ cur \in [Workers -> Tasks \cup {NoTask}]
    /\ \A w \in Workers : wpc[w] = "task" <=> cur[w] # NoTask
    /\ opc \in {"released", "created", "failed", "drain", "stop", "abort", "join"}
    /\ stop \in BOOLEAN
    /\ creates \in 0 .. MaxCreates
    /\ inserted \subseteq Tasks /\ done \subseteq Tasks

Waiting == {queue[i] : i \in DOMAIN queue}
Held    == {cur[w] : w \in Workers} \ {NoTask}

\* No work object is run twice, and none is lost: each one inserted is either in the
\* queue, once, or in the hands of one worker, or its DoTask has returned.
Accounted ==
    /\ \A i, j \in DOMAIN queue : queue[i] = queue[j] => i = j
    /\ \A v, w \in Workers : cur[v] = cur[w] /\ cur[v] # NoTask => v = w
    /\ Waiting \cap Held = {} /\ Waiting \cap done = {} /\ Held \cap done = {}
    /\ inserted = Waiting \cup Held \cup done

\* Release closes the mutex, the semaphore and the event only when no thread that
\* uses them is left.
NoThreadLeft == upc = "off" /\ \A w \in Workers : wpc[w] = "off"

HandlesOutlive == opc = "released" => NoThreadLeft

\* What makes it inductive: the update thread has ended once it is joined.
JoinedInOrder == opc \in {"abort", "join"} => upc = "off"

\* An object in the queue is taken, as long as the owner does not release the pool
\* and leaves a worker for it.
TaskStarts ==
    \A t \in Tasks :
        (t \in inserted) ~> (t \in done \/ t \in Held \/ ~running)

\* Release returns, if it is called when no object is left in the queue.
IdleReleaseEnds == (opc = "drain" /\ queue = <<>>) ~> (opc = "released")

\* Release returns, whenever it is called.
ReleaseEnds == (opc = "drain") ~> (opc = "released")
===============================================================================
