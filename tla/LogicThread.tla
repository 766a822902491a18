------------------------------ MODULE LogicThread ------------------------------
(***************************************************************************)
(* LogicThreadMain: the loop that runs the application.  Other threads     *)
(* hand it functions (RunInLoop) and events with their sinks (AddEvent,    *)
(* RemoveEvent), under one recursive mutex; Release ends it.               *)
(*                                                                         *)
(* A round of the loop runs the pending functions while it holds the       *)
(* mutex, then copies the events, waits for one of them without blocking   *)
(* and calls its sink.  The messages of the sockets, which follow in a     *)
(* round, are in ServerSocket and ClientSocket.                            *)
(*                                                                         *)
(* What the loop itself adds or removes is not locked.  From a function    *)
(* that does not matter, from a sink it does: another thread may be at the *)
(* vector.  AddEvent and RemoveEvent look for the event first and change   *)
(* the vector then, and what one of them changes between the two steps of  *)
(* the other, the other does not see: it adds an event that is there by    *)
(* now, or erases what has moved to the place.  The vector may also be     *)
(* torn, for it is no more than a std::vector; then nothing moves.         *)
(***************************************************************************)
EXTENDS Naturals, Sequences, FiniteSets

CONSTANTS Callers,       \* the other threads
          Events,        \* handles of auto-reset events, each with its sink
          MaxWait,       \* MAXIMUM_WAIT_OBJECTS
          MaxFuncs,      \* bound: functions handed over
          Loads,         \* bound: which events, with how many functions, a set of pairs
          MaxRaces,      \* bound: times that a sink and a thread are both at the vector
          FuncCalls,     \* what a function may call, out of Calls
          OnEventCalls   \* what a sink may call, out of Calls

Calls == {"none", "add", "remove"}

ASSUME LogicAssumption ==
    /\ MaxWait \in Nat \ {0} /\ MaxFuncs \in Nat /\ MaxRaces \in Nat
    /\ Loads \subseteq [events : SUBSET Events, funcs : 0 .. MaxFuncs]
    /\ FuncCalls \subseteq Calls /\ OnEventCalls \subseteq Calls
    /\ "loop" \notin Callers /\ "free" \notin Callers

VARIABLES
    load,        \* the bound that holds; it does not change
    running,     \* _running
    owner,       \* of _mutex
    vecEvents,   \* _vecEvents
    funcs,       \* _appendLoopFuncs, each the number of its RunInLoop
    next,        \* i of processPendingFuncs
    signalled,   \* the events that are set
    lpc,         \* the loop: where it is in its round
    snapshot,    \* vecEvents of processEvent
    cpc,         \* another thread: where it is in its call
    op,          \* what the call of a thread, or of the loop's sink, does
    at,          \* where its search has found the event, 0 if nowhere
    torn,        \* two threads were at _vecEvents, and it is no vector any more
    races,       \* history: times that a sink and another thread were at _vecEvents
    posted,      \* history: functions handed over
    ran,         \* history: functions run by the loop
    stale        \* history: calls of the sink of an event since it was removed

callVars == <<cpc, op, at>>
funcVars == <<funcs, next, posted, ran>>
loopVars == <<lpc, snapshot>>
vecVars  == <<vecEvents, stale, torn>>
vars == <<running, owner, vecVars, signalled, races, callVars, funcVars, loopVars>>
          \* all but load

Ops == [call : {"add", "remove"}, event : Events]
         \cup [call : {"post", "clear"}]

NoOp == [call |-> "none"]

Threads == Callers \cup {"loop"}

InVec(e, vec) == \E i \in 1 .. Len(vec) : vec[i] = e

Init ==
    /\ load \in Loads
    /\ running = TRUE /\ owner = "free"
    /\ vecEvents = <<>> /\ funcs = <<>> /\ next = 1 /\ signalled = {}
    /\ lpc = "top" /\ snapshot = <<>>
    /\ cpc = [c \in Callers |-> "idle"] /\ op = [x \in Threads |-> NoOp]
    /\ at = [x \in Threads |-> 0]
    /\ torn = FALSE /\ races = 0
    /\ posted = <<>> /\ ran = <<>> /\ stale = [e \in Events |-> 0]

-------------------------------------------------------------------------------
(* The vector of events *)

\* Where the first entry of an event is, 0 if there is none.
IndexOf(e, vec) ==
    IF ~InVec(e, vec) THEN 0
    ELSE CHOOSE i \in 1 .. Len(vec) : vec[i] = e /\ \A j \in 1 .. i - 1 : vec[j] # e

Erased(vec, i) == SubSeq(vec, 1, i - 1) \o SubSeq(vec, i + 1, Len(vec))

\* What a call makes of the vector, its search having ended at i.
Effect(call, e, i) ==
    CASE call = "add" /\ i = 0                        -> Append(vecEvents, e)
      [] call = "remove" /\ i \in 1 .. Len(vecEvents) -> Erased(vecEvents, i)
      [] call = "clear"                               -> <<>>
      [] OTHER                                        -> vecEvents

\* _vecEvents becomes vec; what was added or removed starts to be counted anew.
SetEvents(vec) ==
    /\ vecEvents' = vec
    /\ stale' = [e \in Events |-> IF InVec(e, vec) = InVec(e, vecEvents)
                                  THEN stale[e] ELSE 0]

\* Thread x is between the two steps of a call that changes the vector.
AtVector(x) ==
    /\ IF x = "loop" THEN lpc = "sink" ELSE cpc[x] = "in"
    /\ op[x].call \in {"add", "remove", "clear"}

\* If another thread is there as well, any of it may be torn.
Tears(x) == torn' \in IF \E y \in Threads \ {x} : AtVector(y) THEN BOOLEAN ELSE {FALSE}

\* A call that has come to the vector meets those of others, or none.
Race(others) ==
    /\ races' = IF \E y \in others : AtVector(y) THEN races + 1 ELSE races
    /\ races' <= MaxRaces

-------------------------------------------------------------------------------
(* The other threads *)

\* A call comes to the mutex, which is there until Release has joined the loop.
\* RunInLoop reads _running first, and so does Release.
Call(c) ==
    /\ ~torn /\ cpc[c] = "idle"
    /\ lpc # "off" \/ \E d \in Callers : cpc[d] = "join"
    /\ \E o \in Ops :
          /\ o.call \in {"post", "clear"} => running
          /\ o.call = "post" => Len(posted) < load.funcs
          /\ o.call \in {"add", "remove"} => o.event \in load.events
          /\ o.call = "clear" =>
                \A d \in Callers : op[d].call # "clear" /\ cpc[d] # "stop"
          /\ op' = [op EXCEPT ![c] = o]
    /\ cpc' = [cpc EXCEPT ![c] = "lock"]
    /\ UNCHANGED <<running, owner, vecVars, signalled, races, at, funcVars, loopVars>>

\* Mutant: it does not wait for the mutex.
MutLock(c) ==
    /\ ~torn /\ cpc[c] = "lock"
    /\ owner' = c
    /\ cpc' = [cpc EXCEPT ![c] = "in"]
    /\ at' = [at EXCEPT ![c] = IF op[c].call \in {"add", "remove"}
                              THEN IndexOf(op[c].event, vecEvents) ELSE 0]
    /\ IF op[c].call = "post" THEN UNCHANGED races ELSE Race({"loop"})
    /\ UNCHANGED <<running, vecVars, signalled, op, funcVars, loopVars>>

\* It gets the mutex, and goes through the vector.
Lock(c) ==
    /\ ~torn /\ cpc[c] = "lock" /\ owner = "free"
    /\ owner' = c
    /\ cpc' = [cpc EXCEPT ![c] = "in"]
    /\ at' = [at EXCEPT ![c] = IF op[c].call \in {"add", "remove"}
                              THEN IndexOf(op[c].event, vecEvents) ELSE 0]
    /\ IF op[c].call = "post" THEN UNCHANGED races ELSE Race({"loop"})
    /\ UNCHANGED <<running, vecVars, signalled, op, funcVars, loopVars>>

\* Caller c is at the end of its critical section.
Leave(c, call, pc) ==
    /\ ~torn /\ cpc[c] = "in" /\ op[c].call = call
    /\ owner' = "free"
    /\ cpc' = [cpc EXCEPT ![c] = pc]
    /\ op' = [op EXCEPT ![c] = NoOp]
    /\ at' = [at EXCEPT ![c] = 0]
    /\ UNCHANGED <<running, signalled, races, loopVars>>

\* Mutant: the return for an event that is there forgets the mutex.
MutAddEvent(c) ==
    /\ ~torn /\ cpc[c] = "in" /\ op[c].call = "add"
    /\ owner' = IF at[c] # 0 THEN owner ELSE "free"
    /\ cpc' = [cpc EXCEPT ![c] = "idle"]
    /\ op' = [op EXCEPT ![c] = NoOp]
    /\ at' = [at EXCEPT ![c] = 0]
    /\ SetEvents(Effect("add", op[c].event, at[c])) /\ Tears(c)
    /\ UNCHANGED <<running, signalled, races, loopVars, funcVars>>

AddEvent(c) ==
    /\ Leave(c, "add", "idle")
    /\ SetEvents(Effect("add", op[c].event, at[c])) /\ Tears(c)
    /\ UNCHANGED funcVars

RemoveEvent(c) ==
    /\ Leave(c, "remove", "idle")
    /\ SetEvents(Effect("remove", op[c].event, at[c])) /\ Tears(c)
    /\ UNCHANGED funcVars

\* Mutant: the function is put in front.
MutRunInLoop(c) ==
    /\ Leave(c, "post", "idle")
    /\ posted' = Append(posted, Len(posted) + 1)
    /\ funcs' = <<Len(posted) + 1>> \o funcs
    /\ UNCHANGED <<vecVars, next, ran>>

RunInLoop(c) ==
    /\ Leave(c, "post", "idle")
    /\ posted' = Append(posted, Len(posted) + 1)
    /\ funcs' = Append(funcs, Len(posted) + 1)
    /\ UNCHANGED <<vecVars, next, ran>>

\* Release empties the vector...
Release(c) ==
    /\ Leave(c, "clear", "stop")
    /\ SetEvents(<<>>) /\ Tears(c)
    /\ UNCHANGED funcVars

\* ... tells the loop to end...
ReleaseStop(c) ==
    /\ ~torn /\ cpc[c] = "stop"
    /\ running' = FALSE
    /\ cpc' = [cpc EXCEPT ![c] = "join"]
    /\ UNCHANGED <<owner, vecVars, signalled, races, op, at, funcVars, loopVars>>

\* ... and joins it, after which the mutex is closed.  (The threads of an application
\* have returned from their calls by then.)
ReleaseJoined(c) ==
    /\ ~torn /\ cpc[c] = "join" /\ lpc = "off"
    /\ \A d \in Callers \ {c} : cpc[d] = "idle"
    /\ cpc' = [cpc EXCEPT ![c] = "idle"]
    /\ UNCHANGED <<running, owner, vecVars, signalled, races, op, at, funcVars, loopVars>>

\* Somebody sets an event, registered or not.
SetEvent(e) ==
    /\ ~torn /\ running /\ e \in load.events
    /\ signalled' = signalled \cup {e}
    /\ UNCHANGED <<running, owner, vecVars, races, callVars, funcVars, loopVars>>

-------------------------------------------------------------------------------
(* The loop *)

LoopEnds ==
    /\ ~torn /\ lpc = "top" /\ ~running
    /\ lpc' = "off"
    /\ UNCHANGED <<running, owner, vecVars, signalled, races, callVars, funcVars, snapshot>>

\* Mutant: the functions are run without the mutex.
MutLockFuncs ==
    /\ ~torn /\ lpc = "top" /\ running
    /\ next' = 1
    /\ lpc' = "funcs"
    /\ UNCHANGED <<running, owner, vecVars, signalled, races, callVars, funcs, posted,
                   ran, snapshot>>

\* processPendingFuncs takes the mutex...
LockFuncs ==
    /\ ~torn /\ lpc = "top" /\ running
    /\ owner = "free"
    /\ owner' = "loop"
    /\ next' = 1
    /\ lpc' = "funcs"
    /\ UNCHANGED <<running, vecVars, signalled, races, callVars, funcs, posted, ran,
                   snapshot>>

\* ... runs one function after the other, which may add and remove events...
RunFunc ==
    /\ ~torn /\ lpc = "funcs" /\ next <= Len(funcs)
    /\ \E call \in FuncCalls, e \in Events :
          /\ call # "none" => e \in load.events
          /\ SetEvents(Effect(call, e, IndexOf(e, vecEvents)))
    /\ Tears("loop")
    /\ ran' = Append(ran, funcs[next])
    /\ next' = next + 1
    /\ UNCHANGED <<running, owner, signalled, races, callVars, funcs, posted, loopVars>>

\* Mutant: the list is dropped after its first function.
MutClearFuncs ==
    /\ ~torn /\ lpc = "funcs" /\ (next > Len(funcs) \/ next > 1)
    /\ funcs' = <<>> /\ next' = 1
    /\ owner' = "free"
    /\ lpc' = "snap"
    /\ UNCHANGED <<running, vecVars, signalled, races, callVars, posted, ran, snapshot>>

\* ... and drops them all.
ClearFuncs ==
    /\ ~torn /\ lpc = "funcs" /\ next > Len(funcs)
    /\ funcs' = <<>> /\ next' = 1
    /\ owner' = "free"
    /\ lpc' = "snap"
    /\ UNCHANGED <<running, vecVars, signalled, races, callVars, posted, ran, snapshot>>

\* processEvent copies the events under the mutex.
CopyEvents ==
    /\ ~torn /\ lpc = "snap" /\ owner = "free"
    /\ snapshot' = vecEvents
    /\ lpc' = "wait"
    /\ UNCHANGED <<running, owner, vecVars, signalled, races, callVars, funcVars>>

Ready(i) == snapshot[i] \in signalled

\* Mutant: the last handle is one too many.
MutMayWait ==
    /\ Len(snapshot) < MaxWait
    /\ \A i, j \in 1 .. Len(snapshot) : snapshot[i] = snapshot[j] => i = j

\* WaitForMultipleObjects fails if it is given too many handles, or one twice.
MayWait ==
    /\ Len(snapshot) <= MaxWait
    /\ \A i, j \in 1 .. Len(snapshot) : snapshot[i] = snapshot[j] => i = j

\* The first event that is set is reset, and its sink called.
WaitEvent ==
    /\ ~torn /\ lpc = "wait" /\ MayWait
    /\ \E i \in 1 .. Len(snapshot) :
          /\ Ready(i) /\ \A j \in 1 .. i - 1 : ~Ready(j)
          /\ signalled' = signalled \ {snapshot[i]}
          /\ stale' = IF InVec(snapshot[i], vecEvents)
                      THEN stale ELSE [stale EXCEPT ![snapshot[i]] = @ + 1]
    /\ lpc' = "event"
    /\ UNCHANGED <<running, owner, vecEvents, torn, races, callVars, funcVars, snapshot>>

\* None is set, or the wait fails.
WaitNothing ==
    /\ ~torn /\ lpc = "wait"
    /\ MayWait => \A i \in 1 .. Len(snapshot) : ~Ready(i)
    /\ lpc' = "top" /\ snapshot' = <<>>
    /\ UNCHANGED <<running, owner, vecVars, signalled, races, callVars, funcVars>>

\* Mutant: the wait is repeated until no event of the copy is set.
MutOnEvent ==
    /\ ~torn /\ lpc = "event" /\ "none" \in OnEventCalls
    /\ lpc' = "wait"
    /\ UNCHANGED <<running, owner, vecVars, signalled, races, callVars, funcVars, snapshot>>

\* The sink returns...
OnEvent ==
    /\ ~torn /\ lpc = "event" /\ "none" \in OnEventCalls
    /\ lpc' = "top" /\ snapshot' = <<>>
    /\ UNCHANGED <<running, owner, vecVars, signalled, races, callVars, funcVars>>

\* ... or adds or removes an event, for which it goes through the vector...
SinkScan ==
    /\ ~torn /\ lpc = "event"
    /\ \E call \in OnEventCalls \ {"none"}, e \in load.events :
          /\ op' = [op EXCEPT !["loop"] = [call |-> call, event |-> e]]
          /\ at' = [at EXCEPT !["loop"] = IndexOf(e, vecEvents)]
    /\ lpc' = "sink"
    /\ Race(Callers)
    /\ UNCHANGED <<running, owner, vecVars, signalled, cpc, funcVars, snapshot>>

\* ... without the mutex.
SinkAct ==
    /\ ~torn /\ lpc = "sink"
    /\ SetEvents(Effect(op["loop"].call, op["loop"].event, at["loop"])) /\ Tears("loop")
    /\ op' = [op EXCEPT !["loop"] = NoOp]
    /\ at' = [at EXCEPT !["loop"] = 0]
    /\ lpc' = "top" /\ snapshot' = <<>>
    /\ UNCHANGED <<running, owner, signalled, races, cpc, funcVars>>

-------------------------------------------------------------------------------
CallStep(c) == AddEvent(c) \/ RemoveEvent(c) \/ RunInLoop(c) \/ Release(c) \/ ReleaseStop(c)

LoopStep ==
    \/ LoopEnds \/ LockFuncs \/ RunFunc \/ ClearFuncs
    \/ CopyEvents \/ WaitEvent \/ WaitNothing \/ OnEvent \/ SinkScan \/ SinkAct

Next ==
    /\ \/ \E c \in Callers : Call(c) \/ Lock(c) \/ CallStep(c) \/ ReleaseJoined(c)
       \/ \E e \in Events : SetEvent(e)
       \/ LoopStep
    /\ UNCHANGED load

Spec == Init /\ [][Next]_<<load, vars>>

\* Every thread runs on, and a mutex is given to those who wait for it in turn.
Fairness ==
    /\ SF_vars(LoopStep)
    /\ \A c \in Callers :
          SF_vars(Lock(c)) /\ WF_vars(CallStep(c)) /\ SF_vars(ReleaseJoined(c))

FairSpec == Spec /\ Fairness

-------------------------------------------------------------------------------
(* Properties *)

\* The functions run in the order in which RunInLoop took the mutex, each once, and none
\* is lost when the list is emptied.
FuncsInOrder == posted = ran \o SubSeq(funcs, next, Len(funcs))

\* No event is in the vector twice, however many threads and functions add it: a
\* search and what follows from it are one step for all that take the mutex.  (A sink does
\* not: once it has met another thread at the vector, an event may be there twice, and
\* WaitForMultipleObjects fails for a handle given twice.)
NoEventTwice ==
    races = 0 =>
        \A i, j \in 1 .. Len(vecEvents) : vecEvents[i] = vecEvents[j] => i = j

\* After RemoveEvent the sink is called at most once more, from the copy that the loop
\* may have made before: whoever deletes a sink can wait for one round.
StaleOnce == \A e \in Events : stale[e] <= 1

\* Functions may add and remove events while other threads do: the loop holds the mutex
\* as long as it runs them.  (It does not when it calls a sink.)
NeverTorn == lpc = "funcs" => ~torn

\* Every call returns, and so does Release, as long as the functions and sinks do.
CallsReturn == \A c \in Callers : cpc[c] # "idle" ~> cpc[c] = "idle"

\* Every function handed over is run, unless the loop is told to end.
FuncsRun ==
    \A n \in 1 .. MaxFuncs : Len(posted) >= n ~> (Len(ran) >= n \/ ~running)

Waiting(e) == e \in signalled /\ InVec(e, vecEvents) /\ running

FirstSet(e) ==
    \A i \in 1 .. Len(vecEvents) :
        vecEvents[i] = e => \A j \in 1 .. i - 1 : vecEvents[j] \notin signalled

\* An event that is set is served, also when as many events are registered as the wait
\* can take, unless the events before it in the vector are set again and again.  (One more,
\* which AddEvent does not refuse, and no event is served.)
EventServed ==
    \A e \in Events :
        <>[](FirstSet(e) /\ Len(vecEvents) <= MaxWait) => (Waiting(e) ~> ~Waiting(e))
===============================================================================
