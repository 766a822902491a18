------------------------------- MODULE Lifecycle -------------------------------
(***************************************************************************)
(* How the applications start and end: CSocketSystem with the main threads *)
(* of GameServer, TestClientApp and DBVestibuleServer.                     *)
(*                                                                         *)
(* The main thread creates the system and asks the logic thread, through   *)
(* one auto-reset event and a mode that the sink of the event reads, to    *)
(* create and start a socket; later it asks it to close the socket, waits, *)
(* and takes everything down.  GameServer and TestClientApp wait for three *)
(* seconds, DBVestibuleServer for an event that CloseServer sets.          *)
(*                                                                         *)
(* What a socket does while it runs is in ServerSocket and ClientSocket.   *)
(* Here it is an object in a state; a step on a pointer that was never     *)
(* set, or on an object whose worker threads are deleted, is a fault, and  *)
(* nothing moves any more.                                                 *)
(***************************************************************************)
EXTENDS Naturals

CONSTANT Envs       \* the environments to look at

Apps == {"GameServer", "TestClientApp", "DBVestibuleServer"}

\* An environment: the application; whether the DLL is a debug build, in which assert
\* evaluates its argument; whether the memory of a new CSocketSystem happens to be zero;
\* whether the operator waits for the server to be up before he ends it; whether the
\* logic thread keeps within the three seconds; whether starting a socket may fail.
Environment == [app : Apps, debug : BOOLEAN, zeroed : BOOLEAN, patient : BOOLEAN,
                timely : BOOLEAN, fails : BOOLEAN]

ASSUME LifecycleAssumption == Envs \subseteq Environment

VARIABLES
    env,            \* the environment; it does not change
    mpc,            \* the main thread: its next step
    opMode,         \* opMode, _lastOpMode
    startEvent,     \* whether _startEvent, _serverEvent is set
    releaseEvent,   \* whether _releaseEvent is set
    vecEvents,      \* whether _vecEvents has the event
    loopRunning,    \* LogicThreadMain::_running
    threadRunning,  \* CThread::_running of the logic thread
    lpc,            \* the logic thread: its next step
    copied,         \* whether the copy of processEvent has the event
    serverSocket,   \* the pointer CSocketSystem::_serverSocket
    appSocket,      \* the application's pointer: _pServerSocket, g_clientSocket
    object,         \* the socket itself
    fault           \* "none", or what the program has done

mainVars == <<mpc, opMode, releaseEvent>>
loopVars == <<lpc, copied>>
flagVars == <<loopRunning, threadRunning>>
sockVars == <<serverSocket, appSocket, object>>
vars == <<mainVars, loopVars, flagVars, sockVars, startEvent, vecEvents, fault>>
                                                                    \* all but env
Init ==
    /\ env \in Envs
    /\ mpc = "create" /\ opMode = "none"
    /\ startEvent = FALSE /\ releaseEvent = FALSE /\ vecEvents = FALSE
    /\ loopRunning = FALSE /\ threadRunning = FALSE
    /\ lpc = "off" /\ copied = FALSE
    /\ serverSocket = IF env.zeroed THEN "null" ELSE "wild"
    /\ appSocket = IF env.app = "DBVestibuleServer" THEN "wild" ELSE "null"
    /\ object = "none"
    /\ fault = "none"

Fails(what) == fault' = what

-------------------------------------------------------------------------------
(* The main thread *)

Main(from, to) == fault = "none" /\ mpc = from /\ mpc' = to

\* CSocketSystem::Create starts the logic thread inside an assert.
Create ==
    /\ Main("create", "add")
    /\ loopRunning' = env.debug /\ threadRunning' = env.debug
    /\ lpc' = IF env.debug THEN "top" ELSE "off"
    /\ UNCHANGED <<opMode, releaseEvent, copied, sockVars, startEvent, vecEvents, fault>>

AddEvent ==
    /\ Main("add", "mode")
    /\ vecEvents' = TRUE
    /\ UNCHANGED <<opMode, releaseEvent, loopVars, flagVars, sockVars, startEvent, fault>>

\* The mode is set first, for the start and for the end ...
SetMode(from, mode, to) ==
    /\ Main(from, to)
    /\ opMode' = mode
    /\ UNCHANGED <<releaseEvent, loopVars, flagVars, sockVars, startEvent, vecEvents, fault>>

\* ... and then the event.
Signal(from, to) ==
    /\ Main(from, to)
    /\ startEvent' = TRUE
    /\ UNCHANGED <<opMode, releaseEvent, loopVars, flagVars, sockVars, vecEvents, fault>>

Served == ~startEvent /\ lpc \notin {"event", "starting", "start", "closing"}

\* The operator presses a key at system("pause").
Press ==
    /\ Main("pause", "closeMode")
    /\ env.patient => Served \/ lpc = "off"
    /\ UNCHANGED <<opMode, releaseEvent, loopVars, flagVars, sockVars, startEvent,
                   vecEvents, fault>>

\* Mutant: there is no wait.
MutSleep ==
    /\ env.app # "DBVestibuleServer"
    /\ Main("wait", "remove")
    /\ UNCHANGED <<opMode, releaseEvent, loopVars, flagVars, sockVars, startEvent,
                   vecEvents, fault>>

\* GameServer and TestClientApp: three times Sleep(1000).
Sleep ==
    /\ env.app # "DBVestibuleServer"
    /\ Main("wait", "remove")
    /\ env.timely => Served \/ lpc = "off"
    /\ UNCHANGED <<opMode, releaseEvent, loopVars, flagVars, sockVars, startEvent,
                   vecEvents, fault>>

\* DBVestibuleServer: WaitForSingleObject(_releaseEvent, INFINITE).
WaitReleased ==
    /\ env.app = "DBVestibuleServer" /\ releaseEvent
    /\ Main("wait", "remove")
    /\ releaseEvent' = FALSE
    /\ UNCHANGED <<opMode, loopVars, flagVars, sockVars, startEvent, vecEvents, fault>>

RemoveEvent ==
    /\ Main("remove", "release")
    /\ vecEvents' = FALSE
    /\ UNCHANGED <<opMode, releaseEvent, loopVars, flagVars, sockVars, startEvent, fault>>

\* LogicThreadMain::Release, whose vector is empty already.
Release ==
    /\ Main("release", IF loopRunning THEN "stop" ELSE "delete")
    /\ loopRunning' = FALSE
    /\ UNCHANGED <<opMode, releaseEvent, loopVars, threadRunning, sockVars, startEvent,
                   vecEvents, fault>>

\* CThread::Stop ends the answer of IsRunInLoop before the thread ends.
Stop ==
    /\ Main("stop", "join")
    /\ threadRunning' = FALSE
    /\ UNCHANGED <<opMode, releaseEvent, loopVars, loopRunning, sockVars, startEvent,
                   vecEvents, fault>>

WaitExit ==
    /\ Main("join", "delete")
    /\ lpc = "off"
    /\ UNCHANGED <<opMode, releaseEvent, loopVars, flagVars, sockVars, startEvent,
                   vecEvents, fault>>

\* CSocketSystem::Release deletes the sockets, and so the members their threads use.
Delete ==
    /\ Main("delete", "done")
    /\ object' = "none"
    /\ serverSocket' = "null"
    /\ Fails(CASE serverSocket = "wild" -> "wild"
               [] object = "running"    -> "orphans"
               [] OTHER                 -> "none")
    /\ UNCHANGED <<opMode, releaseEvent, loopVars, flagVars, appSocket, startEvent, vecEvents>>

-------------------------------------------------------------------------------
(* The logic thread *)

Loop(from, to) == fault = "none" /\ lpc = from /\ lpc' = to

LoopEnds ==
    /\ ~loopRunning /\ Loop("top", "off")
    /\ UNCHANGED <<mainVars, copied, flagVars, sockVars, startEvent, vecEvents, fault>>

\* processEvent: the copy under the mutex, the wait, and the sink.
CopyEvents ==
    /\ loopRunning /\ Loop("top", "wait")
    /\ copied' = vecEvents
    /\ UNCHANGED <<mainVars, flagVars, sockVars, startEvent, vecEvents, fault>>

WaitEvent ==
    /\ copied /\ startEvent /\ Loop("wait", "event")
    /\ startEvent' = FALSE
    /\ UNCHANGED <<mainVars, copied, flagVars, sockVars, vecEvents, fault>>

WaitNothing ==
    /\ ~(copied /\ startEvent) /\ Loop("wait", "messages")
    /\ UNCHANGED <<mainVars, copied, flagVars, sockVars, startEvent, vecEvents, fault>>

OnEvent ==
    /\ Loop("event", IF opMode = "start" THEN "starting" ELSE "closing")
    /\ UNCHANGED <<mainVars, copied, flagVars, sockVars, startEvent, vecEvents, fault>>

\* processServerMsgs asks for the server socket in every round, of a client too.
Messages ==
    /\ Loop("messages", "top")
    /\ Fails(IF serverSocket = "wild" THEN "wild" ELSE "none")
    /\ UNCHANGED <<mainVars, copied, flagVars, sockVars, startEvent, vecEvents>>

\* DBVestibuleServer gives up before it comes to the socket.
DatabaseFails ==
    /\ env.app = "DBVestibuleServer" /\ env.fails
    /\ Loop("starting", "messages")
    /\ UNCHANGED <<mainVars, copied, flagVars, sockVars, startEvent, vecEvents, fault>>

\* CreateServerSocket, CreateClientSocket: refused once the thread was told to stop.  A
\* server socket that seems to be there is not made.
CreateRefused ==
    /\ ~threadRunning /\ Loop("starting", "messages")
    /\ appSocket' = "null"
    /\ UNCHANGED <<mainVars, copied, flagVars, serverSocket, object, startEvent, vecEvents,
                   fault>>

CreateSocket ==
    /\ threadRunning /\ Loop("starting", "start")
    /\ IF env.app # "TestClientApp" /\ serverSocket = "wild"
       THEN appSocket' = "wild" /\ UNCHANGED <<serverSocket, object>>
       ELSE /\ appSocket' = "set" /\ object' = "made"
            /\ serverSocket' = IF env.app = "TestClientApp" THEN serverSocket ELSE "set"
    /\ UNCHANGED <<mainVars, copied, flagVars, startEvent, vecEvents, fault>>

Start ==
    /\ Loop("start", "messages")
    /\ Fails(IF appSocket = "wild" THEN "wild" ELSE "none")
    /\ \/ object' = "running" /\ threadRunning /\ appSocket # "wild"
       \/ object' = object /\ (env.fails \/ ~threadRunning \/ appSocket = "wild")
    /\ UNCHANGED <<mainVars, copied, flagVars, serverSocket, appSocket, startEvent, vecEvents>>

\* Mutant: DBVestibuleServer's way in the other applications.
MutNothingToClose == FALSE

\* The pointer that CloseServer, CloseClient works with; DBVestibuleServer does not ask
\* whether it is there.
NothingToClose == appSocket = "null" /\ env.app # "DBVestibuleServer"

\* Both classes refuse to close once the thread was told to stop, and a client socket
\* that does not run is left alone.  CServerSocket::Close does not ask whether it was
\* started, and deletes the work objects of a Start that did not come to make them.
LeftOpen ==
    \/ NothingToClose
    \/ appSocket = "set" /\ ~threadRunning
    \/ appSocket = "set" /\ env.app = "TestClientApp" /\ object # "running"

Closes == appSocket = "set" /\ threadRunning /\ object = "running"

CloseObject ==
    /\ object' = IF Closes THEN "closed" ELSE object
    /\ Fails(IF Closes \/ LeftOpen THEN "none" ELSE "wild")

\* Mutant: the main thread is not told.
MutCloseServer ==
    /\ Loop("closing", "messages")
    /\ CloseObject
    /\ UNCHANGED <<mpc, opMode, releaseEvent, copied, flagVars, serverSocket, appSocket,
                   startEvent, vecEvents>>

CloseServer ==
    /\ Loop("closing", "messages")
    /\ CloseObject
    /\ IF env.app = "DBVestibuleServer"
       THEN releaseEvent' = TRUE /\ UNCHANGED appSocket
       ELSE appSocket' = "null" /\ UNCHANGED releaseEvent
    /\ UNCHANGED <<mpc, opMode, copied, flagVars, serverSocket, startEvent, vecEvents>>

-------------------------------------------------------------------------------
MainStep ==
    \/ Create \/ AddEvent
    \/ SetMode("mode", "start", "signal") \/ Signal("signal", "pause")
    \/ SetMode("closeMode", "close", "closeSignal") \/ Signal("closeSignal", "wait")
    \/ Sleep \/ WaitReleased \/ RemoveEvent \/ Release \/ Stop \/ WaitExit \/ Delete

LoopStep ==
    \/ LoopEnds \/ CopyEvents \/ WaitEvent \/ WaitNothing \/ OnEvent \/ Messages
    \/ DatabaseFails \/ CreateRefused \/ CreateSocket \/ Start \/ CloseServer

Next == (MainStep \/ Press \/ LoopStep) /\ UNCHANGED env

Spec == Init /\ [][Next]_<<env, vars>>

\* Both threads run on; the operator need not press a key.
Fairness == WF_vars(MainStep) /\ WF_vars(LoopStep)

FairSpec == Spec /\ Fairness

-------------------------------------------------------------------------------
(* Properties *)

\* No pointer is used that was never set, if the memory of the CSocketSystem happened to
\* be zero, no server fails to start, and the operator of DBVestibuleServer is patient:
\* whenever else the end overtakes the start, and however late the logic thread is.
NoWildPointer ==
    (/\ env.zeroed
     /\ env.app = "DBVestibuleServer" => env.patient
     /\ env.app = "TestClientApp" \/ ~env.fails) => fault # "wild"

\* The system never deletes a socket whose threads still run, if the three seconds were
\* enough; DBVestibuleServer needs no such luck.
NoOrphans == env.timely \/ env.app = "DBVestibuleServer" => fault # "orphans"

\* An application that is told to end does, whatever the build of GameServer and
\* TestClientApp, and for DBVestibuleServer if there is a logic thread to answer.
ReleaseReturns ==
    (mpc = "closeMode" /\ (env.debug \/ env.app # "DBVestibuleServer"))
        ~> (mpc = "done" \/ fault # "none")
===============================================================================
