--------------------------- MODULE LifecycleProofs ---------------------------
(***************************************************************************)
(* Theorems of Lifecycle, for every set of environments: no pointer that   *)
(* was never set is used, and no socket is deleted whose threads run.      *)
(*                                                                         *)
(* A fault ends everything, so the invariant says what holds as long as    *)
(* there is none: where the two threads can be at the same time, which     *)
(* socket there is by then, and what the close still has to do.            *)
(***************************************************************************)
EXTENDS Lifecycle, TLAPS

-------------------------------------------------------------------------------
(* The invariant *)

DBV   == env.app = "DBVestibuleServer"
Up    == appSocket = "set" /\ object = "running"
Fresh == object = "none" /\ appSocket = IF DBV THEN "wild" ELSE "null"

\* The logic thread has taken the event and is not done with it.
Busy == lpc \in {"event", "starting", "start", "closing"}

\* The main thread before it signals the start, until it signals the end, and after its
\* wait.
Early  == {"create", "add", "mode", "signal"}
Middle == {"pause", "closeMode", "closeSignal"}
Late   == {"remove", "release", "stop", "join", "delete", "done"}

TypeOK ==
    /\ env \in Environment
    /\ mpc \in Early \cup Middle \cup {"wait"} \cup Late
    /\ opMode \in {"none", "start", "close"}
    /\ lpc \in {"off", "top", "wait", "event", "messages", "starting", "start", "closing"}
    /\ serverSocket \in {"null", "wild", "set"}
    /\ appSocket \in {"null", "wild", "set"}
    /\ object \in {"none", "made", "running", "closed"}

\* The logic thread runs from Create to Release, and not at all in a release build.
Threads ==
    /\ mpc \in {"create", "delete", "done"} => lpc = "off"
    /\ ~env.debug => lpc = "off" /\ object = "none" /\ ~loopRunning /\ ~threadRunning
    /\ env.debug /\ mpc \notin {"create", "stop", "join", "delete", "done"} => loopRunning
    /\ env.debug /\ mpc \notin {"create", "join", "delete", "done"} => threadRunning
    /\ mpc \in {"create", "join", "delete", "done"} => ~threadRunning
    /\ lpc = "off" /\ env.debug => ~loopRunning

Modes ==
    opMode = IF mpc \in {"create", "add", "mode"} THEN "none"
             ELSE IF mpc \in {"signal", "pause", "closeMode"} THEN "start" ELSE "close"

\* One event is under way until the end is signalled, and as long as it is there is no
\* socket; the one that is started is the one the application knows.
Sockets ==
    /\ mpc \in Early => ~startEvent /\ ~Busy /\ Fresh
    /\ mpc \in Middle => /\ startEvent => ~Busy
                         /\ startEvent \/ lpc \in {"event", "starting", "closing"} => Fresh
    /\ lpc = "starting" => Fresh
    /\ lpc = "start" => \/ appSocket = "set" /\ object = "made"
                        \/ appSocket = "wild" /\ serverSocket = "wild" /\ object = "none"
    /\ object = "running" => appSocket = "set" \/ mpc \in {"join", "delete", "done"}

\* While the main thread waits, the close is still to come or has been done.
Closing ==
    /\ mpc = "wait" => \/ startEvent
                       \/ lpc \in {"event", "closing"}
                       \/ lpc \notin {"starting", "start"} /\ object # "running"
    /\ DBV /\ mpc = "wait" /\ appSocket = "set" /\ lpc \in {"event", "closing"} => ~startEvent
    /\ DBV /\ releaseEvent =>
          mpc \in {"wait"} \cup Late /\ ~startEvent /\ ~Busy /\ object # "running"
    /\ mpc \in Late /\ (env.timely \/ DBV) =>
          /\ lpc = "off" \/ (~startEvent /\ ~Busy)
          /\ object # "running"

\* The environments that NoWildPointer is about.
Good ==
    /\ env.zeroed
    /\ DBV => env.patient
    /\ env.app = "TestClientApp" \/ ~env.fails

\* In these a pointer is set when it is used, and a server runs when it is closed.
Pointers ==
    /\ env.zeroed => serverSocket # "wild"
    /\ env.zeroed /\ ~DBV => appSocket # "wild"
    /\ Good /\ env.app = "GameServer" /\ appSocket = "set" =>
          lpc = "start" \/ object = "running" \/ ~threadRunning
    /\ Good /\ DBV /\ mpc = "pause" =>
          startEvent \/ lpc \in {"off", "event", "starting", "start"} \/ (Up /\ lpc # "closing")
    /\ Good /\ DBV /\ mpc \in {"closeMode", "closeSignal"} =>
          lpc = "off" \/ (~startEvent /\ ~Busy /\ Up)
    /\ Good /\ DBV /\ mpc = "wait" =>
          \/ lpc = "off"
          \/ ~startEvent /\ ~Busy
          \/ /\ Up /\ lpc \notin {"starting", "start"}
             /\ startEvent <=> lpc \notin {"event", "closing"}

Sound == TypeOK /\ Threads /\ Modes /\ Sockets /\ Closing /\ Pointers

SoundInv == (fault = "none" => Sound) /\ NoWildPointer /\ NoOrphans

-------------------------------------------------------------------------------
(* The steps *)

LEMMA SoundInit == Init => SoundInv
<1> SUFFICES ASSUME Init
             PROVE  SoundInv
  OBVIOUS
<1>1. env \in Environment
  BY LifecycleAssumption DEF Init
<1>2. mpc = "create" /\ lpc = "off" /\ ~startEvent /\ ~releaseEvent /\ fault = "none"
  BY DEF Init
<1>3. TypeOK /\ Threads /\ Modes
  BY <1>1 DEF Init, TypeOK, Threads, Modes, Early, Environment
<1>4. Sockets /\ Closing
  BY <1>2 DEF Init, Sockets, Closing, Fresh, DBV, Busy, Early, Middle, Late
<1>5. Pointers
  BY <1>1, <1>2 DEF Init, Pointers, Good, DBV, Environment, Apps
<1> QED
  BY <1>2, <1>3, <1>4, <1>5 DEF SoundInv, Sound, NoWildPointer, NoOrphans

\* The main thread.  After its wait the logic thread is done with the close, and the events
\* it sets find the logic thread where Sockets and Closing say.
LEMMA MainKeeps ==
  ASSUME Sound, fault = "none", UNCHANGED env, MainStep \/ Press
  PROVE  SoundInv'
<1> USE DEF Sound, TypeOK, Threads, Modes, Sockets, Closing, Pointers, SoundInv,
            NoWildPointer, NoOrphans, Fresh, Up, Good, DBV, Busy, Early, Middle, Late,
            Environment, Apps, Main, loopVars, flagVars, sockVars
<1>1. CASE Create
  BY <1>1 DEF Create
<1>2. CASE AddEvent
  BY <1>2 DEF AddEvent
<1>3. CASE SetMode("mode", "start", "signal")
  BY <1>3 DEF SetMode
<1>4. CASE Signal("signal", "pause")
  BY <1>4 DEF Signal
<1>5. CASE Press
  BY <1>5 DEF Press, Served
<1>6. CASE SetMode("closeMode", "close", "closeSignal")
  BY <1>6 DEF SetMode
<1>7. CASE Signal("closeSignal", "wait")
  BY <1>7 DEF Signal
<1>8. CASE Sleep
  BY <1>8 DEF Sleep, Served
<1>9. CASE WaitReleased
  BY <1>9 DEF WaitReleased
<1>10. CASE RemoveEvent
  BY <1>10 DEF RemoveEvent
<1>11. CASE Release
  BY <1>11 DEF Release
<1>12. CASE Stop
  BY <1>12 DEF Stop
<1>13. CASE WaitExit
  BY <1>13 DEF WaitExit
<1>14. CASE Delete
  BY <1>14 DEF Delete, Fails
<1> HIDE DEF SoundInv, Sound
<1> QED
  BY <1>1, <1>2, <1>3, <1>4, <1>5, <1>6, <1>7, <1>8, <1>9, <1>10, <1>11, <1>12, <1>13, <1>14 DEF MainStep

\* The logic thread.  A close finds a running server, nothing, or a thread that was told to
\* stop, and leaves no socket that runs as long as the main thread waits.
LEMMA LoopKeeps ==
  ASSUME Sound, fault = "none", UNCHANGED env, LoopStep
  PROVE  SoundInv'
<1> USE DEF Sound, TypeOK, Threads, Modes, Sockets, Closing, Pointers, SoundInv,
            NoWildPointer, NoOrphans, Fresh, Up, Good, DBV, Busy, Early, Middle, Late,
            Environment, Apps, Loop, mainVars, flagVars, sockVars
<1>1. CASE LoopEnds
  BY <1>1 DEF LoopEnds
<1>2. CASE CopyEvents
  BY <1>2 DEF CopyEvents
<1>3. CASE WaitEvent
  BY <1>3 DEF WaitEvent
<1>4. CASE WaitNothing
  BY <1>4 DEF WaitNothing
<1>5. CASE OnEvent
  BY <1>5 DEF OnEvent
<1>6. CASE Messages
  BY <1>6 DEF Messages, Fails
<1>7. CASE DatabaseFails
  BY <1>7 DEF DatabaseFails
<1>8. CASE CreateRefused
  BY <1>8 DEF CreateRefused
<1>9. CASE CreateSocket
  BY <1>9 DEF CreateSocket
<1>10. CASE Start
  BY <1>10 DEF Start, Fails
<1>11. CASE CloseServer
  <2>1. /\ lpc = "closing" /\ lpc' = "messages" /\ mpc' = mpc
        /\ object' = IF Closes THEN "closed" ELSE object
        /\ fault' = IF Closes \/ LeftOpen THEN "none" ELSE "wild"
    BY <1>11 DEF CloseServer, CloseObject, Fails
  <2>2. Good => Closes \/ LeftOpen
    BY <2>1 DEF Closes, LeftOpen, NothingToClose
  <2>3. NoWildPointer' /\ NoOrphans'
    BY <2>1, <2>2
  <2>4. mpc = "wait" /\ (Closes \/ LeftOpen) => object' # "running"
    BY <2>1 DEF Closes, LeftOpen, NothingToClose
  <2>5. (fault = "none" => Sound)'
    BY <1>11, <2>1, <2>4 DEF CloseServer, CloseObject, Closes, LeftOpen, NothingToClose
  <2> QED
    BY <2>3, <2>5
<1> HIDE DEF SoundInv, Sound
<1> QED
  BY <1>1, <1>2, <1>3, <1>4, <1>5, <1>6, <1>7, <1>8, <1>9, <1>10, <1>11 DEF LoopStep

\* As long as there is no fault, the two threads and their socket are where Sound says.
THEOREM SoundInvariant == Spec => []SoundInv
<1>1. Init => SoundInv
  BY SoundInit
<1>2. SoundInv /\ [Next]_<<env, vars>> => SoundInv'
  <2> SUFFICES ASSUME SoundInv, [Next]_<<env, vars>>
               PROVE  SoundInv'
    OBVIOUS
  <2>1. CASE fault = "none" /\ Next
    <3>1. Sound /\ UNCHANGED env
      BY <2>1 DEF SoundInv, Next
    <3>2. CASE MainStep \/ Press
      BY <2>1, <3>1, <3>2, MainKeeps
    <3>3. CASE LoopStep
      BY <2>1, <3>1, <3>3, LoopKeeps
    <3> QED
      BY <2>1, <3>2, <3>3 DEF Next
  <2>2. Next => fault = "none"
    BY DEF Next, MainStep, LoopStep, Main, Loop, Create, AddEvent, SetMode, Signal, Press,
           Sleep, WaitReleased, RemoveEvent, Release, Stop, WaitExit, Delete, LoopEnds,
           CopyEvents, WaitEvent, WaitNothing, OnEvent, Messages, DatabaseFails,
           CreateRefused, CreateSocket, Start, CloseServer
  <2>3. CASE UNCHANGED <<env, vars>>
    BY <2>3 DEF SoundInv, Sound, TypeOK, Threads, Modes, Sockets, Closing, Pointers,
                NoWildPointer, NoOrphans, Fresh, Up, Good, DBV, Busy, vars, mainVars,
                loopVars, flagVars, sockVars
  <2> QED
    BY <2>1, <2>2, <2>3
<1> QED
  BY <1>1, <1>2, PTL DEF Spec

\* No pointer is used that was never set, however the two threads overtake each other, in
\* an environment with zero memory, with an operator of DBVestibuleServer who waits for the
\* server to be up, and where no server fails to start.
THEOREM NoWildPointerHolds == Spec => []NoWildPointer
<1>1. SoundInv => NoWildPointer
  BY DEF SoundInv
<1> QED
  BY <1>1, SoundInvariant, PTL

\* No socket is deleted whose threads still run, if the three seconds are enough; and by
\* DBVestibuleServer, which waits for its event, in no case.
THEOREM NoOrphansHolds == Spec => []NoOrphans
<1>1. SoundInv => NoOrphans
  BY DEF SoundInv
<1> QED
  BY <1>1, SoundInvariant, PTL

===============================================================================
