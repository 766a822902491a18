# CYGameServer in TLA+

CYGameServer is a small game-server framework for Windows: a DLL (`CYSocket`) that
wraps an I/O completion port behind callbacks, a thread pool, a logging library, and
three programs on top, `GameServer`, `TestClientApp` and `DBVestibuleServer`. This directory holds
specifications of its parts, model-checked with TLC on small instances, and theorems
about them checked with TLAPS for every instance. `PROJECT.json` lists the runs, the
lines that each definition models, the hazards and the theorems.

Paths below are relative to `src/`. `SourceFile/` stands for
`MyGameServer/Dlls/CYSocket/SourceFile/`.

## 1. The system

| component | state it keeps | operations | who calls it |
|---|---|---|---|
| `CServerSocket` | `_running`, `_mapAllConnections`, `_queueMsgs`, `_nextConIndex`, the completion port | `Start`, `Close`, `Send`, `CloseSocket`, `OnNewConnection`, `InsertMsg`, `SwapQueMsg`, the two `DoTask`s | the application on the logic thread; the accept thread; the I/O workers |
| `CConnectionChannel` | `_socketId`, `_readBuffer` | `Send`, `OnRecvCompelet`, `OnSendCompelet`, `OnDisconnect`, `OnError` | workers, logic thread |
| `TcpAccepter` | listening socket, `_listenning` | `Bind`, `Listen`, `HandleRead` | `CServerSocket` |
| `CThreadQueue`, `CThread` | object queue, semaphore, abort event, `_running`, threads | `Create`, `InsertThreadWorkObj`, `Release`, the update thread, the workers | `CServerSocket`, `CClientSocket` |
| `LogicThreadMain` | events, pending functions, `mapClients` | `AddEvent`, `RemoveEvent`, `RunInLoop`, the loop | every thread; it calls the sinks |
| `CClientSocket` | one connection, `_rsaPassed`, `_queueMsgs` | `Start`, `Close`, `Send`, `InsertMsg`, its worker | the application on the logic thread |
| `CSocketSystem` | the server and the clients | `Create`, `Release`, `CreateServerSocket`, `CreateClientSocket` | the main thread, the logic thread |
| `Buffer` | a vector, a read and a write index | `write`, `retrieve`, `readInt`, `makeSpace` | all of the above |
| `COpensslEncrypter`, `..._Client` | keys | `Encrypter`, `Decrypter`, the handshake | `CServerSocket`, `CClientSocket` |
| `CLogToFileThread`, `CLogFile` | buffers of lines, the current file | `append`, the writer thread, `RollFile` | every thread |
| `TimerWheel` | ordered timers | `AddTimer`, `DelTimer`, `OnEvent` | the logic thread |
| `GameServer` | 1024 sinks, `opMode`, an event | `OnAccept`, `OnRecv`, `OnCloseConnect`, `Create`, `Release` | logic thread; main thread |
| `TestClientApp` | a client socket, `opMode`, an event | `OnConnect`, `OnCloseConnect`, `Create`, `Release` | logic thread; main thread |
| `DBVestibuleServer` | configuration, sink pool, database handles | `CIniFile`, `GetIdleSink`, `StartServer`, `CloseServer` | logic thread; main thread |

How they interact. The main thread asks for a start or a close through an event; the
logic thread waits for it and calls `Start` or `Close`. From then on the accept thread
creates connections, the workers take completions from the port, and both hand
messages (`Accepted`, `ReadBuff`, `Closed`) to the logic thread through
`_queueMsgs`. The logic thread turns them into callbacks. A callback may call back
into the server (`Send`, `CloseSocket`), which starts operations whose completions
arrive at the workers.

What is hard. Three kinds of threads share a connection that is kept alive by a raw
pointer in every completion; decisions are taken in one critical section and acted on
in another; `_running` is read by everyone without a lock; the order of
`Accepted`, `ReadBuff` and `Closed` is all that the application ever learns; the
byte stream is cut anywhere; shutdown joins threads that may still have work. The
`hazards` of `PROJECT.json` give each of these with its line.

What makes each component correct:

- server socket: no use of a freed connection, no failed assertion, the connection
  limit, a connection leaves only closed, every death is reported, the callbacks
  keep the order that `Session` states, and nothing is left to dispatch after `Close`;
- thread queue: no object lost or run twice, every object is started, `Release`
  returns and leaves no thread behind;
- framing: the messages taken out are those put in, in order, and the buffer stays
  small;
- logic thread: every pending function runs once, in order, on the logic thread; the
  vector of events belongs to one thread at a time; every event is served; every call
  returns;
- client socket: no `Send` before the handshake; keys, callbacks and deaths of one
  connection are not taken for those of the next, and a dead connection is given up;
- system and programs: no pointer is used that was never set, no socket is deleted
  under its threads, and a program that is told to end does;
- timer wheel: every timer fires when due, never before, and not after a `DelTimer` that
  finds it in the set;
- cipher loops: a message arrives as it was sent;
- logging: lines reach the file in order, each of them while the log runs, and those
  that `Stop` finds collected.

## 2. Modules

| module | models | extends / uses |
|---|---|---|
| `Session` | abstract: the callbacks an application may count on (`Common/ISocketSysterm.h`) | |
| `ServerSocket` | `CServerSocket.cpp`, `CConnectionChannel.cpp`, the server half of `LogicThreadMain.cpp`, the sinks of `GameServer.cpp` | `Session` by `INSTANCE` |
| `ThreadQueue` | `CThreadQueue.cpp`, `CThread::Stop` | |
| `Buffer` | the class `Buffer` as operators on a value | |
| `Framing` | `OnRecvCompelet` | `Buffer` |
| `ClientSession` | abstract: the callbacks of a client over its reconnects | |
| `ClientSocket` | `CClientSocket.cpp`, the client half of `LogicThreadMain.cpp`, the sink of `TestClientApp.cpp` | `ClientSession` by `INSTANCE` |
| `LogicThread` | the events, the pending functions and the release of `LogicThreadMain.cpp` | |
| `Lifecycle` | `CSocketSystem.cpp` with the main threads of the three programs; the sockets as objects in a state | |
| `TimerWheel` | `TimerWheel.cpp` | |
| `LogToFile` | `CLogToFileThread.cpp`, `CFile.cpp` | |
| `Cipher` | the loops of `COpensslEncrypter.cpp` and its twin, with `Send` and `InsertMsg` around them | |
| `ServerSocketProofs`, `ClientSocketProofs`, `ThreadQueueProofs`, `LogicThreadProofs`, `LifecycleProofs`, `TimerWheelProofs`, `LogToFileProofs` | theorems about the module of that name (section 6) | that module |
| `FramingProofs` | theorems about `Buffer`, `Framing` and `Cipher` | `Framing`, `Cipher` |
| `MCServerSocket`, `MCClientSocket`, `MCLogicThread`, `MCLifecycle` | symmetry sets, environments and small definitions for TLC | |
| `MCData` | one instance of `Framing`, `TimerWheel`, `LogToFile` and `Cipher`, which share nothing: a behaviour is one of one of them (`part`) | |

Types are commented at the `VARIABLES`. `ServerSocket` and `ThreadQueue` have a `TypeOK`
too, which their proofs need and the runs check.

### ServerSocket

One variable for each field of `CServerSocket` that decides anything, one program
counter for each thread: `apc` for the accept thread inside `OnNewConnection`,
`wpc[w]` for a worker inside `DoTask`, `lpc` for the logic thread inside `Close`. An
action is what a thread does between two points where another thread can interfere:
a critical section of `_mutex`, a system call, a read of `_running`. A connection
is its identifier; `sock[c]` is `open`, `fin` once the peer has closed it (it then reads
0 bytes and can still be sent to), `reset`, or `closed` by `closesocket`; `recv[c]` says
whether a `WSARecv` is under way, `sends[c]` how many `WSASend`s are, and `hd[c]` whether
its `IOCP_HANDLE_DATA` has been freed.

A completion is taken from the port in one step, with the raw pointer to the handle data,
and the handle data is used in later ones (`GetSend`, then `SendComplete`), so another
worker may delete it in between. `RemoveConnectionChannel` and the `delete` after it are
two steps (`RemoveChannel`, `DeleteHandle`; `AcceptRemove`, `AcceptFree`). `InsertMsg`
reads `_running` first and queues later: a caller that comes to it while the server runs
may find it closed or not, and one that has read `TRUE` queues its message even after
`Close` has begun (`InsertMsg` pushes whatever `_running` is, and may drop the message only
when it is down). Between a message's leaving the stream and its push other threads run
(`RecvGood`, then `InsertRead`).

A message is the connection, its kind, and for a `ReadBuff` its number in the stream of
the peer, so that order and loss can be seen and the bytes cannot.

A failed `assert`, or a read of a freed `IOCP_HANDLE_DATA`, sets `crash`, after
which nothing moves. The Debug build is the one modelled: `CSocketSystem::Create`
(`SourceFile/CSocketSystem.cpp:30`) does its work inside `assert`, so the Release build
would start no logic thread. The Debug heap overwrites freed memory, so that a read of
it ends the process.

The application is that of `GameServer.cpp`: the pool gives the first idle sink,
`OnRecv` closes the connection. `OnRecvCalls` lets `OnRecv` do less, or send, so
that the runs also cover other applications of the interface.

`app` and `seen` record what the application has been told. Under the mapping
`stat <- app, last <- seen, sinkOf <- mapClients` the server implements `Session`,
which the runs check as the property `SessionKept`.

`QuietClose` restricts the environment, not the code: with `TRUE`, no connection goes down
(`MayGoDown`) while one of its sends is between `WSASend` and the end of `OnSendCompelet`,
and what is sent after the peer's FIN fails (`WSASend`), as a send that the code posts then
completes or fails behind the 0-byte receive that deletes the handle data. With `FALSE`
there is no restriction: the server can crash (section 5), and the runs then show what
holds up to the crash.

### ThreadQueue

The owner's calls, the update thread and the workers, each with a program counter.
`stop` stands for the owner's own flag (`CServerSocket::_running`) that ends the
objects in `Looping`, which is how the server's objects behave: they loop until
`Close`. `Patient` restricts the owner to calling `Release` with an empty queue.
`Create` is one action, and `Undo` the release after it failed half way. The owner is one
thread, the logic thread, in both sockets: nobody clears `_running` while it inserts.

### Buffer and Framing

A `Buffer` is a record of its size, its cells and its two indexes; each method is an
operator with the method's name. `Framing` keeps the whole byte stream, and a
`WSARecv` delivers any chunk of it. One run of the loop in `OnRecvCompelet` is split
at each message. A refused length (not positive, or above `MSG_BUFF_LEN`) closes the
socket. `IntOf` and `BytesOf` are the two directions of the reinterpretation of four
bytes as an `int`; the instances use two cells of base four. All that the
proofs ask of `IntOf` is in `FramingAssumption`: whatever four bytes there are, it makes
an integer of them, and it is the inverse of `BytesOf`.

### ClientSocket

Built like `ServerSocket`, with one connection at a time and one worker. `Start` runs on
the logic thread and nothing of the client exists before it, so it is one action for each
way it ends: `StartRefused`, `StartDead` (`WSARecv` fails at once), `StartPending`,
`StartReady` (it completes at once) and `StartNoThread`. `Close` is two, because it joins
the worker in between. Connections are numbered by their `Start`; the code has no such
number, so a message left over from one connection is dispatched to the next, which
`ClosedOnce`, `SessionKept` and `KeysAreOwn` are about.

The variable `env` is chosen at the start and never changes. It says how a `Start` may
end, whether the application closes the client of its own accord, and whether a connection
may go down with a send under way and be sent to after the server's FIN. There is one
worker, so a completion and the use of its handle data are one step. One run so covers five environments, and each property
says in which of them it holds: `Plain` is the application of `TestClientApp.cpp`, which
closes and starts only from `OnCloseConnect`. For the refinement, the callbacks of an
environment to which the promise does not extend are hidden (`Told`).

### LogicThread

The other threads' calls are three steps: the call; the mutex, with the search for the
event; and the change, with which the mutex is given back. The loop has one step for each
critical section and each function. What a function or a sink may do to the loop is
`FuncCalls` and `OnEventCalls`.

`AddEvent` and `RemoveEvent` take no mutex when the loop calls them. From a function that is
sound, for the loop has the mutex (`NeverTorn`). From a sink it is two steps, the search
(`SinkScan`) and the change (`SinkAct`), between which another thread may come to the vector,
or be there already: an event is then pushed a second time, or another one erased
(`Effect`), or the vector is torn, after which nothing moves because what follows is
undefined (`Tears`). `races` counts such meetings up to `MaxRaces`. `NoEventTwice` holds
until the first; `StaleOnce` holds throughout. `AddEvent` and `RemoveEvent` do not read
`_running`, so a thread may call them until the mutex is closed.

`Loads` bounds the events and the functions of a behaviour together, so that one run has
behaviours with functions and few events, and behaviours with one event more than
`WaitForMultipleObjects` takes.

### Lifecycle

Three programs that are built alike, in one module. The main thread is a straight line of
steps; the logic thread runs its loop with one event. Six conditions make an environment:
the program, a debug or a release build, what the memory of a new `CSocketSystem` happens
to hold, an operator who waits for the server to be up, a logic thread that keeps within
the three seconds, and failures to start. The run takes all 96. A pointer is `wild` until
it is set, if nobody initialises it.

### TimerWheel, LogToFile, Cipher

`TimerWheel` has real time (`now`) beside the tick that starts over, so that "early" and
"due" have a meaning after the tick has started over; entities get any free address,
because the address decides the order of two timers of one tick. `OnTimer` may add and
delete timers, its own too. A timer that is added while a copy of it waits, by its own
`OnTimer` or by one called before it, has two entities from then on, and `DelTimer` deletes
one; a `DelTimer` does not find a timer whose copy waits. `DeletedIsSilent` is about the
other timers: `twice` and `silent` say which. The copies of `OnEvent` are the due entities in the order of
the set: the `i`th is the one with `i - 1` before it (`Nth`). `LogToFile` has one step for each critical section of the
mutex; a line is its number and its length, and rolling may or may not find a new second
or a new day. `Cipher` sends one message through the two loops; a cell of the ciphertext
names its block, so that what arrives can be compared with what was sent.

## 3. Runs

| run | checks | instance |
|---|---|---|
| `server_quiet` | `TypeOK`, `NoFault`, `RemovedIsClosed` | 2 workers, 2 connections, 1 sink, 2 messages each, every kind of message and callback |
| `server_game` | `ConnLimit`, `NeverRefused`, `NothingLeft`, `SessionKept` | 2 workers, limit 1, 1 sink, 2 connections accepted, 2 messages each, callbacks of `GameServer`, any send may be under way at a death (`QuietClose = FALSE`) |
| `server_live` | `Reported` | 2 workers, 1 connection, 2 sends, every kind of message and callback, `QuietClose = FALSE`, fair threads |
| `server_remove` | `RemoveFindsEntry` (violated) | limit 1 |
| `server_restart` | `StartFindsNoListener` (violated) | limit 1, 2 starts |
| `queue` | `TypeOK`, `Accounted`, `HandlesOutlive`, `TaskStarts`, `IdleReleaseEnds` | 2 workers, 3 objects, 2 lives of the pool, fair threads |
| `queue_release` | `ReleaseEnds` (violated) | 2 workers, 3 objects that loop |
| `client` | `NoFault`, `ClosedOnce`, `KeysAreOwn`, `SendsAfterHandshake`, `SessionKept`, `Recovers` | 2 starts, 2 messages each, 5 environments, fair threads |
| `logic` | `FuncsInOrder`, `NeverTorn`, `NoEventTwice`, `StaleOnce` | 2 callers, 2 events, 2 functions, every call from functions and sinks, 1 meeting of a sink with a thread |
| `logic_live` | `CallsReturn`, `FuncsRun`, `EventServed` | 1 caller, 2 events with 2 functions or 3 events with none, `MaxWait` 2, fair threads |
| `system` | `NoWildPointer`, `NoOrphans`, `ReleaseReturns` | 3 programs, 96 environments, fair threads |
| `data` | `StreamKept`, `MessagesInOrder`, `BufferBounded` (framing); `EntitiesOwned`, `NeverEarly`, `DeletedIsSilent`, `DueFires` (timers); `LinesInOrder`, `StopKeeps`, `AllWritten` (log); `ShortArrives` (cipher) | 3 messages of at most 3 bytes, chunks of at most 3, a buffer of 3 cells; 2 timers, 3 addresses, 4 ticks to the round; 2 loggers, 4 lines, buffers of 3, files of 4; messages of 1 to 6 cells, blocks of 2 |

What some of the passing runs show, in words:

- `server_game`: a death reported twice, a message that is queued while the server closes
  and a seed that fails before `Accepted` is queued do not reach the application out of
  order. `Accepted` comes first because the accept thread queues it and a connection
  without a sink is told nothing; messages come in order because the next `WSARecv` is
  posted only when the last has been handled.
- `client`: over reconnects that share one message queue, one set of keys and one object,
  nothing of the old connection is taken for the new one, as long as the application
  closes from `OnCloseConnect` only; and a connection that dies is always followed by the
  next `Start`.
- `logic`: a function may do to the vector what it likes, because the loop holds the
  mutex; a sink may not (no property holds across its races); a sink may be called once more after `RemoveEvent` has returned, and not twice.
- `system`: the three seconds are all that keeps `GameServer` from deleting a socket
  whose threads run (`NoOrphans` holds if they were enough, and without condition for
  DBVestibuleServer). A close that overtakes the start is harmless in `GameServer` and
  `TestClientApp`, and is not in DBVestibuleServer, which closes a pointer it never set.
- `data`: see section 1 for each part.

Why the bounds are enough. Two workers already race on everything a worker shares; a
third only repeats the race. Two live connections, in
`server_quiet`, tell a connection from another. Two accepted ones with a limit of one, in
`server_game`, reach the limit, free a place and use it again while the old connection is
still being reported; two messages of each can come out of order. One send under way is
enough for two failed completions of one connection, and `server_live` has two. In `queue` there are more objects than
workers, one of them looping, and the semaphore's maximum is two, so that it is reached.
Two starts of a client are an old and a new connection; a third adds a middle one, whose
leftovers are gone before it is. Two callers are one inside and one waiting; two events
are one that starves and one that is starved, and three are more than `MaxWait`, which is
two, so that the vector is full and more than full. In `logic` one meeting of a sink with
another thread is enough to bring an event into the vector twice, and for `RemoveEvent` to
meet it so. The clock of the timers goes once round. A log buffer holds one or two
lines, so that buffers fill, wait in `_vecBuff` and roll the file. Messages of up to six
cells are up to four blocks, so that the loops go wrong beyond two. In framing a buffer
of three cells has to move its contents down and to grow several times in a run, and the
chunks cut every message at every byte.

Bounds: `MaxAccepts`, `MaxFrames`, `MaxSends`, `MaxStarts` (`ServerSocket`,
`ClientSocket`), `MaxCreates`, `SemMax` (`ThreadQueue`), `MaxFuncs`, `Loads`, `MaxRaces` (`LogicThread`),
`MaxSent` (`Framing`), `MaxTick` (`TimerWheel`), `MaxLines` (`LogToFile`). `SemMax` is
`LONG_MAX` in the code, `MaxWait` 64, `Wrap` 2^32. The bounds cut off behaviours, they
change none.

`CHECK_DEADLOCK FALSE` is set in all configurations because each system really may
stop: after the last close, after a crash, or when the bounded environment has
nothing left to send.

Symmetry: workers run the same loop, so the safety runs of the server exchange them freely;
so does `logic` callers and events. The runs with liveness properties, `queue` among them,
use none.

## 4. Fairness

`FairSpec` of `ServerSocket` asks for weak fairness of each thread: Windows gives
every runnable thread its time. It asks for strong fairness of taking a failed receive
from the port: completions are taken in order, so one that waits is taken after
finitely many others, but in the model it competes with the completions of other
connections. Nothing is asked of the peer, of `Close` or of `Start`.

`FairSpec` of `ThreadQueue` asks for weak fairness of the owner's steps inside
`Release`, of the update thread and of each worker. A spinning update thread counts
the semaphore up again and again, so no strong fairness is needed.

`FairSpec` of `ClientSocket` asks the same as that of `ServerSocket`. That the pool's
thread takes its object is asked only while nobody is in `Close`: a pool that is being
released may leave it (finding `queue_release`). That a worker sees `_running` go down is
not a property here: `GetQueuedCompletionStatus` has a timeout of 10 ms
(`CClientSocket.cpp:19`).

`FairSpec` of `LogicThread` asks for strong fairness of the loop and of each `Lock`: a
Windows mutex is given to its waiters in the order in which they came, so nobody waits for
ever for a mutex that is free again and again. The callers' other steps are weakly fair.
Nobody has to call or to set an event.

`FairSpec` of `Lifecycle` asks for weak fairness of both threads; the operator need not
press a key. `TimerFairness` asks that the event of the wheel is set again and again and
`OnTimer` returns; `LogFairness` that the log thread runs on, the wait for
`_readyEvent` being one with a timeout. In `MCData` both hold for the behaviours of their
own component.

## 5. Findings

- `server_remove`: when a connection goes down with its receive and a send under way, both
  fail, and each leads to `OnDisconnect` or `OnError`, `RemoveConnectionChannel` and
  `delete iocpHandleData`: in two workers (`CServerSocket.cpp:60-64`, `97-107`), or in the
  accept thread, whose first `WSARecv` fails (`CServerSocket.cpp:470-474`), and a worker that is
  given the failed send of the seed. The second to come finds no entry (the assertion of
  line 380 fails), or reads freed memory if the first has already deleted the handle data.
  The trace is the one with the accept thread, which is the shortest.
- `server_restart`: `Close` leaves `_listenning` set, so a second `Start` fails the
  assertion of `CServerSocket.cpp:165`.
- `queue_release`: `ExistAllThread` says that it waits for the work to be done
  (`CThreadQueue.cpp:95`), but `Release` has told the workers and the update thread to
  leave before, so with an object left in the queue it spins for ever.

Met while modelling, built into the models as the code does it, and excepted by the
properties that would fail:

- A client whose first `WSARecv` completes at once is never told `Accepted` and has no
  channel: it receives and never sends (`CClientSocket.cpp:165-185`). `SessionKept` of
  `ClientSocket` leaves the outcome `ready` out.
- The double death of `server_remove` is there in the client too
  (`CClientSocket.cpp:27-43`), and so is a send that is posted after the peer's FIN and
  completes behind the 0-byte receive, in both; the two `NoFault` ask for a quiet
  environment.
- `TestClientApp` closes the client from `OnEvent` and sets `g_clientSocket` to NULL
  (`TestClientApp.cpp:181-187`), but what is left in the queue is still dispatched: a
  `Closed` among it leads `OnCloseConnect` through the NULL pointer (line 48). `NoFault` of
  `ClientSocket` asks for `Plain`.
- The application says that it is reconnecting (`TestClientApp.cpp:47`), but if the
  `Start` that follows is refused, nothing is queued and nobody tries again.
- `CSocketSystem::Create` works inside `assert` (`CSocketSystem.cpp:30-31`), so a release
  build has no logic thread; `_serverSocket` is read before it is set
  (`CSocketSystem.cpp:69`), in every round of the logic thread too.
- A DBVestibuleServer that fails to start, or is ended before it has started, calls
  `Close` through a pointer that was never set (`CVestibuleServer.cpp:79`).
- `AddEvent` and `RemoveEvent` called by a sink change the vector without the mutex
  (`LogicThreadMain.cpp:79-96`): an event may then be in the vector twice, for which
  `WaitForMultipleObjects` fails. `AddEvent` does not refuse a 65th event either, and then
  no event is served (`LogicThreadMain.cpp:203`); `EventServed` is about up to 64.
- `TimerWheel::OnEvent` asserts that no timer is due in the tick it is called in
  (`TimerWheel.cpp:30`). A timer whose due tick lies beyond the end of the clock is called
  at once. A timer that is added in an `OnTimer`, its own or that of a timer called before
  it, while its copy waits, has two entities, and one that is deleted then is called all the
  same.
- The third block of a message, and all after it, leave their places
  (`COpensslEncrypter.cpp:51-52`): a message arrives whole only if it fits in two blocks
  with its length, 28 bytes. The greeting of `TestClientApp` has 12.
- Lines logged while the log thread writes its last buffers are lost by `Stop`
  (`CLogToFileThread.cpp:79`).

## 6. Proofs

Every type invariant, safety invariant and action property that a passing run checks, and
both refinements, are theorems of the specification: for every value of the constants
that its `ASSUME` allows (and the hypotheses on them given below), so for any number of
threads, connections, events, timers and lines and for any bound. The runs show the same on small instances, where a wrong
statement is cheap to see; the strengthened invariants below were checked by TLC before
they were proved.

`ServerSocketProofs`, from `ServerAssumption` alone (`QuietClose` or not):

- `TypeCorrect`: `Spec => []TypeOK`. `TypeOK` is inductive. Each of its six parts has
  a frame lemma for the steps that leave it alone, and each helper (`Check`, `Touch`,
  `InsertMsg`, `WSASend`) a lemma for what it assigns.
- `ConnLimitHolds`: `Spec => []ConnLimit`. The limit alone is not inductive: between
  the count and the insertion the accept thread acts on a number that may be out of
  date. `CountCovers` says that it is out of date in one direction only, because the
  accept thread alone inserts: while it is about to create a connection, the map has
  no more entries than it counted.
- `RemovedIsClosedHolds`: `Spec => RemovedIsClosed`, an action property. It needs
  `RemoversClosed` (a thread about to remove a connection has closed its socket) and,
  since a socket is opened again only for a new identifier, `IdsFresh` (an identifier
  not yet given out belongs to no socket, no operation and no worker).

Their conjunction is `IndInv`. Also without `QuietClose`:

- `NothingLeftHolds`: `Spec => []NothingLeft`. A worker that has read `_running` before `Close`
  may push after it, but it is joined before the queue is emptied; `StageInv` says that no
  thread is anywhere when the logic thread is past the join.
- `SessionRefined`: `Spec => SessionKept`, the refinement of `Session`, action by action: a
  step maps to a callback or to a stutter. `OneReader` says that the stream of a connection
  is read by one worker at a time, `QueueInv` what of each connection is still on its way to
  the logic thread and in which order, and `SinkInv` that a sink is idle if and only if no
  connection has it.

The rest of the module assumes `QuietClose` (without it the properties are false: finding
`server_remove`):

- `NoFaultHolds`: `QuietClose /\ MaxStarts = 1 => (Spec => []NoFault)`, where a second
  start is the finding `server_restart`. `HandInv` adds that a connection is in one hand
  at a time, that of the accept thread, of one worker or of its `WSARecv`, and that
  whoever has it in hand finds its entry and its data.
- `NeverRefusedHolds`: `QuietClose /\ MaxConn <= PoolSize => (Spec => []NeverRefused)`.
  `SinksCovered` says that every connection that will have a sink is in the map, so that
  those with a sink and those announced are at most `MaxConn`.

`ClientSocketProofs`, from `ClientAssumption`, for every set of environments; each part of
the invariant has the hypothesis on the environment that its property has:

- `ClosedOnceHolds`, in all environments: `DeathOnce` counts a death in the queue and in
  what the application was told, and `Living` says who may still announce one.
- `KeysAreOwnHolds` and the action property `SendsAfterHandshakeHolds`, by `PlainInv`: if
  the application closes from `OnCloseConnect` only, `Closed` is the last message of a
  connection, so nothing of it is in the queue at the next `Start`.
- `NoFaultHolds`, by `QuietInv`, as in the server.
- `SessionRefined`: `Spec => SessionKept`, the refinement of `ClientSession`. `OrderInv`
  says that the messages in the queue continue where the application is.

`ThreadQueueProofs`, from `ThreadQueueAssumption`:

- `TypeCorrect` and `HandlesOutliveThreads`, together: `TypeOK` needs
  `HandlesOutlive`, because `Create` starts workers with no object in hand only if none
  is left from before, and `HandlesOutlive` needs `JoinedInOrder`, that the update
  thread has ended when the workers are joined.
- `WorkAccounted`: `Spec => []Accounted`, no object lost or run twice. A worker takes
  the head of a queue without repetitions, so head and tail are disjoint.

`LogicThreadProofs`, from `LogicAssumption`, whatever functions and sinks call:

- `NeverTornHolds`: `Spec => []NeverTorn`. The loop changes the vector without asking for
  the mutex; that is safe from a function because `MutexOwned` says that the loop owns the
  mutex as long as it runs functions, and that whoever is in a call owns it too.
- `FuncsInOrderHolds`: `Spec => []FuncsInOrder`, no function lost, run twice or out of
  order. It needs that the index of the list is 1 outside `processPendingFuncs`, and small
  lemmas on what is left of a list behind an index.
- `NoEventTwiceHolds`: what a search has found is what is there when the vector is changed,
  for whoever has the mutex, as long as no sink has met another thread at the vector.
- `StaleOnceHolds`, across such meetings too: an event in the loop's copy that is not in the
  vector has not been served since its removal (`CopyInv`).

`FramingProofs`, from `BufferAssumption`, `FramingAssumption` and `CipherAssumption`:

- Lemmas on `retrieve`, growth, `makeSpace` and `write`: what each does to `Contents` and
  to the indexes.
- `StreamKeptHolds`, with the buffer well formed (`StreamInv`).
- `BufferBoundedHolds` needs `WaitsForMore`: what the loop leaves is less than a message.
- `MessagesInOrderHolds` needs the places in the stream at which the messages end
  (`Parsed`): the bytes taken out end at one of them, the messages before it have come
  out, and so the length that is read next is that of the next message.
- `ShortArrivesHolds`: `CipherInv` says, for a message of at most two blocks, which block
  is where after each round of each loop.

`TimerWheelProofs`, from `TimerAssumption`: `EntitiesOwnedHolds` (`OwnInv` is inductive),
`NeverEarlyHolds` (`Timely`: until the clock starts over, the tick of an entity is its
time, and the copies of `OnEvent` are due) and `DeletedIsSilentHolds` (`Silence`: a timer
that was never added while a copy of it waited has one entity at most, and none if it was
deleted while no copy waited).

`LogToFileProofs`, from `LogAssumption`: `LinesInOrderHolds`, and `StopKeepsHolds` with
`Owing`, how far the lines that `Stop` is owed have come for each place of the log thread.
Both need that `FlattenSeq` of two lists together is the one of each, which is an
induction.

`LifecycleProofs`, from `LifecycleAssumption`: `NoWildPointerHolds` and `NoOrphansHolds`.
There are finitely many states here; the theorem adds the argument. `Sound` says, for
every place of the main thread, how many events are under way, which socket there is, and
what the close has still to do.

On induction: the library's theorems with an operator parameter cannot be used, but an
induction over numbers can be stated with a set in the place of the predicate.
`LogToFileProofs` proves it from the least-number principle (`WFMin` for `<` on `Nat`),
and unfolds the recursive function inside `FlattenSeq` with it.

Only model-checked: liveness, which is out of the prover's reach (`Reported`, `TaskStarts`,
`IdleReleaseEnds`, `Recovers`, `CallsReturn`, `FuncsRun`, `EventServed`,
`ReleaseReturns`, `DueFires`, `AllWritten`); and the three findings, which are
counterexamples.

## 7. Not modelled

- The numbers of sockets: Windows may give the number of a closed socket to a new one,
  and `closesocket` is called more than once for a connection. Each connection has its
  own socket here.
- The bytes of a message in `ServerSocket` and `ClientSocket`, and its encryption: there a
  message can be decrypted or not, whatever its content. `Framing` and `Cipher` have them.
- Failures of `CreateMutex`, `CreateEvent`, `new` and the like, except the creation of
  a worker thread and the binding of a socket to the port.
- Parts of `Buffer` that reassembly does not use: `Resize`, the constructor that moves,
  `FixedBuffer`.
- The formatting of log lines (`CLogStream`, `CLogger`, `CDyLog`): data without state.
- Lines longer than a log buffer, and a log that is stopped while a thread is between its
  test of `_running` and the mutex: `LogToFile` closes the mutex when nobody logs any more.
- The configuration of DBVestibuleServer: `CIniFile` reads a file once, before any thread
  runs. Its sink pool: `OnAccept` is empty and nobody calls `GetIdleSink` (which would
  hand out the second sink, `CConnectionSinkPool.cpp:63`). Its database: an outcome in
  `Lifecycle`.
- RSA, AES and the MySQL connector. Their vendored headers are most of the lines of the
  repository (about 38000 of 44000) and hold declarations only.
- The wrappers of addresses and socket options, and the trial programs `TestDll` and
  `TestCppApp`.

## 8. Plan

Done: the models of sections 2 and 3, and theorems for all that the runs check except
liveness.

To do:

1. Proofs of what liveness rests on: that a thread that waits is waited for by nobody it
   waits for (`IdleReleaseEnds`, `ReleaseReturns`), as safety invariants.
2. `NoFault` of `ServerSocket` for later starts, up to the assertion of `server_restart`.
3. A table of socket handles, for the double `closesocket` (hazard at
   `CConnectionChannel.cpp:60`).
