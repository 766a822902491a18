----------------------------- MODULE ClientSocket -----------------------------
(***************************************************************************)
(* The client side of CYSocket, CClientSocket, with the application of     *)
(* TestClientApp, which sends a greeting from OnConnect and starts again   *)
(* from OnCloseConnect.                                                    *)
(*                                                                         *)
(* The logic thread runs the application: it calls Start, Close and Send   *)
(* and dispatches the messages.  One worker takes the completions of the   *)
(* one connection.  The first message of the server is the handshake: it   *)
(* carries the keys, and Send does nothing before it.                      *)
(*                                                                         *)
(* Close gives up the completion port with everything that is under way    *)
(* there, so all but the messages belongs to the connection of the last    *)
(* Start.  A message carries the number of its Start; the code has no such *)
(* number, the properties need it.                                         *)
(***************************************************************************)
EXTENDS Naturals, Sequences

CONSTANTS MaxStarts,    \* bound: calls of Start
          MaxFrames,    \* bound: well-formed messages of one connection after the first
          Envs          \* what may happen around the client, a set of environments

StartOutcomes == {"refused", "dead", "pending", "ready", "nothread"}

\* "final": it closes the client and drops it; "restart": it closes and starts it.
Closings == {"never", "final", "restart"}

\* An environment says how a Start may end, what the application does of itself, and
\* whether it is quiet: no send is between WSASend and the end of OnSendCompelet when the
\* connection goes down, and none is begun after the server's FIN.
Environment == [outcomes : SUBSET StartOutcomes, closes : Closings, quiet : BOOLEAN]

ASSUME ClientAssumption ==
    /\ MaxStarts \in Nat \ {0} /\ MaxFrames \in Nat
    /\ Envs \subseteq Environment

Conns == 1 .. MaxStarts

Msg == [conn  : Conns,
        state : {"Accepted", "ReadBuff", "Closed"},
        seq   : Nat]             \* number of a ReadBuff, 0 for the handshake

VARIABLES
    env,         \* the environment; it does not change
    running,     \* _running
    rsaPassed,   \* _rsaPassed
    chan,        \* whether _conChannelPtr is set
    starts,      \* calls of Start so far: the number of the last one
    lpc,         \* logic thread: in its loop, or where it is in a callback
    after,       \* what follows the Close that it is in
    attached,    \* g_clientSocket # NULL
    wpc,         \* the worker: where it is in DoTask
    sock,        \* the socket, seen from this end
    recv,        \* whether its WSARecv is under way
    sends,       \* its WSASends not yet taken from the port
    hd,          \* its IOCP_HANDLE_DATA
    got,         \* well-formed messages taken from its stream
    queueMsgs,   \* _queueMsgs
    queMsgs,     \* queMsgs of threadLoopFun
    crash,       \* "none", or what ended the process
    app,         \* history: what the application was told of a connection
    seen         \* history: number of the last message OnRecv was given

logicVars  == <<lpc, after, attached>>
opVars     == <<sock, recv, sends, hd, got>>
appVars    == <<app, seen>>
vars == <<running, rsaPassed, chan, starts, logicVars, wpc, opVars, queueMsgs, queMsgs,
          crash, appVars>>       \* all but env

Init ==
    /\ env \in Envs
    /\ running = FALSE /\ rsaPassed = FALSE /\ chan = FALSE /\ starts = 0
    /\ lpc = "start" /\ after = "loop" /\ attached = TRUE
    /\ wpc = "off"
    /\ sock = "none" /\ recv = FALSE /\ sends = 0 /\ hd = "none" /\ got = 0
    /\ queueMsgs = <<>> /\ queMsgs = <<>>
    /\ crash = "none"
    /\ app = [c \in Conns |-> "none"] /\ seen = [c \in Conns |-> 0]

Alive == crash = "none"

Queue(conn, state, seq) ==
    queueMsgs' = Append(queueMsgs, [conn |-> conn, state |-> state, seq |-> seq])

\* Use of the handle data of the connection.
Touch == crash' = IF hd = "live" THEN crash ELSE "freed"

\* A call of the application through g_clientSocket.
CallClient == crash' = IF attached THEN crash ELSE "null"

MayGoDown == env.quiet => sends = 0

\* The socket is of no more use: it was reset, or closed at this end.
Down == sock \in {"reset", "closed"}

\* What CConnectionChannel::Send leaves under way, n being so already.  WSASend may
\* always fail at once and does so on a socket that is down; after the server's FIN it
\* still succeeds.
WSASend(n) ==
    \/ sends' = n
    \/ /\ sock = "open" \/ (sock = "fin" /\ ~env.quiet)
       /\ sends' = n + 1

-------------------------------------------------------------------------------
(* The logic thread: Start, one action for each way it ends *)

Starting(outcome) ==
    /\ Alive /\ lpc = "start" /\ ~running
    /\ starts < MaxStarts
    /\ outcome \in env.outcomes
    /\ starts' = starts + 1
    /\ lpc' = "loop"
    /\ UNCHANGED <<rsaPassed, after, attached, queMsgs, crash, appVars>>

\* No port, no socket or no connection: Start returns false, and nothing is queued.
StartRefused ==
    /\ Starting("refused")
    /\ UNCHANGED <<running, chan, wpc, opVars, queueMsgs>>

\* WSARecv fails, as it does when the connection is not there yet: Closed is queued,
\* and Start returns false.
StartDead ==
    /\ Starting("dead")
    /\ Queue(starts + 1, "Closed", 0)
    /\ UNCHANGED <<running, chan, wpc, opVars>>

\* The connection is up, its WSARecv is under way, and the worker has its object.
Up ==
    /\ running' = TRUE
    /\ sock' = "open" /\ recv' = TRUE /\ sends' = 0 /\ hd' = "live" /\ got' = 0
    /\ wpc' = "queued"

\* WSARecv is pending: the connection is announced.
StartPending ==
    /\ Starting("pending")
    /\ Up
    /\ chan' = TRUE
    /\ Queue(starts + 1, "Accepted", 0)

\* WSARecv has completed already: it is not.
StartReady ==
    /\ Starting("ready")
    /\ Up
    /\ UNCHANGED <<chan, queueMsgs>>

\* The thread of the worker cannot be created; Accepted, if WSARecv was pending, stays
\* queued.
StartNoThread ==
    /\ Starting("nothread")
    /\ Queue(starts + 1, "Accepted", 0) \/ UNCHANGED queueMsgs
    /\ chan' = FALSE
    /\ UNCHANGED <<running, wpc, opVars>>

-------------------------------------------------------------------------------
(* The logic thread: Close *)

\* Mutant: the handshake is not forgotten.
MutClose ==
    /\ Alive /\ lpc = "close"
    /\ running' = FALSE
    /\ lpc' = IF running THEN "joining" ELSE after
    /\ UNCHANGED <<rsaPassed, chan, starts, after, attached, wpc, opVars, queueMsgs,
                   queMsgs, crash, appVars>>

\* The flags go down first; a client that does not run is left as it is.
Close ==
    /\ Alive /\ lpc = "close"
    /\ IF running
       THEN running' = FALSE /\ rsaPassed' = FALSE /\ lpc' = "joining"
       ELSE lpc' = after /\ UNCHANGED <<running, rsaPassed>>
    /\ UNCHANGED <<chan, starts, after, attached, wpc, opVars, queueMsgs, queMsgs,
                   crash, appVars>>

\* Then the worker is joined, and the port, the mutex and the socket are closed.  The
\* messages are left in _queueMsgs.
CloseDone ==
    /\ Alive /\ lpc = "joining" /\ wpc = "off"
    /\ chan' = FALSE
    /\ sock' = "none" /\ recv' = FALSE /\ sends' = 0 /\ hd' = "none"
    /\ lpc' = after
    /\ UNCHANGED <<running, rsaPassed, starts, after, attached, wpc, got, queueMsgs,
                   queMsgs, crash, appVars>>

\* The application closes the client from OnEvent.
AppClose ==
    /\ Alive /\ lpc = "loop" /\ queMsgs = <<>>
    /\ env.closes # "never" /\ attached
    /\ lpc' = "close"
    /\ after' = IF env.closes = "final" THEN "loop" ELSE "start"
    /\ attached' = (env.closes # "final")
    /\ UNCHANGED <<running, rsaPassed, chan, starts, wpc, opVars, queueMsgs, queMsgs,
                   crash, appVars>>

-------------------------------------------------------------------------------
(* The worker *)

\* The pool's thread takes its object.
TakeObject ==
    /\ Alive /\ wpc = "queued"
    /\ wpc' = "get"
    /\ UNCHANGED <<running, rsaPassed, chan, starts, logicVars, opVars, queueMsgs,
                   queMsgs, crash, appVars>>

WorkerStop ==
    /\ Alive /\ wpc = "get" /\ ~running
    /\ wpc' = "off"
    /\ UNCHANGED <<running, rsaPassed, chan, starts, logicVars, opVars, queueMsgs,
                   queMsgs, crash, appVars>>

\* A completion leads the worker to the step pc.
Get(pc) ==
    /\ Alive /\ wpc = "get" /\ running
    /\ wpc' = pc
    /\ Touch
    /\ UNCHANGED <<running, rsaPassed, chan, starts, logicVars, sock, hd, got,
                   queueMsgs, queMsgs, appVars>>

\* The WSARecv completes with data.
GetRecv ==
    /\ recv /\ got <= MaxFrames
    /\ Get("recv")
    /\ recv' = FALSE
    /\ UNCHANGED sends

\* It completes with no byte, or with an error.
GetDeadRecv ==
    /\ recv /\ sock # "open"
    /\ Get("dead")
    /\ recv' = FALSE
    /\ UNCHANGED sends

\* A WSASend completes: OnSendCompelet of all, or of a part, and then the rest is sent.
\* There is no other worker that could come in between.
GetSend ==
    /\ sends > 0
    /\ Get("get")
    /\ WSASend(sends - 1)
    /\ UNCHANGED recv

\* A WSASend fails with its socket.
GetDeadSend ==
    /\ sends > 0 /\ Down
    /\ Get("dead")
    /\ sends' = sends - 1
    /\ UNCHANGED recv

\* The worker goes on to the step pc, and uses the handle data.
Step(from, pc) ==
    /\ Alive /\ wpc = from
    /\ wpc' = pc
    /\ Touch
    /\ UNCHANGED <<chan, starts, logicVars, queMsgs, appVars>>

\* OnRecvCompelet finds a whole message; InsertMsg drops it if the client was closed.
RecvMessage ==
    /\ Step("recv", IF running THEN "insert" ELSE "recv")
    /\ got <= MaxFrames
    /\ got' = got + 1
    /\ UNCHANGED <<running, rsaPassed, sock, recv, sends, hd, queueMsgs>>

\* InsertMsg decrypts it and queues it (under the keys of an earlier connection a
\* handshake cannot be decrypted and is dropped)...
InsertMsg ==
    /\ Step("insert", IF rsaPassed THEN "recv" ELSE "rsa")
    /\ IF rsaPassed /\ got > 1
       THEN Queue(starts, "ReadBuff", got - 1)
       ELSE UNCHANGED queueMsgs
    /\ UNCHANGED <<running, rsaPassed, opVars>>

\* ... or takes the keys from it, if there are none yet.
SetRsaKey ==
    /\ Step("rsa", "recv")
    /\ rsaPassed' = TRUE
    /\ UNCHANGED <<running, opVars, queueMsgs>>

\* A message that cannot be decrypted is dropped, which changes nothing; an impossible
\* length closes the socket.
RecvMalformed ==
    /\ Step("recv", "post")
    /\ MayGoDown
    /\ sock' = "closed"
    /\ UNCHANGED <<running, rsaPassed, recv, sends, hd, got, queueMsgs>>

RecvDone ==
    /\ Step("recv", "post")
    /\ UNCHANGED <<running, rsaPassed, opVars, queueMsgs>>

\* The next WSARecv is under way...
PostRecv ==
    /\ sock # "closed"
    /\ Step("post", "get")
    /\ recv' = TRUE
    /\ UNCHANGED <<running, rsaPassed, sock, sends, hd, got, queueMsgs>>

\* Mutant: the failure is only logged.
MutPostRecvFails ==
    /\ Down
    /\ Step("post", "get")
    /\ UNCHANGED <<running, rsaPassed, opVars, queueMsgs>>

\* ... or fails at once.
PostRecvFails ==
    /\ Down
    /\ Step("post", "dead")
    /\ UNCHANGED <<running, rsaPassed, opVars, queueMsgs>>

\* OnDisconnect and OnError.
OnDisconnect ==
    /\ Step("dead", "delete")
    /\ sock' = "closed"
    /\ IF running THEN Queue(starts, "Closed", 0) ELSE UNCHANGED queueMsgs
    /\ UNCHANGED <<running, rsaPassed, recv, sends, hd, got>>

\* Mutant: the next WSARecv is posted after a failure, too.
MutDeleteHandle ==
    /\ Step("delete", "post")
    /\ hd' = "freed"
    /\ UNCHANGED <<running, rsaPassed, sock, recv, sends, got, queueMsgs>>

\* Mutant: only the data of the completion is deleted.
MutKeepHandle ==
    /\ Step("delete", "get")
    /\ UNCHANGED <<running, rsaPassed, opVars, queueMsgs>>

DeleteHandle ==
    /\ Step("delete", "get")
    /\ hd' = "freed"
    /\ UNCHANGED <<running, rsaPassed, sock, recv, sends, got, queueMsgs>>

-------------------------------------------------------------------------------
(* The logic thread: processClientMsgss, whether the client runs or not *)

\* Mutant: the messages are copied out and not taken out.
MutSwapQueMsg ==
    /\ Alive /\ lpc = "loop" /\ queMsgs = <<>>
    /\ queueMsgs # <<>>
    /\ queMsgs' = queueMsgs
    /\ UNCHANGED <<running, rsaPassed, chan, starts, logicVars, wpc, opVars, queueMsgs,
                   crash, appVars>>

SwapQueMsg ==
    /\ Alive /\ lpc = "loop" /\ queMsgs = <<>>
    /\ queueMsgs # <<>>
    /\ queMsgs' = queueMsgs
    /\ queueMsgs' = <<>>
    /\ UNCHANGED <<running, rsaPassed, chan, starts, logicVars, wpc, opVars, crash,
                   appVars>>

Dispatch(state) ==
    /\ Alive /\ lpc = "loop"
    /\ queMsgs # <<>> /\ Head(queMsgs).state = state
    /\ queMsgs' = Tail(queMsgs)
    /\ UNCHANGED <<running, rsaPassed, chan, starts, attached, wpc, opVars, queueMsgs>>

\* OnConnect sleeps for three seconds...
OnConnect ==
    /\ Dispatch("Accepted")
    /\ lpc' = "slept"
    /\ app' = [app EXCEPT ![Head(queMsgs).conn] = "open"]
    /\ UNCHANGED <<after, crash, seen>>

\* Mutant: Send does not ask for the handshake.
MutMaySend == chan

\* The conditions under which Send comes to its WSASend.
MaySend == rsaPassed /\ chan

\* ... and then sends.
SendHello ==
    /\ Alive /\ lpc = "slept"
    /\ lpc' = "loop"
    /\ CallClient
    /\ IF MaySend THEN WSASend(sends) ELSE UNCHANGED sends
    /\ UNCHANGED <<running, rsaPassed, chan, starts, after, attached, wpc, sock, recv,
                   hd, got, queueMsgs, queMsgs, appVars>>

\* OnCloseConnect closes the client and starts it again.
OnCloseConnect ==
    /\ Dispatch("Closed")
    /\ CallClient
    /\ lpc' = "close" /\ after' = "start"
    /\ app' = [app EXCEPT ![Head(queMsgs).conn] = "closed"]
    /\ UNCHANGED seen

OnRecv ==
    /\ Dispatch("ReadBuff")
    /\ seen' = [seen EXCEPT ![Head(queMsgs).conn] = Head(queMsgs).seq]
    /\ UNCHANGED <<lpc, after, crash, app>>

-------------------------------------------------------------------------------
\* The server closes the connection: it can still be sent to.
PeerClose ==
    /\ Alive /\ sock = "open" /\ MayGoDown
    /\ sock' = "fin"
    /\ UNCHANGED <<running, rsaPassed, chan, starts, logicVars, wpc, recv, sends, hd,
                   got, queueMsgs, queMsgs, crash, appVars>>

\* The server resets the connection, or the network loses it.
PeerReset ==
    /\ Alive /\ sock \in {"open", "fin"} /\ MayGoDown
    /\ sock' = "reset"
    /\ UNCHANGED <<running, rsaPassed, chan, starts, logicVars, wpc, recv, sends, hd,
                   got, queueMsgs, queMsgs, crash, appVars>>

Start == StartRefused \/ StartDead \/ StartPending \/ StartReady \/ StartNoThread

LogicStep ==
    \/ Start \/ Close \/ CloseDone
    \/ SwapQueMsg \/ OnConnect \/ SendHello \/ OnCloseConnect \/ OnRecv

WorkerStep ==
    \/ WorkerStop
    \/ RecvMessage \/ InsertMsg \/ SetRsaKey \/ RecvMalformed \/ RecvDone
    \/ PostRecv \/ PostRecvFails \/ OnDisconnect \/ DeleteHandle

GetStep == GetRecv \/ GetDeadRecv \/ GetSend \/ GetDeadSend

Next ==
    /\ \/ LogicStep \/ AppClose \/ TakeObject \/ WorkerStep \/ GetStep
       \/ PeerClose \/ PeerReset
    /\ UNCHANGED env

Spec == Init /\ [][Next]_<<env, vars>>

\* Both threads run on.  What a dead socket has received is finite, so its WSARecv
\* fails sooner or later.  A pool that is being released may leave its object where it
\* is (ThreadQueue says when).
Fairness ==
    /\ WF_vars(LogicStep) /\ WF_vars(WorkerStep)
    /\ WF_vars(TakeObject /\ lpc # "joining")
    /\ SF_vars(GetDeadRecv)

FairSpec == Spec /\ Fairness

-------------------------------------------------------------------------------
(* Properties *)

\* The application closes the client from OnCloseConnect only.
Plain == env.closes = "never"

\* As long as no send is under way when the connection goes down, none is posted
\* after the server's FIN, and the application closes the client from
\* OnCloseConnect only, no completion finds its handle data freed, over any number
\* of reconnects.
NoFault == Plain /\ env.quiet => crash = "none"

\* The messages under way that report the death of c.
Deaths(c) == {i \in 1 .. Len(queMsgs \o queueMsgs) :
                 LET m == (queMsgs \o queueMsgs)[i]
                 IN m.conn = c /\ m.state = "Closed"}

\* Whatever fails and whenever the application closes and starts the client, the death
\* of a connection is announced at most once: the second of two failed completions
\* would take down the connection of the next Start.
ClosedOnce ==
    \A c \in Conns : \A i, j \in Deaths(c) : i = j /\ app[c] # "closed"

\* While the client runs, its keys are those of its own connection: a reconnect never
\* encrypts or decrypts with what the handshake of an earlier connection has left.
KeysAreOwn == Plain /\ running /\ rsaPassed => got > 0

\* A message is encrypted and sent only on a connection whose handshake has been
\* received and that Start has announced, although the greeting is timed by a sleep.
SendsAfterHandshake ==
    [][Plain /\ sends' > sends => got > 0 /\ app[starts] = "open"]_vars

\* The application sees what ClientSession promises, over reconnects whose messages
\* share one queue that Close does not empty, as long as no WSARecv of Start completes
\* at once, for then the connection is not announced.
Told(of, nothing) == IF Plain /\ "ready" \notin env.outcomes THEN of
                     ELSE [c \in Conns |-> nothing]
S == INSTANCE ClientSession WITH stat <- Told(app, "none"), last <- Told(seen, 0)
SessionKept == S!SessionSpec

\* A connection that goes down is given up, and the application's next Start follows.
Recovers ==
    \A c \in Conns :
        (Plain /\ starts = c /\ running /\ sock # "open")
            ~> (starts > c \/ c = MaxStarts \/ ~Alive)
===============================================================================
