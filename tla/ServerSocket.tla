----------------------------- MODULE ServerSocket -----------------------------
(***************************************************************************)
(* The server side of CYSocket: CServerSocket, CConnectionChannel, the     *)
(* server half of LogicThreadMain and the sink pool of GameServer.         *)
(*                                                                         *)
(* Three kinds of threads share the server.  The accept thread runs        *)
(* OnNewConnection.  Workers take completions from the I/O completion      *)
(* port.  The logic thread runs the application: it starts and closes the  *)
(* server and dispatches the messages that the others queue.               *)
(*                                                                         *)
(* A connection owns an IOCP_HANDLE_DATA, which every completion reaches   *)
(* through a raw pointer, at most one WSARecv and any number of WSASends.  *)
(* A failed assertion, or a read of a freed IOCP_HANDLE_DATA, ends the     *)
(* process: the build in use is the Debug one, since CSocketSystem::Create *)
(* does its work inside assert().  "crash" names the place.                *)
(***************************************************************************)
EXTENDS Integers, Sequences, FiniteSets

CONSTANTS Workers,      \* the I/O threads of Start
          MaxConn,      \* _maxConnNum
          PoolSize,     \* MAX_CONNECTS_NUM, the sinks of CConnectSinkPool
          MaxAccepts,   \* bound: connections accepted in a behaviour
          MaxFrames,    \* bound: well-formed messages of one peer
          MaxSends,     \* bound: WSASends of one connection under way at once
          MaxStarts,    \* bound: calls of Start
          FrameKinds,   \* what a peer may send, out of the kinds of Frames
          OnRecvCalls,  \* what OnRecv may call, out of {"none", "send", "close"}
          QuietClose    \* TRUE: no send is under way when a connection goes down, none
                        \* is posted after its FIN (see MayGoDown and WSASend)

Frames == {"good", "undecryptable", "malformed"}

ASSUME ServerAssumption ==
    /\ MaxConn \in Nat \ {0}
    /\ PoolSize \in Nat \ {0}
    /\ MaxAccepts \in Nat \ {0}
    /\ MaxFrames \in Nat
    /\ MaxSends \in Nat \ {0}
    /\ MaxStarts \in Nat \ {0}
    /\ FrameKinds \subseteq Frames
    /\ OnRecvCalls \subseteq {"none", "send", "close"}
    /\ QuietClose \in BOOLEAN

Conns  == 0 .. MaxAccepts - 1    \* values of _nextConIndex
NoConn == MaxAccepts
Sinks  == 1 .. PoolSize          \* _arrConnects
NoSink == 0

Msg == [conn  : Conns,
        state : {"Accepted", "ReadBuff", "Closed"},
        seq   : Nat]             \* number of a ReadBuff among its peer's messages

VARIABLES
    running,     \* _running
    listening,   \* _accepter._listenning
    starts,      \* calls of Start so far
    lpc,         \* logic thread: in its loop, or joining the threads in Close
    apc,         \* accept thread: where it is in OnNewConnection
    anum,        \* its connNum
    aconn,       \* its connChannel
    nextId,      \* _nextConIndex
    mapAll,      \* keys of _mapAllConnections
    sock,        \* the socket of a connection, seen from this end
    recv,        \* its WSARecv
    sends,       \* its WSASends whose completions are not yet taken from the port
    hd,          \* its IOCP_HANDLE_DATA
    got,         \* well-formed messages taken from its stream
    bad,         \* whether an undecryptable one was
    queueMsgs,   \* _queueMsgs
    queMsgs,     \* queMsgs of threadLoopFun
    mapClients,  \* mapClients of threadLoopFun
    idle,        \* bIdle of a sink
    wpc,         \* worker: where it is in DoTask
    wconn,       \* the connection of its completion
    crash,       \* "none", or what ended the process
    app,         \* history: what the application was told of a connection
    seen         \* history: number of the last message OnRecv was given

serverVars == <<running, listening, starts, lpc>>
acceptVars == <<apc, anum, aconn, nextId>>
connVars   == <<mapAll, sock, recv, sends, hd>>
streamVars == <<got, bad>>
sinkVars   == <<mapClients, idle, app, seen>>
workVars   == <<wpc, wconn>>
vars == <<serverVars, acceptVars, connVars, streamVars, queueMsgs, queMsgs,
          sinkVars, workVars, crash>>

AppStatus == {"none", "open", "refused", "closed"}

Init ==
    /\ running = FALSE /\ listening = FALSE /\ starts = 0 /\ lpc = "loop"
    /\ apc = "off" /\ anum = 0 /\ aconn = NoConn /\ nextId = 0
    /\ mapAll = {}
    /\ sock  = [c \in Conns |-> "none"]
    /\ recv  = [c \in Conns |-> "none"]
    /\ sends = [c \in Conns |-> 0]
    /\ hd    = [c \in Conns |-> "none"]
    /\ got = [c \in Conns |-> 0] /\ bad = [c \in Conns |-> FALSE]
    /\ queueMsgs = <<>> /\ queMsgs = <<>>
    /\ mapClients = [c \in Conns |-> NoSink]
    /\ idle = [s \in Sinks |-> TRUE]
    /\ wpc = [w \in Workers |-> "off"] /\ wconn = [w \in Workers |-> NoConn]
    /\ crash = "none"
    /\ app  = [c \in Conns |-> "none"]
    /\ seen = [c \in Conns |-> 0]

Alive == crash = "none"

\* assert(ok).
Check(ok, site) == crash' = IF ok THEN crash ELSE site

\* The same in a step that first uses the handle data of c, or the channel it keeps.
TouchAndCheck(c, ok, site) ==
    crash' = IF hd[c] # "live" THEN "freed" ELSE IF ok THEN crash ELSE site

Touch(c) == TouchAndCheck(c, TRUE, "none")

\* CServerSocket::InsertMsg for a message that needs no decryption, or is decrypted.
\* It reads _running before it takes the mutex: when Close comes in between, the
\* message is queued all the same.
InsertMsg(c, state, seq) ==
    \/ queueMsgs' = Append(queueMsgs, [conn |-> c, state |-> state, seq |-> seq])
    \/ ~running /\ UNCHANGED queueMsgs

\* The socket of c is of no more use: it was reset, or closed at this end.
Down(c) == sock[c] \in {"reset", "closed"}

\* What CConnectionChannel::Send leaves under way.  WSASend may always fail at once
\* and does so on a socket that is down; after the peer's FIN it still succeeds.
\* A quiet environment sends nothing then.
WSASend(c) ==
    \/ UNCHANGED sends
    \/ /\ sock[c] = "open" \/ (sock[c] = "fin" /\ ~QuietClose)
       /\ sends[c] < MaxSends
       /\ sends' = [sends EXCEPT ![c] = @ + 1]

\* The restriction of a quiet environment on a step that takes a connection down: no
\* send is between WSASend and the end of OnSendCompelet.
MayGoDown(c) ==
    QuietClose => sends[c] = 0 /\ \A w \in Workers : wpc[w] = "sent" => wconn[w] # c

-------------------------------------------------------------------------------
(* The logic thread: Start and Close *)

\* CServerSocket::Start.  It asserts that the accepter does not listen yet.
Start ==
    /\ Alive /\ lpc = "loop" /\ ~running /\ queMsgs = <<>>
    /\ starts < MaxStarts
    /\ starts' = starts + 1
    /\ Check(~listening, "start")
    /\ running' = TRUE /\ listening' = TRUE
    /\ apc' = "accept"
    /\ wpc' = [w \in Workers |-> "get"]
    /\ UNCHANGED <<lpc, anum, aconn, nextId, connVars, streamVars, queueMsgs,
                   queMsgs, sinkVars, wconn>>

\* CServerSocket::Close, called from OnEvent: _running goes down first...
Close ==
    /\ Alive /\ lpc = "loop" /\ running /\ queMsgs = <<>>
    /\ running' = FALSE
    /\ lpc' = "joining"
    /\ UNCHANGED <<listening, starts, acceptVars, connVars, streamVars, queueMsgs,
                   queMsgs, sinkVars, workVars, crash>>

\* Mutant: the messages are dropped before the threads are joined.
MutCloseDone ==
    /\ Alive /\ lpc = "joining"
    /\ queueMsgs' = <<>>
    /\ lpc' = "loop"
    /\ UNCHANGED <<running, listening, starts, acceptVars, connVars, streamVars,
                   queMsgs, sinkVars, workVars, crash>>

\* ... then the threads are joined, and the messages left are dropped.
CloseDone ==
    /\ Alive /\ lpc = "joining"
    /\ apc = "off" /\ \A w \in Workers : wpc[w] = "off"
    /\ queueMsgs' = <<>>
    /\ lpc' = "loop"
    /\ UNCHANGED <<running, listening, starts, acceptVars, connVars, streamVars,
                   queMsgs, sinkVars, workVars, crash>>

-------------------------------------------------------------------------------
(* The accept thread *)

\* WSAAccept returns a socket; OnNewConnection reads the number of connections.
AcceptCount ==
    /\ Alive /\ apc = "accept" /\ running
    /\ nextId < MaxAccepts
    /\ anum' = Cardinality(mapAll)
    /\ apc' = "create"
    /\ UNCHANGED <<serverVars, aconn, nextId, connVars, streamVars, queueMsgs,
                   queMsgs, sinkVars, workVars, crash>>

\* The loop of DoTask ends.
AcceptStop ==
    /\ Alive /\ apc = "accept" /\ ~running
    /\ apc' = "off"
    /\ UNCHANGED <<serverVars, anum, aconn, nextId, connVars, streamVars, queueMsgs,
                   queMsgs, sinkVars, workVars, crash>>

\* Mutant: one connection too many.
MutBelowLimit == anum <= MaxConn

\* connNum leaves room for one more connection.
BelowLimit == anum < MaxConn

\* Mutant: the identifier is given back twice.
MutRefuseSocket ==
    /\ Alive /\ apc = "create"
    /\ apc' = "accept"
    /\ nextId' = nextId - 1
    /\ UNCHANGED <<serverVars, anum, aconn, connVars, streamVars, queueMsgs,
                   queMsgs, sinkVars, workVars, crash>>

\* The limit is reached, or the socket cannot be bound to the port: the socket is
\* closed and the identifier, if it was taken, is given back.
RefuseSocket ==
    /\ Alive /\ apc = "create"
    /\ apc' = "accept"
    /\ UNCHANGED <<serverVars, anum, aconn, nextId, connVars, streamVars, queueMsgs,
                   queMsgs, sinkVars, workVars, crash>>

\* The connection takes an identifier, is bound to the port and enters the map.
CreateChannel ==
    /\ Alive /\ apc = "create" /\ BelowLimit
    /\ nextId' = nextId + 1
    /\ aconn' = nextId
    /\ sock' = [sock EXCEPT ![nextId] = "open"]
    /\ hd' = [hd EXCEPT ![nextId] = "live"]
    /\ Check(nextId \notin mapAll, "insert")
    /\ mapAll' = mapAll \cup {nextId}
    /\ apc' = "seed"
    /\ UNCHANGED <<serverVars, anum, recv, sends, streamVars, queueMsgs, queMsgs,
                   sinkVars, workVars>>

SendRsaSeed ==
    /\ Alive /\ apc = "seed"
    /\ WSASend(aconn)
    /\ apc' = "notify"
    /\ UNCHANGED <<serverVars, anum, aconn, nextId, mapAll, sock, recv, hd,
                   streamVars, queueMsgs, queMsgs, sinkVars, workVars, crash>>

NotifyAccepted ==
    /\ Alive /\ apc = "notify"
    /\ InsertMsg(aconn, "Accepted", 0)
    /\ apc' = "recv"
    /\ UNCHANGED <<serverVars, anum, aconn, nextId, connVars, streamVars, queMsgs,
                   sinkVars, workVars, crash>>

PostFirstRecv ==
    /\ Alive /\ apc = "recv" /\ sock[aconn] # "closed"
    /\ recv' = [recv EXCEPT ![aconn] = "posted"]
    /\ apc' = "accept"
    /\ UNCHANGED <<serverVars, anum, aconn, nextId, mapAll, sock, sends, hd,
                   streamVars, queueMsgs, queMsgs, sinkVars, workVars, crash>>

\* Mutant: ERROR_IO_PENDING is taken for a failure.
MutFirstRecvPending ==
    /\ Alive /\ apc = "recv"
    /\ recv' = [recv EXCEPT ![aconn] = IF sock[aconn] = "open" THEN "posted" ELSE @]
    /\ sock' = [sock EXCEPT ![aconn] = "closed"]
    /\ InsertMsg(aconn, "Closed", 0)
    /\ apc' = "remove"
    /\ UNCHANGED <<serverVars, anum, aconn, nextId, mapAll, sends, hd, streamVars,
                   queMsgs, sinkVars, workVars, crash>>

\* Mutant: the failure closes the socket and tells the logic thread nothing.
MutFirstRecvSilent ==
    /\ Alive /\ apc = "recv" /\ Down(aconn)
    /\ sock' = [sock EXCEPT ![aconn] = "closed"]
    /\ apc' = "remove"
    /\ UNCHANGED <<serverVars, anum, aconn, nextId, mapAll, recv, sends, hd,
                   streamVars, queueMsgs, queMsgs, sinkVars, workVars, crash>>

\* WSARecv fails: OnError closes the socket and queues Closed...
FirstRecvFails ==
    /\ Alive /\ apc = "recv" /\ Down(aconn)
    /\ sock' = [sock EXCEPT ![aconn] = "closed"]
    /\ InsertMsg(aconn, "Closed", 0)
    /\ apc' = "remove"
    /\ UNCHANGED <<serverVars, anum, aconn, nextId, mapAll, recv, sends, hd,
                   streamVars, queMsgs, sinkVars, workVars, crash>>

\* ... RemoveConnectionChannel follows...
AcceptRemove ==
    /\ Alive /\ apc = "remove"
    /\ Check(aconn \in mapAll, "remove")
    /\ mapAll' = mapAll \ {aconn}
    /\ apc' = "free"
    /\ UNCHANGED <<serverVars, anum, aconn, nextId, sock, recv, sends, hd, streamVars,
                   queueMsgs, queMsgs, sinkVars, workVars>>

\* ... and the delete of the handle data.
AcceptFree ==
    /\ Alive /\ apc = "free"
    /\ Touch(aconn)
    /\ hd' = [hd EXCEPT ![aconn] = "freed"]
    /\ apc' = "accept"
    /\ UNCHANGED <<serverVars, anum, aconn, nextId, mapAll, sock, recv, sends,
                   streamVars, queueMsgs, queMsgs, sinkVars, workVars>>

-------------------------------------------------------------------------------
(* The workers *)

\* GetQueuedCompletionStatus returns a completion of c, with the raw pointer to its
\* handle data, which leads worker w to the step pc.
Take(w, c, pc) ==
    /\ wpc' = [wpc EXCEPT ![w] = pc]
    /\ wconn' = [wconn EXCEPT ![w] = c]

MayGet(w) == Alive /\ wpc[w] = "get" /\ running

WorkerStop(w) ==
    /\ Alive /\ wpc[w] = "get" /\ ~running
    /\ wpc' = [wpc EXCEPT ![w] = "off"]
    /\ UNCHANGED <<serverVars, acceptVars, connVars, streamVars, queueMsgs, queMsgs,
                   sinkVars, wconn, crash>>

\* Mutant: the next WSARecv is under way before the data of this one is handled.
MutGetRecv(w, c) ==
    /\ MayGet(w) /\ recv[c] = "posted"
    /\ got[c] < MaxFrames
    /\ Take(w, c, "recv")
    /\ UNCHANGED <<serverVars, acceptVars, connVars, streamVars, queueMsgs, queMsgs,
                   sinkVars, crash>>

\* The WSARecv of c completes with data, which may have waited in the port while
\* the socket went down.
GetRecv(w, c) ==
    /\ MayGet(w) /\ recv[c] = "posted"
    /\ got[c] < MaxFrames
    /\ recv' = [recv EXCEPT ![c] = "none"]
    /\ Take(w, c, "recv")
    /\ UNCHANGED <<serverVars, acceptVars, mapAll, sock, sends, hd, streamVars,
                   queueMsgs, queMsgs, sinkVars, crash>>

\* The WSARecv of c completes with no byte or with an error.
GetDeadRecv(w, c) ==
    /\ MayGet(w) /\ recv[c] = "posted" /\ sock[c] # "open"
    /\ recv' = [recv EXCEPT ![c] = "none"]
    /\ Take(w, c, "dead")
    /\ UNCHANGED <<serverVars, acceptVars, mapAll, sock, sends, hd, streamVars,
                   queueMsgs, queMsgs, sinkVars, crash>>

\* A WSASend of c completes.
GetSend(w, c) ==
    /\ MayGet(w) /\ sends[c] > 0
    /\ sends' = [sends EXCEPT ![c] = @ - 1]
    /\ Take(w, c, "sent")
    /\ UNCHANGED <<serverVars, acceptVars, mapAll, sock, recv, hd, streamVars,
                   queueMsgs, queMsgs, sinkVars, crash>>

\* A WSASend of c fails with its socket.
GetDeadSend(w, c) ==
    /\ MayGet(w) /\ sends[c] > 0 /\ Down(c)
    /\ sends' = [sends EXCEPT ![c] = @ - 1]
    /\ Take(w, c, "dead")
    /\ UNCHANGED <<serverVars, acceptVars, mapAll, sock, recv, hd, streamVars,
                   queueMsgs, queMsgs, sinkVars, crash>>

\* OnSendCompelet of all, or of a part: then the rest is sent.
SendComplete(w) ==
    LET c == wconn[w] IN
    /\ Alive /\ wpc[w] = "sent"
    /\ Touch(c)
    /\ WSASend(c)
    /\ wpc' = [wpc EXCEPT ![w] = "get"]
    /\ wconn' = [wconn EXCEPT ![w] = NoConn]
    /\ UNCHANGED <<serverVars, acceptVars, mapAll, sock, recv, hd, streamVars,
                   queueMsgs, queMsgs, sinkVars>>

\* OnRecvCompelet finds a whole message, and InsertMsg can decrypt it...
RecvGood(w) ==
    LET c == wconn[w] IN
    /\ Alive /\ wpc[w] = "recv"
    /\ "good" \in FrameKinds /\ got[c] < MaxFrames
    /\ Touch(c)
    /\ got' = [got EXCEPT ![c] = @ + 1]
    /\ wpc' = [wpc EXCEPT ![w] = "insert"]
    /\ UNCHANGED <<serverVars, acceptVars, connVars, bad, queueMsgs, queMsgs, sinkVars,
                   wconn>>

\* ... and queues it: it is the last that was taken from the stream.
InsertRead(w) ==
    LET c == wconn[w] IN
    /\ Alive /\ wpc[w] = "insert"
    /\ InsertMsg(c, "ReadBuff", got[c])
    /\ wpc' = [wpc EXCEPT ![w] = "recv"]
    /\ UNCHANGED <<serverVars, acceptVars, connVars, streamVars, queMsgs, sinkVars,
                   wconn, crash>>

\* InsertMsg cannot decrypt it: the socket of the map's entry is closed, unless the
\* server was found closed, and the rest of the stream is still read.
RecvUndecryptable(w) ==
    LET c == wconn[w] IN
    /\ Alive /\ wpc[w] = "recv"
    /\ "undecryptable" \in FrameKinds /\ ~bad[c] /\ MayGoDown(c)
    /\ bad' = [bad EXCEPT ![c] = TRUE]
    /\ \/ /\ TouchAndCheck(c, c \in mapAll, "decrypt")
          /\ sock' = [sock EXCEPT ![c] = "closed"]
       \/ ~running /\ Touch(c) /\ UNCHANGED sock
    /\ UNCHANGED <<serverVars, acceptVars, mapAll, recv, sends, hd, got, queueMsgs,
                   queMsgs, sinkVars, workVars>>

\* OnRecvCompelet finds an impossible length: the socket is closed.
RecvMalformed(w) ==
    LET c == wconn[w] IN
    /\ Alive /\ wpc[w] = "recv"
    /\ "malformed" \in FrameKinds /\ MayGoDown(c)
    /\ Touch(c)
    /\ sock' = [sock EXCEPT ![c] = "closed"]
    /\ wpc' = [wpc EXCEPT ![w] = "post"]
    /\ UNCHANGED <<serverVars, acceptVars, mapAll, recv, sends, hd, streamVars,
                   queueMsgs, queMsgs, sinkVars, wconn>>

\* No whole message is in the buffer.
RecvDone(w) ==
    /\ Alive /\ wpc[w] = "recv"
    /\ Touch(wconn[w])
    /\ wpc' = [wpc EXCEPT ![w] = "post"]
    /\ UNCHANGED <<serverVars, acceptVars, connVars, streamVars, queueMsgs, queMsgs,
                   sinkVars, wconn>>

\* The next WSARecv is under way.
PostRecv(w) ==
    LET c == wconn[w] IN
    /\ Alive /\ wpc[w] = "post" /\ sock[c] # "closed"
    /\ Touch(c)
    /\ recv' = [recv EXCEPT ![c] = "posted"]
    /\ wpc' = [wpc EXCEPT ![w] = "get"]
    /\ wconn' = [wconn EXCEPT ![w] = NoConn]
    /\ UNCHANGED <<serverVars, acceptVars, mapAll, sock, sends, hd, streamVars,
                   queueMsgs, queMsgs, sinkVars>>

\* Mutant: the failure is only logged.
MutPostRecvFails(w) ==
    /\ Alive /\ wpc[w] = "post" /\ Down(wconn[w])
    /\ Touch(wconn[w])
    /\ wpc' = [wpc EXCEPT ![w] = "get"]
    /\ UNCHANGED <<serverVars, acceptVars, connVars, streamVars, queueMsgs, queMsgs,
                   sinkVars, wconn>>

\* The next WSARecv fails at once.
PostRecvFails(w) ==
    LET c == wconn[w] IN
    /\ Alive /\ wpc[w] = "post" /\ Down(c)
    /\ Touch(c)
    /\ wpc' = [wpc EXCEPT ![w] = "dead"]
    /\ UNCHANGED <<serverVars, acceptVars, connVars, streamVars, queueMsgs, queMsgs,
                   sinkVars, wconn>>

\* Mutant: the socket is not closed.
MutOnDisconnect(w) ==
    /\ Alive /\ wpc[w] = "dead"
    /\ Touch(wconn[w])
    /\ InsertMsg(wconn[w], "Closed", 0)
    /\ wpc' = [wpc EXCEPT ![w] = "remove"]
    /\ UNCHANGED <<serverVars, acceptVars, connVars, streamVars, queMsgs, sinkVars,
                   wconn>>

\* CConnectionChannel::OnDisconnect and OnError.
OnDisconnect(w) ==
    LET c == wconn[w] IN
    /\ Alive /\ wpc[w] = "dead"
    /\ Touch(c)
    /\ sock' = [sock EXCEPT ![c] = "closed"]
    /\ InsertMsg(c, "Closed", 0)
    /\ wpc' = [wpc EXCEPT ![w] = "remove"]
    /\ UNCHANGED <<serverVars, acceptVars, mapAll, recv, sends, hd, streamVars,
                   queMsgs, sinkVars, wconn>>

\* RemoveConnectionChannel...
RemoveChannel(w) ==
    LET c == wconn[w] IN
    /\ Alive /\ wpc[w] = "remove"
    /\ TouchAndCheck(c, c \in mapAll, "remove")
    /\ mapAll' = mapAll \ {c}
    /\ wpc' = [wpc EXCEPT ![w] = "free"]
    /\ UNCHANGED <<serverVars, acceptVars, sock, recv, sends, hd, streamVars, queueMsgs,
                   queMsgs, sinkVars, wconn>>

\* ... and the delete of the handle data.
DeleteHandle(w) ==
    LET c == wconn[w] IN
    /\ Alive /\ wpc[w] = "free"
    /\ Touch(c)
    /\ hd' = [hd EXCEPT ![c] = "freed"]
    /\ wpc' = [wpc EXCEPT ![w] = "get"]
    /\ wconn' = [wconn EXCEPT ![w] = NoConn]
    /\ UNCHANGED <<serverVars, acceptVars, mapAll, sock, recv, sends, streamVars,
                   queueMsgs, queMsgs, sinkVars>>

-------------------------------------------------------------------------------
(* The logic thread: processServerMsgs *)

SwapQueMsg ==
    /\ Alive /\ lpc = "loop" /\ running /\ queMsgs = <<>>
    /\ queueMsgs # <<>>
    /\ queMsgs' = queueMsgs
    /\ queueMsgs' = <<>>
    /\ UNCHANGED <<serverVars, acceptVars, connVars, streamVars, sinkVars, workVars,
                   crash>>

\* The message that the loop handles next has this state.
Front(state) ==
    /\ Alive /\ lpc = "loop"
    /\ queMsgs # <<>> /\ Head(queMsgs).state = state

IdleSinks == {s \in Sinks : idle[s]}

\* OnAccept: GetIdleClientSink returns the first idle sink.
DispatchAccepted ==
    /\ Front("Accepted")
    /\ LET c == Head(queMsgs).conn IN
       \E s \in IdleSinks :
          /\ \A i \in IdleSinks : s <= i
          /\ idle' = [idle EXCEPT ![s] = FALSE]
          /\ mapClients' = [mapClients EXCEPT ![c] = s]
          /\ app' = [app EXCEPT ![c] = "open"]
    /\ queMsgs' = Tail(queMsgs)
    /\ UNCHANGED <<serverVars, acceptVars, connVars, streamVars, queueMsgs, seen,
                   workVars, crash>>

\* OnAccept with no sink left: the peer is sent a text, and stays connected.
DispatchRefused ==
    /\ Front("Accepted") /\ IdleSinks = {}
    /\ LET c == Head(queMsgs).conn
       IN /\ IF c \in mapAll THEN WSASend(c) ELSE UNCHANGED sends
          /\ app' = [app EXCEPT ![c] = "refused"]
    /\ queMsgs' = Tail(queMsgs)
    /\ UNCHANGED <<serverVars, acceptVars, mapAll, sock, recv, hd, streamVars,
                   queueMsgs, mapClients, idle, seen, workVars, crash>>

\* OnCloseConnect makes the sink idle, and the entry goes.
DispatchClosed ==
    /\ Front("Closed")
    /\ LET c == Head(queMsgs).conn
           s == mapClients[c]
       IN IF s # NoSink
          THEN /\ idle' = [idle EXCEPT ![s] = TRUE]
               /\ mapClients' = [mapClients EXCEPT ![c] = NoSink]
               /\ app' = [app EXCEPT ![c] = "closed"]
          ELSE UNCHANGED <<idle, mapClients, app>>
    /\ queMsgs' = Tail(queMsgs)
    /\ UNCHANGED <<serverVars, acceptVars, connVars, streamVars, queueMsgs, seen,
                   workVars, crash>>

\* OnRecv; the application may call Send or CloseSocket for the connection, which
\* find it by its entry in _mapAllConnections.
DispatchRead ==
    /\ Front("ReadBuff")
    /\ LET m == Head(queMsgs)
           c == m.conn
       IN IF mapClients[c] = NoSink
          THEN UNCHANGED <<seen, sock, sends>>
          ELSE /\ seen' = [seen EXCEPT ![c] = m.seq]
               /\ \E call \in OnRecvCalls :
                     /\ IF call = "send" /\ c \in mapAll
                        THEN WSASend(c)
                        ELSE UNCHANGED sends
                     /\ IF call = "close" /\ c \in mapAll /\ MayGoDown(c)
                        THEN sock' = [sock EXCEPT ![c] = "closed"]
                        ELSE UNCHANGED sock
    /\ queMsgs' = Tail(queMsgs)
    /\ UNCHANGED <<serverVars, acceptVars, mapAll, recv, hd, streamVars, queueMsgs,
                   mapClients, idle, app, workVars, crash>>

-------------------------------------------------------------------------------
\* The peer closes the connection: it can still be sent to.
PeerClose(c) ==
    /\ Alive /\ sock[c] = "open" /\ MayGoDown(c)
    /\ sock' = [sock EXCEPT ![c] = "fin"]
    /\ UNCHANGED <<serverVars, acceptVars, mapAll, recv, sends, hd, streamVars,
                   queueMsgs, queMsgs, sinkVars, workVars, crash>>

\* The peer resets the connection, or the network loses it.
PeerReset(c) ==
    /\ Alive /\ sock[c] \in {"open", "fin"} /\ MayGoDown(c)
    /\ sock' = [sock EXCEPT ![c] = "reset"]
    /\ UNCHANGED <<serverVars, acceptVars, mapAll, recv, sends, hd, streamVars,
                   queueMsgs, queMsgs, sinkVars, workVars, crash>>

AcceptStep ==
    \/ CreateChannel \/ RefuseSocket \/ SendRsaSeed \/ NotifyAccepted
    \/ PostFirstRecv \/ FirstRecvFails \/ AcceptRemove \/ AcceptFree \/ AcceptStop

GetStep(w, c) ==
    GetRecv(w, c) \/ GetDeadRecv(w, c) \/ GetSend(w, c) \/ GetDeadSend(w, c)

WorkerStep(w) ==
    \/ WorkerStop(w) \/ SendComplete(w)
    \/ RecvGood(w) \/ InsertRead(w) \/ RecvUndecryptable(w) \/ RecvMalformed(w)
    \/ RecvDone(w) \/ PostRecv(w) \/ PostRecvFails(w)
    \/ OnDisconnect(w) \/ RemoveChannel(w) \/ DeleteHandle(w)

Dispatch == DispatchAccepted \/ DispatchRefused \/ DispatchClosed \/ DispatchRead

LogicStep == CloseDone \/ SwapQueMsg \/ Dispatch

Next ==
    \/ Start \/ Close \/ AcceptCount
    \/ AcceptStep \/ LogicStep
    \/ \E w \in Workers : WorkerStep(w) \/ \E c \in Conns : GetStep(w, c)
    \/ \E c \in Conns : PeerClose(c) \/ PeerReset(c)

Spec == Init /\ [][Next]_vars

\* Every thread runs on.  The port is a FIFO queue, so a failed WSARecv is taken
\* sooner or later, whatever the other completions.
Fairness ==
    /\ WF_vars(AcceptStep)
    /\ WF_vars(LogicStep)
    /\ \A w \in Workers : WF_vars(WorkerStep(w))
    /\ \A c \in Conns : SF_vars(\E w \in Workers : GetDeadRecv(w, c))

FairSpec == Spec /\ Fairness

-------------------------------------------------------------------------------
(* Properties *)

Crashes == {"none", "start", "insert", "remove", "decrypt", "freed"}

ServerTypeOK ==
    /\ running \in BOOLEAN /\ listening \in BOOLEAN
    /\ starts \in 0 .. MaxStarts
    /\ lpc \in {"loop", "joining"}
    /\ crash \in Crashes

AcceptTypeOK ==
    /\ apc \in {"off", "accept", "create", "seed", "notify", "recv", "remove", "free"}
    /\ anum \in Nat
    /\ aconn \in Conns \cup {NoConn}
    /\ nextId \in 0 .. MaxAccepts
    /\ apc = "create" => nextId < MaxAccepts
    /\ apc \notin {"off", "accept", "create"} => aconn \in Conns

ConnTypeOK ==
    /\ mapAll \subseteq Conns
    /\ sock \in [Conns -> {"none", "open", "fin", "reset", "closed"}]
    /\ recv \in [Conns -> {"none", "posted"}]
    /\ sends \in [Conns -> 0 .. MaxSends]
    /\ hd \in [Conns -> {"none", "live", "freed"}]
    /\ got \in [Conns -> 0 .. MaxFrames]
    /\ bad \in [Conns -> BOOLEAN]

QueueTypeOK == queueMsgs \in Seq(Msg) /\ queMsgs \in Seq(Msg)

SinkTypeOK ==
    /\ mapClients \in [Conns -> Sinks \cup {NoSink}]
    /\ idle \in [Sinks -> BOOLEAN]
    /\ app \in [Conns -> AppStatus]
    /\ seen \in [Conns -> Nat]

WorkerTypeOK ==
    /\ wpc \in [Workers -> {"off", "get", "sent", "recv", "insert", "post", "dead",
                            "remove", "free"}]
    /\ wconn \in [Workers -> Conns \cup {NoConn}]
    /\ \A w \in Workers : wpc[w] \notin {"off", "get"} => wconn[w] \in Conns

\* Every variable stays in the values that its C++ counterpart can take; in
\* particular an identifier given back by a failed bind is never given twice.
TypeOK ==
    /\ ServerTypeOK /\ AcceptTypeOK /\ ConnTypeOK
    /\ QueueTypeOK /\ SinkTypeOK /\ WorkerTypeOK

\* The server never holds more connections than Start was told, although
\* OnNewConnection counts them in one critical section and enters the new one in
\* another, while workers remove theirs.
ConnLimit == Cardinality(mapAll) <= MaxConn

\* What makes ConnLimit, and RemovedIsClosed below, inductive: identifiers not yet
\* given out belong to nothing...
Busy(w) == wpc[w] \notin {"off", "get"}

IdsFresh ==
    /\ \A c \in Conns : c >= nextId =>
          /\ c \notin mapAll
          /\ sock[c] = "none" /\ recv[c] = "none" /\ sends[c] = 0
    /\ apc \notin {"off", "accept", "create"} => aconn < nextId
    /\ \A w \in Workers : Busy(w) => wconn[w] < nextId

\* ... the count of the accept thread is out of date only by being too high...
CountCovers ==
    /\ Cardinality(mapAll) <= MaxConn
    /\ apc = "create" => Cardinality(mapAll) <= anum

\* ... and whoever is about to remove a connection has closed its socket.
RemoversClosed ==
    /\ apc = "remove" => sock[aconn] = "closed"
    /\ \A w \in Workers : wpc[w] = "remove" => sock[wconn[w]] = "closed"

IndInv == TypeOK /\ IdsFresh /\ CountCovers /\ RemoversClosed

\* As long as no connection goes down with a send under way, and nothing is sent after the
\* peer's FIN, no assertion of the server fails, and nobody uses the handle data of a
\* connection when it is freed, although a completion is taken from the port in one step
\* and its handle data used in later ones.
NoFault == crash = "none"

\* Every connection below the limit gets a sink, if the pool has one for each:
\* a place in the map is given up only after Closed is queued, so the sink of the
\* old connection is idle before the new one is announced.
NeverRefused == \A c \in Conns : app[c] # "refused"

LeavesClosed == \A c \in Conns : c \in mapAll /\ c \notin mapAll' => sock[c] = "closed"

\* A connection leaves the map only when its socket has been closed: nobody else
\* could close it afterwards.
RemovedIsClosed == [][LeavesClosed]_vars

\* The application sees what Session promises: OnAccept, OnRecv for every message
\* in order, one OnCloseConnect, and a sink that serves one connection at a time.
S == INSTANCE Session WITH stat <- app, last <- seen, sinkOf <- mapClients
SessionKept == S!SessionSpec

\* A connection that is down, while the application has it open, is reported by
\* OnCloseConnect as long as the server runs.
Reported ==
    \A c \in Conns :
        (app[c] = "open" /\ sock[c] # "open")
            ~> (app[c] = "closed" \/ ~running \/ crash # "none")

\* When Close has returned there is no message left that a later round of the logic
\* thread could dispatch, although InsertMsg reads _running without the mutex.
NothingLeft == lpc = "loop" /\ ~running => queueMsgs = <<>> /\ queMsgs = <<>>

\* The assertion of RemoveConnectionChannel: the connection is in the map.
RemoveFindsEntry == crash # "remove"

\* The assertion of Start: the accepter does not listen yet.
StartFindsNoListener == crash # "start"
===============================================================================
