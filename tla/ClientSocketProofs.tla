--------------------------- MODULE ClientSocketProofs ---------------------------
(***************************************************************************)
(* Theorems of ClientSocket: what a client may rely on over any number of  *)
(* reconnects, whatever the environment, and what more it may rely on when *)
(* it closes its socket from OnCloseConnect only.                          *)
(***************************************************************************)
EXTENDS ClientSocket, SequenceTheorems, TLAPS

-------------------------------------------------------------------------------
(* The inductive invariant *)

Handling == {"recv", "insert", "rsa", "post", "dead", "delete"}

FlagTypeOK ==
    /\ running \in BOOLEAN /\ rsaPassed \in BOOLEAN /\ chan \in BOOLEAN
    /\ attached \in BOOLEAN /\ recv \in BOOLEAN

StateTypeOK ==
    /\ env \in Environment
    /\ lpc \in {"start", "loop", "close", "joining", "slept"}
    /\ after \in {"loop", "start"}
    /\ wpc \in {"off", "queued", "get"} \cup Handling
    /\ crash \in {"none", "freed", "null"}
    /\ sock \in {"none", "open", "fin", "reset", "closed"}
    /\ hd \in {"none", "live", "freed"}

CountTypeOK == starts \in 0 .. MaxStarts /\ sends \in Nat /\ got \in Nat

QueueTypeOK == queueMsgs \in Seq(Msg) /\ queMsgs \in Seq(Msg)

AppTypeOK == app \in [Conns -> {"none", "open", "closed"}] /\ seen \in [Conns -> Nat]

TypeOK == FlagTypeOK /\ StateTypeOK /\ CountTypeOK /\ QueueTypeOK /\ AppTypeOK

\* The messages that the logic thread has still to handle, oldest first.
Coming == queMsgs \o queueMsgs

\* Message i reports the death of c.
Death(i, c) == i \in 1 .. Len(Coming) /\ Coming[i].conn = c /\ Coming[i].state = "Closed"

\* The connection of the last Start is up, and its death is not announced yet.
Living == hd = "live" /\ wpc # "delete"

\* The worker is there when the client runs, and until Close has joined it; otherwise
\* nothing is left of a connection.
WorkerJoined ==
    /\ running => wpc # "off" /\ lpc \notin {"joining", "start"}
    /\ wpc # "off" => (running \/ lpc = "joining") /\ starts \in Conns
    /\ ~running /\ lpc # "joining" => sock = "none" /\ ~recv /\ sends = 0 /\ hd = "none"

\* A worker that has a completion has found the handle data; the socket goes down before
\* the data goes.
HandleKept ==
    /\ Alive /\ wpc \in Handling => hd = "live"
    /\ sock = "open" => Living
    /\ hd = "live" => starts \in Conns

\* Nothing is heard of a Start that has not been called yet.
NotYet ==
    /\ \A c \in Conns : c > starts => app[c] = "none" /\ seen[c] = 0
    /\ \A i \in 1 .. Len(Coming) : Coming[i].conn <= starts

DeathOnce ==
    /\ \A c \in Conns : \A i, j \in 1 .. Len(Coming) :
          Death(i, c) /\ Death(j, c) => i = j /\ app[c] # "closed"
    /\ Living => app[starts] # "closed" /\ \A i \in 1 .. Len(Coming) : ~Death(i, starts)

IndInv == TypeOK /\ WorkerJoined /\ HandleKept /\ NotYet /\ DeathOnce

-------------------------------------------------------------------------------
(* What holds for an application that closes the client from OnCloseConnect only *)

\* Closed is the last message of a connection, and nothing of it is left when the logic
\* thread closes the socket and starts the next one.
OneAtATime ==
    /\ attached
    /\ lpc \in {"close", "joining", "start"} => ~Living /\ Len(Coming) = 0
    /\ lpc \in {"close", "joining"} => after = "start"
    /\ lpc \notin {"close", "joining", "start"} => starts \in Conns
    /\ Living => running
    /\ \A i \in 1 .. Len(Coming) :
          /\ Coming[i].conn = starts
          /\ Coming[i].state = "Closed" => i = Len(Coming) /\ ~Living

\* The keys are there exactly when the first message has been handled.
KeysInTime ==
    /\ ~running => ~rsaPassed
    /\ running /\ rsaPassed => got > 0
    /\ wpc \in {"insert", "rsa"} => got > 0
    /\ Living /\ rsaPassed => got > 1 \/ wpc \notin {"insert", "rsa"}
    /\ Living /\ ~rsaPassed => got = 0 \/ (got = 1 /\ wpc \in {"insert", "rsa"})

\* The connection of a logic thread that is asleep in OnConnect stays announced.
Asleep == lpc = "slept" => app[starts] = "open"

PlainInv == Plain => OneAtATime /\ KeysInTime /\ Asleep

\* As long as no connection goes down with a send under way, and nothing is sent after the
\* server's FIN, nothing of it is under way when its data goes.
QuietDown ==
    /\ Alive
    /\ sock # "open" => sends = 0
    /\ recv => hd = "live" /\ wpc \notin Handling
    /\ sends > 0 => hd = "live"
    /\ wpc \in {"dead", "delete"} => sock # "open"

QuietInv == Plain /\ env.quiet => QuietDown

\* 1 if the connection is still to be announced.
Announcement == IF Len(Coming) > 0 /\ Coming[1].state = "Accepted" THEN 1 ELSE 0

\* How many messages of the connection have been queued.
Numbered == IF got <= 1 THEN 0 ELSE IF wpc = "insert" THEN got - 2 ELSE got - 1

\* The messages of a connection come in the order of its stream, after Accepted.
InOrder ==
    /\ \A i \in 1 .. Len(Coming) :
          /\ Coming[i].state = "Accepted" => i = 1 /\ app[starts] = "none" /\ seen[starts] = 0
          /\ Coming[i].state = "ReadBuff" =>
                /\ app[starts] = "open" \/ Announcement = 1
                /\ Coming[i].seq = seen[starts] + i - Announcement
    /\ lpc \in {"loop", "slept"} => app[starts] # "closed"
    /\ Living => /\ app[starts] = "open" \/ Announcement = 1
                 /\ Len(Coming) - Announcement + seen[starts] = Numbered

Announced == Plain /\ "ready" \notin env.outcomes

OrderInv == Announced => InOrder

-------------------------------------------------------------------------------
(* The type invariant *)

LEMMA IndInit == Init => IndInv /\ PlainInv /\ QuietInv /\ OrderInv
<1> SUFFICES ASSUME Init PROVE IndInv /\ PlainInv /\ QuietInv /\ OrderInv
  OBVIOUS
<1>1. Coming = <<>> /\ Len(Coming) = 0
  BY DEF Init, Coming
<1>2. TypeOK
  <2>1. FlagTypeOK
    BY Zenon DEF Init, FlagTypeOK
  <2>2. StateTypeOK
    BY ClientAssumption DEF Init, StateTypeOK
  <2>3. CountTypeOK
    BY ClientAssumption DEF Init, CountTypeOK
  <2>4. QueueTypeOK /\ AppTypeOK
    BY DEF Init, QueueTypeOK, AppTypeOK
  <2> QED
    BY <2>1, <2>2, <2>3, <2>4 DEF TypeOK
<1>3. WorkerJoined /\ HandleKept /\ NotYet /\ DeathOnce
  BY <1>1 DEF Init, WorkerJoined, HandleKept, NotYet, DeathOnce, Death, Handling, Living
<1>4. OneAtATime /\ KeysInTime /\ Asleep /\ QuietDown /\ InOrder
  BY <1>1
  DEF Init, OneAtATime, KeysInTime, Asleep, QuietDown, InOrder, Living, Alive, Plain, Handling
<1> QED
  BY <1>2, <1>3, <1>4 DEF IndInv, PlainInv, QuietInv, OrderInv

LEMMA QueueType ==
  ASSUME QueueTypeOK, NEW c \in Conns, NEW state \in {"Accepted", "ReadBuff", "Closed"},
         NEW n \in Nat, Queue(c, state, n), queMsgs' = queMsgs
  PROVE  QueueTypeOK'
<1>1. [conn |-> c, state |-> state, seq |-> n] \in Msg
  BY DEF Msg
<1> QED
  BY <1>1, AppendProperties DEF QueueTypeOK, Queue

LEMMA HeadType ==
  ASSUME QueueTypeOK, queMsgs # <<>>
  PROVE  /\ Tail(queMsgs) \in Seq(Msg)
         /\ Head(queMsgs).conn \in Conns /\ Head(queMsgs).seq \in Nat
<1>1. Tail(queMsgs) \in Seq(Msg) /\ Head(queMsgs) \in Msg
  BY HeadTailProperties DEF QueueTypeOK
<1> QED
  BY <1>1 DEF Msg

LEMMA FlagType == TypeOK /\ Next => FlagTypeOK'
<1> SUFFICES ASSUME FlagTypeOK, Next PROVE FlagTypeOK'
  BY DEF TypeOK
<1> USE DEF FlagTypeOK
<1>1. CASE Start
  BY <1>1, Zenon
  DEF Start, StartRefused, StartDead, StartPending, StartReady, StartNoThread, Starting, Up,
      opVars
<1>2. CASE GetStep
  BY <1>2, Zenon
  DEF GetStep, GetRecv, GetDeadRecv, GetSend, GetDeadSend, WSASend, Down, Get, logicVars
<1>3. CASE WorkerStep
  BY <1>3, Zenon
  DEF WorkerStep, WorkerStop, RecvMessage, InsertMsg, SetRsaKey, RecvMalformed, RecvDone,
      PostRecv, PostRecvFails, Down, OnDisconnect, DeleteHandle, Step, opVars, logicVars
<1>4. CASE CloseDone \/ TakeObject \/ PeerClose \/ PeerReset \/ SwapQueMsg
  BY <1>4, Zenon DEF CloseDone, TakeObject, PeerClose, PeerReset, SwapQueMsg, opVars, logicVars
<1>5. CASE OnConnect \/ SendHello \/ OnCloseConnect \/ OnRecv
  BY <1>5, Zenon DEF OnConnect, SendHello, OnCloseConnect, OnRecv, Dispatch, opVars
<1>6. CASE Close
  BY <1>6, Zenon DEF Close, opVars
<1>7. CASE AppClose
  <2>1. attached' \in BOOLEAN
    BY <1>7 DEF AppClose
  <2> QED
    BY <1>7, <2>1, Zenon DEF AppClose, opVars
<1> QED
  BY <1>1, <1>2, <1>3, <1>4, <1>5, <1>6, <1>7 DEF Next, LogicStep

LEMMA StateType == TypeOK /\ Next => StateTypeOK'
<1> SUFFICES ASSUME StateTypeOK, Next PROVE StateTypeOK'
  BY DEF TypeOK
<1> USE DEF StateTypeOK, Handling
<1>e. env' = env
  BY DEF Next
<1>1. CASE Start
  BY <1>e, <1>1
  DEF Start, StartRefused, StartDead, StartPending, StartReady, StartNoThread, Starting, Up,
      opVars
<1>2. CASE GetStep
  BY <1>e, <1>2
  DEF GetStep, GetRecv, GetDeadRecv, GetSend, GetDeadSend, WSASend, Down, Get, Touch, logicVars
<1>3. CASE WorkerStep
  BY <1>e, <1>3
  DEF WorkerStep, WorkerStop, RecvMessage, InsertMsg, SetRsaKey, RecvMalformed, RecvDone,
      PostRecv, PostRecvFails, Down, OnDisconnect, DeleteHandle, Step, Touch, opVars, logicVars
<1>4. CASE CloseDone \/ TakeObject \/ PeerClose \/ PeerReset \/ SwapQueMsg
  BY <1>e, <1>4 DEF CloseDone, TakeObject, PeerClose, PeerReset, SwapQueMsg, opVars, logicVars
<1>5. CASE OnConnect \/ SendHello \/ OnCloseConnect \/ OnRecv
  BY <1>e, <1>5 DEF OnConnect, SendHello, OnCloseConnect, OnRecv, Dispatch, CallClient, opVars
<1>6. CASE Close \/ AppClose
  BY <1>e, <1>6 DEF Close, AppClose, opVars
<1> QED
  BY <1>1, <1>2, <1>3, <1>4, <1>5, <1>6 DEF Next, LogicStep

LEMMA StartCount == TypeOK /\ Start => starts' \in Conns /\ starts' = starts + 1
  BY ClientAssumption
  DEF TypeOK, CountTypeOK, Start, StartRefused, StartDead, StartPending, StartReady,
      StartNoThread, Starting, Conns

LEMMA CountType == TypeOK /\ Next => CountTypeOK'
<1> SUFFICES ASSUME TypeOK, Next PROVE CountTypeOK'
  OBVIOUS
<1> USE DEF TypeOK, CountTypeOK
<1>1. CASE Start
  <2>1. starts' \in 0 .. MaxStarts
    BY <1>1, StartCount, ClientAssumption DEF Conns
  <2> QED
    BY <1>1, <2>1
    DEF Start, StartRefused, StartDead, StartPending, StartReady, StartNoThread, Up, opVars
<1>2. CASE GetStep
  BY <1>2 DEF GetStep, GetRecv, GetDeadRecv, GetSend, GetDeadSend, WSASend, Down, Get
<1>3. CASE WorkerStep
  BY <1>3
  DEF WorkerStep, WorkerStop, RecvMessage, InsertMsg, SetRsaKey, RecvMalformed, RecvDone,
      PostRecv, PostRecvFails, Down, OnDisconnect, DeleteHandle, Step, opVars
<1>4. CASE Close \/ CloseDone \/ AppClose \/ TakeObject \/ PeerClose \/ PeerReset \/ SwapQueMsg
  BY <1>4 DEF Close, CloseDone, AppClose, TakeObject, PeerClose, PeerReset, SwapQueMsg, opVars
<1>5. CASE OnConnect \/ SendHello \/ OnCloseConnect \/ OnRecv
  BY <1>5 DEF OnConnect, SendHello, WSASend, OnCloseConnect, OnRecv, Dispatch, opVars
<1> QED
  BY <1>1, <1>2, <1>3, <1>4, <1>5 DEF Next, LogicStep

\* The steps that leave the messages alone, and what the application was told.
Silent == UNCHANGED <<queueMsgs, queMsgs, appVars>>

\* Every other step queues one message, takes them over, or handles the first.
LEMMA Cases ==
  ASSUME Next
  PROVE  \/ Silent
         \/ StartDead \/ StartPending \/ StartNoThread \/ InsertMsg \/ OnDisconnect
         \/ SwapQueMsg \/ OnConnect \/ OnCloseConnect \/ OnRecv
  BY DEF Next, Silent, LogicStep, Start, StartRefused, StartReady, Starting, Close, CloseDone,
         AppClose, TakeObject, WorkerStep, WorkerStop, GetStep, GetRecv, GetDeadRecv, GetSend,
         GetDeadSend, WSASend, Down, Get, RecvMessage, SetRsaKey, RecvMalformed, RecvDone,
         PostRecv, PostRecvFails, DeleteHandle, Step, SendHello, PeerClose, PeerReset, appVars

LEMMA DataType ==
  ASSUME TypeOK, WorkerJoined, Next
  PROVE  QueueTypeOK' /\ AppTypeOK'
<1> USE DEF TypeOK
<1>1. CASE Silent
  BY <1>1 DEF Silent, QueueTypeOK, AppTypeOK, appVars
<1>2. CASE StartDead \/ StartPending \/ StartNoThread
  <2>1. starts + 1 \in Conns
    BY <1>2, StartCount DEF Start, StartDead, StartPending, StartNoThread, Starting
  <2>2. UNCHANGED <<queMsgs, appVars>>
    BY <1>2 DEF StartDead, StartPending, StartNoThread, Starting
  <2>3. CASE queueMsgs' = queueMsgs
    BY <2>2, <2>3 DEF QueueTypeOK, AppTypeOK, appVars
  <2> QED
    BY <1>2, <2>1, <2>2, <2>3, QueueType
    DEF StartDead, StartPending, StartNoThread, AppTypeOK, appVars
<1>3. CASE InsertMsg \/ OnDisconnect
  <2>1. starts \in Conns /\ UNCHANGED <<queMsgs, appVars>>
    BY <1>3 DEF InsertMsg, OnDisconnect, Step, WorkerJoined
  <2>2. got > 1 => got - 1 \in Nat
    BY DEF CountTypeOK
  <2>3. AppTypeOK'
    BY <2>1 DEF AppTypeOK, appVars
  <2>4. CASE queueMsgs' = queueMsgs
    BY <2>1, <2>3, <2>4 DEF QueueTypeOK
  <2> QED
    BY <1>3, <2>1, <2>2, <2>3, <2>4, QueueType DEF InsertMsg, OnDisconnect
<1>4. CASE SwapQueMsg
  BY <1>4 DEF SwapQueMsg, QueueTypeOK, AppTypeOK, appVars
<1>5. CASE OnConnect \/ OnCloseConnect \/ OnRecv
  BY <1>5, HeadType DEF OnConnect, OnCloseConnect, OnRecv, Dispatch, QueueTypeOK, AppTypeOK
<1> QED
  BY <1>1, <1>2, <1>3, <1>4, <1>5, Cases

LEMMA TypeStep == TypeOK /\ WorkerJoined /\ Next => TypeOK'
  BY FlagType, StateType, CountType, DataType DEF TypeOK

-------------------------------------------------------------------------------
(* The worker and the handle data *)

LEMMA ControlStep ==
  ASSUME IndInv, Next
  PROVE  WorkerJoined' /\ HandleKept'
<1> USE DEF IndInv, TypeOK, FlagTypeOK, StateTypeOK, CountTypeOK, WorkerJoined, HandleKept,
            Handling, Living, Alive
<1>1. CASE Start
  BY <1>1, StartCount
  DEF Start, StartRefused, StartReady, StartDead, StartPending, StartNoThread, Starting, Up,
      opVars, logicVars
<1>2. CASE Close \/ CloseDone \/ AppClose \/ TakeObject \/ WorkerStop \/ PeerClose \/ PeerReset
  BY <1>2
  DEF Close, CloseDone, AppClose, TakeObject, WorkerStop, PeerClose, PeerReset, logicVars,
      opVars
<1>3. CASE GetStep
  BY <1>3
  DEF GetStep, GetRecv, GetDeadRecv, GetSend, GetDeadSend, WSASend, Down, Get, Touch, logicVars
<1>4. CASE RecvMessage \/ SetRsaKey \/ RecvMalformed \/ RecvDone \/ PostRecv
  BY <1>4
  DEF RecvMessage, SetRsaKey, RecvMalformed, RecvDone, PostRecv, Step, Touch, logicVars, opVars
<1>5. CASE PostRecvFails \/ DeleteHandle \/ InsertMsg \/ OnDisconnect
  BY <1>5
  DEF PostRecvFails, Down, DeleteHandle, InsertMsg, OnDisconnect, Step, Touch, logicVars,
      opVars
<1>6. CASE SwapQueMsg \/ SendHello
  BY <1>6 DEF SwapQueMsg, SendHello, MaySend, WSASend, CallClient, logicVars, opVars
<1>7. CASE OnConnect \/ OnCloseConnect \/ OnRecv
  BY <1>7 DEF OnConnect, OnCloseConnect, OnRecv, Dispatch, CallClient, logicVars, opVars
<1> QED
  BY <1>1, <1>2, <1>3, <1>4, <1>5, <1>6, <1>7 DEF Next, LogicStep, WorkerStep
-------------------------------------------------------------------------------
(* The two queues as one *)

\* How a step changes the messages to come.
Queued(m) ==
    /\ m \in Msg /\ Len(Coming') = Len(Coming) + 1
    /\ \A i \in 1 .. Len(Coming) : Coming'[i] = Coming[i]
    /\ Coming'[Len(Coming) + 1] = m

Handled(m) ==
    /\ m \in Msg /\ Len(Coming') = Len(Coming) - 1 /\ Len(Coming) > 0
    /\ \A i \in 1 .. Len(Coming') : Coming'[i] = Coming[i + 1]
    /\ Coming[1] = m

LEMMA ComingType ==
  ASSUME QueueTypeOK
  PROVE  Len(Coming) \in Nat /\ \A i \in 1 .. Len(Coming) : Coming[i] \in Msg
  BY DEF QueueTypeOK, Coming

LEMMA ComingQueued ==
  ASSUME QueueTypeOK, NEW c \in Conns, NEW state \in {"Accepted", "ReadBuff", "Closed"},
         NEW n \in Nat, Queue(c, state, n), queMsgs' = queMsgs
  PROVE  Queued([conn |-> c, state |-> state, seq |-> n])
<1> DEFINE m == [conn |-> c, state |-> state, seq |-> n]
<1>1. m \in Msg
  BY DEF Msg
<1>2. queueMsgs' = Append(queueMsgs, m)
  BY DEF Queue
<1> HIDE DEF m
<1>3. Queued(m)
  BY <1>1, <1>2 DEF QueueTypeOK, Coming, Queued
<1> QED
  BY <1>3 DEF m

LEMMA ComingHandled ==
  ASSUME QueueTypeOK, queMsgs # <<>>, queMsgs' = Tail(queMsgs), queueMsgs' = queueMsgs
  PROVE  Handled(Head(queMsgs))
<1>1. Head(queMsgs) \in Msg
  BY HeadTailProperties DEF QueueTypeOK
<1> QED
  BY <1>1 DEF QueueTypeOK, Coming, Handled

LEMMA ComingSame ==
  ASSUME QueueTypeOK, Silent \/ SwapQueMsg
  PROVE  Coming' = Coming /\ UNCHANGED <<app, seen>>
<1>1. CASE Silent
  BY <1>1 DEF Silent, Coming, appVars
<1>2. CASE SwapQueMsg
  BY <1>2, ConcatEmptySeq DEF SwapQueMsg, QueueTypeOK, Coming, appVars
<1> QED
  BY <1>1, <1>2

\* Every step of the client, seen from the one queue.
LEMMA ComingStep ==
  ASSUME TypeOK, WorkerJoined, Next
  PROVE  \/ /\ Coming' = Coming /\ UNCHANGED <<app, seen>>
            /\ ~StartPending
         \/ /\ StartDead /\ UNCHANGED <<app, seen>>
            /\ Queued([conn |-> starts + 1, state |-> "Closed", seq |-> 0])
         \/ /\ StartPending \/ StartNoThread
            /\ UNCHANGED <<app, seen>>
            /\ Queued([conn |-> starts + 1, state |-> "Accepted", seq |-> 0])
         \/ /\ InsertMsg /\ rsaPassed /\ got > 1 /\ UNCHANGED <<app, seen>>
            /\ Queued([conn |-> starts, state |-> "ReadBuff", seq |-> got - 1])
         \/ /\ OnDisconnect /\ running /\ UNCHANGED <<app, seen>>
            /\ Queued([conn |-> starts, state |-> "Closed", seq |-> 0])
         \/ /\ Handled(Head(queMsgs))
            /\ OnConnect \/ OnCloseConnect \/ OnRecv
<1> USE DEF TypeOK
<1>1. CASE Silent /\ ~StartPending
  BY <1>1, ComingSame
<1>2. CASE StartDead \/ StartPending \/ StartNoThread
  <2>1. starts + 1 \in Conns /\ queMsgs' = queMsgs /\ UNCHANGED <<app, seen>>
    BY <1>2, StartCount DEF Start, StartDead, StartPending, StartNoThread, Starting, appVars
  <2>2. CASE StartDead
    BY <2>1, <2>2, ComingQueued DEF StartDead
  <2>3. CASE (StartPending \/ StartNoThread) /\ Queue(starts + 1, "Accepted", 0)
    BY <2>1, <2>3, ComingQueued
  <2>4. CASE StartNoThread /\ UNCHANGED queueMsgs
    <3>1. Silent /\ ~StartPending
      BY <2>1, <2>4 DEF StartNoThread, Starting, StartPending, Up, Silent, appVars
    <3> QED
      BY <1>1, <3>1
  <2> QED
    BY <1>2, <2>2, <2>3, <2>4 DEF StartPending, StartNoThread
<1>3. CASE InsertMsg \/ OnDisconnect
  <2>1. starts \in Conns /\ queMsgs' = queMsgs /\ UNCHANGED <<app, seen>>
    BY <1>3 DEF InsertMsg, OnDisconnect, Step, WorkerJoined, appVars
  <2>2. CASE queueMsgs' = queueMsgs
    <3>1. Silent
      BY <2>1, <2>2 DEF Silent, appVars
    <3>2. starts' = starts /\ starts \in Nat
      BY <1>3 DEF InsertMsg, OnDisconnect, Step, CountTypeOK
    <3>3. ~StartPending
      BY <3>2 DEF StartPending, Starting
    <3> QED
      BY <1>1, <3>1, <3>3
  <2>3. CASE InsertMsg /\ rsaPassed /\ got > 1
    <3>1. got - 1 \in Nat /\ Queue(starts, "ReadBuff", got - 1)
      BY <2>3 DEF InsertMsg, CountTypeOK
    <3> QED
      BY <2>1, <2>3, <3>1, ComingQueued
  <2>4. CASE OnDisconnect /\ running
    BY <2>1, <2>4, ComingQueued DEF OnDisconnect
  <2> QED
    BY <1>3, <2>2, <2>3, <2>4 DEF InsertMsg, OnDisconnect
<1>4. CASE SwapQueMsg
  <2>1. ~StartPending
    BY <1>4 DEF SwapQueMsg, StartPending, Starting
  <2> QED
    BY <1>4, <2>1, ComingSame
<1>5. CASE OnConnect \/ OnCloseConnect \/ OnRecv
  <2>1. Handled(Head(queMsgs))
    BY <1>5, ComingHandled DEF OnConnect, OnCloseConnect, OnRecv, Dispatch
  <2> QED
    BY <1>5, <2>1
<1> QED
  BY <1>1, <1>2, <1>3, <1>4, <1>5, Cases
-------------------------------------------------------------------------------
(* A death is announced once *)

LEMMA LivingStep ==
  ASSUME IndInv, Next
  PROVE  \/ Start /\ starts' = starts + 1 /\ starts' \in Conns /\ ~Living
         \/ ~Start /\ starts' = starts /\ (Living' => Living)
<1> USE DEF IndInv, TypeOK, StateTypeOK, Handling, Living
<1>1. CASE Start
  <2>1. ~Living
    BY <1>1
    DEF Start, StartRefused, StartReady, StartDead, StartPending, StartNoThread, Starting,
        WorkerJoined
  <2> QED
    BY <1>1, <2>1, StartCount
<1>2. CASE Close \/ CloseDone \/ AppClose \/ TakeObject \/ PeerClose \/ PeerReset \/ SwapQueMsg
  BY <1>1, <1>2
  DEF Close, CloseDone, AppClose, TakeObject, PeerClose, PeerReset, SwapQueMsg, logicVars,
      opVars
<1>3. CASE GetStep
  BY <1>1, <1>3
  DEF GetStep, GetRecv, GetDeadRecv, GetSend, GetDeadSend, WSASend, Down, Get, logicVars
<1>4. CASE WorkerStep
  BY <1>1, <1>4
  DEF WorkerStep, WorkerStop, RecvMessage, InsertMsg, SetRsaKey, RecvMalformed, RecvDone,
      PostRecv, PostRecvFails, Down, OnDisconnect, DeleteHandle, Step, logicVars, opVars
<1>5. CASE SendHello \/ OnConnect \/ OnCloseConnect \/ OnRecv
  BY <1>1, <1>5 DEF SendHello, WSASend, OnConnect, OnCloseConnect, OnRecv, Dispatch, opVars
<1> QED
  BY <1>1, <1>2, <1>3, <1>4, <1>5 DEF Next, LogicStep

\* What a message under way means for what the application has been told.
LEMMA AppStep ==
  ASSUME TypeOK, OnConnect \/ OnCloseConnect \/ OnRecv
  PROVE  /\ Head(queMsgs).conn \in Conns
         /\ app' = [app EXCEPT ![Head(queMsgs).conn] =
                       IF OnConnect THEN "open" ELSE IF OnCloseConnect THEN "closed" ELSE @]
         /\ seen' = [seen EXCEPT ![Head(queMsgs).conn] =
                        IF OnRecv THEN Head(queMsgs).seq ELSE @]
         /\ OnConnect <=> Head(queMsgs).state = "Accepted"
         /\ OnCloseConnect <=> Head(queMsgs).state = "Closed"
         /\ OnRecv <=> Head(queMsgs).state = "ReadBuff"
<1>1. Head(queMsgs).conn \in Conns
  BY HeadType DEF TypeOK, OnConnect, OnCloseConnect, OnRecv, Dispatch
<1>2. /\ OnConnect => Head(queMsgs).state = "Accepted"
      /\ OnCloseConnect => Head(queMsgs).state = "Closed"
      /\ OnRecv => Head(queMsgs).state = "ReadBuff"
  BY DEF OnConnect, OnCloseConnect, OnRecv, Dispatch
<1>3. CASE OnConnect
  BY <1>1, <1>2, <1>3 DEF OnConnect, TypeOK, AppTypeOK
<1>4. CASE OnCloseConnect
  BY <1>1, <1>2, <1>4 DEF OnCloseConnect, TypeOK, AppTypeOK
<1>5. CASE OnRecv
  BY <1>1, <1>2, <1>5 DEF OnRecv, TypeOK, AppTypeOK
<1> QED
  BY <1>3, <1>4, <1>5

\* Every step of the client again, with what a message that is queued is about.
LEMMA QueuedStep ==
  ASSUME TypeOK, WorkerJoined, Next
  PROVE  \/ /\ Coming' = Coming /\ UNCHANGED <<app, seen>>
            /\ ~OnConnect /\ ~OnCloseConnect /\ ~OnRecv
         \/ /\ \/ StartDead \/ StartPending \/ StartNoThread
               \/ InsertMsg \/ OnDisconnect
            /\ \E m : /\ Queued(m) /\ UNCHANGED <<app, seen>>
                      /\ m.conn = starts'
                      /\ m.state = "Closed" => StartDead \/ OnDisconnect
         \/ /\ Handled(Head(queMsgs)) /\ starts' = starts
            /\ OnConnect \/ OnCloseConnect \/ OnRecv
<1>1. CASE /\ StartDead /\ UNCHANGED <<app, seen>>
           /\ Queued([conn |-> starts + 1, state |-> "Closed", seq |-> 0])
  <2>1. starts' = starts + 1
    BY <1>1 DEF StartDead, Starting
  <2>2. \E m : /\ Queued(m) /\ m.conn = starts'
               /\ m.state = "Closed" => StartDead \/ OnDisconnect
    <3> WITNESS [conn |-> starts + 1, state |-> "Closed", seq |-> 0]
    <3> QED
      BY <1>1, <2>1
  <2> QED
    BY <1>1, <2>2
<1>2. CASE /\ StartPending \/ StartNoThread
           /\ UNCHANGED <<app, seen>>
           /\ Queued([conn |-> starts + 1, state |-> "Accepted", seq |-> 0])
  <2>1. starts' = starts + 1
    BY <1>2 DEF StartPending, StartNoThread, Starting
  <2>2. \E m : /\ Queued(m) /\ m.conn = starts'
               /\ m.state = "Closed" => StartDead \/ OnDisconnect
    <3> WITNESS [conn |-> starts + 1, state |-> "Accepted", seq |-> 0]
    <3> QED
      BY <1>2, <2>1
  <2> QED
    BY <1>2, <2>2
<1>3. CASE /\ InsertMsg /\ rsaPassed /\ got > 1 /\ UNCHANGED <<app, seen>>
           /\ Queued([conn |-> starts, state |-> "ReadBuff", seq |-> got - 1])
  <2>1. starts' = starts
    BY <1>3 DEF InsertMsg, Step
  <2>2. \E m : /\ Queued(m) /\ m.conn = starts'
               /\ m.state = "Closed" => StartDead \/ OnDisconnect
    <3> WITNESS [conn |-> starts, state |-> "ReadBuff", seq |-> got - 1]
    <3> QED
      BY <1>3, <2>1
  <2> QED
    BY <1>3, <2>2
<1>4. CASE /\ OnDisconnect /\ running /\ UNCHANGED <<app, seen>>
           /\ Queued([conn |-> starts, state |-> "Closed", seq |-> 0])
  <2>1. starts' = starts
    BY <1>4 DEF OnDisconnect, Step
  <2>2. \E m : /\ Queued(m) /\ m.conn = starts'
               /\ m.state = "Closed" => StartDead \/ OnDisconnect
    <3> WITNESS [conn |-> starts, state |-> "Closed", seq |-> 0]
    <3> QED
      BY <1>4, <2>1
  <2> QED
    BY <1>4, <2>2
<1>5. CASE OnConnect \/ OnCloseConnect \/ OnRecv
  <2>0. Handled(Head(queMsgs))
    BY <1>5, ComingHandled DEF TypeOK, OnConnect, OnCloseConnect, OnRecv, Dispatch
  <2>1. starts' = starts
    BY <1>5 DEF OnConnect, OnCloseConnect, OnRecv, Dispatch
  <2> QED
    BY <1>5, <2>0, <2>1
<1> QED
  BY <1>1, <1>2, <1>3, <1>4, <1>5, ComingStep

LEMMA NotYetStep ==
  ASSUME IndInv, Next
  PROVE  NotYet'
<1> USE DEF IndInv, TypeOK
<1>1. /\ Len(Coming) \in Nat /\ starts \in Nat /\ (starts' = starts \/ starts' = starts + 1)
      /\ \A i \in 1 .. Len(Coming) : Coming[i].conn \in Nat /\ Coming[i].conn <= starts
      /\ \A c \in Conns : c \in Nat
  BY ComingType, LivingStep DEF CountTypeOK, NotYet, Conns, Msg
<1>2. CASE Coming' = Coming /\ UNCHANGED <<app, seen>>
  BY <1>1, <1>2 DEF NotYet
<1>3. CASE \E m : Queued(m) /\ UNCHANGED <<app, seen>> /\ m.conn = starts'
  <2> PICK m : Queued(m) /\ UNCHANGED <<app, seen>> /\ m.conn = starts'
    BY <1>3
  <2>1. \A i \in 1 .. Len(Coming') : i \in 1 .. Len(Coming) \/ i = Len(Coming) + 1
    BY <1>1 DEF Queued
  <2> QED
    BY <1>1, <2>1 DEF NotYet, Queued
<1>4. CASE /\ Handled(Head(queMsgs)) /\ starts' = starts
           /\ OnConnect \/ OnCloseConnect \/ OnRecv
  <2>1. Head(queMsgs).conn <= starts
    BY <1>1, <1>4 DEF Handled
  <2>2. \A i \in 1 .. Len(Coming') : Coming'[i] = Coming[i + 1] /\ i + 1 \in 1 .. Len(Coming)
    BY <1>1, <1>4 DEF Handled
  <2> QED
    BY <1>1, <1>4, <2>1, <2>2, AppStep DEF NotYet, AppTypeOK
<1> QED
  BY <1>2, <1>3, <1>4, QueuedStep

LEMMA DeathStep ==
  ASSUME IndInv, Next
  PROVE  DeathOnce'
<1>0. /\ TypeOK /\ WorkerJoined /\ HandleKept /\ NotYet /\ DeathOnce
      /\ QueueTypeOK /\ CountTypeOK /\ AppTypeOK
  BY DEF IndInv, TypeOK
<1>1. /\ Len(Coming) \in Nat /\ starts \in Nat
      /\ \A i \in 1 .. Len(Coming) : Coming[i].conn \in Nat /\ Coming[i].conn <= starts
      /\ \A c \in Conns : c \in Nat
  BY <1>0, ComingType DEF CountTypeOK, NotYet, Conns, Msg
<1>2. \* the first Closed of a Start is about a connection that nothing was heard of
      \/ /\ starts' = starts + 1 /\ starts' \in Conns /\ ~Living
         /\ app[starts'] = "none" /\ \A i \in 1 .. Len(Coming) : ~Death(i, starts')
      \/ starts' = starts /\ (Living' => Living)
  BY <1>0, <1>1, LivingStep DEF NotYet, Death
<1>3. CASE Coming' = Coming /\ UNCHANGED <<app, seen>>
  BY <1>0, <1>2, <1>3 DEF DeathOnce, Death
<1>4. CASE \E m : /\ Queued(m) /\ UNCHANGED <<app, seen>>
                  /\ m.conn = starts'
                  /\ m.state = "Closed" => StartDead \/ OnDisconnect
  <2> PICK m : /\ Queued(m) /\ UNCHANGED <<app, seen>>
               /\ m.conn = starts'
               /\ m.state = "Closed" => StartDead \/ OnDisconnect
    BY <1>4
  <2>1. /\ \A i \in 1 .. Len(Coming') : i \in 1 .. Len(Coming) \/ i = Len(Coming) + 1
        /\ \A i \in 1 .. Len(Coming) : i # Len(Coming) + 1
    BY <1>1 DEF Queued
  <2>2. m.state = "Closed" => /\ app[starts'] # "closed"
                              /\ \A i \in 1 .. Len(Coming) : ~Death(i, starts')
                              /\ ~Living'
    <3>1. CASE OnDisconnect
      BY <1>0, <1>2, <3>1 DEF OnDisconnect, Step, Living, DeathOnce, HandleKept, Handling, Alive
    <3>2. CASE StartDead
      BY <1>0, <1>1, <1>2, <3>2 DEF StartDead, Starting, Living, WorkerJoined, opVars
    <3> QED
      BY <3>1, <3>2
  <2>3. (\A c \in Conns : \A i, j \in 1 .. Len(Coming) :
            Death(i, c) /\ Death(j, c) => i = j /\ app[c] # "closed")'
    BY <1>0, <1>1, <1>2, <2>1, <2>2 DEF DeathOnce, Death, Queued
  <2>4. (Living => app[starts] # "closed" /\ \A i \in 1 .. Len(Coming) : ~Death(i, starts))'
    BY <1>0, <1>1, <1>2, <2>1, <2>2 DEF DeathOnce, Death, Queued
  <2> QED
    BY <2>3, <2>4 DEF DeathOnce
<1>5. CASE /\ Handled(Head(queMsgs)) /\ starts' = starts
           /\ OnConnect \/ OnCloseConnect \/ OnRecv
  <2> DEFINE d == Head(queMsgs).conn
  <2>1. /\ \A i \in 1 .. Len(Coming') : Coming'[i] = Coming[i + 1] /\ i + 1 \in 1 .. Len(Coming)
        /\ \A i, j \in 1 .. Len(Coming') : i + 1 = j + 1 => i = j
        /\ \A i \in 1 .. Len(Coming') : i + 1 # 1
        /\ 1 \in 1 .. Len(Coming)
    BY <1>1, <1>5 DEF Handled
  <2>2. /\ \A c \in Conns : c # d => app'[c] = app[c]
        /\ d \in Conns
        /\ app'[d] = "closed" => app[d] = "closed" \/ Death(1, d)
    BY <1>0, <1>1, <1>5, <2>1, AppStep DEF Handled, Death, AppTypeOK
  <2>3. \A i \in 1 .. Len(Coming'), c \in Conns : Death(i, c)' => Death(i + 1, c)
    BY <2>1 DEF Death
  <2>4. (\A c \in Conns : \A i, j \in 1 .. Len(Coming) :
            Death(i, c) /\ Death(j, c) => i = j /\ app[c] # "closed")'
    <3> SUFFICES ASSUME NEW c \in Conns, NEW i \in 1 .. Len(Coming'), NEW j \in 1 .. Len(Coming'),
                        Death(i, c)', Death(j, c)'
                 PROVE  i = j /\ app'[c] # "closed"
      BY DEF Death
    <3>1. Death(i + 1, c) /\ Death(j + 1, c)
      BY <2>3
    <3>2. i + 1 = j + 1 /\ app[c] # "closed"
      BY <1>0, <2>1, <3>1 DEF DeathOnce
    <3>3. ~Death(1, c)
      BY <1>0, <2>1, <3>1 DEF DeathOnce
    <3> QED
      BY <2>1, <2>2, <3>2, <3>3
  <2>5. (Living => app[starts] # "closed" /\ \A i \in 1 .. Len(Coming) : ~Death(i, starts))'
    <3> SUFFICES ASSUME Living'
                 PROVE  (app[starts] # "closed" /\ \A i \in 1 .. Len(Coming) : ~Death(i, starts))'
      OBVIOUS
    <3>1. Living /\ starts' = starts /\ starts \in Conns
      BY <1>0, <1>1, <1>2, <1>5 DEF Living, HandleKept
    <3>2. app[starts] # "closed" /\ \A i \in 1 .. Len(Coming) : ~Death(i, starts)
      BY <1>0, <3>1 DEF DeathOnce
    <3>3. app'[starts] # "closed"
      BY <2>1, <2>2, <3>1, <3>2
    <3>4. \A i \in 1 .. Len(Coming') : ~Death(i, starts)'
      BY <2>1, <3>1, <3>2 DEF Death
    <3> QED
      BY <3>1, <3>3, <3>4
  <2> QED
    BY <2>4, <2>5 DEF DeathOnce
<1> QED
  BY <1>0, <1>3, <1>4, <1>5, QueuedStep

LEMMA IndStutter == IndInv /\ UNCHANGED <<env, vars>> => IndInv'
  BY DEF IndInv, TypeOK, FlagTypeOK, StateTypeOK, CountTypeOK, QueueTypeOK, AppTypeOK, Coming,
     Death, Living, WorkerJoined, HandleKept, NotYet, DeathOnce, Handling, Alive, vars, logicVars,
     opVars, appVars

LEMMA IndStep == IndInv /\ [Next]_<<env, vars>> => IndInv'
  BY IndStutter, TypeStep, ControlStep, NotYetStep, DeathStep DEF IndInv

\* The parts of the invariant that hold whatever the application does.
THEOREM IndInvariant == Spec => []IndInv
<1>1. Init => IndInv
  BY IndInit
<1>2. IndInv /\ [Next]_<<env, vars>> => IndInv'
  BY IndStep
<1> QED
  BY <1>1, <1>2, PTL DEF Spec

\* Whatever fails and whenever the application closes and starts the client, the death of a
\* connection is announced at most once.
THEOREM ClosedOnceHolds == Spec => []ClosedOnce
<1>1. IndInv => ClosedOnce
  BY DEF IndInv, DeathOnce, ClosedOnce, Deaths, Death, Coming
<1> QED
  BY <1>1, IndInvariant, PTL

-------------------------------------------------------------------------------
(* Closing from OnCloseConnect only *)

\* A step is taken by a process that is alive.
LEMMA AliveStep == Next => Alive /\ env' = env
  BY DEF Next, LogicStep, Start, StartRefused, StartReady, StartDead, StartPending,
         StartNoThread, Starting, Close, CloseDone, AppClose, TakeObject, WorkerStep,
         WorkerStop, GetStep, GetRecv, GetDeadRecv, GetSend, GetDeadSend, WSASend, Down, Get,
         RecvMessage, InsertMsg, SetRsaKey, RecvMalformed, RecvDone, PostRecv, PostRecvFails,
         OnDisconnect, DeleteHandle, Step, SwapQueMsg, OnConnect, SendHello, OnCloseConnect,
         OnRecv, Dispatch, PeerClose, PeerReset

\* What a message that is under way, or a connection that is up, means for a step.
LEMMA OneStep ==
  ASSUME IndInv, Plain, Alive, OneAtATime, KeysInTime, Next
  PROVE  OneAtATime'
<1> USE DEF IndInv, TypeOK
<1>1. /\ Len(Coming) \in Nat /\ starts \in Nat
      /\ \/ Start /\ starts' = starts + 1 /\ starts' \in Conns /\ ~Living
         \/ ~Start /\ starts' = starts /\ (Living' => Living)
  BY ComingType, LivingStep DEF CountTypeOK
<1>2. CASE Start
  <2>1. /\ lpc = "start" /\ lpc' = "loop" /\ ~running /\ Len(Coming) = 0
        /\ UNCHANGED <<attached, queMsgs, app, seen>>
    BY <1>2 DEF Start, StartRefused, StartReady, StartDead, StartPending, StartNoThread, Starting,
       appVars, OneAtATime
  <2>2. \/ Coming' = Coming
        \/ \E m : Queued(m) /\ m.conn = starts' /\ (m.state = "Closed" => StartDead)
    <3>1. ~OnDisconnect /\ ~OnConnect /\ ~OnCloseConnect /\ ~OnRecv
      BY <1>1, <1>2 DEF OnDisconnect, Step, OnConnect, OnCloseConnect, OnRecv, Dispatch
    <3> QED
      BY <3>1, QueuedStep
  <2>3. Living' => running'
    BY <1>1, <1>2
    DEF Start, StartRefused, StartReady, StartDead, StartPending, StartNoThread, Starting, Up,
        opVars, Living
  <2>4. StartDead => ~Living'
    BY <1>1, <1>2 DEF StartDead, opVars, Living
  <2>5. \A i \in 1 .. Len(Coming') :
           /\ Coming'[i].conn = starts'
           /\ Coming'[i].state = "Closed" => i = Len(Coming') /\ ~Living'
    <3>1. CASE Coming' = Coming
      BY <2>1, <3>1
    <3>2. CASE \E m : Queued(m) /\ m.conn = starts' /\ (m.state = "Closed" => StartDead)
      <4> PICK m : Queued(m) /\ m.conn = starts' /\ (m.state = "Closed" => StartDead)
        BY <3>2
      <4>1. Len(Coming') = 1 /\ Coming'[1] = m
        BY <2>1 DEF Queued
      <4> QED
        BY <2>4, <4>1
    <3> QED
      BY <2>2, <3>1, <3>2
  <2> QED
    BY <1>1, <1>2, <2>1, <2>3, <2>5 DEF OneAtATime
<1>3. CASE ~Start
  <2> DEFINE Out == {"close", "joining", "start"}
  <2>0. attached' = attached /\ (running' = running \/ Close)
    <3>1. CASE Close \/ CloseDone \/ AppClose
      BY <3>1 DEF Plain, Close, CloseDone, AppClose
    <3>2. CASE GetStep
      BY <3>2, Zenon
      DEF GetStep, GetRecv, GetDeadRecv, GetSend, GetDeadSend, WSASend, Down, Get, logicVars
    <3>3. CASE WorkerStep
      BY <3>3, Zenon
      DEF WorkerStep, WorkerStop, RecvMessage, InsertMsg, SetRsaKey, RecvMalformed, RecvDone,
          PostRecv, PostRecvFails, Down, OnDisconnect, DeleteHandle, Step, logicVars
    <3>4. CASE TakeObject \/ PeerClose \/ PeerReset \/ SwapQueMsg
      BY <3>4, Zenon DEF TakeObject, PeerClose, PeerReset, SwapQueMsg, logicVars
    <3>5. CASE OnConnect \/ SendHello \/ OnCloseConnect \/ OnRecv
      BY <3>5, Zenon DEF OnConnect, SendHello, OnCloseConnect, OnRecv, Dispatch
    <3> QED
      BY <1>3, <3>1, <3>2, <3>3, <3>4, <3>5 DEF Next, LogicStep
  <2>1. /\ lpc' \in {"close", "joining"} => after' = "start"
        /\ lpc' \in Out => lpc \in Out \/ OnCloseConnect
        /\ lpc \in Out => lpc' \in Out
    <3> USE DEF OneAtATime, StateTypeOK
    <3>1. CASE Close \/ CloseDone \/ AppClose
      BY <3>1 DEF Plain, Close, CloseDone, AppClose
    <3>2. CASE GetStep
      BY <3>2
      DEF GetStep, GetRecv, GetDeadRecv, GetSend, GetDeadSend, WSASend, Down, Get, logicVars
    <3>3. CASE WorkerStep
      BY <3>3
      DEF WorkerStep, WorkerStop, RecvMessage, InsertMsg, SetRsaKey, RecvMalformed, RecvDone,
          PostRecv, PostRecvFails, Down, OnDisconnect, DeleteHandle, Step, logicVars
    <3>4. CASE TakeObject \/ PeerClose \/ PeerReset \/ SwapQueMsg
      BY <3>4 DEF TakeObject, PeerClose, PeerReset, SwapQueMsg, logicVars
    <3>5. CASE OnConnect \/ SendHello \/ OnCloseConnect \/ OnRecv
      BY <3>5 DEF OnConnect, SendHello, OnCloseConnect, OnRecv, Dispatch
    <3> QED
      BY <1>3, <3>1, <3>2, <3>3, <3>4, <3>5 DEF Next, LogicStep
  <2>2. starts' = starts /\ (Living' => Living)
    BY <1>1, <1>3
  <2>3. /\ lpc' \notin Out => lpc \notin Out
        /\ Living' => running'
        /\ attached'
    BY <2>0, <2>1, <2>2 DEF OneAtATime, Close
  <2>4. \/ Coming' = Coming /\ ~OnCloseConnect
        \/ /\ InsertMsg \/ OnDisconnect
           /\ \E m : Queued(m) /\ m.conn = starts' /\ (m.state = "Closed" => OnDisconnect)
        \/ Handled(Head(queMsgs)) /\ (OnConnect \/ OnCloseConnect \/ OnRecv)
    BY <1>3, QueuedStep DEF Start
  <2>5. CASE Coming' = Coming /\ ~OnCloseConnect
    BY <1>1, <2>1, <2>2, <2>3, <2>5 DEF OneAtATime
  <2>6. CASE /\ InsertMsg \/ OnDisconnect
             /\ \E m : Queued(m) /\ m.conn = starts' /\ (m.state = "Closed" => OnDisconnect)
    <3> PICK m : Queued(m) /\ m.conn = starts' /\ (m.state = "Closed" => OnDisconnect)
      BY <2>6
    <3>1. Living /\ ~OnCloseConnect /\ (OnDisconnect => ~Living')
      BY <2>6
      DEF InsertMsg, OnDisconnect, Step, Living, HandleKept, Handling, OnCloseConnect, Dispatch,
          logicVars
    <3>2. lpc \notin Out /\ lpc' \notin Out
      BY <2>1, <3>1 DEF OneAtATime
    <3>3. /\ \A i \in 1 .. Len(Coming') : i \in 1 .. Len(Coming) \/ i = Len(Coming')
          /\ Coming'[Len(Coming')] = m
      BY <1>1 DEF Queued
    <3>4. \A i \in 1 .. Len(Coming') :
             /\ Coming'[i].conn = starts'
             /\ Coming'[i].state = "Closed" => i = Len(Coming') /\ ~Living'
      BY <2>2, <3>1, <3>3 DEF OneAtATime, Queued
    <3> QED
      BY <2>1, <2>2, <2>3, <3>2, <3>4 DEF OneAtATime
  <2>7. CASE Handled(Head(queMsgs)) /\ (OnConnect \/ OnCloseConnect \/ OnRecv)
    <3>1. /\ \A i \in 1 .. Len(Coming') : Coming'[i] = Coming[i + 1] /\ i + 1 \in 1 .. Len(Coming)
          /\ \A i \in 1 .. Len(Coming') : i + 1 = Len(Coming) => i = Len(Coming')
          /\ 1 \in 1 .. Len(Coming) /\ (1 = Len(Coming) => Len(Coming') = 0)
          /\ Coming[1] = Head(queMsgs)
      BY <1>1, <2>7 DEF Handled
    <3>2. OnCloseConnect => Len(Coming') = 0 /\ ~Living /\ lpc \notin Out
      BY <3>1 DEF OneAtATime, OnCloseConnect, Dispatch
    <3>3. \A i \in 1 .. Len(Coming') :
             /\ Coming'[i].conn = starts'
             /\ Coming'[i].state = "Closed" => i = Len(Coming') /\ ~Living'
      BY <2>2, <3>1 DEF OneAtATime
    <3>4. lpc \notin Out /\ starts' \in Conns
      BY <2>2, <2>7 DEF OnConnect, OnCloseConnect, OnRecv, Dispatch, OneAtATime
    <3> QED
      BY <2>1, <2>2, <2>3, <3>2, <3>3, <3>4 DEF OneAtATime
  <2> QED
    BY <2>4, <2>5, <2>6, <2>7
<1> QED
  BY <1>2, <1>3

LEMMA SleepStep ==
  ASSUME IndInv, Plain, Alive, OneAtATime, Asleep, Next
  PROVE  Asleep'
<1> SUFFICES ASSUME lpc' = "slept" PROVE app'[starts'] = "open"
  BY DEF Asleep
<1> USE DEF IndInv, TypeOK
<1>1. CASE OnConnect
  <2>1. 1 \in 1 .. Len(Coming) /\ Coming[1] = Head(queMsgs)
    BY <1>1, ComingType, ComingHandled DEF OnConnect, Dispatch, Handled
  <2>2. Head(queMsgs).conn = starts /\ starts' = starts
    BY <1>1, <2>1 DEF OneAtATime, OnConnect, Dispatch
  <2> QED
    BY <1>1, <2>2, AppStep DEF AppTypeOK
<1>2. CASE ~OnConnect
  <2>1. lpc = "slept" /\ UNCHANGED <<app, starts>>
    BY <1>2
    DEF Next, LogicStep, Start, StartRefused, StartReady, StartDead, StartPending,
        StartNoThread, Starting, Close, CloseDone, AppClose, TakeObject, WorkerStep,
        WorkerStop, GetStep, GetRecv, GetDeadRecv, GetSend, GetDeadSend, WSASend, Down, Get,
        RecvMessage, InsertMsg, SetRsaKey, RecvMalformed, RecvDone, PostRecv, PostRecvFails,
        OnDisconnect, DeleteHandle, Step, SwapQueMsg, OnConnect, SendHello, OnCloseConnect,
        OnRecv, Dispatch, PeerClose, PeerReset, StateTypeOK, logicVars, appVars, OneAtATime
  <2> QED
    BY <2>1 DEF Asleep
<1> QED
  BY <1>1, <1>2

LEMMA KeysStep ==
  ASSUME IndInv, Plain, Alive, OneAtATime, KeysInTime, Next
  PROVE  KeysInTime'
<1>1. (Living => running) /\ (lpc = "close" => ~Living) /\ (lpc = "joining" => ~Living)
  BY DEF OneAtATime
<1> USE <1>1 DEF IndInv, TypeOK, FlagTypeOK, StateTypeOK, CountTypeOK, Handling, Living, KeysInTime,
            HandleKept, Alive
<1>2. CASE Start
  BY <1>2
  DEF Start, StartRefused, StartReady, StartDead, StartPending, StartNoThread, Starting, Up,
      opVars, logicVars
<1>3. CASE Close \/ CloseDone \/ AppClose
  BY <1>3 DEF Close, CloseDone, AppClose, opVars, Plain
<1>4. CASE TakeObject \/ PeerClose \/ PeerReset \/ SwapQueMsg \/ WorkerStop
  BY <1>4 DEF TakeObject, PeerClose, PeerReset, SwapQueMsg, WorkerStop, opVars, logicVars
<1>5. CASE GetStep
  BY <1>5
  DEF GetStep, GetRecv, GetDeadRecv, GetSend, GetDeadSend, WSASend, Down, Get, Touch, logicVars
<1>6. CASE RecvMessage \/ InsertMsg \/ SetRsaKey
  BY <1>6 DEF RecvMessage, InsertMsg, SetRsaKey, Step, Touch, opVars, logicVars
<1>7. CASE RecvMalformed \/ RecvDone \/ PostRecv \/ PostRecvFails \/ OnDisconnect \/ DeleteHandle
  BY <1>7
  DEF RecvMalformed, RecvDone, PostRecv, PostRecvFails, Down, OnDisconnect, DeleteHandle, Step,
      Touch, opVars, logicVars
<1>8. CASE SendHello \/ OnConnect \/ OnCloseConnect \/ OnRecv
  BY <1>8 DEF SendHello, WSASend, OnConnect, OnCloseConnect, OnRecv, Dispatch, opVars, logicVars
<1> QED
  BY <1>2, <1>3, <1>4, <1>5, <1>6, <1>7, <1>8 DEF Next, LogicStep, WorkerStep

LEMMA PlainStep ==
  ASSUME IndInv, PlainInv, Next
  PROVE  PlainInv'
<1>1. Alive /\ env' = env
  BY AliveStep
<1> QED
  BY <1>1, OneStep, KeysStep, SleepStep DEF PlainInv, Plain

\* No handle data is freed with anything of its connection under way, so that no completion
\* finds it freed.
LEMMA QuietStep ==
  ASSUME IndInv, PlainInv, QuietInv, Next
  PROVE  QuietInv'
<1> SUFFICES ASSUME Plain, env.quiet, QuietDown, OneAtATime, KeysInTime
             PROVE  QuietDown'
  BY AliveStep DEF PlainInv, QuietInv, Plain
<1> USE DEF IndInv, TypeOK, FlagTypeOK, StateTypeOK, CountTypeOK, Handling, Living, QuietDown,
            HandleKept, WorkerJoined, Alive
<1>1. CASE Start
  BY <1>1
  DEF Start, StartRefused, StartReady, StartDead, StartPending, StartNoThread, Starting, Up,
      opVars, logicVars
<1>2. CASE Close \/ CloseDone \/ AppClose
  BY <1>2 DEF Close, CloseDone, AppClose, opVars
<1>3. CASE TakeObject \/ PeerClose \/ PeerReset \/ SwapQueMsg \/ WorkerStop
  BY <1>3
  DEF TakeObject, PeerClose, PeerReset, SwapQueMsg, WorkerStop, opVars, logicVars, MayGoDown
<1>4. CASE GetStep
  BY <1>4
  DEF GetStep, GetRecv, GetDeadRecv, GetSend, GetDeadSend, WSASend, Down, Get, Touch, logicVars
<1>5. CASE RecvMessage \/ InsertMsg \/ SetRsaKey
  BY <1>5 DEF RecvMessage, InsertMsg, SetRsaKey, Step, Touch, opVars, logicVars
<1>6. CASE RecvMalformed \/ RecvDone \/ PostRecv
  BY <1>6 DEF RecvMalformed, RecvDone, PostRecv, Step, Touch, opVars, logicVars, MayGoDown
<1>7. CASE PostRecvFails \/ OnDisconnect \/ DeleteHandle
  BY <1>7 DEF PostRecvFails, Down, OnDisconnect, DeleteHandle, Step, Touch, opVars, logicVars
<1>8. CASE SendHello \/ OnConnect \/ OnCloseConnect \/ OnRecv
  <2>1. attached
    BY DEF OneAtATime
  <2>2. crash' = crash
    BY <1>8, <2>1 DEF SendHello, WSASend, OnConnect, OnCloseConnect, OnRecv, CallClient
  <2>3. CASE SendHello
    BY <2>2, <2>3 DEF SendHello, MaySend, WSASend
  <2>4. CASE OnConnect \/ OnCloseConnect \/ OnRecv
    BY <2>2, <2>4 DEF OnConnect, OnCloseConnect, OnRecv, Dispatch, opVars
  <2> QED
    BY <1>8, <2>3, <2>4
<1> QED
  BY <1>1, <1>2, <1>3, <1>4, <1>5, <1>6, <1>7, <1>8 DEF Next, LogicStep, WorkerStep

-------------------------------------------------------------------------------
(* The order of the messages *)

\* A message counts when it is queued.
LEMMA NumberedStep ==
  ASSUME IndInv, Alive, OneAtATime, KeysInTime, Next, ~Start, Living'
  PROVE  /\ InsertMsg /\ rsaPassed /\ got > 1 =>
               Numbered' = Numbered + 1 /\ Numbered' = got - 1
         /\ ~(InsertMsg /\ rsaPassed /\ got > 1) => Numbered' = Numbered
<1>1. Living /\ running
  BY LivingStep DEF OneAtATime
<1> USE <1>1 DEF IndInv, TypeOK, FlagTypeOK, StateTypeOK, CountTypeOK, Handling, Living, KeysInTime,
            Numbered
<1>2. ASSUME ~InsertMsg, Close \/ CloseDone \/ AppClose PROVE Numbered' = Numbered
  BY <1>2 DEF Close, CloseDone, AppClose, opVars
<1>3. ASSUME ~InsertMsg, TakeObject \/ PeerClose \/ PeerReset \/ SwapQueMsg \/ WorkerStop
      PROVE  Numbered' = Numbered
  BY <1>3 DEF TakeObject, PeerClose, PeerReset, SwapQueMsg, WorkerStop, opVars
<1>4. ASSUME ~InsertMsg, GetStep PROVE Numbered' = Numbered
  BY <1>4 DEF GetStep, GetRecv, GetDeadRecv, GetSend, GetDeadSend, WSASend, Down, Get
<1>5. ASSUME ~InsertMsg, RecvMessage \/ SetRsaKey PROVE Numbered' = Numbered
  <2>1. CASE RecvMessage
    <3>1. wpc = "recv" /\ wpc' = "insert" /\ got' = got + 1
      BY <2>1 DEF RecvMessage, Step
    <3> QED
      BY <3>1
  <2>2. CASE SetRsaKey
    BY <2>2 DEF SetRsaKey, Step, opVars
  <2> QED
    BY <1>5, <2>1, <2>2
<1>6. CASE InsertMsg
  BY <1>6 DEF InsertMsg, Step, opVars
<1>7. ASSUME ~InsertMsg, \/ RecvMalformed \/ RecvDone \/ PostRecv
                         \/ PostRecvFails \/ OnDisconnect \/ DeleteHandle
      PROVE  Numbered' = Numbered
  BY <1>7
  DEF RecvMalformed, RecvDone, PostRecv, PostRecvFails, Down, OnDisconnect, DeleteHandle, Step,
      opVars
<1>8. ASSUME ~InsertMsg, SendHello \/ OnConnect \/ OnCloseConnect \/ OnRecv
      PROVE  Numbered' = Numbered
  BY <1>8 DEF SendHello, WSASend, OnConnect, OnCloseConnect, OnRecv, Dispatch, opVars
<1> QED
  BY <1>2, <1>3, <1>4, <1>5, <1>6, <1>7, <1>8 DEF Next, LogicStep, WorkerStep

\* The logic thread is in its loop only after a Start or a callback.
LEMMA LoopStep ==
  ASSUME IndInv, OneAtATime, Next, ~Start, lpc' \in {"loop", "slept"}
  PROVE  lpc \in {"loop", "slept"}
<1> USE DEF StateTypeOK, IndInv, TypeOK
<1>1. CASE Close \/ CloseDone \/ AppClose
  BY <1>1 DEF Close, CloseDone, AppClose, OneAtATime
<1>2. CASE TakeObject \/ PeerClose \/ PeerReset \/ WorkerStep \/ GetStep
  BY <1>2
  DEF TakeObject, PeerClose, PeerReset, WorkerStep, WorkerStop, GetStep, GetRecv, GetDeadRecv,
      GetSend, GetDeadSend, WSASend, Down, Get, RecvMessage, InsertMsg, SetRsaKey,
      RecvMalformed, RecvDone, PostRecv, PostRecvFails, OnDisconnect, DeleteHandle, Step,
      logicVars
<1>3. CASE SwapQueMsg \/ SendHello \/ OnConnect \/ OnCloseConnect \/ OnRecv
  BY <1>3 DEF SwapQueMsg, SendHello, WSASend, OnConnect, OnCloseConnect, OnRecv, Dispatch
<1> QED
  BY <1>1, <1>2, <1>3 DEF Next, LogicStep

LEMMA OrderStep ==
  ASSUME IndInv, PlainInv, OrderInv, Next
  PROVE  OrderInv'
<1> SUFFICES ASSUME Announced, Alive, OneAtATime, KeysInTime, InOrder
             PROVE  InOrder'
  BY AliveStep DEF PlainInv, OrderInv, Announced, Plain
<1>1. /\ Len(Coming) \in Nat /\ starts \in Nat
      /\ \/ Start /\ starts' = starts + 1 /\ starts' \in Conns /\ ~Living
         \/ ~Start /\ starts' = starts /\ (Living' => Living)
  BY ComingType, LivingStep DEF IndInv, TypeOK, CountTypeOK
<1>2. CASE Start
  <2>1. /\ app[starts'] = "none" /\ seen[starts'] = 0
        /\ UNCHANGED <<app, seen>>
        /\ Len(Coming) = 0
    <3>1. lpc = "start" /\ UNCHANGED <<app, seen>>
      BY <1>2
      DEF Start, StartRefused, StartReady, StartDead, StartPending, StartNoThread, Starting, appVars
    <3>2. starts' \in Conns /\ starts' > starts
      BY <1>1, <1>2
    <3> QED
      BY <3>1, <3>2 DEF IndInv, NotYet, OneAtATime
  <2>2. CASE Coming' = Coming /\ ~StartPending
    <3>1. ~Living'
      BY <1>1, <1>2, <2>2
      DEF Start, StartRefused, StartReady, StartDead, StartNoThread, Starting, Announced, opVars,
          Living
    <3> QED
      BY <2>1, <2>2, <3>1 DEF InOrder
  <2>3. CASE StartDead /\ Queued([conn |-> starts + 1, state |-> "Closed", seq |-> 0])
    <3>1. ~Living'
      BY <1>1, <1>2, <2>3 DEF StartDead, opVars, Living
    <3>2. Len(Coming') = 1 /\ Coming'[1].state = "Closed"
      BY <2>1, <2>3 DEF Queued
    <3> QED
      BY <2>1, <3>1, <3>2 DEF InOrder
  <2>4. CASE /\ StartPending \/ StartNoThread
             /\ Queued([conn |-> starts + 1, state |-> "Accepted", seq |-> 0])
    <3>1. Len(Coming') = 1 /\ Coming'[1].state = "Accepted"
      BY <2>1, <2>4 DEF Queued
    <3>2. Announcement' = 1
      BY <3>1 DEF Announcement
    <3>3. Living' => got' = 0
      BY <1>1, <1>2, <2>4 DEF StartPending, StartNoThread, Up, Living, opVars
    <3> QED
      BY <2>1, <3>1, <3>2, <3>3 DEF InOrder, Numbered
  <2>5. ~OnDisconnect /\ ~InsertMsg /\ ~OnConnect /\ ~OnCloseConnect /\ ~OnRecv
    BY <1>1, <1>2
    DEF OnDisconnect, InsertMsg, Step, OnConnect, OnCloseConnect, OnRecv, Dispatch
  <2> QED
    BY <2>2, <2>3, <2>4, <2>5, ComingStep DEF IndInv
<1>3. CASE ~Start
  <2>1. starts' = starts /\ (Living' => Living)
    BY <1>1, <1>3
  <2>2. CASE Coming' = Coming /\ UNCHANGED <<app, seen>> /\ ~(InsertMsg /\ rsaPassed /\ got > 1)
    <3>1. Living' => Numbered' = Numbered
      BY <1>3, <2>2, NumberedStep
    <3>2. lpc' \in {"loop", "slept"} => lpc \in {"loop", "slept"}
      BY <1>3, LoopStep
    <3>3. Announcement' = Announcement
      BY <2>2 DEF Announcement
    <3> QED
      BY <2>1, <2>2, <3>1, <3>2, <3>3 DEF InOrder
  <2>3. CASE /\ InsertMsg /\ rsaPassed /\ got > 1 /\ UNCHANGED <<app, seen>>
             /\ Queued([conn |-> starts, state |-> "ReadBuff", seq |-> got - 1])
    <3> DEFINE m == [conn |-> starts, state |-> "ReadBuff", seq |-> got - 1]
    <3>1. Living /\ Living' /\ lpc' = lpc
      BY <2>3 DEF IndInv, HandleKept, InsertMsg, Step, Living, Handling, logicVars, opVars
    <3>2. Numbered' = Numbered + 1 /\ Numbered' = got - 1
      BY <1>3, <2>3, <3>1, NumberedStep
    <3>3. /\ \A i \in 1 .. Len(Coming') : i \in 1 .. Len(Coming) \/ i = Len(Coming) + 1
          /\ Len(Coming') = Len(Coming) + 1
          /\ \A i \in 1 .. Len(Coming) : Coming'[i] = Coming[i]
          /\ Coming'[Len(Coming) + 1].state = "ReadBuff"
          /\ Coming'[Len(Coming) + 1].seq = got - 1
      BY <1>1, <2>3 DEF Queued
    <3>4. Announcement' = Announcement /\ Announcement \in {0, 1}
      BY <1>1, <3>3 DEF Announcement
    <3>5. Numbered \in Nat /\ seen[starts] \in Nat /\ got \in Nat
      BY <1>1, <2>3
      DEF Numbered, IndInv, TypeOK, AppTypeOK, CountTypeOK, WorkerJoined, InsertMsg, Step
    <3>6. /\ app[starts] = "open" \/ Announcement = 1
          /\ Len(Coming) - Announcement + seen[starts] = Numbered
      BY <3>1 DEF InOrder
    <3>7. Len(Coming') - Announcement' + seen'[starts'] = Numbered'
      BY <1>1, <2>1, <2>3, <3>2, <3>3, <3>4, <3>5, <3>6
    <3>8. got - 1 = seen'[starts'] + (Len(Coming) + 1) - Announcement'
      BY <1>1, <2>1, <2>3, <3>2, <3>3, <3>4, <3>5, <3>6
    <3> QED
      BY <1>1, <2>1, <2>3, <3>1, <3>3, <3>4, <3>6, <3>7, <3>8 DEF InOrder
  <2>4. CASE /\ OnDisconnect /\ running /\ UNCHANGED <<app, seen>>
             /\ Queued([conn |-> starts, state |-> "Closed", seq |-> 0])
    <3>1. Living /\ ~Living' /\ lpc' = lpc
      BY <2>4 DEF IndInv, HandleKept, OnDisconnect, Step, Living, Handling, logicVars, opVars
    <3>2. /\ \A i \in 1 .. Len(Coming') : i \in 1 .. Len(Coming) \/ i = Len(Coming) + 1
          /\ Len(Coming') = Len(Coming) + 1
          /\ \A i \in 1 .. Len(Coming) : Coming'[i] = Coming[i]
          /\ Coming'[Len(Coming) + 1].state = "Closed"
      BY <1>1, <2>4 DEF Queued
    <3>3. Announcement' = Announcement
      BY <1>1, <3>2 DEF Announcement
    <3> QED
      BY <1>1, <2>1, <2>4, <3>1, <3>2, <3>3 DEF InOrder
  <2>5. CASE Handled(Head(queMsgs)) /\ (OnConnect \/ OnCloseConnect \/ OnRecv)
    <3> DEFINE m == Head(queMsgs)
    <3>1. /\ \A i \in 1 .. Len(Coming') :
                Coming'[i] = Coming[i + 1] /\ i + 1 \in 1 .. Len(Coming) /\ i + 1 # 1
          /\ Len(Coming') = Len(Coming) - 1 /\ 1 \in 1 .. Len(Coming)
          /\ Coming[1] = m
      BY <1>1, <2>5 DEF Handled
    <3>2. m.conn = starts /\ starts \in Conns /\ Coming[1].conn = starts
      BY <2>5, <3>1, AppStep DEF OneAtATime, IndInv
    <3>3. Announcement' = 0
      BY <3>1 DEF Announcement, InOrder
    <3>4. seen[starts] \in Nat
      BY <3>2 DEF IndInv, TypeOK, AppTypeOK
    <3>5. Living' => Living /\ Numbered' = Numbered
      BY <1>3, <2>1, <2>5, NumberedStep
      DEF InsertMsg, Step, OnConnect, OnCloseConnect, OnRecv, Dispatch, logicVars
    <3>6. CASE OnConnect
      <4>1. m.state = "Accepted" /\ lpc' = "slept"
        BY <3>6 DEF OnConnect, Dispatch
      <4>2. /\ app'[starts] = "open" /\ seen' = seen /\ Announcement = 1
        BY <3>1, <3>2, <3>6, <4>1 DEF OnConnect, Announcement, IndInv, TypeOK, AppTypeOK
      <4>3. /\ \A i \in 1 .. Len(Coming') : /\ Coming'[i].state # "Accepted"
                                            /\ Coming'[i].state = "ReadBuff" =>
                                                 Coming'[i].seq = seen[starts] + (i + 1) - 1
        BY <3>1, <4>2 DEF InOrder
      <4>4. Living' => Len(Coming') - 0 + seen[starts] = Numbered'
        BY <1>1, <3>1, <3>4, <3>5, <4>2 DEF InOrder
      <4>5. \A i \in 1 .. Len(Coming') : seen[starts] + (i + 1) - 1 = seen[starts] + i - 0
        BY <3>4
      <4> QED
        BY <2>1, <3>3, <4>2, <4>3, <4>4, <4>5 DEF InOrder
    <3>7. CASE OnCloseConnect
      <4>1. m.state = "Closed" /\ lpc' = "close"
        BY <3>7 DEF OnCloseConnect, Dispatch
      <4>2. Len(Coming') = 0 /\ ~Living'
        BY <3>1, <3>5, <4>1 DEF OneAtATime
      <4> QED
        BY <4>1, <4>2 DEF InOrder
    <3>8. CASE OnRecv
      <4>1. m.state = "ReadBuff" /\ lpc' = lpc /\ app' = app
        BY <3>8 DEF OnRecv, Dispatch
      <4>2. Announcement = 0 /\ app[starts] = "open" /\ m.seq = seen[starts] + 1
        <5>1. Announcement = 0
          BY <3>1, <4>1 DEF Announcement
        <5> QED
          BY <3>1, <3>4, <4>1, <5>1 DEF InOrder
      <4>3. seen'[starts] = seen[starts] + 1
        BY <3>2, <3>8, <4>2 DEF OnRecv, IndInv, TypeOK, AppTypeOK
      <4>4. \A i \in 1 .. Len(Coming') : /\ Coming'[i].state # "Accepted"
                                         /\ Coming'[i].state = "ReadBuff" =>
                                              Coming'[i].seq = seen[starts] + (i + 1) - 0
        BY <3>1, <4>2 DEF InOrder
      <4>5. \A i \in 1 .. Len(Coming') : seen[starts] + (i + 1) - 0 = seen'[starts] + i - 0
        BY <3>4, <4>3
      <4>6. Living' => Len(Coming') - 0 + seen'[starts] = Numbered'
        BY <1>1, <3>1, <3>4, <3>5, <4>2, <4>3 DEF InOrder
      <4> QED
        BY <2>1, <3>3, <4>1, <4>2, <4>4, <4>5, <4>6 DEF InOrder
    <3> QED
      BY <2>5, <3>6, <3>7, <3>8
  <2>6. InsertMsg /\ rsaPassed /\ got > 1 => /\ UNCHANGED <<app, seen>>
             /\ Queued([conn |-> starts, state |-> "ReadBuff", seq |-> got - 1])
    <3> SUFFICES ASSUME InsertMsg, rsaPassed, got > 1
                 PROVE  /\ UNCHANGED <<app, seen>>
                        /\ Queued([conn |-> starts, state |-> "ReadBuff", seq |-> got - 1])
      OBVIOUS
    <3>1. /\ starts \in Conns /\ queMsgs' = queMsgs /\ UNCHANGED <<app, seen>>
          /\ got - 1 \in Nat /\ Queue(starts, "ReadBuff", got - 1)
      BY DEF InsertMsg, Step, IndInv, TypeOK, CountTypeOK, WorkerJoined, appVars
    <3> QED
      BY <3>1, ComingQueued DEF IndInv, TypeOK
  <2> QED
    BY <1>3, <2>2, <2>3, <2>4, <2>5, <2>6, ComingStep DEF Start, IndInv
<1> QED
  BY <1>2, <1>3

-------------------------------------------------------------------------------
(* The theorems *)

ClientInv == IndInv /\ PlainInv /\ QuietInv /\ OrderInv

LEMMA ClientStutter ==
  PlainInv /\ QuietInv /\ OrderInv /\ UNCHANGED <<env, vars>> => (PlainInv /\ QuietInv /\ OrderInv)'
  BY DEF PlainInv, QuietInv, OrderInv, Plain, Alive, OneAtATime, KeysInTime, Asleep, QuietDown,
         Announced, InOrder, Announcement, Numbered, Living, Handling, Coming, vars, logicVars,
         opVars, appVars

\* What a client may rely on, for every environment: the parts of the invariant with a
\* hypothesis on the environment hold where it does.
THEOREM ClientInvariant == Spec => []ClientInv
<1>1. Init => ClientInv
  BY IndInit DEF ClientInv
<1>2. ClientInv /\ [Next]_<<env, vars>> => ClientInv'
  BY IndStep, ClientStutter, PlainStep, QuietStep, OrderStep DEF ClientInv
<1> QED
  BY <1>1, <1>2, PTL DEF Spec

\* No completion finds the handle data of its connection freed, over any number of
\* reconnects, as long as no connection goes down with a send under way, nothing is sent
\* after the server's FIN, and the application closes the client from OnCloseConnect only:
\* NoFault.
THEOREM NoFaultHolds == Spec => []NoFault
<1>1. ClientInv => NoFault
  BY DEF ClientInv, QuietInv, QuietDown, NoFault, Alive
<1> QED
  BY <1>1, ClientInvariant, PTL

\* The keys that the client uses are those of its own connection.
THEOREM KeysAreOwnHolds == Spec => []KeysAreOwn
<1>1. ClientInv => KeysAreOwn
  BY DEF ClientInv, PlainInv, KeysInTime, KeysAreOwn
<1> QED
  BY <1>1, ClientInvariant, PTL

\* What is sent is encrypted with the keys of the connection, which the application has been
\* told of.
THEOREM SendsAfterHandshakeHolds == Spec => SendsAfterHandshake
<1> DEFINE Sends == Plain /\ sends' > sends => got > 0 /\ app[starts] = "open"
<1>1. ClientInv /\ [Next]_<<env, vars>> => [Sends]_vars
  <2> SUFFICES ASSUME ClientInv, Next, Plain, sends' > sends
               PROVE  got > 0 /\ app[starts] = "open"
    BY DEF vars
  <2> USE DEF ClientInv, IndInv, TypeOK, CountTypeOK
  <2>1. SendHello /\ MaySend
    <3> USE DEF Next, LogicStep
    <3>1. CASE Start \/ Close \/ CloseDone \/ AppClose
      BY <3>1
      DEF Start, StartRefused, StartReady, StartDead, StartPending, StartNoThread, Up, Close,
          CloseDone, AppClose, opVars
    <3>2. CASE TakeObject \/ PeerClose \/ PeerReset \/ SwapQueMsg \/ OnConnect \/ OnCloseConnect \/ OnRecv
      BY <3>2
      DEF TakeObject, PeerClose, PeerReset, SwapQueMsg, OnConnect, OnCloseConnect, OnRecv,
          Dispatch, opVars
    <3>3. CASE WorkerStep
      BY <3>3
      DEF WorkerStep, WorkerStop, RecvMessage, InsertMsg, SetRsaKey, RecvMalformed, RecvDone,
          PostRecv, PostRecvFails, Down, OnDisconnect, DeleteHandle, Step, opVars
    <3>4. CASE GetStep
      BY <3>4 DEF GetStep, GetRecv, GetDeadRecv, GetSend, GetDeadSend, WSASend, Down, Get
    <3>5. CASE SendHello
      BY <3>5 DEF SendHello
    <3> QED
      BY <3>1, <3>2, <3>3, <3>4, <3>5
  <2>2. lpc = "slept" /\ MaySend
    BY <2>1 DEF SendHello
  <2> QED
    BY <2>2 DEF MaySend, PlainInv, OneAtATime, KeysInTime, Asleep, HandleKept
<1> QED
  BY <1>1, ClientInvariant, PTL DEF Spec, SendsAfterHandshake

LEMMA SessionStep ==
  ASSUME ClientInv, Next
  PROVE  [S!SessionNext]_(S!clientVars)
<1> USE DEF ClientInv
<1>1. Alive /\ env' = env
  BY AliveStep
<1>2. CASE ~Announced
  <2>1. Told(app, "none")' = Told(app, "none") /\ Told(seen, 0)' = Told(seen, 0)
    BY <1>1, <1>2 DEF Told, Announced, Plain
  <2> QED
    BY <2>1 DEF S!clientVars
<1>3. CASE UNCHANGED <<app, seen>>
  <2>1. Told(app, "none")' = Told(app, "none") /\ Told(seen, 0)' = Told(seen, 0)
    BY <1>1, <1>3 DEF Told, Plain
  <2> QED
    BY <2>1 DEF S!clientVars
<1>4. CASE Announced /\ Handled(Head(queMsgs)) /\ (OnConnect \/ OnCloseConnect \/ OnRecv)
  <2> DEFINE m == Head(queMsgs)
  <2>1. OneAtATime /\ InOrder /\ Plain /\ Plain'
    BY <1>1, <1>4 DEF PlainInv, OrderInv, Announced, Plain
  <2>2. /\ Told(app, "none") = app /\ Told(app, "none")' = app'
        /\ Told(seen, 0) = seen /\ Told(seen, 0)' = seen'
    BY <1>1, <1>4, <2>1 DEF Told, Announced, Plain
  <2>3. 1 \in 1 .. Len(Coming) /\ Coming[1] = m
    BY <1>4, ComingType DEF Handled, IndInv, TypeOK
  <2>4. m.conn = starts /\ starts \in Conns
    BY <1>4, <2>1, <2>3, AppStep DEF OneAtATime, IndInv
  <2>5. \A d \in Conns : d > starts => app[d] = "none"
    BY DEF IndInv, NotYet
  <2>6. app \in [Conns -> {"none", "open", "closed"}] /\ seen \in [Conns -> Nat]
    BY DEF IndInv, TypeOK, AppTypeOK
  <2>7. CASE OnConnect
    <3>1. m.state = "Accepted" /\ app' = [app EXCEPT ![starts] = "open"] /\ seen' = seen
      BY <2>4, <2>7 DEF OnConnect, Dispatch
    <3>2. app[starts] = "none"
      BY <2>1, <2>3, <3>1 DEF InOrder
    <3>3. S!Connect(starts)
      BY <2>2, <2>5, <3>1, <3>2 DEF S!Connect, S!Newest
    <3> QED
      BY <2>4, <3>3 DEF S!SessionNext
  <2>8. CASE OnCloseConnect
    <3>1. /\ m.state = "Closed" /\ app' = [app EXCEPT ![starts] = "closed"] /\ seen' = seen
          /\ lpc = "loop"
      BY <2>4, <2>8 DEF OnCloseConnect, Dispatch
    <3>2. app[starts] # "closed"
      BY <2>1, <3>1 DEF InOrder
    <3>3. S!CloseConnect(starts)
      BY <2>2, <2>5, <3>1, <3>2 DEF S!CloseConnect, S!Newest
    <3> QED
      BY <2>4, <3>3 DEF S!SessionNext
  <2>9. CASE OnRecv
    <3>1. m.state = "ReadBuff" /\ seen' = [seen EXCEPT ![starts] = m.seq] /\ app' = app
      BY <2>4, <2>9 DEF OnRecv, Dispatch
    <3>2. Announcement = 0
      BY <2>3, <3>1 DEF Announcement
    <3>3. app[starts] = "open" /\ m.seq = seen[starts] + 1
      BY <2>1, <2>3, <2>4, <2>6, <3>1, <3>2 DEF InOrder
    <3>4. S!Recv(starts)
      BY <2>2, <2>5, <3>1, <3>3 DEF S!Recv, S!Newest
    <3> QED
      BY <2>4, <3>4 DEF S!SessionNext
  <2> QED
    BY <1>4, <2>7, <2>8, <2>9
<1> QED
  BY <1>2, <1>3, <1>4, QueuedStep DEF IndInv

\* The client implements ClientSession, with the history of what OnConnect, OnRecv and
\* OnCloseConnect told the application as its state: SessionKept.
THEOREM SessionRefined == Spec => SessionKept
<1>1. Init => S!SessionInit
  BY DEF Init, S!SessionInit, Told
<1>2. ClientInv /\ [Next]_<<env, vars>> => [S!SessionNext]_(S!clientVars)
  <2>1. UNCHANGED <<env, vars>> => UNCHANGED S!clientVars
    BY DEF vars, appVars, S!clientVars, Told, Plain
  <2> QED
    BY <2>1, SessionStep
<1> QED
  BY <1>1, <1>2, ClientInvariant, PTL DEF Spec, SessionKept, S!SessionSpec
===============================================================================
