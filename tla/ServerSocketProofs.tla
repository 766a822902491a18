-------------------------- MODULE ServerSocketProofs --------------------------
(***************************************************************************)
(* Theorems of ServerSocket, for every number of workers, connections and  *)
(* sinks, for every limit and bound, and with or without sends under way   *)
(* when a connection goes down.                                            *)
(***************************************************************************)
EXTENDS ServerSocket, FiniteSetTheorems, SequenceTheorems, TLAPS

-------------------------------------------------------------------------------
(* Type correctness *)

\* Initially and, below, in every step.
LEMMA TypeInit == Init => TypeOK
<1> SUFFICES ASSUME Init PROVE TypeOK
  OBVIOUS
<1>1. ServerTypeOK
  <2>1. running \in BOOLEAN /\ listening \in BOOLEAN
    BY Zenon DEF Init
  <2>2. starts \in 0 .. MaxStarts /\ lpc \in {"loop", "joining"} /\ crash \in Crashes
    BY ServerAssumption DEF Init, Crashes
  <2> QED
    BY <2>1, <2>2 DEF ServerTypeOK
<1>2. AcceptTypeOK
  BY ServerAssumption DEF Init, AcceptTypeOK, Conns, NoConn
<1>3. ConnTypeOK
  BY ServerAssumption DEF Init, ConnTypeOK
<1>4. QueueTypeOK
  BY DEF Init, QueueTypeOK
<1>5. SinkTypeOK
  BY DEF Init, SinkTypeOK, AppStatus
<1>6. WorkerTypeOK
  BY DEF Init, WorkerTypeOK
<1> QED
  BY <1>1, <1>2, <1>3, <1>4, <1>5, <1>6 DEF TypeOK

\* A step keeps the type of what it leaves alone.
LEMMA ServerFrame == ServerTypeOK /\ UNCHANGED <<serverVars, crash>> => ServerTypeOK'
  BY DEF ServerTypeOK, serverVars

LEMMA AcceptFrame == AcceptTypeOK /\ UNCHANGED acceptVars => AcceptTypeOK'
  BY DEF AcceptTypeOK, acceptVars

LEMMA ConnFrame == ConnTypeOK /\ UNCHANGED <<connVars, streamVars>> => ConnTypeOK'
  BY DEF ConnTypeOK, connVars, streamVars

LEMMA QueueFrame == QueueTypeOK /\ UNCHANGED <<queueMsgs, queMsgs>> => QueueTypeOK'
  BY DEF QueueTypeOK

LEMMA SinkFrame == SinkTypeOK /\ UNCHANGED sinkVars => SinkTypeOK'
  BY DEF SinkTypeOK, sinkVars

LEMMA WorkerFrame == WorkerTypeOK /\ UNCHANGED workVars => WorkerTypeOK'
  BY DEF WorkerTypeOK, workVars

\* The helpers of the actions keep the types of what they assign.
LEMMA CheckType ==
  ASSUME ServerTypeOK, UNCHANGED serverVars, NEW ok, NEW site \in Crashes,
         Check(ok, site)
  PROVE  ServerTypeOK'
  BY DEF ServerTypeOK, serverVars, Check

LEMMA TouchType ==
  ASSUME ServerTypeOK, UNCHANGED serverVars, NEW c, NEW ok, NEW site \in Crashes,
         TouchAndCheck(c, ok, site)
  PROVE  ServerTypeOK'
  BY DEF ServerTypeOK, serverVars, TouchAndCheck, Crashes

LEMMA InsertMsgType ==
  ASSUME QueueTypeOK, UNCHANGED queMsgs, NEW c \in Conns,
         NEW state \in {"Accepted", "ReadBuff", "Closed"}, NEW seq \in Nat,
         InsertMsg(c, state, seq)
  PROVE  QueueTypeOK'
<1> DEFINE m == [conn |-> c, state |-> state, seq |-> seq]
<1>1. m \in Msg
  BY DEF Msg
<1>2. queueMsgs' = Append(queueMsgs, m) \/ queueMsgs' = queueMsgs
  BY DEF InsertMsg
<1> HIDE DEF m
<1>3. Append(queueMsgs, m) \in Seq(Msg)
  BY <1>1 DEF QueueTypeOK
<1> QED
  BY <1>2, <1>3 DEF QueueTypeOK

LEMMA WSASendType ==
  ASSUME ConnTypeOK, NEW c \in Conns, WSASend(c)
  PROVE  sends' \in [Conns -> 0 .. MaxSends]
  BY ServerAssumption DEF ConnTypeOK, WSASend

LEMMA HeadType ==
  ASSUME QueueTypeOK, queMsgs # <<>>
  PROVE  /\ Head(queMsgs) \in Msg /\ Tail(queMsgs) \in Seq(Msg)
         /\ Head(queMsgs).conn \in Conns /\ Head(queMsgs).seq \in Nat
<1>1. Head(queMsgs) \in Msg /\ Tail(queMsgs) \in Seq(Msg)
  BY DEF QueueTypeOK
<1> QED
  BY <1>1 DEF Msg

LEMMA MapFinite == mapAll \subseteq Conns =>
                     IsFiniteSet(mapAll) /\ Cardinality(mapAll) \in Nat
<1>1. IsFiniteSet(Conns)
  BY FS_Interval, ServerAssumption DEF Conns
<1> QED
  BY <1>1, FS_Subset, FS_CardinalityType

\* The steps of the accept thread.
LEMMA TypeAccept ==
  ASSUME TypeOK, AcceptStep
  PROVE  TypeOK'
<1> USE ServerAssumption DEF TypeOK
<1>1. CASE CreateChannel
  <2>1. ServerTypeOK'
    BY <1>1, CheckType DEF CreateChannel, Crashes
  <2>2. AcceptTypeOK'
    BY <1>1 DEF CreateChannel, AcceptTypeOK, Conns, NoConn
  <2>3. ConnTypeOK'
    BY <1>1 DEF CreateChannel, AcceptTypeOK, ConnTypeOK, Conns, streamVars
  <2> QED
    BY <1>1, <2>1, <2>2, <2>3, QueueFrame, SinkFrame, WorkerFrame DEF CreateChannel
<1>2. CASE RefuseSocket
  <2>1. AcceptTypeOK'
    BY <1>2 DEF RefuseSocket, AcceptTypeOK
  <2> QED
    BY <1>2, <2>1, ServerFrame, ConnFrame, QueueFrame, SinkFrame, WorkerFrame
    DEF RefuseSocket
<1>3. CASE SendRsaSeed
  <2>1. AcceptTypeOK'
    BY <1>3 DEF SendRsaSeed, AcceptTypeOK
  <2>2. ConnTypeOK'
    BY <1>3, WSASendType DEF SendRsaSeed, AcceptTypeOK, ConnTypeOK, streamVars
  <2> QED
    BY <1>3, <2>1, <2>2, ServerFrame, QueueFrame, SinkFrame, WorkerFrame DEF SendRsaSeed
<1>4. CASE NotifyAccepted
  <2>1. AcceptTypeOK'
    BY <1>4 DEF NotifyAccepted, AcceptTypeOK
  <2>2. QueueTypeOK'
    BY <1>4, InsertMsgType DEF NotifyAccepted, AcceptTypeOK
  <2> QED
    BY <1>4, <2>1, <2>2, ServerFrame, ConnFrame, SinkFrame, WorkerFrame DEF NotifyAccepted
<1>5. CASE PostFirstRecv
  <2>1. AcceptTypeOK'
    BY <1>5 DEF PostFirstRecv, AcceptTypeOK
  <2>2. ConnTypeOK'
    BY <1>5 DEF PostFirstRecv, AcceptTypeOK, ConnTypeOK, streamVars
  <2> QED
    BY <1>5, <2>1, <2>2, ServerFrame, QueueFrame, SinkFrame, WorkerFrame DEF PostFirstRecv
<1>6. CASE FirstRecvFails
  <2>1. AcceptTypeOK'
    BY <1>6 DEF FirstRecvFails, AcceptTypeOK
  <2>2. ConnTypeOK'
    BY <1>6 DEF FirstRecvFails, AcceptTypeOK, ConnTypeOK, streamVars
  <2>3. QueueTypeOK'
    BY <1>6, InsertMsgType DEF FirstRecvFails, AcceptTypeOK
  <2> QED
    BY <1>6, <2>1, <2>2, <2>3, ServerFrame, SinkFrame, WorkerFrame DEF FirstRecvFails
<1>7. CASE AcceptRemove
  <2>1. ServerTypeOK'
    BY <1>7, CheckType DEF AcceptRemove, Crashes
  <2>2. AcceptTypeOK'
    BY <1>7 DEF AcceptRemove, AcceptTypeOK
  <2>3. ConnTypeOK'
    BY <1>7 DEF AcceptRemove, AcceptTypeOK, ConnTypeOK, streamVars
  <2> QED
    BY <1>7, <2>1, <2>2, <2>3, QueueFrame, SinkFrame, WorkerFrame DEF AcceptRemove
<1>8. CASE AcceptFree
  <2>1. ServerTypeOK'
    BY <1>8, TouchType DEF AcceptFree, Touch, Crashes
  <2>2. AcceptTypeOK'
    BY <1>8 DEF AcceptFree, AcceptTypeOK
  <2>3. ConnTypeOK'
    BY <1>8 DEF AcceptFree, AcceptTypeOK, ConnTypeOK, streamVars
  <2> QED
    BY <1>8, <2>1, <2>2, <2>3, QueueFrame, SinkFrame, WorkerFrame DEF AcceptFree
<1>9. CASE AcceptStop
  <2>1. AcceptTypeOK'
    BY <1>9 DEF AcceptStop, AcceptTypeOK
  <2> QED
    BY <1>9, <2>1, ServerFrame, ConnFrame, QueueFrame, SinkFrame, WorkerFrame
    DEF AcceptStop
<1> QED
  BY <1>1, <1>2, <1>3, <1>4, <1>5, <1>6, <1>7, <1>8, <1>9 DEF AcceptStep

\* A worker takes a completion from the port.
LEMMA TypeGet ==
  ASSUME TypeOK, NEW w \in Workers, NEW c \in Conns, GetStep(w, c)
  PROVE  TypeOK'
<1> USE ServerAssumption DEF TypeOK
<1>1. CASE GetRecv(w, c)
  <2>1. ConnTypeOK'
    BY <1>1 DEF GetRecv, ConnTypeOK, streamVars
  <2>2. WorkerTypeOK'
    BY <1>1 DEF GetRecv, WorkerTypeOK, Take
  <2> QED
    BY <1>1, <2>1, <2>2, ServerFrame, AcceptFrame, QueueFrame, SinkFrame DEF GetRecv
<1>2. CASE GetDeadRecv(w, c)
  <2>1. ConnTypeOK'
    BY <1>2 DEF GetDeadRecv, ConnTypeOK, streamVars
  <2>2. WorkerTypeOK'
    BY <1>2 DEF GetDeadRecv, WorkerTypeOK, Take
  <2> QED
    BY <1>2, <2>1, <2>2, ServerFrame, AcceptFrame, QueueFrame, SinkFrame DEF GetDeadRecv
<1>3. CASE GetSend(w, c)
  <2>1. ConnTypeOK'
    BY <1>3 DEF GetSend, ConnTypeOK, streamVars
  <2>2. WorkerTypeOK'
    BY <1>3 DEF GetSend, WorkerTypeOK, Take
  <2> QED
    BY <1>3, <2>1, <2>2, ServerFrame, AcceptFrame, QueueFrame, SinkFrame DEF GetSend
<1>4. CASE GetDeadSend(w, c)
  <2>1. ConnTypeOK'
    BY <1>4 DEF GetDeadSend, ConnTypeOK, streamVars
  <2>2. WorkerTypeOK'
    BY <1>4 DEF GetDeadSend, WorkerTypeOK, Take
  <2> QED
    BY <1>4, <2>1, <2>2, ServerFrame, AcceptFrame, QueueFrame, SinkFrame DEF GetDeadSend
<1> QED
  BY <1>1, <1>2, <1>3, <1>4 DEF GetStep

\* The other steps of a worker.
LEMMA TypeWorker ==
  ASSUME TypeOK, NEW w \in Workers, WorkerStep(w)
  PROVE  TypeOK'
<1> USE ServerAssumption DEF TypeOK
<1>1. CASE WorkerStop(w)
  <2>1. WorkerTypeOK'
    BY <1>1 DEF WorkerStop, WorkerTypeOK
  <2> QED
    BY <1>1, <2>1, ServerFrame, AcceptFrame, ConnFrame, QueueFrame, SinkFrame
    DEF WorkerStop
<1>2. CASE RecvGood(w)
  <2>1. wconn[w] \in Conns
    BY <1>2 DEF RecvGood, WorkerTypeOK
  <2>2. ServerTypeOK'
    BY <1>2, <2>1, TouchType DEF RecvGood, Touch, Crashes
  <2>3. ConnTypeOK'
    BY <1>2, <2>1 DEF RecvGood, ConnTypeOK, connVars
  <2>4. WorkerTypeOK'
    BY <1>2, <2>1 DEF RecvGood, WorkerTypeOK
  <2> QED
    BY <1>2, <2>2, <2>3, <2>4, AcceptFrame, QueueFrame, SinkFrame DEF RecvGood
<1>3. CASE RecvUndecryptable(w)
  <2>1. wconn[w] \in Conns
    BY <1>3 DEF RecvUndecryptable, WorkerTypeOK
  <2>2. ServerTypeOK'
    BY <1>3, <2>1, TouchType DEF RecvUndecryptable, Touch, Crashes
  <2>3. ConnTypeOK'
    BY <1>3, <2>1 DEF RecvUndecryptable, ConnTypeOK
  <2>4. WorkerTypeOK'
    BY <1>3, WorkerFrame DEF RecvUndecryptable
  <2> QED
    BY <1>3, <2>2, <2>3, <2>4, AcceptFrame, QueueFrame, SinkFrame DEF RecvUndecryptable
<1>4. CASE RecvMalformed(w)
  <2>1. wconn[w] \in Conns
    BY <1>4 DEF RecvMalformed, WorkerTypeOK
  <2>2. ServerTypeOK'
    BY <1>4, <2>1, TouchType DEF RecvMalformed, Touch, Crashes
  <2>3. ConnTypeOK'
    BY <1>4, <2>1 DEF RecvMalformed, ConnTypeOK, streamVars
  <2>4. WorkerTypeOK'
    BY <1>4, <2>1 DEF RecvMalformed, WorkerTypeOK
  <2> QED
    BY <1>4, <2>2, <2>3, <2>4, AcceptFrame, QueueFrame, SinkFrame DEF RecvMalformed
<1>5. CASE RecvDone(w)
  <2>1. ServerTypeOK'
    BY <1>5, TouchType DEF RecvDone, Touch, Crashes
  <2>2. WorkerTypeOK'
    BY <1>5 DEF RecvDone, WorkerTypeOK
  <2> QED
    BY <1>5, <2>1, <2>2, AcceptFrame, ConnFrame, QueueFrame, SinkFrame DEF RecvDone
<1>6. CASE PostRecv(w)
  <2>1. wconn[w] \in Conns
    BY <1>6 DEF PostRecv, WorkerTypeOK
  <2>2. ServerTypeOK'
    BY <1>6, <2>1, TouchType DEF PostRecv, Touch, Crashes
  <2>3. ConnTypeOK'
    BY <1>6, <2>1 DEF PostRecv, ConnTypeOK, streamVars
  <2>4. WorkerTypeOK'
    BY <1>6, <2>1 DEF PostRecv, WorkerTypeOK
  <2> QED
    BY <1>6, <2>2, <2>3, <2>4, AcceptFrame, QueueFrame, SinkFrame DEF PostRecv
<1>7. CASE PostRecvFails(w)
  <2>1. ServerTypeOK'
    BY <1>7, TouchType DEF PostRecvFails, Touch, Crashes
  <2>2. WorkerTypeOK'
    BY <1>7 DEF PostRecvFails, WorkerTypeOK
  <2> QED
    BY <1>7, <2>1, <2>2, AcceptFrame, ConnFrame, QueueFrame, SinkFrame DEF PostRecvFails
<1>8. CASE OnDisconnect(w)
  <2>1. wconn[w] \in Conns
    BY <1>8 DEF OnDisconnect, WorkerTypeOK
  <2>2. ServerTypeOK'
    BY <1>8, <2>1, TouchType DEF OnDisconnect, Touch, Crashes
  <2>3. ConnTypeOK'
    BY <1>8, <2>1 DEF OnDisconnect, ConnTypeOK, streamVars
  <2>4. QueueTypeOK'
    BY <1>8, <2>1, InsertMsgType DEF OnDisconnect
  <2>5. WorkerTypeOK'
    BY <1>8, <2>1 DEF OnDisconnect, WorkerTypeOK
  <2> QED
    BY <1>8, <2>2, <2>3, <2>4, <2>5, AcceptFrame, SinkFrame DEF OnDisconnect
<1>9. CASE RemoveChannel(w)
  <2>1. wconn[w] \in Conns
    BY <1>9 DEF RemoveChannel, WorkerTypeOK
  <2>2. ServerTypeOK'
    BY <1>9, <2>1, TouchType DEF RemoveChannel, Touch, Crashes
  <2>3. ConnTypeOK'
    BY <1>9, <2>1 DEF RemoveChannel, ConnTypeOK, streamVars
  <2>4. WorkerTypeOK'
    BY <1>9, <2>1 DEF RemoveChannel, WorkerTypeOK
  <2> QED
    BY <1>9, <2>2, <2>3, <2>4, AcceptFrame, QueueFrame, SinkFrame DEF RemoveChannel
<1>10. CASE DeleteHandle(w)
  <2>1. wconn[w] \in Conns
    BY <1>10 DEF DeleteHandle, WorkerTypeOK
  <2>2. ServerTypeOK'
    BY <1>10, <2>1, TouchType DEF DeleteHandle, Touch, Crashes
  <2>3. ConnTypeOK'
    BY <1>10, <2>1 DEF DeleteHandle, ConnTypeOK, streamVars
  <2>4. WorkerTypeOK'
    BY <1>10, <2>1 DEF DeleteHandle, WorkerTypeOK
  <2> QED
    BY <1>10, <2>2, <2>3, <2>4, AcceptFrame, QueueFrame, SinkFrame DEF DeleteHandle
<1>11. CASE SendComplete(w)
  <2>1. wconn[w] \in Conns
    BY <1>11 DEF SendComplete, WorkerTypeOK
  <2>2. ServerTypeOK'
    BY <1>11, <2>1, TouchType DEF SendComplete, Touch, Crashes
  <2>3. ConnTypeOK'
    BY <1>11, <2>1, WSASendType DEF SendComplete, ConnTypeOK, streamVars
  <2>4. WorkerTypeOK'
    BY <1>11, <2>1 DEF SendComplete, WorkerTypeOK
  <2> QED
    BY <1>11, <2>2, <2>3, <2>4, AcceptFrame, QueueFrame, SinkFrame DEF SendComplete
<1>12. CASE InsertRead(w)
  <2>1. wconn[w] \in Conns
    BY <1>12 DEF InsertRead, WorkerTypeOK
  <2>2. QueueTypeOK'
    BY <1>12, <2>1, InsertMsgType DEF InsertRead, ConnTypeOK
  <2>3. WorkerTypeOK'
    BY <1>12, <2>1 DEF InsertRead, WorkerTypeOK
  <2> QED
    BY <1>12, <2>2, <2>3, ServerFrame, AcceptFrame, ConnFrame, SinkFrame DEF InsertRead
<1> QED
  BY <1>1, <1>2, <1>3, <1>4, <1>5, <1>6, <1>7, <1>8, <1>9, <1>10, <1>11, <1>12
  DEF WorkerStep

\* The steps of the logic thread in its loop.
LEMMA TypeLogic ==
  ASSUME TypeOK, LogicStep
  PROVE  TypeOK'
<1> USE ServerAssumption DEF TypeOK
<1>1. CASE CloseDone
  <2>1. ServerTypeOK'
    BY <1>1 DEF CloseDone, ServerTypeOK
  <2>2. QueueTypeOK'
    BY <1>1 DEF CloseDone, QueueTypeOK
  <2> QED
    BY <1>1, <2>1, <2>2, AcceptFrame, ConnFrame, SinkFrame, WorkerFrame DEF CloseDone
<1>2. CASE SwapQueMsg
  <2>1. QueueTypeOK'
    BY <1>2 DEF SwapQueMsg, QueueTypeOK
  <2> QED
    BY <1>2, <2>1, ServerFrame, AcceptFrame, ConnFrame, SinkFrame, WorkerFrame
    DEF SwapQueMsg
<1>3. CASE DispatchAccepted
  <2>1. Head(queMsgs).conn \in Conns /\ Head(queMsgs).seq \in Nat /\ Tail(queMsgs) \in Seq(Msg)
    BY <1>3, HeadType DEF DispatchAccepted, Front
  <2>2. QueueTypeOK'
    BY <1>3, <2>1 DEF DispatchAccepted, QueueTypeOK
  <2>3. SinkTypeOK'
    BY <1>3, <2>1 DEF DispatchAccepted, SinkTypeOK, IdleSinks, AppStatus
  <2> QED
    BY <1>3, <2>2, <2>3, ServerFrame, AcceptFrame, ConnFrame, WorkerFrame
    DEF DispatchAccepted
<1>4. CASE DispatchRefused
  <2>1. Head(queMsgs).conn \in Conns /\ Head(queMsgs).seq \in Nat /\ Tail(queMsgs) \in Seq(Msg)
    BY <1>4, HeadType DEF DispatchRefused, Front
  <2>2. ConnTypeOK'
    BY <1>4, <2>1, WSASendType DEF DispatchRefused, ConnTypeOK, streamVars
  <2>3. QueueTypeOK'
    BY <1>4, <2>1 DEF DispatchRefused, QueueTypeOK
  <2>4. SinkTypeOK'
    BY <1>4, <2>1 DEF DispatchRefused, SinkTypeOK, AppStatus
  <2> QED
    BY <1>4, <2>2, <2>3, <2>4, ServerFrame, AcceptFrame, WorkerFrame DEF DispatchRefused
<1>5. CASE DispatchClosed
  <2>1. Head(queMsgs).conn \in Conns /\ Head(queMsgs).seq \in Nat /\ Tail(queMsgs) \in Seq(Msg)
    BY <1>5, HeadType DEF DispatchClosed, Front
  <2>2. QueueTypeOK'
    BY <1>5, <2>1 DEF DispatchClosed, QueueTypeOK
  <2>3. SinkTypeOK'
    BY <1>5, <2>1 DEF DispatchClosed, SinkTypeOK, AppStatus
  <2> QED
    BY <1>5, <2>2, <2>3, ServerFrame, AcceptFrame, ConnFrame, WorkerFrame
    DEF DispatchClosed
<1>6. CASE DispatchRead
  <2>1. Head(queMsgs).conn \in Conns /\ Head(queMsgs).seq \in Nat /\ Tail(queMsgs) \in Seq(Msg)
    BY <1>6, HeadType DEF DispatchRead, Front
  <2>2. ConnTypeOK'
    BY <1>6, <2>1, WSASendType DEF DispatchRead, ConnTypeOK, streamVars
  <2>3. QueueTypeOK'
    BY <1>6, <2>1 DEF DispatchRead, QueueTypeOK
  <2>4. SinkTypeOK'
    BY <1>6, <2>1 DEF DispatchRead, SinkTypeOK
  <2> QED
    BY <1>6, <2>2, <2>3, <2>4, ServerFrame, AcceptFrame, WorkerFrame DEF DispatchRead
<1> QED
  BY <1>1, <1>2, <1>3, <1>4, <1>5, <1>6 DEF LogicStep, Dispatch

\* All the steps together.
LEMMA TypeStep == TypeOK /\ [Next]_vars => TypeOK'
<1> SUFFICES ASSUME TypeOK, [Next]_vars PROVE TypeOK'
  OBVIOUS
<1> USE ServerAssumption DEF TypeOK
<1>1. CASE Start
  BY <1>1, ConnFrame, QueueFrame, SinkFrame
  DEF Start, ServerTypeOK, AcceptTypeOK, WorkerTypeOK, Check, Crashes
<1>2. CASE Close
  BY <1>2, AcceptFrame, ConnFrame, QueueFrame, SinkFrame, WorkerFrame
  DEF Close, ServerTypeOK
<1>3. CASE AcceptCount
  <2>1. AcceptTypeOK'
    BY <1>3, MapFinite DEF AcceptCount, AcceptTypeOK, ConnTypeOK
  <2> QED
    BY <1>3, <2>1, ServerFrame, ConnFrame, QueueFrame, SinkFrame, WorkerFrame
    DEF AcceptCount
<1>4. CASE AcceptStep
  BY <1>4, TypeAccept
<1>5. CASE LogicStep
  BY <1>5, TypeLogic
<1>6. CASE \E w \in Workers : WorkerStep(w) \/ \E c \in Conns : GetStep(w, c)
  BY <1>6, TypeWorker, TypeGet
<1>7. CASE \E c \in Conns : PeerClose(c) \/ PeerReset(c)
  <2>1. ConnTypeOK'
    BY <1>7 DEF PeerClose, PeerReset, ConnTypeOK, streamVars
  <2> QED
    BY <1>7, <2>1, ServerFrame, AcceptFrame, QueueFrame, SinkFrame, WorkerFrame
    DEF PeerClose, PeerReset
<1>8. CASE UNCHANGED vars
  BY <1>8, ServerFrame, AcceptFrame, ConnFrame, QueueFrame, SinkFrame, WorkerFrame
  DEF vars
<1> QED
  BY <1>1, <1>2, <1>3, <1>4, <1>5, <1>6, <1>7, <1>8 DEF Next

\* Every variable of the server keeps its type: the identifiers that OnNewConnection
\* takes and gives back stay in range, and a busy worker always has a connection.
THEOREM TypeCorrect == Spec => []TypeOK
  BY TypeInit, TypeStep, PTL DEF Spec

-------------------------------------------------------------------------------
(* The inductive invariant *)

\* Initially there is no connection.
LEMMA IndInit == Init => IndInv
<1> SUFFICES ASSUME Init PROVE IndInv
  OBVIOUS
<1>1. TypeOK
  BY TypeInit
<1>2. IdsFresh
  BY DEF Init, IdsFresh, Busy
<1>3. CountCovers
  BY FS_EmptySet, ServerAssumption DEF Init, CountCovers
<1>4. RemoversClosed
  BY DEF Init, RemoversClosed
<1> QED
  BY <1>1, <1>2, <1>3, <1>4 DEF IndInv

\* Only four actions touch what CountCovers is about.
LEMMA CountFrame ==
  ASSUME CountCovers, mapAll' = mapAll, anum' = anum,
         apc' = "create" => apc = "create"
  PROVE  CountCovers'
  BY DEF CountCovers

\* Whoever removes a connection can only make it more out of date.
LEMMA CountShrinks ==
  ASSUME TypeOK, CountCovers, NEW c, mapAll' = mapAll \ {c}, anum' = anum,
         apc' = "create" => apc = "create"
  PROVE  CountCovers'
<1>1. IsFiniteSet(mapAll) /\ Cardinality(mapAll) \in Nat
  BY MapFinite DEF TypeOK, ConnTypeOK
<1>2. Cardinality(mapAll') <= Cardinality(mapAll) /\ Cardinality(mapAll') \in Nat
  BY <1>1, FS_Subset, FS_CardinalityType
<1> QED
  BY <1>1, <1>2, ServerAssumption DEF CountCovers, TypeOK, AcceptTypeOK

\* Every step keeps the count of the accept thread no lower than the map.
LEMMA CountStep == IndInv /\ [Next]_vars => CountCovers'
<1> SUFFICES ASSUME IndInv, [Next]_vars PROVE CountCovers'
  OBVIOUS
<1> USE DEF IndInv
<1>1. CASE AcceptCount
  <2>1. Cardinality(mapAll') <= MaxConn /\ Cardinality(mapAll') \in Nat
    BY <1>1, MapFinite DEF AcceptCount, CountCovers, connVars, TypeOK, ConnTypeOK
  <2> QED
    BY <1>1, <2>1 DEF AcceptCount, CountCovers, connVars
<1>2. CASE CreateChannel
  <2>1. IsFiniteSet(mapAll) /\ Cardinality(mapAll) \in Nat
    BY MapFinite DEF TypeOK, ConnTypeOK
  <2>2. Cardinality(mapAll') <= Cardinality(mapAll) + 1 /\ Cardinality(mapAll') \in Nat
    <3>1. mapAll' = mapAll \cup {nextId}
      BY <1>2 DEF CreateChannel
    <3>2. Cardinality(mapAll \cup {nextId}) =
            IF nextId \in mapAll THEN Cardinality(mapAll) ELSE Cardinality(mapAll) + 1
      BY <2>1, FS_AddElement
    <3> QED
      BY <2>1, <3>1, <3>2
  <2>3. Cardinality(mapAll) < MaxConn
    BY <1>2, <2>1, ServerAssumption
    DEF CreateChannel, BelowLimit, CountCovers, TypeOK, AcceptTypeOK
  <2> QED
    BY <1>2, <2>1, <2>2, <2>3, ServerAssumption DEF CreateChannel, CountCovers
<1>3. CASE AcceptRemove
  BY <1>3, CountShrinks DEF AcceptRemove
<1>4. ASSUME NEW w \in Workers, RemoveChannel(w) PROVE CountCovers'
  BY <1>4, CountShrinks DEF RemoveChannel, acceptVars
<1>5. CASE AcceptStep /\ ~CreateChannel /\ ~AcceptRemove
  BY <1>5, CountFrame
  DEF AcceptStep, RefuseSocket, SendRsaSeed, NotifyAccepted, PostFirstRecv,
      FirstRecvFails, AcceptFree, AcceptStop, connVars
<1>6. ASSUME NEW w \in Workers, WorkerStep(w), ~RemoveChannel(w) PROVE CountCovers'
  BY <1>6, CountFrame
  DEF WorkerStep, WorkerStop, SendComplete, RecvGood, InsertRead, RecvUndecryptable,
      RecvMalformed, RecvDone, PostRecv, PostRecvFails, OnDisconnect, DeleteHandle,
      acceptVars, connVars
<1>7. ASSUME NEW w \in Workers, NEW c \in Conns, GetStep(w, c) PROVE CountCovers'
  BY <1>7, CountFrame
  DEF GetStep, GetRecv, GetDeadRecv, GetSend, GetDeadSend, acceptVars
<1>8. CASE LogicStep
  BY <1>8, CountFrame
  DEF LogicStep, Dispatch, CloseDone, SwapQueMsg, DispatchAccepted, DispatchRefused,
      DispatchClosed, DispatchRead, acceptVars, connVars
<1>9. CASE \/ Start \/ Close \/ UNCHANGED vars
           \/ \E c \in Conns : PeerClose(c) \/ PeerReset(c)
  BY <1>9, CountFrame DEF Start, Close, PeerClose, PeerReset, vars, acceptVars, connVars
<1> QED
  BY <1>1, <1>2, <1>3, <1>4, <1>5, <1>6, <1>7, <1>8, <1>9 DEF Next

\* The two parts of IndInv that speak of single connections.
SocketInv == IdsFresh /\ RemoversClosed

\* A step that touches no connection keeps them.
LEMMA SocketFrame ==
  ASSUME SocketInv, UNCHANGED <<acceptVars, connVars, workVars>>
  PROVE  SocketInv'
  BY DEF SocketInv, IdsFresh, RemoversClosed, Busy, acceptVars, connVars, workVars

\* A socket in use is closed, by the thread that may go on to remove its connection.
LEMMA SocketClose ==
  ASSUME TypeOK, SocketInv, NEW c \in Conns, c < nextId,
         sock' = [sock EXCEPT ![c] = "closed"],
         UNCHANGED <<nextId, aconn, mapAll, recv, sends, wconn>>,
         apc' = apc \/ (apc = "recv" /\ aconn = c /\ apc' = "remove"),
         \A w \in Workers : wpc'[w] = wpc[w] \/ (Busy(w) /\ wconn[w] = c)
  PROVE  SocketInv'
<1> USE DEF SocketInv, IdsFresh, RemoversClosed, Busy, TypeOK
<1>1. \A d \in Conns : sock'[d] = IF d = c THEN "closed" ELSE sock[d]
  BY DEF ConnTypeOK
<1>2. IdsFresh'
  BY <1>1 DEF AcceptTypeOK, Conns
<1>3. RemoversClosed'
  BY <1>1 DEF AcceptTypeOK, WorkerTypeOK
<1> QED
  BY <1>2, <1>3

\* A WSARecv is posted for a connection in use.
LEMMA SocketPost ==
  ASSUME TypeOK, SocketInv, NEW c \in Conns, c < nextId,
         recv' = [recv EXCEPT ![c] = "posted"],
         UNCHANGED <<nextId, aconn, mapAll, sock, sends>>,
         apc' = apc \/ apc' = "accept",
         \A w \in Workers :
            wpc'[w] = "get" \/ (wpc'[w] = wpc[w] /\ wconn'[w] = wconn[w])
  PROVE  SocketInv'
<1> USE DEF SocketInv, IdsFresh, RemoversClosed, Busy, TypeOK
<1>1. \A d \in Conns : recv'[d] = IF d = c THEN "posted" ELSE recv[d]
  BY DEF ConnTypeOK
<1>2. IdsFresh'
  BY <1>1 DEF AcceptTypeOK, Conns
<1>3. RemoversClosed'
  OBVIOUS
<1> QED
  BY <1>2, <1>3

\* The connection of a busy worker has been given out.
LEMMA SocketBusy ==
  ASSUME TypeOK, SocketInv, NEW w \in Workers, Busy(w)
  PROVE  wconn[w] \in Conns /\ wconn[w] < nextId
  BY DEF TypeOK, WorkerTypeOK, SocketInv, IdsFresh, Busy

\* The steps of the accept thread.
LEMMA SocketAccept ==
  ASSUME TypeOK, SocketInv, AcceptStep
  PROVE  SocketInv'
<1>1. CASE CreateChannel
  <2>1. nextId \in Conns /\ nextId' = nextId + 1 /\ aconn' = nextId
    BY <1>1, ServerAssumption DEF CreateChannel, TypeOK, AcceptTypeOK, Conns
  <2>2. \A d \in Conns : sock'[d] = IF d = nextId THEN "open" ELSE sock[d]
    BY <1>1 DEF CreateChannel, TypeOK, ConnTypeOK
  <2>3. IdsFresh'
    BY <1>1, <2>1, <2>2
    DEF CreateChannel, SocketInv, IdsFresh, Busy, workVars, TypeOK, AcceptTypeOK,
        WorkerTypeOK, Conns
  <2>4. RemoversClosed'
    BY <1>1, <2>1, <2>2
    DEF CreateChannel, SocketInv, IdsFresh, Busy, RemoversClosed, workVars, TypeOK,
        WorkerTypeOK, Conns
  <2> QED
    BY <2>3, <2>4 DEF SocketInv
<1>2. CASE RefuseSocket
  BY <1>2
  DEF RefuseSocket, SocketInv, IdsFresh, RemoversClosed, Busy, TypeOK, connVars,
      workVars, AcceptTypeOK, ConnTypeOK
<1>3. CASE SendRsaSeed
  BY <1>3
  DEF SendRsaSeed, SocketInv, IdsFresh, RemoversClosed, Busy, TypeOK, connVars,
      workVars, AcceptTypeOK, ConnTypeOK, WSASend
<1>4. CASE NotifyAccepted
  BY <1>4
  DEF NotifyAccepted, SocketInv, IdsFresh, RemoversClosed, Busy, TypeOK, connVars,
      workVars, AcceptTypeOK, ConnTypeOK
<1>5. CASE PostFirstRecv
  <2>1. aconn \in Conns /\ aconn < nextId
    BY <1>5 DEF PostFirstRecv, TypeOK, AcceptTypeOK, SocketInv, IdsFresh
  <2> QED
    BY <1>5, <2>1, SocketPost DEF PostFirstRecv, workVars
<1>6. CASE FirstRecvFails
  <2>1. aconn \in Conns /\ aconn < nextId
    BY <1>6 DEF FirstRecvFails, TypeOK, AcceptTypeOK, SocketInv, IdsFresh
  <2> QED
    BY <1>6, <2>1, SocketClose DEF FirstRecvFails, workVars
<1>7. CASE AcceptRemove
  BY <1>7
  DEF AcceptRemove, SocketInv, IdsFresh, RemoversClosed, Busy, TypeOK, connVars,
      workVars, AcceptTypeOK, ConnTypeOK
<1>8. CASE AcceptFree \/ AcceptStop
  BY <1>8
  DEF AcceptFree, AcceptStop, SocketInv, IdsFresh, RemoversClosed, Busy, TypeOK, connVars,
      workVars, AcceptTypeOK, ConnTypeOK
<1> QED
  BY <1>1, <1>2, <1>3, <1>4, <1>5, <1>6, <1>7, <1>8 DEF AcceptStep

\* A worker takes a completion from the port.
LEMMA SocketGet ==
  ASSUME TypeOK, SocketInv, NEW w \in Workers, NEW c \in Conns, GetStep(w, c)
  PROVE  SocketInv'
<1>1. CASE GetRecv(w, c)
  BY <1>1
  DEF GetRecv, SocketInv, IdsFresh, RemoversClosed, Busy, TypeOK, acceptVars, workVars,
      AcceptTypeOK, ConnTypeOK, WorkerTypeOK, Conns, Take
<1>2. CASE GetDeadRecv(w, c)
  BY <1>2
  DEF GetDeadRecv, SocketInv, IdsFresh, RemoversClosed, Busy, TypeOK, acceptVars,
      workVars, AcceptTypeOK, ConnTypeOK, WorkerTypeOK, Conns, Take
<1>3. CASE GetSend(w, c)
  BY <1>3
  DEF GetSend, SocketInv, IdsFresh, RemoversClosed, Busy, TypeOK, acceptVars, workVars,
      AcceptTypeOK, ConnTypeOK, WorkerTypeOK, Conns, Take
<1>4. CASE GetDeadSend(w, c)
  BY <1>4
  DEF GetDeadSend, SocketInv, IdsFresh, RemoversClosed, Busy, TypeOK, acceptVars,
      workVars, AcceptTypeOK, ConnTypeOK, WorkerTypeOK, Conns, Take
<1> QED
  BY <1>1, <1>2, <1>3, <1>4 DEF GetStep

\* The other steps of a worker.
LEMMA SocketWorker ==
  ASSUME TypeOK, SocketInv, NEW w \in Workers, WorkerStep(w)
  PROVE  SocketInv'
<1>1. CASE WorkerStop(w)
  BY <1>1
  DEF WorkerStop, SocketInv, IdsFresh, RemoversClosed, Busy, TypeOK, acceptVars,
      connVars, ConnTypeOK, WorkerTypeOK
<1>2. CASE RecvGood(w) \/ InsertRead(w)
  BY <1>2
  DEF RecvGood, InsertRead, SocketInv, IdsFresh, RemoversClosed, Busy, TypeOK, acceptVars,
      connVars, ConnTypeOK, WorkerTypeOK
<1>3. CASE RecvUndecryptable(w)
  <2>1. Busy(w) /\ wconn[w] \in Conns /\ wconn[w] < nextId
    BY <1>3, SocketBusy DEF RecvUndecryptable, Busy
  <2>2. CASE sock' = [sock EXCEPT ![wconn[w]] = "closed"]
    BY <1>3, <2>1, <2>2, SocketClose
    DEF RecvUndecryptable, acceptVars, workVars, TypeOK, WorkerTypeOK
  <2>3. CASE sock' = sock
    BY <1>3, <2>1, <2>3
    DEF RecvUndecryptable, SocketInv, IdsFresh, RemoversClosed, Busy, acceptVars, workVars
  <2> QED
    BY <1>3, <2>2, <2>3 DEF RecvUndecryptable
<1>4. CASE RecvMalformed(w)
  <2>1. Busy(w)
    BY <1>4 DEF RecvMalformed, Busy
  <2> QED
    BY <1>4, <2>1, SocketBusy, SocketClose
    DEF RecvMalformed, acceptVars, TypeOK, WorkerTypeOK
<1>5. CASE RecvDone(w)
  BY <1>5
  DEF RecvDone, SocketInv, IdsFresh, RemoversClosed, Busy, TypeOK, acceptVars, connVars,
      ConnTypeOK, WorkerTypeOK
<1>6. CASE PostRecv(w)
  <2>1. Busy(w)
    BY <1>6 DEF PostRecv, Busy
  <2>2. wconn[w] \in Conns /\ wconn[w] < nextId
    BY <2>1, SocketBusy
  <2>3. \A v \in Workers :
           wpc'[v] = "get" \/ (wpc'[v] = wpc[v] /\ wconn'[v] = wconn[v])
    BY <1>6 DEF PostRecv, TypeOK, WorkerTypeOK
  <2>4. /\ recv' = [recv EXCEPT ![wconn[w]] = "posted"]
        /\ UNCHANGED <<nextId, aconn, apc, mapAll, sock, sends>>
    BY <1>6 DEF PostRecv, acceptVars
  <2> QED
    BY <2>2, <2>3, <2>4, SocketPost
<1>7. CASE PostRecvFails(w)
  BY <1>7
  DEF PostRecvFails, SocketInv, IdsFresh, RemoversClosed, Busy, TypeOK, acceptVars,
      connVars, ConnTypeOK, WorkerTypeOK
<1>8. CASE OnDisconnect(w)
  <2>1. Busy(w)
    BY <1>8 DEF OnDisconnect, Busy
  <2> QED
    BY <1>8, <2>1, SocketBusy, SocketClose
    DEF OnDisconnect, acceptVars, TypeOK, WorkerTypeOK
<1>9. CASE RemoveChannel(w) \/ DeleteHandle(w)
  BY <1>9
  DEF RemoveChannel, DeleteHandle, SocketInv, IdsFresh, RemoversClosed, Busy, TypeOK,
      acceptVars, connVars, ConnTypeOK, WorkerTypeOK
<1>10. CASE SendComplete(w)
  <2>1. Busy(w) /\ wconn[w] \in Conns /\ wconn[w] < nextId
    BY <1>10, SocketBusy DEF SendComplete, Busy
  <2>2. \A d \in Conns : d >= nextId => sends'[d] = 0
    BY <1>10, <2>1 DEF SendComplete, WSASend, SocketInv, IdsFresh, TypeOK, ConnTypeOK
  <2> QED
    BY <1>10, <2>2
    DEF SendComplete, SocketInv, IdsFresh, RemoversClosed, Busy, TypeOK, acceptVars,
        ConnTypeOK, WorkerTypeOK
<1> QED
  BY <1>1, <1>2, <1>3, <1>4, <1>5, <1>6, <1>7, <1>8, <1>9, <1>10 DEF WorkerStep

\* Only a connection of the map is closed by the application, and those are in use.
LEMMA SocketRead == TypeOK /\ SocketInv /\ DispatchRead => SocketInv'
<1> SUFFICES ASSUME TypeOK, SocketInv, DispatchRead PROVE SocketInv'
  OBVIOUS
<1> DEFINE c == Head(queMsgs).conn
<1>1. UNCHANGED <<acceptVars, mapAll, recv, workVars>>
  BY DEF DispatchRead
<1>2. c \in Conns
  BY HeadType DEF DispatchRead, Front, TypeOK
<1>3. sends' = sends \/ WSASend(c)
  BY DEF DispatchRead
<1>4. sock' = sock \/ (c \in mapAll /\ sock' = [sock EXCEPT ![c] = "closed"])
  BY DEF DispatchRead
<1> HIDE DEF c
<1>5. \A d \in Conns : d >= nextId => sends'[d] = 0
  BY <1>2, <1>3 DEF WSASend, SocketInv, IdsFresh, TypeOK, ConnTypeOK
<1>6. \A d \in Conns : d >= nextId => sock'[d] = "none"
  BY <1>2, <1>4 DEF SocketInv, IdsFresh, TypeOK, ConnTypeOK
<1>7. \A d \in Conns : sock[d] = "closed" => sock'[d] = "closed"
  BY <1>2, <1>4 DEF TypeOK, ConnTypeOK
<1>8. IdsFresh'
  BY <1>1, <1>5, <1>6 DEF SocketInv, IdsFresh, Busy, acceptVars, workVars
<1>9. RemoversClosed'
  BY <1>1, <1>7
  DEF SocketInv, RemoversClosed, acceptVars, workVars, TypeOK, AcceptTypeOK, WorkerTypeOK
<1> QED
  BY <1>8, <1>9 DEF SocketInv

\* Every step keeps both parts.
LEMMA SocketStep == TypeOK /\ SocketInv /\ [Next]_vars => SocketInv'
<1> SUFFICES ASSUME TypeOK, SocketInv, [Next]_vars PROVE SocketInv'
  OBVIOUS
<1>1. CASE Start
  BY <1>1
  DEF Start, connVars, SocketInv, IdsFresh, RemoversClosed, Busy, TypeOK, WorkerTypeOK
<1>2. CASE AcceptCount
  BY <1>2 DEF AcceptCount, connVars, workVars, SocketInv, IdsFresh, RemoversClosed, Busy
<1>3. CASE AcceptStep
  BY <1>3, SocketAccept
<1>4. CASE CloseDone \/ SwapQueMsg \/ DispatchAccepted \/ DispatchClosed
  BY <1>4, SocketFrame DEF CloseDone, SwapQueMsg, DispatchAccepted, DispatchClosed
<1>5. CASE DispatchRefused
  BY <1>5
  DEF DispatchRefused, WSASend, acceptVars, workVars, SocketInv, IdsFresh, RemoversClosed,
      Busy, TypeOK, ConnTypeOK
<1>6. CASE DispatchRead
  BY <1>6, SocketRead
<1>7. CASE \E w \in Workers : WorkerStep(w) \/ \E c \in Conns : GetStep(w, c)
  BY <1>7, SocketWorker, SocketGet
<1>8. ASSUME NEW c \in Conns, PeerClose(c) \/ PeerReset(c) PROVE SocketInv'
  <2>1. /\ UNCHANGED <<acceptVars, mapAll, recv, sends, workVars>>
        /\ sock[c] \in {"open", "fin"}
        /\ sock' = [sock EXCEPT ![c] = "fin"] \/ sock' = [sock EXCEPT ![c] = "reset"]
    BY <1>8 DEF PeerClose, PeerReset
  <2>2. \A d \in Conns : sock[d] \in {"none", "closed"} => sock'[d] = sock[d]
    BY <2>1 DEF TypeOK, ConnTypeOK
  <2>3. IdsFresh'
    BY <2>1, <2>2 DEF SocketInv, IdsFresh, Busy, acceptVars, workVars
  <2>4. RemoversClosed'
    BY <2>1, <2>2
    DEF SocketInv, RemoversClosed, acceptVars, workVars, TypeOK, AcceptTypeOK, WorkerTypeOK
  <2> QED
    BY <2>3, <2>4 DEF SocketInv
<1>9. CASE Close \/ UNCHANGED vars
  BY <1>9, SocketFrame DEF Close, vars
<1> QED
  BY <1>1, <1>2, <1>3, <1>4, <1>5, <1>6, <1>7, <1>8, <1>9
  DEF Next, LogicStep, Dispatch

\* Initially and after every step.
LEMMA IndInvariant == Spec => []IndInv
<1>1. IndInv /\ [Next]_vars => IndInv'
  BY TypeStep, SocketStep, CountStep DEF IndInv, SocketInv
<1> QED
  BY IndInit, <1>1, PTL DEF Spec

\* The number of entries of _mapAllConnections never exceeds _maxConnNum, whatever
\* workers do between the count of OnNewConnection and its insertion.
THEOREM ConnLimitHolds == Spec => []ConnLimit
<1>1. IndInv => ConnLimit
  BY DEF IndInv, CountCovers, ConnLimit
<1> QED
  BY <1>1, IndInvariant, PTL

\* A connection leaves _mapAllConnections only after closesocket.
THEOREM RemovedIsClosedHolds == Spec => RemovedIsClosed
<1>1. IndInv /\ [Next]_vars => [LeavesClosed]_vars
  <2> SUFFICES ASSUME IndInv, [Next]_vars PROVE LeavesClosed
    OBVIOUS
  <2> USE DEF LeavesClosed
  <2>1. CASE AcceptRemove
    BY <2>1 DEF AcceptRemove, IndInv, RemoversClosed
  <2>2. ASSUME NEW w \in Workers, RemoveChannel(w) PROVE LeavesClosed
    BY <2>2 DEF RemoveChannel, IndInv, RemoversClosed
  <2>3. CASE CreateChannel
    BY <2>3 DEF CreateChannel
  <2>4. CASE mapAll' = mapAll
    BY <2>4
  <2>5. CASE AcceptStep /\ ~CreateChannel /\ ~AcceptRemove
    BY <2>5, <2>4
    DEF AcceptStep, RefuseSocket, SendRsaSeed, NotifyAccepted, PostFirstRecv,
        FirstRecvFails, AcceptFree, AcceptStop, connVars
  <2>6. ASSUME NEW w \in Workers, WorkerStep(w), ~RemoveChannel(w) PROVE LeavesClosed
    BY <2>6, <2>4
    DEF WorkerStep, WorkerStop, SendComplete, RecvGood, InsertRead, RecvUndecryptable,
        RecvMalformed, RecvDone, PostRecv, PostRecvFails, OnDisconnect, DeleteHandle, connVars
  <2>7. ASSUME NEW w \in Workers, NEW c \in Conns, GetStep(w, c) PROVE LeavesClosed
    BY <2>7, <2>4 DEF GetStep, GetRecv, GetDeadRecv, GetSend, GetDeadSend
  <2>8. CASE LogicStep
    BY <2>8, <2>4
    DEF LogicStep, Dispatch, CloseDone, SwapQueMsg, DispatchAccepted,
        DispatchRefused, DispatchClosed, DispatchRead, connVars
  <2>9. CASE \/ Start \/ Close \/ AcceptCount \/ UNCHANGED vars
             \/ \E c \in Conns : PeerClose(c) \/ PeerReset(c)
    BY <2>9, <2>4 DEF Start, Close, AcceptCount, PeerClose, PeerReset, vars, connVars
  <2> QED
    BY <2>1, <2>2, <2>3, <2>5, <2>6, <2>7, <2>8, <2>9 DEF Next
<1> QED
  BY <1>1, IndInvariant, PTL DEF RemovedIsClosed, Spec

(***************************************************************************)
(* The server in any environment, also one in which connections go down    *)
(* with sends under way: what Close leaves behind, and what the            *)
(* application hears of each connection.                                   *)
(***************************************************************************)
-------------------------------------------------------------------------------
(* Which threads run *)

\* Until the first Start there is nothing, and messages are handled between Start and Close.
Unstarted ==
    /\ starts = 0 => ~listening
    /\ running => listening /\ lpc = "loop"
    /\ ~listening =>
          /\ apc = "off" /\ \A w \in Workers : wpc[w] = "off"
          /\ nextId = 0 /\ queMsgs = <<>> /\ queueMsgs = <<>>
    /\ queMsgs # <<>> => running

\* Before Start, and after Close, no thread is left and no message.
Stopped ==
    lpc = "loop" /\ ~running =>
        apc = "off" /\ (\A w \in Workers : wpc[w] = "off") /\ queueMsgs = <<>>

StageInv == Unstarted /\ Stopped

LEMMA StageStep ==
  ASSUME TypeOK, StageInv, [Next]_vars
  PROVE  StageInv'
<1> USE DEF StageInv
<1>1. CASE UNCHANGED vars
  BY <1>1 DEF vars, Unstarted, Stopped, serverVars, acceptVars, workVars
<1>2. CASE Start
  BY <1>2 DEF Start, Unstarted, Stopped, TypeOK, ServerTypeOK
<1>3. CASE Close
  BY <1>3 DEF Close, Unstarted, Stopped, acceptVars, workVars
<1>4. CASE AcceptCount \/ AcceptStep
  <2>1. apc # "off" /\ UNCHANGED <<serverVars, queMsgs, workVars>>
    BY <1>4
    DEF AcceptCount, AcceptStep, CreateChannel, RefuseSocket, SendRsaSeed, NotifyAccepted,
        PostFirstRecv, FirstRecvFails, AcceptRemove, AcceptFree, AcceptStop
  <2> QED
    BY <2>1 DEF Unstarted, Stopped, serverVars, workVars
<1>5. ASSUME NEW w \in Workers, WorkerStep(w) \/ \E c \in Conns : GetStep(w, c)
      PROVE  StageInv'
  <2>1. wpc[w] # "off" /\ UNCHANGED <<serverVars, acceptVars, queMsgs>>
    BY <1>5
    DEF WorkerStep, WorkerStop, SendComplete, RecvGood, InsertRead, RecvUndecryptable,
        RecvMalformed, RecvDone, PostRecv, PostRecvFails, OnDisconnect, RemoveChannel,
        DeleteHandle, GetStep, GetRecv, GetDeadRecv, GetSend, GetDeadSend, MayGet
  <2> QED
    BY <2>1 DEF Unstarted, Stopped, serverVars, acceptVars
<1>6. CASE CloseDone
  BY <1>6 DEF CloseDone, Unstarted, Stopped, acceptVars, workVars
<1>7. CASE SwapQueMsg
  BY <1>7 DEF SwapQueMsg, Unstarted, Stopped, serverVars, acceptVars, workVars
<1>8. CASE Dispatch
  <2>1. queMsgs # <<>> /\ UNCHANGED <<serverVars, acceptVars, workVars, queueMsgs>>
    BY <1>8
    DEF Dispatch, DispatchAccepted, DispatchRefused, DispatchClosed, DispatchRead, Front
  <2> QED
    BY <2>1 DEF Unstarted, Stopped, serverVars, acceptVars, workVars
<1>9. CASE \E c \in Conns : PeerClose(c) \/ PeerReset(c)
  BY <1>9 DEF PeerClose, PeerReset, Unstarted, Stopped, serverVars, acceptVars, workVars
<1> QED
  BY <1>1, <1>2, <1>3, <1>4, <1>5, <1>6, <1>7, <1>8, <1>9 DEF Next, LogicStep

LEMMA StageInvariant == Spec => [](IndInv /\ StageInv)
<1>1. Init => StageInv
  BY DEF Init, StageInv, Unstarted, Stopped
<1>2. IndInv /\ StageInv /\ [Next]_vars => StageInv'
  BY StageStep DEF IndInv
<1> QED
  BY <1>1, <1>2, IndInvariant, PTL DEF Spec

\* When Close has returned, and before Start, neither queue holds a message: NothingLeft.
\* A worker that read _running before Close may still queue one, but not after it was joined.
THEOREM NothingLeftHolds == Spec => []NothingLeft
<1>1. StageInv => NothingLeft
  BY DEF StageInv, Unstarted, Stopped, NothingLeft
<1> QED
  BY <1>1, StageInvariant, PTL

-------------------------------------------------------------------------------
(* One thread reads the stream of a connection *)

Reader(w, c) == wpc[w] \in {"recv", "insert", "post"} /\ wconn[w] = c
Starting(c)  == apc \in {"seed", "notify", "recv"} /\ aconn = c

\* The stream is read by a worker, or waited for by the one WSARecv, or not yet begun; and
\* what a worker is about to queue was taken from it.
OneReader ==
    /\ \A c \in Conns : ~(Starting(c) /\ recv[c] = "posted")
    /\ \A c \in Conns : \A w \in Workers :
          Reader(w, c) =>
             /\ recv[c] # "posted" /\ ~Starting(c)
             /\ \A v \in Workers : Reader(v, c) => v = w
             /\ wpc[w] = "insert" => got[c] > 0

LEMMA ReaderStep ==
  ASSUME IndInv, OneReader, [Next]_vars
  PROVE  OneReader'
<1> USE DEF OneReader, Reader, Starting
<1>1. CASE UNCHANGED <<acceptVars, recv, got, workVars>>
  BY <1>1 DEF acceptVars, workVars
<1>2. CASE Start
  <2>1. /\ wpc' = [w \in Workers |-> "get"] /\ apc' = "accept"
    BY <1>2 DEF Start
  <2> QED
    BY <2>1
<1>3. CASE Close \/ LogicStep \/ (\E c \in Conns : PeerClose(c) \/ PeerReset(c)) \/ UNCHANGED vars
  <2>1. UNCHANGED <<acceptVars, recv, got, workVars>>
    BY <1>3
    DEF Close, LogicStep, CloseDone, SwapQueMsg, Dispatch, DispatchAccepted, DispatchRefused,
        DispatchClosed, DispatchRead, PeerClose, PeerReset, vars, connVars, streamVars
  <2> QED
    BY <1>1, <2>1
<1>4. CASE CreateChannel
  <2>1. /\ nextId \in Conns /\ recv[nextId] = "none"
        /\ \A w \in Workers : Reader(w, nextId) => FALSE
    BY <1>4, ServerAssumption
    DEF CreateChannel, IndInv, IdsFresh, TypeOK, AcceptTypeOK, Busy, Conns
  <2>2. apc' = "seed" /\ aconn' = nextId /\ UNCHANGED <<recv, streamVars, workVars>>
    BY <1>4 DEF CreateChannel
  <2> QED
    BY <2>1, <2>2 DEF streamVars, workVars
<1>5. CASE PostFirstRecv
  <2>1. /\ apc = "recv" /\ apc' = "accept" /\ recv' = [recv EXCEPT ![aconn] = "posted"]
        /\ UNCHANGED <<streamVars, workVars>>
    BY <1>5 DEF PostFirstRecv
  <2>2. aconn \in Conns /\ recv \in [Conns -> {"none", "posted"}]
    BY <2>1 DEF IndInv, TypeOK, AcceptTypeOK, ConnTypeOK
  <2> QED
    BY <2>1, <2>2 DEF streamVars, workVars
<1>6. CASE AcceptCount \/ (AcceptStep /\ ~CreateChannel /\ ~PostFirstRecv)
  <2>1. /\ UNCHANGED <<aconn, recv, streamVars, workVars>>
        /\ apc' \in {"seed", "notify", "recv"} => apc \in {"seed", "notify", "recv"}
    BY <1>6
    DEF AcceptCount, AcceptStep, RefuseSocket, SendRsaSeed, NotifyAccepted, FirstRecvFails,
        AcceptRemove, AcceptFree, AcceptStop, connVars
  <2> QED
    BY <2>1 DEF streamVars, workVars
<1>7. ASSUME NEW w \in Workers, NEW c \in Conns, GetStep(w, c) PROVE OneReader'
  <2>1. /\ wpc[w] = "get" /\ UNCHANGED <<acceptVars, got>>
        /\ \A v \in Workers \ {w} : wpc'[v] = wpc[v] /\ wconn'[v] = wconn[v]
        /\ \/ /\ recv[c] = "posted" /\ recv' = [recv EXCEPT ![c] = "none"]
              /\ wpc'[w] \in {"recv", "dead"} /\ wconn'[w] = c
           \/ recv' = recv /\ wpc'[w] \in {"sent", "dead"}
    BY <1>7 DEF GetStep, GetRecv, GetDeadRecv, GetSend, GetDeadSend, MayGet, Take, streamVars,
       IndInv, TypeOK, WorkerTypeOK
  <2>2. recv \in [Conns -> {"none", "posted"}]
    BY DEF IndInv, TypeOK, ConnTypeOK
  <2> QED
    BY <2>1, <2>2 DEF acceptVars
<1>8. ASSUME NEW w \in Workers, WorkerStep(w) PROVE OneReader'
  <2> DEFINE c == wconn[w]
  <2>1. CASE RecvGood(w)
    <3>1. /\ wpc[w] = "recv" /\ c \in Conns /\ got' = [got EXCEPT ![c] = @ + 1]
          /\ wpc' = [wpc EXCEPT ![w] = "insert"] /\ UNCHANGED <<acceptVars, recv, wconn>>
          /\ \A d \in Conns : got[d] \in Nat
          /\ \A v \in Workers \ {w} : wpc'[v] = wpc[v] /\ wconn'[v] = wconn[v]
      BY <2>1 DEF RecvGood, IndInv, TypeOK, WorkerTypeOK, ConnTypeOK, connVars
    <3>2. \A d \in Conns : got'[d] = IF d = c THEN got[c] + 1 ELSE got[d]
      BY <3>1 DEF IndInv, TypeOK, ConnTypeOK
    <3>3. wpc'[w] = "insert"
      BY <3>1 DEF IndInv, TypeOK, WorkerTypeOK
    <3> QED
      BY <3>1, <3>2, <3>3 DEF acceptVars
  <2>2. CASE PostRecv(w)
    <3>1. /\ wpc[w] = "post" /\ c \in Conns /\ recv' = [recv EXCEPT ![c] = "posted"]
          /\ wpc'[w] = "get" /\ UNCHANGED <<acceptVars, got>>
          /\ \A v \in Workers \ {w} : wpc'[v] = wpc[v] /\ wconn'[v] = wconn[v]
          /\ recv \in [Conns -> {"none", "posted"}]
      BY <2>2 DEF PostRecv, IndInv, TypeOK, WorkerTypeOK, ConnTypeOK, streamVars
    <3> QED
      BY <3>1 DEF acceptVars
  <2>3. CASE WorkerStep(w) /\ ~RecvGood(w) /\ ~PostRecv(w)
    <3>1. /\ UNCHANGED <<acceptVars, recv, got>>
          /\ \A v \in Workers \ {w} : wpc'[v] = wpc[v] /\ wconn'[v] = wconn[v]
          /\ wpc'[w] \in {"recv", "insert", "post"} =>
                wpc[w] \in {"recv", "insert", "post"} /\ wconn'[w] = wconn[w]
          /\ wpc'[w] = "insert" => wpc[w] = "insert"
      BY <2>3
      DEF WorkerStep, WorkerStop, SendComplete, InsertRead, RecvUndecryptable,
          RecvMalformed, RecvDone, PostRecvFails, OnDisconnect, RemoveChannel, DeleteHandle,
          IndInv, TypeOK, WorkerTypeOK, connVars, streamVars, workVars
    <3> QED
      BY <3>1 DEF acceptVars
  <2> QED
    BY <1>8, <2>1, <2>2, <2>3
<1> QED
  BY <1>2, <1>3, <1>4, <1>5, <1>6, <1>7, <1>8 DEF Next

-------------------------------------------------------------------------------
(* The messages under way *)

\* The messages that the logic thread has still to handle, oldest first.
Coming == queMsgs \o queueMsgs

\* Message i is one of c with this state.
Is(i, c, state) ==
    i \in 1 .. Len(Coming) /\ Coming[i].conn = c /\ Coming[i].state = state

\* The accept thread has yet to announce c, or c is yet to come.
Unannounced(c) == c >= nextId \/ (apc \in {"seed", "notify"} /\ aconn = c)

\* How many messages of c were queued: all that were taken from the stream, but for the one
\* that a worker is about to queue.
Pushed(c) ==
    IF \E w \in Workers : wpc[w] = "insert" /\ wconn[w] = c THEN got[c] - 1 ELSE got[c]

\* Accepted comes once and before every ReadBuff.  A Closed may come before it: the failed
\* send of the seed may be taken from the port before the accept thread goes on.
AnnouncedOnce ==
    /\ \A c \in Conns :
          IF Unannounced(c)
          THEN /\ app[c] = "none" /\ Pushed(c) = 0
               /\ \A i \in 1 .. Len(Coming) : Coming[i].conn = c => Coming[i].state = "Closed"
          ELSE app[c] # "none" \/ \E i \in 1 .. Len(Coming) : Is(i, c, "Accepted")
    /\ \A c \in Conns : \A i \in 1 .. Len(Coming) :
          /\ Is(i, c, "Accepted") =>
                app[c] = "none" /\ \A j \in 1 .. Len(Coming) : Is(j, c, "Accepted") => j = i
          /\ Is(i, c, "ReadBuff") =>
                app[c] # "none" \/ \E j \in 1 .. i - 1 : Is(j, c, "Accepted")

\* The messages of a peer are in the order of its stream, and as long as the connection is
\* not closed those that OnRecv was not given are all there.
ReadsInOrder ==
    /\ \A c \in Conns : Pushed(c) \in Nat /\ seen[c] <= Pushed(c)
    /\ \A c \in Conns : \A i \in 1 .. Len(Coming) : Is(i, c, "ReadBuff") =>
          /\ Coming[i].seq \in 1 .. Pushed(c)
          /\ \A j \in 1 .. i - 1 : Is(j, c, "ReadBuff") => Coming[j].seq < Coming[i].seq
    /\ \A c \in Conns : app[c] \in {"none", "open"} => \A n \in 1 .. Pushed(c) :
          n > seen[c] <=> \E i \in 1 .. Len(Coming) : Is(i, c, "ReadBuff") /\ Coming[i].seq = n

InOrder == AnnouncedOnce /\ ReadsInOrder

QueueInv == Alive /\ running => InOrder

\* A sink is idle if and only if no connection has it, and one at most has it.
SinkInv ==
    /\ \A c \in Conns : app[c] = "open" <=> mapClients[c] # NoSink
    /\ \A c, d \in Conns : mapClients[c] = mapClients[d] /\ c # d => mapClients[c] = NoSink
    /\ \A s \in Sinks : idle[s] <=> \A c \in Conns : mapClients[c] # s
    /\ \A c \in Conns : app[c] = "none" => seen[c] = 0
    /\ ~listening => \A c \in Conns : app[c] = "none" /\ got[c] = 0

\* When the server has stopped for good nothing moves.
LEMMA DeadEnd == ~Alive /\ [Next]_vars => UNCHANGED vars
  BY DEF Alive, Next, Start, Close, AcceptCount, AcceptStep, CreateChannel, RefuseSocket,
     SendRsaSeed, NotifyAccepted, PostFirstRecv, FirstRecvFails, AcceptRemove, AcceptFree,
     AcceptStop, LogicStep, CloseDone, SwapQueMsg, Dispatch, DispatchAccepted,
     DispatchRefused, DispatchClosed, DispatchRead, Front, WorkerStep, WorkerStop,
     SendComplete, RecvGood, InsertRead, RecvUndecryptable, RecvMalformed, RecvDone,
     PostRecv, PostRecvFails, OnDisconnect, RemoveChannel, DeleteHandle, GetStep, GetRecv,
     GetDeadRecv, GetSend, GetDeadSend, MayGet, PeerClose, PeerReset

-------------------------------------------------------------------------------
(* The two queues as one *)

\* The messages that the logic thread takes over stay in their order.
LEMMA ComingSwap ==
  ASSUME QueueTypeOK, queMsgs = <<>>, queMsgs' = queueMsgs, queueMsgs' = <<>>
  PROVE  Coming' = Coming
  BY ConcatEmptySeq DEF QueueTypeOK, Coming

\* The message that is handled is the first to come.
LEMMA ComingTail ==
  ASSUME QueueTypeOK, queMsgs # <<>>, queMsgs' = Tail(queMsgs), queueMsgs' = queueMsgs
  PROVE  /\ Len(Coming) \in Nat /\ Len(Coming') = Len(Coming) - 1 /\ Len(Coming) > 0
         /\ \A i \in 1 .. Len(Coming') : Coming'[i] = Coming[i + 1]
         /\ Coming[1] = Head(queMsgs)
  BY DEF QueueTypeOK, Coming

LEMMA ComingType ==
  ASSUME QueueTypeOK
  PROVE  Len(Coming) \in Nat /\ \A i \in 1 .. Len(Coming) : Coming[i] \in Msg
  BY DEF QueueTypeOK, Coming

\* A message that is queued is the last to come.
Appended(m) ==
    /\ Len(Coming) \in Nat /\ Len(Coming') = Len(Coming) + 1
    /\ \A i \in 1 .. Len(Coming) : Coming'[i] = Coming[i]
    /\ Coming'[Len(Coming) + 1] = m

LEMMA ComingAppend ==
  ASSUME QueueTypeOK, NEW m \in Msg, queueMsgs' = Append(queueMsgs, m), queMsgs' = queMsgs
  PROVE  Appended(m)
  BY DEF QueueTypeOK, Coming, Appended

LEMMA IsAppended ==
  ASSUME NEW m, Appended(m), NEW i \in Nat, NEW c, NEW state
  PROVE  Is(i, c, state)' <=>
            Is(i, c, state) \/ (i = Len(Coming) + 1 /\ m.conn = c /\ m.state = state)
  BY DEF Appended, Is

\* While the server runs InsertMsg queues its message.
LEMMA QueueInsert ==
  ASSUME TypeOK, running,
         NEW c \in Conns, NEW state \in {"Accepted", "ReadBuff", "Closed"}, NEW n \in Nat,
         InsertMsg(c, state, n), queMsgs' = queMsgs
  PROVE  Appended([conn |-> c, state |-> state, seq |-> n])
<1>1. [conn |-> c, state |-> state, seq |-> n] \in Msg
  BY DEF Msg
<1> QED
  BY <1>1, ComingAppend DEF InsertMsg, TypeOK

\* Nothing is queued or handled.
LEMMA InOrderFrame ==
  ASSUME InOrder, UNCHANGED <<Coming, app, seen>>,
         \A c \in Conns : Pushed(c)' = Pushed(c),
         \A c \in Conns : Unannounced(c)' <=> Unannounced(c)
  PROVE  InOrder'
<1>0. \A i, c, state : Is(i, c, state)' <=> Is(i, c, state)
  BY DEF Is
<1>1. AnnouncedOnce'
  BY <1>0 DEF InOrder, AnnouncedOnce
<1>2. ReadsInOrder'
  BY <1>0 DEF InOrder, ReadsInOrder
<1> QED
  BY <1>1, <1>2 DEF InOrder

\* A connection is announced.
LEMMA QueueAccepted ==
  ASSUME InOrder, NEW c \in Conns, Unannounced(c),
         Appended([conn |-> c, state |-> "Accepted", seq |-> 0]),
         UNCHANGED <<app, seen>>,
         \A d \in Conns : Pushed(d)' = Pushed(d),
         \A d \in Conns : Unannounced(d)' <=> d # c /\ Unannounced(d)
  PROVE  InOrder'
<1> DEFINE L == Len(Coming) + 1
<1>0. \A i \in Nat : \A d, state :
        Is(i, d, state)' <=> Is(i, d, state) \/ (i = L /\ c = d /\ state = "Accepted")
  BY IsAppended
<1>1. AnnouncedOnce'
  BY <1>0 DEF InOrder, AnnouncedOnce, Appended, Is
<1>2. ReadsInOrder'
  BY <1>0 DEF InOrder, ReadsInOrder, Appended, Is
<1> QED
  BY <1>1, <1>2 DEF InOrder

\* A message of a peer is queued.
LEMMA QueueRead ==
  ASSUME TypeOK, InOrder, NEW c \in Conns, NEW N \in Nat, N = Len(Coming),
         ~Unannounced(c),
         Appended([conn |-> c, state |-> "ReadBuff", seq |-> Pushed(c) + 1]),
         UNCHANGED <<app, seen>>,
         \A d \in Conns : Pushed(d)' = IF d = c THEN Pushed(c) + 1 ELSE Pushed(d),
         \A d \in Conns : Unannounced(d)' <=> Unannounced(d)
  PROVE  InOrder'
<1> DEFINE L == N + 1
<1>0. \A i \in Nat : \A d, state :
        Is(i, d, state)' <=> Is(i, d, state) \/ (i = L /\ c = d /\ state = "ReadBuff")
  BY IsAppended
<1>a. \A i \in 1 .. N : \A d, state : Is(i, d, state)' <=> Is(i, d, state)
  <2> SUFFICES ASSUME NEW i \in 1 .. N PROVE \A d, state : Is(i, d, state)' <=> Is(i, d, state)
    OBVIOUS
  <2>1. i \in Nat /\ i # L
    OBVIOUS
  <2> QED
    BY <1>0, <2>1
<1>g. \A d \in Conns : Pushed(d) \in Nat
  BY DEF InOrder, ReadsInOrder
<1>n. Len(Coming') = L /\ Coming'[L].conn = c /\ Coming'[L].seq = Pushed(c) + 1
  BY DEF Appended
<1>1. AnnouncedOnce'
  <2>1. ASSUME NEW d \in Conns, Unannounced(d)'
        PROVE  /\ app'[d] = "none" /\ Pushed(d)' = 0
               /\ \A i \in 1 .. L : Coming'[i].conn = d => Coming'[i].state = "Closed"
    <3>1. d # c /\ Unannounced(d)
      BY <2>1
    <3> QED
      BY <1>n, <3>1 DEF InOrder, AnnouncedOnce, Appended
  <2>2. ASSUME NEW d \in Conns, ~Unannounced(d)', app'[d] = "none"
        PROVE  \E i \in 1 .. L : Is(i, d, "Accepted")'
    BY <1>a, <2>2 DEF InOrder, AnnouncedOnce
  <2>3. ASSUME NEW d \in Conns, NEW i \in 1 .. L, Is(i, d, "Accepted")'
        PROVE  app'[d] = "none" /\ \A j \in 1 .. L : Is(j, d, "Accepted")' => j = i
    <3>1. \A j \in 1 .. L : Is(j, d, "Accepted")' => j \in 1 .. N /\ Is(j, d, "Accepted")
      <4>1. \A j \in 1 .. L : Is(j, d, "Accepted")' => Is(j, d, "Accepted")
        BY <1>0
      <4> QED
        BY <4>1 DEF Is
    <3> QED
      BY <2>3, <3>1 DEF InOrder, AnnouncedOnce
  <2>4. ASSUME NEW d \in Conns, NEW i \in 1 .. L, Is(i, d, "ReadBuff")', app'[d] = "none"
        PROVE  \E j \in 1 .. i - 1 : Is(j, d, "Accepted")'
    <3>1. CASE i \in 1 .. N
      <4>1. PICK j \in 1 .. i - 1 : Is(j, d, "Accepted")
        BY <1>a, <2>4, <3>1 DEF InOrder, AnnouncedOnce
      <4> QED
        BY <1>a, <3>1, <4>1
    <3>2. CASE i = L
      <4>1. d = c
        BY <1>n, <2>4, <3>2 DEF Is
      <4>2. PICK j \in 1 .. N : Is(j, d, "Accepted")
        BY <2>4, <4>1 DEF InOrder, AnnouncedOnce
      <4> QED
        BY <1>a, <3>2, <4>2
    <3> QED
      BY <3>1, <3>2
  <2> QED
    BY <1>n, <2>1, <2>2, <2>3, <2>4 DEF AnnouncedOnce
<1>2. ReadsInOrder'
  <2>1. \A d \in Conns : Pushed(d)' \in Nat /\ seen'[d] <= Pushed(d)'
    BY <1>g DEF InOrder, ReadsInOrder, TypeOK, SinkTypeOK
  <2>2. ASSUME NEW d \in Conns, NEW i \in 1 .. L, Is(i, d, "ReadBuff")'
        PROVE  /\ Coming'[i].seq \in 1 .. Pushed(d)'
               /\ \A j \in 1 .. i - 1 : Is(j, d, "ReadBuff")' => Coming'[j].seq < Coming'[i].seq
    <3>1. \A j \in 1 .. i - 1 : j \in 1 .. N /\ Coming'[j] = Coming[j]
      BY DEF Appended
    <3>2. ASSUME NEW j \in 1 .. i - 1, Is(j, d, "ReadBuff")' PROVE Is(j, d, "ReadBuff")
      <4>1. j \in 1 .. N
        BY <3>1
      <4> QED
        BY <1>a, <3>2, <4>1
    <3>3. \A j \in 1 .. N : Is(j, d, "ReadBuff") => Coming[j].seq \in 1 .. Pushed(d)
      BY DEF InOrder, ReadsInOrder
    <3>4. CASE i = L
      <4>1. d = c
        BY <1>n, <2>2, <3>4 DEF Is
      <4> QED
        BY <1>g, <1>n, <3>1, <3>2, <3>3, <3>4, <4>1
    <3>5. CASE i \in 1 .. N
      <4>1. Is(i, d, "ReadBuff") /\ Coming'[i] = Coming[i]
        BY <1>a, <2>2, <3>5 DEF Appended
      <4>2. \A j \in 1 .. i - 1 : Is(j, d, "ReadBuff") => Coming[j].seq < Coming[i].seq
        BY <3>5, <4>1 DEF InOrder, ReadsInOrder
      <4> QED
        BY <1>g, <3>1, <3>2, <3>3, <3>5, <4>1, <4>2
    <3> QED
      BY <3>4, <3>5
  <2>3. ASSUME NEW d \in Conns, app[d] \in {"none", "open"}, NEW n \in 1 .. Pushed(d)'
        PROVE  n > seen[d] <=> \E i \in 1 .. L : Is(i, d, "ReadBuff")' /\ Coming'[i].seq = n
    <3>1. \A i \in 1 .. N : i \in 1 .. L /\ Coming'[i] = Coming[i]
      BY DEF Appended
    <3>2. seen[d] \in Nat /\ seen[d] <= Pushed(d)
      BY DEF InOrder, ReadsInOrder, TypeOK, SinkTypeOK
    <3>3. \A k \in 1 .. Pushed(d) :
            k > seen[d] <=> \E i \in 1 .. N : Is(i, d, "ReadBuff") /\ Coming[i].seq = k
      BY <2>3 DEF InOrder, ReadsInOrder
    <3>4. CASE n \in 1 .. Pushed(d)
      <4>1. ASSUME NEW i \in 1 .. L, Is(i, d, "ReadBuff")', Coming'[i].seq = n PROVE i \in 1 .. N
        BY <1>g, <1>n, <3>4, <4>1 DEF Is
      <4> QED
        BY <1>a, <3>1, <3>3, <3>4, <4>1
    <3>5. CASE n = Pushed(d) + 1
      <4>1. d = c /\ n = Pushed(c) + 1
        BY <1>g, <3>5
      <4>2. Is(L, d, "ReadBuff")'
        BY <1>0, <4>1
      <4> QED
        BY <1>g, <1>n, <3>2, <3>5, <4>1, <4>2
    <3> QED
      BY <1>g, <3>4, <3>5
  <2> QED
    BY <1>n, <2>1, <2>2, <2>3 DEF ReadsInOrder
<1> QED
  BY <1>1, <1>2 DEF InOrder

\* The end of a connection is queued.
LEMMA QueueClosed ==
  ASSUME InOrder, NEW c \in Conns,
         Appended([conn |-> c, state |-> "Closed", seq |-> 0]),
         UNCHANGED <<app, seen>>,
         \A d \in Conns : Pushed(d)' = Pushed(d),
         \A d \in Conns : Unannounced(d)' <=> Unannounced(d)
  PROVE  InOrder'
<1> DEFINE L == Len(Coming) + 1
<1>0. \A i \in Nat : \A d, state :
        Is(i, d, state)' <=> Is(i, d, state) \/ (i = L /\ c = d /\ state = "Closed")
  BY IsAppended
<1>1. AnnouncedOnce'
  BY <1>0 DEF InOrder, AnnouncedOnce, Appended, Is
<1>2. ReadsInOrder'
  <2>1. \A i \in 1 .. L : \A d : Is(i, d, "ReadBuff")' <=> Is(i, d, "ReadBuff")
    BY <1>0 DEF Appended
  <2>2. \A i \in 1 .. L : \A d : Is(i, d, "ReadBuff") => i \in 1 .. Len(Coming)
    BY DEF Is
  <2> QED
    BY <2>1, <2>2 DEF InOrder, ReadsInOrder, Appended
<1> QED
  BY <1>1, <1>2 DEF InOrder

\* The logic thread handles message m: what it does to the application's view of its
\* connection, and what it leaves alone.
Handled(m) ==
    /\ Len(Coming') = Len(Coming) - 1 /\ Len(Coming) > 0
    /\ \A i \in 1 .. Len(Coming') : Coming'[i] = Coming[i + 1]
    /\ Coming[1] = m
    /\ UNCHANGED <<nextId, apc, aconn, got, mapAll, wpc, wconn>>
    /\ \A d \in Conns :
          /\ app'[d] = "none" <=> app[d] = "none" /\ ~(d = m.conn /\ m.state = "Accepted")
          /\ app'[d] = "open" =>
                IF d = m.conn /\ m.state = "Accepted"
                THEN TRUE
                ELSE app[d] = "open" /\ ~(d = m.conn /\ m.state = "Closed")
          /\ seen'[d] = IF d = m.conn /\ m.state = "ReadBuff" /\ app[d] = "open"
                        THEN m.seq ELSE seen[d]

\* The messages that are left have moved up by one.
LEMMA IsHandled ==
  ASSUME NEW m, Handled(m), NEW N \in Nat, N = Len(Coming)
  PROVE  /\ \A i \in 2 .. N : /\ Coming'[i - 1] = Coming[i]
                              /\ \A d, state : Is(i - 1, d, state)' <=> Is(i, d, state)
         /\ \A i \in 1 .. N - 1 : /\ Coming'[i] = Coming[i + 1]
                                  /\ \A d, state : Is(i, d, state)' <=> Is(i + 1, d, state)
         /\ \A i \in 1 .. N - 1 : i + 1 \in 2 .. N /\ i = i + 1 - 1
<1>0. \A i \in 2 .. N : /\ Coming'[i - 1] = Coming[i]
                        /\ \A d, state : Is(i - 1, d, state)' <=> Is(i, d, state)
  BY DEF Handled, Is
<1>s. \A i \in 1 .. N - 1 : i + 1 \in 2 .. N /\ i = i + 1 - 1
  OBVIOUS
<1>r. ASSUME NEW i \in 1 .. N - 1
      PROVE  Coming'[i] = Coming[i + 1] /\ \A d, state : Is(i, d, state)' <=> Is(i + 1, d, state)
  <2> DEFINE k == i + 1
  <2>1. k \in 2 .. N /\ k - 1 = i
    BY <1>s
  <2> HIDE DEF k
  <2>2. Coming'[i] = Coming[k] /\ \A d, state : Is(i, d, state)' <=> Is(k, d, state)
    BY <1>0, <2>1
  <2> QED
    BY <2>2 DEF k
<1> QED
  BY <1>0, <1>s, <1>r

LEMMA PushedFrame ==
  ASSUME UNCHANGED <<got, wpc, wconn>>
  PROVE  \A c \in Conns : Pushed(c)' = Pushed(c)
  BY DEF Pushed

\* A worker whose step neither ends nor begins between a message and its queueing.
LEMMA PushedKept ==
  ASSUME UNCHANGED got, NEW w \in Workers, wpc[w] # "insert", wpc'[w] # "insert",
         \A v \in Workers \ {w} : wpc'[v] = wpc[v] /\ wconn'[v] = wconn[v]
  PROVE  \A c \in Conns : Pushed(c)' = Pushed(c)
<1> TAKE c \in Conns
<1>1. (\E v \in Workers : wpc'[v] = "insert" /\ wconn'[v] = c)
         <=> \E v \in Workers : wpc[v] = "insert" /\ wconn[v] = c
  OBVIOUS
<1> QED
  BY <1>1 DEF Pushed

LEMMA HandleMessage ==
  ASSUME InOrder, TypeOK, NEW m \in Msg, Handled(m), NEW N \in Nat, N = Len(Coming)
  PROVE  InOrder'
<1> DEFINE c == m.conn
<1>0. \A i \in 2 .. N : /\ Coming'[i - 1] = Coming[i]
                        /\ \A d, state : Is(i - 1, d, state)' <=> Is(i, d, state)
  BY IsHandled
<1>s. \A i \in 1 .. N - 1 : i + 1 \in 2 .. N /\ i = i + 1 - 1
  OBVIOUS
<1>r. \A i \in 1 .. N - 1 : /\ Coming'[i] = Coming[i + 1]
                            /\ \A d, state : Is(i, d, state)' <=> Is(i + 1, d, state)
  BY IsHandled
<1>p. \A d \in Conns : Pushed(d)' = Pushed(d) /\ Pushed(d) \in Nat
  BY PushedFrame DEF Handled, InOrder, ReadsInOrder
<1>1. /\ Len(Coming') = N - 1 /\ N > 0 /\ c \in Conns /\ Is(1, c, m.state) /\ Coming[1] = m
      /\ \A d, state : Is(1, d, state) => d = c /\ state = m.state
      /\ \A d : Unannounced(d)' <=> Unannounced(d)
  BY DEF Handled, Msg, Is, Unannounced
<1>2. /\ m.state # "Closed" => ~Unannounced(c)
      /\ m.state = "ReadBuff" => app[c] # "none"
  BY <1>1 DEF InOrder, AnnouncedOnce, Is
<1>3. m.state = "Accepted" => app[c] = "none" /\ \A j \in 2 .. N : ~Is(j, c, "Accepted")
  BY <1>1 DEF InOrder, AnnouncedOnce
<1>4. AnnouncedOnce'
  <2>1. ASSUME NEW d \in Conns, Unannounced(d)'
        PROVE  /\ app'[d] = "none" /\ Pushed(d)' = 0
               /\ \A i \in 1 .. N - 1 : Coming'[i].conn = d => Coming'[i].state = "Closed"
    <3>1. /\ app[d] = "none" /\ Pushed(d) = 0
          /\ \A i \in 1 .. N : Coming[i].conn = d => Coming[i].state = "Closed"
      BY <1>1, <2>1 DEF InOrder, AnnouncedOnce
    <3>2. \A i \in 1 .. N - 1 : Coming'[i] = Coming[i + 1] /\ i + 1 \in 1 .. N
      BY <1>r
    <3>3. ~(d = c /\ m.state = "Accepted")
      BY <1>1, <1>2, <2>1
    <3> QED
      BY <1>p, <3>1, <3>2, <3>3 DEF Handled
  <2>2. ASSUME NEW d \in Conns, ~Unannounced(d)', app'[d] = "none"
        PROVE  \E i \in 1 .. N - 1 : Is(i, d, "Accepted")'
    <3>1. app[d] = "none" /\ ~(d = c /\ m.state = "Accepted")
      BY <2>2 DEF Handled
    <3>2. PICK i \in 1 .. N : Is(i, d, "Accepted")
      BY <1>1, <2>2, <3>1 DEF InOrder, AnnouncedOnce
    <3>3. i # 1
      BY <1>1, <3>1, <3>2
    <3> QED
      BY <1>0, <3>2, <3>3
  <2>3. ASSUME NEW d \in Conns, NEW i \in 1 .. N - 1, Is(i, d, "Accepted")'
        PROVE  app'[d] = "none" /\ \A j \in 1 .. N - 1 : Is(j, d, "Accepted")' => j = i
    <3>1. Is(i + 1, d, "Accepted") /\ i + 1 \in 1 .. N
      BY <1>r, <2>3
    <3>2. app[d] = "none" /\ \A j \in 1 .. N : Is(j, d, "Accepted") => j = i + 1
      BY <3>1 DEF InOrder, AnnouncedOnce
    <3>3. ~(d = c /\ m.state = "Accepted")
      BY <1>1, <3>2
    <3> QED
      BY <1>r, <3>2, <3>3 DEF Handled
  <2>4. ASSUME NEW d \in Conns, NEW i \in 1 .. N - 1, Is(i, d, "ReadBuff")', app'[d] = "none"
        PROVE  \E j \in 1 .. i - 1 : Is(j, d, "Accepted")'
    <3>1. app[d] = "none" /\ ~(d = c /\ m.state = "Accepted")
      BY <2>4 DEF Handled
    <3>2. i + 1 \in 1 .. N /\ Is(i + 1, d, "ReadBuff")
      BY <1>r, <2>4
    <3>3. PICK j \in 1 .. i : Is(j, d, "Accepted")
      BY <3>1, <3>2 DEF InOrder, AnnouncedOnce
    <3>4. j # 1
      BY <1>1, <3>1, <3>3
    <3> QED
      BY <1>0, <3>3, <3>4
  <2> QED
    BY <1>1, <2>1, <2>2, <2>3, <2>4 DEF AnnouncedOnce
<1>5. ReadsInOrder'
  <2>1. ASSUME NEW d \in Conns PROVE Pushed(d)' \in Nat /\ seen'[d] <= Pushed(d)'
    BY <1>1, <1>p DEF InOrder, ReadsInOrder, Handled, Is
  <2>2. ASSUME NEW d \in Conns, NEW i \in 1 .. N - 1, Is(i, d, "ReadBuff")'
        PROVE  /\ Coming'[i].seq \in 1 .. Pushed(d)'
               /\ \A j \in 1 .. i - 1 : Is(j, d, "ReadBuff")' => Coming'[j].seq < Coming'[i].seq
    <3>1. Is(i + 1, d, "ReadBuff") /\ i + 1 \in 1 .. N /\ Coming'[i] = Coming[i + 1]
      BY <1>r, <2>2
    <3>2. /\ Coming[i + 1].seq \in 1 .. Pushed(d)
          /\ \A j \in 1 .. i : Is(j, d, "ReadBuff") => Coming[j].seq < Coming[i + 1].seq
      BY <3>1 DEF InOrder, ReadsInOrder
    <3>3. ASSUME NEW j \in 1 .. i - 1, Is(j, d, "ReadBuff")' PROVE Coming'[j].seq < Coming'[i].seq
      <4>1. Is(j + 1, d, "ReadBuff") /\ j + 1 \in 1 .. i /\ Coming'[j] = Coming[j + 1]
        BY <1>r, <3>3
      <4> QED
        BY <3>1, <3>2, <4>1
    <3> QED
      BY <1>p, <3>1, <3>2, <3>3
  <2>3. ASSUME NEW d \in Conns, app'[d] \in {"none", "open"}, NEW n \in 1 .. Pushed(d)'
        PROVE  n > seen'[d] <=> \E i \in 1 .. N - 1 : Is(i, d, "ReadBuff")' /\ Coming'[i].seq = n
    <3>1. app[d] \in {"none", "open"} /\ n \in 1 .. Pushed(d)
      BY <1>3, <1>p, <2>3 DEF Handled
    <3>2. \A k \in 1 .. Pushed(d) :
            k > seen[d] <=> \E i \in 1 .. N : Is(i, d, "ReadBuff") /\ Coming[i].seq = k
      BY <3>1 DEF InOrder, ReadsInOrder
    <3>3. (\E i \in 1 .. N - 1 : Is(i, d, "ReadBuff")' /\ Coming'[i].seq = n)
             <=> \E i \in 2 .. N : Is(i, d, "ReadBuff") /\ Coming[i].seq = n
      BY <1>0, <1>r, <1>s
    <3>4. CASE d = c /\ m.state = "ReadBuff"
      <4>1. Is(1, d, "ReadBuff") /\ Coming[1].seq = m.seq /\ seen'[d] = m.seq
        BY <1>1, <1>2, <3>1, <3>4 DEF Handled
      <4>2. m.seq \in 1 .. Pushed(d) /\ m.seq > seen[d]
        BY <1>1, <3>2, <4>1 DEF InOrder, ReadsInOrder
      <4>3. \A i \in 2 .. N : Is(i, d, "ReadBuff") => m.seq < Coming[i].seq
        BY <4>1 DEF InOrder, ReadsInOrder
      <4>4. seen[d] \in Nat /\ Pushed(d) \in Nat
        BY <1>p DEF TypeOK, SinkTypeOK
      <4> QED
        BY <3>1, <3>2, <3>3, <4>1, <4>2, <4>3, <4>4
    <3>5. CASE ~(d = c /\ m.state = "ReadBuff")
      <4>1. seen'[d] = seen[d] /\ ~Is(1, d, "ReadBuff")
        BY <1>1, <3>5 DEF Handled
      <4> QED
        BY <3>1, <3>2, <3>3, <4>1
    <3> QED
      BY <3>4, <3>5
  <2> QED
    BY <1>1, <2>1, <2>2, <2>3 DEF ReadsInOrder
<1> QED
  BY <1>4, <1>5 DEF InOrder

\* Which sinks are in use changes with what the application is told.
LEMMA SinkStep ==
  ASSUME IndInv, StageInv, QueueInv, SinkInv, [Next]_vars
  PROVE  SinkInv'
<1> USE DEF IndInv, TypeOK
<1>1. CASE UNCHANGED <<sinkVars, listening, got>>
  BY <1>1 DEF SinkInv, sinkVars
<1> SUFFICES ASSUME Alive, Next PROVE SinkInv'
  BY <1>1, DeadEnd DEF vars, serverVars, streamVars
<1>f. ASSUME queMsgs # <<>>
      PROVE  /\ InOrder /\ listening
             /\ Head(queMsgs).conn \in Conns
             /\ Head(queMsgs).state = "Accepted" => app[Head(queMsgs).conn] = "none"
             /\ Head(queMsgs).state = "ReadBuff" => Head(queMsgs).seq \in Nat
  <2>1. InOrder /\ listening
    BY <1>f DEF StageInv, Unstarted, QueueInv
  <2>2. Head(queMsgs) \in Msg /\ Coming[1] = Head(queMsgs) /\ Len(Coming) > 0 /\ Len(Coming) \in Nat
    BY <1>f DEF QueueTypeOK, Coming
  <2>3. Head(queMsgs).state = "Accepted" => Is(1, Head(queMsgs).conn, "Accepted")
    BY <2>2 DEF Is
  <2> QED
    BY <2>1, <2>2, <2>3 DEF Msg, InOrder, AnnouncedOnce
<1>2. CASE Start
  BY <1>2 DEF Start, SinkInv, sinkVars, streamVars
<1>3. CASE DispatchAccepted
  <2>1. /\ queMsgs # <<>> /\ Head(queMsgs).state = "Accepted" /\ UNCHANGED <<seen, got, listening>>
    BY <1>3 DEF DispatchAccepted, Front, serverVars, streamVars
  <2>2. PICK s \in IdleSinks :
          /\ idle' = [idle EXCEPT ![s] = FALSE]
          /\ mapClients' = [mapClients EXCEPT ![Head(queMsgs).conn] = s]
          /\ app' = [app EXCEPT ![Head(queMsgs).conn] = "open"]
    BY <1>3 DEF DispatchAccepted
  <2>3. s \in Sinks /\ idle[s] /\ s # NoSink
    BY <2>2, ServerAssumption DEF IdleSinks, Sinks, NoSink
  <2>4. mapClients[Head(queMsgs).conn] = NoSink
    BY <1>f, <2>1 DEF SinkInv
  <2> DEFINE c == Head(queMsgs).conn
  <2>5. /\ \A d \in Conns : mapClients'[d] = IF d = c THEN s ELSE mapClients[d]
        /\ \A d \in Conns : app'[d] = IF d = c THEN "open" ELSE app[d]
        /\ \A i \in Sinks : idle'[i] = IF i = s THEN FALSE ELSE idle[i]
        /\ c \in Conns /\ listening /\ \A d \in Conns : mapClients[d] # s
    BY <1>f, <2>1, <2>2, <2>3 DEF SinkInv, SinkTypeOK
  <2>6. \A i \in Sinks : idle'[i] <=> \A d \in Conns : mapClients'[d] # i
    <3> SUFFICES ASSUME NEW i \in Sinks
                 PROVE  idle'[i] <=> \A d \in Conns : mapClients'[d] # i
      OBVIOUS
    <3>1. idle[i] <=> \A d \in Conns : mapClients[d] # i
      BY DEF SinkInv
    <3>2. i # NoSink
      BY ServerAssumption DEF Sinks, NoSink
    <3>3. CASE i = s
      BY <2>5, <3>3
    <3>4. CASE i # s
      BY <2>4, <2>5, <3>1, <3>2, <3>4
    <3> QED
      BY <3>3, <3>4
  <2>7. \A d \in Conns : app'[d] = "open" <=> mapClients'[d] # NoSink
    BY <2>3, <2>5 DEF SinkInv
  <2> QED
    BY <2>1, <2>5, <2>6, <2>7 DEF SinkInv
<1>4. CASE DispatchRefused
  <2>1. /\ queMsgs # <<>> /\ Head(queMsgs).state = "Accepted"
        /\ app' = [app EXCEPT ![Head(queMsgs).conn] = "refused"]
        /\ UNCHANGED <<seen, got, listening, idle, mapClients>>
    BY <1>4 DEF DispatchRefused, Front, serverVars, streamVars
  <2> QED
    BY <1>f, <2>1 DEF SinkInv, SinkTypeOK
<1>5. CASE DispatchClosed
  <2> DEFINE c == Head(queMsgs).conn
  <2>1. queMsgs # <<>> /\ UNCHANGED <<seen, got, listening>>
    BY <1>5 DEF DispatchClosed, Front, serverVars, streamVars
  <2>2. CASE mapClients[c] = NoSink
    BY <1>5, <2>1, <2>2 DEF DispatchClosed, SinkInv
  <2>3. CASE mapClients[c] # NoSink
    <3>1. /\ idle' = [idle EXCEPT ![mapClients[c]] = TRUE]
          /\ mapClients' = [mapClients EXCEPT ![c] = NoSink]
          /\ app' = [app EXCEPT ![c] = "closed"]
      BY <1>5, <2>3 DEF DispatchClosed
    <3>2. c \in Conns /\ listening
      BY <1>f, <2>1
    <3>3. NoSink \notin Sinks
      BY ServerAssumption DEF Sinks, NoSink
    <3> QED
      BY <2>1, <2>3, <3>1, <3>2, <3>3 DEF SinkInv, SinkTypeOK
  <2> QED
    BY <2>2, <2>3
<1>6. CASE DispatchRead
  <2> DEFINE c == Head(queMsgs).conn
  <2>1. queMsgs # <<>> /\ UNCHANGED <<app, mapClients, idle, got, listening>>
        /\ (seen' = seen \/ (mapClients[c] # NoSink /\ seen' = [seen EXCEPT ![c] = Head(queMsgs).seq]))
    BY <1>6 DEF DispatchRead, Front, serverVars, streamVars
  <2> QED
    BY <1>f, <2>1 DEF SinkInv, SinkTypeOK
<1>7. ASSUME NEW w \in Workers, RecvGood(w) PROVE SinkInv'
  <2>1. listening
    BY <1>7 DEF RecvGood, StageInv, Unstarted
  <2> QED
    BY <1>7, <2>1 DEF RecvGood, SinkInv, sinkVars, serverVars
<1>8. CASE Close \/ AcceptCount \/ AcceptStep \/ CloseDone \/ SwapQueMsg
  <2>1. UNCHANGED <<sinkVars, listening, got>>
    BY <1>8
    DEF Close, AcceptCount, AcceptStep, CreateChannel, RefuseSocket, SendRsaSeed, NotifyAccepted,
        PostFirstRecv, FirstRecvFails, AcceptRemove, AcceptFree, AcceptStop, CloseDone, SwapQueMsg,
        serverVars, streamVars
  <2> QED
    BY <1>1, <2>1
<1>9. ASSUME NEW w \in Workers, WorkerStep(w), ~RecvGood(w) PROVE SinkInv'
  <2>1. UNCHANGED <<sinkVars, listening, got>>
    BY <1>9
    DEF WorkerStep, WorkerStop, SendComplete, InsertRead, RecvUndecryptable, RecvMalformed,
        RecvDone, PostRecv, PostRecvFails, OnDisconnect, RemoveChannel, DeleteHandle,
        serverVars, streamVars
  <2> QED
    BY <1>1, <2>1
<1>10. CASE \E c \in Conns : PeerClose(c) \/ PeerReset(c) \/ \E w \in Workers : GetStep(w, c)
  <2>1. UNCHANGED <<sinkVars, listening, got>>
    BY <1>10
    DEF PeerClose, PeerReset, GetStep, GetRecv, GetDeadRecv, GetSend, GetDeadSend, serverVars, streamVars
  <2> QED
    BY <1>1, <2>1
<1> QED
  BY <1>2, <1>3, <1>4, <1>5, <1>6, <1>7, <1>8, <1>9, <1>10 DEF Next, LogicStep, Dispatch

\* The steps that queue a message, or decide to.
LEMMA QueueSteps ==
  ASSUME IndInv, OneReader, running, InOrder,
         \/ NotifyAccepted \/ FirstRecvFails
         \/ \E w \in Workers : RecvGood(w) \/ InsertRead(w) \/ OnDisconnect(w)
  PROVE  InOrder'
<1> DEFINE N == Len(Coming)
<1>n. N \in Nat
  BY ComingType DEF IndInv, TypeOK
<1> HIDE DEF N
<1> USE DEF IndInv, TypeOK
<1>1. CASE NotifyAccepted
  <2>1. /\ apc = "notify" /\ apc' = "recv" /\ aconn \in Conns
        /\ aconn < nextId /\ nextId \in Nat
        /\ UNCHANGED <<aconn, nextId, app, seen, got, queMsgs, wpc, wconn>>
        /\ InsertMsg(aconn, "Accepted", 0)
    BY <1>1
    DEF NotifyAccepted, IdsFresh, AcceptTypeOK, connVars, streamVars, sinkVars, workVars
  <2>2. Appended([conn |-> aconn, state |-> "Accepted", seq |-> 0])
    BY <2>1, QueueInsert
  <2>3. \A d \in Conns : Unannounced(d)' <=> d # aconn /\ Unannounced(d)
    BY <2>1, ServerAssumption DEF Unannounced, Conns, AcceptTypeOK
  <2>4. Unannounced(aconn)
    BY <2>1 DEF Unannounced
  <2> QED
    BY <2>1, <2>2, <2>3, <2>4, PushedFrame, QueueAccepted
<1>2. CASE FirstRecvFails
  <2>1. /\ apc = "recv" /\ apc' = "remove" /\ aconn \in Conns
        /\ UNCHANGED <<aconn, nextId, app, seen, got, queMsgs, wpc, wconn>>
        /\ InsertMsg(aconn, "Closed", 0)
    BY <1>2 DEF FirstRecvFails, AcceptTypeOK, streamVars, sinkVars, workVars
  <2>2. Appended([conn |-> aconn, state |-> "Closed", seq |-> 0])
    BY <2>1, QueueInsert
  <2>3. \A d \in Conns : Unannounced(d)' <=> Unannounced(d)
    BY <2>1 DEF Unannounced
  <2> QED
    BY <2>1, <2>2, <2>3, PushedFrame, QueueClosed
<1>3. ASSUME NEW w \in Workers, RecvGood(w) \/ InsertRead(w) \/ OnDisconnect(w)
      PROVE  /\ wconn[w] \in Conns /\ UNCHANGED <<nextId, apc, aconn, app, seen, queMsgs, wconn>>
             /\ \A d \in Conns : Unannounced(d)' <=> Unannounced(d)
             /\ \A v \in Workers \ {w} : wpc'[v] = wpc[v]
  BY <1>3
  DEF RecvGood, InsertRead, OnDisconnect, WorkerTypeOK, acceptVars, sinkVars, Unannounced
<1>4. ASSUME NEW w \in Workers, RecvGood(w) PROVE InOrder'
  <2> DEFINE c == wconn[w]
  <2>1. /\ c \in Conns /\ wpc[w] = "recv" /\ wpc'[w] = "insert" /\ wconn' = wconn
        /\ \A v \in Workers \ {w} : wpc'[v] = wpc[v]
        /\ \A d \in Conns : got'[d] = IF d = c THEN got[c] + 1 ELSE got[d]
        /\ got[c] \in Nat
    <3>1. c \in Conns /\ wconn' = wconn /\ \A v \in Workers \ {w} : wpc'[v] = wpc[v]
      BY <1>3, <1>4
    <3>2. wpc[w] = "recv" /\ wpc'[w] = "insert"
      BY <1>4 DEF RecvGood, WorkerTypeOK
    <3>3. \A d \in Conns : got'[d] = IF d = c THEN got[c] + 1 ELSE got[d]
      BY <1>4 DEF RecvGood, ConnTypeOK
    <3> QED
      BY <3>1, <3>2, <3>3 DEF ConnTypeOK
  <2>2. \A v \in Workers : ~(wpc[v] = "insert" /\ wconn[v] = c)
    BY <2>1 DEF OneReader, Reader
  <2>3. Pushed(c) = got[c]
    BY <2>2 DEF Pushed
  <2>4. Pushed(c)' = got[c]
    BY <2>1 DEF Pushed
  <2>5. ASSUME NEW d \in Conns, d # c PROVE Pushed(d)' = Pushed(d)
    <3>1. (\E v \in Workers : wpc'[v] = "insert" /\ wconn'[v] = d)
             <=> \E v \in Workers : wpc[v] = "insert" /\ wconn[v] = d
      BY <2>1, <2>5
    <3> QED
      BY <2>1, <2>5, <3>1 DEF Pushed
  <2>6. Coming' = Coming /\ UNCHANGED <<app, seen>>
    BY <1>4 DEF RecvGood, Coming, sinkVars
  <2> QED
    BY <1>3, <1>4, <2>3, <2>4, <2>5, <2>6, InOrderFrame
<1>5. ASSUME NEW w \in Workers, InsertRead(w) PROVE InOrder'
  <2> DEFINE c == wconn[w]
  <2>1. /\ c \in Conns /\ wpc[w] = "insert" /\ wpc'[w] = "recv" /\ wconn' = wconn
        /\ \A v \in Workers \ {w} : wpc'[v] = wpc[v]
        /\ got' = got /\ got[c] \in Nat /\ InsertMsg(c, "ReadBuff", got[c])
    <3>1. c \in Conns /\ wconn' = wconn /\ \A v \in Workers \ {w} : wpc'[v] = wpc[v]
      BY <1>3, <1>5
    <3>2. /\ wpc[w] = "insert" /\ wpc'[w] = "recv" /\ got' = got
          /\ InsertMsg(c, "ReadBuff", got[c])
      BY <1>5 DEF InsertRead, WorkerTypeOK, streamVars
    <3> QED
      BY <3>1, <3>2 DEF ConnTypeOK
  <2>2. /\ got[c] > 0 /\ ~Starting(c)
        /\ \A v \in Workers \ {w} : ~(wpc[v] = "insert" /\ wconn[v] = c)
    BY <2>1 DEF OneReader, Reader
  <2>3. Pushed(c) = got[c] - 1 /\ Pushed(c)' = Pushed(c) + 1
    <3>1. Pushed(c) = got[c] - 1
      BY <2>1 DEF Pushed
    <3>2. Pushed(c)' = got[c]
      BY <2>1, <2>2 DEF Pushed
    <3> QED
      BY <2>1, <3>1, <3>2
  <2>4. ASSUME NEW d \in Conns, d # c PROVE Pushed(d)' = Pushed(d)
    <3>1. (\E v \in Workers : wpc'[v] = "insert" /\ wconn'[v] = d)
             <=> \E v \in Workers : wpc[v] = "insert" /\ wconn[v] = d
      BY <2>1, <2>4
    <3> QED
      BY <2>1, <2>4, <3>1 DEF Pushed
  <2>5. ~Unannounced(c)
    <3>1. c < nextId /\ nextId \in Nat
      BY <2>1 DEF IdsFresh, Busy, AcceptTypeOK
    <3> QED
      BY <2>1, <2>2, <3>1, ServerAssumption DEF Unannounced, Starting, Conns
  <2>6. Appended([conn |-> c, state |-> "ReadBuff", seq |-> got[c]])
    BY <1>3, <1>5, <2>1, QueueInsert
  <2>7. got[c] = Pushed(c) + 1
    BY <2>1, <2>3
  <2> QED
    BY <1>3, <1>5, <1>n, <2>3, <2>4, <2>5, <2>6, <2>7, QueueRead DEF N
<1>6. ASSUME NEW w \in Workers, OnDisconnect(w) PROVE InOrder'
  <2>1. /\ wpc[w] = "dead" /\ wpc'[w] = "remove" /\ got' = got
        /\ InsertMsg(wconn[w], "Closed", 0)
    BY <1>6 DEF OnDisconnect, WorkerTypeOK, streamVars
  <2>2. Appended([conn |-> wconn[w], state |-> "Closed", seq |-> 0])
    BY <1>3, <1>6, <2>1, QueueInsert
  <2>3. \A d \in Conns : Pushed(d)' = Pushed(d)
    BY <1>3, <1>6, <2>1, PushedKept
  <2> QED
    BY <1>3, <1>6, <2>2, <2>3, QueueClosed
<1> QED
  BY <1>1, <1>2, <1>4, <1>5, <1>6

\* A step of the dispatch, seen from the one queue.
LEMMA DispatchHandled ==
  ASSUME TypeOK, InOrder, SinkInv, Dispatch
  PROVE  /\ queMsgs # <<>> /\ Handled(Head(queMsgs))
         /\ Head(queMsgs) \in Msg /\ Len(Coming) \in Nat \ {0} /\ Coming[1] = Head(queMsgs)
         /\ Is(1, Head(queMsgs).conn, Head(queMsgs).state)
<1> DEFINE N == Len(Coming)
           m == Head(queMsgs)
           c == m.conn
<1> USE DEF TypeOK
<1>1. /\ queMsgs # <<>> /\ queMsgs' = Tail(queMsgs) /\ queueMsgs' = queueMsgs
      /\ UNCHANGED <<nextId, apc, aconn, got, mapAll, wpc, wconn>>
  BY DEF Dispatch, DispatchAccepted, DispatchRefused, DispatchClosed, DispatchRead, Front,
     acceptVars, connVars, streamVars, workVars
<1>2. /\ Len(Coming') = N - 1 /\ N > 0 /\ N \in Nat
      /\ \A i \in 1 .. Len(Coming') : Coming'[i] = Coming[i + 1]
      /\ Coming[1] = m
  BY <1>1, ComingTail
<1>3. m \in Msg /\ c \in Conns /\ Is(1, c, m.state)
  BY <1>1, <1>2, ComingType DEF Is, Msg
<1>4. m.state = "Accepted" => app[c] = "none"
  BY <1>3 DEF InOrder, AnnouncedOnce, Is
<1>6. \A d \in Conns :
        /\ app'[d] = "none" <=> app[d] = "none" /\ ~(d = c /\ m.state = "Accepted")
        /\ app'[d] = "open" =>
              IF d = c /\ m.state = "Accepted"
              THEN TRUE
              ELSE app[d] = "open" /\ ~(d = c /\ m.state = "Closed")
        /\ seen'[d] = IF d = c /\ m.state = "ReadBuff" /\ app[d] = "open"
                      THEN m.seq ELSE seen[d]
  <2>1. CASE DispatchAccepted \/ DispatchRefused
    <3>1. /\ m.state = "Accepted" /\ seen' = seen
          /\ app' = [app EXCEPT ![c] = "open"] \/ app' = [app EXCEPT ![c] = "refused"]
      BY <2>1 DEF DispatchAccepted, DispatchRefused, Front
    <3> QED
      BY <1>3, <1>4, <3>1 DEF SinkTypeOK
  <2>2. CASE DispatchClosed
    <3>1. /\ m.state = "Closed" /\ seen' = seen
          /\ IF app[c] = "open" THEN app' = [app EXCEPT ![c] = "closed"] ELSE app' = app
      BY <1>3, <2>2 DEF DispatchClosed, Front, SinkInv
    <3> QED
      BY <1>3, <3>1 DEF SinkTypeOK
  <2>3. CASE DispatchRead
    <3>1. /\ m.state = "ReadBuff" /\ app' = app
          /\ IF app[c] = "open" THEN seen' = [seen EXCEPT ![c] = m.seq] ELSE seen' = seen
      BY <1>3, <2>3 DEF DispatchRead, Front, SinkInv
    <3> QED
      BY <1>3, <3>1 DEF SinkTypeOK
  <2> QED
    BY <2>1, <2>2, <2>3 DEF Dispatch
<1>7. Handled(m)
  BY <1>1, <1>2, <1>6 DEF Handled
<1> QED
  BY <1>1, <1>2, <1>3, <1>7

\* Only Start sets _running, and Close clears it.
LEMMA RunsOn ==
  ASSUME StageInv, Next, running', ~Start
  PROVE  running /\ ~Close /\ ~CloseDone
<1>1. ~Close
  BY DEF Close
<1>2. UNCHANGED running
  <2>1. CASE AcceptCount \/ AcceptStep \/ \E c \in Conns : PeerClose(c) \/ PeerReset(c)
    BY <2>1
    DEF AcceptCount, AcceptStep, CreateChannel, RefuseSocket, SendRsaSeed, NotifyAccepted,
        PostFirstRecv, FirstRecvFails, AcceptRemove, AcceptFree, AcceptStop, PeerClose,
        PeerReset, serverVars
  <2>2. CASE LogicStep
    BY <2>2
    DEF LogicStep, CloseDone, SwapQueMsg, Dispatch, DispatchAccepted, DispatchRefused,
        DispatchClosed, DispatchRead, serverVars
  <2>3. CASE \E w \in Workers : WorkerStep(w) \/ \E c \in Conns : GetStep(w, c)
    BY <2>3
    DEF WorkerStep, WorkerStop, SendComplete, RecvGood, InsertRead, RecvUndecryptable,
        RecvMalformed, RecvDone, PostRecv, PostRecvFails, OnDisconnect, RemoveChannel,
        DeleteHandle, GetStep, GetRecv, GetDeadRecv, GetSend, GetDeadSend, serverVars
  <2> QED
    BY <1>1, <2>1, <2>2, <2>3 DEF Next
<1>3. ~CloseDone
  BY <1>2 DEF CloseDone, StageInv, Unstarted
<1> QED
  BY <1>1, <1>2, <1>3

\* The two queues as one, seen from every step.
LEMMA QueueStep ==
  ASSUME IndInv, StageInv, OneReader, QueueInv, SinkInv, [Next]_vars
  PROVE  QueueInv'
<1> USE DEF IndInv, TypeOK
<1>1. CASE UNCHANGED vars
  <2>1. UNCHANGED <<Coming, app, seen, got, wpc, wconn, nextId, apc, aconn, running, crash>>
    BY <1>1 DEF vars, serverVars, acceptVars, streamVars, sinkVars, workVars, Coming
  <2> QED
    BY <2>1, InOrderFrame, PushedFrame DEF QueueInv, Alive, Unannounced
<1> SUFFICES ASSUME Alive, Next, Alive', running' PROVE InOrder'
  BY <1>1, DeadEnd DEF QueueInv
<1>2. CASE Start
  <2>1. /\ nextId = 0 /\ queMsgs = <<>> /\ queueMsgs = <<>>
        /\ \A c \in Conns : app[c] = "none" /\ got[c] = 0 /\ seen[c] = 0
    BY <1>2 DEF Start, Check, Alive, StageInv, Unstarted, SinkInv
  <2>2. UNCHANGED <<nextId, app, got, seen>> /\ Coming' = <<>>
        /\ \A w \in Workers : wpc'[w] = "get"
    BY <1>2, <2>1 DEF Start, acceptVars, streamVars, sinkVars, Coming
  <2>3. Len(Coming') = 0 /\ \A c \in Conns : Pushed(c)' = 0
    BY <2>1, <2>2 DEF Pushed
  <2>5. AnnouncedOnce'
    BY <2>1, <2>2, <2>3, ServerAssumption DEF AnnouncedOnce, Unannounced, Conns
  <2>6. ReadsInOrder'
    BY <2>1, <2>2, <2>3 DEF ReadsInOrder
  <2> QED
    BY <2>5, <2>6 DEF InOrder
<1> SUFFICES ASSUME ~Start PROVE InOrder'
  BY <1>2
<1>3. running /\ InOrder /\ ~Close /\ ~CloseDone
  BY RunsOn DEF QueueInv
<1>4. CASE \/ NotifyAccepted \/ FirstRecvFails
           \/ \E w \in Workers : RecvGood(w) \/ InsertRead(w) \/ OnDisconnect(w)
  BY <1>3, <1>4, QueueSteps
<1>5. CASE Dispatch
  BY <1>3, <1>5, DispatchHandled, HandleMessage
<1>6. CASE SwapQueMsg
  <2>1. Coming' = Coming
    BY <1>6, ComingSwap DEF SwapQueMsg
  <2>2. UNCHANGED <<app, seen, got, wpc, wconn, nextId, apc, aconn>>
    BY <1>6 DEF SwapQueMsg, acceptVars, streamVars, sinkVars, workVars
  <2> QED
    BY <1>3, <2>1, <2>2, InOrderFrame, PushedFrame DEF Unannounced
<1>7. CASE CreateChannel
  <2>1. /\ nextId \in Conns /\ nextId' = nextId + 1 /\ aconn' = nextId /\ apc = "create" /\ apc' = "seed"
        /\ UNCHANGED <<app, got, seen, queMsgs, queueMsgs, wpc, wconn>>
    BY <1>7, ServerAssumption DEF CreateChannel, Conns, AcceptTypeOK, streamVars, sinkVars, workVars
  <2>2. \A d \in Conns : Unannounced(d)' <=> Unannounced(d)
    BY <2>1, ServerAssumption DEF Unannounced, Conns
  <2> QED
    BY <1>3, <2>1, <2>2, InOrderFrame, PushedFrame DEF Coming
<1>8. CASE \/ AcceptCount \/ RefuseSocket \/ SendRsaSeed \/ PostFirstRecv \/ AcceptRemove
           \/ AcceptFree \/ AcceptStop
  <2>1. /\ UNCHANGED <<nextId, aconn, app, got, seen, queMsgs, queueMsgs, wpc, wconn>>
        /\ apc \in {"seed", "notify"} <=> apc' \in {"seed", "notify"}
    BY <1>8 DEF AcceptCount, RefuseSocket, SendRsaSeed, PostFirstRecv, AcceptRemove, AcceptFree,
       AcceptStop, connVars, streamVars, sinkVars, workVars
  <2>2. \A d \in Conns : Unannounced(d)' <=> Unannounced(d)
    BY <2>1 DEF Unannounced
  <2> QED
    BY <1>3, <2>1, <2>2, InOrderFrame, PushedFrame DEF Coming
<1>9. ASSUME NEW w \in Workers,
             \/ WorkerStep(w) /\ ~RecvGood(w) /\ ~InsertRead(w) /\ ~OnDisconnect(w)
             \/ \E c \in Conns : GetStep(w, c)
      PROVE  InOrder'
  <2>1. /\ UNCHANGED <<acceptVars, app, got, seen, queMsgs, queueMsgs>>
        /\ \A v \in Workers \ {w} : wpc'[v] = wpc[v] /\ wconn'[v] = wconn[v]
        /\ wpc[w] # "insert" /\ wpc'[w] # "insert"
    BY <1>9
    DEF WorkerStep, WorkerStop, SendComplete, RecvUndecryptable, RecvMalformed, RecvDone,
        PostRecv, PostRecvFails, RemoveChannel, DeleteHandle, GetStep, GetRecv, GetDeadRecv,
        GetSend, GetDeadSend, MayGet, Take, streamVars, sinkVars, workVars, WorkerTypeOK
  <2>2. \A d \in Conns : Unannounced(d)' <=> Unannounced(d)
    BY <2>1 DEF Unannounced, acceptVars
  <2> QED
    BY <1>3, <2>1, <2>2, InOrderFrame, PushedKept DEF Coming
<1>10. CASE \E c \in Conns : PeerClose(c) \/ PeerReset(c)
  <2>1. UNCHANGED <<app, seen, got, wpc, wconn, nextId, apc, aconn, queMsgs, queueMsgs>>
    BY <1>10 DEF PeerClose, PeerReset, acceptVars, streamVars, sinkVars, workVars
  <2> QED
    BY <1>3, <2>1, InOrderFrame, PushedFrame DEF Unannounced, Coming
<1> QED
  BY <1>3, <1>4, <1>5, <1>6, <1>7, <1>8, <1>9, <1>10 DEF Next, AcceptStep, LogicStep

\* All that is invariant in any environment.
OrderInv == IndInv /\ StageInv /\ OneReader /\ QueueInv /\ SinkInv

LEMMA OrderInvariant == Spec => []OrderInv
<1>1. Init => OneReader /\ SinkInv /\ QueueInv
  BY ServerAssumption DEF Init, OneReader, Reader, Starting, SinkInv, QueueInv, Sinks, NoSink
<1>2. IndInv /\ StageInv /\ OneReader /\ QueueInv /\ SinkInv /\ [Next]_vars
        => OneReader' /\ SinkInv' /\ QueueInv'
  BY ReaderStep, SinkStep, QueueStep
<1> QED
  BY <1>1, <1>2, StageInvariant, PTL DEF Spec, OrderInv

-------------------------------------------------------------------------------
(* The callbacks *)

LEMMA SessionStep ==
  ASSUME OrderInv, [Next]_vars
  PROVE  [S!SessionNext]_(S!sessionVars)
<1> USE DEF OrderInv
<1>1. CASE UNCHANGED <<app, seen, mapClients>>
  BY <1>1 DEF S!sessionVars
<1>2. CASE Dispatch
  <2> DEFINE m == Head(queMsgs)
             c == m.conn
             N == Len(Coming)
  <2>1. Alive /\ queMsgs # <<>>
    BY <1>2 DEF Dispatch, DispatchAccepted, DispatchRefused, DispatchClosed, DispatchRead, Front
  <2>2. InOrder
    BY <2>1 DEF StageInv, Unstarted, QueueInv
  <2>3. m \in Msg /\ N \in Nat \ {0} /\ Coming[1] = m /\ Is(1, c, m.state)
    BY <1>2, <2>1, <2>2, DispatchHandled DEF IndInv
  <2>4. c \in Conns /\ Is(1, c, m.state)
    BY <2>3 DEF Msg
  <2>5. m.state = "Accepted" => app[c] = "none"
    BY <2>2, <2>4 DEF InOrder, AnnouncedOnce, Is
  <2>6. CASE DispatchAccepted
    <3>1. PICK s \in IdleSinks :
            /\ mapClients' = [mapClients EXCEPT ![c] = s]
            /\ app' = [app EXCEPT ![c] = "open"]
      BY <2>6 DEF DispatchAccepted
    <3>2. s \in Sinks /\ \A d \in Conns : mapClients[d] # s
      BY <3>1 DEF IdleSinks, SinkInv
    <3>3. m.state = "Accepted" /\ seen' = seen
      BY <2>6 DEF DispatchAccepted, Front
    <3>4. S!Accept(c, s)
      BY <2>4, <2>5, <3>1, <3>2, <3>3 DEF S!Accept
    <3> QED
      BY <2>4, <3>2, <3>4 DEF S!SessionNext
  <2>7. CASE DispatchRefused
    <3>1. S!Refuse(c)
      BY <2>5, <2>7 DEF DispatchRefused, Front, S!Refuse
    <3> QED
      BY <2>4, <3>1 DEF S!SessionNext
  <2>8. CASE DispatchClosed /\ mapClients[c] # NoSink
    <3>1. S!CloseConnect(c)
      BY <2>4, <2>8 DEF DispatchClosed, SinkInv, S!CloseConnect
    <3> QED
      BY <2>4, <3>1 DEF S!SessionNext
  <2>9. CASE DispatchClosed /\ mapClients[c] = NoSink
    BY <1>1, <2>9 DEF DispatchClosed
  <2>10. CASE DispatchRead /\ mapClients[c] = NoSink
    BY <1>1, <2>10 DEF DispatchRead
  <2>11. CASE DispatchRead /\ mapClients[c] # NoSink
    <3>1. /\ m.state = "ReadBuff" /\ seen' = [seen EXCEPT ![c] = m.seq]
          /\ app' = app /\ mapClients' = mapClients
      BY <2>11 DEF DispatchRead, Front
    <3>2. app[c] = "open"
      BY <2>4, <2>11 DEF SinkInv
    <3>3. Is(1, c, "ReadBuff") /\ 1 \in 1 .. N
      BY <2>3, <2>4, <3>1
    <3>4. /\ m.seq \in 1 .. Pushed(c)
          /\ \A i \in 1 .. N : Is(i, c, "ReadBuff") /\ i # 1 => m.seq < Coming[i].seq
          /\ \A n \in 1 .. Pushed(c) :
               n > seen[c] <=> \E i \in 1 .. N : Is(i, c, "ReadBuff") /\ Coming[i].seq = n
      BY <2>2, <2>3, <2>4, <3>2, <3>3 DEF InOrder, ReadsInOrder
    <3>5. seen[c] \in Nat /\ Pushed(c) \in Nat
      BY <2>2, <2>4 DEF IndInv, TypeOK, SinkTypeOK, InOrder, ReadsInOrder
    <3>6. m.seq > seen[c]
      BY <2>3, <3>3, <3>4
    <3>7. m.seq = seen[c] + 1
      <4>1. SUFFICES ASSUME seen[c] + 1 < m.seq PROVE FALSE
        BY <3>4, <3>5, <3>6
      <4>2. seen[c] + 1 \in 1 .. Pushed(c) /\ seen[c] + 1 > seen[c]
        BY <3>4, <3>5, <4>1
      <4>3. PICK i \in 1 .. N : Is(i, c, "ReadBuff") /\ Coming[i].seq = seen[c] + 1
        BY <3>4, <4>2
      <4> QED
        BY <2>3, <3>4, <3>5, <4>1, <4>3
    <3>8. S!Recv(c)
      BY <2>4, <3>1, <3>2, <3>7 DEF S!Recv
    <3> QED
      BY <2>4, <3>8 DEF S!SessionNext
  <2> QED
    BY <1>2, <2>6, <2>7, <2>8, <2>9, <2>10, <2>11 DEF Dispatch
<1>3. CASE ~Dispatch
  <2>1. UNCHANGED <<app, seen, mapClients>>
    BY <1>3
    DEF vars, sinkVars, Next, Start, Close, AcceptCount, AcceptStep, CreateChannel,
     RefuseSocket, SendRsaSeed, NotifyAccepted, PostFirstRecv, FirstRecvFails, AcceptRemove,
     AcceptFree, AcceptStop, LogicStep, CloseDone, SwapQueMsg, WorkerStep, WorkerStop,
     SendComplete, RecvGood, InsertRead, RecvUndecryptable, RecvMalformed, RecvDone, PostRecv,
     PostRecvFails, OnDisconnect, RemoveChannel, DeleteHandle, GetStep, GetRecv, GetDeadRecv,
     GetSend, GetDeadSend, PeerClose, PeerReset
  <2> QED
    BY <1>1, <2>1
<1> QED
  BY <1>2, <1>3

\* The server implements Session, with the history of what OnAccept, OnRecv and
\* OnCloseConnect told the application as its state, whatever the environment does up to
\* the end of the process: SessionKept.
THEOREM SessionRefined == Spec => SessionKept
<1>1. Init => S!SessionInit
  BY DEF Init, S!SessionInit
<1>2. OrderInv /\ [Next]_vars => [S!SessionNext]_(S!sessionVars)
  BY SessionStep
<1> QED
  BY <1>1, <1>2, OrderInvariant, PTL DEF Spec, SessionKept, S!SessionSpec

(***************************************************************************)
(* The server in a quiet environment, where no connection goes down with a *)
(* send under way, and nothing is sent after the peer's FIN: nothing uses  *)
(* the data of a connection that is gone, and there is a sink for every    *)
(* connection.                                                             *)
(***************************************************************************)
-------------------------------------------------------------------------------
(* The hands that a connection is in *)

AcceptHas(c) == apc \in {"seed", "notify", "recv", "remove", "free"} /\ aconn = c
WorkerHas(w, c) == wpc[w] \in {"recv", "insert", "post", "dead", "remove", "free"} /\ wconn[w] = c

\* A connection is in the hands of the accept thread, of one worker or of its WSARecv, and
\* as long as it is it has its data, and its entry until it is removed.
OneHand ==
    /\ \A c \in Conns : AcceptHas(c) \/ recv[c] = "posted" => hd[c] = "live"
    /\ \A c \in Conns : (AcceptHas(c) /\ apc # "free") \/ recv[c] = "posted" => c \in mapAll
    /\ \A c \in Conns : \A w \in Workers :
          WorkerHas(w, c) =>
             /\ hd[c] = "live" /\ (wpc[w] # "free" => c \in mapAll)
             /\ ~AcceptHas(c) /\ recv[c] # "posted"
             /\ \A v \in Workers : WorkerHas(v, c) => v = w
    /\ \A c \in Conns : ~(AcceptHas(c) /\ recv[c] = "posted")

\* A connection that is down has no send under way, one that is up has its data, and who
\* takes it out of the map found it down.
DownIsQuiet ==
    /\ \A c \in Conns :
          IF sock[c] = "open"
          THEN hd[c] = "live"
          ELSE sends[c] = 0 /\ \A w \in Workers : wpc[w] = "sent" => wconn[w] # c
    /\ \A w \in Workers : wpc[w] \in {"dead", "remove", "free"} => sock[wconn[w]] # "open"
    /\ apc \in {"remove", "free"} => sock[aconn] # "open"

Hands == OneHand /\ DownIsQuiet

HandInv == Alive => Hands

\* The places where the server may stop.
NoAccident == crash \in {"none", "start"}

LEMMA HandsInit == Init => HandInv /\ NoAccident
  BY ServerAssumption
  DEF Init, HandInv, Hands, OneHand, AcceptHas, WorkerHas, DownIsQuiet, NoAccident

\* A step that moves no connection keeps them.
LEMMA HandsFrame ==
  ASSUME Hands, Alive, UNCHANGED <<acceptVars, connVars, workVars, crash>>
  PROVE  Hands' /\ NoAccident'
  BY DEF Hands, OneHand, AcceptHas, WorkerHas, DownIsQuiet, NoAccident, Alive, acceptVars,
     connVars, workVars

\* The steps of the accept thread.
LEMMA HandsAccept ==
  ASSUME QuietClose, IndInv, Hands, Alive, AcceptStep
  PROVE  Hands' /\ NoAccident'
<1> USE ServerAssumption
    DEF IndInv, TypeOK, IdsFresh, Hands, OneHand, AcceptHas, WorkerHas, Busy, DownIsQuiet,
        NoAccident, Alive, AcceptTypeOK, ConnTypeOK, WorkerTypeOK, Conns, NoConn
<1>1. CASE CreateChannel
  <2>1. /\ nextId \in Conns /\ nextId \notin mapAll /\ recv[nextId] = "none"
        /\ sends[nextId] = 0
        /\ \A w \in Workers : Busy(w) => wconn[w] # nextId
    BY <1>1 DEF CreateChannel
  <2>2. /\ crash' = crash /\ apc' = "seed" /\ aconn' = nextId
        /\ mapAll' = mapAll \cup {nextId}
        /\ sock' = [sock EXCEPT ![nextId] = "open"] /\ hd' = [hd EXCEPT ![nextId] = "live"]
        /\ UNCHANGED <<recv, sends, workVars>>
    BY <1>1, <2>1 DEF CreateChannel, Check
  <2>3. OneHand'
    <3>1. \A d \in Conns : AcceptHas(d)' <=> d = nextId
      BY <2>2
    <3>2. \A d \in Conns : ~AcceptHas(d)
      BY <1>1 DEF CreateChannel
    <3>3. \A d \in Conns : \A w \in Workers :
            (WorkerHas(w, d)' <=> WorkerHas(w, d)) /\ (WorkerHas(w, d) => d # nextId)
      <4> TAKE d \in Conns
      <4> TAKE w \in Workers
      <4>1. wpc' = wpc /\ wconn' = wconn
        BY <2>2 DEF workVars
      <4>2. WorkerHas(w, d) => Busy(w) /\ wconn[w] = d
        OBVIOUS
      <4> HIDE DEF Busy
      <4> QED
        BY <2>1, <4>1, <4>2
    <3>4. /\ wpc' = wpc /\ recv' = recv
          /\ \A d \in Conns : d # nextId => hd'[d] = hd[d] /\ (d \in mapAll' <=> d \in mapAll)
          /\ hd'[nextId] = "live" /\ nextId \in mapAll'
      BY <2>1, <2>2 DEF workVars
    <3> HIDE DEF AcceptHas, WorkerHas
    <3> QED
      BY <2>1, <2>2, <3>1, <3>2, <3>3, <3>4
  <2>4. DownIsQuiet'
    <3>1. ASSUME NEW c \in Conns
          PROVE  IF sock'[c] = "open"
                 THEN hd'[c] = "live"
                 ELSE sends'[c] = 0 /\ \A w \in Workers : wpc'[w] = "sent" => wconn'[w] # c
      BY <2>1, <2>2 DEF workVars
    <3>2. ASSUME NEW w \in Workers, wpc'[w] \in {"dead", "remove", "free"}
          PROVE  sock'[wconn'[w]] # "open"
      <4>1. wconn'[w] = wconn[w] /\ wpc'[w] = wpc[w]
        BY <2>2 DEF workVars
      <4>2. wconn[w] # nextId /\ wconn[w] \in Conns
        BY <2>1, <3>2, <4>1
      <4> QED
        BY <2>2, <3>2, <4>1, <4>2
    <3> QED
      BY <2>2, <3>1, <3>2
  <2> QED
    BY <2>2, <2>3, <2>4
<1>2. CASE RefuseSocket \/ NotifyAccepted \/ AcceptStop
  <2>1. /\ UNCHANGED <<aconn, mapAll, sock, recv, sends, hd, wpc, wconn, crash>>
        /\ \/ apc \in {"create", "accept"} /\ apc' \in {"accept", "off"}
           \/ apc = "notify" /\ apc' = "recv"
    BY <1>2 DEF RefuseSocket, NotifyAccepted, AcceptStop, connVars, workVars
  <2> QED
    BY <2>1
<1>3. CASE SendRsaSeed
  <2>1. /\ apc = "seed" /\ apc' = "notify" /\ crash' = crash
        /\ UNCHANGED <<aconn, mapAll, sock, recv, hd, workVars>>
        /\ sends' = sends \/ (sock[aconn] = "open" /\ sends' = [sends EXCEPT ![aconn] = @ + 1])
    BY <1>3 DEF SendRsaSeed, WSASend
  <2> QED
    BY <2>1 DEF workVars
<1>5. CASE PostFirstRecv
  <2>1. /\ apc = "recv" /\ apc' = "accept" /\ recv' = [recv EXCEPT ![aconn] = "posted"]
        /\ crash' = crash /\ UNCHANGED <<aconn, mapAll, sock, sends, hd, workVars>>
    BY <1>5 DEF PostFirstRecv
  <2> QED
    BY <2>1 DEF workVars
<1>6. CASE FirstRecvFails
  <2>1. /\ apc = "recv" /\ apc' = "remove" /\ crash' = crash
        /\ sock[aconn] \in {"reset", "closed"} /\ sock' = [sock EXCEPT ![aconn] = "closed"]
        /\ UNCHANGED <<aconn, mapAll, recv, sends, hd, workVars>>
    BY <1>6 DEF FirstRecvFails, Down
  <2>2. OneHand'
    BY <2>1 DEF workVars
  <2>3. DownIsQuiet'
    BY <2>1 DEF workVars
  <2> QED
    BY <2>1, <2>2, <2>3
<1>7. CASE AcceptRemove
  <2>1. /\ apc = "remove" /\ apc' = "free" /\ mapAll' = mapAll \ {aconn}
        /\ UNCHANGED <<aconn, sock, recv, sends, hd, workVars>>
    BY <1>7 DEF AcceptRemove
  <2>2. crash' = crash
    BY <1>7, <2>1 DEF AcceptRemove, Check
  <2> QED
    BY <2>1, <2>2 DEF workVars
<1>8. CASE AcceptFree
  <2>1. /\ apc = "free" /\ apc' = "accept" /\ hd' = [hd EXCEPT ![aconn] = "freed"]
        /\ UNCHANGED <<aconn, mapAll, sock, recv, sends, workVars>>
    BY <1>8 DEF AcceptFree
  <2>2. crash' = crash
    BY <1>8, <2>1 DEF AcceptFree, Touch, TouchAndCheck
  <2> QED
    BY <2>1, <2>2 DEF workVars
<1> QED
  BY <1>1, <1>2, <1>3, <1>5, <1>6, <1>7, <1>8 DEF AcceptStep

\* A worker takes a completion from the port.
LEMMA HandsGet ==
  ASSUME IndInv, Hands, Alive, NEW w \in Workers, NEW c \in Conns, GetStep(w, c)
  PROVE  Hands' /\ NoAccident'
<1> USE ServerAssumption
    DEF IndInv, TypeOK, Hands, OneHand, AcceptHas, WorkerHas, DownIsQuiet,
        NoAccident, Alive, ConnTypeOK, WorkerTypeOK, MayGet, Take
<1>1. CASE GetRecv(w, c)
  BY <1>1 DEF GetRecv, acceptVars
<1>2. CASE GetDeadRecv(w, c)
  BY <1>2 DEF GetDeadRecv, acceptVars
<1>3. CASE GetSend(w, c)
  <2>1. sock[c] = "open"
    BY <1>3 DEF GetSend
  <2>2. /\ wpc[w] = "get" /\ wpc' = [wpc EXCEPT ![w] = "sent"] /\ wconn' = [wconn EXCEPT ![w] = c]
        /\ sends' = [sends EXCEPT ![c] = @ - 1] /\ crash' = crash
        /\ UNCHANGED <<acceptVars, mapAll, sock, recv, hd>>
    BY <1>3 DEF GetSend
  <2>3. OneHand'
    BY <2>2 DEF acceptVars
  <2>4. DownIsQuiet'
    BY <2>1, <2>2 DEF acceptVars
  <2> QED
    BY <2>2, <2>3, <2>4
<1>4. CASE GetDeadSend(w, c)
  BY <1>4 DEF GetDeadSend, Down
<1> QED
  BY <1>1, <1>2, <1>3, <1>4 DEF GetStep

\* The other steps of a worker: what one of them does to the connection it has in hand.
LEMMA HandsWorker ==
  ASSUME QuietClose, IndInv, Hands, Alive, NEW w \in Workers, WorkerStep(w)
  PROVE  Hands' /\ NoAccident'
<1> DEFINE c == wconn[w]
<1> USE ServerAssumption
    DEF IndInv, TypeOK, Hands, NoAccident, Alive, Touch, TouchAndCheck, InsertMsg
<1>0. wpc[w] \notin {"off", "get", "sent"} =>
        /\ c \in Conns /\ (wpc[w] # "free" => c \in mapAll) /\ hd[c] = "live" /\ WorkerHas(w, c)
        /\ ~AcceptHas(c) /\ recv[c] # "posted"
        /\ \A v \in Workers : WorkerHas(v, c) => v = w
  BY DEF OneHand, WorkerTypeOK, WorkerHas
<1>a. wpc[w] \in {"dead", "remove", "free"} =>
        sock[c] # "open" /\ (c \in Conns => sends[c] = 0 /\ \A v \in Workers : wpc[v] = "sent" => wconn[v] # c)
  BY DEF DownIsQuiet
<1>b. apc \in {"remove", "free"} => AcceptHas(aconn) /\ aconn \in Conns
  BY DEF AcceptHas, AcceptTypeOK
<1>1. CASE WorkerStop(w)
  <2>1. OneHand' /\ NoAccident'
    BY <1>1 DEF WorkerStop, OneHand, AcceptHas, WorkerHas, acceptVars, connVars, WorkerTypeOK
  <2>2. DownIsQuiet'
    BY <1>1 DEF WorkerStop, DownIsQuiet, acceptVars, connVars, WorkerTypeOK
  <2> QED
    BY <2>1, <2>2
<1>2. CASE SendComplete(w)
  <2>1. /\ wpc[w] = "sent" /\ c \in Conns /\ wpc' = [wpc EXCEPT ![w] = "get"]
        /\ wconn' = [wconn EXCEPT ![w] = NoConn]
        /\ UNCHANGED <<acceptVars, mapAll, sock, recv, hd>>
        /\ sends' = sends \/ (sock[c] = "open" /\ sends' = [sends EXCEPT ![c] = @ + 1])
    BY <1>2 DEF SendComplete, WSASend, WorkerTypeOK
  <2>2. hd[c] = "live"
    BY <2>1 DEF DownIsQuiet
  <2>3. crash' = crash
    BY <1>2, <2>2 DEF SendComplete
  <2>4. OneHand' /\ NoAccident'
    BY <2>1, <2>3 DEF OneHand, AcceptHas, WorkerHas, acceptVars, WorkerTypeOK
  <2>5. DownIsQuiet'
    BY <2>1 DEF DownIsQuiet, acceptVars, WorkerTypeOK, ConnTypeOK
  <2> QED
    BY <2>4, <2>5
<1>3. CASE RecvGood(w) \/ InsertRead(w) \/ RecvDone(w) \/ PostRecvFails(w)
  <2>1. /\ wpc[w] \in {"recv", "insert", "post"}
        /\ wpc'[w] \in {"recv", "insert", "post", "dead"}
        /\ \A v \in Workers \ {w} : wpc'[v] = wpc[v]
        /\ wpc'[w] = "dead" => sock[c] # "open"
        /\ UNCHANGED <<acceptVars, connVars, wconn>>
    BY <1>3 DEF RecvGood, InsertRead, RecvDone, PostRecvFails, Down, WorkerTypeOK
  <2>2. crash' = crash
    BY <1>0, <1>3, <2>1 DEF RecvGood, InsertRead, RecvDone, PostRecvFails
  <2>3. OneHand' /\ NoAccident'
    BY <2>1, <2>2 DEF OneHand, AcceptHas, WorkerHas, acceptVars, connVars
  <2>4. DownIsQuiet'
    BY <2>1 DEF DownIsQuiet, acceptVars, connVars
  <2> QED
    BY <2>3, <2>4
<1>4. CASE RecvUndecryptable(w)
  <2>1. /\ wpc[w] = "recv" /\ sends[c] = 0 /\ \A v \in Workers : wpc[v] = "sent" => wconn[v] # c
        /\ UNCHANGED <<acceptVars, mapAll, recv, sends, hd, workVars>>
        /\ sock' = sock \/ sock' = [sock EXCEPT ![c] = "closed"]
    BY <1>4 DEF RecvUndecryptable, MayGoDown
  <2>2. crash' = crash
    BY <1>0, <1>4, <2>1 DEF RecvUndecryptable
  <2>3. OneHand' /\ NoAccident'
    BY <2>1, <2>2 DEF OneHand, AcceptHas, WorkerHas, acceptVars, workVars
  <2>4. DownIsQuiet'
    <3>1. CASE sock' = sock
      BY <2>1, <3>1 DEF DownIsQuiet, acceptVars, workVars
    <3>2. CASE sock' = [sock EXCEPT ![c] = "closed"]
      BY <1>0, <2>1, <3>2 DEF DownIsQuiet, acceptVars, workVars, ConnTypeOK, WorkerTypeOK
    <3> QED
      BY <2>1, <3>1, <3>2
  <2> QED
    BY <2>3, <2>4
<1>5. CASE RecvMalformed(w)
  <2>1. /\ wpc[w] = "recv" /\ sends[c] = 0 /\ \A v \in Workers : wpc[v] = "sent" => wconn[v] # c
        /\ wpc' = [wpc EXCEPT ![w] = "post"]
        /\ UNCHANGED <<acceptVars, mapAll, recv, sends, hd, wconn>>
        /\ sock' = [sock EXCEPT ![c] = "closed"]
    BY <1>5 DEF RecvMalformed, MayGoDown
  <2>2. crash' = crash
    BY <1>0, <1>5, <2>1 DEF RecvMalformed
  <2>3. OneHand' /\ NoAccident'
    BY <2>1, <2>2 DEF OneHand, AcceptHas, WorkerHas, acceptVars, WorkerTypeOK
  <2>4. DownIsQuiet'
    BY <1>0, <2>1 DEF DownIsQuiet, acceptVars, ConnTypeOK, WorkerTypeOK
  <2> QED
    BY <2>3, <2>4
<1>6. CASE PostRecv(w)
  <2>1. /\ wpc[w] = "post" /\ wpc' = [wpc EXCEPT ![w] = "get"]
        /\ wconn' = [wconn EXCEPT ![w] = NoConn] /\ recv' = [recv EXCEPT ![c] = "posted"]
        /\ UNCHANGED <<acceptVars, mapAll, sock, sends, hd>>
    BY <1>6 DEF PostRecv
  <2>2. crash' = crash
    BY <1>0, <1>6, <2>1 DEF PostRecv
  <2>3. OneHand' /\ NoAccident'
    BY <1>0, <2>1, <2>2 DEF OneHand, AcceptHas, WorkerHas, acceptVars, WorkerTypeOK, ConnTypeOK
  <2>4. DownIsQuiet'
    BY <1>0, <2>1 DEF DownIsQuiet, acceptVars, WorkerTypeOK
  <2> QED
    BY <2>3, <2>4
<1>8. CASE OnDisconnect(w)
  <2>1. /\ wpc[w] = "dead" /\ wpc' = [wpc EXCEPT ![w] = "remove"]
        /\ sock' = [sock EXCEPT ![c] = "closed"]
        /\ UNCHANGED <<acceptVars, mapAll, recv, sends, hd, wconn>>
    BY <1>8 DEF OnDisconnect
  <2>2. crash' = crash
    BY <1>0, <1>8, <2>1 DEF OnDisconnect
  <2>3. OneHand' /\ NoAccident'
    BY <2>1, <2>2 DEF OneHand, AcceptHas, WorkerHas, acceptVars, WorkerTypeOK
  <2>4. DownIsQuiet'
    BY <1>0, <1>a, <2>1 DEF DownIsQuiet, acceptVars, ConnTypeOK, WorkerTypeOK
  <2> QED
    BY <2>3, <2>4
<1>9. CASE RemoveChannel(w)
  <2>1. /\ wpc[w] = "remove" /\ wpc' = [wpc EXCEPT ![w] = "free"] /\ mapAll' = mapAll \ {c}
        /\ UNCHANGED <<acceptVars, sock, recv, sends, hd, wconn>>
    BY <1>9 DEF RemoveChannel
  <2>2. crash' = crash
    BY <1>0, <1>9, <2>1 DEF RemoveChannel
  <2>3. OneHand' /\ NoAccident'
    BY <1>0, <2>1, <2>2 DEF OneHand, AcceptHas, WorkerHas, acceptVars, WorkerTypeOK, ConnTypeOK
  <2>4. DownIsQuiet'
    BY <1>0, <1>a, <2>1 DEF DownIsQuiet, acceptVars, ConnTypeOK, WorkerTypeOK
  <2> QED
    BY <2>3, <2>4
<1>10. CASE DeleteHandle(w)
  <2>1. /\ wpc[w] = "free" /\ wpc' = [wpc EXCEPT ![w] = "get"]
        /\ wconn' = [wconn EXCEPT ![w] = NoConn] /\ hd' = [hd EXCEPT ![c] = "freed"]
        /\ UNCHANGED <<acceptVars, mapAll, sock, recv, sends>>
    BY <1>10 DEF DeleteHandle
  <2>2. crash' = crash
    BY <1>0, <1>10, <2>1 DEF DeleteHandle
  <2>3. OneHand' /\ NoAccident'
    BY <1>0, <2>1, <2>2 DEF OneHand, AcceptHas, WorkerHas, acceptVars, WorkerTypeOK, ConnTypeOK
  <2>4. DownIsQuiet'
    BY <1>0, <1>a, <2>1 DEF DownIsQuiet, acceptVars, ConnTypeOK, WorkerTypeOK
  <2> QED
    BY <2>3, <2>4
<1> QED
  BY <1>1, <1>2, <1>3, <1>4, <1>5, <1>6, <1>8, <1>9, <1>10 DEF WorkerStep

\* The steps of the logic thread in its loop.
LEMMA HandsLogic ==
  ASSUME QuietClose, IndInv, Hands, Alive, LogicStep
  PROVE  Hands' /\ NoAccident'
<1>1. CASE CloseDone \/ SwapQueMsg \/ DispatchAccepted \/ DispatchClosed
  BY <1>1, HandsFrame DEF CloseDone, SwapQueMsg, DispatchAccepted, DispatchClosed
<1>2. CASE DispatchRefused \/ DispatchRead
  <2> DEFINE c == Head(queMsgs).conn
  <2>1. crash' = crash /\ UNCHANGED <<acceptVars, mapAll, recv, hd, workVars>>
    BY <1>2 DEF DispatchRefused, DispatchRead
  <2>2. \/ sock' = sock
        \/ /\ sends[c] = 0 /\ \A w \in Workers : wpc[w] = "sent" => wconn[w] # c
           /\ sock' = [sock EXCEPT ![c] = "closed"]
    BY <1>2 DEF DispatchRefused, DispatchRead, MayGoDown
  <2>3. sends' = sends \/ (sock[c] = "open" /\ sends' = [sends EXCEPT ![c] = @ + 1])
    BY <1>2 DEF DispatchRefused, DispatchRead, WSASend
  <2>4. sock' = sock \/ sends' = sends
    BY <1>2 DEF DispatchRefused, DispatchRead
  <2>5. OneHand' /\ NoAccident'
    BY <2>1 DEF Hands, OneHand, AcceptHas, WorkerHas, NoAccident, Alive, acceptVars, workVars
  <2>6. sock \in [Conns -> {"none", "open", "fin", "reset", "closed"}] /\ DownIsQuiet
    BY DEF Hands, IndInv, TypeOK, ConnTypeOK
  <2>7. \A d \in Conns : sock'[d] # sock[d] => d = c /\ sock'[d] = "closed"
    BY <2>2, <2>6
  <2>8. \A d \in Conns : sock'[d] = "open" => sock[d] = "open"
    BY <2>7
  <2>9. \A d \in Conns : sends'[d] # sends[d] => d = c /\ sock'[d] = "open"
    BY <2>3, <2>4, <2>6 DEF IndInv, TypeOK, ConnTypeOK
  <2>10. \A d \in Conns : sock'[d] # "open" =>
           sends'[d] = 0 /\ \A w \in Workers : wpc[w] = "sent" => wconn[w] # d
    BY <2>2, <2>6, <2>7, <2>9 DEF DownIsQuiet
  <2>11. wpc' = wpc /\ wconn' = wconn /\ apc' = apc /\ aconn' = aconn /\ hd' = hd
    BY <2>1 DEF acceptVars, workVars
  <2>12. \A w \in Workers : wpc[w] \in {"dead", "remove", "free"} => wconn[w] \in Conns
    BY DEF IndInv, TypeOK, WorkerTypeOK
  <2>13. apc \in {"remove", "free"} => aconn \in Conns
    BY DEF IndInv, TypeOK, AcceptTypeOK
  <2>14. DownIsQuiet'
    BY <2>6, <2>8, <2>10, <2>11, <2>12, <2>13 DEF DownIsQuiet
  <2> QED
    BY <2>5, <2>14 DEF Hands
<1> QED
  BY <1>1, <1>2 DEF LogicStep, Dispatch

\* All the steps together: only the assertion of Start can fail.
LEMMA HandsStep ==
  ASSUME QuietClose, IndInv, StageInv, HandInv, NoAccident, [Next]_vars
  PROVE  HandInv' /\ NoAccident'
<1> USE DEF HandInv
<1>1. CASE UNCHANGED vars
  BY <1>1
  DEF vars, Hands, OneHand, AcceptHas, WorkerHas, DownIsQuiet, NoAccident,
      Alive, serverVars, acceptVars, connVars, workVars
<1>2. CASE ~Alive
  BY <1>1, <1>2, DeadEnd
<1> SUFFICES ASSUME Alive, Next PROVE HandInv' /\ NoAccident'
  BY <1>1, <1>2
<1>3. CASE Start
  <2>1. /\ apc = "off" /\ apc' = "accept" /\ UNCHANGED <<connVars, aconn>>
        /\ \A w \in Workers : wpc[w] = "off" /\ wpc'[w] = "get"
        /\ crash' \in {"none", "start"}
    BY <1>3 DEF Start, Check, StageInv, Stopped, Alive
  <2> QED
    BY <2>1
    DEF Hands, OneHand, AcceptHas, WorkerHas, DownIsQuiet, NoAccident, connVars
<1>4. CASE Close
  BY <1>4, HandsFrame DEF Close
<1>5. CASE AcceptCount
  BY <1>5
  DEF AcceptCount, Hands, OneHand, AcceptHas, WorkerHas, DownIsQuiet, NoAccident,
      Alive, serverVars, connVars, workVars
<1>6. ASSUME NEW c \in Conns, PeerClose(c) \/ PeerReset(c) PROVE HandInv' /\ NoAccident'
  <2>1. /\ sends[c] = 0 /\ \A w \in Workers : wpc[w] = "sent" => wconn[w] # c
        /\ sock' = [sock EXCEPT ![c] = "fin"] \/ sock' = [sock EXCEPT ![c] = "reset"]
        /\ crash' = crash /\ UNCHANGED <<acceptVars, mapAll, recv, sends, hd, workVars>>
    BY <1>6 DEF PeerClose, PeerReset, MayGoDown
  <2>2. OneHand' /\ NoAccident'
    BY <2>1 DEF Hands, OneHand, AcceptHas, WorkerHas, NoAccident, Alive, acceptVars, workVars
  <2>3. DownIsQuiet'
    BY <2>1 DEF Hands, DownIsQuiet, acceptVars, workVars, IndInv, TypeOK, ConnTypeOK,
       WorkerTypeOK, AcceptTypeOK
  <2> QED
    BY <2>2, <2>3 DEF Hands
<1> QED
  BY <1>3, <1>4, <1>5, <1>6, HandsAccept, HandsLogic, HandsWorker, HandsGet DEF Next

LEMMA HandInvariant == QuietClose => (Spec => [](OrderInv /\ HandInv /\ NoAccident))
<1> SUFFICES ASSUME QuietClose PROVE Spec => [](OrderInv /\ HandInv /\ NoAccident)
  OBVIOUS
<1>1. OrderInv /\ HandInv /\ NoAccident /\ [Next]_vars => HandInv' /\ NoAccident'
  BY HandsStep DEF OrderInv
<1> QED
  BY <1>1, HandsInit, OrderInvariant, PTL DEF Spec

LEMMA OnlyStart ==
  ASSUME Alive, Next, crash' = "start"
  PROVE  Start
  BY DEF Alive, Next, Close, AcceptCount, AcceptStep, CreateChannel, RefuseSocket, SendRsaSeed,
     NotifyAccepted, PostFirstRecv, FirstRecvFails, AcceptRemove, AcceptFree, AcceptStop,
     LogicStep, CloseDone, SwapQueMsg, Dispatch, DispatchAccepted, DispatchRefused,
     DispatchClosed, DispatchRead, WorkerStep, WorkerStop, SendComplete, RecvGood, InsertRead,
     RecvUndecryptable, RecvMalformed, RecvDone, PostRecv, PostRecvFails, OnDisconnect,
     RemoveChannel, DeleteHandle, GetStep, GetRecv, GetDeadRecv, GetSend, GetDeadSend,
     PeerClose, PeerReset, Check, TouchAndCheck, Touch

\* A server that is started once does not stop by an assertion, and uses nothing that is
\* freed, as long as no send of a connection is between WSASend and the end of
\* OnSendCompelet when the connection goes down, and nothing is sent after the peer's FIN:
\* NoFault.
THEOREM NoFaultHolds == QuietClose /\ MaxStarts = 1 => (Spec => []NoFault)
<1> SUFFICES ASSUME QuietClose, MaxStarts = 1 PROVE Spec => []NoFault
  OBVIOUS
<1>1. Init => NoFault
  BY DEF Init, NoFault
<1>2. OrderInv /\ NoAccident' /\ NoFault /\ [Next]_vars => NoFault'
  <2> SUFFICES ASSUME OrderInv, NoAccident', NoFault, Next PROVE crash' # "start"
    BY DEF NoFault, NoAccident, vars
  <2>1. ASSUME Start PROVE crash' # "start"
    BY <2>1
    DEF Start, Check, OrderInv, StageInv, Unstarted, NoFault, IndInv, TypeOK, ServerTypeOK
  <2> QED
    BY <2>1, OnlyStart DEF NoFault, Alive
<1> QED
  BY <1>1, <1>2, HandInvariant, PTL DEF Spec

-------------------------------------------------------------------------------
(* The connections that need a sink *)

\* The end of a connection comes after its announcement.
ClosedLater ==
    \A c \in Conns : \A i \in 1 .. Len(Coming) : Is(i, c, "Closed") =>
        /\ ~Unannounced(c)
        /\ app[c] # "none" \/ \E j \in 1 .. i - 1 : Is(j, c, "Accepted")

\* The connections that hold a sink, or will, when the first n messages are handled.
Served(n) ==
    {c \in Conns :
        /\ app[c] = "open" \/ \E i \in 1 .. n : Is(i, c, "Accepted")
        /\ ~\E i \in 1 .. n : Is(i, c, "Closed")}

\* Somebody is about to remove c from the map.
Leaving(c) ==
    \/ apc = "remove" /\ aconn = c
    \/ \E w \in Workers : wpc[w] = "remove" /\ wconn[w] = c

Settled(c) == c \in mapAll /\ ~Leaving(c)

\* A connection that will hold a sink in the end is in the map to stay; and when one is
\* announced, no more than MaxConn hold a sink.
SinksCovered ==
    /\ \A c \in Served(Len(Coming)) : Settled(c)
    /\ \A n \in 1 .. Len(Coming) :
          Coming[n].state = "Accepted" => Cardinality(Served(n)) <= MaxConn

Covered == ClosedLater /\ SinksCovered

CoverInv == Alive /\ running => Covered

LEMMA ServedFinite == \A n : IsFiniteSet(Served(n))
<1>1. IsFiniteSet(Conns)
  BY FS_Interval, ServerAssumption DEF Conns
<1>2. \A n : Served(n) \subseteq Conns
  BY DEF Served
<1> QED
  BY <1>1, <1>2, FS_Subset

\* Nothing is queued or handled.
LEMMA CoverFrame ==
  ASSUME Covered, UNCHANGED <<Coming, app>>,
         \A c \in Conns : Unannounced(c)' <=> Unannounced(c),
         \A c \in Conns : Settled(c) => Settled(c)'
  PROVE  Covered'
<1>0. \A i, c, state : Is(i, c, state)' <=> Is(i, c, state)
  BY DEF Is
<1>1. ClosedLater'
  BY <1>0 DEF Covered, ClosedLater
<1>3. \A n : Served(n)' = Served(n)
  BY <1>0 DEF Served
<1>4. SinksCovered'
  BY <1>3 DEF Covered, SinksCovered, Served
<1> QED
  BY <1>1, <1>4 DEF Covered

\* A connection is announced.
LEMMA CoverAccepted ==
  ASSUME IndInv, Covered, NEW c \in Conns, NEW N \in Nat, N = Len(Coming),
         Settled(c)',
         Appended([conn |-> c, state |-> "Accepted", seq |-> 0]),
         UNCHANGED <<app, mapAll>>,
         \A d \in Conns : Unannounced(d)' => Unannounced(d),
         \A d \in Conns : Settled(d) => Settled(d)'
  PROVE  Covered'
<1> DEFINE L == N + 1
<1>0. \A i \in Nat : \A d, state :
        Is(i, d, state)' <=> Is(i, d, state) \/ (i = L /\ c = d /\ state = "Accepted")
  BY IsAppended
<1>1. ClosedLater'
  BY <1>0 DEF Covered, ClosedLater, Appended, Is
<1>a. \A i \in 1 .. N : \A d, state : Is(i, d, state)' <=> Is(i, d, state)
  <2> SUFFICES ASSUME NEW i \in 1 .. N PROVE \A d, state : Is(i, d, state)' <=> Is(i, d, state)
    OBVIOUS
  <2>1. i \in Nat /\ i # L
    OBVIOUS
  <2> QED
    BY <1>0, <2>1
<1>3. \A n \in 1 .. N : Served(n)' = Served(n)
  <2> SUFFICES ASSUME NEW n \in 1 .. N PROVE Served(n)' = Served(n)
    OBVIOUS
  <2>1. \A i \in 1 .. n : i \in 1 .. N
    BY DEF Appended
  <2> QED
    BY <1>a, <2>1 DEF Served
<1>4. Served(L)' \subseteq Served(N) \cup {c}
  <2>1. \A i \in 1 .. L : i \in 1 .. N \/ i = L
    BY DEF Appended
  <2>2. \A i \in 1 .. N : i \in 1 .. L
    BY DEF Appended
  <2> SUFFICES ASSUME NEW d \in Conns, d \in Served(L)', d # c PROVE d \in Served(N)
    BY DEF Served
  <2>3. ASSUME NEW i \in 1 .. L, Is(i, d, "Accepted")'
        PROVE  i \in 1 .. N /\ Is(i, d, "Accepted")
    <3>1. i \in Nat
      OBVIOUS
    <3>2. Is(i, d, "Accepted")
      BY <1>0, <2>3, <3>1
    <3> QED
      BY <3>2 DEF Is
  <2>5. app[d] = "open" \/ \E i \in 1 .. N : Is(i, d, "Accepted")
    BY <2>3 DEF Served
  <2>4. ~\E i \in 1 .. N : Is(i, d, "Closed")
    BY <1>a, <2>2 DEF Served
  <2> QED
    BY <2>4, <2>5 DEF Served
<1>5. \A d \in Served(L)' : Settled(d)'
  BY <1>4 DEF Covered, SinksCovered, Served
<1>6. IsFiniteSet(mapAll) /\ Cardinality(mapAll) <= MaxConn
  BY MapFinite DEF IndInv, CountCovers, TypeOK, ConnTypeOK
<1>7. Cardinality(Served(L)') <= MaxConn
  BY <1>5, <1>6, FS_Subset, FS_CardinalityType, ServerAssumption DEF Settled
<1>8. SinksCovered'
  <2>1. Len(Coming') = L
    BY DEF Appended
  <2>3. ASSUME NEW n \in 1 .. L, Coming'[n].state = "Accepted"
        PROVE  Cardinality(Served(n)') <= MaxConn
    <3>1. CASE n = L
      BY <1>7, <3>1
    <3>2. CASE n \in 1 .. N
      BY <1>3, <2>3, <3>2 DEF Covered, SinksCovered, Appended
    <3> QED
      BY <3>1, <3>2 DEF Appended
  <2> QED
    BY <1>5, <2>1, <2>3 DEF SinksCovered, Served
<1> QED
  BY <1>1, <1>8 DEF Covered

\* A message of a peer is queued.
LEMMA CoverRead ==
  ASSUME Covered, NEW c \in Conns, NEW N \in Nat, N = Len(Coming), NEW n0 \in Nat,
         Appended([conn |-> c, state |-> "ReadBuff", seq |-> n0]),
         UNCHANGED app,
         \A d \in Conns : Unannounced(d)' <=> Unannounced(d),
         \A d \in Conns : Settled(d) => Settled(d)'
  PROVE  Covered'
<1> DEFINE L == N + 1
<1>0. \A i \in Nat : \A d, state :
        Is(i, d, state)' <=> Is(i, d, state) \/ (i = L /\ c = d /\ state = "ReadBuff")
  BY IsAppended
<1>a. \A i \in 1 .. N : \A d, state : Is(i, d, state)' <=> Is(i, d, state)
  <2> SUFFICES ASSUME NEW i \in 1 .. N PROVE \A d, state : Is(i, d, state)' <=> Is(i, d, state)
    OBVIOUS
  <2>1. i \in Nat /\ i # L
    OBVIOUS
  <2> QED
    BY <1>0, <2>1
<1>1. ClosedLater'
  BY <1>0 DEF Covered, ClosedLater, Appended, Is
<1>3. \A n \in 1 .. N : Served(n)' = Served(n)
  <2> SUFFICES ASSUME NEW n \in 1 .. N PROVE Served(n)' = Served(n)
    OBVIOUS
  <2>1. \A i \in 1 .. n : i \in 1 .. N
    BY DEF Appended
  <2> QED
    BY <1>a, <2>1 DEF Served
<1>4. Served(L)' = Served(N)
  BY <1>0 DEF Served, Appended, Is
<1>8. SinksCovered'
  <2>1. Len(Coming') = L /\ Coming'[L].state # "Accepted"
    BY DEF Appended
  <2>2. \A d \in Served(L)' : Settled(d)'
    BY <1>4, <2>1 DEF Served, Covered, SinksCovered
  <2>3. ASSUME NEW n \in 1 .. L, Coming'[n].state = "Accepted"
        PROVE  Cardinality(Served(n)') <= MaxConn
    <3>1. n \in 1 .. N
      BY <2>1, <2>3 DEF Appended
    <3> QED
      BY <1>3, <2>3, <3>1 DEF Covered, SinksCovered, Appended
  <2> QED
    BY <2>1, <2>2, <2>3 DEF SinksCovered, Served
<1> QED
  BY <1>1, <1>8 DEF Covered

\* The end of a connection is queued.
LEMMA CoverClosed ==
  ASSUME InOrder, Covered, NEW c \in Conns, NEW N \in Nat, N = Len(Coming),
         ~Unannounced(c),
         Appended([conn |-> c, state |-> "Closed", seq |-> 0]),
         UNCHANGED app,
         \A d \in Conns : Unannounced(d)' <=> Unannounced(d),
         \A d \in Conns \ {c} : Settled(d) => Settled(d)'
  PROVE  Covered'
<1> DEFINE L == N + 1
<1>0. \A i \in Nat : \A d, state :
        Is(i, d, state)' <=> Is(i, d, state) \/ (i = L /\ c = d /\ state = "Closed")
  BY IsAppended
<1>1. ClosedLater'
  BY <1>0 DEF InOrder, AnnouncedOnce, Covered, ClosedLater, Appended, Is
<1>a. \A i \in 1 .. N : \A d, state : Is(i, d, state)' <=> Is(i, d, state)
  <2> SUFFICES ASSUME NEW i \in 1 .. N PROVE \A d, state : Is(i, d, state)' <=> Is(i, d, state)
    OBVIOUS
  <2>1. i \in Nat /\ i # L
    OBVIOUS
  <2> QED
    BY <1>0, <2>1
<1>3. \A n \in 1 .. N : Served(n)' = Served(n)
  <2> SUFFICES ASSUME NEW n \in 1 .. N PROVE Served(n)' = Served(n)
    OBVIOUS
  <2>1. \A i \in 1 .. n : i \in 1 .. N
    BY DEF Appended
  <2> QED
    BY <1>a, <2>1 DEF Served
<1>4. Served(L)' = Served(N) \ {c}
  BY <1>0 DEF Served, Appended, Is
<1>8. SinksCovered'
  <2>1. Len(Coming') = L /\ Coming'[L].state # "Accepted"
    BY DEF Appended
  <2>2. \A d \in Served(L)' : Settled(d)'
    BY <1>4, <2>1 DEF Served, Covered, SinksCovered
  <2>3. ASSUME NEW n \in 1 .. L, Coming'[n].state = "Accepted"
        PROVE  Cardinality(Served(n)') <= MaxConn
    <3>1. n \in 1 .. N
      BY <2>1, <2>3 DEF Appended
    <3> QED
      BY <1>3, <2>3, <3>1 DEF Covered, SinksCovered, Appended
  <2> QED
    BY <2>1, <2>2, <2>3 DEF SinksCovered, Served
<1> QED
  BY <1>1, <1>8 DEF Covered

\* A message is handled.
LEMMA CoverHandled ==
  ASSUME InOrder, Covered, NEW m \in Msg, Handled(m), NEW N \in Nat, N = Len(Coming)
  PROVE  Covered'
<1> DEFINE c == m.conn
<1>0. \A i \in 2 .. N : /\ Coming'[i - 1] = Coming[i]
                        /\ \A d, state : Is(i - 1, d, state)' <=> Is(i, d, state)
  BY IsHandled
<1>s. \A i \in 1 .. N - 1 : i + 1 \in 2 .. N /\ i = i + 1 - 1
  OBVIOUS
<1>r. \A i \in 1 .. N - 1 : /\ Coming'[i] = Coming[i + 1]
                            /\ \A d, state : Is(i, d, state)' <=> Is(i + 1, d, state)
  BY IsHandled
<1>1. /\ Len(Coming') = N - 1 /\ N > 0 /\ c \in Conns /\ Is(1, c, m.state) /\ Coming[1] = m
      /\ \A d, state : Is(1, d, state) => d = c /\ state = m.state
      /\ \A d : Unannounced(d)' <=> Unannounced(d)
  BY DEF Handled, Msg, Is, Unannounced
<1>2. m.state = "Closed" => app[c] # "none"
  BY <1>1 DEF Covered, ClosedLater, Is
<1>4. ClosedLater'
  <2> SUFFICES ASSUME NEW d \in Conns, NEW i \in 1 .. N - 1, Is(i, d, "Closed")'
               PROVE  /\ ~Unannounced(d)'
                      /\ app'[d] # "none" \/ \E j \in 1 .. i - 1 : Is(j, d, "Accepted")'
    BY <1>1 DEF ClosedLater
  <2>1. i + 1 \in 1 .. N /\ Is(i + 1, d, "Closed")
    BY <1>r
  <2>2. /\ ~Unannounced(d)
        /\ app[d] # "none" \/ \E j \in 1 .. i : Is(j, d, "Accepted")
    BY <2>1 DEF Covered, ClosedLater
  <2>3. ASSUME app'[d] = "none" PROVE \E j \in 1 .. i - 1 : Is(j, d, "Accepted")'
    <3>1. app[d] = "none" /\ ~(d = c /\ m.state = "Accepted")
      BY <2>3 DEF Handled
    <3>2. PICK j \in 1 .. i : Is(j, d, "Accepted")
      BY <2>2, <3>1
    <3>3. j # 1
      BY <1>1, <3>1, <3>2
    <3> QED
      BY <1>0, <3>2, <3>3
  <2> QED
    BY <1>1, <2>2, <2>3
<1>6. ASSUME NEW n \in 0 .. N - 1, NEW d \in Served(n)' PROVE d \in Served(n + 1)
  <2>1. d \in Conns /\ ~\E i \in 1 .. n : Is(i, d, "Closed")'
    BY <1>6 DEF Served
  <2>2. \A i \in 2 .. n + 1 : i \in 2 .. N /\ i - 1 \in 1 .. n
    OBVIOUS
  <2>3. \A i \in 2 .. n + 1 : ~Is(i, d, "Closed")
    BY <1>0, <2>1, <2>2
  <2>4. CASE app'[d] = "open"
    BY <1>1, <2>1, <2>3, <2>4 DEF Served, Handled
  <2>5. CASE \E i \in 1 .. n : Is(i, d, "Accepted")'
    <3>1. PICK i \in 2 .. n + 1 : Is(i, d, "Accepted")
      BY <1>r, <1>s, <2>5
    <3>2. app[d] = "none"
      BY <2>1, <3>1 DEF InOrder, AnnouncedOnce
    <3>3. ~Is(1, d, "Closed")
      BY <1>1, <1>2, <3>2
    <3> QED
      BY <2>1, <2>3, <3>1, <3>3 DEF Served
  <2> QED
    BY <1>6, <2>4, <2>5 DEF Served
<1>7. SinksCovered'
  <2>1. \A n \in 0 .. N - 1 : Served(n)' \subseteq Served(n + 1)
    BY <1>6
  <2>2. ASSUME NEW d \in Served(N - 1)' PROVE Settled(d)'
    <3>1. d \in Served(N - 1 + 1) /\ N - 1 + 1 = N
      BY <1>1, <2>1, <2>2
    <3>2. Settled(d)
      BY <3>1 DEF Covered, SinksCovered
    <3> QED
      BY <3>2 DEF Settled, Leaving, Handled
  <2>3. ASSUME NEW n \in 1 .. N - 1, Coming'[n].state = "Accepted"
        PROVE  Cardinality(Served(n)') <= MaxConn
    <3>1. Served(n)' \subseteq Served(n + 1) /\ n + 1 \in 1 .. N
      BY <2>1
    <3>2. Coming[n + 1].state = "Accepted"
      BY <1>r, <2>3
    <3>3. Cardinality(Served(n + 1)) <= MaxConn
      BY <3>1, <3>2 DEF Covered, SinksCovered
    <3>4. IsFiniteSet(Served(n + 1))
      BY ServedFinite
    <3> QED
      BY <3>1, <3>3, <3>4, FS_Subset, FS_CardinalityType, ServerAssumption
  <2> QED
    BY <1>1, <2>2, <2>3 DEF SinksCovered, Served
<1> QED
  BY <1>4, <1>7 DEF Covered

\* The steps that queue a message.
LEMMA CoverSteps ==
  ASSUME IndInv, OneReader, Hands, running, InOrder, Covered,
         \/ NotifyAccepted \/ FirstRecvFails
         \/ \E w \in Workers : InsertRead(w) \/ OnDisconnect(w)
  PROVE  Covered'
<1> DEFINE N == Len(Coming)
<1>n. N \in Nat
  BY ComingType DEF IndInv, TypeOK
<1> HIDE DEF N
<1> USE DEF IndInv, TypeOK
<1>1. CASE NotifyAccepted
  <2>1. /\ apc = "notify" /\ apc' = "recv" /\ aconn \in Conns /\ aconn \in mapAll
        /\ UNCHANGED <<aconn, nextId, mapAll, app, queMsgs, wpc, wconn>>
        /\ InsertMsg(aconn, "Accepted", 0)
    BY <1>1
    DEF NotifyAccepted, Hands, OneHand, AcceptHas, AcceptTypeOK, connVars, sinkVars, workVars
  <2>2. Appended([conn |-> aconn, state |-> "Accepted", seq |-> 0])
    BY <2>1, QueueInsert
  <2>3. \A d \in Conns : Unannounced(d)' => Unannounced(d)
    BY <2>1 DEF Unannounced
  <2>4. \A d \in Conns : Settled(d) => Settled(d)'
    BY <2>1 DEF Settled, Leaving
  <2>5. Settled(aconn)'
    BY <2>1 DEF Settled, Leaving, Hands, OneHand, AcceptHas, WorkerHas
  <2> QED
    BY <1>n, <2>1, <2>2, <2>3, <2>4, <2>5, CoverAccepted DEF N
<1>2. CASE FirstRecvFails
  <2>1. /\ apc = "recv" /\ apc' = "remove" /\ aconn \in Conns /\ aconn < nextId /\ nextId \in Nat
        /\ UNCHANGED <<aconn, nextId, mapAll, app, queMsgs, wpc, wconn>>
        /\ InsertMsg(aconn, "Closed", 0)
    BY <1>2 DEF FirstRecvFails, IdsFresh, AcceptTypeOK, sinkVars, workVars
  <2>2. Appended([conn |-> aconn, state |-> "Closed", seq |-> 0])
    BY <2>1, QueueInsert
  <2>3. \A d \in Conns : Unannounced(d)' <=> Unannounced(d)
    BY <2>1 DEF Unannounced
  <2>4. \A d \in Conns \ {aconn} : Settled(d) => Settled(d)'
    BY <2>1 DEF Settled, Leaving
  <2>5. ~Unannounced(aconn)
    BY <2>1, ServerAssumption DEF Unannounced, Conns
  <2> QED
    BY <1>n, <2>1, <2>2, <2>3, <2>4, <2>5, CoverClosed DEF N
<1>3. ASSUME NEW w \in Workers, InsertRead(w) \/ OnDisconnect(w)
      PROVE  /\ wconn[w] \in Conns /\ ~Unannounced(wconn[w])
             /\ UNCHANGED <<acceptVars, mapAll, app, queMsgs, wconn>>
  <2>1. wpc[w] \in {"insert", "dead"} /\ wconn[w] \in Conns /\ WorkerHas(w, wconn[w])
    BY <1>3 DEF InsertRead, OnDisconnect, WorkerTypeOK, WorkerHas
  <2>2. wconn[w] < nextId /\ ~AcceptHas(wconn[w])
    BY <2>1 DEF IdsFresh, Hands, OneHand, Busy
  <2>3. ~Unannounced(wconn[w])
    BY <2>1, <2>2, ServerAssumption DEF Unannounced, AcceptHas, Conns, AcceptTypeOK
  <2> QED
    BY <1>3, <2>1, <2>3 DEF InsertRead, OnDisconnect, connVars, sinkVars
<1>4. ASSUME NEW w \in Workers, InsertRead(w) PROVE Covered'
  <2>1. wpc[w] = "insert" /\ wpc' = [wpc EXCEPT ![w] = "recv"] /\ InsertMsg(wconn[w], "ReadBuff", got[wconn[w]])
    BY <1>4 DEF InsertRead
  <2>2. got[wconn[w]] \in Nat
    BY <1>3, <1>4 DEF ConnTypeOK
  <2>3. Appended([conn |-> wconn[w], state |-> "ReadBuff", seq |-> got[wconn[w]]])
    BY <1>3, <1>4, <2>1, <2>2, QueueInsert
  <2>4. \A d \in Conns : Unannounced(d)' <=> Unannounced(d)
    BY <1>3, <1>4 DEF Unannounced, acceptVars
  <2>5. \A d \in Conns : Settled(d) => Settled(d)'
    BY <1>3, <1>4, <2>1 DEF Settled, Leaving, acceptVars, WorkerTypeOK
  <2> QED
    BY <1>n, <1>3, <1>4, <2>2, <2>3, <2>4, <2>5, CoverRead DEF N
<1>5. ASSUME NEW w \in Workers, OnDisconnect(w) PROVE Covered'
  <2>1. InsertMsg(wconn[w], "Closed", 0) /\ wpc' = [wpc EXCEPT ![w] = "remove"]
    BY <1>5 DEF OnDisconnect
  <2>2. Appended([conn |-> wconn[w], state |-> "Closed", seq |-> 0])
    BY <1>3, <1>5, <2>1, QueueInsert
  <2>3. \A d \in Conns : Unannounced(d)' <=> Unannounced(d)
    BY <1>3, <1>5 DEF Unannounced, acceptVars
  <2>4. \A d \in Conns \ {wconn[w]} : Settled(d) => Settled(d)'
    BY <1>3, <1>5, <2>1 DEF Settled, Leaving, acceptVars, WorkerTypeOK
  <2> QED
    BY <1>n, <1>3, <1>5, <2>2, <2>3, <2>4, CoverClosed DEF N
<1> QED
  BY <1>1, <1>2, <1>4, <1>5

\* All the steps together.
LEMMA CoverStep ==
  ASSUME OrderInv, HandInv, CoverInv, [Next]_vars
  PROVE  CoverInv'
<1> USE DEF OrderInv, IndInv, TypeOK
<1>1. CASE UNCHANGED vars
  <2>1. /\ UNCHANGED <<Coming, app, wpc, wconn, nextId, apc, aconn, mapAll, running, crash>>
        /\ \A d \in Conns : (Unannounced(d)' <=> Unannounced(d)) /\ (Settled(d) => Settled(d)')
    BY <1>1 DEF vars, serverVars, acceptVars, connVars, sinkVars, workVars, Coming, Unannounced,
       Settled, Leaving
  <2> QED
    BY <2>1, CoverFrame DEF CoverInv, Alive
<1> SUFFICES ASSUME Alive, Next, Alive', running' PROVE Covered'
  BY <1>1, DeadEnd DEF CoverInv
<1>2. CASE Start
  <2>1. /\ nextId = 0 /\ queMsgs = <<>> /\ queueMsgs = <<>>
        /\ \A c \in Conns : app[c] = "none"
    BY <1>2 DEF Start, Check, Alive, StageInv, Unstarted, SinkInv
  <2>2. UNCHANGED app /\ Coming' = <<>>
    BY <1>2, <2>1 DEF Start, sinkVars, Coming
  <2>3. Len(Coming') = 0
    BY <2>2
  <2>4. Served(0)' = {}
    BY <2>1, <2>2 DEF Served
  <2> QED
    BY <2>3, <2>4 DEF Covered, ClosedLater, SinksCovered, Served
<1> SUFFICES ASSUME ~Start PROVE Covered'
  BY <1>2
<1>3. running /\ InOrder /\ Covered /\ Hands /\ ~Close /\ ~CloseDone
  <2>1. running /\ ~Close /\ ~CloseDone
    BY RunsOn DEF OrderInv
  <2> QED
    BY <2>1 DEF QueueInv, CoverInv, HandInv
<1>4. CASE \/ NotifyAccepted \/ FirstRecvFails
           \/ \E w \in Workers : InsertRead(w) \/ OnDisconnect(w)
  BY <1>3, <1>4, CoverSteps
<1>5. CASE Dispatch
  BY <1>3, <1>5, DispatchHandled, CoverHandled
<1>6. CASE SwapQueMsg
  <2>1. Coming' = Coming
    BY <1>6, ComingSwap DEF SwapQueMsg
  <2> QED
    BY <1>3, <1>6, <2>1, CoverFrame
    DEF SwapQueMsg, acceptVars, connVars, sinkVars, workVars, Unannounced, Settled, Leaving
<1>7. CASE CreateChannel
  <2>1. /\ nextId \in Conns /\ nextId' = nextId + 1 /\ aconn' = nextId /\ apc = "create" /\ apc' = "seed"
        /\ mapAll \subseteq mapAll' /\ UNCHANGED <<app, queMsgs, queueMsgs, wpc, wconn>>
    BY <1>7, ServerAssumption DEF CreateChannel, Conns, AcceptTypeOK, sinkVars, workVars
  <2>2. \A d \in Conns : Unannounced(d)' <=> Unannounced(d)
    BY <2>1, ServerAssumption DEF Unannounced, Conns
  <2>3. \A d \in Conns : Settled(d) => Settled(d)'
    BY <2>1 DEF Settled, Leaving
  <2> QED
    BY <1>3, <2>1, <2>2, <2>3, CoverFrame DEF Coming
<1>8. CASE \/ AcceptCount \/ RefuseSocket \/ SendRsaSeed \/ PostFirstRecv \/ AcceptRemove
           \/ AcceptFree \/ AcceptStop
  <2>1. /\ UNCHANGED <<nextId, aconn, app, queMsgs, queueMsgs, wpc, wconn>>
        /\ apc \in {"seed", "notify"} <=> apc' \in {"seed", "notify"}
        /\ apc' # "remove" /\ (mapAll' = mapAll \/ (apc = "remove" /\ mapAll' = mapAll \ {aconn}))
    BY <1>8 DEF AcceptCount, RefuseSocket, SendRsaSeed, PostFirstRecv, AcceptRemove, AcceptFree,
       AcceptStop, connVars, sinkVars, workVars
  <2>2. \A d \in Conns : Unannounced(d)' <=> Unannounced(d)
    BY <2>1 DEF Unannounced
  <2>3. \A d \in Conns : Settled(d) => Settled(d)'
    BY <2>1 DEF Settled, Leaving
  <2> QED
    BY <1>3, <2>1, <2>2, <2>3, CoverFrame DEF Coming
<1>9. ASSUME NEW w \in Workers,
             \/ WorkerStep(w) /\ ~InsertRead(w) /\ ~OnDisconnect(w)
             \/ \E c \in Conns : GetStep(w, c)
      PROVE  Covered'
  <2>1. /\ UNCHANGED <<acceptVars, app, queMsgs, queueMsgs>>
        /\ \A v \in Workers \ {w} : wpc'[v] = wpc[v] /\ wconn'[v] = wconn[v]
        /\ wpc'[w] # "remove" \/ UNCHANGED workVars
        /\ mapAll' = mapAll \/ (wpc[w] = "remove" /\ mapAll' = mapAll \ {wconn[w]})
    BY <1>9
    DEF WorkerStep, WorkerStop, SendComplete, RecvGood, RecvUndecryptable, RecvMalformed, RecvDone,
        PostRecv, PostRecvFails, RemoveChannel, DeleteHandle, GetStep, GetRecv, GetDeadRecv,
        GetSend, GetDeadSend, MayGet, Take, connVars, sinkVars, workVars, WorkerTypeOK
  <2>2. \A d \in Conns : Unannounced(d)' <=> Unannounced(d)
    BY <2>1 DEF Unannounced, acceptVars
  <2>3. \A d \in Conns : Settled(d) => Settled(d)'
    BY <2>1 DEF Settled, Leaving, acceptVars, workVars
  <2> QED
    BY <1>3, <2>1, <2>2, <2>3, CoverFrame DEF Coming
<1>10. CASE \E c \in Conns : PeerClose(c) \/ PeerReset(c)
  BY <1>3, <1>10, CoverFrame
  DEF PeerClose, PeerReset, acceptVars, sinkVars, workVars, Coming, Unannounced, Settled, Leaving
<1> QED
  BY <1>3, <1>4, <1>5, <1>6, <1>7, <1>8, <1>9, <1>10 DEF Next, AcceptStep, LogicStep

\* All that is invariant as long as no connection goes down with a send under way.
QuietInv == OrderInv /\ HandInv /\ CoverInv

LEMMA QuietInvariant == QuietClose => (Spec => []QuietInv)
<1> SUFFICES ASSUME QuietClose PROVE Spec => []QuietInv
  OBVIOUS
<1>1. Init => CoverInv
  BY DEF Init, CoverInv
<1>2. OrderInv /\ HandInv /\ CoverInv /\ [Next]_vars => CoverInv'
  BY CoverStep
<1> QED
  BY <1>1, <1>2, HandInvariant, PTL DEF Spec, QuietInv

-------------------------------------------------------------------------------
(* A sink for every connection *)

\* OnAccept without an idle sink means more than PoolSize connections to serve.
LEMMA RefusedIsOver ==
  ASSUME QuietInv, MaxConn <= PoolSize
  PROVE  ~DispatchRefused
<1> SUFFICES ASSUME DispatchRefused PROVE FALSE
  OBVIOUS
<1> USE DEF QuietInv, OrderInv
<1> DEFINE c == Head(queMsgs).conn
           Open == {d \in Conns : app[d] = "open"}
<1>1. Alive /\ queMsgs # <<>> /\ Head(queMsgs).state = "Accepted" /\ IdleSinks = {} /\ Dispatch
  BY DEF DispatchRefused, Front, Dispatch
<1>2. InOrder /\ Covered
  BY <1>1 DEF StageInv, Unstarted, QueueInv, CoverInv
<1>3. /\ Head(queMsgs) \in Msg /\ Len(Coming) \in Nat \ {0} /\ Coming[1] = Head(queMsgs)
      /\ Is(1, c, Head(queMsgs).state)
  BY <1>1, <1>2, DispatchHandled DEF IndInv
<1>4. c \in Conns /\ Is(1, c, "Accepted")
  BY <1>1, <1>3 DEF Msg
<1>5. app[c] = "none" /\ Cardinality(Served(1)) <= MaxConn
  BY <1>2, <1>3, <1>4 DEF InOrder, AnnouncedOnce, Covered, SinksCovered, Is
<1>6. c \notin Open /\ Open \cup {c} \subseteq Served(1)
  BY <1>1, <1>3, <1>4, <1>5 DEF Served, Is
<1>7. IsFiniteSet(Served(1)) /\ IsFiniteSet(Open)
  BY <1>6, ServedFinite, FS_Subset
<1>8. Cardinality(Open) + 1 <= MaxConn
  <2>1. Cardinality(Open \cup {c}) = Cardinality(Open) + 1
    BY <1>6, <1>7, FS_AddElement
  <2>2. Cardinality(Open \cup {c}) <= Cardinality(Served(1))
    BY <1>6, <1>7, FS_Subset
  <2> QED
    BY <1>5, <1>7, <2>1, <2>2, FS_CardinalityType, ServerAssumption
<1>9. PoolSize <= Cardinality(Open)
  <2> DEFINE f == [d \in Open |-> mapClients[d]]
  <2>1. \A d \in Open : mapClients[d] \in Sinks
    BY DEF SinkInv, IndInv, TypeOK, SinkTypeOK
  <2>2. \A s \in Sinks : \E d \in Open : mapClients[d] = s
    BY <1>1, ServerAssumption DEF SinkInv, IdleSinks, Sinks, NoSink
  <2>3. f \in Surjection(Open, Sinks)
    BY <2>1, <2>2 DEF Surjection
  <2>4. Cardinality(Sinks) <= Cardinality(Open)
    BY <1>7, <2>3, FS_Surjection
  <2>5. Cardinality(Sinks) = PoolSize
    BY FS_Interval, ServerAssumption DEF Sinks
  <2> QED
    BY <2>4, <2>5
<1> QED
  BY <1>7, <1>8, <1>9, FS_CardinalityType, ServerAssumption

\* With a sink in the pool for every connection that Start allows, OnAccept always finds
\* one: NeverRefused.
THEOREM NeverRefusedHolds == QuietClose /\ MaxConn <= PoolSize => (Spec => []NeverRefused)
<1> SUFFICES ASSUME QuietClose, MaxConn <= PoolSize PROVE Spec => []NeverRefused
  OBVIOUS
<1>1. Init => NeverRefused
  BY DEF Init, NeverRefused
<1>2. QuietInv /\ NeverRefused /\ [Next]_vars => NeverRefused'
  <2> SUFFICES ASSUME QuietInv, NeverRefused, [Next]_vars PROVE NeverRefused'
    OBVIOUS
  <2>1. CASE UNCHANGED app
    BY <2>1 DEF NeverRefused
  <2>2. CASE DispatchAccepted \/ DispatchClosed
    BY <2>2 DEF DispatchAccepted, DispatchClosed, NeverRefused, QuietInv, OrderInv, IndInv, TypeOK, SinkTypeOK
  <2>3. ~DispatchRefused
    BY RefusedIsOver
  <2> QED
    BY <2>1, <2>2, <2>3
    DEF vars, sinkVars, Next, Start, Close, AcceptCount, AcceptStep, CreateChannel, RefuseSocket,
     SendRsaSeed, NotifyAccepted, PostFirstRecv, FirstRecvFails, AcceptRemove, AcceptFree,
     AcceptStop, LogicStep, CloseDone, SwapQueMsg, Dispatch, DispatchRead, WorkerStep, WorkerStop,
     SendComplete, RecvGood, InsertRead, RecvUndecryptable, RecvMalformed, RecvDone, PostRecv,
     PostRecvFails, OnDisconnect, RemoveChannel, DeleteHandle, GetStep, GetRecv, GetDeadRecv,
     GetSend, GetDeadSend, PeerClose, PeerReset
<1> QED
  BY <1>1, <1>2, QuietInvariant, PTL DEF Spec
===============================================================================
