-------------------------------- MODULE Session --------------------------------
(***************************************************************************)
(* What the server side of the library promises to the application: the    *)
(* order of the callbacks of IServerSocketSink and IClientSink             *)
(* (Common/ISocketSysterm.h).                                              *)
(*                                                                         *)
(* A connection is announced once by OnAccept.  The application answers    *)
(* with a sink, and from then on owns the connection, or with no sink, and *)
(* then hears nothing more of it.  An owned connection receives OnRecv for *)
(* the messages of its peer in the order in which the peer sent them, none *)
(* twice and none left out, until one OnCloseConnect ends it.  A sink      *)
(* serves one connection at a time.                                        *)
(***************************************************************************)
EXTENDS Naturals

CONSTANTS Conns,    \* connection identifiers
          Sinks,    \* the IClientSink objects of the application
          NoSink    \* "no sink"

VARIABLES stat,     \* how far the callbacks of a connection have come
          last,     \* number of the last message handed to OnRecv
          sinkOf    \* the sink that serves the connection

sessionVars == <<stat, last, sinkOf>>

Status == {"none", "open", "refused", "closed"}

SessionInit ==
    /\ stat   = [c \in Conns |-> "none"]
    /\ last   = [c \in Conns |-> 0]
    /\ sinkOf = [c \in Conns |-> NoSink]

\* OnAccept(conId, &pSink) with an answer.
Accept(c, s) ==
    /\ stat[c] = "none"
    /\ \A d \in Conns : sinkOf[d] # s
    /\ stat'   = [stat EXCEPT ![c] = "open"]
    /\ sinkOf' = [sinkOf EXCEPT ![c] = s]
    /\ UNCHANGED last

\* OnAccept(conId, &pSink) that leaves pSink NULL.
Refuse(c) ==
    /\ stat[c] = "none"
    /\ stat' = [stat EXCEPT ![c] = "refused"]
    /\ UNCHANGED <<last, sinkOf>>

\* OnRecv(Buf, nLen) with the next message of the peer.
Recv(c) ==
    /\ stat[c] = "open"
    /\ last' = [last EXCEPT ![c] = @ + 1]
    /\ UNCHANGED <<stat, sinkOf>>

\* OnCloseConnect(): the sink is free again.
CloseConnect(c) ==
    /\ stat[c] = "open"
    /\ stat'   = [stat EXCEPT ![c] = "closed"]
    /\ sinkOf' = [sinkOf EXCEPT ![c] = NoSink]
    /\ UNCHANGED last

SessionNext ==
    \E c \in Conns :
        \/ \E s \in Sinks : Accept(c, s)
        \/ Refuse(c)
        \/ Recv(c)
        \/ CloseConnect(c)

SessionSpec == SessionInit /\ [][SessionNext]_sessionVars
================================================================================
