----------------------------- MODULE ClientSession -----------------------------
(***************************************************************************)
(* What the client side of the library promises to the application: the    *)
(* order of the callbacks of IClientSocketSink (Common/ISocketSysterm.h).  *)
(*                                                                         *)
(* The calls of Start make connections, one after the other.  One that     *)
(* succeeds is announced by OnConnect and receives OnRecv for the messages *)
(* of the server in their order.  OnCloseConnect ends it, or reports a     *)
(* Start that failed.  Once a later connection has been heard of, nothing  *)
(* more is heard of an earlier one.                                        *)
(***************************************************************************)
EXTENDS Naturals

CONSTANT Conns      \* the calls of Start, numbered

VARIABLES stat,     \* how far the callbacks of a connection have come
          last      \* number of the last message handed to OnRecv

clientVars == <<stat, last>>

SessionInit ==
    /\ stat = [c \in Conns |-> "none"]
    /\ last = [c \in Conns |-> 0]

Newest(c) == \A d \in Conns : d > c => stat[d] = "none"

\* OnConnect(true).
Connect(c) ==
    /\ stat[c] = "none" /\ Newest(c)
    /\ stat' = [stat EXCEPT ![c] = "open"]
    /\ UNCHANGED last

\* OnRecv(Buf, nLen) with the next message of the server.
Recv(c) ==
    /\ stat[c] = "open" /\ Newest(c)
    /\ last' = [last EXCEPT ![c] = @ + 1]
    /\ UNCHANGED stat

\* OnCloseConnect().
CloseConnect(c) ==
    /\ stat[c] # "closed" /\ Newest(c)
    /\ stat' = [stat EXCEPT ![c] = "closed"]
    /\ UNCHANGED last

SessionNext == \E c \in Conns : Connect(c) \/ Recv(c) \/ CloseConnect(c)

SessionSpec == SessionInit /\ [][SessionNext]_clientVars
================================================================================
