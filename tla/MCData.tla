-------------------------------- MODULE MCData --------------------------------
(***************************************************************************)
(* The four components that run beside the sockets and share nothing with  *)
(* each other, in one instance: a behaviour is one of one of them, and the *)
(* others keep their initial states.                                       *)
(***************************************************************************)
EXTENDS Framing, TimerWheel, LogToFile, Cipher

VARIABLE part    \* the component that runs

allVars == <<part, framingVars, timerVars, logVars, cipherVars>>

Init ==
    /\ part \in {"framing", "timer", "log", "cipher"}
    /\ FramingInit /\ TimerInit /\ LogInit /\ CipherInit

Next ==
    /\ UNCHANGED part
    /\ \/ /\ part = "framing" /\ FramingNext
          /\ UNCHANGED <<timerVars, logVars, cipherVars>>
       \/ /\ part = "timer" /\ TimerNext
          /\ UNCHANGED <<framingVars, logVars, cipherVars>>
       \/ /\ part = "log" /\ LogNext
          /\ UNCHANGED <<framingVars, timerVars, cipherVars>>
       \/ /\ part = "cipher" /\ CipherNext
          /\ UNCHANGED <<framingVars, timerVars, logVars>>

\* TimerFairness and LogFairness, each for the behaviours of its component.
Spec ==
    /\ Init /\ [][Next]_allVars
    /\ WF_timerVars(part = "timer" /\ TimerStep)
    /\ WF_logVars(part = "log" /\ LogThreadStep)

\* Framing: two cells stand for the four bytes of an int.
Base == 4
MCByte == 0 .. Base - 1
MCBytesOf(n) == <<n % Base, n \div Base>>
MCIntOf(s) == s[1] + Base * s[2]

\* One payload for each length, with a byte that a length does not start with.
MCPayloads == {[i \in 1 .. n |-> Base - 1] : n \in 1 .. MaxLen}
===============================================================================
