---------------------------- MODULE MCClientSocket ----------------------------
\* Instances of ClientSocket for TLC.
EXTENDS ClientSocket

Around(outcomes, closes, quiet) ==
    [outcomes |-> outcomes, closes |-> closes, quiet |-> quiet]

\* An application that closes the client from OnCloseConnect only, with every way a Start
\* may end or with those in which the connection is announced or does not exist, and
\* one that closes and starts it whenever it likes.
AllEnvs ==
    { Around(StartOutcomes, "never", TRUE),
      Around(StartOutcomes, "never", FALSE),
      Around(StartOutcomes \ {"ready"}, "never", FALSE),
      Around(StartOutcomes, "restart", FALSE),
      Around(StartOutcomes, "final", FALSE) }
===============================================================================
