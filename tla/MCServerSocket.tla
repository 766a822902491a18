---------------------------- MODULE MCServerSocket ----------------------------
\* Instances of ServerSocket for TLC.
EXTENDS ServerSocket, TLC

\* The workers run the same loop, so they can be exchanged in safety runs.
Symmetry == Permutations(Workers)
===============================================================================
