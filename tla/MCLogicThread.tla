---------------------------- MODULE MCLogicThread -----------------------------
\* Instances of LogicThread for TLC.
EXTENDS LogicThread, TLC

CONSTANTS e1, e2, e3

\* Functions and events at once, for the safety properties.
Mixed == { [events |-> {e1, e2}, funcs |-> 2] }

\* Functions with a few events, and one event more than the loop can wait for without.
Apart == { [events |-> {e1, e2}, funcs |-> 2], [events |-> {e1, e2, e3}, funcs |-> 0] }

\* The callers make the same calls, so they can be exchanged in safety runs; the events
\* too, since Mixed names them all.
Symmetry == Permutations(Callers) \cup Permutations({e1, e2})
===============================================================================
