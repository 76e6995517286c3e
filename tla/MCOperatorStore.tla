-------------------------- MODULE MCOperatorStore --------------------------
EXTENDS OperatorStore, TLC

CONSTANTS w1, w2
TwoWorkers == {w1, w2}
Interchangeable == Permutations(TwoWorkers)

Closed == [emergency_disable |-> FALSE, read_only_mode |-> TRUE, write_enable |-> FALSE]
Halted == [Closed EXCEPT !.emergency_disable = TRUE]
OpenGates == [Closed EXCEPT !.read_only_mode = FALSE, !.write_enable = TRUE]

ClosedOnly == {Closed}
ThreeGates == {Closed, Halted, OpenGates}
=============================================================================
