---------------------------- MODULE MCTokenRefresh ----------------------------
(* Instances of TokenRefresh for TLC.                                        *)
EXTENDS TokenRefresh, TLC

\* Processes are interchangeable.
ProcSymmetry == Permutations(Procs)

\* So are instances.
OriginSymmetry == Permutations(Origins)

\* The two responses that matter together, and all of them.
Rotating == [renews |-> TRUE, timed |-> TRUE]
Bare == [renews |-> FALSE, timed |-> FALSE]
MCShapes == {Rotating, Bare}
RotatingOnly == {Rotating}
=============================================================================
