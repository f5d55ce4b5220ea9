--------------------------- MODULE MCRequestChannel ---------------------------
(* An instance of RequestChannel for TLC.                                    *)
EXTENDS RequestChannel

MCRows == 1 .. 4
MCStarts == {0, 1}
MCCaps == {1, 3}
=============================================================================
