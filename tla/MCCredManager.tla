--------------------------- MODULE MCCredManager ---------------------------
(* TLC instance of CredManager: two workers, two mintable uuids, one id   *)
(* named by clients, two metadata values.                                  *)
EXTENDS CredManager

CONSTANTS p1, p2, u1, u2, c0, v1, v2

MCProcs == {p1, p2}
MCUuids == {u1, u2}
MCClientIds == {c0}
MCVals == {v1, v2}

\* Workers are interchangeable; ids and values are not (Init and the properties name none of them, but keeping them distinct keeps the check simple).
ProcSymmetry == Permutations(MCProcs)
=============================================================================
