----------------------------- MODULE MCCredAPI -----------------------------
(* TLC instance of CredAPI: two request goroutines, two mintable uuids,   *)
(* the empty id "" as the only id a client can name without a Create, and *)
(* one metadata value (the handlers never look at it).                     *)
EXTENDS CredAPI

CONSTANTS p1, p2, u1, u2, v1

MCProcs == {p1, p2}
MCUuids == {u1, u2}
MCClientIds == {""}
MCVals == {v1}

\* Request goroutines are interchangeable.
ProcSymmetry == Permutations(MCProcs)
=============================================================================
