---------------------------- MODULE MCClusterAPI ----------------------------
(***************************************************************************)
(* ClusterAPI for TLC.  The resource texts are the cases handleResourceType *)
(* tells apart: a name in another case, a name that is no resource type,  *)
(* 1 and 5, 2^32 + 1 (int32 1) and a number that is not an integer.  Two   *)
(* nodes, so that a delete can name one node in the path and another in   *)
(* the query; one configuration besides each node's absent one.            *)
(***************************************************************************)
EXTENDS ClusterAPI

CONSTANTS t1, t2, n1, n2, c1

Junk == [junk |-> TRUE]
Num(h, l) == [hi |-> h, lo |-> l]

MCResourceTexts ==
  {[name |-> "Volume"], [name |-> "disk"], Num(0, 1), Num(0, 5), Num(1, 1), Junk}
MCIdTexts == {Num(0, 7), Junk}
MCTimeTexts == {[t |-> t1], [t |-> t2], Junk}
MCLower == [s \in {"Volume", "disk"} |-> IF s = "Volume" THEN "volume" ELSE "disk"]
MCForceTexts == {"true", "false", "yes"}
=============================================================================
