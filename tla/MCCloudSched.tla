---------------------------- MODULE MCCloudSched ----------------------------
(* TLC instance of CloudSched: two schedule ids, one volume, cron text and *)
(* credential, and a locality flag that parses and the empty one.          *)
EXTENDS CloudSched

CONSTANTS s1, s2

MCSchedIds == {s1, s2}
=============================================================================
