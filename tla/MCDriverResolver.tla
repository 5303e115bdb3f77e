-------------------------- MODULE MCDriverResolver --------------------------
(* TLC instance of DriverResolver: the volume API "pxd", its scheduler    *)
(* variant "pxd-sched", and "csi", a driver a client names in its          *)
(* User-Agent; a User-Agent may also name no driver ("kubectl") or start   *)
(* with "/" (first segment "").                                            *)
EXTENDS DriverResolver

MCNames == {"pxd", "pxd-sched", "csi"}
MCAgents == {"csi", "kubectl", ""}
=============================================================================
