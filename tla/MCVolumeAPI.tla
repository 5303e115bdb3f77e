---------------------------- MODULE MCVolumeAPI ----------------------------
(* TLC instance of VolumeAPI: one volumeSet goroutine (as in MCVolumeSet) *)
(* and the one-step handlers on one volume, so a volume id list has one or *)
(* two entries.                                                            *)
EXTENDS VolumeAPI

CONSTANTS r1, vol1

MCProcs == {r1}

(* qresp, qcall and qdoc are written by the one-step handlers and read by  *)
(* no action: states that differ only in them have the same successors.    *)
(* A run whose properties do not read them explores states up to them.    *)
HandlerStateView == <<vars, snapDrv, statsDrv>>
=============================================================================
