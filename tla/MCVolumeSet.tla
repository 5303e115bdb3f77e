---------------------------- MODULE MCVolumeSet ----------------------------
(* TLC instance of VolumeSet: one request goroutine on one volume that    *)
(* another request may delete, an empty and a real mount path.  A driver   *)
(* call's outcome depends only on whether the volume exists and on the     *)
(* driver, never on what a second volumeSet request attached or mounted,   *)
(* so one goroutine with RemoveVolume reaches every outcome sequence.      *)
EXTENDS VolumeSet

CONSTANTS r1, vol1

MCProcs == {r1}
=============================================================================
