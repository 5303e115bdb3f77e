CONSTANTS
  r1 = r1  vol1 = vol1  NoVol = NoVol
  Procs <- MCProcs
  Volumes = {vol1}
  Paths = {"", "/mnt"}
SPECIFICATION Spec
INVARIANTS AppliedIfOk
