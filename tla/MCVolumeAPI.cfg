CONSTANTS
  r1 = r1  vol1 = vol1  NoVol = NoVol  NoParam = NoParam  NoCall = NoCall
  Procs <- MCProcs
  Volumes = {vol1}
  Paths = {"", "/mnt"}
SPECIFICATION APISpec
INVARIANTS FailuresReported
VIEW HandlerStateView
