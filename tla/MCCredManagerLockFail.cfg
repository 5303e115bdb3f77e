CONSTANTS
  p1 = p1  p2 = p2  u1 = u1  u2 = u2  c0 = c0  v1 = v1  v2 = v2
  NoHolder = NoHolder  Orphaned = Orphaned  NoId = NoId  NoVal = NoVal
  Procs <- MCProcs
  Uuids <- MCUuids
  ClientIds <- MCClientIds
  Vals <- MCVals
  Ops = {"list", "create", "update", "delete"}
SPECIFICATION Spec
SYMMETRY ProcSymmetry
PROPERTIES ReturnedNilApplied
