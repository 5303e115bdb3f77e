CONSTANTS
  Procs = {r1, r2}
  Names <- MCNames
  BaseName = "pxd"
  Agents <- MCAgents
  NoAgent = NoAgent
  NotFound = NotFound
SPECIFICATION Spec
INVARIANTS ResolvesByPrecedence
