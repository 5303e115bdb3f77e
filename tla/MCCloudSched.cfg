CONSTANTS
  s1 = s1  s2 = s2
  SchedIds <- MCSchedIds
  Vols = {"vol1"}
  Crons = {"daily"}
  CredIds = {"cred1"}
  BoolTexts = {"", "true"}
SPECIFICATION Spec
INVARIANTS NotSupportedDeclines
