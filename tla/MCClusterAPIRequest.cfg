CONSTANTS
  t1 = t1
  t2 = t2
  n1 = n1
  n2 = n2
  c1 = c1
  NoParam = NoParam
  Zero = Zero
  NoCall = NoCall
  Invalid = Invalid
  NoConf = NoConf
  BadBody = BadBody
  NodeIds = {n1, n2}
  Confs = {c1}
  ResourceTexts <- MCResourceTexts
  IdTexts <- MCIdTexts
  TimeTexts <- MCTimeTexts
  Lower <- MCLower
  ForceTexts <- MCForceTexts
SPECIFICATION APISpec
INVARIANTS RequestAsNamed
