SPECIFICATION CmdFairSpec
CONSTANTS
  None = None
  Url = url
  Partial = part
  Repos = {r1, url, part}
  MaxPublish = 1
  Size = 2
  EarlyEnd = TRUE
INVARIANTS
  CmdTypeOK
  NoGap
PROPERTIES
  TargetWins
  RetriesSucceed
