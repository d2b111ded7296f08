SPECIFICATION FairSpec
CONSTANTS
  None = None
  Repos = {r1, r2, r3}
  MaxPublish = 2
INVARIANTS
  TypeOK
PROPERTIES
  UpgradeUndisturbed
  HandoverSpec
  DownloadKept
  TargetInstalled
