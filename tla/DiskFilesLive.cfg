SPECIFICATION FairSpec
CONSTANTS
  None = None
  Disks = {d1}
  Keyed = {d1}
  Size = 2
  MaxPublish = 2
PROPERTIES
  ListedDisksArrive
  UnlistedDisksGo
