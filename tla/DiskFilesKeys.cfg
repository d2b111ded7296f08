SPECIFICATION Spec
CONSTANTS
  None = None
  Disks = {d1}
  Keyed = {d1}
  Size = 1
  MaxPublish = 0
INVARIANTS
  KeyFilesCreated
