SPECIFICATION Spec
CONSTANTS
  None = None
  v1 = v1
  v2 = v2
  d1 = d1
  d2 = d2
  VMs = {v1}
  Disks = {d1, d2}
  ReadOnly = {}
  VmOption <- VmClear
  DiskOption <- D2Encrypted
  Role = "platform"
  Plans <- OneVmPlans
  Paths = {p1}
  Foreign = p0
  MaxPublish = 0
INVARIANTS
  SnapshotIsUsable
