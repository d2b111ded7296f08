SPECIFICATION FairSpec
CONSTANTS
  None = None
  v1 = v1
  v2 = v2
  d1 = d1
  d2 = d2
  VMs = {v1, v2}
  Disks = {d1}
  ReadOnly = {d1}
  VmOption <- NoVmOption
  DiskOption <- NoDiskOption
  Role = "realm"
  Plans <- RemovedPlans
  Paths = {p1, p2}
  Foreign = p0
  MaxPublish = 1
PROPERTIES
  VmSetCorresponds
