SPECIFICATION Spec
CONSTANTS
  None = None
  Procs = {p1, p2, p3}
  Inodes = {i1, i2}
INVARIANTS
  MutualExclusion
