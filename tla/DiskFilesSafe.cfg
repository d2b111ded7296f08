SPECIFICATION Spec
CONSTANTS
  None = None
  Disks = {d1, d2}
  Keyed = {d1}
  Size = 2
  MaxPublish = 2
INVARIANTS
  TypeOK
  ImageWhole
  Reconciled
  KeyedIfFetched
PROPERTIES
  NothingLostWhileListed
  CatalogSpec
