SPECIFICATION Spec
CONSTANTS
  PageSize = 128
  HeapLimit = 500
  HeapBase = 1024
  FsStart = 1508
  TableSize = 60
  TableWipe = 90
  Requests = {4, 25, 60, 108, 150}
  MaxPages = 8
CHECK_DEADLOCK FALSE
INVARIANTS TypeOK ListOrder RunContiguous DisjointUnlessWild SizeAccounted
PROPERTIES KmallocReturns RunShortens ImplementsAllocator
