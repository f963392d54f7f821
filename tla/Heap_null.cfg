SPECIFICATION Spec
CONSTANTS
  PageSize = 128
  HeapLimit = 600
  HeapBase = 1024
  FsStart = 1608
  TableSize = 60
  TableWipe = 90
  Requests = {11, 25, 60, 150}
  MaxPages = 6
CHECK_DEADLOCK FALSE
INVARIANT HeadersInPages
