SPECIFICATION SpecReadme
CONSTANTS
  Names = {"a", "b"}
  Texts = {"a", "!"}
  InodeSlots = 5
  DirSlots = 4
  ZoneScan = 5
  LinkOf <- FsLinks
  MaxLit = 1
CHECK_DEADLOCK FALSE
INVARIANTS AppendCursor TreeShape PwdResolves
PROPERTIES ImplementsTree
