SPECIFICATION SpecReadme
CONSTANTS
  Names = {"a", "b"}
  Texts = {"a"}
  InodeSlots = 5
  DirSlots = 4
  ZoneScan = 7
  LinkOf <- FsLinks
  MaxLit = 2
CHECK_DEADLOCK FALSE
PROPERTIES CatPrintsFile
