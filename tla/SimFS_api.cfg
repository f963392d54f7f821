SPECIFICATION SpecApi
CONSTANTS
  Names = {"a", ""}
  Texts = {"a", "!"}
  InodeSlots = 4
  DirSlots = 4
  ZoneScan = 5
  LinkOf <- FsLinks
  MaxLit = 1
CHECK_DEADLOCK FALSE
INVARIANTS TypeOK ZoneOwnership InodesAgree FreeZonesBlank
