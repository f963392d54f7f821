SPECIFICATION Spec
CONSTANTS
  Depth = 3
  Sizes = {1, 2}
  Asked = 1
  Addrs = {5, 6}
  MaxNoise = 4
CHECK_DEADLOCK FALSE
INVARIANTS TypeOK FbinfoIsGpus RequestIntact OnlyNoiseClogs AnswerComing
PROPERTIES BootEnds BootShortens
