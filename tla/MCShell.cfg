SPECIFICATION Spec
CONSTANTS
  Letters = {"a"}
  Space = "_"
  Newline = "!"
  Nul = "0"
  Commands <- ShellCommands
  Writer <- ShellWriter
  MaxCmd = 5
  FifoDepth = 2
  HeapBytes = 26
  Header = 1
  TupleBytes = 1
  HandlerUse = {0, 2}
INVARIANTS TypeOK LineWhole
PROPERTIES RunsEachLine LinesGetHandled
