SPECIFICATION SessionSpec
CONSTANTS
  Letters = {"a", "<"}
  Space = "_"
  Newline = "!"
  Nul = "0"
  Commands <- ShellCommands
  Writer <- ShellWriter
  MaxCmd = 4
  FifoDepth = 1
  HeapBytes = 12
  Header = 1
  TupleBytes = 1
  HandlerUse = {0}
  Rows = 1
  Cols = 5
  Rubout = "<"
  Marks = {"$"}
  Prompts <- ShellPrompts
  NotFound <- ShellNotFound
  Outputs <- ShellOutputs
INVARIANTS SessionTypeOK PromptOnOwnLine UntidyNeedsCause
PROPERTIES RunsWhatIsShown
