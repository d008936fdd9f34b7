CONSTANTS
  None = None
  Object <- TcNames
  Name <- TcNames
  Ranks <- TcRanks
  Declaration <- Declarations
  Default = "parse"
  Argument = {"x"}
  MaxOptions = 3
  StackLimit = 12
  Offered <- EveryTask
  Source <- Sources
SPECIFICATION MCSpec
INVARIANTS
  FindsAnnotations
  NoTaskCrashes
  ReadyToTranslate
  StatusTells
