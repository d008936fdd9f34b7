CONSTANTS
  None = None
  Object <- TcNames
  Name <- TcNames
  Ranks <- TcRanks
  Declaration <- Declarations
  Default = "parse"
  Argument = {"x"}
  MaxOptions = 2
  StackLimit = 12
  Offered <- EarlyDesugar
  Source <- Ordinary
SPECIFICATION PipelineSpec
INVARIANTS
  TranslatesNoSugar
