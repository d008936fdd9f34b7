SPECIFICATION LibrarySpec
CONSTANTS
  FileSystems <- MCFileSystems
  Directories <- MCDirectories
  Cwd <- MCCwd
  SearchDirs <- MCSearchDirs
  MaxDirs = 1
  Mains <- MCMains
  Preludes <- MCPreludes
  Declarations <- MCDeclarations
  MaxOpen = 4
  MaxInteger = 7
  MaxChar = 1
  MaxInt = 7
  MaxString = 3
  TweastIds = {x, y, z}
  Words = {w}
  Trees = {t, u}
  TreeKinds = 2
  MaxReferences = 3
  MaxItems = 2
  Lexemes <- MCLexemes
  Extensions = TRUE
  MaxLexemes = 8
  LiteralBytes = {0, 7, 8, 10, 31, 34, 48, 55, 57, 92, 97, 110, 120, 126, 127, 128, 200, 255}
  MaxLength = 3
  Messages <- MCMessages
  MaxText = 8
  SymbolNames <- MCSymbolNames
  MaxSymbols = 1
  MaxCount = 11
  Tasks = {"p: parse", "b: bind"}
  MaxNesting = 3
  MaxTime = 4
SYMMETRY Alike
INVARIANTS
  GoodFilesParse
  SuccessMeansGood
  FollowsTheFile
  NoFileTwice
  TweastsKeepTheirData
  StringsChecked
  CommentsNest
  StringsReadBack
  MessagesArrive
  NamesStayApart
  TimesAddUp
CHECK_DEADLOCK FALSE
