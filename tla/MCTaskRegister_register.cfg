CONSTANTS
  o1 = o1
  o2 = o2
  o3 = o3
  o4 = o4
  None = None
  Object = {o1, o2, o3, o4}
  Name <- Names
  Declaration <- AllTables
  Default = "parse"
  Argument = {"d1", "d2"}
  MaxOptions = 2
  StackLimit = 5
  Ranks <- Orders
SPECIFICATION FairSpec
INVARIANTS
  TypeOK
  DependenciesFirst
  AsOftenAsAsked
  RunsInOrder
  RunsOnlyWhenSound
  CleanExit
  OwnArgument
PROPERTIES
  Termination
  DependenciesOnce
  KeepsPromise
