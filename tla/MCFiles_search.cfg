SPECIFICATION Spec
CONSTANTS
  FileSystems <- MCFileSystems
  Directories <- MCDirectories
  Cwd <- MCCwd
  SearchDirs <- MCSearchDirs
  MaxDirs = 1
  Mains <- MCMains
  Preludes <- MCPreludes
  Declarations <- MCDeclarations
  MaxOpen = 4
  MaxInteger = 7
INVARIANT SearchFinds
CHECK_DEADLOCK FALSE
