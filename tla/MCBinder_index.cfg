CONSTANTS
  a = a
  b = b
  Id <- OneId
  MaxSize = 4
SPECIFICATION Spec
INVARIANT
  RejectsOnlyErrors
