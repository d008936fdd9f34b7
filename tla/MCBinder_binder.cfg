CONSTANTS
  a = a
  b = b
  Id <- TwoIds
  MaxSize = 6
SPECIFICATION Spec
SYMMETRY Names
INVARIANTS
  BinderTypeOK
  LexicalScoping
  ScopesBalanced
  EnclosingLoop
  NoMissedError
PROPERTIES
  OnlyIndexClashes
