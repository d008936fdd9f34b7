SPECIFICATION Spec
CONSTANTS
  Width = 3
  Fuel = 6
  Texts <- MCTexts
  Sources <- MCSources
INVARIANTS
  ReadsBackWhatItPrints
  DrawsTheTree
  RenamingKeepsBindings
  TypesEnd
  NeverWrong
  KeepsMeaning
  PassesEnd
  OnlyForwardCallsMiss
  TranslationSame
CHECK_DEADLOCK FALSE
