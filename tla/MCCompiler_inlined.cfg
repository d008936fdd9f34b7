SPECIFICATION Spec
CONSTANTS
  Width = 3
  Fuel = 6
  Texts <- MCTexts
  Sources <- MCSources
INVARIANT
  TranslatesWhatItWasGiven
CHECK_DEADLOCK FALSE
