SPECIFICATION Spec
CONSTANTS
  Width = 3
  Fuel = 6
  Texts <- MCTexts
  Sources <- MCSources
INVARIANT
  LoopsMeanTheSame
CHECK_DEADLOCK FALSE
