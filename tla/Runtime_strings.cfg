SPECIFICATION RuntimeSpec
CONSTANTS
  MaxChar = 1
  MaxInt = 7
  MaxString = 3
INVARIANT CommentsHold
CHECK_DEADLOCK FALSE
