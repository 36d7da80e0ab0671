SPECIFICATION Spec
CONSTANTS
  Size = 5
  Word = 32
  Chars = {"a", "b"}
  NL = "nl"
  NUL = "nul"
  MaxTyped = 8
INVARIANTS TypeOK Terminated LinesRight GivesUpOnLongLine
PROPERTY LoopEnds
CHECK_DEADLOCK FALSE
