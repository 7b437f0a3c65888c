SPECIFICATION SearchSpec
CONSTANTS
  Hour = 2
  Day = 6
  Cycle = 10
  Calendar <- LateJanuary
  Horizon = 36
  Expression <- Expressions
  Search <- SpringForward
INVARIANTS
  NothingSkipped
CHECK_DEADLOCK FALSE
