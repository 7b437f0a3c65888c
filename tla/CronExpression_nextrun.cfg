SPECIFICATION FairSearch
CONSTANTS
  Hour = 2
  Day = 6
  Cycle = 10
  Calendar <- LateJanuary
  Horizon = 36
  Expression <- Expressions
  Search <- AnyClocks
INVARIANTS
  FirstFound
PROPERTIES
  SearchEnds
CHECK_DEADLOCK FALSE
