SPECIFICATION Spec
CONSTANTS
  Messages <- AllMessages
  References <- Refs
  K = 2
  MaxNodes = 16
  MemoMinLen = 4
INVARIANTS
  LinesAreDetermined
  BudgetIsShared
CHECK_DEADLOCK FALSE
