SPECIFICATION TurnSpec
CONSTANTS
  MaxMessages = 3
  ToolLoop = 1
  MaxPending = 1
  Others = FALSE
  Suspends = TRUE
INVARIANT OneTurn
CHECK_DEADLOCK FALSE
