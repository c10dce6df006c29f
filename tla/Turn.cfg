SPECIFICATION MCSpec
CONSTANTS
  MaxMessages = 3
  ToolLoop = 1
  MaxPending = 1
  Others = TRUE
  Suspends = FALSE
  b1 = b1
  b2 = b2
  Browsers = {b1, b2}
  MaxBrowsers = 2
  MaxLaunches <- MCLaunches
INVARIANTS SteeringSound
PROPERTIES TurnEnds LeasesEnd
CHECK_DEADLOCK FALSE
