SPECIFICATION TerminalSpec
CONSTANTS
  ChatOf <- MCChatOf
  RunnerLimit = 1
  MaxLives = 2
  MaxRunnerStops = 0
  MaxSilences = 1
INVARIANT RecoversOldOnly
CHECK_DEADLOCK FALSE
