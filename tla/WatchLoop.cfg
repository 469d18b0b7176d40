SPECIFICATION FairSpec
CONSTANTS
  None = None
  Second = 2
  Poll = 3
  MinInterval = 2
  MaxInterval = 4
  Growth <- Doubling
  Decay <- FourFifths
  Respect = TRUE
  Modes = {TRUE, FALSE}
  RetryAfter = {0, 5, 11}
  Drain = 2
  TimerLimit = 10
INVARIANTS TypeOK SleepIsRestartable
PROPERTIES NeverBeforeRetryAfter StopEnds BackToFloor
