SPECIFICATION FairSpec
CONSTANTS
  None = None
  t1 = t1
  t2 = t2
  Task <- Both
  Kinds <- Roles
  MaxAttempts = 3
  BaseDelay = 1
  MaxDelay = 2
  Jitter = 50
  MaxPolls = 2
  PollInterval = 1
  RetryAfter = {0, 2, 4}
  Parts = 2
  TimerLimit = 3
INVARIANTS TypeOK RateLimitsAreReported PackageIsWhole
PROPERTIES RetryAfterIsKept EveryConversationEnds
