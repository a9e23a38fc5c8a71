SPECIFICATION ControllerFairSpec
CONSTANTS
  Recoverers = {r1, r2}
  Starter = Starter
  MaxConns = 4
  MaxAttempts = 2
  Flaky = TRUE
  MaxHappened = 4
INVARIANTS MotionFollowsVerified
PROPERTIES RecoveryWorks
CHECK_DEADLOCK FALSE
