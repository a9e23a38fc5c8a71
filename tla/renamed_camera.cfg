SPECIFICATION ControllerFairSpec
CONSTANTS
  Recoverers = {r1}
  Starter = Starter
  MaxConns = 4
  MaxAttempts = 2
  Flaky = FALSE
  MaxHappened = 3
PROPERTIES RenamedIsRecovered
CHECK_DEADLOCK FALSE
