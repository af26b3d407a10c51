SPECIFICATION BarredSpec
CONSTANTS
  r1 = r1  r2 = r2  None = None
  Callers = {r1}
  HasRepo = TRUE
  MaxRetries = 1
  BaseDelay = 1
  MinDelay = 0
  MaxBackoff = 3
  Timeout = 2
  Margin = 2
  Life = 4
  Threshold = 3
  Headers = {0, 4}
INVARIANTS RetryAfterRespected
