\* The steady state of the README, with the constants of the code.
SPECIFICATION BackoffSpec
CONSTANTS
  MAX_DELAY = 600
  DELAY_STEP = 5
INVARIANTS TenMinuteGaps
