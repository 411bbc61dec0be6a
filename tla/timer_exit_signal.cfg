\* Does the exit signal end the timer thread, whenever it comes?
SPECIFICATION FairSpec
CONSTANTS
  MAX_DELAY = 2
  DELAY_STEP = 1
PROPERTIES SignalEndsTask
CHECK_DEADLOCK FALSE
