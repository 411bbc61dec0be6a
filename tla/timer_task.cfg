\* The timer thread while the library is used, loaded and unloaded; twelve
\* steps of the delay lead to its maximum.
SPECIFICATION FairSpec
CONSTANTS
  MAX_DELAY = 60
  DELAY_STEP = 5
INVARIANTS TypeOK MapOutlivesTask TimerOutlivesTask OneLateReport
PROPERTIES GapsNeverShrink BegunTaskIsJoined SteadyState
\* The behaviour ends when the library is unloaded.
CHECK_DEADLOCK FALSE
