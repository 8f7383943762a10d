SPECIFICATION Spec
CONSTANTS
  Counts <- MCCounts
  VISIBLE = 3
  Timeout = 3
  StartSeconds <- MCStartSeconds
  ClockMayFail = FALSE
  KeyStrokes <- MCStrokes
  MaxLag = 2
INVARIANT TimeoutBootsAnnounced
\* menu_run returns: nothing happens after that.
CHECK_DEADLOCK FALSE
