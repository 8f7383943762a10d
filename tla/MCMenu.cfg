SPECIFICATION Spec
CONSTANTS
  Counts <- MCCounts
  VISIBLE = 3
  Timeout = 3
  StartSeconds <- MCStartSeconds
  ClockMayFail = FALSE
  KeyStrokes <- MCStrokes
  MaxLag = 2
INVARIANTS
  TypeOK
  SelectionVisible
  ReturnInRange
  CountdownExact
PROPERTIES
  EnterBootsHighlighted
  MenuReturns
  EmptyMenuLeft
\* menu_run returns: nothing happens after that.
CHECK_DEADLOCK FALSE
