\* Every day of a whole cycle of the calendar.
SPECIFICATION Spec
CONSTANTS
  LastYear = 2371
  Instants <- ReadAt
  Times <- HeaderTimes
INVARIANTS
  CalendarAgrees
  HintsExact
\* The clock stops at the end of the last year.
CHECK_DEADLOCK FALSE
