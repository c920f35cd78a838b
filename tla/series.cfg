\* Up to three rounds, one owner request and the scheduler, in turn and overlapping, with failures and crashes.
SPECIFICATION Spec
CONSTANTS
  o1 = o1
  o2 = o2
  Null = Null
  Scheduler = Scheduler
  Ops = {o1}
  Rows = {1, 2, 3}
  First = 1
  Overlaps = {TRUE, FALSE}
INVARIANTS
  SeriesInd
  LinkAsExpected
PROPERTIES
  NothingOpensAfterEnd
  SeriesGoesOn
  ImplementsLine
\* The series may stop: every row is created, archived or past.
CHECK_DEADLOCK FALSE
