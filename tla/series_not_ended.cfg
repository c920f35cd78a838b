\* One request at a time ends the series from a round that has closed.
SPECIFICATION Spec
CONSTANTS
  o1 = o1
  o2 = o2
  Null = Null
  Scheduler = Scheduler
  Ops = {o1}
  Rows = {1, 2, 3, 4}
  First = 1
  Overlaps = {FALSE}
PROPERTIES
  EndedForGood
\* The series may stop: every row is created, archived or past.
CHECK_DEADLOCK FALSE
