\* Two notices at a time, a phone, a deadline that is set again, two changes, a fault.
SPECIFICATION Spec
CONSTANTS
  n1 = n1
  n2 = n2
  phone = phone
  Null = Null
  Notices = {n1, n2}
  Tokens = {phone}
  Provider <- OnePhone
  PrefChoices <- EmailOrAll
  MaxMoves = 1
  MaxChanges = 2
  MaxFaults = 1
INVARIANTS
  WarnedOncePerDeadline
  DeadTokensPruned
PROPERTIES
  ConsentObeyed
  EveryDeadlineWarned
\* The poll closes, its deadline passes and nothing is left to tell.
CHECK_DEADLOCK FALSE
