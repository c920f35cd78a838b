\* One request and the scheduler, in turn and overlapping, with a crash.
SPECIFICATION PollSpec
CONSTANTS
  p1 = p1
  p2 = p2
  Null = Null
  Scheduler = Scheduler
  Ops = {p1}
  Handlers <- AllHandlers
  Modes = {"none", "account"}
  Identities = {"anonymous", "account_required"}
  Overlaps = {TRUE, FALSE}
  MaxCount = 2
  MaxCrashes = 1
INVARIANTS
  AnnouncedOnceInTurn
  UpheldStaysDown
PROPERTIES
  LifecycleEdges
  RulesFrozenInTurn
  DeadlineEnforced
  CloseIsAnnounced
\* The system may stop: nothing happens to a deleted poll.
CHECK_DEADLOCK FALSE
