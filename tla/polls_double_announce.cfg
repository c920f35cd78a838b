\* The owner closes a poll while the scheduler does.
SPECIFICATION PollSpec
CONSTANTS
  p1 = p1
  p2 = p2
  Null = Null
  Scheduler = Scheduler
  Ops = {p1}
  Handlers = {"publish", "close", "tick"}
  Modes = {"none", "account"}
  Identities = {"anonymous", "account_required"}
  Overlaps = {TRUE}
  MaxCount = 0
  MaxCrashes = 0
INVARIANT AnnouncedOnce
\* The system may stop: nothing happens to a deleted poll.
CHECK_DEADLOCK FALSE
