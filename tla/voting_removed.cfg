\* Two submissions, with valid, made-up and missing invite codes, while the poll is archived and deleted, over a pool that the statements of the owner and the scheduler help to fill.
SPECIFICATION FairSpec
CONSTANTS
  r1 = r1
  r2 = r2
  r3 = r3
  p1 = p1
  a = a
  b = b
  Null = Null
  Scheduler = Scheduler
  Requests = {r1, r2}
  Options = {a, b}
  Ballots <- Both
  Voters <- Invited
  Modes = {"cookie_device", "invite_code"}
  Identities = {"anonymous"}
  Handlers = {"archive", "remove", "tick"}
  Codes = {"c1", "c2"}
  Points = 30
  PoolMax = 2
  Ops = {p1}
  MaxCrashes = 1
  Milestones = {1, 2}
  Overlaps = {TRUE}
  MaxCount = 0
INVARIANTS
  AnswerIsTrue
  CodeSpentOnce
  RejectionKeepsCode
PROPERTIES
  ImplementsBox
  EveryRequestAnswered
