\* Three submissions race for tally rows and identities; nobody touches the poll; the process may die once.
SPECIFICATION Spec
CONSTANTS
  r1 = r1
  r2 = r2
  r3 = r3
  p1 = p1
  a = a
  b = b
  Null = Null
  Scheduler = Scheduler
  Requests = {r1, r2, r3}
  Options = {a, b}
  Ballots <- Mixed
  Voters <- People
  Modes = {"cookie_device", "ip", "account"}
  Identities = {"anonymous"}
  Handlers = {}
  Codes = {}
  Points = 2
  PoolMax = 2
  Ops = {}
  MaxCrashes = 1
  Milestones = {1, 2}
  Overlaps = {TRUE}
  MaxCount = 0
SYMMETRY VoteSymmetry
INVARIANTS
  TallyExact
  OneBallotPerIdentity
  ConflictMeansCounted
  AttemptsBounded
