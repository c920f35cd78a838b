\* Two submissions by one person while the owner closes the poll and edits its rules and the deadline passes.
SPECIFICATION Spec
CONSTANTS
  r1 = r1
  r2 = r2
  r3 = r3
  p1 = p1
  a = a
  b = b
  Null = Null
  Scheduler = Scheduler
  Requests = {r1, r2}
  Options = {a, b}
  Ballots <- TwoOrNone
  Voters <- OnePerson
  Modes = {"none", "cookie_device"}
  Identities = {"anonymous"}
  Handlers = {"close", "update", "tick"}
  Codes = {}
  Points = 30
  PoolMax = 10
  Ops = {p1}
  MaxCrashes = 0
  Milestones = {1, 2}
  Overlaps = {TRUE}
  MaxCount = 0
SYMMETRY OwnerSymmetry
INVARIANTS
  IndInv
  MilestoneOnce
