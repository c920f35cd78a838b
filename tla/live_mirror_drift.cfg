\* A vote and a load that overlap.
SPECIFICATION Spec
CONSTANTS
  v1 = v1
  v2 = v2
  v3 = v3
  s1 = s1
  s2 = s2
  s3 = s3
  a = a
  b = b
  Null = Null
  Votes = {v1}
  Options = {a, b}
  Picks <- OneOrTwo
  Sockets = {s1}
SYMMETRY LiveSymmetry
INVARIANTS
  MirrorAgrees
CHECK_DEADLOCK FALSE
