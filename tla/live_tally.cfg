\* Votes, watchers, a poll that closes and is archived, results that are hidden and shown.
SPECIFICATION Spec
CONSTANTS
  v1 = v1
  v2 = v2
  v3 = v3
  s1 = s1
  s2 = s2
  s3 = s3
  a = a
  b = b
  Null = Null
  Votes = {v1, v2}
  Options = {a, b}
  Picks <- Twice
  Sockets = {s1, s2}
SYMMETRY LiveSymmetry
INVARIANTS
  TypeOK
  MirrorTracks
  NothingShownEarly
  WatchersUpToDate
\* The system may stop: the poll is archived and everyone has gone.
CHECK_DEADLOCK FALSE
