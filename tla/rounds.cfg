\* Seven polls, up to three rounds, two responses, seven days of six weeks.
SPECIFICATION Spec
CONSTANTS
  Months = 6
  MonthStart <- Calendar
  Polls <- SomePolls
  Ballots <- SomeBallots
  Moves <- SomeMoves
  Instants = {1, 2, 4, 5, 10, 33, 42}
  MaxRounds = 3
  MaxVotes = 2
  Null = Null
INVARIANTS
  TypeOK
  RepairChangesNothing
  RankingComparable
  ReadingsAgree
PROPERTIES
  NextRoundOnTime
\* The days run out.
CHECK_DEADLOCK FALSE
