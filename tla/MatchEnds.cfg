\* The clock: MaxNow leaves room for every ply to take MaxAge.
SPECIFICATION FairSpec
CONSTANTS
  Cells <- BoardOfFour
  Lines <- LinesOfFour
  PENDING_CAP = 1
  U8_MAX = 2
  U64_MAX = 30
  Users = {alice, bob}
  NoUser = none
  RoundTotals = {2}
  Ttls = {2, 30}
  MaxNow = 24
  MaxAge = 2
INVARIANTS EndsClean
PROPERTIES RepeatedTimeoutRejects JoinedMatchEnds
CHECK_DEADLOCK FALSE
