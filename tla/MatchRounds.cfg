\* Several rounds with full queues on the board of four.
SPECIFICATION Spec
CONSTANTS
  Cells <- BoardOfFour
  Lines <- LinesOfFour
  PENDING_CAP = 4
  U8_MAX = 3
  U64_MAX = 8
  Users = {alice, bob}
  NoUser = none
  RoundTotals = {1, 2, 3}
  Ttls = {1}
  MaxNow = 1
  MaxAge = 2
SYMMETRY UserSymmetry
INVARIANTS TypeOK QueueDrained ResultIsCertain LiveBoard
PROPERTIES QueuesAreFifo OnlyAnnouncedCells NoLostPrecommit IsSeries
CHECK_DEADLOCK FALSE
