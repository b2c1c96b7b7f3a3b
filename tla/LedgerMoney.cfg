\* Value and statistics: every user signs, everything is writable.
SPECIFICATION Spec
CONSTANTS
  Keys = {ka, kb, gen}
  Unlocked = unlocked
  Users = {ka, kb}
  Genesis = gen
  Config = config
  U64_MAX = 4
  MIN_CREATE_BALANCE = 1
  Supply = 4
  MaxGames = 2
  MaxActions = 1
  Amounts = {1, 2}
  Mins = {1}
  NewLocks = {}
  ConfigLocks = {gen}
  Outputs = {o1}
  SignerSets <- AllSign
  Accesses <- AllWritable
SYMMETRY UserSymmetry
INVARIANTS TypeOK Conserved CanSettle StatsTell
