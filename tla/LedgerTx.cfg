\* Transactions of several actions with lazy signers and read-only resources.
SPECIFICATION Spec
CONSTANTS
  Keys = {ka, kb, gen}
  Unlocked = unlocked
  Users = {ka, kb}
  Genesis = gen
  Config = config
  U64_MAX = 2
  MIN_CREATE_BALANCE = 1
  Supply = 2
  MaxGames = 1
  MaxActions = 2
  Amounts = {1}
  Mins = {1}
  NewLocks = {kb}
  ConfigLocks = {gen}
  Outputs = {o1}
  SignerSets <- MixedSigners
  Accesses <- OneLimited
PROPERTIES CurrentLockOpened WritesAreDeclared
