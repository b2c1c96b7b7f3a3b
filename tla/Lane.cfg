\* The script, a browser and others, over decoded carriers.
SPECIFICATION LaneSpec
CONSTANTS
  PlayerA = ka
  PlayerB = kb
  Web = kc
  Keys = {ka, kb, kc, kd, gen}
  Unlocked = unlocked
  Users = {ka, kb, kc}
  Genesis = gen
  Config = config
  U64_MAX = 60
  MIN_CREATE_BALANCE = 2
  MIN_WITHDRAWAL = 3
  Supply = 60
  MaxGames = 1
  MaxActions = 3
  Amounts = {}
  Mins = {}
  NewLocks = {kd}
  ConfigLocks = {}
  Outputs = {0}
  SignerSets = {}
  Accesses = {}
  Scenarios <- SomeScenarios
  Stakes = {1, 2}
  WebCells = {3, 4}
INVARIANTS MeantIsRead ScriptDrains FreshEntryApplies LegalTurnApplies
CHECK_DEADLOCK FALSE
