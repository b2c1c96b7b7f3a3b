SPECIFICATION Spec
CONSTANTS
  Fam = Fam
  Fin = Fin
  x = x
  y = y
  z = z
  EmptyLeaf = EmptyLeaf
  NoRoot = NoRoot
  Unpaired = {Other}
  Families = {Fam, Fin}
  Leaves <- DifferentLeaves
  SeedFirst = FALSE
  PairingFirst = TRUE
  MaxTx = 2
  MaxReorgs = 0
  MaxRestarts = 1
INVARIANT RemainingLeavesStayClaimable
CHECK_DEADLOCK FALSE
