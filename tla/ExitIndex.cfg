SPECIFICATION Spec
CONSTANTS
  Fam = Fam
  Fin = Fin
  x = x
  y = y
  z = z
  EmptyLeaf = EmptyLeaf
  NoRoot = NoRoot
  Unpaired = {Other}
  Families = {Fam, Fin}
  Leaves <- DifferentLeaves
  SeedFirst = TRUE
  PairingFirst = TRUE
  MaxTx = 5
  MaxReorgs = 1
  MaxRestarts = 1
INVARIANTS ServedIsCanonical MarksAreCanonical MirrorIsStore CarriedRootIsHonestAhead
CHECK_DEADLOCK FALSE
