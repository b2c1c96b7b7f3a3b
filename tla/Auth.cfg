\* Rounds of signers over resources that may be born or re-locked on the way.
SPECIFICATION Spec
CONSTANTS
  Config = 0
  Born <- BornLocks
  Genesis = 9
  NewLocks <- SomeLocks
  SignerLists <- MCSignerLists
  Writables <- AllOrOneWritable
  MaxActions = 2
  MaxBalance = 2
INVARIANTS SignersSuffice SlotsStayAddressed
PROPERTIES UnlockIsSigned
