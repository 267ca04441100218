CONSTANTS
  r0 = r0
  r1 = r1
  r2 = r2
  r3 = r3
  old0 = old0
  old = old
  Writers = {r0, r1, r2}
  LegacyWriters = {old0, old}
  Departed = {r0, old0}
  CanCrash = {r1, old}
  InitialLock <- AnyDebris
  MaxPolls = 1
SPECIFICATION FairSpec
INVARIANT TypeOK
INVARIANT LockInv
INVARIANT ExclusiveUntilRaced
INVARIANT OnlyTheKilledLeaveDebris
INVARIANT ReclaimsOnlyTheDead
PROPERTY AcquireEnds
PROPERTY LoneWriterGetsLock
CHECK_DEADLOCK FALSE
