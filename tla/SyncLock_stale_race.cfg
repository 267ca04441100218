CONSTANTS
  r0 = r0
  r1 = r1
  r2 = r2
  r3 = r3
  old0 = old0
  old = old
  Writers = {r1, r2, r3}
  LegacyWriters = {}
  Departed = {}
  CanCrash = {r1}
  InitialLock <- CleanStart
  MaxPolls = 1
SPECIFICATION Spec
INVARIANT MutualExclusion
CHECK_DEADLOCK FALSE
