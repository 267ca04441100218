SPECIFICATION FairSpec
CONSTANTS
  c1 = c1
  c2 = c2
  r1 = r1
  Cmds = {c1, c2}
  Roots = {r1}
  Legacy <- MCLegacy
  MaxDirs = 2
  MaxEdits = 1
  MaxOldCalls = 2
  MaxFaults = 1
  MaxDays = 1
  MaxEvents = 4
INVARIANTS TypeOK FenceBeforeV8 RegistryAsOwed WholeIndex BackupRemains
PROPERTIES FenceIsPermanent Settles
