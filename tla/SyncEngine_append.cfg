SPECIFICATION Spec
CONSTANTS
  None = None
  f1 = f1
  f2 = f2
  s1 = s1
  s2 = s2
  recA = recA
  recB = recB
  Files = {f1, f2}
  Sids = {s1, s2}
  Records = {recA, recB}
  Codex = TRUE
  Carries <- OwnSession
  MaxLen = 2
  MaxWrites = 4
  WorldOps = {"append", "create", "replace", "remove"}
  Requests <- PruneOrBest
  ColdIds = {s2}
  TornScan = FALSE
  Faulty = TRUE
INVARIANTS
  IncrementalIsFullReplay
  FreshMeansSearchable
PROPERTIES
  KeepsHistory
