SPECIFICATION Spec
CONSTANTS
  None = None
  f1 = f1
  f2 = f2
  s1 = s1
  s2 = s2
  recA = recA
  recB = recB
  Files = {f1, f2}
  Sids = {s1, s2}
  Records = {recA}
  Codex = TRUE
  Carries <- OwnSession
  MaxLen = 3
  MaxWrites = 3
  WorldOps = {"append", "create"}
  Requests <- Strict
  ColdIds = {}
  TornScan = TRUE
  Faulty = FALSE
INVARIANTS
  FreshMeansSearchable
