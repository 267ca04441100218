SPECIFICATION Spec
CONSTANTS
  None = None
  f1 = f1
  f2 = f2
  s1 = s1
  s2 = s2
  recA = recA
  recB = recB
  Files = {f1, f2}
  Sids = {s1, s2}
  Records = {recA}
  Codex = TRUE
  Carries <- AnySession
  MaxLen = 2
  MaxWrites = 4
  WorldOps = {"create", "remove", "touch"}
  Requests <- NoPrune
  ColdIds = {}
  TornScan = FALSE
  Faulty = FALSE
INVARIANT OneSourceFile
