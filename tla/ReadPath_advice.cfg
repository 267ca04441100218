CONSTANTS
  None = None
  Sources <- MCSources
  DefaultSource = "codex"
  AllSources = "all"
  Unknown = "unknown"
  Refused = Refused
  Blank = Blank
  BadDate = BadDate
  Dot = "."
  DotDot = ".."
  NotUtf8 <- MCNotUtf8
  DefaultRoots <- MCDefaultRoots
  IndexVersion = 1
  CaseFold <- MCCaseFold
  SessionsDir = "sessions"
  MaxForms = 3
  RelaxedTerms = 2
  RelevanceMultiplier = 2
  TimeMultiplier = 1
  RerankMultiplier = 2
  MinCandidates = 2
  NameOrder <- MCNameOrder
  Source = "codex"
  Paths <- MCPaths
  DateOf <- MCDateOf
  Cwds = {"here", "there"}
  Found <- MCFound
  Scopes <- MCScopes
  FindArgs <- MCFindArgs
  MaxWrites = 1
  MaxSyncs = 2
  MaxReads = 1
  PageSize = 1
  SampleFiles <- MCSampleFiles
  SampleScopes <- MCSampleScopes
  SampleFinds <- MCSampleFinds
  SampleLists <- MCSampleLists
  SampleCandidates <- MCSampleCandidates
  SampleDocs <- MCSampleDocs
  SampleTexts <- MCSampleTexts
  SampleLimits = {0, 1, 3}
  Env <- MCRoot
  Internal = {"judge"}
  Injected = {"<env>"}
  MaxUnique = 2
  SampleRollouts <- MCSampleRollouts
  SampleNames <- MCSampleNames
  SampleTranscripts <- MCSampleTranscripts
SPECIFICATION LawsSpec
INVARIANT AdviceNeedsProof
CHECK_DEADLOCK FALSE
