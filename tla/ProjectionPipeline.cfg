SPECIFICATION FairSpec
CONSTANTS
  N = 6
  WorkerCount = 2
INVARIANTS
  TypeOK
  NoInputTwice
  NoInputLost
PROPERTIES
  ImplementsParallelMap
  Terminates
