SPECIFICATION FairSpec
CONSTANTS
  r1 = r1
  r2 = r2
  a1 = a1
  a2 = a2
  None = None
  Threads = {r1, r2}
  Artifacts = {a1, a2}
  ArtifactOf <- OneArtifact
  Forced = {}
  Recycle = 1
  Quiet = TRUE
  MaxProcs = 8
  MaxFaults = 3
INVARIANTS
  TypeOK
  AnswersAreOwn
  OneCommitPerRequest
  NoLeakedWorkers
PROPERTIES
  EveryRequestReturns
CHECK_DEADLOCK FALSE
