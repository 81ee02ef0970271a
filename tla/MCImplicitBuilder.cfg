SPECIFICATION FairSpec
CONSTANTS
  b1 = b1
  b2 = b2
  b3 = b3
  None = None
  Half = Half
  Builders = {b1, b2}
  Exporting = {b1}
  Forced = {}
  Mortal = {b1}
  Cells = 4
  MaxThreads = 2
  ChunksPerWorker = 2
INVARIANTS
  TypeOK
  BarrierHolds
  MeshIsSerial
  ProgressIsExact
  DescriptorMatchesPayload
  NoBuilderOutlivesTheLock
PROPERTIES
  EveryBuildEnds
CHECK_DEADLOCK FALSE
