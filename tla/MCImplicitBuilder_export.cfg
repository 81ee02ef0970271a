SPECIFICATION Spec
CONSTANTS
  b1 = b1
  b2 = b2
  b3 = b3
  None = None
  Half = Half
  Builders = {b1, b2, b3}
  Exporting = {b1, b3}
  Forced = {}
  Mortal = {}
  Cells = 4
  MaxThreads = 1
  ChunksPerWorker = 2
PROPERTY
  ExportIsOfThePackage
CHECK_DEADLOCK FALSE
