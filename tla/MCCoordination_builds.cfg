SPECIFICATION FairSpec
CONSTANTS
  b1 = b1
  b2 = b2
  b3 = b3
  e1 = e1
  q1 = q1
  NoRun = NoRun
  Builders = {b1, b2, b3}
  Exporters = {}
  Readers = {}
  Producer <- GenAndStep3
  Forced = {}
  Bounded = {b2}
  Unlockable = {}
  Fallible = {b1}
  Mortal = {b1}
  SharedProbe = TRUE
  MaxEdits = 2
INVARIANTS
  OpenRecordsExplained
  NoDuplicateBuild
PROPERTIES
  EveryRunReturns
  BuildsAreSerial
CHECK_DEADLOCK FALSE
