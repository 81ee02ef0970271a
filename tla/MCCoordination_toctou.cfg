SPECIFICATION Spec
CONSTANTS
  b1 = b1
  b2 = b2
  b3 = b3
  e1 = e1
  q1 = q1
  NoRun = NoRun
  Builders = {b1, b2}
  Exporters = {}
  Readers = {}
  Producer <- GenAndStep
  Forced = {}
  Bounded = {b2}
  Unlockable = {}
  Fallible = {}
  Mortal = {}
  SharedProbe = TRUE
  MaxEdits = 1
INVARIANTS
  FreshMeansBuiltFromSource
CHECK_DEADLOCK FALSE
