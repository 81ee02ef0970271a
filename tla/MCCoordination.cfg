SPECIFICATION Spec
CONSTANTS
  b1 = b1
  b2 = b2
  b3 = b3
  e1 = e1
  q1 = q1
  NoRun = NoRun
  Builders = {b1, b2, b3}
  Exporters = {e1}
  Readers = {q1}
  Producer <- GenAndStep3
  Forced = {}
  Bounded = {b2}
  Unlockable = {b3}
  Fallible = {}
  Mortal = {b1}
  SharedProbe = TRUE
  MaxEdits = 0
INVARIANTS
  TypeOK
  MutualExclusion
  StampNamesHolder
  HolderOwnsRecord
PROPERTIES
  BarIsNeverALivePeers
