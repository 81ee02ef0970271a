SPECIFICATION Spec
CONSTANTS
  p1 = p1
  p2 = p2
  v1 = v1
  v2 = v2
  own = own
  shared = shared
  Nothing = Nothing
  Processes = {p1, p2}
  Contents = {v1, v2}
  Components = {own, shared}
  ComponentsOf <- MCComponentsOf
  Meshes = {1}
  Builders = {p1}
  Generated = FALSE
INVARIANTS
  TypeOK
  DescriptorIsComplete
  ServedSelectorsMatch
PROPERTIES
  GarbageIsCollected
