SPECIFICATION FairSpec
CONSTANTS
  p = p
  m = m
  Nothing = Nothing
  Packages = {p}
  Plain = {m}
  MaxEdits = 1
  MaxFaults = 2
  TornScans = FALSE
INVARIANTS
  TypeOK
  NoStaleGeometry
  LoadingIsRunning
  ReferencesAreLoading
PROPERTIES
  SelectedIsShown
  ReferencesSettle
