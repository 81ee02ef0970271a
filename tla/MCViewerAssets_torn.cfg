SPECIFICATION FairSpec
CONSTANTS
  p = p
  m = m
  Nothing = Nothing
  Packages = {p}
  Plain = {}
  MaxEdits = 1
  MaxFaults = 0
  TornScans = TRUE
PROPERTIES
  SelectedIsShown
