SPECIFICATION FairSpec
CONSTANTS
  t1 = t1
  p1 = p1
  Tabs = {t1}
  Peers = {p1}
  Nobody = Nobody
  MaxEffects = 1
  MaxRequests = 3
  MaxEdits = 0
  Exporter = Exporter
  MaxEvents = 2
PROPERTIES
  PostsNeverBlock
CHECK_DEADLOCK FALSE
