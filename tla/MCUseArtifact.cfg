SPECIFICATION FairSpec
CONSTANTS
  t1 = t1
  p1 = p1
  Tabs = {t1}
  Peers = {p1}
  Nobody = Nobody
  MaxEffects = 2
  MaxRequests = 2
  MaxEdits = 1
  Exporter = Exporter
  MaxEvents = 3
INVARIANTS
  TypeOK
  LoadingIsWatched
  ReadyIsNotStale
PROPERTIES
  LoadingEnds
  PostsAreServed
CHECK_DEADLOCK FALSE
