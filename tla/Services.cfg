\* Two targets; two requests and a job; two playback sessions of two creators;
\* two results of an adapter; three publishes at a time.
CONSTANTS
  Targets = {t1, t2}
  MaxReconnect = 2
  MaxBoots = 1
  Requests = {r1, r2}
  AsyncJobs = {j1}
  Limits = {1, 2}
  Quotas = {2, 4}
  Threshold = 2
  RetryLimit = 2
  MaxCrashes = 1
  Libraries <- SmallLibraries
  Horizon = 8
  Creators = {k1, k2}
  Ids = {i1, i2, i3, i4}
  MaxSessions = 2
  MaxResults = 2
  Calls = {p1, p2, p3}
  MaxConnections = 3
SPECIFICATION ServicesSpec
INVARIANTS
  ServicesTypeOK StreamsAsAsked SlotsAccounted FailuresInARow PlaylistIsWhole
  ResourcesAreTracked
PROPERTIES OnlyRestartsLeaveStrays NothingHangs
\* A session, or a publisher that has been closed and has used its connections, is over.
CHECK_DEADLOCK FALSE
