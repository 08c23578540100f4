\* One request at a time, and days.
CONSTANTS
  Targets = {t1}
  MaxReconnect = 0
  MaxBoots = 0
  Requests = {r1}
  AsyncJobs = {}
  Limits = {1}
  Quotas = {2}
  Threshold = 2
  RetryLimit = 2
  MaxCrashes = 0
  Libraries <- SmallLibraries
  Horizon = 1
  Creators = {k1}
  Ids = {i1}
  MaxSessions = 1
  MaxResults = 0
  Calls = {p1}
  MaxConnections = 1
SPECIFICATION ServicesSpec
PROPERTIES RefusedForToday
CHECK_DEADLOCK FALSE
