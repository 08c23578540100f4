\* Two app ids, one of them unknown to the installer; two server workers; the fair specification.
CONSTANTS
  lpr = lpr
  legacy = legacy
  w1 = w1
  w2 = w2
  Apps <- BothApps
  ServerIndex <- BothApps
  InstallerIndex <- OnlyLpr
  Workers = {w1, w2}
  MaxRequests = 2
  BackoffCap = 2
  MaxExponent = 1
SPECIFICATION FairSpec
INVARIANTS TypeOK AppliedUnlessRaced
PROPERTIES PromiseKept EventuallyApplied
