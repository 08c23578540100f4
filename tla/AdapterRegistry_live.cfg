\* A refused key, two fingerprints, a session, the fair poll loop and a refresh request that may stall.
CONSTANTS
  yolo = yolo
  gpu = gpu
  egress = egress
  p = p
  q = q
  poll = poll
  m1 = m1
  m2 = m2
  s1 = s1
  NoPrint = NoPrint
  Poller = poll
  Names <- OneName
  Keys <- OneKey
  Forbidden <- OneKey
  Prints <- TwoPrints
  Manual = {m1}
  Streams = {s1}
  Threshold = 2
  MaxObjs = 1
  MaxChanges = 2
SPECIFICATION FairSpec
INVARIANTS SovereignLive FingerprintFollows
PROPERTIES PollConverges
\* With MaxObjs registrations and MaxChanges changes used up nothing may be left to do.
CHECK_DEADLOCK FALSE
