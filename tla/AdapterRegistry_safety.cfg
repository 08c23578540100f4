\* One name registered at most twice, two keys, the poll loop and a refresh request.
CONSTANTS
  yolo = yolo
  gpu = gpu
  egress = egress
  p = p
  q = q
  poll = poll
  m1 = m1
  m2 = m2
  s1 = s1
  NoPrint = NoPrint
  Poller = poll
  Names <- OneName
  Keys <- BothKeys
  Forbidden <- NoKeys
  Prints <- NoKeys
  Manual = {m1}
  Streams = {}
  Threshold = 1
  MaxObjs = 2
  MaxChanges = 2
SPECIFICATION Spec
INVARIANTS TypeOK GrantedIsDeclared
PROPERTIES NewScopeNeedsConsent NarrowingKeepsServing
\* With MaxObjs registrations and MaxChanges changes used up nothing may be left to do.
CHECK_DEADLOCK FALSE
SYMMETRY KeySymmetry
