\* One model, two stop requests in flight, at most four loops.
CONSTANTS
  m1 = m1
  m2 = m2
  s1 = s1
  s2 = s2
  Models = {m1}
  Stoppers = {s1, s2}
  MaxTasks = 4
SPECIFICATION FairSpec
INVARIANTS TypeOK TrackedUnlessRaced
PROPERTIES StopsComplete
\* After stop_all the process is gone.
CHECK_DEADLOCK FALSE
