\* A client that goes on reading and one that may stall, queues of two events,
\* two kinds of event.
CONSTANTS
  c1 = c1
  c2 = c2
  a = a
  b = b
  Clients = {c1, c2}
  Prompt = {c1}
  Kinds = {a, b}
  QueueSize = 2
  MaxEvents = 4
  MaxVisits = 1
SPECIFICATION FairSpec
INVARIANTS TypeOK Accounted
PROPERTIES FeedSpec PromptIsServed
\* After the last event and visit nothing is left to do.
CHECK_DEADLOCK FALSE
