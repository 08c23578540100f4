\* Two segments, two uploads, the three attempts of the code scaled to two.
CONSTANTS
  Segments = {1, 2}
  MaxAttempts = 2
  MaxQueued = 2
SPECIFICATION FairSpec
INVARIANTS TypeOK Ledger WorkerServes KeptSomewhere RowsAreBacked
PROPERTIES QueuedIsSettled
