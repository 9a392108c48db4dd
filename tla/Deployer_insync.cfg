SPECIFICATION Spec
CONSTANTS
  Paths = {p1, p2}
  Poll = poll
  Outer = {p1}
  MaxCommits = 2
  MaxRequests = 1
  MaxFaults = 1
CHECK_DEADLOCK FALSE
INVARIANTS SyncedIsCurrent
