SPECIFICATION FetchFairSpec
CONSTANTS
  c1 = c1
  c2 = c2
  k1 = k1
  ops = ops
  ai = ai
  NoCommand = NoCommand
  Commands = {c1, c2}
  Clusters = {k1}
  Topics = {ops}
  Results = {"ok"}
  Slots = {s1, s2}
  Awaited = {}
  Home <- HomeOneTopic
  Faults <- PollFaults
INVARIANTS AtMostOnce ExecutedInOrder
PROPERTY QueuedIsFetched
CHECK_DEADLOCK FALSE
