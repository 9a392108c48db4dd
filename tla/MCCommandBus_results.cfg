SPECIFICATION Spec
CONSTANTS
  c1 = c1
  c2 = c2
  k1 = k1
  ops = ops
  ai = ai
  NoCommand = NoCommand
  Commands = {c1, c2}
  Clusters = {k1}
  Topics = {ops}
  Results = {"ok", "error"}
  Slots = {s1}
  Awaited = {c1, c2}
  Home <- HomeOneTopic
  Faults <- MasterFaults
SYMMETRY Symmetry
INVARIANTS TypeOK Truthful NoOrphanWaiter
PROPERTIES FinishedIsFinal ImplementsLifecycle
CHECK_DEADLOCK FALSE
