SPECIFICATION AiFairSpec
CONSTANTS
  c1 = c1
  c2 = c2
  k1 = k1
  ops = ops
  ai = ai
  NoCommand = NoCommand
  Commands = {c1, c2}
  Clusters = {k1}
  Topics = {ops, ai}
  Results = {"ok"}
  Slots = {s1}
  Awaited = {c2}
  Home <- HomeTwoTopics
  Faults <- ReportFaults
PROPERTIES TopicsDoNotBlock AiCallersReturn
CHECK_DEADLOCK FALSE
