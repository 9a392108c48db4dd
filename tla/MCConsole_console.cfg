SPECIFICATION FairSpec
CONSTANTS
  c1 = c1
  c2 = c2
  None = None
  Clusters <- MCClusters
  Lists <- MCLists
  Pages <- MCPages
  Items = {i1, i2}
  Filters = {all, some}
  NoFilter = all
  MaxEvents = 3
INVARIANTS TypeOK ShownIsCurrent DetailMatchesTitle CommandsMatch
PROPERTIES CatchesUp SpinnersEnd
CHECK_DEADLOCK FALSE
