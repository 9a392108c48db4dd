SPECIFICATION FairSpec
CONSTANTS
  Entities = {e1}
  Faults = {}
  WarnAfter = 1
  HealAfter = 2
  EscalateAfter = 2
  RecoverAfter = 3
  StaleAfter = 4
  StableAfter = 5
  NoEntity = NoEntity
  MaxIncidents = 1
  MaxRestarts = 0
PROPERTY RecoveryEnds
