SPECIFICATION FairSpec
CONSTANTS
  Entities = {e1}
  Faults = {"restart", "database"}
  WarnAfter = 1
  HealAfter = 2
  EscalateAfter = 2
  RecoverAfter = 3
  StaleAfter = 4
  StableAfter = 5
  NoEntity = NoEntity
  MaxIncidents = 2
  MaxRestarts = 2
INVARIANTS TypeOK OpenIsTracked
PROPERTIES SustainedRisk StableIsFinal GoneIsClosed
