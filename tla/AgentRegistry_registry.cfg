SPECIFICATION FairSpec
CONSTANTS
  Clusters = {a}
  Faults = {"restart", "slow"}
  Expire = 2
  CheckEvery = 1
  WipeAfter = 5
  MaxFailures = 1
  MaxRestarts = 1
INVARIANT TypeOK
PROPERTIES NoFalseAlarm RecoveryIsAlive WipedIsAlerted ConnectedIsOnline ChangesAreTold
