SPECIFICATION HarnessSpec
CONSTANTS
  Script <- MCSyncScript
  Repeats = 0
  MaxNoise = 0
  MaxGiveUps = 0
  ListTries = 1
INVARIANT SyncedBeforeSnapshot
CHECK_DEADLOCK FALSE
