SPECIFICATION FairSpec
CONSTANTS
  None = None
  PolicyName <- ShortName
  ClassNames = {"gold", "silver", "keys"}
  Crons = {"daily", "hourly", "weekly"}
  Specs <- BothModes
  Defaults <- NoBucketClass
  Buckets = {b1}
  Endpoints = {e1}
  Passwords = {p1}
  DriverOutputs <- OnlyUsable
  RestoredSecrets <- NoSecrets
  Cascades = {}
  Refusals = {"claim", "access"}
  MaxIncarnations = 1
  MaxGeneration = 2
  Controllers = {c1}
  MaxFaults = 1
INVARIANTS
  NoWakeUpIsLost
PROPERTIES
  Converges
  BucketOnlyDropsSchedule
  RefusalIsReported
CHECK_DEADLOCK FALSE
