SPECIFICATION ProvisionedFairSpec
CONSTANTS
  None = None
  PolicyName <- ShortName
  ClassNames = {"gold", "silver", "keys"}
  Crons = {"daily", "hourly", "weekly"}
  Specs <- BothModes
  Defaults <- NoBucketClass
  Buckets = {b1}
  Endpoints = {e1, e2}
  Passwords = {p1}
  DriverOutputs <- OnlyUsable
  RestoredSecrets <- NoSecrets
  Cascades = {}
  Refusals = {}
  MaxIncarnations = 1
  MaxGeneration = 3
  Controllers = {c1}
  MaxFaults = 1
PROPERTIES
  RotationArrives
  PasswordIsARegister
CHECK_DEADLOCK FALSE
