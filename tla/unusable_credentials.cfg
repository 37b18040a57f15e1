SPECIFICATION ProvisionedFairSpec
CONSTANTS
  None = None
  PolicyName <- ShortName
  ClassNames = {"gold", "silver", "keys"}
  Crons = {"daily", "hourly", "weekly"}
  Specs <- BothModes
  Defaults <- NoBucketClass
  Buckets = {b1}
  Endpoints = {e1}
  Passwords = {p1, p2}
  DriverOutputs <- OnlyIncomplete
  RestoredSecrets <- NoSecrets
  Cascades = {}
  Refusals = {}
  MaxIncarnations = 1
  MaxGeneration = 1
  Controllers = {c1}
  MaxFaults = 1
PROPERTIES
  UnusableCredentialsAreReported
CHECK_DEADLOCK FALSE
