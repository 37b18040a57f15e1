SPECIFICATION ProvisionedFairSpec
CONSTANTS
  None = None
  PolicyName <- ShortName
  ClassNames = {"gold", "silver", "keys"}
  Crons = {"daily", "hourly", "weekly"}
  Specs <- TwoClasses
  Defaults <- NoBucketClass
  Buckets = {b1}
  Endpoints = {e1}
  Passwords = {p1, p2}
  DriverOutputs <- OnlyUsable
  RestoredSecrets <- NoSecrets
  Cascades = {}
  Refusals = {}
  MaxIncarnations = 1
  MaxGeneration = 2
  Controllers = {c1}
  MaxFaults = 0
PROPERTIES
  ClassEditIsHonoured
CHECK_DEADLOCK FALSE
