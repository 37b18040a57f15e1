SPECIFICATION ProvisionedSpec
CONSTANTS
  None = None
  PolicyName <- ShortName
  ClassNames = {"gold", "silver", "keys"}
  Crons = {"daily", "hourly", "weekly"}
  Specs <- JustDaily
  Defaults <- NoBucketClass
  Buckets = {b1}
  Endpoints = {e1}
  Passwords = {p1, p2}
  DriverOutputs <- OnlyUsable
  RestoredSecrets <- NoSecrets
  Cascades = {"background"}
  Refusals = {}
  MaxIncarnations = 2
  MaxGeneration = 1
  Controllers = {c1}
  MaxFaults = 0
INVARIANTS
  PasswordIsNeverRewritten
CHECK_DEADLOCK FALSE
