SPECIFICATION ProvisionedSpec
CONSTANTS
  None = None
  PolicyName <- ShortName
  ClassNames = {"gold", "silver", "keys"}
  Crons = {"daily", "hourly", "weekly"}
  Specs <- JustDaily
  Defaults <- NoBucketClass
  Buckets = {b1}
  Endpoints = {e1}
  Passwords = {p1, p2}
  DriverOutputs <- OnlyUsable
  RestoredSecrets <- Unlabelled
  Cascades = {"background"}
  Refusals = {}
  MaxIncarnations = 1
  MaxGeneration = 1
  Controllers = {c1}
  MaxFaults = 1
PROPERTIES
  PasswordIsARegister
SYMMETRY Symmetry
CHECK_DEADLOCK FALSE
