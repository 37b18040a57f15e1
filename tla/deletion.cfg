SPECIFICATION ProvisionedFairSpec
CONSTANTS
  None = None
  PolicyName <- ShortName
  ClassNames = {"gold", "silver", "keys"}
  Crons = {"daily", "hourly", "weekly"}
  Specs <- JustBucketOnly
  Defaults <- NoBucketClass
  Buckets = {b1}
  Endpoints = {e1}
  Passwords = {p1, p2}
  DriverOutputs <- OnlyUsable
  RestoredSecrets <- NoSecrets
  Cascades = {"foreground", "background"}
  Refusals = {}
  MaxIncarnations = 1
  MaxGeneration = 1
  Controllers = {c1}
  MaxFaults = 0
PROPERTIES
  NothingComesBack
  DeletionCompletes
  NothingOutlivesThePolicy
CHECK_DEADLOCK FALSE
