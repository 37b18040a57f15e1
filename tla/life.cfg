SPECIFICATION Spec
CONSTANTS
  None = None
  PolicyName <- ShortName
  ClassNames = {"gold", "silver", "keys"}
  Crons = {"daily", "hourly", "weekly"}
  Specs <- AllSpecs
  Defaults <- NoBucketClass
  Buckets = {b1}
  Endpoints = {e1}
  Passwords = {p1, p2}
  DriverOutputs <- AnyOutput
  RestoredSecrets <- OddSecrets
  Cascades = {}
  Refusals = {}
  MaxIncarnations = 1
  MaxGeneration = 2
  Controllers = {c1}
  MaxFaults = 1
INVARIANTS
  TypeOK
  RepositoryReadableInFirstLife
  StatusTellsTheSpecInFirstLife
  CoordinatesAreReal
  ReadyMeansProvisioned
  RejectedProvisionsNothing
  NoWakeUpIsLost
PROPERTIES
  ContractIsKept
SYMMETRY Symmetry
CHECK_DEADLOCK FALSE
