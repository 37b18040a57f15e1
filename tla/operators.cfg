SPECIFICATION Spec
CONSTANTS
  ClassNames = {"gold", "silver", "keys", "locks"}
  Crons = {"hourly", "daily", "@daily-random", "@weekly-random"}
  SpecInputs <- Specs
  DefaultsInputs <- Defaults
  Characters = {"x", "y"}
  PolicyNames <- LongAndShort
  Counts = {1, 5}
  NameLengths = {1, 225, 226, 227, 234, 235, 236, 237, 238, 245, 246, 247, 252, 253}
INVARIANTS
  RetentionIsHonoured
  OverridesPrevail
  ShippedDefaultsAreSafe
  ObjectNamesFit
  PoliciesShareNothing
