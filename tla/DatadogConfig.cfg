SPECIFICATION Spec
CONSTANTS
  Supplies <- AllSupplies
  Defaults <- SmallDefaults
  Urls <- SomeUrls
  Sites = {"datadoghq.com", "datadoghq.eu"}
  MaxInt = 1023
INVARIANTS
  TypeOK
  ExplicitIsStable
  DelaysWithinCap
  ValidatedMeansAccepted
CHECK_DEADLOCK FALSE
