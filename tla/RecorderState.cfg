SPECIFICATION Spec
CONSTANTS
  a = a
  None = None
  Threads = {t1, t2}
  Spans = {a}
  Batches <- EmptyOrTwo
  Configs <- AllConfigs
  ErrorHistorySize = 2
  InjectedClasses = {"transport", "status", "injected_failure"}
  MaxCalls <- ManyCalls
  MaxEpoch = 1
SYMMETRY ThreadSymmetry
INVARIANTS
  TypeOK
  EveryStampAccounted
  NoStampTwice
  ErrorHistoryExact
  CapacityRespected
  UnfinishedIsDirty
  ShutdownErrorMeansShutdown
PROPERTIES
  NilMeansDelivered
  ImplementsLedger
