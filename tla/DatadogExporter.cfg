SPECIFICATION Spec
CONSTANTS
  a = a
  b = b
  big = big
  open = open
  None = None
  Observations = {a, b, big, open}
  Ended <- AllEnded
  SizeOf <- Sizes
  BatchSize = 2
  MaxPayloadBytes = 3
  Callers = {c1, c2}
  Batches <- MixedBatches
  MaxRetries = 1
  MaxAccepted = 6
SYMMETRY CallerSymmetry
INVARIANTS
  TypeOK
  DrainMatchesQueue
  WithinLimits
PROPERTIES
  NilMeansDelivered
  LossIsReported
  ClosedIsSilent
  ImplementsQueue
