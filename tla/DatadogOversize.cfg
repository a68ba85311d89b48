SPECIFICATION Spec
CONSTANTS
  a = a
  b = b
  big = big
  open = open
  None = None
  Observations = {a, b, big, open}
  Ended <- AllEnded
  SizeOf <- Sizes
  BatchSize = 2
  MaxPayloadBytes = 3
  Callers = {c1}
  Batches <- LargeBatches
  MaxRetries = 0
  MaxAccepted = 2
PROPERTIES
  LossSaysDropped
