SPECIFICATION FairSpec
CONSTANTS
  a = a
  b = b
  big = big
  open = open
  None = None
  Observations = {a, b, big, open}
  Ended <- AllEnded
  SizeOf <- Sizes
  BatchSize = 2
  MaxPayloadBytes = 3
  Callers = {c1, c2}
  Batches <- TwoRequests
  MaxRetries = 1
  MaxAccepted = 2
PROPERTIES
  EveryCallReturns
