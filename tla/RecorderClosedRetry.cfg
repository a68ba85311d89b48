SPECIFICATION Spec
CONSTANTS
  a = a
  None = None
  Threads = {t1}
  Spans = {a}
  Batches <- OneSpan
  Configs <- RetryingExporter
  ErrorHistorySize = 2
  InjectedClasses = {"transport", "status", "injected_failure"}
  MaxCalls <- ManyCalls
  MaxEpoch = 1
SYMMETRY ThreadSymmetry
PROPERTIES
  ClosedAcceptsNothing
