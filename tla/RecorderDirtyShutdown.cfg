SPECIFICATION Spec
CONSTANTS
  a = a
  None = None
  Threads = {t1, t2}
  Spans = {a}
  Batches <- OneSpan
  Configs <- PlainExporter
  ErrorHistorySize = 2
  InjectedClasses = {"transport", "status", "injected_failure"}
  MaxCalls <- ManyCalls
  MaxEpoch = 1
SYMMETRY ThreadSymmetry
INVARIANTS
  ShutdownFailureStaysDirty
