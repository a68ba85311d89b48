SPECIFICATION Spec
CONSTANTS
  Correlations <- OneCorrelation
  ToolCallIDs = {""}
  AGUIIDs <- NoAGUI
  Operations = {""}
  Indexes = {0}
  Latencies <- NoLatencies
  Usages <- NoUsage
  Classes = {""}
  SettledErrors <- NoSettledErrors
  Causes <- NoCauses
  Times = {1, 2}
  MaxContexts = 2
  MaxMade = 1
  MaxRuns = 1
  MaxEvents = 1
INVARIANT RunHasItsOwnId
CHECK_DEADLOCK FALSE
