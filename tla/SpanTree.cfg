SPECIFICATION Spec
CONSTANTS
  Correlations <- SomeCorrelations
  ToolCallIDs <- SomeIDs
  AGUIIDs <- SomeAGUI
  Operations = {"", "shell"}
  Indexes = {0, 1}
  Latencies <- SomeLatencies
  Usages <- SomeUsage
  Classes <- SomeClasses
  SettledErrors <- SomeSettledErrors
  Causes <- SomeCauses
  Times = {1, 2}
  MaxContexts = 3
  MaxMade = 1
  MaxRuns = 1
  MaxEvents = 2
INVARIANTS
  TypeOK
  SatisfiesSchema
  StreamTellsOneStory
  ErrorFieldsAgree
  IdentitiesAgree
  PayloadKeepsObservation
CHECK_DEADLOCK FALSE
