SPECIFICATION Spec
CONSTANTS
  NoName = NoName
  DefaultMaxSummaryBytes = 3
  MaxNameBytes = 2
  MaxMapEntries = 2
  CanonicalOrder <- Lexical
  Supplies <- OneTool
  ObserverOptions <- HelperOptions
  ExporterOptions <- SinkOptions
INVARIANT
  EnabledSummaryKeepsName
CHECK_DEADLOCK FALSE
