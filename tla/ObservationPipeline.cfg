SPECIFICATION Spec
CONSTANTS
  NoName = NoName
  DefaultMaxSummaryBytes = 3
  MaxNameBytes = 2
  MaxMapEntries = 2
  CanonicalOrder <- Lexical
  Supplies <- AllSupplies
  ObserverOptions <- HelperOptions
  ExporterOptions <- SinkOptions
INVARIANTS
  TypeOK
  TextsAreLongestPrefixes
  EveryItemAccounted
  FirstEntriesKept
  NothingForbidden
PROPERTIES
  SecondPassChangesNothing
CHECK_DEADLOCK FALSE
