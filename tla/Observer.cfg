SPECIFICATION Spec
CONSTANTS
  None = None
  Callers = {c1, c2}
  Operations = {model_call}
  Streams = {stream}
  Events = {tool_event}
  Configs <- AllConfigs
  MaxEvents = 2
  MaxControls = 3
SYMMETRY CallerSymmetry
INVARIANTS
  TypeOK
  EveryObservationAccounted
  StreamsAreWhole
  LateHelpersAreInert
  OneShutdown
  AnswerIsKept
PROPERTIES
  ClosedExporterIsFrozen
