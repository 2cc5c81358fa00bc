SPECIFICATION Spec
CONSTANTS
  None = None
  Names <- AllNames
  Objects <- AllObjects
  Bodies <- AllBodies
  Dacpacs <- AllDacpacs
  Requests <- AllRequests
INVARIANTS
  CitationsExact CteCitationsWarned FailuresStayLocal JoinsExact ExitCodeTruthful
CHECK_DEADLOCK FALSE
