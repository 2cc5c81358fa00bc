SPECIFICATION FairSpec
CONSTANTS
  None = None
  Names <- AllNames
  Objects <- AllObjects
  Bodies <- AllBodies
INVARIANTS SourcesExact MissingIsWarned StatementsInOrder JoinPairsKept RaisesOnlyOnReusedAlias
PROPERTY Termination
CHECK_DEADLOCK FALSE
