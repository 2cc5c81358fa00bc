SPECIFICATION Spec
CONSTANTS
  Nothing = Nothing
  Ids = {"a", "b", "c", "z"}
  EnvRefs = {"c"}
  Vars = {"x", "y", "z"}
  Files <- AllFiles
INVARIANTS EveryActivityOnce Explained TasksAgree RightChainsExact
CHECK_DEADLOCK FALSE
