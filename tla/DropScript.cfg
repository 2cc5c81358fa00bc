SPECIFICATION Spec
CONSTANTS
  Names <- Spellings
  Lower <- Folded
  Inputs <- Everything
  Crashes = TRUE
INVARIANTS ScriptIsTheDifference ScriptIsWhatIsReported EndsCleanly
