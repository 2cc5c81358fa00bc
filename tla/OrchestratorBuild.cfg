SPECIFICATION Spec
CONSTANTS
  EnvRefs = {"Dw", "dw", "src", "gone"}
  NoEnvRef = "no env"
  Lower <- LowerCase
  Sqls = {"exec p", "exec q", "select", "selec"}
  NoSql = "no sql"
  Procs = {"p", "q"}
  NoProc = "no proc"
  ExecOf <- BareExecs
  Malformed = {"selec"}
  Sources = {"dacpac", "live"}
  NoSource = "no source"
  Runs <- AllRuns
INVARIANTS GraphsAgree Explained FailuresStayLocal ExitCodeTruthful
