----------------------- MODULE MCOrchestratorLineage -----------------------
(* Small runs for TLC. *)
EXTENDS OrchestratorLineage

\* "Dw" and "dw" are one environment to the map and two to the cache.
LowerCase == [e \in EnvRefs |-> IF e = "Dw" THEN "dw" ELSE e]
BareExecs == [s \in Sqls |-> CASE s = "exec p" -> "p" [] s = "exec q" -> "q" [] OTHER -> NoProc]
EnvMap == [e \in EnvRefs |-> CASE e = "dw" -> "dacpac" [] e = "src" -> "live" [] OTHER -> NoSource]

Act(sql, env) == [sql |-> sql, env |-> env]
Holding(holds) == [kind |-> "adf", can_read |-> "yes", readable |-> TRUE, holds |-> holds]
Run(files, type, ok, formats) ==
  [files |-> files, artifact_type |-> type, env_map_ok |-> ok, env_map |-> EnvMap,
   formats |-> formats]

-----------------------------------------------------------------------------
\* Three activities in two pipelines: every combination of texts and references,
\* with one of each that cannot be analysed.
Activities ==
  {Act(s, e) : s \in {"exec p", "select"}, e \in {"Dw", "dw", "src"}}
    \cup {Act("exec q", "dw"), Act("selec", "dw"), Act("exec p", "gone"),
          Act("exec p", NoEnvRef), Act(NoSql, "dw")}

ActivityRuns ==
  {Run(<<Holding(<<<<a, b>>, << >>, <<c>>>>)>>, "auto", TRUE, {"json"}) :
     a \in Activities, b \in Activities, c \in Activities}

-----------------------------------------------------------------------------
\* Up to three files of every kind, with every format and type of artifact.
SomeFiles ==
  {[kind |-> k, can_read |-> c, readable |-> r, holds |-> h] :
     k \in {"adf", "airflow", "other"}, c \in {"yes", "no"}, r \in BOOLEAN,
     h \in {<< >>, <<<<Act("exec p", "dw")>>>>}}
  \cup {[kind |-> "adf", can_read |-> "raises", readable |-> TRUE, holds |-> << >>]}

FileRuns ==
  {Run(<<f, g, Holding(<<<<Act("select", "src")>>, << >>>>)>>, t, ok, {"json", "html"}) :
     f \in SomeFiles, g \in SomeFiles, t \in {"adf", "airflow", "auto"}, ok \in BOOLEAN}
  \cup {Run(<<f, g>>, "auto", TRUE, fs) : f \in SomeFiles, g \in SomeFiles, fs \in SUBSET Formats}
  \cup {Run(<< >>, "auto", TRUE, {"json"})}

AllRuns == ActivityRuns \cup FileRuns
=============================================================================
