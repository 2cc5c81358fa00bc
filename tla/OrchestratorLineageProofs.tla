-------------------- MODULE OrchestratorLineageProofs --------------------
(* Theorems about the orchestrator build, for any files, environments, SQL *)
(* texts and outcomes of the inner lineage build.                          *)
EXTENDS OrchestratorLineage, TLAPS

LEMMA NoGidIsNoGid == NoGid \notin Gid
<1>1. \A g \in Gid : Len(g) = 2
  BY DEF Gid
<1> QED
  BY <1>1 DEF NoGid

\* The activity about to be analysed is one.
LEMMA HereType ==
  ASSUME TypeOK, InPipeline
  PROVE  Here \in Activity /\ at[1] \in DOMAIN pipelines /\ at[2] \in DOMAIN pipelines[at[1]]
<1>1. pipelines \in Seq(Pipeline) /\ at[1] \in Nat \ {0} /\ at[2] \in Nat \ {0}
  BY DEF TypeOK, Position
<1>2. at[1] \in DOMAIN pipelines
  BY <1>1 DEF InPipeline
<1>3. pipelines[at[1]] \in Seq(Activity)
  BY <1>1, <1>2 DEF Pipeline
<1>4. at[2] \in DOMAIN pipelines[at[1]]
  BY <1>1, <1>3 DEF InPipeline
<1> QED
  BY <1>2, <1>3, <1>4 DEF Here

LEMMA SourceType ==
  ASSUME TypeOK, NEW e \in EnvRefs PROVE SourceOf(e) \in Sources \cup {NoSource}
BY RunsAssumption DEF TypeOK, RunType, SourceOf

LEMMA AnalysableType ==
  ASSUME TypeOK, Analysable
  PROVE  /\ Here.sql \in Sqls /\ Here.env \in EnvRefs /\ GidOf(Here) \in Gid
         /\ SourceOf(Here.env) \in Sources /\ ExecOf[Here.sql] \in Procs \cup {NoProc}
<1>1. Here.sql \in Sqls /\ Here.env \in EnvRefs
  BY HereType DEF Analysable, Activity
<1> QED
  BY <1>1, SourceType, RunsAssumption DEF Analysable, GidOf, Gid

\* One activity recorded: the shape of every analysis step.
LEMMA RecordTyped ==
  ASSUME TypeOK, NEW gid \in Gid \cup {NoGid}, NEW w \in SUBSET ActivityWarning,
         Record(gid, w)
  PROVE  /\ at' \in Position /\ DOMAIN updated' \subseteq Position
         /\ \A q \in DOMAIN updated' : updated'[q] \in Result
<1>1. at \in Position /\ at' = <<at[1], at[2] + 1>>
      /\ updated' = Put(updated, at, [gid |-> gid, warnings |-> w])
  BY DEF TypeOK, Record
<1>2. at' \in Position
  BY ONLY <1>1 DEF Position
<1>3. [gid |-> gid, warnings |-> w] \in Result
  BY DEF Result
<1>4. DOMAIN updated \subseteq Position /\ \A q \in DOMAIN updated : updated[q] \in Result
  BY DEF TypeOK
<1>5. PICK v \in Result : updated' = Put(updated, at, v)
  BY <1>1, <1>3
<1>6. /\ DOMAIN updated' = DOMAIN updated \cup {at}
      /\ updated'[at] = v
      /\ \A q \in DOMAIN updated : q # at => updated'[q] = updated[q]
  BY ONLY <1>5 DEF Put
<1> QED
  BY ONLY <1>1, <1>2, <1>4, <1>6

LEMMA CachedTyped ==
  ASSUME TypeOK, Analysable, NEW p \in Procs \cup {NoProc},
         Cached([source |-> SourceOf(Here.env), proc |-> p, owner |-> at])
  PROVE  /\ DOMAIN graph_cache' \subseteq Gid
         /\ \A g \in DOMAIN graph_cache' : graph_cache'[g] \in Graph
<1>1. [source |-> SourceOf(Here.env), proc |-> p, owner |-> at] \in Graph
  BY AnalysableType DEF Graph, TypeOK
<1>2. GidOf(Here) \in Gid
  BY AnalysableType
<1>3. /\ DOMAIN graph_cache \subseteq Gid /\ \A g \in DOMAIN graph_cache : graph_cache[g] \in Graph
      /\ graph_cache' = Put(graph_cache, GidOf(Here),
                            [source |-> SourceOf(Here.env), proc |-> p, owner |-> at])
  BY DEF TypeOK, Cached
<1>4. PICK v \in Graph, g \in Gid : graph_cache' = Put(graph_cache, g, v)
  BY <1>1, <1>2, <1>3
<1>5. /\ DOMAIN graph_cache' = DOMAIN graph_cache \cup {g}
      /\ graph_cache'[g] = v
      /\ \A h \in DOMAIN graph_cache : h # g => graph_cache'[h] = graph_cache[h]
  BY ONLY <1>4 DEF Put
<1> QED
  BY ONLY <1>3, <1>4, <1>5

\* Each step keeps every variable in its type.
LEMMA NextTypeOK == TypeOK /\ [Next]_vars => TypeOK'
<1> SUFFICES ASSUME TypeOK, [Next]_vars PROVE TypeOK'
  OBVIOUS
<1>1. CASE InitialiseClr \/ LoadEnvMap \/ CanReadRaises \/ NothingRead \/ FinishReading
           \/ FinishAnalysis \/ Succeed \/ Abort
  BY <1>1 DEF TypeOK, InitialiseClr, LoadEnvMap, CanReadRaises, NothingRead, FinishReading,
              FinishAnalysis, Succeed, Abort, Exit, reading, analysis, NotExited
<1>2. CASE PassOverFile \/ ReadFile \/ ReadFails
  <2>1. /\ file \in 1..(Len(run.files) + 1) /\ file <= Len(run.files) /\ file' = file + 1
        /\ run.files \in Seq(File) /\ run' = run
    BY <1>2 DEF TypeOK, RunType, PassOverFile, ReadFile, ReadFails
  <2>2. file' \in 1..(Len(run.files) + 1) /\ file \in 1..Len(run.files)
    BY ONLY <2>1
  <2>3. unread' \subseteq 1..Len(run.files)
    BY <1>2, <2>2 DEF TypeOK, PassOverFile, ReadFile, ReadFails
  <2>4. pipelines' \in Seq(Pipeline)
    <3>1. run.files[file] \in File
      BY ONLY <2>1, <2>2
    <3>2. run.files[file].holds \in Seq(Pipeline)
      BY ONLY <3>1 DEF File
    <3>3. pipelines \in Seq(Pipeline)
      BY DEF TypeOK
    <3>4. pipelines' = pipelines \/ pipelines' = pipelines \o run.files[file].holds
      BY <1>2 DEF PassOverFile, ReadFile, ReadFails
    <3>5. \A s, t \in Seq(Pipeline) : s \o t \in Seq(Pipeline)
      OBVIOUS
    <3> QED
      BY ONLY <3>2, <3>3, <3>4, <3>5
  <2> QED
    BY <1>2, <2>1, <2>2, <2>3, <2>4 DEF TypeOK, PassOverFile, ReadFile, ReadFails, analysis
<1>3. CASE PassOverWithoutSql \/ WarnNoEnvRef \/ WarnNoMapping \/ ExecFails
  <2>1. PICK w \in SUBSET ActivityWarning : Record(NoGid, w) /\ graph_cache' = graph_cache
    BY <1>3 DEF PassOverWithoutSql, WarnNoEnvRef, WarnNoMapping, ExecFails, ActivityWarning
  <2>2. at' \in Position /\ DOMAIN updated' \subseteq Position
        /\ \A q \in DOMAIN updated' : updated'[q] \in Result
    BY <2>1, RecordTyped
  <2> QED
    BY <2>1, <2>2 DEF TypeOK, Record, reading
<1>4. CASE ReuseGraph
  <2>1. Record(GidOf(Here), {}) /\ graph_cache' = graph_cache /\ GidOf(Here) \in Gid
    BY <1>4, AnalysableType DEF ReuseGraph
  <2>2. at' \in Position /\ DOMAIN updated' \subseteq Position
        /\ \A q \in DOMAIN updated' : updated'[q] \in Result
    BY <2>1, RecordTyped
  <2> QED
    BY <2>1, <2>2 DEF TypeOK, Record, reading
<1>5. CASE ExecBuilds \/ AnalyseOther
  <2>1. /\ Analysable
        /\ \E w \in SUBSET ActivityWarning : Record(GidOf(Here), w)
        /\ \E p \in Procs \cup {NoProc} :
             Cached([source |-> SourceOf(Here.env), proc |-> p, owner |-> at])
    BY <1>5, AnalysableType DEF ExecBuilds, AnalyseOther, Fresh, ActivityWarning
  <2>2. at' \in Position /\ DOMAIN updated' \subseteq Position
        /\ \A q \in DOMAIN updated' : updated'[q] \in Result
    BY <2>1, AnalysableType, RecordTyped
  <2>3. /\ DOMAIN graph_cache' \subseteq Gid
        /\ \A g \in DOMAIN graph_cache' : graph_cache'[g] \in Graph
    BY <2>1, CachedTyped
  <2> QED
    BY <2>1, <2>2, <2>3 DEF TypeOK, Record, reading
<1>6. CASE NextPipeline
  BY <1>6 DEF TypeOK, NextPipeline, Position, reading
<1>7. CASE WriteJson \/ WriteHtml
  BY <1>7 DEF TypeOK, WriteJson, WriteHtml, Formats, reading, analysis
<1>8. CASE UNCHANGED vars
  BY <1>8 DEF TypeOK, vars, reading, analysis
<1> QED
  BY <1>1, <1>2, <1>3, <1>4, <1>5, <1>6, <1>7, <1>8 DEF Next, Progress, Read, Analyse

LEMMA InitTypeOK == Init => TypeOK
<1> SUFFICES ASSUME Init PROVE TypeOK
  OBVIOUS
<1>1. run \in RunType
  BY RunsAssumption DEF Init
<1>2. file \in 1..(Len(run.files) + 1)
  <2>1. run.files \in Seq(File) /\ file = 1
    BY <1>1 DEF RunType, Init
  <2> QED
    BY ONLY <2>1
<1>3. pipelines \in Seq(Pipeline) /\ at \in Position
  BY DEF Init, Position
<1> QED
  BY <1>1, <1>2, <1>3 DEF Init, TypeOK, NotExited, Formats

\* Every reachable state is well typed: what the run is started on decides
\* nothing about the shape of the state.
THEOREM TypeCorrect == Spec => []TypeOK
BY InitTypeOK, NextTypeOK, PTL DEF Spec

-----------------------------------------------------------------------------
(* The results.  None of the promises about graphs is inductive: each rests *)
(* on activities being done once, in order, and on the cache holding what   *)
(* its ids say.                                                             *)

NothingYet ==
  pc \in {"cli", "load", "read"} => DOMAIN updated = {} /\ DOMAIN graph_cache = {}

InOrder ==
  \A q \in DOMAIN updated :
    q[1] \in DOMAIN pipelines /\ q[2] \in DOMAIN pipelines[q[1]] /\ Before(q, at)

OwnGid ==
  \A q \in DOMAIN updated : updated[q].gid # NoGid =>
    /\ ActivityAt(q).sql \in Sqls /\ ActivityAt(q).env \in EnvRefs
    /\ updated[q].gid = GidOf(ActivityAt(q))

CacheTruthful ==
  \A g \in DOMAIN graph_cache :
    graph_cache[g].source = SourceOf(g[1]) /\ graph_cache[g].proc = ExecOf[g[2]]

ResultInv ==
  /\ NothingYet /\ InOrder /\ OwnGid /\ CacheTruthful
  /\ GraphIdsResolve /\ Explained /\ SuccessIsKept

\* What recording a result does to the results there are.
LEMMA Recorded ==
  ASSUME TypeOK, InOrder, NEW gid, NEW w, Record(gid, w)
  PROVE  /\ at \notin DOMAIN updated
         /\ DOMAIN updated' = DOMAIN updated \cup {at}
         /\ updated'[at].gid = gid /\ updated'[at].warnings = w
         /\ \A q \in DOMAIN updated : updated'[q] = updated[q]
         /\ Here = ActivityAt(at)
         /\ pipelines' = pipelines /\ run' = run /\ pc = "analyse" /\ pc' = pc
<1>1. at \notin DOMAIN updated
  BY DEF InOrder, Before, TypeOK, Position
<1>2. PICK v : v = [gid |-> gid, warnings |-> w] /\ updated' = Put(updated, at, v)
  BY DEF Record
<1>3. /\ DOMAIN updated' = DOMAIN updated \cup {at} /\ updated'[at] = v
      /\ \A q \in DOMAIN updated : q # at => updated'[q] = updated[q]
  BY ONLY <1>2 DEF Put
<1>4. v.gid = gid /\ v.warnings = w
  BY <1>2
<1> QED
  BY <1>1, <1>3, <1>4 DEF Record, reading, Here, ActivityAt

LEMMA RecordInOrder ==
  ASSUME TypeOK, InOrder, NEW gid, NEW w, Record(gid, w) PROVE InOrder'
<1>1. /\ DOMAIN updated' = DOMAIN updated \cup {at} /\ pipelines' = pipelines
      /\ at' = <<at[1], at[2] + 1>> /\ at \in Position /\ DOMAIN updated \subseteq Position
  BY Recorded DEF Record, TypeOK
<1>2. at[1] \in DOMAIN pipelines /\ at[2] \in DOMAIN pipelines[at[1]]
  BY HereType DEF Record
<1> SUFFICES ASSUME NEW q \in DOMAIN updated'
             PROVE  /\ q[1] \in DOMAIN pipelines /\ q[2] \in DOMAIN pipelines[q[1]]
                    /\ Before(q, at')
  BY <1>1 DEF InOrder, Before
<1>3. CASE q = at
  BY <1>1, <1>2, <1>3 DEF Before, Position
<1>4. CASE q \in DOMAIN updated
  BY <1>1, <1>4 DEF Before, Position, InOrder
<1> QED
  BY <1>1, <1>3, <1>4

\* An activity that had a graph is never recorded without one.
LEMMA NoGraphStep ==
  ASSUME TypeOK, ResultInv, NEW w, Record(NoGid, w), graph_cache' = graph_cache,
         w # {} \/ Here.sql = NoSql, ~ (Analysable /\ GidOf(Here) \in DOMAIN graph_cache)
  PROVE  ResultInv'
<1> USE DEF ResultInv
<1>1. /\ at \notin DOMAIN updated
      /\ DOMAIN updated' = DOMAIN updated \cup {at}
      /\ updated'[at].gid = NoGid /\ updated'[at].warnings = w
      /\ \A q \in DOMAIN updated : updated'[q] = updated[q]
      /\ Here = ActivityAt(at)
      /\ pipelines' = pipelines /\ run' = run /\ pc = "analyse" /\ pc' = pc
  BY Recorded
<1>2. \A q : ActivityAt(q)' = ActivityAt(q)
  BY <1>1 DEF ActivityAt
<1>3. NothingYet' /\ InOrder'
  BY <1>1, RecordInOrder DEF NothingYet
<1>4. OwnGid'
  BY <1>1, <1>2 DEF OwnGid
<1>5. CacheTruthful'
  BY <1>1 DEF CacheTruthful, SourceOf
<1>6. GraphIdsResolve'
  BY <1>1 DEF GraphIdsResolve
<1>7. Explained'
  BY <1>1, <1>2 DEF Explained
<1>8. SuccessIsKept'
  <2> SUFFICES ASSUME NEW q \in DOMAIN updated', NEW r \in DOMAIN updated',
                      Before(q, r), ActivityAt(q) = ActivityAt(r), updated'[q].gid # NoGid
               PROVE  updated'[r].gid = updated'[q].gid
    BY <1>2 DEF SuccessIsKept, Before
  <2>1. q \in DOMAIN updated /\ updated[q].gid # NoGid
    BY <1>1
  <2>2. r # at
    <3> SUFFICES ASSUME r = at PROVE FALSE
      OBVIOUS
    <3>1. /\ Here.sql \in Sqls /\ Here.env \in EnvRefs
          /\ GidOf(Here) \in DOMAIN graph_cache
      BY <1>1, <2>1 DEF OwnGid, GraphIdsResolve
    <3>2. SourceOf(Here.env) \in Sources
      BY <3>1 DEF CacheTruthful, TypeOK, Graph, GidOf
    <3> QED
      BY <3>1, <3>2, RunsAssumption DEF Analysable, Record
  <2> QED
    BY <1>1, <2>1, <2>2 DEF SuccessIsKept
<1> QED
  BY <1>3, <1>4, <1>5, <1>6, <1>7, <1>8

\* An activity recorded with its graph, from the cache or new.
LEMMA GraphStep ==
  ASSUME TypeOK, ResultInv, NEW w, Analysable, Record(GidOf(Here), w),
         DOMAIN graph_cache' = DOMAIN graph_cache \cup {GidOf(Here)},
         \A h \in DOMAIN graph_cache : graph_cache'[h] = graph_cache[h],
         GidOf(Here) \notin DOMAIN graph_cache =>
           /\ graph_cache'[GidOf(Here)].source = SourceOf(Here.env)
           /\ graph_cache'[GidOf(Here)].proc = ExecOf[Here.sql]
  PROVE  ResultInv'
<1> USE DEF ResultInv
<1>1. /\ at \notin DOMAIN updated
      /\ DOMAIN updated' = DOMAIN updated \cup {at}
      /\ updated'[at].gid = GidOf(Here)
      /\ \A q \in DOMAIN updated : updated'[q] = updated[q]
      /\ Here = ActivityAt(at)
      /\ pipelines' = pipelines /\ run' = run /\ pc = "analyse" /\ pc' = pc
  BY Recorded
<1>2. \A q : ActivityAt(q)' = ActivityAt(q)
  BY <1>1 DEF ActivityAt
<1>3. Here.sql \in Sqls /\ Here.env \in EnvRefs /\ GidOf(Here) \in Gid
  BY AnalysableType
<1>4. NothingYet' /\ InOrder'
  BY <1>1, RecordInOrder DEF NothingYet
<1>5. OwnGid'
  BY <1>1, <1>2, <1>3 DEF OwnGid
<1>6. CacheTruthful'
  <2> SUFFICES ASSUME NEW h \in DOMAIN graph_cache'
               PROVE  /\ graph_cache'[h].source = SourceOf(h[1])
                      /\ graph_cache'[h].proc = ExecOf[h[2]]
    BY <1>1 DEF CacheTruthful, SourceOf
  <2>1. CASE h \in DOMAIN graph_cache
    BY <2>1 DEF CacheTruthful
  <2>2. CASE h = GidOf(Here) /\ h \notin DOMAIN graph_cache
    BY <2>2 DEF GidOf
  <2> QED
    BY <2>1, <2>2
<1>7. GraphIdsResolve'
  BY <1>1 DEF GraphIdsResolve
<1>8. Explained'
  BY <1>1, <1>2, <1>3, NoGidIsNoGid DEF Explained
<1>9. SuccessIsKept'
  <2> SUFFICES ASSUME NEW q \in DOMAIN updated', NEW r \in DOMAIN updated',
                      Before(q, r), ActivityAt(q) = ActivityAt(r), updated'[q].gid # NoGid
               PROVE  updated'[r].gid = updated'[q].gid
    BY <1>2 DEF SuccessIsKept, Before
  <2>1. q # at
    <3>1. \A s \in DOMAIN updated : Before(s, at)
      BY DEF InOrder
    <3>2. at \in Position /\ DOMAIN updated \subseteq Position
      BY DEF TypeOK
    <3> QED
      BY <1>1, <3>1, <3>2 DEF Before, Position
  <2>2. updated[q].gid # NoGid /\ q \in DOMAIN updated /\ updated'[q] = updated[q]
    BY <1>1, <2>1
  <2>3. CASE r = at
    BY <1>1, <2>2, <2>3 DEF OwnGid
  <2>4. CASE r \in DOMAIN updated
    BY <1>1, <2>2, <2>4 DEF SuccessIsKept
  <2> QED
    BY <1>1, <2>3, <2>4
<1> QED
  BY <1>4, <1>5, <1>6, <1>7, <1>8, <1>9

\* A step that reads, moves on, writes or ends the process.
LEMMA QuietStep ==
  ASSUME TypeOK, ResultInv, updated' = updated, graph_cache' = graph_cache, run' = run,
         pipelines' = pipelines \/ pc \in {"cli", "load", "read"},
         pc' \in {"cli", "load", "read"} => pc \in {"cli", "load", "read"},
         \A q \in Position : Before(q, at) => Before(q, at')
  PROVE  ResultInv'
<1> USE DEF ResultInv
<1>1. CASE pc \in {"cli", "load", "read"}
  <2>1. DOMAIN updated = {} /\ DOMAIN graph_cache = {}
    BY <1>1 DEF NothingYet
  <2> QED
    BY <2>1 DEF NothingYet, InOrder, OwnGid, CacheTruthful, GraphIdsResolve, Explained,
                SuccessIsKept
<1>2. CASE pc \notin {"cli", "load", "read"}
  <2>1. pipelines' = pipelines /\ NothingYet'
    BY <1>2 DEF NothingYet
  <2>2. \A q : ActivityAt(q)' = ActivityAt(q)
    BY <2>1 DEF ActivityAt
  <2>3. InOrder'
    <3>1. DOMAIN updated \subseteq Position
      BY DEF TypeOK
    <3> SUFFICES ASSUME NEW q \in DOMAIN updated
                 PROVE  /\ q[1] \in DOMAIN pipelines /\ q[2] \in DOMAIN pipelines[q[1]]
                        /\ Before(q, at')
      BY <2>1 DEF InOrder, Before
    <3> QED
      BY <3>1 DEF InOrder
  <2>4. OwnGid' /\ CacheTruthful' /\ GraphIdsResolve'
    BY <2>2 DEF OwnGid, CacheTruthful, GraphIdsResolve, SourceOf
  <2>5. Explained' /\ SuccessIsKept'
    BY <2>2 DEF Explained, SuccessIsKept, Before
  <2> QED
    BY <2>1, <2>3, <2>4, <2>5
<1> QED
  BY <1>1, <1>2

LEMMA NextResultInv == TypeOK /\ ResultInv /\ [Next]_vars => ResultInv'
<1> SUFFICES ASSUME TypeOK, ResultInv, [Next]_vars PROVE ResultInv'
  OBVIOUS
<1>1. CASE InitialiseClr \/ LoadEnvMap \/ Read \/ FinishAnalysis
           \/ WriteJson \/ WriteHtml \/ Succeed \/ Abort \/ UNCHANGED vars
  <2>1. /\ updated' = updated /\ graph_cache' = graph_cache /\ run' = run /\ at' = at
        /\ pipelines' = pipelines \/ pc \in {"cli", "load", "read"}
        /\ pc' \in {"cli", "load", "read"} => pc \in {"cli", "load", "read"}
    BY <1>1 DEF InitialiseClr, LoadEnvMap, Read, PassOverFile, CanReadRaises, ReadFile,
                ReadFails, NothingRead, FinishReading, FinishAnalysis, WriteJson, WriteHtml,
                Succeed, Abort, Exit, vars, reading, analysis
  <2>2. \A q \in Position : Before(q, at) => Before(q, at')
    BY <2>1 DEF Before
  <2> QED
    BY <2>1, <2>2, QuietStep
<1>2. CASE NextPipeline
  <2>1. \A q \in Position : Before(q, at) => Before(q, at')
    BY <1>2 DEF NextPipeline, Before, Position, TypeOK
  <2>2. /\ updated' = updated /\ graph_cache' = graph_cache /\ run' = run
        /\ pipelines' = pipelines /\ pc' = pc
    BY <1>2 DEF NextPipeline, reading
  <2> QED
    BY <2>1, <2>2, QuietStep
<1>3. CASE PassOverWithoutSql \/ WarnNoEnvRef \/ WarnNoMapping
  <2>1. PICK w : /\ Record(NoGid, w) /\ graph_cache' = graph_cache
                 /\ w # {} \/ Here.sql = NoSql
    BY <1>3 DEF PassOverWithoutSql, WarnNoEnvRef, WarnNoMapping
  <2>2. ~ Analysable
    BY <1>3 DEF PassOverWithoutSql, WarnNoEnvRef, WarnNoMapping, Analysable
  <2> QED
    BY <2>1, <2>2, NoGraphStep
<1>4. CASE ExecFails
  <2>1. PICK w : Record(NoGid, w) /\ graph_cache' = graph_cache /\ w # {}
    BY <1>4 DEF ExecFails
  <2>2. GidOf(Here) \notin DOMAIN graph_cache
    BY <1>4 DEF ExecFails, Fresh
  <2> QED
    BY <2>1, <2>2, NoGraphStep
<1>5. CASE ReuseGraph
  <2>1. /\ Analysable /\ Record(GidOf(Here), {}) /\ graph_cache' = graph_cache
        /\ GidOf(Here) \in DOMAIN graph_cache
    BY <1>5 DEF ReuseGraph
  <2> QED
    BY <2>1, GraphStep
<1>6. CASE ExecBuilds \/ AnalyseOther
  <2>0. /\ Analysable /\ GidOf(Here) \notin DOMAIN graph_cache
        /\ \E w : Record(GidOf(Here), w)
        /\ Cached([source |-> SourceOf(Here.env), proc |-> ExecOf[Here.sql], owner |-> at])
    BY <1>6 DEF ExecBuilds, AnalyseOther, Fresh, IsExec
  <2>1. PICK w, v : /\ Analysable /\ Record(GidOf(Here), w)
                    /\ GidOf(Here) \notin DOMAIN graph_cache
                    /\ graph_cache' = Put(graph_cache, GidOf(Here), v)
                    /\ v.source = SourceOf(Here.env) /\ v.proc = ExecOf[Here.sql]
    <3>1. PICK v : v = [source |-> SourceOf(Here.env), proc |-> ExecOf[Here.sql], owner |-> at]
      OBVIOUS
    <3>2. graph_cache' = Put(graph_cache, GidOf(Here), v)
      BY <2>0, <3>1 DEF Cached
    <3>3. v.source = SourceOf(Here.env) /\ v.proc = ExecOf[Here.sql]
      BY ONLY <3>1
    <3> QED
      BY ONLY <2>0, <3>2, <3>3
  <2>2. PICK g : g = GidOf(Here)
    OBVIOUS
  <2>3. /\ DOMAIN graph_cache' = DOMAIN graph_cache \cup {g} /\ graph_cache'[g] = v
        /\ \A h \in DOMAIN graph_cache : h # g => graph_cache'[h] = graph_cache[h]
    BY ONLY <2>1, <2>2 DEF Put
  <2>4. /\ DOMAIN graph_cache' = DOMAIN graph_cache \cup {GidOf(Here)}
        /\ \A h \in DOMAIN graph_cache : graph_cache'[h] = graph_cache[h]
        /\ graph_cache'[GidOf(Here)] = v
    BY ONLY <2>1, <2>2, <2>3
  <2> QED
    BY <2>1, <2>4, GraphStep
<1> QED
  BY <1>1, <1>2, <1>3, <1>4, <1>5, <1>6 DEF Next, Progress, Analyse

THEOREM ResultInvariant == Spec => []ResultInv
<1>1. Init => ResultInv
  BY DEF Init, ResultInv, NothingYet, InOrder, OwnGid, CacheTruthful, GraphIdsResolve,
         Explained, SuccessIsKept
<1> QED
  BY <1>1, TypeCorrect, NextResultInv, PTL DEF Spec

\* Every id an activity carries leads to a graph of the run, and every graph of
\* the run belongs to an activity.
THEOREM IdsResolve == Spec => []GraphIdsResolve
<1>1. ResultInv => GraphIdsResolve
  BY DEF ResultInv
<1> QED
  BY <1>1, ResultInvariant, PTL

\* Sharing graphs never gives an activity the graph of another environment's
\* database or of another procedure.
THEOREM GraphIsOwn == Spec => []OwnGraph
<1>1. TypeOK /\ ResultInv => OwnGraph
  <2> SUFFICES ASSUME TypeOK, ResultInv, NEW q \in DOMAIN updated,
                      updated[q].gid \in DOMAIN graph_cache
               PROVE  /\ graph_cache[updated[q].gid].source = SourceOf(ActivityAt(q).env)
                      /\ graph_cache[updated[q].gid].proc = ExecOf[ActivityAt(q).sql]
    BY DEF OwnGraph
  <2>1. updated[q].gid # NoGid
    BY NoGidIsNoGid DEF TypeOK
  <2>2. updated[q].gid = <<ActivityAt(q).env, ActivityAt(q).sql>>
    BY <2>1 DEF ResultInv, OwnGid, GidOf
  <2>3. updated[q].gid[1] = ActivityAt(q).env /\ updated[q].gid[2] = ActivityAt(q).sql
    BY ONLY <2>2
  <2> QED
    BY <2>3 DEF ResultInv, CacheTruthful
<1> QED
  BY <1>1, TypeCorrect, ResultInvariant, PTL

\* No activity with SQL loses its graph silently.
THEOREM MissingIsExplained == Spec => []Explained
<1>1. ResultInv => Explained
  BY DEF ResultInv
<1> QED
  BY <1>1, ResultInvariant, PTL

\* A graph once built serves every later activity with the same text in the
\* same environment.
THEOREM GraphIsKept == Spec => []SuccessIsKept
<1>1. ResultInv => SuccessIsKept
  BY DEF ResultInv
<1> QED
  BY <1>1, ResultInvariant, PTL

\* Sharing graphs between activities is invisible in every run.
THEOREM GraphsAlwaysAgree == Spec => []GraphsAgree
<1>1. GraphIdsResolve /\ OwnGraph /\ SuccessIsKept => GraphsAgree
  BY DEF GraphsAgree
<1> QED
  BY <1>1, IdsResolve, GraphIsOwn, GraphIsKept, PTL

-----------------------------------------------------------------------------
(* What was read and analysed, and what the exit code says of it.            *)

\* The files behind have given their pipelines, in order, or are in unread.
ReadInv ==
  /\ Joined(pipelines, KeptOfFiles, file)
  /\ \A i \in 1..(file - 1) : Claimed(run.files[i]) /\ ~ run.files[i].readable => i \in unread
  /\ pc \in {"analyse", "write"} => file = Len(run.files) + 1

\* The activities behind have a result.
DoneInv ==
  /\ pc \in {"cli", "load", "read"} => at = <<1, 1>>
  /\ \A q \in Positions : Before(q, at) => q \in DOMAIN updated
  /\ pc = "write" => at[1] > Len(pipelines)

\* The exit code and the artifacts.
ExitInv ==
  /\ artifacts \subseteq run.formats
  /\ artifacts # {} => pc = "write"
  /\ exit = 0 => run.formats \subseteq artifacts
  /\ exit \in {3, 4} => pc \in {"cli", "read"}
  /\ exit = 3 => file = Len(run.files) + 1 /\ pipelines = << >>

LEMMA FilesTyped ==
  ASSUME TypeOK
  PROVE  /\ Len(run.files) \in Nat /\ DOMAIN run.files = 1..Len(run.files)
         /\ \A i \in 1..Len(run.files) : run.files[i] \in File /\ Kept(run.files[i]) \in Seq(Pipeline)
<1>1. run.files \in Seq(File)
  BY DEF TypeOK, RunType
<1>2. \A i \in 1..Len(run.files) : run.files[i] \in File
  BY ONLY <1>1
<1>3. \A f \in File : Kept(f) \in Seq(Pipeline)
  BY DEF Kept, File
<1> QED
  BY <1>1, <1>2, <1>3

\* What the files give depends on the command line only.
LEMMA KeptStays ==
  ASSUME run' = run
  PROVE  KeptOfFiles' = KeptOfFiles /\ \A f : Claimed(f)' <=> Claimed(f)
BY DEF KeptOfFiles, Kept, Claimed, ReaderAsked

\* One part more.
LEMMA JoinedOn ==
  ASSUME NEW V, NEW s \in Seq(V), NEW parts, NEW n \in Nat \ {0},
         \A i \in 1..n : parts[i] \in Seq(V), Joined(s, parts, n)
  PROVE  Joined(s \o parts[n], parts, n + 1)
<1>1. PICK start \in [1..n -> 0..Len(s)] :
        /\ start[1] = 0 /\ start[n] = Len(s)
        /\ \A i \in 1..n : i < n =>
             /\ start[i + 1] = start[i] + Len(parts[i])
             /\ \A k \in 1..Len(parts[i]) : s[start[i] + k] = parts[i][k]
  BY DEF Joined
<1>a. parts[n] \in Seq(V)
  OBVIOUS
<1>b. \A u, v \in Seq(V) : u \o v \in Seq(V)
  OBVIOUS
<1>c. s \o parts[n] \in Seq(V)
  BY <1>a, <1>b
<1>2. PICK t \in Seq(V) : t = s \o parts[n]
  BY ONLY <1>c
<1>3. /\ Len(s) \in Nat /\ Len(parts[n]) \in Nat /\ Len(t) = Len(s) + Len(parts[n])
      /\ \A i \in 1..Len(s) : t[i] = s[i]
      /\ \A k \in 1..Len(parts[n]) : t[Len(s) + k] = parts[n][k]
  <2>1. \A u, v \in Seq(V) :
          /\ Len(u) \in Nat /\ Len(v) \in Nat /\ Len(u \o v) = Len(u) + Len(v)
          /\ \A i \in 1..Len(u) : (u \o v)[i] = u[i]
          /\ \A k \in 1..Len(v) : (u \o v)[Len(u) + k] = v[k]
    OBVIOUS
  <2>2. s \in Seq(V)
    OBVIOUS
  <2> QED
    BY ONLY <1>a, <1>2, <2>1, <2>2
<1> DEFINE next == [i \in 1..(n + 1) |-> IF i <= n THEN start[i] ELSE Len(t)]
<1>4. next \in [1..(n + 1) -> 0..Len(t)]
  <2> SUFFICES ASSUME NEW i \in 1..(n + 1)
               PROVE  (IF i <= n THEN start[i] ELSE Len(t)) \in 0..Len(t)
    OBVIOUS
  <2>1. CASE i <= n
    <3>1. start[i] \in 0..Len(s)
      BY <1>1, <2>1
    <3> QED
      BY <1>3, <2>1, <3>1
  <2>2. CASE ~ (i <= n)
    BY <1>3, <2>2
  <2> QED
    BY <2>1, <2>2
<1>5. (\A i \in 1..n : next[i] = start[i]) /\ next[n + 1] = Len(t)
  OBVIOUS
<1> HIDE DEF next
<1>6. ASSUME NEW i \in 1..n
      PROVE  /\ next[i + 1] = next[i] + Len(parts[i])
             /\ \A k \in 1..Len(parts[i]) : t[next[i] + k] = parts[i][k]
  <2>1. CASE i = n
    <3>1. next[n] = Len(s) /\ next[n + 1] = Len(s) + Len(parts[n])
      BY <1>1, <1>3, <1>5
    <3> QED
      BY ONLY <1>3, <2>1, <3>1
  <2>2. CASE i < n
    <3>1. i \in 1..n /\ i + 1 \in 1..n
      BY <2>2
    <3>2. /\ next[i] = start[i] /\ next[i + 1] = start[i + 1]
          /\ start[i] \in 0..Len(s) /\ start[i + 1] \in 0..Len(s)
          /\ start[i + 1] = start[i] + Len(parts[i])
          /\ \A k \in 1..Len(parts[i]) : s[start[i] + k] = parts[i][k]
      BY ONLY <1>1, <1>5, <2>2, <3>1
    <3>3. Len(parts[i]) \in Nat
      <4>1. parts[i] \in Seq(V)
        OBVIOUS
      <4> QED
        BY ONLY <4>1
    <3>4. ASSUME NEW k \in 1..Len(parts[i]) PROVE t[next[i] + k] = parts[i][k]
      <4>1. start[i] + k \in 1..Len(s)
        <5>1. k \in 1..Len(parts[i])
          OBVIOUS
        <5>2. start[i] \in Nat /\ start[i + 1] \in Nat /\ start[i + 1] <= Len(s)
          BY ONLY <1>3, <3>2
        <5>3. k \in Nat /\ 1 <= k /\ k <= Len(parts[i])
          BY ONLY <3>3, <5>1
        <5>4. start[i] + k <= start[i + 1]
          BY ONLY <3>2, <3>3, <5>2, <5>3
        <5> QED
          BY ONLY <1>3, <5>2, <5>3, <5>4
      <4>2. s[start[i] + k] = parts[i][k]
        BY <3>2
      <4>3. t[start[i] + k] = s[start[i] + k]
        BY ONLY <1>3, <4>1
      <4> QED
        BY ONLY <3>2, <4>2, <4>3
    <3> QED
      BY <3>2, <3>4
  <2> QED
    BY <2>1, <2>2
<1>7. next[1] = 0
  BY <1>1, <1>5
<1>8. Joined(t, parts, n + 1)
  <2>1. \A i \in 1..(n + 1) : i < n + 1 => i \in 1..n
    OBVIOUS
  <2> QED
    BY <1>4, <1>5, <1>6, <1>7, <2>1 DEF Joined
<1> QED
  BY <1>2, <1>8

\* Every step keeps what was read in order, and what was lost in unread.
LEMMA NextReadInv == TypeOK /\ ReadInv /\ [Next]_vars => ReadInv'
<1> SUFFICES ASSUME TypeOK, ReadInv, [Next]_vars PROVE ReadInv'
  OBVIOUS
<1>run. run' = run
  BY DEF Next, Progress, Read, Analyse, InitialiseClr, LoadEnvMap, PassOverFile, CanReadRaises,
       ReadFile,
         ReadFails, NothingRead, FinishReading, NextPipeline, PassOverWithoutSql, WarnNoEnvRef, WarnNoMapping,
         ReuseGraph, ExecBuilds, ExecFails, AnalyseOther, Record, FinishAnalysis, WriteJson, WriteHtml, Succeed,
         Abort, vars
<1>file. file \in 1..(Len(run.files) + 1) /\ Len(run.files) \in Nat
  BY FilesTyped DEF TypeOK
<1>kept. KeptOfFiles' = KeptOfFiles /\ \A f : Claimed(f)' <=> Claimed(f)
  BY <1>run, KeptStays
<1>parts. /\ \A i \in 1..Len(run.files) : 
                /\ KeptOfFiles[i] = Kept(run.files[i])
                /\ KeptOfFiles[i] \in Seq(Pipeline)
          /\ pipelines \in Seq(Pipeline)
  BY FilesTyped DEF KeptOfFiles, TypeOK
<1>1. CASE PassOverFile \/ ReadFile \/ ReadFails
  <2>1. /\ pc = "read" /\ pc' = "read" /\ file' = file + 1 /\ file \in 1..Len(run.files)
        /\ unread \subseteq unread'
    BY <1>1, <1>file DEF PassOverFile, ReadFile, ReadFails
  <2>2. pipelines' = pipelines \o KeptOfFiles[file]
    <3>1. pipelines \in Seq(Pipeline)
      BY DEF TypeOK
    <3>2. CASE ReadFile
      BY <2>1, <1>parts, <3>2 DEF ReadFile, Kept
    <3>3. CASE PassOverFile \/ ReadFails
      <4>1. KeptOfFiles[file] = << >> /\ pipelines' = pipelines
        <5>1. run.files[file] \in File
          BY <2>1, FilesTyped
        <5> QED
          BY <2>1, <1>parts, <3>3, <5>1 DEF PassOverFile, ReadFails, Kept, Claimed, File
      <4> QED
        BY <3>1, <4>1
    <3> QED
      BY <1>1, <3>2, <3>3
  <2>3. Joined(pipelines, KeptOfFiles, file)
    BY DEF ReadInv
  <2>4. Joined(pipelines \o KeptOfFiles[file], KeptOfFiles, file + 1)
    <3>1. file \in Nat \ {0} /\ \A i \in 1..file : KeptOfFiles[i] \in Seq(Pipeline)
      BY <1>file, <1>parts, <2>1
    <3> QED
      BY ONLY <1>parts, <2>3, <3>1, JoinedOn
  <2>5. Joined(pipelines', KeptOfFiles', file')
    BY <1>kept, <2>1, <2>2, <2>4
  <2>6. Claimed(run.files[file]) /\ ~ run.files[file].readable => file \in unread'
    BY <1>1, <2>1 DEF PassOverFile, ReadFile, ReadFails, Claimed, File
  <2>7. \A i \in 1..(file' - 1) : Claimed(run.files[i])' /\ ~ run'.files[i].readable => i \in unread'
    BY <1>run, <1>kept, <1>file, <2>1, <2>6 DEF ReadInv
  <2> QED
    BY <1>run, <2>1, <2>5, <2>7 DEF ReadInv
<1>2. CASE ~ (PassOverFile \/ ReadFile \/ ReadFails)
  <2>1. file' = file /\ unread' = unread /\ pipelines' = pipelines
    BY <1>2 DEF Next, Progress, Read, Analyse, InitialiseClr, LoadEnvMap, CanReadRaises, NothingRead,
           FinishReading, NextPipeline, PassOverWithoutSql, WarnNoEnvRef, WarnNoMapping, ReuseGraph,
           ExecBuilds, ExecFails, AnalyseOther, Record, FinishAnalysis, WriteJson, WriteHtml, Succeed, Abort,
           vars, reading
  <2>2. pc' \in {"analyse", "write"} => pc \in {"analyse", "write"} \/ file > Len(run.files)
    BY <1>2 DEF Next, Progress, Read, Analyse, InitialiseClr, LoadEnvMap, CanReadRaises, NothingRead,
           FinishReading, NextPipeline, PassOverWithoutSql, WarnNoEnvRef, WarnNoMapping, ReuseGraph,
           ExecBuilds, ExecFails, AnalyseOther, Record, FinishAnalysis, WriteJson, WriteHtml, Succeed, Abort,
           Exit, vars
  <2>5. Joined(pipelines', KeptOfFiles', file')
    BY <1>kept, <2>1 DEF ReadInv
  <2>6. \A i \in 1..(file' - 1) : Claimed(run.files[i])' /\ ~ run'.files[i].readable => i \in unread'
    BY <1>run, <1>kept, <2>1 DEF ReadInv
  <2> QED
    BY <1>run, <1>file, <2>1, <2>2, <2>5, <2>6 DEF ReadInv
<1> QED
  BY <1>1, <1>2

\* A position is the place of an activity.
LEMMA PositionFacts ==
  ASSUME TypeOK, NEW q \in Positions
  PROVE  /\ q[1] \in Nat \ {0} /\ q[1] <= Len(pipelines)
         /\ q[2] \in Nat \ {0} /\ q[2] <= Len(pipelines[q[1]])
         /\ q = <<q[1], q[2]>>
<1>1. PICK p \in DOMAIN pipelines : \E a \in DOMAIN pipelines[p] : q = <<p, a>>
  BY DEF Positions
<1>2. PICK a \in DOMAIN pipelines[p] : q = <<p, a>>
  BY <1>1
<1>3. pipelines \in Seq(Pipeline)
  BY DEF TypeOK
<1>4. pipelines[p] \in Seq(Activity)
  BY <1>3 DEF Pipeline
<1>5. p \in Nat \ {0} /\ p <= Len(pipelines) /\ a \in Nat \ {0} /\ a <= Len(pipelines[p])
  BY ONLY <1>1, <1>2, <1>3, <1>4
<1>6. q[1] = p /\ q[2] = a
  BY <1>2
<1> QED
  BY <1>2, <1>5, <1>6

\* An activity that gets its result is the only one passed.
LEMMA RecordDone ==
  ASSUME TypeOK, ResultInv, DoneInv, NEW gid, NEW w, Record(gid, w)
  PROVE  DoneInv'
<1>1. /\ DOMAIN updated' = DOMAIN updated \cup {at} /\ pipelines' = pipelines
      /\ pc = "analyse" /\ pc' = pc /\ at' = <<at[1], at[2] + 1>> /\ at \in Position
  BY Recorded DEF ResultInv, Record, TypeOK
<1>2. ASSUME NEW q \in Positions, q[1] < at[1] \/ (q[1] = at[1] /\ q[2] < at[2] + 1)
      PROVE  q \in DOMAIN updated'
  <2>1. q[1] < at[1] \/ (q[1] = at[1] /\ q[2] < at[2]) \/ q = at
    BY <1>1, <1>2, PositionFacts DEF Position
  <2> QED
    BY <1>1, <2>1 DEF DoneInv, Before
<1>3. Positions' = Positions
  BY <1>1 DEF Positions
<1>4. at'[1] = at[1] /\ at'[2] = at[2] + 1
  BY <1>1
<1>5. \A q \in Positions' : Before(q, at)' => q \in DOMAIN updated'
  BY <1>2, <1>3, <1>4 DEF Before
<1> QED
  BY <1>1, <1>5 DEF DoneInv

\* Every step keeps a result for each activity behind.
LEMMA NextDoneInv == TypeOK /\ ResultInv /\ DoneInv /\ [Next]_vars => DoneInv'
<1> SUFFICES ASSUME TypeOK, ResultInv, DoneInv, [Next]_vars PROVE DoneInv'
  OBVIOUS
<1>1. CASE InitialiseClr \/ LoadEnvMap \/ Read
  <2>1. /\ pc \in {"cli", "load", "read"} /\ at' = at /\ updated' = updated /\ pc' # "write"
    BY <1>1 DEF InitialiseClr, LoadEnvMap, Read, PassOverFile, CanReadRaises, ReadFile, ReadFails,
           NothingRead, FinishReading, Exit, analysis
  <2>2. at' = <<1, 1>>
    BY <2>1 DEF DoneInv
  <2>3. ASSUME NEW q \in Positions', q[1] < 1 \/ (q[1] = 1 /\ q[2] < 1) PROVE FALSE
    <3>1. TypeOK'
      BY NextTypeOK
    <3>2. q[1] \in Nat \ {0} /\ q[2] \in Nat \ {0}
      <4>1. PICK p \in DOMAIN pipelines' : \E a \in DOMAIN pipelines'[p] : q = <<p, a>>
        BY DEF Positions
      <4>2. PICK a \in DOMAIN pipelines'[p] : q = <<p, a>>
        BY <4>1
      <4>3. pipelines' \in Seq(Pipeline)
        BY <3>1 DEF TypeOK
      <4>4. pipelines'[p] \in Seq(Activity)
        BY <4>3 DEF Pipeline
      <4>5. p \in Nat \ {0} /\ a \in Nat \ {0}
        BY ONLY <4>1, <4>2, <4>3, <4>4
      <4> QED
        BY <4>2, <4>5
    <3> QED
      BY <2>3, <3>2
  <2>4. at'[1] = 1 /\ at'[2] = 1
    BY <2>2
  <2>5. \A q \in Positions' : Before(q, at)' => q \in DOMAIN updated'
    BY <2>3, <2>4 DEF Before
  <2> QED
    BY <2>1, <2>2, <2>5 DEF DoneInv
<1>2. CASE PassOverWithoutSql \/ WarnNoEnvRef \/ WarnNoMapping \/ ReuseGraph \/ ExecBuilds
           \/ ExecFails \/ AnalyseOther
  <2>1. PICK gid, w : Record(gid, w)
    BY <1>2 DEF PassOverWithoutSql, WarnNoEnvRef, WarnNoMapping, ReuseGraph, ExecBuilds, ExecFails,
           AnalyseOther
  <2> QED
    BY <2>1, RecordDone
<1>3. CASE NextPipeline
  <2>1. /\ pc = "analyse" /\ pc' = pc /\ updated' = updated /\ pipelines' = pipelines
        /\ at[1] <= Len(pipelines) /\ at[2] > Len(pipelines[at[1]]) /\ at' = <<at[1] + 1, 1>>
        /\ at \in Position
    BY <1>3 DEF NextPipeline, reading, TypeOK
  <2>2. ASSUME NEW q \in Positions, q[1] < at[1] + 1 \/ (q[1] = at[1] + 1 /\ q[2] < 1)
        PROVE  q \in DOMAIN updated
    <3>0. /\ q[1] \in Nat \ {0} /\ q[2] \in Nat \ {0} /\ q[2] <= Len(pipelines[q[1]])
          /\ at[1] \in Nat /\ at[2] \in Nat
      BY <2>1, PositionFacts DEF Position
    <3>1. q[1] < at[1] \/ q[1] = at[1]
      BY <2>2, <3>0
    <3>2. CASE q[1] < at[1]
      BY <3>2 DEF DoneInv, Before
    <3>3. CASE q[1] = at[1]
      <4>1. pipelines[at[1]] \in Seq(Activity)
        <5>1. pipelines \in Seq(Pipeline)
          BY DEF TypeOK
        <5>2. at[1] \in DOMAIN pipelines
          BY <2>1, <5>1, <3>0, <3>3
        <5> QED
          BY <5>1, <5>2 DEF Pipeline
      <4>2. Len(pipelines[at[1]]) \in Nat
        BY ONLY <4>1
      <4>3. q[2] < at[2]
        BY <2>1, <3>0, <3>3, <4>2
      <4> QED
        BY <3>3, <4>3 DEF DoneInv, Before
    <3> QED
      BY <3>1, <3>2, <3>3
  <2>3. Positions' = Positions
    BY <2>1 DEF Positions
  <2>4. at'[1] = at[1] + 1 /\ at'[2] = 1
    BY <2>1
  <2>5. \A q \in Positions' : Before(q, at)' => q \in DOMAIN updated'
    BY <2>1, <2>2, <2>3, <2>4 DEF Before
  <2> QED
    BY <2>1, <2>5 DEF DoneInv
<1>4. CASE FinishAnalysis \/ WriteJson \/ WriteHtml \/ Succeed \/ Abort \/ UNCHANGED vars
  <2>1. /\ at' = at /\ updated' = updated /\ pipelines' = pipelines
        /\ pc' = pc \/ (pc = "analyse" /\ pc' = "write" /\ at[1] > Len(pipelines))
    BY <1>4 DEF FinishAnalysis, WriteJson, WriteHtml, Succeed, Abort, Exit, vars, reading, analysis
  <2>2. Positions' = Positions /\ \A q : Before(q, at)' <=> Before(q, at)
    BY <2>1 DEF Positions, Before
  <2> QED
    BY <2>1, <2>2 DEF DoneInv
<1> QED
  BY <1>1, <1>2, <1>3, <1>4 DEF Next, Progress, Analyse

\* Every step keeps what the exit code says.
LEMMA NextExitInv == TypeOK /\ ExitInv /\ [Next]_vars => ExitInv'
<1> SUFFICES ASSUME TypeOK, ExitInv, [Next]_vars PROVE ExitInv'
  OBVIOUS
<1> USE DEF NotExited, Running, Exit
<1>1. CASE Running /\ (InitialiseClr \/ LoadEnvMap \/ PassOverFile \/ ReadFile \/ ReadFails
                       \/ CanReadRaises \/ FinishReading \/ NextPipeline \/ FinishAnalysis \/ Abort)
  <2>1. run' = run /\ artifacts' = artifacts
    BY <1>1 DEF InitialiseClr, LoadEnvMap, PassOverFile, ReadFile, ReadFails, CanReadRaises,
           FinishReading, NextPipeline, FinishAnalysis, Abort
  <2>2. exit' \in {NotExited, 1} \/ (exit' = 4 /\ pc' = "cli")
    BY <1>1 DEF InitialiseClr, LoadEnvMap, PassOverFile, ReadFile, ReadFails, CanReadRaises,
           FinishReading, NextPipeline, FinishAnalysis, Abort
  <2>3. pc = "write" => pc' = "write"
    BY <1>1 DEF InitialiseClr, LoadEnvMap, PassOverFile, ReadFile, ReadFails, CanReadRaises,
           FinishReading, NextPipeline, FinishAnalysis, Abort
  <2> QED
    BY <2>1, <2>2, <2>3 DEF ExitInv
<1>2. CASE Running /\ NothingRead
  BY <1>2, FilesTyped DEF ExitInv, NothingRead, reading, TypeOK
<1>3. CASE Running /\ (PassOverWithoutSql \/ WarnNoEnvRef \/ WarnNoMapping \/ ReuseGraph \/ ExecBuilds
                       \/ ExecFails \/ AnalyseOther)
  <2>1. PICK gid, w : Record(gid, w)
    BY <1>3 DEF PassOverWithoutSql, WarnNoEnvRef, WarnNoMapping, ReuseGraph, ExecBuilds, ExecFails,
           AnalyseOther
  <2> QED
    BY <1>3, <2>1 DEF ExitInv, Record
<1>4. CASE Running /\ (WriteJson \/ WriteHtml)
  BY <1>4 DEF ExitInv, WriteJson, WriteHtml
<1>5. CASE Running /\ Succeed
  BY <1>5 DEF ExitInv, Succeed
<1>6. CASE UNCHANGED vars
  BY <1>6 DEF ExitInv, vars, reading
<1> QED
  BY <1>1, <1>2, <1>3, <1>4, <1>5, <1>6 DEF Next, Progress, Read, Analyse

THEOREM RunInvariant == Spec => [](ReadInv /\ DoneInv /\ ExitInv)
<1>1. Init => ReadInv
  <2> SUFFICES ASSUME Init PROVE ReadInv
    OBVIOUS
  <2>1. pipelines = << >> /\ file = 1 /\ pc = "cli"
    BY DEF Init
  <2>2. Joined(pipelines, KeptOfFiles, file)
    <3>1. [i \in 1..1 |-> 0] \in [1..1 -> 0..0] /\ [i \in 1..1 |-> 0][1] = 0
      OBVIOUS
    <3>2. Len(<< >>) = 0
      OBVIOUS
    <3>3. \A i \in 1..1 : ~ (i < 1)
      OBVIOUS
    <3> QED
      BY <2>1, <3>1, <3>2, <3>3 DEF Joined
  <2> QED
    BY <2>1, <2>2 DEF ReadInv
<1>2. Init => DoneInv
  BY DEF Init, DoneInv, Positions
<1>3. Init => ExitInv
  BY DEF Init, ExitInv, NotExited
<1> QED
  BY <1>1, <1>2, <1>3, TypeCorrect, ResultInvariant, NextReadInv, NextDoneInv, NextExitInv, PTL DEF Spec

\* What fails stays where it failed: a run that is through holds every pipeline of
\* every readable file in order, a result for each activity, and the files it lost.
THEOREM FailuresAlwaysStayLocal == Spec => []FailuresStayLocal
<1>1. TypeOK /\ ResultInv /\ ReadInv /\ DoneInv => FailuresStayLocal
  <2> SUFFICES ASSUME TypeOK, ResultInv, ReadInv, DoneInv, pc = "write"
               PROVE  /\ Joined(pipelines, KeptOfFiles, Len(run.files) + 1)
                      /\ DOMAIN updated = Positions
                      /\ \A i \in DOMAIN run.files :
                           Claimed(run.files[i]) /\ ~ run.files[i].readable => i \in unread
    BY DEF FailuresStayLocal, Completed
  <2>1. file = Len(run.files) + 1 /\ Len(run.files) \in Nat /\ DOMAIN run.files = 1..Len(run.files)
    BY FilesTyped DEF ReadInv
  <2>2. Joined(pipelines, KeptOfFiles, Len(run.files) + 1)
    BY <2>1 DEF ReadInv
  <2>3. \A i \in DOMAIN run.files : Claimed(run.files[i]) /\ ~ run.files[i].readable => i \in unread
    BY <2>1 DEF ReadInv
  <2>4. ASSUME NEW q \in Positions PROVE q \in DOMAIN updated
    <3>1. q[1] <= Len(pipelines) /\ q[1] \in Nat /\ at[1] \in Nat /\ at[1] > Len(pipelines)
      BY PositionFacts DEF DoneInv, TypeOK, Position
    <3>2. Len(pipelines) \in Nat
      BY DEF TypeOK
    <3>3. q[1] < at[1]
      BY ONLY <3>1, <3>2
    <3> QED
      BY <3>3 DEF DoneInv, Before
  <2>5. ASSUME NEW q \in DOMAIN updated PROVE q \in Positions
    <3>1. q[1] \in DOMAIN pipelines /\ q[2] \in DOMAIN pipelines[q[1]] /\ q = <<q[1], q[2]>>
      BY DEF ResultInv, InOrder, TypeOK, Position
    <3> QED
      BY <3>1 DEF Positions
  <2> QED
    BY <2>2, <2>3, <2>4, <2>5
<1> QED
  BY <1>1, TypeCorrect, ResultInvariant, RunInvariant, PTL

\* The exit code of every run is true of it.
THEOREM ExitCodeAlwaysTruthful == Spec => []ExitCodeTruthful
<1>1. TypeOK /\ ReadInv /\ ExitInv => ExitCodeTruthful
  <2> SUFFICES ASSUME TypeOK, ReadInv, ExitInv PROVE ExitCodeTruthful
    OBVIOUS
  <2>1. ASSUME exit = 3, NEW i \in DOMAIN run.files PROVE Kept(run.files[i]) = << >>
    <3>1. /\ file = Len(run.files) + 1 /\ pipelines = << >>
          /\ Len(run.files) \in Nat /\ DOMAIN run.files = 1..Len(run.files)
          /\ Kept(run.files[i]) \in Seq(Pipeline) /\ i \in 1..file /\ i < file /\ i + 1 \in 1..file
      <4>1. file = Len(run.files) + 1 /\ pipelines = << >>
        BY <2>1 DEF ExitInv
      <4>2. /\ Len(run.files) \in Nat /\ DOMAIN run.files = 1..Len(run.files)
            /\ \A j \in 1..Len(run.files) : Kept(run.files[j]) \in Seq(Pipeline)
        BY FilesTyped
      <4>3. i \in 1..Len(run.files)
        BY <4>2
      <4> QED
        BY ONLY <4>1, <4>2, <4>3
    <3>2. Len(<< >>) = 0
      OBVIOUS
    <3>3. PICK start \in [1..file -> 0..0] : start[i + 1] = start[i] + Len(KeptOfFiles[i])
      BY <3>1, <3>2 DEF ReadInv, Joined
    <3>4. start[i + 1] = 0 /\ start[i] = 0
      BY <3>1, <3>3
    <3>5. KeptOfFiles[i] = Kept(run.files[i])
      BY DEF KeptOfFiles
    <3>6. Len(Kept(run.files[i])) = 0
      BY <3>1, <3>3, <3>4, <3>5
    <3> QED
      BY ONLY <3>1, <3>6
  <2>2. exit = 0 => artifacts = run.formats
    BY DEF ExitInv
  <2>3. exit \in {3, 4} => artifacts = {}
    BY DEF ExitInv
  <2> QED
    BY <2>1, <2>2, <2>3 DEF ExitCodeTruthful
<1> QED
  BY <1>1, TypeCorrect, RunInvariant, PTL

=============================================================================
