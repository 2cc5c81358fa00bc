------------------------ MODULE OrchestratorLineage ------------------------
(***************************************************************************)
(* BuildOrchestratorLineageUseCase: discover the artifact files, read each *)
(* into pipelines, analyse every SQL activity against the database its     *)
(* environment reference maps to, and write the run.  Activities with the  *)
(* same reference and the same SQL share one graph of a cache.             *)
(*                                                                         *)
(* The parts that fail on their own are the readers, the lineage build     *)
(* (module BuildLineage) each EXEC is handed to, and the SQL parser; what  *)
(* matters is which of those failures stay with the file or the activity.  *)
(***************************************************************************)
EXTENDS Integers, Sequences, FiniteSets

CONSTANTS
  EnvRefs,       \* linked-service names and conn_ids, as spelled
  NoEnvRef,      \* env_ref is None
  Lower,         \* Lower[e]: the spelling env_ref.lower()
  Sqls,          \* SQL texts
  NoSql,         \* sql_text is None
  Procs,         \* procedures a text may execute
  NoProc,        \* the text is not a bare EXEC
  ExecOf,        \* ExecOf[s]: the procedure, or NoProc
  Malformed,     \* texts the parser reports errors in
  Sources,       \* dacpacs and live connections
  NoSource,      \* no entry, or a connection the settings do not have
  Runs           \* what the command is started on

Activity == [sql : Sqls \cup {NoSql}, env : EnvRefs \cup {NoEnvRef}]
Pipeline == Seq(Activity)

\* A file: what its suffix says, what can_read answers or whether it raises,
\* and the pipelines it holds, unless read fails.
File ==
  [kind     : {"adf", "airflow", "other"},
   can_read : {"yes", "no", "raises"},
   readable : BOOLEAN,
   holds    : Seq(Pipeline)]

Formats == {"json", "html"}

RunType ==
  [files         : Seq(File),                              \* as _discover_files orders them
   artifact_type : {"adf", "airflow", "auto"},
   env_map_ok    : BOOLEAN,
   env_map       : [EnvRefs -> Sources \cup {NoSource}],   \* by lowercased reference
   formats       : SUBSET Formats]

ASSUME RunsAssumption ==
  /\ Lower \in [EnvRefs -> EnvRefs]
  /\ ExecOf \in [Sqls -> Procs \cup {NoProc}]
  /\ Malformed \subseteq Sqls
  /\ NoEnvRef \notin EnvRefs /\ NoSql \notin Sqls /\ NoProc \notin Procs
  /\ NoSource \notin Sources
  /\ \A r \in Runs : r \in RunType

-----------------------------------------------------------------------------
VARIABLES
  run,          \* what the command was started on; never changes
  pc,           \* "cli", "load", "read", "analyse", "write"
  exit,         \* exit code, NotExited while the process runs
  file,         \* index of the next file
  unread,       \* files in run_warnings: claimed by a reader, read failed
  pipelines,    \* what has been read
  at,           \* <<pipeline, activity>> to analyse next
  updated,      \* position -> [gid, warnings] of the activities done
  graph_cache,  \* graph id -> [source, root]
  artifacts     \* formats written

reading  == <<file, unread, pipelines>>
analysis == <<at, updated, graph_cache>>
vars     == <<run, pc, exit, reading, analysis, artifacts>>

NotExited == -1
Position == (Nat \ {0}) \X (Nat \ {0})

\* _stable_gid: a hash of both texts as spelled, taken to be injective.
Gid == EnvRefs \X Sqls
\* Mutant of GidOf: the environment is left out of the hash.
GidOfSqlOnly(activity) == << CHOOSE e \in EnvRefs : TRUE, activity.sql >>
GidOf(activity) == <<activity.env, activity.sql>>
NoGid == << >>

\* The graph of a procedure in a source, or the placeholder that stands for
\* the activity at a position.
Graph == [source : Sources, proc : Procs \cup {NoProc}, owner : Position]

ActivityWarning ==
  {"no env_ref", "no env mapping", "cannot resolve", "lineage failed",
   "parse error", "statement-level analysis only"}
Result == [gid : Gid \cup {NoGid}, warnings : SUBSET ActivityWarning]

Put(f, key, value) == [k \in DOMAIN f \cup {key} |-> IF k = key THEN value ELSE f[k]]

-----------------------------------------------------------------------------
Init ==
  /\ run \in Runs
  /\ pc = "cli"
  /\ exit = NotExited
  /\ file = 1
  /\ unread = {}
  /\ pipelines = << >>
  /\ at = <<1, 1>>
  /\ updated = << >>
  /\ graph_cache = << >>
  /\ artifacts = {}

Exit(code) == exit' = code /\ UNCHANGED pc

InitialiseClr ==
  /\ pc = "cli"
  /\ \/ pc' = "load" /\ UNCHANGED exit
     \/ Exit(4)
  /\ UNCHANGED <<run, reading, analysis, artifacts>>

\* JsonEnvMapService.load raises ValueError, or OSError, for the whole run.
LoadEnvMap ==
  /\ pc = "load"
  /\ \/ run.env_map_ok /\ pc' = "read" /\ UNCHANGED exit
     \/ ~ run.env_map_ok /\ Exit(1)
  /\ UNCHANGED <<run, reading, analysis, artifacts>>

-----------------------------------------------------------------------------
(* Reading: _match_readers asks each reader of the right kind. *)

ReaderAsked(f) ==
  f.kind # "other" /\ (run.artifact_type = "auto" \/ run.artifact_type = f.kind)

Claimed(f) == ReaderAsked(f) /\ f.can_read = "yes"

PassOverFile ==
  /\ pc = "read"
  /\ file <= Len(run.files)
  /\ ReaderAsked(run.files[file]) => run.files[file].can_read = "no"
  /\ file' = file + 1
  /\ UNCHANGED <<run, pc, exit, unread, pipelines, analysis, artifacts>>

\* can_read is called by the generator, outside the try around read.
CanReadRaises ==
  /\ pc = "read"
  /\ file <= Len(run.files)
  /\ ReaderAsked(run.files[file])
  /\ run.files[file].can_read = "raises"
  /\ Exit(1)
  /\ UNCHANGED <<run, reading, analysis, artifacts>>

ReadFile ==
  /\ pc = "read"
  /\ file <= Len(run.files)
  /\ Claimed(run.files[file])
  /\ run.files[file].readable
  /\ pipelines' = pipelines \o run.files[file].holds
  /\ file' = file + 1
  /\ UNCHANGED <<run, pc, exit, unread, analysis, artifacts>>

\* Mutant of ReadFails: what was read before is discarded.
ReadFailsFresh ==
  /\ pc = "read"
  /\ file <= Len(run.files)
  /\ Claimed(run.files[file])
  /\ ~ run.files[file].readable
  /\ unread' = unread \cup {file}
  /\ pipelines' = << >>
  /\ file' = file + 1
  /\ UNCHANGED <<run, pc, exit, analysis, artifacts>>

ReadFails ==
  /\ pc = "read"
  /\ file <= Len(run.files)
  /\ Claimed(run.files[file])
  /\ ~ run.files[file].readable
  /\ unread' = unread \cup {file}
  /\ file' = file + 1
  /\ UNCHANGED <<run, pc, exit, pipelines, analysis, artifacts>>

\* Mutant of NothingRead: one file that cannot be read ends the run.
NothingReadOnFailure ==
  /\ pc = "read"
  /\ file > Len(run.files)
  /\ pipelines = << >> \/ unread # {}
  /\ Exit(3)
  /\ UNCHANGED <<run, reading, analysis, artifacts>>

NothingRead ==
  /\ pc = "read"
  /\ file > Len(run.files)
  /\ pipelines = << >>
  /\ Exit(3)
  /\ UNCHANGED <<run, reading, analysis, artifacts>>

FinishReading ==
  /\ pc = "read"
  /\ file > Len(run.files)
  /\ pipelines # << >>
  /\ pc' = "analyse"
  /\ UNCHANGED <<run, exit, reading, analysis, artifacts>>

-----------------------------------------------------------------------------
(* _analyse_activity, one activity at a time. *)

Here == pipelines[at[1]][at[2]]
InPipeline == at[1] <= Len(pipelines) /\ at[2] <= Len(pipelines[at[1]])
SourceOf(env) == run.env_map[Lower[env]]

\* new_activities.append(updated), and on to the next activity.
Record(gid, warnings) ==
  /\ pc = "analyse"
  /\ InPipeline
  /\ updated' = Put(updated, at, [gid |-> gid, warnings |-> warnings])
  /\ at' = <<at[1], at[2] + 1>>
  /\ UNCHANGED <<run, pc, exit, reading, artifacts>>

NextPipeline ==
  /\ pc = "analyse"
  /\ at[1] <= Len(pipelines)
  /\ at[2] > Len(pipelines[at[1]])
  /\ at' = <<at[1] + 1, 1>>
  /\ UNCHANGED <<run, pc, exit, reading, updated, graph_cache, artifacts>>

PassOverWithoutSql ==
  /\ Record(NoGid, {})
  /\ Here.sql = NoSql
  /\ UNCHANGED graph_cache

WarnNoEnvRef ==
  /\ Record(NoGid, {"no env_ref"})
  /\ Here.sql # NoSql
  /\ Here.env = NoEnvRef
  /\ UNCHANGED graph_cache

WarnNoMapping ==
  /\ Record(NoGid, {"no env mapping"})
  /\ Here.sql # NoSql
  /\ Here.env # NoEnvRef
  /\ SourceOf(Here.env) = NoSource
  /\ UNCHANGED graph_cache

Analysable ==
  /\ InPipeline
  /\ Here.sql # NoSql
  /\ Here.env # NoEnvRef
  /\ SourceOf(Here.env) # NoSource

\* gid in graph_cache: no warning of the first analysis is repeated.
ReuseGraph ==
  /\ Analysable
  /\ GidOf(Here) \in DOMAIN graph_cache
  /\ Record(GidOf(Here), {})
  /\ UNCHANGED graph_cache

Fresh == Analysable /\ GidOf(Here) \notin DOMAIN graph_cache
IsExec == ExecOf[Here.sql] # NoProc

Cached(graph) == graph_cache' = Put(graph_cache, GidOf(Here), graph)

ExecBuilds ==
  /\ Fresh
  /\ IsExec
  /\ Record(GidOf(Here), {})
  /\ Cached([source |-> SourceOf(Here.env), proc |-> ExecOf[Here.sql], owner |-> at])

\* Mutant of ExecFails: the exception is swallowed.
ExecFailsQuietly ==
  /\ Fresh
  /\ IsExec
  /\ Record(NoGid, {})
  /\ UNCHANGED graph_cache

\* The inner build ends without a graph: the procedure is not in the source, or
\* anything else is raised.  Nothing is cached, so the next activity with this
\* id tries again.
ExecFails ==
  /\ Fresh
  /\ IsExec
  /\ \E w \in {"cannot resolve", "lineage failed"} : Record(NoGid, {w})
  /\ UNCHANGED graph_cache

\* Any other text is only parsed; the placeholder graph has one node, named
\* after this pipeline and this activity.
AnalyseOther ==
  /\ Fresh
  /\ ~ IsExec
  /\ Record(GidOf(Here),
            {"statement-level analysis only"}
              \cup (IF Here.sql \in Malformed THEN {"parse error"} ELSE {}))
  /\ Cached([source |-> SourceOf(Here.env), proc |-> NoProc, owner |-> at])

FinishAnalysis ==
  /\ pc = "analyse"
  /\ at[1] > Len(pipelines)
  /\ pc' = "write"
  /\ UNCHANGED <<run, exit, reading, analysis, artifacts>>

-----------------------------------------------------------------------------
(* The artifacts and the end of the process. *)

WriteJson ==
  /\ pc = "write"
  /\ "json" \in run.formats \ artifacts
  /\ artifacts' = artifacts \cup {"json"}
  /\ UNCHANGED <<run, pc, exit, reading, analysis>>

WriteHtml ==
  /\ pc = "write"
  /\ "json" \notin run.formats \ artifacts
  /\ "html" \in run.formats \ artifacts
  /\ artifacts' = artifacts \cup {"html"}
  /\ UNCHANGED <<run, pc, exit, reading, analysis>>

Succeed ==
  /\ pc = "write"
  /\ run.formats \subseteq artifacts
  /\ Exit(0)
  /\ UNCHANGED <<run, reading, analysis, artifacts>>

\* No handler of the use case: the output directory cannot be made, listing the
\* files fails, parse raises on a text that is not an EXEC, or a writer fails.
Abort ==
  /\ \/ pc \in {"load", "write"}
     \/ pc = "read" /\ file = 1
     \/ pc = "analyse" /\ Fresh /\ ~ IsExec
  /\ Exit(1)
  /\ UNCHANGED <<run, reading, analysis, artifacts>>

Read == PassOverFile \/ CanReadRaises \/ ReadFile \/ ReadFails \/ NothingRead \/ FinishReading

Analyse ==
  \/ PassOverWithoutSql \/ WarnNoEnvRef \/ WarnNoMapping
  \/ ReuseGraph \/ ExecBuilds \/ ExecFails \/ AnalyseOther
  \/ NextPipeline \/ FinishAnalysis

Running == exit = NotExited

Progress ==
  InitialiseClr \/ LoadEnvMap \/ Read \/ Analyse \/ WriteJson \/ WriteHtml \/ Succeed

Next ==
  \/ Running /\ (Progress \/ Abort)
  \/ ~ Running /\ UNCHANGED vars          \* the process is gone

Spec == Init /\ [][Next]_vars

-----------------------------------------------------------------------------
(* What the run promises. *)

TypeOK ==
  /\ run \in RunType
  /\ pc \in {"cli", "load", "read", "analyse", "write"}
  /\ exit \in {NotExited, 0, 1, 3, 4}
  /\ file \in 1..(Len(run.files) + 1)
  /\ unread \subseteq 1..Len(run.files)
  /\ pipelines \in Seq(Pipeline)
  /\ at \in Position
  /\ DOMAIN updated \subseteq Position
  /\ \A q \in DOMAIN updated : updated[q] \in Result
  /\ DOMAIN graph_cache \subseteq Gid
  /\ \A g \in DOMAIN graph_cache : graph_cache[g] \in Graph
  /\ artifacts \subseteq Formats

ActivityAt(q) == pipelines[q[1]][q[2]]
Positions == UNION {{<<p, a>> : a \in DOMAIN pipelines[p]} : p \in DOMAIN pipelines}
Completed == pc = "write"

\* lineage_graph_id and lineage_graphs agree: an id on an activity always leads
\* to a graph, and no graph is kept that no activity leads to.
GraphIdsResolve ==
  /\ \A q \in DOMAIN updated :
       updated[q].gid # NoGid => updated[q].gid \in DOMAIN graph_cache
  /\ \A g \in DOMAIN graph_cache : \E q \in DOMAIN updated : updated[q].gid = g

\* However activities share graphs, each one's graph was built in the source of
\* its own environment, from its own procedure.
OwnGraph ==
  \A q \in DOMAIN updated :
    updated[q].gid \in DOMAIN graph_cache =>
      LET a == ActivityAt(q)
          g == graph_cache[updated[q].gid]
      IN  g.source = SourceOf(a.env) /\ g.proc = ExecOf[a.sql]

\* An activity with SQL and no graph says why, in a warning of its own.
Explained ==
  \A q \in DOMAIN updated :
    ActivityAt(q).sql # NoSql /\ updated[q].gid = NoGid => updated[q].warnings # {}

\* A failure costs only the activity, or the file, it happened in: the finished
\* run holds every pipeline of every readable file, in the order of discovery,
\* has a result for each activity, and names each claimed file it lost.
Kept(f) == IF Claimed(f) /\ f.readable THEN f.holds ELSE << >>
KeptOfFiles == [i \in DOMAIN run.files |-> Kept(run.files[i])]

\* s is the parts before the n-th, one after another: part i begins behind start[i].
Joined(s, parts, n) ==
  \E start \in [1..n -> 0..Len(s)] :
    /\ start[1] = 0 /\ start[n] = Len(s)
    /\ \A i \in 1..n : i < n =>
         /\ start[i + 1] = start[i] + Len(parts[i])
         /\ \A k \in 1..Len(parts[i]) : s[start[i] + k] = parts[i][k]

FailuresStayLocal ==
  Completed =>
    /\ Joined(pipelines, KeptOfFiles, Len(run.files) + 1)
    /\ DOMAIN updated = Positions
    /\ \A i \in DOMAIN run.files :
         Claimed(run.files[i]) /\ ~ run.files[i].readable => i \in unread

\* Exit code 0 means every format is on disk, 3 that no file held a pipeline,
\* 4 that nothing was looked at.
ExitCodeTruthful ==
  /\ exit = 0 => artifacts = run.formats
  /\ exit = 3 => \A i \in DOMAIN run.files : Kept(run.files[i]) = << >>
  /\ exit \in {3, 4} => artifacts = {}

\* Before(q, r): the activity at q is analysed before the one at r.
Before(q, r) == q[1] < r[1] \/ (q[1] = r[1] /\ q[2] < r[2])

\* Once an activity got its graph, every later one with the same SQL in the same
\* environment gets that graph, while a failure binds none of them: the inner
\* build is not run again where it could fail.
SuccessIsKept ==
  \A q, r \in DOMAIN updated :
    /\ Before(q, r)
    /\ ActivityAt(q) = ActivityAt(r)
    /\ updated[q].gid # NoGid
    => updated[r].gid = updated[q].gid

\* Sharing graphs between activities is invisible in the run: ids resolve, to a graph of
\* the activity's own call and source, whichever activity built it first.
GraphsAgree == GraphIdsResolve /\ OwnGraph /\ SuccessIsKept

=============================================================================
