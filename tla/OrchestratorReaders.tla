------------------------ MODULE OrchestratorReaders -------------------------
(***************************************************************************)
(* The two readers of orchestrator artifacts, on one file: is it mine, and *)
(* if so, which activities run in it, in which order, after which others.  *)
(* AdfArtifactReader walks a tree of activities, AirflowDagReader a syntax *)
(* tree; OrchestratorLineage takes their pipelines from there.             *)
(***************************************************************************)
EXTENDS Integers, Sequences, FiniteSets, SequencesExt

CONSTANTS
  Nothing,   \* a name, a text, a reference or a variable that is not there
  Ids,       \* activity names and task ids
  EnvRefs,   \* linked services and connection ids
  Vars,      \* variables of a DAG file
  Files      \* what a reader may be given

\* ADF: an activity, the fields of typeProperties that hold SQL, and the lists
\* of nested activities in the order of their keys: activities, ifTrue, ifFalse,
\* default, then one per case.
SqlFields ==
  {"storedProcedureName", "scripts", "text", "query", "sqlReaderQuery", "sqlReaderStoredProcedureName"}
AdfNode ==
  [is_object : BOOLEAN, name : Ids \cup {Nothing}, type : {"proc", "script", "lookup", "copy", "other"},
   fields : SUBSET SqlFields, sql_source : BOOLEAN, env : EnvRefs \cup {Nothing},
   depends_on : Seq(Ids), nested : Seq(Seq(Nat))]

\* Airflow: the operator calls and dependency expressions in the order of
\* ast.walk, expressions of one block.  An expression is a chain x1 op x2 op ..., which Python nests to the
\* left, or x1.set_downstream(x2); an operand is the list of the variables it
\* names, empty when it is neither a variable nor a list of them.
Call ==
  [task_id : Ids \cup {Nothing}, var : Vars \cup {Nothing}, env : EnvRefs \cup {Nothing},
   mssql : BOOLEAN,
   sql : {"literal", "template", "missing", "unreadable", "list", "empty list", "dynamic", "none"}]
Chain == [operands : Seq(Seq(Vars)), ops : Seq({">>", "<<", "set_downstream", "set_upstream"})]

\* The elements of a sequence, and those of them that are in a set, in their order.
Only(seq, set) ==
  LET kept[n \in 0..Len(seq)] ==
        IF n = 0 THEN << >> ELSE IF seq[n] \in set THEN Append(kept[n - 1], seq[n]) ELSE kept[n - 1]
  IN  kept[Len(seq)]

\* The walk yields an activity, then what is nested in it, then its siblings.
Descend(node) == FlattenSeq(node.nested)

\* JSON is a tree: nothing is listed at two places of a file.
ListedOnce(f) ==
  /\ \A p \in DOMAIN f.pipelines : IsInjective(f.pipelines[p])
  /\ \A i \in DOMAIN f.nodes :
       /\ IsInjective(Descend(f.nodes[i]))
       /\ \A p \in DOMAIN f.pipelines : Range(f.pipelines[p]) \cap Range(Descend(f.nodes[i])) = {}
       /\ \A j \in DOMAIN f.nodes :
            j # i => Range(Descend(f.nodes[j])) \cap Range(Descend(f.nodes[i])) = {}

ASSUME ReadersAssumption ==
  /\ Nothing \notin Ids /\ Nothing \notin EnvRefs /\ Nothing \notin Vars
  /\ Nothing \notin {"literal", "template", "list"}
  /\ \A f \in Files :
       /\ f.suffix \in {".json", ".py", "other"}
       /\ f.content \in {"unreadable", "not utf-8", "malformed", "foreign", "artifact"}
       /\ f.nodes \in Seq(AdfNode) /\ f.pipelines \in Seq(Seq(DOMAIN f.nodes))
       /\ \A i \in DOMAIN f.nodes : f.nodes[i].nested \in Seq(Seq(DOMAIN f.nodes))
       /\ ListedOnce(f)
       /\ f.calls \in Seq(Call) /\ f.chains \in Seq(Chain)
       /\ \A i \in DOMAIN f.chains :
            LET c == f.chains[i]
            IN  /\ Len(c.operands) = Len(c.ops) + 1
                /\ (\A j \in DOMAIN c.ops : c.ops[j] \in {">>", "<<"})
                   \/ (Len(c.ops) = 1 /\ Len(c.operands[1]) <= 1)

-----------------------------------------------------------------------------
VARIABLES
  file,        \* never changes
  pc,
  claimed,     \* what can_read answered
  pipeline,    \* position in the pipelines of the file
  pending,     \* ADF: activities still to visit, the next one first
  at,          \* Airflow: position in the calls, then in the chains
  tasks,       \* the activities built: a sequence, as the dict keeps its order
  counter,     \* the order given to the last of them
  edges,       \* a sequence of <<from, to>>
  holds        \* the pipelines done: [activities, edges]

vars == <<file, pc, claimed, pipeline, pending, at, tasks, counter, edges, holds>>

Init ==
  /\ file \in Files
  /\ pc = "can_read" /\ claimed = "unasked"
  /\ pipeline = 1 /\ pending = << >> /\ at = 1
  /\ tasks = << >> /\ counter = 0 /\ edges = << >> /\ holds = << >>

-----------------------------------------------------------------------------
\* Both readers turn OSError and a syntax error into no; a file that is not
\* UTF-8 raises neither.
Answer(suffix) ==
  IF file.suffix # suffix THEN "no"
  ELSE CASE file.content = "not utf-8" -> "raises"
         [] file.content = "artifact" -> "yes"
         [] OTHER -> "no"

CanRead ==
  /\ pc = "can_read"
  /\ LET adf == Answer(".json")
         airflow == Answer(".py")
     IN  /\ claimed' = IF adf # "no" THEN adf ELSE airflow
         /\ pc' = IF adf = "yes" THEN "pipelines"
                  ELSE IF adf = "no" /\ airflow = "yes" THEN "calls" ELSE "done"
  /\ UNCHANGED <<file, pipeline, pending, at, tasks, counter, edges, holds>>

-----------------------------------------------------------------------------
(* ADF.                                                                    *)

\* _iter_pipelines: a bare pipeline is a file with one, an ARM template has one
\* per resource that is a pipeline.
OpenPipeline ==
  /\ pc = "pipelines" /\ pipeline <= Len(file.pipelines)
  /\ pending' = file.pipelines[pipeline]
  /\ pc' = "walk"
  /\ UNCHANGED <<file, claimed, pipeline, at, tasks, counter, edges, holds>>

ThisActivity == file.nodes[Head(pending)]

SkipNonObject ==
  /\ pc = "walk" /\ pending # << >> /\ ~ThisActivity.is_object
  /\ pending' = Tail(pending)
  /\ UNCHANGED <<file, pc, claimed, pipeline, at, tasks, counter, edges, holds>>

\* An activity without a name is not built; what is nested in it is.
SkipUnnamed ==
  /\ pc = "walk" /\ pending # << >> /\ ThisActivity.is_object /\ ThisActivity.name = Nothing
  /\ pending' = Descend(ThisActivity) \o Tail(pending)
  /\ UNCHANGED <<file, pc, claimed, pipeline, at, tasks, counter, edges, holds>>

FirstOf(node, fields) ==
  LET present == Only(fields, node.fields)
  IN  IF present = << >> THEN Nothing ELSE Head(present)

\* _synth_exec, _extract_script_text, _sql_from_source: the field the text is from.
AdfSql(node) ==
  CASE node.type = "proc" -> FirstOf(node, <<"storedProcedureName">>)
    [] node.type = "script" -> FirstOf(node, <<"scripts", "text", "query">>)
    [] node.type \in {"lookup", "copy"} /\ node.sql_source ->
         FirstOf(node, <<"sqlReaderQuery", "sqlReaderStoredProcedureName">>)
    [] OTHER -> Nothing

AdfSupported(node) ==
  \/ node.type \in {"proc", "script"}
  \/ node.type = "lookup" /\ node.sql_source
  \/ node.type = "copy" /\ node.sql_source /\ AdfSql(node) # Nothing

\* Mutant of AdfWarnings: a copy of a whole table is passed over without a word.
AdfWarningsQuietly(node) ==
  (IF node.type = "other" THEN {"unsupported activity type"}
   ELSE IF node.type \in {"lookup", "copy"} /\ ~node.sql_source THEN {"not a SQL source"}
   ELSE IF AdfSql(node) = Nothing /\ node.type # "copy" THEN {"no SQL text"} ELSE {})
  \cup (IF node.env = Nothing /\ AdfSupported(node) THEN {"env cannot resolve"} ELSE {})

AdfWarnings(node) ==
  (IF node.type = "other" THEN {"unsupported activity type"}
   ELSE IF node.type \in {"lookup", "copy"} /\ ~node.sql_source THEN {"not a SQL source"}
   ELSE IF AdfSql(node) = Nothing THEN {"no SQL text"} ELSE {})
  \cup (IF node.env = Nothing /\ AdfSupported(node) THEN {"env cannot resolve"} ELSE {})

AdfActivity(id, node, order) ==
  [from |-> id, id |-> node.name, supported |-> AdfSupported(node), sql |-> AdfSql(node),
   env |-> node.env, order |-> order, depends_on |-> node.depends_on, warnings |-> AdfWarnings(node)]

EdgesInto(a) == [i \in DOMAIN a.depends_on |-> <<a.depends_on[i], a.name>>]

\* Mutant of Visit: the activities of a container are walked before it.
VisitInside ==
  /\ pc = "walk" /\ pending # << >> /\ ThisActivity.is_object /\ ThisActivity.name # Nothing
  /\ IF ThisActivity.nested # << >> /\ ~(\E i \in DOMAIN tasks : tasks[i].from = Head(Descend(ThisActivity)))
     THEN pending' = Descend(ThisActivity) \o pending /\ UNCHANGED <<tasks, counter, edges>>
     ELSE /\ counter' = counter + 1
          /\ tasks' = Append(tasks, AdfActivity(Head(pending), ThisActivity, counter'))
          /\ edges' = edges \o EdgesInto(ThisActivity)
          /\ pending' = Tail(pending)
  /\ UNCHANGED <<file, pc, claimed, pipeline, at, holds>>

Visit ==
  /\ pc = "walk" /\ pending # << >> /\ ThisActivity.is_object /\ ThisActivity.name # Nothing
  /\ counter' = counter + 1
  /\ tasks' = Append(tasks, AdfActivity(Head(pending), ThisActivity, counter'))
  /\ edges' = edges \o EdgesInto(ThisActivity)
  /\ pending' = Descend(ThisActivity) \o Tail(pending)
  /\ UNCHANGED <<file, pc, claimed, pipeline, at, holds>>

ClosePipeline ==
  /\ pc = "walk" /\ pending = << >>
  /\ holds' = Append(holds, [activities |-> tasks, edges |-> edges])
  /\ pipeline' = pipeline + 1 /\ pc' = "pipelines"
  /\ tasks' = << >> /\ counter' = 0 /\ edges' = << >>
  /\ UNCHANGED <<file, claimed, pending, at>>

PipelinesDone ==
  /\ pc = "pipelines" /\ pipeline > Len(file.pipelines)
  /\ pc' = "done"
  /\ UNCHANGED <<file, claimed, pipeline, pending, at, tasks, counter, edges, holds>>

-----------------------------------------------------------------------------
(* Airflow.                                                                *)

\* A template that is there is read at once; one that cannot be ends the file.
AirflowSql(call) == IF call.sql \in {"literal", "template", "list"} THEN call.sql ELSE Nothing
AirflowSupported(call) == AirflowSql(call) # Nothing /\ (call.env = Nothing \/ call.mssql)
AirflowWarnings(call) ==
  (IF call.env = Nothing THEN {"no conn_id"} ELSE {})
  \cup (CASE call.sql = "none" -> {"no sql= parameter"}
          [] call.sql = "missing" -> {"sql template file not found"}
          [] call.sql = "dynamic" -> {"dynamic sql= expression"}
          [] OTHER -> {})
  \cup (IF call.env # Nothing /\ ~AirflowSupported(call) /\ AirflowSql(call) # Nothing
        THEN {"not a mssql connection"} ELSE {})

AirflowTask(pos, call, order) ==
  [from |-> pos, id |-> call.task_id, supported |-> AirflowSupported(call), sql |-> AirflowSql(call),
   env |-> call.env, order |-> order, depends_on |-> << >>, warnings |-> AirflowWarnings(call)]

\* Assignment to the dict: a known key keeps its place and gets the new value.
Keep(seq, task) ==
  IF \E i \in DOMAIN seq : seq[i].id = task.id
  THEN [i \in DOMAIN seq |-> IF seq[i].id = task.id THEN task ELSE seq[i]]
  ELSE Append(seq, task)

ThisCall == file.calls[at]

SkipCall ==
  /\ pc = "calls" /\ at <= Len(file.calls) /\ ThisCall.task_id = Nothing
  /\ at' = at + 1
  /\ UNCHANGED <<file, pc, claimed, pipeline, pending, tasks, counter, edges, holds>>

BuildTask ==
  /\ pc = "calls" /\ at <= Len(file.calls) /\ ThisCall.task_id # Nothing
  /\ ThisCall.sql # "unreadable"
  /\ counter' = counter + 1
  /\ tasks' = Keep(tasks, AirflowTask(at, ThisCall, counter'))
  /\ at' = at + 1
  /\ UNCHANGED <<file, pc, claimed, pipeline, pending, edges, holds>>

ReadRaises ==
  /\ pc = "calls" /\ at <= Len(file.calls) /\ ThisCall.task_id # Nothing
  /\ ThisCall.sql = "unreadable"
  /\ pc' = "failed"
  /\ UNCHANGED <<file, claimed, pipeline, pending, at, tasks, counter, edges, holds>>

CallsDone ==
  /\ pc = "calls" /\ at > Len(file.calls)
  /\ pc' = "chains" /\ at' = 1
  /\ UNCHANGED <<file, claimed, pipeline, pending, tasks, counter, edges, holds>>

\* _map_var_to_task: the last assignment of a variable in the walk counts.
Assigned(v) == {i \in DOMAIN file.calls : file.calls[i].var = v /\ file.calls[i].task_id # Nothing}
TaskOf(v) == file.calls[CHOOSE i \in Assigned(v) : \A j \in Assigned(v) : j <= i].task_id
TasksOf(operand) ==
  LET known == Only(operand, {v \in Vars : Assigned(v) # {}})
  IN  [i \in DOMAIN known |-> TaskOf(known[i])]

\* Mutant of Targets: of a nested shift, the side nearer to its own left end.
TargetsLeft(chain) == [n \in 1..Len(chain.operands) |-> TasksOf(chain.operands[1])]

\* What a chain of n operands stands for when it is itself an operand: its last
\* one after >>, and after << what its left side stands for.
Targets(chain) ==
  LET of[n \in 1..Len(chain.operands)] ==
        IF n = 1 \/ chain.ops[n - 1] # "<<" THEN TasksOf(chain.operands[n]) ELSE of[n - 1]
  IN  of

Pairs(lefts, rights) ==
  FlattenSeq([i \in DOMAIN lefts |-> [j \in DOMAIN rights |-> <<lefts[i], rights[j]>>]])
Backwards(pairs) == [i \in DOMAIN pairs |-> <<pairs[i][2], pairs[i][1]>>]

\* _emit_shift and the two methods: the edges of one operator.
EdgesOf(chain, n) ==
  LET pairs == Pairs(Targets(chain)[n], TasksOf(chain.operands[n + 1]))
  IN  IF chain.ops[n] \in {">>", "set_downstream"} THEN pairs ELSE Backwards(pairs)

\* ast.walk goes by levels: the outermost operator of every chain, its last one,
\* comes before the operators inside.
CollectLevel ==
  /\ pc = "chains" /\ \E i \in DOMAIN file.chains : Len(file.chains[i].ops) >= at
  /\ edges' = edges \o FlattenSeq([i \in DOMAIN file.chains |->
                                    LET c == file.chains[i]
                                    IN  IF Len(c.ops) >= at THEN EdgesOf(c, Len(c.ops) + 1 - at) ELSE << >>])
  /\ at' = at + 1
  /\ UNCHANGED <<file, pc, claimed, pipeline, pending, tasks, counter, holds>>

TaskIds == {tasks[i].id : i \in DOMAIN tasks}

\* Mutant of KnownEdges: the ends are not looked up.
AllEdges == edges
\* The first occurrence of every edge between two tasks.
KnownEdges ==
  LET out[n \in 0..Len(edges)] ==
        IF n = 0 THEN << >>
        ELSE IF edges[n] \in (TaskIds \X TaskIds) \ Range(out[n - 1]) THEN Append(out[n - 1], edges[n])
        ELSE out[n - 1]
  IN  out[Len(edges)]

Predecessors(known, id) ==
  LET into == Only(known, {e \in Range(known) : e[2] = id})
  IN  [i \in DOMAIN into |-> into[i][1]]

AttachDependencies ==
  /\ pc = "chains" /\ \A i \in DOMAIN file.chains : Len(file.chains[i].ops) < at
  /\ holds' = <<[activities |-> [i \in DOMAIN tasks |->
                                   [tasks[i] EXCEPT !.depends_on = Predecessors(KnownEdges, tasks[i].id)]],
                 edges |-> KnownEdges]>>
  /\ pc' = "done"
  /\ UNCHANGED <<file, claimed, pipeline, pending, at, tasks, counter, edges>>

Next ==
  \/ CanRead \/ OpenPipeline \/ SkipNonObject \/ SkipUnnamed \/ Visit \/ ClosePipeline \/ PipelinesDone
  \/ SkipCall \/ BuildTask \/ ReadRaises \/ CallsDone \/ CollectLevel \/ AttachDependencies

Spec == Init /\ [][Next]_vars

-----------------------------------------------------------------------------
(* Properties.                                                             *)

Read == pc = "done" /\ claimed = "yes"
IsAdf == file.suffix = ".json"

\* Some activities and all that is nested in them, at any depth: they are in every
\* set that has them and, with an object, what is nested in it.
Kids(i) == IF file.nodes[i].is_object THEN Range(Descend(file.nodes[i])) ELSE {}
Under(tops) ==
  {i \in DOMAIN file.nodes :
     \A S \in SUBSET DOMAIN file.nodes : tops \subseteq S /\ (\A j \in S : Kids(j) \subseteq S) => i \in S}
Named(S) == {i \in S : file.nodes[i].is_object /\ file.nodes[i].name # Nothing}

\* Nothing nested in control flow is lost or met twice: a pipeline's activities are
\* the named ones it holds, at any depth, each once and numbered as listed, and a
\* container comes before what it holds (_walk_activities, _to_activity).
EveryActivityOnce ==
  Read /\ IsAdf =>
    /\ Len(holds) = Len(file.pipelines)
    /\ \A p \in DOMAIN holds :
         LET acts == holds[p].activities
             place(i) == CHOOSE n \in DOMAIN acts : acts[n].from = i
         IN  /\ {acts[n].from : n \in DOMAIN acts} = Named(Under(Range(file.pipelines[p])))
             /\ \A n \in DOMAIN acts : acts[n].order = n /\ place(acts[n].from) = n
             /\ \A n \in DOMAIN acts : \A i \in Named(Kids(acts[n].from)) : n < place(i)

\* An activity the build will pass over because it has no SQL text or no connection
\* says why in a warning; the one exception is an operator given an empty list.
Explained ==
  \A p \in DOMAIN holds : \A n \in DOMAIN holds[p].activities :
    LET act == holds[p].activities[n]
    IN  act.sql = Nothing \/ act.env = Nothing =>
          act.warnings # {} \/ (~IsAdf /\ file.calls[act.from].sql = "empty list")

\* The two places a dependency is kept agree: an edge of a pipeline is in the
\* depends_on of the activity it ends at, and no other dependency is there.  From a
\* DAG, moreover, an edge joins two tasks that were built, and is there once.
DependenciesAgree ==
  \A p \in DOMAIN holds :
    LET acts == holds[p].activities
        es == holds[p].edges
    IN  /\ Range(es) = UNION {{<<d, acts[n].id>> : d \in Range(acts[n].depends_on)} : n \in DOMAIN acts}
        /\ ~IsAdf => /\ IsInjective(es)
                     /\ \A e \in Range(es) : \E m, n \in DOMAIN acts : acts[m].id = e[1] /\ acts[n].id = e[2]

\* A task id names one task of a DAG, the one the walk of the file meets last, so a
\* dependency on it means one task (read, the dict of tasks).
LastDefinitionWins ==
  Read /\ ~IsAdf =>
    LET acts == holds[1].activities
    IN  \A n \in DOMAIN acts :
          /\ \A m \in DOMAIN acts : acts[m].id = acts[n].id => m = n
          /\ \A i \in DOMAIN file.calls : file.calls[i].task_id = acts[n].id => i <= acts[n].from

\* A dependency names one task, which knows of it.
TasksAgree == DependenciesAgree /\ LastDefinitionWins

\* What the program's user wrote: in a chain, every task of an operand comes before
\* every task of the next one after >>, and after it after <<.
Meant(chain) ==
  UNION {LET here == Range(TasksOf(chain.operands[n]))
             there == Range(TasksOf(chain.operands[n + 1]))
         IN  IF chain.ops[n] \in {">>", "set_downstream"} THEN here \X there ELSE there \X here
         : n \in DOMAIN chain.ops}

\* The dependencies of a DAG whose longer chains use only >> are the ones its file
\* states.  A chain of two << is left out: the code takes its last operand to run
\* before the first one, not before the one to its left (_collect_targets).
RightChainsExact ==
  Read /\ ~IsAdf
    /\ (\A i \in DOMAIN file.chains : Len(file.chains[i].ops) > 1 =>
          \A j \in DOMAIN file.chains[i].ops : file.chains[i].ops[j] = ">>")
    => Range(holds[1].edges) = UNION {Meant(file.chains[i]) : i \in DOMAIN file.chains}

=============================================================================
