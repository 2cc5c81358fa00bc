# dacpactools: a verification development

TLA+ models of `dacpactools` (`src/src/dacpactools`), a single-threaded command-line
program that reads SQL Server object models (`.dacpac` files through DacFx, or a live
database), follows references between objects, parses their bodies with ScriptDom, and
writes lineage graphs, drop scripts, join lists and index recommendations. The models are
translated from the source; TLC checks them on small instances and TLAPS proves the most
important properties for every instance.

## The system

| component | state it keeps | operations | what is hard |
|---|---|---|---|
| lineage build (`application/use_cases/build_lineage.py`, `presentation/commands/lineage.py`) | the deque, the `nodes` dict, the edge list, warnings | find the root, breadth-first walk, reverse mapping pass, write JSON and HTML | cycles, several paths to one object, the depth limit, filters, five ways one body can fail, node replacement |
| domain (`domain/*.py`) | immutable values | `node_key`, `ObjectRef.parse`, `is_leaf`, `has_body` | identity: case and database of a name |
| DacFx access (`infrastructure/dacpac`) | the loaded model | `find_object`, `get_referenced`, `resolve_synonym_target`, `get_body_script` | the same object under different names; exceptions out of .NET |
| parsing (`infrastructure/scriptdom`) | scopes while a body is visited | parse, walk statements, map columns, CTAS specs | CTE and derived-table scopes, star expansion, ordinal merge |
| orchestrator lineage (`build_orchestrator_lineage.py`, `infrastructure/orchestrator/env_map_service.py`) | the environment map, the graph cache, run and activity warnings | discover files, read, analyse each activity, write | failures that must stay local, a cache shared by activities, retries |
| artifact readers (`adf_artifact_reader.py`, `airflow_dag_reader.py`) | the tasks and edges of one file | recursive activity walk, dependency edges | nested control flow, chained shifts, duplicate names |
| drop script (`generate_drop_script.py`) | objects collected by type | collect, order, render | order against dependencies |
| recommendations (`recommend_index_stats.py`, `_recommendation_rules.py`) | profiles per table, proposals | collect consumers, sample a live database, apply rules, write | rules that contradict one another, thresholds, connection lifetime |
| column usage and joins (`column_usage_finder.py`, `join_finder.py`) | a stack of scopes | visit, resolve aliases, emit | scope push and pop |
| Azure SQL client (`infrastructure/azure`) | one connection | open, detect, fetch, close | partial failure |
| .NET bootstrap and NuGet cache (`infrastructure/dotnet`) | the cache directory, shared by processes | fetch, extract, probe, load | crashes and several processes |
| writers (`infrastructure/writers`, `infrastructure/viz`) | files in the output directory | temporary file and rename | crashes, two runs with one name |

The commands call the use cases, the use cases call ports, the infrastructure implements
them; there are no threads, callbacks or messages inside one process. What interacts across
processes is the file system: the NuGet cache, the runtime configuration in the temporary
directory, the output directory. The orchestrator build runs the lineage build once per
distinct stored-procedure call it finds. `PROJECT.json` lists every component, and under
`hazards` what in each of them a test would hardly reach, with the line it bites at.

### What makes each component correct

* Lineage build: it ends on every graph; the nodes are exactly the objects in reach within
  the limit and filter, each visited once and at its shortest distance; the root is there;
  no edge dangles but a synonym's; a body that could not be mapped is named in a warning; a
  table carries the specification the pass applied to it last; the exit code tells what is on
  disk.
* Orchestrator: a failing file or activity costs only itself and is explained by a warning;
  every graph id resolves; an activity gets the graph of its own SQL in its own environment.
* Readers: every activity in nested control flow is met once; dependencies name activities.
* Drop script: what is dropped is exactly what the dacpac has not; the script is whole or not
  there; the connection is closed on every path.
* Recommendations: no proposal duplicates what exists, and the proposals for a table go together; the
  connection is closed on every path.
* Finders and the visitor: a name resolves in the scope it stands in.
* NuGet cache and writers: a marked directory is whole; a partial file is only ever what a process
  left that was stopped in the middle of writing it.

## Modules

| module | what it is |
|---|---|
| `BuildLineage` | the lineage build, from the command line to the exit code |
| `LineageClosure` | what the walk promises: a search by whole layers, with no queue in it |
| `MCBuildLineage` | the instances TLC checks |
| `BuildLineageProofs` | type, walk, mapping pass, exit code, exact closure, and that the walk implements `LineageClosure`, for every instance |
| `OrchestratorLineage` | the orchestrator build, from the command line to the exit code |
| `MCOrchestratorLineage` | the instances TLC checks |
| `OrchestratorLineageProofs` | theorems about `OrchestratorLineage` |
| `OrchestratorReaders` | the ADF and the Airflow reader on one file |
| `MCOrchestratorReaders` | the files TLC reads |
| `OrchestratorReadersProofs` | theorems about `OrchestratorReaders` |
| `NugetCache` | processes that resolve assemblies, fill the shared cache and host the runtime |
| `MCNugetCache` | the instances TLC checks |
| `NugetCacheProofs` | theorems about `NugetCache` |
| `DropScript` | the drop-script command, from the command line to the file and the exit code |
| `MCDropScript` | the instances TLC checks |
| `DropScriptProofs` | theorems about `DropScript` |
| `RecommendRules` | the rules of each platform, as operators on a profile and a catalog |
| `Recommend` | recommend-index-stats, from the command line to the exit code |
| `MCRecommend` | the instances TLC checks |
| `RecommendProofs` | theorems about `Recommend` |
| `SqlBody` | the bodies the three walkers read: statements, queries, FROM items, expressions |
| `SqlMeaning` | what a body means in SQL: the reference, which translates no code |
| `SqlSamples` | constructors for the bodies of the two MC modules below |
| `SelectLineage` | `SelectLineageVisitor` on one body, with the statement walk around it |
| `MCSelectLineage` | the bodies TLC checks |
| `SelectLineageInvariant` | the invariants of `SelectLineage`, in the parts the proofs use |
| `SelectLineageProofs` | theorems about `SelectLineage` |
| `ColumnUsageFinder` | the walk of column-usage over one body |
| `JoinFinder` | what one join of a body gives to joins |
| `UsageScan` | the commands column-usage and joins, composed of the two finders |
| `MCUsageScan` | the dacpacs TLC checks |
| `UsageScanProofs` | theorems about `UsageScan` |

`OrchestratorLineage` takes the pipelines `OrchestratorReaders` ends with and the outcome of
`BuildLineage`; `BuildLineage` takes from `SelectLineage` only whether it maps or fails;
`Recommend` takes the citations `ColumnUsageFinder` produces; `UsageScan` runs both finders.
Between two of them passes a value and no more, so they are composed by what they promise
one another, not by a product of their states; `UsageScan` is the composition where the
parts do share state.

### BuildLineage

The state is the state of the code: `queue` is the deque of `_bfs_traverse`, `nodes` the
dict in insertion order, `edges` the edge list, `cur`/`pending` the iteration over
`get_referenced`, `todo`/`mapped`/`synapse`/`warnings` the mapping pass, `artifacts` the
files written, `pc` the statement the process is at and `exit` its exit code. `depth` in
the entries of `nodes` is a history component: the code has it in the queue only.

| action | code |
|---|---|
| `RejectArguments`, `InitialiseClr` | `lineage.py` 51-93: exit codes 2 and 4 |
| `RootMissing`, `StartWalk` | `build_lineage.py` 54-63, `find_object` |
| `SkipVisited` | 97-100, an entry whose object is already a node |
| `VisitLeaf`, `VisitSynonym`, `VisitAtLimit`, `VisitAndExpand` | 101-115: the four ways a visit goes on, sharing `Visit` |
| `PassOverReference`, `EnqueueReference`, `FinishScan` | 115-119, one reference per step, in any order |
| `FinishWalk` | the loop ends, the mapping pass starts from the last node |
| `PassOverBodiless`, `WarnNoScript`, `WarnMappingFailed`, `MapNode`, `FinishPass` | 127-166, one node per step |
| `WriteJson`, `WriteHtml`, `Succeed` | 73-77 |
| `Abort` | an exception no handler of the use case catches, in any phase: exit code 1 |

Abstractions. An object stands for a (schema, name) pair whatever its case, because
`node_key` and DacFx both ignore case; the database is kept, because `node_key` keeps it.
`get_referenced` removes columns, schemas and duplicates: `refs` is the set that remains,
enumerated in any order. A body is one of five outcomes (no script; parsed with or without
reported errors, then mapped or failing in the extractor). Column lists and mappings are
left out: nothing in the control of the build depends on them. The set of candidate types
in `find_object` loses its order because one (schema, name) has one type in a model.

`LineageClosure` has no queue: a step completes a whole layer. `BuildLineage` implements
it under the mapping `Layer`/`LayerReached`/`LayerFrontier` (property `WalksInLayers`);
most steps stutter, the visit that completes a layer is the abstract step.

### OrchestratorLineage

`file`, `unread` and `pipelines` are the reading loop (`unread` stands for `run_warnings`),
`at` is where the two nested loops over pipelines and activities stand, `updated` the new
activities with the two fields the analysis sets (`lineage_graph_id` and `warnings`),
`graph_cache` the dictionary that becomes `lineage_graphs`.

| action | code (`build_orchestrator_lineage.py` unless named) |
|---|---|
| `InitialiseClr`, `LoadEnvMap` | `orchestrator.py` 83-87 (exit code 4); `env_map_service.py` 32-47 (exit code 1) |
| `PassOverFile`, `CanReadRaises`, `ReadFile`, `ReadFails` | 71-75 and `_match_readers`, one file per step |
| `NothingRead`, `FinishReading` | 77-83, exit code 3 |
| `PassOverWithoutSql`, `WarnNoEnvRef`, `WarnNoMapping`, `ReuseGraph` | 131-153, the early returns |
| `ExecBuilds`, `ExecFails` | 155-193, the inner lineage build with its two handlers |
| `AnalyseOther` | 195-215, the placeholder graph |
| `NextPipeline`, `FinishAnalysis` | the loops of 84-95 |
| `WriteJson`, `WriteHtml`, `Succeed` | 109-120 |
| `Abort` | a call without a handler raises: exit code 1 |

Each analysis action is `Record` (the caller's loop body, 86-92) with its own gid and
warnings, and `Cached` where the caller stores the graph.

`Kept`, `KeptOfFiles` and `Joined` are the loop's accumulations written as sets and folds.

Abstractions. What a reader finds in a file is an input of the run, as are the reference to
SQL text relations (`ExecOf`, `Malformed`). `Lower` is the case folding of the map; the graph
id keeps both texts as spelled and is taken to be injective, which a truncated SHA-1 is
not quite. A graph is the source and the procedure it was built from, or, for a
placeholder, the position of the activity it is named after. The inner build is
`BuildLineage` seen from outside: it ends with a graph or with one of the two exceptions
that are told apart; that it ends is `Termination` of `BuildLineage`.

### NugetCache

The only state that several processes share: the cache directory (`content`, `nupkg` and
`marker`, per package version) and the runtime configuration file in the temporary directory
(`config`). A file is absent, partial or whole, because `write_bytes` and `write_text` open
(and truncate) first and write then. Each process has the settings it runs with, the place
it is at, and what `_resolve_one` has answered so far. `died` is history: the write in whose middle
a killed process was.

| action | code (`infrastructure/dotnet`) |
|---|---|
| `Start` | `autodetect_runtime`, `assembly_loader.py` 34-48 |
| `UseHint`, `UseTool`, `UseCached`, `UseSsdt`, `NothingProbed` | `_resolve_one` 63-78, in this order; `cached_nuget_dll` is `CachedVersions` |
| `ResolveVersion`, `CacheHit`, `CacheMiss`, `FeedFails`, `Download` | `nuget_fetcher.py` 36-62 |
| `CreateNupkg`, `WriteNupkg`, `OpenNupkg`, `NupkgBroken` | 63-65; a package truncated by another process is a `BadZipFile` |
| `CreateEntry`, `WriteEntry`, `Mark` | 66-76, entry by entry, then the marker |
| `Fetched`, `NotContained`, `DoWithout` | `_resolve_one` 78-84 and what `resolve_all` forgives the optional package (112-126) |
| `InstallEnds` | `tools install-dacfx` stops after resolving |
| `FindConfig`, `CreateConfig`, `WriteConfig`, `LoadAssemblies` | `clr_bootstrap.py` 28-102 |
| `Crash` | the process is killed, or a write fails |

Abstractions. `lib/<tfm>/<dll>` is one file per version and framework; the other entries of a
package are left out. A probe is one step. What is installed outside the cache (hint, tool,
SSDT, .NET 8) is part of the settings and never changes. Versions are numbered in the order
of their directory names, which is what `sorted` compares. `install-dacfx --runtime both` is
two processes one after the other. `netfx` writes a configuration file of its own, for which
`config` does not stand.

### DropScript

The state is `execute`'s: `keys` is `dacpac_keys`, `connected` whether the connection is open,
`at` where the loop over `db_objects` stands, `orphans` and `warnings` its two lists, `script` the
objects of the rendered statements in their order; `temp` and `file` are the temporary file
and the file under its final name, each absent, partial or whole.

| action | code (`generate_drop_script.py` unless named) |
|---|---|
| `RejectArguments`, `AcceptArguments`, `Compose` | `presentation/commands/drop_script.py` 53-75: exit codes 2 and 4 |
| `LoadDacpac`, `GetToken`, `OpenConnection` | 70-79; `Listed` is `dacpac_service.py` 74-96 |
| `ListLive`, `ListFails`, `CloseConnection`, `CloseAndRaise` | 80-83, the `try` and its `finally`; `sql_client_service.py` 122-154 |
| `PassOver`, `WarnUnknown`, `CollectOrphan`, `FinishCollecting` | 92-104, one object per step |
| `Sort`, `Render` | 106-116, 160-172: the sort by type and name, the buckets, the statements |
| `CreateTemp`, `WriteTemp`, `WriteFails`, `Unlink`, `Replace` | `atomic_write_text`, `filesystem.py` 8-18 |
| `Report` | `presentation/commands/drop_script.py` 91-93, behind the handler |
| `Raise` | a call outside the `try` of the query raises: exit code 1 |
| `Crash` | the process is killed, or interrupted by an exception that `except Exception` does not catch |

Abstractions. A spelling is a model value and `Lower` its place in the alphabet once its case is
folded. A statement is the object it drops. The header of the script and its name are left
out. `Arrangements` says what a sort returns, not how. The order of the query, `ORDER BY
s.name, o.name` under a collation, is any order: the stable sort that follows makes it matter
only between spellings of one name. `DependsOn`, the dependencies between the objects of the database,
is no part of the program, which never asks for them. A type the query does not ask for
cannot come back as `UNKNOWN` today; the branch is modelled because the code has it.

### OrchestratorReaders

One file and the reader it is offered to. `pending` is the stack of `_walk_activities`, `at` the
position among the calls, then among the dependency expressions of a DAG file, `tasks` the
activities in the order of the dictionary, `counter` the order given to the last of them.

| action | code |
|---|---|
| `CanRead` | `build_orchestrator_lineage.py` 242-256, both `can_read` |
| `OpenPipeline`, `SkipNonObject`, `SkipUnnamed`, `Visit`, `ClosePipeline`, `PipelinesDone` | `adf_artifact_reader.py` 42-223: an activity becomes a task and its nested lists go on the stack in front of what is pending |
| `SkipCall`, `BuildTask`, `ReadRaises`, `CallsDone` | `airflow_dag_reader.py` 91-213: a call per step; a template that cannot be read, or that is no text, raises |
| `CollectLevel` | 216-297: one level of a chain `x1 op x2 op ...`, from the inside out |
| `AttachDependencies` | 41-62, 253-265 |

`Only` keeps what a list holds for the first time, as the loops with a `seen` set do
(`_collect_chain_edges`, 282-293); `KnownEdges` and the collected edges are such loops. `Under` is what
a pipeline holds at any depth, the least set that is closed under nested lists, and translates no
code: the properties compare with it what the stack has visited.

Abstractions. A file is a tree of nodes with the fields the reader tells apart; an operand of a
shift is the list of the variables it names. SQL is the set of fields that hold some. JSON is a
tree, so no activity is listed at two places (`ListedOnce`, part of `ReadersAssumption`), and what
stands for a missing value is no text.

### Recommend and RecommendRules

The state is `execute`'s: `conn` and `platform`, `at` where the loop over the model, over the
tables found or over the profiles stands, `tables`, `profiles`, what was read for the profile at
hand (`indexes`, `statistics`, `live`), `recs` what each table is told, `files` what has its final
name.

| action | code (`recommend_index_stats.py` of the use case unless named) |
|---|---|
| `Arguments`, `Compose`, `ComposeFails`, `Report` | the command, 62-143: exit codes 2, 4, 1 and 0 |
| `Load`, `Token`, `Open`, `Detect`, `Probe`, `Escapes` | 71-96, 155-161; `sql_client_service.py` 64-70, 156-205 |
| `PassOverTable`, `AddTable`, `TablesListed` | 163-174 |
| `Collect`, `BuildProfile`, `ProfilesDone` | 176-276, 331-371: citations folded by column and context |
| `FetchIndexes`, `FetchStatistics`, `SampleLiveMetrics` | `sql_client_service.py` 207-305; 278-315 |
| `ApplyRules` | 115-132: `RuleOutput` of `RecommendRules` |
| `Raises`, `Unwind`, `Close` | the `try` and its `finally`, 98-135 |
| `Write`, `WriteFails` | 317-328, the script and then the report |

`RecommendRules` has no state: `Statistics`, `SqlServerIndexes`, `SynapseIndexes`,
`SynapseDistribution` and `FabricClusterBy` are the rule functions of
`_recommendation_rules.py`, each a set of proposals from a profile, the catalog and the
measurements; the platform's predicates and the engine editions are those of `enums.py`.

Abstractions. A name is a model value with two ranks, the place in the alphabet and the sum
of its characters, because the rules break ties by the one and the sampler by neither. The
widths and counts the rules compare with (`WideTable`, `HeavyUse`, `ClusterByMax`,
`IncludeMax`, `SampleMax`) are constants; rows, sizes and skews keep the code's thresholds.
What the walkers find in a body is an input.

### SqlBody and SqlMeaning

A body is a record of queries, each of which refers to earlier ones by position (a derived
table, a branch of a UNION, a CTE), and of statements nested the same way. An expression is
a kind, the references it holds in order, and its window if it has one: the kinds are the
branches of `_walk_expression`, not the operators of T-SQL; a searched and a simple CASE are two of
them. A subquery and an expression no walker knows keep the columns they name, so that what is not
walked can be missed. The ORDER BY of a SELECT is a field of the statement, where both walkers look for it. `BodyAssumption` says what the parser
guarantees of a syntax tree: what a query refers to has a lower position, what a statement holds a
higher one, a derived table has an alias, the common table expressions of a statement have different names.
Objects are `dbo.t`, `load.t` and `dbo.u`. `SqlMeaning` says which columns of which object a column of a query comes from, which
names are ambiguous, and which statements compile (`Compiled`: each column means one table, a join condition speaks of tables
joined so far, branches of a UNION are as wide); a value comes from every column its expression names,
those that choose the branch of a CASE included, as `src/README.md:143` has it. It is written from SQL, and the walkers are checked
against it on statements that compile.

### SelectLineage

One frame of `stack` per query being visited, with the scope it builds; `cte_scope` and the scopes
below a frame are its parents; `expansions` is the dictionary of virtual columns, which
outlives scopes as it does in the code.

| action | code (`select_lineage_visitor.py` unless named) |
|---|---|
| `Unfold`, `StartStatement`, `FinishStatement`, `AllDone` | `parser_service.py` 41-79, 153-179; the ORDER BY at the end of a SELECT, 49, 654-671 |
| `OpenStatementQuery`, `SkipValues`, `RegisterCte` | 41-91, 268-291 |
| `BindTable`, `SkipTable`, `OpenDerived`, `BindDerived` | 316-355, one FROM item per step |
| `CollectJoinCondition` | 589-633, 720-750 |
| `MapScalar`, `ExpandStar`, `SkipElement` | 357-549, one select element per step |
| `OpenBranch`, `LeftDone`, `RightDone` | 253-262, 752-771: UNION by ordinal |
| `Return`, `Overflow` | 311-314; 551-570, the recursion of `_expand_virtual_column` |

The code's lists of columns are sets here, so the partner of a join pair, `right_cols[0]`, is any of the
columns that the first name on the right comes from (`FirstFound`, `PairsOf`): one column, and one
of several when that name is a derived column computed of several. `JoinPairsKept` asks for no more.

The recursion is not followed call by call: `Depth` says whether it ends, `Trace` what it
answers, and `Overflow` is the exception when it does not (`Endless`). `ItemsIn` and `ElementsIn` are
what a query has to visit, for a MERGE its target and source and its assignments.

### ColumnUsageFinder, JoinFinder and UsageScan

`agenda` is the call stack of the finder, as tasks still to do; `building` and `scopes` are its two
lists of scopes, `stmt_kind` the field it saves and restores around a statement. `FinderStep` takes
the first task: the `Visit*` operators put the tasks of a node in its place, in the order the
code calls them. `EmitJoin` is `_emit_join` on one join: the tables of both sides flattened,
equalities paired, one usage per side that is the target. `FlattenNamedTables` keeps each table at its
position in the FROM, and the equalities of a condition are a set, because the usages are keyed by the
other table and merged. An entry of the report is `Entry`: a consumer and what was found in it.

`TreeAssumption` adds to `BodyAssumption` that a query stands at one place of its statement, so it is inside
one common table expression or none.

| action | code (`find_column_usage.py`, `find_joins.py` and their commands) |
|---|---|
| `Arguments`, `Compose`, `ComposeFails`, `Load`, `LoadFails` | `column_usage.py` 73-118, `joins.py` 38-67 |
| `SkipConsumer`, `ScriptRaises`, `StartScan` | 51-58: no script, a script that cannot be read, a parse |
| `Find` | `FinderStep` on the agenda |
| `AcceptStatement`, `AcceptQuery`, `VisitJoin` | `join_finder.py` 54-71, the ScriptDom visitor in document order |
| `CollectHits`, `ScanRaises`, `AllScanned` | 59-88 |
| `Write`, `WriteFails`, `Echo` | 129-139, the two files in place |

## Runs

| run | question | bounds |
|---|---|---|
| `lineage_walk` | does the walk find exactly what is in reach, once, at its shortest distance, and end? | four objects: a procedure with any references, itself included, a view with any references but itself, a third object (view, synonym or unknown type), a table; with and without views in the filter; no limit, 1, 2. Two cycles, a diamond and a path longer than the limit all occur. |
| `lineage_build` | is any body passed over silently, does every table end with the spec applied to it last, and does the exit code tell the truth? | all five outcomes for two bodies, two for a third; specs for a table, for another body, and for one target from two statements or from two bodies; every root type, two lookups, a model schema without two types, a negative limit, every set of formats |
| `orchestrator_build` | do ids, graphs and warnings agree, however activities share graphs and inner builds fail; does a failure stay with its file; does the exit code tell the truth? | every three of eleven activities, in two of three pipelines; two spellings of one environment, a second environment, an unmapped one and none; two procedures, a query, a malformed query, no SQL; two or three files out of every combination of suffix, `can_read`, `read` and contents; all artifact types and formats; no file at all |
| `nuget_overlap` | does overlapping extraction leave the marker or an ensured file untrue? | two processes in every interleaving, two packages (one optional), two versions of which one lacks net472, six settings with every source of a file |
| `nuget_crash` | does the marker survive crashes; can a process that resolved fail to load for anything but a file whose writer was killed? | three processes one after the other, each killed at any point; three settings |
| `drop_script` | is a script there exactly the difference, in the reported order, whole, with the connection closed and a true exit code? | every list of up to three of eight objects, in every order; four dacpacs; three filters; all failing arguments; a DacFx without external tables; every failure and a kill at any step |
| `recommend` | is the connection closed on every path, does every proposal rest on evidence and a measurement, do the proposals for a table go together, and is every join key served; is the exit code true? | two tables (`fact` with a, b, c; a staging table with k), two bodies with every context, ties and joins of each, bodies that fail to parse or raise; every platform and engine edition; five index catalogs, three statistics catalogs, rows at 999,999, 60,000,001 and 100,000,000, sizes 2,047 and 2,048, skews 20 and 21, each unknown too; index names that are equal once cut; a failure at any call |
| `fabric_excluded_types` | a column of a type CLUSTER BY refuses is left out (`test_recommendation_rules.py:212`) | violated: the types never reach the rule |
| `orchestrator_readers` | is every activity met once and in order, does what lacks SQL say why, do dependencies and tasks agree, are right chains read exactly? | pipelines of up to five activities in every shape of nesting, two pipelines, no pipeline; three calls and two dependency expressions with up to three operands, each operator in each place, lists and unknown operands; every suffix and content of a foreign file |
| `select_lineage` | is each column traced to all it comes from, does a reference that is not found warn, is every statement and join pair there, does only a reused alias overflow, does the walk end? | up to three queries one inside another; derived tables, CTEs with and without a column list, stars, UNIONs, windows, both forms of CASE, ORDER BY, joins of every shape of condition; INSERT with and without columns, MERGE, blocks, IF, TRY, WHILE; view columns. 85,574 states, the longest run |
| `readme_named_queries` | README: CTE and derived table are traced | violated: a CTE is looked up among the objects |
| `usage_scan` | is each use where the finder looks cited or warned of and each citation a use, does a failure cost its consumer only, are join pairs those of the ON clause, is the exit code true? | every clause and expression kind, both forms of CASE, subqueries and unknown expressions that name the column, ORDER BY; SELECT, INSERT, UPDATE, MERGE, blocks; joins of up to three tables, self joins, joins with a common table expression, and equalities in either order; a MERGE with a common table expression and a derived source; up to three consumers, one of which has no script, raises, has errors or has no fragment; a trigger nobody asks for |

Three activities are enough: the properties compare an activity with an earlier one that
shares its graph, and the third can come between them or fail first. With three files, one
can fail before and one after a file that is read.

Two processes are enough for overlap: a file has one writer that has finished and one that
started before the marker. Of three successive processes one can be killed while extracting,
one finds what it left, and one comes after the repair. Overlap and crashes are not combined in a run:
a process killed while it extracts again what another has marked does leave a partial file
behind a true-looking marker, and the theorems about the marker assume that this does not happen.
`LoadFailsForACause` needs no such assumption; it is proved for both together.

Three objects are enough for `drop_script`: its properties relate an object to the dacpac, which no
other object changes, and two orphans to their places in the script; the third can stand
between them. `ScriptIsTheDifference` is proved for any number.

Four objects are enough for the walk: the properties relate two objects and a path between
them, and a shortest path that competes with a longer one needs three objects besides the
root. The theorems below remove the bound for all of them but `Termination`.

For `recommend`, two tables: the rules look at one table at a time, and the second shows that what
was read for one is not used for the other. The scaled constants keep the relations the
code's have: there are more columns than are sampled, more filtered columns than CLUSTER BY
takes, and a table one column wider than a narrow one.

For the walkers, three queries: the scope of a query, the one around it and the one that
answers; two objects of one name and one that shares their columns make every lookup that
can be captured one that is. Bodies that SQL rejects are left out, because nobody can store one.
A join of three tables is the smallest whose tree has a join below a join.

Deadlock is checked where the ended process stutters (`BuildLineage`, `OrchestratorLineage`,
`NugetCache`, `DropScript`). In the other modules the process has no step after its end,
and their configurations say `CHECK_DEADLOCK FALSE`; that they do not stop before is
`Termination` in `SelectLineage`; for the others no run states it.

### Fairness

`FairSpec` is weak fairness of `Running /\ Progress`: as long as the process can execute its
next statement, it does; in `SelectLineage` it is `WF_vars(Next)`, every step of which is the
next statement. That is what an interpreter does with a single thread; no fairness
is assumed of `Abort`, of any outcome of .NET or of any order of references. The other modules state no
fairness and no liveness.

## Proofs

`BuildLineageProofs` proves, for every set of objects, every model and every request that
satisfy `InputsAssumption` (a typing of the constants):

* `TypeCorrect`: `Spec => []TypeOK`.
* `WalkInvariant`: `WalkInv` is inductive relative to `TypeOK`. Neither `ShallowestVisit`
  nor `EdgesClosed` is inductive alone: that a node is no deeper than one below what
  references it depends on what the queue holds in between. `WalkInv` says that the queue
  is sorted by depth and spans at most one layer (`Sorted`), that no node is deeper than
  anything queued (`NodesAbove`), where the object being expanded stands (`Scanning`), that
  the target of every edge is a node no deeper than one below its source or is queued exactly one
  below (`Tracked`), and that the root is a node or queued (`RootTracked`).
* From it: `RootAlwaysPresent`, `EachVisitedOnce`, `EdgesAlwaysClosed`, `AlwaysShallowest`, and
  their conjunction `WalkAlwaysSound`.
* `PassInv` (everything beyond `todo` is accounted for and everything mapped is beyond it; every
  node carries the spec given to it last, of the bodies mapped so far, or none) gives `GapsAreWarned` and `SpecsAreRecorded`; `ExitInv` gives `ExitCodeIsTruthful`.

The closure, in the same module, rests on one more assumption, `FiniteAssumption`: a model holds
finitely many objects and databases.

* `BallEquation`: the reference definition `Ball` is a recursive function, and TLA+ chooses one
  that satisfies its equation if there is one. The library's theorems that show that there is
  take an operator, which cannot be instantiated here, so a solution is exhibited: the ends of
  the walks of length k that may stand still.
* `ClosureInvariant`: `ClosureInv` is inductive relative to `TypeOK` and `WalkInv`. `QueueFounded` says
  that what is queued is the root or was referred to by a node one layer above, within the
  limit; `NodesFounded` that a node at depth d is in `Ball[d]` and is at least the (d+1)st, so
  that no depth exceeds the number of objects; `NodesSorted` that nodes stand in the order of
  their depths; `Expanded` that what a node above the limit refers to has an edge, or is
  still to be enumerated.
* `AlwaysExactClosure`. A node is in reach by `NodesFounded`. An object in reach is a node by the
  least distance at which one would be missed: its parent is a node above the limit, has
  been expanded, and the target of an edge is a node once the queue is empty (`Tracked`).
* `AlwaysWalksInLayers`: `Layered` says that the walk stands in the layer of the last node or
  the next, and that in the latter case the queue holds what the last layer refers to
  and is not a node. Then each step that moves on to the next layer is `NextLayer`
  (`LayerDone`), starting the walk is `Start`, and every other step stutters.

`OrchestratorLineageProofs` proves, for any files, environments, SQL texts and outcomes of the
inner build (`RunsAssumption` types the constants):

* `TypeCorrect`: `Spec => []TypeOK`.
* `ResultInvariant`: `ResultInv` is inductive relative to `TypeOK`. What is promised about graphs
  is not inductive alone: `InOrder` says that every result stands before the activity being
  analysed, so a result is never overwritten; `OwnGid` that an id on an activity is the
  activity's own; `CacheTruthful` that what the cache holds under an id was built in that
  environment's source from that text's procedure. A step either records a result without
  a graph (`NoGraphStep`), records one with a graph (`GraphStep`) or leaves the results alone
  (`QuietStep`).
* From it: `IdsResolve`, `GraphIsOwn`, `MissingIsExplained`, `GraphIsKept`, and `GraphsAlwaysAgree`.
* `RunInvariant`: what has been read is what the files passed so far hold (`ReadInv`), results
  exist for what has been analysed and for nothing else (`DoneInv`), and an exit code stands
  only where it may (`ExitInv`). From it: `FailuresAlwaysStayLocal`, `ExitCodeAlwaysTruthful`.

`NugetCacheProofs` proves, for any processes, packages, versions, zip contents and settings
(`CacheAssumption` types the constants):

* `TypeCorrect`: `Spec => []TypeOK`, with `Progressing`: a process that resolves has a package
  left, one that fetches has a version.
* `MarkerIsTrue` and `EnsuredStaysWhole`, assuming `Crashes => ~ Overlap`. `MarkedIsWhole` is not
  inductive alone. A file is `Sound` when it is whole or somebody is writing it; `SoundKept`
  says that no step but a kill in the middle of that write ends it. `Extracted` says that what a
  process has extracted so far is sound, so the marker may be written when nothing is left;
  `Unmarked` and `Alone` say that without overlap nobody extracts into a marked directory, so a
  kill cannot ruin one; `OnlyEntries` and `Ensured` carry the marker over to the answers.
* `LoadFailuresHaveACause`, with any overlap and any crashes, from `LoadInv`: whatever is partial has
  somebody who is in the middle of writing it or was killed there (`FilesCut`, `ConfigCut`); the
  configuration is there when a process is about to load (`ConfigThere`), and so is every file it
  took from the cache (`AnswersThere`). That it may be loaded all the same is what the code leaves
  open: a configuration that a kill cut short is found by every later process and repaired by none, a
  dll without its marker only by one that fetches the version again for the other framework.

`DropScriptProofs` proves, for any spellings, dacpac, database and filter (`DropAssumption` types
the constants):

* `TypeCorrect`: `Spec => []TypeOK`.
* `ScriptsAreWhole`, `ConnectionIsReleased` and `ExitCodeIsTruthful` from `EndInv`, which says at which
  places the connection is open, a temporary file exists and the script has its name.
* `ScriptIsExact` from `ContentInv`: what has been collected is the difference of what has been seen
  (`CollectKept`), and neither the sort nor the rendering loses or adds an object
  (`SortArranges`, `RenderArranges`, on `Arranged`). The second needs `OrderIsTotal`: every type that
  gets past the comparison has a place in `_DROP_ORDER`.
* `ScriptIsReported`: two arrangements of the same orphans, each by type and then name, are
  the same. A map between their positions that keeps the order cannot be anything but the
  identity, by the least position it would move.
* `AlwaysEndsCleanly` joins them.

`RecommendProofs` proves, for any model, bodies, command lines, catalogs and answers
(`RecommendAssumption`): `TypeCorrect`, `ConnectionAlwaysReleased` and `ExitCodeAlwaysTruthful`, from `RunInv`. `EndInv`
says at which places the connection is open and which files there are; `ShapeInv` that
profiles follow the tables; `StageInv` how far each list has got, by the place of the process,
which is what makes exit 0 mean a verdict for each table.

What the verdicts are worth is `JudgeInvariant`. `ProfilesInv` says that the profiles are those of the
tables found, in their order, and that a profile at hand keeps its own; `JudgeInv` that what
was sampled is of the columns of the profile at hand, and that each table that has a verdict was
told what the rules give for its own profile, catalog and measurements. Neither property is
inductive without it, because the state keeps the recommendation and not what it was made from.
The rest is about the rules as operators: `AlwaysEvidenced`, `JoinKeysAlwaysServed`,
`ProposalsAlwaysAgree` and `DistributionAlwaysMeasured`. They need two facts about the operators
(counts of citations are numbers, because a dacpac holds finitely many bodies; `KeyColumns`, a
recursive function, returns columns) and one about names, `PlainColumnsAssumption`: no column is
called like the tags that stand beside columns in an index.

`OrchestratorReadersProofs` proves, for any ADF and any DAG file that are trees
(`ReadersAssumption`), that the reader's four safety properties hold: `EveryActivityAlwaysOnce`,
`AlwaysExplained`, `TasksAlwaysAgree` and `RightChainsAlwaysExact`. `ReadersInv` is inductive:

* `PhaseInv` and `BuiltInv` say what has been read by the place of the process, and that each task
  was built from the call or the activity it is named after (`Built`).
* `WalkInv` is about the stack. What has been visited, what is pending and what is under what is
  pending are apart, and together they are what the pipeline holds (`Walked`, `Joined`). A visit keeps it:
  what is under the stack before the pop is the activity, its nested lists and what is under
  those (`UnderPop`), and because a file is a tree the three do not meet. When the stack is empty
  everything has been visited, once.
* `DagInv` is about the expressions. `Met` says which operands of the chain at hand have been met,
  `Collected` that the edges so far are those of the levels taken, in the order the levels are
  taken, each once (`Seen`, `Taken`).

The loops of the readers are recursive functions over positions. `LoopRuns` exhibits what such a
function computes and `Induct` is induction up to a bound; both rest on the least element of a set of
numbers (`LeastOf`), so no induction theorem with an operator parameter is needed. The other proof modules
that meet such functions begin with the same lemmas, each with those it uses.

`UsageScanProofs` proves, for any dacpac, any bodies and any failing call (`ScanAssumption`,
`BodyAssumption`, `TreeAssumption`): `TypeCorrect`, `FailuresAlwaysStayLocal` and
`ExitCodeAlwaysTruthful`, from `ScanRunInv`: what is on disk at each place (`ArtifactsInv`), that a
consumer which failed is behind and has left nothing (`ReportInv`), that a script with errors
has a warning as soon as it is scanned (`WarnedInv`).

`FullInv` adds what the finders find, and from it come `CteCitationsAlwaysWarned` and
`JoinsAlwaysExact`. `SweepInv` is about the scan at hand, `DoneInv` about the consumers that were
passed (`Settled`).

* Warnings (`CiteInv`, on `CteOk`). A citation is given when a column is reached, the
  warning only when the marker behind the query of the common table expression is, and any number of
  unions and derived tables may lie between. So the invariant speaks of the agenda: for each name
  that a task's line is inside of (`Owed`), a marker of that name stands behind the task, set no later
  than now (`Closes`); for each citation made, the warning is there or such a marker still is. A
  step replaces its task by tasks that owe no more (`Leads`), one lemma for each `Visit` operator,
  because a part of a query is inside what the query is inside (`InsideFacts`), which is where
  `TreeAssumption` is used.
* Joins (`JoinsInv`, on `JoinsOk`). What is found is `EmitJoin` of a join of the script (`JoinHit`),
  and each join with a condition (`Wanted`) is found or covered by a task (`Covers`): a statement
  covers what it holds (`Held`), a query what it is built from, a join itself. A step covers what its
  task did (`StatementSpreads`, `QuerySpreads`).
* What a join tells is a fact about the operators: `AssignFacts`, `SideFacts` and `EmitFacts` give the
  usages of `EmitJoin` as equalities between two tables (`Equates`), `RealFacts` does the same for the
  equalities as SQL means them, and `JoinAgrees` compares the two. They agree when names mean one
  thing (`PlainNames`, `PlainAliases`), the conditions the property states.

`BuiltFrom` and `Leaves` are recursive functions over a tree. `TreeRuns` exhibits what such a function
computes, the union of what is reachable (`ReachUnfolds`), so both can be unfolded
(`BuiltUnfolds`, `HeldFacts`).

Two attempts failed for a good reason. `CteCitationsWarned` used to ask a warning for what stands in
the derived source of a MERGE, which is inside no common table expression; and `JoinsExact` took for
granted that a joined table is not a common table expression and that a prefix in a condition is a name
its FROM exposes. The properties now say what they mean, and the run has a MERGE with both and a join
with a common table expression.

`SelectLineageProofs` proves three of the visitor's safety properties, for any objects and any bodies
(`BodyAssumption`).

* `StatementsAlwaysInOrder`, from `OrderInv`: what was recorded, the statement being visited, and what the
  statements still to visit will produce (`Owing`) are together the statements of the body in the order
  of its text (`Leaves`). Unfolding a block replaces it in front of the list by what it holds, which owes
  the same (`OwingNext`).
* `OverflowNeedsReusedAlias`. Tracing a column ends when what is known of virtual columns has no
  cycle, and it has none when each name was registered once and from names registered before. None of
  this is said by the dictionary, which outlives scopes, so the invariant carries the history:
  * `ShapeInv`: every frame below the top waits for a derived table or a branch of a union, and the
    place of the process fits the top frame.
  * `GroundInv`: while the aliases of the statement are distinct, there are names `R`, a rank for each
    and a sequence of aliases that were passed, such that (`Passed`) the aliases passed and those that
    the stack and the list of common table expressions still hold (`Remaining`) are those of the
    statement, in order; names in `R` have had their turn; and every column in a scope, a mapping or a
    dictionary entry of `R` is of a base table or of a name in `R` (`AllReal`, `Grounded`). What
    earlier statements registered may stay in the dictionary: no scope refers to it.

  A step moves on within a query (`TopStep`), opens one (`QueryOpened`), closes one (`QueryClosed`) or
  registers a name. When a derived table is bound, its alias is the next one that remains, so by
  distinctness it was not passed, its name is not in `R`, and it gets a rank of its own
  (`NewName`); the name of a common table expression is new because names of one statement differ.
  `TracingEnds`: a chain of known columns passes through columns of ever other names, so it is no longer than
  there are columns (`Depth`, `Trail`).
* `SourcesAlwaysExact`: in a plain statement without common table expressions and without a star over
  a derived table (`Covered`), every column comes from exactly the base columns that `SqlMeaning`
  computes it from. The walk and the meaning may list the columns of an expression differently; that
  they are the same set is a condition of `Plain`, and enough (`FromSame`). `Meant` is a fold over all queries of the body, and first gets its equation
  (`MeantUnfolds`: a query means what its clauses say of the queries before it, `QueryMeans`);
  `LevelsOk` draws from `Covered` what each query of the statement is like (`LevelOk`). The invariant is `TellInv`, kept
  by a step together with the three above (`TellKept`, one lemma per action):
  * a frame that has bound k tables and mapped e elements has in its scope the columns of its first
    k tables and in its maps those of its first e elements, in order, each with the base columns meant
    (`ScopeTells`, `MapsTell`, `LevelColumns`); a union keeps what its left side means;
  * each frame is open for the query the frame below waits for, so what is returned is what the
    frame below it means by that query (`Linked`, `ResultTells`);
  * this must stay true while the dictionary of virtual columns grows: a column of a scope is
    `Settled`, its alias is not among those still to be registered (`Owed`), and neither are the aliases of
    its sources, which are where a trace ends. A trace of it then takes one step (`TraceSettled`), and
    registering an owed alias changes nothing that was told (`Stays`, `TurnTaken`);
  * a star expands to the columns of the scope of its own query (`StarHere`, `StarMeans`), a name to the
    column that the meaning finds (`ResolveMeans`), two sides of a union to their positions (`MergeTells`),
    and the columns of an INSERT keep their sources as they are renamed (`RealignedFacts`).
  What the finished statements were told is kept as it is (`IsExact`).
* `Leaves`, `Aliases`, `Endless` and `Trace` are recursive functions; `LeavesUnfold`, `AliasesUnfold`,
  `EndlessUnfolds` and `TraceUnfolds` give their equations, from `LoopRuns` and `DeepRuns`.

This took one correction, in two places: `RaisesOnlyOnReusedAlias`, and the `Plain` of `SourcesExact`,
used to compare items of queries, among which one query referred to twice counts once. They now
ask whether two derived tables, as the visitor meets them, have one alias.

Only model-checked:

* `Termination` of `BuildLineage` and of `SelectLineage`: liveness.
* `CitationsExact` of `UsageScan`, and `MissingIsWarned` and `JoinPairsKept` of `SelectLineage`. They
  need an invariant of the kind of `TellInv`, of the citations still to come, of the warnings given
  and of the pairs collected, and the first two also of statements with common table expressions,
  where a name can mean one thing and be bound to another; it was not attempted.

## Findings

Each has a run that TLC must find violated.

* `src/src/dacpactools/infrastructure/dacpac/dacpac_service.py:176`: `get_columns` gives every column the data type
  None. The exclusion of `_recommendation_rules.py:515-533` therefore never fires on a real model,
  and the script asks Fabric to CLUSTER BY a column it refuses. The unit test of the
  exclusion makes its profiles with the types. Run `fabric_excluded_types`.
* `src/README.md:137-138` says that CTEs and derived tables are traced. The name of a CTE in FROM is
  looked up among the objects (`select_lineage_visitor.py:322`) and bound to an empty table; a
  column with its prefix, or a star over it, has no source. Run `readme_named_queries`.

Divergences met while modelling that no run is kept for; the models have them:

* `src/README.md:206-207`, "Other SQL emits a placeholder graph plus a ... warning." An activity
  whose text and environment occurred before gets the graph from the cache and returns
  before the warning (`build_orchestrator_lineage.py:146-153`).
* `src/src/dacpactools/presentation/commands/tools.py:25` and `src/README.md:39`: `install-dacfx`
  downloads into the cache. A dll truncated by a process killed while extracting is found by
  `cached_nuget_dll` (`path_probes.py:112`), which does not look at the marker, and is answered
  and never repaired.
* `src/.env.example:11`, "NuGet package version pins (empty = latest stable)". The probe of the
  cache comes before the pin (`assembly_loader.py:71`), so a version already there wins.
* `src/README.md:76-77`, "ordered so dependents drop before their dependencies". The order is one
  of types, then names (`generate_drop_script.py:18`, `106-114`): a synonym goes before the view that
  reads from it, a view before the function that does.
* `src/README.md:143`, "Function calls, CASE, computed expr ... with all source cols". The WHEN of a
  searched CASE is a condition, and `_walk_expression` knows no condition: its columns are no sources
  and leave no warning (`select_lineage_visitor.py:498-504`, and the end of the function), while the
  input and the WHEN of a simple CASE are walked (506-513). NULLIF and IIF end up there too.
  `SqlMeaning` follows the document, and a statement in which the CASE loses a column is not `Plain`,
  so `SourcesExact` and `MissingIsWarned` say nothing of it.
* `src/README.md:237`, "`inputs[]` is every non-root reachable object." A synonym's target is
  reachable and is not an input (`build_lineage.py:107-111` emits the edge and does not
  queue the target); and the root is an input of itself when it was named with three parts
  and something references it (`dacpac_service.py:117`, `lineage.py:70`).

What the models show of the code besides, without a document that says otherwise:

* Recommendations: `where_equality_count` is never incremented, so every filter counts as a range;
  `existing_distribution` is read and not used; a Synapse table with a clustered index may be told
  to get a columnstore; a nonclustered columnstore is proposed without columns, and its statement has no
  column list (543-544); names of indexes are cut at 120 characters (593), so two long ones
  may be equal, and are compared with no name in the catalog: `ProposalsAgree` is about the rest; a
  platform that detection does not know gets index proposals; a
  partitioning column, of key ordinal 0, comes first among the keys of its index. If
  detection raises, the connection stays open (79-80, before the `try`): `ConnectionReleased` begins
  where the platform is settled.
* Readers: of two `<<` in one chain the second takes the wrong operand (`airflow_dag_reader.py:289`,
  `295`), so `RightChainsExact` is about chains of `>>`; `sql=[]` gives no warning; a file that is not
  UTF-8 raises out of `can_read`; duplicate names and dependencies on nothing are kept in ADF.
* Lineage visitor: virtual columns are kept by the name of their query for the whole body, so
  a reused alias overwrites, or makes the recursion endless; `SELECT *` over a derived table also
  yields what other queries registered; the last object with a bare name wins; predicates of
  WHERE and HAVING have no columns;
  TRY blocks, UPDATE and DELETE are passed over; ORDER BY is looked for on the statement (49), with
  no scope but that of the common table expressions, so a column of a FROM would not be found there,
  while ScriptDom puts it on the query, where nobody looks. `SourcesExact` is about names that resolve in
  one way; `MissingIsWarned` and `RaisesOnlyOnReusedAlias` say what the rest may do. `MissingIsWarned`
  leaves out what is lost in silence: statements with a star in them, since a star over a common table
  expression yields nothing and warns of nothing; derived tables that read a common table
  expression; and what `Plain` leaves out.
* Column usage: a bare column in SET of an UPDATE whose target is an alias is missed
  (`column_usage_finder.py:388`); join conditions in the FROM of an UPDATE, CTEs of INSERT, UPDATE and
  MERGE, and DELETE are not walked; neither is what stands in a scalar subquery, EXISTS, IN (SELECT) or
  an expression of a kind `_walk_expr` does not list (589), nor ORDER BY, which is walked only if a scope is
  left when the query has been visited, and none ever is (208-211). All of this is missed without a
  warning; `Looked` names it, and the run has subqueries, unknown expressions and ORDER BYs in which the column is missed. A CTE with the name of a table in dbo is taken
  for it. Joins: two tables of one bare name share a key; columns without prefix are
  attributed to no table. The condition of IIF is walked here (553-557) and not by the lineage visitor.
* column-usage and joins write in place: a failure leaves a partial file under the final name.

## Plan

Everything planned is modelled and checked but `ArtifactWrite`, two runs that write artifacts
of the same name. What is left to prove is listed under "Only model-checked".

## Not modelled

* HTML templates and the browser code in them, logging, settings parsing, composition, the
  `doctor` and `tools` printing, the formats of OpenLineage documents: no state that a property
  could be about.
* sqlpackage: one subprocess that ends or raises, which is how the commands that reach it
  model it. The behaviour inside DacFx, ScriptDom, the SQL driver and Azure is external and
  enters as nondeterministic outcomes.
* The CTAS extractor's reading of the syntax tree: its result, specs with targets, is an
  input of `BuildLineage`. The registry and directory searches of `path_probes`: inputs of
  `NugetCache`.
* Two processes writing the same artifact names. `atomic_write_text` is modelled for one process,
  in `DropScript`.
