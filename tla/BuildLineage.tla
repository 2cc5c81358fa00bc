---------------------------- MODULE BuildLineage ----------------------------
(***************************************************************************)
(* The lineage build: BuildLineageUseCase.execute, the breadth-first walk  *)
(* over the object model, the column-mapping pass that follows it, the two *)
(* artifacts, and the exit code the `lineage` command turns it into.       *)
(*                                                                         *)
(* The process is single threaded.  What makes its behaviours many is the  *)
(* input: any object graph (cycles, self references, objects outside the   *)
(* include filter), the order in which DacFx enumerates references, any    *)
(* outcome of the parser, and an exception out of any call into .NET.      *)
(***************************************************************************)
EXTENDS Integers, Sequences, FiniteSets

CONSTANTS
  Objects,           \* database objects: one per (schema, name), whatever the case
  Databases,         \* what ObjectRef.database can be, NoDatabase included
  NoDatabase,        \* ObjectRef.database is None
  Models,            \* the object models a dacpac may hold
  Requests,          \* the command lines the build is started with
  NoLimit,           \* max_depth is None
  Specs,             \* distribution/index specs a CTAS may state
  NoSpec,            \* LineageNode.synapse is None
  ModelSchemaTypes   \* object types this DacFx's ModelSchema knows

LeafTypes == {"TABLE", "EXTERNAL_TABLE"}
BodyTypes == {"PROCEDURE", "VIEW", "TABLE_VALUED_FUNCTION", "SCALAR_FUNCTION"}
ObjectType == LeafTypes \cup BodyTypes \cup {"SYNONYM", "UNKNOWN"}

\* What a reference to an object is known by: LineageGraph.node_key drops the
\* type and the case of schema and name, and keeps the database as it is.
Ref == [db : Databases, obj : Objects]

\* How far a body gets: no script at all, parsed (with or without reported
\* errors), and then mapped or failing inside the extractor.
Script == {"none", "maps", "maps_with_errors", "fails", "fails_with_errors"}
CtasSpec == [target : Ref, spec : Specs]

ModelType ==
  [type     : [Objects -> ObjectType],
   database : [Objects -> Databases],       \* as references to the object carry it
   refs     : [Objects -> SUBSET Objects],  \* GetReferenced, columns and schemas left out
   script   : [Objects -> Script],
   ctas     : [Objects -> Seq(CtasSpec)]]   \* in the order of the statements

Formats == {"json", "html"}

RequestType ==
  [args_ok     : BOOLEAN,                   \* one source, a name that parses, a source that exists
   object      : Objects,
   database    : Databases,                 \* of a three-part --object
   object_type : {"UNKNOWN", "PROCEDURE"},  \* PROCEDURE when the orchestrator asks
   include     : SUBSET (ObjectType \ {"UNKNOWN"}),
   max_depth   : Int \cup {NoLimit},
   formats     : SUBSET Formats]

ASSUME InputsAssumption ==
  /\ NoDatabase \in Databases
  /\ \A m \in Models : m \in ModelType
  /\ \A r \in Requests : r \in RequestType
  /\ NoLimit \notin Int
  /\ NoSpec \notin Specs
  /\ ModelSchemaTypes \subseteq ObjectType

\* A model holds finitely many objects; only the walk's end rests on it.
ASSUME FiniteAssumption == IsFiniteSet(Objects) /\ IsFiniteSet(Databases)

-----------------------------------------------------------------------------
VARIABLES
  model,      \* the loaded TSqlModel; never changes
  request,    \* the BuildLineageRequest; never changes
  pc,         \* where the process is
  exit,       \* its exit code, NotExited while it runs
  queue,      \* the deque of (object, depth) of _bfs_traverse
  cur,        \* the entry whose references are being enumerated
  pending,    \* references of cur not enumerated yet
  nodes,      \* the nodes dict in insertion order; depth is a history component
  edges,      \* the edges emitted so far
  todo,       \* nodes the mapping pass has still to look at: nodes[1..todo]
  mapped,     \* nodes whose column mappings were extracted
  synapse,    \* node -> its SynapseTableSpec
  warnings,   \* the run's warnings, as <<kind, node>>
  artifacts   \* the formats written

inputs == <<model, request>>
walk   == <<queue, cur, pending, nodes, edges>>
pass   == <<todo, mapped, synapse, warnings>>
vars   == <<inputs, pc, exit, walk, pass, artifacts>>

NotExited == -1
WarningKinds == {"no script", "parse errors", "column mapping failed"}
Entry == [ref : Ref, depth : Nat]

Nodes == {nodes[i].ref : i \in DOMAIN nodes}

Type(ref)  == model.type[ref.obj]
IsLeaf(ref)  == Type(ref) \in LeafTypes
HasBody(ref) == Type(ref) \in BodyTypes

\* find_object answers with the request's database; every later reference is
\* built by to_object_ref from the names DacFx reports.
RootRef == [db |-> request.database, obj |-> request.object]
RefTo(o) == [db |-> model.database[o], obj |-> o]

\* find_object: the candidate types are tried one by one, those ModelSchema
\* does not have are passed over.
CandidateTypes ==
  (IF request.object_type = "UNKNOWN"
   THEN ObjectType \ {"UNKNOWN"} ELSE {request.object_type}) \cap ModelSchemaTypes

RootFound == model.type[request.object] \in CandidateTypes

\* Mutant of AtDepthLimit: one level too many.
AtDepthLimitLate(depth) ==
  request.max_depth # NoLimit /\ depth > request.max_depth

AtDepthLimit(depth) ==
  request.max_depth # NoLimit /\ depth >= request.max_depth

Included(o) == model.type[o] \in request.include

-----------------------------------------------------------------------------
(* The command line and the source. *)

Init ==
  /\ model \in Models
  /\ request \in Requests
  /\ pc = "cli"
  /\ exit = NotExited
  /\ queue = << >>
  /\ cur = [ref |-> RootRef, depth |-> 0]
  /\ pending = {}
  /\ nodes = << >>
  /\ edges = {}
  /\ todo = 0
  /\ mapped = {}
  /\ synapse = [r \in Ref |-> NoSpec]
  /\ warnings = {}
  /\ artifacts = {}

\* The process ends where it is: pc keeps telling how far it got.
Exit(code) == exit' = code /\ UNCHANGED pc

\* --dacpac and --connection both or neither, a name that does not parse, a
\* file or a named connection that does not exist.
RejectArguments ==
  /\ pc = "cli"
  /\ ~ request.args_ok
  /\ Exit(2)
  /\ UNCHANGED <<inputs, walk, pass, artifacts>>

\* The use case is composed only after the arguments are accepted.
InitialiseClr ==
  /\ pc = "cli"
  /\ request.args_ok
  /\ \/ pc' = "find" /\ UNCHANGED exit
     \/ Exit(4)
  /\ UNCHANGED <<inputs, walk, pass, artifacts>>

RootMissing ==
  /\ pc = "find"
  /\ ~ RootFound
  /\ Exit(3)
  /\ UNCHANGED <<inputs, walk, pass, artifacts>>

StartWalk ==
  /\ pc = "find"
  /\ RootFound
  /\ pc' = "bfs"
  /\ queue' = << [ref |-> RootRef, depth |-> 0] >>
  /\ UNCHANGED <<inputs, exit, cur, pending, nodes, edges, pass, artifacts>>

-----------------------------------------------------------------------------
(* _bfs_traverse. *)

Front == Head(queue)
\* Mutant of Enqueued: appendleft for append, a stack for a queue.
EnqueuedAtFront(q, entry) == <<entry>> \o q
Enqueued(q, entry) == Append(q, entry)

\* Mutant of SkipVisited: the head is peeked at and not popped.
SkipVisitedPeeking ==
  /\ pc = "bfs"
  /\ queue # << >>
  /\ Front.ref \in Nodes
  /\ UNCHANGED vars

\* The entry was reached along another path, and visited, since it was queued.
SkipVisited ==
  /\ pc = "bfs"
  /\ queue # << >>
  /\ Front.ref \in Nodes
  /\ queue' = Tail(queue)
  /\ UNCHANGED <<inputs, pc, exit, cur, pending, nodes, edges, pass, artifacts>>

\* Popping an entry not seen before makes it a node, whatever follows.
Visit ==
  /\ pc = "bfs"
  /\ queue # << >>
  /\ Front.ref \notin Nodes
  /\ queue' = Tail(queue)
  /\ nodes' = Append(nodes, Front)
  /\ UNCHANGED <<inputs, exit, pass, artifacts>>

VisitLeaf ==
  /\ Visit
  /\ IsLeaf(Front.ref)
  /\ UNCHANGED <<pc, cur, pending, edges>>

\* resolve_synonym_target takes the first object DacFx reports; the edge is
\* emitted, but the target is not queued.
VisitSynonym ==
  /\ Visit
  /\ Type(Front.ref) = "SYNONYM"
  /\ LET s == Front.ref IN
       \/ \E o \in model.refs[s.obj] : edges' = edges \cup {<<s, RefTo(o)>>}
       \/ model.refs[s.obj] = {} /\ UNCHANGED edges
  /\ UNCHANGED <<pc, cur, pending>>

VisitAtLimit ==
  /\ Visit
  /\ ~ IsLeaf(Front.ref)
  /\ Type(Front.ref) # "SYNONYM"
  /\ AtDepthLimit(Front.depth)
  /\ UNCHANGED <<pc, cur, pending, edges>>

VisitAndExpand ==
  /\ Visit
  /\ ~ IsLeaf(Front.ref)
  /\ Type(Front.ref) # "SYNONYM"
  /\ ~ AtDepthLimit(Front.depth)
  /\ pc' = "scan"
  /\ cur' = Front
  /\ pending' = model.refs[Front.ref.obj]
  /\ UNCHANGED edges

\* Mutant of PassOverReference: the edge is appended before the type filter.
PassOverAfterEdge ==
  /\ pc = "scan"
  /\ \E o \in pending :
       /\ ~ Included(o)
       /\ pending' = pending \ {o}
       /\ edges' = edges \cup {<<cur.ref, RefTo(o)>>}
  /\ UNCHANGED <<inputs, pc, exit, queue, cur, nodes, pass, artifacts>>

PassOverReference ==
  /\ pc = "scan"
  /\ \E o \in pending :
       /\ ~ Included(o)
       /\ pending' = pending \ {o}
  /\ UNCHANGED <<inputs, pc, exit, queue, cur, nodes, edges, pass, artifacts>>

EnqueueReference ==
  /\ pc = "scan"
  /\ \E o \in pending :
       /\ Included(o)
       /\ pending' = pending \ {o}
       /\ edges' = edges \cup {<<cur.ref, RefTo(o)>>}
       /\ queue' = Enqueued(queue, [ref |-> RefTo(o), depth |-> cur.depth + 1])
  /\ UNCHANGED <<inputs, pc, exit, cur, nodes, pass, artifacts>>

FinishScan ==
  /\ pc = "scan"
  /\ pending = {}
  /\ pc' = "bfs"
  /\ UNCHANGED <<inputs, exit, walk, pass, artifacts>>

\* Mutant of FinishWalk: the reversed pass starts one past the last node.
FinishWalkPastEnd ==
  /\ pc = "bfs"
  /\ queue = << >>
  /\ pc' = "map"
  /\ todo' = Len(nodes) + 1
  /\ UNCHANGED <<inputs, exit, walk, mapped, synapse, warnings, artifacts>>

FinishWalk ==
  /\ pc = "bfs"
  /\ queue = << >>
  /\ pc' = "map"
  /\ todo' = Len(nodes)
  /\ UNCHANGED <<inputs, exit, walk, mapped, synapse, warnings, artifacts>>

-----------------------------------------------------------------------------
(* _column_mapping_pass, last node first. *)

\* Where the pass is.  obj_handles has an entry for every node, so the
\* "handle is None" branch of the code is never taken.
Candidate == nodes[todo].ref

Consider ==
  /\ pc = "map"
  /\ todo > 0
  /\ todo' = todo - 1
  /\ UNCHANGED <<inputs, pc, exit, walk, artifacts>>

PassOverBodiless ==
  /\ Consider
  /\ ~ HasBody(Candidate)
  /\ UNCHANGED <<mapped, synapse, warnings>>

WarnNoScript ==
  /\ Consider
  /\ HasBody(Candidate)
  /\ model.script[Candidate.obj] = "none"
  /\ warnings' = warnings \cup {<<"no script", Candidate>>}
  /\ UNCHANGED <<mapped, synapse>>

\* Parse errors are warned about and the extraction goes on.
ParseWarnings(ref) ==
  IF model.script[ref.obj] \in {"maps_with_errors", "fails_with_errors"}
  THEN {<<"parse errors", ref>>} ELSE {}

\* Mutant of WarnMappingFailed: the exception is swallowed.
SwallowMappingFailure ==
  /\ Consider
  /\ HasBody(Candidate)
  /\ model.script[Candidate.obj] \in {"fails", "fails_with_errors"}
  /\ warnings' = warnings \cup ParseWarnings(Candidate)
  /\ UNCHANGED <<mapped, synapse>>

WarnMappingFailed ==
  /\ Consider
  /\ HasBody(Candidate)
  /\ model.script[Candidate.obj] \in {"fails", "fails_with_errors"}
  /\ warnings' = warnings \cup ParseWarnings(Candidate)
                          \cup {<<"column mapping failed", Candidate>>}
  /\ UNCHANGED <<mapped, synapse>>

\* _apply_ctas_spec for each spec of a body: a target that is not a node is
\* dropped, the last statement for a target wins.
CtasApplied(specs, syn) ==
  [r \in Ref |->
     LET hits == {i \in DOMAIN specs : specs[i].target = r}
     IN  IF r \in Nodes /\ hits # {}
         THEN specs[CHOOSE i \in hits : \A j \in hits : j <= i].spec
         ELSE syn[r]]

\* Mutant of Remapped: the new node is built without synapse=node.synapse.
RemappedBare(ref, syn) == [syn EXCEPT ![ref] = NoSpec]

\* The node is replaced by one that keeps the synapse spec it has by now.
Remapped(ref, syn) == syn

MapNode ==
  /\ Consider
  /\ HasBody(Candidate)
  /\ model.script[Candidate.obj] \in {"maps", "maps_with_errors"}
  /\ warnings' = warnings \cup ParseWarnings(Candidate)
  /\ mapped' = mapped \cup {Candidate}
  /\ synapse' = CtasApplied(model.ctas[Candidate.obj], Remapped(Candidate, synapse))

FinishPass ==
  /\ pc = "map"
  /\ todo = 0
  /\ pc' = "write"
  /\ UNCHANGED <<inputs, exit, walk, pass, artifacts>>

-----------------------------------------------------------------------------
(* The artifacts and the end of the process. *)

WriteJson ==
  /\ pc = "write"
  /\ "json" \in request.formats \ artifacts
  /\ artifacts' = artifacts \cup {"json"}
  /\ UNCHANGED <<inputs, pc, exit, walk, pass>>

WriteHtml ==
  /\ pc = "write"
  /\ "json" \notin request.formats \ artifacts
  /\ "html" \in request.formats \ artifacts
  /\ artifacts' = artifacts \cup {"html"}
  /\ UNCHANGED <<inputs, pc, exit, walk, pass>>

\* Mutant of Succeed: the process reports success once the JSON is written.
SucceedEarly ==
  /\ pc = "write"
  /\ request.formats \cap {"json"} \subseteq artifacts
  /\ Exit(0)
  /\ UNCHANGED <<inputs, walk, pass, artifacts>>

Succeed ==
  /\ pc = "write"
  /\ request.formats \subseteq artifacts
  /\ Exit(0)
  /\ UNCHANGED <<inputs, walk, pass, artifacts>>

\* An exception no handler of the use case catches: out of DacFx while loading,
\* walking or reading a script, out of parse, out of a writer.
Abort ==
  /\ pc \in {"find", "bfs", "scan", "map", "write"}
  /\ Exit(1)
  /\ UNCHANGED <<inputs, walk, pass, artifacts>>

Walk ==
  \/ SkipVisited \/ VisitLeaf \/ VisitSynonym \/ VisitAtLimit \/ VisitAndExpand
  \/ PassOverReference \/ EnqueueReference \/ FinishScan \/ FinishWalk

Map ==
  PassOverBodiless \/ WarnNoScript \/ WarnMappingFailed \/ MapNode \/ FinishPass

Running == exit = NotExited

Progress ==
  \/ RejectArguments \/ InitialiseClr \/ RootMissing \/ StartWalk
  \/ Walk \/ Map
  \/ WriteJson \/ WriteHtml \/ Succeed

Next ==
  \/ Running /\ (Progress \/ Abort)
  \/ ~ Running /\ UNCHANGED vars          \* the process is gone

Spec == Init /\ [][Next]_vars

\* The interpreter keeps executing the next statement.
FairSpec == Spec /\ WF_vars(Running /\ Progress)

-----------------------------------------------------------------------------
(* What the build promises. *)

TypeOK ==
  /\ model \in ModelType
  /\ request \in RequestType
  /\ pc \in {"cli", "find", "bfs", "scan", "map", "write"}
  /\ exit \in {NotExited, 0, 1, 2, 3, 4}
  /\ queue \in Seq(Entry)
  /\ cur \in Entry
  /\ pending \subseteq Objects
  /\ nodes \in Seq(Entry)
  /\ edges \subseteq Ref \X Ref
  /\ todo \in 0..Len(nodes)
  /\ mapped \subseteq Nodes
  /\ synapse \in [Ref -> Specs \cup {NoSpec}]
  /\ warnings \subseteq WarningKinds \X Ref
  /\ artifacts \subseteq Formats

\* The graph is final and is being, or has been, written.
WalkOver  == pc \in {"map", "write"}
Completed == pc = "write"

\* The writer asserts that the root is a node ("graph missing root node"): no
\* filter, depth limit or duplicate may keep the root from being visited.
RootPresent == WalkOver => RootRef \in Nodes

\* An object is visited, its columns read and its references expanded, once,
\* however many paths and cycles lead to it.
VisitedOnce ==
  \A i, j \in DOMAIN nodes : nodes[i].ref = nodes[j].ref => i = j

\* No edge of the finished graph dangles, except a synonym's: an object that
\* was queued is never lost, and an edge never leaves an object not visited.
EdgesClosed ==
  WalkOver =>
    \A e \in edges :
      /\ e[1] \in Nodes
      /\ Type(e[1]) # "SYNONYM" => e[2] \in Nodes

\* Depth is distance: a node is never recorded deeper than one step below any
\* object that references it, so --max-depth cuts on the shortest path.
ShallowestVisit ==
  \A i, j \in DOMAIN nodes :
    /\ Type(nodes[i].ref) # "SYNONYM"
    /\ <<nodes[i].ref, nodes[j].ref>> \in edges
    => nodes[j].depth <= nodes[i].depth + 1

\* What the two writers rely on: they start from a graph with its root, each object
\* once, no edge to nothing but a synonym's, and every node at its shortest distance.
WalkIsSound == RootPresent /\ VisitedOnce /\ EdgesClosed /\ ShallowestVisit

\* The references a walk follows out of an object, wherever it meets it.
Followed(ref) ==
  IF IsLeaf(ref) \/ Type(ref) = "SYNONYM" THEN {}
  ELSE {RefTo(o) : o \in {p \in model.refs[ref.obj] : Included(p)}}

\* Reference definition: the objects at most k steps from the root.
Ball ==
  LET ball[k \in 0..Cardinality(Ref)] ==
        IF k = 0 THEN {RootRef}
        ELSE ball[k-1] \cup UNION {Followed(r) : r \in ball[k-1]}
  IN  ball

Radius ==
  CASE request.max_depth = NoLimit -> Cardinality(Ref)
    [] request.max_depth # NoLimit ->
         LET d == request.max_depth
         IN  IF d < 0 THEN 0 ELSE IF d > Cardinality(Ref) THEN Cardinality(Ref) ELSE d

\* The nodes of the graph are exactly the objects within max_depth reference
\* steps of the root through included objects: nothing more, nothing less.
ExactClosure == WalkOver => Nodes = Ball[Radius]

\* A view, procedure or function of the finished graph went through the column
\* extractor to its end or is named in a warning: the mapping pass never passes
\* one over silently, whatever its script, its parse and its extraction did.
NoSilentGap ==
  Completed =>
    \A ref \in Nodes :
      HasBody(ref) =>
        \/ ref \in mapped
        \/ <<"no script", ref>> \in warnings
        \/ <<"column mapping failed", ref>> \in warnings

\* The statements of a body that state a spec for a target.
Stated(ref, target) ==
  {k \in DOMAIN model.ctas[ref.obj] : model.ctas[ref.obj][k].target = target}

\* The k-th statement of the body at node i is the last one the pass took a spec
\* for the target from.  The pass goes from the last node to the first, and
\* through a body from its first statement to its last.
LastGiven(i, k, target) ==
  /\ nodes[i].ref \in mapped
  /\ k \in Stated(nodes[i].ref, target)
  /\ \A j \in DOMAIN nodes :
       nodes[j].ref \in mapped =>
         \A l \in Stated(nodes[j].ref, target) : i < j \/ (i = j /\ l <= k)

\* In a completed graph a node carries the spec the pass took for it last, of the
\* mapped bodies that state one for it, though nodes are replaced, in reverse
\* order, before and after; where no mapped body states one it carries none.
\* Two bodies, or two statements, that state different specs for one table are
\* not told apart by a warning: the earlier spec is gone.
CtasRecorded ==
  Completed =>
    \A target \in Nodes :
      /\ (\A ref \in mapped : Stated(ref, target) = {}) => synapse[target] = NoSpec
      /\ \A i \in DOMAIN nodes :
           \A k \in Stated(nodes[i].ref, target) :
             LastGiven(i, k, target) => synapse[target] = model.ctas[nodes[i].ref.obj][k].spec

\* Exit code 0 means every format asked for is on disk; the codes for bad
\* arguments, no such object and no CLR mean that nothing is.
ExitCodeTruthful ==
  /\ exit = 0 => artifacts = request.formats
  /\ exit \in {2, 3, 4} => artifacts = {} /\ nodes = << >>

\* The walk ends on every object graph, cyclic ones included.
Termination == <>(~ Running)

\* The depth the walk has got to: the layers above it are complete.
Layer ==
  IF pc = "scan" THEN cur.depth
  ELSE IF queue # << >> THEN Front.depth
  ELSE IF nodes = << >> THEN 0 ELSE nodes[Len(nodes)].depth + 1

LayerReached == {nodes[i].ref : i \in {j \in DOMAIN nodes : nodes[j].depth < Layer}}
LayerFrontier ==
  {nodes[i].ref : i \in {j \in DOMAIN nodes : nodes[j].depth = Layer}}
    \cup {queue[i].ref : i \in {j \in DOMAIN queue :
                                  queue[j].depth = Layer /\ queue[j].ref \notin Nodes}}

Closure == INSTANCE LineageClosure WITH
  problem  <- [root  |-> RootRef,
               next  |-> [r \in Ref |-> Followed(r)],
               limit |-> request.max_depth],
  reached  <- LayerReached,
  frontier <- LayerFrontier,
  depth    <- IF LayerFrontier = {} THEN 0 ELSE Layer

\* The queue-driven walk implements the layered one, step by step.
WalksInLayers == Closure!Spec
=============================================================================
