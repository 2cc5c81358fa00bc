--------------------------- MODULE MCBuildLineage ---------------------------
(* Small object models and command lines for TLC. *)
EXTENDS BuildLineage

CONSTANTS p, v, w, t, noDb, db

AllTypes == ObjectType \ {"UNKNOWN"}
Here(o) == [db |-> noDb, obj |-> o]

Model(type, refs, script, ctas) ==
  [type |-> type, database |-> [o \in Objects |-> noDb],
   refs |-> refs, script |-> script, ctas |-> ctas]

Quiet == [o \in Objects |-> "maps"]
NoCtas == [o \in Objects |-> << >>]

Request(database, include, depth, formats) ==
  [args_ok |-> TRUE, object |-> p, database |-> database, object_type |-> "UNKNOWN",
   include |-> include, max_depth |-> depth, formats |-> formats]

-----------------------------------------------------------------------------
\* Every graph over four objects that may reference one another, themselves
\* included, a procedure, a view, a third object of any kind, and a table.
WalkModels ==
  {Model([o \in Objects |-> CASE o = p -> "PROCEDURE" [] o = v -> "VIEW"
                              [] o = w -> kind [] o = t -> "TABLE"],
         [o \in Objects |-> CASE o = p -> rp [] o = v -> rv [] o = w -> rw [] o = t -> {}],
         Quiet, NoCtas) :
   kind \in {"VIEW", "SYNONYM", "UNKNOWN"},
   rp \in SUBSET Objects, rv \in SUBSET (Objects \ {v}), rw \in {{t}, {v, t}}}

WalkRequests ==
  {Request(noDb, include, depth, {}) :
     include \in {AllTypes, AllTypes \ {"VIEW"}, {"VIEW", "TABLE"}}, depth \in {NoLimit, 1, 2}}

-----------------------------------------------------------------------------
\* One chain p -> {v, w}, v -> {t}, w -> {t}, with every outcome of three
\* bodies and CTAS statements that name the table, a body, or a missing object.
PassModels ==
  {Model([o \in Objects |-> CASE o = p -> "PROCEDURE" [] o = v -> "VIEW"
                              [] o = w -> "PROCEDURE" [] o = t -> "TABLE"],
         [o \in Objects |-> CASE o = p -> {v, w} [] o = v -> {t} [] o = w -> {t} [] o = t -> {}],
         [o \in Objects |-> CASE o = p -> sp [] o = v -> sv [] o = w -> sw [] o = t -> "none"],
         [o \in Objects |-> CASE o = p -> cp [] o = w -> cw [] OTHER -> << >>]) :
   sp \in Script, sv \in Script, sw \in {"maps", "fails"},
   cp \in {<< >>, <<[target |-> Here(t), spec |-> "hash"]>>},
   cw \in {<< >>,
           <<[target |-> Here(t), spec |-> "hash"], [target |-> Here(t), spec |-> "replicate"]>>,
           <<[target |-> Here(v), spec |-> "hash"]>>}}

PassRequests ==
  {Request(noDb, AllTypes, depth, f) : depth \in {NoLimit, 1}, f \in SUBSET Formats}

-----------------------------------------------------------------------------
\* Every way a command line can be wrong, on a model with one of everything.
CliModels ==
  {Model([o \in Objects |-> CASE o = p -> kind [] o = v -> "VIEW"
                              [] o = w -> "SYNONYM" [] o = t -> "EXTERNAL_TABLE"],
         [o \in Objects |-> CASE o = p -> {v, w} [] o = v -> {p, t} [] o = w -> {} [] o = t -> {}],
         Quiet, NoCtas) : kind \in {"PROCEDURE", "VIEW", "UNKNOWN", "EXTERNAL_TABLE"}}

CliRequests ==
  {[args_ok |-> ok, object |-> p, database |-> d, object_type |-> ot,
    include |-> AllTypes, max_depth |-> depth, formats |-> f] :
     ok \in BOOLEAN, d \in {noDb, db}, ot \in {"UNKNOWN", "PROCEDURE"},
     depth \in {NoLimit, -1}, f \in SUBSET Formats}

BuildModels == PassModels \cup CliModels
BuildRequests == PassRequests \cup CliRequests
=============================================================================
