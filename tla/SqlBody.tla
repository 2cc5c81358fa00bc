------------------------------- MODULE SqlBody -------------------------------
(***************************************************************************)
(* The body of a view, procedure or function as ScriptDom gives it to the  *)
(* readers of this repository, reduced to what they look at: statements,   *)
(* queries, tables, and the columns an expression names.                   *)
(***************************************************************************)
EXTENDS Integers, Sequences, FiniteSets, SequencesExt

CONSTANTS
  None,      \* an alias, a prefix, a schema or a name that is not there
  Names,     \* identifiers, all of one case: every reader ignores it
  Objects,   \* the other objects of the graph, in the order of its nodes
  Bodies

Maybe == Names \cup {None}
Ref == [prefix : Maybe, name : Names]

\* refs are the columns an expression is computed from, in the order of the walk,
\* partition and order those of its OVER clause.  Those of a "case" are its WHEN, a
\* condition, its THEN and its ELSE; a "simple case" has its input before them, and its
\* WHEN is a value.  A "subquery" is a scalar subquery, EXISTS or IN (SELECT), its refs
\* the columns of the query around it; an "opaque" expression is of a kind no reader
\* descends into.
Expr ==
  {e \in [form : {"column", "call", "aggregate", "computed", "case", "simple case", "literal", "subquery", "opaque"},
          refs : Seq(Ref), partition : Seq(Ref), order : Seq(Ref)] :
     /\ e.form = "column" => Len(e.refs) = 1
     /\ e.form = "case" => Len(e.refs) = 3
     /\ e.form = "simple case" => Len(e.refs) = 4
     /\ e.form = "literal" => e.refs = << >>}
Elem == [kind : {"scalar", "star", "variable", "other"}, alias : Maybe, qualifier : Maybe, expr : Expr]

\* A join is a sequence of items; on holds the comparisons AND joins, with an OR as
\* one of them.
Comparison == [op : {"=", ">=", "or"}, left : Seq(Ref), right : Seq(Ref)]
Item ==
  [kind : {"table", "derived", "other"}, schema : Maybe, name : Maybe, alias : Maybe,
   query : Nat, on : Seq(Comparison)]

\* A query is a specification, or the union of two queries of lower position.
Query ==
  [kind : {"spec", "union"}, from : Seq(Item), select : Seq(Elem), where : Seq(Expr),
   group_by : Seq(Ref), having : Seq(Expr), left : Nat, right : Nat]

Cte == [name : Names, columns : Seq(Names), query : Nat]
\* The query of an UPDATE has its FROM and WHERE; what a TRY and its CATCH hold is one
\* list; order_by is where the readers look for the ORDER BY of a SELECT.
Statement ==
  [kind : {"select", "insert", "values", "merge", "update", "delete", "ctas", "block", "if", "while", "try"},
   nested : Seq(Nat), ctes : Seq(Cte), query : Nat, target : Item, columns : Seq(Names), using : Item,
   order_by : Seq(Ref), sets : Seq([prefix : Maybe, column : Names, expr : Expr])]

ASSUME BodyAssumption ==
  /\ None \notin Names
  /\ Objects \in Seq([schema : Names, name : Names, columns : Seq(Names)])
  /\ \A b \in Bodies :
       /\ b.declared \in Seq(Names) /\ b.queries \in Seq(Query)
       /\ b.statements \in Seq(Statement) /\ b.top \in Seq(DOMAIN b.statements)
       /\ \A k \in DOMAIN b.statements :
            LET s == b.statements[k]
            IN  /\ s.kind \in {"insert", "values", "update", "merge"} => s.target.kind = "table"
                /\ s.target.kind # "derived"
                /\ s.kind \in {"select", "ctas", "insert", "update"} => s.query \in DOMAIN b.queries
                /\ s.kind = "merge" => s.query = 0
                /\ s.using.kind = "derived" => s.kind = "merge" /\ s.using.alias # None
                /\ s.query \in 0..Len(b.queries)
                /\ s.using.query \in IF s.using.kind = "derived" THEN DOMAIN b.queries ELSE {0}
                /\ \A c, d \in DOMAIN s.ctes :
                     /\ s.ctes[c].query \in DOMAIN b.queries
                     /\ c < d => s.ctes[c].query < s.ctes[d].query /\ s.ctes[c].name # s.ctes[d].name
                /\ s.nested \in Seq((k + 1)..Len(b.statements))
       /\ \A n \in DOMAIN b.queries :
            LET q == b.queries[n]
            IN  /\ \A i \in DOMAIN q.from :
                     /\ q.from[i].query \in IF q.from[i].kind = "derived" THEN 1..(n - 1) ELSE {0}
                     /\ q.from[i].kind = "table" => q.from[i].name # None
                     /\ q.from[i].kind = "derived" => q.from[i].alias # None
                /\ {q.left, q.right} \subseteq IF q.kind = "union" THEN 1..(n - 1) ELSE {0}

\* The columns of a table, by schema and name, and by name alone.
Holders(schema, name) ==
  {i \in DOMAIN Objects : Objects[i].name = name /\ schema \in {None, Objects[i].schema}}
Latest(positions) == CHOOSE i \in positions : \A j \in positions : j <= i

\* QueryScope.add, an assignment to a dict: a name that is taken keeps its place.
Bind(scope, binding) ==
  IF \E i \in DOMAIN scope : scope[i].alias = binding.alias
  THEN [i \in DOMAIN scope |-> IF scope[i].alias = binding.alias THEN binding ELSE scope[i]]
  ELSE Append(scope, binding)

Exposed(item) == IF item.alias # None THEN item.alias ELSE item.name
Distinct(seq) == \A i, j \in DOMAIN seq : seq[i] = seq[j] => i = j
=============================================================================
