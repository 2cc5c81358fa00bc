-------------------------- MODULE ColumnUsageFinder ---------------------------
(***************************************************************************)
(* _Finder: every place of a parsed script that names one column of one    *)
(* table, with the clause it is in.  What the recursion has still to do is *)
(* the agenda, the next task first; a scope is built while its FROM is     *)
(* read, then entered, and left at the end of its query.                   *)
(***************************************************************************)
EXTENDS SqlMeaning

VARIABLES
  target,     \* [schema, name, column]; never changes
  body,       \* of the consumer being scanned
  agenda,     \* tasks
  building,   \* the scopes being built, the innermost first
  scopes,     \* the scopes entered, the innermost first
  stmt_kind,
  hits,       \* what the scan of this body has found
  notes       \* its warnings

scan == <<body, agenda, building, scopes, stmt_kind, hits, notes>>

\* A warning, and the common table expression it is about.
Note(what, name) == [what |-> what, name |-> name]

\* A column is at the place of its statement and query: its line.
Statements(nested) == [i \in DOMAIN nested |-> [do |-> "statement", statement |-> nested[i]]]
Query0(n, k) == IF n = 0 THEN << >> ELSE <<[do |-> "query", query |-> n, statement |-> k]>>
Table0(item, k) == [do |-> "table", item |-> item, statement |-> k]
Column(context, ref, line) == [do |-> "column", context |-> context, ref |-> ref, line |-> line]
Columns(context, refs, line) == [i \in DOMAIN refs |-> Column(context, refs[i], line)]
Assign(ref, item, line) == [do |-> "assign", ref |-> ref, item |-> item, line |-> line]
EnterScope == [do |-> "enter"]
LeaveScope == [do |-> "leave"]
StatementKind(kind) == [do |-> "kind", kind |-> kind]

Task == Head(agenda)
Doing(do) == agenda # << >> /\ Task.do = do
Then(tasks) == agenda' = tasks \o Tail(agenda)

\* _walk_expr.  The walk does not enter a subquery, nor what it does not know; the input
\* of a simple CASE is in the clause of the CASE.
WalkBranches(refs, line) ==
  [i \in 1..3 |-> Column(<<"CASE_WHEN", "CASE_THEN", "CASE_ELSE">>[i], refs[i], line)]
Walk(context, expr, line) ==
  (CASE expr.form \in {"column", "call", "computed"} -> Columns(context, expr.refs, line)
     [] expr.form = "aggregate" -> Columns("AGGREGATE_ARG", expr.refs, line)
     [] expr.form = "case" -> WalkBranches(expr.refs, line)
     [] expr.form = "simple case" ->
          Columns(context, <<expr.refs[1]>>, line) \o WalkBranches(Tail(expr.refs), line)
     [] OTHER -> << >>)
  \o Columns("PARTITION_BY", expr.partition, line) \o Columns("ORDER_BY", expr.order, line)
WalkOn(on, line) == FlattenSeq([c \in DOMAIN on |-> Columns("JOIN_ON", on[c].left \o on[c].right, line)])
WalkAll(context, exprs, line) == FlattenSeq([e \in DOMAIN exprs |-> Walk(context, exprs[e], line)])

-----------------------------------------------------------------------------
(* Statements.  The SELECT of an INSERT is visited without the INSERT's     *)
(* common table expressions; a DELETE is not known.                        *)

VisitStatements ==
  /\ Doing("statement")
  /\ LET s == body.statements[Task.statement]
     IN  /\ s.kind \in {"block", "try", "if", "while", "delete"}
         /\ Then(IF s.kind = "delete" THEN << >> ELSE Statements(s.nested))
  /\ UNCHANGED <<body, building, scopes, stmt_kind, hits, notes>>

\* A SELECT has the kind of what it is in; each other statement has its own, and gives
\* the old one back.  Its ORDER BY is walked if a scope is left when its query has been
\* visited: one that was there before, since each query leaves its own.
As0(kind, tasks) ==
  /\ stmt_kind' = kind
  /\ Then(tasks \o <<StatementKind(stmt_kind)>>)

VisitSelect ==
  /\ Doing("statement")
  /\ LET k == Task.statement
         s == body.statements[k]
         cte(i) == <<[do |-> "cte", name |-> s.ctes[i].name, statement |-> k, query |-> s.ctes[i].query]>>
         ordered == IF scopes = << >> THEN << >> ELSE Columns("ORDER_BY", s.order_by, <<k, 0>>)
     IN  /\ s.kind \in {"select", "ctas"}
         /\ As0(IF s.kind = "ctas" THEN "CTAS" ELSE IF stmt_kind = None THEN "SELECT" ELSE stmt_kind,
                FlattenSeq([i \in DOMAIN s.ctes |-> cte(i)]) \o Query0(s.query, k) \o ordered)
  /\ UNCHANGED <<body, building, scopes, hits, notes>>

\* Mutant of VisitCte: what it finds is counted before the visit.
VisitCteLate ==
  /\ Doing("cte")
  /\ Then(<<[do |-> "after cte", name |-> Task.name, before |-> Len(hits)]>>
          \o Query0(Task.query, Task.statement))
  /\ UNCHANGED <<body, building, scopes, stmt_kind, hits, notes>>
VisitCte ==
  /\ Doing("cte")
  /\ Then(Query0(Task.query, Task.statement)
          \o <<[do |-> "after cte", name |-> Task.name, before |-> Len(hits)]>>)
  /\ UNCHANGED <<body, building, scopes, stmt_kind, hits, notes>>

AfterCte ==
  /\ Doing("after cte")
  /\ notes' = IF Len(hits) > Task.before
              THEN Append(notes, Note("referenced inside CTE", Task.name)) ELSE notes
  /\ Then(<< >>)
  /\ UNCHANGED <<body, building, scopes, stmt_kind, hits>>

VisitInsert ==
  /\ Doing("statement")
  /\ LET k == Task.statement
         s == body.statements[k]
         into(i) == Assign([prefix |-> None, name |-> s.columns[i]], s.target, <<k, 0>>)
     IN  /\ s.kind \in {"insert", "values"}
         /\ As0("INSERT", [i \in DOMAIN s.columns |-> into(i)]
                          \o (IF s.kind = "insert" THEN Query0(s.query, k) ELSE << >>))
  /\ UNCHANGED <<body, building, scopes, hits, notes>>

\* The target of the UPDATE and its FROM make one scope; the conditions of its joins are
\* not walked.
VisitUpdate ==
  /\ Doing("statement")
  /\ LET k == Task.statement
         s == body.statements[k]
         q == body.queries[s.query]
         set(i) == <<Assign([prefix |-> s.sets[i].prefix, name |-> s.sets[i].column], s.target,
                             <<k, 0>>)>>
                   \o Walk("ASSIGN_VALUE", s.sets[i].expr, <<k, 0>>)
     IN  /\ s.kind = "update"
         /\ As0("UPDATE",
                <<Table0(s.target, k)>> \o [i \in DOMAIN q.from |-> Table0(q.from[i], k)] \o <<EnterScope>>
                \o FlattenSeq([i \in DOMAIN s.sets |-> set(i)]) \o WalkAll("WHERE", q.where, <<k, s.query>>)
                \o <<LeaveScope>>)
  /\ building' = <<<< >>>> \o building
  /\ UNCHANGED <<body, scopes, hits, notes>>

VisitMerge ==
  /\ Doing("statement")
  /\ LET k == Task.statement
         s == body.statements[k]
         set(i) == Columns("ASSIGN_TARGET",
                           <<[prefix |-> s.sets[i].prefix, name |-> s.sets[i].column]>>, <<k, 0>>)
                   \o Walk("ASSIGN_VALUE", s.sets[i].expr, <<k, 0>>)
     IN  /\ s.kind = "merge"
         /\ As0("MERGE",
                <<Table0(s.target, k), Table0(s.using, k), EnterScope>> \o WalkOn(s.using.on, <<k, 0>>)
                \o FlattenSeq([i \in DOMAIN s.sets |-> set(i)]) \o <<LeaveScope>>)
  /\ building' = <<<< >>>> \o building
  /\ UNCHANGED <<body, scopes, hits, notes>>

RestoreKind ==
  /\ Doing("kind")
  /\ stmt_kind' = Task.kind
  /\ Then(<< >>)
  /\ UNCHANGED <<body, building, scopes, hits, notes>>

-----------------------------------------------------------------------------
(* Queries and their scopes.                                               *)

\* The clauses in the order they are walked, the outermost join first.
VisitQuery ==
  /\ Doing("query")
  /\ LET q == body.queries[Task.query]
         k == Task.statement
         line == <<k, Task.query>>
         element(i) == IF q.select[i].kind = "scalar" THEN Walk("PROJECTION", q.select[i].expr, line)
                       ELSE <<[do |-> "star", element |-> q.select[i]]>>
         outer(i) == WalkOn(q.from[Len(q.from) + 1 - i].on, line)
     IN  IF q.kind = "union"
         THEN Then(Query0(q.left, k) \o Query0(q.right, k)) /\ UNCHANGED building
         ELSE /\ building' = <<<< >>>> \o building
              /\ Then([i \in DOMAIN q.from |-> Table0(q.from[i], k)] \o <<EnterScope>>
                      \o FlattenSeq([i \in DOMAIN q.select |-> element(i)])
                      \o FlattenSeq([i \in DOMAIN q.from |-> outer(i)])
                      \o WalkAll("WHERE", q.where, line) \o Columns("GROUP_BY", q.group_by, line)
                      \o WalkAll("HAVING", q.having, line) \o <<LeaveScope>>)
  /\ UNCHANGED <<body, scopes, stmt_kind, hits, notes>>

\* A name without a schema is taken for a table of dbo, also when it is the name of a
\* common table expression.
TableOf(item) == <<IF item.schema = None THEN "dbo" ELSE item.schema, item.name>>
Add(alias, table) ==
  building' = [building EXCEPT ![1] = Bind(@, [alias |-> alias, table |-> table])]

CollectTable ==
  /\ Doing("table") /\ Task.item.kind = "table"
  /\ Add(Exposed(Task.item), TableOf(Task.item))
  /\ Then(<< >>)
  /\ UNCHANGED <<body, scopes, stmt_kind, hits, notes>>

\* A derived table is scanned, then holds its place in the scope.
CollectDerived ==
  /\ Doing("table") /\ Task.item.kind = "derived"
  /\ Then(Query0(Task.item.query, Task.statement) \o <<[do |-> "placeholder", alias |-> Task.item.alias]>>)
  /\ UNCHANGED <<body, building, scopes, stmt_kind, hits, notes>>

AddPlaceholder ==
  /\ Doing("placeholder")
  /\ Add(Task.alias, << >>)
  /\ Then(<< >>)
  /\ UNCHANGED <<body, scopes, stmt_kind, hits, notes>>

CollectOther ==
  /\ Doing("table") /\ Task.item.kind = "other"
  /\ Then(<< >>)
  /\ UNCHANGED <<body, building, scopes, stmt_kind, hits, notes>>

Enter ==
  /\ Doing("enter")
  /\ scopes' = <<Head(building)>> \o scopes /\ building' = Tail(building)
  /\ Then(<< >>)
  /\ UNCHANGED <<body, stmt_kind, hits, notes>>

Leave ==
  /\ Doing("leave")
  /\ scopes' = Tail(scopes)
  /\ Then(<< >>)
  /\ UNCHANGED <<body, building, stmt_kind, hits, notes>>

-----------------------------------------------------------------------------
(* Columns.                                                                *)

Scope == Head(scopes)
IsTarget(table) == table = <<target.schema, target.name>>
\* The binding a prefix names in the innermost scope.
Bound(prefix) == {i \in DOMAIN Scope : Scope[i].alias = prefix}
PrefixMatches(prefix) == \E i \in Bound(prefix) : IsTarget(Scope[i].table)

\* Mutant of SingleMatching: one binding that matches, among others.
AnyMatching == \E i \in DOMAIN Scope : IsTarget(Scope[i].table)
SingleMatching == Len(Scope) = 1 /\ IsTarget(Scope[1].table)

Hit(context, line, alias) ==
  [context |-> context, line |-> line, alias |-> alias, kind |-> stmt_kind]

MaybeEmitColumn ==
  /\ Doing("column")
  /\ LET ref == Task.ref
         matched == IF ref.prefix = None THEN SingleMatching ELSE PrefixMatches(ref.prefix)
     IN  /\ hits' = IF ref.name = target.column /\ matched
                    THEN Append(hits, Hit(Task.context, Task.line, ref.prefix)) ELSE hits
         /\ notes' = IF ref.name = target.column /\ ref.prefix = None /\ ~matched
                     THEN Append(notes, Note("unqualified column", None)) ELSE notes
  /\ Then(<< >>)
  /\ UNCHANGED <<body, building, scopes, stmt_kind>>

\* A column of an INSERT's list, or on the left of a SET: without a prefix it is the
\* statement's table's, by its name.
AssignTarget ==
  /\ Doing("assign")
  /\ LET ref == Task.ref
         matched == IF ref.prefix = None THEN IsTarget(TableOf(Task.item)) ELSE PrefixMatches(ref.prefix)
     IN  hits' = IF ref.name = target.column /\ matched
                 THEN Append(hits, Hit("ASSIGN_TARGET", Task.line, ref.prefix)) ELSE hits
  /\ Then(<< >>)
  /\ UNCHANGED <<body, building, scopes, stmt_kind, notes>>

\* A star is never expanded: it is only said that the column may be in it.
MapStar ==
  /\ Doing("star")
  /\ LET elem == Task.element
         covers == IF elem.qualifier = None THEN \E i \in DOMAIN Scope : IsTarget(Scope[i].table)
                   ELSE PrefixMatches(elem.qualifier)
     IN  notes' = IF elem.kind = "star" /\ covers
                 THEN Append(notes, Note("star may include it", None)) ELSE notes
  /\ Then(<< >>)
  /\ UNCHANGED <<body, building, scopes, stmt_kind, hits>>

FinderStep ==
  \/ VisitStatements \/ VisitSelect \/ VisitCte \/ AfterCte \/ VisitInsert \/ VisitUpdate \/ VisitMerge
  \/ RestoreKind \/ VisitQuery \/ CollectTable \/ CollectDerived \/ AddPlaceholder \/ CollectOther
  \/ Enter \/ Leave \/ MaybeEmitColumn \/ AssignTarget \/ MapStar
=============================================================================
