----------------------------- MODULE SqlMeaning ------------------------------
(***************************************************************************)
(* What the names in a body mean in T-SQL: the reference the readers are   *)
(* compared with.  No code is modelled here.  A name without a schema is a *)
(* common table expression of the statement, or else a table of dbo; a     *)
(* column belongs to a table of its own query's FROM.                      *)
(***************************************************************************)
EXTENDS SqlBody

BaseColumn(i, n) ==
  [owner |-> <<"base", Objects[i].schema, Objects[i].name>>, column |-> Objects[i].columns[n], ordinal |-> n]

Table(schema, name) ==
  {i \in DOMAIN Objects : Objects[i].name = name /\ Objects[i].schema = IF schema = None THEN "dbo" ELSE schema}
TableColumns(schema, name) ==
  IF Table(schema, name) = {} THEN << >>
  ELSE LET i == CHOOSE o \in Table(schema, name) : TRUE
       IN  [n \in DOMAIN Objects[i].columns |->
              [name |-> Objects[i].columns[n], from |-> {BaseColumn(i, n)}]]

\* The common table expression a table reference of query n means, if it is one:
\* what it may refer to has a lower position.
CteOf(s, item, n) ==
  {k \in DOMAIN s.ctes : item.kind = "table" /\ item.schema = None
                       /\ s.ctes[k].name = item.name /\ s.ctes[k].query < n}

Renamed(columns, names) ==
  [n \in DOMAIN columns |-> IF n \in DOMAIN names THEN [columns[n] EXCEPT !.name = names[n]] ELSE columns[n]]

\* The columns with that name of the tables with that name.
Named(tables, items, ref) ==
  {c \in UNION {Range(tables[i]) : i \in {j \in DOMAIN items : ref.prefix \in {None, Exposed(items[j])}}} :
     c.name = ref.name}
From(tables, items, refs) == UNION {c.from : c \in UNION {Named(tables, items, refs[i]) : i \in DOMAIN refs}}

\* A result comes from all the columns its expression names, those that only choose one
\* of the branches of a CASE included (README.md of the repository, line 143).
Produced(tables, items, elem) ==
  CASE elem.kind = "scalar" ->
         <<[name |-> IF elem.alias = None /\ elem.expr.form = "column" THEN elem.expr.refs[1].name ELSE elem.alias,
            from |-> From(tables, items, elem.expr.refs)]>>
    [] elem.kind = "star" ->
         FlattenSeq([i \in DOMAIN items |->
                       IF elem.qualifier \in {None, Exposed(items[i])} THEN tables[i] ELSE << >>])
    [] OTHER -> << >>

\* Of a statement, per query: the columns it produces, in order, with the columns of
\* base tables each comes from; and the same of each table of its FROM.
ItemColumns(s, n, item, of) ==
  IF item.kind = "derived" THEN of[item.query]
  ELSE IF item.kind = "other" THEN << >>
  ELSE IF CteOf(s, item, n) # {}
  THEN LET k == CHOOSE c \in CteOf(s, item, n) : TRUE IN Renamed(of[s.ctes[k].query], s.ctes[k].columns)
  ELSE TableColumns(item.schema, item.name)

TablesOf(s, n, items, of) == [i \in DOMAIN items |-> ItemColumns(s, n, items[i], of)]
ColumnsOf(tables, items, elements) ==
  FlattenSeq([e \in DOMAIN elements |-> Produced(tables, items, elements[e])])
QueryColumns(queries, s, n, of) ==
  LET q == queries[n]
  IN  IF q.kind = "union"
      THEN [i \in DOMAIN of[q.left] \cap DOMAIN of[q.right] |->
              [name |-> of[q.left][i].name, from |-> of[q.left][i].from \cup of[q.right][i].from]]
      ELSE ColumnsOf(TablesOf(s, n, q.from, of), q.from, q.select)
Meant(queries, s) ==
  LET of[n \in 0..Len(queries)] ==
        IF n = 0 THEN << >> ELSE LET inner == of[n - 1] IN Append(inner, QueryColumns(queries, s, n, inner))
  IN  of[Len(queries)]

\* The derived tables and the sides of a query, and all a query is made of.
Parts(q) ==
  {q.from[i].query : i \in {j \in DOMAIN q.from : q.from[j].kind = "derived"}}
  \cup (IF q.kind = "union" THEN {q.left, q.right} ELSE {})
BuiltFrom(queries, n) ==
  LET of[m \in DOMAIN queries] == {m} \cup UNION {of[p] : p \in Parts(queries[m])} IN of[n]

\* The queries of a statement: its own, and those they are made of.
Roots(s) == <<s.query, s.using.query>> \o [c \in DOMAIN s.ctes |-> s.ctes[c].query]
QueriesOf(queries, s) == UNION {BuiltFrom(queries, n) : n \in Range(Roots(s)) \ {0}}

\* Each column a query names, with the clause it is in, or the part of an expression.
In(context, refs) == [i \in DOMAIN refs |-> [context |-> context, ref |-> refs[i]]]
Branches(refs) == [i \in 1..3 |-> [context |-> <<"CASE_WHEN", "CASE_THEN", "CASE_ELSE">>[i], ref |-> refs[i]]]
UsesOfExpr(context, expr) ==
  (CASE expr.form = "aggregate" -> In("AGGREGATE_ARG", expr.refs)
     [] expr.form = "case" -> Branches(expr.refs)
     [] expr.form = "simple case" -> In(context, <<expr.refs[1]>>) \o Branches(Tail(expr.refs))
     [] OTHER -> In(context, expr.refs))
  \o In("PARTITION_BY", expr.partition) \o In("ORDER_BY", expr.order)
UsesOfOn(on) == FlattenSeq([c \in DOMAIN on |-> In("JOIN_ON", on[c].left \o on[c].right)])
UsesOfQuery(q) ==
  FlattenSeq([e \in DOMAIN q.select |-> UsesOfExpr("PROJECTION", q.select[e].expr)])
  \o FlattenSeq([i \in DOMAIN q.from |-> UsesOfOn(q.from[i].on)])
  \o FlattenSeq([e \in DOMAIN q.where |-> UsesOfExpr("WHERE", q.where[e])])
  \o In("GROUP_BY", q.group_by)
  \o FlattenSeq([e \in DOMAIN q.having |-> UsesOfExpr("HAVING", q.having[e])])

\* A statement that a model compiles: the tables of a FROM have names of their own, each
\* column means one, in an ON one of a table joined so far, the qualifier of a star is a
\* table of its FROM, both sides of a UNION are as wide, and what a derived table or a
\* common table expression produces has names.
Compiled(queries, s) ==
  LET of == Meant(queries, s)
  IN  /\ \A n \in QueriesOf(queries, s) :
          LET q == queries[n]
              tables == TablesOf(s, n, q.from, of)
          IN  /\ Distinct([i \in DOMAIN q.from |->
                             IF q.from[i].alias # None THEN <<q.from[i].alias>>
                             ELSE <<q.from[i].schema, q.from[i].name>>])
              /\ \A use \in Range(UsesOfQuery(q)) : Cardinality(Named(tables, q.from, use.ref)) = 1
              /\ \A i \in DOMAIN q.from : \A use \in Range(UsesOfOn(q.from[i].on)) :
                   Named(tables, SubSeq(q.from, 1, i), use.ref) # {}
              /\ \A e \in DOMAIN q.select :
                   q.select[e].kind = "star" =>
                     q.select[e].qualifier \in {None} \cup {Exposed(item) : item \in Range(q.from)}
              /\ q.kind = "union" => Len(of[q.left]) = Len(of[q.right])
              /\ n # s.query => Distinct([i \in DOMAIN of[n] |-> of[n][i].name])
      /\ s.kind = "merge" =>
           LET sides == <<s.target, s.using>>
               tables == TablesOf(s, Len(queries) + 1, sides, of)
           IN  \A k \in DOMAIN s.sets : \A i \in DOMAIN s.sets[k].expr.refs :
                 Cardinality(Named(tables, sides, s.sets[k].expr.refs[i])) = 1
Compiles(b) == \A k \in DOMAIN b.statements : Compiled(b.queries, b.statements[k])
=============================================================================
