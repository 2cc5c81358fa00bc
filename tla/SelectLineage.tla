---------------------------- MODULE SelectLineage ----------------------------
(***************************************************************************)
(* SelectLineageVisitor on one body: which base columns each column that a *)
(* statement produces comes from.  One frame of the stack per query being  *)
(* visited, with the scope it builds; the scopes below are its parents.    *)
(***************************************************************************)
EXTENDS SqlMeaning

VARIABLES
  body,        \* never changes
  pc,
  pending,     \* statements still to visit, the next one first
  current,     \* the statement being visited
  cte,         \* position in its common table expressions
  cte_scope,
  stack,       \* of frames, the innermost query first
  returned,    \* what the last query visited maps
  expansions,  \* [name of a CTE or derived table -> sources of each column]
  warnings,    \* {<<statement, text>>}
  predicates,
  results      \* per statement, the columns it produces

vars == <<body, pc, pending, current, cte, cte_scope, stack, returned, expansions,
          warnings, predicates, results>>

Init ==
  /\ body \in Bodies
  /\ pc = "statements" /\ pending = body.top /\ current = 0
  /\ cte = 1 /\ cte_scope = << >> /\ stack = << >> /\ returned = << >>
  /\ expansions = << >> /\ warnings = {} /\ predicates = << >> /\ results = << >>

ThisStatement == body.statements[current]
Top == Head(stack)
Warn(text) == warnings' = warnings \cup {<<current, text>>}

-----------------------------------------------------------------------------
(* Scopes.  A column is owned by a base table or by a CTE or derived table, *)
(* whose columns are virtual.                                              *)

Base(i) ==
  [n \in DOMAIN Objects[i].columns |->
     [owner |-> <<"base", Objects[i].schema, Objects[i].name>>,
      column |-> Objects[i].columns[n], ordinal |-> n]]
IsVirtual(col) == col.owner[1] # "base"

\* schema.name first, then the bare name, whose entry is of the last object that has it.
Lookup(schema, name) ==
  LET exact == IF schema = None THEN {} ELSE Holders(schema, name)
      cols(positions) == IF positions = {} THEN << >> ELSE Base(Latest(positions))
  IN  IF cols(exact) # << >> THEN cols(exact) ELSE cols(Holders(None, name))

Parents(frames) == [i \in DOMAIN frames |-> frames[i].scope] \o <<cte_scope>>

Columns(scope, prefix, name) ==
  {c \in UNION {Range(scope[i].columns) : i \in {j \in DOMAIN scope : prefix \in {None, scope[j].alias}}} :
     c.column = name}
Serves(scope, ref) ==
  IF ref.prefix = None THEN Columns(scope, None, ref.name) # {}
  ELSE \E i \in DOMAIN scope : scope[i].alias = ref.prefix

\* The innermost scope that has the alias, or, without a prefix, the column.
Resolve(ref, chain) ==
  LET serving == {i \in DOMAIN chain : Serves(chain[i], ref)}
  IN  IF serving = {} THEN {}
      ELSE Columns(chain[CHOOSE i \in serving : \A j \in serving : i <= j], ref.prefix, ref.name)

\* What is known of a virtual column: the sources its query gave it.
Known(col) == col.owner \in DOMAIN expansions /\ col.ordinal \in DOMAIN expansions[col.owner]
SourcesOf(col) == IF Known(col) THEN expansions[col.owner][col.ordinal] ELSE {}
Depth == Cardinality(UNION {{<<o, n>> : n \in DOMAIN expansions[o]} : o \in DOMAIN expansions})

\* The recursion of _expand_virtual_column has no end when a name was registered
\* again on top of itself: some column is then reached in any number of steps.
Endless(cols) ==
  LET reached[k \in 0..Depth] == IF k = 0 THEN cols ELSE UNION {SourcesOf(c) : c \in reached[k - 1]}
  IN  \E c \in reached[Depth] : Known(c)

\* The columns they are traced to; one that comes from no column stands for itself.
Trace(cols) ==
  LET to[k \in 0..Depth] ==
        IF k = 0 THEN cols
        ELSE UNION {IF SourcesOf(c) = {} THEN {c} ELSE SourcesOf(c) : c \in to[k - 1]}
  IN  to[Depth]

Matches(refs, chain) == UNION {Resolve(refs[i], chain) : i \in DOMAIN refs}
Found(refs, chain) == Trace(Matches(refs, chain))
\* Mutant of WarnOf: a column with a prefix is passed over.
WarnOfBare(refs, chain) ==
  {<<current, "unresolved column">> :
     i \in {j \in DOMAIN refs : refs[j].prefix = None /\ Resolve(refs[j], chain) = {}}}
WarnOf(refs, chain) ==
  {<<current, "unresolved column">> : i \in {j \in DOMAIN refs : Resolve(refs[j], chain) = {}}}

\* The columns of an expression that are walked for its sources, and with its window.
\* The WHEN of a searched CASE is a condition, which the walk does not know; that of a
\* simple one is walked, and so is its input.
Walked(expr) ==
  CASE expr.form \in {"column", "call", "aggregate", "computed", "simple case"} -> expr.refs
    [] expr.form = "case" -> Tail(expr.refs)
    [] OTHER -> << >>
All(expr) == Walked(expr) \o expr.partition \o expr.order

-----------------------------------------------------------------------------
(* Statements.                                                             *)

Frame(query) == [query |-> query, at |-> 1, scope |-> << >>, maps |-> << >>]

\* Mutant of Unfold: what is nested comes last.
UnfoldLast ==
  /\ pc = "statements" /\ pending # << >>
  /\ LET s == body.statements[Head(pending)]
     IN  /\ s.kind \in {"block", "if", "while", "try", "update", "delete"}
         /\ pending' = Tail(pending) \o (IF s.kind \in {"block", "if", "while"} THEN s.nested ELSE << >>)
  /\ UNCHANGED <<body, pc, current, cte, cte_scope, stack, returned, expansions, warnings, predicates, results>>

\* _body_producers: the statements inside blocks, IF and WHILE are visited in order,
\* what a TRY holds is not.
Unfold ==
  /\ pc = "statements" /\ pending # << >>
  /\ LET s == body.statements[Head(pending)]
     IN  /\ s.kind \in {"block", "if", "while", "try", "update", "delete"}
         /\ pending' = (IF s.kind \in {"block", "if", "while"} THEN s.nested ELSE << >>) \o Tail(pending)
  /\ UNCHANGED <<body, pc, current, cte, cte_scope, stack, returned, expansions, warnings, predicates, results>>

\* Only a SELECT has its common table expressions visited; the frame of a MERGE has 0
\* for its query.
StartStatement ==
  /\ pc = "statements" /\ pending # << >>
  /\ LET s == body.statements[Head(pending)]
     IN  /\ s.kind \in {"select", "ctas", "insert", "values", "merge"}
         /\ pc' = CASE s.kind \in {"select", "ctas"} -> "ctes"
                    [] s.kind = "values" -> "no source"
                    [] OTHER -> "visit"
         /\ stack' = CASE s.kind = "insert" -> <<Frame(s.query)>>
                       [] s.kind = "merge" -> <<Frame(0)>>
                       [] OTHER -> << >>
  /\ current' = Head(pending) /\ pending' = Tail(pending)
  /\ cte' = 1 /\ cte_scope' = << >>
  /\ UNCHANGED <<body, returned, expansions, warnings, predicates, results>>

AllDone ==
  /\ pc = "statements" /\ pending = << >>
  /\ pc' = "done"
  /\ UNCHANGED <<body, pending, current, cte, cte_scope, stack, returned, expansions, warnings, predicates, results>>

SkipValues ==
  /\ pc = "no source"
  /\ Warn("insert source not SELECT-based")
  /\ results' = Append(results, [statement |-> current, maps |-> << >>])
  /\ pc' = "statements"
  /\ UNCHANGED <<body, pending, current, cte, cte_scope, stack, returned, expansions, predicates>>

\* The next common table expression, or the query of the statement itself.
OpenStatementQuery ==
  /\ pc = "ctes"
  /\ stack' = <<Frame(IF cte <= Len(ThisStatement.ctes) THEN ThisStatement.ctes[cte].query ELSE ThisStatement.query)>>
  /\ pc' = "visit"
  /\ UNCHANGED <<body, pending, current, cte, cte_scope, returned, expansions, warnings, predicates, results>>

-----------------------------------------------------------------------------
(* One query.                                                              *)

ThisQuery == body.queries[Top.query]
IsMerge == Top.query = 0
InUnion == ~IsMerge /\ ThisQuery.kind = "union"
ItemsIn(s, n) == IF n = 0 THEN <<s.target, s.using>> ELSE body.queries[n].from
Items == ItemsIn(ThisStatement, Top.query)
ThisItem == Items[Top.at]
InFrom == pc = "visit" /\ ~InUnion /\ Top.at <= Len(Items)
Chain == Parents(stack)

BindTop(alias, columns) ==
  [stack EXCEPT ![1].scope = Bind(@, [alias |-> alias, columns |-> columns])]

BindTable ==
  /\ InFrom /\ ThisItem.kind = "table"
  /\ stack' = BindTop(Exposed(ThisItem), Lookup(ThisItem.schema, ThisItem.name))
  /\ pc' = "on"
  /\ UNCHANGED <<body, pending, current, cte, cte_scope, returned, expansions, warnings, predicates, results>>

SkipTable ==
  /\ InFrom /\ ThisItem.kind = "other"
  /\ Warn("unsupported table reference")
  /\ pc' = "on"
  /\ UNCHANGED <<body, pending, current, cte, cte_scope, stack, returned, expansions, predicates, results>>

\* The query of a derived table has the scope built so far for its parent.
OpenDerived ==
  /\ InFrom /\ ThisItem.kind = "derived"
  /\ stack' = <<Frame(ThisItem.query)>> \o stack
  /\ UNCHANGED <<body, pc, pending, current, cte, cte_scope, returned, expansions, warnings, predicates, results>>

Virtual(owner, names) == [n \in DOMAIN names |-> [owner |-> owner, column |-> names[n], ordinal |-> n]]
\* Mutant of Remember: a column without sources stands for itself here already.
RememberSelf(owner) ==
  expansions' = [o \in DOMAIN expansions \cup {owner} |->
                   IF o # owner THEN expansions[o]
                   ELSE [n \in DOMAIN returned |->
                           IF returned[n].sources = {}
                           THEN {Virtual(owner, [m \in DOMAIN returned |-> returned[m].name])[n]}
                           ELSE returned[n].sources]]
Remember(owner) ==
  expansions' = [o \in DOMAIN expansions \cup {owner} |->
                   IF o = owner THEN [n \in DOMAIN returned |-> returned[n].sources] ELSE expansions[o]]

BindDerived ==
  /\ pc = "returned" /\ stack # << >> /\ ~InUnion
  /\ LET owner == <<"derived", ThisItem.alias>>
     IN  /\ stack' = BindTop(ThisItem.alias, Virtual(owner, [n \in DOMAIN returned |-> returned[n].name]))
         /\ Remember(owner)
  /\ pc' = "on"
  /\ UNCHANGED <<body, pending, current, cte, cte_scope, returned, warnings, predicates, results>>

\* The equalities of a join condition, once both sides are in the scope; when none has
\* columns on both sides the whole condition is kept, with no columns.  The condition of
\* a MERGE is not read.
Condition == IF IsMerge THEN << >> ELSE ThisItem.on
OnRefs ==
  FlattenSeq([i \in DOMAIN Condition |->
                IF Condition[i].op = "=" THEN Condition[i].left \o Condition[i].right ELSE << >>])
Predicate(kind, columns, partner) ==
  [statement |-> current, kind |-> kind, columns |-> columns, partner |-> partner]
\* The partner of an equality is right_cols[0]: a column of the first name on the right
\* that is found.  Which one, where that name is traced to several, a set does not tell.
FirstFound(refs) ==
  Found(SubSeq(SelectSeq(refs, LAMBDA ref : Resolve(ref, Chain) # {}), 1, 1), Chain)
PairsOf(c) ==
  IF c.op # "=" \/ Matches(c.left, Chain) = {} \/ Matches(c.right, Chain) = {} THEN {<< >>}
  ELSE {<<Predicate("JOIN_ON", Found(c.left \o c.right, Chain), {partner})>> : partner \in FirstFound(c.right)}
JoinPairs ==
  FoldLeft(LAMBDA kept, c : {pairs \o pair : pairs \in kept, pair \in PairsOf(c)}, {<< >>}, Condition)
\* Mutant of JoinPredicates: the first equality only.
FirstJoinPredicate(pairs) == IF pairs = << >> THEN << >> ELSE <<Head(pairs)>>
JoinPredicates(pairs) ==
  IF Condition = << >> THEN << >> ELSE IF pairs = << >> THEN <<Predicate("JOIN_ON", {}, {})>> ELSE pairs

CollectJoinCondition ==
  /\ pc = "on" /\ ~Endless(Matches(OnRefs, Chain))
  /\ \E pairs \in JoinPairs : predicates' = predicates \o JoinPredicates(pairs)
  /\ warnings' = warnings \cup WarnOf(OnRefs, Chain)
  /\ stack' = [stack EXCEPT ![1].at = @ + 1]
  /\ pc' = "visit"
  /\ UNCHANGED <<body, pending, current, cte, cte_scope, returned, expansions, results>>

\* The columns of the select list, or the assignments of a MERGE, follow the items.
ElementsIn(s, n) ==
  IF n = 0 THEN [k \in DOMAIN s.sets |-> [kind |-> "scalar", alias |-> s.sets[k].column, qualifier |-> None,
                                          expr |-> s.sets[k].expr]]
  ELSE body.queries[n].select
Elements == ElementsIn(ThisStatement, Top.query)
ThisElement == Elements[Top.at - Len(Items)]
InSelect(kinds) ==
  /\ pc = "visit" /\ ~InUnion
  /\ Top.at > Len(Items) /\ Top.at <= Len(Items) + Len(Elements)
  /\ ThisElement.kind \in kinds

\* The name of the n-th column: its alias, the column declared there, its own.
NameOf(elem, n) ==
  CASE elem.alias # None -> elem.alias
    [] elem.alias = None /\ n <= Len(body.declared) -> body.declared[n]
    [] elem.alias = None /\ n > Len(body.declared) /\ elem.expr.form = "column" -> elem.expr.refs[1].name
    [] OTHER -> None

\* What a clause names is kept when any of it is found; _collect_over_clause.
Kept(kind, refs) == IF Found(refs, Chain) = {} THEN << >> ELSE <<Predicate(kind, Found(refs, Chain), {})>>
OverPredicates(expr) == Kept("PARTITION_BY", expr.partition) \o Kept("ORDER_BY", expr.order)

MapScalar ==
  /\ InSelect({"scalar"})
  /\ LET expr == ThisElement.expr
     IN  /\ ~Endless(Matches(All(expr), Chain))
         /\ stack' = [stack EXCEPT ![1].at = @ + 1,
                        ![1].maps = Append(@, [name |-> NameOf(ThisElement, Len(@) + 1),
                                               sources |-> Found(Walked(expr), Chain),
                                               is_direct |-> expr.form \in {"column", "opaque"}])]
         /\ predicates' = predicates \o OverPredicates(expr)
         /\ warnings' = warnings \cup WarnOf(All(expr), Chain)
              \cup (IF expr.form = "subquery" THEN {<<current, "scalar subquery not resolved">>} ELSE {})
  /\ UNCHANGED <<body, pc, pending, current, cte, cte_scope, returned, expansions, results>>

\* The columns as the scope has them: a virtual one is not traced.
Star(qualifier) ==
  LET with == {i \in DOMAIN Chain : \E b \in Range(Chain[i]) : b.alias = qualifier}
      nearest == Chain[CHOOSE i \in with : \A j \in with : i <= j]
      bindings == IF qualifier = None THEN Top.scope ELSE IF with = {} THEN << >> ELSE nearest
  IN  FlattenSeq([i \in DOMAIN bindings |->
                    IF qualifier \in {None, bindings[i].alias} THEN bindings[i].columns ELSE << >>])

ExpandStar ==
  /\ InSelect({"star"})
  /\ LET columns == Star(ThisElement.qualifier)
     IN  stack' = [stack EXCEPT ![1].at = @ + 1,
                     ![1].maps = @ \o [n \in DOMAIN columns |->
                                         [name |-> columns[n].column, sources |-> {columns[n]}, is_direct |-> TRUE]]]
  /\ UNCHANGED <<body, pc, pending, current, cte, cte_scope, returned, expansions, warnings, predicates, results>>

\* Mutant of SkipElement: it is not passed.
SkipElementStays == InSelect({"variable", "other"}) /\ UNCHANGED vars
SkipElement ==
  /\ InSelect({"variable", "other"})
  /\ stack' = [stack EXCEPT ![1].at = @ + 1]
  /\ warnings' = IF ThisElement.kind = "variable" THEN warnings
                 ELSE warnings \cup {<<current, "unsupported select element">>}
  /\ UNCHANGED <<body, pc, pending, current, cte, cte_scope, returned, expansions, predicates, results>>

\* WHERE and HAVING are kept with no columns: a condition is not an expression the
\* walk knows.
Return ==
  /\ pc = "visit" /\ ~InUnion /\ Top.at > Len(Items) + Len(Elements)
  /\ LET groups == IF IsMerge THEN << >> ELSE ThisQuery.group_by
         noted(there, kind) == IF there THEN <<Predicate(kind, {}, {})>> ELSE << >>
     IN  /\ ~Endless(Matches(groups, Chain))
         /\ predicates' = predicates
              \o noted(~IsMerge /\ ThisQuery.where # << >>, "WHERE")
              \o Kept("GROUP_BY", groups)
              \o noted(~IsMerge /\ ThisQuery.having # << >>, "HAVING")
         /\ warnings' = warnings \cup WarnOf(groups, Chain)
  /\ returned' = Top.maps /\ stack' = Tail(stack) /\ pc' = "returned"
  /\ UNCHANGED <<body, pending, current, cte, cte_scope, expansions, results>>

\* The ORDER BY of a SELECT, looked for once its query has been left: of all scopes only
\* that of its common table expressions is there.
OrderRefs == IF ThisStatement.kind \in {"select", "ctas"} THEN ThisStatement.order_by ELSE << >>
InCtes == ThisStatement.kind \in {"select", "ctas"} /\ cte <= Len(ThisStatement.ctes)
AtEnd == pc = "returned" /\ stack = << >> /\ ~InCtes

\* RecursionError: what refers to itself is traced for ever.
Overflow ==
  /\ \/ pc = "on" /\ Endless(Matches(OnRefs, Chain))
     \/ InSelect({"scalar"}) /\ Endless(Matches(All(ThisElement.expr), Chain))
     \/ /\ pc = "visit" /\ ~InUnion /\ ~IsMerge /\ Top.at > Len(Items) + Len(Elements)
        /\ Endless(Matches(ThisQuery.group_by, Chain))
     \/ AtEnd /\ Endless(Matches(OrderRefs, Chain))
  /\ pc' = "raised"
  /\ UNCHANGED <<body, pending, current, cte, cte_scope, stack, returned, expansions, warnings, predicates, results>>

-----------------------------------------------------------------------------
(* UNION, and what becomes of the result.                                  *)

OpenBranch ==
  /\ pc = "visit" /\ InUnion
  /\ stack' = <<Frame(IF Top.at = 1 THEN ThisQuery.left ELSE ThisQuery.right)>> \o stack
  /\ UNCHANGED <<body, pc, pending, current, cte, cte_scope, returned, expansions, warnings, predicates, results>>

LeftDone ==
  /\ pc = "returned" /\ stack # << >> /\ InUnion /\ Top.at = 1
  /\ stack' = [stack EXCEPT ![1].at = 2, ![1].maps = returned]
  /\ pc' = "visit"
  /\ UNCHANGED <<body, pending, current, cte, cte_scope, returned, expansions, warnings, predicates, results>>

\* Mutant of MergeByOrdinal: the sources of the left side only.
MergeLeft(left, right) ==
  [n \in DOMAIN left \cup DOMAIN right |->
     IF n \in DOMAIN left THEN [left[n] EXCEPT !.is_direct = FALSE] ELSE right[n]]
MergeByOrdinal(left, right) ==
  [n \in DOMAIN left \cup DOMAIN right |->
     [name |-> IF n \in DOMAIN left THEN left[n].name ELSE right[n].name,
      sources |-> UNION {side[n].sources : side \in {s \in {left, right} : n \in DOMAIN s}},
      is_direct |-> FALSE]]

RightDone ==
  /\ pc = "returned" /\ stack # << >> /\ InUnion /\ Top.at = 2
  /\ returned' = MergeByOrdinal(Top.maps, returned)
  /\ stack' = Tail(stack)
  /\ UNCHANGED <<body, pc, pending, current, cte, cte_scope, expansions, warnings, predicates, results>>

RegisterCte ==
  /\ pc = "returned" /\ stack = << >> /\ InCtes
  /\ LET this == ThisStatement.ctes[cte]
         owner == <<"cte", this.name>>
         name(n) == IF n <= Len(this.columns) THEN this.columns[n] ELSE returned[n].name
     IN  /\ cte_scope' = Bind(cte_scope, [alias |-> this.name,
                                          columns |-> Virtual(owner, [n \in DOMAIN returned |-> name(n)])])
         /\ Remember(owner)
  /\ cte' = cte + 1 /\ pc' = "ctes"
  /\ UNCHANGED <<body, pending, current, stack, returned, warnings, predicates, results>>

\* _realign_to_target: the columns of an INSERT take the names of the target's, by
\* position, and those too many are dropped with a warning.
TargetColumns ==
  LET columns == Lookup(ThisStatement.target.schema, ThisStatement.target.name)
  IN  IF ThisStatement.kind # "insert" \/ ThisStatement.target.kind # "table" THEN << >>
      ELSE IF ThisStatement.columns # << >> THEN ThisStatement.columns
      ELSE [n \in DOMAIN columns |-> columns[n].column]
Realigned(maps) ==
  IF TargetColumns = << >> THEN maps
  ELSE [n \in DOMAIN maps \cap DOMAIN TargetColumns |-> [maps[n] EXCEPT !.name = TargetColumns[n]]]

FinishStatement ==
  /\ AtEnd /\ ~Endless(Matches(OrderRefs, Chain))
  /\ results' = Append(results, [statement |-> current, maps |-> Realigned(returned)])
  /\ predicates' = predicates \o Kept("ORDER_BY", OrderRefs)
  /\ warnings' = warnings \cup WarnOf(OrderRefs, Chain)
       \cup (IF TargetColumns # << >> /\ Len(returned) > Len(TargetColumns)
             THEN {<<current, "too many SELECT columns">>} ELSE {})
  /\ pc' = "statements"
  /\ UNCHANGED <<body, pending, current, cte, cte_scope, stack, returned, expansions>>

Next ==
  \/ Unfold \/ StartStatement \/ AllDone \/ SkipValues \/ OpenStatementQuery
  \/ BindTable \/ SkipTable \/ OpenDerived \/ BindDerived \/ CollectJoinCondition
  \/ MapScalar \/ ExpandStar \/ SkipElement \/ Return \/ Overflow
  \/ OpenBranch \/ LeftDone \/ RightDone \/ RegisterCte \/ FinishStatement

Spec == Init /\ [][Next]_vars
FairSpec == Spec /\ WF_vars(Next)

-----------------------------------------------------------------------------
(* Properties.                                                             *)

Owners == ({"base"} \X Names \X Names) \cup ({"cte", "derived"} \X Names)
ColumnRecord == [owner : Owners, column : Maybe, ordinal : Nat]
Mapping == [name : Maybe, sources : SUBSET ColumnRecord, is_direct : BOOLEAN]
IsMapping(m) == m.name \in Maybe /\ m.is_direct \in BOOLEAN /\ \A c \in m.sources : c \in ColumnRecord

BaseOf(cols) == {c \in cols : ~IsVirtual(c)}
\* The queries of a statement, 0 for a MERGE itself; the places of their FROM.
Levels(s) == QueriesOf(body.queries, s) \cup (IF s.kind = "merge" THEN {0} ELSE {})
Place(n) == IF n = 0 THEN Len(body.queries) + 1 ELSE n
ItemsOf(s) == UNION {{<<n, i>> : i \in DOMAIN ItemsIn(s, n)} : n \in Levels(s)}
ItemAt(s, p) == ItemsIn(s, p[1])[p[2]]

\* What a statement means to produce: [name, from] per column.
Tables(s, n, of) == TablesOf(s, Place(n), ItemsIn(s, n), of)
Expected(s) ==
  LET of == Meant(body.queries, s)
  IN  IF s.kind = "merge" THEN ColumnsOf(Tables(s, 0, of), ItemsIn(s, 0), ElementsIn(s, 0)) ELSE of[s.query]

\* A table reference finds the table it means, or, when it means a common table
\* expression, no table.
Finds(item) ==
  LET found == Lookup(item.schema, item.name)
      meant == TableColumns(item.schema, item.name)
  IN  DOMAIN found = DOMAIN meant /\ \A n \in DOMAIN meant : meant[n].from = {found[n]}
FindsWhatItMeans(s, p) ==
  LET item == ItemAt(s, p)
  IN  item.kind = "table" =>
        IF CteOf(s, item, Place(p[1])) # {} THEN Lookup(item.schema, item.name) = << >> ELSE Finds(item)
\* The columns of an inner query keep their own names: none is called after a column
\* the object declares at that position.
KeepsNames(s) ==
  LET of == Meant(body.queries, s)
  IN  \A n \in QueriesOf(body.queries, s) \ {s.query} : \A e \in DOMAIN body.queries[n].select :
        LET q == body.queries[n]
            at == Len(ColumnsOf(Tables(s, n, of), q.from, SubSeq(q.select, 1, e - 1))) + 1
            expr == q.select[e].expr
        IN  q.select[e].kind = "scalar" /\ q.select[e].alias = None =>
              at > Len(body.declared) \/ (expr.form = "column" /\ body.declared[at] = expr.refs[1].name)
\* The aliases of the derived tables of a statement, with those inside them.
Inside(items, of) ==
  FlattenSeq([i \in DOMAIN items |->
                IF items[i].kind = "derived" THEN Append(of[items[i].query], items[i].alias) ELSE << >>])
Aliases(s) ==
  LET of[n \in DOMAIN body.queries] ==
        LET q == body.queries[n] IN IF q.kind = "union" THEN of[q.left] \o of[q.right] ELSE Inside(q.from, of)
  IN  FlattenSeq([c \in DOMAIN s.ctes |-> of[s.ctes[c].query]])
      \o (IF s.query = 0 THEN << >> ELSE of[s.query]) \o Inside(<<s.target, s.using>>, of)

\* A statement whose names each mean one thing: its tables are the ones it names, and neither
\* the tables of a query nor the derived tables of the whole have a name in common.  Its
\* expressions are walked for all they name: none is a subquery, nor of a kind that is not
\* known, and no searched CASE tests a column that neither its THEN nor its ELSE names,
\* since that column is lost, and no warning says so.
Plain(s) ==
  /\ \A p \in ItemsOf(s) : ItemAt(s, p).kind # "other" /\ FindsWhatItMeans(s, p)
  /\ s.kind = "insert" => Finds(s.target)
  /\ \A n \in Levels(s) :
       /\ Distinct([i \in DOMAIN ItemsIn(s, n) |-> Exposed(ItemsIn(s, n)[i])])
       /\ \A elem \in Range(ElementsIn(s, n)) :
            /\ elem.kind # "other" /\ elem.expr.form \notin {"opaque", "subquery"}
            /\ Range(Walked(elem.expr)) = Range(elem.expr.refs)
  /\ Distinct(Aliases(s)) /\ KeepsNames(s) /\ Compiled(body.queries, s)
StarOf(s, kinds) ==
  \E n \in QueriesOf(body.queries, s) :
    /\ \E e \in DOMAIN body.queries[n].select : body.queries[n].select[e].kind = "star"
    /\ \E i \in DOMAIN body.queries[n].from : body.queries[n].from[i].kind \in kinds
CtesUsedOutside(s) ==
  \A p, r \in ItemsOf(s) :
    ItemAt(s, r).kind = "derived" /\ CteOf(s, ItemAt(s, p), Place(p[1])) # {} =>
      p[1] \notin BuiltFrom(body.queries, ItemAt(s, r).query)
Produces(r) == body.statements[r.statement].kind \notin {"values"}

\* A statement whose columns can be traced to their sources, and how many columns of its
\* target it names.
Covered(s) == s.ctes = << >> /\ ~StarOf(s, {"derived"}) /\ Plain(s)
Width(s) ==
  IF s.kind # "insert" THEN 0
  ELSE IF s.columns # << >> THEN Len(s.columns)
  ELSE Len(TableColumns(s.target.schema, s.target.name))
IsExact(r) ==
  LET s == body.statements[r.statement]
      meant == Expected(s)
      width == Width(s)
  IN  Produces(r) /\ Covered(s) =>
        /\ Len(r.maps) <= Len(meant)
        /\ \A n \in DOMAIN meant : width = 0 \/ n <= width =>
             n \in DOMAIN r.maps /\ BaseOf(r.maps[n].sources) = meant[n].from

\* The lineage of a statement without common table expressions is exact: one column per
\* column it produces, each from the base columns it is computed from, through derived
\* tables, joins, stars and unions, in the order of the INSERT's target.  Not covered are
\* what Plain leaves out: statements a model does not compile, and the ways the code goes
\* wrong: names that hide one another, inner columns renamed after the object's own
\* (_target_column), and the conditions of a searched CASE (_walk_expression); nor a star
\* in a query that has a derived table, which is not traced (_expand_star).
SourcesExact == pc = "done" => \A i \in DOMAIN results : IsExact(results[i])

\* With common table expressions too, a statement some of whose sources are missing has a
\* warning, when no star is in it.  Left out is what the code loses in silence: a star,
\* which over a common table expression yields nothing and over a derived table is not
\* traced; what only the condition of a searched CASE names; and a derived table that reads
\* a common table expression, where a table next to it may be taken for that (OpenDerived).
MissingIsWarned ==
  pc = "done" => \A i \in DOMAIN results :
    LET r == results[i]
        s == body.statements[r.statement]
        meant == Expected(s)
    IN  Produces(r) /\ ~StarOf(s, {"table", "derived"}) /\ CtesUsedOutside(s) /\ Plain(s) =>
          \A n \in DOMAIN meant :
            \/ n \in DOMAIN r.maps /\ meant[n].from \subseteq r.maps[n].sources
            \/ \E w \in warnings : w[1] = r.statement

\* The statements of the body that produce columns, in the order of the text, those
\* inside blocks, IF and WHILE in their place, and none twice.
Leaves ==
  LET of[k \in DOMAIN body.statements] ==
        LET s == body.statements[k]
        IN  IF s.kind \in {"block", "if", "while"} THEN FlattenSeq([i \in DOMAIN s.nested |-> of[s.nested[i]]])
            ELSE IF s.kind \in {"try", "update", "delete"} THEN << >> ELSE <<k>>
  IN  FlattenSeq([i \in DOMAIN body.top |-> of[body.top[i]]])
StatementsInOrder == pc = "done" => [i \in DOMAIN results |-> results[i].statement] = Leaves

\* Every equality of a join between base columns is kept as a pair of its own, with all
\* columns of both sides, however many the condition has.  Its partner is one column, and
\* when that is a base column, one that the first name on the right comes from.
JoinPairsKept ==
  pc = "done" => \A i \in DOMAIN results :
    LET r == results[i]
        s == body.statements[r.statement]
    IN  Produces(r) /\ Covered(s) =>
          \A n \in QueriesOf(body.queries, s) : \A item \in Range(body.queries[n].from) : \A c \in Range(item.on) :
            LET tables == Tables(s, n, Meant(body.queries, s))
                left == From(tables, body.queries[n].from, c.left)
                right == From(tables, body.queries[n].from, c.right)
                first == From(tables, body.queries[n].from, SubSeq(c.right, 1, 1))
            IN  c.op = "=" /\ left # {} /\ right # {} =>
                  \E k \in DOMAIN predicates :
                    /\ predicates[k].statement = r.statement /\ predicates[k].kind = "JOIN_ON"
                    /\ BaseOf(predicates[k].columns) = left \cup right
                    /\ Cardinality(predicates[k].partner) = 1 /\ BaseOf(predicates[k].partner) \subseteq first

\* Tracing a virtual column has no end only where two derived tables of the statement
\* have the same alias; no other body makes the extractor overflow its stack.
RaisesOnlyOnReusedAlias == pc = "raised" => ~Distinct(Aliases(ThisStatement))

\* Visiting ends, at the end of the body or with the stack overflowed.
Termination == <>(pc \in {"done", "raised"})

=============================================================================
