----------------------- MODULE SelectLineageInvariant -----------------------
(***************************************************************************)
(* What is true of the visitor between two steps: OrderInv, the statements *)
(* are visited in order; ShapeInv, the stack and the place fit; GroundInv, *)
(* what is known of virtual columns has no cycle; TellInv, what has been   *)
(* mapped is what the queries mean.  SelectLineageProofs shows that every  *)
(* step keeps them.                                                        *)
(***************************************************************************)
EXTENDS SelectLineage

-----------------------------------------------------------------------------
(* Loops.                                                                  *)

IsLoop(h, S, base, N, F) ==
  h \in [0..N -> S] /\ h[0] = base /\ \A n \in 1..N : h[n] = F[n][h[n - 1]]

-----------------------------------------------------------------------------
(* Sequences of things too rich to have a type of their own: that they are *)
(* sequences is all that counts.                                           *)

IsSequence(s) == \E S : s \in Seq(S)

-----------------------------------------------------------------------------
(* FlattenSeq, step by step.                                               *)

Joins(h, seqs, N) == h[0] = << >> /\ \A n \in 1..N : IsSequence(h[n - 1]) /\ h[n] = h[n - 1] \o seqs[n]

-----------------------------------------------------------------------------
(* Functions defined from their values at lower positions.                 *)

\* The value at n follows from those before it, as G has it.
Builds(g, V, G, N) ==
  g \in [1..N -> V] /\ \A n \in 1..N : [i \in 1..(n - 1) |-> g[i]] \in Seq(V) /\ g[n] = G[n][[i \in 1..(n - 1) |-> g[i]]]

\* Two sequences, one after the other, by position.
JoinOf(w, s, t) ==
  /\ IsSequence(w) /\ Len(s) \in Nat /\ Len(t) \in Nat /\ Len(w) = Len(s) + Len(t)
  /\ \A i \in 1..Len(s) : w[i] = s[i]
  /\ \A i \in 1..Len(t) : w[Len(s) + i] = t[i]

\* The k-th and those after it.
Rest(m, k) == [i \in 1..(Len(m) - k + 1) |-> m[k + i - 1]]

\* What stands between two others in a sequence without repetitions is not before it.
OnlyThere(a, x, b) ==
  /\ x \notin Range(a) /\ a \o (<<x>> \o b) = (a \o <<x>>) \o b
  /\ IsSequence(a \o <<x>>) /\ Range(a \o <<x>>) = Range(a) \cup {x}

\* A query is made of queries of lower position.
Layers(queries) == \A n \in 1..Len(queries) : Parts(queries[n]) \subseteq 1..(n - 1)

-----------------------------------------------------------------------------
(* The statements that produce columns.                                    *)

Nests(s) == s.kind \in {"block", "if", "while"}

\* The statements inside one, itself when it produces, by a table of those after it.
LeavesIn(b, k, of) ==
  LET s == b.statements[k]
  IN  IF s.kind \in {"block", "if", "while"} THEN FlattenSeq([i \in DOMAIN s.nested |-> of[s.nested[i]]])
      ELSE IF s.kind \in {"try", "update", "delete"} THEN << >> ELSE <<k>>
LeafTable(b) ==
  LET of[k \in DOMAIN b.statements] ==
        LET s == b.statements[k]
        IN  IF s.kind \in {"block", "if", "while"} THEN FlattenSeq([i \in DOMAIN s.nested |-> of[s.nested[i]]])
            ELSE IF s.kind \in {"try", "update", "delete"} THEN << >> ELSE <<k>>
  IN  of

-----------------------------------------------------------------------------
(* Statements are visited in order.                                        *)

\* What statements still to visit will produce.
Owing(b, list) == FlattenSeq([i \in DOMAIN list |-> LeafTable(b)[list[i]]])
Told == [i \in DOMAIN results |-> results[i].statement]
Busy == pc \in {"no source", "ctes", "visit", "on", "returned"}
Labels == {"statements", "no source", "ctes", "visit", "on", "returned", "done", "raised"}
OrderInv ==
  /\ body \in Bodies /\ pc \in Labels
  /\ pending \in Seq(DOMAIN body.statements)
  /\ Busy => current \in DOMAIN body.statements
  /\ IsSequence(results)
  /\ pc = "done" => pending = << >>
  /\ pc # "raised" => Told \o (IF Busy THEN <<current>> ELSE << >>) \o Owing(body, pending) = Leaves

-----------------------------------------------------------------------------
(* Tracing virtual columns.                                                *)

\* What is reached from columns in so many steps, and what they are traced to.
ReachedIn(cols, reached) ==
  /\ DOMAIN reached = 0..Depth /\ reached[0] = cols
  /\ \A k \in 1..Depth : reached[k] = UNION {SourcesOf(c) : c \in reached[k - 1]}
TracedTo(cols, to) ==
  /\ DOMAIN to = 0..Depth /\ to[0] = cols
  /\ \A k \in 1..Depth : to[k] = UNION {IF SourcesOf(c) = {} THEN {c} ELSE SourcesOf(c) : c \in to[k - 1]}

\* The virtual columns of which something is known.
Pairs == UNION {{<<o, n>> : n \in DOMAIN expansions[o]} : o \in DOMAIN expansions}
Registered ==
  /\ IsFiniteSet(DOMAIN expansions)
  /\ \A o \in DOMAIN expansions : o[1] # "base" /\ IsSequence(expansions[o])

-----------------------------------------------------------------------------
(* Names registered once: what a name stands for was known before it.      *)

Real(c, R) == ~IsVirtual(c) \/ c.owner \in R

\* What is later has a lower rank.
Grounded(R, rank, exp) ==
  /\ rank \in [R -> Nat]
  /\ \A o \in R :
       /\ o \in DOMAIN exp
       /\ \A n \in DOMAIN exp[o] : \A c \in exp[o][n] :
            Real(c, R) /\ (c.owner \in R => rank[o] < rank[c.owner])

\* A column that is reached has been reached through columns of as many other names.
Trail(c, T, k, R, rank) ==
  /\ T \subseteq Pairs /\ IsFiniteSet(T) /\ Cardinality(T) = k + 1
  /\ \A p \in T : p[1] \in R /\ rank[p[1]] <= rank[c.owner]

-----------------------------------------------------------------------------
(* The queries of a statement.                                             *)

\* A query of the body, or the MERGE itself.
IsLevel(s, n) == n \in DOMAIN body.queries \/ (n = 0 /\ s.kind = "merge")

-----------------------------------------------------------------------------
(* The aliases of the derived tables of a statement, in the order in which *)
(* they are registered.                                                    *)

Within(items, of) ==
  [i \in DOMAIN items |-> IF items[i].kind = "derived" THEN Append(of[items[i].query], items[i].alias) ELSE << >>]
AliasTable ==
  LET of[n \in DOMAIN body.queries] ==
        LET q == body.queries[n] IN IF q.kind = "union" THEN of[q.left] \o of[q.right] ELSE Inside(q.from, of)
  IN  of

-----------------------------------------------------------------------------
(* The stack.                                                              *)

IsUnion(f) == f.query # 0 /\ body.queries[f.query].kind = "union"
FrameItems(f) == ItemsIn(ThisStatement, f.query)

\* A query of its own is open at the place where the frame stands.
Opened(f) ==
  IF IsUnion(f) THEN f.at \in {1, 2} ELSE f.at \in DOMAIN FrameItems(f) /\ FrameItems(f)[f.at].kind = "derived"
IsScope(scope) == IsSequence(scope) /\ \A j \in DOMAIN scope : IsSequence(scope[j].columns)
IsFrame(f) ==
  /\ f = [query |-> f.query, at |-> f.at, scope |-> f.scope, maps |-> f.maps]
  /\ IsLevel(ThisStatement, f.query) /\ f.at \in Nat \ {0} /\ IsScope(f.scope) /\ IsSequence(f.maps)
Frames(frames) == IsSequence(frames) /\ \A i \in DOMAIN frames : IsFrame(frames[i]) /\ (i # 1 => Opened(frames[i]))
Visiting == ThisStatement.kind \in {"select", "ctas", "insert", "values", "merge"}
AtPlace(p, frames) ==
  /\ p \in {"no source", "ctes"} => frames = << >>
  /\ p = "ctes" => ThisStatement.kind \in {"select", "ctas"}
  /\ p = "visit" => frames # << >> /\ (IsUnion(frames[1]) => frames[1].at \in {1, 2})
  /\ p = "on" => frames # << >> /\ ~IsUnion(frames[1]) /\ frames[1].at \in DOMAIN FrameItems(frames[1])
  /\ p = "returned" /\ frames # << >> => Opened(frames[1])
ShapeInv ==
  /\ Registered
  /\ Busy => /\ Visiting /\ Frames(stack) /\ AtPlace(pc, stack) /\ (pc = "returned" => IsSequence(returned))
             /\ cte \in 1..(Len(ThisStatement.ctes) + 1) /\ IsScope(cte_scope)

-----------------------------------------------------------------------------
(* Columns that are of base tables or of registered names.                 *)

ScopeReal(scope, R) == \A j \in DOMAIN scope : \A c \in Range(scope[j].columns) : Real(c, R)
MapsReal(maps, R) == \A n \in DOMAIN maps : \A c \in maps[n].sources : Real(c, R)
ChainReal(chain, R) == \A i \in DOMAIN chain : ScopeReal(chain[i], R)

-----------------------------------------------------------------------------
(* The aliases still to be registered.                                     *)

\* Those of the items of a query from the k-th on.
ItemsFrom(s, n, k) == FlattenSeq(Rest(Within(ItemsIn(s, n), AliasTable), k))

\* Those of a query that another one waits for, after it.
AfterOpened(s, f) ==
  IF IsUnion(f) THEN IF f.at = 1 THEN AliasTable[body.queries[f.query].right] ELSE << >>
  ELSE <<ItemsIn(s, f.query)[f.at].alias>> \o ItemsFrom(s, f.query, f.at + 1)
Above(s, frames) == FlattenSeq([i \in DOMAIN frames |-> AfterOpened(s, frames[i])])

\* Those of the query visited, from where it stands.
AtTop(s, p, f) ==
  CASE p = "visit" ->
         IF IsUnion(f)
         THEN IF f.at = 1 THEN AliasTable[body.queries[f.query].left] \o AliasTable[body.queries[f.query].right]
              ELSE AliasTable[body.queries[f.query].right]
         ELSE IF f.at <= Len(ItemsIn(s, f.query)) THEN ItemsFrom(s, f.query, f.at) ELSE << >>
    [] p = "on" -> ItemsFrom(s, f.query, f.at + 1)
    [] OTHER -> AfterOpened(s, f)

\* Those of the common table expressions and the query that come after it.
CteLists(s) == [c \in DOMAIN s.ctes |-> AliasTable[s.ctes[c].query]]
AtRoot(s, p, c) ==
  IF s.kind \notin {"select", "ctas"} THEN << >>
  ELSE IF p = "ctes" THEN FlattenSeq(Rest(CteLists(s), c)) \o AliasTable[s.query]
  ELSE IF c <= Len(s.ctes) THEN FlattenSeq(Rest(CteLists(s), c + 1)) \o AliasTable[s.query] ELSE << >>
Remaining(s, p, frames, c) ==
  IF frames = << >> THEN AtRoot(s, p, c) ELSE AtTop(s, p, frames[1]) \o Above(s, Tail(frames)) \o AtRoot(s, p, c)

\* A place in a body.
Placed == body \in Bodies /\ current \in DOMAIN body.statements
AStatement(s) == body \in Bodies /\ \E k \in DOMAIN body.statements : s = body.statements[k]

\* The items of a query, one after the other.
ItemsOneByOne(s, n, k) ==
  LET items == ItemsIn(s, n)
  IN  /\ IsSequence(ItemsFrom(s, n, k)) /\ Len(items) \in Nat /\ DOMAIN items = 1..Len(items)
      /\ ItemsFrom(s, n, 1) = Inside(items, AliasTable)
      /\ k = Len(items) + 1 => ItemsFrom(s, n, k) = << >>
      /\ k <= Len(items) /\ items[k].kind # "derived" => ItemsFrom(s, n, k) = ItemsFrom(s, n, k + 1)
      /\ k <= Len(items) /\ items[k].kind = "derived" =>
           /\ items[k].query \in DOMAIN body.queries
           /\ IsSequence(AliasTable[items[k].query]) /\ IsSequence(ItemsFrom(s, n, k + 1))
           /\ ItemsFrom(s, n, k)
                = AliasTable[items[k].query] \o (<<items[k].alias>> \o ItemsFrom(s, n, k + 1))

\* What is left at the root.
AtTheRoot(s, c) ==
  /\ \A p, q : p # "ctes" /\ q # "ctes" => AtRoot(s, p, c) = AtRoot(s, q, c)
  /\ \A p : IsSequence(AtRoot(s, p, c))
  /\ s.kind \in {"select", "ctas"} =>
       /\ c <= Len(s.ctes) =>
            /\ s.ctes[c].query \in DOMAIN body.queries
            /\ AtRoot(s, "ctes", c) = AliasTable[s.ctes[c].query] \o AtRoot(s, "visit", c)
            /\ AtRoot(s, "returned", c) = AtRoot(s, "ctes", c + 1)
       /\ c = Len(s.ctes) + 1 =>
            /\ s.query \in DOMAIN body.queries
            /\ AtRoot(s, "ctes", c) = AliasTable[s.query] \o AtRoot(s, "visit", c)
  /\ s.kind \in {"select", "ctas"} => Aliases(s) = AtRoot(s, "ctes", 1)
  /\ s.kind = "insert" =>
       s.query \in DOMAIN body.queries /\ Aliases(s) = FlattenSeq(CteLists(s)) \o AliasTable[s.query]
  /\ s.kind = "merge" => Aliases(s) = FlattenSeq(CteLists(s)) \o Inside(<<s.target, s.using>>, AliasTable)
  /\ IsSequence(FlattenSeq(CteLists(s)))
  /\ s.kind \in {"select", "ctas", "insert", "values", "merge"} => IsSequence(Aliases(s))

-----------------------------------------------------------------------------
(* Names are registered once, unless two derived tables share an alias.    *)

FramesReal(frames, R) == \A i \in DOMAIN frames : ScopeReal(frames[i].scope, R) /\ MapsReal(frames[i].maps, R)

\* Every column that can be reached is of a base table or of a registered name.
AllReal(R) == FramesReal(stack, R) /\ ScopeReal(cte_scope, R) /\ (pc = "returned" => MapsReal(returned, R))

\* A name that has had its turn, among CTEs before the c-th and the aliases seen.
Had(o, s, c, seen) == (\E k \in 1..(c - 1) : o = <<"cte", s.ctes[k].name>>) \/ (\E x \in seen : o = <<"derived", x>>)

\* The names of the statement registered so far, and the aliases in the order of the
\* statement that have been passed.
Passed(R, rank, before) ==
  /\ IsSequence(before) /\ Aliases(ThisStatement) = before \o Remaining(ThisStatement, pc, stack, cte)
  /\ \A o \in R : Had(o, ThisStatement, cte, Range(before))
  /\ Grounded(R, rank, expansions) /\ AllReal(R)
GroundInv ==
  /\ Busy /\ Distinct(Aliases(ThisStatement)) => \E R, rank, before : Passed(R, rank, before)
  /\ pc = "raised" => ~Distinct(Aliases(ThisStatement))

\* Where a step within a query starts.
Inside1 ==
  /\ Placed /\ Busy /\ Registered /\ Visiting /\ Frames(stack) /\ AtPlace(pc, stack) /\ stack # << >>
  /\ cte \in 1..(Len(ThisStatement.ctes) + 1) /\ cte \in Nat /\ IsScope(cte_scope)
  /\ IsFrame(stack[1]) /\ Top = stack[1] /\ InUnion = IsUnion(stack[1])
  /\ Items = FrameItems(stack[1]) /\ Items = ItemsIn(ThisStatement, stack[1].query)
  /\ DOMAIN Items = 1..Len(Items) /\ Len(Items) \in Nat
  /\ stack[1].at \in Nat \ {0} /\ IsScope(stack[1].scope) /\ IsSequence(stack[1].maps)
  /\ IsSequence(Chain) /\ pc # "ctes" /\ pc # "raised"

\* The frame on top, moved.
Moved(f, place, scope, maps) == [query |-> f.query, at |-> place, scope |-> scope, maps |-> maps]
Retold(frames, place, maps) == [frames EXCEPT ![1].at = place, ![1].maps = maps]

\* No alias has its turn in a step.
StaysOwed == Remaining(ThisStatement, pc', stack', cte') = Remaining(ThisStatement, pc, stack, cte)

\* The elements of two sequences after one another.
ElementsOf(w, s, t) ==
  /\ IsSequence(w)
  /\ \A n \in DOMAIN w : (n \in DOMAIN s /\ w[n] = s[n]) \/ (\E m \in DOMAIN t : w[n] = t[m])

\* The next alias has its turn.
TurnOf(x) ==
  /\ Remaining(ThisStatement, pc, stack, cte) = <<x>> \o Remaining(ThisStatement, pc', stack', cte')
  /\ IsSequence(Remaining(ThisStatement, pc', stack', cte'))

-----------------------------------------------------------------------------
(* Sequences of columns, place by place.                                   *)

\* Two lists of sequences of the same lengths are flattened place by place.
SamePlaces(u, w, a, b) ==
  /\ Len(u) = Len(w)
  /\ \A j \in 1..Len(u) : \E i \in DOMAIN a : \E m \in DOMAIN a[i] : u[j] = a[i][m] /\ w[j] = b[i][m]

\* The elements of a FROM's columns and of a select list.
IsTables(tables, items) == DOMAIN tables = DOMAIN items /\ \A i \in DOMAIN items : IsSequence(tables[i])

\* The first elements of a list.
FirstOf(elements, j) == SubSeq(elements, 1, j)

-----------------------------------------------------------------------------
(* What a query is built from.                                             *)

\* What a query is built from: positions up to its own, with their parts.
BuiltOf(n) ==
  LET built == BuiltFrom(body.queries, n)
  IN  n \in built /\ built \subseteq 1..n /\ \A m \in built : Parts(body.queries[m]) \subseteq built

\* The queries of a statement without common table expressions: each is a query of the
\* body, its parts are of the statement too, and the statement's own is no part of any.
InnerQuery(s, p) == p \in QueriesOf(body.queries, s) /\ p \in Levels(s) /\ p # s.query /\ p \in DOMAIN body.queries /\ p # 0
LevelsOf(s) ==
  /\ \A n \in Levels(s) : IsLevel(s, n)
  /\ s.query \in Levels(s)
  /\ \A n \in Levels(s) \ {0} : n \in QueriesOf(body.queries, s) /\ n \in DOMAIN body.queries
                                /\ \A p \in Parts(body.queries[n]) : InnerQuery(s, p)
  /\ 0 \in Levels(s) => s.kind = "merge"
  /\ s.kind = "merge" /\ s.using.kind = "derived" => InnerQuery(s, s.using.query)

-----------------------------------------------------------------------------
(* What a query means: the columns that SqlMeaning gives it.               *)

\* Meant computes, from the first query to the last, what each means.
Meaning(s) ==
  LET M == Meant(body.queries, s)
  IN  /\ IsSequence(M) /\ Len(M) = Len(body.queries)
      /\ \A n \in DOMAIN body.queries : IsSequence(M[n]) /\ M[n] = QueryColumns(body.queries, s, n, M)

\* A run of Meant's fold up to query k.
Computes(h, s, k) ==
  h[0] = << >> /\ \A n \in 1..k : h[n] = Append(h[n - 1], QueryColumns(body.queries, s, n, h[n - 1]))

-----------------------------------------------------------------------------
(* What a plain statement means, level by level.                           *)

\* What the tables of a level have, what its elements produce, and what it means in all.
LevelTables(s, n) == Tables(s, n, Meant(body.queries, s))
LevelColumns(s, n, k) == ColumnsOf(LevelTables(s, n), ItemsIn(s, n), FirstOf(ElementsIn(s, n), k))
QueryMeant(s, n) ==
  IF n = 0 THEN ColumnsOf(LevelTables(s, 0), ItemsIn(s, 0), ElementsIn(s, 0)) ELSE Meant(body.queries, s)[n]

\* Each of these names is a column that the level's tables have.
RefsMean(s, n, refs) == \A i \in DOMAIN refs : Named(LevelTables(s, n), ItemsIn(s, n), refs[i]) # {}

\* A table of a plain level, with the columns it means.
ItemOk(s, n, i) ==
  LET item == ItemsIn(s, n)[i]
  IN  \/ item.kind = "table" /\ Finds(item) /\ LevelTables(s, n)[i] = TableColumns(item.schema, item.name)
      \/ /\ item.kind = "derived" /\ InnerQuery(s, item.query) /\ item.alias # None
         /\ LevelTables(s, n)[i] = Meant(body.queries, s)[item.query]

\* An element of a plain level, with names that its tables have.
ElementOk(s, n, e) ==
  LET elem == ElementsIn(s, n)[e]
      items == ItemsIn(s, n)
      at == Len(LevelColumns(s, n, e - 1)) + 1
  IN  /\ elem.kind \in {"scalar", "star", "variable"}
      /\ elem.kind = "scalar" =>
           /\ IsSequence(elem.expr.refs) /\ elem.expr.form \notin {"opaque", "subquery"}
           /\ Range(Walked(elem.expr)) = Range(elem.expr.refs) /\ IsSequence(Walked(elem.expr)) /\ RefsMean(s, n, Walked(elem.expr))
           /\ n # s.query /\ elem.alias = None =>
                at > Len(body.declared) \/ (elem.expr.form = "column" /\ body.declared[at] = elem.expr.refs[1].name)
      /\ elem.kind = "star" =>
           /\ elem.qualifier = None \/ \E i \in DOMAIN items : Exposed(items[i]) = elem.qualifier
           /\ \A i \in DOMAIN items : items[i].kind = "table"

\* What a plain level is: each table is found or derived, with a name of its own; each
\* name is a column of one of them; a UNION has sides of the same length.
LevelOk(s, n) ==
  LET items == ItemsIn(s, n)
      M == Meant(body.queries, s)
      q == body.queries[n]
  IN  /\ IsSequence(items) /\ DOMAIN items = 1..Len(items) /\ Len(items) \in Nat
      /\ IsSequence(ElementsIn(s, n)) /\ DOMAIN ElementsIn(s, n) = 1..Len(ElementsIn(s, n)) /\ Len(ElementsIn(s, n)) \in Nat
      /\ IsTables(LevelTables(s, n), items)
      /\ \A i \in DOMAIN items : ItemOk(s, n, i)
      /\ \A i, j \in DOMAIN items : Exposed(items[i]) = Exposed(items[j]) => i = j
      /\ \A e \in DOMAIN ElementsIn(s, n) : ElementOk(s, n, e)
      /\ n = 0 \/ q.kind # "union" => QueryMeant(s, n) = LevelColumns(s, n, Len(ElementsIn(s, n)))
      /\ n # 0 /\ q.kind = "union" =>
           /\ InnerQuery(s, q.left) /\ InnerQuery(s, q.right) /\ Len(M[q.left]) = Len(M[q.right])
           /\ IsSequence(M[q.left]) /\ IsSequence(M[q.right])
           /\ M[n] = [i \in DOMAIN M[q.left] \cap DOMAIN M[q.right] |->
                        [name |-> M[q.left][i].name, from |-> M[q.left][i].from \cup M[q.right][i].from]]

\* The statements that have lineage.
Lined(s) == AStatement(s) /\ s.ctes = << >> /\ s.kind \in {"select", "ctas", "insert", "merge"}

\* A level has tables and elements in sequence.
LevelShape(s, n) ==
  LET items == ItemsIn(s, n)
      elements == ElementsIn(s, n)
  IN  /\ IsSequence(items) /\ DOMAIN items = 1..Len(items) /\ Len(items) \in Nat
      /\ IsSequence(elements) /\ DOMAIN elements = 1..Len(elements) /\ Len(elements) \in Nat
      /\ IsTables(LevelTables(s, n), items)
      /\ \A i \in DOMAIN items :
           /\ LevelTables(s, n)[i] = ItemColumns(s, Place(n), items[i], Meant(body.queries, s))
           /\ items[i].kind = "derived" => InnerQuery(s, items[i].query) /\ items[i].alias # None
           /\ items[i].kind \in {"table", "derived", "other"}
      /\ \A e \in DOMAIN elements : elements[e].expr \in Expr /\ elements[e].kind \in {"scalar", "star", "variable", "other"}
      /\ n # 0 => n \in DOMAIN body.queries /\ body.queries[n] \in Query /\ Place(n) = n
                  /\ items = body.queries[n].from /\ elements = body.queries[n].select
      /\ n = 0 => s.kind = "merge" /\ s.query = 0 /\ items = <<s.target, s.using>> /\ Place(n) = Len(body.queries) + 1
                  /\ \A e \in DOMAIN elements : elements[e].kind = "scalar" /\ e \in DOMAIN s.sets /\ elements[e].expr = s.sets[e].expr

\* What Plain says of a level.
LevelPlain(s, n) ==
  LET items == ItemsIn(s, n)
      elements == ElementsIn(s, n)
  IN  /\ \A i \in DOMAIN items : items[i].kind # "other" /\ (items[i].kind = "table" => Finds(items[i]))
      /\ \A i, j \in DOMAIN items : Exposed(items[i]) = Exposed(items[j]) => i = j
      /\ \A e \in DOMAIN elements :
           /\ elements[e].kind # "other" /\ elements[e].expr.form \notin {"opaque", "subquery"}
           /\ Range(Walked(elements[e].expr)) = Range(elements[e].expr.refs)
           /\ elements[e].kind = "star" =>
                /\ elements[e].qualifier = None \/ \E i \in DOMAIN items : Exposed(items[i]) = elements[e].qualifier
                /\ \A i \in DOMAIN items : items[i].kind # "derived"
           /\ elements[e].kind = "scalar" =>
                \A i \in DOMAIN elements[e].expr.refs :
                  Named(LevelTables(s, n), items, elements[e].expr.refs[i]) # {}
           /\ n # s.query /\ elements[e].kind = "scalar" /\ elements[e].alias = None =>
                LET at == Len(LevelColumns(s, n, e - 1)) + 1
                IN  at > Len(body.declared)
                    \/ (elements[e].expr.form = "column" /\ body.declared[at] = elements[e].expr.refs[1].name)
      /\ n # 0 /\ body.queries[n].kind = "union" =>
           Len(Meant(body.queries, s)[body.queries[n].left]) = Len(Meant(body.queries, s)[body.queries[n].right])

-----------------------------------------------------------------------------
(* What the visit tells: the columns it has bound and mapped come from what is meant.*)

\* What a column is known to come from: its own, or what its query gave it.
Direct(c) == IF IsVirtual(c) THEN BaseOf(SourcesOf(c)) ELSE {c}

\* A column a trace ends at; L are the aliases that may still be registered.
Clear(c, L) == IsVirtual(c) => c.owner[2] \notin L /\ SourcesOf(c) = {}

\* A column whose sources are known, and stay as they are.
Settled(c, L) == IsVirtual(c) => c.owner[2] \notin L /\ \A d \in SourcesOf(c) : Clear(d, L)

\* Columns of the scope, and maps of the result, tell what is meant.
ColumnTells(c, m, L) == c.column = m.name /\ Settled(c, L) /\ Direct(c) = m.from
ColumnsTell(cols, means, L) ==
  IsSequence(cols) /\ IsSequence(means) /\ Len(cols) = Len(means) /\ \A n \in DOMAIN cols : ColumnTells(cols[n], means[n], L)
MapTells(r, m, L) ==
  /\ r = [name |-> r.name, sources |-> r.sources, is_direct |-> r.is_direct]
  /\ BaseOf(r.sources) = m.from /\ \A c \in r.sources : Clear(c, L)
MapsTell(maps, means, named, L) ==
  /\ IsSequence(maps) /\ IsSequence(means) /\ Len(maps) = Len(means)
  /\ \A n \in DOMAIN maps : MapTells(maps[n], means[n], L) /\ (named => maps[n].name = means[n].name)

\* The first k tables of a level are in the scope, with the columns they mean.
ScopeTells(s, n, scope, k, L) ==
  /\ IsSequence(scope) /\ Len(scope) = k
  /\ \A i \in 1..k :
       /\ scope[i].alias = Exposed(ItemsIn(s, n)[i])
       /\ ColumnsTell(scope[i].columns, LevelTables(s, n)[i], L)
       /\ ItemsIn(s, n)[i].kind = "table" => \A c \in Range(scope[i].columns) : ~IsVirtual(c)

\* The tables a frame has bound, and the elements it has mapped.
Bound(s, p, f) ==
  IF p = "on" THEN f.at ELSE IF f.at <= Len(ItemsIn(s, f.query)) THEN f.at - 1 ELSE Len(ItemsIn(s, f.query))
Mapped(s, f) == IF f.at <= Len(ItemsIn(s, f.query)) THEN 0 ELSE f.at - 1 - Len(ItemsIn(s, f.query))

\* What a frame tells of a query specification, and of the left side of a UNION.
SpecTells(s, p, f, L) ==
  /\ ScopeTells(s, f.query, f.scope, Bound(s, p, f), L)
  /\ Mapped(s, f) <= Len(ElementsIn(s, f.query))
  /\ MapsTell(f.maps, LevelColumns(s, f.query, Mapped(s, f)), f.query # s.query, L)
FrameTells(s, p, f, L) ==
  /\ f.query \in Levels(s)
  /\ ~IsUnion(f) => SpecTells(s, p, f, L)
  /\ IsUnion(f) /\ f.at = 2 =>
       MapsTell(f.maps, Meant(body.queries, s)[body.queries[f.query].left], TRUE, L)

\* The query a frame waits for, and the one the stack as a whole produces.
Awaited(s, f) ==
  IF IsUnion(f) THEN IF f.at = 1 THEN body.queries[f.query].left ELSE body.queries[f.query].right
  ELSE ItemsIn(s, f.query)[f.at].query
Wanted(s, frames) == IF frames = << >> THEN s.query ELSE Awaited(s, frames[1])

\* Each frame is open for the query the one below it waits for.
Linked(s, frames) ==
  \A i \in DOMAIN frames : frames[i].query = IF i = Len(frames) THEN s.query ELSE Awaited(s, frames[i + 1])

\* What the stack tells, and the last result.
FramesTell(s, p, frames, L) == \A i \in DOMAIN frames : FrameTells(s, IF i = 1 THEN p ELSE "visit", frames[i], L)

\* A result tells what the query n means; the names count in derived tables only.
ResultTells(s, n, maps, L) == MapsTell(maps, QueryMeant(s, n), n # s.query, L)
Tells(s, p, frames, L) ==
  /\ FramesTell(s, p, frames, L) /\ Linked(s, frames)
  /\ p = "returned" => ResultTells(s, Wanted(s, frames), returned, L)

\* The aliases of derived tables that the statement has yet to register.
Owed == Range(Remaining(ThisStatement, pc, stack, cte))

\* What has been told of the current statement is what it means, and so are the results.
TellInv ==
  /\ Busy => (pc = "no source" <=> ThisStatement.kind = "values")
  /\ Busy /\ pc # "no source" /\ Covered(ThisStatement) => Tells(ThisStatement, pc, stack, Owed)
  /\ \A i \in DOMAIN results : IsExact(results[i])

-----------------------------------------------------------------------------
(* Steps that leave what is told.                                          *)

\* What a statement means depends on the body only.
SameBody ==
  /\ \A s, n : /\ ItemsIn(s, n)' = ItemsIn(s, n) /\ ElementsIn(s, n)' = ElementsIn(s, n)
               /\ LevelTables(s, n)' = LevelTables(s, n) /\ QueryMeant(s, n)' = QueryMeant(s, n)
  /\ \A s, n, k : LevelColumns(s, n, k)' = LevelColumns(s, n, k)
  /\ \A s : Levels(s)' = Levels(s)
  /\ \A f : IsUnion(f)' = IsUnion(f)
  /\ \A s, f : Awaited(s, f)' = Awaited(s, f)
  /\ \A s, frames : Wanted(s, frames)' = Wanted(s, frames) /\ Linked(s, frames)' = Linked(s, frames)
  /\ \A s, f : Mapped(s, f)' = Mapped(s, f)
  /\ \A s, p, f : Bound(s, p, f)' = Bound(s, p, f)

\* What is known stays known: only an alias that was owed is registered again.
Stays(L) == \A c : IsVirtual(c) /\ c.owner[2] \notin L => SourcesOf(c)' = SourcesOf(c)

-----------------------------------------------------------------------------
(* Frames come and go.                                                     *)

\* Another frame on top, for the same query.
RetoldAs(s, frames, g) ==
  LET w == [frames EXCEPT ![1] = g]
  IN  /\ Linked(s, w) /\ DOMAIN w = DOMAIN frames /\ w[1] = g
      /\ \A i \in DOMAIN frames : i # 1 => w[i] = frames[i]

-----------------------------------------------------------------------------
(* Elements and conditions are passed.                                     *)

\* Mapping the element e of the top keeps what the top tells.
ElementKept(maps, s, n, e, f, L) ==
  /\ s = ThisStatement /\ f = stack[1] /\ n = f.query /\ L = Owed /\ Covered(s) /\ Lined(s)
  /\ e = f.at - Len(ItemsIn(s, n)) /\ e \in 1..Len(ElementsIn(s, n)) /\ LevelOk(s, n)
  /\ ThisElement = ElementsIn(s, n)[e] /\ Top = f /\ Items = ItemsIn(s, n)
  /\ ScopeTells(s, n, f.scope, Len(ItemsIn(s, n)), L)
  /\ MapsTell(f.maps, LevelColumns(s, n, e - 1), n # s.query, L)
  => MapsTell(maps, LevelColumns(s, n, e), n # s.query, L)

-----------------------------------------------------------------------------
(* Columns are resolved and mapped.                                        *)

\* A column that a level means is found in the scope of its own query, with the sources
\* it has.
Answers(s, n, ref, chain, L) ==
  /\ Resolve(ref, chain) = Columns(chain[1], ref.prefix, ref.name)
  /\ \A c \in Resolve(ref, chain) : Settled(c, L)
  /\ UNION {Direct(c) : c \in Resolve(ref, chain)} = UNION {m.from : m \in Named(LevelTables(s, n), ItemsIn(s, n), ref)}

\* The columns of the tables of a scope that a star stands for.
Starred(scope, q) == FlattenSeq([i \in DOMAIN scope |-> IF q \in {None, scope[i].alias} THEN scope[i].columns ELSE << >>])

\* The columns of a star are those it means, in order.
StarTells(columns, means) ==
  /\ IsSequence(columns) /\ IsSequence(means) /\ Len(columns) = Len(means)
  /\ \A j \in DOMAIN columns : ~IsVirtual(columns[j]) /\ columns[j].column = means[j].name /\ {columns[j]} = means[j].from

-----------------------------------------------------------------------------
(* Tables are bound.                                                       *)

\* The next table of a level is bound.
BoundFrame(f, alias, columns) ==
  Moved(f, f.at, Bind(f.scope, [alias |-> alias, columns |-> columns]), f.maps)

-----------------------------------------------------------------------------
(* Queries return.                                                         *)

\* The sides of a UNION, and what it means.
UnionOk(s, f, left, right) ==
  LET M == Meant(body.queries, s)
  IN  /\ left = body.queries[f.query].left /\ right = body.queries[f.query].right
      /\ left # 0 /\ right # 0 /\ left # s.query /\ right # s.query
      /\ QueryMeant(s, left) = M[left] /\ QueryMeant(s, right) = M[right] /\ Len(M[left]) = Len(M[right])
      /\ IsSequence(M[left]) /\ IsSequence(M[right])
      /\ QueryMeant(s, f.query) = [i \in DOMAIN M[left] \cap DOMAIN M[right] |->
                                     [name |-> M[left][i].name, from |-> M[left][i].from \cup M[right][i].from]]

-----------------------------------------------------------------------------
(* Derived tables are bound.                                               *)

\* BindTells, of the state after a step.
BindFrom(s, f, L, alias, columns) ==
  /\ IsFrame(f) /\ ~IsUnion(f) /\ LevelOk(s, f.query) /\ f.at \in DOMAIN ItemsIn(s, f.query)
  /\ FrameTells(s, "visit", f, L) /\ alias = Exposed(ItemsIn(s, f.query)[f.at])
  /\ ColumnsTell(columns, LevelTables(s, f.query)[f.at], L)
  /\ ItemsIn(s, f.query)[f.at].kind = "table" => \A c \in Range(columns) : ~IsVirtual(c)
BindAnywhere ==
  \A s, f, L, alias, columns : BindFrom(s, f, L, alias, columns) => FrameTells(s, "on", BoundFrame(f, alias, columns), L)

\* LevelsOk, of the state after a step.
LevelsAnywhere == \A s, n : Lined(s) /\ Covered(s) /\ n \in Levels(s) => LevelOk(s, n)

-----------------------------------------------------------------------------
(* Statements begin and end.                                               *)

\* The columns of an INSERT take other names, and those too many are dropped.
Aligned(m, maps, W) ==
  /\ IsSequence(m) /\ Len(m) <= Len(maps)
  /\ \A n \in DOMAIN maps : W = 0 \/ n <= W => n \in DOMAIN m /\ m[n].sources = maps[n].sources
==============================================================================
