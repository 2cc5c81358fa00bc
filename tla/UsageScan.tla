------------------------------ MODULE UsageScan -------------------------------
(***************************************************************************)
(* column-usage and joins: one process walks every view, procedure and     *)
(* function of a dacpac, one script after another, and writes what it      *)
(* found of a column, or of the joins with a table, as JSON and as HTML.   *)
(***************************************************************************)
EXTENDS ColumnUsageFinder, JoinFinder

CONSTANTS Requests, Dacpacs

Listed == {"VIEW", "PROCEDURE", "TABLE_VALUED_FUNCTION", "SCALAR_FUNCTION", "TRIGGER"}
Scripts == {"none", "raises", "parses", "errors", "no fragment"}
Request ==
  [command : {"column-usage", "joins"}, dacpac : BOOLEAN, connection : BOOLEAN, exists : BOOLEAN,
   target : [schema : Names, name : Names, column : Names] \cup {None}]
\* "raises" of a script: it cannot be read, or the parser raises.
Consumer == [type : Listed, script : Scripts, body : Bodies]

\* A dacpac is what DacFx lists of each type; nobody asks for its triggers.
ASSUME ScanAssumption ==
  /\ Requests \subseteq Request
  /\ \A d \in Dacpacs : d \in [Listed -> Seq(Consumer)]

\* A script is a tree: what a statement holds comes after it, and a query stands at one
\* place of its statement.
ASSUME TreeAssumption ==
  \A b \in Bodies : \A k \in DOMAIN b.statements :
    LET s == b.statements[k]
        all == QueriesOf(b.queries, s)
    IN  /\ \A i, j \in DOMAIN Roots(s) : Roots(s)[i] = Roots(s)[j] /\ Roots(s)[i] # 0 => i = j
        /\ \A n \in all : Parts(b.queries[n]) \cap Range(Roots(s)) = {}
        /\ \A m, n \in all : Parts(b.queries[m]) \cap Parts(b.queries[n]) # {} => m = n

VARIABLES
  request, dacpac,  \* never change
  pc,
  at,          \* position in the consumers
  report,      \* citations, or joins, by consumer
  warnings,    \* by consumer
  files,       \* what is under the name of each artifact
  exit

command == <<request, dacpac, target>>
outcome == <<report, warnings>>
vars == <<command, scan, pc, at, outcome, files, exit>>

NoExit == -1
NoBody == [declared |-> << >>, queries |-> << >>, statements |-> << >>, top |-> << >>]

Init ==
  /\ request \in Requests /\ dacpac \in Dacpacs
  /\ target = request.target
  /\ pc = "arguments" /\ at = 1 /\ report = << >> /\ warnings = << >>
  /\ files = [json |-> "old", html |-> "old"] /\ exit = NoExit
  /\ body = NoBody /\ agenda = << >> /\ building = << >> /\ scopes = << >> /\ stmt_kind = None
  /\ hits = << >> /\ notes = << >>

-----------------------------------------------------------------------------
(* The command.                                                            *)

ArgumentsOk == request.dacpac # request.connection /\ request.target # None /\ request.exists
End(code) == pc' = "ended" /\ exit' = code

Arguments ==
  /\ pc = "arguments"
  /\ IF ArgumentsOk THEN pc' = "compose" /\ UNCHANGED exit ELSE End(2)
  /\ UNCHANGED <<command, scan, at, outcome, files>>

Compose ==
  /\ pc = "compose"
  /\ pc' = "load"
  /\ UNCHANGED <<command, scan, at, outcome, files, exit>>

ComposeFails ==
  /\ pc = "compose"
  /\ End(4)
  /\ UNCHANGED <<command, scan, at, outcome, files>>

Load ==
  /\ pc = "load"
  /\ pc' = "consumers"
  /\ UNCHANGED <<command, scan, at, outcome, files, exit>>

LoadFails ==
  /\ pc = "load"
  /\ End(1)
  /\ UNCHANGED <<command, scan, at, outcome, files>>

-----------------------------------------------------------------------------
(* The consumers, type by type.                                            *)

EnumTypes(d) ==
  d["VIEW"] \o d["PROCEDURE"] \o d["TABLE_VALUED_FUNCTION"] \o d["SCALAR_FUNCTION"]
Consumers == EnumTypes(dacpac)
This == Consumers[at]
Remaining == pc = "consumers" /\ at <= Len(Consumers)
By(texts) == [i \in DOMAIN texts |-> [consumer |-> at, text |-> texts[i]]]

SkipConsumer ==
  /\ Remaining /\ This.script = "none"
  /\ at' = at + 1
  /\ UNCHANGED <<command, scan, pc, outcome, files, exit>>

\* Reading and parsing are not inside the try.
ScriptRaises ==
  /\ Remaining /\ This.script = "raises"
  /\ End(1)
  /\ UNCHANGED <<command, scan, at, outcome, files>>

KindOfConsumer ==
  CASE This.type = "VIEW" -> "VIEW" [] This.type = "PROCEDURE" -> "PROCEDURE" [] OTHER -> "FUNCTION"
ScanFailed == Note("scan failed", None)
Clear == agenda' = << >> /\ building' = << >> /\ scopes' = << >> /\ hits' = << >> /\ notes' = << >>

\* A script with errors is scanned as far as it was understood.
StartScan ==
  /\ Remaining /\ This.script \in {"parses", "errors", "no fragment"}
  /\ warnings' = warnings \o By(IF This.script = "parses" THEN << >> ELSE <<Note("parse errors", None)>>)
  /\ body' = This.body /\ stmt_kind' = KindOfConsumer
  /\ building' = << >> /\ scopes' = << >> /\ hits' = << >> /\ notes' = << >>
  /\ agenda' = IF This.script = "no fragment" THEN << >>
               ELSE IF request.command = "column-usage" THEN Statements(This.body.top)
               ELSE [i \in DOMAIN This.body.top |->
                        [do |-> "joins of statement", statement |-> This.body.top[i]]]
  /\ pc' = "scan"
  /\ UNCHANGED <<command, at, report, files, exit>>

Find ==
  /\ pc = "scan"
  /\ FinderStep
  /\ UNCHANGED <<command, pc, at, outcome, files, exit>>

-----------------------------------------------------------------------------
(* ScriptDom's own visitor, which goes everywhere: the next to last item's  *)
(* join is inside that of the last.                                        *)

JoinsOfQuery(n, k) == IF n = 0 THEN << >> ELSE <<[do |-> "joins of query", query |-> n, statement |-> k]>>

AcceptStatement ==
  /\ pc = "scan" /\ Doing("joins of statement")
  /\ LET k == Task.statement
         s == body.statements[k]
     IN  Then([i \in DOMAIN s.nested |-> [do |-> "joins of statement", statement |-> s.nested[i]]]
              \o FlattenSeq([i \in DOMAIN s.ctes |-> JoinsOfQuery(s.ctes[i].query, k)])
              \o JoinsOfQuery(s.query, k) \o JoinsOfQuery(s.using.query, k))
  /\ UNCHANGED <<command, body, building, scopes, stmt_kind, hits, notes, pc, at, outcome, files, exit>>

AcceptQuery ==
  /\ pc = "scan" /\ Doing("joins of query")
  /\ LET q == body.queries[Task.query]
         k == Task.statement
         join(i) == LET n == Len(q.from) + 1 - i
                    IN  IF n < 2 \/ q.from[n].on = << >> THEN << >>
                        ELSE <<[do |-> "join", at |-> n, query |-> Task.query, statement |-> k]>>
     IN  Then(FlattenSeq([i \in DOMAIN q.from |-> join(i)])
              \o FlattenSeq([i \in DOMAIN q.from |-> JoinsOfQuery(q.from[i].query, k)])
              \o JoinsOfQuery(q.left, k) \o JoinsOfQuery(q.right, k))
  /\ UNCHANGED <<command, body, building, scopes, stmt_kind, hits, notes, pc, at, outcome, files, exit>>

VisitJoin ==
  /\ pc = "scan" /\ Doing("join")
  /\ LET usages == EmitJoin(body.queries[Task.query].from, Task.at, <<target.schema, target.name>>)
     IN  hits' = Append(hits, [line |-> <<Task.statement, Task.query, Task.at>>, usages |-> usages])
  /\ Then(<< >>)
  /\ UNCHANGED <<command, body, building, scopes, stmt_kind, notes, pc, at, outcome, files, exit>>

-----------------------------------------------------------------------------
(* The end of a scan, and of the command.                                  *)

Entry(i, hit) == [consumer |-> i, hit |-> hit]
Extended(found) == report \o [n \in DOMAIN found |-> Entry(at, found[n])]

CollectHits ==
  /\ pc = "scan" /\ agenda = << >>
  /\ report' = Extended(hits) /\ warnings' = warnings \o By(notes)
  /\ at' = at + 1 /\ pc' = "consumers"
  /\ UNCHANGED <<command, scan, files, exit>>

\* Mutant of ScanRaises: what was found before is kept.
ScanRaisesWithHits ==
  /\ pc = "scan" /\ agenda # << >>
  /\ report' = Extended(hits)
  /\ warnings' = warnings \o By(<<ScanFailed>>)
  /\ Clear /\ at' = at + 1 /\ pc' = "consumers"
  /\ UNCHANGED <<command, body, stmt_kind, files, exit>>
\* Any exception of the walk, such as a RecursionError.
ScanRaises ==
  /\ pc = "scan" /\ agenda # << >>
  /\ warnings' = warnings \o By(<<ScanFailed>>)
  /\ Clear /\ at' = at + 1 /\ pc' = "consumers"
  /\ UNCHANGED <<command, body, stmt_kind, report, files, exit>>

AllScanned ==
  /\ pc = "consumers" /\ at > Len(Consumers)
  /\ pc' = "json"
  /\ UNCHANGED <<command, scan, at, outcome, files, exit>>

\* Each artifact is written in place.
Write ==
  /\ pc \in {"json", "html"}
  /\ files' = [files EXCEPT ![pc] = "new"]
  /\ pc' = IF pc = "json" THEN "html" ELSE "echo"
  /\ UNCHANGED <<command, scan, at, outcome, exit>>

\* Mutant of WriteFails: the failure is not told.
WriteFailsQuietly ==
  /\ pc \in {"json", "html"}
  /\ \E left \in {files[pc], "partial"} : files' = [files EXCEPT ![pc] = left]
  /\ pc' = IF pc = "json" THEN "html" ELSE "echo"
  /\ UNCHANGED <<command, scan, at, outcome, exit>>
WriteFails ==
  /\ pc \in {"json", "html"}
  /\ \E left \in {files[pc], "partial"} : files' = [files EXCEPT ![pc] = left]
  /\ End(1)
  /\ UNCHANGED <<command, scan, at, outcome>>

Echo ==
  /\ pc = "echo"
  /\ End(0)
  /\ UNCHANGED <<command, scan, at, outcome, files>>

Next ==
  \/ Arguments \/ Compose \/ ComposeFails \/ Load \/ LoadFails
  \/ SkipConsumer \/ ScriptRaises \/ StartScan \/ Find \/ AcceptStatement \/ AcceptQuery \/ VisitJoin
  \/ CollectHits \/ ScanRaises \/ AllScanned \/ Write \/ WriteFails \/ Echo

Spec == Init /\ [][Next]_vars

-----------------------------------------------------------------------------
(* Properties.                                                             *)

\* The types of the state: where the process may be, and what it knows of the consumers.
TypeOK ==
  /\ pc \in {"arguments", "compose", "load", "consumers", "scan", "json", "html", "echo", "ended"}
  /\ at \in 1..(Len(Consumers) + 1)
  /\ files \in [{"json", "html"} -> {"old", "partial", "new"}]
  /\ exit \in {NoExit, 0, 1, 2, 4}
  /\ \A n \in DOMAIN report : report[n].consumer \in DOMAIN Consumers

CountOf(seq, x) == Cardinality({n \in DOMAIN seq : seq[n] = x})
Texts(i) == {w.text : w \in {v \in Range(warnings) : v.consumer = i}}
Found(i) == {report[n].hit : n \in {m \in DOMAIN report : report[m].consumer = i}}
Scanned(name) ==
  IF exit = 0 /\ request.command = name
  THEN {i \in DOMAIN Consumers : Consumers[i].script \in {"parses", "errors"}
                              /\ ScanFailed \notin Texts(i)}
  ELSE {}

\* The statements a body holds, those of blocks included.
Leaves(b) ==
  LET of[k \in DOMAIN b.statements] ==
        LET s == b.statements[k]
        IN  IF s.kind \in {"block", "if", "while", "try"}
            THEN UNION {of[s.nested[i]] : i \in DOMAIN s.nested} ELSE {k}
  IN  UNION {of[b.top[i]] : i \in DOMAIN b.top}

\* What is a table, and no common table expression, gives its columns.
Direct(b, s, n, items) ==
  [i \in DOMAIN items |-> IF items[i].kind = "table" /\ CteOf(s, items[i], n) = {}
                          THEN TableColumns(items[i].schema, items[i].name) ELSE << >>]
Means(b, s, n, items, ref, column) ==
  column \in {<<c.owner[2], c.owner[3], c.column>> : c \in From(Direct(b, s, n, items), items, <<ref>>)}
TargetColumn == <<target.schema, target.name, target.column>>

InScope(b, s, n) ==
  IF s.kind = "update" /\ n = s.query /\ b.queries[n].from = << >> THEN <<s.target>> ELSE b.queries[n].from
Sides(b, s) ==
  CASE s.kind = "merge" -> <<s.target, s.using>>
    [] s.kind = "update" -> InScope(b, s, s.query)
    [] OTHER -> <<s.target>>
\* The columns on the left of a SET or in the list of an INSERT are of the table written.
SetUses(b, s) ==
  FlattenSeq([i \in DOMAIN s.sets |->
    <<[context |-> "ASSIGN_TARGET", ref |-> [prefix |-> s.sets[i].prefix, name |-> s.sets[i].column],
       items |-> IF s.sets[i].prefix = None THEN <<s.target>> ELSE Sides(b, s)]>>
    \o LET uses == UsesOfExpr("ASSIGN_VALUE", s.sets[i].expr)
       IN  [u \in DOMAIN uses |-> uses[u] @@ [items |-> Sides(b, s)]]])
OwnUses(b, s) ==
  CASE s.kind \in {"insert", "values"} ->
         [i \in DOMAIN s.columns |-> [context |-> "ASSIGN_TARGET", ref |-> [prefix |-> None, name |-> s.columns[i]],
                                      items |-> <<s.target>>]]
    [] s.kind = "merge" ->
         LET on == UsesOfOn(s.using.on) IN [u \in DOMAIN on |-> on[u] @@ [items |-> Sides(b, s)]] \o SetUses(b, s)
    [] s.kind = "update" -> SetUses(b, s)
    [] OTHER -> << >>

\* The places of statement k that mean the target column, as the citations to expect.
KindIn(i, s) ==
  CASE s.kind \in {"insert", "values"} -> "INSERT"
    [] s.kind = "update" -> "UPDATE"
    [] s.kind = "merge" -> "MERGE"
    [] s.kind = "ctas" -> "CTAS"
    [] OTHER -> IF Consumers[i].type \in {"VIEW", "PROCEDURE"} THEN Consumers[i].type ELSE "FUNCTION"
Citation(i, k, n, use) ==
  [context |-> use.context, line |-> <<k, n>>, alias |-> use.ref.prefix,
   kind |-> KindIn(i, Consumers[i].body.statements[k])]
UsesIn(i, k) ==
  LET b == Consumers[i].body
      s == b.statements[k]
      own == SelectSeq(OwnUses(b, s), LAMBDA u : Means(b, s, Len(b.queries) + 1, u.items, u.ref, TargetColumn))
      queries == SetToSeq(QueriesOf(b.queries, s))
      of(n) == LET uses == SelectSeq(UsesOfQuery(b.queries[n]),
                                     LAMBDA u : Means(b, s, n, InScope(b, s, n), u.ref, TargetColumn))
               IN  [u \in DOMAIN uses |-> Citation(i, k, n, uses[u])]
  IN  [u \in DOMAIN own |-> Citation(i, k, 0, own[u])] \o FlattenSeq([n \in DOMAIN queries |-> of(queries[n])])

\* Names that mean one thing: tables of one FROM have names of their own, a common table
\* expression has none that a table has, the target included, and an UPDATE names its table.
PlainNames(b, s) ==
  /\ \A n \in QueriesOf(b.queries, s) :
       Distinct([i \in DOMAIN b.queries[n].from |-> Exposed(b.queries[n].from[i])])
  /\ \A c \in DOMAIN s.ctes :
       Table(None, s.ctes[c].name) = {} /\ <<"dbo", s.ctes[c].name>> # <<target.schema, target.name>>
  /\ s.kind = "update" /\ b.queries[s.query].from # << >> =>
       \E i \in DOMAIN b.queries[s.query].from :
         LET item == b.queries[s.query].from[i]
         IN  Exposed(item) = s.target.name /\ TableOf(item) = TableOf(s.target)
\* What names the column where the finder never looks: a scalar subquery, EXISTS or
\* IN (SELECT), an expression of a kind that is not known, the ORDER BY of a statement.
Expressions(b, s) ==
  UNION {Range(b.queries[n].where) \cup Range(b.queries[n].having) \cup {e.expr : e \in Range(b.queries[n].select)} :
           n \in QueriesOf(b.queries, s)}
  \cup {set.expr : set \in Range(s.sets)}
Unread(b, s) ==
  Range(s.order_by) \cup UNION {Range(e.refs) : e \in {x \in Expressions(b, s) : x.form \in {"subquery", "opaque"}}}
\* Where the finder looks for every place: not there, nor in the common table expressions
\* of an INSERT, nor in the conditions between the tables of an UPDATE.
Looked(b, s) ==
  /\ \A ref \in Unread(b, s) : ref.name # target.column
  /\ s.kind # "delete"
  /\ s.kind \in {"select", "ctas"} \/ s.ctes = << >>
  /\ s.kind = "update" => \A i \in DOMAIN b.queries[s.query].from : b.queries[s.query].from[i].on = << >>

\* In a statement that names the column only where the finder looks (Looked), no place is
\* missed in silence: each one that means the column is cited, in its clause and statement,
\* or, when the column has no prefix, its consumer has a warning.  A star that covers the
\* table has one too.  Where the finder does not look the column is missed without a word.
UsesFound ==
  \A i \in Scanned("column-usage") : \A k \in Leaves(Consumers[i].body) :
    LET b == Consumers[i].body
        s == b.statements[k]
        uses == UsesIn(i, k)
    IN  PlainNames(b, s) /\ Looked(b, s) =>
          /\ \A u \in Range(uses) :
               \/ CountOf(report, Entry(i, u)) >= CountOf(uses, u)
               \/ u.alias = None /\ Note("unqualified column", None) \in Texts(i)
          /\ \A n \in QueriesOf(b.queries, s) : \A e \in Range(b.queries[n].select) :
               e.kind = "star"
               /\ (\E j \in DOMAIN b.queries[n].from :
                     LET item == b.queries[n].from[j]
                     IN  e.qualifier \in {None, Exposed(item)} /\ item.kind = "table"
                         /\ CteOf(s, item, n) = {} /\ TableOf(item) = <<target.schema, target.name>>)
               => Note("star may include it", None) \in Texts(i)

\* Nothing is cited that does not mean the column, nor in another clause or statement, nor
\* more often than it is there.
CitationsAreUses ==
  \A i \in Scanned("column-usage") : \A h \in Found(i) :
    LET b == Consumers[i].body
        s == b.statements[h.line[1]]
    IN  PlainNames(b, s) => CountOf(report, Entry(i, h)) <= CountOf(UsesIn(i, h.line[1]), h)

\* The report of a body is what its places mean: none missing in silence where the finder
\* looks, and none invented anywhere.
CitationsExact == UsesFound /\ CitationsAreUses

\* What is cited inside a common table expression is followed no further, and the report
\* says so for that expression, wherever in it the place is.
CteCitationsWarned ==
  \A i \in Scanned("column-usage") : \A h \in Found(i) :
    LET b == Consumers[i].body
        s == b.statements[h.line[1]]
    IN  \A c \in DOMAIN s.ctes :
          h.line[2] \in BuiltFrom(b.queries, s.ctes[c].query) =>
            Note("referenced inside CTE", s.ctes[c].name) \in Texts(i)

\* A scan that fails leaves nothing of its body in the report, and a warning; those before
\* and after it keep what they found, in the order of the consumers.
FailuresStayLocal ==
  /\ \A i \in DOMAIN Consumers : ScanFailed \in Texts(i) => i \notin {report[n].consumer : n \in DOMAIN report}
  /\ \A m, n \in DOMAIN report : m < n => report[m].consumer <= report[n].consumer
  /\ exit = 0 => \A i \in DOMAIN Consumers : Consumers[i].script = "errors" => Texts(i) # {}

\* The equalities of the n-th item's condition between a column of the target and one of
\* another table, as SQL means them.  A common table expression has columns as a table has.
RealPairs(b, s, q, n) ==
  LET items == SubSeq(b.queries[q].from, 1, n)
      equalities == {c \in Range(items[n].on) : c.op = "=" /\ Len(c.left) = 1 /\ Len(c.right) = 1}
      both == UNION {{<<c.left[1], c.right[1]>>, <<c.right[1], c.left[1]>>} : c \in equalities}
      named(ref) == {j \in DOMAIN items : items[j].kind = "table" /\ Exposed(items[j]) = ref.prefix}
      mine(ref) == {j \in named(ref) : Key(items[j]) = <<target.schema, target.name>>
                                       /\ CteOf(s, items[j], q) = {}}
  IN  UNION {{[mine |-> items[m], other |-> items[o], pair |-> <<p[1].name, p[2].name>>] :
                m \in mine(p[1]), o \in named(p[2]) \ mine(p[2])} : p \in both}

\* An alias does not take the name of another table of the FROM, and the prefixes in its
\* conditions are the names its tables have there, as SQL wants them.
PlainAliases(b, q) ==
  LET from == b.queries[q].from
  IN  /\ \A i, j \in DOMAIN from : i # j => Exposed(from[i]) \notin {from[j].alias, from[j].name}
      /\ \A i \in DOMAIN from : \A c \in Range(from[i].on) : \A ref \in Range(c.left) \cup Range(c.right) :
           ref.prefix \in {None} \cup {Exposed(from[j]) : j \in DOMAIN from}

\* A pair that is reported is an equality of that join, with the target's column first and
\* the other column of the table it is reported with.
PairsAreReal ==
  \A i \in Scanned("joins") : \A h \in Found(i) :
    LET b == Consumers[i].body
        s == b.statements[h.line[1]]
    IN  PlainNames(b, s) /\ PlainAliases(b, h.line[2]) =>
          \A u \in h.usages : \A p \in u.pairs :
            \E r \in RealPairs(b, s, h.line[2], h.line[3]) :
              r.pair = p /\ Key(r.other) = u.other /\ r.mine.alias = u.target_alias /\ r.other.alias = u.other_alias

\* Wherever a script joins the target with another table, inside TRY, common table
\* expressions and derived tables too, that join is reported, with every equality of
\* columns that have a prefix.
JoinsFound ==
  \A i \in Scanned("joins") : \A k \in Leaves(Consumers[i].body) :
    LET b == Consumers[i].body
        s == b.statements[k]
        usages(q, n) == UNION {h.usages : h \in {f \in Found(i) : f.line = <<k, q, n>>}}
        is(item) == item.kind = "table" /\ Key(item) = <<target.schema, target.name>>
    IN  \A q \in QueriesOf(b.queries, s) : \A n \in DOMAIN b.queries[q].from \ {1} :
          LET from == b.queries[q].from
          IN  from[n].on # << >> =>
                /\ (\E m, o \in 1..n : is(from[m]) /\ ~is(from[o]) /\ from[o].kind = "table") => usages(q, n) # {}
                /\ PlainNames(b, s) /\ PlainAliases(b, q) =>
                     \A r \in RealPairs(b, s, q, n) :
                       \E u \in usages(q, n) :
                         /\ r.pair \in u.pairs /\ u.other = Key(r.other)
                         /\ u.target_alias = r.mine.alias /\ u.other_alias = r.other.alias

\* The joins reported are those the scripts make, with the pairs they compare.
JoinsExact == PairsAreReal /\ JoinsFound

\* The exit code tells what is on disk: 0 only with both artifacts of this report, a wrong
\* call or a missing DacFx leaves those there were, and the HTML is never newer than the
\* JSON.  After 1 either may be new, old or cut off: they are written in place.
ExitCodeTruthful ==
  /\ exit = 0 => files = [json |-> "new", html |-> "new"] /\ at > Len(Consumers)
  /\ exit \in {2, 4} => files = [json |-> "old", html |-> "old"]
  /\ files.html # "old" => files.json = "new"

=============================================================================
