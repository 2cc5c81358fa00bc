----------------------------- MODULE MCUsageScan ------------------------------
(* Every clause, one query inside another, every kind of statement, and joins *)
(* of up to three tables; one script in most dacpacs, several in the others.  *)
EXTENDS UsageScan, SqlSamples

Eq(left, right) == On("=", <<left>>, <<right>>)
Windowed(prefix) ==
  [As("b", "call", <<At(None, "b")>>) EXCEPT
     !.expr.partition = <<At(prefix, "b")>>, !.expr.order = <<At(prefix, "a")>>]
Clauses(from, p, o) ==
  [Select(from, <<As("c", "case", <<At(p, "b"), At(o, "a"), At(p, "b")>>), As("d", "aggregate", <<At(p, "b")>>),
                  Of(o, "a"), As("e", "subquery", << >>)>>) EXCEPT
     !.where = <<Expression("computed", <<At(p, "b"), At(o, "a")>>), Expression("opaque", << >>)>>,
     !.group_by = <<At(p, "b"), At(o, "a")>>, !.having = <<Expression("aggregate", <<At(p, "b")>>)>>]

Inner ==
  {Select(<<Tab("dbo", "t", None, << >>)>>, <<Bare("b"), Bare("a")>>),
   Select(<<Tab(None, "u", "t", << >>)>>, <<Of("t", "a"), As("b", "computed", <<At(None, "c")>>)>>),
   Select(<<Tab("load", "t", None, << >>), Tab("dbo", "u", "e", <<Eq(At("t", "c"), At("e", "c"))>>)>>,
          <<Bare("b"), Of("e", "a")>>),
   Select(<<Tab(None, "t", "d", << >>)>>, <<AllOf("d"), Windowed("d")>>)}
Joins ==
  {Clauses(<<Tab("dbo", "t", "d", << >>),
              Tab("dbo", "u", "e", <<Eq(At("e", "a"), At("d", "a")), Eq(At("d", "b"), At("e", "c"))>>)>>, "d", "e"),
   Clauses(<<Tab("dbo", "u", None, << >>),
              Tab(None, "t", None, <<Eq(At("t", "b"), At("u", "c")),
                                     On(">=", <<At("u", "c")>>, <<At("t", "a")>>)>>),
             Tab("load", "t", "e", <<Eq(At("e", "b"), At("t", "b")), Eq(At("u", "c"), At("e", "c"))>>)>>, "t", "u"),
   Clauses(<<Tab("dbo", "t", "d", << >>), Tab("dbo", "t", "e", <<Eq(At("d", "a"), At("e", "a"))>>),
             Tab("dbo", "u", None, <<Eq(At("u", "a"), At("e", "b")),
                                      On("=", <<At("d", "b")>>, << >>)>>)>>, "d", "u"),
   Clauses(<<Tab("dbo", "t", None, << >>), Tab("dbo", "u", "t", <<On("or", <<At("t", "c")>>, <<At("t", "b")>>)>>),
             Tab("load", "t", "e", <<Eq(At("t", "b"), At("e", "b"))>>)>>, "t", "t"),
   Clauses(<<Tab("dbo", "u", "e", << >>), Tab("dbo", "t", "d", <<Eq(At("e", "a"), At("d", "a"))>>),
             Tab("load", "t", None, <<Eq(At("t", "c"), At("e", "c"))>>)>>, "d", "e")}
Valued ==
  [Select(<<Tab("dbo", "t", "d", << >>), Tab("dbo", "u", "e", << >>)>>,
          <<As("d", "simple case", <<At("d", "b"), At("e", "a"), At("d", "b"), At(None, "b")>>)>>) EXCEPT
     !.where = <<Expression("simple case", <<At("e", "a"), At("e", "a"), At("d", "b"), At("e", "a")>>)>>]
\* It names the column of one target where the finder does not look, and that of the
\* other where it does.
Hidden ==
  [Select(<<Tab("dbo", "t", "d", << >>), Tab("dbo", "u", "e", << >>)>>,
          <<Of("e", "a"), As("d", "subquery", <<At("d", "b")>>), Of("d", "b")>>) EXCEPT
     !.where = <<Expression("opaque", <<At("d", "b")>>)>>]
Outer ==
  Joins
  \cup {Select(<<Sub(1, "d", << >>)>>, <<Bare("b"), Of("d", "a"), Variable>>),
        Select(<<Sub(1, "d", << >>), Tab("dbo", "t", None, <<Eq(At("t", "b"), At("d", "b"))>>)>>,
                <<Of("t", "b"), AllOf(None)>>),
        Select(<<Tab("dbo", "t", None, << >>), Rowset>>, <<Bare("b"), AllOf("t")>>),
        Select(<<Tab(None, "c", None, << >>)>>, <<Bare("b"), Windowed("c")>>),
        Select(<<Tab(None, "c", None, << >>), Tab("dbo", "t", "d", <<Eq(At("d", "b"), At("c", "b"))>>)>>,
                <<Of("d", "a"), Of("c", "b")>>),
        Select(<<Tab(None, "t", None, << >>)>>, <<Bare("a"), Bare("b"), Bare("b")>>),
        Valued, Hidden}

Target(name, column) == [schema |-> "dbo", name |-> name, column |-> column]
Into(alias) == Tab("dbo", "t", alias, << >>)
Set(prefix, column, expr) == [prefix |-> prefix, column |-> column, expr |-> expr]
Write0(kind, into, query, using, sets) ==
  [Statement0(kind, << >>, query) EXCEPT !.target = into, !.using = using, !.sets = sets]

Named1(name) == {<< >>, <<With(name, << >>, 1)>>}
Selects ==
  {BodyOf(<< >>, <<q, r>>, <<Statement0("select", << >>, 2)>>, <<1>>) : q \in Inner, r \in Outer}
  \cup {BodyOf(<< >>, <<q, r>>, <<Statement0("select", ctes, 2)>>, <<1>>) :
          q \in Inner, r \in {o \in Outer : \A i \in DOMAIN o.from : o.from[i].kind # "derived"},
          ctes \in Named1("c") \cup Named1("t")}
  \cup {BodyOf(<< >>, <<q, r, Union(1, 2)>>, <<Statement0("select", << >>, 3)>>, <<1>>) : q \in Inner, r \in Inner}
Compiling == {b \in Selects : Compiles(b)}
Ordered ==
  {BodyOf(<< >>, <<q>>, <<[Statement0("select", << >>, 1) EXCEPT !.order_by = <<At(None, name)>>]>>, <<1>>) :
     q \in Inner, name \in {"a", "b"}}

Sets ==
  {<<Set(None, "b", Expression("column", <<At("u", "c")>>)),
      Set("t", "a", Expression("case", <<At("t", "b"), At("u", "a"), At("t", "b")>>))>>,
   <<Set("t", "b", Expression("call", <<At("u", "c"), At("t", "b")>>)),
      Set(None, "a", Expression("literal", << >>))>>}
Filter(from) ==
  [Select(from, << >>) EXCEPT !.where = <<Expression("computed", <<At("t", "b"), At("u", "c")>>)>>]
Lone == [Select(<< >>, << >>) EXCEPT !.where = <<Expression("computed", <<At(None, "b")>>)>>]
Updates ==
  {BodyOf(<< >>, <<Filter(from)>>, <<Write0("update", Into(None), 1, Rowset, sets)>>, <<1>>) :
     sets \in Sets,
     from \in {<<Tab("dbo", "t", None, << >>), Tab("dbo", "u", None, << >>)>>,
               <<Tab("dbo", "u", None, << >>), Tab("dbo", "t", None, <<Eq(At("t", "b"), At("u", "c"))>>)>>}}
  \cup {BodyOf(<< >>, <<Lone>>, <<Write0("update", Into(None), 1, Rowset,
                         <<Set(None, "b", Expression("computed", <<At(None, "a"), At(None, "b")>>))>>)>>, <<1>>),
        BodyOf(<< >>, <<Filter(<<Tab("load", "t", "e", << >>), Tab("dbo", "t", None, << >>),
                                  Tab("dbo", "u", None, << >>)>>)>>,
               <<Write0("update", Tab(None, "t", None, << >>), 1, Rowset,
                         <<Set("t", "b", Expression("column", <<At("u", "a")>>))>>)>>, <<1>>)}
Merges ==
  {BodyOf(<< >>, <<q>>, <<Write0("merge", Into(None), 0,
                                 [using EXCEPT !.on = <<Eq(At("t", "b"), At("u", "a"))>>], sets)>>, <<1>>) :
     q \in Inner, sets \in Sets, using \in {Sub(1, "u", << >>), Tab("dbo", "u", None, << >>)}}
  \cup {BodyOf(<< >>, <<q, r>>, <<[Write0("merge", Into(None), 0, Sub(2, "u", <<Eq(At("t", "b"), At("u", "b"))>>),
                                        CHOOSE sets \in Sets : TRUE) EXCEPT !.ctes = <<With("c", << >>, 1)>>]>>, <<1>>) :
          q \in Inner, r \in Inner}
Several ==
  {BodyOf(<< >>, <<q, r>>,
          <<Nest("block", <<2, 3, 4>>), Nest("if", <<5, 6>>), Nest("try", <<7, 10>>), Nest("while", <<8>>),
            [Insert(Into(None), <<"a", "b">>, 0) EXCEPT !.kind = "values"],
            Insert(Tab(None, table, None, << >>), <<"b", "a">>, 2), Statement0("select", << >>, 2),
            Statement0("ctas", << >>, 2), Statement0("delete", << >>, 0),
             Statement0("select", << >>, 1)>>, <<1, 9>>) :
     q \in Inner,
     r \in {o \in Outer : Compiles(BodyOf(<< >>, <<CHOOSE i \in Inner : TRUE, o>>,
                                          <<Statement0("select", << >>, 2)>>, <<1>>))},
     table \in {"t", "u"}}
AllBodies == Compiling \cup Ordered \cup Updates \cup Merges \cup {b \in Several : Compiles(b)}

ByType(scripts) == [t \in Listed |-> SelectSeq(scripts, LAMBDA c : c.type = t)]
Script(type, script, text) == [type |-> type, script |-> script, body |-> text]
Some ==
  {b \in Updates : b.statements[1].sets[1].prefix = None}
  \cup {CHOOSE b \in Compiling : b.queries[2] \in Joins}
AllDacpacs ==
  {ByType(<<Script(type, "parses", b)>>) : b \in AllBodies, type \in {"VIEW"}}
  \cup {ByType(<<Script("SCALAR_FUNCTION", "errors", b), Script("PROCEDURE", script, c),
                 Script("TRIGGER", "parses", b), Script("VIEW", "parses", b)>>) : b \in Some, c \in Some,
     script \in {"none", "raises", "parses", "no fragment"}}

Call(named, column) ==
  [command |-> named, dacpac |-> TRUE, connection |-> FALSE, exists |-> TRUE, target |-> Target("t", column)]
AllRequests ==
  {Call("column-usage", "b"), Call("joins", "b"), [Call("joins", "c") EXCEPT !.target.name = "u"],
   [Call("column-usage", "a") EXCEPT !.target.name = "u"]}
  \cup {[Call("joins", "b") EXCEPT !.connection = TRUE], [Call("column-usage", "b") EXCEPT !.target = None],
        [Call("joins", "b") EXCEPT !.exists = FALSE]}
=============================================================================
