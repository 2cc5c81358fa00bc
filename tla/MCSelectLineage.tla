-------------------------- MODULE MCSelectLineage ---------------------------
(* Statements of up to three queries, one inside another, over three tables, *)
(* two of which share their name.                                            *)
EXTENDS SelectLineage, SqlSamples

First ==
  {Select(<<Tab("dbo", "t", None, << >>)>>, <<Bare("a"), Bare("b")>>),
   Select(<<Tab("dbo", "t", "d", << >>)>>,
          <<As("a", "simple case", <<At("d", "b"), At(None, "b"), At("d", "a"), At("d", "a")>>),
             As("b", "literal", << >>), As("c", "case", <<At("d", "b"), At("d", "a"), At("d", "b")>>)>>),
   Select(<<Tab(None, "u", None, << >>)>>, <<AllOf(None)>>),
   Select(<<Tab(None, "t", "d", << >>)>>, <<AllOf("d")>>)}

Joined(d) ==
  <<Tab("dbo", "u", None, << >>),
    Sub(1, d, <<On("=", <<At("u", "a")>>, <<At(d, "a")>>), On(">=", <<At(d, "a")>>, <<At("u", "c")>>),
                On("=", <<At(d, "a")>>, <<At("u", "c")>>)>>)>>
Second ==
  {Select(<<Sub(1, d, << >>)>>, <<Bare("a"), Of(d, x)>>) : d \in {"d", "e"}, x \in {"b", "c"}}
  \cup {Select(<<Sub(1, "d", << >>)>>, <<AllOf(None)>>), Select(Joined("d"), <<Of("d", "a"), Of("u", "c")>>),
        Select(<<Tab(None, "c", "e", << >>)>>, <<Of("e", "a")>>), Union(1, 1),
        Select(<<Tab(None, "c", None, << >>)>>, <<Bare("a"), As("b", "aggregate", <<At(None, "a")>>)>>)}

Windowed ==
  [As("b", "call", <<At(None, "a")>>) EXCEPT !.expr.partition = <<At(None, "a")>>, !.expr.order = <<At(None, "b")>>]
Third ==
  {Select(<<Sub(2, d, << >>)>>, <<Of(d, "a"), As("c", "call", <<At(None, "a")>>)>>) : d \in {"d", "e"}}
  \cup {Select(<<Sub(1, "d", << >>), Sub(2, "e", <<On("=", <<At("d", "a")>>, <<At("e", "a")>>)>>)>>,
               <<Of("e", "a"), Variable, Of("d", "a")>>),
        Select(<<Sub(2, "d", <<On("or", << >>, << >>)>>)>>, <<AllOf("d")>>),
        Spec3(<<Sub(1, "e", << >>)>>, <<Windowed>>, <<At("e", "a")>>),
        Select(<<Tab("dbo", "t", None, << >>), Tab("load", "t", None, << >>)>>, <<AllOf(None)>>),
        Select(<<Tab("dbo", "t", None, << >>),
                 Tab("load", "t", "e", <<On("=", <<At("t", "b")>>, <<At("e", "b")>>)>>)>>,
               <<Of("t", "b"), AllOf("e"), As("d", "subquery", << >>)>>),
        Select(<<Tab(None, "c", None, << >>)>>, <<Bare("a")>>),
        Select(<<Tab(None, "c", "d", << >>), Tab(None, "u", None, << >>)>>, <<Of("d", "a"), Of("u", "c")>>),
        Select(<<Tab(None, "u", None, << >>), Sub(2, "d", << >>)>>, <<Of("d", "a")>>),
        Select(<<Tab("dbo", "t", None, << >>), Rowset>>, <<Bare("b"), [Variable EXCEPT !.kind = "other"]>>),
        [Select(<<Tab(None, "d", None, << >>)>>, <<Bare("a")>>) EXCEPT
           !.where = <<Expression("call", <<At(None, "a")>>)>>,
            !.having = <<Expression("aggregate", <<At("d", "a")>>)>>],
        Union(1, 2), Union(2, 2)}

Ctes == {<< >>, <<With("c", << >>, 1)>>, <<With("c", <<"a", "b">>, 1), With("d", << >>, 2)>>}
Texts ==
  {x \in {<<q1, q2, q3>> : q1 \in First, q2 \in Second, q3 \in Third} \X Ctes :
     Compiles(BodyOf(<< >>, x[1], <<Statement0("select", x[2], 3)>>, <<1>>))}
Single ==
  {BodyOf(named[1], x[1], <<[Statement0("select", x[2], 3) EXCEPT !.order_by = named[2]]>>, <<1>>) :
     named \in {<<<< >>, << >>>>, <<<<"c", "a">>, <<At(None, "a")>>>>}, x \in Texts}
Several ==
  {BodyOf(<< >>, x[1],
          <<Nest("block", <<2, 3, 4>>), Nest("if", <<5, 6>>), Nest("try", <<7>>), Nest("while", <<8, 11>>),
            [Statement0("values", << >>, 0) EXCEPT !.target = Tab("dbo", "u", None, << >>)],
            Insert(Tab("dbo", "u", None, << >>), << >>, 3),
            Statement0("select", << >>, 1), Statement0("ctas", << >>, 2),
            Statement0("delete", << >>, 0), Statement0("select", << >>, 2),
             Insert(Tab("dbo", "u", None, << >>), <<"c">>, 3)>>, <<1, 10, 9>>) :
     x \in {y \in Texts : y[2] = << >>}}
Merges ==
  {BodyOf(<< >>, <<q, Select(<<Sub(1, "d", << >>)>>, <<Bare("a")>>)>>,
          <<[Statement0("merge", << >>, 0) EXCEPT
               !.target = Tab("dbo", "u", "t", << >>), !.using = Sub(n, "e", << >>),
               !.sets = <<[prefix |-> None, column |-> "c", expr |-> Expression("column", <<At("e", "a")>>)],
                          [prefix |-> "t", column |-> "a",
                            expr |-> Expression("computed", <<At("t", "c"), At(None, "c")>>)]>>]>>, <<1>>) :
     q \in First, n \in {1, 2}}

AllBodies == Single \cup Several \cup Merges
=============================================================================
