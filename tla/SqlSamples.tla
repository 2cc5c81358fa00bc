------------------------------ MODULE SqlSamples ------------------------------
(* Three tables, two of which share their name, and ways to write a body: what *)
(* the instances of the readers of SQL are made of.                            *)
EXTENDS SqlMeaning

AllNames == {"a", "b", "c", "d", "e", "t", "u", "dbo", "load"}
AllObjects ==
  <<[schema |-> "load", name |-> "t", columns |-> <<"b", "c">>],
    [schema |-> "dbo", name |-> "t", columns |-> <<"a", "b">>],
    [schema |-> "dbo", name |-> "u", columns |-> <<"a", "c">>]>>

At(prefix, name) == [prefix |-> prefix, name |-> name]
Expression(form, refs) == [form |-> form, refs |-> refs, partition |-> << >>, order |-> << >>]
Scalar(alias, expr) == [kind |-> "scalar", alias |-> alias, qualifier |-> None, expr |-> expr]
Bare(name) == Scalar(None, Expression("column", <<At(None, name)>>))
Of(prefix, name) == Scalar(None, Expression("column", <<At(prefix, name)>>))
As(alias, form, refs) == Scalar(alias, Expression(form, refs))
AllOf(qualifier) ==
  [kind |-> "star", alias |-> None, qualifier |-> qualifier, expr |-> Expression("literal", << >>)]
Variable == [kind |-> "variable", alias |-> None, qualifier |-> None, expr |-> Expression("literal", << >>)]

Tab(schema, name, alias, on) ==
  [kind |-> "table", schema |-> schema, name |-> name, alias |-> alias, query |-> 0, on |-> on]
Sub(query, alias, on) ==
  [kind |-> "derived", schema |-> None, name |-> None, alias |-> alias, query |-> query, on |-> on]
Rowset == [kind |-> "other", schema |-> None, name |-> None, alias |-> "e", query |-> 0, on |-> << >>]
On(op, left, right) == [op |-> op, left |-> left, right |-> right]

Spec3(from, select, groups) ==
  [kind |-> "spec", from |-> from, select |-> select, where |-> << >>, group_by |-> groups, having |-> << >>,
   left |-> 0, right |-> 0]
Select(from, select) == Spec3(from, select, << >>)
Union(left, right) == [Select(<< >>, << >>) EXCEPT !.kind = "union", !.left = left, !.right = right]

Statement0(kind, ctes, query) ==
  [kind |-> kind, nested |-> << >>, ctes |-> ctes, query |-> query, target |-> Rowset, columns |-> << >>,
   using |-> Rowset, order_by |-> << >>, sets |-> << >>]
With(name, columns, query) == [name |-> name, columns |-> columns, query |-> query]
Insert(target, columns, query) == [Statement0("insert", << >>, query) EXCEPT !.target = target, !.columns = columns]
Nest(kind, nested) == [Statement0(kind, << >>, 0) EXCEPT !.nested = nested]

BodyOf(declared, queries, statements, top) ==
  [declared |-> declared, queries |-> queries, statements |-> statements, top |-> top]
=============================================================================
