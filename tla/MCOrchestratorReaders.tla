----------------------- MODULE MCOrchestratorReaders ------------------------
(* Pipelines of up to four activities in every shape of nesting, DAGs of up *)
(* to three operators and two dependency expressions.                       *)
EXTENDS OrchestratorReaders

Foreign(suffix, content) ==
  [suffix |-> suffix, content |-> content, nodes |-> << >>, pipelines |-> << >>,
   calls |-> << >>, chains |-> << >>]
Template(nodes, pipelines) ==
  [suffix |-> ".json", content |-> "artifact", nodes |-> nodes, pipelines |-> pipelines,
   calls |-> << >>, chains |-> << >>]
Dag(calls, chains) ==
  [suffix |-> ".py", content |-> "artifact", nodes |-> << >>, pipelines |-> << >>,
   calls |-> calls, chains |-> chains]

Leaf(name, type, fields, env, depends_on) ==
  [is_object |-> TRUE, name |-> name, type |-> type, fields |-> fields, sql_source |-> TRUE,
   env |-> env, depends_on |-> depends_on, nested |-> << >>]
Container(name, nested) == [Leaf(name, "other", {}, Nothing, <<"a">>) EXCEPT !.nested = nested]
NotAnObject == [Leaf("a", "other", {}, Nothing, << >>) EXCEPT !.is_object = FALSE, !.nested = <<<<4>>>>]

FirstNodes ==
  {Leaf("a", "proc", {"storedProcedureName"}, "c", << >>), Leaf("a", "proc", {}, Nothing, <<"b", "b">>),
   Container("a", <<<<3>>, <<4>>>>), Container("a", <<<<3, 4>>>>), Container("b", <<<<3>>>>),
   Container(Nothing, <<<<4>>, <<3>>>>)}
SecondNodes ==
  {Leaf("b", "copy", fields, env, <<"a">>) : fields \in {{}, {"sqlReaderQuery"}}, env \in {"c", Nothing}}
  \cup {Leaf("b", "lookup", {"sqlReaderStoredProcedureName"}, Nothing, << >>), NotAnObject,
        [Leaf("b", "lookup", {"sqlReaderQuery"}, "c", << >>) EXCEPT !.sql_source = FALSE]}
ThirdNodes ==
  {Leaf("c", "script", fields, "c", <<"a">>) : fields \in {{}, {"scripts"}, {"text", "query"}}}
  \cup {Container("b", <<<<5>>>>), Container(Nothing, <<<< >>, <<5>>>>)}
FourthNodes == {Leaf("a", "script", {"query"}, Nothing, << >>), Leaf(Nothing, "copy", {}, "c", << >>)}
LastNode == Leaf("b", "script", {"scripts"}, "c", <<"z">>)

AdfFiles ==
  {Template(<<a, b, c, d, LastNode>>, pipelines) :
     a \in FirstNodes, b \in SecondNodes, c \in ThirdNodes, d \in FourthNodes,
     pipelines \in {<<<<1, 2>>>>, <<<<2>>, <<1>>>>, << >>}}
IsTree(f) ==
  IsInjective(FlattenSeq(f.pipelines \o FlattenSeq([i \in DOMAIN f.nodes |-> f.nodes[i].nested])))

Op(task_id, var, env, mssql, sql) ==
  [task_id |-> task_id, var |-> var, env |-> env, mssql |-> mssql, sql |-> sql]
FirstCalls ==
  {Op("a", "x", "c", TRUE, sql) : sql \in {"literal", "template", "missing", "unreadable", "empty list"}}
SecondCalls ==
  {Op("b", "y", "c", FALSE, "list"), Op("a", "y", Nothing, FALSE, "dynamic"), Op(Nothing, "y", "c", TRUE, "none"),
   Op("b", Nothing, "c", TRUE, "none")}
ThirdCalls ==
  {Op("c", "z", "c", TRUE, "literal"), Op("b", "z", Nothing, FALSE, "none"), Op("c", "x", "c", TRUE, "list")}

Long(o, p, q, op1, op2) == [operands |-> <<o, p, q>>, ops |-> <<op1, op2>>]
Short(o, p, op) == [operands |-> <<o, p>>, ops |-> <<op>>]
Operands == {<<"x">>, <<"y">>, <<"z", "x">>, << >>}
SomeChains ==
  {Long(o, p, q, op1, op2) : o \in Operands, p \in {<<"y">>, <<"z", "y">>}, q \in {<<"z">>, <<"x", "y">>},
     op1 \in {">>", "<<"}, op2 \in {">>", "<<"}}
  \cup {Short(o, <<"z", "y">>, op) : o \in Operands, op \in {">>", "<<"}}
  \cup {Short(o, <<"z", "y">>, op) : o \in {<<"x">>, << >>}, op \in {"set_downstream", "set_upstream"}}

AllFiles ==
  {f \in AdfFiles : IsTree(f)}
  \cup {Dag(<<a, b, c>>, <<k, Short(<<"x">>, <<"y">>, ">>")>>) :
          a \in FirstCalls, b \in SecondCalls, c \in ThirdCalls, k \in SomeChains}
  \cup {Foreign(suffix, content) : suffix \in {".json", ".py", "other"},
          content \in {"unreadable", "not utf-8", "malformed", "foreign"}}
=============================================================================
