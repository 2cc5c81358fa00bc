---------------------------- MODULE MCRecommend -----------------------------
(* Two tables, one of them wide at the scaled-down width, and two bodies.   *)
EXTENDS Recommend

Names == {"a", "b", "c", "k"}
Order == [n \in Names |-> CASE n = "a" -> 1 [] n = "b" -> 2 [] n = "c" -> 3 [] n = "k" -> 4]
\* Among equals the rules prefer the name of low characters, the sampler the first.
Sums == [n \in Names |-> CASE n = "a" -> 9 [] n = "b" -> 8 [] n = "c" -> 5 [] n = "k" -> 7]

TableList == <<"fact", "stg_day">>
Schema == [t \in {"fact", "stg_day"} |-> IF t = "fact" THEN "dbo" ELSE "load"]
ColumnTable == [t \in {"fact", "stg_day"} |-> IF t = "fact" THEN <<"a", "b", "c">> ELSE <<"k">>]
Types == [n \in Names |-> IF n = "a" THEN "bit" ELSE "int"]

\* Of the index names of "fact" one has exactly 120 characters and two are too long, and the
\* first 120 are the same.
CutNames ==
  [t \in {"fact", "stg_day"} |->
     IF t = "fact" THEN [slug \in {<<"b">>, <<"c">>} |-> <<"a">>] ELSE << >>]

Cite(column, context) == [column |-> column, context |-> context]
Times(n, cite) == [i \in 1..n |-> cite]
Script(citations) == [script |-> "parses", citations |-> citations, joins |-> "found", raises |-> FALSE]

Tied == <<Cite("a", "JOIN_ON"), Cite("b", "JOIN_ON"), Cite("c", "JOIN_ON")>>
Filtered == Times(3, Cite("a", "WHERE")) \o <<Cite("a", "JOIN_ON"), Cite("b", "WHERE")>>
Grouped == <<Cite("a", "PROJECTION"), Cite("a", "GROUP_BY"), Cite("b", "PARTITION_BY"), Cite("c", "PROJECTION")>>
Small == <<Cite("k", "WHERE"), Cite("a", "HAVING")>>
Pair == <<Cite("a", "JOIN_ON"), Cite("b", "JOIN_ON"), Cite("k", "JOIN_ON")>>

BodyUsages ==
  {[view |-> Script(c), proc |-> Script(d)] :
     c \in {Tied, Filtered, Grouped, Small, Pair, << >>}, d \in {Tied, Grouped, << >>}}
Broken(script, joins, raises) ==
  [view |-> [script |-> script, citations |-> Tied, joins |-> joins, raises |-> raises],
   proc |-> Script(Grouped)]
AllUsages ==
  BodyUsages \cup {Broken("errors", "none", FALSE), Broken("none", "none", FALSE),
                   Broken("parses", "raises", FALSE), Broken("parses", "none", TRUE)}

Both == {"dbo", "load"}
Line(dacpac_, connection, known, exists, target, schemas) ==
  [dacpac |-> dacpac_, connection |-> connection, known |-> known, exists |-> exists,
   target |-> target, schemas |-> schemas]
AllRequests ==
  {Line(FALSE, TRUE, TRUE, FALSE, target, Both) : target \in {Unknown, "SYNAPSE_DEDICATED_POOL"}}
  \cup {Line(TRUE, FALSE, FALSE, TRUE, target, Both) : target \in Platforms \ {"UNKNOWN"}}
  \cup {Line(TRUE, FALSE, FALSE, TRUE, "SQL_SERVER", {"load"}),
        Line(TRUE, TRUE, TRUE, TRUE, Unknown, Both), Line(FALSE, FALSE, FALSE, FALSE, Unknown, Both),
        Line(FALSE, TRUE, FALSE, FALSE, Unknown, Both), Line(TRUE, FALSE, FALSE, FALSE, "SQL_SERVER", Both),
        Line(TRUE, FALSE, FALSE, TRUE, Unknown, Both), Line(TRUE, FALSE, FALSE, TRUE, "SQL_SERVER", {})}

Load1(rows, size) == [rows |-> rows, size |-> size]
TableLoads ==
  [t \in {"fact", "stg_day"} |->
     IF t = "fact"
     THEN {Load1(Unknown, Unknown), Load1(0, Unknown), Load1(999999, 2048), Load1(60000001, 2048),
           Load1(100000000, 2047), Load1(100000000, 2048)}
     ELSE {Load1(10, Unknown)}]

Col(column, included) == [column |-> column, included |-> included]
Row(type, columns) == [type |-> type, columns |-> columns]
IndexSets ==
  [t \in {"fact", "stg_day"} |->
     IF t = "fact"
     THEN {{}, {Row(1, <<Col("a", FALSE)>>)}, {Row(5, << >>)}, {Row(6, <<Col("a", TRUE)>>)},
           {Row(2, <<Col("b", FALSE), Col("a", FALSE), Col("c", TRUE)>>), Row(3, <<Col("c", FALSE)>>)}}
     ELSE {{}}]

Stat(columns, filtered, by_user) == [columns |-> columns, filtered |-> filtered, user_created |-> by_user]
StatSets ==
  [t \in {"fact", "stg_day"} |->
     IF t = "fact"
     THEN {{}, {Stat({"a"}, TRUE, TRUE), Stat({"a", "b"}, FALSE, TRUE)}, {Stat({"b"}, FALSE, FALSE)}}
     ELSE {{}}]

Distributed == {[kind |-> "HASH", columns |-> <<"a">>]}
=============================================================================
