---------------------------- MODULE MCDropScript ----------------------------
(* Small runs for TLC. *)
EXTENDS DropScript, FiniteSets

Spellings == {"a", "A", "b"}
Folded == [n \in Spellings |-> IF n = "b" THEN 2 ELSE 1]

R(schema, name, type) == [schema |-> schema, name |-> name, type |-> type]

\* Spellings that agree but for case, one name under two types, a type the query
\* might answer and the tables do not know.
Pool ==
  {R("a", "a", "VIEW"), R("a", "A", "VIEW"), R("A", "a", "TABLE"), R("b", "b", "TABLE"),
   R("b", "a", "TABLE_VALUED_FUNCTION"), R("a", "b", "SYNONYM"), R("b", "A", "UNKNOWN"),
   R("a", "a", "EXTERNAL_TABLE")}

Lists(n) == UNION {{s \in [1..k -> Pool] : \A i, j \in 1..k : s[i] = s[j] => i = j} : k \in 0..n}
Shared == {{}, {R("a", "a", "VIEW")}, {R("A", "A", "TABLE"), R("b", "b", "SYNONYM")},
           {R("b", "A", "TABLE_VALUED_FUNCTION"), R("a", "a", "EXTERNAL_TABLE")}}

Given(exists, named, dacpac, schemas, live, filtered, filter) ==
  [dacpac_exists |-> exists, connection_named |-> named, dacpac |-> dacpac, schemas |-> schemas,
   live |-> live, filtered |-> filtered, filter |-> filter]

AllTypes == Types \ {"UNKNOWN"}

Comparisons ==
  {Given(TRUE, TRUE, d, AllTypes, l, f # {}, f) : d \in Shared, l \in Lists(3), f \in {{}, {"A"}, {"b"}}}
    \cup {Given(e, n, {}, AllTypes, << >>, TRUE, {}) : e \in BOOLEAN, n \in BOOLEAN}

\* With a DacFx that has no ModelSchema.ExternalTable.
OldDacFx ==
  {Given(TRUE, TRUE, d, AllTypes \ {"EXTERNAL_TABLE"}, l, FALSE, {}) : d \in Shared, l \in Lists(2)}

Everything == Comparisons \cup OldDacFx
=============================================================================
