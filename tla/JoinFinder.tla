------------------------------ MODULE JoinFinder ------------------------------
(***************************************************************************)
(* What join_finder reports of one join of a FROM: which tables it joins   *)
(* to the target, and on which pairs of columns.  The n-th item of a FROM  *)
(* that has a condition is the right side of a join whose left side is the *)
(* items before it.                                                        *)
(***************************************************************************)
EXTENDS SqlBody

Key(table) == <<IF table.schema = None THEN "dbo" ELSE table.schema, table.name>>
KeysFor(table) == {table.alias, table.name} \ {None}

\* The tables among the first n items, each at its position: derived tables and rowsets
\* are not flattened.
FlattenNamedTables(from, n) == [i \in {j \in 1..n : from[j].kind = "table"} |-> from[i]]

\* The first table that has the key.
ByKey(tables, key) ==
  tables[CHOOSE i \in DOMAIN tables :
           key \in KeysFor(tables[i]) /\ \A j \in DOMAIN tables : j < i => key \notin KeysFor(tables[j])]

\* Comparisons of two columns that AND joins.
EqualityPairs(on) == {c \in Range(on) : c.op = "=" /\ Len(c.left) = 1 /\ Len(c.right) = 1}

\* Mutant of AssignPair: the columns of a pair keep the order of the text.
AssignPairAsWritten(c, keys, tables) ==
  LET known == UNION {KeysFor(tables[i]) : i \in DOMAIN tables}
      mine(ref) == ref.prefix \in keys
      theirs(ref) == ref.prefix \in known \ keys
  IN  IF mine(c.left[1]) /\ theirs(c.right[1])
      THEN {[pair |-> <<c.left[1].name, c.right[1].name>>, other |-> ByKey(tables, c.right[1].prefix)]}
      ELSE IF mine(c.right[1]) /\ theirs(c.left[1])
      THEN {[pair |-> <<c.left[1].name, c.right[1].name>>, other |-> ByKey(tables, c.left[1].prefix)]}
      ELSE {}
\* The column of the target first; a column without a prefix belongs to no table.
AssignPair(c, keys, tables) ==
  LET known == UNION {KeysFor(tables[i]) : i \in DOMAIN tables}
      mine(ref) == ref.prefix \in keys
      theirs(ref) == ref.prefix \in known \ keys
  IN  IF mine(c.left[1]) /\ theirs(c.right[1])
      THEN {[pair |-> <<c.left[1].name, c.right[1].name>>, other |-> ByKey(tables, c.right[1].prefix)]}
      ELSE IF mine(c.right[1]) /\ theirs(c.left[1])
      THEN {[pair |-> <<c.right[1].name, c.left[1].name>>, other |-> ByKey(tables, c.left[1].prefix)]}
      ELSE {}

Usage(table, other, pairs) ==
  [other |-> Key(other), target_alias |-> table.alias, other_alias |-> other.alias, pairs |-> pairs]

\* For one side that is the target: a usage for each table it is paired with, or, when
\* it is paired with none, for each other table of the join.
UsagesOfSide(table, tables, on, key) ==
  LET assigned == {a \in UNION {AssignPair(c, KeysFor(table), tables) : c \in EqualityPairs(on)} :
                     Key(a.other) # key}
      group(other) == {a \in assigned : Key(a.other) = Key(other) /\ a.other.alias = other.alias}
  IN  IF assigned # {}
      THEN {Usage(table, a.other, {b.pair : b \in group(a.other)}) : a \in assigned}
      ELSE {Usage(table, tables[i], {}) : i \in {j \in DOMAIN tables : Key(tables[j]) # key}}

EmitJoin(from, n, key) ==
  LET tables == FlattenNamedTables(from, n)
  IN  UNION {UsagesOfSide(t, tables, from[n].on, key) : t \in {s \in Range(tables) : Key(s) = key}}
=============================================================================
