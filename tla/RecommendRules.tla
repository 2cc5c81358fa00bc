--------------------------- MODULE RecommendRules ---------------------------
(***************************************************************************)
(* The rules that turn what one table is used for, and what it already     *)
(* has, into proposals.  Pure: the session that feeds them is Recommend.   *)
(* A profile keeps its columns in the order of the table, because ties are *)
(* broken by that order; proposals are sets, their order is layout.        *)
(***************************************************************************)
EXTENDS Integers, Sequences, FiniteSets, FiniteSetsExt

CONSTANTS
  Unknown,       \* None: a count, a size or a ratio nobody measured
  CharSum,       \* column name -> the sum of its characters (_lex)
  Alphabetical,  \* column name -> its place in the order of strings
  WideTable,     \* WIDE_TABLE_COLUMN_COUNT, 10 in the code
  HeavyUse,      \* citations that make a scan heavy, 5 in the code
  ClusterByMax,  \* FABRIC_CLUSTER_BY_MAX_COLUMNS, 4 in the code
  IncludeMax     \* included columns of one index, 3 in the code

ASSUME RulesAssumption ==
  /\ DOMAIN CharSum = DOMAIN Alphabetical
  /\ WideTable \in Nat /\ HeavyUse \in Nat /\ ClusterByMax \in Nat /\ IncludeMax \in Nat

Million == 1000000
ReplicateSizeMb == 2048
HealthySkew == 20    \* a ratio of 2.0, in tenths

-----------------------------------------------------------------------------
Platforms ==
  {"SQL_SERVER", "AZURE_SQL_DB", "AZURE_SQL_MANAGED_INSTANCE", "SYNAPSE_DEDICATED_POOL",
   "SYNAPSE_SERVERLESS_POOL", "FABRIC_WAREHOUSE", "UNKNOWN"}

IsMpp(platform) == platform = "SYNAPSE_DEDICATED_POOL"
IsStatsOnly(platform) == platform \in {"SYNAPSE_SERVERLESS_POOL", "FABRIC_WAREHOUSE"}
SupportsIncludedColumns(platform) ==
  platform \in {"SQL_SERVER", "AZURE_SQL_DB", "AZURE_SQL_MANAGED_INSTANCE"}
SupportsColumnstore(platform) ==
  SupportsIncludedColumns(platform) \/ platform = "SYNAPSE_DEDICATED_POOL"

FromEngineEdition(edition) ==
  CASE edition \in {2, 3, 4, 9} -> "SQL_SERVER"
    [] edition = 5 -> "AZURE_SQL_DB"
    [] edition = 6 -> "SYNAPSE_DEDICATED_POOL"
    [] edition = 8 -> "AZURE_SQL_MANAGED_INSTANCE"
    [] edition = 11 -> "SYNAPSE_SERVERLESS_POOL"
    [] OTHER -> "UNKNOWN"

-----------------------------------------------------------------------------
NamesOf(cols) == {cols[i].name : i \in DOMAIN cols}
Total(cols, Count(_)) == MapThenSumSet(LAMBDA i : Count(cols[i]), DOMAIN cols)

\* The order of Python's tuples of numbers.
Exceeds(a, b) == \E k \in DOMAIN a : a[k] > b[k] /\ \A m \in 1..(k - 1) : a[m] = b[m]

\* The positions before i once the columns are sorted with reverse=True, which
\* leaves equal keys in the order they had.
Ahead(cols, Key(_), i) ==
  {j \in DOMAIN cols : \/ Exceeds(Key(cols[j]), Key(cols[i]))
                       \/ Key(cols[j]) = Key(cols[i]) /\ j < i}
Best(cols, Key(_), n) ==
  {cols[i] : i \in {j \in DOMAIN cols : Cardinality(Ahead(cols, Key, j)) < n}}

\* Mutant of CoversLeading: any key of the index will do.
CoversAnywhere(existing, column) ==
  \E idx \in existing : /\ idx.kind \in {"NONCLUSTERED", "CLUSTERED"}
                        /\ \E i \in DOMAIN idx.keys : idx.keys[i] = column

\* A row-store index whose leading key is the column.
CoversLeading(existing, column) ==
  \E idx \in existing : /\ idx.kind \in {"NONCLUSTERED", "CLUSTERED"}
                        /\ idx.keys # << >>
                        /\ idx.keys[1] = column

\* The column sets that have a statistic, filtered ones included.
Covered(existing) == {s.columns : s \in existing}

SkippedStatistics(profile, existing) ==
  {c \in NamesOf(profile.columns) :
     /\ \E i \in DOMAIN profile.columns : profile.columns[i].name = c /\ profile.columns[i].join >= 1
     /\ {c} \in Covered(existing)}

-----------------------------------------------------------------------------
(* Statistics, as the sets of columns they are on.                         *)

Statistics(profile, existing, platform) ==
  LET missing == {i \in DOMAIN profile.columns : {profile.columns[i].name} \notin Covered(existing)}
      grouped == {i \in DOMAIN profile.columns :
                    profile.columns[i].group + profile.columns[i].partition >= 2}
      groupedNames == {profile.columns[i].name : i \in grouped}
      Single(i, impact) ==
        [columns |-> {profile.columns[i].name}, kind |-> "SINGLE_COLUMN", impact |-> impact]
  IN  {Single(i, IF IsMpp(platform) THEN "HIGH" ELSE "MEDIUM") :
         i \in {j \in missing : profile.columns[j].join >= 1}}
      \cup
      {Single(i, "MEDIUM") :
         i \in {j \in missing : profile.columns[j].join = 0 /\ profile.columns[j].equality >= 2}}
      \cup
      {[columns |-> cs, kind |-> "MULTI_COLUMN", impact |-> "MEDIUM"] :
         cs \in {d \in {groupedNames} : Cardinality(grouped) >= 2 /\ d \notin Covered(existing)}}

-----------------------------------------------------------------------------
(* Indexes.                                                                *)

Index(kind, keys, include, impact) ==
  [kind |-> kind, keys |-> keys, include |-> include, impact |-> impact]
Has(existing, kinds) == \E idx \in existing : idx.kind \in kinds
IsWide(profile) == Len(profile.columns) >= WideTable

SqlServerClustered(profile, existing) ==
  {Index("CLUSTERED", <<c.name>>, {}, "HIGH") :
     c \in {d \in Best(profile.columns, LAMBDA e : <<e.equality, e.where>>, 1) :
              /\ ~Has(existing, {"CLUSTERED"})
              /\ d.equality >= 3
              /\ profile.rows # Unknown
              /\ profile.rows >= Million
              /\ d.equality > d.join}}

SqlServerColumnstore(profile, existing, platform) ==
  IF /\ ~Has(existing, {"CLUSTERED_COLUMNSTORE", "NONCLUSTERED_COLUMNSTORE"})
     /\ SupportsColumnstore(platform)
     /\ IsWide(profile)
     /\ Total(profile.columns, LAMBDA c : c.group + c.projection) >= HeavyUse
     /\ \/ profile.rows = Unknown
        \/ profile.rows >= Million
  THEN {Index("NONCLUSTERED_COLUMNSTORE", << >>, {}, "HIGH")}
  ELSE {}

SqlServerJoinKeys(profile, existing, platform) ==
  LET projected == {c.name : c \in Best(profile.columns,
                      LAMBDA e : <<e.projection, Alphabetical[e.name]>>, IncludeMax)}
  IN  {Index("NONCLUSTERED", <<c>>,
             IF SupportsIncludedColumns(platform) THEN projected \ {c} ELSE {}, "MEDIUM") :
         c \in {d \in NamesOf(profile.columns) :
                  /\ \E i \in DOMAIN profile.columns : /\ profile.columns[i].name = d
                                                       /\ profile.columns[i].join >= 1
                  /\ ~CoversLeading(existing, d)}}

SqlServerIndexes(profile, existing, platform) ==
  SqlServerClustered(profile, existing)
    \cup SqlServerColumnstore(profile, existing, platform)
    \cup SqlServerJoinKeys(profile, existing, platform)

SynapseIndexes(profile, existing) ==
  LET rows == IF profile.rows = Unknown THEN 0 ELSE profile.rows
      columnstore == /\ ~Has(existing, {"CLUSTERED_COLUMNSTORE"})
                     /\ IsWide(profile)
                     /\ Total(profile.columns, LAMBDA c : c.projection) >= HeavyUse
                     /\ rows = 0 \/ rows > 60 * Million
      Wanted(c) == c.join >= 1 \/ c.equality >= 2
  IN  IF columnstore
      THEN {Index("CLUSTERED_COLUMNSTORE", << >>, {}, "HIGH")}
      ELSE {Index("NONCLUSTERED", <<profile.columns[i].name>>, {}, "MEDIUM") :
              i \in {j \in DOMAIN profile.columns :
                       /\ Wanted(profile.columns[j])
                       /\ ~CoversLeading(existing, profile.columns[j].name)}}

-----------------------------------------------------------------------------
(* Synapse distribution and Fabric CLUSTER BY.                             *)

\* What an unmeasured column looks like to the rules.
NoMetric == [distinct |-> Unknown, skew |-> Unknown]
Metric(live, column) == IF column \in DOMAIN live.columns THEN live.columns[column] ELSE NoMetric

Distribution(kind, column, impact, queries, guess) ==
  [kind |-> kind, column |-> column, impact |-> impact, queries |-> queries, guess |-> guess]

ConfidentHash(m) ==
  /\ m.distinct # Unknown
  /\ m.distinct >= 10000
  /\ m.skew # Unknown
  /\ m.skew <= HealthySkew

SmallTable(profile) ==
  \/ profile.size # Unknown /\ profile.size < ReplicateSizeMb
  \/ profile.rows # Unknown /\ profile.rows < 100 * Million

\* The rules break ties by the smaller sum of characters; the sampler does not.
TopJoin(profile) ==
  {c \in Best(profile.columns, LAMBDA e : <<e.join, Cardinality(e.consumers), -CharSum[e.name]>>, 1) :
     c.join >= 1}

SynapseDistribution(profile, live) ==
  LET joined == TopJoin(profile)
      top == CHOOSE c \in joined : TRUE
      m == Metric(live, top.name)
  IN  IF profile.staging /\ \A i \in DOMAIN profile.columns : profile.columns[i].join = 0
      THEN Distribution("ROUND_ROBIN", Unknown, "MEDIUM", FALSE, FALSE)
      ELSE IF joined # {}
      THEN Distribution("HASH", top.name, IF ConfidentHash(m) THEN "HIGH" ELSE "MEDIUM",
                        ~ConfidentHash(m), m.distinct = Unknown \/ m.skew = Unknown)
      ELSE IF SmallTable(profile)
      THEN LET guess == profile.size = Unknown /\ profile.rows = Unknown
           IN  Distribution("REPLICATE", Unknown, "MEDIUM", guess, guess)
      ELSE Distribution("ROUND_ROBIN", Unknown, "LOW", TRUE, TRUE)

\* The declared types CLUSTER BY refuses, after _normalize_type.
ExcludedTypes == {"bit", "varchar(max)", "varbinary(max)", "varbinary", "uniqueidentifier"}
Excluded(column) == column.type # Unknown /\ column.type \in ExcludedTypes

FabricClusterBy(profile) ==
  LET filtered == {i \in DOMAIN profile.columns : profile.columns[i].where >= 1}
      candidates == {i \in filtered : ~Excluded(profile.columns[i])}
      Key(c) == <<c.where, c.equality, -CharSum[c.name]>>
      picked == {i \in candidates :
                   Cardinality(Ahead(profile.columns, Key, i) \cap candidates) < ClusterByMax}
  IN  IF candidates = {} THEN {}
      ELSE {[columns |-> {profile.columns[i].name : i \in picked},
             excluded |-> {profile.columns[i].name : i \in filtered \ candidates},
             impact |-> IF profile.rows = Unknown \/ profile.rows >= Million THEN "HIGH" ELSE "MEDIUM",
             queries |-> profile.rows = Unknown,
             guess |-> profile.rows = Unknown]}

-----------------------------------------------------------------------------
\* Everything one table is told.  A distribution or a CLUSTER BY that is None is
\* the empty set.
RuleOutput(profile, indexes, statistics, platform, live) ==
  [statistics |-> Statistics(profile, statistics, platform),
   indexes |-> IF IsStatsOnly(platform) THEN {}
               ELSE IF IsMpp(platform) THEN SynapseIndexes(profile, indexes)
               ELSE SqlServerIndexes(profile, indexes, platform),
   distribution |-> IF IsMpp(platform) THEN {SynapseDistribution(profile, live)} ELSE {},
   cluster_by |-> IF platform = "FABRIC_WAREHOUSE" THEN FabricClusterBy(profile) ELSE {},
   skipped |-> IF IsStatsOnly(platform) THEN {} ELSE SkippedStatistics(profile, statistics)]
=============================================================================
