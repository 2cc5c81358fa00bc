----------------------------- MODULE Recommend ------------------------------
(***************************************************************************)
(* recommend-index-stats: one process, one dacpac and, in a live run, one  *)
(* connection that it opens, asks what the engine is, asks about every     *)
(* table, and must close whatever fails in between.  The proposals of each *)
(* table come from RecommendRules; the two artifacts are written last.     *)
(***************************************************************************)
EXTENDS RecommendRules

CONSTANTS
  Tables,       \* the tables of the model, in the order DacFx lists them
  SchemaOf,     \* table -> schema, as _enumerate_tables compares it (lower case)
  ColumnsOf,    \* table -> its columns
  Staging,      \* the tables whose name _STAGING_NAME_RE matches
  DeclaredType, \* column -> its type in the database
  Bodies,       \* views, procedures and functions
  Requests, Usages, EngineAnswers, ProbeAnswers, Loads,
  IndexCatalogs, StatisticCatalogs, DistributionCatalogs, Skews, Distincts,
  SampleMax,    \* columns sampled per table, 3 in the code
  Cut           \* table -> slug -> what the first 120 characters of the name leave of
                \* a slug they have no room for

Contexts == {"JOIN_ON", "WHERE", "GROUP_BY", "PARTITION_BY", "PROJECTION", "HAVING"}
Columns == UNION {{ColumnsOf[t][i] : i \in DOMAIN ColumnsOf[t]} : t \in {Tables[i] : i \in DOMAIN Tables}}

Request ==
  [dacpac : BOOLEAN, connection : BOOLEAN, known : BOOLEAN, exists : BOOLEAN,
   target : Platforms \cup {Unknown}, schemas : SUBSET {SchemaOf[t] : t \in DOMAIN SchemaOf}]

\* What the walkers would find in a body, and whether its script parses at all.
Body ==
  [script : {"parses", "errors", "none"}, citations : Seq([column : Columns, context : Contexts]),
   joins : {"found", "none", "raises"}, raises : BOOLEAN]

ASSUME RecommendAssumption ==
  /\ Unknown \notin Int /\ Unknown \notin Columns /\ Unknown \notin Platforms
  /\ Tables \in Seq(DOMAIN SchemaOf)
  /\ DOMAIN CharSum = Columns
  /\ Requests \subseteq Request
  /\ Usages \subseteq [Bodies -> Body]
  /\ IsFiniteSet(Bodies)
  /\ SampleMax \in Nat
  /\ ProbeAnswers \subseteq {"fabric", "other"}
  /\ \A c \in Columns : CharSum[c] \in Nat
  /\ \A i \in DOMAIN Tables :
       LET t == Tables[i]
       IN  /\ ColumnsOf[t] \in Seq(Columns) /\ IsInjective(ColumnsOf[t])
           /\ \A rows \in IndexCatalogs[t] : \A row \in rows :
                row.columns \in Seq([column : Columns, included : BOOLEAN])

\* A column named like an equality, or like the slug of a columnstore index, would be taken
\* for one: the rules and _index_name go by the text.
ASSUME PlainColumnsAssumption == {"=", "cci"} \cap Columns = {}

-----------------------------------------------------------------------------
VARIABLES
  request, usage,  \* the command line and the dacpac's bodies: never change
  pc,
  conn,            \* "none", "open", "closed" (close() was called)
  platform,        \* "unset" until detection, or its absence, is settled
  warned,          \* warnings of the result
  at,              \* position in the model, in the tables found, or in the profiles
  tables,          \* those of the schemas asked for
  profiles,        \* one per table so far
  indexes, statistics, live,  \* read for the profile at hand
  recs,            \* table -> what it is told
  files,           \* which artifacts are under their final name
  exit

vars == <<request, usage, pc, conn, platform, warned, at, tables, profiles, indexes, statistics,
          live, recs, files, exit>>
dacpac == <<request, usage>>
catalog == <<indexes, statistics, live>>
result == <<tables, profiles, recs>>

None == "none"
NoExit == -1
NoLive == [columns |-> << >>, existing |-> Unknown]

Init ==
  /\ request \in Requests
  /\ usage \in Usages
  /\ pc = "arguments" /\ conn = None /\ platform = "unset" /\ warned = FALSE
  /\ at = 1 /\ tables = << >> /\ profiles = << >> /\ recs = << >>
  /\ indexes = {} /\ statistics = {} /\ live = NoLive
  /\ files = {} /\ exit = NoExit

-----------------------------------------------------------------------------
(* The command and the calls before the try.                               *)

ArgumentsOk ==
  /\ request.dacpac # request.connection
  /\ request.schemas # {}
  /\ request.connection => request.known
  /\ request.dacpac => request.exists /\ request.target # Unknown

End(code) == pc' = "ended" /\ exit' = code

Arguments ==
  /\ pc = "arguments"
  /\ IF ArgumentsOk THEN pc' = "compose" /\ UNCHANGED exit ELSE End(2)
  /\ UNCHANGED <<dacpac, conn, platform, warned, at, catalog, result, files>>

ComposeFails ==
  /\ pc = "compose"
  /\ End(4)
  /\ UNCHANGED <<dacpac, conn, platform, warned, at, catalog, result, files>>

Compose ==
  /\ pc = "compose"
  /\ pc' = "load"
  /\ UNCHANGED <<dacpac, conn, platform, warned, at, catalog, result, files, exit>>

\* A dacpac run takes its platform from --target; the CLI has made sure of one.
Load ==
  /\ pc = "load"
  /\ IF request.connection
     THEN pc' = "token" /\ UNCHANGED platform
     ELSE pc' = "enumerate" /\ platform' = request.target
  /\ UNCHANGED <<dacpac, conn, warned, at, catalog, result, files, exit>>

Token ==
  /\ pc = "token"
  /\ pc' = "open"
  /\ UNCHANGED <<dacpac, conn, platform, warned, at, catalog, result, files, exit>>

Open ==
  /\ pc = "open"
  /\ conn' = "open"
  /\ pc' = "detect"
  /\ UNCHANGED <<dacpac, platform, warned, at, catalog, result, files, exit>>

\* The override is for a server nobody recognises; either way there is a warning.
Settle(detected) ==
  /\ platform' = IF detected = "UNKNOWN" /\ request.target # Unknown THEN request.target ELSE detected
  /\ warned' = (detected = "UNKNOWN")
  /\ pc' = "enumerate"

\* An edition that cannot be asked for, or is not a number, is an unknown one.
Detect ==
  /\ pc = "detect"
  /\ \E answer \in EngineAnswers :
       LET detected == FromEngineEdition(answer)
       IN  IF detected \in {"SYNAPSE_SERVERLESS_POOL", "SYNAPSE_DEDICATED_POOL"}
           THEN /\ platform' = "unset" /\ pc' = detected
                /\ UNCHANGED warned
           ELSE Settle(detected)
  /\ UNCHANGED <<dacpac, conn, at, catalog, result, files, exit>>

\* Fabric answers with the edition of one of the Synapse pools.
Probe ==
  /\ pc \in {"SYNAPSE_SERVERLESS_POOL", "SYNAPSE_DEDICATED_POOL"}
  /\ \E answer \in ProbeAnswers : Settle(IF answer = "fabric" THEN "FABRIC_WAREHOUSE" ELSE pc)
  /\ UNCHANGED <<dacpac, conn, at, catalog, result, files, exit>>

\* Nothing is protected yet: what was opened stays open.  Only the probe's rows
\* can raise out of the detection, its queries have handlers.
Escapes ==
  /\ pc \in {"load", "token", "open", "SYNAPSE_SERVERLESS_POOL", "SYNAPSE_DEDICATED_POOL"}
  /\ End(1)
  /\ UNCHANGED <<dacpac, conn, platform, warned, at, catalog, result, files>>

-----------------------------------------------------------------------------
(* Profiles.                                                               *)

InSchemas(t) == SchemaOf[t] \in request.schemas

PassOverTable ==
  /\ pc = "enumerate" /\ at <= Len(Tables)
  /\ ~InSchemas(Tables[at])
  /\ at' = at + 1
  /\ UNCHANGED <<dacpac, pc, conn, platform, warned, catalog, result, files, exit>>

AddTable ==
  /\ pc = "enumerate" /\ at <= Len(Tables)
  /\ InSchemas(Tables[at])
  /\ tables' = Append(tables, Tables[at])
  /\ at' = at + 1
  /\ UNCHANGED <<dacpac, pc, conn, platform, warned, catalog, profiles, recs, files, exit>>

TablesListed ==
  /\ pc = "enumerate" /\ at > Len(Tables)
  /\ pc' = "collect" /\ at' = 1
  /\ UNCHANGED <<dacpac, conn, platform, warned, catalog, result, files, exit>>

\* Mutant of Parsed: a parse error is logged and the fragment used all the same.
ParsedWithErrors == {b \in Bodies : usage[b].script # "none"}

\* _collect_consumers: a body without a script, or one that does not parse, is
\* left out without a warning.
Parsed == {b \in Bodies : usage[b].script = "parses"}

Collect ==
  /\ pc = "collect"
  /\ pc' = "profile"
  /\ UNCHANGED <<dacpac, conn, platform, warned, at, catalog, result, files, exit>>

\* Mutant of TextOf: the citation carries the comparison it stands in.
TextOfComparison(column) == <<column, "=", column>>

\* A citation carries the text of the column reference, and of nothing else.
TextOf(column) == <<column>>
EqualityIn(text) == \E i \in DOMAIN text : text[i] = "="

Cited(b, column, context) ==
  {i \in DOMAIN usage[b].citations : usage[b].citations[i] = [column |-> column, context |-> context]}
Count(column, context) == Cardinality(UNION {{b} \X Cited(b, column, context) : b \in Parsed})

\* HAVING and the like make a body a consumer, and count for nothing else.
ColumnProfile(column) ==
  [name |-> column,
   type |-> Unknown,   \* get_columns never knows it
   join |-> Count(column, "JOIN_ON"),
   where |-> Count(column, "WHERE"),
   equality |-> IF EqualityIn(TextOf(column)) THEN Count(column, "WHERE") ELSE 0,
   group |-> Count(column, "GROUP_BY"),
   partition |-> Count(column, "PARTITION_BY"),
   projection |-> Count(column, "PROJECTION"),
   consumers |-> {b \in Parsed : \E x \in Contexts : Cited(b, column, x) # {}}]

Profile(t, load) ==
  LET columns == [i \in DOMAIN ColumnsOf[t] |-> ColumnProfile(ColumnsOf[t][i])]
  IN  [table |-> t,
       columns |-> columns,
       total |-> Cardinality({b \in Parsed : usage[b].joins = "found"
                                \/ \E i \in DOMAIN columns : b \in columns[i].consumers}),
       rows |-> load.rows, size |-> load.size,
       staging |-> t \in Staging]

\* A join finder that raises counts as one that finds nothing.
BuildProfile ==
  /\ pc = "profile" /\ at <= Len(tables)
  /\ \A b \in Parsed : ~usage[b].raises
  /\ \E load \in (IF conn = "open" THEN Loads[tables[at]] ELSE {[rows |-> Unknown, size |-> Unknown]}) :
       profiles' = Append(profiles, Profile(tables[at], load))
  /\ at' = at + 1
  /\ UNCHANGED <<dacpac, pc, conn, platform, warned, catalog, tables, recs, files, exit>>

ProfilesDone ==
  /\ pc = "profile" /\ at > Len(tables)
  /\ pc' = "indexes" /\ at' = 1
  /\ UNCHANGED <<dacpac, conn, platform, warned, catalog, result, files, exit>>

-----------------------------------------------------------------------------
(* What the table already has, and what live sampling adds.                *)

AtProfile == at <= Len(profiles)

\* sys.indexes.type; the kinds the table does not know count as nonclustered.
KindOf(type) ==
  CASE type = 1 -> "CLUSTERED" [] type = 5 -> "CLUSTERED_COLUMNSTORE"
    [] type = 6 -> "NONCLUSTERED_COLUMNSTORE" [] OTHER -> "NONCLUSTERED"

\* The rows of one index come in the order of key_ordinal; the included ones
\* are told apart by their flag.
KeyColumns(columns) ==
  LET keys[n \in 0..Len(columns)] ==
        IF n = 0 THEN << >>
        ELSE IF columns[n].included THEN keys[n - 1]
        ELSE Append(keys[n - 1], columns[n].column)
  IN  keys[Len(columns)]
IndexOf(row) == [kind |-> KindOf(row.type), keys |-> KeyColumns(row.columns)]

FetchIndexes ==
  /\ pc = "indexes" /\ AtProfile
  /\ IF conn = "open"
     THEN \E rows \in IndexCatalogs[profiles[at].table] : indexes' = {IndexOf(r) : r \in rows}
     ELSE indexes' = {}
  /\ pc' = "statistics"
  /\ UNCHANGED <<dacpac, conn, platform, warned, at, statistics, live, result, files, exit>>

\* Only user_created statistics: those an index brings with it are not read.
FetchStatistics ==
  /\ pc = "statistics"
  /\ IF conn = "open"
     THEN \E found \in StatisticCatalogs[profiles[at].table] :
            statistics' = {[columns |-> s.columns, filtered |-> s.filtered] :
                             s \in {x \in found : x.user_created}}
     ELSE statistics' = {}
  /\ pc' = "sample"
  /\ UNCHANGED <<dacpac, conn, platform, warned, at, indexes, live, result, files, exit>>

\* Mutant of Sampled: the slice stops one column short.
SampledShort(profile) ==
  {c.name : c \in {d \in Best(profile.columns, LAMBDA e : <<e.join, Cardinality(e.consumers)>>, SampleMax - 1) :
                     d.join >= 1}}

\* The columns worth a COUNT DISTINCT; ties are broken by the table's order.
Sampled(profile) ==
  {c.name : c \in {d \in Best(profile.columns, LAMBDA e : <<e.join, Cardinality(e.consumers)>>, SampleMax) :
                     d.join >= 1}}

SampleLiveMetrics ==
  /\ pc = "sample"
  /\ IF conn = "open" /\ platform = "SYNAPSE_DEDICATED_POOL"
     THEN \E skew \in Skews, existing \in DistributionCatalogs,
             distinct \in [Sampled(profiles[at]) -> Distincts] :
            live' = [columns |-> [c \in DOMAIN distinct |-> [distinct |-> distinct[c], skew |-> skew]],
                     existing |-> existing]
     ELSE live' = NoLive
  /\ pc' = "rules"
  /\ UNCHANGED <<dacpac, conn, platform, warned, at, indexes, statistics, result, files, exit>>

ApplyRules ==
  /\ pc = "rules"
  /\ recs' = [t \in DOMAIN recs \cup {profiles[at].table} |->
                IF t = profiles[at].table
                THEN RuleOutput(profiles[at], indexes, statistics, platform, live)
                ELSE recs[t]]
  /\ at' = at + 1 /\ pc' = "indexes"
  /\ UNCHANGED <<dacpac, conn, platform, warned, catalog, tables, profiles, files, exit>>

\* Inside the try: the model walk, a finder, the row count and the two catalog
\* queries may raise.  Size, skew and distinct counts turn failures into None.
Raises ==
  /\ \/ pc \in {"enumerate", "collect"}
     \/ /\ pc = "profile" /\ at <= Len(tables)
        /\ conn = "open" \/ \E b \in Parsed : usage[b].raises
     \/ pc \in {"indexes", "statistics"} /\ AtProfile /\ conn = "open"
  /\ pc' = "unwind"
  /\ UNCHANGED <<dacpac, conn, platform, warned, at, catalog, result, files, exit>>

\* Mutant of Unwind: close() at the end of the try instead of in its finally.
UnwindOpen ==
  /\ pc = "unwind"
  /\ End(1)
  /\ UNCHANGED <<dacpac, conn, platform, warned, at, catalog, result, files>>

Unwind ==
  /\ pc = "unwind"
  /\ conn' = IF conn = "open" THEN "closed" ELSE conn
  /\ End(1)
  /\ UNCHANGED <<dacpac, platform, warned, at, catalog, result, files>>

Close ==
  /\ pc = "indexes" /\ ~AtProfile
  /\ conn' = IF conn = "open" THEN "closed" ELSE conn
  /\ pc' = "sql"
  /\ UNCHANGED <<dacpac, platform, warned, at, catalog, result, files, exit>>

-----------------------------------------------------------------------------
(* Artifacts: each through a temporary file, the script first.             *)

Write ==
  /\ pc \in {"sql", "md"}
  /\ files' = files \cup {pc}
  /\ pc' = IF pc = "sql" THEN "md" ELSE "report"
  /\ UNCHANGED <<dacpac, conn, platform, warned, at, catalog, result, exit>>

\* Mutant of WriteFails: the writer logs what it could not write.
WriteFailsQuietly ==
  /\ pc \in {"sql", "md"}
  /\ End(0)
  /\ UNCHANGED <<dacpac, conn, platform, warned, at, catalog, result, files>>

WriteFails ==
  /\ pc \in {"sql", "md"}
  /\ End(1)
  /\ UNCHANGED <<dacpac, conn, platform, warned, at, catalog, result, files>>

Report ==
  /\ pc = "report"
  /\ End(0)
  /\ UNCHANGED <<dacpac, conn, platform, warned, at, catalog, result, files>>

Next ==
  \/ Arguments \/ ComposeFails \/ Compose \/ Load \/ Token \/ Open \/ Detect \/ Probe \/ Escapes
  \/ PassOverTable \/ AddTable \/ TablesListed \/ Collect \/ BuildProfile \/ ProfilesDone
  \/ FetchIndexes \/ FetchStatistics \/ SampleLiveMetrics \/ ApplyRules \/ Raises \/ Unwind \/ Close
  \/ Write \/ WriteFails \/ Report

Spec == Init /\ [][Next]_vars

-----------------------------------------------------------------------------
(* What must hold.                                                         *)

Labels ==
  {"arguments", "compose", "load", "token", "open", "detect", "SYNAPSE_SERVERLESS_POOL",
   "SYNAPSE_DEDICATED_POOL", "enumerate", "collect", "profile", "indexes", "statistics", "sample",
   "rules", "unwind", "sql", "md", "report", "ended"}

TypeOK ==
  /\ request \in Requests /\ usage \in Usages
  /\ pc \in Labels
  /\ conn \in {None, "open", "closed"}
  /\ platform \in Platforms \cup {"unset"}
  /\ warned \in BOOLEAN
  /\ at \in Nat \ {0}
  /\ Len(profiles) <= Len(tables)
  /\ \A i \in DOMAIN profiles : profiles[i].table = tables[i]
  /\ DOMAIN recs \subseteq {tables[i] : i \in DOMAIN tables}
  /\ files \subseteq {"sql", "md"}
  /\ exit \in {NoExit, 0, 1, 2, 4}

\* Once the engine is known, no run ends with its connection open, and none
\* writes while it still holds it, whichever query, finder or write failed (the
\* finally of execute).  Before that nothing is promised: see the README.
ConnectionReleased ==
  /\ pc = "ended" /\ platform # "unset" => conn # "open"
  /\ pc \in {"sql", "md", "report"} => conn # "open"
  /\ files # {} => conn # "open"

\* The state right after the rules were applied to a table: what was read for
\* it is still at hand.
Judged == pc = "indexes" /\ at > 1
JudgedTable == profiles[at - 1].table
Told == recs[JudgedTable]
ColumnsOfJudged == {ColumnsOf[JudgedTable][i] : i \in DOMAIN ColumnsOf[JudgedTable]}
CitedIn(column, context) ==
  \E b \in Bodies : /\ usage[b].script = "parses"
                    /\ \E i \in DOMAIN usage[b].citations :
                         usage[b].citations[i] = [column |-> column, context |-> context]

LedBy(column) ==
  \E idx \in indexes : /\ idx.kind \in {"CLUSTERED", "NONCLUSTERED"}
                       /\ Len(idx.keys) > 0 /\ Head(idx.keys) = column

\* Nothing is proposed on a column nobody uses in the way that justifies it: an
\* index key, a statistic or a hash column is a join key of a body that parses
\* (or, for a statistic on several, they are grouped), a CLUSTER BY column is
\* filtered on.  It ties the walkers' citations to the fold and to the rules.
EvidenceOnly ==
  Judged =>
    /\ \A idx \in Told.indexes : \A i \in DOMAIN idx.keys : CitedIn(idx.keys[i], "JOIN_ON")
    /\ \A d \in Told.distribution : d.kind = "HASH" => CitedIn(d.column, "JOIN_ON")
    /\ \A cb \in Told.cluster_by : \A c \in cb.columns : CitedIn(c, "WHERE")
    /\ \A s \in Told.statistics :
         IF Cardinality(s.columns) = 1
         THEN \A c \in s.columns : CitedIn(c, "JOIN_ON")
         ELSE \A c \in s.columns : CitedIn(c, "GROUP_BY") \/ CitedIn(c, "PARTITION_BY")

\* No join key is lost between the walkers and the report: it has a statistic or
\* is told to get one, and, where indexes exist, an index that leads with it or
\* a table stored by column.
JoinKeysServed ==
  Judged =>
    \A c \in {x \in ColumnsOfJudged : CitedIn(x, "JOIN_ON")} :
      /\ {c} \in Covered(statistics) \cup {s.columns : s \in Told.statistics}
      /\ \/ IsStatsOnly(platform)
         \/ LedBy(c)
         \/ \E idx \in Told.indexes : idx.keys = <<c>> \/ idx.kind = "CLUSTERED_COLUMNSTORE"

\* _index_name: the kind is not part of it, and a name too long is cut at its end, where the
\* columns are.
Slug(idx) == IF idx.keys = << >> THEN <<"cci">> ELSE idx.keys
IsCut(t, idx) == Slug(idx) \in DOMAIN Cut[t]
IndexName(t, idx) == IF IsCut(t, idx) THEN Cut[t][Slug(idx)] ELSE Slug(idx)

\* What the rules propose for one table goes together, though each rule looks at the catalog
\* and none at what another proposed: two proposed indexes have one name only if the name
\* of one of them was cut; at most one of them is clustered; none is led by a column that an
\* index of the table leads with, none is a columnstore of a kind the table has, and no
\* statistic is on columns that have one.  It does not say that the script runs: a
\* clustered columnstore is proposed whatever clustered index the table has, a
\* nonclustered one without its columns (recommend_index_stats.py:543), cut names do collide,
\* and a name that the catalog holds is not looked at.
ProposalsAgree ==
  Judged =>
    /\ \A x, y \in Told.indexes :
         IndexName(JudgedTable, x) = IndexName(JudgedTable, y) =>
           x = y \/ IsCut(JudgedTable, x) \/ IsCut(JudgedTable, y)
    /\ Cardinality({x \in Told.indexes : x.kind \in {"CLUSTERED", "CLUSTERED_COLUMNSTORE"}}) <= 1
    /\ \A x \in Told.indexes :
         IF x.keys = << >> THEN \A y \in indexes : y.kind # x.kind ELSE ~LedBy(x.keys[1])
    /\ {s.columns : s \in Told.statistics} \cap Covered(statistics) = {}

\* The hash column was measured, though the sampler and the rules rank columns
\* in two different orders: they disagree only when more columns than are
\* sampled tie for the first place.
HashWasSampled ==
  Judged /\ conn = "open" =>
    \A d \in {x \in Told.distribution : x.kind = "HASH"} :
      \/ d.column \in DOMAIN live.columns
      \/ Cardinality({i \in DOMAIN profiles[at - 1].columns :
           LET c == profiles[at - 1].columns[i]
               h == ColumnProfile(d.column)
           IN  c.join = h.join /\ Cardinality(c.consumers) = Cardinality(h.consumers)}) > SampleMax

\* A distribution that comes without queries to check it first rests on numbers
\* of this very table; without a connection only a staging table gets one.
UncheckedIsMeasured ==
  Judged =>
    \A d \in Told.distribution : ~d.queries =>
      CASE d.kind = "HASH" -> /\ conn = "open"
                              /\ live.columns[d.column].distinct # Unknown
                              /\ live.columns[d.column].distinct >= 10000
                              /\ live.columns[d.column].skew <= HealthySkew
        [] d.kind = "REPLICATE" -> conn = "open"
        [] OTHER -> /\ JudgedTable \in Staging
                    /\ \A c \in ColumnsOfJudged : ~CitedIn(c, "JOIN_ON")

\* Whatever distribution is proposed was measured on the table, or says how to measure it.
DistributionIsMeasured == HashWasSampled /\ UncheckedIsMeasured

\* The exit code tells what is on disk: 0 after both artifacts, with a verdict
\* for every table of the schemas in them; a run that failed left at most the
\* script, and one refused before the use case never connected.
ExitCodeTruthful ==
  /\ files # {} => DOMAIN recs = {Tables[i] : i \in {j \in DOMAIN Tables : InSchemas(Tables[j])}}
  /\ pc = "ended" =>
       /\ exit = 0 <=> files = {"sql", "md"}
       /\ exit # 0 => "md" \notin files
       /\ exit \in {2, 4} => conn = None /\ files = {}

\* CLUSTER BY refuses some data types, and a column of one is left out, as
\* test_fabric_cluster_by_excludes_unsupported_types has it.
ExcludedTypesStayOut ==
  Judged => \A cb \in Told.cluster_by : \A c \in cb.columns : DeclaredType[c] \notin ExcludedTypes

=============================================================================
