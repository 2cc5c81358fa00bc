-------------------------- MODULE RecommendProofs ---------------------------
(***************************************************************************)
(* recommend-index-stats, for any model, engine, catalog and failing call: *)
(* the connection is closed on every path once the engine is known, the    *)
(* exit code tells what is on disk, and what a table is told rests on what *)
(* the bodies do with it and on what was read of it.                       *)
(***************************************************************************)
EXTENDS Recommend, FiniteSetTheorems, SequencesExt, WellFoundedInduction, TLAPS

-----------------------------------------------------------------------------
(* Loops and sequences.                                                    *)

\* A set of numbers that is not empty has a least one.
LEMMA LeastOf ==
  ASSUME NEW S \in SUBSET Nat, S # {}
  PROVE  \E n \in S : \A m \in S : n <= m
<1>1. PICK n \in S : \A m \in S : <<m, n>> \notin OpToRel(<, Nat)
  BY NatLessThanWellFounded, WFMin
<1>2. \A m \in S : m \in Nat /\ n \in Nat
  OBVIOUS
<1>3. \A m \in S : ~ (m < n)
  BY <1>1, <1>2 DEF OpToRel
<1> QED
  BY <1>2, <1>3

IsLoop(h, S, base, N, F) ==
  h \in [0..N -> S] /\ h[0] = base /\ \A n \in 1..N : h[n] = F[n][h[n - 1]]

\* A loop of N steps over values of S has a run.
LEMMA LoopRuns ==
  ASSUME NEW S, NEW base \in S, NEW N \in Nat, NEW F \in [1..N -> [S -> S]]
  PROVE  \E h : IsLoop(h, S, base, N, F)
<1> DEFINE Runs(k) == {h \in [0..k -> S] : h[0] = base /\ \A n \in 1..k : h[n] = F[n][h[n - 1]]}
           bad == {k \in 0..N : Runs(k) = {}}
<1>1. SUFFICES ASSUME bad # {} PROVE FALSE
  BY DEF IsLoop
<1>2. PICK k \in bad : \A m \in bad : k <= m
  <2>1. bad \in SUBSET Nat
    OBVIOUS
  <2> HIDE DEF bad
  <2> QED
    BY <1>1, <2>1, LeastOf
<1>3. k \in 0..N /\ Runs(k) = {}
  OBVIOUS
<1>4. k # 0
  <2>1. [i \in 0..0 |-> base] \in Runs(0)
    OBVIOUS
  <2> QED
    BY <1>3, <2>1
<1>5. k - 1 \in 0..N /\ k \in 1..N /\ ~ (k <= k - 1)
  BY <1>3, <1>4
<1>6. PICK g : g \in Runs(k - 1)
  <2> HIDE DEF Runs
  <2> QED
    BY <1>2, <1>5
<1> DEFINE h == [i \in 0..k |-> IF i = k THEN F[k][g[k - 1]] ELSE g[i]]
<1>7. g \in [0..(k - 1) -> S] /\ g[0] = base /\ \A n \in 1..(k - 1) : g[n] = F[n][g[n - 1]]
  BY <1>6
<1>8. F[k][g[k - 1]] \in S
  BY <1>5, <1>7
<1>9. h \in [0..k -> S] /\ h[0] = base
  BY <1>4, <1>5, <1>7, <1>8
<1>10. ASSUME NEW n \in 1..k PROVE h[n] = F[n][h[n - 1]]
  <2>1. CASE n = k
    BY <1>5, <2>1
  <2>2. CASE n # k
    <3>1. n \in 1..(k - 1) /\ h[n] = g[n] /\ h[n - 1] = g[n - 1]
      BY <1>5, <2>2
    <3> QED
      BY <1>7, <3>1
  <2> QED
    BY <2>1, <2>2
<1>11. h \in Runs(k)
  BY <1>9, <1>10
<1> QED
  BY <1>3, <1>11

(* sequences is all that counts.                                           *)

IsSequence(s) == \E S : s \in Seq(S)

-----------------------------------------------------------------------------

Elements(s) == {s[i] : i \in 1..Len(s)}

\* Those of the first n tables that are in one of the schemas.
Chosen(schemas, n) == {Tables[i] : i \in {j \in 1..n : SchemaOf[Tables[j]] \in schemas}}

BeforeConnection == {"arguments", "compose", "load", "token", "open"}
Detecting == {"detect", "SYNAPSE_SERVERLESS_POOL", "SYNAPSE_DEDICATED_POOL"}
Judging == {"indexes", "statistics", "sample", "rules"}
Reporting == {"sql", "md", "report"}

\* Where the connection is open, which artifacts there are and what the exit code
\* is, by the place the process is at.
EndInv ==
  /\ request \in Requests /\ usage \in Usages
  /\ pc \in Labels
  /\ conn \in {None, "open", "closed"}
  /\ platform \in Platforms \cup {"unset"}
  /\ warned \in BOOLEAN
  /\ pc \in {"compose", "load"} => ArgumentsOk
  /\ pc \in BeforeConnection => conn = None
  /\ pc \in BeforeConnection \cup Detecting => platform = "unset"
  /\ pc \in Reporting => conn # "open"
  /\ pc \notin {"md", "report", "ended"} => files = {}
  /\ pc = "md" => files = {"sql"}
  /\ pc = "report" => files = {"sql", "md"}
  /\ IF pc = "ended"
     THEN /\ platform # "unset" => conn # "open"
          /\ exit \in {0, 1, 2, 4}
          /\ exit = 0 => files = {"sql", "md"}
          /\ exit # 0 => files \subseteq {"sql"}
          /\ exit \in {2, 4} => conn = None /\ files = {}
          /\ files # {} => conn # "open"
     ELSE exit = NoExit

\* What tables, profiles and verdicts have to do with each other.
ShapeInv ==
  /\ at \in Nat \ {0}
  /\ IsSequence(tables) /\ IsSequence(profiles)
  /\ Len(profiles) <= Len(tables)
  /\ \A i \in 1..Len(profiles) : profiles[i].table = tables[i]
  /\ DOMAIN recs \subseteq Elements(tables)

\* How far each of them has got, by the place the process is at.
StageInv ==
  /\ pc \in BeforeConnection \cup Detecting =>
       at = 1 /\ tables = << >> /\ profiles = << >> /\ recs = << >>
  /\ pc = "enumerate" =>
       /\ at <= Len(Tables) + 1
       /\ Elements(tables) = Chosen(request.schemas, at - 1)
       /\ profiles = << >> /\ recs = << >>
  /\ pc \in {"collect", "profile"} \cup Judging => Elements(tables) = Chosen(request.schemas, Len(Tables))
  /\ pc = "collect" => at = 1 /\ profiles = << >> /\ recs = << >>
  /\ pc = "profile" => Len(profiles) = at - 1 /\ at <= Len(tables) + 1 /\ recs = << >>
  /\ pc \in Judging =>
       /\ Len(profiles) = Len(tables)
       /\ at <= Len(tables) + 1
       /\ DOMAIN recs = {tables[i] : i \in 1..(at - 1)}
  /\ pc \in Judging \ {"indexes"} => at <= Len(profiles)
  /\ pc \in Reporting \/ files # {} => DOMAIN recs = Chosen(request.schemas, Len(Tables))

ProgressInv == ShapeInv /\ StageInv
RunInv == EndInv /\ ProgressInv

-----------------------------------------------------------------------------
\* What Append does, for a sequence of whatever there is.
LEMMA GrowFacts ==
  ASSUME NEW s, IsSequence(s), NEW e
  PROVE  /\ IsSequence(Append(s, e))
         /\ Len(s) \in Nat
         /\ Len(Append(s, e)) = Len(s) + 1
         /\ \A i \in 1..Len(s) : Append(s, e)[i] = s[i]
         /\ Append(s, e)[Len(s) + 1] = e
         /\ Elements(Append(s, e)) = Elements(s) \cup {e}
<1>1. PICK S : s \in Seq(S)
  BY DEF IsSequence
<1>2. s \in Seq(S \cup {e}) /\ e \in S \cup {e}
  BY <1>1
<1>3. Append(s, e) \in Seq(S \cup {e})
  BY <1>2
<1>4. Len(Append(s, e)) = Len(s) + 1 /\ Len(s) \in Nat
  BY <1>2
<1>5. \A i \in 1..Len(s) : Append(s, e)[i] = s[i]
  BY <1>2
<1>6. Append(s, e)[Len(s) + 1] = e
  BY <1>2
<1>7. Elements(Append(s, e)) = Elements(s) \cup {e}
  BY <1>4, <1>5, <1>6 DEF Elements
<1> QED
  BY <1>3, <1>4, <1>5, <1>6, <1>7 DEF IsSequence

\* The empty sequence, as the runs start with.
LEMMA EmptyFacts ==
  /\ IsSequence(<< >>) /\ Len(<< >>) = 0 /\ Elements(<< >>) = {} /\ DOMAIN << >> = {}
<1>1. << >> \in Seq({})
  OBVIOUS
<1>2. Len(<< >>) = 0 /\ DOMAIN << >> = {}
  OBVIOUS
<1> QED
  BY <1>1, <1>2 DEF IsSequence, Elements

LEMMA InitHolds == Init => RunInv
<1>1. Init => EndInv
  BY RecommendAssumption
     DEF Init, EndInv, BeforeConnection, Detecting, Reporting, Labels, None, NoExit
<1>2. Init => ProgressInv
  BY EmptyFacts
     DEF Init, ProgressInv, ShapeInv, StageInv, BeforeConnection, Detecting, Judging, Reporting
<1> QED
  BY <1>1, <1>2 DEF RunInv

\* Every step keeps the promises about the connection, the artifacts and the exit code.
LEMMA EndKept ==
  ASSUME EndInv, [Next]_vars
  PROVE  EndInv'
<1> USE RecommendAssumption DEF EndInv, BeforeConnection, Detecting, Reporting, Labels, None, NoExit
<1>type. request.target \in Platforms \cup {Unknown} /\ request.dacpac \in BOOLEAN /\ request.connection \in BOOLEAN
  BY DEF Request
<1>0. ASSUME UNCHANGED vars PROVE EndInv'
  BY <1>0 DEF vars, ArgumentsOk
<1>1. ASSUME Arguments PROVE EndInv'
  BY <1>1 DEF Arguments, End, ArgumentsOk, dacpac, catalog, result
<1>2. ASSUME ComposeFails PROVE EndInv'
  BY <1>2 DEF ComposeFails, End, dacpac, catalog, result
<1>3. ASSUME Compose PROVE EndInv'
  BY <1>3 DEF Compose, ArgumentsOk, dacpac, catalog, result
<1>4. ASSUME Load PROVE EndInv'
<2>1. ~request.connection => request.target \in Platforms
  BY <1>4, <1>type DEF Load, ArgumentsOk
<2> QED
  BY <1>4, <2>1 DEF Load, dacpac, catalog, result
<1>5. ASSUME Token PROVE EndInv'
  BY <1>5 DEF Token, dacpac, catalog, result
<1>6. ASSUME Open PROVE EndInv'
  BY <1>6 DEF Open, dacpac, catalog, result
<1>7. ASSUME Detect PROVE EndInv'
<2>1. PICK answer \in EngineAnswers :
        LET detected == FromEngineEdition(answer)
        IN  IF detected \in {"SYNAPSE_SERVERLESS_POOL", "SYNAPSE_DEDICATED_POOL"}
            THEN /\ platform' = "unset" /\ pc' = detected
                 /\ UNCHANGED warned
            ELSE Settle(detected)
  BY <1>7 DEF Detect
<2> DEFINE detected == FromEngineEdition(answer)
<2>2. detected \in Platforms
  BY DEF FromEngineEdition, Platforms
<2>3. pc = "detect" /\ UNCHANGED <<dacpac, conn, at, catalog, result, files, exit>>
  BY <1>7 DEF Detect
<2>4. CASE detected \in {"SYNAPSE_SERVERLESS_POOL", "SYNAPSE_DEDICATED_POOL"}
  BY <2>1, <2>3, <2>4 DEF dacpac
<2>5. CASE detected \notin {"SYNAPSE_SERVERLESS_POOL", "SYNAPSE_DEDICATED_POOL"}
  <3>1. platform' \in Platforms /\ warned' \in BOOLEAN /\ pc' = "enumerate"
    BY <2>1, <2>2, <2>5, <1>type DEF Settle
  <3> QED
    BY <2>3, <3>1 DEF dacpac
<2> QED
  BY <2>4, <2>5
<1>8. ASSUME Probe PROVE EndInv'
  BY <1>8 DEF Probe, Settle, Platforms, dacpac, catalog, result
<1>9. ASSUME Escapes PROVE EndInv'
  BY <1>9 DEF Escapes, End, dacpac, catalog, result
<1>10. ASSUME PassOverTable PROVE EndInv'
  BY <1>10 DEF PassOverTable, dacpac, catalog, result
<1>11. ASSUME AddTable PROVE EndInv'
  BY <1>11 DEF AddTable, dacpac, catalog, result
<1>12. ASSUME TablesListed PROVE EndInv'
  BY <1>12 DEF TablesListed, dacpac, catalog, result
<1>13. ASSUME Collect PROVE EndInv'
  BY <1>13 DEF Collect, dacpac, catalog, result
<1>14. ASSUME BuildProfile PROVE EndInv'
  BY <1>14 DEF BuildProfile, dacpac, catalog, result
<1>15. ASSUME ProfilesDone PROVE EndInv'
  BY <1>15 DEF ProfilesDone, dacpac, catalog, result
<1>16. ASSUME FetchIndexes PROVE EndInv'
  BY <1>16 DEF FetchIndexes, dacpac, catalog, result
<1>17. ASSUME FetchStatistics PROVE EndInv'
  BY <1>17 DEF FetchStatistics, dacpac, catalog, result
<1>18. ASSUME SampleLiveMetrics PROVE EndInv'
  BY <1>18 DEF SampleLiveMetrics, dacpac, catalog, result
<1>19. ASSUME ApplyRules PROVE EndInv'
  BY <1>19 DEF ApplyRules, dacpac, catalog, result
<1>20. ASSUME Raises PROVE EndInv'
  BY <1>20 DEF Raises, dacpac, catalog, result
<1>21. ASSUME Unwind PROVE EndInv'
  BY <1>21 DEF Unwind, End, dacpac, catalog, result
<1>22. ASSUME Close PROVE EndInv'
  BY <1>22 DEF Close, dacpac, catalog, result
<1>23. ASSUME Write PROVE EndInv'
  BY <1>23 DEF Write, dacpac, catalog, result
<1>24. ASSUME WriteFails PROVE EndInv'
  BY <1>24 DEF WriteFails, End, dacpac, catalog, result
<1>25. ASSUME Report PROVE EndInv'
  BY <1>25 DEF Report, End, dacpac, catalog, result
<1> QED
  BY <1>0, <1>1, <1>2, <1>3, <1>4, <1>5, <1>6, <1>7, <1>8, <1>9, <1>10, <1>11, <1>12, <1>13, <1>14,
       <1>15, <1>16, <1>17, <1>18, <1>19, <1>20, <1>21, <1>22, <1>23, <1>24, <1>25 DEF Next

\* The walk over the tables starts with none chosen and goes on one at a time.
LEMMA ChosenFacts ==
  ASSUME NEW schemas, NEW n \in Nat
  PROVE  /\ Chosen(schemas, 0) = {}
         /\ n > 0 => Chosen(schemas, n) = IF SchemaOf[Tables[n]] \in schemas
                                         THEN Chosen(schemas, n - 1) \cup {Tables[n]}
                                         ELSE Chosen(schemas, n - 1)
<1>1. 1..0 = {}
  OBVIOUS
<1>2. ASSUME n > 0 PROVE 1..n = (1..(n - 1)) \cup {n}
  BY <1>2
<1>3. Chosen(schemas, 0) = {}
  BY ONLY <1>1 DEF Chosen
<1> QED
  BY <1>2, <1>3, Zenon DEF Chosen

\* Every step keeps the promises about tables, profiles and verdicts.
LEMMA ProgressKept ==
  ASSUME RunInv, [Next]_vars
  PROVE  ProgressInv'
<1> USE DEF BeforeConnection, Detecting, Judging, Reporting
<1>len. Len(Tables) \in Nat /\ Tables \in Seq(DOMAIN SchemaOf)
  BY RecommendAssumption
<1>0. ASSUME UNCHANGED vars PROVE ProgressInv'
<2>1. /\ request' = request /\ tables' = tables /\ profiles' = profiles /\ recs' = recs
      /\ pc' = pc /\ at' = at /\ files' = files
  BY <1>0 DEF vars
<2> QED
  BY <2>1 DEF RunInv, ProgressInv, ShapeInv, StageInv
<1>1. ASSUME Arguments PROVE ProgressInv'
<2>1. request' = request /\ tables' = tables /\ profiles' = profiles /\ recs' = recs
  BY <1>1 DEF Arguments, End, dacpac, result
<2> QED
  BY <1>1, <1>len, <2>1 DEF RunInv, EndInv, ProgressInv, ShapeInv, StageInv, Arguments, End, catalog
<1>2. ASSUME ComposeFails PROVE ProgressInv'
<2>1. request' = request /\ tables' = tables /\ profiles' = profiles /\ recs' = recs
  BY <1>2 DEF ComposeFails, End, dacpac, result
<2> QED
  BY <1>2, <1>len, <2>1 DEF RunInv, EndInv, ProgressInv, ShapeInv, StageInv, ComposeFails, End, catalog
<1>3. ASSUME Compose PROVE ProgressInv'
<2>1. request' = request /\ tables' = tables /\ profiles' = profiles /\ recs' = recs
  BY <1>3 DEF Compose, dacpac, result
<2> QED
  BY <1>3, <1>len, <2>1 DEF RunInv, EndInv, ProgressInv, ShapeInv, StageInv, Compose, catalog
<1>4. ASSUME Load PROVE ProgressInv'
<2>1. request' = request /\ tables' = tables /\ profiles' = profiles /\ recs' = recs
  BY <1>4 DEF Load, dacpac, result
<2>2. /\ at' = at /\ at = 1 /\ files' = {} /\ tables = << >> /\ profiles = << >> /\ recs = << >>
      /\ pc' \in BeforeConnection \cup Detecting \cup {"enumerate"}
  BY <1>4 DEF Load, RunInv, EndInv, ProgressInv, ShapeInv, StageInv, catalog
<2>3. Chosen(request'.schemas, at' - 1) = {}
  <3>1. at' - 1 = 0
    BY <2>2
  <3> QED
    BY <3>1, ChosenFacts
<2>4. /\ tables' = << >> /\ profiles' = << >> /\ recs' = << >> /\ at' = 1 /\ at' <= Len(Tables) + 1
      /\ pc' \notin {"collect", "profile"} \cup Judging \cup Reporting
  BY <1>len, <2>1, <2>2
<2>5. /\ IsSequence(tables') /\ IsSequence(profiles') /\ Len(tables') = 0 /\ Len(profiles') = 0
      /\ Elements(tables') = {} /\ DOMAIN recs' = {}
  BY ONLY <2>4, EmptyFacts
<2>6. ShapeInv'
  BY <2>4, <2>5 DEF ShapeInv
<2>7. StageInv'
  BY <2>2, <2>3, <2>4, <2>5 DEF StageInv
<2> QED
  BY <2>6, <2>7 DEF ProgressInv
<1>5. ASSUME Token PROVE ProgressInv'
<2>1. request' = request /\ tables' = tables /\ profiles' = profiles /\ recs' = recs
  BY <1>5 DEF Token, dacpac, result
<2> QED
  BY <1>5, <1>len, <2>1 DEF RunInv, EndInv, ProgressInv, ShapeInv, StageInv, Token, catalog
<1>6. ASSUME Open PROVE ProgressInv'
<2>1. request' = request /\ tables' = tables /\ profiles' = profiles /\ recs' = recs
  BY <1>6 DEF Open, dacpac, result
<2> QED
  BY <1>6, <1>len, <2>1 DEF RunInv, EndInv, ProgressInv, ShapeInv, StageInv, Open, catalog
<1>7. ASSUME Detect PROVE ProgressInv'
<2>1. request' = request /\ tables' = tables /\ profiles' = profiles /\ recs' = recs
  BY <1>7 DEF Detect, Settle, dacpac, result
<2>2. /\ at' = at /\ at = 1 /\ files' = {} /\ tables = << >> /\ profiles = << >> /\ recs = << >>
      /\ pc' \in BeforeConnection \cup Detecting \cup {"enumerate"}
  BY <1>7 DEF Detect, Settle, FromEngineEdition, RunInv, EndInv, ProgressInv, ShapeInv, StageInv,
       catalog
<2>3. Chosen(request'.schemas, at' - 1) = {}
  <3>1. at' - 1 = 0
    BY <2>2
  <3> QED
    BY <3>1, ChosenFacts
<2>4. /\ tables' = << >> /\ profiles' = << >> /\ recs' = << >> /\ at' = 1 /\ at' <= Len(Tables) + 1
      /\ pc' \notin {"collect", "profile"} \cup Judging \cup Reporting
  BY <1>len, <2>1, <2>2
<2>5. /\ IsSequence(tables') /\ IsSequence(profiles') /\ Len(tables') = 0 /\ Len(profiles') = 0
      /\ Elements(tables') = {} /\ DOMAIN recs' = {}
  BY ONLY <2>4, EmptyFacts
<2>6. ShapeInv'
  BY <2>4, <2>5 DEF ShapeInv
<2>7. StageInv'
  BY <2>2, <2>3, <2>4, <2>5 DEF StageInv
<2> QED
  BY <2>6, <2>7 DEF ProgressInv
<1>8. ASSUME Probe PROVE ProgressInv'
<2>1. request' = request /\ tables' = tables /\ profiles' = profiles /\ recs' = recs
  BY <1>8 DEF Probe, Settle, dacpac, result
<2>2. /\ at' = at /\ at = 1 /\ files' = {} /\ tables = << >> /\ profiles = << >> /\ recs = << >>
      /\ pc' \in BeforeConnection \cup Detecting \cup {"enumerate"}
  BY <1>8 DEF Probe, Settle, FromEngineEdition, RunInv, EndInv, ProgressInv, ShapeInv, StageInv, catalog
<2>3. Chosen(request'.schemas, at' - 1) = {}
  <3>1. at' - 1 = 0
    BY <2>2
  <3> QED
    BY <3>1, ChosenFacts
<2>4. /\ tables' = << >> /\ profiles' = << >> /\ recs' = << >> /\ at' = 1 /\ at' <= Len(Tables) + 1
      /\ pc' \notin {"collect", "profile"} \cup Judging \cup Reporting
  BY <1>len, <2>1, <2>2
<2>5. /\ IsSequence(tables') /\ IsSequence(profiles') /\ Len(tables') = 0 /\ Len(profiles') = 0
      /\ Elements(tables') = {} /\ DOMAIN recs' = {}
  BY ONLY <2>4, EmptyFacts
<2>6. ShapeInv'
  BY <2>4, <2>5 DEF ShapeInv
<2>7. StageInv'
  BY <2>2, <2>3, <2>4, <2>5 DEF StageInv
<2> QED
  BY <2>6, <2>7 DEF ProgressInv
<1>9. ASSUME Escapes PROVE ProgressInv'
<2>1. request' = request /\ tables' = tables /\ profiles' = profiles /\ recs' = recs
  BY <1>9 DEF Escapes, End, dacpac, result
<2> QED
  BY <1>9, <1>len, <2>1 DEF RunInv, EndInv, ProgressInv, ShapeInv, StageInv, Escapes, End, catalog
<1>10. ASSUME Collect PROVE ProgressInv'
<2>1. request' = request /\ tables' = tables /\ profiles' = profiles /\ recs' = recs
  BY <1>10 DEF Collect, dacpac, result
<2> QED
  BY <1>10, <1>len, <2>1 DEF RunInv, EndInv, ProgressInv, ShapeInv, StageInv, Collect, catalog
<1>11. ASSUME FetchIndexes PROVE ProgressInv'
<2>1. request' = request /\ tables' = tables /\ profiles' = profiles /\ recs' = recs
  BY <1>11 DEF FetchIndexes, dacpac, result
<2> QED
  BY <1>11, <1>len, <2>1 DEF RunInv, EndInv, ProgressInv, ShapeInv, StageInv, FetchIndexes, AtProfile,
       catalog
<1>12. ASSUME FetchStatistics PROVE ProgressInv'
<2>1. request' = request /\ tables' = tables /\ profiles' = profiles /\ recs' = recs
  BY <1>12 DEF FetchStatistics, dacpac, result
<2> QED
  BY <1>12, <1>len, <2>1 DEF RunInv, EndInv, ProgressInv, ShapeInv, StageInv, FetchStatistics, catalog
<1>13. ASSUME SampleLiveMetrics PROVE ProgressInv'
<2>1. request' = request /\ tables' = tables /\ profiles' = profiles /\ recs' = recs
  BY <1>13 DEF SampleLiveMetrics, dacpac, result
<2> QED
  BY <1>13, <1>len, <2>1 DEF RunInv, EndInv, ProgressInv, ShapeInv, StageInv, SampleLiveMetrics, catalog
<1>14. ASSUME Raises PROVE ProgressInv'
<2>1. request' = request /\ tables' = tables /\ profiles' = profiles /\ recs' = recs
  BY <1>14 DEF Raises, dacpac, result
<2> QED
  BY <1>14, <1>len, <2>1 DEF RunInv, EndInv, ProgressInv, ShapeInv, StageInv, Raises, catalog
<1>15. ASSUME Unwind PROVE ProgressInv'
<2>1. request' = request /\ tables' = tables /\ profiles' = profiles /\ recs' = recs
  BY <1>15 DEF Unwind, End, dacpac, result
<2> QED
  BY <1>15, <1>len, <2>1 DEF RunInv, EndInv, ProgressInv, ShapeInv, StageInv, Unwind, End, catalog
<1>16. ASSUME Close PROVE ProgressInv'
<2>1. request' = request /\ tables' = tables /\ profiles' = profiles /\ recs' = recs
  BY <1>16 DEF Close, dacpac, result
<2>2. /\ pc = "indexes" /\ pc' = "sql" /\ at' = at /\ files' = files /\ files = {}
      /\ Len(profiles) = Len(tables) /\ Len(tables) \in Nat /\ at = Len(tables) + 1
  BY <1>16 DEF Close, AtProfile, RunInv, EndInv, ProgressInv, ShapeInv, StageInv, IsSequence, catalog
<2>3. DOMAIN recs = Elements(tables)
  BY <2>2 DEF RunInv, ProgressInv, ShapeInv, StageInv, Elements
<2> QED
  BY <2>1, <2>2, <2>3 DEF RunInv, ProgressInv, ShapeInv, StageInv
<1>17. ASSUME Write PROVE ProgressInv'
<2>1. request' = request /\ tables' = tables /\ profiles' = profiles /\ recs' = recs
  BY <1>17 DEF Write, dacpac, result
<2> QED
  BY <1>17, <1>len, <2>1 DEF RunInv, EndInv, ProgressInv, ShapeInv, StageInv, Write, catalog
<1>18. ASSUME WriteFails PROVE ProgressInv'
<2>1. request' = request /\ tables' = tables /\ profiles' = profiles /\ recs' = recs
  BY <1>18 DEF WriteFails, End, dacpac, result
<2> QED
  BY <1>18, <1>len, <2>1 DEF RunInv, EndInv, ProgressInv, ShapeInv, StageInv, WriteFails, End, catalog
<1>19. ASSUME Report PROVE ProgressInv'
<2>1. request' = request /\ tables' = tables /\ profiles' = profiles /\ recs' = recs
  BY <1>19 DEF Report, End, dacpac, result
<2> QED
  BY <1>19, <1>len, <2>1 DEF RunInv, EndInv, ProgressInv, ShapeInv, StageInv, Report, End, catalog
<1>20. ASSUME PassOverTable PROVE ProgressInv'
  <2>1. /\ request' = request /\ tables' = tables /\ profiles' = profiles /\ recs' = recs
        /\ pc' = pc /\ pc = "enumerate" /\ at' = at + 1 /\ files' = files /\ at \in 1..Len(Tables)
    BY <1>20, <1>len DEF PassOverTable, RunInv, ProgressInv, ShapeInv, StageInv, dacpac, result
  <2>2. Chosen(request.schemas, at) = Chosen(request.schemas, at - 1)
    BY <1>20, <2>1, ChosenFacts DEF PassOverTable, InSchemas
  <2>3. (at + 1) - 1 = at /\ files = {}
    BY <2>1 DEF RunInv, EndInv
  <2> QED
    BY <1>len, <2>1, <2>2, <2>3 DEF RunInv, ProgressInv, ShapeInv, StageInv
<1>21. ASSUME AddTable PROVE ProgressInv'
  <2>1. IsSequence(tables) /\ pc = "enumerate" /\ at \in 1..Len(Tables)
    BY <1>21, <1>len DEF AddTable, RunInv, ProgressInv, ShapeInv, StageInv
  <2>2. tables' = Append(tables, Tables[at])
    BY <1>21 DEF AddTable
  <2>3. IsSequence(tables') /\ Elements(tables') = Elements(tables) \cup {Tables[at]}
    BY ONLY <2>1, <2>2, GrowFacts
  <2>4. Chosen(request.schemas, at) = Chosen(request.schemas, at - 1) \cup {Tables[at]}
    BY <1>21, <2>1, ChosenFacts DEF AddTable, InSchemas
  <2>5. /\ at' = at + 1 /\ profiles' = << >> /\ recs' = << >> /\ files' = {}
        /\ pc' = "enumerate" /\ request' = request
    BY <1>21, <2>1 DEF AddTable, RunInv, EndInv, ProgressInv, ShapeInv, StageInv, dacpac, catalog
  <2>6. (at + 1) - 1 = at
    BY <2>1
  <2>7. Elements(tables) = Chosen(request.schemas, at - 1)
    BY <2>1 DEF RunInv, ProgressInv, ShapeInv, StageInv
  <2>8. Len(tables') \in Nat
    BY ONLY <2>3 DEF IsSequence
  <2> QED
    BY <1>len, <2>1, <2>3, <2>4, <2>5, <2>6, <2>7, <2>8, EmptyFacts DEF ProgressInv, ShapeInv, StageInv
<1>22. ASSUME TablesListed PROVE ProgressInv'
  <2>1. at = Len(Tables) + 1
    BY <1>22, <1>len DEF TablesListed, RunInv, ProgressInv, ShapeInv, StageInv
  <2>2. /\ request' = request /\ tables' = tables /\ profiles' = profiles /\ recs' = recs
        /\ pc' = "collect" /\ pc = "enumerate" /\ at' = 1 /\ files' = files /\ files = {}
    BY <1>22 DEF TablesListed, RunInv, EndInv, dacpac, result
  <2>3. (Len(Tables) + 1) - 1 = Len(Tables)
    BY <1>len
  <2> QED
    BY <1>len, <2>1, <2>2, <2>3 DEF RunInv, ProgressInv, ShapeInv, StageInv
<1>23. ASSUME BuildProfile PROVE ProgressInv'
  <2>1. /\ pc = "profile" /\ at \in 1..Len(tables) /\ Len(profiles) = at - 1 /\ Len(tables) \in Nat
        /\ IsSequence(tables) /\ IsSequence(profiles)
    BY <1>23 DEF BuildProfile, RunInv, ProgressInv, ShapeInv, StageInv, IsSequence
  <2>2. PICK load : profiles' = Append(profiles, Profile(tables[at], load))
    BY <1>23 DEF BuildProfile
  <2>3. Profile(tables[at], load).table = tables[at]
    BY DEF Profile
  <2>4. /\ IsSequence(profiles') /\ Len(profiles') = at
        /\ \A i \in 1..(at - 1) : profiles'[i] = profiles[i]
        /\ profiles'[at] = Profile(tables[at], load)
    <3> DEFINE p == Profile(tables[at], load)
    <3> HIDE DEF p
    <3>1. profiles' = Append(profiles, p)
      BY <2>2 DEF p
    <3>2. /\ IsSequence(profiles') /\ Len(profiles') = Len(profiles) + 1
          /\ \A i \in 1..Len(profiles) : profiles'[i] = profiles[i]
          /\ profiles'[Len(profiles) + 1] = p
      BY ONLY <2>1, <3>1, GrowFacts
    <3> QED
      BY <2>1, <3>2 DEF p
  <2>5. \A i \in 1..Len(profiles') : profiles'[i].table = tables[i]
    BY <2>1, <2>3, <2>4 DEF RunInv, ProgressInv, ShapeInv, StageInv
  <2>6. /\ at' = at + 1 /\ pc' = "profile" /\ tables' = tables /\ recs' = << >> /\ files' = {}
        /\ request' = request
    BY <1>23, <2>1 DEF BuildProfile, RunInv, EndInv, ProgressInv, ShapeInv, StageInv, dacpac, catalog
  <2> QED
    BY <2>1, <2>4, <2>5, <2>6, EmptyFacts DEF RunInv, ProgressInv, ShapeInv, StageInv
<1>24. ASSUME ProfilesDone PROVE ProgressInv'
  <2>1. /\ pc = "profile" /\ pc' = "indexes" /\ at' = 1 /\ files' = {} /\ recs = << >>
        /\ request' = request /\ tables' = tables /\ profiles' = profiles /\ recs' = << >>
    BY <1>24 DEF ProfilesDone, RunInv, EndInv, ProgressInv, ShapeInv, StageInv, dacpac, result
  <2>2. Len(profiles) = Len(tables) /\ Len(tables) \in Nat
    BY <1>24, <2>1 DEF ProfilesDone, RunInv, ProgressInv, ShapeInv, StageInv, IsSequence
  <2>3. {tables[i] : i \in 1..(1 - 1)} = {}
    OBVIOUS
  <2> QED
    BY <1>len, <2>1, <2>2, <2>3, EmptyFacts DEF RunInv, ProgressInv, ShapeInv, StageInv
<1>25. ASSUME ApplyRules PROVE ProgressInv'
  <2>1. /\ pc = "rules" /\ at \in 1..Len(profiles) /\ Len(profiles) = Len(tables) /\ Len(tables) \in Nat
        /\ profiles[at].table = tables[at]
    BY <1>25 DEF ApplyRules, RunInv, ProgressInv, ShapeInv, StageInv, IsSequence
  <2>2. DOMAIN recs' = DOMAIN recs \cup {tables[at]}
    BY <1>25, <2>1 DEF ApplyRules
  <2>3. /\ at' = at + 1 /\ pc' = "indexes" /\ files' = {} /\ request' = request
        /\ tables' = tables /\ profiles' = profiles
    BY <1>25, <2>1 DEF ApplyRules, RunInv, EndInv, dacpac
  <2>4. DOMAIN recs' = {tables[i] : i \in 1..at}
    BY <2>1, <2>2 DEF RunInv, ProgressInv, ShapeInv, StageInv
  <2>5. {tables[i] : i \in 1..at} \subseteq Elements(tables)
    BY <2>1 DEF Elements
  <2>6. ShapeInv'
    BY <2>1, <2>3, <2>4, <2>5 DEF RunInv, ProgressInv, ShapeInv
  <2>7. StageInv'
    BY <2>1, <2>3, <2>4, <2>5 DEF RunInv, ProgressInv, StageInv
  <2> QED
    BY <2>6, <2>7 DEF ProgressInv
<1> QED
  BY <1>0, <1>1, <1>2, <1>3, <1>4, <1>5, <1>6, <1>7, <1>8, <1>9, <1>10, <1>11, <1>12, <1>13, <1>14,
       <1>15, <1>16, <1>17, <1>18, <1>19, <1>20, <1>21, <1>22, <1>23, <1>24, <1>25 DEF Next

-----------------------------------------------------------------------------
\* The inductive invariant holds in every state of every run.
LEMMA RunInvariant == Spec => []RunInv
<1>1. RunInv /\ [Next]_vars => RunInv'
  BY EndKept, ProgressKept DEF RunInv
<1> QED
  BY InitHolds, <1>1, PTL DEF Spec

\* Whatever the model, the engine, the catalog and the failing call: every
\* variable keeps its type, one profile per table is built, and no table has a
\* verdict that was not listed.
THEOREM TypeCorrect == Spec => []TypeOK
<1>1. RunInv => TypeOK
  <2> SUFFICES ASSUME RunInv PROVE TypeOK
    OBVIOUS
  <2>1. DOMAIN tables = 1..Len(tables) /\ DOMAIN profiles = 1..Len(profiles)
    BY DEF RunInv, ProgressInv, ShapeInv, IsSequence
  <2>2. /\ files \subseteq {"sql", "md"}
        /\ exit \in {NoExit, 0, 1, 2, 4}
    BY DEF RunInv, EndInv, NoExit
  <2>3. DOMAIN recs \subseteq {tables[i] : i \in DOMAIN tables}
    BY <2>1 DEF RunInv, ProgressInv, ShapeInv, Elements
  <2> QED
    BY <2>1, <2>2, <2>3 DEF TypeOK, RunInv, EndInv, ProgressInv, ShapeInv
<1> QED
  BY RunInvariant, <1>1, PTL

\* Once the engine is known the connection is closed whichever call failed, and
\* nothing is written while it is open.
THEOREM ConnectionAlwaysReleased == Spec => []ConnectionReleased
<1>1. RunInv => ConnectionReleased
  BY DEF RunInv, EndInv, ConnectionReleased, Reporting
<1> QED
  BY RunInvariant, <1>1, PTL

\* Exit 0 means both artifacts, with a verdict for each table of the schemas
\* asked for and for no other; the other codes mean at most the script, and a
\* refused command has neither connected nor written.
THEOREM ExitCodeAlwaysTruthful == Spec => []ExitCodeTruthful
<1>1. RunInv => ExitCodeTruthful
  <2> SUFFICES ASSUME RunInv PROVE ExitCodeTruthful
    OBVIOUS
  <2>1. {Tables[i] : i \in {j \in DOMAIN Tables : InSchemas(Tables[j])}} = Chosen(request.schemas, Len(Tables))
    BY RecommendAssumption DEF Chosen, InSchemas
  <2> QED
    BY <2>1 DEF RunInv, EndInv, ProgressInv, StageInv, ExitCodeTruthful
<1> QED
  BY RunInvariant, <1>1, PTL

-----------------------------------------------------------------------------
(* Counts of citations, and the order of the columns.                      *)

\* A count is a number, and one that is not zero has a citation behind it.
LEMMA CountFacts ==
  ASSUME usage \in Usages, NEW column, NEW context
  PROVE  /\ Count(column, context) \in Nat
         /\ Count(column, context) # 0 <=> CitedIn(column, context)
<1> DEFINE Places(b) == {b} \X Cited(b, column, context)
           all == UNION {Places(b) : b \in Parsed}
<1>1. ASSUME NEW b \in Bodies PROVE IsFiniteSet(Places(b))
  <2>1. usage[b].citations \in Seq([column : Columns, context : Contexts])
    BY RecommendAssumption DEF Body
  <2>2. PICK n \in Nat : DOMAIN usage[b].citations = 1..n
    BY <2>1
  <2>3. IsFiniteSet(1..n) /\ Cited(b, column, context) \in SUBSET (1..n)
    BY <2>2, FS_Interval DEF Cited
  <2>4. IsFiniteSet(Cited(b, column, context)) /\ IsFiniteSet({b})
    BY <2>3, FS_Subset, FS_Singleton
  <2> QED
    BY <2>4, FS_Product
<1>2. IsFiniteSet({Places(b) : b \in Parsed})
  <2>1. IsFiniteSet(Parsed) /\ Parsed \subseteq Bodies
    BY RecommendAssumption, FS_Subset DEF Parsed
  <2> DEFINE places == [b \in Parsed |-> Places(b)]
             images == {Places(b) : b \in Parsed}
  <2>2. places \in Surjection(Parsed, images)
    BY DEF Surjection
  <2> HIDE DEF places, images
  <2>3. IsFiniteSet(images)
    BY <2>1, <2>2, FS_Surjection
  <2> QED
    BY <2>3 DEF images
<1>3. IsFiniteSet(all)
  <2>1. \A T \in {Places(b) : b \in Parsed} : IsFiniteSet(T)
    BY <1>1 DEF Parsed
  <2> QED
    BY <1>2, <2>1, FS_UNION
<1>4. Count(column, context) = Cardinality(all)
  BY DEF Count
<1>5. all # {} <=> CitedIn(column, context)
  <2>1. ASSUME NEW b \in Parsed, NEW i \in Cited(b, column, context) PROVE all # {} /\ CitedIn(column, context)
    <3>1. <<b, i>> \in all
      OBVIOUS
    <3>2. CitedIn(column, context)
      BY DEF CitedIn, Parsed, Cited
    <3> QED
      BY <3>1, <3>2
  <2>2. ASSUME CitedIn(column, context) PROVE \E b \in Parsed : \E i \in Cited(b, column, context) : TRUE
    BY <2>2 DEF CitedIn, Parsed, Cited
  <2>3. ASSUME all # {} PROVE \E b \in Parsed : \E i \in Cited(b, column, context) : TRUE
    BY <2>3
  <2> QED
    BY <2>1, <2>2, <2>3
<1> HIDE DEF all
<1> QED
  BY <1>3, <1>4, <1>5, FS_EmptySet, FS_CardinalityType

\* The order of Python's tuples, for the two lengths the rules use.
LEMMA PairOrder ==
  ASSUME NEW a \in Int, NEW b \in Int, NEW c \in Int, NEW d \in Int
  PROVE  Exceeds(<<a, b>>, <<c, d>>) <=> a > c \/ (a = c /\ b > d)
<1>1. Exceeds(<<a, b>>, <<c, d>>) <=>
        \/ a > c /\ \A m \in 1..(1 - 1) : <<a, b>>[m] = <<c, d>>[m]
        \/ b > d /\ \A m \in 1..(2 - 1) : <<a, b>>[m] = <<c, d>>[m]
  BY DEF Exceeds
<1> QED
  BY <1>1

\* The same for three numbers.
LEMMA TripleOrder ==
  ASSUME NEW a \in Int, NEW b \in Int, NEW c \in Int, NEW d \in Int, NEW e \in Int, NEW f \in Int
  PROVE  Exceeds(<<a, b, e>>, <<c, d, f>>) <=> a > c \/ (a = c /\ b > d) \/ (a = c /\ b = d /\ e > f)
<1>1. Exceeds(<<a, b, e>>, <<c, d, f>>) <=>
        \/ a > c /\ \A m \in 1..(1 - 1) : <<a, b, e>>[m] = <<c, d, f>>[m]
        \/ b > d /\ \A m \in 1..(2 - 1) : <<a, b, e>>[m] = <<c, d, f>>[m]
        \/ e > f /\ \A m \in 1..(3 - 1) : <<a, b, e>>[m] = <<c, d, f>>[m]
  BY DEF Exceeds
<1> QED
  BY <1>1

-----------------------------------------------------------------------------
(* Profiles.                                                               *)

\* A profile of the table, with any measurements.
IsProfile(p, t) ==
  /\ p.table = t
  /\ p.columns = [i \in DOMAIN ColumnsOf[t] |-> ColumnProfile(ColumnsOf[t][i])]
  /\ p.staging = (t \in Staging)

ModelTables == {Tables[i] : i \in DOMAIN Tables}

LEMMA ProfileFacts ==
  ASSUME usage \in Usages, NEW t \in ModelTables, NEW p, IsProfile(p, t)
  PROVE  /\ DOMAIN p.columns = 1..Len(ColumnsOf[t]) /\ Len(ColumnsOf[t]) \in Nat
         /\ IsFiniteSet(DOMAIN p.columns)
         /\ \A i \in DOMAIN p.columns :
              LET c == p.columns[i]
              IN  /\ c = ColumnProfile(ColumnsOf[t][i])
                  /\ c.name = ColumnsOf[t][i] /\ c.name \in Columns
                  /\ c.join = Count(c.name, "JOIN_ON") /\ c.join \in Nat
                  /\ c.where = Count(c.name, "WHERE") /\ c.where \in Nat
                  /\ c.equality = 0
                  /\ c.group = Count(c.name, "GROUP_BY") /\ c.group \in Nat
                  /\ c.partition = Count(c.name, "PARTITION_BY") /\ c.partition \in Nat
                  /\ c.projection \in Nat
                  /\ Cardinality(c.consumers) \in Nat
                  /\ CharSum[c.name] \in Nat
         /\ \A i, j \in DOMAIN p.columns : p.columns[i].name = p.columns[j].name => i = j
<1>1. ColumnsOf[t] \in Seq(Columns) /\ IsInjective(ColumnsOf[t])
  BY RecommendAssumption DEF ModelTables
<1>2. DOMAIN ColumnsOf[t] = 1..Len(ColumnsOf[t]) /\ Len(ColumnsOf[t]) \in Nat
  BY <1>1
<1>3. DOMAIN p.columns = 1..Len(ColumnsOf[t])
  BY <1>2 DEF IsProfile
<1>4. \A i \in DOMAIN p.columns : p.columns[i] = ColumnProfile(ColumnsOf[t][i]) /\ ColumnsOf[t][i] \in Columns
  BY <1>1, <1>2, <1>3 DEF IsProfile
<1>5. ASSUME NEW c \in Columns
      PROVE  LET f == ColumnProfile(c)
             IN  /\ f.name = c
                 /\ f.join = Count(c, "JOIN_ON") /\ f.join \in Nat
                 /\ f.where = Count(c, "WHERE") /\ f.where \in Nat
                 /\ f.equality = 0
                 /\ f.group = Count(c, "GROUP_BY") /\ f.group \in Nat
                 /\ f.partition = Count(c, "PARTITION_BY") /\ f.partition \in Nat
                 /\ f.projection \in Nat
                 /\ Cardinality(f.consumers) \in Nat
                 /\ CharSum[c] \in Nat
  <2>1. ~ EqualityIn(TextOf(c))
    BY PlainColumnsAssumption DEF EqualityIn, TextOf
  <2>2. IsFiniteSet({b \in Parsed : \E x \in Contexts : Cited(b, c, x) # {}})
    BY RecommendAssumption, FS_Subset DEF Parsed
  <2>3. Cardinality(ColumnProfile(c).consumers) \in Nat
    BY <2>2, FS_CardinalityType DEF ColumnProfile
  <2>4. \A x : Count(c, x) \in Nat
    BY CountFacts
  <2>5. CharSum[c] \in Nat
    BY RecommendAssumption
  <2> QED
    BY <2>1, <2>3, <2>4, <2>5 DEF ColumnProfile
<1>6. IsFiniteSet(DOMAIN p.columns)
  BY <1>2, <1>3, FS_Interval
<1>7. \A i, j \in DOMAIN p.columns : ColumnsOf[t][i] = ColumnsOf[t][j] => i = j
  BY <1>1, <1>2, <1>3 DEF IsInjective
<1>8. ASSUME NEW i \in DOMAIN p.columns
      PROVE  /\ ColumnsOf[t][i] \in Columns /\ p.columns[i] = ColumnProfile(ColumnsOf[t][i])
             /\ ColumnProfile(ColumnsOf[t][i]).name = ColumnsOf[t][i]
  BY <1>4, <1>5
<1>9. \A i, j \in DOMAIN p.columns : p.columns[i].name = p.columns[j].name => i = j
  BY <1>7, <1>8
<1> QED
  BY <1>2, <1>3, <1>5, <1>6, <1>8, <1>9

-----------------------------------------------------------------------------
(* The rules on one profile.                                               *)

\* The keys of the indexes read are columns.
KeysTyped(existing) == \A idx \in existing : idx.keys \in Seq(Columns)

\* The invariant and the rules mean the same by an index that leads with a column.
LEMMA LedByCovers ==
  ASSUME KeysTyped(indexes), NEW c
  PROVE  LedBy(c) <=> CoversLeading(indexes, c)
<1>1. \A idx \in indexes : (Len(idx.keys) > 0 /\ Head(idx.keys) = c) <=> (idx.keys # << >> /\ idx.keys[1] = c)
  <2> SUFFICES ASSUME NEW idx \in indexes
               PROVE  (Len(idx.keys) > 0 /\ Head(idx.keys) = c) <=> (idx.keys # << >> /\ idx.keys[1] = c)
    OBVIOUS
  <2>1. PICK s \in Seq(Columns) : s = idx.keys
    BY DEF KeysTyped
  <2>2. (Len(s) > 0 /\ Head(s) = c) <=> (s # << >> /\ s[1] = c)
    BY <2>1
  <2> QED
    BY <2>1, <2>2
<1> QED
  BY <1>1 DEF LedBy, CoversLeading

\* A proposed index is keyed by one join key that no index leads with, or it is a
\* columnstore where there is none of that kind and nothing else is proposed of that kind.
LEMMA SqlServerIndexFacts ==
  ASSUME usage \in Usages, NEW t \in ModelTables, NEW p, IsProfile(p, t), NEW existing, NEW pf
  PROVE  LET told == SqlServerIndexes(p, existing, pf)
         IN  /\ \A x \in told :
                  \/ /\ x = Index("NONCLUSTERED_COLUMNSTORE", << >>, {}, "HIGH")
                     /\ ~ Has(existing, {"NONCLUSTERED_COLUMNSTORE"})
                  \/ \E i \in DOMAIN p.columns :
                       /\ x.keys = <<p.columns[i].name>> /\ x.kind = "NONCLUSTERED"
                       /\ p.columns[i].join >= 1
                       /\ ~ CoversLeading(existing, p.columns[i].name)
             /\ \A x, y \in told : x.keys = y.keys => x = y
             /\ \A i \in DOMAIN p.columns :
                  p.columns[i].join >= 1 /\ ~ CoversLeading(existing, p.columns[i].name)
                  => \E x \in told : x.keys = <<p.columns[i].name>>
<1> DEFINE projected == {c.name : c \in Best(p.columns, LAMBDA e : <<e.projection, Alphabetical[e.name]>>, IncludeMax)}
           Key(c) == Index("NONCLUSTERED", <<c>>,
                           IF SupportsIncludedColumns(pf) THEN projected \ {c} ELSE {}, "MEDIUM")
           wanted == {d \in NamesOf(p.columns) :
                        /\ \E i \in DOMAIN p.columns : p.columns[i].name = d /\ p.columns[i].join >= 1
                        /\ ~ CoversLeading(existing, d)}
           store == SqlServerColumnstore(p, existing, pf)
<1>1. SqlServerJoinKeys(p, existing, pf) = {Key(c) : c \in wanted}
  BY DEF SqlServerJoinKeys
<1>2. SqlServerClustered(p, existing) = {}
  <2>1. \A i \in DOMAIN p.columns : p.columns[i].equality = 0
    BY ProfileFacts
  <2> DEFINE first == Best(p.columns, LAMBDA e : <<e.equality, e.where>>, 1)
  <2>2. first \subseteq {p.columns[i] : i \in DOMAIN p.columns}
    BY DEF Best, Ahead
  <2>3. SqlServerClustered(p, existing) =
          {Index("CLUSTERED", <<c.name>>, {}, "HIGH") :
             c \in {d \in first : /\ ~ Has(existing, {"CLUSTERED"})
                                  /\ d.equality >= 3
                                  /\ p.rows # Unknown
                                  /\ p.rows >= Million
                                  /\ d.equality > d.join}}
    BY DEF SqlServerClustered, Best, Ahead
  <2> HIDE DEF first
  <2>4. \A d \in first : ~ (d.equality >= 3)
    BY <2>1, <2>2
  <2> QED
    BY <2>3, <2>4
<1>3. /\ store \subseteq {Index("NONCLUSTERED_COLUMNSTORE", << >>, {}, "HIGH")}
      /\ store # {} => ~ Has(existing, {"NONCLUSTERED_COLUMNSTORE"})
  BY DEF SqlServerColumnstore, Has
<1> HIDE DEF projected, store
<1>4. SqlServerIndexes(p, existing, pf) = store \cup {Key(c) : c \in wanted}
  BY <1>1, <1>2 DEF SqlServerIndexes, store
<1>5. \A c \in wanted : Key(c).keys = <<c>> /\ Key(c).kind = "NONCLUSTERED"
  BY DEF Index
<1>6. \A x \in store : x.keys = << >>
  BY <1>3 DEF Index
<1>7. \A c, d : <<c>> = <<d>> => c = d
  OBVIOUS
<1>8. \A c : <<c>> # << >>
  OBVIOUS
<1>9. \A i \in DOMAIN p.columns : p.columns[i].join >= 1 /\ ~ CoversLeading(existing, p.columns[i].name)
          => p.columns[i].name \in wanted
  BY DEF NamesOf
<1>10. \A c \in wanted : \E i \in DOMAIN p.columns : /\ c = p.columns[i].name /\ p.columns[i].join >= 1
                                                     /\ ~ CoversLeading(existing, p.columns[i].name)
  OBVIOUS
<1> HIDE DEF Key, wanted
<1>11. \A x, y \in store \cup {Key(c) : c \in wanted} : x.keys = y.keys => x = y
  <2>1. \A c, d \in wanted : Key(c).keys = Key(d).keys => c = d
    BY <1>5, <1>7
  <2>2. \A x, y \in store : x = y
    BY <1>3
  <2>3. \A x \in store : \A c \in wanted : x.keys # Key(c).keys
    BY <1>5, <1>6, <1>8
  <2> QED
    BY <2>1, <2>2, <2>3
<1> QED
  BY <1>3, <1>4, <1>5, <1>9, <1>10, <1>11

\* On a dedicated pool it is a clustered columnstore alone, or one index for each join key
\* that no index leads with.
LEMMA SynapseIndexFacts ==
  ASSUME usage \in Usages, NEW t \in ModelTables, NEW p, IsProfile(p, t), NEW existing
  PROVE  LET told == SynapseIndexes(p, existing)
         IN  \/ /\ told = {Index("CLUSTERED_COLUMNSTORE", << >>, {}, "HIGH")}
                /\ ~ Has(existing, {"CLUSTERED_COLUMNSTORE"})
             \/ /\ \A x \in told : \E i \in DOMAIN p.columns :
                     /\ x = Index("NONCLUSTERED", <<p.columns[i].name>>, {}, "MEDIUM")
                     /\ p.columns[i].join >= 1
                     /\ ~ CoversLeading(existing, p.columns[i].name)
                /\ \A i \in DOMAIN p.columns :
                     p.columns[i].join >= 1 /\ ~ CoversLeading(existing, p.columns[i].name)
                     => \E x \in told : x.keys = <<p.columns[i].name>>
<1>1. \A i \in DOMAIN p.columns : p.columns[i].equality = 0
  BY ProfileFacts
<1> DEFINE keys == {Index("NONCLUSTERED", <<p.columns[i].name>>, {}, "MEDIUM") :
              i \in {j \in DOMAIN p.columns :
                       /\ p.columns[j].join >= 1 \/ p.columns[j].equality >= 2
                       /\ ~ CoversLeading(existing, p.columns[j].name)}}
<1>2. \/ /\ SynapseIndexes(p, existing) = {Index("CLUSTERED_COLUMNSTORE", << >>, {}, "HIGH")}
         /\ ~ Has(existing, {"CLUSTERED_COLUMNSTORE"})
      \/ SynapseIndexes(p, existing) = keys
  BY DEF SynapseIndexes
<1>3. \A x \in keys : \E i \in DOMAIN p.columns :
        /\ x = Index("NONCLUSTERED", <<p.columns[i].name>>, {}, "MEDIUM")
        /\ p.columns[i].join >= 1
        /\ ~ CoversLeading(existing, p.columns[i].name)
  BY <1>1
<1>4. \A i \in DOMAIN p.columns :
        p.columns[i].join >= 1 /\ ~ CoversLeading(existing, p.columns[i].name)
        => \E x \in keys : x.keys = <<p.columns[i].name>>
  <2>1. \A i \in DOMAIN p.columns : Index("NONCLUSTERED", <<p.columns[i].name>>, {}, "MEDIUM").keys = <<p.columns[i].name>>
    BY DEF Index
  <2> QED
    BY <2>1
<1> HIDE DEF keys
<1> QED
  BY <1>2, <1>3, <1>4

\* A part of a finite set.
LEMMA PartFacts ==
  ASSUME NEW S, IsFiniteSet(S), NEW T, T \subseteq S
  PROVE  IsFiniteSet(T) /\ Cardinality(T) \in Nat /\ Cardinality(S) \in Nat /\ Cardinality(T) <= Cardinality(S)
<1>1. T \in SUBSET S
  OBVIOUS
<1> QED
  BY <1>1, FS_Subset, FS_CardinalityType

\* A statistic on one column is on a join key, one on several on columns grouped by;
\* none is on columns that have one, and every join key has one or gets one.
LEMMA StatisticFacts ==
  ASSUME usage \in Usages, NEW t \in ModelTables, NEW p, IsProfile(p, t), NEW existing, NEW pf
  PROVE  LET told == Statistics(p, existing, pf)
         IN  /\ \A s \in told :
                  /\ s.columns \notin Covered(existing)
                  /\ \/ \E i \in DOMAIN p.columns : s.columns = {p.columns[i].name} /\ p.columns[i].join >= 1
                     \/ /\ Cardinality(s.columns) # 1
                        /\ \A c \in s.columns : \E i \in DOMAIN p.columns :
                             c = p.columns[i].name /\ (p.columns[i].group >= 1 \/ p.columns[i].partition >= 1)
             /\ \A i \in DOMAIN p.columns :
                  p.columns[i].join >= 1 /\ {p.columns[i].name} \notin Covered(existing)
                  => {p.columns[i].name} \in {s.columns : s \in told}
<1> DEFINE missing == {i \in DOMAIN p.columns : {p.columns[i].name} \notin Covered(existing)}
           grouped == {i \in DOMAIN p.columns : p.columns[i].group + p.columns[i].partition >= 2}
           groupedNames == {p.columns[i].name : i \in grouped}
           Single(i, impact) == [columns |-> {p.columns[i].name}, kind |-> "SINGLE_COLUMN", impact |-> impact]
           keyed == {Single(i, IF IsMpp(pf) THEN "HIGH" ELSE "MEDIUM") : i \in {j \in missing : p.columns[j].join >= 1}}
           filtered == {Single(i, "MEDIUM") :
                          i \in {j \in missing : p.columns[j].join = 0 /\ p.columns[j].equality >= 2}}
           several == {[columns |-> cs, kind |-> "MULTI_COLUMN", impact |-> "MEDIUM"] :
                         cs \in {d \in {groupedNames} : Cardinality(grouped) >= 2 /\ d \notin Covered(existing)}}
<1>1. Statistics(p, existing, pf) = keyed \cup filtered \cup several
  BY DEF Statistics
<1>2. filtered = {}
  <2>1. \A j \in DOMAIN p.columns : ~ (p.columns[j].equality >= 2)
    BY ProfileFacts
  <2> QED
    BY <2>1
<1>3. /\ \A s \in keyed : /\ s.columns \notin Covered(existing)
                          /\ \E i \in DOMAIN p.columns : s.columns = {p.columns[i].name} /\ p.columns[i].join >= 1
      /\ \A i \in DOMAIN p.columns :
           p.columns[i].join >= 1 /\ {p.columns[i].name} \notin Covered(existing)
           => \E s \in keyed : s.columns = {p.columns[i].name}
  <2> DEFINE impact == IF IsMpp(pf) THEN "HIGH" ELSE "MEDIUM"
             wanted == {j \in missing : p.columns[j].join >= 1}
  <2>1. keyed = {Single(i, impact) : i \in wanted}
    OBVIOUS
  <2>2. \A i, x : Single(i, x).columns = {p.columns[i].name}
    OBVIOUS
  <2>3. \A i : i \in wanted <=> /\ i \in DOMAIN p.columns /\ p.columns[i].join >= 1
                               /\ {p.columns[i].name} \notin Covered(existing)
    OBVIOUS
  <2> HIDE DEF keyed, Single, wanted, impact
  <2> QED
    BY <2>1, <2>2, <2>3
<1>5. \A s \in several : s.columns = groupedNames /\ Cardinality(grouped) >= 2 /\ s.columns \notin Covered(existing)
  <2> HIDE DEF groupedNames, grouped
  <2> QED
    OBVIOUS
<1>6. ASSUME Cardinality(grouped) >= 2 PROVE Cardinality(groupedNames) # 1
  <2>1. IsFiniteSet(grouped)
    <3>1. IsFiniteSet(DOMAIN p.columns)
      BY ProfileFacts
    <3>2. grouped \subseteq DOMAIN p.columns
      OBVIOUS
    <3> HIDE DEF grouped
    <3> QED
      BY <3>1, <3>2, PartFacts
  <2>2. PICK i \in grouped : \E j \in grouped : j # i
    <3> HIDE DEF grouped
    <3>1. grouped # {} /\ \A x : grouped # {x}
      BY <1>6, <2>1, FS_EmptySet, FS_Singleton
    <3> QED
      BY <3>1
  <2>3. PICK j \in grouped : j # i
    BY <2>2
  <2>4. p.columns[i].name # p.columns[j].name
    <3>1. \A k, l \in DOMAIN p.columns : p.columns[k].name = p.columns[l].name => k = l
      BY ProfileFacts
    <3> QED
      BY <2>2, <2>3, <3>1
  <2>5. IsFiniteSet(groupedNames)
    <3> DEFINE names == [k \in grouped |-> p.columns[k].name]
    <3>1. names \in Surjection(grouped, groupedNames)
      BY DEF Surjection
    <3> HIDE DEF names, grouped, groupedNames
    <3> QED
      BY <2>1, <3>1, FS_Surjection
  <2>6. \A x : groupedNames # {x}
    BY <2>2, <2>3, <2>4
  <2> HIDE DEF groupedNames
  <2> QED
    BY <2>5, <2>6, FS_Singleton
<1>7. \A c \in groupedNames : \E i \in DOMAIN p.columns :
        c = p.columns[i].name /\ (p.columns[i].group >= 1 \/ p.columns[i].partition >= 1)
  <2>1. \A i \in DOMAIN p.columns : p.columns[i].group \in Nat /\ p.columns[i].partition \in Nat
    BY ProfileFacts
  <2>2. \A i \in grouped : p.columns[i].group >= 1 \/ p.columns[i].partition >= 1
    BY <2>1
  <2> QED
    BY <2>2
<1> HIDE DEF keyed, several, groupedNames, filtered
<1>8. Statistics(p, existing, pf) = keyed \cup several
  BY <1>1, <1>2
<1>9. \A s \in Statistics(p, existing, pf) :
        /\ s.columns \notin Covered(existing)
        /\ \/ \E i \in DOMAIN p.columns : s.columns = {p.columns[i].name} /\ p.columns[i].join >= 1
           \/ /\ Cardinality(s.columns) # 1
              /\ \A c \in s.columns : \E i \in DOMAIN p.columns :
                   c = p.columns[i].name /\ (p.columns[i].group >= 1 \/ p.columns[i].partition >= 1)
  <2>1. ASSUME NEW s \in several
        PROVE  /\ s.columns = groupedNames /\ s.columns \notin Covered(existing)
               /\ Cardinality(groupedNames) # 1
    BY <1>5, <1>6
  <2> QED
    BY <1>3, <1>7, <1>8, <2>1
<1>10. \A i \in DOMAIN p.columns :
        p.columns[i].join >= 1 /\ {p.columns[i].name} \notin Covered(existing)
        => {p.columns[i].name} \in {s.columns : s \in Statistics(p, existing, pf)}
  BY <1>3, <1>8
<1> QED
  BY <1>9, <1>10

\* The column with most join uses has some, and no other has more.
LEMMA TopJoinFacts ==
  ASSUME usage \in Usages, NEW t \in ModelTables, NEW p, IsProfile(p, t), NEW top \in TopJoin(p)
  PROVE  \E i \in DOMAIN p.columns :
           /\ top = p.columns[i] /\ top.join >= 1
           /\ \A j \in DOMAIN p.columns :
                /\ p.columns[j].join <= top.join
                /\ p.columns[j].join = top.join => Cardinality(p.columns[j].consumers) <= Cardinality(top.consumers)
<1> DEFINE Key(e) == <<e.join, Cardinality(e.consumers), -CharSum[e.name]>>
           Before(i) ==
             {j \in DOMAIN p.columns : \/ Exceeds(Key(p.columns[j]), Key(p.columns[i]))
                                       \/ Key(p.columns[j]) = Key(p.columns[i]) /\ j < i}
           first == {p.columns[i] : i \in {j \in DOMAIN p.columns : Cardinality(Before(j)) < 1}}
<1>0. TopJoin(p) = {c \in first : c.join >= 1}
  BY DEF TopJoin, Best, Ahead
<1>1. PICK i \in DOMAIN p.columns : top = p.columns[i] /\ top.join >= 1 /\ Cardinality(Before(i)) < 1
  <2> HIDE DEF Before
  <2>1. \A c \in first : \E i \in DOMAIN p.columns : c = p.columns[i] /\ Cardinality(Before(i)) < 1
    OBVIOUS
  <2> HIDE DEF first
  <2> QED
    BY <1>0, <2>1
<1>2. Before(i) = {}
  <2>1. IsFiniteSet(DOMAIN p.columns)
    BY ProfileFacts
  <2>0. Before(i) \subseteq DOMAIN p.columns
    OBVIOUS
  <2> HIDE DEF Before
  <2>2. IsFiniteSet(Before(i)) /\ Cardinality(Before(i)) \in Nat
    BY <2>0, <2>1, PartFacts
  <2> HIDE DEF Before
  <2> QED
    BY <1>1, <2>2, FS_EmptySet
<1>3. ASSUME NEW j \in DOMAIN p.columns
      PROVE  /\ p.columns[j].join <= top.join
             /\ p.columns[j].join = top.join => Cardinality(p.columns[j].consumers) <= Cardinality(top.consumers)
  <2>1. ~ Exceeds(Key(p.columns[j]), Key(p.columns[i]))
    <3> HIDE DEF Key
    <3> QED
      BY <1>2
  <2> DEFINE a == p.columns[j].join
             b == Cardinality(p.columns[j].consumers)
             s == CharSum[p.columns[j].name]
             c == p.columns[i].join
             d == Cardinality(p.columns[i].consumers)
             u == CharSum[p.columns[i].name]
             ms == -s
             mu == -u
  <2>2. a \in Nat /\ b \in Nat /\ s \in Nat /\ c \in Nat /\ d \in Nat /\ u \in Nat
    BY ProfileFacts
  <2>3. ~ Exceeds(<<a, b, ms>>, <<c, d, mu>>)
    BY <2>1
  <2>4. c = top.join /\ d = Cardinality(top.consumers)
    BY <1>1
  <2> HIDE DEF a, b, s, c, d, u
  <2>5. a \in Int /\ b \in Int /\ ms \in Int /\ c \in Int /\ d \in Int /\ mu \in Int
    BY <2>2 DEF ms, mu
  <2> HIDE DEF ms, mu
  <2>6. ~ (a > c \/ (a = c /\ b > d))
    BY <2>3, <2>5, TripleOrder
  <2>7. a <= c /\ (a = c => b <= d)
    BY <2>2, <2>6
  <2> QED
    BY <2>4, <2>7 DEF a, b
<1> QED
  BY <1>1, <1>3

\* A hash column that was not sampled ties for the first place with as many as were.
LEMMA TopJoinSampled ==
  ASSUME usage \in Usages, NEW t \in ModelTables, NEW p, IsProfile(p, t), NEW top \in TopJoin(p),
         top.name \notin Sampled(p)
  PROVE  Cardinality({i \in DOMAIN p.columns :
           p.columns[i].join = top.join /\ Cardinality(p.columns[i].consumers) = Cardinality(top.consumers)}) > SampleMax
<1> DEFINE Key(e) == <<e.join, Cardinality(e.consumers)>>
           Before(i) ==
             {j \in DOMAIN p.columns : \/ Exceeds(Key(p.columns[j]), Key(p.columns[i]))
                                       \/ Key(p.columns[j]) = Key(p.columns[i]) /\ j < i}
           ties == {i \in DOMAIN p.columns :
                      p.columns[i].join = top.join /\ Cardinality(p.columns[i].consumers) = Cardinality(top.consumers)}
<1>1. PICK i \in DOMAIN p.columns :
        /\ top = p.columns[i] /\ top.join >= 1
        /\ \A j \in DOMAIN p.columns :
             /\ p.columns[j].join <= top.join
             /\ p.columns[j].join = top.join => Cardinality(p.columns[j].consumers) <= Cardinality(top.consumers)
  BY TopJoinFacts
<1>2. ~ (Cardinality(Before(i)) < SampleMax)
  <2> DEFINE best == {p.columns[k] : k \in {j \in DOMAIN p.columns : Cardinality(Before(j)) < SampleMax}}
  <2>1. Sampled(p) = {c.name : c \in {d \in best : d.join >= 1}}
    BY DEF Sampled, Best, Ahead
  <2> HIDE DEF Before
  <2>2. Cardinality(Before(i)) < SampleMax => top \in best
    BY <1>1
  <2> HIDE DEF best
  <2> QED
    BY <1>1, <2>1, <2>2
<1>3. \A k \in DOMAIN p.columns : p.columns[k].join \in Int /\ Cardinality(p.columns[k].consumers) \in Int
  BY ProfileFacts
<1>4. Before(i) \subseteq ties \ {i}
  <2> SUFFICES ASSUME NEW j \in DOMAIN p.columns,
                      Exceeds(Key(p.columns[j]), Key(p.columns[i])) \/ (Key(p.columns[j]) = Key(p.columns[i]) /\ j < i)
               PROVE  j \in ties \ {i}
    OBVIOUS
  <2>1. ~ Exceeds(Key(p.columns[j]), Key(p.columns[i]))
    <3> DEFINE a == p.columns[j].join
               b == Cardinality(p.columns[j].consumers)
               c == p.columns[i].join
               d == Cardinality(p.columns[i].consumers)
    <3>1. a \in Int /\ b \in Int /\ c \in Int /\ d \in Int
      BY <1>3
    <3>2. a <= c /\ (a = c => b <= d)
      BY <1>1
    <3> HIDE DEF a, b, c, d
    <3>3. ~ Exceeds(<<a, b>>, <<c, d>>)
      BY <3>1, <3>2, PairOrder
    <3> QED
      BY <3>3 DEF a, b, c, d
  <2>2. Key(p.columns[j]) = Key(p.columns[i]) /\ j < i
    BY <2>1
  <2>3. DOMAIN p.columns = 1..Len(ColumnsOf[t])
    BY ProfileFacts
  <2>4. j # i
    BY <2>2, <2>3
  <2>5. p.columns[j].join = top.join /\ Cardinality(p.columns[j].consumers) = Cardinality(top.consumers)
    BY <1>1, <2>2
  <2> QED
    BY <2>4, <2>5
<1>5. IsFiniteSet(ties) /\ i \in ties
  <2>1. IsFiniteSet(DOMAIN p.columns)
    BY ProfileFacts
  <2>2. ties \subseteq DOMAIN p.columns /\ i \in ties
    BY <1>1
  <2> HIDE DEF ties
  <2> QED
    BY <2>1, <2>2, PartFacts
<1> HIDE DEF ties, Before
<1>6. IsFiniteSet(ties \ {i}) /\ Cardinality(ties \ {i}) = Cardinality(ties) - 1 /\ Cardinality(ties) \in Nat
  BY <1>5, FS_RemoveElement, FS_CardinalityType
<1>7. Cardinality(Before(i)) <= Cardinality(ties) - 1 /\ Cardinality(Before(i)) \in Nat
  BY <1>4, <1>6, PartFacts
<1>8. Cardinality(ties) > SampleMax
  BY <1>2, <1>6, <1>7, RecommendAssumption
<1> QED
  BY <1>8 DEF ties

\* The columns of a CLUSTER BY are filtered on.
LEMMA FabricFacts ==
  ASSUME usage \in Usages, NEW t \in ModelTables, NEW p, IsProfile(p, t),
         NEW cb \in FabricClusterBy(p), NEW c \in cb.columns
  PROVE  \E i \in DOMAIN p.columns : c = p.columns[i].name /\ p.columns[i].where >= 1
<1> DEFINE filtered == {i \in DOMAIN p.columns : p.columns[i].where >= 1}
           candidates == {i \in filtered : ~Excluded(p.columns[i])}
           Key(e) == <<e.where, e.equality, -CharSum[e.name]>>
           Before(i) ==
             {j \in DOMAIN p.columns : \/ Exceeds(Key(p.columns[j]), Key(p.columns[i]))
                                       \/ Key(p.columns[j]) = Key(p.columns[i]) /\ j < i}
           picked == {i \in candidates : Cardinality(Before(i) \cap candidates) < ClusterByMax}
           told == [columns |-> {p.columns[i].name : i \in picked},
                    excluded |-> {p.columns[i].name : i \in filtered \ candidates},
                    impact |-> IF p.rows = Unknown \/ p.rows >= Million THEN "HIGH" ELSE "MEDIUM",
                    queries |-> p.rows = Unknown,
                    guess |-> p.rows = Unknown]
<1>1. FabricClusterBy(p) = IF candidates = {} THEN {} ELSE {told}
  BY DEF FabricClusterBy, Ahead
<1>2. told.columns = {p.columns[i].name : i \in picked}
  OBVIOUS
<1>3. \A i \in picked : i \in DOMAIN p.columns /\ p.columns[i].where >= 1
  <2> HIDE DEF Before
  <2> QED
    OBVIOUS
<1> HIDE DEF told, picked, candidates
<1>4. cb = told
  BY <1>1
<1> QED
  BY <1>2, <1>3, <1>4

\* What each kind of distribution rests on.
LEMMA DistributionFacts ==
  ASSUME NEW p, NEW measured
  PROVE  LET d == SynapseDistribution(p, measured)
         IN  /\ d.kind \in {"HASH", "REPLICATE", "ROUND_ROBIN"}
             /\ d.kind = "HASH" =>
                  \E top \in TopJoin(p) : /\ d.column = top.name
                                          /\ ~d.queries => ConfidentHash(Metric(measured, top.name))
             /\ d.kind = "REPLICATE" /\ ~d.queries => p.size # Unknown \/ p.rows # Unknown
             /\ d.kind = "ROUND_ROBIN" /\ ~d.queries =>
                  p.staging /\ \A i \in DOMAIN p.columns : p.columns[i].join = 0
<1> DEFINE top == CHOOSE c \in TopJoin(p) : TRUE
           m == Metric(measured, top.name)
           guess == p.size = Unknown /\ p.rows = Unknown
           idle == p.staging /\ \A i \in DOMAIN p.columns : p.columns[i].join = 0
<1>1. SynapseDistribution(p, measured) =
        IF idle THEN Distribution("ROUND_ROBIN", Unknown, "MEDIUM", FALSE, FALSE)
        ELSE IF TopJoin(p) # {}
        THEN Distribution("HASH", top.name, IF ConfidentHash(m) THEN "HIGH" ELSE "MEDIUM",
                          ~ConfidentHash(m), m.distinct = Unknown \/ m.skew = Unknown)
        ELSE IF SmallTable(p) THEN Distribution("REPLICATE", Unknown, "MEDIUM", guess, guess)
        ELSE Distribution("ROUND_ROBIN", Unknown, "LOW", TRUE, TRUE)
  BY DEF SynapseDistribution
<1>2. TopJoin(p) # {} => top \in TopJoin(p)
  OBVIOUS
<1>3. \A k, c, i, q, g : LET d == Distribution(k, c, i, q, g) IN d.kind = k /\ d.column = c /\ d.queries = q
  BY DEF Distribution
<1> HIDE DEF top
<1>4. CASE idle
  <2> DEFINE d == SynapseDistribution(p, measured)
  <2>1. d = Distribution("ROUND_ROBIN", Unknown, "MEDIUM", FALSE, FALSE)
    <3> HIDE DEF idle, m, guess
    <3> QED
      BY <1>1, <1>4
  <2>2. d.kind = "ROUND_ROBIN"
    BY <2>1 DEF Distribution
  <2> HIDE DEF d
  <2> QED
    BY <1>4, <2>2 DEF d
<1>5. CASE ~ idle /\ TopJoin(p) # {}
  <2> HIDE DEF idle
  <2>1. SynapseDistribution(p, measured) =
          Distribution("HASH", top.name, IF ConfidentHash(m) THEN "HIGH" ELSE "MEDIUM",
                       ~ConfidentHash(m), m.distinct = Unknown \/ m.skew = Unknown)
    BY <1>1, <1>5
  <2> DEFINE d == SynapseDistribution(p, measured)
  <2>2. d.kind = "HASH" /\ d.column = top.name /\ d.queries = ~ConfidentHash(m)
    BY <1>3, <2>1
  <2>3. ~d.queries => ConfidentHash(m)
    BY <2>2
  <2> HIDE DEF d
  <2> QED
    BY <1>2, <1>5, <2>2, <2>3 DEF d
<1>6. CASE ~ idle /\ TopJoin(p) = {} /\ SmallTable(p)
  <2> DEFINE d == SynapseDistribution(p, measured)
  <2>1. d = Distribution("REPLICATE", Unknown, "MEDIUM", guess, guess)
    <3> HIDE DEF idle, m, guess
    <3> QED
      BY <1>1, <1>6
  <2>2. d.kind = "REPLICATE" /\ d.queries = guess
    <3> HIDE DEF d, guess
    <3> QED
      BY <1>3, <2>1
  <2>3. ~d.queries => ~guess
    <3> HIDE DEF d, guess
    <3> QED
      BY <2>2
  <2> HIDE DEF d
  <2> QED
    BY <2>2, <2>3 DEF d
<1>7. CASE ~ idle /\ TopJoin(p) = {} /\ ~ SmallTable(p)
  <2> DEFINE d == SynapseDistribution(p, measured)
  <2>1. d = Distribution("ROUND_ROBIN", Unknown, "LOW", TRUE, TRUE)
    <3> HIDE DEF idle, m, guess
    <3> QED
      BY <1>1, <1>7
  <2>2. d.kind = "ROUND_ROBIN" /\ d.queries = TRUE
    BY <2>1 DEF Distribution
  <2> HIDE DEF d
  <2> QED
    BY <2>2 DEF d
<1> HIDE DEF idle
<1> QED
  BY <1>4, <1>5, <1>6, <1>7

-----------------------------------------------------------------------------
(* The keys of an index: a loop over its columns.                          *)

\* The loop over the columns of an index ends with a sequence of columns.
LEMMA KeyColumnsType ==
  ASSUME NEW columns \in Seq([column : Columns, included : BOOLEAN])
  PROVE  KeyColumns(columns) \in Seq(Columns)
<1> DEFINE N == Len(columns)
           Step(g) == [n \in 0..N |-> IF n = 0 THEN << >>
                                      ELSE IF columns[n].included THEN g[n - 1]
                                      ELSE Append(g[n - 1], columns[n].column)]
           keys == CHOOSE g : g = Step(g)
           F == [n \in 1..N |-> [sofar \in Seq(Columns) |->
                   IF columns[n].included THEN sofar ELSE Append(sofar, columns[n].column)]]
<1>1. KeyColumns(columns) = keys[N]
  BY DEF KeyColumns
<1>2. N \in Nat /\ \A n \in 1..N : columns[n].column \in Columns
  <2> DEFINE R == [column : Columns, included : BOOLEAN]
  <2>0. columns \in Seq(R)
    OBVIOUS
  <2>1. N \in Nat /\ \A n \in 1..N : columns[n] \in R
    <3> HIDE DEF R
    <3> QED
      BY <2>0
  <2> QED
    BY <2>1
<1>3. F \in [1..N -> [Seq(Columns) -> Seq(Columns)]]
  BY <1>2
<1>4. PICK h \in [0..N -> Seq(Columns)] : h[0] = << >> /\ \A n \in 1..N : h[n] = F[n][h[n - 1]]
  <2> DEFINE S == Seq(Columns)
             base == << >>
  <2>1. base \in S /\ N \in Nat /\ F \in [1..N -> [S -> S]]
    BY <1>2, <1>3
  <2> HIDE DEF F, N, S, base
  <2>2. \E h : IsLoop(h, S, base, N, F)
    BY <2>1, LoopRuns
  <2> QED
    BY <2>2 DEF IsLoop, S, base
<1>5. h = Step(h)
  <2>1. ASSUME NEW n \in 0..N
        PROVE  h[n] = IF n = 0 THEN << >>
                      ELSE IF columns[n].included THEN h[n - 1] ELSE Append(h[n - 1], columns[n].column)
    <3>1. CASE n = 0
      BY <1>4, <3>1
    <3>2. CASE n # 0
      <4>1. n \in 1..N /\ n - 1 \in 0..N
        BY <1>2, <3>2
      <4>2. h[n] = F[n][h[n - 1]] /\ h[n - 1] \in Seq(Columns)
        BY <1>4, <4>1
      <4>3. F[n][h[n - 1]] = IF columns[n].included THEN h[n - 1] ELSE Append(h[n - 1], columns[n].column)
        BY <4>1, <4>2
      <4> QED
        BY <3>2, <4>2, <4>3
    <3> QED
      BY <3>1, <3>2
  <2>2. h = [n \in 0..N |-> h[n]]
    BY <1>4
  <2> QED
    BY <2>1, <2>2
<1> HIDE DEF Step
<1>6. keys = Step(keys)
  BY <1>5
<1> HIDE DEF keys
<1>7. \A n \in 0..N : keys[n] = IF n = 0 THEN << >>
                                ELSE IF columns[n].included THEN keys[n - 1]
                                ELSE Append(keys[n - 1], columns[n].column)
  BY <1>6 DEF Step
<1> DEFINE bad == {n \in 0..N : keys[n] \notin Seq(Columns)}
<1>8. bad = {}
  <2> SUFFICES ASSUME bad # {} PROVE FALSE
    OBVIOUS
  <2>1. PICK n \in bad : \A m \in bad : n <= m
    <3>1. bad \in SUBSET Nat
      BY <1>2
    <3> HIDE DEF bad
    <3> QED
      BY <3>1, LeastOf
  <2>2. n \in 0..N /\ keys[n] \notin Seq(Columns)
    OBVIOUS
  <2>3. n # 0
    <3>1. << >> \in Seq(Columns)
      OBVIOUS
    <3> QED
      BY <1>7, <2>2, <3>1
  <2>4. n - 1 \in 0..N /\ n \in 1..N /\ ~ (n <= n - 1)
    BY <1>2, <2>2, <2>3
  <2>5. keys[n - 1] \in Seq(Columns)
    BY <2>1, <2>4
  <2>6. Append(keys[n - 1], columns[n].column) \in Seq(Columns)
    BY <1>2, <2>4, <2>5
  <2> HIDE DEF bad, N
  <2> QED
    BY <1>7, <2>2, <2>3, <2>5, <2>6
<1> QED
  BY <1>1, <1>2, <1>8

-----------------------------------------------------------------------------
(* From the bodies to what a table is told.                                *)

\* The profiles are of the tables found, one each and in their order; without a
\* connection nothing is measured.
ProfilesInv ==
  pc \in {"profile"} \cup Judging =>
    \A i \in 1..Len(profiles) :
      /\ IsProfile(profiles[i], tables[i])
      /\ conn # "open" => profiles[i].rows = Unknown /\ profiles[i].size = Unknown

\* What was sampled is of the profile at hand, and of the columns Sampled picks.
LiveFits(profile) ==
  IF conn = "open" /\ platform = "SYNAPSE_DEDICATED_POOL"
  THEN DOMAIN live.columns = Sampled(profile)
  ELSE live = NoLive

JudgeInv ==
  /\ ProfilesInv
  /\ KeysTyped(indexes)
  /\ pc = "rules" => LiveFits(profiles[at])
  /\ Judged => /\ LiveFits(profiles[at - 1])
               /\ Told = RuleOutput(profiles[at - 1], indexes, statistics, platform, live)

\* The bodies never change, and a profile of a table stays one.
LEMMA UsageKept ==
  ASSUME usage' = usage, NEW p, NEW t
  PROVE  IsProfile(p, t)' <=> IsProfile(p, t)
<1>1. Parsed' = Parsed
  BY DEF Parsed
<1>2. ASSUME NEW c PROVE ColumnProfile(c)' = ColumnProfile(c)
  BY <1>1 DEF ColumnProfile, Count, Cited
<1> QED
  BY <1>2 DEF IsProfile

\* Every step keeps what the profiles, the catalog and the verdicts have to do with each other.
LEMMA JudgeKept ==
  ASSUME RunInv, JudgeInv, [Next]_vars
  PROVE  JudgeInv'
<1>kept. usage' = usage
  BY DEF Next, vars, dacpac, Arguments, ComposeFails, Compose, Load, Token, Open, Detect, Probe, Escapes,
     PassOverTable, AddTable, TablesListed, Collect, BuildProfile, ProfilesDone, FetchIndexes, FetchStatistics,
     SampleLiveMetrics, ApplyRules, Raises, Unwind, Close, Write, WriteFails, Report
<1>same. ASSUME profiles' = profiles, tables' = tables, conn' = conn, pc \in {"profile"} \cup Judging
         PROVE  ProfilesInv'
  BY <1>same, <1>kept, UsageKept DEF JudgeInv, ProfilesInv
<1>away. ASSUME indexes' = indexes, pc' \notin {"profile"} \cup Judging
         PROVE  JudgeInv'
  BY <1>away DEF JudgeInv, ProfilesInv, KeysTyped, Judged, Judging
<1>0. ASSUME UNCHANGED vars PROVE JudgeInv'
  <2>1. ProfilesInv'
    <3>1. CASE pc \in {"profile"} \cup Judging
      BY <1>0, <1>same, <3>1 DEF vars
    <3>2. CASE pc \notin {"profile"} \cup Judging
      BY <1>0, <3>2 DEF vars, ProfilesInv
    <3> QED
      BY <3>1, <3>2
  <2> QED
    BY <1>0, <2>1 DEF vars, JudgeInv, KeysTyped, Judged, Told, JudgedTable, LiveFits
<1>1. ASSUME Arguments \/ ComposeFails \/ Compose \/ Load \/ Token \/ Open PROVE JudgeInv'
  BY <1>1, <1>away DEF Arguments, ComposeFails, Compose, Load, Token, Open, End, Judging, catalog
<1>2. ASSUME Detect PROVE JudgeInv'
  BY <1>2, <1>away DEF Detect, Settle, FromEngineEdition, Judging, catalog
<1>3. ASSUME Probe \/ Escapes \/ PassOverTable \/ AddTable \/ TablesListed PROVE JudgeInv'
  BY <1>3, <1>away DEF Probe, Settle, Escapes, End, PassOverTable, AddTable, TablesListed, Judging, catalog
<1>4. ASSUME Raises \/ Unwind \/ Close \/ Write \/ WriteFails \/ Report PROVE JudgeInv'
  BY <1>4, <1>away DEF Raises, Unwind, End, Close, Write, WriteFails, Report, Judging, catalog
<1>5. ASSUME Collect PROVE JudgeInv'
  <2>1. profiles' = << >> /\ pc' = "profile" /\ indexes' = indexes
    BY <1>5 DEF Collect, result, catalog, RunInv, ProgressInv, StageInv
  <2>2. Len(profiles') = 0
    BY ONLY <2>1, EmptyFacts
  <2> QED
    BY <2>1, <2>2 DEF JudgeInv, ProfilesInv, KeysTyped, Judged, Judging
<1>6. ASSUME BuildProfile PROVE JudgeInv'
  <2>1. /\ pc = "profile" /\ at \in 1..Len(tables) /\ Len(profiles) = at - 1 /\ Len(tables) \in Nat
        /\ IsSequence(profiles)
    BY <1>6 DEF BuildProfile, RunInv, ProgressInv, ShapeInv, StageInv, IsSequence
  <2>2. PICK load \in (IF conn = "open" THEN Loads[tables[at]] ELSE {[rows |-> Unknown, size |-> Unknown]}) :
          profiles' = Append(profiles, Profile(tables[at], load))
    BY <1>6 DEF BuildProfile
  <2> DEFINE p == Profile(tables[at], load)
  <2>3. IsProfile(p, tables[at])
    BY DEF IsProfile, Profile
  <2>4. conn # "open" => p.rows = Unknown /\ p.size = Unknown
    BY <2>2 DEF Profile
  <2> HIDE DEF p
  <2>5. profiles' = Append(profiles, p)
    BY <2>2 DEF p
  <2>6. /\ Len(profiles') = at
        /\ \A i \in 1..(at - 1) : profiles'[i] = profiles[i]
        /\ profiles'[at] = p
    <3>1. /\ Len(profiles') = Len(profiles) + 1
          /\ \A i \in 1..Len(profiles) : profiles'[i] = profiles[i]
          /\ profiles'[Len(profiles) + 1] = p
      BY ONLY <2>1, <2>5, GrowFacts
    <3> QED
      BY <2>1, <3>1
  <2>7. tables' = tables /\ conn' = conn /\ pc' = "profile" /\ indexes' = indexes
    BY <1>6, <2>1 DEF BuildProfile, catalog
  <2>8. ASSUME NEW i \in 1..at
        PROVE  /\ IsProfile(profiles'[i], tables[i])
               /\ conn # "open" => profiles'[i].rows = Unknown /\ profiles'[i].size = Unknown
    <3>1. CASE i = at
      BY <2>3, <2>4, <2>6, <3>1
    <3>2. CASE i # at
      <4>1. i \in 1..Len(profiles) /\ profiles'[i] = profiles[i]
        BY <2>1, <2>6, <3>2
      <4> QED
        BY <2>1, <4>1 DEF JudgeInv, ProfilesInv
    <3> QED
      BY <3>1, <3>2
  <2>9. ProfilesInv'
    BY <1>kept, <2>6, <2>7, <2>8, UsageKept DEF ProfilesInv
  <2> QED
    BY <2>7, <2>9 DEF JudgeInv, KeysTyped, Judged
<1>7. ASSUME ProfilesDone PROVE JudgeInv'
  <2>1. ProfilesInv'
    BY <1>7, <1>same DEF ProfilesDone, result
  <2> QED
    BY <1>7, <2>1 DEF ProfilesDone, catalog, JudgeInv, KeysTyped, Judged
<1>8. ASSUME FetchIndexes PROVE JudgeInv'
  <2>1. ProfilesInv'
    BY <1>8, <1>same DEF FetchIndexes, result, Judging
  <2>2. KeysTyped(indexes')
    <3>1. CASE conn # "open"
      BY <1>8, <3>1 DEF FetchIndexes, KeysTyped
    <3>2. CASE conn = "open"
      <4>1. PICK rows \in IndexCatalogs[profiles[at].table] : indexes' = {IndexOf(r) : r \in rows}
        BY <1>8, <3>2 DEF FetchIndexes
      <4>2. profiles[at].table \in ModelTables
        <5>1. at \in 1..Len(profiles) /\ Len(profiles) = Len(tables) /\ profiles[at].table = tables[at]
          BY <1>8 DEF FetchIndexes, AtProfile, RunInv, ProgressInv, ShapeInv, StageInv, Judging, IsSequence
        <5>2. profiles[at].table \in Elements(tables)
          BY <5>1 DEF Elements
        <5>3. Elements(tables) = Chosen(request.schemas, Len(Tables))
          BY <1>8 DEF FetchIndexes, RunInv, ProgressInv, StageInv, Judging
        <5>4. DOMAIN Tables = 1..Len(Tables)
          BY RecommendAssumption
        <5> QED
          BY <5>2, <5>3, <5>4 DEF Chosen, ModelTables
      <4>3. \A row \in rows : row.columns \in Seq([column : Columns, included : BOOLEAN])
        BY <4>2, RecommendAssumption DEF ModelTables
      <4>4. \A row \in rows : IndexOf(row).keys \in Seq(Columns)
        <5>1. \A row \in rows : KeyColumns(row.columns) \in Seq(Columns)
          BY <4>3, KeyColumnsType
        <5> QED
          BY <5>1 DEF IndexOf
      <4> QED
        BY <4>1, <4>4 DEF KeysTyped
    <3> QED
      BY <3>1, <3>2
  <2> QED
    BY <1>8, <2>1, <2>2 DEF FetchIndexes, JudgeInv, KeysTyped, Judged
<1>9. ASSUME FetchStatistics PROVE JudgeInv'
  <2>1. ProfilesInv'
    BY <1>9, <1>same DEF FetchStatistics, result, Judging
  <2> QED
    BY <1>9, <2>1 DEF FetchStatistics, JudgeInv, KeysTyped, Judged
<1>10. ASSUME SampleLiveMetrics PROVE JudgeInv'
  <2>1. ProfilesInv'
    BY <1>10, <1>same DEF SampleLiveMetrics, result, Judging
  <2>2. LiveFits(profiles[at])'
    <3>1. CASE conn = "open" /\ platform = "SYNAPSE_DEDICATED_POOL"
      <4>1. PICK skew \in Skews, existing \in DistributionCatalogs, distinct \in [Sampled(profiles[at]) -> Distincts] :
              live' = [columns |-> [c \in DOMAIN distinct |-> [distinct |-> distinct[c], skew |-> skew]],
                       existing |-> existing]
        BY <1>10, <3>1 DEF SampleLiveMetrics
      <4>2. DOMAIN live'.columns = Sampled(profiles[at])
        BY <4>1
      <4> QED
        BY <1>10, <3>1, <4>2 DEF SampleLiveMetrics, LiveFits, result
    <3>2. CASE ~ (conn = "open" /\ platform = "SYNAPSE_DEDICATED_POOL")
      BY <1>10, <3>2 DEF SampleLiveMetrics, LiveFits
    <3> QED
      BY <3>1, <3>2
  <2> QED
    BY <1>10, <2>1, <2>2 DEF SampleLiveMetrics, JudgeInv, KeysTyped, Judged
<1>11. ASSUME ApplyRules PROVE JudgeInv'
  <2>1. ProfilesInv'
    BY <1>11, <1>same DEF ApplyRules, Judging
  <2>2. pc = "rules" /\ LiveFits(profiles[at]) /\ at \in Nat /\ at' = at + 1 /\ pc' = "indexes"
    BY <1>11 DEF ApplyRules, JudgeInv, RunInv, ProgressInv, ShapeInv
  <2>3. /\ profiles' = profiles /\ conn' = conn /\ platform' = platform
        /\ indexes' = indexes /\ statistics' = statistics /\ live' = live
    BY <1>11 DEF ApplyRules, catalog
  <2>4. at' - 1 = at
    BY <2>2
  <2>5. LiveFits(profiles[at - 1])'
    BY <2>2, <2>3, <2>4 DEF LiveFits
  <2>6. Told' = RuleOutput(profiles[at], indexes, statistics, platform, live)
    BY <1>11, <2>3, <2>4 DEF ApplyRules, Told, JudgedTable
  <2> QED
    BY <2>1, <2>2, <2>3, <2>4, <2>5, <2>6 DEF JudgeInv, KeysTyped
<1> QED
  BY <1>0, <1>1, <1>2, <1>3, <1>4, <1>5, <1>6, <1>7, <1>8, <1>9, <1>10, <1>11 DEF Next

\* Both invariants hold in every state of every run.
LEMMA JudgeInvariant == Spec => [](RunInv /\ JudgeInv)
<1>1. Init => JudgeInv
  BY DEF Init, JudgeInv, ProfilesInv, KeysTyped, Judged, Judging
<1>2. RunInv /\ JudgeInv /\ [Next]_vars => JudgeInv'
  BY JudgeKept
<1> QED
  BY RunInvariant, <1>1, <1>2, PTL DEF Spec

\* What is at hand once a table was judged.
LEMMA JudgedFacts ==
  ASSUME RunInv, JudgeInv, Judged
  PROVE  /\ usage \in Usages /\ JudgedTable \in ModelTables
         /\ IsProfile(profiles[at - 1], JudgedTable)
         /\ KeysTyped(indexes) /\ LiveFits(profiles[at - 1])
         /\ conn # "open" => profiles[at - 1].rows = Unknown /\ profiles[at - 1].size = Unknown
         /\ Told = RuleOutput(profiles[at - 1], indexes, statistics, platform, live)
<1>1. /\ at - 1 \in 1..Len(profiles) /\ Len(profiles) = Len(tables) /\ Len(tables) \in Nat
      /\ pc = "indexes"
  BY DEF Judged, RunInv, ProgressInv, ShapeInv, StageInv, Judging, IsSequence
<1>2. profiles[at - 1].table = tables[at - 1]
  BY <1>1 DEF RunInv, ProgressInv, ShapeInv
<1>3. tables[at - 1] \in ModelTables
  <2>1. tables[at - 1] \in Elements(tables)
    BY <1>1 DEF Elements
  <2>2. Elements(tables) = Chosen(request.schemas, Len(Tables))
    BY <1>1 DEF RunInv, ProgressInv, StageInv, Judging
  <2>3. DOMAIN Tables = 1..Len(Tables)
    BY RecommendAssumption
  <2> QED
    BY <2>1, <2>2, <2>3 DEF Chosen, ModelTables
<1>4. /\ IsProfile(profiles[at - 1], tables[at - 1])
      /\ conn # "open" => profiles[at - 1].rows = Unknown /\ profiles[at - 1].size = Unknown
  BY <1>1 DEF JudgeInv, ProfilesInv, Judging
<1> QED
  BY <1>2, <1>3, <1>4 DEF JudgedTable, JudgeInv, RunInv, EndInv

\* The columns of the table judged are those of its profile, used as often as they are cited.
LEMMA JudgedColumns ==
  ASSUME RunInv, JudgeInv, Judged
  PROVE  LET cols == profiles[at - 1].columns
         IN  /\ ColumnsOfJudged = {cols[i].name : i \in DOMAIN cols}
             /\ \A i \in DOMAIN cols :
                  /\ cols[i].join >= 1 <=> CitedIn(cols[i].name, "JOIN_ON")
                  /\ cols[i].where >= 1 <=> CitedIn(cols[i].name, "WHERE")
                  /\ cols[i].group >= 1 <=> CitedIn(cols[i].name, "GROUP_BY")
                  /\ cols[i].partition >= 1 <=> CitedIn(cols[i].name, "PARTITION_BY")
                  /\ cols[i].name \in Columns
<1> DEFINE p == profiles[at - 1]
           t == JudgedTable
<1>1. usage \in Usages /\ t \in ModelTables /\ IsProfile(p, t)
  BY JudgedFacts
<1> HIDE DEF p, t
<1>2. /\ DOMAIN p.columns = DOMAIN ColumnsOf[t]
      /\ \A i \in DOMAIN p.columns :
           /\ p.columns[i].name = ColumnsOf[t][i] /\ p.columns[i].name \in Columns
           /\ p.columns[i].join = Count(p.columns[i].name, "JOIN_ON") /\ p.columns[i].join \in Nat
           /\ p.columns[i].where = Count(p.columns[i].name, "WHERE") /\ p.columns[i].where \in Nat
           /\ p.columns[i].group = Count(p.columns[i].name, "GROUP_BY") /\ p.columns[i].group \in Nat
           /\ p.columns[i].partition = Count(p.columns[i].name, "PARTITION_BY") /\ p.columns[i].partition \in Nat
  BY <1>1, ProfileFacts DEF IsProfile
<1>3. \A c, x : Count(c, x) # 0 <=> CitedIn(c, x)
  BY <1>1, CountFacts
<1>4. \A n \in Nat : n >= 1 <=> n # 0
  OBVIOUS
<1>5. {ColumnsOf[t][i] : i \in DOMAIN ColumnsOf[t]} = {p.columns[i].name : i \in DOMAIN p.columns}
  BY <1>2
<1> QED
  BY <1>2, <1>3, <1>4, <1>5 DEF p, t, ColumnsOfJudged

-----------------------------------------------------------------------------
\* Whatever the bodies, the catalog and the engine: no index key, statistic, hash
\* column or CLUSTER BY column is proposed that no body cites the way that justifies it.
THEOREM AlwaysEvidenced == Spec => []EvidenceOnly
<1>1. ASSUME RunInv, JudgeInv, Judged
      PROVE  /\ \A idx \in Told.indexes : \A i \in DOMAIN idx.keys : CitedIn(idx.keys[i], "JOIN_ON")
             /\ \A d \in Told.distribution : d.kind = "HASH" => CitedIn(d.column, "JOIN_ON")
             /\ \A cb \in Told.cluster_by : \A c \in cb.columns : CitedIn(c, "WHERE")
             /\ \A s \in Told.statistics :
                  IF Cardinality(s.columns) = 1
                  THEN \A c \in s.columns : CitedIn(c, "JOIN_ON")
                  ELSE \A c \in s.columns : CitedIn(c, "GROUP_BY") \/ CitedIn(c, "PARTITION_BY")
  <2> DEFINE p == profiles[at - 1]
             t == JudgedTable
             cols == p.columns
  <2>1. usage \in Usages /\ t \in ModelTables /\ IsProfile(p, t)
    BY <1>1, JudgedFacts
  <2>2. Told = RuleOutput(p, indexes, statistics, platform, live)
    BY <1>1, JudgedFacts
  <2>3. \A i \in DOMAIN cols :
          /\ cols[i].join >= 1 <=> CitedIn(cols[i].name, "JOIN_ON")
          /\ cols[i].where >= 1 <=> CitedIn(cols[i].name, "WHERE")
          /\ cols[i].group >= 1 <=> CitedIn(cols[i].name, "GROUP_BY")
          /\ cols[i].partition >= 1 <=> CitedIn(cols[i].name, "PARTITION_BY")
    BY <1>1, JudgedColumns
  <2> HIDE DEF p, t
  <2>4. ASSUME NEW idx \in Told.indexes, NEW i \in DOMAIN idx.keys PROVE CitedIn(idx.keys[i], "JOIN_ON")
    <3>1. \/ idx.keys = << >>
          \/ \E k \in DOMAIN p.columns : idx.keys = <<p.columns[k].name>> /\ p.columns[k].join >= 1
      <4>1. CASE IsStatsOnly(platform)
        BY <2>2, <4>1 DEF RuleOutput
      <4>2. CASE ~ IsStatsOnly(platform) /\ IsMpp(platform)
        <5>1. idx \in SynapseIndexes(p, indexes)
          BY <2>2, <4>2 DEF RuleOutput
        <5> QED
          BY <2>1, <5>1, SynapseIndexFacts DEF Index
      <4>3. CASE ~ IsStatsOnly(platform) /\ ~ IsMpp(platform)
        <5>1. idx \in SqlServerIndexes(p, indexes, platform)
          BY <2>2, <4>3 DEF RuleOutput
        <5> QED
          BY <2>1, <5>1, SqlServerIndexFacts DEF Index
      <4> QED
        BY <4>1, <4>2, <4>3
    <3>2. \A c : DOMAIN <<c>> = {1} /\ <<c>>[1] = c
      OBVIOUS
    <3>3. DOMAIN << >> = {}
      OBVIOUS
    <3> QED
      BY <2>3, <3>1, <3>2, <3>3
  <2>5. ASSUME NEW d \in Told.distribution, d.kind = "HASH" PROVE CitedIn(d.column, "JOIN_ON")
    <3>1. d = SynapseDistribution(p, live)
      BY <2>2 DEF RuleOutput
    <3>2. PICK top \in TopJoin(p) : d.column = top.name
      BY <2>5, <3>1, DistributionFacts
    <3>3. \E i \in DOMAIN cols : top = cols[i] /\ top.join >= 1
      BY <2>1, TopJoinFacts
    <3> QED
      BY <2>3, <3>2, <3>3
  <2>6. ASSUME NEW cb \in Told.cluster_by, NEW c \in cb.columns PROVE CitedIn(c, "WHERE")
    <3>1. cb \in FabricClusterBy(p)
      BY <2>2 DEF RuleOutput
    <3>2. \E i \in DOMAIN cols : c = cols[i].name /\ cols[i].where >= 1
      BY <2>1, <3>1, FabricFacts
    <3> QED
      BY <2>3, <3>2
  <2>7. ASSUME NEW s \in Told.statistics
        PROVE  IF Cardinality(s.columns) = 1
               THEN \A c \in s.columns : CitedIn(c, "JOIN_ON")
               ELSE \A c \in s.columns : CitedIn(c, "GROUP_BY") \/ CitedIn(c, "PARTITION_BY")
    <3>1. s \in Statistics(p, statistics, platform)
      BY <2>2 DEF RuleOutput
    <3>2. \/ \E i \in DOMAIN cols : s.columns = {cols[i].name} /\ cols[i].join >= 1
          \/ /\ Cardinality(s.columns) # 1
             /\ \A c \in s.columns : \E i \in DOMAIN cols :
                  c = cols[i].name /\ (cols[i].group >= 1 \/ cols[i].partition >= 1)
      BY <2>1, <3>1, StatisticFacts
    <3>3. \A c : Cardinality({c}) = 1
      BY FS_Singleton
    <3> QED
      BY <2>3, <3>2, <3>3
  <2> QED
    BY <2>4, <2>5, <2>6, <2>7
<1>2. RunInv /\ JudgeInv => EvidenceOnly
  BY <1>1 DEF EvidenceOnly
<1> QED
  BY JudgeInvariant, <1>2, PTL

\* No join key of a body that parses is lost: it has a statistic or gets one, and,
\* where there are indexes, an index leads with it, one is proposed, or the table
\* is to be stored by column.
THEOREM JoinKeysAlwaysServed == Spec => []JoinKeysServed
<1>1. ASSUME RunInv, JudgeInv, Judged, NEW c \in ColumnsOfJudged, CitedIn(c, "JOIN_ON")
      PROVE  /\ {c} \in Covered(statistics) \cup {s.columns : s \in Told.statistics}
             /\ \/ IsStatsOnly(platform)
                \/ LedBy(c)
                \/ \E idx \in Told.indexes : idx.keys = <<c>> \/ idx.kind = "CLUSTERED_COLUMNSTORE"
  <2> DEFINE p == profiles[at - 1]
             t == JudgedTable
             cols == p.columns
  <2>1. usage \in Usages /\ t \in ModelTables /\ IsProfile(p, t) /\ KeysTyped(indexes)
    BY <1>1, JudgedFacts
  <2>2. Told = RuleOutput(p, indexes, statistics, platform, live)
    BY <1>1, JudgedFacts
  <2>3. PICK i \in DOMAIN cols : c = cols[i].name /\ cols[i].join >= 1
    BY <1>1, JudgedColumns
  <2> HIDE DEF p, t
  <2>4. {c} \in Covered(statistics) \cup {s.columns : s \in Told.statistics}
    <3>1. {c} \notin Covered(statistics) => {c} \in {s.columns : s \in Statistics(p, statistics, platform)}
      BY <2>1, <2>3, StatisticFacts
    <3>2. Told.statistics = Statistics(p, statistics, platform)
      BY <2>2 DEF RuleOutput
    <3> QED
      BY <3>1, <3>2
  <2>5. ASSUME ~ IsStatsOnly(platform), ~ LedBy(c)
        PROVE  \E idx \in Told.indexes : idx.keys = <<c>> \/ idx.kind = "CLUSTERED_COLUMNSTORE"
    <3>1. ~ CoversLeading(indexes, c)
      BY <2>1, <2>5, LedByCovers
    <3>2. CASE IsMpp(platform)
      <4>1. Told.indexes = SynapseIndexes(p, indexes)
        BY <2>2, <2>5, <3>2 DEF RuleOutput
      <4>2. \/ SynapseIndexes(p, indexes) = {Index("CLUSTERED_COLUMNSTORE", << >>, {}, "HIGH")}
            \/ \E x \in SynapseIndexes(p, indexes) : x.keys = <<c>>
        BY <2>1, <2>3, <3>1, SynapseIndexFacts
      <4>3. Index("CLUSTERED_COLUMNSTORE", << >>, {}, "HIGH").kind = "CLUSTERED_COLUMNSTORE"
        BY DEF Index
      <4> QED
        BY <4>1, <4>2, <4>3
    <3>3. CASE ~ IsMpp(platform)
      <4>1. Told.indexes = SqlServerIndexes(p, indexes, platform)
        BY <2>2, <2>5, <3>3 DEF RuleOutput
      <4>2. \A k \in DOMAIN cols : cols[k].join >= 1 /\ ~ CoversLeading(indexes, cols[k].name)
              => \E x \in SqlServerIndexes(p, indexes, platform) : x.keys = <<cols[k].name>>
        BY <2>1, SqlServerIndexFacts
      <4>3. \E x \in SqlServerIndexes(p, indexes, platform) : x.keys = <<c>>
        BY <2>3, <3>1, <4>2
      <4> QED
        BY <4>1, <4>3
    <3> QED
      BY <3>2, <3>3
  <2> QED
    BY <2>4, <2>5
<1>2. RunInv /\ JudgeInv => JoinKeysServed
  BY <1>1 DEF JoinKeysServed
<1> QED
  BY JudgeInvariant, <1>2, PTL

\* The proposals for the indexes of one table, on whatever platform.
LEMMA IndexesAgree ==
  ASSUME RunInv, JudgeInv, Judged
  PROVE  LET told == Told.indexes
         IN  /\ \A x, y \in told : Slug(x) = Slug(y) => x = y
             /\ Cardinality({x \in told : x.kind \in {"CLUSTERED", "CLUSTERED_COLUMNSTORE"}}) <= 1
             /\ \A x \in told : IF x.keys = << >> THEN \A y \in indexes : y.kind # x.kind
                                ELSE ~LedBy(x.keys[1])
<1> DEFINE p == profiles[at - 1]
           t == JudgedTable
           clustered == {x \in Told.indexes : x.kind \in {"CLUSTERED", "CLUSTERED_COLUMNSTORE"}}
<1>1. usage \in Usages /\ t \in ModelTables /\ IsProfile(p, t) /\ KeysTyped(indexes)
  BY JudgedFacts
<1>2. Told = RuleOutput(p, indexes, statistics, platform, live)
  BY JudgedFacts
<1>3. \A i \in DOMAIN p.columns : p.columns[i].name \in Columns
  BY JudgedColumns
<1>4. \A c : ~ CoversLeading(indexes, c) => ~ LedBy(c)
  BY <1>1, LedByCovers
<1>5. \A c \in Columns : <<"cci">> # <<c>> /\ <<c>> # << >> /\ <<c>>[1] = c
  BY PlainColumnsAssumption
<1> HIDE DEF p, t
<1>6. CASE IsStatsOnly(platform)
  <2>1. Told.indexes = {}
    BY <1>2, <1>6 DEF RuleOutput
  <2>2. clustered = {}
    BY <2>1
  <2>3. Cardinality(clustered) = 0
    BY <2>2, FS_EmptySet
  <2> QED
    BY <2>1, <2>3
<1>7. CASE ~ IsStatsOnly(platform) /\ IsMpp(platform)
  <2>1. Told.indexes = SynapseIndexes(p, indexes)
    BY <1>2, <1>7 DEF RuleOutput
  <2>2. \/ /\ Told.indexes = {Index("CLUSTERED_COLUMNSTORE", << >>, {}, "HIGH")}
           /\ ~ Has(indexes, {"CLUSTERED_COLUMNSTORE"})
        \/ \A x \in Told.indexes : \E i \in DOMAIN p.columns :
             /\ x = Index("NONCLUSTERED", <<p.columns[i].name>>, {}, "MEDIUM")
             /\ ~ CoversLeading(indexes, p.columns[i].name)
    BY <1>1, <2>1, SynapseIndexFacts
  <2>3. CASE /\ Told.indexes = {Index("CLUSTERED_COLUMNSTORE", << >>, {}, "HIGH")}
             /\ ~ Has(indexes, {"CLUSTERED_COLUMNSTORE"})
    <3> DEFINE store == Index("CLUSTERED_COLUMNSTORE", << >>, {}, "HIGH")
    <3>1. store.keys = << >> /\ store.kind = "CLUSTERED_COLUMNSTORE"
      BY DEF Index
    <3> HIDE DEF store
    <3>2. Told.indexes = {store} /\ clustered = {store}
      BY <2>3, <3>1 DEF store
    <3>3. Cardinality(clustered) = 1
      BY <3>2, FS_Singleton
    <3>4. \A y \in indexes : y.kind # "CLUSTERED_COLUMNSTORE"
      BY <2>3 DEF Has
    <3> HIDE DEF clustered
    <3> QED
      BY <3>1, <3>2, <3>3, <3>4 DEF clustered
  <2>4. CASE \A x \in Told.indexes : \E i \in DOMAIN p.columns :
               /\ x = Index("NONCLUSTERED", <<p.columns[i].name>>, {}, "MEDIUM")
               /\ ~ CoversLeading(indexes, p.columns[i].name)
    <3>1. ASSUME NEW x \in Told.indexes
          PROVE  \E c \in Columns : /\ x = Index("NONCLUSTERED", <<c>>, {}, "MEDIUM")
                                    /\ x.keys = <<c>> /\ x.kind = "NONCLUSTERED" /\ ~ LedBy(c)
      <4>1. PICK i \in DOMAIN p.columns : /\ x = Index("NONCLUSTERED", <<p.columns[i].name>>, {}, "MEDIUM")
                                          /\ ~ CoversLeading(indexes, p.columns[i].name)
        BY <2>4
      <4>2. x.keys = <<p.columns[i].name>> /\ x.kind = "NONCLUSTERED"
        BY <4>1 DEF Index
      <4> QED
        BY <1>3, <1>4, <4>1, <4>2
    <3>2. clustered = {}
      BY <3>1
    <3>3. Cardinality(clustered) = 0
      BY <3>2, FS_EmptySet
    <3>4. ASSUME NEW x \in Told.indexes PROVE Slug(x) = x.keys /\ x.keys # << >> /\ ~LedBy(x.keys[1])
      BY <1>5, <3>1 DEF Slug
    <3>5. \A x, y \in Told.indexes : x.keys = y.keys => x = y
      <4> SUFFICES ASSUME NEW x \in Told.indexes, NEW y \in Told.indexes, x.keys = y.keys PROVE x = y
        OBVIOUS
      <4>1. PICK c \in Columns : x = Index("NONCLUSTERED", <<c>>, {}, "MEDIUM") /\ x.keys = <<c>>
        BY <3>1
      <4>2. PICK d \in Columns : y = Index("NONCLUSTERED", <<d>>, {}, "MEDIUM") /\ y.keys = <<d>>
        BY <3>1
      <4>3. c = d
        BY <1>5, <4>1, <4>2
      <4> QED
        BY <4>1, <4>2, <4>3
    <3> HIDE DEF clustered
    <3> QED
      BY <3>3, <3>4, <3>5 DEF clustered
  <2> QED
    BY <2>2, <2>3, <2>4
<1>8. CASE ~ IsStatsOnly(platform) /\ ~ IsMpp(platform)
  <2>1. Told.indexes = SqlServerIndexes(p, indexes, platform)
    BY <1>2, <1>8 DEF RuleOutput
  <2> DEFINE IsStore(x) == /\ x = Index("NONCLUSTERED_COLUMNSTORE", << >>, {}, "HIGH")
                           /\ ~ Has(indexes, {"NONCLUSTERED_COLUMNSTORE"})
             IsKey(x) == \E i \in DOMAIN p.columns :
                           /\ x.keys = <<p.columns[i].name>> /\ x.kind = "NONCLUSTERED"
                           /\ ~ CoversLeading(indexes, p.columns[i].name)
  <2>2. \A x \in Told.indexes : IsStore(x) \/ IsKey(x)
    BY <1>1, <2>1, SqlServerIndexFacts
  <2>3. \A x, y \in Told.indexes : x.keys = y.keys => x = y
    BY <1>1, <2>1, SqlServerIndexFacts
  <2>4. ASSUME NEW x \in Told.indexes, IsStore(x)
        PROVE  /\ x.keys = << >> /\ Slug(x) = <<"cci">> /\ x.kind = "NONCLUSTERED_COLUMNSTORE"
               /\ \A y \in indexes : y.kind # x.kind
    <3>1. x.keys = << >> /\ x.kind = "NONCLUSTERED_COLUMNSTORE"
      BY <2>4 DEF Index
    <3> QED
      BY <2>4, <3>1 DEF Has, Slug
  <2>5. ASSUME NEW x \in Told.indexes, IsKey(x)
        PROVE  /\ \E c \in Columns : x.keys = <<c>> /\ ~ LedBy(x.keys[1])
               /\ Slug(x) = x.keys /\ x.keys # << >> /\ x.kind = "NONCLUSTERED"
    <3>1. PICK i \in DOMAIN p.columns : /\ x.keys = <<p.columns[i].name>> /\ x.kind = "NONCLUSTERED"
                                        /\ ~ CoversLeading(indexes, p.columns[i].name)
      BY <2>5
    <3> QED
      BY <1>3, <1>4, <1>5, <3>1 DEF Slug
  <2> HIDE DEF IsStore, IsKey
  <2>6. \A x, y \in Told.indexes : Slug(x) = Slug(y) => x = y
    BY <1>5, <2>2, <2>3, <2>4, <2>5
  <2>7. clustered = {}
    BY <2>2, <2>4, <2>5
  <2>8. Cardinality(clustered) = 0
    BY <2>7, FS_EmptySet
  <2>9. \A x \in Told.indexes : IF x.keys = << >> THEN \A y \in indexes : y.kind # x.kind ELSE ~LedBy(x.keys[1])
    BY <2>2, <2>4, <2>5
  <2> HIDE DEF clustered
  <2> QED
    BY <2>6, <2>8, <2>9 DEF clustered
<1> QED
  BY <1>6, <1>7, <1>8

\* What is proposed for one table goes together: two indexes have one name only if the name of
\* one of them was cut, at most one is clustered, and none is led by a column, of a kind of
\* columnstore, or a statistic on columns, that the catalog has.
THEOREM ProposalsAlwaysAgree == Spec => []ProposalsAgree
<1>1. ASSUME RunInv, JudgeInv, Judged
      PROVE  {s.columns : s \in Told.statistics} \cap Covered(statistics) = {}
  <2>1. /\ usage \in Usages /\ JudgedTable \in ModelTables /\ IsProfile(profiles[at - 1], JudgedTable)
        /\ Told = RuleOutput(profiles[at - 1], indexes, statistics, platform, live)
    BY <1>1, JudgedFacts
  <2>2. Told.statistics = Statistics(profiles[at - 1], statistics, platform)
    BY <2>1 DEF RuleOutput
  <2>3. \A s \in Told.statistics : s.columns \notin Covered(statistics)
    BY <2>1, <2>2, StatisticFacts
  <2> QED
    BY <2>3
<1>2. RunInv /\ JudgeInv => ProposalsAgree
  BY <1>1, IndexesAgree DEF ProposalsAgree, IndexName, IsCut
<1> QED
  BY JudgeInvariant, <1>2, PTL

\* A hash column was measured unless more columns than are sampled tie with it, and a
\* distribution that comes without queries rests on numbers of this very table, or is
\* that of a staging table nobody joins.
THEOREM DistributionAlwaysMeasured == Spec => []DistributionIsMeasured
<1>1. ASSUME RunInv, JudgeInv, Judged, conn = "open", NEW d \in Told.distribution, d.kind = "HASH",
             d.column \notin DOMAIN live.columns
      PROVE  Cardinality({i \in DOMAIN profiles[at - 1].columns :
               LET c == profiles[at - 1].columns[i]
                   h == ColumnProfile(d.column)
               IN  c.join = h.join /\ Cardinality(c.consumers) = Cardinality(h.consumers)}) > SampleMax
  <2> DEFINE p == profiles[at - 1]
             t == JudgedTable
  <2>1. usage \in Usages /\ t \in ModelTables /\ IsProfile(p, t) /\ LiveFits(p)
    BY <1>1, JudgedFacts
  <2>2. Told = RuleOutput(p, indexes, statistics, platform, live)
    BY <1>1, JudgedFacts
  <2> HIDE DEF p, t
  <2>3. IsMpp(platform) /\ d = SynapseDistribution(p, live)
    BY <1>1, <2>2 DEF RuleOutput
  <2>4. DOMAIN live.columns = Sampled(p)
    BY <1>1, <2>1, <2>3 DEF LiveFits, IsMpp
  <2>5. PICK top \in TopJoin(p) : d.column = top.name
    BY <1>1, <2>3, DistributionFacts
  <2>6. PICK i \in DOMAIN p.columns : top = p.columns[i]
    BY <2>1, TopJoinFacts
  <2>7. top = ColumnProfile(d.column)
    BY <2>1, <2>5, <2>6, ProfileFacts
  <2>8. Cardinality({k \in DOMAIN p.columns :
          p.columns[k].join = top.join /\ Cardinality(p.columns[k].consumers) = Cardinality(top.consumers)}) > SampleMax
    BY <1>1, <2>1, <2>4, <2>5, TopJoinSampled
  <2> QED
    BY <2>7, <2>8 DEF p
<1>2. ASSUME RunInv, JudgeInv, Judged, NEW d \in Told.distribution, ~d.queries
      PROVE  CASE d.kind = "HASH" -> /\ conn = "open"
                                     /\ live.columns[d.column].distinct # Unknown
                                     /\ live.columns[d.column].distinct >= 10000
                                     /\ live.columns[d.column].skew <= HealthySkew
               [] d.kind = "REPLICATE" -> conn = "open"
               [] OTHER -> /\ JudgedTable \in Staging
                           /\ \A c \in ColumnsOfJudged : ~CitedIn(c, "JOIN_ON")
  <2> DEFINE p == profiles[at - 1]
             t == JudgedTable
             cols == p.columns
  <2>1. /\ usage \in Usages /\ t \in ModelTables /\ IsProfile(p, t) /\ LiveFits(p)
        /\ conn # "open" => p.rows = Unknown /\ p.size = Unknown
    BY <1>2, JudgedFacts
  <2>2. Told = RuleOutput(p, indexes, statistics, platform, live)
    BY <1>2, JudgedFacts
  <2>3. /\ ColumnsOfJudged = {cols[i].name : i \in DOMAIN cols}
        /\ \A i \in DOMAIN cols : cols[i].join >= 1 <=> CitedIn(cols[i].name, "JOIN_ON")
    BY <1>2, JudgedColumns
  <2> HIDE DEF p
  <2>4. IsMpp(platform) /\ d = SynapseDistribution(p, live)
    BY <1>2, <2>2 DEF RuleOutput
  <2>5. d.kind \in {"HASH", "REPLICATE", "ROUND_ROBIN"}
    BY <2>4, DistributionFacts
  <2>6. ASSUME d.kind = "HASH"
        PROVE  /\ conn = "open"
               /\ live.columns[d.column].distinct # Unknown
               /\ live.columns[d.column].distinct >= 10000
               /\ live.columns[d.column].skew <= HealthySkew
    <3>1. PICK top \in TopJoin(p) : d.column = top.name /\ ConfidentHash(Metric(live, top.name))
      BY <1>2, <2>4, <2>6, DistributionFacts
    <3>2. d.column \in DOMAIN live.columns /\ Metric(live, d.column) = live.columns[d.column]
      BY <3>1 DEF ConfidentHash, Metric, NoMetric
    <3>3. live # NoLive
      <4>1. DOMAIN NoLive.columns = {}
        BY DEF NoLive
      <4> QED
        BY <3>2, <4>1
    <3>4. conn = "open"
      BY <2>1, <3>3 DEF LiveFits
    <3> QED
      BY <3>1, <3>2, <3>4 DEF ConfidentHash
  <2>7. ASSUME d.kind = "REPLICATE" PROVE conn = "open"
    BY <1>2, <2>1, <2>4, <2>7, DistributionFacts
  <2>8. ASSUME d.kind = "ROUND_ROBIN"
        PROVE  JudgedTable \in Staging /\ \A c \in ColumnsOfJudged : ~CitedIn(c, "JOIN_ON")
    <3>1. p.staging /\ \A i \in DOMAIN cols : cols[i].join = 0
      BY <1>2, <2>4, <2>8, DistributionFacts
    <3>2. \A i \in DOMAIN cols : ~ (cols[i].join >= 1)
      BY <3>1
    <3>3. JudgedTable \in Staging
      BY <2>1, <3>1 DEF IsProfile
    <3> QED
      BY <2>3, <3>2, <3>3
  <2> QED
    BY <2>5, <2>6, <2>7, <2>8
<1>3. RunInv /\ JudgeInv => DistributionIsMeasured
  BY <1>1, <1>2 DEF DistributionIsMeasured, HashWasSampled, UncheckedIsMeasured
<1> QED
  BY JudgeInvariant, <1>3, PTL

=============================================================================
