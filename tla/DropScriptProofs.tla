-------------------------- MODULE DropScriptProofs --------------------------
(* Theorems about drop-script, for any dacpac, database and filter.         *)
EXTENDS DropScript, WellFoundedInduction, TLAPS

LEMMA KeyType == ASSUME NEW ref \in Ref PROVE Key(ref) \in Nat \X Nat \X Types
BY DropAssumption DEF Key, Ref

LEMMA HereType == ASSUME TypeOK, Collecting PROVE Here \in Ref /\ at \in DOMAIN input.live
<1>1. input.live \in Seq(Ref) /\ at \in 1..(Len(input.live) + 1) /\ at <= Len(input.live)
  BY DEF TypeOK, Input, Collecting
<1>2. at \in DOMAIN input.live
  BY ONLY <1>1
<1> QED
  BY ONLY <1>1, <1>2 DEF Here

\* Arranging members of a sequence gives a sequence of the same members.
LEMMA Arranged ==
  ASSUME NEW s \in Seq(Ref), NEW I \in SUBSET DOMAIN s, NEW n \in Nat,
         NEW k \in 0..n, NEW f \in [1..k -> I], \A x \in I : \E i \in DOMAIN f : f[i] = x,
         NEW t, t = [i \in DOMAIN f |-> s[f[i]]]
  PROVE  t \in Seq(Ref) /\ {t[i] : i \in DOMAIN t} = {s[i] : i \in I}
<1>1. DOMAIN f = 1..k /\ k \in Nat /\ DOMAIN t = 1..k
  OBVIOUS
<1>2. \A i \in 1..k : f[i] \in DOMAIN s /\ s[f[i]] \in Ref /\ t[i] = s[f[i]]
  BY <1>1
<1>3. t \in [1..k -> Ref]
  BY <1>1, <1>2
<1>4. t \in Seq(Ref)
  BY ONLY <1>1, <1>3
<1>5. {t[i] : i \in DOMAIN t} = {s[i] : i \in I}
  BY <1>1, <1>2
<1> QED
  BY <1>4, <1>5

LEMMA SortArranges ==
  ASSUME TypeOK, Sort
  PROVE  /\ orphans' \in Seq(Ref)
         /\ {orphans'[i] : i \in DOMAIN orphans'} = {orphans[i] : i \in DOMAIN orphans}
<1>1. orphans \in Seq(Ref) /\ Len(orphans) \in Nat
  BY DEF TypeOK
<1>2. PICK k \in 0..Len(orphans) : \E f \in [1..k -> DOMAIN orphans] :
        /\ \A x \in DOMAIN orphans : \E i \in DOMAIN f : f[i] = x
        /\ orphans' = [i \in DOMAIN f |-> orphans[f[i]]]
  BY DEF Sort, Arrangements
<1>3. PICK f \in [1..k -> DOMAIN orphans] :
        /\ \A x \in DOMAIN orphans : \E i \in DOMAIN f : f[i] = x
        /\ orphans' = [i \in DOMAIN f |-> orphans[f[i]]]
  BY <1>2
<1>4. PICK t : t = orphans'
  OBVIOUS
<1>5. t \in Seq(Ref) /\ {t[i] : i \in DOMAIN t} = {orphans[i] : i \in DOMAIN orphans}
  BY <1>1, <1>3, <1>4, Arranged
<1> QED
  BY <1>4, <1>5

LEMMA RenderArranges ==
  ASSUME TypeOK, Render
  PROVE  /\ script' \in Seq(Ref)
         /\ {script'[i] : i \in DOMAIN script'} = {orphans[i] : i \in Rendered}
<1>1. orphans \in Seq(Ref) /\ Len(orphans) \in Nat
  BY DEF TypeOK
<1>2. Rendered \subseteq DOMAIN orphans
  BY DEF Rendered
<1>3. PICK k \in 0..Len(orphans) : \E f \in [1..k -> Rendered] :
        /\ \A x \in Rendered : \E i \in DOMAIN f : f[i] = x
        /\ script' = [i \in DOMAIN f |-> orphans[f[i]]]
  BY DEF Render, Arrangements
<1>4. PICK f \in [1..k -> Rendered] :
        /\ \A x \in Rendered : \E i \in DOMAIN f : f[i] = x
        /\ script' = [i \in DOMAIN f |-> orphans[f[i]]]
  BY <1>3
<1>5. f \in [1..k -> DOMAIN orphans]
  BY <1>2
<1>6. PICK t : t = script'
  OBVIOUS
<1>7. PICK I : I = Rendered
  OBVIOUS
<1>8. t \in Seq(Ref) /\ {t[i] : i \in DOMAIN t} = {orphans[i] : i \in I}
  BY <1>1, <1>2, <1>4, <1>5, <1>6, <1>7, Arranged
<1> QED
  BY <1>6, <1>7, <1>8

\* Every recognised type has its place in the order of the script.
LEMMA OrderIsTotal == ASSUME NEW ref \in Ref, ref.type # "UNKNOWN" PROVE InDropOrder(ref)
<1>1. /\ DropOrder[1] = "SYNONYM" /\ DropOrder[2] = "EXTERNAL_TABLE" /\ DropOrder[3] = "VIEW"
      /\ DropOrder[4] = "PROCEDURE" /\ DropOrder[5] = "SCALAR_FUNCTION"
      /\ DropOrder[6] = "TABLE_VALUED_FUNCTION" /\ DropOrder[7] = "TABLE"
      /\ DOMAIN DropOrder = 1..7
  BY DEF DropOrder
<1>2. ref.type \in Types
  BY DEF Ref
<1> QED
  BY <1>1, <1>2 DEF InDropOrder, Types

LEMMA NextTypeOK == TypeOK /\ [Next]_vars => TypeOK'
<1> SUFFICES ASSUME TypeOK, [Next]_vars PROVE TypeOK'
  OBVIOUS
<1> USE DEF Labels, Calls, NoExit, FileState, Exit
<1>1. CASE Prepare
  <2>1. CASE LoadDacpac
    <3>1. Listed \subseteq Ref
      BY DEF TypeOK, Input, Listed
    <3>2. keys' \subseteq Nat \X Nat \X Types
      BY <2>1, <3>1, KeyType DEF LoadDacpac
    <3> QED
      BY <2>1, <3>2 DEF LoadDacpac, TypeOK
  <2>2. CASE ~ LoadDacpac
    BY <1>1, <2>2 DEF Prepare, RejectArguments, AcceptArguments, Compose, GetToken, OpenConnection,
                      ListLive, ListFails, CloseConnection, CloseAndRaise, TypeOK
  <2> QED
    BY <2>1, <2>2
<1>2. CASE PassOver \/ WarnUnknown \/ CollectOrphan
  <2>1. input.live \in Seq(Ref) /\ Len(input.live) \in Nat /\ Here \in Ref
    BY <1>2, HereType DEF TypeOK, Input, PassOver, WarnUnknown, CollectOrphan
  <2>2. at' \in 1..(Len(input'.live) + 1) /\ at \in 1..Len(input.live) /\ input' = input
    BY <1>2, <2>1 DEF PassOver, WarnUnknown, CollectOrphan, Collecting, TypeOK
  <2>3. orphans' \in Seq(Ref)
    <3>1. PICK h \in Ref : h = Here
      BY <2>1
    <3>2. orphans \in Seq(Ref)
      BY DEF TypeOK
    <3>3. Append(orphans, h) \in Seq(Ref)
      BY ONLY <3>1, <3>2
    <3> QED
      BY <1>2, <3>1, <3>2, <3>3 DEF PassOver, WarnUnknown, CollectOrphan
  <2> QED
    BY <1>2, <2>2, <2>3 DEF PassOver, WarnUnknown, CollectOrphan, TypeOK
<1>3. CASE FinishCollecting
  BY <1>3 DEF FinishCollecting, TypeOK
<1>4. CASE Sort
  BY <1>4, SortArranges DEF Sort, TypeOK
<1>5. CASE Render
  BY <1>5, RenderArranges DEF Render, TypeOK
<1>6. CASE Write \/ Raise \/ Crash \/ UNCHANGED vars
  BY <1>6 DEF Write, CreateTemp, WriteTemp, WriteFails, Unlink, Replace, Report, Raise, Crash, vars,
       TypeOK
<1> QED
  BY <1>1, <1>2, <1>3, <1>4, <1>5, <1>6 DEF Next, Compare, Stop

LEMMA InitTypeOK == Init => TypeOK
<1> SUFFICES ASSUME Init PROVE TypeOK
  OBVIOUS
<1>1. input \in Input /\ Len(input.live) \in Nat
  BY DropAssumption DEF Init, Input
<1>2. at \in 1..(Len(input.live) + 1)
  BY <1>1 DEF Init
<1>3. << >> \in Seq(Ref)
  OBVIOUS
<1> QED
  BY <1>1, <1>2, <1>3 DEF Init, TypeOK, Labels, FileState, NoExit

\* Every reachable state is well typed.
THEOREM TypeCorrect == Spec => []TypeOK
BY InitTypeOK, NextTypeOK, PTL DEF Spec

-----------------------------------------------------------------------------
(* Files, connection and exit code. *)

EndInv ==
  /\ pc = "replace" => temp = "whole"
  /\ temp # "absent" => pc \in {"write", "replace", "unlink", "killed"}
  /\ file # "absent" => file = "whole" /\ pc \in {"report", "ended", "killed"}
  /\ pc = "report" => file = "whole"
  /\ pc = "ended" => (exit = 0 => file = "whole") /\ (exit \in {2, 4} => file = "absent")
  /\ connected => pc \in {"list", "close", "giveup"}

LEMMA NextEndInv == TypeOK /\ EndInv /\ [Next]_vars => EndInv'
<1> SUFFICES ASSUME TypeOK, EndInv, [Next]_vars PROVE EndInv'
  OBVIOUS
<1> USE DEF EndInv, TypeOK, Exit, Calls
<1>1. CASE Prepare
  BY <1>1 DEF Prepare, RejectArguments, AcceptArguments, Compose, LoadDacpac, GetToken,
              OpenConnection, ListLive, ListFails, CloseConnection, CloseAndRaise
<1>2. CASE Compare
  BY <1>2 DEF Compare, PassOver, WarnUnknown, CollectOrphan, FinishCollecting, Sort, Render, Collecting
<1>3. CASE Write \/ Raise \/ Crash \/ UNCHANGED vars
  BY <1>3 DEF Write, CreateTemp, WriteTemp, WriteFails, Unlink, Replace, Report, Raise, Crash, vars
<1> QED
  BY <1>1, <1>2, <1>3 DEF Next, Stop

LEMMA InitEndInv == Init => EndInv
BY DEF Init, EndInv

\* A script is never seen in part, and only a kill leaves a temporary file.
THEOREM ScriptsAreWhole == Spec => []OnlyWholeScripts
<1>1. EndInv => OnlyWholeScripts
  BY DEF EndInv, OnlyWholeScripts
<1> QED
  BY <1>1, InitTypeOK, NextTypeOK, InitEndInv, NextEndInv, PTL DEF Spec

\* The connection is closed on every path.
THEOREM ConnectionIsReleased == Spec => []ConnectionReleased
<1>1. EndInv => ConnectionReleased
  BY DEF EndInv, ConnectionReleased
<1> QED
  BY <1>1, InitTypeOK, NextTypeOK, InitEndInv, NextEndInv, PTL DEF Spec

\* Exit code 0 means the script is there, 2 and 4 that none is.
THEOREM ExitCodeIsTruthful == Spec => []ExitCodeTruthful
<1>1. EndInv => ExitCodeTruthful
  BY DEF EndInv, ExitCodeTruthful
<1> QED
  BY <1>1, InitTypeOK, NextTypeOK, InitEndInv, NextEndInv, PTL DEF Spec

-----------------------------------------------------------------------------
(* What is in the script. *)

Compared == {"collect", "sort", "render", "mkstemp", "write", "replace"}
KeysMade == Compared \cup {"token", "open", "list", "close"}
Preparing == {"arguments", "compose", "load", "token", "open", "list", "close"}

Orphans == {orphans[i] : i \in DOMAIN orphans}
Difference == {ref \in LiveRefs : IsOrphan(ref)}

ContentInv ==
  /\ pc \in KeysMade => keys = {Key(ref) : ref \in Listed}
  /\ pc \in Preparing => at = 1 /\ orphans = << >>
  /\ pc = "collect" => Orphans = {ref \in {input.live[i] : i \in 1..(at - 1)} : IsOrphan(ref)}
  /\ pc \in Compared \ {"collect"} => Orphans = Difference
  /\ pc \in {"mkstemp", "write", "replace"} => Statements = Difference
  /\ file # "absent" => Statements = Difference

LEMMA InDacpacIsIn ==
  ASSUME TypeOK, keys = {Key(r) : r \in Listed}, NEW ref \in Ref, ref.type # "UNKNOWN", InFilter(ref)
  PROVE  IsOrphan(ref) <=> ~ InDacpac(ref)
<1>1. Listed \subseteq Ref
  BY DEF TypeOK, Input, Listed
<1> QED
  BY <1>1 DEF IsOrphan, InDacpac, Key

\* One object more of the database: an orphan is collected, any other is not.
LEMMA CollectKept ==
  ASSUME TypeOK, ContentInv, PassOver \/ WarnUnknown \/ CollectOrphan
  PROVE  Orphans' = {ref \in {input.live[i] : i \in 1..(at' - 1)} : IsOrphan(ref)}
<1>1. /\ Here \in Ref /\ at \in DOMAIN input.live /\ orphans \in Seq(Ref)
      /\ at \in Nat /\ at >= 1 /\ pc = "collect" /\ at' = at + 1
      /\ Here = input.live[at]
  BY HereType DEF PassOver, WarnUnknown, CollectOrphan, Collecting, TypeOK, Input, Here
<1>2. keys = {Key(r) : r \in Listed} /\ Orphans = {ref \in {input.live[i] : i \in 1..(at - 1)} : IsOrphan(ref)}
  BY <1>1 DEF ContentInv, KeysMade, Compared
<1>3. Orphans' = IF IsOrphan(Here) THEN Orphans \cup {Here} ELSE Orphans
  <2>1. CASE CollectOrphan
    <3>1. IsOrphan(Here)
      BY <1>1, <1>2, <2>1, InDacpacIsIn DEF CollectOrphan
    <3>2. orphans' = Append(orphans, Here)
      BY <2>1 DEF CollectOrphan
    <3>3. PICK h \in Ref : h = Here
      BY <1>1
    <3>4. PICK s \in Seq(Ref) : s = orphans
      BY <1>1
    <3>5. \A x : (\E i \in DOMAIN Append(s, h) : x = Append(s, h)[i]) <=>
                (\E i \in DOMAIN s : x = s[i]) \/ x = h
      <4>1. DOMAIN Append(s, h) = 1..(Len(s) + 1) /\ DOMAIN s = 1..Len(s) /\ Len(s) \in Nat
        BY ONLY <3>3, <3>4
      <4>2. Append(s, h)[Len(s) + 1] = h /\ \A i \in 1..Len(s) : Append(s, h)[i] = s[i]
        BY ONLY <3>3, <3>4
      <4> QED
        BY ONLY <4>1, <4>2
    <3>6. {Append(s, h)[i] : i \in DOMAIN Append(s, h)} = {s[i] : i \in DOMAIN s} \cup {h}
      BY ONLY <3>5
    <3> QED
      BY <3>1, <3>2, <3>3, <3>4, <3>6 DEF Orphans
  <2>2. CASE PassOver \/ WarnUnknown
    <3>1. ~ IsOrphan(Here)
      BY <1>1, <1>2, <2>2, InDacpacIsIn DEF PassOver, WarnUnknown, IsOrphan
    <3> QED
      BY <2>2, <3>1 DEF PassOver, WarnUnknown, Orphans
  <2> QED
    BY <2>1, <2>2
<1>4. 1..(at' - 1) = 1..(at - 1) \cup {at}
  BY <1>1
<1>5. {input.live[i] : i \in 1..(at' - 1)} = {input.live[i] : i \in 1..(at - 1)} \cup {Here}
  BY <1>1, <1>4
<1> QED
  BY <1>2, <1>3, <1>5

LEMMA NextContentInv == TypeOK /\ EndInv /\ ContentInv /\ [Next]_vars => ContentInv'
<1> SUFFICES ASSUME TypeOK, EndInv, ContentInv, [Next]_vars PROVE ContentInv'
  OBVIOUS
<1> USE DEF KeysMade, Compared, Preparing, Exit, Calls
<1>0. /\ input' = input /\ Listed' = Listed /\ Difference' = Difference
      /\ \A ref : IsOrphan(ref)' = IsOrphan(ref)
  <2>1. input' = input
    BY DEF Next, Prepare, RejectArguments, AcceptArguments, Compose, LoadDacpac, GetToken,
           OpenConnection, ListLive, ListFails, CloseConnection, CloseAndRaise,
           Compare, PassOver, WarnUnknown, CollectOrphan, FinishCollecting, Sort, Render,
           Write, CreateTemp, WriteTemp, WriteFails, Unlink, Replace, Report, Raise, Crash, Stop, vars
  <2> QED
    BY <2>1 DEF Listed, Difference, LiveRefs, IsOrphan, InFilter
<1>1. CASE Prepare
  <2>1. CASE LoadDacpac
    BY <1>0, <2>1 DEF LoadDacpac, ContentInv, Orphans, Statements, EndInv
  <2>2. CASE CloseConnection
    <3>1. at = 1 /\ orphans = << >> /\ pc' = "collect" /\ at' = at /\ orphans' = orphans
      BY <2>2 DEF CloseConnection, ContentInv
    <3>2. Orphans' = {} /\ 1..(at' - 1) = {}
      BY <3>1 DEF Orphans
    <3> QED
      BY <1>0, <2>2, <3>1, <3>2 DEF CloseConnection, ContentInv, Statements, EndInv
  <2>3. CASE ~ LoadDacpac /\ ~ CloseConnection
    BY <1>0, <1>1, <2>3
       DEF Prepare, RejectArguments, AcceptArguments, Compose, GetToken, OpenConnection, ListLive,
           ListFails, CloseAndRaise, ContentInv, Orphans, Statements, EndInv
  <2> QED
    BY <2>1, <2>2, <2>3
<1>2. CASE PassOver \/ WarnUnknown \/ CollectOrphan
  <2>1. Orphans' = {ref \in {input.live[i] : i \in 1..(at' - 1)} : IsOrphan(ref)}
    BY <1>2, CollectKept
  <2>2. /\ pc = "collect" /\ pc' = pc /\ keys' = keys /\ file' = file /\ script' = script
    BY <1>2 DEF PassOver, WarnUnknown, CollectOrphan, Collecting
  <2>3. Statements' = Statements
    BY <2>2 DEF Statements
  <2> QED
    BY <1>0, <2>1, <2>2, <2>3 DEF ContentInv
<1>3. CASE FinishCollecting
  <2>1. 1..(at - 1) = DOMAIN input.live
    <3>1. input.live \in Seq(Ref) /\ at \in 1..(Len(input.live) + 1) /\ at > Len(input.live)
      BY <1>3 DEF FinishCollecting, TypeOK, Input
    <3> QED
      BY ONLY <3>1
  <2>2. Orphans = Difference
    BY <1>3, <2>1 DEF FinishCollecting, ContentInv, Difference, LiveRefs
  <2> QED
    BY <1>0, <1>3, <2>2 DEF FinishCollecting, ContentInv, Orphans, Statements
<1>4. CASE Sort
  <2>1. Orphans' = Orphans
    BY <1>4, SortArranges DEF Orphans
  <2> QED
    BY <1>0, <1>4, <2>1 DEF Sort, ContentInv, Statements
<1>5. CASE Render
  <2>1. Orphans = Difference
    BY <1>5 DEF Render, ContentInv
  <2>2. \A i \in DOMAIN orphans : i \in Rendered
    <3> SUFFICES ASSUME NEW i \in DOMAIN orphans PROVE i \in Rendered
      OBVIOUS
    <3>1. orphans[i] \in Ref /\ orphans[i].type # "UNKNOWN"
      BY <2>1 DEF Orphans, Difference, IsOrphan, TypeOK
    <3> QED
      BY <3>1, OrderIsTotal DEF Rendered, HasStatement
  <2>3. Statements' = Orphans
    <3>1. Rendered = DOMAIN orphans
      BY <2>2 DEF Rendered
    <3> QED
      BY <1>5, <3>1, RenderArranges DEF Statements, Orphans
  <2> QED
    BY <1>0, <1>5, <2>1, <2>3 DEF Render, ContentInv, Orphans
<1>6. CASE Write \/ Raise \/ Crash \/ UNCHANGED vars
  <2>1. orphans' = orphans /\ script' = script /\ keys' = keys /\ at' = at
    BY <1>6 DEF Write, CreateTemp, WriteTemp, WriteFails, Unlink, Replace, Report, Raise, Crash, vars
  <2>2. Orphans' = Orphans /\ Statements' = Statements
    BY <2>1 DEF Orphans, Statements
  <2> QED
    BY <1>0, <1>6, <2>1, <2>2
       DEF Write, CreateTemp, WriteTemp, WriteFails, Unlink, Replace, Report, Raise, Crash, vars,
            ContentInv
<1> QED
  BY <1>1, <1>2, <1>3, <1>4, <1>5, <1>6 DEF Next, Compare, Stop

LEMMA InitContentInv == Init => ContentInv
BY DEF Init, ContentInv, KeysMade, Compared, Preparing

\* A finished script drops exactly what the database has and the dacpac has not.
THEOREM ScriptIsExact == Spec => []ScriptIsTheDifference
<1>1. ContentInv => ScriptIsTheDifference
  BY DEF ContentInv, ScriptIsTheDifference, Difference
<1> QED
  BY <1>1, InitTypeOK, NextTypeOK, InitEndInv, NextEndInv, InitContentInv, NextContentInv, PTL DEF Spec

\* However the command ends, nothing is left open, cut off or misreported.
THEOREM AlwaysEndsCleanly == Spec => []EndsCleanly
<1>1. ConnectionReleased /\ OnlyWholeScripts /\ ExitCodeTruthful => EndsCleanly
  BY DEF EndsCleanly
<1> QED
  BY <1>1, ScriptsAreWhole, ConnectionIsReleased, ExitCodeIsTruthful, PTL

-----------------------------------------------------------------------------
(* The order of the script. *)

\* f grows from one place to the next and leaves no number out.
Enumerates(f, k, n) ==
  /\ f \in [1..k -> 1..n]
  /\ \A i, j \in 1..k : i < j => f[i] < f[j]
  /\ \A x \in 1..n : \E i \in 1..k : f[i] = x

\* Then it is the identity: there is no first place where it is not.
LEMMA EnumerationIsIdentity ==
  ASSUME NEW n \in Nat, NEW k \in Nat, NEW f, Enumerates(f, k, n)
  PROVE  k = n /\ \A i \in 1..k : f[i] = i
<1> USE DEF Enumerates
<1> DEFINE Moved == {i \in 1..k : f[i] # i}
<1>1. Moved = {}
  <2> SUFFICES ASSUME Moved # {} PROVE FALSE
    OBVIOUS
  <2>1. PICK x \in Moved : \A y \in Moved : ~ (<<y, x>> \in OpToRel(<, Nat))
    <3>1. Moved \subseteq Nat
      OBVIOUS
    <3> HIDE DEF Moved
    <3> QED
      BY <3>1, NatLessThanWellFounded, WFMin
  <2>2. \A y \in 1..k : y < x => f[y] = y
    <3> SUFFICES ASSUME NEW y \in 1..k, y < x, f[y] # y PROVE FALSE
      OBVIOUS
    <3>1. y \in Moved /\ x \in Nat /\ y \in Nat
      OBVIOUS
    <3> QED
      BY <2>1, <3>1 DEF OpToRel
  <2>3. x \in 1..k /\ f[x] # x /\ f[x] \in 1..n
    OBVIOUS
  <2>4. f[x] > x
    <3>1. CASE x = 1
      BY <2>3, <3>1
    <3>2. CASE x # 1
      <4>1. x - 1 \in 1..k /\ x - 1 < x
        BY <2>3, <3>2
      <4>2. f[x - 1] = x - 1 /\ f[x - 1] < f[x]
        BY <2>2, <2>3, <4>1
      <4> QED
        BY <2>3, <4>2
    <3> QED
      BY <3>1, <3>2
  <2>5. x \in 1..n
    BY <2>3, <2>4
  <2>6. PICK j \in 1..k : f[j] = x
    BY <2>5
  <2>7. CASE j < x
    BY <2>2, <2>6, <2>7
  <2>8. CASE j = x
    BY <2>3, <2>6, <2>8
  <2>9. CASE j > x
    <3>1. f[x] < f[j]
      BY <2>3, <2>9
    <3> QED
      BY <2>3, <2>4, <2>6, <3>1
  <2> QED
    BY <2>3, <2>7, <2>8, <2>9
<1>2. \A i \in 1..k : f[i] = i
  BY <1>1
<1>3. k <= n
  <2>1. k = 0 \/ k \in 1..k
    OBVIOUS
  <2> QED
    BY <1>2, <2>1
<1>4. n <= k
  <2>1. n = 0 \/ n \in 1..n
    OBVIOUS
  <2> QED
    BY <1>2, <2>1
<1> QED
  BY <1>2, <1>3, <1>4

LEMMA RankType == ASSUME NEW ref \in Ref PROVE Rank(ref) \in Nat
<1>1. DOMAIN DropOrder = 1..7 /\ Len(DropOrder) = 7
  BY DEF DropOrder
<1> QED
  BY <1>1 DEF Rank, InDropOrder

\* No type follows one that is dropped later.
InRankOrder(refs) ==
  \A i, j \in DOMAIN refs :
    i < j => Rank(refs[i]) < Rank(refs[j]) \/ Rank(refs[i]) = Rank(refs[j])

OrderInv ==
  /\ pc = "render" => InRankOrder(orphans)
  /\ pc \in {"mkstemp", "write", "replace"} => script = orphans
  /\ file # "absent" => script = orphans

\* The sort arranges by type first.
LEMMA SortRanks == ASSUME TypeOK, Sort PROVE InRankOrder(orphans')
<1>1. PICK k \in 0..Len(orphans) : \E f \in [1..k -> DOMAIN orphans] :
        /\ \A i, j \in DOMAIN f : i < j => SortsBefore(f[i], f[j])
        /\ orphans' = [i \in DOMAIN f |-> orphans[f[i]]]
  BY DEF Sort, Arrangements
<1>2. PICK f \in [1..k -> DOMAIN orphans] :
        /\ \A i, j \in DOMAIN f : i < j => SortsBefore(f[i], f[j])
        /\ orphans' = [i \in DOMAIN f |-> orphans[f[i]]]
  BY <1>1
<1>3. ASSUME NEW i \in DOMAIN f, NEW j \in DOMAIN f, i < j
      PROVE  \/ Rank(orphans[f[i]]) < Rank(orphans[f[j]])
             \/ Rank(orphans[f[i]]) = Rank(orphans[f[j]])
  BY <1>2, <1>3 DEF SortsBefore
<1>4. PICK t : t = orphans'
  OBVIOUS
<1>5. DOMAIN t = DOMAIN f /\ \A i \in DOMAIN f : t[i] = orphans[f[i]]
  BY <1>2, <1>4
<1>6. InRankOrder(t)
  BY ONLY <1>3, <1>5 DEF InRankOrder
<1> QED
  BY <1>4, <1>6

\* The buckets leave a list in the order of types as it is.
LEMMA RenderKeeps ==
  ASSUME TypeOK, Render, InRankOrder(orphans), Rendered = DOMAIN orphans PROVE script' = orphans
<1>1. orphans \in Seq(Ref) /\ Len(orphans) \in Nat /\ DOMAIN orphans = 1..Len(orphans)
  BY DEF TypeOK
<1>2. PICK k \in 0..Len(orphans) : \E f \in [1..k -> 1..Len(orphans)] :
        /\ \A i, j \in DOMAIN f : i < j => RendersBefore(f[i], f[j])
        /\ \A x \in 1..Len(orphans) : \E i \in DOMAIN f : f[i] = x
        /\ script' = [i \in DOMAIN f |-> orphans[f[i]]]
  <2>1. \E k \in 0..Len(orphans) : \E f \in [1..k -> Rendered] :
          /\ \A i, j \in DOMAIN f : i < j => RendersBefore(f[i], f[j])
          /\ \A x \in Rendered : \E i \in DOMAIN f : f[i] = x
          /\ script' = [i \in DOMAIN f |-> orphans[f[i]]]
    BY DEF Render, Arrangements
  <2>2. Rendered = 1..Len(orphans)
    BY <1>1
  <2> QED
    BY ONLY <2>1, <2>2
<1>3. PICK f \in [1..k -> 1..Len(orphans)] :
        /\ \A i, j \in 1..k : i < j => RendersBefore(f[i], f[j])
        /\ \A x \in 1..Len(orphans) : \E i \in 1..k : f[i] = x
        /\ script' = [i \in 1..k |-> orphans[f[i]]]
  BY <1>2
<1>4. ASSUME NEW i \in 1..k, NEW j \in 1..k, i < j PROVE f[i] < f[j]
  <2>1. f[i] \in 1..Len(orphans) /\ f[j] \in 1..Len(orphans)
    BY <1>3
  <2>2. Rank(orphans[f[i]]) \in Nat /\ Rank(orphans[f[j]]) \in Nat
    BY <1>1, <2>1, RankType
  <2>3. RendersBefore(f[i], f[j])
    BY <1>3, <1>4
  <2>4. f[j] < f[i] => \/ Rank(orphans[f[j]]) < Rank(orphans[f[i]])
                      \/ Rank(orphans[f[j]]) = Rank(orphans[f[i]])
    BY <1>1, <2>1 DEF InRankOrder
  <2> QED
    BY <1>1, <2>1, <2>2, <2>3, <2>4 DEF RendersBefore
<1>5. k = Len(orphans) /\ \A i \in 1..k : f[i] = i
  <2>1. k \in Nat /\ \A i, j \in 1..k : i < j => f[i] < f[j]
    BY <1>1, <1>4
  <2>2. PICK n \in Nat : n = Len(orphans)
    BY <1>1
  <2>3. n \in Nat /\ f \in [1..k -> 1..n] /\ \A x \in 1..n : \E i \in 1..k : f[i] = x
    BY <1>3, <2>2
  <2>4. Enumerates(f, k, n)
    BY <2>1, <2>3 DEF Enumerates
  <2>5. k = n /\ \A i \in 1..k : f[i] = i
    BY ONLY <2>1, <2>3, <2>4, EnumerationIsIdentity
  <2> QED
    BY <2>2, <2>5
<1>6. [i \in 1..k |-> orphans[f[i]]] = [i \in 1..Len(orphans) |-> orphans[i]]
  BY <1>5
<1> QED
  BY <1>1, <1>3, <1>6

\* Every object that is collected gets a statement.
LEMMA AllRendered == ASSUME TypeOK, ContentInv, pc = "render" PROVE Rendered = DOMAIN orphans
<1>1. Orphans = Difference
  BY DEF ContentInv, Compared
<1> SUFFICES ASSUME NEW i \in DOMAIN orphans PROVE i \in Rendered
  BY DEF Rendered
<1>2. orphans[i] \in Ref /\ orphans[i].type # "UNKNOWN"
  BY <1>1 DEF Orphans, Difference, IsOrphan, TypeOK
<1> QED
  BY <1>2, OrderIsTotal DEF Rendered, HasStatement

LEMMA NextOrderInv ==
  TypeOK /\ EndInv /\ ContentInv /\ OrderInv /\ [Next]_vars => OrderInv'
<1> SUFFICES ASSUME TypeOK, EndInv, ContentInv, OrderInv, [Next]_vars PROVE OrderInv'
  OBVIOUS
<1>1. CASE Prepare
  BY <1>1 DEF Prepare, RejectArguments, AcceptArguments, Compose, LoadDacpac, GetToken, OpenConnection,
       ListLive, ListFails, CloseConnection, CloseAndRaise, Exit, OrderInv
<1>2. CASE PassOver \/ WarnUnknown \/ CollectOrphan \/ FinishCollecting
  BY <1>2 DEF PassOver, WarnUnknown, CollectOrphan, FinishCollecting, Collecting, EndInv, OrderInv
<1>3. CASE Sort
  BY <1>3, SortRanks DEF Sort, EndInv, OrderInv
<1>4. CASE Render
  <2>1. pc = "render" /\ pc' = "mkstemp" /\ orphans' = orphans /\ file' = file
    BY <1>4 DEF Render
  <2>2. script' = orphans
    BY <1>4, <2>1, AllRendered, RenderKeeps DEF OrderInv
  <2> QED
    BY <2>1, <2>2 DEF OrderInv
<1>5. CASE Write
  BY <1>5 DEF Write, CreateTemp, WriteTemp, WriteFails, Unlink, Replace, Report, Exit, OrderInv
<1>6. CASE Raise \/ Crash \/ UNCHANGED vars
  <2>1. /\ orphans' = orphans /\ script' = script /\ file' = file
        /\ pc' = pc \/ pc' \in {"ended", "killed"}
    BY <1>6 DEF Raise, Crash, Exit, vars
  <2>2. InRankOrder(orphans) <=> InRankOrder(orphans')
    BY <2>1
  <2> QED
    BY <2>1, <2>2 DEF OrderInv
<1> QED
  BY <1>1, <1>2, <1>3, <1>4, <1>5, <1>6 DEF Next, Compare, Stop

\* What a finished command reports as dropped is its script, in the same order.
THEOREM ScriptIsReported == Spec => []ScriptIsWhatIsReported
<1>1. Init => OrderInv
  BY DEF Init, OrderInv
<1>2. OrderInv => ScriptIsWhatIsReported
  BY DEF OrderInv, ScriptIsWhatIsReported
<1> QED
  BY <1>1, <1>2, InitTypeOK, NextTypeOK, InitEndInv, NextEndInv, InitContentInv, NextContentInv,
     NextOrderInv, PTL DEF Spec

=============================================================================
