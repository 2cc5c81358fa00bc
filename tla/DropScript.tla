----------------------------- MODULE DropScript -----------------------------
(***************************************************************************)
(* The drop-script command: what the live database has and the dacpac does *)
(* not, dropped type by type, in a script that appears under its name only *)
(* when it is complete.                                                    *)
(***************************************************************************)
EXTENDS Integers, Sequences

CONSTANTS
  Names,      \* spellings of schemas and objects
  Lower,      \* folds case; numbers are in alphabetical order
  Inputs,     \* what a run may be given
  Crashes     \* may the process be killed?

Types ==
  {"SYNONYM", "EXTERNAL_TABLE", "VIEW", "PROCEDURE", "SCALAR_FUNCTION",
   "TABLE_VALUED_FUNCTION", "TABLE", "UNKNOWN"}

DropOrder ==
  <<"SYNONYM", "EXTERNAL_TABLE", "VIEW", "PROCEDURE", "SCALAR_FUNCTION",
    "TABLE_VALUED_FUNCTION", "TABLE">>

Ref == [schema : Names, name : Names, type : Types]

Input ==
  [dacpac_exists : BOOLEAN, connection_named : BOOLEAN,
   dacpac  : SUBSET Ref,
   schemas : SUBSET Types,            \* types this DacFx has a ModelSchema for
   live    : Seq(Ref),                \* in the order of the query
   filtered : BOOLEAN,                \* --schemas is there and not empty
   filter  : SUBSET Names]            \* what its commas separate

ASSUME DropAssumption ==
  /\ Lower \in [Names -> Nat]
  /\ Inputs \subseteq Input
  /\ Crashes \in BOOLEAN

-----------------------------------------------------------------------------
VARIABLES
  input,      \* never changes
  pc,
  keys,       \* dacpac_keys
  connected,  \* the connection is open
  at,         \* position in db_objects
  orphans,
  warnings,   \* positions of the objects warned about
  script,     \* the statements rendered, as the objects they drop
  temp,       \* the temporary file
  file,       \* the file under its final name
  exit

vars == <<input, pc, keys, connected, at, orphans, warnings, script, temp, file, exit>>

FileState == {"absent", "partial", "whole"}
Calls == {"load", "token", "open", "mkstemp"}
Labels ==
  {"arguments", "compose", "list", "close", "collect", "giveup", "sort", "render", "write", "replace",
   "unlink", "report", "ended", "killed"} \cup Calls

NoExit == -1

Init ==
  /\ input \in Inputs
  /\ pc = "arguments"
  /\ keys = {}
  /\ connected = FALSE
  /\ at = 1
  /\ orphans = << >>
  /\ warnings = {}
  /\ script = << >>
  /\ temp = "absent" /\ file = "absent"
  /\ exit = NoExit

Exit(code) == pc' = "ended" /\ exit' = code

\* _key
Key(ref) == <<Lower[ref.schema], Lower[ref.name], ref.type>>

-----------------------------------------------------------------------------
(* The command line, and what execute does before it compares. *)

ArgumentsHold ==
  /\ input.dacpac_exists /\ input.connection_named
  /\ input.filtered => input.filter # {}

RejectArguments ==
  /\ pc = "arguments" /\ ~ ArgumentsHold
  /\ Exit(2)
  /\ UNCHANGED <<input, keys, connected, at, orphans, warnings, script, temp, file>>

AcceptArguments ==
  /\ pc = "arguments" /\ ArgumentsHold
  /\ pc' = "compose"
  /\ UNCHANGED <<input, keys, connected, at, orphans, warnings, script, temp, file, exit>>

\* build_drop_script_use_case initialises the CLR.
Compose ==
  /\ pc = "compose"
  /\ \/ pc' = "load" /\ exit' = exit
     \/ Exit(4)
  /\ UNCHANGED <<input, keys, connected, at, orphans, warnings, script, temp, file>>

\* list_all_objects passes over the types that have no ModelSchema.
Listed == {ref \in input.dacpac : ref.type \in input.schemas}

LoadDacpac ==
  /\ pc = "load"
  /\ keys' = {Key(ref) : ref \in Listed}
  /\ pc' = "token"
  /\ UNCHANGED <<input, connected, at, orphans, warnings, script, temp, file, exit>>

GetToken ==
  /\ pc = "token"
  /\ pc' = "open"
  /\ UNCHANGED <<input, keys, connected, at, orphans, warnings, script, temp, file, exit>>

OpenConnection ==
  /\ pc = "open"
  /\ connected' = TRUE
  /\ pc' = "list"
  /\ UNCHANGED <<input, keys, at, orphans, warnings, script, temp, file, exit>>

ListLive ==
  /\ pc = "list"
  /\ pc' = "close"
  /\ UNCHANGED <<input, keys, connected, at, orphans, warnings, script, temp, file, exit>>

\* Mutant of ListFails: no finally around the query.
ListFailsOpen ==
  /\ pc = "list"
  /\ Exit(1)
  /\ UNCHANGED <<input, keys, connected, at, orphans, warnings, script, temp, file>>

ListFails ==
  /\ pc = "list"
  /\ pc' = "giveup"
  /\ UNCHANGED <<input, keys, connected, at, orphans, warnings, script, temp, file, exit>>

\* close swallows what it is told.
CloseConnection ==
  /\ pc = "close"
  /\ connected' = FALSE
  /\ pc' = "collect"
  /\ UNCHANGED <<input, keys, at, orphans, warnings, script, temp, file, exit>>

CloseAndRaise ==
  /\ pc = "giveup"
  /\ connected' = FALSE
  /\ Exit(1)
  /\ UNCHANGED <<input, keys, at, orphans, warnings, script, temp, file>>

-----------------------------------------------------------------------------
(* One object of the database at a time. *)

Here == input.live[at]
InFilter(ref) ==
  input.filtered => \E s \in input.filter : Lower[s] = Lower[ref.schema]

\* Mutant of InDacpac: names are compared as they are spelled.
InDacpacSpelled(ref) == ref \in Listed
InDacpac(ref) == Key(ref) \in keys

Collecting == pc = "collect" /\ at <= Len(input.live)

PassOver ==
  /\ Collecting
  /\ \/ ~ InFilter(Here)
     \/ Here.type # "UNKNOWN" /\ InDacpac(Here)
  /\ at' = at + 1
  /\ UNCHANGED <<input, pc, keys, connected, orphans, warnings, script, temp, file, exit>>

WarnUnknown ==
  /\ Collecting
  /\ InFilter(Here) /\ Here.type = "UNKNOWN"
  /\ warnings' = warnings \cup {at}
  /\ at' = at + 1
  /\ UNCHANGED <<input, pc, keys, connected, orphans, script, temp, file, exit>>

CollectOrphan ==
  /\ Collecting
  /\ InFilter(Here) /\ Here.type # "UNKNOWN" /\ ~ InDacpac(Here)
  /\ orphans' = Append(orphans, Here)
  /\ at' = at + 1
  /\ UNCHANGED <<input, pc, keys, connected, warnings, script, temp, file, exit>>

FinishCollecting ==
  /\ pc = "collect" /\ at > Len(input.live)
  /\ pc' = "sort"
  /\ UNCHANGED <<input, keys, connected, at, orphans, warnings, script, temp, file, exit>>

-----------------------------------------------------------------------------
(* sort and _render. *)

\* The members of I, arranged by Before.
Arrangements(I, n, Before(_, _)) ==
  {f \in UNION {[1..k -> I] : k \in 0..n} :
     /\ \A i, j \in DOMAIN f : i < j => Before(f[i], f[j])
     /\ \A x \in I : \E i \in DOMAIN f : f[i] = x}

InDropOrder(ref) == \E k \in DOMAIN DropOrder : DropOrder[k] = ref.type

\* The place of a type in the order, or the place behind the last.
Rank(ref) ==
  IF InDropOrder(ref) THEN CHOOSE k \in DOMAIN DropOrder : DropOrder[k] = ref.type
  ELSE Len(DropOrder) + 1

\* The sort is stable.
SortsBefore(i, j) ==
  LET a == orphans[i]
      b == orphans[j]
  IN  \/ Rank(a) < Rank(b)
      \/ /\ Rank(a) = Rank(b)
         /\ \/ Lower[a.schema] < Lower[b.schema]
            \/ /\ Lower[a.schema] = Lower[b.schema]
               /\ \/ Lower[a.name] < Lower[b.name]
                  \/ Lower[a.name] = Lower[b.name] /\ i < j

Sort ==
  /\ pc = "sort"
  /\ \E f \in Arrangements(DOMAIN orphans, Len(orphans), SortsBefore) :
       orphans' = [i \in DOMAIN f |-> orphans[f[i]]]
  /\ pc' = "render"
  /\ UNCHANGED <<input, keys, connected, at, warnings, script, temp, file, exit>>

\* Mutant of HasStatement: _drop_statement has no case for table-valued functions.
HasStatementButFunctions(ref) ==
  ref.type \notin {"UNKNOWN", "TABLE_VALUED_FUNCTION"}
HasStatement(ref) == ref.type # "UNKNOWN"

\* Buckets in the order of types, each in the order of orphans.
Rendered == {i \in DOMAIN orphans : InDropOrder(orphans[i]) /\ HasStatement(orphans[i])}
RendersBefore(i, j) ==
  \/ Rank(orphans[i]) < Rank(orphans[j])
  \/ Rank(orphans[i]) = Rank(orphans[j]) /\ i < j

Render ==
  /\ pc = "render"
  /\ \E f \in Arrangements(Rendered, Len(orphans), RendersBefore) :
       script' = [i \in DOMAIN f |-> orphans[f[i]]]
  /\ pc' = "mkstemp"
  /\ UNCHANGED <<input, keys, connected, at, orphans, warnings, temp, file, exit>>

-----------------------------------------------------------------------------
(* atomic_write_text *)

CreateTemp ==
  /\ pc = "mkstemp"
  /\ temp' = "partial"
  /\ pc' = "write"
  /\ UNCHANGED <<input, keys, connected, at, orphans, warnings, script, file, exit>>

WriteTemp ==
  /\ pc = "write"
  /\ temp' = "whole"
  /\ pc' = "replace"
  /\ UNCHANGED <<input, keys, connected, at, orphans, warnings, script, file, exit>>

\* The disk is full, the name is taken by a directory, the file is open elsewhere.
WriteFails ==
  /\ pc \in {"write", "replace"}
  /\ pc' = "unlink"
  /\ UNCHANGED <<input, keys, connected, at, orphans, warnings, script, temp, file, exit>>

Unlink ==
  /\ pc = "unlink"
  /\ temp' = "absent"
  /\ Exit(1)
  /\ UNCHANGED <<input, keys, connected, at, orphans, warnings, script, file>>

Replace ==
  /\ pc = "replace"
  /\ file' = temp
  /\ temp' = "absent"
  /\ pc' = "report"
  /\ UNCHANGED <<input, keys, connected, at, orphans, warnings, script, exit>>

\* The arrow in the summary has no place in the code page of a redirected output:
\* printing may raise, behind the handler.
Report ==
  /\ pc = "report"
  /\ Exit(0) \/ Exit(1)
  /\ UNCHANGED <<input, keys, connected, at, orphans, warnings, script, temp, file>>

-----------------------------------------------------------------------------

\* A call outside any handler of execute raises.
Raise ==
  /\ pc \in Calls
  /\ Exit(1)
  /\ UNCHANGED <<input, keys, connected, at, orphans, warnings, script, temp, file>>

\* The process is killed; its connection goes with it.
Crash ==
  /\ Crashes
  /\ pc \notin {"ended", "killed"}
  /\ pc' = "killed"
  /\ connected' = FALSE
  /\ UNCHANGED <<input, keys, at, orphans, warnings, script, temp, file, exit>>

Stop == pc \in {"ended", "killed"} /\ UNCHANGED vars

Prepare ==
  \/ RejectArguments \/ AcceptArguments \/ Compose \/ LoadDacpac \/ GetToken
  \/ OpenConnection \/ ListLive \/ ListFails \/ CloseConnection \/ CloseAndRaise

Compare == PassOver \/ WarnUnknown \/ CollectOrphan \/ FinishCollecting \/ Sort \/ Render

Write == CreateTemp \/ WriteTemp \/ WriteFails \/ Unlink \/ Replace \/ Report

Next == Prepare \/ Compare \/ Write \/ Raise \/ Crash \/ Stop

Spec == Init /\ [][Next]_vars

-----------------------------------------------------------------------------
TypeOK ==
  /\ input \in Input
  /\ pc \in Labels
  /\ keys \subseteq Nat \X Nat \X Types
  /\ connected \in BOOLEAN
  /\ at \in 1..(Len(input.live) + 1)
  /\ orphans \in Seq(Ref)
  /\ warnings \subseteq 1..Len(input.live)
  /\ script \in Seq(Ref)
  /\ temp \in FileState /\ file \in FileState
  /\ exit \in {NoExit, 0, 1, 2, 4}

\* The objects to drop, said without loop, keys or order: recognised, in a
\* schema asked for, and unlike everything of the same type in the dacpac.
IsOrphan(ref) ==
  /\ ref.type # "UNKNOWN"
  /\ InFilter(ref)
  /\ ~ \E own \in Listed :
         /\ own.type = ref.type
         /\ Lower[own.schema] = Lower[ref.schema] /\ Lower[own.name] = Lower[ref.name]

Statements == {script[i] : i \in DOMAIN script}
LiveRefs == {input.live[i] : i \in DOMAIN input.live}

\* A finished script drops exactly the orphans: none is lost on the way through
\* the comparison, the sort, the buckets and the statements, none is added.
ScriptIsTheDifference ==
  file # "absent" => Statements = {ref \in LiveRefs : IsOrphan(ref)}

\* What the command reports as dropped, its header counts, and its script are one
\* list in one order, though they are arranged by two different tables.
ScriptIsWhatIsReported == file # "absent" => script = orphans

\* The connection is not open once the query is over, on any path.
ConnectionReleased == connected => pc \in {"list", "close", "giveup"}

\* Nobody sees part of a script, not even after a crash; and only a crash leaves a
\* temporary file behind.
OnlyWholeScripts == file # "partial" /\ (pc = "ended" => temp = "absent")

\* Exit code 0 means there is a script, 2 and 4 that there is none. (1 does not
\* say: Report.)
ExitCodeTruthful ==
  pc = "ended" => (exit = 0 => file = "whole") /\ (exit \in {2, 4} => file = "absent")

\* However the command ends, it leaves no connection open, no part of a script and no
\* exit code that says otherwise.
EndsCleanly == ConnectionReleased /\ OnlyWholeScripts /\ ExitCodeTruthful
=============================================================================
