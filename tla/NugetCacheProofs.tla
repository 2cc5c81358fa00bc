-------------------------- MODULE NugetCacheProofs --------------------------
(* Theorems about the cache, for any processes, packages, versions and      *)
(* settings.                                                                *)
EXTENDS NugetCache, TLAPS

\* A process that is still resolving has a package to resolve.
Resolving ==
  {"idle", "probe", "resolve", "ensure", "download", "save", "saving", "open", "extract",
   "writing", "check"}

Fetching == {"ensure", "download", "save", "saving", "open", "extract", "writing", "check"}

Progressing ==
  \A p \in Procs :
    /\ pc[p] \in Resolving => Len(got[p]) < Len(PackageOrder)
    /\ pc[p] \in Fetching => version[p] \in Versions
    /\ pc[p] = "writing" => todo[p] # << >>

TypeInv == TypeOK /\ Progressing

LEMMA PackageType ==
  ASSUME TypeInv, NEW p \in Procs, pc[p] \in Resolving
  PROVE  Package(p) \in Packages
<1>1. Len(got[p]) \in Nat /\ Len(got[p]) < Len(PackageOrder) /\ Len(PackageOrder) \in Nat
      /\ PackageOrder \in Seq(Packages)
  BY CacheAssumption DEF TypeInv, TypeOK, Progressing
<1>2. Len(got[p]) + 1 \in DOMAIN PackageOrder
  BY ONLY <1>1
<1> QED
  BY ONLY <1>1, <1>2 DEF Package

LEMMA TargetType ==
  ASSUME TypeInv, NEW p \in Procs, pc[p] \in Fetching PROVE Target(p) \in Dirs
<1>1. version[p] \in Versions
  BY DEF TypeInv, Progressing
<1> QED
  BY <1>1, PackageType DEF Target, Dirs, Resolving, Fetching

LEMMA AnsweredTyped ==
  ASSUME TypeInv, NEW p \in Procs, pc[p] \in Resolving, NEW from \in From,
         NEW v \in Versions \cup {Latest}, Answered(p, from, v),
         died' \in [Procs -> {"idle", "writing", "configuring"}]
  PROVE  TypeInv'
<1>1. /\ got[p] \in Seq(Answer) /\ got \in [Procs -> Seq(Answer)] /\ pc \in [Procs -> Labels]
      /\ Len(got[p]) < Len(PackageOrder) /\ Len(PackageOrder) \in Nat
  BY CacheAssumption DEF TypeInv, TypeOK, Progressing
<1>2. [from |-> from, version |-> v] \in Answer
  BY DEF Answer
<1>3. PICK a \in Answer : got' = [got EXCEPT ![p] = Append(@, a)]
  BY <1>2 DEF Answered
<1>4. Append(got[p], a) \in Seq(Answer) /\ Len(Append(got[p], a)) = Len(got[p]) + 1
  BY ONLY <1>1, <1>3
<1>5. got' \in [Procs -> Seq(Answer)] /\ got'[p] = Append(got[p], a)
      /\ \A q \in Procs : q # p => got'[q] = got[q]
  BY ONLY <1>1, <1>3, <1>4
<1>6. PICK label \in {"resolved", "probe"} : 
         /\ pc' = [pc EXCEPT ![p] = label]
         /\ label = "probe" => Len(got[p]) + 1 # Len(PackageOrder)
  BY DEF Answered, Goto
<1>7. pc' \in [Procs -> Labels] /\ pc'[p] = label /\ \A q \in Procs : q # p => pc'[q] = pc[q]
  BY <1>1, <1>6 DEF Labels
<1>8. TypeOK'
  BY <1>5, <1>7 DEF Answered, disk, TypeInv, TypeOK
<1>9. Progressing'
  <2> SUFFICES ASSUME NEW q \in Procs
               PROVE  /\ pc'[q] \in Resolving => Len(got'[q]) < Len(PackageOrder)
                      /\ pc'[q] \in Fetching => version'[q] \in Versions
                      /\ pc'[q] = "writing" => todo'[q] # << >>
    BY DEF Progressing
  <2>1. CASE q = p
    <3>1. Len(got[p]) \in Nat
      BY ONLY <1>1
    <3>2. label = "probe" => Len(got'[p]) < Len(PackageOrder)
      BY ONLY <1>1, <1>4, <1>5, <1>6, <3>1
    <3>3. label = "probe" \/ label = "resolved"
      BY ONLY <1>6
    <3> QED
      BY ONLY <1>7, <2>1, <3>2, <3>3 DEF Fetching, Resolving
  <2>2. CASE q # p
    BY <1>5, <1>7, <2>2 DEF Answered, TypeInv, Progressing
  <2> QED
    BY <2>1, <2>2
<1> QED
  BY <1>8, <1>9 DEF TypeInv

LEMMA DiedTyped ==
  ASSUME TypeInv, UNCHANGED died \/ \E p \in Procs : Crash(p)
  PROVE  died' \in [Procs -> {"idle", "writing", "configuring"}]
  BY DEF TypeInv, TypeOK, Crash

LEMMA NextTypeInv == TypeInv /\ [Next]_vars => TypeInv'
<1> SUFFICES ASSUME TypeInv, [Next]_vars PROVE TypeInv'
  OBVIOUS
<1>0. died' \in [Procs -> {"idle", "writing", "configuring"}]
  BY DiedTyped DEF Next, AllEnded, vars
<1> USE <1>0 DEF Resolving, Fetching
<1>1. ASSUME NEW p \in Procs, Start(p) PROVE TypeInv'
  <2>1. Detected(p) \in Tfms
    BY CacheAssumption DEF Detected
  <2> QED
    BY <1>1, <2>1 DEF TypeInv, TypeOK, Progressing, Start, Goto, Labels, disk
<1>2. ASSUME NEW p \in Procs, Probe(p) PROVE TypeInv'
  <2>1. ASSUME NothingProbed(p) PROVE TypeInv'
    BY <2>1 DEF TypeInv, TypeOK, Progressing, NothingProbed, Goto, Labels, disk
  <2>2. ASSUME UseHint(p) \/ UseTool(p) \/ UseSsdt(p) \/ UseCached(p) PROVE TypeInv'
    <3>1. PICK from \in From, v \in Versions \cup {Latest} : Answered(p, from, v)
      BY <2>2 DEF UseHint, UseTool, UseSsdt, UseCached, From, CachedVersions, HasDll
    <3>2. pc[p] \in Resolving
      BY <2>2 DEF UseHint, UseTool, UseSsdt, UseCached
    <3> QED
      BY <3>1, <3>2, AnsweredTyped
  <2> QED
    BY <1>2, <2>1, <2>2 DEF Probe
<1>3. ASSUME NEW p \in Procs,
             \/ CacheHit(p) \/ CacheMiss(p) \/ FeedFails(p) \/ Download(p) \/ NupkgBroken(p)
             \/ NotContained(p) \/ InstallEnds(p) \/ FindConfig(p) \/ LoadAssemblies(p) \/ Crash(p)
      PROVE  TypeInv'
  <2>1. UNCHANGED <<settings, tfm, got, version, todo, disk>>
    BY <1>3 DEF CacheHit, CacheMiss, FeedFails, Download, NupkgBroken, NotContained, InstallEnds,
                FindConfig, LoadAssemblies, Crash
  <2>2. \E label \in Labels :
          /\ pc' = [pc EXCEPT ![p] = label] /\ label # "writing"
          /\ label \in Resolving => pc[p] \in Resolving
          /\ label \in Fetching => pc[p] \in Fetching
    BY <1>3 DEF CacheHit, CacheMiss, FeedFails, Download, NupkgBroken, NotContained, InstallEnds,
                FindConfig, LoadAssemblies, Crash, Goto, Labels, Ended
  <2> QED
    BY <2>1, <2>2 DEF TypeInv, TypeOK, Progressing, disk
<1>4. ASSUME NEW p \in Procs, ResolveVersion(p) PROVE TypeInv'
  BY <1>4 DEF TypeInv, TypeOK, Progressing, ResolveVersion, Goto, Labels, disk
<1>5. ASSUME NEW p \in Procs, CreateNupkg(p) \/ WriteNupkg(p) PROVE TypeInv'
  BY <1>5, TargetType DEF TypeInv, TypeOK, Progressing, CreateNupkg, WriteNupkg, Goto, Labels, FileState
<1>6. ASSUME NEW p \in Procs, OpenNupkg(p) PROVE TypeInv'
  BY <1>6, TargetType, CacheAssumption DEF TypeInv, TypeOK, Progressing, OpenNupkg, Goto, Labels, disk
<1>7. ASSUME NEW p \in Procs, CreateEntry(p) PROVE TypeInv'
  <2>1. Target(p) \in Dirs /\ pc[p] = "extract" /\ todo[p] # << >> /\ todo[p] \in Seq(Tfms)
    BY <1>7, TargetType DEF CreateEntry, TypeInv, TypeOK
  <2>2. Head(todo[p]) \in Tfms
    BY ONLY <2>1
  <2>3. content' \in [Dirs -> [Tfms -> FileState]]
    BY <1>7, <2>1, <2>2 DEF CreateEntry, TypeInv, TypeOK, FileState
  <2> QED
    BY <1>7, <2>1, <2>3 DEF TypeInv, TypeOK, Progressing, CreateEntry, Goto, Labels
<1>8. ASSUME NEW p \in Procs, WriteEntry(p) PROVE TypeInv'
  <2>1. Target(p) \in Dirs /\ pc[p] = "writing" /\ todo[p] # << >> /\ todo[p] \in Seq(Tfms)
    BY <1>8, TargetType DEF WriteEntry, TypeInv, TypeOK, Progressing
  <2>2. Head(todo[p]) \in Tfms /\ Tail(todo[p]) \in Seq(Tfms)
    BY ONLY <2>1
  <2>3. content' \in [Dirs -> [Tfms -> FileState]]
    BY <1>8, <2>1, <2>2 DEF WriteEntry, TypeInv, TypeOK, FileState
  <2>4. todo' \in [Procs -> Seq(Tfms)]
    BY <1>8, <2>2 DEF WriteEntry, TypeInv, TypeOK
  <2> QED
    BY <1>8, <2>1, <2>3, <2>4 DEF TypeInv, TypeOK, Progressing, WriteEntry, Goto, Labels
<1>9. ASSUME NEW p \in Procs, Mark(p) PROVE TypeInv'
  BY <1>9, TargetType DEF TypeInv, TypeOK, Progressing, Mark, Goto, Labels
<1>10. ASSUME NEW p \in Procs, Fetched(p) \/ DoWithout(p) PROVE TypeInv'
  <2>1. pc[p] = "check" /\ \E from \in From : \E v \in Versions \cup {Latest} : Answered(p, from, v)
    BY <1>10 DEF Fetched, DoWithout, TypeInv, Progressing, From
  <2> QED
    BY <2>1, AnsweredTyped
<1>11. ASSUME NEW p \in Procs, CreateConfig(p) \/ WriteConfig(p) PROVE TypeInv'
  BY <1>11 DEF TypeInv, TypeOK, Progressing, CreateConfig, WriteConfig, Goto, Labels, FileState
<1>12. CASE UNCHANGED vars
  BY <1>12 DEF TypeInv, TypeOK, Progressing, vars, process, disk
<1> QED
  BY <1>1, <1>2, <1>3, <1>4, <1>5, <1>6, <1>7, <1>8, <1>9, <1>10, <1>11, <1>12
     DEF Next, Step, Ensure, Initialize, AllEnded

\* Every reachable state is well typed.
THEOREM TypeCorrect == Spec => []TypeOK
<1>1. Init => TypeInv
  <2> SUFFICES ASSUME Init PROVE TypeInv
    OBVIOUS
  <2>1. TypeOK
    BY CacheAssumption DEF Init, TypeOK, Labels, FileState
  <2>2. \A p \in Procs : Len(got[p]) = 0
    BY DEF Init
  <2>3. Progressing
    BY <2>2, CacheAssumption DEF Init, Progressing, Fetching
  <2> QED
    BY <2>1, <2>3 DEF TypeInv
<1>2. TypeInv => TypeOK
  BY DEF TypeInv
<1> QED
  BY <1>1, <1>2, NextTypeInv, PTL DEF Spec

-----------------------------------------------------------------------------
(* The marker.  A process that extracts rewrites files another has finished, *)
(* so a file is sound when it is whole or when somebody is writing it.  A    *)
(* process killed while it writes ruins a file for good: the marker tells    *)
(* the truth as long as that cannot happen in a directory already marked,    *)
(* that is, unless processes both overlap and crash.                         *)

Sound(d, t) == content[d][t] = "whole" \/ BeingWritten(d, t)

Extracting == {"download", "save", "saving", "open", "extract", "writing"}

Alone == ~ Overlap => \A p, q \in Procs : Running(p) /\ Running(q) => p = q

Unmarked == ~ Overlap => \A p \in Procs : pc[p] \in Extracting => Target(p) \notin marker

\* What p has no longer to extract is sound, and what it has is of the package.
Extracted ==
  \A p \in Procs : pc[p] \in {"extract", "writing"} =>
    /\ \A i \in DOMAIN Entries[Target(p)] :
         \/ \E j \in DOMAIN todo[p] : todo[p][j] = Entries[Target(p)][i]
         \/ Sound(Target(p), Entries[Target(p)][i])
    /\ \A j \in DOMAIN todo[p] : \E i \in DOMAIN Entries[Target(p)] :
         todo[p][j] = Entries[Target(p)][i]

OnlyEntries ==
  \A d \in Dirs : \A t \in Tfms :
    content[d][t] # "absent" => \E i \in DOMAIN Entries[d] : Entries[d][i] = t

Ensured ==
  /\ \A p \in Procs : pc[p] = "idle" => got[p] = << >>
  /\ \A p \in Procs : pc[p] = "check" => Target(p) \in marker
  /\ \A p \in Procs : \A i \in Answers(p) :
       got[p][i].from = "nuget-fetch" =>
         /\ <<PackageOrder[i], got[p][i].version>> \in marker
         /\ StateOf(p, i) # "absent"

CacheInv ==
  TypeInv /\ Alone /\ Unmarked /\ Extracted /\ OnlyEntries /\ Ensured /\ MarkedIsWhole

\* A step of p changes nothing of the other processes.
LEMMA OthersUnchanged ==
  ASSUME TypeInv, NEW p \in Procs, Step(p) \/ Crash(p), NEW q \in Procs, q # p
  PROVE  /\ pc'[q] = pc[q] /\ tfm'[q] = tfm[q] /\ got'[q] = got[q]
         /\ version'[q] = version[q] /\ todo'[q] = todo[q]
         /\ Target(q)' = Target(q)
<1>1. /\ pc'[q] = pc[q] /\ tfm'[q] = tfm[q] /\ got'[q] = got[q]
      /\ version'[q] = version[q] /\ todo'[q] = todo[q]
  BY DEF TypeInv, TypeOK, Step, Crash, Start, Probe, UseHint, UseTool, UseCached, UseSsdt,
         NothingProbed, Ensure, ResolveVersion, CacheHit, CacheMiss, FeedFails, Download,
         CreateNupkg, WriteNupkg, OpenNupkg, NupkgBroken, CreateEntry, WriteEntry, Mark, Fetched,
         NotContained, DoWithout, Initialize, InstallEnds, FindConfig, CreateConfig, WriteConfig,
         LoadAssemblies, Answered, Goto
<1> QED
  BY <1>1 DEF Target, Package

\* Only three steps touch the extracted files or the marker.
LEMMA DiskUnchanged ==
  ASSUME NEW p \in Procs, Step(p) \/ Crash(p), ~ CreateEntry(p), ~ WriteEntry(p), ~ Mark(p)
  PROVE  content' = content /\ marker' = marker
BY DEF Step, Crash, Start, Probe, UseHint, UseTool, UseCached, UseSsdt,
       NothingProbed, Ensure, ResolveVersion, CacheHit, CacheMiss, FeedFails, Download,
       CreateNupkg, WriteNupkg, OpenNupkg, NupkgBroken, Fetched, NotContained, DoWithout,
       Initialize, InstallEnds, FindConfig, CreateConfig, WriteConfig, LoadAssemblies, Answered, disk

\* Writing, a process can only finish or be killed.
LEMMA WritingGoesOn ==
  ASSUME TypeInv, NEW p \in Procs, Step(p), pc[p] = "writing"
  PROVE  WriteEntry(p)
BY DEF Step, Start, Probe, UseHint, UseTool, UseCached, UseSsdt,
       NothingProbed, Ensure, ResolveVersion, CacheHit, CacheMiss, FeedFails, Download,
       CreateNupkg, WriteNupkg, OpenNupkg, NupkgBroken, CreateEntry, Mark, Fetched, NotContained,
       DoWithout, Initialize, InstallEnds, FindConfig, CreateConfig, WriteConfig, LoadAssemblies

\* The entry p is at.
LEMMA EntryType ==
  ASSUME TypeInv, NEW p \in Procs, CreateEntry(p) \/ WriteEntry(p)
  PROVE  /\ Target(p) \in Dirs /\ Head(todo[p]) \in Tfms
         /\ todo[p] \in Seq(Tfms) /\ todo[p] # << >>
         /\ pc \in [Procs -> Labels] /\ content \in [Dirs -> [Tfms -> FileState]]
         /\ Target(p)' = Target(p)
<1>1. /\ todo[p] \in Seq(Tfms) /\ todo[p] # << >> /\ pc[p] \in Fetching
      /\ pc \in [Procs -> Labels] /\ content \in [Dirs -> [Tfms -> FileState]]
  BY DEF CreateEntry, WriteEntry, TypeInv, TypeOK, Progressing, Fetching
<1>2. Head(todo[p]) \in Tfms
  BY ONLY <1>1
<1>3. Target(p)' = Target(p)
  BY DEF CreateEntry, WriteEntry, Target, Package
<1> QED
  BY <1>1, <1>2, <1>3, TargetType

LEMMA SoundKept ==
  ASSUME TypeInv, NEW p \in Procs, NEW d \in Dirs, NEW t \in Tfms, Sound(d, t),
         Step(p) \/ (Crash(p) /\ ~ IsWriting(p, d, t))
  PROVE  Sound(d, t)'
<1>1. CASE CreateEntry(p)
  <2>1. /\ pc'[p] = "writing" /\ todo' = todo /\ Target(p)' = Target(p)
        /\ content' = [content EXCEPT ![Target(p)][Head(todo[p])] = "partial"]
    BY <1>1, EntryType DEF CreateEntry, Goto
  <2>2. CASE d = Target(p) /\ t = Head(todo[p])
    BY <2>1, <2>2 DEF Sound, BeingWritten, IsWriting
  <2>3. CASE ~ (d = Target(p) /\ t = Head(todo[p]))
    <3>1. content'[d][t] = content[d][t]
      BY <2>1, <2>3, <1>1, EntryType
    <3>2. CASE content[d][t] = "whole"
      BY <3>1, <3>2 DEF Sound
    <3>3. ASSUME NEW q \in Procs, IsWriting(q, d, t) PROVE Sound(d, t)'
      <4>1. q # p
        BY <1>1, <3>3 DEF CreateEntry, IsWriting
      <4> QED
        BY <1>1, <3>3, <4>1, OthersUnchanged DEF IsWriting, BeingWritten, Sound, Step, Ensure
    <3> QED
      BY <3>2, <3>3 DEF Sound, BeingWritten
  <2> QED
    BY <2>2, <2>3
<1>2. CASE WriteEntry(p)
  <2>1. content' = [content EXCEPT ![Target(p)][Head(todo[p])] = "whole"]
    BY <1>2 DEF WriteEntry
  <2>2. CASE d = Target(p) /\ t = Head(todo[p])
    BY <2>1, <2>2, <1>2, EntryType DEF Sound
  <2>3. CASE ~ (d = Target(p) /\ t = Head(todo[p]))
    <3>1. content'[d][t] = content[d][t]
      BY <2>1, <2>3, <1>2, EntryType
    <3>2. CASE content[d][t] = "whole"
      BY <3>1, <3>2 DEF Sound
    <3>3. ASSUME NEW q \in Procs, IsWriting(q, d, t) PROVE Sound(d, t)'
      <4>1. q # p
        BY <2>3, <3>3 DEF IsWriting
      <4> QED
        BY <1>2, <3>3, <4>1, OthersUnchanged DEF IsWriting, BeingWritten, Sound, Step, Ensure
    <3> QED
      BY <3>2, <3>3 DEF Sound, BeingWritten
  <2> QED
    BY <2>2, <2>3
<1>3. CASE ~ CreateEntry(p) /\ ~ WriteEntry(p)
  <2>1. content' = content
    BY <1>3, DiskUnchanged DEF Mark
  <2>2. ASSUME NEW q \in Procs, IsWriting(q, d, t) PROVE Sound(d, t)'
    <3>1. q # p
      BY <1>3, <2>2, WritingGoesOn DEF IsWriting
    <3> QED
      BY <2>2, <3>1, OthersUnchanged DEF IsWriting, BeingWritten, Sound
  <2> QED
    BY <2>1, <2>2 DEF Sound, BeingWritten
<1> QED
  BY <1>1, <1>2, <1>3
LEMMA OnlyStartIdle ==
  ASSUME NEW p \in Procs, Step(p), ~ Start(p) PROVE Running(p) /\ pc[p] # "idle"
BY DEF Step, Start, Probe, UseHint, UseTool, UseCached, UseSsdt,
       NothingProbed, Ensure, ResolveVersion, CacheHit, CacheMiss, FeedFails, Download,
       CreateNupkg, WriteNupkg, OpenNupkg, NupkgBroken, CreateEntry, WriteEntry, Mark, Fetched,
       NotContained, DoWithout, Initialize, InstallEnds, FindConfig, CreateConfig, WriteConfig,
       LoadAssemblies, Running, Ended

LEMMA AloneKept ==
  ASSUME TypeInv, Alone, NEW p \in Procs, Step(p) \/ Crash(p) PROVE Alone'
<1> SUFFICES ASSUME ~ Overlap, NEW q \in Procs, NEW r \in Procs, Running(q)', Running(r)'
             PROVE  q = r
  BY DEF Alone
<1>1. \A x \in Procs : x # p => pc'[x] = pc[x]
  BY OthersUnchanged
<1>2. CASE Start(p)
  <2>1. \A x \in Procs : ~ Running(x)
    BY <1>2 DEF Start
  <2> QED
    BY <1>1, <2>1 DEF Running
<1>3. CASE ~ Start(p)
  <2>1. Running(p)
    BY <1>3, OnlyStartIdle DEF Crash
  <2> QED
    BY <1>1, <2>1 DEF Running, Alone
<1> QED
  BY <1>2, <1>3

LEMMA UnmarkedKept ==
  ASSUME TypeInv, Alone, Unmarked, NEW p \in Procs, Step(p) \/ Crash(p) PROVE Unmarked'
<1> SUFFICES ASSUME ~ Overlap, NEW q \in Procs, pc'[q] \in Extracting
             PROVE  Target(q)' \notin marker'
  BY DEF Unmarked
<1>1. CASE q # p
  <2>1. pc[q] \in Extracting /\ Target(q)' = Target(q) /\ Target(q) \notin marker
    BY <1>1, OthersUnchanged DEF Unmarked
  <2>2. Running(q)
    BY <2>1 DEF Running, Extracting, Ended
  <2>3. Start(p)
    BY <1>1, <2>2, OnlyStartIdle DEF Alone, Crash
  <2> QED
    BY <2>1, <2>3 DEF Start, disk
<1>2. CASE q = p
  <2>1. CASE CacheMiss(p)
    BY <1>2, <2>1 DEF CacheMiss, MarkerFound, Target, Package, disk
  <2>2. CASE ~ CacheMiss(p)
    <3>1. pc[p] \in Extracting /\ got' = got /\ version' = version /\ marker' = marker
      BY <1>2, <2>2
         DEF TypeInv, TypeOK, Extracting, Ended, Step, Crash, Start, Probe, UseHint, UseTool,
             UseCached, UseSsdt, NothingProbed, Ensure, ResolveVersion, CacheHit, FeedFails,
             Download, CreateNupkg, WriteNupkg, OpenNupkg, NupkgBroken, CreateEntry, WriteEntry,
             Mark, Fetched, NotContained, DoWithout, Initialize, InstallEnds, FindConfig,
             CreateConfig, WriteConfig, LoadAssemblies, Answered, Goto, disk
    <3> QED
      BY <1>2, <3>1 DEF Unmarked, Target, Package
  <2> QED
    BY <2>1, <2>2
<1> QED
  BY <1>1, <1>2

\* What a process that extracts has to extract, and has extracted.
LEMMA ExtractedKept ==
  ASSUME TypeInv, Alone, Extracted, Crashes => ~ Overlap, NEW p \in Procs, Step(p) \/ Crash(p)
  PROVE  Extracted'
<1> DEFINE Left(q, t) == \E j \in DOMAIN todo[q] : todo[q][j] = t
           Files(q) == Entries[Target(q)]
           Busy(q) == pc[q] \in {"extract", "writing"}
<1>0. \A q \in Procs : Busy(q) => Target(q) \in Dirs
  BY TargetType DEF Fetching
<1>a. \A d \in Dirs : \A i \in DOMAIN Entries[d] : Entries[d][i] \in Tfms
  BY CacheAssumption
<1> SUFFICES ASSUME NEW q \in Procs, Busy(q)'
             PROVE  /\ \A i \in DOMAIN Files(q)' : Left(q, Files(q)[i])' \/ Sound(Target(q), Files(q)[i])'
                    /\ \A j \in DOMAIN todo'[q] : \E i \in DOMAIN Files(q)' : todo'[q][j] = Files(q)'[i]
  BY DEF Extracted
<1>1. CASE q # p
  <2>1. pc'[q] = pc[q] /\ todo'[q] = todo[q] /\ Target(q)' = Target(q)
    BY <1>1, OthersUnchanged
  <2>2. Busy(q)
    BY <2>1
  <2>3. Step(p)
    BY <1>1, <2>2 DEF Crash, Alone, Running, Ended
  <2>4. PICK d \in Dirs : d = Target(q)
    BY <1>0, <2>2
  <2>5. ASSUME NEW i \in DOMAIN Entries[d], Sound(d, Entries[d][i]) PROVE Sound(d, Entries[d][i])'
    BY <1>a, <2>3, <2>4, <2>5, SoundKept
  <2>6. \A i \in DOMAIN Entries[d] : Sound(d, Entries[d][i]) => Sound(d, Entries[d][i])'
    BY <2>5
  <2> QED
    BY <2>1, <2>2, <2>4, <2>6 DEF Extracted, Sound
<1>2. CASE q = p
  <2>1. CASE OpenNupkg(p)
    BY <1>2, <2>1 DEF TypeInv, TypeOK, OpenNupkg, Target, Package
  <2>2. CASE CreateEntry(p)
    <3>1. todo' = todo /\ Target(p)' = Target(p) /\ Busy(p) /\ Step(p)
      BY <2>2, EntryType DEF CreateEntry, Step, Ensure
    <3>2. PICK d \in Dirs : d = Target(p)
      BY <1>0, <3>1
    <3>3. ASSUME NEW i \in DOMAIN Entries[d], Sound(d, Entries[d][i]) PROVE Sound(d, Entries[d][i])'
      BY <1>a, <3>1, <3>2, <3>3, SoundKept
    <3>4. \A i \in DOMAIN Entries[d] : Sound(d, Entries[d][i]) => Sound(d, Entries[d][i])'
      BY <3>3
    <3> QED
      BY <1>2, <3>1, <3>2, <3>4 DEF Extracted, Sound
  <2>3. CASE WriteEntry(p)
    <3>1. PICK s \in Seq(Tfms) : s = todo[p] /\ s # << >>
      BY <2>3, EntryType
    <3>2. todo'[p] = Tail(s) /\ Target(p)' = Target(p) /\ Busy(p) /\ Step(p)
      BY <2>3, <3>1, EntryType DEF WriteEntry, Step, Ensure, TypeInv, TypeOK
    <3>3. PICK d \in Dirs : d = Target(p)
      BY <1>0, <3>2
    <3>4. \A j \in DOMAIN s : s[j] = Head(s) \/ \E k \in DOMAIN Tail(s) : Tail(s)[k] = s[j]
      <4> SUFFICES ASSUME NEW j \in DOMAIN s, j # 1
                   PROVE  \E k \in DOMAIN Tail(s) : Tail(s)[k] = s[j]
        BY <3>1
      <4>1. j - 1 \in DOMAIN Tail(s) /\ Tail(s)[j - 1] = s[j]
        BY <3>1
      <4> QED
        BY <4>1
    <3>5. \A k \in DOMAIN Tail(s) : \E j \in DOMAIN s : Tail(s)[k] = s[j]
      <4> SUFFICES ASSUME NEW k \in DOMAIN Tail(s) PROVE \E j \in DOMAIN s : Tail(s)[k] = s[j]
        OBVIOUS
      <4>1. k + 1 \in DOMAIN s /\ Tail(s)[k] = s[k + 1]
        BY <3>1
      <4> QED
        BY <4>1
    <3>6. content'[d][Head(s)] = "whole"
      BY <2>3, <3>1, <3>3, EntryType DEF WriteEntry
    <3>7. ASSUME NEW i \in DOMAIN Entries[d], Sound(d, Entries[d][i]) PROVE Sound(d, Entries[d][i])'
      BY <1>a, <3>2, <3>3, <3>7, SoundKept
    <3>8. \A i \in DOMAIN Entries[d] :
            \/ \E j \in DOMAIN s : s[j] = Entries[d][i]
            \/ Sound(d, Entries[d][i])
      BY <3>1, <3>2, <3>3 DEF Extracted
    <3>9. \A i \in DOMAIN Entries[d] :
            \/ \E k \in DOMAIN Tail(s) : Tail(s)[k] = Entries[d][i]
            \/ Entries[d][i] = Head(s)
            \/ Sound(d, Entries[d][i])'
      BY <3>4, <3>7, <3>8
    <3>10. \A j \in DOMAIN s : \E i \in DOMAIN Entries[d] : s[j] = Entries[d][i]
      BY <3>1, <3>2, <3>3 DEF Extracted
    <3>11. \A k \in DOMAIN Tail(s) : \E i \in DOMAIN Entries[d] : Tail(s)[k] = Entries[d][i]
      BY <3>5, <3>10
    <3> QED
      BY <1>2, <3>2, <3>3, <3>6, <3>9, <3>11 DEF Sound
  <2>4. CASE ~ OpenNupkg(p) /\ ~ CreateEntry(p) /\ ~ WriteEntry(p)
    BY <1>2, <2>4
       DEF TypeInv, TypeOK, Ended, Step, Crash, Start, Probe, UseHint, UseTool,
           UseCached, UseSsdt, NothingProbed, Ensure, ResolveVersion, CacheHit, CacheMiss,
           FeedFails, Download, CreateNupkg, WriteNupkg, NupkgBroken, Mark, Fetched,
           NotContained, DoWithout, Initialize, InstallEnds, FindConfig,
           CreateConfig, WriteConfig, LoadAssemblies, Answered, Goto
  <2> QED
    BY <2>1, <2>2, <2>3, <2>4
<1> QED
  BY <1>1, <1>2
LEMMA OnlyEntriesKept ==
  ASSUME TypeInv, Extracted, OnlyEntries, NEW p \in Procs, Step(p) \/ Crash(p)
  PROVE  OnlyEntries'
<1>1. CASE CreateEntry(p) \/ WriteEntry(p)
  <2>1. PICK s \in Seq(Tfms) : s = todo[p] /\ s # << >>
    BY <1>1, EntryType
  <2>2. PICK e \in Dirs : e = Target(p)
    BY <1>1, EntryType
  <2>3. \A d \in Dirs : \A t \in Tfms :
          content'[d][t] # content[d][t] => d = e /\ t = Head(s)
    BY <1>1, <2>1, <2>2, EntryType DEF CreateEntry, WriteEntry
  <2>4. 1 \in DOMAIN s /\ s[1] = Head(s)
    BY <2>1
  <2>5. \E i \in DOMAIN Entries[e] : Head(s) = Entries[e][i]
    BY <1>1, <2>1, <2>2, <2>4 DEF Extracted, CreateEntry, WriteEntry
  <2> QED
    BY <2>3, <2>5 DEF OnlyEntries
<1>2. CASE ~ CreateEntry(p) /\ ~ WriteEntry(p)
  BY <1>2, DiskUnchanged DEF Mark, OnlyEntries
<1> QED
  BY <1>1, <1>2

\* A file once there is never removed, nor a marker.
LEMMA DiskGrows ==
  ASSUME TypeInv, NEW p \in Procs, Step(p) \/ Crash(p)
  PROVE  /\ marker \subseteq marker'
         /\ \A d \in Dirs : \A t \in Tfms : content[d][t] # "absent" => content'[d][t] # "absent"
<1>1. CASE CreateEntry(p) \/ WriteEntry(p)
  BY <1>1, EntryType DEF CreateEntry, WriteEntry
<1>2. CASE ~ CreateEntry(p) /\ ~ WriteEntry(p)
  BY <1>2, DiskUnchanged DEF Mark
<1> QED
  BY <1>1, <1>2

\* What _resolve_one answers for a package that ensure fetched.
LEMMA AnswersKept ==
  ASSUME TypeInv, NEW p \in Procs, Step(p) \/ Crash(p), NEW i \in DOMAIN got'[p],
         got'[p][i].from = "nuget-fetch"
  PROVE  \/ i \in DOMAIN got[p] /\ got'[p][i] = got[p][i]
         \/ /\ Fetched(p) /\ i = Len(got[p]) + 1 /\ got'[p][i].version = version[p]
            /\ PackageOrder[i] = Package(p)
<1>1. CASE got'[p] = got[p]
  BY <1>1
<1>2. CASE got'[p] # got[p]
  <2>1. PICK from \in From, v \in Versions \cup {Latest} :
          /\ Answered(p, from, v)
          /\ from = "nuget-fetch" => Fetched(p) /\ v = version[p]
    BY <1>2 DEF TypeInv, TypeOK, Progressing, Fetching, From, CachedVersions, HasDll,
         Step, Crash, Start, Probe, UseHint, UseTool,
         UseCached, UseSsdt, NothingProbed, Ensure, ResolveVersion, CacheHit, CacheMiss,
         FeedFails, Download, CreateNupkg, WriteNupkg, OpenNupkg, NupkgBroken, CreateEntry,
         WriteEntry, Mark, Fetched, NotContained, DoWithout, Initialize, InstallEnds, FindConfig,
         CreateConfig, WriteConfig, LoadAssemblies
  <2>2. got[p] \in Seq(Answer) /\ got \in [Procs -> Seq(Answer)]
    BY DEF TypeInv, TypeOK
  <2>3. [from |-> from, version |-> v] \in Answer
    BY DEF Answer
  <2>4. PICK a \in Answer : a = [from |-> from, version |-> v]
    BY <2>3
  <2>5. got' = [got EXCEPT ![p] = Append(@, a)]
    BY <2>1, <2>4 DEF Answered
  <2>6. got'[p] = Append(got[p], a)
    BY <2>2, <2>5
  <2>7. \/ i \in DOMAIN got[p] /\ got'[p][i] = got[p][i]
        \/ i = Len(got[p]) + 1 /\ got'[p][i] = a
    BY <2>2, <2>4, <2>6
  <2>8. ASSUME i = Len(got[p]) + 1, got'[p][i] = a
        PROVE  Fetched(p) /\ got'[p][i].version = version[p] /\ PackageOrder[i] = Package(p)
    <3>1. a.from = from /\ a.version = v
      BY ONLY <2>4
    <3>2. from = "nuget-fetch"
      BY <2>8, <3>1
    <3> QED
      BY <2>1, <2>8, <3>1, <3>2 DEF Package
  <2> QED
    BY <2>7, <2>8
<1> QED
  BY <1>1, <1>2

LEMMA EnsuredKept ==
  ASSUME TypeInv, Ensured, NEW p \in Procs, Step(p) \/ Crash(p) PROVE Ensured'
<1>1. ASSUME NEW q \in Procs, pc'[q] = "idle" PROVE got'[q] = << >>
  <2>1. CASE q # p
    BY <1>1, <2>1, OthersUnchanged DEF Ensured
  <2>2. CASE q = p
    BY <1>1, <2>2
       DEF TypeInv, TypeOK, Step, Crash, Start, Probe, UseHint, UseTool,
           UseCached, UseSsdt, NothingProbed, Ensure, ResolveVersion, CacheHit, CacheMiss,
           FeedFails, Download, CreateNupkg, WriteNupkg, OpenNupkg, NupkgBroken, CreateEntry,
           WriteEntry, Mark, Fetched, NotContained, DoWithout, Initialize, InstallEnds, FindConfig,
           CreateConfig, WriteConfig, LoadAssemblies, Answered, Goto
  <2> QED
    BY <2>1, <2>2
<1>2. ASSUME NEW q \in Procs, pc'[q] = "check" PROVE Target(q)' \in marker'
  <2>1. CASE q # p
    BY <1>2, <2>1, OthersUnchanged, DiskGrows DEF Ensured
  <2>2. CASE q = p
    <3>1. CacheHit(p) \/ Mark(p)
      BY <1>2, <2>2
         DEF TypeInv, TypeOK, Step, Crash, Start, Probe, UseHint, UseTool,
           UseCached, UseSsdt, NothingProbed, Ensure, ResolveVersion, CacheMiss,
           FeedFails, Download, CreateNupkg, WriteNupkg, OpenNupkg, NupkgBroken, CreateEntry,
           WriteEntry, Fetched, NotContained, DoWithout, Initialize, InstallEnds, FindConfig,
           CreateConfig, WriteConfig, LoadAssemblies, Answered, Goto
    <3> QED
      BY <2>2, <3>1 DEF CacheHit, Mark, MarkerFound, Target, Package, disk
  <2> QED
    BY <2>1, <2>2
<1>3. ASSUME NEW q \in Procs, NEW i \in DOMAIN got'[q], got'[q][i].from = "nuget-fetch"
      PROVE  /\ <<PackageOrder[i], got'[q][i].version>> \in marker'
             /\ content'[<<PackageOrder[i], got'[q][i].version>>][tfm'[q]] # "absent"
  <2>1. PICK d : d = <<PackageOrder[i], got'[q][i].version>>
    OBVIOUS
  <2>2. /\ marker \subseteq Dirs
        /\ \A x \in Procs : tfm[x] \in Tfms
    BY DEF TypeInv, TypeOK
  <2>3. CASE i \in DOMAIN got[q] /\ got'[q][i] = got[q][i]
    <3>1. d \in marker /\ content[d][tfm[q]] # "absent"
      BY <1>3, <2>1, <2>3 DEF Ensured, Answers, StateOf
    <3>2. tfm'[q] = tfm[q]
      <4>1. CASE q # p
        BY <4>1, OthersUnchanged
      <4>2. CASE q = p
        <5>1. ~ Start(p)
          BY <2>3, <4>2 DEF Ensured, Start
        <5> QED
          BY <4>2, <5>1
             DEF Step, Crash, Probe, UseHint, UseTool,
               UseCached, UseSsdt, NothingProbed, Ensure, ResolveVersion, CacheHit, CacheMiss,
               FeedFails, Download, CreateNupkg, WriteNupkg, OpenNupkg, NupkgBroken, CreateEntry,
               WriteEntry, Mark, Fetched, NotContained, DoWithout, Initialize, InstallEnds,
               FindConfig, CreateConfig, WriteConfig, LoadAssemblies, Answered
      <4> QED
        BY <4>1, <4>2
    <3> QED
      BY <2>1, <2>2, <3>1, <3>2, DiskGrows
  <2>4. CASE ~ (i \in DOMAIN got[q] /\ got'[q][i] = got[q][i])
    <3>1. q = p
      BY <2>4, OthersUnchanged
    <3>2. Fetched(p) /\ got'[p][i].version = version[p] /\ PackageOrder[i] = Package(p)
      BY <1>3, <2>4, <3>1, AnswersKept
    <3>3. /\ d = Target(p) /\ tfm' = tfm /\ pc[p] = "check"
          /\ content[Target(p)][tfm[p]] # "absent" /\ content' = content /\ marker' = marker
      BY <2>1, <3>1, <3>2 DEF Target, Fetched, Answered, disk
    <3> QED
      BY <2>1, <3>1, <3>3 DEF Ensured
  <2> QED
    BY <2>3, <2>4
<1> QED
  BY <1>1, <1>2, <1>3 DEF Ensured, Answers, StateOf

LEMMA MarkedKept ==
  ASSUME TypeInv, Unmarked, Extracted, MarkedIsWhole, Crashes => ~ Overlap,
         NEW p \in Procs, Step(p) \/ Crash(p)
  PROVE  MarkedIsWhole'
<1> SUFFICES ASSUME NEW d \in marker', NEW i \in DOMAIN Entries[d]
             PROVE  Sound(d, Entries[d][i])'
  BY DEF MarkedIsWhole, Sound
<1>1. PICK t : t = Entries[d][i]
  OBVIOUS
<1>2. CASE d \in marker
  <2>1. d \in Dirs /\ t \in Tfms /\ Sound(d, t)
    BY <1>1, <1>2, CacheAssumption DEF TypeInv, TypeOK, MarkedIsWhole, Sound
  <2>2. ~ (Crash(p) /\ IsWriting(p, d, t))
    BY <1>2 DEF Crash, IsWriting, Unmarked, Extracting
  <2> QED
    BY <1>1, <2>1, <2>2, SoundKept
<1>3. CASE d \notin marker
  <2>1. Mark(p)
    BY <1>3, DiskUnchanged DEF CreateEntry, WriteEntry
  <2>2. d = Target(p) /\ todo[p] = << >> /\ pc[p] = "extract"
    BY <1>3, <2>1 DEF Mark
  <2>3. d \in Dirs
    BY <2>2, TargetType DEF Fetching
  <2>4. t \in Tfms
    BY <1>1, <2>3, CacheAssumption
  <2>5. Sound(d, t)
    BY <1>1, <2>2 DEF Extracted
  <2>6. Step(p)
    BY <2>1 DEF Step, Ensure
  <2> QED
    BY <1>1, <2>3, <2>4, <2>5, <2>6, SoundKept
<1> QED
  BY <1>2, <1>3

LEMMA CacheInvInductive ==
  ASSUME Crashes => ~ Overlap PROVE CacheInv /\ [Next]_vars => CacheInv'
<1> SUFFICES ASSUME CacheInv, [Next]_vars PROVE CacheInv'
  OBVIOUS
<1>1. TypeInv'
  BY NextTypeInv DEF CacheInv
<1>2. ASSUME NEW p \in Procs, Step(p) \/ Crash(p) PROVE CacheInv'
  BY <1>1, <1>2, AloneKept, UnmarkedKept, ExtractedKept, OnlyEntriesKept, EnsuredKept, MarkedKept
     DEF CacheInv
<1>3. CASE UNCHANGED vars
  BY <1>1, <1>3
     DEF CacheInv, vars, process, disk, Alone, Unmarked, Extracted, OnlyEntries, Ensured,
         MarkedIsWhole, Sound, BeingWritten, IsWriting, Running, Target, Package, Answers, StateOf
<1> QED
  BY <1>2, <1>3 DEF Next, AllEnded

LEMMA InitCacheInv == Init => CacheInv
<1> SUFFICES ASSUME Init PROVE CacheInv
  OBVIOUS
<1>1. TypeInv
  <2>1. TypeOK
    BY CacheAssumption DEF Init, TypeOK, Labels, FileState
  <2>2. \A p \in Procs : Len(got[p]) = 0
    BY DEF Init
  <2> QED
    BY <2>1, <2>2, CacheAssumption DEF Init, TypeInv, Progressing, Fetching
<1>2. \A p \in Procs : got[p] = << >> /\ DOMAIN got[p] = {} /\ pc[p] = "idle"
  <2>1. DOMAIN << >> = {}
    OBVIOUS
  <2>2. \A p \in Procs : got[p] = << >> /\ pc[p] = "idle"
    BY DEF Init
  <2> QED
    BY ONLY <2>1, <2>2
<1>3. \A p \in Procs : ~ Running(p)
  BY <1>2 DEF Running
<1>4. OnlyEntries /\ MarkedIsWhole
  BY DEF Init, OnlyEntries, MarkedIsWhole
<1> QED
  BY <1>1, <1>2, <1>3, <1>4 DEF CacheInv, Alone, Unmarked, Extracted, Extracting, Ensured, Answers

\* Unless processes both overlap and crash, every file of a version that has
\* its marker is whole, but for the moments somebody writes it again.
THEOREM MarkerIsTrue ==
  ASSUME Crashes => ~ Overlap PROVE Spec => []MarkedIsWhole
<1>1. CacheInv /\ [Next]_vars => CacheInv'
  BY CacheInvInductive
<1>2. CacheInv => MarkedIsWhole
  BY DEF CacheInv
<1> QED
  BY <1>1, <1>2, InitCacheInv, PTL DEF Spec

LEMMA EnsuredFromInv == CacheInv => EnsuredIsWhole
<1> SUFFICES ASSUME CacheInv, NEW p \in Procs, NEW i \in Answers(p), got[p][i].from = "nuget-fetch"
             PROVE  Sound(<<PackageOrder[i], got[p][i].version>>, tfm[p])
  <2>1. EnsuredIsWhole <=>
          \A q \in Procs : \A k \in Answers(q) : got[q][k].from = "nuget-fetch" =>
            Sound(<<PackageOrder[k], got[q][k].version>>, tfm[q])
    BY Zenon DEF EnsuredIsWhole, Sound, StateOf
  <2> QED
    BY <2>1
<1>1. PICK d : d = <<PackageOrder[i], got[p][i].version>>
  OBVIOUS
<1>2. d \in marker /\ content[d][tfm[p]] # "absent" /\ d \in Dirs /\ tfm[p] \in Tfms
  BY <1>1 DEF CacheInv, Ensured, StateOf, TypeInv, TypeOK
<1>3. PICK k \in DOMAIN Entries[d] : Entries[d][k] = tfm[p]
  BY <1>2 DEF CacheInv, OnlyEntries
<1> QED
  BY <1>1, <1>2, <1>3 DEF CacheInv, MarkedIsWhole, Sound

\* And so is every file ensure answered, for as long as the process runs.
THEOREM EnsuredStaysWhole ==
  ASSUME Crashes => ~ Overlap PROVE Spec => []EnsuredIsWhole
<1>1. CacheInv /\ [Next]_vars => CacheInv'
  BY CacheInvInductive
<1> QED
  BY <1>1, InitCacheInv, EnsuredFromInv, PTL DEF Spec

-----------------------------------------------------------------------------
(* Loading.  Whatever is cut short has somebody who is in the middle of      *)
(* writing it or was killed there, and what a process has taken from the     *)
(* cache, or found written, is there.  No condition on overlap and crashes.  *)

Moves(p) == (Step(p) /\ UNCHANGED died) \/ Crash(p)

FilesCut ==
  \A d \in Dirs : \A t \in Tfms : content[d][t] = "partial" => \E q \in Procs : CutBy(q, d, t)

ConfigCut == config = "partial" => \E q \in Procs : StoppedAt(q, "configuring")

ConfigThere == \A p \in Procs : pc[p] = "load" /\ tfm[p] = "net8.0" => config # "absent"

AnsweredDir(p, i) == <<PackageOrder[i], got[p][i].version>>

AnswersThere ==
  \A p \in Procs : \A i \in Answers(p) :
    InCache(p, i) => AnsweredDir(p, i) \in Dirs /\ StateOf(p, i) # "absent"

LoadInv == TypeInv /\ Ensured /\ FilesCut /\ ConfigCut /\ ConfigThere /\ AnswersThere

\* A process that was killed stays where it is; one in the middle of a write can only
\* finish it or be killed.
LEMMA StoppedStays ==
  ASSUME TypeInv, NEW p \in Procs, Moves(p), NEW q \in Procs,
         NEW write \in {"writing", "configuring"}, StoppedAt(q, write),
         ~ (q = p /\ (WriteEntry(p) \/ WriteConfig(p)))
  PROVE  StoppedAt(q, write)' /\ Target(q)' = Target(q) /\ todo'[q] = todo[q]
<1>1. CASE q # p
  <2>1. died'[q] = died[q]
    BY <1>1 DEF Moves, Crash, TypeInv, TypeOK
  <2> QED
    BY <1>1, <2>1, OthersUnchanged DEF Moves, StoppedAt
<1>2. CASE q = p
  <2>1. ASSUME Step(p) PROVE FALSE
    BY <1>2, <2>1
       DEF StoppedAt, Step, Start, Probe, UseHint, UseTool, UseCached, UseSsdt, NothingProbed, Ensure, ResolveVersion,
       CacheHit, CacheMiss, FeedFails, Download, CreateNupkg, WriteNupkg, OpenNupkg, NupkgBroken,
       CreateEntry, WriteEntry, Mark, Fetched, NotContained, DoWithout, Initialize, InstallEnds,
       FindConfig, CreateConfig, WriteConfig, LoadAssemblies
  <2>2. Crash(p) /\ pc[p] = write
    BY <1>2, <2>1 DEF Moves, StoppedAt, Crash, Running, Ended
  <2>3. pc'[p] = "killed" /\ died'[p] = write
    BY <2>2 DEF Crash, Goto, TypeInv, TypeOK
  <2> QED
    BY <1>2, <2>2, <2>3 DEF StoppedAt, Crash, Target, Package
<1> QED
  BY <1>1, <1>2

LEMMA FilesCutKept ==
  ASSUME TypeInv, FilesCut, NEW p \in Procs, Moves(p) PROVE FilesCut'
<1> SUFFICES ASSUME NEW d \in Dirs, NEW t \in Tfms, content'[d][t] = "partial"
             PROVE  \E q \in Procs : CutBy(q, d, t)'
  BY DEF FilesCut
<1>0. Step(p) \/ Crash(p)
  BY DEF Moves
<1>1. CASE CreateEntry(p) /\ d = Target(p) /\ t = Head(todo[p])
  <2>1. pc'[p] = "writing" /\ Target(p)' = d /\ todo' = todo
    BY <1>1, EntryType DEF CreateEntry, Goto
  <2> QED
    BY <1>1, <2>1 DEF CutBy, StoppedAt
<1>2. CASE WriteEntry(p) /\ d = Target(p) /\ t = Head(todo[p])
  <2>1. content'[d][t] = "whole"
    BY <1>2, EntryType DEF WriteEntry
  <2> QED
    BY <2>1
<1>3. CASE ~ (CreateEntry(p) /\ d = Target(p) /\ t = Head(todo[p]))
           /\ ~ (WriteEntry(p) /\ d = Target(p) /\ t = Head(todo[p]))
  <2>1. content[d][t] = "partial"
    <3>1. CASE CreateEntry(p) \/ WriteEntry(p)
      BY <1>3, <3>1, EntryType DEF CreateEntry, WriteEntry
    <3>2. CASE ~ CreateEntry(p) /\ ~ WriteEntry(p)
      BY <1>0, <3>2, DiskUnchanged DEF Mark
    <3> QED
      BY <3>1, <3>2
  <2>2. PICK q \in Procs : CutBy(q, d, t)
    BY <2>1 DEF FilesCut
  <2>3. ~ (q = p /\ WriteEntry(p))
    BY <1>3, <2>2 DEF CutBy
  <2>4. ~ (q = p /\ WriteConfig(p))
    BY <2>2 DEF CutBy, StoppedAt, WriteConfig
  <2>5. StoppedAt(q, "writing")' /\ Target(q)' = Target(q) /\ todo'[q] = todo[q]
    BY <2>2, <2>3, <2>4, StoppedStays DEF CutBy
  <2> QED
    BY <2>2, <2>5 DEF CutBy
<1> QED
  BY <1>1, <1>2, <1>3

\* Only two steps touch the configuration, and none removes it.
LEMMA ConfigUnchanged ==
  ASSUME NEW p \in Procs, Moves(p), ~ CreateConfig(p), ~ WriteConfig(p)
  PROVE  config' = config
BY DEF Moves, Crash, Answered, disk, Step,
       Start, Probe, UseHint, UseTool, UseCached, UseSsdt, NothingProbed, Ensure, ResolveVersion,
       CacheHit, CacheMiss, FeedFails, Download, CreateNupkg, WriteNupkg, OpenNupkg, NupkgBroken,
       CreateEntry, WriteEntry, Mark, Fetched, NotContained, DoWithout, Initialize, InstallEnds,
       FindConfig, LoadAssemblies

LEMMA ConfigCutKept ==
  ASSUME TypeInv, ConfigCut, NEW p \in Procs, Moves(p) PROVE ConfigCut'
<1> SUFFICES ASSUME config' = "partial" PROVE \E q \in Procs : StoppedAt(q, "configuring")'
  BY DEF ConfigCut
<1>1. CASE CreateConfig(p)
  BY <1>1 DEF CreateConfig, Goto, TypeInv, TypeOK, StoppedAt
<1>2. CASE WriteConfig(p)
  BY <1>2 DEF WriteConfig
<1>3. CASE ~ CreateConfig(p) /\ ~ WriteConfig(p)
  <2>1. PICK q \in Procs : StoppedAt(q, "configuring")
    BY <1>3, ConfigUnchanged DEF ConfigCut
  <2>2. ~ (q = p /\ WriteEntry(p))
    BY <2>1 DEF StoppedAt, WriteEntry
  <2> QED
    BY <1>3, <2>1, <2>2, StoppedStays
<1> QED
  BY <1>1, <1>2, <1>3

\* The framework of a process is settled when it starts.
LEMMA FrameworkKept ==
  ASSUME NEW p \in Procs, Moves(p), ~ Start(p) PROVE tfm' = tfm
BY DEF Moves, Crash, Answered, Step,
       Probe, UseHint, UseTool, UseCached, UseSsdt, NothingProbed, Ensure, ResolveVersion,
       CacheHit, CacheMiss, FeedFails, Download, CreateNupkg, WriteNupkg, OpenNupkg, NupkgBroken,
       CreateEntry, WriteEntry, Mark, Fetched, NotContained, DoWithout, Initialize, InstallEnds,
       FindConfig, CreateConfig, WriteConfig, LoadAssemblies

LEMMA ConfigThereKept ==
  ASSUME TypeInv, ConfigThere, NEW p \in Procs, Moves(p) PROVE ConfigThere'
<1> SUFFICES ASSUME NEW q \in Procs, pc'[q] = "load", tfm'[q] = "net8.0" PROVE config' # "absent"
  BY DEF ConfigThere
<1>1. CASE CreateConfig(p) \/ WriteConfig(p)
  BY <1>1 DEF CreateConfig, WriteConfig
<1>2. CASE ~ CreateConfig(p) /\ ~ WriteConfig(p)
  <2>1. config' = config
    BY <1>2, ConfigUnchanged
  <2>2. CASE q # p
    BY <2>1, <2>2, OthersUnchanged DEF Moves, ConfigThere
  <2>3. CASE q = p
    <3>1. FindConfig(p)
      BY <1>2, <2>3
         DEF TypeInv, TypeOK, Moves, Crash, Goto, Answered, Step,
       Start, Probe, UseHint, UseTool, UseCached, UseSsdt, NothingProbed, Ensure, ResolveVersion,
       CacheHit, CacheMiss, FeedFails, Download, CreateNupkg, WriteNupkg, OpenNupkg, NupkgBroken,
       CreateEntry, WriteEntry, Mark, Fetched, NotContained, DoWithout, Initialize, InstallEnds,
       LoadAssemblies
    <3> QED
      BY <2>1, <2>3, <3>1 DEF FindConfig, Goto, TypeInv, TypeOK
  <2> QED
    BY <2>2, <2>3
<1> QED
  BY <1>1, <1>2

\* A new answer that names a file of the cache names one that is there.
LEMMA NewAnswers ==
  ASSUME TypeInv, NEW p \in Procs, Step(p) \/ Crash(p), NEW i \in DOMAIN got'[p],
         got'[p][i].from \in {"nuget-cache", "nuget-fetch"}
  PROVE  \/ i \in DOMAIN got[p] /\ got'[p][i] = got[p][i]
         \/ /\ pc[p] # "idle" /\ content' = content
            /\ <<PackageOrder[i], got'[p][i].version>> \in Dirs
            /\ content[<<PackageOrder[i], got'[p][i].version>>][tfm[p]] # "absent"
<1>1. CASE got'[p] = got[p]
  BY <1>1
<1>2. CASE got'[p] # got[p]
  <2>1. PICK from \in From, v \in Versions \cup {Latest} :
          /\ Answered(p, from, v)
          /\ from \in {"nuget-cache", "nuget-fetch"} =>
               v \in Versions /\ pc[p] \in Resolving \ {"idle"} /\ content[<<Package(p), v>>][tfm[p]] # "absent"
    <3>1. CASE Fetched(p)
      BY <3>1 DEF TypeInv, TypeOK, Progressing, Fetching, Resolving, From, Fetched, Target
    <3>2. CASE UseCached(p)
      BY <3>2 DEF Resolving, From, UseCached, CachedVersions, HasDll
    <3>3. CASE ~ Fetched(p) /\ ~ UseCached(p)
      BY <1>2, <3>3 DEF From, Crash, Step,
       Start, Probe, UseHint, UseTool, UseSsdt, NothingProbed, Ensure, ResolveVersion,
       CacheHit, CacheMiss, FeedFails, Download, CreateNupkg, WriteNupkg, OpenNupkg, NupkgBroken,
       CreateEntry, WriteEntry, Mark, NotContained, DoWithout, Initialize, InstallEnds,
       FindConfig, CreateConfig, WriteConfig, LoadAssemblies
    <3> QED
      BY <3>1, <3>2, <3>3
  <2>2. got[p] \in Seq(Answer) /\ got \in [Procs -> Seq(Answer)]
    BY DEF TypeInv, TypeOK
  <2>3. [from |-> from, version |-> v] \in Answer
    BY DEF Answer
  <2>4. PICK a \in Answer : a = [from |-> from, version |-> v]
    BY <2>3
  <2>5. got' = [got EXCEPT ![p] = Append(@, a)]
    BY <2>1, <2>4 DEF Answered
  <2>6. got'[p] = Append(got[p], a)
    BY <2>2, <2>5
  <2>7. \/ i \in DOMAIN got[p] /\ got'[p][i] = got[p][i]
        \/ i = Len(got[p]) + 1 /\ got'[p][i] = a
    BY <2>2, <2>4, <2>6
  <2>8. ASSUME i = Len(got[p]) + 1, got'[p][i] = a
        PROVE  /\ pc[p] # "idle" /\ content' = content
               /\ <<PackageOrder[i], got'[p][i].version>> \in Dirs
               /\ content[<<PackageOrder[i], got'[p][i].version>>][tfm[p]] # "absent"
    <3>1. a.from = from /\ a.version = v
      BY ONLY <2>4
    <3>2. from \in {"nuget-cache", "nuget-fetch"} /\ got'[p][i].version = v
      BY <2>8, <3>1
    <3>3. /\ v \in Versions /\ pc[p] \in Resolving /\ pc[p] # "idle"
          /\ content[<<Package(p), v>>][tfm[p]] # "absent" /\ content' = content
      BY <2>1, <3>2 DEF Answered, disk
    <3>4. Package(p) = PackageOrder[i]
      BY <2>8 DEF Package
    <3>5. <<PackageOrder[i], v>> \in Dirs
      BY <3>3, <3>4, PackageType DEF Dirs
    <3> QED
      BY <3>2, <3>3, <3>4, <3>5
  <2> QED
    BY <2>7, <2>8
<1> QED
  BY <1>1, <1>2

LEMMA AnswersThereKept ==
  ASSUME TypeInv, Ensured, AnswersThere, NEW p \in Procs, Moves(p) PROVE AnswersThere'
<1>0. Step(p) \/ Crash(p)
  BY DEF Moves
<1> SUFFICES ASSUME NEW q \in Procs, NEW i \in DOMAIN got'[q],
                    got'[q][i].from \in {"nuget-cache", "nuget-fetch"}
             PROVE  /\ <<PackageOrder[i], got'[q][i].version>> \in Dirs
                    /\ content'[<<PackageOrder[i], got'[q][i].version>>][tfm'[q]] # "absent"
  BY DEF AnswersThere, AnsweredDir, Answers, InCache, StateOf
<1>1. PICK d : d = <<PackageOrder[i], got'[q][i].version>>
  OBVIOUS
<1>2. tfm[q] \in Tfms
  BY DEF TypeInv, TypeOK
<1>3. CASE i \in DOMAIN got[q] /\ got'[q][i] = got[q][i]
  <2>1. d \in Dirs /\ content[d][tfm[q]] # "absent"
    BY <1>1, <1>3 DEF AnswersThere, AnsweredDir, Answers, InCache, StateOf
  <2>2. tfm'[q] = tfm[q]
    <3>1. CASE q # p
      BY <1>0, <3>1, OthersUnchanged
    <3>2. CASE q = p
      <4>1. ~ Start(p)
        BY <1>3, <3>2 DEF Ensured, Start
      <4> QED
        BY <4>1, FrameworkKept
    <3> QED
      BY <3>1, <3>2
  <2> QED
    BY <1>0, <1>1, <1>2, <2>1, <2>2, DiskGrows
<1>4. CASE ~ (i \in DOMAIN got[q] /\ got'[q][i] = got[q][i])
  <2>1. q = p
    BY <1>0, <1>4, OthersUnchanged
  <2>2. /\ pc[p] # "idle" /\ content' = content /\ d \in Dirs /\ content[d][tfm[p]] # "absent"
    BY <1>0, <1>1, <1>4, <2>1, NewAnswers
  <2>3. tfm' = tfm
    BY <2>2, FrameworkKept DEF Start
  <2> QED
    BY <1>1, <2>1, <2>2, <2>3
<1> QED
  BY <1>3, <1>4

LEMMA LoadInvInductive == LoadInv /\ [Next]_vars => LoadInv'
<1> SUFFICES ASSUME LoadInv, [Next]_vars PROVE LoadInv'
  OBVIOUS
<1>1. TypeInv'
  BY NextTypeInv DEF LoadInv
<1>2. ASSUME NEW p \in Procs, Moves(p) PROVE LoadInv'
  BY <1>1, <1>2, EnsuredKept, FilesCutKept, ConfigCutKept, ConfigThereKept, AnswersThereKept
     DEF LoadInv, Moves
<1>3. CASE UNCHANGED vars
  BY <1>1, <1>3
     DEF LoadInv, vars, process, disk, Ensured, FilesCut, ConfigCut, ConfigThere, AnswersThere,
         AnsweredDir, CutBy, StoppedAt, Target, Package, Answers, InCache, StateOf
<1> QED
  BY <1>2, <1>3 DEF Next, AllEnded, Moves

\* Why a load that fails fails.
LEMMA FailureHasACause ==
  ASSUME LoadInv, NEW p \in Procs, LoadAssemblies(p), ~ Loadable(p) PROVE Cause(p)
<1>1. CASE tfm[p] = "net8.0" /\ config # "whole"
  <2>1. config = "partial"
    BY <1>1 DEF LoadInv, ConfigThere, LoadAssemblies, TypeInv, TypeOK, FileState
  <2> QED
    BY <1>1, <2>1 DEF LoadInv, ConfigCut, Cause
<1>2. ASSUME NEW i \in Answers(p), InCache(p, i), PackageOrder[i] \notin Optional,
             StateOf(p, i) # "whole"
      PROVE  Cause(p)
  <2>1. PICK d : d = AnsweredDir(p, i)
    OBVIOUS
  <2>2. d \in Dirs /\ content[d][tfm[p]] # "absent" /\ content[d][tfm[p]] # "whole"
    BY <1>2, <2>1 DEF LoadInv, AnswersThere, StateOf, AnsweredDir
  <2>3. tfm[p] \in Tfms /\ content[d][tfm[p]] = "partial"
    BY <2>2 DEF LoadInv, TypeInv, TypeOK, FileState
  <2>4. \E q \in Procs : CutBy(q, d, tfm[p])
    BY <2>2, <2>3 DEF LoadInv, FilesCut
  <2> QED
    BY <1>2, <2>1, <2>4 DEF Cause, AnsweredDir
<1> QED
  BY <1>1, <1>2 DEF Loadable

\* A process fails to load what it resolved only because of a file it needs, the runtime
\* configuration or one it took from the cache, that another process is in the middle of
\* writing or was killed in the middle of: whatever processes, versions and settings, and
\* however they overlap and are killed.
THEOREM LoadFailuresHaveACause == Spec => LoadFailsForACause
<1>1. Init => LoadInv
  <2> SUFFICES ASSUME Init PROVE LoadInv
    OBVIOUS
  <2>1. TypeInv /\ Ensured
    BY InitCacheInv DEF CacheInv
  <2>2. \A p \in Procs : Answers(p) = {} /\ pc[p] = "idle"
    <3>1. DOMAIN << >> = {}
      OBVIOUS
    <3> QED
      BY <3>1 DEF Init, Answers
  <2> QED
    BY <2>1, <2>2 DEF Init, LoadInv, FilesCut, ConfigCut, ConfigThere, AnswersThere
<1>2. LoadInv /\ [Next]_vars => LoadInv'
  BY LoadInvInductive
<1>3. LoadInv /\ [Next]_vars => [\A p \in Procs : pc[p] = "load" /\ pc'[p] = "failed" => Cause(p)]_vars
  <2> SUFFICES ASSUME LoadInv, Next, NEW q \in Procs, pc[q] = "load", pc'[q] = "failed"
               PROVE  Cause(q)
    BY Zenon
  <2>1. PICK p \in Procs : Moves(p)
    BY DEF Next, AllEnded, Moves, vars, process
  <2>2. q = p
    BY <2>1, OthersUnchanged DEF LoadInv, Moves
  <2>3. LoadAssemblies(p)
    BY <2>1, <2>2
       DEF LoadInv, TypeInv, TypeOK, Moves, Crash, Goto, Answered, Step,
       Start, Probe, UseHint, UseTool, UseCached, UseSsdt, NothingProbed, Ensure, ResolveVersion,
       CacheHit, CacheMiss, FeedFails, Download, CreateNupkg, WriteNupkg, OpenNupkg, NupkgBroken,
       CreateEntry, WriteEntry, Mark, Fetched, NotContained, DoWithout, Initialize, InstallEnds,
       FindConfig, CreateConfig, WriteConfig
  <2>4. ~ Loadable(p)
    BY <2>2, <2>3 DEF LoadAssemblies, Goto, LoadInv, TypeInv, TypeOK
  <2> QED
    BY <2>2, <2>3, <2>4, FailureHasACause
<1> QED
  BY <1>1, <1>2, <1>3, PTL DEF Spec, LoadFailsForACause
=============================================================================
