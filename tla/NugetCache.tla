----------------------------- MODULE NugetCache -----------------------------
(***************************************************************************)
(* The .NET bootstrap: each process resolves its assemblies one after the  *)
(* other, from a hint, an installed tool, the NuGet cache, an installation *)
(* of SSDT or the feed, and hosts the runtime.  The cache directory and    *)
(* the runtime configuration file are shared by all the processes of a     *)
(* user and are written in place.                                          *)
(*                                                                         *)
(* A package version is extracted entry by entry; the marker .extracted is *)
(* written last.  ensure trusts the marker, cached_nuget_dll any file.     *)
(***************************************************************************)
EXTENDS Integers, Sequences

CONSTANTS
  Procs,          \* processes of one user
  PackageOrder,   \* the packages, in the order resolve_all takes them
  Optional,       \* packages resolve_all goes on without
  Versions,       \* numbered in the order of their directory names
  Latest,         \* no pin: the version the feed lists last
  Tfms,           \* target frameworks: lib/<tfm>/<dll> is one file
  Entries,        \* Entries[<<package, version>>]: files in the order of the zip
  Choices,        \* the settings a process may run with
  Overlap,        \* may two processes run at the same time?
  Crashes         \* may a process be killed, or a write fail, halfway?

Packages == {PackageOrder[i] : i \in DOMAIN PackageOrder}
Dirs == Packages \X Versions

\* Settings and what is installed on the machine the process runs on.
Settings ==
  [command : {"install", "use"},                   \* tools install-dacfx, or any other
   runtime : {"auto", "coreclr", "netfx"},
   pin     : [Packages -> Versions \cup {Latest}],
   hint    : SUBSET Packages,                      \* *_dll_hint names a file
   tool    : SUBSET Packages,                      \* in the sqlpackage global tool
   ssdt    : SUBSET Packages,
   dotnet8 : BOOLEAN]

ASSUME CacheAssumption ==
  /\ PackageOrder \in Seq(Packages) /\ Len(PackageOrder) > 0
  /\ Versions \subseteq Nat /\ Latest \notin Versions
  /\ Tfms = {"net8.0", "net472"}
  /\ Entries \in [Dirs -> Seq(Tfms)]
  /\ Choices \subseteq Settings
  /\ Overlap \in BOOLEAN /\ Crashes \in BOOLEAN

-----------------------------------------------------------------------------
VARIABLES
  settings,   \* of each process; never change
  pc,         \* where each process is
  tfm,        \* the target framework autodetect_runtime led to
  got,        \* what _resolve_one answered, package by package
  version,    \* the version ensure works on
  todo,       \* entries not yet extracted
  content,    \* dir -> tfm -> state of the file
  nupkg,      \* dir -> state of the downloaded package
  marker,     \* dirs with .extracted
  config      \* state of dacpactools_runtimeconfig.json

\* History, read by no step: the write in whose middle a process was killed, of those whose
\* file later processes read as it is; "idle" for the others.
VARIABLE died

process == <<pc, tfm, got, version, todo>>
disk    == <<content, nupkg, marker, config>>
vars    == <<settings, process, disk, died>>

\* Opening a file for writing truncates it; the bytes come after.
FileState == {"absent", "partial", "whole"}

Ended == {"done", "failed", "killed"}
Labels ==
  {"idle", "probe", "resolve", "ensure", "download", "save", "saving", "open",
   "extract", "writing", "check", "resolved", "configure", "configuring", "load"}
    \cup Ended

Running(p) == pc[p] \notin Ended \cup {"idle"}
From == {"hint", "dotnet-tool", "nuget-cache", "ssdt", "nuget-fetch", "unresolved"}
Answer == [from : From, version : Versions \cup {Latest}]

Init ==
  /\ settings \in [Procs -> Choices]
  /\ pc = [p \in Procs |-> "idle"]
  /\ tfm = [p \in Procs |-> "net472"]
  /\ got = [p \in Procs |-> << >>]
  /\ version = [p \in Procs |-> Latest]
  /\ todo = [p \in Procs |-> << >>]
  /\ content = [d \in Dirs |-> [t \in Tfms |-> "absent"]]
  /\ nupkg = [d \in Dirs |-> "absent"]
  /\ marker = {}
  /\ config = "absent"
  /\ died = [p \in Procs |-> "idle"]

Goto(p, label) == pc' = [pc EXCEPT ![p] = label]

\* The package being resolved, and the directory ensure extracts it to.
Package(p) == PackageOrder[Len(got[p]) + 1]
Target(p) == <<Package(p), version[p]>>

\* cached_nuget_dll: the last directory by name that has the file, whatever the
\* state of the file and whatever the pin.
HasDll(package, t) == {v \in Versions : content[<<package, v>>][t] # "absent"}
CachedVersions(package, t) ==
  {v \in HasDll(package, t) : \A w \in HasDll(package, t) : w <= v}

-----------------------------------------------------------------------------
(* autodetect_runtime and the probes of _resolve_one. *)

Detected(p) ==
  LET s == settings[p]
      coreclr == \/ s.runtime = "coreclr"
                 \/ /\ s.runtime = "auto"
                    /\ HasDll(PackageOrder[1], "net8.0") # {} \/ s.dotnet8
  IN  IF coreclr THEN "net8.0" ELSE "net472"

Start(p) ==
  /\ pc[p] = "idle"
  /\ Overlap \/ \A q \in Procs : ~ Running(q)
  /\ tfm' = [tfm EXCEPT ![p] = Detected(p)]
  /\ Goto(p, "probe")
  /\ UNCHANGED <<settings, got, version, todo, disk>>

\* _resolve_one answers; resolve_all goes on to the next package.
Answered(p, from, v) ==
  /\ got' = [got EXCEPT ![p] = Append(@, [from |-> from, version |-> v])]
  /\ Goto(p, IF Len(got[p]) + 1 = Len(PackageOrder) THEN "resolved" ELSE "probe")
  /\ UNCHANGED <<settings, tfm, version, todo, disk>>

Hinted(p) == Package(p) \in settings[p].hint
InTool(p) == tfm[p] = "net8.0" /\ Package(p) \in settings[p].tool
Cached(p) == HasDll(Package(p), tfm[p]) # {}
InSsdt(p) == tfm[p] = "net472" /\ Package(p) \in settings[p].ssdt \ Optional

UseHint(p) == pc[p] = "probe" /\ Hinted(p) /\ Answered(p, "hint", Latest)

UseTool(p) ==
  /\ pc[p] = "probe" /\ ~ Hinted(p)
  /\ InTool(p)
  /\ Answered(p, "dotnet-tool", Latest)

UseCached(p) ==
  /\ pc[p] = "probe" /\ ~ Hinted(p) /\ ~ InTool(p)
  /\ \E v \in CachedVersions(Package(p), tfm[p]) : Answered(p, "nuget-cache", v)

UseSsdt(p) ==
  /\ pc[p] = "probe" /\ ~ Hinted(p) /\ ~ InTool(p) /\ ~ Cached(p)
  /\ InSsdt(p)
  /\ Answered(p, "ssdt", Latest)

NothingProbed(p) ==
  /\ pc[p] = "probe" /\ ~ Hinted(p) /\ ~ InTool(p) /\ ~ Cached(p) /\ ~ InSsdt(p)
  /\ Goto(p, "resolve")
  /\ UNCHANGED <<settings, tfm, got, version, todo, disk>>

-----------------------------------------------------------------------------
(* NugetFetcher.ensure *)

\* The pin, or what the feed lists last just now.
ResolveVersion(p) ==
  /\ pc[p] = "resolve"
  /\ \E v \in Versions :
       /\ settings[p].pin[Package(p)] \in {v, Latest}
       /\ version' = [version EXCEPT ![p] = v]
  /\ Goto(p, "ensure")
  /\ UNCHANGED <<settings, tfm, got, todo, disk>>

MarkerFound(p) == Target(p) \in marker

CacheHit(p) ==
  /\ pc[p] = "ensure"
  /\ MarkerFound(p)
  /\ Goto(p, "check")
  /\ UNCHANGED <<settings, tfm, got, version, todo, disk>>

CacheMiss(p) ==
  /\ pc[p] = "ensure"
  /\ ~ MarkerFound(p)
  /\ Goto(p, "download")
  /\ UNCHANGED <<settings, tfm, got, version, todo, disk>>

\* The feed cannot be reached or has no such version: NugetError, which is not
\* among what resolve_all forgives an optional package.
FeedFails(p) ==
  /\ \/ pc[p] = "download"
     \/ pc[p] = "resolve" /\ settings[p].pin[Package(p)] = Latest
  /\ Goto(p, "failed")
  /\ UNCHANGED <<settings, tfm, got, version, todo, disk>>

Download(p) ==
  /\ pc[p] = "download"
  /\ Goto(p, "save")
  /\ UNCHANGED <<settings, tfm, got, version, todo, disk>>

CreateNupkg(p) ==
  /\ pc[p] = "save"
  /\ nupkg' = [nupkg EXCEPT ![Target(p)] = "partial"]
  /\ Goto(p, "saving")
  /\ UNCHANGED <<settings, tfm, got, version, todo, content, marker, config>>

WriteNupkg(p) ==
  /\ pc[p] = "saving"
  /\ nupkg' = [nupkg EXCEPT ![Target(p)] = "whole"]
  /\ Goto(p, "open")
  /\ UNCHANGED <<settings, tfm, got, version, todo, content, marker, config>>

\* Mutant of OpenNupkg: the marker is written first.
OpenNupkgMarked(p) ==
  /\ pc[p] = "open"
  /\ nupkg[Target(p)] = "whole"
  /\ todo' = [todo EXCEPT ![p] = Entries[Target(p)]]
  /\ marker' = marker \cup {Target(p)}
  /\ Goto(p, "extract")
  /\ UNCHANGED <<settings, tfm, got, version, content, nupkg, config>>

OpenNupkg(p) ==
  /\ pc[p] = "open"
  /\ nupkg[Target(p)] = "whole"
  /\ todo' = [todo EXCEPT ![p] = Entries[Target(p)]]
  /\ Goto(p, "extract")
  /\ UNCHANGED <<settings, tfm, got, version, disk>>

\* Another process has the package truncated under this one: BadZipFile, for
\* certain when it is opened, perhaps while entries are read.
NupkgBroken(p) ==
  /\ pc[p] \in {"open", "extract"}
  /\ pc[p] = "extract" => todo[p] # << >>
  /\ nupkg[Target(p)] = "partial"
  /\ Goto(p, "failed")
  /\ UNCHANGED <<settings, tfm, got, version, todo, disk>>

CreateEntry(p) ==
  /\ pc[p] = "extract"
  /\ todo[p] # << >>
  /\ content' = [content EXCEPT ![Target(p)][Head(todo[p])] = "partial"]
  /\ Goto(p, "writing")
  /\ UNCHANGED <<settings, tfm, got, version, todo, nupkg, marker, config>>

\* Mutant of WriteEntry: the entry is decompressed into the open file, and may
\* turn out to be corrupt.
WriteEntryStreamed(p) ==
  /\ pc[p] = "writing"
  /\ \/ /\ content' = [content EXCEPT ![Target(p)][Head(todo[p])] = "whole"]
        /\ todo' = [todo EXCEPT ![p] = Tail(@)]
        /\ Goto(p, "extract")
     \/ Goto(p, "failed") /\ UNCHANGED <<content, todo>>
  /\ UNCHANGED <<settings, tfm, got, version, nupkg, marker, config>>

WriteEntry(p) ==
  /\ pc[p] = "writing"
  /\ content' = [content EXCEPT ![Target(p)][Head(todo[p])] = "whole"]
  /\ todo' = [todo EXCEPT ![p] = Tail(@)]
  /\ Goto(p, "extract")
  /\ UNCHANGED <<settings, tfm, got, version, nupkg, marker, config>>

Mark(p) ==
  /\ pc[p] = "extract"
  /\ todo[p] = << >>
  /\ marker' = marker \cup {Target(p)}
  /\ Goto(p, "check")
  /\ UNCHANGED <<settings, tfm, got, version, todo, content, nupkg, config>>

Fetched(p) ==
  /\ pc[p] = "check"
  /\ content[Target(p)][tfm[p]] # "absent"
  /\ Answered(p, "nuget-fetch", version[p])

\* The version does not support the framework: FileNotFoundError.
NotContained(p) ==
  /\ pc[p] = "check"
  /\ content[Target(p)][tfm[p]] = "absent"
  /\ Package(p) \notin Optional
  /\ Goto(p, "failed")
  /\ UNCHANGED <<settings, tfm, got, version, todo, disk>>

DoWithout(p) ==
  /\ pc[p] = "check"
  /\ content[Target(p)][tfm[p]] = "absent"
  /\ Package(p) \in Optional
  /\ Answered(p, "unresolved", Latest)

-----------------------------------------------------------------------------
(* initialize: the runtime configuration, then the assemblies. *)

InstallEnds(p) ==
  /\ pc[p] = "resolved"
  /\ settings[p].command = "install"
  /\ Goto(p, "done")
  /\ UNCHANGED <<settings, tfm, got, version, todo, disk>>

FindConfig(p) ==
  /\ pc[p] = "resolved"
  /\ settings[p].command = "use"
  /\ Goto(p, IF tfm[p] = "net8.0" /\ config = "absent" THEN "configure" ELSE "load")
  /\ UNCHANGED <<settings, tfm, got, version, todo, disk>>

CreateConfig(p) ==
  /\ pc[p] = "configure"
  /\ config' = "partial"
  /\ Goto(p, "configuring")
  /\ UNCHANGED <<settings, tfm, got, version, todo, content, nupkg, marker>>

\* Mutant of WriteConfig: the text is made while the file is open, and making it
\* may fail.
WriteConfigStreamed(p) ==
  /\ pc[p] = "configuring"
  /\ \/ config' = "whole" /\ Goto(p, "load")
     \/ config' = config /\ Goto(p, "failed")
  /\ UNCHANGED <<settings, tfm, got, version, todo, content, nupkg, marker>>

WriteConfig(p) ==
  /\ pc[p] = "configuring"
  /\ config' = "whole"
  /\ Goto(p, "load")
  /\ UNCHANGED <<settings, tfm, got, version, todo, content, nupkg, marker>>

\* The file an answer names; files outside the cache are taken to be whole.
Answers(p) == DOMAIN got[p]
InCache(p, i) == got[p][i].from \in {"nuget-cache", "nuget-fetch"}
StateOf(p, i) == content[<<PackageOrder[i], got[p][i].version>>][tfm[p]]

\* The runtime refuses a configuration cut short.  An assembly that cannot be
\* referenced is only logged; the first import from a required one then fails.
Loadable(p) ==
  /\ tfm[p] = "net8.0" => config = "whole"
  /\ \A i \in Answers(p) :
       InCache(p, i) /\ PackageOrder[i] \notin Optional => StateOf(p, i) = "whole"

LoadAssemblies(p) ==
  /\ pc[p] = "load"
  /\ Goto(p, IF Loadable(p) THEN "done" ELSE "failed")
  /\ UNCHANGED <<settings, tfm, got, version, todo, disk>>

\* The process is killed, or one of its writes fails halfway.
Crash(p) ==
  /\ Crashes
  /\ Running(p)
  /\ Goto(p, "killed")
  /\ died' = [died EXCEPT ![p] = IF pc[p] \in {"writing", "configuring"} THEN pc[p] ELSE @]
  /\ UNCHANGED <<settings, tfm, got, version, todo, disk>>

-----------------------------------------------------------------------------
Probe(p) == UseHint(p) \/ UseTool(p) \/ UseCached(p) \/ UseSsdt(p) \/ NothingProbed(p)

Ensure(p) ==
  \/ ResolveVersion(p) \/ CacheHit(p) \/ CacheMiss(p) \/ FeedFails(p) \/ Download(p)
  \/ CreateNupkg(p) \/ WriteNupkg(p) \/ OpenNupkg(p) \/ NupkgBroken(p)
  \/ CreateEntry(p) \/ WriteEntry(p) \/ Mark(p)
  \/ Fetched(p) \/ NotContained(p) \/ DoWithout(p)

Initialize(p) ==
  InstallEnds(p) \/ FindConfig(p) \/ CreateConfig(p) \/ WriteConfig(p) \/ LoadAssemblies(p)

Step(p) == Start(p) \/ Probe(p) \/ Ensure(p) \/ Initialize(p)

AllEnded == (\A p \in Procs : pc[p] \in Ended) /\ UNCHANGED vars

Next ==
  \/ \E p \in Procs : (Step(p) /\ UNCHANGED died) \/ Crash(p)
  \/ AllEnded

Spec == Init /\ [][Next]_vars

-----------------------------------------------------------------------------
TypeOK ==
  /\ settings \in [Procs -> Choices]
  /\ pc \in [Procs -> Labels]
  /\ tfm \in [Procs -> Tfms]
  /\ got \in [Procs -> Seq(Answer)]
  /\ version \in [Procs -> Versions \cup {Latest}]
  /\ todo \in [Procs -> Seq(Tfms)]
  /\ content \in [Dirs -> [Tfms -> FileState]]
  /\ nupkg \in [Dirs -> FileState]
  /\ marker \subseteq Dirs
  /\ config \in FileState
  /\ died \in [Procs -> {"idle", "writing", "configuring"}]

\* p has the file of framework t in directory d open for writing.
IsWriting(p, d, t) == pc[p] = "writing" /\ Target(p) = d /\ Head(todo[p]) = t
BeingWritten(d, t) == \E p \in Procs : IsWriting(p, d, t)

\* The marker tells the truth: every file of a marked version is there, and cut
\* short only while another process, that started before the marker was
\* written, is writing the same bytes again.
MarkedIsWhole ==
  \A d \in marker : \A i \in DOMAIN Entries[d] :
    LET t == Entries[d][i]
    IN  content[d][t] = "whole" \/ BeingWritten(d, t)

\* The same of a path that ensure answered, for as long as the process runs.
EnsuredIsWhole ==
  \A p \in Procs : \A i \in Answers(p) :
    got[p][i].from = "nuget-fetch" =>
      \/ StateOf(p, i) = "whole"
      \/ BeingWritten(<<PackageOrder[i], got[p][i].version>>, tfm[p])

\* p is in the middle of the write, or was killed there.
StoppedAt(p, write) == pc[p] = write \/ (pc[p] = "killed" /\ died[p] = write)

\* The file of framework t in directory d is open in p, or was when p was killed.
CutBy(p, d, t) == StoppedAt(p, "writing") /\ Target(p) = d /\ Head(todo[p]) = t

\* What a process that cannot load has met: the runtime configuration, or the file of a
\* required package it took from the cache, that another process is in the middle
\* of writing or was killed in the middle of.
Cause(p) ==
  \/ tfm[p] = "net8.0" /\ \E q \in Procs : StoppedAt(q, "configuring")
  \/ \E i \in Answers(p) :
       /\ InCache(p, i) /\ PackageOrder[i] \notin Optional
       /\ \E q \in Procs : CutBy(q, <<PackageOrder[i], got[p][i].version>>, tfm[p])

\* However processes overlap and are killed, one that has resolved its assemblies fails to
\* load only for such a cause.  No order of probing, fetching, extracting again
\* and repairing leads to a file that is missing or cut short otherwise.  The code does
\* not promise more: what a killed process has cut may be found by every later one.
LoadFailsForACause ==
  [][\A p \in Procs : pc[p] = "load" /\ pc'[p] = "failed" => Cause(p)]_vars
=============================================================================
