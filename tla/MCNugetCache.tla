---------------------------- MODULE MCNugetCache ----------------------------
(* Small runs for TLC. *)
EXTENDS NugetCache

Order == <<"dacfx", "sqlclient">>

\* Version 2 has no net472 build.
ZipEntries ==
  [d \in Packages \X Versions |->
     IF d[2] = 2 THEN <<"net8.0">> ELSE <<"net472", "net8.0">>]

With(command, runtime, dacfx, sqlclient, hint, tool, ssdt, dotnet8) ==
  [command |-> command, runtime |-> runtime,
   pin |-> [k \in Packages |-> IF k = "dacfx" THEN dacfx ELSE sqlclient],
   hint |-> hint, tool |-> tool, ssdt |-> ssdt, dotnet8 |-> dotnet8]

Plain(command, runtime, dacfx, sqlclient) ==
  With(command, runtime, dacfx, sqlclient, {}, {}, {}, FALSE)

\* Pins that agree and that do not, both runtimes, and every source of a file.
Everyday ==
  {Plain("install", "coreclr", 1, 1), Plain("use", "netfx", 1, 2),
   Plain("use", "auto", Latest, 1),
   With("use", "coreclr", 1, 1, {"dacfx"}, {}, {}, TRUE),
   With("use", "auto", 1, 1, {}, {"dacfx"}, {}, TRUE),
   With("use", "netfx", 1, 1, {}, {}, {"dacfx"}, FALSE)}

\* What a process that follows a crash can meet.
Recovering ==
  {Plain("install", "coreclr", 1, 1), Plain("use", "netfx", 1, 2), Plain("use", "auto", Latest, 1)}
=============================================================================
