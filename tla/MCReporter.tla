----------------------------- MODULE MCReporter -----------------------------
(***************************************************************************)
(* Instances of Reporter for TLC: which report modules are registered,     *)
(* which of them the options enable, how many reports are asked for.       *)
(***************************************************************************)
EXTENDS Reporter, ReportModules

(* A module of each discipline: io is the one that can exit and the one    *)
(* that loses descriptors, ip the one that can crash and free its rows, fs *)
(* one that comes before io and still finds a descriptor in the last round.*)
OneOfEach == <<mod_cpu, mod_fs, mod_gateway, mod_io, mod_ip>>

CpuAndIo == <<mod_cpu, mod_io>>
OnlyWho == <<mod_who>>

(* Nothing, everything, and a report without the modules that keep a       *)
(* history.                                                                *)
AllOrSome == {{}, {2, 3, 5}, 1 .. 5}
OnlyCpu == {{1}}

NoModule == {}
AllButIo == {1, 2, 3, 5}

UpToThree == {1, 2, 3}
UpToFive == 1 .. 5
EndlessTwoOrThree == {-1, 2, 3}
=============================================================================
