----------------------------- MODULE MCProcStat -----------------------------
(***************************************************************************)
(* Instances of ProcStat for TLC: three process numbers, the first of      *)
(* which is always in use, and two scans.                                  *)
(***************************************************************************)
EXTENDS ProcStat

ThreePids == 1 .. 3
First == {1}
Second == {2}
Stale == {5}
=============================================================================
