---------------------------- MODULE ReportLoop ----------------------------
(***************************************************************************)
(* What the command line promises of a run of zsr, and no more: a run that *)
(* starts reporting makes the number of reports asked for and then         *)
(* finishes, or it goes on for ever when no number was asked for.  A run   *)
(* may instead quit before its first report, or be aborted later.          *)
(***************************************************************************)
EXTENDS Naturals

VARIABLES
  stage,   \* how far the run has got
  asked,   \* number of reports asked for, 0 for an endless run
  made     \* number of complete reports made so far

absVars == <<stage, asked, made>>

Stages == {"idle", "reporting", "finished", "quit", "aborted"}

AbsTypeOK ==
  /\ stage \in Stages
  /\ asked \in Nat
  /\ made \in Nat

Init ==
  /\ stage = "idle"
  /\ asked = 0
  /\ made = 0

(* The arguments are accepted, and say how many reports are to be made.    *)
Start ==
  /\ stage = "idle"
  /\ stage' = "reporting"
  /\ asked' \in Nat
  /\ UNCHANGED made

(* Help and the listings end the run, and so does having nothing to do.    *)
Quit ==
  /\ stage = "idle"
  /\ stage' = "quit"
  /\ UNCHANGED <<asked, made>>

Report ==
  /\ stage = "reporting"
  /\ asked = 0 \/ made < asked
  /\ made' = made + 1
  /\ UNCHANGED <<stage, asked>>

Finish ==
  /\ stage = "reporting"
  /\ asked # 0
  /\ made = asked
  /\ stage' = "finished"
  /\ UNCHANGED <<asked, made>>

(* Between two reports, or when they are all made and memory is freed.     *)
Abort ==
  /\ stage \in {"reporting", "finished"}
  /\ stage' = "aborted"
  /\ UNCHANGED <<asked, made>>

Next ==
  \/ Start
  \/ Quit
  \/ Report
  \/ Finish
  \/ Abort

Spec == Init /\ [][Next]_absVars
=============================================================================
