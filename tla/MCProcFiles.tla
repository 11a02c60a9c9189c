---------------------------- MODULE MCProcFiles ----------------------------
(***************************************************************************)
(* Instances of ProcFiles for TLC.                                         *)
(***************************************************************************)
EXTENDS ProcFiles

(* "sh", "kworker 12", "a b 3", "x y z", and a name with a blank in front. *)
SomeNames ==
  { << "text" >>, << "text", "number" >>, << "text", "text", "number" >>,
    << "text", "text", "text" >>, << "blank", "text" >> }

Users == {"root", "user", "gone"}
Known == {"root", "user"}
=============================================================================
