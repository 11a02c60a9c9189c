------------------------------ MODULE MCRates ------------------------------
(***************************************************************************)
(* Instances of Rates for TLC.                                             *)
(***************************************************************************)
EXTENDS Rates

TwoDisks == << "sda", "sdb" >>
OneDisk == << "sda" >>
=============================================================================
