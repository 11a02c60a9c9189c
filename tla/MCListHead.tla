----------------------------- MODULE MCListHead -----------------------------
(***************************************************************************)
(* Two lists and a few entries, enough for every call to meet an empty     *)
(* list, a list of one entry and a longer one.                             *)
(***************************************************************************)
EXTENDS ListHead, TLC

Symmetric == Permutations(Heads) \union Permutations(Entries)
=============================================================================
