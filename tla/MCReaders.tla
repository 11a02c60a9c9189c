----------------------------- MODULE MCReaders -----------------------------
(***************************************************************************)
(* Instances of Readers for TLC: every source of up to MaxRows entries.    *)
(***************************************************************************)
EXTENDS Readers

Names == { <<"0">>, <<".", ".">>, <<"x">>, <<"0", "x">> }

SourcesOf(entry) == UNION {[1 .. n -> entry] : n \in 0 .. MaxRows}

Processes ==
  [name : {<<"0">>}, directory : {TRUE}, lives : BOOLEAN, account : BOOLEAN]
    \union [name : Names, directory : BOOLEAN, lives : {TRUE}, account : {TRUE}]

AllEntries ==
  [ r \in Readers |->
      SourcesOf(IF r = "get_all_proc" THEN Processes ELSE EntryOf(r)) ]

(* The edges of a minute, an hour, a day, a month, twelve months, a year.  *)
Edges ==
  UNION {{t - 1, t, t + 1} : t \in { 60, 3600, 86400, 2592000, 31104000,
                                     31536000, 34128000 }}

InfoOrOff == {LOG_INFO, LOG_OFF}
SmallOrNone == {0, 3}
=============================================================================
