----------------------------- MODULE MCOptions -----------------------------
(***************************************************************************)
(* Instances of Options for TLC: two modules, and elements of every kind.  *)
(***************************************************************************)
EXTENDS Options

TwoModules == {"cpu", "mem"}

Elements ==
  { Word(<<"3">>), DashDash,
    Long("cpu", <<>>), Long("mem", <<>>), Long("cpu", << <<"1">> >>),
    Long("all", <<>>), Long("all", << <<"1">> >>),
    Long("count", <<>>), Long("count", << <<"2">> >>), Long("delay", <<>>),
    Long("list", <<>>), Long("load", <<>>),
    Short(<<"a", "l">>), Short(<<"c">>), Short(<<"d", "3">>),
    Short(<<"x", "a">>), Short(<<"x", "l">>), Short(<<"a", "x">>),
    Short(<<"2">>), Short(<<"h">>) }
=============================================================================
