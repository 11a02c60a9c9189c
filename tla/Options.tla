------------------------------ MODULE Options ------------------------------
(***************************************************************************)
(* main's option loop: one action per value getopt_long returns.           *)
(*                                                                         *)
(* The modules' own options (--cpu, --mem, ...) are not in longopts.  They *)
(* come back from getopt_long as unknown ('?'), and main looks them up by  *)
(* reading argv once more at optind - 1.  What it finds there depends on   *)
(* where getopt_long's index stands and on how it has reordered argv, so   *)
(* getopt_long is modelled with its index, its reordering and the rest of  *)
(* the element it is in the middle of (glibc, argv permuted).              *)
(*                                                                         *)
(* argv[k] is the program's argv[k], k > 0.  Characters are strings of     *)
(* length one; an abbreviated long option is written as the name it stands *)
(* for.                                                                    *)
(***************************************************************************)
EXTENDS Integers, Sequences, SequencesExt

CONSTANTS
  Module,   \* the names of the registered modules
  Element,  \* the elements of the command lines that are looked at
  MaxArgs   \* bound: the length of these command lines

(* An element of the command line: a word, a cluster of letters after one  *)
(* dash, a name after two dashes (with or without "=text"), or two dashes. *)
Word(text)       == [kind |-> "word", text |-> text]
Short(letters)   == [kind |-> "short", letters |-> letters]
Long(name, with) == [kind |-> "long", name |-> name, with |-> with]
DashDash         == [kind |-> "--"]

ASSUME ElementAssumption ==
  /\ \A e \in Element :
       \/ e \in [kind : {"word"}, text : Seq(STRING)]
       \/ e \in [kind : {"short"}, letters : Seq(STRING)] /\ e.letters # <<>>
       \/ e \in [kind : {"long"}, name : STRING, with : Seq(Seq(STRING))] /\ Len(e.with) <= 1
       \/ e = DashDash
  /\ MaxArgs \in Nat

VARIABLES
  pc,           \* "options", then "report" or "exit"
  scan,         \* argv and getopt_long's place in it
  opt,          \* what getopt_long returned last
  enable,       \* the modules with enable = 1
  opt_count,    \* main's opt_count
  opt_interval, \* main's opt_interval
  is_loop,      \* main's is_loop
  given         \* argv as the program was started with (never changed)

vars == << pc, scan, opt, enable, opt_count, opt_interval, is_loop, given >>

-----------------------------------------------------------------------------
(* Numbers have one digit: enough to tell them apart.                      *)
Digits == <<"1", "2", "3">>

atoi(text) ==
  IF text = <<>> THEN 0
  ELSE SelectInSeq(Digits, LAMBDA d : d = Head(text))

(* atoi of a whole element, dashes included.                               *)
Number(e) ==
  CASE e.kind = "word"  -> atoi(e.text)
    [] e.kind = "short" -> -atoi(e.letters)
    [] OTHER            -> 0

(* optstring and longopts.                                                 *)
Flags     == {"a", "l", "L", "h"}
WithValue == {"c", "d"}
longopts  == [ all |-> "a", count |-> "c", delay |-> "d", list |-> "l",
               load |-> "L", help |-> "h" ]

(* No module has the name of one of these (mod_*.c:5).                     *)
ASSUME ModuleAssumption == Module \cap DOMAIN longopts = {}

-----------------------------------------------------------------------------
(* getopt_long.  s.first and s.last bound the words skipped so far that    *)
(* have not been moved behind the options; s.next is what is left of the   *)
(* cluster in hand.                                                        *)

argc(s) == Len(s.argv) + 1

exchange(s) ==
  [ s EXCEPT !.argv = SubSeq(@, 1, s.first - 1)
                        \o SubSeq(@, s.last, s.optind - 1)
                        \o SubSeq(@, s.first, s.last - 1)
                        \o SubSeq(@, s.optind, Len(@)),
             !.first = @ + s.optind - s.last,
             !.last = s.optind ]

(* The words skipped before are moved behind the options read since.       *)
Permute(s) ==
  IF s.last = s.optind THEN s
  ELSE IF s.first = s.last THEN [s EXCEPT !.first = s.optind]
  ELSE exchange(s)

SkipWords(s) ==
  LET options == {k \in s.optind .. Len(s.argv) : s.argv[k].kind # "word"}
      stop == IF options = {} THEN argc(s)
              ELSE CHOOSE k \in options : \A j \in options : k <= j
  IN  [s EXCEPT !.optind = stop, !.last = stop]

(* "--" ends the options, and all that follows counts as words.            *)
EndOfOptions(s) ==
  LET at == [s EXCEPT !.optind = @ + 1]
      moved == IF at.first = at.last THEN [at EXCEPT !.first = at.optind]
               ELSE exchange(at)
  IN  [moved EXCEPT !.last = argc(s), !.optind = argc(s)]

NextElement(s) ==
  LET at == SkipWords(Permute(s))
  IN  IF at.optind < argc(s) /\ at.argv[at.optind] = DashDash
      THEN EndOfOptions(at) ELSE at

Returns(s, option, optarg) == [scan |-> s, opt |-> option, optarg |-> optarg]

(* An option's value is the rest of its element or else the next element,  *)
(* whatever that looks like.                                               *)
ValueOf(s, option) ==
  IF s.optind = argc(s)
  THEN Returns(s, ":", 0)
  ELSE Returns([s EXCEPT !.optind = @ + 1], option, Number(s.argv[s.optind]))

ShortOption(s) ==
  LET c == Head(s.next)
      rest == Tail(s.next)
      passed == [s EXCEPT !.optind = @ + 1, !.next = <<>>]
      onward == IF rest = <<>> THEN passed ELSE [s EXCEPT !.next = rest]
  IN  CASE c \in WithValue /\ rest = <<>> -> ValueOf(passed, c)
        [] c \in WithValue /\ rest # <<>> -> Returns(passed, c, atoi(rest))
        [] c = "h"                        -> Returns(passed, c, 0)
        [] c \in Flags \ {"h"}            -> Returns(onward, c, 0)
        [] OTHER                          -> Returns(onward, "?", 0)

LongOption(s) ==
  LET e == s.argv[s.optind]
      passed == [s EXCEPT !.optind = @ + 1]
      known == e.name \in DOMAIN longopts
      option == IF known THEN longopts[e.name] ELSE "?"
  IN  CASE option \in WithValue /\ e.with = <<>> -> ValueOf(passed, option)
        [] option \in WithValue /\ e.with # <<>> ->
             Returns(passed, option, atoi(e.with[1]))
        [] option \in Flags /\ e.with = <<>>     -> Returns(passed, option, 0)
        [] OTHER                                 -> Returns(passed, "?", 0)

getopt_long(s) ==
  IF s.next # <<>> THEN ShortOption(s)
  ELSE LET at == NextElement(s)
       IN  IF at.optind = argc(at) THEN Returns(at, "end", 0)
           ELSE IF at.argv[at.optind].kind = "long" THEN LongOption(at)
           ELSE ShortOption([at EXCEPT !.next = at.argv[at.optind].letters])

-----------------------------------------------------------------------------
Init ==
  /\ pc = "options"
  /\ given \in UNION {[1 .. n -> Element] : n \in 0 .. MaxArgs}
  /\ scan = [argv |-> given, optind |-> 1, first |-> 1, last |-> 1, next |-> <<>>]
  /\ opt = "none"
  /\ enable = {}
  /\ opt_count = -1
  /\ opt_interval = 2
  /\ is_loop = FALSE

(* One turn of the loop: getopt_long returns option c.                     *)
Case(c) ==
  /\ pc = "options"
  /\ getopt_long(scan).opt = c
  /\ opt' = c
  /\ scan' = getopt_long(scan).scan
  /\ UNCHANGED given

optarg == getopt_long(scan).optarg

Exits == pc' = "exit" /\ UNCHANGED << enable, opt_count, opt_interval, is_loop >>

all ==
  /\ Case("a")
  /\ enable' = Module                                    \* enable_all_module
  /\ UNCHANGED << pc, opt_count, opt_interval, is_loop >>

count_first ==
  /\ Case("c")
  /\ opt_count' = IF opt_count = -1 THEN optarg ELSE opt_count
  /\ UNCHANGED << pc, enable, opt_interval, is_loop >>

count ==
  /\ Case("c")
  /\ opt_count' = optarg
  /\ UNCHANGED << pc, enable, opt_interval, is_loop >>

delay ==
  /\ Case("d")
  /\ opt_interval' = IF optarg > 0 THEN optarg ELSE 2
  /\ UNCHANGED << pc, enable, opt_count, is_loop >>

list == Case("l") /\ Exits     \* list_enable_module prints enable

load == Case("L") /\ Exits

usage == (Case("h") \/ Case(":")) /\ Exits

(* A module's option enables the module; any other text ends the program.  *)
enable_module_only(e) ==
  IF e.kind = "long" /\ e.with = <<>> /\ e.name \in Module
  THEN enable' = {e.name} /\ UNCHANGED << pc, opt_count, opt_interval, is_loop >>
  ELSE Exits

enable_module(e) ==
  IF e.kind = "long" /\ e.with = <<>> /\ e.name \in Module
  THEN /\ enable' = enable \union {e.name}
       /\ UNCHANGED << pc, opt_count, opt_interval, is_loop >>
  ELSE Exits

(* As if argv were still in the order the program was started with.        *)
unknown_as_given ==
  /\ Case("?")
  /\ LET _optind == scan'.optind - 1
     IN  IF _optind > 0 /\ given[_optind].kind \in {"long", "--"}
         THEN enable_module(given[_optind])
         ELSE Exits

(* As if main moved getopt_long's own index back.                          *)
unknown_rewinds ==
  /\ pc = "options"
  /\ getopt_long(scan).opt = "?"
  /\ opt' = "?"
  /\ scan' = [getopt_long(scan).scan EXCEPT !.optind = @ - 1]
  /\ UNCHANGED given
  /\ IF scan'.optind > 0 /\ scan'.argv[scan'.optind].kind \in {"long", "--"}
     THEN enable_module(scan'.argv[scan'.optind])
     ELSE Exits

(* '?': main reads argv at optind - 1, in the order getopt_long has left   *)
(* argv in.  argv[0], the program, holds no "--".                          *)
unknown ==
  /\ Case("?")
  /\ LET _optind == scan'.optind - 1
     IN  IF _optind > 0 /\ scan'.argv[_optind].kind \in {"long", "--"}
         THEN enable_module(scan'.argv[_optind])
         ELSE Exits                                      \* usage

(* No option is left: is_loop, and check_enable_module.                    *)
end ==
  /\ Case("end")
  /\ is_loop' = (opt_count <= 0)
  /\ pc' = IF enable = {} THEN "exit" ELSE "report"
  /\ UNCHANGED << enable, opt_count, opt_interval >>

Next ==
  \/ all
  \/ count
  \/ delay
  \/ list
  \/ load
  \/ usage
  \/ unknown
  \/ end

Spec == Init /\ [][Next]_vars

-----------------------------------------------------------------------------
(* What a command line asks for, read from left to right and as given:     *)
(* without an index, and without reordering.                               *)

(* The letters of a cluster up to the one that takes the rest as its text. *)
Takers == WithValue \union {"h"}

IsRead(letters, p) == \A q \in 1 .. p - 1 : letters[q] \notin Takers

TakesNext(e) ==
  \/ e.kind = "long" /\ e.name \in {"count", "delay"} /\ e.with = <<>>
  \/ /\ e.kind = "short" /\ IsRead(e.letters, Len(e.letters))
     /\ Last(e.letters) \in WithValue

(* What element e is, behind one whose role is before: an option, an       *)
(* option's value, a word, or past the end of the options.                 *)
RoleOf(e, before, preceding) ==
  IF before = "past" \/ (before = "option" /\ preceding = DashDash) THEN "past"
  ELSE IF before = "option" /\ TakesNext(preceding) THEN "value"
  ELSE IF e.kind = "word" THEN "word"
  ELSE "option"

Roles(line) ==
  LET role[k \in DOMAIN line] ==
        IF k = 1 THEN RoleOf(line[k], "none", line[k])
        ELSE RoleOf(line[k], role[k - 1], line[k - 1])
  IN  role

Option(line, k) == Roles(line)[k] = "option" /\ line[k] # DashDash

(* The letters of element k that are read as options.                      *)
Letters(line, k) ==
  IF Option(line, k) /\ line[k].kind = "short"
  THEN {p \in DOMAIN line[k].letters : IsRead(line[k].letters, p)}
  ELSE {}

Names(e, module) == e = Long(module, <<>>)

(* An unknown letter that other letters follow is taken for whatever       *)
(* element comes before its cluster, once the words are behind: it is      *)
(* overlooked if that names a module.                                      *)
IsUnknown(letter) == letter \notin Flags \union WithValue

Overlooked(line, k, p) ==
  /\ IsUnknown(line[k].letters[p])
  /\ p < Len(line[k].letters)
  /\ k > 1 /\ \E module \in Module : Names(line[k - 1], module)
  /\ \A j \in 1 .. k - 1 : Roles(line)[j] # "word"

(* The modules wanted by what stands before letter p of element k; a name  *)
(* before an overlooked letter counts even where it is an option's value.  *)
Wanted(line, k, p) ==
  LET before(j) == {q \in Letters(line, j) : j < k \/ (j = k /\ q < p)}
  IN  {module \in Module :
         \/ \E j \in 1 .. k - 1 :
              /\ Option(line, j)
              /\ line[j] = Long("all", <<>>) \/ Names(line[j], module)
         \/ \E j \in DOMAIN line : \E q \in before(j) :
              \/ line[j].letters[q] = "a"
              \/ Overlooked(line, j, q) /\ Names(line[j - 1], module)}

(* The elements that end the program instead of being an option to it.     *)
LetterEnds(line, k, p) ==
  \/ line[k].letters[p] \in {"l", "L", "h"}
  \/ IsUnknown(line[k].letters[p]) /\ ~Overlooked(line, k, p)

Ends(line, k) ==
  \/ Option(line, k) /\ TakesNext(line[k]) /\ k = Len(line)
  \/ /\ Option(line, k) /\ line[k].kind = "long"
     /\ ~\E module \in Module : Names(line[k], module)
     /\ \/ line[k].name \notin {"all", "count", "delay"}
        \/ line[k].name = "all" /\ line[k].with # <<>>
  \/ \E p \in Letters(line, k) : LetterEnds(line, k, p)

(* The number that element k gives to option c.                            *)
LongGives(line, k, c) ==
  /\ Option(line, k) /\ line[k].kind = "long"
  /\ line[k].name \in DOMAIN longopts
  /\ longopts[line[k].name] = c

At(line, k, c) == {p \in Letters(line, k) : line[k].letters[p] = c}

NumberGiven(line, k, c) ==
  IF TakesNext(line[k]) THEN Number(line[k + 1])
  ELSE IF line[k].kind = "long" THEN atoi(line[k].with[1])
  ELSE atoi(SubSeq(line[k].letters, 1 + CHOOSE p \in At(line, k, c) : TRUE,
                   Len(line[k].letters)))

(* The last number given to option c in front of element k.                *)
LastNumber(line, k, c, none) ==
  LET givers == {j \in 1 .. k - 1 : LongGives(line, j, c) \/ At(line, j, c) # {}}
  IN  IF givers = {} THEN none ELSE NumberGiven(line, Max(givers), c)

-----------------------------------------------------------------------------
(* Properties.                                                             *)

End == Len(given) + 1

(* Reports are made exactly when the command line, read from left to       *)
(* right, holds no option that ends the program and wants some module; and *)
(* then of the modules it wants and of no other, although main finds their *)
(* names in argv where getopt_long happens to stand                        *)
(* (tool_zsr.c:158-161).                                                   *)
EnabledAsNamed ==
  /\ pc = "report" => enable = Wanted(given, End, 1) /\ enable # {}
  /\ pc # "options" =>
       (pc = "exit") = (\/ \E k \in DOMAIN given : Ends(given, k)
                        \/ Wanted(given, End, 1) = {})

(* However options, values and words are mixed, the count and the interval *)
(* are the last ones given, a number below 1 stands for no count and for   *)
(* the default interval, and a value may be what looks like an option      *)
(* (tool_zsr.c:137-140, 171).                                              *)
LastNumberCounts ==
  pc = "report" =>
    /\ opt_count = LastNumber(given, End, "c", -1)
    /\ opt_interval = LET d == LastNumber(given, End, "d", 2)
                      IN  IF d > 0 THEN d ELSE 2
    /\ is_loop <=> LastNumber(given, End, "c", 0) <= 0

(* -l shows the modules wanted by the options before it, and by the        *)
(* letters before it in its cluster, never those after it                  *)
(* (tool_zsr.c:142-145): options are acted on one by one.                  *)
ListingIsOfOptionsBefore ==
  pc = "exit" /\ opt = "l" =>
    \E k \in DOMAIN given :
      /\ \A j \in 1 .. k - 1 : ~Ends(given, j)
      /\ \/ /\ Option(given, k) /\ given[k] = Long("list", <<>>)
            /\ enable = Wanted(given, k, 1)
         \/ \E p \in At(given, k, "l") :
              /\ \A q \in Letters(given, k) : q < p => ~LetterEnds(given, k, q)
              /\ enable = Wanted(given, k, p)

(* The letters getopt_long has not read of the element it stands at.       *)
Size(e) == IF e.kind = "short" THEN Len(e.letters) ELSE 1

Unread(s) ==
  IF s.optind = argc(s) THEN 0
  ELSE IF s.next # <<>> THEN Len(s.next) ELSE Size(s.argv[s.optind])

(* Every turn of the loop reads on, to another element or within the one   *)
(* in hand, so that it ends for every command line (tool_zsr.c:129-169):   *)
(* also where an unknown letter leaves getopt_long's index on an element,  *)
(* and main reads the one before it once more.                             *)
ReadsOn ==
  [][pc' = "options" =>
       /\ scan'.optind <= End
       /\ \/ scan'.optind > scan.optind
          \/ scan'.optind = scan.optind /\ Unread(scan') < Unread(scan)]_vars
=============================================================================
