----------------------------- MODULE OptionsProofs -----------------------------
(***************************************************************************)
(* What Options checks of main's option loop, for every command line: the  *)
(* modules, the count and the interval are those the line names, -l lists  *)
(* what stands before it, and every turn of the loop reads on.             *)
(*                                                                         *)
(* What getopt_long moves lies behind it, so that it reads the line as it  *)
(* was given.  Only main's second look, at the element before              *)
(* getopt_long's place, can meet a moved one, and that is a word: where    *)
(* nothing was moved, it meets the element the line has there.             *)
(***************************************************************************)
EXTENDS Options, SequenceTheorems, WellFoundedInduction, TLAPS

-----------------------------------------------------------------------------
(* A set of numbers that is not empty has a least one.                     *)
LEMMA LeastOfSome ==
  ASSUME NEW S, S \subseteq Nat, S # {}
  PROVE  \E m \in S : \A i \in S : m <= i
<1> DEFINE R == OpToRel(<, Nat)
<1>1. IsWellFoundedOn(R, Nat)
  BY NatLessThanWellFounded, Zenon
<1>2. \A i, j \in Nat : i < j => <<i, j>> \in R
  BY DEF OpToRel
<1> HIDE DEF R
<1>3. \E m \in S : \A i \in S : ~(<<i, m>> \in R)
  BY <1>1, WFMin, Zenon
<1>4. PICK m \in S : \A i \in S : ~(<<i, m>> \in R)
  BY <1>3
<1>5. \A i \in S : ~(i < m)
  BY <1>2, <1>4
<1> QED
  BY <1>5

(* What holds of 0 and is passed on up to n holds of n.                    *)
LEMMA ByInduction ==
  ASSUME NEW A, NEW n \in Nat, 0 \in A, \A k \in 0 .. n - 1 : k \in A => k + 1 \in A
  PROVE  n \in A
<1> SUFFICES ASSUME n \notin A
             PROVE  FALSE
  OBVIOUS
<1> DEFINE S == (0 .. n) \ A
<1>1. S \subseteq Nat /\ S # {}
  OBVIOUS
<1>2. PICK m \in S : \A k \in S : m <= k
  BY <1>1, LeastOfSome
<1>3. m - 1 \in 0 .. n - 1 /\ m - 1 \in A
  BY <1>2
<1> QED
  BY <1>2, <1>3

-----------------------------------------------------------------------------
(* The roles of the elements of a line.                                    *)

Role(line, f, k) ==
  IF k = 1 THEN RoleOf(line[k], "none", line[k])
  ELSE RoleOf(line[k], f[k - 1], line[k - 1])

(* There are roles that follow from one another.                           *)
LEMMA RolesExist ==
  ASSUME NEW line, NEW n \in Nat
  PROVE  \E f : f = [k \in 1 .. n |-> Role(line, f, k)]
<1> DEFINE A == {j \in Nat : \E f : f = [k \in 1 .. j |-> Role(line, f, k)]}
<1>1. 0 \in A
  <2> DEFINE f == [k \in 1 .. 0 |-> k]
  <2>1. f = [k \in 1 .. 0 |-> Role(line, f, k)]
    OBVIOUS
  <2> QED
    BY <2>1
<1>2. ASSUME NEW j \in 0 .. n - 1, j \in A
      PROVE  j + 1 \in A
  <2>1. PICK f : f = [k \in 1 .. j |-> Role(line, f, k)]
    BY <1>2
  <2>2. \A k \in 1 .. j : f[k] = Role(line, f, k)
    BY <2>1
  <2> DEFINE g == [k \in 1 .. j + 1 |-> IF k <= j THEN f[k] ELSE Role(line, f, k)]
  <2>3. /\ \A k \in 1 .. j : g[k] = f[k]
        /\ g[j + 1] = Role(line, f, j + 1)
        /\ g = [k \in 1 .. j + 1 |-> g[k]]
    OBVIOUS
  <2> HIDE DEF g
  <2>4. ASSUME NEW k \in 1 .. j + 1
        PROVE  g[k] = Role(line, g, k)
    <3>1. Role(line, g, k) = Role(line, f, k)
      <4>1. k # 1 => k - 1 \in 1 .. j
        OBVIOUS
      <4> QED
        BY <4>1, <2>3 DEF Role
    <3>2. k \in 1 .. j \/ k = j + 1
      OBVIOUS
    <3> QED
      BY <3>1, <3>2, <2>2, <2>3
  <2>5. g = [k \in 1 .. j + 1 |-> Role(line, g, k)]
    BY <2>3, <2>4
  <2> QED
    BY <2>5
<1> HIDE DEF A
<1>3. n \in A
  BY <1>1, <1>2, ByInduction
<1> QED
  BY <1>3 DEF A

(* The roles that Roles chooses follow from one another.                   *)
LEMMA RolesAre ==
  ASSUME NEW line, Len(line) \in Nat, DOMAIN line = 1 .. Len(line)
  PROVE  \A k \in 1 .. Len(line) : Roles(line)[k] = Role(line, Roles(line), k)
<1> DEFINE rec(f) == f = [k \in DOMAIN line |->
                            IF k = 1 THEN RoleOf(line[k], "none", line[k])
                            ELSE RoleOf(line[k], f[k - 1], line[k - 1])]
           roles == CHOOSE f : rec(f)
<1>1. Roles(line) = roles
  BY DEF Roles
<1>2. \E f : rec(f)
  <2>1. PICK f : f = [k \in 1 .. Len(line) |-> Role(line, f, k)]
    BY RolesExist, Zenon
  <2>2. rec(f)
    BY <2>1 DEF Role
  <2> QED
    BY <2>2
<1>3. rec(roles)
  <2> HIDE DEF rec
  <2> QED
    BY <1>2
<1>4. \A k \in 1 .. Len(line) : roles[k] = Role(line, roles, k)
  <2> DEFINE g == [k \in DOMAIN line |-> IF k = 1 THEN RoleOf(line[k], "none", line[k])
                                         ELSE RoleOf(line[k], roles[k - 1], line[k - 1])]
  <2>1. roles = g
    BY <1>3
  <2>2. \A k \in 1 .. Len(line) : g[k] = Role(line, roles, k)
    BY DEF Role
  <2> HIDE DEF g, roles
  <2> QED
    BY <2>1, <2>2, Zenon
<1> QED
  BY <1>1, <1>4

(* A line, element by element.                                             *)
LEMMA LineIs ==
  ASSUME NEW line \in Seq(Element)
  PROVE  /\ Len(line) \in Nat
         /\ DOMAIN line = 1 .. Len(line)
         /\ \A k \in 1 .. Len(line) : line[k] \in Element
OBVIOUS

(* What the elements of a line can be.                                     *)
LEMMA ElementIs ==
  ASSUME NEW e \in Element
  PROVE  /\ e.kind \in {"word", "short", "long", "--"}
         /\ e.kind = "short" => e.letters \in Seq(STRING) /\ Len(e.letters) \in Nat \ {0}
         /\ e.kind = "long" => /\ e.with \in Seq(Seq(STRING)) /\ Len(e.with) \in 0 .. 1
                               /\ e = Long(e.name, e.with)
         /\ e.kind = "--" <=> e = DashDash
<1>1. CASE e \in [kind : {"word"}, text : Seq(STRING)]
  BY <1>1 DEF DashDash
<1>2. CASE e \in [kind : {"short"}, letters : Seq(STRING)] /\ e.letters # <<>>
  <2>1. e.kind = "short" /\ e.letters \in Seq(STRING) /\ e.letters # <<>>
    BY <1>2
  <2>2. Len(e.letters) \in Nat \ {0}
    BY <2>1, EmptySeq
  <2> QED
    BY <2>1, <2>2 DEF DashDash
<1>3. CASE e \in [kind : {"long"}, name : STRING, with : Seq(Seq(STRING))] /\ Len(e.with) <= 1
  <2>1. e.kind = "long" /\ e.with \in Seq(Seq(STRING)) /\ Len(e.with) <= 1
    BY <1>3
  <2>2. e = Long(e.name, e.with)
    BY <1>3 DEF Long
  <2>3. Len(e.with) \in 0 .. 1
    <3>1. Len(e.with) \in Nat
      BY <2>1, LenProperties, Zenon
    <3>2. Len(e.with) <= 1
      BY <1>3, Zenon
    <3>3. \A n \in Nat : n <= 1 => n \in 0 .. 1
      OBVIOUS
    <3> QED
      BY <3>1, <3>2, <3>3, Zenon
  <2>4. e # DashDash
    BY <2>1 DEF DashDash
  <2> QED
    BY <2>1, <2>2, <2>3, <2>4
<1>4. CASE e = DashDash
  BY <1>4 DEF DashDash
<1> QED
  BY <1>1, <1>2, <1>3, <1>4, ElementAssumption

(* Nothing takes what stands before element k as its own.                  *)
Fresh(line, k) ==
  k > 1 => /\ Roles(line)[k - 1] # "past"
           /\ Roles(line)[k - 1] = "option" =>
                ~TakesNext(line[k - 1]) /\ line[k - 1] # DashDash

(* Roles from an element on that nothing before it takes.                  *)
LEMMA FreshRole ==
  ASSUME NEW line \in Seq(Element), NEW k \in 1 .. Len(line), Fresh(line, k)
  PROVE  Roles(line)[k] = IF line[k].kind = "word" THEN "word" ELSE "option"
<1>1. Roles(line)[k] = Role(line, Roles(line), k)
  BY RolesAre, LineIs
<1> QED
  BY <1>1, LineIs DEF Fresh, Role, RoleOf

LEMMA FreshOn ==
  ASSUME NEW line \in Seq(Element), NEW k \in 1 .. Len(line), Fresh(line, k),
         line[k].kind = "word" \/ (line[k] # DashDash /\ ~TakesNext(line[k]))
  PROVE  Fresh(line, k + 1)
<1>1. (k + 1) - 1 = k
  OBVIOUS
<1> QED
  BY <1>1, FreshRole DEF Fresh

LEMMA FreshBehindValue ==
  ASSUME NEW line \in Seq(Element), NEW k \in 1 .. Len(line), Fresh(line, k),
         TakesNext(line[k]), k < Len(line)
  PROVE  Roles(line)[k + 1] = "value" /\ Fresh(line, k + 2)
<1>1. (k + 1) - 1 = k /\ (k + 2) - 1 = k + 1 /\ k + 1 \in 1 .. Len(line) /\ k + 1 # 1
  BY LineIs
<1>2. line[k].kind \in {"long", "short"} /\ line[k] # DashDash
  BY DEF TakesNext, DashDash
<1>3. Roles(line)[k] = "option"
  BY <1>2, FreshRole
<1>4. Roles(line)[k + 1] = Role(line, Roles(line), k + 1)
  BY <1>1, RolesAre, LineIs
<1>5. Role(line, Roles(line), k + 1) = RoleOf(line[k + 1], Roles(line)[k], line[k])
  BY <1>1 DEF Role
<1>6. Roles(line)[k + 1] = "value"
  BY <1>2, <1>3, <1>4, <1>5 DEF RoleOf
<1> QED
  BY <1>1, <1>6 DEF Fresh

LEMMA PastDashes ==
  ASSUME NEW line \in Seq(Element), NEW k \in 1 .. Len(line), Fresh(line, k),
         line[k] = DashDash
  PROVE  \A j \in k + 1 .. Len(line) : Roles(line)[j] = "past"
<1>1. Len(line) \in Nat /\ Roles(line)[k] = "option"
  BY FreshRole, LineIs DEF DashDash
<1>2. ASSUME NEW j \in k + 1 .. Len(line), Roles(line)[j - 1] = "past" \/ j = k + 1
      PROVE  Roles(line)[j] = "past"
  <2>1. j \in 1 .. Len(line) /\ j # 1 /\ (j = k + 1 => j - 1 = k)
    BY <1>1
  <2>2. Roles(line)[j] = Role(line, Roles(line), j)
    BY <2>1, RolesAre, LineIs
  <2>3. Role(line, Roles(line), j) = RoleOf(line[j], Roles(line)[j - 1], line[j - 1])
    BY <2>1 DEF Role
  <2> QED
    BY <1>1, <1>2, <2>1, <2>2, <2>3 DEF RoleOf
<1> DEFINE S == {j \in k + 1 .. Len(line) : Roles(line)[j] # "past"}
<1>3. SUFFICES ASSUME S # {} PROVE FALSE
  OBVIOUS
<1>4. S \subseteq Nat
  BY <1>1
<1>5. PICK m \in S : \A i \in S : m <= i
  BY <1>3, <1>4, LeastOfSome
<1>6. m \in k + 1 .. Len(line) /\ m - 1 \notin S
  BY <1>1, <1>5
<1>7. m # k + 1 => m - 1 \in k + 1 .. Len(line)
  BY <1>1, <1>6
<1> QED
  BY <1>2, <1>5, <1>6, <1>7

-----------------------------------------------------------------------------
(* getopt_long's place in argv.                                            *)

Scan == [argv : Seq(Element), optind : Nat, first : Nat, last : Nat, next : Seq(STRING)]

(* What exchange leaves: the part behind it as it was, and in front of it  *)
(* the words.                                                              *)
Exchanged(s, t) ==
  /\ t \in Scan
  /\ t.optind = s.optind /\ t.next = s.next
  /\ t.first = s.first + s.optind - s.last /\ t.last = s.optind
  /\ Len(t.argv) = Len(s.argv)
  /\ \A j \in s.optind .. Len(s.argv) : t.argv[j] = s.argv[j]
  /\ \A j \in t.first .. t.last - 1 : \E i \in s.first .. s.last - 1 : t.argv[j] = s.argv[i]

LEMMA ExchangeIs ==
  ASSUME NEW s \in Scan, s.first \in 1 .. s.last, s.last \in 1 .. s.optind,
         s.optind \in 1 .. Len(s.argv) + 1
  PROVE  Exchanged(s, exchange(s))
<1> SUFFICES ASSUME NEW t, t = exchange(s)
             PROVE  Exchanged(s, t)
  OBVIOUS
<1> DEFINE a == s.argv
           N == Len(s.argv)
           f == s.first
           l == s.last
           k == s.optind
           A == SubSeq(a, 1, f - 1)
           B == SubSeq(a, l, k - 1)
           C == SubSeq(a, f, l - 1)
           D == SubSeq(a, k, N)
<1>1. /\ t = [s EXCEPT !.argv = ((A \o B) \o C) \o D, !.first = f + k - l, !.last = k]
      /\ t.argv = ((A \o B) \o C) \o D /\ t.first = f + k - l /\ t.last = k
      /\ t.optind = k /\ t.next = s.next
  BY DEF exchange, Scan
<1>2. /\ a \in Seq(Element) /\ N \in Nat /\ f \in Nat /\ l \in Nat /\ k \in Nat
      /\ 1 <= f /\ f <= l /\ l <= k /\ k <= N + 1 /\ s.next \in Seq(STRING)
  BY DEF Scan
<1>3. \A j \in 1 .. N : a[j] \in Element
  BY <1>2
<1> HIDE DEF a, N, f, l, k
<1>4. /\ A \in Seq(Element) /\ Len(A) = f - 1
      /\ B \in Seq(Element) /\ Len(B) = k - l
      /\ C \in Seq(Element) /\ Len(C) = l - f
      /\ D \in Seq(Element) /\ Len(D) = N - k + 1
      /\ \A i \in 1 .. l - f : C[i] = a[f + i - 1]
      /\ \A i \in 1 .. N - k + 1 : D[i] = a[k + i - 1]
  <2>1. A \in Seq(Element) /\ Len(A) = f - 1
    BY <1>2, <1>3, SubSeqProperties
  <2>2. B \in Seq(Element) /\ Len(B) = k - l
    BY <1>2, <1>3, SubSeqProperties
  <2>3. C \in Seq(Element) /\ Len(C) = l - f
    BY <1>2, <1>3, SubSeqProperties
  <2>4. D \in Seq(Element) /\ Len(D) = N - k + 1
    BY <1>2, <1>3, SubSeqProperties
  <2>5. \A i \in 1 .. l - f : C[i] = a[f + i - 1]
    BY <1>2, <1>3
  <2>6. \A i \in 1 .. N - k + 1 : D[i] = a[k + i - 1]
    BY <1>2, <1>3
  <2> QED
    BY <2>1, <2>2, <2>3, <2>4, <2>5, <2>6
<1> HIDE DEF A, B, C, D
<1> DEFINE AB == A \o B
           ABC == AB \o C
           all4 == ABC \o D
<1>5. AB \in Seq(Element) /\ Len(AB) = f + k - l - 1
  <2>1. AB \in Seq(Element) /\ Len(AB) = Len(A) + Len(B)
    BY <1>4, ConcatProperties
  <2>2. Len(A) = f - 1 /\ Len(B) = k - l
    BY <1>4
  <2> HIDE DEF AB
  <2>3. (f - 1) + (k - l) = f + k - l - 1
    BY <1>2
  <2> QED
    BY <2>1, <2>2, <2>3
<1> HIDE DEF AB
<1>6. /\ ABC \in Seq(Element) /\ Len(ABC) = k - 1
      /\ \A i \in 1 .. k - 1 : i > f + k - l - 1 => ABC[i] = C[i - (f + k - l - 1)]
  <2>1. /\ ABC \in Seq(Element) /\ Len(ABC) = Len(AB) + Len(C)
        /\ \A i \in 1 .. Len(AB) + Len(C) :
             ABC[i] = IF i <= Len(AB) THEN AB[i] ELSE C[i - Len(AB)]
    BY <1>4, <1>5, ConcatProperties
  <2> HIDE DEF ABC
  <2>2. Len(AB) = f + k - l - 1 /\ Len(C) = l - f
    BY <1>4, <1>5
  <2>3. (f + k - l - 1) + (l - f) = k - 1
    BY <1>2
  <2>4. \A i \in 1 .. k - 1 : i > f + k - l - 1 => ~(i <= f + k - l - 1)
    BY <1>2
  <2> QED
    BY <2>1, <2>2, <2>3, <2>4
<1> HIDE DEF ABC
<1>7. /\ all4 \in Seq(Element) /\ Len(all4) = N
      /\ \A i \in 1 .. N : all4[i] = IF i <= k - 1 THEN ABC[i] ELSE D[i - (k - 1)]
  <2>1. /\ all4 \in Seq(Element) /\ Len(all4) = Len(ABC) + Len(D)
        /\ \A i \in 1 .. Len(ABC) + Len(D) :
             all4[i] = IF i <= Len(ABC) THEN ABC[i] ELSE D[i - Len(ABC)]
    BY <1>4, <1>6, ConcatProperties
  <2> HIDE DEF all4
  <2>2. Len(ABC) = k - 1 /\ Len(D) = N - k + 1
    BY <1>4, <1>6
  <2>3. (k - 1) + (N - k + 1) = N
    BY <1>2
  <2> QED
    BY <2>1, <2>2, <2>3
<1>8. t.argv = all4
  BY <1>1 DEF all4, ABC, AB
<1> HIDE DEF all4
<1>9. \A j \in k .. N : t.argv[j] = a[j]
  <2> SUFFICES ASSUME NEW j \in k .. N PROVE t.argv[j] = a[j]
    OBVIOUS
  <2>1. /\ j \in 1 .. N /\ ~(j <= k - 1)
        /\ j - (k - 1) \in 1 .. N - k + 1 /\ k + (j - (k - 1)) - 1 = j
    BY <1>2
  <2>2. t.argv[j] = D[j - (k - 1)]
    BY <1>7, <1>8, <2>1
  <2>3. D[j - (k - 1)] = a[k + (j - (k - 1)) - 1]
    BY <1>4, <2>1
  <2> QED
    BY <2>1, <2>2, <2>3
<1>10. \A j \in t.first .. t.last - 1 : \E i \in f .. l - 1 : t.argv[j] = a[i]
  <2> SUFFICES ASSUME NEW j \in f + k - l .. k - 1
               PROVE  \E i \in f .. l - 1 : t.argv[j] = a[i]
    BY <1>1
  <2> DEFINE i == j - (f + k - l - 1)
  <2>1. /\ j \in 1 .. N /\ j <= k - 1 /\ j \in 1 .. k - 1 /\ j > f + k - l - 1
        /\ i \in 1 .. l - f /\ f + i - 1 \in f .. l - 1
    BY <1>2
  <2>2. t.argv[j] = C[i]
    BY <1>6, <1>7, <1>8, <2>1
  <2> QED
    BY <1>4, <2>1, <2>2
<1>11. t \in Scan
  <2>1. f + k - l \in Nat
    BY <1>2
  <2>2. t = [argv |-> t.argv, optind |-> k, first |-> f + k - l, last |-> k, next |-> s.next]
    BY <1>1 DEF Scan
  <2> QED
    BY <1>2, <1>7, <1>8, <2>1, <2>2 DEF Scan
<1> QED
  BY <1>1, <1>7, <1>8, <1>9, <1>10, <1>11 DEF a, N, f, l, k, Exchanged

(* SkipWords stops at the first element that is not a word.                *)
LEMMA SkipWordsIs ==
  ASSUME NEW s \in Scan, s.optind \in 1 .. Len(s.argv) + 1,
         NEW t, t = SkipWords(s)
  PROVE  /\ t = [s EXCEPT !.optind = t.optind, !.last = t.optind]
         /\ t.optind \in s.optind .. Len(s.argv) + 1
         /\ \A j \in s.optind .. t.optind - 1 : s.argv[j].kind = "word"
         /\ t.optind <= Len(s.argv) => s.argv[t.optind].kind # "word"
<1> DEFINE options == {k \in s.optind .. Len(s.argv) : s.argv[k].kind # "word"}
           stop == IF options = {} THEN argc(s)
                   ELSE CHOOSE k \in options : \A j \in options : k <= j
<1>1. t = [s EXCEPT !.optind = stop, !.last = stop]
  BY DEF SkipWords
<1>2. t.optind = stop
  BY <1>1 DEF Scan
<1>3. Len(s.argv) \in Nat /\ s.optind \in Nat
  BY DEF Scan
<1>4. /\ stop \in s.optind .. Len(s.argv) + 1
      /\ \A j \in s.optind .. stop - 1 : s.argv[j].kind = "word"
      /\ stop <= Len(s.argv) => s.argv[stop].kind # "word"
  <2>1. CASE options = {}
    BY <1>3, <2>1 DEF argc
  <2>2. CASE options # {}
    <3>1. options \subseteq Nat
      BY <1>3
    <3>2. \E k \in options : \A j \in options : k <= j
      BY <2>2, <3>1, LeastOfSome
    <3>3. stop \in options /\ \A j \in options : stop <= j
      BY <2>2, <3>2
    <3> HIDE DEF stop
    <3> QED
      BY <1>3, <3>3
  <2> QED
    BY <2>1, <2>2
<1> HIDE DEF stop
<1> QED
  BY <1>1, <1>2, <1>4

(* Words that nothing before takes leave what follows them untaken.        *)
LEMMA FreshOverWords ==
  ASSUME NEW line \in Seq(Element), NEW k \in 1 .. Len(line) + 1, Fresh(line, k),
         NEW n \in k .. Len(line) + 1, \A j \in k .. n - 1 : line[j].kind = "word"
  PROVE  /\ Fresh(line, n)
         /\ \A j \in k .. n - 1 : Roles(line)[j] = "word"
<1>1. Len(line) \in Nat
  OBVIOUS
<1>2. \A j \in k .. n : Fresh(line, j)
  <2> DEFINE S == {j \in k .. n : ~Fresh(line, j)}
  <2>1. SUFFICES ASSUME S # {} PROVE FALSE
    OBVIOUS
  <2>2. S \subseteq Nat
    BY <1>1
  <2>3. PICK m \in S : \A i \in S : m <= i
    BY <2>1, <2>2, LeastOfSome
  <2>4. m # k /\ m \in k .. n /\ ~Fresh(line, m)
    BY <2>3
  <2>5. m - 1 \in k .. n - 1 /\ m - 1 \in k .. n /\ m - 1 \in 1 .. Len(line) /\ (m - 1) + 1 = m
    BY <1>1, <2>4
  <2>6. Fresh(line, m - 1)
    <3>1. ~(m <= m - 1)
      BY <2>5
    <3> QED
      BY <2>3, <2>5, <3>1
  <2> QED
    BY <2>4, <2>5, <2>6, FreshOn
<1>3. \A j \in k .. n - 1 : j \in 1 .. Len(line) /\ j \in k .. n
  BY <1>1
<1> QED
  BY <1>1, <1>2, <1>3, FreshRole

(* getopt_long's argv is the line it was given, up to words moved to right *)
(* in front of its place.                                                  *)
ArgvOK(line, s) ==
  /\ s \in Scan
  /\ Len(s.argv) = Len(line)
  /\ s.first \in 1 .. s.last /\ s.last \in 1 .. s.optind
  /\ s.optind \in 1 .. Len(line) + 1
  /\ \A j \in s.optind .. Len(line) : s.argv[j] = line[j]
  /\ \A j \in s.first .. s.last - 1 : s.argv[j].kind = "word"
  /\ IF s.first = s.last
     THEN s.argv = line /\ \A j \in 1 .. s.optind - 1 : Roles(line)[j] # "word"
     ELSE \E j \in 1 .. s.optind - 1 : Roles(line)[j] = "word"

(* Permute and SkipWords: on to the next element that is not a word, with  *)
(* the words right in front of it.                                         *)
LEMMA Skipped ==
  ASSUME NEW line \in Seq(Element), NEW s, ArgvOK(line, s), Fresh(line, s.optind),
         NEW t, t = SkipWords(Permute(s))
  PROVE  /\ ArgvOK(line, t)
         /\ t.last = t.optind /\ t.next = s.next
         /\ t.optind \in s.optind .. Len(line) + 1
         /\ Fresh(line, t.optind)
         /\ \A j \in s.optind .. t.optind - 1 : Roles(line)[j] = "word"
         /\ t.optind <= Len(line) => line[t.optind].kind # "word"
<1> DEFINE u == Permute(s)
<1>0. /\ s \in Scan /\ Len(s.argv) = Len(line) /\ Len(line) \in Nat
      /\ s.first \in 1 .. s.last /\ s.last \in 1 .. s.optind
      /\ s.optind \in 1 .. Len(line) + 1
      /\ \A j \in s.optind .. Len(line) : s.argv[j] = line[j]
      /\ \A j \in s.first .. s.last - 1 : s.argv[j].kind = "word"
      /\ s.first \in Nat /\ s.last \in Nat /\ s.optind \in Nat
  BY DEF ArgvOK, Scan
<1>1. /\ u \in Scan /\ Len(u.argv) = Len(line)
      /\ u.optind = s.optind /\ u.next = s.next /\ u.first \in 1 .. s.optind
      /\ \A j \in s.optind .. Len(line) : u.argv[j] = line[j]
      /\ \A j \in u.first .. s.optind - 1 : u.argv[j].kind = "word"
      /\ (u.first = s.optind) = (s.first = s.last)
      /\ s.first = s.last => u.argv = s.argv
  <2>1. CASE s.last = s.optind
    BY <1>0, <2>1 DEF Permute
  <2>2. CASE s.last # s.optind /\ s.first = s.last
    <3>1. u = [s EXCEPT !.first = s.optind]
      BY <2>2 DEF Permute
    <3>2. s \in Scan /\ s.optind \in Nat
      BY <1>0
    <3> HIDE DEF u
    <3>3. /\ u \in Scan /\ u.argv = s.argv /\ u.first = s.optind
          /\ u.optind = s.optind /\ u.next = s.next
      BY <3>1, <3>2 DEF Scan
    <3>4. s.optind \in 1 .. s.optind /\ \A j \in s.optind .. s.optind - 1 : u.argv[j].kind = "word"
      BY <1>0
    <3> QED
      BY <1>0, <2>2, <3>3, <3>4
  <2>3. CASE s.last # s.optind /\ s.first # s.last
    <3>1. u = exchange(s)
      BY <2>3 DEF Permute
    <3> HIDE DEF u
    <3>2. Exchanged(s, u)
      <4>1. s.optind \in 1 .. Len(s.argv) + 1
        BY <1>0
      <4>2. s \in Scan /\ s.first \in 1 .. s.last /\ s.last \in 1 .. s.optind
        BY <1>0
      <4> QED
        BY <3>1, <4>1, <4>2, ExchangeIs
    <3>3. u.first \in 1 .. s.optind /\ u.first # s.optind
      BY <1>0, <2>3, <3>2 DEF Exchanged
    <3>4. \A j \in s.optind .. Len(line) : u.argv[j] = line[j]
      BY <1>0, <3>2 DEF Exchanged
    <3>5. \A j \in u.first .. s.optind - 1 : u.argv[j].kind = "word"
      <4>1. \A i \in s.first .. s.last - 1 : s.argv[i].kind = "word"
        BY <1>0
      <4>2. u.last = s.optind
        BY <3>2 DEF Exchanged
      <4>3. \A j \in u.first .. s.optind - 1 :
              \E i \in s.first .. s.last - 1 : u.argv[j] = s.argv[i]
        BY <3>2, <4>2 DEF Exchanged
      <4> QED
        BY <4>1, <4>3
    <3>6. Len(u.argv) = Len(line)
      BY <1>0, <3>2 DEF Exchanged
    <3> QED
      BY <2>3, <3>2, <3>3, <3>4, <3>5, <3>6 DEF Exchanged
  <2> QED
    BY <2>1, <2>2, <2>3
<1> HIDE DEF u
<1>2. /\ t = [u EXCEPT !.optind = t.optind, !.last = t.optind]
      /\ t.optind \in s.optind .. Len(line) + 1
      /\ \A j \in s.optind .. t.optind - 1 : u.argv[j].kind = "word"
      /\ t.optind <= Len(line) => u.argv[t.optind].kind # "word"
  <2>1. t = SkipWords(u) /\ u.optind \in 1 .. Len(u.argv) + 1
    BY <1>0, <1>1 DEF u
  <2>2. /\ t = [u EXCEPT !.optind = t.optind, !.last = t.optind]
        /\ t.optind \in u.optind .. Len(u.argv) + 1
        /\ \A j \in u.optind .. t.optind - 1 : u.argv[j].kind = "word"
        /\ t.optind <= Len(u.argv) => u.argv[t.optind].kind # "word"
    BY <1>1, <2>1, SkipWordsIs, Zenon
  <2> QED
    BY <1>1, <2>2
<1>3. /\ t \in Scan /\ t.argv = u.argv /\ t.first = u.first
      /\ t.last = t.optind /\ t.next = s.next /\ t.optind \in Nat
  <2>1. t.optind \in Nat
    BY <1>0, <1>2
  <2> QED
    BY <1>1, <1>2, <2>1 DEF Scan
<1>4. \A j \in s.optind .. t.optind - 1 : line[j].kind = "word"
  <2> SUFFICES ASSUME NEW j \in s.optind .. t.optind - 1 PROVE line[j].kind = "word"
    OBVIOUS
  <2>1. j \in s.optind .. Len(line)
    BY <1>0, <1>2, <1>3
  <2> QED
    BY <1>1, <1>2, <2>1
<1>5. /\ Fresh(line, t.optind)
      /\ \A j \in s.optind .. t.optind - 1 : Roles(line)[j] = "word"
  BY <1>0, <1>2, <1>4, FreshOverWords
<1>6. t.optind <= Len(line) => line[t.optind].kind # "word"
  BY <1>0, <1>1, <1>2, <1>3
<1>7. ArgvOK(line, t)
  <2>1. t.first \in 1 .. t.last /\ t.last \in 1 .. t.optind /\ t.optind \in 1 .. Len(line) + 1
    BY <1>0, <1>1, <1>2, <1>3
  <2>2. \A j \in t.optind .. Len(line) : t.argv[j] = line[j]
    <3>1. \A j \in t.optind .. Len(line) : j \in s.optind .. Len(line)
      BY <1>0, <1>2, <1>3
    <3> QED
      BY <1>1, <1>3, <3>1
  <2>3. \A j \in t.first .. t.last - 1 : t.argv[j].kind = "word"
    <3> SUFFICES ASSUME NEW j \in t.first .. t.last - 1 PROVE t.argv[j].kind = "word"
      OBVIOUS
    <3>1. j \in u.first .. s.optind - 1 \/ j \in s.optind .. t.optind - 1
      BY <1>0, <1>1, <1>2, <1>3
    <3> QED
      BY <1>1, <1>2, <1>3, <3>1
  <2>4. CASE t.first = t.last
    <3>1. u.first = s.optind /\ t.optind = s.optind
      BY <1>0, <1>1, <1>2, <1>3, <2>4
    <3>2. s.first = s.last /\ t.argv = s.argv
      BY <1>1, <1>3, <3>1
    <3>3. t.argv = line /\ \A j \in 1 .. t.optind - 1 : Roles(line)[j] # "word"
      BY <3>1, <3>2 DEF ArgvOK
    <3> QED
      BY <1>1, <1>3, <2>1, <2>2, <2>3, <2>4, <3>3 DEF ArgvOK
  <2>5. CASE t.first # t.last
    <3>1. \E j \in 1 .. t.optind - 1 : Roles(line)[j] = "word"
      <4>1. CASE s.first # s.last
        <5>1. PICK j \in 1 .. s.optind - 1 : Roles(line)[j] = "word"
          BY <4>1 DEF ArgvOK
        <5>2. j \in 1 .. t.optind - 1
          BY <1>0, <1>2, <1>3
        <5> QED
          BY <5>1, <5>2
      <4>2. CASE s.first = s.last
        <5>1. t.optind # s.optind
          BY <1>1, <1>3, <2>5, <4>2
        <5>2. s.optind \in s.optind .. t.optind - 1 /\ s.optind \in 1 .. t.optind - 1
          BY <1>0, <1>2, <1>3, <5>1
        <5> QED
          BY <1>5, <5>2
      <4> QED
        BY <4>1, <4>2
    <3> QED
      BY <1>1, <1>3, <2>1, <2>2, <2>3, <2>5, <3>1 DEF ArgvOK
  <2> QED
    BY <2>4, <2>5
<1> QED
  BY <1>2, <1>3, <1>5, <1>6, <1>7

-----------------------------------------------------------------------------
(* What the line asks for, step by step.                                   *)

(* Element j wants module, and letter q of element j wants it.             *)
Calls(line, j, module) ==
  Option(line, j) /\ (line[j] = Long("all", <<>>) \/ Names(line[j], module))

Asks(line, j, q, module) ==
  \/ line[j].letters[q] = "a"
  \/ Overlooked(line, j, q) /\ Names(line[j - 1], module)

LEMMA WantedIs ==
  ASSUME NEW line \in Seq(Element), NEW k, NEW p, NEW module
  PROVE  module \in Wanted(line, k, p) <=>
           /\ module \in Module
           /\ \/ \E j \in 1 .. k - 1 : Calls(line, j, module)
              \/ \E j \in 1 .. Len(line) : \E q \in Letters(line, j) :
                   (j < k \/ (j = k /\ q < p)) /\ Asks(line, j, q, module)
<1>1. DOMAIN line = 1 .. Len(line)
  OBVIOUS
<1> QED
  BY <1>1 DEF Wanted, Calls, Asks

LEMMA LettersIn ==
  ASSUME NEW line \in Seq(Element), NEW j \in 1 .. Len(line)
  PROVE  /\ Letters(line, j) # {} => Option(line, j) /\ line[j].kind = "short"
         /\ \A q \in Letters(line, j) : /\ q \in 1 .. Len(line[j].letters)
                                        /\ q \in Nat \ {0}
                                        /\ IsRead(line[j].letters, q)
<1>1. line[j] \in Element
  OBVIOUS
<1>2. line[j].kind = "short" => DOMAIN line[j].letters = 1 .. Len(line[j].letters)
                                /\ Len(line[j].letters) \in Nat
  BY <1>1, ElementIs
<1> QED
  BY <1>2 DEF Letters

(* Elements that are no options ask for nothing, end nothing and give no   *)
(* number.                                                                 *)
Gives(line, j, c) == LongGives(line, j, c) \/ At(line, j, c) # {}

LEMMA NoOption ==
  ASSUME NEW line, NEW j, ~Option(line, j)
  PROVE  /\ Letters(line, j) = {}
         /\ ~Ends(line, j)
         /\ \A c : ~Gives(line, j, c)
         /\ \A module : ~Calls(line, j, module)
BY DEF Letters, Ends, Gives, LongGives, At, Calls

LEMMA WantedOver ==
  ASSUME NEW line \in Seq(Element), NEW k \in 1 .. Len(line) + 1, NEW n \in k .. Len(line) + 1,
         \A j \in k .. n - 1 : ~Option(line, j)
  PROVE  Wanted(line, n, 1) = Wanted(line, k, 1)
<1>1. Len(line) \in Nat
  OBVIOUS
<1>2. \A j \in k .. n - 1 : Letters(line, j) = {} /\ \A module : ~Calls(line, j, module)
  BY NoOption
<1>3. \A j \in 1 .. Len(line) : \A q \in Letters(line, j) : q \in Nat \ {0}
  BY LettersIn
<1>4. ASSUME NEW module
      PROVE  module \in Wanted(line, n, 1) <=> module \in Wanted(line, k, 1)
  <2>1. (\E j \in 1 .. n - 1 : Calls(line, j, module)) <=>
          \E j \in 1 .. k - 1 : Calls(line, j, module)
    BY <1>1, <1>2
  <2>2. ASSUME NEW j \in 1 .. Len(line), NEW q \in Letters(line, j)
        PROVE  (j < n \/ (j = n /\ q < 1)) <=> (j < k \/ (j = k /\ q < 1))
    BY <1>1, <1>2, <1>3
  <2> QED
    BY <2>1, <2>2, WantedIs
<1> QED
  BY <1>4

(* An element whose letters are done with, and that wants nothing itself.  *)
LEMMA WantedPassed ==
  ASSUME NEW line \in Seq(Element), NEW k \in 1 .. Len(line), NEW p \in Nat \ {0},
         \A q \in Letters(line, k) : q < p,
         \A module \in Module : ~Calls(line, k, module)
  PROVE  Wanted(line, k + 1, 1) = Wanted(line, k, p)
<1>1. Len(line) \in Nat
  OBVIOUS
<1>2. \A j \in 1 .. Len(line) : \A q \in Letters(line, j) : q \in Nat \ {0}
  BY LettersIn
<1>3. ASSUME NEW module \in Module
      PROVE  module \in Wanted(line, k + 1, 1) <=> module \in Wanted(line, k, p)
  <2>1. (\E j \in 1 .. (k + 1) - 1 : Calls(line, j, module)) <=>
          \E j \in 1 .. k - 1 : Calls(line, j, module)
    BY <1>1
  <2>2. ASSUME NEW j \in 1 .. Len(line), NEW q \in Letters(line, j)
        PROVE  (j < k + 1 \/ (j = k + 1 /\ q < 1)) <=> (j < k \/ (j = k /\ q < p))
    BY <1>1, <1>2
  <2> QED
    BY <2>1, <2>2, WantedIs
<1>4. Wanted(line, k + 1, 1) \subseteq Module /\ Wanted(line, k, p) \subseteq Module
  BY DEF Wanted
<1> QED
  BY <1>3, <1>4

LEMMA WantedAll ==
  ASSUME NEW line \in Seq(Element), NEW k \in 1 .. Len(line),
         Option(line, k), line[k] = Long("all", <<>>)
  PROVE  Wanted(line, k + 1, 1) = Module
<1>1. ASSUME NEW module \in Module
      PROVE  module \in Wanted(line, k + 1, 1)
  <2>1. k \in 1 .. (k + 1) - 1 /\ Calls(line, k, module)
    BY LineIs DEF Calls
  <2> QED
    BY <2>1, WantedIs
<1>2. Wanted(line, k + 1, 1) \subseteq Module
  BY DEF Wanted
<1> QED
  BY <1>1, <1>2

LEMMA WantedNamed ==
  ASSUME NEW line \in Seq(Element), NEW k \in 1 .. Len(line),
         Option(line, k), NEW m \in Module, Names(line[k], m)
  PROVE  Wanted(line, k + 1, 1) = Wanted(line, k, 1) \union {m}
<1>1. Len(line) \in Nat
  OBVIOUS
<1>2. /\ \A j \in 1 .. Len(line) : \A q \in Letters(line, j) : q \in Nat \ {0}
      /\ Letters(line, k) = {}
  BY LettersIn DEF Names, Long
<1>3. \A module \in Module : Calls(line, k, module) <=> module = m
  <2>1. m # "all"
    BY ModuleAssumption DEF longopts
  <2>2. line[k].kind = "long" /\ line[k].name = m
    BY DEF Names, Long
  <2> QED
    BY <2>1, <2>2 DEF Calls, Names, Long
<1>4. ASSUME NEW module \in Module
      PROVE  module \in Wanted(line, k + 1, 1) <=> module \in Wanted(line, k, 1) \/ module = m
  <2>1. (\E j \in 1 .. (k + 1) - 1 : Calls(line, j, module)) <=>
          (module = m \/ \E j \in 1 .. k - 1 : Calls(line, j, module))
    BY <1>1, <1>3
  <2>2. ASSUME NEW j \in 1 .. Len(line), NEW q \in Letters(line, j)
        PROVE  (j < k + 1 \/ (j = k + 1 /\ q < 1)) <=> (j < k \/ (j = k /\ q < 1))
    BY <1>1, <1>2
  <2> QED
    BY <2>1, <2>2, WantedIs
<1>5. Wanted(line, k + 1, 1) \subseteq Module /\ Wanted(line, k, 1) \subseteq Module
  BY DEF Wanted
<1> QED
  BY <1>4, <1>5

(* One letter on.                                                          *)
LEMMA WantedLetter ==
  ASSUME NEW line \in Seq(Element), NEW k \in 1 .. Len(line), NEW p \in Letters(line, k),
         NEW module \in Module
  PROVE  module \in Wanted(line, k, p + 1) <=>
           module \in Wanted(line, k, p) \/ Asks(line, k, p, module)
<1>1. Len(line) \in Nat
  OBVIOUS
<1>2. \A j \in 1 .. Len(line) : \A q \in Letters(line, j) : q \in Nat \ {0}
  BY LettersIn
<1>3. ASSUME NEW j \in 1 .. Len(line), NEW q \in Letters(line, j)
      PROVE  (j < k \/ (j = k /\ q < p + 1)) <=>
               ((j < k \/ (j = k /\ q < p)) \/ (j = k /\ q = p))
  BY <1>1, <1>2
<1> QED
  BY <1>3, WantedIs

LEMMA WantedLetterAll ==
  ASSUME NEW line \in Seq(Element), NEW k \in 1 .. Len(line), NEW p \in Letters(line, k),
         line[k].letters[p] = "a"
  PROVE  Wanted(line, k, p + 1) = Module
<1>1. \A module \in Module : module \in Wanted(line, k, p + 1)
  BY WantedLetter DEF Asks
<1>2. Wanted(line, k, p + 1) \subseteq Module
  BY DEF Wanted
<1> QED
  BY <1>1, <1>2

LEMMA WantedLetterOther ==
  ASSUME NEW line \in Seq(Element), NEW k \in 1 .. Len(line), NEW p \in Letters(line, k),
         line[k].letters[p] # "a", ~Overlooked(line, k, p)
  PROVE  Wanted(line, k, p + 1) = Wanted(line, k, p)
<1>1. \A module \in Module : module \in Wanted(line, k, p + 1) <=> module \in Wanted(line, k, p)
  BY WantedLetter DEF Asks
<1>2. Wanted(line, k, p + 1) \subseteq Module /\ Wanted(line, k, p) \subseteq Module
  BY DEF Wanted
<1> QED
  BY <1>1, <1>2

LEMMA WantedOverlooked ==
  ASSUME NEW line \in Seq(Element), NEW k \in 1 .. Len(line), NEW p \in Letters(line, k),
         Overlooked(line, k, p), NEW m \in Module, Names(line[k - 1], m)
  PROVE  Wanted(line, k, p + 1) = Wanted(line, k, p) \union {m}
<1>1. line[k].letters[p] # "a"
  BY DEF Overlooked, IsUnknown, Flags
<1>2. \A module \in Module : Names(line[k - 1], module) <=> module = m
  BY DEF Names, Long
<1>3. \A module \in Module :
        module \in Wanted(line, k, p + 1) <=> module \in Wanted(line, k, p) \/ module = m
  BY <1>1, <1>2, WantedLetter DEF Asks
<1>4. Wanted(line, k, p + 1) \subseteq Module /\ Wanted(line, k, p) \subseteq Module
  BY DEF Wanted
<1> QED
  BY <1>3, <1>4

(* The last number given to option c.                                      *)
LEMMA LastOver ==
  ASSUME NEW line \in Seq(Element), NEW k \in 1 .. Len(line) + 1, NEW n \in k .. Len(line) + 1,
         NEW c, NEW none, \A j \in k .. n - 1 : ~Gives(line, j, c)
  PROVE  LastNumber(line, n, c, none) = LastNumber(line, k, c, none)
<1>1. Len(line) \in Nat
  OBVIOUS
<1>2. {j \in 1 .. n - 1 : Gives(line, j, c)} = {j \in 1 .. k - 1 : Gives(line, j, c)}
  BY <1>1
<1> QED
  BY <1>2 DEF LastNumber, Gives

LEMMA LastGiven ==
  ASSUME NEW line \in Seq(Element), NEW k \in 1 .. Len(line), NEW c, NEW none,
         Gives(line, k, c)
  PROVE  LastNumber(line, k + 1, c, none) = NumberGiven(line, k, c)
<1> DEFINE givers == {j \in 1 .. (k + 1) - 1 : Gives(line, j, c)}
<1>1. k \in givers /\ givers \subseteq 1 .. k
  BY LineIs
<1>2. LastNumber(line, k + 1, c, none) =
        IF givers = {} THEN none ELSE NumberGiven(line, Max(givers), c)
  BY DEF LastNumber, Gives
<1> HIDE DEF givers
<1>3. Max(givers) = k
  <2>1. \A j \in givers : j \in Int /\ k >= j
    BY <1>1
  <2>2. \A j \in givers : j >= k => j = k
    BY <2>1
  <2> QED
    BY <1>1, <2>1, <2>2 DEF Max
<1> QED
  BY <1>1, <1>2, <1>3

-----------------------------------------------------------------------------
(* The invariant of the loop.                                              *)

(* main has done what stands before letter p of element k, and none of it  *)
(* ended the program.                                                      *)
Default(d) == IF d > 0 THEN d ELSE 2

Done(line, k, p, enabled, count_, interval) ==
  /\ enabled = Wanted(line, k, p)
  /\ count_ = LastNumber(line, k, "c", -1)
  /\ interval = Default(LastNumber(line, k, "d", 2))
  /\ \A j \in 1 .. k - 1 : ~Ends(line, j)
  /\ k \in 1 .. Len(line) => \A q \in Letters(line, k) : q < p => ~LetterEnds(line, k, q)

(* getopt_long stands in front of an element (p = 1) or of letter p of one.*)
ScanOK(line, s, p) ==
  /\ ArgvOK(line, s)
  /\ IF s.next = <<>> THEN p = 1 /\ Fresh(line, s.optind)
     ELSE /\ s.optind \in 1 .. Len(line) /\ p \in Letters(line, s.optind)
          /\ s.next = SubSeq(line[s.optind].letters, p, Len(line[s.optind].letters))
          /\ s.last = s.optind
          /\ Fresh(line, s.optind)

LEMMA DoneOver ==
  ASSUME NEW line \in Seq(Element), NEW k \in 1 .. Len(line) + 1, NEW n \in k .. Len(line) + 1,
         \A j \in k .. n - 1 : ~Option(line, j),
         NEW enabled, NEW c, NEW d, Done(line, k, 1, enabled, c, d)
  PROVE  Done(line, n, 1, enabled, c, d)
<1>1. Len(line) \in Nat
  OBVIOUS
<1>2. Wanted(line, n, 1) = Wanted(line, k, 1)
  BY WantedOver
<1>3. \A j \in k .. n - 1 : \A o : ~Gives(line, j, o)
  BY NoOption
<1>4. /\ LastNumber(line, n, "c", -1) = LastNumber(line, k, "c", -1)
      /\ LastNumber(line, n, "d", 2) = LastNumber(line, k, "d", 2)
  BY <1>3, LastOver
<1>5. \A j \in 1 .. n - 1 : ~Ends(line, j)
  <2>1. \A j \in 1 .. n - 1 : j \in 1 .. k - 1 \/ j \in k .. n - 1
    BY <1>1
  <2> QED
    BY <2>1, NoOption DEF Done
<1>6. n \in 1 .. Len(line) => \A q \in Letters(line, n) : ~(q < 1)
  BY LettersIn
<1> QED
  BY <1>2, <1>4, <1>5, <1>6 DEF Done

(* getopt_long has come to an option.                                      *)
AtOption(line, s) ==
  /\ ArgvOK(line, s)
  /\ s.optind \in 1 .. Len(line)
  /\ s.last = s.optind
  /\ Fresh(line, s.optind)
  /\ Option(line, s.optind)
  /\ line[s.optind].kind \in {"short", "long"}

(* NextElement comes to the next option, if there is one.                  *)
LEMMA NextElementIs ==
  ASSUME NEW line \in Seq(Element), NEW s, ArgvOK(line, s), Fresh(line, s.optind),
         NEW enabled, NEW c, NEW d, Done(line, s.optind, 1, enabled, c, d)
  PROVE  LET t == NextElement(s)
         IN  \/ t.optind = argc(t) /\ Done(line, Len(line) + 1, 1, enabled, c, d)
             \/ /\ t.optind # argc(t) /\ AtOption(line, t) /\ t.next = s.next
                /\ t.optind \in s.optind .. Len(line)
                /\ Done(line, t.optind, 1, enabled, c, d)
<1> DEFINE at == SkipWords(Permute(s))
           t == NextElement(s)
<1>1. /\ ArgvOK(line, at)
      /\ at.last = at.optind /\ at.next = s.next
      /\ at.optind \in s.optind .. Len(line) + 1
      /\ Fresh(line, at.optind)
      /\ \A j \in s.optind .. at.optind - 1 : Roles(line)[j] = "word"
      /\ at.optind <= Len(line) => line[at.optind].kind # "word"
  BY Skipped
<1>2. /\ Len(line) \in Nat /\ s.optind \in 1 .. Len(line) + 1
      /\ at \in Scan /\ Len(at.argv) = Len(line)
      /\ \A j \in at.optind .. Len(line) : at.argv[j] = line[j]
  BY <1>1 DEF ArgvOK
<1>3. t = IF at.optind < argc(s) /\ at.argv[at.optind] = DashDash
          THEN EndOfOptions(at) ELSE at
  BY DEF NextElement
<1> HIDE DEF at, t
<1>4. Done(line, at.optind, 1, enabled, c, d)
  <2>1. \A j \in s.optind .. at.optind - 1 : ~Option(line, j)
    BY <1>1 DEF Option
  <2> QED
    BY <1>1, <1>2, <2>1, DoneOver
<1>5. at.optind \in Nat /\ argc(at) = Len(line) + 1 /\ argc(s) = Len(line) + 1
  BY <1>2 DEF Scan, argc, ArgvOK
<1>6. CASE at.optind = Len(line) + 1
  <2>1. t = at /\ t.optind = argc(t)
    BY <1>3, <1>5, <1>6
  <2> QED
    BY <1>4, <1>6, <2>1 DEF t
<1>7. CASE at.optind # Len(line) + 1 /\ line[at.optind] # DashDash
  <2>1. at.optind \in 1 .. Len(line) /\ at.optind \in s.optind .. Len(line)
    BY <1>1, <1>2, <1>5, <1>7
  <2>2. at.argv[at.optind] = line[at.optind]
    BY <1>2, <2>1
  <2>3. t = at /\ t.optind # argc(t)
    BY <1>3, <1>5, <1>7, <2>2
  <2>4. line[at.optind] \in Element
    BY <2>1, LineIs
  <2>5. line[at.optind].kind \in {"short", "long"}
    BY <1>1, <1>7, <2>1, <2>4, ElementIs
  <2>6. Option(line, at.optind)
    <3>1. Roles(line)[at.optind] = "option"
      BY <1>1, <2>1, <2>5, FreshRole
    <3> QED
      BY <1>7, <3>1 DEF Option
  <2>7. AtOption(line, at)
    BY <1>1, <2>1, <2>5, <2>6 DEF AtOption
  <2> QED
    BY <1>1, <1>4, <2>1, <2>3, <2>7 DEF t
<1>8. CASE at.optind # Len(line) + 1 /\ line[at.optind] = DashDash
  <2> DEFINE k == at.optind
             on == [at EXCEPT !.optind = @ + 1]
             moved == IF on.first = on.last THEN [on EXCEPT !.first = on.optind]
                      ELSE exchange(on)
  <2>1. k \in 1 .. Len(line) /\ k \in s.optind .. Len(line)
    BY <1>1, <1>2, <1>5, <1>8
  <2>2. at.argv[k] = line[k]
    BY <1>2, <2>1
  <2>3. t = [moved EXCEPT !.last = argc(at), !.optind = argc(at)]
    BY <1>3, <1>5, <1>8, <2>1, <2>2 DEF EndOfOptions
  <2>4. /\ on \in Scan /\ on.optind = k + 1 /\ on.argv = at.argv
        /\ on.first = at.first /\ on.last = at.last
    BY <1>2, <1>5 DEF Scan
  <2> HIDE DEF on
  <2>5. moved \in Scan /\ Len(moved.argv) = Len(line)
    <3>1. CASE on.first = on.last
      BY <1>2, <2>4, <3>1 DEF Scan
    <3>2. CASE on.first # on.last
      <4>1. /\ on.first \in 1 .. on.last /\ on.last \in 1 .. on.optind
            /\ on.optind \in 1 .. Len(on.argv) + 1
        BY <1>1, <1>2, <2>1, <2>4 DEF ArgvOK
      <4>2. Exchanged(on, exchange(on))
        BY <2>4, <4>1, ExchangeIs
      <4> QED
        BY <1>2, <2>4, <3>2, <4>2 DEF Exchanged
    <3> QED
      BY <3>1, <3>2
  <2> HIDE DEF moved
  <2>6. t.optind = argc(at) /\ t.argv = moved.argv
    BY <2>3, <2>5 DEF Scan
  <2>7. t.optind = argc(t)
    BY <1>5, <2>5, <2>6 DEF argc
  <2>8. \A j \in k .. (Len(line) + 1) - 1 : ~Option(line, j)
    <3>1. \A j \in k + 1 .. Len(line) : Roles(line)[j] = "past"
      BY <1>1, <1>8, <2>1, PastDashes
    <3>2. \A j \in k .. (Len(line) + 1) - 1 : j = k \/ j \in k + 1 .. Len(line)
      BY <1>2, <2>1
    <3> QED
      BY <1>8, <3>1, <3>2 DEF Option
  <2>9. Done(line, Len(line) + 1, 1, enabled, c, d)
    <3>1. k \in 1 .. Len(line) + 1 /\ Len(line) + 1 \in k .. Len(line) + 1
      BY <1>2, <2>1
    <3> QED
      BY <1>4, <2>8, <3>1, DoneOver
  <2> QED
    BY <2>7, <2>9 DEF t
<1> QED
  BY <1>6, <1>7, <1>8

-----------------------------------------------------------------------------
(* Reading on.                                                             *)

(* Over an option and its value nothing changes in argv.                   *)
On(s, n, x) == [s EXCEPT !.optind = n, !.next = x]

IsOn(line, s, n, x, t) ==
  ArgvOK(line, t) /\ t.optind = n /\ t.next = x /\ t.last = s.last /\ t.argv = s.argv

LEMMA ArgvOn ==
  ASSUME NEW line \in Seq(Element), NEW s, ArgvOK(line, s),
         NEW n \in s.optind .. Len(line) + 1,
         \A j \in s.optind .. n - 1 : Roles(line)[j] # "word",
         NEW x \in Seq(STRING)
  PROVE  IsOn(line, s, n, x, On(s, n, x))
<1> SUFFICES ASSUME NEW t, t = On(s, n, x)
             PROVE  IsOn(line, s, n, x, t)
  OBVIOUS
<1>1. /\ s \in Scan /\ Len(line) \in Nat /\ s.optind \in Nat /\ s.optind \in 1 .. Len(line) + 1
      /\ s.first \in 1 .. s.last /\ s.last \in 1 .. s.optind
  BY DEF ArgvOK, Scan
<1>2. n \in Nat /\ n \in 1 .. Len(line) + 1 /\ s.last \in 1 .. n
  BY <1>1
<1>3. /\ t \in Scan /\ t.optind = n /\ t.next = x /\ t.argv = s.argv
      /\ t.first = s.first /\ t.last = s.last
  BY <1>1, <1>2 DEF Scan, On
<1>4. \A j \in n .. Len(line) : j \in s.optind .. Len(line)
  BY <1>1, <1>2
<1>5. \A j \in 1 .. n - 1 : j \in 1 .. s.optind - 1 \/ j \in s.optind .. n - 1
  BY <1>1, <1>2
<1>6. \A j \in 1 .. s.optind - 1 : j \in 1 .. n - 1
  BY <1>1, <1>2
<1>7. /\ Len(t.argv) = Len(line)
      /\ \A j \in t.optind .. Len(line) : t.argv[j] = line[j]
      /\ \A j \in t.first .. t.last - 1 : t.argv[j].kind = "word"
  BY <1>3, <1>4 DEF ArgvOK
<1>8. IF t.first = t.last
      THEN t.argv = line /\ \A j \in 1 .. t.optind - 1 : Roles(line)[j] # "word"
      ELSE \E j \in 1 .. t.optind - 1 : Roles(line)[j] = "word"
  BY <1>3, <1>5, <1>6 DEF ArgvOK
<1> QED
  BY <1>1, <1>2, <1>3, <1>7, <1>8 DEF ArgvOK, IsOn

(* The rest of a cluster, from letter p on.                                *)
RestOf(S, letters, p, rest) ==
  /\ rest \in Seq(S) /\ rest # <<>> /\ Len(rest) = Len(letters) - p + 1
  /\ Head(rest) = letters[p]
  /\ Tail(rest) = SubSeq(letters, p + 1, Len(letters))
  /\ Tail(rest) \in Seq(S) /\ Len(Tail(rest)) = Len(letters) - p
  /\ (Tail(rest) = <<>>) <=> (p = Len(letters))

LEMMA RestIs ==
  ASSUME NEW S, NEW letters \in Seq(S), NEW p \in 1 .. Len(letters)
  PROVE  RestOf(S, letters, p, SubSeq(letters, p, Len(letters)))
<1> SUFFICES ASSUME NEW rest, rest = SubSeq(letters, p, Len(letters))
             PROVE  RestOf(S, letters, p, rest)
  OBVIOUS
<1> DEFINE n == Len(letters)
<1>1. n \in Nat /\ p \in Nat /\ 1 <= p /\ p <= n /\ n \in p .. n
  OBVIOUS
<1>2. \A i \in p .. n : letters[i] \in S
  OBVIOUS
<1>3. Head(rest) = letters[p] /\ Tail(rest) = SubSeq(letters, p + 1, n)
  BY <1>1, HeadTailOfSubSeq, Zenon
<1> HIDE DEF n
<1>4. rest \in Seq(S) /\ Len(rest) = n - p + 1
  <2>1. /\ SubSeq(letters, p, n) \in Seq(S)
        /\ Len(SubSeq(letters, p, n)) = IF p <= n THEN n - p + 1 ELSE 0
    BY <1>1, <1>2, SubSeqProperties
  <2> QED
    BY <1>1, <2>1 DEF n
<1>5. rest # <<>>
  <2>1. n - p + 1 # 0
    BY <1>1
  <2> QED
    BY <1>4, <2>1, EmptySeq, Zenon
<1>6. Tail(rest) \in Seq(S) /\ Len(Tail(rest)) = Len(rest) - 1
  BY <1>4, <1>5, HeadTailProperties, Zenon
<1>7. Len(rest) - 1 = n - p
  BY <1>1, <1>4
<1>8. (Tail(rest) = <<>>) <=> (p = n)
  <2>1. CASE p = n
    <3>1. Len(Tail(rest)) = 0
      BY <1>1, <1>6, <1>7, <2>1
    <3>2. 0 \notin Nat \ {0}
      OBVIOUS
    <3> QED
      BY <1>6, <2>1, <3>1, <3>2, EmptySeq, Zenon
  <2>2. CASE p # n
    <3>1. n - p # 0
      BY <1>1, <2>2
    <3> QED
      BY <1>6, <1>7, <2>2, <3>1, EmptySeq, Zenon
  <2> QED
    BY <2>1, <2>2
<1> QED
  BY <1>3, <1>4, <1>5, <1>6, <1>7, <1>8, Zenon DEF n, RestOf

(* getopt_long is in front of letter p of a cluster.                       *)
AtLetter(line, s, p) ==
  /\ AtOption(line, s)
  /\ line[s.optind].kind = "short"
  /\ p \in Letters(line, s.optind)
  /\ s.next = SubSeq(line[s.optind].letters, p, Len(line[s.optind].letters))

InCluster(line, s, k, p) ==
  LET letters == line[k].letters
      n == Len(letters)
  IN  /\ k \in 1 .. Len(line) /\ k \in Nat
      /\ letters \in Seq(STRING) /\ n \in Nat \ {0} /\ p \in 1 .. n /\ p \in Nat \ {0}
      /\ IsRead(letters, p)
      /\ s.next \in Seq(STRING) /\ s.next # <<>> /\ Len(s.next) = n - p + 1
      /\ Head(s.next) = letters[p]
      /\ Tail(s.next) = SubSeq(letters, p + 1, n)
      /\ Tail(s.next) \in Seq(STRING)
      /\ (Tail(s.next) = <<>>) <=> (p = n)
      /\ Len(Tail(s.next)) = n - p

LEMMA LetterIs ==
  ASSUME NEW line \in Seq(Element), NEW s, NEW p, AtLetter(line, s, p)
  PROVE  InCluster(line, s, s.optind, p)
<1> SUFFICES ASSUME NEW k, k = s.optind, NEW letters, letters = line[k].letters,
                    NEW n, n = Len(letters)
             PROVE  InCluster(line, s, k, p)
  OBVIOUS
<1>1. k \in 1 .. Len(line) /\ k \in Nat /\ line[k].kind = "short" /\ p \in Letters(line, k)
  BY DEF AtLetter, AtOption
<1>2. line[k] \in Element
  BY <1>1, LineIs
<1>3. letters \in Seq(STRING) /\ n \in Nat \ {0}
  BY <1>1, <1>2, ElementIs
<1>4. p \in 1 .. n /\ p \in Nat \ {0} /\ IsRead(letters, p)
  BY <1>1, LettersIn
<1>5. s.next = SubSeq(letters, p, n)
  BY DEF AtLetter
<1>6. /\ s.next \in Seq(STRING) /\ s.next # <<>> /\ Len(s.next) = n - p + 1
      /\ Head(s.next) = letters[p]
      /\ Tail(s.next) = SubSeq(letters, p + 1, n)
      /\ Tail(s.next) \in Seq(STRING) /\ Len(Tail(s.next)) = n - p
      /\ (Tail(s.next) = <<>>) <=> (p = n)
  <2>1. p \in 1 .. Len(letters) /\ s.next = SubSeq(letters, p, Len(letters))
    BY <1>4, <1>5
  <2>2. RestOf(STRING, letters, p, s.next)
    BY <1>3, <2>1, RestIs
  <2> QED
    BY <2>2, Zenon DEF RestOf
<1> QED
  BY <1>1, <1>3, <1>4, <1>6 DEF InCluster

(* A letter that takes the rest of its cluster is the last one read.       *)
LEMMA LetterTakes ==
  ASSUME NEW line \in Seq(Element), NEW k \in 1 .. Len(line), NEW p \in Letters(line, k),
         line[k].letters[p] \in Takers
  PROVE  /\ \A q \in Letters(line, k) : q <= p
         /\ \A o \in Takers : At(line, k, o) = IF o = line[k].letters[p] THEN {p} ELSE {}
         /\ TakesNext(line[k]) <=> /\ p = Len(line[k].letters)
                                   /\ line[k].letters[p] \in WithValue
<1>1. /\ p \in 1 .. Len(line[k].letters) /\ p \in Nat \ {0} /\ IsRead(line[k].letters, p)
      /\ line[k].kind = "short" /\ Len(line[k].letters) \in Nat
  BY LettersIn, LineIs, ElementIs
<1>2. ASSUME NEW q \in Letters(line, k)
      PROVE  q <= p
  <2>1. q \in Nat \ {0} /\ IsRead(line[k].letters, q)
    BY LettersIn
  <2> QED
    BY <1>1, <2>1 DEF IsRead
<1>3. ASSUME NEW q \in Letters(line, k), line[k].letters[q] \in Takers
      PROVE  q = p
  <2>1. q \in Nat \ {0} /\ IsRead(line[k].letters, q) /\ q <= p
    BY <1>2, LettersIn
  <2> QED
    BY <1>1, <1>3, <2>1 DEF IsRead
<1>4. \A o \in Takers : At(line, k, o) = IF o = line[k].letters[p] THEN {p} ELSE {}
  BY <1>3 DEF At
<1>5. TakesNext(line[k]) <=> p = Len(line[k].letters) /\ line[k].letters[p] \in WithValue
  <2>1. IsRead(line[k].letters, Len(line[k].letters)) <=> p = Len(line[k].letters)
    BY <1>1 DEF IsRead
  <2> QED
    BY <1>1, <2>1 DEF TakesNext, Last
<1> QED
  BY <1>2, <1>4, <1>5

(* Behind any other letter the next one is read, if there is one.          *)
LEMMA LetterPasses ==
  ASSUME NEW line \in Seq(Element), NEW k \in 1 .. Len(line), NEW p \in Letters(line, k),
         line[k].letters[p] \notin Takers
  PROVE  /\ p < Len(line[k].letters) => p + 1 \in Letters(line, k)
         /\ p = Len(line[k].letters) =>
              /\ \A q \in Letters(line, k) : q <= p
              /\ \A o \in Takers : At(line, k, o) = {}
              /\ ~TakesNext(line[k])
<1>1. /\ p \in 1 .. Len(line[k].letters) /\ p \in Nat \ {0} /\ IsRead(line[k].letters, p)
      /\ line[k].kind = "short" /\ Len(line[k].letters) \in Nat /\ Option(line, k)
      /\ line[k].letters \in Seq(STRING)
  BY LettersIn, LineIs, ElementIs
<1>2. ASSUME p < Len(line[k].letters)
      PROVE  p + 1 \in Letters(line, k)
  <2>1. p + 1 \in 1 .. Len(line[k].letters)
    BY <1>1, <1>2
  <2>2. DOMAIN line[k].letters = 1 .. Len(line[k].letters)
    BY <1>1
  <2>3. IsRead(line[k].letters, p + 1)
    <3>1. \A q \in 1 .. (p + 1) - 1 : q \in 1 .. p - 1 \/ q = p
      BY <1>1
    <3> QED
      BY <1>1, <3>1 DEF IsRead
  <2> QED
    BY <1>1, <2>1, <2>2, <2>3 DEF Letters
<1>3. ASSUME p = Len(line[k].letters)
      PROVE  /\ \A q \in Letters(line, k) : q <= p
             /\ \A o \in Takers : At(line, k, o) = {}
             /\ ~TakesNext(line[k])
  <2>1. \A q \in Letters(line, k) : q <= p /\ q \in Nat \ {0}
    BY <1>3, LettersIn
  <2>2. \A q \in Letters(line, k) : line[k].letters[q] \notin Takers
    <3> SUFFICES ASSUME NEW q \in Letters(line, k) PROVE line[k].letters[q] \notin Takers
      OBVIOUS
    <3>1. q = p \/ q \in 1 .. p - 1
      BY <1>1, <2>1
    <3> QED
      BY <1>1, <3>1 DEF IsRead
  <2>3. \A o \in Takers : At(line, k, o) = {}
    BY <2>2 DEF At
  <2>4. ~TakesNext(line[k])
    BY <1>1, <1>3 DEF TakesNext, Last, Takers
  <2> QED
    BY <2>1, <2>3, <2>4
<1> QED
  BY <1>2, <1>3

-----------------------------------------------------------------------------
(* What a turn of the loop comes to.                                       *)

(* Reading on from s to t.                                                 *)
Further(s, t) ==
  /\ t.optind \in Nat
  /\ \/ t.optind > s.optind
     \/ t.optind = s.optind /\ Unread(t) < Unread(s)

Continues(line, s, t, enabled, c, d) ==
  /\ Further(s, t)
  /\ \E p \in Nat : ScanOK(line, t, p) /\ Done(line, t.optind, p, enabled, c, d)

(* The program ends, and where it lists, then what stands before.          *)
Stops(line) == \E k \in 1 .. Len(line) : Ends(line, k)

Listed(line, enabled) ==
  \E k \in 1 .. Len(line) :
    /\ \A j \in 1 .. k - 1 : ~Ends(line, j)
    /\ \/ /\ Option(line, k) /\ line[k] = Long("list", <<>>)
          /\ enabled = Wanted(line, k, 1)
       \/ \E p \in At(line, k, "l") :
            /\ \A q \in Letters(line, k) : q < p => ~LetterEnds(line, k, q)
            /\ enabled = Wanted(line, k, p)

(* The element in front of getopt_long's place is the option of module.    *)
Sees(t, module) == t.optind > 1 /\ Names(t.argv[t.optind - 1], module)

Turned(line, s, r, enabled, c, d) ==
  \/ r.opt = "end" /\ Done(line, Len(line) + 1, 1, enabled, c, d)
  \/ r.opt \in {"L", "h", ":"} /\ Stops(line)
  \/ r.opt = "l" /\ Stops(line) /\ Listed(line, enabled)
  \/ r.opt = "a" /\ Continues(line, s, r.scan, Module, c, d)
  \/ r.opt = "c" /\ Continues(line, s, r.scan, enabled, r.optarg, d)
  \/ r.opt = "d" /\ Continues(line, s, r.scan, enabled, c, Default(r.optarg))
  \/ /\ r.opt = "?" /\ r.scan \in Scan /\ r.scan.optind \in 1 .. Len(r.scan.argv) + 1
     /\ \/ \E module \in Module : /\ Sees(r.scan, module)
                                  /\ Continues(line, s, r.scan, enabled \union {module}, c, d)
        \/ (\A module \in Module : ~Sees(r.scan, module)) /\ Stops(line)

(* All that element k asks for is done but for the number it gives.        *)
Through(line, k, enabled, c, d) ==
  /\ enabled = Wanted(line, k + 1, 1)
  /\ c = LastNumber(line, k, "c", -1)
  /\ d = Default(LastNumber(line, k, "d", 2))
  /\ \A j \in 1 .. k - 1 : ~Ends(line, j)

(* An option and its value, be it in the same element or in the next.      *)
LEMMA NumberTurn ==
  ASSUME NEW line \in Seq(Element), NEW s, AtOption(line, s),
         NEW k, k = s.optind, NEW n \in k + 1 .. Len(line) + 1,
         Fresh(line, n), \A j \in k + 1 .. n - 1 : Roles(line)[j] = "value",
         NEW o \in WithValue, Gives(line, k, o),
         \A other \in WithValue \ {o} : ~Gives(line, k, other),
         ~Ends(line, k),
         NEW enabled, NEW c, NEW d, Through(line, k, enabled, c, d),
         NEW t, t = On(s, n, <<>>)
  PROVE  Turned(line, s, Returns(t, o, NumberGiven(line, k, o)), enabled, c, d)
<1> DEFINE v == NumberGiven(line, k, o)
           c2 == IF o = "c" THEN v ELSE c
           d2 == IF o = "d" THEN Default(v) ELSE d
<1>1. k \in 1 .. Len(line) /\ k \in Nat /\ Len(line) \in Nat /\ Option(line, k) /\ ArgvOK(line, s)
  BY DEF AtOption
<1>2. /\ n \in k .. Len(line) + 1 /\ n > k /\ k + 1 \in k .. Len(line) + 1
      /\ k + 1 \in 1 .. Len(line) + 1
  BY <1>1
<1>3. ArgvOK(line, t) /\ t.optind = n /\ t.next = <<>>
  <2>1. \A j \in k .. n - 1 : Roles(line)[j] # "word"
    <3>1. \A j \in k .. n - 1 : j = k \/ j \in k + 1 .. n - 1
      BY <1>1
    <3> QED
      BY <1>1, <3>1 DEF Option
  <2>2. <<>> \in Seq(STRING)
    BY EmptySeq
  <2>3. IsOn(line, s, n, <<>>, t)
    BY <1>1, <1>2, <2>1, <2>2, ArgvOn
  <2> QED
    BY <2>3 DEF IsOn
<1>4. ScanOK(line, t, 1)
  BY <1>3 DEF ScanOK
<1>5. c2 = LastNumber(line, k + 1, "c", -1)
  <2>1. CASE o = "c"
    BY <1>1, <2>1, LastGiven
  <2>2. CASE o # "c"
    <3>1. ~Gives(line, k, "c")
      BY <2>2 DEF WithValue
    <3>2. \A j \in k .. (k + 1) - 1 : j = k
      BY <1>1
    <3>3. LastNumber(line, k + 1, "c", -1) = LastNumber(line, k, "c", -1)
      BY <1>1, <1>2, <3>1, <3>2, LastOver
    <3> QED
      BY <2>2, <3>3 DEF Through
  <2> QED
    BY <2>1, <2>2
<1>6. d2 = Default(LastNumber(line, k + 1, "d", 2))
  <2>1. CASE o = "d"
    BY <1>1, <2>1, LastGiven
  <2>2. CASE o # "d"
    <3>1. ~Gives(line, k, "d")
      BY <2>2 DEF WithValue
    <3>2. \A j \in k .. (k + 1) - 1 : j = k
      BY <1>1
    <3>3. LastNumber(line, k + 1, "d", 2) = LastNumber(line, k, "d", 2)
      BY <1>1, <1>2, <3>1, <3>2, LastOver
    <3> QED
      BY <2>2, <3>3 DEF Through
  <2> QED
    BY <2>1, <2>2
<1> HIDE DEF v, c2, d2
<1>7. Done(line, k + 1, 1, enabled, c2, d2)
  <2>1. \A j \in 1 .. (k + 1) - 1 : j = k \/ j \in 1 .. k - 1
    BY <1>1
  <2>2. k + 1 \in 1 .. Len(line) => \A q \in Letters(line, k + 1) : ~(q < 1)
    BY LettersIn
  <2> QED
    BY <1>5, <1>6, <2>1, <2>2 DEF Done, Through
<1>8. Done(line, n, 1, enabled, c2, d2)
  <2>1. \A j \in k + 1 .. n - 1 : ~Option(line, j)
    BY DEF Option
  <2> QED
    BY <1>1, <1>2, <1>7, <2>1, DoneOver
<1>9. Continues(line, s, t, enabled, c2, d2)
  <2>1. Further(s, t)
    BY <1>2, <1>3 DEF Further
  <2> QED
    BY <1>3, <1>4, <1>8, <2>1 DEF Continues
<1> QED
  BY <1>9 DEF Turned, Returns, WithValue, c2, d2, v

(* The value of an option is the next element.                             *)
LEMMA ValueTurn ==
  ASSUME NEW line \in Seq(Element), NEW s, AtOption(line, s),
         NEW k, k = s.optind, TakesNext(line[k]),
         NEW o \in WithValue, Gives(line, k, o),
         \A other \in WithValue \ {o} : ~Gives(line, k, other),
         k < Len(line) => ~Ends(line, k),
         NEW enabled, NEW c, NEW d, Through(line, k, enabled, c, d),
         NEW t, t = On(s, k + 1, <<>>)
  PROVE  Turned(line, s, ValueOf(t, o), enabled, c, d)
<1>1. /\ k \in 1 .. Len(line) /\ k \in Nat /\ Len(line) \in Nat /\ Option(line, k)
      /\ ArgvOK(line, s) /\ s \in Scan /\ Len(s.argv) = Len(line) /\ Fresh(line, k)
      /\ \A j \in k .. Len(line) : s.argv[j] = line[j]
  BY DEF AtOption, ArgvOK
<1>2. t.optind = k + 1 /\ t.argv = s.argv /\ argc(t) = Len(line) + 1
  BY <1>1 DEF Scan, argc, On
<1>3. CASE k = Len(line)
  <2>1. ValueOf(t, o) = Returns(t, ":", 0)
    BY <1>2, <1>3 DEF ValueOf
  <2>2. Stops(line)
    BY <1>1, <1>3 DEF Stops, Ends
  <2> QED
    BY <2>1, <2>2 DEF Turned, Returns
<1>4. CASE k # Len(line)
  <2>1. k < Len(line) /\ k + 1 \in k .. Len(line) /\ k + 2 \in k + 1 .. Len(line) + 1
        /\ k + 1 # Len(line) + 1
    BY <1>1, <1>4
  <2> DEFINE u == On(s, k + 2, <<>>)
  <2>2. u = [t EXCEPT !.optind = @ + 1]
    <3>1. (k + 1) + 1 = k + 2
      BY <1>1
    <3> QED
      BY <1>1, <3>1 DEF Scan, On
  <2>3. Roles(line)[k + 1] = "value" /\ Fresh(line, k + 2)
    BY <1>1, <2>1, FreshBehindValue
  <2>4. \A j \in k + 1 .. (k + 2) - 1 : Roles(line)[j] = "value"
    <3>1. \A j \in k + 1 .. (k + 2) - 1 : j = k + 1
      BY <1>1
    <3> QED
      BY <2>3, <3>1
  <2>5. ValueOf(t, o) = Returns(u, o, NumberGiven(line, k, o))
    <3>1. NumberGiven(line, k, o) = Number(s.argv[k + 1])
      BY <1>1, <2>1 DEF NumberGiven
    <3>2. t.optind # argc(t)
      BY <1>2, <2>1
    <3> HIDE DEF u
    <3> QED
      BY <1>2, <2>2, <3>1, <3>2 DEF ValueOf
  <2> HIDE DEF u
  <2>6. Turned(line, s, Returns(u, o, NumberGiven(line, k, o)), enabled, c, d)
    BY <2>1, <2>3, <2>4, NumberTurn DEF u
  <2> QED
    BY <2>5, <2>6
<1> QED
  BY <1>3, <1>4

(* Past an option nothing changes in argv.                                 *)
LEMMA PassedIs ==
  ASSUME NEW line \in Seq(Element), NEW s, AtOption(line, s)
  PROVE  IsOn(line, s, s.optind + 1, <<>>, On(s, s.optind + 1, <<>>))
<1> DEFINE k == s.optind
<1>1. /\ k \in 1 .. Len(line) /\ k \in Nat /\ Len(line) \in Nat /\ Option(line, k)
      /\ ArgvOK(line, s)
  BY DEF AtOption
<1>2. k + 1 \in k .. Len(line) + 1
  BY <1>1
<1>3. \A j \in k .. (k + 1) - 1 : Roles(line)[j] # "word"
  <2>1. \A j \in k .. (k + 1) - 1 : j = k
    BY <1>1
  <2> QED
    BY <1>1, <2>1 DEF Option
<1>4. <<>> \in Seq(STRING)
  BY EmptySeq
<1> QED
  BY <1>1, <1>2, <1>3, <1>4, ArgvOn

(* On to the next element.                                                 *)
LEMMA PassTurn ==
  ASSUME NEW line \in Seq(Element), NEW s, AtOption(line, s),
         NEW k, k = s.optind, ~TakesNext(line[k]),
         NEW enabled, NEW c, NEW d, Done(line, k + 1, 1, enabled, c, d),
         NEW t, t = On(s, k + 1, <<>>)
  PROVE  /\ Continues(line, s, t, enabled, c, d)
         /\ ArgvOK(line, t) /\ t.optind = k + 1 /\ t.argv = s.argv
<1>1. /\ k \in 1 .. Len(line) /\ k \in Nat /\ Len(line) \in Nat /\ Option(line, k)
      /\ ArgvOK(line, s) /\ Fresh(line, k)
  BY DEF AtOption
<1>2. k + 1 \in k .. Len(line) + 1 /\ k + 1 > k /\ k + 1 \in Nat
  BY <1>1
<1>3. ArgvOK(line, t) /\ t.optind = k + 1 /\ t.next = <<>> /\ t.argv = s.argv
  <2>1. IsOn(line, s, k + 1, <<>>, t)
    BY PassedIs
  <2> QED
    BY <2>1 DEF IsOn
<1>4. Fresh(line, k + 1)
  BY <1>1, FreshOn DEF Option
<1>5. ScanOK(line, t, 1)
  BY <1>3, <1>4 DEF ScanOK
<1> QED
  BY <1>2, <1>3, <1>5 DEF Continues, Further

(* On to the next letter.                                                  *)
LEMMA NextLetterTurn ==
  ASSUME NEW line \in Seq(Element), NEW s, NEW p, AtLetter(line, s, p),
         NEW k, k = s.optind, p + 1 \in Letters(line, k),
         NEW enabled, NEW c, NEW d, Done(line, k, p + 1, enabled, c, d),
         NEW t, t = [s EXCEPT !.next = Tail(s.next)]
  PROVE  /\ Continues(line, s, t, enabled, c, d)
         /\ ArgvOK(line, t) /\ t.optind = k /\ t.argv = s.argv
<1> DEFINE letters == line[k].letters
           n == Len(line[k].letters)
<1>1. /\ k \in 1 .. Len(line) /\ k \in Nat
      /\ n \in Nat \ {0} /\ p \in Nat \ {0}
      /\ s.next # <<>> /\ Len(s.next) = n - p + 1
      /\ Tail(s.next) = SubSeq(letters, p + 1, n)
      /\ Tail(s.next) \in Seq(STRING)
      /\ (Tail(s.next) = <<>>) <=> (p = n)
      /\ Len(Tail(s.next)) = n - p
  <2>1. InCluster(line, s, k, p)
    BY LetterIs
  <2> QED
    BY <2>1 DEF InCluster
<1>2. AtOption(line, s) /\ ArgvOK(line, s) /\ s \in Scan
      /\ k \in k .. Len(line) + 1 /\ Len(line) \in Nat /\ Len(s.argv) = Len(line)
  BY <1>1 DEF AtLetter, AtOption, ArgvOK
<1>3. t = On(s, k, Tail(s.next))
  BY <1>2 DEF Scan, On
<1>4. ArgvOK(line, t) /\ t.optind = k /\ t.next = Tail(s.next) /\ t.last = s.last
      /\ t.argv = s.argv
  <2>1. \A j \in k .. k - 1 : Roles(line)[j] # "word"
    BY <1>1
  <2> DEFINE x == Tail(s.next)
  <2>2. x \in Seq(STRING) /\ t = On(s, k, x) /\ ArgvOK(line, s) /\ k \in s.optind .. Len(line) + 1
    BY <1>1, <1>2, <1>3
  <2> HIDE DEF x
  <2>3. IsOn(line, s, k, x, t)
    BY <2>1, <2>2, ArgvOn
  <2> QED
    BY <2>3 DEF IsOn, x
<1>5. p # n
  <2>1. p + 1 \in 1 .. n
    BY <1>1, LettersIn
  <2> QED
    BY <1>1, <2>1
<1>6. ScanOK(line, t, p + 1)
  BY <1>1, <1>2, <1>4, <1>5 DEF ScanOK, AtOption
<1>7. Further(s, t)
  <2>1. s.optind # argc(s) /\ t.optind # argc(t)
    BY <1>1, <1>2, <1>4 DEF argc
  <2>2. Unread(s) = n - p + 1 /\ Unread(t) = n - p
    BY <1>1, <1>4, <1>5, <2>1 DEF Unread
  <2>3. n - p < n - p + 1 /\ t.optind = s.optind /\ t.optind \in Nat
    <3>1. n \in Nat /\ p \in Nat
      BY <1>1
    <3>2. k \in Nat /\ t.optind = k
      BY <1>1, <1>4
    <3>3. \A i, j \in Nat : i - j < i - j + 1
      OBVIOUS
    <3> QED
      BY <3>1, <3>2, <3>3, Zenon
  <2> QED
    BY <2>2, <2>3 DEF Further
<1>8. p + 1 \in Nat
  BY <1>1
<1>9. Continues(line, s, t, enabled, c, d)
  BY <1>4, <1>6, <1>7, <1>8, Zenon DEF Continues
<1> QED
  BY <1>4, <1>9

-----------------------------------------------------------------------------
(* A letter of a cluster.                                                  *)

(* What ShortOption returns, by the letter.                                *)
ShortReading(line, s, k, p) ==
  LET o == line[k].letters[p]
      passed == On(s, k + 1, <<>>)
      last == p = Len(line[k].letters)
      onward == IF last THEN passed ELSE [s EXCEPT !.next = Tail(s.next)]
  IN  /\ o \in WithValue /\ last => ShortOption(s) = ValueOf(passed, o)
      /\ o \in WithValue /\ ~last =>
           ShortOption(s) = Returns(passed, o, atoi(Tail(s.next)))
      /\ o = "h" => ShortOption(s) = Returns(passed, o, 0)
      /\ o \in Flags \ {"h"} => ShortOption(s) = Returns(onward, o, 0)
      /\ IsUnknown(o) => ShortOption(s) = Returns(onward, "?", 0)

LEMMA ShortReads ==
  ASSUME NEW line \in Seq(Element), NEW s, NEW p, AtLetter(line, s, p)
  PROVE  ShortReading(line, s, s.optind, p)
<1> SUFFICES ASSUME NEW k, k = s.optind, NEW o, o = line[k].letters[p]
             PROVE  ShortReading(line, s, k, p)
  OBVIOUS
<1> DEFINE rest == Tail(s.next)
           passed == On(s, k + 1, <<>>)
           onward == IF rest = <<>> THEN passed ELSE [s EXCEPT !.next = rest]
<1>1. InCluster(line, s, k, p)
  BY LetterIs
<1>2. /\ Head(s.next) = o
      /\ (rest = <<>>) <=> (p = Len(line[k].letters))
  BY <1>1 DEF InCluster
<1>3. ShortOption(s) =
        CASE o \in WithValue /\ rest = <<>> -> ValueOf(passed, o)
          [] o \in WithValue /\ rest # <<>> -> Returns(passed, o, atoi(rest))
          [] o = "h"                        -> Returns(passed, o, 0)
          [] o \in Flags \ {"h"}            -> Returns(onward, o, 0)
          [] OTHER                          -> Returns(onward, "?", 0)
  <2>1. Head(s.next) = o
    BY <1>2
  <2> QED
    BY <2>1 DEF ShortOption, On
<1> HIDE DEF rest, passed, onward
<1>4. /\ o \in WithValue /\ rest = <<>> => ShortOption(s) = ValueOf(passed, o)
      /\ o \in WithValue /\ rest # <<>> => ShortOption(s) = Returns(passed, o, atoi(rest))
      /\ o = "h" => ShortOption(s) = Returns(passed, o, 0)
      /\ o \in Flags \ {"h"} => ShortOption(s) = Returns(onward, o, 0)
      /\ IsUnknown(o) => ShortOption(s) = Returns(onward, "?", 0)
  BY <1>3 DEF WithValue, Flags, IsUnknown
<1> QED
  BY <1>2, <1>4 DEF rest, passed, onward, ShortReading

(* A cluster ends the program by one of its letters, or for want of a      *)
(* value; apart from its letters it asks for no module.                    *)
LEMMA ClusterIs ==
  ASSUME NEW line \in Seq(Element), NEW k \in 1 .. Len(line), line[k].kind = "short"
  PROVE  /\ \A module : ~Calls(line, k, module)
         /\ \A o : ~LongGives(line, k, o)
         /\ (\A q \in Letters(line, k) : ~LetterEnds(line, k, q))
              /\ (TakesNext(line[k]) => k # Len(line)) => ~Ends(line, k)
BY DEF Calls, Names, Long, LongGives, Ends

(* Past the last letter read of a cluster that asks for no module.         *)
LEMMA WantedBehind ==
  ASSUME NEW line \in Seq(Element), NEW k \in 1 .. Len(line), NEW p \in Letters(line, k),
         \A q \in Letters(line, k) : q <= p
  PROVE  Wanted(line, k + 1, 1) = Wanted(line, k, p + 1)
<1>1. \A q \in Letters(line, k) : q \in Nat \ {0} /\ line[k].kind = "short"
  BY LettersIn
<1>2. p + 1 \in Nat \ {0} /\ \A q \in Letters(line, k) : q < p + 1
  BY <1>1
<1>3. \A module \in Module : ~Calls(line, k, module)
  BY <1>1, ClusterIs
<1> QED
  BY <1>2, <1>3, WantedPassed

(* One that is done with letter p, and was not ended by it, is done up to  *)
(* the next letter, or with the whole cluster.                             *)
LEMMA DoneLetter ==
  ASSUME NEW line \in Seq(Element), NEW k \in 1 .. Len(line), NEW p \in Letters(line, k),
         ~LetterEnds(line, k, p),
         NEW enabled, NEW on, NEW c, NEW d, Done(line, k, p, enabled, c, d),
         on = Wanted(line, k, p + 1)
  PROVE  /\ Done(line, k, p + 1, on, c, d)
         /\ line[k].letters[p] \notin Takers /\ p = Len(line[k].letters) =>
              Done(line, k + 1, 1, on, c, d)
<1>1. \A q \in Letters(line, k) : q \in Nat \ {0} /\ line[k].kind = "short"
  BY LettersIn
<1>2. \A q \in Letters(line, k) : q < p + 1 => ~LetterEnds(line, k, q)
  <2> SUFFICES ASSUME NEW q \in Letters(line, k), q < p + 1
               PROVE  ~LetterEnds(line, k, q)
    OBVIOUS
  <2>1. q = p \/ q < p
    BY <1>1
  <2> QED
    BY <2>1 DEF Done
<1>3. Done(line, k, p + 1, on, c, d)
  BY <1>2 DEF Done
<1>4. ASSUME line[k].letters[p] \notin Takers, p = Len(line[k].letters)
      PROVE  Done(line, k + 1, 1, on, c, d)
  <2>1. /\ \A q \in Letters(line, k) : q <= p
        /\ \A o \in Takers : At(line, k, o) = {}
        /\ ~TakesNext(line[k])
    BY <1>4, LetterPasses
  <2>2. on = Wanted(line, k + 1, 1)
    BY <2>1, WantedBehind
  <2>3. ~Gives(line, k, "c") /\ ~Gives(line, k, "d")
    BY <1>1, <2>1, ClusterIs DEF Gives, Takers, WithValue
  <2>4. Len(line) \in Nat /\ k \in Nat
    BY LineIs
  <2>5. \A j \in k .. (k + 1) - 1 : j = k
    BY <2>4
  <2>6. k \in 1 .. Len(line) + 1 /\ k + 1 \in k .. Len(line) + 1
    BY <2>4
  <2>7. LastNumber(line, k + 1, "c", -1) = LastNumber(line, k, "c", -1)
    BY <2>3, <2>5, <2>6, LastOver
  <2>8. LastNumber(line, k + 1, "d", 2) = LastNumber(line, k, "d", 2)
    BY <2>3, <2>5, <2>6, LastOver
  <2>9. \A q \in Letters(line, k) : ~LetterEnds(line, k, q)
    BY <1>1, <1>2, <2>1
  <2>10. ~Ends(line, k)
    BY <1>1, <2>1, <2>9, ClusterIs
  <2>11. \A j \in 1 .. (k + 1) - 1 : ~Ends(line, j)
    <3>1. \A j \in 1 .. (k + 1) - 1 : j = k \/ j \in 1 .. k - 1
      BY <2>4
    <3> QED
      BY <2>10, <3>1 DEF Done
  <2>12. k + 1 \in 1 .. Len(line) => \A q \in Letters(line, k + 1) : ~(q < 1)
    BY LettersIn
  <2> QED
    BY <2>2, <2>7, <2>8, <2>11, <2>12 DEF Done
<1> QED
  BY <1>3, <1>4

(* A letter with a value.                                                  *)
LEMMA LetterNumberTurn ==
  ASSUME NEW line \in Seq(Element), NEW s, NEW p, AtLetter(line, s, p),
         NEW k, k = s.optind, line[k].letters[p] \in WithValue,
         NEW enabled, NEW c, NEW d, Done(line, k, p, enabled, c, d)
  PROVE  Turned(line, s, ShortOption(s), enabled, c, d)
<1> DEFINE o == line[k].letters[p]
           n == Len(line[k].letters)
           passed == On(s, k + 1, <<>>)
<1>0. ShortReading(line, s, k, p)
  BY ShortReads
<1>1. /\ k \in 1 .. Len(line) /\ AtOption(line, s) /\ line[k].kind = "short" /\ Fresh(line, k)
      /\ p \in Letters(line, k) /\ Option(line, k)
  BY DEF AtLetter, AtOption
<1>2. n \in Nat \ {0} /\ p \in 1 .. n /\ p \in Nat \ {0} /\ k \in Nat /\ Len(line) \in Nat
      /\ Tail(s.next) = SubSeq(line[k].letters, p + 1, n)
  <2>1. InCluster(line, s, k, p)
    BY LetterIs
  <2> QED
    BY <2>1, LineIs DEF InCluster
<1>3. /\ o \in WithValue /\ o \in Takers
      /\ \A q \in Letters(line, k) : q <= p
      /\ \A other \in Takers : At(line, k, other) = IF other = o THEN {p} ELSE {}
      /\ TakesNext(line[k]) <=> p = n /\ o \in WithValue
  <2>1. o \in WithValue /\ o \in Takers
    BY DEF Takers
  <2> QED
    BY <1>1, <2>1, LetterTakes
<1>4. ~LetterEnds(line, k, p) /\ o # "a" /\ ~Overlooked(line, k, p)
  BY DEF LetterEnds, IsUnknown, Overlooked, WithValue
<1>5. Wanted(line, k + 1, 1) = Wanted(line, k, p)
  <2>1. Wanted(line, k + 1, 1) = Wanted(line, k, p + 1)
    BY <1>1, <1>3, WantedBehind
  <2> QED
    BY <1>1, <1>4, <2>1, WantedLetterOther
<1>6. Through(line, k, enabled, c, d)
  BY <1>5 DEF Through, Done
<1>7. Gives(line, k, o) /\ \A other \in WithValue \ {o} : ~Gives(line, k, other)
  <2>1. WithValue \subseteq Takers
    BY DEF Takers
  <2> QED
    BY <1>1, <1>3, <2>1, ClusterIs DEF Gives
<1>8. \A q \in Letters(line, k) : ~LetterEnds(line, k, q)
  <2> SUFFICES ASSUME NEW q \in Letters(line, k) PROVE ~LetterEnds(line, k, q)
    OBVIOUS
  <2>1. q \in Nat \ {0} /\ q <= p
    BY <1>1, <1>3, LettersIn
  <2>2. q = p \/ q < p
    BY <1>2, <2>1
  <2> QED
    BY <1>1, <1>4, <2>2 DEF Done
<1>9. (TakesNext(line[k]) => k # Len(line)) => ~Ends(line, k)
  BY <1>1, <1>8, ClusterIs
<1>10. CASE p = n
  <2>1. ShortOption(s) = ValueOf(passed, o)
    BY <1>10, <1>0 DEF ShortReading
  <2>2. k < Len(line) => ~Ends(line, k)
    BY <1>2, <1>9
  <2>3. TakesNext(line[k])
    BY <1>3, <1>10
  <2> HIDE DEF o, passed
  <2>4. Turned(line, s, ValueOf(passed, o), enabled, c, d)
    BY <1>1, <1>3, <1>6, <1>7, <2>2, <2>3, ValueTurn DEF passed
  <2> QED
    BY <2>1, <2>4
<1>11. CASE p # n
  <2>1. ShortOption(s) = Returns(passed, o, atoi(Tail(s.next)))
    BY <1>11, <1>0 DEF ShortReading
  <2>2. ~TakesNext(line[k])
    BY <1>3, <1>11
  <2>3. NumberGiven(line, k, o) = atoi(Tail(s.next))
    <3>1. At(line, k, o) = {p}
      BY <1>3
    <3>2. (CHOOSE q \in At(line, k, o) : TRUE) = p
      BY <3>1
    <3>3. 1 + p = p + 1
      BY <1>2
    <3> QED
      BY <1>1, <1>2, <2>2, <3>2, <3>3 DEF NumberGiven
  <2>4. Fresh(line, k + 1)
    BY <1>1, <2>2, FreshOn DEF Option
  <2>5. k + 1 \in k + 1 .. Len(line) + 1
    BY <1>1, <1>2
  <2>6. \A j \in k + 1 .. (k + 1) - 1 : Roles(line)[j] = "value"
    BY <1>2
  <2> HIDE DEF o, passed
  <2>7. Turned(line, s, Returns(passed, o, NumberGiven(line, k, o)), enabled, c, d)
    BY <1>1, <1>3, <1>6, <1>7, <1>9, <2>2, <2>4, <2>5, <2>6, NumberTurn DEF passed
  <2> QED
    BY <2>1, <2>3, <2>7
<1> QED
  BY <1>10, <1>11

(* A letter that ends the program at once.                                 *)
LEMMA LetterStopTurn ==
  ASSUME NEW line \in Seq(Element), NEW s, NEW p, AtLetter(line, s, p),
         NEW k, k = s.optind, line[k].letters[p] \in {"l", "L", "h"},
         NEW enabled, NEW c, NEW d, Done(line, k, p, enabled, c, d)
  PROVE  Turned(line, s, ShortOption(s), enabled, c, d)
<1>0. ShortReading(line, s, k, p)
  BY ShortReads
<1>1. /\ k \in 1 .. Len(line) /\ p \in Letters(line, k) /\ Option(line, k)
      /\ line[k].kind = "short"
  BY DEF AtLetter, AtOption
<1>2. \E t : ShortOption(s) = Returns(t, line[k].letters[p], 0)
  <2>1. line[k].letters[p] = "h" \/ line[k].letters[p] \in Flags \ {"h"}
    BY DEF Flags
  <2> QED
    BY <2>1, <1>0 DEF ShortReading
<1>3. Stops(line)
  <2>1. Ends(line, k)
    BY <1>1 DEF Ends, LetterEnds
  <2> QED
    BY <1>1, <2>1 DEF Stops
<1>4. line[k].letters[p] = "l" => Listed(line, enabled)
  BY <1>1 DEF Listed, Done, At
<1> QED
  BY <1>2, <1>3, <1>4 DEF Turned, Returns

(* The letter that enables all modules.                                    *)
LEMMA LetterAllTurn ==
  ASSUME NEW line \in Seq(Element), NEW s, NEW p, AtLetter(line, s, p),
         NEW k, k = s.optind, line[k].letters[p] = "a",
         NEW enabled, NEW c, NEW d, Done(line, k, p, enabled, c, d)
  PROVE  Turned(line, s, ShortOption(s), enabled, c, d)
<1> DEFINE n == Len(line[k].letters)
           passed == On(s, k + 1, <<>>)
           onward == [s EXCEPT !.next = Tail(s.next)]
<1>0. ShortReading(line, s, k, p)
  BY ShortReads
<1>1. /\ k \in 1 .. Len(line) /\ p \in Letters(line, k) /\ Option(line, k)
      /\ line[k].kind = "short" /\ AtOption(line, s)
  BY DEF AtLetter, AtOption
<1>2. n \in Nat \ {0} /\ p \in 1 .. n
  <2>1. InCluster(line, s, k, p)
    BY LetterIs
  <2> QED
    BY <2>1 DEF InCluster
<1>3. Wanted(line, k, p + 1) = Module
  BY <1>1, WantedLetterAll
<1>4. ~LetterEnds(line, k, p) /\ line[k].letters[p] \notin Takers
  BY DEF LetterEnds, IsUnknown, Flags, Takers, WithValue
<1>5. /\ Done(line, k, p + 1, Module, c, d)
      /\ p = n => Done(line, k + 1, 1, Module, c, d)
  BY <1>1, <1>3, <1>4, DoneLetter
<1>6. CASE p = n
  <2>1. ShortOption(s) = Returns(passed, "a", 0)
    BY <1>6, <1>0 DEF Flags, ShortReading
  <2>2. ~TakesNext(line[k])
    BY <1>1, <1>4, <1>6, LetterPasses
  <2> HIDE DEF passed
  <2>3. Continues(line, s, passed, Module, c, d)
    BY <1>1, <1>5, <1>6, <2>2, PassTurn DEF passed
  <2> QED
    BY <2>1, <2>3 DEF Turned, Returns
<1>7. CASE p # n
  <2>1. ShortOption(s) = Returns(onward, "a", 0)
    BY <1>7, <1>0 DEF Flags, ShortReading
  <2>2. p + 1 \in Letters(line, k)
    <3>1. p < n
      BY <1>2, <1>7
    <3> QED
      BY <1>1, <1>4, <3>1, LetterPasses
  <2> HIDE DEF onward
  <2>3. Continues(line, s, onward, Module, c, d)
    BY <1>5, <2>2, NextLetterTurn DEF onward
  <2> QED
    BY <2>1, <2>3 DEF Turned, Returns
<1> QED
  BY <1>6, <1>7

(* main's second look, at the element before an option: a word that was    *)
(* moved there, if words stand before it, and else the element of the line.*)
LEMMA SeesIs ==
  ASSUME NEW line \in Seq(Element), NEW s, AtOption(line, s), NEW k, k = s.optind, NEW module
  PROVE  Sees(s, module) <=>
           /\ k > 1 /\ Names(line[k - 1], module)
           /\ \A j \in 1 .. k - 1 : Roles(line)[j] # "word"
<1>1. /\ ArgvOK(line, s) /\ s.last = k /\ k \in 1 .. Len(line) /\ Len(line) \in Nat
      /\ s.first \in 1 .. k /\ k \in Nat
  BY DEF AtOption, ArgvOK
<1>2. CASE s.first = s.last
  <2>1. s.argv = line /\ \A j \in 1 .. k - 1 : Roles(line)[j] # "word"
    BY <1>1, <1>2 DEF ArgvOK
  <2> QED
    BY <2>1 DEF Sees
<1>3. CASE s.first # s.last
  <2>1. k - 1 \in s.first .. s.last - 1
    BY <1>1, <1>3
  <2>2. s.argv[k - 1].kind = "word"
    BY <1>1, <2>1 DEF ArgvOK
  <2>3. ~Sees(s, module)
    BY <2>2 DEF Sees, Names, Long
  <2>4. \E j \in 1 .. k - 1 : Roles(line)[j] = "word"
    BY <1>1, <1>3 DEF ArgvOK
  <2> QED
    BY <2>3, <2>4
<1> QED
  BY <1>2, <1>3

(* A letter that getopt_long does not know.                                *)
LEMMA LetterUnknownTurn ==
  ASSUME NEW line \in Seq(Element), NEW s, NEW p, AtLetter(line, s, p),
         NEW k, k = s.optind, IsUnknown(line[k].letters[p]),
         NEW enabled, NEW c, NEW d, Done(line, k, p, enabled, c, d)
  PROVE  Turned(line, s, ShortOption(s), enabled, c, d)
<1> DEFINE n == Len(line[k].letters)
           passed == On(s, k + 1, <<>>)
           onward == [s EXCEPT !.next = Tail(s.next)]
<1>0. ShortReading(line, s, k, p)
  BY ShortReads
<1>1. /\ k \in 1 .. Len(line) /\ p \in Letters(line, k) /\ Option(line, k)
      /\ line[k].kind = "short" /\ AtOption(line, s) /\ ArgvOK(line, s)
  BY DEF AtLetter, AtOption
<1>2. n \in Nat \ {0} /\ p \in 1 .. n /\ Tail(s.next) \in Seq(STRING)
  <2>1. InCluster(line, s, k, p)
    BY LetterIs
  <2> QED
    BY <2>1 DEF InCluster
<1>3. /\ s \in Scan /\ Len(s.argv) = Len(line) /\ Len(line) \in Nat /\ k \in Nat
      /\ s.argv[k] = line[k] /\ k \in 1 .. Len(line) + 1
  <2>1. k \in k .. Len(line)
    BY <1>1, LineIs
  <2> QED
    BY <1>1, <2>1 DEF ArgvOK
<1>4. line[k].letters[p] \notin {"l", "L", "h"} /\ line[k].letters[p] \notin Takers
  BY DEF IsUnknown, Flags, Takers
<1>5. ~Overlooked(line, k, p) => Stops(line)
  BY <1>1 DEF LetterEnds, Ends, Stops
<1>6. CASE p = n
  <2>1. ShortOption(s) = Returns(passed, "?", 0)
    BY <1>0, <1>6 DEF ShortReading
  <2> HIDE DEF passed
  <2>2. IsOn(line, s, k + 1, <<>>, passed)
    BY <1>1, PassedIs DEF passed
  <2>3. passed \in Scan /\ passed.optind \in 1 .. Len(passed.argv) + 1
    BY <1>3, <2>2 DEF IsOn, ArgvOK
  <2>4. \A module : ~Sees(passed, module)
    <3>1. passed.argv[passed.optind - 1] = line[k]
      <4>1. (k + 1) - 1 = k
        BY <1>3
      <4> QED
        BY <1>3, <2>2, <4>1 DEF IsOn
    <3> QED
      BY <1>1, <3>1 DEF Sees, Names, Long
  <2>5. ~Overlooked(line, k, p)
    BY <1>2, <1>6 DEF Overlooked
  <2> QED
    BY <1>5, <2>1, <2>3, <2>4, <2>5 DEF Turned, Returns
<1>7. CASE p # n
  <2>1. ShortOption(s) = Returns(onward, "?", 0)
    BY <1>0, <1>7 DEF ShortReading
  <2>2. /\ onward \in Scan /\ onward.optind = k /\ onward.argv = s.argv
        /\ onward.optind \in 1 .. Len(onward.argv) + 1
    BY <1>2, <1>3 DEF Scan
  <2>3. \A module : Sees(onward, module) <=> Sees(s, module)
    BY <2>2 DEF Sees
  <2>4. p < n /\ p + 1 \in Letters(line, k)
    <3>1. p < n
      BY <1>2, <1>7
    <3> QED
      BY <1>1, <1>4, <3>1, LetterPasses
  <2> HIDE DEF onward
  <2>5. CASE Overlooked(line, k, p)
    <3>1. PICK module \in Module : Names(line[k - 1], module)
      BY <2>5 DEF Overlooked
    <3>2. Sees(onward, module)
      BY <1>1, <2>3, <2>5, <3>1, SeesIs DEF Overlooked
    <3>3. Wanted(line, k, p + 1) = Wanted(line, k, p) \union {module}
      BY <1>1, <2>5, <3>1, WantedOverlooked
    <3>4. ~LetterEnds(line, k, p)
      BY <1>4, <2>5 DEF LetterEnds
    <3>5. Done(line, k, p + 1, enabled \union {module}, c, d)
      <4>1. enabled \union {module} = Wanted(line, k, p + 1)
        BY <3>3 DEF Done
      <4> QED
        BY <1>1, <3>4, <4>1, DoneLetter
    <3>6. Continues(line, s, onward, enabled \union {module}, c, d)
      BY <2>4, <3>5, NextLetterTurn DEF onward
    <3>7. ShortOption(s).opt = "?" /\ ShortOption(s).scan = onward
      BY <2>1 DEF Returns
    <3> QED
      BY <2>2, <3>2, <3>6, <3>7 DEF Turned
  <2>6. CASE ~Overlooked(line, k, p)
    <3>1. \A module \in Module : ~Sees(onward, module)
      BY <1>1, <2>3, <2>4, <2>6, SeesIs DEF Overlooked
    <3> QED
      BY <1>5, <2>1, <2>2, <2>6, <3>1 DEF Turned, Returns
  <2> QED
    BY <2>5, <2>6
<1> QED
  BY <1>6, <1>7

(* Every letter.                                                           *)
LEMMA ShortTurn ==
  ASSUME NEW line \in Seq(Element), NEW s, NEW p, AtLetter(line, s, p),
         NEW enabled, NEW c, NEW d, Done(line, s.optind, p, enabled, c, d)
  PROVE  Turned(line, s, ShortOption(s), enabled, c, d)
<1> DEFINE o == line[s.optind].letters[p]
<1>1. o \in WithValue \/ o \in {"l", "L", "h"} \/ o = "a" \/ IsUnknown(o)
  BY DEF IsUnknown, Flags
<1> QED
  BY <1>1, LetterNumberTurn, LetterStopTurn, LetterAllTurn, LetterUnknownTurn

-----------------------------------------------------------------------------
(* A long option.                                                          *)
LEMMA LongoptsAre ==
  /\ DOMAIN longopts = {"all", "count", "delay", "list", "load", "help"}
  /\ longopts["all"] = "a" /\ longopts["count"] = "c" /\ longopts["delay"] = "d"
  /\ longopts["list"] = "l" /\ longopts["load"] = "L" /\ longopts["help"] = "h"
BY DEF longopts

(* What LongOption returns, by the name.                                   *)
LongReading(e, r, passed) ==
  /\ e.name \in {"count", "delay"} /\ e.with = <<>> => r = ValueOf(passed, longopts[e.name])
  /\ e.name \in {"count", "delay"} /\ e.with # <<>> =>
       r = Returns(passed, longopts[e.name], atoi(e.with[1]))
  /\ e.name \in {"all", "list", "load", "help"} /\ e.with = <<>> =>
       r = Returns(passed, longopts[e.name], 0)
  /\ e.name \in {"all", "list", "load", "help"} /\ e.with # <<>> => r = Returns(passed, "?", 0)
  /\ e.name \notin DOMAIN longopts => r = Returns(passed, "?", 0)

LEMMA LongReads ==
  ASSUME NEW line \in Seq(Element), NEW s, AtOption(line, s), s.next = <<>>
  PROVE  LongReading(line[s.optind], LongOption(s), On(s, s.optind + 1, <<>>))
<1> DEFINE e == s.argv[s.optind]
           passed == [s EXCEPT !.optind = @ + 1]
           known == e.name \in DOMAIN longopts
           option == IF known THEN longopts[e.name] ELSE "?"
           r == LongOption(s)
<1>1. r = CASE option \in WithValue /\ e.with = <<>> -> ValueOf(passed, option)
            [] option \in WithValue /\ e.with # <<>> ->
                 Returns(passed, option, atoi(e.with[1]))
            [] option \in Flags /\ e.with = <<>>     -> Returns(passed, option, 0)
            [] OTHER                                 -> Returns(passed, "?", 0)
  BY DEF LongOption
<1>2. s \in Scan /\ s.optind \in s.optind .. Len(line)
  BY LineIs DEF AtOption, ArgvOK
<1>3. e = line[s.optind]
  BY <1>2 DEF AtOption, ArgvOK
<1>4. passed = On(s, s.optind + 1, <<>>)
  BY <1>2 DEF Scan, On
<1>5. /\ e.name \in {"count", "delay"} => option = longopts[e.name] /\ option \in WithValue
      /\ e.name \in {"all", "list", "load", "help"} =>
           option = longopts[e.name] /\ option \in Flags /\ option \notin WithValue
      /\ e.name \notin DOMAIN longopts => option \notin WithValue /\ option \notin Flags
  BY LongoptsAre DEF WithValue, Flags
<1> HIDE DEF e, passed, option, known, r
<1>6. /\ option \in WithValue /\ e.with = <<>> => r = ValueOf(passed, option)
      /\ option \in WithValue /\ e.with # <<>> => r = Returns(passed, option, atoi(e.with[1]))
      /\ option \notin WithValue /\ option \in Flags /\ e.with = <<>> =>
           r = Returns(passed, option, 0)
      /\ option \notin WithValue /\ (option \in Flags => e.with # <<>>) =>
           r = Returns(passed, "?", 0)
  <2>1. CASE option \in WithValue
    BY <1>1, <2>1 DEF WithValue, Flags
  <2>2. CASE option \notin WithValue
    BY <1>1, <2>2 DEF WithValue, Flags
  <2> QED
    BY <2>1, <2>2
<1>7. LongReading(e, r, passed)
  <2>1. CASE e.name \in {"count", "delay"}
    BY <1>5, <1>6, <2>1, LongoptsAre DEF LongReading
  <2>2. CASE e.name \in {"all", "list", "load", "help"}
    BY <1>5, <1>6, <2>2, LongoptsAre DEF LongReading
  <2>3. CASE e.name \notin DOMAIN longopts
    BY <1>5, <1>6, <2>3, LongoptsAre DEF LongReading
  <2> QED
    BY <2>1, <2>2, <2>3, LongoptsAre
<1> QED
  BY <1>3, <1>4, <1>7 DEF r

(* What a long option asks for.                                            *)
LEMMA LongIs ==
  ASSUME NEW line \in Seq(Element), NEW k \in 1 .. Len(line), Option(line, k),
         line[k].kind = "long"
  PROVE  /\ Letters(line, k) = {}
         /\ TakesNext(line[k]) <=> line[k].name \in {"count", "delay"} /\ line[k].with = <<>>
         /\ \A o : Gives(line, k, o) <=>
                     line[k].name \in DOMAIN longopts /\ longopts[line[k].name] = o
         /\ line[k] = Long(line[k].name, line[k].with)
         /\ \A module \in Module : Names(line[k], module) => line[k].name \notin DOMAIN longopts
<1>1. line[k] = Long(line[k].name, line[k].with)
  BY LineIs, ElementIs
<1>2. Letters(line, k) = {}
  BY LettersIn
<1>3. TakesNext(line[k]) <=> line[k].name \in {"count", "delay"} /\ line[k].with = <<>>
  BY DEF TakesNext
<1>4. \A o : At(line, k, o) = {}
  BY <1>2 DEF At
<1>5. \A o : Gives(line, k, o) <=>
               line[k].name \in DOMAIN longopts /\ longopts[line[k].name] = o
  BY <1>4 DEF Gives, LongGives
<1>6. \A module \in Module : Names(line[k], module) => line[k].name \notin DOMAIN longopts
  <2>1. \A module \in Module : Names(line[k], module) => line[k].name = module
    BY DEF Names, Long
  <2> QED
    BY <2>1, ModuleAssumption
<1> QED
  BY <1>1, <1>2, <1>3, <1>5, <1>6

(* An element done with that is a long option.                             *)
LEMMA DoneLong ==
  ASSUME NEW line \in Seq(Element), NEW k \in 1 .. Len(line), Option(line, k),
         line[k].kind = "long", ~Ends(line, k), ~Gives(line, k, "c"), ~Gives(line, k, "d"),
         NEW enabled, NEW c, NEW d, Done(line, k, 1, enabled, c, d),
         NEW on, on = Wanted(line, k + 1, 1)
  PROVE  Done(line, k + 1, 1, on, c, d)
<1>1. Len(line) \in Nat /\ k \in Nat
  BY LineIs
<1>2. \A j \in k .. (k + 1) - 1 : j = k
  BY <1>1
<1>3. k \in 1 .. Len(line) + 1 /\ k + 1 \in k .. Len(line) + 1
  BY <1>1
<1>4. LastNumber(line, k + 1, "c", -1) = LastNumber(line, k, "c", -1)
  BY <1>2, <1>3, LastOver
<1>5. LastNumber(line, k + 1, "d", 2) = LastNumber(line, k, "d", 2)
  BY <1>2, <1>3, LastOver
<1>6. \A j \in 1 .. (k + 1) - 1 : ~Ends(line, j)
  <2>1. \A j \in 1 .. (k + 1) - 1 : j = k \/ j \in 1 .. k - 1
    BY <1>1
  <2> QED
    BY <2>1 DEF Done
<1>7. k + 1 \in 1 .. Len(line) => \A q \in Letters(line, k + 1) : ~(q < 1)
  BY LettersIn
<1> QED
  BY <1>4, <1>5, <1>6, <1>7 DEF Done

LEMMA LongTurn ==
  ASSUME NEW line \in Seq(Element), NEW s, AtOption(line, s), s.next = <<>>,
         NEW k, k = s.optind, line[k].kind = "long",
         NEW enabled, NEW c, NEW d, Done(line, k, 1, enabled, c, d)
  PROVE  Turned(line, s, LongOption(s), enabled, c, d)
<1> DEFINE e == line[k]
           r == LongOption(s)
           passed == On(s, k + 1, <<>>)
<1>1. /\ k \in 1 .. Len(line) /\ k \in Nat /\ Len(line) \in Nat /\ Option(line, k)
      /\ Fresh(line, k) /\ s \in Scan /\ Len(s.argv) = Len(line)
      /\ k \in k .. Len(line)
  BY LineIs DEF AtOption, ArgvOK
<1>2. LongReading(e, r, passed)
  BY LongReads
<1>3. /\ Letters(line, k) = {}
      /\ TakesNext(e) <=> e.name \in {"count", "delay"} /\ e.with = <<>>
      /\ \A o : Gives(line, k, o) <=> e.name \in DOMAIN longopts /\ longopts[e.name] = o
      /\ e = Long(e.name, e.with)
      /\ \A module \in Module : Names(e, module) => e.name \notin DOMAIN longopts
  BY <1>1, LongIs
<1>4. s.argv[k] = e
  BY <1>1 DEF AtOption, ArgvOK
<1>5. IsOn(line, s, k + 1, <<>>, passed)
  BY PassedIs
<1>6. /\ passed \in Scan /\ passed.optind \in 1 .. Len(passed.argv) + 1
      /\ \A module : Sees(passed, module) <=> Names(e, module)
  <2>1. (k + 1) - 1 = k /\ k + 1 > 1
    BY <1>1
  <2> QED
    BY <1>1, <1>4, <1>5, <2>1 DEF IsOn, ArgvOK, Sees
<1> HIDE DEF e, r, passed
<1>7. CASE e.name \in {"count", "delay"}
  <2> DEFINE o == longopts[e.name]
  <2>1. /\ o \in WithValue /\ Gives(line, k, o) /\ \A other \in WithValue \ {o} : ~Gives(line, k, other)
        /\ e.name \in DOMAIN longopts
    BY <1>3, <1>7, LongoptsAre DEF WithValue
  <2>2. \A module \in Module : ~Calls(line, k, module)
    BY <1>3, <1>7, <2>1 DEF Calls, e, Long
  <2>3. Through(line, k, enabled, c, d)
    <3>1. Wanted(line, k + 1, 1) = Wanted(line, k, 1)
      BY <1>1, <1>3, <2>2, WantedPassed
    <3> QED
      BY <3>1 DEF Through, Done
  <2>4. (TakesNext(e) => k # Len(line)) => ~Ends(line, k)
    BY <1>3, <1>7 DEF Ends, e
  <2> HIDE DEF o
  <2>5. CASE e.with = <<>>
    <3>1. r = ValueOf(passed, o)
      BY <1>2, <1>7, <2>5 DEF LongReading, o
    <3>2. k < Len(line) => ~Ends(line, k)
      BY <1>1, <2>4
    <3>3. TakesNext(line[k])
      BY <1>3, <1>7, <2>5 DEF e
    <3>4. Turned(line, s, ValueOf(passed, o), enabled, c, d)
      BY <2>1, <2>3, <3>2, <3>3, ValueTurn DEF passed
    <3> QED
      BY <3>1, <3>4 DEF r
  <2>6. CASE e.with # <<>>
    <3>1. r = Returns(passed, o, atoi(e.with[1]))
      BY <1>2, <1>7, <2>6 DEF LongReading, o
    <3>2. ~TakesNext(line[k])
      BY <1>3, <2>6 DEF e
    <3>3. NumberGiven(line, k, o) = atoi(e.with[1])
      BY <3>2 DEF NumberGiven, e
    <3>4. Fresh(line, k + 1)
      BY <1>1, <3>2, FreshOn DEF Option
    <3>5. k + 1 \in k + 1 .. Len(line) + 1
      BY <1>1
    <3>6. \A j \in k + 1 .. (k + 1) - 1 : Roles(line)[j] = "value"
      BY <1>1
    <3>7. ~Ends(line, k)
      BY <2>4, <3>2 DEF e
    <3>8. Turned(line, s, Returns(passed, o, NumberGiven(line, k, o)), enabled, c, d)
      BY <2>1, <2>3, <3>4, <3>5, <3>6, <3>7, NumberTurn DEF passed
    <3> QED
      BY <3>1, <3>3, <3>8 DEF r
  <2> QED
    BY <2>5, <2>6
<1>8. CASE e.name = "all" /\ e.with = <<>>
  <2>1. r = Returns(passed, "a", 0)
    BY <1>2, <1>8, LongoptsAre DEF LongReading
  <2>2. ~TakesNext(line[k]) /\ ~Ends(line, k) /\ ~Gives(line, k, "c") /\ ~Gives(line, k, "d")
    BY <1>3, <1>8, LongoptsAre DEF Ends, e
  <2>3. Module = Wanted(line, k + 1, 1)
    BY <1>1, <1>3, <1>8, WantedAll DEF e
  <2>4. Done(line, k + 1, 1, Module, c, d)
    BY <1>1, <2>2, <2>3, DoneLong
  <2>5. Continues(line, s, passed, Module, c, d)
    BY <2>2, <2>4, PassTurn DEF passed
  <2> QED
    BY <2>1, <2>5 DEF Turned, Returns, r
<1>9. CASE e.name \in {"list", "load", "help"} /\ e.with = <<>>
  <2>1. r = Returns(passed, longopts[e.name], 0)
    BY <1>2, <1>9 DEF LongReading
  <2>2. Stops(line)
    <3>1. Ends(line, k)
      BY <1>1, <1>3, <1>9, LongoptsAre DEF Ends, e
    <3> QED
      BY <1>1, <3>1 DEF Stops
  <2>3. CASE e.name = "list"
    <3>1. Listed(line, enabled)
      <4>1. line[k] = Long("list", <<>>)
        BY <1>3, <1>9, <2>3 DEF e
      <4> QED
        BY <1>1, <4>1 DEF Listed, Done
    <3>2. r.opt = "l"
      BY <2>1, <2>3, LongoptsAre DEF Returns
    <3> QED
      BY <2>2, <3>1, <3>2 DEF Turned, r
  <2>4. CASE e.name # "list"
    <3>1. r.opt \in {"L", "h"}
      BY <1>9, <2>1, <2>4, LongoptsAre DEF Returns
    <3> QED
      BY <2>2, <3>1 DEF Turned, r
  <2> QED
    BY <2>3, <2>4
<1>10. CASE e.name \in {"all", "list", "load", "help"} /\ e.with # <<>>
  <2>1. r = Returns(passed, "?", 0)
    BY <1>2, <1>10 DEF LongReading
  <2>2. \A module \in Module : ~Names(e, module)
    BY <1>10 DEF Names, Long
  <2>3. Stops(line)
    <3>1. Ends(line, k)
      BY <1>1, <1>10, <2>2 DEF Ends, e
    <3> QED
      BY <1>1, <3>1 DEF Stops
  <2> QED
    BY <1>6, <2>1, <2>2, <2>3 DEF Turned, Returns, r
<1>11. CASE e.name \notin DOMAIN longopts
  <2>1. r = Returns(passed, "?", 0)
    BY <1>2, <1>11 DEF LongReading
  <2>2. r.opt = "?" /\ r.scan = passed
    BY <2>1 DEF Returns
  <2>3. ASSUME NEW module \in Module, Names(e, module)
        PROVE  Turned(line, s, r, enabled, c, d)
    <3>1. ~TakesNext(line[k]) /\ ~Gives(line, k, "c") /\ ~Gives(line, k, "d")
      BY <1>3, <1>11, LongoptsAre DEF e
    <3>2. ~Ends(line, k)
      BY <1>3, <2>3, <3>1 DEF Ends, e
    <3>3. Wanted(line, k + 1, 1) = Wanted(line, k, 1) \union {module}
      BY <1>1, <2>3, WantedNamed DEF e
    <3>4. enabled \union {module} = Wanted(line, k + 1, 1)
      BY <3>3 DEF Done
    <3>5. Done(line, k + 1, 1, enabled \union {module}, c, d)
      BY <1>1, <3>1, <3>2, <3>4, DoneLong
    <3>6. Continues(line, s, passed, enabled \union {module}, c, d)
      BY <3>1, <3>5, PassTurn DEF passed
    <3> QED
      BY <1>6, <2>2, <2>3, <3>6 DEF Turned
  <2>4. ASSUME \A module \in Module : ~Names(e, module)
        PROVE  Turned(line, s, r, enabled, c, d)
    <3>1. Ends(line, k)
      BY <1>1, <1>11, <2>4, LongoptsAre DEF Ends, e
    <3>2. Stops(line)
      BY <1>1, <3>1 DEF Stops
    <3> QED
      BY <1>6, <2>2, <2>4, <3>2 DEF Turned
  <2> QED
    BY <2>3, <2>4 DEF r
<1> QED
  BY <1>7, <1>8, <1>9, <1>10, <1>11, LongoptsAre

-----------------------------------------------------------------------------
(* One turn of the loop.                                                   *)

LEMMA TurnedFrom ==
  ASSUME NEW line, NEW s, NEW b, NEW r, NEW enabled, NEW c, NEW d,
         Turned(line, b, r, enabled, c, d),
         \A t : Further(b, t) => Further(s, t)
  PROVE  Turned(line, s, r, enabled, c, d)
BY DEF Turned, Continues

LEMMA GetoptTurn ==
  ASSUME NEW line \in Seq(Element), NEW s, NEW p, ScanOK(line, s, p),
         NEW enabled, NEW c, NEW d, Done(line, s.optind, p, enabled, c, d)
  PROVE  Turned(line, s, getopt_long(s), enabled, c, d)
<1>1. CASE s.next # <<>>
  <2>1. getopt_long(s) = ShortOption(s)
    BY <1>1 DEF getopt_long
  <2>2. /\ ArgvOK(line, s) /\ s.optind \in 1 .. Len(line) /\ p \in Letters(line, s.optind)
        /\ s.next = SubSeq(line[s.optind].letters, p, Len(line[s.optind].letters))
        /\ s.last = s.optind /\ Fresh(line, s.optind)
    BY <1>1 DEF ScanOK
  <2>3. Option(line, s.optind) /\ line[s.optind].kind = "short"
    BY <2>2, LettersIn
  <2>4. AtLetter(line, s, p)
    BY <2>2, <2>3 DEF AtLetter, AtOption
  <2> QED
    BY <2>1, <2>4, ShortTurn
<1>2. CASE s.next = <<>>
  <2> DEFINE at == NextElement(s)
             k == at.optind
  <2>1. p = 1 /\ ArgvOK(line, s) /\ Fresh(line, s.optind)
    BY <1>2 DEF ScanOK
  <2>2. \/ at.optind = argc(at) /\ Done(line, Len(line) + 1, 1, enabled, c, d)
        \/ /\ at.optind # argc(at) /\ AtOption(line, at) /\ at.next = s.next
           /\ at.optind \in s.optind .. Len(line)
           /\ Done(line, at.optind, 1, enabled, c, d)
    BY <2>1, NextElementIs
  <2>3. getopt_long(s) =
          IF at.optind = argc(at) THEN Returns(at, "end", 0)
          ELSE IF at.argv[at.optind].kind = "long" THEN LongOption(at)
          ELSE ShortOption([at EXCEPT !.next = at.argv[at.optind].letters])
    BY <1>2 DEF getopt_long
  <2> HIDE DEF at
  <2>4. CASE at.optind = argc(at)
    BY <2>2, <2>3, <2>4 DEF Turned, Returns
  <2>5. CASE at.optind # argc(at)
    <3>1. /\ AtOption(line, at) /\ at.next = <<>> /\ k \in s.optind .. Len(line)
          /\ Done(line, k, 1, enabled, c, d)
      BY <1>2, <2>2, <2>5
    <3>2. /\ k \in 1 .. Len(line) /\ line[k].kind \in {"short", "long"} /\ ArgvOK(line, at)
          /\ at \in Scan /\ Len(at.argv) = Len(line) /\ Len(line) \in Nat
          /\ k \in Nat /\ s.optind \in Nat /\ s.optind <= k
      BY <2>1, <3>1, LineIs DEF AtOption, ArgvOK, Scan
    <3>3. at.argv[k] = line[k]
      <4>1. k \in k .. Len(line)
        BY <3>2
      <4> QED
        BY <3>2, <4>1 DEF ArgvOK
    <3>4. s.optind = k => Unread(s) = Size(line[k])
      <4>1. s.optind = k => s.argv[k] = line[k] /\ Len(s.argv) = Len(line)
        BY <2>1, <3>1 DEF ArgvOK
      <4> QED
        BY <1>2, <3>2, <4>1 DEF Unread, argc
    <3>5. CASE line[k].kind = "long"
      <4>1. getopt_long(s) = LongOption(at)
        BY <2>3, <2>5, <3>3, <3>5
      <4>2. Turned(line, at, LongOption(at), enabled, c, d)
        BY <3>1, <3>5, LongTurn
      <4>3. Unread(at) = Size(line[k])
        BY <3>1, <3>2, <3>3 DEF Unread, argc
      <4>4. \A t : Further(at, t) => Further(s, t)
        <5>1. CASE s.optind = k
          BY <3>4, <4>3, <5>1 DEF Further
        <5>2. CASE s.optind # k
          <6>1. k > s.optind
            BY <3>2, <5>2
          <6> QED
            BY <3>2, <6>1 DEF Further
        <5> QED
          BY <5>1, <5>2
      <4> QED
        BY <4>1, <4>2, <4>4, TurnedFrom
    <3>6. CASE line[k].kind = "short"
      <4> DEFINE letters == line[k].letters
                 b == [at EXCEPT !.next = letters]
      <4>1. getopt_long(s) = ShortOption(b)
        BY <2>3, <2>5, <3>3, <3>6
      <4>2. letters \in Seq(STRING) /\ Len(letters) \in Nat \ {0}
        BY <3>2, <3>6, LineIs, ElementIs
      <4>3. /\ b \in Scan /\ b.argv = at.argv /\ b.optind = k /\ b.first = at.first
            /\ b.last = at.last /\ b.next = letters
        BY <3>2, <4>2 DEF Scan
      <4> HIDE DEF b
      <4>4. AtOption(line, b)
        <5>1. ArgvOK(line, b)
          BY <3>2, <4>3 DEF ArgvOK
        <5> QED
          BY <3>1, <4>3, <5>1 DEF AtOption
      <4>5. 1 \in Letters(line, k)
        <5>1. Option(line, k) /\ 1 \in DOMAIN letters
          BY <3>1, <4>2 DEF AtOption
        <5>2. IsRead(letters, 1)
          BY DEF IsRead
        <5> QED
          BY <3>6, <5>1, <5>2 DEF Letters
      <4>6. letters = SubSeq(letters, 1, Len(letters))
        BY <4>2, SubSeqFull
      <4>7. AtLetter(line, b, 1)
        BY <3>6, <4>3, <4>4, <4>5, <4>6 DEF AtLetter
      <4>8. Turned(line, b, ShortOption(b), enabled, c, d)
        BY <3>1, <4>3, <4>7, ShortTurn
      <4>9. Unread(b) = Size(line[k])
        <5>1. letters # <<>>
          BY <4>2, EmptySeq
        <5>2. b.optind # argc(b)
          BY <3>2, <4>3 DEF argc
        <5> QED
          BY <3>6, <4>3, <5>1, <5>2 DEF Unread, Size
      <4>10. \A t : Further(b, t) => Further(s, t)
        <5>1. CASE s.optind = k
          BY <3>4, <4>3, <4>9, <5>1 DEF Further
        <5>2. CASE s.optind # k
          <6>1. k > s.optind
            BY <3>2, <5>2
          <6> QED
            BY <3>2, <4>3, <6>1 DEF Further
        <5> QED
          BY <5>1, <5>2
      <4> QED
        BY <4>1, <4>8, <4>10, TurnedFrom
    <3> QED
      BY <3>2, <3>5, <3>6
  <2> QED
    BY <2>4, <2>5
<1> QED
  BY <1>1, <1>2

-----------------------------------------------------------------------------
(* The invariant: while main is in its loop it has done, and getopt_long   *)
(* has passed, all that stands before one place of the line; behind the    *)
(* loop the properties hold.                                               *)
Within ==
  \E p \in Nat : /\ ScanOK(given, scan, p)
                 /\ Done(given, scan.optind, p, enable, opt_count, opt_interval)

OptInv ==
  /\ pc \in {"options", "report", "exit"}
  /\ given \in Seq(Element)
  /\ pc = "options" => Within
  /\ EnabledAsNamed
  /\ LastNumberCounts
  /\ ListingIsOfOptionsBefore

(* What an action leaves: main in the loop, at a later place; or an exit   *)
(* for something on the line; or the end of the options.                   *)
GoesOn == /\ pc' = "options"
          /\ Continues(given, scan, scan', enable', opt_count', opt_interval')

GivesUp == /\ pc' = "exit" /\ Stops(given)
           /\ opt' = "l" => Listed(given, enable')

IsDone == /\ Done(given, End, 1, enable', opt_count', opt_interval')
          /\ is_loop' = (opt_count' <= 0)
          /\ pc' = IF enable' = {} THEN "exit" ELSE "report"
          /\ opt' = "end"

(* Each action leaves one of these.                                        *)
LEMMA EachTurn ==
  ASSUME OptInv, Next
  PROVE  UNCHANGED given /\ pc = "options" /\ (GoesOn \/ GivesUp \/ IsDone)
<1> DEFINE r == getopt_long(scan)
<1>1. pc = "options" /\ UNCHANGED given
  BY DEF Next, all, count, delay, list, load, usage, unknown, end, Case
<1>2. Turned(given, scan, r, enable, opt_count, opt_interval)
  <2>1. given \in Seq(Element) /\ Within
    BY <1>1 DEF OptInv
  <2>2. PICK p \in Nat : /\ ScanOK(given, scan, p)
                         /\ Done(given, scan.optind, p, enable, opt_count, opt_interval)
    BY <2>1 DEF Within
  <2> QED
    BY <2>1, <2>2, GetoptTurn
<1>3. \A c : Case(c) => r.opt = c /\ opt' = c /\ scan' = r.scan
  BY DEF Case
<1> HIDE DEF r
<1>4. CASE all
  <2>1. Case("a") /\ enable' = Module /\ UNCHANGED << pc, opt_count, opt_interval >>
    BY <1>4 DEF all
  <2>2. Continues(given, scan, r.scan, Module, opt_count, opt_interval)
    BY <1>2, <1>3, <2>1 DEF Turned
  <2> QED
    BY <1>1, <1>3, <2>1, <2>2 DEF GoesOn
<1>5. CASE count
  <2>1. Case("c") /\ opt_count' = r.optarg /\ UNCHANGED << pc, enable, opt_interval >>
    BY <1>5 DEF count, optarg, r
  <2>2. Continues(given, scan, r.scan, enable, r.optarg, opt_interval)
    BY <1>2, <1>3, <2>1 DEF Turned
  <2> QED
    BY <1>1, <1>3, <2>1, <2>2 DEF GoesOn
<1>6. CASE delay
  <2>1. /\ Case("d") /\ opt_interval' = Default(r.optarg)
        /\ UNCHANGED << pc, enable, opt_count >>
    BY <1>6 DEF delay, optarg, r, Default
  <2>2. Continues(given, scan, r.scan, enable, opt_count, Default(r.optarg))
    BY <1>2, <1>3, <2>1 DEF Turned
  <2> QED
    BY <1>1, <1>3, <2>1, <2>2 DEF GoesOn
<1>7. CASE list
  <2>1. Case("l") /\ pc' = "exit" /\ UNCHANGED enable
    BY <1>7 DEF list, Exits
  <2>2. Stops(given) /\ Listed(given, enable)
    BY <1>2, <1>3, <2>1 DEF Turned
  <2> QED
    BY <1>1, <2>1, <2>2 DEF GivesUp
<1>8. CASE load \/ usage
  <2>1. \E c \in {"L", "h", ":"} : Case(c) /\ pc' = "exit"
    BY <1>8 DEF load, usage, Exits
  <2>2. Stops(given) /\ opt' # "l"
    BY <1>2, <1>3, <2>1 DEF Turned
  <2> QED
    BY <1>1, <2>1, <2>2 DEF GivesUp
<1>9. CASE unknown
  <2> DEFINE i == scan'.optind - 1
             e == scan'.argv[i]
  <2>1. Case("?") /\ scan' = r.scan /\ opt' = "?"
    BY <1>3, <1>9 DEF unknown
  <2>2. /\ scan' \in Scan /\ scan'.optind \in 1 .. Len(scan'.argv) + 1
        /\ \/ \E module \in Module :
                /\ Sees(scan', module)
                /\ Continues(given, scan, scan', enable \union {module}, opt_count, opt_interval)
           \/ (\A module \in Module : ~Sees(scan', module)) /\ Stops(given)
    BY <1>2, <1>3, <2>1 DEF Turned
  <2>3. IF i > 0 /\ e.kind \in {"long", "--"} THEN enable_module(e) ELSE Exits
    BY <1>9 DEF unknown
  <2>4. i > 0 <=> scan'.optind > 1
    BY <2>2 DEF Scan
  <2>5. CASE \E module \in Module : Sees(scan', module)
    <3>1. PICK module \in Module :
             /\ Sees(scan', module)
             /\ Continues(given, scan, scan', enable \union {module}, opt_count, opt_interval)
      BY <2>2, <2>5
    <3>2. i > 0 /\ e = Long(module, <<>>)
      BY <2>4, <3>1 DEF Sees, Names
    <3>3. e.kind = "long" /\ e.with = <<>> /\ e.name = module
      BY <3>2 DEF Long
    <3> HIDE DEF i, e
    <3>4. enable_module(e)
      BY <2>3, <3>2, <3>3
    <3>5. enable' = enable \union {module} /\ UNCHANGED << pc, opt_count, opt_interval >>
      BY <3>3, <3>4 DEF enable_module
    <3> QED
      BY <1>1, <3>1, <3>5 DEF GoesOn
  <2>6. CASE \A module \in Module : ~Sees(scan', module)
    <3>1. Exits
      <4>1. CASE i > 0 /\ e.kind \in {"long", "--"}
        <5>1. e \in Element
          <6>1. i \in 1 .. Len(scan'.argv) /\ scan'.argv \in Seq(Element)
            BY <2>2, <4>1 DEF Scan
          <6> QED
            BY <6>1, ElementOfSeq
        <5>2. ~(e.kind = "long" /\ e.with = <<>> /\ e.name \in Module)
          <6> SUFFICES ASSUME e.kind = "long", e.with = <<>>, e.name \in Module PROVE FALSE
            OBVIOUS
          <6>1. e = Long(e.name, e.with)
            BY <5>1, ElementIs
          <6>2. Names(e, e.name)
            BY <6>1 DEF Names
          <6>3. Sees(scan', e.name)
            BY <2>4, <4>1, <6>2 DEF Sees
          <6> QED
            BY <2>6, <6>3
        <5>3. enable_module(e)
          BY <2>3, <4>1
        <5> HIDE DEF e
        <5> QED
          BY <5>2, <5>3 DEF enable_module
      <4>2. CASE ~(i > 0 /\ e.kind \in {"long", "--"})
        BY <2>3, <4>2
      <4> QED
        BY <4>1, <4>2
    <3>2. Stops(given)
      BY <2>2, <2>6
    <3> QED
      BY <1>1, <2>1, <3>1, <3>2 DEF GivesUp, Exits
  <2> QED
    BY <1>1, <2>5, <2>6
<1>10. CASE end
  <2>1. /\ Case("end") /\ is_loop' = (opt_count <= 0)
        /\ pc' = IF enable = {} THEN "exit" ELSE "report"
        /\ UNCHANGED << enable, opt_count, opt_interval >>
    BY <1>10 DEF end
  <2>2. Done(given, End, 1, enable, opt_count, opt_interval)
    BY <1>2, <1>3, <2>1 DEF Turned, End
  <2>3. /\ enable' = enable /\ opt_count' = opt_count /\ opt_interval' = opt_interval
        /\ opt' = "end"
    BY <1>3, <2>1
  <2>4. /\ is_loop' = (opt_count' <= 0)
        /\ pc' = IF enable' = {} THEN "exit" ELSE "report"
    BY <2>1, <2>3
  <2>5. Done(given, End, 1, enable', opt_count', opt_interval')
    BY <2>2, <2>3, Zenon
  <2> QED
    BY <1>1, <2>3, <2>4, <2>5, Zenon DEF IsDone
<1> QED
  BY <1>4, <1>5, <1>6, <1>7, <1>8, <1>9, <1>10 DEF Next

(* In front of the line nothing is done.                                   *)
LEMMA InitWithin ==
  ASSUME Init
  PROVE  given \in Seq(Element) /\ Within
<1>1. given \in Seq(Element)
  <2>1. PICK n \in 0 .. MaxArgs : given \in [1 .. n -> Element]
    BY DEF Init
  <2>2. n \in Nat
    BY ElementAssumption
  <2> QED
    BY <2>1, <2>2
<1>2. scan = [argv |-> given, optind |-> 1, first |-> 1, last |-> 1, next |-> <<>>]
      /\ enable = {} /\ opt_count = -1 /\ opt_interval = 2
  BY DEF Init
<1>3. scan \in Scan /\ scan.argv = given /\ scan.optind = 1 /\ scan.first = 1 /\ scan.last = 1
      /\ scan.next = <<>>
  BY <1>1, <1>2, EmptySeq DEF Scan
<1>4. ScanOK(given, scan, 1)
  <2>1. Len(given) \in Nat
    BY <1>1
  <2>2. ArgvOK(given, scan)
    BY <1>3, <2>1 DEF ArgvOK
  <2> QED
    BY <1>3, <2>2 DEF ScanOK, Fresh
<1>5. Done(given, 1, 1, {}, -1, 2)
  <2>1. \A module : module \notin Wanted(given, 1, 1)
    <3>1. \A j \in 1 .. Len(given) : \A q \in Letters(given, j) : q \in Nat \ {0}
      BY <1>1, LettersIn
    <3>2. \A j \in 1 .. Len(given) : \A q \in Letters(given, j) : ~(j < 1 \/ (j = 1 /\ q < 1))
      BY <1>1, <3>1
    <3> QED
      BY <1>1, <3>2, WantedIs
  <2>2. LastNumber(given, 1, "c", -1) = -1 /\ LastNumber(given, 1, "d", 2) = 2
    BY DEF LastNumber
  <2>3. Default(2) = 2
    BY DEF Default
  <2>4. 1 \in 1 .. Len(given) => \A q \in Letters(given, 1) : ~(q < 1)
    BY <1>1, LettersIn
  <2> QED
    BY <2>1, <2>2, <2>3, <2>4 DEF Done
<1> QED
  BY <1>1, <1>2, <1>3, <1>4, <1>5 DEF Within

(* The numbers behind the last option, whatever stands for none.           *)
LEMMA NoneIsEndless ==
  ASSUME NEW line, NEW k
  PROVE  (LastNumber(line, k, "c", -1) <= 0) <=> (LastNumber(line, k, "c", 0) <= 0)
BY DEF LastNumber

LEMMA OptInvStep ==
  ASSUME OptInv, [Next]_vars
  PROVE  OptInv'
<1>1. CASE UNCHANGED vars
  BY <1>1 DEF vars, OptInv, Within, EnabledAsNamed, LastNumberCounts, ListingIsOfOptionsBefore, End
<1>2. CASE Next
  <2>1. given' = given /\ given \in Seq(Element) /\ (GoesOn \/ GivesUp \/ IsDone)
        /\ End' = End /\ DOMAIN given = 1 .. Len(given)
    BY <1>2, EachTurn DEF OptInv, End
  <2>2. CASE GoesOn
    <3>1. Within'
      BY <2>1, <2>2 DEF GoesOn, Continues, Within
    <3> QED
      BY <2>1, <2>2, <3>1
         DEF GoesOn, OptInv, EnabledAsNamed, LastNumberCounts, ListingIsOfOptionsBefore
  <2>3. CASE GivesUp
    <3>1. EnabledAsNamed'
      BY <2>1, <2>3 DEF GivesUp, Stops, EnabledAsNamed
    <3>2. ListingIsOfOptionsBefore'
      BY <2>1, <2>3 DEF GivesUp, Listed, ListingIsOfOptionsBefore
    <3> QED
      BY <2>1, <2>3, <3>1, <3>2 DEF GivesUp, OptInv, LastNumberCounts
  <2>4. CASE IsDone
    <3>1. Done(given, End, 1, enable', opt_count', opt_interval')
          /\ is_loop' = (opt_count' <= 0)
          /\ pc' = (IF enable' = {} THEN "exit" ELSE "report")
          /\ opt' = "end"
      BY <2>4, Zenon DEF IsDone
    <3>2. EnabledAsNamed'
      <4>1. enable' = Wanted(given, End, 1) /\ \A k \in DOMAIN given : ~Ends(given, k)
        <5>1. \A k \in 1 .. Len(given) : k \in 1 .. End - 1
          BY <2>1, LineIs DEF End
        <5> QED
          BY <2>1, <3>1, <5>1 DEF Done
      <4> QED
        BY <2>1, <3>1, <4>1 DEF EnabledAsNamed
    <3>3. LastNumberCounts'
      <4>1. /\ opt_count' = LastNumber(given, End, "c", -1)
            /\ opt_interval' = Default(LastNumber(given, End, "d", 2))
        BY <3>1 DEF Done
      <4>2. is_loop' <=> LastNumber(given, End, "c", 0) <= 0
        BY <3>1, <4>1, NoneIsEndless
      <4> QED
        BY <2>1, <4>1, <4>2 DEF LastNumberCounts, Default
    <3>4. ListingIsOfOptionsBefore'
      BY <3>1 DEF ListingIsOfOptionsBefore
    <3> QED
      BY <2>1, <3>1, <3>2, <3>3, <3>4 DEF OptInv
  <2> QED
    BY <2>1, <2>2, <2>3, <2>4
<1> QED
  BY <1>1, <1>2

(* In every turn of main's loop, what it has enabled and counted is what   *)
(* the line asks for in front of one place of it, which getopt_long has    *)
(* come to (tool_zsr.c:129-169), whatever it has moved.                    *)
THEOREM OptionsInvariant == Spec => []OptInv
<1>1. Init => OptInv
  <2> SUFFICES ASSUME Init PROVE OptInv
    OBVIOUS
  <2>1. pc = "options"
    BY DEF Init
  <2> QED
    BY <2>1, InitWithin DEF OptInv, EnabledAsNamed, LastNumberCounts, ListingIsOfOptionsBefore
<1>2. OptInv /\ [Next]_vars => OptInv'
  BY OptInvStep
<1> QED
  BY <1>1, <1>2, PTL DEF Spec

(* The modules reported on are those that the command line names, and the  *)
(* program reports on them unless something on the line ends it            *)
(* (tool_zsr.c:158-161): for every line, of whatever elements.             *)
THEOREM ModulesAsNamed == Spec => []EnabledAsNamed
<1>1. OptInv => EnabledAsNamed
  BY DEF OptInv
<1> QED
  BY <1>1, OptionsInvariant, PTL

(* The count and the interval are the last ones given                      *)
(* (tool_zsr.c:137-140, 171).                                              *)
THEOREM LastNumbersCount == Spec => []LastNumberCounts
<1>1. OptInv => LastNumberCounts
  BY DEF OptInv
<1> QED
  BY <1>1, OptionsInvariant, PTL

(* -l shows the modules wanted before it (tool_zsr.c:142-145).             *)
THEOREM ListsOptionsBefore == Spec => []ListingIsOfOptionsBefore
<1>1. OptInv => ListingIsOfOptionsBefore
  BY DEF OptInv
<1> QED
  BY <1>1, OptionsInvariant, PTL

(* Every turn of the loop reads on (tool_zsr.c:129-169).                   *)
THEOREM LoopReadsOn == Spec => ReadsOn
<1> DEFINE Reads == pc' = "options" =>
              /\ scan'.optind <= End
              /\ \/ scan'.optind > scan.optind
                 \/ scan'.optind = scan.optind /\ Unread(scan') < Unread(scan)
<1>1. OptInv /\ [Next]_vars => [Reads]_vars
  <2> SUFFICES ASSUME OptInv, Next, pc' = "options"
               PROVE  Reads
    OBVIOUS
  <2>1. GoesOn /\ given' = given
    BY EachTurn DEF GivesUp, IsDone
  <2>2. Further(scan, scan') /\ ArgvOK(given, scan')
    BY <2>1 DEF GoesOn, Continues, ScanOK
  <2>3. scan'.optind <= End
    <3>1. Len(given) \in Nat
      BY DEF OptInv
    <3> QED
      BY <2>2, <3>1 DEF ArgvOK, End
  <2> QED
    BY <2>2, <2>3 DEF Further
<1> QED
  BY <1>1, OptionsInvariant, PTL DEF Spec, ReadsOn

=============================================================================
