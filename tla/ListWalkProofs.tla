---------------------------- MODULE ListWalkProofs ----------------------------
(***************************************************************************)
(* Lemmas about walks along the pointers of ListHead: where each pointer   *)
(* undoes the other, a walk comes back to its start, as there are finitely *)
(* many nodes, and what it meets is the only sequence the pointers chain.  *)
(* Then lemmas about the sequences ListSpec makes of its lists, node by    *)
(* node.  Induction is on sets: a set of numbers that is not empty has a   *)
(* least element.                                                          *)
(***************************************************************************)
EXTENDS ListHead, FiniteSetTheorems, SequenceTheorems, TLAPS

(* A set of numbers that is not empty has a least one.                     *)
LEMMA LeastOfSome ==
  ASSUME NEW S, S \subseteq Nat, S # {}
  PROVE  \E m \in S : \A i \in S : m <= i
<1> DEFINE R == OpToRel(<, Nat)
<1>1. IsWellFoundedOn(R, Nat)
  BY NatLessThanWellFounded, Zenon
<1>2. \A i, j \in Nat : i < j => <<i, j>> \in R
  BY DEF OpToRel
<1> HIDE DEF R
<1>3. \E m \in S : \A i \in S : ~(<<i, m>> \in R)
  BY <1>1, WFMin, Zenon
<1>4. PICK m \in S : \A i \in S : ~(<<i, m>> \in R)
  BY <1>3
<1>5. \A i \in S : ~(i < m)
  BY <1>2, <1>4
<1> QED
  BY <1>5

(* What holds of 0 and is passed on up to n holds up to n.                 *)
LEMMA ByInduction ==
  ASSUME NEW A, NEW n \in Nat, 0 \in A, \A k \in 0 .. n - 1 : k \in A => k + 1 \in A
  PROVE  0 .. n \subseteq A
<1> SUFFICES ASSUME NEW b \in 0 .. n, b \notin A
             PROVE  FALSE
  OBVIOUS
<1> DEFINE S == (0 .. n) \ A
<1>1. S \subseteq Nat /\ S # {}
  OBVIOUS
<1>2. PICK m \in S : \A k \in S : m <= k
  BY <1>1, LeastOfSome
<1>3. m - 1 \in 0 .. n - 1 /\ m - 1 \in A
  BY <1>2
<1> QED
  BY <1>2, <1>3

(* The steps of a walk along field from n.                                 *)
Stepped(at, field, n, N) ==
  /\ at = [k \in 0 .. N |-> at[k]]
  /\ at[0] = n
  /\ \A k \in 0 .. N - 1 :
       at[k + 1] = IF at[k] = NULL THEN NULL ELSE field[at[k]]

(* There are such steps.                                                   *)
LEMMA StepsExist ==
  ASSUME NEW field, NEW n, NEW N \in Nat
  PROVE  \E at : Stepped(at, field, n, N)
<1> DEFINE A == {j \in Nat : \E at : Stepped(at, field, n, j)}
<1>1. 0 \in A
  <2>1. Stepped([k \in 0 .. 0 |-> n], field, n, 0)
    BY DEF Stepped
  <2> QED
    BY <2>1
<1>2. ASSUME NEW j \in 0 .. N - 1, j \in A
      PROVE  j + 1 \in A
  <2>1. PICK at : Stepped(at, field, n, j)
    BY <1>2
  <2> DEFINE last == IF at[j] = NULL THEN NULL ELSE field[at[j]]
             on == [k \in 0 .. j + 1 |-> IF k <= j THEN at[k] ELSE last]
  <2>2. /\ \A k \in 0 .. j : on[k] = at[k]
        /\ on[j + 1] = last
        /\ DOMAIN on = 0 .. j + 1
    OBVIOUS
  <2>3. on = [k \in 0 .. j + 1 |-> on[k]]
    OBVIOUS
  <2> HIDE DEF on, last
  <2>4. on[0] = n
    BY <2>1, <2>2 DEF Stepped
  <2>5. \A k \in 0 .. j : on[k + 1] = IF on[k] = NULL THEN NULL ELSE field[on[k]]
    <3> SUFFICES ASSUME NEW k \in 0 .. j
                 PROVE  on[k + 1] = IF on[k] = NULL THEN NULL ELSE field[on[k]]
      OBVIOUS
    <3>1. CASE k = j
      BY <2>2, <3>1 DEF last
    <3>2. CASE k # j
      <4>1. k \in 0 .. j - 1 /\ k + 1 \in 0 .. j
        BY <3>2
      <4> QED
        BY <2>1, <2>2, <4>1 DEF Stepped
    <3> QED
      BY <3>1, <3>2
  <2>6. (j + 1) - 1 = j /\ j + 1 \in Nat
    OBVIOUS
  <2>7. Stepped(on, field, n, j + 1)
    BY <2>3, <2>4, <2>5, <2>6 DEF Stepped
  <2> QED
    BY <2>6, <2>7
<1> HIDE DEF A
<1>3. N \in A
  BY <1>1, <1>2, ByInduction
<1> QED
  BY <1>3 DEF A

(* Only these.                                                             *)
LEMMA StepsUnique ==
  ASSUME NEW field, NEW n, NEW N \in Nat, NEW f, NEW g,
         Stepped(f, field, n, N), Stepped(g, field, n, N)
  PROVE  f = g
<1> DEFINE A == {k \in 0 .. N : f[k] = g[k]}
<1>1. 0 \in A
  BY DEF Stepped
<1>2. ASSUME NEW k \in 0 .. N - 1, k \in A
      PROVE  k + 1 \in A
  <2>1. f[k] = g[k] /\ k + 1 \in 0 .. N
    BY <1>2
  <2>2. f[k + 1] = g[k + 1]
    BY <2>1 DEF Stepped
  <2> QED
    BY <2>1, <2>2
<1> HIDE DEF A
<1>3. 0 .. N \subseteq A
  BY <1>1, <1>2, ByInduction
<1>4. \A k \in 0 .. N : f[k] = g[k]
  BY <1>3 DEF A
<1> QED
  BY <1>4 DEF Stepped

(* What of them a walk keeps.                                              *)
Back(at, n) == {k \in 1 .. Cardinality(Node) : at[k] = n}

UntilBack(at, n) ==
  IF Back(at, n) = {} THEN <<NULL>> ELSE [k \in 1 .. Min(Back(at, n)) - 1 |-> at[k]]

(* A walk is its steps up to the first that is back.                       *)
LEMMA WalkUnfolds ==
  ASSUME NEW field, NEW n, NEW at, Cardinality(Node) \in Nat,
         Stepped(at, field, n, Cardinality(Node))
  PROVE  Walk(field, n) = UntilBack(at, n)
<1> DEFINE N == Cardinality(Node)
           rec(f) == f = [k \in 0 .. N |->
                           IF k = 0 THEN n
                           ELSE IF f[k - 1] = NULL THEN NULL ELSE field[f[k - 1]]]
<1>1. \A f : rec(f) => Stepped(f, field, n, N)
  <2> SUFFICES ASSUME NEW f, rec(f) PROVE Stepped(f, field, n, N)
    OBVIOUS
  <2>1. \A k \in 0 .. N : f[k] = IF k = 0 THEN n
                                 ELSE IF f[k - 1] = NULL THEN NULL ELSE field[f[k - 1]]
    OBVIOUS
  <2>2. DOMAIN f = 0 .. N /\ f = [k \in DOMAIN f |-> f[k]]
    OBVIOUS
  <2>3. N \in Nat
    OBVIOUS
  <2> HIDE DEF N, rec
  <2>4. \A k \in 0 .. N - 1 : k + 1 \in 0 .. N /\ k + 1 # 0 /\ (k + 1) - 1 = k
    BY <2>3
  <2> QED
    BY <2>1, <2>2, <2>3, <2>4 DEF Stepped
<1>2. rec(at)
  <2> HIDE DEF N
  <2>1. N \in Nat /\ Stepped(at, field, n, N)
    BY DEF N
  <2>2. \A k \in 0 .. N : k # 0 => k - 1 \in 0 .. N - 1 /\ (k - 1) + 1 = k
    BY <2>1
  <2>3. \A k \in 0 .. N : at[k] = IF k = 0 THEN n
                                  ELSE IF at[k - 1] = NULL THEN NULL ELSE field[at[k - 1]]
    BY <2>1, <2>2 DEF Stepped
  <2> QED
    BY <2>1, <2>3 DEF Stepped
<1>3. at = CHOOSE f : rec(f)
  <2>1. \A f : rec(f) => f = at
    <3> HIDE DEF rec, N
    <3> QED
      BY <1>1, StepsUnique DEF N
  <2> HIDE DEF rec
  <2> QED
    BY <1>2, <2>1
<1> QED
  BY <1>3 DEF Walk, UntilBack, Back

-----------------------------------------------------------------------------
(* Each of f and b leads back where the other came from.                   *)
Inverts(f, b, L) ==
  \A n \in L : /\ f[n] \in L /\ b[f[n]] = n
               /\ b[n] \in L /\ f[b[n]] = n

(* s is what a walk from h meets before it is back.                        *)
Nth(h, s, k) == IF k \in DOMAIN s THEN s[k] ELSE h

Chain(f, h, s) ==
  /\ s \in Seq(Node \ {h})
  /\ \A k \in 0 .. Len(s) : f[Nth(h, s, k)] = Nth(h, s, k + 1)

(* There are finitely many nodes.                                          *)
LEMMA NodesFinite == IsFiniteSet(Node) /\ Cardinality(Node) \in Nat
BY NodeAssumption, FS_Union, FS_CardinalityType DEF Node

(* Steps in a ring stay in it.                                             *)
LEMMA StepsIn ==
  ASSUME NEW f, NEW b, NEW L \in SUBSET Node, Inverts(f, b, L), NEW h \in L,
         NEW N \in Nat, NEW at, Stepped(at, f, h, N)
  PROVE  /\ \A k \in 0 .. N : at[k] \in L
         /\ \A k \in 0 .. N - 1 : at[k + 1] = f[at[k]]
<1> DEFINE A == {k \in 0 .. N : at[k] \in L}
<1>1. NULL \notin L
  BY NodeAssumption
<1>2. 0 \in A
  BY DEF Stepped
<1>3. ASSUME NEW k \in 0 .. N - 1, k \in A
      PROVE  k + 1 \in A
  <2>1. at[k] \in L /\ k + 1 \in 0 .. N
    BY <1>3
  <2>2. at[k + 1] = f[at[k]]
    BY <1>1, <2>1 DEF Stepped
  <2> QED
    BY <2>1, <2>2 DEF Inverts
<1> HIDE DEF A
<1>4. 0 .. N \subseteq A
  BY <1>2, <1>3, ByInduction
<1>5. \A k \in 0 .. N : at[k] \in L
  BY <1>4 DEF A
<1>6. \A k \in 0 .. N - 1 : at[k + 1] = f[at[k]]
  <2> SUFFICES ASSUME NEW k \in 0 .. N - 1 PROVE at[k + 1] = f[at[k]]
    OBVIOUS
  <2>1. at[k] # NULL
    BY <1>1, <1>5
  <2> QED
    BY <2>1 DEF Stepped
<1> QED
  BY <1>5, <1>6

(* There are not nodes enough never to come back.                          *)
LEMMA ComesBack ==
  ASSUME NEW f, NEW b, NEW L \in SUBSET Node, Inverts(f, b, L), NEW h \in L,
         NEW at, Stepped(at, f, h, Cardinality(Node))
  PROVE  \E k \in 1 .. Cardinality(Node) : at[k] = h
<1> DEFINE N == Cardinality(Node)
<1>1. N \in Nat /\ IsFiniteSet(Node)
  BY NodesFinite
<1>2. /\ \A k \in 0 .. N : at[k] \in L
      /\ \A k \in 0 .. N - 1 : at[k + 1] = f[at[k]]
      /\ at[0] = h
  <2>1. Stepped(at, f, h, N)
    OBVIOUS
  <2> HIDE DEF N
  <2>2. /\ \A k \in 0 .. N : at[k] \in L
        /\ \A k \in 0 .. N - 1 : at[k + 1] = f[at[k]]
    BY <1>1, <2>1, StepsIn
  <2> QED
    BY <2>1, <2>2 DEF Stepped
<1> DEFINE twice == {i \in 0 .. N : \E j \in 0 .. N : i < j /\ at[i] = at[j]}
<1>3. twice # {}
  <2> DEFINE visit == [k \in 0 .. N |-> at[k]]
  <2>1. IsFiniteSet(0 .. N) /\ Cardinality(0 .. N) = N + 1
    <3> HIDE DEF N
    <3>1. 0 \in Int /\ N \in Int /\ ~(0 > N) /\ N - 0 + 1 = N + 1
      BY <1>1
    <3> QED
      BY <3>1, FS_Interval
  <2>2. visit \in [0 .. N -> Node]
    BY <1>2
  <2>3. Cardinality(Node) < Cardinality(0 .. N)
    BY <1>1, <2>1
  <2> HIDE DEF N, visit
  <2>4. PICK i, j \in 0 .. N : i # j /\ visit[i] = visit[j]
    BY <1>1, <2>1, <2>2, <2>3, FS_PigeonHole
  <2>5. at[i] = at[j]
    BY <2>4 DEF visit
  <2>6. i < j \/ j < i
    BY <1>1, <2>4
  <2> QED
    BY <2>5, <2>6
<1>4. PICK i \in twice : \A k \in twice : i <= k
  <2>1. twice \subseteq Nat
    OBVIOUS
  <2> HIDE DEF twice
  <2> QED
    BY <1>3, <2>1, LeastOfSome
<1>5. PICK j \in 0 .. N : i < j /\ at[i] = at[j]
  OBVIOUS
<1>6. i = 0
  <2> SUFFICES ASSUME i # 0 PROVE FALSE
    OBVIOUS
  <2> HIDE DEF N
  <2>1. /\ i - 1 \in 0 .. N - 1 /\ j - 1 \in 0 .. N - 1
        /\ (i - 1) + 1 = i /\ (j - 1) + 1 = j /\ i - 1 < j - 1
        /\ i - 1 \in 0 .. N /\ j - 1 \in 0 .. N
    BY <1>1, <1>5
  <2>2. at[i] = f[at[i - 1]] /\ at[j] = f[at[j - 1]]
    BY <1>2, <2>1
  <2>3. at[i - 1] = at[j - 1]
    <3>1. at[i - 1] \in L /\ at[j - 1] \in L
      BY <1>2, <2>1
    <3>2. b[f[at[i - 1]]] = at[i - 1] /\ b[f[at[j - 1]]] = at[j - 1]
      BY <3>1 DEF Inverts
    <3> QED
      BY <1>5, <2>2, <3>2
  <2>4. i - 1 \in twice
    BY <2>1, <2>3
  <2> QED
    BY <1>1, <1>4, <2>4
<1> QED
  BY <1>1, <1>2, <1>5, <1>6

(* The walk is the chain of the nodes in the ring of h.                    *)
LEMMA WalkIsChain ==
  ASSUME NEW f, NEW b, NEW L \in SUBSET Node, Inverts(f, b, L), NEW h \in L
  PROVE  /\ Chain(f, h, Walk(f, h))
         /\ Walk(f, h) \in Seq(L \ {h})
<1> DEFINE N == Cardinality(Node)
           w == Walk(f, h)
<1>1. N \in Nat
  BY NodesFinite
<1>2. PICK at : Stepped(at, f, h, N)
  <2> HIDE DEF N
  <2> QED
    BY <1>1, StepsExist
<1> DEFINE back == {k \in 1 .. N : at[k] = h}
<1>3. w = IF back = {} THEN <<NULL>> ELSE [k \in 1 .. Min(back) - 1 |-> at[k]]
  <2>1. Cardinality(Node) \in Nat /\ Stepped(at, f, h, Cardinality(Node))
    BY <1>1, <1>2
  <2>2. Walk(f, h) = UntilBack(at, h)
    BY <2>1, WalkUnfolds
  <2> QED
    BY <2>2 DEF UntilBack, Back
<1>4. /\ \A k \in 0 .. N : at[k] \in L
      /\ \A k \in 0 .. N - 1 : at[k + 1] = f[at[k]]
      /\ at[0] = h
  <2> HIDE DEF N
  <2>1. /\ \A k \in 0 .. N : at[k] \in L
        /\ \A k \in 0 .. N - 1 : at[k + 1] = f[at[k]]
    BY <1>1, <1>2, StepsIn
  <2> QED
    BY <1>2, <2>1 DEF Stepped
<1>5. back # {} /\ back \subseteq Nat
  BY <1>2, ComesBack
<1> DEFINE p == Min(back)
<1>6. p \in back /\ \A k \in back : p <= k
  <2> HIDE DEF back
  <2>1. \E m \in back : \A k \in back : m <= k
    BY <1>5, LeastOfSome
  <2> QED
    BY <2>1 DEF Min
<1> HIDE DEF p, N
<1>7. p \in 1 .. N /\ at[p] = h /\ \A k \in 1 .. p - 1 : at[k] # h
  <2>1. p \in 1 .. N /\ at[p] = h
    BY <1>6
  <2>2. \A k \in 1 .. p - 1 : k \in 1 .. N /\ ~(p <= k)
    BY <1>1, <2>1
  <2> QED
    BY <1>6, <2>1, <2>2
<1>8. w = [k \in 1 .. p - 1 |-> at[k]]
  BY <1>3, <1>5 DEF p
<1> HIDE DEF w, back
<1>9. \A k \in 1 .. p - 1 : at[k] \in L \ {h}
  BY <1>1, <1>4, <1>7
<1>10. p - 1 \in Nat
  BY <1>1, <1>7
<1>11. w \in Seq(L \ {h}) /\ Len(w) = p - 1 /\ DOMAIN w = 1 .. p - 1
  BY <1>8, <1>9, <1>10
<1>12. \A k \in 0 .. p : Nth(h, w, k) = at[k]
  BY <1>1, <1>4, <1>7, <1>8, <1>11 DEF Nth
<1>13. \A k \in 0 .. Len(w) : k \in 0 .. p /\ k + 1 \in 0 .. p /\ k \in 0 .. N - 1
  BY <1>1, <1>7, <1>11
<1>14. \A k \in 0 .. Len(w) : f[Nth(h, w, k)] = Nth(h, w, k + 1)
  BY <1>4, <1>12, <1>13
<1>15. w \in Seq(Node \ {h})
  <2>1. DOMAIN w = 1 .. Len(w) /\ \A k \in 1 .. Len(w) : w[k] \in Node \ {h}
    BY <1>8, <1>9, <1>11
  <2> QED
    BY <1>8, <1>10, <1>9
<1> QED
  BY <1>11, <1>14, <1>15 DEF Chain, w

(* There is one chain only.                                                *)
LEMMA ChainUnique ==
  ASSUME NEW f, NEW h, NEW s, NEW t, Chain(f, h, s), Chain(f, h, t)
  PROVE  s = t
<1> DEFINE S == Len(s)
           T == Len(t)
<1>1. /\ s \in Seq(Node \ {h}) /\ t \in Seq(Node \ {h})
      /\ \A k \in 0 .. S : f[Nth(h, s, k)] = Nth(h, s, k + 1)
      /\ \A k \in 0 .. T : f[Nth(h, t, k)] = Nth(h, t, k + 1)
  BY DEF Chain
<1>2. /\ S \in Nat /\ DOMAIN s = 1 .. S /\ \A k \in 1 .. S : s[k] # h
      /\ T \in Nat /\ DOMAIN t = 1 .. T /\ \A k \in 1 .. T : t[k] # h
      /\ (S = T /\ (\A k \in 1 .. S : s[k] = t[k]) => s = t)
  BY <1>1
<1> HIDE DEF S, T
<1>3. PICK n \in Nat : n <= S /\ n <= T /\ (n = S \/ n = T)
  <2>1. S <= T \/ T <= S
    BY <1>2
  <2> QED
    BY <1>2, <2>1
<1> DEFINE A == {k \in 0 .. n + 1 : Nth(h, s, k) = Nth(h, t, k)}
<1>4. 0 \in A
  <2>1. 0 \in 0 .. n + 1 /\ 0 \notin 1 .. S /\ 0 \notin 1 .. T
    BY <1>2, <1>3
  <2> QED
    BY <1>2, <2>1 DEF Nth
<1>5. ASSUME NEW k \in 0 .. (n + 1) - 1, k \in A
      PROVE  k + 1 \in A
  <2>1. k \in 0 .. S /\ k \in 0 .. T /\ k + 1 \in 0 .. n + 1
    BY <1>2, <1>3
  <2>2. Nth(h, s, k) = Nth(h, t, k)
    BY <1>5
  <2>3. Nth(h, s, k + 1) = Nth(h, t, k + 1)
    BY <1>1, <2>1, <2>2
  <2> QED
    BY <2>1, <2>3
<1> HIDE DEF A
<1>6. \A k \in 0 .. n + 1 : Nth(h, s, k) = Nth(h, t, k)
  <2>1. n + 1 \in Nat
    BY <1>3
  <2>2. 0 .. n + 1 \subseteq A
    BY <1>4, <1>5, <2>1, ByInduction
  <2> QED
    BY <2>2 DEF A
<1>7. Nth(h, s, n + 1) = Nth(h, t, n + 1)
  <2>1. n + 1 \in 0 .. n + 1
    BY <1>3
  <2> QED
    BY <1>6, <2>1
<1>8. S = n
  <2> SUFFICES ASSUME S # n PROVE FALSE
    OBVIOUS
  <2>1. n + 1 \in 1 .. S /\ n + 1 \notin 1 .. T
    BY <1>2, <1>3
  <2> QED
    BY <1>2, <1>7, <2>1 DEF Nth
<1>9. T = n
  <2> SUFFICES ASSUME T # n PROVE FALSE
    OBVIOUS
  <2>1. n + 1 \in 1 .. T /\ n + 1 \notin 1 .. S
    BY <1>2, <1>3
  <2> QED
    BY <1>2, <1>7, <2>1 DEF Nth
<1>10. \A k \in 1 .. n : s[k] = t[k]
  <2> SUFFICES ASSUME NEW k \in 1 .. n PROVE s[k] = t[k]
    OBVIOUS
  <2>1. k \in 0 .. n + 1 /\ k \in 1 .. S /\ k \in 1 .. T
    BY <1>8, <1>9
  <2> QED
    BY <1>2, <1>6, <2>1 DEF Nth
<1> QED
  BY <1>2, <1>8, <1>9, <1>10

(* So what chains from h back to h is what a walk meets.                   *)
LEMMA ChainIsWalk ==
  ASSUME NEW f, NEW b, NEW L \in SUBSET Node, Inverts(f, b, L), NEW h \in L,
         NEW s, Chain(f, h, s)
  PROVE  Walk(f, h) = s
BY WalkIsChain, ChainUnique

(* The other way round a list is met in the opposite order.                *)
LEMMA Backwards ==
  ASSUME NEW f, NEW b, NEW L \in SUBSET Node, Inverts(f, b, L), NEW h \in L,
         NEW w, w = Walk(f, h)
  PROVE  Walk(b, h) = [k \in 1 .. Len(w) |-> w[Len(w) + 1 - k]]
<1> DEFINE N == Len(w)
           r == [k \in 1 .. N |-> w[N + 1 - k]]
<1>1. Chain(f, h, w) /\ w \in Seq(L \ {h})
  BY WalkIsChain
<1>2. /\ N \in Nat /\ DOMAIN w = 1 .. N /\ \A k \in 1 .. N : w[k] \in L \ {h}
      /\ \A k \in 0 .. N : f[Nth(h, w, k)] = Nth(h, w, k + 1)
  BY <1>1 DEF Chain
<1> HIDE DEF N
<1>3. \A k \in 1 .. N : N + 1 - k \in 1 .. N
  BY <1>2
<1>4. \A k \in 1 .. N : r[k] \in Node \ {h}
  BY <1>2, <1>3
<1>5. r \in Seq(Node \ {h}) /\ Len(r) = N /\ DOMAIN r = 1 .. N
  BY <1>2, <1>4
<1>6. \A k \in 0 .. N + 1 : Nth(h, r, k) = Nth(h, w, N + 1 - k)
  <2> SUFFICES ASSUME NEW k \in 0 .. N + 1
               PROVE  Nth(h, r, k) = Nth(h, w, N + 1 - k)
    OBVIOUS
  <2>1. k \in 1 .. N <=> N + 1 - k \in 1 .. N
    BY <1>2
  <2> QED
    BY <1>2, <1>5, <2>1 DEF Nth
<1> HIDE DEF r
<1>7. \A k \in 0 .. N : b[Nth(h, r, k)] = Nth(h, r, k + 1)
  <2> SUFFICES ASSUME NEW k \in 0 .. N
               PROVE  b[Nth(h, r, k)] = Nth(h, r, k + 1)
    OBVIOUS
  <2> DEFINE i == N - k
  <2>1. /\ i \in 0 .. N /\ i + 1 = N + 1 - k /\ i = N + 1 - (k + 1)
        /\ k \in 0 .. N + 1 /\ k + 1 \in 0 .. N + 1
    BY <1>2
  <2> HIDE DEF i
  <2>2. f[Nth(h, w, i)] = Nth(h, w, i + 1) /\ Nth(h, w, i) \in L
    BY <1>2, <2>1 DEF Nth
  <2>3. b[Nth(h, w, i + 1)] = Nth(h, w, i)
    BY <2>2 DEF Inverts
  <2> QED
    BY <1>6, <2>1, <2>3
<1>8. Chain(b, h, r)
  BY <1>5, <1>7 DEF Chain
<1>9. Inverts(b, f, L)
  BY DEF Inverts
<1>10. Walk(b, h) = r
  BY <1>8, <1>9, ChainIsWalk
<1> QED
  BY <1>10 DEF r, N

(* The queries answer what the walk of a ring says.                        *)

-----------------------------------------------------------------------------
(* Sequences of entries, as a walk from their head meets them.             *)

(* An entry is no head, so that beyond its ends a list has its head only.  *)
LEMMA EntriesAre ==
  ASSUME NEW s \in Seq(Entries), NEW h \in Heads
  PROVE  /\ Len(s) \in Nat /\ DOMAIN s = 1 .. Len(s) /\ s \in Seq(Node \ {h})
         /\ \A k \in 1 .. Len(s) : Nth(h, s, k) = s[k] /\ s[k] \in Entries
         /\ \A k \in Int : k \notin 1 .. Len(s) => Nth(h, s, k) = h
<1>1. Entries \subseteq Node \ {h}
  BY NodeAssumption DEF Node
<1>2. Len(s) \in Nat /\ DOMAIN s = 1 .. Len(s) /\ \A k \in 1 .. Len(s) : s[k] \in Entries
  OBVIOUS
<1>3. s \in Seq(Node \ {h})
  BY <1>1, <1>2
<1> QED
  BY <1>2, <1>3 DEF Nth

(* A new entry at place k.                                                 *)
LEMMA InsertIs ==
  ASSUME NEW s \in Seq(Entries), NEW h \in Heads, NEW k \in 1 .. Len(s) + 1,
         NEW e \in Entries
  PROVE  /\ InsertAt(s, k, e) \in Seq(Entries)
         /\ Len(InsertAt(s, k, e)) = Len(s) + 1
         /\ \A i \in 0 .. Len(s) + 2 :
              Nth(h, InsertAt(s, k, e), i) =
                IF i < k THEN Nth(h, s, i) ELSE IF i = k THEN e ELSE Nth(h, s, i - 1)
<1> DEFINE N == Len(s)
           a == SubSeq(s, 1, k - 1)
           c == SubSeq(s, k, N)
           t == (a \o <<e>>) \o c
<1>1. N \in Nat /\ DOMAIN s = 1 .. N /\ \A i \in 1 .. N : s[i] \in Entries
  OBVIOUS
<1>2. k \in 1 .. N + 1
  OBVIOUS
<1> HIDE DEF N
<1>3. a \in Seq(Entries) /\ Len(a) = k - 1 /\ \A i \in 1 .. k - 1 : a[i] = s[i]
  <2>1. 1 \in Int /\ k - 1 \in Int /\ \A i \in 1 .. k - 1 : s[i] \in Entries
    BY <1>1, <1>2
  <2>2. /\ a \in Seq(Entries) /\ Len(a) = IF 1 <= k - 1 THEN (k - 1) - 1 + 1 ELSE 0
        /\ \A i \in 1 .. (k - 1) - 1 + 1 : a[i] = s[1 + i - 1]
    BY <2>1, SubSeqProperties
  <2> QED
    BY <1>1, <1>2, <2>2
<1>4. /\ c \in Seq(Entries) /\ Len(c) = N + 1 - k
      /\ \A i \in 1 .. N + 1 - k : c[i] = s[k + i - 1]
  <2>1. k \in Int /\ N \in Int /\ \A i \in k .. N : s[i] \in Entries
    BY <1>1, <1>2
  <2>2. /\ c \in Seq(Entries) /\ Len(c) = IF k <= N THEN N - k + 1 ELSE 0
        /\ \A i \in 1 .. N - k + 1 : c[i] = s[k + i - 1]
    BY <2>1, SubSeqProperties
  <2>3. (IF k <= N THEN N - k + 1 ELSE 0) = N + 1 - k /\ N - k + 1 = N + 1 - k
    BY <1>1, <1>2
  <2> QED
    BY <2>2, <2>3
<1> HIDE DEF a, c
<1>5. /\ a \o <<e>> \in Seq(Entries) /\ Len(a \o <<e>>) = k
      /\ \A i \in 1 .. k : (a \o <<e>>)[i] = IF i < k THEN s[i] ELSE e
  <2> DEFINE u == <<e>>
  <2>1. u \in Seq(Entries) /\ Len(u) = 1 /\ u[1] = e
    OBVIOUS
  <2> HIDE DEF u
  <2>2. /\ a \o u \in Seq(Entries) /\ Len(a \o u) = Len(a) + Len(u)
        /\ \A i \in 1 .. Len(a) + Len(u) :
             (a \o u)[i] = IF i <= Len(a) THEN a[i] ELSE u[i - Len(a)]
    BY <1>3, <2>1, ConcatProperties
  <2>3. Len(a) + Len(u) = k
    BY <1>2, <1>3, <2>1
  <2>4. \A i \in 1 .. k : i < k => i \in 1 .. k - 1 /\ i <= k - 1
    BY <1>2
  <2>5. k - (k - 1) = 1 /\ ~(k <= k - 1)
    BY <1>2
  <2>6. \A i \in 1 .. k : ~(i < k) => i = k
    BY <1>2
  <2>7. \A i \in 1 .. k : (a \o u)[i] = IF i < k THEN s[i] ELSE e
    BY <1>3, <2>1, <2>2, <2>3, <2>4, <2>5, <2>6
  <2> QED
    BY <2>2, <2>3, <2>7 DEF u
<1>6. /\ t \in Seq(Entries) /\ Len(t) = N + 1
      /\ \A i \in 1 .. N + 1 : t[i] = IF i < k THEN s[i] ELSE IF i = k THEN e ELSE s[i - 1]
  <2> DEFINE u == a \o <<e>>
  <2> HIDE DEF u
  <2>1. u \in Seq(Entries) /\ Len(u) = k /\ \A i \in 1 .. k : u[i] = IF i < k THEN s[i] ELSE e
    BY <1>5 DEF u
  <2>2. /\ u \o c \in Seq(Entries) /\ Len(u \o c) = Len(u) + Len(c)
        /\ \A i \in 1 .. Len(u) + Len(c) :
             (u \o c)[i] = IF i <= Len(u) THEN u[i] ELSE c[i - Len(u)]
    BY <1>4, <2>1, ConcatProperties
  <2>3. Len(u) + Len(c) = N + 1
    BY <1>1, <1>2, <1>4, <2>1
  <2>4. \A i \in 1 .. N + 1 : ~(i <= k) => i - k \in 1 .. N + 1 - k /\ k + (i - k) - 1 = i - 1
                                           /\ ~(i < k) /\ i # k
    BY <1>1, <1>2
  <2>5. \A i \in 1 .. N + 1 : i <= k => i \in 1 .. k /\ (~(i < k) => i = k)
    BY <1>1, <1>2
  <2>6. \A i \in 1 .. N + 1 :
          (u \o c)[i] = IF i < k THEN s[i] ELSE IF i = k THEN e ELSE s[i - 1]
    BY <1>4, <2>1, <2>2, <2>3, <2>4, <2>5
  <2> QED
    BY <2>2, <2>3, <2>6 DEF u
<1>7. InsertAt(s, k, e) = t
  BY DEF InsertAt, a, c, N
<1> HIDE DEF t
<1>8. \A i \in 0 .. N + 2 :
        Nth(h, t, i) = IF i < k THEN Nth(h, s, i) ELSE IF i = k THEN e ELSE Nth(h, s, i - 1)
  <2> SUFFICES ASSUME NEW i \in 0 .. N + 2
               PROVE  Nth(h, t, i) = IF i < k THEN Nth(h, s, i)
                                     ELSE IF i = k THEN e ELSE Nth(h, s, i - 1)
    OBVIOUS
  <2>1. DOMAIN t = 1 .. N + 1
    BY <1>6
  <2>2. CASE i < k
    <3>1. i \in 1 .. N + 1 <=> i \in 1 .. N
      BY <1>1, <1>2, <2>2
    <3>2. i \in 1 .. N => i \in 1 .. N + 1
      BY <1>1
    <3> QED
      BY <1>1, <1>6, <2>1, <2>2, <3>1, <3>2 DEF Nth
  <2>3. CASE i = k
    <3>1. i \in 1 .. N + 1 /\ ~(i < k)
      BY <1>1, <1>2, <2>3
    <3> QED
      BY <1>6, <2>1, <2>3, <3>1 DEF Nth
  <2>4. CASE i > k
    <3>1. ~(i < k) /\ i # k /\ (i \in 1 .. N + 1 <=> i - 1 \in 1 .. N)
      BY <1>1, <1>2, <2>4
    <3> QED
      BY <1>1, <1>6, <2>1, <2>4, <3>1 DEF Nth
  <2> QED
    BY <1>2, <2>2, <2>3, <2>4
<1> QED
  BY <1>6, <1>7, <1>8 DEF N

(* At the end is behind the last place.                                    *)
LEMMA AppendIs ==
  ASSUME NEW s \in Seq(Entries), NEW e \in Entries
  PROVE  Append(s, e) = InsertAt(s, Len(s) + 1, e)
<1> DEFINE N == Len(s)
           t == InsertAt(s, N + 1, e)
<1>1. N \in Nat /\ N + 1 \in 1 .. N + 1 /\ \A i \in 1 .. N : s[i] \in Entries
  OBVIOUS
<1>2. /\ Append(s, e) \in Seq(Entries) /\ Len(Append(s, e)) = N + 1
      /\ \A i \in 1 .. N : Append(s, e)[i] = s[i]
      /\ Append(s, e)[N + 1] = e
  BY AppendProperties
<1>3. SubSeq(s, 1, N) = s
  OBVIOUS
<1>4. SubSeq(s, N + 1, N) = << >>
  <2> HIDE DEF N
  <2> QED
    BY <1>1, SubSeqEmpty
<1>5. InsertAt(s, N + 1, e) = (s \o <<e>>) \o << >>
  <2>1. (N + 1) - 1 = N
    BY <1>1
  <2> HIDE DEF N
  <2>2. InsertAt(s, N + 1, e) = SubSeq(s, 1, (N + 1) - 1) \o <<e>> \o SubSeq(s, N + 1, N)
    BY DEF InsertAt, N
  <2> QED
    BY <1>3, <1>4, <2>1, <2>2
<1>6. s \o <<e>> \in Seq(Entries) /\ s \o <<e>> = Append(s, e)
  BY AppendIsConcat, <1>2
<1> QED
  BY <1>5, <1>6, ConcatEmptySeq

(* Without the entry at place k.                                           *)
LEMMA RemoveIs ==
  ASSUME NEW s \in Seq(Entries), NEW h \in Heads, NEW k \in 1 .. Len(s)
  PROVE  /\ RemoveAt(s, k) \in Seq(Entries)
         /\ Len(RemoveAt(s, k)) = Len(s) - 1
         /\ \A i \in 0 .. Len(s) :
              Nth(h, RemoveAt(s, k), i) = IF i < k THEN Nth(h, s, i) ELSE Nth(h, s, i + 1)
<1> DEFINE N == Len(s)
           a == SubSeq(s, 1, k - 1)
           c == SubSeq(s, k + 1, N)
           t == a \o c
<1>1. N \in Nat /\ DOMAIN s = 1 .. N /\ \A i \in 1 .. N : s[i] \in Entries
  OBVIOUS
<1>2. k \in 1 .. N
  OBVIOUS
<1> HIDE DEF N
<1>3. a \in Seq(Entries) /\ Len(a) = k - 1 /\ \A i \in 1 .. k - 1 : a[i] = s[i]
  <2>1. 1 \in Int /\ k - 1 \in Int /\ \A i \in 1 .. k - 1 : s[i] \in Entries
    BY <1>1, <1>2
  <2>2. /\ a \in Seq(Entries) /\ Len(a) = IF 1 <= k - 1 THEN (k - 1) - 1 + 1 ELSE 0
        /\ \A i \in 1 .. (k - 1) - 1 + 1 : a[i] = s[1 + i - 1]
    BY <2>1, SubSeqProperties
  <2> QED
    BY <1>1, <1>2, <2>2
<1>4. /\ c \in Seq(Entries) /\ Len(c) = N - k
      /\ \A i \in 1 .. N - k : c[i] = s[k + i]
  <2>1. k + 1 \in Int /\ N \in Int /\ \A i \in k + 1 .. N : s[i] \in Entries
    BY <1>1, <1>2
  <2>2. /\ c \in Seq(Entries) /\ Len(c) = IF k + 1 <= N THEN N - (k + 1) + 1 ELSE 0
        /\ \A i \in 1 .. N - (k + 1) + 1 : c[i] = s[(k + 1) + i - 1]
    BY <2>1, SubSeqProperties
  <2>3. (IF k + 1 <= N THEN N - (k + 1) + 1 ELSE 0) = N - k /\ N - (k + 1) + 1 = N - k
    BY <1>1, <1>2
  <2>4. \A i \in 1 .. N - k : (k + 1) + i - 1 = k + i
    BY <1>2
  <2> QED
    BY <2>2, <2>3, <2>4
<1> HIDE DEF a, c
<1>5. /\ t \in Seq(Entries) /\ Len(t) = N - 1
      /\ \A i \in 1 .. N - 1 : t[i] = IF i < k THEN s[i] ELSE s[i + 1]
  <2>2. /\ a \o c \in Seq(Entries) /\ Len(a \o c) = Len(a) + Len(c)
        /\ \A i \in 1 .. Len(a) + Len(c) :
             (a \o c)[i] = IF i <= Len(a) THEN a[i] ELSE c[i - Len(a)]
    BY <1>3, <1>4, ConcatProperties
  <2>3. Len(a) + Len(c) = N - 1
    BY <1>1, <1>2, <1>3, <1>4
  <2>4. \A i \in 1 .. N - 1 : i < k => i \in 1 .. k - 1 /\ i <= k - 1
    BY <1>1, <1>2
  <2>5. \A i \in 1 .. N - 1 : ~(i < k) => /\ ~(i <= k - 1) /\ i - (k - 1) \in 1 .. N - k
                                          /\ k + (i - (k - 1)) = i + 1
    BY <1>1, <1>2
  <2>6. \A i \in 1 .. N - 1 : (a \o c)[i] = IF i < k THEN s[i] ELSE s[i + 1]
    BY <1>3, <1>4, <2>2, <2>3, <2>4, <2>5
  <2> QED
    BY <2>2, <2>3, <2>6
<1>6. RemoveAt(s, k) = t
  BY DEF RemoveAt, a, c, N
<1> HIDE DEF t
<1>7. \A i \in 0 .. N : Nth(h, t, i) = IF i < k THEN Nth(h, s, i) ELSE Nth(h, s, i + 1)
  <2> SUFFICES ASSUME NEW i \in 0 .. N
               PROVE  Nth(h, t, i) = IF i < k THEN Nth(h, s, i) ELSE Nth(h, s, i + 1)
    OBVIOUS
  <2>1. DOMAIN t = 1 .. N - 1
    BY <1>5
  <2>2. CASE i < k
    <3>1. (i \in 1 .. N - 1 <=> i \in 1 .. N)
      BY <1>1, <1>2, <2>2
    <3> QED
      BY <1>1, <1>5, <2>1, <2>2, <3>1 DEF Nth
  <2>3. CASE ~(i < k)
    <3>1. i \in 1 .. N - 1 <=> i + 1 \in 1 .. N
      BY <1>1, <1>2, <2>3
    <3> QED
      BY <1>1, <1>5, <2>1, <2>3, <3>1 DEF Nth
  <2> QED
    BY <2>2, <2>3
<1> QED
  BY <1>5, <1>6, <1>7 DEF N

(* A part of a list.                                                       *)
LEMMA PartIs ==
  ASSUME NEW s \in Seq(Entries), NEW a \in 1 .. Len(s) + 1, NEW b \in 0 .. Len(s), a <= b + 1
  PROVE  /\ SubSeq(s, a, b) \in Seq(Entries)
         /\ Len(SubSeq(s, a, b)) = (b + 1) - a
         /\ \A i \in 1 .. (b + 1) - a : SubSeq(s, a, b)[i] = s[(a + i) - 1]
<1>1. Len(s) \in Nat /\ DOMAIN s = 1 .. Len(s) /\ \A i \in 1 .. Len(s) : s[i] \in Entries
  OBVIOUS
<1>2. \A i \in a .. b : s[i] \in Entries
  BY <1>1
<1>3. /\ SubSeq(s, a, b) \in Seq(Entries)
      /\ Len(SubSeq(s, a, b)) = IF a <= b THEN b - a + 1 ELSE 0
      /\ \A i \in 1 .. b - a + 1 : SubSeq(s, a, b)[i] = s[a + i - 1]
  BY <1>1, <1>2, SubSeqProperties
<1> QED
  BY <1>1, <1>3

(* The ends of a list that is cut in two.                                  *)
LEMMA FrontIs ==
  ASSUME NEW s \in Seq(Entries), NEW h \in Heads, NEW g \in Heads, NEW k \in 0 .. Len(s)
  PROVE  /\ SubSeq(s, 1, k) \in Seq(Entries)
         /\ Len(SubSeq(s, 1, k)) = k
         /\ Nth(g, SubSeq(s, 1, k), 0) = g /\ Nth(g, SubSeq(s, 1, k), k + 1) = g
         /\ \A i \in 1 .. k : Nth(g, SubSeq(s, 1, k), i) = Nth(h, s, i)
<1> DEFINE N == Len(s)
           u == SubSeq(s, 1, k)
<1>1. /\ N \in Nat /\ \A i \in 1 .. N : Nth(h, s, i) = s[i]
  BY EntriesAre
<1>2. 1 \in 1 .. N + 1 /\ k \in 0 .. N /\ 1 <= k + 1 /\ (k + 1) - 1 = k
  BY <1>1
<1>3. /\ u \in Seq(Entries) /\ Len(u) = k
      /\ \A i \in 1 .. k : u[i] = s[(1 + i) - 1]
  BY <1>2, PartIs
<1> HIDE DEF u, N
<1>4. \A i \in 1 .. k : i \in 1 .. N /\ (1 + i) - 1 = i
  BY <1>1, <1>2
<1>5. /\ \A i \in 1 .. k : Nth(g, u, i) = u[i]
      /\ \A i \in Int : i \notin 1 .. k => Nth(g, u, i) = g
  BY <1>3, EntriesAre
<1>6. 0 \in Int /\ k + 1 \in Int /\ 0 \notin 1 .. k /\ k + 1 \notin 1 .. k
  BY <1>1, <1>2
<1>7. \A i \in 1 .. k : Nth(g, u, i) = Nth(h, s, i)
  BY <1>1, <1>3, <1>4, <1>5
<1> QED
  BY <1>3, <1>5, <1>6, <1>7 DEF u

(* What remains of a list whose first k entries are taken away.            *)
LEMMA RestIs ==
  ASSUME NEW s \in Seq(Entries), NEW h \in Heads, NEW k \in 0 .. Len(s)
  PROVE  /\ SubSeq(s, k + 1, Len(s)) \in Seq(Entries)
         /\ Len(SubSeq(s, k + 1, Len(s))) = Len(s) - k
         /\ Nth(h, SubSeq(s, k + 1, Len(s)), 0) = h
         /\ \A i \in 1 .. (Len(s) - k) + 1 :
              Nth(h, SubSeq(s, k + 1, Len(s)), i) = Nth(h, s, k + i)
<1> DEFINE N == Len(s)
           v == SubSeq(s, k + 1, N)
<1>1. /\ N \in Nat /\ \A i \in 1 .. N : Nth(h, s, i) = s[i]
      /\ \A i \in Int : i \notin 1 .. N => Nth(h, s, i) = h
  BY EntriesAre
<1>2. /\ k \in 0 .. N /\ k + 1 \in 1 .. N + 1 /\ N \in 0 .. N /\ k + 1 <= N + 1
      /\ (N + 1) - (k + 1) = N - k /\ N - k \in Nat
  BY <1>1
<1>3. /\ v \in Seq(Entries) /\ Len(v) = N - k
      /\ \A i \in 1 .. N - k : v[i] = s[((k + 1) + i) - 1]
  <2>1. /\ SubSeq(s, k + 1, N) \in Seq(Entries)
        /\ Len(SubSeq(s, k + 1, N)) = (N + 1) - (k + 1)
        /\ \A i \in 1 .. (N + 1) - (k + 1) : SubSeq(s, k + 1, N)[i] = s[((k + 1) + i) - 1]
    BY <1>2, PartIs, Zenon
  <2> QED
    BY <1>2, <2>1
<1> HIDE DEF v, N
<1> DEFINE M == N - k
<1>4. \A i \in 1 .. M : k + i \in 1 .. N /\ ((k + 1) + i) - 1 = k + i
  BY <1>1, <1>2
<1>5. M \in Nat /\ k + (M + 1) = N + 1 /\ N + 1 \in Int /\ N + 1 \notin 1 .. N
  BY <1>1, <1>2
<1>6. \A i \in 1 .. M : v[i] = s[((k + 1) + i) - 1]
  BY <1>3
<1>7. v \in Seq(Entries) /\ Len(v) = M
  BY <1>3
<1> HIDE DEF M
<1>8. /\ \A i \in 1 .. M : Nth(h, v, i) = v[i]
      /\ \A i \in Int : i \notin 1 .. M => Nth(h, v, i) = h
  BY <1>7, EntriesAre
<1>9. 0 \in Int /\ 0 \notin 1 .. M /\ M + 1 \in Int /\ M + 1 \notin 1 .. M
  BY <1>5
<1>10. \A i \in 1 .. M : Nth(h, v, i) = Nth(h, s, k + i)
  BY <1>1, <1>4, <1>6, <1>8
<1>11. Nth(h, v, M + 1) = Nth(h, s, k + (M + 1))
  BY <1>1, <1>5, <1>8, <1>9
<1>12. \A i \in 1 .. M + 1 : Nth(h, v, i) = Nth(h, s, k + i)
  <2>1. \A i \in 1 .. M + 1 : i \in 1 .. M \/ i = M + 1
    BY <1>5
  <2> QED
    BY <1>10, <1>11, <2>1
<1>13. Nth(h, v, 0) = h
  BY <1>8, <1>9
<1> QED
  BY <1>7, <1>12, <1>13 DEF v, M, N

(* One list behind another one.                                            *)
LEMMA ConcatIs ==
  ASSUME NEW s \in Seq(Entries), NEW t \in Seq(Entries), NEW h \in Heads, NEW g \in Heads
  PROVE  /\ s \o t \in Seq(Entries) /\ Len(s \o t) = Len(s) + Len(t)
         /\ Nth(h, s \o t, 0) = h
         /\ \A i \in 1 .. Len(s) : Nth(h, s \o t, i) = Nth(g, s, i)
         /\ \A i \in 1 .. Len(t) : Nth(h, s \o t, Len(s) + i) = Nth(g, t, i)
         /\ Nth(h, s \o t, Len(s) + Len(t) + 1) = h
<1> DEFINE N == Len(s)
           M == Len(t)
           r == s \o t
<1>1. /\ N \in Nat /\ \A i \in 1 .. N : Nth(g, s, i) = s[i]
      /\ M \in Nat /\ \A i \in 1 .. M : Nth(g, t, i) = t[i]
  BY EntriesAre
<1>2. /\ r \in Seq(Entries) /\ Len(r) = N + M
      /\ \A i \in 1 .. N + M : r[i] = IF i <= N THEN s[i] ELSE t[i - N]
  BY ConcatProperties
<1> HIDE DEF N, M, r
<1>3. /\ \A i \in 1 .. N + M : Nth(h, r, i) = r[i]
      /\ \A i \in Int : i \notin 1 .. N + M => Nth(h, r, i) = h
  BY <1>2, EntriesAre
<1>4. 0 \in Int /\ 0 \notin 1 .. N + M /\ N + M + 1 \in Int /\ N + M + 1 \notin 1 .. N + M
  BY <1>1
<1>5. \A i \in 1 .. N : i \in 1 .. N + M /\ i <= N
  BY <1>1
<1>6. \A i \in 1 .. M : N + i \in 1 .. N + M /\ ~(N + i <= N) /\ (N + i) - N = i
  BY <1>1
<1>7. \A i \in 1 .. N : Nth(h, r, i) = Nth(g, s, i)
  BY <1>1, <1>2, <1>3, <1>5
<1>8. \A i \in 1 .. M : Nth(h, r, N + i) = Nth(g, t, i)
  BY <1>1, <1>2, <1>3, <1>6
<1> QED
  BY <1>2, <1>3, <1>4, <1>7, <1>8 DEF r, N, M
=============================================================================
