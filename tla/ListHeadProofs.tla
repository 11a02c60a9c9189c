--------------------------- MODULE ListHeadProofs ---------------------------
(***************************************************************************)
(* Proofs about ListHead, for any number of lists and entries.  Each       *)
(* function of list.h has a lemma that says what it does to a memory whose *)
(* linked nodes form rings, and one that says what it does to the lists    *)
(* which that memory holds; a call of the interface composes them, and is  *)
(* a step of ListSpec.                                                     *)
(***************************************************************************)
EXTENDS ListWalkProofs

-----------------------------------------------------------------------------
Sound(m, L) == m \in Memory /\ L \subseteq Node /\ Rings(m, L)

(* In sound memory prev undoes next, and next prev.                        *)
LEMMA SoundInverts ==
  ASSUME NEW m, NEW L, Sound(m, L)
  PROVE  /\ L \in SUBSET Node
         /\ Inverts(m.next, m.prev, L) /\ Inverts(m.prev, m.next, L)
BY DEF Sound, Rings, Inverts

(* What list_empty and the others read off the pointers is what a walk says. *)
LEMMA QueriesAgree ==
  ASSUME NEW m, NEW L, Sound(m, L), NEW h \in L, NEW w, w = Walk(m.next, h)
  PROVE  /\ list_empty(m, h) = (w = <<>>)
         /\ list_empty_careful(m, h) = (w = <<>>)
         /\ list_is_singular(m, h) = (Len(w) = 1)
         /\ \A k \in DOMAIN w : list_is_last(m, w[k], h) = (k = Len(w))
<1> DEFINE N == Len(w)
<1>1. Chain(m.next, h, w) /\ w \in Seq(L \ {h})
  BY SoundInverts, WalkIsChain
<1>2. /\ N \in Nat /\ DOMAIN w = 1 .. N /\ \A k \in 1 .. N : w[k] \in L \ {h}
      /\ \A k \in 0 .. N : m.next[Nth(h, w, k)] = Nth(h, w, k + 1)
      /\ (w = <<>> <=> N = 0)
  BY <1>1 DEF Chain
<1> HIDE DEF N
<1>3. m.next[h] = Nth(h, w, 1)
  <2>1. 0 \in 0 .. N /\ Nth(h, w, 0) = h /\ 0 + 1 = 1
    BY <1>2 DEF Nth
  <2> QED
    BY <1>2, <2>1
<1>4. m.prev[h] = Nth(h, w, N)
  <2>1. N \in 0 .. N /\ Nth(h, w, N + 1) = h /\ Nth(h, w, N) \in L
    BY <1>2 DEF Nth
  <2>2. m.next[Nth(h, w, N)] = h
    BY <1>2, <2>1
  <2> QED
    BY <2>1, <2>2 DEF Sound, Rings
<1>5. \A k \in 0 .. N + 1 : Nth(h, w, k) = h <=> k = 0 \/ k = N + 1
  BY <1>2 DEF Nth
<1>6. list_empty(m, h) <=> N = 0
  <2>1. 1 \in 0 .. N + 1 /\ (1 = N + 1 <=> N = 0)
    BY <1>2
  <2> QED
    BY <1>3, <1>5, <2>1 DEF list_empty
<1>7. list_empty_careful(m, h) <=> N = 0
  <2>1. N = 0 => m.prev[h] = h
    BY <1>4, <1>5, <1>2 DEF Nth
  <2> QED
    BY <1>6, <2>1 DEF list_empty, list_empty_careful
<1>8. N > 0 => (Nth(h, w, 1) = Nth(h, w, N) <=> N = 1)
  <2> SUFFICES ASSUME N > 0, Nth(h, w, 1) = Nth(h, w, N)
               PROVE  N = 1
    OBVIOUS
  <2>1. 1 \in 0 .. N /\ N \in 0 .. N /\ 1 + 1 = 2 /\ 2 \in 0 .. N + 1 /\ N + 1 \in 0 .. N + 1
    BY <1>2
  <2>2. Nth(h, w, 2) = Nth(h, w, N + 1)
    BY <1>2, <2>1
  <2>3. 2 = 0 \/ 2 = N + 1
    BY <1>5, <2>1, <2>2
  <2> QED
    BY <1>2, <2>3
<1>9. list_is_singular(m, h) <=> N = 1
  BY <1>2, <1>3, <1>4, <1>6, <1>8 DEF list_is_singular
<1>10. \A k \in DOMAIN w : list_is_last(m, w[k], h) <=> k = N
  <2> SUFFICES ASSUME NEW k \in 1 .. N
               PROVE  m.next[w[k]] = h <=> k = N
    BY <1>2 DEF list_is_last
  <2>1. k \in 0 .. N /\ k + 1 \in 0 .. N + 1 /\ (k + 1 = N + 1 <=> k = N) /\ k + 1 # 0
    BY <1>2
  <2>2. Nth(h, w, k) = w[k]
    BY <1>2 DEF Nth
  <2> QED
    BY <1>2, <1>5, <2>1, <2>2
<1>11. /\ list_empty(m, h) \in BOOLEAN /\ list_empty_careful(m, h) \in BOOLEAN
       /\ list_is_singular(m, h) \in BOOLEAN
       /\ \A k \in DOMAIN w : list_is_last(m, w[k], h) \in BOOLEAN
  BY DEF list_empty, list_empty_careful, list_is_singular, list_is_last
<1> QED
  BY <1>2, <1>6, <1>7, <1>9, <1>10, <1>11 DEF N

-----------------------------------------------------------------------------
(* What each function does to a memory whose linked nodes form rings.      *)

(* INIT_LIST_HEAD.                                                         *)
LEMMA InitSound ==
  ASSUME NEW m, NEW L, Sound(m, L), NEW h \in Node \ L
  PROVE  Sound(init_head(m, h), L \union {h})
  BY DEF Sound, Memory, Rings, init_head

(* __list_add.                                                             *)
LEMMA AddBetweenSound ==
  ASSUME NEW m, NEW L, Sound(m, L), NEW new \in Node \ L, NEW p \in L
  PROVE  Sound(add_between(m, new, p, m.next[p]), L \union {new})
  BY DEF Sound, Memory, Rings, add_between

(* __list_del_entry.                                                       *)
LEMMA DelEntrySound ==
  ASSUME NEW m, NEW L, Sound(m, L), NEW e \in L
  PROVE  Sound(del_entry(m, e), L \ {e})
  BY DEF Sound, Memory, Rings, del_entry, del_between

(* A node in a ring of its own is in nobody's way.                         *)
LEMMA AloneSound ==
  ASSUME NEW m, NEW L, Sound(m, L), NEW e \in Node, e \in L => m.next[e] = e
  PROVE  Sound(m, L \ {e})
  BY DEF Sound, Rings

(* list_replace.                                                           *)
LEMMA ReplaceSound ==
  ASSUME NEW m, NEW L, Sound(m, L), NEW old \in L, NEW new \in Node \ L
  PROVE  Sound(replace(m, old, new), (L \ {old}) \union {new})
  BY DEF Sound, Memory, Rings, replace

(* __list_cut_position.                                                    *)
LEMMA CutSound ==
  ASSUME NEW m, NEW L, Sound(m, L), NEW list \in Node \ L,
         NEW head \in L, NEW entry \in L \ {head}
  PROVE  Sound(cut_at(m, list, head, entry), L \union {list})
  BY DEF Sound, Memory, Rings, cut_at

(* The ring of list and the ring it is spliced into have to be different:  *)
(* R is the one, and p is in the other.                                    *)
LEMMA SpliceSound ==
  ASSUME NEW m, NEW L, Sound(m, L), NEW R \in SUBSET L,
         \A n \in R : m.next[n] \in R /\ m.prev[n] \in R,
         NEW list \in R, NEW p \in L \ R, m.next[list] # list
  PROVE  Sound(splice_between(m, list, p, m.next[p]), L \ {list})
  BY DEF Sound, Memory, Rings, splice_between

(* Both splices, of a list that is not empty into another one.             *)
LEMMA SpliceBothSound ==
  ASSUME Sound(mem, linked), NEW list \in linked, NEW head \in linked,
         Apart(list, head), ~list_empty(mem, list)
  PROVE  /\ Sound(splice(mem, list, head), linked \ {list})
         /\ Sound(splice_tail(mem, list, head), linked \ {list})
<1>1. PICK R \in SUBSET linked :
        /\ list \in R /\ head \notin R
        /\ \A n \in R : mem.next[n] \in R /\ mem.prev[n] \in R
  BY DEF Apart
<1>2. /\ mem.prev[head] \in linked \ R
      /\ mem.next[mem.prev[head]] = head
      /\ head \in linked \ R
  BY <1>1 DEF Sound, Rings
<1>3. mem.next[list] # list
  BY DEF list_empty
<1> QED
  BY <1>1, <1>2, <1>3, SpliceSound DEF splice, splice_tail, list_empty

-----------------------------------------------------------------------------
(* Memory m, with the nodes in L linked, holds the lists ls: the heads     *)
(* among L have lists, and each is what a walk from the head meets.        *)
Holds(m, L, ls) ==
  /\ Sound(m, L)
  /\ DOMAIN ls = Heads \cap L /\ ls = [h \in DOMAIN ls |-> ls[h]]
  /\ \A h \in DOMAIN ls :
       /\ ls[h] \in Seq(Entries)
       /\ \A k \in 0 .. Len(ls[h]) : m.next[Nth(h, ls[h], k)] = Nth(h, ls[h], k + 1)

(* The lists held are the walks.                                           *)
LEMMA HoldsWalks ==
  ASSUME NEW m, NEW L, NEW ls, Holds(m, L, ls)
  PROVE  ls = [h \in Heads \cap L |-> Walk(m.next, h)]
<1>1. \A h \in Heads \cap L : Walk(m.next, h) = ls[h]
  <2> SUFFICES ASSUME NEW h \in Heads, h \in L
               PROVE  Walk(m.next, h) = ls[h]
    OBVIOUS
  <2>1. ls[h] \in Seq(Node \ {h})
    BY EntriesAre DEF Holds
  <2>2. Chain(m.next, h, ls[h])
    BY <2>1 DEF Holds, Chain
  <2>3. L \in SUBSET Node /\ Inverts(m.next, m.prev, L)
    BY SoundInverts DEF Holds
  <2> QED
    BY <2>2, <2>3, ChainIsWalk
<1> QED
  BY <1>1 DEF Holds

(* Where the nodes of a list are, and who their neighbours are.            *)
LEMMA NthAre ==
  ASSUME NEW m, NEW L, NEW ls, Holds(m, L, ls), NEW h \in DOMAIN ls
  PROVE  LET s == ls[h]
         IN  /\ h \in Heads /\ s \in Seq(Entries) /\ Len(s) \in Nat /\ DOMAIN s = 1 .. Len(s)
             /\ \A k \in 1 .. Len(s) : Nth(h, s, k) = s[k] /\ s[k] \in Entries
             /\ Nth(h, s, 0) = h /\ Nth(h, s, Len(s) + 1) = h
             /\ \A k \in 0 .. Len(s) + 1 : Nth(h, s, k) \in L
             /\ \A k \in 0 .. Len(s) :
                  /\ m.next[Nth(h, s, k)] = Nth(h, s, k + 1)
                  /\ m.prev[Nth(h, s, k + 1)] = Nth(h, s, k)
<1> DEFINE s == ls[h]
           N == Len(s)
<1>1. h \in Heads /\ h \in L /\ s \in Seq(Entries)
  BY DEF Holds
<1>2. /\ N \in Nat /\ DOMAIN s = 1 .. N
      /\ \A k \in 1 .. N : Nth(h, s, k) = s[k] /\ s[k] \in Entries
      /\ \A k \in Int : k \notin 1 .. N => Nth(h, s, k) = h
  BY <1>1, EntriesAre
<1>3. \A k \in 0 .. N : m.next[Nth(h, s, k)] = Nth(h, s, k + 1)
  BY DEF Holds
<1> HIDE DEF N, s
<1>4. Nth(h, s, 0) = h /\ Nth(h, s, N + 1) = h
  <2>1. 0 \in Int /\ 0 \notin 1 .. N /\ N + 1 \in Int /\ N + 1 \notin 1 .. N
    BY <1>2
  <2> QED
    BY <1>2, <2>1
<1> DEFINE A == {k \in 0 .. N + 1 : Nth(h, s, k) \in L}
<1>5. 0 .. N + 1 \subseteq A
  <2>1. N + 1 \in Nat /\ 0 \in A
    BY <1>1, <1>2, <1>4
  <2>2. ASSUME NEW k \in 0 .. (N + 1) - 1, k \in A
        PROVE  k + 1 \in A
    <3>1. k \in 0 .. N /\ k + 1 \in 0 .. N + 1 /\ Nth(h, s, k) \in L
      BY <1>2, <2>2
    <3>2. m.next[Nth(h, s, k)] \in L
      BY <3>1 DEF Holds, Sound, Rings
    <3> QED
      BY <1>3, <3>1, <3>2
  <2> HIDE DEF A
  <2> QED
    BY <2>1, <2>2, ByInduction
<1>6. \A k \in 0 .. N + 1 : Nth(h, s, k) \in L
  BY <1>5
<1>7. \A k \in 0 .. N : m.prev[Nth(h, s, k + 1)] = Nth(h, s, k)
  <2> SUFFICES ASSUME NEW k \in 0 .. N PROVE m.prev[Nth(h, s, k + 1)] = Nth(h, s, k)
    OBVIOUS
  <2>1. Nth(h, s, k) \in L /\ m.next[Nth(h, s, k)] = Nth(h, s, k + 1)
    BY <1>2, <1>3, <1>6
  <2> QED
    BY <2>1 DEF Holds, Sound, Rings
<1> QED
  BY <1>1, <1>2, <1>3, <1>4, <1>6, <1>7 DEF s, N

(* No node is in two places.                                               *)
LEMMA OnePlace ==
  ASSUME NEW m, NEW L, NEW ls, Holds(m, L, ls),
         NEW g \in DOMAIN ls, NEW i \in 0 .. Len(ls[g]),
         NEW h \in DOMAIN ls, NEW j \in 0 .. Len(ls[h]),
         Nth(g, ls[g], i) = Nth(h, ls[h], j)
  PROVE  g = h /\ i = j
<1> DEFINE Same(a, c, b, d) == Nth(a, ls[a], c) = Nth(b, ls[b], d)
           B == {c \in Nat : \E a, b \in DOMAIN ls : \E d \in 0 .. Len(ls[b]) :
                   /\ c \in 0 .. Len(ls[a]) /\ Same(a, c, b, d) /\ ~(a = b /\ c = d)}
<1> SUFFICES ASSUME ~(g = h /\ i = j) PROVE FALSE
  OBVIOUS
<1>1. \A a \in DOMAIN ls :
        /\ a \in Heads /\ Len(ls[a]) \in Nat
        /\ Nth(a, ls[a], 0) = a
        /\ \A k \in 1 .. Len(ls[a]) : Nth(a, ls[a], k) \in Entries
        /\ \A k \in 0 .. Len(ls[a]) : m.prev[Nth(a, ls[a], k + 1)] = Nth(a, ls[a], k)
  <2> SUFFICES ASSUME NEW a \in DOMAIN ls
               PROVE  /\ a \in Heads /\ Len(ls[a]) \in Nat
                      /\ Nth(a, ls[a], 0) = a
                      /\ \A k \in 1 .. Len(ls[a]) : Nth(a, ls[a], k) \in Entries
                      /\ \A k \in 0 .. Len(ls[a]) :
                           m.prev[Nth(a, ls[a], k + 1)] = Nth(a, ls[a], k)
    OBVIOUS
  <2> DEFINE s == ls[a]
  <2>1. /\ a \in Heads /\ Len(s) \in Nat
        /\ \A k \in 1 .. Len(s) : Nth(a, s, k) = s[k] /\ s[k] \in Entries
        /\ Nth(a, s, 0) = a
        /\ \A k \in 0 .. Len(s) : m.prev[Nth(a, s, k + 1)] = Nth(a, s, k)
    <3>1. /\ a \in Heads /\ s \in Seq(Entries) /\ Len(s) \in Nat /\ DOMAIN s = 1 .. Len(s)
          /\ \A k \in 1 .. Len(s) : Nth(a, s, k) = s[k] /\ s[k] \in Entries
          /\ Nth(a, s, 0) = a /\ Nth(a, s, Len(s) + 1) = a
          /\ \A k \in 0 .. Len(s) + 1 : Nth(a, s, k) \in L
          /\ \A k \in 0 .. Len(s) :
               /\ m.next[Nth(a, s, k)] = Nth(a, s, k + 1)
               /\ m.prev[Nth(a, s, k + 1)] = Nth(a, s, k)
      BY NthAre
    <3> HIDE DEF s
    <3> QED
      BY <3>1, Zenon
  <2> HIDE DEF s
  <2>2. \A k \in 1 .. Len(s) : Nth(a, s, k) \in Entries
    BY <2>1, Zenon
  <2> QED
    BY <2>1, <2>2, Zenon DEF s
<1>2. B # {} /\ B \subseteq Nat
  <2>1. i \in B
    BY <1>1
  <2> QED
    BY <2>1
<1>3. PICK c \in B : \A x \in B : c <= x
  <2> HIDE DEF B
  <2> QED
    BY <1>2, LeastOfSome
<1> PICK a \in DOMAIN ls, b \in DOMAIN ls :
      \E d \in 0 .. Len(ls[b]) :
        /\ c \in 0 .. Len(ls[a]) /\ Same(a, c, b, d) /\ ~(a = b /\ c = d)
  OBVIOUS
<1>4. PICK d \in 0 .. Len(ls[b]) :
        /\ c \in 0 .. Len(ls[a]) /\ Same(a, c, b, d) /\ ~(a = b /\ c = d)
  OBVIOUS
<1>5. \A x \in Heads : x \notin Entries
  BY NodeAssumption
<1>6. c # 0 /\ d # 0
  <2>1. c = 0 \/ c \in 1 .. Len(ls[a])
    BY <1>1, <1>4
  <2>2. d = 0 \/ d \in 1 .. Len(ls[b])
    BY <1>1, <1>4
  <2> QED
    BY <1>1, <1>4, <1>5, <2>1, <2>2
<1>7. /\ c - 1 \in 0 .. Len(ls[a]) /\ (c - 1) + 1 = c /\ c - 1 \in Nat
      /\ d - 1 \in 0 .. Len(ls[b]) /\ (d - 1) + 1 = d
  BY <1>1, <1>4, <1>6
<1>8. Same(a, c - 1, b, d - 1)
  <2>1. /\ m.prev[Nth(a, ls[a], (c - 1) + 1)] = Nth(a, ls[a], c - 1)
        /\ m.prev[Nth(b, ls[b], (d - 1) + 1)] = Nth(b, ls[b], d - 1)
    BY <1>1, <1>7
  <2>2. Nth(a, ls[a], c) = Nth(b, ls[b], d)
    BY <1>4
  <2> QED
    BY <1>7, <2>1, <2>2
<1>9. c - 1 \notin B
  BY <1>3, <1>7
<1>10. a = b /\ c - 1 = d - 1
  BY <1>7, <1>8, <1>9
<1> QED
  BY <1>4, <1>7, <1>10

(* The same of all places at once.                                         *)
LEMMA AllPlaces ==
  ASSUME NEW m, NEW L, NEW ls, Holds(m, L, ls)
  PROVE  \A g, h \in DOMAIN ls : \A i \in 0 .. Len(ls[g]), j \in 0 .. Len(ls[h]) :
           /\ Nth(g, ls[g], i) \in L
           /\ m.next[Nth(g, ls[g], i)] = Nth(g, ls[g], i + 1)
           /\ Nth(g, ls[g], i) = Nth(h, ls[h], j) => g = h /\ i = j
<1> SUFFICES ASSUME NEW g \in DOMAIN ls, NEW h \in DOMAIN ls,
                    NEW i \in 0 .. Len(ls[g]), NEW j \in 0 .. Len(ls[h])
             PROVE  /\ Nth(g, ls[g], i) \in L
                    /\ m.next[Nth(g, ls[g], i)] = Nth(g, ls[g], i + 1)
                    /\ Nth(g, ls[g], i) = Nth(h, ls[h], j) => g = h /\ i = j
  OBVIOUS
<1>1. /\ \A x \in 0 .. Len(ls[g]) + 1 : Nth(g, ls[g], x) \in L
      /\ \A x \in 0 .. Len(ls[g]) : m.next[Nth(g, ls[g], x)] = Nth(g, ls[g], x + 1)
      /\ Len(ls[g]) \in Nat
  BY NthAre
<1>2. i \in 0 .. Len(ls[g]) + 1
  BY <1>1
<1> QED
  BY <1>1, <1>2, OnePlace

(* Lists are what they were, or are walked as they are now.                *)
Changed(m, ls, m2, L2, ls2) ==
  /\ DOMAIN ls2 = Heads \cap L2 /\ ls2 = [g \in DOMAIN ls2 |-> ls2[g]]
  /\ \A g \in DOMAIN ls2 :
       \/ /\ g \in DOMAIN ls /\ ls2[g] = ls[g]
          /\ \A i \in 0 .. Len(ls[g]) :
               m2.next[Nth(g, ls[g], i)] = m.next[Nth(g, ls[g], i)]
       \/ /\ ls2[g] \in Seq(Entries)
          /\ \A i \in 0 .. Len(ls2[g]) :
               m2.next[Nth(g, ls2[g], i)] = Nth(g, ls2[g], i + 1)

(* Memory so changed holds the new lists.                                  *)
LEMMA ListsChange ==
  ASSUME NEW m, NEW L, NEW ls, Holds(m, L, ls),
         NEW m2, NEW L2, Sound(m2, L2), NEW ls2, Changed(m, ls, m2, L2, ls2)
  PROVE  Holds(m2, L2, ls2)
<1>1. \A g \in DOMAIN ls2 :
        /\ ls2[g] \in Seq(Entries)
        /\ \A i \in 0 .. Len(ls2[g]) : m2.next[Nth(g, ls2[g], i)] = Nth(g, ls2[g], i + 1)
  <2> SUFFICES ASSUME NEW g \in DOMAIN ls2,
                      g \in DOMAIN ls, ls2[g] = ls[g],
                      \A i \in 0 .. Len(ls[g]) :
                        m2.next[Nth(g, ls[g], i)] = m.next[Nth(g, ls[g], i)]
               PROVE  /\ ls2[g] \in Seq(Entries)
                      /\ \A i \in 0 .. Len(ls2[g]) :
                           m2.next[Nth(g, ls2[g], i)] = Nth(g, ls2[g], i + 1)
    BY DEF Changed
  <2>1. /\ ls[g] \in Seq(Entries)
        /\ \A i \in 0 .. Len(ls[g]) : m.next[Nth(g, ls[g], i)] = Nth(g, ls[g], i + 1)
    BY DEF Holds
  <2> QED
    BY <2>1
<1> QED
  BY <1>1 DEF Holds, Changed

(* One list becomes t, and the others' nodes keep their next.              *)
LEMMA OneListChanges ==
  ASSUME NEW m, NEW L, NEW ls, Holds(m, L, ls), NEW h \in DOMAIN ls,
         NEW m2, NEW L2, Sound(m2, L2), Heads \cap L2 = Heads \cap L,
         NEW t \in Seq(Entries),
         \A i \in 0 .. Len(t) : m2.next[Nth(h, t, i)] = Nth(h, t, i + 1),
         \A g \in DOMAIN ls : g # h =>
           \A i \in 0 .. Len(ls[g]) :
             m2.next[Nth(g, ls[g], i)] = m.next[Nth(g, ls[g], i)]
  PROVE  Holds(m2, L2, [ls EXCEPT ![h] = t])
<1> DEFINE ls2 == [ls EXCEPT ![h] = t]
<1>1. /\ DOMAIN ls2 = DOMAIN ls /\ ls2[h] = t
      /\ \A g \in DOMAIN ls : g # h => ls2[g] = ls[g]
      /\ ls2 = [g \in DOMAIN ls2 |-> ls2[g]]
  BY DEF Holds
<1> HIDE DEF ls2
<1>2. Changed(m, ls, m2, L2, ls2)
  BY <1>1 DEF Changed, Holds
<1>3. Holds(m2, L2, ls2)
  BY <1>2, ListsChange
<1> QED
  BY <1>3 DEF ls2

-----------------------------------------------------------------------------
(* What the functions do to the lists.                                     *)

(* An entry is taken out.                                                  *)
LEMMA DelHolds ==
  ASSUME NEW m, NEW L, NEW ls, Holds(m, L, ls),
         NEW h \in DOMAIN ls, NEW k \in 1 .. Len(ls[h])
  PROVE  Holds(del_entry(m, ls[h][k]), L \ {ls[h][k]},
               [ls EXCEPT ![h] = RemoveAt(@, k)])
<1> DEFINE s == ls[h]
           N == Len(s)
           e == s[k]
           t == RemoveAt(s, k)
           m2 == del_entry(m, e)
<1>1. /\ h \in Heads /\ s \in Seq(Entries) /\ N \in Nat
      /\ \A i \in 1 .. N : Nth(h, s, i) = s[i] /\ s[i] \in Entries
      /\ Nth(h, s, 0) = h /\ Nth(h, s, N + 1) = h
      /\ \A i \in 0 .. N + 1 : Nth(h, s, i) \in L
      /\ \A i \in 0 .. N : /\ m.next[Nth(h, s, i)] = Nth(h, s, i + 1)
                           /\ m.prev[Nth(h, s, i + 1)] = Nth(h, s, i)
  BY NthAre
<1>2. /\ t \in Seq(Entries) /\ Len(t) = N - 1
      /\ \A i \in 0 .. N : Nth(h, t, i) = IF i < k THEN Nth(h, s, i) ELSE Nth(h, s, i + 1)
  BY <1>1, RemoveIs
<1>3. k \in 1 .. N
  OBVIOUS
<1> HIDE DEF s, N, t
<1>4. k \in 0 .. N /\ k - 1 \in 0 .. N /\ (k - 1) + 1 = k
  BY <1>1, <1>3
<1> DEFINE p == Nth(h, s, k - 1)
           q == Nth(h, s, k + 1)
<1>5. /\ e = Nth(h, s, k) /\ e \in L /\ e \in Entries
      /\ m.prev[e] = p /\ m.next[e] = q /\ p \in L
  <2>1. e = Nth(h, s, k) /\ e \in Entries
    BY <1>1, <1>3
  <2>2. Nth(h, s, k) \in L /\ Nth(h, s, k - 1) \in L
    BY <1>1, <1>4
  <2>3. m.prev[Nth(h, s, (k - 1) + 1)] = Nth(h, s, k - 1) /\ m.next[Nth(h, s, k)] = Nth(h, s, k + 1)
    BY <1>1, <1>4
  <2> QED
    BY <1>4, <2>1, <2>2, <2>3
<1> HIDE DEF e
<1>6. Sound(m2, L \ {e})
  BY <1>5, DelEntrySound DEF Holds
<1>7. /\ m2.next[p] = q
      /\ \A n \in L : n # p => m2.next[n] = m.next[n]
  <2>1. m2.next = [m.next EXCEPT ![p] = q]
    BY <1>5 DEF del_entry, del_between
  <2>2. m.next \in [Node -> Node \union {NULL}] /\ L \subseteq Node
    BY DEF Holds, Sound, Memory
  <2> HIDE DEF p, q, m2
  <2> QED
    BY <1>5, <2>1, <2>2
<1>8. \A g \in DOMAIN ls : \A i \in 0 .. Len(ls[g]) :
        /\ Nth(g, ls[g], i) \in L
        /\ Nth(g, ls[g], i) = p => g = h /\ i = k - 1
        /\ m.next[Nth(g, ls[g], i)] = Nth(g, ls[g], i + 1)
  <2>1. k - 1 \in 0 .. Len(ls[h]) /\ p = Nth(h, ls[h], k - 1)
    BY <1>4 DEF N, s
  <2> QED
    BY <2>1, AllPlaces
<1> HIDE DEF m2, p, q
<1>10. \A i \in 0 .. Len(t) : m2.next[Nth(h, t, i)] = Nth(h, t, i + 1)
  <2> SUFFICES ASSUME NEW i \in 0 .. N - 1
               PROVE  m2.next[Nth(h, t, i)] = Nth(h, t, i + 1)
    BY <1>2
  <2>1. i \in 0 .. N /\ i + 1 \in 0 .. N /\ i + 1 \in 0 .. N + 1
    BY <1>1, <1>3
  <2>2. CASE i < k - 1
    <3>1. i < k /\ i + 1 < k /\ i # k - 1
      BY <1>3, <2>1, <2>2
    <3>2. Nth(h, t, i) = Nth(h, s, i) /\ Nth(h, t, i + 1) = Nth(h, s, i + 1)
      BY <1>2, <2>1, <3>1
    <3> QED
      BY <1>1, <1>7, <1>8, <2>1, <3>1, <3>2 DEF s, N
  <2>3. CASE i = k - 1
    <3>1. i < k /\ ~(i + 1 < k) /\ (i + 1) + 1 = k + 1
      BY <1>3, <2>3
    <3>2. Nth(h, t, i) = p /\ Nth(h, t, i + 1) = q
      BY <1>2, <2>1, <2>3, <3>1 DEF p, q
    <3> QED
      BY <1>7, <3>2
  <2>4. CASE i > k - 1
    <3>1. ~(i < k) /\ ~(i + 1 < k) /\ i + 1 # k - 1
      BY <1>3, <2>1, <2>4
    <3>2. Nth(h, t, i) = Nth(h, s, i + 1) /\ Nth(h, t, i + 1) = Nth(h, s, (i + 1) + 1)
      BY <1>2, <2>1, <3>1
    <3> QED
      BY <1>1, <1>7, <1>8, <2>1, <3>1, <3>2 DEF s, N
  <2> QED
    BY <1>3, <2>1, <2>2, <2>3, <2>4
<1>11. Heads \cap (L \ {e}) = Heads \cap L
  BY <1>5, NodeAssumption
<1>12. \A g \in DOMAIN ls : g # h =>
         \A i \in 0 .. Len(ls[g]) : m2.next[Nth(g, ls[g], i)] = m.next[Nth(g, ls[g], i)]
  BY <1>7, <1>8
<1> DEFINE L2 == L \ {e}
<1>13. Holds(m2, L2, [ls EXCEPT ![h] = t])
  <2>1. Sound(m2, L2) /\ Heads \cap L2 = Heads \cap L
    BY <1>6, <1>11
  <2> HIDE DEF L2
  <2> QED
    BY <1>2, <1>10, <1>12, <2>1, OneListChanges
<1> QED
  BY <1>13 DEF m2, e, t, s, L2

(* A new entry is put in behind the k-th place before it.                  *)
LEMMA AddHolds ==
  ASSUME NEW m, NEW L, NEW ls, Holds(m, L, ls), NEW new \in Entries \ L,
         NEW h \in DOMAIN ls, NEW k \in 1 .. Len(ls[h]) + 1
  PROVE  LET p == Nth(h, ls[h], k - 1)
         IN  Holds(add_between(m, new, p, m.next[p]), L \union {new},
                   [ls EXCEPT ![h] = InsertAt(@, k, new)])
<1> DEFINE s == ls[h]
           N == Len(s)
           t == InsertAt(s, k, new)
           p == Nth(h, s, k - 1)
           q == Nth(h, s, k)
           m2 == add_between(m, new, p, m.next[p])
           L2 == L \union {new}
<1>1. h \in Heads /\ s \in Seq(Entries) /\ N \in Nat
  BY NthAre
<1>2. /\ t \in Seq(Entries) /\ Len(t) = N + 1
      /\ \A i \in 0 .. N + 2 :
           Nth(h, t, i) = IF i < k THEN Nth(h, s, i)
                          ELSE IF i = k THEN new ELSE Nth(h, s, i - 1)
  BY <1>1, InsertIs
<1>3. /\ k \in 1 .. N + 1 /\ k - 1 \in 0 .. N /\ (k - 1) + 1 = k
  BY <1>1
<1>4. \A g \in DOMAIN ls : \A i \in 0 .. Len(ls[g]) :
        /\ Nth(g, ls[g], i) \in L
        /\ Nth(g, ls[g], i) = p => g = h /\ i = k - 1
        /\ m.next[Nth(g, ls[g], i)] = Nth(g, ls[g], i + 1)
  BY <1>3, AllPlaces
<1>5. \A i \in 0 .. N : /\ Nth(h, s, i) \in L
                        /\ Nth(h, s, i) = p => i = k - 1
                        /\ m.next[Nth(h, s, i)] = Nth(h, s, i + 1)
  BY <1>4
<1> HIDE DEF N, t, p
<1>6. p \in L /\ m.next[p] = q
  BY <1>3, <1>5 DEF p
<1> HIDE DEF q
<1>7. Sound(m2, L2)
  BY <1>6, AddBetweenSound DEF Holds, Sound, Node
<1>8. m2.next[new] = q /\ m2.next[p] = new
      /\ \A n \in L : n # p => m2.next[n] = m.next[n]
  <2>1. m2.next = [m.next EXCEPT ![new] = q, ![p] = new]
    BY <1>6 DEF add_between
  <2>2. m.next \in [Node -> Node \union {NULL}] /\ L \subseteq Node /\ new \in Node
        /\ new \notin L
    BY DEF Holds, Sound, Memory, Node
  <2> HIDE DEF m2
  <2> QED
    BY <1>6, <2>1, <2>2
<1> HIDE DEF m2
<1>9. \A i \in 0 .. Len(t) : m2.next[Nth(h, t, i)] = Nth(h, t, i + 1)
  <2> HIDE DEF s
  <2> SUFFICES ASSUME NEW i \in 0 .. N + 1
               PROVE  m2.next[Nth(h, t, i)] = Nth(h, t, i + 1)
    BY <1>2
  <2>1. i \in 0 .. N + 2 /\ i + 1 \in 0 .. N + 2
    BY <1>1
  <2>2. CASE i < k - 1
    <3>1. i < k /\ i + 1 < k /\ i # k - 1 /\ i \in 0 .. N
      BY <1>1, <1>3, <2>1, <2>2
    <3>2. Nth(h, t, i) = Nth(h, s, i) /\ Nth(h, t, i + 1) = Nth(h, s, i + 1)
      BY <1>2, <2>1, <3>1
    <3> QED
      BY <1>5, <1>8, <3>1, <3>2
  <2>3. CASE i = k - 1
    <3>1. i < k /\ ~(i + 1 < k) /\ i + 1 = k
      BY <1>3, <2>3
    <3>2. Nth(h, t, i) = p /\ Nth(h, t, i + 1) = new
      BY <1>2, <2>1, <2>3, <3>1 DEF p
    <3> QED
      BY <1>8, <3>2
  <2>4. CASE i = k
    <3>1. ~(i < k) /\ ~(i + 1 < k) /\ i + 1 # k /\ (i + 1) - 1 = k
      BY <1>3, <2>4
    <3>2. Nth(h, t, i) = new /\ Nth(h, t, i + 1) = q
      BY <1>2, <2>1, <2>4, <3>1 DEF q
    <3> QED
      BY <1>8, <3>2
  <2>5. CASE i > k
    <3>1. /\ ~(i < k) /\ i # k /\ ~(i + 1 < k) /\ i + 1 # k
          /\ i - 1 \in 0 .. N /\ i - 1 # k - 1 /\ (i - 1) + 1 = (i + 1) - 1
      BY <1>1, <1>3, <2>5
    <3>2. Nth(h, t, i) = Nth(h, s, i - 1) /\ Nth(h, t, i + 1) = Nth(h, s, (i + 1) - 1)
      BY <1>2, <2>1, <3>1
    <3>3. Nth(h, s, i - 1) \in L /\ Nth(h, s, i - 1) # p
      BY <1>5, <3>1
    <3>4. m.next[Nth(h, s, i - 1)] = Nth(h, s, (i + 1) - 1)
      BY <1>5, <3>1
    <3> QED
      BY <1>8, <3>2, <3>3, <3>4
  <2> QED
    BY <1>3, <2>1, <2>2, <2>3, <2>4, <2>5
<1>10. Heads \cap L2 = Heads \cap L
  BY NodeAssumption
<1>11. \A g \in DOMAIN ls : g # h =>
         \A i \in 0 .. Len(ls[g]) : m2.next[Nth(g, ls[g], i)] = m.next[Nth(g, ls[g], i)]
  BY <1>4, <1>8
<1>12. Holds(m2, L2, [ls EXCEPT ![h] = t])
  <2> HIDE DEF L2
  <2> QED
    BY <1>2, <1>7, <1>9, <1>10, <1>11, OneListChanges
<1> QED
  BY <1>12 DEF m2, t, p

(* An entry of a list gives its place to a new one.                        *)
LEMMA ReplaceEntryHolds ==
  ASSUME NEW m, NEW L, NEW ls, Holds(m, L, ls), NEW new \in Entries \ L,
         NEW h \in DOMAIN ls, NEW k \in 1 .. Len(ls[h])
  PROVE  LET old == ls[h][k]
         IN  Holds(replace(m, old, new), (L \ {old}) \union {new},
                   [ls EXCEPT ![h] = ReplaceAt(@, k, new)])
<1> DEFINE s == ls[h]
           N == Len(s)
           t == ReplaceAt(s, k, new)
           old == s[k]
           p == Nth(h, s, k - 1)
           q == Nth(h, s, k + 1)
           m2 == replace(m, old, new)
           L2 == (L \ {old}) \union {new}
<1>1. /\ h \in Heads /\ s \in Seq(Entries) /\ N \in Nat
      /\ \A i \in 1 .. N : Nth(h, s, i) = s[i] /\ s[i] \in Entries
      /\ \A i \in 0 .. N : m.prev[Nth(h, s, i + 1)] = Nth(h, s, i)
      /\ Nth(h, s, N + 1) = h /\ h \in L
  <2>1. h \in L
    BY DEF Holds
  <2> QED
    BY <2>1, NthAre
<1>2. /\ k \in 1 .. N /\ k \in 0 .. N /\ k - 1 \in 0 .. N /\ (k - 1) + 1 = k
      /\ k + 1 \in 1 .. N + 1
  BY <1>1
<1>3. \A g \in DOMAIN ls : \A i \in 0 .. Len(ls[g]) :
        /\ Nth(g, ls[g], i) \in L
        /\ Nth(g, ls[g], i) = p => g = h /\ i = k - 1
        /\ Nth(g, ls[g], i) = old => g = h /\ i = k
        /\ m.next[Nth(g, ls[g], i)] = Nth(g, ls[g], i + 1)
  <2>1. old = Nth(h, ls[h], k)
    BY <1>1
  <2> QED
    BY <1>2, <2>1, AllPlaces
<1>4. \A i \in 0 .. N : /\ Nth(h, s, i) \in L
                        /\ Nth(h, s, i) = p => i = k - 1
                        /\ Nth(h, s, i) = old => i = k
                        /\ m.next[Nth(h, s, i)] = Nth(h, s, i + 1)
  BY <1>3
<1>5. /\ t \in Seq(Entries) /\ Len(t) = N
      /\ \A i \in 0 .. N + 1 : Nth(h, t, i) = IF i = k THEN new ELSE Nth(h, s, i)
  <2>1. t = [s EXCEPT ![k] = new]
    BY DEF ReplaceAt
  <2>2. t \in Seq(Entries) /\ Len(t) = N /\ DOMAIN t = DOMAIN s
        /\ \A i \in DOMAIN s : t[i] = IF i = k THEN new ELSE s[i]
    BY <1>1, <2>1
  <2>3. DOMAIN s = 1 .. N
    BY <1>1
  <2> QED
    BY <1>2, <2>2, <2>3 DEF Nth
<1> HIDE DEF N, t, s
<1>6. /\ old = Nth(h, s, k) /\ old \in L /\ old \in Entries
      /\ m.prev[old] = p /\ m.next[old] = q /\ p \in L /\ p # old /\ q # old /\ q \in Node
  <2>1. old = Nth(h, s, k) /\ old \in Entries
    BY <1>1, <1>2
  <2>2. old \in L /\ p \in L /\ m.next[old] = q /\ q \in L
    <3>1. Nth(h, s, k) \in L /\ Nth(h, s, k - 1) \in L /\ m.next[Nth(h, s, k)] = q
      BY <1>2, <1>4
    <3> QED
      BY <2>1, <3>1 DEF Holds, Sound, Rings
  <2>3. m.prev[Nth(h, s, (k - 1) + 1)] = p
    BY <1>1, <1>2
  <2>4. p # old
    BY <1>2, <1>4
  <2>5. q # old
    <3>1. CASE k = N
      BY <1>1, <2>1, <3>1, NodeAssumption
    <3>2. CASE k # N
      <4>1. k + 1 \in 0 .. N /\ k + 1 # k
        BY <1>1, <1>2, <3>2
      <4> QED
        BY <1>4, <4>1
    <3> QED
      BY <3>1, <3>2
  <2> QED
    BY <1>2, <2>1, <2>2, <2>3, <2>4, <2>5 DEF Holds, Sound
<1> HIDE DEF old, p, q
<1>7. Sound(m2, L2)
  BY <1>6, ReplaceSound DEF Holds, Sound, Node
<1>8. /\ m2.next[new] = q /\ m2.next[p] = new
      /\ \A n \in L : n # p => m2.next[n] = m.next[n]
  <2>1. /\ m.next \in [Node -> Node \union {NULL}] /\ m.prev \in [Node -> Node \union {NULL}]
        /\ L \subseteq Node /\ new \in Node /\ new \notin L
    BY DEF Holds, Sound, Memory, Node
  <2>2. [m.prev EXCEPT ![m.next[old]] = new][old] = p
    BY <1>6, <2>1
  <2>3. m2.next = [m.next EXCEPT ![new] = q, ![p] = new]
    BY <1>6, <2>2 DEF replace
  <2> HIDE DEF m2
  <2> QED
    BY <1>6, <2>1, <2>3
<1> HIDE DEF m2
<1>9. \A i \in 0 .. Len(t) : m2.next[Nth(h, t, i)] = Nth(h, t, i + 1)
  <2> SUFFICES ASSUME NEW i \in 0 .. N
               PROVE  m2.next[Nth(h, t, i)] = Nth(h, t, i + 1)
    BY <1>5
  <2>1. i \in 0 .. N + 1 /\ i + 1 \in 0 .. N + 1
    BY <1>1
  <2>2. CASE i = k - 1
    <3>1. i # k /\ i + 1 = k
      BY <1>2, <2>2
    <3>2. Nth(h, t, i) = p /\ Nth(h, t, i + 1) = new
      BY <1>5, <2>1, <2>2, <3>1 DEF p
    <3> QED
      BY <1>8, <3>2
  <2>3. CASE i = k
    <3>1. i + 1 # k
      BY <1>2, <2>3
    <3>2. Nth(h, t, i) = new /\ Nth(h, t, i + 1) = q
      BY <1>5, <2>1, <2>3, <3>1 DEF q
    <3> QED
      BY <1>8, <3>2
  <2>4. CASE i # k - 1 /\ i # k
    <3>1. i + 1 # k
      BY <1>2, <2>4
    <3>2. Nth(h, t, i) = Nth(h, s, i) /\ Nth(h, t, i + 1) = Nth(h, s, i + 1)
      BY <1>5, <2>1, <2>4, <3>1
    <3>3. Nth(h, s, i) \in L /\ Nth(h, s, i) # p
      BY <1>4, <2>4
    <3>4. m.next[Nth(h, s, i)] = Nth(h, s, i + 1)
      BY <1>4
    <3> QED
      BY <1>8, <3>2, <3>3, <3>4
  <2> QED
    BY <2>2, <2>3, <2>4
<1>10. Heads \cap L2 = Heads \cap L
  BY <1>6, NodeAssumption
<1>11. \A g \in DOMAIN ls : g # h =>
         \A i \in 0 .. Len(ls[g]) : m2.next[Nth(g, ls[g], i)] = m.next[Nth(g, ls[g], i)]
  BY <1>3, <1>8
<1>12. Holds(m2, L2, [ls EXCEPT ![h] = t])
  <2> HIDE DEF L2
  <2> QED
    BY <1>5, <1>7, <1>9, <1>10, <1>11, OneListChanges
<1> QED
  BY <1>12 DEF m2, t, s, old

(* A list is opened, or one that was is now t.                             *)
LEMMA OpenHolds ==
  ASSUME NEW m, NEW L, NEW ls, Holds(m, L, ls), NEW h \in Heads,
         NEW m2, NEW L2, Sound(m2, L2), \A g \in Heads : g \in L2 <=> g \in L \/ g = h,
         NEW t \in Seq(Entries),
         \A i \in 0 .. Len(t) : m2.next[Nth(h, t, i)] = Nth(h, t, i + 1),
         \A g \in DOMAIN ls : g # h =>
           \A i \in 0 .. Len(ls[g]) :
             m2.next[Nth(g, ls[g], i)] = m.next[Nth(g, ls[g], i)]
  PROVE  Holds(m2, L2, LS!Open(ls, h, t))
<1> DEFINE ls2 == LS!Open(ls, h, t)
<1>1. /\ DOMAIN ls2 = DOMAIN ls \union {h} /\ ls2[h] = t
      /\ \A g \in DOMAIN ls : g # h => ls2[g] = ls[g]
      /\ ls2 = [g \in DOMAIN ls2 |-> ls2[g]]
  BY DEF LS!Open
<1> HIDE DEF ls2
<1>2. Changed(m, ls, m2, L2, ls2)
  BY <1>1 DEF Changed, Holds
<1>3. Holds(m2, L2, ls2)
  BY <1>2, ListsChange
<1> QED
  BY <1>3 DEF ls2

(* A list is one no more.                                                  *)
LEMMA CloseHolds ==
  ASSUME NEW m, NEW L, NEW ls, Holds(m, L, ls), NEW h \in Heads,
         NEW m2, NEW L2, Sound(m2, L2), Heads \cap L2 = (Heads \cap L) \ {h},
         \A g \in DOMAIN ls : g # h =>
           \A i \in 0 .. Len(ls[g]) :
             m2.next[Nth(g, ls[g], i)] = m.next[Nth(g, ls[g], i)]
  PROVE  Holds(m2, L2, LS!Close(ls, h))
<1> DEFINE ls2 == LS!Close(ls, h)
<1>1. /\ DOMAIN ls2 = DOMAIN ls \ {h}
      /\ \A g \in DOMAIN ls2 : ls2[g] = ls[g]
      /\ ls2 = [g \in DOMAIN ls2 |-> ls2[g]]
  BY DEF LS!Close
<1> HIDE DEF ls2
<1>2. Changed(m, ls, m2, L2, ls2)
  BY <1>1 DEF Changed, Holds
<1>3. Holds(m2, L2, ls2)
  BY <1>2, ListsChange
<1> QED
  BY <1>3 DEF ls2

(* In an empty list there is the head only.                                *)
LEMMA NoneIs ==
  ASSUME NEW h, NEW i
  PROVE  Nth(h, << >>, i) = h
BY DEF Nth

(* INIT_LIST_HEAD of a head that heads nothing, or of an entry.            *)
LEMMA InitHeadHolds ==
  ASSUME NEW m, NEW L, NEW ls, Holds(m, L, ls), NEW h \in Heads \ L
  PROVE  Holds(init_head(m, h), L \union {h}, LS!Open(ls, h, << >>))
<1> DEFINE m2 == init_head(m, h)
           t  == << >>
<1>1. /\ m.next \in [Node -> Node \union {NULL}] /\ L \subseteq Node /\ h \in Node
      /\ h \notin L
  BY DEF Holds, Sound, Memory, Node
<1>2. m2.next[h] = h /\ \A n \in L : m2.next[n] = m.next[n]
  BY <1>1 DEF init_head
<1>3. Sound(m2, L \union {h})
  BY <1>1, InitSound DEF Holds
<1> HIDE DEF m2
<1>4. \A g \in DOMAIN ls : g # h =>
        \A i \in 0 .. Len(ls[g]) : m2.next[Nth(g, ls[g], i)] = m.next[Nth(g, ls[g], i)]
  BY <1>2, AllPlaces
<1>5. t \in Seq(Entries) /\ Len(t) = 0
  OBVIOUS
<1> HIDE DEF t
<1>6. \A i \in 0 .. Len(t) : m2.next[Nth(h, t, i)] = Nth(h, t, i + 1)
  BY <1>2, NoneIs DEF t
<1> DEFINE L2 == L \union {h}
<1>8. Holds(m2, L2, LS!Open(ls, h, t))
  <2>1. h \in Heads /\ Sound(m2, L2)
    BY <1>3
  <2>2. \A g \in Heads : g \in L2 <=> g \in L \/ g = h
    OBVIOUS
  <2> HIDE DEF L2
  <2> QED
    <3>1. t \in Seq(Entries)
      BY <1>5
    <3> QED
      BY <1>4, <1>6, <2>1, <2>2, <3>1, OpenHolds
<1> QED
  BY <1>8 DEF m2, t

(* What is not of the lists may change.                                    *)
LEMMA SameHolds ==
  ASSUME NEW m, NEW L, NEW ls, Holds(m, L, ls),
         NEW m2, NEW L2, Sound(m2, L2), Heads \cap L2 = Heads \cap L,
         \A g \in DOMAIN ls : \A i \in 0 .. Len(ls[g]) :
           m2.next[Nth(g, ls[g], i)] = m.next[Nth(g, ls[g], i)]
  PROVE  Holds(m2, L2, ls)
<1>1. Changed(m, ls, m2, L2, ls)
  BY DEF Changed, Holds
<1> QED
  BY <1>1, ListsChange

(* INIT_LIST_HEAD of an entry that is in no list changes none.             *)
LEMMA InitEntryHolds ==
  ASSUME NEW m, NEW L, NEW ls, Holds(m, L, ls), NEW e \in Entries \ L
  PROVE  Holds(init_head(m, e), L \union {e}, ls)
<1> DEFINE m2 == init_head(m, e)
<1>1. /\ m.next \in [Node -> Node \union {NULL}] /\ L \subseteq Node /\ e \in Node
      /\ e \notin L /\ e \notin Heads
  BY NodeAssumption DEF Holds, Sound, Memory, Node
<1>2. \A n \in L : m2.next[n] = m.next[n]
  BY <1>1 DEF init_head
<1>3. Sound(m2, L \union {e})
  BY <1>1, InitSound DEF Holds
<1> HIDE DEF m2
<1>4. \A g \in DOMAIN ls : \A i \in 0 .. Len(ls[g]) :
        m2.next[Nth(g, ls[g], i)] = m.next[Nth(g, ls[g], i)]
  BY <1>2, AllPlaces
<1>5. Heads \cap (L \union {e}) = Heads \cap L
  BY <1>1
<1>6. Holds(m2, L \union {e}, ls)
  BY <1>3, <1>4, <1>5, SameHolds
<1> QED
  BY <1>6 DEF m2

(* list_del forgets the pointers of what it has taken out.                 *)
LEMMA ForgetHolds ==
  ASSUME NEW m, NEW L, NEW ls, Holds(m, L, ls), NEW e \in Node \ L
  PROVE  Holds([next |-> [m.next EXCEPT ![e] = NULL],
                prev |-> [m.prev EXCEPT ![e] = NULL]], L, ls)
<1> DEFINE m2 == [next |-> [m.next EXCEPT ![e] = NULL],
                  prev |-> [m.prev EXCEPT ![e] = NULL]]
<1>1. Sound(m2, L)
  BY DEF Holds, Sound, Memory, Rings
<1>2. m.next \in [Node -> Node \union {NULL}] /\ L \subseteq Node
  BY DEF Holds, Sound, Memory
<1>3. \A n \in L : m2.next[n] = m.next[n]
  BY <1>2
<1> HIDE DEF m2
<1>4. \A g \in DOMAIN ls : \A i \in 0 .. Len(ls[g]) :
        m2.next[Nth(g, ls[g], i)] = m.next[Nth(g, ls[g], i)]
  BY <1>3, AllPlaces
<1>5. Holds(m2, L, ls)
  BY <1>1, <1>4, SameHolds
<1> QED
  BY <1>5 DEF m2

(* A loose entry is in no list.                                            *)
LEMMA LooseHolds ==
  ASSUME NEW m, NEW L, NEW ls, Holds(m, L, ls), NEW e \in Entries,
         e \in L => m.next[e] = e
  PROVE  Holds(m, L \ {e}, ls)
<1>1. Sound(m, L \ {e})
  BY AloneSound DEF Holds, Node
<1>2. Heads \cap (L \ {e}) = Heads \cap L
  BY NodeAssumption
<1> QED
  BY <1>1, <1>2, SameHolds

(* A head in a ring of its own has an empty list.                          *)
LEMMA AloneHolds ==
  ASSUME NEW m, NEW L, NEW ls, Holds(m, L, ls), NEW h \in Heads,
         h \in L => m.next[h] = h
  PROVE  /\ Holds(m, L \ {h}, LS!Close(ls, h))
         /\ h \in L => h \in DOMAIN ls /\ ls[h] = << >>
<1>1. Sound(m, L \ {h})
  BY AloneSound DEF Holds, Node
<1>2. Heads \cap (L \ {h}) = (Heads \cap L) \ {h}
  OBVIOUS
<1>3. Holds(m, L \ {h}, LS!Close(ls, h))
  BY <1>1, <1>2, CloseHolds
<1>4. ASSUME h \in L
      PROVE  h \in DOMAIN ls /\ ls[h] = << >>
  <2>1. h \in DOMAIN ls
    BY <1>4 DEF Holds
  <2> DEFINE s == ls[h]
  <2>2. s \in Seq(Entries) /\ Nth(h, s, 0) = h /\ Len(s) \in Nat
    BY <2>1, NthAre
  <2>3. 0 \in 0 .. Len(s) /\ 0 + 1 = 1
    BY <2>2
  <2>4. Nth(h, s, 1) = h
    BY <1>4, <2>1, <2>2, <2>3 DEF Holds
  <2>5. CASE Len(s) = 0
    BY <2>1, <2>2, <2>5
  <2>6. CASE Len(s) # 0
    <3>1. 1 \in 0 .. Len(s)
      BY <2>2, <2>6
    <3>2. 0 = 1
      BY <2>1, <2>2, <2>3, <2>4, <3>1, OnePlace
    <3> QED
      BY <3>2
  <2> QED
    BY <2>5, <2>6
<1> QED
  BY <1>3, <1>4

(* The head of a list is taken out, and the list is lost.                  *)
LEMMA DelHeadHolds ==
  ASSUME NEW m, NEW L, NEW ls, Holds(m, L, ls), NEW h \in DOMAIN ls
  PROVE  Holds(del_entry(m, h), L \ {h}, LS!Close(ls, h))
<1> DEFINE s == ls[h]
           N == Len(s)
           p == Nth(h, s, N)
           m2 == del_entry(m, h)
<1>1. /\ h \in Heads /\ h \in L /\ N \in Nat
      /\ Nth(h, s, N + 1) = h
      /\ \A i \in 0 .. N : m.prev[Nth(h, s, i + 1)] = Nth(h, s, i)
  <2>1. h \in L
    BY DEF Holds
  <2> QED
    BY <2>1, NthAre
<1>2. m.prev[h] = p /\ N \in 0 .. N
  BY <1>1
<1>3. Sound(m2, L \ {h})
  BY <1>1, DelEntrySound DEF Holds
<1>4. \A n \in Node : n # p => m2.next[n] = m.next[n]
  <2>1. m2.next = [m.next EXCEPT ![p] = m.next[h]]
    BY <1>2 DEF del_entry, del_between
  <2>2. m.next \in [Node -> Node \union {NULL}]
    BY DEF Holds, Sound, Memory
  <2> HIDE DEF p, m2
  <2> QED
    BY <2>1, <2>2
<1> HIDE DEF m2
<1>5. \A g \in DOMAIN ls : g # h =>
        \A i \in 0 .. Len(ls[g]) : m2.next[Nth(g, ls[g], i)] = m.next[Nth(g, ls[g], i)]
  <2>1. L \subseteq Node
    BY DEF Holds, Sound
  <2> QED
    BY <1>2, <1>4, <2>1, AllPlaces
<1>6. Heads \cap (L \ {h}) = (Heads \cap L) \ {h}
  OBVIOUS
<1>7. Holds(m2, L \ {h}, LS!Close(ls, h))
  BY <1>1, <1>3, <1>5, <1>6, CloseHolds
<1> QED
  BY <1>7 DEF m2

(* A head gives its list to another.                                       *)
LEMMA ReplaceHeadHolds ==
  ASSUME NEW m, NEW L, NEW ls, Holds(m, L, ls), NEW h \in DOMAIN ls, NEW new \in Heads \ L
  PROVE  Holds(replace(m, h, new), (L \ {h}) \union {new},
               LS!Open(LS!Close(ls, h), new, ls[h]))
<1> DEFINE s == ls[h]
           N == Len(s)
           p == Nth(h, s, N)
           q == Nth(h, s, 1)
           m2 == replace(m, h, new)
           L2 == (L \ {h}) \union {new}
<1>1. /\ h \in Heads /\ h \in L /\ N \in Nat /\ s \in Seq(Entries)
      /\ Nth(h, s, 0) = h /\ Nth(h, s, N + 1) = h
      /\ \A i \in 1 .. N : Nth(h, s, i) = s[i] /\ s[i] \in Entries
      /\ \A i \in 0 .. N : m.prev[Nth(h, s, i + 1)] = Nth(h, s, i)
  <2>1. h \in L
    BY DEF Holds
  <2> QED
    BY <2>1, NthAre
<1>2. \A i \in 0 .. N : /\ Nth(h, s, i) \in L
                        /\ Nth(h, s, i) = p => i = N
                        /\ m.next[Nth(h, s, i)] = Nth(h, s, i + 1)
  <2>1. N \in 0 .. N
    BY <1>1
  <2> QED
    BY <2>1, AllPlaces
<1>3. /\ m.prev[h] = p /\ m.next[h] = q /\ p \in L
      /\ N \in 0 .. N /\ 0 \in 0 .. N
  <2>1. N \in 0 .. N /\ 0 \in 0 .. N /\ 0 + 1 = 1
    BY <1>1
  <2>2. m.prev[Nth(h, s, N + 1)] = p /\ p \in L
    BY <1>1, <1>2, <2>1
  <2>3. m.next[Nth(h, s, 0)] = q
    BY <1>2, <2>1
  <2> QED
    BY <1>1, <2>1, <2>2, <2>3
<1>4. /\ m.next \in [Node -> Node \union {NULL}] /\ m.prev \in [Node -> Node \union {NULL}]
      /\ L \subseteq Node /\ new \in Node /\ new \notin L /\ new # h /\ h \in Node
  BY <1>1 DEF Holds, Sound, Memory, Node
<1>5. Sound(m2, L2)
  BY <1>1, <1>4, ReplaceSound DEF Holds
<1>6. \A i \in 0 .. N + 1 : Nth(new, s, i) = IF i \in 1 .. N THEN Nth(h, s, i) ELSE new
  BY <1>1 DEF Nth
<1> HIDE DEF s, p, q, L2
<1>7. N # 0 => q # h
  <2> SUFFICES ASSUME N # 0 PROVE q # h
    OBVIOUS
  <2>1. 1 \in 1 .. N
    BY <1>1
  <2> QED
    BY <1>1, <2>1, NodeAssumption DEF q
<1>8. N = 0 => q = h
  <2>1. N = 0 => 1 = N + 1
    OBVIOUS
  <2> QED
    BY <1>1, <2>1 DEF q
<1> DEFINE prev == [m.prev EXCEPT ![q] = new]
<1>9. m2.next = [m.next EXCEPT ![new] = q, ![prev[h]] = new]
  BY <1>3 DEF replace
<1>10. prev[h] = IF N = 0 THEN new ELSE p
  BY <1>3, <1>4, <1>7, <1>8
<1> HIDE DEF prev, m2, N
<1>11. /\ \A n \in L : n # p => m2.next[n] = m.next[n]
       /\ N = 0 => m2.next[new] = new
       /\ N # 0 => m2.next[new] = q /\ m2.next[p] = new
  BY <1>3, <1>4, <1>9, <1>10
<1>12. \A i \in 0 .. N : m2.next[Nth(new, s, i)] = Nth(new, s, i + 1)
  <2> SUFFICES ASSUME NEW i \in 0 .. N
               PROVE  m2.next[Nth(new, s, i)] = Nth(new, s, i + 1)
    OBVIOUS
  <2>0. i \in 0 .. N + 1 /\ i + 1 \in 0 .. N + 1
    BY <1>1
  <2>1. CASE N = 0
    <3>1. i \notin 1 .. N /\ i + 1 \notin 1 .. N
      BY <2>1
    <3> QED
      BY <1>6, <1>11, <2>0, <2>1, <3>1
  <2>2. CASE N # 0 /\ i = 0
    <3>1. i \notin 1 .. N /\ i + 1 \in 1 .. N /\ i + 1 = 1
      BY <1>1, <2>2
    <3> QED
      BY <1>6, <1>11, <2>0, <2>2, <3>1 DEF q
  <2>3. CASE N # 0 /\ i = N
    <3>1. i \in 1 .. N /\ i + 1 \notin 1 .. N
      BY <1>1, <2>3
    <3> QED
      BY <1>6, <1>11, <2>0, <2>3, <3>1 DEF p
  <2>4. CASE i # 0 /\ i # N
    <3>1. i \in 1 .. N /\ i + 1 \in 1 .. N
      BY <1>1, <2>4
    <3>2. Nth(new, s, i) = Nth(h, s, i) /\ Nth(new, s, i + 1) = Nth(h, s, i + 1)
      BY <1>6, <2>0, <3>1
    <3>3. Nth(h, s, i) \in L /\ Nth(h, s, i) # p /\ m.next[Nth(h, s, i)] = Nth(h, s, i + 1)
      BY <1>2, <2>4
    <3> QED
      BY <1>11, <3>2, <3>3
  <2> QED
    BY <2>1, <2>2, <2>3, <2>4
<1> DEFINE ls1 == LS!Close(ls, h)
<1>13. DOMAIN ls1 = DOMAIN ls \ {h} /\ \A g \in DOMAIN ls1 : ls1[g] = ls[g]
  BY DEF LS!Close
<1>14. \A g \in DOMAIN ls : g # h =>
         \A i \in 0 .. Len(ls[g]) :
           /\ Nth(g, ls[g], i) \in L /\ Nth(g, ls[g], i) # p /\ Nth(g, ls[g], i) # h
  <2>1. /\ N \in 0 .. Len(ls[h]) /\ p = Nth(h, ls[h], N)
        /\ 0 \in 0 .. Len(ls[h]) /\ h = Nth(h, ls[h], 0)
    BY <1>1, <1>3 DEF N, p, s
  <2> QED
    BY <2>1, AllPlaces
<1>15. \A g \in DOMAIN ls1 : \A i \in 0 .. Len(ls1[g]) :
         m2.next[Nth(g, ls1[g], i)] = m.next[Nth(g, ls1[g], i)]
  BY <1>11, <1>13, <1>14
<1> DEFINE ls2 == LS!Open(ls1, new, s)
<1>16. /\ DOMAIN ls2 = DOMAIN ls1 \union {new} /\ ls2[new] = s
       /\ \A g \in DOMAIN ls1 : g # new => ls2[g] = ls1[g]
       /\ ls2 = [g \in DOMAIN ls2 |-> ls2[g]]
  BY DEF LS!Open
<1>17. DOMAIN ls1 \union {new} = Heads \cap L2
  BY <1>13 DEF Holds, L2
<1> HIDE DEF ls2, ls1, L2
<1>18. Changed(m, ls, m2, L2, ls2)
  BY <1>1, <1>12, <1>13, <1>15, <1>16, <1>17 DEF Changed, N
<1>19. Holds(m2, L2, ls2)
  BY <1>5, <1>18, ListsChange
<1> QED
  BY <1>19 DEF m2, L2, ls2, ls1, s

(* The first k entries of a list become a list of their own.               *)
LEMMA CutHolds ==
  ASSUME NEW m, NEW L, NEW ls, Holds(m, L, ls), NEW list \in Heads \ L,
         NEW head \in DOMAIN ls, NEW k \in 1 .. Len(ls[head])
  PROVE  Holds(cut_at(m, list, head, ls[head][k]), L \union {list},
               LS!Open([ls EXCEPT ![head] = SubSeq(@, k + 1, Len(@))], list,
                       SubSeq(ls[head], 1, k)))
<1> DEFINE s == ls[head]
           N == Len(s)
           u == SubSeq(s, 1, k)
           v == SubSeq(s, k + 1, N)
           e == s[k]
           q == Nth(head, s, k + 1)
           f == Nth(head, s, 1)
           m2 == cut_at(m, list, head, e)
           L2 == L \union {list}
           ls2 == LS!Open([ls EXCEPT ![head] = v], list, u)
<1>1. /\ head \in Heads /\ s \in Seq(Entries) /\ N \in Nat /\ head \in L
      /\ \A i \in 1 .. N : Nth(head, s, i) = s[i] /\ s[i] \in Entries
      /\ Nth(head, s, 0) = head
  <2>1. head \in L
    BY DEF Holds
  <2> QED
    BY <2>1, NthAre
<1>2. k \in 1 .. N /\ k \in 0 .. N /\ 0 \in 0 .. N /\ k # 0 /\ 0 + 1 = 1
  BY <1>1
<1>3. \A g \in DOMAIN ls : \A i \in 0 .. Len(ls[g]) :
        /\ Nth(g, ls[g], i) \in L
        /\ Nth(g, ls[g], i) = head => g = head /\ i = 0
        /\ Nth(g, ls[g], i) = e => g = head /\ i = k
        /\ m.next[Nth(g, ls[g], i)] = Nth(g, ls[g], i + 1)
  <2>1. e = Nth(head, ls[head], k) /\ head = Nth(head, ls[head], 0)
    BY <1>1, <1>2
  <2> HIDE DEF e
  <2> QED
    BY <1>2, <2>1, AllPlaces
<1>4. \A i \in 0 .. N : /\ Nth(head, s, i) \in L
                        /\ Nth(head, s, i) = head => i = 0
                        /\ Nth(head, s, i) = e => i = k
                        /\ m.next[Nth(head, s, i)] = Nth(head, s, i + 1)
  BY <1>3
<1>5. /\ u \in Seq(Entries) /\ Len(u) = k
      /\ Nth(list, u, 0) = list /\ Nth(list, u, k + 1) = list
      /\ \A i \in 1 .. k : Nth(list, u, i) = Nth(head, s, i)
  BY <1>1, <1>2, FrontIs
<1>6. /\ v \in Seq(Entries) /\ Len(v) = N - k /\ Nth(head, v, 0) = head
      /\ \A i \in 1 .. (N - k) + 1 : Nth(head, v, i) = Nth(head, s, k + i)
  BY <1>1, <1>2, RestIs
<1> HIDE DEF u, v, N
<1>7. /\ e = Nth(head, s, k) /\ e \in L /\ e # head
      /\ m.next[e] = q /\ m.next[head] = f
  <2>1. e = Nth(head, s, k) /\ Nth(head, s, k) \in L /\ e \in Entries
    BY <1>1, <1>2, <1>4
  <2>2. m.next[Nth(head, s, k)] = q /\ m.next[Nth(head, s, 0)] = f
    BY <1>2, <1>4
  <2> QED
    BY <1>1, <2>1, <2>2, NodeAssumption
<1> HIDE DEF e, q, f
<1>8. Sound(m2, L2)
  BY <1>1, <1>7, CutSound DEF Holds, Sound, Node
<1>9. /\ m2.next[list] = f /\ m2.next[e] = list /\ m2.next[head] = q
      /\ \A n \in L : n # e /\ n # head => m2.next[n] = m.next[n]
  <2>1. m2.next = [m.next EXCEPT ![list] = f, ![e] = list, ![head] = q]
    BY <1>7 DEF cut_at
  <2>2. m.next \in [Node -> Node \union {NULL}] /\ L \subseteq Node /\ list \in Node
        /\ list \notin L /\ e \in L /\ head \in L /\ e # head
    BY <1>1, <1>7 DEF Holds, Sound, Memory, Node
  <2> HIDE DEF m2
  <2> QED
    BY <2>1, <2>2
<1> HIDE DEF m2, s
<1>10. \A i \in 0 .. k : m2.next[Nth(list, u, i)] = Nth(list, u, i + 1)
  <2> SUFFICES ASSUME NEW i \in 0 .. k
               PROVE  m2.next[Nth(list, u, i)] = Nth(list, u, i + 1)
    OBVIOUS
  <2>1. CASE i = 0
    <3>1. 1 \in 1 .. k /\ i + 1 = 1
      BY <1>1, <1>2, <2>1
    <3> QED
      BY <1>5, <1>9, <2>1, <3>1 DEF f
  <2>2. CASE i = k
    <3>1. i \in 1 .. k
      BY <1>1, <1>2, <2>2
    <3> QED
      BY <1>5, <1>7, <1>9, <2>2, <3>1
  <2>3. CASE i # 0 /\ i # k
    <3>1. i \in 1 .. k /\ i + 1 \in 1 .. k /\ i \in 0 .. N
      BY <1>1, <1>2, <2>3
    <3>2. /\ Nth(head, s, i) \in L /\ Nth(head, s, i) # head /\ Nth(head, s, i) # e
          /\ m.next[Nth(head, s, i)] = Nth(head, s, i + 1)
      BY <1>4, <2>3, <3>1
    <3> QED
      BY <1>5, <1>9, <3>1, <3>2
  <2> QED
    BY <2>1, <2>2, <2>3
<1>11. \A i \in 0 .. N - k : m2.next[Nth(head, v, i)] = Nth(head, v, i + 1)
  <2> SUFFICES ASSUME NEW i \in 0 .. N - k
               PROVE  m2.next[Nth(head, v, i)] = Nth(head, v, i + 1)
    OBVIOUS
  <2>0. i + 1 \in 1 .. (N - k) + 1 /\ k + (i + 1) = (k + i) + 1
    BY <1>1, <1>2
  <2>1. CASE i = 0
    <3>1. k + (i + 1) = k + 1
      BY <1>1, <1>2, <2>1
    <3> QED
      BY <1>6, <1>9, <2>0, <2>1, <3>1 DEF q
  <2>2. CASE i # 0
    <3>1. i \in 1 .. (N - k) + 1 /\ k + i \in 0 .. N /\ k + i # 0 /\ k + i # k
      BY <1>1, <1>2, <2>2
    <3>2. /\ Nth(head, s, k + i) \in L /\ Nth(head, s, k + i) # head
          /\ Nth(head, s, k + i) # e
          /\ m.next[Nth(head, s, k + i)] = Nth(head, s, (k + i) + 1)
      BY <1>4, <3>1
    <3> QED
      BY <1>6, <1>9, <2>0, <3>1, <3>2
  <2> QED
    BY <2>1, <2>2
<1>12. /\ DOMAIN ls2 = Heads \cap L2 /\ ls2 = [g \in DOMAIN ls2 |-> ls2[g]]
       /\ ls2[list] = u /\ ls2[head] = v
       /\ \A g \in DOMAIN ls2 : g # list /\ g # head => g \in DOMAIN ls /\ ls2[g] = ls[g]
  <2>1. list # head /\ list \notin DOMAIN ls /\ head \in DOMAIN ls
        /\ DOMAIN ls = Heads \cap L /\ list \in Heads
    BY <1>1 DEF Holds
  <2>2. ls2 = [g \in DOMAIN ls \union {list} |->
                 IF g = list THEN u ELSE IF g = head THEN v ELSE ls[g]]
    BY <2>1 DEF LS!Open
  <2> HIDE DEF ls2
  <2> QED
    BY <2>1, <2>2
<1>13. \A g \in DOMAIN ls : g # head =>
         \A i \in 0 .. Len(ls[g]) :
           m2.next[Nth(g, ls[g], i)] = m.next[Nth(g, ls[g], i)]
  BY <1>3, <1>9
<1> HIDE DEF ls2, L2
<1>14. \A g \in DOMAIN ls2 :
         \/ /\ g \in DOMAIN ls /\ ls2[g] = ls[g]
            /\ \A i \in 0 .. Len(ls[g]) :
                 m2.next[Nth(g, ls[g], i)] = m.next[Nth(g, ls[g], i)]
         \/ /\ ls2[g] \in Seq(Entries)
            /\ \A i \in 0 .. Len(ls2[g]) :
                 m2.next[Nth(g, ls2[g], i)] = Nth(g, ls2[g], i + 1)
  BY <1>5, <1>6, <1>10, <1>11, <1>12, <1>13
<1>15. Changed(m, ls, m2, L2, ls2)
  BY <1>12, <1>14 DEF Changed
<1>16. Holds(m2, L2, ls2)
  BY <1>8, <1>15, ListsChange
<1> QED
  BY <1>16 DEF m2, L2, ls2, u, v, e, s, N

(* The entries of a list go in behind the k-th place of another.           *)
LEMMA SpliceHolds ==
  ASSUME NEW m, NEW L, NEW ls, Holds(m, L, ls),
         NEW list \in DOMAIN ls, NEW head \in DOMAIN ls, list # head, Len(ls[list]) # 0,
         NEW k \in 0 .. Len(ls[head]), NEW p, p = Nth(head, ls[head], k),
         Sound(splice_between(m, list, p, m.next[p]), L \ {list}),
         NEW r \in Seq(Entries), Len(r) = Len(ls[head]) + Len(ls[list]),
         \A i \in 0 .. k : Nth(head, r, i) = Nth(head, ls[head], i),
         \A i \in 1 .. Len(ls[list]) : Nth(head, r, k + i) = Nth(list, ls[list], i),
         \A i \in 1 .. (Len(ls[head]) - k) + 1 :
           Nth(head, r, k + Len(ls[list]) + i) = Nth(head, ls[head], k + i)
  PROVE  Holds(splice_between(m, list, p, m.next[p]), L \ {list},
               LS!Close([ls EXCEPT ![head] = r], list))
<1> DEFINE s == ls[head]
           N == Len(s)
           t == ls[list]
           M == Len(t)
           q == Nth(head, s, k + 1)
           first == Nth(list, t, 1)
           last == Nth(list, t, M)
           m2 == splice_between(m, list, p, m.next[p])
           L2 == L \ {list}
           ls2 == LS!Close([ls EXCEPT ![head] = r], list)
<1>1. /\ head \in Heads /\ s \in Seq(Entries) /\ N \in Nat /\ head \in L
      /\ list \in Heads /\ t \in Seq(Entries) /\ M \in Nat /\ list \in L
      /\ Nth(list, t, M + 1) = list /\ Nth(list, t, 0) = list
      /\ \A i \in 0 .. M : m.prev[Nth(list, t, i + 1)] = Nth(list, t, i)
      /\ \A i \in 1 .. M : Nth(list, t, i) \in Entries
  <2>1. head \in L /\ list \in L
    BY DEF Holds
  <2>2. head \in Heads /\ s \in Seq(Entries) /\ N \in Nat
    BY NthAre
  <2>3. /\ list \in Heads /\ t \in Seq(Entries) /\ M \in Nat
        /\ Nth(list, t, M + 1) = list /\ Nth(list, t, 0) = list
        /\ \A i \in 0 .. M : m.prev[Nth(list, t, i + 1)] = Nth(list, t, i)
        /\ \A i \in 1 .. M : Nth(list, t, i) = t[i] /\ t[i] \in Entries
    BY NthAre
  <2> QED
    BY <2>1, <2>2, <2>3
<1>2. /\ k \in 0 .. N /\ M # 0 /\ M \in 1 .. M /\ 1 \in 1 .. M
      /\ M \in 0 .. M /\ 0 \in 0 .. M /\ 0 + 1 = 1
  BY <1>1
<1>3. \A g \in DOMAIN ls : \A i \in 0 .. Len(ls[g]) :
        /\ Nth(g, ls[g], i) \in L
        /\ Nth(g, ls[g], i) = p => g = head /\ i = k
        /\ Nth(g, ls[g], i) = last => g = list /\ i = M
        /\ m.next[Nth(g, ls[g], i)] = Nth(g, ls[g], i + 1)
  <2>1. k \in 0 .. Len(ls[head]) /\ M \in 0 .. Len(ls[list]) /\ last = Nth(list, ls[list], M)
    BY <1>2
  <2> HIDE DEF last, M
  <2> QED
    BY <2>1, AllPlaces
<1>4. \A i \in 0 .. N : /\ Nth(head, s, i) \in L
                        /\ Nth(head, s, i) = p => i = k
                        /\ Nth(head, s, i) # last
                        /\ m.next[Nth(head, s, i)] = Nth(head, s, i + 1)
  BY <1>3
<1>5. \A i \in 0 .. M : /\ Nth(list, t, i) \in L
                        /\ Nth(list, t, i) # p
                        /\ Nth(list, t, i) = last => i = M
                        /\ m.next[Nth(list, t, i)] = Nth(list, t, i + 1)
  BY <1>3
<1>6. /\ Len(r) = N + M
      /\ \A i \in 0 .. k : Nth(head, r, i) = Nth(head, s, i)
      /\ \A i \in 1 .. M : Nth(head, r, k + i) = Nth(list, t, i)
      /\ \A i \in 1 .. (N - k) + 1 : Nth(head, r, k + M + i) = Nth(head, s, k + i)
  OBVIOUS
<1> HIDE DEF N, M
<1>7. /\ m.next[list] = first /\ m.prev[list] = last /\ m.next[p] = q
      /\ p \in L /\ last \in L /\ p # last /\ p = Nth(head, s, k)
  <2>1. m.next[Nth(list, t, 0)] = Nth(list, t, 0 + 1)
    BY <1>2, <1>5
  <2>2. m.prev[Nth(list, t, M + 1)] = Nth(list, t, M)
    BY <1>1, <1>2
  <2>3. p = Nth(head, s, k)
    OBVIOUS
  <2>4. p \in L /\ p # last /\ m.next[p] = q
    BY <1>2, <1>4, <2>3
  <2> QED
    BY <1>1, <1>2, <1>5, <2>1, <2>2, <2>3, <2>4
<1> HIDE DEF s, t, q, first, last
<1>8. /\ m2.next[p] = first /\ m2.next[last] = q
      /\ \A n \in L : n # p /\ n # last => m2.next[n] = m.next[n]
  <2>1. m2.next = [m.next EXCEPT ![p] = first, ![last] = q]
    BY <1>7 DEF splice_between
  <2>2. m.next \in [Node -> Node \union {NULL}] /\ L \subseteq Node
    BY DEF Holds, Sound, Memory
  <2> HIDE DEF m2
  <2> QED
    BY <1>7, <2>1, <2>2
<1>9. Sound(m2, L2)
  OBVIOUS
<1> HIDE DEF m2
<1>10. \A i \in 0 .. N + M : m2.next[Nth(head, r, i)] = Nth(head, r, i + 1)
  <2>1. ASSUME NEW i \in 0 .. k, i # k
        PROVE  m2.next[Nth(head, r, i)] = Nth(head, r, i + 1)
    <3>1. i \in 0 .. N /\ i + 1 \in 0 .. k
      BY <1>1, <1>2, <2>1
    <3>2. /\ Nth(head, s, i) \in L /\ Nth(head, s, i) # p /\ Nth(head, s, i) # last
          /\ m.next[Nth(head, s, i)] = Nth(head, s, i + 1)
      BY <1>4, <2>1, <3>1
    <3> QED
      BY <1>6, <1>8, <3>1, <3>2
  <2>2. m2.next[Nth(head, r, k)] = Nth(head, r, k + 1)
    <3>1. k \in 0 .. k
      BY <1>1, <1>2
    <3> QED
      BY <1>2, <1>6, <1>7, <1>8, <3>1 DEF first
  <2>3. ASSUME NEW j \in 1 .. M, j # M
        PROVE  m2.next[Nth(head, r, k + j)] = Nth(head, r, (k + j) + 1)
    <3>1. j \in 0 .. M /\ j + 1 \in 1 .. M /\ (k + j) + 1 = k + (j + 1)
      BY <1>1, <1>2, <2>3
    <3>2. /\ Nth(list, t, j) \in L /\ Nth(list, t, j) # p /\ Nth(list, t, j) # last
          /\ m.next[Nth(list, t, j)] = Nth(list, t, j + 1)
      BY <1>5, <2>3, <3>1
    <3> QED
      BY <1>6, <1>8, <3>1, <3>2
  <2>4. m2.next[Nth(head, r, k + M)] = Nth(head, r, (k + M) + 1)
    <3>1. 1 \in 1 .. (N - k) + 1
      BY <1>1, <1>2
    <3>2. Nth(head, r, (k + M) + 1) = q
      BY <1>6, <3>1 DEF q
    <3> QED
      BY <1>2, <1>6, <1>8, <3>2 DEF last
  <2>5. ASSUME NEW j \in 1 .. N - k
        PROVE  m2.next[Nth(head, r, (k + M) + j)] = Nth(head, r, ((k + M) + j) + 1)
    <3>0. j \in Nat /\ j # 0 /\ j <= N - k /\ k \in Nat /\ N - k \in Int
      BY <1>1, <1>2
    <3>1. /\ j \in 1 .. (N - k) + 1 /\ j + 1 \in 1 .. (N - k) + 1
          /\ k + j \in 0 .. N /\ k + j # k
          /\ ((k + M) + j) + 1 = (k + M) + (j + 1) /\ (k + j) + 1 = k + (j + 1)
      <4>1. j \in 1 .. (N - k) + 1 /\ j + 1 \in 1 .. (N - k) + 1
        BY <3>0
      <4>2. k + j \in 0 .. N /\ k + j # k
        BY <1>1, <3>0
      <4> QED
        BY <1>1, <3>0, <4>1, <4>2
    <3>2. /\ Nth(head, s, k + j) \in L /\ Nth(head, s, k + j) # p
          /\ Nth(head, s, k + j) # last
          /\ m.next[Nth(head, s, k + j)] = Nth(head, s, (k + j) + 1)
      BY <1>4, <3>1
    <3>3. /\ Nth(head, r, (k + M) + j) = Nth(head, s, k + j)
          /\ Nth(head, r, (k + M) + (j + 1)) = Nth(head, s, k + (j + 1))
      BY <1>6, <3>1
    <3> QED
      BY <1>8, <3>1, <3>2, <3>3
  <2> SUFFICES ASSUME NEW i \in 0 .. N + M
               PROVE  m2.next[Nth(head, r, i)] = Nth(head, r, i + 1)
    OBVIOUS
  <2>6. CASE i < k
    <3>1. i \in 0 .. k /\ i # k
      BY <1>1, <1>2, <2>6
    <3> QED
      BY <2>1, <3>1
  <2>7. CASE k < i /\ i < k + M
    <3>1. i - k \in 1 .. M /\ i - k # M /\ k + (i - k) = i
      BY <1>1, <1>2, <2>7
    <3> QED
      BY <2>3, <3>1
  <2>8. CASE k + M < i
    <3>1. i - (k + M) \in 1 .. N - k /\ (k + M) + (i - (k + M)) = i
      BY <1>1, <1>2, <2>8
    <3> QED
      BY <2>5, <3>1
  <2>9. i < k \/ i = k \/ (k < i /\ i < k + M) \/ i = k + M \/ k + M < i
    BY <1>1, <1>2
  <2> QED
    BY <2>2, <2>4, <2>6, <2>7, <2>8, <2>9
<1>11. /\ DOMAIN ls2 = Heads \cap L2 /\ ls2 = [g \in DOMAIN ls2 |-> ls2[g]]
       /\ ls2[head] = r
       /\ \A g \in DOMAIN ls2 : g # head => g \in DOMAIN ls /\ g # list /\ ls2[g] = ls[g]
  <2>1. DOMAIN ls = Heads \cap L
    BY DEF Holds
  <2>2. ls2 = [g \in DOMAIN ls \ {list} |-> IF g = head THEN r ELSE ls[g]]
    BY DEF LS!Close
  <2> HIDE DEF ls2
  <2> QED
    BY <1>1, <2>1, <2>2
<1>12. \A g \in DOMAIN ls : g # head /\ g # list =>
         \A i \in 0 .. Len(ls[g]) :
           m2.next[Nth(g, ls[g], i)] = m.next[Nth(g, ls[g], i)]
  BY <1>3, <1>8
<1> HIDE DEF ls2, L2
<1>13. Changed(m, ls, m2, L2, ls2)
  BY <1>6, <1>10, <1>11, <1>12 DEF Changed
<1>14. Holds(m2, L2, ls2)
  BY <1>9, <1>13, ListsChange
<1> QED
  BY <1>14 DEF m2, L2, ls2

-----------------------------------------------------------------------------
(* Where a node is.                                                        *)
LEMMA HomePlace ==
  ASSUME NEW m, NEW L, NEW ls, Holds(m, L, ls), NEW h \in DOMAIN ls,
         NEW k \in 0 .. Len(ls[h]), NEW n, n = Nth(h, ls[h], k)
  PROVE  /\ LS!Home(ls, n) = h /\ LS!Place(ls, n) = k
         /\ n \in DOMAIN ls <=> k = 0
         /\ k = 0 => n = h
         /\ k # 0 => n \in Entries /\ n = ls[h][k]
<1>1. \A g \in DOMAIN ls :
        /\ g \in Heads /\ Len(ls[g]) \in Nat /\ DOMAIN ls[g] = 1 .. Len(ls[g])
        /\ Nth(g, ls[g], 0) = g
        /\ \A i \in 1 .. Len(ls[g]) : Nth(g, ls[g], i) = ls[g][i] /\ ls[g][i] \in Entries
  <2> SUFFICES ASSUME NEW g \in DOMAIN ls
               PROVE  /\ g \in Heads /\ Len(ls[g]) \in Nat /\ DOMAIN ls[g] = 1 .. Len(ls[g])
                      /\ Nth(g, ls[g], 0) = g
                      /\ \A i \in 1 .. Len(ls[g]) :
                           Nth(g, ls[g], i) = ls[g][i] /\ ls[g][i] \in Entries
    OBVIOUS
  <2> QED
    BY NthAre
<1>2. \A g \in DOMAIN ls : \A i \in 0 .. Len(ls[g]) : Nth(g, ls[g], i) = n => g = h /\ i = k
  BY AllPlaces
<1>3. k = 0 \/ k \in 1 .. Len(ls[h])
  BY <1>1
<1>4. /\ n \in DOMAIN ls <=> k = 0
      /\ k = 0 => n = h
      /\ k # 0 => n \in Entries /\ n = ls[h][k]
  BY <1>1, <1>3, NodeAssumption
<1>5. \A g \in DOMAIN ls : (n = g \/ n \in LS!ToSet(ls[g])) <=> g = h
  <2> SUFFICES ASSUME NEW g \in DOMAIN ls
               PROVE  (n = g \/ n \in LS!ToSet(ls[g])) <=> g = h
    OBVIOUS
  <2>1. 0 \in 0 .. Len(ls[g]) /\ \A i \in 1 .. Len(ls[g]) : i \in 0 .. Len(ls[g])
    BY <1>1
  <2>2. ASSUME n = g \/ n \in LS!ToSet(ls[g])
        PROVE  g = h
    BY <1>1, <1>2, <2>1, <2>2 DEF LS!ToSet
  <2>3. n = h \/ n \in LS!ToSet(ls[h])
    BY <1>1, <1>3, <1>4 DEF LS!ToSet
  <2> QED
    BY <2>2, <2>3
<1>6. LS!Home(ls, n) = h
  BY <1>5 DEF LS!Home
<1>7. LS!Place(ls, n) = k
  <2>1. CASE k = 0
    BY <1>4, <2>1 DEF LS!Place
  <2>2. CASE k # 0
    <3>1. LS!Place(ls, n) = CHOOSE i \in DOMAIN ls[h] : ls[h][i] = n
      BY <1>4, <1>6, <2>2 DEF LS!Place
    <3>2. \A i \in DOMAIN ls[h] : ls[h][i] = n <=> i = k
      <4>1. \A i \in 1 .. Len(ls[h]) : i \in 0 .. Len(ls[h])
        BY <1>1
      <4> QED
        BY <1>1, <1>2, <1>4, <2>2, <4>1
    <3>3. k \in DOMAIN ls[h]
      BY <1>1, <1>3, <2>2
    <3> QED
      BY <3>1, <3>2, <3>3
  <2> QED
    BY <2>1, <2>2
<1> QED
  BY <1>4, <1>6, <1>7

At(ls, n, h, k) == h \in DOMAIN ls /\ k \in 0 .. Len(ls[h]) /\ n = Nth(h, ls[h], k)

(* list_add and list_add_tail of an entry that is in no list.              *)
LEMMA AfterHolds ==
  ASSUME NEW m, NEW L, NEW ls, Holds(m, L, ls), NEW new \in Entries \ L,
         NEW n, NEW h, NEW k, At(ls, n, h, k)
  PROVE  Holds(add(m, new, n), L \union {new}, LS!After(ls, n, new))
<1>1. /\ h \in DOMAIN ls /\ k \in 0 .. Len(ls[h]) /\ n = Nth(h, ls[h], k)
      /\ Len(ls[h]) \in Nat
  BY NthAre DEF At
<1>2. LS!Home(ls, n) = h /\ LS!Place(ls, n) = k
  BY <1>1, HomePlace
<1>3. k + 1 \in 1 .. Len(ls[h]) + 1 /\ (k + 1) - 1 = k
  BY <1>1
<1>4. Holds(add_between(m, new, n, m.next[n]), L \union {new},
            [ls EXCEPT ![h] = InsertAt(@, k + 1, new)])
  <2> DEFINE j == k + 1
  <2>1. j \in 1 .. Len(ls[h]) + 1 /\ Nth(h, ls[h], j - 1) = n
    BY <1>1, <1>3
  <2> HIDE DEF j
  <2>2. LET p == Nth(h, ls[h], j - 1)
        IN  Holds(add_between(m, new, p, m.next[p]), L \union {new},
                  [ls EXCEPT ![h] = InsertAt(@, j, new)])
    BY <1>1, <2>1, AddHolds
  <2> QED
    BY <2>1, <2>2 DEF j
<1> QED
  BY <1>2, <1>4 DEF add, LS!After, LS!InsertAt, InsertAt

(* The same for list_add_tail.                                             *)
LEMMA BeforeHolds ==
  ASSUME NEW m, NEW L, NEW ls, Holds(m, L, ls), NEW new \in Entries \ L,
         NEW n, NEW h, NEW k, At(ls, n, h, k)
  PROVE  Holds(add_tail(m, new, n), L \union {new}, LS!Before(ls, n, new))
<1>1. /\ h \in DOMAIN ls /\ k \in 0 .. Len(ls[h]) /\ n = Nth(h, ls[h], k)
      /\ h \in Heads /\ ls[h] \in Seq(Entries) /\ Len(ls[h]) \in Nat
      /\ Nth(h, ls[h], Len(ls[h]) + 1) = h
      /\ \A i \in 0 .. Len(ls[h]) :
           /\ m.next[Nth(h, ls[h], i)] = Nth(h, ls[h], i + 1)
           /\ m.prev[Nth(h, ls[h], i + 1)] = Nth(h, ls[h], i)
  <2>1. h \in DOMAIN ls /\ k \in 0 .. Len(ls[h]) /\ n = Nth(h, ls[h], k)
    BY DEF At
  <2> QED
    BY <2>1, NthAre
<1>2. /\ LS!Home(ls, n) = h /\ LS!Place(ls, n) = k
      /\ n \in DOMAIN ls <=> k = 0
      /\ k = 0 => n = h
  BY <1>1, HomePlace
<1> DEFINE j == IF k = 0 THEN Len(ls[h]) + 1 ELSE k
           p == Nth(h, ls[h], j - 1)
<1>3. j \in 1 .. Len(ls[h]) + 1 /\ j - 1 \in 0 .. Len(ls[h]) /\ (j - 1) + 1 = j
  BY <1>1
<1>4. Nth(h, ls[h], j) = n
  BY <1>1, <1>2
<1>5. LS!Before(ls, n, new) = [ls EXCEPT ![h] = InsertAt(@, j, new)]
  <2>1. CASE k = 0
    <3>1. Append(ls[h], new) = InsertAt(ls[h], Len(ls[h]) + 1, new)
      BY <1>1, AppendIs
    <3> QED
      BY <1>2, <2>1, <3>1 DEF LS!Before
  <2>2. CASE k # 0
    BY <1>2, <2>2 DEF LS!Before, LS!InsertAt, InsertAt
  <2> QED
    BY <2>1, <2>2
<1> HIDE DEF j
<1>6. m.prev[n] = p /\ m.next[p] = n
  BY <1>1, <1>3, <1>4
<1>7. Holds(add_between(m, new, p, m.next[p]), L \union {new},
            [ls EXCEPT ![h] = InsertAt(@, j, new)])
  BY <1>1, <1>3, AddHolds
<1> QED
  BY <1>5, <1>6, <1>7 DEF add_tail

Removed(ls, h, k) == [ls EXCEPT ![h] = RemoveAt(@, k)]

(* An entry is taken out; the other nodes of the lists stay theirs.        *)
LEMMA WithoutHolds ==
  ASSUME NEW m, NEW L, NEW ls, Holds(m, L, ls),
         NEW h \in DOMAIN ls, NEW k \in 1 .. Len(ls[h]), NEW e, e = ls[h][k]
  PROVE  /\ Holds(del_entry(m, e), L \ {e}, LS!Without(ls, e))
         /\ LS!Without(ls, e) = Removed(ls, h, k)
<1>1. /\ Len(ls[h]) \in Nat /\ Nth(h, ls[h], k) = e
  BY NthAre
<1>2. k \in 0 .. Len(ls[h])
  BY <1>1
<1>3. LS!Home(ls, e) = h /\ LS!Place(ls, e) = k
  BY <1>1, <1>2, HomePlace
<1>4. LS!Without(ls, e) = Removed(ls, h, k)
  BY <1>3 DEF LS!Without, LS!RemoveAt, RemoveAt, Removed
<1> QED
  BY <1>4, DelHolds DEF Removed

(* What is not taken out stays in its list.                                *)
LEMMA StillThere ==
  ASSUME NEW m, NEW L, NEW ls, Holds(m, L, ls),
         NEW h \in DOMAIN ls, NEW k \in 1 .. Len(ls[h]),
         NEW n, n # ls[h][k], NEW g, NEW j, At(ls, n, g, j)
  PROVE  \E i \in Nat : At(Removed(ls, h, k), n, g, i)
<1> DEFINE s == ls[h]
           N == Len(s)
           t == RemoveAt(s, k)
           ls2 == Removed(ls, h, k)
<1>1. h \in Heads /\ s \in Seq(Entries) /\ N \in Nat /\ Nth(h, s, k) = s[k]
  BY NthAre
<1>2. g \in DOMAIN ls /\ j \in 0 .. Len(ls[g]) /\ n = Nth(g, ls[g], j) /\ Len(ls[g]) \in Nat
  BY NthAre DEF At
<1>3. DOMAIN ls2 = DOMAIN ls /\ ls2[h] = t /\ (g # h => ls2[g] = ls[g])
  BY <1>2 DEF Removed
<1>4. /\ Len(t) = N - 1
      /\ \A i \in 0 .. N : Nth(h, t, i) = IF i < k THEN Nth(h, s, i) ELSE Nth(h, s, i + 1)
  BY <1>1, RemoveIs
<1>5. k \in 1 .. N /\ n # Nth(h, s, k)
  BY <1>1
<1> HIDE DEF t, ls2
<1>6. CASE g # h
  BY <1>2, <1>3, <1>6 DEF At, ls2
<1>7. CASE g = h
  <2>1. n = Nth(h, s, j) /\ j \in 0 .. N /\ j # k
    BY <1>2, <1>5, <1>7
  <2> HIDE DEF s, N
  <2>2. CASE j < k
    <3>1. j \in 0 .. N - 1 /\ j \in Nat
      BY <1>1, <1>5, <2>1, <2>2
    <3>2. n = Nth(h, t, j)
      BY <1>4, <2>1, <2>2
    <3> QED
      BY <1>2, <1>3, <1>4, <1>7, <3>1, <3>2 DEF At, ls2, t, s
  <2>3. CASE ~(j < k)
    <3>1. j - 1 \in 0 .. N - 1 /\ j - 1 \in 0 .. N /\ ~(j - 1 < k) /\ (j - 1) + 1 = j
          /\ j - 1 \in Nat
      BY <1>1, <1>5, <2>1, <2>3
    <3>2. n = Nth(h, t, j - 1)
      BY <1>4, <2>1, <3>1
    <3> QED
      BY <1>2, <1>3, <1>4, <1>7, <3>1, <3>2 DEF At, ls2, t, s
  <2> QED
    BY <2>2, <2>3
<1> QED
  BY <1>6, <1>7

(* list_move and list_move_tail.                                           *)
LEMMA MoveHolds ==
  ASSUME NEW m, NEW L, NEW ls, Holds(m, L, ls),
         NEW h \in DOMAIN ls, NEW k \in 1 .. Len(ls[h]), NEW e, e = ls[h][k],
         NEW n, n # e, NEW g, NEW j, At(ls, n, g, j)
  PROVE  /\ Holds(move(m, e, n), L, LS!After(LS!Without(ls, e), n, e))
         /\ Holds(move_tail(m, e, n), L, LS!Before(LS!Without(ls, e), n, e))
<1> DEFINE ls1 == LS!Without(ls, e)
           d == del_entry(m, e)
           L1 == L \ {e}
<1>1. Holds(d, L1, ls1) /\ ls1 = Removed(ls, h, k)
  BY WithoutHolds
<1>2. PICK x \in Nat : At(ls1, n, g, x)
  BY <1>1, StillThere
<1>3. e \in Entries \ L1 /\ L1 \union {e} = L
  <2>1. /\ \A i \in 1 .. Len(ls[h]) : Nth(h, ls[h], i) = ls[h][i] /\ ls[h][i] \in Entries
        /\ \A i \in 0 .. Len(ls[h]) + 1 : Nth(h, ls[h], i) \in L
        /\ Len(ls[h]) \in Nat
    BY NthAre
  <2>2. k \in 0 .. Len(ls[h]) + 1
    BY <2>1
  <2> QED
    BY <2>1, <2>2
<1> HIDE DEF ls1, d, L1
<1>4. Holds(add(d, e, n), L1 \union {e}, LS!After(ls1, n, e))
  BY <1>1, <1>2, <1>3, AfterHolds
<1>5. Holds(add_tail(d, e, n), L1 \union {e}, LS!Before(ls1, n, e))
  BY <1>1, <1>2, <1>3, BeforeHolds
<1> QED
  BY <1>3, <1>4, <1>5 DEF move, move_tail, d, ls1

(* list_replace, of an entry and of a head.                                *)
LEMMA ReplaceHolds ==
  ASSUME NEW m, NEW L, NEW ls, Holds(m, L, ls),
         NEW h \in DOMAIN ls, NEW k \in 1 .. Len(ls[h]), NEW old, old = ls[h][k],
         NEW new \in Entries \ L
  PROVE  Holds(replace(m, old, new), (L \ {old}) \union {new},
               [ls EXCEPT ![LS!Home(ls, old)] = ReplaceAt(@, LS!Place(ls, old), new)])
<1>1. Len(ls[h]) \in Nat /\ Nth(h, ls[h], k) = old
  BY NthAre
<1>2. k \in 0 .. Len(ls[h])
  BY <1>1
<1>3. LS!Home(ls, old) = h /\ LS!Place(ls, old) = k
  BY <1>1, <1>2, HomePlace
<1> QED
  BY <1>3, ReplaceEntryHolds

Lists == [h \in Open |-> Walk(mem.next, h)]

ListsInv == Holds(mem, linked, Lists)

(* What the memory holds after a call are the lists after it.              *)
LEMMA ResultIs ==
  ASSUME NEW X, Holds(mem', linked', X)
  PROVE  ListsInv' /\ Lists' = X
<1>1. X = [h \in Heads \cap linked' |-> Walk(mem'.next, h)]
  BY HoldsWalks
<1>2. Lists' = X
  BY <1>1 DEF Lists, Open
<1> QED
  BY <1>2 DEF ListsInv

(* The lists are the walks from the heads.                                 *)
LEMMA ListsAre ==
  /\ DOMAIN Lists = Open
  /\ \A h \in Open : Lists[h] = Walk(mem.next, h)
BY DEF Lists

(* What the callers can get at has a place.                                *)
LEMMA ListedAt ==
  ASSUME ListsInv, NEW n \in Listed
  PROVE  /\ n \in LS!Nodes
         /\ \E h, k : At(Lists, n, h, k)
<1>1. PICK h \in Open : n \in Ring(h)
  BY DEF Listed
<1>2. n = h \/ n \in ToSet(Lists[h])
  BY <1>1, ListsAre DEF Ring
<1>3. h \in DOMAIN Lists
  BY ListsAre
<1>4. /\ Len(Lists[h]) \in Nat /\ DOMAIN Lists[h] = 1 .. Len(Lists[h])
      /\ Nth(h, Lists[h], 0) = h
      /\ \A i \in 1 .. Len(Lists[h]) : Nth(h, Lists[h], i) = Lists[h][i]
  BY <1>3, NthAre DEF ListsInv
<1>5. CASE n = h
  <2>1. At(Lists, n, h, 0)
    BY <1>3, <1>4, <1>5 DEF At
  <2>2. n \in LS!Nodes
    BY <1>3, <1>5 DEF LS!Nodes, Lists
  <2> QED
    BY <2>1, <2>2
<1>6. CASE n \in ToSet(Lists[h])
  <2>1. PICK i \in 1 .. Len(Lists[h]) : n = Lists[h][i]
    BY <1>4, <1>6 DEF ToSet
  <2>2. At(Lists, n, h, i)
    BY <1>3, <1>4, <2>1 DEF At
  <2>3. n \in LS!Members(Lists)
    BY <1>3, <1>4, <2>1 DEF LS!Members, LS!ToSet
  <2>4. n \in LS!Nodes
    BY <2>3 DEF LS!Nodes, Lists
  <2> QED
    BY <2>2, <2>4
<1> QED
  BY <1>2, <1>5, <1>6

(* An entry the callers can get at is in a list.                           *)
LEMMA MemberAt ==
  ASSUME ListsInv, NEW n, NEW h, NEW k, At(Lists, n, h, k), n \in Entries
  PROVE  /\ n \in LS!Members(Lists)
         /\ h \in DOMAIN Lists /\ k \in 1 .. Len(Lists[h]) /\ n = Lists[h][k]
<1>1. h \in DOMAIN Lists /\ k \in 0 .. Len(Lists[h]) /\ n = Nth(h, Lists[h], k)
  BY DEF At
<1>2. /\ h \in Heads /\ Len(Lists[h]) \in Nat /\ DOMAIN Lists[h] = 1 .. Len(Lists[h])
      /\ Nth(h, Lists[h], 0) = h
      /\ \A i \in 1 .. Len(Lists[h]) : Nth(h, Lists[h], i) = Lists[h][i]
  BY <1>1, NthAre DEF ListsInv
<1>3. k # 0
  BY <1>1, <1>2, NodeAssumption
<1>4. k \in 1 .. Len(Lists[h]) /\ n = Lists[h][k]
  BY <1>1, <1>2, <1>3
<1> QED
  BY <1>1, <1>2, <1>4 DEF LS!Members, LS!ToSet

(* A head is in front of its list.                                         *)
LEMMA HeadAt ==
  ASSUME ListsInv, NEW n \in Open
  PROVE  n \in DOMAIN Lists /\ At(Lists, n, n, 0) /\ n \in linked
<1>1. n \in DOMAIN Lists /\ n \in linked
  BY ListsAre DEF Open
<1>2. Len(Lists[n]) \in Nat /\ Nth(n, Lists[n], 0) = n
  BY <1>1, NthAre DEF ListsInv
<1> QED
  BY <1>1, <1>2 DEF At

(* A node that is unattached is in no list.                                *)
LEMMA UnattachedIs ==
  ASSUME ListsInv, NEW e \in Entries, Unattached(e)
  PROVE  /\ Holds(mem, linked \ {e}, Lists)
         /\ e \in LS!Loose
<1> DEFINE L1 == linked \ {e}
<1>1. Holds(mem, L1, Lists)
  BY LooseHolds DEF ListsInv, Unattached
<1> HIDE DEF L1
<1>2. \A h \in DOMAIN Lists : e \notin LS!ToSet(Lists[h])
  <2> SUFFICES ASSUME NEW h \in DOMAIN Lists
               PROVE  e \notin LS!ToSet(Lists[h])
    OBVIOUS
  <2>1. /\ Len(Lists[h]) \in Nat /\ DOMAIN Lists[h] = 1 .. Len(Lists[h])
        /\ \A i \in 1 .. Len(Lists[h]) : Nth(h, Lists[h], i) = Lists[h][i]
        /\ \A i \in 0 .. Len(Lists[h]) + 1 : Nth(h, Lists[h], i) \in L1
    BY <1>1, NthAre
  <2>2. \A i \in 1 .. Len(Lists[h]) : Lists[h][i] \in L1
    BY <2>1
  <2> QED
    BY <2>1, <2>2 DEF LS!ToSet, L1
<1>3. e \notin LS!Members(Lists)
  BY <1>2 DEF LS!Members
<1>4. e \in LS!Loose
  BY <1>3 DEF LS!Loose, Lists
<1> QED
  BY <1>1, <1>4 DEF L1

-----------------------------------------------------------------------------
(* The calls, one by one.                                                  *)
LEMMA InitStep ==
  ASSUME ListsInv, NEW h \in Heads, INIT_LIST_HEAD(h)
  PROVE  ListsInv' /\ LS!INIT_LIST_HEAD(h)
<1>1. h \in Heads \ linked /\ mem' = init_head(mem, h) /\ linked' = linked \union {h}
      /\ call' = <<"INIT_LIST_HEAD", h>>
  BY DEF INIT_LIST_HEAD
<1>2. Holds(mem', linked', LS!Open(Lists, h, << >>))
  BY <1>1, InitHeadHolds DEF ListsInv
<1>3. ListsInv' /\ Lists' = LS!Open(Lists, h, << >>)
  BY <1>2, ResultIs
<1>4. h \notin DOMAIN Lists
  BY <1>1, ListsAre DEF Open
<1> QED
  BY <1>1, <1>3, <1>4 DEF LS!INIT_LIST_HEAD, Lists

(* list_add and list_add_tail.                                             *)
LEMMA AddStep ==
  ASSUME ListsInv, NEW new \in Entries, NEW n \in Node,
         list_add(new, n) \/ list_add_tail(new, n)
  PROVE  ListsInv' /\ (LS!list_add(new, n) \/ LS!list_add_tail(new, n))
<1>1. new \in Entries /\ Unattached(new) /\ n \in Listed /\ linked' = linked \union {new}
  BY DEF list_add, list_add_tail
<1>2. n \in LS!Nodes
  BY <1>1, ListedAt
<1>3. PICK h, k : At(Lists, n, h, k)
  BY <1>1, ListedAt
<1> DEFINE L1 == linked \ {new}
<1>4. /\ Holds(mem, L1, Lists) /\ new \in LS!Loose
      /\ new \in Entries \ L1 /\ L1 \union {new} = linked'
  BY <1>1, UnattachedIs
<1> HIDE DEF L1
<1>5. CASE list_add(new, n)
  <2>1. Holds(add(mem, new, n), L1 \union {new}, LS!After(Lists, n, new))
    BY <1>3, <1>4, AfterHolds
  <2>2. ListsInv' /\ Lists' = LS!After(Lists, n, new)
    BY <1>4, <1>5, <2>1, ResultIs DEF list_add
  <2> QED
    BY <1>2, <1>4, <1>5, <2>2 DEF list_add, LS!list_add, Lists
<1>6. CASE list_add_tail(new, n)
  <2>1. Holds(add_tail(mem, new, n), L1 \union {new}, LS!Before(Lists, n, new))
    BY <1>3, <1>4, BeforeHolds
  <2>2. ListsInv' /\ Lists' = LS!Before(Lists, n, new)
    BY <1>4, <1>6, <2>1, ResultIs DEF list_add_tail
  <2> QED
    BY <1>2, <1>4, <1>6, <2>2 DEF list_add_tail, LS!list_add_tail, Lists
<1> QED
  BY <1>5, <1>6

(* list_del.                                                               *)
LEMMA DelStep ==
  ASSUME ListsInv, NEW e \in Entries, list_del(e)
  PROVE  ListsInv' /\ LS!list_del(e)
<1>1. /\ e \in Listed /\ mem' = del(mem, e) /\ linked' = linked \ {e}
      /\ call' = <<"list_del", e>>
  BY DEF list_del, Members
<1>2. PICK h, k : At(Lists, e, h, k)
  BY <1>1, ListedAt
<1>3. /\ e \in LS!Members(Lists)
      /\ h \in DOMAIN Lists /\ k \in 1 .. Len(Lists[h]) /\ e = Lists[h][k]
  BY <1>2, MemberAt
<1> DEFINE d == del_entry(mem, e)
<1>4. Holds(d, linked \ {e}, LS!Without(Lists, e))
  BY <1>3, WithoutHolds DEF ListsInv
<1>5. e \in Node \ (linked \ {e})
  BY DEF Node
<1> HIDE DEF d
<1>6. Holds([next |-> [d.next EXCEPT ![e] = NULL],
             prev |-> [d.prev EXCEPT ![e] = NULL]], linked', LS!Without(Lists, e))
  BY <1>1, <1>4, <1>5, ForgetHolds
<1>7. Holds(mem', linked', LS!Without(Lists, e))
  BY <1>1, <1>6 DEF del, d
<1>8. ListsInv' /\ Lists' = LS!Without(Lists, e)
  BY <1>7, ResultIs
<1> QED
  BY <1>1, <1>3, <1>8 DEF LS!list_del, Lists

(* A list that is closed and opened is opened.                             *)
LEMMA Reopened ==
  ASSUME NEW ls, NEW h, NEW s
  PROVE  LS!Open(LS!Close(ls, h), h, s) = LS!Open(ls, h, s)
<1>1. (DOMAIN ls \ {h}) \union {h} = DOMAIN ls \union {h}
  OBVIOUS
<1>2. DOMAIN LS!Close(ls, h) = DOMAIN ls \ {h}
  BY DEF LS!Close
<1>3. \A g \in DOMAIN ls \union {h} : g # h => LS!Close(ls, h)[g] = ls[g]
  BY DEF LS!Close
<1> QED
  BY <1>1, <1>2, <1>3 DEF LS!Open

(* list_del_init, of an entry and of a head.                               *)
LEMMA DelInitStep ==
  ASSUME ListsInv, NEW n \in Node, list_del_init(n)
  PROVE  ListsInv' /\ LS!list_del_init(n)
<1>1. /\ n \in Listed /\ linked' = linked /\ call' = <<"list_del_init", n>>
      /\ mem' = init_head(del_entry(mem, n), n) /\ n \in linked
  BY DEF list_del_init, del_init, Listed
<1>2. n \in LS!Nodes
  BY <1>1, ListedAt
<1> DEFINE d == del_entry(mem, n)
           L1 == linked \ {n}
<1>3. L1 \union {n} = linked' /\ n \notin L1
  BY <1>1
<1>4. CASE n \in Entries
  <2>1. PICK h, k : At(Lists, n, h, k)
    BY <1>1, ListedAt
  <2>2. h \in DOMAIN Lists /\ k \in 1 .. Len(Lists[h]) /\ n = Lists[h][k]
    BY <1>4, <2>1, MemberAt
  <2>3. Holds(d, L1, LS!Without(Lists, n))
    BY <2>2, WithoutHolds DEF ListsInv
  <2> HIDE DEF d, L1
  <2>4. Holds(init_head(d, n), L1 \union {n}, LS!Without(Lists, n))
    BY <1>3, <1>4, <2>3, InitEntryHolds
  <2>5. Holds(mem', linked', LS!Without(Lists, n))
    BY <1>1, <1>3, <2>4 DEF d
  <2>6. ListsInv' /\ Lists' = LS!Without(Lists, n)
    BY <2>5, ResultIs
  <2>7. n \notin DOMAIN Lists
    BY <1>4, NodeAssumption, ListsAre DEF Open
  <2> QED
    BY <1>1, <1>2, <2>6, <2>7 DEF LS!list_del_init, Lists
<1>5. CASE n \in Heads
  <2>1. n \in DOMAIN Lists
    BY <1>1, <1>5, ListsAre DEF Open
  <2>2. Holds(d, L1, LS!Close(Lists, n))
    BY <2>1, DelHeadHolds DEF ListsInv
  <2> HIDE DEF d, L1
  <2>3. Holds(init_head(d, n), L1 \union {n}, LS!Open(LS!Close(Lists, n), n, << >>))
    BY <1>3, <1>5, <2>2, InitHeadHolds
  <2>4. Holds(mem', linked', LS!Open(Lists, n, << >>))
    BY <1>1, <1>3, <2>3, Reopened DEF d
  <2>5. ListsInv' /\ Lists' = LS!Open(Lists, n, << >>)
    BY <2>4, ResultIs
  <2> QED
    BY <1>1, <1>2, <2>1, <2>5 DEF LS!list_del_init, Lists
<1> QED
  BY <1>4, <1>5 DEF Node

(* list_replace and list_replace_init, of an entry and of a head.          *)
LEMMA ReplaceStep ==
  ASSUME ListsInv, NEW old \in Node, NEW new \in Node,
         list_replace(old, new) \/ list_replace_init(old, new)
  PROVE  /\ ListsInv'
         /\ LS!list_replace(old, new) \/ LS!list_replace_init(old, new)
<1>1. Replaceable(old, new)
  BY DEF list_replace, list_replace_init
<1> DEFINE r == replace(mem, old, new)
           L1 == linked \ {new}
           L2 == (L1 \ {old}) \union {new}
           result == LS!Replaced(old, new)
<1>2. ASSUME Holds(r, L2, result), old # new, old \in linked,
             IF old \in DOMAIN Lists THEN new \in Heads \ DOMAIN Lists
             ELSE old \in LS!Members(Lists) /\ new \in LS!Loose,
             old \in Node, old \in Heads <=> old \in DOMAIN Lists
      PROVE  /\ ListsInv'
             /\ LS!list_replace(old, new) \/ LS!list_replace_init(old, new)
  <2>1. CASE list_replace(old, new)
    <3>1. L2 = linked'
      BY <2>1 DEF list_replace
    <3>2. mem' = r /\ call' = <<"list_replace", old, new>>
      BY <2>1 DEF list_replace
    <3>3. ListsInv' /\ Lists' = result
      BY <1>2, <3>1, <3>2, ResultIs
    <3> QED
      BY <1>2, <3>2, <3>3 DEF LS!list_replace, Lists
  <2>2. CASE list_replace_init(old, new)
    <3>1. L2 \union {old} = linked' /\ old \notin L2
      BY <1>2, <2>2 DEF list_replace_init
    <3>2. mem' = init_head(r, old) /\ call' = <<"list_replace_init", old, new>>
      BY <2>2 DEF list_replace_init, replace_init
    <3> HIDE DEF r, L2, result
    <3>3. CASE old \in DOMAIN Lists
      <4>1. Holds(init_head(r, old), L2 \union {old}, LS!Open(result, old, << >>))
        BY <1>2, <3>1, <3>3, InitHeadHolds
      <4>2. ListsInv' /\ Lists' = LS!Open(result, old, << >>)
        BY <3>1, <3>2, <4>1, ResultIs
      <4> QED
        BY <1>2, <3>2, <3>3, <4>2 DEF LS!list_replace_init, Lists, result
    <3>4. CASE old \notin DOMAIN Lists
      <4>1. old \in Entries \ L2
        BY <1>2, <3>1, <3>4 DEF Node
      <4>2. Holds(init_head(r, old), L2 \union {old}, result)
        BY <1>2, <4>1, InitEntryHolds
      <4>3. ListsInv' /\ Lists' = result
        BY <3>1, <3>2, <4>2, ResultIs
      <4> QED
        BY <1>2, <3>2, <3>4, <4>3 DEF LS!list_replace_init, Lists, result
    <3> QED
      BY <3>3, <3>4
  <2> QED
    BY <2>1, <2>2
<1>3. CASE old \in Members /\ new \in Entries \ {old} /\ Unattached(new)
  <2>1. old \in Listed /\ old \in Entries /\ old \in linked /\ old # new
    BY <1>3 DEF Members, Listed, Node
  <2>2. PICK h, k : At(Lists, old, h, k)
    BY <2>1, ListedAt
  <2>3. /\ old \in LS!Members(Lists)
        /\ h \in DOMAIN Lists /\ k \in 1 .. Len(Lists[h]) /\ old = Lists[h][k]
    BY <2>1, <2>2, MemberAt
  <2>4. Holds(mem, L1, Lists) /\ new \in LS!Loose
    BY <1>3, UnattachedIs
  <2>5. old \notin DOMAIN Lists /\ old \notin Heads
    BY <2>1, NodeAssumption, ListsAre DEF Open
  <2>6. new \in Entries \ L1
    BY <1>3
  <2>7. Holds(r, L2, [Lists EXCEPT ![LS!Home(Lists, old)] =
                        ReplaceAt(@, LS!Place(Lists, old), new)])
    <3> HIDE DEF L1
    <3> QED
      BY <2>3, <2>4, <2>6, ReplaceHolds
  <2>8. result = [Lists EXCEPT ![LS!Home(Lists, old)] =
                    ReplaceAt(@, LS!Place(Lists, old), new)]
    BY <2>5 DEF LS!Replaced, Lists, LS!ReplaceAt, ReplaceAt
  <2>9. Holds(r, L2, result)
    BY <2>7, <2>8
  <2> HIDE DEF r, L2, result
  <2> QED
    BY <1>2, <2>1, <2>3, <2>4, <2>5, <2>9 DEF Node
<1>4. CASE old \in Open /\ new \in Heads \ linked
  <2>1. old \in DOMAIN Lists /\ old \in linked /\ old \in Heads
    BY <1>4, HeadAt DEF Open
  <2>2. L1 = linked /\ old # new /\ new \notin DOMAIN Lists
    BY <1>4, <2>1, ListsAre DEF Open
  <2>3. Holds(r, L2, LS!Open(LS!Close(Lists, old), new, Lists[old]))
    <3> HIDE DEF L1
    <3> QED
      BY <1>4, <2>1, <2>2, ReplaceHeadHolds DEF ListsInv
  <2>4. result = LS!Open(LS!Close(Lists, old), new, Lists[old])
    BY <2>1 DEF LS!Replaced, Lists
  <2>5. Holds(r, L2, result)
    BY <2>3, <2>4
  <2> HIDE DEF r, L2, result
  <2> QED
    BY <1>2, <1>4, <2>1, <2>2, <2>5 DEF Node
<1> QED
  BY <1>1, <1>3, <1>4 DEF Replaceable

(* list_move and list_move_tail.                                           *)
LEMMA MoveStep ==
  ASSUME ListsInv, NEW e \in Entries, NEW n \in Node, list_move(e, n) \/ list_move_tail(e, n)
  PROVE  ListsInv' /\ (LS!list_move(e, n) \/ LS!list_move_tail(e, n))
<1>1. e \in Listed /\ n \in Listed /\ n # e /\ linked' = linked
  BY DEF list_move, list_move_tail, Members
<1>2. n \in LS!Nodes
  BY <1>1, ListedAt
<1>3. PICK h, k : At(Lists, e, h, k)
  BY <1>1, ListedAt
<1>4. PICK g, j : At(Lists, n, g, j)
  BY <1>1, ListedAt
<1>5. /\ e \in LS!Members(Lists)
      /\ h \in DOMAIN Lists /\ k \in 1 .. Len(Lists[h]) /\ e = Lists[h][k]
  BY <1>3, MemberAt
<1>6. /\ Holds(move(mem, e, n), linked, LS!After(LS!Without(Lists, e), n, e))
      /\ Holds(move_tail(mem, e, n), linked, LS!Before(LS!Without(Lists, e), n, e))
  BY <1>1, <1>4, <1>5, MoveHolds DEF ListsInv
<1>7. CASE list_move(e, n)
  <2>1. ListsInv' /\ Lists' = LS!After(LS!Without(Lists, e), n, e)
    BY <1>1, <1>6, <1>7, ResultIs DEF list_move
  <2> QED
    BY <1>1, <1>2, <1>5, <1>7, <2>1 DEF list_move, LS!list_move, Lists
<1>8. CASE list_move_tail(e, n)
  <2>1. ListsInv' /\ Lists' = LS!Before(LS!Without(Lists, e), n, e)
    BY <1>1, <1>6, <1>8, ResultIs DEF list_move_tail
  <2> QED
    BY <1>1, <1>2, <1>5, <1>8, <2>1 DEF list_move_tail, LS!list_move_tail, Lists
<1> QED
  BY <1>7, <1>8

(* What the queries say of a list the callers have.                        *)
LEMMA QueriesAre ==
  ASSUME ListsInv, NEW h \in Open
  PROVE  /\ h \in linked /\ h \in DOMAIN Lists /\ h \in Heads
         /\ list_empty(mem, h) <=> Lists[h] = << >>
         /\ list_is_singular(mem, h) <=> Len(Lists[h]) = 1
         /\ Lists[h] \in Seq(Entries) /\ Len(Lists[h]) \in Nat
         /\ Lists[h] = << >> <=> Len(Lists[h]) = 0
<1>1. h \in linked /\ h \in DOMAIN Lists /\ h \in Heads /\ Lists[h] = Walk(mem.next, h)
  BY ListsAre DEF Open
<1>2. Sound(mem, linked)
  BY DEF ListsInv, Holds
<1>3. /\ list_empty(mem, h) = (Lists[h] = << >>)
      /\ list_is_singular(mem, h) = (Len(Lists[h]) = 1)
  BY <1>1, <1>2, QueriesAgree
<1>4. Lists[h] \in Seq(Entries) /\ Len(Lists[h]) \in Nat
  BY <1>1, NthAre DEF ListsInv
<1> QED
  BY <1>1, <1>3, <1>4 DEF list_empty, list_is_singular

(* The list without its first entry.                                       *)
LEMMA FirstRemoved ==
  ASSUME NEW s \in Seq(Entries), s # << >>
  PROVE  RemoveAt(s, 1) = Tail(s) /\ Head(s) = s[1]
<1>1. /\ Len(s) \in Nat /\ Len(s) # 0
      /\ Tail(s) \in Seq(Entries) /\ Len(Tail(s)) = Len(s) - 1
      /\ \A i \in 1 .. Len(s) - 1 : Tail(s)[i] = s[i + 1]
  OBVIOUS
<1>2. RemoveAt(s, 1) = SubSeq(s, 1, 0) \o SubSeq(s, 2, Len(s))
  BY DEF RemoveAt
<1>3. SubSeq(s, 1, 0) = << >>
  OBVIOUS
<1>4. SubSeq(s, 2, Len(s)) = Tail(s)
  BY TailIsSubSeq
<1> QED
  BY <1>1, <1>2, <1>3, <1>4, ConcatEmptySeq

(* list_rotate_left.                                                       *)
LEMMA RotateStep ==
  ASSUME ListsInv, NEW h \in Heads, list_rotate_left(h)
  PROVE  ListsInv' /\ LS!list_rotate_left(h)
<1>1. /\ h \in Open /\ mem' = rotate_left(mem, h) /\ linked' = linked
      /\ call' = <<"list_rotate_left", h>>
  BY DEF list_rotate_left
<1> DEFINE s == Lists[h]
<1>2. /\ h \in DOMAIN Lists /\ s \in Seq(Entries) /\ Len(s) \in Nat
      /\ list_empty(mem, h) <=> s = << >>
      /\ s = << >> <=> Len(s) = 0
  BY <1>1, QueriesAre
<1>3. CASE s = << >>
  <2>1. mem' = mem
    BY <1>1, <1>2, <1>3 DEF rotate_left
  <2>2. ListsInv' /\ Lists' = Lists
    BY <1>1, <2>1, ResultIs DEF ListsInv
  <2> QED
    BY <1>1, <1>2, <1>3, <2>2 DEF LS!list_rotate_left, Lists
<1>4. CASE s # << >>
  <2> DEFINE e == s[1]
  <2>1. 1 \in 1 .. Len(s) /\ 0 \in 0 .. Len(s)
    BY <1>2, <1>4
  <2>2. /\ e \in Entries /\ mem.next[h] = e /\ h # e /\ h \in Heads
    <3>1. /\ \A i \in 1 .. Len(s) : Nth(h, s, i) = s[i] /\ s[i] \in Entries
          /\ Nth(h, s, 0) = h
          /\ \A i \in 0 .. Len(s) : mem.next[Nth(h, s, i)] = Nth(h, s, i + 1)
      BY <1>2, NthAre DEF ListsInv
    <3>2. mem.next[Nth(h, s, 0)] = Nth(h, s, 0 + 1) /\ 0 + 1 = 1
      BY <2>1, <3>1
    <3> QED
      BY <2>1, <3>1, <3>2, NodeAssumption
  <2>3. At(Lists, h, h, 0)
    BY <1>1, HeadAt
  <2>4. Holds(move_tail(mem, e, h), linked, LS!Before(LS!Without(Lists, e), h, e))
    <3> HIDE DEF e
    <3> QED
      BY <1>2, <2>1, <2>2, <2>3, MoveHolds DEF ListsInv, e
  <2>5. mem' = move_tail(mem, e, h)
    BY <1>1, <1>2, <1>4, <2>2 DEF rotate_left
  <2>6. LS!Before(LS!Without(Lists, e), h, e) = [Lists EXCEPT ![h] = Append(Tail(@), Head(@))]
    <3>1. LS!Without(Lists, e) = [Lists EXCEPT ![h] = RemoveAt(@, 1)]
      <4> DEFINE k == 1
      <4>1. k \in 1 .. Len(Lists[h]) /\ e = Lists[h][k]
        BY <2>1
      <4> HIDE DEF k, e
      <4>2. LS!Without(Lists, e) = Removed(Lists, h, k)
        BY <1>2, <4>1, WithoutHolds DEF ListsInv
      <4> QED
        BY <4>2 DEF Removed, k
    <3>2. RemoveAt(s, 1) = Tail(s) /\ Head(s) = e
      BY <1>2, <1>4, FirstRemoved
    <3> QED
      BY <1>2, <3>1, <3>2 DEF LS!Before
  <2>7. ListsInv' /\ Lists' = [Lists EXCEPT ![h] = Append(Tail(@), Head(@))]
    BY <1>1, <2>4, <2>5, <2>6, ResultIs
  <2> QED
    BY <1>1, <1>2, <1>4, <2>7 DEF LS!list_rotate_left, Lists
<1> QED
  BY <1>3, <1>4

(* list_cut_position.                                                      *)
LEMMA CutStep ==
  ASSUME ListsInv, NEW list \in Heads, NEW head \in Heads, NEW entry \in Node,
         list_cut_position(list, head, entry)
  PROVE  ListsInv' /\ LS!list_cut_position(list, head, entry)
<1> DEFINE s == Lists[head]
           N == Len(s)
           ls1 == LS!Close(Lists, list)
           L1 == linked \ {list}
<1>1. /\ Unattached(list) /\ head \in Open /\ head # list
      /\ entry \in Ring(head) /\ entry # list
      /\ mem' = cut_position(mem, list, head, entry)
      /\ linked' = IF uncut(mem, head, entry) THEN linked ELSE linked \union {list}
      /\ call' = <<"list_cut_position", list, head, entry>>
  BY DEF list_cut_position
<1>2. /\ head \in linked /\ head \in DOMAIN Lists
      /\ list_empty(mem, head) <=> s = << >>
      /\ list_is_singular(mem, head) <=> N = 1
      /\ s \in Seq(Entries) /\ N \in Nat
      /\ s = << >> <=> N = 0
  BY <1>1, QueriesAre
<1>3. /\ Holds(mem, L1, ls1)
      /\ list \in DOMAIN Lists => Lists[list] = << >>
  <2>1. list \in linked => mem.next[list] = list
    BY <1>1 DEF Unattached
  <2>2. list \in DOMAIN Lists => list \in linked
    BY ListsAre DEF Open
  <2> QED
    BY <2>1, <2>2, AloneHolds DEF ListsInv
<1>4. head \in DOMAIN ls1 /\ ls1[head] = s /\ list \in Heads \ L1
      /\ L1 \union {list} = linked \union {list}
  BY <1>1, <1>2 DEF LS!Close
<1>5. /\ \A i \in 1 .. N : Nth(head, s, i) = s[i] /\ s[i] \in Entries
      /\ Nth(head, s, 0) = head /\ DOMAIN s = 1 .. N
      /\ \A i \in 0 .. N : mem.next[Nth(head, s, i)] = Nth(head, s, i + 1)
  BY <1>2, NthAre DEF ListsInv
<1>6. entry = head \/ \E k \in 1 .. N : entry = s[k]
  <2>1. entry \in {head} \union ToSet(s)
    BY <1>1, ListsAre DEF Ring
  <2> QED
    BY <1>5, <2>1 DEF ToSet
<1>7. entry \in LS!ToSet(s) \union {head}
  BY <1>5, <1>6 DEF LS!ToSet
<1>8. uncut(mem, head, entry) <=> s = << >>
  <2>1. ASSUME N = 1, head # entry
        PROVE  mem.next[head] = entry
    <3>1. 0 \in 0 .. N /\ 0 + 1 = 1 /\ 1 \in 1 .. N /\ \A k \in 1 .. N : k = 1
      BY <2>1
    <3>2. entry = s[1]
      BY <1>6, <2>1, <3>1
    <3>3. mem.next[Nth(head, s, 0)] = Nth(head, s, 0 + 1)
      BY <1>5, <3>1
    <3> QED
      BY <1>5, <3>1, <3>2, <3>3
  <2> QED
    BY <1>2, <2>1 DEF uncut
<1>9. CASE s = << >>
  <2>1. mem' = mem /\ linked' = linked
    BY <1>1, <1>8, <1>9 DEF cut_position
  <2>2. ListsInv' /\ Lists' = Lists
    BY <2>1, ResultIs DEF ListsInv
  <2> QED
    BY <1>1, <1>2, <1>3, <1>7, <1>9, <2>2 DEF LS!list_cut_position, Lists
<1>10. ASSUME NEW k \in 0 .. N, LS!Place(Lists, entry) = k, s # << >>,
              Holds(mem', linked',
                    LS!Open([Lists EXCEPT ![head] = SubSeq(@, k + 1, Len(@))], list,
                            SubSeq(s, 1, k)))
       PROVE  ListsInv' /\ LS!list_cut_position(list, head, entry)
  <2> DEFINE result == LS!Open([Lists EXCEPT ![head] = SubSeq(@, k + 1, Len(@))], list,
                               SubSeq(s, 1, k))
  <2>1. ListsInv' /\ Lists' = result
    BY <1>10, ResultIs
  <2>2. Lists' = LET j == LS!Place(Lists, entry)
                     rest == SubSeq(Lists[head], j + 1, Len(Lists[head]))
                 IN  LS!Open([Lists EXCEPT ![head] = rest], list,
                             SubSeq(Lists[head], 1, j))
    BY <1>10, <2>1
  <2> HIDE DEF result
  <2> QED
    BY <1>1, <1>2, <1>3, <1>7, <1>10, <2>1, <2>2 DEF LS!list_cut_position, Lists
<1>11. CASE s # << >> /\ entry = head
  <2>1. mem' = init_head(mem, list) /\ linked' = L1 \union {list}
    BY <1>1, <1>4, <1>8, <1>11 DEF cut_position
  <2>2. Holds(mem', linked', LS!Open(ls1, list, << >>))
    <3> HIDE DEF L1, ls1
    <3> QED
      BY <1>3, <1>4, <2>1, InitHeadHolds
  <2>3. LS!Place(Lists, entry) = 0 /\ 0 \in 0 .. N
    BY <1>2, <1>11 DEF LS!Place
  <2>4. SubSeq(s, 1, 0) = << >> /\ SubSeq(s, 0 + 1, N) = s
    BY <1>2, SubSeqFull
  <2> DEFINE f == [Lists EXCEPT ![head] = SubSeq(@, 0 + 1, Len(@))]
  <2>5. f = Lists
    BY <1>2, <2>4, ListsAre DEF Lists
  <2> HIDE DEF f
  <2>6. Holds(mem', linked', LS!Open(f, list, SubSeq(s, 1, 0)))
    BY <2>2, <2>4, <2>5, Reopened
  <2> USE DEF f
  <2> QED
    BY <1>10, <1>11, <2>3, <2>6
<1>12. CASE s # << >> /\ entry # head
  <2>1. PICK k \in 1 .. N : entry = s[k]
    BY <1>6, <1>12
  <2>2. mem' = cut_at(mem, list, head, s[k]) /\ linked' = L1 \union {list}
    BY <1>1, <1>4, <1>8, <1>12, <2>1 DEF cut_position
  <2>3. k \in 0 .. N /\ entry = Nth(head, s, k)
    BY <1>2, <1>5, <2>1
  <2>4. LS!Place(Lists, entry) = k
    BY <1>2, <2>3, HomePlace DEF ListsInv
  <2> DEFINE f1 == [ls1 EXCEPT ![head] = SubSeq(@, k + 1, Len(@))]
             f == [Lists EXCEPT ![head] = SubSeq(@, k + 1, Len(@))]
  <2>5. Holds(mem', linked', LS!Open(f1, list, SubSeq(s, 1, k)))
    <3>1. k \in 1 .. Len(ls1[head])
      BY <1>4
    <3>2. Holds(cut_at(mem, list, head, ls1[head][k]), L1 \union {list},
                LS!Open([ls1 EXCEPT ![head] = SubSeq(@, k + 1, Len(@))], list,
                        SubSeq(ls1[head], 1, k)))
      <4> HIDE DEF L1, ls1
      <4> QED
        BY <1>3, <1>4, <3>1, CutHolds
    <3> QED
      BY <1>4, <2>2, <3>2
  <2>6. f1 = LS!Close(f, list)
    BY <1>1, <1>2, <1>4 DEF LS!Close
  <2>7. Holds(mem', linked', LS!Open(f, list, SubSeq(s, 1, k)))
    BY <2>5, <2>6, Reopened
  <2> QED
    BY <1>10, <1>12, <2>3, <2>4, <2>7
<1> QED
  BY <1>6, <1>9, <1>11, <1>12

(* Where the entries are when two lists are one.                           *)
LEMMA InFront ==
  ASSUME NEW s \in Seq(Entries), NEW t \in Seq(Entries),
         NEW head \in Heads, NEW list \in Heads
  PROVE  /\ t \o s \in Seq(Entries) /\ Len(t \o s) = Len(s) + Len(t)
         /\ \A i \in 0 .. 0 : Nth(head, t \o s, i) = Nth(head, s, i)
         /\ \A i \in 1 .. Len(t) : Nth(head, t \o s, 0 + i) = Nth(list, t, i)
         /\ \A i \in 1 .. (Len(s) - 0) + 1 :
              Nth(head, t \o s, 0 + Len(t) + i) = Nth(head, s, 0 + i)
<1> DEFINE N == Len(s)
           M == Len(t)
           r == t \o s
<1>1. /\ N \in Nat /\ Nth(head, s, 0) = head /\ Nth(head, s, N + 1) = head
  <2>1. /\ N \in Nat /\ \A i \in Int : i \notin 1 .. N => Nth(head, s, i) = head
    BY EntriesAre
  <2>2. 0 \in Int /\ 0 \notin 1 .. N /\ N + 1 \in Int /\ N + 1 \notin 1 .. N
    BY <2>1
  <2> QED
    BY <2>1, <2>2
<1>2. /\ r \in Seq(Entries) /\ Len(r) = M + N /\ M \in Nat
      /\ Nth(head, r, 0) = head
      /\ \A i \in 1 .. M : Nth(head, r, i) = Nth(list, t, i)
      /\ Nth(head, r, M + N + 1) = head
  BY ConcatIs
<1>3. \A i \in 1 .. N : Nth(head, r, M + i) = Nth(head, s, i)
  BY ConcatIs
<1> HIDE DEF N, M, r
<1>4. /\ M + N = N + M /\ M + N + 1 = M + (N + 1)
      /\ \A i \in 0 .. 0 : i = 0
      /\ \A i \in 1 .. M : 0 + i = i
      /\ \A i \in 1 .. (N - 0) + 1 : (i \in 1 .. N \/ i = N + 1) /\ 0 + M + i = M + i /\ 0 + i = i
  BY <1>1, <1>2
<1>5. \A i \in 1 .. M : Nth(head, r, 0 + i) = Nth(list, t, i)
  BY <1>2, <1>4
<1>6. \A i \in 1 .. (N - 0) + 1 : Nth(head, r, 0 + M + i) = Nth(head, s, 0 + i)
  BY <1>1, <1>2, <1>3, <1>4
<1>7. \A i \in 0 .. 0 : Nth(head, r, i) = Nth(head, s, i)
  BY <1>1, <1>2, <1>4
<1> QED
  BY <1>2, <1>4, <1>5, <1>6, <1>7 DEF N, M, r

(* The same behind the last entry.                                         *)
LEMMA AtTheEnd ==
  ASSUME NEW s \in Seq(Entries), NEW t \in Seq(Entries),
         NEW head \in Heads, NEW list \in Heads
  PROVE  /\ s \o t \in Seq(Entries) /\ Len(s \o t) = Len(s) + Len(t)
         /\ \A i \in 0 .. Len(s) : Nth(head, s \o t, i) = Nth(head, s, i)
         /\ \A i \in 1 .. Len(t) : Nth(head, s \o t, Len(s) + i) = Nth(list, t, i)
         /\ \A i \in 1 .. (Len(s) - Len(s)) + 1 :
              Nth(head, s \o t, Len(s) + Len(t) + i) = Nth(head, s, Len(s) + i)
<1> DEFINE N == Len(s)
           M == Len(t)
           r == s \o t
<1>1. /\ N \in Nat /\ Nth(head, s, 0) = head /\ Nth(head, s, N + 1) = head
  <2>1. /\ N \in Nat /\ \A i \in Int : i \notin 1 .. N => Nth(head, s, i) = head
    BY EntriesAre
  <2>2. 0 \in Int /\ 0 \notin 1 .. N /\ N + 1 \in Int /\ N + 1 \notin 1 .. N
    BY <2>1
  <2> QED
    BY <2>1, <2>2
<1>2. /\ r \in Seq(Entries) /\ Len(r) = N + M
      /\ Nth(head, r, 0) = head
      /\ \A i \in 1 .. M : Nth(head, r, N + i) = Nth(list, t, i)
      /\ Nth(head, r, N + M + 1) = head
  BY ConcatIs
<1>3. \A i \in 1 .. N : Nth(head, r, i) = Nth(head, s, i)
  BY ConcatIs
<1> HIDE DEF N, M, r
<1>4. /\ \A i \in 0 .. N : i = 0 \/ i \in 1 .. N
      /\ \A i \in 1 .. (N - N) + 1 : i = 1
  BY <1>1
<1>5. \A i \in 0 .. N : Nth(head, r, i) = Nth(head, s, i)
  BY <1>1, <1>2, <1>3, <1>4
<1>6. \A i \in 1 .. (N - N) + 1 : Nth(head, r, N + M + i) = Nth(head, s, N + i)
  BY <1>1, <1>2, <1>4
<1> QED
  BY <1>2, <1>5, <1>6 DEF N, M, r

(* list_splice and list_splice_tail of a list that is not empty.           *)
LEMMA JoinedHolds ==
  ASSUME ListsInv, NEW list \in Open, NEW head \in Open \ {list}, Apart(list, head),
         NEW tail \in BOOLEAN, ~list_empty(mem, list)
  PROVE  Holds(IF tail THEN splice_tail(mem, list, head) ELSE splice(mem, list, head),
               linked \ {list}, LS!Close(LS!Joined(list, head, tail), list))
<1> DEFINE s == Lists[head]
           t == Lists[list]
           N == Len(s)
<1>1. /\ list \in linked /\ list \in DOMAIN Lists /\ list \in Heads
      /\ t \in Seq(Entries) /\ Len(t) # 0
      /\ head \in linked /\ head \in DOMAIN Lists /\ head \in Heads
      /\ s \in Seq(Entries) /\ N \in Nat
      /\ list # head
  BY QueriesAre
<1>2. /\ Sound(splice(mem, list, head), linked \ {list})
      /\ Sound(splice_tail(mem, list, head), linked \ {list})
  BY <1>1, SpliceBothSound DEF ListsInv, Holds
<1>3. /\ Nth(head, s, 0) = head /\ Nth(head, s, N + 1) = head
      /\ \A i \in 0 .. N : /\ mem.next[Nth(head, s, i)] = Nth(head, s, i + 1)
                           /\ mem.prev[Nth(head, s, i + 1)] = Nth(head, s, i)
  BY <1>1, NthAre DEF ListsInv
<1>4. 0 \in 0 .. N /\ N \in 0 .. N
  BY <1>1
<1>5. CASE ~tail
  <2> DEFINE r == t \o s
             m2 == splice_between(mem, list, head, mem.next[head])
             ls2 == [Lists EXCEPT ![head] = r]
  <2>1. splice(mem, list, head) = m2
    BY DEF splice
  <2>2. LS!Joined(list, head, tail) = ls2
    BY <1>5 DEF LS!Joined, Lists
  <2>3. /\ r \in Seq(Entries) /\ Len(r) = Len(s) + Len(t)
        /\ \A i \in 0 .. 0 : Nth(head, r, i) = Nth(head, s, i)
        /\ \A i \in 1 .. Len(t) : Nth(head, r, 0 + i) = Nth(list, t, i)
        /\ \A i \in 1 .. (Len(s) - 0) + 1 :
             Nth(head, r, 0 + Len(t) + i) = Nth(head, s, 0 + i)
    BY <1>1, InFront
  <2>4. Sound(m2, linked \ {list})
    BY <1>2, <2>1
  <2> HIDE DEF r
  <2>5. Holds(m2, linked \ {list}, LS!Close(ls2, list))
    BY <1>1, <1>3, <1>4, <2>3, <2>4, SpliceHolds DEF ListsInv
  <2> QED
    BY <1>5, <2>1, <2>2, <2>5
<1>6. CASE tail
  <2> DEFINE r == s \o t
             p == mem.prev[head]
             m2 == splice_between(mem, list, p, mem.next[p])
             ls2 == [Lists EXCEPT ![head] = r]
  <2>1. p = Nth(head, s, N) /\ mem.next[p] = head
    BY <1>3, <1>4
  <2>2. splice_tail(mem, list, head) = m2
    BY <2>1 DEF splice_tail
  <2>3. LS!Joined(list, head, tail) = ls2
    BY <1>6 DEF LS!Joined, Lists
  <2>4. /\ r \in Seq(Entries) /\ Len(r) = Len(s) + Len(t)
        /\ \A i \in 0 .. Len(s) : Nth(head, r, i) = Nth(head, s, i)
        /\ \A i \in 1 .. Len(t) : Nth(head, r, Len(s) + i) = Nth(list, t, i)
        /\ \A i \in 1 .. (Len(s) - Len(s)) + 1 :
             Nth(head, r, Len(s) + Len(t) + i) = Nth(head, s, Len(s) + i)
    BY <1>1, AtTheEnd
  <2>5. Sound(m2, linked \ {list})
    BY <1>2, <2>2
  <2> HIDE DEF r, p
  <2>6. Holds(m2, linked \ {list}, LS!Close(ls2, list))
    BY <1>1, <1>4, <2>1, <2>4, <2>5, SpliceHolds DEF ListsInv
  <2> QED
    BY <1>6, <2>2, <2>3, <2>6
<1> QED
  BY <1>5, <1>6

(* The four splices.                                                       *)
LEMMA SpliceStep ==
  ASSUME ListsInv, NEW list \in Heads, NEW head \in Heads, NEW tail \in BOOLEAN,
         list_splice(list, head, tail) \/ list_splice_init(list, head, tail)
  PROVE  /\ ListsInv'
         /\ LS!list_splice(list, head, tail) \/ LS!list_splice_init(list, head, tail)
<1> DEFINE joined == IF tail THEN splice_tail(mem, list, head) ELSE splice(mem, list, head)
           J == LS!Joined(list, head, tail)
<1>1. list \in Open /\ head \in Open \ {list} /\ Apart(list, head)
  BY DEF list_splice, list_splice_init
<1>2. /\ list \in linked /\ list \in DOMAIN Lists
      /\ head \in DOMAIN Lists /\ Lists[head] \in Seq(Entries)
      /\ list_empty(mem, list) <=> Lists[list] = << >>
  BY <1>1, QueriesAre
<1>3. CASE list_empty(mem, list)
  <2>1. mem' = mem /\ linked' = linked
    BY <1>3 DEF list_splice, list_splice_init, splice, splice_tail, splice_init,
                splice_tail_init
  <2>2. ListsInv' /\ Lists' = Lists
    BY <2>1, ResultIs DEF ListsInv
  <2>3. CASE list_splice(list, head, tail)
    <3>1. call' = <<"list_splice", list, head, tail>>
      BY <2>3 DEF list_splice
    <3> QED
      BY <1>1, <1>2, <1>3, <2>2, <3>1 DEF LS!list_splice, Lists
  <2>4. CASE list_splice_init(list, head, tail)
    <3>1. call' = <<"list_splice_init", list, head, tail>>
      BY <2>4 DEF list_splice_init
    <3>2. Lists[head] \o << >> = Lists[head] /\ << >> \o Lists[head] = Lists[head]
      BY <1>2, ConcatEmptySeq
    <3>3. J = [Lists EXCEPT ![head] = IF tail THEN @ \o Lists[list] ELSE Lists[list] \o @]
      BY DEF LS!Joined, Lists
    <3>4. J = Lists
      BY <1>2, <1>3, <3>2, <3>3 DEF Lists
    <3>5. LS!Open(Lists, list, << >>) = Lists
      BY <1>2, <1>3 DEF LS!Open, Lists
    <3>6. Lists' = LS!Open(J, list, << >>)
      BY <2>2, <3>4, <3>5
    <3> HIDE DEF J
    <3> QED
      BY <1>1, <1>2, <2>2, <3>1, <3>6 DEF LS!list_splice_init, Lists, J
  <2> QED
    BY <2>3, <2>4
<1>4. CASE ~list_empty(mem, list)
  <2> DEFINE L1 == linked \ {list}
  <2>1. Holds(joined, L1, LS!Close(J, list))
    BY <1>1, <1>4, JoinedHolds
  <2>2. CASE list_splice(list, head, tail)
    <3>1. /\ mem' = joined /\ linked' = L1
          /\ call' = <<"list_splice", list, head, tail>>
      BY <1>4, <2>2 DEF list_splice
    <3> HIDE DEF joined, L1, J
    <3>2. ListsInv' /\ Lists' = LS!Close(J, list)
      BY <2>1, <3>1, ResultIs
    <3> QED
      BY <1>1, <1>2, <1>4, <3>1, <3>2 DEF LS!list_splice, Lists, J
  <2>3. CASE list_splice_init(list, head, tail)
    <3>1. /\ mem' = init_head(joined, list) /\ linked' = L1 \union {list}
          /\ call' = <<"list_splice_init", list, head, tail>>
      BY <1>2, <1>4, <2>3 DEF list_splice_init, splice_init, splice_tail_init
    <3>2. list \in Heads \ L1
      OBVIOUS
    <3> HIDE DEF joined, L1, J
    <3>3. Holds(init_head(joined, list), L1 \union {list},
                LS!Open(LS!Close(J, list), list, << >>))
      BY <2>1, <3>2, InitHeadHolds
    <3>4. ListsInv' /\ Lists' = LS!Open(J, list, << >>)
      BY <3>1, <3>3, Reopened, ResultIs
    <3> QED
      BY <1>1, <1>2, <3>1, <3>4 DEF LS!list_splice_init, Lists, J
  <2> QED
    BY <2>2, <2>3
<1> QED
  BY <1>3, <1>4

(* Every call does to the lists what ListSpec says it does.                *)
LEMMA StepImplements ==
  ASSUME ListsInv, [Next]_vars
  PROVE  ListsInv' /\ [LS!Next]_LS!absVars
<1>0. Node = Heads \union Entries
  BY DEF Node
<1>1. CASE UNCHANGED vars
  <2>1. mem' = mem /\ linked' = linked /\ call' = call
    BY <1>1 DEF vars
  <2>2. ListsInv' /\ Lists' = Lists
    BY <2>1, ResultIs DEF ListsInv
  <2> QED
    BY <2>1, <2>2 DEF LS!absVars, Lists
<1>2. CASE \E h \in Heads : INIT_LIST_HEAD(h) \/ list_rotate_left(h)
  BY <1>2, InitStep, RotateStep DEF LS!Next
<1>3. CASE \E new \in Entries, n \in Node : list_add(new, n) \/ list_add_tail(new, n)
  BY <1>0, <1>3, AddStep DEF LS!Next
<1>4. CASE \E e \in Entries : list_del(e)
  BY <1>4, DelStep DEF LS!Next
<1>5. CASE \E n \in Node : list_del_init(n)
  BY <1>0, <1>5, DelInitStep DEF LS!Next
<1>6. CASE \E old, new \in Node : list_replace(old, new) \/ list_replace_init(old, new)
  BY <1>0, <1>6, ReplaceStep DEF LS!Next
<1>7. CASE \E e \in Entries, n \in Node : list_move(e, n) \/ list_move_tail(e, n)
  BY <1>0, <1>7, MoveStep DEF LS!Next
<1>8. CASE \E list, head \in Heads, entry \in Node : list_cut_position(list, head, entry)
  BY <1>0, <1>8, CutStep DEF LS!Next
<1>9. CASE \E list, head \in Heads, tail \in BOOLEAN :
             list_splice(list, head, tail) \/ list_splice_init(list, head, tail)
  BY <1>9, SpliceStep DEF LS!Next
<1> QED
  BY <1>1, <1>2, <1>3, <1>4, <1>5, <1>6, <1>7, <1>8, <1>9 DEF Next

(* Whatever calls are made, memory holds the lists that a walk from each   *)
(* head meets, and every linked node is in a ring (list.h:26-333).         *)
THEOREM ListsStay == Spec => []ListsInv
<1>1. Init => ListsInv
  <2> SUFFICES ASSUME Init PROVE ListsInv
    OBVIOUS
  <2>1. linked = {} /\ mem \in Memory
    BY DEF Init, Memory
  <2>2. DOMAIN Lists = {} /\ Lists = [h \in DOMAIN Lists |-> Lists[h]] /\ Heads \cap linked = {}
    BY <2>1 DEF Lists, Open
  <2>3. Sound(mem, linked)
    BY <2>1 DEF Sound, Rings
  <2> QED
    BY <2>2, <2>3 DEF ListsInv, Holds
<1>2. ListsInv /\ [Next]_vars => ListsInv'
  BY StepImplements
<1> QED
  BY <1>1, <1>2, PTL DEF Spec

(* Every call does to the lists what its comment in list.h says, and       *)
(* nothing to the others (list.h:26-333).                                  *)
THEOREM ListsAsSpecified == Spec => ListSpecHolds
<1>1. Init => LS!Init
  BY DEF Init, LS!Init, Open
<1>2. ListsInv /\ [Next]_vars => [LS!Next]_LS!absVars
  BY StepImplements
<1> QED
  BY <1>1, <1>2, ListsStay, PTL DEF Spec, ListSpecHolds, LS!Spec

(* Whatever calls are made, the pointers of every linked node lead back to *)
(* it, those of lists that lost their head included (list.h:26-333).       *)
THEOREM RingsStayRings == Spec => []DoublyLinked
<1>1. ListsInv => DoublyLinked
  BY DEF ListsInv, Holds, Sound, DoublyLinked
<1> QED
  BY <1>1, ListsStay, PTL

(* Forwards and backwards the same entries are met, and the queries say of *)
(* them what the walk says (list.h:167-222, 402-409).                      *)
THEOREM WalksMeetTheList == Spec => []WalksAgree
<1>1. ASSUME ListsInv
      PROVE  WalksAgree
  <2> SUFFICES ASSUME NEW h \in Open, NEW w, w = Walk(mem.next, h)
               PROVE  /\ Walk(mem.prev, h) = [k \in 1 .. Len(w) |-> w[Len(w) + 1 - k]]
                      /\ list_empty(mem, h) = (w = <<>>)
                      /\ list_empty_careful(mem, h) = (w = <<>>)
                      /\ list_is_singular(mem, h) = (Len(w) = 1)
                      /\ \A k \in DOMAIN w : list_is_last(mem, w[k], h) = (k = Len(w))
    BY DEF WalksAgree
  <2>1. h \in linked /\ Sound(mem, linked)
    BY <1>1 DEF Open, ListsInv, Holds
  <2>2. Walk(mem.prev, h) = [k \in 1 .. Len(w) |-> w[Len(w) + 1 - k]]
    BY <2>1, SoundInverts, Backwards
  <2> QED
    BY <2>1, <2>2, QueriesAgree
<1> QED
  BY <1>1, ListsStay, PTL

(* No entry is in two lists or twice in one, whatever calls are made: what *)
(* list_for_each_safe frees, it frees once (list.h:409-417).               *)
THEOREM ListsStayApart == Spec => []LS!AbsTypeOK
<1>1. ASSUME ListsInv
      PROVE  LS!AbsTypeOK
  <2>1. \A g \in DOMAIN Lists :
          /\ g \in Heads /\ Lists[g] \in Seq(Entries)
          /\ Len(Lists[g]) \in Nat /\ DOMAIN Lists[g] = 1 .. Len(Lists[g])
          /\ \A i \in 1 .. Len(Lists[g]) : Nth(g, Lists[g], i) = Lists[g][i]
    <3> SUFFICES ASSUME NEW g \in DOMAIN Lists
                 PROVE  /\ g \in Heads /\ Lists[g] \in Seq(Entries)
                        /\ Len(Lists[g]) \in Nat /\ DOMAIN Lists[g] = 1 .. Len(Lists[g])
                        /\ \A i \in 1 .. Len(Lists[g]) : Nth(g, Lists[g], i) = Lists[g][i]
      OBVIOUS
    <3> QED
      BY <1>1, NthAre DEF ListsInv
  <2>2. \A g, h \in DOMAIN Lists :
          \A i \in 1 .. Len(Lists[g]), j \in 1 .. Len(Lists[h]) :
            Lists[g][i] = Lists[h][j] => g = h /\ i = j
    <3> SUFFICES ASSUME NEW g \in DOMAIN Lists, NEW h \in DOMAIN Lists,
                        NEW i \in 1 .. Len(Lists[g]), NEW j \in 1 .. Len(Lists[h]),
                        Lists[g][i] = Lists[h][j]
                 PROVE  g = h /\ i = j
      OBVIOUS
    <3>1. i \in 0 .. Len(Lists[g]) /\ j \in 0 .. Len(Lists[h])
      BY <2>1
    <3>2. Nth(g, Lists[g], i) = Nth(h, Lists[h], j)
      BY <2>1
    <3> QED
      BY <1>1, <3>1, <3>2, AllPlaces DEF ListsInv
  <2>3. \A g \in DOMAIN Lists : LS!IsInjective(Lists[g])
    BY <2>1, <2>2 DEF LS!IsInjective
  <2>4. \A g, h \in DOMAIN Lists :
          g # h => LS!ToSet(Lists[g]) \cap LS!ToSet(Lists[h]) = {}
    BY <2>1, <2>2 DEF LS!ToSet
  <2> QED
    BY <2>1, <2>3, <2>4 DEF LS!AbsTypeOK, Lists
<1> QED
  BY <1>1, ListsStay, PTL
=============================================================================
