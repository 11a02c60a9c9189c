------------------------------ MODULE ListHead ------------------------------
(***************************************************************************)
(* list.h: circular doubly linked lists by pointer surgery.  A memory is a *)
(* pair of functions, the next and the prev field of every node; each      *)
(* function of list.h is an operator from a memory to a memory that makes  *)
(* its assignments in their order; an action is one call of the interface  *)
(* on nodes the callers can get at.                                        *)
(***************************************************************************)
EXTENDS Naturals, Sequences, FiniteSets, SequencesExt, FiniteSetsExt

CONSTANTS
  Heads,   \* nodes used as list heads
  Entries, \* nodes embedded in list entries
  NULL

Node == Heads \union Entries

ASSUME NodeAssumption ==
  /\ IsFiniteSet(Heads) /\ IsFiniteSet(Entries)
  /\ Heads \cap Entries = {}
  /\ NULL \notin Node

VARIABLES
  mem,     \* the next and prev fields
  linked,  \* the nodes in some ring (a specification variable: C keeps no
           \* record of it)
  call     \* the last call made (likewise)

vars == <<mem, linked, call>>

Memory == [next : [Node -> Node \union {NULL}],
           prev : [Node -> Node \union {NULL}]]

-----------------------------------------------------------------------------
(* The functions that change pointers.  The two-underscore functions are   *)
(* add_between, del_between, del_entry, splice_between and cut_at here.    *)

init_head(m, list) ==
  [next |-> [m.next EXCEPT ![list] = list],
   prev |-> [m.prev EXCEPT ![list] = list]]

add_between(m, new, prev, next) ==
  [next |-> [m.next EXCEPT ![new] = next, ![prev] = new],
   prev |-> [m.prev EXCEPT ![next] = new, ![new] = prev]]

add(m, new, head)      == add_between(m, new, head, m.next[head])
add_tail(m, new, head) == add_between(m, new, m.prev[head], head)

(* As for a singly linked list.                                            *)
del_between_forward(m, prev, next) ==
  [next |-> [m.next EXCEPT ![prev] = next], prev |-> m.prev]

del_between(m, prev, next) ==
  [next |-> [m.next EXCEPT ![prev] = next],
   prev |-> [m.prev EXCEPT ![next] = prev]]

del_entry(m, entry) == del_between(m, m.prev[entry], m.next[entry])

del(m, entry) ==
  LET d == del_entry(m, entry)
  IN  [next |-> [d.next EXCEPT ![entry] = NULL],
       prev |-> [d.prev EXCEPT ![entry] = NULL]]

del_init(m, entry) == init_head(del_entry(m, entry), entry)

(* old->prev is read after the first neighbour of old, which is old itself *)
(* when its list is empty, has been written to.                            *)
replace(m, old, new) ==
  LET prev == [m.prev EXCEPT ![m.next[old]] = new]
  IN  [next |-> [m.next EXCEPT ![new] = m.next[old], ![prev[old]] = new],
       prev |-> [prev EXCEPT ![new] = prev[old]]]

replace_init(m, old, new) == init_head(replace(m, old, new), old)

move(m, list, head)      == add(del_entry(m, list), list, head)
move_tail(m, list, head) == add_tail(del_entry(m, list), list, head)

list_is_last(m, list, head) == m.next[list] = head
list_empty(m, head)         == m.next[head] = head
list_empty_careful(m, head) == m.next[head] = head /\ m.prev[head] = head
list_is_singular(m, head)   ==
  ~list_empty(m, head) /\ m.next[head] = m.prev[head]

rotate_left_front(m, head) ==
  IF list_empty(m, head) THEN m ELSE move(m, m.next[head], head)

rotate_left(m, head) ==
  IF list_empty(m, head) THEN m ELSE move_tail(m, m.next[head], head)

(* Without the last assignment.                                            *)
cut_at_short(m, list, head, entry) ==
  LET first == m.next[head]
  IN  [next |-> [m.next EXCEPT ![list] = first, ![entry] = list,
                               ![head] = m.next[entry]],
       prev |-> [m.prev EXCEPT ![first] = list, ![list] = entry]]

cut_at(m, list, head, entry) ==
  LET first == m.next[head]
      new_first == m.next[entry]
  IN  [next |-> [m.next EXCEPT ![list] = first, ![entry] = list,
                               ![head] = new_first],
       prev |-> [m.prev EXCEPT ![first] = list, ![list] = entry,
                               ![new_first] = head]]

uncut(m, head, entry) ==
  \/ list_empty(m, head)
  \/ list_is_singular(m, head) /\ m.next[head] # entry /\ head # entry

cut_position(m, list, head, entry) ==
  IF uncut(m, head, entry) THEN m
  ELSE IF entry = head THEN init_head(m, list)
  ELSE cut_at(m, list, head, entry)

splice_between(m, list, prev, next) ==
  LET first == m.next[list]
      last == m.prev[list]
  IN  [next |-> [m.next EXCEPT ![prev] = first, ![last] = next],
       prev |-> [m.prev EXCEPT ![first] = prev, ![next] = last]]

splice(m, list, head) ==
  IF list_empty(m, list) THEN m
  ELSE splice_between(m, list, head, m.next[head])

splice_tail(m, list, head) ==
  IF list_empty(m, list) THEN m
  ELSE splice_between(m, list, m.prev[head], head)

splice_init(m, list, head) ==
  IF list_empty(m, list) THEN m ELSE init_head(splice(m, list, head), list)

splice_tail_init(m, list, head) ==
  IF list_empty(m, list) THEN m
  ELSE init_head(splice_tail(m, list, head), list)

-----------------------------------------------------------------------------
(* What a caller may pass.                                                 *)

(* The nodes a walk from n meets before it is back at n; a walk that does  *)
(* not come back meets NULL.                                               *)
Walk(field, n) ==
  LET at[k \in 0 .. Cardinality(Node)] ==
        IF k = 0 THEN n
        ELSE IF at[k - 1] = NULL THEN NULL ELSE field[at[k - 1]]
      back == {k \in 1 .. Cardinality(Node) : at[k] = n}
  IN  IF back = {} THEN <<NULL>>
      ELSE [k \in 1 .. Min(back) - 1 |-> at[k]]

Ring(n) == {n} \union ToSet(Walk(mem.next, n))

Open    == Heads \cap linked
Listed  == {n \in linked : \E h \in Open : n \in Ring(h)}
                           \* what the callers can get at
Members == Listed \ Heads

(* Not in any ring but its own: memory fresh from malloc, an entry that    *)
(* was deleted.                                                            *)
Unattached(n) == n \in linked => mem.next[n] = n

(* In two different rings: next and prev do not lead from one to the other. *)
Apart(p, q) ==
  \E R \in SUBSET linked :
    /\ p \in R /\ q \notin R
    /\ \A n \in R : mem.next[n] \in R /\ mem.prev[n] \in R

-----------------------------------------------------------------------------
Init ==
  /\ mem = [next |-> [n \in Node |-> NULL], prev |-> [n \in Node |-> NULL]]
  /\ linked = {}
  /\ call = <<>>

INIT_LIST_HEAD(h) ==
  /\ h \in Heads \ linked
  /\ mem' = init_head(mem, h)
  /\ linked' = linked \union {h}
  /\ call' = <<"INIT_LIST_HEAD", h>>

list_add(new, n) ==
  /\ new \in Entries /\ Unattached(new) /\ n \in Listed \ {new}
  /\ mem' = add(mem, new, n)
  /\ linked' = linked \union {new}
  /\ call' = <<"list_add", new, n>>

list_add_tail(new, n) ==
  /\ new \in Entries /\ Unattached(new) /\ n \in Listed \ {new}
  /\ mem' = add_tail(mem, new, n)
  /\ linked' = linked \union {new}
  /\ call' = <<"list_add_tail", new, n>>

list_del(e) ==
  /\ e \in Members
  /\ mem' = del(mem, e)
  /\ linked' = linked \ {e}
  /\ call' = <<"list_del", e>>

(* Called with the head of a list by the modules that keep the last        *)
(* answer: its entries stay behind in a ring without a head.               *)
list_del_init(n) ==
  /\ n \in Listed
  /\ mem' = del_init(mem, n)
  /\ UNCHANGED linked
  /\ call' = <<"list_del_init", n>>

Replaceable(old, new) ==
  \/ old \in Members /\ new \in Entries \ {old} /\ Unattached(new)
  \/ old \in Open /\ new \in Heads \ linked

list_replace(old, new) ==
  /\ Replaceable(old, new)
  /\ mem' = replace(mem, old, new)
  /\ linked' = (linked \ {old}) \union {new}
  /\ call' = <<"list_replace", old, new>>

list_replace_init(old, new) ==
  /\ Replaceable(old, new)
  /\ mem' = replace_init(mem, old, new)
  /\ linked' = linked \union {new}
  /\ call' = <<"list_replace_init", old, new>>

list_move(e, n) ==
  /\ e \in Members /\ n \in Listed \ {e}
  /\ mem' = move(mem, e, n)
  /\ UNCHANGED linked
  /\ call' = <<"list_move", e, n>>

list_move_tail(e, n) ==
  /\ e \in Members /\ n \in Listed \ {e}
  /\ mem' = move_tail(mem, e, n)
  /\ UNCHANGED linked
  /\ call' = <<"list_move_tail", e, n>>

list_rotate_left(h) ==
  /\ h \in Open
  /\ mem' = rotate_left(mem, h)
  /\ UNCHANGED linked
  /\ call' = <<"list_rotate_left", h>>

list_cut_position(list, head, entry) ==
  /\ list \in Heads /\ Unattached(list)
  /\ head \in Open \ {list} /\ entry \in (Listed \cap Ring(head)) \ {list}
  /\ mem' = cut_position(mem, list, head, entry)
  /\ linked' = IF uncut(mem, head, entry) THEN linked
                ELSE linked \union {list}
  /\ call' = <<"list_cut_position", list, head, entry>>

(* list_splice and list_splice_tail: afterwards list's own pointers are    *)
(* stale.                                                                  *)
list_splice(list, head, tail) ==
  /\ list \in Open /\ head \in Open \ {list} /\ Apart(list, head)
  /\ mem' = IF tail THEN splice_tail(mem, list, head) ELSE splice(mem, list, head)
  /\ linked' = IF list_empty(mem, list) THEN linked ELSE linked \ {list}
  /\ call' = <<"list_splice", list, head, tail>>

list_splice_init(list, head, tail) ==
  /\ list \in Open /\ head \in Open \ {list} /\ Apart(list, head)
  /\ mem' = IF tail THEN splice_tail_init(mem, list, head)
            ELSE splice_init(mem, list, head)
  /\ UNCHANGED linked
  /\ call' = <<"list_splice_init", list, head, tail>>

Next ==
  \/ \E h \in Heads : INIT_LIST_HEAD(h) \/ list_rotate_left(h)
  \/ \E new \in Entries, n \in Node : list_add(new, n) \/ list_add_tail(new, n)
  \/ \E e \in Entries : list_del(e)
  \/ \E n \in Node : list_del_init(n)
  \/ \E old, new \in Node : list_replace(old, new) \/ list_replace_init(old, new)
  \/ \E e \in Entries, n \in Node : list_move(e, n) \/ list_move_tail(e, n)
  \/ \E list, head \in Heads, entry \in Node : list_cut_position(list, head, entry)
  \/ \E list, head \in Heads, tail \in BOOLEAN :
       list_splice(list, head, tail) \/ list_splice_init(list, head, tail)

Spec == Init /\ [][Next]_vars

-----------------------------------------------------------------------------
(* Properties.                                                             *)

TypeOK == mem \in Memory /\ linked \subseteq Node

(* next and prev are permutations of L, each the inverse of the other.     *)
Rings(m, L) ==
  \A n \in L :
    /\ m.next[n] \in L /\ m.prev[m.next[n]] = n
    /\ m.prev[n] \in L /\ m.next[m.prev[n]] = n

(* Every call leaves every ring a ring: each node's neighbours are in a    *)
(* ring too and point back to it, those of lists that lost their head      *)
(* included (list.h:26-333).                                               *)
DoublyLinked == Rings(mem, linked)

(* list_for_each meets the entries in the opposite order of                *)
(* list_for_each_prev (list.h:402-409), and the queries of list.h answer   *)
(* what the walk says (list.h:167-222).                                    *)
WalksAgree ==
  \A h \in Open :
    LET w == Walk(mem.next, h)
    IN  /\ Walk(mem.prev, h) = [k \in 1 .. Len(w) |-> w[Len(w) + 1 - k]]
        /\ list_empty(mem, h) = (w = <<>>)
        /\ list_empty_careful(mem, h) = (w = <<>>)
        /\ list_is_singular(mem, h) = (Len(w) = 1)
        /\ \A k \in DOMAIN w : list_is_last(mem, w[k], h) = (k = Len(w))

LS == INSTANCE ListSpec
        WITH lists <- [h \in Open |-> Walk(mem.next, h)], call <- call

(* Each call does to the lists what its comment in list.h says, and        *)
(* nothing to the other lists.                                             *)
ListSpecHolds == LS!Spec
=============================================================================
