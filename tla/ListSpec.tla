------------------------------ MODULE ListSpec ------------------------------
(***************************************************************************)
(* What list.h promises its callers: every open list head has a sequence   *)
(* of entries, no entry is in two places, and each call does to those      *)
(* sequences what the comment above it says.  There are no pointers here.  *)
(***************************************************************************)
EXTENDS Naturals, Sequences, SequencesExt

CONSTANTS
  Heads,   \* the nodes used as list heads
  Entries  \* the nodes embedded in list entries

VARIABLES
  lists,   \* lists[h]: the entries of the list that h heads, first to last
  call     \* the last call made

absVars == <<lists, call>>

Members(L) == UNION {ToSet(L[h]) : h \in DOMAIN L}

(* Every list is a list of entries, and no entry is in it twice or is in   *)
(* another list too.                                                       *)
AbsTypeOK ==
  /\ DOMAIN lists \subseteq Heads
  /\ \A h \in DOMAIN lists :
       /\ lists[h] \in Seq(Entries)
       /\ IsInjective(lists[h])
  /\ \A g, h \in DOMAIN lists :
       g # h => ToSet(lists[g]) \cap ToSet(lists[h]) = {}

Home(L, n)  == CHOOSE h \in DOMAIN L : n = h \/ n \in ToSet(L[h])
Place(L, n) == IF n \in DOMAIN L THEN 0
               ELSE CHOOSE k \in DOMAIN L[Home(L, n)] : L[Home(L, n)][k] = n

After(L, n, e) ==
  [L EXCEPT ![Home(L, n)] = InsertAt(@, Place(L, n) + 1, e)]

Before(L, n, e) ==
  IF n \in DOMAIN L THEN [L EXCEPT ![n] = Append(@, e)]
  ELSE [L EXCEPT ![Home(L, n)] = InsertAt(@, Place(L, n), e)]

Without(L, e) == [L EXCEPT ![Home(L, e)] = RemoveAt(@, Place(L, e))]

Open(L, h, s) == [g \in DOMAIN L \union {h} |-> IF g = h THEN s ELSE L[g]]
Close(L, h)   == [g \in DOMAIN L \ {h} |-> L[g]]

Nodes == DOMAIN lists \union Members(lists)
Loose == Entries \ Members(lists)

-----------------------------------------------------------------------------
Init == lists = [h \in {} |-> <<>>] /\ call = <<>>

INIT_LIST_HEAD(h) ==
  /\ call' = <<"INIT_LIST_HEAD", h>>
  /\ h \notin DOMAIN lists
  /\ lists' = Open(lists, h, <<>>)

list_add(new, n) ==
  /\ call' = <<"list_add", new, n>>
  /\ new \in Loose /\ n \in Nodes
  /\ lists' = After(lists, n, new)

list_add_tail(new, n) ==
  /\ call' = <<"list_add_tail", new, n>>
  /\ new \in Loose /\ n \in Nodes
  /\ lists' = Before(lists, n, new)

list_del(e) ==
  /\ call' = <<"list_del", e>>
  /\ e \in Members(lists)
  /\ lists' = Without(lists, e)

(* Of an entry, as list_del; of a head, the list is emptied.               *)
list_del_init(n) ==
  /\ call' = <<"list_del_init", n>>
  /\ n \in Nodes
  /\ lists' = IF n \in DOMAIN lists THEN Open(lists, n, <<>>)
              ELSE Without(lists, n)

Replaced(old, new) ==
  IF old \in DOMAIN lists
  THEN Open(Close(lists, old), new, lists[old])
  ELSE [lists EXCEPT ![Home(lists, old)] = ReplaceAt(@, Place(lists, old), new)]

list_replace(old, new) ==
  /\ call' = <<"list_replace", old, new>>
  /\ \/ old \in Members(lists) /\ new \in Loose
     \/ old \in DOMAIN lists /\ new \in Heads \ DOMAIN lists
  /\ lists' = Replaced(old, new)

list_replace_init(old, new) ==
  /\ call' = <<"list_replace_init", old, new>>
  /\ \/ old \in Members(lists) /\ new \in Loose
     \/ old \in DOMAIN lists /\ new \in Heads \ DOMAIN lists
  /\ lists' = IF old \in DOMAIN lists
              THEN Open(Replaced(old, new), old, <<>>)
              ELSE Replaced(old, new)

list_move(e, n) ==
  /\ call' = <<"list_move", e, n>>
  /\ e \in Members(lists) /\ n \in Nodes \ {e}
  /\ lists' = After(Without(lists, e), n, e)

list_move_tail(e, n) ==
  /\ call' = <<"list_move_tail", e, n>>
  /\ e \in Members(lists) /\ n \in Nodes \ {e}
  /\ lists' = Before(Without(lists, e), n, e)

list_rotate_left(h) ==
  /\ call' = <<"list_rotate_left", h>>
  /\ h \in DOMAIN lists
  /\ lists' = IF lists[h] = <<>> THEN lists
              ELSE [lists EXCEPT ![h] = Append(Tail(@), Head(@))]

(* The part of head up to entry moves to list; nothing moves when entry is *)
(* the head, and an empty list is not cut, nor is list made a list then.   *)
list_cut_position(list, head, entry) ==
  /\ call' = <<"list_cut_position", list, head, entry>>
  /\ list \in Heads /\ head \in DOMAIN lists \ {list}
  /\ list \in DOMAIN lists => lists[list] = <<>>
  /\ entry \in ToSet(lists[head]) \union {head}
  /\ lists' =
       IF lists[head] = <<>> THEN lists
       ELSE LET k == Place(lists, entry)
                rest == SubSeq(lists[head], k + 1, Len(lists[head]))
            IN  Open([lists EXCEPT ![head] = rest], list,
                     SubSeq(lists[head], 1, k))

(* The entries of list join those of head, in front of them or behind.     *)
Joined(list, head, tail) ==
  [lists EXCEPT ![head] = IF tail THEN @ \o lists[list] ELSE lists[list] \o @]

(* Without _init, a list that is not empty is no list afterwards.          *)
list_splice(list, head, tail) ==
  /\ call' = <<"list_splice", list, head, tail>>
  /\ list \in DOMAIN lists /\ head \in DOMAIN lists \ {list}
  /\ lists' = IF lists[list] = <<>> THEN lists
              ELSE Close(Joined(list, head, tail), list)

list_splice_init(list, head, tail) ==
  /\ call' = <<"list_splice_init", list, head, tail>>
  /\ list \in DOMAIN lists /\ head \in DOMAIN lists \ {list}
  /\ lists' = Open(Joined(list, head, tail), list, <<>>)

Next ==
  \/ \E h \in Heads : INIT_LIST_HEAD(h) \/ list_rotate_left(h)
  \/ \E new \in Entries, n \in Heads \union Entries :
       list_add(new, n) \/ list_add_tail(new, n)
  \/ \E e \in Entries : list_del(e)
  \/ \E n \in Heads \union Entries : list_del_init(n)
  \/ \E old, new \in Heads \union Entries :
       list_replace(old, new) \/ list_replace_init(old, new)
  \/ \E e \in Entries, n \in Heads \union Entries :
       list_move(e, n) \/ list_move_tail(e, n)
  \/ \E list, head \in Heads, entry \in Heads \union Entries :
       list_cut_position(list, head, entry)
  \/ \E list, head \in Heads, tail \in BOOLEAN :
       list_splice(list, head, tail) \/ list_splice_init(list, head, tail)

Spec == Init /\ [][Next]_absVars
=============================================================================
