------------------------------ MODULE SancusList ------------------------------
(***************************************************************************)
(* sancus_list.h: the intrusive, circular, doubly linked list. A heap l of *)
(* nodes is a record of two functions, l.prev and l.next; a list is a head *)
(* node and whatever is linked in a ring with it. The operators are the    *)
(* pointer assignments of the source, in their order, as functions of the  *)
(* heap, so that what the code leaves behind in a node it unlinks is       *)
(* there, too.                                                             *)
(***************************************************************************)
EXTENDS Naturals

(* sancus_list_init: alone in its ring. *)
ListInit(l, n) == [l EXCEPT !.prev[n] = n, !.next[n] = n]

(* sancus_list_inject: n goes between p and x. *)
ListInject(l, n, p, x) ==
  [l EXCEPT !.next[n] = x, !.prev[n] = p, !.prev[x] = n, !.next[p] = n]

(* sancus_list_insert and sancus_list_append: first and last of the list.  *)
ListInsert(l, h, n) == ListInject(l, n, h, l.next[h])
ListAppendLosesTail(l, h, n) == ListInject(l, n, h, h)   \* a slip
ListAppend(l, h, n) == ListInject(l, n, l.prev[h], h)

(* __sancus_list_del *)
ListDelBetween(l, p, x) == [l EXCEPT !.prev[x] = p, !.next[p] = x]

(* A slip, to show that properties notice it; nothing refers to it.        *)
ListDelInit(l, n) == ListInit(ListDelBetween(l, l.prev[n], l.next[n]), n)

(* sancus_list_del: the neighbours meet; n itself is not written, and goes *)
(* on pointing at them. sancus_list_foreach depends on that.               *)
ListDel(l, n) == ListDelBetween(l, l.prev[n], l.next[n])

(* sancus_list_isempty *)
ListIsEmpty(l, h) == l.next[h] = h

(* sancus_list_foreach from head h: the node its i-th step stands on, in a *)
(* heap of at most k nodes, what it visits before it meets h again, and    *)
(* whether it ever does.                                                   *)
ListWalk(l, h, k) ==
  LET at[i \in 0..k] == IF i = 0 THEN h ELSE l.next[at[i - 1]] IN at

ListItems(l, h, k) ==
  LET at == ListWalk(l, h, k)
  IN {at[i] : i \in {j \in 1..k : \A m \in 1..j : at[m] # h}}

ListEnds(l, h, k) == \E i \in 1..k : ListWalk(l, h, k)[i] = h

(* The two links of n agree with the links of its neighbours.              *)
Linked(l, n) == l.next[l.prev[n]] = n /\ l.prev[l.next[n]] = n
=============================================================================
