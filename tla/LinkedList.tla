------------------------------ MODULE LinkedList ------------------------------
(***************************************************************************)
(* The doubly linked lists of the HAL, alt_llist.h: a head and entries,    *)
(* each with the pointers next and previous.  A list l is a record of two  *)
(* functions from nodes to nodes.                                          *)
(***************************************************************************)

\* ALT_LLIST_HEAD: a head that points to itself; entries hold null.
Empty(head, nodes, null) ==
  [next |-> [x \in nodes |-> IF x = head THEN head ELSE null],
   prev |-> [x \in nodes |-> IF x = head THEN head ELSE null]]

\* alt_llist_insert: the entry becomes the first one.
Insert(l, head, e) ==
  [next |-> [l.next EXCEPT ![e] = l.next[head], ![head] = e],
   prev |-> [l.prev EXCEPT ![e] = head, ![l.next[head]] = e]]

RemoveForward(l, e) ==          \* mutant: the pointers back are forgotten
  [l EXCEPT !.next = [l.next EXCEPT ![l.prev[e]] = l.next[e], ![e] = e]]

\* alt_llist_remove: the entry is left pointing to itself.
Remove(l, e) ==
  [next |-> [l.next EXCEPT ![l.prev[e]] = l.next[e], ![e] = e],
   prev |-> [l.prev EXCEPT ![l.next[e]] = l.prev[e], ![e] = e]]

\* The pointers of a set of nodes stay in the set and are each other's inverses.
Linked(l, nodes) ==
  \A x \in nodes : /\ l.next[x] \in nodes /\ l.prev[x] \in nodes
                   /\ l.prev[l.next[x]] = x /\ l.next[l.prev[x]] = x
===============================================================================
