----------------------------- MODULE SortedList -----------------------------
(***************************************************************************)
(* The doubly linked lists of DataStructures/src/list.c as operators on a  *)
(* heap of nodes. A node stands for a node_t and the entry it owns; it is  *)
(* Free before malloc and after free.                                      *)
(***************************************************************************)
EXTENDS Integers, FiniteSets

CONSTANTS Keys,    \* strings, as numbers in the order of strcmp
          Values,
          Nodes,   \* the memory there is for nodes
          Null, Free

Pointers == Nodes \cup {Null}

node_t == [key : Keys, value : Values, next : Pointers, previous : Pointers]

list_t == [size : Nat, head : Pointers]

Heaps == [Nodes -> node_t \cup {Free}]

\* Mutant: the head of a new list is whatever malloc left there.
ListCreateWithoutHead == [size |-> 0, head |-> Free]

list_create == [size |-> 0, head |-> Null]

\* 1 for an empty list, 0 for one that is not, -1 when head and size disagree.
isEmpty(l) == IF (l.head = Null) # (l.size = 0) THEN -1
              ELSE IF l.head = Null THEN 1 ELSE 0

FreeNodes(h) == {n \in Nodes : h[n] = Free}

\* Mutant: the node after the new one keeps its previous.
PlaceWithoutBackLink(h, new, k, v, p, n) ==
    [m \in Nodes |->
        CASE m = new -> [key |-> k, value |-> v, next |-> n, previous |-> p]
          [] m = p   -> [h[m] EXCEPT !.next = new]
          [] OTHER   -> h[m]]

\* Node new, with an entry of key k and value v, put between p and n.
Place(h, new, k, v, p, n) ==
    [m \in Nodes |->
        CASE m = new -> [key |-> k, value |-> v, next |-> n, previous |-> p]
          [] m = p   -> [h[m] EXCEPT !.next = new]
          [] m = n   -> [h[m] EXCEPT !.previous = new]
          [] OTHER   -> h[m]]

\* Node n taken out from between its neighbours, and freed.
Unlink(h, n) ==
    [m \in Nodes |->
        CASE m = n             -> Free
          [] m = h[n].previous -> [h[m] EXCEPT !.next = h[n].next]
          [] m = h[n].next     -> [h[m] EXCEPT !.previous = h[n].previous]
          [] OTHER             -> h[m]]

\* Node new in the place of node n, which is freed.
Substitute(h, new, k, v, n) ==
    [Place(h, new, k, v, h[n].previous, h[n].next) EXCEPT ![n] = Free]

\* The nodes a loop over list l meets, in order, and Null from its end on.
Walk(h, l) ==
    LET next(n) == IF n = Null THEN Null ELSE h[n].next
        at[j \in Nat] == IF j = 0 THEN l.head ELSE next(at[j - 1])
    IN  at

list_get_keys(h, l) == [j \in 1..l.size |-> h[Walk(h, l)[j - 1]].key]
=============================================================================
