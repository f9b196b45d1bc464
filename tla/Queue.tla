-------------------------------- MODULE Queue --------------------------------
(***************************************************************************)
(* The intrusive circular doubly linked list of src/src/common/queue.h.    *)
(* A queue is a record of two pointer functions over a set of nodes, the   *)
(* list head being one of the nodes.  Each macro is the function from the  *)
(* pointers before it to the pointers after it; its assignments keep the   *)
(* order of the macro, so that aliased nodes (a node inserted twice, or    *)
(* removed when it is not linked) end up as they do in memory.             *)
(***************************************************************************)
EXTENDS FiniteSets

\* The pointers before any QUEUE_INIT: every node points at itself.
SelfLinked(nodes) == [next |-> [n \in nodes |-> n], prev |-> [n \in nodes |-> n]]

QUEUE_INIT(q, n) ==
    [q EXCEPT !.next[n] = n, !.prev[n] = n]

QUEUE_INSERT_HEAD(q, h, n) ==
    LET first == q.next[h]
    IN  [q EXCEPT !.next[n] = first, !.prev[n] = h,
                  !.prev[first] = n, !.next[h] = n]

\* Removal leaves the links of n itself as they were.
QUEUE_REMOVE(q, n) ==
    [q EXCEPT !.next[q.prev[n]] = q.next[n],
              !.prev[q.next[n]] = q.prev[n]]

\* The nodes that QUEUE_FOREACH comes to, one next pointer after the other,
\* when it goes no further from the nodes in stops: the least set that holds
\* the first node and, with a node, its successor.
Reached(q, h, stops) ==
    LET Holds(V) == q.next[h] \in V /\ \A n \in V \ stops : q.next[n] \in V
    IN  {n \in DOMAIN q.next : \A V \in SUBSET DOMAIN q.next : Holds(V) => n \in V}

\* The nodes QUEUE_FOREACH visits, and whether it ever comes back to the head.
Visited(q, h) == Reached(q, h, {h}) \ {h}

WalkEnds(q, h) == h \in Reached(q, h, {h})

\* n is met by QUEUE_FOREACH no later than m is.
MetBefore(q, h, n, m) == n \in Reached(q, h, {h, m})
==============================================================================
