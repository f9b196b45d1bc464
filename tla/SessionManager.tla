---------------------------- MODULE SessionManager ----------------------------
(***************************************************************************)
(* The table of media sessions, src/src/session_manager.c: a QUEUE of      *)
(* sessions and a counter.  Sessions are looked up by key, but unlinked by *)
(* address.  Each C function is an operator from the manager before the    *)
(* call to the manager after it, so that a handler that makes two calls    *)
(* composes them.                                                          *)
(***************************************************************************)
EXTENDS Queue, Integers

CONSTANTS
    Sessions,   \* the addresses malloc may return for a session
    Keys,       \* the session keys: dvr_id, channel_no, frame_mode, type
    ListHead,   \* the head of the manager's queue
    NoSession   \* the NULL pointer

ASSUME SessionsAssumption ==
    /\ IsFiniteSet(Sessions)
    /\ ListHead \notin Sessions
    /\ NoSession \notin Sessions

Nodes == Sessions \cup {ListHead}

VARIABLES
    key,        \* the key field of each session
    manager     \* [list: the queue, size: the counter]

ManagerType ==
    [list : [next : [Nodes -> Nodes], prev : [Nodes -> Nodes]], size : Int]

init_session_manager == [list |-> SelfLinked(Nodes), size |-> 0]

Listed(m) == Visited(m.list, ListHead)

\* is_contain answers for the key, whichever session carries it.
is_contain(m, keyOf, k) == \E s \in Listed(m) : keyOf[s] = k

\* get_session: the first session with this key, counting from the head.
IsGotten(m, keyOf, k, s) ==
    /\ s \in Listed(m)
    /\ keyOf[s] = k
    /\ \A t \in Listed(m) : keyOf[t] = k => MetBefore(m.list, ListHead, s, t)

\* init_abstract_session makes the node of a new session point at itself.
init_abstract_session(m, s) == [m EXCEPT !.list = QUEUE_INIT(@, s)]

\* A bug to tell apart: a key that is registered is added again.
add_session_Unchecked(m, keyOf, s) ==
    [list |-> QUEUE_INSERT_HEAD(m.list, ListHead, s), size |-> m.size + 1]

add_session(m, keyOf, s) ==
    IF is_contain(m, keyOf, keyOf[s]) THEN m
    ELSE [list |-> QUEUE_INSERT_HEAD(m.list, ListHead, s), size |-> m.size + 1]

\* A bug to tell apart: the counter is not maintained.
delete_session_KeepSize(m, keyOf, s) ==
    IF ~is_contain(m, keyOf, keyOf[s]) THEN m
    ELSE [m EXCEPT !.list = QUEUE_REMOVE(@, s)]

delete_session(m, keyOf, s) ==
    IF ~is_contain(m, keyOf, keyOf[s]) THEN m
    ELSE [list |-> QUEUE_REMOVE(m.list, s), size |-> m.size - 1]

-----------------------------------------------------------------------------
(* The calls of callers that keep to one rule (module Main): a session is  *)
(* deleted while it is in the table, or while nothing in the table has its *)
(* key.  The media sessions of module Media do not always keep to it.      *)

ManagerInit ==
    /\ key \in [Sessions -> Keys]
    /\ manager = init_session_manager

Register(s, k) ==
    /\ s \notin Listed(manager)
    /\ key' = [key EXCEPT ![s] = k]
    /\ manager' = add_session(init_abstract_session(manager, s), key', s)

\* A condition on the callers, which session_manager.h does not state: a session is
\* deleted while it is in the table, or while no session of its key is.
Unregister(s) ==
    /\ s \in Listed(manager) \/ ~is_contain(manager, key, key[s])
    /\ manager' = delete_session(manager, key, s)
    /\ UNCHANGED key

\* The table is a circular list that comes back to its head in both directions,
\* and its counter is its length (QUEUE_FOREACH terminates, size_of_sessions).
ManagerList ==
    /\ WalkEnds(manager.list, ListHead)
    /\ \A n \in Listed(manager) \cup {ListHead} :
        manager.list.prev[manager.list.next[n]] = n
    /\ manager.size = Cardinality(Listed(manager))

\* get_session finds the one session that was added with the key: lookups by
\* key and unlinking by address agree with a set of sessions, one per key.
Table == INSTANCE Registry WITH registered <- Listed(manager)

ImplementsRegistry == Table!Spec
===============================================================================
