------------------------------- MODULE Registry -------------------------------
(***************************************************************************)
(* What the functions of session_manager.h are for: a set of sessions, one *)
(* per key, from which a session can be looked up by its key, and which    *)
(* only loses the session that is deleted.                                 *)
(***************************************************************************)
CONSTANTS Sessions, Keys

VARIABLES
    key,        \* the key of each session
    registered  \* the sessions that get_session can return

Init ==
    /\ key \in [Sessions -> Keys]
    /\ registered = {}

\* A key that is taken is refused.
Register(s, k) ==
    /\ s \notin registered
    /\ key' = [key EXCEPT ![s] = k]
    /\ registered' = IF \E t \in registered : key[t] = k
                     THEN registered ELSE registered \cup {s}

Unregister(s) ==
    /\ registered' = registered \ {s}
    /\ UNCHANGED key

Next == \E s \in Sessions : Unregister(s) \/ \E k \in Keys : Register(s, k)

Spec == Init /\ [][Next]_<<key, registered>>

OnePerKey == \A s, t \in registered : key[s] = key[t] => s = t
===============================================================================
