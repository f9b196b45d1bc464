----------------------------- MODULE Main_proofs -----------------------------
(***************************************************************************)
(* Proofs about module Main for any number of sessions, keys and addresses:*)
(* the table of sessions, the listening socket and the addresses.          *)
(***************************************************************************)
EXTENDS Main, FiniteSetTheorems, TLAPS

-----------------------------------------------------------------------------
(* Circular lists.  A ring is a set of nodes that the pointers lead round: *)
(* its only part that next does not leave is the whole of it.  So nothing  *)
(* has to be counted along the list.                                       *)

Ring(q, L) ==
    /\ L \in SUBSET DOMAIN q.next
    /\ \A n \in L : /\ q.next[n] \in L /\ q.prev[n] \in L
                    /\ q.prev[q.next[n]] = n /\ q.next[q.prev[n]] = n
    /\ \A V \in SUBSET L : (\A n \in V : q.next[n] \in V) => V = {} \/ V = L

\* The third part of a ring, for one set of nodes.
LEMMA RingIsOne ==
    ASSUME NEW q, NEW L, Ring(q, L), NEW V \in SUBSET L, V # {},
           \A n \in V : q.next[n] \in V
    PROVE  V = L
BY DEF Ring

\* QUEUE_FOREACH comes by every node of the ring and back to the head.
LEMMA RingVisited ==
    ASSUME NEW q, NEW L, NEW h \in L, Ring(q, L)
    PROVE  Visited(q, h) = L \ {h} /\ WalkEnds(q, h)
<1> DEFINE Holds(V) == q.next[h] \in V /\ \A n \in V \ {h} : q.next[n] \in V
<1>1. L \in SUBSET DOMAIN q.next /\ Holds(L)  BY DEF Ring
<1>2. ASSUME NEW V \in SUBSET DOMAIN q.next, Holds(V) PROVE L \subseteq V
  <2>1. q.next[h] \in V \cap L  BY <1>2 DEF Ring
  <2>2. h \in V
    <3> SUFFICES ASSUME h \notin V PROVE FALSE  OBVIOUS
    <3>1. \A n \in V \cap L : q.next[n] \in V \cap L  BY <1>2 DEF Ring
    <3>2. V \cap L = L  BY <2>1, <3>1 DEF Ring
    <3>3. QED  BY <3>2
  <2>3. \A n \in V \cap L : q.next[n] \in V \cap L  BY <1>2, <2>1 DEF Ring
  <2>4. V \cap L = L  BY <2>1, <2>3 DEF Ring
  <2>5. QED  BY <2>4
<1>3. Reached(q, h, {h}) = L
  <2>1. \A n : n \in Reached(q, h, {h}) <=>
            n \in DOMAIN q.next /\ \A V \in SUBSET DOMAIN q.next : Holds(V) => n \in V
    BY DEF Reached
  <2> HIDE DEF Holds
  <2>2. QED  BY <1>1, <1>2, <2>1
<1>4. QED  BY <1>3 DEF Visited, WalkEnds

\* A ring of one node.
LEMMA RingInit ==
    ASSUME NEW S, NEW h \in S
    PROVE  Ring(SelfLinked(S), {h})
BY DEF Ring, SelfLinked

\* A node that is not in the ring joins it behind the head (QUEUE_INSERT_HEAD).
LEMMA RingInsert ==
    ASSUME NEW S, NEW q \in [next : [S -> S], prev : [S -> S]],
           NEW L, Ring(q, L), NEW h \in L, NEW n \in S \ L
    PROVE  Ring(QUEUE_INSERT_HEAD(QUEUE_INIT(q, n), h, n), L \cup {n})
<1> DEFINE r == QUEUE_INSERT_HEAD(QUEUE_INIT(q, n), h, n)
           first == q.next[h]
           M == L \cup {n}
<1>1. L \in SUBSET S /\ first \in L /\ h \in S /\ n \in S  BY DEF Ring
<1>2. /\ DOMAIN r.next = S
      /\ r.next[n] = first /\ r.prev[n] = h /\ r.next[h] = n /\ r.prev[first] = n
      /\ \A m \in L : /\ m # h => r.next[m] = q.next[m]
                      /\ m # first => r.prev[m] = q.prev[m]
  BY <1>1 DEF QUEUE_INSERT_HEAD, QUEUE_INIT
<1> HIDE DEF r
<1>3. ASSUME NEW m \in M
      PROVE  /\ r.next[m] \in M /\ r.prev[m] \in M
             /\ r.prev[r.next[m]] = m /\ r.next[r.prev[m]] = m
  BY <1>1, <1>2 DEF Ring
<1>4. ASSUME NEW V \in SUBSET M, \A m \in V : r.next[m] \in V, V # {}
      PROVE  V = M
  <2> DEFINE W == V \cap L
  <2>1. W # {}
    <3>1. CASE n \in V
      <4>1. first \in V  BY <1>2, <1>4, <3>1
      <4>2. QED  BY <1>1, <4>1
    <3>2. CASE n \notin V  BY <1>4, <3>2
    <3>3. QED  BY <3>1, <3>2
  <2>2. \A m \in W : q.next[m] \in W
    <3> SUFFICES ASSUME NEW m \in W PROVE q.next[m] \in V  BY DEF Ring
    <3>1. CASE m = h
      <4>1. n \in V  BY <1>2, <1>4, <3>1
      <4>2. r.next[n] \in V  BY <1>4, <4>1
      <4>3. QED  BY <1>2, <3>1, <4>2
    <3>2. CASE m # h  BY <1>2, <1>4, <3>2
    <3>3. QED  BY <3>1, <3>2
  <2>3. W = L  BY <2>1, <2>2 DEF Ring
  <2>4. h \in V  BY <2>3
  <2>5. n \in V  BY <1>2, <1>4, <2>4
  <2>6. QED  BY <2>3, <2>5
<1>5. M \in SUBSET DOMAIN r.next  BY <1>1, <1>2
<1> HIDE DEF M
<1>6. Ring(r, M)  BY <1>3, <1>4, <1>5 DEF Ring
<1>7. QED  BY <1>6 DEF r, M

\* A node of the ring leaves it (QUEUE_REMOVE).
LEMMA RingRemove ==
    ASSUME NEW S, NEW q \in [next : [S -> S], prev : [S -> S]],
           NEW L, Ring(q, L), NEW h \in L, NEW n \in L \ {h}
    PROVE  Ring(QUEUE_REMOVE(q, n), L \ {n})
<1> DEFINE r == QUEUE_REMOVE(q, n)
           before == q.prev[n]
           after == q.next[n]
           M == L \ {n}
<1>1. L \in SUBSET S /\ before \in L /\ after \in L  BY DEF Ring
<1>2. /\ q.next[before] = n /\ q.prev[after] = n
      /\ \A m \in L : /\ q.next[m] = n => m = before
                      /\ q.prev[m] = n => m = after
  BY DEF Ring
<1>3. before # n /\ after # n
  <2>1. {n} \in SUBSET L /\ {n} # {}  OBVIOUS
  <2>2. q.next[n] = n => {n} = L
    <3> SUFFICES ASSUME q.next[n] = n PROVE {n} = L  OBVIOUS
    <3>1. \A m \in {n} : q.next[m] \in {n}  OBVIOUS
    <3>2. QED  BY <2>1, <3>1, RingIsOne
  <2>3. after # n  BY <2>2
  <2>4. QED  BY <1>2, <2>3
<1>4. /\ DOMAIN r.next = S
      /\ r.next[before] = after /\ r.prev[after] = before
      /\ \A m \in L : /\ m # before => r.next[m] = q.next[m]
                      /\ m # after => r.prev[m] = q.prev[m]
  BY <1>1 DEF QUEUE_REMOVE
<1> HIDE DEF r
<1>5. ASSUME NEW m \in M
      PROVE  /\ r.next[m] \in M /\ r.prev[m] \in M
             /\ r.prev[r.next[m]] = m /\ r.next[r.prev[m]] = m
  <2>1. r.next[m] \in M /\ r.prev[r.next[m]] = m
    <3>1. CASE m = before  BY <1>1, <1>3, <1>4, <3>1
    <3>2. CASE m # before  BY <1>1, <1>2, <1>4, <3>2 DEF Ring
    <3>3. QED  BY <3>1, <3>2
  <2>2. r.prev[m] \in M /\ r.next[r.prev[m]] = m
    <3>1. CASE m = after  BY <1>1, <1>3, <1>4, <3>1
    <3>2. CASE m # after  BY <1>1, <1>2, <1>4, <3>2 DEF Ring
    <3>3. QED  BY <3>1, <3>2
  <2>3. QED  BY <2>1, <2>2
<1>6. ASSUME NEW V \in SUBSET M, \A m \in V : r.next[m] \in V, V # {}
      PROVE  V = M
  <2>1. CASE before \in V
    <3> DEFINE W == V \cup {n}
    <3>1. after \in V  BY <1>4, <1>6, <2>1
    <3>2. \A m \in W : q.next[m] \in W
      <4> SUFFICES ASSUME NEW m \in W PROVE q.next[m] \in W  OBVIOUS
      <4>1. CASE m \in {n, before}  BY <1>2, <3>1, <4>1
      <4>2. CASE m \in V \ {before}  BY <1>4, <1>6, <4>2
      <4>3. QED  BY <4>1, <4>2
    <3>3. W \in SUBSET L /\ W # {}  OBVIOUS
    <3> HIDE DEF W
    <3>4. W = L  BY <3>2, <3>3, RingIsOne
    <3>5. QED  BY <3>4 DEF W
  <2>2. CASE before \notin V
    <3>1. \A m \in V : q.next[m] \in V  BY <1>4, <1>6, <2>2
    <3>2. V = L  BY <1>6, <3>1 DEF Ring
    <3>3. QED  BY <3>2
  <2>3. QED  BY <2>1, <2>2
<1>7. M \in SUBSET DOMAIN r.next  BY <1>1, <1>4
<1> HIDE DEF M
<1>8. Ring(r, M)  BY <1>5, <1>6, <1>7 DEF Ring
<1>9. QED  BY <1>8 DEF r, M

-----------------------------------------------------------------------------
(* The table of sessions.                                                  *)

InTable == Listed(manager) \cup {ListHead}

TableInv ==
    /\ manager \in ManagerType
    /\ key \in [Sessions -> Keys]
    /\ Ring(manager.list, InTable)
    /\ manager.size = Cardinality(Listed(manager))

\* The listed sessions of a table that is a ring.
LEMMA RingListed ==
    ASSUME NEW m \in ManagerType, NEW L, Ring(m.list, L), ListHead \in L
    PROVE  /\ Listed(m) = L \ {ListHead} /\ L = Listed(m) \cup {ListHead}
           /\ Listed(m) \in SUBSET Sessions /\ WalkEnds(m.list, ListHead)
<1>1. Listed(m) = L \ {ListHead} /\ WalkEnds(m.list, ListHead)  BY RingVisited DEF Listed
<1>2. L \in SUBSET Nodes  BY DEF Ring, ManagerType
<1>3. QED  BY <1>1, <1>2 DEF Nodes

\* A part of the sessions, one session more or less.
LEMMA SessionCounts ==
    ASSUME NEW L \in SUBSET Sessions, NEW s \in Sessions
    PROVE  /\ Cardinality(L) \in Int
           /\ s \notin L => Cardinality(L \cup {s}) = Cardinality(L) + 1
           /\ s \in L => Cardinality(L \ {s}) = Cardinality(L) - 1
<1>1. IsFiniteSet(L)  BY SessionsAssumption, FS_Subset
<1>2. QED  BY <1>1, FS_CardinalityType, FS_AddElement, FS_RemoveElement

\* The listed sessions of the table are the nodes of its ring but the head.
LEMMA TableFacts ==
    ASSUME TableInv
    PROVE  /\ Listed(manager) \in SUBSET Sessions /\ ListHead \notin Listed(manager)
           /\ ListHead \in InTable /\ ListHead \in Nodes
           /\ manager.list \in [next : [Nodes -> Nodes], prev : [Nodes -> Nodes]]
           /\ manager.size = Cardinality(Listed(manager))
           /\ Ring(manager.list, InTable) /\ WalkEnds(manager.list, ListHead)
<1>1. manager \in ManagerType /\ Ring(manager.list, InTable) /\ ListHead \in InTable
  BY DEF TableInv, InTable
<1>2. Listed(manager) \in SUBSET Sessions /\ WalkEnds(manager.list, ListHead)
  BY <1>1, RingListed
<1>3. QED  BY <1>1, <1>2, SessionsAssumption DEF TableInv, ManagerType, Nodes

\* add_session adds a session whose key is free, and nothing else.
LEMMA TableAdds ==
    ASSUME TableInv, NEW s \in Sessions, NEW k \in Keys, Register(s, k)
    PROVE  /\ TableInv'
           /\ Listed(manager') = IF is_contain(manager, key', k)
                                 THEN Listed(manager) ELSE Listed(manager) \cup {s}
<1> DEFINE m0 == init_abstract_session(manager, s)
           L == Listed(manager)
<1>1. /\ s \notin L /\ key' = [key EXCEPT ![s] = k] /\ manager' = add_session(m0, key', s)
      /\ key'[s] = k /\ key' \in [Sessions -> Keys]
  BY DEF Register, TableInv
<1>2. /\ L \in SUBSET Sessions /\ s \notin InTable /\ s \in Nodes /\ ListHead \in Nodes
      /\ manager.list \in [next : [Nodes -> Nodes], prev : [Nodes -> Nodes]]
      /\ manager.size = Cardinality(L) /\ ListHead \in InTable
      /\ Ring(manager.list, InTable)
  <2>1. s \notin InTable /\ s \in Nodes  BY <1>1, SessionsAssumption DEF InTable, Nodes
  <2>2. QED  BY <2>1, TableFacts
<1>3. /\ m0 \in ManagerType /\ m0.size = manager.size
      /\ m0.list = QUEUE_INIT(manager.list, s)
  BY <1>2 DEF init_abstract_session, QUEUE_INIT, TableInv, ManagerType
<1>4. Ring(m0.list, InTable)
  <2>1. /\ DOMAIN m0.list.next = DOMAIN manager.list.next
        /\ \A n \in InTable : /\ m0.list.next[n] = manager.list.next[n]
                              /\ m0.list.prev[n] = manager.list.prev[n]
    BY <1>2, <1>3 DEF QUEUE_INIT, Ring
  <2>2. QED  BY <1>2, <2>1 DEF Ring
<1>5. Listed(m0) = L
  <2>1. Listed(m0) = InTable \ {ListHead}  BY <1>2, <1>3, <1>4, RingListed
  <2>2. QED  BY <2>1, TableFacts DEF InTable
<1>6. is_contain(m0, key', k) <=> is_contain(manager, key', k)  BY <1>5 DEF is_contain
<1>7. CASE is_contain(manager, key', k)
  <2>1. manager' = m0  BY <1>1, <1>6, <1>7 DEF add_session
  <2>2. Listed(manager') = L  BY <1>5, <2>1
  <2>3. InTable' = InTable  BY <2>2 DEF InTable
  <2>4. QED  BY <1>1, <1>2, <1>3, <1>4, <1>7, <2>1, <2>2, <2>3 DEF TableInv
<1>8. CASE ~is_contain(manager, key', k)
  <2>1. manager' = [list |-> QUEUE_INSERT_HEAD(m0.list, ListHead, s), size |-> m0.size + 1]
    BY <1>1, <1>6, <1>8 DEF add_session
  <2>2. Ring(manager'.list, InTable \cup {s})
    <3>1. Ring(QUEUE_INSERT_HEAD(QUEUE_INIT(manager.list, s), ListHead, s), InTable \cup {s})
      BY <1>2, RingInsert
    <3>2. QED  BY <1>3, <2>1, <3>1
  <2>3. manager' \in ManagerType
    <3>1. QUEUE_INSERT_HEAD(m0.list, ListHead, s) \in
                [next : [Nodes -> Nodes], prev : [Nodes -> Nodes]]
      BY <1>2, <1>3 DEF QUEUE_INSERT_HEAD, ManagerType
    <3>2. m0.size + 1 \in Int  BY <1>3 DEF ManagerType
    <3>3. QED  BY <2>1, <3>1, <3>2 DEF ManagerType
  <2>4. Listed(manager') = L \cup {s}
    <3>1. Listed(manager') = (InTable \cup {s}) \ {ListHead}
      BY <1>2, <2>2, <2>3, RingListed
    <3>2. QED  BY <3>1, TableFacts, SessionsAssumption DEF InTable
  <2>5. InTable' = InTable \cup {s}  BY <2>4 DEF InTable
  <2>6. manager'.size = Cardinality(L \cup {s})
    BY <1>1, <1>2, <1>3, <2>1, SessionCounts
  <2>7. QED  BY <1>1, <1>8, <2>2, <2>3, <2>4, <2>5, <2>6 DEF TableInv
<1>9. QED  BY <1>7, <1>8

\* delete_session deletes the session, if it is in the table, and nothing else.
LEMMA TableRemoves ==
    ASSUME TableInv, NEW s \in Sessions, Unregister(s)
    PROVE  TableInv' /\ Listed(manager') = Listed(manager) \ {s}
<1> DEFINE L == Listed(manager)
<1>1. /\ s \in L \/ ~is_contain(manager, key, key[s])
      /\ manager' = delete_session(manager, key, s) /\ key' = key
  BY DEF Unregister
<1>2. /\ L \in SUBSET Sessions /\ s \in Nodes /\ ListHead \in Nodes
      /\ manager.list \in [next : [Nodes -> Nodes], prev : [Nodes -> Nodes]]
      /\ manager.size = Cardinality(L) /\ ListHead \in InTable
      /\ Ring(manager.list, InTable)
  <2>1. s \in Nodes  BY DEF Nodes
  <2>2. QED  BY <2>1, TableFacts
<1>3. CASE s \in L
  <2>1. is_contain(manager, key, key[s])  BY <1>3 DEF is_contain
  <2>2. manager' = [list |-> QUEUE_REMOVE(manager.list, s), size |-> manager.size - 1]
    BY <1>1, <2>1 DEF delete_session
  <2>3. s \in InTable \ {ListHead}  BY <1>3, SessionsAssumption DEF InTable
  <2>4. Ring(manager'.list, InTable \ {s})  BY <1>2, <2>2, <2>3, RingRemove
  <2>5. manager' \in ManagerType
    <3>1. QUEUE_REMOVE(manager.list, s) \in [next : [Nodes -> Nodes], prev : [Nodes -> Nodes]]
      BY <1>2 DEF QUEUE_REMOVE
    <3>2. manager.size - 1 \in Int  BY DEF TableInv, ManagerType
    <3>3. QED  BY <2>2, <3>1, <3>2 DEF ManagerType
  <2>6. Listed(manager') = L \ {s}
    <3>1. Listed(manager') = (InTable \ {s}) \ {ListHead}
      BY <1>2, <2>3, <2>4, <2>5, RingListed
    <3>2. QED  BY <3>1, TableFacts DEF InTable
  <2>7. InTable' = InTable \ {s}  BY <2>3, <2>6 DEF InTable
  <2>8. manager'.size = Cardinality(L \ {s})  BY <1>2, <1>3, <2>2, SessionCounts
  <2>9. QED  BY <1>1, <2>4, <2>5, <2>6, <2>7, <2>8 DEF TableInv
<1>4. CASE s \notin L
  <2>1. manager' = manager  BY <1>1, <1>4 DEF delete_session
  <2>2. QED  BY <1>1, <1>4, <2>1 DEF TableInv, InTable
<1>5. QED  BY <1>3, <1>4

\* init_session_manager makes an empty table.
LEMMA TableBegins == ASSUME ManagerInit PROVE TableInv /\ Listed(manager) = {}
<1>1. manager \in ManagerType /\ manager.list = SelfLinked(Nodes) /\ manager.size = 0
  BY DEF ManagerInit, init_session_manager, SelfLinked, ManagerType
<1>2. Ring(manager.list, {ListHead})  BY <1>1, RingInit DEF Nodes
<1>3. Listed(manager) = {} /\ InTable = {ListHead}
  BY <1>1, <1>2, RingListed DEF InTable
<1>4. QED  BY <1>1, <1>2, <1>3, FS_EmptySet DEF ManagerInit, TableInv

\* A step registers a session, unregisters one, or leaves the table alone.
LEMMA TableStep ==
    ASSUME [Next]_mainVars
    PROVE  \/ UNCHANGED <<key, manager>>
           \/ \E s \in Sessions : Unregister(s) \/ \E k \in Keys : Register(s, k)
BY DEF Next, mainVars, ServerNext, EndSession, NewSession, SessionOfSameKey

\* The table stays a ring whose length is its counter (session_manager.c).
THEOREM TableKept == Spec => []TableInv
<1>1. TableInv /\ [Next]_mainVars => TableInv'
  <2> SUFFICES ASSUME TableInv, [Next]_mainVars PROVE TableInv'  OBVIOUS
  <2>1. CASE UNCHANGED <<key, manager>>  BY <2>1 DEF TableInv, InTable
  <2>2. QED  BY <2>1, TableStep, TableAdds, TableRemoves
<1>2. Init => TableInv  BY TableBegins DEF Init
<1>3. QED  BY <1>1, <1>2, PTL DEF Spec

\* However sessions come and go, the table stays a circular list of which the
\* counter is the length (session_manager.c, queue.h).
THEOREM TableIsList == Spec => []ManagerList
<1>1. TableInv => ManagerList
  <2> SUFFICES ASSUME TableInv PROVE ManagerList  OBVIOUS
  <2>1. WalkEnds(manager.list, ListHead)  BY TableFacts
  <2>2. QED  BY <2>1 DEF TableInv, ManagerList, Ring, InTable
<1>2. QED  BY <1>1, TableKept, PTL

\* The linked table is the set of sessions with one session per key of module
\* Registry, for any number of sessions and keys (session_manager.h).
THEOREM TableImplementsRegistry == Spec => ImplementsRegistry
<1>1. Init => Table!Init  BY TableBegins DEF Init, ManagerInit, Table!Init
<1>2. TableInv /\ [Next]_mainVars => [Table!Next]_<<key, Listed(manager)>>
  <2> SUFFICES ASSUME TableInv, [Next]_mainVars
      PROVE  [Table!Next]_<<key, Listed(manager)>>
    OBVIOUS
  <2>1. CASE UNCHANGED <<key, manager>>  BY <2>1
  <2>2. ASSUME NEW s \in Sessions, Unregister(s) PROVE Table!Unregister(s)
    <3>1. Listed(manager') = Listed(manager) \ {s}  BY <2>2, TableRemoves
    <3>2. key' = key  BY <2>2 DEF Unregister
    <3>3. QED  BY <3>1, <3>2 DEF Table!Unregister
  <2>3. ASSUME NEW s \in Sessions, NEW k \in Keys, Register(s, k) PROVE Table!Register(s, k)
    <3>1. Listed(manager') = IF is_contain(manager, key', k)
                             THEN Listed(manager) ELSE Listed(manager) \cup {s}
      BY <2>3, TableAdds
    <3>2. s \notin Listed(manager) /\ key' = [key EXCEPT ![s] = k]
      BY <2>3 DEF Register
    <3>3. \A t \in Listed(manager) : key'[t] = key[t]
      BY <3>2, TableFacts DEF TableInv
    <3>4. is_contain(manager, key', k) <=> \E t \in Listed(manager) : key[t] = k
      BY <3>3 DEF is_contain
    <3>5. QED  BY <3>1, <3>2, <3>4 DEF Table!Register
  <2>4. QED  BY <2>1, <2>2, <2>3, TableStep DEF Table!Next
<1>3. QED  BY <1>1, <1>2, TableKept, PTL DEF Spec, ImplementsRegistry, Table!Spec

-----------------------------------------------------------------------------
(* The listening socket.                                                   *)

\* The status says RUNNING from the listen to the callback of the close, and
\* destroy_tcp_server looks at the status.
ServerInv ==
    /\ server_socket \in {"listening", "closing"} <=> tcp_status = "RUNNING"
    /\ tcp_status = "RUNNING" => tcp_server = "live"

\* While the listening socket is open or closing its memory is not given back
\* (stop_tcp_server, server_socket_close_cb, destroy_tcp_server).
THEOREM ServerMemoryKept == Spec => []ServerMemory
<1>1. Init => ServerInv  BY DEF Init, ServerInit, ServerInv
<1>2. ServerInv /\ [Next]_mainVars => ServerInv'
  <2> SUFFICES ASSUME ServerInv, [Next]_mainVars PROVE ServerInv'  OBVIOUS
  <2>1. CASE UNCHANGED serverVars  BY <2>1 DEF serverVars, ServerInv
  <2>2. CASE init_tcp_server  BY <2>2 DEF init_tcp_server, ServerInv
  <2>3. CASE start_tcp_server_Fails  BY <2>3 DEF start_tcp_server_Fails, ServerInv
  <2>4. CASE start_tcp_server  BY <2>4 DEF start_tcp_server, ServerInv
  <2>5. CASE stop_tcp_server  BY <2>5 DEF stop_tcp_server, ServerInv
  <2>6. CASE server_socket_close_cb  BY <2>6 DEF server_socket_close_cb, ServerInv
  <2>7. CASE destroy_tcp_server  BY <2>7 DEF destroy_tcp_server, ServerInv
  <2>8. QED
    BY <2>1, <2>2, <2>3, <2>4, <2>5, <2>6, <2>7
    DEF Next, mainVars, ServerNext, EndSession, NewSession, SessionOfSameKey
<1>3. ServerInv => ServerMemory  BY DEF ServerInv, ServerMemory
<1>4. QED  BY <1>1, <1>2, <1>3, PTL DEF Spec

-----------------------------------------------------------------------------
(* The addresses.                                                          *)

\* The addresses before the index were used once more than those behind it.
AddrsInv ==
    /\ addr_count \in 0 .. MaxAddrs /\ uses \in [Addrs -> Nat]
    /\ (addr_index \in Nat /\ addr_index < addr_count) \/ addr_index = 0
    /\ \A a, b \in 0 .. addr_count - 1 :
        uses[a] = uses[b] + (IF a < addr_index THEN 1 ELSE 0) - (IF b < addr_index THEN 1 ELSE 0)

\* The index goes round.
LEMMA IndexGoesRound ==
    ASSUME AddrsInv, addr_count > 0
    PROVE  NextAddr = IF addr_index + 1 = addr_count THEN 0 ELSE addr_index + 1
<1>1. /\ addr_count \in Nat /\ addr_index \in Nat /\ addr_index + 1 \in 0..addr_count
  BY AddrsAssumption DEF AddrsInv
<1>2. CASE addr_index + 1 = addr_count
  <2>1. addr_count % addr_count = 0  BY <1>1
  <2>2. QED  BY <1>2, <2>1 DEF NextAddr
<1>3. CASE addr_index + 1 # addr_count
  <2>1. (addr_index + 1) % addr_count = addr_index + 1  BY <1>1, <1>3
  <2>2. QED  BY <1>3, <2>1 DEF NextAddr
<1>4. QED  BY <1>2, <1>3

\* smts_get_one_addrs uses the address that is next.
LEMMA AddressTaken ==
    ASSUME AddrsInv, smts_get_one_addrs
    PROVE  AddrsInv'
<1>1. /\ addr_count \in Nat /\ addr_count > 0 /\ addr_count <= MaxAddrs /\ MaxAddrs \in Nat
      /\ addr_index \in 0 .. addr_count - 1 /\ addr_count' = addr_count
      /\ 0 .. addr_count - 1 \in SUBSET Addrs
  BY AddrsAssumption DEF smts_get_one_addrs, AddrsInv, Addrs
<1>2. /\ \A a \in 0 .. addr_count - 1 :
            uses[a] \in Nat /\ uses'[a] = uses[a] + (IF a = addr_index THEN 1 ELSE 0)
      /\ uses' \in [Addrs -> Nat]
  BY <1>1 DEF smts_get_one_addrs, AddrsInv
<1>3. addr_index' = IF addr_index + 1 = addr_count THEN 0 ELSE addr_index + 1
  BY <1>1, IndexGoesRound DEF smts_get_one_addrs
<1>4. ASSUME NEW a \in 0 .. addr_count - 1, NEW b \in 0 .. addr_count - 1
      PROVE  uses'[a] = uses'[b] + (IF a < addr_index' THEN 1 ELSE 0)
                                 - (IF b < addr_index' THEN 1 ELSE 0)
  <2>1. /\ uses[a] = uses[b] + (IF a < addr_index THEN 1 ELSE 0)
                             - (IF b < addr_index THEN 1 ELSE 0)
    BY DEF AddrsInv
  <2>2. CASE addr_index + 1 = addr_count  BY <1>1, <1>2, <1>3, <2>1, <2>2
  <2>3. CASE addr_index + 1 # addr_count  BY <1>1, <1>2, <1>3, <2>1, <2>3
  <2>4. QED  BY <2>2, <2>3
<1>5. QED  BY <1>1, <1>2, <1>3, <1>4 DEF AddrsInv

\* The addresses are used in turn (smts_get_one_addrs).
THEOREM AddrsKept == Spec => []AddrsInv
<1>1. Init => AddrsInv
  BY AddrsAssumption DEF Init, init_smts_addrs, AddrsInv, Addrs
<1>2. AddrsInv /\ [Next]_mainVars => AddrsInv'
  <2> SUFFICES ASSUME AddrsInv, [Next]_mainVars PROVE AddrsInv'  OBVIOUS
  <2>1. CASE UNCHANGED addrVars  BY <2>1 DEF addrVars, AddrsInv
  <2>2. CASE smts_get_one_addrs  BY <2>2, AddressTaken
  <2>3. QED
    BY <2>1, <2>2 DEF Next, mainVars, ServerNext, EndSession, NewSession, SessionOfSameKey
<1>3. QED  BY <1>1, <1>2, PTL DEF Spec

\* Connections to recorders are spread evenly over any number of addresses
\* (smts_get_one_addrs).
THEOREM AddressesSpread == Spec => []AddressesEven
<1>1. AddrsInv => AddressesEven
  <2> SUFFICES ASSUME AddrsInv, NEW a \in 0 .. addr_count - 1, NEW b \in 0 .. addr_count - 1
      PROVE  uses[a] <= uses[b] + 1
    BY DEF AddressesEven
  <2>1. uses[a] \in Nat /\ uses[b] \in Nat  BY AddrsAssumption DEF AddrsInv, Addrs
  <2>2. uses[a] = uses[b] + (IF a < addr_index THEN 1 ELSE 0) - (IF b < addr_index THEN 1 ELSE 0)
    BY DEF AddrsInv
  <2>3. QED  BY <2>1, <2>2
<1>2. QED  BY <1>1, AddrsKept, PTL

\* The table's pointers lead to sessions or to its head, the status, the socket
\* and the memory of the server have their values, and the index of the next
\* address is that of one of the addresses (session_manager.c, tcp_server.c,
\* smts_get_one_addrs).
THEOREM MainTypes == Spec => []TypeOK
<1>1. Init => ServerTypeOK  BY DEF Init, ServerInit, ServerTypeOK
<1>2. ServerTypeOK /\ [Next]_mainVars => ServerTypeOK'
  <2> SUFFICES ASSUME ServerTypeOK, [Next]_mainVars PROVE ServerTypeOK'  OBVIOUS
  <2> USE DEF ServerTypeOK, InLoop
  <2>1. CASE UNCHANGED serverVars  BY <2>1 DEF serverVars
  <2>2. CASE ServerNext
    BY <2>2
    DEF ServerNext, init_tcp_server, start_tcp_server_Fails, start_tcp_server,
        stop_tcp_server, server_socket_close_cb, destroy_tcp_server
  <2>3. QED
    BY <2>1, <2>2 DEF Next, mainVars, EndSession, NewSession, SessionOfSameKey
<1>3. AddrsInv => AddrsTypeOK  BY AddrsAssumption DEF AddrsInv, AddrsTypeOK, Addrs
<1>4. TableInv => manager \in ManagerType  BY DEF TableInv
<1>5. Spec => []ServerTypeOK  BY <1>1, <1>2, PTL DEF Spec
<1>6. QED  BY <1>3, <1>4, <1>5, AddrsKept, TableKept, PTL DEF TypeOK
=============================================================================
