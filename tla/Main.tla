--------------------------------- MODULE Main ---------------------------------
(***************************************************************************)
(* What main sets up, src/src/smts_main.c: the addresses, the session      *)
(* table and the listening socket.  The loop is its only thread: each step *)
(* is a callback, or a call that main makes before and after the loop.     *)
(***************************************************************************)
EXTENDS SessionManager, TcpServer, NetAddrs

mainVars == <<key, manager, serverVars, addrVars>>

Init ==
    /\ init_smts_addrs
    /\ ManagerInit
    /\ ServerInit

\* A viewer that was accepted asks for a channel nobody watches.  The connect to
\* the recorder is bound to the next address; without one the session is gone by
\* the end of the callback (FailToCreateSession of Media).
NewSession(s, k) ==
    /\ tcp_status # "UNINIT"
    /\ ~is_contain(manager, key, k)
    /\ Register(s, k)
    /\ smts_get_one_addrs
    /\ UNCHANGED serverVars

\* The table itself refuses a key that is taken.
SessionOfSameKey(s, k) ==
    /\ is_contain(manager, key, k)
    /\ Register(s, k)
    /\ UNCHANGED <<serverVars, addrVars>>

EndSession(s) ==
    /\ Unregister(s)
    /\ UNCHANGED <<serverVars, addrVars>>

\* Nobody stops the server a second time before its callback.
ServerNext ==
    /\ \/ init_tcp_server
       \/ start_tcp_server_Fails
       \/ start_tcp_server
       \/ server_socket = "listening" /\ stop_tcp_server
       \/ server_socket_close_cb
       \/ destroy_tcp_server
    /\ UNCHANGED <<key, manager, addrVars>>

Next ==
    \/ ServerNext
    \/ \E s \in Sessions :
        EndSession(s) \/ \E k \in Keys : NewSession(s, k) \/ SessionOfSameKey(s, k)

Spec == Init /\ [][Next]_mainVars

TypeOK == manager \in ManagerType /\ ServerTypeOK /\ AddrsTypeOK
===============================================================================
