------------------------------ MODULE TcpServer ------------------------------
(***************************************************************************)
(* The listening socket, src/src/tcp_server.c.  Stopping is asynchronous:  *)
(* uv_close takes the handle out of the loop with its callback, and until  *)
(* then the memory of smts_tcp_server_t belongs to the loop.               *)
(***************************************************************************)
VARIABLES
    tcp_status,     \* smts_tcp_server_t.status
    server_socket,  \* its handle, as the loop sees it
    tcp_server      \* its memory block

serverVars == <<tcp_status, server_socket, tcp_server>>

\* The handle is in a queue of the loop.
InLoop == {"opened", "listening", "closing"}

ServerTypeOK ==
    /\ tcp_status \in {"UNINIT", "INIT", "RUNNING"}
    /\ server_socket \in {"none"} \cup InLoop
    /\ tcp_server \in {"live", "free"}

\* What main gets from malloc.
ServerInit ==
    /\ tcp_status = "UNINIT"
    /\ server_socket = "none"
    /\ tcp_server = "live"

init_tcp_server ==
    /\ tcp_server = "live" /\ tcp_status = "UNINIT"
    /\ tcp_status' = "INIT"
    /\ UNCHANGED <<server_socket, tcp_server>>

\* Fails before the handle is initialised, or after it, and then leaves it in
\* the loop.
start_tcp_server_Fails ==
    /\ tcp_server = "live" /\ tcp_status = "INIT"
    /\ server_socket' \in {server_socket, "opened"}
    /\ UNCHANGED <<tcp_status, tcp_server>>

start_tcp_server ==
    /\ tcp_server = "live" /\ tcp_status = "INIT"
    /\ server_socket' = "listening"
    /\ tcp_status' = "RUNNING"
    /\ UNCHANGED tcp_server

\* A bug to tell apart: the status is reset when the close is asked for.
stop_tcp_server_Early ==
    /\ tcp_server = "live" /\ tcp_status = "RUNNING"
    /\ server_socket' = "closing"
    /\ tcp_status' = "INIT"
    /\ UNCHANGED tcp_server

stop_tcp_server ==
    /\ tcp_server = "live" /\ tcp_status = "RUNNING"
    /\ server_socket' = "closing"
    /\ UNCHANGED <<tcp_status, tcp_server>>

server_socket_close_cb ==
    /\ server_socket = "closing"
    /\ server_socket' = "none"
    /\ tcp_status' = "INIT"
    /\ UNCHANGED tcp_server

\* Refuses while the server runs.
destroy_tcp_server ==
    /\ tcp_server = "live" /\ tcp_status # "RUNNING"
    /\ tcp_server' = "free"
    /\ UNCHANGED <<tcp_status, server_socket>>

\* While the socket listens or closes, callbacks of the loop get the server:
\* its memory is there ("destroy tcp server error, should be stop first!").
ServerMemory == server_socket \in {"listening", "closing"} => tcp_server = "live"
===============================================================================
