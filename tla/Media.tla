-------------------------------- MODULE Media --------------------------------
(***************************************************************************)
(* A media session and its connections: src/src/smts_session.c, the        *)
(* viewers' connections of src/src/smts_client_impl.c, the recorder's      *)
(* connection of src/src/mock/smts_mock_dvr_impl.c and the writes and      *)
(* closes of src/src/smts_abstract_tcp_client.c, over the session table of *)
(* SessionManager.                                                         *)
(*                                                                         *)
(* The program has one thread, the libuv loop.  An action is one callback  *)
(* of the loop with every call it makes; between two callbacks anything    *)
(* the loop may deliver next can come.  uv_write, uv_read_start and        *)
(* uv_tcp_connect may refuse; an accepted write is called back in order,   *)
(* and uv_close makes every pending request of the handle call back before *)
(* the close callback.                                                     *)
(***************************************************************************)
EXTENDS SessionManager, Sequences

CONSTANTS
    Clients,    \* the blocks malloc may return for a viewer's connection
    Frames,     \* the blocks malloc may return for a frame
    MaxStarts   \* bound: PREVIEW commands a viewer sends on one connection

ASSUME MediaAssumption ==
    /\ IsFiniteSet(Clients)
    /\ IsFiniteSet(Frames)
    /\ {"res", "err"} \cap Frames = {}
    /\ MaxStarts \in Nat
    /\ Keys # {}

VARIABLES
    chandle,    \* libuv handle and memory block of smts_client_t
    cstatus,    \* smts_client_t.status
    csession,   \* smts_client_t.session
    writeq,     \* messages handed to uv_write and not called back yet
    reply,      \* status of the preview response handed to uv_write
    starts,     \* PREVIEW commands received on the connection
    smem,       \* memory block of smts_session_t
    clients,    \* smts_session_t.client: the nodes linked in the list
    client_size,\* smts_session_t.client_size
    sstatus,    \* smts_session_t.status
    timer,      \* smts_session_t.wait_exit_timer is active
    dvr,        \* what the recorder's connection waits for
    dclosing,   \* uv_close was called on the recorder's handle
    fmem,       \* memory block of smts_frame_t and of its response
    fref        \* smts_frame_res_t.ref

clientVars  == <<chandle, cstatus, csession, writeq, reply, starts>>
sessionVars == <<smem, clients, client_size, sstatus, timer>>
dvrVars     == <<dvr, dclosing>>
managerVars == <<key, manager>>
frameVars   == <<fmem, fref>>
vars == <<clientVars, sessionVars, dvrVars, managerVars, frameVars>>

Messages == {"res", "err"} \cup Frames

\* What each variable may hold; of the counters, any integer.
Types ==
    /\ chandle \in [Clients -> {"free", "open", "closing"}]
    /\ cstatus \in [Clients -> {"INIT", "PREVIEW_RES", "FRAMES", "STOP"}]
    /\ csession \in [Clients -> Sessions \cup {NoSession}]
    /\ writeq \in [Clients -> Seq(Messages)]
    /\ reply \in [Clients -> {"none", "ok", "error"}]
    /\ starts \in [Clients -> 0..MaxStarts]
    /\ smem \in [Sessions -> {"free", "live"}]
    /\ clients \in [Sessions -> SUBSET Clients]
    /\ client_size \in [Sessions -> Int]
    /\ sstatus \in [Sessions -> {"INIT", "RUNNING"}]
    /\ timer \in [Sessions -> BOOLEAN]
    /\ dvr \in [Sessions -> {"none", "connecting", "previewing", "reading", "stopped"}]
    /\ dclosing \in [Sessions -> BOOLEAN]
    /\ key \in [Sessions -> Keys]
    /\ manager \in ManagerType
    /\ fmem \in [Frames -> {"free", "live"}]
    /\ fref \in [Frames -> Int]

\* Nothing is counted down that was not counted up: a session's viewers and the
\* references to a frame are never fewer than none (media_client_stop_preview,
\* on_smts_client_send_frame).
TypeOK ==
    /\ Types
    /\ client_size \in [Sessions -> Nat]
    /\ fref \in [Frames -> Nat]

Init ==
    /\ chandle = [c \in Clients |-> "free"]
    /\ cstatus = [c \in Clients |-> "INIT"]
    /\ csession = [c \in Clients |-> NoSession]
    /\ writeq = [c \in Clients |-> <<>>]
    /\ reply = [c \in Clients |-> "none"]
    /\ starts = [c \in Clients |-> 0]
    /\ smem = [s \in Sessions |-> "free"]
    /\ clients = [s \in Sessions |-> {}]
    /\ client_size = [s \in Sessions |-> 0]
    /\ sstatus = [s \in Sessions |-> "INIT"]
    /\ timer = [s \in Sessions |-> FALSE]
    /\ dvr = [s \in Sessions |-> "none"]
    /\ dclosing = [s \in Sessions |-> FALSE]
    /\ key = [s \in Sessions |-> CHOOSE k \in Keys : TRUE]
    /\ manager = init_session_manager
    /\ fmem = [f \in Frames |-> "free"]
    /\ fref = [f \in Frames |-> 0]

-----------------------------------------------------------------------------
(* Steps shared by the callbacks.                                          *)

\* f with v at every point of X.
Mark(f, X, v) == [x \in DOMAIN f |-> IF x \in X THEN v ELSE f[x]]

\* Listed clients that have not been answered yet.
Waiting(s) == {c \in clients[s] : cstatus[c] = "INIT"}

\* smts_client_send_preview_res to the clients W, uv_write accepting it.
SendPreviewRes(W, status) ==
    /\ writeq' = [c \in Clients |-> IF c \in W THEN Append(writeq[c], "res")
                                                ELSE writeq[c]]
    /\ reply' = Mark(reply, W, status)

\* A bug to tell apart: the client is not unlinked.
media_client_stop_preview_Linked(s, X) ==
    /\ client_size' = [client_size EXCEPT ![s] = @ - Cardinality(X)]
    /\ csession' = Mark(csession, X, NoSession)
    /\ chandle' = Mark(chandle, X, "closing")
    /\ timer' = [timer EXCEPT ![s] = @ \/ (X # {} /\ client_size[s] = Cardinality(X))]
    /\ UNCHANGED clients

\* A bug to tell apart: only a session that runs waits for its exit.
media_client_stop_preview_Running(s, X) ==
    /\ clients' = [clients EXCEPT ![s] = @ \ X]
    /\ client_size' = [client_size EXCEPT ![s] = @ - Cardinality(X)]
    /\ csession' = Mark(csession, X, NoSession)
    /\ chandle' = Mark(chandle, X, "closing")
    /\ timer' = [timer EXCEPT ![s] = @ \/ (/\ X # {}
                                           /\ client_size[s] = Cardinality(X)
                                           /\ sstatus[s] = "RUNNING")]

\* stop_smts_client for the listed clients X of s, but for their status:
\* media_client_stop_preview, wait_exit_session when the list becomes empty,
\* and uv_close.
media_client_stop_preview(s, X) ==
    /\ clients' = [clients EXCEPT ![s] = @ \ X]
    /\ client_size' = [client_size EXCEPT ![s] = @ - Cardinality(X)]
    /\ csession' = Mark(csession, X, NoSession)
    /\ chandle' = Mark(chandle, X, "closing")
    /\ timer' = [timer EXCEPT ![s] = @ \/ (X # {} /\ client_size[s] = Cardinality(X))]

\* A bug to tell apart: the status does not record the stop.
stop_smts_client_Forgets(c) ==
    /\ UNCHANGED cstatus
    /\ IF csession[c] # NoSession
       THEN media_client_stop_preview(csession[c], {c})
       ELSE /\ chandle' = [chandle EXCEPT ![c] = "closing"]
            /\ UNCHANGED <<csession, clients, client_size, timer>>

stop_smts_client(c) ==
    IF cstatus[c] = "STOP"
    THEN UNCHANGED <<cstatus, csession, chandle, clients, client_size, timer>>
    ELSE /\ cstatus' = [cstatus EXCEPT ![c] = "STOP"]
         /\ IF csession[c] # NoSession
            THEN media_client_stop_preview(csession[c], {c})
            ELSE /\ chandle' = [chandle EXCEPT ![c] = "closing"]
                 /\ UNCHANGED <<csession, clients, client_size, timer>>

\* The loop of stop_media_session: each waiting client is sent a response
\* (uv_write may refuse it), each listed client is stopped.
AnswerAndStop(s, status) ==
    /\ \E W \in SUBSET Waiting(s) : SendPreviewRes(W, status)
    /\ cstatus' = Mark(cstatus, clients[s], "STOP")
    /\ media_client_stop_preview(s, clients[s])

\* The response carries the status of the session, SMTS_SESSION_INIT = 0
\* being SMTS_OK as well.
SessionStatusAsReply(s) == IF sstatus[s] = "INIT" THEN "ok" ELSE "error"

stop_media_session(s) ==
    /\ manager' = delete_session(manager, key, s)
    /\ AnswerAndStop(s, SessionStatusAsReply(s))

\* The clients a frame is written to: those that were answered.
Recipients_All(s) == clients[s]             \* a bug to tell apart

Recipients(s) == {c \in clients[s] : cstatus[c] = "FRAMES"}

\* References are counted for the whole list before the loop; every client the
\* frame is not in flight to gives its own back.
frame_ref_Leak(s, sent) == client_size[s]   \* a bug to tell apart

\* A bug to tell apart: only those it is written to are counted.
frame_ref_Recipients(s, sent) ==
    Cardinality(Recipients(s)) - Cardinality(clients[s] \ sent)

frame_ref(s, sent) == client_size[s] - Cardinality(clients[s] \ sent)

\* on_smts_client_send_frame for the references that n writes gave back.
frame_unref(f, n) ==
    /\ fref' = [fref EXCEPT ![f] = @ - n]
    /\ fmem' = IF fref[f] = n THEN [fmem EXCEPT ![f] = "free"] ELSE fmem

-----------------------------------------------------------------------------
(* A viewer's connection.                                                  *)

client_on_connection(c) ==
    /\ chandle[c] = "free"
    /\ \E h \in {"open", "closing"} :   \* uv_accept or uv_read_start may refuse
            chandle' = [chandle EXCEPT ![c] = h]
    /\ cstatus' = [cstatus EXCEPT ![c] = "INIT"]
    /\ csession' = [csession EXCEPT ![c] = NoSession]
    /\ reply' = [reply EXCEPT ![c] = "none"]
    /\ starts' = [starts EXCEPT ![c] = 0]
    /\ UNCHANGED <<writeq, sessionVars, dvrVars, managerVars, frameVars>>

add_smts_client(s, c, others, size) ==
    /\ clients' = [clients EXCEPT ![s] = others \cup {c}]
    /\ client_size' = [client_size EXCEPT ![s] = size + 1]
    /\ csession' = [csession EXCEPT ![c] = s]

\* smts_client_send_preview_res to a client that joins, uv_write accepting it;
\* the status keeps a client from being answered twice.
AnswerJoined_Silent(c) == UNCHANGED <<cstatus, writeq, reply>>  \* a bug to tell apart

AnswerJoined(c) ==
    IF cstatus[c] = "INIT"
    THEN /\ cstatus' = [cstatus EXCEPT ![c] = "PREVIEW_RES"]
         /\ SendPreviewRes({c}, "ok")
    ELSE UNCHANGED <<cstatus, writeq, reply>>

\* The session exists: the client is added and told that the preview is on.
JoinSession(c, s) ==
    /\ \/ /\ add_smts_client(s, c, clients[s], client_size[s])
          /\ AnswerJoined(c)
          /\ UNCHANGED <<chandle, timer>>
       \/ /\ cstatus[c] = "INIT"           \* uv_write refuses: added and stopped
          /\ cstatus' = [cstatus EXCEPT ![c] = "STOP"]
          /\ clients' = [clients EXCEPT ![s] = @ \ {c}]
          /\ csession' = [csession EXCEPT ![c] = NoSession]
          /\ chandle' = [chandle EXCEPT ![c] = "closing"]
          /\ timer' = [timer EXCEPT ![s] = @ \/ client_size[s] = 0]
          /\ UNCHANGED <<client_size, writeq, reply>>
    /\ UNCHANGED <<smem, sstatus, dvrVars, managerVars, frameVars>>

\* No session: a new one, registered and connecting to its recorder.
CreateSession(c, s, k) ==
    /\ smem' = [smem EXCEPT ![s] = "live"]
    /\ key' = [key EXCEPT ![s] = k]
    /\ sstatus' = [sstatus EXCEPT ![s] = "INIT"]
    /\ timer' = [timer EXCEPT ![s] = FALSE]
    /\ add_smts_client(s, c, {}, 0)
    /\ manager' = add_session(init_abstract_session(manager, s), key', s)
    /\ dvr' = [dvr EXCEPT ![s] = "connecting"]
    /\ dclosing' = [dclosing EXCEPT ![s] = FALSE]
    /\ UNCHANGED <<chandle, cstatus, writeq, reply, frameVars>>

\* A new session whose recorder is unknown, or cannot be connected to: it is
\* unregistered if it was registered, freed, and the client told so.
FailToCreateSession(c, s, k) ==
    /\ key' = [key EXCEPT ![s] = k]
    /\ LET fresh == init_abstract_session(manager, s)
       IN  manager' \in {fresh, delete_session(add_session(fresh, key', s), key', s)}
    /\ csession' = [csession EXCEPT ![c] = NoSession]
    /\ \/ /\ writeq' = [writeq EXCEPT ![c] = Append(@, "err")]
          /\ reply' = [reply EXCEPT ![c] = "error"]
       \/ UNCHANGED <<writeq, reply>>       \* uv_write refuses
    /\ UNCHANGED <<chandle, cstatus, sessionVars, dvrVars, frameVars>>

\* media_client_start_preview looks the session up and joins or creates it.
smts_start_preview(c, k) ==
    /\ chandle[c] = "open"
    /\ starts[c] < MaxStarts
    /\ starts' = [starts EXCEPT ![c] = @ + 1]
    /\ \/ \E s \in Sessions : IsGotten(manager, key, k, s) /\ JoinSession(c, s)
       \/ /\ ~is_contain(manager, key, k)
          /\ \E s \in Sessions :
                /\ smem[s] = "free"
                /\ CreateSession(c, s, k) \/ FailToCreateSession(c, s, k)

\* dispatch_packet with an error: the viewer is gone or sent a bad packet.
dispatch_packet_error(c) ==
    /\ chandle[c] = "open"
    /\ stop_smts_client(c)
    /\ UNCHANGED <<writeq, reply, starts, smem, sstatus, dvrVars, managerVars, frameVars>>

\* Write callbacks.  The head of the queue is the request called back.
on_smts_client_send_preview_res_cb_slient(c) ==
    /\ writeq[c] # <<>> /\ Head(writeq[c]) = "res"
    /\ writeq' = [writeq EXCEPT ![c] = Tail(@)]
    /\ cstatus' = [cstatus EXCEPT ![c] = "FRAMES"]
    /\ UNCHANGED <<chandle, csession, reply, starts, sessionVars, dvrVars,
                   managerVars, frameVars>>

on_smts_client_send_error_preview_res_cb(c) ==
    /\ writeq[c] # <<>> /\ Head(writeq[c]) = "err"
    /\ writeq' = [writeq EXCEPT ![c] = Tail(@)]
    /\ stop_smts_client(c)
    /\ UNCHANGED <<reply, starts, smem, sstatus, dvrVars, managerVars, frameVars>>

on_smts_client_send_frame_cb(c) ==
    /\ writeq[c] # <<>> /\ Head(writeq[c]) \in Frames
    /\ writeq' = [writeq EXCEPT ![c] = Tail(@)]
    /\ frame_unref(Head(writeq[c]), 1)
    /\ \/ UNCHANGED <<cstatus, csession, chandle, clients, client_size, timer>>
       \/ stop_smts_client(c)               \* the write failed
    /\ UNCHANGED <<reply, starts, smem, sstatus, dvrVars, managerVars>>

\* A bug to tell apart: only a stopped connection is freed, though the callback
\* of a preview response overwrites the status of a stopped one.
socket_close_cb_Stopped(c) ==
    /\ chandle[c] = "closing" /\ cstatus[c] = "STOP"
    /\ writeq[c] = <<>>
    /\ chandle' = [chandle EXCEPT ![c] = "free"]
    /\ UNCHANGED <<cstatus, csession, writeq, reply, starts, sessionVars,
                   dvrVars, managerVars, frameVars>>

socket_close_cb(c) ==
    /\ chandle[c] = "closing"
    /\ writeq[c] = <<>>
    /\ chandle' = [chandle EXCEPT ![c] = "free"]
    /\ UNCHANGED <<cstatus, csession, writeq, reply, starts, sessionVars,
                   dvrVars, managerVars, frameVars>>

-----------------------------------------------------------------------------
(* The recorder's connection.  A pending connect or write fails once the   *)
(* handle is closing; the preview write may have completed before.         *)

on_connected_to_dvr(s) ==
    /\ dvr[s] = "connecting"
    /\ \/ /\ ~dclosing[s]               \* connected, preview command written
          /\ dvr' = [dvr EXCEPT ![s] = "previewing"]
          /\ UNCHANGED <<manager, writeq, reply, cstatus, csession, chandle,
                         clients, client_size, timer>>
       \/ /\ dvr' = [dvr EXCEPT ![s] = "stopped"]
          /\ stop_media_session(s)        \* connect error
       \/ /\ ~dclosing[s]               \* uv_write refuses: stopped twice
          /\ dvr' = [dvr EXCEPT ![s] = "stopped"]
          /\ manager' = delete_session(delete_session(manager, key, s), key, s)
          /\ AnswerAndStop(s, SessionStatusAsReply(s))
    /\ UNCHANGED <<starts, smem, sstatus, dclosing, key, frameVars>>

\* Every waiting client is told that the preview is on (X are those whose
\* uv_write refuses) and the frames are read.
on_smts_dvr_client_send_preview(s) ==
    /\ dvr[s] = "previewing"
    /\ \/ /\ ~dclosing[s]
          /\ dvr' = [dvr EXCEPT ![s] = "reading"]
          /\ sstatus' = [sstatus EXCEPT ![s] = "RUNNING"]
          /\ \E X \in SUBSET Waiting(s) :
                /\ SendPreviewRes(Waiting(s) \ X, "ok")
                /\ cstatus' = Mark(Mark(cstatus, Waiting(s), "PREVIEW_RES"), X, "STOP")
                /\ media_client_stop_preview(s, X)
          /\ UNCHANGED manager
       \/ /\ dvr' = [dvr EXCEPT ![s] = "stopped"]
          /\ sstatus' = [sstatus EXCEPT ![s] = "RUNNING"]
          /\ manager' = delete_session(manager, key, s)  \* uv_read_start refuses
          /\ AnswerAndStop(s, "ok")
       \/ /\ dvr' = [dvr EXCEPT ![s] = "stopped"]
          /\ UNCHANGED sstatus
          /\ stop_media_session(s)        \* the write failed
    /\ UNCHANGED <<starts, smem, dclosing, key, frameVars>>

\* A frame is sent to each recipient; X are those whose uv_write refuses.
on_smts_dvr_client_recv_frame(s, f) ==
    /\ dvr[s] = "reading" /\ ~dclosing[s]
    /\ fmem[f] = "free"
    /\ \E X \in SUBSET Recipients(s) :
        LET sent == Recipients(s) \ X
        IN  /\ writeq' = [c \in Clients |-> IF c \in sent THEN Append(writeq[c], f)
                                                        ELSE writeq[c]]
            /\ fref' = [fref EXCEPT ![f] = frame_ref(s, sent)]
            /\ fmem' = [fmem EXCEPT ![f] = IF frame_ref(s, sent) = 0
                                           THEN "free" ELSE "live"]
            /\ cstatus' = Mark(cstatus, X, "STOP")
            /\ media_client_stop_preview(s, X)
    /\ UNCHANGED <<reply, starts, smem, sstatus, dvrVars, managerVars>>

\* on_dvr_client_read_frame_cb with an error: reading stops.
on_dvr_client_read_error(s) ==
    /\ dvr[s] = "reading" /\ ~dclosing[s]
    /\ dvr' = [dvr EXCEPT ![s] = "stopped"]
    /\ stop_media_session(s)
    /\ UNCHANGED <<starts, smem, sstatus, dclosing, key, frameVars>>

\* A bug to tell apart: the session goes whether somebody came back or not.
session_exit_cb_Always(s) ==
    /\ timer[s]
    /\ timer' = [timer EXCEPT ![s] = FALSE]
    /\ manager' = delete_session(manager, key, s)
    /\ dclosing' = [dclosing EXCEPT ![s] = TRUE]
    /\ UNCHANGED <<clientVars, smem, clients, client_size, sstatus, dvr, key, frameVars>>

\* A bug to tell apart: a recorder's connection that failed is not closed.
session_exit_cb_Reading(s) ==
    /\ timer[s]
    /\ timer' = [timer EXCEPT ![s] = FALSE]
    /\ IF client_size[s] = 0 /\ dvr[s] # "stopped"
       THEN /\ manager' = delete_session(manager, key, s)
            /\ dclosing' = [dclosing EXCEPT ![s] = TRUE]
       ELSE UNCHANGED <<manager, dclosing>>
    /\ UNCHANGED <<clientVars, smem, clients, client_size, sstatus, dvr, key, frameVars>>

\* The wait of five seconds is over: if nobody came back, the session goes.
session_exit_cb(s) ==
    /\ timer[s]
    /\ timer' = [timer EXCEPT ![s] = FALSE]
    /\ IF client_size[s] = 0
       THEN /\ manager' = delete_session(manager, key, s)
            /\ dclosing' = [dclosing EXCEPT ![s] = TRUE]
       ELSE UNCHANGED <<manager, dclosing>>
    /\ UNCHANGED <<clientVars, smem, clients, client_size, sstatus, dvr, key, frameVars>>

on_dvr_client_close_cb(s) ==
    /\ smem[s] = "live" /\ dclosing[s]
    /\ dvr[s] \notin {"connecting", "previewing"}
    /\ smem' = [smem EXCEPT ![s] = "free"]
    /\ UNCHANGED <<clientVars, clients, client_size, sstatus, timer, dvrVars,
                   managerVars, frameVars>>

-----------------------------------------------------------------------------
ClientNext(c) ==
    \/ client_on_connection(c)
    \/ \E k \in Keys : smts_start_preview(c, k)
    \/ dispatch_packet_error(c)
    \/ on_smts_client_send_preview_res_cb_slient(c)
    \/ on_smts_client_send_error_preview_res_cb(c)
    \/ on_smts_client_send_frame_cb(c)
    \/ socket_close_cb(c)

SessionNext(s) ==
    \/ on_connected_to_dvr(s)
    \/ on_smts_dvr_client_send_preview(s)
    \/ \E f \in Frames : on_smts_dvr_client_recv_frame(s, f)
    \/ on_dvr_client_read_error(s)
    \/ session_exit_cb(s)
    \/ on_dvr_client_close_cb(s)

Next == (\E c \in Clients : ClientNext(c)) \/ (\E s \in Sessions : SessionNext(s))

Spec == Init /\ [][Next]_vars

\* libuv runs the callback of a connect, of a write to the recorder, of an
\* expired timer, and everything that a close makes pending.  Nothing makes a
\* viewer or a recorder send, receive or leave.
Fairness ==
    /\ \A c \in Clients :
        /\ WF_vars(socket_close_cb(c))
        /\ WF_vars(chandle[c] = "closing" /\ on_smts_client_send_preview_res_cb_slient(c))
        /\ WF_vars(chandle[c] = "closing" /\ on_smts_client_send_error_preview_res_cb(c))
        /\ WF_vars(chandle[c] = "closing" /\ on_smts_client_send_frame_cb(c))
    /\ \A s \in Sessions :
        /\ WF_vars(on_connected_to_dvr(s))
        /\ WF_vars(on_smts_dvr_client_send_preview(s))
        /\ WF_vars(session_exit_cb(s))
        /\ WF_vars(on_dvr_client_close_cb(s))

FairSpec == Spec /\ Fairness

-----------------------------------------------------------------------------
(* Properties.                                                             *)

Pending(f) == {c \in Clients : \E i \in 1..Len(writeq[c]) : writeq[c][i] = f}

\* The list of a session, its counter and the back pointers of the clients
\* agree, and only connections that are still open are listed
\* (add_smts_client, media_client_stop_preview, every path to uv_close).
ListIntegrity ==
    /\ \A s \in Sessions :
        /\ client_size[s] = Cardinality(clients[s])
        /\ \A c \in clients[s] : csession[c] = s
    /\ \A c \in Clients : csession[c] # NoSession =>
        /\ c \in clients[csession[c]]
        /\ chandle[c] = "open"
        /\ cstatus[c] # "STOP"

\* No session is forgotten: one without viewers waits for its exit timer or
\* its recorder's connection is closing (wait_exit_session, session_exit_cb).
NoForgottenSession ==
    \A s \in Sessions :
        smem[s] = "live" /\ clients[s] = {} => timer[s] \/ dclosing[s]

\* A viewer that is in a session and not answered is in one that has still to
\* answer: nobody misses the loop of on_smts_dvr_client_send_preview.
WaitersAreAnswered ==
    \A c \in Clients :
        csession[c] # NoSession /\ cstatus[c] = "INIT" =>
            /\ sstatus[csession[c]] = "INIT"
            /\ dvr[csession[c]] \in {"connecting", "previewing"}

\* A frame is shared by writes in flight: its count is the number of writes
\* that still hold it, and it is freed exactly when there is none
\* (on_smts_dvr_client_recv_frame, on_smts_client_send_frame).
FrameReferences ==
    \A f \in Frames :
        /\ fref[f] = Cardinality(Pending(f))
        /\ fmem[f] = "live" <=> Pending(f) # {}

\* While something of the loop or of a viewer can still reach a session, its
\* memory is not freed and its recorder's connection is not closing
\* (on_dvr_client_close_cb frees it): its viewers, its timer, the table.
SessionMemory ==
    \A s \in Sessions :
        clients[s] # {} \/ timer[s] \/ s \in Listed(manager) =>
            smem[s] = "live" /\ ~dclosing[s]

\* libuv aborts when a handle is closed twice.  Whatever can still lead to
\* uv_close of a handle (a list the connection is in, a write whose callback
\* stops a connection that is not stopped, an armed timer) finds it not closing.
CloseOnce ==
    /\ \A c \in Clients :
        /\ cstatus[c] # "STOP"
        /\ \/ \E s \in Sessions : c \in clients[s]
           \/ \E i \in 1..Len(writeq[c]) : writeq[c][i] # "res"
        => chandle[c] = "open"
    /\ \A s \in Sessions : timer[s] => ~dclosing[s]

\* A viewer is sent a preview response before its first frame and never an
\* error response as well (the status of smts_client_t guards both).
ResponseFirst ==
    \A c \in Clients : \A i \in 1..Len(writeq[c]) :
        /\ writeq[c][i] \in Frames => reply[c] = "ok" /\ cstatus[c] \in {"FRAMES", "STOP"}
        /\ writeq[c][i] = "err" => Len(writeq[c]) = 1 /\ reply[c] = "error"
        /\ writeq[c][i] = "res" => i = 1 /\ Len(writeq[c]) = 1

\* The recorder is read by one session at a time as far as the table tells:
\* a session is registered once created until its recorder fails or the exit
\* timer takes it away, whatever other sessions of its key do.
\* ("preview.1. add to session manager, create it if not find.")
ServingIsRegistered ==
    \A s \in Sessions : clients[s] # {} => s \in Listed(manager)

\* A viewer that is told "0: success." is not disconnected by the same callback.
SuccessIsNotRefusal ==
    [][\A c \in Clients :
        reply[c] = "none" /\ reply'[c] = "ok" => chandle'[c] = "open"]_vars

\* Once closing, a connection is never written to, and it is answered or given
\* to a session no more (uv_write on a closing handle fails).
ClosingIsQuiet ==
    [][\A c \in Clients :
        chandle[c] = "closing" /\ chandle'[c] = "closing" =>
            /\ reply'[c] = reply[c]
            /\ Len(writeq'[c]) <= Len(writeq[c])
            /\ csession'[c] = NoSession]_vars

\* A session that nobody watches is released, unless somebody comes back.
IdleSessionReleased ==
    \A s \in Sessions :
        smem[s] = "live" /\ clients[s] = {} ~> clients[s] # {} \/ smem[s] = "free"

\* A stopped connection gives its memory back, and the frames it held.
StoppedClientReleased ==
    \A c \in Clients : chandle[c] = "closing" ~> chandle[c] = "free"

\* A viewer in a session is answered, or its connection closes.
ViewerAnswered ==
    \A c \in Clients :
        csession[c] # NoSession ~> reply[c] # "none" \/ chandle[c] # "open"

-----------------------------------------------------------------------------
(* What a viewer sees of it.                                               *)

FramesIn(q) == Cardinality({i \in DOMAIN q : q[i] \in Frames})

PhaseOf(c) ==
    IF chandle[c] = "free" THEN "away"
    ELSE IF chandle[c] = "closing" THEN "leaving"
    ELSE IF reply[c] = "error" THEN "refused"
    ELSE IF reply[c] = "ok" THEN (IF cstatus[c] = "FRAMES" THEN "watching" ELSE "answered")
    ELSE IF csession[c] = NoSession THEN "connected" ELSE "asked"

Seen == INSTANCE Viewer WITH
    phase <- [c \in Clients |-> PhaseOf(c)],
    sending <- [c \in Clients |-> FramesIn(writeq[c])]

\* A viewer is answered before it is sent frames and after it asked, each once,
\* and when it leaves it is sent nothing more: the protocol of module Viewer,
\* kept by every callback of the session that moves several viewers.
ImplementsViewer == Seen!Spec
=============================================================================
