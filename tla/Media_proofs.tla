---------------------------- MODULE Media_proofs ----------------------------
(***************************************************************************)
(* Proofs about module Media for any number of connections, sessions and   *)
(* frames.                                                                 *)
(***************************************************************************)
EXTENDS Media, FiniteSetTheorems, TLAPS

\* One recorder's channel is watched, and a viewer sends PREVIEW once.
OneChannel == (\A j, k \in Keys : j = k) /\ MaxStarts <= 1

First(m) == m.list.next[ListHead]

\* A node points at itself, or, linked or unlinked since, at the head only.
PointsHome(m, s) == m.list.next[s] = ListHead /\ m.list.prev[s] = ListHead

\* With one key the table holds one session at most.
Shape(m) ==
    /\ m.list.prev[ListHead] = First(m)
    /\ \A s \in Sessions :
        PointsHome(m, s) \/ (m.list.next[s] = s /\ m.list.prev[s] = s)
    /\ First(m) # ListHead => PointsHome(m, First(m))
    /\ m.size = IF First(m) = ListHead THEN 0 ELSE 1

\* A connection that was not asked to preview is in its initial state.
ConnectionInv ==
    \A c \in Clients :
        /\ chandle[c] = "free" => writeq[c] = <<>>
        /\ chandle[c] = "open" /\ starts[c] = 0 =>
            cstatus[c] = "INIT" /\ csession[c] = NoSession /\ writeq[c] = <<>>

\* What can reach a session finds it alive; a live one was put into the table
\* once; a freed one waits for nothing.
SessionInv ==
    \A s \in Sessions :
        /\ clients[s] # {} \/ timer[s] \/ First(manager) = s =>
            smem[s] = "live" /\ ~dclosing[s]
        /\ smem[s] = "live" => PointsHome(manager, s)
        /\ smem[s] = "live" /\ clients[s] = {} => timer[s] \/ dclosing[s]
        /\ smem[s] = "free" =>
            dvr[s] \in {"none", "stopped"} \/ (dclosing[s] /\ dvr[s] = "reading")

IInv == Types /\ ListIntegrity /\ Shape(manager) /\ ConnectionInv /\ SessionInv

-----------------------------------------------------------------------------
(* Type correctness.                                                       *)

\* What the table's functions are called with keeps the table a table
\* (QUEUE_INIT, QUEUE_INSERT_HEAD, QUEUE_REMOVE only write pointers to nodes).
LEMMA TableTypes ==
    ASSUME NEW m \in ManagerType, NEW s \in Sessions, NEW keyOf
    PROVE  /\ init_abstract_session(m, s) \in ManagerType
           /\ add_session(m, keyOf, s) \in ManagerType
           /\ delete_session(m, keyOf, s) \in ManagerType
<1> USE DEF ManagerType, Nodes
<1>1. init_abstract_session(m, s) \in ManagerType
  BY DEF init_abstract_session, QUEUE_INIT
<1>2. add_session(m, keyOf, s) \in ManagerType
  <2>1. QUEUE_INSERT_HEAD(m.list, ListHead, s) \in
            [next : [Nodes -> Nodes], prev : [Nodes -> Nodes]]
    BY DEF QUEUE_INSERT_HEAD
  <2>2. QED  BY <2>1 DEF add_session
<1>3. delete_session(m, keyOf, s) \in ManagerType
  <2>1. QUEUE_REMOVE(m.list, s) \in
            [next : [Nodes -> Nodes], prev : [Nodes -> Nodes]]
    BY DEF QUEUE_REMOVE
  <2>2. QED  BY <2>1 DEF delete_session
<1>4. QED  BY <1>1, <1>2, <1>3

\* Every subset of the connections has a size.
LEMMA ClientSets ==
    ASSUME NEW X \in SUBSET Clients
    PROVE  IsFiniteSet(X) /\ Cardinality(X) \in Nat
BY MediaAssumption, FS_Subset, FS_CardinalityType

\* The types of what stop_smts_client changes.
LEMMA StopTypes ==
    ASSUME Types, NEW s \in Sessions, NEW X \in SUBSET Clients,
           media_client_stop_preview(s, X)
    PROVE  /\ clients' \in [Sessions -> SUBSET Clients]
           /\ client_size' \in [Sessions -> Int]
           /\ csession' \in [Clients -> Sessions \cup {NoSession}]
           /\ chandle' \in [Clients -> {"free", "open", "closing"}]
           /\ timer' \in [Sessions -> BOOLEAN]
<1>1. Cardinality(X) \in Int  BY ClientSets
<1>2. clients' \in [Sessions -> SUBSET Clients] /\ client_size' \in [Sessions -> Int]
  BY <1>1 DEF Types, media_client_stop_preview
<1>3. /\ csession' \in [Clients -> Sessions \cup {NoSession}]
      /\ chandle' \in [Clients -> {"free", "open", "closing"}]
  BY DEF Types, media_client_stop_preview, Mark
<1>4. timer' \in [Sessions -> BOOLEAN]
  <2> DEFINE armed == timer[s] \/ (X # {} /\ client_size[s] = Cardinality(X))
  <2>1. armed \in BOOLEAN  BY DEF Types
  <2>2. timer' = [timer EXCEPT ![s] = armed]  BY DEF media_client_stop_preview
  <2> HIDE DEF armed
  <2>3. QED  BY <2>1, <2>2 DEF Types
<1>5. QED  BY <1>2, <1>3, <1>4

LEMMA StopOneTypes ==
    ASSUME Types, NEW c \in Clients, stop_smts_client(c)
    PROVE  /\ clients' \in [Sessions -> SUBSET Clients]
           /\ client_size' \in [Sessions -> Int]
           /\ csession' \in [Clients -> Sessions \cup {NoSession}]
           /\ chandle' \in [Clients -> {"free", "open", "closing"}]
           /\ cstatus' \in [Clients -> {"INIT", "PREVIEW_RES", "FRAMES", "STOP"}]
           /\ timer' \in [Sessions -> BOOLEAN]
<1>1. CASE cstatus[c] = "STOP"  BY <1>1 DEF stop_smts_client, Types
<1>2. CASE cstatus[c] # "STOP" /\ csession[c] = NoSession
  BY <1>2 DEF stop_smts_client, Types
<1>3. CASE cstatus[c] # "STOP" /\ csession[c] # NoSession
  <2>1. csession[c] \in Sessions  BY <1>3 DEF Types
  <2>2. media_client_stop_preview(csession[c], {c})
        /\ cstatus' = [cstatus EXCEPT ![c] = "STOP"]
    BY <1>3 DEF stop_smts_client
  <2>3. QED  BY <2>1, <2>2, StopTypes DEF Types
<1>4. QED  BY <1>1, <1>2, <1>3

LEMMA AnswerTypes ==
    ASSUME Types, NEW W \in SUBSET Clients, NEW status \in {"ok", "error"},
           SendPreviewRes(W, status)
    PROVE  /\ writeq' \in [Clients -> Seq(Messages)]
           /\ reply' \in [Clients -> {"none", "ok", "error"}]
<1>1. "res" \in Messages  BY DEF Messages
<1>2. \A c \in Clients : writeq[c] \in Seq(Messages)  BY DEF Types
<1>3. \A c \in Clients : Append(writeq[c], "res") \in Seq(Messages)  BY <1>1, <1>2
<1>4. QED  BY <1>2, <1>3 DEF SendPreviewRes, Types, Mark

LEMMA AnswerAndStopTypes ==
    ASSUME Types, NEW s \in Sessions, NEW status \in {"ok", "error"},
           AnswerAndStop(s, status)
    PROVE  /\ writeq' \in [Clients -> Seq(Messages)]
           /\ reply' \in [Clients -> {"none", "ok", "error"}]
           /\ cstatus' \in [Clients -> {"INIT", "PREVIEW_RES", "FRAMES", "STOP"}]
           /\ clients' \in [Sessions -> SUBSET Clients]
           /\ client_size' \in [Sessions -> Int]
           /\ csession' \in [Clients -> Sessions \cup {NoSession}]
           /\ chandle' \in [Clients -> {"free", "open", "closing"}]
           /\ timer' \in [Sessions -> BOOLEAN]
<1>1. clients[s] \in SUBSET Clients  BY DEF Types
<1>2. PICK W \in SUBSET Waiting(s) : SendPreviewRes(W, status)  BY DEF AnswerAndStop
<1>3. W \in SUBSET Clients  BY <1>1, <1>2 DEF Waiting
<1>4. cstatus' = Mark(cstatus, clients[s], "STOP")  BY DEF AnswerAndStop
<1>5. cstatus' \in [Clients -> {"INIT", "PREVIEW_RES", "FRAMES", "STOP"}]
  BY <1>4 DEF Types, Mark
<1>6. media_client_stop_preview(s, clients[s])  BY DEF AnswerAndStop
<1>7. QED  BY <1>1, <1>2, <1>3, <1>5, <1>6, AnswerTypes, StopTypes

LEMMA InitTypes == Init => Types
<1> SUFFICES ASSUME Init PROVE Types  OBVIOUS
<1>1. MaxStarts \in Nat /\ (CHOOSE k \in Keys : TRUE) \in Keys  BY MediaAssumption
<1>2. manager \in ManagerType
  BY DEF Init, init_session_manager, SelfLinked, ManagerType
<1>3. writeq \in [Clients -> Seq(Messages)]  BY DEF Init
<1>4. QED  BY <1>1, <1>2, <1>3 DEF Init, Types

LEMMA ClientStepTypes ==
    ASSUME Types, NEW c \in Clients, ClientNext(c)
    PROVE  Types'
<1> USE MediaAssumption
<1>1. CASE client_on_connection(c)
  BY <1>1 DEF Types, client_on_connection, sessionVars, dvrVars, managerVars, frameVars
<1>2. ASSUME NEW k \in Keys, smts_start_preview(c, k) PROVE Types'
  <2>1. starts' \in [Clients -> 0..MaxStarts]
    <3>1. starts[c] \in 0..MaxStarts /\ starts[c] < MaxStarts
      BY <1>2 DEF smts_start_preview, Types
    <3>2. starts[c] + 1 \in 0..MaxStarts  BY <3>1
    <3>3. starts' = [starts EXCEPT ![c] = starts[c] + 1]
      BY <1>2 DEF smts_start_preview
    <3>4. QED  BY <3>2, <3>3 DEF Types
  <2>2. ASSUME NEW s \in Sessions, JoinSession(c, s) PROVE Types'
    <3>1. UNCHANGED <<smem, sstatus, dvr, dclosing, key, manager, fmem, fref>>
      BY <2>2 DEF JoinSession, dvrVars, managerVars, frameVars
    <3>2. CASE /\ add_smts_client(s, c, clients[s], client_size[s])
               /\ AnswerJoined(c)
               /\ UNCHANGED <<chandle, timer>>
      <4>1. /\ clients' \in [Sessions -> SUBSET Clients]
            /\ client_size' \in [Sessions -> Int]
            /\ csession' \in [Clients -> Sessions \cup {NoSession}]
        BY <3>2 DEF add_smts_client, Types
      <4>2. /\ writeq' \in [Clients -> Seq(Messages)]
            /\ reply' \in [Clients -> {"none", "ok", "error"}]
        <5>1. CASE cstatus[c] = "INIT"
          <6>1. SendPreviewRes({c}, "ok")  BY <3>2, <5>1 DEF AnswerJoined
          <6>2. QED  BY <6>1, AnswerTypes
        <5>2. CASE cstatus[c] # "INIT"
          BY <3>2, <5>2 DEF AnswerJoined, Types
        <5>3. QED  BY <5>1, <5>2
      <4>3. cstatus' \in [Clients -> {"INIT", "PREVIEW_RES", "FRAMES", "STOP"}]
        <5>1. cstatus' = cstatus \/ cstatus' = [cstatus EXCEPT ![c] = "PREVIEW_RES"]
          BY <3>2, Zenon DEF AnswerJoined
        <5>2. cstatus \in [Clients -> {"INIT", "PREVIEW_RES", "FRAMES", "STOP"}]
          BY DEF Types
        <5>3. QED  BY <5>1, <5>2
      <4>4. QED  BY <2>1, <3>1, <3>2, <4>1, <4>2, <4>3 DEF Types
    <3>3. CASE /\ cstatus' = [cstatus EXCEPT ![c] = "STOP"]
               /\ clients' = [clients EXCEPT ![s] = @ \ {c}]
               /\ csession' = [csession EXCEPT ![c] = NoSession]
               /\ chandle' = [chandle EXCEPT ![c] = "closing"]
               /\ timer' = [timer EXCEPT ![s] = @ \/ client_size[s] = 0]
               /\ UNCHANGED <<client_size, writeq, reply>>
      <4>1. timer' \in [Sessions -> BOOLEAN]
        <5> DEFINE armed == timer[s] \/ client_size[s] = 0
        <5>1. armed \in BOOLEAN  BY DEF Types
        <5>2. timer' = [timer EXCEPT ![s] = armed]  BY <3>3
        <5> HIDE DEF armed
        <5>3. QED  BY <5>1, <5>2 DEF Types
      <4>2. QED  BY <2>1, <3>1, <3>3, <4>1 DEF Types
    <3>4. QED  BY <2>2, <3>2, <3>3 DEF JoinSession
  <2>3. ASSUME NEW s \in Sessions, CreateSession(c, s, k) PROVE Types'
    <3>1. /\ init_abstract_session(manager, s) \in ManagerType
          /\ manager' \in ManagerType
      BY <2>3, TableTypes DEF CreateSession, Types
    <3>2. key' \in [Sessions -> Keys]  BY <1>2, <2>3 DEF CreateSession, Types
    <3>3. /\ clients' \in [Sessions -> SUBSET Clients]
          /\ client_size' \in [Sessions -> Int]
          /\ csession' \in [Clients -> Sessions \cup {NoSession}]
      BY <2>3 DEF CreateSession, add_smts_client, Types
    <3>4. QED  BY <2>1, <2>3, <3>1, <3>2, <3>3 DEF CreateSession, Types, frameVars
  <2>4. ASSUME NEW s \in Sessions, FailToCreateSession(c, s, k) PROVE Types'
    <3>1. init_abstract_session(manager, s) \in ManagerType
      BY TableTypes DEF Types
    <3>2. manager' \in ManagerType
      BY <2>4, <3>1, TableTypes DEF FailToCreateSession
    <3>3. key' \in [Sessions -> Keys] /\ csession' \in [Clients -> Sessions \cup {NoSession}]
      BY <1>2, <2>4 DEF FailToCreateSession, Types
    <3>4. /\ writeq' \in [Clients -> Seq(Messages)]
          /\ reply' \in [Clients -> {"none", "ok", "error"}]
      <4>1. writeq[c] \in Seq(Messages) /\ "err" \in Messages  BY DEF Types, Messages
      <4>2. Append(writeq[c], "err") \in Seq(Messages)  BY <4>1
      <4>3. \/ /\ writeq' = [writeq EXCEPT ![c] = Append(@, "err")]
               /\ reply' = [reply EXCEPT ![c] = "error"]
            \/ UNCHANGED <<writeq, reply>>
        BY <2>4 DEF FailToCreateSession
      <4> DEFINE Qs == Seq(Messages)
                 longer == Append(writeq[c], "err")
      <4>4. /\ longer \in Qs
            /\ writeq \in [Clients -> Qs]
            /\ reply \in [Clients -> {"none", "ok", "error"}]
            /\ \/ /\ writeq' = [writeq EXCEPT ![c] = longer]
                  /\ reply' = [reply EXCEPT ![c] = "error"]
               \/ UNCHANGED <<writeq, reply>>
        BY <4>2, <4>3 DEF Types
      <4>5. QED
        <5> HIDE DEF Qs, longer
        <5>1. writeq' \in [Clients -> Qs] /\ reply' \in [Clients -> {"none", "ok", "error"}]
          BY <4>4
        <5>2. QED  BY <5>1 DEF Qs
    <3>5. QED
      BY <2>1, <2>4, <3>2, <3>3, <3>4
      DEF FailToCreateSession, Types, sessionVars, dvrVars, frameVars
  <2>5. QED  BY <1>2, <2>2, <2>3, <2>4 DEF smts_start_preview
<1>3. CASE dispatch_packet_error(c)
  BY <1>3, StopOneTypes
  DEF Types, dispatch_packet_error, dvrVars, managerVars, frameVars
<1>4. ASSUME writeq[c] # <<>> PROVE Tail(writeq[c]) \in Seq(Messages) /\ Head(writeq[c]) \in Messages
  <2>1. writeq[c] \in Seq(Messages)  BY DEF Types
  <2>2. QED  BY <1>4, <2>1
<1>5. CASE on_smts_client_send_preview_res_cb_slient(c)
  <2>1. writeq' \in [Clients -> Seq(Messages)]
    BY <1>4, <1>5 DEF on_smts_client_send_preview_res_cb_slient, Types
  <2>2. QED
    BY <1>5, <2>1
    DEF on_smts_client_send_preview_res_cb_slient, Types, sessionVars, dvrVars,
        managerVars, frameVars
<1>6. CASE on_smts_client_send_error_preview_res_cb(c)
  <2>1. writeq' \in [Clients -> Seq(Messages)]
    BY <1>4, <1>6 DEF on_smts_client_send_error_preview_res_cb, Types
  <2>2. stop_smts_client(c)  BY <1>6 DEF on_smts_client_send_error_preview_res_cb
  <2>3. QED
    BY <1>6, <2>1, <2>2, StopOneTypes
    DEF on_smts_client_send_error_preview_res_cb, Types, dvrVars, managerVars, frameVars
<1>7. CASE on_smts_client_send_frame_cb(c)
  <2>1. writeq' \in [Clients -> Seq(Messages)]
    BY <1>4, <1>7 DEF on_smts_client_send_frame_cb, Types
  <2>2. fmem' \in [Frames -> {"free", "live"}] /\ fref' \in [Frames -> Int]
    BY <1>7 DEF on_smts_client_send_frame_cb, frame_unref, Types
  <2>3. CASE UNCHANGED <<cstatus, csession, chandle, clients, client_size, timer>>
    BY <1>7, <2>1, <2>2, <2>3
    DEF on_smts_client_send_frame_cb, Types, dvrVars, managerVars
  <2>4. CASE stop_smts_client(c)
    BY <1>7, <2>1, <2>2, <2>4, StopOneTypes
    DEF on_smts_client_send_frame_cb, Types, dvrVars, managerVars
  <2>5. QED  BY <1>7, <2>3, <2>4 DEF on_smts_client_send_frame_cb
<1>8. CASE socket_close_cb(c)
  BY <1>8 DEF Types, socket_close_cb, sessionVars, dvrVars, managerVars, frameVars
<1>9. QED  BY <1>1, <1>2, <1>3, <1>5, <1>6, <1>7, <1>8 DEF ClientNext

LEMMA SessionStepTypes ==
    ASSUME Types, NEW s \in Sessions, SessionNext(s)
    PROVE  Types'
<1>1. SessionStatusAsReply(s) \in {"ok", "error"}  BY DEF SessionStatusAsReply
<1>2. delete_session(manager, key, s) \in ManagerType  BY TableTypes DEF Types
<1>3. delete_session(delete_session(manager, key, s), key, s) \in ManagerType
  BY <1>2, TableTypes
<1>4. CASE on_connected_to_dvr(s)
  <2>1. UNCHANGED <<starts, smem, sstatus, dclosing, key, fmem, fref>>
    BY <1>4 DEF on_connected_to_dvr, frameVars
  <2>2. CASE /\ dvr' = [dvr EXCEPT ![s] = "previewing"]
             /\ UNCHANGED <<manager, writeq, reply, cstatus, csession, chandle,
                            clients, client_size, timer>>
    BY <2>1, <2>2 DEF Types
  <2>3. CASE /\ dvr' = [dvr EXCEPT ![s] = "stopped"]
             /\ manager' \in ManagerType
             /\ AnswerAndStop(s, SessionStatusAsReply(s))
    BY <1>1, <2>1, <2>3, AnswerAndStopTypes DEF Types
  <2>4. QED
    BY <1>2, <1>3, <1>4, <2>2, <2>3 DEF on_connected_to_dvr, stop_media_session
<1>5. CASE on_smts_dvr_client_send_preview(s)
  <2>1. UNCHANGED <<starts, smem, dclosing, key, fmem, fref>>
    BY <1>5 DEF on_smts_dvr_client_send_preview, frameVars
  <2>2. ASSUME NEW X \in SUBSET Waiting(s),
               dvr' = [dvr EXCEPT ![s] = "reading"],
               sstatus' = [sstatus EXCEPT ![s] = "RUNNING"],
               SendPreviewRes(Waiting(s) \ X, "ok"),
               cstatus' = Mark(Mark(cstatus, Waiting(s), "PREVIEW_RES"), X, "STOP"),
               media_client_stop_preview(s, X),
               UNCHANGED manager
        PROVE  Types'
    <3>1. Waiting(s) \in SUBSET Clients  BY DEF Waiting, Types
    <3>2. Mark(cstatus, Waiting(s), "PREVIEW_RES")
            \in [Clients -> {"INIT", "PREVIEW_RES", "FRAMES", "STOP"}]
      BY DEF Mark, Types
    <3>3. cstatus' \in [Clients -> {"INIT", "PREVIEW_RES", "FRAMES", "STOP"}]
      BY <2>2, <3>2 DEF Mark
    <3>4. X \in SUBSET Clients /\ (Waiting(s) \ X) \in SUBSET Clients
      BY <2>2, <3>1
    <3>5. QED
      BY <2>1, <2>2, <3>3, <3>4, AnswerTypes, StopTypes DEF Types
  <2>3. CASE /\ dvr' = [dvr EXCEPT ![s] = "stopped"]
             /\ sstatus' = [sstatus EXCEPT ![s] = "RUNNING"]
             /\ manager' = delete_session(manager, key, s)
             /\ AnswerAndStop(s, "ok")
    BY <1>2, <2>1, <2>3, AnswerAndStopTypes DEF Types
  <2>4. CASE /\ dvr' = [dvr EXCEPT ![s] = "stopped"]
             /\ UNCHANGED sstatus
             /\ stop_media_session(s)
    <3>1. manager' = delete_session(manager, key, s)
          /\ AnswerAndStop(s, SessionStatusAsReply(s))
      BY <2>4 DEF stop_media_session
    <3>2. QED  BY <1>1, <1>2, <2>1, <2>4, <3>1, AnswerAndStopTypes DEF Types
  <2>5. QED  BY <1>5, <2>2, <2>3, <2>4 DEF on_smts_dvr_client_send_preview
<1>6. ASSUME NEW f \in Frames, on_smts_dvr_client_recv_frame(s, f) PROVE Types'
  <2>1. UNCHANGED <<reply, starts, smem, sstatus, dvr, dclosing, key, manager>>
    BY <1>6 DEF on_smts_dvr_client_recv_frame, dvrVars, managerVars
  <2>2. PICK X \in SUBSET Recipients(s) :
            LET sent == Recipients(s) \ X
            IN  /\ writeq' = [c \in Clients |-> IF c \in sent THEN Append(writeq[c], f)
                                                            ELSE writeq[c]]
                /\ fref' = [fref EXCEPT ![f] = frame_ref(s, sent)]
                /\ fmem' = [fmem EXCEPT ![f] = IF frame_ref(s, sent) = 0
                                               THEN "free" ELSE "live"]
                /\ cstatus' = Mark(cstatus, X, "STOP")
                /\ media_client_stop_preview(s, X)
    BY <1>6 DEF on_smts_dvr_client_recv_frame
  <2>3. X \in SUBSET Clients  BY DEF Recipients, Types
  <2>4. writeq' \in [Clients -> Seq(Messages)]
    <3>1. \A c \in Clients : writeq[c] \in Seq(Messages)  BY DEF Types
    <3>2. \A c \in Clients : Append(writeq[c], f) \in Seq(Messages)  BY <3>1 DEF Messages
    <3>3. QED  BY <2>2, <3>1, <3>2
  <2>5. frame_ref(s, Recipients(s) \ X) \in Int
    <3>1. clients[s] \ (Recipients(s) \ X) \in SUBSET Clients  BY DEF Types
    <3>2. Cardinality(clients[s] \ (Recipients(s) \ X)) \in Int  BY <3>1, ClientSets
    <3>3. client_size[s] \in Int  BY DEF Types
    <3>4. QED  BY <3>2, <3>3 DEF frame_ref
  <2>6. fref' \in [Frames -> Int] /\ fmem' \in [Frames -> {"free", "live"}]
    BY <2>2, <2>5 DEF Types
  <2>7. cstatus' \in [Clients -> {"INIT", "PREVIEW_RES", "FRAMES", "STOP"}]
    BY <2>2 DEF Mark, Types
  <2>8. QED  BY <2>1, <2>2, <2>3, <2>4, <2>6, <2>7, StopTypes DEF Types
<1>7. CASE on_dvr_client_read_error(s)
  <2>1. manager' = delete_session(manager, key, s)
        /\ AnswerAndStop(s, SessionStatusAsReply(s))
    BY <1>7 DEF on_dvr_client_read_error, stop_media_session
  <2>2. QED
    BY <1>1, <1>2, <1>7, <2>1, AnswerAndStopTypes
    DEF on_dvr_client_read_error, Types, frameVars
<1>8. CASE session_exit_cb(s)
  BY <1>2, <1>8 DEF session_exit_cb, Types, clientVars, frameVars
<1>9. CASE on_dvr_client_close_cb(s)
  BY <1>9 DEF on_dvr_client_close_cb, Types, clientVars, dvrVars, managerVars, frameVars
<1>10. QED  BY <1>4, <1>5, <1>6, <1>7, <1>8, <1>9 DEF SessionNext

\* Every variable keeps its type: no handler writes a status, a counter, a list
\* or a pointer outside the values its field can have, with any number of keys
\* and any number of PREVIEW commands on a connection.
THEOREM TypeCorrect == Spec => []Types
<1>1. Types /\ [Next]_vars => Types'
  <2> SUFFICES ASSUME Types, [Next]_vars PROVE Types'  OBVIOUS
  <2>1. CASE UNCHANGED vars
    BY <2>1 DEF vars, clientVars, sessionVars, dvrVars, managerVars, frameVars, Types
  <2>2. ASSUME NEW c \in Clients, ClientNext(c) PROVE Types'
    BY <2>2, ClientStepTypes
  <2>3. ASSUME NEW s \in Sessions, SessionNext(s) PROVE Types'
    BY <2>3, SessionStepTypes
  <2>4. QED  BY <2>1, <2>2, <2>3 DEF Next
<1>2. QED  BY <1>1, InitTypes, PTL DEF Spec

-----------------------------------------------------------------------------
(* The table with one key.                                                 *)

\* QUEUE_FOREACH over a table of this shape meets the first session and ends.
LEMMA Traversal ==
    ASSUME NEW m \in ManagerType, Shape(m)
    PROVE  /\ Listed(m) = {First(m)} \ {ListHead}
           /\ WalkEnds(m.list, ListHead)
           /\ First(m) \in Nodes
<1> DEFINE q == m.list
           Holds(V) == q.next[ListHead] \in V /\ \A n \in V \ {ListHead} : q.next[n] \in V
           R == {n \in DOMAIN q.next : \A V \in SUBSET DOMAIN q.next : Holds(V) => n \in V}
<1>1. DOMAIN q.next = Nodes /\ ListHead \in Nodes /\ q.next \in [Nodes -> Nodes]
  BY DEF ManagerType, Nodes
<1>2. First(m) \in Nodes /\ q.next[ListHead] = First(m)  BY <1>1 DEF First
<1>3. First(m) # ListHead => q.next[First(m)] = ListHead
  BY DEF Shape, PointsHome
<1>4. \A V \in SUBSET Nodes : Holds(V) => First(m) \in V /\ ListHead \in V
  BY <1>2, <1>3
<1>5. Holds({First(m), ListHead})  BY <1>2, <1>3
<1>6. R = {First(m), ListHead}
  <2>1. R \subseteq {First(m), ListHead}
    <3>1. {First(m), ListHead} \in SUBSET DOMAIN q.next  BY <1>1, <1>2
    <3>2. QED  BY <1>5, <3>1
  <2>2. {First(m), ListHead} \subseteq R  BY <1>1, <1>2, <1>4
  <2>3. QED  BY <2>1, <2>2
<1>7. Reached(m.list, ListHead, {ListHead}) = R  BY DEF Reached
<1>8. QED  BY <1>2, <1>6, <1>7 DEF Listed, Visited, WalkEnds

\* is_contain answers whether there is a session at all.
LEMMA Containment ==
    ASSUME OneChannel, NEW m \in ManagerType, Shape(m),
           NEW keyOf \in [Sessions -> Keys], NEW k \in Keys
    PROVE  is_contain(m, keyOf, k) <=> First(m) # ListHead
<1>1. Listed(m) = {First(m)} \ {ListHead} /\ First(m) \in Nodes  BY Traversal
<1>2. First(m) # ListHead => First(m) \in Sessions /\ keyOf[First(m)] = k
  BY <1>1 DEF Nodes, OneChannel
<1>3. QED  BY <1>1, <1>2 DEF is_contain

\* Deleting any session that was in the table once leaves the table empty.
LEMMA DeleteEffect ==
    ASSUME OneChannel, NEW m \in ManagerType, Shape(m),
           NEW keyOf \in [Sessions -> Keys], NEW s \in Sessions, PointsHome(m, s)
    PROVE  LET m2 == delete_session(m, keyOf, s)
           IN  /\ m2 \in ManagerType
               /\ Shape(m2)
               /\ First(m2) = ListHead
               /\ \A t \in Sessions : /\ m2.list.next[t] = m.list.next[t]
                                      /\ m2.list.prev[t] = m.list.prev[t]
<1> DEFINE m2 == delete_session(m, keyOf, s)
<1>1. m2 \in ManagerType  BY TableTypes
<1>2. is_contain(m, keyOf, keyOf[s]) <=> First(m) # ListHead  BY Containment
<1>3. CASE First(m) = ListHead
  <2>1. m2 = m  BY <1>2, <1>3 DEF delete_session
  <2>2. QED  BY <1>1, <1>3, <2>1
<1>4. CASE First(m) # ListHead
  <2>1. m2.list = QUEUE_REMOVE(m.list, s) /\ m2.size = m.size - 1
    BY <1>2, <1>4 DEF delete_session
  <2>2. /\ m2.list.next = [m.list.next EXCEPT ![ListHead] = ListHead]
        /\ m2.list.prev = [m.list.prev EXCEPT ![ListHead] = ListHead]
    BY <2>1 DEF QUEUE_REMOVE, PointsHome, ManagerType
  <2>3. m2.list.next[ListHead] = ListHead /\ m2.list.prev[ListHead] = ListHead
    BY <2>2 DEF ManagerType, Nodes
  <2>4. \A t \in Sessions : /\ m2.list.next[t] = m.list.next[t]
                            /\ m2.list.prev[t] = m.list.prev[t]
    BY <2>2, SessionsAssumption DEF ManagerType, Nodes
  <2>5. m2.size = 0  BY <1>4, <2>1 DEF Shape
  <2>6. Shape(m2)  BY <2>3, <2>4, <2>5 DEF Shape, First, PointsHome
  <2>7. QED  BY <1>1, <2>3, <2>4, <2>6 DEF First
<1>5. QED  BY <1>3, <1>4

\* A new session becomes the only one of an empty table.
LEMMA CreateEffect ==
    ASSUME OneChannel, NEW m \in ManagerType, Shape(m), First(m) = ListHead,
           NEW keyOf \in [Sessions -> Keys], NEW s \in Sessions
    PROVE  LET m0 == init_abstract_session(m, s)
               m1 == add_session(m0, keyOf, s)
           IN  /\ m0 \in ManagerType /\ m1 \in ManagerType
               /\ Shape(m0) /\ First(m0) = ListHead
               /\ Shape(m1) /\ First(m1) = s /\ PointsHome(m1, s)
               /\ \A t \in Sessions \ {s} :
                    /\ m0.list.next[t] = m.list.next[t] /\ m0.list.prev[t] = m.list.prev[t]
                    /\ m1.list.next[t] = m.list.next[t] /\ m1.list.prev[t] = m.list.prev[t]
<1> DEFINE m0 == init_abstract_session(m, s)
           m1 == add_session(m0, keyOf, s)
<1>1. m0 \in ManagerType /\ m1 \in ManagerType  BY TableTypes
<1>2. /\ m0.list.next = [m.list.next EXCEPT ![s] = s]
      /\ m0.list.prev = [m.list.prev EXCEPT ![s] = s]
      /\ m0.size = m.size
  BY DEF init_abstract_session, QUEUE_INIT, ManagerType
<1>3. ListHead # s /\ ListHead \in Nodes /\ s \in Nodes  BY SessionsAssumption DEF Nodes
<1>4. /\ m0.list.next[ListHead] = ListHead /\ m0.list.prev[ListHead] = ListHead
      /\ m0.list.next[s] = s /\ m0.list.prev[s] = s
  BY <1>2, <1>3 DEF First, Shape, ManagerType
<1>5. \A t \in Sessions \ {s} :
        m0.list.next[t] = m.list.next[t] /\ m0.list.prev[t] = m.list.prev[t]
  BY <1>2 DEF ManagerType, Nodes
<1>6. Shape(m0) /\ First(m0) = ListHead
  BY <1>2, <1>4, <1>5 DEF Shape, First, PointsHome
<1>7. m1 = [list |-> QUEUE_INSERT_HEAD(m0.list, ListHead, s), size |-> m0.size + 1]
  BY <1>1, <1>6, Containment DEF add_session
<1>8. \A n \in Nodes :
        /\ m1.list.next[n] = IF n = s THEN ListHead
                             ELSE IF n = ListHead THEN s ELSE m0.list.next[n]
        /\ m1.list.prev[n] = IF n = s THEN ListHead
                             ELSE IF n = ListHead THEN s ELSE m0.list.prev[n]
  <2> HIDE DEF m0, m1
  <2>1. m1.list = QUEUE_INSERT_HEAD(m0.list, ListHead, s)  BY <1>7
  <2>2. m0.list \in [next : [Nodes -> Nodes], prev : [Nodes -> Nodes]]
    BY <1>1 DEF ManagerType
  <2>3. QED  BY <1>3, <1>4, <2>1, <2>2 DEF QUEUE_INSERT_HEAD
<1>9. /\ m1.list.next[ListHead] = s /\ m1.list.prev[ListHead] = s
      /\ m1.list.next[s] = ListHead /\ m1.list.prev[s] = ListHead
  BY <1>3, <1>8
<1>10. \A t \in Sessions \ {s} :
        m1.list.next[t] = m0.list.next[t] /\ m1.list.prev[t] = m0.list.prev[t]
  BY <1>8, SessionsAssumption DEF Nodes
<1> HIDE DEF m0, m1
<1>11. m1.size = 1  BY <1>2, <1>7 DEF Shape
<1>12. Shape(m1) /\ First(m1) = s /\ PointsHome(m1, s)
  BY <1>3, <1>5, <1>6, <1>9, <1>10, <1>11 DEF Shape, First, PointsHome
<1>13. QED  BY <1>1, <1>5, <1>6, <1>10, <1>12 DEF m0, m1

-----------------------------------------------------------------------------
(* What a step does to the connections and to the sessions.                *)

\* c is left alone, is free, new or closing, or is open having asked for a
\* preview.
Moves(c) ==
    \/ /\ chandle'[c] = chandle[c] /\ cstatus'[c] = cstatus[c]
       /\ csession'[c] = csession[c] /\ writeq'[c] = writeq[c]
       /\ starts'[c] = starts[c]
    \/ chandle'[c] = "free" /\ writeq'[c] = <<>>
    \/ /\ chandle'[c] = "open" /\ cstatus'[c] = "INIT"
       /\ csession'[c] = NoSession /\ writeq'[c] = <<>>
    \/ chandle'[c] = "closing"
    \/ chandle'[c] = "open" /\ starts'[c] # 0

LEMMA ConnectionKept ==
    ASSUME ConnectionInv, \A c \in Clients : Moves(c)
    PROVE  ConnectionInv'
BY DEF ConnectionInv, Moves

\* No session gets a viewer or a timer but one that can be reached, and none
\* loses its last viewer or its timer without a timer.
SessionMoves(s) ==
    /\ clients'[s] # {} \/ timer'[s] => clients[s] # {} \/ timer[s] \/ First(manager) = s
    /\ clients'[s] = {} => clients[s] = {} \/ timer'[s]
    /\ timer[s] => timer'[s]
    /\ dvr'[s] = dvr[s] \/ smem[s] = "live"

\* The table loses a session at most.
TableMoves ==
    /\ Shape(manager')
    /\ First(manager') \in {First(manager), ListHead}
    /\ \A s \in Sessions : PointsHome(manager, s) => PointsHome(manager', s)

LEMMA SessionKept ==
    ASSUME Types, SessionInv, TableMoves, \A s \in Sessions : SessionMoves(s),
           UNCHANGED <<smem, dclosing>>
    PROVE  SessionInv'
<1> SUFFICES ASSUME NEW s \in Sessions
    PROVE  /\ clients'[s] # {} \/ timer'[s] \/ First(manager') = s =>
                smem[s] = "live" /\ ~dclosing[s]
           /\ smem[s] = "live" => PointsHome(manager', s)
           /\ smem[s] = "live" /\ clients'[s] = {} => timer'[s] \/ dclosing[s]
           /\ smem[s] = "free" =>
                dvr'[s] \in {"none", "stopped"} \/ (dclosing[s] /\ dvr'[s] = "reading")
    BY DEF SessionInv, First, PointsHome
<1>1. s # ListHead  BY SessionsAssumption
<1>2. QED  BY <1>1 DEF SessionInv, SessionMoves, TableMoves

\* The table stays as it is.
LEMMA TableKept ==
    ASSUME Shape(manager), UNCHANGED manager
    PROVE  TableMoves
BY DEF TableMoves

\* A live session is deleted, once or twice.
LEMMA TableDeletes ==
    ASSUME OneChannel, Types, Shape(manager), SessionInv,
           NEW s \in Sessions, smem[s] = "live",
           \/ manager' = delete_session(manager, key, s)
           \/ manager' = delete_session(delete_session(manager, key, s), key, s)
    PROVE  TableMoves /\ First(manager') = ListHead
<1>1. manager \in ManagerType /\ key \in [Sessions -> Keys]  BY DEF Types
<1>2. PointsHome(manager, s)  BY DEF SessionInv
<1> DEFINE m2 == delete_session(manager, key, s)
           m3 == delete_session(m2, key, s)
<1>3. /\ m2 \in ManagerType /\ Shape(m2) /\ First(m2) = ListHead
      /\ \A t \in Sessions : /\ m2.list.next[t] = manager.list.next[t]
                             /\ m2.list.prev[t] = manager.list.prev[t]
  BY <1>1, <1>2, DeleteEffect
<1>4. PointsHome(m2, s)  BY <1>2, <1>3 DEF PointsHome
<1> HIDE DEF m2
<1>5. /\ Shape(m3) /\ First(m3) = ListHead
      /\ \A t \in Sessions : /\ m3.list.next[t] = m2.list.next[t]
                             /\ m3.list.prev[t] = m2.list.prev[t]
  BY <1>1, <1>3, <1>4, DeleteEffect
<1> HIDE DEF m3
<1>6. manager' = m2 \/ manager' = m3  BY DEF m2, m3
<1>7. QED  BY <1>3, <1>5, <1>6 DEF TableMoves, PointsHome

-----------------------------------------------------------------------------
(* Stopping listed clients.                                                *)

\* Listed connections are open and have asked for a preview.
LEMMA ListedFacts ==
    ASSUME Types, ListIntegrity, ConnectionInv, NEW s \in Sessions, NEW c \in clients[s]
    PROVE  /\ c \in Clients /\ csession[c] = s /\ csession[c] # NoSession
           /\ chandle[c] = "open" /\ starts[c] # 0 /\ cstatus[c] # "STOP"
<1>1. c \in Clients /\ csession[c] = s  BY DEF Types, ListIntegrity
<1>2. csession[c] # NoSession  BY <1>1, SessionsAssumption
<1>3. QED  BY <1>1, <1>2 DEF ListIntegrity, ConnectionInv

LEMMA StopKeepsLists ==
    ASSUME Types, ListIntegrity, NEW s \in Sessions, NEW X \in SUBSET clients[s],
           media_client_stop_preview(s, X),
           \A c \in Clients \ X : cstatus'[c] = "STOP" => cstatus[c] = "STOP"
    PROVE  ListIntegrity'
<1>1. clients[s] \in SUBSET Clients /\ X \in SUBSET Clients  BY DEF Types
<1>2. /\ clients' = [clients EXCEPT ![s] = clients[s] \ X]
      /\ client_size' = [client_size EXCEPT ![s] = client_size[s] - Cardinality(X)]
      /\ \A c \in Clients : /\ csession'[c] = IF c \in X THEN NoSession ELSE csession[c]
                            /\ chandle'[c] = IF c \in X THEN "closing" ELSE chandle[c]
  BY DEF media_client_stop_preview, Mark, Types
<1>3. Cardinality(clients[s] \ X) = Cardinality(clients[s]) - Cardinality(X)
  <2>1. clients[s] \cap X = X  OBVIOUS
  <2>2. QED  BY <1>1, <2>1, ClientSets, FS_Difference
<1>4. \A t \in Sessions : client_size'[t] = Cardinality(clients'[t])
  BY <1>2, <1>3 DEF ListIntegrity, Types
<1>5. \A t \in Sessions : \A c \in clients'[t] : csession'[c] = t
  <2> SUFFICES ASSUME NEW t \in Sessions, NEW c \in clients'[t] PROVE csession'[c] = t
    OBVIOUS
  <2>1. c \in clients[t] /\ c \in Clients /\ (t = s => c \notin X)
    BY <1>2 DEF Types
  <2>2. csession[c] = t  BY <2>1 DEF ListIntegrity
  <2>3. c \notin X  BY <2>1, <2>2 DEF ListIntegrity
  <2>4. QED  BY <1>2, <2>1, <2>2, <2>3
<1>6. \A c \in Clients : csession'[c] # NoSession =>
            c \in clients'[csession'[c]] /\ chandle'[c] = "open" /\ cstatus'[c] # "STOP"
  <2> SUFFICES ASSUME NEW c \in Clients, csession'[c] # NoSession
      PROVE  c \in clients'[csession'[c]] /\ chandle'[c] = "open" /\ cstatus'[c] # "STOP"
    OBVIOUS
  <2>1. c \notin X /\ csession'[c] = csession[c] /\ chandle'[c] = chandle[c]  BY <1>2
  <2>2. /\ csession[c] \in Sessions /\ c \in clients[csession[c]]
        /\ chandle[c] = "open" /\ cstatus[c] # "STOP"
    BY <2>1 DEF ListIntegrity, Types
  <2>3. QED  BY <1>2, <2>1, <2>2 DEF Types
<1>7. QED  BY <1>4, <1>5, <1>6 DEF ListIntegrity

LEMMA StopMovesSessions ==
    ASSUME Types, ListIntegrity, NEW s \in Sessions, NEW X \in SUBSET clients[s],
           media_client_stop_preview(s, X),
           NEW t \in Sessions, dvr'[t] = dvr[t] \/ smem[t] = "live"
    PROVE  SessionMoves(t)
<1> DEFINE armed == timer[s] \/ (X # {} /\ client_size[s] = Cardinality(X))
<1>1. clients[s] \in SUBSET Clients /\ X \in SUBSET Clients  BY DEF Types
<1>2. clients' = [clients EXCEPT ![s] = clients[s] \ X] /\ timer' = [timer EXCEPT ![s] = armed]
  BY DEF media_client_stop_preview
<1>3. armed => timer[s] \/ clients[s] # {}  OBVIOUS
<1>4. clients[s] \ X = {} => clients[s] = {} \/ armed
  <2>1. client_size[s] = Cardinality(clients[s])  BY DEF ListIntegrity
  <2>2. clients[s] \ X = {} => clients[s] = X  OBVIOUS
  <2>3. QED  BY <2>1, <2>2
<1>5. timer[s] => armed  OBVIOUS
<1>6. /\ clients'[t] = IF t = s THEN clients[s] \ X ELSE clients[t]
      /\ timer'[t] = IF t = s THEN armed ELSE timer[t]
  <2> HIDE DEF armed
  <2>1. QED  BY <1>2 DEF Types
<1> HIDE DEF armed
<1>7. CASE t = s  BY <1>3, <1>4, <1>5, <1>6, <1>7 DEF SessionMoves
<1>8. CASE t # s  BY <1>6, <1>8 DEF SessionMoves
<1>9. QED  BY <1>7, <1>8

LEMMA StopMovesConnections ==
    ASSUME Types, ListIntegrity, ConnectionInv,
           NEW s \in Sessions, NEW X \in SUBSET clients[s],
           media_client_stop_preview(s, X), UNCHANGED starts,
           \A c \in Clients \ clients[s] :
                cstatus'[c] = cstatus[c] /\ writeq'[c] = writeq[c]
    PROVE  \A c \in Clients : Moves(c)
<1>1. \A c \in Clients : /\ csession'[c] = IF c \in X THEN NoSession ELSE csession[c]
                        /\ chandle'[c] = IF c \in X THEN "closing" ELSE chandle[c]
  BY DEF media_client_stop_preview, Mark, Types
<1> SUFFICES ASSUME NEW c \in Clients PROVE Moves(c)  OBVIOUS
<1>2. CASE c \in X  BY <1>1, <1>2 DEF Moves
<1>3. CASE c \in clients[s] \ X  BY <1>1, <1>3, ListedFacts DEF Moves
<1>4. CASE c \notin clients[s]  BY <1>1, <1>4 DEF Moves
<1>5. QED  BY <1>2, <1>3, <1>4

\* A connection that something was written to has asked for a preview.
LEMMA WrittenTo ==
    ASSUME Types, ConnectionInv, NEW c \in Clients, writeq[c] # <<>>
    PROVE  chandle[c] = "closing" \/ (chandle[c] = "open" /\ starts[c] # 0)
BY DEF Types, ConnectionInv

\* stop_smts_client, after a write of the connection was called back or not.
LEMMA StopOneKeeps ==
    ASSUME Types, ListIntegrity, ConnectionInv, NEW c \in Clients, stop_smts_client(c),
           UNCHANGED <<starts, dvr>>,
           \A d \in Clients \ {c} : writeq'[d] = writeq[d],
           writeq'[c] = writeq[c] \/ writeq[c] # <<>>
    PROVE  /\ ListIntegrity'
           /\ \A d \in Clients : Moves(d)
           /\ \A s \in Sessions : SessionMoves(s)
<1>1. CASE cstatus[c] = "STOP"
  <2>1. UNCHANGED <<cstatus, csession, chandle, clients, client_size, timer>>
    BY <1>1 DEF stop_smts_client
  <2>2. ListIntegrity'  BY <2>1 DEF ListIntegrity
  <2>3. \A d \in Clients : Moves(d)  BY <2>1, WrittenTo DEF Moves
  <2>4. \A s \in Sessions : SessionMoves(s)  BY <2>1 DEF SessionMoves
  <2>5. QED  BY <2>2, <2>3, <2>4
<1>2. CASE cstatus[c] # "STOP" /\ csession[c] = NoSession
  <2>1. /\ cstatus' = [cstatus EXCEPT ![c] = "STOP"]
        /\ chandle' = [chandle EXCEPT ![c] = "closing"]
        /\ UNCHANGED <<csession, clients, client_size, timer>>
    BY <1>2 DEF stop_smts_client
  <2>2. ListIntegrity'  BY <1>2, <2>1 DEF ListIntegrity, Types
  <2>3. \A d \in Clients : Moves(d)  BY <2>1 DEF Moves, Types
  <2>4. \A s \in Sessions : SessionMoves(s)  BY <2>1 DEF SessionMoves
  <2>5. QED  BY <2>2, <2>3, <2>4
<1>3. CASE cstatus[c] # "STOP" /\ csession[c] # NoSession
  <2> DEFINE s == csession[c]
  <2>1. s \in Sessions /\ c \in clients[s] /\ {c} \in SUBSET clients[s]
    BY <1>3 DEF Types, ListIntegrity
  <2>2. media_client_stop_preview(s, {c}) /\ cstatus' = [cstatus EXCEPT ![c] = "STOP"]
    BY <1>3 DEF stop_smts_client
  <2>3. \A d \in Clients \ {c} : cstatus'[d] = cstatus[d]  BY <2>2 DEF Types
  <2> HIDE DEF s
  <2>4. ListIntegrity'  BY <2>1, <2>2, <2>3, StopKeepsLists
  <2>5. \A d \in Clients : Moves(d)  BY <2>1, <2>2, <2>3, StopMovesConnections
  <2>6. \A t \in Sessions : SessionMoves(t)  BY <2>1, <2>2, StopMovesSessions
  <2>7. QED  BY <2>4, <2>5, <2>6
<1>4. QED  BY <1>1, <1>2, <1>3

\* Answering the waiting clients and stopping all of them.
LEMMA AnswerAndStopKeeps ==
    ASSUME Types, ListIntegrity, ConnectionInv, NEW s \in Sessions, NEW status,
           AnswerAndStop(s, status), UNCHANGED starts, smem[s] = "live",
           \A t \in Sessions \ {s} : dvr'[t] = dvr[t]
    PROVE  /\ ListIntegrity'
           /\ \A c \in Clients : Moves(c)
           /\ \A t \in Sessions : SessionMoves(t)
<1>1. media_client_stop_preview(s, clients[s])  BY DEF AnswerAndStop
<1>2. \A c \in Clients \ clients[s] : cstatus'[c] = cstatus[c] /\ writeq'[c] = writeq[c]
  <2>1. PICK W \in SUBSET Waiting(s) : SendPreviewRes(W, status)  BY DEF AnswerAndStop
  <2>2. W \subseteq clients[s]  BY <2>1 DEF Waiting
  <2>3. QED  BY <2>1, <2>2 DEF AnswerAndStop, SendPreviewRes, Mark, Types
<1>3. ListIntegrity'  BY <1>1, <1>2, StopKeepsLists
<1>4. \A c \in Clients : Moves(c)  BY <1>1, <1>2, StopMovesConnections
<1>5. \A t \in Sessions : SessionMoves(t)  BY <1>1, StopMovesSessions
<1>6. QED  BY <1>3, <1>4, <1>5

-----------------------------------------------------------------------------
(* The invariant is inductive.  Types' is ClientStepTypes, SessionStepTypes. *)

Rest == ListIntegrity /\ Shape(manager) /\ ConnectionInv /\ SessionInv

\* A step that changes neither memory nor what closes, and the table at most
\* by a deletion.
LEMMA StepKept ==
    ASSUME IInv, ListIntegrity', TableMoves, UNCHANGED <<smem, dclosing>>,
           \A c \in Clients : Moves(c), \A s \in Sessions : SessionMoves(s)
    PROVE  Rest'
<1>1. ConnectionInv'  BY ConnectionKept DEF IInv
<1>2. SessionInv'  BY SessionKept DEF IInv
<1>3. QED  BY <1>1, <1>2 DEF Rest, TableMoves, Shape, First, PointsHome

LEMMA InitRest == Init => Rest
<1> SUFFICES ASSUME Init PROVE Rest  OBVIOUS
<1>1. ListIntegrity  BY FS_EmptySet DEF Init, ListIntegrity
<1>2. \A n \in Nodes : manager.list.next[n] = n /\ manager.list.prev[n] = n
  BY DEF Init, init_session_manager, SelfLinked
<1>3. Shape(manager) /\ First(manager) = ListHead
  BY <1>2 DEF Init, init_session_manager, Shape, First, Nodes
<1>4. ConnectionInv  BY DEF Init, ConnectionInv
<1>5. SessionInv  BY <1>3, SessionsAssumption DEF Init, SessionInv
<1>6. QED  BY <1>1, <1>3, <1>4, <1>5 DEF Rest

\* A connection of its own: nothing of the sessions changes.
LEMMA OwnStep ==
    ASSUME IInv, UNCHANGED <<smem, clients, client_size, timer, dvr, dclosing, manager>>,
           \A c \in Clients :
               /\ csession'[c] = csession[c]
               /\ Moves(c)
               /\ csession[c] # NoSession => chandle'[c] = "open" /\ cstatus'[c] # "STOP"
    PROVE  Rest'
<1>1. ListIntegrity'  BY DEF IInv, ListIntegrity, Types
<1>2. \A s \in Sessions : SessionMoves(s)  BY DEF SessionMoves
<1>3. TableMoves  BY TableKept DEF IInv
<1>4. QED  BY <1>1, <1>2, <1>3, StepKept

LEMMA KeptByConnection ==
    ASSUME IInv, NEW c \in Clients, client_on_connection(c)
    PROVE  Rest'
<1>1. /\ chandle[c] = "free"
      /\ chandle' = [chandle EXCEPT ![c] = "open"] \/ chandle' = [chandle EXCEPT ![c] = "closing"]
      /\ cstatus' = [cstatus EXCEPT ![c] = "INIT"]
      /\ csession' = [csession EXCEPT ![c] = NoSession]
      /\ starts' = [starts EXCEPT ![c] = 0]
      /\ UNCHANGED <<writeq, smem, clients, client_size, timer, dvr, dclosing, manager>>
  BY DEF client_on_connection, sessionVars, dvrVars, managerVars
<1>2. csession[c] = NoSession /\ writeq[c] = <<>>
  BY <1>1 DEF IInv, ListIntegrity, ConnectionInv
<1>3. ASSUME NEW d \in Clients
      PROVE  /\ csession'[d] = csession[d]
             /\ Moves(d)
             /\ csession[d] # NoSession => chandle'[d] = "open" /\ cstatus'[d] # "STOP"
  <2>1. CASE d = c  BY <1>1, <1>2, <2>1 DEF Moves, IInv, Types
  <2>2. CASE d # c  BY <1>1, <2>2 DEF Moves, IInv, Types, ListIntegrity
  <2>3. QED  BY <2>1, <2>2
<1>4. QED  BY <1>1, <1>3, OwnStep

LEMMA KeptByClose ==
    ASSUME IInv, NEW c \in Clients, socket_close_cb(c)
    PROVE  Rest'
<1>1. /\ chandle[c] = "closing" /\ writeq[c] = <<>>
      /\ chandle' = [chandle EXCEPT ![c] = "free"]
      /\ UNCHANGED <<cstatus, csession, starts, writeq, smem, clients, client_size, timer,
                     dvr, dclosing, manager>>
  BY DEF socket_close_cb, sessionVars, dvrVars, managerVars
<1>2. csession[c] = NoSession  BY <1>1 DEF IInv, ListIntegrity
<1>3. ASSUME NEW d \in Clients
      PROVE  /\ Moves(d)
             /\ csession[d] # NoSession => chandle'[d] = "open" /\ cstatus'[d] # "STOP"
  BY <1>1, <1>2 DEF Moves, IInv, Types, ListIntegrity
<1>4. QED  BY <1>1, <1>3, OwnStep

LEMMA KeptByResponse ==
    ASSUME IInv, NEW c \in Clients, on_smts_client_send_preview_res_cb_slient(c)
    PROVE  Rest'
<1>1. /\ writeq[c] # <<>>
      /\ writeq' = [writeq EXCEPT ![c] = Tail(writeq[c])]
      /\ cstatus' = [cstatus EXCEPT ![c] = "FRAMES"]
      /\ UNCHANGED <<chandle, csession, starts, smem, clients, client_size, timer,
                     dvr, dclosing, manager>>
  BY DEF on_smts_client_send_preview_res_cb_slient, sessionVars, dvrVars, managerVars
<1>2. chandle[c] = "closing" \/ (chandle[c] = "open" /\ starts[c] # 0)
  BY <1>1, WrittenTo DEF IInv
<1>3. ASSUME NEW d \in Clients
      PROVE  /\ Moves(d)
             /\ csession[d] # NoSession => chandle'[d] = "open" /\ cstatus'[d] # "STOP"
  <2>1. CASE d = c  BY <1>1, <1>2, <2>1 DEF Moves, IInv, Types, ListIntegrity
  <2>2. CASE d # c  BY <1>1, <2>2 DEF Moves, IInv, Types, ListIntegrity
  <2>3. QED  BY <2>1, <2>2
<1>4. QED  BY <1>1, <1>3, OwnStep

\* stop_smts_client in a callback that changes nothing of the sessions else.
LEMMA KeptByStop ==
    ASSUME IInv, NEW c \in Clients, stop_smts_client(c),
           UNCHANGED <<starts, smem, dvr, dclosing, manager>>,
           \A d \in Clients \ {c} : writeq'[d] = writeq[d],
           writeq'[c] = writeq[c] \/ writeq[c] # <<>>
    PROVE  Rest'
<1>1. /\ ListIntegrity'
      /\ \A d \in Clients : Moves(d)
      /\ \A s \in Sessions : SessionMoves(s)
  BY StopOneKeeps DEF IInv
<1>2. TableMoves  BY TableKept DEF IInv
<1>3. QED  BY <1>1, <1>2, StepKept

LEMMA KeptByBadPacket ==
    ASSUME IInv, NEW c \in Clients, dispatch_packet_error(c)
    PROVE  Rest'
BY KeptByStop DEF dispatch_packet_error, dvrVars, managerVars

LEMMA KeptByErrorResponse ==
    ASSUME IInv, NEW c \in Clients, on_smts_client_send_error_preview_res_cb(c)
    PROVE  Rest'
<1>1. /\ writeq[c] # <<>> /\ stop_smts_client(c)
      /\ writeq' = [writeq EXCEPT ![c] = Tail(writeq[c])]
      /\ UNCHANGED <<starts, smem, dvr, dclosing, manager>>
  BY DEF on_smts_client_send_error_preview_res_cb, dvrVars, managerVars
<1>2. \A d \in Clients \ {c} : writeq'[d] = writeq[d]  BY <1>1 DEF IInv, Types
<1>3. QED  BY <1>1, <1>2, KeptByStop

LEMMA KeptBySentFrame ==
    ASSUME IInv, NEW c \in Clients, on_smts_client_send_frame_cb(c)
    PROVE  Rest'
<1>1. /\ writeq[c] # <<>>
      /\ writeq' = [writeq EXCEPT ![c] = Tail(writeq[c])]
      /\ UNCHANGED <<starts, smem, dvr, dclosing, manager>>
  BY DEF on_smts_client_send_frame_cb, dvrVars, managerVars
<1>2. \A d \in Clients \ {c} : writeq'[d] = writeq[d]  BY <1>1 DEF IInv, Types
<1>3. CASE stop_smts_client(c)  BY <1>1, <1>2, <1>3, KeptByStop
<1>4. CASE UNCHANGED <<cstatus, csession, chandle, clients, client_size, timer>>
  <2>1. chandle[c] = "closing" \/ (chandle[c] = "open" /\ starts[c] # 0)
    BY <1>1, WrittenTo DEF IInv
  <2>2. ASSUME NEW d \in Clients
        PROVE  /\ Moves(d)
               /\ csession[d] # NoSession => chandle'[d] = "open" /\ cstatus'[d] # "STOP"
    BY <1>1, <1>2, <1>4, <2>1 DEF Moves, IInv, ListIntegrity
  <2>3. QED  BY <1>1, <1>4, <2>2, OwnStep
<1>5. QED  BY <1>3, <1>4 DEF on_smts_client_send_frame_cb

\* A viewer that may still send PREVIEW is in no session.
LEMMA Newcomer ==
    ASSUME OneChannel, IInv, NEW c \in Clients, chandle[c] = "open", starts[c] < MaxStarts
    PROVE  /\ cstatus[c] = "INIT" /\ csession[c] = NoSession
           /\ \A s \in Sessions : c \notin clients[s]
<1>1. starts[c] = 0
  <2>1. starts[c] \in 0..MaxStarts /\ MaxStarts \in Nat /\ MaxStarts <= 1
    BY MediaAssumption DEF OneChannel, IInv, Types
  <2>2. QED  BY <2>1
<1>2. cstatus[c] = "INIT" /\ csession[c] = NoSession
  BY <1>1 DEF IInv, ConnectionInv
<1>3. QED  BY <1>2, SessionsAssumption DEF IInv, ListIntegrity

\* Adding a newcomer to a list, whatever the list was.
LEMMA AddKeepsLists ==
    ASSUME Types, ListIntegrity, NEW c \in Clients, NEW s \in Sessions,
           csession[c] = NoSession, \A t \in Sessions : c \notin clients[t],
           add_smts_client(s, c, clients[s], client_size[s]),
           chandle[c] = "open", UNCHANGED chandle, cstatus'[c] # "STOP",
           \A d \in Clients \ {c} : cstatus'[d] = cstatus[d]
    PROVE  ListIntegrity'
<1>1. /\ clients' = [clients EXCEPT ![s] = clients[s] \cup {c}]
      /\ client_size' = [client_size EXCEPT ![s] = client_size[s] + 1]
      /\ csession' = [csession EXCEPT ![c] = s]
  BY DEF add_smts_client
<1>2. Cardinality(clients[s] \cup {c}) = Cardinality(clients[s]) + 1
  <2>1. IsFiniteSet(clients[s])  BY ClientSets DEF Types
  <2>2. QED  BY <2>1, FS_AddElement
<1>3. \A t \in Sessions : client_size'[t] = Cardinality(clients'[t])
  BY <1>1, <1>2 DEF ListIntegrity, Types
<1>4. \A t \in Sessions : \A d \in clients'[t] : csession'[d] = t
  BY <1>1 DEF ListIntegrity, Types
<1>5. \A d \in Clients : csession'[d] # NoSession =>
          d \in clients'[csession'[d]] /\ chandle'[d] = "open" /\ cstatus'[d] # "STOP"
  <2> SUFFICES ASSUME NEW d \in Clients, csession'[d] # NoSession
      PROVE  d \in clients'[csession'[d]] /\ chandle'[d] = "open" /\ cstatus'[d] # "STOP"
    OBVIOUS
  <2>1. CASE d = c  BY <1>1, <2>1 DEF Types
  <2>2. CASE d # c  BY <1>1, <2>2 DEF Types, ListIntegrity
  <2>3. QED  BY <2>1, <2>2
<1>6. QED  BY <1>3, <1>4, <1>5 DEF ListIntegrity

LEMMA KeptByJoin ==
    ASSUME OneChannel, IInv, NEW c \in Clients, NEW s \in Sessions,
           chandle[c] = "open", starts[c] < MaxStarts,
           starts' = [starts EXCEPT ![c] = starts[c] + 1],
           s \in Listed(manager), JoinSession(c, s)
    PROVE  Rest'
<1>1. /\ cstatus[c] = "INIT" /\ csession[c] = NoSession
      /\ \A t \in Sessions : c \notin clients[t]
  BY Newcomer
<1>2. First(manager) = s  BY Traversal DEF IInv, Types
<1>3. UNCHANGED <<smem, dvr, dclosing, manager>>
  BY DEF JoinSession, dvrVars, managerVars
<1>4. TableMoves  BY <1>3, TableKept DEF IInv
<1>5. starts'[c] # 0 /\ \A d \in Clients \ {c} : starts'[d] = starts[d]
  BY MediaAssumption DEF IInv, Types
<1>6. CASE /\ add_smts_client(s, c, clients[s], client_size[s])
           /\ AnswerJoined(c)
           /\ UNCHANGED <<chandle, timer>>
  <2>1. cstatus' = [cstatus EXCEPT ![c] = "PREVIEW_RES"] /\ SendPreviewRes({c}, "ok")
    BY <1>1, <1>6 DEF AnswerJoined
  <2>2. /\ cstatus'[c] # "STOP"
        /\ \A d \in Clients \ {c} : cstatus'[d] = cstatus[d] /\ writeq'[d] = writeq[d]
    BY <2>1 DEF SendPreviewRes, IInv, Types
  <2>3. ListIntegrity'  BY <1>1, <1>6, <2>2, AddKeepsLists DEF IInv
  <2>4. \A d \in Clients \ {c} : csession'[d] = csession[d]
    BY <1>6 DEF add_smts_client, IInv, Types
  <2>5. \A d \in Clients : Moves(d)  BY <1>5, <1>6, <2>2, <2>4 DEF Moves
  <2>6. \A t \in Sessions : SessionMoves(t)
    <3>1. clients' = [clients EXCEPT ![s] = clients[s] \cup {c}]  BY <1>6 DEF add_smts_client
    <3>2. QED  BY <1>2, <1>3, <1>6, <3>1 DEF SessionMoves, IInv, Types
  <2>7. QED  BY <1>3, <1>4, <2>3, <2>5, <2>6, StepKept
<1>7. CASE /\ cstatus' = [cstatus EXCEPT ![c] = "STOP"]
           /\ clients' = [clients EXCEPT ![s] = @ \ {c}]
           /\ csession' = [csession EXCEPT ![c] = NoSession]
           /\ chandle' = [chandle EXCEPT ![c] = "closing"]
           /\ timer' = [timer EXCEPT ![s] = @ \/ client_size[s] = 0]
           /\ UNCHANGED <<client_size, writeq, reply>>
  <2>1. clients' = clients /\ csession' = csession
    BY <1>1, <1>7 DEF IInv, Types
  <2>2. ListIntegrity'
    <3>1. \A d \in Clients : csession[d] # NoSession => d # c  BY <1>1
    <3>2. \A d \in Clients \ {c} : chandle'[d] = chandle[d] /\ cstatus'[d] = cstatus[d]
      BY <1>7 DEF IInv, Types
    <3>3. UNCHANGED client_size  BY <1>7
    <3>4. QED  BY <2>1, <3>1, <3>2, <3>3 DEF IInv, ListIntegrity
  <2>3. \A d \in Clients : Moves(d)
    <3>1. chandle'[c] = "closing"  BY <1>7 DEF IInv, Types
    <3>2. \A d \in Clients \ {c} : chandle'[d] = chandle[d] /\ cstatus'[d] = cstatus[d]
      BY <1>7 DEF IInv, Types
    <3>3. QED  BY <1>5, <1>7, <2>1, <3>1, <3>2 DEF Moves
  <2>4. \A t \in Sessions : SessionMoves(t)
    <3> DEFINE armed == timer[s] \/ client_size[s] = 0
    <3>1. timer' = [timer EXCEPT ![s] = armed] /\ (timer[s] => armed)  BY <1>7
    <3> HIDE DEF armed
    <3>2. QED  BY <1>2, <1>3, <2>1, <3>1 DEF SessionMoves, IInv, Types
  <2>5. QED  BY <1>3, <1>4, <2>2, <2>3, <2>4, StepKept
<1>8. QED  BY <1>6, <1>7 DEF JoinSession

\* What holds of a block of memory that malloc may return.
LEMMA FreshSession ==
    ASSUME OneChannel, IInv, NEW k \in Keys, ~is_contain(manager, key, k),
           NEW s \in Sessions, smem[s] = "free"
    PROVE  clients[s] = {} /\ ~timer[s] /\ First(manager) = ListHead
<1>1. First(manager) = ListHead  BY Containment DEF IInv, Types
<1>2. QED  BY <1>1 DEF IInv, SessionInv

LEMMA KeptByCreate ==
    ASSUME OneChannel, IInv, NEW c \in Clients, NEW s \in Sessions, NEW k \in Keys,
           chandle[c] = "open", starts[c] < MaxStarts,
           starts' = [starts EXCEPT ![c] = starts[c] + 1],
           ~is_contain(manager, key, k), smem[s] = "free", CreateSession(c, s, k)
    PROVE  Rest'
<1>1. /\ cstatus[c] = "INIT" /\ csession[c] = NoSession
      /\ \A t \in Sessions : c \notin clients[t]
  BY Newcomer
<1>2. clients[s] = {} /\ ~timer[s] /\ First(manager) = ListHead  BY FreshSession
<1>3. client_size[s] = 0
  <2>1. client_size[s] = Cardinality(clients[s])  BY DEF IInv, ListIntegrity
  <2>2. QED  BY <1>2, <2>1, FS_EmptySet
<1>4. add_smts_client(s, c, clients[s], client_size[s]) /\ UNCHANGED <<chandle, cstatus, writeq>>
  BY <1>2, <1>3 DEF CreateSession
<1>5. ListIntegrity'  BY <1>1, <1>4, AddKeepsLists DEF IInv
<1>6. ConnectionInv'
  <2>1. starts'[c] # 0 /\ \A d \in Clients \ {c} : starts'[d] = starts[d]
    BY MediaAssumption DEF IInv, Types
  <2>2. \A d \in Clients \ {c} : csession'[d] = csession[d]
    BY <1>4 DEF add_smts_client, IInv, Types
  <2>3. \A d \in Clients : Moves(d)  BY <1>4, <2>1, <2>2 DEF Moves
  <2>4. QED  BY <2>3, ConnectionKept DEF IInv
<1>7. key' \in [Sessions -> Keys]  BY DEF CreateSession, IInv, Types
<1>8. /\ Shape(manager') /\ First(manager') = s /\ PointsHome(manager', s)
      /\ \A t \in Sessions \ {s} : PointsHome(manager, t) => PointsHome(manager', t)
  <2>1. manager \in ManagerType /\ Shape(manager)  BY DEF IInv, Types
  <2>2. manager' = add_session(init_abstract_session(manager, s), key', s)
    BY DEF CreateSession
  <2>3. QED  BY <1>2, <1>7, <2>1, <2>2, CreateEffect DEF PointsHome
<1>9. SessionInv'
  <2>1. /\ smem'[s] = "live" /\ ~dclosing'[s] /\ clients'[s] # {}
        /\ \A t \in Sessions \ {s} :
             /\ smem'[t] = smem[t] /\ dclosing'[t] = dclosing[t] /\ clients'[t] = clients[t]
             /\ timer'[t] = timer[t] /\ dvr'[t] = dvr[t]
    BY <1>4 DEF CreateSession, add_smts_client, IInv, Types
  <2> SUFFICES ASSUME NEW t \in Sessions
      PROVE  /\ clients'[t] # {} \/ timer'[t] \/ First(manager') = t =>
                  smem'[t] = "live" /\ ~dclosing'[t]
             /\ smem'[t] = "live" => PointsHome(manager', t)
             /\ smem'[t] = "live" /\ clients'[t] = {} => timer'[t] \/ dclosing'[t]
             /\ smem'[t] = "free" =>
                  dvr'[t] \in {"none", "stopped"} \/ (dclosing'[t] /\ dvr'[t] = "reading")
    BY DEF SessionInv, First, PointsHome
  <2>2. CASE t = s  BY <1>8, <2>1, <2>2
  <2>3. CASE t # s  BY <1>8, <2>1, <2>3 DEF IInv, SessionInv
  <2>4. QED  BY <2>2, <2>3
<1>10. Shape(manager)'  BY <1>8 DEF Shape, First, PointsHome
<1>11. QED  BY <1>5, <1>6, <1>9, <1>10 DEF Rest

LEMMA KeptByFailure ==
    ASSUME OneChannel, IInv, NEW c \in Clients, NEW s \in Sessions, NEW k \in Keys,
           chandle[c] = "open", starts[c] < MaxStarts,
           starts' = [starts EXCEPT ![c] = starts[c] + 1],
           ~is_contain(manager, key, k), smem[s] = "free", FailToCreateSession(c, s, k)
    PROVE  Rest'
<1>1. csession[c] = NoSession  BY Newcomer
<1>2. clients[s] = {} /\ ~timer[s] /\ First(manager) = ListHead  BY FreshSession
<1>3. /\ csession' = csession
      /\ UNCHANGED <<chandle, cstatus, smem, clients, client_size, timer, dvr, dclosing>>
  BY <1>1 DEF FailToCreateSession, sessionVars, dvrVars, IInv, Types
<1>4. ListIntegrity'  BY <1>3 DEF IInv, ListIntegrity
<1>5. ConnectionInv'
  <2>1. starts'[c] # 0 /\ \A d \in Clients \ {c} : starts'[d] = starts[d]
    BY MediaAssumption DEF IInv, Types
  <2>2. \A d \in Clients \ {c} : writeq'[d] = writeq[d]
    BY DEF FailToCreateSession, IInv, Types
  <2>3. \A d \in Clients : Moves(d)  BY <1>3, <2>1, <2>2 DEF Moves
  <2>4. QED  BY <2>3, ConnectionKept DEF IInv
<1>6. key' \in [Sessions -> Keys] /\ manager \in ManagerType
  BY DEF FailToCreateSession, IInv, Types
<1> DEFINE m0 == init_abstract_session(manager, s)
           m1 == add_session(m0, key', s)
           m2 == delete_session(m1, key', s)
<1>7. /\ m0 \in ManagerType /\ m1 \in ManagerType
      /\ Shape(m0) /\ First(m0) = ListHead
      /\ Shape(m1) /\ PointsHome(m1, s)
      /\ \A t \in Sessions \ {s} :
          /\ m0.list.next[t] = manager.list.next[t] /\ m0.list.prev[t] = manager.list.prev[t]
          /\ m1.list.next[t] = manager.list.next[t] /\ m1.list.prev[t] = manager.list.prev[t]
  BY <1>2, <1>6, CreateEffect DEF IInv
<1>8. manager' = m0 \/ manager' = m2  BY DEF FailToCreateSession
<1> HIDE DEF m0, m1
<1>9. /\ Shape(m2) /\ First(m2) = ListHead
      /\ \A t \in Sessions : /\ m2.list.next[t] = m1.list.next[t]
                             /\ m2.list.prev[t] = m1.list.prev[t]
  BY <1>6, <1>7, DeleteEffect
<1> HIDE DEF m2
<1>10. /\ Shape(manager') /\ First(manager') = ListHead
       /\ \A t \in Sessions \ {s} : PointsHome(manager, t) => PointsHome(manager', t)
  BY <1>7, <1>8, <1>9 DEF PointsHome
<1>11. SessionInv'
  <2> SUFFICES ASSUME NEW t \in Sessions
      PROVE  /\ clients[t] # {} \/ timer[t] \/ First(manager') = t =>
                  smem[t] = "live" /\ ~dclosing[t]
             /\ smem[t] = "live" => PointsHome(manager', t)
             /\ smem[t] = "live" /\ clients[t] = {} => timer[t] \/ dclosing[t]
             /\ smem[t] = "free" =>
                  dvr[t] \in {"none", "stopped"} \/ (dclosing[t] /\ dvr[t] = "reading")
    BY <1>3 DEF SessionInv, First, PointsHome
  <2>1. First(manager') # t  BY <1>10, SessionsAssumption
  <2>2. QED  BY <1>10, <2>1 DEF IInv, SessionInv
<1>12. Shape(manager)'  BY <1>10 DEF Shape, First, PointsHome
<1>13. QED  BY <1>4, <1>5, <1>11, <1>12 DEF Rest

LEMMA KeptByClient ==
    ASSUME OneChannel, IInv, NEW c \in Clients, ClientNext(c)
    PROVE  Rest'
<1>1. ASSUME NEW k \in Keys, smts_start_preview(c, k) PROVE Rest'
  <2>1. /\ chandle[c] = "open" /\ starts[c] < MaxStarts
        /\ starts' = [starts EXCEPT ![c] = starts[c] + 1]
    BY <1>1 DEF smts_start_preview
  <2>2. ASSUME NEW s \in Sessions, IsGotten(manager, key, k, s), JoinSession(c, s)
        PROVE  Rest'
    BY <2>1, <2>2, KeptByJoin DEF IsGotten
  <2>3. ASSUME ~is_contain(manager, key, k), NEW s \in Sessions, smem[s] = "free",
               CreateSession(c, s, k) \/ FailToCreateSession(c, s, k)
        PROVE  Rest'
    BY <2>1, <2>3, KeptByCreate, KeptByFailure
  <2>4. QED  BY <1>1, <2>2, <2>3 DEF smts_start_preview
<1>2. QED
  BY <1>1, KeptByConnection, KeptByBadPacket, KeptByResponse, KeptByErrorResponse,
     KeptBySentFrame, KeptByClose
  DEF ClientNext

\* A session whose recorder's connection has something pending is alive.
LEMMA RecorderIsLive ==
    ASSUME IInv, NEW s \in Sessions,
           dvr[s] \in {"connecting", "previewing"} \/ (dvr[s] = "reading" /\ ~dclosing[s])
    PROVE  smem[s] = "live"
<1>1. smem[s] \in {"free", "live"}  BY DEF IInv, Types
<1>2. QED  BY <1>1 DEF IInv, SessionInv

\* stop_media_session of a live session, also when it is called twice.
LEMMA KeptByStopSession ==
    ASSUME OneChannel, IInv, NEW s \in Sessions, smem[s] = "live", NEW status,
           \/ manager' = delete_session(manager, key, s)
           \/ manager' = delete_session(delete_session(manager, key, s), key, s),
           AnswerAndStop(s, status), UNCHANGED <<starts, smem, dclosing>>,
           \A t \in Sessions \ {s} : dvr'[t] = dvr[t]
    PROVE  Rest'
<1>1. TableMoves  BY TableDeletes DEF IInv
<1>2. /\ ListIntegrity'
      /\ \A c \in Clients : Moves(c)
      /\ \A t \in Sessions : SessionMoves(t)
  BY AnswerAndStopKeeps DEF IInv
<1>3. QED  BY <1>1, <1>2, StepKept

\* Some clients of a live session are written to, others are stopped.
LEMMA KeptByDelivery ==
    ASSUME IInv, NEW s \in Sessions, smem[s] = "live", NEW X \in SUBSET clients[s],
           media_client_stop_preview(s, X), UNCHANGED <<starts, smem, dclosing, manager>>,
           \A c \in Clients \ clients[s] :
                cstatus'[c] = cstatus[c] /\ writeq'[c] = writeq[c],
           \A c \in clients[s] \ X : cstatus'[c] # "STOP",
           \A t \in Sessions \ {s} : dvr'[t] = dvr[t]
    PROVE  Rest'
<1>1. TableMoves  BY TableKept DEF IInv
<1>2. \A c \in Clients \ X : cstatus'[c] = "STOP" => cstatus[c] = "STOP"  OBVIOUS
<1>3. ListIntegrity'  BY <1>2, StopKeepsLists DEF IInv
<1>4. \A c \in Clients : Moves(c)  BY StopMovesConnections DEF IInv
<1>5. \A t \in Sessions : dvr'[t] = dvr[t] \/ smem[t] = "live"  OBVIOUS
<1>6. \A t \in Sessions : SessionMoves(t)  BY <1>5, StopMovesSessions DEF IInv
<1>7. QED  BY <1>1, <1>3, <1>4, <1>6, StepKept

LEMMA KeptByConnected ==
    ASSUME OneChannel, IInv, NEW s \in Sessions, on_connected_to_dvr(s)
    PROVE  Rest'
<1>1. smem[s] = "live"  BY RecorderIsLive DEF on_connected_to_dvr
<1>2. UNCHANGED <<starts, smem, dclosing>>  BY DEF on_connected_to_dvr
<1>3. \A t \in Sessions \ {s} : dvr'[t] = dvr[t]
  BY DEF on_connected_to_dvr, IInv, Types
<1>4. CASE UNCHANGED <<manager, writeq, reply, cstatus, csession, chandle,
                       clients, client_size, timer>>
  <2>1. ListIntegrity'  BY <1>4 DEF IInv, ListIntegrity
  <2>2. \A c \in Clients : Moves(c)  BY <1>2, <1>4 DEF Moves
  <2>3. \A t \in Sessions : SessionMoves(t)  BY <1>1, <1>3, <1>4 DEF SessionMoves
  <2>4. TableMoves  BY <1>4, TableKept DEF IInv
  <2>5. QED  BY <1>2, <2>1, <2>2, <2>3, <2>4, StepKept
<1>5. CASE stop_media_session(s)
  BY <1>1, <1>2, <1>3, <1>5, KeptByStopSession DEF stop_media_session
<1>6. CASE /\ manager' = delete_session(delete_session(manager, key, s), key, s)
           /\ AnswerAndStop(s, SessionStatusAsReply(s))
  BY <1>1, <1>2, <1>3, <1>6, KeptByStopSession
<1>7. QED  BY <1>4, <1>5, <1>6 DEF on_connected_to_dvr

LEMMA KeptByPreviewSent ==
    ASSUME OneChannel, IInv, NEW s \in Sessions, on_smts_dvr_client_send_preview(s)
    PROVE  Rest'
<1>1. smem[s] = "live"  BY RecorderIsLive DEF on_smts_dvr_client_send_preview
<1>2. UNCHANGED <<starts, smem, dclosing>>  BY DEF on_smts_dvr_client_send_preview
<1>3. \A t \in Sessions \ {s} : dvr'[t] = dvr[t]
  BY DEF on_smts_dvr_client_send_preview, IInv, Types
<1>4. ASSUME NEW X \in SUBSET Waiting(s),
             SendPreviewRes(Waiting(s) \ X, "ok"),
             cstatus' = Mark(Mark(cstatus, Waiting(s), "PREVIEW_RES"), X, "STOP"),
             media_client_stop_preview(s, X),
             UNCHANGED manager
      PROVE  Rest'
  <2>1. Waiting(s) \subseteq clients[s] /\ clients[s] \subseteq Clients
    BY DEF Waiting, IInv, Types
  <2>2. \A c \in Clients \ clients[s] :
            cstatus'[c] = cstatus[c] /\ writeq'[c] = writeq[c]
    BY <1>4, <2>1 DEF SendPreviewRes, Mark, IInv, Types
  <2>3. \A c \in clients[s] : cstatus[c] # "STOP"  BY ListedFacts DEF IInv
  <2>4. \A c \in clients[s] \ X : cstatus'[c] # "STOP"
    BY <1>4, <2>1, <2>3 DEF Mark, IInv, Types
  <2>5. QED  BY <1>1, <1>2, <1>3, <1>4, <2>1, <2>2, <2>4, KeptByDelivery
<1>5. CASE manager' = delete_session(manager, key, s) /\ AnswerAndStop(s, "ok")
  BY <1>1, <1>2, <1>3, <1>5, KeptByStopSession
<1>6. CASE stop_media_session(s)
  BY <1>1, <1>2, <1>3, <1>6, KeptByStopSession DEF stop_media_session
<1>7. QED  BY <1>4, <1>5, <1>6 DEF on_smts_dvr_client_send_preview

LEMMA KeptByFrame ==
    ASSUME IInv, NEW s \in Sessions, NEW f \in Frames, on_smts_dvr_client_recv_frame(s, f)
    PROVE  Rest'
<1>1. smem[s] = "live"  BY RecorderIsLive DEF on_smts_dvr_client_recv_frame
<1>2. UNCHANGED <<starts, smem, dvr, dclosing, manager>>
  BY DEF on_smts_dvr_client_recv_frame, dvrVars, managerVars
<1>3. PICK X \in SUBSET Recipients(s) :
        /\ writeq' = [c \in Clients |-> IF c \in Recipients(s) \ X THEN Append(writeq[c], f)
                                                                 ELSE writeq[c]]
        /\ cstatus' = Mark(cstatus, X, "STOP")
        /\ media_client_stop_preview(s, X)
  BY DEF on_smts_dvr_client_recv_frame
<1>4. Recipients(s) \subseteq clients[s] /\ clients[s] \subseteq Clients
  BY DEF Recipients, IInv, Types
<1>5. \A c \in Clients \ clients[s] : cstatus'[c] = cstatus[c] /\ writeq'[c] = writeq[c]
  BY <1>3, <1>4 DEF Mark, IInv, Types
<1>6. \A c \in clients[s] : cstatus[c] # "STOP"  BY ListedFacts DEF IInv
<1>7. \A c \in clients[s] \ X : cstatus'[c] # "STOP"
  BY <1>3, <1>4, <1>6 DEF Mark, IInv, Types
<1>8. X \in SUBSET clients[s]  BY <1>4
<1>9. QED  BY <1>1, <1>2, <1>3, <1>5, <1>7, <1>8, KeptByDelivery

LEMMA KeptByReadError ==
    ASSUME OneChannel, IInv, NEW s \in Sessions, on_dvr_client_read_error(s)
    PROVE  Rest'
<1>1. smem[s] = "live"  BY RecorderIsLive DEF on_dvr_client_read_error
<1>2. UNCHANGED <<starts, smem, dclosing>> /\ stop_media_session(s)
  BY DEF on_dvr_client_read_error
<1>3. \A t \in Sessions \ {s} : dvr'[t] = dvr[t]
  BY DEF on_dvr_client_read_error, IInv, Types
<1>4. QED  BY <1>1, <1>2, <1>3, KeptByStopSession DEF stop_media_session

\* Only what ends a session changes the memory of it or closes its recorder's
\* connection: nothing else changes then.
LEMMA EndKept ==
    ASSUME IInv, UNCHANGED <<clientVars, clients, client_size, dvr>>,
           Shape(manager'), SessionInv'
    PROVE  Rest'
<1>1. ListIntegrity'  BY DEF clientVars, IInv, ListIntegrity
<1>2. ConnectionInv'  BY DEF clientVars, IInv, ConnectionInv
<1>3. Shape(manager)'  BY DEF Shape, First, PointsHome
<1>4. QED  BY <1>1, <1>2, <1>3 DEF Rest

LEMMA KeptByExitTimer ==
    ASSUME OneChannel, IInv, NEW s \in Sessions, session_exit_cb(s)
    PROVE  Rest'
<1>1. smem[s] = "live"  BY DEF session_exit_cb, IInv, SessionInv
<1>2. /\ UNCHANGED <<clientVars, clients, client_size, dvr, smem>>
      /\ timer' = [timer EXCEPT ![s] = FALSE]
  BY DEF session_exit_cb
<1>3. client_size[s] = Cardinality(clients[s]) /\ IsFiniteSet(clients[s])
  BY ClientSets DEF IInv, ListIntegrity, Types
<1>4. CASE client_size[s] = 0
  <2>1. /\ manager' = delete_session(manager, key, s)
        /\ dclosing' = [dclosing EXCEPT ![s] = TRUE]
    BY <1>4 DEF session_exit_cb
  <2>2. TableMoves /\ First(manager') = ListHead  BY <1>1, <2>1, TableDeletes DEF IInv
  <2>3. clients[s] = {}  BY <1>3, <1>4, FS_EmptySet
  <2>4. SessionInv'
    <3> SUFFICES ASSUME NEW t \in Sessions
        PROVE  /\ clients[t] # {} \/ timer'[t] \/ First(manager') = t =>
                    smem[t] = "live" /\ ~dclosing'[t]
               /\ smem[t] = "live" => PointsHome(manager', t)
               /\ smem[t] = "live" /\ clients[t] = {} => timer'[t] \/ dclosing'[t]
               /\ smem[t] = "free" =>
                    dvr[t] \in {"none", "stopped"} \/ (dclosing'[t] /\ dvr[t] = "reading")
      BY <1>2 DEF SessionInv, First, PointsHome
    <3>1. First(manager') # t  BY <2>2, SessionsAssumption
    <3>2. PointsHome(manager, t) => PointsHome(manager', t)  BY <2>2 DEF TableMoves
    <3>3. CASE t = s
      BY <1>1, <1>2, <2>1, <2>3, <3>1, <3>2, <3>3 DEF IInv, SessionInv, Types
    <3>4. CASE t # s
      BY <1>2, <2>1, <3>1, <3>2, <3>4 DEF IInv, SessionInv, Types
    <3>5. QED  BY <3>3, <3>4
  <2>5. QED  BY <1>2, <2>2, <2>4, EndKept DEF TableMoves
<1>5. CASE client_size[s] # 0
  <2>1. UNCHANGED <<manager, dclosing>>  BY <1>5 DEF session_exit_cb
  <2>2. clients[s] # {}  BY <1>3, <1>5, FS_EmptySet
  <2>3. SessionInv'
    BY <1>2, <2>1, <2>2 DEF IInv, SessionInv, Types, First, PointsHome
  <2>4. QED  BY <1>2, <2>1, <2>3, EndKept DEF IInv
<1>6. QED  BY <1>4, <1>5

LEMMA KeptByRecorderClose ==
    ASSUME IInv, NEW s \in Sessions, on_dvr_client_close_cb(s)
    PROVE  Rest'
<1>1. /\ dclosing[s] /\ dvr[s] \notin {"connecting", "previewing"}
      /\ smem' = [smem EXCEPT ![s] = "free"]
      /\ UNCHANGED <<clientVars, clients, client_size, timer, dvr, dclosing, manager>>
  BY DEF on_dvr_client_close_cb, dvrVars, managerVars
<1>2. SessionInv'
  BY <1>1 DEF IInv, SessionInv, Types, First, PointsHome
<1>3. QED  BY <1>1, <1>2, EndKept DEF IInv

LEMMA KeptBySession ==
    ASSUME OneChannel, IInv, NEW s \in Sessions, SessionNext(s)
    PROVE  Rest'
BY KeptByConnected, KeptByPreviewSent, KeptByFrame, KeptByReadError, KeptByExitTimer,
   KeptByRecorderClose
DEF SessionNext

\* The inductive invariant of a program that watches one channel: the lists,
\* the shape of the table, and who may still reach the memory of a session.
THEOREM Invariant == ASSUME OneChannel PROVE Spec => []IInv
<1>1. Init => IInv  BY InitTypes, InitRest DEF IInv, Rest
<1>2. IInv /\ [Next]_vars => IInv'
  <2> SUFFICES ASSUME IInv, [Next]_vars PROVE IInv'  OBVIOUS
  <2>1. CASE UNCHANGED vars
    BY <2>1 DEF vars, clientVars, sessionVars, dvrVars, managerVars, frameVars, IInv,
       Types, ListIntegrity, Shape, First, PointsHome, ConnectionInv, SessionInv
  <2>2. ASSUME NEW c \in Clients, ClientNext(c) PROVE IInv'
    BY <2>2, ClientStepTypes, KeptByClient DEF IInv, Rest
  <2>3. ASSUME NEW s \in Sessions, SessionNext(s) PROVE IInv'
    BY <2>3, SessionStepTypes, KeptBySession DEF IInv, Rest
  <2>4. QED  BY <2>1, <2>2, <2>3 DEF Next
<1>3. QED  BY <1>1, <1>2, PTL DEF Spec

\* add_smts_client and media_client_stop_preview keep the list of a session, its
\* counter, the back pointers of the clients and their handles in step on every
\* path to uv_close, for any number of viewers, sessions and frames.
THEOREM ListsAgree == ASSUME OneChannel PROVE Spec => []ListIntegrity
<1>1. IInv => ListIntegrity  BY DEF IInv
<1>2. QED  BY <1>1, Invariant, PTL

\* on_dvr_client_close_cb frees a session that no viewer, no armed exit timer and
\* no entry of the table leads to.
THEOREM SessionsAlive == ASSUME OneChannel PROVE Spec => []SessionMemory
<1>1. IInv => SessionMemory
  <2>1. IInv => Listed(manager) = {First(manager)} \ {ListHead}
    BY Traversal DEF IInv, Types
  <2>2. QED  BY <2>1 DEF IInv, SessionInv, SessionMemory
<1>2. QED  BY <1>1, Invariant, PTL

\* wait_exit_session is called on every path on which a session loses its last
\* viewer, so that session_exit_cb can take it away.
THEOREM NoneForgotten == ASSUME OneChannel PROVE Spec => []NoForgottenSession
<1>1. IInv => NoForgottenSession  BY DEF IInv, SessionInv, NoForgottenSession
<1>2. QED  BY <1>1, Invariant, PTL

\* Though delete_session looks up a key and unlinks an address, with one key the
\* table stays a circular list of the length of its counter.
THEOREM TableWellFormed == ASSUME OneChannel PROVE Spec => []ManagerList
<1>1. IInv => ManagerList
  <2> SUFFICES ASSUME IInv PROVE ManagerList  OBVIOUS
  <2> DEFINE f == First(manager)
  <2>1. /\ Listed(manager) = {f} \ {ListHead}
        /\ WalkEnds(manager.list, ListHead)
        /\ f \in Nodes
        /\ manager.list.next[ListHead] = f
    BY Traversal DEF IInv, Types, First
  <2>2. Shape(manager)  BY DEF IInv
  <2>3. CASE f = ListHead
    <3>1. Listed(manager) = {}  BY <2>1, <2>3
    <3>2. manager.list.prev[ListHead] = ListHead /\ manager.size = 0
      BY <2>2, <2>3 DEF Shape
    <3>3. QED  BY <2>1, <2>3, <3>1, <3>2, FS_EmptySet DEF ManagerList
  <2>4. CASE f # ListHead
    <3>1. Listed(manager) = {f}  BY <2>1, <2>4
    <3>2. /\ manager.list.prev[ListHead] = f /\ manager.size = 1
          /\ manager.list.next[f] = ListHead /\ manager.list.prev[f] = ListHead
      BY <2>2, <2>4 DEF Shape, PointsHome
    <3>3. Cardinality({f}) = 1  BY FS_Singleton
    <3>4. QED  BY <2>1, <3>1, <3>2, <3>3 DEF ManagerList
  <2>5. QED  BY <2>3, <2>4
<1>2. QED  BY <1>1, Invariant, PTL
=============================================================================
