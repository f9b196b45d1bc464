---------------------------- MODULE Viewer_proofs ----------------------------
(***************************************************************************)
(* Proofs about what a viewer of module Media sees, for any number of      *)
(* connections, sessions and frames: every callback, whichever viewers it  *)
(* moves, makes one of a few moves of each connection, and these moves     *)
(* keep the conversation with it, which is that of module Viewer.          *)
(***************************************************************************)
EXTENDS Media_proofs

\* What is being written to a connection, by its state.  A connection that is
\* closing is stopped, unless nothing but a response is called back to it.
Conversation(c) ==
    /\ chandle[c] = "open" =>
        \/ cstatus[c] = "INIT" /\ writeq[c] = <<>> /\ reply[c] = "none"
        \/ /\ cstatus[c] = "INIT" /\ csession[c] = NoSession
           /\ writeq[c] = <<"err">> /\ reply[c] = "error"
        \/ cstatus[c] = "PREVIEW_RES" /\ writeq[c] = <<"res">> /\ reply[c] = "ok"
        \/ cstatus[c] = "FRAMES" /\ writeq[c] \in Seq(Frames) /\ reply[c] = "ok"
    /\ chandle[c] = "closing" =>
        \/ writeq[c] = <<>>
        \/ writeq[c] = <<"res">>
        \/ cstatus[c] = "STOP" /\ writeq[c] = <<"err">> /\ reply[c] = "error"
        \/ cstatus[c] = "STOP" /\ writeq[c] \in Seq(Frames) /\ reply[c] = "ok"
    /\ chandle[c] = "free" => writeq[c] = <<>>

Conversations == \A c \in Clients : Conversation(c)

-----------------------------------------------------------------------------
(* The moves of a connection.                                              *)

SameLine(c) == writeq'[c] = writeq[c] /\ reply'[c] = reply[c]
SamePlace(c) ==
    chandle'[c] = chandle[c] /\ cstatus'[c] = cstatus[c] /\ csession'[c] = csession[c]
Told(c, m, r) == writeq'[c] = Append(writeq[c], m) /\ reply'[c] = r
CalledBack(c) == writeq[c] # <<>> /\ writeq'[c] = Tail(writeq[c]) /\ reply'[c] = reply[c]
Closes(c) ==
    /\ chandle[c] = "open" /\ chandle'[c] = "closing"
    /\ cstatus'[c] = "STOP" /\ csession'[c] = NoSession
Fresh(c) ==
    chandle[c] = "open" /\ cstatus[c] = "INIT" /\ csession[c] = NoSession /\ writeq[c] = <<>>

Still(c) == SamePlace(c) /\ SameLine(c)

Accepted(c) ==
    /\ chandle[c] = "free" /\ chandle'[c] \in {"open", "closing"}
    /\ cstatus'[c] = "INIT" /\ csession'[c] = NoSession
    /\ writeq'[c] = writeq[c] /\ reply'[c] = "none"

Asks(c) ==
    /\ Fresh(c) /\ chandle'[c] = "open" /\ csession'[c] # NoSession
    /\ \/ cstatus'[c] = "PREVIEW_RES" /\ Told(c, "res", "ok")
       \/ cstatus'[c] = "INIT" /\ SameLine(c)

Refused(c) == Fresh(c) /\ SamePlace(c) /\ Told(c, "err", "error")

IsAnswered(c) ==
    /\ chandle[c] = "open" /\ cstatus[c] = "INIT" /\ csession[c] # NoSession
    /\ chandle'[c] = "open" /\ cstatus'[c] = "PREVIEW_RES" /\ csession'[c] = csession[c]
    /\ Told(c, "res", "ok")

FrameGoes(c) ==
    /\ chandle[c] = "open" /\ cstatus[c] = "FRAMES" /\ SamePlace(c)
    /\ reply'[c] = reply[c] /\ \E f \in Frames : writeq'[c] = Append(writeq[c], f)

Stops(c) ==
    /\ Closes(c)
    /\ \/ SameLine(c)
       \/ /\ cstatus[c] = "INIT" /\ csession[c] # NoSession
          /\ Told(c, "res", "ok") \/ Told(c, "res", "error")

ResponseSent(c) ==
    /\ CalledBack(c) /\ Head(writeq[c]) = "res"
    /\ chandle'[c] = chandle[c] /\ cstatus'[c] = "FRAMES" /\ csession'[c] = csession[c]

RefusalSent(c) ==
    /\ CalledBack(c) /\ Head(writeq[c]) = "err"
    /\ Closes(c) \/ (cstatus[c] = "STOP" /\ SamePlace(c))

FrameCame(c) ==
    /\ CalledBack(c) /\ Head(writeq[c]) \in Frames
    /\ Closes(c) \/ SamePlace(c)

Freed(c) ==
    /\ chandle[c] = "closing" /\ writeq[c] = <<>>
    /\ chandle'[c] = "free" /\ writeq'[c] = <<>>

ViewerMove(c) ==
    \/ Still(c) \/ Accepted(c) \/ Asks(c) \/ Refused(c) \/ IsAnswered(c) \/ FrameGoes(c)
    \/ Stops(c) \/ ResponseSent(c) \/ RefusalSent(c) \/ FrameCame(c) \/ Freed(c)

-----------------------------------------------------------------------------
(* Every callback makes one of them of each connection.                    *)

\* stop_smts_client with its handle open or with a stopped connection.
LEMMA StopOneMoves ==
    ASSUME IInv, NEW c \in Clients, stop_smts_client(c),
           chandle[c] = "open" \/ cstatus[c] = "STOP"
    PROVE  /\ Closes(c) \/ (cstatus[c] = "STOP" /\ SamePlace(c))
           /\ \A d \in Clients \ {c} : SamePlace(d)
<1> USE DEF Closes, SamePlace
<1>1. CASE cstatus[c] = "STOP"  BY <1>1 DEF stop_smts_client
<1>2. CASE cstatus[c] # "STOP" /\ csession[c] = NoSession
  BY <1>2 DEF stop_smts_client, IInv, Types
<1>3. CASE cstatus[c] # "STOP" /\ csession[c] # NoSession
  <2>1. /\ cstatus' = [cstatus EXCEPT ![c] = "STOP"]
        /\ csession' = Mark(csession, {c}, NoSession)
        /\ chandle' = Mark(chandle, {c}, "closing")
    BY <1>3 DEF stop_smts_client, media_client_stop_preview
  <2>2. QED  BY <1>3, <2>1 DEF Mark, IInv, Types
<1>4. QED  BY <1>1, <1>2, <1>3

\* Some listed connections X are closed, the others stay where they are.
LEMMA StopListedMoves ==
    ASSUME IInv, NEW s \in Sessions, NEW X \in SUBSET clients[s],
           media_client_stop_preview(s, X)
    PROVE  /\ \A c \in X : /\ c \in Clients /\ chandle[c] = "open" /\ csession[c] # NoSession
                           /\ chandle'[c] = "closing" /\ csession'[c] = NoSession
           /\ \A c \in Clients \ X : chandle'[c] = chandle[c] /\ csession'[c] = csession[c]
<1>1. \A c \in X : c \in Clients /\ chandle[c] = "open" /\ csession[c] # NoSession
  BY ListedFacts DEF IInv
<1>2. QED  BY <1>1 DEF media_client_stop_preview, Mark, IInv, Types

\* The viewers of a session that ends are answered and closed.
LEMMA AnswerAndStopMoves ==
    ASSUME IInv, NEW s \in Sessions, NEW status \in {"ok", "error"}, AnswerAndStop(s, status)
    PROVE  \A c \in Clients : Still(c) \/ Stops(c)
<1>1. PICK W \in SUBSET Waiting(s) : SendPreviewRes(W, status)  BY DEF AnswerAndStop
<1>2. /\ cstatus' = Mark(cstatus, clients[s], "STOP")
      /\ media_client_stop_preview(s, clients[s])
  BY DEF AnswerAndStop
<1>3. /\ \A c \in clients[s] : /\ c \in Clients /\ chandle[c] = "open" /\ csession[c] # NoSession
                               /\ chandle'[c] = "closing" /\ csession'[c] = NoSession
      /\ \A c \in Clients \ clients[s] : chandle'[c] = chandle[c] /\ csession'[c] = csession[c]
  BY <1>2, StopListedMoves
<1>4. \A c \in Clients : cstatus'[c] = IF c \in clients[s] THEN "STOP" ELSE cstatus[c]
  BY <1>2 DEF Mark, IInv, Types
<1>5. \A c \in Clients :
        IF c \in W THEN Told(c, "res", status) ELSE SameLine(c)
  BY <1>1 DEF SendPreviewRes, Mark, Told, SameLine, IInv, Types
<1>6. \A c \in W : c \in clients[s] /\ cstatus[c] = "INIT"  BY <1>1 DEF Waiting
<1> SUFFICES ASSUME NEW c \in Clients PROVE Still(c) \/ Stops(c)  OBVIOUS
<1>7. CASE c \in clients[s]
  <2>1. Closes(c) /\ csession[c] # NoSession  BY <1>3, <1>4, <1>7 DEF Closes
  <2>2. QED  BY <1>5, <1>6, <2>1 DEF Stops
<1>8. CASE c \notin clients[s]
  BY <1>3, <1>4, <1>5, <1>6, <1>8 DEF Still, SamePlace
<1>9. QED  BY <1>7, <1>8

\* A PREVIEW is a question, answered or refused at once or not.
LEMMA MovesOfStart ==
    ASSUME OneChannel, IInv, NEW c \in Clients, NEW k \in Keys, smts_start_preview(c, k)
    PROVE  \A d \in Clients : ViewerMove(d)
<1>1. chandle[c] = "open" /\ starts[c] < MaxStarts  BY DEF smts_start_preview
<1>2. /\ cstatus[c] = "INIT" /\ csession[c] = NoSession
      /\ \A t \in Sessions : c \notin clients[t]
  BY <1>1, Newcomer
<1>3. writeq[c] = <<>>
  <2>1. starts[c] \in 0..MaxStarts /\ MaxStarts \in Nat /\ MaxStarts <= 1
    BY MediaAssumption DEF OneChannel, IInv, Types
  <2>2. starts[c] = 0  BY <1>1, <2>1
  <2>3. QED  BY <1>1, <2>2 DEF IInv, ConnectionInv
<1>4. Fresh(c)  BY <1>1, <1>2, <1>3 DEF Fresh
<1>5. ASSUME NEW s \in Sessions, JoinSession(c, s) PROVE \A d \in Clients : ViewerMove(d)
  <2>1. CASE /\ add_smts_client(s, c, clients[s], client_size[s])
             /\ AnswerJoined(c)
             /\ UNCHANGED <<chandle, timer>>
    <3>1. /\ cstatus' = [cstatus EXCEPT ![c] = "PREVIEW_RES"] /\ SendPreviewRes({c}, "ok")
          /\ csession' = [csession EXCEPT ![c] = s]
      BY <1>2, <2>1 DEF AnswerJoined, add_smts_client
    <3>2. Asks(c)
      BY <1>1, <1>4, <2>1, <3>1, SessionsAssumption
      DEF Asks, SendPreviewRes, Told, Mark, IInv, Types
    <3>3. \A d \in Clients \ {c} : Still(d)
      BY <2>1, <3>1 DEF Still, SamePlace, SameLine, SendPreviewRes, Mark, IInv, Types
    <3>4. QED  BY <3>2, <3>3 DEF ViewerMove
  <2>2. CASE /\ cstatus' = [cstatus EXCEPT ![c] = "STOP"]
             /\ csession' = [csession EXCEPT ![c] = NoSession]
             /\ chandle' = [chandle EXCEPT ![c] = "closing"]
             /\ UNCHANGED <<client_size, writeq, reply>>
    <3>1. Stops(c)
      BY <1>1, <2>2 DEF Stops, Closes, SameLine, IInv, Types
    <3>2. \A d \in Clients \ {c} : Still(d)
      BY <2>2 DEF Still, SamePlace, SameLine, IInv, Types
    <3>3. QED  BY <3>1, <3>2 DEF ViewerMove
  <2>3. QED  BY <1>5, <2>1, <2>2 DEF JoinSession
<1>6. ASSUME NEW s \in Sessions, CreateSession(c, s, k) PROVE \A d \in Clients : ViewerMove(d)
  <2>1. csession' = [csession EXCEPT ![c] = s] /\ UNCHANGED <<chandle, cstatus, writeq, reply>>
    BY <1>6 DEF CreateSession, add_smts_client
  <2>2. Asks(c)
    BY <1>1, <1>2, <1>4, <2>1, SessionsAssumption DEF Asks, SameLine, IInv, Types
  <2>3. \A d \in Clients \ {c} : Still(d)
    BY <2>1 DEF Still, SamePlace, SameLine, IInv, Types
  <2>4. QED  BY <2>2, <2>3 DEF ViewerMove
<1>7. ASSUME NEW s \in Sessions, FailToCreateSession(c, s, k)
      PROVE  \A d \in Clients : ViewerMove(d)
  <2>1. /\ csession' = [csession EXCEPT ![c] = NoSession] /\ UNCHANGED <<chandle, cstatus>>
        /\ \/ /\ writeq' = [writeq EXCEPT ![c] = Append(@, "err")]
              /\ reply' = [reply EXCEPT ![c] = "error"]
           \/ UNCHANGED <<writeq, reply>>
    BY <1>7 DEF FailToCreateSession
  <2>2. \A d \in Clients : SamePlace(d)  BY <1>2, <2>1 DEF SamePlace, IInv, Types
  <2>3. Told(c, "err", "error") \/ SameLine(c)
    BY <2>1 DEF Told, SameLine, IInv, Types
  <2>4. \A d \in Clients \ {c} : SameLine(d)  BY <2>1 DEF SameLine, IInv, Types
  <2>5. QED  BY <1>4, <2>2, <2>3, <2>4 DEF ViewerMove, Refused, Still
<1>8. QED  BY <1>5, <1>6, <1>7 DEF smts_start_preview

\* A write of c is called back and c perhaps stopped.
LEMMA CalledBackLine ==
    ASSUME IInv, NEW c \in Clients, writeq[c] # <<>>,
           writeq' = [writeq EXCEPT ![c] = Tail(@)], UNCHANGED reply
    PROVE  CalledBack(c) /\ \A d \in Clients \ {c} : SameLine(d)
BY DEF CalledBack, SameLine, IInv, Types

\* A viewer's own callbacks.
LEMMA ClientMoves ==
    ASSUME OneChannel, IInv, Conversations, NEW c \in Clients, ClientNext(c)
    PROVE  \A d \in Clients : ViewerMove(d)
<1>1. CASE client_on_connection(c)
  <2>1. Accepted(c)
    BY <1>1 DEF client_on_connection, Accepted, IInv, Types
  <2>2. \A d \in Clients \ {c} : Still(d)
    BY <1>1 DEF client_on_connection, Still, SamePlace, SameLine, IInv, Types
  <2>3. QED  BY <2>1, <2>2 DEF ViewerMove
<1>2. ASSUME NEW k \in Keys, smts_start_preview(c, k) PROVE \A d \in Clients : ViewerMove(d)
  BY <1>2, MovesOfStart
<1>3. CASE dispatch_packet_error(c)
  <2>1. chandle[c] = "open" /\ stop_smts_client(c) /\ UNCHANGED <<writeq, reply>>
    BY <1>3 DEF dispatch_packet_error
  <2>2. cstatus[c] # "STOP"  BY <2>1 DEF Conversations, Conversation
  <2>3. Closes(c) /\ \A d \in Clients \ {c} : SamePlace(d)  BY <2>1, <2>2, StopOneMoves
  <2>4. \A d \in Clients : SameLine(d)  BY <2>1 DEF SameLine
  <2>5. QED  BY <2>3, <2>4 DEF ViewerMove, Stops, Still
<1>4. CASE on_smts_client_send_preview_res_cb_slient(c)
  <2>1. CalledBack(c) /\ \A d \in Clients \ {c} : SameLine(d)
    BY <1>4, CalledBackLine DEF on_smts_client_send_preview_res_cb_slient
  <2>2. ResponseSent(c) /\ \A d \in Clients \ {c} : SamePlace(d)
    BY <1>4, <2>1
    DEF on_smts_client_send_preview_res_cb_slient, ResponseSent, SamePlace, IInv, Types
  <2>3. QED  BY <2>1, <2>2 DEF ViewerMove, Still
<1>5. CASE on_smts_client_send_error_preview_res_cb(c)
  <2>1. /\ writeq[c] # <<>> /\ Head(writeq[c]) = "err" /\ stop_smts_client(c)
        /\ CalledBack(c) /\ \A d \in Clients \ {c} : SameLine(d)
    BY <1>5, CalledBackLine DEF on_smts_client_send_error_preview_res_cb
  <2>2. chandle[c] = "open" \/ cstatus[c] = "STOP"
    BY <2>1, MediaAssumption DEF Conversations, Conversation, IInv, Types
  <2>3. /\ Closes(c) \/ (cstatus[c] = "STOP" /\ SamePlace(c))
        /\ \A d \in Clients \ {c} : SamePlace(d)
    BY <2>1, <2>2, StopOneMoves
  <2>4. QED  BY <2>1, <2>3 DEF ViewerMove, RefusalSent, Still
<1>6. CASE on_smts_client_send_frame_cb(c)
  <2>1. /\ writeq[c] # <<>> /\ Head(writeq[c]) \in Frames
        /\ CalledBack(c) /\ \A d \in Clients \ {c} : SameLine(d)
    BY <1>6, CalledBackLine DEF on_smts_client_send_frame_cb
  <2>2. CASE UNCHANGED <<cstatus, csession, chandle, clients, client_size, timer>>
    BY <2>1, <2>2 DEF ViewerMove, FrameCame, Still, SamePlace
  <2>3. CASE stop_smts_client(c)
    <3>1. chandle[c] = "open" \/ cstatus[c] = "STOP"
      BY <2>1, MediaAssumption DEF Conversations, Conversation, IInv, Types
    <3>2. /\ Closes(c) \/ (cstatus[c] = "STOP" /\ SamePlace(c))
          /\ \A d \in Clients \ {c} : SamePlace(d)
      BY <2>3, <3>1, StopOneMoves
    <3>3. QED  BY <2>1, <3>2 DEF ViewerMove, FrameCame, Still
  <2>4. QED  BY <1>6, <2>2, <2>3 DEF on_smts_client_send_frame_cb
<1>7. CASE socket_close_cb(c)
  <2>1. Freed(c)  BY <1>7 DEF socket_close_cb, Freed, IInv, Types
  <2>2. \A d \in Clients \ {c} : Still(d)
    BY <1>7 DEF socket_close_cb, Still, SamePlace, SameLine, IInv, Types
  <2>3. QED  BY <2>1, <2>2 DEF ViewerMove
<1>8. QED  BY <1>1, <1>2, <1>3, <1>4, <1>5, <1>6, <1>7 DEF ClientNext

\* on_connected_to_dvr.
LEMMA ConnectedMoves ==
    ASSUME IInv, NEW s \in Sessions, on_connected_to_dvr(s)
    PROVE  \A c \in Clients : ViewerMove(c)
<1>1. SessionStatusAsReply(s) \in {"ok", "error"}  BY DEF SessionStatusAsReply
<1>2. CASE UNCHANGED <<manager, writeq, reply, cstatus, csession, chandle,
                       clients, client_size, timer>>
  BY <1>2 DEF ViewerMove, Still, SamePlace, SameLine
<1>3. CASE AnswerAndStop(s, SessionStatusAsReply(s))
  BY <1>1, <1>3, AnswerAndStopMoves DEF ViewerMove
<1>4. QED  BY <1>2, <1>3 DEF on_connected_to_dvr, stop_media_session

\* on_smts_dvr_client_send_preview.
LEMMA PreviewSentMoves ==
    ASSUME IInv, NEW s \in Sessions, on_smts_dvr_client_send_preview(s)
    PROVE  \A c \in Clients : ViewerMove(c)
<1>1. SessionStatusAsReply(s) \in {"ok", "error"}  BY DEF SessionStatusAsReply
<1>2. ASSUME NEW X \in SUBSET Waiting(s),
             SendPreviewRes(Waiting(s) \ X, "ok"),
             cstatus' = Mark(Mark(cstatus, Waiting(s), "PREVIEW_RES"), X, "STOP"),
             media_client_stop_preview(s, X)
      PROVE  \A c \in Clients : ViewerMove(c)
  <2>1. \A c \in Waiting(s) : /\ c \in Clients /\ chandle[c] = "open"
                              /\ csession[c] # NoSession /\ cstatus[c] = "INIT"
    <3>1. \A c \in Waiting(s) : c \in clients[s] /\ cstatus[c] = "INIT"  BY DEF Waiting
    <3>2. QED  BY <3>1, ListedFacts DEF IInv
  <2>2. X \in SUBSET clients[s]  BY DEF Waiting
  <2>3. /\ \A c \in X : chandle'[c] = "closing" /\ csession'[c] = NoSession
        /\ \A c \in Clients \ X : chandle'[c] = chandle[c] /\ csession'[c] = csession[c]
    BY <1>2, <2>2, StopListedMoves
  <2>4. \A c \in Clients : cstatus'[c] =
            IF c \in X THEN "STOP"
            ELSE IF c \in Waiting(s) THEN "PREVIEW_RES" ELSE cstatus[c]
    BY <1>2 DEF Mark, IInv, Types
  <2>5. \A c \in Clients :
            IF c \in Waiting(s) \ X THEN Told(c, "res", "ok") ELSE SameLine(c)
    BY <1>2 DEF SendPreviewRes, Mark, Told, SameLine, IInv, Types
  <2> SUFFICES ASSUME NEW c \in Clients PROVE ViewerMove(c)  OBVIOUS
  <2>6. CASE c \in X
    BY <2>1, <2>3, <2>4, <2>5, <2>6 DEF ViewerMove, Stops, Closes
  <2>7. CASE c \in Waiting(s) \ X
    BY <2>1, <2>3, <2>4, <2>5, <2>7 DEF ViewerMove, IsAnswered
  <2>8. CASE c \notin Waiting(s)
    BY <2>3, <2>4, <2>5, <2>8 DEF ViewerMove, Still, SamePlace
  <2>9. QED  BY <2>6, <2>7, <2>8
<1>3. CASE AnswerAndStop(s, "ok") \/ AnswerAndStop(s, SessionStatusAsReply(s))
  BY <1>1, <1>3, AnswerAndStopMoves DEF ViewerMove
<1>4. QED  BY <1>2, <1>3 DEF on_smts_dvr_client_send_preview, stop_media_session

\* on_smts_dvr_client_recv_frame.
LEMMA FrameMoves ==
    ASSUME IInv, NEW s \in Sessions, NEW f \in Frames, on_smts_dvr_client_recv_frame(s, f)
    PROVE  \A c \in Clients : ViewerMove(c)
<1>1. PICK X \in SUBSET Recipients(s) :
        /\ writeq' = [c \in Clients |-> IF c \in Recipients(s) \ X THEN Append(writeq[c], f)
                                                                 ELSE writeq[c]]
        /\ cstatus' = Mark(cstatus, X, "STOP")
        /\ media_client_stop_preview(s, X)
  BY DEF on_smts_dvr_client_recv_frame
<1>2. UNCHANGED reply  BY DEF on_smts_dvr_client_recv_frame
<1>3. X \in SUBSET clients[s]  BY DEF Recipients
<1>4. \A c \in Recipients(s) : chandle[c] = "open" /\ cstatus[c] = "FRAMES"
  <2>1. \A c \in Recipients(s) : c \in clients[s] /\ cstatus[c] = "FRAMES"  BY DEF Recipients
  <2>2. QED  BY <2>1, ListedFacts DEF IInv
<1>5. /\ \A c \in X : chandle'[c] = "closing" /\ csession'[c] = NoSession
      /\ \A c \in Clients \ X : chandle'[c] = chandle[c] /\ csession'[c] = csession[c]
  BY <1>1, <1>3, StopListedMoves
<1>6. \A c \in Clients :
        /\ cstatus'[c] = IF c \in X THEN "STOP" ELSE cstatus[c]
        /\ writeq'[c] = IF c \in Recipients(s) \ X THEN Append(writeq[c], f) ELSE writeq[c]
  BY <1>1 DEF Mark, IInv, Types
<1> SUFFICES ASSUME NEW c \in Clients PROVE ViewerMove(c)  OBVIOUS
<1>7. CASE c \in X
  BY <1>2, <1>4, <1>5, <1>6, <1>7 DEF ViewerMove, Stops, Closes, SameLine
<1>8. CASE c \in Recipients(s) \ X
  BY <1>2, <1>4, <1>5, <1>6, <1>8 DEF ViewerMove, FrameGoes, SamePlace
<1>9. CASE c \notin Recipients(s)
  BY <1>2, <1>5, <1>6, <1>9 DEF ViewerMove, Still, SamePlace, SameLine
<1>10. QED  BY <1>7, <1>8, <1>9

\* The callbacks of a session and its recorder.
LEMMA SessionMakesMoves ==
    ASSUME IInv, NEW s \in Sessions, SessionNext(s)
    PROVE  \A c \in Clients : ViewerMove(c)
<1>1. CASE on_dvr_client_read_error(s)
  <2>1. SessionStatusAsReply(s) \in {"ok", "error"}  BY DEF SessionStatusAsReply
  <2>2. AnswerAndStop(s, SessionStatusAsReply(s))
    BY <1>1 DEF on_dvr_client_read_error, stop_media_session
  <2>3. QED  BY <2>1, <2>2, AnswerAndStopMoves DEF ViewerMove
<1>2. CASE session_exit_cb(s) \/ on_dvr_client_close_cb(s)
  <2>1. UNCHANGED clientVars  BY <1>2 DEF session_exit_cb, on_dvr_client_close_cb
  <2>2. QED  BY <2>1 DEF clientVars, ViewerMove, Still, SamePlace, SameLine
<1>3. QED
  BY <1>1, <1>2, ConnectedMoves, PreviewSentMoves, FrameMoves DEF SessionNext

\* Every step.
LEMMA StepMoves ==
    ASSUME OneChannel, IInv, Conversations, [Next]_vars
    PROVE  \A c \in Clients : ViewerMove(c)
<1>1. CASE UNCHANGED vars
  BY <1>1 DEF vars, clientVars, ViewerMove, Still, SamePlace, SameLine
<1>2. QED  BY <1>1, ClientMoves, SessionMakesMoves DEF Next

-----------------------------------------------------------------------------
(* The conversation.                                                       *)

\* Each move keeps the conversation.
LEMMA ConversationKept ==
    ASSUME IInv, NEW c \in Clients, Conversation(c), ViewerMove(c)
    PROVE  Conversation(c)'
<1> USE MediaAssumption DEF Conversation
<1>1. chandle[c] \in {"free", "open", "closing"}  BY DEF IInv, Types
<1>2. CASE Still(c)  BY <1>2 DEF Still, SamePlace, SameLine
<1>3. CASE Accepted(c)  BY <1>3 DEF Accepted
<1>4. CASE Asks(c)
  <2>1. writeq[c] = <<>> /\ reply[c] = "none"  BY <1>4 DEF Asks, Fresh
  <2>2. Append(writeq[c], "res") = <<"res">>  BY <2>1
  <2>3. QED  BY <1>4, <2>1, <2>2 DEF Asks, Told, SameLine
<1>5. CASE Refused(c)
  <2>1. writeq[c] = <<>>  BY <1>5 DEF Refused, Fresh
  <2>2. Append(writeq[c], "err") = <<"err">>  BY <2>1
  <2>3. QED  BY <1>5, <2>2 DEF Refused, Fresh, Told, SamePlace
<1>6. CASE IsAnswered(c)
  <2>1. writeq[c] = <<>>  BY <1>6 DEF IsAnswered
  <2>2. Append(writeq[c], "res") = <<"res">>  BY <2>1
  <2>3. QED  BY <1>6, <2>2 DEF IsAnswered, Told
<1>7. CASE FrameGoes(c)
  <2>1. writeq[c] \in Seq(Frames) /\ reply[c] = "ok"  BY <1>7 DEF FrameGoes
  <2>2. \A f \in Frames : Append(writeq[c], f) \in Seq(Frames)  BY <2>1
  <2>3. QED  BY <1>7, <2>1, <2>2 DEF FrameGoes, SamePlace
<1>8. CASE Stops(c)
  <2>1. CASE SameLine(c)  BY <1>8, <2>1 DEF Stops, Closes, SameLine
  <2>2. CASE cstatus[c] = "INIT" /\ csession[c] # NoSession /\ writeq'[c] = Append(writeq[c], "res")
    <3>1. writeq[c] = <<>>  BY <1>8, <2>2 DEF Stops, Closes
    <3>2. Append(writeq[c], "res") = <<"res">>  BY <3>1
    <3>3. QED  BY <1>8, <2>2, <3>2 DEF Stops, Closes
  <2>3. QED  BY <1>8, <2>1, <2>2 DEF Stops, Told
<1>9. CASE ResponseSent(c)
  <2>1. chandle[c] # "free"  BY <1>9 DEF ResponseSent, CalledBack
  <2>2. writeq[c] = <<"res">>
    BY <1>1, <1>9, <2>1 DEF ResponseSent, CalledBack
  <2>3. Tail(writeq[c]) = <<>> /\ <<>> \in Seq(Frames)  BY <2>2
  <2>4. chandle[c] = "open" => reply[c] = "ok"  BY <2>2
  <2>5. QED  BY <1>9, <2>1, <2>3, <2>4 DEF ResponseSent, CalledBack
<1>10. CASE RefusalSent(c)
  <2>1. chandle[c] # "free"  BY <1>10 DEF RefusalSent, CalledBack
  <2>2. writeq[c] = <<"err">>
    BY <1>1, <1>10, <2>1 DEF RefusalSent, CalledBack
  <2>3. Tail(writeq[c]) = <<>>  BY <2>2
  <2>4. chandle'[c] = "closing"
    BY <1>1, <1>10, <2>1, <2>2 DEF RefusalSent, Closes, SamePlace
  <2>5. QED  BY <1>10, <2>3, <2>4 DEF RefusalSent, CalledBack
<1>11. CASE FrameCame(c)
  <2>1. chandle[c] # "free" /\ writeq[c] # <<>>  BY <1>11 DEF FrameCame, CalledBack
  <2>2. writeq[c] \in Seq(Frames) /\ reply[c] = "ok"
    BY <1>1, <1>11, <2>1 DEF FrameCame
  <2>3. Tail(writeq[c]) \in Seq(Frames)  BY <2>1, <2>2
  <2>4. /\ chandle[c] = "open" => cstatus[c] = "FRAMES"
        /\ chandle[c] = "closing" => cstatus[c] = "STOP"
    BY <2>1, <2>2
  <2>5. QED
    BY <1>1, <1>11, <2>1, <2>2, <2>3, <2>4 DEF FrameCame, CalledBack, Closes, SamePlace
<1>12. CASE Freed(c)  BY <1>12 DEF Freed
<1>13. QED
  BY <1>2, <1>3, <1>4, <1>5, <1>6, <1>7, <1>8, <1>9, <1>10, <1>11, <1>12 DEF ViewerMove

\* The connections and what is written to them agree.
THEOREM ConversationsKept == ASSUME OneChannel PROVE Spec => []Conversations
<1>1. Init => Conversations  BY DEF Init, Conversations, Conversation
<1>2. IInv /\ Conversations /\ [Next]_vars => Conversations'
  BY StepMoves, ConversationKept DEF Conversations
<1>3. QED  BY <1>1, <1>2, Invariant, PTL DEF Spec

\* smts_client_send_preview_res and the callbacks of smts_client_t.status keep
\* the responses before the frames, for any number of viewers.
THEOREM AnsweredFirst == ASSUME OneChannel PROVE Spec => []ResponseFirst
<1>1. IInv /\ Conversations => ResponseFirst
  <2> SUFFICES ASSUME IInv, NEW c \in Clients, Conversation(c), NEW i \in 1..Len(writeq[c])
      PROVE  /\ writeq[c][i] \in Frames => reply[c] = "ok" /\ cstatus[c] \in {"FRAMES", "STOP"}
             /\ writeq[c][i] = "err" => Len(writeq[c]) = 1 /\ reply[c] = "error"
             /\ writeq[c][i] = "res" => i = 1 /\ Len(writeq[c]) = 1
    BY DEF Conversations, ResponseFirst
  <2>1. chandle[c] \in {"open", "closing", "free"}  BY DEF IInv, Types
  <2>2. \/ writeq[c] = <<"res">>
        \/ writeq[c] = <<"err">> /\ reply[c] = "error"
        \/ /\ writeq[c] \in Seq(Frames)
           /\ writeq[c] # <<>> => reply[c] = "ok" /\ cstatus[c] \in {"FRAMES", "STOP"}
    <3>1. <<>> \in Seq(Frames)  OBVIOUS
    <3>2. QED  BY <2>1, <3>1 DEF Conversation
  <2>3. CASE writeq[c] = <<"res">>
    <3>1. i = 1 /\ Len(writeq[c]) = 1 /\ writeq[c][i] = "res"  BY <2>3
    <3>2. QED  BY <3>1, MediaAssumption
  <2>4. CASE writeq[c] = <<"err">> /\ reply[c] = "error"
    <3>1. Len(writeq[c]) = 1 /\ writeq[c][i] = "err"  BY <2>4
    <3>2. QED  BY <2>4, <3>1, MediaAssumption
  <2>5. CASE /\ writeq[c] \in Seq(Frames)
             /\ writeq[c] # <<>> => reply[c] = "ok" /\ cstatus[c] \in {"FRAMES", "STOP"}
    <3>1. writeq[c] # <<>> /\ writeq[c][i] \in Frames  BY <2>5
    <3>2. QED  BY <2>5, <3>1, MediaAssumption
  <2>6. QED  BY <2>2, <2>3, <2>4, <2>5
<1>2. QED  BY <1>1, Invariant, ConversationsKept, PTL

\* Nothing that is pending or linked closes a handle for a second time.
THEOREM ClosedOnce == ASSUME OneChannel PROVE Spec => []CloseOnce
<1>1. IInv /\ Conversations => CloseOnce
  <2> SUFFICES ASSUME IInv, Conversations PROVE CloseOnce  OBVIOUS
  <2>1. ASSUME NEW c \in Clients, cstatus[c] # "STOP",
               \/ \E s \in Sessions : c \in clients[s]
               \/ \E i \in 1..Len(writeq[c]) : writeq[c][i] # "res"
        PROVE  chandle[c] = "open"
    <3>1. CASE \E s \in Sessions : c \in clients[s]
      BY <3>1, ListedFacts DEF IInv
    <3>2. ASSUME NEW i \in 1..Len(writeq[c]), writeq[c][i] # "res" PROVE chandle[c] = "open"
      <4>1. Conversation(c) /\ chandle[c] \in {"open", "closing", "free"}
        BY DEF Conversations, IInv, Types
      <4>2. writeq[c] # <<>> /\ writeq[c] # <<"res">>  BY <3>2
      <4>3. QED  BY <2>1, <4>1, <4>2 DEF Conversation
    <3>3. QED  BY <2>1, <3>1, <3>2
  <2>2. \A s \in Sessions : timer[s] => ~dclosing[s]  BY DEF IInv, SessionInv
  <2>3. QED  BY <2>1, <2>2 DEF CloseOnce
<1>2. QED  BY <1>1, Invariant, ConversationsKept, PTL

\* stop_smts_client takes a connection out of every list before uv_close, so that
\* no loop over a list writes to it or answers it afterwards.
THEOREM QuietOnceClosing == ASSUME OneChannel PROVE Spec => ClosingIsQuiet
<1>1. IInv /\ IInv' /\ Conversations /\ [Next]_vars =>
        \A c \in Clients :
            chandle[c] = "closing" /\ chandle'[c] = "closing" =>
                /\ reply'[c] = reply[c]
                /\ Len(writeq'[c]) <= Len(writeq[c])
                /\ csession'[c] = NoSession
  <2> SUFFICES ASSUME IInv, IInv', Conversations, [Next]_vars, NEW c \in Clients,
                      chandle[c] = "closing", chandle'[c] = "closing"
      PROVE  /\ reply'[c] = reply[c]
             /\ Len(writeq'[c]) <= Len(writeq[c])
             /\ csession'[c] = NoSession
    OBVIOUS
  <2>1. ViewerMove(c)  BY StepMoves
  <2>2. csession'[c] = NoSession  BY DEF IInv, ListIntegrity
  <2>3. reply'[c] = reply[c] /\ (writeq'[c] = writeq[c] \/ CalledBack(c))
    BY <2>1
    DEF ViewerMove, Still, SameLine, Accepted, Asks, Refused, Fresh, IsAnswered, FrameGoes,
        Stops, Closes, ResponseSent, RefusalSent, FrameCame, CalledBack, Freed
  <2>4. writeq[c] \in Seq(Messages)  BY DEF IInv, Types
  <2>5. writeq[c] # <<>> => Len(Tail(writeq[c])) <= Len(writeq[c])  BY <2>4
  <2>6. Len(writeq[c]) <= Len(writeq[c])  BY <2>4
  <2>7. QED  BY <2>2, <2>3, <2>5, <2>6 DEF CalledBack
<1>2. QED  BY <1>1, Invariant, ConversationsKept, PTL DEF Spec, ClosingIsQuiet

-----------------------------------------------------------------------------
(* The recorder's connection behind a list of viewers.                     *)

\* A session with viewers, or in the table, has a recorder's connection that
\* has not failed.
Served ==
    \A s \in Sessions :
        clients[s] # {} \/ First(manager) = s => dvr[s] \notin {"none", "stopped"}

Serving == Served /\ WaitersAreAnswered

\* No list and no waiting viewer is new, the recorders' connections stay.
LEMMA ServingStays ==
    ASSUME Serving, Types, UNCHANGED <<dvr, sstatus>>,
           \A s \in Sessions :
               clients'[s] # {} \/ First(manager') = s => clients[s] # {} \/ First(manager) = s,
           \A c \in Clients :
               \/ csession'[c] = NoSession \/ cstatus'[c] # "INIT"
               \/ csession'[c] = csession[c] /\ cstatus'[c] = cstatus[c]
    PROVE  Serving'
BY DEF Serving, Served, WaitersAreAnswered, First

\* stop_smts_client takes viewers from sessions only.
LEMMA StopOneShrinks ==
    ASSUME Types, NEW c \in Clients, stop_smts_client(c)
    PROVE  /\ \A s \in Sessions : clients'[s] \subseteq clients[s]
           /\ \A d \in Clients :
               \/ csession'[d] = NoSession
               \/ cstatus'[d] = "STOP"
               \/ csession'[d] = csession[d] /\ cstatus'[d] = cstatus[d]
<1>1. CASE cstatus[c] = "STOP"  BY <1>1 DEF stop_smts_client
<1>2. CASE cstatus[c] # "STOP"
  <2>1. cstatus' = [cstatus EXCEPT ![c] = "STOP"]  BY <1>2 DEF stop_smts_client
  <2>2. CASE csession[c] = NoSession
    BY <1>2, <2>1, <2>2 DEF stop_smts_client, Types
  <2>3. CASE csession[c] # NoSession
    <3>1. csession[c] \in Sessions /\ media_client_stop_preview(csession[c], {c})
      BY <1>2, <2>3 DEF stop_smts_client, Types
    <3>2. clients' = [clients EXCEPT ![csession[c]] = @ \ {c}]
          /\ csession' = Mark(csession, {c}, NoSession)
      BY <3>1 DEF media_client_stop_preview
    <3>3. QED  BY <2>1, <3>1, <3>2 DEF Mark, Types
  <2>4. QED  BY <2>2, <2>3
<1>3. QED  BY <1>1, <1>2

\* stop_media_session leaves no viewer behind.
LEMMA ServingEnds ==
    ASSUME OneChannel, IInv, Serving, NEW s \in Sessions, smem[s] = "live", NEW status,
           \/ manager' = delete_session(manager, key, s)
           \/ manager' = delete_session(delete_session(manager, key, s), key, s),
           AnswerAndStop(s, status),
           \A t \in Sessions \ {s} : dvr'[t] = dvr[t] /\ sstatus'[t] = sstatus[t]
    PROVE  Serving'
<1>1. First(manager') = ListHead  BY TableDeletes DEF IInv
<1>2. media_client_stop_preview(s, clients[s]) /\ cstatus' = Mark(cstatus, clients[s], "STOP")
  BY DEF AnswerAndStop
<1>3. clients'[s] = {} /\ \A t \in Sessions \ {s} : clients'[t] = clients[t]
  BY <1>2 DEF media_client_stop_preview, IInv, Types
<1>4. \A t \in Sessions : First(manager') # t  BY <1>1, SessionsAssumption
<1>5. Served'  BY <1>3, <1>4 DEF Serving, Served, First
<1>6. ASSUME NEW c \in Clients, csession'[c] # NoSession, cstatus'[c] = "INIT"
      PROVE  sstatus'[csession'[c]] = "INIT" /\ dvr'[csession'[c]] \in {"connecting", "previewing"}
  <2>1. c \notin clients[s] /\ csession'[c] = csession[c] /\ cstatus'[c] = cstatus[c]
    BY <1>2, <1>6 DEF media_client_stop_preview, Mark, IInv, Types
  <2>2. csession[c] \in Sessions \ {s}
    BY <1>6, <2>1 DEF IInv, Types, ListIntegrity
  <2>3. QED  BY <1>6, <2>1, <2>2 DEF Serving, WaitersAreAnswered
<1>7. QED  BY <1>5, <1>6 DEF Serving, WaitersAreAnswered

\* A PREVIEW joins a session that serves, or creates one that will.
LEMMA ServingByStart ==
    ASSUME OneChannel, IInv, Serving, NEW c \in Clients, NEW k \in Keys,
           smts_start_preview(c, k)
    PROVE  Serving'
<1>1. chandle[c] = "open" /\ starts[c] < MaxStarts  BY DEF smts_start_preview
<1>2. cstatus[c] = "INIT" /\ csession[c] = NoSession  BY <1>1, Newcomer
<1>3. ASSUME NEW s \in Sessions, IsGotten(manager, key, k, s), JoinSession(c, s)
      PROVE  Serving'
  <2>1. First(manager) = s  BY <1>3, Traversal DEF IsGotten, IInv, Types
  <2>2. UNCHANGED <<dvr, sstatus, manager>>
    BY <1>3 DEF JoinSession, dvrVars, managerVars
  <2>3. \A t \in Sessions \ {s} : clients'[t] = clients[t]
    BY <1>3 DEF JoinSession, add_smts_client, IInv, Types
  <2>4. cstatus'[c] # "INIT"
        /\ \A d \in Clients \ {c} : csession'[d] = csession[d] /\ cstatus'[d] = cstatus[d]
    <3>1. \/ cstatus' = [cstatus EXCEPT ![c] = "PREVIEW_RES"] /\ csession' = [csession EXCEPT ![c] = s]
          \/ cstatus' = [cstatus EXCEPT ![c] = "STOP"] /\ csession' = [csession EXCEPT ![c] = NoSession]
      BY <1>2, <1>3, Zenon DEF JoinSession, add_smts_client, AnswerJoined
    <3>2. QED  BY <3>1 DEF IInv, Types
  <2>5. QED  BY <2>1, <2>2, <2>3, <2>4, ServingStays DEF IInv
<1>4. ASSUME ~is_contain(manager, key, k), NEW s \in Sessions, smem[s] = "free",
             CreateSession(c, s, k)
      PROVE  Serving'
  <2>1. clients[s] = {} /\ First(manager) = ListHead  BY <1>4, FreshSession
  <2>2. /\ dvr'[s] = "connecting" /\ sstatus'[s] = "INIT"
        /\ \A t \in Sessions \ {s} : /\ dvr'[t] = dvr[t] /\ sstatus'[t] = sstatus[t]
                                     /\ clients'[t] = clients[t]
        /\ csession' = [csession EXCEPT ![c] = s] /\ cstatus' = cstatus
    BY <1>4 DEF CreateSession, add_smts_client, IInv, Types
  <2>3. First(manager') = s
    <3>1. key' \in [Sessions -> Keys]  BY <1>4 DEF CreateSession, IInv, Types
    <3>2. manager' = add_session(init_abstract_session(manager, s), key', s)
      BY <1>4 DEF CreateSession
    <3>3. manager \in ManagerType /\ Shape(manager)  BY DEF IInv, Types
    <3>4. QED  BY <2>1, <3>1, <3>2, <3>3, CreateEffect
  <2>4. Served'  BY <2>2, <2>3 DEF Serving, Served, First
  <2>5. ASSUME NEW d \in Clients, csession'[d] # NoSession, cstatus'[d] = "INIT"
        PROVE  sstatus'[csession'[d]] = "INIT" /\ dvr'[csession'[d]] \in {"connecting", "previewing"}
    <3>1. CASE d = c  BY <2>2, <3>1 DEF IInv, Types
    <3>2. CASE d # c
      <4>1. csession'[d] = csession[d] /\ cstatus[d] = "INIT" /\ csession[d] \in Sessions
        BY <2>2, <2>5, <3>2 DEF IInv, Types
      <4>2. csession[d] # s  BY <2>1, <2>5, <4>1 DEF IInv, ListIntegrity
      <4>3. QED  BY <2>2, <2>5, <4>1, <4>2 DEF Serving, WaitersAreAnswered
    <3>3. QED  BY <3>1, <3>2
  <2>6. QED  BY <2>4, <2>5 DEF Serving, WaitersAreAnswered
<1>5. ASSUME ~is_contain(manager, key, k), NEW s \in Sessions, smem[s] = "free",
             FailToCreateSession(c, s, k)
      PROVE  Serving'
  <2>1. First(manager) = ListHead  BY <1>5, FreshSession
  <2> DEFINE m0 == init_abstract_session(manager, s)
             m1 == add_session(m0, key', s)
  <2>2. key' \in [Sessions -> Keys]  BY <1>5 DEF FailToCreateSession, IInv, Types
  <2>3. /\ First(m0) = ListHead
        /\ m1 \in ManagerType /\ Shape(m1) /\ PointsHome(m1, s)
    BY <2>1, <2>2, CreateEffect DEF IInv, Types
  <2>4. manager' = m0 \/ manager' = delete_session(m1, key', s)
    BY <1>5 DEF FailToCreateSession
  <2> HIDE DEF m0, m1
  <2>5. First(delete_session(m1, key', s)) = ListHead  BY <2>2, <2>3, DeleteEffect
  <2>6. \A t \in Sessions : First(manager') # t
    BY <2>3, <2>4, <2>5, SessionsAssumption
  <2>7. UNCHANGED <<cstatus, clients, sstatus, dvr>> /\ csession' = [csession EXCEPT ![c] = NoSession]
    BY <1>5 DEF FailToCreateSession, sessionVars, dvrVars
  <2>8. \A d \in Clients : csession'[d] = NoSession \/ csession'[d] = csession[d]
    BY <2>7 DEF IInv, Types
  <2>9. QED  BY <2>6, <2>7, <2>8, ServingStays DEF IInv
<1>6. QED  BY <1>3, <1>4, <1>5 DEF smts_start_preview

\* A viewer's own callbacks keep it so.
LEMMA ServingByClient ==
    ASSUME OneChannel, IInv, Serving, NEW c \in Clients, ClientNext(c)
    PROVE  Serving'
<1> DEFINE Shrinks ==
        /\ UNCHANGED <<dvr, sstatus, manager>>
        /\ \A s \in Sessions : clients'[s] \subseteq clients[s]
        /\ \A d \in Clients :
               \/ csession'[d] = NoSession \/ cstatus'[d] # "INIT"
               \/ csession'[d] = csession[d] /\ cstatus'[d] = cstatus[d]
<1>1. CASE client_on_connection(c)
  <2>1. Shrinks
    BY <1>1 DEF client_on_connection, sessionVars, dvrVars, managerVars, IInv, Types
  <2>2. QED  BY <2>1, ServingStays DEF IInv
<1>2. ASSUME NEW k \in Keys, smts_start_preview(c, k) PROVE Serving'
  BY <1>2, ServingByStart
<1>3. CASE on_smts_client_send_preview_res_cb_slient(c)
  <2>1. Shrinks
    BY <1>3
    DEF on_smts_client_send_preview_res_cb_slient, sessionVars, dvrVars, managerVars, IInv, Types
  <2>2. QED  BY <2>1, ServingStays DEF IInv
<1>4. CASE socket_close_cb(c)
  <2>1. Shrinks  BY <1>4 DEF socket_close_cb, sessionVars, dvrVars, managerVars
  <2>2. QED  BY <2>1, ServingStays DEF IInv
<1>5. CASE stop_smts_client(c) /\ UNCHANGED <<dvr, sstatus, manager>>
  <2>1. Shrinks  BY <1>5, StopOneShrinks DEF IInv
  <2>2. QED  BY <2>1, ServingStays DEF IInv
<1>6. CASE on_smts_client_send_frame_cb(c)
  <2>1. UNCHANGED <<dvr, sstatus, manager>>
    BY <1>6 DEF on_smts_client_send_frame_cb, dvrVars, managerVars
  <2>2. CASE UNCHANGED <<cstatus, csession, chandle, clients, client_size, timer>>
    <3>1. Shrinks  BY <2>1, <2>2
    <3>2. QED  BY <3>1, ServingStays DEF IInv
  <2>3. QED  BY <1>5, <1>6, <2>1, <2>2 DEF on_smts_client_send_frame_cb
<1>7. dispatch_packet_error(c) \/ on_smts_client_send_error_preview_res_cb(c) =>
        stop_smts_client(c) /\ UNCHANGED <<dvr, sstatus, manager>>
  BY DEF dispatch_packet_error, on_smts_client_send_error_preview_res_cb, dvrVars, managerVars
<1>8. QED  BY <1>1, <1>2, <1>3, <1>4, <1>5, <1>6, <1>7 DEF ClientNext

\* The list shrinks by X, the waiting clients that stay are answered or wait on.
LEMMA ServingShrinks ==
    ASSUME IInv, Served, NEW s \in Sessions, NEW X \in SUBSET clients[s],
           media_client_stop_preview(s, X), UNCHANGED manager,
           \A t \in Sessions : dvr'[t] \notin {"none", "stopped"} \/ dvr'[t] = dvr[t]
    PROVE  Served'
<1>1. \A t \in Sessions : clients'[t] \subseteq clients[t]
  BY DEF media_client_stop_preview, IInv, Types
<1>2. QED  BY <1>1 DEF Served, First

\* The callbacks of a session and its recorder keep it so.
LEMMA ServingBySession ==
    ASSUME OneChannel, IInv, Serving, NEW s \in Sessions, SessionNext(s)
    PROVE  Serving'
<1>1. CASE on_connected_to_dvr(s)
  <2>1. smem[s] = "live" /\ UNCHANGED sstatus
        /\ \A t \in Sessions \ {s} : dvr'[t] = dvr[t]
    BY <1>1, RecorderIsLive DEF on_connected_to_dvr, IInv, Types
  <2>2. CASE /\ dvr' = [dvr EXCEPT ![s] = "previewing"]
             /\ UNCHANGED <<manager, writeq, reply, cstatus, csession, chandle,
                            clients, client_size, timer>>
    BY <2>1, <2>2 DEF Serving, Served, WaitersAreAnswered, First, IInv, Types
  <2>3. CASE stop_media_session(s)
    BY <2>1, <2>3, ServingEnds DEF stop_media_session
  <2>4. CASE /\ manager' = delete_session(delete_session(manager, key, s), key, s)
             /\ AnswerAndStop(s, SessionStatusAsReply(s))
    BY <2>1, <2>4, ServingEnds
  <2>5. QED  BY <1>1, <2>2, <2>3, <2>4 DEF on_connected_to_dvr
<1>2. CASE on_smts_dvr_client_send_preview(s)
  <2>1. smem[s] = "live"
        /\ \A t \in Sessions \ {s} : dvr'[t] = dvr[t] /\ sstatus'[t] = sstatus[t]
    BY <1>2, RecorderIsLive DEF on_smts_dvr_client_send_preview, stop_media_session, IInv, Types
  <2>2. ASSUME NEW X \in SUBSET Waiting(s),
               dvr' = [dvr EXCEPT ![s] = "reading"],
               cstatus' = Mark(Mark(cstatus, Waiting(s), "PREVIEW_RES"), X, "STOP"),
               media_client_stop_preview(s, X), UNCHANGED manager
        PROVE  Serving'
    <3>1. X \in SUBSET clients[s]  BY DEF Waiting
    <3>2. \A t \in Sessions : dvr'[t] \notin {"none", "stopped"} \/ dvr'[t] = dvr[t]
      BY <2>2 DEF IInv, Types
    <3>3. Served'  BY <2>2, <3>1, <3>2, ServingShrinks DEF Serving
    <3>4. ASSUME NEW c \in Clients, csession'[c] # NoSession, cstatus'[c] = "INIT"
          PROVE  sstatus'[csession'[c]] = "INIT" /\ dvr'[csession'[c]] \in {"connecting", "previewing"}
      <4>1. c \notin X /\ c \notin Waiting(s) /\ csession'[c] = csession[c] /\ cstatus[c] = "INIT"
        BY <2>2, <3>4 DEF media_client_stop_preview, Mark, IInv, Types
      <4>2. csession[c] \in Sessions /\ c \in clients[csession[c]]
        BY <3>4, <4>1 DEF IInv, Types, ListIntegrity
      <4>3. csession[c] # s  BY <4>1, <4>2 DEF Waiting
      <4>4. QED  BY <2>1, <3>4, <4>1, <4>2, <4>3 DEF Serving, WaitersAreAnswered
    <3>5. QED  BY <3>3, <3>4 DEF Serving, WaitersAreAnswered
  <2>3. CASE manager' = delete_session(manager, key, s) /\ AnswerAndStop(s, "ok")
    BY <2>1, <2>3, ServingEnds
  <2>4. CASE stop_media_session(s)
    BY <2>1, <2>4, ServingEnds DEF stop_media_session
  <2>5. QED  BY <1>2, <2>2, <2>3, <2>4 DEF on_smts_dvr_client_send_preview
<1>3. ASSUME NEW f \in Frames, on_smts_dvr_client_recv_frame(s, f) PROVE Serving'
  <2>1. PICK X \in SUBSET Recipients(s) :
          cstatus' = Mark(cstatus, X, "STOP") /\ media_client_stop_preview(s, X)
    BY <1>3 DEF on_smts_dvr_client_recv_frame
  <2>2. UNCHANGED <<dvr, sstatus, manager>>
    BY <1>3 DEF on_smts_dvr_client_recv_frame, dvrVars, managerVars
  <2>3. X \in SUBSET clients[s]  BY DEF Recipients
  <2>4. Served'  BY <2>1, <2>2, <2>3, ServingShrinks DEF Serving
  <2>5. \A c \in Clients :
            \/ csession'[c] = NoSession \/ cstatus'[c] # "INIT"
            \/ csession'[c] = csession[c] /\ cstatus'[c] = cstatus[c]
    BY <2>1 DEF media_client_stop_preview, Mark, IInv, Types
  <2>6. QED  BY <2>2, <2>4, <2>5 DEF Serving, WaitersAreAnswered
<1>4. CASE on_dvr_client_read_error(s)
  <2>1. smem[s] = "live" /\ UNCHANGED sstatus /\ stop_media_session(s)
        /\ \A t \in Sessions \ {s} : dvr'[t] = dvr[t]
    BY <1>4, RecorderIsLive DEF on_dvr_client_read_error, IInv, Types
  <2>2. QED  BY <2>1, ServingEnds DEF stop_media_session
<1>5. CASE session_exit_cb(s)
  <2>1. UNCHANGED <<csession, cstatus, clients, sstatus, dvr>>
    BY <1>5 DEF session_exit_cb, clientVars
  <2>2. \A t \in Sessions : First(manager') = t => First(manager) = t
    <3>1. CASE client_size[s] = 0
      <4>1. smem[s] = "live" /\ manager' = delete_session(manager, key, s)
        BY <1>5, <3>1 DEF session_exit_cb, IInv, SessionInv
      <4>2. First(manager') = ListHead  BY <4>1, TableDeletes DEF IInv
      <4>3. QED  BY <4>2, SessionsAssumption
    <3>2. CASE client_size[s] # 0  BY <1>5, <3>2 DEF session_exit_cb
    <3>3. QED  BY <3>1, <3>2
  <2>3. QED  BY <2>1, <2>2, ServingStays DEF IInv
<1>6. CASE on_dvr_client_close_cb(s)
  <2>1. UNCHANGED <<csession, cstatus, clients, sstatus, dvr, manager>>
    BY <1>6 DEF on_dvr_client_close_cb, clientVars, dvrVars, managerVars
  <2>2. QED  BY <2>1, ServingStays DEF IInv
<1>7. QED  BY <1>1, <1>2, <1>3, <1>4, <1>5, <1>6 DEF SessionNext

\* Sessions with viewers and registered ones have a recorder's connection, and
\* whoever waits is still to be answered (stop_media_session, delete_session).
THEOREM ServingKept == ASSUME OneChannel PROVE Spec => []Serving
<1>1. Init => Serving
  <2>1. ASSUME Init PROVE First(manager) = ListHead
    BY <2>1 DEF Init, init_session_manager, SelfLinked, First, Nodes
  <2>2. QED  BY <2>1, SessionsAssumption DEF Init, Serving, Served, WaitersAreAnswered
<1>2. IInv /\ Serving /\ [Next]_vars => Serving'
  <2> SUFFICES ASSUME IInv, Serving, [Next]_vars PROVE Serving'  OBVIOUS
  <2>1. CASE UNCHANGED vars
    BY <2>1
    DEF vars, clientVars, sessionVars, dvrVars, managerVars, Serving, Served,
        WaitersAreAnswered, First
  <2>2. QED  BY <2>1, ServingByClient, ServingBySession DEF Next
<1>3. QED  BY <1>1, <1>2, Invariant, PTL DEF Spec

\* Whoever joins before the recorder is read is in the list when its loop runs
\* (media_client_start_preview, on_smts_dvr_client_send_preview).
THEOREM WaitersAnswered == ASSUME OneChannel PROVE Spec => []WaitersAreAnswered
<1>1. Serving => WaitersAreAnswered  BY DEF Serving
<1>2. QED  BY <1>1, ServingKept, PTL

-----------------------------------------------------------------------------
(* Media implements Viewer.                                                *)

\* How many frames there are in a queue of a conversation.
LEMMA FramesInQueues ==
    /\ FramesIn(<<>>) = 0 /\ FramesIn(<<"res">>) = 0 /\ FramesIn(<<"err">>) = 0
    /\ \A q \in Seq(Frames) : FramesIn(q) = Len(q)
<1>1. \A q \in {<<>>, <<"res">>, <<"err">>} : {i \in DOMAIN q : q[i] \in Frames} = {}
  BY MediaAssumption
<1>2. \A q \in {<<>>, <<"res">>, <<"err">>} : FramesIn(q) = 0
  BY <1>1, FS_EmptySet DEF FramesIn
<1>3. ASSUME NEW q \in Seq(Frames) PROVE FramesIn(q) = Len(q)
  <2>1. {i \in DOMAIN q : q[i] \in Frames} = 1..Len(q)  OBVIOUS
  <2>2. Cardinality(1..Len(q)) = Len(q)
    <3>1. Len(q) \in Nat  OBVIOUS
    <3>2. Cardinality(1..Len(q)) = IF 1 > Len(q) THEN 0 ELSE Len(q) - 1 + 1
      BY <3>1, FS_Interval
    <3>3. QED  BY <3>1, <3>2
  <2>3. QED  BY <2>1, <2>2 DEF FramesIn
<1>4. QED  BY <1>2, <1>3

\* Where a viewer is, and how much is being sent to it, by its conversation.
LEMMA PhaseFacts ==
    ASSUME IInv, NEW c \in Clients, Conversation(c)
    PROVE  /\ FramesIn(writeq[c]) \in Nat
           /\ chandle[c] = "free" => PhaseOf(c) = "away" /\ FramesIn(writeq[c]) = 0
           /\ chandle[c] = "closing" => PhaseOf(c) = "leaving"
           /\ chandle[c] = "open" =>
                /\ PhaseOf(c) \in {"connected", "asked", "answered", "watching", "refused"}
                /\ PhaseOf(c) = "connected" <=> reply[c] = "none" /\ csession[c] = NoSession
                /\ PhaseOf(c) = "asked" <=> reply[c] = "none" /\ csession[c] # NoSession
                /\ PhaseOf(c) = "answered" <=> reply[c] = "ok" /\ cstatus[c] # "FRAMES"
                /\ PhaseOf(c) = "watching" <=> reply[c] = "ok" /\ cstatus[c] = "FRAMES"
                /\ PhaseOf(c) = "refused" <=> reply[c] = "error"
           /\ writeq[c] = <<>> => FramesIn(writeq[c]) = 0
<1>1. chandle[c] \in {"free", "open", "closing"} /\ reply[c] \in {"none", "ok", "error"}
  BY DEF IInv, Types
<1>2. FramesIn(writeq[c]) \in Nat
  <2>1. writeq[c] \in Seq(Frames) \/ writeq[c] \in {<<>>, <<"res">>, <<"err">>}
    BY <1>1 DEF Conversation
  <2>2. writeq[c] \in Seq(Frames) => Len(writeq[c]) \in Nat  OBVIOUS
  <2>3. QED  BY <2>1, <2>2, FramesInQueues
<1>3. writeq[c] = <<>> => FramesIn(writeq[c]) = 0  BY FramesInQueues
<1>4. QED  BY <1>1, <1>2, <1>3 DEF PhaseOf, Conversation

\* A move of a connection is a move of the viewer, or none.
LEMMA ViewerSees ==
    ASSUME IInv, IInv', NEW c \in Clients, Conversation(c), Conversation(c)', ViewerMove(c),
           NEW p, NEW p1, NEW n, NEW n1,
           p = PhaseOf(c), p1 = PhaseOf(c)', n = FramesIn(writeq[c]), n1 = FramesIn(writeq[c])'
    PROVE  \/ p = p1 /\ n = n1
           \/ p = "away" /\ p1 \in {"connected", "leaving"} /\ n = n1
           \/ p = "connected" /\ p1 \in {"asked", "answered", "refused"} /\ n = n1
           \/ p = "asked" /\ p1 = "answered" /\ n = n1
           \/ p = "answered" /\ p1 = "watching" /\ n = n1
           \/ p = "watching" /\ p1 = "watching" /\ n1 = n + 1
           \/ n > 0 /\ n1 = n - 1 /\ (p1 = p \/ (p = "watching" /\ p1 = "leaving"))
           \/ /\ p \in {"connected", "asked", "answered", "watching", "refused"}
              /\ p1 = "leaving" /\ n = n1
           \/ n = 0 /\ p = "leaving" /\ p1 = "away" /\ n = n1
<1>1. chandle[c] \in {"free", "open", "closing"}  BY DEF IInv, Types
<1>2. CASE Still(c)  BY <1>2 DEF Still, SamePlace, SameLine, PhaseOf, FramesIn
<1>3. CASE Accepted(c)
  <2>1. p = "away" /\ n1 = n  BY <1>3, PhaseFacts DEF Accepted
  <2>2. p1 \in {"connected", "leaving"}  BY <1>3 DEF Accepted, PhaseOf
  <2>3. QED  BY <2>1, <2>2
<1>4. CASE Asks(c)
  <2>1. reply[c] = "none" /\ writeq[c] = <<>>  BY <1>4 DEF Asks, Fresh, Conversation
  <2>2. p = "connected"  BY <1>4, <2>1 DEF Asks, Fresh, PhaseOf
  <2>3. p1 \in {"asked", "answered"}
    BY <1>4, <2>1 DEF Asks, Told, SameLine, PhaseOf
  <2>4. writeq'[c] \in {<<>>, <<"res">>}
    <3>1. Append(writeq[c], "res") = <<"res">>  BY <2>1
    <3>2. QED  BY <1>4, <2>1, <3>1 DEF Asks, Told, SameLine
  <2>5. n = 0 /\ n1 = 0  BY <2>1, <2>4, FramesInQueues DEF FramesIn
  <2>6. QED  BY <2>2, <2>3, <2>5
<1>5. CASE Refused(c)
  <2>1. reply[c] = "none" /\ writeq[c] = <<>>  BY <1>5 DEF Refused, Fresh, Conversation
  <2>2. p = "connected" /\ p1 = "refused"
    BY <1>5, <2>1 DEF Refused, Fresh, Told, SamePlace, PhaseOf
  <2>3. writeq'[c] = <<"err">>  BY <1>5, <2>1 DEF Refused, Told
  <2>4. n = 0 /\ n1 = 0  BY <2>1, <2>3, FramesInQueues DEF FramesIn
  <2>5. QED  BY <2>2, <2>4
<1>6. CASE IsAnswered(c)
  <2>1. reply[c] = "none" /\ writeq[c] = <<>>  BY <1>6 DEF IsAnswered, Conversation
  <2>2. p = "asked" /\ p1 = "answered"
    BY <1>6, <2>1 DEF IsAnswered, Told, PhaseOf
  <2>3. writeq'[c] = <<"res">>  BY <1>6, <2>1 DEF IsAnswered, Told
  <2>4. n = 0 /\ n1 = 0  BY <2>1, <2>3, FramesInQueues DEF FramesIn
  <2>5. QED  BY <2>2, <2>4
<1>7. CASE FrameGoes(c)
  <2>1. writeq[c] \in Seq(Frames) /\ reply[c] = "ok"  BY <1>7 DEF FrameGoes, Conversation
  <2>2. p = "watching" /\ p1 = "watching"
    BY <1>7, <2>1 DEF FrameGoes, SamePlace, PhaseOf
  <2>3. writeq'[c] \in Seq(Frames) /\ Len(writeq'[c]) = Len(writeq[c]) + 1
    BY <1>7, <2>1 DEF FrameGoes
  <2>4. n1 = n + 1
    <3>1. n = Len(writeq[c]) /\ FramesIn(writeq'[c]) = Len(writeq'[c])
      BY <2>1, <2>3, FramesInQueues
    <3>2. QED  BY <2>3, <3>1 DEF FramesIn
  <2>5. QED  BY <2>2, <2>4
<1>8. CASE Stops(c)
  <2>1. chandle[c] = "open" /\ p1 = "leaving"  BY <1>8 DEF Stops, Closes, PhaseOf
  <2>2. p \in {"connected", "asked", "answered", "watching", "refused"}
    BY <2>1, PhaseFacts
  <2>3. n1 = n
    <3>1. CASE SameLine(c)  BY <3>1 DEF SameLine, FramesIn
    <3>2. CASE cstatus[c] = "INIT" /\ csession[c] # NoSession /\ writeq'[c] = Append(writeq[c], "res")
      <4>1. writeq[c] = <<>>  BY <2>1, <3>2 DEF Conversation
      <4>2. writeq'[c] = <<"res">>  BY <3>2, <4>1
      <4>3. QED  BY <4>1, <4>2, FramesInQueues DEF FramesIn
    <3>3. QED  BY <1>8, <3>1, <3>2 DEF Stops, Told
  <2>4. QED  BY <2>1, <2>2, <2>3
<1>9. CASE ResponseSent(c)
  <2>1. writeq[c] = <<"res">>
    BY <1>1, <1>9, MediaAssumption DEF ResponseSent, CalledBack, Conversation
  <2>2. writeq'[c] = <<>>  BY <1>9, <2>1 DEF ResponseSent, CalledBack
  <2>3. n = 0 /\ n1 = 0  BY <2>1, <2>2, FramesInQueues DEF FramesIn
  <2>4. CASE chandle[c] = "open"
    <3>1. cstatus[c] = "PREVIEW_RES" /\ reply[c] = "ok"
      BY <2>1, <2>4, MediaAssumption DEF Conversation
    <3>2. p = "answered" /\ p1 = "watching"
      BY <1>9, <2>4, <3>1 DEF ResponseSent, CalledBack, PhaseOf
    <3>3. QED  BY <2>3, <3>2
  <2>5. CASE chandle[c] # "open"
    <3>1. p1 = p  BY <1>1, <1>9, <2>5 DEF ResponseSent, PhaseOf
    <3>2. QED  BY <2>3, <3>1
  <2>6. QED  BY <2>4, <2>5
<1>10. CASE RefusalSent(c)
  <2>1. writeq[c] = <<"err">> /\ reply[c] = "error"
    BY <1>1, <1>10, MediaAssumption DEF RefusalSent, CalledBack, Conversation
  <2>2. writeq'[c] = <<>>  BY <1>10, <2>1 DEF RefusalSent, CalledBack
  <2>3. n = 0 /\ n1 = 0  BY <2>1, <2>2, FramesInQueues DEF FramesIn
  <2>4. CASE Closes(c)
    <3>1. p = "refused" /\ p1 = "leaving"  BY <2>1, <2>4 DEF Closes, PhaseOf
    <3>2. QED  BY <2>3, <3>1
  <2>5. CASE SamePlace(c)
    <3>1. p1 = p  BY <1>10, <2>5 DEF RefusalSent, CalledBack, SamePlace, PhaseOf
    <3>2. QED  BY <2>3, <3>1
  <2>6. QED  BY <1>10, <2>4, <2>5 DEF RefusalSent
<1>11. CASE FrameCame(c)
  <2>1. writeq[c] # <<>> /\ writeq[c] \in Seq(Frames) /\ reply[c] = "ok"
    BY <1>1, <1>11, MediaAssumption DEF FrameCame, CalledBack, Conversation
  <2>2. writeq'[c] \in Seq(Frames) /\ Len(writeq'[c]) = Len(writeq[c]) - 1 /\ Len(writeq[c]) > 0
    BY <1>11, <2>1 DEF FrameCame, CalledBack
  <2>3. n > 0 /\ n1 = n - 1
    <3>1. n = Len(writeq[c]) /\ FramesIn(writeq'[c]) = Len(writeq'[c])
      BY <2>1, <2>2, FramesInQueues
    <3>2. QED  BY <2>2, <3>1 DEF FramesIn
  <2>4. p1 = p \/ (p = "watching" /\ p1 = "leaving")
    <3>1. CASE Closes(c)
      <4>1. cstatus[c] = "FRAMES"
        BY <2>1, <3>1, MediaAssumption DEF Closes, Conversation
      <4>2. QED  BY <2>1, <3>1, <4>1 DEF Closes, PhaseOf
    <3>2. CASE SamePlace(c)  BY <1>11, <3>2 DEF FrameCame, CalledBack, SamePlace, PhaseOf
    <3>3. QED  BY <1>11, <3>1, <3>2 DEF FrameCame
  <2>5. QED  BY <2>3, <2>4
<1>12. CASE Freed(c)
  <2>1. p = "leaving" /\ p1 = "away"  BY <1>12 DEF Freed, PhaseOf
  <2>2. n = 0 /\ n1 = 0  BY <1>12, FramesInQueues DEF Freed, FramesIn
  <2>3. QED  BY <2>1, <2>2
<1>13. QED
  BY <1>2, <1>3, <1>4, <1>5, <1>6, <1>7, <1>8, <1>9, <1>10, <1>11, <1>12 DEF ViewerMove

\* A step of Media is a step of module Viewer.
LEMMA ViewerStep ==
    ASSUME OneChannel, IInv, IInv', Conversations, Conversations', [Next]_vars
    PROVE  Seen!Next
<1> DEFINE phase == [c \in Clients |-> PhaseOf(c)]
           sending == [c \in Clients |-> FramesIn(writeq[c])]
           Somewhere == {"connected", "asked", "answered", "watching", "refused", "away", "leaving"}
<1>1. \A c \in Clients : PhaseOf(c)' \in Somewhere /\ FramesIn(writeq[c])' \in Nat
  <2> SUFFICES ASSUME NEW c \in Clients
      PROVE  PhaseOf(c)' \in Somewhere /\ FramesIn(writeq[c])' \in Nat
    OBVIOUS
  <2>1. PhaseOf(c)' \in Somewhere  BY DEF PhaseOf
  <2>2. chandle'[c] \in {"free", "open", "closing"}  BY DEF IInv, Types
  <2>3. writeq'[c] \in Seq(Frames) \/ writeq'[c] \in {<<>>, <<"res">>, <<"err">>}
    BY <2>2 DEF Conversations, Conversation
  <2>4. writeq'[c] \in Seq(Frames) => Len(writeq'[c]) \in Nat  OBVIOUS
  <2>5. FramesIn(writeq'[c]) \in Nat  BY <2>3, <2>4, FramesInQueues
  <2>6. QED  BY <2>1, <2>5 DEF FramesIn
<1>2. \A c \in Clients :
        \/ Seen!Connect(c) \/ Seen!Ask(c) \/ Seen!Answer(c) \/ Seen!AnswerSent(c)
        \/ Seen!SendFrame(c) \/ Seen!FrameSent(c)
        \/ Seen!Leave(c) \/ Seen!Gone(c) \/ Seen!Stay(c)
  <2> SUFFICES ASSUME NEW c \in Clients
      PROVE  \/ Seen!Connect(c) \/ Seen!Ask(c) \/ Seen!Answer(c) \/ Seen!AnswerSent(c)
             \/ Seen!SendFrame(c) \/ Seen!FrameSent(c)
             \/ Seen!Leave(c) \/ Seen!Gone(c) \/ Seen!Stay(c)
    OBVIOUS
  <2> DEFINE p == PhaseOf(c)
             n == FramesIn(writeq[c])
  <2>1. ViewerMove(c)  BY StepMoves
  <2>2. Conversation(c) /\ Conversation(c)'  BY DEF Conversations
  <2>3. \/ p = p' /\ n = n'
        \/ p = "away" /\ p' \in {"connected", "leaving"} /\ n = n'
        \/ p = "connected" /\ p' \in {"asked", "answered", "refused"} /\ n = n'
        \/ p = "asked" /\ p' = "answered" /\ n = n'
        \/ p = "answered" /\ p' = "watching" /\ n = n'
        \/ p = "watching" /\ p' = "watching" /\ n' = n + 1
        \/ n > 0 /\ n' = n - 1 /\ (p' = p \/ (p = "watching" /\ p' = "leaving"))
        \/ /\ p \in {"connected", "asked", "answered", "watching", "refused"}
           /\ p' = "leaving" /\ n = n'
        \/ n = 0 /\ p = "leaving" /\ p' = "away" /\ n = n'
    BY <2>1, <2>2, ViewerSees
  <2>4. /\ phase[c] = p /\ phase'[c] = p'
        /\ sending[c] = n /\ sending'[c] = n'
    OBVIOUS
  <2> HIDE DEF p, n, phase, sending
  <2>5. QED
    BY <2>3, <2>4
    DEF phase, sending, Seen!Connect, Seen!Ask, Seen!Answer, Seen!AnswerSent, Seen!SendFrame,
        Seen!FrameSent, Seen!Leave, Seen!Gone, Seen!Stay, Seen!Moves, Seen!Here
<1>3. QED  BY <1>1, <1>2 DEF Seen!Next, Seen!Here

\* However many viewers a callback answers, serves, refuses or stops, each of
\* them goes through the protocol of module Viewer (smts_client_impl.c,
\* smts_session.c), for any number of viewers, sessions and frames.
THEOREM ViewerImplemented == ASSUME OneChannel PROVE Spec => ImplementsViewer
<1>1. Init => Seen!Init
  <2> SUFFICES ASSUME Init PROVE Seen!Init  OBVIOUS
  <2>1. \A c \in Clients : PhaseOf(c) = "away" /\ FramesIn(writeq[c]) = 0
    BY FramesInQueues DEF Init, PhaseOf
  <2>2. QED  BY <2>1 DEF Seen!Init
<1>2. IInv /\ IInv' /\ Conversations /\ Conversations' /\ [Next]_vars => Seen!Next
  BY ViewerStep
<1>3. QED
  BY <1>1, <1>2, Invariant, ConversationsKept, PTL DEF Spec, ImplementsViewer, Seen!Spec
=============================================================================
