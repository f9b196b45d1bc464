---------------------------- MODULE Frames_proofs ----------------------------
(***************************************************************************)
(* Proof that module Media counts the references to a frame, for any       *)
(* number of connections, sessions and frames.                             *)
(***************************************************************************)
EXTENDS Media_proofs

Holds(q, f) == \E i \in 1..Len(q) : q[i] = f

\* Nothing of F is twice in a queue.
Distinct(F, q) == \A i, j \in 1..Len(q) : q[i] \in F /\ q[i] = q[j] => i = j

\* The connections whose queue w[c] holds a frame.
InFlight(w, f) == {c \in Clients : Holds(w[c], f)}

FramesInv == FrameReferences /\ \A c \in Clients : Distinct(Frames, writeq[c])

-----------------------------------------------------------------------------
(* Queues of messages M, some of them in F.                                *)

\* A queue that is one message longer.
LEMMA Appended ==
    ASSUME NEW M, NEW F \in SUBSET M, NEW q \in Seq(M), NEW m \in M
    PROVE  /\ \A f \in F : Holds(Append(q, m), f) <=> Holds(q, f) \/ m = f
           /\ Distinct(F, q) /\ (m \in F => ~Holds(q, m)) => Distinct(F, Append(q, m))
<1> DEFINE r == Append(q, m)
<1>1. /\ Len(q) \in Nat /\ Len(r) = Len(q) + 1 /\ r[Len(q) + 1] = m
      /\ \A i \in 1..Len(q) : r[i] = q[i]
  OBVIOUS
<1>2. \A i \in 1..Len(r) : i \in 1..Len(q) \/ i = Len(q) + 1  BY <1>1
<1>3. Len(q) + 1 \in 1..Len(r) /\ \A i \in 1..Len(q) : i \in 1..Len(r)  BY <1>1
<1> HIDE DEF r
<1>4. \A f \in F : Holds(r, f) <=> Holds(q, f) \/ m = f
  BY <1>1, <1>2, <1>3 DEF Holds
<1>5. ASSUME Distinct(F, q), m \in F => ~Holds(q, m) PROVE Distinct(F, r)
  <2> SUFFICES ASSUME NEW i \in 1..Len(r), NEW j \in 1..Len(r), r[i] \in F, r[i] = r[j]
      PROVE  i = j
    BY DEF Distinct
  <2>1. CASE i \in 1..Len(q) /\ j \in 1..Len(q)  BY <1>1, <1>5, <2>1 DEF Distinct
  <2>2. CASE i \in 1..Len(q) /\ j = Len(q) + 1  BY <1>1, <1>5, <2>2 DEF Holds
  <2>3. CASE i = Len(q) + 1 /\ j \in 1..Len(q)  BY <1>1, <1>5, <2>3 DEF Holds
  <2>4. CASE i = Len(q) + 1 /\ j = Len(q) + 1  BY <2>4
  <2>5. QED  BY <1>2, <2>1, <2>2, <2>3, <2>4
<1>6. QED  BY <1>4, <1>5 DEF r

\* A queue that is one message shorter.
LEMMA Removed ==
    ASSUME NEW M, NEW F \in SUBSET M, NEW q \in Seq(M), q # <<>>, Distinct(F, q)
    PROVE  /\ \A f \in F : Holds(Tail(q), f) <=> Holds(q, f) /\ f # Head(q)
           /\ Distinct(F, Tail(q))
<1> DEFINE r == Tail(q)
<1>1. /\ Len(q) \in Nat \ {0} /\ Len(r) = Len(q) - 1 /\ q[1] = Head(q)
      /\ \A i \in 1..Len(r) : r[i] = q[i + 1]
  OBVIOUS
<1>2. /\ \A i \in 1..Len(r) : i \in Int /\ i + 1 \in 1..Len(q) /\ i + 1 # 1
      /\ \A i \in 1..Len(q) : i = 1 \/ (i - 1 \in 1..Len(r) /\ (i - 1) + 1 = i)
      /\ 1 \in 1..Len(q)
  BY <1>1
<1> HIDE DEF r
<1>3. ASSUME NEW f \in F PROVE Holds(r, f) <=> Holds(q, f) /\ f # Head(q)
  <2>1. ASSUME Holds(r, f) PROVE Holds(q, f) /\ f # Head(q)
    <3>1. PICK i \in 1..Len(r) : r[i] = f  BY <2>1 DEF Holds
    <3>2. q[i + 1] = f /\ i + 1 \in 1..Len(q) /\ i + 1 # 1  BY <1>1, <1>2, <3>1
    <3>3. QED  BY <1>1, <1>2, <3>2 DEF Holds, Distinct
  <2>2. ASSUME Holds(q, f), f # Head(q) PROVE Holds(r, f)
    <3>1. PICK i \in 1..Len(q) : q[i] = f  BY <2>2 DEF Holds
    <3>2. i - 1 \in 1..Len(r) /\ (i - 1) + 1 = i  BY <1>1, <1>2, <2>2, <3>1
    <3>3. r[i - 1] = f  BY <1>1, <3>1, <3>2
    <3>4. QED  BY <3>2, <3>3 DEF Holds
  <2>3. QED  BY <2>1, <2>2
<1>4. Distinct(F, r)
  <2> SUFFICES ASSUME NEW i \in 1..Len(r), NEW j \in 1..Len(r), r[i] \in F, r[i] = r[j]
      PROVE  i = j
    BY DEF Distinct
  <2>1. q[i + 1] \in F /\ q[i + 1] = q[j + 1]  BY <1>1
  <2>2. i + 1 = j + 1  BY <1>2, <2>1 DEF Distinct
  <2>3. QED  BY <1>2, <2>2
<1>5. QED  BY <1>3, <1>4 DEF r

\* The same of the queue of a connection.
LEMMA MessageAppended ==
    ASSUME NEW q \in Seq(Messages), NEW m \in Messages
    PROVE  /\ \A f \in Frames : Holds(Append(q, m), f) <=> Holds(q, f) \/ m = f
           /\ Distinct(Frames, q) /\ (m \in Frames => ~Holds(q, m)) =>
                Distinct(Frames, Append(q, m))
<1>1. Frames \in SUBSET Messages  BY DEF Messages
<1>2. QED  BY <1>1, Appended

\* What the callback of a write takes from a queue.
LEMMA MessageRemoved ==
    ASSUME NEW q \in Seq(Messages), q # <<>>, Distinct(Frames, q)
    PROVE  /\ \A f \in Frames : Holds(Tail(q), f) <=> Holds(q, f) /\ f # Head(q)
           /\ Distinct(Frames, Tail(q))
<1>1. Frames \in SUBSET Messages  BY DEF Messages
<1>2. QED  BY <1>1, Removed

-----------------------------------------------------------------------------
(* Steps that neither send a frame nor give one back.                      *)

NoFrameMoves(c) ==
    \/ writeq'[c] = writeq[c]
    \/ \E m \in {"res", "err"} : writeq'[c] = Append(writeq[c], m)
    \/ /\ writeq[c] # <<>> /\ Head(writeq[c]) \notin Frames
       /\ writeq'[c] = Tail(writeq[c])

\* What neither writes a frame nor calls one back keeps the counts.
LEMMA FramesStay ==
    ASSUME Types, FramesInv, UNCHANGED frameVars, \A c \in Clients : NoFrameMoves(c)
    PROVE  FramesInv'
<1>1. ASSUME NEW c \in Clients
      PROVE  /\ \A f \in Frames : Holds(writeq'[c], f) <=> Holds(writeq[c], f)
             /\ Distinct(Frames, writeq'[c])
  <2>1. writeq[c] \in Seq(Messages) /\ Distinct(Frames, writeq[c])
    BY DEF Types, FramesInv
  <2>2. CASE writeq'[c] = writeq[c]  BY <2>1, <2>2
  <2>3. ASSUME NEW m \in {"res", "err"}, writeq'[c] = Append(writeq[c], m)
        PROVE  /\ \A f \in Frames : Holds(writeq'[c], f) <=> Holds(writeq[c], f)
               /\ Distinct(Frames, writeq'[c])
    <3>1. m \in Messages /\ m \notin Frames  BY MediaAssumption DEF Messages
    <3>2. QED  BY <2>1, <2>3, <3>1, MessageAppended
  <2>4. CASE /\ writeq[c] # <<>> /\ Head(writeq[c]) \notin Frames
             /\ writeq'[c] = Tail(writeq[c])
    BY <2>1, <2>4, MessageRemoved
  <2>5. QED  BY <2>2, <2>3, <2>4 DEF NoFrameMoves
<1>2. \A f \in Frames : Pending(f)' = Pending(f)  BY <1>1 DEF Pending, Holds
<1>3. \A c \in Clients : Distinct(Frames, writeq[c])'  BY <1>1 DEF Distinct
<1>4. QED  BY <1>2, <1>3 DEF FramesInv, FrameReferences, frameVars

\* The messages of MediaAssumption are told apart.
LEMMA ResponsesAreNoFrames ==
    ASSUME Types, NEW W \in SUBSET Clients, NEW status, SendPreviewRes(W, status)
    PROVE  \A c \in Clients : NoFrameMoves(c)
BY DEF SendPreviewRes, NoFrameMoves, Types

\* An answer to the waiting viewers writes no frame.
LEMMA AnswersAreNoFrames ==
    ASSUME Types, NEW s \in Sessions, NEW status, AnswerAndStop(s, status)
    PROVE  \A c \in Clients : NoFrameMoves(c)
<1>1. PICK W \in SUBSET Waiting(s) : SendPreviewRes(W, status)  BY DEF AnswerAndStop
<1>2. W \in SUBSET Clients  BY DEF Waiting, Types
<1>3. QED  BY <1>1, <1>2, ResponsesAreNoFrames

\* The callbacks of a viewer that do not call a frame back.
LEMMA FramesByClient ==
    ASSUME Types, FramesInv, NEW c \in Clients, ClientNext(c),
           ~on_smts_client_send_frame_cb(c)
    PROVE  FramesInv'
<1> USE DEF NoFrameMoves
<1> DEFINE Quiet == UNCHANGED frameVars /\ \A d \in Clients : NoFrameMoves(d)
<1>1. client_on_connection(c) \/ dispatch_packet_error(c) \/ socket_close_cb(c) => Quiet
  BY DEF client_on_connection, dispatch_packet_error, socket_close_cb
<1>2. ASSUME NEW k \in Keys, smts_start_preview(c, k) PROVE Quiet
  <2>1. ASSUME NEW s \in Sessions, JoinSession(c, s) PROVE Quiet
    <3>1. UNCHANGED writeq \/ SendPreviewRes({c}, "ok")
      BY <2>1 DEF JoinSession, AnswerJoined
    <3>2. \A d \in Clients : NoFrameMoves(d)  BY <3>1, ResponsesAreNoFrames
    <3>3. QED  BY <2>1, <3>2 DEF JoinSession
  <2>2. ASSUME NEW s \in Sessions, CreateSession(c, s, k) PROVE Quiet
    BY <2>2 DEF CreateSession
  <2>3. ASSUME NEW s \in Sessions, FailToCreateSession(c, s, k) PROVE Quiet
    <3>1. writeq' = [writeq EXCEPT ![c] = Append(@, "err")] \/ UNCHANGED writeq
      BY <2>3 DEF FailToCreateSession
    <3>2. \A d \in Clients : NoFrameMoves(d)  BY <3>1 DEF Types
    <3>3. QED  BY <2>3, <3>2 DEF FailToCreateSession
  <2>4. QED  BY <1>2, <2>1, <2>2, <2>3 DEF smts_start_preview
<1>3. ASSUME on_smts_client_send_preview_res_cb_slient(c) PROVE Quiet
  BY <1>3, MediaAssumption DEF on_smts_client_send_preview_res_cb_slient, Types
<1>4. ASSUME on_smts_client_send_error_preview_res_cb(c) PROVE Quiet
  BY <1>4, MediaAssumption DEF on_smts_client_send_error_preview_res_cb, Types
<1>5. Quiet  BY <1>1, <1>2, <1>3, <1>4 DEF ClientNext
<1>6. QED  BY <1>5, FramesStay

\* The callbacks of a session that do not hand a frame out.
LEMMA FramesBySession ==
    ASSUME Types, FramesInv, NEW s \in Sessions, SessionNext(s),
           \A f \in Frames : ~on_smts_dvr_client_recv_frame(s, f)
    PROVE  FramesInv'
<1> DEFINE Quiet == UNCHANGED frameVars /\ \A d \in Clients : NoFrameMoves(d)
<1>1. ASSUME on_connected_to_dvr(s) PROVE Quiet
  <2>1. UNCHANGED frameVars
        /\ (UNCHANGED writeq \/ AnswerAndStop(s, SessionStatusAsReply(s)))
    BY <1>1 DEF on_connected_to_dvr, stop_media_session
  <2>2. QED  BY <2>1, AnswersAreNoFrames DEF NoFrameMoves
<1>2. ASSUME on_smts_dvr_client_send_preview(s) PROVE Quiet
  <2>1. UNCHANGED frameVars
        /\ \/ AnswerAndStop(s, SessionStatusAsReply(s)) \/ AnswerAndStop(s, "ok")
           \/ \E X \in SUBSET Waiting(s) : SendPreviewRes(Waiting(s) \ X, "ok")
    BY <1>2 DEF on_smts_dvr_client_send_preview, stop_media_session
  <2>2. \A X \in SUBSET Waiting(s) : (Waiting(s) \ X) \in SUBSET Clients
    BY DEF Waiting, Types
  <2>3. QED  BY <2>1, <2>2, AnswersAreNoFrames, ResponsesAreNoFrames
<1>3. ASSUME on_dvr_client_read_error(s) PROVE Quiet
  <2>1. UNCHANGED frameVars /\ AnswerAndStop(s, SessionStatusAsReply(s))
    BY <1>3 DEF on_dvr_client_read_error, stop_media_session
  <2>2. QED  BY <2>1, AnswersAreNoFrames
<1>4. session_exit_cb(s) \/ on_dvr_client_close_cb(s) => Quiet
  BY DEF session_exit_cb, on_dvr_client_close_cb, clientVars, NoFrameMoves
<1>5. Quiet  BY <1>1, <1>2, <1>3, <1>4 DEF SessionNext
<1>6. QED  BY <1>5, FramesStay

-----------------------------------------------------------------------------
(* A frame is sent, a frame is given back.                                 *)

\* on_smts_dvr_client_recv_frame: one reference for each accepted write.
LEMMA FramesSent ==
    ASSUME IInv, FramesInv, NEW s \in Sessions, NEW f \in Frames,
           on_smts_dvr_client_recv_frame(s, f)
    PROVE  FramesInv'
<1>1. fmem[f] = "free" /\ Pending(f) = {}
  BY DEF on_smts_dvr_client_recv_frame, FramesInv, FrameReferences
<1>2. PICK X \in SUBSET Recipients(s) :
        LET sent == Recipients(s) \ X
        IN  /\ writeq' = [c \in Clients |-> IF c \in sent THEN Append(writeq[c], f)
                                                        ELSE writeq[c]]
            /\ fref' = [fref EXCEPT ![f] = frame_ref(s, sent)]
            /\ fmem' = [fmem EXCEPT ![f] = IF frame_ref(s, sent) = 0
                                           THEN "free" ELSE "live"]
  BY DEF on_smts_dvr_client_recv_frame
<1> DEFINE sent == Recipients(s) \ X
<1>3. sent \subseteq clients[s] /\ clients[s] \subseteq Clients
  BY DEF Recipients, IInv, Types
<1>4. frame_ref(s, sent) = Cardinality(sent) /\ Cardinality(sent) \in Nat
      /\ (Cardinality(sent) = 0 <=> sent = {})
  <2>1. client_size[s] = Cardinality(clients[s])  BY DEF IInv, ListIntegrity
  <2>2. IsFiniteSet(clients[s]) /\ IsFiniteSet(sent) /\ Cardinality(sent) \in Nat
        /\ Cardinality(clients[s]) \in Nat
    BY <1>3, ClientSets
  <2>3. clients[s] \cap sent = sent  BY <1>3
  <2>4. Cardinality(clients[s] \ sent) = Cardinality(clients[s]) - Cardinality(sent)
    BY <2>2, <2>3, FS_Difference
  <2>5. frame_ref(s, sent) = Cardinality(sent)  BY <2>1, <2>2, <2>4 DEF frame_ref
  <2>6. QED  BY <2>2, <2>5, FS_EmptySet
<1>5. \A c \in Clients :
        writeq'[c] = IF c \in sent THEN Append(writeq[c], f) ELSE writeq[c]
  BY <1>2
<1>6. \A c \in Clients : ~Holds(writeq[c], f)  BY <1>1 DEF Pending, Holds
<1>7. /\ \A c \in Clients : writeq[c] \in Seq(Messages) /\ Distinct(Frames, writeq[c])
      /\ f \in Messages
  BY DEF IInv, Types, FramesInv, Messages
<1>8. ASSUME NEW c \in Clients
      PROVE  /\ Distinct(Frames, writeq'[c])
             /\ Holds(writeq'[c], f) <=> c \in sent
             /\ \A g \in Frames \ {f} : Holds(writeq'[c], g) <=> Holds(writeq[c], g)
  BY <1>5, <1>6, <1>7, MessageAppended
<1>9. Pending(f)' = sent
  <2>1. Pending(f)' = {c \in Clients : Holds(writeq'[c], f)}  BY DEF Pending, Holds
  <2>2. QED  BY <1>3, <1>8, <2>1
<1>10. \A g \in Frames \ {f} : Pending(g)' = Pending(g)
  <2>1. \A g \in Frames : /\ Pending(g)' = {c \in Clients : Holds(writeq'[c], g)}
                          /\ Pending(g) = {c \in Clients : Holds(writeq[c], g)}
    BY DEF Pending, Holds
  <2>2. QED  BY <1>8, <2>1
<1>11. /\ fref'[f] = Cardinality(sent) /\ fmem'[f] = IF sent = {} THEN "free" ELSE "live"
       /\ \A g \in Frames \ {f} : fref'[g] = fref[g] /\ fmem'[g] = fmem[g]
  BY <1>2, <1>4 DEF IInv, Types
<1> HIDE DEF sent
<1>12. FrameReferences'
  <2> SUFFICES ASSUME NEW g \in Frames
      PROVE  fref'[g] = Cardinality(Pending(g)') /\ (fmem'[g] = "live" <=> Pending(g)' # {})
    BY DEF FrameReferences
  <2>1. CASE g = f  BY <1>9, <1>11, <2>1
  <2>2. CASE g # f  BY <1>10, <1>11, <2>2 DEF FramesInv, FrameReferences
  <2>3. QED  BY <2>1, <2>2
<1>13. \A c \in Clients : Distinct(Frames, writeq[c])'  BY <1>8 DEF Distinct
<1>14. QED  BY <1>12, <1>13 DEF FramesInv

\* on_smts_client_send_frame_cb: a reference is given back, or the frame freed.
LEMMA FramesGivenBack ==
    ASSUME Types, FramesInv, NEW c \in Clients, on_smts_client_send_frame_cb(c)
    PROVE  FramesInv'
<1> DEFINE f == Head(writeq[c])
<1>1. /\ writeq[c] # <<>> /\ f \in Frames
      /\ writeq' = [writeq EXCEPT ![c] = Tail(writeq[c])]
      /\ fref' = [fref EXCEPT ![f] = fref[f] - 1]
      /\ fmem' = IF fref[f] = 1 THEN [fmem EXCEPT ![f] = "free"] ELSE fmem
  BY DEF on_smts_client_send_frame_cb, frame_unref
<1>2. writeq[c] \in Seq(Messages) /\ Distinct(Frames, writeq[c])
  BY DEF Types, FramesInv
<1>3. Holds(writeq[c], f)
  <2>1. 1 \in 1..Len(writeq[c]) /\ writeq[c][1] = f  BY <1>1, <1>2
  <2>2. QED  BY <2>1 DEF Holds
<1> HIDE DEF f
<1>4. writeq'[c] = Tail(writeq[c]) /\ \A d \in Clients \ {c} : writeq'[d] = writeq[d]
  BY <1>1 DEF Types
<1>5. /\ Distinct(Frames, writeq'[c]) /\ ~Holds(writeq'[c], f)
      /\ \A g \in Frames \ {f} : Holds(writeq'[c], g) <=> Holds(writeq[c], g)
  BY <1>1, <1>2, <1>4, MessageRemoved DEF f
<1>6. \A g \in Frames : InFlight(writeq, g) = Pending(g) /\ InFlight(writeq', g) = Pending(g)'
  BY DEF InFlight, Pending, Holds
<1>7. /\ InFlight(writeq', f) = InFlight(writeq, f) \ {c} /\ c \in InFlight(writeq, f)
      /\ \A g \in Frames \ {f} : InFlight(writeq', g) = InFlight(writeq, g)
  BY <1>1, <1>3, <1>4, <1>5 DEF InFlight
<1>8. \A g \in Frames : /\ fref[g] = Cardinality(InFlight(writeq, g))
                        /\ fmem[g] = "live" <=> InFlight(writeq, g) # {}
  BY <1>6 DEF FramesInv, FrameReferences
<1>9. /\ fref[f] - 1 = Cardinality(InFlight(writeq', f))
      /\ (fref[f] = 1 <=> InFlight(writeq', f) = {})
  <2> DEFINE P == InFlight(writeq, f)
  <2>1. IsFiniteSet(P) /\ Cardinality(P) \in Nat
    <3>1. P \in SUBSET Clients  BY DEF InFlight
    <3>2. QED  BY <3>1, ClientSets
  <2>2. fref[f] = Cardinality(P) /\ c \in P /\ InFlight(writeq', f) = P \ {c}
    BY <1>1, <1>7, <1>8
  <2> HIDE DEF P
  <2>3. Cardinality(P \ {c}) = Cardinality(P) - 1  BY <2>1, <2>2, FS_RemoveElement
  <2>4. IsFiniteSet(P \ {c})  BY <2>1, FS_Subset
  <2>5. Cardinality(P \ {c}) = 0 <=> P \ {c} = {}  BY <2>4, FS_EmptySet
  <2>6. QED  BY <2>1, <2>2, <2>3, <2>5
<1>10. FrameReferences'
  <2>1. fref'[f] = fref[f] - 1  BY <1>1 DEF Types
  <2>2. fmem'[f] = IF fref[f] = 1 THEN "free" ELSE "live"
    BY <1>1, <1>7, <1>8 DEF Types
  <2>3. \A g \in Frames \ {f} : fref'[g] = fref[g] /\ fmem'[g] = fmem[g]
    BY <1>1 DEF Types
  <2>4. \A g \in Frames : /\ fref'[g] = Cardinality(InFlight(writeq', g))
                          /\ fmem'[g] = "live" <=> InFlight(writeq', g) # {}
    <3> SUFFICES ASSUME NEW g \in Frames
        PROVE  /\ fref'[g] = Cardinality(InFlight(writeq', g))
               /\ fmem'[g] = "live" <=> InFlight(writeq', g) # {}
      OBVIOUS
    <3>1. CASE g = f  BY <1>9, <2>1, <2>2, <3>1
    <3>2. CASE g # f  BY <1>7, <1>8, <2>3, <3>2
    <3>3. QED  BY <3>1, <3>2
  <2>5. QED  BY <1>6, <2>4 DEF FrameReferences
<1>11. \A d \in Clients : Distinct(Frames, writeq[d])'
  <2>1. \A d \in Clients : Distinct(Frames, writeq'[d])  BY <1>4, <1>5 DEF FramesInv
  <2>2. QED  BY <2>1 DEF Distinct
<1>12. QED  BY <1>10, <1>11 DEF FramesInv

\* on_smts_dvr_client_recv_frame counts the references of the whole list before
\* its loop, which unlinks the viewers that cannot be written to; together with
\* the write callbacks, whichever comes last, it frees a frame when nobody holds
\* it, for any number of viewers, sessions and frames.
THEOREM FramesCounted == ASSUME OneChannel PROVE Spec => []FrameReferences
<1>1. Init => FramesInv
  <2> SUFFICES ASSUME Init PROVE FramesInv  OBVIOUS
  <2>1. \A c \in Clients : writeq[c] = <<>>  BY DEF Init
  <2>2. \A c \in Clients : Distinct(Frames, writeq[c])  BY <2>1 DEF Distinct
  <2>3. \A f \in Frames : Pending(f) = {}  BY <2>1 DEF Pending
  <2>4. \A f \in Frames : fref[f] = 0 /\ fmem[f] = "free"  BY DEF Init
  <2>5. QED  BY <2>2, <2>3, <2>4, FS_EmptySet DEF FramesInv, FrameReferences
<1>2. IInv /\ FramesInv /\ [Next]_vars => FramesInv'
  <2> SUFFICES ASSUME IInv, FramesInv, [Next]_vars PROVE FramesInv'  OBVIOUS
  <2>1. CASE UNCHANGED vars
    BY <2>1 DEF vars, clientVars, frameVars, FramesInv, FrameReferences, Pending, Distinct
  <2>2. Types  BY DEF IInv
  <2>3. QED
    BY <2>1, <2>2, FramesByClient, FramesBySession, FramesSent, FramesGivenBack
    DEF Next, ClientNext, SessionNext
<1>3. FramesInv => FrameReferences  BY DEF FramesInv
<1>4. QED  BY <1>1, <1>2, <1>3, Invariant, PTL DEF Spec
----------------------------------------------------------------
\* No counter is counted down below zero, whichever writes fail and whoever leaves
\* first: the viewers of a session (media_client_stop_preview) and the references
\* to a frame (on_smts_client_send_frame).
THEOREM CountsNatural == ASSUME OneChannel PROVE Spec => []TypeOK
<1>1. IInv /\ FrameReferences => TypeOK
  <2> SUFFICES ASSUME IInv, FrameReferences PROVE TypeOK  OBVIOUS
  <2>1. Types /\ ListIntegrity  BY DEF IInv
  <2>2. ASSUME NEW s \in Sessions PROVE client_size[s] \in Nat
    <3>1. clients[s] \in SUBSET Clients  BY <2>1 DEF Types
    <3>2. QED  BY <2>1, <3>1, ClientSets DEF ListIntegrity
  <2>3. ASSUME NEW f \in Frames PROVE fref[f] \in Nat
    <3>1. Pending(f) \in SUBSET Clients  BY DEF Pending
    <3>2. QED  BY <3>1, ClientSets DEF FrameReferences
  <2>4. QED  BY <2>1, <2>2, <2>3 DEF Types, TypeOK
<1>2. QED  BY <1>1, Invariant, FramesCounted, PTL
=============
