---------------------------- MODULE Channel_proofs ----------------------------
(***************************************************************************)
(* Proofs about module Channel for any number of connections, sessions,    *)
(* frames and commands.                                                    *)
(***************************************************************************)
EXTENDS Channel, Viewer_proofs, Frames_proofs

-----------------------------------------------------------------------------
(* The channel takes nothing from Media and adds nothing to it.            *)

\* A step of the channel is a step of Media or leaves its variables alone.
LEMMA MediaStep == ASSUME [ChannelNext]_allVars PROVE [Next]_vars
<1>1. CASE UNCHANGED allVars  BY <1>1 DEF allVars
<1>2. ASSUME NEW c \in Clients,
             msg_channel(c) \/ on_smts_client_send_res_cb(c)
      PROVE  UNCHANGED vars
  BY <1>2 DEF msg_channel, on_smts_client_send_res_cb
<1>3. ASSUME NEW c \in Clients, ClientCloses(c) PROVE Next
  BY <1>3 DEF ClientCloses, Next, ClientNext
<1>4. ASSUME NEW c \in Clients, NEW s \in Sessions, MediaAlone(c, s) PROVE Next
  BY <1>4 DEF MediaAlone, Next, ClientNext, SessionNext
<1>5. ASSUME NEW s \in Sessions, on_send_cmd_to_dvr_cb(s) PROVE UNCHANGED vars
  BY <1>5 DEF on_send_cmd_to_dvr_cb
<1>6. ASSUME NEW s \in Sessions, DvrConnects(s) \/ DvrPreviews(s) \/ DvrCloses(s) PROVE Next
  BY <1>6 DEF DvrConnects, DvrPreviews, DvrCloses, Next, SessionNext
<1>7. QED  BY <1>1, <1>2, <1>3, <1>4, <1>5, <1>6 DEF ChannelNext

\* What is proved of the media sessions without the channel holds of them with
\* it: dispatch_packet and the callbacks of a command change nothing of theirs.
THEOREM MediaUndisturbed == ChannelSpec => Spec
<1>1. ChannelInit => Init  BY DEF ChannelInit
<1>2. QED  BY <1>1, MediaStep, PTL DEF ChannelSpec, Spec

-----------------------------------------------------------------------------
(* The memory of a command.                                                *)

Writes == Packets \cup {"preview"}

\* Every command in memory is held by one write to one recorder.
PacketInv ==
    /\ ChannelTypeOK
    /\ \A c \in Clients : acks[c] <= cmds
    /\ \A p \in Packets : ref[p] = 0
    /\ \A s \in Sessions : Distinct(Packets, dvrq[s])
    /\ \A p \in Packets : pmem[p] = "live" <=> \E s \in Sessions : Holds(dvrq[s], p)
    /\ \A p \in Packets, s, t \in Sessions :
        Holds(dvrq[s], p) /\ Holds(dvrq[t], p) => s = t

\* An accepted write leaves one holder, a refused one none.
LEMMA BlockLives ==
    /\ proto_cmd_t_destroy(proto_cmd_t_increase_ref(test_PTZ_cmd_t_init)) =
            [mem |-> "live", ref |-> 0]
    /\ proto_cmd_t_destroy(proto_cmd_t_destroy(proto_cmd_t_increase_ref(test_PTZ_cmd_t_init))) =
            [mem |-> "free", ref |-> 0]
    /\ proto_cmd_t_destroy(test_PTZ_cmd_t_init) = [mem |-> "free", ref |-> 0]
<1>1. proto_cmd_t_increase_ref(test_PTZ_cmd_t_init) = [mem |-> "live", ref |-> 1]
  BY DEF proto_cmd_t_increase_ref, test_PTZ_cmd_t_init
<1>2. proto_cmd_t_destroy([mem |-> "live", ref |-> 1]) = [mem |-> "live", ref |-> 0]
  BY DEF proto_cmd_t_destroy
<1>3. proto_cmd_t_destroy([mem |-> "live", ref |-> 0]) = [mem |-> "free", ref |-> 0]
  BY DEF proto_cmd_t_destroy
<1>4. QED  BY <1>1, <1>2, <1>3 DEF test_PTZ_cmd_t_init

\* The queue of a recorder, one write longer or shorter.
LEMMA WriteAppended ==
    ASSUME NEW q \in Seq(Writes), NEW w \in Writes
    PROVE  /\ \A p \in Packets : Holds(Append(q, w), p) <=> Holds(q, p) \/ w = p
           /\ Distinct(Packets, q) /\ (w \in Packets => ~Holds(q, w)) =>
                Distinct(Packets, Append(q, w))
<1>1. Packets \in SUBSET Writes  BY DEF Writes
<1>2. QED  BY <1>1, Appended

\* The same, one write shorter.
LEMMA WriteRemoved ==
    ASSUME NEW q \in Seq(Writes), q # <<>>, Distinct(Packets, q)
    PROVE  /\ \A p \in Packets : Holds(Tail(q), p) <=> Holds(q, p) /\ p # Head(q)
           /\ Distinct(Packets, Tail(q))
<1>1. Packets \in SUBSET Writes  BY DEF Writes
<1>2. QED  BY <1>1, Removed

\* What a step may do to the writes and to the memory of the commands.
CmdAccepted(s, p) ==
    /\ pmem[p] = "free"
    /\ dvrq' = [dvrq EXCEPT ![s] = Append(@, p)]
    /\ pmem' = [pmem EXCEPT ![p] = "live"] /\ ref' = [ref EXCEPT ![p] = 0]

CmdRefused(p) ==
    /\ pmem[p] = "free" /\ UNCHANGED dvrq
    /\ pmem' = [pmem EXCEPT ![p] = "free"] /\ ref' = [ref EXCEPT ![p] = 0]

PreviewWritten(s) ==
    dvrq' = [dvrq EXCEPT ![s] = Append(@, "preview")] /\ UNCHANGED <<pmem, ref>>

CmdCalledBack(s) ==
    /\ dvrq[s] # <<>> /\ Head(dvrq[s]) \in Packets
    /\ dvrq' = [dvrq EXCEPT ![s] = Tail(@)]
    /\ pmem' = [pmem EXCEPT ![Head(dvrq[s])] = "free"] /\ UNCHANGED ref

PreviewCalledBack(s) ==
    /\ dvrq[s] # <<>> /\ Head(dvrq[s]) = "preview"
    /\ dvrq' = [dvrq EXCEPT ![s] = Tail(@)]
    /\ UNCHANGED <<pmem, ref>>

QueueMove ==
    \/ UNCHANGED <<dvrq, pmem, ref>>
    \/ \E p \in Packets : CmdRefused(p)
    \/ \E s \in Sessions :
        \/ \E p \in Packets : CmdAccepted(s, p)
        \/ PreviewWritten(s)
        \/ CmdCalledBack(s)
        \/ PreviewCalledBack(s)

AckMove ==
    \/ UNCHANGED <<acks, cmds>>
    \/ /\ cmds < MaxCmds /\ cmds' = cmds + 1
       /\ UNCHANGED acks \/ \E c \in Clients : acks' = [acks EXCEPT ![c] = @ + 1]
    \/ /\ UNCHANGED cmds
       /\ \E c \in Clients : acks[c] > 0 /\ acks' = [acks EXCEPT ![c] = @ - 1]

\* dispatch_packet writes the command to the recorder, or frees it.
LEMMA CommandMoves ==
    ASSUME Types, NEW c \in Clients, msg_channel(c)
    PROVE  QueueMove /\ AckMove
<1>1. PICK p \in Packets, r \in {"ok", "error"} :
        pmem[p] = "free" /\ media_client_send_cmd(c, p, r)
  BY DEF msg_channel
<1>2. csession[c] # NoSession => csession[c] \in Sessions  BY DEF Types
<1>3. QueueMove
  <2>1. CASE csession[c] # NoSession /\ SentToDvr(csession[c], p)
    <3>1. /\ dvrq' = [dvrq EXCEPT ![csession[c]] = Append(@, p)]
          /\ pmem' = [pmem EXCEPT ![p] = "live"] /\ ref' = [ref EXCEPT ![p] = 0]
      BY <2>1, BlockLives DEF SentToDvr, Becomes
    <3>2. QED  BY <1>1, <1>2, <2>1, <3>1 DEF QueueMove, CmdAccepted
  <2>2. CASE UNCHANGED dvrq /\
             \/ DvrRefuses(p)
             \/ Becomes(p, proto_cmd_t_destroy(test_PTZ_cmd_t_init))
    <3>1. pmem' = [pmem EXCEPT ![p] = "free"] /\ ref' = [ref EXCEPT ![p] = 0]
      BY <2>2, BlockLives DEF DvrRefuses, Becomes
    <3>2. QED  BY <1>1, <2>2, <3>1 DEF QueueMove, CmdRefused
  <2>3. QED  BY <1>1, <2>1, <2>2 DEF media_client_send_cmd
<1>4. AckMove  BY DEF msg_channel, AckMove
<1>5. QED  BY <1>3, <1>4

\* Every callback makes one of these moves (on_send_cmd_to_dvr_cb and the others).
LEMMA ChannelMoves ==
    ASSUME Types, PacketInv, [ChannelNext]_allVars
    PROVE  QueueMove /\ AckMove
<1>1. CASE UNCHANGED channelVars
  BY <1>1 DEF channelVars, QueueMove, AckMove
<1>2. ASSUME NEW c \in Clients, on_smts_client_send_res_cb(c) PROVE QueueMove /\ AckMove
  BY <1>2 DEF on_smts_client_send_res_cb, QueueMove, AckMove
<1>3. ASSUME NEW s \in Sessions, on_send_cmd_to_dvr_cb(s) PROVE QueueMove /\ AckMove
  <2> DEFINE p == Head(dvrq[s])
  <2>1. p \in Packets /\ ref[p] = 0 /\ ref \in [Packets -> Nat]
    BY <1>3 DEF on_send_cmd_to_dvr_cb, PacketInv, ChannelTypeOK
  <2>2. proto_cmd_t_destroy(Block(p)) = [mem |-> "free", ref |-> 0]
    BY <2>1 DEF proto_cmd_t_destroy, Block
  <2>3. pmem' = [pmem EXCEPT ![p] = "free"] /\ ref' = [ref EXCEPT ![p] = 0]
    <3>1. Becomes(p, proto_cmd_t_destroy(Block(p)))  BY <1>3 DEF on_send_cmd_to_dvr_cb
    <3> HIDE DEF p
    <3>2. Becomes(p, [mem |-> "free", ref |-> 0])  BY <2>2, <3>1
    <3>3. QED  BY <3>2 DEF Becomes
  <2>4. ref' = ref  BY <2>1, <2>3
  <2>5. /\ dvrq[s] # <<>> /\ Head(dvrq[s]) \in Packets
        /\ dvrq' = [dvrq EXCEPT ![s] = Tail(@)]
        /\ pmem' = [pmem EXCEPT ![Head(dvrq[s])] = "free"] /\ UNCHANGED ref
        /\ UNCHANGED <<acks, cmds>>
    BY <1>3, <2>3, <2>4 DEF on_send_cmd_to_dvr_cb
  <2>6. QueueMove  BY <2>5 DEF QueueMove, CmdCalledBack
  <2>7. QED  BY <2>5, <2>6 DEF AckMove
<1>4. ASSUME NEW s \in Sessions, DvrConnects(s) PROVE QueueMove /\ AckMove
  <2>1. UNCHANGED <<pmem, ref, acks, cmds>>
        /\ dvrq' \in {[dvrq EXCEPT ![s] = Append(@, "preview")], [dvrq EXCEPT ![s] = @]}
    BY <1>4 DEF DvrConnects
  <2>2. [dvrq EXCEPT ![s] = @] = dvrq  BY DEF PacketInv, ChannelTypeOK
  <2>3. QED  BY <2>1, <2>2 DEF QueueMove, PreviewWritten, AckMove
<1>5. ASSUME NEW s \in Sessions, DvrPreviews(s) PROVE QueueMove /\ AckMove
  BY <1>5 DEF DvrPreviews, QueueMove, PreviewCalledBack, AckMove
<1>6. (\E s \in Sessions : DvrCloses(s)) \/ (\E c \in Clients : ClientCloses(c))
        \/ (\E c \in Clients, s \in Sessions : MediaAlone(c, s)) \/ UNCHANGED allVars
      => UNCHANGED channelVars
  BY DEF DvrCloses, ClientCloses, MediaAlone, allVars
<1>7. QED
  BY <1>1, <1>2, <1>3, <1>4, <1>5, <1>6, CommandMoves DEF ChannelNext

\* Each of the moves keeps the holders of every command unique.
LEMMA PacketsKept ==
    ASSUME PacketInv, QueueMove, AckMove
    PROVE  PacketInv'
<1>1. /\ dvrq \in [Sessions -> Seq(Writes)] /\ pmem \in [Packets -> {"free", "live"}]
      /\ ref \in [Packets -> Nat] /\ acks \in [Clients -> 0..MaxCmds] /\ cmds \in 0..MaxCmds
      /\ MaxCmds \in Nat /\ "preview" \notin Packets
  BY ChannelAssumption DEF PacketInv, ChannelTypeOK, Writes
<1>2. /\ acks' \in [Clients -> 0..MaxCmds] /\ cmds' \in 0..MaxCmds
      /\ \A c \in Clients : acks'[c] <= cmds'
  <2>1. \A c \in Clients : acks[c] <= cmds  BY DEF PacketInv
  <2>2. CASE UNCHANGED <<acks, cmds>>  BY <1>1, <2>1, <2>2
  <2>3. CASE /\ cmds < MaxCmds /\ cmds' = cmds + 1
             /\ UNCHANGED acks \/ \E c \in Clients : acks' = [acks EXCEPT ![c] = @ + 1]
    <3>1. \A c \in Clients : acks[c] \in Nat /\ acks[c] + 1 \in 0..MaxCmds
      BY <1>1, <2>1, <2>3
    <3>2. \A c \in Clients : acks'[c] = acks[c] \/ acks'[c] = acks[c] + 1
      BY <1>1, <2>3
    <3>3. acks' \in [Clients -> 0..MaxCmds]
      <4>1. CASE UNCHANGED acks  BY <1>1, <4>1
      <4>2. ASSUME NEW c \in Clients, acks' = [acks EXCEPT ![c] = @ + 1]
            PROVE  acks' \in [Clients -> 0..MaxCmds]
        BY <1>1, <3>1, <4>2
      <4>3. QED  BY <2>3, <4>1, <4>2
    <3>4. \A c \in Clients : acks'[c] <= cmds'  BY <1>1, <2>1, <2>3, <3>1, <3>2
    <3>5. QED  BY <1>1, <2>3, <3>3, <3>4
  <2>4. CASE /\ UNCHANGED cmds
             /\ \E c \in Clients : acks[c] > 0 /\ acks' = [acks EXCEPT ![c] = @ - 1]
    <3>1. PICK c \in Clients : acks[c] > 0 /\ acks' = [acks EXCEPT ![c] = @ - 1]
      BY <2>4
    <3>2. acks[c] - 1 \in 0..MaxCmds  BY <1>1, <3>1
    <3>3. acks' \in [Clients -> 0..MaxCmds]  BY <1>1, <3>1, <3>2
    <3>4. \A d \in Clients : acks'[d] <= cmds  BY <1>1, <2>1, <3>1
    <3>5. QED  BY <1>1, <2>4, <3>3, <3>4
  <2>5. QED  BY <2>2, <2>3, <2>4 DEF AckMove
<1> DEFINE Kept == /\ dvrq' \in [Sessions -> Seq(Writes)]
                   /\ pmem' \in [Packets -> {"free", "live"}] /\ ref' \in [Packets -> Nat]
                   /\ \A p \in Packets : ref'[p] = 0
                   /\ \A s \in Sessions : Distinct(Packets, dvrq'[s])
                   /\ \A p \in Packets :
                        pmem'[p] = "live" <=> \E s \in Sessions : Holds(dvrq'[s], p)
                   /\ \A p \in Packets, s, t \in Sessions :
                        Holds(dvrq'[s], p) /\ Holds(dvrq'[t], p) => s = t
<1>3. CASE UNCHANGED <<dvrq, pmem, ref>> \/
           \E p \in Packets : CmdRefused(p)
  <2>1. dvrq' = dvrq /\ pmem' = pmem /\ ref' = ref
    BY <1>1, <1>3 DEF PacketInv, CmdRefused
  <2>2. Kept  BY <1>1, <2>1 DEF PacketInv
  <2>3. QED  BY <1>1, <1>2, <2>2 DEF PacketInv, ChannelTypeOK, Writes, Distinct, Holds
<1>4. ASSUME NEW s \in Sessions, NEW w \in Writes, w \in Packets => pmem[w] = "free",
             dvrq' = [dvrq EXCEPT ![s] = Append(@, w)], ref' = ref,
             \A p \in Packets : pmem'[p] = IF p = w THEN "live" ELSE pmem[p],
             pmem' \in [Packets -> {"free", "live"}]
      PROVE  Kept
  <2>1. w \in Packets => \A t \in Sessions : ~Holds(dvrq[t], w)  BY <1>4 DEF PacketInv
  <2>2. dvrq[s] \in Seq(Writes) /\ Distinct(Packets, dvrq[s])  BY <1>1 DEF PacketInv
  <2>3. /\ dvrq'[s] = Append(dvrq[s], w) /\ dvrq'[s] \in Seq(Writes)
        /\ \A t \in Sessions \ {s} : dvrq'[t] = dvrq[t]
    BY <1>1, <1>4, <2>2
  <2>4. /\ \A p \in Packets : Holds(dvrq'[s], p) <=> Holds(dvrq[s], p) \/ w = p
        /\ Distinct(Packets, dvrq'[s])
    BY <2>1, <2>2, <2>3, WriteAppended
  <2>5. dvrq' \in [Sessions -> Seq(Writes)]
    <3> DEFINE Q == Seq(Writes)
    <3>1. dvrq \in [Sessions -> Q] /\ Append(dvrq[s], w) \in Q
          /\ dvrq' = [dvrq EXCEPT ![s] = Append(dvrq[s], w)]
      BY <1>1, <1>4, <2>3
    <3> HIDE DEF Q
    <3>2. dvrq' \in [Sessions -> Q]  BY <3>1
    <3>3. QED  BY <3>2 DEF Q
  <2>6. \A t \in Sessions : Distinct(Packets, dvrq'[t])
    BY <2>3, <2>4 DEF PacketInv
  <2>7. \A p \in Packets : pmem'[p] = "live" <=> \E t \in Sessions : Holds(dvrq'[t], p)
    <3> SUFFICES ASSUME NEW p \in Packets
        PROVE  pmem'[p] = "live" <=> \E t \in Sessions : Holds(dvrq'[t], p)
      OBVIOUS
    <3>1. CASE p = w  BY <1>4, <2>4, <3>1
    <3>2. CASE p # w
      <4>1. \A t \in Sessions : Holds(dvrq'[t], p) <=> Holds(dvrq[t], p)
        BY <2>3, <2>4, <3>2
      <4>2. QED  BY <1>4, <3>2, <4>1 DEF PacketInv
    <3>3. QED  BY <3>1, <3>2
  <2>8. \A p \in Packets, t, u \in Sessions :
            Holds(dvrq'[t], p) /\ Holds(dvrq'[u], p) => t = u
    <3> SUFFICES ASSUME NEW p \in Packets, NEW t \in Sessions, NEW u \in Sessions,
                        Holds(dvrq'[t], p), Holds(dvrq'[u], p)
        PROVE  t = u
      OBVIOUS
    <3>1. CASE p = w
      <4>1. \A v \in Sessions \ {s} : ~Holds(dvrq'[v], p)  BY <2>1, <2>3, <3>1
      <4>2. QED  BY <4>1
    <3>2. CASE p # w
      <4>1. Holds(dvrq[t], p) /\ Holds(dvrq[u], p)  BY <2>3, <2>4, <3>2
      <4>2. QED  BY <4>1 DEF PacketInv
    <3>3. QED  BY <3>1, <3>2
  <2>9. QED  BY <1>1, <1>4, <2>5, <2>6, <2>7, <2>8 DEF PacketInv
<1>5. ASSUME NEW s \in Sessions, dvrq[s] # <<>>,
             dvrq' = [dvrq EXCEPT ![s] = Tail(@)], ref' = ref,
             \A p \in Packets : pmem'[p] = IF p = Head(dvrq[s]) THEN "free" ELSE pmem[p],
             pmem' \in [Packets -> {"free", "live"}]
      PROVE  Kept
  <2> DEFINE w == Head(dvrq[s])
  <2>1. dvrq[s] \in Seq(Writes) /\ Distinct(Packets, dvrq[s])  BY <1>1 DEF PacketInv
  <2>2. /\ dvrq'[s] = Tail(dvrq[s]) /\ dvrq'[s] \in Seq(Writes)
        /\ \A t \in Sessions \ {s} : dvrq'[t] = dvrq[t]
    BY <1>1, <1>5, <2>1
  <2>3. Holds(dvrq[s], w)
    <3>1. 1 \in 1..Len(dvrq[s]) /\ dvrq[s][1] = w  BY <1>5, <2>1
    <3>2. QED  BY <3>1 DEF Holds
  <2> HIDE DEF w
  <2>4. /\ \A p \in Packets : Holds(dvrq'[s], p) <=> Holds(dvrq[s], p) /\ p # w
        /\ Distinct(Packets, dvrq'[s])
    BY <1>5, <2>1, <2>2, WriteRemoved DEF w
  <2>5. dvrq' \in [Sessions -> Seq(Writes)]
    <3> DEFINE Q == Seq(Writes)
    <3>1. dvrq \in [Sessions -> Q] /\ Tail(dvrq[s]) \in Q
          /\ dvrq' = [dvrq EXCEPT ![s] = Tail(dvrq[s])]
      BY <1>1, <1>5, <2>2
    <3> HIDE DEF Q
    <3>2. dvrq' \in [Sessions -> Q]  BY <3>1
    <3>3. QED  BY <3>2 DEF Q
  <2>6. \A t \in Sessions : Distinct(Packets, dvrq'[t])
    BY <2>2, <2>4 DEF PacketInv
  <2>7. \A p \in Packets, t \in Sessions :
            Holds(dvrq'[t], p) <=> Holds(dvrq[t], p) /\ p # w
    BY <2>2, <2>3, <2>4 DEF PacketInv
  <2>8. \A p \in Packets : pmem'[p] = "live" <=> \E t \in Sessions : Holds(dvrq'[t], p)
    <3> SUFFICES ASSUME NEW p \in Packets
        PROVE  pmem'[p] = "live" <=> \E t \in Sessions : Holds(dvrq'[t], p)
      OBVIOUS
    <3>1. CASE p = w  BY <1>5, <2>7, <3>1 DEF w
    <3>2. CASE p # w  BY <1>5, <2>7, <3>2 DEF w, PacketInv
    <3>3. QED  BY <3>1, <3>2
  <2>9. QED  BY <1>1, <1>5, <2>5, <2>6, <2>7, <2>8 DEF PacketInv
<1>6. CASE QueueMove /\ ~UNCHANGED <<dvrq, pmem, ref>>
  <2>1. ASSUME NEW s \in Sessions, NEW p \in Packets, CmdAccepted(s, p)
        PROVE  Kept
    <3>1. ref' = ref  BY <1>1, <2>1 DEF PacketInv, CmdAccepted
    <3>2. p \in Writes  BY DEF Writes
    <3>3. /\ \A r \in Packets : pmem'[r] = IF r = p THEN "live" ELSE pmem[r]
          /\ pmem' \in [Packets -> {"free", "live"}]
      BY <1>1, <2>1 DEF CmdAccepted
    <3>4. pmem[p] = "free" /\ dvrq' = [dvrq EXCEPT ![s] = Append(@, p)]
      BY <2>1 DEF CmdAccepted
    <3>5. QED  BY <1>4, <3>1, <3>2, <3>3, <3>4
  <2>2. ASSUME NEW s \in Sessions, PreviewWritten(s) PROVE Kept
    <3>1. "preview" \in Writes  BY DEF Writes
    <3>2. dvrq' = [dvrq EXCEPT ![s] = Append(@, "preview")] /\ UNCHANGED <<pmem, ref>>
      BY <2>2 DEF PreviewWritten
    <3>3. \A r \in Packets : pmem'[r] = IF r = "preview" THEN "live" ELSE pmem[r]
      BY <1>1, <3>2
    <3>4. QED  BY <1>1, <1>4, <3>1, <3>2, <3>3
  <2>3. ASSUME NEW s \in Sessions, CmdCalledBack(s) PROVE Kept
    <3>1. /\ \A r \in Packets : pmem'[r] = IF r = Head(dvrq[s]) THEN "free" ELSE pmem[r]
          /\ pmem' \in [Packets -> {"free", "live"}]
      BY <1>1, <2>3 DEF CmdCalledBack
    <3>2. dvrq[s] # <<>> /\ dvrq' = [dvrq EXCEPT ![s] = Tail(@)] /\ ref' = ref
      BY <2>3 DEF CmdCalledBack
    <3>3. QED  BY <1>5, <3>1, <3>2
  <2>4. ASSUME NEW s \in Sessions, PreviewCalledBack(s) PROVE Kept
    <3>1. \A r \in Packets : pmem'[r] = IF r = Head(dvrq[s]) THEN "free" ELSE pmem[r]
      BY <1>1, <2>4 DEF PreviewCalledBack
    <3>2. /\ dvrq[s] # <<>> /\ dvrq' = [dvrq EXCEPT ![s] = Tail(@)]
          /\ UNCHANGED <<pmem, ref>>
      BY <2>4 DEF PreviewCalledBack
    <3>3. QED  BY <1>1, <1>5, <3>1, <3>2
  <2>5. ASSUME NEW p \in Packets, CmdRefused(p) PROVE FALSE
    <3>1. dvrq' = dvrq /\ pmem' = pmem /\ ref' = ref
      BY <1>1, <2>5 DEF PacketInv, CmdRefused
    <3>2. QED  BY <1>6, <3>1
  <2>6. Kept
    <3> HIDE DEF Kept
    <3>1. QED  BY <1>6, <2>1, <2>2, <2>3, <2>4, <2>5 DEF QueueMove
  <2>7. QED  BY <1>1, <1>2, <2>6 DEF PacketInv, ChannelTypeOK, Writes, Distinct, Holds
<1>7. QED  BY <1>3, <1>6

\* The invariant of the memory of commands holds (proto_cmd_t_increase_ref,
\* proto_cmd_t_destroy).
THEOREM PacketsCounted == ChannelSpec => []PacketInv
<1>1. ChannelInit => PacketInv
  <2> SUFFICES ASSUME ChannelInit PROVE PacketInv  OBVIOUS
  <2>1. \A s \in Sessions, p \in Packets : ~Holds(dvrq[s], p)
    BY DEF ChannelInit, Holds
  <2>2. \A s \in Sessions : Distinct(Packets, dvrq[s])
    BY DEF ChannelInit, Distinct
  <2>3. ChannelTypeOK  BY ChannelAssumption DEF ChannelInit, ChannelTypeOK
  <2>4. QED  BY <2>1, <2>2, <2>3 DEF ChannelInit, PacketInv
<1>2. Types /\ PacketInv /\ [ChannelNext]_allVars => PacketInv'
  BY ChannelMoves, PacketsKept
<1>3. ChannelSpec => []Types  BY MediaUndisturbed, TypeCorrect, PTL
<1>4. QED  BY <1>1, <1>2, <1>3, PTL DEF ChannelSpec

\* The blocks of the commands, their counts, the writes to the recorders and the
\* acknowledgements in flight keep their types and stay within the commands
\* received (msg_channel, media_client_send_cmd, on_smts_client_send_res_cb).
THEOREM ChannelTypes == ChannelSpec => []ChannelTypeOK
<1>1. PacketInv => ChannelTypeOK  BY DEF PacketInv
<1>2. QED  BY <1>1, PacketsCounted, PTL

\* The memory of a command is held by exactly the one write to a recorder that
\* is not called back, or by none and free, for any number of viewers, sessions
\* and commands (GEN_DISPATCH_SWTICH_CASE, media_client_send_cmd,
\* on_send_cmd_to_dvr_cb).
THEOREM PacketReferencesCounted == ChannelSpec => []PacketReferences
<1>1. ASSUME PacketInv PROVE PacketReferences
  <2> SUFFICES ASSUME NEW p \in Packets
      PROVE  Cardinality(Holders(p)) = (IF pmem[p] = "live" THEN 1 ELSE 0)
    BY <1>1 DEF PacketReferences, PacketInv
  <2>1. \A h : h \in Holders(p) <=>
            \E s \in Sessions : \E i \in DOMAIN dvrq[s] : h = <<s, i>> /\ dvrq[s][i] = p
    BY DEF Holders
  <2>2. \A s \in Sessions : dvrq[s] \in Seq(Writes) /\ Distinct(Packets, dvrq[s])
    BY <1>1 DEF PacketInv, ChannelTypeOK, Writes
  <2>3. CASE pmem[p] = "live"
    <3>1. PICK s \in Sessions : Holds(dvrq[s], p)  BY <1>1, <2>3 DEF PacketInv
    <3>2. PICK i \in DOMAIN dvrq[s] : dvrq[s][i] = p  BY <2>2, <3>1 DEF Holds
    <3>3. \A t \in Sessions : \A j \in DOMAIN dvrq[t] : dvrq[t][j] = p => t = s /\ j = i
      <4> SUFFICES ASSUME NEW t \in Sessions, NEW j \in DOMAIN dvrq[t], dvrq[t][j] = p
          PROVE  t = s /\ j = i
        OBVIOUS
      <4>1. Holds(dvrq[t], p)  BY <2>2 DEF Holds
      <4>2. t = s  BY <1>1, <3>1, <4>1 DEF PacketInv
      <4>3. QED  BY <2>2, <3>2, <4>2 DEF Distinct
    <3>4. Holders(p) = {<<s, i>>}  BY <2>1, <3>2, <3>3
    <3>5. QED  BY <2>3, <3>4, FS_Singleton
  <2>4. CASE pmem[p] # "live"
    <3>1. \A s \in Sessions : ~Holds(dvrq[s], p)  BY <1>1, <2>4 DEF PacketInv
    <3>2. \A s \in Sessions : \A i \in DOMAIN dvrq[s] : dvrq[s][i] # p
      BY <2>2, <3>1 DEF Holds
    <3>3. Holders(p) = {}  BY <2>1, <3>2
    <3>4. QED  BY <2>4, <3>3, FS_EmptySet
  <2>5. QED  BY <2>3, <2>4
<1>2. QED  BY <1>1, PacketsCounted, PTL

-----------------------------------------------------------------------------
(* Where commands are written to.                                          *)

\* A viewer's session has a recorder's connection that has not failed.
LEMMA SessionServes ==
    ASSUME IInv, Serving, NEW c \in Clients, csession[c] # NoSession
    PROVE  /\ csession[c] \in Sessions
           /\ smem[csession[c]] = "live" /\ ~dclosing[csession[c]]
           /\ dvr[csession[c]] \notin {"none", "stopped"}
<1>1. csession[c] \in Sessions /\ clients[csession[c]] # {}
  BY DEF IInv, Types, ListIntegrity
<1>2. QED  BY <1>1 DEF IInv, SessionInv, Serving, Served

\* A command of a connection is written to the recorder of its session only.
LEMMA CommandGoesHome ==
    ASSUME IInv, Serving, ChannelTypeOK, NEW c \in Clients, msg_channel(c),
           NEW s \in Sessions, Len(dvrq'[s]) > Len(dvrq[s])
    PROVE  smem[s] = "live" /\ ~dclosing[s] /\ dvr[s] \notin {"none", "stopped"}
<1>1. PICK p \in Packets, r \in {"ok", "error"} : media_client_send_cmd(c, p, r)
  BY DEF msg_channel
<1>2. dvrq' # dvrq
  <2>1. Len(dvrq[s]) \in Nat  BY DEF ChannelTypeOK
  <2>2. QED  BY <2>1
<1>3. csession[c] # NoSession /\ dvrq' = [dvrq EXCEPT ![csession[c]] = Append(@, p)]
  BY <1>1, <1>2 DEF media_client_send_cmd, SentToDvr
<1>4. s = csession[c]
  <2>1. CASE s # csession[c]
    <3>1. dvrq'[s] = dvrq[s]  BY <1>3, <2>1 DEF ChannelTypeOK
    <3>2. Len(dvrq[s]) \in Nat  BY DEF ChannelTypeOK
    <3>3. QED  BY <3>1, <3>2
  <2>2. QED  BY <2>1
<1>5. QED  BY <1>3, <1>4, SessionServes

\* The preview command is written to a recorder that has just been connected.
LEMMA PreviewGoesHome ==
    ASSUME IInv, ChannelTypeOK, NEW t \in Sessions, DvrConnects(t),
           NEW s \in Sessions, Len(dvrq'[s]) > Len(dvrq[s])
    PROVE  smem[s] = "live" /\ ~dclosing[s] /\ dvr[s] \notin {"none", "stopped"}
<1>1. Len(dvrq[s]) \in Nat  BY DEF ChannelTypeOK
<1>2. s = t
  <2>1. s # t => dvrq'[s] = dvrq[s]  BY DEF DvrConnects, ChannelTypeOK
  <2>2. QED  BY <1>1, <2>1
<1>3. dvr'[t] = "previewing"
  <2>1. dvr'[t] # "previewing" => dvrq'[t] = dvrq[t]  BY DEF DvrConnects, ChannelTypeOK
  <2>2. QED  BY <1>1, <1>2, <2>1
<1>4. dvr[t] = "connecting" /\ ~dclosing[t]
  BY <1>3 DEF DvrConnects, on_connected_to_dvr, IInv, Types
<1>5. QED  BY <1>2, <1>4, RecorderIsLive

\* The other callbacks write nothing to a recorder.
LEMMA NothingWritten ==
    ASSUME ChannelTypeOK, NEW s \in Sessions,
           \/ UNCHANGED dvrq
           \/ \E t \in Sessions : dvrq[t] # <<>> /\ dvrq' = [dvrq EXCEPT ![t] = Tail(@)]
    PROVE  ~(Len(dvrq'[s]) > Len(dvrq[s]))
<1>1. Len(dvrq[s]) \in Nat  BY DEF ChannelTypeOK
<1>2. CASE UNCHANGED dvrq  BY <1>1, <1>2
<1>3. ASSUME NEW t \in Sessions, dvrq[t] # <<>>, dvrq' = [dvrq EXCEPT ![t] = Tail(@)]
      PROVE  ~(Len(dvrq'[s]) > Len(dvrq[s]))
  <2>1. CASE s = t
    <3>1. dvrq[s] \in Seq(Packets \cup {"preview"}) /\ dvrq'[s] = Tail(dvrq[s])
      BY <1>3, <2>1 DEF ChannelTypeOK
    <3>2. Len(Tail(dvrq[s])) = Len(dvrq[s]) - 1  BY <1>3, <2>1, <3>1
    <3>3. QED  BY <1>1, <3>1, <3>2
  <2>2. CASE s # t
    <3>1. dvrq'[s] = dvrq[s]  BY <1>3, <2>2 DEF ChannelTypeOK
    <3>2. QED  BY <1>1, <3>1
  <2>3. QED  BY <2>1, <2>2
<1>4. QED  BY <1>2, <1>3

\* No command and no preview command is written for a session that has ended, or
\* to a recorder whose connection failed or closes, for any number of viewers,
\* sessions and commands (media_client_send_cmd, on_connected_to_dvr).
THEOREM CommandsReachRecorders == ASSUME OneChannel PROVE ChannelSpec => WrittenToServingDvr
<1> DEFINE Step == \A s \in Sessions : Len(dvrq'[s]) > Len(dvrq[s]) =>
                        smem[s] = "live" /\ ~dclosing[s] /\ dvr[s] \notin {"none", "stopped"}
<1>1. IInv /\ Serving /\ ChannelTypeOK /\ [ChannelNext]_allVars => [Step]_allVars
  <2> SUFFICES ASSUME IInv, Serving, ChannelTypeOK, ChannelNext PROVE Step
    OBVIOUS
  <2>1. CASE \E c \in Clients : msg_channel(c)  BY <2>1, CommandGoesHome
  <2>2. CASE \E t \in Sessions : DvrConnects(t)  BY <2>2, PreviewGoesHome
  <2>3. CASE UNCHANGED dvrq  BY <2>3, NothingWritten
  <2>4. ASSUME NEW t \in Sessions, on_send_cmd_to_dvr_cb(t) \/ DvrPreviews(t)
        PROVE  Step
    <3>1. dvrq[t] # <<>> /\ dvrq' = [dvrq EXCEPT ![t] = Tail(@)]
      BY <2>4 DEF on_send_cmd_to_dvr_cb, DvrPreviews
    <3>2. QED  BY <3>1, NothingWritten
  <2>5. \/ \E c \in Clients :
            \/ on_smts_client_send_res_cb(c) \/ ClientCloses(c)
            \/ \E s \in Sessions : MediaAlone(c, s)
        \/ \E s \in Sessions : DvrCloses(s)
        => UNCHANGED dvrq
    BY DEF on_smts_client_send_res_cb, ClientCloses, MediaAlone, DvrCloses, channelVars
  <2> HIDE DEF Step
  <2>6. QED  BY <2>1, <2>2, <2>3, <2>4, <2>5 DEF ChannelNext
<1>2. ChannelSpec => []IInv /\ []Serving
  BY MediaUndisturbed, Invariant, ServingKept, PTL
<1>3. QED  BY <1>1, <1>2, ChannelTypes, PTL DEF ChannelSpec, WrittenToServingDvr
=============================================================================
