------------------------------- MODULE Channel -------------------------------
(***************************************************************************)
(* The transparent channel over the media sessions of module Media:        *)
(* dispatch_packet and msg_channel (src/src/smts_dispatch.h,               *)
(* src/src/smts_client_impl.c) take a viewer's command, write it to the    *)
(* recorder (media_client_send_cmd, src/src/smts_session.c) and write an   *)
(* acknowledgement to the viewer.                                          *)
(*                                                                         *)
(* The command shares the handles of Media: the recorder's connection may  *)
(* be connecting, about to preview, read or closing, and the viewer's may  *)
(* be about to close, so that the callbacks of one delay those of the      *)
(* other.  A write is called back in order; one to a recorder that is not  *)
(* connected waits for the connection, and goes before the preview command.*)
(***************************************************************************)
EXTENDS Media

CONSTANTS
    Packets,    \* the blocks malloc may return for a command
    MaxCmds     \* bound: commands received

ASSUME ChannelAssumption ==
    /\ IsFiniteSet(Packets)
    /\ "preview" \notin Packets
    /\ MaxCmds \in Nat

VARIABLES
    pmem,       \* memory block of a command and of the packet it refers to
    ref,        \* its reference count
    dvrq,       \* writes to the recorder's handle not called back yet
    acks,       \* acknowledgements to the viewer not called back yet
    cmds        \* commands received

channelVars == <<pmem, ref, dvrq, acks, cmds>>
allVars == <<vars, channelVars>>

ChannelTypeOK ==
    /\ pmem \in [Packets -> {"free", "live"}]
    /\ ref \in [Packets -> Nat]
    /\ dvrq \in [Sessions -> Seq(Packets \cup {"preview"})]
    /\ acks \in [Clients -> 0..MaxCmds]
    /\ cmds \in 0..MaxCmds

ChannelInit ==
    /\ Init
    /\ pmem = [p \in Packets |-> "free"]
    /\ ref = [p \in Packets |-> 0]
    /\ dvrq = [s \in Sessions |-> <<>>]
    /\ acks = [c \in Clients |-> 0]
    /\ cmds = 0

-----------------------------------------------------------------------------
(* The life of a command's memory, from the count and the state of the     *)
(* block before the call to those after it.                                *)

Block(p) == [mem |-> pmem[p], ref |-> ref[p]]

\* malloc and test_PTZ_cmd_t_init.
test_PTZ_cmd_t_init == [mem |-> "live", ref |-> 0]

\* A bug to tell apart: the write takes no reference.
increase_ref_Not(b) == b

proto_cmd_t_increase_ref(b) == [b EXCEPT !.ref = @ + 1]

\* A bug to tell apart: the count is decremented before it is looked at.
proto_cmd_t_destroy_First(b) ==
    [mem |-> IF b.ref > 0 THEN b.mem ELSE "free", ref |-> b.ref - 1]

\* The last holder frees it.
proto_cmd_t_destroy(b) ==
    IF b.ref > 0 THEN [b EXCEPT !.ref = @ - 1] ELSE [b EXCEPT !.mem = "free"]

Becomes(p, b) ==
    /\ pmem' = [pmem EXCEPT ![p] = b.mem]
    /\ ref' = [ref EXCEPT ![p] = b.ref]

\* media_client_send_cmd when uv_write accepts the command.
SentToDvr(s, p) ==
    /\ dvrq' = [dvrq EXCEPT ![s] = Append(@, p)]
    /\ Becomes(p, proto_cmd_t_destroy(proto_cmd_t_increase_ref(test_PTZ_cmd_t_init)))

\* When uv_write refuses it the write's reference is given back at once.
DvrRefuses(p) ==
    Becomes(p, proto_cmd_t_destroy(proto_cmd_t_destroy(
                    proto_cmd_t_increase_ref(test_PTZ_cmd_t_init))))

\* media_client_send_cmd, and the dispatcher's destroy after it: r is what it
\* returns.
media_client_send_cmd(c, p, r) ==
    IF csession[c] = NoSession
    THEN /\ r = "error"
         /\ Becomes(p, proto_cmd_t_destroy(test_PTZ_cmd_t_init))
         /\ UNCHANGED dvrq
    ELSE \/ r = "ok" /\ SentToDvr(csession[c], p)
         \/ r = "error" /\ DvrRefuses(p) /\ UNCHANGED dvrq

\* dispatch_packet with a command of the channel.  The acknowledgement says 0
\* whatever r is: common_res_t_init clears the status that was set before.
\* Nobody stops the viewer when its write is refused.
msg_channel(c) ==
    /\ chandle[c] = "open"
    /\ cmds < MaxCmds
    /\ cmds' = cmds + 1
    /\ \E p \in Packets, r \in {"ok", "error"} :
        /\ pmem[p] = "free"
        /\ media_client_send_cmd(c, p, r)
    /\ acks' \in {acks, [acks EXCEPT ![c] = @ + 1]}
    /\ UNCHANGED vars

\* A bug to tell apart: the callback leaves the command to the dispatcher.
on_send_cmd_to_dvr_cb_Keeps(s) ==
    /\ dvrq[s] # <<>> /\ Head(dvrq[s]) \in Packets
    /\ dvr[s] # "connecting"
    /\ dvrq' = [dvrq EXCEPT ![s] = Tail(@)]
    /\ UNCHANGED <<vars, pmem, ref, acks, cmds>>

on_send_cmd_to_dvr_cb(s) ==
    /\ dvrq[s] # <<>> /\ Head(dvrq[s]) \in Packets
    /\ dvr[s] # "connecting"
    /\ dvrq' = [dvrq EXCEPT ![s] = Tail(@)]
    /\ Becomes(Head(dvrq[s]), proto_cmd_t_destroy(Block(Head(dvrq[s]))))
    /\ UNCHANGED <<vars, acks, cmds>>

on_smts_client_send_res_cb(c) ==
    /\ acks[c] > 0
    /\ acks' = [acks EXCEPT ![c] = @ - 1]
    /\ UNCHANGED <<vars, pmem, ref, dvrq, cmds>>

-----------------------------------------------------------------------------
(* The callbacks of Media on handles that the channel writes to as well.   *)

\* A connection that closes waits for the acknowledgements.
ClientCloses(c) ==
    /\ socket_close_cb(c)
    /\ acks[c] = 0
    /\ UNCHANGED channelVars

\* The preview command is written behind the commands that wait.
DvrConnects(s) ==
    /\ on_connected_to_dvr(s)
    /\ dvrq' = [dvrq EXCEPT ![s] = IF dvr'[s] = "previewing"
                                   THEN Append(@, "preview") ELSE @]
    /\ UNCHANGED <<pmem, ref, acks, cmds>>

DvrPreviews(s) ==
    /\ dvrq[s] # <<>> /\ Head(dvrq[s]) = "preview"
    /\ on_smts_dvr_client_send_preview(s)
    /\ dvrq' = [dvrq EXCEPT ![s] = Tail(@)]
    /\ UNCHANGED <<pmem, ref, acks, cmds>>

DvrCloses(s) ==
    /\ dvrq[s] = <<>>
    /\ on_dvr_client_close_cb(s)
    /\ UNCHANGED channelVars

\* The others do not meet the channel.
MediaAlone(c, s) ==
    /\ \/ client_on_connection(c)
       \/ \E k \in Keys : smts_start_preview(c, k)
       \/ dispatch_packet_error(c)
       \/ on_smts_client_send_preview_res_cb_slient(c)
       \/ on_smts_client_send_error_preview_res_cb(c)
       \/ on_smts_client_send_frame_cb(c)
       \/ \E f \in Frames : on_smts_dvr_client_recv_frame(s, f)
       \/ on_dvr_client_read_error(s)
       \/ session_exit_cb(s)
    /\ UNCHANGED channelVars

ChannelNext ==
    \/ \E c \in Clients :
        \/ msg_channel(c)
        \/ on_smts_client_send_res_cb(c)
        \/ ClientCloses(c)
        \/ \E s \in Sessions : MediaAlone(c, s)
    \/ \E s \in Sessions :
        \/ on_send_cmd_to_dvr_cb(s)
        \/ DvrConnects(s)
        \/ DvrPreviews(s)
        \/ DvrCloses(s)

ChannelSpec == ChannelInit /\ [][ChannelNext]_allVars

\* As in Media.  A close makes the writes to a recorder and the acknowledgements
\* call back; before it they may stay in the buffers of the kernel for ever, but
\* for the commands before the preview command, which are as short as it is.
ChannelFairness ==
    /\ \A c \in Clients :
        /\ WF_allVars(ClientCloses(c))
        /\ WF_allVars(chandle[c] = "closing" /\ on_smts_client_send_res_cb(c))
        /\ WF_allVars(chandle[c] = "closing" /\ UNCHANGED channelVars /\
                      \/ on_smts_client_send_preview_res_cb_slient(c)
                      \/ on_smts_client_send_error_preview_res_cb(c)
                      \/ on_smts_client_send_frame_cb(c))
    /\ \A s \in Sessions :
        /\ WF_allVars(DvrConnects(s))
        /\ WF_allVars(DvrPreviews(s))
        /\ WF_allVars(dvr[s] = "previewing" /\ on_send_cmd_to_dvr_cb(s))
        /\ WF_allVars(dclosing[s] /\ on_send_cmd_to_dvr_cb(s))
        /\ WF_allVars(session_exit_cb(s) /\ UNCHANGED channelVars)
        /\ WF_allVars(DvrCloses(s))

ChannelFairSpec == ChannelSpec /\ ChannelFairness

-----------------------------------------------------------------------------
(* Properties.                                                             *)

\* The places where a command is held by a write to a recorder.
Holders(p) ==
    {h \in UNION {{s} \X DOMAIN dvrq[s] : s \in Sessions} : dvrq[h[1]][h[2]] = p}

\* Between two callbacks a command is held by nothing but a write to a recorder:
\* it is freed as soon as the dispatcher and the write have let go, whichever is
\* last, and whatever became of the viewer and of the session in between
\* (GEN_DISPATCH_SWTICH_CASE, media_client_send_cmd, on_send_cmd_to_dvr_cb).
PacketReferences ==
    \A p \in Packets :
        /\ Cardinality(Holders(p)) = (IF pmem[p] = "live" THEN 1 ELSE 0)
        /\ ref[p] = 0

\* A command is written to a recorder whose connection is neither failed nor
\* closing, for a session that still exists: client->session is cleared on every
\* path that ends one (media_client_send_cmd).
WrittenToServingDvr ==
    [][\A s \in Sessions : Len(dvrq'[s]) > Len(dvrq[s]) =>
            smem[s] = "live" /\ ~dclosing[s] /\ dvr[s] \notin {"none", "stopped"}]_allVars

\* A command is not lost with its recorder: when the connection closes its
\* memory is given back (on_send_cmd_to_dvr_cb, on_dvr_client_close_cb).
CommandReleased ==
    \A s \in Sessions, p \in Packets :
        dclosing[s] /\ (\E i \in DOMAIN dvrq[s] : dvrq[s][i] = p) ~> pmem[p] = "free"
==============================================================================
