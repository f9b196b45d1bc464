-------------------------------- MODULE Codec --------------------------------
(***************************************************************************)
(* The protocol codec: the functions that the macros of                    *)
(* src/src/protocol/smts_proto.c generate from PROTOCOL_MAP of             *)
(* nvmp_protocol_def.h, and the integers of encode_decode_util.c.          *)
(*                                                                         *)
(* A command is encoded in three passes over its fields, which must agree: *)
(* one counts the buffers, one allocates them, one writes them.  A         *)
(* BinaryBufRef field is not copied: a buffer refers to its bytes, and     *)
(* destroy must not free it.  A byte has Byte values, so that integers of  *)
(* eight bytes stay within TLC's; BinaryBuf, which no command has, is left *)
(* out, and the reference fields in use are never NULL.  abstract_cmd, the *)
(* head of every command, is never sent.                                   *)
(***************************************************************************)
EXTENDS Integers, Sequences, SequencesExt

CONSTANTS
    Byte,       \* values of a byte, 256
    TokenLen,   \* length of preview_cmd_t.token, 128
    FrameLens,  \* lengths of frames
    Commands,   \* the commands sent: a subset of the protocol's
    MaxRefs     \* bound: references added to one command

ASSUME CodecAssumption ==
    /\ Byte \in Nat /\ Byte > 1 /\ Byte % 2 = 0
    /\ TokenLen \in Nat
    /\ FrameLens \subseteq Nat
    /\ MaxRefs \in Nat

-----------------------------------------------------------------------------
(* The layouts of PROTOCOL_MAP.                                            *)

Int16(name) == [type |-> "int", name |-> name, len |-> 2]
Int32(name) == [type |-> "int", name |-> name, len |-> 4]
Int64(name) == [type |-> "int", name |-> name, len |-> 8]
FixedString(name, len) == [type |-> "str", name |-> name, len |-> len]
\* Its length is packet_len less that many bytes when it is decoded.
BinaryBufRef(name, header) == [type |-> "ref", name |-> name, len |-> header]

PROTOCOL_TOP_FILED == <<Int32("packet_len"), Int32("cmd")>>

PROTOCOL_HEAD_FILED ==
    PROTOCOL_TOP_FILED \o <<Int32("seqno"), Int32("src_addr"), Int32("dest_addr")>>

\* The command codes are numbered, negative where the top bit is set.
PROTOCOL_MAP ==
    [preview_cmd |->
        [cmd |-> 1,
         fields |-> PROTOCOL_HEAD_FILED \o
            <<FixedString("token", TokenLen), Int64("dvr_id"),
              Int16("channel_no"), Int32("frame_mode")>>],
     preview_cmd_res |->
        [cmd |-> -1,
         fields |-> PROTOCOL_HEAD_FILED \o
            <<Int32("status"), Int32("brightness"), Int32("contrast"),
              Int32("saturation"), Int32("Hue")>>],
     smts_frame_res |->
        [cmd |-> -2,
         fields |-> PROTOCOL_HEAD_FILED \o
            <<Int32("frame_type"), BinaryBufRef("frame", 20)>>],
     mock_dvr_preview |->
        [cmd |-> 2,
         fields |-> PROTOCOL_TOP_FILED \o <<Int32("bitrate"), Int32("frame_rate")>>],
     mock_dvr_frame |->
        [cmd |-> 3,
         fields |-> PROTOCOL_TOP_FILED \o
            <<Int32("seqno"), Int32("frame_type"), Int64("st"),
              BinaryBufRef("frame", 24)>>],
     test_PTZ_cmd |->
        [cmd |-> 4, fields |-> PROTOCOL_HEAD_FILED \o <<Int32("ptz")>>],
     common_res |->
        [cmd |-> -3, fields |-> PROTOCOL_HEAD_FILED \o <<Int32("status")>>]]

ASSUME CommandsAssumption == Commands \subseteq DOMAIN PROTOCOL_MAP

Layout(c) == PROTOCOL_MAP[c].fields

-----------------------------------------------------------------------------
(* Integers.                                                               *)

\* How many values n bytes have; no integer has more than eight.
Power[n \in 0..8] == IF n = 0 THEN 1 ELSE Byte * Power[n - 1]

\* A packet is shorter than its Int32 can tell (MAX_PACKET_LEN).
ASSUME LengthAssumption ==
    \A n \in {16, TokenLen + 10} \cup FrameLens : n + 24 < Power[4] \div 2

\* The byte that a shift leaves, cut off to a char.
encode_int(val, len) == [i \in 1..len |-> (val \div Power[len - i]) % Byte]

\* The bytes are shifted in.
DECODE_INT(bytes) == FoldLeft(LAMBDA v, b : v * Byte + b, 0, bytes)

\* A bug to tell apart: the sign is not restored.
decode_int_Unsigned(bytes) == DECODE_INT(bytes)

\* The sign is that of the width.
decode_int(bytes) ==
    LET val   == DECODE_INT(bytes)
        range == Power[Len(bytes)]
    IN  IF val >= range \div 2 THEN val - range ELSE val

-----------------------------------------------------------------------------
(* Encoding a command with the values v of its fields.                     *)

\* Number of bytes of a field.
FieldLen(f, v) == IF f.type = "ref" THEN Len(v[f.name]) ELSE f.len

cmd_len(layout, v) == FoldLeft(LAMBDA n, f : n + FieldLen(f, v), 0, layout)

\* *_t_bufs_alloc: how many buffers.
bufs_alloc(layout) ==
    FoldLeft(LAMBDA a, f :
                IF f.type = "ref" THEN [n |-> a.n + 1, is_new |-> TRUE]
                ELSE [n |-> IF a.is_new THEN a.n + 1 ELSE a.n, is_new |-> FALSE],
             [n |-> 0, is_new |-> TRUE], layout).n

\* The bit of the buffer that refers to bytes, index being that of the one
\* before it.
ref_bit_Before(index) == index      \* a bug to tell apart

ref_bit(index) == index + 1

\* *_t_bufs_inner_alloc: the buffers, and the bit map of those that are not
\* the command's own (bits counted from 0).
bufs_inner_alloc(layout, v) ==
    LET a == FoldLeft(LAMBDA b, f :
                IF f.type = "ref"
                THEN [bufs   |-> b.bufs \o <<[base |-> "malloc", len |-> b.size],
                                             [base |-> "ref", len |-> FieldLen(f, v)]>>,
                      size   |-> 0, is_new |-> TRUE,
                      index  |-> b.index + 1,
                      bitmap |-> b.bitmap \cup {ref_bit(b.index)}]
                ELSE [b EXCEPT !.size = @ + FieldLen(f, v), !.is_new = FALSE],
             [bufs |-> <<>>, size |-> 0, is_new |-> TRUE, index |-> 0, bitmap |-> {}],
             layout)
    IN  [bufs   |-> IF a.is_new THEN a.bufs
                    ELSE Append(a.bufs, [base |-> "malloc", len |-> a.size]),
         bitmap |-> a.bitmap]

FieldBytes(f, v) ==
    IF f.type = "int" THEN encode_int(v[f.name], f.len) ELSE v[f.name]

\* The buffer that is made to refer to bytes when the one before was written.
ref_buffer_Same(at) == at           \* a bug to tell apart

ref_buffer(at) == at + 1

\* *_t_encode: what is written to each of the n buffers.
encode(layout, v, n) ==
    FoldLeft(LAMBDA w, f :
                IF f.type = "ref"
                THEN LET at == ref_buffer(w.at)
                     IN  [at |-> at + 1, out |-> [w.out EXCEPT ![at] = FieldBytes(f, v)]]
                ELSE [w EXCEPT !.out[w.at] = @ \o FieldBytes(f, v)],
             [at |-> 1, out |-> [i \in 1..n |-> <<>>]], layout).out

\* A byte read behind the end of a packet.
Outside == -1

BytesAt(wire, pos, n) ==
    [i \in 1..n |-> IF pos + i \in DOMAIN wire THEN wire[pos + i] ELSE Outside]

\* *_t_decode: the fields of a packet, one after the other, into a command whose
\* fields *_t_init has set.
decode(layout, wire) ==
    LET Read(d, f) ==
            LET n     == IF f.type = "ref" THEN d.v["packet_len"] - f.len ELSE f.len
                bytes == BytesAt(wire, d.pos, n)
            IN  [pos |-> d.pos + n,
                 v   |-> [d.v EXCEPT ![f.name] =
                            IF f.type = "int" THEN decode_int(bytes) ELSE bytes]]
        init == [x \in {layout[i].name : i \in DOMAIN layout} |-> 0]
    IN  FoldLeft(Read, [pos |-> 0, v |-> init], layout).v

-----------------------------------------------------------------------------
(* A command on its way: made and encoded by the sender, written, decoded  *)
(* by the receiver; each side destroys it when its last holder is done.    *)

VARIABLES
    name,       \* the command
    fields,     \* its fields, before packet_len and cmd are set
    bufs,       \* codec_buf.original_buf of each side
    bitmap,     \* codec_buf.original_buf_ref_bit_map of each side
    out,        \* contents of the sender's buffers
    decoded,    \* the fields on the receiver's side
    ref,        \* ref of each side
    holders,    \* who still has to call destroy on each side
    heap        \* blocks allocated and not freed

vars == <<name, fields, bufs, bitmap, out, decoded, ref, holders, heap>>

Sides == {"sender", "receiver"}
Nothing == <<>>

\* Memory blocks: a command, its array of buffers, the buffers, and a frame,
\* which belongs to whoever gave it to the sender.
CmdBlock(s)  == <<s, -1>>
Array(s)     == <<s, 0>>
Buffer(s, i) == <<s, i>>
Frame        == <<"frame", 1>>

TypeOK ==
    /\ name \in Commands \cup {"none"}
    /\ \A s \in Sides : bufs[s] \in Seq([base : {"malloc", "ref"}, len : Nat])
    /\ bitmap \in [Sides -> SUBSET Nat]
    /\ ref \in [Sides -> 0..MaxRefs]
    /\ holders \in [Sides -> 0 .. MaxRefs + 1]

Init ==
    /\ name = "none" /\ fields = Nothing /\ out = Nothing /\ decoded = Nothing
    /\ bufs = [s \in Sides |-> <<>>]
    /\ bitmap = [s \in Sides |-> {}]
    /\ ref = [s \in Sides |-> 0]
    /\ holders = [s \in Sides |-> 0]
    /\ heap = {Frame}

FieldsOf(c) == {Layout(c)[i] : i \in 3..Len(Layout(c))}
FieldNamed(c, n) == CHOOSE f \in FieldsOf(c) : f.name = n

\* Values to try: the lowest integer of a width, or one of many different
\* bytes; a text; a frame of n bytes.
SomeValue(f, low, n) ==
    CASE f.type = "int" -> IF low THEN -(Power[f.len] \div 2) ELSE Power[f.len] \div 2 - 2
      [] f.type = "str" -> [i \in 1..f.len |-> i % Byte]
      [] f.type = "ref" -> [i \in 1..n |-> i % Byte]

\* malloc, *_t_init, and the caller's assignments.
NewCommand(c) ==
    /\ name = "none"
    /\ name' = c
    /\ \E low \in SUBSET {f.name : f \in FieldsOf(c)}, n \in FrameLens :
        fields' = [x \in {f.name : f \in FieldsOf(c)} |->
                      SomeValue(FieldNamed(c, x), x \in low, n)]
    /\ holders' = [holders EXCEPT !["sender"] = 1]
    /\ heap' = heap \cup {CmdBlock("sender")}
    /\ UNCHANGED <<bufs, bitmap, out, decoded, ref>>

\* The fields as they are written.
Complete(c, v) ==
    [x \in {"packet_len", "cmd"} \cup DOMAIN v |->
        CASE x = "packet_len" -> cmd_len(Layout(c), v)
          [] x = "cmd" -> PROTOCOL_MAP[c].cmd
          [] OTHER -> v[x]]

proto_cmd_t_encode ==
    /\ name # "none" /\ out = Nothing /\ holders["sender"] = 1 /\ ref["sender"] = 0
    /\ LET layout == Layout(name)
           alloc  == bufs_inner_alloc(layout, fields)
       IN  /\ bufs' = [bufs EXCEPT !["sender"] = alloc.bufs]
           /\ bitmap' = [bitmap EXCEPT !["sender"] = alloc.bitmap]
           /\ out' = encode(layout, Complete(name, fields), bufs_alloc(layout))
           /\ heap' = heap \cup {Array("sender")} \cup
                {Buffer("sender", i) : i \in {j \in DOMAIN alloc.bufs : alloc.bufs[j].base = "malloc"}}
    /\ ref' = [ref EXCEPT !["sender"] = 0]
    /\ UNCHANGED <<name, fields, decoded, holders>>

\* uv_write sends the buffers one after the other.
Wire == FlattenSeq(out)

\* The packet is one block of the receiver's, which its command takes over.
proto_cmd_t_decode ==
    /\ out # Nothing /\ decoded = Nothing /\ holders["sender"] > 0
    /\ decoded' = decode(Layout(name), Wire)
    /\ bufs' = [bufs EXCEPT !["receiver"] = <<[base |-> "malloc", len |-> Len(Wire)]>>]
    /\ bitmap' = [bitmap EXCEPT !["receiver"] = {}]
    /\ ref' = [ref EXCEPT !["receiver"] = 0]
    /\ holders' = [holders EXCEPT !["receiver"] = 1]
    /\ heap' = heap \cup {CmdBlock("receiver"), Array("receiver"), Buffer("receiver", 1)}
    /\ UNCHANGED <<name, fields, out>>

\* The command was encoded or decoded, and not destroyed: it may be shared.
proto_cmd_t_increase_ref(s) ==
    /\ bufs[s] # <<>> /\ holders[s] > 0
    /\ ref[s] < MaxRefs
    /\ ref' = [ref EXCEPT ![s] = @ + 1]
    /\ holders' = [holders EXCEPT ![s] = @ + 1]
    /\ UNCHANGED <<name, fields, bufs, bitmap, out, decoded, heap>>

\* What buffer i of a side points at.
Base(s, i) == IF bufs[s][i].base = "ref" THEN Frame ELSE Buffer(s, i)

Freed(s) ==
    {CmdBlock(s)} \cup {Array(s)} \cup
    {Base(s, i) : i \in {j \in DOMAIN bufs[s] : j - 1 \notin bitmap[s]}}

\* A bug to tell apart: an unsigned counter is never below zero.
destroy_Unsigned(s) ==
    /\ holders[s] > 0
    /\ holders' = [holders EXCEPT ![s] = @ - 1]
    /\ ref' = [ref EXCEPT ![s] = @ - 1]
    /\ UNCHANGED <<name, fields, bufs, bitmap, out, decoded, heap>>

proto_cmd_t_destroy(s) ==
    /\ holders[s] > 0
    /\ holders' = [holders EXCEPT ![s] = @ - 1]
    /\ IF ref[s] > 0
       THEN ref' = [ref EXCEPT ![s] = @ - 1] /\ UNCHANGED heap
       ELSE heap' = heap \ Freed(s) /\ UNCHANGED ref
    /\ UNCHANGED <<name, fields, bufs, bitmap, out, decoded>>

Next ==
    \/ \E c \in Commands : NewCommand(c)
    \/ proto_cmd_t_encode
    \/ proto_cmd_t_decode
    \/ \E s \in Sides : proto_cmd_t_increase_ref(s) \/ proto_cmd_t_destroy(s)

Spec == Init /\ [][Next]_vars

-----------------------------------------------------------------------------
(* Properties.                                                             *)

\* The three passes of the encoder agree: as many buffers are written as are
\* counted and allocated, each is filled to its end and not beyond, and together
\* they are the fields in the order of the protocol, behind their total length
\* ("total packet length").
WireFormat ==
    out # Nothing =>
        /\ Len(bufs["sender"]) = Len(out)
        /\ \A i \in DOMAIN out : Len(out[i]) = bufs["sender"][i].len
        /\ Wire = FlattenSeq([i \in DOMAIN Layout(name) |->
                                FieldBytes(Layout(name)[i], Complete(name, fields))])
        /\ decode_int(SubSeq(Wire, 1, 4)) = Len(Wire)

\* A command's blocks live as long as somebody holds it and are all freed by the
\* last one, whatever the order of the calls; a frame that it only refers to is
\* never freed with it ("destory it when ref equal zero", "not free in destroy
\* method").
OwnMemory ==
    /\ Frame \in heap
    /\ \A s \in Sides :
        IF holders[s] = 0 THEN \A b \in heap : b[1] # s
        ELSE /\ CmdBlock(s) \in heap
             /\ bufs[s] # <<>> => Array(s) \in heap
             /\ \A i \in DOMAIN bufs[s] : Base(s, i) \in heap

\* The receiver reads the values that the sender wrote
\* ("decode cmd_name##_t from uv_buf_t").
RoundTrip == decoded # Nothing => decoded = Complete(name, fields)

\* The bytes before field i, and whether a reference field takes off that many.
FixedLen(layout) == FoldLeft(LAMBDA n, f : n + f.len, 0, layout)
Before(c, i) == FixedLen(SubSeq(Layout(c), 1, i - 1))

IsExact(c) ==
    \A i \in DOMAIN Layout(c) :
        Layout(c)[i].type = "ref" => Layout(c)[i].len = Before(c, i)

\* It does so for every command whose reference field is declared with the
\* length of the fields before it: all but the frame response.
ExactRoundTrip == name # "none" /\ IsExact(name) => RoundTrip
===============================================================================
