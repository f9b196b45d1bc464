----------------------------- MODULE PacketReader -----------------------------
(***************************************************************************)
(* Packets out of a byte stream: tcp_client_start_read and its callbacks   *)
(* tcp_client_alloc_cb and tcp_client_read_cb, in                          *)
(* src/src/smts_abstract_tcp_client.c, under libuv's uv__read.             *)
(*                                                                         *)
(* A packet is its length, in a field of four bytes, and a body.  The      *)
(* reader asks for the field, then for the body, and takes the length from *)
(* the uv_buf_t that libuv hands to the alloc callback.  That buffer is a  *)
(* local variable of uv__read: it still points at the field when the loop  *)
(* of uv__read has just filled it and goes on, and is anything otherwise.  *)
(***************************************************************************)
EXTENDS Integers, Sequences

CONSTANTS
    Lengths,        \* the values a length field may hold
    MaxPacketLen,   \* MAX_PACKET_LEN
    MaxPackets,     \* bound: packets the peer sends
    Budget,         \* reads one call of uv__read makes at most, 32 in libuv
    Whole           \* the network brings a length field whole, with some body

PACKET_LEN_FIELD_SIZE == 4
PACKET_INVALID == -1

ASSUME ReaderAssumption ==
    /\ Lengths \subseteq Int
    /\ MaxPacketLen \in Nat /\ MaxPacketLen > PACKET_LEN_FIELD_SIZE
    /\ MaxPackets \in Nat
    /\ Budget \in Nat \ {0}
    /\ Whole \in BOOLEAN

VARIABLES
    stream,     \* what the peer has sent: the place and the length of each packet
    arrived,    \* bytes of the stream in reach of read(2), ever
    gone,       \* the peer closed or reset the connection
    taken,      \* bytes of the stream read
    pc,         \* where uv__read is: "poll", "alloc" or "read"
    reads,      \* reads that this call of uv__read may still make
    base,       \* buf.base of uv__read: "field", the start of packet_len, or "other"
    room,       \* buf.len of uv__read
    life,       \* of the handle: "reading", "stopped", "closing" or "closed"
    packet_len, \* client_read_tmp_buf_t.packet_len
    offset,     \* client_read_tmp_buf_t.offset
    body,       \* client_read_tmp_buf_t.buf.base is not NULL
    bodies,     \* bodies allocated, neither freed nor handed over
    got         \* packets handed to read_packet_cb: the place and length of each

netVars  == <<stream, arrived, gone>>
uvVars   == <<taken, pc, reads, base, room, life>>
tmpVars  == <<packet_len, offset, body>>
vars     == <<netVars, uvVars, tmpVars, bodies, got>>

\* A bug to tell apart: a negative length passes for a large one only.
Invalid_Long(len) == len > MaxPacketLen

Invalid(len) == len <= PACKET_LEN_FIELD_SIZE \/ len > MaxPacketLen

\* The peer sends a byte after an invalid length.
EndOf(p) == p.at + (IF Invalid(p.len) THEN PACKET_LEN_FIELD_SIZE + 1 ELSE p.len)

Sent == IF stream = <<>> THEN 0 ELSE EndOf(stream[Len(stream)])

PacketType == [at : Nat, len : Lengths]

TypeOK ==
    /\ stream \in Seq(PacketType)
    /\ arrived \in 0..Sent /\ taken \in 0..arrived
    /\ gone \in BOOLEAN
    /\ pc \in {"poll", "alloc", "read"}
    /\ reads \in 0..Budget
    /\ base \in {"field", "other"}
    /\ room \in 0..MaxPacketLen
    /\ life \in {"reading", "stopped", "closing", "closed"}
    /\ packet_len \in {PACKET_INVALID, 0} \cup Lengths
    /\ offset \in 0..MaxPacketLen
    /\ body \in BOOLEAN
    /\ bodies \in Nat
    /\ got \in Seq(PacketType)

\* After tcp_client_start_read.
Init ==
    /\ stream = <<>> /\ arrived = 0 /\ gone = FALSE
    /\ taken = 0 /\ pc = "poll" /\ reads = 0 /\ base = "other" /\ room = 0
    /\ life = "reading"
    /\ packet_len = 0 /\ offset = 0 /\ body = FALSE
    /\ bodies = 0
    /\ got = <<>>

-----------------------------------------------------------------------------
(* The peer and the network.                                               *)

SendPacket(len) ==
    /\ ~gone /\ Len(stream) < MaxPackets
    /\ stream' = Append(stream, [at |-> Sent, len |-> len])
    /\ UNCHANGED <<arrived, gone, uvVars, tmpVars, bodies, got>>

\* n is not inside a length field, nor at its end.
BetweenFields(n) ==
    \A i \in 1..Len(stream) :
        n \notin stream[i].at + 1 .. stream[i].at + PACKET_LEN_FIELD_SIZE

Arrive ==
    /\ \E n \in arrived + 1 .. Sent :
        /\ Whole => BetweenFields(n)
        /\ arrived' = n
    /\ UNCHANGED <<stream, gone, uvVars, tmpVars, bodies, got>>

PeerGone ==
    /\ ~gone /\ gone' = TRUE
    /\ UNCHANGED <<stream, arrived, uvVars, tmpVars, bodies, got>>

-----------------------------------------------------------------------------
(* uv__read and the callbacks.                                             *)

uv__read ==
    /\ pc = "poll" /\ life = "reading"
    /\ arrived > taken \/ gone
    /\ pc' = "alloc" /\ reads' = Budget /\ base' = "other"
    /\ UNCHANGED <<netVars, taken, room, life, tmpVars, bodies, got>>

\* The lengths that four bytes of the stream, from position n on, may read as.
LengthsAt(n) ==
    {len \in Lengths : \A i \in 1..Len(stream) : stream[i].at = n => stream[i].len = len}

\* decode_int32(buf->base)
Decodable == IF base = "field" THEN LengthsAt(taken - PACKET_LEN_FIELD_SIZE) ELSE Lengths

alloc_field ==
    /\ offset < PACKET_LEN_FIELD_SIZE
    /\ base' = IF offset = 0 THEN "field" ELSE "other"
    /\ room' = PACKET_LEN_FIELD_SIZE - offset
    /\ pc' = "read"
    /\ UNCHANGED <<life, packet_len, body, bodies>>

alloc_body ==
    /\ offset = PACKET_LEN_FIELD_SIZE
    /\ \E len \in Decodable :
        /\ ~Invalid(len)
        /\ packet_len' = len
        /\ room' = len - PACKET_LEN_FIELD_SIZE
    /\ base' = "other" /\ body' = TRUE /\ bodies' = bodies + 1
    /\ pc' = "read"
    /\ UNCHANGED life

\* An empty buffer: libuv calls back with UV_ENOBUFS and the owner is told.  It
\* closes the connection, now or later.
refuse_length ==
    /\ offset = PACKET_LEN_FIELD_SIZE
    /\ \E len \in Decodable : Invalid(len)
    /\ packet_len' = PACKET_INVALID
    /\ base' = "other" /\ room' = 0
    /\ pc' = "poll" /\ life' \in {"stopped", "closing"}
    /\ UNCHANGED <<body, bodies>>

\* A bug to tell apart: the rest of the body is taken for a whole one.
alloc_rest_Whole ==
    /\ offset > PACKET_LEN_FIELD_SIZE
    /\ base' = "other" /\ room' = packet_len
    /\ pc' = "read"
    /\ UNCHANGED <<life, packet_len, body, bodies>>

alloc_rest ==
    /\ offset > PACKET_LEN_FIELD_SIZE
    /\ base' = "other" /\ room' = packet_len - offset
    /\ pc' = "read"
    /\ UNCHANGED <<life, packet_len, body, bodies>>

tcp_client_alloc_cb ==
    /\ pc = "alloc"
    /\ alloc_field \/ alloc_body \/ refuse_length \/ alloc_rest
    /\ UNCHANGED <<netVars, taken, reads, offset, got>>

init_client_read_tmp_buf == packet_len' = 0 /\ offset' = 0 /\ body' = FALSE

\* A bug to tell apart: a body is complete only when one read brings all of it.
Completes_AtOnce(n) ==
    /\ n + PACKET_LEN_FIELD_SIZE = packet_len
    /\ packet_len > PACKET_LEN_FIELD_SIZE

\* A bug to tell apart: off by one.
Completes_Short(n) ==
    /\ n + offset >= packet_len - 1
    /\ packet_len > PACKET_LEN_FIELD_SIZE

Completes(n) == n + offset = packet_len /\ packet_len > PACKET_LEN_FIELD_SIZE

\* The four bytes just read are stored into packet_len; the field that reads
\* as -1 looks like PACKET_INVALID at once.
FieldIsMinusOne(n) ==
    /\ offset + n = PACKET_LEN_FIELD_SIZE
    /\ PACKET_INVALID \in LengthsAt(taken + n - PACKET_LEN_FIELD_SIZE)

\* read(2) brings n bytes.  A read that does not fill the buffer, or the last
\* of the budget, ends uv__read; so does a callback that closes the handle.
LoopGoesOn(n) == n = room /\ reads > 1

hand_over(n) ==
    /\ Completes(n)
    /\ got' = Append(got, [at |-> taken + n - packet_len, len |-> packet_len])
    /\ init_client_read_tmp_buf
    /\ bodies' = bodies - 1
    /\ \/ life' = "reading" /\ pc' = IF LoopGoesOn(n) THEN "alloc" ELSE "poll"
       \/ life' = "closing" /\ pc' = "poll"

continue_read(n) ==
    /\ ~Completes(n)
    /\ \/ /\ FieldIsMinusOne(n)
          /\ packet_len' = PACKET_INVALID
          /\ life' \in {"stopped", "closing"} /\ pc' = "poll"
          /\ UNCHANGED offset
       \/ /\ FieldIsMinusOne(n) => LengthsAt(taken + n - PACKET_LEN_FIELD_SIZE) # {PACKET_INVALID}
          /\ offset' = offset + n
          /\ pc' = IF LoopGoesOn(n) THEN "alloc" ELSE "poll"
          /\ UNCHANGED <<life, packet_len>>
    /\ UNCHANGED <<body, bodies, got>>

tcp_client_read_cb ==
    /\ pc = "read" /\ arrived > taken
    /\ LET n == IF arrived - taken < room THEN arrived - taken ELSE room
       IN  /\ hand_over(n) \/ continue_read(n)
           /\ taken' = taken + n
    /\ reads' = reads - 1
    /\ UNCHANGED <<netVars, base, room>>

\* Nothing to read: nread is 0 and uv__read returns.
read_nothing ==
    /\ pc = "read" /\ arrived = taken /\ ~gone
    /\ pc' = "poll"
    /\ UNCHANGED <<netVars, taken, reads, base, room, life, tmpVars, bodies, got>>

\* A bug to tell apart: the partial body is dropped without being freed.
read_error_Keeps ==
    /\ pc = "read" /\ gone
    /\ init_client_read_tmp_buf
    /\ pc' = "poll" /\ life' \in {"stopped", "closing"}
    /\ UNCHANGED <<netVars, taken, reads, base, room, bodies, got>>

\* nread < 0: end of file or an error, which may overtake bytes that arrived.
read_error ==
    /\ pc = "read" /\ gone
    /\ bodies' = IF body THEN bodies - 1 ELSE bodies
    /\ init_client_read_tmp_buf
    /\ pc' = "poll" /\ life' \in {"stopped", "closing"}
    /\ UNCHANGED <<netVars, taken, reads, base, room, got>>

close_abstract_tcp_client ==
    /\ pc = "poll" /\ life \in {"reading", "stopped"}
    /\ life' = "closing"
    /\ UNCHANGED <<netVars, taken, pc, reads, base, room, tmpVars, bodies, got>>

\* destroy_client_read_tmp_buf frees the body of an unfinished packet.
socket_close_cb ==
    /\ pc = "poll" /\ life = "closing"
    /\ life' = "closed"
    /\ bodies' = IF body THEN bodies - 1 ELSE bodies
    /\ body' = FALSE
    /\ UNCHANGED <<netVars, taken, pc, reads, base, room, packet_len, offset, got>>

-----------------------------------------------------------------------------
Reader == uv__read \/ tcp_client_alloc_cb \/ tcp_client_read_cb \/ read_nothing \/ read_error

Next ==
    \/ \E len \in Lengths : SendPacket(len)
    \/ Arrive
    \/ PeerGone
    \/ Reader
    \/ close_abstract_tcp_client
    \/ socket_close_cb

Spec == Init /\ [][Next]_vars

\* libuv polls while the handle is being read and runs its close callback.
FairSpec == Spec /\ WF_vars(Reader) /\ WF_vars(socket_close_cb)

-----------------------------------------------------------------------------
(* Properties.                                                             *)

\* The packets handed over are those sent, each once, whole and in order, and
\* none with an invalid length ("callback when read package").
PacketsInOrder ==
    \A i \in 1..Len(got) :
        i <= Len(stream) /\ got[i] = stream[i] /\ ~Invalid(got[i].len)

\* A body has one owner, the reader until it hands it over: there is one while
\* it reads one, and none is left behind by an error or by the close.
\* ("free abstract packet if exist.")
BodyOwned ==
    /\ bodies = IF body THEN 1 ELSE 0
    /\ life = "closed" => bodies = 0

\* A valid packet that has arrived behind valid ones is handed over, unless the
\* connection fails or is closed.
PacketDelivered ==
    \A i \in 1..MaxPackets :
        /\ Len(stream) >= i
        /\ \A j \in 1..i : ~Invalid(stream[j].len)
        /\ arrived >= EndOf(stream[i])
        ~> Len(got) >= i \/ life # "reading"
===============================================================================
