------------------------- MODULE PacketReader_proofs -------------------------
(***************************************************************************)
(* Proofs about module PacketReader, for packets of any length and number, *)
(* when the network and libuv never part a length field from its body:     *)
(* the network when it brings the field whole with some of the body, libuv *)
(* when no call of uv__read spends the last of its reads on a field.       *)
(***************************************************************************)
EXTENDS PacketReader, TLAPS

\* No call of uv__read ends with the read of a field.
FieldNotLast == pc = "read" /\ arrived > taken /\ offset < PACKET_LEN_FIELD_SIZE => reads > 1

\* Packets are sent one behind the other.
StreamInv ==
    /\ Len(stream) <= MaxPackets
    /\ \A i \in 1..Len(stream) :
        /\ i = 1 => stream[i].at = 0
        /\ i > 1 => stream[i].at = EndOf(stream[i - 1])
    /\ \A i, j \in 1..Len(stream) : i < j => EndOf(stream[i]) <= stream[j].at
    /\ BetweenFields(arrived)

\* The packet being read, and the place it starts at.
Current == Len(got) + 1
Start == IF got = <<>> THEN 0 ELSE EndOf(got[Len(got)])

\* A body is being read, its length known.
InBody ==
    /\ body
    /\ Current <= Len(stream)
    /\ packet_len = stream[Current].len
    /\ ~Invalid(packet_len)
    /\ offset < packet_len
    /\ pc = "read" => room = packet_len - offset

\* Where the reader is in its packet, and that it is at the same place in the
\* stream: at the start, between the field and the body, or inside the body.
InStep ==
    /\ taken = Start + offset
    /\ \/ /\ offset = 0 /\ packet_len = 0 /\ ~body
          /\ pc = "read" => room = PACKET_LEN_FIELD_SIZE /\ base = "field"
       \/ /\ offset = PACKET_LEN_FIELD_SIZE
          /\ arrived > taken
          /\ \/ pc = "alloc" /\ base = "field" /\ packet_len = 0 /\ ~body
             \/ pc = "read" /\ InBody
       \/ offset > PACKET_LEN_FIELD_SIZE /\ InBody

\* uv__read reads only while its budget lasts.
ReadsInv == pc # "poll" => reads >= 1

LifeInv ==
    /\ life = "reading" => InStep
    /\ life # "reading" => pc = "poll"
    /\ life = "closed" => ~body

IInv ==
    /\ TypeOK
    /\ StreamInv
    /\ PacketsInOrder
    /\ LifeInv
    /\ ReadsInv
    /\ bodies = IF body THEN 1 ELSE 0

-----------------------------------------------------------------------------
(* Facts about the stream.                                                 *)

\* A packet ends behind its length field and at least one byte more.
LEMMA EndsLater ==
    ASSUME NEW p \in PacketType
    PROVE  EndOf(p) \in Nat /\ EndOf(p) > p.at + PACKET_LEN_FIELD_SIZE
<1>1. p.at \in Nat /\ p.len \in Int  BY ReaderAssumption DEF PacketType
<1>2. CASE Invalid(p.len)  BY <1>1, <1>2 DEF EndOf, PACKET_LEN_FIELD_SIZE
<1>3. CASE ~Invalid(p.len)
  BY <1>1, <1>3, ReaderAssumption DEF EndOf, Invalid, PACKET_LEN_FIELD_SIZE
<1>4. QED  BY <1>2, <1>3

\* All that was sent ends where the last packet ends.
LEMMA SentEnds ==
    ASSUME TypeOK, StreamInv
    PROVE  /\ Sent \in Nat
           /\ \A i \in 1..Len(stream) : EndOf(stream[i]) <= Sent
<1>1. CASE stream = <<>>
  <2>1. Sent = 0 /\ Len(stream) = 0  BY <1>1 DEF Sent
  <2>2. QED  BY <2>1
<1>2. CASE stream # <<>>
  <2>1. Len(stream) \in 1..Len(stream)  BY <1>2 DEF TypeOK
  <2>2. Sent = EndOf(stream[Len(stream)])  BY <1>2 DEF Sent
  <2>3. \A i \in 1..Len(stream) :
            EndOf(stream[i]) \in Nat /\ stream[i].at \in Nat /\ EndOf(stream[i]) > stream[i].at
    <3> TAKE i \in 1..Len(stream)
    <3>1. stream[i] \in PacketType  BY DEF TypeOK
    <3>2. stream[i].at \in Nat  BY <3>1 DEF PacketType
    <3>3. QED  BY <3>1, <3>2, EndsLater DEF PACKET_LEN_FIELD_SIZE
  <2>4. \A i \in 1..Len(stream) : i < Len(stream) => EndOf(stream[i]) <= stream[Len(stream)].at
    BY <2>1 DEF StreamInv
  <2>5. QED  BY <2>1, <2>2, <2>3, <2>4 DEF TypeOK
<1>3. QED  BY <1>1, <1>2

\* The place the reader is at lies in the stream; when more has arrived there
\* is a packet that starts there, and its field is followed by some body.
LEMMA NextPacket ==
    ASSUME Whole, IInv
    PROVE  /\ Start \in Nat /\ Len(got) \in Nat /\ Len(got) <= Len(stream)
           /\ arrived > Start =>
                /\ Current \in 1..Len(stream)
                /\ stream[Current] \in PacketType
                /\ stream[Current].at = Start
                /\ arrived > Start + PACKET_LEN_FIELD_SIZE
<1> USE DEF IInv
<1>1. Len(got) \in Nat /\ Len(stream) \in Nat  BY DEF TypeOK
<1>2. Len(got) <= Len(stream)
  <2>1. Len(got) > 0 => Len(got) \in 1..Len(got)  BY <1>1
  <2>2. QED  BY <1>1, <2>1 DEF PacketsInOrder
<1>3. got = <<>> <=> Len(got) = 0  BY DEF TypeOK
<1>4. Len(got) > 0 =>
        /\ got[Len(got)] = stream[Len(got)]
        /\ Start = EndOf(stream[Len(got)])
        /\ EndOf(stream[Len(got)]) \in Nat
  <2>1. Len(got) > 0 => Len(got) \in 1..Len(got) /\ Len(got) \in 1..Len(stream)
    BY <1>1, <1>2
  <2>2. QED  BY <2>1, <1>3, EndsLater DEF PacketsInOrder, Start, TypeOK
<1>5. Start \in Nat  BY <1>1, <1>3, <1>4 DEF Start
<1>6. ASSUME arrived > Start
      PROVE  Current \in 1..Len(stream) /\ stream[Current].at = Start
  <2>1. Len(got) # Len(stream)
    <3>1. CASE Len(got) = 0
      <4>1. Len(stream) = 0 => stream = <<>>  BY DEF TypeOK
      <4>2. Len(stream) = 0 => arrived <= 0  BY <4>1 DEF TypeOK, Sent
      <4>3. QED  BY <3>1, <4>2, <1>3, <1>6 DEF Start, TypeOK
    <3>2. CASE Len(got) > 0
      <4>1. Len(got) = Len(stream) => stream # <<>> /\ Start = Sent
        BY <3>2, <1>4 DEF Sent
      <4>2. arrived <= Sent /\ Sent \in Nat  BY SentEnds DEF TypeOK
      <4>3. QED  BY <4>1, <4>2, <1>6, <1>5 DEF TypeOK
    <3>3. QED  BY <3>1, <3>2, <1>1
  <2>2. Current \in 1..Len(stream)  BY <2>1, <1>1, <1>2 DEF Current
  <2>3. stream[Current].at = Start
    <3>1. CASE Len(got) = 0  BY <3>1, <2>2, <1>3 DEF StreamInv, Current, Start
    <3>2. CASE Len(got) > 0
      <4>1. Current > 1 /\ Current - 1 = Len(got)  BY <3>2, <1>1 DEF Current
      <4>2. QED  BY <4>1, <2>2, <1>4, <3>2 DEF StreamInv
    <3>3. QED  BY <3>1, <3>2, <1>1
  <2>4. QED  BY <2>2, <2>3
<1>7. ASSUME arrived > Start
      PROVE  stream[Current] \in PacketType /\ arrived > Start + PACKET_LEN_FIELD_SIZE
  <2>1. stream[Current] \in PacketType  BY <1>6, <1>7 DEF TypeOK
  <2>2. arrived \notin Start + 1 .. Start + PACKET_LEN_FIELD_SIZE
    BY <1>6, <1>7 DEF StreamInv, BetweenFields
  <2>3. arrived \in Nat  BY SentEnds DEF TypeOK
  <2>4. QED  BY <2>1, <2>2, <2>3, <1>5, <1>7 DEF PACKET_LEN_FIELD_SIZE
<1>8. QED  BY <1>1, <1>2, <1>5, <1>6, <1>7

-----------------------------------------------------------------------------
(* The invariant holds at the start and is kept by every step.             *)

\* tcp_client_start_read establishes the invariant.
LEMMA InitIInv == ASSUME Init PROVE IInv
<1>1. Sent = 0 /\ Len(stream) = 0 /\ Len(got) = 0  BY DEF Init, Sent
<1>2. TypeOK
  <2>1. stream \in Seq(PacketType) /\ got \in Seq(PacketType)  BY DEF Init
  <2>2. /\ arrived \in 0..Sent /\ taken \in 0..arrived
        /\ reads \in 0..Budget /\ room \in 0..MaxPacketLen /\ offset \in 0..MaxPacketLen
    BY <1>1, ReaderAssumption DEF Init
  <2>3. QED  BY <2>1, <2>2 DEF Init, TypeOK
<1>3. StreamInv  BY <1>1, ReaderAssumption DEF Init, StreamInv, BetweenFields
<1>4. PacketsInOrder  BY <1>1 DEF PacketsInOrder
<1>5. LifeInv  BY DEF Init, LifeInv, InStep, Start
<1>6. QED  BY <1>2, <1>3, <1>4, <1>5 DEF Init, IInv, ReadsInv

\* A packet more in the stream leaves the earlier ones where they are.
LEMMA SendStep ==
    ASSUME Whole, IInv, NEW len \in Lengths, SendPacket(len)
    PROVE  IInv'
<1> DEFINE new == [at |-> Sent, len |-> len]
           last == Len(stream) + 1
<1> USE DEF IInv
<1>0. stream \in Seq(PacketType) /\ got \in Seq(PacketType)  BY DEF TypeOK
<1>1. Sent \in Nat /\ \A i \in 1..Len(stream) : EndOf(stream[i]) <= Sent
  BY SentEnds
<1>2. new \in PacketType  BY <1>1 DEF PacketType
<1>3. stream' = Append(stream, new)  BY DEF SendPacket
<1>4. /\ stream' \in Seq(PacketType) /\ Len(stream') = last
      /\ stream'[last] = new
      /\ \A i \in 1..Len(stream) : stream'[i] = stream[i]
  BY <1>0, <1>2, <1>3
<1>5. EndOf(new) \in Nat /\ EndOf(new) > Sent
  BY <1>1, <1>2, EndsLater DEF PACKET_LEN_FIELD_SIZE
<1>6. Sent' = EndOf(new)
  <2>1. stream' # <<>>  BY <1>3, <1>0, <1>2
  <2>2. Sent' = EndOf(stream'[last])  BY <2>1, <1>4 DEF Sent, EndOf, Invalid
  <2>3. QED  BY <2>2, <1>4
<1>7. TypeOK'  BY <1>1, <1>4, <1>5, <1>6 DEF TypeOK, SendPacket, uvVars, tmpVars
<1>8. StreamInv'
  <2>1. Len(stream) \in Nat /\ Len(stream') <= MaxPackets
    BY <1>0, <1>4, ReaderAssumption DEF SendPacket
  <2>2. ASSUME NEW i \in 1..Len(stream')
        PROVE  /\ i = 1 => stream'[i].at = 0
               /\ i > 1 => stream'[i].at = EndOf(stream'[i - 1])
    <3>1. CASE i \in 1..Len(stream)
      BY <3>1, <1>4, <2>1 DEF StreamInv
    <3>2. CASE i = last
      <4>1. stream'[i].at = Sent  BY <3>2, <1>4
      <4>2. CASE Len(stream) = 0
        <5>1. stream = <<>>  BY <4>2, <1>0
        <5>2. QED  BY <4>1, <4>2, <5>1, <3>2 DEF Sent
      <4>3. CASE Len(stream) > 0
        <5>1. stream # <<>> /\ i - 1 = Len(stream) /\ Len(stream) \in 1..Len(stream)
          BY <4>3, <3>2, <2>1
        <5>2. Sent = EndOf(stream[i - 1]) /\ stream'[i - 1] = stream[i - 1]
          BY <5>1, <1>4 DEF Sent
        <5>3. QED  BY <4>1, <5>2, <5>1
      <4>4. QED  BY <4>2, <4>3, <2>1
    <3>3. QED  BY <3>1, <3>2, <2>1, <1>4
  <2>3. ASSUME NEW i \in 1..Len(stream'), NEW j \in 1..Len(stream'), i < j
        PROVE  EndOf(stream'[i]) <= stream'[j].at
    <3>1. i \in 1..Len(stream) /\ stream'[i] = stream[i]  BY <2>1, <2>3, <1>4
    <3>2. CASE j \in 1..Len(stream)  BY <3>1, <3>2, <2>3, <1>4 DEF StreamInv
    <3>3. CASE j = last
      <4>1. stream'[j].at = Sent  BY <3>3, <1>4
      <4>2. QED  BY <4>1, <3>1, <1>1
    <3>4. QED  BY <3>2, <3>3, <2>1, <1>4
  <2>4. BetweenFields(arrived)'
    <3> SUFFICES ASSUME NEW i \in 1..Len(stream')
                 PROVE  arrived \notin stream'[i].at + 1 .. stream'[i].at + PACKET_LEN_FIELD_SIZE
      BY DEF BetweenFields, SendPacket
    <3>1. CASE i \in 1..Len(stream)
      BY <3>1, <1>4 DEF StreamInv, BetweenFields
    <3>2. CASE i = last
      <4>1. stream'[i].at = Sent  BY <3>2, <1>4
      <4>2. arrived \in 0..Sent  BY DEF TypeOK
      <4>3. QED  BY <4>1, <4>2, <1>1 DEF PACKET_LEN_FIELD_SIZE
    <3>3. QED  BY <3>1, <3>2, <2>1, <1>4
  <2>5. QED  BY <2>1, <2>2, <2>3, <2>4 DEF StreamInv, EndOf, Invalid
<1>9. PacketsInOrder'
  <2>1. Len(stream) \in Nat /\ Len(got) \in Nat  BY <1>0
  <2>2. QED  BY <2>1, <1>4 DEF PacketsInOrder, SendPacket, Invalid
<1>10. InBody => InBody'
  <2>1. Len(stream) \in Nat /\ Len(got) \in Nat  BY <1>0
  <2>2. Current' = Current  BY DEF Current, SendPacket
  <2>3. Current <= Len(stream) => Current \in 1..Len(stream)  BY <2>1 DEF Current
  <2>4. QED  BY <2>1, <2>2, <2>3, <1>4 DEF InBody, Invalid, SendPacket, uvVars, tmpVars
<1>11. LifeInv'
  BY <1>10 DEF LifeInv, InStep, Start, EndOf, Invalid, SendPacket, uvVars, tmpVars
<1>12. QED  BY <1>7, <1>8, <1>9, <1>11 DEF ReadsInv, SendPacket, uvVars, tmpVars

\* More of the stream in reach: the reader falls behind, and stays in step.
LEMMA ArriveStep == ASSUME Whole, IInv, Arrive PROVE IInv'
<1> USE DEF IInv
<1>1. PICK n \in arrived + 1 .. Sent : BetweenFields(n) /\ arrived' = n
  BY DEF Arrive
<1>2. arrived \in Nat /\ Sent \in Nat /\ taken \in Nat  BY SentEnds DEF TypeOK
<1>3. Sent' = Sent  BY DEF Sent, EndOf, Invalid, Arrive
<1>4. TypeOK'  BY <1>1, <1>2, <1>3 DEF TypeOK, Arrive, uvVars, tmpVars
<1>5. StreamInv'
  <2>1. BetweenFields(arrived)'  BY <1>1 DEF BetweenFields, Arrive
  <2>2. QED  BY <2>1 DEF StreamInv, EndOf, Invalid, Arrive
<1>6. PacketsInOrder'  BY DEF PacketsInOrder, Invalid, Arrive
<1>7. LifeInv'
  <2>1. arrived > taken => arrived' > taken  BY <1>1, <1>2
  <2>2. InBody' = InBody  BY DEF InBody, Current, Invalid, Arrive, uvVars, tmpVars
  <2>3. Start' = Start  BY DEF Start, EndOf, Invalid, Arrive
  <2>4. QED  BY <2>1, <2>2, <2>3 DEF LifeInv, InStep, Arrive, uvVars, tmpVars
<1>8. QED  BY <1>4, <1>5, <1>6, <1>7 DEF ReadsInv, Arrive, uvVars, tmpVars

\* A step that leaves the stream, what was read of it and what was handed over
\* leaves what the invariant says of them.
LEMMA SameStream ==
    ASSUME TypeOK, StreamInv, PacketsInOrder, UNCHANGED <<stream, arrived, got>>
    PROVE  /\ StreamInv' /\ PacketsInOrder'
           /\ Sent' = Sent /\ Start' = Start /\ Current' = Current
<1>1. StreamInv'  BY DEF StreamInv, BetweenFields, EndOf, Invalid
<1>2. PacketsInOrder'  BY DEF PacketsInOrder, Invalid
<1>3. Sent' = Sent /\ Start' = Start /\ Current' = Current
  BY DEF Sent, Start, Current, EndOf, Invalid
<1>4. QED  BY <1>1, <1>2, <1>3

\* The end of the connection is seen by the reader only when it reads.
LEMMA GoneStep == ASSUME Whole, IInv, PeerGone PROVE IInv'
<1> USE DEF IInv, PeerGone, uvVars, tmpVars
<1>1. StreamInv' /\ PacketsInOrder' /\ Sent' = Sent /\ Start' = Start /\ Current' = Current
  BY SameStream
<1>2. TypeOK'  BY <1>1 DEF TypeOK
<1>3. InBody' = InBody  BY <1>1 DEF InBody, Invalid
<1>4. LifeInv'  BY <1>1, <1>3 DEF LifeInv, InStep
<1>5. QED  BY <1>1, <1>2, <1>4 DEF ReadsInv

\* A call of uv__read starts with its budget, never between a field and a body.
LEMMA PollStep == ASSUME Whole, IInv, uv__read PROVE IInv'
<1> USE DEF IInv, uv__read, netVars, tmpVars
<1>1. StreamInv' /\ PacketsInOrder' /\ Sent' = Sent /\ Start' = Start /\ Current' = Current
  BY SameStream
<1>2. TypeOK'  BY <1>1, ReaderAssumption DEF TypeOK
<1>3. InBody => InBody'  BY <1>1 DEF InBody, Invalid
<1>4. LifeInv'  BY <1>1, <1>3 DEF LifeInv, InStep
<1>5. ReadsInv'  BY ReaderAssumption DEF ReadsInv
<1>6. QED  BY <1>1, <1>2, <1>4, <1>5

\* A buffer for the field, for a body or for the rest of one; the length is the
\* one the peer wrote, because the field was read by the same uv__read.
LEMMA AllocStep == ASSUME Whole, IInv, tcp_client_alloc_cb PROVE IInv'
<1> USE DEF IInv
<1>0. /\ pc = "alloc" /\ UNCHANGED <<stream, arrived, gone, taken, reads, offset, got>>
      /\ offset \in Nat
  BY DEF tcp_client_alloc_cb, netVars, TypeOK
<1>1. StreamInv' /\ PacketsInOrder' /\ Sent' = Sent /\ Start' = Start /\ Current' = Current
  BY <1>0, SameStream
<1>2. life = "reading" /\ InStep  BY <1>0 DEF LifeInv
<1>3. CASE alloc_field
  <2>1. offset = 0 /\ packet_len = 0 /\ ~body
    BY <1>2, <1>3, <1>0 DEF InStep, alloc_field, PACKET_LEN_FIELD_SIZE
  <2>2. TypeOK'
    BY <1>0, <1>1, <1>3, <2>1, ReaderAssumption DEF TypeOK, alloc_field, PACKET_LEN_FIELD_SIZE
  <2>3. LifeInv'
    BY <1>0, <1>1, <1>2, <1>3, <2>1 DEF LifeInv, InStep, alloc_field, PACKET_LEN_FIELD_SIZE
  <2>4. QED  BY <1>0, <1>1, <1>3, <2>2, <2>3 DEF ReadsInv, alloc_field
<1>4. CASE alloc_body
  <2>1. /\ offset = PACKET_LEN_FIELD_SIZE /\ arrived > taken /\ taken = Start + offset
        /\ base = "field" /\ ~body
    BY <1>0, <1>2, <1>4 DEF InStep, alloc_body, InBody, PACKET_LEN_FIELD_SIZE
  <2>2. arrived > Start /\ taken - PACKET_LEN_FIELD_SIZE = Start
    BY <2>1, NextPacket, SentEnds DEF TypeOK, PACKET_LEN_FIELD_SIZE
  <2>3. Current \in 1..Len(stream) /\ stream[Current].at = Start
    BY <2>2, NextPacket
  <2>4. PICK len \in Decodable :
            ~Invalid(len) /\ packet_len' = len /\ room' = len - PACKET_LEN_FIELD_SIZE
    BY <1>4 DEF alloc_body
  <2>5. len \in Lengths /\ len = stream[Current].len
    BY <2>1, <2>2, <2>3, <2>4 DEF Decodable, LengthsAt
  <2>6. len \in Nat /\ len > PACKET_LEN_FIELD_SIZE /\ len <= MaxPacketLen
    BY <2>4, <2>5, ReaderAssumption DEF Invalid, PACKET_LEN_FIELD_SIZE
  <2>7. TypeOK'
    BY <1>0, <1>1, <1>4, <2>4, <2>5, <2>6, ReaderAssumption
       DEF TypeOK, alloc_body, PACKET_LEN_FIELD_SIZE
  <2>8. InBody'
    BY <1>0, <1>1, <1>4, <2>1, <2>3, <2>4, <2>5, <2>6
       DEF InBody, alloc_body, Invalid, PACKET_LEN_FIELD_SIZE
  <2>9. LifeInv'
    BY <1>0, <1>1, <1>2, <1>4, <2>1, <2>8 DEF LifeInv, InStep, alloc_body
  <2>10. QED
    BY <1>0, <1>1, <1>4, <2>1, <2>7, <2>9 DEF ReadsInv, alloc_body
<1>5. CASE refuse_length
  BY <1>0, <1>1, <1>5, ReaderAssumption
     DEF TypeOK, LifeInv, ReadsInv, refuse_length, PACKET_LEN_FIELD_SIZE
<1>6. CASE alloc_rest
  <2>1. InBody /\ offset > PACKET_LEN_FIELD_SIZE
    BY <1>2, <1>6, <1>0 DEF InStep, alloc_rest, PACKET_LEN_FIELD_SIZE
  <2>2. packet_len \in Nat /\ offset < packet_len /\ packet_len <= MaxPacketLen
    BY <2>1, ReaderAssumption DEF InBody, Invalid, TypeOK, PACKET_INVALID, PACKET_LEN_FIELD_SIZE
  <2>3. TypeOK'
    BY <1>0, <1>1, <1>6, <2>2, ReaderAssumption DEF TypeOK, alloc_rest
  <2>4. InBody'
    BY <1>0, <1>1, <1>6, <2>1 DEF InBody, alloc_rest, Invalid
  <2>5. LifeInv'
    BY <1>0, <1>1, <1>2, <1>6, <2>1, <2>4 DEF LifeInv, InStep, alloc_rest
  <2>6. QED  BY <1>0, <1>1, <1>6, <2>3, <2>5 DEF ReadsInv, alloc_rest
<1>7. QED  BY <1>3, <1>4, <1>5, <1>6 DEF tcp_client_alloc_cb

\* What a read brings, and the reads that are left when it does.
LEMMA ReadFacts ==
    ASSUME Whole, FieldNotLast, IInv, pc = "read", arrived > taken, NEW n,
           n = IF arrived - taken < room THEN arrived - taken ELSE room
    PROVE  /\ life = "reading" /\ taken = Start + offset
           /\ Current \in 1..Len(stream) /\ stream[Current] \in PacketType
           /\ stream[Current].at = Start
           /\ n \in Nat /\ n >= 1 /\ n <= room /\ taken + n \in 0..arrived
           /\ reads \in Nat /\ reads >= 1 /\ (offset = 0 => reads > 1)
           /\ \/ offset = 0 /\ packet_len = 0 /\ ~body /\ base = "field" /\ n = PACKET_LEN_FIELD_SIZE
                 /\ room = n /\ arrived > taken + n
              \/ /\ offset >= PACKET_LEN_FIELD_SIZE /\ InBody
                 /\ room = packet_len - offset /\ packet_len \in Nat
                 /\ packet_len > PACKET_LEN_FIELD_SIZE /\ packet_len <= MaxPacketLen
<1> USE DEF IInv
<1>1. life = "reading" /\ InStep  BY DEF LifeInv
<1>2. /\ arrived \in Nat /\ taken \in Nat /\ offset \in Nat /\ room \in Nat /\ reads \in Nat
      /\ packet_len \in Int
  BY SentEnds, ReaderAssumption DEF TypeOK, PACKET_INVALID
<1>3. taken = Start + offset /\ Start \in Nat  BY <1>1, NextPacket DEF InStep
<1>4. arrived > Start  BY <1>2, <1>3
<1>5. /\ Current \in 1..Len(stream) /\ stream[Current] \in PacketType
      /\ stream[Current].at = Start /\ arrived > Start + PACKET_LEN_FIELD_SIZE
  BY <1>4, NextPacket
<1>6. \/ offset = 0 /\ packet_len = 0 /\ ~body /\ room = PACKET_LEN_FIELD_SIZE /\ base = "field"
      \/ offset >= PACKET_LEN_FIELD_SIZE /\ InBody
  BY <1>1, <1>2 DEF InStep, PACKET_LEN_FIELD_SIZE
<1>7. ASSUME offset >= PACKET_LEN_FIELD_SIZE, InBody
      PROVE  /\ room = packet_len - offset /\ packet_len \in Nat /\ offset < packet_len
             /\ packet_len > PACKET_LEN_FIELD_SIZE /\ packet_len <= MaxPacketLen
  BY <1>2, <1>7, ReaderAssumption DEF InBody, Invalid, PACKET_LEN_FIELD_SIZE
<1>8. n \in Nat /\ n >= 1 /\ n <= room /\ taken + n \in 0..arrived
  BY <1>2, <1>6, <1>7 DEF PACKET_LEN_FIELD_SIZE
<1>9. reads >= 1 /\ (offset = 0 => reads > 1)
  BY DEF ReadsInv, FieldNotLast, PACKET_LEN_FIELD_SIZE
<1>10. QED
  <2>1. CASE offset >= PACKET_LEN_FIELD_SIZE /\ InBody
    <3>1. /\ room = packet_len - offset /\ packet_len \in Nat
          /\ packet_len > PACKET_LEN_FIELD_SIZE /\ packet_len <= MaxPacketLen
      BY <2>1, <1>7
    <3>2. QED  BY <1>1, <1>2, <1>3, <1>5, <1>8, <1>9, <2>1, <3>1
  <2>2. CASE offset = 0 /\ packet_len = 0 /\ ~body /\ room = PACKET_LEN_FIELD_SIZE /\ base = "field"
    <3>1. n = PACKET_LEN_FIELD_SIZE /\ room = n /\ arrived > taken + n
      BY <2>2, <1>2, <1>3, <1>5 DEF PACKET_LEN_FIELD_SIZE
    <3>2. QED  BY <1>1, <1>2, <1>3, <1>5, <1>8, <1>9, <2>2, <3>1
  <2>3. QED  BY <1>6, <2>1, <2>2

\* A read brings the whole field, or some of the body; with the last of the body
\* the packet that the peer sent is handed over.
LEMMA ReadStep == ASSUME Whole, FieldNotLast, IInv, tcp_client_read_cb PROVE IInv'
<1> DEFINE n == IF arrived - taken < room THEN arrived - taken ELSE room
<1> USE DEF IInv
<1>0. /\ pc = "read" /\ arrived > taken /\ (hand_over(n) \/ continue_read(n))
      /\ taken' = taken + n /\ reads' = reads - 1
      /\ UNCHANGED <<stream, arrived, gone, base, room>>
  BY DEF tcp_client_read_cb, netVars
<1>1. /\ life = "reading" /\ taken = Start + offset
      /\ Current \in 1..Len(stream) /\ stream[Current] \in PacketType
      /\ stream[Current].at = Start
      /\ n \in Nat /\ n >= 1 /\ n <= room /\ taken + n \in 0..arrived
      /\ reads \in Nat /\ reads >= 1 /\ (offset = 0 => reads > 1)
      /\ \/ offset = 0 /\ packet_len = 0 /\ ~body /\ base = "field" /\ n = PACKET_LEN_FIELD_SIZE
            /\ room = n /\ arrived > taken + n
         \/ /\ offset >= PACKET_LEN_FIELD_SIZE /\ InBody
            /\ room = packet_len - offset /\ packet_len \in Nat
            /\ packet_len > PACKET_LEN_FIELD_SIZE /\ packet_len <= MaxPacketLen
  BY <1>0, ReadFacts
<1>2. /\ arrived \in Nat /\ taken \in Nat /\ offset \in Nat /\ room \in Nat
      /\ packet_len \in Int /\ Start \in Nat /\ Len(got) \in Nat /\ Budget \in Nat
      /\ reads \in 0..Budget /\ offset <= MaxPacketLen /\ MaxPacketLen \in Nat
  BY SentEnds, NextPacket, ReaderAssumption DEF TypeOK, PACKET_INVALID
<1>3. Sent' = Sent /\ StreamInv' /\ taken' \in 0..arrived' /\ reads' \in 0..Budget
  BY <1>0, <1>1, <1>2 DEF Sent, EndOf, Invalid, StreamInv, BetweenFields
<1> HIDE DEF n
<1>4. CASE hand_over(n)
  <2> DEFINE p == [at |-> taken + n - packet_len, len |-> packet_len]
  <2>1. n + offset = packet_len /\ packet_len > PACKET_LEN_FIELD_SIZE
    BY <1>4 DEF hand_over, Completes
  <2>2. offset >= PACKET_LEN_FIELD_SIZE /\ InBody
    BY <1>1, <2>1 DEF PACKET_LEN_FIELD_SIZE
  <2>3. packet_len = stream[Current].len /\ ~Invalid(packet_len) /\ body
    BY <2>2 DEF InBody
  <2>4. p = stream[Current]
    <3>1. taken + n - packet_len = Start  BY <1>1, <1>2, <2>1
    <3>2. QED  BY <3>1, <2>3, <1>1 DEF PacketType
  <2>5. got' = Append(got, p)  BY <1>4 DEF hand_over
  <2>6. /\ got' \in Seq(PacketType) /\ Len(got') = Current /\ got'[Current] = stream[Current]
        /\ \A i \in 1..Len(got) : got'[i] = got[i]
    <3>1. got \in Seq(PacketType) /\ p \in PacketType  BY <1>1, <2>4 DEF TypeOK
    <3>2. QED  BY <3>1, <2>4, <2>5 DEF Current
  <2>7. packet_len' = 0 /\ offset' = 0 /\ body' = FALSE /\ bodies' = 0
    BY <1>4, <2>3 DEF hand_over, init_client_read_tmp_buf
  <2>8. \/ life' = "reading" /\ pc' \in {"alloc", "poll"}
        \/ life' = "closing" /\ pc' = "poll"
    BY <1>4 DEF hand_over
  <2>9. TypeOK'
    <3>1. packet_len' \in {PACKET_INVALID, 0} \cup Lengths /\ body' \in BOOLEAN
      BY <2>7
    <3>2. offset' \in 0..MaxPacketLen /\ bodies' \in Nat  BY <2>7, <1>2
    <3>3. /\ life' \in {"reading", "stopped", "closing", "closed"}
          /\ pc' \in {"poll", "alloc", "read"}
      BY <2>8
    <3>4. QED  BY <1>0, <1>3, <2>6, <3>1, <3>2, <3>3 DEF TypeOK
  <2>10. PacketsInOrder'
    <3> SUFFICES ASSUME NEW i \in 1..Len(got')
                 PROVE  i <= Len(stream) /\ got'[i] = stream[i] /\ ~Invalid(got'[i].len)
      BY <1>0 DEF PacketsInOrder, Invalid
    <3>1. CASE i = Current  BY <3>1, <2>6, <2>3, <1>1
    <3>2. CASE i \in 1..Len(got)  BY <3>2, <2>6 DEF PacketsInOrder
    <3>3. QED  BY <3>1, <3>2, <2>6, <1>2 DEF Current
  <2>11. Start' = taken'
    <3>1. Start' = EndOf(got'[Current])
      <4>1. got' # <<>>  BY <2>6, <1>1
      <4>2. QED  BY <4>1, <2>6 DEF Start, EndOf, Invalid
    <3>2. EndOf(got'[Current]) = Start + packet_len
      BY <2>6, <2>3, <1>1 DEF EndOf
    <3>3. QED  BY <3>1, <3>2, <1>0, <1>1, <1>2, <2>1
  <2>12. LifeInv'
    <3>1. InStep'  BY <2>7, <2>8, <2>11, <1>2, <1>0 DEF InStep
    <3>2. QED  BY <3>1, <2>7, <2>8 DEF LifeInv
  <2>13. ReadsInv'
    BY <1>0, <1>1, <1>2, <1>4 DEF ReadsInv, hand_over, LoopGoesOn
  <2>14. QED  BY <1>3, <2>7, <2>9, <2>10, <2>12, <2>13
<1>5. CASE continue_read(n)
  <2>1. /\ ~Completes(n) /\ UNCHANGED <<body, bodies, got>>
    BY <1>5 DEF continue_read
  <2>2. PacketsInOrder' /\ Start' = Start /\ Current' = Current
    BY <1>0, <2>1, SameStream
  <2>3. CASE packet_len' = PACKET_INVALID /\ life' \in {"stopped", "closing"} /\ pc' = "poll"
             /\ offset' = offset
    BY <2>1, <2>2, <2>3, <1>0, <1>3 DEF TypeOK, LifeInv, ReadsInv
  <2>4. CASE offset' = offset + n /\ pc' = (IF LoopGoesOn(n) THEN "alloc" ELSE "poll")
             /\ life' = life /\ packet_len' = packet_len
    <3>1. CASE offset = 0 /\ packet_len = 0 /\ ~body /\ base = "field"
               /\ n = PACKET_LEN_FIELD_SIZE /\ room = n /\ arrived > taken + n
      <4>1. pc' = "alloc"  BY <2>4, <3>1, <1>1 DEF LoopGoesOn
      <4>2. offset' = PACKET_LEN_FIELD_SIZE /\ base' = "field" /\ packet_len' = 0 /\ ~body'
        BY <2>1, <2>4, <3>1, <1>0 DEF PACKET_LEN_FIELD_SIZE
      <4>3. taken' = Start' + offset' /\ arrived' > taken'
        BY <1>0, <1>1, <1>2, <2>2, <3>1, <4>2
      <4>4. TypeOK'
        BY <1>0, <1>2, <1>3, <2>1, <2>4, <4>1, <4>2, ReaderAssumption
           DEF TypeOK, PACKET_LEN_FIELD_SIZE
      <4>5. LifeInv'
        BY <4>1, <4>2, <4>3, <1>1, <2>4 DEF LifeInv, InStep
      <4>6. ReadsInv'  BY <1>0, <1>1, <1>2, <3>1 DEF ReadsInv
      <4>7. QED  BY <1>3, <2>1, <2>2, <4>4, <4>5, <4>6
    <3>2. CASE /\ offset >= PACKET_LEN_FIELD_SIZE /\ InBody
               /\ room = packet_len - offset /\ packet_len \in Nat
               /\ packet_len > PACKET_LEN_FIELD_SIZE /\ packet_len <= MaxPacketLen
      <4>1. n < room /\ offset' < packet_len /\ offset' > PACKET_LEN_FIELD_SIZE
            /\ offset' \in 0..MaxPacketLen
        <5>1. n + offset # packet_len  BY <2>1, <3>2 DEF Completes
        <5>2. n <= packet_len - offset  BY <1>1, <3>2
        <5>3. offset' = offset + n  BY <2>4
        <5>4. n \in Nat /\ n >= 1 /\ offset \in Nat /\ MaxPacketLen \in Nat  BY <1>1, <1>2
        <5>5. n < room  BY <5>1, <5>2, <5>4, <3>2
        <5>6. QED  BY <5>1, <5>2, <5>3, <5>4, <5>5, <3>2 DEF PACKET_LEN_FIELD_SIZE
      <4>2. pc' = "poll"  BY <2>4, <4>1, <1>2, <1>1 DEF LoopGoesOn
      <4>3. InBody'
        BY <1>0, <2>1, <2>2, <2>4, <3>2, <4>1, <4>2 DEF InBody, Invalid
      <4>4. taken' = Start' + offset'  BY <1>0, <1>1, <1>2, <2>2, <2>4
      <4>5. TypeOK'
        BY <1>0, <1>3, <2>1, <2>4, <4>1, <4>2 DEF TypeOK
      <4>6. LifeInv'
        BY <4>1, <4>2, <4>3, <4>4, <1>1, <2>4 DEF LifeInv, InStep
      <4>7. QED  BY <1>3, <2>1, <2>2, <4>2, <4>5, <4>6 DEF ReadsInv
    <3>3. QED  BY <1>1, <3>1, <3>2
  <2>5. QED  BY <1>5, <2>3, <2>4 DEF continue_read
<1>6. QED  BY <1>0, <1>4, <1>5

\* Nothing to read, an error and the close end a call of uv__read.
LEMMA EndStep ==
    ASSUME Whole, IInv,
           read_nothing \/ read_error \/ close_abstract_tcp_client \/ socket_close_cb
    PROVE  IInv'
<1> USE DEF IInv, netVars, uvVars, tmpVars
<1>0. UNCHANGED <<stream, arrived, got, taken, reads, base, room>> /\ pc' = "poll"
  BY DEF read_nothing, read_error, close_abstract_tcp_client, socket_close_cb
<1>1. StreamInv' /\ PacketsInOrder' /\ Sent' = Sent /\ Start' = Start /\ Current' = Current
  BY <1>0, SameStream
<1>2. ReadsInv'  BY <1>0 DEF ReadsInv
<1>3. CASE read_nothing
  <2>1. arrived \in Nat /\ arrived = taken
    BY <1>3, SentEnds DEF TypeOK, read_nothing
  <2>2. TypeOK'  BY <1>0, <1>1, <1>3 DEF TypeOK, read_nothing
  <2>3. InBody => InBody'  BY <1>0, <1>1, <1>3 DEF InBody, Invalid, read_nothing
  <2>4. LifeInv'
    BY <1>0, <1>1, <1>3, <2>1, <2>3 DEF LifeInv, InStep, read_nothing, PACKET_LEN_FIELD_SIZE
  <2>5. QED  BY <1>1, <1>2, <1>3, <2>2, <2>4 DEF read_nothing
<1>4. CASE read_error
  <2>0. bodies' = 0
    <3>1. bodies' = IF body THEN bodies - 1 ELSE bodies  BY <1>4 DEF read_error
    <3>2. QED  BY <3>1
  <2>1. /\ packet_len' = 0 /\ offset' = 0 /\ body' = FALSE
        /\ life' \in {"stopped", "closing"} /\ gone' = gone
    BY <1>4 DEF read_error, init_client_read_tmp_buf
  <2>2. 0 \in 0..MaxPacketLen  BY ReaderAssumption
  <2>3. TypeOK'  BY <1>0, <1>1, <2>0, <2>1, <2>2 DEF TypeOK
  <2>4. LifeInv'  BY <1>0, <2>1 DEF LifeInv
  <2>5. QED  BY <1>1, <1>2, <2>0, <2>1, <2>3, <2>4
<1>5. CASE close_abstract_tcp_client
  BY <1>0, <1>1, <1>2, <1>5 DEF TypeOK, LifeInv, close_abstract_tcp_client
<1>6. CASE socket_close_cb
  <2>0. bodies' = 0
    <3>1. bodies' = IF body THEN bodies - 1 ELSE bodies  BY <1>6 DEF socket_close_cb
    <3>2. QED  BY <3>1
  <2>1. /\ body' = FALSE /\ life' = "closed"
        /\ gone' = gone /\ packet_len' = packet_len /\ offset' = offset
    BY <1>6 DEF socket_close_cb
  <2>2. TypeOK'  BY <1>0, <1>1, <2>0, <2>1 DEF TypeOK
  <2>3. LifeInv'  BY <1>0, <2>1 DEF LifeInv
  <2>4. QED  BY <1>1, <1>2, <2>0, <2>1, <2>2, <2>3
<1>7. QED  BY <1>3, <1>4, <1>5, <1>6

LEMMA StutterStep == ASSUME IInv, UNCHANGED vars PROVE IInv'
<1> USE DEF IInv, vars, netVars, uvVars, tmpVars
<1>1. StreamInv' /\ PacketsInOrder' /\ Sent' = Sent /\ Start' = Start /\ Current' = Current
  BY SameStream
<1>2. TypeOK'  BY <1>1 DEF TypeOK
<1>3. InBody' = InBody  BY <1>1 DEF InBody, Invalid
<1>4. LifeInv'  BY <1>1, <1>3 DEF LifeInv, InStep
<1>5. QED  BY <1>1, <1>2, <1>4 DEF ReadsInv

-----------------------------------------------------------------------------
(* Theorems.                                                               *)

\* One step of the reader, the network or the peer.
LEMMA Step == ASSUME Whole, FieldNotLast, IInv, [Next]_vars PROVE IInv'
<1>1. ASSUME NEW len \in Lengths, SendPacket(len) PROVE IInv'  BY <1>1, SendStep
<1>2. CASE Arrive  BY <1>2, ArriveStep
<1>3. CASE PeerGone  BY <1>3, GoneStep
<1>4. CASE uv__read  BY <1>4, PollStep
<1>5. CASE tcp_client_alloc_cb  BY <1>5, AllocStep
<1>6. CASE tcp_client_read_cb  BY <1>6, ReadStep
<1>7. CASE read_nothing \/ read_error \/ close_abstract_tcp_client \/ socket_close_cb
  BY <1>7, EndStep
<1>8. CASE UNCHANGED vars  BY <1>8, StutterStep
<1>9. QED
  BY <1>1, <1>2, <1>3, <1>4, <1>5, <1>6, <1>7, <1>8 DEF Next, Reader

\* The reader never loses its place in the stream: it knows where the packet it
\* reads starts, its length, and owns one body while it reads one
\* (tcp_client_alloc_cb, tcp_client_read_cb).
THEOREM InPlace == ASSUME Whole PROVE Spec /\ []FieldNotLast => []IInv
<1>1. Init => IInv  BY InitIInv
<1>2. IInv /\ FieldNotLast /\ [Next]_vars => IInv'  BY Step
<1>3. QED  BY <1>1, <1>2, PTL DEF Spec

\* The packets handed to read_packet_cb are those the peer sent, each once, whole
\* and in order, however the network cuts their bodies.
THEOREM InOrder == ASSUME Whole PROVE Spec /\ []FieldNotLast => []PacketsInOrder
<1>1. IInv => PacketsInOrder  BY DEF IInv
<1>2. QED  BY <1>1, InPlace, PTL

\* A body that tcp_client_alloc_cb allocates is handed over or freed, once.
THEOREM OneOwner == ASSUME Whole PROVE Spec /\ []FieldNotLast => []BodyOwned
<1>1. IInv => BodyOwned  BY DEF IInv, LifeInv, BodyOwned
<1>2. QED  BY <1>1, InPlace, PTL

\* The offset, the room of a buffer and the length stay within a packet's bounds
\* (MAX_PACKET_LEN).
THEOREM ReaderTypes == ASSUME Whole PROVE Spec /\ []FieldNotLast => []TypeOK
<1>1. IInv => TypeOK  BY DEF IInv
<1>2. QED  BY <1>1, InPlace, PTL

-----------------------------------------------------------------------------
(* A connection that carries no more packets than one call of uv__read may *)
(* read, with one read for each field and one for each body.               *)

ReadsLeft ==
    pc # "poll" =>
        Budget - reads <= 2 * Len(got) + (IF offset = PACKET_LEN_FIELD_SIZE THEN 1 ELSE 0)

\* A field is read for a packet that is not handed over yet, so reads are left.
LEMMA ReadsSuffice ==
    ASSUME Budget >= 2 * MaxPackets, Whole, IInv, ReadsLeft
    PROVE  FieldNotLast
<1> SUFFICES ASSUME arrived > taken, pc = "read", offset < PACKET_LEN_FIELD_SIZE PROVE reads > 1
  BY DEF FieldNotLast
<1> USE DEF IInv
<1>1. /\ arrived \in Nat /\ taken \in Nat /\ offset \in Nat /\ reads \in Nat
      /\ Budget \in Nat /\ MaxPackets \in Nat
  BY SentEnds, ReaderAssumption DEF TypeOK
<1>2. taken = Start + offset  BY DEF LifeInv, InStep
<1>3. Len(got) \in Nat /\ Len(got) + 1 <= MaxPackets
  BY <1>1, <1>2, NextPacket DEF Current, StreamInv
<1>4. Budget - reads <= 2 * Len(got)
  BY <1>1, <1>3 DEF ReadsLeft, PACKET_LEN_FIELD_SIZE
<1>5. QED  BY <1>1, <1>3, <1>4

\* Two reads for each packet handed over, one for a field.
LEMMA ReadsLeftStep ==
    ASSUME Budget >= 2 * MaxPackets, Whole, IInv, ReadsLeft, [Next]_vars
    PROVE  ReadsLeft'
<1> USE DEF netVars, uvVars, tmpVars
<1>1. CASE UNCHANGED <<pc, reads, got, offset>>  BY <1>1 DEF ReadsLeft
<1>2. CASE pc' = "poll"  BY <1>2 DEF ReadsLeft
<1>3. CASE uv__read
  <2>1. Len(got) \in Nat /\ Budget \in Nat  BY ReaderAssumption DEF IInv, TypeOK
  <2>2. QED  BY <2>1, <1>3 DEF ReadsLeft, uv__read, PACKET_LEN_FIELD_SIZE
<1>4. CASE tcp_client_alloc_cb  BY <1>4 DEF ReadsLeft, tcp_client_alloc_cb
<1>5. CASE tcp_client_read_cb
  <2> DEFINE n == IF arrived - taken < room THEN arrived - taken ELSE room
  <2>1. /\ pc = "read" /\ arrived > taken /\ (hand_over(n) \/ continue_read(n))
        /\ reads' = reads - 1
    BY <1>5 DEF tcp_client_read_cb
  <2>2. /\ \/ offset = 0 /\ packet_len = 0 /\ n = PACKET_LEN_FIELD_SIZE
           \/ offset >= PACKET_LEN_FIELD_SIZE /\ packet_len \in Nat /\ room = packet_len - offset
        /\ n \in Nat /\ n <= room /\ reads \in Nat
    BY <2>1, ReadsSuffice, ReadFacts
  <2>3. Len(got) \in Nat /\ Budget \in Nat /\ offset \in Nat
    BY NextPacket, ReaderAssumption DEF IInv, TypeOK
  <2> HIDE DEF n
  <2>4. CASE hand_over(n)
    <3>1. Len(got') = Len(got) + 1 /\ offset' = 0
      BY <2>4 DEF hand_over, init_client_read_tmp_buf, IInv, TypeOK
    <3>2. Budget - reads <= 2 * Len(got) + 1  BY <2>1, <2>2, <2>3 DEF ReadsLeft
    <3>3. QED  BY <2>1, <2>2, <2>3, <3>1, <3>2 DEF ReadsLeft, PACKET_LEN_FIELD_SIZE
  <2>5. CASE continue_read(n)
    <3>1. got' = got  BY <2>5 DEF continue_read
    <3>2. CASE offset = 0 /\ packet_len = 0 /\ n = PACKET_LEN_FIELD_SIZE
      <4>1. Budget - reads <= 2 * Len(got)
        BY <2>1, <2>2, <2>3, <3>2 DEF ReadsLeft, PACKET_LEN_FIELD_SIZE
      <4>2. pc' = "poll" \/ offset' = PACKET_LEN_FIELD_SIZE
        BY <2>5, <3>2 DEF continue_read, PACKET_LEN_FIELD_SIZE
      <4>3. QED  BY <2>1, <2>2, <2>3, <3>1, <4>1, <4>2 DEF ReadsLeft
    <3>3. CASE offset >= PACKET_LEN_FIELD_SIZE /\ packet_len \in Nat /\ room = packet_len - offset
      <4>1. InBody
        BY <2>1, <3>3 DEF IInv, LifeInv, InStep, PACKET_LEN_FIELD_SIZE
      <4>2. packet_len > PACKET_LEN_FIELD_SIZE
        BY <4>1, <3>3, ReaderAssumption DEF InBody, Invalid, PACKET_LEN_FIELD_SIZE
      <4>3. n + offset # packet_len  BY <2>5, <4>2 DEF continue_read, Completes
      <4>4. n # room  BY <2>2, <2>3, <3>3, <4>3
      <4>5. pc' = "poll"  BY <2>5, <4>4 DEF continue_read, LoopGoesOn
      <4>6. QED  BY <4>5, <1>2
    <3>4. QED  BY <2>2, <3>2, <3>3
  <2>6. QED  BY <2>1, <2>4, <2>5
<1>6. CASE Next
  <2>1. (\E len \in Lengths : SendPacket(len)) \/ Arrive \/ PeerGone
            => UNCHANGED <<pc, reads, got, offset>>
    BY DEF SendPacket, Arrive, PeerGone
  <2>2. read_nothing \/ read_error \/ close_abstract_tcp_client \/ socket_close_cb => pc' = "poll"
    BY DEF read_nothing, read_error, close_abstract_tcp_client, socket_close_cb
  <2>3. QED  BY <1>6, <1>1, <1>2, <1>3, <1>4, <1>5, <2>1, <2>2 DEF Next, Reader
<1>7. QED  BY <1>1, <1>6 DEF vars, uvVars, tmpVars

\* On a connection of a few packets no burst makes libuv part a field from its
\* body: the packets are handed over as sent (the 32 reads of uv__read).
THEOREM FewPackets ==
    ASSUME Whole, Budget >= 2 * MaxPackets
    PROVE  Spec => []FieldNotLast /\ []PacketsInOrder /\ []BodyOwned
<1>1. Init => IInv /\ ReadsLeft  BY InitIInv DEF Init, ReadsLeft
<1>2. IInv /\ ReadsLeft => FieldNotLast  BY ReadsSuffice
<1>3. IInv /\ ReadsLeft /\ [Next]_vars => IInv' /\ ReadsLeft'
  BY <1>2, Step, ReadsLeftStep
<1>4. Spec => []FieldNotLast  BY <1>1, <1>2, <1>3, PTL DEF Spec
<1>5. QED  BY <1>4, InOrder, OneOwner, PTL
===============================================================================
