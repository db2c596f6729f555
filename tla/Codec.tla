------------------------------- MODULE Codec -------------------------------
(***************************************************************************)
(* Packets as bits (components/dynamic-bits: dpacket.c, dserial.c,         *)
(* dbits.c; the packet table of components/network/packets.c).  A packet   *)
(* is built field by field, serialized without padding into the caller's   *)
(* array, carried to a receiver, and read back field by field with lengths *)
(* that are taken from the bits themselves.  The callers (send_ping,       *)
(* send_discovery_response, listener_listen, discovery_listen,             *)
(* provision_listen) are part of the actions: all do the same around it.   *)
(*                                                                         *)
(* Abstractions.  An integer is the set of its bit positions ({} is 0),    *)
(* two's complement in the width of its type; a double is what frexp makes *)
(* of it, its fraction's bit 0 worth one half; a string is a sequence of   *)
(* bytes.  The bits written are numbered, as are the bits read; where the  *)
(* writer's offsets are after so many of them is counted as the code       *)
(* counts, bit by bit.  What a writer past the end of its array does to    *)
(* the last byte is left out: it is never sent.  Left out too are bits     *)
(* that no SerializePacket wrote, with an id that is not of the table.     *)
(***************************************************************************)
EXTENDS Integers, Sequences, SequencesExt, FiniteSetsExt

CONSTANTS
    Tables,     \* packet tables, one function from id to format each
    Samples,    \* the values of each type that are sent
    SendSizes,  \* sizes of the sender's array
    RecvSizes   \* sizes of the receiver's array

VARIABLES
    table,      \* PACKET_TABLE
    sendSize,   \* size of sendBuffer
    recvSize,   \* size of recvBuffer
    pc,         \* "idle", "add", "serialized", "sent", "decode", and then
                \* "decoded", or "refused" for what the bits say
    id,         \* packet_id
    list,       \* data_list of the packet in hand
    heap,       \* list nodes allocated and not freed
    out,        \* sendBuffer: the bits written; ok: no write was refused
    wire,       \* recvBuffer: its bits and size in bytes
    pos,        \* bits read so far
    sent        \* history: the packet that was sent

rigidVars == <<table, sendSize, recvSize>>
packetVars == <<id, list, heap>>
vars == <<rigidVars, pc, packetVars, out, wire, pos, sent>>

-----------------------------------------------------------------------------
(* Types, and the width of the header that holds a value's length.         *)
Unsigned == {"UINT8", "UINT16", "UINT32", "UINT64"}
Signed == {"INT8", "INT16", "INT32", "INT64"}
Type == Unsigned \cup Signed \cup {"DOUBLE", "BOOLEAN", "UTF8_STRING"}

Width ==
    [UINT8 |-> 8, UINT16 |-> 16, UINT32 |-> 32, UINT64 |-> 64,
     INT8 |-> 8, INT16 |-> 16, INT32 |-> 32, INT64 |-> 64]
HeaderBits ==
    [width \in {8, 16, 32, 64} |->
        CASE width = 8 -> 3 [] width = 16 -> 4 [] width = 32 -> 5
          [] width = 64 -> 6]
MAX_STRING_LENGTH == 255

Byte == SUBSET (0 .. 7)
Value(t) ==
    CASE t \in Unsigned \cup Signed -> SUBSET (0 .. Width[t] - 1)
      [] t = "DOUBLE" -> [neg : BOOLEAN, frac : SUBSET (0 .. 52),
                          exp : SUBSET (0 .. 15)]
      [] t = "BOOLEAN" -> BOOLEAN
      [] t = "UTF8_STRING" -> Seq(Byte)

(* -0.0 is the one value that is not sent as it is: its sign is dropped.   *)
MinusZero(v) == v.neg /\ v.frac = {}

(* The packet table: at most so many packets of so many fields.            *)
PACKET_TABLE_SIZE == 5
MAX_PACKET_FIELDS == 6
PacketId == 0 .. PACKET_TABLE_SIZE - 1
IsFormat(f) == f \in Seq(Type) /\ Len(f) \in 1 .. MAX_PACKET_FIELDS

(* What RegisterNetworkPackets registers: ping, discovery request and      *)
(* acknowledgement, provisioning, lamp state change.                       *)
NetworkPackets ==
    (0 :> <<"UINT8">>)
    @@ (1 :> <<"UINT32", "UINT32">>)
    @@ (2 :> <<"UINT32", "UINT32", "UINT8", "UINT8", "BOOLEAN">>)
    @@ (3 :> <<"UTF8_STRING", "UTF8_STRING", "UINT32">>)
    @@ (4 :> <<"UINT8">>)

(* GetPacketFormat and RegisterPacket refuse what is not of this form; an  *)
(* array holds a packet's id and one more bit at least.                    *)
ASSUME TablesAssumption ==
    \A f \in Tables : DOMAIN f = PacketId /\ \A i \in PacketId : IsFormat(f[i])
ASSUME SamplesAssumption ==
    /\ DOMAIN Samples = Type
    /\ \A t \in Type : \A v \in Samples[t] : v \in Value(t)
    /\ \A v \in Samples["DOUBLE"] : ~MinusZero(v)
ASSUME SizesAssumption ==
    SendSizes \subseteq Nat \ {0, 1} /\ RecvSizes \subseteq Nat \ {0, 1}

-----------------------------------------------------------------------------
(* GetUIntBitsize: 0 takes one bit.                                        *)
Bitsize(v) == IF v = {} THEN 1 ELSE Max(v) + 1

(* Naturals and their bits.                                                *)
Binary(n, width) == {i \in 0 .. width - 1 : (n \div 2 ^ i) % 2 = 1}
Number(v) == MapThenSumSet(LAMBDA i : 2 ^ i, v)

(* -v, and llabs(v), in two's complement of a type's width.                *)
NegateWide(v, width) ==  \* mutant: not narrowed to the type
    {i \in 0 .. 63 : \/ i \in v /\ \A j \in v : i <= j
                     \/ i \notin v /\ \E j \in v : j < i}
Negate(v, width) ==
    {i \in 0 .. width - 1 : \/ i \in v /\ \A j \in v : i <= j
                            \/ i \notin v /\ \E j \in v : j < i}
Magnitude(v, width) == IF width - 1 \in v THEN Negate(v, width) ELSE v

(* A chunk is what is written after one check of the offset.               *)
Chunk(bits, len) == [bits |-> bits, len |-> len]
Header(size, width) ==
    Chunk(Binary(size - 1, HeaderBits[width]), HeaderBits[width])

(* The sign bit, then the size bits of the magnitude.                      *)
SignAnd(neg, magnitude) ==
    Chunk({i + 1 : i \in magnitude} \cup (IF neg THEN {0} ELSE {}),
          1 + Bitsize(magnitude))

UIntChunks(v, width) ==
    <<Header(Bitsize(v), width), Chunk(v, Bitsize(v))>>

IntChunks(v, width) ==
    LET m == Magnitude(v, width)
    IN  <<Header(Bitsize(m), width), SignAnd(width - 1 \in v, m)>>

DoubleChunks(v) ==
    <<Header(Bitsize(v.frac), 64), SignAnd(v.neg /\ v.frac # {}, v.frac)>>
        \o IntChunks(v.exp, 16)

BooleanChunks(v) == <<Chunk(IF v THEN {0} ELSE {}, 1)>>

(* Length and bytes of a string: only the length is written checked.       *)
StringChunks(v) ==
    LET len == Binary(Len(v), 8)
        bytes == UNION {{8 * (k - 1) + i : i \in v[k]} : k \in DOMAIN v}
    IN  <<Header(Bitsize(len), 8),
          Chunk(len \cup {Bitsize(len) + i : i \in bytes},
                Bitsize(len) + 8 * Len(v))>>

Chunks(t, v) ==
    CASE t \in Unsigned -> UIntChunks(v, Width[t])
      [] t \in Signed -> IntChunks(v, Width[t])
      [] t = "DOUBLE" -> DoubleChunks(v)
      [] t = "BOOLEAN" -> BooleanChunks(v)
      [] t = "UTF8_STRING" -> StringChunks(v)

(* The callers give the array's size less one as buffer_size.              *)
Room(size) == size - 1

(* Before a bit is written, size_off moves on to the next byte, up to      *)
(* buffer_size; bit_off, an unsigned char, goes on if it cannot.           *)
Off == [size_off : Nat, bit_off : 0 .. 255]
IncrementUpTo(o, buffer_size) ==  \* mutant: one byte too far
    IF o.bit_off = 8 /\ o.size_off <= buffer_size
    THEN [size_off |-> o.size_off + 1, bit_off |-> 0]
    ELSE o
SizeIncrementCheck(o, buffer_size) ==
    IF o.bit_off = 8 /\ o.size_off < buffer_size
    THEN [size_off |-> o.size_off + 1, bit_off |-> 0]
    ELSE o
BitWritten(buffer_size) ==
    [o \in Off |->
        LET c == SizeIncrementCheck(o, buffer_size)
        IN  [size_off |-> c.size_off, bit_off |-> (c.bit_off + 1) % 256]]

(* The offsets after each number of bits.                                  *)
FirstOff == [size_off |-> 0, bit_off |-> 0]
Offs(buffer_size) ==
    LET off[n \in Nat] ==
            IF n = 0 THEN FirstOff ELSE BitWritten(buffer_size)[off[n - 1]]
    IN  off
SizeOff(n) == Offs(Room(sendSize))[n].size_off
BitOff(n) == Offs(Room(sendSize))[n].bit_off

Write(o, c) ==
    IF ~o.ok \/ BitOff(o.len) > 8 THEN [o EXCEPT !.ok = FALSE]
    ELSE [bits |-> o.bits \cup {o.len + i : i \in c.bits},
          len |-> o.len + c.len, ok |-> TRUE]

(* SerializePacket into an array that memset has cleared.                  *)
Cleared == [bits |-> {}, len |-> 0, ok |-> TRUE]
Serialized(i, vs) ==
    LET fields == [k \in DOMAIN vs |-> Chunks(table[i][k], vs[k])]
    IN  FoldLeft(Write, Cleared,
                 Chunks("UINT8", Binary(i, 8)) \o FlattenSeq(fields))

-----------------------------------------------------------------------------
(* Deserialization.  Past the received bytes there is a terminating 0, and *)
(* the pointer stays on it.                                                *)
ReadBits(p, n) ==
    {i \in 0 .. n - 1 : p + i < 8 * wire.size /\ p + i \in wire.bits}

(* DeserializeArgCheck: bytes are left.  A string or double moves to the   *)
(* next byte before it looks.                                              *)
BytesLeftAnyway(p) == TRUE  \* mutant: *m_bytes == 0 is not looked at
BytesLeft(p) == p <= 8 * wire.size
BytesLeftAhead(p) == p < 8 * wire.size

Read(ok, value, p) == [ok |-> ok, value |-> value, pos |-> p]

SizeFrom(p, n) == 1 + Number(ReadBits(p, n))

ReadUInt(p, width) ==
    LET body == p + HeaderBits[width]
        n == SizeFrom(p, HeaderBits[width])
    IN  Read(BytesLeft(p) /\ BytesLeft(body), ReadBits(body, n), body + n)

ReadInt(p, width) ==
    LET body == p + HeaderBits[width]
        n == SizeFrom(p, HeaderBits[width])
        m == ReadBits(body + 1, n)
    IN  Read(BytesLeft(p) /\ BytesLeft(body),
             IF 0 \in ReadBits(body, 1) THEN Negate(m, width) ELSE m,
             body + 1 + n)

ReadBoolean(p) == Read(BytesLeft(p), 0 \in ReadBits(p, 1), p + 1)

(* Between the header and the exponent nothing is checked.                 *)
ReadDouble(p) ==
    LET body == p + HeaderBits[64]
        n == SizeFrom(p, HeaderBits[64])
        e == ReadInt(body + 1 + n, 16)
    IN  Read(BytesLeftAhead(p) /\ e.ok,
             [neg |-> 0 \in ReadBits(body, 1),
              frac |-> ReadBits(body + 1, n), exp |-> e.value],
             e.pos)

(* The bytes are not checked; AddUTF8StringSerializable refuses an empty   *)
(* string.                                                                 *)
LengthAllowed(n) == n \in 1 .. MAX_STRING_LENGTH - 1
ReadString(p) ==
    LET len == ReadUInt(p, 8)
        n == Number(len.value)
    IN  Read(BytesLeftAhead(p) /\ len.ok /\ LengthAllowed(n),
             [k \in 1 .. n |-> ReadBits(len.pos + 8 * (k - 1), 8)],
             len.pos + 8 * n)

ReadField(t, p) ==
    CASE t \in Unsigned -> ReadUInt(p, Width[t])
      [] t \in Signed -> ReadInt(p, Width[t])
      [] t = "DOUBLE" -> ReadDouble(p)
      [] t = "BOOLEAN" -> ReadBoolean(p)
      [] t = "UTF8_STRING" -> ReadString(p)

-----------------------------------------------------------------------------
NoPacket == [id |-> 0, fields |-> <<>>]
Nothing == [bits |-> {}, size |-> 0]

Init ==
    /\ table \in Tables
    /\ sendSize \in SendSizes
    /\ recvSize \in RecvSizes
    /\ pc = "idle"
    /\ id = 0
    /\ list = <<>>
    /\ heap = 0
    /\ out = Cleared
    /\ wire = Nothing
    /\ pos = 0
    /\ sent = NoPacket

(* A node for one more field.                                              *)
Add(v) == heap' = heap + 1 /\ list' = Append(list, v)

FreePacket ==
    /\ heap' = heap - Len(list)
    /\ list' = <<>>
    /\ UNCHANGED id

NextType == table[id][Len(list) + 1]
Complete == Len(list) = Len(table[id])

(* The arrays are cleared before they are used.                            *)
NewPacket(i) ==
    /\ pc = "idle"
    /\ pc' = "add"
    /\ id' = i
    /\ list' = <<>>
    /\ out' = Cleared
    /\ wire' = Nothing
    /\ pos' = 0
    /\ sent' = NoPacket
    /\ UNCHANGED <<rigidVars, heap>>

(* AddSerializable, and AddUTF8StringSerializable for strings.             *)
AddSerializable(stype, v) ==
    /\ pc = "add" /\ ~Complete
    /\ stype = NextType
    /\ stype = "UTF8_STRING" => LengthAllowed(Len(v))
    /\ Add(v)
    /\ UNCHANGED <<rigidVars, pc, id, out, wire, pos, sent>>

(* No memory, or a string that is refused: the caller frees the packet.    *)
AddSerializableFails ==
    /\ pc = "add" /\ ~Complete
    /\ pc' = "idle"
    /\ FreePacket
    /\ UNCHANGED <<rigidVars, out, wire, pos, sent>>

SerializePacket ==
    /\ pc = "add" /\ Complete
    /\ pc' = "serialized"
    /\ out' = Serialized(id, list)
    /\ UNCHANGED <<rigidVars, packetVars, wire, pos, sent>>

(* out_size, and the caller's check of it.                                 *)
OutSize == SizeOff(out.len) + 1
FitsAll == out.ok /\ OutSize <= sendSize  \* mutant: > for >=
Fits == out.ok /\ OutSize < sendSize

SendPacket ==
    /\ pc = "serialized" /\ Fits
    /\ pc' = "sent"
    /\ sent' = [id |-> id, fields |-> list]
    /\ LET size == OutSize
       IN  wire' = [bits |-> {i \in out.bits : i < 8 * size}, size |-> size]
    /\ FreePacket
    /\ UNCHANGED <<rigidVars, out, pos>>

RefuseToSend ==
    /\ pc = "serialized" /\ ~Fits
    /\ pc' = "idle"
    /\ FreePacket
    /\ UNCHANGED <<rigidVars, out, wire, pos, sent>>

(* The receiver reads no more than its array holds with the final 0; then  *)
(* DeserializeBuffer reads the id and looks the format up.                 *)
ReceivePacket ==
    /\ pc = "sent"
    /\ wire' = [wire EXCEPT !.size = Min({wire.size, recvSize - 1})]
    /\ LET r == ReadUInt(0, 8)'
       IN  /\ r.ok /\ Number(r.value) \in PacketId
           /\ id' = Number(r.value)
           /\ pos' = r.pos
    /\ pc' = "decode"
    /\ list' = <<>>
    /\ UNCHANGED <<rigidVars, heap, out, sent>>

DeserializeField ==
    /\ pc = "decode" /\ ~Complete
    /\ LET r == ReadField(NextType, pos)
       IN  r.ok /\ Add(r.value) /\ pos' = r.pos
    /\ UNCHANGED <<rigidVars, pc, id, out, wire, sent>>

Deserialized ==
    /\ pc = "decode" /\ Complete
    /\ pc' = "decoded"
    /\ UNCHANGED <<rigidVars, packetVars, out, wire, pos, sent>>

RefuseFieldLeak ==  \* mutant: FreePacket is forgotten
    /\ pc = "decode" /\ ~Complete
    /\ ~ReadField(NextType, pos).ok
    /\ pc' = "refused"
    /\ UNCHANGED <<rigidVars, packetVars, out, wire, pos, sent>>
RefuseField ==
    /\ pc = "decode" /\ ~Complete
    /\ ~ReadField(NextType, pos).ok
    /\ pc' = "refused"
    /\ FreePacket
    /\ UNCHANGED <<rigidVars, out, wire, pos, sent>>

DeserializeOutOfMemory ==
    /\ pc = "decode" /\ ~Complete
    /\ ReadField(NextType, pos).ok
    /\ pc' = "idle"
    /\ FreePacket
    /\ UNCHANGED <<rigidVars, out, wire, pos, sent>>

(* The caller frees what it was given, and nothing after a refusal.        *)
Done ==
    /\ \/ pc = "decoded" /\ FreePacket
       \/ pc = "refused" /\ UNCHANGED packetVars
    /\ pc' = "idle"
    /\ UNCHANGED <<rigidVars, out, wire, pos, sent>>

Next ==
    \/ \E i \in PacketId : NewPacket(i)
    \/ \E t \in Type : \E v \in Samples[t] : AddSerializable(t, v)
    \/ AddSerializableFails
    \/ SerializePacket \/ SendPacket \/ RefuseToSend
    \/ ReceivePacket
    \/ DeserializeField \/ Deserialized
    \/ RefuseField \/ DeserializeOutOfMemory
    \/ Done

Spec == Init /\ [][Next]_vars

-----------------------------------------------------------------------------
(* Every variable keeps its type; a value read has the width of its type.  *)
TypeOK ==
    /\ pc \in {"idle", "add", "serialized", "sent", "decode", "decoded",
              "refused"}
    /\ id \in PacketId
    /\ Len(list) <= Len(table[id])
    /\ \A k \in DOMAIN list : list[k] \in Value(table[id][k])
    /\ heap \in Nat /\ pos \in Nat
    /\ out.len \in Nat /\ out.bits \subseteq 0 .. out.len - 1
    /\ out.ok \in BOOLEAN
    /\ wire.size \in Nat /\ wire.bits \subseteq Nat

(* The receiver's array was too small for what was sent.                   *)
Cut == wire.size < OutSize

(* A packet that SerializePacket and the caller's check let through, and   *)
(* that arrives whole, is read back value for value and never refused:     *)
(* what did not fit in the array was not sent.                             *)
RoundTrip ==
    pc \in {"decoded", "refused"} /\ ~Cut =>
        pc = "decoded" /\ sent = [id |-> id, fields |-> list]

(* No bit is written past the end of the caller's array, however much is   *)
(* serialized.  What keeps it so is the check before every bit and that    *)
(* every caller gives one byte less than it has: buffer[buffer_size], past *)
(* the buffer_size bytes of dbits.h:12, is written.                        *)
WritesWithinArray == SizeOff(out.len) < sendSize

(* A packet whose end was cut off is refused, or else only its last field  *)
(* differs from what was sent: every field before it was read whole.       *)
CutTouchesOnlyLast ==
    pc = "decoded" =>
        /\ id = sent.id /\ Len(list) = Len(sent.fields)
        /\ \A k \in 1 .. Len(list) - 1 : list[k] = sent.fields[k]

(* Every way out of building or reading a packet gives its nodes back.     *)
NodesAccounted ==
    heap = IF pc \in {"idle", "sent", "refused"} THEN 0 ELSE Len(list)
=============================================================================
