---------------------------- MODULE PacketCodec -----------------------------
(***************************************************************************)
(* The framing shared by robot and base station, Robot/include/Packet.h: a *)
(* packet is laid out in a zeroed buffer, COBS-stuffed in place, sent as   *)
(* one datagram, read into a buffer that may hold bytes of earlier ones,   *)
(* unstuffed in place and checked.  Both COBS functions are loops over one *)
(* buffer with uint8_t counters; a step of this module is one iteration.   *)
(***************************************************************************)
EXTENDS Naturals, Sequences

CONSTANTS
    ByteSize,       \* values of a uint8_t
    BufferSize,     \* bytes of the buffers
    HeaderByte,     \* PKT_HEADER_BYTE
    EndByte,        \* PKT_END_BYTE
    Packets,        \* what the Create functions are called with
    Noise,          \* datagrams that no Create function made
    Stale           \* bytes an earlier datagram may have left behind

Byte == 0 .. ByteSize - 1
Index == 0 .. BufferSize - 1
MinSize == 4                                                \* PKT_MIN_SIZE

\* This and the next two are assumed by Parts.
ByteAssumption ==
    /\ ByteSize \in Nat /\ ByteSize > 8
    /\ BufferSize \in Nat /\ BufferSize > 8
    /\ HeaderByte \in Byte \ {0} /\ EndByte \in Byte \ {0}

\* Frame and counters fit: of the packets LAME sends the longest has 16 bytes.
WellFormed(p) ==
    /\ p = [opcode |-> p.opcode, payload |-> p.payload]
    /\ p.opcode \in Byte
    /\ p.payload \in Seq(Byte)
    /\ Len(p.payload) + 6 <= BufferSize
    /\ Len(p.payload) + 6 < ByteSize

PacketAssumption == \A p \in Packets : WellFormed(p)
NoiseAssumption ==
    /\ Stale \subseteq Byte
    /\ \A d \in Noise : d \in Seq(Byte) /\ Len(d) < ByteSize /\ Len(d) <= BufferSize

CodecAssumption == ByteAssumption /\ PacketAssumption /\ NoiseAssumption

VARIABLES
    pc,
    packet,     \* what is being sent, or None
    buf,        \* the sender's buffer, then the receiver's
    len,        \* length: of the packet, then of the datagram
    i,          \* the loop counter of either function
    sec         \* sec_hd of encodeCOBS, sec_end of decodeCOBS

vars == <<pc, packet, buf, len, i, sec>>

None == [opcode |-> 0, payload |-> <<>>]

\* uint8_t arithmetic on sums below 2 * ByteSize.
Wrap(n) == IF n < ByteSize THEN n ELSE n - ByteSize

-----------------------------------------------------------------------------
(* Create...Packet: header, opcode, payload size, payload, end *)

SizeOf(p) == MinSize + Len(p.payload)

Layout(p) ==
    [k \in Index |->
        IF k = 0 THEN HeaderByte
        ELSE IF k = 1 THEN p.opcode
        ELSE IF k = 2 THEN Len(p.payload)
        ELSE IF k < SizeOf(p) - 1 THEN p.payload[k - 2]
        ELSE IF k = SizeOf(p) - 1 THEN EndByte
        ELSE 0]

Init ==
    /\ pc = "idle" /\ packet = None
    /\ buf = [k \in Index |-> 0]
    /\ len = 0 /\ i = 0 /\ sec = 0

\* The least buffer a Create function accepts; three of them forget the two
\* bytes that encodeCOBS adds.
LeastBuffer(p) ==
    SizeOf(p) + (IF Len(p.payload) \in {1, 2, 5} THEN 0 ELSE 2)

Create(p) ==
    /\ pc = "idle"
    /\ BufferSize >= LeastBuffer(p)
    /\ pc' = "encode"
    /\ packet' = p
    /\ buf' = Layout(p)
    /\ len' = SizeOf(p)
    /\ i' = 0 /\ sec' = 0

-----------------------------------------------------------------------------
(* encodeCOBS *)

\* The counter of either loop.
Advance == Wrap(i + 1)

\* The section from sec moves up by one and its length goes before it.
CloseSectionShort ==                                        \* mutant
    [k \in Index |-> IF k = sec THEN i - sec
                     ELSE IF sec < k /\ k <= i THEN buf[k - 1]
                     ELSE buf[k]]

CloseSection ==
    [k \in Index |-> IF k = sec THEN Wrap(i - sec + 1)
                     ELSE IF sec < k /\ k <= i THEN buf[k - 1]
                     ELSE buf[k]]

EncodeByte ==
    /\ pc = "encode"
    /\ i <= len
    /\ IF buf[i] = 0
       THEN buf' = CloseSection /\ sec' = Advance
       ELSE UNCHANGED <<buf, sec>>
    /\ i' = Advance
    /\ UNCHANGED <<pc, packet, len>>

EncodeEnd ==
    /\ pc = "encode"
    /\ i > len
    /\ buf' = [buf EXCEPT ![len + 1] = 0]
    /\ len' = len + 2
    /\ pc' = "framed"
    /\ UNCHANGED <<packet, i, sec>>

-----------------------------------------------------------------------------
(* The datagram arrives: ReadPacketHeader up to the call of decodeCOBS.    *)
(* Bytes of an earlier datagram survive behind the new one when the reader *)
(* skipped its memset.                                                     *)

TooShortLater(length) == length = 0                         \* mutant
TooShort(length) == length < MinSize

Receive(bytes, length, stale) ==
    /\ buf' = [k \in Index |-> IF k < length THEN bytes[k] ELSE stale]
    /\ len' = length
    /\ i' = 0
    /\ sec' = IF length > 0 THEN bytes[0] ELSE stale
    /\ pc' = IF TooShort(length) THEN "rejected" ELSE "decode"

ReceiveFrame(stale) ==
    /\ pc = "framed"
    /\ Receive(buf, len, stale)
    /\ UNCHANGED packet

ReceiveNoise(d, stale) ==
    /\ pc = "idle"
    /\ Receive([k \in 0 .. Len(d) - 1 |-> d[k + 1]], Len(d), stale)
    /\ packet' = None

-----------------------------------------------------------------------------
(* decodeCOBS *)

DecodeInSection ==
    /\ pc = "decode"
    /\ i < len - 2
    /\ i + 1 < sec
    /\ buf' = [buf EXCEPT ![i] = buf[i + 1]]
    /\ IF buf[i + 1] = 0
       THEN pc' = "decoded" /\ UNCHANGED i
       ELSE i' = Advance /\ UNCHANGED pc
    /\ UNCHANGED <<packet, len, sec>>

\* One past the zero that ends the section which begins at i + 1.
NextSectionEarly == Wrap(i + buf[i + 1])                    \* mutant
NextSection == Wrap(sec + buf[i + 1])

DecodeSectionEnd ==
    /\ pc = "decode"
    /\ i < len - 2
    /\ i + 1 >= sec
    /\ buf' = [buf EXCEPT ![i] = 0]
    /\ IF buf[i + 1] = 0
       THEN pc' = "decoded" /\ UNCHANGED <<i, sec>>
       ELSE sec' = NextSection /\ i' = Advance /\ UNCHANGED pc
    /\ UNCHANGED <<packet, len>>

DecodeEnd ==
    /\ pc = "decode"
    /\ i >= len - 2
    /\ pc' = "decoded"
    /\ UNCHANGED <<packet, buf, len, i, sec>>

-----------------------------------------------------------------------------
(* The rest of ReadPacketHeader; i is the decoded length it returns. *)

CheckHeader ==
    /\ pc = "decoded"
    /\ pc' = IF buf[0] = HeaderByte /\ buf[i - 1] = EndByte
             THEN "accepted" ELSE "rejected"
    /\ UNCHANGED <<packet, buf, len, i, sec>>

Opcode == buf[1]
Payload == [k \in 1 .. i - MinSize |-> buf[k + 2]]

\* The next datagram is read into the same buffers.
Done ==
    /\ pc \in {"accepted", "rejected"}
    /\ UNCHANGED vars

Loop ==
    \/ EncodeByte \/ EncodeEnd
    \/ DecodeInSection \/ DecodeSectionEnd \/ DecodeEnd \/ CheckHeader

Next ==
    \/ \E p \in Packets : Create(p)
    \/ \E stale \in Stale : ReceiveFrame(stale)
    \/ \E d \in Noise, stale \in Stale : ReceiveNoise(d, stale)
    \/ Loop
    \/ Done

Spec == Init /\ [][Next]_vars

-----------------------------------------------------------------------------
TypeOK ==
    /\ pc \in {"idle", "encode", "framed", "decode", "decoded", "accepted",
               "rejected"}
    /\ WellFormed(packet)
    /\ buf \in [Index -> Byte]
    /\ len \in 0 .. BufferSize
    /\ i \in Byte
    /\ sec \in Byte

\* A receiver that cuts the stream at zero bytes finds the frame: the only
\* zero of a frame is its last byte (encodeCOBS, Packet.h:93).
FrameHasOneDelimiter ==
    pc = "framed" =>
        /\ len = SizeOf(packet) + 2
        /\ \A k \in 0 .. len - 1 : buf[k] = 0 <=> k = len - 1

\* What is sent is what is read, whatever the read buffer held before: the
\* packet is accepted with its opcode, its payload and its length
\* (decodeCOBS and ReadPacketHeader, Packet.h:117, 155).
RoundTrip ==
    packet # None =>
        /\ pc # "rejected"
        /\ pc = "accepted" => /\ i = SizeOf(packet)
                              /\ Opcode = packet.opcode
                              /\ Payload = packet.payload

\* buffer[length - 1] is read only for a decoded length of one or more, and
\* the loops stay within the datagram, noise included (Packet.h:165).
ReadsInside ==
    /\ pc = "decoded" /\ buf[0] = HeaderByte => i > 0
    /\ pc \in {"decode", "decoded"} => i + 2 <= len

\* The loops' invariant, the reason for these three.  Byte k of a frame is the
\* distance to the next zero of the packet m, of n bytes, when k begins a section
\* and the packet's byte k - 1 otherwise; behind the packet m holds zeros.
Sent == Layout(packet)
Size == SizeOf(packet)

Stuffed(m, n, k, b) ==
    IF k = 0 \/ m[k - 1] = 0
    THEN /\ b \in 1 .. n + 1 - k
         /\ m[k + b - 1] = 0
         /\ \A j \in k .. k + b - 2 : m[j] # 0
    ELSE b = m[k - 1]

\* encodeCOBS: finished sections are stuffed, the rest is still the packet.
EncodeInv ==
    pc = "encode" =>
        /\ len = Size /\ sec <= i /\ i <= Size + 1
        /\ i = Size + 1 => sec = Size + 1
        /\ \A k \in 0 .. sec - 1 : Stuffed(Sent, Size, k, buf[k])
        /\ \A k \in sec .. Size : buf[k] = Sent[k]
        /\ sec = 0 \/ Sent[sec - 1] = 0
        /\ \A j \in sec .. i - 1 : Sent[j] # 0

FrameInv ==
    pc = "framed" =>
        /\ len = Size + 2 /\ buf[Size + 1] = 0
        /\ \A k \in 0 .. Size : Stuffed(Sent, Size, k, buf[k])

\* decodeCOBS: what lies before i is the packet again, what lies behind it is
\* still the frame, and sec is one past the zero that ends the section.
DecodeInv ==
    pc = "decode" /\ packet # None =>
        /\ len = Size + 2 /\ i <= Size
        /\ \A j \in 0 .. i - 1 : buf[j] = Sent[j]
        /\ \A k \in i + 1 .. Size : Stuffed(Sent, Size, k, buf[k])
        /\ i < sec /\ sec <= Size + 1
        /\ Sent[sec - 1] = 0
        /\ \A j \in i .. sec - 2 : Sent[j] # 0

ResultInv ==
    packet # None =>
        /\ pc # "rejected"
        /\ pc \in {"decoded", "accepted"} =>
               i = Size /\ \A j \in 0 .. Size - 1 : buf[j] = Sent[j]

BoundsInv ==
    /\ pc \in {"decode", "decoded"} =>
           len >= MinSize /\ len < ByteSize /\ i + 2 <= len
    /\ pc = "decoded" /\ i = 0 => buf[0] # HeaderByte

CodecInv == TypeOK /\ EncodeInv /\ FrameInv /\ DecodeInv /\ ResultInv /\ BoundsInv
=============================================================================
