-------------------------- MODULE PacketCodecProofs -------------------------
(***************************************************************************)
(* Framing loses nothing, for every packet that fits the uint8_t counters: *)
(* a frame has one zero, its last byte, and reading it gives the packet    *)
(* back whatever the read buffer held.  The induction over the bytes is    *)
(* the one the two loops make: CodecInv says what one iteration keeps.     *)
(***************************************************************************)
EXTENDS PacketCodec, TLAPS

USE DEF ByteAssumption, Byte, Index, MinSize, Sent, Size, Advance, TooShort

\* What Layout puts where.
LEMMA LayoutFacts ==
    ASSUME ByteAssumption, NEW p, WellFormed(p)
    PROVE  LET m == Layout(p)  n == SizeOf(p)
           IN  /\ n \in Nat /\ 4 <= n /\ n + 2 <= BufferSize /\ n + 2 < ByteSize
               /\ Len(p.payload) \in Nat /\ n = Len(p.payload) + 4
               /\ m \in [Index -> Byte]
               /\ m[0] = HeaderByte /\ m[1] = p.opcode /\ m[n - 1] = EndByte
               /\ \A k \in Index : k >= n => m[k] = 0
               /\ \A k \in 1 .. Len(p.payload) : m[k + 2] = p.payload[k]
<1> DEFINE m == Layout(p)
<1> DEFINE n == SizeOf(p)
<1>1. Len(p.payload) \in Nat /\ \A k \in 1 .. Len(p.payload) : p.payload[k] \in Byte
  BY DEF WellFormed
<1>2. /\ n \in Nat /\ 4 <= n /\ n + 2 <= BufferSize
      /\ n + 2 < ByteSize /\ n = Len(p.payload) + 4
  BY <1>1 DEF WellFormed, SizeOf
<1>3. \A k \in Index :
         m[k] = IF k = 0 THEN HeaderByte
                ELSE IF k = 1 THEN p.opcode
                ELSE IF k = 2 THEN Len(p.payload)
                ELSE IF k < n - 1 THEN p.payload[k - 2]
                ELSE IF k = n - 1 THEN EndByte
                ELSE 0
  BY DEF Layout
<1>4. \A k \in Index : m[k] \in Byte
  <2> TAKE k \in Index
  <2>1. CASE 2 < k /\ k < n - 1
    <3>1. k - 2 \in 1 .. Len(p.payload)
      BY <1>2, <2>1
    <3> QED
      BY <1>1, <1>3, <2>1, <3>1
  <2>2. CASE ~(2 < k /\ k < n - 1)
    <3>1. p.opcode \in Byte /\ Len(p.payload) \in Byte
      BY <1>1, <1>2 DEF WellFormed
    <3> QED
      BY <1>2, <1>3, <2>2, <3>1
  <2> QED
    BY <2>1, <2>2
<1>5. m \in [Index -> Byte]
  <2>1. m = [k \in Index |-> m[k]]
    BY DEF Layout
  <2> QED
    BY <1>4, <2>1
<1>6. m[0] = HeaderByte /\ m[1] = p.opcode /\ m[n - 1] = EndByte
  BY <1>2, <1>3
<1>7. \A k \in Index : k >= n => m[k] = 0
  BY <1>2, <1>3
<1>8. \A k \in 1 .. Len(p.payload) : m[k + 2] = p.payload[k]
  <2> TAKE k \in 1 .. Len(p.payload)
  <2>1. k + 2 \in Index /\ k + 2 < n - 1 /\ k + 2 > 2 /\ (k + 2) - 2 = k
    BY <1>1, <1>2
  <2> QED
    BY <2>1, <1>3
<1> QED
  BY <1>1, <1>2, <1>5, <1>6, <1>7, <1>8

\* A stuffed byte of a frame is never the delimiter.
LEMMA StuffedNonZero ==
    ASSUME ByteAssumption, NEW m, NEW n \in Nat, NEW k \in 0 .. n, NEW b, Stuffed(m, n, k, b)
    PROVE  b # 0
BY DEF Stuffed

-----------------------------------------------------------------------------
(* Initial states *)

LEMMA InitInv == ByteAssumption /\ Init => CodecInv
<1> SUFFICES ASSUME ByteAssumption, Init PROVE CodecInv
  OBVIOUS
<1>1. WellFormed(None)
  BY DEF WellFormed, None
<1>2. TypeOK
  BY <1>1 DEF Init, TypeOK
<1> QED
  BY <1>2 DEF Init, CodecInv, EncodeInv, FrameInv, DecodeInv, ResultInv, BoundsInv

-----------------------------------------------------------------------------
(* Steps, from here on with the invariant before the step *)

\* Create lays the packet out and starts the loop of encodeCOBS.
LEMMA CreateStep ==
    ASSUME ByteAssumption, PacketAssumption, CodecInv, NEW p \in Packets, Create(p)
    PROVE  CodecInv'
<1>1. WellFormed(p) /\ packet' = p
  BY DEF PacketAssumption, Create
<1>2. Sent' = Layout(p) /\ Size' = SizeOf(p)
  BY <1>1 DEF Sent, Size
<1>3. /\ Size' \in Nat /\ 4 <= Size' /\ Size' + 2 <= BufferSize
      /\ Sent' \in [Index -> Byte]
      /\ buf' = Sent' /\ len' = Size'
  BY <1>1, <1>2, LayoutFacts DEF Create
<1>4. TypeOK'
  BY <1>1, <1>3 DEF Create, TypeOK
<1>5. EncodeInv'
  BY <1>3 DEF Create, EncodeInv
<1> QED
  BY <1>4, <1>5 DEF Create, CodecInv, FrameInv, DecodeInv, ResultInv, BoundsInv

\* One iteration of encodeCOBS extends the stuffed prefix, or the section.
LEMMA EncodeByteStep ==
    ASSUME ByteAssumption, CodecInv, EncodeByte
    PROVE  CodecInv'
<1> DEFINE m == Layout(packet)
<1> DEFINE n == SizeOf(packet)
<1>1. /\ n \in Nat /\ 4 <= n /\ n + 2 <= BufferSize /\ n + 2 < ByteSize
      /\ m \in [Index -> Byte]
      /\ \A k \in Index : k >= n => m[k] = 0
  BY LayoutFacts DEF CodecInv, TypeOK
<1>2. /\ pc = "encode" /\ pc' = pc /\ packet' = packet /\ len' = len
      /\ buf \in [Index -> Byte] /\ i \in Byte /\ sec \in Byte
      /\ len = n /\ sec <= i /\ i <= n /\ WellFormed(packet)
  BY DEF EncodeByte, CodecInv, TypeOK, EncodeInv
<1>3. /\ \A k \in 0 .. sec - 1 : Stuffed(m, n, k, buf[k])
      /\ \A k \in sec .. n : buf[k] = m[k]
      /\ sec = 0 \/ m[sec - 1] = 0
      /\ \A j \in sec .. i - 1 : m[j] # 0
  BY <1>2 DEF CodecInv, EncodeInv
<1> HIDE DEF m, n
<1>4. i' = i + 1 /\ i' <= n + 1
  <2>1. i' = Wrap(i + 1)
    BY DEF EncodeByte
  <2>2. i + 1 < ByteSize /\ i + 1 <= n + 1
    BY <1>1, <1>2
  <2> QED
    BY <2>1, <2>2 DEF Wrap
<1>5. CASE buf[i] = 0
  <2>1. /\ sec' = i + 1
        /\ \A k \in Index : buf'[k] = IF k = sec THEN i - sec + 1
                                     ELSE IF sec < k /\ k <= i THEN buf[k - 1]
                                     ELSE buf[k]
    BY <1>1, <1>2, <1>5 DEF EncodeByte, CloseSection, Wrap
  <2>2. buf' \in [Index -> Byte]
    <3>1. buf' = [k \in Index |-> buf'[k]]
      BY <1>5 DEF EncodeByte, CloseSection
    <3>2. \A k \in Index : buf'[k] \in Byte
      <4> TAKE k \in Index
      <4>1. CASE sec < k /\ k <= i
        <5>1. k - 1 \in Index
          BY <1>2, <4>1
        <5> QED
          BY <1>2, <2>1, <4>1, <5>1
      <4>2. CASE ~(sec < k /\ k <= i)
        BY <1>1, <1>2, <2>1, <4>2
      <4> QED
        BY <4>1, <4>2
    <3> QED
      BY <3>1, <3>2
  <2>3. m[i] = 0
    BY <1>1, <1>2, <1>3, <1>5
  <2>4. \A k \in 0 .. sec' - 1 : Stuffed(m, n, k, buf'[k])
    <3> TAKE k \in 0 .. sec' - 1
    <3> k \in Index /\ k <= i
      BY <1>1, <1>2, <2>1
    <3>1. CASE k < sec
      BY <1>2, <1>3, <2>1, <3>1
    <3>2. CASE k = sec
      <4> DEFINE b == i - sec + 1
      <4>1. /\ buf'[k] = b /\ b \in 1 .. n + 1 - k
            /\ k + b - 1 = i /\ k + b - 2 = i - 1
        BY <1>1, <1>2, <2>1, <3>2
      <4>2. m[k + b - 1] = 0 /\ \A j \in k .. k + b - 2 : m[j] # 0
        BY <1>3, <2>3, <3>2, <4>1
      <4>3. k = 0 \/ m[k - 1] = 0
        BY <1>3, <3>2
      <4> QED
        BY <4>1, <4>2, <4>3 DEF Stuffed
    <3>3. CASE k > sec
      <4>1. buf'[k] = m[k - 1] /\ m[k - 1] # 0
        BY <1>1, <1>2, <1>3, <2>1, <3>3
      <4> QED
        BY <1>2, <3>3, <4>1 DEF Stuffed
    <3> QED
      BY <1>2, <3>1, <3>2, <3>3
  <2>5. \A k \in sec' .. n : buf'[k] = m[k]
    BY <1>1, <1>2, <1>3, <2>1
  <2>6. m[sec' - 1] = 0 /\ sec' = i'
    BY <1>2, <1>4, <2>1, <2>3
  <2>7. TypeOK'
    BY <1>1, <1>2, <1>4, <2>1, <2>2 DEF TypeOK
  <2>8. EncodeInv'
    BY <1>1, <1>2, <1>4, <2>1, <2>4, <2>5, <2>6 DEF EncodeInv, m, n
  <2> QED
    BY <1>2, <2>7, <2>8 DEF CodecInv, FrameInv, DecodeInv, ResultInv, BoundsInv
<1>6. CASE buf[i] # 0
  <2>1. buf' = buf /\ sec' = sec
    BY <1>6 DEF EncodeByte
  <2>2. m[i] # 0 /\ i < n
    BY <1>1, <1>2, <1>3, <1>6
  <2>3. TypeOK'
    BY <1>1, <1>2, <1>4, <2>1 DEF TypeOK
  <2>4. /\ \A j \in sec' .. i' - 1 : m[j] # 0
        /\ sec' <= i' /\ i' <= n /\ i' # n + 1
    BY <1>1, <1>2, <1>3, <1>4, <2>1, <2>2
  <2>5. /\ \A k \in 0 .. sec' - 1 : Stuffed(m, n, k, buf'[k])
        /\ \A k \in sec' .. n : buf'[k] = m[k]
        /\ sec' = 0 \/ m[sec' - 1] = 0
    BY <1>3, <2>1
  <2>6. i' <= n + 1
    BY <1>1, <1>2, <1>4
  <2>7. EncodeInv'
    BY <1>2, <2>4, <2>5, <2>6 DEF EncodeInv, m, n
  <2> QED
    BY <1>2, <2>3, <2>7 DEF CodecInv, FrameInv, DecodeInv, ResultInv, BoundsInv
<1> QED
  BY <1>5, <1>6

\* When the loop is over, every section is closed.
LEMMA EncodeEndStep ==
    ASSUME ByteAssumption, CodecInv, EncodeEnd
    PROVE  CodecInv'
<1> DEFINE m == Layout(packet)
<1> DEFINE n == SizeOf(packet)
<1>1. /\ n \in Nat /\ 4 <= n /\ n + 2 <= BufferSize /\ n + 2 < ByteSize
  BY LayoutFacts DEF CodecInv, TypeOK
<1>2. /\ pc = "encode" /\ len = n /\ i > len /\ i <= n + 1
      /\ i = n + 1 => sec = n + 1
      /\ \A k \in 0 .. sec - 1 : Stuffed(m, n, k, buf[k])
      /\ TypeOK
  BY DEF EncodeEnd, CodecInv, EncodeInv
<1>3. /\ pc' = "framed" /\ packet' = packet /\ len' = n + 2
      /\ UNCHANGED <<i, sec>>
      /\ buf' = [buf EXCEPT ![n + 1] = 0]
  BY <1>2 DEF EncodeEnd
<1> HIDE DEF m, n
<1>4. sec = n + 1
  BY <1>1, <1>2 DEF TypeOK
<1>5. TypeOK'
  BY <1>1, <1>2, <1>3 DEF TypeOK
<1>6. \A k \in 0 .. n : buf'[k] = buf[k]
  BY <1>1, <1>2, <1>3 DEF TypeOK
<1>7. buf'[n + 1] = 0 /\ \A k \in 0 .. n : Stuffed(m, n, k, buf'[k])
  BY <1>1, <1>2, <1>3, <1>4, <1>6 DEF TypeOK
<1>8. FrameInv'
  BY <1>3, <1>7 DEF FrameInv, m, n
<1> QED
  BY <1>3, <1>5, <1>8 DEF CodecInv, EncodeInv, DecodeInv, ResultInv, BoundsInv

\* A frame arrives: the first section ends where its first byte says.
LEMMA ReceiveFrameStep ==
    ASSUME ByteAssumption, NoiseAssumption, CodecInv, NEW stale \in Stale, ReceiveFrame(stale)
    PROVE  CodecInv'
<1> DEFINE m == Layout(packet)
<1> DEFINE n == SizeOf(packet)
<1>1. /\ n \in Nat /\ 4 <= n /\ n + 2 <= BufferSize /\ n + 2 < ByteSize
  BY LayoutFacts DEF CodecInv, TypeOK
<1>2. /\ pc = "framed" /\ packet' = packet /\ TypeOK /\ len = n + 2
      /\ \A k \in 0 .. n : Stuffed(m, n, k, buf[k])
  BY DEF ReceiveFrame, CodecInv, FrameInv
<1>3. /\ buf' = [k \in Index |-> IF k < n + 2 THEN buf[k] ELSE stale]
      /\ len' = n + 2 /\ i' = 0
      /\ sec' = IF n + 2 > 0 THEN buf[0] ELSE stale
      /\ pc' = IF n + 2 < 4 THEN "rejected" ELSE "decode"
  BY <1>2 DEF ReceiveFrame, Receive
<1> HIDE DEF m, n
<1>4. pc' = "decode" /\ sec' = buf[0]
  BY <1>1, <1>3
<1>5. buf[0] \in Byte /\ stale \in Byte
  BY <1>2 DEF NoiseAssumption, TypeOK
<1>6. buf' \in [Index -> Byte]
  BY <1>2, <1>3, <1>5 DEF TypeOK
<1>7. TypeOK'
  BY <1>1, <1>2, <1>3, <1>4, <1>5, <1>6 DEF TypeOK
<1>8. \A k \in 0 .. n : buf'[k] = buf[k]
  BY <1>1, <1>3
<1>9. \A k \in 1 .. n : Stuffed(m, n, k, buf'[k])
  BY <1>1, <1>2, <1>8
<1>10. Stuffed(m, n, 0, buf[0])
  BY <1>1, <1>2
<1>11. /\ 0 < sec' /\ sec' <= n + 1 /\ m[sec' - 1] = 0
       /\ \A j \in 0 .. sec' - 2 : m[j] # 0
  <2>1. buf[0] \in 1 .. n + 1 - 0 /\ m[0 + buf[0] - 1] = 0
    BY <1>10 DEF Stuffed
  <2>2. \A j \in 0 .. 0 + buf[0] - 2 : m[j] # 0
    BY <1>10 DEF Stuffed
  <2> QED
    BY <1>1, <1>4, <1>5, <2>1, <2>2
<1>12. DecodeInv'
  BY <1>1, <1>2, <1>3, <1>9, <1>11 DEF DecodeInv, m, n
<1>13. BoundsInv'
  BY <1>1, <1>3, <1>4 DEF BoundsInv
<1> QED
  BY <1>2, <1>4, <1>7, <1>12, <1>13 DEF CodecInv, EncodeInv, FrameInv, ResultInv

\* Noise is read into the same buffer.
LEMMA ReceiveNoiseStep ==
    ASSUME ByteAssumption, NoiseAssumption, CodecInv, NEW d \in Noise, NEW stale \in Stale, ReceiveNoise(d, stale)
    PROVE  CodecInv'
<1> DEFINE bytes == [k \in 0 .. Len(d) - 1 |-> d[k + 1]]
<1>1. /\ Len(d) \in Nat /\ Len(d) < ByteSize /\ Len(d) <= BufferSize
      /\ \A k \in 1 .. Len(d) : d[k] \in Byte
      /\ stale \in Byte
  BY DEF NoiseAssumption
<1>2. \A k \in 0 .. Len(d) - 1 : bytes[k] \in Byte
  <2> TAKE k \in 0 .. Len(d) - 1
  <2>1. k + 1 \in 1 .. Len(d)
    BY <1>1
  <2> QED
    BY <1>1, <2>1
<1>3. /\ buf' = [k \in Index |-> IF k < Len(d) THEN bytes[k] ELSE stale]
      /\ len' = Len(d) /\ i' = 0 /\ packet' = None
      /\ sec' = IF Len(d) > 0 THEN bytes[0] ELSE stale
      /\ pc' = IF Len(d) < 4 THEN "rejected" ELSE "decode"
  BY DEF ReceiveNoise, Receive
<1> HIDE DEF bytes
<1>4. \A k \in Index : (IF k < Len(d) THEN bytes[k] ELSE stale) \in Byte
  BY <1>1, <1>2
<1>5. buf' \in [Index -> Byte]
  BY <1>3, <1>4
<1>6. sec' \in Byte /\ i' \in Byte /\ len' \in 0 .. BufferSize
  BY <1>1, <1>2, <1>3
<1>7. WellFormed(None)
  BY DEF WellFormed, None
<1>8. TypeOK'
  BY <1>3, <1>5, <1>6, <1>7 DEF TypeOK
<1>9. BoundsInv'
  BY <1>1, <1>3 DEF BoundsInv
<1> QED
  BY <1>3, <1>8, <1>9 DEF CodecInv, EncodeInv, FrameInv, DecodeInv, ResultInv

\* Inside a section a byte moves down by one; in a frame it is never zero.
LEMMA DecodeInSectionStep ==
    ASSUME ByteAssumption, CodecInv, DecodeInSection
    PROVE  CodecInv'
<1>1. /\ pc = "decode" /\ i < len - 2 /\ i + 1 < sec /\ TypeOK
      /\ len >= 4 /\ len < ByteSize /\ len <= BufferSize /\ i + 2 <= len
      /\ UNCHANGED <<packet, len, sec>>
      /\ buf' = [buf EXCEPT ![i] = buf[i + 1]]
  BY DEF DecodeInSection, CodecInv, BoundsInv, TypeOK
<1>2. /\ i \in Nat /\ len \in Nat /\ sec \in Nat /\ i \in Index /\ i + 1 \in Index
      /\ i + 3 <= len
      /\ buf \in [Index -> Byte] /\ buf[i + 1] \in Byte
  BY <1>1 DEF TypeOK
<1>3. IF buf[i + 1] = 0 THEN pc' = "decoded" /\ i' = i
                       ELSE pc' = "decode" /\ i' = i + 1
  <2>1. i + 1 < ByteSize
    BY <1>1, <1>2
  <2> QED
    BY <1>1, <1>2, <2>1 DEF DecodeInSection, Wrap
<1>4. TypeOK'
  <2>1. buf' \in [Index -> Byte]
    BY <1>1, <1>2
  <2>2. i' \in Byte /\ pc' \in {"decoded", "decode"}
    BY <1>1, <1>2, <1>3
  <2> QED
    BY <1>1, <2>1, <2>2 DEF TypeOK
<1>5. BoundsInv'
  <2>1. i' + 2 <= len'
    BY <1>1, <1>2, <1>3
  <2>2. pc' = "decoded" => buf'[i'] = 0
    BY <1>1, <1>2, <1>3
  <2> QED
    BY <1>1, <2>1, <2>2 DEF BoundsInv
<1>6. DecodeInv' /\ ResultInv'
  <2>1. CASE packet = None
    BY <1>1, <2>1 DEF DecodeInv, ResultInv
  <2>2. CASE packet # None
    <3> DEFINE m == Layout(packet)
    <3> DEFINE n == SizeOf(packet)
    <3>1. /\ n \in Nat /\ 4 <= n /\ n + 2 <= BufferSize /\ n + 2 < ByteSize
          /\ m \in [Index -> Byte]
      BY <1>1, LayoutFacts DEF TypeOK
    <3>2. /\ len = n + 2 /\ i <= n /\ i < sec /\ sec <= n + 1 /\ m[sec - 1] = 0
          /\ \A j \in 0 .. i - 1 : buf[j] = m[j]
          /\ \A k \in i + 1 .. n : Stuffed(m, n, k, buf[k])
          /\ \A j \in i .. sec - 2 : m[j] # 0
      BY <1>1, <2>2 DEF CodecInv, DecodeInv
    <3> HIDE DEF m, n
    <3>3. m[i] # 0 /\ Stuffed(m, n, i + 1, buf[i + 1])
      BY <1>1, <1>2, <3>1, <3>2
    <3>4. buf[i + 1] = m[i]
      <4>1. i + 1 # 0 /\ (i + 1) - 1 = i
        BY <1>2
      <4> QED
        BY <3>3, <4>1 DEF Stuffed
    <3>5. pc' = "decode" /\ i' = i + 1
      BY <1>3, <3>3, <3>4
    <3>6. \A j \in 0 .. i' - 1 : buf'[j] = m[j]
      <4> TAKE j \in 0 .. i' - 1
      <4>1. j \in Index /\ (j = i \/ (j \in 0 .. i - 1 /\ j # i))
        BY <1>2, <3>5
      <4>2. buf'[j] = IF j = i THEN buf[i + 1] ELSE buf[j]
        BY <1>1, <1>2, <4>1
      <4> QED
        BY <3>2, <3>4, <4>1, <4>2
    <3>7. \A k \in i' + 1 .. n : Stuffed(m, n, k, buf'[k])
      <4> TAKE k \in i' + 1 .. n
      <4>1. k \in i + 1 .. n /\ k # i
        BY <1>2, <3>1, <3>5
      <4>2. buf'[k] = buf[k]
        BY <1>1, <1>2, <3>1, <4>1
      <4> QED
        BY <3>2, <4>1, <4>2
    <3>8. i' <= n /\ i' < sec /\ \A j \in i' .. sec - 2 : m[j] # 0
      BY <1>1, <1>2, <3>1, <3>2, <3>5
    <3>9. DecodeInv'
      BY <1>1, <3>2, <3>6, <3>7, <3>8 DEF DecodeInv, m, n
    <3> QED
      BY <3>5, <3>9 DEF ResultInv
  <2> QED
    BY <2>1, <2>2
<1> QED
  BY <1>1, <1>3, <1>4, <1>5, <1>6 DEF CodecInv, EncodeInv, FrameInv

\* At the end of a section its zero comes back, and the byte behind it says
\* where the next section ends.
LEMMA DecodeSectionEndStep ==
    ASSUME ByteAssumption, CodecInv, DecodeSectionEnd
    PROVE  CodecInv'
<1>1. /\ pc = "decode" /\ i < len - 2 /\ i + 1 >= sec /\ TypeOK
      /\ len >= 4 /\ len < ByteSize /\ len <= BufferSize /\ i + 2 <= len
      /\ UNCHANGED <<packet, len>>
      /\ buf' = [buf EXCEPT ![i] = 0]
  BY DEF DecodeSectionEnd, CodecInv, BoundsInv, TypeOK
<1>2. /\ i \in Nat /\ len \in Nat /\ sec \in Nat /\ i \in Index /\ i + 1 \in Index
      /\ i + 3 <= len
      /\ buf \in [Index -> Byte] /\ buf[i + 1] \in Byte /\ sec \in Byte
  BY <1>1 DEF TypeOK
<1>3. IF buf[i + 1] = 0
      THEN pc' = "decoded" /\ i' = i /\ sec' = sec
      ELSE pc' = "decode" /\ i' = i + 1 /\ sec' = Wrap(sec + buf[i + 1])
  <2>1. Wrap(i + 1) = i + 1
    BY <1>1, <1>2 DEF Wrap
  <2> QED
    BY <1>1, <2>1 DEF DecodeSectionEnd, NextSection
<1>4. TypeOK'
  <2>1. buf' \in [Index -> Byte]
    BY <1>1, <1>2
  <2>2. Wrap(sec + buf[i + 1]) \in Byte
    BY <1>2 DEF Wrap
  <2>3. i' \in Byte /\ sec' \in Byte /\ pc' \in {"decoded", "decode"}
    BY <1>1, <1>2, <1>3, <2>2
  <2> QED
    BY <1>1, <2>1, <2>3 DEF TypeOK
<1>5. BoundsInv'
  <2>1. i' + 2 <= len'
    BY <1>1, <1>2, <1>3
  <2>2. pc' = "decoded" => buf'[i'] = 0
    BY <1>1, <1>2, <1>3
  <2> QED
    BY <1>1, <2>1, <2>2 DEF BoundsInv
<1>6. DecodeInv' /\ ResultInv'
  <2>1. CASE packet = None
    BY <1>1, <2>1 DEF DecodeInv, ResultInv
  <2>2. CASE packet # None
    <3> DEFINE m == Layout(packet)
    <3> DEFINE n == SizeOf(packet)
    <3> DEFINE b == buf[i + 1]
    <3>1. /\ n \in Nat /\ 4 <= n /\ n + 2 <= BufferSize /\ n + 2 < ByteSize
          /\ m \in [Index -> Byte]
      BY <1>1, LayoutFacts DEF TypeOK
    <3>2. /\ len = n + 2 /\ i <= n /\ i < sec /\ sec <= n + 1 /\ m[sec - 1] = 0
          /\ \A j \in 0 .. i - 1 : buf[j] = m[j]
          /\ \A k \in i + 1 .. n : Stuffed(m, n, k, buf[k])
      BY <1>1, <2>2 DEF CodecInv, DecodeInv
    <3> HIDE DEF m, n
    <3>3. sec = i + 1 /\ m[i] = 0 /\ i < n
      <4>1. sec = i + 1 /\ i < n /\ sec - 1 = i
        <5>1. i < len - 2 /\ i + 1 >= sec /\ len = n + 2 /\ i < sec
          BY <1>1, <3>2
        <5> QED
          BY <1>2, <3>1, <5>1
      <4> QED
        BY <3>2, <4>1
    <3>4. Stuffed(m, n, i + 1, b) /\ b \in Nat
      BY <1>2, <3>1, <3>2, <3>3
    <3>5. /\ b \in 1 .. n + 1 - (i + 1)
          /\ m[(i + 1) + b - 1] = 0
          /\ \A j \in i + 1 .. (i + 1) + b - 2 : m[j] # 0
      <4>1. (i + 1) - 1 = i
        BY <1>2
      <4> HIDE DEF b
      <4> QED
        BY <3>3, <3>4, <4>1 DEF Stuffed
    <3>6. pc' = "decode" /\ i' = i + 1 /\ sec' = i + 1 + b
      <4>1. pc' = "decode" /\ i' = i + 1 /\ sec' = Wrap(sec + b)
        BY <1>3, <3>5
      <4> HIDE DEF b
      <4>2. sec + b < ByteSize /\ sec + b = i + 1 + b
        BY <1>2, <3>1, <3>3, <3>4, <3>5
      <4> QED
        BY <4>1, <4>2 DEF Wrap
    <3>7. \A j \in 0 .. i' - 1 : buf'[j] = m[j]
      <4> TAKE j \in 0 .. i' - 1
      <4>1. j \in Index /\ (j = i \/ (j \in 0 .. i - 1 /\ j # i))
        BY <1>2, <3>6
      <4>2. buf'[j] = IF j = i THEN 0 ELSE buf[j]
        BY <1>1, <1>2, <4>1
      <4> QED
        BY <3>2, <3>3, <4>1, <4>2
    <3>8. \A k \in i' + 1 .. n : Stuffed(m, n, k, buf'[k])
      <4> TAKE k \in i' + 1 .. n
      <4>1. k \in i + 1 .. n /\ k # i
        BY <1>2, <3>1, <3>6
      <4>2. buf'[k] = buf[k]
        BY <1>1, <1>2, <3>1, <4>1
      <4> QED
        BY <3>2, <4>1, <4>2
    <3> HIDE DEF b
    <3>9. /\ i' <= n /\ i' < sec' /\ sec' <= n + 1
          /\ m[sec' - 1] = 0
          /\ \A j \in i' .. sec' - 2 : m[j] # 0
      BY <1>2, <3>1, <3>3, <3>4, <3>5, <3>6
    <3>10. DecodeInv'
      BY <1>1, <3>2, <3>7, <3>8, <3>9 DEF DecodeInv, m, n
    <3> QED
      BY <3>6, <3>10 DEF ResultInv
  <2> QED
    BY <2>1, <2>2
<1> QED
  BY <1>1, <1>3, <1>4, <1>5, <1>6 DEF CodecInv, EncodeInv, FrameInv

\* The loop ends with the whole packet behind it.
LEMMA DecodeEndStep ==
    ASSUME ByteAssumption, CodecInv, DecodeEnd
    PROVE  CodecInv'
<1>1. /\ pc = "decode" /\ i >= len - 2 /\ TypeOK
      /\ len >= 4 /\ len < ByteSize /\ i + 2 <= len
      /\ pc' = "decoded" /\ UNCHANGED <<packet, buf, len, i, sec>>
  BY DEF DecodeEnd, CodecInv, BoundsInv
<1>2. TypeOK'
  BY <1>1 DEF TypeOK
<1>3. BoundsInv'
  BY <1>1 DEF BoundsInv, TypeOK
<1>4. ResultInv'
  <2> SUFFICES ASSUME packet # None
               PROVE  /\ i = SizeOf(packet)
                      /\ \A j \in 0 .. SizeOf(packet) - 1 : buf[j] = Layout(packet)[j]
    BY <1>1 DEF ResultInv
  <2> DEFINE m == Layout(packet)
  <2> DEFINE n == SizeOf(packet)
  <2>1. n \in Nat
    BY <1>1, LayoutFacts DEF TypeOK
  <2>2. len = n + 2 /\ i <= n /\ \A j \in 0 .. i - 1 : buf[j] = m[j]
    BY <1>1 DEF CodecInv, DecodeInv
  <2> HIDE DEF m, n
  <2>3. i = n
    BY <1>1, <2>1, <2>2 DEF TypeOK
  <2> QED
    BY <2>2, <2>3 DEF m, n
<1> QED
  BY <1>1, <1>2, <1>3, <1>4 DEF CodecInv, EncodeInv, FrameInv, DecodeInv

\* The packet that was sent begins and ends with the framing bytes.
LEMMA CheckHeaderStep ==
    ASSUME ByteAssumption, CodecInv, CheckHeader
    PROVE  CodecInv'
<1>1. /\ pc = "decoded" /\ TypeOK /\ UNCHANGED <<packet, buf, len, i, sec>>
      /\ pc' = IF buf[0] = HeaderByte /\ buf[i - 1] = EndByte
               THEN "accepted" ELSE "rejected"
  BY DEF CheckHeader, CodecInv
<1>2. TypeOK'
  BY <1>1 DEF TypeOK
<1>3. ResultInv'
  <2> SUFFICES ASSUME packet # None
               PROVE  /\ pc' = "accepted"
                      /\ i = SizeOf(packet)
                      /\ \A j \in 0 .. SizeOf(packet) - 1 : buf[j] = Layout(packet)[j]
    BY <1>1 DEF ResultInv
  <2> DEFINE m == Layout(packet)
  <2> DEFINE n == SizeOf(packet)
  <2>1. n \in Nat /\ 4 <= n /\ m[0] = HeaderByte /\ m[n - 1] = EndByte
    BY <1>1, LayoutFacts DEF TypeOK
  <2>2. i = n /\ \A j \in 0 .. n - 1 : buf[j] = m[j]
    BY <1>1 DEF CodecInv, ResultInv
  <2> HIDE DEF m, n
  <2>3. buf[0] = m[0] /\ buf[n - 1] = m[n - 1]
    BY <2>1, <2>2
  <2>4. pc' = "accepted"
    BY <1>1, <2>1, <2>2, <2>3
  <2> QED
    BY <2>2, <2>4 DEF m, n
<1> QED
  BY <1>1, <1>2, <1>3 DEF CodecInv, EncodeInv, FrameInv, DecodeInv, BoundsInv

-----------------------------------------------------------------------------
(* The invariant of the loops, and what follows from it *)

\* One iteration of either loop, and whatever comes before and after the loops.
LEMMA CodecStep == CodecAssumption /\ CodecInv /\ [Next]_vars => CodecInv'
<1> SUFFICES ASSUME ByteAssumption, PacketAssumption, NoiseAssumption,
                    CodecInv, [Next]_vars
             PROVE  CodecInv'
  BY DEF CodecAssumption
<1>1. CASE \E p \in Packets : Create(p)
  BY <1>1, CreateStep
<1>2. CASE \E stale \in Stale : ReceiveFrame(stale)
  BY <1>2, ReceiveFrameStep
<1>3. CASE \E d \in Noise, stale \in Stale : ReceiveNoise(d, stale)
  BY <1>3, ReceiveNoiseStep
<1>4. CASE Loop
  BY <1>4, EncodeByteStep, EncodeEndStep, DecodeInSectionStep,
     DecodeSectionEndStep, DecodeEndStep, CheckHeaderStep DEF Loop
<1>5. CASE UNCHANGED vars
  BY <1>5 DEF vars, CodecInv, TypeOK, EncodeInv, FrameInv, DecodeInv,
     ResultInv, BoundsInv
<1>6. Done => UNCHANGED vars
  BY DEF Done
<1> QED
  BY <1>1, <1>2, <1>3, <1>4, <1>5, <1>6 DEF Next

\* A frame whose sections are all closed has a zero only behind them.
LEMMA StuffedHasOneZero == CodecAssumption /\ CodecInv => FrameHasOneDelimiter
<1> SUFFICES ASSUME CodecAssumption, CodecInv, pc = "framed"
             PROVE  /\ len = SizeOf(packet) + 2
                    /\ \A k \in 0 .. len - 1 : buf[k] = 0 <=> k = len - 1
  BY DEF FrameHasOneDelimiter
<1>a. ByteAssumption
  BY DEF CodecAssumption
<1> DEFINE m == Layout(packet)
<1> DEFINE n == SizeOf(packet)
<1>1. n \in Nat
  BY <1>a, LayoutFacts DEF CodecInv, TypeOK
<1>2. /\ len = n + 2 /\ buf[n + 1] = 0
      /\ \A k \in 0 .. n : Stuffed(m, n, k, buf[k])
  BY DEF CodecInv, FrameInv
<1> HIDE DEF m, n
<1>3. \A k \in 0 .. n : buf[k] # 0
  BY <1>a, <1>1, <1>2, StuffedNonZero
<1>4. \A k \in 0 .. len - 1 : buf[k] = 0 <=> k = len - 1
  BY <1>a, <1>1, <1>2, <1>3
<1> QED
  BY <1>2, <1>4 DEF n

\* What was decoded is the packet, byte for byte.
LEMMA DecodedIsSent == CodecAssumption /\ CodecInv => RoundTrip
<1> SUFFICES ASSUME CodecAssumption, CodecInv, packet # None, pc = "accepted"
             PROVE  /\ i = SizeOf(packet)
                    /\ Opcode = packet.opcode /\ Payload = packet.payload
  BY DEF RoundTrip, CodecInv, ResultInv
<1>a. ByteAssumption
  BY DEF CodecAssumption
<1> DEFINE m == Layout(packet)
<1> DEFINE n == SizeOf(packet)
<1> DEFINE l == Len(packet.payload)
<1>1. /\ n \in Nat /\ l \in Nat /\ n = l + 4 /\ m[1] = packet.opcode
      /\ \A k \in 1 .. l : m[k + 2] = packet.payload[k]
  BY <1>a, LayoutFacts DEF CodecInv, TypeOK
<1>2. i = n /\ \A j \in 0 .. n - 1 : buf[j] = m[j]
  BY DEF CodecInv, ResultInv
<1>3. packet.payload = [k \in 1 .. l |-> packet.payload[k]]
  BY <1>a DEF CodecInv, TypeOK, WellFormed
<1> HIDE DEF m, n, l
<1>4. buf[1] = m[1] /\ \A k \in 1 .. l : buf[k + 2] = m[k + 2]
  BY <1>a, <1>1, <1>2
<1>5. Payload = [k \in 1 .. l |-> packet.payload[k]]
  BY <1>a, <1>1, <1>2, <1>4 DEF Payload
<1> QED
  BY <1>1, <1>2, <1>3, <1>4, <1>5 DEF Opcode, n

\* Wherever the section bytes lead, the loop stops at the datagram's end.
LEMMA DecodedInside == CodecAssumption /\ CodecInv => ReadsInside
  BY DEF CodecAssumption, CodecInv, BoundsInv, ReadsInside, TypeOK
=============================================================================
