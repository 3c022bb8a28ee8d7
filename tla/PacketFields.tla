----------------------------- MODULE PacketFields -----------------------------
(***************************************************************************)
(* The payloads of Robot/include/Packet.h.  A Create function writes the   *)
(* fields of a struct into bytes, in an order of its own; the frame around *)
(* them is PacketCodec's.  ReadPacketHeader returns the frame's length,    *)
(* and a Parse function takes the fields out again.  PacketHandler of the  *)
(* base station wraps both with checks of its own.                         *)
(***************************************************************************)
EXTENDS Integers, Sequences

CONSTANTS
    Int8s,          \* values of int8_t fields
    Int16s,         \* values of int16_t fields
    Settings        \* Int32 values of a CameraQuality

Bytes == 0 .. 255
Int8 == -128 .. 127
Int16 == -32768 .. 32767

\* Assumed by Parts.
FieldAssumption ==
    /\ Int8s \subseteq Int8
    /\ Int16s \subseteq Int16
    /\ Settings \subseteq Int

VARIABLES
    step,           \* "idle", "created", "parsed"
    kind,           \* the packet's
    fields,         \* what the caller of the Create function gave
    payload,        \* the bytes
    parsed          \* what the Parse function got

vars == <<step, kind, fields, payload, parsed>>

-----------------------------------------------------------------------------
(* Integers and bytes *)

Low(v) == v % 256
High(v) == (v \div 256) % 256
Unsigned8(b) == b                                       \* mutant of Signed8
Signed8(b) == IF b < 128 THEN b ELSE b - 256
Signed16(h, l) == LET n == 256 * h + l IN IF n < 32768 THEN n ELSE n - 65536

Clamp(v, max, min) == IF v > max THEN max ELSE IF v < min THEN min ELSE v

-----------------------------------------------------------------------------
(* Create: the fields in the order they are written *)

Order == [
    drive |-> <<"left", "right", "actuator", "scooper", "vibrator">>,
    quality |-> <<"quality">>,
    place |-> <<"id", "angle">>,
    location |-> <<"x", "y", "heading">>,
    encoder |-> <<"front_left", "front_right", "back_left", "back_right",
                  "left_actuator", "right_actuator">>]

Kinds == {"drive", "quality", "place", "location", "encoder"}
Wide == {"location", "encoder"}

Names(k) == {Order[k][j] : j \in 1 .. Len(Order[k])}

Structs ==
    [drive |-> [Names("drive") -> Int8s],
     quality |-> [Names("quality") -> Settings],
     place |-> {p \in [Names("place") -> Int8s] : p.id \in {0, 1}},
     location |-> [Names("location") -> Int16s],
     encoder |-> [Names("encoder") -> Int16s]]

\* What is done to the fields before they are written: the base station clamps
\* a quality, CreateReportLocationPacket a heading.
Unclamped(k, p) == p                                    \* mutant of Prepared
Prepared(k, p) ==
    IF k = "quality" THEN [p EXCEPT !["quality"] = Clamp(@, 100, 0)]
    ELSE IF k = "location" THEN [p EXCEPT !["heading"] = Clamp(@, 180, -180)]
    ELSE p

Written(k, p) ==
    IF k \in Wide
    THEN [j \in 1 .. 2 * Len(Order[k]) |->
             IF j % 2 = 1 THEN High(p[Order[k][(j + 1) \div 2]])
             ELSE Low(p[Order[k][j \div 2]])]
    ELSE [j \in 1 .. Len(Order[k]) |-> Low(p[Order[k][j]])]

-----------------------------------------------------------------------------
(* Parse: the byte each field is taken from, payload[0] being byte 1 *)

Place == [
    drive |-> [left |-> 1, right |-> 2, actuator |-> 3, scooper |-> 4, vibrator |-> 5],
    quality |-> [quality |-> 1],
    place |-> [id |-> 1, angle |-> 2],
    location |-> [x |-> 1, y |-> 3, heading |-> 5],
    encoder |-> [front_left |-> 1, front_right |-> 3, back_left |-> 5,
                 back_right |-> 7, left_actuator |-> 9, right_actuator |-> 11]]

\* The robot cuts a quality once more.
Taken(k, f, b) ==
    IF k \in Wide THEN Signed16(b[Place[k][f]], b[Place[k][f] + 1])
    ELSE IF f = "quality" THEN IF b[1] > 100 THEN 100 ELSE b[1]
    ELSE IF f = "id" THEN b[1]
    ELSE Signed8(b[Place[k][f]])

Parsed(k, b) == [f \in Names(k) |-> Taken(k, f, b)]

-----------------------------------------------------------------------------
(* PacketHandler *)

MinSize == 4
ReadPacketHeader(b) == MinSize + Len(b)

\* The wrappers of ReadPacketHeader ask whether it returned 1.
WrapperSucceeds(b) == ReadPacketHeader(b) = 1

-----------------------------------------------------------------------------
Nothing == [f \in {} |-> 0]

Init ==
    /\ step = "idle" /\ kind = "drive"
    /\ fields = Nothing /\ payload = <<>> /\ parsed = Nothing

Create(k, p) ==
    /\ step = "idle"
    /\ step' = "created" /\ kind' = k
    /\ fields' = p
    /\ payload' = Written(k, Prepared(k, p))
    /\ UNCHANGED parsed

\* The robot calls the Parse functions itself.
Parse ==
    /\ step = "created"
    /\ step' = "parsed"
    /\ parsed' = Parsed(kind, payload)
    /\ UNCHANGED <<kind, fields, payload>>

\* ParseReportLocationPacket, ParseReportEncoderPacket
ParseReport ==
    /\ step = "created" /\ kind \in Wide
    /\ IF WrapperSucceeds(payload)
       THEN step' = "parsed" /\ parsed' = Parsed(kind, payload)
       ELSE step' = "refused" /\ UNCHANGED parsed
    /\ UNCHANGED <<kind, fields, payload>>

\* One packet after the other, each in a buffer of its own.
Again ==
    /\ step \in {"parsed", "refused"}
    /\ step' = "idle" /\ kind' = "drive"
    /\ fields' = Nothing /\ payload' = <<>> /\ parsed' = Nothing

Next ==
    \/ \E k \in Kinds : \E p \in Structs[k] : Create(k, p)
    \/ Parse
    \/ ParseReport
    \/ Again

Spec == Init /\ [][Next]_vars

-----------------------------------------------------------------------------
\* What a receiver is to get: the fields, a quality as a percentage and a heading
\* within half a turn.
InRange(v, max, min) == CHOOSE w \in {v, max, min} :
    /\ min <= w /\ w <= max
    /\ v < min => w = min
    /\ v > max => w = max
    /\ min <= v /\ v <= max => w = v

Meant(k, p) == [f \in Names(k) |->
    IF f = "quality" THEN InRange(p[f], 100, 0)
    ELSE IF f = "heading" THEN InRange(p[f], 180, -180)
    ELSE p[f]]

\* A payload is a sequence of bytes that PacketCodec can frame.
TypeOK ==
    /\ step \in {"idle", "created", "parsed", "refused"}
    /\ kind \in Kinds
    /\ payload \in Seq(Bytes) /\ Len(payload) <= 12

\* Every field arrives as the value it was given, signs included, although the
\* structs, the Create and the Parse functions each list the fields in an order
\* of their own and the bytes carry neither name nor sign (Packet.h:244-398).
FieldsSurvive == step = "parsed" => parsed = Meant(kind, fields)
=============================================================================
