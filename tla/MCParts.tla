------------------------------- MODULE MCParts --------------------------------
(* Parts for TLC: the packets robot and base station really send, with bytes  *)
(* that are zero, one, the framing bytes and the largest, and short datagrams *)
(* of any bytes; field values on either side of every sign and clamp, stick   *)
(* positions around the deadzone, a slider that is off, at rest, on no        *)
(* preset, and at its end, sizes that chunks divide and do not, images whose  *)
(* segments span all the chunks, rings with false peaks, codes whose flips    *)
(* share buckets, and detections that overlap in chains and rings.            *)
EXTENDS Parts, TLC

NoPayloadOpcodes ==     \* the callers of CreateNoPayloadPacket
    {2, 19, 20, 21, 68, 74, 75, 80, 146, 147}

Payloads(opcode, length, bytes) ==
    {[opcode |-> opcode, payload |-> s] : s \in [1 .. length -> bytes]}

RealPackets ==
    {[opcode |-> op, payload |-> <<>>] : op \in NoPayloadOpcodes}
    \cup Payloads(153, 5, {0, 1, 255})              \* DRIVE
    \cup Payloads(22, 1, {0, 1, 127, 171, 255})     \* SET_CAMERA_QUALITY
    \cup Payloads(23, 2, {0, 1, 127, 171, 255})     \* SET_CAMERA_LOCATION
    \cup Payloads(69, 6, {0, 127})                  \* REPORT_LOCATION
    \cup {[opcode |-> 71, payload |-> s \o s] :     \* REPORT_ENCODER
              s \in [1 .. 6 -> {0, 255}]}

ShortNoise == UNION {[1 .. n -> {0, 3, 127, 171}] : n \in 0 .. 4}

MCInt8s == {-128, -1, 0, 127}
MCInt16s == {-32768, -181, 255, 256}
MCSettings == {-1, 0, 50, 100, 101}
MCPositions == {-100, -16, -15, -14, 0, 14, 15, 99}
MCSliders == {-1, 0, 9, 100}
MCSizes == 1 .. 9

\* One pixel that differs, wherever it lies in whole and partial tiles.
Spots ==
    {[h |-> 9, w |-> 13,
      buf |-> [p \in (0 .. 8) \X (0 .. 12) |-> IF p = spot THEN v ELSE 100]] :
     spot \in (0 .. 8) \X (0 .. 12), v \in {95, 104, 255}}

Row(a, b, c, d, e, f) ==
    (0 :> a) @@ (1 :> b) @@ (2 :> c) @@ (3 :> d) @@ (4 :> e) @@ (5 :> f)
White == Row(255, 255, 255, 255, 255, 255)
MCImages ==
    LET rows == {White, Row(255, 0, 0, 0, 255, 0), Row(0, 255, 0, 127, 0, 255)}
    IN {[y \in 0 .. 5 |-> IF y \in {0, 5} THEN White ELSE r[y]] : r \in [1 .. 4 -> rows]}

\* Up to eight peaks of two heights, lines between them of every quality, and a ring
\* that is too short.
MCRings ==
    LET heights == {h \in [0 .. 7 -> 0 .. 2] : h[0] = 1 /\ h[2] = 1 /\ h[4] = 2 /\ h[6] = 1}
        peaks(h, mse(_, _), straight) ==
            [sz |-> 24, straight |-> straight,
             mse |-> [p \in {3 * k : k \in 0 .. 7} \X {3 * k : k \in 0 .. 7} |->
                         mse(p[1] \div 3, p[2] \div 3)],
             errs |-> [p \in 0 .. 23 |-> IF p % 3 = 0 THEN h[p \div 3] ELSE 0]]
        some == {<<3 * a, 3 * (a + b), 3 * (a + b + b)>> : a \in 0 .. 3, b \in 1 .. 2}
        Few(a, b) == <<0, 0, 1, 0, 2>>[((3 * a + 4 * b) % 5) + 1]
        Many(a, b) == <<1, 0, 2, 1, 0, 2>>[((5 * a + b) % 6) + 1]
        Poor(a, b) == 1
        Inner(a, b) == Cardinality({1, 3, 6, 7} \cap (a + 1) .. (b - 1))
    IN {peaks(h, Few, {}) : h \in heights} \cup
       {peaks(h, Few, some) : h \in heights} \cup
       {peaks(h, Many, {}) : h \in heights} \cup
       {peaks(h, Inner, some) : h \in heights} \cup
       {peaks(h, Poor, {}) : h \in {k \in heights : k[1] = 0 /\ k[3] = 0}} \cup
       {[sz |-> 23, straight |-> {}, mse |-> <<>>, errs |-> [p \in 0 .. 22 |-> 0]]}

MCFamilies == {
    [codes |-> <<{0, 1}, {0, 2, 3}>>, maxhamming |-> 1],
    [codes |-> <<{0, 1}>>, maxhamming |-> 0]}

Pairs == {{p[1], p[2]} : p \in {q \in (1 .. 4) \X (1 .. 4) : q[1] < q[2]}}
Tag == <<1, 0>>
MCScenes ==
    {[tag |-> <<>>, rank |-> <<>>, overlaps |-> {}]} \cup
    [tag : {<<Tag, Tag, Tag, Tag>>}, rank : {<<1, 2, 3, 4>>}, overlaps : SUBSET Pairs] \cup
    [tag : {<<Tag, <<0, 0>>, Tag, Tag>>}, rank : {<<1, 2, 2, 3>>}, overlaps : SUBSET Pairs]
=============================================================================
