------------------------------ MODULE QuickDecode ------------------------------
(***************************************************************************)
(* apriltag.c: the table of all the codes of a tag family with up to       *)
(* maxhamming of their bits flipped, and the search of the word that was   *)
(* read from an image, which may be turned by any quarter.  A word is the  *)
(* set of its bits that are one; the table is open addressed.              *)
(***************************************************************************)
EXTENDS Integers, Sequences, FiniteSets, FiniteSetsExt

CONSTANTS
    D,              \* family->d
    Families,       \* the families, with the bits to correct
    Empty           \* an entry whose rcode is UINT64_MAX

VARIABLES
    family,         \* the one the table was made for
    entries,        \* qd->entries
    todo,           \* the entries quick_decode_init has still to add
    rcode,          \* the word looked up
    entry           \* what was found for it

vars == <<family, entries, todo, rcode, entry>>

-----------------------------------------------------------------------------
Bits == 0 .. D * D - 1
Words == SUBSET Bits

\* The words at a distance of h from code.
Flipped(code, h) == {(code \ e) \cup (e \ code) : e \in kSubset(h, Bits)}
Distance(v, w) == Cardinality((v \ w) \cup (w \ v))

\* "if the bits in w were arranged in a d*d grid and that grid was rotated", with
\* the bits "8 7 6 / 5 4 3 / 2 1 0" for d = 3 (apriltag.c:125-132): what is at the
\* right end of a row comes from the top of a column.
BitAt(row, col) == D * D - 1 - (D * row + col)
Turned(w) == {BitAt(p[1], p[2]) :
                  p \in {q \in (0 .. D - 1) \X (0 .. D - 1) :
                             BitAt(D - 1 - q[2], q[1]) \in w}}
Turns(w) == <<w, Turned(w), Turned(Turned(w)), Turned(Turned(Turned(w)))>>

\* Assumed by Parts: what makes codes a family that can be corrected, and that
\* UINT64_MAX is none of its words.
FamilyAssumption ==
    /\ D \in Nat \ {0}
    /\ Empty \notin [rcode : Words, id : Nat, hamming : Nat]
    /\ Empty \notin [id : Nat, hamming : Nat, rotation : Nat]
    /\ \A f \in Families :
           /\ f.codes \in Seq(Words) /\ f.codes # <<>> /\ f.maxhamming \in 0 .. 3
           /\ \A i, j \in DOMAIN f.codes, r \in 1 .. 4 :
                  i # j \/ r > 1 =>
                      Distance(Turns(f.codes[i])[r], f.codes[j]) > 2 * f.maxhamming

-----------------------------------------------------------------------------
\* rotate90: bit r + d * c of the word, in this order of r and c.
RotateBack(w) == {D * (D - 1 - (b % D)) + b \div D : b \in w}             \* mutant
Rotate90(w) == {D * (b % D) + (D - 1 - b \div D) : b \in w}

Value(w) ==
    LET value[b \in 0 .. D * D] ==
            IF b = 0 THEN 0
            ELSE 2 * value[b - 1] + (IF D * D - b \in w THEN 1 ELSE 0)
    IN value[D * D]

NBits == D * D
Capacity(f) ==
    Len(f.codes) * (1 + (IF f.maxhamming >= 1 THEN NBits ELSE 0)
                      + (IF f.maxhamming >= 2 THEN NBits * (NBits - 1) ELSE 0)
                      + (IF f.maxhamming >= 3 THEN NBits * (NBits - 1) * (NBits - 2) ELSE 0))
NEntries(f) == 3 * Capacity(f)

\* The bucket at k from w % nentries, and how far the first free one is.
Bucket(w, k) == (Value(w) + k) % NEntries(family)
Free(w) == Min({k \in 0 .. NEntries(family) - 1 : entries[Bucket(w, k)] = Empty})

\* The entries all codes bring.
AllEntries(f) ==
    UNION {{[rcode |-> w, id |-> i, hamming |-> h] : w \in Flipped(f.codes[i], h)} :
               i \in 1 .. Len(f.codes), h \in 0 .. f.maxhamming}

\* Code by code, by the number of flipped bits, and from the lowest bits on.
Mask(e) == (e.rcode \ family.codes[e.id]) \cup (family.codes[e.id] \ e.rcode)
Before(d, e) ==
    \/ d.id < e.id
    \/ d.id = e.id /\ d.hamming < e.hamming
    \/ d.id = e.id /\ d.hamming = e.hamming /\ Value(Mask(d)) < Value(Mask(e))

-----------------------------------------------------------------------------
NoFamily == [codes |-> <<>>, maxhamming |-> 0]

Init ==
    /\ family = NoFamily /\ entries = <<>> /\ todo = {}
    /\ rcode = {} /\ entry = Empty

QuickDecodeInit(f) ==
    /\ family = NoFamily
    /\ family' = f /\ todo' = AllEntries(f)
    /\ entries' = [b \in 0 .. NEntries(f) - 1 |-> Empty]
    /\ UNCHANGED <<rcode, entry>>

\* quick_decode_add
QuickDecodeAdd ==
    /\ \E e \in todo :
           /\ \A d \in todo \ {e} : Before(e, d)
           /\ entries' = [entries EXCEPT ![Bucket(e.rcode, Free(e.rcode))] = e]
           /\ todo' = todo \ {e}
    /\ UNCHANGED <<family, rcode, entry>>

\* Where w is found, before the first free bucket.
Match(w) == {k \in 0 .. Free(w) - 1 : entries[Bucket(w, k)].rcode = w}

Undecoded == [id |-> 65535, hamming |-> 255, rotation |-> 0]

\* quick_decode_codeword: in up to four turns, the first that is in the table.
Decode(w) ==
    LET turned == <<w, Rotate90(w), Rotate90(Rotate90(w)),
                    Rotate90(Rotate90(Rotate90(w)))>>
        hits == {r \in 0 .. 3 : Match(turned[r + 1]) # {}}
        word == turned[Min(hits) + 1]
        hit == entries[Bucket(word, Min(Match(word)))]
    IN IF hits = {} THEN Undecoded
       ELSE [id |-> hit.id, hamming |-> hit.hamming, rotation |-> Min(hits)]

QuickDecodeCodeword(w) ==
    /\ family # NoFamily /\ todo = {} /\ entry = Empty
    /\ rcode' = w /\ entry' = Decode(w)
    /\ UNCHANGED <<family, entries, todo>>

\* quick_decode_uninit
Uninit ==
    /\ entry # Empty
    /\ family' = NoFamily /\ entries' = <<>> /\ rcode' = {} /\ entry' = Empty
    /\ UNCHANGED todo

Next ==
    \/ \E f \in Families : QuickDecodeInit(f)
    \/ QuickDecodeAdd
    \/ \E w \in Words : QuickDecodeCodeword(w)
    \/ Uninit

Spec == Init /\ [][Next]_vars

-----------------------------------------------------------------------------
\* Whatever way up a tag was read, it is found with its id, its errors and its
\* turn if no more than maxhamming bits are wrong, and nothing is found otherwise:
\* in an open-addressed table whose buckets wrap around and are shared by words of
\* different codes (apriltag.c:172-183, 196-261, 289-314).
Readings(w) ==
    {[id |-> i, hamming |-> Distance(Turns(w)[r + 1], family.codes[i]), rotation |-> r] :
         i \in DOMAIN family.codes, r \in 0 .. 3}

DecodesNearest ==
    entry # Empty =>
        LET near == {a \in Readings(rcode) : a.hamming <= family.maxhamming} IN
        {entry} = IF near = {} THEN {Undecoded} ELSE near
=============================================================================
