-------------------------------- MODULE Corners --------------------------------
(***************************************************************************)
(* quad_segment_maxima: which four points of a ring of border points are   *)
(* the corners of a quadrilateral.  Candidates are the local maxima of the *)
(* error of a line fitted around each point, at most max_nmaxima of them;  *)
(* four nested loops go through every four of them, in order, and leave a  *)
(* loop's turn as soon as a side does not fit.  What the fits amount to is *)
(* given: fit_line's trigonometry is not modelled, only its count of the   *)
(* points between two ends.                                                *)
(***************************************************************************)
EXTENDS Integers, FiniteSets, Sequences, FiniteSetsExt

CONSTANTS
    MaxMaxima,      \* td->qtp.max_nmaxima
    MaxErr,         \* td->qtp.max_line_fit_mse
    Rings           \* [sz, errs, mse, straight]: errs[i] is the smoothed error around
                    \* point i, mse[<<i, j>>] that of the line from i to j; straight
                    \* has the <<i, j, k>> whose two lines have |dot| > max_dot

\* Assumed by Parts.
RingAssumption ==
    /\ MaxMaxima \in Nat \ {0} /\ MaxErr \in Nat \ {0}
    /\ \A r \in Rings :
           /\ r.sz \in Nat \ {0}
           /\ r.errs \in [0 .. r.sz - 1 -> Nat]

VARIABLES
    ring,
    place,          \* "none", "maxima", "select", "search", "over", "quad", "no quad"
    maxima,         \* in ascending order
    at,             \* which of maxima m0 .. m3 stand at
    indices         \* best_indices, empty as long as best_error is HUGE_VALF

vars == <<ring, place, maxima, at, indices>>

-----------------------------------------------------------------------------
NoRing == [sz |-> 0, errs |-> <<>>, mse |-> <<>>, straight |-> {}]
errs == ring.errs

\* fit_line, around the end of the ring if j is less than i.
Points(i, j) == IF i < j THEN j - i + 1 ELSE ring.sz - i + j + 1
Err(i, j) == Points(i, j) * ring.mse[<<i, j>>]
Fits(i, j) == ring.mse[<<i, j>>] <= MaxErr

Peak(i) ==
    /\ errs[i] > errs[(i + 1) % ring.sz]
    /\ errs[i] > errs[(i + ring.sz - 1) % ring.sz]

\* maxima_errs_copy[max_nmaxima], of the errors in descending order.
MaximaThresh ==
    LET all == {errs[maxima[k]] : k \in 1 .. Len(maxima)}
        reach(e) == Cardinality({k \in 1 .. Len(maxima) : errs[maxima[k]] >= e})
    IN Max({e \in all : reach(e) > MaxMaxima})

Total(q) == Err(q[1], q[2]) + Err(q[2], q[3]) + Err(q[3], q[4]) + Err(q[4], q[1])

\* The places that four nested loops over n maxima go through.
Four(n) ==
    {m \in (1 .. n) \X (1 .. n) \X (1 .. n) \X (1 .. n) :
        m[1] < m[2] /\ m[2] < m[3] /\ m[3] < m[4]}
Before(m, p) == \E k \in 1 .. 4 : m[k] < p[k] /\ \A j \in 1 .. k - 1 : m[j] = p[j]

Tried == [k \in 1 .. 4 |-> maxima[at[k]]]

\* The loop whose next turn it is: the second if the first side does not fit, the third
\* if the second does not or is no corner away from it, otherwise the innermost.
NextLoopBreaks ==                           \* mutant: break for continue
    LET i == Tried IN
    IF ~Fits(i[1], i[2]) THEN 2
    ELSE IF ~Fits(i[2], i[3]) \/ <<i[1], i[2], i[3]>> \in ring.straight THEN 3
    ELSE IF ~Fits(i[3], i[4]) THEN 3
    ELSE 4
NextLoop ==
    LET i == Tried IN
    IF ~Fits(i[1], i[2]) THEN 2
    ELSE IF ~Fits(i[2], i[3]) \/ <<i[1], i[2], i[3]>> \in ring.straight THEN 3
    ELSE 4

Turn ==
    LET later == {m \in Four(Len(maxima)) :
                     Before(at, m) /\ \E j \in 1 .. NextLoop : m[j] # at[j]}
    IN IF later = {} THEN place' = "over" /\ UNCHANGED at
       ELSE /\ at' \in later /\ \A m \in later : m = at' \/ Before(at', m)
            /\ UNCHANGED place

-----------------------------------------------------------------------------
Init == ring = NoRing /\ place = "none" /\ maxima = <<>> /\ at = <<>> /\ indices = <<>>

\* Fewer than 24 points make a kernel of less than 2.
Begin ==
    /\ place = "none"
    /\ ring' \in Rings
    /\ place' = IF ring'.sz \div 12 < 2 THEN "no quad" ELSE "maxima"
    /\ UNCHANGED <<maxima, at, indices>>

FindMaxima ==
    /\ place = "maxima"
    /\ maxima' = SelectSeq([k \in 1 .. ring.sz |-> k - 1], Peak)
    /\ place' = IF Len(maxima') < 4 THEN "no quad" ELSE "select"
    /\ UNCHANGED <<ring, at, indices>>

\* "throw out all but the best handful of maxima": those whose error is no more than
\* that of the first one too many.  Fewer than four may be left, and no loop turns.
Select ==
    /\ place = "select"
    /\ LET thresh == MaximaThresh IN
       maxima' = IF Len(maxima) > MaxMaxima
                 THEN SelectSeq(maxima, LAMBDA i : errs[i] > thresh) ELSE maxima
    /\ IF Len(maxima') < 4 THEN place' = "over" /\ UNCHANGED at
       ELSE place' = "search" /\ at' = <<1, 2, 3, 4>>
    /\ UNCHANGED <<ring, indices>>

Discard ==
    /\ place = "search"
    /\ \/ NextLoop < 4
       \/ ~Fits(Tried[3], Tried[4]) \/ ~Fits(Tried[4], Tried[1])
    /\ Turn
    /\ UNCHANGED <<ring, maxima, indices>>

Compare ==
    /\ place = "search"
    /\ NextLoop = 4 /\ Fits(Tried[3], Tried[4]) /\ Fits(Tried[4], Tried[1])
    /\ indices' = IF indices = <<>> \/ Total(Tried) < Total(indices) THEN Tried ELSE indices
    /\ Turn
    /\ UNCHANGED <<ring, maxima>>

Decide ==
    /\ place = "over"
    /\ place' = IF indices # <<>> /\ Total(indices) < MaxErr * ring.sz
                THEN "quad" ELSE "no quad"
    /\ UNCHANGED <<ring, maxima, at, indices>>

\* fit_quad is back.
Return ==
    /\ place \in {"quad", "no quad"}
    /\ ring' = NoRing /\ place' = "none" /\ maxima' = <<>> /\ at' = <<>> /\ indices' = <<>>

Next ==
    \/ Begin
    \/ FindMaxima \/ Select \/ Discard \/ Compare \/ Decide
    \/ Return

Spec == Init /\ [][Next]_vars

-----------------------------------------------------------------------------
\* Of the peaks that no more than max_nmaxima reach, the four found have the least
\* error of all that, in order around the ring, fit on four sides and have a corner;
\* and none are found only if no four of them fit well enough: neither the cut, which
\* peaks of one height may empty, nor the loops' early turns lose a better quadrilateral
\* (apriltag_quad_thresh.c:480-563).
BestQuadFound ==
    LET peaks == {i \in 0 .. ring.sz - 1 : Peak(i)}
        kept == {i \in peaks : Cardinality({j \in peaks : errs[j] >= errs[i]}) <= MaxMaxima}
        quads == {q \in kept \X kept \X kept \X kept :
                     /\ q[1] < q[2] /\ q[2] < q[3] /\ q[3] < q[4]
                     /\ \A s \in {<<q[1], q[2]>>, <<q[2], q[3]>>, <<q[3], q[4]>>,
                                  <<q[4], q[1]>>} : ring.mse[s] <= MaxErr
                     /\ <<q[1], q[2], q[3]>> \notin ring.straight}
    IN /\ place = "quad" =>
              /\ indices \in quads
              /\ \A q \in quads : Total(indices) <= Total(q)
       /\ place = "no quad" /\ ring.sz >= 24 =>
              \A q \in quads : Total(q) >= MaxErr * ring.sz
=============================================================================
