------------------------------- MODULE Threshold -------------------------------
(***************************************************************************)
(* threshold(): a grey image becomes black (0), white (255) and, where no  *)
(* edge is near, 127.  It goes over the image four times: brightest and    *)
(* darkest pixel of each tile, the same of each tile with its neighbours,  *)
(* the pixels of the tiles, the pixels right of them and below.            *)
(* td->qtp.deglitch is 0.                                                  *)
(***************************************************************************)
EXTENDS Integers, FiniteSets, FiniteSetsExt

CONSTANTS
    MinDiff,        \* td->qtp.min_white_black_diff
    Greys           \* grey images: [h, w, buf], buf[y, x] the pixels

tilesz == 4

\* Assumed by Parts.  Of an image smaller than a tile the code reads tile -1.
GreyAssumption ==
    /\ MinDiff \in Nat \ {0}
    /\ \A g \in Greys :
           /\ g.h \in Nat /\ g.w \in Nat /\ g.h >= tilesz /\ g.w >= tilesz
           /\ g.buf \in [(0 .. g.h - 1) \X (0 .. g.w - 1) -> 0 .. 255]

VARIABLES
    grey,           \* the image
    pass,           \* "none", "stats", "blur", "whole", "partial", "done"
    im_max, im_min, \* of each tile
    threshim        \* the pixels thresholded so far

vars == <<grey, pass, im_max, im_min, threshim>>

-----------------------------------------------------------------------------
NoGrey == [h |-> 0, w |-> 0, buf |-> <<>>]

th == grey.h \div tilesz
tw == grey.w \div tilesz
Tiles == (0 .. th - 1) \X (0 .. tw - 1)
Buffer == (0 .. grey.h - 1) \X (0 .. grey.w - 1)

Pixels(t) ==
    {<<t[1] * tilesz + dy, t[2] * tilesz + dx>> : dy, dx \in 0 .. tilesz - 1}

OwnTile(t) == {t}                                       \* mutant: no blur
Around(t) ==
    {u \in Tiles : u[1] - t[1] \in -1 .. 1 /\ u[2] - t[2] \in -1 .. 1}

\* The tile of a pixel; those past the last whole tile take that one's.
Clamp(v, n) == IF v >= n THEN n - 1 ELSE v
TileOf(p) == <<Clamp(p[1] \div tilesz, th), Clamp(p[2] \div tilesz, tw)>>
Whole == {p \in Buffer : p[1] < th * tilesz /\ p[2] < tw * tilesz}

LowContrast(t) == im_max[t] - im_min[t] < MinDiff
Thresh(t) == im_min[t] + (im_max[t] - im_min[t]) \div 2
Binary(p) == IF grey.buf[p] > Thresh(TileOf(p)) THEN 255 ELSE 0

-----------------------------------------------------------------------------
Init ==
    /\ grey = NoGrey /\ pass = "none"
    /\ im_max = <<>> /\ im_min = <<>> /\ threshim = <<>>

Begin ==
    /\ pass = "none"
    /\ grey' \in Greys /\ pass' = "stats"
    /\ UNCHANGED <<im_max, im_min, threshim>>

\* "first, collect min/max statistics for each tile"
Stats ==
    /\ pass = "stats" /\ pass' = "blur"
    /\ im_max' = [t \in Tiles |-> Max({grey.buf[p] : p \in Pixels(t)})]
    /\ im_min' = [t \in Tiles |-> Min({grey.buf[p] : p \in Pixels(t)})]
    /\ UNCHANGED <<grey, threshim>>

\* "second, apply 3x3 max/min convolution"
Blur ==
    /\ pass = "blur" /\ pass' = "whole"
    /\ im_max' = [t \in Tiles |-> Max({im_max[u] : u \in Around(t)})]
    /\ im_min' = [t \in Tiles |-> Min({im_min[u] : u \in Around(t)})]
    /\ UNCHANGED <<grey, threshim>>

Binarize ==
    /\ pass = "whole" /\ pass' = "partial"
    /\ threshim' = [p \in Whole |-> IF LowContrast(TileOf(p)) THEN 127 ELSE Binary(p)]
    /\ UNCHANGED <<grey, im_max, im_min>>

\* "we skipped over the non-full-sized tiles above"
BinarizeRest ==
    /\ pass = "partial" /\ pass' = "done"
    /\ threshim' = [p \in Buffer |-> IF p \in Whole THEN threshim[p] ELSE Binary(p)]
    /\ UNCHANGED <<grey, im_max, im_min>>

\* image_u8_destroy, free
Destroy ==
    /\ pass = "done"
    /\ grey' = NoGrey /\ pass' = "none"
    /\ im_max' = <<>> /\ im_min' = <<>> /\ threshim' = <<>>

Next ==
    \/ Begin
    \/ Stats \/ Blur \/ Binarize \/ BinarizeRest
    \/ Destroy

Spec == Init /\ [][Next]_vars

-----------------------------------------------------------------------------
Near(p, q) == p[1] - q[1] \in -tilesz .. tilesz /\ p[2] - q[2] \in -tilesz .. tilesz

\* "To avoid artifacts that arise when high-contrast features appear near a tile
\* edge" (apriltag_quad_thresh.c:1185-1191): wherever the tiles' edges fall, a pixel of
\* a whole tile is called low contrast only if every other within a tile's size of it
\* is about as bright; and in an image of two levels every other pixel comes out black
\* or white as it is (1216-1322).
EdgesSurvive ==
    pass = "done" =>
        LET levels == {grey.buf[p] : p \in Whole}
        IN \A p \in Whole :
               /\ (\E q \in Whole : /\ Near(p, q)
                                   /\ \/ grey.buf[p] - grey.buf[q] >= MinDiff
                                      \/ grey.buf[q] - grey.buf[p] >= MinDiff)
                      => threshim[p] # 127
               /\ \A dark, bright \in levels :
                      levels = {dark, bright} /\ dark < bright /\ threshim[p] # 127 =>
                          (threshim[p] = 255 <=> grey.buf[p] = bright)
=============================================================================
