------------------------------- MODULE Reconcile -------------------------------
(***************************************************************************)
(* apriltag_detector_detect's last step: of detections of one tag that     *)
(* overlap only one is to be reported.  The array they are in is filled by *)
(* the tasks of the pool, in any order, and an element that is removed     *)
(* from it is replaced by the last one.                                    *)
(***************************************************************************)
EXTENDS Integers, Sequences, Functions

\* What can be detected in one image: [tag, rank, overlaps], where tag[d] is <<id,
\* family>> of detection d, the detection of smaller rank is preferred, and overlaps
\* holds the pairs {c, d} that overlap.
CONSTANT Scenes

\* Assumed by Parts.
SceneAssumption ==
    \A s \in Scenes :
        /\ s.rank \in [DOMAIN s.tag -> Int]
        /\ \A d \in DOMAIN s.tag : s.tag[d][1] \in Int
        /\ s.overlaps \subseteq SUBSET DOMAIN s.tag

VARIABLES
    scene,
    phase,          \* "none", "detect", "reconcile", "sort", "done"
    detections,     \* the array
    i0, i1          \* the indices of the two loops

vars == <<scene, phase, detections, i0, i1>>

-----------------------------------------------------------------------------
NoScene == [tag |-> <<>>, rank |-> <<>>, overlaps |-> {}]

Init ==
    /\ scene = NoScene /\ phase = "none"
    /\ detections = <<>> /\ i0 = 1 /\ i1 = 2

Look(s) ==
    /\ phase = "none"
    /\ scene' = s /\ phase' = "detect"
    /\ UNCHANGED <<detections, i0, i1>>

\* quad_decode_task, under td->mutex.
Detect(d) ==
    /\ phase = "detect"
    /\ d \in DOMAIN scene.tag \ Range(detections)
    /\ detections' = Append(detections, d)
    /\ UNCHANGED <<scene, phase, i0, i1>>

\* workerpool_run is back.
Return ==
    /\ phase = "detect" /\ Range(detections) = DOMAIN scene.tag
    /\ phase' = "reconcile"
    /\ UNCHANGED <<scene, detections, i0, i1>>

-----------------------------------------------------------------------------
Inside == phase = "reconcile" /\ i1 <= Len(detections)
Det0 == detections[i0]
Det1 == detections[i1]
Conflict == scene.tag[Det0] = scene.tag[Det1] /\ {Det0, Det1} \in scene.overlaps

\* prefer_smaller of hamming, margin, goodness and the corners in turn.
Pref == scene.rank[Det0] - scene.rank[Det1]

\* zarray_remove_index with shuffle
Removed(i) ==
    LET last == Len(detections)
    IN [j \in 1 .. last - 1 |-> IF j = i THEN detections[last] ELSE detections[j]]

KeepBoth ==
    /\ Inside /\ ~Conflict
    /\ i1' = i1 + 1
    /\ UNCHANGED <<scene, phase, detections, i0>>

\* i1-- and i1++
DropSecond ==
    /\ Inside /\ Conflict /\ Pref < 0
    /\ detections' = Removed(i1)
    /\ UNCHANGED <<scene, phase, i0, i1>>

\* i0-- and i0++.  Without a preference too.
DropFirstOnly ==                                    \* mutant: goes on with i0 + 1
    /\ Inside /\ Conflict /\ Pref >= 0
    /\ detections' = Removed(i0)
    /\ i0' = i0 + 1 /\ i1' = i0 + 2
    /\ UNCHANGED <<scene, phase>>
DropFirst ==
    /\ Inside /\ Conflict /\ Pref >= 0
    /\ detections' = Removed(i0)
    /\ i1' = i0 + 1
    /\ UNCHANGED <<scene, phase, i0>>

NextFirst ==
    /\ phase = "reconcile" /\ i1 > Len(detections)
    /\ IF i0 < Len(detections)
       THEN i0' = i0 + 1 /\ i1' = i0 + 2 /\ UNCHANGED phase
       ELSE phase' = "sort" /\ UNCHANGED <<i0, i1>>
    /\ UNCHANGED <<scene, detections>>

\* zarray_sort with detection_compare_function.  Which of two with one id comes
\* first is left to qsort.
ById(c, d) == scene.tag[c][1] < scene.tag[d][1]
Sort ==
    /\ phase = "sort"
    /\ \E p \in Bijection(DOMAIN detections, DOMAIN detections) :
           /\ \A i, j \in DOMAIN p : ById(detections[p[i]], detections[p[j]]) => i < j
           /\ detections' = [i \in DOMAIN p |-> detections[p[i]]]
    /\ phase' = "done"
    /\ UNCHANGED <<scene, i0, i1>>

\* apriltag_detections_destroy: the next image.
Destroy ==
    /\ phase = "done"
    /\ scene' = NoScene /\ phase' = "none"
    /\ detections' = <<>> /\ i0' = 1 /\ i1' = 2

Next ==
    \/ \E s \in Scenes : Look(s)
    \/ (\E d \in DOMAIN scene.tag : Detect(d)) \/ Return
    \/ KeepBoth \/ DropSecond \/ DropFirst \/ NextFirst \/ Sort
    \/ Destroy

Spec == Init /\ [][Next]_vars

-----------------------------------------------------------------------------
\* "don't report the same tag more than once" (apriltag.c:1280): whatever order
\* the threads finish in, and although an array that is walked through by two
\* indices is shuffled under them, of the detections that are reported no two of
\* one tag overlap; none was dropped but for a better one, or one as good, that it
\* overlapped; the best of each tag is reported; and they are in the order of
\* their ids.
Better(c, d) == scene.tag[c] = scene.tag[d] /\ scene.rank[c] <= scene.rank[d]

TagsReportedOnce ==
    phase = "done" =>
        LET kept == Range(detections) IN
        /\ \A c, d \in kept :
               c # d /\ scene.tag[c] = scene.tag[d] => {c, d} \notin scene.overlaps
        /\ \A i, j \in DOMAIN detections : detections[i] = detections[j] => i = j
        /\ \A d \in DOMAIN scene.tag \ kept :
               \E c \in DOMAIN scene.tag \ {d} : Better(c, d) /\ {c, d} \in scene.overlaps
        /\ \A d \in DOMAIN scene.tag : \E c \in kept : Better(c, d)
        /\ \A i, j \in DOMAIN detections : ById(detections[i], detections[j]) => i < j
=============================================================================
