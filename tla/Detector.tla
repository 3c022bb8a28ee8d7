------------------------------- MODULE Detector -------------------------------
(***************************************************************************)
(* The tasks that apriltag_detector_detect adds to the pool: the lines of  *)
(* the image for the union-find that grows the segments, the clusters for  *)
(* do_quad_task, the quads for quad_decode_task.  Connecting a line writes *)
(* that line and the next one in the union-find, without a lock.           *)
(***************************************************************************)
EXTENDS WorkerPool, Chunks

CONSTANT Sizes          \* lines to connect, clusters, quads

\* Assumed by Parts.
ChunkAssumption == Target \in Nat \ {0} /\ Sizes \subseteq Nat \ {0}

-----------------------------------------------------------------------------
Rows(sz, k) == LET own == Lines(sz, nthreads, k) IN own \cup {y + 1 : y \in own}

Doers(sz, y) == {k \in 1 .. size : y \in Lines(sz, nthreads, k) /\ done[k] > 0}
Holders(sz, y) == {k \in 1 .. size : y \in Items(sz, nthreads, k) /\ done[k] = 1}

-----------------------------------------------------------------------------
\* "make sure that each task doesn't touch rows used by another thread"
\* (apriltag_quad_thresh.c:1543): two tasks that run at once write no row of the
\* union-find both, and when run returns every line was connected once, or is
\* about to be - but for the last one if the chunks come out even - and every
\* cluster and every quad was in one task that has run (1533-1563, 1747-1766;
\* apriltag.c:1225-1244).  Unless a thread has crossed the caller, whose run may then
\* return too early.
TasksDoNotMeet ==
    \A sz \in Sizes :
      ~crossed /\ nthreads > 1 /\ size = NTasks(sz, nthreads) /\ caller # "stop" =>
        /\ \A v, w \in Workers :
               v # w /\ pc[v] = "busy" /\ pc[w] = "busy" =>
                   Rows(sz, Task(v)) \cap Rows(sz, Task(w)) = {}
        /\ caller = "rewind" => \A y \in 0 .. sz - 1 :
               /\ IF y \in Stitched(sz, nthreads) \cup Forgotten(sz, nthreads)
                  THEN Doers(sz, y) = {}
                  ELSE \E k \in 1 .. size : Doers(sz, y) = {k}
               /\ \E k \in 1 .. size : Holders(sz, y) = {k}
=============================================================================
