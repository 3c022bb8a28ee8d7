-------------------------------- MODULE Chunks --------------------------------
(***************************************************************************)
(* How apriltag_detector_detect cuts work of a size sz, for n threads,     *)
(* into tasks for its thread pool.                                         *)
(***************************************************************************)
EXTENDS Naturals

CONSTANT Target         \* APRILTAG_TASKS_PER_THREAD_TARGET

-----------------------------------------------------------------------------
Least(a, b) == IF a < b THEN a ELSE b

ChunkSize(sz, n) == 1 + sz \div (Target * n)
NTasks(sz, n) == (sz + ChunkSize(sz, n) - 1) \div ChunkSize(sz, n)
First(sz, n, k) == (k - 1) * ChunkSize(sz, n)

\* Clusters and quads: task k has cidx0 .. cidx1 - 1.
Items(sz, n, k) ==
    First(sz, n, k) .. Least(sz, First(sz, n, k) + ChunkSize(sz, n)) - 1

\* Lines to connect: task k has y0 .. y1 - 1, and line y1 is left for the end.
WholeChunk(sz, n, k) == Least(sz, First(sz, n, k) + ChunkSize(sz, n))  \* mutant
AfterLine(sz, n, k) == Least(sz, First(sz, n, k) + ChunkSize(sz, n) - 1)
Lines(sz, n, k) == First(sz, n, k) .. AfterLine(sz, n, k) - 1

\* What is stitched when the run is over: the lines between the chunks.
Stitched(sz, n) == {AfterLine(sz, n, k) : k \in 1 .. NTasks(sz, n) - 1}

\* If the chunks come out even nobody connects the last line.
Forgotten(sz, n) == IF sz % ChunkSize(sz, n) = 0 THEN {sz - 1} ELSE {}
=============================================================================
