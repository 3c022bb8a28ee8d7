------------------------------- MODULE Segments -------------------------------
(***************************************************************************)
(* The segments of a thresholded image: a union-find over its pixels       *)
(* (common/unionfind.h) that do_unionfind_line grows, line by line, from   *)
(* the tasks of several threads, and that is stitched between their chunks *)
(* in the end.  As no two tasks write the same line (Detector), a line is  *)
(* connected in one step.  The border points between two segments make a   *)
(* cluster, which fit_quad brings into the order of a walk around it; as   *)
(* each cluster is one task's, this is one step too.                       *)
(***************************************************************************)
EXTENDS Integers, Sequences, FiniteSets, SequencesExt, FiniteSetsExt, Chunks

CONSTANTS
    Width, Height,
    Images,         \* thresholded images
    MinPoints,      \* td->qtp.min_cluster_pixels
    MaxThreads      \* bound: td->nthreads

\* Assumed by Parts.
ImageAssumption ==
    /\ Width \in Nat \ {0, 1} /\ Height \in Nat \ {0, 1}
    /\ MinPoints \in Nat
    /\ Images \subseteq [0 .. Height - 1 -> [0 .. Width - 1 -> {0, 127, 255}]]

VARIABLES
    im,             \* the image, or <<>>
    n,              \* the threads it is segmented with
    at,             \* the next line of each task
    data,           \* the union-find
    clusters,       \* the points of each cluster, by its two representatives
    stage           \* "none", "run", "stitched", "clustered", "ordered"

vars == <<im, n, at, data, clusters, stage>>

-----------------------------------------------------------------------------
(* unionfind.h *)

Pixels == (0 .. Height - 1) \X (0 .. Width - 1)         \* y * w + x
Fresh == [p \in Pixels |-> [parent |-> p, size |-> 1]]

\* The nodes on the way to the root.
Way(uf, p) ==
    LET way[q \in Pixels] ==
            {q} \cup (IF uf[q].parent = q THEN {} ELSE way[uf[q].parent])
    IN way[p]
Root(uf, p) == CHOOSE q \in Way(uf, p) : uf[q].parent = q

\* unionfind_get_representative leaves every node on the way right below the root.
Collapsed(uf, p) ==
    LET way == Way(uf, p)
        root == Root(uf, p)
    IN [q \in Pixels |-> IF q \in way THEN [uf[q] EXCEPT !.parent = root] ELSE uf[q]]

Grafted(uf, child, root) ==
    [uf EXCEPT ![child].parent = root, ![root].size = @ + uf[child].size]

ConnectLeaves(uf, a, b) ==                              \* mutant: a, not its root
    LET found == Collapsed(Collapsed(uf, a), b)
        broot == Root(found, b)
    IN IF Root(found, a) = broot THEN found ELSE Grafted(found, a, broot)
Connect(uf, a, b) ==
    LET found == Collapsed(Collapsed(uf, a), b)
        aroot == Root(found, a)
        broot == Root(found, b)
    IN IF aroot = broot THEN found
       ELSE IF found[aroot].size > found[broot].size THEN Grafted(found, broot, aroot)
       ELSE Grafted(found, aroot, broot)

-----------------------------------------------------------------------------
(* do_unionfind_line *)

DoPixel(uf, y, x) ==
    LET v == im[y][x]
        connect(u, dx, dy) == IF im[y + dy][x + dx] = v
                              THEN Connect(u, <<y, x>>, <<y + dy, x + dx>>) ELSE u
        straight == connect(connect(uf, 1, 0), 0, 1)
    IN IF v = 127 THEN uf
       ELSE IF v = 255 THEN connect(connect(straight, -1, 1), 1, 1) ELSE straight

DoLine(uf, y) ==
    LET upto[x \in 0 .. Width - 2] ==
            IF x = 0 THEN uf ELSE DoPixel(upto[x - 1], y, x)
    IN upto[Width - 2]

-----------------------------------------------------------------------------
(* apriltag_quad_thresh: the points half-way between a black and a white pixel. *)

Straight == <<<<1, 0>>, <<0, 1>>>>
Diagonal == <<<<-1, 1>>, <<1, 1>>>>
Ways == Straight \o Diagonal
Inner == (1 .. Height - 2) \X (1 .. Width - 2)
Value(p) == im[p[1]][p[2]]
Moved(p, d) == <<p[1] + d[2], p[2] + d[1]>>

\* Every inner pixel with its four neighbours, in the order of the loops.
NLinks == 4 * ((Height - 2) * (Width - 2))
Link(k) ==
    LET i == (k - 1) \div 4
        p == <<1 + (i \div (Width - 2)), 1 + (i % (Width - 2))>>
    IN <<p, Moved(p, Ways[1 + ((k - 1) % 4)])>>

\* v0 + v1 == 255: one black and one white.
Differ(l) == Value(l[1]) + Value(l[2]) = 255
Links == {l \in {Link(k) : k \in 1 .. NLinks} : Differ(l)}

Id(l) == {Root(data, l[1]), Root(data, l[2])}           \* clusterid

\* Twice the coordinates; of the gradient, the signs.
Point(l) ==
    LET sign == IF Value(l[1]) < Value(l[2]) THEN 1 ELSE -1
    IN [x |-> l[1][2] + l[2][2], y |-> l[1][1] + l[2][1],
        gx |-> sign * (l[2][2] - l[1][2]), gy |-> sign * (l[2][1] - l[1][1])]

\* The cluster of an id, to which each link adds its point when it is found.
Points(id) ==
    LET upto[k \in 0 .. NLinks] ==
            IF k = 0 THEN <<>>
            ELSE IF Differ(Link(k)) /\ Id(Link(k)) = id
            THEN Append(upto[k - 1], Point(Link(k))) ELSE upto[k - 1]
    IN upto[NLinks]

-----------------------------------------------------------------------------
(* ptsort *)

\* The sorting networks for two to five points.
Networks == <<
    <<>>,
    <<<<1, 2>>>>,
    <<<<1, 2>>, <<2, 3>>, <<1, 2>>>>,
    <<<<1, 2>>, <<3, 4>>, <<1, 3>>, <<2, 4>>, <<2, 3>>>>,
    <<<<1, 2>>, <<4, 5>>, <<2, 3>>, <<1, 2>>, <<1, 4>>, <<3, 5>>, <<2, 3>>, <<3, 4>>,
      <<2, 3>>>> >>

MaybeSwap(pts, c) ==
    IF pts[c[1]].theta > pts[c[2]].theta
    THEN [pts EXCEPT ![c[1]] = pts[c[2]], ![c[2]] = pts[c[1]]] ELSE pts

Networked(s) ==
    LET net == Networks[Len(s)]
        upto[j \in 0 .. Len(net)] ==
            IF j = 0 THEN s ELSE MaybeSwap(upto[j - 1], net[j])
    IN upto[Len(net)]

\* upto[k]: the first k points, and how many of them are taken from as.
Merged(as, bs) ==
    LET upto[k \in 0 .. Len(as) + Len(bs)] ==
            IF k = 0 THEN [pts |-> <<>>, apos |-> 0]
            ELSE LET was == upto[k - 1]
                     apos == was.apos
                     bpos == k - 1 - apos
                 IN IF /\ apos < Len(as)
                       /\ bpos < Len(bs) => as[apos + 1].theta < bs[bpos + 1].theta
                    THEN [pts |-> Append(was.pts, as[apos + 1]), apos |-> apos + 1]
                    ELSE [pts |-> Append(was.pts, bs[bpos + 1]), apos |-> apos]
    IN upto[Len(as) + Len(bs)].pts

\* sort[<<from, sz>>]: the sz points behind the first from.
PtSort(pts) ==
    LET all == Len(pts)
        parts == {r \in (0 .. all) \X (0 .. all) : r[1] + r[2] <= all}
        sort[r \in parts] ==
            LET asz == r[2] \div 2
                here == SubSeq(pts, r[1] + 1, r[1] + r[2])
            IN IF r[2] <= 1 THEN here
               ELSE IF r[2] <= 5 THEN Networked(here)
               ELSE Merged(sort[<<r[1], asz>>], sort[<<r[1] + asz, r[2] - asz>>])
    IN sort[<<0, all>>]

-----------------------------------------------------------------------------
(* fit_quad, up to the order of the points *)

\* 2000 times the middle of the bounding box, and the noise added to it: 0.05118 and
\* -0.028581, rounded.
Middle(c, noise) ==
    LET xs == {p.x : p \in Range(c)}
        ys == {p.y : p \in Range(c)}
    IN <<1000 * (Min(xs) + Max(xs)) + noise[1], 1000 * (Min(ys) + Max(ys)) + noise[2]>>
ExactCentre(c) == Middle(c, <<0, 0>>)                   \* mutant
Centre(c) == Middle(c, <<102, -57>>)
Off(c, p) == <<2000 * p.x - Centre(c)[1], 2000 * p.y - Centre(c)[2]>>

\* atan2f of u is less than that of v.
Half(v) == IF v[2] < 0 THEN 0 ELSE IF v[2] > 0 THEN 2 ELSE IF v[1] >= 0 THEN 1 ELSE 3
Lower(u, v) ==
    \/ Half(u) < Half(v)
    \/ Half(u) = Half(v) /\ u[1] * v[2] > u[2] * v[1]

WithTheta(c) ==
    LET offs == {Off(c, p) : p \in Range(c)}
        theta == [u \in offs |-> Cardinality({v \in offs : Lower(v, u)})]
    IN [i \in DOMAIN c |->
           [x |-> c[i].x, y |-> c[i].y, theta |-> theta[Off(c, c[i])]]]

\* "Ensure that the black border is inside the white border."
Dot(c) ==
    FoldLeft(LAMBDA sum, p : sum + Off(c, p)[1] * p.gx + Off(c, p)[2] * p.gy, 0, c)

\* "remove duplicate points"
Deduped(c) ==
    LET repeats(i) == i > 1 /\ c[i].x = c[i - 1].x /\ c[i].y = c[i - 1].y
        kept[i \in 0 .. Len(c)] ==
            IF i = 0 THEN <<>>
            ELSE IF repeats(i) THEN kept[i - 1] ELSE Append(kept[i - 1], c[i])
    IN kept[Len(c)]

\* <<>> where do_quad_task or fit_quad gives the cluster up.
Ordered(c) ==
    IF Len(c) < MinPoints \/ Len(c) > 3 * (2 * Width + 2 * Height) \/ Len(c) < 4
       \/ Dot(c) < 0
    THEN <<>>
    ELSE Deduped(PtSort(WithTheta(c)))

-----------------------------------------------------------------------------
Sz == Height - 1
Tasks(threads) == IF threads > 1 THEN 1 .. NTasks(Sz, threads) ELSE {1}
From(k, threads) == IF threads > 1 THEN First(Sz, threads, k) ELSE 0
To(k) == IF n > 1 THEN AfterLine(Sz, n, k) ELSE Sz

Init ==
    /\ im = <<>> /\ n = 1 /\ at = <<>>
    /\ data = <<>> /\ clusters = <<>> /\ stage = "none"

Begin ==
    /\ stage = "none"
    /\ im' \in Images /\ n' \in 1 .. MaxThreads
    /\ at' = [k \in Tasks(n') |-> From(k, n')]
    /\ data' = Fresh /\ stage' = "run"
    /\ UNCHANGED clusters

\* do_unionfind_task
DoTask(k) ==
    /\ stage = "run" /\ at[k] < To(k)
    /\ data' = DoLine(data, at[k])
    /\ at' = [at EXCEPT ![k] = @ + 1]
    /\ UNCHANGED <<im, n, clusters, stage>>

\* workerpool_run is back.
Stitch ==
    /\ stage = "run"
    /\ \A k \in DOMAIN at : at[k] = To(k)
    /\ LET upto[k \in 0 .. NTasks(Sz, n) - 1] ==
               IF k = 0 THEN data ELSE DoLine(upto[k - 1], AfterLine(Sz, n, k))
       IN data' = IF n > 1 THEN upto[NTasks(Sz, n) - 1] ELSE data
    /\ stage' = "stitched"
    /\ UNCHANGED <<im, n, at, clusters>>

\* Asking for the representatives collapses paths again.
Cluster ==
    /\ stage = "stitched"
    /\ LET asked == {p \in Inner : Value(p) # 127} \cup {l[2] : l \in Links}
       IN data' = FoldSet(LAMBDA p, uf : Collapsed(uf, p), data, asked)
    /\ clusters' = [id \in {Id(l) : l \in Links} |-> Points(id)]
    /\ stage' = "clustered"
    /\ UNCHANGED <<im, n, at>>

\* workerpool_run with do_quad_task.
FitQuads ==
    /\ stage = "clustered"
    /\ clusters' = [id \in DOMAIN clusters |-> Ordered(clusters[id])]
    /\ stage' = "ordered"
    /\ UNCHANGED <<im, n, at, data>>

\* unionfind_destroy, zarray_destroy
Destroy ==
    /\ stage = "ordered"
    /\ im' = <<>> /\ n' = 1 /\ at' = <<>>
    /\ data' = <<>> /\ clusters' = <<>> /\ stage' = "none"

Next ==
    \/ Begin
    \/ \E k \in DOMAIN at : DoTask(k)
    \/ Stitch \/ Cluster \/ FitQuads
    \/ Destroy

Spec == Init /\ [][Next]_vars

-----------------------------------------------------------------------------
\* Whom a pixel belongs with: a neighbour in the next column or line of the same
\* colour, white ones also across the corner.  The first and last column reach out
\* to nobody, nor does the last line.
Connected == 0 .. Sz - 1 \ (IF n > 1 THEN Forgotten(Sz, n) ELSE {})
Touch(p, q) ==
    /\ p[1] \in Connected /\ p[2] \in 1 .. Width - 2
    /\ im[p[1]][p[2]] = im[q[1]][q[2]] /\ im[p[1]][p[2]] # 127
    /\ \/ q = <<p[1], p[2] + 1>>
       \/ q = <<p[1] + 1, p[2]>>
       \/ q[1] = p[1] + 1 /\ q[2] \in {p[2] - 1, p[2] + 1} /\ im[p[1]][p[2]] = 255

Edges == {e \in Pixels \X Pixels : Touch(e[1], e[2]) \/ Touch(e[2], e[1])}

Component(edges, p) ==
    LET grown[s \in SUBSET Pixels] ==
            LET all == s \cup {e[2] : e \in {f \in edges : f[1] \in s}}
            IN IF all = s THEN s ELSE grown[all]
    IN grown[{p}]

\* Whichever thread connects its lines first, and however the trees were joined and
\* collapsed by then, two pixels have one representative just when they belong to
\* one component, and the size that small segments are told by is the component's
\* (unionfind.h:95-156, apriltag_quad_thresh.c:1095-1126, 1526-1563).
SegmentsAreComponents ==
    stage = "stitched" =>
        LET edges == Edges
            root == [p \in Pixels |-> Root(data, p)]
        IN \A p \in {root[q] : q \in Pixels} :
               LET segment == {q \in Pixels : root[q] = p} IN
               /\ segment = Component(edges, p)
               /\ data[p].size = Cardinality(segment)

\* A cluster that is kept walks once around the border of two segments: it has every
\* point between them, although most were found several times over and merge sort and
\* networks leave points of one angle in any order, it has each once, and each lies
\* at a greater angle than the one before it (apriltag_quad_thresh.c:1572-1640,
\* 119-232, 700-777).
BordersOnce ==
    stage = "ordered" =>
        LET edges == Edges IN
        \A id \in {i \in DOMAIN clusters : clusters[i] # <<>>} :
            LET ring == clusters[id]
                segment == UNION {Component(edges, p) : p \in id}
                between == {q \in Inner \X segment :
                               /\ q[1] \in segment /\ Value(q[1]) # Value(q[2])
                               /\ \E d \in Range(Ways) : q[2] = Moved(q[1], d)}
            IN /\ {<<p.x, p.y>> : p \in Range(ring)} =
                      {<<q[1][2] + q[2][2], q[1][1] + q[2][1]>> : q \in between}
               /\ \A i \in 1 .. Len(ring) - 1 :
                      Lower(Off(ring, ring[i]), Off(ring, ring[i + 1]))
=============================================================================
