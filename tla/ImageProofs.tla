------------------------------ MODULE ImageProofs ------------------------------
(***************************************************************************)
(* That the segments of an image are its components and the clusters walks *)
(* along their borders, for every image.                                   *)
(*                                                                         *)
(* A union-find is a forest whose sizes grow from child to parent, so that *)
(* ways end; it joins what the edges of the connected lines join, and is   *)
(* closed under nothing else, whoever connected them first.                *)
(*                                                                         *)
(* So the links of a cluster are the pairs of neighbours on either side of *)
(* a border.  Networks and merges sort them by how many angles are lower,  *)
(* which is an order as no point is level with the noisy middle, and what  *)
(* removing duplicates leaves has every place, at angles that never        *)
(* decrease.                                                               *)
(***************************************************************************)
EXTENDS PartsProofs

-----------------------------------------------------------------------------
(* The union-find: roots, and the way to them *)

Class(r, p) == {q \in Segs!Pixels : r[q] = p}

\* A forest, where r leads to the roots.
Rooted(uf, r) ==
    /\ uf \in [Segs!Pixels -> [parent : Segs!Pixels, size : Nat \ {0}]]
    /\ r \in [Segs!Pixels -> Segs!Pixels]
    /\ \A p \in Segs!Pixels :
           /\ r[uf[p].parent] = r[p] /\ uf[r[p]].parent = r[p]
           /\ uf[p].parent = p => r[p] = p
           /\ uf[p].parent # p => uf[uf[p].parent].size > uf[p].size
           /\ r[p] # p => uf[r[p]].size > uf[p].size
           /\ uf[r[p]].size = Cardinality(Class(r, r[p]))

Up(uf) == [p \in Segs!Pixels |-> uf[p].parent]
SizeOf(uf) == [p \in Segs!Pixels |-> uf[p].size]

\* An image has finitely many pixels.
LEMMA PixelsFinite == Segs!ImageAssumption => IsFiniteSet(Segs!Pixels)
<1> SUFFICES ASSUME Segs!ImageAssumption PROVE IsFiniteSet(Segs!Pixels)
  OBVIOUS
<1>1. Height - 1 \in Int /\ Width - 1 \in Int /\ 0 \in Int
  BY DEF Segs!ImageAssumption
<1>2. IsFiniteSet(0 .. Height - 1) /\ IsFiniteSet(0 .. Width - 1)
  BY <1>1, FS_Interval
<1> QED
  BY <1>2, FS_Product DEF Segs!Pixels

\* In a forest sizes grow from child to parent, up to the number of pixels.
LEMMA RisesOK ==
    ASSUME Segs!ImageAssumption, NEW uf, NEW r, Rooted(uf, r)
    PROVE  \E m \in Nat : Rises(Segs!Pixels, Up(uf), SizeOf(uf), m)
<1> DEFINE m == Cardinality(Segs!Pixels)
<1>1. m \in Nat
  BY PixelsFinite, FS_CardinalityType
<1>2. ASSUME NEW p \in Segs!Pixels
      PROVE  uf[p].size \in Nat /\ uf[p].size <= m
  <2>1. Class(r, r[p]) \in SUBSET Segs!Pixels
    BY DEF Class
  <2>2. Cardinality(Class(r, r[p])) \in Nat /\ Cardinality(Class(r, r[p])) <= m
    BY <2>1, PixelsFinite, FS_Subset, FS_CardinalityType
  <2>4. uf[r[p]].size = Cardinality(Class(r, r[p]))
    BY DEF Rooted
  <2>6. uf[p].size \in Nat
    BY DEF Rooted
  <2>7. CASE r[p] = p
    BY <2>2, <2>4, <2>6, <2>7
  <2>8. CASE r[p] # p
    <3>1. uf[r[p]].size > uf[p].size
      BY <2>8 DEF Rooted
    <3> DEFINE c == Cardinality(Class(r, r[p]))
               a == uf[p].size
    <3>2. c \in Nat /\ c <= m /\ a \in Nat /\ c > a
      BY <2>2, <2>4, <2>6, <3>1
    <3> HIDE DEF m, c, a
    <3>3. a <= m
      BY <1>1, <3>2
    <3> QED
      BY <2>6, <3>3 DEF a
  <2> QED
    BY <2>7, <2>8
<1> HIDE DEF m
<1>3. SizeOf(uf) \in [Segs!Pixels -> 0 .. m]
  <2>1. \A p \in Segs!Pixels : uf[p].size \in 0 .. m
    BY <1>1, <1>2
  <2> QED
    BY <2>1 DEF SizeOf
<1>4. Up(uf) \in [Segs!Pixels -> Segs!Pixels]
  BY DEF Rooted, Up
<1>5. \A q \in Segs!Pixels : Up(uf)[q] # q => SizeOf(uf)[Up(uf)[q]] > SizeOf(uf)[q]
  BY <1>4 DEF Up, SizeOf, Rooted
<1> QED
  BY <1>1, <1>3, <1>4, <1>5 DEF Rises

\* So the recursion that is a pixel's way up has the solution it names.
LEMMA WayIs ==
    ASSUME Segs!ImageAssumption, NEW uf, NEW r, Rooted(uf, r), NEW q \in Segs!Pixels
    PROVE  Segs!Way(uf, q) =
               {q} \cup (IF uf[q].parent = q THEN {} ELSE Segs!Way(uf, uf[q].parent))
<1> DEFINE P == Segs!Pixels
           T == SUBSET P
           base == [p \in P |-> {p}]
           next == [t \in P \X T |-> {t[1]} \cup t[2]]
           Is(f) == f = [p \in Segs!Pixels |->
                            {p} \cup (IF uf[p].parent = p THEN {} ELSE f[uf[p].parent])]
<1>1. PICK m \in Nat : Rises(P, Up(uf), SizeOf(uf), m)
  BY RisesOK
<1>2. base \in [P -> T] /\ next \in Steps(P, T)
  BY DEF Steps
<1>3. PICK f : Climbs(f, P, T, Up(uf), base, next)
  <2> HIDE DEF P, T, base, next
  <2> QED
    BY <1>1, <1>2, RankRecursion
<1>4. \A p \in P : uf[p].parent \in P
  BY DEF Rooted
<1>5. Is(f)
  <2>1. f \in [P -> T]
    BY <1>3 DEF Climbs
  <2>2. ASSUME NEW p \in P
        PROVE  f[p] = {p} \cup (IF uf[p].parent = p THEN {} ELSE f[uf[p].parent])
    <3>1. f[p] = IF Up(uf)[p] = p THEN base[p] ELSE next[<<p, f[Up(uf)[p]]>>]
      BY <1>3 DEF Climbs
    <3>2. Up(uf)[p] = uf[p].parent
      BY DEF Up
    <3>3. base[p] = {p}
      OBVIOUS
    <3>4. <<p, f[uf[p].parent]>> \in P \X T
      BY <1>4, <2>1
    <3>5. next[<<p, f[uf[p].parent]>>] = {p} \cup f[uf[p].parent]
      BY <3>4
    <3> HIDE DEF base, next
    <3> QED
      BY <3>1, <3>2, <3>3, <3>5
  <2>3. f = [p \in P |-> f[p]]
    BY <2>1
  <2> HIDE DEF next, base
  <2> QED
    BY <2>2, <2>3, Zenon
<1> DEFINE way == CHOOSE g : Is(g)
<1>6. Is(way)
  <2> HIDE DEF Is
  <2> QED
    BY <1>5
<1>7. \A p : Segs!Way(uf, p) = way[p]
  BY DEF Segs!Way
<1>8. \A p \in Segs!Pixels :
          way[p] = {p} \cup (IF uf[p].parent = p THEN {} ELSE way[uf[p].parent])
  <2> DEFINE w == way
  <2>1. Is(w)
    BY <1>6
  <2> HIDE DEF w
  <2>2. \A p \in Segs!Pixels :
            w[p] = {p} \cup (IF uf[p].parent = p THEN {} ELSE w[uf[p].parent])
    BY <2>1
  <2> QED
    BY <2>2 DEF w
<1> HIDE DEF way
<1> QED
  BY <1>7, <1>8

\* The nodes on the way have one root, which is the last of them.
LEMMA WayOK ==
    ASSUME Segs!ImageAssumption, NEW uf, NEW r, Rooted(uf, r)
    PROVE  \A q \in Segs!Pixels :
               /\ Segs!Way(uf, q) \subseteq Class(r, r[q])
               /\ r[q] \in Segs!Way(uf, q)
<1> DEFINE S == {q \in Segs!Pixels : /\ Segs!Way(uf, q) \subseteq Class(r, r[q])
                                     /\ r[q] \in Segs!Way(uf, q)}
<1>1. PICK m \in Nat : Rises(Segs!Pixels, Up(uf), SizeOf(uf), m)
  BY RisesOK
<1>2. ASSUME NEW q \in Segs!Pixels, Up(uf)[q] = q \/ Up(uf)[q] \in S
      PROVE  q \in S
  <2>1. Up(uf)[q] = uf[q].parent
    BY DEF Up
  <2>2. q \in Class(r, r[q])
    BY DEF Class
  <2>3. CASE uf[q].parent = q
    <3>1. Segs!Way(uf, q) = {q} /\ r[q] = q
      BY <2>3, WayIs DEF Rooted
    <3> QED
      BY <2>2, <3>1
  <2>4. CASE uf[q].parent # q
    <3>1. Segs!Way(uf, q) = {q} \cup Segs!Way(uf, uf[q].parent)
      BY <2>4, WayIs
    <3>2. r[uf[q].parent] = r[q]
      BY DEF Rooted
    <3>3. /\ Segs!Way(uf, uf[q].parent) \subseteq Class(r, r[uf[q].parent])
          /\ r[uf[q].parent] \in Segs!Way(uf, uf[q].parent)
      BY <1>2, <2>1, <2>4
    <3> QED
      BY <2>2, <3>1, <3>2, <3>3
  <2> QED
    BY <2>3, <2>4
<1>3. Segs!Pixels \subseteq S
  <2> HIDE DEF S
  <2> QED
    BY <1>1, <1>2, RankInduction
<1> QED
  BY <1>3

\* unionfind_get_representative finds the root.
LEMMA RootOK ==
    ASSUME Segs!ImageAssumption, NEW uf, NEW r, Rooted(uf, r), NEW p \in Segs!Pixels
    PROVE  Segs!Root(uf, p) = r[p]
<1>1. /\ Segs!Way(uf, p) \subseteq Class(r, r[p])
      /\ r[p] \in Segs!Way(uf, p)
  BY WayOK
<1>2. uf[r[p]].parent = r[p]
  BY DEF Rooted
<1>3. \A q \in Segs!Way(uf, p) : uf[q].parent = q => q = r[p]
  BY <1>1 DEF Rooted, Class
<1> QED
  BY <1>1, <1>2, <1>3 DEF Segs!Root

\* Collapsing a way leaves every pixel in its tree.
LEMMA CollapsedOK ==
    ASSUME Segs!ImageAssumption, NEW uf, NEW r, Rooted(uf, r), NEW p \in Segs!Pixels
    PROVE  Rooted(Segs!Collapsed(uf, p), r)
<1> DEFINE new == Segs!Collapsed(uf, p)
           way == Segs!Way(uf, p)
<1>1. new = [q \in Segs!Pixels |-> IF q \in way THEN [uf[q] EXCEPT !.parent = r[p]] ELSE uf[q]]
  BY RootOK DEF Segs!Collapsed
<1>2. way \subseteq Class(r, r[p]) /\ r[p] \in Segs!Pixels
  BY WayOK DEF Rooted
<1> HIDE DEF new, way
<1>3. ASSUME NEW q \in Segs!Pixels
      PROVE  /\ new[q] \in [parent : Segs!Pixels, size : Nat \ {0}]
             /\ new[q].size = uf[q].size
             /\ new[q].parent = IF q \in way THEN r[p] ELSE uf[q].parent
  <2>1. uf[q] \in [parent : Segs!Pixels, size : Nat \ {0}]
    BY DEF Rooted
  <2>2. CASE q \in way
    BY <1>1, <1>2, <2>1, <2>2
  <2>3. CASE q \notin way
    BY <1>1, <2>1, <2>3
  <2> QED
    BY <2>2, <2>3
<1>4. new \in [Segs!Pixels -> [parent : Segs!Pixels, size : Nat \ {0}]]
  <2>1. new = [q \in Segs!Pixels |-> new[q]]
    BY <1>1
  <2> QED
    BY <1>3, <2>1
<1>5. ASSUME NEW q \in Segs!Pixels
      PROVE  /\ r[new[q].parent] = r[q] /\ new[r[q]].parent = r[q]
             /\ new[q].parent = q => r[q] = q
             /\ new[q].parent # q => new[new[q].parent].size > new[q].size
             /\ r[q] # q => new[r[q]].size > new[q].size
             /\ new[r[q]].size = Cardinality(Class(r, r[q]))
  <2>1. /\ r[q] \in Segs!Pixels /\ uf[q].parent \in Segs!Pixels
        /\ r[uf[q].parent] = r[q] /\ uf[r[q]].parent = r[q]
        /\ uf[q].parent = q => r[q] = q
        /\ uf[q].parent # q => uf[uf[q].parent].size > uf[q].size
        /\ r[q] # q => uf[r[q]].size > uf[q].size
        /\ uf[r[q]].size = Cardinality(Class(r, r[q]))
    BY DEF Rooted
  <2>2. r[r[p]] = r[p] /\ r[r[q]] = r[q]
    BY <1>2, <2>1 DEF Rooted
  <2>3. q \in way => r[q] = r[p]
    BY <1>2 DEF Class
  <2>4. r[q] \in way => r[q] = r[p]
    BY <1>2, <2>2 DEF Class
  <2> QED
    BY <1>2, <1>3, <2>1, <2>2, <2>3, <2>4
<1> QED
  BY <1>4, <1>5 DEF Rooted, new

-----------------------------------------------------------------------------
(* unionfind_connect *)

Merged(r, child, root) ==
    [p \in Segs!Pixels |-> IF r[p] = child THEN root ELSE r[p]]

\* Grafting a root below another makes one tree of the two.
LEMMA GraftedOK ==
    ASSUME Segs!ImageAssumption, NEW uf, NEW r, Rooted(uf, r),
           NEW child \in Segs!Pixels, NEW root \in Segs!Pixels,
           r[child] = child, r[root] = root, child # root
    PROVE  Rooted(Segs!Grafted(uf, child, root), Merged(r, child, root))
<1> DEFINE new == Segs!Grafted(uf, child, root)
           s == Merged(r, child, root)
<1>1. /\ uf \in [Segs!Pixels -> [parent : Segs!Pixels, size : Nat \ {0}]]
      /\ r \in [Segs!Pixels -> Segs!Pixels]
  BY DEF Rooted
<1>2. /\ uf[child].parent = child /\ uf[root].parent = root
      /\ uf[child].size = Cardinality(Class(r, child))
      /\ uf[root].size = Cardinality(Class(r, root))
      /\ uf[child].size \in Nat \ {0} /\ uf[root].size \in Nat \ {0}
  BY DEF Rooted
<1>3. ASSUME NEW q \in Segs!Pixels
      PROVE  /\ new[q] \in [parent : Segs!Pixels, size : Nat \ {0}]
             /\ new[q].parent = IF q = child THEN root ELSE uf[q].parent
             /\ new[q].size = IF q = root THEN uf[root].size + uf[child].size ELSE uf[q].size
  <2>1. uf[q] \in [parent : Segs!Pixels, size : Nat \ {0}]
    BY <1>1
  <2> DEFINE mid == [uf EXCEPT ![child].parent = root]
  <2>2. mid[q] = IF q = child THEN [uf[q] EXCEPT !.parent = root] ELSE uf[q]
    BY <1>1
  <2>3. /\ mid[root] = uf[root]
        /\ mid \in [Segs!Pixels -> [parent : Segs!Pixels, size : Nat \ {0}]]
    BY <1>1
  <2>4. new = [mid EXCEPT ![root].size = @ + uf[child].size]
    BY DEF Segs!Grafted
  <2> HIDE DEF mid, new
  <2>5. new[q] = IF q = root THEN [mid[q] EXCEPT !.size = mid[q].size + uf[child].size]
                 ELSE mid[q]
    BY <2>3, <2>4
  <2>6. CASE q = root
    <3>1. new[q] = [uf[root] EXCEPT !.size = uf[root].size + uf[child].size]
      BY <2>3, <2>5, <2>6
    <3>2. uf[root].size + uf[child].size \in Nat \ {0}
      BY <1>2
    <3> QED
      BY <1>2, <2>1, <2>6, <3>1, <3>2
  <2>7. CASE q # root
    BY <2>1, <2>2, <2>5, <2>7
  <2> QED
    BY <2>6, <2>7
<1>4. new \in [Segs!Pixels -> [parent : Segs!Pixels, size : Nat \ {0}]]
  <2>1. new = [q \in Segs!Pixels |-> new[q]]
    BY <1>1 DEF Segs!Grafted
  <2> HIDE DEF new
  <2> QED
    BY <1>3, <2>1
<1>5. s \in [Segs!Pixels -> Segs!Pixels]
  BY <1>1 DEF Merged
<1>6. \A q \in Segs!Pixels : s[q] = IF r[q] = child THEN root ELSE r[q]
  BY DEF Merged
<1>7. Cardinality(Class(s, root)) = uf[root].size + uf[child].size
  <2>1. Class(s, root) = Class(r, root) \cup Class(r, child)
    BY <1>6 DEF Class
  <2>2. Class(r, root) \cap Class(r, child) = {}
    BY DEF Class
  <2>3. IsFiniteSet(Class(r, root)) /\ IsFiniteSet(Class(r, child))
    <3>1. Class(r, root) \in SUBSET Segs!Pixels /\ Class(r, child) \in SUBSET Segs!Pixels
      BY DEF Class
    <3> QED
      BY <3>1, PixelsFinite, FS_Subset
  <2>4. Cardinality(Class(r, root) \cap Class(r, child)) = 0
    BY <2>2, FS_EmptySet
  <2>5. Cardinality(Class(r, root) \cup Class(r, child)) =
            Cardinality(Class(r, root)) + Cardinality(Class(r, child)) - 0
    BY <2>3, <2>4, FS_Union
  <2> DEFINE x == Cardinality(Class(r, root))
             y == Cardinality(Class(r, child))
  <2>6. x + y - 0 = x + y
    <3>1. x \in Nat /\ y \in Nat
      BY <1>2
    <3> HIDE DEF x, y
    <3> QED
      BY <3>1
  <2> QED
    BY <1>2, <2>1, <2>5, <2>6
<1>8. \A p \in Segs!Pixels : p # root /\ p # child => Class(s, p) = Class(r, p)
  BY <1>6 DEF Class
<1> HIDE DEF new, s
<1>9. ASSUME NEW q \in Segs!Pixels
      PROVE  /\ s[new[q].parent] = s[q] /\ new[s[q]].parent = s[q]
             /\ new[q].parent = q => s[q] = q
             /\ new[q].parent # q => new[new[q].parent].size > new[q].size
             /\ s[q] # q => new[s[q]].size > new[q].size
             /\ new[s[q]].size = Cardinality(Class(s, s[q]))
  <2>1. /\ r[q] \in Segs!Pixels /\ uf[q].parent \in Segs!Pixels
        /\ r[uf[q].parent] = r[q] /\ uf[r[q]].parent = r[q]
        /\ uf[q].parent = q => r[q] = q
        /\ uf[q].parent # q => uf[uf[q].parent].size > uf[q].size
        /\ r[q] # q => uf[r[q]].size > uf[q].size
        /\ uf[r[q]].size = Cardinality(Class(r, r[q]))
        /\ uf[q].size \in Nat \ {0} /\ uf[uf[q].parent].size \in Nat \ {0}
    BY DEF Rooted
  <2>2. s[new[q].parent] = s[q]
    BY <1>3, <1>6, <2>1
  <2>3. new[s[q]].parent = s[q]
    BY <1>2, <1>3, <1>6, <2>1
  <2>4. new[q].parent = q => s[q] = q
    BY <1>2, <1>3, <1>6, <2>1
  <2>5. new[q].parent # q => new[new[q].parent].size > new[q].size
    <3>1. CASE q = child
      BY <1>2, <1>3, <3>1
    <3>2. CASE q # child
      BY <1>2, <1>3, <2>1, <3>2
    <3> QED
      BY <3>1, <3>2
  <2>6. s[q] # q => new[s[q]].size > new[q].size
    <3>1. CASE r[q] = child
      BY <1>2, <1>3, <1>6, <2>1, <3>1
    <3>2. CASE r[q] # child
      BY <1>2, <1>3, <1>6, <2>1, <3>2
    <3> QED
      BY <3>1, <3>2
  <2>7. new[s[q]].size = Cardinality(Class(s, s[q]))
    <3>1. CASE s[q] = root
      BY <1>3, <1>7, <3>1
    <3>2. CASE s[q] # root
      <4>1. s[q] = r[q] /\ r[q] # child /\ r[q] # root
        BY <1>6, <3>2
      <4> QED
        BY <1>3, <1>8, <2>1, <4>1
    <3> QED
      BY <3>1, <3>2
  <2> QED
    BY <2>2, <2>3, <2>4, <2>5, <2>6, <2>7
<1> QED
  BY <1>4, <1>5, <1>9 DEF Rooted, new, s

\* S has both ends of an edge or none.
Closed(S, edges) == \A e \in edges : e[1] \in S <=> e[2] \in S

\* The trees are the parts of the image that the edges connect.
Joins(r, edges) ==
    /\ \A e \in edges : r[e[1]] = r[e[2]]
    /\ \A S \in SUBSET Segs!Pixels :
           Closed(S, edges) =>
               \A p, q \in Segs!Pixels : r[p] = r[q] => (p \in S <=> q \in S)

Forest(uf, edges) == \E r : Rooted(uf, r) /\ Joins(r, edges)

\* unionfind_connect adds an edge.
LEMMA ConnectOK ==
    ASSUME Segs!ImageAssumption, NEW uf, NEW edges \in SUBSET (Segs!Pixels \X Segs!Pixels),
           Forest(uf, edges),
           NEW a \in Segs!Pixels, NEW b \in Segs!Pixels
    PROVE  Forest(Segs!Connect(uf, a, b), edges \cup {<<a, b>>})
<1>1. PICK r : Rooted(uf, r) /\ Joins(r, edges)
  BY DEF Forest
<1> DEFINE looked == Segs!Collapsed(Segs!Collapsed(uf, a), b)
           more == edges \cup {<<a, b>>}
<1>2. Rooted(looked, r)
  <2>1. Rooted(Segs!Collapsed(uf, a), r)
    BY <1>1, CollapsedOK
  <2> QED
    BY <2>1, CollapsedOK
<1> HIDE DEF looked
<1>3. Segs!Root(looked, a) = r[a] /\ Segs!Root(looked, b) = r[b]
  BY <1>2, RootOK
<1>4. /\ r[a] \in Segs!Pixels /\ r[b] \in Segs!Pixels
      /\ r[r[a]] = r[a] /\ r[r[b]] = r[b] /\ r \in [Segs!Pixels -> Segs!Pixels]
  BY <1>2 DEF Rooted
<1>5. CASE r[a] = r[b]
  <2>1. Segs!Connect(uf, a, b) = looked
    BY <1>3, <1>5 DEF Segs!Connect, looked
  <2>2. \A S : Closed(S, more) => Closed(S, edges)
    BY DEF Closed
  <2>3. Joins(r, more)
    <3>1. \A e \in more : r[e[1]] = r[e[2]]
      BY <1>1, <1>5 DEF Joins
    <3> HIDE DEF more
    <3> QED
      BY <1>1, <2>2, <3>1 DEF Joins
  <2> QED
    BY <1>2, <2>1, <2>3 DEF Forest
<1>6. ASSUME NEW child \in {r[a], r[b]}, NEW root \in {r[a], r[b]}, child # root
      PROVE  /\ Rooted(Segs!Grafted(looked, child, root), Merged(r, child, root))
             /\ Joins(Merged(r, child, root), more)
  <2> DEFINE s == Merged(r, child, root)
  <2>1. \A q \in Segs!Pixels : s[q] = IF r[q] = child THEN root ELSE r[q]
    BY DEF Merged
  <2>2. \A e \in more : s[e[1]] = s[e[2]]
    <3>1. \A e \in edges : e[1] \in Segs!Pixels /\ e[2] \in Segs!Pixels /\ r[e[1]] = r[e[2]]
      BY <1>1 DEF Joins
    <3>2. s[a] = s[b]
      BY <1>6, <2>1
    <3> HIDE DEF s
    <3>3. \A e \in edges : s[e[1]] = s[e[2]]
      BY <2>1, <3>1
    <3> QED
      BY <3>2, <3>3
  <2>3. ASSUME NEW S \in SUBSET Segs!Pixels, Closed(S, more),
               NEW p \in Segs!Pixels, NEW q \in Segs!Pixels, s[p] = s[q]
        PROVE  p \in S <=> q \in S
    <3>1. Closed(S, edges) /\ (a \in S <=> b \in S)
      <4>1. \A e \in more : e[1] \in S <=> e[2] \in S
        BY <2>3, Zenon DEF Closed
      <4>2. <<a, b>> \in more /\ \A e \in edges : e \in more
        OBVIOUS
      <4> HIDE DEF more
      <4>3. a \in S <=> b \in S
        BY <4>1, <4>2
      <4> QED
        BY <4>1, <4>2, <4>3 DEF Closed
    <3>2. \A t, u \in Segs!Pixels : r[t] = r[u] => (t \in S <=> u \in S)
      BY <1>1, <3>1 DEF Joins
    <3>3. (r[p] \in {r[a], r[b]} /\ r[q] \in {r[a], r[b]}) \/ r[p] = r[q]
      BY <1>6, <2>1, <2>3
    <3> QED
      BY <3>1, <3>2, <3>3
  <2>4. Joins(s, more)
    <3> HIDE DEF s, more
    <3> QED
      BY <2>2, <2>3 DEF Joins
  <2>5. Rooted(Segs!Grafted(looked, child, root), s)
    BY <1>2, <1>4, <1>6, GraftedOK
  <2> QED
    BY <2>4, <2>5
<1>7. CASE r[a] # r[b]
  <2>1. \/ Segs!Connect(uf, a, b) = Segs!Grafted(looked, r[a], r[b])
        \/ Segs!Connect(uf, a, b) = Segs!Grafted(looked, r[b], r[a])
    BY <1>3, <1>7 DEF Segs!Connect, looked
  <2> HIDE DEF more
  <2>2. \/ \E s : Rooted(Segs!Connect(uf, a, b), s) /\ Joins(s, more)
    BY <1>6, <1>7, <2>1
  <2> QED
    BY <2>2 DEF Forest, more
<1> QED
  BY <1>5, <1>7

-----------------------------------------------------------------------------
(* do_unionfind_line *)

Linked(p, q) ==
    /\ p[2] \in 1 .. Width - 2
    /\ image[p[1]][p[2]] = image[q[1]][q[2]] /\ image[p[1]][p[2]] # 127
    /\ \/ q = <<p[1], p[2] + 1>>
       \/ q = <<p[1] + 1, p[2]>>
       \/ q[1] = p[1] + 1 /\ q[2] \in {p[2] - 1, p[2] + 1} /\ image[p[1]][p[2]] = 255

PixelPairs == Segs!Pixels \X Segs!Pixels
PixelEdges(p) == {e \in PixelPairs : e[1] = p /\ Linked(e[1], e[2])}

\* DO_UNIONFIND
Try(u, v, p, q) == IF image[q[1]][q[2]] = v THEN Segs!Connect(u, p, q) ELSE u
Tried(v, p, q) == {e \in {<<p, q>>} : image[q[1]][q[2]] = v}

\* A pixel is connected to a neighbour if that has its value.
LEMMA TryOK ==
    ASSUME Segs!ImageAssumption, NEW u, NEW edges \in SUBSET PixelPairs, Forest(u, edges),
           NEW v, NEW p \in Segs!Pixels, NEW q \in Segs!Pixels
    PROVE  /\ Forest(Try(u, v, p, q), edges \cup Tried(v, p, q))
           /\ edges \cup Tried(v, p, q) \in SUBSET PixelPairs
<1>1. CASE image[q[1]][q[2]] = v
  <2>1. Tried(v, p, q) = {<<p, q>>} /\ Try(u, v, p, q) = Segs!Connect(u, p, q)
    BY <1>1 DEF Tried, Try
  <2>2. Forest(Segs!Connect(u, p, q), edges \cup {<<p, q>>})
    BY ConnectOK DEF PixelPairs
  <2> QED
    BY <2>1, <2>2 DEF PixelPairs
<1>2. CASE image[q[1]][q[2]] # v
  <2>1. edges \cup Tried(v, p, q) = edges /\ Try(u, v, p, q) = u
    BY <1>2 DEF Tried, Try
  <2> QED
    BY <2>1
<1> QED
  BY <1>1, <1>2

\* do_unionfind_line at one pixel is at most four attempts.
LEMMA DoPixelIs ==
    ASSUME NEW uf, NEW y \in Int, NEW x \in Int
    PROVE  LET v == image[y][x]
               p == <<y, x>>
               s == Try(Try(uf, v, p, <<y, x + 1>>), v, p, <<y + 1, x>>)
           IN Segs!DoPixel(uf, y, x) =
                  IF v = 127 THEN uf
                  ELSE IF v = 255
                  THEN Try(Try(s, v, p, <<y + 1, x - 1>>), v, p, <<y + 1, x + 1>>) ELSE s
<1>1. y + 0 = y /\ x + 0 = x /\ x + (-1) = x - 1
  OBVIOUS
<1>2. \A u, v, p, a, b : Try(u, v, p, <<a, b>>) =
                             IF image[a][b] = v THEN Segs!Connect(u, p, <<a, b>>) ELSE u
  BY DEF Try
<1> QED
  BY <1>1, <1>2 DEF Segs!DoPixel

\* The edges of a pixel.
LEMMA EdgesOf ==
    ASSUME NEW y \in 0 .. Height - 2, NEW x \in 1 .. Width - 2, Segs!ImageAssumption
    PROVE  LET v == image[y][x]
               p == <<y, x>>
           IN PixelEdges(p) =
                  IF v = 127 THEN {}
                  ELSE Tried(v, p, <<y, x + 1>>) \cup Tried(v, p, <<y + 1, x>>)
                       \cup (IF v = 255 THEN Tried(v, p, <<y + 1, x - 1>>)
                                             \cup Tried(v, p, <<y + 1, x + 1>>)
                             ELSE {})
<1> DEFINE v == image[y][x]
           p == <<y, x>>
           q1 == <<y, x + 1>>
           q2 == <<y + 1, x>>
           q3 == <<y + 1, x - 1>>
           q4 == <<y + 1, x + 1>>
<1>1. p \in Segs!Pixels /\ {q1, q2, q3, q4} \subseteq Segs!Pixels
  BY DEF Segs!Pixels, Segs!ImageAssumption
<1>2. \A q : q \in Segs!Pixels => q = <<q[1], q[2]>>
  BY DEF Segs!Pixels
<1>3. \A q \in Segs!Pixels :
          Linked(p, q) <=>
              /\ v # 127 /\ v = image[q[1]][q[2]]
              /\ q \in {q1, q2} \/ (v = 255 /\ q \in {q3, q4})
  <2> TAKE q \in Segs!Pixels
  <2>1. p[1] = y /\ p[2] = x
    OBVIOUS
  <2>2. q[1] = y + 1 /\ q[2] \in {x - 1, x + 1} <=> q \in {q3, q4}
    BY <1>2
  <2>3. x \in 1 .. Width - 2
    OBVIOUS
  <2> HIDE DEF p
  <2>4. Linked(p, q) <=>
            /\ v = image[q[1]][q[2]] /\ v # 127
            /\ q = q1 \/ q = q2 \/ (q[1] = y + 1 /\ q[2] \in {x - 1, x + 1} /\ v = 255)
    BY <2>1, <2>3 DEF Linked
  <2> HIDE DEF q1, q2, q3, q4, v
  <2> QED
    BY <2>2, <2>4
<1>4. \A q \in Segs!Pixels :
          \A e : e \in Tried(v, p, q) <=> e = <<p, q>> /\ v = image[q[1]][q[2]]
  BY DEF Tried
<1>5. \A e : e \in PixelEdges(p) <=>
                 e \in PixelPairs /\ e[1] = p /\ Linked(p, e[2])
  BY DEF PixelEdges
<1>6. \A e : e \in PixelPairs <=> e = <<e[1], e[2]>> /\ e[1] \in Segs!Pixels /\ e[2] \in Segs!Pixels
  BY DEF PixelPairs
<1>7. \A q : <<p, q>>[1] = p /\ <<p, q>>[2] = q
  OBVIOUS
<1> HIDE DEF v, p, q1, q2, q3, q4
<1>8. ASSUME NEW e
      PROVE  e \in PixelEdges(p) <=>
                 e \in IF v = 127 THEN {}
                       ELSE Tried(v, p, q1) \cup Tried(v, p, q2)
                            \cup (IF v = 255 THEN Tried(v, p, q3) \cup Tried(v, p, q4)
                                  ELSE {})
  <2>1. e \in PixelEdges(p) =>
            e \in IF v = 127 THEN {}
                  ELSE Tried(v, p, q1) \cup Tried(v, p, q2)
                       \cup (IF v = 255 THEN Tried(v, p, q3) \cup Tried(v, p, q4) ELSE {})
    BY <1>1, <1>3, <1>4, <1>5, <1>6
  <2>2. \A q \in Segs!Pixels : <<p, q>> \in PixelPairs
    BY <1>1 DEF PixelPairs
  <2>3. ASSUME NEW q \in {q1, q2, q3, q4}, e \in Tried(v, p, q), v # 127,
               q \in {q3, q4} => v = 255
        PROVE  e \in PixelEdges(p)
    BY <1>1, <1>3, <1>4, <1>5, <1>7, <2>2, <2>3
  <2>4. e \in (IF v = 127 THEN {}
             ELSE Tried(v, p, q1) \cup Tried(v, p, q2)
                  \cup (IF v = 255 THEN Tried(v, p, q3) \cup Tried(v, p, q4) ELSE {}))
        => v # 127 /\ \E q \in {q1, q2, q3, q4} :
                          e \in Tried(v, p, q) /\ (q \in {q3, q4} => v = 255)
    <3> SUFFICES ASSUME v # 127,
                        e \in Tried(v, p, q1) \cup Tried(v, p, q2)
                            \cup (IF v = 255 THEN Tried(v, p, q3) \cup Tried(v, p, q4)
                                  ELSE {})
                 PROVE  \E q \in {q1, q2, q3, q4} :
                            e \in Tried(v, p, q) /\ (q \in {q3, q4} => v = 255)
      OBVIOUS
    <3>1. CASE v = 255
      BY <3>1
    <3>2. CASE v # 255
      <4>1. \A q \in Segs!Pixels : e \in Tried(v, p, q) => e = <<p, q>>
        BY <1>4
      <4>2. q1 \notin {q3, q4} /\ q2 \notin {q3, q4}
        BY DEF q1, q2, q3, q4, Segs!ImageAssumption
      <4> QED
        BY <3>2, <4>2
    <3> QED
      BY <3>1, <3>2
  <2> QED
    BY <2>1, <2>3, <2>4
<1>9. PixelEdges(p) = IF v = 127 THEN {}
                      ELSE Tried(v, p, q1) \cup Tried(v, p, q2)
                           \cup (IF v = 255 THEN Tried(v, p, q3) \cup Tried(v, p, q4)
                                 ELSE {})
  BY <1>8
<1> QED
  BY <1>9, Zenon DEF v, p, q1, q2, q3, q4

\* do_unionfind_line connects a pixel with those of its colour beside and below it.
LEMMA DoPixelOK ==
    ASSUME Segs!ImageAssumption, NEW uf, NEW edges \in SUBSET PixelPairs, Forest(uf, edges),
           NEW y \in 0 .. Height - 2, NEW x \in 1 .. Width - 2
    PROVE  Forest(Segs!DoPixel(uf, y, x), edges \cup PixelEdges(<<y, x>>))
<1> DEFINE v == image[y][x]
           p == <<y, x>>
           q1 == <<y, x + 1>>
           q2 == <<y + 1, x>>
           q3 == <<y + 1, x - 1>>
           q4 == <<y + 1, x + 1>>
           u1 == Try(uf, v, p, q1)
           u2 == Try(u1, v, p, q2)
           u3 == Try(u2, v, p, q3)
           u4 == Try(u3, v, p, q4)
           e1 == edges \cup Tried(v, p, q1)
           e2 == e1 \cup Tried(v, p, q2)
           e3 == e2 \cup Tried(v, p, q3)
           e4 == e3 \cup Tried(v, p, q4)
<1>1. p \in Segs!Pixels /\ {q1, q2, q3, q4} \subseteq Segs!Pixels
  BY DEF Segs!Pixels, Segs!ImageAssumption
<1>2. Segs!DoPixel(uf, y, x) = IF v = 127 THEN uf ELSE IF v = 255 THEN u4 ELSE u2
  <2>1. y \in Int /\ x \in Int
    BY DEF Segs!ImageAssumption
  <2> QED
    BY <2>1, DoPixelIs
<1>3. PixelEdges(p) =
          IF v = 127 THEN {}
          ELSE Tried(v, p, q1) \cup Tried(v, p, q2)
               \cup (IF v = 255 THEN Tried(v, p, q3) \cup Tried(v, p, q4) ELSE {})
  BY EdgesOf
<1> HIDE DEF v, p, q1, q2, q3, q4
<1>4. Forest(u1, e1) /\ e1 \in SUBSET PixelPairs
  BY <1>1, TryOK
<1> HIDE DEF u1
<1>5. Forest(u2, e2) /\ e2 \in SUBSET PixelPairs
  <2> HIDE DEF e1
  <2> QED
    BY <1>1, <1>4, TryOK
<1> HIDE DEF u2
<1>6. Forest(u3, e3) /\ e3 \in SUBSET PixelPairs
  <2> HIDE DEF e2
  <2> QED
    BY <1>1, <1>5, TryOK
<1> HIDE DEF u3
<1>7. Forest(u4, e4)
  <2> HIDE DEF e3
  <2> QED
    BY <1>1, <1>6, TryOK
<1> HIDE DEF u4
<1>8. edges \cup PixelEdges(p) = IF v = 127 THEN edges ELSE IF v = 255 THEN e4 ELSE e2
  BY <1>3
<1> HIDE DEF e2, e4
<1>9. Forest(Segs!DoPixel(uf, y, x), edges \cup PixelEdges(p))
  BY <1>2, <1>5, <1>7, <1>8
<1> QED
  BY <1>9 DEF p

\* The edges of some lines.
Within(lns) == {e \in PixelPairs : e[1][1] \in lns /\ Linked(e[1], e[2])}

Trees == [Segs!Pixels -> [parent : Segs!Pixels, size : Nat \ {0}]]
Forests == {u \in Trees : \E r : Rooted(u, r)}

\* Any forest joins something.
LEMMA ForestOf ==
    ASSUME NEW u
    PROVE  /\ u \in Forests => \E edges \in SUBSET PixelPairs : Forest(u, edges)
           /\ \A edges : Forest(u, edges) => u \in Forests
<1>1. ASSUME u \in Forests PROVE \E edges \in SUBSET PixelPairs : Forest(u, edges)
  <2>1. PICK r : Rooted(u, r)
    BY <1>1 DEF Forests
  <2> DEFINE edges == {e \in PixelPairs : r[e[1]] = r[e[2]]}
  <2>2. Joins(r, edges)
    <3>1. \A e \in edges : r[e[1]] = r[e[2]]
      OBVIOUS
    <3>2. ASSUME NEW S \in SUBSET Segs!Pixels, Closed(S, edges),
                 NEW p \in Segs!Pixels, NEW q \in Segs!Pixels, r[p] = r[q]
          PROVE  p \in S <=> q \in S
      <4>1. <<p, q>> \in edges
        BY <3>2 DEF PixelPairs
      <4>2. <<p, q>>[1] = p /\ <<p, q>>[2] = q
        OBVIOUS
      <4> HIDE DEF edges
      <4> QED
        BY <3>2, <4>1, <4>2 DEF Closed
    <3> HIDE DEF edges
    <3> QED
      BY <3>1, <3>2 DEF Joins
  <2>3. edges \in SUBSET PixelPairs
    OBVIOUS
  <2> HIDE DEF edges
  <2> QED
    BY <2>1, <2>2, <2>3 DEF Forest
<1>2. \A edges : Forest(u, edges) => u \in Forests
  BY DEF Forest, Forests, Trees, Rooted
<1> QED
  BY <1>1, <1>2

\* do_unionfind_line adds the edges of its line.
LEMMA DoLineOK ==
    ASSUME Segs!ImageAssumption, NEW uf, NEW edges \in SUBSET PixelPairs, Forest(uf, edges),
           NEW y \in 0 .. Height - 2
    PROVE  Forest(Segs!DoLine(uf, y), edges \cup Within({y}))
<1> DEFINE n == Width - 2
           T == Forests
           next == [t \in (1 .. n) \X T |-> Segs!DoPixel(t[2], y, t[1])]
           Is(f) == f = [x \in 0 .. Width - 2 |->
                            IF x = 0 THEN uf ELSE Segs!DoPixel(f[x - 1], y, x)]
           upto(i) == edges \cup {e \in Within({y}) : e[1][2] <= i}
<1>1. n \in Nat
  BY DEF Segs!ImageAssumption
<1>2. next \in Nexts(n, T) /\ uf \in T
  <2>1. ASSUME NEW i \in 1 .. n, NEW u \in T PROVE Segs!DoPixel(u, y, i) \in T
    <3>1. PICK some \in SUBSET PixelPairs : Forest(u, some)
      BY <2>1, ForestOf
    <3>2. Forest(Segs!DoPixel(u, y, i), some \cup PixelEdges(<<y, i>>))
      BY <3>1, DoPixelOK
    <3> QED
      BY <3>2, ForestOf
  <2>2. \A t \in (1 .. n) \X T : Segs!DoPixel(t[2], y, t[1]) \in T
    <3> HIDE DEF n, T
    <3> QED
      BY <2>1
  <2> QED
    BY <2>2, ForestOf DEF Nexts
<1>3. PICK f : Solves(f, n, T, uf, next)
  <2> HIDE DEF n, T, next
  <2> QED
    BY <1>1, <1>2, Recursion
<1>4. Is(f)
  <2>1. f \in [0 .. n -> T] /\ f[0] = uf /\ \A i \in 1 .. n : f[i] = next[<<i, f[i - 1]>>]
    BY <1>3 DEF Solves
  <2>2. \A i \in 0 .. n : f[i] = IF i = 0 THEN uf ELSE Segs!DoPixel(f[i - 1], y, i)
    <3> TAKE i \in 0 .. n
    <3>1. CASE i # 0
      <4>1. i \in 1 .. n /\ i - 1 \in 0 .. n
        BY <1>1, <3>1
      <4>2. <<i, f[i - 1]>> \in (1 .. n) \X T
        BY <2>1, <4>1
      <4> QED
        BY <2>1, <3>1, <4>1, <4>2
    <3> QED
      BY <2>1, <3>1
  <2>3. f = [i \in 0 .. n |-> f[i]]
    BY <2>1
  <2> HIDE DEF next
  <2> QED
    BY <2>2, <2>3, Zenon
<1> DEFINE g == CHOOSE h : Is(h)
<1>5. Is(g)
  <2> HIDE DEF Is
  <2> QED
    BY <1>4
<1>6. Segs!DoLine(uf, y) = g[n]
  BY DEF Segs!DoLine
<1>7. \A i \in 0 .. n : g[i] = IF i = 0 THEN uf ELSE Segs!DoPixel(g[i - 1], y, i)
  <2> DEFINE h == g
  <2>1. Is(h)
    BY <1>5
  <2> HIDE DEF h
  <2>2. \A i \in 0 .. n : h[i] = IF i = 0 THEN uf ELSE Segs!DoPixel(h[i - 1], y, i)
    BY <2>1
  <2> QED
    BY <2>2 DEF h
<1> HIDE DEF g, Is
<1> DEFINE S == {i \in 0 .. n : Forest(g[i], upto(i))}
<1>8. 0 \in S
  <2>1. \A e \in Within({y}) : ~(e[1][2] <= 0)
    BY <1>1 DEF Within, Linked
  <2>2. upto(0) = edges
    BY <2>1
  <2> HIDE DEF upto
  <2> QED
    BY <1>1, <1>7, <2>2
<1>9. ASSUME NEW i \in 0 .. n - 1, i \in S PROVE i + 1 \in S
  <2>1. i + 1 \in 1 .. n /\ i + 1 \in 0 .. n /\ (i + 1) - 1 = i
    BY <1>1
  <2>2. g[i + 1] = Segs!DoPixel(g[i], y, i + 1)
    BY <1>7, <2>1
  <2>3. upto(i) \in SUBSET PixelPairs
    BY DEF Within
  <2>4. upto(i + 1) = upto(i) \cup PixelEdges(<<y, i + 1>>)
    <3>1. ASSUME NEW e \in PixelPairs, Linked(e[1], e[2])
          PROVE  e[1][1] = y /\ e[1][2] <= i + 1 <=>
                     (e[1][1] = y /\ e[1][2] <= i) \/ e[1] = <<y, i + 1>>
      <4>1. e[1] = <<e[1][1], e[1][2]>> /\ e[1][2] \in Int /\ i \in Int
        BY <1>1 DEF PixelPairs, Segs!Pixels
      <4> QED
        BY <4>1
    <3> QED
      BY <3>1 DEF Within, PixelEdges
  <2> HIDE DEF upto
  <2>5. Forest(Segs!DoPixel(g[i], y, i + 1), upto(i) \cup PixelEdges(<<y, i + 1>>))
    BY <1>9, <2>1, <2>3, DoPixelOK
  <2> QED
    BY <2>1, <2>2, <2>4, <2>5
<1>10. n \in S
  <2>1. n \in 0 .. n
    BY <1>1
  <2> HIDE DEF S
  <2> QED
    BY <1>1, <1>8, <1>9, <2>1, UpTo
<1>11. upto(n) = edges \cup Within({y})
  <2>1. \A e \in Within({y}) : e[1][2] <= n
    BY <1>1 DEF Within, Linked
  <2> QED
    BY <2>1
<1> HIDE DEF upto
<1> QED
  BY <1>6, <1>10, <1>11

-----------------------------------------------------------------------------
(* Components *)

Grown(edges, s) == s \cup {e[2] : e \in {f \in edges : f[1] \in s}}

\* A set grows by its edges at most as often as there are pixels.
LEMMA GrownRises ==
    ASSUME Segs!ImageAssumption, NEW edges \in SUBSET PixelPairs
    PROVE  \E m \in Nat : Rises(SUBSET Segs!Pixels,
                                [s \in SUBSET Segs!Pixels |-> Grown(edges, s)],
                                [s \in SUBSET Segs!Pixels |-> Cardinality(s)], m)
<1> DEFINE m == Cardinality(Segs!Pixels)
           P == SUBSET Segs!Pixels
           up == [s \in P |-> Grown(edges, s)]
           rank == [s \in P |-> Cardinality(s)]
<1>1. m \in Nat
  BY PixelsFinite, FS_CardinalityType
<1>2. ASSUME NEW s \in P
      PROVE  IsFiniteSet(s) /\ Cardinality(s) \in Nat /\ Cardinality(s) <= m
  BY PixelsFinite, FS_Subset, FS_CardinalityType
<1>3. ASSUME NEW s \in P PROVE Grown(edges, s) \in P /\ s \subseteq Grown(edges, s)
  BY DEF Grown, PixelPairs
<1> HIDE DEF m
<1>4. rank \in [P -> 0 .. m]
  <2>1. \A s \in P : Cardinality(s) \in 0 .. m
    BY <1>1, <1>2
  <2> QED
    BY <2>1
<1>5. up \in [P -> P]
  BY <1>3
<1>6. ASSUME NEW s \in P, up[s] # s PROVE rank[up[s]] > rank[s]
  <2>1. s \subseteq up[s] /\ up[s] \in P
    BY <1>3
  <2>2. Cardinality(s) < Cardinality(up[s])
    <3> HIDE DEF up
    <3>1. IsFiniteSet(up[s])
      BY <1>2, <2>1
    <3>2. /\ Cardinality(s) <= Cardinality(up[s])
          /\ Cardinality(s) = Cardinality(up[s]) => s = up[s]
      BY <2>1, <3>1, FS_Subset
    <3>3. Cardinality(s) \in Nat /\ Cardinality(up[s]) \in Nat
      BY <1>2, <2>1
    <3> QED
      BY <1>6, <3>2, <3>3
  <2> QED
    BY <1>2, <2>1, <2>2
<1> HIDE DEF up, rank, P
<1>7. Rises(P, up, rank, m)
  BY <1>4, <1>5, <1>6 DEF Rises
<1> QED
  BY <1>1, <1>7 DEF P, up, rank

\* A component is the least set with the pixel that the edges do not leave.
LEMMA ComponentOK ==
    ASSUME Segs!ImageAssumption, NEW edges \in SUBSET PixelPairs,
           \A e \in edges : <<e[2], e[1]>> \in edges, NEW p \in Segs!Pixels
    PROVE  /\ Segs!Component(edges, p) \in SUBSET Segs!Pixels
           /\ p \in Segs!Component(edges, p) /\ Closed(Segs!Component(edges, p), edges)
           /\ \A D \in SUBSET Segs!Pixels :
                  p \in D /\ Closed(D, edges) => Segs!Component(edges, p) \subseteq D
<1> DEFINE P == SUBSET Segs!Pixels
           up == [s \in P |-> Grown(edges, s)]
           rank == [s \in P |-> Cardinality(s)]
           base == [s \in P |-> s]
           next == [t \in P \X P |-> t[2]]
           Is(f) == f = [s \in SUBSET Segs!Pixels |->
                            IF Grown(edges, s) = s THEN s ELSE f[Grown(edges, s)]]
<1>1. PICK m \in Nat : Rises(P, up, rank, m)
  BY GrownRises
<1>2. base \in [P -> P] /\ next \in Steps(P, P)
  BY DEF Steps
<1>3. PICK f : Climbs(f, P, P, up, base, next)
  <2> HIDE DEF P, up, rank, base, next
  <2> QED
    BY <1>1, <1>2, RankRecursion
<1>4. \A s \in P : Grown(edges, s) \in P /\ up[s] = Grown(edges, s)
  BY DEF Grown, PixelPairs
<1>5. Is(f)
  <2>1. f \in [P -> P]
    BY <1>3 DEF Climbs
  <2>2. ASSUME NEW s \in P
        PROVE  f[s] = IF Grown(edges, s) = s THEN s ELSE f[Grown(edges, s)]
    <3>1. f[s] = IF up[s] = s THEN base[s] ELSE next[<<s, f[up[s]]>>]
      BY <1>3 DEF Climbs
    <3>2. base[s] = s
      OBVIOUS
    <3>3. <<s, f[up[s]]>> \in P \X P
      BY <1>4, <2>1
    <3>4. next[<<s, f[up[s]]>>] = f[up[s]]
      BY <3>3
    <3> HIDE DEF base, next, up
    <3> QED
      BY <1>4, <3>1, <3>2, <3>4
  <2>3. f = [s \in P |-> f[s]]
    BY <2>1
  <2> QED
    BY <2>2, <2>3, Zenon
<1> DEFINE g == CHOOSE h : Is(h)
<1>6. Is(g)
  <2> HIDE DEF Is
  <2> QED
    BY <1>5
<1>7. Segs!Component(edges, p) = g[{p}]
  BY DEF Segs!Component, Grown
<1>8. \A s \in P : g[s] = IF Grown(edges, s) = s THEN s ELSE g[Grown(edges, s)]
  <2> DEFINE h == g
  <2>1. Is(h)
    BY <1>6
  <2> HIDE DEF h
  <2>2. \A s \in P : h[s] = IF Grown(edges, s) = s THEN s ELSE h[Grown(edges, s)]
    BY <2>1
  <2> QED
    BY <2>2 DEF h
<1> HIDE DEF g, Is
<1> DEFINE Least(s) == /\ g[s] \in P /\ s \subseteq g[s] /\ Closed(g[s], edges)
                       /\ \A D \in P : s \subseteq D /\ Closed(D, edges) => g[s] \subseteq D
           S == {s \in P : Least(s)}
<1>9. ASSUME NEW s \in P, up[s] = s \/ up[s] \in S
      PROVE  s \in S
  <2>1. up[s] = Grown(edges, s) /\ s \subseteq Grown(edges, s)
    BY <1>4 DEF Grown
  <2>2. CASE up[s] = s
    <3>1. g[s] = s
      BY <1>8, <2>1, <2>2
    <3>2. \A e \in edges : e[1] \in s => e[2] \in s
      BY <2>1, <2>2 DEF Grown
    <3>3. \A e \in edges : /\ e[2] \in s => <<e[2], e[1]>>[2] \in s
                           /\ <<e[2], e[1]>>[2] = e[1] /\ <<e[2], e[1]>>[1] = e[2]
      <4> TAKE e \in edges
      <4>1. <<e[2], e[1]>> \in edges
        OBVIOUS
      <4>2. <<e[2], e[1]>>[2] = e[1] /\ <<e[2], e[1]>>[1] = e[2]
        OBVIOUS
      <4> QED
        BY <3>2, <4>1, <4>2
    <3>4. Closed(s, edges)
      BY <3>2, <3>3 DEF Closed
    <3> QED
      BY <3>1, <3>4
  <2>3. CASE up[s] # s
    <3>1. g[s] = g[up[s]] /\ Least(up[s])
      BY <1>8, <1>9, <2>1, <2>3
    <3>2. ASSUME NEW D \in P, s \subseteq D, Closed(D, edges) PROVE up[s] \subseteq D
      <4>1. \A e \in edges : e[1] \in D <=> e[2] \in D
        BY <3>2 DEF Closed
      <4> QED
        BY <2>1, <3>2, <4>1 DEF Grown
    <3> HIDE DEF up
    <3> QED
      BY <2>1, <3>1, <3>2
  <2> QED
    BY <2>2, <2>3
<1>10. P \subseteq S
  <2> HIDE DEF P, up, rank, S
  <2> QED
    BY <1>1, <1>9, RankInduction
<1>11. {p} \in P
  OBVIOUS
<1>12. Least({p})
  <2> HIDE DEF Least
  <2> QED
    BY <1>10, <1>11
<1> QED
  BY <1>7, <1>12

-----------------------------------------------------------------------------
(* The lines of all tasks *)

\* Segments and the pool cut work by the same arithmetic.
LEMMA SameChunks ==
    \A sz, m : /\ Segs!ChunkSize(sz, m) = Pool!ChunkSize(sz, m)
               /\ Segs!NTasks(sz, m) = Pool!NTasks(sz, m)
               /\ Segs!Forgotten(sz, m) = Pool!Forgotten(sz, m)
               /\ \A k : /\ Segs!First(sz, m, k) = Pool!First(sz, m, k)
                         /\ Segs!AfterLine(sz, m, k) = Pool!AfterLine(sz, m, k)
  BY DEF Segs!ChunkSize, Pool!ChunkSize, Segs!NTasks, Pool!NTasks, Segs!Forgotten,
     Pool!Forgotten, Segs!First, Pool!First, Segs!AfterLine, Pool!AfterLine, Segs!Least,
     Pool!Least

\* The tasks have all lines but those that are stitched and the one that is forgotten.
LEMMA AllLines ==
    ASSUME NEW sz \in Nat \ {0}, NEW m \in Nat \ {0}, Target \in Nat \ {0}
    PROVE  LET first(k) == Segs!First(sz, m, k)
               after(k) == Segs!AfterLine(sz, m, k)
               n == Segs!NTasks(sz, m)
           IN /\ n \in Nat \ {0}
              /\ \A k \in 1 .. n : /\ first(k) \in Nat /\ after(k) \in Nat
                                   /\ first(k) <= after(k) /\ after(k) <= sz
              /\ \A k \in 1 .. n - 1 : after(k) \in 0 .. sz - 1 \ Segs!Forgotten(sz, m)
              /\ \A y \in 0 .. sz - 1 :
                     (\E k \in 1 .. n : first(k) <= y /\ y < after(k)) <=>
                         y \notin {after(k) : k \in 1 .. n - 1} \cup Segs!Forgotten(sz, m)
<1> DEFINE first(k) == Pool!First(sz, m, k)
           after(k) == Pool!AfterLine(sz, m, k)
           n == Pool!NTasks(sz, m)
           c == Pool!ChunkSize(sz, m)
           lost == Pool!Forgotten(sz, m)
<1>1. ChunksOK(sz, m)
  BY ChunkSizeOK
<1>2. c \in Nat \ {0}
  BY <1>1 DEF ChunksOK
<1>3. n = (sz + c - 1) \div c
  BY DEF Pool!NTasks
<1>4. \A k : first(k) = (k - 1) * c /\ after(k) = Pool!Least(sz, (k - 1) * c + c - 1)
  BY DEF Pool!First, Pool!AfterLine
<1>5. lost = IF sz % c = 0 THEN {sz - 1} ELSE {}
  BY DEF Pool!Forgotten
<1>6. \A y \in 0 .. sz - 1 :
          (\E k \in 1 .. n : y \in first(k) .. after(k) - 1) <=>
              y \notin {after(k) : k \in 1 .. n - 1} \cup lost
  <2> TAKE y \in 0 .. sz - 1
  <2>1. PICK q \in 1 .. n :
            \A k \in 1 .. n : y \in Pool!Lines(sz, m, k) <=>
                k = q /\ y \notin Pool!Stitched(sz, m) \cup Pool!Forgotten(sz, m)
    BY <1>1, WhoHas
  <2> QED
    BY <2>1 DEF Pool!Lines, Pool!Stitched
<1> HIDE DEF first, after, n, c, lost
<1>7. n \in Nat \ {0} /\ (n - 1) * c < sz /\ sz <= n * c /\ (sz % c = 0 <=> sz = n * c)
  BY <1>2, <1>3, LastChunk
<1>8. ASSUME NEW k \in 1 .. n
      PROVE  /\ first(k) \in Nat /\ first(k) < sz
             /\ k < n => first(k) + c < sz
             /\ after(k) = Pool!Least(sz, first(k) + c - 1)
  <2>1. k - 1 \in Nat /\ n - 1 \in Nat /\ k \in Nat /\ k - 1 <= n - 1
    BY <1>7
  <2>2. first(k) = (k - 1) * c /\ first(k) \in Nat
    BY <1>2, <1>4, <2>1
  <2>3. k < n => (k - 1) * c + c <= (n - 1) * c
    <3>1. k < n => k - 1 < n - 1
      BY <1>7, <2>1
    <3> QED
      BY <1>2, <2>1, <3>1, Apart
  <2>4. (n - 1) * c \in Nat /\ (k - 1) * c \in Nat
    BY <1>2, <2>1
  <2>5. k < n => first(k) + c < sz
    BY <1>2, <1>7, <2>2, <2>3, <2>4
  <2>6. first(k) < sz
    <3>1. CASE k = n
      BY <1>7, <2>2, <3>1
    <3>2. CASE k < n
      BY <1>2, <2>2, <2>5, <3>2
    <3> QED
      BY <1>7, <2>1, <3>1, <3>2
  <2> QED
    BY <1>4, <2>2, <2>5, <2>6
<1>9. ASSUME NEW k \in 1 .. n
      PROVE  /\ after(k) \in Nat /\ first(k) <= after(k) /\ after(k) <= sz
             /\ k < n => after(k) < sz - 1
  BY <1>2, <1>8 DEF Pool!Least
<1>10. \A k \in 1 .. n - 1 : after(k) \in 0 .. sz - 1 \ lost
  <2> TAKE k \in 1 .. n - 1
  <2>1. k \in 1 .. n /\ k < n
    BY <1>7
  <2> QED
    BY <1>5, <1>9, <2>1
<1>11. \A y \in 0 .. sz - 1 : \A k \in 1 .. n :
           y \in first(k) .. after(k) - 1 <=> first(k) <= y /\ y < after(k)
  BY <1>8, <1>9
<1>12. /\ n = Segs!NTasks(sz, m) /\ lost = Segs!Forgotten(sz, m)
       /\ \A k : first(k) = Segs!First(sz, m, k) /\ after(k) = Segs!AfterLine(sz, m, k)
  BY SameChunks DEF n, lost, first, after
<1>13. \A k \in 1 .. n : /\ first(k) \in Nat /\ after(k) \in Nat
                         /\ first(k) <= after(k) /\ after(k) <= sz
  BY <1>8, <1>9
<1>14. \A y \in 0 .. sz - 1 :
           (\E k \in 1 .. n : first(k) <= y /\ y < after(k)) <=>
               y \notin {after(k) : k \in 1 .. n - 1} \cup lost
  BY <1>6, <1>11
<1> QED
  BY <1>7, <1>10, <1>12, <1>13, <1>14

AfterOf(k, m) == IF m > 1 THEN Segs!AfterLine(Segs!Sz, m, k) ELSE Segs!Sz

\* A task's lines lie within the image.
LEMMA TasksOK ==
    ASSUME Segs!ImageAssumption, Target \in Nat \ {0}, NEW m \in Nat \ {0}
    PROVE  /\ Segs!Sz \in Nat \ {0} /\ Segs!Sz - 1 = Height - 2
           /\ \A k \in Segs!Tasks(m) :
                  /\ Segs!From(k, m) \in Nat /\ AfterOf(k, m) \in Nat
                  /\ Segs!From(k, m) <= AfterOf(k, m) /\ AfterOf(k, m) <= Segs!Sz
<1>1. Segs!Sz \in Nat \ {0} /\ Segs!Sz - 1 = Height - 2
  BY DEF Segs!ImageAssumption, Segs!Sz
<1>2. CASE m > 1
  <2>1. \A k \in 1 .. Segs!NTasks(Segs!Sz, m) :
            /\ Segs!First(Segs!Sz, m, k) \in Nat /\ Segs!AfterLine(Segs!Sz, m, k) \in Nat
            /\ Segs!First(Segs!Sz, m, k) <= Segs!AfterLine(Segs!Sz, m, k)
            /\ Segs!AfterLine(Segs!Sz, m, k) <= Segs!Sz
    BY <1>1, AllLines
  <2> QED
    BY <1>1, <1>2, <2>1 DEF Segs!Tasks, Segs!From, AfterOf
<1>3. CASE ~(m > 1)
  BY <1>1, <1>3 DEF Segs!Tasks, Segs!From, AfterOf
<1> QED
  BY <1>2, <1>3

\* The lines that are connected when task k is at line l[k].
Done(l, m) ==
    {y \in 0 .. Segs!Sz - 1 : \E k \in Segs!Tasks(m) : Segs!From(k, m) <= y /\ y < l[k]}

Stitching(uf, m) ==
    LET upto[k \in 0 .. Segs!NTasks(Segs!Sz, m) - 1] ==
            IF k = 0 THEN uf
            ELSE Segs!DoLine(upto[k - 1], Segs!AfterLine(Segs!Sz, m, k))
    IN upto[Segs!NTasks(Segs!Sz, m) - 1]

\* The edges of lines are those of each.
LEMMA WithinOK ==
    ASSUME NEW A, NEW B
    PROVE  Within(A) \cup Within(B) = Within(A \cup B) /\ Within(A) \in SUBSET PixelPairs
  BY DEF Within

\* Stitching adds the lines between the chunks.
LEMMA StitchingOK ==
    ASSUME Segs!ImageAssumption, Target \in Nat \ {0}, NEW m \in Nat \ {0},
           NEW uf, NEW lns, Forest(uf, Within(lns))
    PROVE  Forest(Stitching(uf, m),
                  Within(lns \cup {Segs!AfterLine(Segs!Sz, m, k) :
                                       k \in 1 .. Segs!NTasks(Segs!Sz, m) - 1}))
<1> DEFINE n == Segs!NTasks(Segs!Sz, m) - 1
           T == Forests
           after(k) == Segs!AfterLine(Segs!Sz, m, k)
           next == [t \in (1 .. n) \X T |-> Segs!DoLine(t[2], after(t[1]))]
           Is(f) == f = [k \in 0 .. Segs!NTasks(Segs!Sz, m) - 1 |->
                            IF k = 0 THEN uf
                            ELSE Segs!DoLine(f[k - 1], Segs!AfterLine(Segs!Sz, m, k))]
           upto(i) == lns \cup {after(k) : k \in 1 .. i}
<1>1. n \in Nat /\ \A k \in 1 .. n : after(k) \in 0 .. Height - 2
  <2>1. Segs!Sz \in Nat \ {0} /\ Segs!Sz - 1 = Height - 2
    BY TasksOK
  <2> QED
    BY <2>1, AllLines
<1>2. next \in Nexts(n, T) /\ uf \in T
  <2>1. ASSUME NEW i \in 1 .. n, NEW u \in T PROVE Segs!DoLine(u, after(i)) \in T
    <3>1. PICK some \in SUBSET PixelPairs : Forest(u, some)
      BY <2>1, ForestOf
    <3>2. Forest(Segs!DoLine(u, after(i)), some \cup Within({after(i)}))
      <4>1. after(i) \in 0 .. Height - 2
        BY <1>1
      <4> HIDE DEF after
      <4> QED
        BY <3>1, <4>1, DoLineOK
    <3> QED
      BY <3>2, ForestOf
  <2>2. \A t \in (1 .. n) \X T : Segs!DoLine(t[2], after(t[1])) \in T
    <3> HIDE DEF n, T, after
    <3> QED
      BY <2>1
  <2> QED
    BY <2>2, ForestOf DEF Nexts
<1>3. PICK f : Solves(f, n, T, uf, next)
  <2> HIDE DEF n, T, next
  <2> QED
    BY <1>1, <1>2, Recursion
<1>4. Is(f)
  <2>1. f \in [0 .. n -> T] /\ f[0] = uf /\ \A i \in 1 .. n : f[i] = next[<<i, f[i - 1]>>]
    BY <1>3 DEF Solves
  <2>2. \A i \in 0 .. n : f[i] = IF i = 0 THEN uf ELSE Segs!DoLine(f[i - 1], after(i))
    <3> TAKE i \in 0 .. n
    <3>1. CASE i # 0
      <4>1. i \in 1 .. n /\ i - 1 \in 0 .. n
        <5> HIDE DEF n
        <5> QED
          BY <1>1, <3>1
      <4>2. <<i, f[i - 1]>> \in (1 .. n) \X T
        BY <2>1, <4>1
      <4>3. next[<<i, f[i - 1]>>] = Segs!DoLine(f[i - 1], after(i))
        <5> HIDE DEF n, T, after
        <5> QED
          BY <4>2
      <4> QED
        BY <2>1, <3>1, <4>1, <4>3
    <3> QED
      BY <2>1, <3>1
  <2>3. f = [i \in 0 .. n |-> f[i]]
    BY <2>1
  <2> HIDE DEF next
  <2> QED
    BY <2>2, <2>3, Zenon
<1> DEFINE g == CHOOSE h : Is(h)
<1>5. Is(g)
  <2> HIDE DEF Is
  <2> QED
    BY <1>4
<1>6. Stitching(uf, m) = g[n]
  BY DEF Stitching
<1>7. \A i \in 0 .. n : g[i] = IF i = 0 THEN uf ELSE Segs!DoLine(g[i - 1], after(i))
  <2> DEFINE h == g
  <2>1. Is(h)
    BY <1>5
  <2> HIDE DEF h
  <2>2. \A i \in 0 .. n : h[i] = IF i = 0 THEN uf ELSE Segs!DoLine(h[i - 1], after(i))
    BY <2>1
  <2> QED
    BY <2>2 DEF h
<1> HIDE DEF g, Is, n, after
<1> DEFINE S == {i \in 0 .. n : Forest(g[i], Within(upto(i)))}
<1>8. 0 \in S
  <2>1. upto(0) = lns
    OBVIOUS
  <2> HIDE DEF upto
  <2> QED
    BY <1>1, <1>7, <2>1
<1>9. ASSUME NEW i \in 0 .. n - 1, i \in S PROVE i + 1 \in S
  <2>1. i + 1 \in 1 .. n /\ i + 1 \in 0 .. n /\ (i + 1) - 1 = i
    BY <1>1
  <2>2. g[i + 1] = Segs!DoLine(g[i], after(i + 1))
    BY <1>7, <2>1
  <2>3. upto(i + 1) = upto(i) \cup {after(i + 1)}
    <3>1. \A k : k \in 1 .. i + 1 <=> k \in 1 .. i \/ k = i + 1
      BY <1>1
    <3> QED
      BY <3>1
  <2> HIDE DEF upto
  <2>4. Forest(Segs!DoLine(g[i], after(i + 1)), Within(upto(i)) \cup Within({after(i + 1)}))
    <3>1. after(i + 1) \in 0 .. Height - 2 /\ Forest(g[i], Within(upto(i)))
      BY <1>1, <1>9, <2>1
    <3>2. Within(upto(i)) \in SUBSET PixelPairs
      BY WithinOK
    <3> QED
      BY <3>1, <3>2, DoLineOK
  <2>5. Within(upto(i)) \cup Within({after(i + 1)}) = Within(upto(i + 1))
    BY <2>3, WithinOK
  <2> QED
    BY <2>1, <2>2, <2>4, <2>5
<1>10. n \in S
  <2>1. n \in 0 .. n
    BY <1>1
  <2> HIDE DEF S
  <2> QED
    BY <1>1, <1>8, <1>9, <2>1, UpTo
<1> QED
  BY <1>6, <1>10 DEF n, after

-----------------------------------------------------------------------------
(* SegmentsAreComponents *)

\* A step of Parts that is not Segments' leaves its variables alone.
LEMMA StepOfSegments == [Next]_vars => Segs!Next \/ UNCHANGED segsVars
  BY DEF Next, IsStart, IsFrames, IsCodec, IsFields, IsJoystick, IsPool, IsImage, packetVars,
         imageVars, vars

\* Between any two steps of any of the threads the forest joins what the lines that are
\* connected so far join.
SegmentsInv ==
    /\ stage = "run" =>
           /\ threads \in Nat \ {0} /\ lines \in [Segs!Tasks(threads) -> Nat]
           /\ \A k \in Segs!Tasks(threads) : /\ Segs!From(k, threads) <= lines[k]
                                              /\ lines[k] <= AfterOf(k, threads)
           /\ Forest(forest, Within(Done(lines, threads)))
    /\ stage = "stitched" => Forest(forest, Within(Segs!Connected))

\* unionfind_create
LEMMA FreshOK == Segs!ImageAssumption => Forest(Segs!Fresh, {})
<1> SUFFICES ASSUME Segs!ImageAssumption PROVE Forest(Segs!Fresh, {})
  OBVIOUS
<1> DEFINE r == [p \in Segs!Pixels |-> p]
<1>1. ASSUME NEW p \in Segs!Pixels
      PROVE  Class(r, r[p]) = {p} /\ Cardinality({p}) = 1
  <2>1. Class(r, r[p]) = {p}
    BY DEF Class
  <2> QED
    BY <2>1, FS_Singleton
<1>2. \A p \in Segs!Pixels :
          Segs!Fresh[p].parent = p /\ Segs!Fresh[p].size = 1 /\ r[p] = p
  BY DEF Segs!Fresh
<1>3. Segs!Fresh \in [Segs!Pixels -> [parent : Segs!Pixels, size : Nat \ {0}]]
  BY DEF Segs!Fresh
<1>4. r \in [Segs!Pixels -> Segs!Pixels]
  OBVIOUS
<1> HIDE DEF r
<1>5. Rooted(Segs!Fresh, r)
  BY <1>1, <1>2, <1>3, <1>4 DEF Rooted
<1>6. Joins(r, {})
  BY <1>2 DEF Joins
<1> QED
  BY <1>5, <1>6 DEF Forest

\* When all tasks are done and the chunks are stitched, every line is connected that
\* is connected at all.
LEMMA AllDone ==
    ASSUME Segs!ImageAssumption, Target \in Nat \ {0}, threads \in Nat \ {0}, NEW l,
           \A k \in Segs!Tasks(threads) : l[k] = AfterOf(k, threads)
    PROVE  Done(l, threads)
               \cup (IF threads > 1
                     THEN {Segs!AfterLine(Segs!Sz, threads, k) :
                               k \in 1 .. Segs!NTasks(Segs!Sz, threads) - 1}
                     ELSE {})
           = Segs!Connected
<1> DEFINE sz == Segs!Sz
           first(k) == Segs!First(sz, threads, k)
           after(k) == Segs!AfterLine(sz, threads, k)
           n == Segs!NTasks(sz, threads)
           lost == Segs!Forgotten(sz, threads)
<1>0. sz \in Nat \ {0}
  BY TasksOK
<1>1. CASE threads > 1
  <2>1. /\ \A k \in 1 .. n - 1 : after(k) \in 0 .. sz - 1 \ lost
        /\ \A y \in 0 .. sz - 1 :
               (\E k \in 1 .. n : first(k) <= y /\ y < after(k)) <=>
                   y \notin {after(k) : k \in 1 .. n - 1} \cup lost
    BY <1>0, AllLines
  <2>2. /\ Segs!Tasks(threads) = 1 .. n
        /\ \A k \in 1 .. n : Segs!From(k, threads) = first(k) /\ l[k] = after(k)
    BY <1>1 DEF Segs!Tasks, Segs!From, AfterOf
  <2>3. Segs!Connected = 0 .. sz - 1 \ lost
    BY <1>1 DEF Segs!Connected
  <2>4. Done(l, threads) =
            {y \in 0 .. sz - 1 : \E k \in 1 .. n : first(k) <= y /\ y < after(k)}
    BY <2>2 DEF Done
  <2> HIDE DEF sz, first, after, n, lost
  <2>5. Done(l, threads) \cup {after(k) : k \in 1 .. n - 1} = 0 .. sz - 1 \ lost
    BY <2>1, <2>4
  <2> QED
    BY <1>1, <2>3, <2>5 DEF sz, after, n
<1>2. CASE ~(threads > 1)
  <2>1. Segs!Tasks(threads) = {1} /\ Segs!From(1, threads) = 0 /\ l[1] = sz
    BY <1>2 DEF Segs!Tasks, Segs!From, AfterOf
  <2>2. Segs!Connected = 0 .. sz - 1
    BY <1>2 DEF Segs!Connected
  <2> HIDE DEF sz
  <2>3. Done(l, threads) = 0 .. sz - 1
    BY <1>0, <2>1 DEF Done, sz
  <2> QED
    BY <1>2, <2>2, <2>3
<1> QED
  BY <1>1, <1>2

LEMMA SegmentsInit == Init => SegmentsInv
  BY DEF Init, Segs!Init, SegmentsInv

LEMMA SegmentsStep ==
    ASSUME Segs!ImageAssumption, Target \in Nat \ {0}, MaxThreads \in Nat,
           SegmentsInv, [Next]_vars
    PROVE  SegmentsInv'
<1>1. Segs!Next \/ UNCHANGED segsVars
  BY StepOfSegments
<1>2. CASE Segs!Begin
  <2>1. /\ threads' \in Nat \ {0} /\ stage' = "run" /\ forest' = Segs!Fresh
        /\ lines' = [k \in Segs!Tasks(threads') |-> Segs!From(k, threads')]
    BY <1>2 DEF Segs!Begin
  <2>2. \A k \in Segs!Tasks(threads') :
            /\ lines'[k] = Segs!From(k, threads') /\ lines'[k] \in Nat
            /\ Segs!From(k, threads') <= lines'[k] /\ lines'[k] <= AfterOf(k, threads')
    BY <2>1, TasksOK
  <2>3. lines' \in [Segs!Tasks(threads') -> Nat]
    BY <2>1, <2>2
  <2>4. Done(lines', threads') = {}
    BY <2>2 DEF Done
  <2>5. Within(Done(lines, threads))' = {}
    BY <2>4 DEF Within
  <2>6. Forest(forest', {})
    BY <2>1, FreshOK
  <2>7. Forest(forest, Within(Done(lines, threads)))'
    BY <2>5, <2>6
  <2> QED
    BY <2>1, <2>2, <2>3, <2>7 DEF SegmentsInv
<1>3. ASSUME NEW k \in DOMAIN lines, Segs!DoTask(k)
      PROVE  SegmentsInv'
  <2>1. /\ stage = "run" /\ lines[k] < Segs!To(k) /\ forest' = Segs!DoLine(forest, lines[k])
        /\ lines' = [lines EXCEPT ![k] = @ + 1]
        /\ image' = image /\ threads' = threads /\ stage' = stage
    BY <1>3 DEF Segs!DoTask
  <2>2. /\ threads \in Nat \ {0} /\ lines \in [Segs!Tasks(threads) -> Nat]
        /\ \A i \in Segs!Tasks(threads) : /\ Segs!From(i, threads) <= lines[i]
                                            /\ lines[i] <= AfterOf(i, threads)
        /\ Forest(forest, Within(Done(lines, threads)))
    BY <2>1 DEF SegmentsInv
  <2>3. k \in Segs!Tasks(threads) /\ Segs!To(k) = AfterOf(k, threads)
    BY <2>2 DEF Segs!To, AfterOf
  <2>4. /\ Segs!Sz \in Nat \ {0} /\ Segs!Sz - 1 = Height - 2
        /\ \A i \in Segs!Tasks(threads) :
               /\ Segs!From(i, threads) \in Nat /\ AfterOf(i, threads) \in Nat
               /\ Segs!From(i, threads) <= AfterOf(i, threads)
               /\ AfterOf(i, threads) <= Segs!Sz
    BY <2>2, TasksOK
  <2> DEFINE y == lines[k]
  <2>5. y \in Nat /\ y < AfterOf(k, threads) /\ y \in 0 .. Segs!Sz - 1
    BY <2>1, <2>2, <2>3, <2>4
  <2>6. Forest(Segs!DoLine(forest, y), Within(Done(lines, threads)) \cup Within({y}))
    <3>1. y \in 0 .. Height - 2
      BY <2>4, <2>5
    <3>2. Within(Done(lines, threads)) \in SUBSET PixelPairs
      BY WithinOK
    <3> HIDE DEF y
    <3> QED
      BY <2>2, <3>1, <3>2, DoLineOK
  <2>7. \A i \in Segs!Tasks(threads) : lines'[i] = IF i = k THEN y + 1 ELSE lines[i]
    BY <2>1, <2>2
  <2>8. lines' \in [Segs!Tasks(threads) -> Nat]
    BY <2>1, <2>2, <2>5
  <2>9. \A i \in Segs!Tasks(threads) : Segs!From(i, threads) <= lines'[i]
                                         /\ lines'[i] <= AfterOf(i, threads)
    BY <2>2, <2>3, <2>4, <2>5, <2>7
  <2>10. Done(lines', threads) = Done(lines, threads) \cup {y}
    <3>1. ASSUME NEW z \in 0 .. Segs!Sz - 1, NEW i \in Segs!Tasks(threads)
          PROVE  Segs!From(i, threads) <= z /\ z < lines'[i] <=>
                     \/ Segs!From(i, threads) <= z /\ z < lines[i]
                     \/ i = k /\ z = y
      <4>1. lines[i] \in Nat /\ Segs!From(i, threads) \in Nat /\ z \in Int
        BY <2>2, <2>4
      <4>2. Segs!From(k, threads) <= y
        BY <2>2, <2>3
      <4> HIDE DEF y
      <4>3. CASE i = k
        <5>1. lines'[i] = y + 1 /\ lines[i] = y
          BY <2>7, <4>3 DEF y
        <5> QED
          BY <2>5, <4>1, <4>2, <4>3, <5>1
      <4>4. CASE i # k
        BY <2>7, <4>4
      <4> QED
        BY <4>3, <4>4
    <3> HIDE DEF y
    <3> QED
      BY <2>3, <2>5, <3>1 DEF Done
  <2>11. Within(Done(lines, threads))' = Within(Done(lines, threads) \cup {y})
    BY <2>1, <2>10 DEF Within, Linked
  <2>12. Forest(forest, Within(Done(lines, threads)))'
    <3> HIDE DEF y
    <3>1. Within(Done(lines, threads)) \cup Within({y}) = Within(Done(lines, threads) \cup {y})
      BY WithinOK
    <3> QED
      BY <2>1, <2>6, <2>11, <3>1 DEF y
  <2> QED
    BY <2>1, <2>2, <2>8, <2>9, <2>12 DEF SegmentsInv
<1>4. CASE Segs!Stitch
  <2>1. /\ stage = "run" /\ \A k \in DOMAIN lines : lines[k] = Segs!To(k)
        /\ forest' = IF threads > 1 THEN Stitching(forest, threads) ELSE forest
        /\ stage' = "stitched" /\ image' = image /\ threads' = threads
    BY <1>4 DEF Segs!Stitch, Stitching
  <2>2. /\ threads \in Nat \ {0} /\ lines \in [Segs!Tasks(threads) -> Nat]
        /\ Forest(forest, Within(Done(lines, threads)))
    BY <2>1 DEF SegmentsInv
  <2>3. \A k \in Segs!Tasks(threads) : lines[k] = AfterOf(k, threads)
    BY <2>1, <2>2 DEF Segs!To, AfterOf
  <2> DEFINE between == {Segs!AfterLine(Segs!Sz, threads, k) :
                            k \in 1 .. Segs!NTasks(Segs!Sz, threads) - 1}
  <2>4. Done(lines, threads) \cup (IF threads > 1 THEN between ELSE {}) = Segs!Connected
    BY <2>2, <2>3, AllDone
  <2>5. threads > 1 =>
            Forest(Stitching(forest, threads), Within(Done(lines, threads) \cup between))
    BY <2>2, StitchingOK
  <2> HIDE DEF between
  <2>6. Forest(forest', Within(Segs!Connected))
    <3>1. CASE threads > 1
      BY <2>1, <2>4, <2>5, <3>1
    <3>2. CASE ~(threads > 1)
      <4>1. Done(lines, threads) = Segs!Connected
        BY <2>4, <3>2
      <4> QED
        BY <2>1, <2>2, <3>2, <4>1
    <3> QED
      BY <3>1, <3>2
  <2>7. Within(Segs!Connected)' = Within(Segs!Connected)
    BY <2>1 DEF Within, Linked, Segs!Connected
  <2>8. Forest(forest, Within(Segs!Connected))'
    BY <2>6, <2>7
  <2> QED
    BY <2>1, <2>8 DEF SegmentsInv
<1>5. CASE Segs!Cluster \/ Segs!FitQuads \/ Segs!Destroy
  <2>1. stage' \in {"clustered", "ordered", "none"}
    BY <1>5 DEF Segs!Cluster, Segs!FitQuads, Segs!Destroy
  <2> QED
    BY <2>1 DEF SegmentsInv
<1>6. CASE UNCHANGED segsVars
  <2>1. UNCHANGED <<image, threads, lines, forest, stage>>
    BY <1>6 DEF segsVars
  <2>2. /\ Within(Done(lines, threads))' = Within(Done(lines, threads))
        /\ Within(Segs!Connected)' = Within(Segs!Connected)
    BY <2>1 DEF Within, Linked, Segs!Connected, Done
  <2> QED
    BY <2>1, <2>2 DEF SegmentsInv
<1> QED
  BY <1>1, <1>2, <1>3, <1>4, <1>5, <1>6 DEF Segs!Next

\* The property's edges are those of the connected lines, in either direction.
LEMMA EdgesOK ==
    /\ Segs!Edges \in SUBSET PixelPairs
    /\ \A e \in Segs!Edges : <<e[2], e[1]>> \in Segs!Edges
    /\ \A S : Closed(S, Segs!Edges) <=> Closed(S, Within(Segs!Connected))
<1> DEFINE W == Within(Segs!Connected)
<1>1. \A p, q : Segs!Touch(p, q) <=> p[1] \in Segs!Connected /\ Linked(p, q)
  BY DEF Segs!Touch, Linked
<1>2. \A e : e \in PixelPairs =>
          /\ <<e[2], e[1]>> \in PixelPairs
          /\ <<e[2], e[1]>>[1] = e[2] /\ <<e[2], e[1]>>[2] = e[1]
  BY DEF PixelPairs
<1>3. \A e : e \in Segs!Edges <=>
                 e \in PixelPairs /\ (Segs!Touch(e[1], e[2]) \/ Segs!Touch(e[2], e[1]))
  BY DEF Segs!Edges, PixelPairs
<1>4. \A e : e \in W <=> e \in PixelPairs /\ Segs!Touch(e[1], e[2])
  BY <1>1 DEF Within
<1>5. \A e \in Segs!Edges : e \in W \/ <<e[2], e[1]>> \in W
  BY <1>2, <1>3, <1>4
<1>6. \A e \in W : e \in Segs!Edges
  BY <1>3, <1>4
<1>7. \A e \in Segs!Edges : <<e[2], e[1]>> \in Segs!Edges
  <2> TAKE e \in Segs!Edges
  <2>1. e \in PixelPairs /\ (Segs!Touch(e[1], e[2]) \/ Segs!Touch(e[2], e[1]))
    BY <1>3
  <2> DEFINE d == <<e[2], e[1]>>
  <2>2. d \in PixelPairs /\ d[1] = e[2] /\ d[2] = e[1]
    BY <1>2, <2>1
  <2> HIDE DEF d
  <2>3. d \in Segs!Edges
    BY <1>3, <2>1, <2>2
  <2> QED
    BY <2>3 DEF d
<1> HIDE DEF W
<1>8. ASSUME NEW S, Closed(S, Segs!Edges) PROVE Closed(S, W)
  BY <1>6, <1>8 DEF Closed
<1>9. ASSUME NEW S, Closed(S, W) PROVE Closed(S, Segs!Edges)
  <2> SUFFICES ASSUME NEW e \in Segs!Edges PROVE e[1] \in S <=> e[2] \in S
    BY DEF Closed
  <2>1. \A d \in W : d[1] \in S <=> d[2] \in S
    BY <1>9 DEF Closed
  <2> DEFINE d == <<e[2], e[1]>>
  <2>2. d[1] = e[2] /\ d[2] = e[1] /\ (e \in W \/ d \in W)
    BY <1>2, <1>3, <1>5
  <2> HIDE DEF d
  <2> QED
    BY <2>1, <2>2
<1> QED
  BY <1>3, <1>7, <1>8, <1>9 DEF W

\* The cardinality of the instance is the usual one.
LEMMA SegCard == \A S : Segs!Cardinality(S) = Cardinality(S)
  BY DEF Segs!Cardinality, Cardinality, Segs!IsFiniteSet, IsFiniteSet

\* A tree is a component.
LEMMA TreeOK ==
    ASSUME Segs!ImageAssumption, NEW r, Rooted(forest, r), Joins(r, Within(Segs!Connected)),
           NEW q \in Segs!Pixels
    PROVE  /\ Class(r, r[q]) = Segs!Component(Segs!Edges, r[q])
           /\ forest[r[q]].size = Segs!Cardinality(Class(r, r[q]))
<1> DEFINE p == r[q]
           C == Segs!Component(Segs!Edges, p)
<1>1. p \in Segs!Pixels /\ r[p] = p
  BY DEF Rooted
<1> HIDE DEF p
<1>2. /\ C \in SUBSET Segs!Pixels /\ p \in C /\ Closed(C, Segs!Edges)
      /\ \A D \in SUBSET Segs!Pixels : p \in D /\ Closed(D, Segs!Edges) => C \subseteq D
  BY <1>1, EdgesOK, ComponentOK
<1> HIDE DEF C
<1>3. Class(r, p) \in SUBSET Segs!Pixels /\ p \in Class(r, p)
  BY <1>1 DEF Class
<1>4. Closed(Class(r, p), Within(Segs!Connected))
  <2>1. \A e \in Within(Segs!Connected) :
            e[1] \in Segs!Pixels /\ e[2] \in Segs!Pixels /\ r[e[1]] = r[e[2]]
    BY DEF Joins, Within, PixelPairs
  <2> QED
    BY <2>1 DEF Closed, Class
<1>5. C \subseteq Class(r, p)
  BY <1>2, <1>3, <1>4, EdgesOK
<1>6. Closed(C, Within(Segs!Connected))
  BY <1>2, EdgesOK
<1>7. \A u \in Class(r, p) : u \in C
  BY <1>1, <1>2, <1>6 DEF Joins, Class
<1>8. forest[p].size = Cardinality(Class(r, p))
  BY <1>1 DEF Rooted
<1> QED
  BY <1>5, <1>7, <1>8, SegCard DEF p, C

\* Then the trees are the components.
LEMMA SegmentsOK ==
    ASSUME Segs!ImageAssumption, stage = "stitched",
           Forest(forest, Within(Segs!Connected))
    PROVE  SegmentsAreComponents
<1> DEFINE root == [p \in Segs!Pixels |-> Segs!Root(forest, p)]
<1>1. PICK r : Rooted(forest, r) /\ Joins(r, Within(Segs!Connected))
  BY DEF Forest
<1>2. r \in [Segs!Pixels -> Segs!Pixels] /\ \A p \in Segs!Pixels : r[r[p]] = r[p]
  BY <1>1 DEF Rooted
<1>3. root = r
  BY <1>1, <1>2, RootOK
<1>4. ASSUME NEW q \in Segs!Pixels
      PROVE  /\ Class(r, r[q]) = Segs!Component(Segs!Edges, r[q])
             /\ forest[r[q]].size = Segs!Cardinality(Class(r, r[q]))
  BY <1>1, TreeOK
<1>5. SUFFICES ASSUME NEW p \in {root[q] : q \in Segs!Pixels}
               PROVE  /\ {q \in Segs!Pixels : root[q] = p} = Segs!Component(Segs!Edges, p)
                      /\ forest[p].size = Segs!Cardinality({q \in Segs!Pixels : root[q] = p})
  BY Zenon DEF SegmentsAreComponents, Segs!SegmentsAreComponents
<1> HIDE DEF root
<1> QED
  BY <1>3, <1>4, <1>5 DEF Class

\* Whichever thread connects its lines first, and for images of any size and any number
\* of threads, the trees of the union-find are the components of the image, and their
\* roots know how large they are (unionfind.h:95-156,
\* apriltag_quad_thresh.c:1095-1126, 1526-1563).
THEOREM SegmentsAreWhole == Spec => []SegmentsAreComponents
<1>1. Segs!ImageAssumption /\ Target \in Nat \ {0} /\ MaxThreads \in Nat
  BY PartsAssumption DEF Pool!ChunkAssumption, Pool!PoolAssumption
<1>2. Init => SegmentsInv
  BY SegmentsInit
<1>3. SegmentsInv /\ [Next]_vars => SegmentsInv'
  BY <1>1, SegmentsStep
<1>4. SegmentsInv => SegmentsAreComponents
  <2>1. CASE stage = "stitched"
    BY <1>1, <2>1, SegmentsOK DEF SegmentsInv
  <2>2. CASE stage # "stitched"
    BY <2>2, Zenon DEF SegmentsAreComponents, Segs!SegmentsAreComponents
  <2> QED
    BY <2>1, <2>2
<1> QED
  BY <1>2, <1>3, <1>4, PTL DEF Spec

-----------------------------------------------------------------------------
(* ptsort *)

\* Points that have an angle.
Angled(R) == \A e \in R : e.theta \in Int
Members(s) == {s[i] : i \in DOMAIN s}
Sorted(s) == \A i, j \in DOMAIN s : i < j => s[i].theta <= s[j].theta

\* What rises from each to the next rises.
LEMMA Rising ==
    ASSUME NEW m \in Nat, NEW h \in [1 .. m -> Int], \A i \in 1 .. m - 1 : h[i] <= h[i + 1]
    PROVE  \A i, j \in 1 .. m : i < j => h[i] <= h[j]
<1> DEFINE S == {d \in 0 .. m : \A i \in 1 .. m : i + d <= m => h[i] <= h[i + d]}
<1>1. 0 \in S
  OBVIOUS
<1>2. ASSUME NEW d \in 0 .. m - 1, d \in S PROVE d + 1 \in S
  <2>1. ASSUME NEW i \in 1 .. m, i + (d + 1) <= m PROVE h[i] <= h[i + (d + 1)]
    <3>1. i + d \in 1 .. m - 1 /\ (i + d) + 1 = i + (d + 1) /\ i + d <= m
      BY <2>1
    <3>2. h[i] <= h[i + d] /\ h[i + d] <= h[i + (d + 1)]
      BY <1>2, <3>1
    <3>3. h[i] \in Int /\ h[i + d] \in Int /\ h[i + (d + 1)] \in Int
      BY <3>1
    <3> QED
      BY <3>2, <3>3
  <2> QED
    BY <2>1
<1>3. \A d \in 0 .. m : d \in S
  <2> HIDE DEF S
  <2> QED
    BY <1>1, <1>2, UpTo
<1>4. ASSUME NEW i \in 1 .. m, NEW j \in 1 .. m, i < j PROVE h[i] <= h[j]
  <2>1. j - i \in 0 .. m /\ i + (j - i) = j
    BY <1>4
  <2>2. j - i \in S
    BY <1>3, <2>1
  <2> QED
    BY <2>1, <2>2
<1> QED
  BY <1>4

\* A comparator of a network.
Swapped(s, t, R, a, b) ==
    /\ t \in Seq(R) /\ Len(t) = Len(s) /\ Members(t) = Members(s)
    /\ t[a].theta <= t[b].theta
    /\ \/ t[a] = s[a] /\ t[b] = s[b]
       \/ t[a] = s[b] /\ t[b] = s[a]
    /\ \A i \in 1 .. Len(s) : i # a /\ i # b => t[i] = s[i]

\* It orders its two points and leaves the others where they are.
LEMMA SwapOK ==
    ASSUME NEW R, Angled(R), NEW s \in Seq(R), NEW a \in 1 .. Len(s), NEW b \in 1 .. Len(s),
           a # b
    PROVE  Swapped(s, Segs!MaybeSwap(s, <<a, b>>), R, a, b)
<1> DEFINE t == Segs!MaybeSwap(s, <<a, b>>)
           n == Len(s)
<1>1. /\ n \in Nat /\ DOMAIN s = 1 .. n /\ \A i \in 1 .. n : s[i] \in R
      /\ s[a].theta \in Int /\ s[b].theta \in Int
  BY DEF Angled
<1>2. CASE s[a].theta > s[b].theta
  <2>1. t = [s EXCEPT ![a] = s[b], ![b] = s[a]]
    BY <1>2 DEF Segs!MaybeSwap
  <2>2. /\ DOMAIN t = 1 .. n
        /\ \A i \in 1 .. n : t[i] = IF i = b THEN s[a] ELSE IF i = a THEN s[b] ELSE s[i]
    BY <1>1, <2>1
  <2>3. t \in [1 .. n -> R]
    <3>1. t = [i \in 1 .. n |-> t[i]]
      BY <1>1, <2>1
    <3>2. \A i \in 1 .. n : t[i] \in R
      BY <1>1, <2>2
    <3> HIDE DEF t
    <3> QED
      BY <3>1, <3>2
  <2> HIDE DEF t
  <2>4. t \in Seq(R) /\ Len(t) = n
    BY <1>1, <2>3
  <2>5. Members(t) = Members(s)
    <3>1. \A i \in 1 .. n : \E j \in 1 .. n : t[i] = s[j]
      BY <2>2
    <3>2. \A i \in 1 .. n : \E j \in 1 .. n : s[i] = t[j]
      BY <2>2
    <3>3. DOMAIN s = 1 .. n /\ DOMAIN t = 1 .. n
      BY <1>1, <2>2
    <3>4. Members(s) = {s[i] : i \in 1 .. n} /\ Members(t) = {t[i] : i \in 1 .. n}
      BY <3>3 DEF Members
    <3> HIDE DEF n
    <3> QED
      BY <3>1, <3>2, <3>4
  <2>6. t[a] = s[b] /\ t[b] = s[a] /\ \A i \in 1 .. n : i # a /\ i # b => t[i] = s[i]
    BY <2>2
  <2>7. t[a].theta <= t[b].theta
    BY <1>1, <1>2, <2>6
  <2>8. Swapped(s, t, R, a, b)
    BY <2>4, <2>5, <2>6, <2>7 DEF Swapped
  <2> QED
    BY <2>8 DEF t
<1>3. CASE ~(s[a].theta > s[b].theta)
  <2>1. t = s
    BY <1>3 DEF Segs!MaybeSwap
  <2> HIDE DEF t
  <2>2. Swapped(s, s, R, a, b)
    BY <1>1, <1>3 DEF Swapped
  <2> QED
    BY <2>1, <2>2 DEF t
<1> QED
  BY <1>2, <1>3

\* The networks compare different places.
LEMMA NetworksOK ==
    ASSUME NEW n \in 2 .. 5
    PROVE  /\ Len(Segs!Networks[n]) \in Nat
           /\ \A j \in 1 .. Len(Segs!Networks[n]) :
                  LET c == Segs!Networks[n][j] IN
                  c = <<c[1], c[2]>> /\ c[1] \in 1 .. n /\ c[2] \in 1 .. n /\ c[1] # c[2]
<1>1. CASE n = 2
  BY <1>1 DEF Segs!Networks
<1>2. CASE n = 3
  BY <1>2 DEF Segs!Networks
<1>3. CASE n = 4
  BY <1>3 DEF Segs!Networks
<1>4. CASE n = 5
  BY <1>4 DEF Segs!Networks
<1> QED
  BY <1>1, <1>2, <1>3, <1>4

\* The points of s, sorted.
SortOf(t, S, R) == t \in Seq(R) /\ Members(t) = S /\ Sorted(t)

\* After the comparators of a network the points are sorted.
LEMMA NetworkedOK ==
    ASSUME NEW R, Angled(R), NEW s \in Seq(R), Len(s) \in 2 .. 5
    PROVE  SortOf(Segs!Networked(s), Members(s), R)
<1> DEFINE net == Segs!Networks[Len(s)]
           n == Len(net)
           T == {t \in Seq(R) : Len(t) = Len(s) /\ Members(t) = Members(s)}
           I == (0 .. n) \X T
           next == [p \in (0 .. n) \X T |-> Segs!MaybeSwap(p[2], net[p[1]])]
           Is(f) == f = [j \in 0 .. Len(net) |->
                            IF j = 0 THEN s ELSE Segs!MaybeSwap(f[j - 1], net[j])]
<1>1. n \in Nat /\ \A j \in 1 .. n : /\ net[j] = <<net[j][1], net[j][2]>>
                                     /\ net[j][1] \in 1 .. Len(s)
                                     /\ net[j][2] \in 1 .. Len(s) /\ net[j][1] # net[j][2]
  BY NetworksOK
<1>2. ASSUME NEW j \in 1 .. n, NEW t \in T
      PROVE  /\ Swapped(t, Segs!MaybeSwap(t, net[j]), R, net[j][1], net[j][2])
             /\ Segs!MaybeSwap(t, net[j]) \in T
  <2> DEFINE a == net[j][1]
             b == net[j][2]
  <2>1. a \in 1 .. Len(t) /\ b \in 1 .. Len(t) /\ a # b /\ net[j] = <<a, b>>
    BY <1>1
  <2> HIDE DEF a, b, net
  <2>2. Swapped(t, Segs!MaybeSwap(t, <<a, b>>), R, a, b)
    BY <2>1, SwapOK
  <2>3. Segs!MaybeSwap(t, <<a, b>>) \in T
    BY <2>2 DEF Swapped
  <2> QED
    BY <2>1, <2>2, <2>3 DEF a, b
<1>3. Keeps(n, I, s, next)
  <2>1. <<0, s>> \in I
    BY <1>1
  <2>2. ASSUME NEW k \in 1 .. n, NEW v, <<k - 1, v>> \in I
        PROVE  <<k, next[<<k, v>>]>> \in I
    <3>1. v \in T /\ k \in 0 .. n
      BY <2>2, <1>1
    <3>2. next[<<k, v>>] = Segs!MaybeSwap(v, net[k])
      <4> HIDE DEF T, n, net
      <4> QED
        BY <3>1
    <3>3. Segs!MaybeSwap(v, net[k]) \in T
      <4> HIDE DEF T, n, net
      <4> QED
        BY <3>1, <1>2
    <3> HIDE DEF T, n, net, next
    <3> QED
      BY <3>1, <3>2, <3>3
  <2> HIDE DEF I, n, next
  <2> QED
    BY <2>1, <2>2 DEF Keeps
<1>4. PICK f : Unfolds(f, n, s, next) /\ \A k \in 0 .. n : <<k, f[k]>> \in I
  <2> HIDE DEF I, n, next
  <2> QED
    BY <1>1, <1>3, KeptRecursion
<1>5. Is(f)
  <2>1. f = [k \in 0 .. n |-> IF k = 0 THEN s ELSE next[<<k, f[k - 1]>>]]
    BY <1>4 DEF Unfolds
  <2>2. \A k \in 0 .. n : k # 0 => next[<<k, f[k - 1]>>] = Segs!MaybeSwap(f[k - 1], net[k])
    <3> TAKE k \in 0 .. n
    <3> HAVE k # 0
    <3>1. k - 1 \in 0 .. n
      BY <1>1
    <3>2. f[k - 1] \in T
      BY <1>4, <3>1
    <3> HIDE DEF T, n, net
    <3> QED
      BY <3>2
  <2>3. \A k \in 0 .. n : (IF k = 0 THEN s ELSE next[<<k, f[k - 1]>>]) =
                             IF k = 0 THEN s ELSE Segs!MaybeSwap(f[k - 1], net[k])
    <3> HIDE DEF next, net, n
    <3> QED
      BY <2>2
  <2> HIDE DEF next, net
  <2> QED
    BY <2>1, <2>3, Zenon
<1> DEFINE g == CHOOSE h : Is(h)
<1>6. Is(g)
  <2> HIDE DEF Is
  <2> QED
    BY <1>5
<1>7. Segs!Networked(s) = g[n]
  BY DEF Segs!Networked
<1> DEFINE u == g
<1>8. Is(u) /\ Segs!Networked(s) = u[n]
  BY <1>6, <1>7
<1> HIDE DEF u, g
<1>9. u[0] = s /\ \A k \in 1 .. n : u[k] = Segs!MaybeSwap(u[k - 1], net[k])
  <2>1. \A k \in 0 .. n : u[k] = IF k = 0 THEN s ELSE Segs!MaybeSwap(u[k - 1], net[k])
    <3> HIDE DEF net
    <3> QED
      BY <1>8
  <2> HIDE DEF net
  <2> QED
    BY <1>1, <2>1 DEF n
<1> DEFINE S == {k \in 0 .. n : u[k] \in T}
<1>10. 0 \in S
  BY <1>1, <1>9
<1>11. ASSUME NEW k \in 0 .. n - 1, k \in S PROVE k + 1 \in S
  <2>1. k + 1 \in 1 .. n /\ (k + 1) - 1 = k /\ u[k] \in T /\ k + 1 \in 0 .. n
    BY <1>1, <1>11
  <2>2. u[k + 1] = Segs!MaybeSwap(u[k], net[k + 1])
    <3> HIDE DEF net, n
    <3> QED
      BY <1>9, <2>1
  <2> HIDE DEF net, n, T
  <2> QED
    BY <1>2, <2>1, <2>2
<1>12. \A k \in 0 .. n : u[k] \in T
  <2> HIDE DEF S
  <2>1. \A k \in 0 .. n : k \in S
    BY <1>1, <1>10, <1>11, UpTo
  <2> QED
    BY <2>1 DEF S
<1>13. \A k \in 1 .. n : Swapped(u[k - 1], u[k], R, net[k][1], net[k][2])
  <2> TAKE k \in 1 .. n
  <2>1. u[k - 1] \in T /\ u[k] = Segs!MaybeSwap(u[k - 1], net[k])
    <3>1. k - 1 \in 0 .. n
      BY <1>1
    <3> HIDE DEF net, n, T
    <3> QED
      BY <1>9, <1>12, <3>1
  <2> HIDE DEF net, n, T
  <2> QED
    BY <1>2, <2>1
<1> DEFINE th(k, i) == u[k][i].theta
<1>14. \A k \in 0 .. n : \A i \in 1 .. Len(s) : th(k, i) \in Int
  <2> TAKE k \in 0 .. n
  <2> TAKE i \in 1 .. Len(s)
  <2>1. u[k] \in Seq(R) /\ Len(u[k]) = Len(s)
    BY <1>12
  <2>2. u[k][i] \in R
    BY <2>1
  <2> QED
    BY <2>2 DEF Angled
<1>15. \A k \in 1 .. n :
           LET a == net[k][1]
               b == net[k][2]
           IN /\ th(k, a) <= th(k, b)
              /\ \/ th(k, a) = th(k - 1, a) /\ th(k, b) = th(k - 1, b)
                 \/ th(k, a) = th(k - 1, b) /\ th(k, b) = th(k - 1, a)
              /\ \A i \in 1 .. Len(s) : i # a /\ i # b => th(k, i) = th(k - 1, i)
  <2> TAKE k \in 1 .. n
  <2>1. Swapped(u[k - 1], u[k], R, net[k][1], net[k][2])
    BY <1>13
  <2>2. Len(u[k - 1]) = Len(s)
    <3>1. k - 1 \in 0 .. n
      BY <1>1
    <3> QED
      BY <1>12, <3>1
  <2> HIDE DEF net, n, T
  <2> QED
    BY <2>1, <2>2 DEF Swapped
<1>16. \A i \in 1 .. Len(s) - 1 : th(n, i) <= th(n, i + 1)
  <2> HIDE DEF th
  <2>1. CASE Len(s) = 2
    <3>1. net = <<<<1, 2>>>>
      BY <2>1 DEF Segs!Networks
    <3>2. n = 1 /\ net[1] = <<1, 2>>
      BY <3>1
    <3>3. th(1, 1) <= th(1, 2)
      BY <3>2, <1>15
    <3> QED
      BY <2>1, <3>2, <3>3
  <2>2. CASE Len(s) = 3
    <3>1. net = <<<<1, 2>>, <<2, 3>>, <<1, 2>>>>
      BY <2>2 DEF Segs!Networks
    <3>2. n = 3 /\ net[1] = <<1, 2>> /\ net[2] = <<2, 3>> /\ net[3] = <<1, 2>>
      BY <3>1
    <3> HIDE DEF net, n
    <3>3. \A k \in 0 .. 3 : th(k, 1) \in Int /\ th(k, 2) \in Int /\ th(k, 3) \in Int
      BY <2>2, <3>2, <1>14
    <3>4. /\ th(1, 1) <= th(1, 2)
      BY <2>2, <3>2, <1>15
    <3>5. /\ th(2, 2) <= th(2, 3) /\ th(2, 1) = th(1, 1)
          /\ \/ th(2, 2) = th(1, 2) /\ th(2, 3) = th(1, 3)
             \/ th(2, 2) = th(1, 3) /\ th(2, 3) = th(1, 2)
      BY <2>2, <3>2, <1>15
    <3>6. /\ th(3, 1) <= th(3, 2) /\ th(3, 3) = th(2, 3)
          /\ \/ th(3, 1) = th(2, 1) /\ th(3, 2) = th(2, 2)
             \/ th(3, 1) = th(2, 2) /\ th(3, 2) = th(2, 1)
      BY <2>2, <3>2, <1>15
    <3> QED
      BY <2>2, <3>2, <3>3, <3>4, <3>5, <3>6
  <2>3. CASE Len(s) = 4
    <3>1. net = <<<<1, 2>>, <<3, 4>>, <<1, 3>>, <<2, 4>>, <<2, 3>>>>
      BY <2>3 DEF Segs!Networks
    <3> HIDE DEF net
    <3>2. /\ n = 5
          /\ net[1] = <<1, 2>>
          /\ net[2] = <<3, 4>>
          /\ net[3] = <<1, 3>>
          /\ net[4] = <<2, 4>>
          /\ net[5] = <<2, 3>>
      BY <3>1
    <3> HIDE DEF n
    <3>3. th(0, 1) \in Int /\ th(0, 2) \in Int /\ th(0, 3) \in Int /\ th(0, 4) \in Int
      BY <2>3, <3>2, <1>14
    <3>4. /\ th(1, 1) <= th(1, 2)
          /\ th(1, 3) = th(0, 3)
          /\ th(1, 4) = th(0, 4)
          /\ \/ th(1, 1) = th(0, 1) /\ th(1, 2) = th(0, 2)
             \/ th(1, 1) = th(0, 2) /\ th(1, 2) = th(0, 1)
      BY <2>3, <3>2, <1>15
    <3>5. th(1, 1) \in Int /\ th(1, 2) \in Int /\ th(1, 3) \in Int /\ th(1, 4) \in Int
      BY <2>3, <3>2, <1>14
    <3>6. th(1, 1) <= th(1, 2)
      BY <3>3, <3>5, <3>4
    <3>7. /\ th(2, 3) <= th(2, 4)
          /\ th(2, 1) = th(1, 1)
          /\ th(2, 2) = th(1, 2)
          /\ \/ th(2, 3) = th(1, 3) /\ th(2, 4) = th(1, 4)
             \/ th(2, 3) = th(1, 4) /\ th(2, 4) = th(1, 3)
      BY <2>3, <3>2, <1>15
    <3>8. th(2, 1) \in Int /\ th(2, 2) \in Int /\ th(2, 3) \in Int /\ th(2, 4) \in Int
      BY <2>3, <3>2, <1>14
    <3>9. th(2, 1) <= th(2, 2) /\ th(2, 3) <= th(2, 4)
      BY <3>5, <3>8, <3>7, <3>6
    <3>10. /\ th(3, 1) <= th(3, 3)
          /\ th(3, 2) = th(2, 2)
          /\ th(3, 4) = th(2, 4)
          /\ \/ th(3, 1) = th(2, 1) /\ th(3, 3) = th(2, 3)
             \/ th(3, 1) = th(2, 3) /\ th(3, 3) = th(2, 1)
      BY <2>3, <3>2, <1>15
    <3>11. th(3, 1) \in Int /\ th(3, 2) \in Int /\ th(3, 3) \in Int /\ th(3, 4) \in Int
      BY <2>3, <3>2, <1>14
    <3>12. /\ th(3, 1) <= th(3, 2) /\ th(3, 1) <= th(3, 3)
           /\ th(3, 1) <= th(3, 4) /\ (th(3, 3) <= th(3, 2) \/ th(3, 3) <= th(3, 4))
      BY <3>8, <3>11, <3>10, <3>9
    <3>13. /\ th(4, 2) <= th(4, 4)
          /\ th(4, 1) = th(3, 1)
          /\ th(4, 3) = th(3, 3)
          /\ \/ th(4, 2) = th(3, 2) /\ th(4, 4) = th(3, 4)
             \/ th(4, 2) = th(3, 4) /\ th(4, 4) = th(3, 2)
      BY <2>3, <3>2, <1>15
    <3>14. th(4, 1) \in Int /\ th(4, 2) \in Int /\ th(4, 3) \in Int /\ th(4, 4) \in Int
      BY <2>3, <3>2, <1>14
    <3>15. /\ th(4, 1) <= th(4, 2) /\ th(4, 1) <= th(4, 3)
           /\ th(4, 1) <= th(4, 4) /\ th(4, 2) <= th(4, 4)
           /\ th(4, 3) <= th(4, 4)
      BY <3>11, <3>14, <3>13, <3>12
    <3>16. /\ th(5, 2) <= th(5, 3)
          /\ th(5, 1) = th(4, 1)
          /\ th(5, 4) = th(4, 4)
          /\ \/ th(5, 2) = th(4, 2) /\ th(5, 3) = th(4, 3)
             \/ th(5, 2) = th(4, 3) /\ th(5, 3) = th(4, 2)
      BY <2>3, <3>2, <1>15
    <3>17. th(5, 1) \in Int /\ th(5, 2) \in Int /\ th(5, 3) \in Int /\ th(5, 4) \in Int
      BY <2>3, <3>2, <1>14
    <3>18. /\ th(5, 1) <= th(5, 2) /\ th(5, 2) <= th(5, 3)
           /\ th(5, 3) <= th(5, 4)
      BY <3>14, <3>17, <3>16, <3>15
    <3> QED
      BY <2>3, <3>2, <3>18
  <2>4. CASE Len(s) = 5
    <3>1. net = <<<<1, 2>>, <<4, 5>>, <<2, 3>>, <<1, 2>>, <<1, 4>>, <<3, 5>>, <<2, 3>>, <<3, 4>>,
                 <<2, 3>>>>
      BY <2>4 DEF Segs!Networks
    <3> HIDE DEF net
    <3>2. /\ n = 9
          /\ net[1] = <<1, 2>>
          /\ net[2] = <<4, 5>>
          /\ net[3] = <<2, 3>>
          /\ net[4] = <<1, 2>>
          /\ net[5] = <<1, 4>>
          /\ net[6] = <<3, 5>>
          /\ net[7] = <<2, 3>>
          /\ net[8] = <<3, 4>>
          /\ net[9] = <<2, 3>>
      BY <3>1
    <3> HIDE DEF n
    <3>3. th(0, 1) \in Int /\ th(0, 2) \in Int /\ th(0, 3) \in Int /\ th(0, 4) \in Int /\ th(0, 5) \in Int
      BY <2>4, <3>2, <1>14
    <3>4. /\ th(1, 1) <= th(1, 2)
          /\ th(1, 3) = th(0, 3)
          /\ th(1, 4) = th(0, 4)
          /\ th(1, 5) = th(0, 5)
          /\ \/ th(1, 1) = th(0, 1) /\ th(1, 2) = th(0, 2)
             \/ th(1, 1) = th(0, 2) /\ th(1, 2) = th(0, 1)
      BY <2>4, <3>2, <1>15
    <3>5. th(1, 1) \in Int /\ th(1, 2) \in Int /\ th(1, 3) \in Int /\ th(1, 4) \in Int /\ th(1, 5) \in Int
      BY <2>4, <3>2, <1>14
    <3>6. th(1, 1) <= th(1, 2)
      BY <3>3, <3>5, <3>4
    <3>7. /\ th(2, 4) <= th(2, 5)
          /\ th(2, 1) = th(1, 1)
          /\ th(2, 2) = th(1, 2)
          /\ th(2, 3) = th(1, 3)
          /\ \/ th(2, 4) = th(1, 4) /\ th(2, 5) = th(1, 5)
             \/ th(2, 4) = th(1, 5) /\ th(2, 5) = th(1, 4)
      BY <2>4, <3>2, <1>15
    <3>8. th(2, 1) \in Int /\ th(2, 2) \in Int /\ th(2, 3) \in Int /\ th(2, 4) \in Int /\ th(2, 5) \in Int
      BY <2>4, <3>2, <1>14
    <3>9. th(2, 1) <= th(2, 2) /\ th(2, 4) <= th(2, 5)
      BY <3>5, <3>8, <3>7, <3>6
    <3>10. /\ th(3, 2) <= th(3, 3)
          /\ th(3, 1) = th(2, 1)
          /\ th(3, 4) = th(2, 4)
          /\ th(3, 5) = th(2, 5)
          /\ \/ th(3, 2) = th(2, 2) /\ th(3, 3) = th(2, 3)
             \/ th(3, 2) = th(2, 3) /\ th(3, 3) = th(2, 2)
      BY <2>4, <3>2, <1>15
    <3>11. th(3, 1) \in Int /\ th(3, 2) \in Int /\ th(3, 3) \in Int /\ th(3, 4) \in Int /\ th(3, 5) \in Int
      BY <2>4, <3>2, <1>14
    <3>12. /\ th(3, 2) <= th(3, 3) /\ th(3, 1) <= th(3, 3)
           /\ th(3, 4) <= th(3, 5)
      BY <3>8, <3>11, <3>10, <3>9
    <3>13. /\ th(4, 1) <= th(4, 2)
          /\ th(4, 3) = th(3, 3)
          /\ th(4, 4) = th(3, 4)
          /\ th(4, 5) = th(3, 5)
          /\ \/ th(4, 1) = th(3, 1) /\ th(4, 2) = th(3, 2)
             \/ th(4, 1) = th(3, 2) /\ th(4, 2) = th(3, 1)
      BY <2>4, <3>2, <1>15
    <3>14. th(4, 1) \in Int /\ th(4, 2) \in Int /\ th(4, 3) \in Int /\ th(4, 4) \in Int /\ th(4, 5) \in Int
      BY <2>4, <3>2, <1>14
    <3>15. /\ th(4, 1) <= th(4, 2) /\ th(4, 2) <= th(4, 3)
           /\ th(4, 4) <= th(4, 5)
      BY <3>11, <3>14, <3>13, <3>12
    <3>16. /\ th(5, 1) <= th(5, 4)
          /\ th(5, 2) = th(4, 2)
          /\ th(5, 3) = th(4, 3)
          /\ th(5, 5) = th(4, 5)
          /\ \/ th(5, 1) = th(4, 1) /\ th(5, 4) = th(4, 4)
             \/ th(5, 1) = th(4, 4) /\ th(5, 4) = th(4, 1)
      BY <2>4, <3>2, <1>15
    <3>17. th(5, 1) \in Int /\ th(5, 2) \in Int /\ th(5, 3) \in Int /\ th(5, 4) \in Int /\ th(5, 5) \in Int
      BY <2>4, <3>2, <1>14
    <3>18. /\ th(5, 1) <= th(5, 2) /\ th(5, 1) <= th(5, 3)
           /\ th(5, 1) <= th(5, 4) /\ th(5, 1) <= th(5, 5)
           /\ th(5, 2) <= th(5, 3) /\ (th(5, 4) <= th(5, 5) \/ th(5, 4) <= th(5, 2))
      BY <3>14, <3>17, <3>16, <3>15
    <3>19. /\ th(6, 3) <= th(6, 5)
          /\ th(6, 1) = th(5, 1)
          /\ th(6, 2) = th(5, 2)
          /\ th(6, 4) = th(5, 4)
          /\ \/ th(6, 3) = th(5, 3) /\ th(6, 5) = th(5, 5)
             \/ th(6, 3) = th(5, 5) /\ th(6, 5) = th(5, 3)
      BY <2>4, <3>2, <1>15
    <3>20. th(6, 1) \in Int /\ th(6, 2) \in Int /\ th(6, 3) \in Int /\ th(6, 4) \in Int /\ th(6, 5) \in Int
      BY <2>4, <3>2, <1>14
    <3>21. /\ th(6, 1) <= th(6, 2) /\ th(6, 1) <= th(6, 3)
           /\ th(6, 1) <= th(6, 4) /\ th(6, 2) <= th(6, 5)
           /\ th(6, 3) <= th(6, 5) /\ th(6, 4) <= th(6, 5)
      BY <3>17, <3>20, <3>19, <3>18
    <3>22. /\ th(7, 2) <= th(7, 3)
          /\ th(7, 1) = th(6, 1)
          /\ th(7, 4) = th(6, 4)
          /\ th(7, 5) = th(6, 5)
          /\ \/ th(7, 2) = th(6, 2) /\ th(7, 3) = th(6, 3)
             \/ th(7, 2) = th(6, 3) /\ th(7, 3) = th(6, 2)
      BY <2>4, <3>2, <1>15
    <3>23. th(7, 1) \in Int /\ th(7, 2) \in Int /\ th(7, 3) \in Int /\ th(7, 4) \in Int /\ th(7, 5) \in Int
      BY <2>4, <3>2, <1>14
    <3>24. /\ th(7, 1) <= th(7, 2) /\ th(7, 1) <= th(7, 3)
           /\ th(7, 1) <= th(7, 4) /\ th(7, 2) <= th(7, 5)
           /\ th(7, 3) <= th(7, 5) /\ th(7, 4) <= th(7, 5)
           /\ th(7, 2) <= th(7, 3)
      BY <3>20, <3>23, <3>22, <3>21
    <3>25. /\ th(8, 3) <= th(8, 4)
          /\ th(8, 1) = th(7, 1)
          /\ th(8, 2) = th(7, 2)
          /\ th(8, 5) = th(7, 5)
          /\ \/ th(8, 3) = th(7, 3) /\ th(8, 4) = th(7, 4)
             \/ th(8, 3) = th(7, 4) /\ th(8, 4) = th(7, 3)
      BY <2>4, <3>2, <1>15
    <3>26. th(8, 1) \in Int /\ th(8, 2) \in Int /\ th(8, 3) \in Int /\ th(8, 4) \in Int /\ th(8, 5) \in Int
      BY <2>4, <3>2, <1>14
    <3>27. /\ th(8, 1) <= th(8, 2) /\ th(8, 1) <= th(8, 3)
           /\ th(8, 1) <= th(8, 4) /\ th(8, 2) <= th(8, 5)
           /\ th(8, 3) <= th(8, 5) /\ th(8, 4) <= th(8, 5)
           /\ th(8, 3) <= th(8, 4) /\ th(8, 2) <= th(8, 4)
      BY <3>23, <3>26, <3>25, <3>24
    <3>28. /\ th(9, 2) <= th(9, 3)
          /\ th(9, 1) = th(8, 1)
          /\ th(9, 4) = th(8, 4)
          /\ th(9, 5) = th(8, 5)
          /\ \/ th(9, 2) = th(8, 2) /\ th(9, 3) = th(8, 3)
             \/ th(9, 2) = th(8, 3) /\ th(9, 3) = th(8, 2)
      BY <2>4, <3>2, <1>15
    <3>29. th(9, 1) \in Int /\ th(9, 2) \in Int /\ th(9, 3) \in Int /\ th(9, 4) \in Int /\ th(9, 5) \in Int
      BY <2>4, <3>2, <1>14
    <3>30. /\ th(9, 1) <= th(9, 2) /\ th(9, 2) <= th(9, 3)
           /\ th(9, 3) <= th(9, 4) /\ th(9, 4) <= th(9, 5)
      BY <3>26, <3>29, <3>28, <3>27
    <3> QED
      BY <2>4, <3>2, <3>30
  <2> QED
    BY <2>1, <2>2, <2>3, <2>4
<1>17. u[n] \in T
  BY <1>1, <1>12
<1>18. Sorted(u[n])
  <2> DEFINE t == u[n]
             m == Len(s)
  <2>1. t \in Seq(R) /\ Len(t) = m /\ m \in 2 .. 5 /\ DOMAIN t = 1 .. m
    BY <1>17
  <2>2. \A i \in 1 .. m : t[i].theta \in Int
    BY <2>1 DEF Angled
  <2>3. \A i \in 1 .. m - 1 : t[i].theta <= t[i + 1].theta
    BY <1>16
  <2> HIDE DEF t, m
  <2>4. \A i, j \in 1 .. m : i < j => t[i].theta <= t[j].theta
    <3> DEFINE h == [i \in 1 .. m |-> t[i].theta]
    <3>1. h \in [1 .. m -> Int] /\ \A i \in 1 .. m - 1 : h[i] <= h[i + 1]
      BY <2>1, <2>2, <2>3
    <3>2. \A i \in 1 .. m : h[i] = t[i].theta
      OBVIOUS
    <3>3. m \in Nat
      BY <2>1
    <3> HIDE DEF h
    <3>4. \A i, j \in 1 .. m : i < j => h[i] <= h[j]
      BY <3>1, <3>3, Rising
    <3> QED
      BY <3>2, <3>4
  <2> QED
    BY <2>1, <2>4 DEF Sorted, t
<1> QED
  <2> HIDE DEF n
  <2> QED
    BY <1>8, <1>17, <1>18 DEF SortOf

\* A step of merge sort's merge, and what holds of the points taken by then: they are
\* sorted, and none is above those that are left.
Take(ps, qs, k, was) ==
    LET apos == was.apos
        bpos == k - 1 - apos
    IN IF /\ apos < Len(ps)
          /\ bpos < Len(qs) => ps[apos + 1].theta < qs[bpos + 1].theta
       THEN [pts |-> Append(was.pts, ps[apos + 1]), apos |-> apos + 1]
       ELSE [pts |-> Append(was.pts, qs[bpos + 1]), apos |-> apos]

Taken(ps, qs, R, k, v) ==
    /\ v.pts \in Seq(R) /\ Len(v.pts) = k /\ v.apos \in Nat
    /\ v.apos <= Len(ps) /\ v.apos <= k /\ k - v.apos <= Len(qs)
    /\ Members(v.pts) = {ps[i] : i \in 1 .. v.apos} \cup {qs[i] : i \in 1 .. k - v.apos}
    /\ Sorted(v.pts)
    /\ \A i \in 1 .. k :
           /\ \A j \in v.apos + 1 .. Len(ps) : v.pts[i].theta <= ps[j].theta
           /\ \A j \in k - v.apos + 1 .. Len(qs) : v.pts[i].theta <= qs[j].theta

\* Adding a point above all.
LEMMA AppendSorted ==
    ASSUME NEW R, Angled(R), NEW s \in Seq(R), Sorted(s), NEW e \in R,
           \A i \in 1 .. Len(s) : s[i].theta <= e.theta
    PROVE  /\ Append(s, e) \in Seq(R) /\ Len(Append(s, e)) = Len(s) + 1
           /\ \A i \in 1 .. Len(s) : Append(s, e)[i] = s[i]
           /\ Append(s, e)[Len(s) + 1] = e
           /\ Members(Append(s, e)) = Members(s) \cup {e}
           /\ Sorted(Append(s, e))
<1> DEFINE t == Append(s, e)
           n == Len(s)
<1>1. /\ t \in Seq(R) /\ Len(t) = n + 1 /\ n \in Nat /\ t[n + 1] = e
      /\ DOMAIN t = 1 .. n + 1 /\ DOMAIN s = 1 .. n
      /\ \A i \in 1 .. n : t[i] = s[i]
  OBVIOUS
<1> HIDE DEF t, n
<1>2. \A i \in 1 .. n + 1 : i \in 1 .. n \/ i = n + 1
  BY <1>1
<1>3. Members(t) = Members(s) \cup {e}
  <2>1. 1 .. n \subseteq 1 .. n + 1 /\ n + 1 \in 1 .. n + 1
    BY <1>1
  <2> QED
    BY <1>1, <1>2, <2>1 DEF Members
<1>4. Sorted(t)
  <2> SUFFICES ASSUME NEW i \in 1 .. n + 1, NEW j \in 1 .. n + 1, i < j
               PROVE  t[i].theta <= t[j].theta
    BY <1>1 DEF Sorted
  <2>1. i \in 1 .. n
    BY <1>1
  <2>2. CASE j = n + 1
    BY <1>1, <2>1, <2>2 DEF n
  <2>3. CASE j # n + 1
    BY <1>1, <1>2, <2>1, <2>3 DEF Sorted
  <2> QED
    BY <2>2, <2>3
<1> QED
  BY <1>1, <1>3, <1>4 DEF t, n

\* Taking the next point keeps what is taken sorted, and below what is left.
LEMMA TakeOK ==
    ASSUME NEW R, Angled(R), NEW ps \in Seq(R), NEW qs \in Seq(R), Sorted(ps), Sorted(qs),
           NEW k \in 1 .. Len(ps) + Len(qs), NEW v, Taken(ps, qs, R, k - 1, v)
    PROVE  Taken(ps, qs, R, k, Take(ps, qs, k, v))
<1> DEFINE a == v.apos
           b == k - 1 - a
           s == v.pts
           la == Len(ps)
           lb == Len(qs)
<1>1. /\ la \in Nat /\ lb \in Nat /\ DOMAIN ps = 1 .. la /\ DOMAIN qs = 1 .. lb
      /\ \A i \in 1 .. la : ps[i] \in R /\ ps[i].theta \in Int
      /\ \A i \in 1 .. lb : qs[i] \in R /\ qs[i].theta \in Int
  BY DEF Angled
<1>2. /\ s \in Seq(R) /\ Len(s) = k - 1 /\ a \in Nat /\ b \in Nat
      /\ a <= la /\ b <= lb /\ k \in Nat /\ k = a + b + 1 /\ k <= la + lb
      /\ Members(s) = {ps[i] : i \in 1 .. a} \cup {qs[i] : i \in 1 .. b}
      /\ Sorted(s)
      /\ \A i \in 1 .. k - 1 : /\ \A j \in a + 1 .. la : s[i].theta <= ps[j].theta
                               /\ \A j \in b + 1 .. lb : s[i].theta <= qs[j].theta
  BY <1>1 DEF Taken
<1>3. /\ \A i, j \in 1 .. la : i < j => ps[i].theta <= ps[j].theta
      /\ \A i, j \in 1 .. lb : i < j => qs[i].theta <= qs[j].theta
  BY <1>1 DEF Sorted
<1> DEFINE first == a < la /\ (b < lb => ps[a + 1].theta < qs[b + 1].theta)
           new == Take(ps, qs, k, v)
<1>4. new = IF first THEN [pts |-> Append(s, ps[a + 1]), apos |-> a + 1]
                     ELSE [pts |-> Append(s, qs[b + 1]), apos |-> a]
  BY DEF Take
<1> HIDE DEF new, la, lb, a, b, s
<1>5. CASE first
  <2> DEFINE e == ps[a + 1]
  <2>1. a + 1 \in 1 .. la /\ e \in R /\ e.theta \in Int
    BY <1>1, <1>2, <1>5
  <2>2. \A i \in 1 .. Len(s) : s[i].theta <= e.theta
    <3> TAKE i \in 1 .. Len(s)
    <3>1. i \in 1 .. k - 1 /\ a + 1 \in a + 1 .. la
      BY <1>1, <1>2, <2>1
    <3> QED
      BY <1>2, <3>1
  <2> DEFINE t == Append(s, e)
  <2>3. /\ t \in Seq(R) /\ Len(t) = Len(s) + 1
        /\ \A i \in 1 .. Len(s) : t[i] = s[i]
        /\ t[Len(s) + 1] = e
        /\ Members(t) = Members(s) \cup {e} /\ Sorted(t)
    <3> HIDE DEF e
    <3> QED
      BY <1>2, <2>1, <2>2, AppendSorted
  <2>4. new.pts = t /\ new.apos = a + 1
    BY <1>4, <1>5
  <2> HIDE DEF t
  <2>5. Members(t) = {ps[i] : i \in 1 .. a + 1} \cup {qs[i] : i \in 1 .. b}
    <3>1. \A i : i \in 1 .. a + 1 <=> i \in 1 .. a \/ i = a + 1
      BY <1>2
    <3>2. {ps[i] : i \in 1 .. a + 1} = {ps[i] : i \in 1 .. a} \cup {e}
      BY <3>1
    <3> QED
      BY <1>2, <2>3, <3>2
  <2>6. \A j \in a + 2 .. la : e.theta <= ps[j].theta
    BY <1>1, <1>2, <1>3, <2>1
  <2>7. \A j \in b + 1 .. lb : e.theta <= qs[j].theta
    <3> TAKE j \in b + 1 .. lb
    <3>1. b < lb /\ b + 1 \in 1 .. lb /\ j \in 1 .. lb
      BY <1>1, <1>2
    <3>2. e.theta < qs[b + 1].theta
      BY <1>5, <3>1
    <3>3. j = b + 1 \/ qs[b + 1].theta <= qs[j].theta
      BY <1>1, <1>2, <1>3, <3>1
    <3>4. qs[b + 1].theta \in Int /\ qs[j].theta \in Int
      BY <1>1, <3>1
    <3> QED
      BY <2>1, <3>2, <3>3, <3>4
  <2>8. \A i \in 1 .. k : /\ \A j \in a + 2 .. la : t[i].theta <= ps[j].theta
                          /\ \A j \in b + 1 .. lb : t[i].theta <= qs[j].theta
    <3> TAKE i \in 1 .. k
    <3>1. CASE i = k
      <4>1. t[i] = e
        BY <1>2, <2>3, <3>1
      <4> QED
        BY <2>6, <2>7, <4>1
    <3>2. CASE i # k
      <4>1. i \in 1 .. k - 1 /\ t[i] = s[i]
        BY <1>2, <2>3, <3>2
      <4>2. \A j \in a + 2 .. la : j \in a + 1 .. la
        BY <1>2
      <4> QED
        BY <1>2, <4>1, <4>2
    <3> QED
      BY <3>1, <3>2
  <2>9. k - (a + 1) = b /\ (a + 1) + 1 = a + 2 /\ a + 1 <= la /\ a + 1 <= k /\ b <= lb
        /\ Len(t) = k /\ a + 1 \in Nat
    BY <1>1, <1>2, <2>1, <2>3
  <2> HIDE DEF e, first
  <2>10. Taken(ps, qs, R, k, new)
    BY <1>2, <2>3, <2>4, <2>5, <2>8, <2>9 DEF Taken, la, lb
  <2> QED
    BY <2>10 DEF new
<1>6. CASE ~first
  <2> DEFINE e == qs[b + 1]
  <2>0. a < la => b < lb /\ ~(ps[a + 1].theta < qs[b + 1].theta)
    BY <1>6
  <2>1. b + 1 \in 1 .. lb /\ e \in R /\ e.theta \in Int
    BY <1>1, <1>2, <2>0
  <2>2. \A i \in 1 .. Len(s) : s[i].theta <= e.theta
    <3> TAKE i \in 1 .. Len(s)
    <3>1. i \in 1 .. k - 1 /\ b + 1 \in b + 1 .. lb
      BY <1>1, <1>2, <2>1
    <3> QED
      BY <1>2, <3>1
  <2> DEFINE t == Append(s, e)
  <2>3. /\ t \in Seq(R) /\ Len(t) = Len(s) + 1
        /\ \A i \in 1 .. Len(s) : t[i] = s[i]
        /\ t[Len(s) + 1] = e
        /\ Members(t) = Members(s) \cup {e} /\ Sorted(t)
    <3> HIDE DEF e
    <3> QED
      BY <1>2, <2>1, <2>2, AppendSorted
  <2>4. new.pts = t /\ new.apos = a
    BY <1>4, <1>6
  <2> HIDE DEF t
  <2>5. Members(t) = {ps[i] : i \in 1 .. a} \cup {qs[i] : i \in 1 .. b + 1}
    <3>1. \A i : i \in 1 .. b + 1 <=> i \in 1 .. b \/ i = b + 1
      BY <1>2
    <3>2. {qs[i] : i \in 1 .. b + 1} = {qs[i] : i \in 1 .. b} \cup {e}
      BY <3>1
    <3> QED
      BY <1>2, <2>3, <3>2
  <2>6. \A j \in b + 2 .. lb : e.theta <= qs[j].theta
    BY <1>1, <1>2, <1>3, <2>1
  <2>7. \A j \in a + 1 .. la : e.theta <= ps[j].theta
    <3> TAKE j \in a + 1 .. la
    <3>1. a < la /\ a + 1 \in 1 .. la /\ j \in 1 .. la
      BY <1>1, <1>2
    <3>2. ~(ps[a + 1].theta < e.theta)
      BY <2>0, <3>1
    <3>3. j = a + 1 \/ ps[a + 1].theta <= ps[j].theta
      BY <1>1, <1>2, <1>3, <3>1
    <3>4. ps[a + 1].theta \in Int /\ ps[j].theta \in Int
      BY <1>1, <3>1
    <3> HIDE DEF e
    <3> QED
      BY <2>1, <3>2, <3>3, <3>4
  <2>8. \A i \in 1 .. k : /\ \A j \in a + 1 .. la : t[i].theta <= ps[j].theta
                          /\ \A j \in b + 2 .. lb : t[i].theta <= qs[j].theta
    <3> TAKE i \in 1 .. k
    <3>1. CASE i = k
      <4>1. t[i] = e
        BY <1>2, <2>3, <3>1
      <4> QED
        BY <2>6, <2>7, <4>1
    <3>2. CASE i # k
      <4>1. i \in 1 .. k - 1 /\ t[i] = s[i]
        BY <1>2, <2>3, <3>2
      <4>2. \A j \in b + 2 .. lb : j \in b + 1 .. lb
        BY <1>2
      <4> QED
        BY <1>2, <4>1, <4>2
    <3> QED
      BY <3>1, <3>2
  <2>9. k - a = b + 1 /\ (b + 1) + 1 = b + 2 /\ a <= k /\ b + 1 <= lb /\ Len(t) = k
    BY <1>1, <1>2, <2>1, <2>3
  <2> HIDE DEF e, first
  <2>10. Taken(ps, qs, R, k, new)
    BY <1>2, <2>3, <2>4, <2>5, <2>8, <2>9 DEF Taken, la, lb
  <2> QED
    BY <2>10 DEF new
<1> QED
  BY <1>5, <1>6

\* Two sorted parts merge.
LEMMA MergedOK ==
    ASSUME NEW R, Angled(R), NEW ps \in Seq(R), NEW qs \in Seq(R), Sorted(ps), Sorted(qs)
    PROVE  SortOf(Segs!Merged(ps, qs), Members(ps) \cup Members(qs), R)
<1> DEFINE n == Len(ps) + Len(qs)
           T == [pts : Seq(R), apos : Nat]
           I == {p \in (0 .. n) \X T : Taken(ps, qs, R, p[1], p[2])}
           base == [pts |-> <<>>, apos |-> 0]
           next == [p \in (0 .. n) \X T |-> Take(ps, qs, p[1], p[2])]
           Is(f) == f = [k \in 0 .. Len(ps) + Len(qs) |->
               IF k = 0 THEN [pts |-> <<>>, apos |-> 0]
               ELSE LET was == f[k - 1]
                        apos == was.apos
                        bpos == k - 1 - apos
                    IN IF /\ apos < Len(ps)
                          /\ bpos < Len(qs) => ps[apos + 1].theta < qs[bpos + 1].theta
                       THEN [pts |-> Append(was.pts, ps[apos + 1]), apos |-> apos + 1]
                       ELSE [pts |-> Append(was.pts, qs[bpos + 1]), apos |-> apos]]
<1>1. n \in Nat
  OBVIOUS
<1>2. Taken(ps, qs, R, 0, base) /\ base \in T
  <2>1. base.pts = <<>> /\ base.apos = 0 /\ base \in T /\ <<>> \in Seq(R) /\ Len(<<>>) = 0
    OBVIOUS
  <2>2. Members(<<>>) = {} /\ Sorted(<<>>)
    BY DEF Members, Sorted
  <2>3. {ps[i] : i \in 1 .. 0} \cup {qs[i] : i \in 1 .. 0 - 0} = {}
    OBVIOUS
  <2>4. 0 - 0 = 0 /\ 0 <= Len(ps) /\ 0 <= Len(qs)
    OBVIOUS
  <2> HIDE DEF base
  <2> QED
    BY <2>1, <2>2, <2>3, <2>4 DEF Taken
<1>3. \A k \in 1 .. n : \A v \in T : 
          Taken(ps, qs, R, k - 1, v) => /\ Taken(ps, qs, R, k, Take(ps, qs, k, v))
                                        /\ Take(ps, qs, k, v) \in T
  <2> TAKE k \in 1 .. n
  <2> TAKE v \in T
  <2> HAVE Taken(ps, qs, R, k - 1, v)
  <2>1. Taken(ps, qs, R, k, Take(ps, qs, k, v))
    BY TakeOK
  <2>2. /\ Take(ps, qs, k, v).pts \in Seq(R) /\ Take(ps, qs, k, v).apos \in Nat
    BY <2>1 DEF Taken
  <2>3. PICK x, y : Take(ps, qs, k, v) = [pts |-> x, apos |-> y]
    BY Zenon DEF Take
  <2>4. x \in Seq(R) /\ y \in Nat
    BY <2>2, <2>3
  <2> QED
    BY <2>1, <2>3, <2>4
<1>4. Keeps(n, I, base, next)
  <2>1. <<0, base>> \in I
    <3> HIDE DEF T, base
    <3> QED
      BY <1>1, <1>2
  <2>2. ASSUME NEW k \in 1 .. n, NEW v, <<k - 1, v>> \in I
        PROVE  <<k, next[<<k, v>>]>> \in I
    <3>1. v \in T /\ Taken(ps, qs, R, k - 1, v) /\ k \in 0 .. n
      BY <2>2, <1>1
    <3>2. next[<<k, v>>] = Take(ps, qs, k, v)
      <4> HIDE DEF T, n
      <4> QED
        BY <3>1
    <3>3. Take(ps, qs, k, v) \in T /\ Taken(ps, qs, R, k, Take(ps, qs, k, v))
      BY <1>3, <3>1
    <3> HIDE DEF T, n, next
    <3> QED
      BY <3>1, <3>2, <3>3
  <2> HIDE DEF I, n, next, base
  <2> QED
    BY <2>1, <2>2 DEF Keeps
<1>5. PICK f : Unfolds(f, n, base, next) /\ \A k \in 0 .. n : <<k, f[k]>> \in I
  <2> HIDE DEF I, n, next, base
  <2> QED
    BY <1>1, <1>4, KeptRecursion
<1>6. Is(f)
  <2>1. f = [k \in 0 .. n |-> IF k = 0 THEN base ELSE next[<<k, f[k - 1]>>]]
    BY <1>5 DEF Unfolds
  <2>2. \A k \in 0 .. n : k # 0 => next[<<k, f[k - 1]>>] = Take(ps, qs, k, f[k - 1])
    <3> TAKE k \in 0 .. n
    <3> HAVE k # 0
    <3>1. k - 1 \in 0 .. n
      BY <1>1
    <3>2. f[k - 1] \in T
      BY <1>5, <3>1
    <3> HIDE DEF T, n
    <3> QED
      BY <3>2
  <2>3. \A k \in 0 .. n : (IF k = 0 THEN base ELSE next[<<k, f[k - 1]>>]) =
                             IF k = 0 THEN base ELSE Take(ps, qs, k, f[k - 1])
    <3> HIDE DEF next, n, base
    <3> QED
      BY <2>2
  <2>4. f = [k \in 0 .. n |-> IF k = 0 THEN base ELSE Take(ps, qs, k, f[k - 1])]
    <3> HIDE DEF next, base
    <3> QED
      BY <2>1, <2>3, Zenon
  <2> QED
    BY <2>4, Zenon DEF Take
<1> DEFINE g == CHOOSE h : Is(h)
<1>7. Is(g)
  <2> HIDE DEF Is
  <2> QED
    BY <1>6
<1>8. Segs!Merged(ps, qs) = g[n].pts
  BY DEF Segs!Merged
<1> DEFINE u == g
<1>9. Is(u) /\ Segs!Merged(ps, qs) = u[n].pts
  BY <1>7, <1>8
<1> HIDE DEF u, g
<1>10. \A k \in 0 .. n : u[k] = IF k = 0 THEN base ELSE Take(ps, qs, k, u[k - 1])
  BY <1>9, Zenon DEF Take
<1> HIDE DEF n, Is, base, T, I, next
<1> DEFINE S == {k \in 0 .. n : u[k] \in T /\ Taken(ps, qs, R, k, u[k])}
<1>11. 0 \in S
  BY <1>1, <1>2, <1>10
<1>12. ASSUME NEW k \in 0 .. n - 1, k \in S PROVE k + 1 \in S
  <2>1. k + 1 \in 1 .. n /\ (k + 1) - 1 = k /\ k + 1 \in 0 .. n /\ k + 1 # 0
    BY <1>1
  <2>2. u[k + 1] = Take(ps, qs, k + 1, u[k])
    BY <1>10, <2>1
  <2>3. /\ Taken(ps, qs, R, k + 1, Take(ps, qs, k + 1, u[k]))
        /\ Take(ps, qs, k + 1, u[k]) \in T
    BY <1>3, <1>12, <2>1
  <2> QED
    BY <2>1, <2>2, <2>3
<1>13. n \in S
  <2>1. n \in 0 .. n
    BY <1>1
  <2> HIDE DEF S
  <2> QED
    BY <1>1, <1>11, <1>12, <2>1, UpTo
<1>14. Taken(ps, qs, R, n, u[n])
  BY <1>13
<1> DEFINE a == u[n].apos
<1>15. /\ u[n].pts \in Seq(R) /\ Sorted(u[n].pts) /\ a \in Nat
       /\ a <= Len(ps) /\ n - a <= Len(qs)
       /\ Members(u[n].pts) = {ps[i] : i \in 1 .. a} \cup {qs[i] : i \in 1 .. n - a}
  BY <1>14 DEF Taken
<1>16. a = Len(ps) /\ n - a = Len(qs)
  <2>1. Len(ps) \in Nat /\ Len(qs) \in Nat
    OBVIOUS
  <2> HIDE DEF a
  <2> QED
    BY <1>15, <2>1 DEF n
<1>17. Members(u[n].pts) = Members(ps) \cup Members(qs)
  <2>1. DOMAIN ps = 1 .. Len(ps) /\ DOMAIN qs = 1 .. Len(qs)
    OBVIOUS
  <2>2. /\ Members(ps) = {ps[i] : i \in 1 .. Len(ps)}
        /\ Members(qs) = {qs[i] : i \in 1 .. Len(qs)}
    BY <2>1 DEF Members
  <2> HIDE DEF a
  <2> QED
    BY <1>15, <1>16, <2>2
<1> QED
  BY <1>9, <1>15, <1>17 DEF SortOf

\* The parts of a sequence that ptsort sorts, the parts they are merged from, and the
\* points of each.
PartsOf(all) == {r \in (0 .. all) \X (0 .. all) : r[1] + r[2] <= all}
LeftOf(r) == <<r[1], r[2] \div 2>>
RightOf(r) == <<r[1] + (r[2] \div 2), r[2] - (r[2] \div 2)>>
PointsOf(pts, r) == {pts[i] : i \in r[1] + 1 .. r[1] + r[2]}

\* A part has its own points.
LEMMA PartOK ==
    ASSUME NEW R, NEW pts \in Seq(R), NEW r \in PartsOf(Len(pts))
    PROVE  LET here == SubSeq(pts, r[1] + 1, r[1] + r[2]) IN
           here \in Seq(R) /\ Len(here) = r[2] /\ Members(here) = PointsOf(pts, r)
<1> DEFINE m == r[1]
           n == r[2]
           here == SubSeq(pts, m + 1, m + n)
<1>1. /\ m \in Nat /\ n \in Nat /\ m + n <= Len(pts) /\ Len(pts) \in Nat
      /\ \A i \in 1 .. Len(pts) : pts[i] \in R
  BY DEF PartsOf
<1> HIDE DEF m, n
<1>2. here = [i \in 1 .. n |-> pts[i + m]]
  BY <1>1
<1>3. \A i \in 1 .. n : pts[i + m] \in R
  BY <1>1
<1>4. here \in Seq(R) /\ Len(here) = n /\ DOMAIN here = 1 .. n
  BY <1>1, <1>2, <1>3
<1>5. Members(here) = {pts[i] : i \in m + 1 .. m + n}
  <2>1. \A i \in 1 .. n : here[i] = pts[i + m] /\ i + m \in m + 1 .. m + n
    BY <1>1, <1>2
  <2>2. \A i \in m + 1 .. m + n : i - m \in 1 .. n /\ here[i - m] = pts[i]
    BY <1>1, <1>2
  <2> HIDE DEF here
  <2> QED
    BY <1>4, <2>1, <2>2 DEF Members
<1> QED
  BY <1>4, <1>5 DEF m, n, PointsOf

\* The halves of a part are smaller parts, with all its points.
LEMMA HalvesOK ==
    ASSUME NEW all \in Nat, NEW r \in PartsOf(all), r[2] > 5
    PROVE  /\ LeftOf(r) \in PartsOf(all) /\ LeftOf(r)[2] < r[2]
           /\ RightOf(r) \in PartsOf(all) /\ RightOf(r)[2] < r[2]
           /\ \A pts : PointsOf(pts, LeftOf(r)) \cup PointsOf(pts, RightOf(r)) = PointsOf(pts, r)
<1> DEFINE m == r[1]
           n == r[2]
           h == r[2] \div 2
<1>1. m \in Nat /\ n \in Nat /\ m + n <= all /\ h \in Nat /\ 0 < h /\ h < n
  BY DEF PartsOf
<1>2. LeftOf(r) = <<m, h>> /\ RightOf(r) = <<m + h, n - h>>
  BY DEF LeftOf, RightOf
<1> HIDE DEF m, n, h
<1>3. /\ LeftOf(r) \in PartsOf(all) /\ LeftOf(r)[2] < n
      /\ RightOf(r) \in PartsOf(all) /\ RightOf(r)[2] < n
  BY <1>1, <1>2 DEF PartsOf
<1>4. \A i : i \in m + 1 .. m + n <=>
                 i \in m + 1 .. m + h \/ i \in (m + h) + 1 .. (m + h) + (n - h)
  BY <1>1
<1>5. ASSUME NEW pts
      PROVE  PointsOf(pts, LeftOf(r)) \cup PointsOf(pts, RightOf(r)) = PointsOf(pts, r)
  <2>1. /\ PointsOf(pts, LeftOf(r)) = {pts[i] : i \in m + 1 .. m + h}
        /\ PointsOf(pts, RightOf(r)) = {pts[i] : i \in (m + h) + 1 .. (m + h) + (n - h)}
        /\ PointsOf(pts, r) = {pts[i] : i \in m + 1 .. m + n}
    BY <1>2 DEF PointsOf, m, n
  <2> QED
    BY <1>4, <2>1
<1> QED
  BY <1>3, <1>5 DEF n

\* ptsort sorts the points and loses none.
LEMMA PtSortOK ==
    ASSUME NEW R, Angled(R), NEW pts \in Seq(R)
    PROVE  SortOf(Segs!PtSort(pts), Members(pts), R)
<1> DEFINE all == Len(pts)
           P == PartsOf(all)
           leaf == {r \in P : r[2] <= 5}
           here(r) == SubSeq(pts, r[1] + 1, r[1] + r[2])
           base == [r \in P |-> IF r[2] <= 1 THEN here(r) ELSE Segs!Networked(here(r))]
           left == [r \in P |-> LeftOf(r)]
           right == [r \in P |-> RightOf(r)]
           rank == [r \in P |-> r[2]]
           T == Seq(R)
           next == [p \in T \X T |-> Segs!Merged(p[1], p[2])]
           I == {p \in P \X T : SortOf(p[2], PointsOf(pts, p[1]), R)}
           Is(f) == f = [r \in {q \in (0 .. all) \X (0 .. all) : q[1] + q[2] <= all} |->
               LET asz == r[2] \div 2
                   h == SubSeq(pts, r[1] + 1, r[1] + r[2])
               IN IF r[2] <= 1 THEN h
                  ELSE IF r[2] <= 5 THEN Segs!Networked(h)
                  ELSE Segs!Merged(f[<<r[1], asz>>], f[<<r[1] + asz, r[2] - asz>>])]
<1>1. all \in Nat /\ \A r \in P : r[2] \in 0 .. all
  BY DEF PartsOf
<1>2. \A r \in P : r \notin leaf => r[2] > 5
  BY <1>1
<1>3. Branches(P, leaf, left, right, rank, all)
  <2>1. \A r \in P : left[r] = LeftOf(r) /\ right[r] = RightOf(r) /\ rank[r] = r[2]
    OBVIOUS
  <2>2. \A r \in P : r \notin leaf =>
            /\ LeftOf(r) \in P /\ LeftOf(r)[2] < r[2]
            /\ RightOf(r) \in P /\ RightOf(r)[2] < r[2]
    BY <1>1, <1>2, HalvesOK
  <2> HIDE DEF P, leaf, left, right, rank
  <2>3. \A r \in P : r \notin leaf => rank[LeftOf(r)] = LeftOf(r)[2] /\ rank[RightOf(r)] = RightOf(r)[2]
    BY <2>1, <2>2
  <2> QED
    BY <1>1, <2>1, <2>2, <2>3 DEF Branches
<1>4. ASSUME NEW r \in P, r \in leaf
      PROVE  base[r] \in T /\ SortOf(base[r], PointsOf(pts, r), R)
  <2>1. here(r) \in Seq(R) /\ Len(here(r)) = r[2] /\ Members(here(r)) = PointsOf(pts, r)
    BY PartOK
  <2>2. r[2] \in Nat /\ r[2] <= 5
    BY <1>1, <1>4
  <2>3. CASE r[2] <= 1
    <3>1. base[r] = here(r)
      BY <2>3
    <3> HIDE DEF base, here, P
    <3>2. Sorted(here(r))
      BY <2>1, <2>2, <2>3 DEF Sorted
    <3> QED
      BY <2>1, <3>1, <3>2 DEF SortOf
  <2>4. CASE ~(r[2] <= 1)
    <3>1. base[r] = Segs!Networked(here(r))
      BY <2>4
    <3> HIDE DEF base, here, P
    <3>2. Len(here(r)) \in 2 .. 5
      BY <2>1, <2>2, <2>4
    <3>3. SortOf(Segs!Networked(here(r)), Members(here(r)), R)
      BY <2>1, <3>2, NetworkedOK
    <3> QED
      BY <2>1, <3>1, <3>3 DEF SortOf
  <2> QED
    BY <2>3, <2>4
<1>5. \A v, w \in T : next[<<v, w>>] = Segs!Merged(v, w)
  <2> HIDE DEF T
  <2> QED
    OBVIOUS
<1>6. Grows(P, leaf, left, right, I, base, next)
  <2>1. ASSUME NEW r \in P, r \in leaf PROVE <<r, base[r]>> \in I
    <3> HIDE DEF P, leaf, base
    <3> QED
      BY <1>4, <2>1
  <2>2. ASSUME NEW r \in P, r \notin leaf, NEW v, NEW w,
               <<left[r], v>> \in I, <<right[r], w>> \in I
        PROVE  <<r, next[<<v, w>>]>> \in I
    <3>1. left[r] = LeftOf(r) /\ right[r] = RightOf(r) /\ r[2] > 5
      BY <1>2, <2>2
    <3>2. /\ v \in T /\ SortOf(v, PointsOf(pts, LeftOf(r)), R)
          /\ w \in T /\ SortOf(w, PointsOf(pts, RightOf(r)), R)
      <4> HIDE DEF P, left, right
      <4> QED
        BY <2>2, <3>1
    <3>3. SortOf(Segs!Merged(v, w), Members(v) \cup Members(w), R)
      BY <3>2, MergedOK DEF SortOf
    <3>4. Members(v) \cup Members(w) = PointsOf(pts, r)
      BY <1>1, <3>1, <3>2, HalvesOK DEF SortOf
    <3>5. next[<<v, w>>] = Segs!Merged(v, w) /\ Segs!Merged(v, w) \in T
      BY <1>5, <3>2, <3>3 DEF SortOf
    <3> HIDE DEF P, next
    <3> QED
      BY <3>3, <3>4, <3>5
  <2> HIDE DEF P, leaf, left, right, I, base, next
  <2> QED
    BY <2>1, <2>2 DEF Grows
<1>7. PICK f : /\ Branched(f, P, leaf, left, right, base, next)
               /\ \A r \in P : <<r, f[r]>> \in I
  <2> HIDE DEF P, leaf, left, right, rank, I, base, next
  <2> QED
    BY <1>1, <1>3, <1>6, TreeRecursion
<1>8. Is(f)
  <2> DEFINE Node(r) == IF r[2] <= 1 THEN here(r)
                      ELSE IF r[2] <= 5 THEN Segs!Networked(here(r))
                      ELSE Segs!Merged(f[LeftOf(r)], f[RightOf(r)])
  <2>1. f = [r \in P |-> IF r \in leaf THEN base[r] ELSE next[<<f[left[r]], f[right[r]]>>]]
    BY <1>7, Zenon DEF Branched
  <2>2. ASSUME NEW r \in P
        PROVE  (IF r \in leaf THEN base[r] ELSE next[<<f[left[r]], f[right[r]]>>]) = Node(r)
    <3>1. CASE r \in leaf
      <4>1. base[r] = IF r[2] <= 1 THEN here(r) ELSE Segs!Networked(here(r))
        OBVIOUS
      <4>2. r[2] <= 5
        BY <3>1
      <4> HIDE DEF base, leaf, P, here
      <4> QED
        BY <3>1, <4>1, <4>2
    <3>2. CASE r \notin leaf
      <4>1. left[r] = LeftOf(r) /\ right[r] = RightOf(r) /\ r[2] > 5
        BY <1>2, <3>2
      <4>2. LeftOf(r) \in P /\ RightOf(r) \in P
        BY <1>1, <4>1, HalvesOK
      <4>3. f[LeftOf(r)] \in T /\ f[RightOf(r)] \in T
        <5> HIDE DEF P
        <5> QED
          BY <1>7, <4>2
      <4>4. next[<<f[LeftOf(r)], f[RightOf(r)]>>] = Segs!Merged(f[LeftOf(r)], f[RightOf(r)])
        BY <1>5, <4>3
      <4>5. r[2] \in Nat /\ ~(r[2] <= 5) /\ ~(r[2] <= 1)
        BY <1>1, <4>1
      <4> HIDE DEF P, leaf, left, right, base, next, here
      <4> QED
        BY <3>2, <4>1, <4>4, <4>5
    <3> QED
      BY <3>1, <3>2
  <2>3. f = [r \in P |-> Node(r)]
    <3> HIDE DEF P, leaf, left, right, base, next, Node
    <3> QED
      BY <2>1, <2>2, Zenon
  <2> QED
    BY <2>3, Zenon DEF PartsOf, LeftOf, RightOf
<1> DEFINE g == CHOOSE h : Is(h)
<1>9. Is(g)
  <2> HIDE DEF Is
  <2> QED
    BY <1>8
<1>10. Segs!PtSort(pts) = g[<<0, all>>]
  BY DEF Segs!PtSort
<1> DEFINE u == g
<1>11. Is(u) /\ Segs!PtSort(pts) = u[<<0, all>>]
  BY <1>9, <1>10
<1> HIDE DEF u, g
<1>12. u = [r \in P |-> IF r[2] <= 1 THEN here(r)
                       ELSE IF r[2] <= 5 THEN Segs!Networked(here(r))
                       ELSE Segs!Merged(u[LeftOf(r)], u[RightOf(r)])]
  BY <1>11, Zenon DEF PartsOf, LeftOf, RightOf
<1>13. \A r \in P : u[r] = IF r[2] <= 1 THEN here(r)
                           ELSE IF r[2] <= 5 THEN Segs!Networked(here(r))
                           ELSE Segs!Merged(u[LeftOf(r)], u[RightOf(r)])
  <2> HIDE DEF here, P
  <2> QED
    BY <1>12, Zenon
<1> DEFINE S == {k \in 0 .. all : \A r \in P : r[2] <= k => SortOf(u[r], PointsOf(pts, r), R)}
<1>14. ASSUME NEW r \in P, r \in leaf PROVE SortOf(u[r], PointsOf(pts, r), R)
  <2>1. u[r] = base[r]
    <3>1. base[r] = IF r[2] <= 1 THEN here(r) ELSE Segs!Networked(here(r))
      OBVIOUS
    <3>2. r[2] <= 5
      BY <1>14
    <3> HIDE DEF base, leaf, P, here
    <3> QED
      BY <1>13, <3>1, <3>2
  <2> HIDE DEF base, leaf, P
  <2> QED
    BY <1>4, <1>14, <2>1
<1>15. 0 \in S
  <2>1. \A r \in P : r[2] <= 0 => r \in leaf
    BY <1>1
  <2> HIDE DEF leaf, P
  <2> QED
    BY <1>1, <1>14, <2>1
<1>16. ASSUME NEW k \in 0 .. all - 1, k \in S PROVE k + 1 \in S
  <2>1. ASSUME NEW r \in P, r[2] <= k + 1, r \notin leaf
        PROVE  SortOf(u[r], PointsOf(pts, r), R)
    <3>1. r[2] > 5 /\ r[2] \in Nat
      BY <1>1, <1>2, <2>1
    <3>2. /\ LeftOf(r) \in P /\ LeftOf(r)[2] < r[2]
          /\ RightOf(r) \in P /\ RightOf(r)[2] < r[2]
          /\ PointsOf(pts, LeftOf(r)) \cup PointsOf(pts, RightOf(r)) = PointsOf(pts, r)
      BY <1>1, <3>1, HalvesOK
    <3>3. LeftOf(r)[2] \in Nat /\ RightOf(r)[2] \in Nat
      BY <1>1, <3>2
    <3>4. LeftOf(r)[2] <= k /\ RightOf(r)[2] <= k
      BY <2>1, <3>1, <3>2, <3>3
    <3>5. /\ SortOf(u[LeftOf(r)], PointsOf(pts, LeftOf(r)), R)
          /\ SortOf(u[RightOf(r)], PointsOf(pts, RightOf(r)), R)
      BY <1>16, <3>2, <3>4
    <3>6. u[r] = Segs!Merged(u[LeftOf(r)], u[RightOf(r)])
      <4>1. ~(r[2] <= 1) /\ ~(r[2] <= 5)
        BY <3>1
      <4> HIDE DEF P, here
      <4> QED
        BY <1>13, <4>1
    <3> DEFINE v == u[LeftOf(r)]
               w == u[RightOf(r)]
    <3>7. /\ v \in Seq(R) /\ Sorted(v) /\ Members(v) = PointsOf(pts, LeftOf(r))
          /\ w \in Seq(R) /\ Sorted(w) /\ Members(w) = PointsOf(pts, RightOf(r))
      BY <3>5 DEF SortOf
    <3>8. u[r] = Segs!Merged(v, w)
      BY <3>6
    <3> HIDE DEF P, v, w
    <3>9. SortOf(Segs!Merged(v, w), Members(v) \cup Members(w), R)
      BY <3>7, MergedOK
    <3> QED
      BY <3>2, <3>7, <3>8, <3>9
  <2>2. k + 1 \in 0 .. all
    BY <1>1
  <2> HIDE DEF leaf, P
  <2> QED
    BY <1>14, <2>1, <2>2
<1>17. all \in S
  <2>1. all \in 0 .. all
    BY <1>1
  <2> HIDE DEF S
  <2> QED
    BY <1>1, <1>15, <1>16, <2>1, UpTo
<1> DEFINE whole == <<0, all>>
<1>18. whole \in P /\ whole[2] <= all
  BY <1>1 DEF PartsOf
<1>19. PointsOf(pts, whole) = Members(pts)
  <2>1. whole[1] + 1 = 1 /\ whole[1] + whole[2] = all /\ DOMAIN pts = 1 .. all
    BY <1>1
  <2> HIDE DEF whole, all
  <2> QED
    BY <2>1 DEF PointsOf, Members
<1> HIDE DEF P
<1> QED
  BY <1>11, <1>17, <1>18, <1>19

-----------------------------------------------------------------------------
(* What fit_quad makes of the points of a cluster *)

\* Where a point lies.
Place(e) == <<e.x, e.y>>
PlacesOf(S) == {Place(e) : e \in S}

\* A point at the place of the one before it, and what is kept when it is met.
Repeats(c, i) == i > 1 /\ c[i].x = c[i - 1].x /\ c[i].y = c[i - 1].y
Keep(c, i, v) == IF Repeats(c, i) THEN v ELSE Append(v, c[i])

\* What is kept of the first i points: each place, and none twice in a row.
KeptTo(c, R, i, v) ==
    /\ v \in Seq(R) /\ Sorted(v)
    /\ \A e \in Members(v) : \E j \in 1 .. i : e = c[j]
    /\ PlacesOf(Members(v)) = {Place(c[j]) : j \in 1 .. i}
    /\ i > 0 => Len(v) > 0 /\ Place(v[Len(v)]) = Place(c[i])
    /\ \A j \in 1 .. Len(v) - 1 : Place(v[j]) # Place(v[j + 1])

\* Each next point keeps that so.
LEMMA KeepOK ==
    ASSUME NEW R, Angled(R), NEW c \in Seq(R), Sorted(c), NEW i \in 1 .. Len(c), NEW v,
           KeptTo(c, R, i - 1, v)
    PROVE  KeptTo(c, R, i, Keep(c, i, v))
<1> DEFINE n == Len(c)
<1>1. /\ n \in Nat /\ DOMAIN c = 1 .. n /\ i \in 1 .. n
      /\ \A j \in 1 .. n : c[j] \in R /\ c[j].theta \in Int
  BY DEF Angled
<1>2. /\ v \in Seq(R) /\ Sorted(v) /\ Len(v) \in Nat
      /\ \A e \in Members(v) : \E j \in 1 .. i - 1 : e = c[j]
      /\ PlacesOf(Members(v)) = {Place(c[j]) : j \in 1 .. i - 1}
      /\ i - 1 > 0 => Len(v) > 0 /\ Place(v[Len(v)]) = Place(c[i - 1])
      /\ \A j \in 1 .. Len(v) - 1 : Place(v[j]) # Place(v[j + 1])
  BY DEF KeptTo
<1>3. {Place(c[j]) : j \in 1 .. i} = {Place(c[j]) : j \in 1 .. i - 1} \cup {Place(c[i])}
  <2>1. \A j : j \in 1 .. i <=> j \in 1 .. i - 1 \/ j = i
    OBVIOUS
  <2> QED
    BY <2>1
<1> HIDE DEF n
<1>4. CASE Repeats(c, i)
  <2>1. i > 1 /\ Place(c[i]) = Place(c[i - 1]) /\ i - 1 \in 1 .. i - 1 /\ i - 1 > 0
    BY <1>1, <1>4 DEF Repeats, Place
  <2>2. Keep(c, i, v) = v
    BY <1>4 DEF Keep
  <2>3. {Place(c[j]) : j \in 1 .. i} = {Place(c[j]) : j \in 1 .. i - 1}
    BY <1>3, <2>1
  <2>4. \A e \in Members(v) : \E j \in 1 .. i : e = c[j]
    <3>1. \A j : j \in 1 .. i - 1 => j \in 1 .. i
      BY <1>1
    <3> QED
      BY <1>2, <3>1
  <2>5. KeptTo(c, R, i, v)
    BY <1>2, <2>1, <2>3, <2>4 DEF KeptTo
  <2> QED
    BY <2>2, <2>5
<1>5. CASE ~Repeats(c, i)
  <2> DEFINE t == Append(v, c[i])
             m == Len(v)
  <2>1. c[i] \in R /\ \A j \in 1 .. m : v[j].theta <= c[i].theta
    <3>1. ASSUME NEW j \in 1 .. m PROVE v[j].theta <= c[i].theta
      <4>1. v[j] \in Members(v)
        BY <1>2 DEF Members
      <4>2. PICK l \in 1 .. i - 1 : v[j] = c[l]
        BY <1>2, <4>1
      <4>3. l \in 1 .. n /\ l < i
        BY <1>1
      <4> QED
        BY <1>1, <4>2, <4>3 DEF Sorted
    <3> QED
      BY <1>1, <3>1
  <2>2. /\ t \in Seq(R) /\ Len(t) = m + 1 /\ \A j \in 1 .. m : t[j] = v[j]
        /\ t[m + 1] = c[i] /\ Members(t) = Members(v) \cup {c[i]} /\ Sorted(t)
    BY <1>2, <2>1, AppendSorted
  <2>3. Keep(c, i, v) = t
    BY <1>5 DEF Keep
  <2>4. m \in Nat
    BY <1>2
  <2> HIDE DEF t, m
  <2>5. \A e \in Members(t) : \E j \in 1 .. i : e = c[j]
    <3>1. \A j : j \in 1 .. i - 1 => j \in 1 .. i
      BY <1>1
    <3>2. i \in 1 .. i
      BY <1>1
    <3> QED
      BY <1>2, <2>2, <3>1, <3>2
  <2>6. PlacesOf(Members(t)) = {Place(c[j]) : j \in 1 .. i}
    <3>1. PlacesOf(Members(t)) = PlacesOf(Members(v)) \cup {Place(c[i])}
      BY <2>2 DEF PlacesOf
    <3> QED
      BY <1>2, <1>3, <3>1
  <2>7. Len(t) > 0 /\ Place(t[Len(t)]) = Place(c[i])
    BY <2>2, <2>4
  <2>8. ASSUME NEW j \in 1 .. Len(t) - 1 PROVE Place(t[j]) # Place(t[j + 1])
    <3>1. j \in 1 .. m
      BY <2>2, <2>4
    <3>2. CASE j = m
      <4>1. i - 1 > 0
        <5>1. SUFFICES ASSUME ~(i - 1 > 0) PROVE FALSE
          OBVIOUS
        <5>2. v[m] \in Members(v)
          BY <1>2, <3>1, <3>2 DEF Members, m
        <5>3. 1 .. i - 1 = {}
          BY <1>1, <5>1
        <5> QED
          BY <1>2, <5>2, <5>3
      <4>2. Place(v[m]) = Place(c[i - 1])
        BY <1>2, <4>1 DEF m
      <4>3. Place(c[i]) # Place(c[i - 1])
        <5>1. i > 1
          BY <1>1, <4>1
        <5> QED
          BY <1>5, <5>1 DEF Repeats, Place
      <4> QED
        BY <2>2, <3>1, <3>2, <4>2, <4>3
    <3>3. CASE j # m
      <4>1. j \in 1 .. m - 1 /\ j + 1 \in 1 .. m
        BY <2>4, <3>1, <3>3
      <4>2. Place(v[j]) # Place(v[j + 1])
        BY <1>2, <4>1 DEF m
      <4> QED
        BY <2>2, <3>1, <4>1, <4>2
    <3> QED
      BY <3>2, <3>3
  <2>9. KeptTo(c, R, i, t)
    BY <2>2, <2>5, <2>6, <2>7, <2>8 DEF KeptTo
  <2> QED
    BY <2>3, <2>9
<1> QED
  BY <1>4, <1>5

\* Removing duplicates keeps a point of each place, in order.
LEMMA DedupedOK ==
    ASSUME NEW R, Angled(R), NEW c \in Seq(R), Sorted(c)
    PROVE  KeptTo(c, R, Len(c), Segs!Deduped(c))
<1> DEFINE n == Len(c)
           T == Seq(R)
           I == (0 .. n) \X T
           next == [p \in (0 .. n) \X T |-> Keep(c, p[1], p[2])]
           Is(f) == f = [i \in 0 .. Len(c) |->
               IF i = 0 THEN <<>>
               ELSE IF i > 1 /\ c[i].x = c[i - 1].x /\ c[i].y = c[i - 1].y
                    THEN f[i - 1] ELSE Append(f[i - 1], c[i])]
<1>1. n \in Nat /\ \A i \in 1 .. n : c[i] \in R
  OBVIOUS
<1>2. \A i \in 1 .. n : \A v \in T : Keep(c, i, v) \in T
  <2> TAKE i \in 1 .. n
  <2> TAKE v \in T
  <2>1. c[i] \in R
    BY <1>1
  <2> QED
    BY <2>1 DEF Keep
<1>3. \A k \in 1 .. n : k \in 0 .. n
  BY <1>1
<1>4. Keeps(n, I, <<>>, next)
  <2>1. <<0, <<>>>> \in I
    <3>1. <<>> \in T /\ 0 \in 0 .. n
      BY <1>1
    <3> HIDE DEF T, n
    <3> QED
      BY <3>1
  <2>2. ASSUME NEW k \in 1 .. n, NEW v, <<k - 1, v>> \in I
        PROVE  <<k, next[<<k, v>>]>> \in I
    <3> HIDE DEF T, n
    <3>1. v \in T /\ k \in 0 .. n
      BY <2>2, <1>3
    <3>2. next[<<k, v>>] = Keep(c, k, v)
      BY <3>1
    <3> HIDE DEF next
    <3> QED
      BY <1>2, <3>1, <3>2
  <2> HIDE DEF I, n, next
  <2> QED
    BY <2>1, <2>2 DEF Keeps
<1>5. PICK f : Unfolds(f, n, <<>>, next) /\ \A k \in 0 .. n : <<k, f[k]>> \in I
  <2> HIDE DEF I, n, next
  <2> QED
    BY <1>1, <1>4, KeptRecursion
<1>6. Is(f)
  <2>1. f = [k \in 0 .. n |-> IF k = 0 THEN <<>> ELSE next[<<k, f[k - 1]>>]]
    BY <1>5 DEF Unfolds
  <2>2. ASSUME NEW k \in 0 .. n, k # 0 PROVE next[<<k, f[k - 1]>>] = Keep(c, k, f[k - 1])
    <3>1. k - 1 \in 0 .. n
      BY <1>1, <2>2
    <3> HIDE DEF T, n
    <3>2. f[k - 1] \in T
      BY <1>5, <3>1
    <3> QED
      BY <3>2
  <2>3. f = [k \in 0 .. n |-> IF k = 0 THEN <<>> ELSE Keep(c, k, f[k - 1])]
    <3>1. \A k \in 0 .. n : (IF k = 0 THEN <<>> ELSE next[<<k, f[k - 1]>>]) =
                                IF k = 0 THEN <<>> ELSE Keep(c, k, f[k - 1])
      <4> HIDE DEF next, n
      <4> QED
        BY <2>2
    <3> HIDE DEF next
    <3> QED
      BY <2>1, <3>1, Zenon
  <2> QED
    BY <2>3, Zenon DEF Keep, Repeats
<1> DEFINE g == CHOOSE h : Is(h)
<1>7. Is(g)
  <2> HIDE DEF Is
  <2> QED
    BY <1>6
<1>8. Segs!Deduped(c) = g[n]
  BY DEF Segs!Deduped
<1> DEFINE u == g
<1>9. Is(u) /\ Segs!Deduped(c) = u[n]
  BY <1>7, <1>8
<1> HIDE DEF u, g
<1>10. \A k \in 0 .. n : u[k] = IF k = 0 THEN <<>> ELSE Keep(c, k, u[k - 1])
  BY <1>9, Zenon DEF Keep, Repeats
<1> DEFINE S == {k \in 0 .. n : KeptTo(c, R, k, u[k])}
<1>11. 0 \in S
  <2>1. u[0] = <<>> /\ 0 \in 0 .. n
    BY <1>1, <1>10
  <2>2. /\ <<>> \in Seq(R) /\ Len(<<>>) = 0
        /\ Sorted(<<>>) /\ Members(<<>>) = {} /\ PlacesOf({}) = {}
    BY DEF Sorted, Members, PlacesOf
  <2>3. {Place(c[j]) : j \in 1 .. 0} = {}
    OBVIOUS
  <2> DEFINE z == <<>>
  <2>4. /\ z \in Seq(R) /\ Sorted(z) /\ Members(z) = {} /\ PlacesOf(Members(z)) = {}
        /\ Len(z) = 0
    BY <2>2
  <2> HIDE DEF z
  <2>6. 1 .. Len(z) - 1 = {}
    BY <2>4
  <2>7. KeptTo(c, R, 0, z)
    BY <2>3, <2>4, <2>6 DEF KeptTo
  <2> QED
    BY <2>1, <2>7 DEF z
<1>12. ASSUME NEW k \in 0 .. n - 1, k \in S PROVE k + 1 \in S
  <2>1. k + 1 \in 1 .. n /\ (k + 1) - 1 = k /\ k + 1 \in 0 .. n /\ k + 1 # 0
    BY <1>1
  <2>2. u[k + 1] = Keep(c, k + 1, u[k])
    <3> HIDE DEF n
    <3> QED
      BY <1>10, <2>1
  <2>3. KeptTo(c, R, k + 1, Keep(c, k + 1, u[k]))
    BY <1>12, <2>1, KeepOK
  <2> QED
    BY <2>1, <2>2, <2>3
<1>13. n \in S
  <2>1. n \in 0 .. n
    BY <1>1
  <2> HIDE DEF S
  <2> QED
    BY <1>1, <1>11, <1>12, <2>1, UpTo
<1> QED
  BY <1>9, <1>13

-----------------------------------------------------------------------------
(* Angles *)

\* Products, as the solver is told of them.
LEMMA TimesLess ==
    ASSUME NEW a \in Int, NEW b \in Int, NEW c \in Int, c > 0
    PROVE  a > b <=> a * c > b * c
  OBVIOUS

LEMMA TimesMore ==
    ASSUME NEW a \in Int, NEW b \in Int, NEW c \in Int, c < 0
    PROVE  a > b <=> a * c < b * c
  OBVIOUS

LEMMA TimesSwap ==
    ASSUME NEW a \in Int, NEW b \in Int, NEW c \in Int
    PROVE  (a * b) * c = (a * c) * b
  OBVIOUS

\* No direction of a point is along the axis, for the noise.
Slanted(u) == u[1] \in Int /\ u[2] \in Int /\ u[2] # 0

\* Then an angle is lower if its half is, or by the turn within its half.
LEMMA LowerIs ==
    ASSUME NEW u, NEW v, Slanted(u), Slanted(v)
    PROVE  Segs!Lower(u, v) <=>
               \/ u[2] < 0 /\ v[2] > 0
               \/ u[2] < 0 /\ v[2] < 0 /\ u[1] * v[2] > u[2] * v[1]
               \/ u[2] > 0 /\ v[2] > 0 /\ u[1] * v[2] > u[2] * v[1]
<1>1. Segs!Half(u) = (IF u[2] < 0 THEN 0 ELSE 2) /\ Segs!Half(v) = (IF v[2] < 0 THEN 0 ELSE 2)
  BY DEF Segs!Half, Slanted
<1>2. /\ u[2] < 0 <=> ~(u[2] > 0)
      /\ v[2] < 0 <=> ~(v[2] > 0)
  BY DEF Slanted
<1> DEFINE above == u[1] * v[2] > u[2] * v[1]
<1>3. Segs!Lower(u, v) <=> \/ Segs!Half(u) < Segs!Half(v)
                           \/ Segs!Half(u) = Segs!Half(v) /\ above
  BY DEF Segs!Lower
<1> HIDE DEF above
<1>4. Segs!Lower(u, v) <=>
               \/ u[2] < 0 /\ v[2] > 0
               \/ u[2] < 0 /\ v[2] < 0 /\ above
               \/ u[2] > 0 /\ v[2] > 0 /\ above
  BY <1>1, <1>2, <1>3
<1> QED
  BY <1>4 DEF above

\* Of two vectors one at most is lower, and what is not lower than one is not lower
\* than what is lower than that.
LEMMA LowerOrders ==
    ASSUME NEW u, NEW v, NEW x, Slanted(u), Slanted(v), Slanted(x)
    PROVE  /\ Segs!Lower(u, v) => ~Segs!Lower(v, u)
           /\ Segs!Lower(x, v) /\ ~Segs!Lower(u, v) => Segs!Lower(x, u)
<1> DEFINE u1 == u[1]
           u2 == u[2]
           v1 == v[1]
           v2 == v[2]
           x1 == x[1]
           x2 == x[2]
<1>1. /\ u1 \in Int /\ u2 \in Int /\ u2 # 0
      /\ v1 \in Int /\ v2 \in Int /\ v2 # 0
      /\ x1 \in Int /\ x2 \in Int /\ x2 # 0
  BY DEF Slanted
<1>2. /\ Segs!Lower(u, v) <=> \/ u2 < 0 /\ v2 > 0
                              \/ u2 < 0 /\ v2 < 0 /\ u1 * v2 > u2 * v1
                              \/ u2 > 0 /\ v2 > 0 /\ u1 * v2 > u2 * v1
      /\ Segs!Lower(v, u) <=> \/ v2 < 0 /\ u2 > 0
                              \/ v2 < 0 /\ u2 < 0 /\ v1 * u2 > v2 * u1
                              \/ v2 > 0 /\ u2 > 0 /\ v1 * u2 > v2 * u1
      /\ Segs!Lower(x, v) <=> \/ x2 < 0 /\ v2 > 0
                              \/ x2 < 0 /\ v2 < 0 /\ x1 * v2 > x2 * v1
                              \/ x2 > 0 /\ v2 > 0 /\ x1 * v2 > x2 * v1
      /\ Segs!Lower(x, u) <=> \/ x2 < 0 /\ u2 > 0
                              \/ x2 < 0 /\ u2 < 0 /\ x1 * u2 > x2 * u1
                              \/ x2 > 0 /\ u2 > 0 /\ x1 * u2 > x2 * u1
  BY LowerIs
<1> HIDE DEF u1, u2, v1, v2, x1, x2
<1> DEFINE a == u1 * v2
           b == u2 * v1
           c == x1 * v2
           d == x2 * v1
           e == x1 * u2
           f == x2 * u1
           g == v1 * u2
           h == v2 * u1
<1>3. a \in Int /\ b \in Int /\ c \in Int /\ d \in Int /\ e \in Int /\ f \in Int
  BY <1>1
<1>4. g = b /\ h = a
  BY <1>1
<1>5. c * u2 = e * v2 /\ d * u2 = b * x2 /\ a * x2 = f * v2
  <2>1. c * u2 = e * v2
    BY <1>1, TimesSwap
  <2>2. d = v1 * x2 /\ b = v1 * u2 /\ a = v2 * u1 /\ f = u1 * x2 /\ a = u1 * v2
    BY <1>1
  <2>3. (v1 * x2) * u2 = (v1 * u2) * x2
    BY <1>1, TimesSwap
  <2>4. (u1 * v2) * x2 = (u1 * x2) * v2
    BY <1>1, TimesSwap
  <2> HIDE DEF a, b, c, d, e, f
  <2> QED
    BY <2>1, <2>2, <2>3, <2>4
<1>7. /\ c * u2 \in Int /\ d * u2 \in Int /\ a * x2 \in Int /\ e * v2 \in Int
      /\ b * x2 \in Int /\ f * v2 \in Int
  <2> HIDE DEF a, b, c, d, e, f
  <2> QED
    BY <1>1, <1>3
<1>8. /\ u2 > 0 => (c > d <=> c * u2 > d * u2)
      /\ u2 < 0 => (c > d <=> c * u2 < d * u2)
      /\ x2 > 0 => (a > b <=> a * x2 > b * x2)
      /\ x2 < 0 => (a > b <=> a * x2 < b * x2)
      /\ v2 > 0 => (e > f <=> e * v2 > f * v2)
      /\ v2 < 0 => (e > f <=> e * v2 < f * v2)
  <2> HIDE DEF a, b, c, d, e, f
  <2>1. /\ u2 > 0 => (c > d <=> c * u2 > d * u2)
        /\ x2 > 0 => (a > b <=> a * x2 > b * x2)
        /\ v2 > 0 => (e > f <=> e * v2 > f * v2)
    BY <1>1, <1>3, TimesLess
  <2>2. /\ u2 < 0 => (c > d <=> c * u2 < d * u2)
        /\ x2 < 0 => (a > b <=> a * x2 < b * x2)
        /\ v2 < 0 => (e > f <=> e * v2 < f * v2)
    BY <1>1, <1>3, TimesMore
  <2> QED
    BY <2>1, <2>2
<1> DEFINE A == a * x2
           B == b * x2
           C == c * u2
           D == d * u2
           E == e * v2
           F == f * v2
<1>9. /\ C = E /\ D = B /\ A = F
      /\ A \in Int /\ B \in Int /\ C \in Int /\ D \in Int /\ E \in Int /\ F \in Int
      /\ u2 > 0 => (c > d <=> C > D)
      /\ u2 < 0 => (c > d <=> C < D)
      /\ x2 > 0 => (a > b <=> A > B)
      /\ x2 < 0 => (a > b <=> A < B)
      /\ v2 > 0 => (e > f <=> E > F)
      /\ v2 < 0 => (e > f <=> E < F)
  <2> HIDE DEF a, b, c, d, e, f
  <2> QED
    BY <1>5, <1>7, <1>8
<1>10. /\ Segs!Lower(u, v) <=> \/ u2 < 0 /\ v2 > 0
                               \/ u2 < 0 /\ v2 < 0 /\ a > b
                               \/ u2 > 0 /\ v2 > 0 /\ a > b
       /\ Segs!Lower(v, u) <=> \/ v2 < 0 /\ u2 > 0
                               \/ v2 < 0 /\ u2 < 0 /\ g > h
                               \/ v2 > 0 /\ u2 > 0 /\ g > h
       /\ Segs!Lower(x, v) <=> \/ x2 < 0 /\ v2 > 0
                               \/ x2 < 0 /\ v2 < 0 /\ c > d
                               \/ x2 > 0 /\ v2 > 0 /\ c > d
       /\ Segs!Lower(x, u) <=> \/ x2 < 0 /\ u2 > 0
                               \/ x2 < 0 /\ u2 < 0 /\ e > f
                               \/ x2 > 0 /\ u2 > 0 /\ e > f
  BY <1>2
<1> HIDE DEF a, b, c, d, e, f, g, h, A, B, C, D, E, F
<1>11. Segs!Lower(u, v) => ~Segs!Lower(v, u)
  BY <1>1, <1>3, <1>4, <1>10
<1>12. ASSUME Segs!Lower(x, v), ~Segs!Lower(u, v) PROVE Segs!Lower(x, u)
  <2>1. CASE u2 > 0
    BY <1>1, <1>3, <1>9, <1>10, <1>12, <2>1
  <2>2. CASE u2 < 0
    BY <1>1, <1>3, <1>9, <1>10, <1>12, <2>2
  <2> QED
    BY <1>1, <2>1, <2>2
<1> QED
  BY <1>11, <1>12

-----------------------------------------------------------------------------
(* The order of the angles *)

\* What a function makes of finitely many arguments is finite.
LEMMA FiniteImage ==
    ASSUME NEW S, IsFiniteSet(S), NEW f, DOMAIN f = S
    PROVE  IsFiniteSet({f[x] : x \in S})
<1> DEFINE T == {f[x] : x \in S}
           g == [x \in S |-> f[x]]
<1>1. g \in Surjection(S, T)
  BY DEF Surjection
<1> HIDE DEF T, g
<1>2. IsFiniteSet(T)
  BY <1>1, FS_Surjection
<1> QED
  BY <1>2 DEF T

\* The least and the greatest of some integers.
LEMMA EndsOK ==
    ASSUME NEW S, S \subseteq Int, IsFiniteSet(S), S # {}
    PROVE  /\ Segs!Min(S) \in S /\ Segs!Max(S) \in S
           /\ \A x \in S : Segs!Min(S) <= x /\ x <= Segs!Max(S)
<1>1. Segs!Min(S) \in S /\ \A x \in S : Segs!Min(S) <= x
  <2>1. \E x \in S : \A y \in S : x <= y
    BY LeastOf
  <2> QED
    BY <2>1 DEF Segs!Min
<1>2. Segs!Max(S) \in S /\ \A x \in S : x <= Segs!Max(S)
  <2> DEFINE T == {-x : x \in S}
  <2>1. T \subseteq Int /\ T # {}
    <3>1. PICK x \in S : x \in Int
      OBVIOUS
    <3>2. -x \in T
      OBVIOUS
    <3>3. \A y \in S : -y \in Int
      OBVIOUS
    <3> QED
      BY <3>2, <3>3
  <2>2. IsFiniteSet(T)
    <3> DEFINE f == [x \in S |-> -x]
    <3>1. DOMAIN f = S /\ \A x \in S : f[x] = -x
      OBVIOUS
    <3> HIDE DEF f
    <3>2. IsFiniteSet({f[x] : x \in S})
      BY <3>1, FiniteImage
    <3>3. {f[x] : x \in S} = T
      BY <3>1
    <3> QED
      BY <3>2, <3>3
  <2>3. PICK t \in T : \A y \in T : t <= y
    <3> HIDE DEF T
    <3> QED
      BY <2>1, <2>2, LeastOf
  <2>4. PICK x \in S : t = -x
    BY <2>3
  <2>5. \A y \in S : y <= x
    <3> TAKE y \in S
    <3>1. -y \in T
      OBVIOUS
    <3>2. x \in Int /\ y \in Int /\ -x <= -y
      BY <2>3, <2>4, <3>1
    <3> QED
      BY <3>2
  <2>6. \E z \in S : \A y \in S : z >= y
    BY <2>5
  <2>7. Segs!Max(S) = CHOOSE z \in S : \A y \in S : z >= y
    BY DEF Segs!Max
  <2>8. Segs!Max(S) \in S /\ \A y \in S : Segs!Max(S) >= y
    BY <2>6, <2>7
  <2> QED
    BY <2>8
<1> QED
  BY <1>1, <1>2

\* A sequence of points, one at least.
Points(c) ==
    /\ c \in Seq(Members(c)) /\ Len(c) > 0
    /\ \A e \in Members(c) : e.x \in Int /\ e.y \in Int

\* There are finitely many points in a sequence.
LEMMA FiniteMembers ==
    ASSUME NEW R, NEW c \in Seq(R)
    PROVE  /\ IsFiniteSet(Members(c)) /\ Members(c) = Segs!Range(c)
           /\ Members(c) = {c[i] : i \in 1 .. Len(c)} /\ Members(c) \in SUBSET R
<1>1. DOMAIN c = 1 .. Len(c) /\ \A i \in 1 .. Len(c) : c[i] \in R
  OBVIOUS
<1>2. IsFiniteSet({c[i] : i \in 1 .. Len(c)})
  <2>1. IsFiniteSet(1 .. Len(c))
    BY FS_Interval
  <2> QED
    BY <1>1, <2>1, FiniteImage
<1> QED
  BY <1>1, <1>2 DEF Members, Segs!Range

\* The middle only depends on the places.
LEMMA SameCentre ==
    ASSUME NEW c, NEW d, Points(c), Points(d), PlacesOf(Members(c)) = PlacesOf(Members(d))
    PROVE  Segs!Centre(c) = Segs!Centre(d) /\ \A p : Segs!Off(c, p) = Segs!Off(d, p)
<1>1. Segs!Range(c) = Members(c) /\ Segs!Range(d) = Members(d)
  BY FiniteMembers DEF Points
<1>2. ASSUME NEW S PROVE /\ {p.x : p \in S} = {q[1] : q \in PlacesOf(S)}
                         /\ {p.y : p \in S} = {q[2] : q \in PlacesOf(S)}
  <2>1. \A p : Place(p)[1] = p.x /\ Place(p)[2] = p.y
    BY DEF Place
  <2>2. PlacesOf(S) = {Place(p) : p \in S}
    BY DEF PlacesOf
  <2> QED
    BY <2>1, <2>2
<1>3. /\ {p.x : p \in Segs!Range(c)} = {p.x : p \in Segs!Range(d)}
      /\ {p.y : p \in Segs!Range(c)} = {p.y : p \in Segs!Range(d)}
  BY <1>1, <1>2
<1>4. Segs!Centre(c) = Segs!Centre(d)
  <2> DEFINE X(e) == {p.x : p \in Segs!Range(e)}
             Y(e) == {p.y : p \in Segs!Range(e)}
  <2>1. \A e : Segs!Centre(e) =
                   <<1000 * (Segs!Min(X(e)) + Segs!Max(X(e))) + <<102, -57>>[1],
                     1000 * (Segs!Min(Y(e)) + Segs!Max(Y(e))) + <<102, -57>>[2]>>
    BY Zenon DEF Segs!Centre, Segs!Middle
  <2>2. X(c) = X(d) /\ Y(c) = Y(d)
    BY <1>3
  <2> HIDE DEF X, Y
  <2> QED
    BY <2>1, <2>2
<1> QED
  BY <1>4 DEF Segs!Off

\* Where a point lies from the middle.
LEMMA OffIs ==
    ASSUME NEW c, Points(c)
    PROVE  \E a, b \in Int : \A p : p.x \in Int /\ p.y \in Int =>
               /\ Segs!Off(c, p)[1] = 2000 * p.x - 1000 * a - 102
               /\ Segs!Off(c, p)[2] = 2000 * p.y - 1000 * b + 57
<1>1. IsFiniteSet(Members(c)) /\ Members(c) = Segs!Range(c) /\ Members(c) # {}
  <2>1. c[1] \in Members(c)
    BY DEF Points, Members
  <2> QED
    BY <2>1, FiniteMembers DEF Points
<1> DEFINE xs == {e.x : e \in Members(c)}
           ys == {e.y : e \in Members(c)}
<1>2. xs \subseteq Int /\ ys \subseteq Int /\ xs # {} /\ ys # {}
  BY <1>1 DEF Points
<1>3. IsFiniteSet(xs) /\ IsFiniteSet(ys)
  <2> DEFINE f == [e \in Members(c) |-> e.x]
             g == [e \in Members(c) |-> e.y]
  <2>1. /\ DOMAIN f = Members(c) /\ DOMAIN g = Members(c)
        /\ \A e \in Members(c) : f[e] = e.x /\ g[e] = e.y
    OBVIOUS
  <2> HIDE DEF f, g
  <2>2. IsFiniteSet({f[e] : e \in Members(c)}) /\ IsFiniteSet({g[e] : e \in Members(c)})
    BY <1>1, <2>1, FiniteImage
  <2>3. {f[e] : e \in Members(c)} = xs /\ {g[e] : e \in Members(c)} = ys
    BY <2>1
  <2> QED
    BY <2>2, <2>3
<1> HIDE DEF xs, ys
<1>4. PICK a \in Int, b \in Int :
          a = Segs!Min(xs) + Segs!Max(xs) /\ b = Segs!Min(ys) + Segs!Max(ys)
  <2>1. /\ Segs!Min(xs) \in Int /\ Segs!Max(xs) \in Int
        /\ Segs!Min(ys) \in Int /\ Segs!Max(ys) \in Int
    BY <1>2, <1>3, EndsOK
  <2> QED
    BY <2>1
<1>5. Segs!Centre(c) = <<1000 * a + 102, 1000 * b + -57>>
  <2>1. Segs!Centre(c) = <<1000 * (Segs!Min(xs) + Segs!Max(xs)) + <<102, -57>>[1],
                           1000 * (Segs!Min(ys) + Segs!Max(ys)) + <<102, -57>>[2]>>
    BY <1>1 DEF Segs!Centre, Segs!Middle, xs, ys
  <2> QED
    BY <1>4, <2>1
<1>6. ASSUME NEW p, p.x \in Int, p.y \in Int
      PROVE  /\ Segs!Off(c, p)[1] = 2000 * p.x - 1000 * a - 102
             /\ Segs!Off(c, p)[2] = 2000 * p.y - 1000 * b + 57
  <2> DEFINE u == Segs!Off(c, p)
             x == p.x
             y == p.y
  <2>1. u = <<2000 * x - (1000 * a + 102), 2000 * y - (1000 * b + -57)>>
    BY <1>5 DEF Segs!Off
  <2>2. u[1] = 2000 * x - (1000 * a + 102) /\ u[2] = 2000 * y - (1000 * b + -57)
    BY <2>1
  <2>3. x \in Int /\ y \in Int
    BY <1>6
  <2> HIDE DEF u, x, y
  <2>4. u[1] = 2000 * x - 1000 * a - 102 /\ u[2] = 2000 * y - 1000 * b + 57
    BY <1>4, <2>2, <2>3
  <2> QED
    BY <2>4 DEF u, x, y
<1> QED
  BY <1>6

\* No point lies level with the middle, for the noise.
LEMMA OffSlanted ==
    ASSUME NEW c, Points(c), NEW p, p.x \in Int, p.y \in Int
    PROVE  Slanted(Segs!Off(c, p))
<1> DEFINE u == Segs!Off(c, p)
           x == p.x
           y == p.y
<1>1. PICK a \in Int, b \in Int : u[1] = 2000 * x - 1000 * a - 102
                                 /\ u[2] = 2000 * y - 1000 * b + 57
  BY OffIs
<1>2. x \in Int /\ y \in Int
  OBVIOUS
<1> HIDE DEF u, x, y
<1>3. u[1] \in Int /\ u[2] \in Int /\ u[2] # 0
  BY <1>1, <1>2
<1> QED
  BY <1>3 DEF Slanted, u

\* The directions of the points, and those lower than one of them.
Offs(c) == {Segs!Off(c, p) : p \in Members(c)}
Lowers(c, u) == {v \in Offs(c) : Segs!Lower(v, u)}

\* A lower direction has fewer below it.
LEMMA RankOK ==
    ASSUME NEW c, Points(c), NEW u \in Offs(c), NEW v \in Offs(c)
    PROVE  /\ Cardinality(Lowers(c, u)) \in Nat
           /\ Cardinality(Lowers(c, u)) <= Cardinality(Lowers(c, v)) => ~Segs!Lower(v, u)
<1>1. IsFiniteSet(Offs(c))
  <2>1. IsFiniteSet(Members(c))
    BY FiniteMembers DEF Points
  <2> DEFINE f == [p \in Members(c) |-> Segs!Off(c, p)]
  <2>2. DOMAIN f = Members(c) /\ \A p \in Members(c) : f[p] = Segs!Off(c, p)
    OBVIOUS
  <2> HIDE DEF f
  <2>3. IsFiniteSet({f[p] : p \in Members(c)})
    BY <2>1, <2>2, FiniteImage
  <2>4. {f[p] : p \in Members(c)} = Offs(c)
    BY <2>2 DEF Offs
  <2> QED
    BY <2>3, <2>4
<1>2. \A x \in Offs(c) : Slanted(x)
  BY OffSlanted DEF Offs, Points
<1> DEFINE A == Lowers(c, v)
           B == Lowers(c, u)
<1>3. IsFiniteSet(A) /\ IsFiniteSet(B) /\ Cardinality(A) \in Nat /\ Cardinality(B) \in Nat
  <2>1. A \subseteq Offs(c) /\ B \subseteq Offs(c)
    BY DEF Lowers
  <2> HIDE DEF A, B
  <2> QED
    BY <1>1, <2>1, FS_Subset, FS_CardinalityType
<1>4. ASSUME Segs!Lower(v, u) PROVE Cardinality(A) < Cardinality(B)
  <2>1. A \subseteq B
    <3>1. ~Segs!Lower(u, v)
      BY <1>2, <1>4, LowerOrders
    <3>2. \A x \in Offs(c) : Segs!Lower(x, v) => Segs!Lower(x, u)
      BY <1>2, <3>1, LowerOrders
    <3> QED
      BY <3>2 DEF Lowers
  <2>2. v \in B /\ v \notin A
    <3>1. ~Segs!Lower(v, v)
      BY <1>2, LowerOrders
    <3> QED
      BY <1>4, <3>1 DEF Lowers
  <2> HIDE DEF A, B
  <2>3. Cardinality(A) <= Cardinality(B) /\ (Cardinality(A) = Cardinality(B) => A = B)
    BY <1>3, <2>1, FS_Subset
  <2> QED
    BY <1>3, <2>2, <2>3
<1> HIDE DEF A, B
<1> QED
  BY <1>3, <1>4 DEF A, B

\* Each point with its angle.
LEMMA WithThetaOK ==
    ASSUME NEW c, Points(c)
    PROVE  LET s == Segs!WithTheta(c) IN
           /\ s \in Seq(Members(s)) /\ Len(s) = Len(c) /\ Angled(Members(s))
           /\ PlacesOf(Members(s)) = PlacesOf(Members(c))
           /\ \A e \in Members(s) : /\ e.x \in Int /\ e.y \in Int /\ Segs!Off(c, e) \in Offs(c)
                                    /\ e.theta = Cardinality(Lowers(c, Segs!Off(c, e)))
<1> DEFINE s == Segs!WithTheta(c)
           n == Len(c)
           Given(i) == [x |-> c[i].x, y |-> c[i].y,
                     theta |-> Cardinality(Lowers(c, Segs!Off(c, c[i])))]
<1>1. Segs!Range(c) = Members(c) /\ Members(c) = {c[i] : i \in 1 .. n} /\ n \in Nat
  BY FiniteMembers DEF Points
<1>2. DOMAIN c = 1 .. n /\ \A i \in 1 .. n : c[i] \in Members(c)
  BY <1>1 DEF Points
<1>3. s = [i \in DOMAIN c |-> Given(i)]
  <2> DEFINE offs == {Segs!Off(c, p) : p \in Segs!Range(c)}
             theta == [u \in offs |-> Segs!Cardinality({v \in offs : Segs!Lower(v, u)})]
  <2>1. s = [i \in DOMAIN c |-> [x |-> c[i].x, y |-> c[i].y, theta |-> theta[Segs!Off(c, c[i])]]]
    BY Zenon DEF Segs!WithTheta
  <2>2. offs = Offs(c)
    BY <1>1 DEF Offs
  <2>3. \A i \in 1 .. n : Segs!Off(c, c[i]) \in offs
    BY <1>1, <1>2
  <2>4. \A u \in offs : theta[u] = Cardinality(Lowers(c, u))
    BY <2>2, SegCard DEF Lowers
  <2> HIDE DEF offs, theta, s
  <2>5. \A i \in DOMAIN c : theta[Segs!Off(c, c[i])] = Cardinality(Lowers(c, Segs!Off(c, c[i])))
    BY <1>2, <2>3, <2>4
  <2> QED
    BY <2>1, <2>5, Zenon
<1> HIDE DEF s
<1>4. ASSUME NEW i \in 1 .. n
      PROVE  /\ s[i] = Given(i) /\ s[i].x = c[i].x /\ s[i].y = c[i].y /\ Place(s[i]) = Place(c[i])
             /\ Segs!Off(c, s[i]) = Segs!Off(c, c[i]) /\ Segs!Off(c, s[i]) \in Offs(c)
             /\ s[i].x \in Int /\ s[i].y \in Int
             /\ s[i].theta = Cardinality(Lowers(c, Segs!Off(c, s[i])))
             /\ s[i].theta \in Int
  <2>1. s[i] = Given(i)
    BY <1>2, <1>3
  <2>2. s[i].x = c[i].x /\ s[i].y = c[i].y
        /\ s[i].theta = Cardinality(Lowers(c, Segs!Off(c, c[i])))
    BY <2>1
  <2>3. Segs!Off(c, s[i]) = Segs!Off(c, c[i])
    BY <2>2 DEF Segs!Off
  <2>4. c[i] \in Members(c)
    BY <1>2
  <2>5. Segs!Off(c, c[i]) \in Offs(c) /\ c[i].x \in Int /\ c[i].y \in Int
    BY <2>4 DEF Offs, Points
  <2>6. Cardinality(Lowers(c, Segs!Off(c, c[i]))) \in Nat
    BY <2>5, RankOK
  <2> HIDE DEF Given
  <2> QED
    BY <2>1, <2>2, <2>3, <2>5, <2>6 DEF Place
<1> HIDE DEF Given
<1>5. DOMAIN s = 1 .. n /\ s = [i \in 1 .. n |-> s[i]]
  BY <1>2, <1>3
<1>6. Members(s) = {s[i] : i \in 1 .. n}
  BY <1>5 DEF Members
<1>7. s \in Seq(Members(s)) /\ Len(s) = n
  <2>1. s \in [1 .. n -> Members(s)]
    BY <1>5, <1>6
  <2> QED
    BY <1>1, <2>1
<1>8. Angled(Members(s))
  BY <1>4, <1>6 DEF Angled
<1>9. PlacesOf(Members(s)) = PlacesOf(Members(c))
  <2>1. /\ PlacesOf(Members(s)) = {Place(s[i]) : i \in 1 .. n}
        /\ PlacesOf(Members(c)) = {Place(c[i]) : i \in 1 .. n}
    BY <1>1, <1>6 DEF PlacesOf
  <2> QED
    BY <1>4, <2>1
<1>10. \A e \in Members(s) : /\ e.x \in Int /\ e.y \in Int /\ Segs!Off(c, e) \in Offs(c)
                             /\ e.theta = Cardinality(Lowers(c, Segs!Off(c, e)))
  BY <1>4, <1>6
<1> QED
  BY <1>7, <1>8, <1>9, <1>10 DEF s

\* A walk over some places, whose angles never decrease, none twice in a row.
Walk(walk, places) ==
    /\ Points(walk) /\ PlacesOf(Members(walk)) = places
    /\ \A i, j \in 1 .. Len(walk) :
           i < j => ~Segs!Lower(Segs!Off(walk, walk[j]), Segs!Off(walk, walk[i]))
    /\ \A i \in 1 .. Len(walk) - 1 : Place(walk[i]) # Place(walk[i + 1])

\* fit_quad makes a walk of a cluster, or gives it up.
LEMMA OrderedOK ==
    ASSUME NEW c, c \in Seq(Members(c)), \A e \in Members(c) : e.x \in Int /\ e.y \in Int,
           Segs!Ordered(c) # <<>>
    PROVE  Walk(Segs!Ordered(c), PlacesOf(Members(c)))
<1> DEFINE s == Segs!WithTheta(c)
           R == Members(s)
           t == Segs!PtSort(s)
           walk == Segs!Deduped(t)
<1>1. Segs!Ordered(c) = walk /\ Points(c)
  <2>1. ~(Len(c) < MinPoints \/ Len(c) > 3 * (2 * Width + 2 * Height) \/ Len(c) < 4
            \/ Segs!Dot(c) < 0)
    BY Zenon DEF Segs!Ordered
  <2>2. ~(Len(c) < 4) /\ Len(c) \in Nat
    BY <2>1
  <2>3. Points(c)
    BY <2>2 DEF Points
  <2>4. Segs!Ordered(c) = walk
    BY <2>1, Zenon DEF Segs!Ordered
  <2> QED
    BY <2>3, <2>4
<1>2. /\ s \in Seq(R) /\ Len(s) = Len(c) /\ Angled(R) /\ PlacesOf(R) = PlacesOf(Members(c))
      /\ \A e \in R : /\ e.x \in Int /\ e.y \in Int /\ Segs!Off(c, e) \in Offs(c)
                      /\ e.theta = Cardinality(Lowers(c, Segs!Off(c, e)))
  BY <1>1, WithThetaOK, Zenon
<1> HIDE DEF s
<1>3. t \in Seq(R) /\ Members(t) = R /\ Sorted(t)
  BY <1>2, PtSortOK DEF SortOf
<1> HIDE DEF R, t
<1>4. KeptTo(t, R, Len(t), walk)
  BY <1>2, <1>3, DedupedOK
<1> HIDE DEF walk
<1>5. /\ walk \in Seq(R) /\ Sorted(walk)
      /\ PlacesOf(Members(walk)) = {Place(t[j]) : j \in 1 .. Len(t)}
      /\ Len(t) > 0 => Len(walk) > 0
      /\ \A j \in 1 .. Len(walk) - 1 : Place(walk[j]) # Place(walk[j + 1])
  BY <1>4 DEF KeptTo
<1>6. PlacesOf(Members(walk)) = PlacesOf(Members(c))
  <2>1. Members(t) = {t[j] : j \in 1 .. Len(t)}
    BY <1>3, FiniteMembers
  <2>2. PlacesOf(Members(t)) = {Place(t[j]) : j \in 1 .. Len(t)}
    BY <2>1 DEF PlacesOf
  <2> QED
    BY <1>2, <1>3, <1>5, <2>2
<1>7. Members(walk) \in SUBSET R /\ Members(walk) = {walk[j] : j \in 1 .. Len(walk)}
      /\ Len(walk) \in Nat
  BY <1>5, FiniteMembers
<1>8. Points(walk)
  <2>1. walk \in Seq(Members(walk))
    <3>1. walk \in [1 .. Len(walk) -> Members(walk)]
      BY <1>5, <1>7
    <3> QED
      BY <1>7, <3>1
  <2>2. Len(t) > 0
    <3>1. SUFFICES ASSUME ~(Len(t) > 0) PROVE FALSE
      OBVIOUS
    <3>2. Len(t) \in Nat /\ 1 .. Len(t) = {}
      BY <1>3, <3>1
    <3>3. Members(t) = {}
      <4>1. Members(t) = {t[j] : j \in 1 .. Len(t)}
        BY <1>3, FiniteMembers
      <4> QED
        BY <3>2, <4>1
    <3>4. Place(c[1]) \in PlacesOf(Members(c))
      BY <1>1 DEF Points, PlacesOf, Members
    <3> QED
      BY <1>2, <1>3, <3>3, <3>4 DEF PlacesOf
  <2> QED
    BY <1>2, <1>5, <1>7, <2>1, <2>2 DEF Points
<1>9. \A p : Segs!Off(walk, p) = Segs!Off(c, p)
  BY <1>1, <1>6, <1>8, SameCentre
<1>10. ASSUME NEW i \in 1 .. Len(walk), NEW j \in 1 .. Len(walk), i < j
       PROVE  ~Segs!Lower(Segs!Off(walk, walk[j]), Segs!Off(walk, walk[i]))
  <2>1. walk[i] \in R /\ walk[j] \in R /\ walk[i].theta <= walk[j].theta
    <3>1. DOMAIN walk = 1 .. Len(walk)
      BY <1>5
    <3> QED
      BY <1>5, <1>10, <3>1 DEF Sorted
  <2> DEFINE u == Segs!Off(c, walk[i])
             v == Segs!Off(c, walk[j])
  <2>2. u \in Offs(c) /\ v \in Offs(c) /\ Cardinality(Lowers(c, u)) <= Cardinality(Lowers(c, v))
    BY <1>2, <2>1
  <2> HIDE DEF u, v
  <2>3. ~Segs!Lower(v, u)
    BY <1>1, <2>2, RankOK
  <2> QED
    BY <1>9, <2>3 DEF u, v
<1> QED
  BY <1>1, <1>5, <1>6, <1>8, <1>10, Zenon DEF Walk

-----------------------------------------------------------------------------
(* The pairs of neighbours that the points lie between *)

\* The four neighbours of the loops.
Ways4 == {<<1, 0>>, <<0, 1>>, <<-1, 1>>, <<1, 1>>}
Neighbours == {<<p, Segs!Moved(p, d)>> : p \in Segs!Inner, d \in Ways4}

\* DO_CONN is expanded for just those.
LEMMA WaysOK ==
    /\ Segs!Ways[1] = <<1, 0>> /\ Segs!Ways[2] = <<0, 1>>
    /\ Segs!Ways[3] = <<-1, 1>> /\ Segs!Ways[4] = <<1, 1>>
    /\ Segs!Range(Segs!Ways) = Ways4
<1> DEFINE f == Segs!Straight
           g == Segs!Diagonal
<1>1. /\ f \in Seq(Ways4) /\ Len(f) = 2 /\ f[1] = <<1, 0>> /\ f[2] = <<0, 1>>
      /\ g \in Seq(Ways4) /\ Len(g) = 2 /\ g[1] = <<-1, 1>> /\ g[2] = <<1, 1>>
  BY DEF Segs!Straight, Segs!Diagonal, Ways4
<1>2. Segs!Ways = f \o g
  BY DEF Segs!Ways
<1> HIDE DEF f, g
<1> DEFINE w == f \o g
<1>3. /\ w \in Seq(Ways4) /\ Len(w) = 4
      /\ w[1] = f[1] /\ w[2] = f[2] /\ w[3] = g[1] /\ w[4] = g[2]
  <2>1. /\ f \in Seq(Ways4) /\ Len(f) = 2 /\ g \in Seq(Ways4) /\ Len(g) = 2
    BY <1>1
  <2>2. /\ w \in Seq(Ways4) /\ Len(w) = Len(f) + Len(g)
        /\ \A i \in 1 .. Len(f) : w[i] = f[i]
        /\ \A i \in 1 .. Len(g) : w[i + Len(f)] = g[i]
    <3>1. f \in Seq(Ways4) /\ g \in Seq(Ways4)
      BY <2>1
    <3>2. w \in Seq(Ways4) /\ Len(w) = Len(f) + Len(g)
      BY <3>1
    <3>3. ASSUME NEW i \in 1 .. Len(f) PROVE w[i] = f[i]
      BY <3>1
    <3>4. ASSUME NEW i \in 1 .. Len(g) PROVE w[i + Len(f)] = g[i]
      BY <3>1
    <3> QED
      BY <3>2, <3>3, <3>4
  <2>3. 1 \in 1 .. 2 /\ 2 \in 1 .. 2 /\ 1 + 2 = 3 /\ 2 + 2 = 4
    OBVIOUS
  <2> HIDE DEF w
  <2> QED
    BY <2>1, <2>2, <2>3
<1> HIDE DEF w
<1>4. DOMAIN w = {1, 2, 3, 4}
  <2>1. DOMAIN w = 1 .. 4
    BY <1>3
  <2> QED
    BY <2>1
<1>5. Segs!Range(w) = {w[1], w[2], w[3], w[4]}
  BY <1>4 DEF Segs!Range
<1> QED
  BY <1>1, <1>2, <1>3, <1>5 DEF Ways4, w

\* A number below a product, by quotient and remainder.
LEMMA Below ==
    ASSUME NEW a \in Nat, NEW b \in Nat, NEW i \in Nat, i < a * b
    PROVE  /\ b # 0 /\ i \div b \in 0 .. a - 1 /\ i % b \in 0 .. b - 1
<1>1. b # 0
  <2>1. b = 0 => a * b = 0
    OBVIOUS
  <2> QED
    BY <2>1
<1> DEFINE q == i \div b
<1>2. q \in Nat /\ i % b \in 0 .. b - 1 /\ q * b <= i
  <2>1. q \in Nat /\ q * b <= i
    BY <1>1, OneChunk, DivMod
  <2> QED
    BY <1>1, <2>1, DivMod
<1>3. q < a
  <2>1. SUFFICES ASSUME ~(q < a) PROVE FALSE
    OBVIOUS
  <2> HIDE DEF q
  <2>2. CASE q = a
    BY <1>2, <2>2
  <2>3. CASE a < q
    <3>1. a * b + b <= q * b /\ a * b \in Nat /\ q * b \in Nat
      BY <1>1, <1>2, <2>3, Apart
    <3> QED
      BY <1>2, <3>1
  <2> QED
    BY <1>2, <2>1, <2>2, <2>3
<1> QED
  BY <1>1, <1>2, <1>3

\* The loops meet every inner pixel with each of its neighbours.
LEMMA LinkOK ==
    ASSUME Segs!ImageAssumption
    PROVE  /\ {Segs!Link(k) : k \in 1 .. Segs!NLinks} = Neighbours
           /\ Segs!NLinks \in Nat
           /\ Neighbours \in SUBSET PixelPairs
<1> DEFINE a == Height - 2
           b == Width - 2
           P(i) == <<1 + (i \div b), 1 + (i % b)>>
<1>1. a \in Nat /\ b \in Nat /\ a * b \in Nat /\ Segs!NLinks = 4 * (a * b)
  <2>1. a \in Nat /\ b \in Nat
    BY DEF Segs!ImageAssumption
  <2> HIDE DEF a, b
  <2>2. a * b \in Nat
    BY <2>1
  <2> QED
    BY <2>1, <2>2 DEF Segs!NLinks, a, b
<1>2. Segs!Inner = (1 .. a) \X (1 .. b)
  BY DEF Segs!Inner
<1>3. \A k : Segs!Link(k) = <<P((k - 1) \div 4),
                              Segs!Moved(P((k - 1) \div 4), Segs!Ways[1 + ((k - 1) % 4)])>>
  BY DEF Segs!Link
<1>4. Neighbours \in SUBSET PixelPairs
  <2> SUFFICES ASSUME NEW p \in Segs!Inner, NEW d \in Ways4
               PROVE  <<p, Segs!Moved(p, d)>> \in PixelPairs
    BY DEF Neighbours
  <2>1. PICK y \in 1 .. Height - 2, x \in 1 .. Width - 2 : p = <<y, x>>
    BY DEF Segs!Inner
  <2>2. Height \in Nat /\ Width \in Nat
    BY DEF Segs!ImageAssumption
  <2>3. d[1] \in {-1, 0, 1} /\ d[2] \in {0, 1}
    BY DEF Ways4
  <2>4. p \in Segs!Pixels
    BY <2>1, <2>2 DEF Segs!Pixels
  <2>5. Segs!Moved(p, d) = <<y + d[2], x + d[1]>>
    BY <2>1 DEF Segs!Moved
  <2>6. y + d[2] \in 0 .. Height - 1 /\ x + d[1] \in 0 .. Width - 1
    BY <2>2, <2>3
  <2> QED
    BY <2>4, <2>5, <2>6 DEF PixelPairs, Segs!Pixels
<1> HIDE DEF a, b
<1>5. ASSUME NEW k \in 1 .. Segs!NLinks PROVE Segs!Link(k) \in Neighbours
  <2> DEFINE i == (k - 1) \div 4
             j == (k - 1) % 4
             ab == a * b
  <2>1. k - 1 \in Nat /\ k - 1 < 4 * ab /\ ab \in Nat
    BY <1>1
  <2>2. i \in Nat /\ j \in 0 .. 3 /\ i < ab
    <3> HIDE DEF ab
    <3> QED
      BY <2>1
  <2> HIDE DEF i, j
  <2>3. i \div b \in 0 .. a - 1 /\ i % b \in 0 .. b - 1
    BY <1>1, <2>2, Below
  <2>4. P(i) \in Segs!Inner
    <3> DEFINE q == i \div b
               m == i % b
    <3> HIDE DEF q, m
    <3>1. q \in 0 .. a - 1 /\ m \in 0 .. b - 1
      BY <2>3 DEF q, m
    <3>2. 1 + q \in 1 .. a /\ 1 + m \in 1 .. b
      BY <1>1, <3>1
    <3>3. P(i) = <<1 + q, 1 + m>>
      BY DEF q, m
    <3> QED
      BY <1>2, <3>2, <3>3
  <2>5. Segs!Ways[1 + j] \in Ways4
    <3>1. 1 + j \in {1, 2, 3, 4}
      BY <2>2
    <3> QED
      BY <3>1, WaysOK DEF Ways4
  <2>6. Segs!Link(k) = <<P(i), Segs!Moved(P(i), Segs!Ways[1 + j])>>
    BY <1>3 DEF i, j
  <2> HIDE DEF P
  <2> QED
    BY <2>4, <2>5, <2>6 DEF Neighbours
<1>6. ASSUME NEW l \in Neighbours PROVE \E k \in 1 .. Segs!NLinks : l = Segs!Link(k)
  <2>1. PICK p \in Segs!Inner, d \in Ways4 : l = <<p, Segs!Moved(p, d)>>
    BY DEF Neighbours
  <2>2. PICK y \in 1 .. a, x \in 1 .. b : p = <<y, x>>
    BY <1>2
  <2>3. PICK j \in 0 .. 3 : d = Segs!Ways[1 + j]
    <3>1. d = Segs!Ways[1 + 0] \/ d = Segs!Ways[1 + 1] \/ d = Segs!Ways[1 + 2]
          \/ d = Segs!Ways[1 + 3]
      BY WaysOK DEF Ways4
    <3> QED
      BY <3>1
  <2> DEFINE z == y - 1
             w == x - 1
             zb == z * b
             i == zb + w
             k == 4 * i + j + 1
  <2>4. z \in Nat /\ w \in 0 .. b - 1 /\ b \in Nat \ {0} /\ z < a /\ a \in Nat
    BY <1>1
  <2> HIDE DEF z, w
  <2>5. zb \in Nat /\ zb + b <= a * b
    <3>1. z * b \in Nat /\ z * b + b <= a * b
      BY <2>4, Apart
    <3> QED
      BY <3>1
  <2> HIDE DEF zb
  <2>6. i \in Nat /\ z * b <= i /\ i < z * b + b /\ i < a * b
    <3>1. zb = z * b
      BY DEF zb
    <3>2. i \in Nat /\ zb <= i /\ i < zb + b /\ i < a * b
      BY <1>1, <2>4, <2>5
    <3> QED
      BY <3>1, <3>2
  <2> HIDE DEF i
  <2>7. i \div b = z
    BY <2>4, <2>6, OneChunk
  <2>8. i % b = w
    <3>1. i = b * z + (i % b) /\ (i % b) \in Int
      <4> DEFINE q == i \div b
      <4>1. i = b * q + (i % b) /\ (i % b) \in Int
        BY <2>4, <2>6, DivMod
      <4> HIDE DEF q
      <4>2. q = z
        BY <2>7 DEF q
      <4> QED
        BY <4>1, <4>2
    <3>2. b * z = zb /\ i = zb + w
      BY <2>4 DEF zb, i
    <3> DEFINE m == i % b
               bz == b * z
    <3> HIDE DEF m, bz
    <3>3. i = bz + m /\ m \in Int /\ bz = zb
      BY <3>1, <3>2 DEF m, bz
    <3>4. m = w
      BY <2>4, <2>5, <3>2, <3>3
    <3> QED
      BY <3>4 DEF m
  <2>9. k \in 1 .. Segs!NLinks /\ (k - 1) \div 4 = i /\ (k - 1) % 4 = j
    <3> DEFINE ab == a * b
    <3>1. i < ab /\ Segs!NLinks = 4 * ab /\ ab \in Nat
      BY <1>1, <2>6
    <3> HIDE DEF ab
    <3> QED
      BY <2>6, <3>1
  <2> HIDE DEF k
  <2>10. P(i) = p
    <3>1. 1 + z = y /\ 1 + w = x
      BY <1>1 DEF z, w
    <3> QED
      BY <2>2, <2>7, <2>8, <3>1
  <2>11. Segs!Link(k) = <<p, Segs!Moved(p, Segs!Ways[1 + j])>>
    BY <1>3, <2>9, <2>10
  <2> QED
    BY <2>1, <2>3, <2>9, <2>11
<1> QED
  BY <1>1, <1>4, <1>5, <1>6

-----------------------------------------------------------------------------
(* The points of a cluster *)

\* Link k is one of the cluster's.
IsOf(id, k) == Segs!Differ(Segs!Link(k)) /\ Segs!Id(Segs!Link(k)) = id
Gather(id, k, v) == IF IsOf(id, k) THEN Append(v, Segs!Point(Segs!Link(k))) ELSE v
AllPoints == {Segs!Point(Segs!Link(k)) : k \in 1 .. Segs!NLinks}
Gathered(id, k, v) ==
    /\ v \in Seq(AllPoints)
    /\ Members(v) = {Segs!Point(Segs!Link(j)) : j \in {i \in 1 .. k : IsOf(id, i)}}

\* Each next link keeps that so.
LEMMA GatherOK ==
    ASSUME NEW id, NEW k \in 1 .. Segs!NLinks, Segs!NLinks \in Nat, NEW v, Gathered(id, k - 1, v)
    PROVE  Gathered(id, k, Gather(id, k, v))
<1> DEFINE e == Segs!Point(Segs!Link(k))
           G(m) == {Segs!Point(Segs!Link(j)) : j \in {i \in 1 .. m : IsOf(id, i)}}
<1>1. v \in Seq(AllPoints) /\ Members(v) = G(k - 1) /\ e \in AllPoints
  BY DEF Gathered, AllPoints
<1>2. \A i : i \in 1 .. k <=> i \in 1 .. k - 1 \/ i = k
  OBVIOUS
<1>3. G(k) = G(k - 1) \cup (IF IsOf(id, k) THEN {e} ELSE {})
  BY <1>2
<1>4. Append(v, e) \in Seq(AllPoints) /\ Members(Append(v, e)) = Members(v) \cup {e}
  <2> HIDE DEF e
  <2>1. /\ Append(v, e) \in Seq(AllPoints) /\ Len(Append(v, e)) = Len(v) + 1
        /\ Len(v) \in Nat /\ DOMAIN v = 1 .. Len(v)
        /\ Append(v, e)[Len(v) + 1] = e /\ \A i \in 1 .. Len(v) : Append(v, e)[i] = v[i]
    BY <1>1
  <2> DEFINE t == Append(v, e)
             n == Len(v)
  <2>2. DOMAIN t = 1 .. n + 1
    BY <2>1
  <2> HIDE DEF t, n
  <2>3. \A i : i \in 1 .. n + 1 <=> i \in 1 .. n \/ i = n + 1
    BY <2>1 DEF n
  <2>4. t[n + 1] = e /\ (\A i \in 1 .. n : t[i] = v[i]) /\ DOMAIN v = 1 .. n
    BY <2>1 DEF t, n
  <2>5. Members(t) = Members(v) \cup {e}
    BY <2>2, <2>3, <2>4 DEF Members
  <2> QED
    BY <2>1, <2>5 DEF t
<1> HIDE DEF e, G
<1>5. Gather(id, k, v) \in Seq(AllPoints) /\ Members(Gather(id, k, v)) = G(k)
  <2>1. Gather(id, k, v) = IF IsOf(id, k) THEN Append(v, e) ELSE v
    BY DEF Gather, e
  <2> QED
    BY <1>1, <1>3, <1>4, <2>1
<1> QED
  BY <1>5 DEF Gathered, G

\* A cluster gets the points of its links.
LEMMA PointsOK ==
    ASSUME Segs!NLinks \in Nat, NEW id
    PROVE  Gathered(id, Segs!NLinks, Segs!Points(id))
<1> DEFINE n == Segs!NLinks
           T == Seq(AllPoints)
           I == {p \in (0 .. n) \X T : Gathered(id, p[1], p[2])}
           next == [p \in (0 .. n) \X T |-> Gather(id, p[1], p[2])]
           Is(f) == f = [k \in 0 .. Segs!NLinks |->
               IF k = 0 THEN <<>>
               ELSE IF Segs!Differ(Segs!Link(k)) /\ Segs!Id(Segs!Link(k)) = id
                    THEN Append(f[k - 1], Segs!Point(Segs!Link(k))) ELSE f[k - 1]]
<1>1. n \in Nat /\ \A k \in 1 .. n : k \in 0 .. n
  OBVIOUS
<1>2. ASSUME NEW k \in 1 .. n, NEW v, Gathered(id, k - 1, v)
      PROVE  Gathered(id, k, Gather(id, k, v)) /\ Gather(id, k, v) \in T
  <2>1. Gathered(id, k, Gather(id, k, v))
    BY <1>1, <1>2, GatherOK
  <2> QED
    BY <2>1 DEF Gathered
<1>3. Keeps(n, I, <<>>, next)
  <2>1. <<0, <<>>>> \in I
    <3> DEFINE z == <<>>
    <3>1. z \in T /\ 0 \in 0 .. n /\ Members(z) = {} /\ 1 .. 0 = {}
      BY <1>1 DEF Members
    <3> HIDE DEF z, T, n
    <3>2. Gathered(id, 0, z)
      BY <3>1 DEF Gathered, T
    <3>3. <<0, z>> \in I
      BY <3>1, <3>2
    <3> QED
      BY <3>3 DEF z
  <2>2. ASSUME NEW k \in 1 .. n, NEW v, <<k - 1, v>> \in I
        PROVE  <<k, next[<<k, v>>]>> \in I
    <3> HIDE DEF T, n
    <3>1. v \in T /\ k \in 0 .. n /\ Gathered(id, k - 1, v)
      BY <2>2, <1>1
    <3>2. next[<<k, v>>] = Gather(id, k, v)
      BY <3>1
    <3> HIDE DEF next
    <3> QED
      BY <1>2, <3>1, <3>2
  <2> HIDE DEF I, n, next
  <2> QED
    BY <2>1, <2>2 DEF Keeps
<1>4. PICK f : Unfolds(f, n, <<>>, next) /\ \A k \in 0 .. n : <<k, f[k]>> \in I
  <2> HIDE DEF I, n, next
  <2> QED
    BY <1>1, <1>3, KeptRecursion
<1>5. Is(f)
  <2>1. f = [k \in 0 .. n |-> IF k = 0 THEN <<>> ELSE next[<<k, f[k - 1]>>]]
    BY <1>4 DEF Unfolds
  <2>2. ASSUME NEW k \in 0 .. n, k # 0 PROVE next[<<k, f[k - 1]>>] = Gather(id, k, f[k - 1])
    <3>1. k - 1 \in 0 .. n
      BY <1>1, <2>2
    <3> HIDE DEF T, n
    <3>2. f[k - 1] \in T
      BY <1>4, <3>1
    <3> QED
      BY <3>2
  <2>3. f = [k \in 0 .. n |-> IF k = 0 THEN <<>> ELSE Gather(id, k, f[k - 1])]
    <3>1. \A k \in 0 .. n : (IF k = 0 THEN <<>> ELSE next[<<k, f[k - 1]>>]) =
                                IF k = 0 THEN <<>> ELSE Gather(id, k, f[k - 1])
      <4> HIDE DEF next, n
      <4> QED
        BY <2>2
    <3> HIDE DEF next
    <3> QED
      BY <2>1, <3>1, Zenon
  <2> QED
    BY <2>3, Zenon DEF Gather, IsOf
<1> DEFINE g == CHOOSE h : Is(h)
<1>6. Is(g)
  <2> HIDE DEF Is
  <2> QED
    BY <1>5
<1>7. Segs!Points(id) = g[n]
  BY DEF Segs!Points
<1> DEFINE u == g
<1>8. Is(u) /\ Segs!Points(id) = u[n]
  BY <1>6, <1>7
<1> HIDE DEF u, g
<1>9. \A k \in 0 .. n : u[k] = IF k = 0 THEN <<>> ELSE Gather(id, k, u[k - 1])
  BY <1>8, Zenon DEF Gather, IsOf
<1> DEFINE S == {k \in 0 .. n : Gathered(id, k, u[k])}
<1>10. 0 \in S
  <2>1. u[0] = <<>> /\ 0 \in 0 .. n
    BY <1>1, <1>9
  <2>2. Gathered(id, 0, <<>>)
    <3>1. <<0, <<>>>> \in I
      BY <1>3 DEF Keeps
    <3> QED
      BY <3>1
  <2> QED
    BY <2>1, <2>2
<1>11. ASSUME NEW k \in 0 .. n - 1, k \in S PROVE k + 1 \in S
  <2>1. k + 1 \in 1 .. n /\ (k + 1) - 1 = k /\ k + 1 \in 0 .. n /\ k + 1 # 0
    BY <1>1
  <2>2. u[k + 1] = Gather(id, k + 1, u[k])
    <3> HIDE DEF n
    <3> QED
      BY <1>9, <2>1
  <2>3. Gathered(id, k + 1, Gather(id, k + 1, u[k]))
    BY <1>2, <1>11, <2>1
  <2> QED
    BY <2>1, <2>2, <2>3
<1>12. n \in S
  <2>1. n \in 0 .. n
    BY <1>1
  <2> HIDE DEF S
  <2> QED
    BY <1>1, <1>10, <1>11, <2>1, UpTo
<1> QED
  BY <1>8, <1>12

\* The places half-way between pairs of pixels.
Middles(L) == {<<l[1][2] + l[2][2], l[1][1] + l[2][1]>> : l \in L}

\* Hence it has every place half-way along its links, and only those.
LEMMA ClusterOK ==
    ASSUME Segs!ImageAssumption, NEW id
    PROVE  LET c == Segs!Points(id) IN
           /\ c \in Seq(Members(c))
           /\ \A e \in Members(c) : e.x \in Int /\ e.y \in Int
           /\ PlacesOf(Members(c)) = Middles({l \in Segs!Links : Segs!Id(l) = id})
<1> DEFINE c == Segs!Points(id)
           L == {l \in Segs!Links : Segs!Id(l) = id}
           n == Segs!NLinks
<1>1. /\ {Segs!Link(k) : k \in 1 .. n} = Neighbours /\ n \in Nat
      /\ Neighbours \in SUBSET PixelPairs
  BY LinkOK
<1>2. Gathered(id, n, c)
  BY <1>1, PointsOK
<1> HIDE DEF c
<1>3. Members(c) = {Segs!Point(l) : l \in L}
  <2>1. Members(c) = {Segs!Point(Segs!Link(j)) : j \in {i \in 1 .. n : IsOf(id, i)}}
    BY <1>2 DEF Gathered
  <2>2. L = {Segs!Link(j) : j \in {i \in 1 .. n : IsOf(id, i)}}
    BY DEF Segs!Links, IsOf
  <2> HIDE DEF L, n
  <2> QED
    BY <2>1, <2>2
<1>4. L \subseteq PixelPairs
  BY <1>1 DEF Segs!Links
<1>5. ASSUME NEW l \in L
      PROVE  /\ Segs!Point(l).x = l[1][2] + l[2][2] /\ Segs!Point(l).y = l[1][1] + l[2][1]
             /\ Segs!Point(l).x \in Int /\ Segs!Point(l).y \in Int
             /\ Place(Segs!Point(l)) = <<l[1][2] + l[2][2], l[1][1] + l[2][1]>>
  <2>1. Segs!Point(l).x = l[1][2] + l[2][2] /\ Segs!Point(l).y = l[1][1] + l[2][1]
    BY DEF Segs!Point
  <2>2. l[1][1] \in Int /\ l[1][2] \in Int /\ l[2][1] \in Int /\ l[2][2] \in Int
    <3>1. l[1] \in Segs!Pixels /\ l[2] \in Segs!Pixels
      BY <1>4 DEF PixelPairs
    <3>2. Height - 1 \in Int /\ Width - 1 \in Int
      BY DEF Segs!ImageAssumption
    <3> QED
      BY <3>1, <3>2 DEF Segs!Pixels
  <2> QED
    BY <2>1, <2>2 DEF Place
<1> HIDE DEF L
<1>6. \A e \in Members(c) : e.x \in Int /\ e.y \in Int
  BY <1>3, <1>5
<1>7. PlacesOf(Members(c)) = Middles(L)
  BY <1>3, <1>5 DEF PlacesOf, Middles
<1>8. c \in Seq(Members(c))
  <2>1. c \in Seq(AllPoints)
    BY <1>2 DEF Gathered
  <2>2. Members(c) = {c[i] : i \in 1 .. Len(c)}
    BY <2>1, FiniteMembers
  <2>3. c \in [1 .. Len(c) -> Members(c)] /\ Len(c) \in Nat
    BY <2>1, <2>2
  <2> QED
    BY <2>3
<1> QED
  BY <1>6, <1>7, <1>8 DEF c, L

-----------------------------------------------------------------------------
(* BordersOnce *)

\* A tree is of one colour.
LEMMA SameValue ==
    ASSUME NEW r, Joins(r, Within(Segs!Connected)),
           NEW p \in Segs!Pixels, NEW q \in Segs!Pixels, r[p] = r[q]
    PROVE  Segs!Value(p) = Segs!Value(q)
<1> DEFINE S == {s \in Segs!Pixels : Segs!Value(s) = Segs!Value(p)}
<1>1. Closed(S, Within(Segs!Connected))
  <2> SUFFICES ASSUME NEW e \in Within(Segs!Connected) PROVE e[1] \in S <=> e[2] \in S
    BY DEF Closed
  <2>1. e[1] \in Segs!Pixels /\ e[2] \in Segs!Pixels /\ Linked(e[1], e[2])
    BY DEF Within, PixelPairs
  <2>2. Segs!Value(e[1]) = Segs!Value(e[2])
    BY <2>1 DEF Linked, Segs!Value
  <2> QED
    BY <2>1, <2>2
<1>2. S \in SUBSET Segs!Pixels /\ p \in S
  OBVIOUS
<1> HIDE DEF S
<1>3. q \in S
  BY <1>1, <1>2 DEF Joins
<1> QED
  BY <1>3 DEF S

\* The pairs of neighbours on either side of a border, as BordersOnce says it.
SegmentOf(id) == UNION {Segs!Component(Segs!Edges, p) : p \in id}
Bordering(id) ==
    {q \in Segs!Inner \X SegmentOf(id) :
        /\ q[1] \in SegmentOf(id) /\ Segs!Value(q[1]) # Segs!Value(q[2])
        /\ \E d \in Segs!Range(Segs!Ways) : q[2] = Segs!Moved(q[1], d)}

\* They are the links of the cluster.
LEMMA BetweenOK ==
    ASSUME Segs!ImageAssumption, image \in Images, Forest(forest, Within(Segs!Connected)),
           NEW l0 \in Segs!Links
    PROVE  Bordering(Segs!Id(l0)) = {l \in Segs!Links : Segs!Id(l) = Segs!Id(l0)}
<1>1. PICK r : Rooted(forest, r) /\ Joins(r, Within(Segs!Connected))
  BY DEF Forest
<1>2. \A p \in Segs!Pixels : /\ r[p] \in Segs!Pixels /\ r[r[p]] = r[p]
                             /\ Segs!Root(forest, p) = r[p]
                             /\ Segs!Component(Segs!Edges, r[p]) = Class(r, r[p])
  <2>1. \A p \in Segs!Pixels : r[p] \in Segs!Pixels /\ r[r[p]] = r[p]
    BY <1>1 DEF Rooted
  <2>2. \A p \in Segs!Pixels : Segs!Root(forest, p) = r[p]
    BY <1>1, RootOK
  <2>3. ASSUME NEW p \in Segs!Pixels
        PROVE  Segs!Component(Segs!Edges, r[p]) = Class(r, r[p])
    BY <1>1, TreeOK
  <2> QED
    BY <2>1, <2>2, <2>3
<1>3. \A p \in Segs!Pixels : Segs!Value(p) \in {0, 127, 255}
  <2>1. image \in [0 .. Height - 1 -> [0 .. Width - 1 -> {0, 127, 255}]]
    BY DEF Segs!ImageAssumption
  <2>2. \A y \in 0 .. Height - 1 : image[y] \in [0 .. Width - 1 -> {0, 127, 255}]
    BY <2>1
  <2> TAKE p \in Segs!Pixels
  <2>3. p[1] \in 0 .. Height - 1 /\ p[2] \in 0 .. Width - 1
    BY DEF Segs!Pixels
  <2>4. image[p[1]] \in [0 .. Width - 1 -> {0, 127, 255}]
    BY <2>2, <2>3
  <2> DEFINE row == image[p[1]]
             x == p[2]
  <2>5. row[x] \in {0, 127, 255}
    <3>1. row \in [0 .. Width - 1 -> {0, 127, 255}] /\ x \in 0 .. Width - 1
      BY <2>3, <2>4
    <3> HIDE DEF row, x
    <3> QED
      BY <3>1
  <2> QED
    BY <2>5 DEF Segs!Value
<1>4. /\ Segs!Links = {l \in Neighbours : Segs!Differ(l)}
      /\ \A l \in Neighbours : l[1] \in Segs!Pixels /\ l[2] \in Segs!Pixels
  BY LinkOK DEF Segs!Links, PixelPairs
<1>5. \A l \in Neighbours : Segs!Id(l) = {r[l[1]], r[l[2]]}
  BY <1>2, <1>4 DEF Segs!Id
<1>6. \A l \in Neighbours :
          Segs!Differ(l) <=> \/ Segs!Value(l[1]) = 0 /\ Segs!Value(l[2]) = 255
                             \/ Segs!Value(l[1]) = 255 /\ Segs!Value(l[2]) = 0
  BY <1>3, <1>4 DEF Segs!Differ
<1> DEFINE a == l0[1]
           b == l0[2]
           id == Segs!Id(l0)
<1>7. /\ a \in Segs!Pixels /\ b \in Segs!Pixels /\ id = {r[a], r[b]}
      /\ \/ Segs!Value(a) = 0 /\ Segs!Value(b) = 255
         \/ Segs!Value(a) = 255 /\ Segs!Value(b) = 0
  BY <1>4, <1>5, <1>6
<1> HIDE DEF a, b, id
<1>8. \A p : p \in SegmentOf(id) <=> p \in Segs!Pixels /\ r[p] \in id
  <2>1. \A p : p \in SegmentOf(id) <=> \E s \in id : p \in Segs!Component(Segs!Edges, s)
    BY DEF SegmentOf
  <2>2. \A s \in id : Segs!Component(Segs!Edges, s) = Class(r, s)
    BY <1>2, <1>7
  <2> QED
    BY <2>1, <2>2 DEF Class
<1>9. ASSUME NEW q \in Bordering(id) PROVE q \in Segs!Links /\ Segs!Id(q) = id
  <2>1. PICK p \in Segs!Inner, s \in SegmentOf(id) : q = <<p, s>>
    BY DEF Bordering
  <2>2. /\ q[1] = p /\ q[2] = s /\ p \in SegmentOf(id) /\ Segs!Value(p) # Segs!Value(s)
        /\ \E d \in Segs!Range(Segs!Ways) : s = Segs!Moved(p, d)
    BY <2>1 DEF Bordering
  <2>3. q \in Neighbours
    BY <2>1, <2>2, WaysOK DEF Neighbours
  <2>4. p \in Segs!Pixels /\ s \in Segs!Pixels /\ r[p] \in id /\ r[s] \in id
    BY <1>8, <2>2
  <2>5. \A t \in Segs!Pixels : r[t] \in id => \/ r[t] = r[a] /\ Segs!Value(t) = Segs!Value(a)
                                              \/ r[t] = r[b] /\ Segs!Value(t) = Segs!Value(b)
    BY <1>1, <1>7, SameValue
  <2>6. \/ r[p] = r[a] /\ Segs!Value(p) = Segs!Value(a)
           /\ r[s] = r[b] /\ Segs!Value(s) = Segs!Value(b)
        \/ r[p] = r[b] /\ Segs!Value(p) = Segs!Value(b)
           /\ r[s] = r[a] /\ Segs!Value(s) = Segs!Value(a)
    BY <2>2, <2>4, <2>5
  <2>7. Segs!Id(q) = id
    BY <1>5, <1>7, <2>2, <2>3, <2>6
  <2>8. Segs!Differ(q)
    BY <1>6, <1>7, <2>2, <2>3, <2>6
  <2> QED
    BY <1>4, <2>3, <2>7, <2>8
<1>10. ASSUME NEW l \in Segs!Links, Segs!Id(l) = id PROVE l \in Bordering(id)
  <2>1. l \in Neighbours /\ Segs!Differ(l)
    BY <1>4
  <2>2. PICK p \in Segs!Inner, d \in Ways4 : l = <<p, Segs!Moved(p, d)>>
    BY <2>1 DEF Neighbours
  <2>3. l[1] = p /\ l[2] = Segs!Moved(p, d)
    BY <2>2
  <2>4. l[1] \in SegmentOf(id) /\ l[2] \in SegmentOf(id)
    BY <1>4, <1>5, <1>8, <1>10, <2>1
  <2>5. Segs!Value(l[1]) # Segs!Value(l[2])
    BY <1>6, <2>1
  <2>6. l \in Segs!Inner \X SegmentOf(id)
    BY <2>2, <2>3, <2>4
  <2> QED
    BY <2>3, <2>4, <2>5, <2>6, WaysOK DEF Bordering
<1> QED
  BY <1>9, <1>10 DEF id

\* The points of a cluster are those between its segments.
Collected(id, c) ==
    /\ c \in Seq(Members(c)) /\ \A e \in Members(c) : e.x \in Int /\ e.y \in Int
    /\ PlacesOf(Members(c)) = Middles(Bordering(id))

\* What the clusters are when they are found, and when they are in order; the image and
\* the threads that found its segments stay the same until then.
BorderInv ==
    /\ stage # "none" => image \in Images
    /\ stage = "clustered" => \A id \in DOMAIN clusters : Collected(id, clusters[id])
    /\ stage = "ordered" =>
           \A id \in DOMAIN clusters :
               clusters[id] # <<>> => Walk(clusters[id], Middles(Bordering(id)))

LEMMA BorderInit == Init => BorderInv
  BY DEF Init, Segs!Init, BorderInv

\* Cluster is where the forest is looked at, whose trees are the components by then.
LEMMA BorderStep ==
    ASSUME Segs!ImageAssumption, SegmentsInv, BorderInv, [Next]_vars
    PROVE  BorderInv'
<1>1. Segs!Next \/ UNCHANGED segsVars
  BY StepOfSegments
<1>2. CASE Segs!Begin
  BY <1>2 DEF Segs!Begin, BorderInv
<1>3. CASE (\E k \in DOMAIN lines : Segs!DoTask(k)) \/ Segs!Stitch
  <2>1. /\ stage = "run" /\ stage' \in {"run", "stitched"} /\ image' = image
    BY <1>3 DEF Segs!DoTask, Segs!Stitch
  <2> QED
    BY <2>1 DEF BorderInv
<1>4. ASSUME image' = image, threads' = threads
      PROVE  \A id : Middles(Bordering(id))' = Middles(Bordering(id))
  BY <1>4 DEF Middles, Bordering, SegmentOf, Segs!Edges, Segs!Touch, Segs!Connected,
              Segs!Value
<1>5. CASE Segs!Cluster
  <2>1. /\ stage = "stitched" /\ stage' = "clustered" /\ image' = image /\ threads' = threads
        /\ clusters' = [id \in {Segs!Id(l) : l \in Segs!Links} |-> Segs!Points(id)]
    BY <1>5 DEF Segs!Cluster
  <2>2. image \in Images /\ Forest(forest, Within(Segs!Connected))
    BY <2>1 DEF BorderInv, SegmentsInv
  <2>3. ASSUME NEW id \in DOMAIN clusters' PROVE Collected(id, clusters'[id])
    <3>1. PICK l0 \in Segs!Links : id = Segs!Id(l0)
      BY <2>1
    <3>2. clusters'[id] = Segs!Points(id)
      BY <2>1
    <3>3. Bordering(id) = {l \in Segs!Links : Segs!Id(l) = id}
      BY <2>2, <3>1, BetweenOK
    <3>4. LET c == Segs!Points(id) IN
          /\ c \in Seq(Members(c))
          /\ \A e \in Members(c) : e.x \in Int /\ e.y \in Int
          /\ PlacesOf(Members(c)) = Middles({l \in Segs!Links : Segs!Id(l) = id})
      BY ClusterOK, Zenon
    <3> QED
      BY <3>2, <3>3, <3>4 DEF Collected
  <2>4. \A id : Middles(Bordering(id))' = Middles(Bordering(id))
    BY <1>4, <2>1
  <2>5. \A id \in DOMAIN clusters' : Collected(id, clusters[id])'
    BY <2>3, <2>4 DEF Collected
  <2> QED
    BY <2>1, <2>2, <2>5 DEF BorderInv
<1>6. CASE Segs!FitQuads
  <2>1. /\ stage = "clustered" /\ stage' = "ordered" /\ image' = image /\ threads' = threads
        /\ clusters' = [id \in DOMAIN clusters |-> Segs!Ordered(clusters[id])]
    BY <1>6 DEF Segs!FitQuads
  <2>2. ASSUME NEW id \in DOMAIN clusters', clusters'[id] # <<>>
        PROVE  Walk(clusters'[id], Middles(Bordering(id)))
    <3>1. clusters'[id] = Segs!Ordered(clusters[id]) /\ Collected(id, clusters[id])
      BY <2>1 DEF BorderInv
    <3>2. Walk(Segs!Ordered(clusters[id]), PlacesOf(Members(clusters[id])))
      BY <2>2, <3>1, OrderedOK DEF Collected
    <3> QED
      BY <3>1, <3>2 DEF Collected
  <2>3. \A id : Middles(Bordering(id))' = Middles(Bordering(id))
    BY <1>4, <2>1
  <2>4. \A id \in DOMAIN clusters' :
            clusters'[id] # <<>> => Walk(clusters'[id], Middles(Bordering(id))')
    BY <2>2, <2>3
  <2> QED
    BY <2>1, <2>4 DEF BorderInv
<1>7. CASE Segs!Destroy
  BY <1>7 DEF Segs!Destroy, BorderInv
<1>8. CASE UNCHANGED segsVars
  <2>1. UNCHANGED <<image, threads, clusters, stage>>
    BY <1>8 DEF segsVars
  <2>2. \A id : Middles(Bordering(id))' = Middles(Bordering(id))
    BY <1>4, <2>1
  <2>3. \A id : Collected(id, clusters[id])' <=> Collected(id, clusters[id])
    BY <2>1, <2>2 DEF Collected
  <2> QED
    BY <2>1, <2>2, <2>3 DEF BorderInv
<1> QED
  BY <1>1, <1>2, <1>3, <1>5, <1>6, <1>7, <1>8 DEF Segs!Next

\* No two points of a kept cluster at different places lie at one angle.  In a large
\* image two may: the noise is a fixed direction, 34 half pixels across to 19 up.
AnglesDiffer ==
    stage = "ordered" =>
        \A id \in DOMAIN clusters : \A i, j \in 1 .. Len(clusters[id]) :
            LET walk == clusters[id]
                u == Segs!Off(walk, walk[i])
                v == Segs!Off(walk, walk[j])
            IN Place(walk[i]) # Place(walk[j]) => Segs!Lower(u, v) \/ Segs!Lower(v, u)

\* A cluster that is kept has every point between its two segments, none twice in a row,
\* and the angles of its points never decrease.
BordersWalked ==
    stage = "ordered" =>
        \A id \in DOMAIN clusters :
            clusters[id] # <<>> => Walk(clusters[id], Middles(Bordering(id)))

\* Then it has each point once, if no two lie at one angle.
LEMMA OnceOK ==
    ASSUME BordersWalked, AnglesDiffer
    PROVE  BordersOnce
<1>1. SUFFICES ASSUME stage = "ordered",
                      NEW id \in {i \in DOMAIN clusters : clusters[i] # <<>>}
      PROVE  LET walk == clusters[id] IN
             /\ {<<p.x, p.y>> : p \in Segs!Range(walk)} = Middles(Bordering(id))
             /\ \A i \in 1 .. Len(walk) - 1 :
                    Segs!Lower(Segs!Off(walk, walk[i]), Segs!Off(walk, walk[i + 1]))
  BY Zenon DEF BordersOnce, Segs!BordersOnce, Middles, Bordering, SegmentOf
<1> DEFINE walk == clusters[id]
           n == Len(walk)
<1>2. Walk(walk, Middles(Bordering(id)))
  BY <1>1 DEF BordersWalked
<1>3. \A i, j \in 1 .. n : Place(walk[i]) # Place(walk[j]) =>
          \/ Segs!Lower(Segs!Off(walk, walk[i]), Segs!Off(walk, walk[j]))
          \/ Segs!Lower(Segs!Off(walk, walk[j]), Segs!Off(walk, walk[i]))
  BY <1>1 DEF AnglesDiffer
<1> HIDE DEF walk
<1>4. n \in Nat /\ Segs!Range(walk) = Members(walk)
  BY <1>2, FiniteMembers DEF Walk, Points
<1>5. {<<p.x, p.y>> : p \in Segs!Range(walk)} = Middles(Bordering(id))
  BY <1>2, <1>4 DEF Walk, PlacesOf, Place
<1>6. ASSUME NEW i \in 1 .. n - 1
      PROVE  Segs!Lower(Segs!Off(walk, walk[i]), Segs!Off(walk, walk[i + 1]))
  <2>1. i \in 1 .. n /\ i + 1 \in 1 .. n /\ i < i + 1
    BY <1>4
  <2>2. Place(walk[i]) # Place(walk[i + 1])
    BY <1>2 DEF Walk
  <2>3. ~Segs!Lower(Segs!Off(walk, walk[i + 1]), Segs!Off(walk, walk[i]))
    BY <1>2, <2>1 DEF Walk
  <2> QED
    BY <1>3, <2>1, <2>2, <2>3
<1> QED
  BY <1>5, <1>6 DEF walk

\* For images of any size and any number of threads, and in whatever order merge sort and
\* networks leave points of one angle: a cluster that is kept has every point of the
\* border between its two segments, none twice in a row, and their angles never decrease;
\* if no two places lie at one angle, it has each once (apriltag_quad_thresh.c:119-232,
\* 690-777, 1572-1640).
THEOREM BordersAreWalked == Spec => [](BordersWalked /\ (AnglesDiffer => BordersOnce))
<1>1. Segs!ImageAssumption /\ Target \in Nat \ {0} /\ MaxThreads \in Nat
  BY PartsAssumption DEF Pool!ChunkAssumption, Pool!PoolAssumption
<1>2. Init => SegmentsInv /\ BorderInv
  BY SegmentsInit, BorderInit
<1>3. SegmentsInv /\ BorderInv /\ [Next]_vars => (SegmentsInv /\ BorderInv)'
  BY <1>1, SegmentsStep, BorderStep
<1>4. BorderInv => BordersWalked /\ (AnglesDiffer => BordersOnce)
  <2>1. BorderInv => BordersWalked
    BY DEF BorderInv, BordersWalked
  <2> QED
    BY <2>1, OnceOK
<1> QED
  BY <1>2, <1>3, <1>4, PTL DEF Spec
=============================================================================
