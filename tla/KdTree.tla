------------------------------- MODULE KdTree -------------------------------
(***************************************************************************)
(* KdTree<T> (kdtree.inl) over points of the plane: building it by         *)
(* selecting the median along the longer side of the bounds, and the       *)
(* search for the nearest point other than the one asked for.  Points and  *)
(* nodes are numbered from zero; coordinates are integers.                 *)
(***************************************************************************)
EXTENDS Integers, Sequences, FiniteSets

CONSTANTS Points, Queries,    \* points in the tree and points asked for
          MaxPoints, BucketSize,     \* at least 2
          Infinity            \* above every square of a distance

VARIABLES points,    \* m_points
          nodes,     \* m_nodes: [axis, split, children, offset, count]; axis 3 is a leaf
          given,     \* the points the tree was made of
          query, found

vars == <<points, nodes, given, query, found>>

Init == points = <<>> /\ nodes = <<>> /\ given = <<>> /\ query = <<>> /\ found = -1

X(s, i) == s[i + 1]    \* counted from zero
Swap(s, i, k) == [s EXCEPT ![i + 1] = s[k + 1], ![k + 1] = s[i + 1]]
-----------------------------------------------------------------------------
(* Partition: [points, cur], with points up to the pivot's value before    *)
(* cur and the pivot at cur.                                               *)
RECURSIVE Sweep(_, _, _, _, _, _)
Sweep(s, i, cur, right, value, axis) ==
    IF i = right THEN [points |-> Swap(s, cur, right), cur |-> cur]
    ELSE IF X(s, i)[axis] <= value THEN Sweep(Swap(s, i, cur), i + 1, cur + 1, right, value, axis)
         ELSE Sweep(s, i + 1, cur, right, value, axis)
Partition(s, left, right, pivot, axis) ==
    Sweep(Swap(s, pivot, right), left, left, right, X(s, pivot)[axis], axis)

(* Mistake: on the right side k is still counted from the old left end. *)
RECURSIVE SelectKeepingK(_, _, _, _, _)
SelectKeepingK(s, left, right, k, axis) ==
    LET part == Partition(s, left, right, left + ((right - left) \div 2), axis)
        toPivot == part.cur - left
    IN  IF left >= right THEN s
        ELSE CASE toPivot = k -> part.points
               [] k < toPivot -> SelectKeepingK(part.points, left, part.cur - 1, k, axis)
               [] OTHER -> SelectKeepingK(part.points, part.cur + 1, right, k, axis)
RECURSIVE Select(_, _, _, _, _)
Select(s, left, right, k, axis) ==
    LET part == Partition(s, left, right, left + ((right - left) \div 2), axis)
        toPivot == part.cur - left
    IN  IF left >= right THEN s
        ELSE CASE toPivot = k -> part.points
               [] k < toPivot -> Select(part.points, left, part.cur - 1, k, axis)
               [] OTHER -> Select(part.points, part.cur + 1, right, k - (toPivot + 1), axis)

(* Box2. *)
Box(s) == [min |-> [a \in 1 .. 2 |-> CHOOSE v \in {s[k][a] : k \in DOMAIN s} : \A k \in DOMAIN s : v <= s[k][a]],
           max |-> [a \in 1 .. 2 |-> CHOOSE v \in {s[k][a] : k \in DOMAIN s} : \A k \in DOMAIN s : v >= s[k][a]]]
MajorAxis(box) == IF box.max[2] - box.min[2] > box.max[1] - box.min[1] THEN 2 ELSE 1

(* The tree of len points from offset on, behind the nodes there are.      *)
RECURSIVE Build(_, _, _, _)
Build(t, box, offset, len) ==
    LET idx == Len(t.nodes)
        half == len \div 2
        axis == MajorAxis(box)
        selected == SubSeq(t.points, 1, offset)
                    \o Select(SubSeq(t.points, offset + 1, offset + len), 0, len - 1, half, axis)
                    \o SubSeq(t.points, offset + len + 1, Len(t.points))
        split == X(selected, offset + half)[axis]
        node == [axis |-> axis, split |-> split, children |-> <<-1, -1>>, offset |-> offset, count |-> len]
        left == Build([points |-> selected, nodes |-> Append(t.nodes, node)],
                      [box EXCEPT !.max[axis] = split], offset, half)
        right == Build(left, [box EXCEPT !.min[axis] = split], offset + half, len - half)
    IN  IF len <= BucketSize
        THEN [t EXCEPT !.nodes = Append(@, [axis |-> 3, split |-> 0, children |-> <<-1, -1>>,
                                            offset |-> offset, count |-> len])]
        ELSE [right EXCEPT !.nodes[idx + 1].children = <<idx + 1, Len(left.nodes)>>]

InitTree(s) ==
    LET t == Build([points |-> s, nodes |-> <<>>], IF s = <<>> THEN [min |-> <<0, 0>>, max |-> <<0, 0>>] ELSE Box(s),
                   0, Len(s))
    IN  /\ nodes = <<>>    \* called once: Init clears neither nodes nor bounds
        /\ points' = t.points /\ nodes' = t.nodes /\ given' = s
        /\ UNCHANGED <<query, found>>

LengthSq(p, q) == (p[1] - q[1]) * (p[1] - q[1]) + (p[2] - q[2]) * (p[2] - q[2])

(* NearestBody: best is [idx, r2]; near is the point of the regions        *)
(* crossed so far that is nearest to p, in the coordinates set.            *)
RECURSIVE Scan(_, _, _, _)
Scan(i, end, p, best) ==
    IF i = end THEN best
    ELSE LET d2 == LengthSq(X(points, i), p) IN
         Scan(i + 1, end, p, IF d2 > 0 /\ d2 < best.r2 THEN [idx |-> i, r2 |-> d2] ELSE best)
RECURSIVE NearestBody(_, _, _, _)
NearestBody(n, p, near, best) ==
    LET node == X(nodes, n)
        first == IF p[node.axis] > node.split THEN 2 ELSE 1
        here == NearestBody(node.children[first], p, near, best)
        cut == [near EXCEPT ![node.axis] = node.split]
    IN  IF node.axis = 3 THEN Scan(node.offset, node.offset + node.count, p, best)
        ELSE IF LengthSq(cut, p) < here.r2 THEN NearestBody(node.children[3 - first], p, cut, here)
        ELSE here
Nearest(p) ==
    /\ nodes # <<>>
    /\ query' = p /\ found' = NearestBody(0, p, p, [idx |-> -1, r2 |-> Infinity]).idx
    /\ UNCHANGED <<points, nodes, given>>

Next == \/ \E n \in 0 .. MaxPoints : \E s \in [1 .. n -> Points] : InitTree(s)
        \/ query = <<>> /\ \E p \in Queries : Nearest(p)
Spec == Init /\ [][Next]_vars
-----------------------------------------------------------------------------
(* Building the tree reorders the points and loses none, and every node    *)
(* splits its own: none left of it lies behind the split, none right of it *)
(* before (what Validate looks for, kdtree.inl:79).                        *)
TreeSplits ==
    /\ \A p \in Points : Cardinality({k \in DOMAIN points : points[k] = p})
                         = Cardinality({k \in DOMAIN given : given[k] = p})
    /\ \A k \in DOMAIN nodes : nodes[k].axis # 3 =>
          \A side \in 1 .. 2 :
              LET child == X(nodes, nodes[k].children[side]) IN
              \A i \in child.offset .. child.offset + child.count - 1 :
                  LET v == X(points, i)[nodes[k].axis] IN
                  IF side = 1 THEN v <= nodes[k].split ELSE v >= nodes[k].split

(* The point found is as near as any, leaving out those at the place asked *)
(* for, although whole subtrees are skipped (kdtree.inl:202).              *)
NearestIsNearest ==
    query # <<>> =>
        LET others == {k \in DOMAIN points : points[k] # query} IN
        IF others = {} THEN found = -1
        ELSE found + 1 \in others /\ \A k \in others : LengthSq(X(points, found), query) <= LengthSq(points[k], query)
=============================================================================
