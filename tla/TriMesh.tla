------------------------------ MODULE TriMesh ------------------------------
(***************************************************************************)
(* tini_trimesh/tiny_trimesh.h: the numbering of a mesh's vertices, the    *)
(* vertex opposite to a common edge, and the bounding box.                 *)
(*                                                                         *)
(* The numbers are kept in a map that is ordered by operator<, which is no *)
(* order: of two points each may be less than the other.  The map is a     *)
(* search tree; as such a comparison leaves its shape open, a search may   *)
(* look at any node between the bounds it has found, in the order of       *)
(* `map', the sequence of the tree's entries.                              *)
(***************************************************************************)
EXTENDS Integers, FiniteSets, Sequences, SequencesExt

\* Mutation of Less: z decides before y.
LessByZ(p, q) == p.x < q.x \/ p.z < q.z

Less(p, q) == p.x < q.x \/ p.y < q.y \/ p.z < q.z

\* One comparison of a search between two places of the tree: which entry it
\* looks at is left open; in `right' are those that it goes on behind.
Narrowed(between, right) ==
  IF between[1] = between[2] THEN {between}
  ELSE {IF m \in right THEN <<m + 1, between[2]>> ELSE <<between[1], m>> : m \in between[1] .. between[2] - 1}

\* Every place of the tree that a search may end in front of.
Ends(map, right) ==
  LET after[n \in 0 .. Len(map)] ==
        IF n = 0 THEN {<<1, Len(map) + 1>>} ELSE UNION {Narrowed(between, right) : between \in after[n - 1]}
  IN  {between[1] : between \in after[Len(map)]}

\* find goes on behind what is less than p, insert behind what p is not less than.
LowerBounds(map, p) == Ends(map, {k \in DOMAIN map : Less(map[k].point, p)})
Places(map, p)      == Ends(map, {k \in DOMAIN map : ~Less(p, map[k].point)})

\* find: the entry there, unless p is less.
FoundAt(map, p, k) == k <= Len(map) /\ ~Less(p, map[k].point)

\* insert: refused if the entry before is not less.
Inserted(map, p, n, k) ==
  IF k = 1 \/ Less(map[k - 1].point, p) THEN InsertAt(map, k, [point |-> p, index |-> n]) ELSE map

\* addVertex: the meshes it may make of one, with the number it returns.
addVertex(mesh, p) ==
  LET n == Len(mesh.vertices)
  IN  {[mesh EXCEPT !.returned = Append(@, mesh.map[k].index)] :
         k \in {j \in LowerBounds(mesh.map, p) : FoundAt(mesh.map, p, j)}} \cup
      IF \E j \in LowerBounds(mesh.map, p) : ~FoundAt(mesh.map, p, j)
      THEN {[vertices |-> Append(mesh.vertices, p), map |-> Inserted(mesh.map, p, n, k),
             returned |-> Append(mesh.returned, n)] : k \in Places(mesh.map, p)}
      ELSE {}

EmptyMesh == [vertices |-> <<>>, map |-> <<>>, returned |-> <<>>]

addVertices(points) ==
  LET after[n \in 0 .. Len(points)] ==
        IF n = 0 THEN {EmptyMesh} ELSE UNION {addVertex(mesh, points[n]) : mesh \in after[n - 1]}
  IN  after[Len(points)]

\* diffIndices: what is left of the sorted a when each of b is taken out once.
diffIndices(a, b) ==
  SortSeq(FoldLeft(LAMBDA rest, v : IF Contains(rest, v) THEN RemoveFirst(rest, v) ELSE rest, a, b), <)

\* <<>> for std::out_of_range: the number of faces passes the first test.
findOppositeVertexIndex(faces, face_idx, adj_face_idx) ==
  LET n    == Len(faces)
      diff == diffIndices(faces[face_idx + 1], faces[adj_face_idx + 1])
  IN  CASE face_idx > n \/ adj_face_idx > n -> <<-1>>
        [] n \in {face_idx, adj_face_idx} /\ face_idx <= n /\ adj_face_idx <= n -> <<>>
        [] OTHER -> IF Len(diff) = 1 THEN <<diff[1]>> ELSE <<-1>>

Least(s)    == CHOOSE v \in s : \A w \in s : v <= w
Greatest(s) == CHOOSE v \in s : \A w \in s : w <= v

\* Of a mesh that has a vertex.
getXYplaneBB(vertices) ==
  LET xs == {v.x : v \in Range(vertices)}
      ys == {v.y : v \in Range(vertices)}
  IN  <<[x |-> Least(xs), y |-> Least(ys), z |-> 0], [x |-> Greatest(xs), y |-> Greatest(ys), z |-> 0]>>

-----------------------------------------------------------------------------
(* What a mesh promises.                                                   *)

\* operator< orders these points: no two are less than each other.
Ordered(points) == \A p, q \in Range(points) : ~(Less(p, q) /\ Less(q, p))

\* Every number stands for a vertex where the point is, whatever the tree
\* does, and points that operator< orders are numbered once each.
Numbered(points, mesh) ==
  /\ Len(mesh.returned) = Len(points)
  /\ \A k \in DOMAIN points : mesh.vertices[mesh.returned[k] + 1] = points[k]
  /\ Range(mesh.vertices) = Range(points)
  /\ \A i \in DOMAIN mesh.vertices : i - 1 \in Range(mesh.returned)
  /\ Ordered(points) => Len(mesh.vertices) = Cardinality(Range(points))

\* The vertex of a triangle that the edge it shares with another leaves over.
Opposite(faces, i, j, r) ==
  r # <<>> /\ i < Len(faces) /\ j < Len(faces) =>
    LET over == Range(faces[i + 1]) \ Range(faces[j + 1])
    IN  r = IF Cardinality(over) = 1 THEN <<CHOOSE v \in over : TRUE>> ELSE <<-1>>

Encloses(vertices, box) ==
  \A axis \in {"x", "y"} :
    /\ \A v \in Range(vertices) : box[1][axis] <= v[axis] /\ v[axis] <= box[2][axis]
    /\ \A side \in 1 .. 2 : \E v \in Range(vertices) : v[axis] = box[side][axis]
=============================================================================
