---------------------------- MODULE BodyContour ----------------------------
(***************************************************************************)
(* body_ax/src: the contour of a body of revolution, made of straight      *)
(* segments or of one half circle, cut into elements; the points where the *)
(* flow's equations are set up; the starts of the streamlines; and the     *)
(* knots of the quadrature (elm_line.tcc, body_ax_geo.tcc,                 *)
(* gauss_legendre.tcc).                                                    *)
(*                                                                         *)
(* Arithmetic is exact: coordinates are integers that all divisions in     *)
(* use divide, ratios are pairs <<numerator, denominator>>.  Straight      *)
(* segments have unit vectors in fifths; areas are in units of 2 * pi.     *)
(***************************************************************************)
EXTENDS Integers, Sequences, SequencesExt

CONSTANTS Vortex(_, _),     \* lvr_fs: what a ring through one point adds at another, [u, v]
          Cos(_), Sin(_),   \* of an angle in units of pi / HalfTurn
          HalfTurn

Unit == 5
One  == <<1, 1>>

Power(q, k)   == <<q[1] ^ k, q[2] ^ k>>
Reciprocal(q) == <<q[2], q[1]>>

Scaled(v, q) == IF q[2] < 0 THEN (-v * q[1]) \div (-q[2]) ELSE (v * q[1]) \div q[2]

From(a, b) == [x |-> b.x - a.x, y |-> b.y - a.y]
Times(d, q) == [x |-> Scaled(d.x, q), y |-> Scaled(d.y, q)]

\* std::sqrt, for squares.
Root(v) ==
  LET root[lo \in Nat, hi \in Nat] ==
        LET m == (lo + hi) \div 2
        IN  CASE hi - lo = 1 -> lo
              [] hi - lo > 1 -> IF m * m <= v THEN root[m, hi] ELSE root[lo, m]
  IN  root[0, 32768]

Length(d) == Root(d.x * d.x + d.y * d.y)

-----------------------------------------------------------------------------
(* Elements of a line.                                                     *)

Shifted(p, d) == [x |-> p.x + d.x, y |-> p.y + d.y, s |-> p.s + Length(d)]

\* k more elements, each q times as long as the one before.
Prolong(line, k, q) ==
  FoldLeft(LAMBDA l, i : [nodes |-> Append(l.nodes, Shifted(Last(l.nodes), l.delta)), delta |-> Times(l.delta, q)],
           line, [i \in 1 .. k |-> i])

\* Mutation of Descend: the step back is forgotten.
DescendLate(line, back, k, alpha) == Prolong(line, k, Reciprocal(alpha))

\* k more elements, after the length has been taken back so many steps.
Descend(line, back, k, alpha) ==
  Prolong([line EXCEPT !.delta = Times(@, Reciprocal(Power(alpha, back)))], k, Reciprocal(alpha))

\* The share of the first of n elements, and of an odd number n of elements
\* that grow up to the middle one.
Share(alpha, n) ==
  IF alpha = One THEN <<1, n>>
  ELSE <<(alpha[2] - alpha[1]) * alpha[2] ^ (n - 1), alpha[2] ^ n - alpha[1] ^ n>>
OddShare(alpha, n) ==
  LET h == (n + 1) \div 2
  IN  IF alpha = One THEN <<1, n + 1>>
      ELSE <<(alpha[2] - alpha[1]) * alpha[2] ^ (h - 1), 2 * alpha[2] ^ h - alpha[1] ^ h - alpha[1] ^ (h - 1) * alpha[2]>>

Middle(p, q) == [x |-> (p.x + q.x) \div 2, y |-> (p.y + q.y) \div 2, s |-> (p.s + q.s) \div 2]

\* The ratio of the source is the power of alpha whose root it takes.
elm_line(n, alpha, a, b, sinit, isym) ==
  LET first       == [x |-> a.x, y |-> a.y, s |-> sinit]
      half        == n \div 2
      mid         == Middle(first, [x |-> b.x, y |-> b.y, s |-> sinit])
      Begin(c, q) == [nodes |-> <<first>>, delta |-> Times(From(a, c), q)]
      line ==
        CASE n = 1 -> Prolong(Begin(b, One), 1, One)
          [] n > 1 /\ ~isym -> Prolong(Begin(b, Share(alpha, n)), n, alpha)
          [] n = 2 /\ isym -> Prolong(Begin(mid, One), 2, One)
          [] n > 2 /\ isym /\ n % 2 = 0 ->
               Descend(Prolong(Begin(mid, Share(alpha, half)), half, alpha), 1, half, alpha)
          [] n > 2 /\ isym /\ n % 2 = 1 ->
               Descend(Prolong(Begin(b, OddShare(alpha, n)), half + 1, alpha), 2, half, alpha)
  IN  [ends |-> line.nodes, mids |-> [i \in 1 .. n |-> Middle(line.nodes[i], line.nodes[i + 1])]]

-----------------------------------------------------------------------------
(* The contour.                                                            *)

\* What the incident flow and the ring send through the body, taken back.
Blocked(flow, at, n) ==
  LET w == Vortex(at, flow.ring) IN -flow.vx * n.x - flow.cr * (w.u * n.x + w.v * n.y)

\* A point of a straight element from p to q.
OnLine(flow, at, p, q) ==
  LET d == From(p, q)
      l == Length(d)
      t == [x |-> (Unit * d.x) \div l, y |-> (Unit * d.y) \div l]
      n == [x |-> t.y, y |-> -t.x]
  IN  [at |-> at, t |-> t, n |-> n, arel |-> l * at.y, dphidn0 |-> Blocked(flow, at, n)]

\* Mutation of AddSide: the arc length starts again on every side.
AddSideAfresh(flow, contour, side) ==
  LET el == elm_line(side.ne, side.rt, side.a, side.b, 0, TRUE)
  IN  [nodes |-> Append(contour.nodes, el.ends),
       points |-> contour.points \o [i \in 1 .. side.ne |-> OnLine(flow, el.mids[i], el.ends[i], el.ends[i + 1])],
       sinit |-> Last(el.ends).s]

AddSide(flow, contour, side) ==
  LET el == elm_line(side.ne, side.rt, side.a, side.b, contour.sinit, TRUE)
  IN  [nodes |-> Append(contour.nodes, el.ends),
       points |-> contour.points \o [i \in 1 .. side.ne |-> OnLine(flow, el.mids[i], el.ends[i], el.ends[i + 1])],
       sinit |-> Last(el.ends).s]

EmptyContour == [nodes |-> <<>>, points |-> <<>>, sinit |-> 0]

\* The three sides of a triangle; the ring is at its centroid.
Torus(file) ==
  LET v    == file.vertices
      ring == [x |-> (v[1].x + v[2].x + v[3].x) \div 3, y |-> (v[1].y + v[2].y + v[3].y) \div 3]
      flow == [vx |-> file.vx, cr |-> file.cr, ring |-> ring]
  IN  FoldLeft(LAMBDA c, k : AddSide(flow, c, [ne |-> file.ne[k], rt |-> file.rt[k], a |-> v[k], b |-> v[1 + (k % 3)]]),
               EmptyContour, <<1, 2, 3>>)

\* Even arcs of a half circle about a point of the axis.
Sphere(file) ==
  LET dth      == HalfTurn \div file.ne[1]
      flow     == [vx |-> file.vx, cr |-> file.cr, ring |-> [x |-> file.xcenter, y |-> file.rad \div 2]]
      Node(t)  == [x |-> file.xcenter + file.rad * Cos(t), y |-> file.rad * Sin(t), s |-> t * file.rad, angle |-> t]
      Point(t) == LET n == [x |-> Cos(t), y |-> Sin(t)]
                  IN  [at |-> Node(t), t |-> [x |-> -Sin(t), y |-> Cos(t)], n |-> n,
                       arel |-> dth * file.rad * Node(t).y, dphidn0 |-> Blocked(flow, Node(t), n)]
  IN  [nodes  |-> <<[i \in 1 .. file.ne[1] + 1 |-> Node((i - 1) * dth)]>>,
       points |-> [i \in 1 .. file.ne[1] |-> Point(((i - 1) * dth + i * dth) \div 2)],
       sinit  |-> 0]

\* The lines behind the contour's, of which one is skipped, up to one with
\* a 99.  Behind the end of the file nothing is read any more, and the loop
\* goes on with what the variables happen to hold: <<>>, for no end.
Terminators(lines) == {k \in 2 .. Len(lines) : lines[k].x = 99 \/ lines[k].y = 99}
Starts(lines) ==
  SubSeq(lines, 2, (CHOOSE k \in Terminators(lines) : \A m \in Terminators(lines) : k <= m) - 1)

Reads(flow_type, file) == file.opened /\ flow_type \in {50, 51}

body_ax_geo(flow_type, file) ==
  IF ~Reads(flow_type, file) \/ Terminators(file.lines) = {} THEN <<>>
  ELSE <<[contour |-> IF flow_type = 50 THEN Sphere(file) ELSE Torus(file), starts |-> Starts(file.lines)]>>

-----------------------------------------------------------------------------
(* The quadrature.                                                         *)

Tabulated == {1, 2, 3, 4, 5, 6, 8, 12, 20}

\* The knots up to 0 of the rule of order n, by number; -j stands for the
\* opposite of j.
HalfTable(n) == [i \in 1 .. (n + 1) \div 2 |-> [z |-> 2 * i - n - 1, w |-> i]]

\* Mutation of reflect: a knot at 0 is reflected as well.
reflectAll(order, table) ==
  table \o [i \in 1 .. (order + 1) \div 2 |-> LET h == table[(order + 1) \div 2 + 1 - i] IN [z |-> -h.z, w |-> h.w]]

\* conservativeResize keeps the first half.
reflect(order, table) ==
  table \o [i \in 1 .. order \div 2 |-> LET h == table[order \div 2 + 1 - i] IN [z |-> -h.z, w |-> h.w]]

\* Another order takes the table of 20, for which its vectors have no room
\* unless it is 19: Eigen's initialiser then aborts the program, <<>>.
gauss_legendre(order) ==
  LET table == IF order \in Tabulated THEN HalfTable(order) ELSE HalfTable(20)
  IN  IF Len(table) # (order + 1) \div 2 THEN <<>> ELSE reflect(order, table)

-----------------------------------------------------------------------------
(* What the contour promises.                                              *)

Size(ends, i) == ends[i + 1].s - ends[i].s

\* The elements of these lines end before the line does.
Short(n, alpha, isym) == isym /\ n > 1 /\ n % 2 = 1 /\ alpha = One

Reaches(ends, b) == Last(ends).x = b.x /\ Last(ends).y = b.y

\* Elements lead from a to b; the last is as many times as long as the
\* first as was asked for, or the middle one is and they mirror each other.
Graded(n, alpha, a, b, sinit, isym, r) ==
  LET e      == r.ends
      growth == IF n = 2 /\ isym THEN One ELSE alpha
      upTo   == IF isym THEN (n + 1) \div 2 ELSE n
  IN  /\ Len(e) = n + 1 /\ e[1].s = sinit /\ From(e[1], a) = [x |-> 0, y |-> 0]
      /\ ~Short(n, alpha, isym) => Reaches(e, b) /\ e[n + 1].s = sinit + Length(From(a, b))
      /\ \A i \in 1 .. upTo - 1 : Size(e, i + 1) * growth[2] = Size(e, i) * growth[1]
      /\ isym => \A i \in 1 .. n : Size(e, i) = Size(e, n + 1 - i)

\* The elements of all sides, in the order of the points.
Elements(contour) ==
  FlattenSeq([k \in DOMAIN contour.nodes |->
                [l \in 1 .. Len(contour.nodes[k]) - 1 |-> <<contour.nodes[k][l], contour.nodes[k][l + 1]>>]])

\* The contour is closed but for short sides, its arc length grows without a gap, every element
\* has its point, and nothing flows through the body there.
Encloses(flow_type, file, contour) ==
  LET els   == Elements(contour)
      sides == Len(contour.nodes)
      Meets(k, p) == Short(file.ne[k], file.rt[k], TRUE) \/ Reaches(contour.nodes[k], p)
  IN  /\ Len(els) = Len(contour.points)
      /\ \A k \in 1 .. sides - 1 : LET next == contour.nodes[k + 1][1] IN Meets(k, next) /\ Last(contour.nodes[k]).s = next.s
      /\ IF flow_type = 51 THEN Meets(sides, contour.nodes[1][1])
         ELSE contour.nodes[1][1].angle = 0 /\ Last(contour.nodes[1]).angle = HalfTurn
      /\ \A j \in DOMAIN els :
           LET pt == contour.points[j]
               w  == Vortex(pt.at, IF flow_type = 50 THEN [x |-> file.xcenter, y |-> file.rad \div 2]
                                   ELSE [x |-> (file.vertices[1].x + file.vertices[2].x + file.vertices[3].x) \div 3,
                                         y |-> (file.vertices[1].y + file.vertices[2].y + file.vertices[3].y) \div 3])
           IN  /\ els[j][1].s < pt.at.s /\ pt.at.s - els[j][1].s = els[j][2].s - pt.at.s
               /\ pt.t.x * pt.n.x + pt.t.y * pt.n.y = 0
               /\ pt.dphidn0 + (file.vx + file.cr * w.u) * pt.n.x + file.cr * w.v * pt.n.y = 0

\* The starts are the lines between the first and the first one with a 99.
Begun(lines, starts) ==
  /\ IsPrefix(<<lines[1]>> \o starts, lines)
  /\ \A i \in DOMAIN starts : starts[i].x # 99 /\ starts[i].y # 99
  /\ 99 \in {lines[Len(starts) + 2].x, lines[Len(starts) + 2].y}

\* The knots are in order, as many as asked for, and lie evenly about 0.
Balanced(order, rule) ==
  IF order \notin Tabulated THEN order # 19 => rule = <<>>
  ELSE /\ Len(rule) = order
       /\ \A i \in 1 .. order : rule[i].z = -rule[order + 1 - i].z /\ rule[i].w = rule[order + 1 - i].w
       /\ \A i \in 1 .. order - 1 : rule[i].z < rule[i + 1].z
=============================================================================
