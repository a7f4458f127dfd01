------------------------------ MODULE BodyFlow ------------------------------
(***************************************************************************)
(* body_ax/src: the flow about a body of revolution, given its contour --  *)
(* the integrals over an element, the system of equations, the velocity on *)
(* the body and off it, and the streamlines (body_ax_sdlp.tcc,             *)
(* body_ax_vel.tcc, and main in body_ax.cpp).                              *)
(*                                                                         *)
(* The reals are replaced by the integers modulo a prime, so that rules    *)
(* that are exact for polynomials are exact here.  The elliptic integrals  *)
(* become parameters.  Only the streamlines' tests compare: they are over  *)
(* integers.                                                               *)
(***************************************************************************)
EXTENDS Integers, Sequences, SequencesExt

CONSTANTS p,               \* a prime
          Pi,
          Green(_, _),     \* lgf_ax_fs: [g, gx, gs] at a point for a source at another
          Vortex(_, _),    \* lvr_fs: [u, v] at a point for a ring at another
          Log(_), Cos(_), Sin(_),
          Garbage          \* what is read behind the end of an array

F(x)    == x % p
Over(x) == CHOOSE y \in 1 .. p - 1 : F(x * y) = 1
Half    == (p + 1) \div 2
EPS     == Over(100)

Root(x) == CHOOSE r \in 0 .. p \div 2 : F(r * r) = F(x)
Abs(x)  == IF x < 0 THEN -x ELSE x

Total(s) == F(FoldLeft(LAMBDA sum, v : F(sum + v), 0, s))

-----------------------------------------------------------------------------
(* One element.                                                            *)

\* What a loop over the knots works with: dr, and point and normal for each.
OnSegment(a, b, gl) ==
  LET xd == F(Half * (b.x - a.x))
      yd == F(Half * (b.y - a.y))
      dr == Root(xd * xd + yd * yd)
      n  == [x |-> F(yd * Over(dr)), y |-> F(-xd * Over(dr))]
  IN  [dr |-> dr,
       knots |-> [i \in DOMAIN gl |-> [x |-> F(Half * (a.x + b.x) + xd * gl[i].z),
                                       y |-> F(Half * (a.y + b.y) + yd * gl[i].z), n |-> n, w |-> gl[i].w]]]

\* Mutation of Orientation: the sense of the arc is ignored.
OrientationFixed(td) == 1

Orientation(td) == IF td < 0 THEN -1 ELSE 1

OnArc(a, b, arc, gl) ==
  LET tm == (b.t + a.t) \div 2
      td == (b.t - a.t) \div 2
      Knot(t) == [x |-> F(arc.x + arc.rad * Cos(t)), y |-> F(arc.y + arc.rad * Sin(t)), t |-> t,
                  n |-> [x |-> F(Cos(t) * Orientation(td)), y |-> F(Sin(t) * Orientation(td))]]
  IN  [dr |-> F(arc.rad * Abs(td)), knots |-> [i \in DOMAIN gl |-> Knot(tm + td * gl[i].z) @@ [w |-> gl[i].w]]]

\* The square of the distance along the element.
Distance(itype, arc, at, k) ==
  IF itype = 1 THEN F((k.x - at.x) * (k.x - at.x) + (k.y - at.y) * (k.y - at.y))
  ELSE F((arc.rad * (at.t - k.t)) * (arc.rad * (at.t - k.t)))

\* The single- and the double-layer potential at a point; ising says that
\* it is the element's own.
Quadrature(at, ising, itype, arc, el) ==
  LET G(k) == Green(k, at).g + IF ising THEN Log(Distance(itype, arc, at, k)) * Over(F(4 * Pi)) ELSE 0
      D(k) == Green(k, at).gx * k.n.x + Green(k, at).gs * k.n.y
      q    == F(el.dr * Total([i \in DOMAIN el.knots |-> F(G(el.knots[i]) * el.knots[i].y) * el.knots[i].w]))
      w    == F(el.dr * Total([i \in DOMAIN el.knots |-> F(D(el.knots[i]) * el.knots[i].y) * el.knots[i].w]))
  IN  [qqq |-> IF ising THEN F(q - el.dr * 2 * (Log(el.dr) - 1) * Over(F(2 * Pi))) ELSE q, www |-> w]

body_ax_sdlp(at, a, b, gl, ising, itype, arc) ==
  Quadrature(at, ising, itype, arc, IF itype = 1 THEN OnSegment(a, b, gl) ELSE OnArc(a, b, arc, gl))

-----------------------------------------------------------------------------
(* The system for the potential at the collocation points.                 *)

\* Mutation of Counted: the counter starts again on every side.
CountedAfresh(c) == FlattenSeq([k \in DOMAIN c.ne |-> [l \in 1 .. c.ne[k] |-> [k |-> k, l |-> l, j |-> l]]])

\* The elements in the order of the nested loops, with the counter j.
Counted(c) ==
  FoldLeft(LAMBDA els, k : els \o [l \in 1 .. c.ne[k] |-> [k |-> k, l |-> l, j |-> Len(els) + l]],
           <<>>, [k \in DOMAIN c.ne |-> k])

Layers(c, gl, at, e, ising) ==
  body_ax_sdlp(at, c.nodes[e.k][e.l], c.nodes[e.k][e.l + 1], gl, ising, c.itp[e.k], c.arcs[e.k])

System(c, gl) ==
  LET els == Counted(c)
      ncl == DOMAIN c.points
      At(i, e) == Layers(c, gl, c.points[i], e, i = e.j)
  IN  [al |-> [i \in ncl |-> [m \in DOMAIN els |-> F(At(i, els[m]).www - IF i = els[m].j THEN Half ELSE 0)]],
       bl |-> [i \in ncl |-> Total([m \in DOMAIN els |-> At(i, els[m]).qqq * c.points[els[m].j].dphidn0])]]

\* The solution by sides and elements.
Distributed(c, sol) == [k \in DOMAIN c.ne |-> [l \in 1 .. c.ne[k] |-> sol[(CHOOSE e \in ToSet(Counted(c)) : e.k = k /\ e.l = l).j]]]

-----------------------------------------------------------------------------
(* The velocity on the body.                                               *)

\* Mutation of Centered: the spacing is taken to be even.
CenteredEvenly(g, h) == F((g[3] - g[1]) * Over(F(h[3] - h[1])))

\* The slope in the middle of three points.
Centered(g, h) ==
  LET right == F((g[3] - g[2]) * Over(F(h[3] - h[2])))
      left  == F((g[1] - g[2]) * Over(F(h[1] - h[2])))
      aa    == F((right - left) * Over(F(h[3] - h[1])))
  IN  F(right - aa * (h[3] - h[2]))

Slope(g, h) == F((g[2] - g[1]) * Over(F(h[2] - h[1])))

\* Along a side; a side of one element has no slope, and the program reads
\* behind its end.
Differenced(phi, s) ==
  LET n == Len(phi)
  IN  [l \in 1 .. n |->
         CASE n = 1 -> Garbage
           [] l = 1 /\ n # 1 -> Slope(SubSeq(phi, 1, 2), SubSeq(s, 1, 2))
           [] l = n /\ l # 1 -> Slope(SubSeq(phi, n - 1, n), SubSeq(s, n - 1, n))
           [] OTHER -> Centered(SubSeq(phi, l - 1, l + 1), SubSeq(s, l - 1, l + 1))]

\* Velocity along and through the body, and pressure, at a point.
AtPoint(c, pt, dphids0) ==
  LET w    == Vortex(pt, c.ring)
      velx == pt.dphidn0 * pt.n.x + dphids0 * pt.t.x + c.vx + c.cr * w.u
      vely == pt.dphidn0 * pt.n.y + dphids0 * pt.t.y + c.cr * w.v
      velt == F(velx * pt.t.x + vely * pt.t.y)
  IN  [velt |-> velt, veln |-> F(velx * pt.n.x + vely * pt.n.y), cp |-> F(1 - F(velt * velt) * Over(F(c.vx * c.vx)))]

OnBody(c, phi) ==
  LET s(k) == [l \in 1 .. c.ne[k] |-> c.points[(CHOOSE e \in ToSet(Counted(c)) : e.k = k /\ e.l = l).j].s]
  IN  [m \in DOMAIN c.points |->
         LET e == CHOOSE e \in ToSet(Counted(c)) : e.j = m
         IN  AtPoint(c, c.points[m], Differenced(phi[e.k], s(e.k))[e.l])]

-----------------------------------------------------------------------------
(* The velocity off the body, and the step along it.                       *)

\* The disturbance potential, from what is known on the body.
Contribution(phi, dphidn0, r) == F(phi * r.www - dphidn0 * r.qqq)

Represented(c, gl, phi, at) ==
  Total([m \in DOMAIN c.points |->
           LET e == Counted(c)[m] IN Contribution(phi[e.k][e.l], c.points[e.j].dphidn0, Layers(c, gl, at, e, FALSE))])

velocity(c, gl, phi, at) ==
  LET Phi(dx, dy) == Represented(c, gl, phi, [x |-> F(at.x + dx), y |-> F(at.y + dy), t |-> 0])
      w == Vortex(at, c.ring)
  IN  [x |-> F((Phi(EPS, 0) - Phi(-EPS, 0)) * Over(F(2 * EPS)) + c.vx + c.cr * w.u),
       y |-> F((Phi(0, EPS) - Phi(0, -EPS)) * Over(F(2 * EPS)) + c.cr * w.v)]

Along(at, step, u) == [x |-> F(at.x + step * u.x), y |-> F(at.y + step * u.y)]

\* Mutation of Weighted: all four velocities weigh the same.
WeightedEvenly(u1, u2, u3, u4) ==
  [x |-> F(Over(4) * (u1.x + u2.x + u3.x + u4.x)), y |-> F(Over(4) * (u1.y + u2.y + u3.y + u4.y))]

Weighted(u1, u2, u3, u4) ==
  [x |-> F(Over(6) * (u1.x + 2 * u2.x + 2 * u3.x + u4.x)), y |-> F(Over(6) * (u1.y + 2 * u2.y + 2 * u3.y + u4.y))]

\* One step by the method of second or fourth order; the velocity depends
\* on x.
Advanced(irk, field, at, step) ==
  LET u1 == field[at.x]
      u2 == field[Along(at, IF irk = 2 THEN step ELSE F(Half * step), u1).x]
      u3 == field[Along(at, F(Half * step), u2).x]
      u4 == field[Along(at, step, u3).x]
  IN  IF irk = 2 THEN Along(at, F(Half * step), [x |-> u1.x + u2.x, y |-> u1.y + u2.y])
      ELSE Along(at, step, Weighted(u1, u2, u3, u4))

-----------------------------------------------------------------------------
(* Streamlines.                                                            *)

InBody(body, at) == (at.x - body.x) * (at.x - body.x) + (at.y - body.y) * (at.y - body.y) < body.rad * body.rad
Outside(window, at) == at.x < window.xmin \/ at.x > window.xmax \/ at.y < window.ymin \/ at.y > window.ymax
Crossed(from, at) == from.x * at.x < 0

\* Mutation of Follow: the point after the last is tested and not the next.
FollowLate(icross, body, window, line, next) ==
  LET here == Append(line.points, line.at)
  IN  CASE icross /\ Crossed(line.start, line.at) -> [line EXCEPT !.points = here, !.at = next, !.ended = "left"]
        [] icross /\ ~Crossed(line.start, line.at) /\ InBody(body, line.at) -> [line EXCEPT !.at = next, !.ended = "sphere"]
        [] OTHER -> [line EXCEPT !.points = here, !.at = next, !.ended = IF Outside(window, line.at) THEN "left" ELSE ""]

\* The body of the loop; next is where the step has led.
Follow(icross, body, window, line, next) ==
  LET here == Append(line.points, line.at)
  IN  CASE icross /\ Crossed(line.start, next) -> [line EXCEPT !.points = here, !.at = next, !.ended = "left"]
        [] icross /\ ~Crossed(line.start, next) /\ InBody(body, next) -> [line EXCEPT !.at = next, !.ended = "sphere"]
        [] OTHER -> [line EXCEPT !.points = here, !.at = next, !.ended = IF Outside(window, next) THEN "left" ELSE ""]

\* path: where the steps lead, mstr of them.
Streamline(icross, body, window, start, path) ==
  LET line == FoldLeft(LAMBDA l, next : IF l.ended = "" THEN Follow(icross, body, window, l, next) ELSE l,
                       [points |-> <<>>, at |-> start, start |-> start, ended |-> ""], path)
  IN  IF line.ended = "sphere" THEN line.points ELSE Append(line.points, line.at)

-----------------------------------------------------------------------------
(* What the program promises.                                              *)

\* An integral does not depend on the sense in which its element is passed,
\* a flux changes sign with it; and the rule agrees with Simpson's where both
\* are exact.
Integrates(at, a, b, gl, itype, arc) ==
  LET there == body_ax_sdlp(at, a, b, gl, FALSE, itype, arc)
      back  == body_ax_sdlp(at, b, a, gl, FALSE, itype, arc)
      simpson == <<[z |-> -1, w |-> Over(3)], [z |-> 0, w |-> F(4 * Over(3))], [z |-> 1, w |-> Over(3)]>>
  IN  /\ back.qqq = there.qqq /\ F(back.www + there.www) = 0
      /\ itype = 1 => there = body_ax_sdlp(at, a, b, simpson, FALSE, itype, arc)

\* The contour as one side.
OneSide(c) ==
  [c EXCEPT !.ne = <<Len(c.points)>>, !.itp = <<c.itp[1]>>, !.arcs = <<c.arcs[1]>>,
            !.nodes = <<c.nodes[1] \o FlattenSeq([k \in 1 .. Len(c.ne) - 1 |-> Tail(c.nodes[k + 1])])>>]

\* How a straight contour is cut into sides makes no difference.
SameSystem(c, gl, r) == r = System(OneSide(c), gl)

\* Nothing flows through the body, whatever the potential; where it is a
\* polynomial of second degree along a side, its slope inside is exact.
Polynomial(q, s) == F(q[1] + q[2] * s + q[3] * F(s * s))
Impermeable(c, q, vel) ==
  \A e \in ToSet(Counted(c)) :
    LET pt == c.points[e.j]
        w  == Vortex(pt, c.ring)
        slope == q[2] + 2 * q[3] * pt.s
    IN  c.ne[e.k] > 1 =>
          /\ vel[e.j].veln = 0
          /\ (q[3] = 0 \/ e.l \notin {1, c.ne[e.k]}) => vel[e.j].velt = F(slope + (c.vx + c.cr * w.u) * pt.t.x + c.cr * w.v * pt.t.y)

\* The velocity is the gradient of the potential, where that is linear.
Gradient(c, gl, phi, at, u) ==
  LET Phi(dx, dy) == Represented(c, gl, phi, [x |-> F(at.x + dx), y |-> F(at.y + dy), t |-> 0])
      w == Vortex(at, c.ring)
  IN  /\ u.x = F(Phi(1, 0) - Phi(0, 0) + c.vx + c.cr * w.u)
      /\ u.y = F(Phi(0, 1) - Phi(0, 0) + c.cr * w.v)

\* A step is exact where y is a polynomial of the method's order.
Raised(x, k) == FoldLeft(LAMBDA r, i : F(r * x), 1, [i \in 1 .. k |-> i])
Exact(k, at, step, r) ==
  /\ r.x = F(at.x + step)
  /\ F((k + 1) * (r.y - at.y)) = F(Raised(r.x, k + 1) - Raised(at.x, k + 1))

\* A streamline is the beginning of the path; only its last point may lie
\* behind the plane or outside the window, and none but the first in the body.
Traced(icross, body, window, start, path, r) ==
  LET whole == <<start>> \o path
      Stops(q) == (icross /\ Crossed(start, q)) \/ Outside(window, q)
  IN  /\ IsPrefix(r, whole)
      /\ \A i \in 2 .. Len(r) : /\ (icross => ~InBody(body, r[i]) \/ Crossed(start, r[i]))
                                /\ Stops(r[i]) => i = Len(r)
      /\ Len(r) < Len(whole) => \/ Len(r) > 1 /\ Stops(Last(r))
                                \/ icross /\ Len(r) + 2 <= Len(whole) /\ InBody(body, whole[Len(r) + 2])
=============================================================================
