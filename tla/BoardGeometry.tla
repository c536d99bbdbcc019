--------------------------- MODULE BoardGeometry ---------------------------
(***************************************************************************)
(* The map between board points and robot XY (utils/kinematics.py) and the *)
(* script that computes it from measured corners                           *)
(* (scripts/calculate_system_calibration.py).                              *)
(*                                                                         *)
(* A point of the board is a file 0..8 and a rank 0..9.  Lengths are       *)
(* integers, and a difference of one unit is the drift the validator       *)
(* tolerates (1e-6 mm there).  A 2x3 affine matrix is a pair of rows       *)
(* <<coefficient of file, of rank, offset>>.                               *)
(***************************************************************************)
EXTENDS Integers, FiniteSets, FiniteSetsExt

CONSTANTS NoSplit, NoPoint, NoMap   \* split_halves, a mapping result and a homography that are None

FileIds == 0..8
RankIds == 0..9
Squares == FileIds \X RankIds

Det(m) == m[1][1] * m[2][2] - m[1][2] * m[2][1]
Axes(c) == << <<c.sx, 0, c.ox>>, <<0, c.sy, c.oy>> >>
At(m, f, r) == [x |-> m[1][1] * f + m[1][2] * r + m[1][3],
                y |-> m[2][1] * f + m[2][2] * r + m[2][3]]

\* The river divides the board: ranks 0..4 and 5..9 have matrices of their own when both halves were measured.
OnLowerHalf(r) == r <= 4

GridToRobot(c, f, r) ==
  IF f \notin FileIds \/ r \notin RankIds THEN NoPoint
  ELSE IF c.split = NoSplit THEN At(c.affine, f, r)
  ELSE IF OnLowerHalf(r) THEN At(c.split.lower, f, r)
  ELSE At(c.split.upper, f, r - 5)

(* The inverse, as fractions [f, r, d]: the file is f / d, the rank r / d, d > 0. *)
InverseAt(m, p) ==
  LET d == Det(m)  s == IF d > 0 THEN 1 ELSE -1
      u == p.x - m[1][3]  v == p.y - m[2][3]
  IN  [f |-> s * (m[2][2] * u - m[1][2] * v), r |-> s * (m[1][1] * v - m[2][1] * u), d |-> s * d]

\* How far a rank lies outside lo..hi.
Outside(q, lo, hi) == Max({0, lo * q.d - q.r, q.r - hi * q.d})

Located(c, p) ==
  IF c.split = NoSplit THEN InverseAt(c.affine, p)
  ELSE LET low == InverseAt(c.split.lower, p)
           rel == InverseAt(c.split.upper, p)
           up  == [rel EXCEPT !.r = @ + 5 * rel.d]
       IN  IF Outside(low, 0, 4) * up.d <= Outside(up, 5, 9) * low.d THEN low ELSE up

Nearest(n, d) == (2 * n + d) \div (2 * d)

\* robot_to_grid with the default tolerance of half a square.
RobotToGrid(c, p) ==
  LET q == Located(c, p)
      f == Nearest(q.f, q.d)  r == Nearest(q.r, q.d)
      df == q.f - f * q.d  dr == q.r - r * q.d
  IN  IF /\ f \in FileIds /\ r \in RankIds
         /\ 4 * (df * df + dr * dr) <= q.d * q.d
      THEN <<f, r>> ELSE NoPoint

(* The captured-piece area: slots in a row from its corner. *)
DefaultDead(c) == [x |-> c.ox + (21 * c.sx) \div 2, y |-> c.oy, w |-> 2 * c.sx, h |-> 2 * c.sy,
                   gap |-> 25, slots |-> 4]
DeadSlot(c, slot) ==
  [x |-> c.dead.x + Min({Max({slot - 1, 0}), c.dead.slots - 1}) * c.dead.gap, y |-> c.dead.y]
DeadOk(z) == z.w > 0 /\ z.h > 0 /\ z.gap > 0 /\ z.slots > 0

(***************************************************************************)
(* Least squares on samples [f, r, x, y], solved by the normal equations   *)
(* and rounded down to a unit.                                             *)
(***************************************************************************)
Total(v) ==   \* of the values of a function
  LET t[T \in SUBSET DOMAIN v] == IF T = {} THEN 0 ELSE LET q == CHOOSE q \in T : TRUE IN v[q] + t[T \ {q}]
  IN  t[DOMAIN v]
Area(a, b, c) == (b.f - a.f) * (c.r - a.r) - (b.r - a.r) * (c.f - a.f)
NonCollinear(S) == \E a, b, c \in S : Area(a, b, c) # 0

\* A row of the matrix from the sums, centred at the mean and scaled by n.
Row(n, F, R, W, ff, rr, fr, wf, wr) ==
  LET d == ff * rr - fr * fr
  IN  << (wf * rr - wr * fr) \div d, (wr * ff - wf * fr) \div d,
         (W - ((wf * rr - wr * fr) \div d) * F - ((wr * ff - wf * fr) \div d) * R) \div n >>
Centred(n, PQ, P, Q) == n * PQ - P * Q
Fit(S, v) ==
  LET n == Cardinality(S)
      F == Total([q \in S |-> q.f])  R == Total([q \in S |-> q.r])  W == Total([q \in S |-> q[v]])
  IN  Row(n, F, R, W,
          Centred(n, Total([q \in S |-> q.f * q.f]), F, F), Centred(n, Total([q \in S |-> q.r * q.r]), R, R),
          Centred(n, Total([q \in S |-> q.f * q.r]), F, R),
          Centred(n, Total([q \in S |-> q[v] * q.f]), W, F), Centred(n, Total([q \in S |-> q[v] * q.r]), W, R))

FitAffine(S) == << Fit(S, "x"), Fit(S, "y") >>

\* One axis from <<index, value>> pairs: [origin, step]; a single index keeps the step there was.
Line(n, I, W, s) == [origin |-> (W - s * I) \div n, step |-> s]
FitAxis(P, step) ==
  LET n == Cardinality(P)
      I == Total([q \in P |-> q[1]])  W == Total([q \in P |-> q[2]])
  IN  Line(n, I, W,
           IF Cardinality({q[1] : q \in P}) < 2 THEN step
           ELSE Centred(n, Total([q \in P |-> q[1] * q[2]]), I, W)
                \div Centred(n, Total([q \in P |-> q[1] * q[1]]), I, I))

Magnitude(n) == Max({n, -n})
Length(a, b) == CHOOSE n \in 0..(Magnitude(a) + Magnitude(b)) : n * n <= a * a + b * b /\ (n + 1) * (n + 1) > a * a + b * b

(***************************************************************************)
(* Kinematics.update_calibration and calibrate_from_points change the live *)
(* object field by field and may raise half-way: [cal, ok], where ok is    *)
(* FALSE when an exception was raised and cal holds what had been set.     *)
(***************************************************************************)
Given(u, key) == key \in DOMAIN u

Updated(c, u) ==
  LET Val(key) == IF Given(u, key) THEN u[key] ELSE c[key]
      moved == [c EXCEPT !.ox = Val("ox"), !.oy = Val("oy"), !.sx = Val("sx"), !.sy = Val("sy")]
      dead  == IF Given(u, "dead") THEN u.dead
               ELSE IF \E k \in {"ox", "oy", "sx", "sy"} : Given(u, k) THEN DefaultDead(moved) ELSE c.dead
      placed == [moved EXCEPT !.dead = dead]
      matrix == IF Given(u, "affine") THEN u.affine ELSE Axes(moved)
  IN  IF moved.sx <= 0 \/ moved.sy <= 0 THEN [cal |-> moved, ok |-> FALSE]
      ELSE IF ~DeadOk(dead)
      THEN [cal |-> [moved EXCEPT !.dead.x = dead.x, !.dead.y = dead.y], ok |-> FALSE]
      ELSE IF Det(matrix) = 0 THEN [cal |-> placed, ok |-> FALSE]
      ELSE [cal |-> [placed EXCEPT !.affine = matrix], ok |-> TRUE]

Measured(c, S) ==
  LET m == FitAffine(S)
      fx == FitAxis({<<q.f, q.x>> : q \in S}, c.sx)
      fy == FitAxis({<<q.r, q.y>> : q \in S}, c.sy)
      free == [c EXCEPT !.affine = m, !.ox = m[1][3], !.oy = m[2][3],
                        !.sx = Length(m[1][1], m[2][1]), !.sy = Length(m[1][2], m[2][2])]
      axial == [c EXCEPT !.ox = fx.origin, !.sx = fx.step, !.oy = fy.origin, !.sy = fy.step]
      Done(d) == [cal |-> [d EXCEPT !.dead = DefaultDead(d)], ok |-> TRUE]
  IN  IF Cardinality(S) < 2 THEN [cal |-> c, ok |-> FALSE]
      ELSE IF NonCollinear(S)
      THEN IF Det(m) = 0 THEN [cal |-> c, ok |-> FALSE] ELSE Done(free)
      ELSE IF fx.step <= 0 THEN [cal |-> c, ok |-> FALSE]
      ELSE IF fy.step <= 0
      THEN [cal |-> [c EXCEPT !.ox = fx.origin, !.sx = fx.step], ok |-> FALSE]
      ELSE Done([axial EXCEPT !.affine = Axes(axial)])

\* The vision-to-robot homography: four distinct image points, four distinct robot points, in one coordinate space.
ImageMapped(c, points, space) ==
  IF /\ Cardinality({q[1] : q \in points}) >= 4
     /\ Cardinality({q[2] : q \in points}) >= 4
     /\ space \in {"rectified_board", "camera_frame"}
  THEN [cal |-> [c EXCEPT !.image = [space |-> space, points |-> points]], ok |-> TRUE]
  ELSE [cal |-> c, ok |-> FALSE]

(***************************************************************************)
(* The script.  corners gives a point for a4, i0, a9 and i5 and may give   *)
(* a0, i4, a5 and i9; those it lacks complete a rectangle.                 *)
(***************************************************************************)
Corner(corners, name, px, py) ==
  IF name \in DOMAIN corners THEN corners[name] ELSE [x |-> corners[px].x, y |-> corners[py].y]

HalfSamples(topLeft, bottomRight, bottomLeft, topRight) ==
  {[f |-> 0, r |-> 4, x |-> topLeft.x, y |-> topLeft.y], [f |-> 8, r |-> 0, x |-> bottomRight.x, y |-> bottomRight.y],
   [f |-> 0, r |-> 0, x |-> bottomLeft.x, y |-> bottomLeft.y], [f |-> 8, r |-> 4, x |-> topRight.x, y |-> topRight.y]}

LowerSamples(k) == HalfSamples(k.a4, k.i0, Corner(k, "a0", "a4", "i0"), Corner(k, "i4", "i0", "a4"))
UpperSamples(k) == HalfSamples(k.a9, k.i5, Corner(k, "a5", "a9", "i5"), Corner(k, "i9", "i5", "a9"))

SplitHalves(c, corners, dead) ==
  LET lower == FitAffine(LowerSamples(corners))
      upper == FitAffine(UpperSamples(corners))
      a0 == Corner(corners, "a0", "a4", "i0")
      whole == FitAffine(LowerSamples(corners) \union {[q EXCEPT !.r = @ + 5] : q \in UpperSamples(corners)})
  IN  [c EXCEPT !.ox = a0.x, !.oy = a0.y, !.dead = dead, !.affine = whole,
                !.sx = (Length(lower[1][1], lower[2][1]) + Length(upper[1][1], upper[2][1])) \div 2,
                !.sy = (Length(lower[1][2], lower[2][2]) + Length(upper[1][2], upper[2][2])) \div 2,
                !.split = [lower |-> lower, upper |-> upper]]

(* RobotSafety, and the validator that tolerates a drift of one unit. *)
Safe(lim, p) == p.x \in lim.minX..lim.maxX /\ p.y \in lim.minY..lim.maxY
Tolerated(lim, p) == p.x \in (lim.minX - 1)..(lim.maxX + 1) /\ p.y \in (lim.minY - 1)..(lim.maxY + 1)

BoardTolerated(c, lim) == \A s \in Squares : Tolerated(lim, GridToRobot(c, s[1], s[2]))
AreaTolerated(z, lim) == Tolerated(lim, [x |-> z.x, y |-> z.y]) /\ Tolerated(lim, [x |-> z.x + z.w, y |-> z.y + z.h])
BoardSafe(c, lim) ==
  /\ \A s \in Squares : Safe(lim, GridToRobot(c, s[1], s[2]))
  /\ Safe(lim, DeadSlot(c, 1))

(* Every board point maps to a robot position that maps back to it. *)
RoundTrips(c) == \A s \in Squares : RobotToGrid(c, GridToRobot(c, s[1], s[2])) = s
=============================================================================
