------------------------ MODULE StreamAnalysisProofs ------------------------
(***************************************************************************)
(* Proofs about what a detector unit makes of the objects of its stream,   *)
(* for all values of the constants: about AbnormalEvents, the geometry and *)
(* the calendar it rests on; about SORTTracker, with any algorithm that    *)
(* assigns as many objects as it can; and about the threshold and the      *)
(* letterbox between engine and tracker.                                   *)
(***************************************************************************)
EXTENDS AbnormalEvents, SORTTracker, MgenSchedule, FrameStyle, NpuPostProcess, TLAPS,
        WellFoundedInduction, FiniteSetTheorems

(***************************************************************************)
(* lineOrientation is the sign of the cross product: what the code calls   *)
(* clockwise is a negative one.                                            *)
(***************************************************************************)
LEMMA Orientation ==
  ASSUME NEW p \in Points, NEW q \in Points, NEW r \in Points
  PROVE  /\ lineOrientation(p, q, r) = "OnLine" <=> Cross(p, q, r) = 0
         /\ lineOrientation(p, q, r) = "Clockwise" <=> Cross(p, q, r) < 0
         /\ lineOrientation(p, q, r) = "CounterClockwise" <=> Cross(p, q, r) > 0
         /\ Cross(p, q, r) \in Int
<1>1. p.x \in Int /\ p.y \in Int /\ q.x \in Int /\ q.y \in Int /\ r.x \in Int /\ r.y \in Int
  BY DEF Points
<1> DEFINE val == (q.y - p.y) * (r.x - q.x) - (q.x - p.x) * (r.y - q.y)
<1>2. val = 0 - Cross(p, q, r) /\ val \in Int /\ Cross(p, q, r) \in Int
  BY <1>1, SMT DEF Cross
<1>3. lineOrientation(p, q, r)
        = IF val = 0 THEN "OnLine" ELSE IF val > 0 THEN "Clockwise" ELSE "CounterClockwise"
  BY DEF lineOrientation
<1> HIDE DEF val
<1> QED BY <1>2, <1>3, SMT

(***************************************************************************)
(* The larger and the smaller of two coordinates.                          *)
(***************************************************************************)
LEMMA Bounds ==
  ASSUME NEW a \in Int, NEW b \in Int
  PROVE  /\ Max({a, b}) = IF a >= b THEN a ELSE b
         /\ Min({a, b}) = IF a >= b THEN b ELSE a
<1>1. (IF a >= b THEN a ELSE b) \in {a, b} /\ \A y \in {a, b} : (IF a >= b THEN a ELSE b) >= y
  BY SMT
<1>2. \A x \in {a, b} : (\A y \in {a, b} : x >= y) => x = IF a >= b THEN a ELSE b
  BY SMT
<1>3. (IF a >= b THEN b ELSE a) \in {a, b} /\ \A y \in {a, b} : (IF a >= b THEN b ELSE a) =< y
  BY SMT
<1>4. \A x \in {a, b} : (\A y \in {a, b} : x =< y) => x = IF a >= b THEN b ELSE a
  BY SMT
<1> QED BY <1>1, <1>2, <1>3, <1>4 DEF Max, Min

(***************************************************************************)
(* If r * c = d * e and d lies between 0 and r, then c lies between 0 and  *)
(* e.                                                                      *)
(***************************************************************************)
LEMMA Proportion ==
  ASSUME NEW r \in Int, NEW c \in Int, NEW d \in Int, NEW e \in Int,
         r # 0, e # 0, r * c = d * e, Between(d, r)
  PROVE  Between(c, e)
<1>1. CASE r > 0 /\ e > 0
  <2>1. 0 <= d /\ d <= r BY <1>1, SMT DEF Between
  <2>2. d * e >= 0 /\ d * e <= r * e BY <1>1, <2>1, SMT
  <2>3. c >= 0 BY <2>2, <1>1, SMT
  <2>4. c <= e BY <2>2, <1>1, SMT
  <2> QED BY <1>1, <2>3, <2>4 DEF Between
<1>2. CASE r > 0 /\ e < 0
  <2>1. 0 <= d /\ d <= r BY <1>2, SMT DEF Between
  <2>2. d * e <= 0 /\ d * e >= r * e BY <1>2, <2>1, SMT
  <2>3. c <= 0 BY <2>2, <1>2, SMT
  <2>4. c >= e BY <2>2, <1>2, SMT
  <2> QED BY <1>2, <2>3, <2>4 DEF Between
<1>3. CASE r < 0 /\ e > 0
  <2>1. 0 >= d /\ d >= r BY <1>3, SMT DEF Between
  <2>2. d * e <= 0 /\ d * e >= r * e BY <1>3, <2>1, SMT
  <2>3. c >= 0 BY <2>2, <1>3, SMT
  <2>4. c <= e BY <2>2, <1>3, SMT
  <2> QED BY <1>3, <2>3, <2>4 DEF Between
<1>4. CASE r < 0 /\ e < 0
  <2>1. 0 >= d /\ d >= r BY <1>4, SMT DEF Between
  <2>2. d * e >= 0 /\ d * e <= r * e BY <1>4, <2>1, SMT
  <2>3. c <= 0 BY <2>2, <1>4, SMT
  <2>4. c >= e BY <2>2, <1>4, SMT
  <2> QED BY <1>4, <2>3, <2>4, SMT DEF Between
<1> QED BY <1>1, <1>2, <1>3, <1>4, SMT

(***************************************************************************)
(* A point in the rectangle of a segment (onLineSegment): its distances    *)
(* from one end lie between 0 and those of the other end.                  *)
(***************************************************************************)
LEMMA OnSegment ==
  ASSUME NEW p \in Points, NEW r \in Points, NEW q \in Points, onLineSegment(p, q, r)
  PROVE  Between(q.x - p.x, r.x - p.x) /\ Between(q.y - p.y, r.y - p.y)
<1>1. p.x \in Int /\ p.y \in Int /\ q.x \in Int /\ q.y \in Int /\ r.x \in Int /\ r.y \in Int
  BY DEF Points
<1>2. /\ Max({p.x, r.x}) = IF p.x >= r.x THEN p.x ELSE r.x
      /\ Min({p.x, r.x}) = IF p.x >= r.x THEN r.x ELSE p.x
      /\ Max({p.y, r.y}) = IF p.y >= r.y THEN p.y ELSE r.y
      /\ Min({p.y, r.y}) = IF p.y >= r.y THEN r.y ELSE p.y
  BY <1>1, Bounds
<1>3. /\ q.x <= (IF p.x >= r.x THEN p.x ELSE r.x) /\ q.x >= (IF p.x >= r.x THEN r.x ELSE p.x)
      /\ q.y <= (IF p.y >= r.y THEN p.y ELSE r.y) /\ q.y >= (IF p.y >= r.y THEN r.y ELSE p.y)
  BY <1>2, Zenon DEF onLineSegment
<1> QED BY <1>1, <1>3, SMT DEF Between

(***************************************************************************)
(* A point in the rectangle of a segment and on its line lies on the       *)
(* segment.                                                                *)
(***************************************************************************)
LEMMA OnLineLiesOn ==
  ASSUME NEW p \in Points, NEW q \in Points, NEW r \in Points,
         Cross(p, r, q) = 0, onLineSegment(p, q, r)
  PROVE  LiesOn(q, p, r)
<1>1. p.x \in Int /\ p.y \in Int /\ q.x \in Int /\ q.y \in Int /\ r.x \in Int /\ r.y \in Int
  BY DEF Points
<1>2. /\ Max({p.x, r.x}) \in Int /\ Min({p.x, r.x}) \in Int
      /\ Max({p.y, r.y}) \in Int /\ Min({p.y, r.y}) \in Int
  <2>1. \A m, n \in Int : Max({m, n}) \in Int /\ Min({m, n}) \in Int
    BY Bounds, Zenon
  <2> QED BY <1>1, <2>1, Zenon
<1> QED BY <1>1, <1>2, SMT DEF LiesOn, onLineSegment

(***************************************************************************)
(* The end (ex, ey) of one vector lies on the vector (rx, ry). Its cross   *)
(* product with a third vector that is not parallel lies between 0 and     *)
(* that of the whole vector: this is the parameter of Cramer's rule.       *)
(***************************************************************************)
LEMMA OnSegmentProportion ==
  ASSUME NEW rx \in Int, NEW ry \in Int, NEW sx \in Int, NEW sy \in Int,
         NEW ex \in Int, NEW ey \in Int,
         rx * ey = ry * ex, rx * sy - ry * sx # 0,
         Between(ex, rx), Between(ey, ry)
  PROVE  Between(ex * sy - ey * sx, rx * sy - ry * sx)
<1> DEFINE c == ex * sy - ey * sx
           e == rx * sy - ry * sx
<1>1. c \in Int /\ e \in Int BY SMT
<1>2. rx * c = ex * e
  <2>1. rx * c = ex * (rx * sy) - (rx * ey) * sx BY SMT
  <2>2. @ = ex * (rx * sy) - (ry * ex) * sx BY SMT
  <2> QED BY <2>1, <2>2, SMT
<1>3. ry * c = ey * e
  <2>1. ry * c = (ry * ex) * sy - ey * (ry * sx) BY SMT
  <2>2. @ = (rx * ey) * sy - ey * (ry * sx) BY SMT
  <2> QED BY <2>1, <2>2, SMT
<1>4. rx # 0 \/ ry # 0 BY SMT
<1> HIDE DEF c, e
<1>5. e # 0 BY DEF e
<1>6. Between(c, e)
  BY <1>1, <1>2, <1>3, <1>4, <1>5, Proportion
<1> QED BY <1>6 DEF c, e

(***************************************************************************)
(* A step and a line for which checkLineIntersect reports a meeting do     *)
(* meet. With orientations that differ, the signs of the four cross        *)
(* products give both parameters of Cramer's rule; with an end on the      *)
(* other line, either the lines are parallel and the end lies on the other *)
(* segment, or the parameter is a proportion.                              *)
(***************************************************************************)
LEMMA IntersectMeets ==
  ASSUME NEW p \in Points, NEW q \in Points, NEW a \in Points, NEW b \in Points,
         checkLineIntersect(p, q, a, b) # "NotCrossed"
  PROVE  SegmentsMeet(p, q, a, b)
<1>0. /\ p.x \in Int /\ p.y \in Int /\ q.x \in Int /\ q.y \in Int
      /\ a.x \in Int /\ a.y \in Int /\ b.x \in Int /\ b.y \in Int
  BY DEF Points
<1> DEFINE rx == q.x - p.x   ry == q.y - p.y
           sx == b.x - a.x   sy == b.y - a.y
           dx == a.x - p.x   dy == a.y - p.y
           det == rx * sy - ry * sx
           A == Cross(p, q, a)  B == Cross(p, q, b)
           C == Cross(a, b, p)  D == Cross(a, b, q)
<1>1. /\ rx \in Int /\ ry \in Int /\ sx \in Int /\ sy \in Int /\ dx \in Int /\ dy \in Int
      /\ det \in Int /\ A \in Int /\ B \in Int /\ C \in Int /\ D \in Int
  BY <1>0, SMT DEF Cross
<1>2. B - A = det /\ C - D = det
  BY <1>0, SMT DEF Cross
<1>3. dx * sy - dy * sx = C /\ dx * ry - dy * rx = 0 - A
  <2>1. dx * sy - dy * sx = C BY <1>0, SMT DEF Cross
  <2>2. dx * ry - dy * rx = 0 - A BY <1>0, SMT DEF Cross
  <2> QED BY <2>1, <2>2
<1>4. SegmentsMeet(p, q, a, b)
        <=> IF det # 0 THEN Between(C, det) /\ Between(0 - A, det)
            ELSE \/ LiesOn(a, p, q) \/ LiesOn(b, p, q) \/ LiesOn(p, a, b) \/ LiesOn(q, a, b)
  BY <1>3, Zenon DEF SegmentsMeet
<1>5. CASE /\ lineOrientation(p, q, a) # lineOrientation(p, q, b)
           /\ lineOrientation(a, b, p) # lineOrientation(a, b, q)
  <2>1. /\ ~(A = 0 /\ B = 0) /\ ~(A < 0 /\ B < 0) /\ ~(A > 0 /\ B > 0)
        /\ ~(C = 0 /\ D = 0) /\ ~(C < 0 /\ D < 0) /\ ~(C > 0 /\ D > 0)
    <3>1. /\ ~(A = 0 /\ B = 0) /\ ~(A < 0 /\ B < 0) /\ ~(A > 0 /\ B > 0)
      BY <1>5, Orientation
    <3>2. /\ ~(C = 0 /\ D = 0) /\ ~(C < 0 /\ D < 0) /\ ~(C > 0 /\ D > 0)
      BY <1>5, Orientation
    <3> QED BY <3>1, <3>2
  <2> HIDE DEF A, B, C, D, det
  <2>2. det # 0 /\ Between(C, det) /\ Between(0 - A, det)
    BY <1>1, <1>2, <2>1, SMT DEF Between
  <2> QED BY <1>4, <2>2, Zenon
<1>6. CASE \/ A = 0 /\ onLineSegment(p, a, q)
           \/ B = 0 /\ onLineSegment(p, b, q)
           \/ C = 0 /\ onLineSegment(a, p, b)
           \/ D = 0 /\ onLineSegment(a, q, b)
  <2>1. CASE det = 0
    <3>1. \/ LiesOn(a, p, q) \/ LiesOn(b, p, q) \/ LiesOn(p, a, b) \/ LiesOn(q, a, b)
      BY <1>6, OnLineLiesOn
    <3> QED BY <1>4, <2>1, <3>1, Zenon
  <2>2. CASE det # 0
    <3> SUFFICES Between(C, det) /\ Between(0 - A, det)
      BY <1>4, <2>2, Zenon
    <3>1. CASE A = 0 /\ onLineSegment(p, a, q)
      <4>1. Between(dx, rx) /\ Between(dy, ry) BY <3>1, OnSegment
      <4>2. rx * dy = ry * dx BY <3>1, <1>0, SMT DEF Cross
      <4>3. Between(dx * sy - dy * sx, det)
        BY <1>1, <2>2, <4>1, <4>2, OnSegmentProportion
      <4>4. Between(0 - A, det)
        <5> HIDE DEF A, det
        <5> QED BY <1>1, <2>2, <3>1, SMT DEF Between
      <4> QED BY <1>3, <4>3, <4>4
    <3>2. CASE B = 0 /\ onLineSegment(p, b, q)
      <4> DEFINE ex == b.x - p.x   ey == b.y - p.y
      <4>0. ex \in Int /\ ey \in Int BY <1>0, SMT
      <4>1. Between(ex, rx) /\ Between(ey, ry) BY <3>2, OnSegment
      <4>2. rx * ey = ry * ex BY <3>2, <1>0, SMT DEF Cross
      <4>3. Between(ex * sy - ey * sx, det)
        BY <1>1, <2>2, <4>0, <4>1, <4>2, OnSegmentProportion
      <4>4. ex * sy - ey * sx = C BY <1>0, SMT DEF Cross
      <4>5. Between(0 - A, det)
        <5> HIDE DEF A, B, det
        <5> QED BY <1>1, <1>2, <2>2, <3>2, SMT DEF Between
      <4> QED BY <4>3, <4>4, <4>5
    <3>3. CASE C = 0 /\ onLineSegment(a, p, b)
      <4> DEFINE ex == p.x - a.x   ey == p.y - a.y
      <4>0. ex \in Int /\ ey \in Int BY <1>0, SMT
      <4>1. Between(ex, sx) /\ Between(ey, sy) BY <3>3, OnSegment
      <4>2. sx * ey = sy * ex BY <3>3, <1>0, SMT DEF Cross
      <4>3. sx * ry - sy * rx = 0 - det /\ sx * ry - sy * rx # 0
        BY <1>1, <2>2, SMT
      <4>4. Between(ex * ry - ey * rx, sx * ry - sy * rx)
        BY <1>1, <4>0, <4>1, <4>2, <4>3, OnSegmentProportion
      <4>5. ex * ry - ey * rx = A BY <1>0, SMT DEF Cross
      <4>6. Between(A, 0 - det) BY <4>3, <4>4, <4>5
      <4> HIDE DEF A, C, det
      <4> QED BY <1>1, <2>2, <3>3, <4>6, SMT DEF Between
    <3>4. CASE D = 0 /\ onLineSegment(a, q, b)
      <4> DEFINE ex == q.x - a.x   ey == q.y - a.y
      <4>0. ex \in Int /\ ey \in Int BY <1>0, SMT
      <4>1. Between(ex, sx) /\ Between(ey, sy) BY <3>4, OnSegment
      <4>2. sx * ey = sy * ex BY <3>4, <1>0, SMT DEF Cross
      <4>3. sx * ry - sy * rx = 0 - det /\ sx * ry - sy * rx # 0
        BY <1>1, <2>2, SMT
      <4>4. Between(ex * ry - ey * rx, sx * ry - sy * rx)
        BY <1>1, <4>0, <4>1, <4>2, <4>3, OnSegmentProportion
      <4>5. ex * ry - ey * rx = A BY <1>0, SMT DEF Cross
      <4>6. Between(A, 0 - det) BY <4>3, <4>4, <4>5
      <4> HIDE DEF A, C, D, det
      <4> QED BY <1>1, <1>2, <2>2, <3>4, <4>6, SMT DEF Between
    <3> QED BY <1>6, <3>1, <3>2, <3>3, <3>4
  <2> QED BY <2>1, <2>2
<1> QED BY <1>5, <1>6, Orientation DEF checkLineIntersect

(***************************************************************************)
(* When checkLineIntersect says clockwise, the step ends on that side of   *)
(* the line and did not begin there.                                       *)
(***************************************************************************)
LEMMA ClockwiseCrosses ==
  ASSUME NEW p \in Points, NEW q \in Points, NEW a \in Points, NEW b \in Points,
         checkLineIntersect(p, q, a, b) = "Clockwise"
  PROVE  Cross(a, b, p) >= 0 /\ Cross(a, b, q) < 0
<1>1. /\ lineOrientation(a, b, q) = "Clockwise"
      /\ lineOrientation(a, b, p) # "Clockwise"
  BY DEF checkLineIntersect
<1>2. Cross(a, b, q) < 0 /\ ~(Cross(a, b, p) < 0) /\ Cross(a, b, p) \in Int
  BY <1>1, Orientation, Zenon
<1> QED BY <1>2, SMT

(***************************************************************************)
(* checkLineIntersect is exact: for all points with integer coordinates,   *)
(* touching ends, points on the line and segments of no length included,   *)
(* it reports a meeting if and only if the two segments have a point in    *)
(* common.                                                                 *)
(***************************************************************************)
THEOREM LineIntersectExact ==
  ASSUME NEW p \in Points, NEW q \in Points, NEW a \in Points, NEW b \in Points
  PROVE  checkLineIntersect(p, q, a, b) # "NotCrossed" <=> SegmentsMeet(p, q, a, b)
<1> SUFFICES ASSUME SegmentsMeet(p, q, a, b)
             PROVE  checkLineIntersect(p, q, a, b) # "NotCrossed"
  BY IntersectMeets
<1>0. /\ p.x \in Int /\ p.y \in Int /\ q.x \in Int /\ q.y \in Int
      /\ a.x \in Int /\ a.y \in Int /\ b.x \in Int /\ b.y \in Int
  BY DEF Points
<1> DEFINE rx == q.x - p.x   ry == q.y - p.y
           sx == b.x - a.x   sy == b.y - a.y
           dx == a.x - p.x   dy == a.y - p.y
           det == rx * sy - ry * sx
           A == Cross(p, q, a)  B == Cross(p, q, b)
           C == Cross(a, b, p)  D == Cross(a, b, q)
<1>1. /\ det \in Int /\ A \in Int /\ B \in Int /\ C \in Int /\ D \in Int
  BY <1>0, SMT DEF Cross
<1>2. B - A = det /\ C - D = det
  BY <1>0, SMT DEF Cross
<1>3. dx * sy - dy * sx = C /\ dx * ry - dy * rx = 0 - A
  <2>1. dx * sy - dy * sx = C BY <1>0, SMT DEF Cross
  <2>2. dx * ry - dy * rx = 0 - A BY <1>0, SMT DEF Cross
  <2> QED BY <2>1, <2>2
<1>4. IF det # 0 THEN Between(C, det) /\ Between(0 - A, det)
      ELSE \/ LiesOn(a, p, q) \/ LiesOn(b, p, q) \/ LiesOn(p, a, b) \/ LiesOn(q, a, b)
  BY <1>3, Zenon DEF SegmentsMeet
<1>5. lineOrientation(a, b, q) \in {"OnLine", "Clockwise", "CounterClockwise"}
  BY DEF lineOrientation
<1>6. CASE det # 0
  <2>1. Between(C, det) /\ Between(0 - A, det) BY <1>4, <1>6
  <2>2. /\ ~(A = 0 /\ B = 0) /\ ~(A < 0 /\ B < 0) /\ ~(A > 0 /\ B > 0)
        /\ ~(C = 0 /\ D = 0) /\ ~(C < 0 /\ D < 0) /\ ~(C > 0 /\ D > 0)
    <3> HIDE DEF A, B, C, D, det
    <3> QED BY <1>1, <1>2, <1>6, <2>1, SMT DEF Between
  <2>3. lineOrientation(p, q, a) # lineOrientation(p, q, b)
    BY <2>2, Orientation DEF lineOrientation
  <2>4. lineOrientation(a, b, p) # lineOrientation(a, b, q)
    BY <2>2, Orientation DEF lineOrientation
  <2> QED BY <1>5, <2>3, <2>4 DEF checkLineIntersect
<1>7. CASE det = 0
  <2>1. \A m, n \in Int : Max({m, n}) \in Int /\ Min({m, n}) \in Int
    BY Bounds, Zenon
  <2>2. ASSUME NEW c \in Points, NEW e \in Points, NEW f \in Points, LiesOn(c, e, f)
        PROVE  lineOrientation(e, f, c) = "OnLine" /\ onLineSegment(e, c, f)
    <3>1. Cross(e, f, c) = 0 BY <2>2 DEF LiesOn
    <3>2. e.x \in Int /\ e.y \in Int /\ f.x \in Int /\ f.y \in Int /\ c.x \in Int /\ c.y \in Int
      BY DEF Points
    <3>3. onLineSegment(e, c, f) BY <2>1, <2>2, <3>2, SMT DEF LiesOn, onLineSegment
    <3> QED BY <3>1, <3>3, Orientation
  <2>3. \/ lineOrientation(p, q, a) = "OnLine" /\ onLineSegment(p, a, q)
        \/ lineOrientation(p, q, b) = "OnLine" /\ onLineSegment(p, b, q)
        \/ lineOrientation(a, b, p) = "OnLine" /\ onLineSegment(a, p, b)
        \/ lineOrientation(a, b, q) = "OnLine" /\ onLineSegment(a, q, b)
    BY <1>4, <1>7, <2>2
  <2> QED BY <1>5, <2>3, Zenon DEF checkLineIntersect
<1> QED BY <1>6, <1>7

-----------------------------------------------------------------------------
(***************************************************************************)
(* The ray from pt to the right crosses an edge that goes up if pt is to   *)
(* its left, and one that goes down if pt is to its right.  y and z are    *)
(* the heights of the ends above pt, e is the cross product.               *)
(***************************************************************************)
Meets(y, z, e) == \/ y <= 0 /\ z > 0 /\ e > 0
                  \/ y > 0 /\ z <= 0 /\ e < 0

LEMMA RayMeets ==
  ASSUME NEW pt \in Points, NEW a \in Points, NEW b \in Points
  PROVE  RayCrosses(pt, a, b) <=> Meets(a.y - pt.y, b.y - pt.y, Cross(a, b, pt))
<1>1. /\ a.x \in Int /\ a.y \in Int /\ b.x \in Int /\ b.y \in Int
      /\ pt.x \in Int /\ pt.y \in Int
  BY DEF Points
<1> DEFINE run  == (b.x - a.x) * (pt.y - a.y)
           rise == (pt.x - a.x) * (b.y - a.y)
<1>2. run \in Int /\ rise \in Int /\ Cross(a, b, pt) = run - rise BY <1>1, SMT DEF Cross
<1>3. RayCrosses(pt, a, b) <=> /\ (a.y > pt.y) # (b.y > pt.y)
                               /\ IF b.y > a.y THEN rise < run ELSE rise > run
  BY DEF RayCrosses
<1> HIDE DEF run, rise
<1> QED BY <1>1, <1>2, <1>3, SMT DEF Meets

(***************************************************************************)
(* The sign of a product.                                                  *)
(***************************************************************************)
LEMMA ProductSign ==
  ASSUME NEW e \in Int, NEW y \in Int
  PROVE  /\ e * y \in Int
         /\ e > 0 /\ y > 0 => e * y > 0
         /\ e < 0 /\ y > 0 => e * y < 0
         /\ e >= 0 /\ y <= 0 => e * y <= 0
         /\ e <= 0 /\ y <= 0 => e * y >= 0
         /\ e > 0 /\ y < 0 => e * y < 0
         /\ e < 0 /\ y < 0 => e * y > 0
         /\ e >= 0 /\ y >= 0 => e * y >= 0
         /\ e <= 0 /\ y >= 0 => e * y <= 0
BY SMT

(***************************************************************************)
(* The cross product is the area that two corners span from the point.     *)
(***************************************************************************)
LEMMA AreaOf ==
  ASSUME NEW pt \in Points, NEW a \in Points, NEW b \in Points
  PROVE  /\ a.x - pt.x \in Int /\ a.y - pt.y \in Int /\ Cross(a, b, pt) \in Int
         /\ Cross(a, b, pt) = (a.x - pt.x) * (b.y - pt.y) - (b.x - pt.x) * (a.y - pt.y)
<1>1. /\ a.x \in Int /\ a.y \in Int /\ b.x \in Int /\ b.y \in Int
      /\ pt.x \in Int /\ pt.y \in Int
  BY DEF Points
<1> DEFINE ax == a.x
           ay == a.y
           bx == b.x
           by == b.y
           px == pt.x
           py == pt.y
<1>2. Cross(a, b, pt) = (bx - ax) * (py - ay) - (by - ay) * (px - ax) BY DEF Cross
<1>3. ax \in Int /\ ay \in Int /\ bx \in Int /\ by \in Int /\ px \in Int /\ py \in Int BY <1>1
<1> HIDE DEF ax, ay, bx, by, px, py
<1>4. (bx - ax) * (py - ay) - (by - ay) * (px - ax) = (ax - px) * (by - py) - (bx - px) * (ay - py)
  BY <1>3, SMT
<1>5. (bx - ax) * (py - ay) - (by - ay) * (px - ax) \in Int BY <1>3, SMT
<1> QED BY <1>1, <1>2, <1>4, <1>5 DEF ax, ay, bx, by, px, py

(***************************************************************************)
(* A corner spans no area with an edge that begins or ends there.          *)
(***************************************************************************)
LEMMA NoAreaAtCorner ==
  ASSUME NEW a \in Points, NEW b \in Points
  PROVE  Cross(a, b, a) = 0 /\ Cross(b, a, a) = 0
<1> DEFINE x == b.x - a.x
           y == b.y - a.y
<1>1. a.x \in Int /\ a.y \in Int /\ b.x \in Int /\ b.y \in Int BY DEF Points
<1>2. x \in Int /\ y \in Int /\ a.x - a.x = 0 /\ a.y - a.y = 0 BY <1>1
<1>3. a.y - b.y = 0 - y /\ a.x - b.x = 0 - x BY <1>1
<1>4. Cross(a, b, a) = x * 0 - y * 0 BY <1>2 DEF Cross
<1>5. Cross(b, a, a) = (0 - x) * (0 - y) - (0 - y) * (0 - x) BY <1>3 DEF Cross
<1> HIDE DEF x, y
<1> QED BY <1>2, <1>4, <1>5, SMT

(***************************************************************************)
(* The heights of the corners above a point, each weighted with the area   *)
(* at the opposite edge, add up to nothing.                                *)
(***************************************************************************)
LEMMA WeightedHeights ==
  ASSUME NEW pt \in Points, NEW a \in Points, NEW b \in Points, NEW c \in Points
  PROVE  Cross(a, b, pt) * (c.y - pt.y) + Cross(b, c, pt) * (a.y - pt.y)
           + Cross(c, a, pt) * (b.y - pt.y) = 0
<1> DEFINE ax == a.x - pt.x
           ay == a.y - pt.y
           bx == b.x - pt.x
           by == b.y - pt.y
           cx == c.x - pt.x
           cy == c.y - pt.y
<1>1. ax \in Int /\ ay \in Int /\ bx \in Int /\ by \in Int /\ cx \in Int /\ cy \in Int
  BY AreaOf
<1>2. /\ Cross(a, b, pt) = ax * by - bx * ay
      /\ Cross(b, c, pt) = bx * cy - cx * by
      /\ Cross(c, a, pt) = cx * ay - ax * cy
  BY AreaOf
<1> HIDE DEF ax, ay, bx, by, cx, cy
<1>3. (ax * by - bx * ay) * cy + (bx * cy - cx * by) * ay + (cx * ay - ax * cy) * by = 0
  BY <1>1, SMT
<1> QED BY <1>2, <1>3 DEF ay, by, cy

(***************************************************************************)
(* Inside a triangle the ray meets one edge, and outside none or two.      *)
(***************************************************************************)
LEMMA RayParity ==
  ASSUME NEW x \in Int, NEW y \in Int, NEW z \in Int,
         NEW e \in Int, NEW f \in Int, NEW g \in Int,
         e * z + f * x + g * y = 0,
         x = 0 /\ y = 0 => e = 0
  PROVE  LET p == Meets(x, y, e)
             q == Meets(y, z, f)
             r == Meets(z, x, g)
         IN  /\ (e > 0 /\ f > 0 /\ g > 0) \/ (e < 0 /\ f < 0 /\ g < 0)
                  => (p /\ ~q /\ ~r) \/ (~p /\ q /\ ~r) \/ (~p /\ ~q /\ r)
             /\ (e > 0 \/ f > 0 \/ g > 0) /\ (e < 0 \/ f < 0 \/ g < 0)
                  => (~p /\ ~q /\ ~r) \/ (p /\ q /\ ~r) \/ (p /\ ~q /\ r) \/ (~p /\ q /\ r)
<1> DEFINE u == e * z
           v == f * x
           w == g * y
<1>1. /\ u \in Int
      /\ e > 0 /\ z > 0 => u > 0
      /\ e < 0 /\ z > 0 => u < 0
      /\ e >= 0 /\ z <= 0 => u <= 0
      /\ e <= 0 /\ z <= 0 => u >= 0
      /\ e > 0 /\ z < 0 => u < 0
      /\ e < 0 /\ z < 0 => u > 0
      /\ e >= 0 /\ z >= 0 => u >= 0
      /\ e <= 0 /\ z >= 0 => u <= 0
  BY ProductSign
<1>2. /\ v \in Int
      /\ f > 0 /\ x > 0 => v > 0
      /\ f < 0 /\ x > 0 => v < 0
      /\ f >= 0 /\ x <= 0 => v <= 0
      /\ f <= 0 /\ x <= 0 => v >= 0
      /\ f > 0 /\ x < 0 => v < 0
      /\ f < 0 /\ x < 0 => v > 0
      /\ f >= 0 /\ x >= 0 => v >= 0
      /\ f <= 0 /\ x >= 0 => v <= 0
  BY ProductSign
<1>3. /\ w \in Int
      /\ g > 0 /\ y > 0 => w > 0
      /\ g < 0 /\ y > 0 => w < 0
      /\ g >= 0 /\ y <= 0 => w <= 0
      /\ g <= 0 /\ y <= 0 => w >= 0
      /\ g > 0 /\ y < 0 => w < 0
      /\ g < 0 /\ y < 0 => w > 0
      /\ g >= 0 /\ y >= 0 => w >= 0
      /\ g <= 0 /\ y >= 0 => w <= 0
  BY ProductSign
<1>4. u + v + w = 0 OBVIOUS
<1> HIDE DEF u, v, w
<1> QED BY <1>1, <1>2, <1>3, <1>4, SMT DEF Meets

(***************************************************************************)
(* isIncludePoint for a triangle: it holds of every point inside and of    *)
(* none outside, for all integer coordinates, on whichever side of the     *)
(* point the corners lie and also when a corner is at its height.          *)
(***************************************************************************)
THEOREM IncludePointExact ==
  ASSUME NEW pt \in Points, NEW a \in Points, NEW b \in Points, NEW c \in Points
  PROVE  /\ StrictlyInside(pt, a, b, c) => isIncludePoint(pt, <<a, b, c>>)
         /\ StrictlyOutside(pt, a, b, c) => ~isIncludePoint(pt, <<a, b, c>>)
<1> DEFINE e == Cross(a, b, pt)
           f == Cross(b, c, pt)
           g == Cross(c, a, pt)
           t == <<a, b, c>>
           inside == (e > 0 /\ f > 0 /\ g > 0) \/ (e < 0 /\ f < 0 /\ g < 0)
           outside == (e > 0 \/ f > 0 \/ g > 0) /\ (e < 0 \/ f < 0 \/ g < 0)
           p == RayCrosses(pt, a, b)
           q == RayCrosses(pt, b, c)
           r == RayCrosses(pt, c, a)
           met == {i \in DOMAIN t : RayCrosses(pt, t[i], t[(i % Len(t)) + 1])}
<1>1. StrictlyInside(pt, a, b, c) <=> inside BY Zenon DEF StrictlyInside
<1>2. StrictlyOutside(pt, a, b, c) <=> outside BY Zenon DEF StrictlyOutside
<1>3. isIncludePoint(pt, t) <=> (pt \in {a, b, c} \/ Cardinality(met) % 2 > 0)
  <2>1. DOMAIN t = {1, 2, 3} /\ t[1] = a /\ t[2] = b /\ t[3] = c OBVIOUS
  <2>2. (\E i \in DOMAIN t : t[i] = pt) <=> pt \in {a, b, c} BY <2>1, Zenon
  <2> HIDE DEF t
  <2> QED BY <2>2, Zenon DEF isIncludePoint
<1>4. met = {i \in {1, 2, 3} : (i = 1 /\ p) \/ (i = 2 /\ q) \/ (i = 3 /\ r)}
  <2>1. DOMAIN t = {1, 2, 3} /\ t[1] = a /\ t[2] = b /\ t[3] = c /\ Len(t) = 3 OBVIOUS
  <2>2. (1 % 3) + 1 = 2 /\ (2 % 3) + 1 = 3 /\ (3 % 3) + 1 = 1 BY SMT
  <2> HIDE DEF t
  <2>3. met = {i \in {1, 2, 3} : RayCrosses(pt, t[i], t[(i % 3) + 1])} BY <2>1, Zenon
  <2> QED BY <2>1, <2>2, <2>3
<1>5. /\ e \in Int /\ f \in Int /\ g \in Int
      /\ a.y - pt.y \in Int /\ b.y - pt.y \in Int /\ c.y - pt.y \in Int
      /\ a.y - pt.y = 0 /\ b.y - pt.y = 0 => e = 0
  BY AreaOf
<1>6. /\ inside => (p /\ ~q /\ ~r) \/ (~p /\ q /\ ~r) \/ (~p /\ ~q /\ r)
      /\ outside => (~p /\ ~q /\ ~r) \/ (p /\ q /\ ~r) \/ (p /\ ~q /\ r) \/ (~p /\ q /\ r)
  <2>1. /\ p <=> Meets(a.y - pt.y, b.y - pt.y, e)
        /\ q <=> Meets(b.y - pt.y, c.y - pt.y, f)
        /\ r <=> Meets(c.y - pt.y, a.y - pt.y, g)
    BY RayMeets
  <2>2. e * (c.y - pt.y) + f * (a.y - pt.y) + g * (b.y - pt.y) = 0 BY WeightedHeights
  <2> DEFINE x == a.y - pt.y
             y == b.y - pt.y
             z == c.y - pt.y
  <2> HIDE DEF e, f, g, p, q, r, x, y, z
  <2>3. /\ x \in Int /\ y \in Int /\ z \in Int /\ e \in Int /\ f \in Int /\ g \in Int
        /\ e * z + f * x + g * y = 0 /\ (x = 0 /\ y = 0 => e = 0)
    BY <1>5, <2>2 DEF x, y, z
  <2>4. (p <=> Meets(x, y, e)) /\ (q <=> Meets(y, z, f)) /\ (r <=> Meets(z, x, g))
    BY <2>1 DEF x, y, z
  <2> QED BY <2>3, <2>4, RayParity
<1>7. pt \in {a, b, c} => ~outside
  <2>1. pt = a => e = 0 /\ g = 0 BY NoAreaAtCorner, Zenon
  <2>2. pt = b => e = 0 /\ f = 0 BY NoAreaAtCorner, Zenon
  <2>3. pt = c => f = 0 /\ g = 0 BY NoAreaAtCorner, Zenon
  <2> HIDE DEF e, f, g
  <2> QED BY <1>5, <2>1, <2>2, <2>3, SMT
<1> HIDE DEF e, f, g, p, q, r, met
<1>8. ASSUME NEW i, NEW j, i # j PROVE Cardinality({i, j}) = 2
  <2>1. IsFiniteSet({i}) /\ Cardinality({i}) = 1 /\ j \notin {i} BY <1>8, FS_Singleton
  <2>2. Cardinality({i} \cup {j}) = 1 + 1 BY <2>1, FS_AddElement
  <2>3. {i} \cup {j} = {i, j} OBVIOUS
  <2> QED BY <2>2, <2>3
<1>9. Cardinality({}) = 0 BY FS_EmptySet
<1>10. (p /\ ~q /\ ~r) \/ (~p /\ q /\ ~r) \/ (~p /\ ~q /\ r) => Cardinality(met) % 2 > 0
  <2> SUFFICES ASSUME (p /\ ~q /\ ~r) \/ (~p /\ q /\ ~r) \/ (~p /\ ~q /\ r)
               PROVE  Cardinality(met) = 1
    BY SMT
  <2>1. met = {1} \/ met = {2} \/ met = {3} BY <1>4
  <2>2. \A i : Cardinality({i}) = 1 BY FS_Singleton
  <2> QED BY <2>1, <2>2
<1>11. (~p /\ ~q /\ ~r) \/ (p /\ q /\ ~r) \/ (p /\ ~q /\ r) \/ (~p /\ q /\ r)
         => ~(Cardinality(met) % 2 > 0)
  <2> SUFFICES ASSUME (~p /\ ~q /\ ~r) \/ (p /\ q /\ ~r) \/ (p /\ ~q /\ r) \/ (~p /\ q /\ r)
               PROVE  Cardinality(met) = 0 \/ Cardinality(met) = 2
    BY SMT
  <2>1. met = {} \/ met = {1, 2} \/ met = {1, 3} \/ met = {2, 3} BY <1>4
  <2>2. 1 # 2 /\ 1 # 3 /\ 2 # 3 BY SMT
  <2>3. Cardinality({1, 2}) = 2 /\ Cardinality({1, 3}) = 2 /\ Cardinality({2, 3}) = 2
    BY <1>8, <2>2, Zenon
  <2> QED BY <1>9, <2>1, <2>3, Zenon
<1> QED BY <1>1, <1>2, <1>3, <1>6, <1>7, <1>10, <1>11, Zenon

(***************************************************************************)
(* The remainder of a number below twice the divisor.                      *)
(***************************************************************************)
LEMMA Remainder ==
  ASSUME NEW n \in Int, NEW d \in Int, 0 <= n, n < 2 * d
  PROVE  n % d = IF n < d THEN n ELSE n - d
<1>1. CASE n < d BY <1>1, Z3
<1>2. CASE n >= d BY <1>2, Z3
<1> QED BY <1>1, <1>2, SMT

(***************************************************************************)
(* Schedule::IsWithinTimeRange is exact: for every start and minute of a   *)
(* day of any length and every range, ranges over midnight, of no length   *)
(* and longer than a day included, the schedule is on in the range minutes *)
(* that follow its start, the minute of the start left out.                *)
(***************************************************************************)
THEOREM TimeRangeExact ==
  ASSUME NEW start \in 0..DayMinutes - 1, NEW minute \in 0..DayMinutes - 1, NEW range \in Nat
  PROVE  IsWithinTimeRange(start, range, minute) <=> minute \in ActiveMinutes(start, range)
<1>0. DayMinutes \in Int /\ DayMinutes > 0 BY CalendarAssumption
<1> DEFINE k == IF minute - start > 0 THEN minute - start ELSE minute - start + DayMinutes
<1>1. k \in 1..DayMinutes /\ 0 <= start + k /\ start + k \in Int /\ start + k < 2 * DayMinutes
      /\ (IF start + k < DayMinutes THEN start + k ELSE start + k - DayMinutes) = minute
  BY <1>0, SMT
<1>2. (start + k) % DayMinutes = minute
  BY <1>0, <1>1, Remainder
<1>3. IsWithinTimeRange(start, range, minute) <=> k <= range
  BY <1>0, <1>1, SMT DEF IsWithinTimeRange
<1>4. ASSUME k <= range PROVE minute \in ActiveMinutes(start, range)
  <2>1. k \in 1..range BY <1>0, <1>1, <1>4, SMT
  <2> QED BY <1>2, <2>1, Zenon DEF ActiveMinutes
<1>5. ASSUME NEW j \in 1..range, minute = (start + j) % DayMinutes PROVE k <= range
  <2>1. CASE range >= DayMinutes BY <1>0, <1>1, <2>1, SMT
  <2>2. CASE range < DayMinutes
    <3>1. 0 <= start + j /\ start + j \in Int /\ start + j < 2 * DayMinutes BY <1>0, <2>2, SMT
    <3>2. minute = IF start + j < DayMinutes THEN start + j ELSE start + j - DayMinutes
      <4>1. (start + j) % DayMinutes
              = IF start + j < DayMinutes THEN start + j ELSE start + j - DayMinutes
        BY <1>0, <3>1, Remainder
      <4> QED BY <1>5, <4>1, Zenon
    <3> QED BY <1>0, <2>2, <3>2, SMT
  <2> QED BY <1>0, <2>1, <2>2, SMT
<1> HIDE DEF k
<1> QED BY <1>3, <1>4, <1>5 DEF ActiveMinutes

(***************************************************************************)
(* A set of naturals with a member has a least one.                        *)
(***************************************************************************)
LEMMA Smallest ==
  ASSUME NEW S, S \subseteq Nat, S # {}
  PROVE  \E n \in S : \A m \in S : n <= m
<1>1. PICK n \in S : \A m \in S : ~ (<<m, n>> \in OpToRel(<, Nat))
  BY NatLessThanWellFounded, WFMin
<1>2. OpToRel(<, Nat) = {ss \in Nat \X Nat : ss[1] < ss[2]}
  BY Zenon DEF OpToRel
<1>3. \A m \in S : n <= m
  <2>1. ASSUME NEW m \in S, m < n PROVE FALSE
    <3>1. m \in Nat /\ n \in Nat OBVIOUS
    <3>2. <<m, n>> \in Nat \X Nat /\ <<m, n>>[1] < <<m, n>>[2] BY <2>1, <3>1
    <3>3. <<m, n>> \in OpToRel(<, Nat) BY <1>2, <3>2, Zenon
    <3> QED BY <1>1, <3>3, Zenon
  <2>2. \A m \in S : ~(m < n) BY <2>1
  <2> QED BY <2>2, SMT
<1> QED BY <1>3

(***************************************************************************)
(* Of some meetings, one comes before the others in the order of the loops *)
(* of calcLineCross, so its CHOOSE has a value.                            *)
(***************************************************************************)
LEMMA FirstMeeting ==
  ASSUME NEW M, M # {}, M \subseteq Nat \X Nat \X Nat
  PROVE  \E m \in M : \A n \in M : Before(m, n)
<1>1. PICK a \in M : \A n \in M : a[1] <= n[1]
  <2>1. {m[1] : m \in M} \subseteq Nat /\ {m[1] : m \in M} # {} OBVIOUS
  <2>2. PICK k \in {m[1] : m \in M} : \A x \in {m[1] : m \in M} : k <= x
    BY <2>1, Smallest
  <2>3. PICK b \in M : k = b[1] BY <2>2
  <2> QED BY <2>2, <2>3
<1>2. PICK b \in M : b[1] = a[1] /\ \A n \in M : n[1] = a[1] => b[2] <= n[2]
  <2> DEFINE S == {m \in M : m[1] = a[1]}
  <2>1. {m[2] : m \in S} \subseteq Nat /\ {m[2] : m \in S} # {} OBVIOUS
  <2>2. PICK k \in {m[2] : m \in S} : \A x \in {m[2] : m \in S} : k <= x
    BY <2>1, Smallest
  <2>3. PICK b \in S : k = b[2] BY <2>2
  <2> QED BY <2>2, <2>3
<1>3. PICK c \in M : c[1] = a[1] /\ c[2] = b[2]
                     /\ \A n \in M : n[1] = a[1] /\ n[2] = b[2] => c[3] <= n[3]
  <2> DEFINE S == {m \in M : m[1] = a[1] /\ m[2] = b[2]}
  <2>1. {m[3] : m \in S} \subseteq Nat /\ {m[3] : m \in S} # {} BY <1>2
  <2>2. PICK k \in {m[3] : m \in S} : \A x \in {m[3] : m \in S} : k <= x
    BY <2>1, Smallest
  <2>3. PICK b_1 \in S : k = b_1[3] BY <2>2
  <2> QED BY <2>2, <2>3
<1>4. ASSUME NEW n \in M PROVE Before(c, n)
  <2>1. /\ n[1] \in Nat /\ n[2] \in Nat /\ n[3] \in Nat
        /\ c[1] \in Nat /\ c[2] \in Nat /\ c[3] \in Nat
    OBVIOUS
  <2>2. /\ c[1] <= n[1]
        /\ n[1] = c[1] => c[2] <= n[2]
        /\ n[1] = c[1] /\ n[2] = c[2] => c[3] <= n[3]
    BY <1>1, <1>2, <1>3
  <2> QED BY <2>1, <2>2, SMT DEF Before
<1> QED BY <1>4

(***************************************************************************)
(* A meeting is a line, a segment of it and a step, all of points.         *)
(***************************************************************************)
LEMMA MeetingsType ==
  ASSUME NEW pts \in Seq(Points), NEW rois \in Seq(Seq(Points))
  PROVE  \A m \in Meetings(pts, rois) :
           /\ m \in Nat \X Nat \X Nat
           /\ m[1] \in DOMAIN rois /\ m[2] \in 1..Len(rois[m[1]]) - 1 /\ m[3] \in 1..Len(pts) - 1
           /\ pts[m[3]] \in Points /\ pts[m[3] + 1] \in Points
           /\ rois[m[1]][m[2]] \in Points /\ rois[m[1]][m[2] + 1] \in Points
           /\ checkLineIntersect(pts[m[3]], pts[m[3] + 1],
                                 rois[m[1]][m[2]], rois[m[1]][m[2] + 1]) # "NotCrossed"
<1> SUFFICES ASSUME NEW m \in Meetings(pts, rois)
             PROVE  /\ m \in Nat \X Nat \X Nat
                    /\ m[1] \in DOMAIN rois /\ m[2] \in 1..Len(rois[m[1]]) - 1
                    /\ m[3] \in 1..Len(pts) - 1
                    /\ pts[m[3]] \in Points /\ pts[m[3] + 1] \in Points
                    /\ rois[m[1]][m[2]] \in Points /\ rois[m[1]][m[2] + 1] \in Points
                    /\ checkLineIntersect(pts[m[3]], pts[m[3] + 1],
                                          rois[m[1]][m[2]], rois[m[1]][m[2] + 1]) # "NotCrossed"
  OBVIOUS
<1>1. /\ m \in UNION {{i} \X (1..Len(rois[i]) - 1) \X (1..Len(pts) - 1) : i \in DOMAIN rois}
      /\ checkLineIntersect(pts[m[3]], pts[m[3] + 1],
                            rois[m[1]][m[2]], rois[m[1]][m[2] + 1]) # "NotCrossed"
  BY Zenon DEF Meetings
<1>2. PICK i \in DOMAIN rois : m \in {i} \X (1..Len(rois[i]) - 1) \X (1..Len(pts) - 1)
  BY <1>1, Zenon
<1>3. PICK l \in 1..Len(rois[i]) - 1, k \in 1..Len(pts) - 1 : m = <<i, l, k>>
  <2> DEFINE L == 1..Len(rois[i]) - 1
             K == 1..Len(pts) - 1
  <2>1. m \in {i} \X L \X K BY <1>2
  <2> HIDE DEF L, K
  <2>2. m = <<m[1], m[2], m[3]>> /\ m[1] = i /\ m[2] \in L /\ m[3] \in K
    BY <2>1, SMT
  <2> QED BY <2>2, Zenon DEF L, K
<1>4. m[1] = i /\ m[2] = l /\ m[3] = k
  BY <1>3
<1>5. i \in Nat /\ rois[i] \in Seq(Points)
  OBVIOUS
<1>6. l \in Nat /\ k \in Nat
  BY SMT
<1>7. pts[k] \in Points /\ pts[k + 1] \in Points
  OBVIOUS
<1>8. rois[i][l] \in Points /\ rois[i][l + 1] \in Points
  BY <1>5
<1> QED BY <1>1, <1>3, <1>4, <1>5, <1>6, <1>7, <1>8

(***************************************************************************)
(* The meetings calcLineCross finds are crossings: all of them with a two- *)
(* way line, those it calls clockwise with a one-way line.                 *)
(***************************************************************************)
LEMMA MeetingsCross ==
  ASSUME NEW pts \in Seq(Points)
  PROVE  /\ \A m \in Meetings(pts, TwoWay) : Crosses(pts[m[3]], pts[m[3] + 1])
         /\ \A m \in Meetings(pts, OneWay) :
              checkLineIntersect(pts[m[3]], pts[m[3] + 1],
                                 OneWay[m[1]][m[2]], OneWay[m[1]][m[2] + 1]) = "Clockwise"
                => Crosses(pts[m[3]], pts[m[3] + 1])
<1>0. TwoWay \in Seq(Seq(Points)) /\ OneWay \in Seq(Seq(Points))
  BY PointsAssumption
<1>1. ASSUME NEW rois \in Seq(Seq(Points)), NEW m \in Meetings(pts, rois)
      PROVE  <<rois[m[1]][m[2]], rois[m[1]][m[2] + 1]>> \in Segments(rois)
  <2>1. m[1] \in DOMAIN rois /\ m[2] \in 1..Len(rois[m[1]]) - 1
    BY <1>1, MeetingsType, Zenon
  <2>2. <<rois[m[1]][m[2]], rois[m[1]][m[2] + 1]>>
          \in {<<rois[m[1]][l], rois[m[1]][l + 1]>> : l \in 1..Len(rois[m[1]]) - 1}
    BY <2>1, Zenon
  <2> QED BY <2>1, <2>2, Zenon DEF Segments
<1>2. ASSUME NEW m \in Meetings(pts, TwoWay) PROVE Crosses(pts[m[3]], pts[m[3] + 1])
  <2> DEFINE a == TwoWay[m[1]][m[2]]
             b == TwoWay[m[1]][m[2] + 1]
  <2>1. SegmentsMeet(pts[m[3]], pts[m[3] + 1], a, b)
    BY <1>0, MeetingsType, IntersectMeets, Zenon
  <2>2. <<a, b>> \in Segments(TwoWay)
    BY <1>0, <1>1, Zenon
  <2> HIDE DEF a, b
  <2>3. <<a, b>>[1] = a /\ <<a, b>>[2] = b OBVIOUS
  <2> QED BY <2>1, <2>2, <2>3, Zenon DEF Crosses
<1>3. ASSUME NEW m \in Meetings(pts, OneWay),
             checkLineIntersect(pts[m[3]], pts[m[3] + 1],
                                OneWay[m[1]][m[2]], OneWay[m[1]][m[2] + 1]) = "Clockwise"
      PROVE  Crosses(pts[m[3]], pts[m[3] + 1])
  <2> DEFINE a == OneWay[m[1]][m[2]]
             b == OneWay[m[1]][m[2] + 1]
  <2>1. SegmentsMeet(pts[m[3]], pts[m[3] + 1], a, b)
    BY <1>0, MeetingsType, IntersectMeets, Zenon
  <2>2. Cross(a, b, pts[m[3]]) >= 0 /\ Cross(a, b, pts[m[3] + 1]) < 0
    BY <1>0, <1>3, MeetingsType, ClockwiseCrosses, Zenon
  <2>3. <<a, b>> \in Segments(OneWay)
    BY <1>0, <1>1, Zenon
  <2> HIDE DEF a, b
  <2>4. <<a, b>>[1] = a /\ <<a, b>>[2] = b OBVIOUS
  <2> QED BY <2>1, <2>2, <2>3, <2>4, Zenon DEF Crosses
<1> QED BY <1>2, <1>3

(***************************************************************************)
(* If the line checker reports a direction for a history of points, one of *)
(* its steps crosses a line the way it forbids. This needs that            *)
(* calcLineCross returns the direction of a meeting that is there.         *)
(***************************************************************************)
LEMMA DirectionCrosses ==
  ASSUME NEW pts \in Seq(Points), LineDirection(pts) # "NotCrossed"
  PROVE  \E k \in 1..Len(pts) - 1 : Crosses(pts[k], pts[k + 1])
<1>0. TwoWay \in Seq(Seq(Points)) /\ OneWay \in Seq(Seq(Points))
  BY PointsAssumption
<1>1. CASE calcLineCross(pts, OneWay) = "Clockwise"
  <2> DEFINE M == Meetings(pts, OneWay)
  <2>1. M # {}
    BY <1>1, Zenon DEF calcLineCross
  <2>2. M \subseteq Nat \X Nat \X Nat
    BY <1>0, MeetingsType, Zenon
  <2>3. \E x \in M : \A y \in M : Before(x, y)
    BY <2>1, <2>2, FirstMeeting, Zenon
  <2> DEFINE m == CHOOSE x \in M : \A y \in M : Before(x, y)
  <2>4. m \in M
    BY <2>3, Zenon
  <2>5. checkLineIntersect(pts[m[3]], pts[m[3] + 1], OneWay[m[1]][m[2]], OneWay[m[1]][m[2] + 1])
          = "Clockwise"
    BY <1>1, <2>1, Zenon DEF calcLineCross
  <2> HIDE DEF m
  <2> QED BY <1>0, <2>4, <2>5, MeetingsCross, MeetingsType, Zenon
<1>2. CASE calcLineCross(pts, OneWay) # "Clockwise"
  <2>1. calcLineCross(pts, TwoWay) # "NotCrossed"
    BY <1>2, Zenon DEF LineDirection
  <2>2. PICK m \in Meetings(pts, TwoWay) : TRUE
    BY <2>1, Zenon DEF calcLineCross
  <2> QED BY <1>0, <2>2, MeetingsCross, MeetingsType, Zenon
<1> QED BY <1>1, <1>2

-----------------------------------------------------------------------------
LineEvents == {"LineIntrusion", "VehicleIntrusion"}

TypeOK == /\ event \in EventCodes
          /\ now \in Nat /\ last_active_time \in Nat
          /\ DOMAIN history \subseteq Tracks
          /\ seen \in [Tracks -> Nat]
          /\ at \in [Tracks -> SUBSET Points]
          /\ wasOut \subseteq Tracks /\ crossed \subseteq Tracks
          /\ entries \in [Tracks -> SUBSET Nat]
          /\ parked \in [Tracks -> SUBSET Nat]

(***************************************************************************)
(* The inductive invariant. The release clock of a history of points is    *)
(* the time the track was seen last; the last point is the last position   *)
(* of the object, and if a step from one point to the next crosses a line, *)
(* the object crossed a line in its present appearance.                    *)
(***************************************************************************)
LineEntryOK(e, seenAt, position, hasCrossed) ==
    /\ e \in [data : Seq(Points), since : Nat]
    /\ e.since = seenAt
    /\ e.data # <<>> => position = {e.data[Len(e.data)]}
    /\ \A k \in 1..Len(e.data) - 1 : Crosses(e.data[k], e.data[k + 1]) => hasCrossed

(***************************************************************************)
(* A continuous flag is only set for a track that was outside.             *)
(***************************************************************************)
AreaEntryOK(e, seenAt, wasOutside) ==
    /\ e \in [data : BOOLEAN, since : Nat]
    /\ e.since = seenAt
    /\ e.data => wasOutside

(***************************************************************************)
(* The first entry of a parking history is not older than its release      *)
(* clock and, until the release time has passed since, the object was      *)
(* inside then. The release clock is what keeps that first entry young     *)
(* when the history is used.                                               *)
(***************************************************************************)
ParkingEntryOK(e, times, time) ==
    /\ e \in [data : [size : Nat, first : Nat], since : Nat]
    /\ e.since <= time
    /\ e.data.size > 0 => /\ e.since <= e.data.first
                          /\ time - e.data.first <= ReleaseLong => e.data.first \in times

(***************************************************************************)
(* Each event code uses the history of the schedule in its own way.        *)
(***************************************************************************)
HistoryOK ==
    \A t \in DOMAIN history :
      /\ event \in LineEvents => LineEntryOK(history[t], seen[t], at[t], t \in crossed)
      /\ event = "AreaIntrusion" => AreaEntryOK(history[t], seen[t], t \in wasOut)
      /\ event = "VehicleParking" => ParkingEntryOK(history[t], entries[t], now)

EventsInvariant == TypeOK /\ HistoryOK /\ reported = last_active_time /\ EventsAreReal

(***************************************************************************)
(* The limits of the schedule are natural numbers.                         *)
(***************************************************************************)
LEMMA Limits ==
  /\ Interval \in Nat /\ Require \in Nat /\ ReleaseShort \in Nat /\ ReleaseLong \in Nat
  /\ MaxTime \in Nat /\ HistMax \in Nat /\ MinTracking \in Nat /\ MaxStep \in Nat
  BY LimitsAssumption

(***************************************************************************)
(* What RunChecker does, with the histories h that were not released: the  *)
(* objects that are considered get the entry of the checker, the others    *)
(* keep theirs, and each result is one of the checker.                     *)
(***************************************************************************)
FrameOutcome(objects, h, time) ==
    /\ Considered(objects) \subseteq DOMAIN objects
    /\ DOMAIN objects \subseteq Tracks
    /\ \A t \in DOMAIN objects : objects[t] \in Points
    /\ DOMAIN history' = DOMAIN h \cup Considered(objects)
    /\ \A t \in Considered(objects) : history'[t] = Checker(h, t, objects[t], time).entry
    /\ \A t \in DOMAIN h \ Considered(objects) : history'[t] = h[t]
    /\ \A r \in results' : /\ r[1] \in Considered(objects)
                           /\ r[2] \in Checker(h, r[1], objects[r[1]], time).report

LEMMA FrameFacts ==
  ASSUME NEW objects \in Layers, NEW others \in SUBSET Tracks, NEW time,
         RunChecker(objects, others, time)
  PROVE  FrameOutcome(objects, Released(objects, others, time), time)
<1> DEFINE h == Released(objects, others, time)
<1>1. PICK S \in SUBSET Tracks : objects \in [S -> Positions]
  BY Zenon DEF Layers
<1>2. DOMAIN objects = S /\ \A t \in S : objects[t] \in Points
  BY <1>1, PointsAssumption
<1>3. Considered(objects) \subseteq DOMAIN objects
  BY Zenon DEF Considered
<1> DEFINE used == Considered(objects)
           after == [t \in used |-> Checker(h, t, objects[t], time)]
<1>4. /\ history' = [t \in DOMAIN h \cup DOMAIN after |->
                       IF t \in DOMAIN after THEN after[t].entry ELSE h[t]]
      /\ results' = UNION {{t} \X after[t].report : t \in DOMAIN after}
  BY Zenon DEF RunChecker
<1> HIDE DEF used, h
<1>5. DOMAIN after = used /\ \A t \in used : after[t] = Checker(h, t, objects[t], time)
  BY Zenon
<1> HIDE DEF after
<1>6. DOMAIN history' = DOMAIN h \cup used
  BY <1>4, <1>5, Zenon
<1>7. \A t \in used : history'[t] = Checker(h, t, objects[t], time).entry
  BY <1>4, <1>5, Zenon
<1>8. \A t \in DOMAIN h \ used : history'[t] = h[t]
  BY <1>4, <1>5, Zenon
<1>9. ASSUME NEW r \in results'
      PROVE  r[1] \in used /\ r[2] \in Checker(h, r[1], objects[r[1]], time).report
  <2>1. PICK t \in used : r \in {t} \X after[t].report
    BY <1>4, <1>5, Zenon
  <2>2. r[1] = t /\ r[2] \in after[t].report
    BY <2>1, SMT
  <2> QED BY <1>5, <2>2, Zenon
<1>10. FrameOutcome(objects, h, time)
  BY <1>2, <1>3, <1>6, <1>7, <1>8, <1>9, Zenon DEF used, FrameOutcome
<1> QED BY <1>10 DEF h

(***************************************************************************)
(* The histories that ReleaseInactiveHistory keeps were renewed less than  *)
(* the release time ago, and are renewed when the track is present.        *)
(***************************************************************************)
Survivors(h, present, time) ==
    /\ DOMAIN h \subseteq DOMAIN history
    /\ \A t \in DOMAIN h :
         /\ time - history[t].since < Release
         /\ h[t] = IF t \in present THEN [history[t] EXCEPT !.since = time] ELSE history[t]

LEMMA ReleasedFacts ==
  ASSUME NEW present, NEW time
  PROVE  Survivors(ReleaseInactiveHistory(history, present, time), present, time)
BY Zenon DEF ReleaseInactiveHistory, Survivors

(***************************************************************************)
(* The checker an event code selects.                                      *)
(***************************************************************************)
LEMMA CheckerOf ==
  ASSUME NEW h, NEW t, NEW pt, NEW time
  PROVE  /\ event \in LineEvents => Checker(h, t, pt, time) = LineIntrusionBase(h, t, pt, time)
         /\ event = "AreaIntrusion" => Checker(h, t, pt, time) = IntrusionZone(h, t, pt, time)
         /\ event = "VehicleParking" => Checker(h, t, pt, time) = VehicleParking(h, t, pt, time)
<1>1. event \in LineEvents => Checker(h, t, pt, time) = LineIntrusionBase(h, t, pt, time)
  BY DEF Checker, LineEvents
<1>2. event = "AreaIntrusion" => Checker(h, t, pt, time) = IntrusionZone(h, t, pt, time)
  BY DEF Checker
<1>3. event = "VehicleParking" => Checker(h, t, pt, time) = VehicleParking(h, t, pt, time)
  BY DEF Checker
<1> QED BY <1>1, <1>2, <1>3

(***************************************************************************)
(* A point is pushed on a history of points, which is emptied when it is   *)
(* full.                                                                   *)
(***************************************************************************)
Pushed(data, pt) == IF Len(Append(data, pt)) > HistMax THEN <<>> ELSE Append(data, pt)

(***************************************************************************)
(* Pushing a point keeps the invariant of a history of points: the one new *)
(* step is from the last position to the point.                            *)
(***************************************************************************)
LEMMA LineEntryPushed ==
  ASSUME NEW old, NEW pt \in Points, NEW position,
         NEW hadCrossed \in BOOLEAN, NEW hasCrossed \in BOOLEAN, NEW time \in Nat,
         LineEntryOK(old, time, position, hadCrossed),
         old.data # <<>> => (hadCrossed => hasCrossed),
         old.data # <<>> => \A p \in position : Crosses(p, pt) => hasCrossed
  PROVE  LineEntryOK([old EXCEPT !.data = Pushed(old.data, pt)], time, {pt}, hasCrossed)
<1> DEFINE pts == Pushed(old.data, pt)
<1>0. /\ old \in [data : Seq(Points), since : Nat] /\ old.since = time
      /\ old.data # <<>> => position = {old.data[Len(old.data)]}
      /\ \A k \in 1..Len(old.data) - 1 : Crosses(old.data[k], old.data[k + 1]) => hadCrossed
  BY Zenon DEF LineEntryOK
<1> DEFINE d == old.data
           e == [old EXCEPT !.data = pts]
<1>1. d \in Seq(Points) /\ old.since \in Nat
  BY <1>0
<1>2. /\ Append(d, pt) \in Seq(Points) /\ Len(Append(d, pt)) = Len(d) + 1
      /\ Append(d, pt)[Len(d) + 1] = pt
      /\ \A k \in 1..Len(d) : Append(d, pt)[k] = d[k]
  BY <1>1
<1>3. pts \in Seq(Points) /\ (pts # <<>> => pts = Append(d, pt) )
  BY <1>2 DEF Pushed
<1> HIDE DEF pts
<1>4. e.data = pts /\ e.since = time /\ e \in [data : Seq(Points), since : Nat]
  BY <1>0, <1>1, <1>3
<1>5. pts # <<>> => {pt} = {pts[Len(pts)]}
  BY <1>2, <1>3
<1>6. ASSUME NEW k \in 1..Len(pts) - 1, Crosses(pts[k], pts[k + 1]) PROVE hasCrossed
  <2>1. pts = Append(d, pt) /\ Len(pts) = Len(d) + 1 /\ k \in 1..Len(d) /\ Len(d) \in Nat
    <3>1. pts # <<>> BY <1>3, <1>6, SMT
    <3>2. pts = Append(d, pt) /\ Len(pts) = Len(d) + 1 BY <1>2, <1>3, <3>1, Zenon
    <3>3. Len(d) \in Nat BY <1>1
    <3> QED BY <3>2, <3>3, SMT
  <2>2. d # <<>>
    BY <1>1, <2>1, SMT
  <2>3. CASE k = Len(d)
    <3>1. pts[k] = d[Len(d)] /\ pts[k + 1] = pt BY <1>2, <2>1, <2>3, Zenon
    <3>2. d[Len(d)] \in position BY <1>0, <2>2, Zenon
    <3> QED BY <1>0, <1>6, <2>2, <3>1, <3>2, Zenon
  <2>4. CASE k # Len(d)
    <3>1. k \in 1..Len(d) - 1 /\ k + 1 \in 1..Len(d) BY <2>1, <2>4, SMT
    <3>2. pts[k] = d[k] /\ pts[k + 1] = d[k + 1] BY <1>2, <2>1, <3>1, Zenon
    <3> QED BY <1>0, <1>6, <2>2, <3>1, <3>2, Zenon
  <2> QED BY <2>3, <2>4
<1> HIDE DEF e
<1>7. /\ e.data # <<>> => {pt} = {e.data[Len(e.data)]}
      /\ \A k \in 1..Len(e.data) - 1 : Crosses(e.data[k], e.data[k + 1]) => hasCrossed
  BY <1>4, <1>5, <1>6, Zenon
<1>8. LineEntryOK(e, time, {pt}, hasCrossed)
  BY <1>4, <1>7, Zenon DEF LineEntryOK
<1> QED BY <1>8 DEF e, pts

(***************************************************************************)
(* What Observe records of one track: an appearance that has not ended     *)
(* keeps what is known of it.                                              *)
(***************************************************************************)
Observation(objects, others, time, t) ==
    /\ seen'[t] = IF t \in DOMAIN objects \cup others THEN time ELSE seen[t]
    /\ t \in Considered(objects) => at'[t] = {objects[t]}
    /\ ~(time - seen[t] >= Release) =>
         /\ t \notin Considered(objects) => at'[t] = at[t]
         /\ t \in crossed => t \in crossed'
         /\ t \in wasOut => t \in wasOut'
         /\ t \in Considered(objects) => \A p \in at[t] : Crosses(p, objects[t]) => t \in crossed'
    /\ t \in Considered(objects) /\ ~InSomeRoi(objects[t], Rois) => t \in wasOut'
    /\ t \in Considered(objects) /\ InSomeRoi(objects[t], Rois) => time \in entries'[t]
    /\ \A s \in entries[t] : time - s <= Release => s \in entries'[t]

LEMMA Observed ==
  ASSUME NEW objects \in Layers, NEW others \in SUBSET Tracks, NEW time,
         Observe(objects, others, time), NEW t \in Tracks
  PROVE  Observation(objects, others, time, t)
<1> DEFINE used == Considered(objects)
           vanished == {x \in Tracks : time - seen[x] >= Release}
           inside == {x \in used : InSomeRoi(objects[x], Rois)}
<1>1. seen'[t] = IF t \in DOMAIN objects \cup others THEN time ELSE seen[t]
  BY Zenon DEF Observe
<1>2. at'[t] = IF t \in used THEN {objects[t]} ELSE IF t \in vanished THEN {} ELSE at[t]
  BY Zenon DEF Observe
<1>3. wasOut' = (wasOut \ vanished) \cup (used \ inside)
  BY Zenon DEF Observe
<1>4. crossed' = (crossed \ vanished)
                   \cup {x \in used \ vanished : \E p \in at[x] : Crosses(p, objects[x])}
  BY Zenon DEF Observe
<1>5. entries'[t] = {s \in entries[t] : time - s <= Release}
                      \cup (IF t \in inside THEN {time} ELSE {})
  BY Zenon DEF Observe
<1>6. /\ t \in vanished <=> time - seen[t] >= Release
      /\ t \in inside <=> t \in used /\ InSomeRoi(objects[t], Rois)
  OBVIOUS
<1>7. t \in used /\ t \notin vanished => \A p \in at[t] : Crosses(p, objects[t]) => t \in crossed'
  BY <1>4, Zenon
<1> HIDE DEF used, vanished, inside
<1>8. t \notin vanished => /\ t \notin used => at'[t] = at[t]
                           /\ t \in crossed => t \in crossed'
                           /\ t \in wasOut => t \in wasOut'
  BY <1>2, <1>3, <1>4, Zenon
<1>9. t \in used /\ t \notin inside => t \in wasOut'
  BY <1>3, Zenon
<1>10. /\ t \in used /\ InSomeRoi(objects[t], Rois) => time \in entries'[t]
       /\ \A s \in entries[t] : time - s <= Release => s \in entries'[t]
  BY <1>5, <1>6, Zenon
<1>11. t \in used => at'[t] = {objects[t]}
  BY <1>2, Zenon
<1> QED BY <1>1, <1>6, <1>7, <1>8, <1>9, <1>10, <1>11, Zenon DEF used, Observation

(***************************************************************************)
(* A frame keeps the histories of points. A history that survives the      *)
(* release is one of a track that has not vanished, because its release    *)
(* clock is the time it was seen last.                                     *)
(***************************************************************************)
LEMMA LineFrame ==
  ASSUME EventsInvariant, NEW objects \in Layers, NEW others \in SUBSET Tracks, NEW time \in Nat,
         RunChecker(objects, others, time), Observe(objects, others, time),
         event \in LineEvents, NEW t \in DOMAIN history'
  PROVE  LineEntryOK(history'[t], seen'[t], at'[t], t \in crossed')
<1> DEFINE present == DOMAIN objects \cup others
           used == Considered(objects)
           h == ReleaseInactiveHistory(history, present, time)
<1>0. TypeOK /\ HistoryOK BY DEF EventsInvariant
<1>1. event # "VehicleParking" /\ Release = ReleaseShort
  BY DEF LineEvents, Release
<1>2. h = Released(objects, others, time)
  BY <1>1, Zenon DEF Released
<1>3. /\ used \subseteq DOMAIN objects /\ DOMAIN objects \subseteq Tracks
      /\ \A x \in DOMAIN objects : objects[x] \in Points
      /\ DOMAIN history' = DOMAIN h \cup used
      /\ \A x \in used : history'[x] = Checker(h, x, objects[x], time).entry
      /\ \A x \in DOMAIN h \ used : history'[x] = h[x]
  <2>1. FrameOutcome(objects, Released(objects, others, time), time)
    BY FrameFacts, Zenon
  <2> HIDE DEF h
  <2> QED BY <1>2, <2>1, Zenon DEF FrameOutcome
<1>4. /\ DOMAIN h \subseteq DOMAIN history
      /\ \A x \in DOMAIN h :
           /\ time - history[x].since < Release
           /\ h[x] = IF x \in present THEN [history[x] EXCEPT !.since = time] ELSE history[x]
  <2>1. Survivors(h, present, time) BY ReleasedFacts, Zenon
  <2> HIDE DEF present, h
  <2> QED BY <2>1, Zenon DEF Survivors
<1>5. t \in Tracks
  BY <1>0, <1>3, <1>4, Zenon DEF TypeOK
<1>6. /\ seen'[t] = IF t \in present THEN time ELSE seen[t]
      /\ t \in used => at'[t] = {objects[t]}
      /\ ~(time - seen[t] >= Release) =>
           /\ t \notin used => at'[t] = at[t]
           /\ t \in crossed => t \in crossed'
           /\ t \in used => \A p \in at[t] : Crosses(p, objects[t]) => t \in crossed'
  <2>1. Observation(objects, others, time, t)
    BY <1>5, Observed, Zenon
  <2> QED BY <2>1, Zenon DEF Observation
<1>7. ASSUME t \in DOMAIN h
      PROVE  /\ LineEntryOK(history[t], seen[t], at[t], t \in crossed)
             /\ history[t] \in [data : Seq(Points), since : Nat]
             /\ history[t].since = seen[t]
             /\ ~(time - seen[t] >= Release)
  <2>1. LineEntryOK(history[t], seen[t], at[t], t \in crossed)
    BY <1>0, <1>4, <1>7, Zenon DEF HistoryOK
  <2>2. history[t] \in [data : Seq(Points), since : Nat] /\ history[t].since = seen[t]
    BY <2>1, Zenon DEF LineEntryOK
  <2>3. time - history[t].since < Release BY <1>4, <1>7
  <2>4. seen[t] \in Nat BY <1>0, <1>5 DEF TypeOK
  <2> QED BY <1>1, <2>1, <2>2, <2>3, <2>4, Limits, SMT
<1> HIDE DEF h, used, present
<1>8. CASE t \in used
  <2> DEFINE old == GetHistory(h, t, time, <<>>)
  <2>1. history'[t] = [old EXCEPT !.data = Pushed(old.data, objects[t])]
    <3>1. history'[t] = LineIntrusionBase(h, t, objects[t], time).entry
      BY <1>3, <1>8, CheckerOf, Zenon
    <3>2. LineIntrusionBase(h, t, objects[t], time).entry
            = [old EXCEPT !.data = Pushed(old.data, objects[t])]
      BY DEF LineIntrusionBase, Pushed
    <3> QED BY <3>1, <3>2, Zenon
  <2>2. t \in present /\ objects[t] \in Points
    BY <1>3, <1>8, Zenon DEF present
  <2>3. CASE t \in DOMAIN h
    <3>1. h[t] = [history[t] EXCEPT !.since = time] BY <1>4, <2>2, <2>3, Zenon
    <3>2. /\ h[t].since = time /\ h[t].data = history[t].data
          /\ h[t] \in [data : Seq(Points), since : Nat]
      BY <1>7, <2>3, <3>1
    <3>3. time - h[t].since <= Release BY <1>1, <3>2, Limits, SMT
    <3>4. old = h[t] BY <2>3, <3>3, Zenon DEF GetHistory
    <3>5. LineEntryOK(old, time, at[t], t \in crossed)
      BY <1>7, <2>3, <3>2, <3>4, Zenon DEF LineEntryOK
    <3>6. /\ old.data # <<>> => (t \in crossed => t \in crossed')
          /\ old.data # <<>> => \A p \in at[t] : Crosses(p, objects[t]) => t \in crossed'
      BY <1>6, <1>7, <1>8, <2>3, Zenon
    <3>7. (t \in crossed) \in BOOLEAN /\ (t \in crossed') \in BOOLEAN OBVIOUS
    <3> HIDE DEF old
    <3>8. LineEntryOK([old EXCEPT !.data = Pushed(old.data, objects[t])],
                      time, {objects[t]}, t \in crossed')
      <4> DEFINE had == t \in crossed
                 has == t \in crossed'
                 position == at[t]
                 pt == objects[t]
      <4>1. /\ pt \in Points /\ had \in BOOLEAN /\ has \in BOOLEAN
            /\ LineEntryOK(old, time, position, had)
            /\ old.data # <<>> => (had => has)
            /\ old.data # <<>> => \A p \in position : Crosses(p, pt) => has
        BY <2>2, <3>5, <3>6, <3>7, Zenon
      <4> HIDE DEF had, has, position, pt
      <4>2. LineEntryOK([old EXCEPT !.data = Pushed(old.data, pt)], time, {pt}, has)
        BY <4>1, LineEntryPushed, Zenon
      <4> QED BY <4>2 DEF has, pt
    <3> QED BY <1>6, <1>8, <2>1, <2>2, <3>8, Zenon
  <2>4. CASE t \notin DOMAIN h
    <3>1. old = [data |-> <<>>, since |-> time] BY <2>4, Zenon DEF GetHistory, CreateHistory
    <3> HIDE DEF old
    <3>2. old.data = <<>> /\ old.since = time BY <3>1
    <3>3. <<>> \in Seq(Points) /\ Len(<<>>) = 0 OBVIOUS
    <3>4. old \in [data : Seq(Points), since : Nat] BY <3>1, <3>3
    <3>5. \A k \in 1..Len(old.data) - 1 : Crosses(old.data[k], old.data[k + 1]) => FALSE
      BY <3>2, <3>3, SMT
    <3>6. LineEntryOK(old, time, {}, FALSE)
      BY <3>2, <3>4, <3>5, Zenon DEF LineEntryOK
    <3>7. (t \in crossed') \in BOOLEAN /\ FALSE \in BOOLEAN OBVIOUS
    <3>8. LineEntryOK([old EXCEPT !.data = Pushed(old.data, objects[t])],
                      time, {objects[t]}, t \in crossed')
      BY <2>2, <3>2, <3>6, <3>7, LineEntryPushed, Zenon
    <3> QED BY <1>6, <1>8, <2>1, <2>2, <3>8, Zenon
  <2> QED BY <2>3, <2>4
<1>9. CASE t \notin used
  <2>1. t \in DOMAIN h /\ history'[t] = h[t] BY <1>3, <1>9, Zenon
  <2>2. /\ LineEntryOK(history[t], seen[t], at[t], t \in crossed)
        /\ history[t] \in [data : Seq(Points), since : Nat]
        /\ history[t].since = seen[t]
        /\ ~(time - seen[t] >= Release)
    BY <1>7, <2>1
  <2>3. at'[t] = at[t] /\ (t \in crossed => t \in crossed') BY <1>6, <1>9, <2>2, Zenon
  <2>4. /\ history'[t].data = history[t].data /\ history'[t].since = seen'[t]
        /\ history'[t] \in [data : Seq(Points), since : Nat]
    <3>1. CASE t \in present
      <4>1. history'[t] = [history[t] EXCEPT !.since = time] BY <1>4, <2>1, <3>1, Zenon
      <4> QED BY <1>6, <2>2, <3>1, <4>1
    <3>2. CASE t \notin present
      <4>1. history'[t] = history[t] BY <1>4, <2>1, <3>2, Zenon
      <4> QED BY <1>6, <2>2, <3>2, <4>1
    <3> QED BY <3>1, <3>2
  <2> QED BY <2>2, <2>3, <2>4, Zenon DEF LineEntryOK
<1> QED BY <1>8, <1>9

(***************************************************************************)
(* The line events of a frame are about objects that crossed a line.       *)
(***************************************************************************)
LEMMA LineReports ==
  ASSUME EventsInvariant, NEW objects \in Layers, NEW others \in SUBSET Tracks, NEW time \in Nat,
         RunChecker(objects, others, time), Observe(objects, others, time),
         event \in LineEvents, NEW r \in results'
  PROVE  r[1] \in crossed'
<1> DEFINE h == Released(objects, others, time)
           t == r[1]
           old == GetHistory(h, t, time, <<>>)
           pts == Pushed(old.data, objects[t])
<1>1. /\ t \in Considered(objects)
      /\ r[2] \in Checker(h, t, objects[t], time).report
      /\ DOMAIN history' = DOMAIN h \cup Considered(objects)
      /\ history'[t] = Checker(h, t, objects[t], time).entry
  <2>1. FrameOutcome(objects, h, time) BY FrameFacts, Zenon
  <2> HIDE DEF h
  <2> QED BY <2>1, Zenon DEF FrameOutcome
<1> HIDE DEF h, t
<1>2. Checker(h, t, objects[t], time) = LineIntrusionBase(h, t, objects[t], time)
  BY CheckerOf
<1>3. LineEntryOK(history'[t], seen'[t], at'[t], t \in crossed')
  BY <1>1, LineFrame, Zenon
<1>4. /\ history'[t] = [old EXCEPT !.data = pts]
      /\ r[2] \in {LineDirection(pts)} \ {"NotCrossed"}
  BY <1>1, <1>2 DEF LineIntrusionBase, Pushed
<1> HIDE DEF pts, old
<1>6. history'[t] \in [data : Seq(Points), since : Nat]
  BY <1>3, Zenon DEF LineEntryOK
<1>7. history'[t].data = pts
  BY <1>4, <1>6
<1>8. pts \in Seq(Points) BY <1>6, <1>7
<1>9. PICK k \in 1..Len(pts) - 1 : Crosses(pts[k], pts[k + 1])
  BY <1>4, <1>8, DirectionCrosses
<1>10. t \in crossed'
  BY <1>3, <1>7, <1>9, Zenon DEF LineEntryOK
<1> QED BY <1>10 DEF t

(***************************************************************************)
(* A frame keeps the continuous flags, and the area events are about       *)
(* objects that are inside and were outside.                               *)
(***************************************************************************)
LEMMA AreaFrame ==
  ASSUME EventsInvariant, NEW objects \in Layers, NEW others \in SUBSET Tracks, NEW time \in Nat,
         RunChecker(objects, others, time), Observe(objects, others, time),
         event = "AreaIntrusion"
  PROVE  /\ \A t \in DOMAIN history' : AreaEntryOK(history'[t], seen'[t], t \in wasOut')
         /\ \A r \in results' : r[1] \in wasOut' /\ time \in entries'[r[1]]
<1> DEFINE present == DOMAIN objects \cup others
           used == Considered(objects)
           h == ReleaseInactiveHistory(history, present, time)
<1>0. TypeOK /\ HistoryOK BY DEF EventsInvariant
<1>1. event # "VehicleParking" /\ Release = ReleaseShort
  BY DEF Release
<1>2. h = Released(objects, others, time)
  BY <1>1, Zenon DEF Released
<1>3. FrameOutcome(objects, h, time)
  BY <1>2, FrameFacts, Zenon
<1>4. /\ used \subseteq DOMAIN objects /\ DOMAIN objects \subseteq Tracks
      /\ DOMAIN history' = DOMAIN h \cup used
      /\ \A x \in used : history'[x] = Checker(h, x, objects[x], time).entry
      /\ \A x \in DOMAIN h \ used : history'[x] = h[x]
      /\ \A r \in results' : /\ r[1] \in used
                             /\ r[2] \in Checker(h, r[1], objects[r[1]], time).report
  <2> HIDE DEF h
  <2> QED BY <1>3, Zenon DEF FrameOutcome
<1>5. /\ DOMAIN h \subseteq DOMAIN history
      /\ \A x \in DOMAIN h :
           /\ time - history[x].since < Release
           /\ h[x] = IF x \in present THEN [history[x] EXCEPT !.since = time] ELSE history[x]
  <2>1. Survivors(h, present, time) BY ReleasedFacts, Zenon
  <2> HIDE DEF present, h
  <2> QED BY <2>1, Zenon DEF Survivors
<1>6. DOMAIN history' \subseteq Tracks
  BY <1>0, <1>4, <1>5, Zenon DEF TypeOK
<1>7. ASSUME NEW t \in Tracks
      PROVE  /\ seen'[t] = IF t \in present THEN time ELSE seen[t]
             /\ ~(time - seen[t] >= Release) => (t \in wasOut => t \in wasOut')
             /\ t \in used /\ ~InSomeRoi(objects[t], Rois) => t \in wasOut'
             /\ t \in used /\ InSomeRoi(objects[t], Rois) => time \in entries'[t]
  <2>1. Observation(objects, others, time, t)
    BY Observed, Zenon
  <2> QED BY <2>1, Zenon DEF Observation
<1>8. ASSUME NEW t \in DOMAIN h
      PROVE  /\ h[t] \in [data : BOOLEAN, since : Nat]
             /\ h[t].since = seen'[t]
             /\ h[t].data => t \in wasOut'
  <2>1. AreaEntryOK(history[t], seen[t], t \in wasOut)
    BY <1>0, <1>5, <1>8, Zenon DEF HistoryOK
  <2>2. /\ history[t] \in [data : BOOLEAN, since : Nat] /\ history[t].since = seen[t]
        /\ history[t].data => t \in wasOut
    BY <2>1, Zenon DEF AreaEntryOK
  <2>3. t \in Tracks BY <1>0, <1>5, <1>8, Zenon DEF TypeOK
  <2>4. ~(time - seen[t] >= Release)
    <3>1. time - history[t].since < Release BY <1>5, <1>8
    <3>2. seen[t] \in Nat BY <1>0, <2>3 DEF TypeOK
    <3> QED BY <1>1, <2>2, <3>1, <3>2, Limits, SMT
  <2> HIDE DEF h, present
  <2>5. CASE t \in present
    <3>1. h[t] = [history[t] EXCEPT !.since = time] BY <1>5, <1>8, <2>5, Zenon
    <3>2. h[t].data = history[t].data /\ h[t].since = time /\ h[t] \in [data : BOOLEAN, since : Nat]
      BY <2>2, <3>1
    <3> QED BY <1>7, <2>2, <2>3, <2>4, <2>5, <3>2, Zenon
  <2>6. CASE t \notin present
    <3>1. h[t] = history[t] BY <1>5, <1>8, <2>6, Zenon
    <3> QED BY <1>7, <2>2, <2>3, <2>4, <2>6, <3>1, Zenon
  <2> QED BY <2>5, <2>6
<1> HIDE DEF h
<1>9. ASSUME NEW t \in used
      PROVE  /\ AreaEntryOK(history'[t], seen'[t], t \in wasOut')
             /\ Checker(h, t, objects[t], time).report # {}
                  => t \in wasOut' /\ time \in entries'[t]
  <2> DEFINE old == GetHistory(h, t, time, FALSE)
             inside == InSomeRoi(objects[t], Rois)
             continuous == old.data \/ ~inside
  <2>1. Checker(h, t, objects[t], time) = IntrusionZone(h, t, objects[t], time)
    BY CheckerOf
  <2>2. IntrusionZone(h, t, objects[t], time) =
          [entry  |-> [old EXCEPT !.data = continuous],
           report |-> IF GetEnoughEventInterval(time) /\ continuous /\ inside
                      THEN {"Inside"} ELSE {}]
    BY DEF IntrusionZone
  <2>3. t \in present /\ t \in Tracks
    BY <1>4, <1>9, Zenon
  <2>4. /\ old \in [data : BOOLEAN, since : Nat] /\ old.since = time
        /\ old.data => t \in wasOut'
    <3>1. CASE t \in DOMAIN h
      <4>1. h[t] \in [data : BOOLEAN, since : Nat] /\ (h[t].data => t \in wasOut')
        BY <1>8, <3>1, Zenon
      <4>2. h[t].since = time BY <1>7, <1>8, <2>3, <3>1, Zenon
      <4>3. time - h[t].since <= Release BY <1>1, <4>2, Limits, SMT
      <4>4. old = h[t] BY <3>1, <4>3, Zenon DEF GetHistory
      <4> QED BY <4>1, <4>2, <4>4, Zenon
    <3>2. CASE t \notin DOMAIN h
      <4>1. old = [data |-> FALSE, since |-> time] BY <3>2, Zenon DEF GetHistory, CreateHistory
      <4> HIDE DEF old
      <4> QED BY <4>1
    <3> QED BY <3>1, <3>2
  <2> HIDE DEF old
  <2>5. inside \in BOOLEAN BY DEF InSomeRoi
  <2>6. continuous => t \in wasOut'
    BY <1>7, <1>9, <2>3, <2>4, Zenon
  <2>7. continuous \in BOOLEAN
    BY <2>4, <2>5
  <2>8. inside => time \in entries'[t]
    BY <1>7, <1>9, <2>3, Zenon
  <2> HIDE DEF inside, continuous
  <2>9. history'[t] = [old EXCEPT !.data = continuous]
    BY <1>4, <1>9, <2>1, <2>2
  <2>10. AreaEntryOK(history'[t], seen'[t], t \in wasOut')
    <3>1. /\ history'[t] \in [data : BOOLEAN, since : Nat] /\ history'[t].since = time
          /\ history'[t].data = continuous
      BY <2>4, <2>7, <2>9
    <3> QED BY <1>7, <2>3, <2>6, <3>1, Zenon DEF AreaEntryOK
  <2>11. Checker(h, t, objects[t], time).report # {} => continuous /\ inside
    BY <2>1, <2>2
  <2> QED BY <2>6, <2>8, <2>10, <2>11, Zenon
<1>10. ASSUME NEW t \in DOMAIN h \ used PROVE AreaEntryOK(history'[t], seen'[t], t \in wasOut')
  BY <1>4, <1>8, <1>10, Zenon DEF AreaEntryOK
<1> QED BY <1>4, <1>9, <1>10, Zenon

(***************************************************************************)
(* A frame keeps the parking histories, and the parking events are about   *)
(* objects that are inside and were inside longer ago than the required    *)
(* time. A history that just begins cannot report, and one that goes on is *)
(* younger than the release time.                                          *)
(***************************************************************************)
LEMMA ParkingFrame ==
  ASSUME EventsInvariant, NEW objects \in Layers, NEW others \in SUBSET Tracks, NEW time \in Nat,
         now <= time,
         RunChecker(objects, others, time), Observe(objects, others, time),
         event = "VehicleParking"
  PROVE  /\ \A t \in DOMAIN history' : ParkingEntryOK(history'[t], entries'[t], time)
         /\ \A r \in results' : /\ time \in entries'[r[1]]
                                /\ \E s \in entries'[r[1]] : time - s > Require
<1> DEFINE used == Considered(objects)
           h == history
<1>0. TypeOK /\ HistoryOK BY DEF EventsInvariant
<1>1. Release = ReleaseLong
  BY DEF Release
<1>2. h = Released(objects, others, time)
  BY Zenon DEF Released
<1>3. FrameOutcome(objects, h, time)
  BY <1>2, FrameFacts, Zenon
<1>4. /\ used \subseteq DOMAIN objects /\ DOMAIN objects \subseteq Tracks
      /\ DOMAIN history' = DOMAIN h \cup used
      /\ \A x \in used : history'[x] = Checker(h, x, objects[x], time).entry
      /\ \A x \in DOMAIN h \ used : history'[x] = h[x]
      /\ \A r \in results' : /\ r[1] \in used
                             /\ r[2] \in Checker(h, r[1], objects[r[1]], time).report
  <2> HIDE DEF h
  <2> QED BY <1>3, Zenon DEF FrameOutcome
<1>5. /\ now \in Nat /\ DOMAIN h \subseteq Tracks
  BY <1>0, Zenon DEF TypeOK
<1>6. ASSUME NEW t \in Tracks
      PROVE  /\ t \in used /\ InSomeRoi(objects[t], Rois) => time \in entries'[t]
             /\ \A s \in entries[t] : time - s <= ReleaseLong => s \in entries'[t]
  <2>1. Observation(objects, others, time, t)
    BY Observed, Zenon
  <2> QED BY <1>1, <2>1, Zenon DEF Observation
<1>7. ASSUME NEW t \in DOMAIN h
      PROVE  /\ h[t] \in [data : [size : Nat, first : Nat], since : Nat]
             /\ h[t].since <= time
             /\ h[t].data.size > 0 =>
                  /\ h[t].since <= h[t].data.first
                  /\ time - h[t].data.first <= ReleaseLong => h[t].data.first \in entries'[t]
  <2>1. ParkingEntryOK(history[t], entries[t], now)
    BY <1>0, <1>7, Zenon DEF HistoryOK
  <2>2. /\ h[t] \in [data : [size : Nat, first : Nat], since : Nat]
        /\ h[t].since <= now
        /\ h[t].data.size > 0 =>
             /\ h[t].since <= h[t].data.first
             /\ now - h[t].data.first <= ReleaseLong => h[t].data.first \in entries[t]
    BY <2>1, Zenon DEF ParkingEntryOK
  <2>3. t \in Tracks BY <1>5, <1>7, Zenon
  <2>4. h[t].data.first \in Nat /\ h[t].since \in Nat BY <2>2
  <2>5. /\ time - h[t].data.first <= ReleaseLong => now - h[t].data.first <= ReleaseLong
        /\ h[t].since <= time
    BY <1>5, <2>2, <2>4, Limits, SMT
  <2> QED BY <1>6, <2>2, <2>3, <2>5, Zenon
<1> HIDE DEF h
<1>8. ASSUME NEW t \in used
      PROVE  /\ ParkingEntryOK(history'[t], entries'[t], time)
             /\ Checker(h, t, objects[t], time).report # {} =>
                  time \in entries'[t] /\ \E s \in entries'[t] : time - s > Require
  <2> DEFINE old == GetHistory(h, t, time, [size |-> 0, first |-> 0])
             inside == InSomeRoi(objects[t], Rois)
             size == IF old.data.size + 1 > HistMax THEN 1 ELSE old.data.size + 1
             first == IF old.data.size = 0 THEN time ELSE old.data.first
             entry == IF inside THEN [old EXCEPT !.data = [size |-> size, first |-> first]] ELSE old
             reports == /\ inside /\ size >= MinTracking
                        /\ time - first > Require /\ GetEnoughEventInterval(time)
  <2>1. Checker(h, t, objects[t], time) = VehicleParking(h, t, objects[t], time)
    BY CheckerOf
  <2>2. VehicleParking(h, t, objects[t], time) =
          [entry |-> entry, report |-> IF reports THEN {"Inside"} ELSE {}]
    BY DEF VehicleParking
  <2>3. t \in Tracks
    BY <1>4, <1>8, Zenon
  <2>4. /\ old \in [data : [size : Nat, first : Nat], since : Nat]
        /\ old.data.size > 0 =>
             /\ old.since <= old.data.first
             /\ time - old.data.first <= ReleaseLong => old.data.first \in entries'[t]
             /\ time - old.since <= ReleaseLong
        /\ old.since <= time
    <3>1. CASE t \in DOMAIN h /\ time - h[t].since <= Release
      <4>1. old = h[t] BY <3>1, Zenon DEF GetHistory
      <4> QED BY <1>1, <1>7, <3>1, <4>1, Zenon
    <3>2. CASE ~(t \in DOMAIN h /\ time - h[t].since <= Release)
      <4>1. old = [data |-> [size |-> 0, first |-> 0], since |-> time]
        BY <3>2, Zenon DEF GetHistory, CreateHistory
      <4> HIDE DEF old
      <4> QED BY <4>1
    <3> QED BY <3>1, <3>2
  <2> HIDE DEF old
  <2>5. inside => time \in entries'[t]
    BY <1>6, <1>8, <2>3, Zenon
  <2>6. old.data.size \in Nat /\ old.data.first \in Nat /\ old.since \in Nat BY <2>4
  <2>7. size \in Nat /\ size > 0 /\ first \in Nat BY <2>6, SMT
  <2>8. inside => /\ old.since <= first
                  /\ time - first <= ReleaseLong => first \in entries'[t]
                  /\ time - first > Require => first \in entries'[t]
    <3>1. CASE old.data.size = 0
      <4>1. first = time BY <3>1
      <4>2. ~(time - time > Require) BY Limits, SMT
      <4> QED BY <2>4, <2>5, <4>1, <4>2, Zenon
    <3>2. CASE old.data.size # 0
      <4>1. first = old.data.first /\ old.data.size > 0 BY <2>6, <3>2, SMT
      <4>2. time - old.data.first <= ReleaseLong BY <2>4, <2>6, <4>1, Limits, SMT
      <4> QED BY <2>4, <4>1, <4>2, Zenon
    <3> QED BY <3>1, <3>2
  <2> HIDE DEF size, first, inside
  <2>9. history'[t] = entry
    BY <1>4, <1>8, <2>1, <2>2
  <2>10. ParkingEntryOK(history'[t], entries'[t], time)
    <3>1. CASE inside
      <4>1. history'[t] = [old EXCEPT !.data = [size |-> size, first |-> first]]
        BY <2>9, <3>1, Zenon
      <4>2. /\ history'[t] \in [data : [size : Nat, first : Nat], since : Nat]
            /\ history'[t].since = old.since
            /\ history'[t].data.size = size /\ history'[t].data.first = first
        BY <2>4, <2>7, <4>1
      <4> QED BY <2>4, <2>8, <3>1, <4>2, Zenon DEF ParkingEntryOK
    <3>2. CASE ~inside
      <4>1. history'[t] = old BY <2>9, <3>2, Zenon
      <4> QED BY <2>4, <4>1, Zenon DEF ParkingEntryOK
    <3> QED BY <3>1, <3>2
  <2>11. Checker(h, t, objects[t], time).report # {} => inside /\ time - first > Require
    BY <2>1, <2>2
  <2> QED BY <2>5, <2>8, <2>10, <2>11, Zenon
<1>9. ASSUME NEW t \in DOMAIN h \ used PROVE ParkingEntryOK(history'[t], entries'[t], time)
  BY <1>4, <1>7, <1>9, Zenon DEF ParkingEntryOK
<1> QED BY <1>4, <1>8, <1>9, Zenon

(***************************************************************************)
(* Every checker reports only when the interval since the last event has   *)
(* passed.                                                                 *)
(***************************************************************************)
LEMMA ReportKeepsInterval ==
  ASSUME NEW h, NEW t, NEW pt, NEW time, event \in EventCodes,
         Checker(h, t, pt, time).report # {}
  PROVE  GetEnoughEventInterval(time)
<1>1. CASE event \in LineEvents
  BY <1>1, CheckerOf DEF LineIntrusionBase
<1>2. CASE event = "AreaIntrusion"
  <2> DEFINE seldom == GetEnoughEventInterval(time)
             continuous == GetHistory(h, t, time, FALSE).data \/ ~InSomeRoi(pt, Rois)
             inside == InSomeRoi(pt, Rois)
  <2>1. IntrusionZone(h, t, pt, time).report
          = IF seldom /\ continuous /\ inside THEN {"Inside"} ELSE {}
    <3> DEFINE entry  == [GetHistory(h, t, time, FALSE) EXCEPT !.data = continuous]
               report == IF seldom /\ continuous /\ inside THEN {"Inside"} ELSE {}
    <3>1. IntrusionZone(h, t, pt, time) = [entry |-> entry, report |-> report]
      BY Zenon DEF IntrusionZone
    <3> HIDE DEF entry, report
    <3>2. IntrusionZone(h, t, pt, time).report = report BY <3>1
    <3> QED BY <3>2 DEF report
  <2>2. Checker(h, t, pt, time) = IntrusionZone(h, t, pt, time)
    BY <1>2, CheckerOf, Zenon
  <2> HIDE DEF continuous, inside
  <2> QED BY <2>1, <2>2, Zenon
<1>3. CASE event = "VehicleParking"
  BY <1>3, CheckerOf DEF VehicleParking
<1> QED BY <1>1, <1>2, <1>3 DEF EventCodes, LineEvents

(***************************************************************************)
(* A frame keeps the types.                                                *)
(***************************************************************************)
LEMMA FrameTypes ==
  ASSUME TypeOK, NEW objects \in Layers, NEW others \in SUBSET Tracks, NEW step \in 1..MaxStep,
         Frame(objects, others, step)
  PROVE  TypeOK'
<1> DEFINE time == now + step
           h == Released(objects, others, time)
<1>0. RunChecker(objects, others, time) /\ Observe(objects, others, time)
      /\ UpdateEventActivateTime(time) /\ now' = time /\ event' = event
  BY Zenon DEF Frame, CheckActive
<1>1. time \in Nat
  <2>1. now \in Nat /\ step \in Nat BY DEF TypeOK
  <2> QED BY <2>1, SMT
<1>2. FrameOutcome(objects, h, time) BY <1>0, FrameFacts, Zenon
<1> HIDE DEF time
<1>3. /\ Considered(objects) \subseteq DOMAIN objects /\ DOMAIN objects \subseteq Tracks
      /\ \A t \in DOMAIN objects : objects[t] \in Points
      /\ DOMAIN history' = DOMAIN h \cup Considered(objects)
  <2> HIDE DEF h
  <2> QED BY <1>2, Zenon DEF FrameOutcome
<1>4. DOMAIN h \subseteq DOMAIN history
  BY Zenon DEF Released, ReleaseInactiveHistory
<1>5. DOMAIN history' \subseteq Tracks
  BY <1>3, <1>4, Zenon DEF TypeOK
<1>6. event' \in EventCodes /\ now' \in Nat /\ last_active_time' \in Nat
  BY <1>0, <1>1, Zenon DEF TypeOK, UpdateEventActivateTime
<1>7. seen' \in [Tracks -> Nat]
  BY <1>0, <1>1, Zenon DEF TypeOK, Observe
<1>8. at' \in [Tracks -> SUBSET Points]
  BY <1>0, <1>3, Zenon DEF TypeOK, Observe
<1>9. wasOut' \subseteq Tracks
  BY <1>0, <1>3, Zenon DEF TypeOK, Observe
<1>10. crossed' \subseteq Tracks
  BY <1>0, <1>3, Zenon DEF TypeOK, Observe
<1>11. entries' \in [Tracks -> SUBSET Nat]
  BY <1>0, <1>1, Zenon DEF TypeOK, Observe
<1>12. parked' \in [Tracks -> SUBSET Nat]
  BY <1>0, <1>1, Zenon DEF TypeOK, Observe
<1> QED BY <1>5, <1>6, <1>7, <1>8, <1>9, <1>10, <1>11, <1>12, Zenon DEF TypeOK

(***************************************************************************)
(* Schedule::Check in the active time keeps the invariant and the interval *)
(* between events.                                                         *)
(***************************************************************************)
LEMMA FrameStep ==
  ASSUME EventsInvariant, NEW objects \in Layers, NEW others \in SUBSET Tracks,
         NEW step \in 1..MaxStep, Frame(objects, others, step)
  PROVE  /\ EventsInvariant'
         /\ reported' # reported => reported' - reported > Interval
<1> DEFINE time == now + step
<1>0. /\ RunChecker(objects, others, time) /\ Observe(objects, others, time)
      /\ UpdateEventActivateTime(time) /\ now' = time /\ event' = event
  BY Zenon DEF Frame, CheckActive
<1>1. TypeOK /\ HistoryOK /\ reported = last_active_time
  BY DEF EventsInvariant
<1>2. time \in Nat /\ now <= time
  <2>1. now \in Nat /\ step \in Nat BY <1>1 DEF TypeOK
  <2> QED BY <2>1, SMT
<1>3. event \in EventCodes BY <1>1 DEF TypeOK
<1>4. TypeOK' BY <1>1, FrameTypes
<1> HIDE DEF time
<1>5. reported' = last_active_time'
  BY <1>0, <1>1, Zenon DEF Observe, UpdateEventActivateTime
<1>6. HistoryOK' /\ EventsAreReal'
  <2>1. CASE event \in LineEvents
    <3>1. event' \in LineEvents /\ event' # "AreaIntrusion" /\ event' # "VehicleParking"
      BY <1>0, <2>1 DEF LineEvents
    <3>2. \A t \in DOMAIN history' : LineEntryOK(history'[t], seen'[t], at'[t], t \in crossed')
      BY <1>0, <1>2, <2>1, LineFrame, Zenon
    <3>3. \A r \in results' : r[1] \in crossed'
      BY <1>0, <1>2, <2>1, LineReports, Zenon
    <3>4. HistoryOK' BY <3>1, <3>2, Zenon DEF HistoryOK
    <3>5. EventsAreReal' BY <3>1, <3>3 DEF EventsAreReal, LineEvents
    <3> QED BY <3>4, <3>5
  <2>2. CASE event = "AreaIntrusion"
    <3>1. event' = "AreaIntrusion" /\ event' \notin LineEvents /\ event' # "VehicleParking"
      BY <1>0, <2>2 DEF LineEvents
    <3>2. /\ \A t \in DOMAIN history' : AreaEntryOK(history'[t], seen'[t], t \in wasOut')
          /\ \A r \in results' : r[1] \in wasOut' /\ now' \in entries'[r[1]]
      BY <1>0, <1>2, <2>2, AreaFrame, Zenon
    <3>4. HistoryOK' BY <3>1, <3>2, Zenon DEF HistoryOK
    <3>5. EventsAreReal' BY <3>1, <3>2 DEF EventsAreReal
    <3> QED BY <3>4, <3>5
  <2>3. CASE event = "VehicleParking"
    <3>1. event' = "VehicleParking" /\ event' \notin LineEvents /\ event' # "AreaIntrusion"
      BY <1>0, <2>3 DEF LineEvents
    <3>2. /\ \A t \in DOMAIN history' : ParkingEntryOK(history'[t], entries'[t], now')
          /\ \A r \in results' : /\ now' \in entries'[r[1]]
                                 /\ \E s \in entries'[r[1]] : now' - s > Require
      BY <1>0, <1>2, <2>3, ParkingFrame, Zenon
    <3>4. HistoryOK' BY <3>1, <3>2, Zenon DEF HistoryOK
    <3>5. EventsAreReal' BY <3>1, <3>2 DEF EventsAreReal
    <3> QED BY <3>4, <3>5
  <2> QED BY <1>3, <2>1, <2>2, <2>3 DEF EventCodes, LineEvents
<1>7. ASSUME reported' # reported PROVE reported' - reported > Interval
  <2>1. results' # {} /\ reported' = time
    BY <1>0, <1>7, Zenon DEF Observe
  <2>2. PICK r \in results' : TRUE BY <2>1, Zenon
  <2>3. Checker(Released(objects, others, time), r[1], objects[r[1]], time).report # {}
    BY <1>0, <2>2, FrameFacts, Zenon DEF FrameOutcome
  <2>4. GetEnoughEventInterval(time)
    BY <1>3, <2>3, ReportKeepsInterval, Zenon
  <2> QED BY <1>1, <2>1, <2>4, Zenon DEF GetEnoughEventInterval
<1> QED BY <1>4, <1>5, <1>6, <1>7, Zenon DEF EventsInvariant

(***************************************************************************)
(* Schedule::Check outside the active time keeps the invariant: time       *)
(* passes for the parking histories.                                       *)
(***************************************************************************)
LEMMA OutOfScheduleStep ==
  ASSUME EventsInvariant, NEW step \in 1..MaxStep, FrameOutOfSchedule(step)
  PROVE  EventsInvariant' /\ reported' = reported
<1>1. /\ now' = now + step /\ results' = {}
      /\ parked' = [t \in Tracks |-> {}]
      /\ UNCHANGED <<event, history, last_active_time>>
      /\ UNCHANGED <<seen, at, wasOut, crossed, entries, reported>>
  BY DEF FrameOutOfSchedule, CheckInactive
<1>2. TypeOK /\ HistoryOK /\ reported = last_active_time
  BY DEF EventsInvariant
<1>3. now \in Nat /\ now' \in Nat /\ now <= now'
  <2>1. now \in Nat /\ step \in Nat BY <1>2 DEF TypeOK
  <2> QED BY <1>1, <2>1, SMT
<1>4. TypeOK'
  <2>1. parked' \in [Tracks -> SUBSET Nat] BY <1>1, Zenon
  <2> QED BY <1>1, <1>2, <1>3, <2>1, Zenon DEF TypeOK
<1>5. ASSUME NEW t \in DOMAIN history, ParkingEntryOK(history[t], entries[t], now)
      PROVE  ParkingEntryOK(history[t], entries[t], now')
  <2> DEFINE e == history[t]
  <2>1. /\ e \in [data : [size : Nat, first : Nat], since : Nat] /\ e.since <= now
        /\ e.data.size > 0 => /\ e.since <= e.data.first
                              /\ now - e.data.first <= ReleaseLong => e.data.first \in entries[t]
    BY <1>5, Zenon DEF ParkingEntryOK
  <2>2. e.since \in Nat /\ e.data.first \in Nat BY <2>1
  <2> HIDE DEF e
  <2>3. /\ e.since <= now'
        /\ now' - e.data.first <= ReleaseLong => now - e.data.first <= ReleaseLong
    BY <1>3, <2>1, <2>2, Limits, SMT
  <2>4. ParkingEntryOK(e, entries[t], now')
    BY <2>1, <2>3, Zenon DEF ParkingEntryOK
  <2> QED BY <2>4 DEF e
<1>6. HistoryOK'
  BY <1>1, <1>2, <1>5, Zenon DEF HistoryOK
<1>7. EventsAreReal'
  BY <1>1, Zenon DEF EventsAreReal
<1> QED BY <1>1, <1>2, <1>4, <1>6, <1>7, Zenon DEF EventsInvariant

(***************************************************************************)
(* A schedule begins without histories.                                    *)
(***************************************************************************)
LEMMA EventsInit == Init => EventsInvariant
<1> SUFFICES ASSUME Init PROVE EventsInvariant OBVIOUS
<1>1. /\ event \in Events /\ now = 0 /\ last_active_time = 0 /\ history = <<>> /\ results = {}
      /\ seen = [t \in Tracks |-> 0] /\ at = [t \in Tracks |-> {}]
      /\ wasOut = {} /\ crossed = {} /\ entries = [t \in Tracks |-> {}]
      /\ parked = [t \in Tracks |-> {}] /\ reported = 0
  BY DEF Init, ScheduleInit
<1>2. DOMAIN history = {} BY <1>1
<1>3. TypeOK BY <1>1, <1>2, EventsAssumption DEF TypeOK
<1>4. HistoryOK BY <1>2, Zenon DEF HistoryOK
<1>5. EventsAreReal BY <1>1, Zenon DEF EventsAreReal
<1> QED BY <1>1, <1>3, <1>4, <1>5 DEF EventsInvariant

(***************************************************************************)
(* Nothing happens after the last frame.                                   *)
(***************************************************************************)
LEMMA EventsStutter ==
  ASSUME EventsInvariant, UNCHANGED vars
  PROVE  EventsInvariant' /\ reported' = reported
<1>1. /\ event' = event /\ now' = now /\ history' = history
      /\ last_active_time' = last_active_time /\ results' = results
      /\ seen' = seen /\ at' = at /\ wasOut' = wasOut /\ crossed' = crossed
      /\ entries' = entries /\ parked' = parked /\ reported' = reported
  BY DEF vars, scheduleVars, truthVars
<1>2. TypeOK' BY <1>1, Zenon DEF EventsInvariant, TypeOK
<1>3. HistoryOK' BY <1>1, Zenon DEF EventsInvariant, HistoryOK
<1>4. EventsAreReal' BY <1>1, Zenon DEF EventsInvariant, EventsAreReal
<1> QED BY <1>1, <1>2, <1>3, <1>4, Zenon DEF EventsInvariant

(***************************************************************************)
(* Every step keeps the invariant and the interval between events.         *)
(***************************************************************************)
LEMMA EventsNext ==
  ASSUME EventsInvariant, [Next]_vars
  PROVE  EventsInvariant' /\ (reported' # reported => reported' - reported > Interval)
<1>1. CASE \E step \in 1..MaxStep : \E objects \in Layers, others \in SUBSET Tracks :
             Frame(objects, others, step)
  BY <1>1, FrameStep
<1>2. CASE \E step \in 1..MaxStep : FrameOutOfSchedule(step)
  BY <1>2, OutOfScheduleStep
<1>3. CASE UNCHANGED vars
  BY <1>3, EventsStutter
<1> QED BY <1>1, <1>2, <1>3 DEF Next, Done

(***************************************************************************)
(* The histories of a schedule agree with what the objects did, at any     *)
(* time, for any tracks, regions, lines and limits.                        *)
(***************************************************************************)
THEOREM EventsInvariantHolds == Spec => []EventsInvariant
BY EventsInit, EventsNext, PTL DEF Spec

(***************************************************************************)
(* Every event Schedule::Check returns is real: about an object that       *)
(* crossed a line the way it forbids, that came into a region from         *)
(* outside, or that was in a region longer ago than the required time,     *)
(* whatever ids come, go and return, whatever is released and whenever a   *)
(* history is full.                                                        *)
(***************************************************************************)
THEOREM EventsAlwaysReal == Spec => []EventsAreReal
<1>1. EventsInvariant => EventsAreReal BY DEF EventsInvariant
<1> QED BY <1>1, EventsInvariantHolds, PTL

(***************************************************************************)
(* Two events of a schedule are further apart than the interval of its     *)
(* notifications, since last_active_time is the time of the last event.    *)
(***************************************************************************)
THEOREM EventsAreSpaced == Spec => EventsKeepInterval
<1>1. EventsInvariant /\ [Next]_vars
        => [reported' # reported => reported' - reported > Interval]_vars
  BY EventsNext
<1> QED BY <1>1, EventsInvariantHolds, PTL DEF Spec, EventsKeepInterval

-----------------------------------------------------------------------------
(***************************************************************************)
(* The limits under which a parked vehicle is reported: a history lives    *)
(* long enough for the required time and the frames that are counted, and  *)
(* is not emptied before they are counted.                                 *)
(***************************************************************************)
LimitsFit == /\ Require + MinTracking * MaxStep <= ReleaseLong
             /\ MinTracking <= HistMax

(***************************************************************************)
(* The time a history with so many entries may still add to the wait.      *)
(***************************************************************************)
Grace(size) == IF size >= MinTracking THEN 0 ELSE size * MaxStep

(***************************************************************************)
(* The history of a track that has been inside, without a break or an      *)
(* event, since s: it began before, or it began anew with a fresh release  *)
(* clock, not too late; and what keeps it from a report is that the        *)
(* required time or the interval has not passed, or that its entries are   *)
(* still counted.                                                          *)
(***************************************************************************)
StayEntryOK(e, s, time) ==
    /\ e.data.size \in 1..HistMax
    /\ \/ e.data.first <= s
       \/ /\ e.since = e.data.first
          /\ \/ e.data.first - s <= Require + MinTracking * MaxStep
             \/ e.data.first - s <= Interval + MinTracking * MaxStep
    /\ \/ time <= e.data.first + Require + Grace(e.data.size)
       \/ time <= s + Interval + Grace(e.data.size)

(***************************************************************************)
(* The inductive invariant of StayIsReported, besides EventsInvariant.  No *)
(* event is younger than a stay, because an event begins every stay anew.  *)
(***************************************************************************)
StayOK ==
    /\ last_active_time <= now
    /\ \A t \in DOMAIN history :
         history[t].data.size <= HistMax /\ history[t].data.first <= now
    /\ \A t \in Tracks : \A s \in parked[t] :
         /\ t \in DOMAIN history
         /\ s <= now /\ last_active_time <= s
         /\ StayEntryOK(history[t], s, now)

StayInvariant == event = "VehicleParking" => StayOK

(***************************************************************************)
(* One more entry adds one step to the wait, and none of the entries that  *)
(* are not yet enough adds more than MinTracking - 1 steps.                *)
(***************************************************************************)
LEMMA GraceFacts ==
  /\ MinTracking * MaxStep \in Nat
  /\ (MinTracking - 1) * MaxStep = MinTracking * MaxStep - MaxStep
  /\ \A n \in Nat : /\ Grace(n) \in Nat
                    /\ Grace(n) <= MinTracking * MaxStep - MaxStep
                    /\ n + 1 < MinTracking => Grace(n + 1) = Grace(n) + MaxStep
                    /\ n >= MinTracking => Grace(n) = 0
  /\ 1 < MinTracking => Grace(1) = MaxStep
<1>0. MinTracking \in Nat /\ MaxStep \in Nat /\ MinTracking >= 1 /\ MaxStep >= 1
  BY LimitsAssumption
<1>1. /\ MinTracking * MaxStep \in Nat /\ MinTracking * MaxStep >= MaxStep
      /\ (MinTracking - 1) * MaxStep = MinTracking * MaxStep - MaxStep
  BY <1>0, SMT
<1>2. ASSUME NEW n \in Nat
      PROVE  /\ Grace(n) \in Nat
             /\ Grace(n) <= MinTracking * MaxStep - MaxStep
             /\ n + 1 < MinTracking => Grace(n + 1) = Grace(n) + MaxStep
             /\ n >= MinTracking => Grace(n) = 0
  <2>1. CASE n >= MinTracking
    BY <1>0, <1>1, <2>1, SMT DEF Grace
  <2>2. CASE n < MinTracking
    <3>1. n * MaxStep <= (MinTracking - 1) * MaxStep /\ n * MaxStep \in Nat
      BY <1>0, <2>2, SMT
    <3>2. (n + 1) * MaxStep = n * MaxStep + MaxStep BY <1>0, SMT
    <3> QED BY <1>0, <1>1, <2>2, <3>1, <3>2, SMT DEF Grace
  <2> QED BY <1>0, <2>1, <2>2, SMT
<1>3. 1 < MinTracking => Grace(1) = MaxStep BY <1>0, SMT DEF Grace
<1> QED BY <1>1, <1>2, <1>3

(***************************************************************************)
(* The invariant bounds the wait.                                          *)
(***************************************************************************)
LEMMA StayBound ==
  ASSUME NEW e, e \in [data : [size : Nat, first : Nat], since : Nat],
         NEW s \in Nat, NEW time \in Nat, StayEntryOK(e, s, time)
  PROVE  time - s <= Require + Max({Require, Interval}) + (2 * MinTracking - 1) * MaxStep
<1> DEFINE first == e.data.first
           grace == Grace(e.data.size)
           count == MinTracking * MaxStep
<1>1. first \in Nat /\ e.data.size \in Nat /\ e.since \in Nat OBVIOUS
<1>2. /\ grace \in Nat /\ grace <= count - MaxStep /\ count \in Nat
  BY <1>1, GraceFacts, Zenon
<1>3. (2 * MinTracking - 1) * MaxStep = 2 * count - MaxStep
  BY Limits, SMT
<1>4. Max({Require, Interval}) = IF Require >= Interval THEN Require ELSE Interval
  <2>1. Require \in Int /\ Interval \in Int BY Limits
  <2> QED BY <2>1, Bounds
<1>5. /\ \/ first <= s
         \/ first - s <= Require + count
         \/ first - s <= Interval + count
      /\ time <= first + Require + grace \/ time <= s + Interval + grace
  BY DEF StayEntryOK
<1> HIDE DEF first, grace, count
<1> QED BY <1>1, <1>2, <1>3, <1>4, <1>5, Limits, SMT

(***************************************************************************)
(* A stay goes on in a history that is not released: its clock is not      *)
(* older than the release time, and there is no report.                    *)
(***************************************************************************)
LEMMA StayGoesOn ==
  ASSUME LimitsFit, NEW time0 \in Nat, NEW step \in 1..MaxStep, NEW s \in Nat,
         NEW active \in Nat, active <= s,
         NEW e, e \in [data : [size : Nat, first : Nat], since : Nat],
         StayEntryOK(e, s, time0),
         NEW n \in Nat, n = IF e.data.size + 1 > HistMax THEN 1 ELSE e.data.size + 1,
         ~(n >= MinTracking /\ (time0 + step) - e.data.first > Require
                            /\ (time0 + step) - active > Interval)
  PROVE  StayEntryOK([e EXCEPT !.data = [size |-> n, first |-> e.data.first]], s, time0 + step)
<1> DEFINE first == e.data.first
           size == e.data.size
           time == time0 + step
           f == [e EXCEPT !.data = [size |-> n, first |-> first]]
<1>1. first \in Nat /\ size \in 1..HistMax /\ size \in Nat /\ e.since \in Nat
  BY DEF StayEntryOK
<1>2. f.data.size = n /\ f.data.first = first /\ f.since = e.since OBVIOUS
<1>3. /\ \/ first <= s
         \/ /\ e.since = first
            /\ \/ first - s <= Require + MinTracking * MaxStep
               \/ first - s <= Interval + MinTracking * MaxStep
      /\ time0 <= first + Require + Grace(size) \/ time0 <= s + Interval + Grace(size)
  BY DEF StayEntryOK
<1>4. n \in 1..HistMax /\ ((n = 1 /\ size >= MinTracking) \/ n = size + 1)
  BY <1>1, Limits, LimitsAssumption, SMT DEF LimitsFit
<1>5. time \in Nat /\ step \in Nat /\ step <= MaxStep /\ time = time0 + step
  BY Limits, SMT
<1>6. /\ Grace(size) \in Nat /\ Grace(n) \in Nat
      /\ size >= MinTracking => Grace(size) = 0
      /\ size + 1 < MinTracking => Grace(size + 1) = Grace(size) + MaxStep
      /\ 1 < MinTracking => Grace(1) = MaxStep
  BY <1>1, GraceFacts, Zenon
<1>7. time <= first + Require + Grace(n) \/ time <= s + Interval + Grace(n)
  <2> HIDE DEF first, size, time
  <2>1. CASE n >= MinTracking
    <3>1. ~(time - first > Require /\ time - active > Interval) BY <2>1 DEF first, time
    <3> QED BY <1>1, <1>5, <1>6, <3>1, Limits, SMT
  <2>2. CASE n < MinTracking /\ n = size + 1
    BY <1>1, <1>3, <1>5, <1>6, <2>2, Limits, SMT
  <2>3. CASE n < MinTracking /\ n = 1 /\ size >= MinTracking
    BY <1>1, <1>3, <1>5, <1>6, <2>3, Limits, SMT
  <2> QED BY <1>4, <2>1, <2>2, <2>3, Limits, SMT
<1>8. StayEntryOK(f, s, time)
  <2> HIDE DEF f, time, first, size
  <2> QED BY <1>2, <1>3, <1>4, <1>7, Zenon DEF StayEntryOK
<1> QED BY <1>8 DEF f, time

(***************************************************************************)
(* A stay goes on after its history was released: the new one begins soon  *)
(* enough, because a history that began within the stay would have been    *)
(* reported before its release, or waits for the interval.                 *)
(***************************************************************************)
LEMMA StayBeginsAnew ==
  ASSUME LimitsFit, NEW time0 \in Nat, NEW step \in 1..MaxStep, NEW s \in Nat,
         NEW e, e \in [data : [size : Nat, first : Nat], since : Nat],
         StayEntryOK(e, s, time0), (time0 + step) - e.since > ReleaseLong,
         NEW f, f = [data |-> [size |-> 1, first |-> time0 + step], since |-> time0 + step]
  PROVE  StayEntryOK(f, s, time0 + step)
<1> DEFINE first == e.data.first
           time == time0 + step
           count == MinTracking * MaxStep
           grace == Grace(e.data.size)
<1>1. first \in Nat /\ e.data.size \in Nat /\ e.since \in Nat OBVIOUS
<1>2. f.data.size = 1 /\ f.data.first = time /\ f.since = time OBVIOUS
<1>3. /\ first <= s \/ e.since = first
      /\ time0 <= first + Require + grace \/ time0 <= s + Interval + grace
  BY DEF StayEntryOK
<1>4. /\ grace \in Nat /\ grace <= count - MaxStep /\ count \in Nat
  BY <1>1, GraceFacts, Zenon
<1>5. time \in Nat /\ step \in Nat /\ step <= MaxStep /\ time = time0 + step
  BY Limits, SMT
<1>6. time - e.since > ReleaseLong /\ Require + count <= ReleaseLong BY DEF LimitsFit
<1>7. Grace(1) \in Nat
  <2>1. 1 \in Nat OBVIOUS
  <2> QED BY <2>1, GraceFacts, Zenon
<1>8. 1 \in 1..HistMax BY LimitsAssumption, SMT
<1> HIDE DEF first, time, count, grace
<1>9. time - s <= Require + count \/ time - s <= Interval + count
  BY <1>1, <1>3, <1>4, <1>5, <1>6, Limits, SMT
<1>10. time <= time + Require + Grace(1) BY <1>5, <1>7, Limits, SMT
<1>11. StayEntryOK(f, s, time)
  BY <1>2, <1>8, <1>9, <1>10, Zenon DEF StayEntryOK, count
<1> QED BY <1>11 DEF time

(***************************************************************************)
(* A frame without an event is one in which no checker reports.            *)
(***************************************************************************)
LEMMA QuietFrame ==
  ASSUME NEW objects, NEW others, NEW time, RunChecker(objects, others, time), results' = {},
         NEW t \in Considered(objects)
  PROVE  Checker(Released(objects, others, time), t, objects[t], time).report = {}
<1> DEFINE used == Considered(objects)
           h == Released(objects, others, time)
           after == [x \in used |-> Checker(h, x, objects[x], time)]
<1>1. results' = UNION {{x} \X after[x].report : x \in DOMAIN after}
  BY Zenon DEF RunChecker
<1> HIDE DEF used, h
<1>2. DOMAIN after = used /\ after[t] = Checker(h, t, objects[t], time)
  BY Zenon DEF used
<1>3. t \in used BY DEF used
<1> HIDE DEF after
<1>4. ASSUME NEW d \in after[t].report PROVE FALSE
  <2>1. <<t, d>> \in {t} \X after[t].report BY <1>4, SMT
  <2>2. <<t, d>> \in UNION {{x} \X after[x].report : x \in DOMAIN after}
    BY <1>2, <1>3, <2>1, Zenon
  <2> QED BY <1>1, <2>2, Zenon
<1>5. after[t].report = {} BY <1>4, Zenon
<1> QED BY <1>2, <1>5, Zenon DEF h

(***************************************************************************)
(* What VehicleParking does with a track, in terms of the history it       *)
(* finds.                                                                  *)
(***************************************************************************)
ParkingOutcome(h, t, pt, time) ==
    LET old   == GetHistory(h, t, time, [size |-> 0, first |-> 0])
        size  == IF old.data.size + 1 > HistMax THEN 1 ELSE old.data.size + 1
        first == IF old.data.size = 0 THEN time ELSE old.data.first
    IN  /\ InSomeRoi(pt, Rois) =>
             /\ Checker(h, t, pt, time).entry
                  = [old EXCEPT !.data = [size |-> size, first |-> first]]
             /\ Checker(h, t, pt, time).report = {} =>
                  ~(size >= MinTracking /\ time - first > Require
                                        /\ time - last_active_time > Interval)
        /\ ~InSomeRoi(pt, Rois) => Checker(h, t, pt, time).entry = old

LEMMA ParkingFacts ==
  ASSUME event = "VehicleParking", NEW h, NEW t, NEW pt, NEW time
  PROVE  ParkingOutcome(h, t, pt, time)
<1> DEFINE old == GetHistory(h, t, time, [size |-> 0, first |-> 0])
           inside == InSomeRoi(pt, Rois)
           size == IF old.data.size + 1 > HistMax THEN 1 ELSE old.data.size + 1
           first == IF old.data.size = 0 THEN time ELSE old.data.first
           entry == IF inside THEN [old EXCEPT !.data = [size |-> size, first |-> first]] ELSE old
           reports == /\ inside /\ size >= MinTracking
                      /\ time - first > Require /\ GetEnoughEventInterval(time)
<1>1. Checker(h, t, pt, time) = VehicleParking(h, t, pt, time)
  BY CheckerOf
<1>2. VehicleParking(h, t, pt, time)
        = [entry |-> entry, report |-> IF reports THEN {"Inside"} ELSE {}]
  BY DEF VehicleParking
<1>3. /\ inside => entry = [old EXCEPT !.data = [size |-> size, first |-> first]]
      /\ ~inside => entry = old
  BY Zenon
<1>4. inside /\ ~reports => ~(size >= MinTracking /\ time - first > Require
                                                /\ time - last_active_time > Interval)
  BY Zenon DEF GetEnoughEventInterval
<1> HIDE DEF old, size, first, entry, reports, inside
<1>5. Checker(h, t, pt, time).entry = entry /\ (Checker(h, t, pt, time).report = {} => ~reports)
  BY <1>1, <1>2
<1> QED BY <1>3, <1>4, <1>5, Zenon DEF ParkingOutcome, inside, old, size, first

(***************************************************************************)
(* A frame keeps the invariant of the stays of one track.  A stay begins   *)
(* with the frame, or it goes on in the history that it has, or in a new   *)
(* one because that one is released.                                       *)
(***************************************************************************)
LEMMA StayFrame ==
  ASSUME LimitsFit, EventsInvariant, StayOK, event = "VehicleParking",
         NEW objects \in Layers, NEW others \in SUBSET Tracks, NEW step \in 1..MaxStep,
         Frame(objects, others, step)
  PROVE  StayOK'
<1> DEFINE time == now + step
           used == Considered(objects)
           zero == [size |-> 0, first |-> 0]
           Entries == [data : [size : Nat, first : Nat], since : Nat]
<1>0. /\ RunChecker(objects, others, time) /\ Observe(objects, others, time)
      /\ UpdateEventActivateTime(time) /\ now' = time
  BY Zenon DEF Frame, CheckActive
<1>1. TypeOK /\ HistoryOK BY DEF EventsInvariant
<1>2. now \in Nat /\ last_active_time \in Nat /\ parked \in [Tracks -> SUBSET Nat]
  BY <1>1, Zenon DEF TypeOK
<1>3. step \in Nat /\ time \in Nat /\ now <= time /\ now < time
  BY <1>2, Limits, SMT
<1>4. history = Released(objects, others, time)
  BY Zenon DEF Released
<1>5. Release = ReleaseLong BY DEF Release
<1>6. FrameOutcome(objects, history, time)
  <2>1. FrameOutcome(objects, Released(objects, others, time), time)
    BY <1>0, FrameFacts, Zenon
  <2> QED BY <1>4, <2>1, Zenon
<1>7. /\ used \subseteq DOMAIN objects /\ DOMAIN objects \subseteq Tracks
      /\ DOMAIN history' = DOMAIN history \cup used
      /\ \A x \in used : history'[x] = Checker(history, x, objects[x], time).entry
      /\ \A x \in DOMAIN history \ used : history'[x] = history[x]
  BY <1>6, Zenon DEF FrameOutcome
<1>8. ASSUME NEW t \in DOMAIN history
      PROVE  /\ history[t] \in Entries /\ history[t].since <= now
             /\ history[t].data.size <= HistMax /\ history[t].data.first <= now
  <2>1. ParkingEntryOK(history[t], entries[t], now) BY <1>1, Zenon DEF HistoryOK
  <2> QED BY <2>1, Zenon DEF ParkingEntryOK, StayOK
<1>9. last_active_time <= now BY DEF StayOK
<1> HIDE DEF time, used
<1>10. ASSUME NEW t \in used
      PROVE  LET old == GetHistory(history, t, time, zero) IN
             /\ old \in Entries /\ old.data.size <= HistMax /\ old.data.first <= time
             /\ \/ t \in DOMAIN history /\ old = history[t]
                \/ /\ old = [data |-> zero, since |-> time]
                   /\ t \in DOMAIN history => time - history[t].since > ReleaseLong
  <2> DEFINE old == GetHistory(history, t, time, zero)
  <2>1. CASE t \in DOMAIN history /\ time - history[t].since <= Release
    <3>1. old = history[t] BY <2>1, Zenon DEF GetHistory
    <3>2. /\ old \in Entries /\ old.data.size <= HistMax /\ old.data.first <= now
      BY <1>8, <2>1, <3>1, Zenon
    <3>3. old.data.first \in Nat BY <3>2
    <3> HIDE DEF old
    <3>4. old.data.first <= time BY <1>2, <1>3, <3>2, <3>3, SMT
    <3> QED BY <2>1, <3>1, <3>2, <3>4, Zenon DEF old
  <2>2. CASE ~(t \in DOMAIN history /\ time - history[t].since <= Release)
    <3>1. old = [data |-> zero, since |-> time]
      BY <2>2, Zenon DEF GetHistory, CreateHistory
    <3> HIDE DEF old
    <3>2. /\ old \in Entries /\ old.data.size <= HistMax /\ old.data.first <= time
      BY <1>3, <3>1, Limits
    <3>3. t \in DOMAIN history => time - history[t].since > ReleaseLong
      <4> SUFFICES ASSUME t \in DOMAIN history PROVE time - history[t].since > ReleaseLong
        OBVIOUS
      <4>1. history[t].since \in Nat BY <1>8
      <4> QED BY <1>3, <1>5, <2>2, <4>1, Limits, SMT
    <3> QED BY <3>1, <3>2, <3>3, Zenon DEF old
  <2> QED BY <2>1, <2>2, Zenon
<1>11. ASSUME NEW t \in used
       PROVE  /\ history'[t].data.size <= HistMax /\ history'[t].data.first <= time
              /\ InSomeRoi(objects[t], Rois) =>
                   \A s \in parked'[t] : s <= time /\ last_active_time' <= s
                                         /\ StayEntryOK(history'[t], s, time)
  <2> DEFINE old == GetHistory(history, t, time, zero)
             size == IF old.data.size + 1 > HistMax THEN 1 ELSE old.data.size + 1
             first == IF old.data.size = 0 THEN time ELSE old.data.first
             inside == InSomeRoi(objects[t], Rois)
             entry == [old EXCEPT !.data = [size |-> size, first |-> first]]
  <2>1. /\ old \in Entries /\ old.data.size <= HistMax /\ old.data.first <= time
        /\ \/ t \in DOMAIN history /\ old = history[t]
           \/ /\ old = [data |-> zero, since |-> time]
              /\ t \in DOMAIN history => time - history[t].since > ReleaseLong
    BY <1>10, Zenon
  <2>2. ParkingOutcome(history, t, objects[t], time) BY ParkingFacts, Zenon
  <2>3. /\ inside => /\ history'[t] = entry
                     /\ Checker(history, t, objects[t], time).report = {} =>
                          ~(size >= MinTracking /\ time - first > Require
                                                /\ time - last_active_time > Interval)
        /\ ~inside => history'[t] = old
    BY <1>7, <2>2, Zenon DEF ParkingOutcome
  <2> HIDE DEF old, inside
  <2>4. /\ old.data.size \in Nat /\ old.data.first \in Nat /\ old.since \in Nat
    BY <2>1
  <2>5. size \in 1..HistMax /\ size \in Nat /\ first \in Nat /\ first <= time
    BY <1>3, <2>1, <2>4, LimitsAssumption, SMT
  <2>6. entry.data.size = size /\ entry.data.first = first /\ entry.since = old.since
        /\ entry \in Entries
    <3> HIDE DEF size, first
    <3> QED BY <2>1, <2>4, <2>5
  <2>7. history'[t].data.size <= HistMax /\ history'[t].data.first <= time
    <3>1. size <= HistMax BY <2>5, Limits, SMT
    <3> HIDE DEF entry, size, first
    <3> QED BY <2>1, <2>3, <2>5, <2>6, <3>1, Zenon
  <2>8. ASSUME inside, NEW s \in parked'[t]
        PROVE  s <= time /\ last_active_time' <= s /\ StayEntryOK(history'[t], s, time)
    <3>1. t \in Tracks BY <1>7, Zenon
    <3>2. parked'[t] = IF parked[t] = {} \/ results' # {} THEN {time} ELSE parked[t]
      BY <1>0, <2>8, <3>1, Zenon DEF Observe, inside, used
    <3>3. history'[t] = entry BY <2>3, <2>8
    <3>4. last_active_time' = IF results' = {} THEN last_active_time ELSE time
      BY <1>0, Zenon DEF UpdateEventActivateTime
    <3> HIDE DEF entry
    <3>5. CASE parked[t] = {} \/ results' # {}
      <4>1. s = time BY <2>8, <3>2, <3>5, Zenon
      <4>2. last_active_time <= time
        BY <1>2, <1>3, <1>9, SMT
      <4>3. last_active_time' <= s BY <1>3, <3>4, <4>1, <4>2, SMT
      <4>4. /\ entry.data.size \in 1..HistMax /\ entry.data.first <= s
        BY <2>5, <2>6, <4>1, Zenon
      <4>5. time <= s + Interval + Grace(entry.data.size)
        <5>1. Grace(size) \in Nat BY <2>5, GraceFacts, Zenon
        <5> HIDE DEF size
        <5> QED BY <1>3, <2>6, <4>1, <5>1, Limits, SMT
      <4>6. StayEntryOK(entry, s, time) BY <4>4, <4>5, Zenon DEF StayEntryOK
      <4> QED BY <1>3, <3>3, <4>1, <4>3, <4>6, SMT
    <3>6. CASE ~(parked[t] = {} \/ results' # {})
      <4>1. s \in parked[t] /\ last_active_time' = last_active_time /\ results' = {}
        BY <2>8, <3>2, <3>4, <3>6, Zenon
      <4>2. /\ t \in DOMAIN history /\ s <= now /\ last_active_time <= s
            /\ StayEntryOK(history[t], s, now)
        BY <3>1, <4>1, Zenon DEF StayOK
      <4>3. s \in Nat BY <1>2, <3>1, <4>1, Zenon
      <4>4. s <= time BY <1>2, <1>3, <4>2, <4>3, SMT
      <4>5. CASE old = history[t]
        <5>1. old.data.size \in 1..HistMax BY <4>2, <4>5, Zenon DEF StayEntryOK
        <5>2. old.data.size # 0 BY <5>1, SMT
        <5>3. first = old.data.first BY <5>2, Zenon
        <5>4. Checker(history, t, objects[t], time).report = {}
          BY <1>0, <1>4, <4>1, QuietFrame, Zenon DEF used
        <5>5. ~(size >= MinTracking /\ time - old.data.first > Require
                                    /\ time - last_active_time > Interval)
          BY <2>3, <2>8, <5>3, <5>4, Zenon
        <5>6. size \in Nat /\ size = IF old.data.size + 1 > HistMax THEN 1 ELSE old.data.size + 1
          BY <2>5, Zenon
        <5> HIDE DEF size, first
        <5>7. StayEntryOK([old EXCEPT !.data = [size |-> size, first |-> old.data.first]],
                          s, now + step)
          BY <1>2, <2>1, <4>2, <4>3, <4>5, <5>5, <5>6, StayGoesOn, Zenon DEF time
        <5> QED BY <3>3, <4>1, <4>2, <4>4, <5>3, <5>7, Zenon DEF time, entry
      <4>6. CASE old = [data |-> zero, since |-> time] /\ time - history[t].since > ReleaseLong
        <5>1. old.data.size = 0 /\ old.since = time BY <4>6
        <5>2. size = 1 /\ first = time BY <5>1, LimitsAssumption, SMT
        <5>3. entry = [data |-> [size |-> 1, first |-> time], since |-> time]
          <6> HIDE DEF size, first
          <6> QED BY <4>6, <5>2 DEF entry
        <5>4. history[t] \in Entries BY <1>8, <4>2, Zenon
        <5> HIDE DEF size, first
        <5>5. StayEntryOK(entry, s, now + step)
          BY <1>2, <4>2, <4>3, <4>6, <5>3, <5>4, StayBeginsAnew, Zenon DEF time
        <5> QED BY <3>3, <4>1, <4>2, <4>4, <5>5, Zenon DEF time
      <4> QED BY <2>1, <4>2, <4>5, <4>6, Zenon
    <3> QED BY <3>5, <3>6
  <2> QED BY <2>7, <2>8, Zenon DEF inside
<1>12. ASSUME NEW t \in DOMAIN history'
       PROVE  history'[t].data.size <= HistMax /\ history'[t].data.first <= time
  <2>1. CASE t \in used BY <1>11, <2>1, Zenon
  <2>2. CASE t \notin used
    <3>1. t \in DOMAIN history /\ history'[t] = history[t] BY <1>7, <2>2, Zenon
    <3>2. history[t].data.first \in Nat BY <1>8, <3>1
    <3>3. history[t].data.first <= now /\ history[t].data.size <= HistMax BY <1>8, <3>1, Zenon
    <3>4. history[t].data.first <= time BY <1>2, <1>3, <3>2, <3>3, SMT
    <3> QED BY <3>1, <3>3, <3>4, Zenon
  <2> QED BY <2>1, <2>2
<1>13. ASSUME NEW t \in Tracks, NEW s \in parked'[t]
       PROVE  /\ t \in DOMAIN history' /\ s <= time /\ last_active_time' <= s
              /\ StayEntryOK(history'[t], s, time)
  <2>1. t \in used /\ InSomeRoi(objects[t], Rois)
    BY <1>0, <1>13, Zenon DEF Observe, used
  <2> QED BY <1>7, <1>11, <2>1, Zenon
<1>14. last_active_time' <= time
  <2>1. last_active_time' = IF results' = {} THEN last_active_time ELSE time
    BY <1>0, Zenon DEF UpdateEventActivateTime
  <2> QED BY <1>2, <1>3, <1>9, <2>1, SMT
<1> QED BY <1>0, <1>12, <1>13, <1>14, Zenon DEF StayOK

(***************************************************************************)
(* Outside the active time of the schedule there are no stays, and no      *)
(* history changes.                                                        *)
(***************************************************************************)
LEMMA StayOutOfSchedule ==
  ASSUME EventsInvariant, StayOK, event = "VehicleParking",
         NEW step \in 1..MaxStep, FrameOutOfSchedule(step)
  PROVE  StayOK'
<1>1. /\ now' = now + step /\ history' = history /\ last_active_time' = last_active_time
      /\ parked' = [t \in Tracks |-> {}]
  BY DEF FrameOutOfSchedule, CheckInactive
<1>2. now \in Nat /\ last_active_time \in Nat /\ HistoryOK
  BY Zenon DEF EventsInvariant, TypeOK
<1>3. step \in Nat BY Limits, SMT
<1>4. ASSUME NEW t \in DOMAIN history
      PROVE  history[t].data.size <= HistMax /\ history[t].data.first <= now + step
  <2>1. ParkingEntryOK(history[t], entries[t], now) BY <1>2, Zenon DEF HistoryOK
  <2>2. history[t] \in [data : [size : Nat, first : Nat], since : Nat]
    BY <2>1, Zenon DEF ParkingEntryOK
  <2>3. history[t].data.first \in Nat BY <2>2
  <2>4. history[t].data.size <= HistMax /\ history[t].data.first <= now
    BY Zenon DEF StayOK
  <2> QED BY <1>2, <1>3, <2>3, <2>4, SMT
<1>5. last_active_time <= now + step
  <2>1. last_active_time <= now BY DEF StayOK
  <2> QED BY <1>2, <1>3, <2>1, SMT
<1>6. \A t \in Tracks : parked'[t] = {} BY <1>1, Zenon
<1> QED BY <1>1, <1>4, <1>5, <1>6, Zenon DEF StayOK

(***************************************************************************)
(* Every step keeps the invariant of the stays.                            *)
(***************************************************************************)
LEMMA StayNext ==
  ASSUME LimitsFit, EventsInvariant, StayInvariant, [Next]_vars
  PROVE  StayInvariant'
<1> SUFFICES ASSUME event' = "VehicleParking" PROVE StayOK'
  BY DEF StayInvariant
<1>1. CASE \E step \in 1..MaxStep : \E objects \in Layers, others \in SUBSET Tracks :
             Frame(objects, others, step)
  <2>1. PICK step \in 1..MaxStep, objects \in Layers, others \in SUBSET Tracks :
          Frame(objects, others, step)
    BY <1>1, Zenon
  <2>2. event' = event BY <2>1, Zenon DEF Frame, CheckActive
  <2>3. StayOK BY <2>2 DEF StayInvariant
  <2> QED BY <2>1, <2>2, <2>3, StayFrame
<1>2. CASE \E step \in 1..MaxStep : FrameOutOfSchedule(step)
  <2>1. PICK step \in 1..MaxStep : FrameOutOfSchedule(step) BY <1>2, Zenon
  <2>2. event' = event BY <2>1 DEF FrameOutOfSchedule, CheckInactive
  <2>3. StayOK BY <2>2 DEF StayInvariant
  <2> QED BY <2>1, <2>2, <2>3, StayOutOfSchedule
<1>3. CASE UNCHANGED vars
  <2>1. /\ event' = event /\ now' = now /\ history' = history
        /\ last_active_time' = last_active_time /\ parked' = parked
    BY <1>3 DEF vars, scheduleVars, truthVars
  <2>2. StayOK BY <2>1 DEF StayInvariant
  <2> QED BY <2>1, <2>2, Zenon DEF StayOK
<1> QED BY <1>1, <1>2, <1>3 DEF Next, Done

(***************************************************************************)
(* No vehicle stays in a region of a parking schedule, in every frame and  *)
(* in the active time, for longer than StayIsReported allows without an    *)
(* event: for any tracks, regions and times, and for all limits that fit.  *)
(* With a required time beyond the release time of the histories they do   *)
(* not fit, and the run parking shows a vehicle that is never reported.    *)
(***************************************************************************)
THEOREM StaysAreReported ==
  ASSUME LimitsFit
  PROVE  Spec => []StayIsReported
<1>1. Init => StayInvariant
  <2> SUFFICES ASSUME Init PROVE StayOK BY DEF StayInvariant
  <2>1. /\ now = 0 /\ last_active_time = 0 /\ history = <<>> /\ parked = [t \in Tracks |-> {}]
    BY DEF Init, ScheduleInit
  <2>2. DOMAIN history = {} BY <2>1
  <2>3. \A t \in Tracks : parked[t] = {} BY <2>1, Zenon
  <2>4. last_active_time <= now BY <2>1, SMT
  <2> QED BY <2>2, <2>3, <2>4, Zenon DEF StayOK
<1>2. EventsInvariant /\ StayInvariant /\ [Next]_vars => StayInvariant'
  BY StayNext
<1>3. EventsInvariant /\ StayInvariant => StayIsReported
  <2> SUFFICES ASSUME EventsInvariant, StayInvariant, event = "VehicleParking",
                      NEW t \in Tracks, NEW s \in parked[t]
               PROVE  now - s <= Require + Max({Require, Interval})
                                   + (2 * MinTracking - 1) * MaxStep
    BY Zenon DEF StayIsReported
  <2>1. t \in DOMAIN history /\ StayEntryOK(history[t], s, now)
    BY Zenon DEF StayInvariant, StayOK
  <2>2. s \in Nat /\ now \in Nat /\ HistoryOK
    BY Zenon DEF EventsInvariant, TypeOK
  <2>3. history[t] \in [data : [size : Nat, first : Nat], since : Nat]
    BY <2>1, <2>2, Zenon DEF HistoryOK, ParkingEntryOK
  <2> QED BY <2>1, <2>2, <2>3, StayBound, Zenon
<1> QED BY <1>1, <1>2, <1>3, EventsInvariantHolds, PTL DEF Spec

-----------------------------------------------------------------------------
(***************************************************************************)
(* u is s with t behind it, and holds members of S.                        *)
(***************************************************************************)
Joint(s, t, u, S) ==
  /\ u \in Seq(S)
  /\ Len(u) = Len(s) + Len(t)
  /\ \A i \in 1..(Len(s) + Len(t)) : u[i] = IF i <= Len(s) THEN s[i] ELSE t[i - Len(s)]

(***************************************************************************)
(* Two lists of tracks pushed one behind the other.                        *)
(***************************************************************************)
LEMMA Joined ==
  ASSUME NEW S, NEW s \in Seq(S), NEW t \in Seq(S)
  PROVE  Joint(s, t, s \o t, S)
BY DEF Joint

(***************************************************************************)
(* A set of numbers has an n-th member, for each n up to its size: the     *)
(* number of members up to a member is different for each, so it takes     *)
(* every value.                                                            *)
(***************************************************************************)
LEMMA NthMember ==
  ASSUME NEW S, S \subseteq Nat, IsFiniteSet(S), NEW n \in 1..Cardinality(S)
  PROVE  Nth(S, n) \in S
<1> DEFINE upTo(x) == {y \in S : y <= x}
           rank == [x \in S |-> Cardinality(upTo(x))]
           size == Cardinality(S)
<1>1. size \in Nat BY FS_CardinalityType
<1>2. ASSUME NEW x \in S
      PROVE  IsFiniteSet(upTo(x)) /\ Cardinality(upTo(x)) \in 1..size
  <2>1. upTo(x) \in SUBSET S /\ x \in upTo(x)
    <3>1. x <= x BY SMT
    <3> QED BY <3>1
  <2>2. IsFiniteSet(upTo(x)) /\ Cardinality(upTo(x)) <= size
    BY <2>1, FS_Subset, Zenon
  <2>3. Cardinality(upTo(x)) \in Nat BY <2>2, FS_CardinalityType, Zenon
  <2>4. Cardinality(upTo(x)) # 0 BY <2>1, <2>2, FS_EmptySet, Zenon
  <2> HIDE DEF upTo
  <2> QED BY <1>1, <2>2, <2>3, <2>4, SMT
<1>3. ASSUME NEW x \in S, NEW z \in S, x < z
      PROVE  Cardinality(upTo(x)) # Cardinality(upTo(z))
  <2>1. upTo(x) \in SUBSET upTo(z) /\ z \in upTo(z) /\ z \notin upTo(x)
    <3>1. x \in Nat /\ z \in Nat OBVIOUS
    <3>2. \A y \in Nat : y <= x => y <= z BY <1>3, <3>1, SMT
    <3>3. z <= z /\ ~(z <= x) BY <1>3, <3>1, SMT
    <3> QED BY <3>2, <3>3
  <2>2. IsFiniteSet(upTo(z)) BY <1>2
  <2>3. Cardinality(upTo(z)) = Cardinality(upTo(x)) => upTo(z) = upTo(x)
    BY <2>1, <2>2, FS_Subset, Zenon
  <2> HIDE DEF upTo
  <2> QED BY <2>1, <2>3, Zenon
<1>4. rank \in [S -> 1..size]
  <2> HIDE DEF upTo, size
  <2> QED BY <1>2, Zenon
<1>5. ASSUME NEW x \in S, NEW z \in S, rank[x] = rank[z] PROVE x = z
  <2>1. x < z \/ z < x \/ x = z
    <3>1. x \in Nat /\ z \in Nat OBVIOUS
    <3> QED BY <3>1, SMT
  <2> HIDE DEF upTo
  <2>2. rank[x] = Cardinality(upTo(x)) /\ rank[z] = Cardinality(upTo(z)) BY Zenon
  <2>3. ~(x < z) /\ ~(z < x) BY <1>3, <1>5, <2>2, Zenon
  <2> QED BY <2>1, <2>3
<1> HIDE DEF rank
<1>6. rank \in Injection(S, 1..size)
  BY <1>4, <1>5, Zenon DEF Injection, IsInjective
<1>7. IsFiniteSet(1..size) /\ Cardinality(1..size) = size
  <2>1. 1 \in Int /\ size \in Int BY <1>1
  <2> HIDE DEF size
  <2>2. IsFiniteSet(1..size) /\ Cardinality(1..size) = IF 1 > size THEN 0 ELSE size - 1 + 1
    BY <2>1, FS_Interval, Zenon
  <2> QED BY <1>1, <2>2, SMT
<1>8. rank \in Surjection(S, 1..size)
  BY <1>6, <1>7, FS_Injection, Zenon
<1>9. PICK x \in S : rank[x] = n
  BY <1>8, Zenon DEF Surjection
<1>10. Cardinality({y \in S : y <= x}) = n
  BY <1>9 DEF rank
<1> QED BY <1>10, Zenon DEF Nth

(***************************************************************************)
(* Only keeps members of the sequence at the positions it is given.        *)
(***************************************************************************)
Kept(ks, S, out) ==
    /\ out \in Seq({ks[i] : i \in S})
    /\ DOMAIN out = 1..Cardinality(S)
    /\ \A n \in DOMAIN out : \E i \in S : out[n] = ks[i]

LEMMA OnlyKeeps ==
  ASSUME NEW ks, NEW S, S \subseteq Nat, IsFiniteSet(S)
  PROVE  Kept(ks, S, Only(ks, S))
<1> DEFINE size == Cardinality(S)
           out == Only(ks, S)
<1>1. size \in Nat BY FS_CardinalityType
<1>2. out = [n \in 1..size |-> ks[Nth(S, n)]] BY DEF Only
<1>3. \A n \in 1..size : Nth(S, n) \in S BY NthMember, Zenon
<1> HIDE DEF size, out
<1>4. DOMAIN out = 1..size BY <1>2, Zenon
<1>5. \A n \in 1..size : out[n] = ks[Nth(S, n)] BY <1>2, Zenon
<1>6. \A n \in DOMAIN out : \E i \in S : out[n] = ks[i] BY <1>3, <1>4, <1>5, Zenon
<1>7. out \in [1..size -> {ks[i] : i \in S}] BY <1>2, <1>3, Zenon
<1>8. out \in Seq({ks[i] : i \in S})
  <2> DEFINE V == {ks[i] : i \in S}
  <2>1. out \in [1..size -> V] BY <1>7
  <2> HIDE DEF V
  <2>2. out \in Seq(V) BY <1>1, <2>1
  <2> QED BY <2>2 DEF V
<1>9. Kept(ks, S, out) BY <1>4, <1>6, <1>8, Zenon DEF Kept, size
<1> QED BY <1>9 DEF out

-----------------------------------------------------------------------------
(***************************************************************************)
(* The tracks of kalmans_.                                                 *)
(***************************************************************************)
KalmanTracks == [id : Nat, birth : Nat, time_since_update : Nat, hit_streak : Nat]

(***************************************************************************)
(* The tracks created before the cycle of ids that a track belongs to, and *)
(* before the present cycle.                                               *)
(***************************************************************************)
CycleOf(k) == k.birth - k.id - 1

PresentCycle == births - create_count

(***************************************************************************)
(* Two cycles are the same or further apart than the ids of a cycle.       *)
(***************************************************************************)
SameOrApart(c, d) == c = d \/ d - c > CycleThreshold \/ c - d > CycleThreshold

(***************************************************************************)
(* A track that the last call updated was updated by as many calls as its  *)
(* hit_streak counts.                                                      *)
(***************************************************************************)
StreakOK(k, calls) ==
    k.time_since_update = 0 =>
      \A n \in 1..MinHits : n <= k.hit_streak => k.birth \in calls[n]

(***************************************************************************)
(* The inductive invariant of the tracker.                                 *)
(***************************************************************************)
TrackerInvariant ==
    /\ create_count \in Nat /\ births \in Nat /\ request_seq \in Nat \ {0}
    /\ kalmans \in Seq(KalmanTracks)
    /\ \A i \in DOMAIN kalmans : /\ StreakOK(kalmans[i], recent)
                                 /\ \/ CycleOf(kalmans[i]) = PresentCycle
                                    \/ PresentCycle - CycleOf(kalmans[i]) > CycleThreshold
    /\ \A i, j \in DOMAIN kalmans : SameOrApart(CycleOf(kalmans[i]), CycleOf(kalmans[j]))
    /\ \A j \in DOMAIN fed : fed[j] = 1
    /\ ReportedIsSteady

(***************************************************************************)
(* A track after a call: one of the tracks before it, or a new one of the  *)
(* present cycle.                                                          *)
(***************************************************************************)
Heir(k, calls) ==
    /\ k \in KalmanTracks /\ StreakOK(k, calls)
    /\ \E i \in DOMAIN kalmans : k.id = kalmans[i].id /\ k.birth = kalmans[i].birth

Fresh(k, calls) ==
    k \in KalmanTracks /\ StreakOK(k, calls) /\ CycleOf(k) = PresentCycle

(***************************************************************************)
(* The present cycle after a call: the same, or a new one that begins when *)
(* the ids of the last one are used up.                                    *)
(***************************************************************************)
CycleTurns == PresentCycle' = PresentCycle \/ PresentCycle' - PresentCycle > CycleThreshold

(***************************************************************************)
(* The limits of the tracker are natural numbers.                          *)
(***************************************************************************)
LEMMA TrackerLimits ==
  /\ MaxTrackSize \in Nat /\ MaxAge \in Nat /\ MinHits \in Nat /\ CycleThreshold \in Nat
  /\ MaxCalls \in Nat /\ Threshold \in Nat
BY SizesAssumption

(***************************************************************************)
(* A call whose tracks are heirs or fresh keeps the invariant.             *)
(***************************************************************************)
LEMMA CallKeeps ==
  ASSUME TrackerInvariant,
         create_count' \in Nat, births' \in Nat, request_seq' = request_seq + 1, CycleTurns,
         kalmans' \in Seq(KalmanTracks),
         \A i \in DOMAIN kalmans' : Heir(kalmans'[i], recent') \/ Fresh(kalmans'[i], recent'),
         \A j \in DOMAIN fed' : fed'[j] = 1,
         ReportedIsSteady'
  PROVE  TrackerInvariant'
<1>0. /\ create_count \in Nat /\ births \in Nat /\ request_seq \in Nat \ {0}
      /\ kalmans \in Seq(KalmanTracks)
  BY DEF TrackerInvariant
<1>1. PresentCycle \in Int /\ PresentCycle' \in Int BY <1>0, SMT DEF PresentCycle
<1>2. \A k \in KalmanTracks : CycleOf(k) \in Int
  <2> SUFFICES ASSUME NEW k \in KalmanTracks PROVE CycleOf(k) \in Int OBVIOUS
  <2>1. k.birth \in Nat /\ k.id \in Nat BY DEF KalmanTracks
  <2> QED BY <2>1, SMT DEF CycleOf
<1>3. \A i \in DOMAIN kalmans : kalmans[i] \in KalmanTracks BY <1>0
<1>4. ASSUME NEW i \in DOMAIN kalmans'
      PROVE  /\ StreakOK(kalmans'[i], recent') /\ CycleOf(kalmans'[i]) \in Int
             /\ \/ CycleOf(kalmans'[i]) = PresentCycle
                \/ /\ \E m \in DOMAIN kalmans : CycleOf(kalmans'[i]) = CycleOf(kalmans[m])
                   /\ PresentCycle - CycleOf(kalmans'[i]) > CycleThreshold
  <2>1. CASE Heir(kalmans'[i], recent')
    <3>1. PICK m \in DOMAIN kalmans : /\ kalmans'[i].id = kalmans[m].id
                                      /\ kalmans'[i].birth = kalmans[m].birth
      BY <2>1, Zenon DEF Heir
    <3>2. CycleOf(kalmans'[i]) = CycleOf(kalmans[m]) BY <3>1, Zenon DEF CycleOf
    <3>3. \/ CycleOf(kalmans[m]) = PresentCycle
          \/ PresentCycle - CycleOf(kalmans[m]) > CycleThreshold
      BY Zenon DEF TrackerInvariant
    <3>4. StreakOK(kalmans'[i], recent') BY <2>1, Zenon DEF Heir
    <3> QED BY <1>2, <1>3, <3>2, <3>3, <3>4, Zenon
  <2>2. CASE Fresh(kalmans'[i], recent')
    BY <1>2, <2>2, Zenon DEF Fresh
  <2> QED BY <2>1, <2>2, Zenon
<1>5. ASSUME NEW i \in DOMAIN kalmans'
      PROVE  \/ CycleOf(kalmans'[i]) = PresentCycle'
             \/ PresentCycle' - CycleOf(kalmans'[i]) > CycleThreshold
  <2> DEFINE c == CycleOf(kalmans'[i])
             p == PresentCycle
             q == PresentCycle'
  <2>1. c \in Int /\ (c = p \/ p - c > CycleThreshold) BY <1>4, Zenon
  <2>2. p \in Int /\ q \in Int /\ (q = p \/ q - p > CycleThreshold) BY <1>1, Zenon DEF CycleTurns
  <2> HIDE DEF c, p, q
  <2>3. c = q \/ q - c > CycleThreshold BY <2>1, <2>2, TrackerLimits, SMT
  <2> QED BY <2>3 DEF c, q
<1>6. ASSUME NEW i \in DOMAIN kalmans', NEW j \in DOMAIN kalmans'
      PROVE  SameOrApart(CycleOf(kalmans'[i]), CycleOf(kalmans'[j]))
  <2>1. CASE /\ \E m \in DOMAIN kalmans : CycleOf(kalmans'[i]) = CycleOf(kalmans[m])
             /\ \E m \in DOMAIN kalmans : CycleOf(kalmans'[j]) = CycleOf(kalmans[m])
    BY <2>1, Zenon DEF TrackerInvariant
  <2>2. CASE CycleOf(kalmans'[i]) = PresentCycle \/ CycleOf(kalmans'[j]) = PresentCycle
    BY <1>1, <1>4, <2>2, TrackerLimits, SMT DEF SameOrApart
  <2> QED BY <1>4, <2>1, <2>2, Zenon
<1>7. request_seq' \in Nat \ {0} BY <1>0, SMT
<1> QED BY <1>4, <1>5, <1>6, <1>7, Zenon DEF TrackerInvariant

(***************************************************************************)
(* What predict does: a track that was missed before loses its streak.     *)
(***************************************************************************)
LEMMA PredictFacts ==
  ASSUME NEW k \in KalmanTracks
  PROVE  /\ predict(k) \in KalmanTracks
         /\ predict(k).id = k.id /\ predict(k).birth = k.birth
         /\ predict(k).time_since_update > 0
         /\ predict(k).hit_streak = IF k.time_since_update > 0 THEN 0 ELSE k.hit_streak
<1>1. /\ k.id \in Nat /\ k.birth \in Nat /\ k.time_since_update \in Nat /\ k.hit_streak \in Nat
  BY DEF KalmanTracks
<1>2. k.time_since_update + 1 \in Nat /\ k.time_since_update + 1 > 0 BY <1>1, SMT
<1> QED BY <1>1, <1>2 DEF predict, KalmanTracks

(***************************************************************************)
(* The tracks after prediction come from the tracks before.                *)
(***************************************************************************)
PredictedFrom(before) ==
    /\ before \in Seq(KalmanTracks)
    /\ \A i \in DOMAIN before : \E m \in DOMAIN kalmans : before[i] = predict(kalmans[m])

(***************************************************************************)
(* What UpdateTracker predicts are tracks of kalmans_, without those that  *)
(* leave the picture.                                                      *)
(***************************************************************************)
LEMMA PredictedFacts ==
  ASSUME kalmans \in Seq(KalmanTracks), NEW gone
  PROVE  PredictedFrom(Predicted(gone))
<1> DEFINE S == DOMAIN kalmans \ gone
           stay == Only(kalmans, S)
           before == Predicted(gone)
<1>1. Len(kalmans) \in Nat /\ DOMAIN kalmans = 1..Len(kalmans) OBVIOUS
<1>2. IsFiniteSet(1..Len(kalmans))
  <2>1. 1 \in Int /\ Len(kalmans) \in Int BY <1>1
  <2> QED BY <2>1, FS_Interval, Zenon
<1>3. S \in SUBSET (1..Len(kalmans)) BY <1>1
<1>4. IsFiniteSet(S) BY <1>2, <1>3, FS_Subset, Zenon
<1>5. S \subseteq Nat BY <1>1, <1>3, SMT
<1>6. Kept(kalmans, S, stay) BY <1>4, <1>5, OnlyKeeps, Zenon
<1>7. before = [i \in DOMAIN stay |-> predict(stay[i])]
  BY Zenon DEF Predicted
<1> HIDE DEF S, stay, before
<1>8. /\ DOMAIN stay = 1..Cardinality(S) /\ Cardinality(S) \in Nat
      /\ \A i \in DOMAIN stay : \E m \in S : stay[i] = kalmans[m]
  BY <1>4, <1>6, FS_CardinalityType, Zenon DEF Kept
<1>9. S \subseteq DOMAIN kalmans BY DEF S
<1>10. /\ DOMAIN before = 1..Cardinality(S)
       /\ \A i \in DOMAIN before : \E m \in DOMAIN kalmans : before[i] = predict(kalmans[m])
  BY <1>7, <1>8, <1>9, Zenon
<1>11. \A m \in DOMAIN kalmans : predict(kalmans[m]) \in KalmanTracks
  <2>1. \A m \in DOMAIN kalmans : kalmans[m] \in KalmanTracks OBVIOUS
  <2> QED BY <2>1, PredictFacts, Zenon
<1>12. before \in [1..Cardinality(S) -> KalmanTracks]
  <2>1. \A i \in 1..Cardinality(S) : before[i] \in KalmanTracks BY <1>10, <1>11, Zenon
  <2>2. before = [i \in 1..Cardinality(S) |-> before[i]]
    BY <1>7, <1>10
  <2> QED BY <2>1, <2>2, Zenon
<1>13. before \in Seq(KalmanTracks)
  <2> DEFINE n == Cardinality(S)
  <2>1. n \in Nat /\ before \in [1..n -> KalmanTracks] BY <1>8, <1>12
  <2> HIDE DEF n
  <2> QED BY <2>1
<1>14. PredictedFrom(before) BY <1>10, <1>13, Zenon DEF PredictedFrom
<1> QED BY <1>14 DEF before

(***************************************************************************)
(* Erasing tracks keeps what is known of each.                             *)
(***************************************************************************)
LEMMA ErasedFacts ==
  ASSUME NEW ks \in Seq(KalmanTracks)
  PROVE  /\ Kept(ks, {i \in DOMAIN ks : ~is_over_age(ks[i])}, WithoutOverAge(ks))
         /\ Kept(ks, {i \in DOMAIN ks : is_detected_track_object(ks[i])}, Detected(ks))
<1>1. Len(ks) \in Nat /\ DOMAIN ks = 1..Len(ks) OBVIOUS
<1>2. IsFiniteSet(1..Len(ks))
  <2>1. 1 \in Int /\ Len(ks) \in Int BY <1>1
  <2> QED BY <2>1, FS_Interval, Zenon
<1>3. ASSUME NEW S \in SUBSET (DOMAIN ks) PROVE Kept(ks, S, Only(ks, S))
  <2>1. IsFiniteSet(S) BY <1>1, <1>2, FS_Subset, Zenon
  <2>2. S \subseteq Nat BY <1>1, SMT
  <2> QED BY <2>1, <2>2, OnlyKeeps, Zenon
<1> DEFINE young == {i \in DOMAIN ks : ~is_over_age(ks[i])}
           shown == {i \in DOMAIN ks : is_detected_track_object(ks[i])}
<1>4. young \in SUBSET (DOMAIN ks) /\ shown \in SUBSET (DOMAIN ks) OBVIOUS
<1>5. WithoutOverAge(ks) = Only(ks, young) /\ Detected(ks) = Only(ks, shown)
  BY Zenon DEF WithoutOverAge, Detected
<1> HIDE DEF young, shown
<1>6. Kept(ks, young, WithoutOverAge(ks)) /\ Kept(ks, shown, Detected(ks))
  BY <1>3, <1>4, <1>5, Zenon
<1> QED BY <1>6 DEF young, shown

(***************************************************************************)
(* Erasing the tracks over age keeps only tracks that were there.          *)
(***************************************************************************)
LEMMA YoungFacts ==
  ASSUME NEW ks \in Seq(KalmanTracks)
  PROVE  /\ WithoutOverAge(ks) \in Seq(KalmanTracks)
         /\ \A n \in DOMAIN WithoutOverAge(ks) :
              \E i \in DOMAIN ks : WithoutOverAge(ks)[n] = ks[i]
<1> DEFINE young == {i \in DOMAIN ks : ~is_over_age(ks[i])}
           out == WithoutOverAge(ks)
<1>1. Kept(ks, young, out) BY ErasedFacts
<1>2. young \subseteq DOMAIN ks OBVIOUS
<1> HIDE DEF young, out
<1>3. /\ out \in Seq({ks[i] : i \in young})
      /\ \A n \in DOMAIN out : \E i \in young : out[n] = ks[i]
  BY <1>1, Zenon DEF Kept
<1>4. {ks[i] : i \in young} \subseteq KalmanTracks
  <2>1. \A i \in DOMAIN ks : ks[i] \in KalmanTracks OBVIOUS
  <2> QED BY <1>2, <2>1, Zenon
<1>5. out \in Seq(KalmanTracks)
  <2> DEFINE V == {ks[i] : i \in young}
  <2>1. out \in Seq(V) /\ V \subseteq KalmanTracks BY <1>3, <1>4
  <2> HIDE DEF V
  <2> QED BY <2>1
<1>6. \A n \in DOMAIN out : \E i \in DOMAIN ks : out[n] = ks[i]
  BY <1>2, <1>3, Zenon
<1> QED BY <1>5, <1>6 DEF out

(***************************************************************************)
(* The new tracks of a call are fresh.                                     *)
(***************************************************************************)
LEMMA NewTracksFresh ==
  ASSUME create_count \in Nat, births \in Nat, NEW count \in Nat, NEW calls
  PROVE  /\ NewTracks(count) \in Seq(KalmanTracks) /\ Len(NewTracks(count)) = count
         /\ \A i \in 1..count : /\ Fresh(NewTracks(count)[i], calls)
                                /\ NewTracks(count)[i].hit_streak = 0
<1> DEFINE new == NewTracks(count)
<1>1. new = [i \in 1..count |-> NewTrack(i)] BY DEF NewTracks
<1>2. ASSUME NEW i \in 1..count
      PROVE  /\ NewTrack(i) \in KalmanTracks /\ NewTrack(i).hit_streak = 0
             /\ CycleOf(NewTrack(i)) = PresentCycle
             /\ StreakOK(NewTrack(i), calls)
  <2>1. create_count + i - 1 \in Nat /\ births + i \in Nat BY SMT
  <2>2. /\ NewTrack(i) \in KalmanTracks /\ NewTrack(i).hit_streak = 0
        /\ NewTrack(i).id = create_count + i - 1 /\ NewTrack(i).birth = births + i
    BY <2>1 DEF NewTrack, KalmanTracks
  <2>3. CycleOf(NewTrack(i)) = PresentCycle
    <3>1. (births + i) - (create_count + i - 1) - 1 = births - create_count BY SMT
    <3> QED BY <2>2, <3>1, Zenon DEF CycleOf, PresentCycle
  <2>4. \A n \in 1..MinHits : ~(n <= 0) BY TrackerLimits, SMT
  <2> QED BY <2>2, <2>3, <2>4, Zenon DEF StreakOK
<1> HIDE DEF new
<1>3. new \in [1..count -> KalmanTracks] BY <1>1, <1>2, Zenon
<1>4. new \in Seq(KalmanTracks) /\ Len(new) = count BY <1>3
<1>5. \A i \in 1..count : new[i] = NewTrack(i) BY <1>1, Zenon
<1>6. \A i \in 1..count : Fresh(new[i], calls) /\ new[i].hit_streak = 0
  BY <1>2, <1>5, Zenon DEF Fresh
<1> QED BY <1>4, <1>6 DEF new

(***************************************************************************)
(* A track that is predicted and not updated is an heir with no streak to  *)
(* account for; one that is updated has one more call in its streak.       *)
(***************************************************************************)
LEMMA PredictedHeir ==
  ASSUME kalmans \in Seq(KalmanTracks), NEW m \in DOMAIN kalmans, NEW calls
  PROVE  Heir(predict(kalmans[m]), calls)
<1>1. kalmans[m] \in KalmanTracks OBVIOUS
<1> DEFINE p == predict(kalmans[m])
<1>2. /\ p \in KalmanTracks /\ p.id = kalmans[m].id /\ p.birth = kalmans[m].birth
      /\ p.time_since_update > 0
  BY <1>1, PredictFacts, Zenon
<1> HIDE DEF p
<1>3. p.time_since_update # 0 BY <1>2, SMT
<1>4. Heir(p, calls) BY <1>2, <1>3, Zenon DEF Heir, StreakOK
<1> QED BY <1>4 DEF p

(***************************************************************************)
(* A predicted track that a call updates is an heir: its streak grows by   *)
(* one, and the call that updated it is the last one.                      *)
(***************************************************************************)
LEMMA UpdatedHeir ==
  ASSUME kalmans \in Seq(KalmanTracks), NEW m \in DOMAIN kalmans, StreakOK(kalmans[m], recent),
         NEW calls, MinHits # 0 => kalmans[m].birth \in calls[1],
         \A n \in 1..MinHits : n # 1 => calls[n] = recent[n - 1]
  PROVE  Heir(update(predict(kalmans[m])), calls)
<1>1. kalmans[m] \in KalmanTracks OBVIOUS
<1> DEFINE p == predict(kalmans[m])
           k == kalmans[m]
           u == update(p)
<1>2. /\ p \in KalmanTracks /\ p.id = k.id /\ p.birth = k.birth
      /\ p.hit_streak = IF k.time_since_update > 0 THEN 0 ELSE k.hit_streak
  BY <1>1, PredictFacts, Zenon
<1>3. k.time_since_update \in Nat /\ k.hit_streak \in Nat BY <1>1 DEF KalmanTracks
<1> HIDE DEF p
<1>4. p.hit_streak \in Nat /\ p.hit_streak + 1 \in Nat
  <2>1. p.hit_streak \in Nat BY <1>2 DEF KalmanTracks
  <2> QED BY <2>1, SMT
<1>5. /\ u \in KalmanTracks /\ u.id = k.id /\ u.birth = k.birth
      /\ u.hit_streak = p.hit_streak + 1
  <2> HIDE DEF k
  <2> QED BY <1>2, <1>4 DEF update, KalmanTracks
<1> HIDE DEF u
<1>6. ASSUME NEW n \in 1..MinHits, n <= u.hit_streak PROVE u.birth \in calls[n]
  <2>1. CASE n = 1
    <3>1. MinHits # 0 BY SMT
    <3> QED BY <1>5, <2>1, <3>1, Zenon
  <2>2. CASE n # 1
    <3>1. n - 1 \in 1..MinHits /\ n - 1 <= p.hit_streak /\ n - 1 >= 1
      BY <1>4, <1>5, <1>6, <2>2, TrackerLimits, SMT
    <3>2. k.time_since_update = 0 /\ n - 1 <= k.hit_streak
      BY <1>2, <1>3, <3>1, SMT
    <3>3. k.birth \in recent[n - 1] BY <3>1, <3>2, Zenon DEF StreakOK
    <3>4. calls[n] = recent[n - 1] BY <2>2, Zenon
    <3> QED BY <1>5, <3>3, <3>4, Zenon
  <2> QED BY <2>1, <2>2
<1>7. Heir(u, calls) BY <1>5, <1>6, Zenon DEF Heir, StreakOK
<1> QED BY <1>7 DEF u, p

(***************************************************************************)
(* A matrix of costs has as many rows and columns as it was given.         *)
(***************************************************************************)
LEMMA MatrixSize ==
  ASSUME NEW trk \in Nat \ {0}, NEW det \in Nat \ {0}, NEW C,
         NEW cost \in [1..trk -> [1..det -> C]]
  PROVE  Len(cost) = trk /\ Len(cost[1]) = det
<1>1. Len(cost) = trk OBVIOUS
<1>2. cost[1] \in [1..det -> C] BY SMT
<1>3. Len(cost[1]) = det
  <2> DEFINE row == cost[1]
  <2>1. row \in [1..det -> C] BY <1>2
  <2> HIDE DEF row
  <2>2. Len(row) = det BY <2>1
  <2> QED BY <2>2 DEF row
<1> QED BY <1>1, <1>3

(***************************************************************************)
(* Object j is one matched pair or one unmatched object, and not both.     *)
(***************************************************************************)
FedOnce(matched, unmatched, j) ==
  Cardinality({m \in matched : m[2] = j}) + Cardinality(unmatched \cap {j}) = 1

(***************************************************************************)
(* A complete assignment gives every object to exactly one track: the      *)
(* matched pairs and the unmatched objects that TrackObjects builds from   *)
(* it hold each object once.  When there are not more objects than tracks, *)
(* a complete assignment reaches every object, which is why the code       *)
(* collects the unreached ones only when there are more.                   *)
(***************************************************************************)
LEMMA EachObjectOnce ==
  ASSUME NEW trk \in Nat \ {0}, NEW det \in Nat \ {0}, NEW C,
         C \subseteq Int, NEW cost \in [1..trk -> [1..det -> C]],
         NEW a \in [1..trk -> 0..det], IsComplete(cost, a),
         NEW j \in 1..det
  PROVE  FedOnce(MatchedPairs(cost, a), UnmatchedObjects(cost, a), j)
<1> DEFINE taken == Assigned(a)
           matched == MatchedPairs(cost, a)
           unmatched == UnmatchedObjects(cost, a)
<1>1. /\ Len(cost) = trk /\ Len(cost[1]) = det /\ Rows(cost) = 1..trk /\ Cols(cost) = 1..det
  <2>1. Len(cost) = trk /\ Len(cost[1]) = det BY MatrixSize
  <2> QED BY <2>1, Zenon DEF Rows, Cols
<1>2. /\ taken \subseteq 1..trk /\ \A r \in taken : a[r] # 0
      /\ \A r \in 1..trk : a[r] # 0 => r \in taken
  BY DEF Assigned
<1>3. /\ \A r, s \in taken : a[r] = a[s] => r = s
      /\ Cardinality(taken) = Min({trk, det})
  BY <1>1, Zenon DEF IsComplete
<1>4. matched = {<<i, a[i]>> : i \in {r \in taken : cost[r][a[r]] <= Threshold}}
  BY Zenon DEF MatchedPairs
<1>5. unmatched = (IF det > trk THEN (1..det) \ {a[r] : r \in 1..trk} ELSE {})
                    \cup {a[i] : i \in {r \in taken : cost[r][a[r]] > Threshold}}
  BY <1>1, Zenon DEF UnmatchedObjects
<1> DEFINE given == Cardinality({m \in matched : m[2] = j})
           left == Cardinality(unmatched \cap {j})
<1> SUFFICES given + left = 1 BY Zenon DEF FedOnce
<1> HIDE DEF taken, matched, unmatched, given, left
<1>6. CASE \E r \in taken : a[r] = j
  <2>1. PICK r \in taken : a[r] = j BY <1>6
  <2>2. \A s \in taken : a[s] = j => s = r BY <1>3, <2>1, Zenon
  <2> DEFINE x == cost[r][a[r]]
  <2>3. r \in 1..trk /\ j # 0 /\ x \in Int
    <3>1. r \in 1..trk /\ j # 0 BY <1>2, <2>1, Zenon
    <3>2. cost[r] \in [1..det -> C] BY <3>1
    <3>3. x \in C BY <2>1, <3>2, Zenon
    <3> QED BY <3>1, <3>3
  <2> HIDE DEF x
  <2>4. CASE x <= Threshold
    <3>1. {m \in matched : m[2] = j} = {<<r, j>>}
      <4>1. <<r, j>> \in matched BY <1>4, <2>1, <2>4, Zenon DEF x
      <4>2. ASSUME NEW m \in matched, m[2] = j PROVE m = <<r, j>>
        <5>1. PICK i \in taken : m = <<i, a[i]>> BY <1>4, <4>2
        <5>2. a[i] = j BY <4>2, <5>1
        <5> QED BY <2>2, <5>1, <5>2
      <4>3. <<r, j>>[2] = j OBVIOUS
      <4> QED BY <4>1, <4>2, <4>3, Zenon
    <3>2. j \notin unmatched
      <4>1. j \in {a[s] : s \in 1..trk} BY <2>1, <2>3, Zenon
      <4>2. ASSUME NEW i \in taken, cost[i][a[i]] > Threshold, a[i] = j PROVE FALSE
        <5>1. i = r BY <2>2, <4>2, Zenon
        <5>2. x <= Threshold /\ x > Threshold BY <2>4, <4>2, <5>1, Zenon DEF x
        <5> QED BY <2>3, <5>2, TrackerLimits, SMT
      <4> QED BY <1>5, <4>1, <4>2, Zenon
    <3>3. unmatched \cap {j} = {} BY <3>2, Zenon
    <3>4. Cardinality({<<r, j>>}) = 1 /\ Cardinality({}) = 0 BY FS_Singleton, FS_EmptySet, Zenon
    <3>5. given = 1 /\ left = 0 BY <3>1, <3>3, <3>4, Zenon DEF given, left
    <3> QED BY <3>5, SMT
  <2>5. CASE ~(x <= Threshold)
    <3>1. x > Threshold BY <2>3, <2>5, TrackerLimits, SMT
    <3>2. j \in unmatched BY <1>5, <2>1, <3>1, Zenon DEF x
    <3>3. unmatched \cap {j} = {j} BY <3>2, Zenon
    <3>4. {m \in matched : m[2] = j} = {}
      <4>1. ASSUME NEW m \in matched, m[2] = j PROVE FALSE
        <5>1. PICK i \in taken : m = <<i, a[i]>> /\ cost[i][a[i]] <= Threshold BY <1>4, <4>1
        <5>2. a[i] = j BY <4>1, <5>1
        <5>3. i = r BY <2>2, <5>2, Zenon
        <5>4. x <= Threshold BY <5>1, <5>3, Zenon DEF x
        <5> QED BY <2>5, <5>4
      <4> QED BY <4>1, Zenon
    <3>5. Cardinality({j}) = 1 /\ Cardinality({}) = 0 BY FS_Singleton, FS_EmptySet, Zenon
    <3>6. given = 0 /\ left = 1 BY <3>3, <3>4, <3>5, Zenon DEF given, left
    <3> QED BY <3>6, SMT
  <2> QED BY <2>4, <2>5
<1>7. CASE ~ \E r \in taken : a[r] = j
  <2>1. {m \in matched : m[2] = j} = {}
    <3>1. ASSUME NEW m \in matched, m[2] = j PROVE FALSE
      <4>1. PICK i \in taken : m = <<i, a[i]>> BY <1>4, <3>1
      <4>2. a[i] = j BY <3>1, <4>1
      <4> QED BY <1>7, <4>1, <4>2
    <3> QED BY <3>1, Zenon
  <2>2. det > trk
    <3>1. SUFFICES ASSUME det <= trk PROVE FALSE BY SMT
    <3>2. Min({trk, det}) = det
      <4>1. trk \in Int /\ det \in Int OBVIOUS
      <4>2. Min({trk, det}) = IF trk >= det THEN det ELSE trk BY <4>1, Bounds
      <4> QED BY <3>1, <4>2, SMT
    <3>3. IsFiniteSet(1..det) /\ Cardinality(1..det) = det
      <4>1. 1 \in Int /\ det \in Int OBVIOUS
      <4>2. IsFiniteSet(1..det) /\ Cardinality(1..det) = IF 1 > det THEN 0 ELSE det - 1 + 1
        BY <4>1, FS_Interval, Zenon
      <4> QED BY <4>2, SMT
    <3> DEFINE f == [r \in taken |-> a[r]]
    <3>4. f \in [taken -> 1..det]
      <4>1. \A r \in taken : a[r] \in 1..det
        <5> SUFFICES ASSUME NEW r \in taken PROVE a[r] \in 1..det OBVIOUS
        <5>1. r \in 1..trk /\ a[r] # 0 BY <1>2
        <5>2. a[r] \in 0..det BY <5>1
        <5> QED BY <5>1, <5>2, SMT
      <4> QED BY <4>1, Zenon
    <3>5. \A r, s \in taken : f[r] = f[s] => r = s BY <1>3, Zenon
    <3> HIDE DEF f
    <3>6. f \in Injection(taken, 1..det) BY <3>4, <3>5, Zenon DEF Injection, IsInjective
    <3>7. f \in Surjection(taken, 1..det)
      BY <1>3, <3>2, <3>3, <3>6, FS_Injection, Zenon
    <3>8. \E r \in taken : f[r] = j BY <3>7, Zenon DEF Surjection
    <3> QED BY <1>7, <3>8, Zenon DEF f
  <2>3. j \in unmatched
    <3>1. j \notin {a[r] : r \in 1..trk}
      <4>1. ASSUME NEW r \in 1..trk, a[r] = j PROVE FALSE
        <5>1. a[r] # 0 BY <4>1, SMT
        <5> QED BY <1>2, <1>7, <4>1, <5>1, Zenon
      <4> QED BY <4>1, Zenon
    <3> QED BY <1>5, <2>2, <3>1, Zenon
  <2>4. unmatched \cap {j} = {j} BY <2>3, Zenon
  <2>5. Cardinality({j}) = 1 /\ Cardinality({}) = 0 BY FS_Singleton, FS_EmptySet, Zenon
  <2>6. given = 0 /\ left = 1 BY <2>1, <2>4, <2>5, Zenon DEF given, left
  <2> QED BY <2>6, SMT
<1> QED BY <1>6, <1>7

(***************************************************************************)
(* The first objects become fresh tracks.                                  *)
(***************************************************************************)
LEMMA FirstObjectsStep ==
  ASSUME TrackerInvariant, NEW count \in Nat \ {0}, FirstObjects(count)
  PROVE  TrackerInvariant'
<1>0. create_count \in Nat /\ births \in Nat BY DEF TrackerInvariant
<1>1. /\ kalmans' = NewTracks(count)
      /\ create_count' = create_count + count /\ births' = births + count
      /\ tracked' = <<>> /\ request_seq' = request_seq + 1
      /\ fed' = [j \in 1..count |-> 1]
  BY DEF FirstObjects, Called
<1>2. /\ NewTracks(count) \in Seq(KalmanTracks) /\ Len(NewTracks(count)) = count
      /\ \A i \in 1..count : Fresh(NewTracks(count)[i], recent')
  <2>1. count \in Nat OBVIOUS
  <2> QED BY <1>0, <2>1, NewTracksFresh, Zenon
<1>3. DOMAIN kalmans' = 1..count /\ kalmans' \in Seq(KalmanTracks)
  <2> DEFINE new == NewTracks(count)
  <2>1. new \in Seq(KalmanTracks) /\ Len(new) = count BY <1>2
  <2> HIDE DEF new
  <2>2. DOMAIN new = 1..count BY <2>1
  <2> QED BY <1>1, <2>1, <2>2, Zenon DEF new
<1>4. \A i \in DOMAIN kalmans' : Fresh(kalmans'[i], recent') BY <1>1, <1>2, <1>3, Zenon
<1>5. create_count' \in Nat /\ births' \in Nat /\ births' - create_count' = births - create_count
  BY <1>0, <1>1, SMT
<1>6. CycleTurns BY <1>5, Zenon DEF CycleTurns, PresentCycle
<1>7. \A j \in DOMAIN fed' : fed'[j] = 1 BY <1>1, Zenon
<1>8. ReportedIsSteady'
  <2>1. DOMAIN tracked' = {} BY <1>1
  <2> QED BY <2>1, Zenon DEF ReportedIsSteady
<1> QED BY <1>1, <1>3, <1>4, <1>5, <1>6, <1>7, <1>8, CallKeeps, Zenon

(***************************************************************************)
(* A call that returns nothing and whose tracks are some of the predicted  *)
(* ones keeps the invariant.                                               *)
(***************************************************************************)
LEMMA SilentCall ==
  ASSUME TrackerInvariant, NEW before, PredictedFrom(before),
         kalmans' \in Seq(KalmanTracks),
         \A n \in DOMAIN kalmans' : \E i \in DOMAIN before : kalmans'[n] = before[i],
         tracked' = <<>>, fed' = <<>>, request_seq' = request_seq + 1,
         UNCHANGED <<create_count, births>>
  PROVE  TrackerInvariant'
<1>0. create_count \in Nat /\ births \in Nat /\ kalmans \in Seq(KalmanTracks)
  BY DEF TrackerInvariant
<1>1. ASSUME NEW n \in DOMAIN kalmans' PROVE Heir(kalmans'[n], recent')
  <2>1. PICK m \in DOMAIN kalmans : kalmans'[n] = predict(kalmans[m])
    BY <1>1, Zenon DEF PredictedFrom
  <2>2. Heir(predict(kalmans[m]), recent') BY <1>0, PredictedHeir, Zenon
  <2> QED BY <2>1, <2>2, Zenon
<1>2. create_count' = create_count /\ births' = births OBVIOUS
<1>3. CycleTurns BY <1>2, Zenon DEF CycleTurns, PresentCycle
<1>4. DOMAIN tracked' = {} /\ DOMAIN fed' = {} OBVIOUS
<1>5. ReportedIsSteady' BY <1>4, Zenon DEF ReportedIsSteady
<1> QED BY <1>0, <1>1, <1>2, <1>3, <1>4, <1>5, CallKeeps, Zenon

(***************************************************************************)
(* The early return of a call with more objects than max_track_size_ keeps *)
(* the invariant: the tracks are only predicted.                           *)
(***************************************************************************)
LEMMA OverTrackingSizeStep ==
  ASSUME TrackerInvariant, NEW det, NEW gone, OverTrackingSize(det, gone)
  PROVE  TrackerInvariant'
<1> DEFINE before == Predicted(gone)
<1>1. /\ kalmans' = WithoutOverAge(before) /\ tracked' = <<>> /\ fed' = <<>>
      /\ request_seq' = request_seq + 1 /\ UNCHANGED <<create_count, births>>
  BY DEF OverTrackingSize, Called
<1>2. PredictedFrom(before) BY PredictedFacts, Zenon DEF TrackerInvariant
<1> HIDE DEF before
<1>3. before \in Seq(KalmanTracks) BY <1>2, Zenon DEF PredictedFrom
<1>4. /\ kalmans' \in Seq(KalmanTracks)
      /\ \A n \in DOMAIN kalmans' : \E i \in DOMAIN before : kalmans'[n] = before[i]
  BY <1>1, <1>3, YoungFacts, Zenon
<1> QED BY <1>1, <1>2, <1>4, SilentCall, Zenon

(***************************************************************************)
(* A call whose tracks are all erased by the prediction keeps the          *)
(* invariant.                                                              *)
(***************************************************************************)
LEMMA NoTracksLeftStep ==
  ASSUME TrackerInvariant, NEW det, NEW gone, NoTracksLeft(det, gone)
  PROVE  TrackerInvariant'
<1>1. /\ kalmans' = <<>> /\ tracked' = <<>> /\ fed' = <<>>
      /\ request_seq' = request_seq + 1 /\ UNCHANGED <<create_count, births>>
  BY DEF NoTracksLeft, Called
<1>2. PredictedFrom(Predicted(gone)) BY PredictedFacts, Zenon DEF TrackerInvariant
<1>3. DOMAIN kalmans' = {} /\ kalmans' \in Seq(KalmanTracks) BY <1>1
<1> QED BY <1>1, <1>2, <1>3, SilentCall, Zenon

(***************************************************************************)
(* The tracks of a call that matches objects, before any is erased: heirs  *)
(* and fresh ones, whatever the matched pairs and the number of new tracks *)
(* are.                                                                    *)
(***************************************************************************)
LEMMA MatchedTracks ==
  ASSUME TrackerInvariant, NEW before, PredictedFrom(before), NEW matched,
         NEW created \in Nat, NEW calls,
         calls = [n \in 1..MinHits |-> IF n = 1 THEN {before[m[1]].birth : m \in matched}
                                       ELSE recent[n - 1]],
         NEW after,
         after = [i \in DOMAIN before |-> IF \E m \in matched : m[1] = i
                                          THEN update(before[i]) ELSE before[i]]
                   \o NewTracks(created)
  PROVE  /\ after \in Seq(KalmanTracks)
         /\ \A i \in DOMAIN after : Heir(after[i], calls) \/ Fresh(after[i], calls)
<1> DEFINE updated == [i \in DOMAIN before |-> IF \E m \in matched : m[1] = i
                                               THEN update(before[i]) ELSE before[i]]
           new == NewTracks(created)
<1>0. create_count \in Nat /\ births \in Nat /\ kalmans \in Seq(KalmanTracks)
  BY DEF TrackerInvariant
<1>1. before \in Seq(KalmanTracks) BY Zenon DEF PredictedFrom
<1>2. Len(before) \in Nat /\ DOMAIN before = 1..Len(before) BY <1>1
<1>3. ASSUME NEW i \in DOMAIN before PROVE Heir(updated[i], calls)
  <2>1. PICK k \in DOMAIN kalmans : before[i] = predict(kalmans[k])
    BY Zenon DEF PredictedFrom
  <2>2. CASE \E m \in matched : m[1] = i
    <3>1. PICK m \in matched : m[1] = i BY <2>2
    <3>2. updated[i] = update(predict(kalmans[k])) BY <2>1, <2>2, Zenon
    <3>3. before[i].birth = kalmans[k].birth
      <4>1. kalmans[k] \in KalmanTracks BY <1>0
      <4> QED BY <2>1, <4>1, PredictFacts, Zenon
    <3>4. kalmans[k].birth \in {before[x[1]].birth : x \in matched}
      BY <3>1, <3>3, Zenon
    <3>5. ASSUME MinHits # 0 PROVE kalmans[k].birth \in calls[1]
      <4>1. 1 \in 1..MinHits BY <3>5, TrackerLimits, SMT
      <4> QED BY <3>4, <4>1, Zenon
    <3>6. \A n \in 1..MinHits : n # 1 => calls[n] = recent[n - 1] BY Zenon
    <3>7. StreakOK(kalmans[k], recent) BY Zenon DEF TrackerInvariant
    <3>8. Heir(update(predict(kalmans[k])), calls)
      BY <1>0, <3>5, <3>6, <3>7, UpdatedHeir, Zenon
    <3> QED BY <3>2, <3>8, Zenon
  <2>3. CASE ~ \E m \in matched : m[1] = i
    <3>1. updated[i] = predict(kalmans[k]) BY <2>1, <2>3, Zenon
    <3> QED BY <1>0, <3>1, PredictedHeir, Zenon
  <2> QED BY <2>2, <2>3
<1>4. DOMAIN updated = 1..Len(before) BY <1>2, Zenon
<1>5. updated = [i \in 1..Len(before) |-> updated[i]]
  BY <1>2, Zenon
<1> HIDE DEF updated, new
<1>6. updated \in [1..Len(before) -> KalmanTracks]
  <2>1. \A i \in 1..Len(before) : updated[i] \in KalmanTracks BY <1>2, <1>3, Zenon DEF Heir
  <2> QED BY <1>5, <2>1, Zenon
<1>7. updated \in Seq(KalmanTracks) /\ Len(updated) = Len(before) BY <1>2, <1>6
<1>8. /\ new \in Seq(KalmanTracks) /\ Len(new) = created
      /\ \A i \in 1..created : Fresh(new[i], calls)
  BY <1>0, NewTracksFresh, Zenon DEF new
<1>9. after = updated \o new BY DEF updated, new
<1>10. /\ after \in Seq(KalmanTracks)
       /\ DOMAIN after = 1..(Len(before) + created)
       /\ \A i \in 1..(Len(before) + created) :
            after[i] = IF i <= Len(before) THEN updated[i] ELSE new[i - Len(before)]
  <2> DEFINE b == Len(before)
  <2>1. b \in Nat /\ Len(updated) = b BY <1>2, <1>7
  <2> HIDE DEF b
  <2>2. /\ after \in Seq(KalmanTracks) /\ Len(after) = Len(updated) + Len(new)
        /\ \A i \in 1..(Len(updated) + Len(new)) :
             after[i] = IF i <= Len(updated) THEN updated[i] ELSE new[i - Len(updated)]
    <3>1. updated \in Seq(KalmanTracks) /\ new \in Seq(KalmanTracks) BY <1>7, <1>8, Zenon
    <3>2. Joint(updated, new, updated \o new, KalmanTracks) BY <3>1, Joined, Zenon
    <3>3. Joint(updated, new, after, KalmanTracks) BY <1>9, <3>2, Zenon
    <3> QED BY <3>3, Zenon DEF Joint
  <2>3. Len(after) = b + created BY <1>8, <2>1, <2>2, Zenon
  <2>4. DOMAIN after = 1..(b + created) BY <2>2, <2>3
  <2>5. \A i \in 1..(b + created) : after[i] = IF i <= b THEN updated[i] ELSE new[i - b]
    BY <1>8, <2>1, <2>2, Zenon
  <2> QED BY <2>2, <2>4, <2>5 DEF b
<1>11. ASSUME NEW i \in DOMAIN after PROVE Heir(after[i], calls) \/ Fresh(after[i], calls)
  <2>1. i \in 1..(Len(before) + created) BY <1>10, Zenon
  <2>2. CASE i <= Len(before)
    <3>1. i \in DOMAIN before BY <1>2, <2>1, <2>2, SMT
    <3> QED BY <1>3, <1>10, <2>1, <2>2, <3>1, Zenon
  <2>3. CASE ~(i <= Len(before))
    <3>1. i - Len(before) \in 1..created BY <1>2, <2>1, <2>3, SMT
    <3> QED BY <1>8, <1>10, <2>1, <2>3, <3>1, Zenon
  <2> QED BY <2>2, <2>3
<1> QED BY <1>10, <1>11

(***************************************************************************)
(* A call that matches objects keeps the invariant.                        *)
(***************************************************************************)
LEMMA TrackStep ==
  ASSUME TrackerInvariant, request_seq <= MaxCalls, NEW gone,
         NEW trk \in 1..MaxTrackSize, trk = Len(Predicted(gone)),
         NEW det \in Detections(request_seq), det <= MaxTrackSize,
         NEW cost \in [1..trk -> [1..det -> Costs(request_seq)]],
         Track(cost, gone)
  PROVE  TrackerInvariant'
<1> DEFINE before    == Predicted(gone)
           a         == Assign(cost)
           matched   == MatchedPairs(cost, a)
           unmatched == UnmatchedObjects(cost, a)
           created   == Cardinality(unmatched)
           after     == [i \in DOMAIN before |-> IF \E m \in matched : m[1] = i
                                                 THEN update(before[i]) ELSE before[i]]
                          \o NewTracks(created)
           AllCosts  == UNION {Costs(n) : n \in 1..MaxCalls}
<1>0. create_count \in Nat /\ births \in Nat /\ kalmans \in Seq(KalmanTracks)
      /\ request_seq \in Nat \ {0}
  BY DEF TrackerInvariant
<1>1. /\ kalmans' = WithoutOverAge(after)
      /\ tracked' = Detected(after)
      /\ create_count' = Cycled(create_count + created)
      /\ births' = births + created
      /\ request_seq' = request_seq + 1
      /\ recent' = [n \in 1..MinHits |-> IF n = 1 THEN {before[m[1]].birth : m \in matched}
                                         ELSE recent[n - 1]]
      /\ fed' = [j \in Cols(cost) |-> Cardinality({m \in matched : m[2] = j})
                                        + Cardinality(unmatched \cap {j})]
  BY Zenon DEF Track, Called
<1>2. /\ request_seq \in 1..MaxCalls
      /\ trk \in Nat \ {0} /\ det \in Nat \ {0} /\ det \in 1..MaxTrackSize
  <2>1. request_seq \in 1..MaxCalls BY <1>0, TrackerLimits, SMT
  <2>2. det \in Nat \ {0} BY <2>1, InputsAssumption, Zenon
  <2> QED BY <2>1, <2>2, TrackerLimits, SMT
<1>3. cost \in [1..trk -> [1..det -> AllCosts]] /\ AllCosts \subseteq Int
  <2>1. Costs(request_seq) \subseteq AllCosts BY <1>2, Zenon
  <2>2. AllCosts \subseteq Nat BY InputsAssumption, Zenon
  <2> HIDE DEF AllCosts
  <2> DEFINE C == Costs(request_seq)
  <2>3. cost \in [1..trk -> [1..det -> C]] /\ C \subseteq AllCosts BY <2>1
  <2> HIDE DEF C
  <2>4. [1..det -> C] \subseteq [1..det -> AllCosts] BY <2>3, Zenon
  <2>5. cost \in [1..trk -> [1..det -> AllCosts]] BY <2>3, <2>4, Zenon
  <2>6. Nat \subseteq Int BY SMT
  <2> QED BY <2>2, <2>5, <2>6, Zenon
<1>4. a \in [1..trk -> 0..det] /\ IsComplete(cost, a)
  BY <1>2, <1>3, AssignAssumption, Zenon
<1>5. PredictedFrom(before) BY <1>0, PredictedFacts, Zenon
<1> HIDE DEF a, AllCosts, before, unmatched, matched
<1>6. \A j \in 1..det : Cardinality({m \in matched : m[2] = j})
                          + Cardinality(unmatched \cap {j}) = 1
  <2> SUFFICES ASSUME NEW j \in 1..det PROVE FedOnce(matched, unmatched, j)
    BY Zenon DEF FedOnce
  <2>1. FedOnce(MatchedPairs(cost, a), UnmatchedObjects(cost, a), j)
    BY <1>2, <1>3, <1>4, EachObjectOnce
  <2> QED BY <2>1 DEF matched, unmatched
<1>7. Len(cost) = trk /\ Len(cost[1]) = det
  <2>1. \A C : cost \in [1..trk -> [1..det -> C]] => Len(cost) = trk /\ Len(cost[1]) = det
    BY <1>2, MatrixSize
  <2> QED BY <1>3, <2>1, Zenon
<1>8. \A j \in DOMAIN fed' : fed'[j] = 1
  <2>1. Cols(cost) = 1..det BY <1>7, Zenon DEF Cols
  <2> QED BY <1>1, <1>6, <2>1, Zenon
<1>9. created \in Nat
  <2>1. unmatched \subseteq 0..det
    <3>1. Assigned(a) \subseteq 1..trk BY <1>4 DEF Assigned
    <3>2. \A i \in 1..trk : a[i] \in 0..det BY <1>4
    <3>3. (1..det) \subseteq 0..det BY SMT
    <3>4. Cols(cost) = 1..det BY <1>7, Zenon DEF Cols
    <3> QED BY <3>1, <3>2, <3>3, <3>4, Zenon DEF unmatched, UnmatchedObjects
  <2>2. IsFiniteSet(0..det)
    <3>1. 0 \in Int /\ det \in Int BY <1>2
    <3> QED BY <3>1, FS_Interval, Zenon
  <2>3. IsFiniteSet(unmatched) BY <2>1, <2>2, FS_Subset, Zenon
  <2> QED BY <2>3, FS_CardinalityType, Zenon
<1> HIDE DEF created
<1>10. /\ after \in Seq(KalmanTracks)
       /\ \A i \in DOMAIN after : Heir(after[i], recent') \/ Fresh(after[i], recent')
  <2> DEFINE calls == recent'
  <2>1. calls = [n \in 1..MinHits |-> IF n = 1 THEN {before[m[1]].birth : m \in matched}
                                      ELSE recent[n - 1]]
    BY <1>1
  <2>2. after = [i \in DOMAIN before |-> IF \E m \in matched : m[1] = i
                                         THEN update(before[i]) ELSE before[i]]
                  \o NewTracks(created)
    OBVIOUS
  <2> HIDE DEF calls, after
  <2>3. /\ after \in Seq(KalmanTracks)
        /\ \A i \in DOMAIN after : Heir(after[i], calls) \/ Fresh(after[i], calls)
    BY <1>5, <1>9, <2>1, <2>2, MatchedTracks, Zenon
  <2> QED BY <2>3 DEF calls
<1> HIDE DEF after
<1>11. /\ kalmans' \in Seq(KalmanTracks)
       /\ \A n \in DOMAIN kalmans' : \E i \in DOMAIN after : kalmans'[n] = after[i]
  BY <1>1, <1>10, YoungFacts, Zenon
<1>12. \A n \in DOMAIN kalmans' : Heir(kalmans'[n], recent') \/ Fresh(kalmans'[n], recent')
  BY <1>10, <1>11, Zenon
<1>13. /\ create_count' \in Nat /\ births' \in Nat
       /\ \/ births' - create_count' = births - create_count
          \/ (births' - create_count') - (births - create_count) > CycleThreshold
  <2> DEFINE c == create_count + created
  <2>1. /\ create_count' = IF c > CycleThreshold THEN 0 ELSE c
        /\ births' = births + created
    BY <1>1, Zenon DEF Cycled
  <2>2. c = create_count + created /\ c \in Nat BY <1>0, <1>9, SMT
  <2> HIDE DEF c, created
  <2> QED BY <1>0, <1>9, <2>1, <2>2, TrackerLimits, SMT
<1>14. CycleTurns BY <1>13, Zenon DEF CycleTurns, PresentCycle
<1>15. ReportedIsSteady'
  <2> SUFFICES ASSUME request_seq' > MinHits + 1,
                      NEW i \in DOMAIN tracked', NEW n \in 1..MinHits
               PROVE  tracked'[i].birth \in recent'[n]
    BY Zenon DEF ReportedIsSteady
  <2> DEFINE shown == {m \in DOMAIN after : is_detected_track_object(after[m])}
  <2>1. Kept(after, shown, Detected(after)) BY <1>10, ErasedFacts, Zenon
  <2>2. PICK m \in shown : tracked'[i] = after[m] BY <1>1, <2>1, Zenon DEF Kept
  <2> DEFINE k == after[m]
  <2>3. is_detected_track_object(k) /\ m \in DOMAIN after BY <2>2, Zenon
  <2>4. k \in KalmanTracks /\ StreakOK(k, recent') BY <1>10, <2>3, Zenon DEF Heir, Fresh
  <2>5. /\ k.time_since_update < 1 /\ (k.hit_streak >= MinHits \/ request_seq <= MinHits)
    BY <2>3, Zenon DEF is_detected_track_object
  <2> HIDE DEF k, shown
  <2>6. k.time_since_update \in Nat /\ k.hit_streak \in Nat BY <2>4 DEF KalmanTracks
  <2>7. k.time_since_update = 0 /\ n <= k.hit_streak
    BY <1>0, <1>1, <2>5, <2>6, TrackerLimits, SMT
  <2>8. k.birth \in recent'[n] BY <2>4, <2>7, Zenon DEF StreakOK
  <2> QED BY <2>2, <2>8, Zenon DEF k
<1> QED BY <1>1, <1>8, <1>11, <1>12, <1>13, <1>14, <1>15, CallKeeps, Zenon

(***************************************************************************)
(* Every step keeps the invariant.                                         *)
(***************************************************************************)
LEMMA TrackerInductive == TrackerInvariant /\ [TrackerNext]_trackerVars => TrackerInvariant'
<1> SUFFICES ASSUME TrackerInvariant, [TrackerNext]_trackerVars PROVE TrackerInvariant'
  OBVIOUS
<1>1. CASE TrackObjects
  <2>1. request_seq <= MaxCalls BY <1>1 DEF TrackObjects
  <2>2. request_seq \in 1..MaxCalls
    <3>1. request_seq \in Nat \ {0} BY DEF TrackerInvariant
    <3> QED BY <2>1, <3>1, TrackerLimits, SMT
  <2>3. PICK det \in Detections(request_seq) :
          \/ FirstObjects(det)
          \/ \E gone \in {g \in SUBSET DOMAIN kalmans : Cardinality(g) <= MaxGone(request_seq)} :
               \/ OverTrackingSize(det, gone)
               \/ NoTracksLeft(det, gone)
               \/ LET trk == Len(Predicted(gone)) IN
                  /\ trk \in 1..MaxTrackSize /\ det <= MaxTrackSize
                  /\ \E cost \in [1..trk -> [1..det -> Costs(request_seq)]] : Track(cost, gone)
    BY <1>1, Zenon DEF TrackObjects
  <2>4. det \in Nat \ {0} BY <2>2, InputsAssumption, Zenon
  <2>5. CASE FirstObjects(det) BY <2>4, <2>5, FirstObjectsStep, Zenon
  <2>6. CASE \E gone : OverTrackingSize(det, gone) BY <2>6, OverTrackingSizeStep, Zenon
  <2>7. CASE \E gone : NoTracksLeft(det, gone) BY <2>7, NoTracksLeftStep, Zenon
  <2>8. CASE \E gone : /\ Len(Predicted(gone)) \in 1..MaxTrackSize /\ det <= MaxTrackSize
                       /\ \E cost \in [1..Len(Predicted(gone)) -> [1..det -> Costs(request_seq)]] :
                            Track(cost, gone)
    BY <2>1, <2>8, TrackStep, Zenon
  <2> QED BY <2>3, <2>5, <2>6, <2>7, <2>8, Zenon
<1>2. CASE UNCHANGED trackerVars
  <2>1. /\ kalmans' = kalmans /\ create_count' = create_count /\ request_seq' = request_seq
        /\ tracked' = tracked /\ births' = births /\ recent' = recent /\ fed' = fed
    BY <1>2 DEF trackerVars
  <2>2. PresentCycle' = PresentCycle BY <2>1, Zenon DEF PresentCycle
  <2>3. ReportedIsSteady' BY <2>1, Zenon DEF ReportedIsSteady, TrackerInvariant
  <2> QED BY <2>1, <2>2, <2>3, Zenon DEF TrackerInvariant
<1> QED BY <1>1, <1>2 DEF TrackerNext, TrackerDone

(***************************************************************************)
(* The tracks, their ids and their streaks agree with what the calls did,  *)
(* for any sizes, ages and numbers of hits, any objects and any complete   *)
(* assignment.                                                             *)
(***************************************************************************)
THEOREM TrackerInvariantHolds == TrackerSpec => []TrackerInvariant
<1>1. TrackerInit => TrackerInvariant
  <2> SUFFICES ASSUME TrackerInit PROVE TrackerInvariant OBVIOUS
  <2>1. /\ kalmans = <<>> /\ create_count = 1 /\ request_seq = 1 /\ tracked = <<>>
        /\ births = 0 /\ fed = <<>>
    BY DEF TrackerInit
  <2>2. DOMAIN kalmans = {} /\ DOMAIN tracked = {} /\ DOMAIN fed = {} BY <2>1
  <2>3. kalmans \in Seq(KalmanTracks) BY <2>1
  <2>4. create_count \in Nat /\ births \in Nat /\ request_seq \in Nat \ {0} BY <2>1, SMT
  <2>5. ReportedIsSteady BY <2>2, Zenon DEF ReportedIsSteady
  <2> QED BY <2>2, <2>3, <2>4, <2>5, Zenon DEF TrackerInvariant
<1> QED BY <1>1, TrackerInductive, PTL DEF TrackerSpec

(***************************************************************************)
(* Every object of a tracked call goes to exactly one track, because the   *)
(* assignment is complete; and two tracks share an id only if more than    *)
(* CycleThreshold tracks were created between them, because the ids of one *)
(* cycle differ and a cycle only ends when that many are used.             *)
(***************************************************************************)
THEOREM OneTrackPerObjectHolds == TrackerSpec => []OneTrackPerObject
<1>1. TrackerInvariant => OneTrackPerObject
  <2> SUFFICES ASSUME TrackerInvariant PROVE OneTrackPerObject OBVIOUS
  <2>1. ASSUME NEW i \in DOMAIN kalmans, NEW j \in DOMAIN kalmans,
               kalmans[i].birth < kalmans[j].birth, kalmans[i].id = kalmans[j].id
        PROVE  kalmans[j].birth - kalmans[i].birth > CycleThreshold
    <3>1. \A m \in DOMAIN kalmans : kalmans[m].birth \in Nat /\ kalmans[m].id \in Nat
      <4>1. kalmans \in Seq(KalmanTracks) BY DEF TrackerInvariant
      <4>2. \A m \in DOMAIN kalmans : kalmans[m] \in KalmanTracks BY <4>1
      <4> QED BY <4>2 DEF KalmanTracks
    <3>2. SameOrApart(CycleOf(kalmans[i]), CycleOf(kalmans[j])) BY Zenon DEF TrackerInvariant
    <3> DEFINE b == kalmans[i].birth
               c == kalmans[j].birth
               x == kalmans[i].id
    <3>3. /\ b \in Nat /\ c \in Nat /\ x \in Nat /\ b < c BY <2>1, <3>1
    <3>4. SameOrApart(b - x - 1, c - x - 1) BY <2>1, <3>2, Zenon DEF CycleOf
    <3> HIDE DEF b, c, x
    <3>5. c - b > CycleThreshold BY <3>3, <3>4, TrackerLimits, SMT DEF SameOrApart
    <3> QED BY <3>5 DEF b, c
  <2>2. \A j \in DOMAIN fed : fed[j] = 1 BY DEF TrackerInvariant
  <2> QED BY <2>1, <2>2, Zenon DEF OneTrackPerObject
<1> QED BY <1>1, TrackerInvariantHolds, PTL

(***************************************************************************)
(* After the first min_hits_ calls a track is reported only if each of the *)
(* last min_hits_ calls updated it: predict takes the streak of a track    *)
(* that was missed, whatever hit_streak counted before.                    *)
(***************************************************************************)
THEOREM ReportedAreSteady == TrackerSpec => []ReportedIsSteady
<1>1. TrackerInvariant => ReportedIsSteady BY DEF TrackerInvariant
<1> QED BY <1>1, TrackerInvariantHolds, PTL

-----------------------------------------------------------------------------
(***************************************************************************)
(* Multiplication by a number that is not negative keeps the order.        *)
(***************************************************************************)
LEMMA ScaledOrder ==
  ASSUME NEW a \in Int, NEW b \in Int, NEW c \in Int, a <= b, c >= 0
  PROVE  c * a <= c * b
OBVIOUS

(***************************************************************************)
(* What the division of integers means.                                    *)
(***************************************************************************)
LEMMA Quotient ==
  ASSUME NEW a \in Int, NEW b \in Nat \ {0}
  PROVE  a \div b \in Int /\ b * (a \div b) <= a /\ a < b * ((a \div b) + 1)
OBVIOUS

(***************************************************************************)
(* A rounded fraction is at most half away from it.                        *)
(***************************************************************************)
LEMMA RoundedFacts ==
  ASSUME NEW n \in Int, NEW d \in Nat \ {0}
  PROVE  /\ Rounded(<<n, d>>) \in Int
         /\ (2 * d) * Rounded(<<n, d>>) <= 2 * n + d
         /\ 2 * n + d < (2 * d) * (Rounded(<<n, d>>) + 1)
<1>1. Rounded(<<n, d>>) = (2 * n + d) \div (2 * d) BY DEF Rounded
<1>2. 2 * n + d \in Int /\ 2 * d \in Nat \ {0} OBVIOUS
<1> QED BY <1>1, <1>2, Quotient

(***************************************************************************)
(* A fraction between 0 and a whole number is rounded to a number between  *)
(* them.                                                                   *)
(***************************************************************************)
LEMMA RoundedBetween ==
  ASSUME NEW n \in Nat, NEW d \in Nat \ {0}, NEW t \in Nat, n <= t * d
  PROVE  Rounded(<<n, d>>) \in 0..t
<1> DEFINE q == Rounded(<<n, d>>)
<1>1. q \in Int /\ (2 * d) * q <= 2 * n + d /\ 2 * n + d < (2 * d) * (q + 1)
  BY RoundedFacts
<1> HIDE DEF q
<1>2. q >= 0
  <2> SUFFICES ASSUME q + 1 <= 0 PROVE FALSE BY <1>1
  <2>1. (2 * d) * (q + 1) <= (2 * d) * 0 BY <1>1, ScaledOrder
  <2> QED BY <1>1, <2>1
<1>3. q <= t
  <2> SUFFICES ASSUME t + 1 <= q PROVE FALSE BY <1>1
  <2>1. (2 * d) * (t + 1) <= (2 * d) * q BY <1>1, ScaledOrder
  <2> DEFINE td == t * d
  <2>2. (2 * d) * (t + 1) = 2 * td + 2 * d /\ td \in Int BY SMT
  <2>3. n <= td OBVIOUS
  <2> HIDE DEF td
  <2> QED BY <1>1, <2>1, <2>2, <2>3
<1> QED BY <1>1, <1>2, <1>3 DEF q

(***************************************************************************)
(* The sizes of frames and pictures.                                       *)
(***************************************************************************)
Sizes == [Axes -> Nat \ {0}]

(***************************************************************************)
(* The scale is the smaller of the two reductions, so neither side of the  *)
(* scaled frame is longer than that of the picture.                        *)
(***************************************************************************)
LEMMA ScaleFits ==
  ASSUME NEW src \in Sizes, NEW target \in Sizes, NEW a \in Axes
  PROVE  scale_size(src, target)[a] \in 0..target[a]
<1> DEFINE f == scale_factor(src, target)
<1>0. "x" \in Axes /\ "y" \in Axes BY DEF Axes
<1>1. /\ src[a] \in Nat \ {0} /\ target[a] \in Nat \ {0}
      /\ src["x"] \in Nat \ {0} /\ src["y"] \in Nat \ {0}
      /\ target["x"] \in Nat \ {0} /\ target["y"] \in Nat \ {0}
  BY <1>0 DEF Sizes
<1>2. f[1] \in Nat /\ f[2] \in Nat \ {0} /\ src[a] * f[1] <= target[a] * f[2]
  <2>1. CASE Unscaled(src, target)
    <3>1. f[1] = 1 /\ f[2] = 1 BY <2>1 DEF scale_factor, Frac
    <3>2. src[a] = target[a] BY <2>1 DEF Unscaled
    <3> QED BY <1>1, <3>1, <3>2
  <2>2. CASE ~Unscaled(src, target)
    <3> DEFINE p == <<target["x"], src["x"]>>
               q == <<target["y"], src["y"]>>
    <3>1. f = IF LessEq(p, q) THEN p ELSE q BY <2>2 DEF scale_factor, Lesser
    <3>2. LessEq(p, q) <=> target["x"] * src["y"] <= target["y"] * src["x"] BY DEF LessEq
    <3>3. CASE LessEq(p, q)
      <4>1. f[1] = target["x"] /\ f[2] = src["x"] BY <3>1, <3>3
      <4>2. CASE a = "x" BY <1>1, <4>1, <4>2
      <4>3. CASE a = "y" BY <1>1, <3>2, <3>3, <4>1, <4>3
      <4> QED BY <4>2, <4>3 DEF Axes
    <3>4. CASE ~LessEq(p, q)
      <4>1. f[1] = target["y"] /\ f[2] = src["y"] BY <3>1, <3>4
      <4>2. CASE a = "y" BY <1>1, <4>1, <4>2
      <4>3. CASE a = "x" BY <1>1, <3>2, <3>4, <4>1, <4>3
      <4> QED BY <4>2, <4>3 DEF Axes
    <3> QED BY <3>3, <3>4
  <2> QED BY <2>1, <2>2
<1>3. scale_size(src, target)[a] = Rounded(<<src[a] * f[1], f[2]>>) BY DEF scale_size
<1> DEFINE n == src[a] * f[1]
           d == f[2]
           t == target[a]
<1>4. n \in Nat /\ d \in Nat \ {0} /\ t \in Nat /\ n <= t * d BY <1>1, <1>2
<1> HIDE DEF n, d, t
<1>5. Rounded(<<n, d>>) \in 0..t BY <1>4, RoundedBetween
<1> QED BY <1>3, <1>5 DEF n, d, t

(***************************************************************************)
(* The two halves of the padding, of which the nudge of a tenth gives the  *)
(* odd pixel to the second, together are all of it.                        *)
(***************************************************************************)
LEMMA HalvesFill ==
  ASSUME NEW rest \in Nat
  PROVE  /\ Rounded(<<5 * rest - 1, 10>>) \in Nat /\ Rounded(<<5 * rest + 1, 10>>) \in Nat
         /\ Rounded(<<5 * rest - 1, 10>>) + Rounded(<<5 * rest + 1, 10>>) = rest
<1>1. Rounded(<<5 * rest - 1, 10>>) = (10 * rest + 8) \div 20
  BY DEF Rounded
<1>2. Rounded(<<5 * rest + 1, 10>>) = (10 * rest + 12) \div 20
  BY DEF Rounded
<1> QED BY <1>1, <1>2

(***************************************************************************)
(* The scaled frame and its paddings fill the picture, for all sizes of    *)
(* both: FrameFormattingContext::Update leaves no column or row unwritten, *)
(* and the part that is written is inside the picture.                     *)
(***************************************************************************)
THEOREM LetterboxAlwaysFills ==
  ASSUME NEW src \in Sizes, NEW target \in Sizes
  PROVE  LetterboxFills(src, target)
<1> SUFFICES ASSUME NEW a \in Axes
             PROVE  /\ PadBefore(src, target)[a] >= 0 /\ PadAfter(src, target)[a] >= 0
                    /\ PadBefore(src, target)[a] + scale_size(src, target)[a]
                         + PadAfter(src, target)[a] = target[a]
  BY DEF LetterboxFills
<1> DEFINE s == scale_size(src, target)[a]
           rest == TotalPad(src, target, a)
<1>1. target[a] \in Nat /\ s \in 0..target[a] BY ScaleFits DEF Sizes
<1>2. rest = target[a] - s BY DEF TotalPad
<1>3. /\ PadBefore(src, target)[a] = Rounded(<<5 * rest - 1, 10>>)
      /\ PadAfter(src, target)[a] = Rounded(<<5 * rest + 1, 10>>)
  BY DEF PadBefore, PadAfter
<1> HIDE DEF s, rest
<1>4. rest \in Nat BY <1>1, <1>2
<1>5. /\ Rounded(<<5 * rest - 1, 10>>) \in Nat /\ Rounded(<<5 * rest + 1, 10>>) \in Nat
      /\ Rounded(<<5 * rest - 1, 10>>) + Rounded(<<5 * rest + 1, 10>>) = rest
  BY <1>4, HalvesFill
<1> QED BY <1>1, <1>2, <1>3, <1>5 DEF s

-----------------------------------------------------------------------------
(***************************************************************************)
(* The threshold of qnt_f32_to_affine loses no confidence that reaches the *)
(* real one and admits none a quantum below it, for every zero point and   *)
(* every threshold that int8 can hold.                                     *)
(***************************************************************************)
THEOREM ThresholdAlwaysAgrees == ThresholdAgrees
<1> DEFINE n == ThresholdNum + ZeroPoint * ThresholdDen
           d == ThresholdDen
<1>1. d \in Nat \ {0} /\ n \in Int /\ ThresholdNum = n - ZeroPoint * d /\ ZeroPoint \in Int
  BY OutputAssumption
<1> SUFFICES ASSUME n \in (-128 * d)..(127 * d), NEW q \in -128..127
             PROVE  /\ (q - ZeroPoint) * d >= ThresholdNum => q >= thres_i8
                    /\ q >= thres_i8 => (q - ZeroPoint + 1) * d > ThresholdNum
  BY DEF ThresholdAgrees
<1>2. thres_i8 = clip_value(n, d) BY DEF thres_i8, qnt_f32_to_affine
<1>3. /\ (q - ZeroPoint) * d >= ThresholdNum <=> q * d >= n
      /\ (q - ZeroPoint + 1) * d > ThresholdNum <=> (q + 1) * d > n
  BY <1>1
<1> HIDE DEF n, d
<1>4. /\ q * d >= n => q >= clip_value(n, d)
      /\ q >= clip_value(n, d) => (q + 1) * d > n
  BY <1>1 DEF clip_value, Truncated
<1> QED BY <1>2, <1>3, <1>4
=============================================================================
