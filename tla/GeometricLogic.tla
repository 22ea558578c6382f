--------------------------- MODULE GeometricLogic ---------------------------
(***************************************************************************)
(* GeometricLogic.cpp on integer points (cv::Point, the centre of a box).  *)
(* A polygon and a polyline are sequences of points.                       *)
(***************************************************************************)
EXTENDS Integers, Sequences, FiniteSetsExt

Point(x, y) == [x |-> x, y |-> y]
Points == [x : Int, y : Int]

(***************************************************************************)
(* The horizontal ray from pt to the right crosses the edge from a to b:   *)
(* pt.x < atX, where atX is the quotient of the code, without a division.  *)
(***************************************************************************)
RayCrosses(pt, a, b) ==
    /\ (a.y > pt.y) # (b.y > pt.y)
    /\ LET run  == (b.x - a.x) * (pt.y - a.y)
           rise == (pt.x - a.x) * (b.y - a.y)
       IN  IF b.y > a.y THEN rise < run ELSE rise > run

isIncludePoint(pt, p) ==
    \/ \E i \in DOMAIN p : p[i] = pt
    \/ Cardinality({i \in DOMAIN p : RayCrosses(pt, p[i], p[(i % Len(p)) + 1])}) % 2 > 0

(***************************************************************************)
(* q lies in the rectangle spanned by p and r.                             *)
(***************************************************************************)
onLineSegment(p, q, r) == /\ q.x <= Max({p.x, r.x}) /\ q.x >= Min({p.x, r.x})
                          /\ q.y <= Max({p.y, r.y}) /\ q.y >= Min({p.y, r.y})

LineOrientations == {"NotCrossed", "OnLine", "Clockwise", "CounterClockwise"}

lineOrientation(p, q, r) ==
    LET val == (q.y - p.y) * (r.x - q.x) - (q.x - p.x) * (r.y - q.y)
    IN  IF val = 0 THEN "OnLine" ELSE IF val > 0 THEN "Clockwise" ELSE "CounterClockwise"

(***************************************************************************)
(* Whether the step from p1 to q1 meets the line from p2 to q2, and on     *)
(* which side of the line it ends.                                         *)
(***************************************************************************)
checkLineIntersect(p1, q1, p2, q2) ==
    LET o1 == lineOrientation(p1, q1, p2)
        o2 == lineOrientation(p1, q1, q2)
        o3 == lineOrientation(p2, q2, p1)
        o4 == lineOrientation(p2, q2, q1)
    IN  IF o1 # o2 /\ o3 # o4 THEN o4
        ELSE IF \/ o1 = "OnLine" /\ onLineSegment(p1, p2, q1)
                \/ o2 = "OnLine" /\ onLineSegment(p1, q2, q1)
                \/ o3 = "OnLine" /\ onLineSegment(p2, p1, q2)
                \/ o4 = "OnLine" /\ onLineSegment(p2, q1, q2)
        THEN "OnLine" ELSE "NotCrossed"

(***************************************************************************)
(* Definitions that do not follow the code, to compare it with.  A point   *)
(* is inside a triangle when it lies on the same side of its three edges.  *)
(* Two segments meet when the equation of their lines has a solution with  *)
(* both parameters from 0 to 1 (Cramer's rule), or, when they are          *)
(* parallel, when an end of one of them lies on the other.                 *)
(***************************************************************************)
Cross(a, b, c) == (b.x - a.x) * (c.y - a.y) - (b.y - a.y) * (c.x - a.x)

StrictlyInside(pt, a, b, c) ==
    LET s == {Cross(a, b, pt), Cross(b, c, pt), Cross(c, a, pt)}
    IN  (\A v \in s : v > 0) \/ (\A v \in s : v < 0)

StrictlyOutside(pt, a, b, c) ==
    LET s == {Cross(a, b, pt), Cross(b, c, pt), Cross(c, a, pt)}
    IN  (\E v \in s : v > 0) /\ (\E v \in s : v < 0)

Between(v, det) == IF det > 0 THEN v >= 0 /\ v <= det ELSE v <= 0 /\ v >= det

LiesOn(pt, a, b) == /\ Cross(a, b, pt) = 0
                    /\ pt.x \in Min({a.x, b.x})..Max({a.x, b.x})
                    /\ pt.y \in Min({a.y, b.y})..Max({a.y, b.y})

SegmentsMeet(p1, q1, p2, q2) ==
    LET rx == q1.x - p1.x   ry == q1.y - p1.y
        sx == q2.x - p2.x   sy == q2.y - p2.y
        dx == p2.x - p1.x   dy == p2.y - p1.y
        det == rx * sy - ry * sx
    IN  IF det # 0
        THEN Between(dx * sy - dy * sx, det) /\ Between(dx * ry - dy * rx, det)
        ELSE \/ LiesOn(p2, p1, q1) \/ LiesOn(q2, p1, q1)
             \/ LiesOn(p1, p2, q2) \/ LiesOn(q1, p2, q2)
=============================================================================
