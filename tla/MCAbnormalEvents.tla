-------------------------- MODULE MCAbnormalEvents --------------------------
(***************************************************************************)
(* Objects move between two sides of a line, on the line, past its end,    *)
(* and in an excluded region; the region of interest is the left side.     *)
(* The pure definitions are compared with their references on all small    *)
(* inputs: segments and triangles of a 3 x 3 grid, and every start, range  *)
(* and minute of a day of six minutes.                                     *)
(***************************************************************************)
EXTENDS AbnormalEvents, MgenSchedule

MCOneWay  == <<<<Point(2, 0), Point(2, 2)>>>>
MCTwoWay  == <<<<Point(2, 2), Point(4, 2)>>>>
MCRois    == <<<<Point(0, 0), Point(2, 0), Point(2, 4), Point(0, 4)>>>>
MCExclude == <<<<Point(4, 0), Point(6, 0), Point(6, 2), Point(4, 2)>>>>

Left     == Point(1, 1)
Right    == Point(3, 1)
OnLine   == Point(2, 1)
PastEnd  == Point(3, 3)
Excluded == Point(5, 1)

MCPositions == {Left, Right, OnLine, PastEnd, Excluded}

Grid == {Point(x, y) : x \in 0..2, y \in 0..2}

ASSUME LineIntersectAgrees ==
    \A p1, q1, p2, q2 \in Grid :
      (checkLineIntersect(p1, q1, p2, q2) # "NotCrossed") <=> SegmentsMeet(p1, q1, p2, q2)

ASSUME IncludePointAgrees ==
    \A a, b, c, pt \in Grid :
      /\ StrictlyInside(pt, a, b, c) => isIncludePoint(pt, <<a, b, c>>)
      /\ (Cross(a, b, c) # 0 /\ StrictlyOutside(pt, a, b, c)) => ~isIncludePoint(pt, <<a, b, c>>)

ASSUME TimeRangeAgrees ==
    \A start, minute \in 0..DayMinutes - 1 : \A range \in 0..DayMinutes + 1 :
      IsWithinTimeRange(start, range, minute) <=> minute \in ActiveMinutes(start, range)
=============================================================================
