-------------------------- MODULE AbnormalActions --------------------------
(***************************************************************************)
(* One schedule of a camera and the checker its event code selects, as the *)
(* event thread calls Schedule::Check for each frame with tracked objects. *)
(* A frame gives the centre of each object of the event's class by its     *)
(* track id, and the ids of objects of another class: each class has its   *)
(* own tracker, so the same id may name a person and a car.                *)
(*                                                                         *)
(* Time is in seconds and is one clock for the steady clock of the         *)
(* histories and the system clock of the events.  Each event code uses one *)
(* of the three histories of a schedule, so there is one variable.         *)
(***************************************************************************)
EXTENDS GeometricLogic, Functions

CONSTANTS Tracks,       \* track ids
          Positions,    \* bound: centres of objects
          Events,       \* event codes of this instance
          Rois,         \* cv_rois
          ExcludeRois,  \* cv_exclude_rois
          TwoWay,       \* cv_two_way_rois
          OneWay,       \* cv_one_way_rois
          Interval,     \* notification_min_interval_sec
          Require,      \* loitering_require_dur_sec
          ReleaseShort, \* DEFAULT_EVENT_FRAME_RELEASE_S_SEC
          ReleaseLong,  \* DEFAULT_EVENT_FRAME_RELEASE_L_SEC
          HistMax,      \* DATA_LAYER_HIST_MAX
          MinTracking,  \* REQUIRE_MIN_TRACKING_COUNT
          MaxStep,      \* bound: seconds from one frame to the next
          MaxTime       \* bound: seconds

EventCodes == {"LineIntrusion", "AreaIntrusion", "VehicleIntrusion", "VehicleParking"}

ASSUME EventsAssumption == Events \subseteq EventCodes
ASSUME LimitsAssumption ==
    /\ {Interval, Require, ReleaseShort, ReleaseLong, MaxTime} \subseteq Nat
    /\ {HistMax, MinTracking, MaxStep} \subseteq Nat \ {0}
ASSUME PointsAssumption ==
    /\ Positions \subseteq Points
    /\ {Rois, ExcludeRois, TwoWay, OneWay} \subseteq Seq(Seq(Points))
\* Impl_ScheduleSettingData_UpdateFromJsonArray leaves out a region or line without points
ASSUME RoisAssumption ==
    \A rois \in {Rois, ExcludeRois, TwoWay, OneWay} : \A i \in DOMAIN rois : rois[i] # <<>>

VARIABLES event,            \* sch_info.event_code, fixed
          now,
          history,          \* history_map: by track id, data and the time of the release clock
          last_active_time,
          results           \* what the last Check returned: track ids and directions

scheduleVars == <<event, now, history, last_active_time, results>>

-----------------------------------------------------------------------------
(***************************************************************************)
(* HistoryChecker, at a given time.                                        *)
(***************************************************************************)
Release == IF event = "VehicleParking" THEN ReleaseLong ELSE ReleaseShort

CreateHistory(time, empty) == [data |-> empty, since |-> time]

HastyGetHistory(h, t, time, empty) ==
    IF t \in DOMAIN h /\ time - h[t].since <= Release \div 4 THEN h[t]
    ELSE CreateHistory(time, empty)

GetHistory(h, t, time, empty) ==
    IF t \in DOMAIN h /\ time - h[t].since <= Release
    THEN h[t]
    ELSE CreateHistory(time, empty)

StickyRelease(h, present, time) ==
    [t \in DOMAIN h |-> IF t \in present THEN [h[t] EXCEPT !.since = time] ELSE h[t]]

ReleaseInactiveHistory(h, present, time) ==
    [t \in {x \in DOMAIN h : time - h[x].since < Release} |->
       IF t \in present THEN [h[t] EXCEPT !.since = time] ELSE h[t]]

(***************************************************************************)
(* Schedule: the minimal interval between events, and the regions.         *)
(***************************************************************************)
GetEnoughEventInterval(time) == time - last_active_time > Interval

InSomeRoi(pt, rois) == \E i \in DOMAIN rois : isIncludePoint(pt, rois[i])

(***************************************************************************)
(* calcLineCross: the first step, of the first line, that meets it.  The   *)
(* code needs a point in every line and every history (RoisAssumption; the *)
(* caller asks for MinTracking points): size() - 1 is unsigned, and at()   *)
(* throws in a noexcept function.                                          *)
(***************************************************************************)
Meetings(points, rois) ==
    {m \in UNION {{i} \X (1..Len(rois[i]) - 1) \X (1..Len(points) - 1) : i \in DOMAIN rois} :
       checkLineIntersect(points[m[3]], points[m[3] + 1],
                          rois[m[1]][m[2]], rois[m[1]][m[2] + 1]) # "NotCrossed"}

Before(m, n) == \/ m[1] < n[1]
                \/ m[1] = n[1] /\ (m[2] < n[2] \/ (m[2] = n[2] /\ m[3] <= n[3]))

calcLineCross(points, rois) ==
    IF Meetings(points, rois) = {} THEN "NotCrossed"
    ELSE LET m == CHOOSE x \in Meetings(points, rois) :
                    \A y \in Meetings(points, rois) : Before(x, y)
         IN  checkLineIntersect(points[m[3]], points[m[3] + 1],
                                rois[m[1]][m[2]], rois[m[1]][m[2] + 1])

LineDirection(points) ==
    IF calcLineCross(points, OneWay) = "Clockwise" THEN "Clockwise"
    ELSE calcLineCross(points, TwoWay)

(***************************************************************************)
(* What a checker does with one object: its new history, and the           *)
(* directions it reports (none, or one).                                   *)
(***************************************************************************)
LineIntrusionBase(h, t, pt, time) ==
    LET old    == GetHistory(h, t, time, <<>>)
        pushed == Append(old.data, pt)
        points == IF Len(pushed) > HistMax THEN <<>> ELSE pushed
    IN  [entry  |-> [old EXCEPT !.data = points],
         report |-> IF Len(points) >= MinTracking /\ GetEnoughEventInterval(time)
                    THEN {LineDirection(points)} \ {"NotCrossed"} ELSE {}]

IntrusionZone(h, t, pt, time) ==
    LET old        == GetHistory(h, t, time, FALSE)
        inside     == InSomeRoi(pt, Rois)
        continuous == old.data \/ ~inside
    IN  [entry  |-> [old EXCEPT !.data = continuous],
         report |-> IF GetEnoughEventInterval(time) /\ continuous /\ inside
                    THEN {"Inside"} ELSE {}]

(***************************************************************************)
(* The parking history: the number of entries, and the time of the first.  *)
(***************************************************************************)
VehicleParking(h, t, pt, time) ==
    LET old    == GetHistory(h, t, time, [size |-> 0, first |-> 0])
        inside == InSomeRoi(pt, Rois)
        size   == IF old.data.size + 1 > HistMax THEN 1 ELSE old.data.size + 1
        first  == IF old.data.size = 0 THEN time ELSE old.data.first
    IN  [entry  |-> IF inside THEN [old EXCEPT !.data = [size |-> size, first |-> first]] ELSE old,
         report |-> IF /\ inside /\ size >= MinTracking
                       /\ time - first > Require /\ GetEnoughEventInterval(time)
                    THEN {"Inside"} ELSE {}]

Checker(h, t, pt, time) ==
    CASE event \in {"LineIntrusion", "VehicleIntrusion"} -> LineIntrusionBase(h, t, pt, time)
      [] event = "AreaIntrusion"                         -> IntrusionZone(h, t, pt, time)
      [] event = "VehicleParking"                        -> VehicleParking(h, t, pt, time)

(***************************************************************************)
(* The checker on a whole frame.  The parking checker releases nothing.    *)
(* Objects in an excluded region are left out before they get a history.   *)
(***************************************************************************)
Considered(objects) == {t \in DOMAIN objects : ~InSomeRoi(objects[t], ExcludeRois)}

Released(objects, others, time) ==
    IF event = "VehicleParking" THEN history
    ELSE ReleaseInactiveHistory(history, DOMAIN objects \cup others, time)

RunChecker(objects, others, time) ==
    LET h     == Released(objects, others, time)
        after == [t \in Considered(objects) |-> Checker(h, t, objects[t], time)]
    IN  /\ history' = [t \in DOMAIN h \cup DOMAIN after |->
                         IF t \in DOMAIN after THEN after[t].entry ELSE h[t]]
        /\ results' = UNION {{t} \X after[t].report : t \in DOMAIN after}

StaleActivateTime(time) == UNCHANGED last_active_time

UpdateEventActivateTime(time) ==
    last_active_time' = IF results' = {} THEN last_active_time ELSE time

ScheduleInit == /\ event \in Events
                /\ now = 0 /\ last_active_time = 0
                /\ history = <<>> /\ results = {}

(***************************************************************************)
(* Check in the active time of the schedule (MgenSchedule), and outside.   *)
(***************************************************************************)
CheckActive(objects, others, time) ==
    /\ RunChecker(objects, others, time)
    /\ UpdateEventActivateTime(time)
    /\ now' = time
    /\ UNCHANGED event

CheckInactive(time) ==
    /\ results' = {}
    /\ now' = time
    /\ UNCHANGED <<event, history, last_active_time>>
=============================================================================
