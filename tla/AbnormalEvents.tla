--------------------------- MODULE AbnormalEvents ---------------------------
(***************************************************************************)
(* AbnormalActions with a record of what the objects really did, kept      *)
(* without the histories, buffers and release clocks of the code, and the  *)
(* properties that compare the events with it.                             *)
(***************************************************************************)
EXTENDS AbnormalActions

VARIABLES seen,    \* when an object with the id was last in a frame the schedule looked at
          at,      \* last considered position, none or one, in the present appearance
          wasOut,  \* ids that were outside every region in the present appearance
          crossed, \* ids that crossed a line the way it forbids in the present appearance
          entries, \* when each id was inside a region, in the last Release seconds
          parked,  \* since when each id has been inside without a break or an event: none or one
          reported \* time of the last event

truthVars == <<seen, at, wasOut, crossed, entries, parked, reported>>
vars == <<scheduleVars, truthVars>>

Init == /\ ScheduleInit
        /\ seen = [t \in Tracks |-> 0]
        /\ at = [t \in Tracks |-> {}]
        /\ wasOut = {} /\ crossed = {}
        /\ entries = [t \in Tracks |-> {}]
        /\ parked = [t \in Tracks |-> {}]
        /\ reported = 0

(***************************************************************************)
(* A step from p to q crosses a line: it meets a segment of a two-way      *)
(* line, or it passes from elsewhere to the forbidden side of a one-way    *)
(* line.                                                                   *)
(***************************************************************************)
Segments(rois) == UNION {{<<rois[i][l], rois[i][l + 1]>> : l \in 1..Len(rois[i]) - 1} :
                           i \in DOMAIN rois}

Crosses(p, q) ==
    \/ \E s \in Segments(TwoWay) : SegmentsMeet(p, q, s[1], s[2])
    \/ \E s \in Segments(OneWay) : /\ SegmentsMeet(p, q, s[1], s[2])
                                   /\ Cross(s[1], s[2], p) >= 0 /\ Cross(s[1], s[2], q) < 0

(***************************************************************************)
(* An appearance ends when the id is not seen for the release time.        *)
(***************************************************************************)
Observe(objects, others, time) ==
    LET present   == DOMAIN objects \cup others
        vanished  == {t \in Tracks : time - seen[t] >= Release}
        used      == Considered(objects)
        inside    == {t \in used : InSomeRoi(objects[t], Rois)}
    IN  /\ seen' = [t \in Tracks |-> IF t \in present THEN time ELSE seen[t]]
        /\ at' = [t \in Tracks |-> IF t \in used THEN {objects[t]}
                                   ELSE IF t \in vanished THEN {} ELSE at[t]]
        /\ wasOut' = (wasOut \ vanished) \cup (used \ inside)
        /\ crossed' = (crossed \ vanished)
                        \cup {t \in used \ vanished : \E p \in at[t] : Crosses(p, objects[t])}
        /\ entries' = [t \in Tracks |-> {s \in entries[t] : time - s <= Release}
                                          \cup (IF t \in inside THEN {time} ELSE {})]
        /\ parked' = [t \in Tracks |->
                        IF t \notin inside THEN {}
                        ELSE IF parked[t] = {} \/ results' # {} THEN {time} ELSE parked[t]]
        /\ reported' = IF results' = {} THEN reported ELSE time

Frame(objects, others, step) ==
    /\ now + step <= MaxTime
    /\ CheckActive(objects, others, now + step)
    /\ Observe(objects, others, now + step)

FrameOutOfSchedule(step) ==
    /\ now + step <= MaxTime
    /\ CheckInactive(now + step)
    /\ parked' = [t \in Tracks |-> {}]
    /\ UNCHANGED <<seen, at, wasOut, crossed, entries, reported>>

Layers == UNION {[S -> Positions] : S \in SUBSET Tracks}

Done == now + MaxStep > MaxTime /\ UNCHANGED vars

Next == \/ \E step \in 1..MaxStep :
             \/ \E objects \in Layers, others \in SUBSET Tracks : Frame(objects, others, step)
             \/ FrameOutOfSchedule(step)
        \/ Done

Spec == Init /\ [][Next]_vars

-----------------------------------------------------------------------------
(***************************************************************************)
(* Every event is real: a line event is about an object that crossed a     *)
(* line the way it forbids in its present appearance, an area event about  *)
(* one that is inside and was outside before, a parking event about one    *)
(* that was inside longer ago than the required time, though not longer    *)
(* than the release time.                                                  *)
(***************************************************************************)
EventsAreReal ==
    \A r \in results :
      CASE event \in {"LineIntrusion", "VehicleIntrusion"} -> r[1] \in crossed
        [] event = "AreaIntrusion" -> r[1] \in wasOut /\ now \in entries[r[1]]
        [] event = "VehicleParking" ->
             /\ now \in entries[r[1]]
             /\ \E s \in entries[r[1]] : now - s > Require

(***************************************************************************)
(* The events of a schedule, of whatever objects, are further apart than   *)
(* the interval of the notifications.                                      *)
(***************************************************************************)
EventsKeepInterval == [][reported' # reported => reported' - reported > Interval]_vars

(***************************************************************************)
(* README, VehicleParking: a vehicle that stays in the region longer than  *)
(* the given time is an event.  A vehicle in every frame waits for that    *)
(* time, or for the interval between events, and for the frames it takes   *)
(* to be counted; and once more for the required time and the frames when  *)
(* its history is released meanwhile.                                      *)
(***************************************************************************)
StayIsReported ==
    event = "VehicleParking" =>
      \A t \in Tracks : \A s \in parked[t] :
        now - s <= Require + Max({Require, Interval}) + (2 * MinTracking - 1) * MaxStep
=============================================================================
