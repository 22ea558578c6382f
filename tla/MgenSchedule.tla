---------------------------- MODULE MgenSchedule ----------------------------
(***************************************************************************)
(* When a schedule is active (Schedule::Check): not on a black-listed      *)
(* date, on a day of its week, and within its range of minutes.  A date is *)
(* a number, day 0 of the week is date 0, a minute is one of the day.      *)
(***************************************************************************)
EXTENDS Integers, FiniteSets

CONSTANTS DayMinutes, \* MIN_ABOUT_1_DAY
          WeekDays    \* DAY_ABOUT_1_WEEK

ASSUME CalendarAssumption == DayMinutes \in Nat \ {0} /\ WeekDays \in Nat \ {0}

IsWithinBlackList(black_list, date) == date \in black_list

(***************************************************************************)
(* weekly has one entry per day of the week, or the schedule is invalid.   *)
(***************************************************************************)
IsWithinWeeklyDay(weekly, date) ==
    /\ DOMAIN weekly = 0..WeekDays - 1
    /\ weekly[date % WeekDays]

(***************************************************************************)
(* start is a minute of the day, negative when it could not be parsed.     *)
(* The minutes of the difference count from 1 to DayMinutes.               *)
(***************************************************************************)
IsWithinTimeRange(start, range, minute) ==
    \/ range >= DayMinutes
    \/ /\ start >= 0
       /\ LET diff == minute - start
          IN  (IF diff > 0 THEN diff ELSE diff + DayMinutes) <= range

IsActive(sch, date, minute) ==
    /\ ~IsWithinBlackList(sch.black_list, date)
    /\ IsWithinWeeklyDay(sch.weekly, date)
    /\ IsWithinTimeRange(sch.start, sch.range, minute)

(***************************************************************************)
(* The minutes in which the clock says the schedule is on, without         *)
(* arithmetic on differences: the range minutes after the start, the       *)
(* minute of the start left out, the last one included.                    *)
(***************************************************************************)
ActiveMinutes(start, range) == {(start + k) % DayMinutes : k \in 1..range}
=============================================================================
