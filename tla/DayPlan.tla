------------------------------ MODULE DayPlan ------------------------------
(***************************************************************************)
(* The pure part of day_plan_biz.py: which rules apply on a work date, the *)
(* time window whose punches belong to that date, and the work date of a   *)
(* punch.  No state and no recursion, so that every module above it can be *)
(* proved about.                                                           *)
(*                                                                         *)
(* A date is an integer (days), a datetime an integer (time units): the    *)
(* first instant of date d is d * DayLength.  A shift snapshot is a record *)
(*   [start, end, before, after, ...]                                      *)
(* whose four fields are start_time / end_time (offsets in the day) and    *)
(* checkin_window_before / checkout_window_after.  A plan maps each date   *)
(* to its snapshot, or to NoShift where DayPlan.snapshot is None.          *)
(***************************************************************************)
EXTENDS Integers

CONSTANTS DayLength,  \* time units in a day (1440 minutes in the program)
          Shifts,     \* the shift snapshots in use
          NoShift     \* "no shift applies": snapshot is None

\* What ShiftSerializer accepts: times within the day, windows that only
\* widen the shift.
ASSUME DayLengthAssumption == DayLength \in Nat \ {0}
ASSUME ShiftsAssumption ==
  \A s \in Shifts : /\ s.start \in 0 .. DayLength - 1
                    /\ s.end \in 0 .. DayLength - 1
                    /\ s.before \in Nat
                    /\ s.after \in Nat
ASSUME NoShiftAssumption == NoShift \notin Shifts

Snapshots == Shifts \cup {NoShift}

Midnight(d) == d * DayLength
DateOf(t)   == t \div DayLength

----------------------------------------------------------------------------
\* shift_times_on: the end rolls to the next day for an overnight shift.
IsOvernight(s) == s.end <= s.start
StartDt(s, d)  == Midnight(d) + s.start
EndDt(s, d)    == Midnight(IF IsOvernight(s) THEN d + 1 ELSE d) + s.end

\* DayPlanBL.plan: [window_start, window_end) of a date; the calendar day
\* where there is no shift.
WindowStart(s, d) == IF s = NoShift THEN Midnight(d) ELSE StartDt(s, d) - s.before
WindowEnd(s, d)   == IF s = NoShift THEN Midnight(d + 1) ELSE EndDt(s, d) + s.after

\* Mutant: the windows of the neighbours win over the date's own.
WorkDateGreedy(plan, t) ==
  LET day == DateOf(t)
  IN  IF t < WindowEnd(plan[day - 1], day - 1) THEN day - 1
      ELSE IF t >= WindowStart(plan[day + 1], day + 1) THEN day + 1
      ELSE day

\* DayPlanBL.work_date_for: yesterday's while yesterday's window is open and
\* today's is not yet, tomorrow's once tomorrow's is open and today's is over,
\* the calendar date otherwise.
WorkDateFor(plan, t) ==
  LET day == DateOf(t)
  IN  IF t < WindowEnd(plan[day - 1], day - 1) /\ t < WindowStart(plan[day], day)
      THEN day - 1
      ELSE IF t >= WindowStart(plan[day + 1], day + 1) /\ t >= WindowEnd(plan[day], day)
           THEN day + 1
           ELSE day
=============================================================================
