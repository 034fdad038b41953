------------------------ MODULE MCAttendanceEngine ------------------------
(***************************************************************************)
(* Small instances of AttendanceEngine.  The day has four slots of six     *)
(* hours.  p1 and s1 are punched by day 1's daylight, p2 and the manual m1   *)
(* early on day 1: under the night shift those belong to the day before.   *)
(* p3 is punched late on day 1: under the dawn shift, whose window opens   *)
(* before midnight, it belongs to the day after.                           *)
(***************************************************************************)
EXTENDS AttendanceEngine, TLC

CONSTANTS p1, p2, p3, m1, s1

MCDayLength == 4
MCTime == [p \in Punches |-> CASE p = p1 -> 5 [] p = p2 -> 4 [] p = p3 -> 7
                               [] p = m1 -> 4 [] p = s1 -> 6]
DayShift   == [start |-> 1, end |-> 3, before |-> 0, after |-> 0]
NightShift == [start |-> 3, end |-> 1, before |-> 1, after |-> 0]
DawnShift  == [start |-> 0, end |-> 2, before |-> 1, after |-> 0]
MCShifts == {DayShift, NightShift, DawnShift}

All(s)    == [d \in Dates |-> s]
OneDawn   == {All(DawnShift)}

NightNone == {All(NightShift), All(NoShift)}

None      == {}
OneDay    == {<<1, 1, FALSE>>}
Refresh   == {<<1, 1, FALSE>>, <<1, 1, TRUE>>}
Identical == Permutations(Web)
=============================================================================
