---------------------------- MODULE MCDaySummary ----------------------------
(***************************************************************************)
(* Small instances of DaySummary.  A day has twelve time units, a "minute" *)
(* is two of them (so that intervals do get cut off), and the date followed*)
(* is 2: it begins at 24, its evening job may run from 47 on.              *)
(***************************************************************************)
EXTENDS DaySummary, TLC

MCDayLength == 12
MCDay == 2

Rules(start, end, before, after, break, overtime) ==
  [start |-> start, end |-> end, before |-> before, after |-> after, break |-> break,
   flexible |-> FALSE, graceIn |-> 1, graceOut |-> 0, present |-> 2, half |-> 1,
   expected |-> 2, overtime |-> overtime, minOvertime |-> 1]

OneMinute == [minutes |-> 1, fixed |-> FALSE, start |-> 0, end |-> 0]
FixedHour == [minutes |-> 2, fixed |-> TRUE, start |-> 11, end |-> 1]

\* Windows of a day shift that overlap those of the next day; a night shift with a break
\* after midnight; a shift that ends at noon of the next day, whose window is open at 47 still.
LongDay   == Rules(3, 9, 4, 4, OneMinute, "beyond_expected")
Night     == Rules(10, 2, 1, 4, FixedHour, "after_shift_end")
UntilNoon == Rules(8, 6, 1, 6, OneMinute, "beyond_expected")

MCShifts  == {LongDay, Night, UntilNoon}
Usual     == {[d \in Near |-> LongDay]}
               \cup {[d \in Near |-> IF d < MCDay THEN LongDay ELSE s] : s \in {Night, UntilNoon}}
MCInstants == {24, 26, 29, 33, 34, 35, 36, 37, 39, 47, 48}

MCCalendars == {[type |-> "working", leave |-> "none"], [type |-> "working", leave |-> "half"],
                [type |-> "holiday", leave |-> "none"], [type |-> "working", leave |-> "full"]}
=============================================================================
