----------------------------- MODULE DaySummary -----------------------------
(***************************************************************************)
(* The pure rules of processing_biz.py for one employee and one work date: *)
(* pair_events turns the date's punches into sessions, summarize turns     *)
(* sessions and the day plan into the stored figures and status.  Around   *)
(* them, the life of the daily row: punches that arrive in time or late    *)
(* rebuild it, and the nightly job finalizes it the evening after.         *)
(*                                                                         *)
(* Times are datetimes (seconds in the program); figures are whole minutes,*)
(* cut off interval by interval as _minutes does.                          *)
(***************************************************************************)
EXTENDS DayPlan, SequencesExt

CONSTANTS
  Minute,      \* time units in a minute
  Day,         \* the work date followed
  Rosters,     \* what the dates around it may have: [Near -> Snapshots]
  Calendars,   \* what the calendar and leave records may say: [type, leave]
  Modes,       \* unspecified_punch_mode
  Window,      \* duplicate_punch_window_minutes
  NightlyAt,   \* when in the evening the nightly job runs
  Kinds,       \* the punch types that occur
  NoEvent, NoRow,
  Instants,    \* bound: the instants the clock shows and punches happen at
  MaxPunches   \* bound: punches of the date

\* The dates whose plans the work dates of those instants depend on.
Near == Day - 2 .. Day + 3

ASSUME MinuteAssumption   == Minute \in Nat \ {0} /\ Window \in Nat /\ MaxPunches \in Nat
ASSUME DayAssumption      == Day \in Nat /\ Rosters \subseteq [Near -> Snapshots]
ASSUME ClockAssumption    == /\ NightlyAt \in 0 .. DayLength - 1
                             /\ Instants \subseteq Midnight(Day - 1) .. Midnight(Day + 3) - 1
                             /\ Instants # {}
ASSUME KindsAssumption    == Kinds \subseteq {"IN", "OUT", "UNSPECIFIED"}
ASSUME FiguresAssumption  ==  \* ShiftSerializer
  \A s \in Shifts : /\ s.graceIn \in Nat /\ s.break.minutes \in Nat
                    /\ {s.break.start, s.break.end} \subseteq 0 .. DayLength - 1
ASSUME NoEventAssumption  == NoEvent \notin [time : Instants, kind : Kinds]
ASSUME ModesAssumption    == Modes \subseteq {"first_last", "alternate"}
ASSUME CalendarAssumption ==
  Calendars \subseteq [type : {"working", "weekly_off", "holiday"}, leave : {"none", "half", "full"}]

VARIABLES
  roster, calendar, mode,  \* the rules of this date and company, fixed
  now,
  log,              \* the date's active events, by event_time, then id
  row,              \* the stored daily row
  finalized         \* the nightly job has processed the date

rules == <<roster, calendar, mode>>
vars  == <<rules, now, log, row, finalized>>

Shift == roster[Day]
Span(n) == n * Minute

\* Mutant: every interval rounded up to whole minutes.
MinutesUp(delta) == IF delta < 0 THEN 0 ELSE (delta + Minute - 1) \div Minute

\* _minutes: whole minutes, never negative.
Minutes(delta) == IF delta < 0 THEN 0 ELSE delta \div Minute

----------------------------------------------------------------------------
(* pair_events. *)

\* A punch repeats the one accepted before it: close enough, and not an
\* explicit change of direction.
Repeats(e, previous) ==
  /\ e.kind = previous.kind \/ "UNSPECIFIED" \in {e.kind, previous.kind}
  /\ e.time - previous.time <= Span(Window)

Accepted(events) ==
  FoldLeft(LAMBDA acc, e : IF acc # <<>> /\ Repeats(e, Last(acc)) THEN acc ELSE Append(acc, e),
           <<>>, events)

Session(in, out) == [in |-> in, out |-> out]
Complete(s) == s.in # NoEvent /\ s.out # NoEvent

\* Mutant: a second IN takes the place of the open one.
TurnForgets(m, e) ==
  IF e.kind = "OUT" \/ (e.kind = "UNSPECIFIED" /\ m.open # NoEvent)
  THEN [done |-> Append(m.done, Session(m.open, e)), open |-> NoEvent]
  ELSE [m EXCEPT !.open = e]

\* One turn of the pairing loop: a second IN leaves the open one without OUT.
Turn(m, e) ==
  LET isOut == e.kind = "OUT" \/ (e.kind = "UNSPECIFIED" /\ m.open # NoEvent)
  IN  IF isOut
      THEN [done |-> Append(m.done, Session(m.open, e)), open |-> NoEvent]
      ELSE [done |-> IF m.open = NoEvent THEN m.done
                     ELSE Append(m.done, Session(m.open, NoEvent)),
            open |-> e]

Alternating(events) ==
  LET m == FoldLeft(Turn, [done |-> <<>>, open |-> NoEvent], events)
  IN  IF m.open = NoEvent THEN m.done ELSE Append(m.done, Session(m.open, NoEvent))

PairEvents(events) ==
  LET accepted == Accepted(events)
      n == Len(accepted)
  IN  IF n = 0 THEN <<>>
      ELSE IF mode = "first_last" /\ \A i \in 1 .. n : accepted[i].kind = "UNSPECIFIED"
      THEN <<Session(accepted[1], IF n = 1 THEN NoEvent ELSE accepted[n])>>
      ELSE Alternating(accepted)

----------------------------------------------------------------------------
(* summarize. *)

Overlap(a, b, c, d) == Minutes((IF b < d THEN b ELSE d) - (IF a > c THEN a ELSE c))

Gross(ss) == FoldLeft(LAMBDA sum, s : IF Complete(s) THEN sum + Minutes(s.out.time - s.in.time) ELSE sum,
                      0, ss)

\* One turn of the loop over the breaks, from the OUT before to the next IN.
Rest(m, s) ==
  [sum  |-> IF m.left = NoEvent \/ s.in = NoEvent THEN m.sum
            ELSE m.sum + Minutes(s.in.time - m.left.time),
   left |-> s.out]

Breaks(ss) == FoldLeft(Rest, [sum |-> 0, left |-> NoEvent], ss).sum

\* break_window_on: a break that starts before the shift is after midnight.
BreakStart == LET at == Midnight(Day) + Shift.break.start
              IN  IF at < StartDt(Shift, Day) THEN at + DayLength ELSE at
BreakEnd   == LET at == Midnight(DateOf(BreakStart)) + Shift.break.end
              IN  IF at <= BreakStart THEN at + DayLength ELSE at

\* What the sessions have of a window.
During(ss, from, to) ==
  FoldLeft(LAMBDA sum, s : IF Complete(s) THEN sum + Overlap(s.in.time, s.out.time, from, to) ELSE sum,
           0, ss)

\* The break that is deducted although nobody punched it: the configured
\* window, or else the configured length less the breaks taken.
UnpaidBreak(ss) ==
  IF Shift = NoShift \/ Shift.break.minutes = 0 THEN 0
  ELSE IF Shift.break.fixed THEN During(ss, BreakStart, BreakEnd)
  ELSE IF Gross(ss) > Shift.break.minutes /\ Shift.break.minutes > Breaks(ss)
  THEN Shift.break.minutes - Breaks(ss)
  ELSE 0

Work(ss) == IF Gross(ss) > UnpaidBreak(ss) THEN Gross(ss) - UnpaidBreak(ss) ELSE 0

\* Mutant: the arrival of the last session.
LastIn(ss) == LET ins == {i \in DOMAIN ss : ss[i].in # NoEvent}
              IN  IF ins = {} THEN NoEvent ELSE ss[Max(ins)].in

\* first_in is the first session that has one, last_out that of the last session.
FirstIn(ss) == LET ins == {i \in DOMAIN ss : ss[i].in # NoEvent}
               IN  IF ins = {} THEN NoEvent ELSE ss[Min(ins)].in
LastOut(ss) == IF ss = <<>> THEN NoEvent ELSE Last(ss).out

WorkingDay == calendar.type = "working" /\ calendar.leave # "full"
TimedRules == Shift # NoShift /\ WorkingDay /\ calendar.leave = "none" /\ ~Shift.flexible

Late(ss) ==
  IF TimedRules /\ FirstIn(ss) # NoEvent
     /\ FirstIn(ss).time > StartDt(Shift, Day) + Span(Shift.graceIn)
  THEN Minutes(FirstIn(ss).time - StartDt(Shift, Day)) ELSE 0

Early(ss) ==
  IF TimedRules /\ LastOut(ss) # NoEvent
     /\ LastOut(ss).time < EndDt(Shift, Day) - Span(Shift.graceOut)
  THEN Minutes(EndDt(Shift, Day) - LastOut(ss).time) ELSE 0

Overtime(ss) ==
  LET expected == Shift.expected \div (IF calendar.leave = "half" THEN 2 ELSE 1)
      extra == IF ~WorkingDay THEN Work(ss)
               ELSE IF Shift.overtime = "after_shift_end"
               THEN IF LastOut(ss) = NoEvent THEN 0
                    ELSE Minutes(LastOut(ss).time - EndDt(Shift, Day))
               ELSE IF Work(ss) > expected THEN Work(ss) - expected ELSE 0
  IN  IF Shift # NoShift /\ Shift.overtime # "off" /\ Work(ss) > 0 /\ extra >= Shift.minOvertime
      THEN extra ELSE 0

Missing(ss) == \E i \in DOMAIN ss : ~Complete(ss[i])

\* _status, for a row computed at time t.  Without min_present_minutes the
\* threshold is 0, without half_day_minutes it is that of a full day.
Status(ss, t) ==
  LET open    == t < WindowEnd(Shift, Day)
      scale   == IF calendar.leave = "half" THEN 2 ELSE 1
      reaches(threshold) == Work(ss) >= threshold \div scale
  IN  IF ss = <<>>
      THEN IF calendar.type # "working" THEN calendar.type
           ELSE IF calendar.leave = "full" THEN "leave"
           ELSE IF open THEN "not_started" ELSE "absent"
      ELSE IF Missing(ss) THEN IF open THEN "present" ELSE "incomplete"
      ELSE IF \/ calendar.type # "working" \/ Shift = NoShift
              \/ reaches(Shift.present) THEN "present"
      ELSE IF reaches(Shift.half) THEN "half_day"
      ELSE "absent"

Summary(ss, t) ==
  [status |-> Status(ss, t), work |-> Work(ss), breaks |-> Breaks(ss), late |-> Late(ss),
   early |-> Early(ss), overtime |-> Overtime(ss), sessions |-> Len(ss), missing |-> Missing(ss)]

\* process_day: a date without punches has a row only if it has a shift and
\* has begun.
ProcessDay(events, t) ==
  IF events = <<>> /\ (Shift = NoShift \/ Day > DateOf(t)) THEN NoRow
  ELSE Summary(PairEvents(events), t)

----------------------------------------------------------------------------
Init == /\ roster \in Rosters /\ calendar \in Calendars /\ mode \in Modes
        /\ now \in Instants /\ \A t \in Instants : now <= t
        /\ log = <<>> /\ row = NoRow /\ finalized = FALSE

Tick == /\ now' \in Instants /\ now' > now
        /\ \A t \in Instants : t > now => now' <= t
        /\ UNCHANGED <<rules, log, row, finalized>>

\* A punch of this work date reaches the engine, when it happens or later (a
\* batch sent late, a manual event); the event sorts after those of its instant.
Punch(time, kind) ==
  /\ Len(log) < MaxPunches /\ time <= now /\ WorkDateFor(roster, time) = Day
  /\ LET before == {i \in DOMAIN log : log[i].time <= time}
         later  == InsertAt(log, Cardinality(before) + 1, [time |-> time, kind |-> kind])
     IN  log' = later /\ row' = ProcessDay(later, now)
  /\ UNCHANGED <<rules, now, finalized>>

\* Mutant: the evening of the work date itself.
NightlySameDay ==
  /\ ~finalized /\ now >= Midnight(Day) + NightlyAt
  /\ finalized' = TRUE
  /\ row' = ProcessDay(log, now)
  /\ UNCHANGED <<rules, now, log>>

\* finalize_attendance_v2, late on the evening after the work date.
Nightly ==
  /\ ~finalized /\ now >= Midnight(Day + 1) + NightlyAt
  /\ finalized' = TRUE
  /\ row' = ProcessDay(log, now)
  /\ UNCHANGED <<rules, now, log>>

Next == \/ Tick \/ Nightly
        \/ \E time \in Instants, kind \in Kinds : Punch(time, kind)

Spec == Init /\ [][Next]_vars
----------------------------------------------------------------------------
\* The punches of the sessions, in order.
Used(ss) ==
  LET ends(s) == (IF s.in = NoEvent THEN <<>> ELSE <<s.in>>) \o
                 (IF s.out = NoEvent THEN <<>> ELSE <<s.out>>)
  IN  FoldLeft(LAMBDA acc, s : acc \o ends(s), <<>>, ss)

\* Whatever mix of directions arrives, in whatever order, pairing neither
\* invents a punch nor uses one twice: the ends of the sessions, in order, are
\* accepted punches in order, all of them unless only the first and the last count.
EveryPunchOnce ==
  LET used == Used(PairEvents(log))
      accepted == Accepted(log)
  IN  used = accepted \/ (mode = "first_last" /\ used = <<accepted[1], accepted[Len(accepted)]>>)

\* Work and breaks together never exceed the time from the first punch of the
\* date to the last, and the punched breaks are never paid.
WithinPresence ==
  row # NoRow /\ log # <<>> =>
    row.work + row.breaks <= Minutes(log[Len(log)].time - log[1].time)

\* "Runs late in the evening for the previous date, after even an overnight shift's punch
\* window for that date has closed" (attendance_v2_daily.py).  The row the nightly job leaves,
\* and any row after it, is the one later processing would compute.  Where the window outlasts
\* the job, which the serializer allows, only the status may be provisional: a day without a
\* punch stays not_started, an open session present, until somebody processes the day again.
NightlyIsFinal ==
  finalized =>
    LET due == ProcessDay(log, now)
    IN  \/ row = due
        \/ /\ WindowEnd(Shift, Day) > Midnight(Day + 1) + NightlyAt
           /\ <<row.status, due.status>> \in {<<"not_started", "absent">>, <<"present", "incomplete">>}
           /\ row = [due EXCEPT !.status = row.status]

\* An employee who punched IN within the grace period is never marked late, however
\* the other punches of the day are paired or dropped as double punches.
PunctualIsNotLate ==
  row # NoRow /\ row.late > 0 =>
    \A i \in DOMAIN log :
      log[i].kind = "IN" => log[i].time > StartDt(Shift, Day) + Span(Shift.graceIn)

\* Time only moves punches forward: of two instants the later one never belongs
\* to an earlier work date, whatever shifts the three dates have.
WorkDatesAdvance ==
  \A earlier \in {t \in Instants : t <= now} :
    WorkDateFor(roster, earlier) <= WorkDateFor(roster, now)
=============================================================================
