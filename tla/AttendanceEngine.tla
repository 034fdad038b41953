-------------------------- MODULE AttendanceEngine --------------------------
(***************************************************************************)
(* The Attendance V2 engine for one employee: ingestion_biz.py (a batch    *)
(* posted by a collector), correction_biz.py (manual punch, void,          *)
(* reprocess), checkin_biz.py (self check-in) and the nightly job, over    *)
(* the three tables attv2_raw_punch, attv2_event and attv2_daily_attendance*)
(*                                                                         *)
(* There is no request-wide transaction: outside transaction.atomic() each *)
(* ORM statement commits on its own, so a request is a sequence of steps   *)
(* interleaved with those of other requests, and it may die between two of *)
(* them.  What a request holds in memory between its steps (the rows it    *)
(* read, its planner, the days it still has to rebuild) is its record      *)
(* req[r].  A transaction is one step, taken when it commits.              *)
(***************************************************************************)
EXTENDS DayPlan, FiniteSets

CONSTANTS
  Device,        \* external punch ids a collector may post
  SelfService,   \* punches made by web / mobile check-in
  Manual,        \* punches an administrator adds by hand
  Time,          \* Time[p]: the instant of punch p
  LastDate,      \* the dates followed are 0 .. LastDate
  Rosters,       \* what the assignments may resolve to: [Dates -> Snapshots]
  Recalculations,\* <<from, to, refresh_shift>> an administrator may ask for
  Web,           \* web workers: each serves one request at a time
  Cron,          \* workers that run the nightly job
  NoDate,        \* attendance_date IS NULL
  LastDay,       \* bound: the last day the clock reaches
  MaxFaults,     \* bound: requests killed between two statements
  MaxEdits       \* bound: changes of the shift assignments

Punches == Device \cup SelfService \cup Manual
Dates   == 0 .. LastDate
Workers == Web \cup Cron

ASSUME PunchAssumption ==
  /\ Device \cap SelfService = {} /\ Device \cap Manual = {}
  /\ SelfService \cap Manual = {}
  /\ Time \in [Punches -> Nat]
  /\ LastDate \in Nat \ {0}
  /\ \A p \in Punches : DateOf(Time[p]) \in 1 .. LastDate - 1
ASSUME RosterAssumption == Rosters \subseteq [Dates -> Snapshots] /\ Rosters # {}
ASSUME RecalculationAssumption == Recalculations \subseteq Dates \X Dates \X BOOLEAN
ASSUME NoDateAssumption == NoDate \notin Int
ASSUME BoundAssumption  == LastDay \in 1 .. LastDate /\ MaxFaults \in Nat /\ MaxEdits \in Nat

VARIABLES
  raw,         \* status of the raw punch, "none" while there is no row
  event,       \* status of the event made from a punch
  date,        \* attendance_date of that event
  rows,        \* dates that have a daily row
  snap,        \* shift_snapshot of the daily row
  holds,       \* the events its sessions and figures were computed from
  roster,      \* what the shift assignments resolve to now
  registered,  \* the employee code is an active member of the company
  today, nightly,  \* the date, and the last date the nightly job started on
  req,         \* the request each worker is serving
  acked,       \* punches a 200 reply accepted or called duplicates
  dropped,     \* dates whose rebuild was due when a request gave it up
  faults, edits,
  crossed,     \* history: <<worker, date>> whose snapshot another request wrote since the planner was read
  stranded,    \* history: dates an event left in a request that had seen it on another date
  overtaken    \* history: punches skipped as duplicates while another request had them unresolved

tables   == <<raw, event, date, rows, snap, holds>>
world    == <<roster, registered, today, nightly, edits>>
history  == <<crossed, stranded, overtaken>>
vars     == <<tables, world, req, acked, dropped, faults, history>>

RawStatus   == {"none", "pending", "processed", "unresolved"}
EventStatus == {"none", "active", "void"}
Ops         == {"none", "ingest", "add", "void", "reprocess"}
Steps       == {"idle", "lookup", "store", "plan", "scan", "date", "rebuild", "lock", "mark", "reply"}

\* A request is at these steps with the planner it has read.
Planned     == {"scan", "date", "rebuild", "lock"}

\* What a request holds in memory: its employee lookup (linked), the raw
\* punches it read (known), the events it made (new), its planner (plan, built
\* on day asof), the dates its scan saw (seen), the days it still has to rebuild.
Request ==
  [op : Ops, at : Steps, batch : SUBSET Punches, todo : SUBSET Punches,
   errors : SUBSET Punches, new : SUBSET Punches, linked : BOOLEAN,
   known : [Punches -> RawStatus], plan : [Dates -> Snapshots],
   seen : [Punches -> Dates \cup {NoDate}], days : SUBSET Dates,
   from : Dates, to : Dates, refresh : BOOLEAN, asof : Dates]

NoPlan    == [d \in Dates |-> NoShift]
NotKnown  == [p \in Punches |-> "none"]
NothingSeen == [p \in Punches |-> NoDate]
Idle == [op |-> "none", at |-> "idle", batch |-> {}, todo |-> {}, errors |-> {},
         new |-> {}, linked |-> FALSE, known |-> NotKnown, plan |-> NoPlan,
         seen |-> NothingSeen, days |-> {}, from |-> 0, to |-> 0,
         refresh |-> FALSE, asof |-> 0]

TypeOK ==
  /\ raw \in [Punches -> RawStatus]
  /\ event \in [Punches -> EventStatus]
  /\ date \in [Punches -> Dates \cup {NoDate}]
  /\ rows \subseteq Dates
  /\ snap \in [Dates -> Snapshots]
  /\ holds \in [Dates -> SUBSET Punches]
  /\ roster \in Rosters
  /\ registered \in BOOLEAN
  /\ today \in 1 .. LastDay /\ nightly \in Dates
  /\ req \in [Workers -> Request]
  /\ acked \subseteq Punches
  /\ dropped \subseteq Dates
  /\ faults \in 0 .. MaxFaults /\ edits \in 0 .. MaxEdits
  /\ crossed \subseteq Workers \X Dates /\ stranded \subseteq Dates /\ overtaken \subseteq Device

Init ==
  /\ raw = [p \in Punches |-> "none"]
  /\ event = [p \in Punches |-> "none"]
  /\ date = [p \in Punches |-> NoDate]
  /\ rows = {}
  /\ snap = NoPlan
  /\ holds = [d \in Dates |-> {}]
  /\ roster \in Rosters
  /\ registered = FALSE
  /\ today = 1 /\ nightly = 0
  /\ req = [r \in Workers |-> Idle]
  /\ acked = {} /\ dropped = {}
  /\ faults = 0 /\ edits = 0
  /\ crossed = {} /\ stranded = {} /\ overtaken = {}

----------------------------------------------------------------------------
\* get_active_events_for_date, over given contents of the event table.
DatedIn(ev, dt, d) == {p \in Punches : ev[p] = "active" /\ dt[p] = d}
Dated(d) == DatedIn(event, date, d)

\* Mutant: a planner that forgets the snapshots of past dates.
PlannerForgets(refresh) == [d \in Dates |-> roster[d]]

\* AttendanceProcessorBL.planner: a past date keeps the snapshot its row
\* stores, unless refresh_shift; every other date resolves the assignments.
Planner(refresh) ==
  [d \in Dates |-> IF ~refresh /\ d < today /\ d \in rows /\ snap[d] # NoShift
                   THEN snap[d] ELSE roster[d]]

Arrived(p) == DateOf(Time[p]) <= today

\* The request of worker r goes on with memory m.
Continue(r, m) == req' = [req EXCEPT ![r] = m]

\* The request of worker r ends.
Finish(r) == Continue(r, Idle)
Uncrossed(r) == crossed' = {c \in crossed : c[1] # r}

\* The request dies (an exception the caller turns into a 500, or a killed
\* worker): what it committed stays, what it still had to rebuild is dropped.
\* An add or a void is one transaction and takes everything back with it.
GiveUp(r) ==
  /\ Finish(r)
  /\ dropped' = IF req[r].op \in {"ingest", "reprocess"}
                THEN dropped \cup req[r].days ELSE dropped
  /\ Uncrossed(r)

----------------------------------------------------------------------------
(* PunchIngestionBL: one batch. *)

\* _ingest up to resolve_employee_codes: any punches that already happened,
\* sent before or not.
PostBatch(r) ==
  /\ r \in Web /\ req[r].at = "idle"
  /\ \E b \in SUBSET {p \in Device : Arrived(p)} \ {{}} :
       Continue(r, [Idle EXCEPT !.op = "ingest", !.at = "lookup", !.batch = b,
                                !.todo = b, !.linked = registered])
  /\ UNCHANGED <<tables, world, acked, dropped, faults, history>>

\* get_existing_raw_punches.
LookUp(r) ==
  /\ req[r].at = "lookup"
  /\ Continue(r, [req[r] EXCEPT !.at = "store",
       !.known = [p \in Punches |-> IF p \in req[r].batch THEN raw[p] ELSE "none"]])
  /\ UNCHANGED <<tables, world, acked, dropped, faults, history>>

\* The end of one turn of the loop over the batch: where punch p went.
Handled(r, p, errors, new) ==
  Continue(r, [req[r] EXCEPT !.todo = req[r].todo \ {p}, !.errors = req[r].errors \cup errors,
                             !.new = req[r].new \cup new])

\* A raw punch stored for an unknown employee code, sent again: _resolve_existing
\* links it in a transaction, or it is reported once more.
ResendUnresolved(r, p) ==
  /\ req[r].at = "store" /\ p \in req[r].todo /\ req[r].known[p] = "unresolved"
  /\ IF ~req[r].linked
     THEN Handled(r, p, {p}, {}) /\ UNCHANGED <<tables, dropped, crossed, overtaken>>
     ELSE IF event[p] = "none"
     THEN /\ Handled(r, p, {}, {p})
          /\ raw' = [raw EXCEPT ![p] = "pending"]
          /\ event' = [event EXCEPT ![p] = "active"]
          /\ overtaken' = overtaken \ {p}
          /\ UNCHANGED <<date, rows, snap, holds, dropped, crossed>>
     ELSE GiveUp(r) /\ UNCHANGED <<tables, overtaken>>   \* raw_punch is UNIQUE: IntegrityError
  /\ UNCHANGED <<world, acked, faults, stranded>>

\* Mutant: an unresolved punch sent again is a duplicate like any other.
SkipUnresolved(r, p) ==
  /\ req[r].at = "store" /\ p \in req[r].todo /\ req[r].known[p] # "none"
  /\ Handled(r, p, {}, {})
  /\ UNCHANGED <<tables, world, acked, dropped, faults, history>>

\* known is not None: counted as a duplicate.
SkipKnown(r, p) ==
  /\ req[r].at = "store" /\ p \in req[r].todo
  /\ req[r].known[p] \in {"pending", "processed"}
  /\ Handled(r, p, {}, {})
  /\ UNCHANGED <<tables, world, acked, dropped, faults, history>>

\* Mutants: a store that does not notice a concurrent one, and a store that
\* passes over the punches of unknown employees.
StoreOver(r, p) ==
  /\ req[r].at = "store" /\ p \in req[r].todo /\ req[r].known[p] = "none"
  /\ raw' = [raw EXCEPT ![p] = IF req[r].linked THEN "pending" ELSE "unresolved"]
  /\ event' = IF req[r].linked THEN [event EXCEPT ![p] = "active"] ELSE event
  /\ Handled(r, p, IF req[r].linked THEN {} ELSE {p}, IF req[r].linked THEN {p} ELSE {})
  /\ UNCHANGED <<date, rows, snap, holds, world, acked, dropped, faults, history>>
StoreKnownOnly(r, p) ==
  /\ req[r].at = "store" /\ p \in req[r].todo /\ req[r].known[p] = "none"
  /\ IF raw[p] # "none" \/ ~req[r].linked
     THEN Handled(r, p, {}, {}) /\ UNCHANGED tables
     ELSE /\ Handled(r, p, {}, {p})
          /\ raw' = [raw EXCEPT ![p] = "pending"]
          /\ event' = [event EXCEPT ![p] = "active"]
          /\ UNCHANGED <<date, rows, snap, holds>>
  /\ UNCHANGED <<world, acked, dropped, faults, history>>

\* _store: the raw punch, and its event when the employee is known, in one
\* transaction; (device, external_punch_id) is UNIQUE and a punch a concurrent
\* request stored first is a duplicate.
StorePunch(r, p) ==
  /\ req[r].at = "store" /\ p \in req[r].todo /\ req[r].known[p] = "none"
  /\ IF raw[p] # "none"
     THEN Handled(r, p, {}, {}) /\ UNCHANGED tables
     ELSE IF req[r].linked
     THEN /\ Handled(r, p, {}, {p})
          /\ raw' = [raw EXCEPT ![p] = "pending"]
          /\ event' = [event EXCEPT ![p] = "active"]
          /\ UNCHANGED <<date, rows, snap, holds>>
     ELSE /\ Handled(r, p, {p}, {})
          /\ raw' = [raw EXCEPT ![p] = "unresolved"]
          /\ UNCHANGED <<event, date, rows, snap, holds>>
  /\ overtaken' = overtaken \cup {x \in {p} : raw[p] = "unresolved"}
  /\ UNCHANGED <<world, acked, dropped, faults, crossed, stranded>>

\* if new_events: process_new_events, else straight to the response.
EndStore(r) ==
  /\ req[r].at = "store" /\ req[r].todo = {}
  /\ Continue(r, [req[r] EXCEPT !.at = IF req[r].new = {} THEN "reply" ELSE "plan",
                                !.known = NotKnown])
  /\ UNCHANGED <<tables, world, acked, dropped, faults, history>>

----------------------------------------------------------------------------
(* CorrectionBL, SelfCheckInBL and the nightly job: how the others start. *)

\* add_manual_event (event_time not in the future) or check_in (now).
AddPunch(r, p) ==
  /\ r \in Web /\ req[r].at = "idle"
  /\ event[p] = "none" /\ \A w \in Workers : p \notin req[w].batch
  /\ \/ p \in Manual /\ Arrived(p)
     \/ p \in SelfService /\ DateOf(Time[p]) = today
  /\ Continue(r, [Idle EXCEPT !.op = "add", !.at = "plan", !.batch = {p}])
  /\ UNCHANGED <<tables, world, acked, dropped, faults, history>>

\* void_event: get_event, with the attendance_date it has at that moment.
\* Event ids are only shown to a client by work date (get_events), so the
\* event is dated.
VoidEvent(r, p) ==
  /\ r \in Web /\ req[r].at = "idle"
  /\ event[p] = "active" /\ date[p] # NoDate
  /\ Continue(r, [Idle EXCEPT !.op = "void", !.at = "plan", !.batch = {p},
                              !.days = {date[p]}])
  /\ UNCHANGED <<tables, world, acked, dropped, faults, history>>

Reprocess(r, from, to, refresh) ==
  Continue(r, [Idle EXCEPT !.op = "reprocess", !.at = "plan", !.from = from, !.to = to,
                           !.refresh = refresh])

\* CorrectionBL.reprocess, and the process_attendance_v2 command.
ReprocessRange(r) ==
  /\ r \in Web /\ req[r].at = "idle"
  /\ \E asked \in Recalculations : Reprocess(r, asked[1], asked[2], asked[3])
  /\ UNCHANGED <<tables, world, acked, dropped, faults, history>>

\* Mutant: the job finalizes the day it runs on.
NightlyToday(r) ==
  /\ r \in Cron /\ req[r].at = "idle" /\ nightly < today
  /\ nightly' = today
  /\ Reprocess(r, today, today, FALSE)
  /\ UNCHANGED <<tables, roster, registered, today, edits, acked, dropped, faults, history>>

\* finalize_attendance_v2: once every evening, for yesterday.
NightlyJob(r) ==
  /\ r \in Cron /\ req[r].at = "idle" /\ nightly < today
  /\ nightly' = today
  /\ Reprocess(r, today - 1, today - 1, FALSE)
  /\ UNCHANGED <<tables, roster, registered, today, edits, acked, dropped, faults, history>>

----------------------------------------------------------------------------
(* AttendanceProcessorBL: work dates, then one rebuild per affected day. *)

\* planner(): the rules are read here, and used until the request ends.
\* After it process_new_events turns to its events, reprocess to its scan.
Plans(r, m) == /\ req[r].at = "plan"
               /\ Continue(r, [m EXCEPT !.plan = Planner(req[r].refresh), !.asof = today])
               /\ UNCHANGED <<tables, world, acked, dropped, faults, history>>

PlanIngest(r) ==
  req[r].op = "ingest" /\ Plans(r, [req[r] EXCEPT !.at = "date", !.todo = req[r].new])
PlanReprocess(r) ==
  req[r].op = "reprocess" /\ Plans(r, [req[r] EXCEPT !.at = "scan"])
PlanAdd(r, p) ==
  /\ req[r].op = "add" /\ p \in req[r].batch
  /\ Plans(r, [req[r] EXCEPT !.at = "rebuild",
                             !.days = {WorkDateFor(Planner(FALSE), Time[p])}])
PlanVoid(r) ==
  req[r].op = "void" /\ Plans(r, [req[r] EXCEPT !.at = "rebuild"])

\* Mutant: the padding of the scan widens the rebuilt range as well.
ScanPadded(r) ==
  /\ req[r].at = "scan"
  /\ LET found == {p \in Punches : /\ event[p] = "active"
                                   /\ DateOf(Time[p]) \in req[r].from - 1 .. req[r].to + 1}
     IN  Continue(r, [req[r] EXCEPT !.at = "date", !.todo = found,
           !.seen = [p \in Punches |-> IF p \in found THEN date[p] ELSE NoDate],
           !.days = req[r].from - 1 .. req[r].to + 1])
  /\ UNCHANGED <<tables, world, acked, dropped, faults, history>>

\* reprocess reads the active events from the day before the range to the day
\* after it; the days of the range are rebuilt whatever they hold.
Scan(r) ==
  /\ req[r].at = "scan"
  /\ LET found == {p \in Punches : /\ event[p] = "active"
                                   /\ DateOf(Time[p]) \in req[r].from - 1 .. req[r].to + 1}
     IN  Continue(r, [req[r] EXCEPT !.at = "date", !.todo = found,
           !.seen = [p \in Punches |-> IF p \in found THEN date[p] ELSE NoDate],
           !.days = req[r].from .. req[r].to])
  /\ UNCHANGED <<tables, world, acked, dropped, faults, history>>

\* set_event_dates, when the planner disagrees with the date the request saw
\* (a new event has none); both dates are affected.
SetDate(r, p) ==
  /\ req[r].at = "date" /\ p \in req[r].todo
  /\ LET wd == WorkDateFor(req[r].plan, Time[p])
     IN  /\ date' = IF req[r].seen[p] = wd THEN date ELSE [date EXCEPT ![p] = wd]
         /\ Continue(r, [req[r] EXCEPT !.todo = req[r].todo \ {p},
              !.days = req[r].days \cup {wd} \cup ({req[r].seen[p]} \ {NoDate})])
         /\ stranded' = stranded \cup {d \in {date[p]} \ {NoDate, wd} : d # req[r].seen[p] /\ d # date'[p]}
  /\ UNCHANGED <<raw, event, rows, snap, holds, world, acked, dropped, faults, crossed, overtaken>>

\* reprocess leaves out the dates after today.
EndDates(r) ==
  /\ req[r].at = "date" /\ req[r].todo = {}
  /\ LET late == {d \in req[r].days : req[r].op = "reprocess" /\ d > req[r].asof}
     IN  /\ Continue(r, [req[r] EXCEPT !.at = "rebuild", !.days = req[r].days \ late,
                                       !.seen = NothingSeen])
         /\ dropped' = dropped \cup {d \in late : holds[d] # Dated(d)}
         /\ crossed' = {c \in crossed : c[1] = r => c[2] \in req[r].days \ late}
  /\ UNCHANGED <<tables, world, acked, faults, stranded, overtaken>>

\* sorted(affected): the earliest day left.
IsNext(r, d) == d \in req[r].days /\ \A e \in req[r].days : d <= e

\* lock_daily, first half: get_or_create finds the row.
FindRow(r, d) ==
  /\ req[r].at = "rebuild" /\ IsNext(r, d) /\ d \in rows
  /\ Continue(r, [req[r] EXCEPT !.at = "lock"])
  /\ UNCHANGED <<tables, world, acked, dropped, faults, history>>

\* Second half, select_for_update().get(): DoesNotExist if another request
\* deleted the row in between.
RowGone(r, d) ==
  /\ req[r].at = "lock" /\ IsNext(r, d) /\ d \notin rows
  /\ GiveUp(r)
  /\ UNCHANGED <<tables, world, acked, faults, stranded, overtaken>>

\* The row is locked: found and read again, or just inserted.
HasLock(r, d) == /\ IsNext(r, d)
                 /\ req[r].at = IF d \in rows THEN "lock" ELSE "rebuild"

\* The planners other requests have read, and may yet rebuild the date with, are out of date.
Crossing(r, d) ==
  LET over == {v \in Workers \ {r} : /\ req[v].at \in Planned
                                     /\ req[v].at \in {"rebuild", "lock"} => d \in req[v].days}
  IN  crossed' = (crossed \ {<<r, d>>}) \cup {<<w, d>> : w \in {v \in over : snap'[d] # snap[d]}}

\* Mutant: the day's events are read before the correction is written.
ProcessBefore(r, d, ev, dt) ==
  LET on == DatedIn(event, date, d)
  IN  /\ event' = ev /\ date' = dt
      /\ rows' = IF on = {} THEN rows \ {d} ELSE rows \cup {d}
      /\ holds' = [holds EXCEPT ![d] = on]
      /\ snap' = [snap EXCEPT ![d] = IF on = {} THEN NoShift ELSE req[r].plan[d]]
      /\ dropped' = dropped \ {d}
      /\ Continue(r, [req[r] EXCEPT !.at = "rebuild", !.days = req[r].days \ {d}])
      /\ Crossing(r, d)
      /\ UNCHANGED <<world, acked, faults, overtaken>>

\* The rest of process_day over the event table the transaction sees: the
\* day's active events decide whether its row is kept.
ProcessDay(r, d, ev, dt) ==
  LET on      == DatedIn(ev, dt, d)
      nothing == on = {} /\ (req[r].plan[d] = NoShift \/ d > today)
  IN  /\ event' = ev /\ date' = dt
      /\ rows' = IF nothing THEN rows \ {d} ELSE rows \cup {d}
      /\ holds' = [holds EXCEPT ![d] = on]
      /\ snap' = [snap EXCEPT ![d] = IF nothing THEN NoShift ELSE req[r].plan[d]]
      /\ dropped' = dropped \ {d}
      /\ Continue(r, [req[r] EXCEPT !.at = "rebuild", !.days = req[r].days \ {d}])
      /\ Crossing(r, d)
      /\ UNCHANGED <<world, acked, faults, overtaken>>

RebuildDay(r, d) ==
  /\ req[r].op \in {"ingest", "reprocess"} /\ HasLock(r, d)
  /\ ProcessDay(r, d, event, date)
  /\ stranded' = stranded \ {d}
  /\ UNCHANGED raw

\* The transaction of add_manual_event and of check_in: the event, its work
\* date, the rebuilt day, and for a check-in the raw punch, born processed.
AddAndRebuild(r, p, d) ==
  /\ req[r].op = "add" /\ p \in req[r].batch /\ HasLock(r, d)
  /\ ProcessDay(r, d, [event EXCEPT ![p] = "active"], [date EXCEPT ![p] = d])
  /\ stranded' = stranded \ {d}
  /\ raw' = IF p \in SelfService THEN [raw EXCEPT ![p] = "processed"] ELSE raw

\* The transaction of void_event, on the date read before it began.
VoidAndRebuild(r, p, d) ==
  /\ req[r].op = "void" /\ p \in req[r].batch /\ HasLock(r, d)
  /\ ProcessDay(r, d, [event EXCEPT ![p] = "void"], date)
  /\ stranded' = (stranded \cup {date[p]}) \ {d, NoDate}
  /\ UNCHANGED raw

\* The days are rebuilt: an ingest goes on to mark its raw punches.
EndRebuild(r) ==
  /\ req[r].at = "rebuild" /\ req[r].days = {}
  /\ Continue(r, IF req[r].op = "ingest"
                 THEN [req[r] EXCEPT !.at = "mark", !.todo = req[r].new, !.plan = NoPlan]
                 ELSE Idle)
  /\ Uncrossed(r)
  /\ UNCHANGED <<tables, world, acked, dropped, faults, stranded, overtaken>>

MarkProcessed(r, p) ==
  /\ req[r].at = "mark" /\ p \in req[r].todo
  /\ raw' = [raw EXCEPT ![p] = "processed"]
  /\ Continue(r, [req[r] EXCEPT !.todo = req[r].todo \ {p}])
  /\ UNCHANGED <<event, date, rows, snap, holds, world, acked, dropped, faults, history>>

EndMark(r) ==
  /\ req[r].at = "mark" /\ req[r].todo = {}
  /\ Continue(r, [req[r] EXCEPT !.at = "reply"])
  /\ UNCHANGED <<tables, world, acked, dropped, faults, history>>

\* The 200 response: every punch of the batch but those in "errors".
Reply(r) ==
  /\ req[r].at = "reply"
  /\ acked' = acked \cup (req[r].batch \ req[r].errors)
  /\ Finish(r)
  /\ UNCHANGED <<tables, world, dropped, faults, history>>

Die(r) ==
  /\ req[r].at # "idle" /\ faults < MaxFaults
  /\ GiveUp(r)
  /\ faults' = faults + 1
  /\ UNCHANGED <<tables, world, acked, stranded, overtaken>>

----------------------------------------------------------------------------
(* The world the requests run in. *)

Register == /\ ~registered /\ registered' = TRUE
            /\ UNCHANGED <<tables, roster, today, nightly, edits, req, acked, dropped, faults, history>>

\* An administrator assigns a shift, ends an assignment, edits a shift.
EditRoster == /\ edits < MaxEdits /\ edits' = edits + 1
              /\ \E new \in Rosters \ {roster} : roster' = new
              /\ UNCHANGED <<tables, registered, today, nightly, req, acked, dropped, faults, history>>

\* Midnight, after the evening's nightly job has been started.
NextDay == /\ today < LastDay /\ (Cron # {} => nightly = today)
           /\ today' = today + 1
           /\ UNCHANGED <<tables, roster, registered, nightly, edits, req, acked, dropped, faults, history>>

Ingest(r) == \/ PostBatch(r) \/ LookUp(r) \/ EndStore(r)
             \/ \E p \in Device : ResendUnresolved(r, p) \/ SkipKnown(r, p) \/ StorePunch(r, p)
             \/ \E p \in Punches : MarkProcessed(r, p)
             \/ EndMark(r) \/ Reply(r)

Process(r) == \/ PlanIngest(r) \/ PlanReprocess(r) \/ PlanVoid(r)
              \/ \E p \in Punches : PlanAdd(r, p) \/ SetDate(r, p)
              \/ Scan(r) \/ EndDates(r)
              \/ \E d \in Dates : FindRow(r, d) \/ RowGone(r, d) \/ RebuildDay(r, d)
              \/ \E p \in Punches, d \in Dates : AddAndRebuild(r, p, d) \/ VoidAndRebuild(r, p, d)
              \/ EndRebuild(r)

Admin(r) == \/ \E p \in SelfService \cup Manual : AddPunch(r, p)
            \/ \E p \in Punches : VoidEvent(r, p)
            \/ ReprocessRange(r)

Next == \/ \E r \in Workers : Ingest(r) \/ Process(r) \/ Admin(r) \/ NightlyJob(r) \/ Die(r)
        \/ Register \/ EditRoster \/ NextDay

Spec == Init /\ [][Next]_vars
----------------------------------------------------------------------------
(* Safety. *)

\* The raw ledger and the event table never disagree: a punch has an event
\* exactly when its employee was identified, and it is only marked processed
\* once its work date is known - for every interleaving of batches that store,
\* resend and resolve the same punch (_store, _resolve_existing, 142-161).
LedgerConsistent ==
  \A p \in Device : /\ (event[p] = "none") <=> raw[p] \in {"none", "unresolved"}
                    /\ raw[p] = "processed" => date[p] # NoDate

\* A punch a 200 reply counted as accepted or duplicate is in the ledger.
AckedIsStored == \A p \in acked : raw[p] # "none"

\* ... and has its event, so that the collector may forget it, unless another
\* request had stored it for an unknown employee after the batch was looked up.
AckedHasEvent == \A p \in acked \ overtaken : event[p] # "none"

\* Some request in flight still has to rebuild date d.
Owed(d) == \E r \in Workers : req[r].op \in {"ingest", "reprocess"} /\ d \in req[r].days

\* "Rebuilt by the engine at any time": sessions and figures of a date are those
\* of the active events dated that day, unless a request in flight still owes
\* the rebuild, or the code gave it up: a request that died, or a date after
\* today that reprocess leaves out; once assignments have been edited, also unless
\* two requests moved the same event, or one moved what another voids.
StaleIsExplained ==
  \A d \in Dates : \/ holds[d] = Dated(d) \/ Owed(d) \/ d \in dropped
                   \/ (edits > 0 /\ d \in stranded)

\* "History is stable": a date keeps the shift rules it was calculated with,
\* whatever happens to the assignments, unless the request that rebuilds it was
\* asked for the current ones, or read its rules before that date was over or
\* before another request rebuilt it.
HistoryKept ==
  [][\A d \in Dates :
       snap[d] # NoShift /\ snap'[d] # snap[d] =>
         \E r \in Workers :
           /\ d \in req[r].days \ req'[r].days
           /\ req[r].refresh \/ req[r].asof <= d \/ <<r, d>> \in crossed]_vars

----------------------------------------------------------------------------
(* Liveness: a worker that has a request goes on with it, the scheduler starts *)
(* the nightly job and the days pass; nobody has to send anything again.        *)

Fairness == /\ \A r \in Workers : WF_vars(Process(r))
            /\ \A r \in Workers : WF_vars(Ingest(r) /\ req[r].at # "idle")
            /\ \A r \in Cron : SF_vars(NightlyJob(r))
            /\ WF_vars(NextDay)

FairSpec == Spec /\ Fairness

Counted(p) == date[p] # NoDate /\ p \in holds[date[p]]

\* The nightly job makes up for a request that died: an event stored by the day
\* after it happened ends up in the attendance of its work date (or is voided).
EventuallyCounted ==
  \A p \in Punches :
    (event[p] = "active" /\ today <= DateOf(Time[p]) + 1) ~> (event[p] = "void" \/ Counted(p))
=============================================================================
