----------------------- MODULE AttendanceEngineProofs -----------------------
(***************************************************************************)
(* What holds of AttendanceEngine for every set of punches, workers, dates *)
(* and shift rosters, and for any number of killed requests: types, the    *)
(* ledger of punches and events, that acknowledged punches have events,    *)
(* that past days keep their rules, and that a stale day is explained.     *)
(*                                                                         *)
(* None of these is inductive, for one reason: a request acts on what it   *)
(* read some steps earlier.  Each proof therefore states what a request's  *)
(* memory still says about the tables (RequestSound, Eventful, PlanKeeps,  *)
(* Orderly, UpToDate), and shows that it survives the steps of the others. *)
(***************************************************************************)
EXTENDS AttendanceEngine, TLAPS

\* work_date_for looks one day around the punch, so it stays within the dates
\* the planner loaded.
LEMMA WorkDateTyped ==
  ASSUME NEW plan, NEW p \in Punches
  PROVE  WorkDateFor(plan, Time[p]) \in Dates
<1>1. DateOf(Time[p]) \in 1 .. LastDate - 1 /\ LastDate \in Nat
  BY PunchAssumption
<1> DEFINE day == DateOf(Time[p])
<1>2. day \in Dates /\ day - 1 \in Dates /\ day + 1 \in Dates
  BY <1>1 DEF Dates
<1>3. WorkDateFor(plan, Time[p]) \in {day, day - 1, day + 1}
  BY DEF WorkDateFor
<1> QED BY <1>2, <1>3

LEMMA IdleTyped == Idle \in Request
<1>1. NoPlan \in [Dates -> Snapshots] BY DEF NoPlan, Snapshots
<1>2. NotKnown \in [Punches -> RawStatus] BY DEF NotKnown, RawStatus
<1>3. NothingSeen \in [Punches -> Dates \cup {NoDate}] BY DEF NothingSeen
<1>4. 0 \in Dates BY PunchAssumption DEF Dates
<1>5. "none" \in Ops /\ "idle" \in Steps BY DEF Ops, Steps
<1> QED BY <1>1, <1>2, <1>3, <1>4, <1>5 DEF Idle, Request

\* What a request may write into its memory, one lemma per set of fields.
LEMMA AtTyped ==
  ASSUME NEW q \in Request, NEW a \in Steps
  PROVE  [q EXCEPT !.at = a] \in Request
BY DEF Request

LEMMA KnownTyped ==
  ASSUME NEW q \in Request, NEW a \in Steps, NEW k \in [Punches -> RawStatus]
  PROVE  [q EXCEPT !.at = a, !.known = k] \in Request
BY DEF Request

LEMMA BatchTyped ==
  ASSUME NEW q \in Request, NEW a \in Steps, NEW b \in SUBSET Punches, NEW l \in BOOLEAN
  PROVE  [q EXCEPT !.op = "ingest", !.at = a, !.batch = b, !.todo = b, !.linked = l] \in Request
BY DEF Request, Ops

LEMMA HandledTyped ==
  ASSUME NEW q \in Request, NEW t \in SUBSET Punches, NEW e \in SUBSET Punches,
         NEW n \in SUBSET Punches
  PROVE  [q EXCEPT !.todo = t, !.errors = e, !.new = n] \in Request
BY DEF Request

LEMMA AddTyped ==
  ASSUME NEW q \in Request, NEW b \in SUBSET Punches
  PROVE  [q EXCEPT !.op = "add", !.at = "plan", !.batch = b] \in Request
BY DEF Request, Ops, Steps

LEMMA VoidTyped ==
  ASSUME NEW q \in Request, NEW b \in SUBSET Punches, NEW ds \in SUBSET Dates
  PROVE  [q EXCEPT !.op = "void", !.at = "plan", !.batch = b, !.days = ds] \in Request
BY DEF Request, Ops, Steps

LEMMA ReprocessTyped ==
  ASSUME NEW q \in Request, NEW from \in Dates, NEW to \in Dates, NEW refresh \in BOOLEAN
  PROVE  [q EXCEPT !.op = "reprocess", !.at = "plan", !.from = from, !.to = to,
                   !.refresh = refresh] \in Request
BY DEF Request, Ops, Steps

LEMMA PlanTyped ==
  ASSUME NEW q \in Request, NEW pl \in [Dates -> Snapshots], NEW d \in Dates
  PROVE  [q EXCEPT !.plan = pl, !.asof = d] \in Request
BY DEF Request

LEMMA TodoTyped ==
  ASSUME NEW q \in Request, NEW a \in Steps, NEW t \in SUBSET Punches
  PROVE  /\ [q EXCEPT !.todo = t] \in Request
         /\ [q EXCEPT !.at = a, !.todo = t] \in Request
BY DEF Request

LEMMA DaysTyped ==
  ASSUME NEW q \in Request, NEW a \in Steps, NEW ds \in SUBSET Dates
  PROVE  [q EXCEPT !.at = a, !.days = ds] \in Request
BY DEF Request

LEMMA ScanTyped ==
  ASSUME NEW q \in Request, NEW a \in Steps, NEW t \in SUBSET Punches,
         NEW s \in [Punches -> Dates \cup {NoDate}], NEW ds \in SUBSET Dates
  PROVE  [q EXCEPT !.at = a, !.todo = t, !.seen = s, !.days = ds] \in Request
BY DEF Request

LEMMA DateTyped ==
  ASSUME NEW q \in Request, NEW t \in SUBSET Punches, NEW ds \in SUBSET Dates
  PROVE  [q EXCEPT !.todo = t, !.days = ds] \in Request
BY DEF Request

LEMMA EndDatesTyped ==
  ASSUME NEW q \in Request, NEW a \in Steps,
         NEW s \in [Punches -> Dates \cup {NoDate}], NEW ds \in SUBSET Dates
  PROVE  [q EXCEPT !.at = a, !.days = ds, !.seen = s] \in Request
BY DEF Request

LEMMA MarkTyped ==
  ASSUME NEW q \in Request, NEW a \in Steps, NEW t \in SUBSET Punches,
         NEW pl \in [Dates -> Snapshots]
  PROVE  [q EXCEPT !.at = a, !.todo = t, !.plan = pl] \in Request
BY DEF Request

\* The fields of a typed request.
LEMMA RequestFields ==
  ASSUME NEW q \in Request
  PROVE  /\ q.op \in Ops /\ q.at \in Steps /\ q.batch \in SUBSET Punches
         /\ q.todo \in SUBSET Punches /\ q.errors \in SUBSET Punches
         /\ q.new \in SUBSET Punches /\ q.linked \in BOOLEAN
         /\ q.known \in [Punches -> RawStatus] /\ q.plan \in [Dates -> Snapshots]
         /\ q.seen \in [Punches -> Dates \cup {NoDate}] /\ q.days \in SUBSET Dates
         /\ q.from \in Dates /\ q.to \in Dates /\ q.refresh \in BOOLEAN /\ q.asof \in Dates
BY DEF Request

\* A step that changes the memory of one worker, and typed tables, keeps TypeOK.
LEMMA ContinueTyped ==
  ASSUME TypeOK, NEW r \in Workers, NEW m \in Request, Continue(r, m)
  PROVE  req' \in [Workers -> Request]
BY DEF TypeOK, Continue

LEMMA QuietTyped ==
  ASSUME TypeOK, NEW r \in Workers, NEW m \in Request, Continue(r, m),
         UNCHANGED <<tables, world, acked, dropped, faults, history>>
  PROVE  TypeOK'
BY ContinueTyped DEF TypeOK, tables, world, history

LEMMA PlannerTyped ==
  ASSUME TypeOK, NEW refresh
  PROVE  Planner(refresh) \in [Dates -> Snapshots]
BY RosterAssumption DEF TypeOK, Planner

\* A request given up leaves only a set of dates behind.
LEMMA GiveUpTyped ==
  ASSUME TypeOK, NEW r \in Workers, GiveUp(r)
  PROVE  req' \in [Workers -> Request] /\ dropped' \subseteq Dates /\ crossed' \subseteq Workers \X Dates
<1>1. req[r] \in Request BY DEF TypeOK
<1>2. req[r].days \subseteq Dates BY <1>1, RequestFields
<1>3. req' \in [Workers -> Request] BY IdleTyped, ContinueTyped DEF GiveUp, Finish
<1>4. dropped' \subseteq Dates BY <1>2 DEF GiveUp, TypeOK
<1>5. crossed' \subseteq Workers \X Dates BY DEF GiveUp, Uncrossed, TypeOK
<1> QED BY <1>3, <1>4, <1>5

LEMMA IngestTyped ==
  ASSUME TypeOK, NEW r \in Workers, Ingest(r)
  PROVE  TypeOK'
<1>0. req[r] \in Request BY DEF TypeOK
<1>1. CASE PostBatch(r)
  <2>1. PICK b \in SUBSET {p \in Device : Arrived(p)} \ {{}} :
           Continue(r, [Idle EXCEPT !.op = "ingest", !.at = "lookup", !.batch = b,
                                    !.todo = b, !.linked = registered])
    BY <1>1 DEF PostBatch
  <2>2. b \in SUBSET Punches /\ registered \in BOOLEAN BY DEF Punches, TypeOK
  <2>3. "lookup" \in Steps BY DEF Steps
  <2>4. [Idle EXCEPT !.op = "ingest", !.at = "lookup", !.batch = b,
                     !.todo = b, !.linked = registered] \in Request
    BY <2>2, <2>3, IdleTyped, BatchTyped
  <2> QED BY <1>1, <2>1, <2>4, QuietTyped DEF PostBatch
<1>2. CASE LookUp(r)
  <2> DEFINE k == [p \in Punches |-> IF p \in req[r].batch THEN raw[p] ELSE "none"]
  <2>1. k \in [Punches -> RawStatus] BY DEF RawStatus, TypeOK
  <2> HIDE DEF k
  <2>2. "store" \in Steps BY DEF Steps
  <2>3. [req[r] EXCEPT !.at = "store", !.known = k] \in Request
    BY <1>0, <2>1, <2>2, KnownTyped
  <2> QED BY <1>2, <2>3, QuietTyped DEF LookUp, k
<1>3. CASE EndStore(r)
  <2> DEFINE a == IF req[r].new = {} THEN "reply" ELSE "plan"
  <2>1. NotKnown \in [Punches -> RawStatus] BY DEF NotKnown, RawStatus
  <2>2. a \in Steps BY DEF Steps
  <2> HIDE DEF a
  <2>3. [req[r] EXCEPT !.at = a, !.known = NotKnown] \in Request
    BY <1>0, <2>1, <2>2, KnownTyped
  <2> QED BY <1>3, <2>3, QuietTyped DEF EndStore, a
<1>4. ASSUME NEW p \in Device, ResendUnresolved(r, p) \/ SkipKnown(r, p) \/ StorePunch(r, p)
      PROVE  TypeOK'
  <2>1. p \in Punches BY DEF Punches
  <2>2. ASSUME NEW e \in {{}, {p}}, NEW n \in {{}, {p}}, Handled(r, p, e, n)
        PROVE  req' \in [Workers -> Request]
    <3>1. /\ req[r].todo \ {p} \in SUBSET Punches
          /\ req[r].errors \cup e \in SUBSET Punches
          /\ req[r].new \cup n \in SUBSET Punches
      BY <1>0, <2>1, RequestFields
    <3>2. [req[r] EXCEPT !.todo = req[r].todo \ {p}, !.errors = req[r].errors \cup e,
                         !.new = req[r].new \cup n] \in Request
      BY <1>0, <3>1, HandledTyped
    <3> QED BY <2>2, <3>2, ContinueTyped DEF Handled
  <2>3. CASE ResendUnresolved(r, p)
    BY <2>1, <2>2, <2>3, GiveUpTyped
       DEF ResendUnresolved, TypeOK, RawStatus, EventStatus, tables, world, history
  <2>4. CASE SkipKnown(r, p)
    BY <2>2, <2>4 DEF SkipKnown, TypeOK, tables, world, history
  <2>5. CASE StorePunch(r, p)
    BY <2>1, <2>2, <2>5 DEF StorePunch, TypeOK, RawStatus, EventStatus, tables, world, history
  <2> QED BY <1>4, <2>3, <2>4, <2>5
<1>5. ASSUME NEW p \in Punches, MarkProcessed(r, p) PROVE TypeOK'
  <2>1. req[r].todo \ {p} \in SUBSET Punches BY <1>0, RequestFields
  <2>2. [req[r] EXCEPT !.todo = req[r].todo \ {p}] \in Request BY <1>0, <2>1, TodoTyped DEF Steps
  <2>3. req' \in [Workers -> Request] BY <1>5, <2>2, ContinueTyped DEF MarkProcessed
  <2> QED BY <1>5, <2>3 DEF MarkProcessed, TypeOK, RawStatus, world, history
<1>6. CASE EndMark(r)
  BY <1>0, <1>6, AtTyped, QuietTyped DEF EndMark, Steps
<1>7. CASE Reply(r)
  <2>1. req' \in [Workers -> Request] BY <1>7, IdleTyped, ContinueTyped DEF Reply, Finish
  <2>2. acked' \subseteq Punches BY <1>0, <1>7, RequestFields DEF Reply, TypeOK
  <2> QED BY <1>7, <2>1, <2>2 DEF Reply, TypeOK, tables, world, history
<1> QED BY <1>1, <1>2, <1>3, <1>4, <1>5, <1>6, <1>7 DEF Ingest

\* The processing half: planner, scan, dating and the rebuild of each day.
LEMMA ProcessTyped ==
  ASSUME TypeOK, NEW r \in Workers, Process(r)
  PROVE  TypeOK'
<1>0. req[r] \in Request BY DEF TypeOK
<1>1. ASSUME NEW m \in Request, Plans(r, m) PROVE TypeOK'
  <2>1. today \in Dates BY PunchAssumption, BoundAssumption DEF TypeOK, Dates
  <2>2. Planner(req[r].refresh) \in [Dates -> Snapshots] BY PlannerTyped
  <2> DEFINE pl == Planner(req[r].refresh)
  <2> HIDE DEF pl
  <2>3. [m EXCEPT !.plan = pl, !.asof = today] \in Request
    BY <2>1, <2>2, PlanTyped DEF pl
  <2> QED BY <1>1, <2>3, QuietTyped DEF Plans, pl
<1>2. CASE PlanIngest(r)
  <2>1. [req[r] EXCEPT !.at = "date", !.todo = req[r].new] \in Request
    BY <1>0, RequestFields, TodoTyped DEF Steps
  <2> QED BY <1>1, <1>2, <2>1 DEF PlanIngest
<1>3. CASE PlanReprocess(r)
  BY <1>0, <1>1, <1>3, AtTyped DEF PlanReprocess, Steps
<1>4. CASE PlanVoid(r)
  BY <1>0, <1>1, <1>4, AtTyped DEF PlanVoid, Steps
<1>5. ASSUME NEW p \in Punches, PlanAdd(r, p) PROVE TypeOK'
  <2> DEFINE d == WorkDateFor(Planner(FALSE), Time[p])
  <2>1. d \in Dates BY WorkDateTyped
  <2> HIDE DEF d
  <2>2. [req[r] EXCEPT !.at = "rebuild", !.days = {d}] \in Request
    BY <1>0, <2>1, DaysTyped DEF Steps
  <2> QED BY <1>1, <1>5, <2>2 DEF PlanAdd, d
<1>6. ASSUME NEW p \in Punches, SetDate(r, p) PROVE TypeOK'
  <2> DEFINE wd == WorkDateFor(req[r].plan, Time[p])
             ds == req[r].days \cup {wd} \cup ({req[r].seen[p]} \ {NoDate})
  <2>1. wd \in Dates BY WorkDateTyped
  <2>2. req[r].todo \ {p} \in SUBSET Punches /\ req[r].seen[p] \in Dates \cup {NoDate}
    BY <1>0, RequestFields
  <2>3. ds \in SUBSET Dates BY <1>0, <2>1, <2>2, RequestFields
  <2>4. /\ date' = IF req[r].seen[p] = wd THEN date ELSE [date EXCEPT ![p] = wd]
        /\ Continue(r, [req[r] EXCEPT !.todo = req[r].todo \ {p}, !.days = ds])
    BY <1>6 DEF SetDate
  <2> HIDE DEF wd, ds
  <2>5. [req[r] EXCEPT !.todo = req[r].todo \ {p}, !.days = ds] \in Request
    BY <1>0, <2>2, <2>3, DateTyped
  <2>6. req' \in [Workers -> Request] BY <2>4, <2>5, ContinueTyped
  <2>7. date' \in [Punches -> Dates \cup {NoDate}] BY <2>1, <2>4 DEF TypeOK
  <2>8. stranded' \subseteq Dates
    <3>1. date[p] \in Dates \cup {NoDate} BY DEF TypeOK
    <3> QED BY <1>6, <3>1 DEF SetDate, TypeOK
  <2> QED BY <1>6, <2>6, <2>7, <2>8 DEF SetDate, TypeOK, world
<1>7. CASE Scan(r)
  <2> DEFINE found == {p \in Punches : /\ event[p] = "active"
                                       /\ DateOf(Time[p]) \in req[r].from - 1 .. req[r].to + 1}
             s  == [p \in Punches |-> IF p \in found THEN date[p] ELSE NoDate]
             ds == req[r].from .. req[r].to
  <2>1. found \in SUBSET Punches OBVIOUS
  <2>2. s \in [Punches -> Dates \cup {NoDate}] BY DEF TypeOK
  <2>3. ds \in SUBSET Dates BY <1>0, PunchAssumption, RequestFields DEF Dates
  <2>4. Continue(r, [req[r] EXCEPT !.at = "date", !.todo = found, !.seen = s, !.days = ds])
    BY <1>7 DEF Scan
  <2> HIDE DEF found, s, ds
  <2>5. [req[r] EXCEPT !.at = "date", !.todo = found, !.seen = s, !.days = ds] \in Request
    BY <1>0, <2>1, <2>2, <2>3, ScanTyped DEF Steps
  <2> QED BY <1>7, <2>4, <2>5, QuietTyped DEF Scan
<1>8. CASE EndDates(r)
  <2> DEFINE late == {d \in req[r].days : req[r].op = "reprocess" /\ d > req[r].asof}
             left == req[r].days \ late
  <2>1. req[r].days \subseteq Dates BY <1>0, RequestFields
  <2>2. left \in SUBSET Dates /\ late \subseteq Dates BY <2>1
  <2>3. NothingSeen \in [Punches -> Dates \cup {NoDate}] BY DEF NothingSeen
  <2>4. /\ Continue(r, [req[r] EXCEPT !.at = "rebuild", !.days = left, !.seen = NothingSeen])
        /\ dropped' = dropped \cup {d \in late : holds[d] # Dated(d)}
    BY <1>8 DEF EndDates
  <2> HIDE DEF late, left
  <2>5. [req[r] EXCEPT !.at = "rebuild", !.days = left, !.seen = NothingSeen] \in Request
    BY <1>0, <2>2, <2>3, EndDatesTyped DEF Steps
  <2>6. req' \in [Workers -> Request] BY <2>4, <2>5, ContinueTyped
  <2>7. dropped' \subseteq Dates BY <2>2, <2>4 DEF TypeOK
  <2>8. crossed' \subseteq Workers \X Dates BY <1>8 DEF EndDates, TypeOK
  <2> QED BY <1>8, <2>6, <2>7, <2>8 DEF EndDates, TypeOK, tables, world
<1>9. ASSUME NEW d \in Dates, FindRow(r, d) PROVE TypeOK'
  BY <1>0, <1>9, AtTyped, QuietTyped DEF FindRow, Steps
<1>10. ASSUME NEW d \in Dates, RowGone(r, d) PROVE TypeOK'
  BY <1>10, GiveUpTyped DEF RowGone, TypeOK, tables, world
<1>11. ASSUME NEW d \in Dates, NEW ev \in [Punches -> EventStatus],
              NEW dt \in [Punches -> Dates \cup {NoDate}],
              raw' \in [Punches -> RawStatus], stranded' \subseteq Dates,
              ProcessDay(r, d, ev, dt)
       PROVE  TypeOK'
  <2> DEFINE on == DatedIn(ev, dt, d)
             nothing == on = {} /\ (req[r].plan[d] = NoShift \/ d > today)
  <2>1. on \in SUBSET Punches BY DEF DatedIn
  <2>2. req[r].days \ {d} \in SUBSET Dates /\ req[r].plan[d] \in Snapshots /\ NoShift \in Snapshots
    BY <1>0, RequestFields DEF Snapshots
  <2>3. /\ event' = ev /\ date' = dt
        /\ rows' = IF nothing THEN rows \ {d} ELSE rows \cup {d}
        /\ holds' = [holds EXCEPT ![d] = on]
        /\ snap' = [snap EXCEPT ![d] = IF nothing THEN NoShift ELSE req[r].plan[d]]
        /\ dropped' = dropped \ {d}
        /\ Continue(r, [req[r] EXCEPT !.at = "rebuild", !.days = req[r].days \ {d}])
        /\ UNCHANGED <<world, acked, faults, overtaken>>
    BY <1>11 DEF ProcessDay
  <2>9. crossed' \subseteq Workers \X Dates
    BY <1>11 DEF ProcessDay, Crossing, TypeOK
  <2> HIDE DEF on, nothing
  <2>4. [req[r] EXCEPT !.at = "rebuild", !.days = req[r].days \ {d}] \in Request
    BY <1>0, <2>2, DaysTyped DEF Steps
  <2>5. req' \in [Workers -> Request] BY <2>3, <2>4, ContinueTyped
  <2>6. rows' \subseteq Dates /\ dropped' \subseteq Dates BY <2>3 DEF TypeOK
  <2>7. holds' \in [Dates -> SUBSET Punches] BY <2>1, <2>3 DEF TypeOK
  <2>8. snap' \in [Dates -> Snapshots] BY <2>2, <2>3 DEF TypeOK
  <2> QED BY <1>11, <2>3, <2>5, <2>6, <2>7, <2>8, <2>9 DEF TypeOK, world
<1>12. ASSUME NEW d \in Dates, RebuildDay(r, d) PROVE TypeOK'
  BY <1>11, <1>12 DEF RebuildDay, TypeOK
<1>13. ASSUME NEW p \in Punches, NEW d \in Dates, AddAndRebuild(r, p, d) PROVE TypeOK'
  <2>1. /\ [event EXCEPT ![p] = "active"] \in [Punches -> EventStatus]
        /\ [date EXCEPT ![p] = d] \in [Punches -> Dates \cup {NoDate}]
        /\ raw' \in [Punches -> RawStatus] /\ stranded' \subseteq Dates
    BY <1>13 DEF AddAndRebuild, TypeOK, EventStatus, RawStatus
  <2> QED BY <1>11, <1>13, <2>1 DEF AddAndRebuild
<1>14. ASSUME NEW p \in Punches, NEW d \in Dates, VoidAndRebuild(r, p, d) PROVE TypeOK'
  <2>1. /\ [event EXCEPT ![p] = "void"] \in [Punches -> EventStatus]
        /\ date \in [Punches -> Dates \cup {NoDate}]
        /\ raw' \in [Punches -> RawStatus] /\ stranded' \subseteq Dates
    BY <1>14 DEF VoidAndRebuild, TypeOK, EventStatus
  <2> QED BY <1>11, <1>14, <2>1 DEF VoidAndRebuild
<1>15. CASE EndRebuild(r)
  <2>1. NoPlan \in [Dates -> Snapshots] BY DEF NoPlan, Snapshots
  <2>2. [req[r] EXCEPT !.at = "mark", !.todo = req[r].new, !.plan = NoPlan] \in Request
    BY <1>0, <2>1, RequestFields, MarkTyped DEF Steps
  <2>3. req' \in [Workers -> Request] BY <1>15, <2>2, IdleTyped, ContinueTyped DEF EndRebuild
  <2>4. crossed' \subseteq Workers \X Dates BY <1>15 DEF EndRebuild, Uncrossed, TypeOK
  <2> QED BY <1>15, <2>3, <2>4 DEF EndRebuild, TypeOK, tables, world
<1> QED BY <1>2, <1>3, <1>4, <1>5, <1>6, <1>7, <1>8, <1>9, <1>10, <1>12, <1>13, <1>14, <1>15
        DEF Process

LEMMA AdminTyped ==
  ASSUME TypeOK, NEW r \in Workers, Admin(r) \/ NightlyJob(r) \/ Die(r)
  PROVE  TypeOK'
<1>1. ASSUME NEW from \in Dates, NEW to \in Dates, NEW refresh \in BOOLEAN,
             Reprocess(r, from, to, refresh)
      PROVE  req' \in [Workers -> Request]
  BY <1>1, IdleTyped, ReprocessTyped, ContinueTyped DEF Reprocess
<1>2. ASSUME NEW p \in SelfService \cup Manual, AddPunch(r, p) PROVE TypeOK'
  <2>1. [Idle EXCEPT !.op = "add", !.at = "plan", !.batch = {p}] \in Request
    BY IdleTyped, AddTyped DEF Punches
  <2> QED BY <1>2, <2>1, QuietTyped DEF AddPunch
<1>3. ASSUME NEW p \in Punches, VoidEvent(r, p) PROVE TypeOK'
  <2>1. date[p] \in Dates BY <1>3 DEF VoidEvent, TypeOK
  <2>2. [Idle EXCEPT !.op = "void", !.at = "plan", !.batch = {p}, !.days = {date[p]}] \in Request
    BY <2>1, IdleTyped, VoidTyped
  <2> QED BY <1>3, <2>2, QuietTyped DEF VoidEvent
<1>4. CASE ReprocessRange(r)
  <2>1. PICK asked \in Recalculations : Reprocess(r, asked[1], asked[2], asked[3])
    BY <1>4 DEF ReprocessRange
  <2>2. asked[1] \in Dates /\ asked[2] \in Dates /\ asked[3] \in BOOLEAN
    BY RecalculationAssumption
  <2>3. req' \in [Workers -> Request] BY <1>1, <2>1, <2>2
  <2> QED BY <1>4, <2>3 DEF ReprocessRange, TypeOK, tables, world, history
<1>5. CASE NightlyJob(r)
  <2>1. today \in Dates /\ today - 1 \in Dates
    BY PunchAssumption, BoundAssumption DEF TypeOK, Dates
  <2>2. req' \in [Workers -> Request] BY <1>1, <1>5, <2>1 DEF NightlyJob
  <2> QED BY <1>5, <2>1, <2>2 DEF NightlyJob, TypeOK, tables, history
<1>6. CASE Die(r)
  <2>1. faults' \in 0 .. MaxFaults BY <1>6, BoundAssumption DEF Die, TypeOK
  <2> QED BY <1>6, <2>1, GiveUpTyped DEF Die, TypeOK, tables, world
<1> QED BY <1>2, <1>3, <1>4, <1>5, <1>6 DEF Admin

LEMMA InitTyped == Init => TypeOK
<1> SUFFICES ASSUME Init PROVE TypeOK OBVIOUS
<1>1. NoPlan \in [Dates -> Snapshots] BY DEF NoPlan, Snapshots
<1>2. req \in [Workers -> Request] BY IdleTyped DEF Init
<1>3. today \in 1 .. LastDay /\ nightly \in Dates
  BY PunchAssumption, BoundAssumption DEF Init, Dates
<1>4. faults \in 0 .. MaxFaults /\ edits \in 0 .. MaxEdits BY BoundAssumption DEF Init
<1> QED BY <1>1, <1>2, <1>3, <1>4 DEF Init, TypeOK, RawStatus, EventStatus

LEMMA NextTyped == TypeOK /\ [Next]_vars => TypeOK'
<1> SUFFICES ASSUME TypeOK, [Next]_vars PROVE TypeOK' OBVIOUS
<1>1. ASSUME NEW r \in Workers, Ingest(r) \/ Process(r) \/ Admin(r) \/ NightlyJob(r) \/ Die(r)
      PROVE  TypeOK'
  BY <1>1, IngestTyped, ProcessTyped, AdminTyped
<1>2. CASE Register BY <1>2 DEF Register, TypeOK, tables, history
<1>3. CASE EditRoster
  <2>1. edits' \in 0 .. MaxEdits BY <1>3, BoundAssumption DEF EditRoster, TypeOK
  <2> QED BY <1>3, <2>1 DEF EditRoster, TypeOK, tables, history
<1>4. CASE NextDay
  <2>1. today' \in 1 .. LastDay BY <1>4, BoundAssumption DEF NextDay, TypeOK
  <2> QED BY <1>4, <2>1 DEF NextDay, TypeOK, tables, history
<1>5. CASE UNCHANGED vars BY <1>5 DEF vars, tables, world, history, TypeOK
<1> QED BY <1>1, <1>2, <1>3, <1>4, <1>5 DEF Next

\* Every variable keeps its type: the requests of any number of workers only
\* write well-formed rows, and a work date never leaves the dates the planner
\* loaded (work_date_for, set_event_dates, save_daily).
THEOREM TypeCorrect == Spec => []TypeOK
BY InitTyped, NextTyped, PTL DEF Spec

----------------------------------------------------------------------------
(* The ledger.  LedgerConsistent and AckedIsStored are not inductive: they    *)
(* rest on what each request remembers of the tables still being true of them *)
(* when it acts on it, whatever the other requests have done since.            *)

\* What an ingest knows of its batch: punches that turned up in its lookup or
\* that it has handled are stored, those it made an event for are in new, and
\* those it has dated have a work date.
IngestSound(q, rw, ev, dt) ==
  /\ q.new \subseteq Device /\ \A p \in q.new : ev[p] # "none"
  /\ \A p \in Punches : q.seen[p] = NoDate
  /\ q.at = "lookup" => q.todo = q.batch
  /\ q.at = "store" => /\ \A p \in Punches : q.known[p] # "none" => rw[p] # "none"
                       /\ \A p \in q.batch \ q.todo : rw[p] # "none"
  /\ q.at \notin {"lookup", "store"} => \A p \in q.batch : rw[p] # "none"
  /\ q.at = "date" => /\ q.todo \subseteq q.new
                      /\ \A p \in q.new \ q.todo : dt[p] # NoDate
  /\ q.at \in {"rebuild", "lock", "mark", "reply"} => \A p \in q.new : dt[p] # NoDate
  /\ q.at = "mark" => q.todo \subseteq q.new

RequestSound(q, rw, ev, dt) ==
  /\ q.at \in {"lookup", "store", "mark", "reply"} => q.op = "ingest"
  /\ q.at = "scan" => q.op = "reprocess"
  /\ q.op = "add" => q.batch \cap Device = {}
  /\ q.op = "void" => \A p \in q.batch : ev[p] # "none"
  /\ q.op = "ingest" => IngestSound(q, rw, ev, dt)

LedgerInv ==
  /\ TypeOK
  /\ LedgerConsistent
  /\ AckedIsStored
  /\ \A w \in Workers : RequestSound(req[w], raw, event, date)

\* No request takes a row back: what is stored, made or dated stays so.
Kept(rw, ev, dt, rw2, ev2, dt2) ==
  \A p \in Punches : /\ rw[p] # "none" => rw2[p] # "none"
                     /\ ev[p] # "none" => ev2[p] # "none"
                     /\ dt[p] # NoDate => dt2[p] # NoDate

\* What a request knows survives the steps of the others.
LEMMA SoundKept ==
  ASSUME NEW q \in Request, NEW rw, NEW ev, NEW dt, NEW rw2, NEW ev2, NEW dt2,
         Kept(rw, ev, dt, rw2, ev2, dt2), RequestSound(q, rw, ev, dt)
  PROVE  RequestSound(q, rw2, ev2, dt2)
<1>1. q.batch \subseteq Punches /\ q.new \subseteq Punches BY RequestFields
<1>2. q.op = "ingest" => IngestSound(q, rw2, ev2, dt2)
  BY <1>1 DEF RequestSound, IngestSound, Kept
<1> QED BY <1>1, <1>2 DEF RequestSound, Kept

LEMMA IdleSound ==
  ASSUME NEW rw, NEW ev, NEW dt
  PROVE  RequestSound(Idle, rw, ev, dt)
BY DEF Idle, RequestSound

\* The step of worker r, from what it writes into its own memory.
LEMMA StepSound ==
  ASSUME LedgerInv, NEW r \in Workers, NEW m \in Request, Continue(r, m),
         Kept(raw, event, date, raw', event', date'),
         RequestSound(m, raw', event', date')
  PROVE  \A w \in Workers : RequestSound(req'[w], raw', event', date')
<1> SUFFICES ASSUME NEW w \in Workers PROVE RequestSound(req'[w], raw', event', date')
  OBVIOUS
<1>1. req[w] \in Request /\ req \in [Workers -> Request] BY DEF LedgerInv, TypeOK
<1>2. RequestSound(req[w], raw', event', date') BY <1>1, SoundKept DEF LedgerInv
<1>3. req'[w] = IF w = r THEN m ELSE req[w] BY <1>1 DEF Continue
<1> QED BY <1>2, <1>3

\* A step that changes no table leaves the ledger as it was.
LEMMA QuietLedger ==
  ASSUME LedgerInv, TypeOK', NEW r \in Workers, NEW m \in Request, Continue(r, m),
         UNCHANGED <<tables, acked>>, RequestSound(m, raw, event, date)
  PROVE  LedgerInv'
<1>1. /\ raw' = raw /\ event' = event /\ date' = date /\ acked' = acked
  BY DEF tables
<1>2. Kept(raw, event, date, raw', event', date') BY <1>1 DEF Kept
<1>3. \A w \in Workers : RequestSound(req'[w], raw', event', date')
  BY <1>1, <1>2, StepSound
<1>4. LedgerConsistent' /\ AckedIsStored'
  BY <1>1 DEF LedgerInv, LedgerConsistent, AckedIsStored
<1> QED BY <1>3, <1>4 DEF LedgerInv

LEMMA IngestLedger ==
  ASSUME LedgerInv, TypeOK', NEW r \in Workers, Ingest(r)
  PROVE  LedgerInv'
<1> DEFINE q == req[r]
<1>0. /\ q \in Request /\ RequestSound(q, raw, event, date)
      /\ raw \in [Punches -> RawStatus] /\ event \in [Punches -> EventStatus]
      /\ date \in [Punches -> Dates \cup {NoDate}]
      /\ Device \subseteq Punches
  BY DEF LedgerInv, TypeOK, Punches
<1> HIDE DEF q
<1>1. CASE PostBatch(r)
  <2>1. PICK b \in SUBSET {p \in Device : Arrived(p)} \ {{}} :
           Continue(r, [Idle EXCEPT !.op = "ingest", !.at = "lookup", !.batch = b,
                                    !.todo = b, !.linked = registered])
    BY <1>1 DEF PostBatch
  <2> DEFINE m == [Idle EXCEPT !.op = "ingest", !.at = "lookup", !.batch = b,
                               !.todo = b, !.linked = registered]
  <2>2. b \in SUBSET Punches /\ registered \in BOOLEAN BY DEF Punches, LedgerInv, TypeOK
  <2>3. m \in Request BY <2>2, IdleTyped, BatchTyped DEF Steps
  <2>4. /\ m.op = "ingest" /\ m.at = "lookup" /\ m.batch = b /\ m.todo = b
        /\ m.new = {} /\ m.seen = NothingSeen
    BY DEF Idle
  <2> HIDE DEF m
  <2>5. RequestSound(m, raw, event, date)
    BY <2>4 DEF RequestSound, IngestSound, NothingSeen
  <2> QED BY <1>1, <2>1, <2>3, <2>5, QuietLedger DEF PostBatch, m
<1>2. CASE LookUp(r)
  <2> DEFINE k == [p \in Punches |-> IF p \in q.batch THEN raw[p] ELSE "none"]
             m == [q EXCEPT !.at = "store", !.known = k]
  <2>1. k \in [Punches -> RawStatus] BY <1>0 DEF RawStatus
  <2>2. m \in Request BY <1>0, <2>1, KnownTyped DEF Steps
  <2>3. /\ m.at = "store" /\ m.known = k /\ m.op = q.op /\ m.batch = q.batch
        /\ m.todo = q.todo /\ m.new = q.new /\ m.seen = q.seen
    BY <1>0 DEF Request
  <2>4. q.at = "lookup" /\ Continue(r, m) BY <1>2 DEF LookUp, q
  <2>5. \A p \in Punches : k[p] # "none" => raw[p] # "none" OBVIOUS
  <2> HIDE DEF m, k
  <2>6. RequestSound(m, raw, event, date)
    BY <1>0, <2>3, <2>4, <2>5 DEF RequestSound, IngestSound
  <2> QED BY <1>2, <2>2, <2>4, <2>6, QuietLedger DEF LookUp
<1>3. CASE EndStore(r)
  <2> DEFINE a == IF q.new = {} THEN "reply" ELSE "plan"
             m == [q EXCEPT !.at = a, !.known = NotKnown]
  <2>1. a \in Steps /\ NotKnown \in [Punches -> RawStatus]
    BY DEF Steps, NotKnown, RawStatus
  <2>2. q.at = "store" /\ q.todo = {} /\ Continue(r, m) BY <1>3 DEF EndStore, q
  <2>3. a \in {"reply", "plan"} /\ (a = "reply" => q.new = {}) OBVIOUS
  <2> HIDE DEF a
  <2>4. m \in Request BY <1>0, <2>1, KnownTyped
  <2>5. /\ m.at = a /\ m.op = q.op /\ m.batch = q.batch
        /\ m.todo = q.todo /\ m.new = q.new /\ m.seen = q.seen
    BY <1>0 DEF Request
  <2> HIDE DEF m
  <2>6. RequestSound(m, raw, event, date)
    BY <1>0, <2>2, <2>3, <2>5 DEF RequestSound, IngestSound
  <2> QED BY <1>3, <2>2, <2>4, <2>6, QuietLedger DEF EndStore
<1>4. ASSUME NEW p \in Device, ResendUnresolved(r, p) \/ SkipKnown(r, p) \/ StorePunch(r, p)
      PROVE  LedgerInv'
  \* One turn of the loop: p is stored afterwards, and new if it has its event.
  <2>1. ASSUME NEW e \in {{}, {p}}, NEW n \in {{}, {p}}, Handled(r, p, e, n),
               q.at = "store", p \in q.todo, acked' = acked,
               Kept(raw, event, date, raw', event', date'),
               raw'[p] # "none", n = {p} => event'[p] # "none", LedgerConsistent'
        PROVE  LedgerInv'
    <3> DEFINE m == [q EXCEPT !.todo = q.todo \ {p}, !.errors = q.errors \cup e,
                              !.new = q.new \cup n]
    <3>1. /\ q.todo \ {p} \in SUBSET Punches /\ q.errors \cup e \in SUBSET Punches
          /\ q.new \cup n \in SUBSET Punches
      BY <1>0, RequestFields
    <3>2. m \in Request BY <1>0, <3>1, HandledTyped
    <3>3. /\ m.at = q.at /\ m.op = q.op /\ m.batch = q.batch /\ m.known = q.known
          /\ m.todo = q.todo \ {p} /\ m.new = q.new \cup n /\ m.seen = q.seen
      BY <1>0 DEF Request
    <3>4. Continue(r, m) BY <2>1 DEF Handled, q
    <3> HIDE DEF m
    <3>5. RequestSound(q, raw', event', date') BY <1>0, <2>1, SoundKept
    <3>6. RequestSound(m, raw', event', date')
      BY <2>1, <3>3, <3>5 DEF RequestSound, IngestSound
    <3>7. \A w \in Workers : RequestSound(req'[w], raw', event', date')
      BY <2>1, <3>2, <3>4, <3>6, StepSound
    <3>8. AckedIsStored'
      BY <2>1 DEF LedgerInv, AckedIsStored, TypeOK, Kept
    <3> QED BY <2>1, <3>7, <3>8 DEF LedgerInv
  <2>2. q.at = "store" /\ p \in q.todo /\ acked' = acked
    BY <1>4 DEF ResendUnresolved, SkipKnown, StorePunch, q
  <2>3. q.known[p] # "none" => raw[p] # "none"
    BY <1>0, <2>2 DEF RequestSound, IngestSound
  <2>4. LedgerConsistent BY DEF LedgerInv
  <2>5. CASE ResendUnresolved(r, p)
    <3>1. CASE ~q.linked
      <4>1. UNCHANGED tables /\ Handled(r, p, {p}, {}) BY <2>5, <3>1 DEF ResendUnresolved, q
      <4> QED BY <2>1, <2>2, <2>3, <2>4, <2>5, <4>1
              DEF ResendUnresolved, tables, Kept, LedgerConsistent, q
    <3>2. CASE q.linked /\ event[p] = "none"
      <4>1. /\ raw' = [raw EXCEPT ![p] = "pending"] /\ event' = [event EXCEPT ![p] = "active"]
            /\ date' = date /\ Handled(r, p, {}, {p})
        BY <2>5, <3>2 DEF ResendUnresolved, q
      <4>2. /\ Kept(raw, event, date, raw', event', date')
            /\ raw'[p] # "none" /\ event'[p] # "none"
        BY <1>0, <4>1 DEF Kept
      <4>3. LedgerConsistent' BY <1>0, <2>4, <4>1 DEF LedgerConsistent
      <4> QED BY <2>1, <2>2, <4>1, <4>2, <4>3
    <3>3. CASE q.linked /\ event[p] # "none"
      <4>1. UNCHANGED tables /\ GiveUp(r) BY <2>5, <3>3 DEF ResendUnresolved, q
      <4> QED BY <2>2, <4>1, IdleTyped, IdleSound, QuietLedger DEF GiveUp, Finish
    <3> QED BY <3>1, <3>2, <3>3
  <2>6. CASE SkipKnown(r, p)
    <3>1. UNCHANGED tables /\ Handled(r, p, {}, {}) /\ q.known[p] # "none"
      BY <2>6 DEF SkipKnown, q
    <3> QED BY <2>1, <2>2, <2>3, <2>4, <3>1 DEF tables, Kept, LedgerConsistent
  <2>7. CASE StorePunch(r, p)
    <3>1. CASE raw[p] # "none"
      <4>1. UNCHANGED tables /\ Handled(r, p, {}, {}) BY <2>7, <3>1 DEF StorePunch
      <4> QED BY <2>1, <2>2, <2>4, <3>1, <4>1 DEF tables, Kept, LedgerConsistent
    <3>2. CASE raw[p] = "none" /\ q.linked
      <4>1. /\ raw' = [raw EXCEPT ![p] = "pending"] /\ event' = [event EXCEPT ![p] = "active"]
            /\ date' = date /\ Handled(r, p, {}, {p})
        BY <2>7, <3>2 DEF StorePunch, q
      <4>2. /\ Kept(raw, event, date, raw', event', date')
            /\ raw'[p] # "none" /\ event'[p] # "none"
        BY <1>0, <4>1 DEF Kept
      <4>3. LedgerConsistent' BY <1>0, <2>4, <4>1 DEF LedgerConsistent
      <4> QED BY <2>1, <2>2, <4>1, <4>2, <4>3
    <3>3. CASE raw[p] = "none" /\ ~q.linked
      <4>1. /\ raw' = [raw EXCEPT ![p] = "unresolved"] /\ event' = event
            /\ date' = date /\ Handled(r, p, {p}, {})
        BY <2>7, <3>3 DEF StorePunch, q
      <4>2. Kept(raw, event, date, raw', event', date') /\ raw'[p] # "none"
        BY <1>0, <4>1 DEF Kept
      <4>3. LedgerConsistent' BY <1>0, <2>4, <3>3, <4>1 DEF LedgerConsistent
      <4> QED BY <2>1, <2>2, <4>1, <4>2, <4>3
    <3> QED BY <3>1, <3>2, <3>3
  <2> QED BY <1>4, <2>5, <2>6, <2>7
<1>5. ASSUME NEW p \in Punches, MarkProcessed(r, p) PROVE LedgerInv'
  <2> DEFINE m == [q EXCEPT !.todo = q.todo \ {p}]
  <2>1. /\ q.at = "mark" /\ p \in q.todo /\ Continue(r, m)
        /\ raw' = [raw EXCEPT ![p] = "processed"] /\ event' = event /\ date' = date
        /\ acked' = acked
    BY <1>5 DEF MarkProcessed, q
  <2>2. m \in Request BY <1>0, RequestFields, TodoTyped DEF Steps
  <2>3. /\ m.at = q.at /\ m.op = q.op /\ m.batch = q.batch
        /\ m.todo = q.todo \ {p} /\ m.new = q.new /\ m.seen = q.seen
    BY <1>0 DEF Request
  <2> HIDE DEF m
  <2>4. Kept(raw, event, date, raw', event', date') BY <1>0, <2>1 DEF Kept
  <2>5. p \in q.new /\ event[p] # "none" /\ date[p] # NoDate
    BY <1>0, <2>1 DEF RequestSound, IngestSound
  <2>6. RequestSound(q, raw', event', date') BY <1>0, <2>4, SoundKept
  <2>7. RequestSound(m, raw', event', date')
    BY <2>1, <2>3, <2>6 DEF RequestSound, IngestSound
  <2>8. \A w \in Workers : RequestSound(req'[w], raw', event', date')
    BY <2>1, <2>2, <2>4, <2>7, StepSound
  <2>9. LedgerConsistent' BY <1>0, <2>1, <2>5 DEF LedgerInv, LedgerConsistent
  <2>10. AckedIsStored' BY <2>1, <2>4 DEF LedgerInv, AckedIsStored, TypeOK, Kept
  <2> QED BY <2>8, <2>9, <2>10 DEF LedgerInv
<1>6. CASE EndMark(r)
  <2> DEFINE m == [q EXCEPT !.at = "reply"]
  <2>1. q.at = "mark" /\ Continue(r, m) BY <1>6 DEF EndMark, q
  <2>2. m \in Request BY <1>0, AtTyped DEF Steps
  <2>3. /\ m.at = "reply" /\ m.op = q.op /\ m.batch = q.batch /\ m.new = q.new
        /\ m.seen = q.seen
    BY <1>0 DEF Request
  <2> HIDE DEF m
  <2>4. RequestSound(m, raw, event, date)
    BY <1>0, <2>1, <2>3 DEF RequestSound, IngestSound
  <2> QED BY <1>6, <2>1, <2>2, <2>4, QuietLedger DEF EndMark
<1>7. CASE Reply(r)
  <2>1. /\ q.at = "reply" /\ Continue(r, Idle) /\ acked' = acked \cup (q.batch \ q.errors)
        /\ raw' = raw /\ event' = event /\ date' = date
    BY <1>7 DEF Reply, Finish, tables, q
  <2>2. Kept(raw, event, date, raw', event', date') BY <2>1 DEF Kept
  <2>3. \A w \in Workers : RequestSound(req'[w], raw', event', date')
    BY <2>1, <2>2, IdleTyped, IdleSound, StepSound
  <2>4. \A p \in q.batch : raw[p] # "none"
    BY <1>0, <2>1 DEF RequestSound, IngestSound
  <2>5. AckedIsStored' BY <2>1, <2>4 DEF LedgerInv, AckedIsStored
  <2>6. LedgerConsistent' BY <2>1 DEF LedgerInv, LedgerConsistent
  <2> QED BY <2>3, <2>5, <2>6 DEF LedgerInv
<1> QED BY <1>1, <1>2, <1>3, <1>4, <1>5, <1>6, <1>7 DEF Ingest

\* Processing sets dates and rebuilds days; of the ledger only a correction's own
\* punch changes, which no collector posted or which already has its event.
LEMMA ProcessLedger ==
  ASSUME LedgerInv, TypeOK', NEW r \in Workers, Process(r)
  PROVE  LedgerInv'
<1> DEFINE q == req[r]
<1>0. /\ q \in Request /\ RequestSound(q, raw, event, date)
      /\ raw \in [Punches -> RawStatus] /\ event \in [Punches -> EventStatus]
      /\ date \in [Punches -> Dates \cup {NoDate}]
      /\ Device \subseteq Punches /\ NoDate \notin Dates
  BY NoDateAssumption DEF LedgerInv, TypeOK, Punches, Dates
<1>a. today \in Dates /\ Planner(q.refresh) \in [Dates -> Snapshots]
  BY PunchAssumption, BoundAssumption, PlannerTyped DEF LedgerInv, TypeOK, Dates
<1> HIDE DEF q
\* Reading the rules changes nothing the ledger depends on.
<1>1. ASSUME NEW m \in Request, Plans(r, m), RequestSound(m, raw, event, date)
      PROVE  LedgerInv'
  <2> DEFINE pl == Planner(q.refresh)
             n  == [m EXCEPT !.plan = pl, !.asof = today]
  <2>1. Continue(r, n) /\ UNCHANGED <<tables, acked>> BY <1>1 DEF Plans, q
  <2> HIDE DEF pl
  <2>2. n \in Request BY <1>a, PlanTyped DEF pl
  <2>3. /\ n.at = m.at /\ n.op = m.op /\ n.batch = m.batch /\ n.known = m.known
        /\ n.todo = m.todo /\ n.new = m.new /\ n.seen = m.seen
    BY DEF Request
  <2> HIDE DEF n
  <2>4. RequestSound(n, raw, event, date) BY <1>1, <2>3 DEF RequestSound, IngestSound
  <2> QED BY <2>1, <2>2, <2>4, QuietLedger
<1>2. CASE PlanIngest(r)
  <2> DEFINE m == [q EXCEPT !.at = "date", !.todo = q.new]
  <2>1. q.op = "ingest" /\ q.at = "plan" /\ Plans(r, m) BY <1>2 DEF PlanIngest, Plans, q
  <2>2. m \in Request BY <1>0, RequestFields, TodoTyped DEF Steps
  <2>3. /\ m.at = "date" /\ m.op = q.op /\ m.batch = q.batch /\ m.new = q.new
        /\ m.todo = q.new /\ m.seen = q.seen
    BY <1>0 DEF Request
  <2> HIDE DEF m
  <2>4. RequestSound(m, raw, event, date)
    BY <1>0, <2>1, <2>3 DEF RequestSound, IngestSound
  <2> QED BY <1>1, <2>1, <2>2, <2>4
<1>3. CASE PlanReprocess(r)
  <2> DEFINE m == [q EXCEPT !.at = "scan"]
  <2>1. q.op = "reprocess" /\ Plans(r, m) BY <1>3 DEF PlanReprocess, q
  <2>2. m \in Request BY <1>0, AtTyped DEF Steps
  <2>3. m.at = "scan" /\ m.op = q.op BY <1>0 DEF Request
  <2> HIDE DEF m
  <2>4. RequestSound(m, raw, event, date) BY <2>1, <2>3 DEF RequestSound
  <2> QED BY <1>1, <2>1, <2>2, <2>4
<1>4. CASE PlanVoid(r)
  <2> DEFINE m == [q EXCEPT !.at = "rebuild"]
  <2>1. q.op = "void" /\ Plans(r, m) BY <1>4 DEF PlanVoid, q
  <2>2. m \in Request BY <1>0, AtTyped DEF Steps
  <2>3. m.at = "rebuild" /\ m.op = q.op /\ m.batch = q.batch BY <1>0 DEF Request
  <2> HIDE DEF m
  <2>4. RequestSound(m, raw, event, date) BY <1>0, <2>1, <2>3 DEF RequestSound
  <2> QED BY <1>1, <2>1, <2>2, <2>4
<1>5. ASSUME NEW p \in Punches, PlanAdd(r, p) PROVE LedgerInv'
  <2> DEFINE d == WorkDateFor(Planner(FALSE), Time[p])
             m == [q EXCEPT !.at = "rebuild", !.days = {d}]
  <2>0. d \in Dates BY WorkDateTyped
  <2>1. q.op = "add" /\ Plans(r, m) BY <1>5 DEF PlanAdd, q
  <2> HIDE DEF d
  <2>2. m \in Request BY <1>0, <2>0, DaysTyped DEF Steps
  <2>3. m.at = "rebuild" /\ m.op = q.op /\ m.batch = q.batch BY <1>0 DEF Request
  <2> HIDE DEF m
  <2>4. RequestSound(m, raw, event, date) BY <1>0, <2>1, <2>3 DEF RequestSound
  <2> QED BY <1>1, <2>1, <2>2, <2>4
<1>6. ASSUME NEW p \in Punches, SetDate(r, p) PROVE LedgerInv'
  <2> DEFINE wd == WorkDateFor(q.plan, Time[p])
             ds == q.days \cup {wd} \cup ({q.seen[p]} \ {NoDate})
             m  == [q EXCEPT !.todo = q.todo \ {p}, !.days = ds]
  <2>1. wd \in Dates BY WorkDateTyped
  <2>2. /\ q.at = "date" /\ p \in q.todo /\ Continue(r, m)
        /\ date' = IF q.seen[p] = wd THEN date ELSE [date EXCEPT ![p] = wd]
        /\ raw' = raw /\ event' = event /\ acked' = acked
    BY <1>6 DEF SetDate, q
  <2>3. q.todo \ {p} \in SUBSET Punches /\ q.seen[p] \in Dates \cup {NoDate}
    BY <1>0, RequestFields
  <2>4. ds \in SUBSET Dates BY <1>0, <2>1, <2>3, RequestFields
  <2> HIDE DEF wd, ds
  <2>5. m \in Request BY <1>0, <2>3, <2>4, DateTyped
  <2>6. /\ m.at = q.at /\ m.op = q.op /\ m.batch = q.batch
        /\ m.todo = q.todo \ {p} /\ m.new = q.new /\ m.seen = q.seen
    BY <1>0 DEF Request
  <2> HIDE DEF m
  <2>7. Kept(raw, event, date, raw', event', date')
    BY <1>0, <2>1, <2>2 DEF Kept
  <2>8. q.op = "ingest" => date'[p] # NoDate
    BY <1>0, <2>1, <2>2 DEF RequestSound, IngestSound
  <2>9. RequestSound(q, raw', event', date') BY <1>0, <2>7, SoundKept
  <2>10. RequestSound(m, raw', event', date')
    BY <2>2, <2>6, <2>8, <2>9 DEF RequestSound, IngestSound
  <2>11. \A w \in Workers : RequestSound(req'[w], raw', event', date')
    BY <2>2, <2>5, <2>7, <2>10, StepSound
  <2>12. LedgerConsistent' BY <1>0, <2>2, <2>7 DEF LedgerInv, LedgerConsistent, Kept
  <2>13. AckedIsStored' BY <2>2 DEF LedgerInv, AckedIsStored
  <2> QED BY <2>11, <2>12, <2>13 DEF LedgerInv
<1>7. CASE Scan(r)
  <2> DEFINE found == {p \in Punches : /\ event[p] = "active"
                                       /\ DateOf(Time[p]) \in q.from - 1 .. q.to + 1}
             s  == [p \in Punches |-> IF p \in found THEN date[p] ELSE NoDate]
             ds == q.from .. q.to
             m  == [q EXCEPT !.at = "date", !.todo = found, !.seen = s, !.days = ds]
  <2>1. q.at = "scan" /\ Continue(r, m) /\ UNCHANGED <<tables, acked>>
    BY <1>7 DEF Scan, q
  <2>2. found \in SUBSET Punches /\ s \in [Punches -> Dates \cup {NoDate}] BY <1>0
  <2>3. ds \in SUBSET Dates BY <1>0, PunchAssumption, RequestFields DEF Dates
  <2> HIDE DEF found, s, ds
  <2>4. m \in Request BY <1>0, <2>2, <2>3, ScanTyped DEF Steps
  <2>5. m.at = "date" /\ m.op = q.op BY <1>0 DEF Request
  <2> HIDE DEF m
  <2>6. RequestSound(m, raw, event, date) BY <1>0, <2>1, <2>5 DEF RequestSound
  <2> QED BY <2>1, <2>4, <2>6, QuietLedger
<1>8. CASE EndDates(r)
  <2> DEFINE late == {d \in q.days : q.op = "reprocess" /\ d > q.asof}
             left == q.days \ late
             m == [q EXCEPT !.at = "rebuild", !.days = left, !.seen = NothingSeen]
  <2>1. /\ q.at = "date" /\ q.todo = {} /\ Continue(r, m) /\ UNCHANGED <<tables, acked>>
    BY <1>8 DEF EndDates, q
  <2>2. left \in SUBSET Dates /\ NothingSeen \in [Punches -> Dates \cup {NoDate}]
    BY <1>0, RequestFields DEF NothingSeen
  <2> HIDE DEF late, left
  <2>3. m \in Request BY <1>0, <2>2, EndDatesTyped DEF Steps
  <2>4. /\ m.at = "rebuild" /\ m.op = q.op /\ m.batch = q.batch /\ m.new = q.new
        /\ m.seen = NothingSeen
    BY <1>0 DEF Request
  <2> HIDE DEF m
  <2>5. RequestSound(m, raw, event, date)
    BY <1>0, <2>1, <2>4 DEF RequestSound, IngestSound, NothingSeen
  <2> QED BY <2>1, <2>3, <2>5, QuietLedger
<1>9. ASSUME NEW d \in Dates, FindRow(r, d) PROVE LedgerInv'
  <2> DEFINE m == [q EXCEPT !.at = "lock"]
  <2>1. q.at = "rebuild" /\ Continue(r, m) /\ UNCHANGED <<tables, acked>>
    BY <1>9 DEF FindRow, q
  <2>2. m \in Request BY <1>0, AtTyped DEF Steps
  <2>3. /\ m.at = "lock" /\ m.op = q.op /\ m.batch = q.batch /\ m.new = q.new
        /\ m.seen = q.seen
    BY <1>0 DEF Request
  <2> HIDE DEF m
  <2>4. RequestSound(m, raw, event, date)
    BY <1>0, <2>1, <2>3 DEF RequestSound, IngestSound
  <2> QED BY <2>1, <2>2, <2>4, QuietLedger
<1>10. ASSUME NEW d \in Dates, RowGone(r, d) PROVE LedgerInv'
  <2>1. Continue(r, Idle) /\ UNCHANGED <<tables, acked>>
    BY <1>10 DEF RowGone, GiveUp, Finish
  <2> QED BY <2>1, IdleTyped, IdleSound, QuietLedger
\* The rebuild of a day over the event table ev, dt of its transaction.
<1>11. ASSUME NEW d \in Dates, NEW ev \in [Punches -> EventStatus],
              NEW dt \in [Punches -> Dates \cup {NoDate}],
              q.at \in {"rebuild", "lock"}, ProcessDay(r, d, ev, dt),
              Kept(raw, event, date, raw', ev, dt),
              \A p \in Device : /\ raw'[p] = raw[p] /\ dt[p] = date[p]
                                /\ ev[p] = "none" <=> event[p] = "none"
       PROVE  LedgerInv'
  <2> DEFINE m == [q EXCEPT !.at = "rebuild", !.days = q.days \ {d}]
  <2>1. event' = ev /\ date' = dt /\ acked' = acked /\ Continue(r, m)
    BY <1>11 DEF ProcessDay, q
  <2>2. m \in Request BY <1>0, RequestFields, DaysTyped DEF Steps
  <2>3. /\ m.at = "rebuild" /\ m.op = q.op /\ m.batch = q.batch /\ m.new = q.new
        /\ m.seen = q.seen
    BY <1>0 DEF Request
  <2> HIDE DEF m
  <2>4. Kept(raw, event, date, raw', event', date') BY <1>11, <2>1
  <2>5. RequestSound(q, raw', event', date') BY <1>0, <2>4, SoundKept
  <2>6. RequestSound(m, raw', event', date')
    BY <1>11, <2>3, <2>5 DEF RequestSound, IngestSound
  <2>7. \A w \in Workers : RequestSound(req'[w], raw', event', date')
    BY <2>1, <2>2, <2>4, <2>6, StepSound
  <2>8. LedgerConsistent' BY <1>11, <2>1 DEF LedgerInv, LedgerConsistent
  <2>9. AckedIsStored' BY <2>1, <2>4 DEF LedgerInv, AckedIsStored, TypeOK, Kept
  <2> QED BY <2>7, <2>8, <2>9 DEF LedgerInv
<1>12. ASSUME NEW d \in Dates, HasLock(r, d) PROVE q.at \in {"rebuild", "lock"}
  BY <1>12 DEF HasLock, q
<1>13. ASSUME NEW d \in Dates, RebuildDay(r, d) PROVE LedgerInv'
  <2>1. /\ HasLock(r, d) /\ ProcessDay(r, d, event, date) /\ raw' = raw
    BY <1>13 DEF RebuildDay
  <2>2. Kept(raw, event, date, raw', event, date) BY <2>1 DEF Kept
  <2> QED BY <1>0, <1>11, <1>12, <2>1, <2>2
<1>14. ASSUME NEW p \in Punches, NEW d \in Dates, AddAndRebuild(r, p, d) PROVE LedgerInv'
  <2> DEFINE ev == [event EXCEPT ![p] = "active"]
             dt == [date EXCEPT ![p] = d]
  <2>1. /\ q.op = "add" /\ p \in q.batch /\ HasLock(r, d) /\ ProcessDay(r, d, ev, dt)
        /\ raw' = IF p \in SelfService THEN [raw EXCEPT ![p] = "processed"] ELSE raw
    BY <1>14 DEF AddAndRebuild, q
  <2>2. p \notin Device BY <1>0, <2>1 DEF RequestSound
  <2>3. ev \in [Punches -> EventStatus] /\ dt \in [Punches -> Dates \cup {NoDate}]
    BY <1>0 DEF EventStatus
  <2>4. Kept(raw, event, date, raw', ev, dt) BY <1>0, <2>1 DEF Kept
  <2>5. \A x \in Device : /\ raw'[x] = raw[x] /\ dt[x] = date[x]
                          /\ ev[x] = "none" <=> event[x] = "none"
    BY <1>0, <2>1, <2>2
  <2> HIDE DEF ev, dt
  <2> QED BY <1>11, <1>12, <2>1, <2>3, <2>4, <2>5
<1>15. ASSUME NEW p \in Punches, NEW d \in Dates, VoidAndRebuild(r, p, d) PROVE LedgerInv'
  <2> DEFINE ev == [event EXCEPT ![p] = "void"]
  <2>1. /\ q.op = "void" /\ p \in q.batch /\ HasLock(r, d) /\ ProcessDay(r, d, ev, date)
        /\ raw' = raw
    BY <1>15 DEF VoidAndRebuild, q
  <2>2. event[p] # "none" BY <1>0, <2>1 DEF RequestSound
  <2>3. ev \in [Punches -> EventStatus] BY <1>0 DEF EventStatus
  <2>4. Kept(raw, event, date, raw', ev, date) BY <1>0, <2>1 DEF Kept
  <2>5. \A x \in Device : ev[x] = "none" <=> event[x] = "none" BY <1>0, <2>2
  <2> HIDE DEF ev
  <2> QED BY <1>0, <1>11, <1>12, <2>1, <2>3, <2>4, <2>5
<1>16. CASE EndRebuild(r)
  <2> DEFINE m == [q EXCEPT !.at = "mark", !.todo = q.new, !.plan = NoPlan]
  <2>1. q.at = "rebuild" /\ UNCHANGED <<tables, acked>> BY <1>16 DEF EndRebuild, q
  <2>2. CASE q.op = "ingest"
    <3>1. Continue(r, m) BY <1>16, <2>2 DEF EndRebuild, q
    <3>2. NoPlan \in [Dates -> Snapshots] BY DEF NoPlan, Snapshots
    <3>3. m \in Request BY <1>0, <3>2, RequestFields, MarkTyped DEF Steps
    <3>4. /\ m.at = "mark" /\ m.op = q.op /\ m.batch = q.batch /\ m.new = q.new
          /\ m.todo = q.new /\ m.seen = q.seen
      BY <1>0 DEF Request
    <3> HIDE DEF m
    <3>5. RequestSound(m, raw, event, date)
      BY <1>0, <2>1, <2>2, <3>4 DEF RequestSound, IngestSound
    <3> QED BY <2>1, <3>1, <3>3, <3>5, QuietLedger
  <2>3. CASE q.op # "ingest"
    <3>1. Continue(r, Idle) BY <1>16, <2>3 DEF EndRebuild, q
    <3> QED BY <2>1, <3>1, IdleTyped, IdleSound, QuietLedger
  <2> QED BY <2>2, <2>3
<1> QED BY <1>2, <1>3, <1>4, <1>5, <1>6, <1>7, <1>8, <1>9, <1>10, <1>13, <1>14, <1>15, <1>16
        DEF Process

LEMMA AdminLedger ==
  ASSUME LedgerInv, TypeOK', NEW r \in Workers, Admin(r) \/ NightlyJob(r) \/ Die(r)
  PROVE  LedgerInv'
<1>1. ASSUME NEW from \in Dates, NEW to \in Dates, NEW refresh \in BOOLEAN,
             Reprocess(r, from, to, refresh), UNCHANGED <<tables, acked>>
      PROVE  LedgerInv'
  <2> DEFINE m == [Idle EXCEPT !.op = "reprocess", !.at = "plan", !.from = from, !.to = to,
                               !.refresh = refresh]
  <2>1. m \in Request BY IdleTyped, ReprocessTyped
  <2>2. m.op = "reprocess" /\ m.at = "plan" BY IdleTyped DEF Request
  <2>3. Continue(r, m) BY <1>1 DEF Reprocess
  <2> HIDE DEF m
  <2>4. RequestSound(m, raw, event, date) BY <2>2 DEF RequestSound
  <2> QED BY <1>1, <2>1, <2>3, <2>4, QuietLedger
<1>2. ASSUME NEW p \in SelfService \cup Manual, AddPunch(r, p) PROVE LedgerInv'
  <2> DEFINE m == [Idle EXCEPT !.op = "add", !.at = "plan", !.batch = {p}]
  <2>1. m \in Request BY IdleTyped, AddTyped DEF Punches
  <2>2. m.op = "add" /\ m.at = "plan" /\ m.batch = {p} BY IdleTyped DEF Request
  <2>3. Continue(r, m) /\ UNCHANGED <<tables, acked>> BY <1>2 DEF AddPunch
  <2>4. p \notin Device
    <3>1. p \in SelfService \/ p \in Manual OBVIOUS
    <3>2. Device \cap SelfService = {} /\ Device \cap Manual = {} BY PunchAssumption
    <3> QED BY <3>1, <3>2
  <2> HIDE DEF m
  <2>5. RequestSound(m, raw, event, date) BY <2>2, <2>4 DEF RequestSound
  <2> QED BY <2>1, <2>3, <2>5, QuietLedger
<1>3. ASSUME NEW p \in Punches, VoidEvent(r, p) PROVE LedgerInv'
  <2> DEFINE m == [Idle EXCEPT !.op = "void", !.at = "plan", !.batch = {p}, !.days = {date[p]}]
  <2>1. date[p] \in Dates BY <1>3 DEF VoidEvent, LedgerInv, TypeOK
  <2>2. m \in Request BY <2>1, IdleTyped, VoidTyped
  <2>3. m.op = "void" /\ m.at = "plan" /\ m.batch = {p} BY DEF Idle
  <2>4. Continue(r, m) /\ UNCHANGED <<tables, acked>> /\ event[p] = "active"
    BY <1>3 DEF VoidEvent
  <2> HIDE DEF m
  <2>5. RequestSound(m, raw, event, date) BY <2>3, <2>4 DEF RequestSound
  <2> QED BY <2>2, <2>4, <2>5, QuietLedger
<1>4. CASE ReprocessRange(r)
  <2>1. PICK asked \in Recalculations : Reprocess(r, asked[1], asked[2], asked[3])
    BY <1>4 DEF ReprocessRange
  <2>2. asked[1] \in Dates /\ asked[2] \in Dates /\ asked[3] \in BOOLEAN
    BY RecalculationAssumption
  <2> QED BY <1>1, <1>4, <2>1, <2>2 DEF ReprocessRange
<1>5. CASE NightlyJob(r)
  <2>1. today - 1 \in Dates
    BY PunchAssumption, BoundAssumption DEF LedgerInv, TypeOK, Dates
  <2> QED BY <1>1, <1>5, <2>1 DEF NightlyJob
<1>6. CASE Die(r)
  <2>1. Continue(r, Idle) /\ UNCHANGED <<tables, acked>> BY <1>6 DEF Die, GiveUp, Finish
  <2> QED BY <2>1, IdleTyped, IdleSound, QuietLedger
<1> QED BY <1>2, <1>3, <1>4, <1>5, <1>6 DEF Admin

THEOREM LedgerInductive == Spec => []LedgerInv
<1>1. Init => LedgerInv
  <2> SUFFICES ASSUME Init PROVE LedgerInv OBVIOUS
  <2>1. TypeOK BY InitTyped
  <2>2. Device \subseteq Punches BY DEF Punches
  <2>3. LedgerConsistent BY <2>2 DEF Init, LedgerConsistent
  <2>4. AckedIsStored BY DEF Init, AckedIsStored
  <2>5. \A w \in Workers : RequestSound(req[w], raw, event, date)
    BY IdleSound DEF Init
  <2> QED BY <2>1, <2>3, <2>4, <2>5 DEF LedgerInv
<1>2. LedgerInv /\ [Next]_vars => LedgerInv'
  <2> SUFFICES ASSUME LedgerInv, [Next]_vars PROVE LedgerInv' OBVIOUS
  <2>0. TypeOK' BY NextTyped DEF LedgerInv
  <2>1. ASSUME NEW r \in Workers, Ingest(r) \/ Process(r) \/ Admin(r) \/ NightlyJob(r) \/ Die(r)
        PROVE  LedgerInv'
    BY <2>0, <2>1, IngestLedger, ProcessLedger, AdminLedger
  <2>2. CASE Register \/ EditRoster \/ NextDay \/ UNCHANGED vars
    <3>1. req' = req /\ UNCHANGED <<tables, acked>>
      BY <2>2 DEF Register, EditRoster, NextDay, vars, tables
    <3> QED BY <2>0, <3>1 DEF LedgerInv, LedgerConsistent, AckedIsStored, tables
  <2> QED BY <2>1, <2>2 DEF Next
<1> QED BY <1>1, <1>2, PTL DEF Spec

\* For any number of concurrent batches, resends and corrections, and wherever
\* requests die: a punch has an event exactly when its employee was identified,
\* and it is only marked processed once it is dated (_store, _resolve_existing,
\* _ingest 158-161).
THEOREM LedgerAlwaysConsistent == Spec => []LedgerConsistent
<1>1. LedgerInv => LedgerConsistent BY DEF LedgerInv
<1> QED BY <1>1, LedgerInductive, PTL

\* A punch a 200 reply counted as accepted or duplicate is in the raw ledger.
THEOREM AcknowledgedIsStored == Spec => []AckedIsStored
<1>1. LedgerInv => AckedIsStored BY DEF LedgerInv
<1> QED BY <1>1, LedgerInductive, PTL

----------------------------------------------------------------------------
(* What each step of the processing leaves in the memory of its request: the *)
(* facts the two proofs that follow share.                                    *)

\* The other requests go on as they were.
Others(r) == \A w \in Workers : w # r => req'[w] = req[w]

\* The fields no step of the processing writes.
SameRequest(m, q) ==
  /\ m.op = q.op /\ m.batch = q.batch /\ m.errors = q.errors /\ m.new = q.new
  /\ m.from = q.from /\ m.to = q.to /\ m.refresh = q.refresh

LEMMA ContinueMoves ==
  ASSUME TypeOK, NEW r \in Workers, NEW m, Continue(r, m)
  PROVE  req'[r] = m /\ Others(r)
BY DEF TypeOK, Continue, Others

LEMMA PlanMoves ==
  ASSUME TypeOK, NEW r \in Workers,
         PlanIngest(r) \/ PlanReprocess(r) \/ PlanVoid(r) \/ \E p \in Punches : PlanAdd(r, p)
  PROVE  /\ Others(r) /\ UNCHANGED <<tables, world, acked, dropped, faults, history>>
         /\ req[r].at = "plan" /\ SameRequest(req'[r], req[r])
         /\ req'[r].plan = Planner(req[r].refresh) /\ req'[r].asof = today
         /\ req'[r].at = CASE req[r].op = "ingest" -> "date"
                           [] req[r].op = "reprocess" -> "scan"
                           [] OTHER -> "rebuild"
         /\ req[r].op = "ingest" => req'[r].todo = req[r].new
         /\ req[r].op \in {"ingest", "reprocess", "void"} => req'[r].days = req[r].days
         /\ req[r].op \notin {"ingest", "reprocess", "void"} =>
              /\ req[r].op = "add"
              /\ \E p \in req[r].batch : req'[r].days = {WorkDateFor(Planner(FALSE), Time[p])}
<1> DEFINE q == req[r]
           pl == Planner(q.refresh)
<1>0. q \in Request BY DEF TypeOK
<1> HIDE DEF q, pl
<1>1. ASSUME NEW m \in Request, Plans(r, m)
      PROVE  /\ Others(r) /\ UNCHANGED <<tables, world, acked, dropped, faults, history>>
             /\ q.at = "plan" /\ req'[r].plan = pl /\ req'[r].asof = today
             /\ req'[r].at = m.at /\ req'[r].todo = m.todo /\ req'[r].days = m.days
             /\ SameRequest(req'[r], m)
  <2>1. req'[r] = [m EXCEPT !.plan = pl, !.asof = today] /\ Others(r)
    BY <1>1, ContinueMoves DEF Plans, q, pl
  <2> QED BY <1>1, <2>1 DEF Plans, Request, SameRequest, q
<1>2. CASE PlanIngest(r)
  <2> DEFINE m == [q EXCEPT !.at = "date", !.todo = q.new]
  <2>1. q.op = "ingest" /\ Plans(r, m) BY <1>2 DEF PlanIngest, q
  <2>2. m \in Request BY <1>0, RequestFields, TodoTyped DEF Steps
  <2>3. m.at = "date" /\ m.todo = q.new /\ m.days = q.days /\ SameRequest(m, q)
    BY <1>0 DEF Request, SameRequest
  <2> HIDE DEF m
  <2> QED BY <1>1, <2>1, <2>2, <2>3 DEF SameRequest, q, pl
<1>3. CASE PlanReprocess(r)
  <2> DEFINE m == [q EXCEPT !.at = "scan"]
  <2>1. q.op = "reprocess" /\ Plans(r, m) BY <1>3 DEF PlanReprocess, q
  <2>2. m \in Request BY <1>0, AtTyped DEF Steps
  <2>3. m.at = "scan" /\ m.days = q.days /\ SameRequest(m, q) BY <1>0 DEF Request, SameRequest
  <2> HIDE DEF m
  <2> QED BY <1>1, <2>1, <2>2, <2>3 DEF SameRequest, q, pl
<1>4. CASE PlanVoid(r)
  <2> DEFINE m == [q EXCEPT !.at = "rebuild"]
  <2>1. q.op = "void" /\ Plans(r, m) BY <1>4 DEF PlanVoid, q
  <2>2. m \in Request BY <1>0, AtTyped DEF Steps
  <2>3. m.at = "rebuild" /\ m.days = q.days /\ SameRequest(m, q)
    BY <1>0 DEF Request, SameRequest
  <2> HIDE DEF m
  <2> QED BY <1>1, <2>1, <2>2, <2>3 DEF SameRequest, q, pl
<1>5. ASSUME NEW p \in Punches, PlanAdd(r, p)
      PROVE  /\ Others(r) /\ UNCHANGED <<tables, world, acked, dropped, faults, history>>
             /\ q.at = "plan" /\ q.op = "add" /\ SameRequest(req'[r], q)
             /\ req'[r].plan = pl /\ req'[r].asof = today /\ req'[r].at = "rebuild"
             /\ \E x \in q.batch : req'[r].days = {WorkDateFor(Planner(FALSE), Time[x])}
  <2> DEFINE d == WorkDateFor(Planner(FALSE), Time[p])
             m == [q EXCEPT !.at = "rebuild", !.days = {d}]
  <2>1. d \in Dates BY WorkDateTyped
  <2>2. q.op = "add" /\ p \in q.batch /\ Plans(r, m) BY <1>5 DEF PlanAdd, q
  <2> HIDE DEF d
  <2>3. m \in Request BY <1>0, <2>1, DaysTyped DEF Steps
  <2>4. m.at = "rebuild" /\ m.days = {d} /\ SameRequest(m, q) BY <1>0 DEF Request, SameRequest
  <2> HIDE DEF m
  <2>5. q.at = "plan" /\ req'[r].days = {d} /\ Others(r) /\ req'[r].plan = pl /\ req'[r].asof = today
        /\ req'[r].at = "rebuild" /\ UNCHANGED <<tables, world, acked, dropped, faults, history>>
    BY <1>1, <2>2, <2>3, <2>4
  <2>6. SameRequest(req'[r], q) BY <1>1, <2>2, <2>3, <2>4 DEF SameRequest
  <2> QED BY <2>2, <2>5, <2>6 DEF d
<1>6. CASE \E p \in Punches : PlanAdd(r, p)
  BY <1>5, <1>6 DEF q, pl
<1> QED BY <1>2, <1>3, <1>4, <1>6

LEMMA ScanMoves ==
  ASSUME TypeOK, NEW r \in Workers, Scan(r)
  PROVE  /\ Others(r) /\ UNCHANGED <<tables, world, acked, dropped, faults, history>>
         /\ req[r].at = "scan" /\ req'[r].at = "date" /\ SameRequest(req'[r], req[r])
         /\ req'[r].plan = req[r].plan /\ req'[r].asof = req[r].asof
         /\ \A p \in req'[r].todo : event[p] = "active"
<1> DEFINE q == req[r]
           found == {p \in Punches : /\ event[p] = "active"
                                     /\ DateOf(Time[p]) \in q.from - 1 .. q.to + 1}
           s  == [p \in Punches |-> IF p \in found THEN date[p] ELSE NoDate]
           ds == q.from .. q.to
<1>1. /\ q.at = "scan" /\ UNCHANGED <<tables, world, acked, dropped, faults, history>>
      /\ Continue(r, [q EXCEPT !.at = "date", !.todo = found, !.seen = s, !.days = ds])
  BY DEF Scan
<1>2. q \in Request /\ \A p \in found : event[p] = "active" BY DEF TypeOK
<1> HIDE DEF q, found, s, ds
<1>3. Others(r) /\ req'[r] = [q EXCEPT !.at = "date", !.todo = found, !.seen = s, !.days = ds]
  BY <1>1, ContinueMoves
<1> QED BY <1>1, <1>2, <1>3 DEF Request, SameRequest, q

LEMMA DateMoves ==
  ASSUME TypeOK, NEW r \in Workers, NEW p \in Punches, SetDate(r, p)
  PROVE  /\ Others(r) /\ SameRequest(req'[r], req[r])
         /\ UNCHANGED <<raw, event, rows, snap, holds, world, acked, dropped, faults, crossed, overtaken>>
         /\ req[r].at = "date" /\ req'[r].at = "date" /\ p \in req[r].todo
         /\ req'[r].todo = req[r].todo \ {p} /\ req'[r].seen = req[r].seen
         /\ req'[r].plan = req[r].plan /\ req'[r].asof = req[r].asof
         /\ req'[r].days = req[r].days \cup {WorkDateFor(req[r].plan, Time[p])}
                                       \cup ({req[r].seen[p]} \ {NoDate})
<1> DEFINE q == req[r]
           ds == q.days \cup {WorkDateFor(q.plan, Time[p])} \cup ({q.seen[p]} \ {NoDate})
<1>1. /\ q.at = "date" /\ p \in q.todo
      /\ UNCHANGED <<raw, event, rows, snap, holds, world, acked, dropped, faults, crossed, overtaken>>
      /\ Continue(r, [q EXCEPT !.todo = q.todo \ {p}, !.days = ds])
  BY DEF SetDate
<1>2. q \in Request BY DEF TypeOK
<1> HIDE DEF q, ds
<1>3. Others(r) /\ req'[r] = [q EXCEPT !.todo = q.todo \ {p}, !.days = ds]
  BY <1>1, ContinueMoves
<1>4. /\ SameRequest(req'[r], q) /\ req'[r].at = q.at /\ req'[r].todo = q.todo \ {p}
      /\ req'[r].seen = q.seen /\ req'[r].plan = q.plan /\ req'[r].asof = q.asof
      /\ req'[r].days = ds
  BY <1>2, <1>3 DEF Request, SameRequest
<1> QED BY <1>1, <1>3, <1>4 DEF q, ds

LEMMA EndDatesMoves ==
  ASSUME TypeOK, NEW r \in Workers, EndDates(r)
  PROVE  /\ Others(r) /\ SameRequest(req'[r], req[r])
         /\ UNCHANGED <<tables, world, acked, faults, stranded, overtaken>>
         /\ req[r].at = "date" /\ req'[r].at = "rebuild" /\ req[r].todo = {}
         /\ req'[r].plan = req[r].plan /\ req'[r].asof = req[r].asof
         /\ req'[r].days \subseteq req[r].days
         /\ dropped' = dropped \cup {d \in req[r].days \ req'[r].days : holds[d] # Dated(d)}
         /\ crossed' = {c \in crossed : c[1] = r => c[2] \in req'[r].days}
<1> DEFINE q == req[r]
           late == {d \in q.days : q.op = "reprocess" /\ d > q.asof}
           left == q.days \ late
<1>1. /\ q.at = "date" /\ q.todo = {} /\ UNCHANGED <<tables, world, acked, faults, stranded, overtaken>>
      /\ Continue(r, [q EXCEPT !.at = "rebuild", !.days = left, !.seen = NothingSeen])
      /\ dropped' = dropped \cup {d \in late : holds[d] # Dated(d)}
      /\ crossed' = {c \in crossed : c[1] = r => c[2] \in left}
  BY DEF EndDates
<1>2. q \in Request BY DEF TypeOK
<1>3. late = q.days \ left /\ left \subseteq q.days OBVIOUS
<1> HIDE DEF q, late, left
<1>4. Others(r) /\ req'[r] = [q EXCEPT !.at = "rebuild", !.days = left, !.seen = NothingSeen]
  BY <1>1, ContinueMoves
<1>5. /\ SameRequest(req'[r], q) /\ req'[r].at = "rebuild" /\ req'[r].days = left
      /\ req'[r].plan = q.plan /\ req'[r].asof = q.asof
  BY <1>2, <1>4 DEF Request, SameRequest
<1> QED BY <1>1, <1>3, <1>4, <1>5 DEF q

LEMMA FindMoves ==
  ASSUME TypeOK, NEW r \in Workers, NEW d \in Dates, FindRow(r, d)
  PROVE  /\ Others(r) /\ UNCHANGED <<tables, world, acked, dropped, faults, history>>
         /\ req[r].at = "rebuild" /\ req'[r].at = "lock" /\ SameRequest(req'[r], req[r])
         /\ req'[r].plan = req[r].plan /\ req'[r].asof = req[r].asof
         /\ req'[r].days = req[r].days
<1> DEFINE q == req[r]
<1>1. /\ q.at = "rebuild" /\ Continue(r, [q EXCEPT !.at = "lock"])
      /\ UNCHANGED <<tables, world, acked, dropped, faults, history>>
  BY DEF FindRow
<1>2. q \in Request BY DEF TypeOK
<1> HIDE DEF q
<1>3. Others(r) /\ req'[r] = [q EXCEPT !.at = "lock"] BY <1>1, ContinueMoves
<1> QED BY <1>1, <1>2, <1>3 DEF Request, SameRequest, q

LEMMA ProcessDayMoves ==
  ASSUME TypeOK, NEW r \in Workers, NEW d \in Dates, NEW ev, NEW dt,
         HasLock(r, d), ProcessDay(r, d, ev, dt)
  PROVE  /\ Others(r) /\ SameRequest(req'[r], req[r])
         /\ req[r].at \in {"rebuild", "lock"} /\ d \in req[r].days
         /\ req'[r].at = "rebuild" /\ req'[r].days = req[r].days \ {d}
         /\ req'[r].plan = req[r].plan /\ req'[r].asof = req[r].asof
<1> DEFINE q == req[r]
<1>1. /\ q.at \in {"rebuild", "lock"} /\ d \in q.days
      /\ Continue(r, [q EXCEPT !.at = "rebuild", !.days = q.days \ {d}])
  BY DEF HasLock, IsNext, ProcessDay
<1>2. q \in Request BY DEF TypeOK
<1> HIDE DEF q
<1>3. Others(r) /\ req'[r] = [q EXCEPT !.at = "rebuild", !.days = q.days \ {d}]
  BY <1>1, ContinueMoves
<1> QED BY <1>1, <1>2, <1>3 DEF Request, SameRequest, q

LEMMA EndRebuildMoves ==
  ASSUME TypeOK, NEW r \in Workers, EndRebuild(r)
  PROVE  /\ Others(r) /\ UNCHANGED <<tables, world, acked, dropped, faults, stranded, overtaken>>
         /\ req[r].at = "rebuild" /\ req[r].days = {} /\ Uncrossed(r)
         /\ \/ req'[r] = Idle
            \/ /\ req[r].op = "ingest" /\ SameRequest(req'[r], req[r])
               /\ req'[r].at = "mark" /\ req'[r].days = {}
<1> DEFINE q == req[r]
           m == [q EXCEPT !.at = "mark", !.todo = q.new, !.plan = NoPlan]
<1>1. /\ q.at = "rebuild" /\ q.days = {} /\ Uncrossed(r)
      /\ Continue(r, IF q.op = "ingest" THEN m ELSE Idle)
      /\ UNCHANGED <<tables, world, acked, dropped, faults, stranded, overtaken>>
  BY DEF EndRebuild
<1>2. q \in Request BY DEF TypeOK
<1> HIDE DEF q
<1>3. Others(r) /\ req'[r] = IF q.op = "ingest" THEN m ELSE Idle BY <1>1, ContinueMoves
<1> QED BY <1>1, <1>2, <1>3 DEF Request, SameRequest, q
LEMMA GiveUpMoves ==
  ASSUME TypeOK, NEW r \in Workers, GiveUp(r)
  PROVE  /\ Others(r) /\ req'[r] = Idle /\ Uncrossed(r) /\ dropped \subseteq dropped'
         /\ req[r].op \in {"ingest", "reprocess"} => req[r].days \subseteq dropped'
BY ContinueMoves DEF GiveUp, Finish

\* The ingestion half never reads a planner; it only makes events of posted
\* punches, and leaves their dates to the processing.
LEMMA IngestMoves ==
  ASSUME LedgerInv, NEW r \in Workers, Ingest(r)
  PROVE  /\ Others(r) /\ UNCHANGED <<date, rows, snap, holds, world, stranded>>
         /\ \A p \in Punches : \/ event'[p] = event[p]
                               \/ p \in Device /\ event[p] = "none" /\ event'[p] = "active"
         /\ dropped \subseteq dropped' /\ (Uncrossed(r) \/ UNCHANGED crossed)
         /\ req[r].at \in {"idle", "lookup", "store", "mark", "reply"}
         /\ \/ req'[r] = Idle
            \/ /\ req'[r].op = "ingest" /\ req'[r].at \in {"lookup", "store", "plan", "mark", "reply"}
               /\ \/ req[r].at = "idle" /\ req'[r].days = {}
                  \/ req[r].at # "idle" /\ req'[r].days = req[r].days
<1> DEFINE q == req[r]
<1>0. /\ TypeOK /\ q \in Request /\ RequestSound(q, raw, event, date)
      /\ raw \in [Punches -> RawStatus] /\ event \in [Punches -> EventStatus] /\ LedgerConsistent
  BY DEF LedgerInv, TypeOK
<1> HIDE DEF q
\* A step of a request that goes on.
<1>a. ASSUME NEW m, Continue(r, m), q.at \in {"lookup", "store", "mark", "reply"},
             m.op = q.op, m.days = q.days, m.at \in {"lookup", "store", "plan", "mark", "reply"}
      PROVE  /\ Others(r) /\ q.at # "idle" /\ req'[r].op = "ingest"
             /\ req'[r].at \in {"lookup", "store", "plan", "mark", "reply"}
             /\ req'[r].days = q.days
  <2>1. req'[r] = m /\ Others(r) BY <1>0, <1>a, ContinueMoves
  <2>2. q.op = "ingest" BY <1>0, <1>a DEF RequestSound
  <2> QED BY <1>a, <2>1, <2>2
<1>1. CASE PostBatch(r)
  <2>1. PICK b \in SUBSET {p \in Device : Arrived(p)} \ {{}} :
           Continue(r, [Idle EXCEPT !.op = "ingest", !.at = "lookup", !.batch = b,
                                    !.todo = b, !.linked = registered])
    BY <1>1 DEF PostBatch
  <2> DEFINE m == [Idle EXCEPT !.op = "ingest", !.at = "lookup", !.batch = b,
                               !.todo = b, !.linked = registered]
  <2>2. m.op = "ingest" /\ m.at = "lookup" /\ m.days = {} BY DEF Idle
  <2>3. Continue(r, m) BY <2>1
  <2> HIDE DEF m
  <2>4. Others(r) /\ req'[r] = m BY <1>0, <2>3, ContinueMoves
  <2>5. /\ req[r].at = "idle" /\ UNCHANGED <<date, rows, snap, holds, world, stranded>>
        /\ event' = event /\ dropped' = dropped /\ crossed' = crossed
    BY <1>1 DEF PostBatch, tables, history
  <2> QED BY <2>2, <2>4, <2>5
<1>2. CASE LookUp(r)
  <2> DEFINE m == [q EXCEPT !.at = "store",
                     !.known = [p \in Punches |-> IF p \in q.batch THEN raw[p] ELSE "none"]]
  <2>1. m.at = "store" /\ m.op = q.op /\ m.days = q.days BY <1>0 DEF Request
  <2>2. Continue(r, m) /\ q.at = "lookup" BY <1>2 DEF LookUp, q
  <2> HIDE DEF m
  <2>3. /\ Others(r) /\ q.at # "idle" /\ req'[r].op = "ingest"
        /\ req'[r].at \in {"lookup", "store", "plan", "mark", "reply"} /\ req'[r].days = q.days
    BY <1>a, <2>1, <2>2
  <2> QED BY <1>2, <2>2, <2>3 DEF LookUp, tables, history, q
<1>3. CASE EndStore(r)
  <2> DEFINE m == [q EXCEPT !.at = IF q.new = {} THEN "reply" ELSE "plan", !.known = NotKnown]
  <2>1. m.at \in {"reply", "plan"} /\ m.op = q.op /\ m.days = q.days BY <1>0 DEF Request
  <2>2. Continue(r, m) /\ q.at = "store" BY <1>3 DEF EndStore, q
  <2> HIDE DEF m
  <2>3. /\ Others(r) /\ q.at # "idle" /\ req'[r].op = "ingest"
        /\ req'[r].at \in {"lookup", "store", "plan", "mark", "reply"} /\ req'[r].days = q.days
    BY <1>a, <2>1, <2>2
  <2> QED BY <1>3, <2>2, <2>3 DEF EndStore, tables, history, q
<1>4. ASSUME NEW p \in Device, ResendUnresolved(r, p) \/ SkipKnown(r, p) \/ StorePunch(r, p)
      PROVE  /\ Others(r) /\ UNCHANGED <<date, rows, snap, holds, world, stranded>>
             /\ \A x \in Punches : \/ event'[x] = event[x]
                                   \/ x \in Device /\ event[x] = "none" /\ event'[x] = "active"
             /\ dropped \subseteq dropped' /\ (Uncrossed(r) \/ UNCHANGED crossed)
             /\ q.at = "store"
             /\ \/ req'[r] = Idle
                \/ /\ req'[r].op = "ingest" /\ req'[r].at \in {"lookup", "store", "plan", "mark", "reply"}
                   /\ req'[r].days = q.days
  <2>1. q.at = "store" /\ UNCHANGED <<date, rows, snap, holds, world, stranded>>
    BY <1>4 DEF ResendUnresolved, SkipKnown, StorePunch, tables, history, q
  <2>2. ASSUME NEW x \in Punches
        PROVE  \/ event'[x] = event[x]
               \/ x \in Device /\ event[x] = "none" /\ event'[x] = "active"
    <3>1. raw[p] = "none" => event[p] = "none" BY <1>0 DEF LedgerConsistent
    <3> QED BY <1>0, <1>4, <3>1 DEF ResendUnresolved, SkipKnown, StorePunch, tables
  <2>3. ASSUME NEW e, NEW n, Handled(r, p, e, n)
        PROVE  /\ Others(r) /\ req'[r].op = "ingest"
               /\ req'[r].at \in {"lookup", "store", "plan", "mark", "reply"}
               /\ req'[r].days = q.days
    <3> DEFINE m == [q EXCEPT !.todo = q.todo \ {p}, !.errors = q.errors \cup e,
                              !.new = q.new \cup n]
    <3>1. m.at = "store" /\ m.op = q.op /\ m.days = q.days BY <1>0, <2>1 DEF Request
    <3>2. Continue(r, m) BY <2>3 DEF Handled, q
    <3> HIDE DEF m
    <3> QED BY <1>a, <2>1, <3>1, <3>2
  <2>4. \/ GiveUp(r)
        \/ /\ UNCHANGED <<dropped, crossed>>
           /\ Handled(r, p, {}, {}) \/ Handled(r, p, {p}, {}) \/ Handled(r, p, {}, {p})
    BY <1>4 DEF ResendUnresolved, SkipKnown, StorePunch, history
  <2>5. CASE GiveUp(r) BY <1>0, <2>1, <2>2, <2>5, GiveUpMoves
  <2>6. CASE /\ UNCHANGED <<dropped, crossed>>
             /\ Handled(r, p, {}, {}) \/ Handled(r, p, {p}, {}) \/ Handled(r, p, {}, {p})
    <3>1. /\ Others(r) /\ req'[r].op = "ingest"
          /\ req'[r].at \in {"lookup", "store", "plan", "mark", "reply"}
          /\ req'[r].days = q.days
      BY <2>3, <2>6
    <3> QED BY <2>1, <2>2, <2>6, <3>1
  <2> QED BY <2>4, <2>5, <2>6
<1>5. ASSUME NEW p \in Punches, MarkProcessed(r, p)
      PROVE  /\ Others(r) /\ UNCHANGED <<event, date, rows, snap, holds, world, dropped, history>>
             /\ q.at = "mark" /\ req'[r].op = "ingest"
             /\ req'[r].at \in {"lookup", "store", "plan", "mark", "reply"} /\ req'[r].days = q.days
  <2> DEFINE m == [q EXCEPT !.todo = q.todo \ {p}]
  <2>1. m.at = q.at /\ m.op = q.op /\ m.days = q.days BY <1>0 DEF Request
  <2>2. Continue(r, m) /\ q.at = "mark" BY <1>5 DEF MarkProcessed, q
  <2> HIDE DEF m
  <2>3. /\ Others(r) /\ req'[r].op = "ingest"
        /\ req'[r].at \in {"lookup", "store", "plan", "mark", "reply"} /\ req'[r].days = q.days
    BY <1>a, <2>1, <2>2
  <2> QED BY <1>5, <2>2, <2>3 DEF MarkProcessed
<1>6. CASE EndMark(r)
  <2> DEFINE m == [q EXCEPT !.at = "reply"]
  <2>1. m.at = "reply" /\ m.op = q.op /\ m.days = q.days BY <1>0 DEF Request
  <2>2. Continue(r, m) /\ q.at = "mark" BY <1>6 DEF EndMark, q
  <2> HIDE DEF m
  <2>3. /\ Others(r) /\ q.at # "idle" /\ req'[r].op = "ingest"
        /\ req'[r].at \in {"lookup", "store", "plan", "mark", "reply"} /\ req'[r].days = q.days
    BY <1>a, <2>1, <2>2
  <2> QED BY <1>6, <2>2, <2>3 DEF EndMark, tables, history, q
<1>7. CASE Reply(r)
  <2>1. Others(r) /\ req'[r] = Idle BY <1>0, <1>7, ContinueMoves DEF Reply, Finish
  <2> QED BY <1>7, <2>1 DEF Reply, tables, history
<1>8. ASSUME NEW p \in Device, ResendUnresolved(r, p) \/ SkipKnown(r, p) \/ StorePunch(r, p)
      PROVE  q.at # "idle"
  BY <1>8, <1>4
<1> QED
  BY <1>1, <1>2, <1>3, <1>4, <1>5, <1>6, <1>7, <1>8 DEF Ingest, history, q

\* The requests that correct or recompute begin with an empty memory.
LEMMA AdminMoves ==
  ASSUME TypeOK, NEW r \in Workers, Admin(r) \/ NightlyJob(r) \/ Die(r)
  PROVE  /\ Others(r) /\ UNCHANGED <<tables, roster, today, edits, acked, stranded, overtaken>>
         /\ \/ GiveUp(r)
            \/ /\ req[r].at = "idle" /\ UNCHANGED <<crossed, dropped>> /\ req'[r].at = "plan"
               /\ \/ req'[r].op = "reprocess" /\ req'[r].days = {}
                  \/ /\ req'[r].op = "add" /\ req'[r].days = {}
                     /\ \E p \in Punches : /\ req'[r].batch = {p} /\ event[p] = "none"
                                           /\ \A w \in Workers : p \notin req[w].batch
                  \/ /\ req'[r].op = "void"
                     /\ \E p \in Punches : /\ req'[r].batch = {p} /\ req'[r].days = {date[p]}
                                           /\ date[p] # NoDate
<1>1. ASSUME NEW from, NEW to, NEW refresh, Reprocess(r, from, to, refresh)
      PROVE  /\ Others(r) /\ req'[r].at = "plan" /\ req'[r].op = "reprocess" /\ req'[r].days = {}
  <2> DEFINE m == [Idle EXCEPT !.op = "reprocess", !.at = "plan", !.from = from, !.to = to,
                               !.refresh = refresh]
  <2>1. m.at = "plan" /\ m.op = "reprocess" /\ m.days = {} BY DEF Idle
  <2>2. Continue(r, m) BY <1>1 DEF Reprocess
  <2> HIDE DEF m
  <2> QED BY <2>1, <2>2, ContinueMoves
<1>2. ASSUME NEW p \in SelfService \cup Manual, AddPunch(r, p)
      PROVE  /\ Others(r) /\ UNCHANGED <<tables, world, acked, dropped, history>>
             /\ req[r].at = "idle" /\ req'[r].at = "plan" /\ req'[r].op = "add" /\ req'[r].days = {}
             /\ p \in Punches /\ req'[r].batch = {p} /\ event[p] = "none"
             /\ \A w \in Workers : p \notin req[w].batch
  <2> DEFINE m == [Idle EXCEPT !.op = "add", !.at = "plan", !.batch = {p}]
  <2>1. m.at = "plan" /\ m.op = "add" /\ m.batch = {p} /\ m.days = {} BY DEF Idle
  <2>2. Continue(r, m) BY <1>2 DEF AddPunch
  <2> HIDE DEF m
  <2>3. Others(r) /\ req'[r] = m BY <2>2, ContinueMoves
  <2> QED BY <1>2, <2>1, <2>3 DEF AddPunch, Punches
<1>3. ASSUME NEW p \in Punches, VoidEvent(r, p)
      PROVE  /\ Others(r) /\ UNCHANGED <<tables, world, acked, dropped, history>>
             /\ req[r].at = "idle" /\ req'[r].at = "plan" /\ req'[r].op = "void"
             /\ req'[r].batch = {p} /\ req'[r].days = {date[p]} /\ date[p] # NoDate
  <2> DEFINE m == [Idle EXCEPT !.op = "void", !.at = "plan", !.batch = {p}, !.days = {date[p]}]
  <2>1. m.at = "plan" /\ m.op = "void" /\ m.batch = {p} /\ m.days = {date[p]} BY DEF Idle
  <2>2. Continue(r, m) BY <1>3 DEF VoidEvent
  <2> HIDE DEF m
  <2>3. Others(r) /\ req'[r] = m BY <2>2, ContinueMoves
  <2> QED BY <1>3, <2>1, <2>3 DEF VoidEvent
<1>4. CASE ReprocessRange(r) BY <1>1, <1>4 DEF ReprocessRange, world, history
<1>5. CASE NightlyJob(r) BY <1>1, <1>5 DEF NightlyJob, history
<1>6. CASE Die(r) BY <1>6, GiveUpMoves DEF Die, world
<1>7. CASE \E p \in SelfService \cup Manual : AddPunch(r, p)
  BY <1>2, <1>7 DEF world, history
<1>8. CASE \E p \in Punches : VoidEvent(r, p)
  BY <1>3, <1>8 DEF world, history
<1> QED BY <1>4, <1>5, <1>6, <1>7, <1>8 DEF Admin

----------------------------------------------------------------------------
(* Acknowledged punches have their events.  Again not inductive: a 200 reply   *)
(* speaks of the whole batch, so what has to be kept is, for every punch the   *)
(* loop has passed, why it may be acknowledged - the event it found or made,   *)
(* unless the punch is reported as an error or was overtaken.                  *)

\* Punch p may be acknowledged by a request with these errors.
Vouched(p, errors, ev, ov) == p \in errors \cup ov \/ ev[p] # "none"

Eventful(q, ev, ov) ==
  q.op = "ingest" =>
    /\ q.at = "store" => /\ \A p \in Device : q.known[p] \in {"pending", "processed"} => ev[p] # "none"
                         /\ \A p \in q.batch \ q.todo : Vouched(p, q.errors, ev, ov)
    /\ q.at \notin {"lookup", "store"} => \A p \in q.batch : Vouched(p, q.errors, ev, ov)

EventInv ==
  /\ AckedHasEvent
  /\ \A w \in Workers : Eventful(req[w], event, overtaken)

\* Events are never taken back, and an overtaken punch is only forgotten when it
\* gets its event.
Grows(ev, ov, ev2, ov2) ==
  \A p \in Punches : /\ ev[p] # "none" => ev2[p] # "none"
                     /\ p \in ov => p \in ov2 \/ ev2[p] # "none"

LEMMA EventfulKept ==
  ASSUME NEW q \in Request, NEW ev, NEW ov, NEW ev2, NEW ov2,
         Grows(ev, ov, ev2, ov2), Eventful(q, ev, ov)
  PROVE  Eventful(q, ev2, ov2)
<1>1. q.batch \subseteq Punches /\ Device \subseteq Punches BY RequestFields DEF Punches
<1> QED BY <1>1 DEF Eventful, Grows, Vouched

LEMMA EventfulIdle ==
  ASSUME NEW ev, NEW ov
  PROVE  Eventful(Idle, ev, ov)
BY DEF Idle, Eventful

\* The step of worker r, from what it leaves in its own memory.
LEMMA StepEventful ==
  ASSUME TypeOK, EventInv, NEW r \in Workers, Others(r),
         Grows(event, overtaken, event', overtaken'),
         acked' = acked, Eventful(req'[r], event', overtaken')
  PROVE  EventInv'
<1>1. ASSUME NEW w \in Workers PROVE Eventful(req'[w], event', overtaken')
  <2>1. req[w] \in Request BY DEF TypeOK
  <2>2. Eventful(req[w], event', overtaken') BY <2>1, EventfulKept DEF EventInv
  <2> QED BY <2>2 DEF Others
<1>2. AckedHasEvent' BY DEF EventInv, AckedHasEvent, Grows, TypeOK
<1> QED BY <1>1, <1>2 DEF EventInv

\* A step after the loop over the batch, which keeps the batch and its errors.
LEMMA StepOnward ==
  ASSUME TypeOK, EventInv, NEW r \in Workers, Others(r),
         \A p \in Punches : event[p] # "none" => event'[p] # "none",
         overtaken' = overtaken, acked' = acked,
         \/ req'[r] = Idle
         \/ /\ SameRequest(req'[r], req[r])
            /\ req[r].at \notin {"lookup", "store"} /\ req'[r].at \notin {"lookup", "store"}
  PROVE  EventInv'
<1>1. Grows(event, overtaken, event', overtaken') BY DEF Grows
<1>2. req[r] \in Request BY DEF TypeOK
<1>3. Eventful(req[r], event', overtaken') BY <1>1, <1>2, EventfulKept DEF EventInv
<1>4. Eventful(req'[r], event', overtaken')
  BY <1>3, EventfulIdle DEF Eventful, SameRequest
<1> QED BY <1>1, <1>4, StepEventful

LEMMA IngestEventful ==
  ASSUME LedgerInv, EventInv, NEW r \in Workers, Ingest(r)
  PROVE  EventInv'
<1> DEFINE q == req[r]
<1>0. /\ TypeOK /\ q \in Request /\ RequestSound(q, raw, event, date)
      /\ Eventful(q, event, overtaken)
      /\ raw \in [Punches -> RawStatus] /\ event \in [Punches -> EventStatus]
      /\ Device \subseteq Punches /\ LedgerConsistent
  BY DEF LedgerInv, EventInv, TypeOK, Punches
<1> HIDE DEF q
<1>1. CASE PostBatch(r)
  <2>1. PICK b \in SUBSET {p \in Device : Arrived(p)} \ {{}} :
           Continue(r, [Idle EXCEPT !.op = "ingest", !.at = "lookup", !.batch = b,
                                    !.todo = b, !.linked = registered])
    BY <1>1 DEF PostBatch
  <2>2. UNCHANGED <<event, overtaken, acked>> BY <1>1 DEF PostBatch, tables, history
  <2> DEFINE m == [Idle EXCEPT !.op = "ingest", !.at = "lookup", !.batch = b,
                               !.todo = b, !.linked = registered]
  <2>6. m.at = "lookup" BY DEF Idle
  <2>7. Continue(r, m) BY <2>1
  <2> HIDE DEF m
  <2>3. req'[r].at = "lookup" /\ Others(r) BY <1>0, <2>6, <2>7, ContinueMoves
  <2>4. Eventful(req'[r], event', overtaken') BY <2>3 DEF Eventful
  <2>5. Grows(event, overtaken, event', overtaken') BY <2>2 DEF Grows
  <2> QED BY <1>0, <2>2, <2>3, <2>4, <2>5, StepEventful
<1>2. CASE LookUp(r)
  <2> DEFINE k == [p \in Punches |-> IF p \in q.batch THEN raw[p] ELSE "none"]
  <2>1. /\ q.at = "lookup" /\ Continue(r, [q EXCEPT !.at = "store", !.known = k])
        /\ UNCHANGED <<event, overtaken, acked>>
    BY <1>2 DEF LookUp, tables, history, q
  <2>2. \A p \in Device : k[p] \in {"pending", "processed"} => event[p] # "none"
    BY <1>0 DEF LedgerConsistent
  <2> HIDE DEF k
  <2>3. Others(r) /\ req'[r] = [q EXCEPT !.at = "store", !.known = k]
    BY <1>0, <2>1, ContinueMoves
  <2>4. /\ req'[r].at = "store" /\ req'[r].known = k /\ req'[r].op = q.op
        /\ req'[r].batch = q.batch /\ req'[r].todo = q.todo
    BY <1>0, <2>3 DEF Request
  <2>5. q.op = "ingest" => q.todo = q.batch BY <1>0, <2>1 DEF RequestSound, IngestSound
  <2>6. Eventful(req'[r], event', overtaken') BY <2>1, <2>2, <2>4, <2>5 DEF Eventful
  <2>7. Grows(event, overtaken, event', overtaken') BY <2>1 DEF Grows
  <2> QED BY <1>0, <2>1, <2>3, <2>6, <2>7, StepEventful
<1>3. CASE EndStore(r)
  <2> DEFINE a == IF q.new = {} THEN "reply" ELSE "plan"
  <2>1. /\ q.at = "store" /\ q.todo = {} /\ Continue(r, [q EXCEPT !.at = a, !.known = NotKnown])
        /\ UNCHANGED <<event, overtaken, acked>>
    BY <1>3 DEF EndStore, tables, history, q
  <2>2. Others(r) /\ req'[r] = [q EXCEPT !.at = a, !.known = NotKnown]
    BY <1>0, <2>1, ContinueMoves
  <2>3. /\ req'[r].at \notin {"lookup", "store"} /\ req'[r].op = q.op
        /\ req'[r].batch = q.batch /\ req'[r].errors = q.errors
    BY <1>0, <2>2 DEF Request
  <2>4. Eventful(req'[r], event', overtaken') BY <1>0, <2>1, <2>3 DEF Eventful
  <2>5. Grows(event, overtaken, event', overtaken') BY <2>1 DEF Grows
  <2> QED BY <1>0, <2>1, <2>2, <2>4, <2>5, StepEventful
<1>4. ASSUME NEW p \in Device, ResendUnresolved(r, p) \/ SkipKnown(r, p) \/ StorePunch(r, p)
      PROVE  EventInv'
  \* One turn of the loop: p may be acknowledged afterwards.
  <2>1. ASSUME NEW e \in {{}, {p}}, NEW n \in {{}, {p}}, Handled(r, p, e, n),
               Grows(event, overtaken, event', overtaken'),
               Vouched(p, q.errors \cup e, event', overtaken')
        PROVE  EventInv'
    <3> DEFINE m == [q EXCEPT !.todo = q.todo \ {p}, !.errors = q.errors \cup e,
                              !.new = q.new \cup n]
    <3>1. q.at = "store" /\ acked' = acked
      BY <1>4 DEF ResendUnresolved, SkipKnown, StorePunch, q
    <3>2. Others(r) /\ req'[r] = m BY <1>0, <2>1, ContinueMoves DEF Handled, q
    <3>3. /\ m.at = "store" /\ m.op = q.op /\ m.batch = q.batch /\ m.known = q.known
          /\ m.todo = q.todo \ {p} /\ m.errors = q.errors \cup e
      BY <1>0, <3>1 DEF Request
    <3> HIDE DEF m
    <3>4. Eventful(q, event', overtaken') BY <1>0, <2>1, EventfulKept
    <3>5. Eventful(m, event', overtaken')
      BY <2>1, <3>1, <3>3, <3>4 DEF Eventful, Vouched
    <3> QED BY <1>0, <2>1, <3>1, <3>2, <3>5, StepEventful
  <2>2. CASE ResendUnresolved(r, p)
    <3>1. CASE ~q.linked
      <4>1. Handled(r, p, {p}, {}) /\ UNCHANGED <<event, overtaken>>
        BY <2>2, <3>1 DEF ResendUnresolved, tables, q
      <4>2. Grows(event, overtaken, event', overtaken') BY <4>1 DEF Grows
      <4>3. Vouched(p, q.errors \cup {p}, event', overtaken') BY DEF Vouched
      <4> QED BY <2>1, <4>1, <4>2, <4>3
    <3>2. CASE q.linked /\ event[p] = "none"
      <4>1. /\ event' = [event EXCEPT ![p] = "active"] /\ overtaken' = overtaken \ {p}
            /\ Handled(r, p, {}, {p})
        BY <2>2, <3>2 DEF ResendUnresolved, q
      <4>2. /\ Grows(event, overtaken, event', overtaken')
            /\ Vouched(p, q.errors \cup {}, event', overtaken')
        BY <1>0, <4>1 DEF Grows, Vouched
      <4> QED BY <2>1, <4>1, <4>2
    <3>3. CASE q.linked /\ event[p] # "none"
      <4>1. Continue(r, Idle) /\ UNCHANGED <<event, overtaken, acked>>
        BY <2>2, <3>3 DEF ResendUnresolved, GiveUp, Finish, tables, q
      <4>2. Others(r) /\ req'[r] = Idle BY <1>0, <4>1, ContinueMoves
      <4> QED BY <1>0, <4>1, <4>2, StepOnward
    <3> QED BY <3>1, <3>2, <3>3
  <2>3. CASE SkipKnown(r, p)
    <3>1. /\ q.at = "store" /\ q.known[p] \in {"pending", "processed"} /\ Handled(r, p, {}, {})
          /\ UNCHANGED <<event, overtaken>>
      BY <2>3 DEF SkipKnown, tables, history, q
    <3>2. q.op = "ingest" BY <1>0, <3>1 DEF RequestSound
    <3>3. /\ Grows(event, overtaken, event', overtaken')
          /\ Vouched(p, q.errors \cup {}, event', overtaken')
      BY <1>0, <3>1, <3>2 DEF Eventful, Grows, Vouched
    <3> QED BY <2>1, <3>1, <3>3
  <2>4. CASE StorePunch(r, p)
    <3>0. overtaken' = overtaken \cup {x \in {p} : raw[p] = "unresolved"}
      BY <2>4 DEF StorePunch
    <3>1. CASE raw[p] # "none"
      <4>1. UNCHANGED event /\ Handled(r, p, {}, {}) BY <2>4, <3>1 DEF StorePunch, tables
      <4>2. raw[p] = "unresolved" \/ event[p] # "none" BY <1>0, <3>1 DEF LedgerConsistent
      <4>3. /\ Grows(event, overtaken, event', overtaken')
            /\ Vouched(p, q.errors \cup {}, event', overtaken')
        BY <3>0, <4>1, <4>2 DEF Grows, Vouched
      <4> QED BY <2>1, <4>1, <4>3
    <3>2. CASE raw[p] = "none" /\ q.linked
      <4>1. event' = [event EXCEPT ![p] = "active"] /\ Handled(r, p, {}, {p})
        BY <2>4, <3>2 DEF StorePunch, q
      <4>2. /\ Grows(event, overtaken, event', overtaken')
            /\ Vouched(p, q.errors \cup {}, event', overtaken')
        BY <1>0, <3>0, <4>1 DEF Grows, Vouched
      <4> QED BY <2>1, <4>1, <4>2
    <3>3. CASE raw[p] = "none" /\ ~q.linked
      <4>1. event' = event /\ Handled(r, p, {p}, {}) BY <2>4, <3>3 DEF StorePunch, q
      <4>2. /\ Grows(event, overtaken, event', overtaken')
            /\ Vouched(p, q.errors \cup {p}, event', overtaken')
        BY <3>0, <4>1 DEF Grows, Vouched
      <4> QED BY <2>1, <4>1, <4>2
    <3> QED BY <3>1, <3>2, <3>3
  <2> QED BY <1>4, <2>2, <2>3, <2>4
<1>5. ASSUME NEW p \in Punches, MarkProcessed(r, p) PROVE EventInv'
  <2>1. /\ q.at = "mark" /\ Continue(r, [q EXCEPT !.todo = q.todo \ {p}])
        /\ UNCHANGED <<event, overtaken, acked>>
    BY <1>5 DEF MarkProcessed, history, q
  <2>2. Others(r) /\ req'[r] = [q EXCEPT !.todo = q.todo \ {p}] BY <1>0, <2>1, ContinueMoves
  <2>3. req'[r].at = "mark" /\ SameRequest(req'[r], q) BY <1>0, <2>1, <2>2 DEF Request, SameRequest
  <2> QED BY <1>0, <2>1, <2>2, <2>3, StepOnward DEF q
<1>6. CASE EndMark(r)
  <2>1. /\ q.at = "mark" /\ Continue(r, [q EXCEPT !.at = "reply"])
        /\ UNCHANGED <<event, overtaken, acked>>
    BY <1>6 DEF EndMark, tables, history, q
  <2>2. Others(r) /\ req'[r] = [q EXCEPT !.at = "reply"] BY <1>0, <2>1, ContinueMoves
  <2>3. req'[r].at = "reply" /\ SameRequest(req'[r], q) BY <1>0, <2>2 DEF Request, SameRequest
  <2> QED BY <1>0, <2>1, <2>2, <2>3, StepOnward DEF q
<1>7. CASE Reply(r)
  <2>1. /\ q.at = "reply" /\ Continue(r, Idle) /\ acked' = acked \cup (q.batch \ q.errors)
        /\ UNCHANGED <<event, overtaken>>
    BY <1>7 DEF Reply, Finish, tables, history, q
  <2>2. Others(r) /\ req'[r] = Idle BY <1>0, <2>1, ContinueMoves
  <2>3. q.op = "ingest" BY <1>0, <2>1 DEF RequestSound
  <2>4. \A p \in q.batch \ q.errors : p \in overtaken \/ event[p] # "none"
    BY <1>0, <2>1, <2>3 DEF Eventful, Vouched
  <2>5. AckedHasEvent' BY <2>1, <2>4 DEF EventInv, AckedHasEvent
  <2>6. ASSUME NEW w \in Workers PROVE Eventful(req'[w], event', overtaken')
    BY <2>1, <2>2, EventfulIdle DEF EventInv, Others
  <2> QED BY <2>5, <2>6 DEF EventInv
<1> QED BY <1>1, <1>2, <1>3, <1>4, <1>5, <1>6, <1>7 DEF Ingest

LEMMA ProcessEventful ==
  ASSUME LedgerInv, EventInv, NEW r \in Workers, Process(r)
  PROVE  EventInv'
<1>0. TypeOK BY DEF LedgerInv
<1>1. CASE PlanIngest(r) \/ PlanReprocess(r) \/ PlanVoid(r) \/ \E p \in Punches : PlanAdd(r, p)
  BY <1>0, <1>1, PlanMoves, StepOnward DEF tables, history
<1>2. ASSUME NEW p \in Punches, SetDate(r, p) PROVE EventInv'
  BY <1>0, <1>2, DateMoves, StepOnward
<1>3. CASE Scan(r)
  BY <1>0, <1>3, ScanMoves, StepOnward DEF tables, history
<1>4. CASE EndDates(r)
  BY <1>0, <1>4, EndDatesMoves, StepOnward DEF tables
<1>5. ASSUME NEW d \in Dates, FindRow(r, d) PROVE EventInv'
  BY <1>0, <1>5, FindMoves, StepOnward DEF tables, history
<1>6. ASSUME NEW d \in Dates, RowGone(r, d) PROVE EventInv'
  <2>1. Continue(r, Idle) /\ UNCHANGED <<event, overtaken, acked>>
    BY <1>6 DEF RowGone, GiveUp, Finish, tables
  <2>2. Others(r) /\ req'[r] = Idle BY <1>0, <2>1, ContinueMoves
  <2> QED BY <1>0, <2>1, <2>2, StepOnward
<1>7. ASSUME NEW d \in Dates, NEW ev, NEW dt, HasLock(r, d), ProcessDay(r, d, ev, dt),
             \A p \in Punches : event[p] # "none" => ev[p] # "none"
      PROVE  EventInv'
  <2>1. event' = ev /\ overtaken' = overtaken /\ acked' = acked BY <1>7 DEF ProcessDay
  <2> QED BY <1>0, <1>7, <2>1, ProcessDayMoves, StepOnward
<1>8. ASSUME NEW d \in Dates, RebuildDay(r, d) PROVE EventInv'
  BY <1>7, <1>8 DEF RebuildDay
<1>9. ASSUME NEW p \in Punches, NEW d \in Dates, AddAndRebuild(r, p, d) PROVE EventInv'
  <2>1. \A x \in Punches : event[x] # "none" => [event EXCEPT ![p] = "active"][x] # "none"
    BY <1>0 DEF TypeOK
  <2> QED BY <1>7, <1>9, <2>1 DEF AddAndRebuild
<1>10. ASSUME NEW p \in Punches, NEW d \in Dates, VoidAndRebuild(r, p, d) PROVE EventInv'
  <2>1. \A x \in Punches : event[x] # "none" => [event EXCEPT ![p] = "void"][x] # "none"
    BY <1>0 DEF TypeOK
  <2> QED BY <1>7, <1>10, <2>1 DEF VoidAndRebuild
<1>11. CASE EndRebuild(r)
  BY <1>0, <1>11, EndRebuildMoves, StepOnward DEF tables
<1> QED BY <1>1, <1>2, <1>3, <1>4, <1>5, <1>6, <1>8, <1>9, <1>10, <1>11 DEF Process

LEMMA AdminEventful ==
  ASSUME LedgerInv, EventInv, NEW r \in Workers, Admin(r) \/ NightlyJob(r) \/ Die(r)
  PROVE  EventInv'
<1>0. TypeOK BY DEF LedgerInv
<1>1. ASSUME NEW m, Continue(r, m), m = Idle \/ m.op # "ingest",
             UNCHANGED <<event, overtaken, acked>>
      PROVE  EventInv'
  <2>1. Others(r) /\ req'[r] = m BY <1>0, <1>1, ContinueMoves
  <2>2. Eventful(m, event', overtaken') BY <1>1, EventfulIdle DEF Eventful
  <2>3. Grows(event, overtaken, event', overtaken') BY <1>1 DEF Grows
  <2> QED BY <1>0, <1>1, <2>1, <2>2, <2>3, StepEventful
<1>2. ASSUME NEW from, NEW to, NEW refresh, Reprocess(r, from, to, refresh),
             UNCHANGED <<event, overtaken, acked>>
      PROVE  EventInv'
  <2> DEFINE m == [Idle EXCEPT !.op = "reprocess", !.at = "plan", !.from = from, !.to = to,
                               !.refresh = refresh]
  <2>1. m.op = "reprocess" BY DEF Idle
  <2>2. Continue(r, m) BY <1>2 DEF Reprocess
  <2> HIDE DEF m
  <2> QED BY <1>1, <1>2, <2>1, <2>2
<1>3. ASSUME NEW p \in SelfService \cup Manual, AddPunch(r, p) PROVE EventInv'
  <2> DEFINE m == [Idle EXCEPT !.op = "add", !.at = "plan", !.batch = {p}]
  <2>1. m.op = "add" BY DEF Idle
  <2>2. Continue(r, m) /\ UNCHANGED <<event, overtaken, acked>>
    BY <1>3 DEF AddPunch, tables, history
  <2> HIDE DEF m
  <2> QED BY <1>1, <2>1, <2>2
<1>4. ASSUME NEW p \in Punches, VoidEvent(r, p) PROVE EventInv'
  <2> DEFINE m == [Idle EXCEPT !.op = "void", !.at = "plan", !.batch = {p}, !.days = {date[p]}]
  <2>1. m.op = "void" BY DEF Idle
  <2>2. Continue(r, m) /\ UNCHANGED <<event, overtaken, acked>>
    BY <1>4 DEF VoidEvent, tables, history
  <2> HIDE DEF m
  <2> QED BY <1>1, <2>1, <2>2
<1>5. CASE ReprocessRange(r) BY <1>2, <1>5 DEF ReprocessRange, tables, history
<1>6. CASE NightlyJob(r) BY <1>2, <1>6 DEF NightlyJob, tables, history
<1>7. CASE Die(r) BY <1>1, <1>7 DEF Die, GiveUp, Finish, tables
<1> QED BY <1>3, <1>4, <1>5, <1>6, <1>7 DEF Admin

\* The punches a 200 reply accepted or called duplicates have their events, so
\* the collector may forget them: for any number of batches, sent any number of
\* times, before and after the employee code was registered, and wherever requests
\* die (_ingest 101-165, _resolve_existing, _store).  The one exception is a punch
\* another request stored for an unknown employee after this one's lookup.
THEOREM AcknowledgedHasEvent == Spec => []AckedHasEvent
<1>1. Init => EventInv
  <2> SUFFICES ASSUME Init PROVE EventInv OBVIOUS
  <2>1. AckedHasEvent BY DEF Init, AckedHasEvent
  <2>2. \A w \in Workers : Eventful(req[w], event, overtaken) BY EventfulIdle DEF Init
  <2> QED BY <2>1, <2>2 DEF EventInv
<1>2. LedgerInv /\ EventInv /\ [Next]_vars => EventInv'
  <2> SUFFICES ASSUME LedgerInv, EventInv, [Next]_vars PROVE EventInv' OBVIOUS
  <2>1. ASSUME NEW r \in Workers, Ingest(r) \/ Process(r) \/ Admin(r) \/ NightlyJob(r) \/ Die(r)
        PROVE  EventInv'
    BY <2>1, IngestEventful, ProcessEventful, AdminEventful
  <2>2. CASE Register \/ EditRoster \/ NextDay \/ UNCHANGED vars
    <3>1. UNCHANGED <<req, event, overtaken, acked>>
      BY <2>2 DEF Register, EditRoster, NextDay, vars, tables, history
    <3> QED BY <3>1 DEF EventInv, AckedHasEvent
  <2> QED BY <2>1, <2>2 DEF Next
<1>3. EventInv => AckedHasEvent BY DEF EventInv
<1> QED BY <1>1, <1>2, <1>3, LedgerInductive, PTL DEF Spec
----------------------------------------------------------------------------
(* History is stable.  A request rebuilds a date with the planner it read      *)
(* earlier, so what has to be kept is how far that planner still agrees with   *)
(* the rows: on every past date it may yet rebuild, unless another request     *)
(* rebuilt that date meanwhile.                                                *)

\* Worker w may yet rebuild date d with the planner it holds.
MayRebuild(w, d) == /\ req[w].at \in Planned
                    /\ req[w].at \in {"rebuild", "lock"} => d \in req[w].days

PlanKeeps(w) ==
  req[w].at \in Planned /\ ~req[w].refresh =>
    /\ req[w].asof <= today
    /\ \A d \in Dates :
         MayRebuild(w, d) /\ d < req[w].asof /\ <<w, d>> \notin crossed /\ snap[d] # NoShift =>
           req[w].plan[d] = snap[d]

SnapsHaveRows == \A d \in Dates : snap[d] # NoShift => d \in rows

PlanInv == SnapsHaveRows /\ \A w \in Workers : PlanKeeps(w)

\* A step that rebuilds nothing, and after which a request with a planner either
\* had it before and has no more dates to rebuild with it, or has just read it.
LEMMA StepPlan ==
  ASSUME TypeOK, PlanInv, NEW r \in Workers, Others(r), UNCHANGED <<rows, snap, today>>,
         \A c \in crossed \ crossed' : c[1] = r,
         req'[r].at \in Planned =>
           \/ /\ req[r].at \in Planned /\ req'[r].plan = req[r].plan /\ req'[r].asof = req[r].asof
              /\ req'[r].refresh = req[r].refresh
              /\ \A d \in Dates : MayRebuild(r, d)' /\ <<r, d>> \notin crossed' =>
                                    MayRebuild(r, d) /\ <<r, d>> \notin crossed
           \/ /\ req'[r].plan = Planner(req'[r].refresh) /\ req'[r].asof = today
  PROVE  PlanInv'
<1>1. SnapsHaveRows' BY DEF PlanInv, SnapsHaveRows
<1>2. ASSUME NEW w \in Workers, w # r PROVE PlanKeeps(w)'
  <2>1. req'[w] = req[w] /\ PlanKeeps(w) BY <1>2 DEF Others, PlanInv
  <2>2. \A d \in Dates : <<w, d>> \notin crossed' => <<w, d>> \notin crossed BY <1>2
  <2> QED BY <2>1, <2>2 DEF PlanKeeps, MayRebuild
<1>3. PlanKeeps(r)'
  <2> SUFFICES ASSUME req'[r].at \in Planned, ~req'[r].refresh
               PROVE  /\ req'[r].asof <= today'
                      /\ \A d \in Dates :
                           MayRebuild(r, d)' /\ d < req'[r].asof /\ <<r, d>> \notin crossed'
                             /\ snap'[d] # NoShift => req'[r].plan[d] = snap'[d]
    BY DEF PlanKeeps
  <2>1. CASE /\ req[r].at \in Planned /\ req'[r].plan = req[r].plan /\ req'[r].asof = req[r].asof
             /\ req'[r].refresh = req[r].refresh
             /\ \A d \in Dates : MayRebuild(r, d)' /\ <<r, d>> \notin crossed' =>
                                   MayRebuild(r, d) /\ <<r, d>> \notin crossed
    <3>1. PlanKeeps(r) BY DEF PlanInv
    <3> QED BY <2>1, <3>1 DEF PlanKeeps
  <2>2. CASE req'[r].plan = Planner(req'[r].refresh) /\ req'[r].asof = today
    <3>1. today \in Int BY DEF TypeOK
    <3>2. ASSUME NEW d \in Dates, d < today, snap[d] # NoShift PROVE req'[r].plan[d] = snap[d]
      <4>1. d \in rows BY <3>2 DEF PlanInv, SnapsHaveRows
      <4> QED BY <2>2, <3>2, <4>1 DEF Planner
    <3> QED BY <2>2, <3>1, <3>2
  <2> QED BY <2>1, <2>2
<1> QED BY <1>1, <1>2, <1>3 DEF PlanInv

\* The rebuild of a date: every other planner that disagrees with the new rules is
\* crossed, and the date's own request is done with it.
LEMMA RebuildPlan ==
  ASSUME TypeOK, PlanInv, NEW r \in Workers, NEW d \in Dates, NEW ev, NEW dt,
         HasLock(r, d), ProcessDay(r, d, ev, dt)
  PROVE  PlanInv'
<1> DEFINE on == DatedIn(ev, dt, d)
           nothing == on = {} /\ (req[r].plan[d] = NoShift \/ d > today)
<1>1. /\ rows' = IF nothing THEN rows \ {d} ELSE rows \cup {d}
      /\ snap' = [snap EXCEPT ![d] = IF nothing THEN NoShift ELSE req[r].plan[d]]
      /\ Crossing(r, d) /\ today' = today
  BY DEF ProcessDay, world
<1> HIDE DEF on, nothing
<1>2. snap \in [Dates -> Snapshots] BY DEF TypeOK
<1>3. SnapsHaveRows' BY <1>1, <1>2 DEF PlanInv, SnapsHaveRows
<1>4. /\ Others(r) /\ SameRequest(req'[r], req[r])
      /\ req[r].at \in {"rebuild", "lock"} /\ d \in req[r].days
      /\ req'[r].at = "rebuild" /\ req'[r].days = req[r].days \ {d}
      /\ req'[r].plan = req[r].plan /\ req'[r].asof = req[r].asof
  BY ProcessDayMoves
<1>5. ASSUME NEW w \in Workers, w # r PROVE PlanKeeps(w)'
  <2>1. req'[w] = req[w] /\ PlanKeeps(w) BY <1>4, <1>5 DEF Others, PlanInv
  <2>2. ASSUME NEW e \in Dates, MayRebuild(w, e), <<w, e>> \notin crossed'
        PROVE  <<w, e>> \notin crossed /\ snap'[e] = snap[e]
    <3>1. <<w, e>> \notin crossed BY <1>1, <1>5, <2>2 DEF Crossing
    <3>2. e = d => snap'[d] = snap[d] BY <1>1, <1>5, <2>2 DEF Crossing, MayRebuild
    <3>3. e # d => snap'[e] = snap[e] BY <1>1, <1>2
    <3> QED BY <3>1, <3>2, <3>3
  <2> QED BY <1>1, <2>1, <2>2 DEF PlanKeeps, MayRebuild
<1>6. PlanKeeps(r)'
  <2>1. PlanKeeps(r) BY DEF PlanInv
  <2>2. ASSUME NEW e \in Dates, e \in req'[r].days, <<r, e>> \notin crossed'
        PROVE  e \in req[r].days /\ <<r, e>> \notin crossed /\ snap'[e] = snap[e]
    <3>1. e # d /\ e \in req[r].days BY <1>4, <2>2
    <3>2. <<r, e>> \notin crossed BY <1>1, <2>2, <3>1 DEF Crossing
    <3> QED BY <1>1, <1>2, <3>1, <3>2
  <2> QED BY <1>1, <1>4, <2>1, <2>2 DEF PlanKeeps, MayRebuild, SameRequest, Planned
<1> QED BY <1>3, <1>5, <1>6 DEF PlanInv

LEMMA GiveUpPlan ==
  ASSUME TypeOK, PlanInv, NEW r \in Workers, GiveUp(r), UNCHANGED <<rows, snap, today>>
  PROVE  PlanInv'
<1>1. Others(r) /\ req'[r].at \notin Planned BY GiveUpMoves DEF Idle, Planned
<1>2. \A c \in crossed \ crossed' : c[1] = r BY DEF GiveUp, Uncrossed
<1> QED BY <1>1, <1>2, StepPlan

LEMMA IngestPlan ==
  ASSUME LedgerInv, PlanInv, NEW r \in Workers, Ingest(r)
  PROVE  PlanInv'
<1>1. TypeOK BY DEF LedgerInv
<1>2. Others(r) /\ UNCHANGED <<rows, snap, today>> /\ (Uncrossed(r) \/ UNCHANGED crossed)
  BY IngestMoves DEF world
<1>3. req'[r].at \notin Planned BY IngestMoves DEF Idle, Planned
<1>4. \A c \in crossed \ crossed' : c[1] = r BY <1>2 DEF Uncrossed
<1> QED BY <1>1, <1>2, <1>3, <1>4, StepPlan

LEMMA ProcessPlan ==
  ASSUME TypeOK, PlanInv, NEW r \in Workers, Process(r)
  PROVE  PlanInv'
<1>1. CASE PlanIngest(r) \/ PlanReprocess(r) \/ PlanVoid(r) \/ \E p \in Punches : PlanAdd(r, p)
  <2>1. /\ Others(r) /\ UNCHANGED <<rows, snap, today, crossed>>
        /\ SameRequest(req'[r], req[r])
        /\ req'[r].plan = Planner(req[r].refresh) /\ req'[r].asof = today
    BY <1>1, PlanMoves DEF tables, world, history
  <2>2. req'[r].plan = Planner(req'[r].refresh) BY <2>1 DEF SameRequest
  <2> QED BY <2>1, <2>2, StepPlan
<1>2. ASSUME NEW p \in Punches, SetDate(r, p) PROVE PlanInv'
  <2>1. /\ Others(r) /\ UNCHANGED <<rows, snap, today, crossed>>
        /\ req[r].at = "date" /\ req'[r].at = "date" /\ SameRequest(req'[r], req[r])
        /\ req'[r].plan = req[r].plan /\ req'[r].asof = req[r].asof
    BY <1>2, DateMoves DEF world
  <2> QED BY <2>1, StepPlan DEF MayRebuild, SameRequest, Planned
<1>3. CASE Scan(r)
  <2>1. /\ Others(r) /\ UNCHANGED <<rows, snap, today, crossed>>
        /\ req[r].at = "scan" /\ req'[r].at = "date" /\ SameRequest(req'[r], req[r])
        /\ req'[r].plan = req[r].plan /\ req'[r].asof = req[r].asof
    BY <1>3, ScanMoves DEF tables, world, history
  <2> QED BY <2>1, StepPlan DEF MayRebuild, SameRequest, Planned
<1>4. CASE EndDates(r)
  <2>1. /\ Others(r) /\ UNCHANGED <<rows, snap, today>>
        /\ req[r].at = "date" /\ req'[r].at = "rebuild" /\ SameRequest(req'[r], req[r])
        /\ req'[r].plan = req[r].plan /\ req'[r].asof = req[r].asof
        /\ crossed' = {c \in crossed : c[1] = r => c[2] \in req'[r].days}
    BY <1>4, EndDatesMoves DEF tables, world
  <2>2. \A c \in crossed \ crossed' : c[1] = r BY <2>1
  <2>3. ASSUME NEW d \in Dates, MayRebuild(r, d)', <<r, d>> \notin crossed'
        PROVE  MayRebuild(r, d) /\ <<r, d>> \notin crossed
    BY <2>1, <2>3 DEF MayRebuild, Planned
  <2> QED BY <2>1, <2>2, <2>3, StepPlan DEF SameRequest, Planned
<1>5. ASSUME NEW d \in Dates, FindRow(r, d) PROVE PlanInv'
  <2>1. /\ Others(r) /\ UNCHANGED <<rows, snap, today, crossed>>
        /\ req[r].at = "rebuild" /\ req'[r].at = "lock" /\ SameRequest(req'[r], req[r])
        /\ req'[r].plan = req[r].plan /\ req'[r].asof = req[r].asof
        /\ req'[r].days = req[r].days
    BY <1>5, FindMoves DEF tables, world, history
  <2> QED BY <2>1, StepPlan DEF MayRebuild, SameRequest, Planned
<1>6. ASSUME NEW d \in Dates, RowGone(r, d) PROVE PlanInv'
  BY <1>6, GiveUpPlan DEF RowGone, tables, world
<1>7. ASSUME NEW d \in Dates,
             RebuildDay(r, d) \/ \E p \in Punches : AddAndRebuild(r, p, d) \/ VoidAndRebuild(r, p, d)
      PROVE  PlanInv'
  BY <1>7, RebuildPlan DEF RebuildDay, AddAndRebuild, VoidAndRebuild
<1>8. CASE EndRebuild(r)
  <2>1. /\ Others(r) /\ UNCHANGED <<rows, snap, today>> /\ Uncrossed(r)
        /\ req'[r] = Idle \/ req'[r].at = "mark"
    BY <1>8, EndRebuildMoves DEF tables, world
  <2>2. req'[r].at \notin Planned BY <2>1 DEF Idle, Planned
  <2>3. \A c \in crossed \ crossed' : c[1] = r BY <2>1 DEF Uncrossed
  <2> QED BY <2>1, <2>2, <2>3, StepPlan
<1> QED BY <1>1, <1>2, <1>3, <1>4, <1>5, <1>6, <1>7, <1>8 DEF Process

LEMMA AdminPlan ==
  ASSUME TypeOK, PlanInv, NEW r \in Workers, Admin(r) \/ NightlyJob(r) \/ Die(r)
  PROVE  PlanInv'
<1>1. /\ Others(r) /\ UNCHANGED <<rows, snap, today>>
      /\ GiveUp(r) \/ (UNCHANGED crossed /\ req'[r].at = "plan")
  BY AdminMoves DEF tables
<1>2. req'[r].at \notin Planned
  <2>1. GiveUp(r) => req'[r].at = "idle" BY GiveUpMoves DEF Idle
  <2> QED BY <1>1, <2>1 DEF Planned
<1>3. \A c \in crossed \ crossed' : c[1] = r BY <1>1 DEF GiveUp, Uncrossed
<1> QED BY <1>1, <1>2, <1>3, StepPlan

LEMMA NextPlan == LedgerInv /\ PlanInv /\ [Next]_vars => PlanInv'
<1> SUFFICES ASSUME LedgerInv, PlanInv, [Next]_vars PROVE PlanInv' OBVIOUS
<1>0. TypeOK BY DEF LedgerInv
<1>1. ASSUME NEW r \in Workers, Ingest(r) \/ Process(r) \/ Admin(r) \/ NightlyJob(r) \/ Die(r)
      PROVE  PlanInv'
  BY <1>0, <1>1, IngestPlan, ProcessPlan, AdminPlan
<1>2. CASE Register \/ EditRoster \/ NextDay \/ UNCHANGED vars
  <2>1. /\ UNCHANGED <<req, rows, snap, crossed>> /\ today' \in {today, today + 1}
    BY <1>2 DEF Register, EditRoster, NextDay, vars, tables, world, history
  <2>2. today \in Int /\ \A w \in Workers : req[w].asof \in Int
    BY <1>0, RequestFields DEF TypeOK, Dates
  <2>3. ASSUME NEW w \in Workers PROVE PlanKeeps(w)'
    <3>1. PlanKeeps(w) BY DEF PlanInv
    <3> QED BY <2>1, <2>2, <3>1 DEF PlanKeeps, MayRebuild
  <2> QED BY <2>1, <2>3 DEF PlanInv, SnapsHaveRows
<1> QED BY <1>1, <1>2 DEF Next

LEMMA InitPlan == Init => PlanInv
<1> SUFFICES ASSUME Init PROVE PlanInv OBVIOUS
<1>1. SnapsHaveRows BY DEF Init, SnapsHaveRows, NoPlan
<1>2. \A w \in Workers : PlanKeeps(w) BY DEF Init, PlanKeeps, Idle, Planned
<1> QED BY <1>1, <1>2 DEF PlanInv

\* The rules a stored day changes to are those of the request that rebuilds it.
LEMMA RebuildKeeps ==
  ASSUME TypeOK, PlanInv, NEW r \in Workers, NEW d \in Dates, NEW ev, NEW dt,
         HasLock(r, d), ProcessDay(r, d, ev, dt),
         NEW e \in Dates, snap[e] # NoShift, snap'[e] # snap[e]
  PROVE  /\ e \in req[r].days \ req'[r].days
         /\ req[r].refresh \/ req[r].asof <= e \/ <<r, e>> \in crossed
<1>1. /\ req[r].at \in {"rebuild", "lock"} /\ d \in req[r].days
      /\ req'[r].days = req[r].days \ {d}
  BY ProcessDayMoves
<1>2. e = d /\ snap'[d] = IF /\ DatedIn(ev, dt, d) = {}
                             /\ req[r].plan[d] = NoShift \/ d > today
                          THEN NoShift ELSE req[r].plan[d]
  BY DEF ProcessDay, TypeOK
<1>3. req[r].asof \in Int /\ today \in Int /\ e \in Int
  <2>1. req[r] \in Request BY DEF TypeOK
  <2> QED BY <2>1, RequestFields DEF TypeOK, Dates
<1>4. PlanKeeps(r) BY DEF PlanInv
<1>5. ASSUME ~req[r].refresh, e < req[r].asof, <<r, e>> \notin crossed PROVE FALSE
  <2>1. MayRebuild(r, e) /\ req[r].at \in Planned BY <1>1, <1>2 DEF MayRebuild, Planned
  <2>2. req[r].plan[e] = snap[e] /\ e < today BY <1>3, <1>4, <1>5, <2>1 DEF PlanKeeps
  <2> QED BY <1>2, <1>3, <2>2
<1>6. req[r].refresh \in BOOLEAN
  <2>1. req[r] \in Request BY DEF TypeOK
  <2> QED BY <2>1, RequestFields
<1> QED BY <1>1, <1>2, <1>3, <1>5, <1>6

\* A date keeps the shift rules it was calculated with, for any roster edits and
\* any number of requests: only the rebuild of a refresh, of a request that read
\* its rules before the date was over, or of one another request overtook on that
\* date replaces them (planner(): snapshots; process_day; lock_daily).
THEOREM HistoryStays == Spec => HistoryKept
<1> DEFINE Kept1 == \A d \in Dates :
       snap[d] # NoShift /\ snap'[d] # snap[d] =>
         \E r \in Workers :
           /\ d \in req[r].days \ req'[r].days
           /\ req[r].refresh \/ req[r].asof <= d \/ <<r, d>> \in crossed
<1>1. LedgerInv /\ PlanInv /\ [Next]_vars => [Kept1]_vars
  <2> SUFFICES ASSUME LedgerInv, PlanInv, Next, NEW e \in Dates, snap[e] # NoShift, snap'[e] # snap[e]
               PROVE  \E r \in Workers :
                        /\ e \in req[r].days \ req'[r].days
                        /\ req[r].refresh \/ req[r].asof <= e \/ <<r, e>> \in crossed
    OBVIOUS
  <2>0. TypeOK BY DEF LedgerInv
  <2>1. ASSUME NEW r \in Workers, NEW d \in Dates, NEW ev, NEW dt,
               HasLock(r, d), ProcessDay(r, d, ev, dt)
        PROVE  /\ e \in req[r].days \ req'[r].days
               /\ req[r].refresh \/ req[r].asof <= e \/ <<r, e>> \in crossed
    BY <2>0, <2>1, RebuildKeeps
  <2>2. ASSUME NEW r \in Workers, NEW d \in Dates,
               RebuildDay(r, d) \/ \E p \in Punches : AddAndRebuild(r, p, d) \/ VoidAndRebuild(r, p, d)
        PROVE  /\ e \in req[r].days \ req'[r].days
               /\ req[r].refresh \/ req[r].asof <= e \/ <<r, e>> \in crossed
    BY <2>1, <2>2 DEF RebuildDay, AddAndRebuild, VoidAndRebuild
  \* No other step writes a snapshot.
  <2>3. ASSUME NEW r \in Workers, Ingest(r) \/ Admin(r) \/ NightlyJob(r) \/ Die(r) PROVE FALSE
    <3>1. CASE Ingest(r) BY <3>1, IngestMoves
    <3>2. CASE Admin(r) \/ NightlyJob(r) \/ Die(r) BY <2>0, <3>2, AdminMoves DEF tables
    <3> QED BY <2>3, <3>1, <3>2
  <2>4. ASSUME NEW r \in Workers, Process(r)
        PROVE  \E d \in Dates : \/ RebuildDay(r, d)
                                \/ \E p \in Punches : AddAndRebuild(r, p, d) \/ VoidAndRebuild(r, p, d)
    <3>1. ~(PlanIngest(r) \/ PlanReprocess(r) \/ PlanVoid(r) \/ \E p \in Punches : PlanAdd(r, p))
      BY <2>0, PlanMoves DEF tables
    <3>2. ~Scan(r) /\ ~EndDates(r) /\ ~EndRebuild(r)
      BY DEF Scan, EndDates, EndRebuild, tables
    <3>3. \A p \in Punches : ~SetDate(r, p) BY DEF SetDate
    <3>4. \A d \in Dates : ~FindRow(r, d) /\ ~RowGone(r, d) BY DEF FindRow, RowGone, tables
    <3> QED BY <2>4, <3>1, <3>2, <3>3, <3>4 DEF Process
  <2>5. ~(Register \/ EditRoster \/ NextDay)
    BY DEF Register, EditRoster, NextDay, tables
  <2>6. PICK r \in Workers : Process(r) BY <2>3, <2>5 DEF Next
  <2> QED BY <2>2, <2>4, <2>6
<1>2. Spec => []PlanInv
  BY LedgerInductive, InitPlan, NextPlan, PTL DEF Spec
<1> QED BY <1>1, <1>2, LedgerInductive, PTL DEF Spec, HistoryKept
----------------------------------------------------------------------------
(* The daily rows follow the events.  A step that moves an event changes what  *)
(* two dates should hold, and rebuilds neither: the argument is that the       *)
(* request which moved it has both among the days it still has to rebuild.     *)
(* That rests on what a request may have in its memory at each step, and, as   *)
(* long as no assignment is edited, on every planner in flight agreeing with   *)
(* the assignments, so that no two requests move one event to different dates. *)

Processing == {"ingest", "reprocess"}

\* What a request may have in its memory at each step.
Orderly(q, ev) ==
  /\ q.at = "idle" => q.op = "none"
  /\ q.op \in Processing /\ q.at \notin {"date", "rebuild", "lock"} => q.days = {}
  /\ q.at = "date" => q.op \in Processing
  /\ q.at = "date" /\ q.op = "reprocess" => \A p \in q.todo : ev[p] # "none"
  /\ q.op \in {"add", "void"} => \A p, x \in q.batch : p = x
  /\ q.op = "add" => \A d, e \in q.days : d = e
  /\ q.op = "add" /\ (q.at = "plan" \/ q.days # {}) => \A p \in q.batch : ev[p] = "none"

\* A punch without an event has no work date, and two requests never add one punch.
UndatedUntilMade == \A p \in Punches : event[p] = "none" => date[p] = NoDate

AddsApart ==
  \A v, w \in Workers : v # w /\ req[v].op = "add" /\ req[w].op = "add" =>
                          req[v].batch \cap req[w].batch = {}

OrderlyInv ==
  /\ UndatedUntilMade
  /\ AddsApart
  /\ \A w \in Workers : Orderly(req[w], event)

LEMMA StepOrderly ==
  ASSUME LedgerInv, OrderlyInv, NEW r \in Workers, Others(r),
         \A p \in Punches : event[p] # "none" => event'[p] # "none",
         \A p \in Punches : event[p] = "none" /\ event'[p] # "none" =>
                              p \in Device \/ (req[r].op = "add" /\ p \in req[r].batch),
         UndatedUntilMade',
         Orderly(req'[r], event'),
         req'[r].op = "add" =>
           \/ req[r].op = "add" /\ req'[r].batch = req[r].batch
           \/ \A w \in Workers : req'[r].batch \cap req[w].batch = {}
  PROVE  OrderlyInv'
<1>1. AddsApart'
  <2> SUFFICES ASSUME NEW v \in Workers, NEW w \in Workers, v # w, req'[v].op = "add", req'[w].op = "add"
               PROVE  req'[v].batch \cap req'[w].batch = {}
    BY DEF AddsApart
  <2>1. CASE v = r BY <2>1 DEF OrderlyInv, AddsApart, Others
  <2>2. CASE w = r BY <2>2 DEF OrderlyInv, AddsApart, Others
  <2>3. CASE v # r /\ w # r BY <2>3 DEF OrderlyInv, AddsApart, Others
  <2> QED BY <2>1, <2>2, <2>3
<1>2. ASSUME NEW w \in Workers, w # r PROVE Orderly(req'[w], event')
  <2>1. /\ req'[w] = req[w] /\ Orderly(req[w], event) /\ RequestSound(req[w], raw, event, date)
        /\ req[w] \in Request
    BY <1>2 DEF Others, OrderlyInv, LedgerInv, TypeOK
  <2>2. req[w].batch \subseteq Punches /\ req[w].todo \subseteq Punches BY <2>1, RequestFields
  <2>3. req[w].op = "add" => \A p \in req[w].batch : p \notin Device
    BY <2>1 DEF RequestSound
  <2>4. req[w].op = "add" /\ req[r].op = "add" => \A p \in req[w].batch : p \notin req[r].batch
    BY <1>2 DEF OrderlyInv, AddsApart
  <2>5. req[w].op = "add" => \A p \in req[w].batch : event[p] = "none" => event'[p] = "none"
    BY <2>2, <2>3, <2>4
  <2> QED BY <2>1, <2>2, <2>5 DEF Orderly
<1> QED BY <1>1, <1>2 DEF OrderlyInv

LEMMA OrderlyIdle ==
  ASSUME NEW ev
  PROVE  Orderly(Idle, ev) /\ Idle.op = "none"
BY DEF Idle, Orderly, Processing

LEMMA IngestOrderly ==
  ASSUME LedgerInv, OrderlyInv, NEW r \in Workers, Ingest(r)
  PROVE  OrderlyInv'
<1>1. /\ Others(r) /\ date' = date
      /\ \A p \in Punches : \/ event'[p] = event[p]
                            \/ p \in Device /\ event[p] = "none" /\ event'[p] = "active"
      /\ \/ req'[r] = Idle
         \/ /\ req'[r].op = "ingest" /\ req'[r].at \in {"lookup", "store", "plan", "mark", "reply"}
            /\ \/ req[r].at = "idle" /\ req'[r].days = {}
               \/ req[r].at # "idle" /\ req'[r].days = req[r].days
      /\ req[r].at \in {"idle", "lookup", "store", "mark", "reply"}
  BY IngestMoves
<1>2. UndatedUntilMade' BY <1>1 DEF OrderlyInv, UndatedUntilMade
<1>3. RequestSound(req[r], raw, event, date) /\ Orderly(req[r], event)
  BY DEF LedgerInv, OrderlyInv
<1>4. req[r].at # "idle" => req[r].days = {}
  BY <1>1, <1>3 DEF RequestSound, Orderly, Processing
<1>5. Orderly(req'[r], event') /\ req'[r].op # "add"
  <2>1. CASE req'[r] = Idle BY <2>1, OrderlyIdle
  <2>2. CASE /\ req'[r].op = "ingest" /\ req'[r].at \in {"lookup", "store", "plan", "mark", "reply"}
             /\ req'[r].days = {}
    BY <2>2 DEF Orderly
  <2>3. CASE req'[r] # Idle
    <3>1. /\ req'[r].op = "ingest" /\ req'[r].at \in {"lookup", "store", "plan", "mark", "reply"}
          /\ req'[r].days = {}
      BY <1>1, <1>4, <2>3
    <3> QED BY <2>2, <3>1
  <2> QED BY <2>1, <2>3
<1> QED BY <1>1, <1>2, <1>5, StepOrderly

LEMMA ProcessOrderly ==
  ASSUME LedgerInv, OrderlyInv, NEW r \in Workers, Process(r)
  PROVE  OrderlyInv'
<1>0. /\ TypeOK /\ req[r] \in Request /\ RequestSound(req[r], raw, event, date)
      /\ Orderly(req[r], event) /\ UndatedUntilMade /\ event \in [Punches -> EventStatus]
  BY DEF LedgerInv, OrderlyInv, TypeOK
\* A step that leaves the events and their dates alone.
<1>a. ASSUME Others(r), UNCHANGED <<event, date>>, Orderly(req'[r], event),
             req'[r] = Idle \/ SameRequest(req'[r], req[r])
      PROVE  OrderlyInv'
  <2>1. UndatedUntilMade' BY <1>0, <1>a DEF UndatedUntilMade
  <2>2. req'[r].op = "add" => req[r].op = "add" /\ req'[r].batch = req[r].batch
    BY <1>a DEF Idle, SameRequest
  <2> QED BY <1>a, <2>1, <2>2, StepOrderly
<1>1. CASE PlanIngest(r) \/ PlanReprocess(r) \/ PlanVoid(r) \/ \E p \in Punches : PlanAdd(r, p)
  <2>1. /\ Others(r) /\ UNCHANGED <<event, date>>
        /\ req[r].at = "plan" /\ SameRequest(req'[r], req[r])
        /\ req'[r].at = CASE req[r].op = "ingest" -> "date"
                          [] req[r].op = "reprocess" -> "scan"
                          [] OTHER -> "rebuild"
        /\ req[r].op \in {"ingest", "reprocess", "void"} => req'[r].days = req[r].days
        /\ req[r].op \notin {"ingest", "reprocess", "void"} =>
             \E d : req'[r].days = {d}
    BY <1>0, <1>1, PlanMoves DEF tables
  <2>2. Orderly(req'[r], event)
    BY <1>0, <2>1 DEF Orderly, SameRequest, Processing
  <2> QED BY <1>a, <2>1, <2>2
<1>2. CASE Scan(r)
  <2>1. /\ Others(r) /\ UNCHANGED <<event, date>>
        /\ req[r].at = "scan" /\ req'[r].at = "date" /\ SameRequest(req'[r], req[r])
        /\ \A p \in req'[r].todo : event[p] = "active"
    BY <1>0, <1>2, ScanMoves DEF tables
  <2>2. req[r].op = "reprocess" BY <1>0, <2>1 DEF RequestSound
  <2>3. Orderly(req'[r], event) BY <2>1, <2>2 DEF Orderly, SameRequest, Processing
  <2> QED BY <1>a, <2>1, <2>3
<1>3. ASSUME NEW p \in Punches, SetDate(r, p) PROVE OrderlyInv'
  <2>1. /\ Others(r) /\ SameRequest(req'[r], req[r]) /\ event' = event
        /\ req[r].at = "date" /\ req'[r].at = "date" /\ p \in req[r].todo
        /\ req'[r].todo = req[r].todo \ {p}
    BY <1>0, <1>3, DateMoves
  <2>2. req[r].op \in Processing BY <1>0, <2>1 DEF Orderly
  <2>3. event[p] # "none"
    BY <1>0, <2>1, <2>2 DEF RequestSound, IngestSound, Orderly, Processing
  <2>4. \A x \in Punches : x # p => date'[x] = date[x]
    BY <1>0, <1>3 DEF SetDate, TypeOK
  <2>5. UndatedUntilMade' BY <1>0, <2>1, <2>3, <2>4 DEF UndatedUntilMade
  <2>6. Orderly(req'[r], event') /\ req'[r].op # "add"
    BY <1>0, <2>1, <2>2 DEF Orderly, SameRequest, Processing
  <2> QED BY <2>1, <2>5, <2>6, StepOrderly
<1>4. CASE EndDates(r)
  <2>1. /\ Others(r) /\ SameRequest(req'[r], req[r]) /\ UNCHANGED <<event, date>>
        /\ req[r].at = "date" /\ req'[r].at = "rebuild"
    BY <1>0, <1>4, EndDatesMoves DEF tables
  <2>2. Orderly(req'[r], event) BY <1>0, <2>1 DEF Orderly, SameRequest, Processing
  <2> QED BY <1>a, <2>1, <2>2
<1>5. ASSUME NEW d \in Dates, FindRow(r, d) PROVE OrderlyInv'
  <2>1. /\ Others(r) /\ SameRequest(req'[r], req[r]) /\ UNCHANGED <<event, date>>
        /\ req[r].at = "rebuild" /\ req'[r].at = "lock" /\ req'[r].days = req[r].days
    BY <1>0, <1>5, FindMoves DEF tables
  <2>2. Orderly(req'[r], event) BY <1>0, <2>1 DEF Orderly, SameRequest
  <2> QED BY <1>a, <2>1, <2>2
<1>6. ASSUME NEW d \in Dates, RowGone(r, d) PROVE OrderlyInv'
  <2>1. Others(r) /\ req'[r] = Idle /\ UNCHANGED <<event, date>>
    BY <1>0, <1>6, GiveUpMoves DEF RowGone, tables
  <2> QED BY <1>a, <2>1, OrderlyIdle
\* The request that rebuilt a date: what it has left to do is as orderly as before.
<1>b. ASSUME NEW d \in Dates, NEW ev, NEW dt, HasLock(r, d), ProcessDay(r, d, ev, dt)
      PROVE  /\ event' = ev /\ date' = dt /\ Others(r) /\ SameRequest(req'[r], req[r])
             /\ Orderly(req'[r], ev)
  <2>1. event' = ev /\ date' = dt BY <1>b DEF ProcessDay
  <2>2. /\ Others(r) /\ SameRequest(req'[r], req[r]) /\ d \in req[r].days
        /\ req[r].at \in {"rebuild", "lock"}
        /\ req'[r].at = "rebuild" /\ req'[r].days = req[r].days \ {d}
    BY <1>0, <1>b, ProcessDayMoves
  <2>3. req[r].op = "add" => req'[r].days = {} BY <1>0, <2>2 DEF Orderly
  <2>4. Orderly(req'[r], ev) BY <1>0, <2>2, <2>3 DEF Orderly, SameRequest
  <2> QED BY <2>1, <2>2, <2>4
<1>7. ASSUME NEW d \in Dates, RebuildDay(r, d) PROVE OrderlyInv'
  <2>1. /\ event' = event /\ date' = date /\ Others(r) /\ SameRequest(req'[r], req[r])
        /\ Orderly(req'[r], event)
    BY <1>7, <1>b DEF RebuildDay
  <2> QED BY <1>a, <2>1
<1>8. ASSUME NEW p \in Punches, NEW d \in Dates, AddAndRebuild(r, p, d) PROVE OrderlyInv'
  <2> DEFINE ev == [event EXCEPT ![p] = "active"]
             dt == [date EXCEPT ![p] = d]
  <2>1. req[r].op = "add" /\ p \in req[r].batch /\ HasLock(r, d) /\ ProcessDay(r, d, ev, dt)
    BY <1>8 DEF AddAndRebuild
  <2>2. /\ \A x \in Punches : x # p => ev[x] = event[x] /\ dt[x] = date[x]
        /\ ev[p] = "active"
    BY <1>0 DEF TypeOK
  <2> HIDE DEF ev, dt
  <2>3. /\ event' = ev /\ date' = dt /\ Others(r) /\ SameRequest(req'[r], req[r])
        /\ Orderly(req'[r], ev)
    BY <1>b, <2>1
  <2>4. UndatedUntilMade' BY <1>0, <2>2, <2>3 DEF UndatedUntilMade
  <2>5. \A x \in Punches : /\ event[x] # "none" => event'[x] # "none"
                           /\ event[x] = "none" /\ event'[x] # "none" => x = p
    BY <2>2, <2>3
  <2> QED BY <2>1, <2>3, <2>4, <2>5, StepOrderly DEF SameRequest
<1>9. ASSUME NEW p \in Punches, NEW d \in Dates, VoidAndRebuild(r, p, d) PROVE OrderlyInv'
  <2> DEFINE ev == [event EXCEPT ![p] = "void"]
  <2>1. req[r].op = "void" /\ p \in req[r].batch /\ HasLock(r, d) /\ ProcessDay(r, d, ev, date)
    BY <1>9 DEF VoidAndRebuild
  <2>2. event[p] # "none" BY <1>0, <2>1 DEF RequestSound
  <2>3. /\ \A x \in Punches : x # p => ev[x] = event[x]
        /\ ev[p] = "void"
    BY <1>0
  <2> HIDE DEF ev
  <2>4. /\ event' = ev /\ date' = date /\ Others(r) /\ SameRequest(req'[r], req[r])
        /\ Orderly(req'[r], ev)
    BY <1>b, <2>1
  <2>5. UndatedUntilMade' BY <1>0, <2>3, <2>4 DEF UndatedUntilMade
  <2>6. \A x \in Punches : event[x] = "none" <=> event'[x] = "none" BY <2>2, <2>3, <2>4
  <2>7. req'[r].op # "add" BY <2>1, <2>4 DEF SameRequest
  <2> QED BY <2>4, <2>5, <2>6, <2>7, StepOrderly
<1>10. CASE EndRebuild(r)
  <2>1. /\ Others(r) /\ UNCHANGED <<event, date>>
        /\ \/ req'[r] = Idle
           \/ /\ req[r].op = "ingest" /\ SameRequest(req'[r], req[r])
              /\ req'[r].at = "mark" /\ req'[r].days = {}
    BY <1>0, <1>10, EndRebuildMoves DEF tables
  <2>2. Orderly(req'[r], event)
    <3>1. CASE req'[r] = Idle BY <3>1, OrderlyIdle
    <3>2. CASE /\ req[r].op = "ingest" /\ SameRequest(req'[r], req[r])
               /\ req'[r].at = "mark" /\ req'[r].days = {}
      BY <3>2 DEF Orderly, SameRequest
    <3> QED BY <2>1, <3>1, <3>2
  <2> QED BY <1>a, <2>1, <2>2
<1> QED BY <1>1, <1>2, <1>3, <1>4, <1>5, <1>6, <1>7, <1>8, <1>9, <1>10 DEF Process

LEMMA AdminOrderly ==
  ASSUME LedgerInv, OrderlyInv, NEW r \in Workers, Admin(r) \/ NightlyJob(r) \/ Die(r)
  PROVE  OrderlyInv'
<1>0. TypeOK BY DEF LedgerInv
<1>1. Others(r) /\ UNCHANGED <<event, date>> BY <1>0, AdminMoves DEF tables
<1>2. UndatedUntilMade' BY <1>1 DEF OrderlyInv, UndatedUntilMade
<1>3. CASE GiveUp(r)
  <2>1. req'[r] = Idle BY <1>0, <1>3, GiveUpMoves
  <2>2. Orderly(req'[r], event') /\ req'[r].op # "add" BY <2>1, OrderlyIdle
  <2> QED BY <1>1, <1>2, <2>2, StepOrderly
<1>4. CASE ~GiveUp(r)
  <2>1. /\ req'[r].at = "plan"
        /\ \/ req'[r].op = "reprocess" /\ req'[r].days = {}
           \/ /\ req'[r].op = "add" /\ req'[r].days = {}
              /\ \E p \in Punches : /\ req'[r].batch = {p} /\ event[p] = "none"
                                    /\ \A w \in Workers : p \notin req[w].batch
           \/ /\ req'[r].op = "void"
              /\ \E p \in Punches : req'[r].batch = {p} /\ req'[r].days = {date[p]}
    BY <1>0, <1>4, AdminMoves
  <2>2. Orderly(req'[r], event') BY <1>1, <2>1 DEF Orderly, Processing
  <2>3. req'[r].op = "add" => \A w \in Workers : req'[r].batch \cap req[w].batch = {}
    BY <2>1
  <2> QED BY <1>1, <1>2, <2>2, <2>3, StepOrderly
<1> QED BY <1>3, <1>4

LEMMA InitOrderly == Init => OrderlyInv
<1> SUFFICES ASSUME Init PROVE OrderlyInv OBVIOUS
<1>1. \A w \in Workers : Orderly(req[w], event) BY OrderlyIdle DEF Init
<1>2. AddsApart BY DEF Init, AddsApart, Idle
<1>3. UndatedUntilMade BY DEF Init, UndatedUntilMade
<1> QED BY <1>1, <1>2, <1>3 DEF OrderlyInv

LEMMA NextOrderly == LedgerInv /\ OrderlyInv /\ [Next]_vars => OrderlyInv'
<1> SUFFICES ASSUME LedgerInv, OrderlyInv, [Next]_vars PROVE OrderlyInv' OBVIOUS
<1>1. ASSUME NEW r \in Workers, Ingest(r) \/ Process(r) \/ Admin(r) \/ NightlyJob(r) \/ Die(r)
      PROVE  OrderlyInv'
  BY <1>1, IngestOrderly, ProcessOrderly, AdminOrderly
<1>2. CASE Register \/ EditRoster \/ NextDay \/ UNCHANGED vars
  <2>1. UNCHANGED <<req, event, date>>
    BY <1>2 DEF Register, EditRoster, NextDay, vars, tables
  <2> QED BY <2>1 DEF OrderlyInv, UndatedUntilMade, AddsApart
<1> QED BY <1>1, <1>2 DEF Next

\* While no assignment has been edited: every row and every planner agrees with
\* the assignments, so every event is dated, moved or voided where they say.
Home(p) == WorkDateFor(roster, Time[p])

UpToDate(q) ==
  /\ q.at \in Planned => \A d \in Dates : q.plan[d] = roster[d]
  /\ q.op \in {"add", "void"} => \A p \in q.batch : q.days \subseteq {Home(p)}

Settled ==
  /\ \A d \in Dates : snap[d] \in {NoShift, roster[d]}
  /\ \A p \in Punches : date[p] \in {NoDate, Home(p)}
  /\ \A w \in Workers : UpToDate(req[w])

SettledInv == edits = 0 => Settled

\* Planners that agree on every date give a punch the same work date.
LEMMA SameWorkDate ==
  ASSUME NEW plan, NEW pl2, \A d \in Dates : plan[d] = pl2[d], NEW p \in Punches
  PROVE  WorkDateFor(plan, Time[p]) = WorkDateFor(pl2, Time[p])
<1> DEFINE day == DateOf(Time[p])
<1>1. day \in 1 .. LastDate - 1 /\ LastDate \in Nat BY PunchAssumption
<1>2. day \in Dates /\ day - 1 \in Dates /\ day + 1 \in Dates BY <1>1 DEF Dates
<1>3. plan[day] = pl2[day] /\ plan[day - 1] = pl2[day - 1] /\ plan[day + 1] = pl2[day + 1]
  BY <1>2
<1> QED BY <1>3 DEF WorkDateFor

LEMMA PlannerAgrees ==
  ASSUME Settled, NEW refresh, NEW d \in Dates
  PROVE  Planner(refresh)[d] = roster[d]
BY DEF Settled, Planner

\* The step of a request that only writes what Settled allows.
LEMMA StepSettled ==
  ASSUME TypeOK, SettledInv, NEW r \in Workers, Others(r), UNCHANGED <<roster, edits>>,
         Settled => /\ \A d \in Dates : snap'[d] \in {snap[d], NoShift, roster[d]}
                    /\ \A p \in Punches : date'[p] \in {date[p], Home(p)}
                    /\ UpToDate(req'[r])
  PROVE  SettledInv'
<1> SUFFICES ASSUME edits = 0 PROVE Settled' BY DEF SettledInv
<1>1. Settled BY DEF SettledInv
<1>2. \A p \in Punches : Home(p)' = Home(p) BY DEF Home
<1>3. \A d \in Dates : snap'[d] \in {NoShift, roster'[d]} BY <1>1 DEF Settled
<1>4. \A p \in Punches : date'[p] \in {NoDate, Home(p)'} BY <1>1, <1>2 DEF Settled
<1>5. ASSUME NEW w \in Workers PROVE UpToDate(req[w])'
  <2>1. UpToDate(req'[w]) BY <1>1 DEF Settled, Others
  <2> QED BY <2>1 DEF UpToDate, Home
<1> QED BY <1>3, <1>4, <1>5 DEF Settled

LEMMA IdleUpToDate == UpToDate(Idle)
BY DEF Idle, UpToDate, Planned

\* A request that goes on with the planner it holds and no further dates.
LEMMA StaysUpToDate ==
  ASSUME NEW q, NEW m, UpToDate(q), SameRequest(m, q), m.days \subseteq q.days,
         m.at \in Planned => q.at \in Planned /\ m.plan = q.plan
  PROVE  UpToDate(m)
BY DEF UpToDate, SameRequest

LEMMA IngestSettled ==
  ASSUME LedgerInv, SettledInv, NEW r \in Workers, Ingest(r)
  PROVE  SettledInv'
<1>1. /\ Others(r) /\ UNCHANGED <<snap, date, roster, edits>>
      /\ req'[r] = Idle \/ (req'[r].op = "ingest" /\ req'[r].at \notin Planned)
  BY IngestMoves DEF world, Planned
<1>2. UpToDate(req'[r]) BY <1>1, IdleUpToDate DEF UpToDate
<1>3. TypeOK BY DEF LedgerInv
<1> QED BY <1>1, <1>2, <1>3, StepSettled

LEMMA ProcessSettled ==
  ASSUME LedgerInv, OrderlyInv, SettledInv, NEW r \in Workers, Process(r)
  PROVE  SettledInv'
<1>0. /\ TypeOK /\ req[r] \in Request /\ Orderly(req[r], event)
      /\ RequestSound(req[r], raw, event, date)
  BY DEF LedgerInv, OrderlyInv, TypeOK
<1>a. Settled => UpToDate(req[r]) BY DEF Settled
<1>1. CASE PlanIngest(r) \/ PlanReprocess(r) \/ PlanVoid(r) \/ \E p \in Punches : PlanAdd(r, p)
  <2>1. /\ Others(r) /\ UNCHANGED <<snap, date, roster, edits>>
        /\ SameRequest(req'[r], req[r]) /\ req'[r].plan = Planner(req[r].refresh)
        /\ req[r].op \in {"ingest", "reprocess", "void"} => req'[r].days = req[r].days
        /\ req[r].op \notin {"ingest", "reprocess", "void"} =>
             /\ req[r].op = "add"
             /\ \E p \in req[r].batch : req'[r].days = {WorkDateFor(Planner(FALSE), Time[p])}
    BY <1>0, <1>1, PlanMoves DEF tables, world
  <2>2. ASSUME Settled PROVE UpToDate(req'[r])
    <3>1. \A d \in Dates : req'[r].plan[d] = roster[d] BY <2>1, <2>2, PlannerAgrees
    <3>2. CASE req[r].op \in {"ingest", "reprocess", "void"}
      BY <1>a, <2>1, <2>2, <3>1, <3>2 DEF UpToDate, SameRequest
    <3>3. CASE req[r].op \notin {"ingest", "reprocess", "void"}
      <4>1. PICK p \in req[r].batch : req'[r].days = {WorkDateFor(Planner(FALSE), Time[p])}
        BY <2>1, <3>3
      <4>2. p \in Punches /\ \A x \in req[r].batch : x = p
        BY <1>0, <2>1, <3>3, RequestFields DEF Orderly
      <4>3. \A d \in Dates : Planner(FALSE)[d] = roster[d] BY <2>2, PlannerAgrees
      <4>4. WorkDateFor(Planner(FALSE), Time[p]) = Home(p) BY <4>2, <4>3, SameWorkDate DEF Home
      <4> QED BY <2>1, <3>1, <4>1, <4>2, <4>4 DEF UpToDate, SameRequest
    <3> QED BY <3>2, <3>3
  <2> QED BY <1>0, <2>1, <2>2, StepSettled
<1>2. CASE Scan(r)
  <2>1. /\ Others(r) /\ UNCHANGED <<snap, date, roster, edits>>
        /\ req[r].at = "scan" /\ SameRequest(req'[r], req[r]) /\ req'[r].plan = req[r].plan
    BY <1>0, <1>2, ScanMoves DEF tables, world
  <2>2. req[r].op = "reprocess" BY <1>0, <2>1 DEF RequestSound
  <2>3. UpToDate(req[r]) => UpToDate(req'[r])
    BY <2>1, <2>2 DEF UpToDate, SameRequest, Planned
  <2> QED BY <1>0, <1>a, <2>1, <2>3, StepSettled
<1>3. ASSUME NEW p \in Punches, SetDate(r, p) PROVE SettledInv'
  <2>1. /\ Others(r) /\ UNCHANGED <<snap, roster, edits>> /\ SameRequest(req'[r], req[r])
        /\ req[r].at = "date" /\ req'[r].plan = req[r].plan
    BY <1>0, <1>3, DateMoves DEF world
  <2>2. req[r].op \in Processing BY <1>0, <2>1 DEF Orderly
  <2>3. UpToDate(req[r]) => UpToDate(req'[r])
    BY <2>1, <2>2 DEF UpToDate, SameRequest, Planned, Processing
  <2>4. ASSUME Settled, NEW x \in Punches PROVE date'[x] \in {date[x], Home(x)}
    <3>1. \A d \in Dates : req[r].plan[d] = roster[d]
      BY <1>a, <2>1, <2>4 DEF UpToDate, Planned
    <3>2. WorkDateFor(req[r].plan, Time[p]) = Home(p) BY <3>1, SameWorkDate DEF Home
    <3> QED BY <1>0, <1>3, <3>2 DEF SetDate, TypeOK
  <2> QED BY <1>0, <1>a, <2>1, <2>3, <2>4, StepSettled
<1>4. CASE EndDates(r)
  <2>1. /\ Others(r) /\ UNCHANGED <<snap, date, roster, edits>>
        /\ req[r].at = "date" /\ SameRequest(req'[r], req[r]) /\ req'[r].plan = req[r].plan
        /\ req'[r].days \subseteq req[r].days
    BY <1>0, <1>4, EndDatesMoves DEF tables, world
  <2>2. UpToDate(req[r]) => UpToDate(req'[r])
    BY <2>1 DEF UpToDate, SameRequest, Planned
  <2> QED BY <1>0, <1>a, <2>1, <2>2, StepSettled
<1>5. ASSUME NEW d \in Dates, FindRow(r, d) PROVE SettledInv'
  <2>1. /\ Others(r) /\ UNCHANGED <<snap, date, roster, edits>>
        /\ req[r].at = "rebuild" /\ SameRequest(req'[r], req[r]) /\ req'[r].plan = req[r].plan
        /\ req'[r].days = req[r].days
    BY <1>0, <1>5, FindMoves DEF tables, world
  <2>2. UpToDate(req[r]) => UpToDate(req'[r])
    BY <2>1 DEF UpToDate, SameRequest, Planned
  <2> QED BY <1>0, <1>a, <2>1, <2>2, StepSettled
<1>6. ASSUME NEW d \in Dates, RowGone(r, d) PROVE SettledInv'
  <2>1. Others(r) /\ UNCHANGED <<snap, date, roster, edits>> /\ req'[r] = Idle
    BY <1>0, <1>6, GiveUpMoves DEF RowGone, tables, world
  <2> QED BY <1>0, <2>1, IdleUpToDate, StepSettled
<1>b. ASSUME NEW d \in Dates, NEW ev, NEW dt, HasLock(r, d), ProcessDay(r, d, ev, dt),
             Settled => \A p \in Punches : dt[p] \in {date[p], Home(p)}
      PROVE  SettledInv'
  <2>1. /\ Others(r) /\ SameRequest(req'[r], req[r]) /\ req[r].at \in {"rebuild", "lock"}
        /\ req'[r].days = req[r].days \ {d} /\ req'[r].plan = req[r].plan
    BY <1>0, <1>b, ProcessDayMoves
  <2>2. UpToDate(req[r]) => UpToDate(req'[r])
    BY <2>1 DEF UpToDate, SameRequest, Planned
  <2>3. /\ UNCHANGED <<roster, edits>> /\ date' = dt
        /\ snap' \in {[snap EXCEPT ![d] = NoShift], [snap EXCEPT ![d] = req[r].plan[d]]}
    BY <1>b DEF ProcessDay, world
  <2>4. ASSUME Settled, NEW e \in Dates PROVE snap'[e] \in {snap[e], NoShift, roster[e]}
    <3>1. req[r].plan[d] = roster[d] BY <1>a, <2>1, <2>4 DEF UpToDate, Planned
    <3>2. snap \in [Dates -> Snapshots] BY <1>0 DEF TypeOK
    <3> QED BY <2>3, <3>1, <3>2
  <2> QED BY <1>0, <1>a, <1>b, <2>1, <2>2, <2>3, <2>4, StepSettled
<1>7. ASSUME NEW d \in Dates, RebuildDay(r, d) PROVE SettledInv'
  BY <1>7, <1>b DEF RebuildDay
<1>8. ASSUME NEW p \in Punches, NEW d \in Dates, AddAndRebuild(r, p, d) PROVE SettledInv'
  <2>1. /\ req[r].op = "add" /\ p \in req[r].batch /\ HasLock(r, d)
        /\ ProcessDay(r, d, [event EXCEPT ![p] = "active"], [date EXCEPT ![p] = d])
    BY <1>8 DEF AddAndRebuild
  <2>2. d \in req[r].days BY <2>1 DEF HasLock, IsNext
  <2>3. ASSUME Settled, NEW x \in Punches PROVE [date EXCEPT ![p] = d][x] \in {date[x], Home(x)}
    <3>1. d = Home(p) BY <1>a, <2>1, <2>2, <2>3 DEF UpToDate
    <3> QED BY <1>0, <3>1 DEF TypeOK
  <2> QED BY <1>b, <2>1, <2>3
<1>9. ASSUME NEW p \in Punches, NEW d \in Dates, VoidAndRebuild(r, p, d) PROVE SettledInv'
  BY <1>9, <1>b DEF VoidAndRebuild
<1>10. CASE EndRebuild(r)
  <2>1. /\ Others(r) /\ UNCHANGED <<snap, date, roster, edits>>
        /\ \/ req'[r] = Idle
           \/ req[r].op = "ingest" /\ SameRequest(req'[r], req[r]) /\ req'[r].at = "mark"
    BY <1>0, <1>10, EndRebuildMoves DEF tables, world
  <2>2. UpToDate(req'[r])
    <3>1. CASE req'[r] = Idle BY <3>1, IdleUpToDate
    <3>2. CASE req[r].op = "ingest" /\ SameRequest(req'[r], req[r]) /\ req'[r].at = "mark"
      BY <3>2 DEF UpToDate, SameRequest, Planned
    <3> QED BY <2>1, <3>1, <3>2
  <2> QED BY <1>0, <2>1, <2>2, StepSettled
<1> QED BY <1>1, <1>2, <1>3, <1>4, <1>5, <1>6, <1>7, <1>8, <1>9, <1>10 DEF Process

LEMMA AdminSettled ==
  ASSUME TypeOK, SettledInv, NEW r \in Workers, Admin(r) \/ NightlyJob(r) \/ Die(r)
  PROVE  SettledInv'
<1>1. Others(r) /\ UNCHANGED <<snap, date, roster, edits>> BY AdminMoves DEF tables
<1>2. CASE GiveUp(r)
  <2>1. req'[r] = Idle BY <1>2, GiveUpMoves
  <2> QED BY <1>1, <2>1, IdleUpToDate, StepSettled
<1>3. CASE ~GiveUp(r)
  <2>1. /\ req'[r].at = "plan"
        /\ \/ req'[r].op = "reprocess" /\ req'[r].days = {}
           \/ req'[r].op = "add" /\ req'[r].days = {}
           \/ /\ req'[r].op = "void"
              /\ \E p \in Punches : /\ req'[r].batch = {p} /\ req'[r].days = {date[p]}
                                    /\ date[p] # NoDate
    BY <1>3, AdminMoves
  <2>2. Settled => UpToDate(req'[r]) BY <2>1 DEF UpToDate, Settled, Planned
  <2> QED BY <1>1, <2>2, StepSettled
<1> QED BY <1>2, <1>3

LEMMA InitSettled == Init => SettledInv
<1> SUFFICES ASSUME Init PROVE Settled BY DEF SettledInv
<1>1. \A w \in Workers : UpToDate(req[w]) BY IdleUpToDate DEF Init
<1> QED BY <1>1 DEF Init, Settled, NoPlan

LEMMA NextSettled == LedgerInv /\ OrderlyInv /\ SettledInv /\ [Next]_vars => SettledInv'
<1> SUFFICES ASSUME LedgerInv, OrderlyInv, SettledInv, [Next]_vars PROVE SettledInv' OBVIOUS
<1>0. TypeOK BY DEF LedgerInv
<1>1. ASSUME NEW r \in Workers, Ingest(r) \/ Process(r) \/ Admin(r) \/ NightlyJob(r) \/ Die(r)
      PROVE  SettledInv'
  BY <1>0, <1>1, IngestSettled, ProcessSettled, AdminSettled
<1>2. CASE EditRoster
  <2>1. edits' # 0 BY <1>0, <1>2, BoundAssumption DEF EditRoster, TypeOK
  <2> QED BY <2>1 DEF SettledInv
<1>3. CASE Register \/ NextDay \/ UNCHANGED vars
  <2>1. UNCHANGED <<req, snap, date, roster, edits>>
    BY <1>3 DEF Register, NextDay, vars, tables, world
  <2> QED BY <2>1 DEF SettledInv, Settled, UpToDate, Home
<1> QED BY <1>1, <1>2, <1>3 DEF Next
\* The request of worker w still has to rebuild date d.
Owes(w, d) == req[w].op \in Processing /\ d \in req[w].days

Explained(d) == \/ holds[d] = Dated(d) \/ Owed(d) \/ d \in dropped
                \/ (edits > 0 /\ d \in stranded)

\* A step explains a date it leaves alone, unless its request gives the date up.
LEMMA StepExplained ==
  ASSUME StaleIsExplained, NEW r \in Workers, Others(r), edits' = edits, NEW d \in Dates,
         holds'[d] = holds[d], Dated(d)' = Dated(d),
         d \in dropped => d \in dropped', d \in stranded => d \in stranded',
         Owes(r, d) => Owes(r, d)' \/ holds[d] = Dated(d) \/ d \in dropped'
  PROVE  Explained(d)'
<1>1. CASE holds[d] = Dated(d) BY <1>1 DEF Explained
<1>2. CASE d \in dropped \/ (edits > 0 /\ d \in stranded) BY <1>2 DEF Explained
<1>3. CASE Owed(d)
  <2>1. PICK w \in Workers : Owes(w, d) BY <1>3 DEF Owed, Owes, Processing
  <2>2. CASE w = r BY <2>1, <2>2 DEF Explained, Owed, Owes, Processing
  <2>3. CASE w # r BY <2>1, <2>3 DEF Explained, Owed, Owes, Others, Processing
  <2> QED BY <2>2, <2>3
<1> QED BY <1>1, <1>2, <1>3 DEF StaleIsExplained

LEMMA OweExplained ==
  ASSUME NEW r \in Workers, NEW d \in Dates, Owes(r, d)'
  PROVE  Explained(d)'
BY DEF Explained, Owed, Owes, Processing

\* A step that neither rebuilds a date nor touches an event.
LEMMA StepQuiet ==
  ASSUME StaleIsExplained, NEW r \in Workers, Others(r),
         UNCHANGED <<event, date, holds, stranded, edits>>, dropped \subseteq dropped',
         \A d \in Dates : Owes(r, d) => Owes(r, d)' \/ holds[d] = Dated(d) \/ d \in dropped'
  PROVE  StaleIsExplained'
<1>1. ASSUME NEW d \in Dates PROVE Explained(d)'
  BY StepExplained DEF Dated, DatedIn
<1> QED BY <1>1 DEF StaleIsExplained, Explained

LEMMA GiveUpExplained ==
  ASSUME TypeOK, StaleIsExplained, NEW r \in Workers, GiveUp(r),
         UNCHANGED <<event, date, holds, stranded, edits>>
  PROVE  StaleIsExplained'
<1>1. /\ Others(r) /\ dropped \subseteq dropped'
      /\ req[r].op \in {"ingest", "reprocess"} => req[r].days \subseteq dropped'
  BY GiveUpMoves
<1> QED BY <1>1, StepQuiet DEF Owes, Processing

\* An event made by the ingestion has no date yet.
LEMMA IngestExplained ==
  ASSUME LedgerInv, OrderlyInv, StaleIsExplained, NEW r \in Workers, Ingest(r)
  PROVE  StaleIsExplained'
<1>1. /\ Others(r) /\ UNCHANGED <<date, holds, edits, stranded>> /\ dropped \subseteq dropped'
      /\ \A p \in Punches : \/ event'[p] = event[p]
                            \/ p \in Device /\ event[p] = "none" /\ event'[p] = "active"
      /\ req[r].at \in {"idle", "lookup", "store", "mark", "reply"}
  BY IngestMoves DEF world
<1>2. Orderly(req[r], event) /\ UndatedUntilMade BY DEF OrderlyInv
<1>3. \A d \in Dates : ~Owes(r, d) BY <1>1, <1>2 DEF Owes, Orderly, Processing
<1>4. ASSUME NEW d \in Dates PROVE Dated(d)' = Dated(d)
  <2>1. d # NoDate BY NoDateAssumption, PunchAssumption DEF Dates
  <2>2. ASSUME NEW p \in Punches
        PROVE  (event'[p] = "active" /\ date'[p] = d) <=> (event[p] = "active" /\ date[p] = d)
    BY <1>1, <1>2, <2>1 DEF UndatedUntilMade
  <2> QED BY <2>2 DEF Dated, DatedIn
<1>5. ASSUME NEW d \in Dates PROVE Explained(d)'
  BY <1>1, <1>3, <1>4, StepExplained
<1> QED BY <1>5 DEF StaleIsExplained, Explained

LEMMA ProcessExplained ==
  ASSUME LedgerInv, OrderlyInv, SettledInv, StaleIsExplained, NEW r \in Workers, Process(r)
  PROVE  StaleIsExplained'
<1>0. /\ TypeOK /\ req[r] \in Request /\ Orderly(req[r], event)
      /\ RequestSound(req[r], raw, event, date)
      /\ date \in [Punches -> Dates \cup {NoDate}] /\ event \in [Punches -> EventStatus]
      /\ NoDate \notin Dates /\ edits \in Nat /\ holds \in [Dates -> SUBSET Punches]
  BY NoDateAssumption, BoundAssumption DEF LedgerInv, OrderlyInv, TypeOK, Dates
<1>a. edits = 0 => Settled /\ UpToDate(req[r]) BY DEF SettledInv, Settled
<1>1. CASE PlanIngest(r) \/ PlanReprocess(r) \/ PlanVoid(r) \/ \E p \in Punches : PlanAdd(r, p)
  <2>1. /\ Others(r) /\ UNCHANGED <<event, date, holds, stranded, edits, dropped>>
        /\ req[r].at = "plan" /\ SameRequest(req'[r], req[r])
    BY <1>0, <1>1, PlanMoves DEF tables, world, history
  <2>2. \A d \in Dates : ~Owes(r, d) BY <1>0, <2>1 DEF Owes, Orderly, Processing
  <2> QED BY <2>1, <2>2, StepQuiet
<1>2. CASE Scan(r)
  <2>1. /\ Others(r) /\ UNCHANGED <<event, date, holds, stranded, edits, dropped>>
        /\ req[r].at = "scan"
    BY <1>0, <1>2, ScanMoves DEF tables, world, history
  <2>2. \A d \in Dates : ~Owes(r, d) BY <1>0, <2>1 DEF Owes, Orderly, Processing
  <2> QED BY <2>1, <2>2, StepQuiet
\* Both the date an event leaves and the one it goes to are owed afterwards, or the
\* event was moved since this request saw it, which takes an edited assignment.
<1>3. ASSUME NEW p \in Punches, SetDate(r, p) PROVE StaleIsExplained'
  <2> DEFINE wd == WorkDateFor(req[r].plan, Time[p])
             sn == req[r].seen[p]
  <2>1. /\ Others(r) /\ SameRequest(req'[r], req[r]) /\ event' = event /\ holds' = holds
        /\ UNCHANGED <<dropped, edits>> /\ req[r].at = "date"
        /\ req'[r].days = req[r].days \cup {wd} \cup ({sn} \ {NoDate})
    BY <1>0, <1>3, DateMoves DEF world
  <2>2. /\ date' = IF sn = wd THEN date ELSE [date EXCEPT ![p] = wd]
        /\ stranded' = stranded \cup {d \in {date[p]} \ {NoDate, wd} : d # sn /\ d # date'[p]}
    BY <1>3 DEF SetDate
  <2>3. req[r].op \in Processing /\ req'[r].op = req[r].op
    BY <1>0, <2>1 DEF Orderly, SameRequest
  <2>4. edits = 0 => date[p] \in {NoDate, wd}
    <3> SUFFICES ASSUME edits = 0 PROVE date[p] \in {NoDate, wd} OBVIOUS
    <3>1. \A d \in Dates : req[r].plan[d] = roster[d]
      BY <1>a, <2>1 DEF UpToDate, Planned
    <3>2. wd = Home(p) BY <3>1, SameWorkDate DEF Home
    <3> QED BY <1>a, <3>2 DEF Settled
  <2> HIDE DEF wd, sn
  <2>5. ASSUME NEW d \in Dates PROVE Explained(d)'
    <3>1. CASE d = wd \/ d = sn
      <4>1. d \in req'[r].days BY <1>0, <2>1, <3>1
      <4>2. Owes(r, d)' BY <2>3, <4>1 DEF Owes, Processing
      <4> QED BY <4>2, OweExplained
    <3>2. CASE d = date[p] /\ d # wd /\ d # sn
      <4>1. edits # 0 BY <1>0, <2>4, <3>2
      <4>2. edits' > 0 BY <1>0, <2>1, <4>1
      <4>3. CASE date'[p] = date[p]
        <5>1. \A x \in Punches : date'[x] = date[x] BY <1>0, <2>2, <4>3
        <5>2. Dated(d)' = Dated(d) BY <2>1, <5>1 DEF Dated, DatedIn
        <5>3. Owes(r, d) => Owes(r, d)' BY <2>1, <2>3 DEF Owes
        <5> QED BY <2>1, <2>2, <5>2, <5>3, StepExplained
      <4>4. CASE date'[p] # date[p]
        <5>1. d \in stranded' BY <1>0, <2>2, <3>2, <4>4
        <5> QED BY <4>2, <5>1 DEF Explained
      <4> QED BY <4>3, <4>4
    <3>3. CASE d # date[p] /\ d # wd /\ d # sn
      <4>1. \A x \in Punches : date'[x] = d <=> date[x] = d BY <1>0, <2>2, <3>3
      <4>2. Dated(d)' = Dated(d) BY <2>1, <4>1 DEF Dated, DatedIn
      <4>3. Owes(r, d) => Owes(r, d)' BY <2>1, <2>3 DEF Owes
      <4> QED BY <2>1, <2>2, <4>2, <4>3, StepExplained
    <3> QED BY <3>1, <3>2, <3>3
  <2> QED BY <2>5 DEF StaleIsExplained, Explained
<1>4. CASE EndDates(r)
  <2>1. /\ Others(r) /\ SameRequest(req'[r], req[r])
        /\ UNCHANGED <<event, date, holds, stranded, edits>>
        /\ dropped' = dropped \cup {d \in req[r].days \ req'[r].days : holds[d] # Dated(d)}
    BY <1>0, <1>4, EndDatesMoves DEF tables, world
  <2>2. \A d \in Dates : Owes(r, d) => Owes(r, d)' \/ holds[d] = Dated(d) \/ d \in dropped'
    BY <2>1 DEF Owes, SameRequest
  <2> QED BY <2>1, <2>2, StepQuiet
<1>5. ASSUME NEW d \in Dates, FindRow(r, d) PROVE StaleIsExplained'
  <2>1. /\ Others(r) /\ UNCHANGED <<event, date, holds, stranded, edits, dropped>>
        /\ SameRequest(req'[r], req[r]) /\ req'[r].days = req[r].days
    BY <1>0, <1>5, FindMoves DEF tables, world, history
  <2> QED BY <2>1, StepQuiet DEF Owes, SameRequest
<1>6. ASSUME NEW d \in Dates, RowGone(r, d) PROVE StaleIsExplained'
  BY <1>0, <1>6, GiveUpExplained DEF RowGone, tables, world
\* The date rebuilt is exact; the others are as they were, where the events are.
<1>b. ASSUME NEW d \in Dates, NEW ev, NEW dt, HasLock(r, d), ProcessDay(r, d, ev, dt),
             stranded \subseteq stranded' \cup {d},
             \A e \in Dates : e # d => \/ DatedIn(ev, dt, e) = Dated(e)
                                       \/ edits > 0 /\ e \in stranded'
      PROVE  StaleIsExplained'
  <2>1. /\ Others(r) /\ SameRequest(req'[r], req[r])
        /\ req'[r].days = req[r].days \ {d}
    BY <1>0, <1>b, ProcessDayMoves
  <2>2. /\ event' = ev /\ date' = dt /\ edits' = edits /\ dropped' = dropped \ {d}
        /\ holds' = [holds EXCEPT ![d] = DatedIn(ev, dt, d)]
    BY <1>b DEF ProcessDay, world
  <2>3. \A e \in Dates : Dated(e)' = DatedIn(ev, dt, e) BY <2>2 DEF Dated, DatedIn
  <2>4. ASSUME NEW e \in Dates PROVE Explained(e)'
    <3>1. CASE e = d
      <4>1. holds'[e] = Dated(e)' BY <1>0, <2>2, <2>3, <3>1
      <4> QED BY <4>1 DEF Explained
    <3>2. CASE e # d /\ edits > 0 /\ e \in stranded'
      BY <2>2, <3>2 DEF Explained
    <3>3. CASE e # d /\ DatedIn(ev, dt, e) = Dated(e)
      <4>1. holds'[e] = holds[e] /\ Dated(e)' = Dated(e) BY <1>0, <2>2, <2>3, <3>3
      <4>2. Owes(r, e) => Owes(r, e)' BY <2>1, <3>3 DEF Owes, SameRequest
      <4>3. (e \in dropped => e \in dropped') /\ (e \in stranded => e \in stranded')
        BY <1>b, <2>2, <3>3
      <4> QED BY <2>1, <2>2, <4>1, <4>2, <4>3, StepExplained
    <3> QED BY <1>b, <3>1, <3>2, <3>3
  <2> QED BY <2>4 DEF StaleIsExplained, Explained
<1>7. ASSUME NEW d \in Dates, RebuildDay(r, d) PROVE StaleIsExplained'
  BY <1>7, <1>b DEF RebuildDay, Dated
<1>8. ASSUME NEW p \in Punches, NEW d \in Dates, AddAndRebuild(r, p, d) PROVE StaleIsExplained'
  <2> DEFINE ev == [event EXCEPT ![p] = "active"]
             dt == [date EXCEPT ![p] = d]
  <2>1. /\ req[r].op = "add" /\ p \in req[r].batch /\ HasLock(r, d) /\ ProcessDay(r, d, ev, dt)
        /\ stranded' = stranded \ {d}
    BY <1>8 DEF AddAndRebuild
  <2>2. d \in req[r].days BY <2>1 DEF HasLock, IsNext
  <2>3. event[p] = "none" BY <1>0, <2>1, <2>2 DEF Orderly
  <2>4. dt[p] = d /\ \A x \in Punches : x # p => ev[x] = event[x] /\ dt[x] = date[x] BY <1>0
  <2> HIDE DEF ev, dt
  <2>5. ASSUME NEW e \in Dates, e # d PROVE DatedIn(ev, dt, e) = Dated(e)
    <3>1. \A x \in Punches : (ev[x] = "active" /\ dt[x] = e) <=> (event[x] = "active" /\ date[x] = e)
      BY <2>3, <2>4, <2>5
    <3> QED BY <3>1 DEF Dated, DatedIn
  <2> QED BY <1>b, <2>1, <2>5
<1>9. ASSUME NEW p \in Punches, NEW d \in Dates, VoidAndRebuild(r, p, d) PROVE StaleIsExplained'
  <2> DEFINE ev == [event EXCEPT ![p] = "void"]
  <2>1. /\ req[r].op = "void" /\ p \in req[r].batch /\ HasLock(r, d) /\ ProcessDay(r, d, ev, date)
        /\ stranded' = (stranded \cup {date[p]}) \ {d, NoDate}
    BY <1>9 DEF VoidAndRebuild
  <2>2. d \in req[r].days BY <2>1 DEF HasLock, IsNext
  <2>3. edits = 0 => date[p] \in {NoDate, d}
    BY <1>a, <2>1, <2>2 DEF Settled, UpToDate
  <2>4. ev[p] = "void" /\ \A x \in Punches : x # p => ev[x] = event[x] BY <1>0
  <2> HIDE DEF ev
  <2>5. ASSUME NEW e \in Dates, e # d
        PROVE  DatedIn(ev, date, e) = Dated(e) \/ (edits > 0 /\ e \in stranded')
    <3>1. CASE e = date[p]
      <4>1. e \in stranded' BY <1>0, <2>1, <2>5, <3>1
      <4>2. edits > 0 BY <1>0, <2>3, <2>5, <3>1
      <4> QED BY <4>1, <4>2
    <3>2. CASE e # date[p]
      <4>1. \A x \in Punches : (ev[x] = "active" /\ date[x] = e)
                                 <=> (event[x] = "active" /\ date[x] = e)
        BY <2>4, <3>2
      <4> QED BY <4>1 DEF Dated, DatedIn
    <3> QED BY <3>1, <3>2
  <2>6. stranded \subseteq stranded' \cup {d}
    <3>1. NoDate \notin stranded BY <1>0 DEF TypeOK
    <3> QED BY <2>1, <3>1
  <2> QED BY <1>b, <2>1, <2>5, <2>6
<1>10. CASE EndRebuild(r)
  <2>1. /\ Others(r) /\ UNCHANGED <<event, date, holds, stranded, edits, dropped>>
        /\ req[r].days = {}
    BY <1>0, <1>10, EndRebuildMoves DEF tables, world
  <2> QED BY <2>1, StepQuiet DEF Owes
<1> QED BY <1>1, <1>2, <1>3, <1>4, <1>5, <1>6, <1>7, <1>8, <1>9, <1>10 DEF Process

LEMMA AdminExplained ==
  ASSUME LedgerInv, OrderlyInv, StaleIsExplained, NEW r \in Workers,
         Admin(r) \/ NightlyJob(r) \/ Die(r)
  PROVE  StaleIsExplained'
<1>0. TypeOK BY DEF LedgerInv
<1>1. Others(r) /\ UNCHANGED <<event, date, holds, stranded, edits>>
  BY <1>0, AdminMoves DEF tables
<1>2. CASE GiveUp(r) BY <1>0, <1>1, <1>2, GiveUpExplained
<1>3. CASE ~GiveUp(r)
  <2>1. req[r].at = "idle" /\ dropped' = dropped BY <1>0, <1>3, AdminMoves
  <2>2. \A d \in Dates : ~Owes(r, d) BY <2>1 DEF OrderlyInv, Orderly, Owes, Processing
  <2> QED BY <1>1, <2>1, <2>2, StepQuiet
<1> QED BY <1>2, <1>3

LEMMA NextExplained ==
  LedgerInv /\ OrderlyInv /\ SettledInv /\ StaleIsExplained /\ [Next]_vars => StaleIsExplained'
<1> SUFFICES ASSUME LedgerInv, OrderlyInv, SettledInv, StaleIsExplained, [Next]_vars
             PROVE  StaleIsExplained'
  OBVIOUS
<1>1. ASSUME NEW r \in Workers, Ingest(r) \/ Process(r) \/ Admin(r) \/ NightlyJob(r) \/ Die(r)
      PROVE  StaleIsExplained'
  BY <1>1, IngestExplained, ProcessExplained, AdminExplained
<1>2. CASE Register \/ EditRoster \/ NextDay \/ UNCHANGED vars
  <2>1. UNCHANGED <<req, event, date, holds, dropped, stranded>> /\ edits' \in {edits, edits + 1}
    BY <1>2 DEF Register, EditRoster, NextDay, vars, tables, world, history
  <2>2. edits \in Nat BY BoundAssumption DEF LedgerInv, TypeOK
  <2> QED BY <2>1, <2>2 DEF StaleIsExplained, Dated, DatedIn, Owed
<1> QED BY <1>1, <1>2 DEF Next

\* Sessions and figures of every date are those of the events dated that day, for
\* any number of overlapping batches, corrections and recomputations, unless a
\* request in flight still owes the rebuild, one that died or left out a future date
\* dropped it, or (after an edited assignment) two requests moved the same event or
\* one voided what another moved (set_event_dates, rebuild_days, process_day).
THEOREM StaleAlwaysExplained == Spec => []StaleIsExplained
<1>1. Init => StaleIsExplained
  <2> SUFFICES ASSUME Init PROVE StaleIsExplained OBVIOUS
  <2>1. \A d \in Dates : holds[d] = Dated(d) BY DEF Init, Dated, DatedIn
  <2> QED BY <2>1 DEF StaleIsExplained
<1> QED
  BY <1>1, LedgerInductive, InitOrderly, NextOrderly, InitSettled, NextSettled, NextExplained, PTL
  DEF Spec
=============================================================================
