----------------------------- MODULE Offboarding -----------------------------
(***************************************************************************)
(* How employees leave: OffBoardBL (off_board_biz.py) over OffBoardDA, the *)
(* Celery task offboard_final_process and the nightly beat job             *)
(* terminate_employee_check (offboarding_final_process.py).                *)
(*                                                                         *)
(* A resignation is requested, decided on by HR, initiated, which makes an *)
(* exit form that the departments sign one after the other, and ended by   *)
(* the task HR's signature queues; a termination is ended by the task that *)
(* is queued every night once it is due.  Calls write row by row with no   *)
(* transaction; the task is one.  Its message is gone when it is taken.    *)
(* The exit interview, relieving documents, logs and mail are left out.    *)
(***************************************************************************)
EXTENDS Integers, Sequences, FiniteSets

CONSTANTS
  Staff,
  Before,        \* the requests there are at the beginning
  Departments,   \* of the exit form
  HR,            \* the department with offboard.terminate_employee
  Web,           \* workers serving calls
  Celery,        \* workers of the offboarding queue
  LastDate,      \* dates are 1 .. LastDate; the last stands for all later ones
  MaxRequests,   \* bound: requests
  MaxForms,      \* bound: exit forms
  MaxSheets,     \* bound: timesheets of an employee
  MaxCalls,      \* bound: calls
  MaxFaults      \* bound: workers that die

Dates == 1 .. LastDate
OPEN  == {"Pending", "Accepted", "Initiated", "Completed"}
Statuses == OPEN \cup {"Cancelled", "Rejected"}

RequestRow == [emp : Staff, status : Statuses, terminated : BOOLEAN, due : Dates]

ASSUME OffboardingConstants ==
  /\ Staff # {} /\ HR \in Departments
  /\ LastDate \in Nat \ {0}
  /\ MaxRequests \in Nat /\ MaxForms \in Nat /\ MaxSheets \in Nat
  /\ MaxCalls \in Nat /\ MaxFaults \in Nat

\* Nobody has left and nobody has asked to leave twice.
ASSUME BeforeAssumption ==
  /\ Before \in Seq(RequestRow)
  /\ \A r \in DOMAIN Before : Before[r].status # "Completed"
  /\ \A r, q \in DOMAIN Before : Before[r].emp = Before[q].emp => r = q

VARIABLES
  today,
  requests,   \* off_boarding_request, by id
  forms,      \* off_boarding_exit_form, by id: request, employee, departments that signed
  active,     \* is_active, with the lead and project mappings
  saved,      \* how many timesheets each employee ever saved: <<e, 1>> .. <<e, saved[e]>>
  sheets,     \* timesheet
  archive,    \* timesheet_archive: what each run of the task copied
  queue,      \* the offboarding queue: <<employee, id>>; a message that waits is not counted twice
  work,       \* the call each web worker is in
  task,       \* the message each Celery worker is at, and the timesheets it has read
  calls, faults,
  fresh,      \* history: workers whose check for a resignation no later commit can have outdated
  second,     \* history: requests written after such a commit, or opened again later
  revoked,    \* history: requests decided on when their message was already queued
  declared,   \* history: requests HR wrote down as completed
  cut         \* history: employees who saved a timesheet during the task, or had it twice at once

tables  == <<requests, forms, active, saved, sheets, archive>>
history == <<fresh, second, revoked, declared, cut>>
vars    == <<today, tables, queue, work, task, calls, faults, history>>

Idle == [at |-> "idle", id |-> 0, emp |-> CHOOSE e \in Staff : TRUE, by |-> HR, due |-> 1,
         now |-> FALSE, read |-> {}]
Free == [busy |-> FALSE, emp |-> CHOOSE e \in Staff : TRUE, id |-> 0, read |-> {}]

RequestsOf(e) == {r \in DOMAIN requests : requests[r].emp = e}
Taken == {<<task[c].emp, task[c].id>> : c \in {d \in Celery : task[d].busy}}

----------------------------------------------------------------------------
(* The steps of a call. *)

Turn(w, now) == work' = [work EXCEPT ![w] = now] /\ UNCHANGED <<today, task, calls>>

Ask(w, call) == /\ work[w] = Idle /\ calls < MaxCalls
                /\ calls' = calls + 1
                /\ work' = [work EXCEPT ![w] = call]
                /\ fresh' = fresh \cup {x \in {w} : call.at = "resign"}
                /\ UNCHANGED <<today, tables, queue, task, faults, second, revoked, declared, cut>>

\* Mutant of Request: without a relieving date.
RequestUndated(e, status, terminated, due) ==
  [emp |-> e, status |-> status, terminated |-> terminated, due |-> 0]

Request(e, status, terminated, due) ==
  [emp |-> e, status |-> status, terminated |-> terminated, due |-> due]

\* A request that is open and was not is one more, however that came about.
Reopens(r, status) == {x \in {r} : requests[r].status \notin OPEN /\ status \in OPEN}

----------------------------------------------------------------------------
(* create_offboarding_request and update_offboarding_request. *)

\* Mutant of Eligible: an initiated resignation no longer counts.
EligiblePending(e) == \A r \in RequestsOf(e) : requests[r].status \notin {"Pending", "Accepted"}

\* check_eligible.
Eligible(e) == \A r \in RequestsOf(e) : requests[r].status \notin OPEN

AskResign(w) == \E e \in Staff :
  /\ active[e] /\ Eligible(e)
  /\ Ask(w, [Idle EXCEPT !.at = "resign", !.emp = e])

Resign(w) ==
  /\ work[w].at = "resign" /\ Len(requests) < MaxRequests
  /\ requests' = Append(requests, Request(work[w].emp, "Pending", FALSE, LastDate))
  /\ second' = second \cup {r \in {Len(requests) + 1} : w \notin fresh}
  /\ fresh' = {}
  /\ Turn(w, Idle)
  /\ UNCHANGED <<forms, active, saved, sheets, archive, queue, faults, revoked, declared, cut>>

\* HR sets any status, whatever it was, and with it the relieving date unless it cancels.  (A
\* number that names no status counts nowhere: as Rejected.)
Decide(w) == \E r \in DOMAIN requests, s \in Statuses, due \in Dates :
  /\ work[w] = Idle /\ calls < MaxCalls /\ calls' = calls + 1
  /\ requests' = [requests EXCEPT ![r].status = s,
                                  ![r].due = IF s = "Cancelled" THEN @ ELSE due]
  /\ second' = second \cup Reopens(r, s)
  /\ revoked' = revoked \cup {x \in {r} : <<requests[r].emp, r>> \in queue \cup Taken}
  /\ declared' = IF s = "Completed" THEN declared \cup {r} ELSE declared \ {r}
  /\ fresh' = {}
  /\ UNCHANGED <<today, forms, active, saved, sheets, archive, queue, work, task, faults, cut>>

----------------------------------------------------------------------------
(* terminate_employee: whatever requests the employee has, for what the page asked of
   check_termination_process is another call and binds nothing. *)

AskTerminate(w) == \E e \in Staff, due \in Dates, now \in BOOLEAN :
  Ask(w, [Idle EXCEPT !.at = "terminate", !.emp = e, !.due = due, !.now = now])

Terminate(w) ==
  /\ work[w].at = "terminate" /\ Len(requests) < MaxRequests
  /\ requests' = Append(requests, Request(work[w].emp, "Initiated", TRUE, work[w].due))
  /\ fresh' = {}
  /\ Turn(w, IF work[w].now THEN [work[w] EXCEPT !.at = "disable"] ELSE Idle)
  /\ UNCHANGED <<forms, active, saved, sheets, archive, queue, faults, second, revoked, declared, cut>>

Disable(w) ==
  /\ work[w].at = "disable"
  /\ active' = [active EXCEPT ![work[w].emp] = FALSE]
  /\ Turn(w, Idle)
  /\ UNCHANGED <<requests, forms, saved, sheets, archive, queue, faults, history>>

----------------------------------------------------------------------------
(* initiate_offboarding and update_exit_form. *)

\* Of any request, again and again; the form and the status are two commits.
Initiate(w) == \E r \in DOMAIN requests :
  /\ work[w] = Idle /\ calls < MaxCalls /\ Len(forms) < MaxForms
  /\ calls' = calls + 1
  /\ forms' = Append(forms, [request |-> r, emp |-> requests[r].emp, signed |-> {}])
  /\ work' = [work EXCEPT ![w] = [Idle EXCEPT !.at = "initiated", !.id = r]]
  /\ UNCHANGED <<today, requests, active, saved, sheets, archive, queue, task, faults, history>>

MarkInitiated(w) ==
  LET r == work[w].id
  IN  /\ work[w].at = "initiated"
      /\ requests' = [requests EXCEPT ![r].status = "Initiated"]
      /\ second' = second \cup Reopens(r, "Initiated")
      /\ fresh' = {}
      /\ Turn(w, Idle)
      /\ UNCHANGED <<forms, active, saved, sheets, archive, queue, faults, revoked, declared, cut>>

\* A department opens the form ...
AskSign(w) == \E f \in DOMAIN forms, d \in Departments :
  Ask(w, [Idle EXCEPT !.at = "sign", !.id = f, !.by = d, !.read = forms[f].signed])

\* Mutant of Posted: only the signature is sent.
PostedAlone(w) == {work[w].by}

Posted(w) == work[w].read \cup {work[w].by}

\* ... and sends the whole of it back.
Sign(w) ==
  LET f == work[w].id
  IN  /\ work[w].at = "sign"
      /\ forms' = [forms EXCEPT ![f].signed = Posted(w)]
      /\ Turn(w, IF work[w].by = HR THEN [work[w] EXCEPT !.at = "end"] ELSE Idle)
      /\ UNCHANGED <<requests, active, saved, sheets, archive, queue, faults, history>>

\* offboarding_end_process is given the id of the form for that of the request.
EndProcess(w) ==
  /\ work[w].at = "end"
  /\ queue' = queue \cup {<<forms[work[w].id].emp, work[w].id>>}
  /\ Turn(w, Idle)
  /\ UNCHANGED <<tables, faults, history>>

Die(w) ==
  /\ work[w] # Idle /\ faults < MaxFaults
  /\ faults' = faults + 1
  /\ Turn(w, Idle)
  /\ UNCHANGED <<tables, queue, history>>

----------------------------------------------------------------------------
(* terminate_employee_check and offboard_final_process. *)

\* Mutants of Due: a day early; only in the first night.
DueEarly(r, day) == requests[r].due <= day

DueOnce(r, day) == requests[r].due = day - 1 /\ today < day

Due(r, day) == requests[r].due <= day - 1

\* The job runs in the first hours of a day.
Night ==
  LET day == IF today < LastDate THEN today + 1 ELSE today
      due == {r \in DOMAIN requests : /\ requests[r].terminated /\ requests[r].status = "Initiated"
                                      /\ Due(r, day)}
  IN  /\ today' = day
      /\ queue' = queue \cup {<<requests[r].emp, r>> : r \in due}
      /\ UNCHANGED <<tables, work, task, calls, faults, history>>

SheetsOf(e) == {s \in sheets : s[1] = e}

Take(c) == \E m \in queue :
  /\ ~ task[c].busy
  /\ queue' = queue \ {m}
  /\ task' = [task EXCEPT ![c] = [busy |-> TRUE, emp |-> m[1], id |-> m[2], read |-> SheetsOf(m[1])]]
  /\ cut' = cut \cup {e \in {m[1]} : \E t \in Taken : t[1] = e}
  /\ UNCHANGED <<today, tables, work, calls, faults, fresh, second, revoked, declared>>

\* Mutants of Archived and Relieved: timesheets are deleted first; access stays.
ArchivedNone(c) == archive

RelievedLater(c) == active

Archived(c) == Append(archive, task[c].read)

Relieved(c) == [active EXCEPT ![task[c].emp] = FALSE]

\* create_timesheet_archive copies what was read and deletes what there is.
Finish(c) ==
  LET r == task[c].id
  IN  /\ task[c].busy
      /\ active' = Relieved(c)
      /\ archive' = Archived(c)
      /\ sheets' = sheets \ SheetsOf(task[c].emp)
      /\ requests' = IF r \in DOMAIN requests THEN [requests EXCEPT ![r].status = "Completed"]
                     ELSE requests
      /\ second' = second \cup (IF r \in DOMAIN requests THEN Reopens(r, "Completed") ELSE {})
      /\ fresh' = {}
      /\ task' = [task EXCEPT ![c] = Free]
      /\ UNCHANGED <<today, forms, saved, queue, work, calls, faults, revoked, declared, cut>>

\* Killed, or an exception the task only logs: the transaction is undone, the message is gone.
Lose(c) ==
  /\ task[c].busy /\ faults < MaxFaults
  /\ faults' = faults + 1
  /\ task' = [task EXCEPT ![c] = Free]
  /\ UNCHANGED <<today, tables, queue, work, calls, history>>

\* The employee saves a timesheet.
SaveSheet(e) ==
  /\ active[e] /\ saved[e] < MaxSheets
  /\ saved' = [saved EXCEPT ![e] = @ + 1]
  /\ sheets' = sheets \cup {<<e, saved'[e]>>}
  /\ cut' = cut \cup {x \in {e} : \E t \in Taken : t[1] = e}
  /\ UNCHANGED <<today, requests, forms, active, archive, queue, work, task, calls, faults,
                 fresh, second, revoked, declared>>

Init == /\ today = 1
        /\ requests = Before /\ forms = <<>>
        /\ active = [e \in Staff |-> TRUE]
        /\ saved = [e \in Staff |-> 0] /\ sheets = {} /\ archive = <<>>
        /\ queue = {}
        /\ work = [w \in Web |-> Idle]
        /\ task = [c \in Celery |-> Free]
        /\ calls = 0 /\ faults = 0
        /\ fresh = {} /\ second = {} /\ revoked = {} /\ declared = {} /\ cut = {}

Next == \/ \E w \in Web : \/ AskResign(w) \/ Resign(w) \/ Decide(w)
                          \/ AskTerminate(w) \/ Terminate(w) \/ Disable(w)
                          \/ Initiate(w) \/ MarkInitiated(w)
                          \/ AskSign(w) \/ Sign(w) \/ EndProcess(w)
                          \/ Die(w)
        \/ Night
        \/ \E c \in Celery : Take(c) \/ Finish(c) \/ Lose(c)
        \/ \E e \in Staff : SaveSheet(e)

Spec == Init /\ [][Next]_vars

\* Beat runs every night, and an offboarding worker is up: it takes each message and ends each task.
FairSpec == /\ Spec
            /\ WF_vars(Night)
            /\ \A e \in Staff, r \in 1 .. MaxRequests :
                 WF_vars(<<e, r>> \in queue /\ \E c \in Celery : Take(c) /\ <<e, r>> \notin queue')
            /\ \A c \in Celery : WF_vars(Finish(c))

----------------------------------------------------------------------------
(* Properties.                                                             *)

FormRow == [request : Nat, emp : Staff, signed : SUBSET Departments]
Steps == {"idle", "resign", "terminate", "disable", "initiated", "sign", "end"}

TablesOK ==
  /\ today \in Dates
  /\ requests \in Seq(RequestRow)
  /\ forms \in Seq(FormRow)
  /\ active \in [Staff -> BOOLEAN]
  /\ saved \in [Staff -> 0 .. MaxSheets]
  /\ sheets \subseteq {s \in Staff \X (1 .. MaxSheets) : s[2] <= saved[s[1]]}
  /\ archive \in Seq(SUBSET (Staff \X (1 .. MaxSheets)))

CallsOK ==
  /\ work \in [Web -> [at : Steps, id : Nat, emp : Staff, by : Departments, due : Dates,
                       now : BOOLEAN, read : SUBSET Departments]]
  /\ \A w \in Web : /\ work[w].at = "initiated" => work[w].id \in DOMAIN requests
                    /\ work[w].at \in {"sign", "end"} => work[w].id \in DOMAIN forms
  /\ calls \in 0 .. MaxCalls /\ faults \in 0 .. MaxFaults

QueueOK ==
  /\ queue \subseteq Staff \X Nat
  /\ task \in [Celery -> [busy : BOOLEAN, emp : Staff, id : Nat,
                          read : SUBSET (Staff \X (1 .. MaxSheets))]]

\* Types; calls are about rows that exist, and a timesheet is one that was saved.
TypeOK == TablesOK /\ CallsOK /\ QueueOK

\* Nobody has two resignations that are open or done, unless two calls crossed or a closed one was
\* opened again by a decision, by being initiated or by the task of another employee.
OneResignation ==
  \A e \in Staff :
    LET S == {r \in RequestsOf(e) : requests[r].status \in OPEN /\ ~ requests[r].terminated}
    IN  Cardinality(S \ second) <= 1

\* An employee loses access only by a termination that is over its date or says so at once, or by
\* an exit form HR has signed; not by a termination that has meanwhile been called off or
\* postponed, unless the task was already queued.
RelievedOnGrounds ==
  [][\A e \in Staff : active[e] /\ ~ active'[e] =>
       \/ \E w \in Web : work[w].at = "disable" /\ work[w].emp = e
       \/ \E c \in Celery :
            /\ task[c].busy /\ task[c].emp = e
            /\ LET r == task[c].id
               IN  \/ r \in DOMAIN forms /\ forms[r].emp = e
                   \/ requests[r].status \in {"Initiated", "Completed"} /\ requests[r].due < today
                   \/ r \in revoked]_vars

\* A request that is completed stands for somebody who has left: its employee or, as the task takes
\* the id of a form for that of a request, the employee of the exit form with its id; unless HR
\* wrote it down as completed.
CompletedIsRelieved ==
  \A r \in DOMAIN requests : requests[r].status = "Completed" =>
    \/ ~ active[requests[r].emp]
    \/ r \in DOMAIN forms /\ ~ active[forms[r].emp]
    \/ r \in declared

\* A signature on the exit form stays, unless the form was opened before it and sent after it.
SignatureStays ==
  [][\A f \in DOMAIN forms :
       \/ forms[f].signed \subseteq forms'[f].signed
       \/ \E w \in Web : work[w].at = "sign" /\ work[w].id = f /\ work[w].read # forms[f].signed]_vars

\* Each timesheet an employee saved is there or archived, and archived once, however often the task
\* is queued, lost and run, unless it was saved during the task or two workers had it at once.
SheetsKept ==
  \A e \in Staff \ cut : \A n \in 1 .. saved[e] :
    LET copies == {i \in DOMAIN archive : <<e, n>> \in archive[i]}
    IN  IF <<e, n>> \in sheets THEN copies = {} ELSE \E i \in DOMAIN archive : copies = {i}

\* A termination takes effect once its date is over, although messages are lost: it is queued again
\* every night, until HR decides otherwise.
TerminationTakesEffect ==
  \A r \in 1 .. MaxRequests :
    LET waits == /\ r \in DOMAIN requests /\ requests[r].terminated
                 /\ requests[r].status = "Initiated" /\ requests[r].due < LastDate
        settled == /\ r \in DOMAIN requests
                   /\ \/ ~ active[requests[r].emp] \/ requests[r].status # "Initiated"
                      \/ requests[r].due = LastDate
    IN  waits ~> settled
=============================================================================
