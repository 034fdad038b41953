------------------------------- MODULE Leave -------------------------------
(***************************************************************************)
(* Leave of one employee in one leave period: LeaveBL (leave_biz.py),      *)
(* LeaveHelperBL (leave_helper.py), CompOffBL (comp_off_biz.py) and        *)
(* LeaveBulkBL (leave_bulk_load_biz.py) over the tables leave_requests,    *)
(* leaves (one row per day), leave_quota and compensatory_leave_request.   *)
(*                                                                         *)
(* A call validates first and writes afterwards, and nothing is locked in  *)
(* between.  Creating and editing a request are one transaction;           *)
(* update_leave_status is two statements, each committed on its own; a     *)
(* quota is read into Python, changed there and saved.  Workers are the    *)
(* web workers that run the calls of the employee, of approvers and of HR. *)
(* Amounts are counted in half days.                                       *)
(***************************************************************************)
EXTENDS Integers, Sequences, FiniteSets, FiniteSetsExt

CONSTANTS
  Workers,
  TypeList,        \* the company's leave types: a sequence
  General,         \* the type debits take from first
  LastDate,        \* dates are 1 .. LastDate
  OffDays,         \* weekly offs and holidays of the employee
  Sandwich,        \* the company's leave_sandwich_rule
  Amounts,         \* quotas HR may allot, in half days
  LeaveForms,      \* the leave the employee may ask for
  CompForms,       \* the compensatory offs the employee may ask for
  MaxCalls,        \* bound: calls
  MaxKills         \* bound: calls cut short by the death of their worker

Types      == {TypeList[i] : i \in DOMAIN TypeList}
Dates      == 1 .. LastDate
LeaveForm  == [type : Types, first : Dates, last : Dates, half : BOOLEAN]
CompForm   == [type : Types, worked : Dates, sched : Dates, flag : BOOLEAN]
NoForm     == [type |-> "none"]
Statuses   == {"Requested", "Approved", "Cancelled", "Rejected"}
Open       == {"Requested", "Approved"}

ASSUME LeaveConstants ==
  /\ TypeList \in Seq(Types)
  /\ LastDate \in Nat \ {0} /\ OffDays \subseteq Dates /\ Sandwich \in BOOLEAN
  /\ General \in Types /\ Amounts \subseteq Nat
  /\ LeaveForms \subseteq LeaveForm /\ CompForms \subseteq CompForm
  /\ MaxCalls \in Nat /\ MaxKills \in Nat

VARIABLES
  today,
  requests,   \* leave_requests, by id: a form, its status and its comp_off_id (0: none)
  leaves,     \* rows of leaves
  quota,      \* rows of leave_quota: of each type, the amounts allotted
  comps,      \* compensatory_leave_request, by id: a form and its status
  work,       \* the call each worker is in, with what it has read
  calls, kills,
  fresh,      \* history: workers whose validation no later write can have outdated
  torn,       \* history: requests that two calls changed at once, or a killed call left
  explained   \* history: types whose balance something other than a booking lowered

tables  == <<requests, leaves, quota, comps>>
history == <<fresh, torn, explained>>
vars    == <<today, tables, work, calls, kills, history>>

Idle == [at |-> "idle", id |-> 0, form |-> NoForm, to |-> "none", read |-> 0]

----------------------------------------------------------------------------
(* What the calls read. *)

\* get_leave_days: with the sandwich rule, days off inside the range count as leave.
LeaveDays(first, last) == {d \in first .. last : Sandwich \/ d \notin OffDays}

Rows(r)     == {l \in leaves : l.req = r}
LiveRows    == {l \in leaves : l.status \in Open}
Weight(l)   == IF l.half THEN 1 ELSE 2

\* get_leave_taken and the balance made of it, leaving out request r (0: none).
Taken(t, r)   == MapThenSumSet(Weight, {l \in LiveRows : l.type = t /\ l.req # r})
Quota(t)      == IF Len(quota[t]) = 1 THEN quota[t][1] ELSE 0
Balance(t, r) == IF Len(quota[t]) = 1 THEN Quota(t) - Taken(t, r) ELSE 0

\* requested_days: half a day for a half-day leave, however many dates it covers.
RequestedDays(f) == IF f.half THEN 1 ELSE 2 * Cardinality(LeaveDays(f.first, f.last))

\* Mutant of Valid: the balance is not looked at.
ValidUncharged(f, r) ==
  /\ f.first <= f.last
  /\ {f.first, f.last} \cap OffDays = {}
  /\ ~ \E l \in LiveRows : l.date \in f.first .. f.last /\ l.req # r

\* validate_leave_dates; r is the request being edited (0: a new one).
Valid(f, r) ==
  /\ f.first <= f.last
  /\ {f.first, f.last} \cap OffDays = {}
  /\ RequestedDays(f) <= Balance(f.type, r)
  /\ ~ \E l \in LiveRows : l.date \in f.first .. f.last /\ l.req # r

\* __check_leave_avalability: every live row counts as a day, whatever its type or length.
Available(t) ==
  LET Left(i) == quota[t][i] - 2 * Cardinality(LiveRows)
  IN  MapThenSumSet(Left, DOMAIN quota[t]) > 0

DebitTypes == IF Available(General) THEN {General} ELSE {t \in Types : Available(t)}

\* get_comp_off_dates_overlap; c is the compensatory off being edited (0: a new one).
CompOverlaps(f, c) ==
  \E i \in DOMAIN comps \ {c} : comps[i].status \in Open /\ comps[i].worked = f.worked

\* get_leave_request_by_comp_off_id uses .get(), which fails on two requests as on none.
LinkedTo(c) == {r \in DOMAIN requests : requests[r].comp = c}

----------------------------------------------------------------------------
(* The rows a call writes. *)

NewRequest(f, status, c) ==
  [type |-> f.type, first |-> f.first, last |-> f.last, half |-> f.half, status |-> status, comp |-> c]

RowsOf(r, f, days, status) ==
  {[req |-> r, date |-> d, type |-> f.type, half |-> f.half, status |-> status] : d \in days}

\* Validation of another call may be outdated by a write to leaves or quotas.
Outdate == fresh' = {}

\* Another call is in the middle of changing request r.
Shared(w, r) == \E v \in Workers \ {w} : work[v].at \in {"edit", "days", "status"} /\ work[v].id = r

Tear(w, r) == torn' = torn \cup {x \in {r} : Shared(w, r)}

Explain(t, because) == explained' = explained \cup {x \in {t} : because}

Turn(w, now) == /\ work' = [work EXCEPT ![w] = now]
                /\ UNCHANGED <<today, calls, kills>>

Start(w, call) == /\ work[w] = Idle /\ calls < MaxCalls
                  /\ calls' = calls + 1
                  /\ work' = [work EXCEPT ![w] = call]
                  /\ fresh' = fresh \cup {w}
                  /\ UNCHANGED <<today, tables, kills, torn, explained>>

----------------------------------------------------------------------------
(* LeaveBL.create_leave_request and update_leave_request: the second does  *)
(* not look at the status of the request it edits.                         *)

AskLeave(w) == \E f \in LeaveForms :
  /\ Valid(f, 0)
  /\ Start(w, [Idle EXCEPT !.at = "create", !.form = f])

CreateLeave(w) ==
  LET f == work[w].form
      r == Len(requests) + 1
  IN  /\ work[w].at = "create"
      /\ requests' = Append(requests, NewRequest(f, "Requested", 0))
      /\ leaves' = leaves \cup RowsOf(r, f, LeaveDays(f.first, f.last), "Requested")
      /\ Explain(f.type, w \notin fresh \/ (f.half /\ f.first # f.last))
      /\ Outdate /\ Turn(w, Idle)
      /\ UNCHANGED <<quota, comps, torn>>

AskEdit(w) == \E r \in DOMAIN requests, f \in LeaveForms :
  /\ Valid(f, r)
  /\ Start(w, [Idle EXCEPT !.at = "edit", !.id = r, !.form = f])

\* Mutant of EditLeave: the old rows stay.
EditLeaveAdding(w) ==
  LET f == work[w].form
      r == work[w].id
  IN  /\ work[w].at = "edit"
      /\ requests' = [requests EXCEPT ![r] = NewRequest(f, "Requested", @.comp)]
      /\ leaves' = leaves \cup RowsOf(r, f, LeaveDays(f.first, f.last), "Requested")
      /\ Explain(f.type, w \notin fresh \/ (f.half /\ f.first # f.last))
      /\ Tear(w, r)
      /\ Outdate /\ Turn(w, Idle)
      /\ UNCHANGED <<quota, comps>>

EditLeave(w) ==
  LET f == work[w].form
      r == work[w].id
  IN  /\ work[w].at = "edit"
      /\ requests' = [requests EXCEPT ![r] = NewRequest(f, "Requested", @.comp)]
      /\ leaves' = (leaves \ Rows(r)) \cup RowsOf(r, f, LeaveDays(f.first, f.last), "Requested")
      /\ Explain(f.type, w \notin fresh \/ (f.half /\ f.first # f.last))
      /\ Tear(w, r)
      /\ Outdate /\ Turn(w, Idle)
      /\ UNCHANGED <<quota, comps>>

----------------------------------------------------------------------------
(* LeaveBL.update_leave_status and, under it, LeaveDA.update_leave_status. *)

LengthDays(q) == IF q.half THEN 1 ELSE 2 * Cardinality(LeaveDays(q.first, q.last))

AskStatus(w) == \E r \in DOMAIN requests, s \in {"Approved", "Cancelled", "Rejected"} :
  LET q == requests[r]
  IN  /\ q.status \notin {"Cancelled", s}
      /\ s = "Cancelled" => q.status = "Requested" \/ (q.status = "Approved" /\ q.first > today)
      /\ s = "Approved" => Balance(q.type, r) >= LengthDays(q)
      /\ Start(w, [Idle EXCEPT !.at = "days", !.id = r, !.to = s])

\* Mutant of WriteDays: the rows of a rejected request are kept.
WriteDaysKeeping(w) ==
  LET r == work[w].id
      s == work[w].to
  IN  /\ work[w].at = "days"
      /\ leaves' = (leaves \ Rows(r)) \cup
                   {[l EXCEPT !.status = s] : l \in {x \in Rows(r) : s # "Cancelled"}}
      /\ Tear(w, r)
      /\ Outdate /\ Turn(w, [work[w] EXCEPT !.at = "status"])
      /\ UNCHANGED <<requests, quota, comps, explained>>

WriteDays(w) ==
  LET r == work[w].id
      s == work[w].to
  IN  /\ work[w].at = "days"
      /\ leaves' = (leaves \ Rows(r)) \cup
                   {[l EXCEPT !.status = s] : l \in {x \in Rows(r) : s = "Approved"}}
      /\ Tear(w, r)
      /\ Outdate /\ Turn(w, [work[w] EXCEPT !.at = "status"])
      /\ UNCHANGED <<requests, quota, comps, explained>>

WriteStatus(w) ==
  /\ work[w].at = "status"
  /\ requests' = [requests EXCEPT ![work[w].id].status = work[w].to]
  /\ Tear(w, work[w].id)
  /\ Turn(w, Idle)
  /\ UNCHANGED <<leaves, quota, comps, fresh, explained>>

----------------------------------------------------------------------------
(* LeaveBL.deabit_leaves: one of the dates HR selected. *)

AskDebit(w) == \E d \in Dates, t \in DebitTypes :
  Start(w, [Idle EXCEPT !.at = "debit",
                        !.form = [type |-> t, first |-> d, last |-> d, half |-> FALSE]])

DebitLeave(w) ==
  LET f == work[w].form
  IN  /\ work[w].at = "debit"
      /\ requests' = Append(requests, NewRequest(f, "Approved", 0))
      /\ leaves' = leaves \cup RowsOf(Len(requests) + 1, f, {f.first}, "Approved")
      /\ Explain(f.type, w \notin fresh \/ Balance(f.type, 0) = 1)
      /\ Outdate /\ Turn(w, Idle)
      /\ UNCHANGED <<quota, comps, torn>>

----------------------------------------------------------------------------
(* CompOffBL.create_compensatory_leave, and EDIT, APPROVE / REJECT and     *)
(* CANCEL of update_compensatory_leaves.                                   *)

AskComp(w) == \E f \in CompForms :
  /\ ~ CompOverlaps(f, 0)
  /\ Start(w, [Idle EXCEPT !.at = "newcomp", !.form = f])

\* A row another transaction has updated and not yet committed.
Locked(c) == \E v \in Workers : work[v].at = "credit" /\ work[v].id = c

CompRow(f, status) ==
  [type |-> f.type, worked |-> f.worked, sched |-> f.sched, flag |-> f.flag, status |-> status]

CreateComp(w) ==
  /\ work[w].at = "newcomp"
  /\ comps' = Append(comps, CompRow(work[w].form, "Requested"))
  /\ Turn(w, Idle)
  /\ UNCHANGED <<requests, leaves, quota, history>>

AskEditComp(w) == \E c \in DOMAIN comps, f \in CompForms :
  /\ ~ CompOverlaps(f, c)
  /\ Start(w, [Idle EXCEPT !.at = "editcomp", !.id = c, !.form = f])

EditComp(w) ==
  /\ work[w].at = "editcomp" /\ ~ Locked(work[w].id)
  /\ comps' = [comps EXCEPT ![work[w].id] = CompRow(work[w].form, @.status)]
  /\ Turn(w, Idle)
  /\ UNCHANGED <<requests, leaves, quota, history>>

AskAnswer(w) == \E c \in DOMAIN comps, s \in {"Approved", "Rejected"} :
  /\ comps[c].status \notin {"Cancelled", s}
  /\ s = "Approved" => Len(quota[comps[c].type]) = 1
  /\ Start(w, [Idle EXCEPT !.at = "answer", !.id = c, !.form = comps[c], !.to = s])

RejectComp(w) ==
  /\ work[w].at = "answer" /\ work[w].to = "Rejected" /\ ~ Locked(work[w].id)
  /\ comps' = [comps EXCEPT ![work[w].id].status = "Rejected"]
  /\ Turn(w, Idle)
  /\ UNCHANGED <<requests, leaves, quota, history>>

\* The transaction of an approval: it locks the row, and reads the quota without a lock;
\* on a quota that is not there, or there twice, it is rolled back.
ReadCredit(w) ==
  LET t == work[w].form.type
  IN  /\ work[w].at = "answer" /\ work[w].to = "Approved" /\ ~ Locked(work[w].id)
      /\ Turn(w, IF Len(quota[t]) = 1 THEN [work[w] EXCEPT !.at = "credit", !.read = quota[t][1]]
                 ELSE Idle)
      /\ UNCHANGED <<tables, history>>

\* The leave a compensatory off is taken as.
Scheduled(f) == [type |-> f.type, first |-> f.sched, last |-> f.sched, half |-> FALSE]

ApproveComp(w) ==
  LET f == work[w].form
      c == work[w].id
      l == Scheduled(f)
  IN  /\ work[w].at = "credit"
      /\ comps' = [comps EXCEPT ![c].status = "Approved"]
      /\ quota' = [quota EXCEPT ![f.type][1] = work[w].read + 2]
      /\ requests' = requests \o (IF f.flag THEN <<NewRequest(l, "Approved", c)>> ELSE <<>>)
      /\ leaves' = leaves \cup
                   (IF f.flag THEN RowsOf(Len(requests) + 1, l, {f.sched}, "Approved") ELSE {})
      /\ Explain(f.type, quota[f.type][1] # work[w].read)
      /\ Outdate /\ Turn(w, Idle)
      /\ UNCHANGED torn

\* The credit of an approved compensatory off is taken back, whatever became of it.
AskCancelComp(w) == \E c \in DOMAIN comps :
  Start(w, [Idle EXCEPT !.at = IF comps[c].status = "Approved" THEN "uncredit" ELSE "closecomp",
                        !.id = c, !.form = comps[c]])

ReadDebit(w) ==
  LET t == work[w].form.type
  IN  /\ work[w].at = "uncredit"
      /\ Turn(w, IF Len(quota[t]) = 1 THEN [work[w] EXCEPT !.at = "savequota", !.read = quota[t][1]]
                 ELSE Idle)
      /\ UNCHANGED <<tables, history>>

SaveDebit(w) ==
  LET t == work[w].form.type
  IN  /\ work[w].at = "savequota"
      /\ quota' = [quota EXCEPT ![t][1] = work[w].read - 2]
      /\ Explain(t, TRUE)
      /\ Outdate /\ Turn(w, [work[w] EXCEPT !.at = "closecomp"])
      /\ UNCHANGED <<requests, leaves, comps, torn>>

CloseComp(w) ==
  LET c == work[w].id
  IN  /\ work[w].at = "closecomp" /\ ~ Locked(c)
      /\ comps' = [comps EXCEPT ![c].status = "Cancelled"]
      /\ Turn(w, IF Cardinality(LinkedTo(c)) = 1
                 THEN [Idle EXCEPT !.at = "days", !.id = CHOOSE r \in LinkedTo(c) : TRUE,
                                   !.to = "Cancelled"]
                 ELSE Idle)
      /\ UNCHANGED <<requests, leaves, quota, history>>

----------------------------------------------------------------------------
(* LeaveBulkBL: the yearly credit, one quota row per leave type, and the   *)
(* quotas HR edits.                                                        *)

AskCredit(w) ==
  /\ \A t \in Types : quota[t] = <<>>
  /\ Start(w, [Idle EXCEPT !.at = "allot", !.read = 1])

CreditType(w) == \E n \in Amounts :
  LET i == work[w].read
  IN  /\ work[w].at = "allot"
      /\ quota' = [quota EXCEPT ![TypeList[i]] = Append(@, n)]
      /\ Outdate
      /\ Turn(w, IF i = Len(TypeList) THEN Idle ELSE [work[w] EXCEPT !.read = i + 1])
      /\ UNCHANGED <<requests, leaves, comps, torn, explained>>

UpdateQuota == \E t \in Types, n \in Amounts : \E i \in DOMAIN quota[t] :
  /\ calls < MaxCalls /\ calls' = calls + 1
  /\ n # quota[t][i]
  /\ quota' = [quota EXCEPT ![t][i] = n]
  /\ Explain(t, n < quota[t][i])
  /\ Outdate
  /\ UNCHANGED <<today, requests, leaves, comps, work, kills, torn>>

----------------------------------------------------------------------------
(* A worker dies in the middle of a call; a transaction it has open is     *)
(* rolled back.  The days pass.                                            *)

Die(w) == /\ work[w] # Idle /\ kills < MaxKills
          /\ kills' = kills + 1
          /\ torn' = torn \cup {r \in {work[w].id} : work[w].at = "status"}
          /\ work' = [work EXCEPT ![w] = Idle]
          /\ UNCHANGED <<today, tables, calls, fresh, explained>>

NextDay == /\ today < LastDate
           /\ today' = today + 1
           /\ UNCHANGED <<tables, work, calls, kills, history>>

Init == /\ today = 1
        /\ requests = <<>> /\ leaves = {} /\ comps = <<>>
        /\ quota \in {[t \in Types |-> <<>>]} \cup [Types -> {<<n>> : n \in Amounts}]
        /\ work = [w \in Workers |-> Idle]
        /\ calls = 0 /\ kills = 0
        /\ fresh = {} /\ torn = {} /\ explained = {}

Employee(w) == \/ AskLeave(w) \/ CreateLeave(w) \/ AskEdit(w) \/ EditLeave(w)
               \/ AskComp(w) \/ CreateComp(w) \/ AskEditComp(w) \/ EditComp(w)
               \/ AskCancelComp(w) \/ ReadDebit(w) \/ SaveDebit(w) \/ CloseComp(w)
Approver(w) == \/ AskStatus(w) \/ WriteDays(w) \/ WriteStatus(w)
               \/ AskAnswer(w) \/ RejectComp(w) \/ ReadCredit(w) \/ ApproveComp(w)
HR(w)       == \/ AskDebit(w) \/ DebitLeave(w) \/ AskCredit(w) \/ CreditType(w)

Next == \/ \E w \in Workers : Employee(w) \/ Approver(w) \/ HR(w) \/ Die(w)
        \/ UpdateQuota
        \/ NextDay

Spec == Init /\ [][Next]_vars

----------------------------------------------------------------------------
(* Properties.                                                             *)

Request  == [type : Types, first : Dates, last : Dates, half : BOOLEAN, status : Statuses, comp : Nat]
LeaveRow == [req : Nat, date : Dates, type : Types, half : BOOLEAN, status : Statuses]
Comp     == [type : Types, worked : Dates, sched : Dates, flag : BOOLEAN, status : Statuses]
Steps    == {"idle", "create", "edit", "days", "status", "debit", "newcomp", "editcomp", "answer",
             "credit", "uncredit", "closecomp", "savequota", "allot"}
Forms    == {NoForm} \cup LeaveForm \cup CompForm \cup Comp
Call     == [at : Steps, id : Nat, form : Forms, to : {"none"} \cup Statuses, read : Int]

TablesOK ==
  /\ today \in Dates
  /\ requests \in Seq(Request)
  /\ leaves \subseteq LeaveRow /\ \A l \in leaves : l.req \in DOMAIN requests
  /\ quota \in [Types -> Seq(Int)]
  /\ comps \in Seq(Comp)

\* What a call has at each of its steps.
CallOK(c) ==
  /\ c.at \in {"edit", "days", "status"} => c.id \in DOMAIN requests
  /\ c.at \in {"editcomp", "answer", "credit", "uncredit", "savequota", "closecomp"} =>
       c.id \in DOMAIN comps
  /\ c.at \in {"create", "edit"} =>
       c.form \in LeaveForm /\ c.form.first <= c.form.last /\ {c.form.first, c.form.last} \cap OffDays = {}
  /\ c.at \in {"days", "status"} => c.to \in {"Approved", "Cancelled", "Rejected"}
  /\ c.at = "debit" => c.form \in LeaveForm /\ c.form.first = c.form.last
  /\ c.at \in {"newcomp", "editcomp"} => c.form \in CompForm
  /\ c.at \in {"answer", "credit", "uncredit", "savequota"} => c.form \in Comp
  /\ c.at = "allot" => c.read \in DOMAIN TypeList

\* Types of the tables; a leave row is of a request that exists, and a call is about rows that do.
TypeOK ==
  /\ TablesOK
  /\ work \in [Workers -> Call] /\ \A w \in Workers : CallOK(work[w])
  /\ calls \in 0 .. MaxCalls /\ kills \in 0 .. MaxKills
  /\ fresh \subseteq Workers /\ torn \subseteq DOMAIN requests /\ explained \subseteq Types

\* The days request q is for, and that R is all of its rows.
DaysOf(q) == IF q.first = q.last THEN {q.first} ELSE LeaveDays(q.first, q.last)

Whole(q, R) ==
  R # {} => /\ {l.date : l \in R} = DaysOf(q)
            /\ \A l \in R : l.type = q.type /\ l.half = q.half
            /\ \A l, m \in R : l.status = m.status

\* The days of a request are written and removed as a whole: whatever calls interleave or die,
\* the leave rows of a request are none, or exactly the days it is for, of its type and length.
DaysWhole == \A r \in DOMAIN requests : Whole(requests[r], Rows(r))

\* The rows R agree with a request of status s.
Settled(s, R) ==
  /\ \A l \in R : l.status = s
  /\ s \in {"Cancelled", "Rejected"} => R = {}
  /\ s = "Requested" => R # {}

\* A call has changed the days of request r and not yet its status.
Halfway(w, r) == work[w].at = "status" /\ work[w].id = r

\* Request and leave rows agree once a call is over: no day is booked for a cancelled or rejected
\* request, and every pending one has its days, unless two calls changed the request at the same
\* time or one of them died between its two statements.
SettledTogether ==
  \A r \in DOMAIN requests \ torn :
    (\A w \in Workers : ~ Halfway(w, r)) => Settled(requests[r].status, Rows(r))

\* A balance below zero has a reason: a validation outdated by another call, a half-day request
\* over several dates, a quota HR or a cancelled compensatory off lowered, an update of the quota
\* lost, or a whole day debited from the last half.
OverdrawnIsExplained ==
  \A t \in Types : Len(quota[t]) = 1 => Balance(t, 0) >= 0 \/ t \in explained

\* Approving a compensatory off credits the quota once.
CreditedOnce ==
  [][\A c \in DOMAIN comps : comps[c].status # "Approved" /\ comps'[c].status = "Approved"
       => LinkedTo(c) = {}]_vars
=============================================================================
