-------------------------- MODULE ShiftAssignments --------------------------
(***************************************************************************)
(* ShiftBL (shift_biz.py) over attv2_shift and attv2_shift_assignment, and *)
(* DayPlanBL.resolve_shift on top of them, as seen by one employee: which  *)
(* shift applies on which date, while administrators create, end and       *)
(* delete assignments and switch shifts on and off at the same time.       *)
(*                                                                         *)
(* create_assignment and end_assignment lock the rows of their target      *)
(* (select_for_update) and keep the locks until they commit; everything    *)
(* else is read without a lock, and every save writes the whole row it     *)
(* read.  A request is therefore two steps: what it reads, what it writes. *)
(***************************************************************************)
EXTENDS Integers, Sequences, FiniteSets

CONSTANTS
  Shifts, NoShift,
  Scopes,          \* the employee's targets, most specific first (ASSIGNMENT_PRIORITY)
  LastDate,        \* the dates followed are 0 .. LastDate
  Admins,          \* the administrators who create, end and delete assignments
  Histories,       \* the assignments that may exist at first: a set of sequences
  Wanted,          \* the assignments the administrators may ask for
  MaxRequests,     \* bound: requests about assignments
  LastDay          \* bound: the last day the clock reaches

Dates   == 0 .. LastDate
Forever == LastDate + 1      \* effective_to IS NULL
Targets == {Scopes[i] : i \in DOMAIN Scopes}

Assignment == [shift : Shifts, target : Targets, from : Dates, to : Dates \cup {Forever},
               live : BOOLEAN]

ASSUME DateAssumption    == LastDate \in Nat /\ LastDay \in Dates /\ MaxRequests \in Nat
ASSUME ScopeAssumption   == Scopes \in Seq(STRING)
ASSUME ShiftAssumption   == NoShift \notin Shifts
\* Histories to start from, without an overlap; a target may have none yet.
ASSUME InitialAssumption ==
  \A h \in Histories :
    /\ h \in Seq(Assignment)
    /\ \A i \in DOMAIN h : h[i].from <= h[i].to
    /\ \A i, j \in DOMAIN h :
         i # j /\ h[i].target = h[j].target => h[i].to < h[j].from \/ h[j].to < h[i].from
\* AssignmentSerializer; the date after a temporary one is a date followed too.
ASSUME WantedAssumption  ==
  Wanted \subseteq {a \in Assignment : a.live /\ a.from <= a.to /\ a.to # LastDate}

VARIABLES
  asg,       \* attv2_shift_assignment, by id
  active,    \* is_active of each shift
  today,
  req,       \* the request each administrator has sent
  sent,      \* how many were sent about assignments
  raced,     \* history: the targets written by a transaction that did not hold all their rows
  overtaken  \* history: whose end waits while another has ended or deleted rows of its target

vars == <<asg, active, today, req, sent, raced, overtaken>>

Ids     == DOMAIN asg
NoneYet == [op |-> "none"]

Live(tg) == {i \in Ids : asg[i].live /\ asg[i].target = tg}

\* shift_in_use: an assignment still applies to the shift today or later.
InUse(s) == \E i \in Ids : asg[i].live /\ asg[i].shift = s /\ asg[i].to >= today

Init == /\ asg \in Histories
        /\ active = [s \in Shifts |-> TRUE]
        /\ today = 0
        /\ req = [w \in Admins |-> NoneYet]
        /\ sent = 0
        /\ raced = {} /\ overtaken = {}

----------------------------------------------------------------------------
(* DayPlanBL.resolve_shift. *)

Matches(tg, d) == {i \in Live(tg) : asg[i].from <= d /\ d <= asg[i].to}

\* max(matches, key=(effective_from, id)).
Before(i, j) == \/ asg[i].from < asg[j].from
                \/ asg[i].from = asg[j].from /\ i < j
Latest(ids)  == CHOOSE i \in ids : \A j \in ids \ {i} : Before(j, i)

\* The assignment in force on date d: that of the most specific scope that has one.
InForce(d) ==
  LET given == {n \in DOMAIN Scopes : Matches(Scopes[n], d) # {}}
  IN  IF given = {} THEN 0
      ELSE Latest(Matches(Scopes[CHOOSE n \in given : \A m \in given : n <= m], d))

ResolveShift(d) == IF InForce(d) = 0 THEN NoShift ELSE asg[InForce(d)].shift

----------------------------------------------------------------------------
(* What a request reads before its transaction writes. *)

Send(w, r) == /\ req[w] = NoneYet
              /\ req' = [req EXCEPT ![w] = r]
              /\ UNCHANGED <<asg, active, today, raced, overtaken>>

\* A request about assignments.
Ask(w, r) == Send(w, r) /\ sent < MaxRequests /\ sent' = sent + 1

\* create_assignment: the shift is found active (and is not looked at again).
AskCreate(w) ==
  \E a \in Wanted :
    /\ active[a.shift]
    /\ Ask(w, [op |-> "create", row |-> a, target |-> a.target,
              locked |-> FALSE, rows |-> {}])

\* end_assignment: the row as it is read before the target's rows are locked.
AskEnd(w) ==
  \E i \in Ids, t \in Dates :
    /\ asg[i].live /\ t >= asg[i].from
    /\ Ask(w, [op |-> "end", id |-> i, row |-> asg[i], target |-> asg[i].target, to |-> t,
               locked |-> FALSE, rows |-> {}])

\* delete_assignment: only what has not started yet.
AskDelete(w) ==
  \E i \in Ids :
    /\ asg[i].live /\ asg[i].from > today
    /\ Ask(w, [op |-> "delete", id |-> i, row |-> asg[i], target |-> asg[i].target])

\* update_shift, deactivate_shift: switching a shift off needs it unused; an
\* update that does not mention is_active writes back the value it read.
AskShift(w) ==
  \E s \in Shifts, on \in BOOLEAN :
    /\ on \/ ~active[s] \/ ~InUse(s)
    /\ Send(w, [op |-> "shift", shift |-> s, on |-> on])
    /\ UNCHANGED sent

----------------------------------------------------------------------------
(* The transactions. *)

\* The rows another transaction has locked (it has not committed yet).
LockedFor(w) ==
  UNION {req[v].rows : v \in {u \in Admins \ {w} : req[u].op \in {"create", "end"}}}

\* A mutant of LockTarget: the rows are read without waiting for those who hold them.
ReadTarget(w) ==
  /\ req[w].op \in {"create", "end"} /\ ~req[w].locked
  /\ req' = [req EXCEPT ![w].locked = TRUE, ![w].rows = Live(req[w].target)]
  /\ UNCHANGED <<asg, active, today, sent, raced, overtaken>>

\* get_target_assignments(...).select_for_update().
LockTarget(w) ==
  /\ req[w].op \in {"create", "end"} /\ ~req[w].locked
  /\ Live(req[w].target) \cap LockedFor(w) = {}
  /\ req' = [req EXCEPT ![w].locked = TRUE, ![w].rows = Live(req[w].target)]
  /\ UNCHANGED <<asg, active, today, sent, raced, overtaken>>

Done(w) == req' = [req EXCEPT ![w] = NoneYet]

\* A transaction that ends or deletes rows of tg overtakes the ends others still wait to make there.
Overtakes(w, tg) ==
  overtaken' = {v \in Admins \ {w} : \/ v \in overtaken
                                     \/ req[v].op = "end" /\ req[v].target = tg}
Leaves(w) == overtaken' = overtaken \ {w}

StartsInside(a, i) == asg[i].from >= a.from /\ asg[i].from <= a.to
Covers(a, i)       == asg[i].from < a.from /\ asg[i].to >= a.from

\* The covering rows are closed the day before the new assignment a.
Close(a, rows, day) ==
  [i \in Ids |-> IF i \in rows /\ Covers(a, i) THEN [asg[i] EXCEPT !.to = day] ELSE asg[i]]

\* order_by('effective_from', 'id').
OldestFirst(ids) ==
  {s \in [1 .. Cardinality(ids) -> ids] : \A m, n \in DOMAIN s : m < n => Before(s[m], s[n])}

\* What a leaves of the covering rows, resumed the day after a.
Outlasts(a, rows) == {i \in rows : Covers(a, i) /\ asg[i].to > a.to}
Rest(a, order)    == [k \in DOMAIN order |-> [asg[order[k]] EXCEPT !.from = a.to + 1]]

\* A mutant of Split: the remainder is forgotten.
SplitOnly(a, rows, order) == Append(Close(a, rows, a.from - 1), a)

\* _split_around and the insert after it.
Split(a, rows, order) == Append(Close(a, rows, a.from - 1) \o Rest(a, order), a)

\* Where the target has no row yet, there is none to lock.
CommitCreate(w) ==
  LET r == req[w] IN
  /\ r.op = "create" /\ r.locked
  /\ \A i \in r.rows : ~StartsInside(r.row, i)
  /\ \E order \in OldestFirst(Outlasts(r.row, r.rows)) : asg' = Split(r.row, r.rows, order)
  /\ raced' = raced \cup {tg \in {r.target} : r.rows = {} /\ Live(tg) # {}}
  /\ Done(w)
  /\ UNCHANGED <<active, today, sent, overtaken>>

\* The 409 of create_assignment: the transaction rolls back.
RefuseCreate(w) ==
  LET r == req[w] IN
  /\ r.op = "create" /\ r.locked
  /\ \E i \in r.rows : StartsInside(r.row, i)
  /\ Done(w)
  /\ UNCHANGED <<asg, active, today, sent, raced, overtaken>>

\* Would overlap the target's next assignment.
Overlaps(r) == \E i \in r.rows \ {r.id} : asg[i].from > r.row.from /\ r.to >= asg[i].from

\* The whole row is saved as it was read: one deleted since is active again.
CommitEnd(w) ==
  LET r == req[w] IN
  /\ r.op = "end" /\ r.locked /\ ~Overlaps(r)
  /\ r.id \notin LockedFor(w)
  /\ asg' = [asg EXCEPT ![r.id] = [r.row EXCEPT !.to = r.to]]
  /\ raced' = raced \cup {tg \in {r.target} : ~asg[r.id].live}
  /\ Overtakes(w, r.target)
  /\ Done(w)
  /\ UNCHANGED <<active, today, sent>>

RefuseEnd(w) ==
  /\ req[w].op = "end" /\ req[w].locked /\ Overlaps(req[w])
  /\ Done(w) /\ Leaves(w)
  /\ UNCHANGED <<asg, active, today, sent, raced>>

CommitDelete(w) ==
  LET r == req[w] IN
  /\ r.op = "delete" /\ r.id \notin LockedFor(w)
  /\ asg' = [asg EXCEPT ![r.id] = [r.row EXCEPT !.live = FALSE]]
  /\ Overtakes(w, r.target)
  /\ Done(w)
  /\ UNCHANGED <<active, today, sent, raced>>

SaveShift(w) ==
  /\ req[w].op = "shift"
  /\ active' = [active EXCEPT ![req[w].shift] = req[w].on]
  /\ Done(w)
  /\ UNCHANGED <<asg, today, sent, raced, overtaken>>

NextDay == /\ today < LastDay /\ today' = today + 1
           /\ UNCHANGED <<asg, active, req, sent, raced, overtaken>>

Next == \/ \E w \in Admins : \/ AskCreate(w) \/ AskEnd(w) \/ AskDelete(w) \/ AskShift(w)
                             \/ LockTarget(w) \/ SaveShift(w)
                             \/ CommitCreate(w) \/ RefuseCreate(w)
                             \/ CommitEnd(w) \/ RefuseEnd(w) \/ CommitDelete(w)
        \/ NextDay

Spec == Init /\ [][Next]_vars
----------------------------------------------------------------------------
(* Properties. *)

\* Histories and requests keep their types.
Request ==
  {NoneYet}
    \cup [op : {"create"}, row : Wanted, target : Targets, locked : BOOLEAN, rows : SUBSET Nat]
    \cup [op : {"end"}, id : Nat, row : Assignment, target : Targets, to : Dates,
          locked : BOOLEAN, rows : SUBSET Nat]
    \cup [op : {"delete"}, id : Nat, row : Assignment, target : Targets]
    \cup [op : {"shift"}, shift : Shifts, on : BOOLEAN]

TypeOK ==
  /\ asg \in Seq(Assignment)
  /\ active \in [Shifts -> BOOLEAN]
  /\ today \in Dates
  /\ req \in [Admins -> Request]
  /\ sent \in 0 .. MaxRequests
  /\ raced \subseteq Targets /\ overtaken \subseteq Admins

\* "Keep a target's history non-overlapping" (get_target_assignments): on every
\* date at most one assignment of a target is in force.
Apart(i, j) == asg[i].to < asg[j].from \/ asg[j].to < asg[i].from

NoOverlap ==
  \A i, j \in Ids : i # j /\ asg[i].live /\ asg[j].live /\ asg[i].target = asg[j].target
                      => Apart(i, j)

\* The locks keep every history from overlapping but where a transaction held no row to
\* lock: the first assignments of a target made at once, and an end that brings back a
\* row which was deleted between its read and its save (update_assignment).
OverlapIsRaced ==
  \A i, j \in Ids : /\ i # j /\ asg[i].live /\ asg[j].live /\ asg[i].target = asg[j].target
                    /\ asg[i].target \notin raced
                    => Apart(i, j)

\* The dates the request of w was asked to decide: the dates of a new or a deleted
\* assignment, and those after the new or the old end of one that is ended.
Asked(w, d) ==
  LET r == req[w] IN
  \/ r.op = "create" /\ r.row.from <= d /\ d <= r.row.to
  \/ r.op = "delete" /\ r.row.from <= d
  \/ r.op = "end" /\ (d > r.to \/ d > r.row.to)

\* "General 01-24 Sep, Night 25-26 Sep, General from 27 Sep" (ATTENDANCE_V2_TECHNICAL.md
\* section 11): a temporary assignment changes the employee's shift on its own dates
\* only, whatever it splits, and a request that ends a row which was split since does not
\* undo the split; nothing moves a date nobody asked to move.  The exceptions: a target
\* with a raced history, and an end overtaken by another end or a deletion (last write wins).
ChangesAreAsked ==
  [][asg' # asg =>
       \A w \in Admins \ overtaken :
         req'[w] # req[w] /\ req[w].target \notin raced'
           => \A d \in Dates : ResolveShift(d)' # ResolveShift(d) => Asked(w, d)]_vars

=============================================================================
