------------------------------- MODULE Tickets -------------------------------
(***************************************************************************)
(* Tickets of one project: create_ticket and update_ticket of TicketBL     *)
(* (ticket_biz.py) with TicketValidatorBL (validators.py), the git steps   *)
(* of TicketHelperBL (ticket_helper.py) and GitLabEngine (git_lab.py).     *)
(*                                                                         *)
(* A call reads the ticket, its parent, its sub-tickets and the time the   *)
(* user logged, validates, and then writes header, details and log in one  *)
(* transaction, inside which it also calls GitLab; nothing it validated is *)
(* locked.  Logging time alone is two inserts with no transaction.  The    *)
(* form of a call carries the dates, estimate and message its status asks  *)
(* for; watchers, attachments and mail are left out.                       *)
(***************************************************************************)
EXTENDS Integers, Sequences, FiniteSets

CONSTANTS
  Workers,
  Existing,      \* the new tickets there are at first: their repositories
  Asks,          \* the forms users send: status, parent_id, parent_changed, repository, is_cicd_merged and hours
  Repos,         \* repositories a ticket may have its branch in
  NoRepo,        \* is_cicd_enabled = 0
  DayLimit,      \* MAX_HOURS of time_log_validtor, the same unit
  LastDate,      \* dates are 1 .. LastDate
  MaxTickets,    \* bound: tickets
  MaxCalls,      \* bound: calls
  MaxFaults      \* bound: calls that die or are rolled back

Dates  == 1 .. LastDate
Closed == {"Completed", "Invalid"}
Stages == <<"Resolved", "Released to QA", "Verified by QA", "ReadyPushPro">>
Begun  == {"Acknowledged", "In Progress", "Invalid", "Deferred"}
Late   == {Stages[i] : i \in DOMAIN Stages}
Statuses == {"New", "Reopen"} \cup Begun \cup Late \cup Closed

ASSUME TicketConstants ==
  /\ NoRepo \notin Repos
  /\ Asks \subseteq [status : Statuses, parent : Nat, moved : BOOLEAN, repo : Repos \cup {NoRepo},
                     merged : BOOLEAN, log : Nat]
  /\ Existing \in Seq(Repos \cup {NoRepo}) /\ Len(Existing) <= MaxTickets
  /\ DayLimit \in Nat /\ LastDate \in Nat \ {0}
  /\ MaxTickets \in Nat /\ MaxCalls \in Nat /\ MaxFaults \in Nat

VARIABLES
  today,
  tickets,    \* ticket_header, by id
  noted,      \* of each ticket, the status in its last ticket_details row
  logged,     \* ticket_time of the user: hours, by log date
  branches,   \* GitLab: <<ticket, repository>>; ticket 0: its creation was rolled back
  work,       \* the call each worker is in, with the header it has read
  calls, faults,
  fresh,      \* history: workers whose validation no later commit can have outdated
  raced,      \* history: tickets written after a validation another call outdated
  overlogged, \* history: dates on which time was logged after such a validation
  loose       \* history: tickets of which a GitLab call failed or a transaction was undone

database == <<tickets, noted, logged>>
history  == <<fresh, raced, overlogged, loose>>
vars     == <<today, database, branches, work, calls, faults, history>>

None == [status |-> "none", parent |-> 0, repo |-> NoRepo, merged |-> FALSE, created |-> 0]
Idle == [at |-> "idle", id |-> 0, form |-> None, log |-> 0, date |-> 0, read |-> None]
Ids  == DOMAIN tickets

----------------------------------------------------------------------------
(* TicketValidatorBL. *)

\* How far a status is on the way to production.
Rank(s) == IF s \in Late THEN CHOOSE i \in DOMAIN Stages : Stages[i] = s ELSE 0

\* check_ticket_status_validty, reopen_status_valid and forced_to_reopen.
MovesFrom(s) ==
  CASE s = "New"                  -> Begun \cup {"New"}
    [] s = "Reopen"               -> Begun \cup {"Reopen"}
    [] s \in Closed               -> {"Reopen"}
    [] s = "Released to QA"       -> Closed \cup Late \cup {"Reopen", "Deferred"}
    [] s = "Verified by QA"       -> Closed \cup {s, "ReadyPushPro", "Reopen", "Deferred"}
    [] s = "ReadyPushPro"         -> Closed \cup {s, "Reopen", "Deferred"}
    [] s = "Resolved"             -> Statuses
    [] OTHER                      -> Statuses \ {"Reopen"}

\* A sub-ticket is as far as its parent.
KeepsUp(child, parent) ==
  parent \in Late \cup Closed =>
    child \in Closed \/ (parent \notin Closed /\ Rank(child) >= Rank(parent))

Children(t) == {c \in Ids : tickets[c].parent = t}

\* check_sub_tickets_completion.
ChildrenAllow(t, s) == \A c \in Children(t) : KeepsUp(tickets[c].status, s)

\* validate_parent_ticket_status_by_child.
ParentAllows(p, s) == s = "New" \/ KeepsUp(s, tickets[p].status)

\* is_parent_valid: of the same project, open, and another ticket.
ParentValid(p, t) == p \in Ids \ {t} /\ tickets[p].status \notin Closed

\* What check_for_circular_parent_v1 visits from t: t and everything below it.
Below(t) ==
  {x \in Ids : \A S \in SUBSET Ids :
     (t \in S /\ \A c \in Ids : tickets[c].parent \in S => c \in S) => x \in S}

\* Mutant of MayLog: the hours to be logged are not counted.
MayLogMore(hours, date, d) ==
  hours > 0 => logged[date] <= DayLimit /\ date \in d .. today

\* time_log_validtor; the ticket was created on date d.
MayLog(hours, date, d) ==
  hours > 0 => logged[date] + hours <= DayLimit /\ date \in d .. today

----------------------------------------------------------------------------
(* The steps of a call. *)

Turn(w, now) == /\ work' = [work EXCEPT ![w] = now]
                /\ UNCHANGED <<today, calls>>

Start(w, call) == /\ work[w] = Idle /\ calls < MaxCalls
                  /\ calls' = calls + 1
                  /\ work' = [work EXCEPT ![w] = call]
                  /\ fresh' = fresh \cup {w}
                  /\ UNCHANGED <<today, database, branches, faults, raced, overlogged, loose>>

\* Writes outdate what the other calls have validated.
Wrote(w, t) == /\ fresh' = {}
               /\ raced' = raced \cup {x \in {t} : w \notin fresh}

WriteLog(w, hours, date) ==
  /\ logged' = IF hours > 0 THEN [logged EXCEPT ![date] = @ + hours] ELSE logged
  /\ overlogged' = overlogged \cup {d \in {date} : hours > 0 /\ w \notin fresh}

----------------------------------------------------------------------------
(* create_ticket. *)

AskCreate(w) == \E a \in Asks :
  /\ a.status = "New" /\ Len(tickets) < MaxTickets
  /\ a.parent # 0 => ParentValid(a.parent, 0)
  /\ MayLog(a.log, today, today)
  /\ Start(w, [Idle EXCEPT !.at = "create", !.log = a.log, !.date = today,
                 !.form = [status |-> "New", parent |-> a.parent, repo |-> a.repo,
                             merged |-> a.merged, created |-> today]])

\* Mutant of CreateTicket: no details row.
CreateTicketUnnoted(w) ==
  LET f == work[w].form
      t == Len(tickets) + 1
  IN  /\ work[w].at = "create" /\ t <= MaxTickets
      /\ tickets' = Append(tickets, f)
      /\ Wrote(w, t)
      /\ Turn(w, Idle)
      /\ UNCHANGED <<noted, logged, branches, overlogged, loose, faults>>

\* create_git_branch: GitLab may refuse, which only sends a mail.
CreateTicket(w) == \E ok \in BOOLEAN :
  LET f == work[w].form
      t == Len(tickets) + 1
  IN  /\ work[w].at = "create" /\ t <= MaxTickets
      /\ tickets' = Append(tickets, f)
      /\ noted' = Append(noted, f.status)
      /\ WriteLog(w, work[w].log, work[w].date)
      /\ branches' = branches \cup {b \in {<<t, f.repo>>} : ok /\ f.repo # NoRepo}
      /\ loose' = loose \cup {x \in {t} : ~ ok}
      /\ Wrote(w, t)
      /\ Turn(w, Idle)
      /\ UNCHANGED faults

\* The mail after the branch fails, or the commit: the tables are rolled back, the branch stays.
UndoCreate(w) ==
  /\ work[w].at = "create" /\ faults < MaxFaults
  /\ faults' = faults + 1
  /\ branches' = branches \cup {b \in {<<0, work[w].form.repo>>} : work[w].form.repo # NoRepo}
  /\ loose' = loose \cup {0}
  /\ Turn(w, Idle)
  /\ UNCHANGED <<database, fresh, raced, overlogged>>

----------------------------------------------------------------------------
(* update_ticket. *)

\* A parent that is not sent is kept, unless the form says it changed.
ParentOf(t, p, moved) == IF p = 0 /\ ~ moved THEN tickets[t].parent ELSE p

\* Mutants of MayUpdate: no look below for a circle; no look at the sub-tickets.
MayUpdateCircular(t, s, p, moved) ==
  LET parent == ParentOf(t, p, moved)
  IN  /\ s \in MovesFrom(tickets[t].status)
      /\ ChildrenAllow(t, s)
      /\ p # 0 => ParentValid(p, t)
      /\ parent # 0 => ParentAllows(parent, s)

MayUpdateAhead(t, s, p, moved) ==
  LET parent == ParentOf(t, p, moved)
  IN  /\ s \in MovesFrom(tickets[t].status)
      /\ p # 0 => ParentValid(p, t) /\ p \notin Below(t)
      /\ parent # 0 => ParentAllows(parent, s)

\* The checks, in the order of the handler.
MayUpdate(t, s, p, moved) ==
  LET parent == ParentOf(t, p, moved)
  IN  /\ s \in MovesFrom(tickets[t].status)
      /\ ChildrenAllow(t, s)
      /\ p # 0 => ParentValid(p, t) /\ p \notin Below(t)
      /\ parent # 0 => ParentAllows(parent, s)

\* The CI/CD checks set an error and go on: they refuse nothing.
AskUpdate(w) == \E t \in Ids, a \in Asks, d \in Dates :
  /\ MayUpdate(t, a.status, a.parent, a.moved)
  /\ MayLog(a.log, d, tickets[t].created) /\ (a.log = 0 => d = today)
  /\ Start(w, [Idle EXCEPT !.at = "update", !.id = t, !.log = a.log, !.date = d, !.read = tickets[t],
                 !.form = [status |-> a.status, parent |-> ParentOf(t, a.parent, a.moved),
                           repo |-> a.repo, merged |-> tickets[t].merged, created |-> tickets[t].created]])

\* What the update asks of GitLab, decided on the header that was read: nothing at all for a ticket
\* raised as already merged, although its repository is written like any other.
Deletes(w) == ~ work[w].read.merged /\ work[w].read.repo \notin {NoRepo, work[w].form.repo}
Makes(w)   == ~ work[w].read.merged /\ work[w].form.repo \notin {NoRepo, work[w].read.repo}
Merges(w)  == /\ ~ work[w].read.merged
              /\ NoRepo \notin {work[w].read.repo, work[w].form.repo}
              /\ work[w].form.status = "ReadyPushPro" /\ work[w].read.status = "Verified by QA"

\* Which of the calls asked for GitLab carries out.
Outcomes(w) == [delete : {Deletes(w), FALSE}, make : {Makes(w), FALSE}, merge : {Merges(w), FALSE}]

\* Mutant of Branches: the branch in the old repository is kept.
BranchesKept(w, done) ==
  LET old == {<<work[w].id, work[w].read.repo>>}
      new == {<<work[w].id, work[w].form.repo>>}
  IN  (branches \cup (IF done.make THEN new ELSE {})) \ (IF done.merge THEN new ELSE {})

\* delete_git_branch, create_git_branch and merge_git_branch; a merge removes the branch.
Branches(w, done) ==
  LET old == {<<work[w].id, work[w].read.repo>>}
      new == {<<work[w].id, work[w].form.repo>>}
  IN  ((branches \ (IF done.delete THEN old ELSE {})) \cup (IF done.make THEN new ELSE {}))
        \ (IF done.merge THEN new ELSE {})

\* update_ticket_data_ticket_headers: the parent is written only when it differs from the one read.
UpdateTicket(w) == \E done \in Outcomes(w) :
  LET f == work[w].form
      t == work[w].id
      p == IF f.parent = work[w].read.parent THEN tickets[t].parent ELSE f.parent
  IN  /\ work[w].at = "update"
      /\ tickets' = [tickets EXCEPT ![t] = [f EXCEPT !.parent = p]]
      /\ noted' = [noted EXCEPT ![t] = f.status]
      /\ WriteLog(w, work[w].log, work[w].date)
      /\ branches' = Branches(w, done)
      /\ loose' = loose \cup {x \in {t} : done.delete # Deletes(w) \/ done.make # Makes(w)}
      /\ Wrote(w, t)
      /\ Turn(w, Idle)
      /\ UNCHANGED faults

\* The transaction is undone after GitLab was called.
UndoUpdate(w) == \E done \in Outcomes(w) :
  /\ work[w].at = "update" /\ faults < MaxFaults
  /\ faults' = faults + 1
  /\ branches' = Branches(w, done)
  /\ loose' = loose \cup {work[w].id}
  /\ Turn(w, Idle)
  /\ UNCHANGED <<database, fresh, raced, overlogged>>

----------------------------------------------------------------------------
(* update_log_time: an update that only logs time copies the last details row. *)

AskLog(w) == \E t \in Ids, a \in Asks, d \in Dates :
  /\ a.log > 0 /\ MayLog(a.log, d, tickets[t].created)
  /\ Start(w, [Idle EXCEPT !.at = "note", !.id = t, !.log = a.log, !.date = d,
                 !.read = [None EXCEPT !.status = noted[t]]])

\* Mutant of NoteLog: the row starts from the default status.
NoteLogNew(w) ==
  /\ work[w].at = "note"
  /\ noted' = [noted EXCEPT ![work[w].id] = "New"]
  /\ raced' = raced \cup {x \in {work[w].id} : w \notin fresh}
  /\ Turn(w, [work[w] EXCEPT !.at = "log"])
  /\ UNCHANGED <<tickets, logged, branches, faults, fresh, overlogged, loose>>

NoteLog(w) ==
  /\ work[w].at = "note"
  /\ noted' = [noted EXCEPT ![work[w].id] = work[w].read.status]
  /\ raced' = raced \cup {x \in {work[w].id} : w \notin fresh}
  /\ Turn(w, [work[w] EXCEPT !.at = "log"])
  /\ UNCHANGED <<tickets, logged, branches, faults, fresh, overlogged, loose>>

SaveLog(w) ==
  /\ work[w].at = "log"
  /\ WriteLog(w, work[w].log, work[w].date)
  /\ fresh' = {}
  /\ Turn(w, Idle)
  /\ UNCHANGED <<tickets, noted, branches, faults, raced, loose>>

\* A worker dies; what it has not committed is not written.
Die(w) == /\ work[w] # Idle /\ faults < MaxFaults
          /\ faults' = faults + 1
          /\ Turn(w, Idle)
          /\ UNCHANGED <<database, branches, history>>

NextDay == /\ today < LastDate
           /\ today' = today + 1
           /\ UNCHANGED <<database, branches, work, calls, faults, history>>

Init == /\ today = 1
        /\ tickets = [t \in DOMAIN Existing |->
                       [status |-> "New", parent |-> 0, repo |-> Existing[t], merged |-> FALSE, created |-> 1]]
        /\ noted = [t \in DOMAIN Existing |-> "New"]
        /\ logged = [d \in Dates |-> 0]
        /\ branches = {b \in (DOMAIN Existing) \X Repos : b[2] = Existing[b[1]]}
        /\ work = [w \in Workers |-> Idle]
        /\ calls = 0 /\ faults = 0
        /\ fresh = {} /\ raced = {} /\ overlogged = {} /\ loose = {}

Next == \/ \E w \in Workers : \/ AskCreate(w) \/ CreateTicket(w) \/ UndoCreate(w)
                              \/ AskUpdate(w) \/ UpdateTicket(w) \/ UndoUpdate(w)
                              \/ AskLog(w) \/ NoteLog(w) \/ SaveLog(w)
                              \/ Die(w)
        \/ NextDay

Spec == Init /\ [][Next]_vars

----------------------------------------------------------------------------
(* Properties.                                                             *)

Ticket == [status : Statuses, parent : Nat, repo : Repos \cup {NoRepo}, merged : BOOLEAN, created : Dates]
Header == [status : {"none"} \cup Statuses, parent : Nat, repo : Repos \cup {NoRepo}, merged : BOOLEAN,
           created : {0} \cup Dates]
Steps  == {"idle", "create", "update", "note", "log"}
Call   == [at : Steps, id : Nat, form : Header, log : Nat, date : {0} \cup Dates, read : Header]

TablesOK ==
  /\ today \in Dates
  /\ tickets \in Seq(Ticket) /\ Len(tickets) <= MaxTickets
  /\ \A t \in Ids : tickets[t].parent \in ({0} \cup Ids) \ {t}
  /\ noted \in Seq(Statuses) /\ Len(noted) = Len(tickets)
  /\ logged \in [Dates -> Nat]
  /\ branches \subseteq ({0} \cup Ids) \X Repos

\* What a call has at each of its steps.
CallOK(c) ==
  /\ c.at # "idle" => c.date \in Dates
  /\ c.at \in {"update", "note", "log"} => c.id \in Ids
  /\ c.at \in {"create", "update"} => c.form \in Ticket /\ c.form.parent \in {0} \cup Ids
  /\ c.at = "update" => c.read \in Ticket /\ c.form.parent # c.id
  /\ c.at = "note" => c.read.status \in Statuses

\* Types; a parent is another ticket that exists, and a call is about tickets that do.
TypeOK ==
  /\ TablesOK
  /\ work \in [Workers -> Call] /\ \A w \in Workers : CallOK(work[w])
  /\ calls \in 0 .. MaxCalls /\ faults \in 0 .. MaxFaults
  /\ fresh \subseteq Workers

\* Sub-tickets form a forest: a circle of parents can only come from two updates that each
\* validated before the other was written.
NoCycle == \A t \in Ids : tickets[t].parent # 0 /\ tickets[t].parent \in Below(t)
                            => \E x \in Below(t) : x \in raced

\* No parent is ahead of its sub-tickets: under a ticket that is resolved, released, verified, to be
\* pushed or closed, every sub-ticket is closed or as far, unless it is still new, or one of the two
\* was written after its validation was outdated.
ChildrenKeepUp ==
  \A c \in Ids : tickets[c].parent # 0 =>
    LET p == tickets[c].parent
    IN  \/ KeepsUp(tickets[c].status, tickets[p].status)
        \/ tickets[c].status = "New" /\ tickets[p].status \notin Closed
        \/ {c, p} \cap raced # {}

\* The history of a ticket ends at its status, unless time was logged from an older row, or two
\* updates crossed.
HistoryEndsAtStatus == \A t \in Ids : noted[t] = tickets[t].status \/ t \in raced

\* Nobody logs more than the limit on one date, unless two calls validated at once.
LoggedWithinDay == \A d \in Dates : logged[d] <= DayLimit \/ d \in overlogged

\* A ticket that is not under CI/CD has no branch, one that is has none in another repository,
\* unless GitLab failed, a transaction was undone after GitLab was called, or updates crossed.  A
\* ticket raised as already merged may leave its branch behind, but never has a second one.
BranchTracked ==
  \A b \in branches :
    \/ b[1] \in loose \cup raced
    \/ tickets[b[1]].repo = b[2]
    \/ tickets[b[1]].merged /\ \A c \in branches : c[1] = b[1] => c = b

=============================================================================
