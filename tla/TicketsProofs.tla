---------------------------- MODULE TicketsProofs ----------------------------
(***************************************************************************)
(* Proofs about Tickets, for any number of users, tickets, repositories    *)
(* and calls: type correctness; and that the history of a ticket, the hours*)
(* of a date, the branches, and the order and the tree of parents and      *)
(* sub-tickets are right unless a call was written after what it validated *)
(* had changed.                                                            *)
(*                                                                         *)
(* All five rest on one fact about the calls that are fresh: what they     *)
(* validated is still so (StillValid).                                     *)
(***************************************************************************)
EXTENDS Tickets, TLAPS

----------------------------------------------------------------------------
(* Tables and calls. *)

\* A table that gets a row keeps its type and its rows.
LEMMA RowAdded ==
  ASSUME NEW Row, NEW table \in Seq(Row), NEW x \in Row
  PROVE  /\ Append(table, x) \in Seq(Row)
         /\ Len(Append(table, x)) = Len(table) + 1
         /\ DOMAIN Append(table, x) = DOMAIN table \cup {Len(table) + 1}
         /\ Len(table) + 1 \notin DOMAIN table /\ Len(table) + 1 \in Nat
         /\ \A i \in DOMAIN table : Append(table, x)[i] = table[i]
         /\ Append(table, x)[Len(table) + 1] = x
OBVIOUS

\* A table of which a row is changed keeps its type and its other rows.
LEMMA RowChanged ==
  ASSUME NEW Row, NEW table \in Seq(Row), NEW r \in DOMAIN table, NEW x \in Row
  PROVE  /\ [table EXCEPT ![r] = x] \in Seq(Row)
         /\ Len([table EXCEPT ![r] = x]) = Len(table)
         /\ DOMAIN [table EXCEPT ![r] = x] = DOMAIN table
         /\ \A i \in DOMAIN table : [table EXCEPT ![r] = x][i] = IF i = r THEN x ELSE table[i]
<1>1. table \in [1 .. Len(table) -> Row] /\ Len(table) \in Nat
  OBVIOUS
<1>2. [table EXCEPT ![r] = x] \in [1 .. Len(table) -> Row]
  BY <1>1
<1>. QED
  BY <1>1, <1>2

LEMMA IdleType == Idle \in Call /\ CallOK(Idle) /\ CallOK(Idle)' /\ Idle.at = "idle" /\ Idle.log = 0
<1>1. None \in Header
  BY DEF None, Header
<1>. QED
  BY <1>1 DEF Idle, Call, CallOK, Steps

\* What the invariant says of the tables.
LEMMA TableFacts ==
  ASSUME TypeOK
  PROVE  /\ tickets \in Seq(Ticket) /\ noted \in Seq(Statuses) /\ logged \in [Dates -> Nat]
         /\ Len(noted) = Len(tickets) /\ DOMAIN noted = Ids
         /\ \A t \in Ids : t \in Nat /\ t # 0 /\ tickets[t] \in Ticket /\ noted[t] \in Statuses
         /\ 0 \notin Ids
<1>1. tickets \in Seq(Ticket) /\ noted \in Seq(Statuses) /\ logged \in [Dates -> Nat] /\ Len(noted) = Len(tickets)
  BY DEF TypeOK, TablesOK
<1>. QED
  BY <1>1 DEF Ids

LEMMA TypeInit == Init => TypeOK
<1>. SUFFICES ASSUME Init PROVE TypeOK
  OBVIOUS
<1>1. Existing \in Seq(Repos \cup {NoRepo}) /\ Len(Existing) \in Nat /\ Len(Existing) <= MaxTickets
  BY TicketConstants
<1>2. 1 \in Dates
  BY TicketConstants DEF Dates
<1>3. \A t \in DOMAIN Existing :
        [status |-> "New", parent |-> 0, repo |-> Existing[t], merged |-> FALSE, created |-> 1] \in Ticket
  BY <1>1, <1>2 DEF Ticket, Statuses
<1>4. tickets \in Seq(Ticket) /\ Len(tickets) = Len(Existing) /\ DOMAIN tickets = DOMAIN Existing
  BY <1>1, <1>3 DEF Init
<1>5. noted \in Seq(Statuses) /\ Len(noted) = Len(Existing)
  BY <1>1 DEF Init, Statuses
<1>6. \A t \in Ids : tickets[t].parent = 0 /\ t # 0
  BY <1>1, <1>4 DEF Init, Ids
<1>7. branches \subseteq ({0} \cup Ids) \X Repos
  BY <1>4 DEF Init, Ids
<1>8. logged \in [Dates -> Nat]
  BY DEF Init
<1>9. TablesOK
  BY <1>1, <1>2, <1>4, <1>5, <1>6, <1>7, <1>8 DEF Init, TablesOK
<1>10. work \in [Workers -> Call] /\ \A w \in Workers : CallOK(work[w])
  BY IdleType DEF Init
<1>. QED
  BY <1>9, <1>10, TicketConstants DEF Init, TypeOK

----------------------------------------------------------------------------
(* What each writing step does to the tables. *)

LEMMA LogWritten ==
  ASSUME TypeOK, NEW w \in Workers, NEW hours \in Nat, NEW date \in Dates, WriteLog(w, hours, date)
  PROVE  /\ logged' \in [Dates -> Nat]
         /\ \A d \in Dates : logged'[d] = IF d = date THEN logged[d] + hours ELSE logged[d]
BY TableFacts DEF WriteLog

LEMMA CreateWrites ==
  ASSUME TypeOK, NEW w \in Workers, CreateTicket(w)
  PROVE  \E f \in Ticket, t \in Nat :
           /\ f = work[w].form /\ t = Len(tickets) + 1 /\ t <= MaxTickets
           /\ f.parent \in {0} \cup Ids
           /\ tickets' = Append(tickets, f) /\ tickets' \in Seq(Ticket) /\ Len(tickets') = t
           /\ Ids' = Ids \cup {t} /\ t \notin Ids /\ t # 0
           /\ \A x \in Ids : tickets'[x] = tickets[x] /\ noted'[x] = noted[x]
           /\ tickets'[t] = f /\ noted'[t] = f.status
           /\ noted' \in Seq(Statuses) /\ Len(noted') = t
<1>1. work[w].at = "create"
  BY DEF CreateTicket
<1>2. PICK f : f = work[w].form
  OBVIOUS
<1>3. f \in Ticket /\ f.parent \in {0} \cup Ids
  BY <1>1, <1>2 DEF TypeOK, CallOK
<1>4. f.status \in Statuses
  BY <1>3 DEF Ticket
<1>5. PICK t : t = Len(tickets) + 1
  OBVIOUS
<1>6. t <= MaxTickets /\ tickets' = Append(tickets, f) /\ noted' = Append(noted, f.status)
  BY <1>2, <1>5 DEF CreateTicket
<1>7. tickets \in Seq(Ticket) /\ noted \in Seq(Statuses) /\ Len(noted) = Len(tickets) /\ DOMAIN noted = DOMAIN tickets
  BY TableFacts DEF Ids
<1>8. /\ tickets' \in Seq(Ticket) /\ Len(tickets') = t /\ t \in Nat /\ t \notin DOMAIN tickets
      /\ DOMAIN tickets' = DOMAIN tickets \cup {t} /\ tickets'[t] = f
      /\ \A x \in DOMAIN tickets : tickets'[x] = tickets[x]
  BY <1>3, <1>5, <1>6, <1>7, RowAdded
<1>9. /\ noted' \in Seq(Statuses) /\ Len(noted') = t /\ noted'[t] = f.status
      /\ \A x \in DOMAIN tickets : noted'[x] = noted[x]
  BY <1>4, <1>5, <1>6, <1>7, RowAdded
<1>10. t # 0
  BY <1>5, <1>7
<1>. QED
  BY <1>2, <1>3, <1>5, <1>6, <1>8, <1>9, <1>10 DEF Ids

\* A form f is written over ticket t as x.
Written(w, f, x, t) ==
  /\ f = work[w].form /\ t = work[w].id
  /\ f \in Ticket /\ x \in Ticket /\ t \in Ids
  /\ x.status = f.status /\ x.repo = f.repo /\ x.merged = f.merged
  /\ x.parent = IF f.parent = work[w].read.parent THEN tickets[t].parent ELSE f.parent
  /\ x.parent \in ({0} \cup Ids) \ {t}
  /\ tickets' \in Seq(Ticket) /\ Len(tickets') = Len(tickets) /\ Ids' = Ids
  /\ \A y \in Ids \ {t} : tickets'[y] = tickets[y] /\ noted'[y] = noted[y]
  /\ tickets'[t] = x /\ noted'[t] = f.status
  /\ noted' \in Seq(Statuses) /\ Len(noted') = Len(tickets)

LEMMA UpdateWrites ==
  ASSUME TypeOK, NEW w \in Workers, UpdateTicket(w)
  PROVE  \E f, x, t : Written(w, f, x, t)
<1>1. work[w].at = "update"
  BY DEF UpdateTicket
<1>2. PICK f, t : f = work[w].form /\ t = work[w].id
  OBVIOUS
<1>3. f \in Ticket /\ f.parent \in ({0} \cup Ids) \ {t} /\ t \in Ids
  BY <1>1, <1>2 DEF TypeOK, CallOK
<1>4. PICK p : p = IF f.parent = work[w].read.parent THEN tickets[t].parent ELSE f.parent
  OBVIOUS
<1>5. p \in ({0} \cup Ids) \ {t}
  BY <1>3, <1>4 DEF TypeOK, TablesOK
<1>6. tickets' = [tickets EXCEPT ![t] = [f EXCEPT !.parent = p]] /\ noted' = [noted EXCEPT ![t] = f.status]
  BY <1>2, <1>4 DEF UpdateTicket
<1>. DEFINE x == [f EXCEPT !.parent = p]
<1>7. x \in Ticket /\ x.status = f.status /\ x.repo = f.repo /\ x.merged = f.merged /\ x.parent = p
  <2>1. p \in Nat
    BY <1>5, TableFacts
  <2>. QED
    BY <1>3, <2>1 DEF Ticket
<1>8. /\ tickets \in Seq(Ticket) /\ noted \in Seq(Statuses) /\ Len(noted) = Len(tickets)
      /\ DOMAIN noted = DOMAIN tickets /\ t \in DOMAIN tickets /\ f.status \in Statuses
  BY <1>3, TableFacts DEF Ids, Ticket
<1>. HIDE DEF x
<1>9. /\ tickets' \in Seq(Ticket) /\ Len(tickets') = Len(tickets) /\ DOMAIN tickets' = DOMAIN tickets
      /\ tickets'[t] = x /\ \A y \in DOMAIN tickets \ {t} : tickets'[y] = tickets[y]
  BY <1>6, <1>7, <1>8, RowChanged DEF x
<1>10. /\ noted' \in Seq(Statuses) /\ Len(noted') = Len(tickets)
       /\ noted'[t] = f.status /\ \A y \in DOMAIN tickets \ {t} : noted'[y] = noted[y]
  BY <1>6, <1>8, RowChanged
<1>11. Written(w, f, x, t)
  BY <1>2, <1>3, <1>4, <1>5, <1>7, <1>9, <1>10 DEF Ids, Written
<1>. QED
  BY <1>11

LEMMA NoteWrites ==
  ASSUME TypeOK, NEW w \in Workers, NoteLog(w)
  PROVE  \E t \in Ids, s \in Statuses :
           /\ t = work[w].id /\ s = work[w].read.status
           /\ noted' \in Seq(Statuses) /\ Len(noted') = Len(tickets)
           /\ noted'[t] = s /\ \A y \in Ids \ {t} : noted'[y] = noted[y]
<1>1. PICK t, s : t = work[w].id /\ s = work[w].read.status
  OBVIOUS
<1>2. t \in Ids /\ s \in Statuses /\ noted' = [noted EXCEPT ![t] = s]
  BY <1>1 DEF NoteLog, TypeOK, CallOK
<1>3. noted \in Seq(Statuses) /\ DOMAIN noted = Ids /\ Len(noted) = Len(tickets)
  BY TableFacts
<1>4. noted' \in Seq(Statuses) /\ Len(noted') = Len(tickets) /\ noted'[t] = s /\ \A y \in Ids \ {t} : noted'[y] = noted[y]
  BY <1>2, <1>3, RowChanged
<1>. QED
  BY <1>1, <1>2, <1>4

\* The branches of an update are those there were, and its own.
LEMMA BranchesType ==
  ASSUME TypeOK, NEW w \in Workers, work[w].at = "update", NEW done \in Outcomes(w)
  PROVE  Branches(w, done) \subseteq ({0} \cup Ids) \X Repos
<1>1. work[w].id \in Ids /\ work[w].form \in Ticket
  BY DEF TypeOK, CallOK
<1>2. done.make => work[w].form.repo # NoRepo
  BY DEF Outcomes, Makes
<1>3. work[w].form.repo \in Repos \cup {NoRepo}
  BY <1>1 DEF Ticket
<1>4. branches \subseteq ({0} \cup Ids) \X Repos
  BY DEF TypeOK, TablesOK
<1>5. done.make => <<work[w].id, work[w].form.repo>> \in ({0} \cup Ids) \X Repos
  BY <1>1, <1>2, <1>3
<1>. QED
  BY <1>4, <1>5 DEF Branches

----------------------------------------------------------------------------
(* Type correctness. *)

LEMMA TablesStep == TypeOK /\ [Next]_vars => TablesOK'
<1>. SUFFICES ASSUME TypeOK, [Next]_vars PROVE TablesOK'
  OBVIOUS
<1>0. /\ today \in Dates /\ tickets \in Seq(Ticket) /\ Len(tickets) <= MaxTickets
      /\ \A t \in Ids : tickets[t].parent \in ({0} \cup Ids) \ {t}
      /\ noted \in Seq(Statuses) /\ Len(noted) = Len(tickets)
      /\ logged \in [Dates -> Nat] /\ branches \subseteq ({0} \cup Ids) \X Repos
  BY DEF TypeOK, TablesOK
<1>a. \A w \in Workers : /\ work[w] \in Call
                         /\ work[w].at # "idle" => work[w].date \in Dates
                         /\ work[w].log \in Nat
  BY DEF TypeOK, CallOK, Call
<1>1. ASSUME NEW w \in Workers, CreateTicket(w) PROVE TablesOK'
  <2>1. PICK f \in Ticket, t \in Nat :
           /\ f = work[w].form /\ t = Len(tickets) + 1 /\ t <= MaxTickets
           /\ f.parent \in {0} \cup Ids
           /\ tickets' = Append(tickets, f) /\ tickets' \in Seq(Ticket) /\ Len(tickets') = t
           /\ Ids' = Ids \cup {t} /\ t \notin Ids /\ t # 0
           /\ \A x \in Ids : tickets'[x] = tickets[x] /\ noted'[x] = noted[x]
           /\ tickets'[t] = f /\ noted'[t] = f.status
           /\ noted' \in Seq(Statuses) /\ Len(noted') = t
    BY <1>1, CreateWrites
  <2>2. WriteLog(w, work[w].log, work[w].date) /\ work[w].at = "create" /\ today' = today
    BY <1>1 DEF CreateTicket, Turn
  <2>3. logged' \in [Dates -> Nat]
    BY <1>a, <2>2, LogWritten
  <2>4. PICK ok \in BOOLEAN : branches' = branches \cup {b \in {<<t, f.repo>>} : ok /\ f.repo # NoRepo}
    BY <1>1, <2>1 DEF CreateTicket
  <2>5. branches' \subseteq ({0} \cup Ids') \X Repos
    <3>1. f.repo # NoRepo => <<t, f.repo>> \in ({0} \cup Ids') \X Repos
      BY <2>1 DEF Ticket
    <3>. QED
      BY <1>0, <2>1, <2>4, <3>1
  <2>6. ASSUME NEW x \in Ids' PROVE tickets'[x].parent \in ({0} \cup Ids') \ {x}
    <3>1. CASE x \in Ids
      <4>1. tickets'[x] = tickets[x] /\ tickets[x].parent \in ({0} \cup Ids) \ {x}
        BY <1>0, <2>1, <3>1
      <4>. QED
        BY <2>1, <4>1
    <3>2. CASE x = t
      BY <2>1, <3>2
    <3>. QED
      BY <2>1, <3>1, <3>2
  <2>. QED
    BY <1>0, <2>1, <2>2, <2>3, <2>5, <2>6 DEF TablesOK
<1>2. ASSUME NEW w \in Workers, UpdateTicket(w) PROVE TablesOK'
  <2>1. PICK f, x, t : Written(w, f, x, t)
    BY <1>2, UpdateWrites
  <2>2. WriteLog(w, work[w].log, work[w].date) /\ work[w].at = "update" /\ today' = today
    BY <1>2 DEF UpdateTicket, Turn
  <2>3. logged' \in [Dates -> Nat]
    BY <1>a, <2>2, LogWritten
  <2>4. PICK done \in Outcomes(w) : branches' = Branches(w, done)
    BY <1>2 DEF UpdateTicket
  <2>5. branches' \subseteq ({0} \cup Ids') \X Repos
    BY <2>1, <2>2, <2>4, BranchesType DEF Written
  <2>6. \A y \in Ids' : tickets'[y].parent \in ({0} \cup Ids') \ {y}
    BY <1>0, <2>1 DEF Written
  <2>. QED
    BY <1>0, <2>1, <2>2, <2>3, <2>5, <2>6 DEF TablesOK, Written
<1>3. ASSUME NEW w \in Workers, NoteLog(w) PROVE TablesOK'
  <2>1. noted' \in Seq(Statuses) /\ Len(noted') = Len(tickets)
    BY <1>3, NoteWrites
  <2>2. UNCHANGED <<today, tickets, logged, branches>>
    BY <1>3 DEF NoteLog, Turn
  <2>. QED
    BY <1>0, <2>1, <2>2 DEF TablesOK, Ids
<1>4. ASSUME NEW w \in Workers, SaveLog(w) PROVE TablesOK'
  <2>1. /\ WriteLog(w, work[w].log, work[w].date) /\ work[w].at = "log"
        /\ UNCHANGED <<today, tickets, noted, branches>>
    BY <1>4 DEF SaveLog, Turn
  <2>2. logged' \in [Dates -> Nat]
    BY <1>a, <2>1, LogWritten
  <2>. QED
    BY <1>0, <2>1, <2>2 DEF TablesOK, Ids
<1>5. ASSUME NEW w \in Workers, UndoCreate(w) \/ UndoUpdate(w) PROVE TablesOK'
  <2>1. UNCHANGED <<today, tickets, noted, logged>>
    BY <1>5 DEF UndoCreate, UndoUpdate, Turn, database
  <2>2. branches' \subseteq ({0} \cup Ids) \X Repos
    <3>1. CASE UndoCreate(w)
      <4>1. work[w].form \in Ticket
        BY <3>1 DEF UndoCreate, TypeOK, CallOK
      <4>2. work[w].form.repo # NoRepo => <<0, work[w].form.repo>> \in ({0} \cup Ids) \X Repos
        BY <4>1 DEF Ticket
      <4>. QED
        BY <1>0, <3>1, <4>2 DEF UndoCreate
    <3>2. CASE UndoUpdate(w)
      BY <3>2, BranchesType DEF UndoUpdate
    <3>. QED
      BY <1>5, <3>1, <3>2
  <2>. QED
    BY <1>0, <2>1, <2>2 DEF TablesOK, Ids
<1>6. CASE NextDay
  <2>1. today' \in Dates /\ UNCHANGED <<tickets, noted, logged, branches>>
    BY <1>0, <1>6, TicketConstants DEF NextDay, Dates, database
  <2>. QED
    BY <1>0, <2>1 DEF TablesOK, Ids
<1>7. ASSUME NEW w \in Workers, AskCreate(w) \/ AskUpdate(w) \/ AskLog(w) \/ Die(w) PROVE TablesOK'
  <2>1. UNCHANGED <<today, database, branches>>
    BY <1>7 DEF AskCreate, AskUpdate, AskLog, Die, Start, Turn
  <2>. QED
    BY <1>0, <2>1 DEF TablesOK, Ids, database
<1>8. CASE UNCHANGED vars
  BY <1>0, <1>8 DEF TablesOK, Ids, vars, database
<1>. QED
  BY <1>1, <1>2, <1>3, <1>4, <1>5, <1>6, <1>7, <1>8 DEF Next

\* A step of one call, to a call that is well typed in the new state.
LEMMA OneCall ==
  ASSUME TypeOK, Ids \subseteq Ids', NEW w \in Workers, NEW now \in Call, work' = [work EXCEPT ![w] = now],
         CallOK(now)'
  PROVE  /\ work' \in [Workers -> Call] /\ \A v \in Workers : CallOK(work[v])'
         /\ work'[w] = now /\ \A v \in Workers \ {w} : work'[v] = work[v]
<1>1. work \in [Workers -> Call] /\ \A v \in Workers : CallOK(work[v])
  BY DEF TypeOK
<1>2. work' \in [Workers -> Call] /\ work'[w] = now /\ \A v \in Workers \ {w} : work'[v] = work[v]
  BY <1>1
<1>3. ASSUME NEW v \in Workers PROVE CallOK(work[v])'
  <2>1. CASE v = w
    BY <1>1, <2>1 DEF CallOK
  <2>2. CASE v # w
    <3>1. work'[v] = work[v] /\ CallOK(work[v])
      BY <1>1, <2>2
    <3>. QED
      BY <3>1 DEF CallOK
  <2>. QED
    BY <2>1, <2>2
<1>. QED
  BY <1>2, <1>3

\* No ticket goes away.
LEMMA IdsStay ==
  ASSUME TypeOK, [Next]_vars
  PROVE  Ids \subseteq Ids'
<1>1. ASSUME NEW w \in Workers, CreateTicket(w) PROVE Ids \subseteq Ids'
  BY <1>1, CreateWrites
<1>2. ASSUME NEW w \in Workers, UpdateTicket(w) PROVE Ids \subseteq Ids'
  BY <1>2, UpdateWrites DEF Written
<1>3. ASSUME NEW w \in Workers,
             \/ UndoCreate(w) \/ UndoUpdate(w) \/ AskCreate(w) \/ AskUpdate(w) \/ AskLog(w)
             \/ NoteLog(w) \/ SaveLog(w) \/ Die(w)
      PROVE  tickets' = tickets
  BY <1>3 DEF UndoCreate, UndoUpdate, AskCreate, AskUpdate, AskLog, NoteLog, SaveLog, Die, Start, database
<1>4. CASE NextDay \/ UNCHANGED vars
  BY <1>4 DEF NextDay, vars, database, Ids
<1>. QED
  BY <1>1, <1>2, <1>3, <1>4 DEF Next, Ids

\* The calls a user may start, with what they have validated.
Started(w, now) ==
  /\ now \in Call /\ work' = [work EXCEPT ![w] = now] /\ fresh' = fresh \cup {w}
  /\ now.date \in Dates
  /\ now.log > 0 => logged[now.date] + now.log <= DayLimit

Created(now) ==
  /\ now.at = "create" /\ now.form \in Ticket /\ now.form.parent \in {0} \cup Ids
  /\ now.form.status = "New"
  /\ now.form.parent # 0 => tickets[now.form.parent].status \notin Closed

Updated(now) ==
  /\ now.at = "update" /\ now.id \in Ids /\ now.read = tickets[now.id] /\ now.read \in Ticket
  /\ now.form \in Ticket /\ now.form.parent \in ({0} \cup Ids) \ {now.id}
  /\ now.form.status \in MovesFrom(now.read.status)
  /\ ChildrenAllow(now.id, now.form.status)
  /\ now.form.merged = now.read.merged
  /\ now.form.parent # 0 => ParentAllows(now.form.parent, now.form.status)
  /\ now.form.parent \in Ids /\ now.form.parent # now.read.parent =>
       tickets[now.form.parent].status \notin Closed /\ now.form.parent \notin Below(now.id)

Noting(now) ==
  /\ now.at = "note" /\ now.id \in Ids
  /\ now.read.status = noted[now.id] /\ now.read.status \in Statuses

LEMMA AskFacts ==
  ASSUME NEW a \in Asks
  PROVE  /\ a.status \in Statuses /\ a.parent \in Nat /\ a.moved \in BOOLEAN
         /\ a.repo \in Repos \cup {NoRepo} /\ a.merged \in BOOLEAN /\ a.log \in Nat
<1>1. a \in [status : Statuses, parent : Nat, moved : BOOLEAN, repo : Repos \cup {NoRepo},
             merged : BOOLEAN, log : Nat]
  BY TicketConstants
<1>. QED
  BY <1>1

LEMMA Starts ==
  ASSUME TypeOK, NEW w \in Workers, AskCreate(w) \/ AskUpdate(w) \/ AskLog(w)
  PROVE  \E now : Started(w, now) /\ (Created(now) \/ Updated(now) \/ Noting(now))
<1>0. today \in Dates
  BY DEF TypeOK, TablesOK
<1>a. Ticket \subseteq Header /\ None \in Header
  BY DEF Ticket, Header, None
<1>b. {"create", "update", "note"} \subseteq Steps /\ 0 \in Nat
  BY DEF Steps
<1>1. CASE AskCreate(w)
  <2>1. PICK a \in Asks :
          /\ a.parent # 0 => ParentValid(a.parent, 0)
          /\ MayLog(a.log, today, today)
          /\ Start(w, [Idle EXCEPT !.at = "create", !.log = a.log, !.date = today,
                         !.form = [status |-> "New", parent |-> a.parent, repo |-> a.repo,
                                   merged |-> a.merged, created |-> today]])
    BY <1>1 DEF AskCreate
  <2>2. PICK d \in Dates : d = today
    BY <1>0
  <2>. DEFINE f == [status |-> "New", parent |-> a.parent, repo |-> a.repo,
                     merged |-> a.merged, created |-> d]
              now == [Idle EXCEPT !.at = "create", !.log = a.log, !.date = d, !.form = f]
  <2>3. f \in Ticket /\ f.parent = a.parent /\ f.status = "New"
    BY AskFacts DEF Ticket, Statuses
  <2>4. now \in Call /\ now.at = "create" /\ now.form = f /\ now.log = a.log /\ now.date = d
    <3>1. f \in Header /\ a.log \in Nat /\ "create" \in Steps
      BY <1>a, <1>b, <2>3, AskFacts
    <3>. HIDE DEF f
    <3>. QED
      BY <3>1, IdleType DEF Call
  <2>5. work' = [work EXCEPT ![w] = now] /\ fresh' = fresh \cup {w}
    BY <2>1, <2>2 DEF Start
  <2>. HIDE DEF f, now
  <2>6. a.log > 0 => logged[d] + a.log <= DayLimit
    BY <2>1, <2>2 DEF MayLog
  <2>7. a.parent # 0 => a.parent \in Ids /\ tickets[a.parent].status \notin Closed
    BY <2>1 DEF ParentValid
  <2>8. Started(w, now)
    BY <2>4, <2>5, <2>6 DEF Started
  <2>9. Created(now)
    BY <2>3, <2>4, <2>7 DEF Created
  <2>. QED
    BY <2>8, <2>9
<1>2. CASE AskUpdate(w)
  <2>1. PICK t \in Ids, a \in Asks, d \in Dates :
          /\ MayUpdate(t, a.status, a.parent, a.moved)
          /\ MayLog(a.log, d, tickets[t].created)
          /\ Start(w, [Idle EXCEPT !.at = "update", !.id = t, !.log = a.log, !.date = d, !.read = tickets[t],
                         !.form = [status |-> a.status, parent |-> ParentOf(t, a.parent, a.moved),
                                   repo |-> a.repo, merged |-> tickets[t].merged, created |-> tickets[t].created]])
    BY <1>2 DEF AskUpdate
  <2>2. PICK x \in Ticket : x = tickets[t]
    BY TableFacts
  <2>3. PICK p : p = ParentOf(t, a.parent, a.moved)
    OBVIOUS
  <2>4. p \in ({0} \cup Ids) \ {t} /\ p \in Nat
    <3>1. tickets[t].parent \in ({0} \cup Ids) \ {t} /\ t # 0
      BY TableFacts DEF TypeOK, TablesOK
    <3>2. a.parent # 0 => a.parent \in Ids \ {t}
      BY <2>1 DEF MayUpdate, ParentValid
    <3>3. p \in ({0} \cup Ids) \ {t}
      BY <2>3, <3>1, <3>2 DEF ParentOf
    <3>. QED
      BY <3>3, TableFacts
  <2>. DEFINE f == [status |-> a.status, parent |-> p, repo |-> a.repo,
                     merged |-> x.merged, created |-> x.created]
              now == [Idle EXCEPT !.at = "update", !.id = t, !.log = a.log, !.date = d, !.read = x, !.form = f]
  <2>5. f \in Ticket /\ f.parent = p /\ f.status = a.status /\ f.merged = x.merged
    BY <2>4, AskFacts DEF Ticket
  <2>6. now \in Call /\ now.at = "update" /\ now.id = t /\ now.form = f /\ now.log = a.log /\ now.date = d /\ now.read = x
    <3>1. f \in Header /\ x \in Header /\ a.log \in Nat /\ t \in Nat /\ "update" \in Steps
      BY <1>a, <1>b, <2>5, AskFacts, TableFacts
    <3>. HIDE DEF f
    <3>. QED
      BY <3>1, IdleType DEF Call
  <2>7. work' = [work EXCEPT ![w] = now] /\ fresh' = fresh \cup {w}
    BY <2>1, <2>2, <2>3 DEF Start
  <2>. HIDE DEF f, now
  <2>8. /\ a.log > 0 => logged[d] + a.log <= DayLimit
        /\ a.status \in MovesFrom(x.status) /\ ChildrenAllow(t, a.status)
        /\ p # 0 => ParentAllows(p, a.status)
    BY <2>1, <2>2, <2>3 DEF MayLog, MayUpdate
  <2>9. p \in Ids /\ p # x.parent => tickets[p].status \notin Closed /\ p \notin Below(t)
    <3>1. a.parent # 0 => tickets[a.parent].status \notin Closed /\ a.parent \notin Below(t)
      BY <2>1 DEF MayUpdate, ParentValid
    <3>2. p = x.parent \/ p = a.parent
      BY <2>2, <2>3 DEF ParentOf
    <3>. QED
      BY <3>1, <3>2, TableFacts
  <2>10. Started(w, now)
    BY <2>6, <2>7, <2>8 DEF Started
  <2>11. Updated(now)
    BY <2>2, <2>4, <2>5, <2>6, <2>8, <2>9 DEF Updated
  <2>. QED
    BY <2>10, <2>11
<1>3. CASE AskLog(w)
  <2>1. PICK t \in Ids, a \in Asks, d \in Dates :
          /\ MayLog(a.log, d, tickets[t].created)
          /\ Start(w, [Idle EXCEPT !.at = "note", !.id = t, !.log = a.log, !.date = d,
                         !.read = [None EXCEPT !.status = noted[t]]])
    BY <1>3 DEF AskLog
  <2>2. PICK s \in Statuses : s = noted[t]
    BY TableFacts
  <2>. DEFINE h == [None EXCEPT !.status = s]
              now == [Idle EXCEPT !.at = "note", !.id = t, !.log = a.log, !.date = d, !.read = h]
  <2>3. h \in Header /\ h.status = s
    BY <1>a DEF Header
  <2>4. now \in Call /\ now.at = "note" /\ now.id = t /\ now.log = a.log /\ now.date = d /\ now.read = h
    <3>1. a.log \in Nat /\ t \in Nat /\ "note" \in Steps
      BY <1>b, AskFacts, TableFacts
    <3>. HIDE DEF h
    <3>. QED
      BY <2>3, <3>1, IdleType DEF Call
  <2>5. work' = [work EXCEPT ![w] = now] /\ fresh' = fresh \cup {w}
    BY <2>1, <2>2 DEF Start
  <2>. HIDE DEF h, now
  <2>6. a.log > 0 => logged[d] + a.log <= DayLimit
    BY <2>1 DEF MayLog
  <2>7. Started(w, now)
    BY <2>4, <2>5, <2>6 DEF Started
  <2>8. Noting(now)
    BY <2>2, <2>3, <2>4 DEF Noting
  <2>. QED
    BY <2>7, <2>8
<1>. QED
  BY <1>1, <1>2, <1>3

\* Every step keeps the calls well typed.
LEMMA CallsStep ==
  ASSUME TypeOK, [Next]_vars
  PROVE  work' \in [Workers -> Call] /\ \A w \in Workers : CallOK(work[w])'
<1>. DEFINE CallsOK == work' \in [Workers -> Call] /\ \A w \in Workers : CallOK(work[w])'
<1>a. work \in [Workers -> Call] /\ \A w \in Workers : work[w] \in Call /\ CallOK(work[w])
  BY DEF TypeOK
<1>1. ASSUME NEW w \in Workers, AskCreate(w) \/ AskUpdate(w) \/ AskLog(w) PROVE CallsOK
  <2>1. PICK now : Started(w, now) /\ (Created(now) \/ Updated(now) \/ Noting(now))
    BY <1>1, Starts
  <2>2. CallOK(now)'
    BY <2>1, IdsStay DEF CallOK, Started, Created, Updated, Noting
  <2>3. now \in Call /\ work' = [work EXCEPT ![w] = now]
    BY <2>1 DEF Started
  <2>. QED
    BY <2>2, <2>3, OneCall, IdsStay
<1>2. ASSUME NEW w \in Workers,
             CreateTicket(w) \/ UndoCreate(w) \/ UpdateTicket(w) \/ UndoUpdate(w) \/ SaveLog(w) \/ Die(w)
      PROVE  CallsOK
  <2>1. work' = [work EXCEPT ![w] = Idle]
    BY <1>2 DEF CreateTicket, UndoCreate, UpdateTicket, UndoUpdate, SaveLog, Die, Turn
  <2>. QED
    BY <2>1, IdleType, OneCall, IdsStay
<1>3. ASSUME NEW w \in Workers, NoteLog(w) PROVE CallsOK
  <2>1. PICK c \in Call : c = work[w]
    BY <1>a
  <2>. DEFINE now == [c EXCEPT !.at = "log"]
  <2>2. work' = [work EXCEPT ![w] = now] /\ c.at = "note"
    BY <1>3, <2>1 DEF NoteLog, Turn
  <2>3. now \in Call /\ now.at = "log" /\ now.id = c.id /\ now.date = c.date
    BY DEF Call, Steps
  <2>4. CallOK(now)'
    BY <1>a, <2>1, <2>2, <2>3, IdsStay DEF CallOK
  <2>. QED
    BY <2>2, <2>3, <2>4, OneCall, IdsStay
<1>4. CASE NextDay \/ UNCHANGED vars
  <2>1. work' = work
    BY <1>4 DEF NextDay, vars
  <2>. QED
    BY <1>a, <2>1, IdsStay DEF CallOK
<1>. QED
  BY <1>1, <1>2, <1>3, <1>4 DEF Next

LEMMA CountsStep ==
  ASSUME TypeOK, [Next]_vars
  PROVE  calls' \in 0 .. MaxCalls /\ faults' \in 0 .. MaxFaults /\ fresh' \subseteq Workers
<1>. DEFINE Counted == /\ calls' = calls \/ (calls < MaxCalls /\ calls' = calls + 1)
                       /\ faults' = faults \/ (faults < MaxFaults /\ faults' = faults + 1)
                       /\ fresh' \subseteq Workers
<1>0. fresh \subseteq Workers
  BY DEF TypeOK
<1>1. ASSUME NEW w \in Workers, AskCreate(w) \/ AskUpdate(w) \/ AskLog(w) PROVE Counted
  BY <1>0, <1>1 DEF AskCreate, AskUpdate, AskLog, Start
<1>2. ASSUME NEW w \in Workers, CreateTicket(w) \/ UpdateTicket(w) PROVE Counted
  BY <1>0, <1>2 DEF CreateTicket, UpdateTicket, Turn, Wrote
<1>3. ASSUME NEW w \in Workers, UndoCreate(w) \/ UndoUpdate(w) PROVE Counted
  BY <1>0, <1>3 DEF UndoCreate, UndoUpdate, Turn
<1>4. ASSUME NEW w \in Workers, NoteLog(w) \/ SaveLog(w) PROVE Counted
  BY <1>0, <1>4 DEF NoteLog, SaveLog, Turn
<1>5. ASSUME NEW w \in Workers, Die(w) PROVE Counted
  BY <1>0, <1>5 DEF Die, Turn, history
<1>6. ASSUME NextDay \/ UNCHANGED vars PROVE Counted
  <2>1. calls' = calls /\ faults' = faults /\ fresh' = fresh
    BY <1>6 DEF NextDay, vars, history
  <2>. QED
    BY <1>0, <2>1
<1>. HIDE DEF Counted
<1>7. Counted
  BY <1>1, <1>2, <1>3, <1>4, <1>5, <1>6 DEF Next
<1>. QED
  BY <1>7, TicketConstants DEF TypeOK, Counted

\* Tables and calls of Tickets stay well typed; parents exist, and no call is about a missing ticket.
THEOREM TypeCorrect == Spec => []TypeOK
<1>1. TypeOK /\ [Next]_vars => TypeOK'
  BY TablesStep, CallsStep, CountsStep DEF TypeOK
<1>. QED
  BY <1>1, TypeInit, PTL DEF Spec

----------------------------------------------------------------------------
(* What a fresh call has validated is still so. *)

StillValid(c) ==
  /\ c.at # "idle" /\ c.log > 0 => logged[c.date] + c.log <= DayLimit
  /\ c.at = "create" => Created(c)
  /\ c.at = "update" => Updated(c)
  /\ c.at = "note"   => Noting(c) \/ c.id \in raced

FreshInv == \A w \in fresh : StillValid(work[w])

\* It stays so while nothing is written that matters to it.
LEMMA StillValidKept ==
  ASSUME NEW c, StillValid(c), UNCHANGED <<tickets, logged>>, raced \subseteq raced',
         \A t \in Ids : noted'[t] = noted[t] \/ t \in raced'
  PROVE  StillValid(c)'
<1>1. Created(c) => Created(c)'
  BY DEF Created, Ids
<1>2. Updated(c) => Updated(c)'
  BY DEF Updated, ChildrenAllow, Children, ParentAllows, Ids, Below
<1>3. c.at = "note" => Noting(c)' \/ c.id \in raced'
  <2>1. Noting(c) => Noting(c)' \/ c.id \in raced'
    BY DEF Noting, Ids
  <2>. QED
    BY <2>1 DEF StillValid
<1>. QED
  BY <1>1, <1>2, <1>3 DEF StillValid

\* A details row copied from an older one changes nothing, or its ticket is one of the raced.
LEMMA NoteFaithful ==
  ASSUME TypeOK, FreshInv, NEW w \in Workers, NoteLog(w)
  PROVE  raced \subseteq raced' /\ \A t \in Ids : noted'[t] = noted[t] \/ t \in raced'
<1>1. PICK t \in Ids, s \in Statuses :
           /\ t = work[w].id /\ s = work[w].read.status
           /\ noted'[t] = s /\ \A y \in Ids \ {t} : noted'[y] = noted[y]
  BY NoteWrites
<1>2. work[w].at = "note" /\ raced' = raced \cup {x \in {t} : w \notin fresh}
  BY <1>1 DEF NoteLog
<1>3. w \in fresh => s = noted[t] \/ t \in raced
  BY <1>1, <1>2 DEF FreshInv, StillValid, Noting
<1>. QED
  BY <1>1, <1>2, <1>3

LEMMA FreshStep == TypeOK /\ FreshInv /\ [Next]_vars => FreshInv'
<1>. SUFFICES ASSUME TypeOK, FreshInv, [Next]_vars PROVE FreshInv'
  OBVIOUS
<1>0. work \in [Workers -> Call] /\ fresh \subseteq Workers
  BY DEF TypeOK
<1>a. ASSUME UNCHANGED <<tickets, logged, noted, raced>>, NEW v \in fresh, work'[v] = work[v]
      PROVE  StillValid(work[v])'
  <2>1. PICK c : c = work[v]
    OBVIOUS
  <2>2. StillValid(c)'
    BY <1>a, <2>1, StillValidKept DEF FreshInv
  <2>. QED
    BY <1>a, <2>1, <2>2
<1>b. StillValid(Idle)'
  BY IdleType DEF StillValid
<1>1. ASSUME NEW w \in Workers, AskCreate(w) \/ AskUpdate(w) \/ AskLog(w) PROVE FreshInv'
  <2>1. PICK now : Started(w, now) /\ (Created(now) \/ Updated(now) \/ Noting(now))
    BY <1>1, Starts
  <2>2. UNCHANGED <<tickets, noted, logged, raced>>
    BY <1>1 DEF AskCreate, AskUpdate, AskLog, Start, database
  <2>3. StillValid(now)
    BY <2>1 DEF StillValid, Started, Created, Updated, Noting
  <2>4. StillValid(now)'
    BY <2>2, <2>3, StillValidKept
  <2>5. /\ work'[w] = now /\ \A v \in Workers \ {w} : work'[v] = work[v]
        /\ fresh' = fresh \cup {w}
    BY <1>0, <2>1 DEF Started
  <2>6. ASSUME NEW v \in fresh' PROVE StillValid(work[v])'
    <3>1. CASE v = w
      BY <2>4, <2>5, <3>1
    <3>2. CASE v # w
      BY <1>0, <1>a, <2>2, <2>5, <3>2
    <3>. QED
      BY <3>1, <3>2
  <2>. QED
    BY <2>6 DEF FreshInv
<1>2. ASSUME NEW w \in Workers, CreateTicket(w) \/ UpdateTicket(w) \/ SaveLog(w) PROVE FreshInv'
  <2>1. fresh' = {}
    BY <1>2 DEF CreateTicket, UpdateTicket, SaveLog, Wrote
  <2>. QED
    BY <2>1 DEF FreshInv
<1>3. ASSUME NEW w \in Workers, UndoCreate(w) \/ UndoUpdate(w) \/ Die(w) PROVE FreshInv'
  <2>1. UNCHANGED <<tickets, noted, logged, raced, fresh>> /\ work' = [work EXCEPT ![w] = Idle]
    BY <1>3 DEF UndoCreate, UndoUpdate, Die, Turn, database, history
  <2>2. work'[w] = Idle /\ \A v \in Workers \ {w} : work'[v] = work[v]
    BY <1>0, <2>1
  <2>3. ASSUME NEW v \in fresh' PROVE StillValid(work[v])'
    <3>1. CASE v = w
      BY <1>b, <2>2, <3>1 DEF StillValid
    <3>2. CASE v # w
      BY <1>0, <1>a, <2>1, <2>2, <3>2
    <3>. QED
      BY <3>1, <3>2
  <2>. QED
    BY <2>3 DEF FreshInv
<1>4. ASSUME NEW w \in Workers, NoteLog(w) PROVE FreshInv'
  <2>1. /\ UNCHANGED <<tickets, logged, fresh>> /\ work' = [work EXCEPT ![w] = [work[w] EXCEPT !.at = "log"]]
        /\ work[w].at = "note"
    BY <1>4 DEF NoteLog, Turn
  <2>2. /\ work'[w].at = "log" /\ work'[w].log = work[w].log /\ work'[w].date = work[w].date
        /\ \A v \in Workers \ {w} : work'[v] = work[v]
    BY <1>0, <2>1 DEF Call
  <2>3. ASSUME NEW v \in fresh' PROVE StillValid(work[v])'
    <3>1. CASE v = w
      <4>1. work[w].log > 0 => logged[work[w].date] + work[w].log <= DayLimit
        BY <2>1, <2>3, <3>1 DEF FreshInv, StillValid
      <4>. QED
        BY <2>1, <2>2, <3>1, <4>1 DEF StillValid
    <3>2. CASE v # w
      <4>1. PICK c : c = work[v]
        OBVIOUS
      <4>2. StillValid(c)
        BY <2>1, <2>3, <4>1 DEF FreshInv
      <4>3. StillValid(c)'
        BY <1>4, <2>1, <4>2, NoteFaithful, StillValidKept
      <4>. QED
        BY <1>0, <2>1, <2>2, <2>3, <3>2, <4>1, <4>3
    <3>. QED
      BY <3>1, <3>2
  <2>. QED
    BY <2>3 DEF FreshInv
<1>5. CASE NextDay \/ UNCHANGED vars
  <2>1. UNCHANGED <<tickets, noted, logged, raced, fresh, work>>
    BY <1>5 DEF NextDay, vars, database, history
  <2>. QED
    BY <1>a, <2>1 DEF FreshInv
<1>. QED
  BY <1>1, <1>2, <1>3, <1>4, <1>5 DEF Next

LEMMA FreshCorrect == Spec => []FreshInv
<1>1. Init => FreshInv
  BY DEF Init, FreshInv
<1>. QED
  BY <1>1, FreshStep, TypeCorrect, PTL DEF Spec

----------------------------------------------------------------------------
(* The history of a ticket. *)

\* Steps that write none of the tables, and leave every ticket that raced one.
LEMMA QuietSteps ==
  ASSUME NEW w \in Workers,
         \/ AskCreate(w) \/ AskUpdate(w) \/ AskLog(w) \/ UndoCreate(w) \/ UndoUpdate(w) \/ Die(w)
         \/ NextDay \/ UNCHANGED vars
  PROVE  UNCHANGED <<tickets, noted, logged, raced, overlogged>>
BY DEF AskCreate, AskUpdate, AskLog, UndoCreate, UndoUpdate, Die, NextDay, vars, Start, database, history

LEMMA RacedStays ==
  ASSUME [Next]_vars
  PROVE  raced \subseteq raced' /\ overlogged \subseteq overlogged' /\ loose \subseteq loose'
<1>1. ASSUME NEW w \in Workers, AskCreate(w) \/ AskUpdate(w) \/ AskLog(w)
      PROVE  UNCHANGED <<raced, overlogged, loose>>
  BY <1>1 DEF AskCreate, AskUpdate, AskLog, Start
<1>2. ASSUME NEW w \in Workers, CreateTicket(w) \/ UpdateTicket(w)
      PROVE  raced \subseteq raced' /\ overlogged \subseteq overlogged' /\ loose \subseteq loose'
  BY <1>2 DEF CreateTicket, UpdateTicket, Wrote, WriteLog
<1>3. ASSUME NEW w \in Workers, UndoCreate(w) \/ UndoUpdate(w)
      PROVE  raced \subseteq raced' /\ overlogged \subseteq overlogged' /\ loose \subseteq loose'
  BY <1>3 DEF UndoCreate, UndoUpdate
<1>4. ASSUME NEW w \in Workers, NoteLog(w) \/ SaveLog(w)
      PROVE  raced \subseteq raced' /\ overlogged \subseteq overlogged' /\ loose \subseteq loose'
  BY <1>4 DEF NoteLog, SaveLog, WriteLog
<1>5. ASSUME NEW w \in Workers, Die(w) PROVE UNCHANGED <<raced, overlogged, loose>>
  BY <1>5 DEF Die, history
<1>6. CASE NextDay \/ UNCHANGED vars
  BY <1>6 DEF NextDay, vars, history
<1>. QED
  BY <1>1, <1>2, <1>3, <1>4, <1>5, <1>6 DEF Next

LEMMA HistoryStep == TypeOK /\ FreshInv /\ HistoryEndsAtStatus /\ [Next]_vars => HistoryEndsAtStatus'
<1>. SUFFICES ASSUME TypeOK, FreshInv, HistoryEndsAtStatus, [Next]_vars PROVE HistoryEndsAtStatus'
  OBVIOUS
<1>1. ASSUME NEW w \in Workers, CreateTicket(w) PROVE HistoryEndsAtStatus'
  BY <1>1, CreateWrites, RacedStays DEF HistoryEndsAtStatus
<1>2. ASSUME NEW w \in Workers, UpdateTicket(w) PROVE HistoryEndsAtStatus'
  <2>1. PICK f, x, t : Written(w, f, x, t)
    BY <1>2, UpdateWrites
  <2>. QED
    BY <2>1, RacedStays DEF HistoryEndsAtStatus, Written
<1>3. ASSUME NEW w \in Workers, NoteLog(w) PROVE HistoryEndsAtStatus'
  <2>1. tickets' = tickets
    BY <1>3 DEF NoteLog
  <2>. QED
    BY <1>3, <2>1, NoteFaithful DEF HistoryEndsAtStatus, Ids
<1>4. ASSUME NEW w \in Workers, SaveLog(w) PROVE HistoryEndsAtStatus'
  BY <1>4 DEF SaveLog, HistoryEndsAtStatus, Ids
<1>5. ASSUME UNCHANGED <<tickets, noted, raced>> PROVE HistoryEndsAtStatus'
  BY <1>5 DEF HistoryEndsAtStatus, Ids
<1>6. CASE NextDay \/ UNCHANGED vars
  BY <1>5, <1>6 DEF NextDay, vars, database, history
<1>. QED
  BY <1>1, <1>2, <1>3, <1>4, <1>5, <1>6, QuietSteps DEF Next

\* The last details row of a ticket carries its status, unless calls crossed on it.
THEOREM HistoryCorrect == Spec => []HistoryEndsAtStatus
<1>1. Init => HistoryEndsAtStatus
  BY DEF Init, HistoryEndsAtStatus, Ids
<1>. QED
  BY <1>1, HistoryStep, FreshCorrect, TypeCorrect, PTL DEF Spec

----------------------------------------------------------------------------
(* The hours of a date. *)

LEMMA LoggedStep == TypeOK /\ FreshInv /\ LoggedWithinDay /\ [Next]_vars => LoggedWithinDay'
<1>. SUFFICES ASSUME TypeOK, FreshInv, LoggedWithinDay, [Next]_vars PROVE LoggedWithinDay'
  OBVIOUS
<1>1. ASSUME NEW w \in Workers, CreateTicket(w) \/ UpdateTicket(w) \/ SaveLog(w) PROVE LoggedWithinDay'
  <2>1. PICK n, d : n = work[w].log /\ d = work[w].date
    OBVIOUS
  <2>2. WriteLog(w, n, d) /\ work[w].at \in {"create", "update", "log"}
    BY <1>1, <2>1 DEF CreateTicket, UpdateTicket, SaveLog
  <2>3. n \in Nat /\ d \in Dates
    BY <2>1, <2>2 DEF TypeOK, CallOK, Call
  <2>4. w \in fresh /\ n > 0 => logged[d] + n <= DayLimit
    BY <2>1, <2>2 DEF FreshInv, StillValid
  <2>5. /\ \A e \in Dates : logged'[e] = IF e = d THEN logged[e] + n ELSE logged[e]
        /\ overlogged' = overlogged \cup {e \in {d} : n > 0 /\ w \notin fresh}
    BY <2>2, <2>3, LogWritten DEF WriteLog
  <2>6. \A e \in Dates : logged[e] \in Nat
    BY TableFacts
  <2>. QED
    BY <2>3, <2>4, <2>5, <2>6, TicketConstants DEF LoggedWithinDay
<1>2. ASSUME NEW w \in Workers, NoteLog(w) PROVE LoggedWithinDay'
  BY <1>2 DEF NoteLog, LoggedWithinDay
<1>3. ASSUME UNCHANGED <<logged, overlogged>> PROVE LoggedWithinDay'
  BY <1>3 DEF LoggedWithinDay
<1>4. CASE NextDay \/ UNCHANGED vars
  BY <1>3, <1>4 DEF NextDay, vars, database, history
<1>. QED
  BY <1>1, <1>2, <1>3, <1>4, QuietSteps DEF Next

\* Nobody logs more than the limit on one date but by calls that validated at once.
THEOREM HoursWithinDay == Spec => []LoggedWithinDay
<1>1. Init => LoggedWithinDay
  BY TicketConstants DEF Init, LoggedWithinDay
<1>. QED
  BY <1>1, LoggedStep, FreshCorrect, TypeCorrect, PTL DEF Spec

----------------------------------------------------------------------------
(* Branches. *)

Alone(b) == \A c \in branches : c[1] = b[1] => c = b

\* A branch is that of its ticket's repository, or the only one of a ticket raised as merged, or it
\* is loose.
Tracked == \A b \in branches :
  \/ b[1] \in loose \cup raced
  \/ b[1] \in Ids /\ tickets[b[1]].repo = b[2]
  \/ b[1] \in Ids /\ tickets[b[1]].merged /\ Alone(b)

\* Of a ticket raised as merged there is one branch at most.
LEMMA MergedAlone ==
  ASSUME branches \subseteq ({0} \cup Ids) \X Repos, Tracked, NEW b \in branches,
         b[1] \notin loose \cup raced, tickets[b[1]].merged
  PROVE  Alone(b)
<1>1. SUFFICES ASSUME NEW c \in branches, c[1] = b[1] PROVE c = b
  BY DEF Alone
<1>2. b = <<b[1], b[2]>> /\ c = <<c[1], c[2]>>
  OBVIOUS
<1>3. CASE Alone(b) \/ Alone(c)
  BY <1>1, <1>3 DEF Alone
<1>4. CASE ~ Alone(b) /\ ~ Alone(c)
  BY <1>1, <1>2, <1>4 DEF Tracked
<1>. QED
  BY <1>3, <1>4

LEMMA TrackedStep == TypeOK /\ FreshInv /\ Tracked /\ [Next]_vars => Tracked'
<1>. SUFFICES ASSUME TypeOK, FreshInv, Tracked, [Next]_vars PROVE Tracked'
  OBVIOUS
<1>0. branches \subseteq ({0} \cup Ids) \X Repos
  BY DEF TypeOK, TablesOK
<1>1. ASSUME NEW w \in Workers, CreateTicket(w) PROVE Tracked'
  <2>1. PICK f \in Ticket, t \in Nat :
           /\ f = work[w].form /\ t = Len(tickets) + 1
           /\ Ids' = Ids \cup {t} /\ t \notin Ids
           /\ \A x \in Ids : tickets'[x] = tickets[x]
           /\ tickets'[t] = f
    BY <1>1, CreateWrites
  <2>2. PICK ok \in BOOLEAN : branches' = branches \cup {b \in {<<t, f.repo>>} : ok /\ f.repo # NoRepo}
    BY <1>1, <2>1 DEF CreateTicket
  <2>3. ASSUME NEW b \in branches', b[1] \notin loose' \cup raced'
        PROVE  \/ b[1] \in Ids' /\ tickets'[b[1]].repo = b[2]
               \/ b[1] \in Ids' /\ tickets'[b[1]].merged /\ Alone(b)'
    <3>1. CASE b \in branches
      <4>1. b[1] # t
        BY <1>0, <2>1, <2>3, <3>1, RacedStays DEF Tracked
      <4>2. Alone(b) => Alone(b)'
        BY <2>2, <4>1 DEF Alone
      <4>. QED
        BY <2>1, <2>3, <3>1, <4>2, RacedStays DEF Tracked
    <3>2. CASE b = <<t, f.repo>>
      BY <2>1, <3>2
    <3>. QED
      BY <2>2, <2>3, <3>1, <3>2
  <2>. QED
    BY <2>3 DEF Tracked
<1>2. ASSUME NEW w \in Workers, UpdateTicket(w) PROVE Tracked'
  <2>1. PICK f, x, t : Written(w, f, x, t)
    BY <1>2, UpdateWrites
  <2>2. PICK done \in Outcomes(w) :
          /\ branches' = Branches(w, done)
          /\ loose' = loose \cup {y \in {t} : done.delete # Deletes(w) \/ done.make # Makes(w)}
          /\ raced' = raced \cup {y \in {t} : w \notin fresh}
    BY <1>2, <2>1 DEF UpdateTicket, Wrote, Written
  <2>3. ASSUME NEW b \in branches', b[1] \notin loose' \cup raced'
        PROVE  \/ b[1] \in Ids' /\ tickets'[b[1]].repo = b[2]
               \/ b[1] \in Ids' /\ tickets'[b[1]].merged /\ Alone(b)'
    <3>1. \A c \in branches' :
            \/ c \in branches /\ (done.delete => c # <<t, work[w].read.repo>>)
            \/ done.make /\ c = <<t, f.repo>>
      <4>. SUFFICES ASSUME NEW c \in branches'
                    PROVE  \/ c \in branches /\ (done.delete => c # <<t, work[w].read.repo>>)
                           \/ done.make /\ c = <<t, f.repo>>
        OBVIOUS
      <4>1. work[w].id = t /\ work[w].form = f
        BY <2>1 DEF Written
      <4>2. c \in (branches \ (IF done.delete THEN {<<t, work[w].read.repo>>} ELSE {}))
                   \cup (IF done.make THEN {<<t, f.repo>>} ELSE {})
        BY <2>2, <4>1 DEF Branches
      <4>3. CASE c \in (IF done.make THEN {<<t, f.repo>>} ELSE {})
        BY <4>3
      <4>4. CASE c \in branches \ (IF done.delete THEN {<<t, work[w].read.repo>>} ELSE {})
        BY <4>4
      <4>. QED
        BY <4>2, <4>3, <4>4
    <3>2. CASE b = <<t, f.repo>>
      BY <2>1, <3>2 DEF Written
    <3>3. CASE b \in branches /\ b[1] # t
      <4>1. Alone(b) => Alone(b)'
        BY <3>1, <3>3 DEF Alone
      <4>. QED
        BY <2>1, <2>3, <3>3, <4>1, RacedStays DEF Tracked, Written
    <3>4. CASE b \in branches /\ b[1] = t /\ (done.delete => b # <<t, work[w].read.repo>>)
      <4>1. w \in fresh /\ done.delete = Deletes(w) /\ done.make = Makes(w)
        BY <2>2, <2>3, <3>4
      <4>2. work[w].read = tickets[t] /\ work[w].form = f /\ f.merged = tickets[t].merged
        BY <1>2, <2>1, <4>1 DEF FreshInv, StillValid, Updated, UpdateTicket, Written
      <4>3. CASE tickets[t].merged
        <5>1. ~ done.make
          BY <4>1, <4>2, <4>3 DEF Makes
        <5>2. Alone(b)
          BY <1>0, <2>3, <3>4, <4>3, MergedAlone, RacedStays
        <5>3. Alone(b)'
          BY <3>1, <5>1, <5>2 DEF Alone
        <5>. QED
          BY <2>1, <3>4, <4>2, <4>3, <5>3 DEF Written
      <4>4. CASE ~ tickets[t].merged
        <5>1. tickets[t].repo = b[2] /\ b[2] \in Repos /\ b = <<t, b[2]>>
          BY <1>0, <2>3, <3>4, <4>4, RacedStays DEF Tracked
        <5>2. ~ Deletes(w)
          BY <3>4, <4>1, <4>2, <5>1
        <5>3. f.repo = b[2]
          BY <4>2, <4>4, <5>1, <5>2, TicketConstants DEF Deletes
        <5>. QED
          BY <2>1, <3>4, <5>3 DEF Written
      <4>. QED
        BY <4>3, <4>4
    <3>. QED
      BY <2>3, <3>1, <3>2, <3>3, <3>4
  <2>. QED
    BY <2>3 DEF Tracked
<1>3. ASSUME NEW w \in Workers, UndoCreate(w) PROVE Tracked'
  <2>1. /\ branches' = branches \cup {b \in {<<0, work[w].form.repo>>} : work[w].form.repo # NoRepo}
        /\ 0 \in loose' /\ tickets' = tickets
    BY <1>3 DEF UndoCreate, database
  <2>2. \A b \in branches : b[1] # 0 /\ Alone(b) => Alone(b)'
    BY <2>1 DEF Alone
  <2>3. \A b \in branches' : b \in branches \/ b[1] = 0
    BY <2>1
  <2>. QED
    BY <2>1, <2>2, <2>3, RacedStays DEF Tracked, Ids
<1>4. ASSUME NEW w \in Workers, UndoUpdate(w) PROVE Tracked'
  <2>1. PICK done \in Outcomes(w) : branches' = Branches(w, done)
    BY <1>4 DEF UndoUpdate
  <2>2. work[w].id \in loose' /\ tickets' = tickets
    BY <1>4 DEF UndoUpdate, database
  <2>3. \A b \in branches' : b \in branches \/ b = <<work[w].id, work[w].form.repo>>
    BY <2>1 DEF Branches
  <2>4. \A b \in branches : b[1] # work[w].id /\ Alone(b) => Alone(b)'
    BY <2>3 DEF Alone
  <2>. QED
    BY <2>2, <2>3, <2>4, RacedStays DEF Tracked, Ids
<1>5. ASSUME UNCHANGED <<tickets, branches>> PROVE Tracked'
  BY <1>5, RacedStays DEF Tracked, Alone, Ids
<1>6. ASSUME NEW w \in Workers, AskCreate(w) \/ AskUpdate(w) \/ AskLog(w) \/ NoteLog(w) \/ SaveLog(w) \/ Die(w)
      PROVE  UNCHANGED <<tickets, branches>>
  BY <1>6 DEF AskCreate, AskUpdate, AskLog, NoteLog, SaveLog, Die, Start, database
<1>7. CASE NextDay \/ UNCHANGED vars
  BY <1>5, <1>7 DEF NextDay, vars, database
<1>. QED
  BY <1>1, <1>2, <1>3, <1>4, <1>5, <1>6, <1>7 DEF Next

\* No branch is left in a repository its ticket is not in, unless GitLab failed, a transaction was
\* undone after GitLab was called, or updates crossed; one that is left by a ticket raised as
\* already merged is its only one.
THEOREM BranchesTracked == Spec => []BranchTracked
<1>1. Init => Tracked
  BY DEF Init, Tracked, Ids
<1>2. Tracked => BranchTracked
  BY DEF Tracked, Alone, BranchTracked
<1>. QED
  BY <1>1, <1>2, TrackedStep, FreshCorrect, TypeCorrect, PTL DEF Spec

----------------------------------------------------------------------------
(* Parents and sub-tickets. *)

\* Child and parent, by their statuses.
Ordered(child, parent) == KeepsUp(child, parent) \/ (child = "New" /\ parent \notin Closed)

InOrder(c, p) == Ordered(tickets[c].status, tickets[p].status) \/ {c, p} \cap raced # {}

\* Under a closed ticket there are only closed ones.
LEMMA UnderClosed ==
  ASSUME NEW child, NEW parent \in Closed, Ordered(child, parent)
  PROVE  child \in Closed
BY DEF Ordered, KeepsUp

\* A closed ticket can only be reopened.
LEMMA FromClosed ==
  ASSUME NEW s \in Closed
  PROVE  "New" \notin MovesFrom(s)
BY DEF MovesFrom, Closed, Begun

\* A fresh update keeps the ticket in order with the parent it had or gets.
LEMMA UpdateUnderParent ==
  ASSUME TypeOK, ChildrenKeepUp, NEW c, Updated(c), c.form.parent \in Ids,
         {c.id, c.form.parent} \cap raced = {}
  PROVE  Ordered(c.form.status, tickets[c.form.parent].status)
<1>. DEFINE p == c.form.parent
            s == c.form.status
<1>1. p # 0 /\ ParentAllows(p, s)
  BY TableFacts DEF Updated
<1>2. CASE KeepsUp(s, tickets[p].status)
  BY <1>2 DEF Ordered
<1>3. CASE s = "New"
  <2>1. CASE p # c.read.parent
    BY <1>3, <2>1 DEF Updated, Ordered
  <2>2. CASE p = c.read.parent
    <3>1. c.id \in Ids /\ tickets[c.id].parent = p /\ "New" \in MovesFrom(tickets[c.id].status)
      BY <1>3, <2>2 DEF Updated
    <3>2. Ordered(tickets[c.id].status, tickets[p].status)
      BY <1>1, <3>1 DEF ChildrenKeepUp, Ordered
    <3>3. tickets[p].status \notin Closed
      BY <3>1, <3>2, UnderClosed, FromClosed
    <3>. QED
      BY <1>3, <3>3 DEF Ordered
  <2>. QED
    BY <2>1, <2>2
<1>. QED
  BY <1>1, <1>2, <1>3 DEF ParentAllows

LEMMA OrderStep == TypeOK /\ FreshInv /\ ChildrenKeepUp /\ [Next]_vars => ChildrenKeepUp'
<1>. SUFFICES ASSUME TypeOK, FreshInv, ChildrenKeepUp, [Next]_vars PROVE ChildrenKeepUp'
  OBVIOUS
<1>0. \A t \in Ids : tickets[t].parent \in ({0} \cup Ids) \ {t} /\ t # 0
  BY TableFacts DEF TypeOK, TablesOK
<1>a. \A t \in Ids : tickets[t].parent # 0 => InOrder(t, tickets[t].parent)
  BY DEF ChildrenKeepUp, InOrder, Ordered
<1>1. ASSUME NEW w \in Workers, CreateTicket(w) PROVE ChildrenKeepUp'
  <2>1. PICK f \in Ticket, t \in Nat :
           /\ f = work[w].form /\ t = Len(tickets) + 1
           /\ f.parent \in {0} \cup Ids
           /\ Ids' = Ids \cup {t} /\ t \notin Ids /\ t # 0
           /\ \A x \in Ids : tickets'[x] = tickets[x]
           /\ tickets'[t] = f
    BY <1>1, CreateWrites
  <2>2. work[w].at = "create" /\ raced' = raced \cup {x \in {t} : w \notin fresh}
    BY <1>1, <2>1 DEF CreateTicket, Wrote
  <2>3. ASSUME NEW c \in Ids', NEW p, p = tickets'[c].parent, p # 0
        PROVE  Ordered(tickets'[c].status, tickets'[p].status) \/ {c, p} \cap raced' # {}
    <3>1. CASE c \in Ids
      <4>1. tickets'[c] = tickets[c] /\ p \in Ids /\ tickets'[p] = tickets[p]
        BY <1>0, <2>1, <2>3, <3>1
      <4>2. InOrder(c, p)
        BY <1>a, <2>3, <3>1, <4>1
      <4>. QED
        BY <2>2, <4>1, <4>2 DEF InOrder
    <3>2. CASE c = t /\ w \in fresh
      <4>1. Created(work[w])
        BY <2>2, <3>2 DEF FreshInv, StillValid
      <4>2. f.status = "New" /\ p = f.parent /\ p \in Ids /\ tickets[p].status \notin Closed
        BY <2>1, <2>3, <3>2, <4>1 DEF Created
      <4>. QED
        BY <2>1, <3>2, <4>2 DEF Ordered
    <3>3. CASE c = t /\ w \notin fresh
      BY <2>2, <3>3
    <3>. QED
      BY <2>1, <3>1, <3>2, <3>3
  <2>. QED
    BY <2>3 DEF ChildrenKeepUp, Ordered
<1>2. ASSUME NEW w \in Workers, UpdateTicket(w) PROVE ChildrenKeepUp'
  <2>1. PICK f, x, t : Written(w, f, x, t)
    BY <1>2, UpdateWrites
  <2>2. work[w].at = "update" /\ raced' = raced \cup {y \in {t} : w \notin fresh}
    BY <1>2, <2>1 DEF UpdateTicket, Wrote, Written
  <2>3. ASSUME NEW c \in Ids', NEW p, p = tickets'[c].parent, p # 0
        PROVE  Ordered(tickets'[c].status, tickets'[p].status) \/ {c, p} \cap raced' # {}
    <3>1. c \in Ids /\ Ids' = Ids
      BY <2>1 DEF Written
    <3>2. CASE t \in {c, p} /\ w \notin fresh
      BY <2>2, <3>2
    <3>3. CASE c # t /\ p # t
      <4>1. tickets'[c] = tickets[c] /\ p \in Ids /\ tickets'[p] = tickets[p]
        BY <1>0, <2>1, <2>3, <3>1, <3>3 DEF Written
      <4>2. InOrder(c, p)
        BY <1>a, <2>3, <3>1, <4>1
      <4>. QED
        BY <2>2, <4>1, <4>2 DEF InOrder
    <3>4. CASE c # t /\ p = t /\ w \in fresh
      <4>1. Updated(work[w]) /\ work[w].id = t /\ work[w].form = f
        BY <2>1, <2>2, <3>4 DEF FreshInv, StillValid, Written
      <4>2. tickets'[c] = tickets[c] /\ c \in Children(t)
        BY <2>1, <2>3, <3>1, <3>4 DEF Written, Children
      <4>3. KeepsUp(tickets[c].status, f.status)
        BY <4>1, <4>2 DEF Updated, ChildrenAllow
      <4>4. tickets'[p].status = f.status
        BY <2>1, <3>4 DEF Written
      <4>. QED
        BY <4>2, <4>3, <4>4 DEF Ordered
    <3>5. CASE c = t /\ w \in fresh
      <4>1. Updated(work[w]) /\ work[w].id = t /\ work[w].form = f
        BY <2>1, <2>2, <3>5 DEF FreshInv, StillValid, Written
      <4>2. p = f.parent /\ p \in Ids \ {t} /\ tickets'[p] = tickets[p] /\ tickets'[t].status = f.status
        BY <1>0, <2>1, <2>3, <3>5, <4>1 DEF Written, Updated
      <4>3. {t, p} \cap raced = {} => Ordered(f.status, tickets[p].status)
        BY <4>1, <4>2, UpdateUnderParent
      <4>. QED
        BY <2>2, <3>5, <4>2, <4>3
    <3>. QED
      BY <3>2, <3>3, <3>4, <3>5
  <2>. QED
    BY <2>3 DEF ChildrenKeepUp, Ordered
<1>3. ASSUME tickets' = tickets PROVE ChildrenKeepUp'
  <2>1. ASSUME NEW c \in Ids', NEW p, p = tickets'[c].parent, p # 0
        PROVE  Ordered(tickets'[c].status, tickets'[p].status) \/ {c, p} \cap raced' # {}
    BY <1>3, <1>a, <2>1, RacedStays DEF InOrder, Ids
  <2>. QED
    BY <2>1 DEF ChildrenKeepUp, Ordered
<1>4. ASSUME NEW w \in Workers, NoteLog(w) \/ SaveLog(w) PROVE tickets' = tickets
  BY <1>4 DEF NoteLog, SaveLog
<1>5. CASE NextDay \/ UNCHANGED vars
  BY <1>3, <1>5 DEF NextDay, vars, database
<1>. QED
  BY <1>1, <1>2, <1>3, <1>4, <1>5, QuietSteps DEF Next

\* No parent is ahead of its sub-tickets, but for new ones under an open parent, unless one of the two
\* was written after its validation was outdated.
THEOREM ParentsNotAhead == Spec => []ChildrenKeepUp
<1>1. Init => ChildrenKeepUp
  BY DEF Init, ChildrenKeepUp, Ids
<1>. QED
  BY <1>1, OrderStep, FreshCorrect, TypeCorrect, PTL DEF Spec

----------------------------------------------------------------------------
(* No circles. *)

\* What a circle is in: tickets of which none is at the top.
Topless(C) == C # {} /\ \A c \in C : tickets[c].parent \in C

\* NoCycle by itself is not inductive: it finds the raced ticket below the circle, from where an update
\* may move it away.  It is on the circle; in other words, every set without a top has a raced ticket.
Grounded == \A C \in SUBSET Ids : Topless(C) => C \cap raced # {}

\* A ticket below t is t, or its parent is below t.
LEMMA ParentBelow ==
  ASSUME NEW t \in Ids, NEW x \in Below(t), x # t
  PROVE  tickets[x].parent \in Below(t)
<1>1. t \in Below(t) /\ Below(t) \in SUBSET Ids
  BY DEF Below
<1>2. \A c \in Ids : tickets[c].parent \in Below(t) => c \in Below(t)
  BY DEF Below
<1>3. SUFFICES ASSUME tickets[x].parent \notin Below(t) PROVE FALSE
  OBVIOUS
<1>4. PICK S : S = Below(t) \ {x}
  OBVIOUS
<1>5. S \in SUBSET Ids /\ t \in S /\ \A c \in Ids : tickets[c].parent \in S => c \in S
  BY <1>1, <1>2, <1>3, <1>4
<1>6. x \in S
  BY <1>5 DEF Below
<1>. QED
  BY <1>4, <1>6

LEMMA GroundedNoCycle == Grounded => NoCycle
<1>1. SUFFICES ASSUME Grounded, NEW t \in Ids, tickets[t].parent \in Below(t)
               PROVE  \E x \in Below(t) : x \in raced
  BY DEF NoCycle
<1>2. t \in Below(t) /\ Below(t) \in SUBSET Ids
  BY DEF Below
<1>3. Topless(Below(t))
  BY <1>1, <1>2, ParentBelow DEF Topless
<1>. QED
  BY <1>1, <1>2, <1>3 DEF Grounded

LEMMA GroundedStep == TypeOK /\ FreshInv /\ Grounded /\ [Next]_vars => Grounded'
<1>. SUFFICES ASSUME TypeOK, FreshInv, Grounded, [Next]_vars,
                     NEW C \in SUBSET Ids', C # {}, \A c \in C : tickets'[c].parent \in C
              PROVE  C \cap raced' # {}
  BY DEF Grounded, Topless
<1>0. \A t \in Ids : tickets[t].parent \in {0} \cup Ids
  BY DEF TypeOK, TablesOK
\* It is enough that some of C was without a top before.
<1>a. ASSUME NEW D \in SUBSET C, D \in SUBSET Ids, D # {}, \A c \in D : tickets[c].parent \in D
      PROVE  C \cap raced' # {}
  <2>1. D \cap raced # {}
    BY <1>a DEF Grounded, Topless
  <2>. QED
    BY <2>1, RacedStays
<1>1. CASE tickets' = tickets
  BY <1>1, <1>a DEF Ids
<1>2. ASSUME NEW w \in Workers, CreateTicket(w) PROVE C \cap raced' # {}
  <2>1. PICK f \in Ticket, t \in Nat :
           /\ f.parent \in {0} \cup Ids
           /\ Ids' = Ids \cup {t} /\ t \notin Ids /\ t # 0
           /\ \A x \in Ids : tickets'[x] = tickets[x]
           /\ tickets'[t] = f
    BY <1>2, CreateWrites
  <2>2. \A c \in C : tickets'[c].parent # t
    BY <1>0, <2>1
  <2>3. C \ {t} \in SUBSET Ids /\ C \ {t} # {}
    BY <2>1, <2>2
  <2>4. \A c \in C \ {t} : tickets[c].parent \in C \ {t}
    BY <2>1, <2>2, <2>3
  <2>. QED
    BY <1>a, <2>3, <2>4
<1>3. ASSUME NEW w \in Workers, UpdateTicket(w) PROVE C \cap raced' # {}
  <2>1. PICK f, x, t : Written(w, f, x, t)
    BY <1>3, UpdateWrites
  <2>2. work[w].at = "update" /\ raced' = raced \cup {y \in {t} : w \notin fresh}
    BY <1>3, <2>1 DEF UpdateTicket, Wrote, Written
  <2>3. C \in SUBSET Ids /\ \A c \in C : c # t => tickets[c].parent \in C
    BY <2>1 DEF Written
  <2>4. CASE t \notin C \/ tickets[t].parent \in C
    BY <1>a, <2>3, <2>4
  <2>5. CASE t \in C /\ w \notin fresh
    BY <2>2, <2>5
  <2>6. CASE t \in C /\ w \in fresh /\ tickets[t].parent \notin C
    <3>1. Updated(work[w]) /\ work[w].id = t /\ work[w].form = f /\ tickets'[t].parent = x.parent
      BY <2>1, <2>2, <2>6 DEF FreshInv, StillValid, Written
    <3>2. x.parent \in C /\ x.parent \in Ids
      BY <2>3, <2>6, <3>1
    <3>3. x.parent = f.parent /\ f.parent # work[w].read.parent
      BY <2>1, <2>6, <3>2 DEF Written
    <3>4. f.parent \notin Below(t) /\ t \in Ids
      BY <2>3, <2>6, <3>1, <3>2, <3>3 DEF Updated
    <3>5. PICK S \in SUBSET Ids : /\ t \in S /\ f.parent \notin S
                                  /\ \A c \in Ids : tickets[c].parent \in S => c \in S
      BY <3>2, <3>3, <3>4 DEF Below
    <3>6. C \ S # {} /\ C \ S \in SUBSET Ids
      BY <2>3, <3>2, <3>3, <3>5
    <3>7. \A c \in C \ S : tickets[c].parent \in C \ S
      BY <2>3, <3>5
    <3>. QED
      BY <1>a, <3>6, <3>7
  <2>. QED
    BY <2>4, <2>5, <2>6
<1>4. ASSUME NEW w \in Workers, NoteLog(w) \/ SaveLog(w) PROVE tickets' = tickets
  BY <1>4 DEF NoteLog, SaveLog
<1>5. NextDay \/ UNCHANGED vars => tickets' = tickets
  BY DEF NextDay, vars, database
<1>. QED
  BY <1>1, <1>2, <1>3, <1>4, <1>5, QuietSteps DEF Next

\* Parents never form a circle, unless one of its tickets was written after what the update had
\* validated was outdated.
THEOREM NeverCircular == Spec => []NoCycle
<1>1. Init => Grounded
  <2>1. Init => \A t \in Ids : tickets[t].parent \notin Ids
    <3>1. ASSUME Init PROVE \A t \in Ids : tickets[t].parent = 0
      BY <3>1 DEF Init, Ids
    <3>2. ASSUME Init PROVE 0 \notin Ids
      BY <3>2, TypeInit, TableFacts
    <3>. QED
      BY <3>1, <3>2
  <2>. QED
    BY <2>1 DEF Grounded, Topless
<1>. QED
  BY <1>1, GroundedNoCycle, GroundedStep, FreshCorrect, TypeCorrect, PTL DEF Spec
=============================================================================
