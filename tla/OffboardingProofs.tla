-------------------------- MODULE OffboardingProofs --------------------------
(***************************************************************************)
(* Proofs about Offboarding, for any number of employees, departments,     *)
(* workers and calls: type correctness, that a signature on an exit form   *)
(* stays, that a completed request is of an employee without access, that  *)
(* nobody loses access without grounds, that nobody has two resignations,  *)
(* and that every timesheet is kept once.                                  *)
(*                                                                         *)
(* Access needs invariants of the queue: the id of a message is that of a  *)
(* request of its employee, or of an exit form of his that was taken for   *)
(* one (Addressed), and what the message was sent for still holds, or was  *)
(* decided on since (Grounded).  Resignations need that the answer a call  *)
(* read is still true when it writes, unless it was overtaken              *)
(* (FreshEligible), and timesheets that what a task read is in the table   *)
(* until that task archives it (TasksRead).                                *)
(***************************************************************************)
EXTENDS Offboarding, SequenceTheorems, FiniteSetTheorems, TLAPS

----------------------------------------------------------------------------
(* Type correctness. *)

LEMMA IdleType == Idle \in [at : Steps, id : Nat, emp : Staff, by : Departments, due : Dates,
                            now : BOOLEAN, read : SUBSET Departments]
<1>1. (CHOOSE e \in Staff : TRUE) \in Staff
  BY OffboardingConstants
<1>. QED
  BY <1>1, OffboardingConstants DEF Idle, Steps, Dates

LEMMA FreeType == Free \in [busy : BOOLEAN, emp : Staff, id : Nat,
                            read : SUBSET (Staff \X (1 .. MaxSheets))]
<1>1. (CHOOSE e \in Staff : TRUE) \in Staff
  BY OffboardingConstants
<1>. QED
  BY <1>1 DEF Free

LEMMA TypeInit == Init => TypeOK
<1>. SUFFICES ASSUME Init PROVE TypeOK
  OBVIOUS
<1>1. TablesOK
  BY OffboardingConstants, BeforeAssumption DEF Init, TablesOK, Dates
<1>2. CallsOK
  BY IdleType, OffboardingConstants DEF Init, CallsOK, Idle
<1>3. QueueOK
  BY FreeType DEF Init, QueueOK
<1>. QED
  BY <1>1, <1>2, <1>3 DEF TypeOK

\* A table of which a row is changed keeps its type and its rows.
LEMMA RowChanged ==
  ASSUME NEW Row, NEW table \in Seq(Row), NEW r \in DOMAIN table, NEW x \in Row
  PROVE  /\ [table EXCEPT ![r] = x] \in Seq(Row)
         /\ DOMAIN [table EXCEPT ![r] = x] = DOMAIN table
         /\ \A i \in DOMAIN table : [table EXCEPT ![r] = x][i] = IF i = r THEN x ELSE table[i]
<1>1. table \in [1 .. Len(table) -> Row] /\ Len(table) \in Nat
  OBVIOUS
<1>2. [table EXCEPT ![r] = x] \in [1 .. Len(table) -> Row]
  BY <1>1
<1>. QED
  BY <1>1, <1>2

\* The sheets stay as they are.
LEMMA SheetsSame ==
  ASSUME TablesOK, UNCHANGED <<saved, sheets>>
  PROVE  sheets' \subseteq {s \in Staff \X (1 .. MaxSheets) : s[2] <= saved'[s[1]]}
BY DEF TablesOK

\* Every step keeps the tables well typed.
LEMMA TablesStep == TypeOK /\ [Next]_vars => TablesOK'
<1>. SUFFICES ASSUME TypeOK, [Next]_vars PROVE TablesOK'
  OBVIOUS
<1>. USE DEF TypeOK, TablesOK
<1>0. \A r \in DOMAIN requests : requests[r] \in RequestRow /\ r \in Nat
  OBVIOUS
<1>1. ASSUME NEW w \in Web, Resign(w) \/ Terminate(w) PROVE TablesOK'
  <2>1. work[w].emp \in Staff /\ work[w].due \in Dates /\ LastDate \in Dates
    BY OffboardingConstants DEF CallsOK, Dates
  <2>2. PICK x \in RequestRow : requests' = Append(requests, x)
    BY <1>1, <2>1 DEF Resign, Terminate, Request, RequestRow, Statuses, OPEN
  <2>3. requests' \in Seq(RequestRow)
    BY <2>2
  <2>4. UNCHANGED <<today, forms, active, saved, sheets, archive>>
    BY <1>1 DEF Resign, Terminate, Turn
  <2>. QED
    BY <2>3, <2>4, SheetsSame
<1>2. ASSUME NEW w \in Web, Decide(w) PROVE TablesOK'
  <2>1. PICK r \in DOMAIN requests, s \in Statuses, due \in Dates :
          requests' = [requests EXCEPT ![r].status = s,
                                       ![r].due = IF s = "Cancelled" THEN @ ELSE due]
    BY ZenonT(60), <1>2 DEF Decide
  <2>. DEFINE x == [requests[r] EXCEPT !.status = s,
                                       !.due = IF s = "Cancelled" THEN @ ELSE due]
  <2>2. x \in RequestRow
    BY <1>0, <2>1 DEF RequestRow
  <2>3. requests' = [requests EXCEPT ![r] = x]
    BY <1>0, <2>1 DEF RequestRow
  <2>4. requests' \in Seq(RequestRow)
    BY <2>2, <2>3, RowChanged
  <2>5. UNCHANGED <<today, forms, active, saved, sheets, archive>>
    BY <1>2 DEF Decide
  <2>. QED
    BY <2>4, <2>5, SheetsSame
<1>3. ASSUME NEW w \in Web, MarkInitiated(w) PROVE TablesOK'
  <2>. DEFINE r == work[w].id
              x == [requests[r] EXCEPT !.status = "Initiated"]
  <2>1. r \in DOMAIN requests
    BY <1>3 DEF MarkInitiated, CallsOK
  <2>2. x \in RequestRow
    BY <1>0, <2>1 DEF RequestRow, Statuses, OPEN
  <2>3. requests' = [requests EXCEPT ![r] = x]
    BY <1>3 DEF MarkInitiated
  <2>4. requests' \in Seq(RequestRow)
    BY <2>1, <2>2, <2>3, RowChanged
  <2>5. UNCHANGED <<today, forms, active, saved, sheets, archive>>
    BY <1>3 DEF MarkInitiated, Turn
  <2>. QED
    BY <2>4, <2>5, SheetsSame
<1>4. ASSUME NEW w \in Web, Initiate(w) PROVE TablesOK'
  <2>1. PICK r \in DOMAIN requests :
          forms' = Append(forms, [request |-> r, emp |-> requests[r].emp, signed |-> {}])
    BY <1>4 DEF Initiate
  <2>2. [request |-> r, emp |-> requests[r].emp, signed |-> {}] \in FormRow
    BY <1>0, <2>1 DEF FormRow, RequestRow
  <2>3. forms' \in Seq(FormRow)
    BY <2>1, <2>2
  <2>4. UNCHANGED <<today, requests, active, saved, sheets, archive>>
    BY <1>4 DEF Initiate
  <2>. QED
    BY <2>3, <2>4, SheetsSame
<1>5. ASSUME NEW w \in Web, Sign(w) PROVE TablesOK'
  <2>. DEFINE f == work[w].id
              x == [forms[f] EXCEPT !.signed = Posted(w)]
  <2>1. f \in DOMAIN forms /\ Posted(w) \in SUBSET Departments
    BY <1>5 DEF Sign, CallsOK, Posted
  <2>2. forms[f] \in FormRow
    BY <2>1
  <2>3. x \in FormRow
    BY <2>1, <2>2 DEF FormRow
  <2>4. forms' = [forms EXCEPT ![f] = x]
    BY <1>5 DEF Sign
  <2>5. forms' \in Seq(FormRow)
    BY <2>1, <2>3, <2>4, RowChanged
  <2>6. UNCHANGED <<today, requests, active, saved, sheets, archive>>
    BY <1>5 DEF Sign, Turn
  <2>. QED
    BY <2>5, <2>6, SheetsSame
<1>6. ASSUME NEW w \in Web, Disable(w) PROVE TablesOK'
  BY <1>6 DEF Disable, Turn
<1>7. ASSUME NEW c \in Celery, Finish(c) PROVE TablesOK'
  <2>. DEFINE r == task[c].id
              x == [requests[r] EXCEPT !.status = "Completed"]
  <2>1. r \in DOMAIN requests => x \in RequestRow
    BY <1>0 DEF RequestRow, Statuses, OPEN
  <2>2. requests' = IF r \in DOMAIN requests THEN [requests EXCEPT ![r] = x] ELSE requests
    BY <1>7 DEF Finish
  <2>3. requests' \in Seq(RequestRow)
    BY <2>1, <2>2, RowChanged
  <2>4. active' \in [Staff -> BOOLEAN]
    BY <1>7 DEF Finish, Relieved
  <2>5. sheets' \subseteq sheets /\ UNCHANGED <<today, forms, saved>>
    BY <1>7 DEF Finish
  <2>6. archive' \in Seq(SUBSET (Staff \X (1 .. MaxSheets)))
    <3>1. task[c].read \in SUBSET (Staff \X (1 .. MaxSheets)) /\ archive' = Append(archive, task[c].read)
      BY <1>7 DEF Finish, Archived, QueueOK
    <3>. QED
      BY <3>1, AppendProperties
  <2>. QED
    BY <2>3, <2>4, <2>5, <2>6
<1>8. ASSUME NEW e \in Staff, SaveSheet(e) PROVE TablesOK'
  <2>1. saved[e] \in 0 .. MaxSheets /\ saved[e] + 1 \in 1 .. MaxSheets
    BY <1>8, OffboardingConstants DEF SaveSheet
  <2>2. /\ saved' = [saved EXCEPT ![e] = @ + 1]
        /\ sheets' = sheets \cup {<<e, saved'[e]>>}
    BY <1>8 DEF SaveSheet
  <2>3. saved' \in [Staff -> 0 .. MaxSheets] /\ saved'[e] = saved[e] + 1
    BY <2>1, <2>2
  <2>4. ASSUME NEW s \in sheets PROVE s \in Staff \X (1 .. MaxSheets) /\ s[2] <= saved'[s[1]]
    <3>1. s \in Staff \X (1 .. MaxSheets) /\ s[2] <= saved[s[1]]
      BY <2>4
    <3>2. saved[s[1]] <= saved'[s[1]]
      BY <2>1, <2>2, <3>1, OffboardingConstants
    <3>. QED
      BY <2>3, <3>1, <3>2, OffboardingConstants
  <2>5. sheets' \subseteq {s \in Staff \X (1 .. MaxSheets) : s[2] <= saved'[s[1]]}
    BY <2>1, <2>2, <2>3, <2>4, OffboardingConstants
  <2>. QED
    BY <1>8, <2>3, <2>5 DEF SaveSheet
<1>9. CASE Night
  BY <1>9, OffboardingConstants DEF Night, tables, Dates
<1>10. ASSUME NEW w \in Web, \/ AskResign(w) \/ AskTerminate(w) \/ AskSign(w) \/ EndProcess(w) \/ Die(w)
       PROVE  TablesOK'
  BY <1>10 DEF AskResign, AskTerminate, AskSign, EndProcess, Die, Ask, Turn, tables
<1>11. ASSUME NEW c \in Celery, Take(c) \/ Lose(c) PROVE TablesOK'
  BY <1>11 DEF Take, Lose, tables
<1>12. CASE UNCHANGED vars
  BY <1>12 DEF vars, tables
<1>. QED
  BY <1>1, <1>2, <1>3, <1>4, <1>5, <1>6, <1>7, <1>8, <1>9, <1>10, <1>11, <1>12 DEF Next

\* No row of requests or forms goes away.
LEMMA RowsStay ==
  ASSUME TypeOK, [Next]_vars
  PROVE  DOMAIN requests \subseteq DOMAIN requests' /\ DOMAIN forms \subseteq DOMAIN forms'
<1>. USE DEF TypeOK, TablesOK
<1>1. ASSUME NEW w \in Web, Resign(w) \/ Terminate(w)
      PROVE  DOMAIN requests \subseteq DOMAIN requests' /\ forms' = forms
  <2>1. work[w].emp \in Staff /\ work[w].due \in Dates /\ LastDate \in Dates
    BY OffboardingConstants DEF CallsOK, Dates
  <2>2. PICK x \in RequestRow : requests' = Append(requests, x)
    BY <1>1, <2>1 DEF Resign, Terminate, Request, RequestRow, Statuses, OPEN
  <2>3. forms' = forms
    BY <1>1 DEF Resign, Terminate
  <2>. QED
    BY <2>2, <2>3
<1>2. ASSUME NEW w \in Web, Initiate(w)
      PROVE  DOMAIN forms \subseteq DOMAIN forms' /\ requests' = requests
  <2>1. PICK r \in DOMAIN requests :
          forms' = Append(forms, [request |-> r, emp |-> requests[r].emp, signed |-> {}])
    BY <1>2 DEF Initiate
  <2>2. r \in Nat /\ requests[r] \in RequestRow
    BY <2>1
  <2>3. PICK x \in FormRow : forms' = Append(forms, x)
    BY <2>1, <2>2 DEF FormRow, RequestRow
  <2>4. requests' = requests
    BY <1>2 DEF Initiate
  <2>. QED
    BY <2>3, <2>4
<1>3. ASSUME NEW w \in Web, Decide(w)
      PROVE  DOMAIN requests = DOMAIN requests' /\ forms' = forms
  BY <1>3 DEF Decide
<1>4. ASSUME NEW w \in Web, MarkInitiated(w) \/ Sign(w)
      PROVE  DOMAIN requests = DOMAIN requests' /\ DOMAIN forms' = DOMAIN forms
  BY <1>4 DEF MarkInitiated, Sign
<1>5. ASSUME NEW c \in Celery, Finish(c)
      PROVE  DOMAIN requests = DOMAIN requests' /\ forms' = forms
  BY <1>5 DEF Finish
<1>6. ASSUME \/ \E w \in Web : \/ AskResign(w) \/ AskTerminate(w) \/ AskSign(w) \/ Disable(w)
                                \/ EndProcess(w) \/ Die(w)
             \/ Night
             \/ \E c \in Celery : Take(c) \/ Lose(c)
             \/ \E e \in Staff : SaveSheet(e)
             \/ UNCHANGED vars
      PROVE  requests' = requests /\ forms' = forms
  BY <1>6 DEF AskResign, AskTerminate, AskSign, Disable, EndProcess, Die, Night, Take, Lose,
              SaveSheet, Ask, Turn, tables, vars
<1>. QED
  BY <1>1, <1>2, <1>3, <1>4, <1>5, <1>6 DEF Next

CallRow == [at : Steps, id : Nat, emp : Staff, by : Departments, due : Dates, now : BOOLEAN,
            read : SUBSET Departments]

\* What a call must be to be one of a row that exists.
Sound(x) == /\ x \in CallRow
            /\ x.at = "initiated" => x.id \in DOMAIN requests
            /\ x.at \in {"sign", "end"} => x.id \in DOMAIN forms

LEMMA CallsAre == CallsOK <=> /\ work \in [Web -> CallRow]
                              /\ \A w \in Web : Sound(work[w])
                              /\ calls \in 0 .. MaxCalls /\ faults \in 0 .. MaxFaults
BY DEF CallsOK, Sound, CallRow

\* One worker goes on to a sound call; the others keep theirs.
LEMMA CallsTurn ==
  ASSUME TypeOK, [Next]_vars, NEW w \in Web, NEW x, work' = [work EXCEPT ![w] = x], Sound(x)',
         calls' \in 0 .. MaxCalls, faults' \in 0 .. MaxFaults
  PROVE  CallsOK'
<1>1. work \in [Web -> CallRow] /\ \A v \in Web : Sound(work[v])
  BY CallsAre DEF TypeOK
<1>2. x \in CallRow
  BY DEF Sound
<1>3. work' \in [Web -> CallRow]
  BY <1>1, <1>2
<1>4. ASSUME NEW v \in Web PROVE Sound(work[v])'
  <2>1. CASE v = w
    BY <1>1, <2>1 DEF Sound
  <2>2. CASE v # w
    <3>1. work'[v] = work[v] /\ Sound(work[v])
      BY <1>1, <2>2
    <3>2. DOMAIN requests \subseteq DOMAIN requests' /\ DOMAIN forms \subseteq DOMAIN forms'
      BY RowsStay
    <3>. QED
      BY <3>1, <3>2 DEF Sound
  <2>. QED
    BY <2>1, <2>2
<1>. QED
  BY <1>3, <1>4 DEF CallsOK, Sound, CallRow

LEMMA CallsStep == TypeOK /\ [Next]_vars => CallsOK'
<1>. SUFFICES ASSUME TypeOK, [Next]_vars PROVE CallsOK'
  OBVIOUS
<1>1. /\ work \in [Web -> CallRow] /\ \A v \in Web : Sound(work[v])
      /\ calls \in 0 .. MaxCalls /\ faults \in 0 .. MaxFaults
      /\ MaxCalls \in Nat /\ MaxFaults \in Nat
  BY CallsAre, OffboardingConstants DEF TypeOK
<1>2. Idle \in CallRow /\ Idle.at = "idle"
  BY IdleType DEF CallRow, Idle
<1>3. DOMAIN requests \subseteq DOMAIN requests' /\ DOMAIN forms \subseteq DOMAIN forms'
  BY RowsStay
<1>4. /\ \A r \in DOMAIN requests : r \in Nat
      /\ \A f \in DOMAIN forms : f \in Nat /\ forms[f] \in FormRow
  BY DEF TypeOK, TablesOK
<1>0. /\ calls < MaxCalls => calls + 1 \in 0 .. MaxCalls
      /\ faults < MaxFaults => faults + 1 \in 0 .. MaxFaults
  BY <1>1
<1>5. ASSUME NEW w \in Web, AskResign(w) PROVE CallsOK'
  <2>1. PICK e \in Staff : Ask(w, [Idle EXCEPT !.at = "resign", !.emp = e])
    BY <1>5 DEF AskResign
  <2>2. Sound([Idle EXCEPT !.at = "resign", !.emp = e])'
    BY <1>2 DEF Sound, CallRow, Steps
  <2>. QED
    BY <1>0, <1>1, <2>1, <2>2, CallsTurn DEF Ask
<1>6. ASSUME NEW w \in Web, AskTerminate(w) PROVE CallsOK'
  <2>1. PICK e \in Staff, due \in Dates, now \in BOOLEAN :
          Ask(w, [Idle EXCEPT !.at = "terminate", !.emp = e, !.due = due, !.now = now])
    BY <1>6 DEF AskTerminate
  <2>2. Sound([Idle EXCEPT !.at = "terminate", !.emp = e, !.due = due, !.now = now])'
    BY <1>2 DEF Sound, CallRow, Steps
  <2>. QED
    BY <1>0, <1>1, <2>1, <2>2, CallsTurn DEF Ask
<1>7. ASSUME NEW w \in Web, AskSign(w) PROVE CallsOK'
  <2>1. PICK f \in DOMAIN forms, d \in Departments :
          Ask(w, [Idle EXCEPT !.at = "sign", !.id = f, !.by = d, !.read = forms[f].signed])
    BY <1>7 DEF AskSign
  <2>2. PICK S \in SUBSET Departments : S = forms[f].signed
    BY <1>4, <2>1 DEF FormRow
  <2>3. f \in Nat /\ f \in DOMAIN forms'
    BY <1>3, <1>4, <2>1
  <2>4. [Idle EXCEPT !.at = "sign", !.id = f, !.by = d, !.read = S] \in CallRow
    BY <1>2, <2>3 DEF CallRow, Steps
  <2>5. Sound([Idle EXCEPT !.at = "sign", !.id = f, !.by = d, !.read = S])'
    BY <1>2, <2>3, <2>4 DEF Sound, CallRow
  <2>. QED
    BY <1>0, <1>1, <2>1, <2>2, <2>5, CallsTurn DEF Ask
<1>8. ASSUME NEW w \in Web, \/ Resign(w) \/ Disable(w) \/ MarkInitiated(w) \/ EndProcess(w)
      PROVE  CallsOK'
  <2>1. work' = [work EXCEPT ![w] = Idle] /\ calls' = calls /\ faults' = faults
    BY <1>8 DEF Resign, Disable, MarkInitiated, EndProcess, Turn
  <2>2. Sound(Idle)'
    BY <1>2 DEF Sound, Steps
  <2>. QED
    BY <1>1, <2>1, <2>2, CallsTurn
<1>9. ASSUME NEW w \in Web, Terminate(w) PROVE CallsOK'
  <2>1. PICK x \in {Idle, [work[w] EXCEPT !.at = "disable"]} : work' = [work EXCEPT ![w] = x]
    BY <1>9 DEF Terminate, Turn
  <2>2. Sound(x)'
    BY <1>1, <1>2, <2>1 DEF Sound, CallRow, Steps
  <2>. QED
    BY <1>1, <1>9, <2>1, <2>2, CallsTurn DEF Terminate, Turn
<1>10. ASSUME NEW w \in Web, Sign(w) PROVE CallsOK'
  <2>1. PICK x \in {Idle, [work[w] EXCEPT !.at = "end"]} : work' = [work EXCEPT ![w] = x]
    BY <1>10 DEF Sign, Turn
  <2>2. work[w].at = "sign"
    BY <1>10 DEF Sign
  <2>3. Sound(x)'
    BY <1>1, <1>2, <1>3, <2>1, <2>2 DEF Sound, CallRow, Steps
  <2>. QED
    BY <1>1, <1>10, <2>1, <2>3, CallsTurn DEF Sign, Turn
<1>11. ASSUME NEW w \in Web, Initiate(w) PROVE CallsOK'
  <2>1. PICK r \in DOMAIN requests :
          work' = [work EXCEPT ![w] = [Idle EXCEPT !.at = "initiated", !.id = r]]
    BY <1>11 DEF Initiate
  <2>2. Sound([Idle EXCEPT !.at = "initiated", !.id = r])'
    BY <1>2, <1>3, <1>4, <2>1 DEF Sound, CallRow, Steps
  <2>. QED
    BY ZenonT(60), <1>0, <1>1, <1>11, <2>1, <2>2, CallsTurn DEF Initiate
<1>12. ASSUME NEW w \in Web, Die(w) PROVE CallsOK'
  <2>1. work' = [work EXCEPT ![w] = Idle]
    BY <1>12 DEF Die, Turn
  <2>2. Sound(Idle)'
    BY <1>2 DEF Sound, Steps
  <2>. QED
    BY <1>0, <1>1, <1>12, <2>1, <2>2, CallsTurn DEF Die, Turn
<1>13. ASSUME work' = work, calls' \in 0 .. MaxCalls, faults' \in 0 .. MaxFaults PROVE CallsOK'
  BY <1>1, <1>3, <1>13 DEF CallsOK, Sound, CallRow
<1>14. ASSUME NEW w \in Web, Decide(w) PROVE CallsOK'
  BY <1>1, <1>13, <1>14 DEF Decide
<1>15. CASE Night \/ UNCHANGED vars
  BY <1>1, <1>13, <1>15 DEF Night, vars
<1>16. ASSUME NEW c \in Celery, Take(c) \/ Finish(c) \/ Lose(c) PROVE CallsOK'
  BY <1>1, <1>13, <1>16 DEF Take, Finish, Lose
<1>17. ASSUME NEW e \in Staff, SaveSheet(e) PROVE CallsOK'
  BY <1>1, <1>13, <1>17 DEF SaveSheet
<1>. QED
  BY <1>5, <1>6, <1>7, <1>8, <1>9, <1>10, <1>11, <1>12, <1>14, <1>15, <1>16, <1>17 DEF Next

LEMMA QueueStep == TypeOK /\ [Next]_vars => QueueOK'
<1>. SUFFICES ASSUME TypeOK, [Next]_vars PROVE QueueOK'
  OBVIOUS
<1>. USE DEF TypeOK, QueueOK
<1>1. /\ \A r \in DOMAIN requests : r \in Nat /\ requests[r].emp \in Staff
      /\ \A f \in DOMAIN forms : f \in Nat /\ forms[f].emp \in Staff
  <2>1. /\ \A r \in DOMAIN requests : r \in Nat /\ requests[r] \in RequestRow
        /\ \A f \in DOMAIN forms : f \in Nat /\ forms[f] \in FormRow
    BY DEF TablesOK
  <2>. QED
    BY <2>1 DEF RequestRow, FormRow
<1>2. ASSUME NEW w \in Web, EndProcess(w) PROVE QueueOK'
  <2>1. work[w].id \in DOMAIN forms
    BY <1>2 DEF EndProcess, CallsOK
  <2>. QED
    BY <1>1, <1>2, <2>1 DEF EndProcess, Turn
<1>3. CASE Night
  BY <1>1, <1>3 DEF Night
<1>4. ASSUME NEW c \in Celery, Take(c) PROVE QueueOK'
  <2>1. PICK m \in queue :
          /\ queue' = queue \ {m}
          /\ task' = [task EXCEPT ![c] = [busy |-> TRUE, emp |-> m[1], id |-> m[2],
                                          read |-> SheetsOf(m[1])]]
    BY <1>4 DEF Take
  <2>2. SheetsOf(m[1]) \in SUBSET (Staff \X (1 .. MaxSheets))
    BY DEF SheetsOf, TablesOK
  <2>3. m[1] \in Staff /\ m[2] \in Nat
    BY <2>1
  <2>. QED
    BY <2>1, <2>2, <2>3
<1>5. ASSUME NEW c \in Celery, Finish(c) \/ Lose(c) PROVE QueueOK'
  BY <1>5, FreeType DEF Finish, Lose
<1>6. ASSUME NEW w \in Web,
             \/ AskResign(w) \/ Resign(w) \/ Decide(w) \/ AskTerminate(w) \/ Terminate(w)
             \/ Disable(w) \/ Initiate(w) \/ MarkInitiated(w) \/ AskSign(w) \/ Sign(w) \/ Die(w)
      PROVE  QueueOK'
  BY <1>6 DEF AskResign, Resign, Decide, AskTerminate, Terminate, Disable, Initiate,
              MarkInitiated, AskSign, Sign, Die, Ask, Turn
<1>7. ASSUME NEW e \in Staff, SaveSheet(e) PROVE QueueOK'
  BY <1>7 DEF SaveSheet
<1>8. CASE UNCHANGED vars
  BY <1>8 DEF vars
<1>. QED
  BY <1>2, <1>3, <1>4, <1>5, <1>6, <1>7, <1>8 DEF Next

LEMMA TypeStep == TypeOK /\ [Next]_vars => TypeOK'
BY TablesStep, CallsStep, QueueStep DEF TypeOK

\* The tables, calls and messages of offboarding keep their types, and no call is about a row that
\* does not exist, for any number of employees, workers and calls.
THEOREM TypeCorrect == Spec => []TypeOK
BY TypeInit, TypeStep, PTL DEF Spec

----------------------------------------------------------------------------
(* The exit form. *)

\* Only Sign and Initiate write exit forms, and the second only a new one.
LEMMA SignStep ==
  TypeOK /\ [Next]_vars =>
    \A f \in DOMAIN forms :
      \/ forms[f].signed \subseteq forms'[f].signed
      \/ \E w \in Web : work[w].at = "sign" /\ work[w].id = f /\ work[w].read # forms[f].signed
<1>. SUFFICES ASSUME TypeOK, [Next]_vars, NEW f \in DOMAIN forms,
                     \A w \in Web : work[w].at = "sign" /\ work[w].id = f => work[w].read = forms[f].signed
              PROVE  forms[f].signed \subseteq forms'[f].signed
  OBVIOUS
<1>1. forms \in Seq(FormRow)
  BY DEF TypeOK, TablesOK
<1>2. ASSUME NEW w \in Web, Sign(w) PROVE forms[f].signed \subseteq forms'[f].signed
  <2>1. forms' = [forms EXCEPT ![work[w].id].signed = Posted(w)]
    BY <1>2 DEF Sign
  <2>2. CASE work[w].id = f
    <3>0. forms[f] \in FormRow
      BY <1>1
    <3>1. forms'[f].signed = Posted(w)
      BY <3>0, <2>1, <2>2 DEF FormRow
    <3>2. work[w].read = forms[f].signed
      BY <1>2, <2>2 DEF Sign
    <3>. QED
      BY <3>1, <3>2 DEF Posted
  <2>3. CASE work[w].id # f
    BY <2>1, <2>3
  <2>. QED
    BY <2>2, <2>3
<1>3. ASSUME NEW w \in Web, Initiate(w) PROVE forms'[f] = forms[f]
  <2>1. PICK r \in DOMAIN requests :
          forms' = Append(forms, [request |-> r, emp |-> requests[r].emp, signed |-> {}])
    BY <1>3 DEF Initiate
  <2>2. r \in Nat /\ requests[r] \in RequestRow
    BY <2>1 DEF TypeOK, TablesOK
  <2>3. PICK x \in FormRow : forms' = Append(forms, x)
    BY <2>1, <2>2 DEF FormRow, RequestRow
  <2>. QED
    BY <1>1, <2>3
<1>4. ASSUME \/ \E w \in Web : \/ AskResign(w) \/ Resign(w) \/ Decide(w) \/ AskTerminate(w)
                                \/ Terminate(w) \/ Disable(w) \/ MarkInitiated(w) \/ AskSign(w)
                                \/ EndProcess(w) \/ Die(w)
             \/ Night
             \/ \E c \in Celery : Take(c) \/ Finish(c) \/ Lose(c)
             \/ \E e \in Staff : SaveSheet(e)
             \/ UNCHANGED vars
      PROVE  forms' = forms
  BY ZenonT(60), <1>4 DEF AskResign, Resign, Decide, AskTerminate, Terminate, Disable, MarkInitiated, AskSign,
              EndProcess, Die, Night, Take, Finish, Lose, SaveSheet, Ask, Turn, tables, vars
<1>. QED
  BY <1>2, <1>3, <1>4 DEF Next

\* A signature on an exit form is only lost to a department that opened the form before it and
\* sent it back after it, for any number of departments and forms.
THEOREM SignaturesStay == Spec => SignatureStays
<1>1. TypeOK /\ [Next]_vars =>
        [\A f \in DOMAIN forms :
           \/ forms[f].signed \subseteq forms'[f].signed
           \/ \E w \in Web : work[w].at = "sign" /\ work[w].id = f /\ work[w].read # forms[f].signed]_vars
  BY SignStep
<1>. QED
  BY <1>1, TypeCorrect, PTL DEF Spec, SignatureStays

----------------------------------------------------------------------------
(* The end of the process. *)

\* The id of a message is that of a request of its employee, or of an exit form of his.
Addressed(e, r) == \/ r \in DOMAIN requests /\ requests[r].emp = e
                   \/ r \in DOMAIN forms /\ forms[r].emp = e

MessagesAddressed ==
  /\ \A m \in queue : Addressed(m[1], m[2])
  /\ \A c \in Celery : task[c].busy => Addressed(task[c].emp, task[c].id)

CompletedInv == MessagesAddressed /\ CompletedIsRelieved

\* Whose a request or a form is does not change.
LEMMA OwnersStay ==
  ASSUME TypeOK, [Next]_vars
  PROVE  /\ \A r \in DOMAIN requests : r \in DOMAIN requests' /\ requests'[r].emp = requests[r].emp
         /\ \A f \in DOMAIN forms : f \in DOMAIN forms' /\ forms'[f].emp = forms[f].emp
<1>. USE DEF TypeOK, TablesOK
<1>0. DOMAIN requests \subseteq DOMAIN requests' /\ DOMAIN forms \subseteq DOMAIN forms'
  BY RowsStay
<1>. DEFINE Requests == \A r \in DOMAIN requests : requests'[r].emp = requests[r].emp
            Forms == \A f \in DOMAIN forms : forms'[f].emp = forms[f].emp
<1>1. ASSUME NEW w \in Web, Resign(w) \/ Terminate(w) PROVE Requests /\ Forms
  <2>1. work[w].emp \in Staff /\ work[w].due \in Dates /\ LastDate \in Dates
    BY OffboardingConstants DEF CallsOK, Dates
  <2>2. PICK x \in RequestRow : requests' = Append(requests, x)
    BY <1>1, <2>1 DEF Resign, Terminate, Request, RequestRow, Statuses, OPEN
  <2>3. forms' = forms
    BY <1>1 DEF Resign, Terminate
  <2>. QED
    BY <2>2, <2>3
<1>2. ASSUME NEW w \in Web, Initiate(w) PROVE Requests /\ Forms
  <2>1. PICK r \in DOMAIN requests :
          forms' = Append(forms, [request |-> r, emp |-> requests[r].emp, signed |-> {}])
    BY <1>2 DEF Initiate
  <2>2. r \in Nat /\ requests[r] \in RequestRow
    BY <2>1
  <2>3. PICK x \in FormRow : forms' = Append(forms, x)
    BY <2>1, <2>2 DEF FormRow, RequestRow
  <2>4. requests' = requests
    BY <1>2 DEF Initiate
  <2>. QED
    BY <2>3, <2>4
<1>3. ASSUME NEW w \in Web, Decide(w) PROVE Requests /\ Forms
  <2>1. PICK r \in DOMAIN requests, s \in Statuses, due \in Dates :
          requests' = [requests EXCEPT ![r].status = s,
                                       ![r].due = IF s = "Cancelled" THEN @ ELSE due]
    BY ZenonT(60), <1>3 DEF Decide
  <2>2. ASSUME NEW q \in DOMAIN requests PROVE requests'[q].emp = requests[q].emp
    <3>1. requests[q] \in RequestRow /\ requests[r] \in RequestRow
      BY <2>1
    <3>. QED
      BY <2>1, <3>1 DEF RequestRow
  <2>. QED
    BY <1>3, <2>2 DEF Decide
<1>7. ASSUME NEW w \in Web, MarkInitiated(w) PROVE Requests /\ Forms
  <2>1. \A r \in DOMAIN requests : requests[r] \in RequestRow
    OBVIOUS
  <2>. QED
    BY <1>7, <2>1 DEF MarkInitiated, RequestRow
<1>4. ASSUME NEW w \in Web, Sign(w) PROVE Requests /\ Forms
  <2>1. \A f \in DOMAIN forms : forms[f] \in FormRow
    OBVIOUS
  <2>. QED
    BY <1>4, <2>1 DEF Sign, FormRow
<1>5. ASSUME NEW c \in Celery, Finish(c) PROVE Requests /\ Forms
  <2>1. \A r \in DOMAIN requests : requests[r] \in RequestRow
    OBVIOUS
  <2>. QED
    BY <1>5, <2>1 DEF Finish, RequestRow
<1>6. ASSUME \/ \E w \in Web : \/ AskResign(w) \/ AskTerminate(w) \/ AskSign(w) \/ Disable(w)
                                \/ EndProcess(w) \/ Die(w)
             \/ Night
             \/ \E c \in Celery : Take(c) \/ Lose(c)
             \/ \E e \in Staff : SaveSheet(e)
             \/ UNCHANGED vars
      PROVE  Requests /\ Forms
  BY <1>6 DEF AskResign, AskTerminate, AskSign, Disable, EndProcess, Die, Night, Take, Lose,
              SaveSheet, Ask, Turn, tables, vars
<1>. QED
  BY <1>0, <1>1, <1>2, <1>3, <1>4, <1>5, <1>6, <1>7 DEF Next

LEMMA AddressedStays ==
  ASSUME TypeOK, [Next]_vars, NEW e, NEW r, Addressed(e, r)
  PROVE  Addressed(e, r)'
BY OwnersStay DEF Addressed

LEMMA MessagesStep == TypeOK /\ MessagesAddressed /\ [Next]_vars => MessagesAddressed'
<1>. SUFFICES ASSUME TypeOK, MessagesAddressed, [Next]_vars PROVE MessagesAddressed'
  OBVIOUS
<1>. USE DEF MessagesAddressed
<1>0. /\ \A m \in queue : Addressed(m[1], m[2])'
      /\ \A c \in Celery : task[c].busy => (\A e, r : e = task[c].emp /\ r = task[c].id
                                                       => Addressed(e, r)')
  BY AddressedStays
<1>1. ASSUME NEW w \in Web, EndProcess(w) PROVE MessagesAddressed'
  <2>1. PICK r \in DOMAIN forms : r = work[w].id
    BY <1>1 DEF EndProcess, TypeOK, CallsOK
  <2>2. PICK e : e = forms[r].emp
    OBVIOUS
  <2>3. queue' = queue \cup {<<e, r>>} /\ task' = task
    BY <1>1, <2>1, <2>2 DEF EndProcess, Turn
  <2>4. Addressed(e, r)'
    BY <2>1, <2>2, AddressedStays DEF Addressed
  <2>. QED
    BY <1>0, <2>3, <2>4
<1>2. CASE Night
  <2>1. task' = task
    BY <1>2 DEF Night
  <2>2. ASSUME NEW m \in queue', m \notin queue PROVE Addressed(m[1], m[2])'
    <3>1. PICK r \in DOMAIN requests : m = <<requests[r].emp, r>>
      BY <1>2, <2>2 DEF Night
    <3>2. PICK e : e = requests[r].emp
      OBVIOUS
    <3>3. Addressed(e, r)'
      BY <3>2, AddressedStays DEF Addressed
    <3>. QED
      BY <3>1, <3>2, <3>3
  <2>. QED
    BY <1>0, <2>1, <2>2
<1>3. ASSUME NEW c \in Celery, Take(c) PROVE MessagesAddressed'
  <2>1. PICK m \in queue : /\ queue' = queue \ {m}
                          /\ task' = [task EXCEPT ![c] = [busy |-> TRUE, emp |-> m[1], id |-> m[2],
                                                          read |-> SheetsOf(m[1])]]
    BY <1>3 DEF Take
  <2>2. ASSUME NEW d \in Celery, task'[d].busy PROVE Addressed(task[d].emp, task[d].id)'
    <3>1. CASE d = c
      <4>1. task'[d].emp = m[1] /\ task'[d].id = m[2]
        BY <2>1, <3>1 DEF TypeOK, QueueOK
      <4>. QED
        BY <1>0, <4>1 DEF Addressed
    <3>2. CASE d # c
      <4>1. task'[d] = task[d]
        BY <2>1, <3>2 DEF TypeOK, QueueOK
      <4>. QED
        BY <1>0, <2>2, <4>1 DEF Addressed
    <3>. QED
      BY <3>1, <3>2
  <2>. QED
    BY <1>0, <2>1, <2>2
<1>4. ASSUME NEW c \in Celery, Finish(c) \/ Lose(c) PROVE MessagesAddressed'
  <2>1. queue' = queue /\ task' = [task EXCEPT ![c] = Free] /\ ~ Free.busy
    BY <1>4 DEF Finish, Lose, Free
  <2>2. ASSUME NEW d \in Celery, task'[d].busy PROVE Addressed(task[d].emp, task[d].id)'
    <3>1. task'[d] = task[d]
      BY <2>1, <2>2 DEF TypeOK, QueueOK
    <3>. QED
      BY <1>0, <2>2, <3>1 DEF Addressed
  <2>. QED
    BY <1>0, <2>1, <2>2
<1>5. ASSUME queue' = queue /\ task' = task PROVE MessagesAddressed'
  BY <1>0, <1>5 DEF Addressed
<1>6. ASSUME NEW w \in Web,
             \/ AskResign(w) \/ Resign(w) \/ Decide(w) \/ AskTerminate(w) \/ Terminate(w)
             \/ Disable(w) \/ Initiate(w) \/ MarkInitiated(w) \/ AskSign(w) \/ Sign(w) \/ Die(w)
      PROVE  MessagesAddressed'
  BY <1>5, <1>6 DEF AskResign, Resign, Decide, AskTerminate, Terminate, Disable, Initiate,
              MarkInitiated, AskSign, Sign, Die, Ask, Turn
<1>7. ASSUME NEW e \in Staff, SaveSheet(e) PROVE MessagesAddressed'
  BY <1>5, <1>7 DEF SaveSheet
<1>8. CASE UNCHANGED vars
  BY <1>5, <1>8 DEF vars
<1>. QED
  BY <1>1, <1>2, <1>3, <1>4, <1>6, <1>7, <1>8 DEF Next

\* Access is not given back here.
LEMMA AccessStep ==
  ASSUME TypeOK, [Next]_vars, NEW e \in Staff, active'[e]
  PROVE  active[e]
<1>. USE DEF TypeOK, TablesOK
<1>1. ASSUME NEW w \in Web, Disable(w) PROVE active[e]
  BY <1>1 DEF Disable
<1>2. ASSUME NEW c \in Celery, Finish(c) PROVE active[e]
  BY <1>2 DEF Finish, Relieved
<1>3. ASSUME \/ \E w \in Web : \/ AskResign(w) \/ Resign(w) \/ Decide(w) \/ AskTerminate(w)
                                \/ Terminate(w) \/ Initiate(w) \/ MarkInitiated(w) \/ AskSign(w)
                                \/ Sign(w) \/ EndProcess(w) \/ Die(w)
             \/ Night
             \/ \E c \in Celery : Take(c) \/ Lose(c)
             \/ \E x \in Staff : SaveSheet(x)
             \/ UNCHANGED vars
      PROVE  active' = active
  BY ZenonT(60), <1>3 DEF AskResign, Resign, Decide, AskTerminate, Terminate, Initiate, MarkInitiated, AskSign,
              Sign, EndProcess, Die, Night, Take, Lose, SaveSheet, Ask, Turn, tables, vars
<1>. QED
  BY <1>1, <1>2, <1>3 DEF Next

\* Only HR and the task complete a request, the task the one it has the id of.
LEMMA CompletedBy ==
  ASSUME TypeOK, [Next]_vars, NEW r \in DOMAIN requests', requests'[r].status = "Completed"
  PROVE  /\ r \in DOMAIN requests
         /\ \/ requests[r].status = "Completed" /\ (r \in declared => r \in declared')
            \/ r \in declared'
            \/ \E c \in Celery : Finish(c) /\ task[c].id = r
<1>. USE DEF TypeOK, TablesOK
<1>0. \A q \in DOMAIN requests : requests[q] \in RequestRow
  OBVIOUS
<1>. DEFINE Was == /\ r \in DOMAIN requests /\ requests[r].status = "Completed"
                   /\ r \in declared => r \in declared'
<1>1. ASSUME NEW w \in Web, Resign(w) \/ Terminate(w) PROVE Was
  <2>1. work[w].emp \in Staff /\ work[w].due \in Dates /\ LastDate \in Dates
    BY OffboardingConstants DEF CallsOK, Dates
  <2>2. PICK s \in {"Pending", "Initiated"}, t \in BOOLEAN, d \in Dates :
          requests' = Append(requests, Request(work[w].emp, s, t, d))
    BY <1>1, <2>1 DEF Resign, Terminate
  <2>3. PICK x : x = Request(work[w].emp, s, t, d)
    OBVIOUS
  <2>4. x \in RequestRow /\ x.status # "Completed"
    BY <2>1, <2>3 DEF Request, RequestRow, Statuses, OPEN
  <2>5. declared' = declared
    BY <1>1 DEF Resign, Terminate
  <2>. QED
    BY <2>2, <2>3, <2>4, <2>5
<1>2. ASSUME NEW w \in Web, Decide(w)
      PROVE  Was \/ (r \in DOMAIN requests /\ r \in declared')
  <2>1. PICK q \in DOMAIN requests, s \in Statuses, due \in Dates :
          /\ requests' = [requests EXCEPT ![q].status = s,
                                          ![q].due = IF s = "Cancelled" THEN @ ELSE due]
          /\ declared' = IF s = "Completed" THEN declared \cup {q} ELSE declared \ {q}
    BY <1>2 DEF Decide
  <2>2. CASE q = r
    <3>1. requests'[r].status = s
      BY <1>0, <2>1, <2>2 DEF RequestRow
    <3>. QED
      BY <2>1, <2>2, <3>1
  <2>3. CASE q # r
    <3>1. r \in DOMAIN requests /\ requests'[r] = requests[r]
      BY <2>1, <2>3
    <3>. QED
      BY <2>1, <2>3, <3>1
  <2>. QED
    BY <2>2, <2>3
<1>3. ASSUME NEW w \in Web, MarkInitiated(w) PROVE Was
  BY <1>0, <1>3 DEF MarkInitiated, RequestRow
<1>4. ASSUME NEW c \in Celery, Finish(c) PROVE Was \/ (r \in DOMAIN requests /\ task[c].id = r)
  BY <1>0, <1>4 DEF Finish, RequestRow
<1>5. ASSUME \/ \E w \in Web : \/ AskResign(w) \/ AskTerminate(w) \/ AskSign(w) \/ Disable(w)
                                \/ Initiate(w) \/ Sign(w) \/ EndProcess(w) \/ Die(w)
             \/ Night
             \/ \E c \in Celery : Take(c) \/ Lose(c)
             \/ \E e \in Staff : SaveSheet(e)
             \/ UNCHANGED vars
      PROVE  Was
  <2>1. requests' = requests /\ declared' = declared
    BY ZenonT(60), <1>5 DEF AskResign, AskTerminate, AskSign, Disable, Initiate, Sign, EndProcess,
       Die, Night, Take, Lose, SaveSheet, Ask, Turn, tables, history, vars
  <2>. QED
    BY <2>1
<1>. QED
  BY <1>1, <1>2, <1>3, <1>4, <1>5 DEF Next

LEMMA CompletedStep == TypeOK /\ CompletedInv /\ [Next]_vars => CompletedIsRelieved'
<1>. SUFFICES ASSUME TypeOK, CompletedInv, [Next]_vars,
                     NEW r \in DOMAIN requests', requests'[r].status = "Completed"
              PROVE  \/ ~ active'[requests'[r].emp]
                     \/ r \in DOMAIN forms' /\ ~ active'[forms'[r].emp]
                     \/ r \in declared'
  BY DEF CompletedIsRelieved
<1>1. /\ r \in DOMAIN requests
      /\ \/ requests[r].status = "Completed" /\ (r \in declared => r \in declared')
         \/ r \in declared'
         \/ \E c \in Celery : Finish(c) /\ task[c].id = r
  BY CompletedBy
<1>2. /\ requests'[r].emp = requests[r].emp
      /\ r \in DOMAIN forms => r \in DOMAIN forms' /\ forms'[r].emp = forms[r].emp
  BY <1>1, OwnersStay
<1>3. requests[r].emp \in Staff /\ (r \in DOMAIN forms => forms[r].emp \in Staff)
  <2>1. requests[r] \in RequestRow /\ (r \in DOMAIN forms => forms[r] \in FormRow)
    BY <1>1 DEF TypeOK, TablesOK
  <2>. QED
    BY <2>1 DEF RequestRow, FormRow
<1>4. CASE requests[r].status = "Completed" /\ (r \in declared => r \in declared')
  <2>1. \/ ~ active[requests[r].emp]
        \/ r \in DOMAIN forms /\ ~ active[forms[r].emp]
        \/ r \in declared
    BY <1>1, <1>4 DEF CompletedInv, CompletedIsRelieved
  <2>. QED
    BY <1>2, <1>3, <1>4, <2>1, AccessStep
<1>5. ASSUME NEW c \in Celery, Finish(c), task[c].id = r
      PROVE  ~ active'[requests[r].emp] \/ (r \in DOMAIN forms /\ ~ active'[forms[r].emp])
  <2>1. Addressed(task[c].emp, r)
    BY <1>5 DEF CompletedInv, MessagesAddressed, Finish
  <2>2. ~ active'[task[c].emp]
    BY <1>5 DEF Finish, Relieved, TypeOK, TablesOK, QueueOK
  <2>. QED
    BY <2>1, <2>2 DEF Addressed
<1>. QED
  BY <1>1, <1>2, <1>4, <1>5

\* A completed request stands for somebody who has lost access, its employee or that of the exit
\* form with its id, unless HR wrote it down: for any number of employees, requests, forms, workers
\* and lost messages.
THEOREM CompletedAreRelieved == Spec => []CompletedIsRelieved
<1>1. Init => CompletedInv
  BY BeforeAssumption DEF Init, CompletedInv, MessagesAddressed, CompletedIsRelieved, Free
<1>2. TypeOK /\ CompletedInv /\ [Next]_vars => CompletedInv'
  BY MessagesStep, CompletedStep DEF CompletedInv
<1>3. CompletedInv => CompletedIsRelieved
  BY DEF CompletedInv
<1>. QED
  BY <1>1, <1>2, <1>3, TypeCorrect, PTL DEF Spec

----------------------------------------------------------------------------
(* Why the task runs. *)

\* The grounds of a message for employee e and id r.
Grounded(e, r) ==
  \/ r \in DOMAIN forms /\ forms[r].emp = e
  \/ /\ r \in DOMAIN requests /\ requests[r].emp = e
     /\ requests[r].status \in {"Initiated", "Completed"} /\ requests[r].due < today
  \/ r \in revoked

MessagesGrounded ==
  /\ \A m \in queue : Grounded(m[1], m[2])
  /\ \A c \in Celery : task[c].busy => Grounded(task[c].emp, task[c].id)

\* The grounds of a message that is there stay, or it is one of the revoked.
LEMMA GroundsStay ==
  ASSUME TypeOK, [Next]_vars, NEW e, NEW r, Grounded(e, r), <<e, r>> \in queue \cup Taken
  PROVE  Grounded(e, r)'
<1>. USE DEF TypeOK, TablesOK
<1>0. \A q \in DOMAIN requests : requests[q] \in RequestRow
  OBVIOUS
<1>1. CASE r \in DOMAIN forms /\ forms[r].emp = e
  BY <1>1, OwnersStay DEF Grounded
<1>2. CASE r \in revoked
  <2>1. revoked \subseteq revoked'
    BY ZenonT(60) DEF Next, vars, AskResign, Resign, Decide, AskTerminate, Terminate, Disable, Initiate,
           MarkInitiated, AskSign, Sign, EndProcess, Die, Night, Take, Finish, Lose, SaveSheet,
           Ask, Turn, history
  <2>. QED
    BY <1>2, <2>1 DEF Grounded
<1>3. ASSUME r \in DOMAIN requests, requests[r].emp = e,
             requests[r].status \in {"Initiated", "Completed"}, requests[r].due < today
      PROVE  Grounded(e, r)'
  <2>. DEFINE Row == /\ r \in DOMAIN requests' /\ requests'[r].emp = e
                    /\ requests'[r].status \in {"Initiated", "Completed"}
                    /\ requests'[r].due = requests[r].due
              Same == requests' = requests /\ today' = today
  <2>0. /\ requests[r].due \in Int /\ today \in Int /\ LastDate \in Int
        /\ r \in DOMAIN requests' /\ requests'[r].emp = e
    BY SMTT(30), <1>0, <1>3, OffboardingConstants, OwnersStay DEF RequestRow, Dates
  <2>1. ASSUME Row, today' = today PROVE Grounded(e, r)'
    BY <1>3, <2>1 DEF Grounded
  <2>2. ASSUME Same PROVE Grounded(e, r)'
    BY <1>3, <2>0, <2>1, <2>2
  <2>3. ASSUME NEW w \in Web, Resign(w) \/ Terminate(w) PROVE Grounded(e, r)'
    <3>1. work[w].emp \in Staff /\ work[w].due \in Dates /\ LastDate \in Dates
      BY OffboardingConstants DEF CallsOK, Dates
    <3>2. PICK x \in RequestRow : requests' = Append(requests, x)
      BY <2>3, <3>1 DEF Resign, Terminate, Request, RequestRow, Statuses, OPEN
    <3>3. requests'[r] = requests[r]
      BY <1>3, <3>2
    <3>. QED
      BY <1>3, <2>0, <2>1, <2>3, <3>3 DEF Resign, Terminate, Turn
  <2>4. ASSUME NEW w \in Web, Decide(w) PROVE Grounded(e, r)'
    <3>1. PICK q \in DOMAIN requests, s \in Statuses, due \in Dates :
            /\ requests' = [requests EXCEPT ![q].status = s,
                                            ![q].due = IF s = "Cancelled" THEN @ ELSE due]
            /\ revoked' = revoked \cup {x \in {q} : <<requests[q].emp, q>> \in queue \cup Taken}
      BY <2>4 DEF Decide
    <3>2. CASE q = r
      BY <1>3, <3>1, <3>2 DEF Grounded
    <3>3. CASE q # r
      <4>1. requests'[r] = requests[r]
        BY <1>3, <3>1, <3>3
      <4>. QED
        BY <1>3, <2>0, <2>1, <2>4, <4>1 DEF Decide
    <3>. QED
      BY <3>2, <3>3
  <2>5. ASSUME NEW w \in Web, MarkInitiated(w) PROVE Grounded(e, r)'
    <3>1. Row
      BY <1>0, <1>3, <2>0, <2>5 DEF MarkInitiated, RequestRow
    <3>. QED
      BY <2>1, <2>5, <3>1 DEF MarkInitiated, Turn
  <2>6. ASSUME NEW c \in Celery, Finish(c) PROVE Grounded(e, r)'
    <3>1. Row
      BY <1>0, <1>3, <2>0, <2>6 DEF Finish, RequestRow
    <3>. QED
      BY <2>1, <2>6, <3>1 DEF Finish
  <2>7. CASE Night
    BY <1>3, <2>0, <2>7 DEF Night, tables, Grounded
  <2>8. ASSUME NEW w \in Web, \/ AskResign(w) \/ AskTerminate(w) \/ AskSign(w) \/ Disable(w)
                               \/ Initiate(w) \/ Sign(w) \/ EndProcess(w) \/ Die(w)
        PROVE  Grounded(e, r)'
    BY <2>2, <2>8 DEF AskResign, AskTerminate, AskSign, Disable, Initiate, Sign, EndProcess, Die,
                      Ask, Turn, tables
  <2>9. CASE \/ \E c \in Celery : Take(c) \/ Lose(c)
             \/ \E x \in Staff : SaveSheet(x)
             \/ UNCHANGED vars
    BY <2>2, <2>9 DEF Take, Lose, SaveSheet, vars, tables
  <2>. QED
    BY <2>3, <2>4, <2>5, <2>6, <2>7, <2>8, <2>9 DEF Next
<1>. QED
  BY <1>1, <1>2, <1>3 DEF Grounded

LEMMA GroundedStep == TypeOK /\ MessagesGrounded /\ [Next]_vars => MessagesGrounded'
<1>. SUFFICES ASSUME TypeOK, MessagesGrounded, [Next]_vars PROVE MessagesGrounded'
  OBVIOUS
<1>. USE DEF MessagesGrounded
<1>0. /\ \A m \in queue : Grounded(m[1], m[2])'
      /\ \A c \in Celery : task[c].busy => (\A e, r : e = task[c].emp /\ r = task[c].id
                                                       => Grounded(e, r)')
  <2>1. ASSUME NEW m \in queue PROVE Grounded(m[1], m[2])'
    <3>1. <<m[1], m[2]>> \in queue
      BY <2>1 DEF TypeOK, QueueOK
    <3>. QED
      BY <2>1, <3>1, GroundsStay
  <2>2. ASSUME NEW c \in Celery, task[c].busy, NEW e, NEW r, e = task[c].emp, r = task[c].id
        PROVE  Grounded(e, r)'
    <3>1. <<e, r>> \in Taken
      BY <2>2 DEF Taken
    <3>2. Grounded(e, r)
      BY <2>2
    <3>. QED
      BY <3>1, <3>2, GroundsStay
  <2>. QED
    BY <2>1, <2>2
<1>1. ASSUME NEW w \in Web, EndProcess(w) PROVE MessagesGrounded'
  <2>1. PICK r \in DOMAIN forms : r = work[w].id
    BY <1>1 DEF EndProcess, TypeOK, CallsOK
  <2>2. PICK e : e = forms[r].emp
    OBVIOUS
  <2>3. queue' = queue \cup {<<e, r>>} /\ task' = task
    BY <1>1, <2>1, <2>2 DEF EndProcess, Turn
  <2>4. Grounded(e, r)'
    BY <2>1, <2>2, OwnersStay DEF Grounded
  <2>. QED
    BY <1>0, <2>3, <2>4
<1>2. CASE Night
  <2>1. task' = task /\ requests' = requests
    BY <1>2 DEF Night, tables
  <2>2. ASSUME NEW m \in queue', m \notin queue PROVE Grounded(m[1], m[2])'
    <3>1. PICK r \in DOMAIN requests :
            /\ m = <<requests[r].emp, r>> /\ requests[r].status = "Initiated" /\ Due(r, today')
      BY <1>2, <2>2 DEF Night
    <3>2. requests[r] \in RequestRow /\ today \in Dates
      BY DEF TypeOK, TablesOK
    <3>3. requests[r].due < today'
      BY <1>2, <3>1, <3>2, OffboardingConstants DEF Due, RequestRow, Dates, Night
    <3>. QED
      BY <2>1, <3>1, <3>3 DEF Grounded
  <2>. QED
    BY <1>0, <2>1, <2>2
<1>3. ASSUME NEW c \in Celery, Take(c) PROVE MessagesGrounded'
  <2>1. PICK m \in queue : /\ queue' = queue \ {m}
                          /\ task' = [task EXCEPT ![c] = [busy |-> TRUE, emp |-> m[1], id |-> m[2],
                                                          read |-> SheetsOf(m[1])]]
    BY <1>3 DEF Take
  <2>2. ASSUME NEW d \in Celery, task'[d].busy PROVE Grounded(task[d].emp, task[d].id)'
    <3>1. CASE d = c
      <4>1. task'[d].emp = m[1] /\ task'[d].id = m[2]
        BY <2>1, <3>1 DEF TypeOK, QueueOK
      <4>. QED
        BY <1>0, <4>1 DEF Grounded
    <3>2. CASE d # c
      <4>1. task'[d] = task[d]
        BY <2>1, <3>2 DEF TypeOK, QueueOK
      <4>. QED
        BY <1>0, <2>2, <4>1 DEF Grounded
    <3>. QED
      BY <3>1, <3>2
  <2>. QED
    BY <1>0, <2>1, <2>2
<1>4. ASSUME NEW c \in Celery, Finish(c) \/ Lose(c) PROVE MessagesGrounded'
  <2>1. queue' = queue /\ task' = [task EXCEPT ![c] = Free] /\ ~ Free.busy
    BY <1>4 DEF Finish, Lose, Free
  <2>2. ASSUME NEW d \in Celery, task'[d].busy PROVE Grounded(task[d].emp, task[d].id)'
    <3>1. task'[d] = task[d]
      BY <2>1, <2>2 DEF TypeOK, QueueOK
    <3>. QED
      BY <1>0, <2>2, <3>1 DEF Grounded
  <2>. QED
    BY <1>0, <2>1, <2>2
<1>5. ASSUME queue' = queue /\ task' = task PROVE MessagesGrounded'
  BY <1>0, <1>5 DEF Grounded
<1>6. ASSUME NEW w \in Web,
             \/ AskResign(w) \/ Resign(w) \/ Decide(w) \/ AskTerminate(w) \/ Terminate(w)
             \/ Disable(w) \/ Initiate(w) \/ MarkInitiated(w) \/ AskSign(w) \/ Sign(w) \/ Die(w)
      PROVE  MessagesGrounded'
  BY <1>5, <1>6 DEF AskResign, Resign, Decide, AskTerminate, Terminate, Disable, Initiate,
              MarkInitiated, AskSign, Sign, Die, Ask, Turn
<1>7. ASSUME NEW e \in Staff, SaveSheet(e) PROVE MessagesGrounded'
  BY <1>5, <1>7 DEF SaveSheet
<1>8. CASE UNCHANGED vars
  BY <1>5, <1>8 DEF vars
<1>. QED
  BY <1>1, <1>2, <1>3, <1>4, <1>6, <1>7, <1>8 DEF Next

Grounds(e) ==
  \/ \E w \in Web : work[w].at = "disable" /\ work[w].emp = e
  \/ \E c \in Celery :
       /\ task[c].busy /\ task[c].emp = e
       /\ LET r == task[c].id
          IN  \/ r \in DOMAIN forms /\ forms[r].emp = e
              \/ requests[r].status \in {"Initiated", "Completed"} /\ requests[r].due < today
              \/ r \in revoked

LEMMA RelievedStep ==
  TypeOK /\ MessagesGrounded /\ [Next]_vars
    => \A e \in Staff : active[e] /\ ~ active'[e] => Grounds(e)
<1>. SUFFICES ASSUME TypeOK, MessagesGrounded, [Next]_vars,
                     NEW e \in Staff, active[e], ~ active'[e]
              PROVE  Grounds(e)
  OBVIOUS
<1>1. active \in [Staff -> BOOLEAN]
  BY DEF TypeOK, TablesOK
<1>2. ASSUME NEW w \in Web, Disable(w) PROVE Grounds(e)
  BY <1>1, <1>2 DEF Disable, Grounds
<1>3. ASSUME NEW c \in Celery, Finish(c) PROVE Grounds(e)
  <2>1. task[c].busy /\ task[c].emp = e
    BY <1>1, <1>3 DEF Finish, Relieved
  <2>2. Grounded(e, task[c].id)
    BY <2>1 DEF MessagesGrounded
  <2>. QED
    BY <2>1, <2>2 DEF Grounded, Grounds
<1>4. ASSUME \/ \E w \in Web : \/ AskResign(w) \/ Resign(w) \/ Decide(w) \/ AskTerminate(w)
                                \/ Terminate(w) \/ Initiate(w) \/ MarkInitiated(w) \/ AskSign(w)
                                \/ Sign(w) \/ EndProcess(w) \/ Die(w)
             \/ Night
             \/ \E c \in Celery : Take(c) \/ Lose(c)
             \/ \E x \in Staff : SaveSheet(x)
             \/ UNCHANGED vars
      PROVE  active' = active
  BY ZenonT(60), <1>4 DEF AskResign, Resign, Decide, AskTerminate, Terminate, Initiate, MarkInitiated, AskSign,
              Sign, EndProcess, Die, Night, Take, Lose, SaveSheet, Ask, Turn, tables, vars
<1>. QED
  BY <1>2, <1>3, <1>4 DEF Next

\* Access is only ever taken for a reason that still stands, or did when the task was queued: for
\* any number of employees, workers, faults and days.
THEOREM RelievedWithGrounds == Spec => RelievedOnGrounds
<1>1. Init => MessagesGrounded
  BY DEF Init, MessagesGrounded, Free
<1>2. TypeOK /\ MessagesGrounded /\ [Next]_vars => MessagesGrounded'
  BY GroundedStep
<1>3. TypeOK /\ MessagesGrounded /\ [Next]_vars
        => [\A e \in Staff : active[e] /\ ~ active'[e] => Grounds(e)]_vars
  BY RelievedStep
<1>. QED
  BY <1>1, <1>2, <1>3, TypeCorrect, PTL DEF Spec, RelievedOnGrounds, Grounds
----------------------------------------------------------------------------
(* One resignation. *)

\* The requests of an employee that count, without those the history exempts.
Counted(e) == {r \in RequestsOf(e) : /\ requests[r].status \in OPEN /\ ~ requests[r].terminated
                                     /\ r \notin second}

\* No two requests count, and what a fresh call has validated still holds.
OneCounted == \A e \in Staff : \A r, q \in Counted(e) : r = q

FreshEligible == \A w \in fresh : work[w].at = "resign" => Eligible(work[w].emp)

ResignInv == OneCounted /\ FreshEligible

\* Whatever a step writes to the requests, only a row that was not open and is not exempt from now
\* on is new among those that count, and that is one of a fresh call.
LEMMA CountedBy ==
  ASSUME TypeOK, [Next]_vars, NEW e \in Staff, NEW r \in Counted(e)'
  PROVE  \/ r \in Counted(e)
         \/ /\ r = Len(requests) + 1 /\ r \notin DOMAIN requests
            /\ \E w \in fresh : work[w].at = "resign" /\ work[w].emp = e
            /\ \A q \in Counted(e)' : q = r \/ q \in Counted(e)
<1>. USE DEF TypeOK, TablesOK, Counted, RequestsOf
<1>0. \A q \in DOMAIN requests : requests[q] \in RequestRow
  OBVIOUS
<1>1. ASSUME NEW w \in Web, Resign(w)
      PROVE  \/ r \in Counted(e)
             \/ /\ r = Len(requests) + 1 /\ r \notin DOMAIN requests
                /\ \E v \in fresh : work[v].at = "resign" /\ work[v].emp = e
                /\ \A q \in Counted(e)' : q = r \/ q \in Counted(e)
  <2>1. PICK x : x = Request(work[w].emp, "Pending", FALSE, LastDate)
    OBVIOUS
  <2>2. /\ requests' = Append(requests, x) /\ second \subseteq second'
        /\ w \in fresh \/ Len(requests) + 1 \in second'
        /\ work[w].at = "resign"
    BY <1>1, <2>1 DEF Resign
  <2>3. x \in RequestRow /\ x.emp = work[w].emp
    BY SMTT(30), <2>1, OffboardingConstants DEF CallsOK, Dates, Request, RequestRow, Statuses, OPEN
  <2>4. /\ DOMAIN requests' = 1 .. Len(requests) + 1 /\ requests'[Len(requests) + 1] = x
        /\ DOMAIN requests = 1 .. Len(requests) /\ Len(requests) \in Nat
        /\ \A q \in DOMAIN requests : requests'[q] = requests[q]
    BY <2>2, <2>3, AppendProperties
  <2>5. \A q \in Counted(e)' : q \in Counted(e) \/ q = Len(requests) + 1
    BY <2>2, <2>4
  <2>6. CASE r = Len(requests) + 1
    <3>1. x.emp = e /\ r \notin second'
      BY <2>4, <2>6
    <3>2. w \in fresh /\ work[w].emp = e
      BY <2>2, <2>3, <2>6, <3>1
    <3>. QED
      BY <2>2, <2>4, <2>5, <2>6, <3>2
  <2>. QED
    BY <2>5, <2>6
<1>2. ASSUME NEW w \in Web, Terminate(w) PROVE r \in Counted(e)
  <2>1. PICK x : x = Request(work[w].emp, "Initiated", TRUE, work[w].due)
    OBVIOUS
  <2>2. requests' = Append(requests, x) /\ second = second'
    BY <1>2, <2>1 DEF Terminate
  <2>3. x \in RequestRow /\ x.terminated
    BY <2>1, OffboardingConstants DEF CallsOK, Dates, Request, RequestRow, Statuses, OPEN
  <2>4. /\ DOMAIN requests' = 1 .. Len(requests) + 1 /\ requests'[Len(requests) + 1] = x
        /\ DOMAIN requests = 1 .. Len(requests) /\ Len(requests) \in Nat
        /\ \A q \in DOMAIN requests : requests'[q] = requests[q]
    BY <2>2, <2>3, AppendProperties
  <2>. QED
    BY <2>2, <2>3, <2>4
<1>3. ASSUME NEW w \in Web, Decide(w) PROVE r \in Counted(e)
  <2>1. PICK q \in DOMAIN requests, s \in Statuses, due \in Dates :
          /\ requests' = [requests EXCEPT ![q].status = s,
                                          ![q].due = IF s = "Cancelled" THEN @ ELSE due]
          /\ second' = second \cup Reopens(q, s)
    BY <1>3 DEF Decide
  <2>. QED
    BY <1>0, <2>1 DEF RequestRow, Reopens
<1>4. ASSUME NEW w \in Web, MarkInitiated(w) PROVE r \in Counted(e)
  BY <1>0, <1>4 DEF MarkInitiated, RequestRow, Reopens, OPEN
<1>5. ASSUME NEW c \in Celery, Finish(c) PROVE r \in Counted(e)
  BY <1>0, <1>5 DEF Finish, RequestRow, Reopens, OPEN
<1>6. ASSUME \/ \E w \in Web : \/ AskResign(w) \/ AskTerminate(w) \/ AskSign(w) \/ Disable(w)
                                \/ Initiate(w) \/ Sign(w) \/ EndProcess(w) \/ Die(w)
             \/ Night
             \/ \E c \in Celery : Take(c) \/ Lose(c)
             \/ \E x \in Staff : SaveSheet(x)
             \/ UNCHANGED vars
      PROVE  r \in Counted(e)
  <2>1. requests' = requests /\ second' = second
    BY <1>6 DEF AskResign, AskTerminate, AskSign, Disable, Initiate, Sign, EndProcess, Die, Night,
                Take, Lose, SaveSheet, Ask, Turn, tables, history, vars
  <2>. QED
    BY <2>1
<1>. QED
  BY <1>1, <1>2, <1>3, <1>4, <1>5, <1>6 DEF Next

\* A step outdates every call that validated before, or writes to no request.
LEMMA FreshStep == TypeOK /\ FreshEligible /\ [Next]_vars => FreshEligible'
<1>. SUFFICES ASSUME TypeOK, FreshEligible, [Next]_vars PROVE FreshEligible'
  OBVIOUS
<1>. USE DEF FreshEligible
<1>0. /\ Idle.at = "idle" /\ DOMAIN work = Web
      /\ Idle \in CallRow /\ \A w \in Web : work[w] \in CallRow
  BY IdleType, CallsAre DEF Idle, CallRow, TypeOK
<1>1. ASSUME NEW w \in Web, NEW x, work' = [work EXCEPT ![w] = x], requests' = requests,
             fresh' \subseteq fresh \cup {w}, x.at = "resign" => Eligible(x.emp)
      PROVE  FreshEligible'
  <2>1. SUFFICES ASSUME NEW v \in fresh', work'[v].at = "resign" PROVE Eligible(work'[v].emp)
    BY <1>1 DEF Eligible, RequestsOf
  <2>2. CASE v = w
    BY <1>0, <1>1, <2>1, <2>2
  <2>3. CASE v # w
    BY <1>0, <1>1, <2>1, <2>3
  <2>. QED
    BY <2>2, <2>3
<1>2. ASSUME NEW w \in Web, AskResign(w) PROVE FreshEligible'
  <2>1. PICK e \in Staff : Eligible(e) /\ Ask(w, [Idle EXCEPT !.at = "resign", !.emp = e])
    BY <1>2 DEF AskResign
  <2>2. [Idle EXCEPT !.at = "resign", !.emp = e].emp = e
    BY <1>0 DEF CallRow
  <2>. QED
    BY <1>1, <2>1, <2>2 DEF Ask, tables
<1>3. ASSUME NEW w \in Web, AskTerminate(w) PROVE FreshEligible'
  <2>1. PICK e \in Staff, due \in Dates, now \in BOOLEAN :
          Ask(w, [Idle EXCEPT !.at = "terminate", !.emp = e, !.due = due, !.now = now])
    BY <1>3 DEF AskTerminate
  <2>2. [Idle EXCEPT !.at = "terminate", !.emp = e, !.due = due, !.now = now].at = "terminate"
    BY <1>0 DEF CallRow
  <2>. QED
    BY <1>1, <2>1, <2>2 DEF Ask, tables
<1>4. ASSUME NEW w \in Web, AskSign(w) PROVE FreshEligible'
  <2>1. PICK f \in DOMAIN forms, d \in Departments :
          Ask(w, [Idle EXCEPT !.at = "sign", !.id = f, !.by = d, !.read = forms[f].signed])
    BY <1>4 DEF AskSign
  <2>2. [Idle EXCEPT !.at = "sign", !.id = f, !.by = d, !.read = forms[f].signed].at = "sign"
    BY <1>0 DEF CallRow
  <2>. QED
    BY <1>1, <2>1, <2>2 DEF Ask, tables
<1>5. ASSUME NEW w \in Web, Disable(w) \/ EndProcess(w) \/ Die(w) PROVE FreshEligible'
  <2>1. work' = [work EXCEPT ![w] = Idle] /\ requests' = requests /\ fresh' = fresh
    BY <1>5 DEF Disable, EndProcess, Die, Turn, tables, history
  <2>. QED
    BY <1>0, <1>1, <2>1
<1>6. ASSUME NEW w \in Web, Sign(w) PROVE FreshEligible'
  <2>1. PICK x \in {Idle, [work[w] EXCEPT !.at = "end"]} : work' = [work EXCEPT ![w] = x]
    BY <1>6 DEF Sign, Turn
  <2>2. x.at # "resign" /\ requests' = requests /\ fresh' = fresh
    BY <1>0, <1>6, <2>1 DEF Sign, history, CallRow
  <2>. QED
    BY <1>1, <2>1, <2>2
<1>7. ASSUME NEW w \in Web, Initiate(w) PROVE FreshEligible'
  <2>1. PICK x : /\ x.at = "initiated" /\ work' = [work EXCEPT ![w] = x]
                 /\ requests' = requests /\ fresh' = fresh
    BY <1>0, <1>7 DEF Initiate, history, CallRow
  <2>. QED
    BY <1>1, <2>1
<1>8. ASSUME \/ \E w \in Web : Resign(w) \/ Decide(w) \/ Terminate(w) \/ MarkInitiated(w)
             \/ \E c \in Celery : Finish(c)
      PROVE  FreshEligible'
  BY <1>8 DEF Resign, Decide, Terminate, MarkInitiated, Finish
<1>9. CASE \/ Night
           \/ \E c \in Celery : Take(c) \/ Lose(c)
           \/ \E x \in Staff : SaveSheet(x)
           \/ UNCHANGED vars
  <2>1. work' = work /\ requests' = requests /\ fresh' = fresh
    BY <1>9 DEF Night, Take, Lose, SaveSheet, tables, history, vars
  <2>. QED
    BY <2>1 DEF Eligible, RequestsOf
<1>. QED
  BY <1>2, <1>3, <1>4, <1>5, <1>6, <1>7, <1>8, <1>9 DEF Next

LEMMA OneCountedStep == TypeOK /\ ResignInv /\ [Next]_vars => OneCounted'
<1>. SUFFICES ASSUME TypeOK, ResignInv, [Next]_vars, NEW e \in Staff,
                     NEW r \in Counted(e)', NEW q \in Counted(e)'
              PROVE  r = q
  BY DEF OneCounted
<1>1. CASE r \in Counted(e) /\ q \in Counted(e)
  BY <1>1 DEF ResignInv, OneCounted
<1>2. ASSUME NEW a \in {r, q}, a \notin Counted(e) PROVE Counted(e) = {}
  <2>1. \E w \in fresh : work[w].at = "resign" /\ work[w].emp = e
    BY <1>2, CountedBy
  <2>2. Eligible(e)
    BY <2>1 DEF ResignInv, FreshEligible
  <2>. QED
    BY <2>2 DEF Eligible, Counted
<1>. QED
  BY <1>1, <1>2, CountedBy

LEMMA ResignInit == Init => ResignInv
BY BeforeAssumption DEF Init, ResignInv, OneCounted, FreshEligible, Counted, RequestsOf

\* Of the requests of an employee that are open or done at most one counts, in which no call
\* crossed another: for any number of employees, calls, workers and faults.
THEOREM ResignationsAreSingle == Spec => []OneResignation
<1>1. TypeOK /\ ResignInv /\ [Next]_vars => ResignInv'
  BY OneCountedStep, FreshStep DEF ResignInv
<1>2. ResignInv => OneResignation
  <2>. SUFFICES ASSUME ResignInv, NEW e \in Staff PROVE Cardinality(Counted(e)) <= 1
    BY Zenon DEF OneResignation, Counted
  <2>1. PICK S : S = Counted(e)
    OBVIOUS
  <2>2. S = {} \/ \E r : S = {r}
    BY <2>1 DEF ResignInv, OneCounted
  <2>3. Cardinality(S) \in {0, 1}
    BY <2>2, FS_EmptySet, FS_Singleton
  <2>. QED
    BY <2>1, <2>3
<1>. QED
  BY <1>1, <1>2, ResignInit, TypeCorrect, PTL DEF Spec
----------------------------------------------------------------------------
(* No timesheet is lost. *)

\* One task of an employee at most is under way, and what it has read is what there is.
TasksRead ==
  \A e \in Staff \ cut : \A c \in Celery : task[c].busy /\ task[c].emp = e =>
    /\ task[c].read = SheetsOf(e)
    /\ \A d \in Celery : task[d].busy /\ task[d].emp = e => d = c

\* What is read or archived was saved, and what is read is of the employee.
CopiesSaved ==
  /\ \A c \in Celery : \A s \in task[c].read : s[1] = task[c].emp /\ s[2] <= saved[s[1]]
  /\ \A i \in DOMAIN archive : \A s \in archive[i] : s[2] <= saved[s[1]]

\* The copies of a timesheet, and whether there are as many as there must be.
Copies(s) == {i \in DOMAIN archive : s \in archive[i]}
Kept(s) == IF s \in sheets THEN Copies(s) = {} ELSE \E i \in DOMAIN archive : Copies(s) = {i}

AllKept == \A e \in Staff \ cut : \A n \in 1 .. saved[e] : Kept(<<e, n>>)

SheetsInv == TasksRead /\ CopiesSaved /\ AllKept

LEMMA AllKeptIs == AllKept <=> SheetsKept
BY Zenon DEF AllKept, SheetsKept, Kept, Copies

LEMMA SheetsInit == Init => SheetsInv
<1>. SUFFICES ASSUME Init PROVE SheetsInv
  OBVIOUS
<1>1. ~ Free.busy /\ Free.read = {}
  BY DEF Free
<1>2. archive = <<>> /\ saved = [e \in Staff |-> 0] /\ task = [c \in Celery |-> Free]
  BY DEF Init
<1>. QED
  BY <1>1, <1>2 DEF SheetsInv, TasksRead, CopiesSaved, AllKept

\* A message a worker is at is among the taken.
LEMMA TakenBy ==
  ASSUME NEW c \in Celery, task[c].busy
  PROVE  \E t \in Taken : t[1] = task[c].emp
<1>1. <<task[c].emp, task[c].id>> \in Taken
  BY DEF Taken
<1>. QED
  BY <1>1

\* Where no copy and no sheet changes, what is kept stays so.
LEMMA KeptSame ==
  ASSUME AllKept, UNCHANGED <<sheets, archive, saved>>, cut \subseteq cut'
  PROVE  AllKept'
<1>1. ASSUME NEW s PROVE Copies(s)' = Copies(s)
  BY DEF Copies
<1>2. ASSUME NEW s PROVE Kept(s)' <=> Kept(s)
  BY <1>1 DEF Kept
<1>. QED
  BY <1>2 DEF AllKept

LEMMA TakeKeeps ==
  ASSUME TypeOK, SheetsInv, NEW c \in Celery, Take(c)
  PROVE  SheetsInv'
<1>. USE DEF TypeOK, QueueOK
<1>1. PICK m \in queue :
        /\ ~ task[c].busy
        /\ task' = [task EXCEPT ![c] = [busy |-> TRUE, emp |-> m[1], id |-> m[2], read |-> SheetsOf(m[1])]]
        /\ cut' = cut \cup {e \in {m[1]} : \E t \in Taken : t[1] = e}
  BY DEF Take
<1>2. sheets' = sheets /\ archive' = archive /\ saved' = saved
  BY DEF Take, tables
<1>3. PICK x : x = [busy |-> TRUE, emp |-> m[1], id |-> m[2], read |-> SheetsOf(m[1])]
  OBVIOUS
<1>4. /\ x.busy /\ x.emp = m[1] /\ x.read = SheetsOf(m[1])
      /\ task'[c] = x /\ \A d \in Celery : d # c => task'[d] = task[d]
  BY <1>1, <1>3
<1>5. TasksRead'
  <2>1. SUFFICES ASSUME NEW e \in Staff \ cut', NEW a \in Celery, task'[a].busy, task'[a].emp = e
                 PROVE  /\ task'[a].read = SheetsOf(e)
                        /\ \A d \in Celery : task'[d].busy /\ task'[d].emp = e => d = a
    BY <1>2 DEF TasksRead, SheetsOf
  <2>2. e \in Staff \ cut
    BY <1>1, <2>1
  <2>3. CASE e = m[1]
    <3>1. ~ \E t \in Taken : t[1] = e
      BY <1>1, <2>1, <2>3
    <3>2. \A d \in Celery : task[d].busy => task[d].emp # e
      BY <3>1, TakenBy
    <3>. QED
      BY <1>4, <2>1, <2>3, <3>2
  <2>4. CASE e # m[1]
    <3>1. \A d \in Celery : task'[d].emp = e => d # c /\ task'[d] = task[d]
      BY <1>4, <2>4
    <3>. QED
      BY <2>1, <2>2, <3>1 DEF SheetsInv, TasksRead
  <2>. QED
    BY <2>3, <2>4
<1>6. CopiesSaved'
  <2>1. ASSUME NEW d \in Celery, NEW s \in task'[d].read
        PROVE  s[1] = task'[d].emp /\ s[2] <= saved[s[1]]
    <3>1. CASE d = c
      BY <1>4, <2>1, <3>1 DEF SheetsOf, TablesOK
    <3>2. CASE d # c
      BY <1>4, <2>1, <3>2 DEF SheetsInv, CopiesSaved
    <3>. QED
      BY <3>1, <3>2
  <2>. QED
    BY <1>2, <2>1 DEF SheetsInv, CopiesSaved
<1>7. AllKept'
  BY <1>1, <1>2, KeptSame DEF SheetsInv
<1>. QED
  BY <1>5, <1>6, <1>7 DEF SheetsInv

\* The task moves what it read of its employee, which is all there is, and nothing of another.
LEMMA FinishKeeps ==
  ASSUME TypeOK, SheetsInv, NEW c \in Celery, Finish(c)
  PROVE  SheetsInv'
<1>. USE DEF TypeOK, QueueOK
<1>0. /\ task[c].busy /\ task[c].emp \in Staff
      /\ task' = [task EXCEPT ![c] = Free]
      /\ sheets' = sheets \ SheetsOf(task[c].emp) /\ saved' = saved /\ cut' = cut
  BY DEF Finish
<1>1. ~ Free.busy /\ Free.read = {}
  BY DEF Free
<1>2. /\ task'[c] = Free
      /\ \A d \in Celery : d # c => task'[d] = task[d]
  BY <1>0
<1>3. /\ archive \in Seq(SUBSET (Staff \X (1 .. MaxSheets)))
      /\ task[c].read \in SUBSET (Staff \X (1 .. MaxSheets))
      /\ archive' = Append(archive, task[c].read)
  BY DEF Finish, Archived, TablesOK
<1>4. /\ Len(archive) \in Nat /\ DOMAIN archive = 1 .. Len(archive)
      /\ DOMAIN archive' = 1 .. Len(archive) + 1
      /\ archive'[Len(archive) + 1] = task[c].read
      /\ \A i \in DOMAIN archive : archive'[i] = archive[i]
  BY <1>3, AppendProperties
<1>5. TasksRead'
  <2>1. SUFFICES ASSUME NEW e \in Staff \ cut, NEW a \in Celery, task'[a].busy, task'[a].emp = e
                 PROVE  /\ task'[a].read = SheetsOf(e)'
                        /\ \A d \in Celery : task'[d].busy /\ task'[d].emp = e => d = a
    BY <1>0 DEF TasksRead
  <2>2. a # c /\ task[a].busy /\ task[a].emp = e
    BY <1>1, <1>2, <2>1
  <2>3. task[c].emp # e
    BY <1>0, <2>1, <2>2 DEF SheetsInv, TasksRead
  <2>4. SheetsOf(e)' = SheetsOf(e)
    BY <1>0, <2>3 DEF SheetsOf
  <2>5. \A d \in Celery : task'[d].busy => task'[d] = task[d]
    BY <1>1, <1>2
  <2>. QED
    BY <2>1, <2>2, <2>4, <2>5 DEF SheetsInv, TasksRead
<1>6. CopiesSaved'
  <2>1. ASSUME NEW d \in Celery, NEW s \in task'[d].read
        PROVE  s[1] = task'[d].emp /\ s[2] <= saved[s[1]]
    BY <1>1, <1>2, <2>1 DEF SheetsInv, CopiesSaved
  <2>2. ASSUME NEW i \in DOMAIN archive', NEW s \in archive'[i] PROVE s[2] <= saved[s[1]]
    BY <1>4, <2>2 DEF SheetsInv, CopiesSaved
  <2>. QED
    BY <1>0, <2>1, <2>2 DEF CopiesSaved
<1>7. AllKept'
  <2>1. SUFFICES ASSUME NEW e \in Staff \ cut, NEW n \in 1 .. saved[e] PROVE Kept(<<e, n>>)'
    BY <1>0 DEF AllKept
  <2>2. PICK s : s = <<e, n>>
    OBVIOUS
  <2>3. s[1] = e /\ Kept(s)
    BY <2>1, <2>2 DEF SheetsInv, AllKept
  <2>4. CASE task[c].emp = e
    <3>1. task[c].read = SheetsOf(e)
      BY <1>0, <2>1, <2>4 DEF SheetsInv, TasksRead
    <3>2. s \in sheets <=> s \in task[c].read
      BY <2>3, <3>1 DEF SheetsOf
    <3>3. s \notin sheets'
      BY <1>0, <2>3, <2>4 DEF SheetsOf
    <3>4. CASE s \in sheets
      <4>1. Copies(s) = {}
        BY <2>3, <3>4 DEF Kept
      <4>2. Copies(s)' = {Len(archive) + 1}
        BY SMTT(30), <1>4, <3>2, <3>4, <4>1 DEF Copies
      <4>3. Len(archive) + 1 \in DOMAIN archive'
        BY <1>4
      <4>. QED
        BY <2>2, <3>3, <4>2, <4>3 DEF Kept
    <3>5. CASE s \notin sheets
      <4>1. PICK i \in DOMAIN archive : Copies(s) = {i}
        BY <2>3, <3>5 DEF Kept
      <4>2. Copies(s)' = {i} /\ i \in DOMAIN archive'
        BY <1>4, <3>2, <3>5, <4>1 DEF Copies
      <4>. QED
        BY <2>2, <3>3, <4>2 DEF Kept
    <3>. QED
      BY <3>4, <3>5
  <2>5. CASE task[c].emp # e
    <3>1. s \notin task[c].read
      BY <2>3, <2>5 DEF SheetsInv, CopiesSaved
    <3>2. s \in sheets' <=> s \in sheets
      BY <1>0, <2>3, <2>5 DEF SheetsOf
    <3>3. Copies(s)' = Copies(s) /\ DOMAIN archive \subseteq DOMAIN archive'
      BY <1>4, <3>1 DEF Copies
    <3>. QED
      BY <2>2, <2>3, <3>2, <3>3 DEF Kept
  <2>. QED
    BY <2>4, <2>5
<1>. QED
  BY <1>5, <1>6, <1>7 DEF SheetsInv

\* A new timesheet is in no copy, for nothing is copied before it is saved.
LEMMA SaveKeeps ==
  ASSUME TypeOK, SheetsInv, NEW x \in Staff, SaveSheet(x)
  PROVE  SheetsInv'
<1>. USE DEF TypeOK, QueueOK, TablesOK
<1>1. /\ saved' = [saved EXCEPT ![x] = @ + 1] /\ saved[x] \in Nat
      /\ archive' = archive /\ task' = task
      /\ cut' = cut \cup {e \in {x} : \E t \in Taken : t[1] = e}
  BY OffboardingConstants DEF SaveSheet
<1>2. /\ \A e \in Staff : saved[e] \in Nat /\ saved'[e] \in Nat
      /\ saved'[x] = saved[x] + 1 /\ \A e \in Staff : e # x => saved'[e] = saved[e]
  BY <1>1, OffboardingConstants
<1>3. sheets' = sheets \cup {<<x, saved'[x]>>}
  BY DEF SaveSheet
<1>4. TasksRead'
  <2>1. SUFFICES ASSUME NEW e \in Staff \ cut', NEW c \in Celery, task[c].busy, task[c].emp = e
                 PROVE  /\ task[c].read = SheetsOf(e)'
                        /\ \A d \in Celery : task[d].busy /\ task[d].emp = e => d = c
    BY <1>1 DEF TasksRead
  <2>2. e \in Staff \ cut /\ (e = x => ~ \E t \in Taken : t[1] = e)
    BY <1>1, <2>1
  <2>3. e # x
    BY <2>1, <2>2, TakenBy
  <2>4. SheetsOf(e)' = SheetsOf(e)
    BY <1>3, <2>3 DEF SheetsOf
  <2>. QED
    BY <2>1, <2>2, <2>4 DEF SheetsInv, TasksRead
<1>5. CopiesSaved'
  <2>1. ASSUME NEW s \in Staff \X (1 .. MaxSheets), s[2] <= saved[s[1]] PROVE s[2] <= saved'[s[1]]
    <3>1. s[1] \in Staff /\ s[2] \in Nat
      BY <2>1
    <3>2. \A e \in Staff : saved[e] \in Nat /\ saved'[e] \in Nat /\ saved[e] <= saved'[e]
      <4>1. ASSUME NEW e \in Staff PROVE saved[e] \in Nat /\ saved'[e] \in Nat /\ saved[e] <= saved'[e]
        BY <1>2
      <4>. QED
        BY <4>1
    <3>. QED
      BY <2>1, <3>1, <3>2
  <2>2. ASSUME NEW c \in Celery, NEW s \in task[c].read
        PROVE  s[1] = task[c].emp /\ s[2] <= saved'[s[1]]
    BY <2>1, <2>2 DEF SheetsInv, CopiesSaved
  <2>3. ASSUME NEW i \in DOMAIN archive, NEW s \in archive[i] PROVE s[2] <= saved'[s[1]]
    <3>1. s \in Staff \X (1 .. MaxSheets) /\ s[2] <= saved[s[1]]
      BY <2>3 DEF SheetsInv, CopiesSaved
    <3>. QED
      BY <2>1, <3>1
  <2>. QED
    BY <1>1, <2>2, <2>3 DEF CopiesSaved
<1>6. AllKept'
  <2>1. SUFFICES ASSUME NEW e \in Staff \ cut', NEW n \in 1 .. saved'[e] PROVE Kept(<<e, n>>)'
    BY DEF AllKept
  <2>2. PICK s : s = <<e, n>>
    OBVIOUS
  <2>3. s[1] = e /\ s[2] = n /\ e \in Staff \ cut
    BY <1>1, <2>1, <2>2
  <2>4. Copies(s)' = Copies(s) /\ archive' = archive
    BY <1>1 DEF Copies
  <2>5. CASE e = x /\ n = saved'[x]
    <3>1. Copies(s) = {}
      <4>1. SUFFICES ASSUME NEW i \in DOMAIN archive, s \in archive[i] PROVE FALSE
        BY DEF Copies
      <4>2. n <= saved[x]
        BY <2>3, <2>5, <4>1 DEF SheetsInv, CopiesSaved
      <4>. QED
        BY <1>2, <2>5, <4>2
    <3>. QED
      BY <1>3, <2>2, <2>4, <2>5, <3>1 DEF Kept
  <2>6. CASE ~ (e = x /\ n = saved'[x])
    <3>1. n \in 1 .. saved[e]
      BY <1>2, <2>1, <2>6
    <3>2. Kept(s)
      BY <2>2, <2>3, <3>1 DEF SheetsInv, AllKept
    <3>3. s \in sheets' <=> s \in sheets
      BY <1>3, <2>2, <2>6
    <3>. QED
      BY <2>2, <2>4, <3>2, <3>3 DEF Kept
  <2>. QED
    BY <2>5, <2>6
<1>. QED
  BY <1>4, <1>5, <1>6 DEF SheetsInv

LEMMA SheetsStep == TypeOK /\ SheetsInv /\ [Next]_vars => SheetsInv'
<1>. SUFFICES ASSUME TypeOK, SheetsInv, [Next]_vars PROVE SheetsInv'
  OBVIOUS
<1>1. ASSUME NEW c \in Celery, Lose(c) PROVE SheetsInv'
  <2>1. /\ task' = [task EXCEPT ![c] = Free]
        /\ sheets' = sheets /\ archive' = archive /\ saved' = saved /\ cut' = cut
    BY <1>1 DEF Lose, tables, history
  <2>2. ~ Free.busy /\ Free.read = {}
    BY DEF Free
  <2>3. /\ \A d \in Celery : task'[d].busy => task'[d] = task[d]
        /\ \A d \in Celery : task'[d] = Free \/ task'[d] = task[d]
    BY <2>1, <2>2 DEF TypeOK, QueueOK
  <2>4. TasksRead'
    BY <2>1, <2>3 DEF SheetsInv, TasksRead, SheetsOf
  <2>5. CopiesSaved'
    BY <2>1, <2>2, <2>3 DEF SheetsInv, CopiesSaved
  <2>6. AllKept'
    BY <2>1, KeptSame DEF SheetsInv
  <2>. QED
    BY <2>4, <2>5, <2>6 DEF SheetsInv
<1>2. ASSUME \/ \E w \in Web : \/ AskResign(w) \/ Resign(w) \/ Decide(w) \/ AskTerminate(w)
                                \/ Terminate(w) \/ Disable(w) \/ Initiate(w) \/ MarkInitiated(w)
                                \/ AskSign(w) \/ Sign(w) \/ EndProcess(w) \/ Die(w)
             \/ Night
             \/ UNCHANGED vars
      PROVE  SheetsInv'
  <2>1. UNCHANGED <<task, sheets, archive, saved, cut>>
    BY ZenonT(60), <1>2 DEF AskResign, Resign, Decide, AskTerminate, Terminate, Disable, Initiate, MarkInitiated,
                AskSign, Sign, EndProcess, Die, Night, Ask, Turn, tables, history, vars
  <2>. QED
    BY <2>1 DEF SheetsInv, TasksRead, SheetsOf, CopiesSaved, AllKept, Kept, Copies
<1>. QED
  BY <1>1, <1>2, TakeKeeps, FinishKeeps, SaveKeeps DEF Next

\* Every timesheet of an employee is there or in exactly one archived copy, however often the task
\* that ends the employment is queued, lost and run: for any number of employees and workers.
THEOREM SheetsAlwaysKept == Spec => []SheetsKept
<1>1. SheetsInv => SheetsKept
  BY AllKeptIs DEF SheetsInv
<1>. QED
  BY <1>1, SheetsInit, SheetsStep, TypeCorrect, PTL DEF Spec
=============================================================================
