----------------------------- MODULE LeaveProofs -----------------------------
(***************************************************************************)
(* Proofs about Leave, for any number of workers, calls, leave types and   *)
(* dates: type correctness, that the days of a request are booked as a     *)
(* whole, that a request and its days agree once its calls are over, and   *)
(* that a balance below zero has one of the reasons the model names.       *)
(***************************************************************************)
EXTENDS Leave, FiniteSetTheorems, WellFoundedInduction, TLAPS

----------------------------------------------------------------------------
(* Tables and rows. *)

\* A table that gets a row keeps its type and its rows.
LEMMA RowAdded ==
  ASSUME NEW Row, NEW table \in Seq(Row), NEW x \in Row
  PROVE  /\ Append(table, x) \in Seq(Row)
         /\ DOMAIN Append(table, x) = DOMAIN table \cup {Len(table) + 1}
         /\ Len(table) + 1 \notin DOMAIN table /\ Len(table) + 1 \in Nat
         /\ \A i \in DOMAIN table : Append(table, x)[i] = table[i]
         /\ Append(table, x)[Len(table) + 1] = x
OBVIOUS

\* A table of which a row is changed keeps its type and its other rows.
LEMMA RowChanged ==
  ASSUME NEW Row, NEW table \in Seq(Row), NEW r \in DOMAIN table, NEW x \in Row
  PROVE  /\ [table EXCEPT ![r] = x] \in Seq(Row)
         /\ DOMAIN [table EXCEPT ![r] = x] = DOMAIN table
         /\ \A i \in DOMAIN table : [table EXCEPT ![r] = x][i] = IF i = r THEN x ELSE table[i]
<1>1. table \in [1 .. Len(table) -> Row] /\ Len(table) \in Nat
  OBVIOUS
<1>2. [table EXCEPT ![r] = x] \in [1 .. Len(table) -> Row]
  BY <1>1
<1>. QED
  BY <1>1, <1>2

\* The first allotment of a type may be changed to another integer.
LEMMA QuotaChanged ==
  ASSUME NEW t \in Types, NEW i, NEW n \in Int, quota \in [Types -> Seq(Int)]
  PROVE  [quota EXCEPT ![t][i] = n] \in [Types -> Seq(Int)]
<1>1. [quota[t] EXCEPT ![i] = n] \in Seq(Int)
  <2>1. quota[t] \in Seq(Int)
    OBVIOUS
  <2>2. quota[t] \in [1 .. Len(quota[t]) -> Int] /\ Len(quota[t]) \in Nat
    BY <2>1
  <2>3. [quota[t] EXCEPT ![i] = n] \in [1 .. Len(quota[t]) -> Int]
    BY <2>2
  <2>. QED
    BY <2>2, <2>3
<1>. QED
  BY <1>1

LEMMA DaysAreDates ==
  ASSUME NEW first \in Dates, NEW last \in Dates
  PROVE  LeaveDays(first, last) \subseteq Dates
BY LeaveConstants DEF LeaveDays, Dates

LEMMA RowsOfType ==
  ASSUME NEW r \in Nat, NEW f, f.type \in Types, f.half \in BOOLEAN,
         NEW days \in SUBSET Dates, NEW s \in Statuses
  PROVE  /\ RowsOf(r, f, days, s) \subseteq LeaveRow
         /\ \A l \in RowsOf(r, f, days, s) :
              l.req = r /\ l.type = f.type /\ l.half = f.half /\ l.status = s
BY DEF RowsOf, LeaveRow

LEMMA RowsOfDays ==
  ASSUME NEW r, NEW f, NEW days, NEW s
  PROVE  {l.date : l \in RowsOf(r, f, days, s)} = days
<1>1. ASSUME NEW l \in RowsOf(r, f, days, s)
      PROVE  l.date \in days
  BY DEF RowsOf
<1>2. ASSUME NEW d \in days PROVE \E l \in RowsOf(r, f, days, s) : l.date = d
  <2>. DEFINE x == [req |-> r, date |-> d, type |-> f.type, half |-> f.half, status |-> s]
  <2>1. x \in RowsOf(r, f, days, s)
    BY DEF RowsOf
  <2>2. x.date = d
    OBVIOUS
  <2>. QED
    BY <2>1, <2>2
<1>. QED
  BY <1>1, <1>2

LEMMA RequestType ==
  ASSUME NEW f, f.type \in Types, f.half \in BOOLEAN, f.first \in Dates, f.last \in Dates,
         NEW s \in Statuses, NEW c \in Nat
  PROVE  /\ NewRequest(f, s, c) \in Request
         /\ NewRequest(f, s, c).type = f.type /\ NewRequest(f, s, c).half = f.half
         /\ NewRequest(f, s, c).first = f.first /\ NewRequest(f, s, c).last = f.last
         /\ NewRequest(f, s, c).status = s
BY DEF NewRequest, Request

\* The forms that calls write.
LEMMA FormTypes ==
  ASSUME TypeOK, NEW w \in Workers
  PROVE  /\ work[w].at \in {"create", "edit", "debit"} =>
              /\ work[w].form.type \in Types /\ work[w].form.half \in BOOLEAN
              /\ work[w].form.first \in Dates /\ work[w].form.last \in Dates
         /\ work[w].at \in {"answer", "credit", "uncredit", "savequota"} =>
              /\ work[w].form.type \in Types /\ work[w].form.sched \in Dates
         /\ work[w] \in Call
BY DEF TypeOK, CallOK, LeaveForm, Comp

\* A request that is added, with its days.
LEMMA Booked ==
  ASSUME TablesOK, NEW f, f.type \in Types, f.half \in BOOLEAN, f.first \in Dates, f.last \in Dates,
         NEW s \in Statuses, NEW c \in Nat, NEW days \in SUBSET Dates,
         requests' = Append(requests, NewRequest(f, s, c)),
         leaves' = leaves \cup RowsOf(Len(requests) + 1, f, days, s)
  PROVE  /\ requests' \in Seq(Request)
         /\ DOMAIN requests' = DOMAIN requests \cup {Len(requests) + 1}
         /\ Len(requests) + 1 \notin DOMAIN requests
         /\ \A r \in DOMAIN requests : requests'[r] = requests[r]
         /\ requests'[Len(requests) + 1] = NewRequest(f, s, c)
         /\ leaves' \subseteq LeaveRow
         /\ \A l \in leaves' : l.req \in DOMAIN requests'
         /\ \A r \in DOMAIN requests : Rows(r)' = Rows(r)
         /\ \A n : n = Len(requests) + 1 => Rows(n)' = RowsOf(n, f, days, s)
<1>. USE DEF TablesOK
<1>1. NewRequest(f, s, c) \in Request
  BY RequestType
<1>2. requests \in Seq(Request)
  OBVIOUS
<1>3. Len(requests) + 1 \in Nat
  BY <1>2
<1>4. /\ RowsOf(Len(requests) + 1, f, days, s) \subseteq LeaveRow
      /\ \A l \in RowsOf(Len(requests) + 1, f, days, s) : l.req = Len(requests) + 1
  BY <1>3, RowsOfType
<1>. HIDE DEF TablesOK
<1>5. /\ requests' \in Seq(Request)
      /\ DOMAIN requests' = DOMAIN requests \cup {Len(requests) + 1}
      /\ Len(requests) + 1 \notin DOMAIN requests
      /\ \A r \in DOMAIN requests : requests'[r] = requests[r]
      /\ requests'[Len(requests) + 1] = NewRequest(f, s, c)
  BY <1>1, <1>2, RowAdded
<1>6. \A l \in leaves : l.req \in DOMAIN requests
  BY DEF TablesOK
<1>7. \A r \in DOMAIN requests : Rows(r)' = Rows(r)
  BY <1>4, <1>5 DEF Rows
<1>8. ASSUME NEW n, n = Len(requests) + 1 PROVE Rows(n)' = RowsOf(n, f, days, s)
  <2>1. {l \in leaves' : l.req = n} = RowsOf(n, f, days, s)
    BY <1>4, <1>5, <1>6, <1>8
  <2>. QED
    BY <2>1 DEF Rows
<1>. QED
  BY <1>4, <1>5, <1>7, <1>8 DEF TablesOK

----------------------------------------------------------------------------
(* Type correctness. *)

LEMMA TypeInit == Init => TypeOK
<1>. SUFFICES ASSUME Init PROVE TypeOK
  OBVIOUS
<1>1. TablesOK
  <2>1. quota \in [Types -> Seq(Int)]
    <3>1. <<>> \in Seq(Int) /\ \A n \in Amounts : <<n>> \in Seq(Int)
      BY LeaveConstants
    <3>2. quota \in {[t \in Types |-> <<>>]} \cup [Types -> {<<n>> : n \in Amounts}]
      BY DEF Init
    <3>3. CASE quota = [t \in Types |-> <<>>]
      BY <3>1, <3>3
    <3>4. CASE quota \in [Types -> {<<n>> : n \in Amounts}]
      <4>1. \A t \in Types : quota[t] \in {<<n>> : n \in Amounts}
        BY <3>4
      <4>2. \A t \in Types : quota[t] \in Seq(Int)
        BY <3>1, <4>1
      <4>. QED
        BY <3>4, <4>2
    <3>. QED
      BY <3>2, <3>3, <3>4
  <2>. QED
    BY <2>1, LeaveConstants DEF Init, TablesOK, Dates
<1>2. Idle \in Call /\ CallOK(Idle)
  BY DEF Idle, Call, CallOK, Steps, Forms
<1>3. work \in [Workers -> Call] /\ \A w \in Workers : CallOK(work[w])
  BY <1>2 DEF Init
<1>. QED
  BY <1>1, <1>3, LeaveConstants DEF Init, TypeOK

\* What is left alone, step by step.
LEMMA TablesSame ==
  ASSUME TablesOK, UNCHANGED <<today, tables>>
  PROVE  TablesOK'
BY DEF TablesOK, tables

\* Every step keeps the tables well typed.
LEMMA TablesStep == TypeOK /\ [Next]_vars => TablesOK'
<1>. SUFFICES ASSUME TypeOK, [Next]_vars PROVE TablesOK'
  OBVIOUS
<1>0. TablesOK
  BY DEF TypeOK
<1>a. /\ today \in Dates /\ requests \in Seq(Request) /\ comps \in Seq(Comp)
      /\ leaves \subseteq LeaveRow /\ \A l \in leaves : l.req \in DOMAIN requests
      /\ quota \in [Types -> Seq(Int)]
  BY <1>0 DEF TablesOK
<1>b. \A r \in DOMAIN requests : requests[r] \in Request /\ r \in Nat
  BY <1>a
<1>c. \A c \in DOMAIN comps : comps[c] \in Comp /\ c \in Nat
  BY <1>a
<1>1. ASSUME NEW w \in Workers, CreateLeave(w) PROVE TablesOK'
  <2>. DEFINE f == work[w].form
  <2>1. work[w].at = "create"
    BY <1>1 DEF CreateLeave
  <2>2. f.type \in Types /\ f.half \in BOOLEAN /\ f.first \in Dates /\ f.last \in Dates
    BY <2>1, FormTypes
  <2>3. LeaveDays(f.first, f.last) \in SUBSET Dates
    BY <2>2, DaysAreDates
  <2>4. /\ requests' = Append(requests, NewRequest(f, "Requested", 0))
        /\ leaves' = leaves \cup RowsOf(Len(requests) + 1, f, LeaveDays(f.first, f.last), "Requested")
        /\ UNCHANGED <<today, quota, comps>>
    BY <1>1 DEF CreateLeave, Turn
  <2>5. "Requested" \in Statuses /\ 0 \in Nat
    BY DEF Statuses
  <2>. HIDE DEF f
  <2>6. requests' \in Seq(Request) /\ leaves' \subseteq LeaveRow /\ \A l \in leaves' : l.req \in DOMAIN requests'
    BY <1>0, <2>2, <2>3, <2>4, <2>5, Booked
  <2>. QED
    BY <1>a, <2>4, <2>6 DEF TablesOK
<1>2. ASSUME NEW w \in Workers, DebitLeave(w) PROVE TablesOK'
  <2>. DEFINE f == work[w].form
  <2>1. work[w].at = "debit"
    BY <1>2 DEF DebitLeave
  <2>2. f.type \in Types /\ f.half \in BOOLEAN /\ f.first \in Dates /\ f.last \in Dates
    BY <2>1, FormTypes
  <2>3. {f.first} \in SUBSET Dates
    BY <2>2
  <2>4. /\ requests' = Append(requests, NewRequest(f, "Approved", 0))
        /\ leaves' = leaves \cup RowsOf(Len(requests) + 1, f, {f.first}, "Approved")
        /\ UNCHANGED <<today, quota, comps>>
    BY <1>2 DEF DebitLeave, Turn
  <2>5. "Approved" \in Statuses /\ 0 \in Nat
    BY DEF Statuses
  <2>. HIDE DEF f
  <2>6. requests' \in Seq(Request) /\ leaves' \subseteq LeaveRow /\ \A l \in leaves' : l.req \in DOMAIN requests'
    BY <1>0, <2>2, <2>3, <2>4, <2>5, Booked
  <2>. QED
    BY <1>a, <2>4, <2>6 DEF TablesOK
<1>3. ASSUME NEW w \in Workers, ApproveComp(w) PROVE TablesOK'
  <2>. DEFINE f == work[w].form
              l == Scheduled(f)
              c == work[w].id
              x == [comps[c] EXCEPT !.status = "Approved"]
  <2>1. work[w].at = "credit" /\ UNCHANGED today
    BY <1>3 DEF ApproveComp, Turn
  <2>2. f.type \in Types /\ f.sched \in Dates /\ work[w].read \in Int /\ c \in DOMAIN comps
    BY <2>1, FormTypes DEF TypeOK, CallOK, Call
  <2>3. /\ l.type \in Types /\ l.half \in BOOLEAN /\ l.first \in Dates /\ l.last \in Dates
        /\ {f.sched} \in SUBSET Dates /\ "Approved" \in Statuses
    BY <2>2 DEF Scheduled, Statuses
  <2>4. comps' \in Seq(Comp)
    <3>1. x \in Comp
      BY <1>c, <2>2, <2>3 DEF Comp
    <3>2. comps' = [comps EXCEPT ![c] = x]
      BY <1>3 DEF ApproveComp
    <3>. QED
      BY <1>a, <2>2, <3>1, <3>2, RowChanged
  <2>5. quota' \in [Types -> Seq(Int)]
    <3>1. quota' = [quota EXCEPT ![f.type][1] = work[w].read + 2] /\ work[w].read + 2 \in Int
      BY <1>3, <2>2 DEF ApproveComp
    <3>. QED
      BY <1>a, <2>2, <3>1, QuotaChanged
  <2>6. /\ requests' = requests \o (IF f.flag THEN <<NewRequest(l, "Approved", c)>> ELSE <<>>)
        /\ leaves' = leaves \cup
                     (IF f.flag THEN RowsOf(Len(requests) + 1, l, {f.sched}, "Approved") ELSE {})
    BY <1>3 DEF ApproveComp
  <2>7. c \in Nat
    BY <1>c, <2>2
  <2>. HIDE DEF f, l, c
  <2>8. requests' \in Seq(Request) /\ leaves' \subseteq LeaveRow /\ \A m \in leaves' : m.req \in DOMAIN requests'
    <3>1. CASE f.flag
      <4>1. NewRequest(l, "Approved", c) \in Request
        BY <2>3, <2>7, RequestType
      <4>2. requests \o <<NewRequest(l, "Approved", c)>> = Append(requests, NewRequest(l, "Approved", c))
        BY <1>a, <4>1
      <4>3. /\ requests' = Append(requests, NewRequest(l, "Approved", c))
            /\ leaves' = leaves \cup RowsOf(Len(requests) + 1, l, {f.sched}, "Approved")
        BY <2>6, <3>1, <4>2
      <4>. QED
        BY <1>0, <2>3, <2>7, <4>3, Booked
    <3>2. CASE ~ f.flag
      BY <1>a, <2>6, <3>2
    <3>. QED
      BY <3>1, <3>2
  <2>. QED
    BY <1>a, <2>1, <2>4, <2>5, <2>8 DEF TablesOK
<1>4. ASSUME NEW w \in Workers, EditLeave(w) PROVE TablesOK'
  <2>. DEFINE f == work[w].form
              r == work[w].id
              days == LeaveDays(f.first, f.last)
              x == NewRequest(f, "Requested", requests[r].comp)
  <2>1. work[w].at = "edit" /\ UNCHANGED <<today, quota, comps>>
    BY <1>4 DEF EditLeave, Turn
  <2>2. f.type \in Types /\ f.half \in BOOLEAN /\ f.first \in Dates /\ f.last \in Dates
    BY <2>1, FormTypes
  <2>3. r \in DOMAIN requests /\ requests[r].comp \in Nat
    BY <1>b, <2>1 DEF TypeOK, CallOK, Request
  <2>4. x \in Request
    BY <2>2, <2>3, RequestType DEF Statuses
  <2>5. /\ requests' = [requests EXCEPT ![r] = x]
        /\ leaves' = (leaves \ Rows(r)) \cup RowsOf(r, f, days, "Requested")
    BY <1>4 DEF EditLeave
  <2>6. days \in SUBSET Dates
    BY <2>2, DaysAreDates
  <2>7. requests' \in Seq(Request) /\ DOMAIN requests' = DOMAIN requests
    BY <1>a, <2>3, <2>4, <2>5, RowChanged
  <2>8. /\ RowsOf(r, f, days, "Requested") \subseteq LeaveRow
        /\ \A l \in RowsOf(r, f, days, "Requested") : l.req = r
    BY <1>b, <2>2, <2>3, <2>6, RowsOfType DEF Statuses
  <2>9. leaves' \subseteq LeaveRow /\ \A l \in leaves' : l.req \in DOMAIN requests'
    BY <1>a, <2>3, <2>5, <2>7, <2>8
  <2>. QED
    BY <1>a, <2>1, <2>7, <2>9 DEF TablesOK
<1>5. ASSUME NEW w \in Workers, WriteDays(w) PROVE TablesOK'
  <2>. DEFINE r == work[w].id
              s == work[w].to
  <2>1. /\ work[w].at = "days" /\ UNCHANGED <<today, requests, quota, comps>>
        /\ leaves' = (leaves \ Rows(r)) \cup
                     {[l EXCEPT !.status = s] : l \in {m \in Rows(r) : s = "Approved"}}
    BY <1>5 DEF WriteDays, Turn
  <2>2. s \in Statuses
    BY <2>1 DEF TypeOK, CallOK, Statuses
  <2>3. ASSUME NEW l \in leaves PROVE [l EXCEPT !.status = s] \in LeaveRow /\ [l EXCEPT !.status = s].req = l.req
    BY <1>a, <2>2 DEF LeaveRow
  <2>4. ASSUME NEW l \in leaves' PROVE l \in LeaveRow /\ l.req \in DOMAIN requests
    <3>1. l \in leaves \/ \E m \in leaves : l = [m EXCEPT !.status = s]
      BY <2>1 DEF Rows
    <3>. QED
      BY <1>a, <2>3, <3>1
  <2>. QED
    BY <1>a, <2>1, <2>4 DEF TablesOK
<1>6. ASSUME NEW w \in Workers, WriteStatus(w) PROVE TablesOK'
  <2>. DEFINE r == work[w].id
              x == [requests[r] EXCEPT !.status = work[w].to]
  <2>1. work[w].at = "status" /\ UNCHANGED <<today, leaves, quota, comps>>
    BY <1>6 DEF WriteStatus, Turn
  <2>2. r \in DOMAIN requests /\ work[w].to \in Statuses
    BY <2>1 DEF TypeOK, CallOK, Statuses
  <2>3. x \in Request
    BY <1>b, <2>2 DEF Request
  <2>4. requests' = [requests EXCEPT ![r] = x]
    BY <1>6 DEF WriteStatus
  <2>5. requests' \in Seq(Request) /\ DOMAIN requests' = DOMAIN requests
    BY <1>a, <2>2, <2>3, <2>4, RowChanged
  <2>. QED
    BY <1>a, <2>1, <2>5 DEF TablesOK
<1>7. ASSUME NEW w \in Workers, CreateComp(w) PROVE TablesOK'
  <2>1. work[w].at = "newcomp" /\ UNCHANGED <<today, requests, leaves, quota>>
    BY <1>7 DEF CreateComp, Turn
  <2>2. CompRow(work[w].form, "Requested") \in Comp
    BY <2>1 DEF TypeOK, CallOK, CompForm, CompRow, Comp, Statuses
  <2>3. comps' \in Seq(Comp)
    BY <1>7, <1>a, <2>2 DEF CreateComp
  <2>. QED
    BY <1>a, <2>1, <2>3 DEF TablesOK
<1>8. ASSUME NEW w \in Workers, EditComp(w) \/ RejectComp(w) \/ CloseComp(w) PROVE TablesOK'
  <2>. DEFINE c == work[w].id
  <2>1. /\ work[w].at \in {"editcomp", "answer", "closecomp"}
        /\ UNCHANGED <<today, requests, leaves, quota>>
    BY <1>8 DEF EditComp, RejectComp, CloseComp, Turn
  <2>2. c \in DOMAIN comps /\ comps[c] \in Comp
    BY <1>c, <2>1 DEF TypeOK, CallOK
  <2>3. EditComp(w) => work[w].form \in CompForm
    BY DEF EditComp, TypeOK, CallOK
  <2>4. PICK x \in Comp : comps' = [comps EXCEPT ![c] = x]
    <3>1. CASE EditComp(w)
      <4>1. CompRow(work[w].form, comps[c].status) \in Comp
        BY <2>2, <2>3, <3>1 DEF CompForm, CompRow, Comp
      <4>. QED
        BY <3>1, <4>1 DEF EditComp
    <3>2. CASE RejectComp(w)
      <4>1. [comps[c] EXCEPT !.status = "Rejected"] \in Comp
        BY <2>2 DEF Comp, Statuses
      <4>. QED
        BY <3>2, <4>1 DEF RejectComp
    <3>3. CASE CloseComp(w)
      <4>1. [comps[c] EXCEPT !.status = "Cancelled"] \in Comp
        BY <2>2 DEF Comp, Statuses
      <4>. QED
        BY <3>3, <4>1 DEF CloseComp
    <3>. QED
      BY <1>8, <3>1, <3>2, <3>3
  <2>5. comps' \in Seq(Comp)
    BY <1>a, <2>2, <2>4, RowChanged
  <2>. QED
    BY <1>a, <2>1, <2>5 DEF TablesOK
<1>9. ASSUME NEW w \in Workers, SaveDebit(w) PROVE TablesOK'
  <2>1. /\ work[w].at = "savequota" /\ UNCHANGED <<today, requests, leaves, comps>>
        /\ quota' = [quota EXCEPT ![work[w].form.type][1] = work[w].read - 2]
    BY <1>9 DEF SaveDebit, Turn
  <2>2. work[w].form.type \in Types /\ work[w].read - 2 \in Int
    BY <2>1, FormTypes DEF Call
  <2>3. quota' \in [Types -> Seq(Int)]
    BY <1>a, <2>1, <2>2, QuotaChanged
  <2>. QED
    BY <1>a, <2>1, <2>3 DEF TablesOK
<1>10. ASSUME NEW w \in Workers, CreditType(w) PROVE TablesOK'
  <2>1. PICK n \in Amounts : quota' = [quota EXCEPT ![TypeList[work[w].read]] = Append(@, n)]
    BY <1>10 DEF CreditType
  <2>2. work[w].at = "allot" /\ UNCHANGED <<today, requests, leaves, comps>>
    BY <1>10 DEF CreditType, Turn
  <2>3. TypeList[work[w].read] \in Types
    BY <2>2, LeaveConstants DEF TypeOK, CallOK
  <2>4. Append(quota[TypeList[work[w].read]], n) \in Seq(Int)
    <3>1. quota[TypeList[work[w].read]] \in Seq(Int) /\ n \in Int
      BY <1>a, <2>3, LeaveConstants
    <3>. QED
      BY <3>1
  <2>5. quota' \in [Types -> Seq(Int)]
    BY <1>a, <2>1, <2>3, <2>4
  <2>. QED
    BY <1>a, <2>2, <2>5 DEF TablesOK
<1>11. CASE UpdateQuota
  <2>1. PICK t \in Types, n \in Amounts : \E i \in DOMAIN quota[t] : quota' = [quota EXCEPT ![t][i] = n]
    BY <1>11 DEF UpdateQuota
  <2>2. quota' \in [Types -> Seq(Int)]
    BY <1>a, <2>1, QuotaChanged, LeaveConstants
  <2>3. UNCHANGED <<today, requests, leaves, comps>>
    BY <1>11 DEF UpdateQuota
  <2>. QED
    BY <1>a, <2>2, <2>3 DEF TablesOK
<1>12. CASE NextDay
  <2>1. today' \in Dates
    BY <1>a, <1>12, LeaveConstants DEF NextDay, Dates
  <2>. QED
    BY <1>a, <1>12, <2>1 DEF NextDay, tables, TablesOK
<1>13. ASSUME NEW w \in Workers,
              \/ AskLeave(w) \/ AskEdit(w) \/ AskComp(w) \/ AskEditComp(w) \/ AskCancelComp(w)
              \/ ReadDebit(w) \/ AskStatus(w) \/ AskAnswer(w) \/ ReadCredit(w) \/ AskDebit(w)
              \/ AskCredit(w) \/ Die(w)
       PROVE  TablesOK'
  <2>1. UNCHANGED <<today, tables>>
    BY <1>13 DEF AskLeave, AskEdit, AskComp, AskEditComp, AskCancelComp, ReadDebit, AskStatus,
                 AskAnswer, ReadCredit, AskDebit, AskCredit, Die, Start, Turn, tables
  <2>. QED
    BY <1>0, <2>1, TablesSame
<1>14. CASE UNCHANGED vars
  BY <1>0, <1>14, TablesSame DEF vars
<1>. QED
  BY <1>1, <1>2, <1>3, <1>4, <1>5, <1>6, <1>7, <1>8, <1>9, <1>10, <1>11, <1>12, <1>13, <1>14
     DEF Next, Employee, Approver, HR

\* No row of requests or compensatory offs goes away.
LEMMA RowsStay ==
  ASSUME TypeOK, [Next]_vars
  PROVE  DOMAIN requests \subseteq DOMAIN requests' /\ DOMAIN comps \subseteq DOMAIN comps'
<1>1. requests \in Seq(Request) /\ comps \in Seq(Comp)
  BY DEF TypeOK, TablesOK
<1>2. requests' \in Seq(Request) /\ comps' \in Seq(Comp)
  BY TablesStep DEF TablesOK
<1>3. ASSUME NEW w \in Workers, CreateLeave(w) \/ DebitLeave(w)
      PROVE  DOMAIN requests \subseteq DOMAIN requests' /\ comps' = comps
  <2>1. \E x : requests' = Append(requests, x)
    BY <1>3 DEF CreateLeave, DebitLeave
  <2>2. comps' = comps
    BY <1>3 DEF CreateLeave, DebitLeave
  <2>3. PICK x : requests' = Append(requests, x)
    BY <2>1
  <2>. QED
    BY <1>1, <1>2, <2>2, <2>3
<1>4. ASSUME NEW w \in Workers, ApproveComp(w)
      PROVE  DOMAIN requests \subseteq DOMAIN requests' /\ DOMAIN comps \subseteq DOMAIN comps'
  <2>1. (\E x : requests' = requests \o <<x>>) \/ requests' = requests \o <<>>
    BY <1>4 DEF ApproveComp
  <2>2. DOMAIN comps' = DOMAIN comps
    BY <1>4 DEF ApproveComp
  <2>3. CASE \E x : requests' = requests \o <<x>>
    <3>1. PICK x : requests' = requests \o <<x>>
      BY <2>3
    <3>. QED
      BY <1>1, <2>2, <3>1
  <2>4. CASE requests' = requests \o <<>>
    BY <1>1, <2>2, <2>4
  <2>. QED
    BY <2>1, <2>3, <2>4
<1>5. ASSUME NEW w \in Workers, EditLeave(w) \/ WriteStatus(w)
      PROVE  DOMAIN requests' = DOMAIN requests /\ comps' = comps
  BY <1>5 DEF EditLeave, WriteStatus
<1>6. ASSUME NEW w \in Workers, CreateComp(w)
      PROVE  requests' = requests /\ DOMAIN comps \subseteq DOMAIN comps'
  <2>1. \E x : comps' = Append(comps, x)
    BY <1>6 DEF CreateComp
  <2>2. requests' = requests
    BY <1>6 DEF CreateComp
  <2>. QED
    BY <1>1, <1>2, <2>1, <2>2
<1>7. ASSUME NEW w \in Workers, EditComp(w) \/ RejectComp(w) \/ CloseComp(w)
      PROVE  requests' = requests /\ DOMAIN comps' = DOMAIN comps
  BY <1>7 DEF EditComp, RejectComp, CloseComp
<1>8. ASSUME NEW w \in Workers,
             \/ AskLeave(w) \/ AskEdit(w) \/ AskComp(w) \/ AskEditComp(w) \/ AskCancelComp(w)
             \/ ReadDebit(w) \/ AskStatus(w) \/ AskAnswer(w) \/ ReadCredit(w) \/ AskDebit(w)
             \/ AskCredit(w) \/ Die(w) \/ WriteDays(w) \/ SaveDebit(w) \/ CreditType(w)
      PROVE  UNCHANGED <<requests, comps>>
  BY <1>8 DEF AskLeave, AskEdit, AskComp, AskEditComp, AskCancelComp, ReadDebit, AskStatus, AskAnswer,
              ReadCredit, AskDebit, AskCredit, Die, WriteDays, SaveDebit, CreditType, Start, Turn, tables
<1>9. CASE UpdateQuota \/ NextDay \/ UNCHANGED vars
  BY <1>9 DEF UpdateQuota, NextDay, vars, tables
<1>. QED
  BY <1>3, <1>4, <1>5, <1>6, <1>7, <1>8, <1>9 DEF Next, Employee, Approver, HR

\* A step of one call, to a call that is well typed in the new state.
LEMMA OneCall ==
  ASSUME TypeOK, [Next]_vars, NEW w \in Workers, NEW now \in Call, work' = [work EXCEPT ![w] = now],
         CallOK(now)'
  PROVE  work' \in [Workers -> Call] /\ \A v \in Workers : CallOK(work[v])'
<1>1. work \in [Workers -> Call] /\ \A v \in Workers : CallOK(work[v])
  BY DEF TypeOK
<1>2. work' \in [Workers -> Call]
  BY <1>1
<1>3. ASSUME NEW v \in Workers PROVE CallOK(work[v])'
  <2>1. CASE v = w
    BY <1>1, <2>1 DEF CallOK
  <2>2. CASE v # w
    <3>1. work'[v] = work[v] /\ CallOK(work[v])
      BY <1>1, <2>2
    <3>. QED
      BY <3>1, RowsStay DEF CallOK
  <2>. QED
    BY <2>1, <2>2
<1>. QED
  BY <1>2, <1>3

LEMMA IdleTo == Idle.to = "none"
BY DEF Idle

LEMMA IdleCall == Idle \in Call /\ CallOK(Idle)'
BY DEF Idle, Call, CallOK, Steps, Forms

\* Every step keeps the calls well typed.
LEMMA CallsStep ==
  ASSUME TypeOK, [Next]_vars
  PROVE  work' \in [Workers -> Call] /\ \A w \in Workers : CallOK(work[w])'
<1>. DEFINE CallsOK == work' \in [Workers -> Call] /\ \A w \in Workers : CallOK(work[w])'
<1>a. work \in [Workers -> Call] /\ \A w \in Workers : work[w] \in Call /\ CallOK(work[w])
  BY DEF TypeOK
<1>b. /\ \A r \in DOMAIN requests : r \in Nat /\ r \in DOMAIN requests'
      /\ \A c \in DOMAIN comps : c \in Nat /\ c \in DOMAIN comps' /\ comps[c] \in Comp
  BY RowsStay DEF TypeOK, TablesOK
<1>c. /\ LeaveForms \subseteq LeaveForm /\ CompForms \subseteq CompForm
      /\ NoForm \in Forms /\ LeaveForm \subseteq Forms /\ CompForm \subseteq Forms /\ Comp \subseteq Forms
  BY LeaveConstants DEF Forms
<1>1. ASSUME NEW w \in Workers, AskLeave(w) \/ AskEdit(w) PROVE CallsOK
  <2>1. CASE AskLeave(w)
    <3>1. PICK f \in LeaveForms : Valid(f, 0) /\ work' = [work EXCEPT ![w] = [Idle EXCEPT !.at = "create", !.form = f]]
      BY <2>1 DEF AskLeave, Start
    <3>. DEFINE now == [Idle EXCEPT !.at = "create", !.form = f]
    <3>2. now \in Call
      BY <1>c, IdleCall DEF Call, Steps
    <3>3. CallOK(now)'
      BY <1>c, <3>1 DEF Idle, CallOK, Valid
    <3>. QED
      BY <3>1, <3>2, <3>3, OneCall
  <2>2. CASE AskEdit(w)
    <3>1. PICK r \in DOMAIN requests, f \in LeaveForms :
            Valid(f, r) /\ work' = [work EXCEPT ![w] = [Idle EXCEPT !.at = "edit", !.id = r, !.form = f]]
      BY <2>2 DEF AskEdit, Start
    <3>. DEFINE now == [Idle EXCEPT !.at = "edit", !.id = r, !.form = f]
    <3>2. now \in Call
      BY <1>b, <1>c, IdleCall DEF Call, Steps
    <3>3. CallOK(now)'
      BY <1>b, <1>c, <3>1 DEF Idle, CallOK, Valid
    <3>. QED
      BY <3>1, <3>2, <3>3, OneCall
  <2>. QED
    BY <1>1, <2>1, <2>2
<1>2. ASSUME NEW w \in Workers, AskStatus(w) PROVE CallsOK
  <2>1. PICK r \in DOMAIN requests, s \in {"Approved", "Cancelled", "Rejected"} :
          work' = [work EXCEPT ![w] = [Idle EXCEPT !.at = "days", !.id = r, !.to = s]]
    BY <1>2 DEF AskStatus, Start
  <2>. DEFINE now == [Idle EXCEPT !.at = "days", !.id = r, !.to = s]
  <2>2. now \in Call
    BY <1>b, IdleCall DEF Call, Steps, Statuses
  <2>3. CallOK(now)'
    BY <1>b DEF Idle, CallOK
  <2>. QED
    BY <2>1, <2>2, <2>3, OneCall
<1>3. ASSUME NEW w \in Workers, AskDebit(w) PROVE CallsOK
  <2>1. PICK d \in Dates, t \in DebitTypes :
          work' = [work EXCEPT ![w] = [Idle EXCEPT !.at = "debit",
                     !.form = [type |-> t, first |-> d, last |-> d, half |-> FALSE]]]
    BY <1>3 DEF AskDebit, Start
  <2>. DEFINE f == [type |-> t, first |-> d, last |-> d, half |-> FALSE]
              now == [Idle EXCEPT !.at = "debit", !.form = f]
  <2>2. t \in Types
    BY LeaveConstants DEF DebitTypes
  <2>3. f \in LeaveForm
    BY <2>2 DEF LeaveForm
  <2>4. now \in Call
    BY <1>b, <1>c, <2>3, IdleCall DEF Call, Steps
  <2>5. CallOK(now)'
    BY <2>3 DEF Idle, CallOK
  <2>. QED
    BY <2>1, <2>4, <2>5, OneCall
<1>4. ASSUME NEW w \in Workers, AskComp(w) \/ AskEditComp(w) PROVE CallsOK
  <2>1. CASE AskComp(w)
    <3>1. PICK f \in CompForms : work' = [work EXCEPT ![w] = [Idle EXCEPT !.at = "newcomp", !.form = f]]
      BY <2>1 DEF AskComp, Start
    <3>. DEFINE now == [Idle EXCEPT !.at = "newcomp", !.form = f]
    <3>2. now \in Call
      BY <1>c, IdleCall DEF Call, Steps
    <3>3. CallOK(now)'
      BY <1>c DEF Idle, CallOK
    <3>. QED
      BY <3>1, <3>2, <3>3, OneCall
  <2>2. CASE AskEditComp(w)
    <3>1. PICK c \in DOMAIN comps, f \in CompForms :
            work' = [work EXCEPT ![w] = [Idle EXCEPT !.at = "editcomp", !.id = c, !.form = f]]
      BY <2>2 DEF AskEditComp, Start
    <3>. DEFINE now == [Idle EXCEPT !.at = "editcomp", !.id = c, !.form = f]
    <3>2. now \in Call
      BY <1>b, <1>c, IdleCall DEF Call, Steps
    <3>3. CallOK(now)'
      BY <1>b, <1>c DEF Idle, CallOK
    <3>. QED
      BY <3>1, <3>2, <3>3, OneCall
  <2>. QED
    BY <1>4, <2>1, <2>2
<1>5. ASSUME NEW w \in Workers, AskAnswer(w) \/ AskCancelComp(w) PROVE CallsOK
  <2>1. PICK c \in DOMAIN comps, at \in {"answer", "uncredit", "closecomp"}, s \in {"none"} \cup Statuses :
          work' = [work EXCEPT ![w] = [Idle EXCEPT !.at = at, !.id = c, !.form = comps[c], !.to = s]]
    <3>1. CASE AskAnswer(w)
      BY <3>1 DEF AskAnswer, Start, Statuses
    <3>2. CASE AskCancelComp(w)
      <4>1. PICK c \in DOMAIN comps :
              work' = [work EXCEPT ![w] =
                [Idle EXCEPT !.at = IF comps[c].status = "Approved" THEN "uncredit" ELSE "closecomp",
                             !.id = c, !.form = comps[c]]]
        BY <3>2 DEF AskCancelComp, Start
      <4>. DEFINE at == IF comps[c].status = "Approved" THEN "uncredit" ELSE "closecomp"
      <4>2. [Idle EXCEPT !.at = at, !.id = c, !.form = comps[c]]
              = [Idle EXCEPT !.at = at, !.id = c, !.form = comps[c], !.to = "none"]
        BY <1>c, IdleCall, IdleTo DEF Call
      <4>. QED
        BY <4>1, <4>2
    <3>. QED
      BY <1>5, <3>1, <3>2
  <2>2. PICK f \in Comp : f = comps[c]
    BY <1>b
  <2>. DEFINE now == [Idle EXCEPT !.at = at, !.id = c, !.form = f, !.to = s]
  <2>3. now \in Call
    <3>1. f \in Forms /\ c \in Nat /\ at \in Steps
      BY <1>b, <1>c DEF Steps
    <3>. QED
      BY <3>1, IdleCall DEF Call
  <2>4. CallOK(now)'
    BY <1>b DEF Idle, CallOK
  <2>. QED
    BY <2>1, <2>2, <2>3, <2>4, OneCall
<1>6. ASSUME NEW w \in Workers, AskCredit(w) PROVE CallsOK
  <2>. DEFINE now == [Idle EXCEPT !.at = "allot", !.read = 1]
  <2>1. 1 \in DOMAIN TypeList
    BY LeaveConstants DEF Types
  <2>2. work' = [work EXCEPT ![w] = now]
    BY <1>6 DEF AskCredit, Start
  <2>3. now \in Call
    <3>1. "allot" \in Steps /\ 1 \in Int
      BY DEF Steps
    <3>. QED
      BY <3>1, IdleCall DEF Call
  <2>4. CallOK(now)'
    BY <2>1 DEF Idle, CallOK
  <2>. QED
    BY <2>2, <2>3, <2>4, OneCall
<1>7. ASSUME NEW w \in Workers, CreditType(w) PROVE CallsOK
  <2>. DEFINE i == work[w].read
  <2>1. work' = [work EXCEPT ![w] = IF i = Len(TypeList) THEN Idle ELSE [work[w] EXCEPT !.read = i + 1]]
    BY <1>7 DEF CreditType, Turn
  <2>2. work[w].at = "allot" /\ i \in DOMAIN TypeList
    BY <1>7 DEF CreditType, TypeOK, CallOK
  <2>3. i # Len(TypeList) => i + 1 \in DOMAIN TypeList /\ i + 1 \in Int
    BY <2>2, LeaveConstants
  <2>4. PICK c \in Call : c = work[w]
    BY <1>a
  <2>5. PICK j : j = i
    OBVIOUS
  <2>. DEFINE now == [c EXCEPT !.read = j + 1]
  <2>6. j # Len(TypeList) => now \in Call /\ now.at = "allot" /\ now.read \in DOMAIN TypeList
    BY <2>2, <2>3, <2>4, <2>5 DEF Call
  <2>7. j # Len(TypeList) => CallOK(now)'
    BY <2>6 DEF CallOK
  <2>. HIDE DEF now
  <2>8. CASE j # Len(TypeList)
    <3>1. work' = [work EXCEPT ![w] = now]
      BY <2>1, <2>4, <2>5, <2>8 DEF now
    <3>. QED
      BY <2>6, <2>7, <2>8, <3>1, OneCall
  <2>9. CASE j = Len(TypeList)
    BY <2>1, <2>5, <2>9, IdleCall, OneCall
  <2>. QED
    BY <2>8, <2>9
<1>8. ASSUME NEW w \in Workers, ReadCredit(w) \/ ReadDebit(w) PROVE CallsOK
  <2>. DEFINE t == work[w].form.type
  <2>1. work[w].at \in {"answer", "uncredit"}
    BY <1>8 DEF ReadCredit, ReadDebit
  <2>2. t \in Types /\ work[w].form \in Comp /\ work[w].id \in DOMAIN comps
    BY <2>1, FormTypes DEF TypeOK, CallOK
  <2>3. PICK at \in {"credit", "savequota"} :
          work' = [work EXCEPT ![w] = IF Len(quota[t]) = 1
                                      THEN [work[w] EXCEPT !.at = at, !.read = quota[t][1]] ELSE Idle]
    BY <1>8 DEF ReadCredit, ReadDebit, Turn
  <2>4. Len(quota[t]) = 1 => quota[t][1] \in Int
    <3>1. quota[t] \in Seq(Int)
      BY <2>2 DEF TypeOK, TablesOK
    <3>. QED
      BY <3>1
  <2>5. PICK c \in Call : c = work[w]
    BY <1>a
  <2>6. CASE Len(quota[t]) = 1
    <3>1. PICK n \in Int : n = quota[t][1]
      BY <2>4, <2>6
    <3>. DEFINE now == [c EXCEPT !.at = at, !.read = n]
    <3>2. now \in Call /\ now.at = at /\ now.id = c.id /\ now.form = c.form
      BY DEF Call, Steps
    <3>3. CallOK(now)'
      BY <1>b, <2>2, <2>5, <3>2 DEF CallOK
    <3>. QED
      BY <2>3, <2>5, <2>6, <3>1, <3>2, <3>3, OneCall
  <2>7. CASE Len(quota[t]) # 1
    BY <2>3, <2>7, IdleCall, OneCall
  <2>. QED
    BY <2>6, <2>7
<1>9. ASSUME NEW w \in Workers, SaveDebit(w) \/ WriteDays(w) PROVE CallsOK
  <2>1. PICK c \in Call : c = work[w]
    BY <1>a
  <2>2. PICK at \in {"closecomp", "status"} :
          /\ work' = [work EXCEPT ![w] = [c EXCEPT !.at = at]]
          /\ at = "closecomp" => c.at = "savequota"
          /\ at = "status" => c.at = "days"
    BY <1>9, <2>1 DEF SaveDebit, WriteDays, Turn
  <2>. DEFINE now == [c EXCEPT !.at = at]
  <2>3. now \in Call /\ now.at = at /\ now.id = c.id /\ now.to = c.to
    BY DEF Call, Steps
  <2>4. CallOK(now)'
    BY <1>a, <1>b, <2>1, <2>2, <2>3 DEF CallOK
  <2>. QED
    BY <2>2, <2>3, <2>4, OneCall
<1>10. ASSUME NEW w \in Workers, CloseComp(w) PROVE CallsOK
  <2>1. PICK c : c = work[w].id
    OBVIOUS
  <2>2. work' = [work EXCEPT ![w] = IF Cardinality(LinkedTo(c)) = 1
                 THEN [Idle EXCEPT !.at = "days", !.id = CHOOSE r \in LinkedTo(c) : TRUE, !.to = "Cancelled"]
                 ELSE Idle]
    BY <1>10, <2>1 DEF CloseComp, Turn
  <2>3. CASE Cardinality(LinkedTo(c)) = 1
    <3>1. LinkedTo(c) # {}
      BY <2>3, FS_EmptySet
    <3>2. PICK r \in DOMAIN requests : r = CHOOSE x \in LinkedTo(c) : TRUE
      BY <3>1 DEF LinkedTo
    <3>. DEFINE now == [Idle EXCEPT !.at = "days", !.id = r, !.to = "Cancelled"]
    <3>3. now \in Call
      BY <1>b, IdleCall DEF Call, Steps, Statuses
    <3>4. CallOK(now)'
      BY <1>b DEF Idle, CallOK
    <3>. QED
      BY <2>2, <2>3, <3>2, <3>3, <3>4, OneCall
  <2>4. CASE Cardinality(LinkedTo(c)) # 1
    BY <2>2, <2>4, IdleCall, OneCall
  <2>. QED
    BY <2>3, <2>4
<1>11. ASSUME NEW w \in Workers,
              \/ CreateLeave(w) \/ EditLeave(w) \/ WriteStatus(w) \/ DebitLeave(w) \/ CreateComp(w)
              \/ EditComp(w) \/ RejectComp(w) \/ ApproveComp(w) \/ Die(w)
       PROVE  CallsOK
  <2>1. work' = [work EXCEPT ![w] = Idle]
    BY <1>11 DEF CreateLeave, EditLeave, WriteStatus, DebitLeave, CreateComp, EditComp, RejectComp,
                 ApproveComp, Die, Turn
  <2>. QED
    BY <2>1, IdleCall, OneCall
<1>12. CASE UpdateQuota \/ NextDay \/ UNCHANGED vars
  <2>1. work' = work
    BY <1>12 DEF UpdateQuota, NextDay, vars
  <2>. QED
    BY <1>a, <2>1, RowsStay DEF CallOK
<1>. QED
  BY <1>1, <1>2, <1>3, <1>4, <1>5, <1>6, <1>7, <1>8, <1>9, <1>10, <1>11, <1>12
     DEF Next, Employee, Approver, HR

\* Bounds and history variables.
LEMMA RestStep ==
  ASSUME TypeOK, [Next]_vars
  PROVE  /\ calls' \in 0 .. MaxCalls /\ kills' \in 0 .. MaxKills
         /\ fresh' \subseteq Workers /\ torn' \subseteq DOMAIN requests' /\ explained' \subseteq Types
<1>. DEFINE Counted == /\ calls' = calls \/ (calls < MaxCalls /\ calls' = calls + 1)
                       /\ kills' = kills \/ (kills < MaxKills /\ kills' = kills + 1)
                       /\ fresh' = fresh \/ fresh' = {} \/ \E w \in Workers : fresh' = fresh \cup {w}
<1>1. Counted
  <2>1. ASSUME NEW w \in Workers,
               \/ AskLeave(w) \/ AskEdit(w) \/ AskComp(w) \/ AskEditComp(w) \/ AskCancelComp(w)
               \/ AskStatus(w) \/ AskAnswer(w) \/ AskDebit(w) \/ AskCredit(w)
        PROVE  Counted
    BY <2>1 DEF AskLeave, AskEdit, AskComp, AskEditComp, AskCancelComp, AskStatus, AskAnswer,
                AskDebit, AskCredit, Start
  <2>2. ASSUME NEW w \in Workers,
               \/ CreateLeave(w) \/ EditLeave(w) \/ CreateComp(w) \/ EditComp(w) \/ ReadDebit(w)
               \/ SaveDebit(w) \/ CloseComp(w)
        PROVE  Counted
    BY <2>2 DEF CreateLeave, EditLeave, CreateComp, EditComp, ReadDebit, SaveDebit, CloseComp,
                Turn, Outdate, history
  <2>3. ASSUME NEW w \in Workers,
               \/ WriteDays(w) \/ WriteStatus(w) \/ RejectComp(w) \/ ReadCredit(w) \/ ApproveComp(w)
               \/ DebitLeave(w) \/ CreditType(w)
        PROVE  Counted
    BY <2>3 DEF WriteDays, WriteStatus, RejectComp, ReadCredit, ApproveComp, DebitLeave, CreditType,
                Turn, Outdate, history
  <2>4. ASSUME NEW w \in Workers, Die(w) PROVE Counted
    BY <2>4 DEF Die
  <2>5. CASE UpdateQuota
    BY <2>5 DEF UpdateQuota, Outdate
  <2>6. CASE NextDay \/ UNCHANGED vars
    BY <2>6 DEF NextDay, vars, history
  <2>. QED
    BY <2>1, <2>2, <2>3, <2>4, <2>5, <2>6 DEF Next, Employee, Approver, HR
<1>2. /\ calls \in 0 .. MaxCalls /\ kills \in 0 .. MaxKills
      /\ fresh \subseteq Workers
  BY DEF TypeOK
<1>3. torn' \subseteq DOMAIN requests
  <2>1. torn \subseteq DOMAIN requests
    BY DEF TypeOK
  <2>2. ASSUME NEW w \in Workers, EditLeave(w) \/ WriteDays(w) \/ WriteStatus(w) PROVE torn' \subseteq DOMAIN requests
    <3>1. work[w].id \in DOMAIN requests /\ torn' = torn \cup {x \in {work[w].id} : Shared(w, work[w].id)}
      BY <2>2 DEF EditLeave, WriteDays, WriteStatus, Tear, TypeOK, CallOK
    <3>. QED
      BY <2>1, <3>1
  <2>3. ASSUME NEW w \in Workers, Die(w) PROVE torn' \subseteq DOMAIN requests
    <3>1. torn' = torn \cup {r \in {work[w].id} : work[w].at = "status"}
      BY <2>3 DEF Die
    <3>2. work[w].at = "status" => work[w].id \in DOMAIN requests
      BY DEF TypeOK, CallOK
    <3>. QED
      BY <2>1, <3>1, <3>2
  <2>4. \/ torn' = torn
        \/ \E w \in Workers : EditLeave(w) \/ WriteDays(w) \/ WriteStatus(w) \/ Die(w)
    BY ZenonT(60) DEF Next, Employee, Approver, HR, vars, AskLeave, CreateLeave, AskEdit, AskComp, CreateComp,
           AskEditComp, EditComp, AskCancelComp, ReadDebit, SaveDebit, CloseComp, AskStatus, AskAnswer,
           RejectComp, ReadCredit, ApproveComp, AskDebit, DebitLeave, AskCredit, CreditType, UpdateQuota,
           NextDay, Start, history
  <2>. QED
    BY <2>1, <2>2, <2>3, <2>4
<1>4. explained' \subseteq Types
  <2>1. explained \subseteq Types
    BY DEF TypeOK
  <2>2. ASSUME NEW w \in Workers,
               CreateLeave(w) \/ EditLeave(w) \/ DebitLeave(w) \/ ApproveComp(w) \/ SaveDebit(w)
        PROVE  explained' \subseteq Types
    <3>1. work[w].form.type \in Types
      BY <2>2, FormTypes DEF CreateLeave, EditLeave, DebitLeave, ApproveComp, SaveDebit
    <3>2. explained' \subseteq explained \cup {work[w].form.type}
      BY <2>2 DEF CreateLeave, EditLeave, DebitLeave, ApproveComp, SaveDebit, Explain
    <3>. QED
      BY <2>1, <3>1, <3>2
  <2>3. CASE UpdateQuota
    BY <2>1, <2>3 DEF UpdateQuota, Explain
  <2>4. \/ explained' = explained \/ UpdateQuota
        \/ \E w \in Workers :
             CreateLeave(w) \/ EditLeave(w) \/ DebitLeave(w) \/ ApproveComp(w) \/ SaveDebit(w)
    BY ZenonT(60) DEF Next, Employee, Approver, HR, vars, AskLeave, AskEdit, AskComp, CreateComp, AskEditComp,
           EditComp, AskCancelComp, ReadDebit, CloseComp, AskStatus, WriteDays, WriteStatus, AskAnswer,
           RejectComp, ReadCredit, AskDebit, AskCredit, CreditType, Die, NextDay, Start, history
  <2>. QED
    BY <2>1, <2>2, <2>3, <2>4
<1>. QED
  BY <1>1, <1>2, <1>3, <1>4, RowsStay, LeaveConstants

\* The tables and the calls of Leave stay well typed, and no call is about a row that is not there.
THEOREM TypeCorrect == Spec => []TypeOK
<1>1. TypeOK /\ [Next]_vars => TypeOK'
  BY TablesStep, CallsStep, RestStep DEF TypeOK
<1>. QED
  BY <1>1, TypeInit, PTL DEF Spec

----------------------------------------------------------------------------
(* What a step changes of a request and its days. *)

\* Statuses other than "Cancelled" are no matter of the days a request is for.
LEMMA SameDays ==
  ASSUME NEW p, NEW q, p.first = q.first, p.last = q.last, p.type = q.type, p.half = q.half, NEW R, Whole(p, R)
  PROVE  Whole(q, R)
BY DEF Whole, DaysOf

LEMMA WholeBooked ==
  ASSUME NEW r \in Nat, NEW f, f.type \in Types, f.half \in BOOLEAN,
         DaysOf(f) \in SUBSET Dates, NEW s \in Statuses, NEW t, NEW c
  PROVE  Whole(NewRequest(f, t, c), RowsOf(r, f, DaysOf(f), s))
<1>. DEFINE R == RowsOf(r, f, DaysOf(f), s)
            q == NewRequest(f, t, c)
<1>1. \A l \in R : l.type = f.type /\ l.half = f.half /\ l.status = s
  BY RowsOfType
<1>2. {l.date : l \in R} = DaysOf(f)
  BY RowsOfDays
<1>3. q.first = f.first /\ q.last = f.last /\ q.type = f.type /\ q.half = f.half
  BY DEF NewRequest
<1>. HIDE DEF R, q
<1>. QED
  BY <1>1, <1>2, <1>3 DEF Whole, DaysOf, R, q

LEMMA WholeAnswered ==
  ASSUME NEW q, NEW R \in SUBSET LeaveRow, NEW s \in Statuses, Whole(q, R)
  PROVE  Whole(q, {[l EXCEPT !.status = s] : l \in R})
<1>. DEFINE new(l) == [l EXCEPT !.status = s]
            N == {new(l) : l \in R}
<1>1. \A l \in R : /\ new(l).date = l.date /\ new(l).type = l.type /\ new(l).half = l.half
                  /\ new(l).status = s
  BY DEF LeaveRow
<1>. HIDE DEF new
<1>2. {m.date : m \in N} = {l.date : l \in R}
  <2>1. ASSUME NEW l \in R PROVE \E m \in N : m.date = l.date
    BY <1>1
  <2>2. ASSUME NEW m \in N PROVE \E l \in R : m.date = l.date
    BY <1>1
  <2>. QED
    BY <2>1, <2>2
<1>3. \A m \in N : \E l \in R : m = new(l)
  OBVIOUS
<1>4. N # {} => R # {}
  BY <1>3
<1>5. Whole(q, N)
  BY <1>1, <1>2, <1>3, <1>4 DEF Whole
<1>. QED
  BY <1>5 DEF new

\* The days a valid form is for.
LEMMA FormDays ==
  ASSUME NEW f, f.first \in Dates, f.last \in Dates, f.first <= f.last, {f.first, f.last} \cap OffDays = {}
  PROVE  LeaveDays(f.first, f.last) = DaysOf(f) /\ DaysOf(f) \in SUBSET Dates /\ DaysOf(f) # {}
<1>1. f.first \in LeaveDays(f.first, f.last)
  BY LeaveConstants DEF LeaveDays, Dates
<1>2. f.first = f.last => LeaveDays(f.first, f.last) = {f.first}
  BY LeaveConstants DEF LeaveDays, Dates
<1>. QED
  BY <1>1, <1>2, DaysAreDates DEF DaysOf

\* A step adds a request with the days it is for,
Adding(f, s, c) ==
  /\ f.type \in Types /\ f.half \in BOOLEAN /\ f.first \in Dates /\ f.last \in Dates
  /\ DaysOf(f) \in SUBSET Dates /\ DaysOf(f) # {}
  /\ s \in {"Requested", "Approved"} /\ c \in Nat
  /\ requests' = Append(requests, NewRequest(f, s, c))
  /\ leaves' = leaves \cup RowsOf(Len(requests) + 1, f, DaysOf(f), s)

Adds == \E f, s, c : Adding(f, s, c)

LEMMA AddingSteps ==
  ASSUME TypeOK, NEW w \in Workers,
         CreateLeave(w) \/ DebitLeave(w) \/ (ApproveComp(w) /\ work[w].form.flag)
  PROVE  Adds
<1>1. CASE CreateLeave(w)
  <2>. DEFINE f == work[w].form
  <2>1. work[w].at = "create"
    BY <1>1 DEF CreateLeave
  <2>2. /\ f.type \in Types /\ f.half \in BOOLEAN /\ f.first \in Dates /\ f.last \in Dates
        /\ f.first <= f.last /\ {f.first, f.last} \cap OffDays = {}
    BY <2>1, FormTypes DEF TypeOK, CallOK
  <2>3. /\ requests' = Append(requests, NewRequest(f, "Requested", 0))
        /\ leaves' = leaves \cup RowsOf(Len(requests) + 1, f, LeaveDays(f.first, f.last), "Requested")
    BY <1>1 DEF CreateLeave
  <2>. HIDE DEF f
  <2>4. Adding(f, "Requested", 0)
    BY <2>2, <2>3, FormDays DEF Adding
  <2>. QED
    BY <2>4 DEF Adds
<1>2. CASE DebitLeave(w)
  <2>. DEFINE f == work[w].form
  <2>1. work[w].at = "debit"
    BY <1>2 DEF DebitLeave
  <2>2. /\ f.type \in Types /\ f.half \in BOOLEAN /\ f.first \in Dates /\ f.last \in Dates
        /\ f.first = f.last
    BY <2>1, FormTypes DEF TypeOK, CallOK
  <2>3. /\ requests' = Append(requests, NewRequest(f, "Approved", 0))
        /\ leaves' = leaves \cup RowsOf(Len(requests) + 1, f, {f.first}, "Approved")
    BY <1>2 DEF DebitLeave
  <2>. HIDE DEF f
  <2>4. DaysOf(f) = {f.first}
    BY <2>2 DEF DaysOf
  <2>5. Adding(f, "Approved", 0)
    BY <2>2, <2>3, <2>4 DEF Adding
  <2>. QED
    BY <2>5 DEF Adds
<1>3. CASE ApproveComp(w) /\ work[w].form.flag
  <2>. DEFINE l == Scheduled(work[w].form)
              c == work[w].id
  <2>1. work[w].at = "credit"
    BY <1>3 DEF ApproveComp
  <2>2. work[w].form.type \in Types /\ work[w].form.sched \in Dates /\ c \in Nat
    BY <2>1, FormTypes DEF Call
  <2>3. /\ l.type \in Types /\ l.half \in BOOLEAN /\ l.first \in Dates /\ l.last \in Dates
        /\ DaysOf(l) = {work[w].form.sched}
    BY <2>2 DEF Scheduled, DaysOf
  <2>4. /\ requests' = requests \o <<NewRequest(l, "Approved", c)>>
        /\ leaves' = leaves \cup RowsOf(Len(requests) + 1, l, DaysOf(l), "Approved")
    BY <1>3, <2>3 DEF ApproveComp
  <2>. HIDE DEF l, c
  <2>5. requests \o <<NewRequest(l, "Approved", c)>> = Append(requests, NewRequest(l, "Approved", c))
    <3>1. requests \in Seq(Request) /\ NewRequest(l, "Approved", c) \in Request
      BY <2>2, <2>3, RequestType DEF TypeOK, TablesOK, Statuses
    <3>. QED
      BY <3>1
  <2>6. Adding(l, "Approved", c)
    BY <2>2, <2>3, <2>4, <2>5 DEF Adding
  <2>. QED
    BY <2>6 DEF Adds
<1>. QED
  BY <1>1, <1>2, <1>3

\* it writes one request and its days anew,
LEMMA EditingStep ==
  ASSUME TypeOK, NEW w \in Workers, EditLeave(w)
  PROVE  \E f, c, r :
           /\ c \in Nat /\ r \in DOMAIN requests /\ r = work[w].id
           /\ f.type \in Types /\ f.half \in BOOLEAN /\ DaysOf(f) \in SUBSET Dates /\ DaysOf(f) # {}
           /\ requests' = [requests EXCEPT ![r] = NewRequest(f, "Requested", c)]
           /\ Rows(r)' = RowsOf(r, f, DaysOf(f), "Requested")
           /\ \A q \in DOMAIN requests \ {r} : Rows(q)' = Rows(q)
<1>1. PICK f, r : f = work[w].form /\ r = work[w].id
  OBVIOUS
<1>2. work[w].at = "edit"
  BY DEF EditLeave
<1>3. /\ f.type \in Types /\ f.half \in BOOLEAN /\ f.first \in Dates /\ f.last \in Dates
      /\ f.first <= f.last /\ {f.first, f.last} \cap OffDays = {}
      /\ r \in DOMAIN requests
  BY <1>1, <1>2, FormTypes DEF TypeOK, CallOK
<1>4. requests[r].comp \in Nat /\ r \in Nat
  <2>1. requests \in Seq(Request)
    BY DEF TypeOK, TablesOK
  <2>2. requests[r] \in Request /\ r \in Nat
    BY <1>3, <2>1
  <2>. QED
    BY <2>2 DEF Request
<1>5. /\ requests' = [requests EXCEPT ![r] = NewRequest(f, "Requested", requests[r].comp)]
      /\ leaves' = (leaves \ Rows(r)) \cup RowsOf(r, f, LeaveDays(f.first, f.last), "Requested")
  BY <1>1 DEF EditLeave
<1>6. LeaveDays(f.first, f.last) = DaysOf(f) /\ DaysOf(f) \in SUBSET Dates /\ DaysOf(f) # {}
  BY <1>3, FormDays
<1>7. \A l \in RowsOf(r, f, DaysOf(f), "Requested") : l.req = r
  BY <1>3, <1>4, <1>6, RowsOfType DEF Statuses
<1>8. leaves' = {l \in leaves : l.req # r} \cup RowsOf(r, f, DaysOf(f), "Requested")
  BY <1>5, <1>6 DEF Rows
<1>9. Rows(r)' = RowsOf(r, f, DaysOf(f), "Requested")
  BY <1>7, <1>8 DEF Rows
<1>10. \A q \in DOMAIN requests \ {r} : Rows(q)' = Rows(q)
  BY <1>7, <1>8 DEF Rows
<1>. QED
  BY <1>1, <1>3, <1>4, <1>5, <1>6, <1>9, <1>10

\* it changes the status of the days of one request, or removes them,
LEMMA AnsweringStep ==
  ASSUME TypeOK, NEW w \in Workers, WriteDays(w)
  PROVE  \E r \in DOMAIN requests, s \in {"Approved", "Cancelled", "Rejected"} :
           /\ r = work[w].id /\ s = work[w].to
           /\ Rows(r) \in SUBSET LeaveRow
           /\ Rows(r)' = IF s = "Approved" THEN {[l EXCEPT !.status = s] : l \in Rows(r)} ELSE {}
           /\ \A q \in DOMAIN requests \ {r} : Rows(q)' = Rows(q)
           /\ requests' = requests
<1>1. PICK s, r : s = work[w].to /\ r = work[w].id
  OBVIOUS
<1>2. r \in DOMAIN requests /\ s \in {"Approved", "Cancelled", "Rejected"}
  BY <1>1 DEF WriteDays, TypeOK, CallOK
<1>3. leaves \subseteq LeaveRow
  BY DEF TypeOK, TablesOK
<1>. DEFINE new(l) == [l EXCEPT !.status = s]
            N == {new(l) : l \in {m \in Rows(r) : s = "Approved"}}
<1>4. requests' = requests /\ leaves' = (leaves \ Rows(r)) \cup N
  BY <1>1 DEF WriteDays
<1>5. \A l \in Rows(r) : new(l).req = r
  BY <1>3 DEF Rows, LeaveRow
<1>6. \A m \in N : m.req = r
  BY <1>5
<1>7. N = IF s = "Approved" THEN {new(l) : l \in Rows(r)} ELSE {}
  OBVIOUS
<1>. HIDE DEF N, new
<1>8. leaves' = {l \in leaves : l.req # r} \cup N
  BY <1>4 DEF Rows
<1>9. Rows(r)' = N /\ \A q \in DOMAIN requests \ {r} : Rows(q)' = Rows(q)
  BY <1>6, <1>8 DEF Rows
<1>10. Rows(r) \in SUBSET LeaveRow
  BY <1>3 DEF Rows
<1>. QED
  BY <1>1, <1>2, <1>4, <1>7, <1>9, <1>10 DEF new

\* it changes the status of one request, or nothing of the two tables.
LEMMA OtherSteps ==
  ASSUME TypeOK, [Next]_vars
  PROVE  \/ Adds
         \/ \E w \in Workers : EditLeave(w) \/ WriteDays(w) \/ WriteStatus(w)
         \/ UNCHANGED <<requests, leaves>>
<1>1. ASSUME NEW w \in Workers, ApproveComp(w), ~ work[w].form.flag
      PROVE  UNCHANGED <<requests, leaves>>
  <2>1. requests \in Seq(Request)
    BY DEF TypeOK, TablesOK
  <2>2. requests' = requests \o <<>> /\ leaves' = leaves \cup {}
    BY <1>1 DEF ApproveComp
  <2>. QED
    BY <2>1, <2>2
<1>2. ASSUME NEW w \in Workers,
             \/ AskLeave(w) \/ AskEdit(w) \/ AskComp(w) \/ AskEditComp(w) \/ AskCancelComp(w)
             \/ ReadDebit(w) \/ AskStatus(w) \/ AskAnswer(w) \/ ReadCredit(w) \/ AskDebit(w)
             \/ AskCredit(w) \/ Die(w) \/ SaveDebit(w) \/ CreditType(w) \/ CreateComp(w)
             \/ EditComp(w) \/ RejectComp(w) \/ CloseComp(w)
      PROVE  UNCHANGED <<requests, leaves>>
  BY <1>2 DEF AskLeave, AskEdit, AskComp, AskEditComp, AskCancelComp, ReadDebit, AskStatus, AskAnswer,
              ReadCredit, AskDebit, AskCredit, Die, SaveDebit, CreditType, CreateComp, EditComp,
              RejectComp, CloseComp, Start, Turn, tables
<1>3. CASE UpdateQuota \/ NextDay \/ UNCHANGED vars
  BY <1>3 DEF UpdateQuota, NextDay, vars, tables
<1>. QED
  BY <1>1, <1>2, <1>3, AddingSteps DEF Next, Employee, Approver, HR

----------------------------------------------------------------------------
(* Days are booked as a whole. *)

LEMMA WholeStep == TypeOK /\ DaysWhole /\ [Next]_vars => DaysWhole'
<1>. SUFFICES ASSUME TypeOK, DaysWhole, [Next]_vars PROVE DaysWhole'
  OBVIOUS
<1>0. /\ TablesOK /\ requests \in Seq(Request)
      /\ \A r \in DOMAIN requests : r \in Nat /\ requests[r] \in Request
      /\ \A r \in DOMAIN requests : Whole(requests[r], Rows(r))
  BY DEF TypeOK, TablesOK, DaysWhole
<1>1. CASE Adds
  <2>1. PICK f, s, c : Adding(f, s, c)
    BY <1>1 DEF Adds
  <2>2. PICK n : n = Len(requests) + 1
    OBVIOUS
  <2>3. s \in Statuses /\ n \in Nat
    BY <1>0, <2>1, <2>2 DEF Adding, Statuses
  <2>a. /\ f.type \in Types /\ f.half \in BOOLEAN /\ f.first \in Dates /\ f.last \in Dates
        /\ DaysOf(f) \in SUBSET Dates /\ c \in Nat
        /\ requests' = Append(requests, NewRequest(f, s, c))
        /\ leaves' = leaves \cup RowsOf(Len(requests) + 1, f, DaysOf(f), s)
    BY <2>1 DEF Adding
  <2>4. /\ DOMAIN requests' = DOMAIN requests \cup {n}
        /\ \A r \in DOMAIN requests : requests'[r] = requests[r] /\ Rows(r)' = Rows(r)
        /\ requests'[n] = NewRequest(f, s, c) /\ Rows(n)' = RowsOf(n, f, DaysOf(f), s)
    BY <1>0, <2>2, <2>3, <2>a, Booked
  <2>5. Whole(NewRequest(f, s, c), RowsOf(n, f, DaysOf(f), s))
    BY <2>1, <2>3, WholeBooked DEF Adding
  <2>6. ASSUME NEW r \in DOMAIN requests' PROVE Whole(requests[r], Rows(r))'
    BY <1>0, <2>4, <2>5, <2>6
  <2>. QED
    BY <2>6 DEF DaysWhole
<1>2. ASSUME NEW w \in Workers, EditLeave(w) PROVE DaysWhole'
  <2>1. PICK f, c, r :
          /\ c \in Nat /\ r \in DOMAIN requests
          /\ f.type \in Types /\ f.half \in BOOLEAN /\ DaysOf(f) \in SUBSET Dates
          /\ requests' = [requests EXCEPT ![r] = NewRequest(f, "Requested", c)]
          /\ Rows(r)' = RowsOf(r, f, DaysOf(f), "Requested")
          /\ \A q \in DOMAIN requests \ {r} : Rows(q)' = Rows(q)
    BY <1>2, EditingStep
  <2>2. Whole(NewRequest(f, "Requested", c), RowsOf(r, f, DaysOf(f), "Requested"))
    BY <1>0, <2>1, WholeBooked DEF Statuses
  <2>3. /\ DOMAIN requests' = DOMAIN requests
        /\ requests'[r] = NewRequest(f, "Requested", c)
        /\ \A q \in DOMAIN requests \ {r} : requests'[q] = requests[q]
    BY <1>0, <2>1
  <2>4. ASSUME NEW q \in DOMAIN requests' PROVE Whole(requests[q], Rows(q))'
    BY <1>0, <2>1, <2>2, <2>3
  <2>. QED
    BY <2>4 DEF DaysWhole
<1>3. ASSUME NEW w \in Workers, WriteDays(w) PROVE DaysWhole'
  <2>1. PICK r \in DOMAIN requests, s \in {"Approved", "Cancelled", "Rejected"} :
          /\ Rows(r) \in SUBSET LeaveRow
          /\ Rows(r)' = IF s = "Approved" THEN {[l EXCEPT !.status = s] : l \in Rows(r)} ELSE {}
          /\ \A q \in DOMAIN requests \ {r} : Rows(q)' = Rows(q)
          /\ requests' = requests
    BY <1>3, AnsweringStep
  <2>2. s \in Statuses
    BY DEF Statuses
  <2>3. Whole(requests[r], {[l EXCEPT !.status = s] : l \in Rows(r)})
    BY <1>0, <2>1, <2>2, WholeAnswered
  <2>4. Whole(requests[r], {})
    BY DEF Whole
  <2>5. ASSUME NEW q \in DOMAIN requests' PROVE Whole(requests[q], Rows(q))'
    BY <1>0, <2>1, <2>3, <2>4
  <2>. QED
    BY <2>5 DEF DaysWhole
<1>4. ASSUME NEW w \in Workers, WriteStatus(w) PROVE DaysWhole'
  <2>1. PICK r : r = work[w].id
    OBVIOUS
  <2>2. r \in DOMAIN requests
    BY <1>4, <2>1 DEF WriteStatus, TypeOK, CallOK
  <2>3. requests' = [requests EXCEPT ![r].status = work[w].to] /\ leaves' = leaves
    BY <1>4, <2>1 DEF WriteStatus
  <2>4. ASSUME NEW q \in DOMAIN requests
        PROVE  /\ requests'[q].first = requests[q].first /\ requests'[q].last = requests[q].last
               /\ requests'[q].type = requests[q].type /\ requests'[q].half = requests[q].half
    BY <1>0, <2>2, <2>3 DEF Request
  <2>5. ASSUME NEW q \in DOMAIN requests' PROVE Whole(requests[q], Rows(q))'
    <3>1. q \in DOMAIN requests
      BY <1>0, <2>3
    <3>2. PICK before, after : before = requests[q] /\ after = requests'[q]
      OBVIOUS
    <3>3. Whole(after, Rows(q))
      BY <1>0, <2>4, <3>1, <3>2, SameDays
    <3>. QED
      BY <2>3, <3>2, <3>3 DEF Rows
  <2>. QED
    BY <2>5 DEF DaysWhole
<1>5. CASE UNCHANGED <<requests, leaves>>
  BY <1>0, <1>5 DEF DaysWhole, Rows
<1>. QED
  BY <1>1, <1>2, <1>3, <1>4, <1>5, OtherSteps

\* Whatever calls interleave or die, the leave rows of a request are none, or exactly its days.
THEOREM DaysAreWhole == Spec => []DaysWhole
<1>1. Init => DaysWhole
  BY DEF Init, DaysWhole
<1>. QED
  BY <1>1, WholeStep, TypeCorrect, PTL DEF Spec

----------------------------------------------------------------------------
(* Request and days agree once settled. *)

\* Between the two statements of a change that no other call has crossed, the days are as they
\* will be after it, and no other call is between the two.
Underway(w, r) ==
  /\ \A v \in Workers \ {w} : ~ Halfway(v, r)
  /\ \A l \in Rows(r) : l.status = work[w].to
  /\ work[w].to # "Approved" => Rows(r) = {}

Sound(r) ==
  /\ \A w \in Workers : Halfway(w, r) => Underway(w, r)
  /\ (\A w \in Workers : ~ Halfway(w, r)) => Settled(requests[r].status, Rows(r))

SettledInv == \A r \in DOMAIN requests \ torn : Sound(r)

\* A request that is torn stays so.
LEMMA TornStays ==
  ASSUME [Next]_vars
  PROVE  torn \subseteq torn'
<1>1. ASSUME NEW w \in Workers,
             \/ AskLeave(w) \/ AskEdit(w) \/ AskComp(w) \/ AskEditComp(w) \/ AskCancelComp(w)
             \/ AskStatus(w) \/ AskAnswer(w) \/ AskDebit(w) \/ AskCredit(w)
      PROVE  torn' = torn
  BY <1>1 DEF AskLeave, AskEdit, AskComp, AskEditComp, AskCancelComp, AskStatus, AskAnswer,
              AskDebit, AskCredit, Start
<1>2. ASSUME NEW w \in Workers,
             \/ CreateLeave(w) \/ CreateComp(w) \/ EditComp(w) \/ ReadDebit(w) \/ SaveDebit(w)
             \/ CloseComp(w) \/ RejectComp(w) \/ ReadCredit(w) \/ ApproveComp(w) \/ DebitLeave(w)
             \/ CreditType(w)
      PROVE  torn' = torn
  BY <1>2 DEF CreateLeave, CreateComp, EditComp, ReadDebit, SaveDebit, CloseComp, RejectComp,
              ReadCredit, ApproveComp, DebitLeave, CreditType, history
<1>3. ASSUME NEW w \in Workers, EditLeave(w) \/ WriteDays(w) \/ WriteStatus(w) \/ Die(w)
      PROVE  torn \subseteq torn'
  BY <1>3 DEF EditLeave, WriteDays, WriteStatus, Tear, Die
<1>4. CASE UpdateQuota \/ NextDay \/ UNCHANGED vars
  BY <1>4 DEF UpdateQuota, NextDay, vars, history
<1>. QED
  BY <1>1, <1>2, <1>3, <1>4 DEF Next, Employee, Approver, HR

\* A call comes between the two statements by WriteDays and leaves by WriteStatus or by its death.
LEMMA HalfwaySteps ==
  ASSUME TypeOK, [Next]_vars
  PROVE  \/ \E w \in Workers : WriteDays(w) \/ WriteStatus(w) \/ (Die(w) /\ work[w].at = "status")
         \/ \A v \in Workers : /\ work'[v].at = "status" <=> work[v].at = "status"
                               /\ work[v].at = "status" => work'[v] = work[v]
<1>. DEFINE Same == \A v \in Workers : /\ work'[v].at = "status" <=> work[v].at = "status"
                                       /\ work[v].at = "status" => work'[v] = work[v]
<1>0. work \in [Workers -> Call]
  BY DEF TypeOK
<1>1. ASSUME NEW w \in Workers, \A v \in Workers \ {w} : work'[v] = work[v],
             work[w].at # "status", work'[w].at # "status"
      PROVE  Same
  BY <1>1
<1>2. Idle \in Call /\ Idle.at # "status"
  BY IdleCall DEF Idle
<1>3. ASSUME NEW w \in Workers,
             \/ AskLeave(w) \/ AskEdit(w) \/ AskComp(w) \/ AskEditComp(w) \/ AskCancelComp(w)
             \/ AskStatus(w) \/ AskAnswer(w) \/ AskDebit(w) \/ AskCredit(w)
      PROVE  Same
  <2>1. work[w] = Idle /\ \A v \in Workers \ {w} : work'[v] = work[v]
    BY <1>0, <1>3 DEF AskLeave, AskEdit, AskComp, AskEditComp, AskCancelComp, AskStatus, AskAnswer,
                      AskDebit, AskCredit, Start
  <2>2. work'[w].at # "status"
    <3>1. CASE AskLeave(w)
      BY <1>0, <1>2, <3>1 DEF AskLeave, Start, Call
    <3>2. CASE AskEdit(w)
      BY <1>0, <1>2, <3>2 DEF AskEdit, Start, Call
    <3>3. CASE AskComp(w)
      BY <1>0, <1>2, <3>3 DEF AskComp, Start, Call
    <3>4. CASE AskEditComp(w)
      BY <1>0, <1>2, <3>4 DEF AskEditComp, Start, Call
    <3>5. CASE AskCancelComp(w)
      BY <1>0, <1>2, <3>5 DEF AskCancelComp, Start, Call
    <3>6. CASE AskStatus(w)
      BY <1>0, <1>2, <3>6 DEF AskStatus, Start, Call
    <3>7. CASE AskAnswer(w)
      BY <1>0, <1>2, <3>7 DEF AskAnswer, Start, Call
    <3>8. CASE AskDebit(w)
      BY <1>0, <1>2, <3>8 DEF AskDebit, Start, Call
    <3>9. CASE AskCredit(w)
      BY <1>0, <1>2, <3>9 DEF AskCredit, Start, Call
    <3>. QED
      BY <1>3, <3>1, <3>2, <3>3, <3>4, <3>5, <3>6, <3>7, <3>8, <3>9
  <2>. QED
    BY <1>1, <1>2, <2>1, <2>2
<1>4. ASSUME NEW w \in Workers,
             \/ CreateLeave(w) \/ EditLeave(w) \/ DebitLeave(w) \/ CreateComp(w) \/ EditComp(w)
             \/ RejectComp(w) \/ ApproveComp(w) \/ (Die(w) /\ work[w].at # "status")
      PROVE  Same
  <2>1. work' = [work EXCEPT ![w] = Idle] /\ work[w].at # "status"
    BY <1>4 DEF CreateLeave, EditLeave, DebitLeave, CreateComp, EditComp, RejectComp, ApproveComp, Die, Turn
  <2>2. work'[w] = Idle /\ \A v \in Workers \ {w} : work'[v] = work[v]
    BY <1>0, <2>1
  <2>. QED
    BY <1>1, <1>2, <2>1, <2>2
<1>5. ASSUME NEW w \in Workers,
             ReadDebit(w) \/ SaveDebit(w) \/ CloseComp(w) \/ ReadCredit(w) \/ CreditType(w)
      PROVE  Same
  <2>1. work[w].at # "status" /\ \A v \in Workers \ {w} : work'[v] = work[v]
    BY <1>0, <1>5 DEF ReadDebit, SaveDebit, CloseComp, ReadCredit, CreditType, Turn
  <2>2. work'[w].at # "status"
    <3>1. CASE ReadDebit(w)
      BY <1>0, <1>2, <3>1 DEF ReadDebit, Turn, Call
    <3>2. CASE SaveDebit(w)
      BY <1>0, <1>2, <3>2 DEF SaveDebit, Turn, Call
    <3>3. CASE CloseComp(w)
      BY <1>0, <1>2, <3>3 DEF CloseComp, Turn, Call
    <3>4. CASE ReadCredit(w)
      BY <1>0, <1>2, <3>4 DEF ReadCredit, Turn, Call
    <3>5. CASE CreditType(w)
      BY <1>0, <1>2, <3>5 DEF CreditType, Turn, Call
    <3>. QED
      BY <1>5, <3>1, <3>2, <3>3, <3>4, <3>5
  <2>. QED
    BY <1>1, <2>1, <2>2
<1>6. CASE UpdateQuota \/ NextDay \/ UNCHANGED vars
  BY <1>6 DEF UpdateQuota, NextDay, vars
<1>. HIDE DEF Same
<1>7. ASSUME NEW w \in Workers, Employee(w) \/ Approver(w) \/ HR(w) \/ Die(w)
      PROVE  WriteDays(w) \/ WriteStatus(w) \/ (Die(w) /\ work[w].at = "status") \/ Same
  BY <1>3, <1>4, <1>5, <1>7 DEF Employee, Approver, HR
<1>8. CASE \E w \in Workers : Employee(w) \/ Approver(w) \/ HR(w) \/ Die(w)
  <2>1. PICK w \in Workers : Employee(w) \/ Approver(w) \/ HR(w) \/ Die(w)
    BY <1>8
  <2>2. WriteDays(w) \/ WriteStatus(w) \/ (Die(w) /\ work[w].at = "status") \/ Same
    BY <1>7, <2>1
  <2>3. CASE Same
    BY <2>3 DEF Same
  <2>. QED
    BY <2>2, <2>3
<1>9. CASE UpdateQuota \/ NextDay \/ UNCHANGED vars
  BY <1>6, <1>9 DEF Same
<1>. QED
  BY <1>8, <1>9 DEF Next

\* A request whose days, status and calls between the two statements are as before.
LEMMA SoundKept ==
  ASSUME NEW r, Sound(r), Rows(r)' = Rows(r), requests'[r].status = requests[r].status,
         \A v \in Workers : /\ Halfway(v, r)' <=> Halfway(v, r)
                            /\ Halfway(v, r) => work'[v].to = work[v].to
  PROVE  Sound(r)'
<1>1. ASSUME NEW w \in Workers, Halfway(w, r)' PROVE Underway(w, r)'
  <2>1. Underway(w, r) /\ work'[w].to = work[w].to
    BY <1>1 DEF Sound
  <2>. QED
    BY <2>1 DEF Underway
<1>2. ASSUME \A w \in Workers : ~ Halfway(w, r)' PROVE Settled(requests[r].status, Rows(r))'
  <2>1. Settled(requests[r].status, Rows(r))
    BY <1>2 DEF Sound
  <2>. QED
    BY <2>1 DEF Settled
<1>. QED
  BY <1>1, <1>2 DEF Sound

LEMMA SettledStep == TypeOK /\ SettledInv /\ [Next]_vars => SettledInv'
<1>. SUFFICES ASSUME TypeOK, SettledInv, [Next]_vars PROVE SettledInv'
  OBVIOUS
<1>0. /\ TablesOK /\ requests \in Seq(Request) /\ work \in [Workers -> Call]
      /\ \A r \in DOMAIN requests : r \in Nat /\ requests[r] \in Request
      /\ \A v \in Workers : CallOK(work[v])
  BY DEF TypeOK, TablesOK
<1>t. torn \subseteq torn' /\ \A r \in DOMAIN requests \ torn' : Sound(r)
  BY TornStays DEF SettledInv
<1>1. ASSUME NEW w \in Workers, WriteDays(w), NEW r \in DOMAIN requests' \ torn' PROVE Sound(r)'
  <2>1. PICK i \in DOMAIN requests, s \in {"Approved", "Cancelled", "Rejected"} :
          /\ i = work[w].id /\ s = work[w].to
          /\ Rows(i) \in SUBSET LeaveRow
          /\ Rows(i)' = IF s = "Approved" THEN {[l EXCEPT !.status = s] : l \in Rows(i)} ELSE {}
          /\ \A q \in DOMAIN requests \ {i} : Rows(q)' = Rows(q)
          /\ requests' = requests
    BY <1>1, AnsweringStep
  <2>2. /\ work[w].at = "days" /\ work[w] \in Call
        /\ work' = [work EXCEPT ![w] = [work[w] EXCEPT !.at = "status"]]
        /\ torn' = torn \cup {x \in {work[w].id} : Shared(w, work[w].id)}
    BY <1>0, <1>1 DEF WriteDays, Turn, Tear
  <2>3. /\ work'[w].at = "status" /\ work'[w].id = i /\ work'[w].to = s
        /\ \A v \in Workers \ {w} : work'[v] = work[v]
    BY <1>0, <2>1, <2>2 DEF Call
  <2>4. CASE r # i
    <3>1. \A v \in Workers : /\ Halfway(v, r)' <=> Halfway(v, r)
                             /\ Halfway(v, r) => work'[v].to = work[v].to
      BY <2>2, <2>3, <2>4 DEF Halfway
    <3>2. r \in DOMAIN requests \ torn' /\ Rows(r)' = Rows(r) /\ requests'[r].status = requests[r].status
      BY <2>1, <2>4
    <3>. QED
      BY <1>t, <3>1, <3>2, SoundKept
  <2>5. CASE r = i
    <3>1. ~ Shared(w, r)
      BY <2>1, <2>2, <2>5
    <3>2. \A v \in Workers \ {w} : ~ Halfway(v, r)'
      BY <2>3, <3>1 DEF Shared, Halfway
    <3>3. Halfway(w, r)'
      BY <2>3, <2>5 DEF Halfway
    <3>4. (\A l \in Rows(r) : l.status = s)' /\ (s # "Approved" => Rows(r)' = {})
      <4>1. ASSUME NEW l \in Rows(i) PROVE [l EXCEPT !.status = s].status = s
        BY <2>1 DEF LeaveRow
      <4>2. CASE s = "Approved"
        <5>1. PICK N : N = Rows(i)'
          OBVIOUS
        <5>2. N = {[l EXCEPT !.status = s] : l \in Rows(i)}
          BY <2>1, <4>2, <5>1
        <5>3. \A m \in N : m.status = s
          BY <4>1, <5>2
        <5>. QED
          BY <2>5, <4>2, <5>1, <5>3
      <4>3. CASE s # "Approved"
        BY <2>1, <2>5, <4>3
      <4>. QED
        BY <4>2, <4>3
    <3>5. Underway(w, r)'
      BY <2>3, <3>2, <3>4 DEF Underway
    <3>. QED
      BY <3>2, <3>3, <3>5 DEF Sound
  <2>. QED
    BY <2>4, <2>5
<1>2. ASSUME NEW w \in Workers, WriteStatus(w), NEW r \in DOMAIN requests' \ torn' PROVE Sound(r)'
  <2>1. PICK i, s : i = work[w].id /\ s = work[w].to
    OBVIOUS
  <2>2. work[w].at = "status" /\ leaves' = leaves /\ requests' = [requests EXCEPT ![i].status = s]
    BY <1>2, <2>1 DEF WriteStatus
  <2>3. work' = [work EXCEPT ![w] = Idle]
    BY <1>2 DEF WriteStatus, Turn
  <2>4. i \in DOMAIN requests /\ s \in {"Approved", "Cancelled", "Rejected"}
    BY <1>0, <2>1, <2>2 DEF CallOK
  <2>5. /\ DOMAIN requests' = DOMAIN requests /\ requests'[i].status = s
        /\ \A q \in DOMAIN requests \ {i} : requests'[q] = requests[q]
    BY <1>0, <2>2, <2>4 DEF Request
  <2>6. work'[w].at = "idle" /\ \A v \in Workers \ {w} : work'[v] = work[v]
    BY <1>0, <2>3 DEF Idle
  <2>7. Rows(r)' = Rows(r)
    BY <2>2 DEF Rows
  <2>8. CASE r # i
    <3>1. \A v \in Workers : /\ Halfway(v, r)' <=> Halfway(v, r)
                             /\ Halfway(v, r) => work'[v].to = work[v].to
      BY <2>1, <2>6, <2>8 DEF Halfway
    <3>2. r \in DOMAIN requests \ torn' /\ requests'[r].status = requests[r].status
      BY <2>5, <2>8
    <3>. QED
      BY <1>t, <2>7, <3>1, <3>2, SoundKept
  <2>9. CASE r = i
    <3>1. Halfway(w, r) /\ r \in DOMAIN requests \ torn'
      BY <2>1, <2>2, <2>5, <2>9 DEF Halfway
    <3>2. Underway(w, r)
      BY <1>t, <3>1 DEF Sound
    <3>3. \A v \in Workers : ~ Halfway(v, r)'
      BY <2>6, <3>2 DEF Underway, Halfway
    <3>4. Settled(s, Rows(r))
      BY <2>1, <2>4, <3>2 DEF Underway, Settled
    <3>5. Settled(requests[r].status, Rows(r))'
      BY <2>5, <2>7, <2>9, <3>4
    <3>. QED
      BY <3>3, <3>5 DEF Sound
  <2>. QED
    BY <2>8, <2>9
<1>3. ASSUME NEW w \in Workers, Die(w), work[w].at = "status", NEW r \in DOMAIN requests' \ torn'
      PROVE  Sound(r)'
  <2>1. /\ requests' = requests /\ leaves' = leaves /\ work' = [work EXCEPT ![w] = Idle]
        /\ work[w].id \in torn'
    BY <1>3 DEF Die, tables
  <2>2. work'[w].at = "idle" /\ \A v \in Workers \ {w} : work'[v] = work[v]
    BY <1>0, <2>1 DEF Idle
  <2>3. \A v \in Workers : /\ Halfway(v, r)' <=> Halfway(v, r)
                           /\ Halfway(v, r) => work'[v].to = work[v].to
    BY <1>3, <2>1, <2>2 DEF Halfway
  <2>4. Rows(r)' = Rows(r) /\ r \in DOMAIN requests \ torn'
    BY <2>1 DEF Rows
  <2>. QED
    BY <1>t, <2>1, <2>3, <2>4, SoundKept
<1>4. ASSUME \A v \in Workers : /\ work'[v].at = "status" <=> work[v].at = "status"
                                /\ work[v].at = "status" => work'[v] = work[v],
             NEW r \in DOMAIN requests' \ torn'
      PROVE  Sound(r)'
  <2>1. \A v \in Workers : /\ Halfway(v, r)' <=> Halfway(v, r)
                           /\ Halfway(v, r) => work'[v].to = work[v].to
    BY <1>4 DEF Halfway
  <2>2. CASE Adds
    <3>1. PICK f, s, c : Adding(f, s, c)
      BY <2>2 DEF Adds
    <3>2. PICK n : n = Len(requests) + 1
      OBVIOUS
    <3>3. s \in Statuses /\ n \in Nat
      BY <1>0, <3>1, <3>2 DEF Adding, Statuses
    <3>4. /\ f.type \in Types /\ f.half \in BOOLEAN /\ f.first \in Dates /\ f.last \in Dates
          /\ DaysOf(f) \in SUBSET Dates /\ DaysOf(f) # {} /\ c \in Nat /\ s \in {"Requested", "Approved"}
          /\ requests' = Append(requests, NewRequest(f, s, c))
          /\ leaves' = leaves \cup RowsOf(Len(requests) + 1, f, DaysOf(f), s)
      BY <3>1 DEF Adding
    <3>5. /\ DOMAIN requests' = DOMAIN requests \cup {n} /\ n \notin DOMAIN requests
          /\ \A q \in DOMAIN requests : requests'[q] = requests[q] /\ Rows(q)' = Rows(q)
          /\ requests'[n] = NewRequest(f, s, c) /\ Rows(n)' = RowsOf(n, f, DaysOf(f), s)
      <4>1. TablesOK
        BY <1>0
      <4>2. DOMAIN requests' = DOMAIN requests \cup {n} /\ n \notin DOMAIN requests
        BY <3>2, <3>3, <3>4, <4>1, Booked
      <4>3. \A q \in DOMAIN requests : requests'[q] = requests[q] /\ Rows(q)' = Rows(q)
        BY <3>2, <3>3, <3>4, <4>1, Booked
      <4>4. requests'[n] = NewRequest(f, s, c) /\ Rows(n)' = RowsOf(n, f, DaysOf(f), s)
        BY <3>2, <3>3, <3>4, <4>1, Booked
      <4>. QED
        BY <4>2, <4>3, <4>4
    <3>6. CASE r \in DOMAIN requests
      BY <1>t, <2>1, <3>5, <3>6, SoundKept
    <3>7. CASE r = n
      <4>1. \A v \in Workers : ~ Halfway(v, n)
        BY <1>0, <3>5 DEF Halfway, CallOK
      <4>2. \A l \in RowsOf(n, f, DaysOf(f), s) : l.status = s
        <5>1. f.type \in Types /\ f.half \in BOOLEAN /\ DaysOf(f) \in SUBSET Dates
          BY <3>4
        <5>. QED
          BY <3>3, <5>1, RowsOfType
      <4>3. RowsOf(n, f, DaysOf(f), s) # {}
        BY <3>4 DEF RowsOf
      <4>4. requests'[n].status = s
        BY <3>4, <3>5 DEF NewRequest
      <4>5. Settled(requests[n].status, Rows(n))'
        BY <3>4, <3>5, <4>2, <4>3, <4>4 DEF Settled
      <4>. QED
        BY <2>1, <3>7, <4>1, <4>5 DEF Sound
    <3>. QED
      BY <3>5, <3>6, <3>7
  <2>3. ASSUME NEW w \in Workers, EditLeave(w) PROVE Sound(r)'
    <3>1. PICK f, c, i :
            /\ c \in Nat /\ i \in DOMAIN requests /\ i = work[w].id
            /\ f.type \in Types /\ f.half \in BOOLEAN /\ DaysOf(f) \in SUBSET Dates /\ DaysOf(f) # {}
            /\ requests' = [requests EXCEPT ![i] = NewRequest(f, "Requested", c)]
            /\ Rows(i)' = RowsOf(i, f, DaysOf(f), "Requested")
            /\ \A q \in DOMAIN requests \ {i} : Rows(q)' = Rows(q)
      BY <2>3, EditingStep
    <3>2. /\ DOMAIN requests' = DOMAIN requests /\ requests'[i] = NewRequest(f, "Requested", c)
          /\ \A q \in DOMAIN requests \ {i} : requests'[q] = requests[q]
      BY <1>0, <3>1
    <3>3. CASE r # i
      BY <1>t, <2>1, <3>1, <3>2, <3>3, SoundKept
    <3>4. CASE r = i
      <4>1. torn' = torn \cup {x \in {i} : Shared(w, i)} /\ work[w].at = "edit"
        BY <2>3, <3>1 DEF EditLeave, Tear
      <4>2. ~ Shared(w, i)
        BY <3>4, <4>1
      <4>3. \A v \in Workers : ~ Halfway(v, r)
        BY <3>4, <4>1, <4>2 DEF Shared, Halfway
      <4>4. \A l \in RowsOf(i, f, DaysOf(f), "Requested") : l.status = "Requested"
        BY <1>0, <3>1, RowsOfType DEF Statuses
      <4>5. RowsOf(i, f, DaysOf(f), "Requested") # {}
        BY <3>1 DEF RowsOf
      <4>6. requests'[i].status = "Requested"
        BY <3>2 DEF NewRequest
      <4>7. Settled(requests[i].status, Rows(i))'
        BY <3>1, <4>4, <4>5, <4>6 DEF Settled
      <4>. QED
        BY <2>1, <3>4, <4>3, <4>7 DEF Sound
    <3>. QED
      BY <3>3, <3>4
  <2>4. CASE UNCHANGED <<requests, leaves>>
    <3>1. Rows(r)' = Rows(r) /\ r \in DOMAIN requests \ torn' /\ requests'[r].status = requests[r].status
      BY <2>4 DEF Rows
    <3>. QED
      BY <1>t, <2>1, <3>1, SoundKept
  <2>. QED
    BY <1>1, <1>2, <2>2, <2>3, <2>4, OtherSteps
<1>. QED
  BY <1>1, <1>2, <1>3, <1>4, HalfwaySteps DEF SettledInv

\* Request and days agree whenever no call is between its two statements, unless two calls crossed
\* on the request or one died half way.
THEOREM RequestsSettle == Spec => []SettledTogether
<1>1. Init => SettledInv
  BY DEF Init, SettledInv
<1>2. SettledInv => SettledTogether
  BY DEF SettledInv, Sound, SettledTogether
<1>. QED
  BY <1>1, <1>2, SettledStep, TypeCorrect, PTL DEF Spec

----------------------------------------------------------------------------
(* The cost of days.  Taken adds up weights with a fold; every weight is 1 *)
(* or 2, so that the sum is a matter of two cardinalities.                 *)

\* Every set of naturals that is not empty has a least element: what induction is done with here.
LEMMA Least ==
  ASSUME NEW T \in SUBSET Nat, T # {}
  PROVE  \E n \in T : \A m \in T : n <= m
<1>. DEFINE Before == {pair \in Nat \X Nat : pair[1] < pair[2]}
<1>1. IsWellFoundedOn(Before, Nat)
  BY NatLessThanWellFounded DEF OpToRel
<1>2. PICK n \in T : \A m \in T : <<m, n>> \notin Before
  <2>. HIDE DEF Before
  <2>. QED
    BY <1>1, WFMin, Zenon
<1>3. ASSUME NEW m \in T
      PROVE  n <= m
  <2>1. m \in Nat /\ n \in Nat /\ ~ m < n
    BY <1>2
  <2>. QED
    BY <2>1
<1>. QED
  BY <1>3

FullOf(S) == {l \in S : ~ l.half}
Cost(S)   == Cardinality(S) + Cardinality(FullOf(S))

LEMMA CostType ==
  ASSUME NEW S, IsFiniteSet(S)
  PROVE  /\ IsFiniteSet(FullOf(S)) /\ Cardinality(S) \in Nat /\ Cardinality(FullOf(S)) \in Nat
         /\ Cost(S) \in Nat /\ Cost(S) <= 2 * Cardinality(S)
<1>1. FullOf(S) \in SUBSET S
  BY DEF FullOf
<1>2. IsFiniteSet(FullOf(S)) /\ Cardinality(FullOf(S)) <= Cardinality(S)
  BY <1>1, FS_Subset
<1>3. Cardinality(S) \in Nat /\ Cardinality(FullOf(S)) \in Nat
  BY <1>2, FS_CardinalityType
<1>. QED
  BY <1>2, <1>3 DEF Cost

\* A part costs no more than the whole,
LEMMA CostOfPart ==
  ASSUME NEW S, IsFiniteSet(S), NEW T \in SUBSET S
  PROVE  IsFiniteSet(T) /\ Cost(T) <= Cost(S)
<1>1. FullOf(T) \in SUBSET FullOf(S)
  BY DEF FullOf
<1>2. IsFiniteSet(T) /\ Cardinality(T) <= Cardinality(S)
  BY FS_Subset
<1>3. IsFiniteSet(FullOf(S)) /\ Cardinality(FullOf(T)) <= Cardinality(FullOf(S))
  BY <1>1, CostType, FS_Subset
<1>4. /\ Cardinality(S) \in Nat /\ Cardinality(FullOf(S)) \in Nat
      /\ Cardinality(T) \in Nat /\ Cardinality(FullOf(T)) \in Nat
  BY <1>2, CostType
<1>. QED
  BY <1>2, <1>3, <1>4 DEF Cost

\* two sets together no more than both,
LEMMA CostOfUnion ==
  ASSUME NEW S, IsFiniteSet(S), NEW T, IsFiniteSet(T)
  PROVE  IsFiniteSet(S \cup T) /\ Cost(S \cup T) <= Cost(S) + Cost(T)
<1>1. FullOf(S \cup T) = FullOf(S) \cup FullOf(T)
  BY DEF FullOf
<1>2. /\ IsFiniteSet(FullOf(S)) /\ IsFiniteSet(FullOf(T))
      /\ IsFiniteSet(S \cap T) /\ IsFiniteSet(FullOf(S) \cap FullOf(T))
  <2>1. IsFiniteSet(FullOf(S)) /\ IsFiniteSet(FullOf(T))
    BY CostType
  <2>2. S \cap T \in SUBSET S /\ FullOf(S) \cap FullOf(T) \in SUBSET FullOf(S)
    OBVIOUS
  <2>. QED
    BY <2>1, <2>2, FS_Subset
<1>3. /\ IsFiniteSet(S \cup T)
      /\ Cardinality(S \cup T) = Cardinality(S) + Cardinality(T) - Cardinality(S \cap T)
  BY FS_Union
<1>4. Cardinality(FullOf(S) \cup FullOf(T))
        = Cardinality(FullOf(S)) + Cardinality(FullOf(T)) - Cardinality(FullOf(S) \cap FullOf(T))
  BY <1>2, FS_Union
<1>5. Cardinality(S \cap T) \in Nat /\ Cardinality(FullOf(S) \cap FullOf(T)) \in Nat
  BY <1>2, FS_CardinalityType
<1>6. /\ Cardinality(S) \in Nat /\ Cardinality(FullOf(S)) \in Nat
      /\ Cardinality(T) \in Nat /\ Cardinality(FullOf(T)) \in Nat
  BY CostType
<1>7. /\ Cost(S) = Cardinality(S) + Cardinality(FullOf(S))
      /\ Cost(T) = Cardinality(T) + Cardinality(FullOf(T))
      /\ Cost(S \cup T) = Cardinality(S \cup T) + Cardinality(FullOf(S) \cup FullOf(T))
  BY <1>1 DEF Cost
<1>. QED
  BY <1>3, <1>4, <1>5, <1>6, <1>7

\* and a set that is mapped onto another, no less than it, if halves come from halves.
LEMMA CostOfImage ==
  ASSUME NEW S, IsFiniteSet(S), NEW T, NEW g \in [S -> T], \A y \in T : \E x \in S : g[x] = y,
         \A x \in S : g[x].half <=> x.half
  PROVE  IsFiniteSet(T) /\ Cost(T) <= Cost(S)
<1>1. g \in Surjection(S, T)
  BY DEF Surjection
<1>2. IsFiniteSet(T) /\ Cardinality(T) <= Cardinality(S)
  BY <1>1, FS_Surjection
<1>3. PICK h : h = [x \in FullOf(S) |-> g[x]]
  OBVIOUS
<1>4. h \in Surjection(FullOf(S), FullOf(T))
  <2>1. \A x \in FullOf(S) : g[x] \in FullOf(T)
    BY DEF FullOf
  <2>2. ASSUME NEW y \in FullOf(T) PROVE \E x \in FullOf(S) : h[x] = y
    <3>1. PICK x \in S : g[x] = y
      BY DEF FullOf
    <3>2. x \in FullOf(S)
      BY <3>1 DEF FullOf
    <3>. QED
      BY <1>3, <3>1, <3>2
  <2>. QED
    BY <1>3, <2>1, <2>2 DEF Surjection
<1>5. Cardinality(FullOf(T)) <= Cardinality(FullOf(S))
  BY <1>4, CostType, FS_Surjection
<1>6. /\ Cardinality(S) \in Nat /\ Cardinality(FullOf(S)) \in Nat
      /\ Cardinality(T) \in Nat /\ Cardinality(FullOf(T)) \in Nat
  BY <1>2, CostType
<1>. QED
  BY <1>2, <1>5, <1>6 DEF Cost

LEMMA CostOfOne ==
  ASSUME NEW S, IsFiniteSet(S), NEW x \in S, x.half \in BOOLEAN
  PROVE  Cost(S) = Weight(x) + Cost(S \ {x})
<1>1. /\ IsFiniteSet(S \ {x}) /\ Cardinality(S \ {x}) = Cardinality(S) - 1
  BY FS_RemoveElement
<1>2. /\ IsFiniteSet(FullOf(S)) /\ Cardinality(S) \in Nat /\ Cardinality(FullOf(S)) \in Nat
  BY CostType
<1>3. CASE x.half
  <2>1. FullOf(S \ {x}) = FullOf(S) /\ Weight(x) = 1
    BY <1>3 DEF FullOf, Weight
  <2>. QED
    BY <1>1, <1>2, <2>1 DEF Cost
<1>4. CASE ~ x.half
  <2>1. FullOf(S \ {x}) = FullOf(S) \ {x} /\ Weight(x) = 2 /\ x \in FullOf(S)
    BY <1>4 DEF FullOf, Weight
  <2>2. Cardinality(FullOf(S) \ {x}) = Cardinality(FullOf(S)) - 1
    BY <1>2, <2>1, FS_RemoveElement
  <2>3. /\ Cost(S) = Cardinality(S) + Cardinality(FullOf(S))
        /\ Cost(S \ {x}) = Cardinality(S \ {x}) + Cardinality(FullOf(S) \ {x})
    BY <2>1 DEF Cost
  <2>. QED
    BY <1>1, <1>2, <2>1, <2>2, <2>3
<1>. QED
  BY <1>3, <1>4

\* The sum of weights is the cost.
LEMMA CostIsSum ==
  ASSUME NEW S, IsFiniteSet(S), \A l \in S : l.half \in BOOLEAN
  PROVE  MapThenSumSet(Weight, S) = Cost(S)
<1>. DEFINE Sums(f) == f = [s \in SUBSET S |-> IF s = {} THEN 0
                              ELSE Weight(CHOOSE x \in s : TRUE) + f[s \ {CHOOSE x \in s : TRUE}]]
<1>1. MapThenSumSet(Weight, S) = (CHOOSE f : Sums(f))[S]
  BY DEF MapThenSumSet, MapThenFoldSet
<1>2. \A s \in SUBSET S : IsFiniteSet(s) /\ Cardinality(s) \in Nat /\ Cost(s) \in Nat
  BY FS_Subset, CostType
<1>3. Cost({}) = 0
  <2>1. FullOf({}) = {}
    BY DEF FullOf
  <2>. QED
    BY <2>1, FS_EmptySet DEF Cost
<1>4. ASSUME NEW s \in SUBSET S, s # {}
      PROVE  /\ (CHOOSE x \in s : TRUE) \in s
             /\ Cost(s) = Weight(CHOOSE x \in s : TRUE) + Cost(s \ {CHOOSE x \in s : TRUE})
             /\ Cardinality(s \ {CHOOSE x \in s : TRUE}) = Cardinality(s) - 1
  <2>1. PICK x : x = CHOOSE y \in s : TRUE
    OBVIOUS
  <2>2. x \in s
    BY <1>4, <2>1
  <2>. QED
    BY <1>2, <2>1, <2>2, CostOfOne, FS_RemoveElement
<1>5. \E f : Sums(f)
  <2>1. PICK c : c = [s \in SUBSET S |-> Cost(s)]
    OBVIOUS
  <2>2. \A s \in SUBSET S : c[s] = IF s = {} THEN 0
          ELSE Weight(CHOOSE x \in s : TRUE) + c[s \ {CHOOSE x \in s : TRUE}]
    BY <1>3, <1>4, <2>1
  <2>3. Sums(c)
    BY <2>1, <2>2
  <2>. QED
    BY <2>3
<1>6. PICK f : Sums(f) /\ f = CHOOSE g : Sums(g)
  <2>. HIDE DEF Sums
  <2>. QED
    BY <1>5
<1>7. \A s \in SUBSET S : f[s] = Cost(s)
  <2>. DEFINE Bad == {n \in Nat : \E s \in SUBSET S : Cardinality(s) = n /\ f[s] # Cost(s)}
  <2>1. SUFFICES ASSUME Bad # {} PROVE FALSE
    BY <1>2
  <2>2. PICK n \in Bad : \A m \in Bad : n <= m
    <3>1. Bad \in SUBSET Nat
      OBVIOUS
    <3>. HIDE DEF Bad
    <3>. QED
      BY <2>1, <3>1, Least
  <2>3. PICK s \in SUBSET S : Cardinality(s) = n /\ f[s] # Cost(s)
    BY <2>2
  <2>4. PICK x : x = CHOOSE y \in s : TRUE
    OBVIOUS
  <2>5. f[s] = IF s = {} THEN 0 ELSE Weight(x) + f[s \ {x}]
    <3>1. f = [t \in SUBSET S |-> IF t = {} THEN 0
                 ELSE Weight(CHOOSE y \in t : TRUE) + f[t \ {CHOOSE y \in t : TRUE}]]
      BY <1>6
    <3>. HIDE DEF Bad, Sums
    <3>2. f[s] = IF s = {} THEN 0
                 ELSE Weight(CHOOSE y \in s : TRUE) + f[s \ {CHOOSE y \in s : TRUE}]
      BY <3>1
    <3>. QED
      BY <2>4, <3>2
  <2>6. s # {}
    BY <1>3, <2>3, <2>5
  <2>7. x \in s /\ Cost(s) = Weight(x) + Cost(s \ {x}) /\ Cardinality(s \ {x}) = n - 1
    BY <1>4, <2>3, <2>4, <2>6
  <2>8. f[s \ {x}] # Cost(s \ {x})
    BY <2>3, <2>5, <2>6, <2>7
  <2>9. n - 1 \in Bad
    BY <1>2, <2>2, <2>7, <2>8
  <2>. QED
    BY <2>2, <2>9
<1>. QED
  BY <1>1, <1>6, <1>7

----------------------------------------------------------------------------
(* Balances. *)

\* The days of type t that count, but for those of request r (0: none).
Charged(t, r) == {l \in leaves : l.type = t /\ l.req # r}

\* The days are all live, and finitely many.
DaysLive == IsFiniteSet(leaves) /\ leaves = LiveRows

\* A type has days only with a quota, and no more than the quota pays for.
Covered(t) == /\ quota[t] = <<>> => Charged(t, 0) = {}
              /\ Len(quota[t]) = 1 => Cost(Charged(t, 0)) <= quota[t][1]

\* The quota pays for what call c asks, besides the days other than those of request r.
PaidFor(c, r) == /\ Len(quota[c.form.type]) = 1
                 /\ RequestedDays(c.form) + Cost(Charged(c.form.type, r)) <= quota[c.form.type][1]

\* What the validation of call c found of the balance it is about to lower.
Affordable(c) ==
  /\ c.at = "create" => PaidFor(c, 0)
  /\ c.at = "edit" => PaidFor(c, c.id)
  /\ c.at = "debit" => /\ quota[c.form.type] # <<>>
                       /\ Len(quota[c.form.type]) = 1 =>
                            Cost(Charged(c.form.type, 0)) < quota[c.form.type][1]

\* An approval credits a quota that is there.
Creditable == \A w \in Workers : work[w].at = "credit" => quota[work[w].form.type] # <<>>

\* What a worker in fresh has validated is still so.
FreshAffordable == \A w \in fresh : Affordable(work[w])

\* OverdrawnIsExplained says nothing of what calls have validated, nor of a type before its credit.
BalanceInv == DaysLive /\ Creditable /\ FreshAffordable /\ \A t \in Types \ explained : Covered(t)

\* What the code takes from a quota is the cost of the days.
LEMMA TakenIsCost ==
  ASSUME TypeOK, DaysLive, NEW t, NEW r
  PROVE  /\ IsFiniteSet(Charged(t, r)) /\ Cost(Charged(t, r)) \in Nat
         /\ Taken(t, r) = Cost(Charged(t, r))
<1>1. Charged(t, r) \in SUBSET leaves /\ IsFiniteSet(leaves)
  BY DEF Charged, DaysLive
<1>2. IsFiniteSet(Charged(t, r)) /\ Cost(Charged(t, r)) \in Nat
  BY <1>1, FS_Subset, CostType
<1>3. {l \in LiveRows : l.type = t /\ l.req # r} = Charged(t, r)
  BY DEF DaysLive, Charged
<1>4. \A l \in Charged(t, r) : l.half \in BOOLEAN
  BY DEF Charged, TypeOK, TablesOK, LeaveRow
<1>5. MapThenSumSet(Weight, Charged(t, r)) = Cost(Charged(t, r))
  BY <1>2, <1>4, CostIsSum
<1>6. Taken(t, r) = MapThenSumSet(Weight, Charged(t, r))
  BY <1>3 DEF Taken
<1>. QED
  BY <1>2, <1>5, <1>6

LEMMA QuotaInts ==
  ASSUME TypeOK, NEW t \in Types
  PROVE  /\ quota[t] \in Seq(Int) /\ Len(quota[t]) \in Nat
         /\ Len(quota[t]) = 1 => quota[t][1] \in Int /\ DOMAIN quota[t] = {1}
         /\ Len(quota[t]) = 0 <=> quota[t] = <<>>
         /\ quota[t] = <<>> => DOMAIN quota[t] = {}
<1>1. quota[t] \in Seq(Int)
  BY DEF TypeOK, TablesOK
<1>. QED
  BY <1>1

LEMMA BalanceIs ==
  ASSUME TypeOK, DaysLive, NEW t \in Types, NEW r
  PROVE  /\ Balance(t, r) \in Int
         /\ Balance(t, r) = IF Len(quota[t]) = 1 THEN quota[t][1] - Cost(Charged(t, r)) ELSE 0
BY TakenIsCost, QuotaInts DEF Balance, Quota

\* A type debits are taken from has something left.
LEMMA AvailableMeans ==
  ASSUME TypeOK, DaysLive, NEW t \in Types, Available(t)
  PROVE  quota[t] # <<>> /\ (Len(quota[t]) = 1 => Cost(Charged(t, 0)) < quota[t][1])
<1>. DEFINE S == DOMAIN quota[t]
            k == 2 * Cardinality(LiveRows)
            Sums(f) == f = [s \in SUBSET S |-> IF s = {} THEN 0
                              ELSE (quota[t][CHOOSE x \in s : TRUE] - k)
                                   + f[s \ {CHOOSE x \in s : TRUE}]]
<1>1. (CHOOSE f : Sums(f))[S] > 0
  BY DEF Available, MapThenSumSet, MapThenFoldSet
<1>2. ASSUME NEW f, Sums(f) PROVE /\ f[{}] = 0
                                  /\ S = {1} => f[{1}] = (quota[t][1] - k) + f[{}]
  <2>1. f = [s \in SUBSET S |-> IF s = {} THEN 0
               ELSE (quota[t][CHOOSE x \in s : TRUE] - k) + f[s \ {CHOOSE x \in s : TRUE}]]
    BY <1>2
  <2>. HIDE DEF S, k
  <2>2. f[{}] = 0
    BY <2>1
  <2>3. ASSUME S = {1} PROVE f[{1}] = (quota[t][1] - k) + f[{}]
    <3>1. (CHOOSE x \in {1} : TRUE) = 1 /\ {1} \ {1} = {}
      OBVIOUS
    <3>2. {1} \in SUBSET S
      BY <2>3
    <3>3. f[{1}] = IF {1} = {} THEN 0
               ELSE (quota[t][CHOOSE x \in {1} : TRUE] - k) + f[{1} \ {CHOOSE x \in {1} : TRUE}]
      BY <2>1, <3>2
    <3>. QED
      BY <3>1, <3>3
  <2>. QED
    BY <2>2, <2>3
<1>3. quota[t] # <<>>
  <2>1. SUFFICES ASSUME quota[t] = <<>> PROVE FALSE
    OBVIOUS
  <2>2. S = {}
    BY <2>1, QuotaInts
  <2>3. PICK f : f = [s \in SUBSET S |-> 0]
    OBVIOUS
  <2>4. Sums(f)
    BY <2>2, <2>3
  <2>5. PICK g : Sums(g) /\ g[S] > 0
    <3>. HIDE DEF Sums, S
    <3>. QED
      BY <1>1, <2>4
  <2>6. g[{}] = 0
    BY <1>2, <2>5
  <2>. QED
    BY <2>2, <2>5, <2>6
<1>4. ASSUME Len(quota[t]) = 1 PROVE Cost(Charged(t, 0)) < quota[t][1]
  <2>1. S = {1} /\ quota[t][1] \in Int
    BY <1>4, QuotaInts
  <2>2. IsFiniteSet(leaves) /\ Charged(t, 0) \in SUBSET leaves /\ LiveRows = leaves
    BY DEF DaysLive, Charged
  <2>3. /\ Cardinality(leaves) \in Nat /\ Cost(Charged(t, 0)) \in Nat /\ Cost(leaves) \in Nat
        /\ Cost(Charged(t, 0)) <= Cost(leaves) /\ Cost(leaves) <= 2 * Cardinality(leaves)
    BY <2>2, CostType, CostOfPart
  <2>4. k \in Int /\ Cost(Charged(t, 0)) <= k
    BY <2>2, <2>3
  <2>5. PICK f : f = [s \in SUBSET S |-> IF s = {} THEN 0 ELSE quota[t][1] - k]
    OBVIOUS
  <2>6. Sums(f)
    <3>1. SUBSET S = {{}, {1}} /\ (CHOOSE x \in {1} : TRUE) = 1 /\ {1} \ {1} = {}
      BY <2>1
    <3>2. \A s \in SUBSET S : f[s] = IF s = {} THEN 0
            ELSE (quota[t][CHOOSE x \in s : TRUE] - k) + f[s \ {CHOOSE x \in s : TRUE}]
      <4>. HIDE DEF k, S
      <4>1. f[{}] = 0 /\ f[{1}] = quota[t][1] - k
        BY <2>5, <3>1
      <4>2. (quota[t][1] - k) + 0 = quota[t][1] - k
        BY <2>1, <2>4
      <4>. QED
        BY <3>1, <4>1, <4>2
    <3>. HIDE DEF k, S
    <3>. QED
      BY <2>5, <3>2
  <2>7. PICK g : Sums(g) /\ g[S] > 0
    <3>. HIDE DEF Sums, S, k
    <3>. QED
      BY <1>1, <2>6
  <2>8. g[{1}] = (quota[t][1] - k) + g[{}] /\ g[{}] = 0
    <3>. HIDE DEF Sums, k
    <3>. QED
      BY <1>2, <2>1, <2>7
  <2>. HIDE DEF Sums, k
  <2>. QED
    BY <2>1, <2>3, <2>4, <2>7, <2>8
<1>. QED
  BY <1>3, <1>4

\* What a valid form asks is at least what its days cost, unless it is half a day on several dates.
LEMMA RowsCost ==
  ASSUME NEW r \in Nat, NEW f, f.type \in Types, f.half \in BOOLEAN,
         NEW days \in SUBSET Dates, NEW s \in Statuses
  PROVE  /\ IsFiniteSet(RowsOf(r, f, days, s))
         /\ Cost(RowsOf(r, f, days, s)) \in Nat /\ Cardinality(days) \in Nat
         /\ Cost(RowsOf(r, f, days, s)) <= IF f.half THEN Cardinality(days) ELSE 2 * Cardinality(days)
<1>1. IsFiniteSet(days) /\ Cardinality(days) \in Nat
  <2>1. IsFiniteSet(Dates)
    BY LeaveConstants, FS_Interval DEF Dates
  <2>. QED
    BY <2>1, FS_Subset, FS_CardinalityType
<1>2. PICK R : R = RowsOf(r, f, days, s)
  OBVIOUS
<1>3. IsFiniteSet(R) /\ Cardinality(R) <= Cardinality(days)
  <2>. DEFINE g == [d \in days |-> [req |-> r, date |-> d, type |-> f.type, half |-> f.half, status |-> s]]
  <2>1. g \in Surjection(days, R)
    BY <1>2 DEF RowsOf, Surjection
  <2>. QED
    BY <1>1, <2>1, FS_Surjection
<1>4. \A l \in R : l.half = f.half
  BY <1>2, RowsOfType
<1>5. f.half => FullOf(R) = {}
  BY <1>4 DEF FullOf
<1>6. Cardinality({}) = 0
  BY FS_EmptySet
<1>7. Cost(R) \in Nat /\ Cost(R) <= 2 * Cardinality(R) /\ Cardinality(R) \in Nat
  BY <1>3, CostType
<1>8. ASSUME f.half PROVE Cost(R) = Cardinality(R)
  <2>1. Cost(R) = Cardinality(R) + Cardinality({})
    BY <1>5, <1>8 DEF Cost
  <2>. QED
    BY <1>6, <1>7, <2>1
<1>. QED
  BY <1>1, <1>2, <1>3, <1>7, <1>8

LEMMA RequestCost ==
  ASSUME NEW r \in Nat, NEW f, f.type \in Types, f.half \in BOOLEAN,
         f.first \in Dates, f.last \in Dates, f.first <= f.last, {f.first, f.last} \cap OffDays = {},
         ~ (f.half /\ f.first # f.last), NEW s \in Statuses
  PROVE  /\ RequestedDays(f) \in Nat
         /\ Cost(RowsOf(r, f, LeaveDays(f.first, f.last), s)) <= RequestedDays(f)
<1>1. LeaveDays(f.first, f.last) = DaysOf(f) /\ DaysOf(f) \in SUBSET Dates
  BY FormDays
<1>2. PICK days : days = DaysOf(f) /\ days \in SUBSET Dates
  BY <1>1
<1>3. f.half => Cardinality(days) = 1
  BY <1>2, FS_Singleton DEF DaysOf
<1>4. PICK c : c = Cost(RowsOf(r, f, days, s))
  OBVIOUS
<1>5. c \in Nat /\ Cardinality(days) \in Nat
      /\ c <= IF f.half THEN Cardinality(days) ELSE 2 * Cardinality(days)
  BY <1>2, <1>4, RowsCost
<1>6. RequestedDays(f) = IF f.half THEN 1 ELSE 2 * Cardinality(days)
  BY <1>1, <1>2 DEF RequestedDays
<1>. QED
  BY <1>1, <1>2, <1>3, <1>4, <1>5, <1>6

LEMMA AtLeastOne ==
  ASSUME NEW f, f.half \in BOOLEAN,
         f.first \in Dates, f.last \in Dates, f.first <= f.last, {f.first, f.last} \cap OffDays = {}
  PROVE  RequestedDays(f) \in Nat \ {0}
<1>1. /\ LeaveDays(f.first, f.last) = DaysOf(f) /\ DaysOf(f) \in SUBSET Dates /\ DaysOf(f) # {}
      /\ IsFiniteSet(Dates)
  BY FormDays, LeaveConstants, FS_Interval DEF Dates
<1>2. IsFiniteSet(DaysOf(f))
  BY <1>1, FS_Subset
<1>3. Cardinality(DaysOf(f)) \in Nat /\ Cardinality(DaysOf(f)) # 0
  BY <1>1, <1>2, FS_CardinalityType, FS_EmptySet
<1>. QED
  BY <1>1, <1>3 DEF RequestedDays

\* A call whose request is valid is paid for.
LEMMA ValidIsPaid ==
  ASSUME TypeOK, DaysLive, NEW f \in LeaveForms, NEW r, Valid(f, r), NEW c, c.form = f
  PROVE  PaidFor(c, r)
<1>1. f.type \in Types /\ f.half \in BOOLEAN /\ f.first \in Dates /\ f.last \in Dates
  BY LeaveConstants DEF LeaveForm
<1>2. f.first <= f.last /\ {f.first, f.last} \cap OffDays = {} /\ RequestedDays(f) <= Balance(f.type, r)
  BY DEF Valid
<1>3. RequestedDays(f) \in Nat \ {0}
  BY <1>1, <1>2, AtLeastOne
<1>4. Balance(f.type, r) = IF Len(quota[f.type]) = 1 THEN quota[f.type][1] - Cost(Charged(f.type, r)) ELSE 0
  BY <1>1, BalanceIs
<1>5. Len(quota[f.type]) = 1
  BY <1>2, <1>3, <1>4
<1>6. quota[f.type][1] \in Int /\ Cost(Charged(f.type, r)) \in Nat
  BY <1>1, <1>5, QuotaInts, TakenIsCost
<1>. QED
  BY <1>2, <1>3, <1>4, <1>5, <1>6 DEF PaidFor

\* Rows R of one type join what is left of the days but those of request r.
LEMMA ChargesAdded ==
  ASSUME TypeOK, DaysLive, NEW r, NEW t, NEW R, IsFiniteSet(R), \A l \in R : l.type = t /\ l.status \in Open,
         NEW old \in SUBSET {l \in leaves : l.req # r}, leaves' = old \cup R
  PROVE  /\ DaysLive'
         /\ Cost(Charged(t, 0)') <= Cost(Charged(t, r)) + Cost(R) /\ Cost(Charged(t, 0)') \in Nat
         /\ \A u : u # t => Charged(u, 0)' \subseteq Charged(u, 0) /\ Cost(Charged(u, 0)') <= Cost(Charged(u, 0))
<1>1. IsFiniteSet(leaves) /\ \A l \in leaves : l.status \in Open
  BY DEF DaysLive, LiveRows
<1>2. IsFiniteSet(leaves') /\ \A l \in leaves' : l.status \in Open
  BY <1>1, FS_Subset, FS_Union
<1>3. DaysLive'
  BY <1>2 DEF DaysLive, LiveRows
<1>4. Charged(t, 0)' \in SUBSET (Charged(t, r) \cup R)
  BY DEF Charged
<1>5. IsFiniteSet(Charged(t, r)) /\ Cost(Charged(t, r)) \in Nat /\ Cost(R) \in Nat
  BY TakenIsCost, CostType
<1>6. /\ IsFiniteSet(Charged(t, r) \cup R)
      /\ Cost(Charged(t, r) \cup R) <= Cost(Charged(t, r)) + Cost(R)
      /\ Cost(Charged(t, r) \cup R) \in Nat
  BY <1>5, CostOfUnion, CostType
<1>7. /\ IsFiniteSet(Charged(t, 0)')
      /\ Cost(Charged(t, 0)') <= Cost(Charged(t, r) \cup R)
  BY <1>4, <1>6, CostOfPart
<1>8. Cost(Charged(t, 0)') \in Nat
  BY <1>7, CostType
<1>9. ASSUME NEW u, u # t
      PROVE  Charged(u, 0)' \subseteq Charged(u, 0) /\ Cost(Charged(u, 0)') <= Cost(Charged(u, 0))
  <2>1. Charged(u, 0)' \in SUBSET Charged(u, 0)
    BY <1>9 DEF Charged
  <2>2. IsFiniteSet(Charged(u, 0))
    BY TakenIsCost
  <2>. QED
    BY <2>1, <2>2, CostOfPart
<1>. QED
  BY <1>3, <1>5, <1>6, <1>7, <1>8, <1>9

\* A type stays covered when its days cost no more than before and its quota is no less.
LEMMA StaysCovered ==
  ASSUME TypeOK, DaysLive, DaysLive', NEW t \in Types, Covered(t),
         Cost(Charged(t, 0)') <= Cost(Charged(t, 0)),
         Charged(t, 0) = {} => Charged(t, 0)' = {},
         \/ quota'[t] = quota[t]
         \/ Len(quota'[t]) = 1 /\ Len(quota[t]) = 1 /\ quota'[t][1] \in Int /\ quota[t][1] <= quota'[t][1]
  PROVE  Covered(t)'
<1>1. Cost(Charged(t, 0)) \in Nat
  BY TakenIsCost
<1>2. Cost(Charged(t, 0)') \in Nat
  <2>1. Charged(t, 0)' \in SUBSET leaves' /\ IsFiniteSet(leaves')
    BY DEF Charged, DaysLive
  <2>. QED
    BY <2>1, FS_Subset, CostType
<1>3. CASE quota'[t] = quota[t]
  <2>1. Len(quota[t]) = 1 => quota[t][1] \in Int
    BY QuotaInts
  <2>. QED
    BY <1>1, <1>2, <1>3, <2>1 DEF Covered
<1>4. CASE Len(quota'[t]) = 1 /\ Len(quota[t]) = 1 /\ quota'[t][1] \in Int /\ quota[t][1] <= quota'[t][1]
  <2>1. quota[t][1] \in Int
    BY <1>4, QuotaInts
  <2>2. quota'[t] # <<>>
    BY <1>4
  <2>. QED
    BY <1>1, <1>2, <1>4, <2>1, <2>2 DEF Covered
<1>. QED
  BY <1>3, <1>4

\* What a step may do to days, quotas and the types explained.
Covers == DaysLive' /\ \A t \in Types \ explained' : Covered(t)'

LEMMA CreateCovers ==
  ASSUME TypeOK, BalanceInv, NEW w \in Workers, CreateLeave(w) PROVE Covers
<1>0. PICK f, r, R : /\ f = work[w].form /\ r = Len(requests) + 1
                     /\ R = RowsOf(r, f, LeaveDays(f.first, f.last), "Requested")
  OBVIOUS
<1>1. work[w].at = "create" /\ leaves' = leaves \cup R /\ quota' = quota
  BY <1>0 DEF CreateLeave
<1>2. explained' = explained \cup {x \in {f.type} : w \notin fresh \/ (f.half /\ f.first # f.last)}
  BY <1>0 DEF CreateLeave, Explain
<1>3. /\ f.type \in Types /\ f.half \in BOOLEAN /\ f.first \in Dates /\ f.last \in Dates
      /\ f.first <= f.last /\ {f.first, f.last} \cap OffDays = {}
  BY <1>0, <1>1, FormTypes DEF TypeOK, CallOK
<1>4. r \in Nat /\ "Requested" \in Statuses /\ DaysLive /\ \A l \in leaves : l.req # 0
  BY <1>0 DEF TypeOK, TablesOK, Statuses, BalanceInv
<1>5. LeaveDays(f.first, f.last) \in SUBSET Dates
  BY <1>3, DaysAreDates
<1>6. IsFiniteSet(R) /\ Cost(R) \in Nat /\ \A l \in R : l.type = f.type /\ l.status \in Open
  <2>1. \A l \in R : l.type = f.type /\ l.status \in Open
    BY <1>0, <1>3, <1>4, <1>5, RowsOfType DEF Open
  <2>2. IsFiniteSet(R) /\ Cost(R) \in Nat
    BY <1>0, <1>3, <1>4, <1>5, RowsCost
  <2>. QED
    BY <2>1, <2>2
<1>7. leaves \in SUBSET {l \in leaves : l.req # 0}
  BY <1>4
<1>8. /\ DaysLive'
      /\ Cost(Charged(f.type, 0)') <= Cost(Charged(f.type, 0)) + Cost(R) /\ Cost(Charged(f.type, 0)') \in Nat
      /\ \A u : u # f.type => Charged(u, 0)' \subseteq Charged(u, 0) /\ Cost(Charged(u, 0)') <= Cost(Charged(u, 0))
  BY <1>1, <1>4, <1>6, <1>7, ChargesAdded
<1>9. ASSUME NEW t \in Types \ explained' PROVE Covered(t)'
  <2>1. Covered(t)
    BY <1>2, <1>9 DEF BalanceInv
  <2>2. CASE t # f.type
    BY <1>1, <1>4, <1>8, <2>1, <2>2, StaysCovered
  <2>3. CASE t = f.type
    <3>1. w \in fresh /\ ~ (f.half /\ f.first # f.last)
      BY <1>2, <1>9, <2>3
    <3>2. PaidFor(work[w], 0)
      BY <1>0, <1>1, <3>1 DEF BalanceInv, FreshAffordable, Affordable
    <3>3. Len(quota[t]) = 1 /\ RequestedDays(f) + Cost(Charged(t, 0)) <= quota[t][1]
      BY <1>0, <2>3, <3>2 DEF PaidFor
    <3>4. RequestedDays(f) \in Nat /\ Cost(R) <= RequestedDays(f)
      BY <1>0, <1>3, <1>4, <3>1, RequestCost
    <3>5. Cost(Charged(t, 0)) \in Nat /\ quota[t][1] \in Int
      BY <1>4, <3>3, TakenIsCost, QuotaInts
    <3>6. Cost(Charged(t, 0)') <= quota[t][1]
      BY <1>6, <1>8, <2>3, <3>3, <3>4, <3>5
    <3>7. quota[t] # <<>>
      BY <3>3
    <3>. QED
      BY <1>1, <3>6, <3>7 DEF Covered
  <2>. QED
    BY <2>2, <2>3
<1>. QED
  BY <1>8, <1>9 DEF Covers

LEMMA EditCovers ==
  ASSUME TypeOK, BalanceInv, NEW w \in Workers, EditLeave(w) PROVE Covers
<1>0. PICK f, r, R : /\ f = work[w].form /\ r = work[w].id
                     /\ R = RowsOf(r, f, LeaveDays(f.first, f.last), "Requested")
  OBVIOUS
<1>1. work[w].at = "edit" /\ leaves' = (leaves \ Rows(r)) \cup R /\ quota' = quota
  BY <1>0 DEF EditLeave
<1>2. explained' = explained \cup {x \in {f.type} : w \notin fresh \/ (f.half /\ f.first # f.last)}
  BY <1>0 DEF EditLeave, Explain
<1>3. /\ f.type \in Types /\ f.half \in BOOLEAN /\ f.first \in Dates /\ f.last \in Dates
      /\ f.first <= f.last /\ {f.first, f.last} \cap OffDays = {}
      /\ r \in DOMAIN requests
  BY <1>0, <1>1, FormTypes DEF TypeOK, CallOK
<1>4. r \in Nat /\ "Requested" \in Statuses /\ DaysLive
  BY <1>3 DEF TypeOK, TablesOK, Statuses, BalanceInv
<1>5. LeaveDays(f.first, f.last) \in SUBSET Dates
  BY <1>3, DaysAreDates
<1>6. IsFiniteSet(R) /\ Cost(R) \in Nat /\ \A l \in R : l.type = f.type /\ l.status \in Open
  <2>1. \A l \in R : l.type = f.type /\ l.status \in Open
    BY <1>0, <1>3, <1>4, <1>5, RowsOfType DEF Open
  <2>2. IsFiniteSet(R) /\ Cost(R) \in Nat
    BY <1>0, <1>3, <1>4, <1>5, RowsCost
  <2>. QED
    BY <2>1, <2>2
<1>7. leaves \ Rows(r) \in SUBSET {l \in leaves : l.req # r}
  BY DEF Rows
<1>8. /\ DaysLive'
      /\ Cost(Charged(f.type, 0)') <= Cost(Charged(f.type, r)) + Cost(R) /\ Cost(Charged(f.type, 0)') \in Nat
      /\ \A u : u # f.type => Charged(u, 0)' \subseteq Charged(u, 0) /\ Cost(Charged(u, 0)') <= Cost(Charged(u, 0))
  BY <1>1, <1>4, <1>6, <1>7, ChargesAdded
<1>9. ASSUME NEW t \in Types \ explained' PROVE Covered(t)'
  <2>1. Covered(t)
    BY <1>2, <1>9 DEF BalanceInv
  <2>2. CASE t # f.type
    BY <1>1, <1>4, <1>8, <2>1, <2>2, StaysCovered
  <2>3. CASE t = f.type
    <3>1. w \in fresh /\ ~ (f.half /\ f.first # f.last)
      BY <1>2, <1>9, <2>3
    <3>2. PaidFor(work[w], r)
      BY <1>0, <1>1, <3>1 DEF BalanceInv, FreshAffordable, Affordable
    <3>3. Len(quota[t]) = 1 /\ RequestedDays(f) + Cost(Charged(t, r)) <= quota[t][1]
      BY <1>0, <2>3, <3>2 DEF PaidFor
    <3>4. RequestedDays(f) \in Nat /\ Cost(R) <= RequestedDays(f)
      BY <1>0, <1>3, <1>4, <3>1, RequestCost
    <3>5. Cost(Charged(t, r)) \in Nat /\ quota[t][1] \in Int
      BY <1>4, <3>3, TakenIsCost, QuotaInts
    <3>6. Cost(Charged(t, 0)') <= quota[t][1]
      BY <1>6, <1>8, <2>3, <3>3, <3>4, <3>5
    <3>7. quota[t] # <<>>
      BY <3>3
    <3>. QED
      BY <1>1, <3>6, <3>7 DEF Covered
  <2>. QED
    BY <2>2, <2>3
<1>. QED
  BY <1>8, <1>9 DEF Covers

LEMMA DebitCovers ==
  ASSUME TypeOK, BalanceInv, NEW w \in Workers, DebitLeave(w) PROVE Covers
<1>0. PICK f, r, R : /\ f = work[w].form /\ r = Len(requests) + 1
                     /\ R = RowsOf(r, f, {f.first}, "Approved")
  OBVIOUS
<1>1. work[w].at = "debit" /\ leaves' = leaves \cup R /\ quota' = quota
  BY <1>0 DEF DebitLeave
<1>2. explained' = explained \cup {x \in {f.type} : w \notin fresh \/ Balance(f.type, 0) = 1}
  BY <1>0 DEF DebitLeave, Explain
<1>3. f.type \in Types /\ f.half \in BOOLEAN /\ f.first \in Dates
  BY <1>0, <1>1, FormTypes
<1>4. r \in Nat /\ "Approved" \in Statuses /\ DaysLive /\ \A l \in leaves : l.req # 0
  BY <1>0 DEF TypeOK, TablesOK, Statuses, BalanceInv
<1>5. Cardinality({f.first}) = 1 /\ {f.first} \in SUBSET Dates
  BY <1>3, FS_Singleton
<1>6. /\ IsFiniteSet(R) /\ Cost(R) \in Nat /\ Cost(R) <= 2
      /\ \A l \in R : l.type = f.type /\ l.status \in Open
  <2>1. \A l \in R : l.type = f.type /\ l.status \in Open
    BY <1>0, <1>3, <1>4, <1>5, RowsOfType DEF Open
  <2>2. PICK c : c = Cost(R)
    OBVIOUS
  <2>3. /\ IsFiniteSet(R) /\ c \in Nat
        /\ c <= IF f.half THEN Cardinality({f.first}) ELSE 2 * Cardinality({f.first})
    BY <1>0, <1>3, <1>4, <1>5, <2>2, RowsCost
  <2>. QED
    BY <1>5, <2>1, <2>2, <2>3
<1>7. leaves \in SUBSET {l \in leaves : l.req # 0}
  BY <1>4
<1>8. /\ DaysLive'
      /\ Cost(Charged(f.type, 0)') <= Cost(Charged(f.type, 0)) + Cost(R) /\ Cost(Charged(f.type, 0)') \in Nat
      /\ \A u : u # f.type => Charged(u, 0)' \subseteq Charged(u, 0) /\ Cost(Charged(u, 0)') <= Cost(Charged(u, 0))
  BY <1>1, <1>4, <1>6, <1>7, ChargesAdded
<1>9. ASSUME NEW t \in Types \ explained' PROVE Covered(t)'
  <2>1. Covered(t)
    BY <1>2, <1>9 DEF BalanceInv
  <2>2. CASE t # f.type
    BY <1>1, <1>4, <1>8, <2>1, <2>2, StaysCovered
  <2>3. CASE t = f.type
    <3>1. w \in fresh /\ Balance(t, 0) # 1
      BY <1>2, <1>9, <2>3
    <3>2. Affordable(work[w])
      BY <3>1 DEF BalanceInv, FreshAffordable
    <3>3. quota[t] # <<>> /\ (Len(quota[t]) = 1 => Cost(Charged(t, 0)) < quota[t][1])
      BY <1>0, <1>1, <2>3, <3>2 DEF Affordable
    <3>4. ASSUME Len(quota[t]) = 1 PROVE Cost(Charged(t, 0)') <= quota[t][1]
      <4>1. Cost(Charged(t, 0)) \in Nat /\ quota[t][1] \in Int
        BY <1>4, <3>4, TakenIsCost, QuotaInts
      <4>2. Balance(t, 0) = quota[t][1] - Cost(Charged(t, 0))
        BY <1>4, <3>4, BalanceIs
      <4>3. Cost(Charged(t, 0)) + 2 <= quota[t][1]
        BY <3>1, <3>3, <3>4, <4>1, <4>2
      <4>. QED
        BY <1>6, <1>8, <2>3, <4>1, <4>3
    <3>. QED
      BY <1>1, <3>3, <3>4 DEF Covered
  <2>. QED
    BY <2>2, <2>3
<1>. QED
  BY <1>8, <1>9 DEF Covers

\* An answer changes the status of days, or removes them.
LEMMA AnswerCovers ==
  ASSUME TypeOK, BalanceInv, NEW w \in Workers, WriteDays(w) PROVE Covers
<1>0. PICK r, s : r = work[w].id /\ s = work[w].to
  OBVIOUS
<1>. DEFINE new(l) == [l EXCEPT !.status = s]
            N == {new(l) : l \in {x \in Rows(r) : s = "Approved"}}
<1>1. leaves' = (leaves \ Rows(r)) \cup N /\ quota' = quota /\ explained' = explained
  BY <1>0 DEF WriteDays
<1>2. DaysLive /\ IsFiniteSet(leaves) /\ (\A l \in leaves : l.status \in Open) /\ leaves \subseteq LeaveRow
  BY DEF BalanceInv, DaysLive, LiveRows, TypeOK, TablesOK
<1>3. \A l \in leaves : new(l).type = l.type /\ new(l).req = l.req /\ new(l).half = l.half /\ new(l).status = s
  BY <1>2 DEF LeaveRow
<1>4. Rows(r) \subseteq leaves
  BY DEF Rows
<1>. HIDE DEF new
<1>5. IsFiniteSet(leaves') /\ \A l \in leaves' : l.status \in Open
  <2>1. IsFiniteSet({x \in Rows(r) : s = "Approved"})
    BY <1>2, <1>4, FS_Subset
  <2>2. PICK g : g = [l \in {x \in Rows(r) : s = "Approved"} |-> new(l)]
    OBVIOUS
  <2>3. g \in Surjection({x \in Rows(r) : s = "Approved"}, N)
    BY <2>2 DEF Surjection
  <2>4. IsFiniteSet(N) /\ IsFiniteSet(leaves \ Rows(r))
    BY <1>2, <2>1, <2>3, FS_Surjection, FS_Subset
  <2>5. \A l \in N : l.status \in Open
    BY <1>3, <1>4 DEF Open
  <2>. HIDE DEF N
  <2>. QED
    BY <1>1, <1>2, <2>4, <2>5, FS_Union
<1>6. DaysLive'
  BY <1>5 DEF DaysLive, LiveRows
<1>7. ASSUME NEW t \in Types \ explained' PROVE Covered(t)'
  <2>1. Covered(t)
    BY <1>1, <1>7 DEF BalanceInv
  <2>2. IsFiniteSet(Charged(t, 0))
    BY <1>2, TakenIsCost
  <2>3. PICK S : S = {l \in Charged(t, 0) : l \notin Rows(r) \/ s = "Approved"}
    OBVIOUS
  <2>4. IsFiniteSet(S) /\ Cost(S) <= Cost(Charged(t, 0)) /\ Cost(S) \in Nat /\ Cost(Charged(t, 0)) \in Nat
    BY <2>2, <2>3, CostOfPart, CostType
  <2>5. PICK T : T = Charged(t, 0)'
    OBVIOUS
  <2>6. PICK g : g = [l \in S |-> IF l \in Rows(r) THEN new(l) ELSE l]
    OBVIOUS
  <2>7. S \subseteq leaves
    BY <2>3 DEF Charged
  <2>8. T = {l \in leaves' : l.type = t /\ l.req # 0}
    BY <2>5 DEF Charged
  <2>9. ASSUME NEW l \in S PROVE g[l] \in T
    <3>1. l.type = t /\ l.req # 0
      BY <2>3 DEF Charged
    <3>2. CASE l \in Rows(r)
      <4>1. g[l] = new(l) /\ new(l) \in N
        BY <2>3, <2>6, <3>2
      <4>. QED
        BY <1>1, <1>3, <2>7, <2>8, <3>1, <4>1
    <3>3. CASE l \notin Rows(r)
      BY <1>1, <2>6, <2>7, <2>8, <3>1, <3>3
    <3>. QED
      BY <3>2, <3>3
  <2>10. ASSUME NEW y \in T PROVE \E x \in S : g[x] = y
    <3>1. y \in leaves' /\ y.type = t /\ y.req # 0
      BY <2>8
    <3>2. CASE y \in leaves \ Rows(r)
      <4>1. y \in S
        BY <2>3, <3>1, <3>2 DEF Charged
      <4>. QED
        BY <2>6, <3>2, <4>1
    <3>3. CASE y \in N
      <4>1. PICK l \in Rows(r) : y = new(l) /\ s = "Approved"
        BY <3>3
      <4>2. l \in S
        BY <1>3, <1>4, <2>3, <3>1, <4>1 DEF Charged
      <4>. QED
        BY <2>6, <4>1, <4>2
    <3>. QED
      BY <1>1, <3>1, <3>2, <3>3
  <2>11. \A l \in S : g[l].half <=> l.half
    BY <1>3, <2>6, <2>7
  <2>12. g \in [S -> T]
    BY <2>6, <2>9
  <2>13. IsFiniteSet(T) /\ Cost(T) <= Cost(S)
    BY <2>4, <2>10, <2>11, <2>12, CostOfImage
  <2>14. Cost(T) \in Nat
    BY <2>13, CostType
  <2>15. Cost(Charged(t, 0)') <= Cost(Charged(t, 0))
    BY <2>4, <2>5, <2>13, <2>14
  <2>16. Charged(t, 0) = {} => Charged(t, 0)' = {}
    BY <2>3, <2>5, <2>10
  <2>. QED
    BY <1>1, <1>2, <1>6, <2>1, <2>15, <2>16, StaysCovered
<1>. QED
  BY <1>6, <1>7 DEF Covers

\* An approved compensatory off adds a day to the quota and, if it is taken at once, a day of leave.
LEMMA CompCovers ==
  ASSUME TypeOK, BalanceInv, NEW w \in Workers, ApproveComp(w) PROVE Covers
<1>0. PICK f, l, r, R, u : /\ f = work[w].form /\ l = Scheduled(f) /\ r = Len(requests) + 1 /\ u = f.type
                           /\ R = IF f.flag THEN RowsOf(r, l, {f.sched}, "Approved") ELSE {}
  OBVIOUS
<1>1. /\ work[w].at = "credit" /\ leaves' = leaves \cup R
      /\ quota' = [quota EXCEPT ![u][1] = work[w].read + 2]
      /\ explained' = explained \cup {x \in {u} : quota[u][1] # work[w].read}
  BY <1>0 DEF ApproveComp, Explain
<1>2. u \in Types /\ f.sched \in Dates /\ l.type = u /\ l.half = FALSE /\ l.half \in BOOLEAN
  BY <1>0, <1>1, FormTypes DEF Scheduled
<1>3. /\ r \in Nat /\ "Approved" \in Statuses /\ DaysLive /\ \A x \in leaves : x.req # 0
      /\ quota \in [Types -> Seq(Int)] /\ work[w].read \in Int
  BY <1>0, FormTypes DEF TypeOK, TablesOK, Statuses, BalanceInv, Call
<1>4. Cardinality({f.sched}) = 1 /\ {f.sched} \in SUBSET Dates
  BY <1>2, FS_Singleton
<1>5. IsFiniteSet(R) /\ Cost(R) \in Nat /\ Cost(R) <= 2 /\ \A x \in R : x.type = u /\ x.status \in Open
  <2>1. CASE f.flag
    <3>1. R = RowsOf(r, l, {f.sched}, "Approved")
      BY <1>0, <2>1
    <3>2. \A x \in R : x.type = u /\ x.status \in Open
      <4>1. \A x \in R : x.type = l.type /\ x.status = "Approved"
        BY <1>2, <1>3, <1>4, <3>1, RowsOfType
      <4>. QED
        BY <1>2, <4>1 DEF Open
    <3>3. PICK c : c = Cost(R)
      OBVIOUS
    <3>4. /\ IsFiniteSet(R) /\ c \in Nat
          /\ c <= IF l.half THEN Cardinality({f.sched}) ELSE 2 * Cardinality({f.sched})
      BY <1>2, <1>3, <1>4, <3>1, <3>3, RowsCost
    <3>. QED
      BY <1>2, <1>4, <3>2, <3>3, <3>4
  <2>2. CASE ~ f.flag
    <3>1. R = {}
      BY <1>0, <2>2
    <3>2. IsFiniteSet(R) /\ Cardinality(R) = 0
      BY <3>1, FS_EmptySet
    <3>3. Cost(R) \in Nat /\ Cost(R) <= 2 * Cardinality(R)
      BY <3>2, CostType
    <3>. QED
      BY <3>1, <3>2, <3>3
  <2>. QED
    BY <2>1, <2>2
<1>6. leaves \in SUBSET {x \in leaves : x.req # 0}
  BY <1>3
<1>7. /\ DaysLive'
      /\ Cost(Charged(u, 0)') <= Cost(Charged(u, 0)) + Cost(R) /\ Cost(Charged(u, 0)') \in Nat
      /\ \A t : t # u => Charged(t, 0)' \subseteq Charged(t, 0) /\ Cost(Charged(t, 0)') <= Cost(Charged(t, 0))
  BY <1>1, <1>3, <1>5, <1>6, ChargesAdded
<1>8. ASSUME NEW t \in Types \ explained' PROVE Covered(t)'
  <2>1. Covered(t)
    BY <1>1, <1>8 DEF BalanceInv
  <2>2. CASE t # u
    <3>1. quota'[t] = quota[t]
      BY <1>1, <1>2, <1>3, <2>2
    <3>. QED
      BY <1>3, <1>7, <2>1, <2>2, <3>1, StaysCovered
  <2>3. CASE t = u
    <3>1. quota[t][1] = work[w].read
      BY <1>1, <1>8, <2>3
    <3>2. quota[t] # <<>>
      BY <1>0, <1>1, <2>3 DEF BalanceInv, Creditable
    <3>3. quota'[t] = [quota[t] EXCEPT ![1] = work[w].read + 2] /\ quota[t] \in Seq(Int)
      BY <1>1, <1>3, <2>3
    <3>4. Len(quota'[t]) = Len(quota[t]) /\ quota'[t][1] = work[w].read + 2 /\ quota'[t] # <<>>
      BY <1>3, <3>2, <3>3
    <3>5. ASSUME Len(quota'[t]) = 1 PROVE Cost(Charged(t, 0)') <= quota'[t][1]
      <4>1. Cost(Charged(t, 0)) \in Nat /\ Cost(Charged(t, 0)) <= quota[t][1]
        BY <1>3, <2>1, <3>4, <3>5, TakenIsCost DEF Covered
      <4>. QED
        BY <1>3, <1>5, <1>7, <2>3, <3>1, <3>4, <4>1
    <3>. QED
      BY <3>4, <3>5 DEF Covered
  <2>. QED
    BY <2>2, <2>3
<1>. QED
  BY <1>7, <1>8 DEF Covers

\* Quotas that change while the days stay.
LEMMA QuotaCovers ==
  ASSUME TypeOK, BalanceInv, (\E w \in Workers : SaveDebit(w) \/ CreditType(w)) \/ UpdateQuota PROVE Covers
<1>0. /\ quota \in [Types -> Seq(Int)] /\ DaysLive
      /\ Amounts \subseteq Nat
  BY LeaveConstants DEF TypeOK, TablesOK, BalanceInv
<1>1. leaves' = leaves
  BY DEF SaveDebit, CreditType, UpdateQuota
<1>2. DaysLive'
  BY <1>0, <1>1 DEF DaysLive, LiveRows
<1>3. \A t : Charged(t, 0)' = Charged(t, 0) /\ Cost(Charged(t, 0)) \in Nat
  <2>1. \A t : Charged(t, 0)' = Charged(t, 0)
    BY <1>1 DEF Charged
  <2>. QED
    BY <1>0, <2>1, TakenIsCost
<1>4. ASSUME NEW t \in Types \ explained, Covered(t), quota'[t] = quota[t] PROVE Covered(t)'
  BY <1>3, <1>4 DEF Covered
<1>5. ASSUME NEW w \in Workers, SaveDebit(w), NEW t \in Types \ explained' PROVE Covered(t)'
  <2>1. PICK u : u = work[w].form.type
    OBVIOUS
  <2>2. quota' = [quota EXCEPT ![u][1] = work[w].read - 2] /\ explained' = explained \cup {x \in {u} : TRUE}
    BY <1>5, <2>1 DEF SaveDebit, Explain
  <2>3. t \in Types \ explained /\ t # u
    BY <1>5, <2>2
  <2>4. quota'[t] = quota[t] /\ Covered(t)
    BY <1>0, <2>2, <2>3 DEF BalanceInv
  <2>. QED
    BY <1>4, <2>3, <2>4
<1>6. ASSUME NEW w \in Workers, CreditType(w), NEW t \in Types \ explained' PROVE Covered(t)'
  <2>1. PICK n, u : n \in Amounts /\ u = TypeList[work[w].read] /\ quota' = [quota EXCEPT ![u] = Append(@, n)]
    BY <1>6 DEF CreditType
  <2>2. explained' = explained
    BY <1>6 DEF CreditType
  <2>3. Covered(t) /\ t \in Types \ explained
    BY <1>6, <2>2 DEF BalanceInv
  <2>4. CASE t # u
    BY <1>0, <1>4, <2>1, <2>3, <2>4
  <2>5. CASE t = u
    <3>1. quota'[t] = Append(quota[t], n) /\ quota[t] \in Seq(Int) /\ n \in Nat
      BY <1>0, <2>1, <2>3, <2>5
    <3>2. quota'[t] # <<>> /\ (Len(quota'[t]) = 1 => quota[t] = <<>> /\ quota'[t][1] = n)
      <4>1. PICK q : q = quota[t]
        OBVIOUS
      <4>2. /\ q \in Seq(Int) /\ Append(q, n) # <<>>
            /\ Len(Append(q, n)) = 1 => q = <<>> /\ Append(q, n)[1] = n
        BY <3>1, <4>1
      <4>. QED
        BY <3>1, <4>1, <4>2
    <3>3. Cardinality({}) = 0 /\ FullOf({}) = {}
      BY FS_EmptySet DEF FullOf
    <3>4. Cost({}) = 0
      BY <3>3 DEF Cost
    <3>5. ASSUME Len(quota'[t]) = 1 PROVE Cost(Charged(t, 0)') <= quota'[t][1]
      <4>1. Charged(t, 0)' = {}
        BY <1>3, <2>3, <3>2, <3>5 DEF Covered
      <4>2. Cost(Charged(t, 0)') = 0 /\ quota'[t][1] \in Nat
        BY <3>1, <3>2, <3>4, <3>5, <4>1
      <4>. QED
        BY <4>2
    <3>. QED
      BY <3>2, <3>5 DEF Covered
  <2>. QED
    BY <2>4, <2>5
<1>7. ASSUME UpdateQuota, NEW t \in Types \ explained' PROVE Covered(t)'
  <2>1. PICK u \in Types, n \in Amounts : \E i \in DOMAIN quota[u] :
          /\ quota' = [quota EXCEPT ![u][i] = n]
          /\ Explain(u, n < quota[u][i])
    BY <1>7, Zenon DEF UpdateQuota
  <2>2. PICK i \in DOMAIN quota[u] : /\ quota' = [quota EXCEPT ![u][i] = n]
                                     /\ explained' = explained \cup {x \in {u} : n < quota[u][i]}
    BY <2>1 DEF Explain
  <2>3. Covered(t) /\ t \in Types \ explained
    BY <1>7, <2>2 DEF BalanceInv
  <2>4. CASE t # u
    BY <1>0, <1>4, <2>2, <2>3, <2>4
  <2>5. CASE t = u
    <3>1. quota'[t] = [quota[t] EXCEPT ![i] = n] /\ quota[t] \in Seq(Int) /\ n \in Nat /\ i \in DOMAIN quota[t]
      BY <1>0, <2>2, <2>5
    <3>2. ~ n < quota[t][i]
      BY <1>7, <2>2, <2>5
    <3>3. Len(quota'[t]) = Len(quota[t]) /\ quota'[t] # <<>>
      BY <3>1
    <3>4. ASSUME Len(quota'[t]) = 1
          PROVE  quota'[t][1] \in Int /\ quota[t][1] <= quota'[t][1] /\ quota[t][1] \in Int
      BY <3>1, <3>2, <3>3, <3>4
    <3>. QED
      BY <1>3, <2>3, <3>3, <3>4 DEF Covered
  <2>. QED
    BY <2>4, <2>5
<1>. QED
  BY <1>2, <1>5, <1>6, <1>7 DEF Covers

\* Where a call starts that asks nothing of a balance.
OtherStarts == {"newcomp", "editcomp", "uncredit", "closecomp", "days", "answer", "allot"}

LEMMA AskSteps ==
  ASSUME NEW w,
         AskComp(w) \/ AskEditComp(w) \/ AskCancelComp(w) \/ AskStatus(w) \/ AskAnswer(w) \/ AskCredit(w)
  PROVE  \E now : now.at \in OtherStarts /\ Start(w, now)
<1>1. CASE AskComp(w)
  <2>1. PICK f, now : now = [Idle EXCEPT !.at = "newcomp", !.form = f] /\ Start(w, now)
    BY <1>1 DEF AskComp
  <2>2. now.at = "newcomp"
    BY <2>1 DEF Idle
  <2>3. now.at \in OtherStarts
    BY <2>2 DEF OtherStarts
  <2>. QED
    BY <2>1, <2>3, Zenon
<1>2. CASE AskEditComp(w)
  <2>1. PICK c, f, now : now = [Idle EXCEPT !.at = "editcomp", !.id = c, !.form = f] /\ Start(w, now)
    BY <1>2 DEF AskEditComp
  <2>2. now.at = "editcomp"
    BY <2>1 DEF Idle
  <2>3. now.at \in OtherStarts
    BY <2>2 DEF OtherStarts
  <2>. QED
    BY <2>1, <2>3, Zenon
<1>3. CASE AskCancelComp(w)
  <2>1. PICK c, now :
          /\ now = [Idle EXCEPT !.at = IF comps[c].status = "Approved" THEN "uncredit" ELSE "closecomp",
                                !.id = c, !.form = comps[c]]
          /\ Start(w, now)
    BY <1>3 DEF AskCancelComp
  <2>2. now.at \in {"uncredit", "closecomp"}
    BY <2>1 DEF Idle
  <2>3. now.at \in OtherStarts
    BY <2>2 DEF OtherStarts
  <2>. QED
    BY <2>1, <2>3, Zenon
<1>4. CASE AskStatus(w)
  <2>1. PICK r, s, now : now = [Idle EXCEPT !.at = "days", !.id = r, !.to = s] /\ Start(w, now)
    BY <1>4 DEF AskStatus
  <2>2. now.at = "days"
    BY <2>1 DEF Idle
  <2>3. now.at \in OtherStarts
    BY <2>2 DEF OtherStarts
  <2>. QED
    BY <2>1, <2>3, Zenon
<1>5. CASE AskAnswer(w)
  <2>1. PICK c, s, now : /\ now = [Idle EXCEPT !.at = "answer", !.id = c, !.form = comps[c], !.to = s]
                         /\ Start(w, now)
    BY <1>5 DEF AskAnswer
  <2>2. now.at = "answer"
    BY <2>1 DEF Idle
  <2>3. now.at \in OtherStarts
    BY <2>2 DEF OtherStarts
  <2>. QED
    BY <2>1, <2>3, Zenon
<1>6. CASE AskCredit(w)
  <2>1. PICK now : now = [Idle EXCEPT !.at = "allot", !.read = 1] /\ Start(w, now)
    BY <1>6 DEF AskCredit
  <2>2. now.at = "allot"
    BY <2>1 DEF Idle
  <2>3. now.at \in OtherStarts
    BY <2>2 DEF OtherStarts
  <2>. QED
    BY <2>1, <2>3, Zenon
<1>. QED
  BY <1>1, <1>2, <1>3, <1>4, <1>5, <1>6

\* The steps that write neither days nor quotas.
Quiet == UNCHANGED <<leaves, quota, explained>>

\* No other validation than that of a worker who asks is new, and every write outdates them all.
LEMMA FreshSteps ==
  ASSUME TypeOK, DaysLive, [Next]_vars
  PROVE  \/ fresh' = {}
         \/ /\ Quiet
            /\ \A v \in fresh' \cap Workers :
                 \/ v \in fresh /\ work'[v] = work[v]
                 \/ work'[v].at \notin {"create", "edit", "debit"}
                 \/ Affordable(work'[v])
<1>. DEFINE Kept(v) == \/ v \in fresh /\ work'[v] = work[v]
                       \/ work'[v].at \notin {"create", "edit", "debit"}
                       \/ Affordable(work'[v])
            Goal == Quiet /\ \A v \in fresh' \cap Workers : Kept(v)
<1>0. work \in [Workers -> Call] /\ LeaveForms \subseteq LeaveForm
  BY LeaveConstants DEF TypeOK
<1>1. ASSUME NEW w \in Workers, NEW now, work' = [work EXCEPT ![w] = now], Quiet,
             fresh' \subseteq fresh \cup {w},
             now.at \notin {"create", "edit", "debit"} \/ Affordable(now)
      PROVE  Goal
  <2>1. work'[w] = now /\ \A v \in Workers \ {w} : work'[v] = work[v]
    BY <1>0, <1>1
  <2>2. Kept(w)
    BY <1>1, <2>1
  <2>3. ASSUME NEW v \in fresh' \cap Workers, v # w PROVE Kept(v)
    BY <1>1, <2>1, <2>3
  <2>. QED
    BY <1>1, <2>2, <2>3
<1>. HIDE DEF Goal
<1>2. ASSUME NEW w \in Workers, AskLeave(w) PROVE Goal
  <2>1. PICK f, now :
          f \in LeaveForms /\ Valid(f, 0) /\ now = [Idle EXCEPT !.at = "create", !.form = f] /\ Start(w, now)
    BY <1>2 DEF AskLeave
  <2>2. now.at = "create" /\ now.form = f
    BY <2>1 DEF Idle
  <2>3. PaidFor(now, 0)
    BY <2>1, <2>2, ValidIsPaid
  <2>4. Affordable(now)
    BY <2>2, <2>3 DEF Affordable
  <2>5. work' = [work EXCEPT ![w] = now] /\ Quiet /\ fresh' = fresh \cup {w}
    BY <2>1 DEF Start, tables, Quiet
  <2>. QED
    BY <1>1, <2>4, <2>5
<1>3. ASSUME NEW w \in Workers, AskEdit(w) PROVE Goal
  <2>1. PICK r, f, now :
          f \in LeaveForms /\ Valid(f, r) /\ now = [Idle EXCEPT !.at = "edit", !.id = r, !.form = f] /\ Start(w, now)
    BY <1>3 DEF AskEdit
  <2>2. now.at = "edit" /\ now.form = f /\ now.id = r
    BY <2>1 DEF Idle
  <2>3. PaidFor(now, now.id)
    BY <2>1, <2>2, ValidIsPaid
  <2>4. Affordable(now)
    BY <2>2, <2>3 DEF Affordable
  <2>5. work' = [work EXCEPT ![w] = now] /\ Quiet /\ fresh' = fresh \cup {w}
    BY <2>1 DEF Start, tables, Quiet
  <2>. QED
    BY <1>1, <2>4, <2>5
<1>4. ASSUME NEW w \in Workers, AskDebit(w) PROVE Goal
  <2>1. PICK t, d, now :
          /\ t \in DebitTypes
          /\ now = [Idle EXCEPT !.at = "debit",
                                !.form = [type |-> t, first |-> d, last |-> d, half |-> FALSE]]
          /\ Start(w, now)
    BY <1>4 DEF AskDebit
  <2>2. now.at = "debit" /\ now.form.type = t
    BY <2>1 DEF Idle
  <2>3. t \in Types /\ Available(t)
    <3>1. General \in Types
      BY LeaveConstants
    <3>. QED
      BY <3>1, <2>1 DEF DebitTypes
  <2>4. quota[t] # <<>> /\ (Len(quota[t]) = 1 => Cost(Charged(t, 0)) < quota[t][1])
    BY <2>3, AvailableMeans
  <2>5. Affordable(now)
    BY <2>2, <2>4 DEF Affordable
  <2>6. work' = [work EXCEPT ![w] = now] /\ Quiet /\ fresh' = fresh \cup {w}
    BY <2>1 DEF Start, tables, Quiet
  <2>. QED
    BY <1>1, <2>5, <2>6
<1>5. ASSUME NEW w \in Workers,
             AskComp(w) \/ AskEditComp(w) \/ AskCancelComp(w) \/ AskStatus(w) \/ AskAnswer(w) \/ AskCredit(w)
      PROVE  Goal
  <2>1. PICK now : now.at \in OtherStarts /\ Start(w, now)
    BY <1>5, AskSteps
  <2>2. work' = [work EXCEPT ![w] = now] /\ Quiet /\ fresh' = fresh \cup {w}
    BY <2>1 DEF Start, tables, Quiet
  <2>. QED
    BY <1>1, <2>1, <2>2 DEF OtherStarts
<1>6. Idle.at = "idle"
  BY DEF Idle
<1>7. ASSUME NEW w \in Workers,
             CreateComp(w) \/ EditComp(w) \/ RejectComp(w) \/ WriteStatus(w) \/ Die(w)
      PROVE  Goal
  <2>1. work' = [work EXCEPT ![w] = Idle] /\ Quiet /\ fresh' = fresh
    BY <1>7 DEF CreateComp, EditComp, RejectComp, WriteStatus, Die, Turn, history, tables, Quiet
  <2>. QED
    BY <1>1, <1>6, <2>1
<1>8. ASSUME NEW w \in Workers, ReadCredit(w) \/ ReadDebit(w) \/ CloseComp(w) PROVE Goal
  <2>1. work[w] \in Call
    BY <1>0
  <2>2. \E now : now.at \notin {"create", "edit", "debit"} /\ work' = [work EXCEPT ![w] = now]
    <3>1. CASE ReadCredit(w)
      <4>1. PICK n, now : /\ now \in {[work[w] EXCEPT !.at = "credit", !.read = n], Idle}
                          /\ work' = [work EXCEPT ![w] = now]
        BY <3>1 DEF ReadCredit, Turn
      <4>. QED
        BY <1>6, <2>1, <4>1 DEF Call
    <3>2. CASE ReadDebit(w)
      <4>1. PICK n, now : /\ now \in {[work[w] EXCEPT !.at = "savequota", !.read = n], Idle}
                          /\ work' = [work EXCEPT ![w] = now]
        BY <3>2 DEF ReadDebit, Turn
      <4>. QED
        BY <1>6, <2>1, <4>1 DEF Call
    <3>3. CASE CloseComp(w)
      <4>1. PICK r, now : /\ now \in {[Idle EXCEPT !.at = "days", !.id = r, !.to = "Cancelled"], Idle}
                          /\ work' = [work EXCEPT ![w] = now]
        BY <3>3 DEF CloseComp, Turn
      <4>. QED
        BY <1>6, <4>1 DEF Idle
    <3>. QED
      BY <1>8, <3>1, <3>2, <3>3
  <2>3. Quiet /\ fresh' = fresh
    BY <1>8 DEF ReadCredit, ReadDebit, CloseComp, Turn, history, tables, Quiet
  <2>4. PICK now : now.at \notin {"create", "edit", "debit"} /\ work' = [work EXCEPT ![w] = now]
    BY <2>2
  <2>. QED
    BY <1>1, <2>3, <2>4
<1>9. ASSUME NEW w \in Workers,
             \/ CreateLeave(w) \/ EditLeave(w) \/ SaveDebit(w) \/ WriteDays(w) \/ ApproveComp(w)
             \/ DebitLeave(w) \/ CreditType(w)
      PROVE  fresh' = {}
  BY <1>9 DEF CreateLeave, EditLeave, SaveDebit, WriteDays, ApproveComp, DebitLeave, CreditType, Outdate
<1>10. UpdateQuota => fresh' = {}
  BY DEF UpdateQuota, Outdate
<1>11. NextDay \/ UNCHANGED vars => Goal
  BY DEF NextDay, vars, tables, history, Quiet, Goal
<1>. QED
  BY <1>2, <1>3, <1>4, <1>5, <1>7, <1>8, <1>9, <1>10, <1>11 DEF Next, Employee, Approver, HR, Goal

LEMMA FreshAffordableStep == TypeOK /\ DaysLive /\ FreshAffordable /\ [Next]_vars => FreshAffordable'
<1>. SUFFICES ASSUME TypeOK, DaysLive, FreshAffordable, [Next]_vars, NEW v \in fresh'
              PROVE  Affordable(work[v])'
  BY DEF FreshAffordable
<1>1. v \in Workers
  <2>1. fresh' \subseteq Workers
    BY RestStep
  <2>. QED
    BY <2>1
<1>2. Quiet /\ (\/ v \in fresh /\ work'[v] = work[v]
                \/ work'[v].at \notin {"create", "edit", "debit"}
                \/ Affordable(work'[v]))
  BY <1>1, FreshSteps
<1>3. \A t, r : Charged(t, r)' = Charged(t, r)
  BY <1>2 DEF Charged, Quiet
<1>4. CASE work'[v].at \notin {"create", "edit", "debit"}
  BY <1>4 DEF Affordable
<1>5. CASE Affordable(work'[v])
  <2>1. PICK c : c = work'[v]
    OBVIOUS
  <2>2. Affordable(c)
    BY <1>5, <2>1
  <2>3. quota' = quota
    BY <1>2 DEF Quiet
  <2>4. \A r : PaidFor(c, r)' <=> PaidFor(c, r)
    BY <1>3, <2>3 DEF PaidFor
  <2>5. Affordable(c)'
    BY <1>3, <2>2, <2>3, <2>4 DEF Affordable
  <2>. QED
    BY <2>1, <2>5 DEF Affordable, PaidFor
<1>. QED
  BY <1>2, <1>4, <1>5 DEF FreshAffordable

\* No quota goes away, and an approval starts from one.
LEMMA CreditableStep == TypeOK /\ Creditable /\ [Next]_vars => Creditable'
<1>. SUFFICES ASSUME TypeOK, Creditable, [Next]_vars PROVE Creditable'
  OBVIOUS
<1>0. /\ quota \in [Types -> Seq(Int)] /\ work \in [Workers -> Call]
      /\ \A w \in Workers : work[w].at = "credit" => work[w].form.type \in Types
  BY FormTypes DEF TypeOK, TablesOK
<1>1. \A t \in Types : quota[t] # <<>> => quota'[t] # <<>>
  <2>1. ASSUME NEW u, NEW i, NEW n, quota' = [quota EXCEPT ![u][i] = n], NEW t \in Types, quota[t] # <<>>
        PROVE  quota'[t] # <<>>
    <3>1. quota'[t] = quota[t] \/ quota'[t] = [quota[t] EXCEPT ![i] = n]
      BY <1>0, <2>1
    <3>2. DOMAIN quota[t] # {}
      <4>1. quota[t] \in Seq(Int) /\ Len(quota[t]) \in Nat /\ Len(quota[t]) # 0
        BY <2>1, QuotaInts
      <4>2. 1 \in DOMAIN quota[t]
        BY <4>1
      <4>. QED
        BY <4>2
    <3>3. DOMAIN quota'[t] = DOMAIN quota[t]
      BY <3>1
    <3>. QED
      BY <3>2, <3>3
  <2>2. ASSUME NEW w \in Workers, ApproveComp(w) \/ SaveDebit(w), NEW t \in Types, quota[t] # <<>>
        PROVE  quota'[t] # <<>>
    <3>1. PICK u, n : quota' = [quota EXCEPT ![u][1] = n]
      BY <2>2 DEF ApproveComp, SaveDebit
    <3>. QED
      BY <2>1, <2>2, <3>1
  <2>3. ASSUME UpdateQuota, NEW t \in Types, quota[t] # <<>> PROVE quota'[t] # <<>>
    BY <2>1, <2>3 DEF UpdateQuota
  <2>4. ASSUME NEW w \in Workers, CreditType(w), NEW t \in Types, quota[t] # <<>> PROVE quota'[t] # <<>>
    <3>1. PICK n, u : n \in Amounts /\ quota' = [quota EXCEPT ![u] = Append(@, n)]
      BY <2>4 DEF CreditType
    <3>2. quota'[t] = quota[t] \/ quota'[t] = Append(quota[t], n)
      BY <1>0, <3>1
    <3>3. quota[t] \in Seq(Int) /\ n \in Int
      <4>1. Amounts \subseteq Nat
        BY LeaveConstants
      <4>. QED
        BY <1>0, <3>1, <4>1
    <3>4. Append(quota[t], n) # <<>>
      BY <3>3
    <3>. QED
      BY <2>4, <3>2, <3>4
  <2>5. ASSUME NEW w \in Workers,
               \/ AskLeave(w) \/ CreateLeave(w) \/ AskEdit(w) \/ EditLeave(w) \/ AskComp(w) \/ CreateComp(w)
               \/ AskEditComp(w) \/ EditComp(w) \/ AskCancelComp(w) \/ ReadDebit(w) \/ CloseComp(w)
               \/ AskStatus(w) \/ WriteDays(w) \/ WriteStatus(w) \/ AskAnswer(w) \/ RejectComp(w)
               \/ ReadCredit(w) \/ AskDebit(w) \/ DebitLeave(w) \/ AskCredit(w) \/ Die(w)
        PROVE  quota' = quota
    BY <2>5 DEF AskLeave, CreateLeave, AskEdit, EditLeave, AskComp, CreateComp, AskEditComp, EditComp,
                AskCancelComp, ReadDebit, CloseComp, AskStatus, WriteDays, WriteStatus, AskAnswer, RejectComp,
                ReadCredit, AskDebit, DebitLeave, AskCredit, Die, Start, tables
  <2>6. NextDay \/ UNCHANGED vars => quota' = quota
    BY DEF NextDay, vars, tables
  <2>. QED
    BY <2>2, <2>3, <2>4, <2>5, <2>6 DEF Next, Employee, Approver, HR
<1>2. ASSUME NEW v \in Workers, work'[v].at = "credit", work'[v] # work[v]
      PROVE  quota[work'[v].form.type] # <<>> /\ work'[v].form.type \in Types
  <2>. DEFINE Goal == quota[work'[v].form.type] # <<>> /\ work'[v].form.type \in Types
  <2>1. ASSUME NEW w \in Workers, NEW now, work' = [work EXCEPT ![w] = now], now.at # "credit"
        PROVE  FALSE
    <3>1. w = v \/ w # v
      OBVIOUS
    <3>. QED
      BY <1>0, <1>2, <2>1
  <2>2. ASSUME NEW w \in Workers, ReadCredit(w) PROVE Goal
    <3>1. PICK t : t = work[w].form.type
      OBVIOUS
    <3>2. PICK now : /\ work' = [work EXCEPT ![w] = now]
                     /\ now = IF Len(quota[t]) = 1 THEN [work[w] EXCEPT !.at = "credit", !.read = quota[t][1]]
                              ELSE Idle
      BY <2>2, <3>1 DEF ReadCredit, Turn
    <3>3. now.at = "credit"
      BY <2>1, <3>2
    <3>4. Idle.at # "credit"
      BY DEF Idle
    <3>5. Len(quota[t]) = 1 /\ now = [work[w] EXCEPT !.at = "credit", !.read = quota[t][1]]
      BY <3>2, <3>3, <3>4
    <3>6. work[w] \in Call /\ work[w].at = "answer"
      BY <1>0, <2>2 DEF ReadCredit
    <3>7. now.form.type = t /\ t \in Types
      BY <3>1, <3>5, <3>6, FormTypes DEF Call
    <3>8. work'[v] = now
      BY <1>0, <1>2, <3>2
    <3>9. quota[t] # <<>>
      BY <3>5, <3>7, QuotaInts
    <3>. QED
      BY <3>7, <3>8, <3>9
  <2>3. ASSUME NEW w \in Workers,
               \/ AskLeave(w) \/ AskEdit(w) \/ AskComp(w) \/ AskEditComp(w) \/ AskCancelComp(w)
               \/ AskStatus(w) \/ AskAnswer(w) \/ AskDebit(w) \/ AskCredit(w)
        PROVE  \E now : work' = [work EXCEPT ![w] = now] /\ now.at # "credit"
    <3>1. CASE AskLeave(w)
      <4>1. PICK f, now : now = [Idle EXCEPT !.at = "create", !.form = f] /\ Start(w, now)
        BY <3>1 DEF AskLeave
      <4>2. now.at = "create"
        BY <4>1 DEF Idle
      <4>. QED
        BY <4>1, <4>2 DEF Start
    <3>2. CASE AskEdit(w)
      <4>1. PICK r, f, now : now = [Idle EXCEPT !.at = "edit", !.id = r, !.form = f] /\ Start(w, now)
        BY <3>2 DEF AskEdit
      <4>2. now.at = "edit"
        BY <4>1 DEF Idle
      <4>. QED
        BY <4>1, <4>2 DEF Start
    <3>3. CASE AskDebit(w)
      <4>1. PICK f, now : now = [Idle EXCEPT !.at = "debit", !.form = f] /\ Start(w, now)
        BY <3>3 DEF AskDebit
      <4>2. now.at = "debit"
        BY <4>1 DEF Idle
      <4>. QED
        BY <4>1, <4>2 DEF Start
    <3>4. CASE AskComp(w) \/ AskEditComp(w) \/ AskCancelComp(w) \/ AskStatus(w) \/ AskAnswer(w) \/ AskCredit(w)
      BY <3>4, AskSteps DEF OtherStarts, Start
    <3>. QED
      BY <2>3, <3>1, <3>2, <3>3, <3>4
  <2>4. Idle.at # "credit"
    BY DEF Idle
  <2>5. ASSUME NEW w \in Workers,
               \/ CreateLeave(w) \/ EditLeave(w) \/ CreateComp(w) \/ EditComp(w) \/ RejectComp(w)
               \/ WriteStatus(w) \/ DebitLeave(w) \/ ApproveComp(w) \/ Die(w)
        PROVE  work' = [work EXCEPT ![w] = Idle]
    BY <2>5 DEF CreateLeave, EditLeave, CreateComp, EditComp, RejectComp, WriteStatus, DebitLeave,
                ApproveComp, Die, Turn
  <2>6. ASSUME NEW w \in Workers,
               \/ ReadDebit(w) \/ SaveDebit(w) \/ CloseComp(w) \/ WriteDays(w) \/ CreditType(w)
        PROVE  \E now : work' = [work EXCEPT ![w] = now] /\ now.at # "credit"
    <3>1. work[w] \in Call
      BY <1>0
    <3>2. \E now : work' = [work EXCEPT ![w] = now] /\
            \/ now = Idle
            \/ \E n : now = [work[w] EXCEPT !.at = "savequota", !.read = n]
            \/ now = [work[w] EXCEPT !.at = "closecomp"]
            \/ \E r : now = [Idle EXCEPT !.at = "days", !.id = r, !.to = "Cancelled"]
            \/ now = [work[w] EXCEPT !.at = "status"]
            \/ work[w].at = "allot" /\ \E n : now = [work[w] EXCEPT !.read = n]
      <4>1. CASE ReadDebit(w)
        BY <4>1 DEF ReadDebit, Turn
      <4>2. CASE SaveDebit(w)
        BY <4>2 DEF SaveDebit, Turn
      <4>3. CASE CloseComp(w)
        BY <4>3 DEF CloseComp, Turn
      <4>4. CASE WriteDays(w)
        BY <4>4 DEF WriteDays, Turn
      <4>5. CASE CreditType(w)
        BY <4>5 DEF CreditType, Turn
      <4>. QED
        BY <2>6, <4>1, <4>2, <4>3, <4>4, <4>5
    <3>. QED
      BY ZenonT(60), <2>4, <3>1, <3>2 DEF Call, Idle
  <2>7. UpdateQuota \/ NextDay \/ UNCHANGED vars => work' = work
    BY DEF UpdateQuota, NextDay, vars
  <2>8. ASSUME NEW w \in Workers, Employee(w) \/ Approver(w) \/ HR(w) \/ Die(w) PROVE Goal
    BY <2>1, <2>2, <2>3, <2>4, <2>5, <2>6, <2>8 DEF Employee, Approver, HR
  <2>. QED
    BY <1>2, <2>7, <2>8 DEF Next
<1>. QED
  BY <1>0, <1>1, <1>2 DEF Creditable

LEMMA BalanceStep == TypeOK /\ BalanceInv /\ [Next]_vars => BalanceInv'
<1>. SUFFICES ASSUME TypeOK, BalanceInv, [Next]_vars PROVE BalanceInv'
  OBVIOUS
<1>1. DaysLive /\ FreshAffordable /\ Creditable
  BY DEF BalanceInv
<1>2. FreshAffordable' /\ Creditable'
  BY <1>1, FreshAffordableStep, CreditableStep
<1>3. CASE Quiet
  <2>1. leaves' = leaves /\ quota' = quota /\ explained' = explained
    BY <1>3 DEF Quiet
  <2>2. DaysLive' /\ \A t : Covered(t)' <=> Covered(t)
    <3>1. DaysLive'
      BY <1>1, <2>1 DEF DaysLive, LiveRows
    <3>2. \A t, r : Charged(t, r)' = Charged(t, r)
      BY <2>1 DEF Charged
    <3>. QED
      BY <2>1, <3>1, <3>2 DEF Covered
  <2>. QED
    BY <1>2, <2>1, <2>2 DEF BalanceInv
<1>4. CASE Covers
  BY <1>2, <1>4 DEF BalanceInv, Covers
<1>5. ASSUME NEW w \in Workers,
             \/ CreateLeave(w) \/ EditLeave(w) \/ SaveDebit(w) \/ WriteDays(w) \/ ApproveComp(w)
             \/ DebitLeave(w) \/ CreditType(w)
      PROVE  Covers
  BY <1>5, CreateCovers, EditCovers, QuotaCovers, AnswerCovers, CompCovers, DebitCovers
<1>6. UpdateQuota => Covers
  BY QuotaCovers
<1>7. ASSUME NEW w \in Workers,
             \/ AskLeave(w) \/ AskEdit(w) \/ AskComp(w) \/ CreateComp(w)
             \/ AskEditComp(w) \/ EditComp(w) \/ AskCancelComp(w) \/ ReadDebit(w) \/ CloseComp(w)
             \/ AskStatus(w) \/ WriteStatus(w) \/ AskAnswer(w) \/ RejectComp(w)
             \/ ReadCredit(w) \/ AskDebit(w) \/ AskCredit(w) \/ Die(w)
      PROVE  Quiet
  BY <1>7 DEF AskLeave, AskEdit, AskComp, CreateComp, AskEditComp, EditComp, AskCancelComp, ReadDebit,
              CloseComp, AskStatus, WriteStatus, AskAnswer, RejectComp, ReadCredit, AskDebit, AskCredit,
              Die, Start, tables, history, Quiet
<1>8. NextDay \/ UNCHANGED vars => Quiet
  BY DEF NextDay, vars, tables, history, Quiet
<1>. QED
  BY <1>3, <1>4, <1>5, <1>6, <1>7, <1>8 DEF Next, Employee, Approver, HR

LEMMA BalanceInit == Init => BalanceInv
<1>. SUFFICES ASSUME Init PROVE BalanceInv
  OBVIOUS
<1>1. leaves = {} /\ explained = {} /\ fresh = {} /\ work = [w \in Workers |-> Idle]
  BY DEF Init
<1>2. DaysLive
  BY <1>1, FS_EmptySet DEF DaysLive, LiveRows
<1>3. \A w \in Workers : work[w].at # "credit"
  BY <1>1 DEF Idle
<1>4. ASSUME NEW t \in Types PROVE Covered(t)
  <2>1. Charged(t, 0) = {} /\ FullOf({}) = {} /\ Cardinality({}) = 0
    BY <1>1, FS_EmptySet DEF Charged, FullOf
  <2>2. Cost(Charged(t, 0)) = 0
    BY <2>1 DEF Cost
  <2>3. quota[t] = <<>> \/ \E n \in Amounts : quota[t] = <<n>>
    BY DEF Init
  <2>4. Len(quota[t]) = 1 => quota[t][1] \in Nat
    BY <2>3, LeaveConstants
  <2>. QED
    BY <2>1, <2>2, <2>4 DEF Covered
<1>. QED
  BY <1>1, <1>2, <1>3, <1>4 DEF BalanceInv, Creditable, FreshAffordable

LEMMA BalanceExplained == TypeOK /\ BalanceInv => OverdrawnIsExplained
<1>. SUFFICES ASSUME TypeOK, BalanceInv, NEW t \in Types, Len(quota[t]) = 1, t \notin explained
              PROVE  Balance(t, 0) >= 0
  BY DEF OverdrawnIsExplained
<1>1. DaysLive /\ Covered(t)
  BY DEF BalanceInv
<1>2. Balance(t, 0) = quota[t][1] - Cost(Charged(t, 0))
  BY <1>1, BalanceIs
<1>3. quota[t][1] \in Int /\ Cost(Charged(t, 0)) \in Nat /\ Cost(Charged(t, 0)) <= quota[t][1]
  BY <1>1, QuotaInts, TakenIsCost DEF Covered
<1>. QED
  BY <1>2, <1>3

\* A balance is below zero only where something other than a sound booking lowered it: a validation
\* that another call outdated, a half day over several dates, a quota lowered or an update of it
\* lost, or a whole day debited from the last half.
THEOREM BalancesExplained == Spec => []OverdrawnIsExplained
<1>. QED
  BY BalanceInit, BalanceStep, BalanceExplained, TypeCorrect, PTL DEF Spec
=============================================================================
