----------------------- MODULE ShiftAssignmentsProofs -----------------------
(***************************************************************************)
(* Proofs about ShiftAssignments: however many administrators create, end  *)
(* and delete at once, the history of a target overlaps only where one of  *)
(* them wrote it without a row to lock, and a request moves the dates it   *)
(* is about only.                                                          *)
(***************************************************************************)
EXTENDS ShiftAssignments, SequenceTheorems, FiniteSetTheorems, WellFoundedInduction, TLAPS

----------------------------------------------------------------------------
(* The invariant. *)

Holding(w) == req[w].op \in {"create", "end"} /\ req[w].locked

\* No assignment ends before it begins.
Ordered == \A i \in Ids : asg[i].live => asg[i].from <= asg[i].to

\* The history of a target does not overlap.
Tidy(tg) == \A i, j \in Live(tg) : i # j => Apart(i, j)

\* The rows a transaction has locked are in force still.  While its target has not been raced for
\* they are all of its rows, or it found none; an end finds none only where its own row is gone.
Held(r) ==
  /\ r.rows \subseteq Live(r.target)
  /\ r.target \notin raced /\ r.rows # {} => r.rows = Live(r.target)
  /\ r.target \notin raced /\ r.rows = {} /\ r.op = "end" => ~asg[r.id].live

RowsHeld  == \A w \in Admins : Holding(w) => Held(req[w])
Exclusive == \A v, w \in Admins : v # w /\ Holding(v) /\ Holding(w) => req[v].rows \cap req[w].rows = {}

\* What a request has read is still true of its row, but for its end and whether it is in force.
Known(r) == /\ r.id \in Ids
            /\ r.row.from = asg[r.id].from /\ r.row.target = asg[r.id].target
            /\ r.row.shift = asg[r.id].shift

Creating(r) == r.op = "create" => r.target = r.row.target
Ending(r)   == r.op = "end" => /\ Known(r) /\ r.row.target = r.target
                               /\ r.row.live /\ r.row.from <= r.to
Deleting(r) == r.op = "delete" => Known(r) /\ r.row.target = r.target

Read == \A w \in Admins : Creating(req[w]) /\ Ending(req[w]) /\ Deleting(req[w])

IInv == Ordered /\ OverlapIsRaced /\ RowsHeld /\ Exclusive /\ Read

----------------------------------------------------------------------------
(* Types. *)

LEMMA Dating == /\ LastDate \in Nat /\ Forever = LastDate + 1
                /\ \A d : d \in Dates <=> d \in Nat /\ d <= LastDate
  BY DateAssumption DEF Dates, Forever

LEMMA WantedType ==
  ASSUME NEW a \in Wanted
  PROVE  a \in Assignment /\ a.live /\ a.from <= a.to /\ a.to # LastDate
  BY WantedAssumption

LEMMA RowType ==
  ASSUME NEW a \in Assignment
  PROVE  /\ a.shift \in Shifts /\ a.target \in Targets /\ a.live \in BOOLEAN
         /\ a.from \in Dates /\ a.to \in Dates \cup {Forever}
         /\ a = [shift |-> a.shift, target |-> a.target, from |-> a.from, to |-> a.to, live |-> a.live]
  BY DEF Assignment

LEMMA RequestType ==
  ASSUME TypeOK, NEW w \in Admins
  PROVE  /\ req[w] \in Request
         /\ req[w].op = "create" =>
              req[w] \in [op : {"create"}, row : Wanted, target : Targets, locked : BOOLEAN, rows : SUBSET Nat]
         /\ req[w].op = "end" =>
              req[w] \in [op : {"end"}, id : Nat, row : Assignment, target : Targets, to : Dates,
                          locked : BOOLEAN, rows : SUBSET Nat]
         /\ req[w].op = "delete" =>
              req[w] \in [op : {"delete"}, id : Nat, row : Assignment, target : Targets]
         /\ req[w].op = "shift"  => req[w] \in [op : {"shift"}, shift : Shifts, on : BOOLEAN]
<1>1. req[w] \in Request
  BY DEF TypeOK
<1>. QED
  BY <1>1 DEF Request, NoneYet

LEMMA TableType ==
  ASSUME TypeOK
  PROVE  /\ Len(asg) \in Nat /\ Ids = 1 .. Len(asg)
         /\ \A i \in Ids : asg[i] \in Assignment
  BY DEF TypeOK, Ids

\* The table after a covering row is closed: as long, and otherwise the same.
LEMMA CloseType ==
  ASSUME TypeOK, NEW a \in Wanted, NEW rows
  PROVE  /\ Close(a, rows, a.from - 1) \in Seq(Assignment)
         /\ Len(Close(a, rows, a.from - 1)) = Len(asg)
         /\ \A i \in Ids : Close(a, rows, a.from - 1)[i] =
              IF i \in rows /\ Covers(a, i) THEN [asg[i] EXCEPT !.to = a.from - 1] ELSE asg[i]
<1>1. \A i \in Ids : (IF i \in rows /\ Covers(a, i) THEN [asg[i] EXCEPT !.to = a.from - 1] ELSE asg[i])
                       \in Assignment
  <2>. SUFFICES ASSUME NEW i \in Ids, Covers(a, i)
                PROVE  [asg[i] EXCEPT !.to = a.from - 1] \in Assignment
    BY TableType
  <2>1. asg[i] \in Assignment /\ a \in Assignment
    BY TableType, WantedType
  <2>2. a.from - 1 \in Dates
    BY <2>1, RowType, Dating DEF Covers
  <2>. QED
    BY <2>1, <2>2 DEF Assignment
<1>2. Close(a, rows, a.from - 1) \in [1 .. Len(asg) -> Assignment]
  BY <1>1, TableType DEF Close
<1>. QED
  BY <1>1, <1>2, TableType DEF Close

\* The remainders, one for each row that outlasts the new assignment.
LEMMA RestType ==
  ASSUME TypeOK, NEW a \in Wanted, NEW rows, rows \subseteq Ids,
         NEW order \in OldestFirst(Outlasts(a, rows))
  PROVE  /\ DOMAIN order = 1 .. Cardinality(Outlasts(a, rows)) /\ Cardinality(Outlasts(a, rows)) \in Nat
         /\ \A k \in DOMAIN order : order[k] \in Outlasts(a, rows)
         /\ \A m, n \in DOMAIN order : m < n => Before(order[m], order[n])
         /\ Rest(a, order) \in Seq(Assignment) /\ Len(Rest(a, order)) = Cardinality(Outlasts(a, rows))
<1>. DEFINE S == Outlasts(a, rows)
<1>1. S \subseteq Ids
  BY DEF Outlasts
<1>2. IsFiniteSet(S) /\ Cardinality(S) \in Nat
  <2>1. Len(asg) \in Nat /\ Ids = 1 .. Len(asg)
    BY TableType
  <2>2. IsFiniteSet(Ids)
    BY <2>1, FS_Interval
  <2>3. IsFiniteSet(S)
    BY <1>1, <2>2, FS_Subset
  <2>. QED
    BY <2>3, FS_CardinalityType
<1>3. PICK n \in Nat : n = Cardinality(S)
  BY <1>2
<1>4. order \in [1 .. n -> S] /\ \A k, m \in DOMAIN order : k < m => Before(order[k], order[m])
  BY <1>3 DEF OldestFirst
<1>. HIDE DEF S
<1>5. DOMAIN order = 1 .. n /\ \A k \in 1 .. n : order[k] \in S
  BY <1>4
<1>6. ASSUME NEW k \in 1 .. n PROVE [asg[order[k]] EXCEPT !.from = a.to + 1] \in Assignment
  <2>1. PICK c : c = order[k] /\ c \in Ids /\ asg[c].to > a.to
    BY <1>1, <1>5 DEF S, Outlasts
  <2>2. asg[c] \in Assignment /\ a \in Assignment /\ a.to # LastDate
    BY <2>1, TableType, WantedType
  <2>3. a.to + 1 \in Dates
    BY <2>1, <2>2, RowType, Dating
  <2>. QED
    BY <2>1, <2>2, <2>3 DEF Assignment
<1>7. Rest(a, order) \in [1 .. n -> Assignment]
  BY <1>5, <1>6 DEF Rest
<1>8. Rest(a, order) \in Seq(Assignment) /\ Len(Rest(a, order)) = n
  BY <1>7
<1>. QED
  BY <1>3, <1>4, <1>5, <1>8 DEF S

\* The table after a new assignment: the old rows, of which covering ones are closed, what remains
\* of those that outlast it, and the new one.
Shortened(a, rows, i) ==
  IF i \in rows /\ Covers(a, i) THEN [asg[i] EXCEPT !.to = a.from - 1] ELSE asg[i]

Remains(a, c) == [asg[c] EXCEPT !.from = a.to + 1]

LEMMA Appended ==
  ASSUME NEW s \in Seq(Assignment), NEW x \in Assignment
  PROVE  /\ Append(s, x) \in Seq(Assignment) /\ Len(Append(s, x)) = Len(s) + 1
         /\ \A i \in 1 .. Len(s) : Append(s, x)[i] = s[i]
         /\ Append(s, x)[Len(s) + 1] = x
  BY AppendProperties

LEMMA Joined ==
  ASSUME NEW s \in Seq(Assignment), NEW t \in Seq(Assignment),
         NEW l \in Nat, NEW n \in Nat, l = Len(s), n = Len(t)
  PROVE  /\ s \o t \in Seq(Assignment) /\ Len(s \o t) = l + n
         /\ \A i \in 1 .. l + n : (s \o t)[i] = IF i <= l THEN s[i] ELSE t[i - l]
  BY ConcatProperties

LEMMA SplitShape ==
  ASSUME TypeOK, NEW a \in Wanted, NEW rows, rows \subseteq Ids,
         NEW order \in OldestFirst(Outlasts(a, rows)), NEW new, new = Split(a, rows, order)
  PROVE  /\ new \in Seq(Assignment)
         /\ \A i \in Ids : i \in DOMAIN new /\ new[i] = Shortened(a, rows, i)
         /\ new[Len(new)] = a /\ Len(new) \notin Ids /\ Len(new) \in DOMAIN new
         /\ \A k \in DOMAIN new : k \in Ids \/ k = Len(new)
              \/ \E m \in DOMAIN order : k = Len(asg) + m /\ new[k] = Remains(a, order[m])
         /\ \A m \in DOMAIN order : /\ Len(asg) + m \in DOMAIN new
                                    /\ new[Len(asg) + m] = Remains(a, order[m])
<1>. DEFINE old == Close(a, rows, a.from - 1)
            rest == Rest(a, order)
<1>1. /\ old \in Seq(Assignment) /\ Len(old) = Len(asg)
      /\ \A i \in Ids : old[i] = Shortened(a, rows, i)
  BY CloseType DEF Shortened
<1>2. PICK n \in Nat : /\ DOMAIN order = 1 .. n /\ rest \in Seq(Assignment) /\ Len(rest) = n
  BY RestType
<1>3. \A m \in 1 .. n : rest[m] = Remains(a, order[m])
  BY <1>2 DEF Rest, Remains
<1>4. a \in Assignment /\ Len(asg) \in Nat /\ Ids = 1 .. Len(asg)
  BY WantedType, TableType
<1>5. PICK l \in Nat : l = Len(asg)
  BY <1>4
<1>15. PICK both : both = old \o rest
  OBVIOUS
<1>6. new = Append(both, a)
  BY <1>15 DEF Split
<1>. HIDE DEF old, rest
<1>7. /\ both \in Seq(Assignment) /\ Len(both) = l + n
      /\ \A i \in 1 .. l + n : both[i] = IF i <= l THEN old[i] ELSE rest[i - l]
  <2>1. PICK s \in Seq(Assignment), t \in Seq(Assignment) : s = old /\ t = rest
    BY <1>1, <1>2
  <2>2. l = Len(s) /\ n = Len(t) /\ both = s \o t
    BY <1>1, <1>2, <1>5, <1>15, <2>1
  <2>3. /\ s \o t \in Seq(Assignment) /\ Len(s \o t) = l + n
        /\ \A i \in 1 .. l + n : (s \o t)[i] = IF i <= l THEN s[i] ELSE t[i - l]
    BY <2>2, Joined
  <2>. QED
    BY <2>1, <2>2, <2>3
<1>8. /\ new \in Seq(Assignment) /\ Len(new) = l + n + 1 /\ DOMAIN new = 1 .. l + n + 1
      /\ new[l + n + 1] = a /\ \A i \in 1 .. l + n : new[i] = both[i]
  BY SMTT(30), <1>4, <1>6, <1>7, Appended, LenProperties
<1>9. \A i \in Ids : i \in DOMAIN new /\ new[i] = Shortened(a, rows, i)
  BY <1>1, <1>4, <1>5, <1>7, <1>8
<1>10. \A m \in 1 .. n : l + m \in DOMAIN new /\ new[l + m] = Remains(a, order[m])
  <2>. SUFFICES ASSUME NEW m \in 1 .. n
                PROVE  l + m \in DOMAIN new /\ new[l + m] = Remains(a, order[m])
    OBVIOUS
  <2>1. l + m \in 1 .. l + n /\ ~(l + m <= l) /\ (l + m) - l = m
    OBVIOUS
  <2>2. new[l + m] = rest[m]
    BY <1>7, <1>8, <2>1
  <2>. QED
    BY <1>3, <1>8, <2>1, <2>2
<1>11. l + n + 1 \notin Ids /\ l + n + 1 \in DOMAIN new
  BY <1>4, <1>5, <1>8
<1>12. ASSUME NEW k \in DOMAIN new, k \notin Ids, k # l + n + 1
       PROVE  \E m \in 1 .. n : k = l + m /\ new[k] = Remains(a, order[m])
  <2>1. k \in 1 .. l + n + 1 /\ ~(k \in 1 .. l)
    BY <1>4, <1>5, <1>8, <1>12
  <2>2. k - l \in 1 .. n /\ k = l + (k - l)
    BY <1>12, <2>1
  <2>. QED
    BY <1>10, <2>2
<1>13. \A k \in DOMAIN new : k \in Ids \/ k = Len(new)
         \/ \E m \in DOMAIN order : k = Len(asg) + m /\ new[k] = Remains(a, order[m])
  BY <1>2, <1>5, <1>8, <1>12
<1>14. \A m \in DOMAIN order : /\ Len(asg) + m \in DOMAIN new
                               /\ new[Len(asg) + m] = Remains(a, order[m])
  BY <1>2, <1>5, <1>10
<1>. QED
  BY <1>8, <1>9, <1>11, <1>13, <1>14

LEMMA TypeInit == Init => TypeOK
  BY DateAssumption, InitialAssumption DEF Init, TypeOK, Request, Dates

\* What a request is replaced by, and the table with it.
LEMMA Sent ==
  ASSUME TypeOK, NEW w \in Admins, NEW r \in Request, Send(w, r), sent' \in 0 .. MaxRequests
  PROVE  TypeOK'
  BY DEF Send, TypeOK

LEMMA Asks ==
  ASSUME TypeOK, NEW w \in Admins, NEW r \in Request, Ask(w, r)
  PROVE  TypeOK'
<1>1. Send(w, r) /\ sent' \in 0 .. MaxRequests
  BY DateAssumption DEF Ask, TypeOK
<1>. QED
  BY <1>1, Sent

LEMMA Finished ==
  ASSUME TypeOK, NEW w \in Admins, Done(w), asg' \in Seq(Assignment),
         active' \in [Shifts -> BOOLEAN], today' = today, sent' = sent,
         raced' \subseteq Targets, overtaken' \subseteq Admins
  PROVE  TypeOK'
  BY DEF Done, TypeOK, Request

LEMMA RowWritten ==
  ASSUME TypeOK, NEW i \in Nat, NEW a \in Assignment, NEW new, new = [asg EXCEPT ![i] = a]
  PROVE  new \in Seq(Assignment) /\ DOMAIN new = Ids /\ \A j \in Ids : new[j] = IF j = i THEN a ELSE asg[j]
<1>1. asg \in Seq(Assignment) /\ Len(asg) \in Nat /\ Ids = 1 .. Len(asg)
  BY TableType DEF TypeOK
<1>2. new \in [1 .. Len(asg) -> Assignment]
  <2>1. asg \in [1 .. Len(asg) -> Assignment]
    BY <1>1, LenProperties, ElementOfSeq
  <2>. QED
    BY <2>1
<1>. QED
  BY <1>1, <1>2 DEF Ids

LEMMA TypeStep == TypeOK /\ RowsHeld /\ [Next]_vars => TypeOK'
<1>. SUFFICES ASSUME TypeOK, RowsHeld, [Next]_vars PROVE TypeOK'
  OBVIOUS
<1>0. /\ asg \in Seq(Assignment) /\ active \in [Shifts -> BOOLEAN] /\ today \in Dates
      /\ raced \subseteq Targets /\ overtaken \subseteq Admins
  BY DEF TypeOK
<1>1. ASSUME NEW w \in Admins, AskCreate(w) PROVE TypeOK'
  <2>1. PICK a \in Wanted : Ask(w, [op |-> "create", row |-> a, target |-> a.target,
                                    locked |-> FALSE, rows |-> {}])
    BY <1>1 DEF AskCreate
  <2>2. a.target \in Targets
    BY WantedType, RowType
  <2>. QED
    BY <2>1, <2>2, Asks DEF Request
<1>2. ASSUME NEW w \in Admins, AskEnd(w) PROVE TypeOK'
  <2>1. PICK i \in Ids, t \in Dates :
          Ask(w, [op |-> "end", id |-> i, row |-> asg[i], target |-> asg[i].target, to |-> t,
                  locked |-> FALSE, rows |-> {}])
    BY <1>2 DEF AskEnd
  <2>2. i \in Nat /\ asg[i] \in Assignment /\ asg[i].target \in Targets
    BY TableType, RowType
  <2>. QED
    BY <2>1, <2>2, Asks DEF Request
<1>3. ASSUME NEW w \in Admins, AskDelete(w) PROVE TypeOK'
  <2>1. PICK i \in Ids : Ask(w, [op |-> "delete", id |-> i, row |-> asg[i], target |-> asg[i].target])
    BY <1>3 DEF AskDelete
  <2>2. i \in Nat /\ asg[i] \in Assignment /\ asg[i].target \in Targets
    BY TableType, RowType
  <2>. QED
    BY <2>1, <2>2, Asks DEF Request
<1>4. ASSUME NEW w \in Admins, AskShift(w) PROVE TypeOK'
  <2>1. PICK s \in Shifts, on \in BOOLEAN : Send(w, [op |-> "shift", shift |-> s, on |-> on])
    BY <1>4 DEF AskShift
  <2>2. sent' \in 0 .. MaxRequests
    BY <1>4 DEF AskShift, TypeOK
  <2>. QED
    BY <2>1, <2>2, Sent DEF Request
<1>5. ASSUME NEW w \in Admins, LockTarget(w) PROVE TypeOK'
  <2>1. Live(req[w].target) \subseteq Nat
    BY TableType DEF Live
  <2>2. PICK R \in SUBSET Nat : R = Live(req[w].target)
    BY <2>1
  <2>3. req' = [req EXCEPT ![w].locked = TRUE, ![w].rows = R]
    BY <1>5, <2>2 DEF LockTarget
  <2>4. [[req[w] EXCEPT !.locked = TRUE] EXCEPT !.rows = R] \in Request
    <3>1. CASE req[w].op = "create"
      BY <3>1, RequestType DEF Request
    <3>2. CASE req[w].op = "end"
      BY <3>2, RequestType DEF Request
    <3>. QED
      BY <1>5, <3>1, <3>2 DEF LockTarget
  <2>5. req' \in [Admins -> Request]
    BY <2>3, <2>4 DEF TypeOK
  <2>. QED
    BY <1>0, <1>5, <2>5 DEF LockTarget, TypeOK
<1>6. ASSUME NEW w \in Admins, CommitCreate(w) PROVE TypeOK'
  <2>1. PICK r : r = req[w]
    OBVIOUS
  <2>2. PICK order \in OldestFirst(Outlasts(r.row, r.rows)) : asg' = Split(r.row, r.rows, order)
    BY <1>6, <2>1 DEF CommitCreate
  <2>3. /\ r.op = "create" /\ Done(w) /\ active' = active /\ today' = today /\ sent' = sent
        /\ overtaken' = overtaken /\ raced' \subseteq raced \cup {r.target}
    BY <1>6, <2>1 DEF CommitCreate
  <2>4. r.row \in Wanted /\ r.target \in Targets
    BY <2>1, <2>3, RequestType
  <2>5. asg' \in Seq(Assignment)
    <3>1. r.rows \subseteq Ids
      BY <1>6, <2>1 DEF CommitCreate, RowsHeld, Held, Holding, Live
    <3>. QED
      BY <2>2, <2>4, <3>1, SplitShape
  <2>. QED
    BY <1>0, <2>3, <2>4, <2>5, Finished
<1>7. ASSUME NEW w \in Admins, CommitEnd(w) PROVE TypeOK'
  <2>1. PICK r : r = req[w]
    OBVIOUS
  <2>2. /\ r.op = "end" /\ asg' = [asg EXCEPT ![r.id] = [r.row EXCEPT !.to = r.to]] /\ Done(w)
        /\ active' = active /\ today' = today /\ sent' = sent
        /\ overtaken' \subseteq Admins /\ raced' \subseteq raced \cup {r.target}
    BY <1>7, <2>1 DEF CommitEnd, Overtakes
  <2>3. r.id \in Nat /\ r.row \in Assignment /\ r.to \in Dates /\ r.target \in Targets
    BY <2>1, <2>2, RequestType
  <2>4. PICK a \in Assignment : a = [r.row EXCEPT !.to = r.to]
    BY <2>3 DEF Assignment
  <2>5. asg' = [asg EXCEPT ![r.id] = a]
    BY <2>2, <2>4
  <2>6. asg' \in Seq(Assignment)
    BY <2>3, <2>5, RowWritten
  <2>. QED
    BY <1>0, <2>2, <2>3, <2>6, Finished
<1>8. ASSUME NEW w \in Admins, CommitDelete(w) PROVE TypeOK'
  <2>1. PICK r : r = req[w]
    OBVIOUS
  <2>2. /\ r.op = "delete" /\ asg' = [asg EXCEPT ![r.id] = [r.row EXCEPT !.live = FALSE]] /\ Done(w)
        /\ active' = active /\ today' = today /\ sent' = sent /\ raced' = raced
        /\ overtaken' \subseteq Admins
    BY <1>8, <2>1 DEF CommitDelete, Overtakes
  <2>3. r.id \in Nat /\ r.row \in Assignment
    BY <2>1, <2>2, RequestType
  <2>4. PICK a \in Assignment : a = [r.row EXCEPT !.live = FALSE]
    BY <2>3 DEF Assignment
  <2>5. asg' = [asg EXCEPT ![r.id] = a]
    BY <2>2, <2>4
  <2>6. asg' \in Seq(Assignment)
    BY <2>3, <2>5, RowWritten
  <2>. QED
    BY <1>0, <2>2, <2>6, Finished
<1>9. ASSUME NEW w \in Admins, SaveShift(w) PROVE TypeOK'
  <2>1. req[w].on \in BOOLEAN
    BY <1>9, RequestType DEF SaveShift
  <2>. QED
    BY <1>0, <1>9, <2>1, Finished DEF SaveShift
<1>10. ASSUME NEW w \in Admins, RefuseCreate(w) \/ RefuseEnd(w) PROVE TypeOK'
  BY <1>0, <1>10, Finished DEF RefuseCreate, RefuseEnd, Leaves
<1>11. CASE NextDay \/ UNCHANGED vars
  BY <1>11, DateAssumption DEF NextDay, vars, TypeOK, Dates
<1>. QED
  BY <1>1, <1>2, <1>3, <1>4, <1>5, <1>6, <1>7, <1>8, <1>9, <1>10, <1>11 DEF Next

----------------------------------------------------------------------------
(* A new assignment and the history around it. *)

Clear(x, y) == x.to < y.from \/ y.to < x.from

LEMMA RowDates ==
  ASSUME NEW x \in Assignment
  PROVE  x.from \in Nat /\ x.to \in Nat
  BY RowType, Dating

\* The rows the new assignment is put among: each keeps its beginning, ends no later, and is apart from it.
LEMMA ShortenedApart ==
  ASSUME TypeOK, Ordered, NEW a \in Wanted, NEW rows, rows \subseteq Live(a.target),
         \A i \in rows : ~StartsInside(a, i), NEW i \in rows, NEW x, x = Shortened(a, rows, i)
  PROVE  /\ x.from = asg[i].from /\ x.target = asg[i].target /\ x.live = asg[i].live
         /\ x.shift = asg[i].shift
         /\ x.from \in Nat /\ x.to \in Nat
         /\ x.from <= x.to /\ x.to <= asg[i].to /\ Clear(x, a)
         /\ Covers(a, i) => x.to = a.from - 1
<1>1. i \in Ids /\ asg[i] \in Assignment /\ asg[i].live /\ asg[i].target = a.target
  BY TableType DEF Live
<1>2. /\ a.from \in Nat /\ a.to \in Nat /\ a.from <= a.to
      /\ asg[i].from \in Nat /\ asg[i].to \in Nat /\ asg[i].from <= asg[i].to
  BY <1>1, WantedType, RowDates DEF Ordered
<1>3. asg[i].from < a.from \/ asg[i].from > a.to
  BY <1>2 DEF StartsInside
<1>4. CASE Covers(a, i)
  <2>1. x = [asg[i] EXCEPT !.to = a.from - 1]
    BY <1>4 DEF Shortened
  <2>2. /\ x.from = asg[i].from /\ x.target = asg[i].target /\ x.live = asg[i].live
        /\ x.shift = asg[i].shift /\ x.to = a.from - 1
    BY <1>1, <2>1 DEF Assignment
  <2>. QED
    BY <1>2, <1>4, <2>2 DEF Covers, Clear
<1>5. CASE ~Covers(a, i)
  <2>1. x = asg[i]
    BY <1>5 DEF Shortened
  <2>. QED
    BY <1>2, <1>3, <1>5, <2>1 DEF Covers, Clear
<1>. QED
  BY <1>4, <1>5

\* What is left of a covering row after the new assignment is apart from that and from all others.
LEMMA RestApart ==
  ASSUME TypeOK, Ordered, NEW a \in Wanted, Tidy(a.target), NEW rows, rows = Live(a.target),
         \A i \in rows : ~StartsInside(a, i),
         NEW c \in rows, Covers(a, c), asg[c].to > a.to,
         NEW z, z = Remains(a, c)
  PROVE  /\ z.target = a.target /\ z.live /\ z.from <= z.to /\ Clear(z, a)
         /\ \A i \in rows : Clear(z, Shortened(a, rows, i))
<1>1. c \in Ids /\ asg[c] \in Assignment /\ asg[c].live /\ asg[c].target = a.target
  BY TableType DEF Live
<1>2. /\ a.from \in Nat /\ a.to \in Nat /\ a.from <= a.to
      /\ asg[c].from \in Nat /\ asg[c].to \in Nat /\ asg[c].from < a.from
  BY <1>1, WantedType, RowDates DEF Covers
<1>3. z.target = a.target /\ z.live /\ z.from = a.to + 1 /\ z.to = asg[c].to
  BY <1>1 DEF Assignment, Remains
<1>4. z.from <= z.to /\ Clear(z, a)
  BY <1>2, <1>3 DEF Clear
<1>5. ASSUME NEW i \in rows PROVE Clear(z, Shortened(a, rows, i))
  <2>1. PICK x : x = Shortened(a, rows, i)
    OBVIOUS
  <2>2. /\ x.from = asg[i].from /\ x.from \in Nat /\ x.to \in Nat /\ x.to <= asg[i].to
        /\ Covers(a, i) => x.to = a.from - 1
    BY <2>1, ShortenedApart
  <2>3. CASE i = c
    BY <1>2, <1>3, <2>1, <2>2, <2>3 DEF Clear
  <2>4. CASE i # c
    <3>1. i \in Ids /\ asg[i].live /\ asg[i].target = a.target /\ asg[i].to \in Nat
      BY TableType, RowDates DEF Live
    <3>2. asg[i].to < asg[c].from \/ asg[c].to < asg[i].from
      BY <1>1, <2>4, <3>1 DEF Tidy, Apart, Live
    <3>. QED
      BY <1>2, <1>3, <2>1, <2>2, <3>1, <3>2 DEF Clear
  <2>. QED
    BY <2>1, <2>3, <2>4
<1>. QED
  BY <1>3, <1>4, <1>5

\* In a history that does not overlap at most one row outlasts the new assignment.
LEMMA OneOutlasts ==
  ASSUME TypeOK, Ordered, NEW a \in Wanted, Tidy(a.target), NEW rows, rows = Live(a.target),
         NEW c \in Outlasts(a, rows), NEW k \in Outlasts(a, rows)
  PROVE  c = k
<1>1. /\ c \in Live(a.target) /\ k \in Live(a.target) /\ Covers(a, c) /\ Covers(a, k)
      /\ asg[c].to > a.to /\ asg[k].to > a.to
  BY DEF Outlasts
<1>2. /\ a.from \in Nat /\ a.to \in Nat /\ a.from <= a.to
      /\ asg[c].from \in Nat /\ asg[c].to \in Nat /\ asg[k].from \in Nat /\ asg[k].to \in Nat
  BY <1>1, WantedType, RowDates, TableType DEF Live
<1>3. c # k => asg[c].to < asg[k].from \/ asg[k].to < asg[c].from
  BY <1>1 DEF Tidy, Apart
<1>. QED
  BY <1>1, <1>2, <1>3 DEF Covers

LEMMA OneRemains ==
  ASSUME TypeOK, Ordered, NEW a \in Wanted, Tidy(a.target), NEW rows, rows = Live(a.target),
         NEW order \in OldestFirst(Outlasts(a, rows))
  PROVE  /\ \A m, n \in DOMAIN order : m = n
         /\ \A c \in Outlasts(a, rows) : \E m \in DOMAIN order : order[m] = c
<1>1. rows \subseteq Ids
  BY DEF Live
<1>2. /\ DOMAIN order = 1 .. Cardinality(Outlasts(a, rows)) /\ Cardinality(Outlasts(a, rows)) \in Nat
      /\ \A k \in DOMAIN order : order[k] \in Outlasts(a, rows)
      /\ \A m, n \in DOMAIN order : m < n => Before(order[m], order[n])
  BY <1>1, RestType
<1>3. ASSUME NEW m \in DOMAIN order, NEW n \in DOMAIN order, m < n PROVE FALSE
  <2>1. order[m] = order[n] /\ order[m] \in Ids
    BY <1>1, <1>2, OneOutlasts DEF Outlasts
  <2>2. Before(order[m], order[m])
    BY <1>2, <1>3, <2>1
  <2>3. order[m] \in Nat /\ asg[order[m]].from \in Nat
    BY <2>1, TableType, RowDates
  <2>. QED
    BY <2>2, <2>3 DEF Before
<1>4. \A m, n \in DOMAIN order : m = n
  BY <1>2, <1>3
<1>5. ASSUME NEW c \in Outlasts(a, rows) PROVE \E m \in DOMAIN order : order[m] = c
  <2>1. Outlasts(a, rows) = {c}
    BY OneOutlasts
  <2>2. Cardinality(Outlasts(a, rows)) = 1
    BY <2>1, FS_Singleton
  <2>3. 1 \in DOMAIN order
    BY <1>2, <2>2
  <2>. QED
    BY <1>2, <2>1, <2>3
<1>. QED
  BY <1>4, <1>5

\* What a new assignment leaves: rows in order ...
LEMMA SplitOrders ==
  ASSUME TypeOK, Ordered, NEW a \in Wanted, NEW rows, rows \subseteq Live(a.target),
         \A i \in rows : ~StartsInside(a, i),
         NEW order \in OldestFirst(Outlasts(a, rows)), asg' = Split(a, rows, order)
  PROVE  Ordered'
<1>1. PICK new : new = asg'
  OBVIOUS
<1>2. rows \subseteq Ids
  BY DEF Live
<1>3. /\ \A i \in Ids : i \in DOMAIN new /\ new[i] = Shortened(a, rows, i)
      /\ new[Len(new)] = a
      /\ \A k \in DOMAIN new : k \in Ids \/ k = Len(new)
           \/ \E m \in DOMAIN order : k = Len(asg) + m /\ new[k] = Remains(a, order[m])
  BY <1>1, <1>2, SplitShape
<1>4. ASSUME NEW k \in DOMAIN new, new[k].live PROVE new[k].from <= new[k].to
  <2>1. CASE k \in rows
    <3>1. PICK x : x = Shortened(a, rows, k)
      OBVIOUS
    <3>2. x.from <= x.to
      BY <2>1, <3>1, ShortenedApart
    <3>. QED
      BY <1>2, <1>3, <2>1, <3>1, <3>2
  <2>2. CASE k \in Ids /\ k \notin rows
    BY <1>3, <1>4, <2>2 DEF Ordered, Shortened
  <2>3. CASE k = Len(new)
    BY <1>3, <2>3, WantedType
  <2>4. CASE k \notin Ids /\ k # Len(new)
    <3>1. PICK m \in DOMAIN order : new[k] = Remains(a, order[m])
      BY <1>3, <2>4
    <3>2. PICK c \in Ids : c = order[m] /\ asg[c].to > a.to
      <4>1. order[m] \in Outlasts(a, rows)
        BY <1>2, RestType
      <4>. QED
        BY <1>2, <4>1 DEF Outlasts
    <3>3. asg[c] \in Assignment /\ asg[c].to \in Nat /\ a.to \in Nat
      BY <3>2, TableType, RowDates, WantedType
    <3>4. new[k].from = a.to + 1 /\ new[k].to = asg[c].to
      BY <3>1, <3>2, <3>3 DEF Remains, Assignment
    <3>. QED
      BY <3>2, <3>3, <3>4
  <2>. QED
    BY <2>1, <2>2, <2>3, <2>4
<1>. QED
  BY <1>1, <1>4 DEF Ordered, Ids

\* ... that do not overlap, where they did not before.
LEMMA SplitKeeps ==
  ASSUME TypeOK, Ordered, NEW a \in Wanted, Tidy(a.target), NEW rows, rows = Live(a.target),
         \A i \in rows : ~StartsInside(a, i),
         NEW order \in OldestFirst(Outlasts(a, rows)), asg' = Split(a, rows, order)
  PROVE  Tidy(a.target)'
<1>1. PICK new, tg : new = asg' /\ tg = a.target
  OBVIOUS
<1>2. rows \subseteq Ids
  BY DEF Live
<1>3. /\ \A i \in Ids : i \in DOMAIN new /\ new[i] = Shortened(a, rows, i)
      /\ new[Len(new)] = a
      /\ \A k \in DOMAIN new : k \in Ids \/ k = Len(new)
           \/ \E m \in DOMAIN order : k = Len(asg) + m /\ new[k] = Remains(a, order[m])
  BY <1>1, <1>2, SplitShape
<1>4. ASSUME NEW i \in rows PROVE Clear(new[i], a)
  <2>1. PICK x : x = Shortened(a, rows, i)
    OBVIOUS
  <2>2. Clear(x, a)
    BY <2>1, ShortenedApart
  <2>. QED
    BY <1>2, <1>3, <2>1, <2>2
<1>5. ASSUME NEW i \in Ids, i \notin rows PROVE ~(new[i].live /\ new[i].target = tg)
  BY <1>1, <1>3, <1>5 DEF Shortened, Live
<1>6. ASSUME NEW k \in DOMAIN new, k \notin Ids, k # Len(new)
      PROVE  Clear(new[k], a) /\ \A i \in rows : Clear(new[k], new[i])
  <2>1. PICK m \in DOMAIN order : new[k] = Remains(a, order[m])
    BY <1>3, <1>6
  <2>2. PICK c \in rows : c = order[m] /\ Covers(a, c) /\ asg[c].to > a.to
    <3>1. order[m] \in Outlasts(a, rows)
      BY <1>2, RestType
    <3>. QED
      BY <1>2, <3>1 DEF Outlasts
  <2>3. PICK z : z = Remains(a, c)
    OBVIOUS
  <2>4. Clear(z, a) /\ \A i \in rows : Clear(z, Shortened(a, rows, i))
    BY <2>2, <2>3, RestApart
  <2>. QED
    BY <1>2, <1>3, <2>1, <2>2, <2>3, <2>4
<1>7. ASSUME NEW k \in DOMAIN new, NEW j \in DOMAIN new, k \notin Ids, j \notin Ids,
             k # Len(new), j # Len(new)
      PROVE  k = j
  BY <1>3, <1>7, OneRemains
<1>8. ASSUME NEW i \in rows, NEW j \in rows, i # j PROVE Clear(new[i], new[j])
  <2>1. PICK x, y : x = Shortened(a, rows, i) /\ y = Shortened(a, rows, j)
    OBVIOUS
  <2>2. /\ x.from = asg[i].from /\ x.from \in Nat /\ x.to \in Nat /\ x.to <= asg[i].to
        /\ y.from = asg[j].from /\ y.from \in Nat /\ y.to \in Nat /\ y.to <= asg[j].to
    BY <2>1, ShortenedApart
  <2>3. asg[i].to < asg[j].from \/ asg[j].to < asg[i].from
    BY <1>8 DEF Tidy, Apart
  <2>4. asg[i].to \in Nat /\ asg[j].to \in Nat
    BY <1>2, TableType, RowDates
  <2>5. Clear(x, y)
    BY <2>2, <2>3, <2>4 DEF Clear
  <2>. QED
    BY <1>2, <1>3, <2>1, <2>5
<1>9. ASSUME NEW i \in DOMAIN new, NEW j \in DOMAIN new, i # j,
             new[i].live, new[j].live, new[i].target = tg, new[j].target = tg
      PROVE  Clear(new[i], new[j]) \/ Clear(new[j], new[i])
  <2>1. i \in Ids => i \in rows
    BY <1>5, <1>9
  <2>2. j \in Ids => j \in rows
    BY <1>5, <1>9
  <2>3. CASE i \in rows /\ j \in rows
    BY <1>8, <1>9, <2>3
  <2>4. CASE i \in rows /\ j \notin Ids
    BY <1>3, <1>4, <1>6, <2>4
  <2>5. CASE j \in rows /\ i \notin Ids
    BY <1>3, <1>4, <1>6, <2>5
  <2>6. CASE i \notin Ids /\ j \notin Ids
    <3>1. i = Len(new) \/ j = Len(new)
      BY <1>7, <1>9, <2>6
    <3>. QED
      BY <1>3, <1>6, <1>9, <2>6, <3>1
  <2>. QED
    BY <2>1, <2>2, <2>3, <2>4, <2>5, <2>6
<1>10. Ids' = DOMAIN new /\ Live(tg)' = {i \in DOMAIN new : new[i].live /\ new[i].target = tg}
  BY <1>1 DEF Ids, Live
<1>11. \A i, j \in Live(tg)' : i # j => asg'[i].to < asg'[j].from \/ asg'[j].to < asg'[i].from
  BY <1>1, <1>9, <1>10 DEF Clear
<1>12. Tidy(tg)'
  BY <1>11 DEF Tidy, Apart
<1>13. a.target = tg
  BY <1>1
<1>. QED
  BY <1>12, <1>13

----------------------------------------------------------------------------
(* What the three transactions do to the table. *)

\* No row goes, or changes its target, its shift or its beginning.
Kept == /\ Ids \subseteq Ids'
        /\ \A i \in Ids : /\ asg'[i].from = asg[i].from /\ asg'[i].target = asg[i].target
                          /\ asg'[i].shift = asg[i].shift

\* Only the rows of one target change.
Within(tg) == /\ \A i \in Ids : asg'[i] = asg[i] \/ asg[i].target = tg
              /\ \A k \in Ids' : k \in Ids \/ asg'[k].target = tg

LEMMA CreateEffect ==
  ASSUME TypeOK, IInv, NEW w \in Admins, CommitCreate(w), NEW target, target = req[w].target
  PROVE  /\ Kept /\ Within(target) /\ Holding(w) /\ Done(w) /\ Ordered'
         /\ \A i \in Ids : asg'[i].live <=> asg[i].live
         /\ raced \subseteq raced' /\ raced' \subseteq raced \cup {target}
         /\ target \notin raced'
              => /\ req[w].rows = Live(target)
                 /\ Tidy(target) /\ Tidy(target)'
<1>1. PICK r, a, rows, new : r = req[w] /\ a = r.row /\ rows = r.rows /\ new = asg'
  OBVIOUS
<1>2. /\ r.op = "create" /\ r.locked /\ Done(w) /\ \A i \in rows : ~StartsInside(a, i)
      /\ raced' = raced \cup {tg \in {r.target} : rows = {} /\ Live(tg) # {}}
  BY <1>1 DEF CommitCreate
<1>3. PICK order \in OldestFirst(Outlasts(a, rows)) : asg' = Split(a, rows, order)
  BY <1>1 DEF CommitCreate
<1>4. a \in Wanted
  BY <1>1, <1>2, RequestType
<1>5. r.target = a.target
  BY <1>1, <1>2 DEF IInv, Read, Creating
<1>6. Holding(w)
  BY <1>1, <1>2 DEF Holding
<1>7. rows \subseteq Live(a.target) /\ rows \subseteq Ids /\ Held(r)
  BY <1>1, <1>5, <1>6 DEF IInv, RowsHeld, Held, Live
<1>8. Ordered'
  BY <1>2, <1>3, <1>4, <1>7, SplitOrders DEF IInv
<1>9. /\ \A i \in Ids : i \in DOMAIN new /\ new[i] = Shortened(a, rows, i)
      /\ new[Len(new)] = a
      /\ \A k \in DOMAIN new : k \in Ids \/ k = Len(new)
           \/ \E m \in DOMAIN order : k = Len(asg) + m /\ new[k] = Remains(a, order[m])
  BY <1>1, <1>3, <1>4, <1>7, SplitShape
<1>10. ASSUME NEW i \in Ids
       PROVE  /\ new[i].from = asg[i].from /\ new[i].target = asg[i].target /\ new[i].live = asg[i].live
              /\ new[i].shift = asg[i].shift
              /\ new[i] = asg[i] \/ asg[i].target = a.target
  <2>1. asg[i] \in Assignment /\ new[i] = Shortened(a, rows, i)
    BY <1>9, TableType
  <2>2. i \in rows => asg[i].target = a.target
    BY <1>7 DEF Live
  <2>. QED
    BY <2>1, <2>2 DEF Shortened, Assignment
<1>11. ASSUME NEW k \in DOMAIN new, k \notin Ids PROVE new[k].target = a.target
  <2>1. CASE k = Len(new)
    BY <1>9, <2>1
  <2>2. CASE k # Len(new)
    <3>1. PICK m \in DOMAIN order : new[k] = Remains(a, order[m])
      BY <1>9, <1>11, <2>2
    <3>2. PICK c : c = order[m]
      OBVIOUS
    <3>3. c \in Outlasts(a, rows)
      BY <1>4, <1>7, <3>2, RestType
    <3>4. asg[c] \in Assignment /\ asg[c].target = a.target
      BY <1>7, <3>3, TableType DEF Live, Outlasts
    <3>. QED
      BY <3>1, <3>2, <3>4 DEF Assignment, Remains
  <2>. QED
    BY <2>1, <2>2
<1>12. Ids' = DOMAIN new
  BY <1>1 DEF Ids
<1>13. Kept
  BY <1>1, <1>9, <1>10, <1>12 DEF Kept
<1>14. Within(target)
  BY <1>1, <1>5, <1>9, <1>10, <1>11, <1>12 DEF Within
<1>15. ASSUME r.target \notin raced'
       PROVE  rows = Live(r.target) /\ Tidy(r.target) /\ Tidy(r.target)'
  <2>1. r.target \notin raced /\ (rows = {} => Live(r.target) = {})
    BY <1>2, <1>15
  <2>2. rows = Live(a.target)
    BY <1>1, <1>5, <1>7, <2>1 DEF Held
  <2>3. Tidy(a.target)
    BY <1>5, <2>1 DEF IInv, OverlapIsRaced, Tidy, Live
  <2>4. Tidy(a.target)'
    BY <1>2, <1>3, <1>4, <2>2, <2>3, SplitKeeps DEF IInv
  <2>. QED
    BY <1>5, <2>2, <2>3, <2>4
<1>16. raced \subseteq raced' /\ raced' \subseteq raced \cup {r.target}
  BY <1>2
<1>17. PICK tg : tg = r.target
  OBVIOUS
<1>18. tg \notin raced' => rows = Live(tg) /\ Tidy(tg) /\ Tidy(tg)'
  BY <1>15, <1>17
<1>19. target = tg /\ req[w].rows = rows
  BY <1>1, <1>17
<1>20. \A i \in Ids : asg'[i].live <=> asg[i].live
  BY <1>1, <1>10
<1>21. target \notin raced' => req[w].rows = Live(target) /\ Tidy(target) /\ Tidy(target)'
  BY <1>18, <1>19
<1>22. raced \subseteq raced' /\ raced' \subseteq raced \cup {target}
  BY <1>16, <1>17, <1>19
<1>. QED
  BY <1>2, <1>6, <1>8, <1>13, <1>14, <1>20, <1>21, <1>22

LEMMA EndEffect ==
  ASSUME TypeOK, IInv, NEW w \in Admins, CommitEnd(w), NEW target, target = req[w].target
  PROVE  /\ Kept /\ Ids' = Ids /\ Within(target) /\ Holding(w) /\ Done(w) /\ Ordered'
         /\ req[w].op = "end" /\ req[w].id \in Ids /\ asg[req[w].id].target = target
         /\ asg'[req[w].id].live /\ asg'[req[w].id].to = req[w].to
         /\ \A i \in Ids : i # req[w].id => asg'[i] = asg[i]
         /\ raced \subseteq raced' /\ raced' \subseteq raced \cup {target}
         /\ target \notin raced'
              => /\ req[w].rows = Live(target) /\ asg[req[w].id].live
                 /\ Tidy(target) /\ Tidy(target)'
<1>1. PICK r, n, tg : r = req[w] /\ n = r.id /\ tg = r.target
  OBVIOUS
<1>2. /\ r.op = "end" /\ r.locked /\ ~Overlaps(r) /\ Done(w)
      /\ asg' = [asg EXCEPT ![n] = [r.row EXCEPT !.to = r.to]]
      /\ raced' = raced \cup {t \in {tg} : ~asg[n].live}
  BY <1>1 DEF CommitEnd
<1>3. r.row \in Assignment /\ n \in Nat /\ r.to \in Dates
  BY <1>1, <1>2, RequestType
<1>4. /\ n \in Ids /\ r.row.from = asg[n].from /\ r.row.target = asg[n].target
      /\ r.row.shift = asg[n].shift
      /\ r.row.target = tg /\ r.row.live /\ r.row.from <= r.to
  BY <1>1, <1>2 DEF IInv, Read, Ending, Known
<1>5. Holding(w) /\ Held(r)
  BY <1>1, <1>2 DEF Holding, IInv, RowsHeld
<1>6. PICK x \in Assignment : x = [r.row EXCEPT !.to = r.to]
  BY <1>3 DEF Assignment
<1>7. /\ x.from = asg[n].from /\ x.target = asg[n].target /\ x.shift = asg[n].shift
      /\ x.live /\ x.to = r.to
  BY <1>3, <1>4, <1>6 DEF Assignment
<1>8. Ids' = Ids /\ \A i \in Ids : asg'[i] = IF i = n THEN x ELSE asg[i]
  BY <1>2, <1>3, <1>6, RowWritten DEF Ids
<1>9. Kept
  BY <1>4, <1>7, <1>8 DEF Kept
<1>10. Within(tg)
  BY <1>4, <1>8 DEF Within
<1>11. Ordered'
  BY <1>4, <1>7, <1>8 DEF IInv, Ordered
<1>12. ASSUME tg \notin raced' PROVE r.rows = Live(tg) /\ asg[n].live /\ Tidy(tg) /\ Tidy(tg)'
  <2>1. tg \notin raced /\ asg[n].live
    BY <1>2, <1>12
  <2>2. r.rows = Live(tg)
    BY <1>1, <1>2, <1>5, <2>1 DEF Held
  <2>3. Tidy(tg)
    BY <2>1 DEF IInv, OverlapIsRaced, Tidy, Live
  <2>4. ASSUME NEW i \in Live(tg), i # n PROVE asg[i].to < x.from \/ x.to < asg[i].from
    <3>1. i \in r.rows \ {r.id} /\ i \in Ids
      BY <1>1, <2>2, <2>4 DEF Live
    <3>2. ~(asg[i].from > r.row.from /\ r.to >= asg[i].from)
      BY <1>2, <3>1 DEF Overlaps
    <3>3. asg[i].to < asg[n].from \/ asg[n].to < asg[i].from
      BY <1>4, <2>1, <2>3, <2>4 DEF Tidy, Apart, Live
    <3>4. asg[n].from <= asg[n].to
      BY <1>4, <2>1 DEF IInv, Ordered
    <3>5. /\ asg[i].from \in Nat /\ asg[i].to \in Nat /\ asg[n].from \in Nat /\ asg[n].to \in Nat
          /\ r.to \in Nat
      BY <1>3, <1>4, <3>1, TableType, RowDates, Dating
    <3>. QED
      BY <1>4, <1>7, <3>2, <3>3, <3>4, <3>5
  <2>5. Live(tg)' = Live(tg)
    BY <1>4, <1>7, <1>8, <2>1 DEF Live
  <2>6. ASSUME NEW i \in Live(tg), NEW j \in Live(tg), i # j
        PROVE  asg'[i].to < asg'[j].from \/ asg'[j].to < asg'[i].from
    <3>1. i \in Ids /\ j \in Ids
      BY DEF Live
    <3>2. CASE i = n
      BY <1>8, <2>4, <2>6, <3>1, <3>2
    <3>3. CASE j = n
      BY <1>8, <2>4, <2>6, <3>1, <3>3
    <3>4. CASE i # n /\ j # n
      BY <1>8, <2>3, <2>6, <3>1, <3>4 DEF Tidy, Apart
    <3>. QED
      BY <3>2, <3>3, <3>4
  <2>7. Tidy(tg)'
    BY <2>5, <2>6 DEF Tidy, Apart
  <2>. QED
    BY <2>1, <2>2, <2>3, <2>7
<1>13. raced \subseteq raced' /\ raced' \subseteq raced \cup {tg}
  BY <1>2
<1>14. asg'[n].live /\ asg'[n].to = r.to /\ \A i \in Ids : i # n => asg'[i] = asg[i]
  BY <1>4, <1>7, <1>8
<1>. QED
  BY <1>1, <1>2, <1>4, <1>5, <1>8, <1>9, <1>10, <1>11, <1>12, <1>13, <1>14

LEMMA DeleteEffect ==
  ASSUME TypeOK, IInv, NEW w \in Admins, CommitDelete(w), NEW target, target = req[w].target
  PROVE  /\ Kept /\ Ids' = Ids /\ Within(target) /\ Done(w) /\ Ordered'
         /\ req[w].op = "delete" /\ req[w].id \in Ids /\ req[w].id \notin LockedFor(w)
         /\ asg[req[w].id].target = target /\ asg[req[w].id].from = req[w].row.from
         /\ ~asg'[req[w].id].live
         /\ \A i \in Ids : i # req[w].id => asg'[i] = asg[i]
         /\ raced' = raced
<1>1. PICK r, n : r = req[w] /\ n = r.id
  OBVIOUS
<1>2. /\ r.op = "delete" /\ n \notin LockedFor(w) /\ Done(w) /\ raced' = raced
      /\ asg' = [asg EXCEPT ![n] = [r.row EXCEPT !.live = FALSE]]
  BY <1>1 DEF CommitDelete
<1>3. r.row \in Assignment /\ n \in Nat
  BY <1>1, <1>2, RequestType
<1>4. /\ n \in Ids /\ r.row.from = asg[n].from /\ r.row.target = asg[n].target
      /\ r.row.shift = asg[n].shift /\ r.row.target = r.target
  BY <1>1, <1>2 DEF IInv, Read, Deleting, Known
<1>6. PICK x \in Assignment : x = [r.row EXCEPT !.live = FALSE]
  BY <1>3 DEF Assignment
<1>7. x.from = asg[n].from /\ x.target = asg[n].target /\ x.shift = asg[n].shift /\ ~x.live
  BY <1>3, <1>4, <1>6 DEF Assignment
<1>8. Ids' = Ids /\ \A i \in Ids : asg'[i] = IF i = n THEN x ELSE asg[i]
  BY <1>2, <1>3, <1>6, RowWritten DEF Ids
<1>9. Kept
  BY <1>7, <1>8 DEF Kept
<1>10. Within(r.target)
  BY <1>4, <1>8 DEF Within
<1>11. Ordered'
  BY <1>7, <1>8 DEF IInv, Ordered
<1>12. ~asg'[n].live /\ \A i \in Ids : i # n => asg'[i] = asg[i]
  BY <1>4, <1>7, <1>8
<1>. QED
  BY <1>1, <1>2, <1>4, <1>8, <1>9, <1>10, <1>11, <1>12

----------------------------------------------------------------------------
(* The invariant holds. *)

LEMMA InitIInv == Init => IInv
<1>. SUFFICES ASSUME Init PROVE IInv
  OBVIOUS
<1>1. asg \in Histories /\ Ids = DOMAIN asg
  BY DEF Init, Ids
<1>2. Ordered /\ OverlapIsRaced
  BY <1>1, InitialAssumption DEF Ordered, OverlapIsRaced, Apart
<1>3. \A w \in Admins : req[w] = NoneYet
  BY DEF Init
<1>4. RowsHeld /\ Exclusive /\ Read
  BY <1>3 DEF RowsHeld, Exclusive, Read, Holding, Creating, Ending, Deleting, NoneYet
<1>. QED
  BY <1>2, <1>4 DEF IInv

\* A new request that holds nothing and has read what is there; or the end of one.
LEMMA ReadKeeps ==
  ASSUME TypeOK, IInv, NEW w \in Admins, NEW r, req' = [req EXCEPT ![w] = r], asg' = asg, raced' = raced,
         r.op \in {"create", "end"} => ~r.locked, Creating(r), Ending(r), Deleting(r)
  PROVE  IInv'
<1>1. req'[w] = r /\ \A v \in Admins \ {w} : req'[v] = req[v]
  BY DEF TypeOK
<1>2. Ordered' /\ OverlapIsRaced'
  BY DEF IInv, Ordered, OverlapIsRaced, Apart, Ids
<1>3. \A v \in Admins : Holding(v)' => v # w /\ Holding(v)
  BY <1>1 DEF Holding
<1>4. \A tg : Live(tg)' = Live(tg)
  BY DEF Live, Ids
<1>5. \A q : Held(q) => Held(q)'
  BY <1>4 DEF Held
<1>6. RowsHeld' /\ Exclusive'
  BY <1>1, <1>3, <1>5 DEF IInv, RowsHeld, Exclusive
<1>7. \A q : Creating(q) /\ Ending(q) /\ Deleting(q) => (Creating(q) /\ Ending(q) /\ Deleting(q))'
  BY DEF Creating, Ending, Deleting, Known, Ids
<1>8. Read'
  <2>. SUFFICES ASSUME NEW v \in Admins PROVE (Creating(req[v]) /\ Ending(req[v]) /\ Deleting(req[v]))'
    BY DEF Read
  <2>1. PICK q : q = req'[v]
    OBVIOUS
  <2>2. Creating(q) /\ Ending(q) /\ Deleting(q)
    BY <1>1, <2>1 DEF IInv, Read
  <2>. QED
    BY <1>7, <2>1, <2>2
<1>. QED
  BY <1>2, <1>6, <1>8 DEF IInv

\* Whoever locks a target finds rows nobody else holds; an end that finds none has lost its row.
LEMMA LockKeeps ==
  ASSUME TypeOK, IInv, NEW w \in Admins, LockTarget(w)
  PROVE  IInv'
<1>1. PICK r, R : r = req[w] /\ R = Live(r.target)
  OBVIOUS
<1>2. /\ r.op \in {"create", "end"} /\ R \cap LockedFor(w) = {} /\ asg' = asg /\ raced' = raced
      /\ req' = [req EXCEPT ![w].locked = TRUE, ![w].rows = R]
  BY <1>1 DEF LockTarget
<1>3. PICK now : req'[w] = now /\ \A v \in Admins \ {w} : req'[v] = req[v]
  BY <1>2 DEF TypeOK
<1>4. /\ now.op = r.op /\ now.target = r.target /\ now.rows = R /\ now.row = r.row
      /\ r.op = "end" => now.id = r.id /\ now.to = r.to
  <2>1. now = [[r EXCEPT !.locked = TRUE] EXCEPT !.rows = R]
    BY <1>1, <1>2, <1>3 DEF TypeOK
  <2>. QED
    BY <1>1, <1>2, <2>1, RequestType
<1>5. Creating(r) /\ Ending(r)
  BY <1>1 DEF IInv, Read
<1>6. Ordered' /\ OverlapIsRaced'
  BY <1>2 DEF IInv, Ordered, OverlapIsRaced, Apart, Ids
<1>7. \A tg : Live(tg)' = Live(tg)
  BY <1>2 DEF Live, Ids
<1>8. \A v \in Admins \ {w} : Holding(v)' <=> Holding(v)
  BY <1>3 DEF Holding
<1>9. \A q : Held(q) => Held(q)'
  BY <1>2, <1>7 DEF Held
<1>10. RowsHeld'
  <2>1. Held(now)'
    <3>1. R = {} /\ r.op = "end" => ~asg[r.id].live
      BY <1>1, <1>5 DEF Ending, Known, Live
    <3>. QED
      BY <1>1, <1>2, <1>4, <1>7, <3>1 DEF Held
  <2>2. ASSUME NEW v \in Admins \ {w}, Holding(v)' PROVE Held(req[v])'
    <3>1. PICK q : q = req[v] /\ q = req'[v] /\ Held(q)
      BY <1>3, <1>8, <2>2 DEF IInv, RowsHeld
    <3>. QED
      BY <1>9, <3>1
  <2>. QED
    BY <1>3, <2>1, <2>2 DEF RowsHeld
<1>11. \A v \in Admins \ {w} : Holding(v) => req[v].rows \cap R = {}
  BY <1>2 DEF LockedFor, Holding
<1>12. Exclusive'
  BY <1>3, <1>4, <1>8, <1>11 DEF IInv, Exclusive
<1>13. \A q : Creating(q) /\ Ending(q) /\ Deleting(q) => (Creating(q) /\ Ending(q) /\ Deleting(q))'
  BY <1>2 DEF Creating, Ending, Deleting, Known, Ids
<1>14. Read'
  <2>. SUFFICES ASSUME NEW v \in Admins PROVE (Creating(req[v]) /\ Ending(req[v]) /\ Deleting(req[v]))'
    BY DEF Read
  <2>1. PICK q : q = req'[v]
    OBVIOUS
  <2>2. Creating(q) /\ Ending(q) /\ Deleting(q)
    <3>1. CASE v = w
      <4>1. q = now
        BY <1>3, <2>1, <3>1
      <4>2. Creating(now)
        BY <1>4, <1>5 DEF Creating
      <4>3. Ending(now)
        BY <1>4, <1>5 DEF Ending, Known
      <4>4. Deleting(now)
        BY <1>2, <1>4 DEF Deleting
      <4>. QED
        BY <4>1, <4>2, <4>3, <4>4
    <3>2. CASE v # w
      BY <1>3, <2>1, <3>2 DEF IInv, Read
    <3>. QED
      BY <3>1, <3>2
  <2>. QED
    BY <1>13, <2>1, <2>2
<1>. QED
  BY <1>6, <1>10, <1>12, <1>14 DEF IInv

\* A transaction changes no row that another one holds, and of what others have read only ends
\* and whether it is in force.
LEMMA CommitKeeps ==
  ASSUME TypeOK, IInv, NEW w \in Admins, Kept, Done(w), Ordered', NEW target, Within(target),
         raced \subseteq raced', target \notin raced' => Tidy(target)',
         \A v \in Admins \ {w} : Holding(v) => Held(req[v]) /\ \A q : q = req[v] => Held(q)'
  PROVE  IInv'
<1>1. req'[w] = NoneYet /\ \A v \in Admins \ {w} : req'[v] = req[v]
  BY DEF TypeOK, Done
<1>2. \A v \in Admins : Holding(v)' => v # w /\ Holding(v)
  BY <1>1 DEF Holding, NoneYet
<1>3. RowsHeld'
  <2>. SUFFICES ASSUME NEW v \in Admins, Holding(v)' PROVE Held(req[v])'
    BY DEF RowsHeld
  <2>1. PICK q : q = req[v] /\ q = req'[v]
    BY <1>1, <1>2
  <2>2. Held(q)'
    BY <1>2, <2>1
  <2>. QED
    BY <2>1, <2>2
<1>4. Exclusive'
  BY <1>1, <1>2 DEF IInv, Exclusive
<1>5. Read'
  <2>. SUFFICES ASSUME NEW v \in Admins PROVE (Creating(req[v]) /\ Ending(req[v]) /\ Deleting(req[v]))'
    BY DEF Read
  <2>1. CASE v = w
    BY <1>1, <2>1 DEF Creating, Ending, Deleting, NoneYet
  <2>2. CASE v # w
    <3>1. PICK q : q = req[v]
      OBVIOUS
    <3>2. Creating(q) /\ Ending(q) /\ Deleting(q)
      BY <3>1 DEF IInv, Read
    <3>3. Creating(q)' /\ Ending(q)' /\ Deleting(q)'
      BY <3>2 DEF Kept, Creating, Ending, Deleting, Known
    <3>. QED
      BY <1>1, <2>2, <3>1, <3>3
  <2>. QED
    BY <2>1, <2>2
<1>6. OverlapIsRaced'
  <2>. SUFFICES ASSUME NEW i \in Ids', NEW j \in Ids', i # j, asg'[i].live, asg'[j].live,
                       asg'[i].target = asg'[j].target, asg'[i].target \notin raced'
                PROVE  asg'[i].to < asg'[j].from \/ asg'[j].to < asg'[i].from
    BY DEF OverlapIsRaced, Apart
  <2>1. CASE asg'[i].target = target
    <3>1. Tidy(target)' /\ i \in Live(target)' /\ j \in Live(target)'
      BY <2>1 DEF Live
    <3>. QED
      BY <3>1 DEF Tidy, Apart
  <2>2. CASE asg'[i].target # target
    <3>1. /\ i \in Ids /\ j \in Ids /\ asg'[i].target = asg[i].target /\ asg'[j].target = asg[j].target
      BY <2>2 DEF Within, Kept
    <3>2. asg'[i] = asg[i] /\ asg'[j] = asg[j]
      BY <2>2, <3>1 DEF Within
    <3>. QED
      BY <3>1, <3>2 DEF IInv, OverlapIsRaced, Apart
  <2>. QED
    BY <2>1, <2>2
<1>. QED
  BY <1>3, <1>4, <1>5, <1>6 DEF IInv

LEMMA AskKeeps ==
  ASSUME TypeOK, IInv, NEW w \in Admins,
         \/ AskCreate(w) \/ RefuseCreate(w) \/ RefuseEnd(w)
         \/ AskEnd(w) \/ AskDelete(w) \/ AskShift(w) \/ SaveShift(w)
  PROVE  IInv'
<1>1. CASE AskCreate(w)
  <2>1. PICK a, r :
          a \in Wanted /\ r = [op |-> "create", row |-> a, target |-> a.target, locked |-> FALSE, rows |-> {}] /\ Ask(w, r)
    BY <1>1 DEF AskCreate
  <2>. QED
    BY <2>1, ReadKeeps DEF Ask, Send, Creating, Ending, Deleting
<1>2. CASE AskEnd(w)
  <2>1. PICK i, t, r :
          /\ i \in Ids /\ t \in Dates
          /\ r = [op |-> "end", id |-> i, row |-> asg[i], target |-> asg[i].target, to |-> t,
                  locked |-> FALSE, rows |-> {}]
          /\ Ask(w, r) /\ asg[i].live /\ t >= asg[i].from
    BY <1>2 DEF AskEnd
  <2>2. asg[i].from \in Nat /\ t \in Nat
    BY <2>1, TableType, RowDates, Dating
  <2>. QED
    BY <2>1, <2>2, ReadKeeps DEF Ask, Send, Creating, Ending, Deleting, Known
<1>3. CASE AskDelete(w)
  <2>1. PICK i, r : /\ i \in Ids /\ r = [op |-> "delete", id |-> i, row |-> asg[i], target |-> asg[i].target]
                     /\ Ask(w, r)
    BY <1>3 DEF AskDelete
  <2>2. Creating(r) /\ Ending(r) /\ Deleting(r) /\ r.op = "delete"
    BY <2>1 DEF Creating, Ending, Deleting, Known
  <2>. QED
    BY <2>1, <2>2, ReadKeeps DEF Ask, Send
<1>4. CASE AskShift(w)
  <2>1. PICK s, on, r : s \in Shifts /\ r = [op |-> "shift", shift |-> s, on |-> on] /\ Send(w, r)
    BY <1>4 DEF AskShift
  <2>. QED
    BY <2>1, ReadKeeps DEF Send, Creating, Ending, Deleting
<1>5. CASE RefuseCreate(w) \/ RefuseEnd(w) \/ SaveShift(w)
  <2>1. PICK r : r = NoneYet
    OBVIOUS
  <2>2. req' = [req EXCEPT ![w] = r] /\ asg' = asg /\ raced' = raced
    BY <1>5, <2>1 DEF RefuseCreate, RefuseEnd, SaveShift, Done
  <2>3. /\ r.op \notin {"create", "end", "delete"}
    BY <2>1 DEF NoneYet
  <2>. QED
    BY <2>2, <2>3, ReadKeeps DEF Creating, Ending, Deleting
<1>. QED
  BY <1>1, <1>2, <1>3, <1>4, <1>5

LEMMA CreateKeeps ==
  ASSUME TypeOK, IInv, NEW w \in Admins, CommitCreate(w)
  PROVE  IInv'
<1>1. PICK target : target = req[w].target
  OBVIOUS
<1>2. /\ Kept /\ Within(target) /\ Holding(w) /\ Done(w) /\ Ordered'
      /\ \A i \in Ids : asg'[i].live <=> asg[i].live
      /\ raced \subseteq raced' /\ raced' \subseteq raced \cup {target}
      /\ target \notin raced' => req[w].rows = Live(target) /\ Tidy(target) /\ Tidy(target)'
  BY <1>1, CreateEffect
<1>3. ASSUME NEW v \in Admins \ {w}, Holding(v), NEW q, q = req[v] PROVE Held(q) /\ Held(q)'
  <2>1. Held(q) /\ q.rows \cap req[w].rows = {}
    BY <1>2, <1>3 DEF IInv, RowsHeld, Exclusive
  <2>2. q.rows \subseteq Live(q.target)'
    BY <1>2, <2>1 DEF Held, Kept, Live
  <2>3. ASSUME q.target \notin raced' PROVE q.rows # {} => q.rows = Live(q.target)'
    <3>1. CASE q.target = target
      BY <1>2, <2>1, <2>3, <3>1 DEF Held
    <3>2. CASE q.target # target
      <4>1. Live(q.target)' = Live(q.target)
        BY <1>2, <3>2 DEF Within, Kept, Live
      <4>. QED
        BY <1>2, <2>1, <2>3, <4>1 DEF Held
    <3>. QED
      BY <3>1, <3>2
  <2>4. ASSUME q.target \notin raced', q.rows = {}, q.op = "end" PROVE ~asg'[q.id].live
    <3>1. ~asg[q.id].live
      BY <1>2, <2>1, <2>4 DEF Held
    <3>2. q.id \in Ids
      BY <1>3, <2>4 DEF IInv, Read, Ending, Known
    <3>. QED
      BY <1>2, <3>1, <3>2
  <2>5. Held(q)'
    BY <2>2, <2>3, <2>4 DEF Held
  <2>. QED
    BY <2>1, <2>5
<1>. QED
  BY <1>2, <1>3, CommitKeeps

LEMMA EndKeeps ==
  ASSUME TypeOK, IInv, NEW w \in Admins, CommitEnd(w)
  PROVE  IInv'
<1>1. PICK target, n : target = req[w].target /\ n = req[w].id
  OBVIOUS
<1>2. /\ Kept /\ Ids' = Ids /\ Within(target) /\ Holding(w) /\ Done(w) /\ Ordered'
      /\ n \in Ids /\ asg[n].target = target /\ asg'[n].live
      /\ \A i \in Ids : i # n => asg'[i] = asg[i]
      /\ raced \subseteq raced' /\ raced' \subseteq raced \cup {target}
      /\ target \notin raced' => /\ req[w].rows = Live(target) /\ asg[n].live
                                 /\ Tidy(target) /\ Tidy(target)'
  BY <1>1, EndEffect
<1>3. ASSUME NEW v \in Admins \ {w}, Holding(v), NEW q, q = req[v] PROVE Held(q) /\ Held(q)'
  <2>1. Held(q) /\ q.rows \cap req[w].rows = {}
    BY <1>2, <1>3 DEF IInv, RowsHeld, Exclusive
  <2>2. q.rows \subseteq Live(q.target)'
    BY <1>2, <2>1 DEF Held, Kept, Live
  <2>3. ASSUME q.target \notin raced' PROVE q.rows # {} => q.rows = Live(q.target)'
    <3>1. CASE q.target = target
      BY <1>2, <2>1, <2>3, <3>1 DEF Held
    <3>2. CASE q.target # target
      <4>1. Live(q.target)' = Live(q.target)
        BY <1>2, <3>2 DEF Within, Kept, Live
      <4>. QED
        BY <1>2, <2>1, <2>3, <4>1 DEF Held
    <3>. QED
      BY <3>1, <3>2
  <2>4. ASSUME q.target \notin raced', q.rows = {}, q.op = "end" PROVE ~asg'[q.id].live
    <3>1. ~asg[q.id].live
      BY <1>2, <2>1, <2>4 DEF Held
    <3>2. q.id \in Ids /\ asg[q.id].target = q.target
      BY <1>3, <2>4 DEF IInv, Read, Ending, Known
    <3>3. q.id # n
      BY <1>2, <2>4, <3>1, <3>2
    <3>. QED
      BY <1>2, <3>1, <3>2, <3>3
  <2>5. Held(q)'
    BY <2>2, <2>3, <2>4 DEF Held
  <2>. QED
    BY <2>1, <2>5
<1>. QED
  BY <1>2, <1>3, CommitKeeps

LEMMA DeleteKeeps ==
  ASSUME TypeOK, IInv, NEW w \in Admins, CommitDelete(w)
  PROVE  IInv'
<1>1. PICK target, n : target = req[w].target /\ n = req[w].id
  OBVIOUS
<1>2. /\ Kept /\ Ids' = Ids /\ Within(target) /\ Done(w) /\ Ordered'
      /\ n \in Ids /\ n \notin LockedFor(w) /\ asg[n].target = target /\ ~asg'[n].live
      /\ \A i \in Ids : i # n => asg'[i] = asg[i]
      /\ raced' = raced
  BY <1>1, DeleteEffect
<1>3. ASSUME NEW v \in Admins \ {w}, Holding(v), NEW q, q = req[v] PROVE Held(q) /\ Held(q)'
  <2>1. Held(q)
    BY <1>3 DEF IInv, RowsHeld
  <2>2. n \notin q.rows
    BY <1>2, <1>3 DEF LockedFor, Holding
  <2>3. q.rows \subseteq Live(q.target)'
    BY <1>2, <2>1, <2>2 DEF Held, Live
  <2>4. ASSUME q.target \notin raced, q.rows # {} PROVE q.rows = Live(q.target)'
    BY <1>2, <2>1, <2>2, <2>4 DEF Held, Live
  <2>5. ASSUME q.target \notin raced, q.rows = {}, q.op = "end" PROVE ~asg'[q.id].live
    <3>1. ~asg[q.id].live
      BY <2>1, <2>5 DEF Held
    <3>2. q.id \in Ids
      BY <1>3, <2>5 DEF IInv, Read, Ending, Known
    <3>. QED
      BY <1>2, <3>1, <3>2
  <2>6. Held(q)'
    BY <1>2, <2>3, <2>4, <2>5 DEF Held
  <2>. QED
    BY <2>1, <2>6
<1>4. target \notin raced' => Tidy(target)'
  <2>. SUFFICES ASSUME target \notin raced PROVE Tidy(target)'
    BY <1>2
  <2>1. Tidy(target)
    BY DEF IInv, OverlapIsRaced, Tidy, Live
  <2>2. \A i \in Live(target)' : i \in Live(target) /\ asg'[i] = asg[i]
    BY <1>2 DEF Live
  <2>. QED
    BY <2>1, <2>2 DEF Tidy, Apart
<1>. QED
  BY <1>2, <1>3, <1>4, CommitKeeps

LEMMA IInvStep == TypeOK /\ IInv /\ [Next]_vars => IInv'
<1>. SUFFICES ASSUME TypeOK, IInv, [Next]_vars PROVE IInv'
  OBVIOUS
<1>1. ASSUME NEW w \in Admins,
             \/ AskCreate(w) \/ AskEnd(w) \/ AskDelete(w) \/ AskShift(w)
             \/ RefuseCreate(w) \/ RefuseEnd(w) \/ SaveShift(w)
      PROVE  IInv'
  BY <1>1, AskKeeps
<1>2. ASSUME NEW w \in Admins, LockTarget(w) PROVE IInv'
  BY <1>2, LockKeeps
<1>3. ASSUME NEW w \in Admins, CommitCreate(w) PROVE IInv'
  BY <1>3, CreateKeeps
<1>4. ASSUME NEW w \in Admins, CommitEnd(w) PROVE IInv'
  BY <1>4, EndKeeps
<1>5. ASSUME NEW w \in Admins, CommitDelete(w) PROVE IInv'
  BY <1>5, DeleteKeeps
<1>6. CASE NextDay \/ UNCHANGED vars
  <2>1. asg' = asg /\ req' = req /\ raced' = raced
    BY <1>6 DEF NextDay, vars
  <2>2. \A tg : Live(tg)' = Live(tg)
    BY <2>1 DEF Live, Ids
  <2>3. RowsHeld'
    BY <2>1, <2>2 DEF IInv, RowsHeld, Held, Holding
  <2>4. Read'
    BY <2>1 DEF IInv, Read, Creating, Ending, Deleting, Known, Ids
  <2>. QED
    BY <2>1, <2>3, <2>4 DEF IInv, Ordered, OverlapIsRaced, Apart, Exclusive, Holding, Ids
<1>. QED
  BY <1>1, <1>2, <1>3, <1>4, <1>5, <1>6 DEF Next

\* Histories and requests keep their types: no split, end or deletion makes a row that begins or
\* ends outside the dates followed.
THEOREM TypeCorrect == Spec => []TypeOK
<1>1. Init => TypeOK /\ IInv
  BY TypeInit, InitIInv
<1>2. (TypeOK /\ IInv) /\ [Next]_vars => (TypeOK /\ IInv)'
  BY TypeStep, IInvStep DEF IInv
<1>. QED
  BY <1>1, <1>2, PTL DEF Spec

\* However many administrators create, end and delete at once, two assignments of a target are in
\* force on one date only where a transaction wrote its history without holding a row of it: a first
\* assignment made beside another, or a deleted row saved again (get_target_assignments).
THEOREM OverlapsAreRaced == Spec => []OverlapIsRaced
<1>1. Init => TypeOK /\ IInv
  BY TypeInit, InitIInv
<1>2. (TypeOK /\ IInv) /\ [Next]_vars => (TypeOK /\ IInv)'
  BY TypeStep, IInvStep DEF IInv
<1>3. IInv => OverlapIsRaced
  BY DEF IInv
<1>. QED
  BY <1>1, <1>2, <1>3, PTL DEF Spec


----------------------------------------------------------------------------
(* Only the dates asked about change. *)

\* Where a row has been cut since its end was asked for, another begins.
Followed(r) == \/ asg[r.id].to = r.row.to
               \/ \E j \in Ids : /\ asg[j].live /\ asg[j].target = r.target
                                 /\ asg[j].from = asg[r.id].to + 1

CutsFollowed == \A w \in Admins \ overtaken : req[w].op = "end" => Followed(req[w])

LEMMA CreateCuts ==
  ASSUME TypeOK, IInv, NEW w \in Admins, CommitCreate(w), NEW i \in Ids
  PROVE  \/ asg'[i].to = asg[i].to
         \/ \E j \in Ids' : /\ asg'[j].live /\ asg'[j].target = asg[i].target
                            /\ asg'[j].from = asg'[i].to + 1
<1>1. PICK r, a, rows, new : r = req[w] /\ a = r.row /\ rows = r.rows /\ new = asg'
  OBVIOUS
<1>2. r.op = "create" /\ r.locked
  BY <1>1 DEF CommitCreate
<1>3. PICK order \in OldestFirst(Outlasts(a, rows)) : asg' = Split(a, rows, order)
  BY <1>1 DEF CommitCreate
<1>4. a \in Wanted /\ a \in Assignment /\ a.live /\ a.from \in Nat
  BY <1>1, <1>2, RequestType, WantedType, RowDates
<1>5. rows \subseteq Live(a.target) /\ rows \subseteq Ids
  BY <1>1, <1>2 DEF IInv, RowsHeld, Held, Read, Creating, Holding, Live
<1>6. new[i] = Shortened(a, rows, i) /\ new[Len(new)] = a /\ Len(new) \in DOMAIN new
  BY <1>1, <1>3, <1>4, <1>5, SplitShape
<1>7. CASE i \in rows /\ Covers(a, i)
  <2>1. asg[i].target = a.target /\ asg[i] \in Assignment
    BY <1>5, <1>7, TableType DEF Live
  <2>2. new[i].to = a.from - 1
    BY <1>6, <1>7, <2>1 DEF Shortened, Assignment
  <2>3. a.from = new[i].to + 1
    BY <1>4, <2>2
  <2>. QED
    BY <1>1, <1>4, <1>6, <2>1, <2>3 DEF Ids
<1>8. CASE ~(i \in rows /\ Covers(a, i))
  BY <1>1, <1>6, <1>8 DEF Shortened
<1>. QED
  BY <1>7, <1>8

\* An end or a deletion of another target leaves a row and what follows it alone.
LEMMA OthersFollowed ==
  ASSUME TypeOK, IInv, Kept, NEW target, Within(target), NEW r, r.op = "end",
         Ending(r), Followed(r), r.target # target
  PROVE  Followed(r)'
<1>1. r.id \in Ids /\ asg[r.id].target = r.target
  BY DEF Ending, Known
<1>2. r.id \in Ids' /\ asg'[r.id] = asg[r.id]
  BY <1>1 DEF Kept, Within
<1>3. \A j \in Ids : asg[j].target = r.target => j \in Ids' /\ asg'[j] = asg[j]
  BY DEF Kept, Within
<1>. QED
  BY <1>2, <1>3 DEF Followed

LEMMA CutsStep == TypeOK /\ IInv /\ CutsFollowed /\ [Next]_vars => CutsFollowed'
<1>. SUFFICES ASSUME TypeOK, IInv, CutsFollowed, [Next]_vars,
                     NEW v \in Admins, v \notin overtaken', req'[v].op = "end"
              PROVE  Followed(req[v])'
  BY DEF CutsFollowed
<1>2. ASSUME NEW w \in Admins, NEW r, Send(w, r), r.op = "end" => r.row = asg[r.id]
      PROVE  Followed(req[v])'
  <2>1. asg' = asg /\ req' = [req EXCEPT ![w] = r] /\ overtaken' = overtaken
    BY <1>2 DEF Send
  <2>2. CASE w = v
    <3>1. req'[v] = r
      BY <2>1, <2>2 DEF TypeOK
    <3>2. Followed(r)'
      BY <1>2, <2>1, <3>1 DEF Followed
    <3>. QED
      BY <3>1, <3>2
  <2>3. CASE w # v
    <3>1. req'[v] = req[v]
      BY <2>1, <2>3 DEF TypeOK
    <3>. QED
      BY <2>1, <3>1 DEF CutsFollowed, Followed, Ids
  <2>. QED
    BY <2>2, <2>3
<1>3. ASSUME NEW w \in Admins, AskCreate(w) \/ AskEnd(w) \/ AskDelete(w) \/ AskShift(w)
      PROVE  Followed(req[v])'
  <2>1. \E r : Send(w, r) /\ (r.op = "end" => r.row = asg[r.id])
    <3>1. CASE AskCreate(w)
      <4>1. PICK a, r :
              /\ r = [op |-> "create", row |-> a, target |-> a.target, locked |-> FALSE, rows |-> {}]
              /\ Send(w, r)
        BY <3>1 DEF AskCreate, Ask
      <4>. QED
        BY <4>1
    <3>2. CASE AskEnd(w)
      <4>1. PICK i, t, r :
              /\ r = [op |-> "end", id |-> i, row |-> asg[i], target |-> asg[i].target, to |-> t,
                      locked |-> FALSE, rows |-> {}]
              /\ Send(w, r)
        BY <3>2 DEF AskEnd, Ask
      <4>. QED
        BY <4>1
    <3>3. CASE AskDelete(w)
      <4>1. PICK i, r : /\ r = [op |-> "delete", id |-> i, row |-> asg[i], target |-> asg[i].target]
                        /\ Send(w, r)
        BY <3>3 DEF AskDelete, Ask
      <4>. QED
        BY <4>1
    <3>4. CASE AskShift(w)
      <4>1. PICK s, on, r :
              r = [op |-> "shift", shift |-> s, on |-> on] /\ Send(w, r)
        BY <3>4 DEF AskShift
      <4>. QED
        BY <4>1
    <3>. QED
      BY <1>3, <3>1, <3>2, <3>3, <3>4
  <2>. QED
    BY <2>1, <1>2
<1>4. ASSUME NEW w \in Admins, LockTarget(w) PROVE Followed(req[v])'
  <2>1. PICK R : R = Live(req[w].target)
    OBVIOUS
  <2>2. asg' = asg /\ overtaken' = overtaken /\ req' = [req EXCEPT ![w].locked = TRUE, ![w].rows = R]
    BY <1>4, <2>1 DEF LockTarget
  <2>3. CASE w = v
    <3>1. req'[v] = [[req[v] EXCEPT !.locked = TRUE] EXCEPT !.rows = R]
      BY <2>2, <2>3 DEF TypeOK
    <3>2. req[v].op = "end"
      <4>1. CASE req[v].op = "create"
        BY <3>1, <4>1, RequestType
      <4>. QED
        BY <1>4, <2>3, <4>1 DEF LockTarget
    <3>3. /\ req'[v].id = req[v].id /\ req'[v].row = req[v].row /\ req'[v].target = req[v].target
      BY <3>1, <3>2, RequestType
    <3>4. PICK q, r : q = req'[v] /\ r = req[v]
      OBVIOUS
    <3>5. Followed(r)
      BY <2>2, <3>2, <3>4 DEF CutsFollowed
    <3>6. Followed(q)'
      BY <2>2, <3>3, <3>4, <3>5 DEF Followed, Ids
    <3>. QED
      BY <3>4, <3>6
  <2>4. CASE w # v
    <3>1. req'[v] = req[v]
      BY <2>2, <2>4 DEF TypeOK
    <3>. QED
      BY <2>2, <3>1 DEF CutsFollowed, Followed, Ids
  <2>. QED
    BY <2>3, <2>4
<1>5. ASSUME NEW w \in Admins, Done(w) PROVE w # v /\ req'[v] = req[v] /\ req[v].op = "end"
  BY <1>5 DEF Done, TypeOK, NoneYet
<1>6. ASSUME NEW w \in Admins, RefuseCreate(w) \/ RefuseEnd(w) \/ SaveShift(w) PROVE Followed(req[v])'
  <2>1. asg' = asg /\ Done(w) /\ overtaken \subseteq overtaken' \cup {w}
    BY <1>6 DEF RefuseCreate, RefuseEnd, SaveShift, Leaves
  <2>2. req'[v] = req[v] /\ v \notin overtaken
    BY <1>5, <2>1
  <2>. QED
    BY <2>1, <2>2 DEF CutsFollowed, Followed, Ids
<1>7. ASSUME NEW w \in Admins, CommitEnd(w) \/ CommitDelete(w) PROVE Followed(req[v])'
  <2>1. PICK target : target = req[w].target
    OBVIOUS
  <2>2. Kept /\ Within(target) /\ Done(w)
    BY <1>7, <2>1, EndEffect, DeleteEffect
  <2>3. PICK r : r = req[v] /\ r = req'[v] /\ r.op = "end" /\ v # w
    BY <1>5, <2>2
  <2>4. v \notin overtaken /\ r.target # target
    <3>1. overtaken' = {u \in Admins \ {w} : u \in overtaken \/ (req[u].op = "end" /\ req[u].target = target)}
      BY <1>7, <2>1 DEF CommitEnd, CommitDelete, Overtakes
    <3>. QED
      BY <2>3, <3>1
  <2>5. Followed(r) /\ Ending(r)
    BY <2>3, <2>4 DEF CutsFollowed, IInv, Read
  <2>6. Followed(r)'
    BY <2>2, <2>3, <2>4, <2>5, OthersFollowed
  <2>. QED
    BY <2>3, <2>6
<1>8. ASSUME NEW w \in Admins, CommitCreate(w) PROVE Followed(req[v])'
  <2>1. Done(w) /\ Kept /\ overtaken' = overtaken /\ \A i \in Ids : asg'[i].live <=> asg[i].live
    <3>1. PICK target : target = req[w].target
      OBVIOUS
    <3>. QED
      BY <1>8, <3>1, CreateEffect DEF CommitCreate
  <2>2. PICK r : r = req[v] /\ r = req'[v] /\ r.op = "end"
    BY <1>5, <2>1
  <2>3. Followed(r) /\ Ending(r)
    BY <2>1, <2>2 DEF CutsFollowed, IInv, Read
  <2>4. r.id \in Ids /\ asg[r.id].target = r.target
    BY <2>2, <2>3 DEF Ending, Known
  <2>5. ASSUME asg'[r.id].to = asg[r.id].to PROVE Followed(r)'
    BY <2>1, <2>3, <2>5 DEF Followed, Kept
  <2>6. ASSUME asg'[r.id].to # asg[r.id].to PROVE Followed(r)'
    <3>1. \E j \in Ids' : /\ asg'[j].live /\ asg'[j].target = asg[r.id].target
                          /\ asg'[j].from = asg'[r.id].to + 1
      BY <1>8, <2>4, <2>6, CreateCuts
    <3>. QED
      BY <2>4, <3>1 DEF Followed
  <2>. QED
    BY <2>2, <2>5, <2>6
<1>9. CASE NextDay \/ UNCHANGED vars
  <2>1. asg' = asg /\ req' = req /\ overtaken' = overtaken
    BY <1>9 DEF NextDay, vars
  <2>. QED
    BY <2>1 DEF CutsFollowed, Followed, Ids
<1>. QED
  BY <1>3, <1>4, <1>6, <1>7, <1>8, <1>9 DEF Next

----------------------------------------------------------------------------
(* The assignment in force. *)

\* A set of naturals that is not empty has a least element, and a greatest one if it is bounded.
LEMMA Least ==
  ASSUME NEW S \in SUBSET Nat, S # {}
  PROVE  \E n \in S : \A m \in S : n <= m
<1>. DEFINE Lower == {pair \in Nat \X Nat : pair[1] < pair[2]}
<1>1. IsWellFoundedOn(Lower, Nat)
  BY NatLessThanWellFounded DEF OpToRel
<1>2. PICK n \in S : \A m \in S : <<m, n>> \notin Lower
  <2>. HIDE DEF Lower
  <2>. QED
    BY <1>1, WFMin, Zenon
<1>3. ASSUME NEW m \in S
      PROVE  n <= m
  <2>1. m \in Nat /\ n \in Nat /\ ~ m < n
    BY <1>2
  <2>. QED
    BY <2>1
<1>. QED
  BY <1>3

LEMMA Greatest ==
  ASSUME NEW S \in SUBSET Nat, S # {}, NEW b \in Nat, \A m \in S : m <= b
  PROVE  \E n \in S : \A m \in S : m <= n
<1>. DEFINE T == {b - m : m \in S}
<1>1. T \in SUBSET Nat /\ T # {}
  <2>1. ASSUME NEW m \in S PROVE b - m \in Nat
    <3>1. m \in Nat /\ m <= b
      OBVIOUS
    <3>. QED
      BY <3>1
  <2>2. PICK m : m \in S
    OBVIOUS
  <2>3. b - m \in T
    BY <2>2
  <2>. QED
    BY <2>1, <2>3
<1>2. PICK t \in T : \A u \in T : t <= u
  <2>. HIDE DEF T
  <2>. QED
    BY <1>1, Least
<1>3. PICK n \in S : t = b - n
  OBVIOUS
<1>4. ASSUME NEW m \in S PROVE m <= n
  <2>1. b - m \in T
    OBVIOUS
  <2>2. t <= b - m
    BY <1>2, <2>1
  <2>. QED
    BY <1>3, <2>2
<1>. QED
  BY <1>4

LEMMA LeastScope ==
  ASSUME NEW S, S \subseteq DOMAIN Scopes, S # {}
  PROVE  (CHOOSE n \in S : \A m \in S : n <= m) \in S
<1>1. S \in SUBSET Nat
  BY ScopeAssumption
<1>. QED
  BY <1>1, Least

\* The latest of a set of rows is one of them, and all others come before it.
IsLatest(i, S) == i \in S /\ \A j \in S \ {i} : Before(j, i)

Latests == \A S \in SUBSET Ids : S # {} => IsLatest(Latest(S), S)

LEMMA HasLatest == TypeOK => Latests
<1>. SUFFICES ASSUME TypeOK, NEW S \in SUBSET Ids, S # {} PROVE IsLatest(Latest(S), S)
  BY DEF Latests
<1>1. \A i \in S : i \in Nat /\ i <= Len(asg) /\ asg[i].from \in Nat /\ asg[i].from <= LastDate
  BY TableType, RowType, Dating
<1>2. Len(asg) \in Nat /\ LastDate \in Nat
  BY TableType, Dating
<1>3. PICK f : \A i \in S : asg[i].from = f[i]
  <2>1. \A i \in S : asg[i].from = [k \in S |-> asg[k].from][i]
    OBVIOUS
  <2>. QED
    BY <2>1
<1>4. PICK F : F = {f[i] : i \in S}
  OBVIOUS
<1>5. F \in SUBSET Nat /\ F # {} /\ \A m \in F : m <= LastDate
  BY <1>1, <1>3, <1>4
<1>6. PICK top \in F : \A m \in F : m <= top
  BY <1>2, <1>5, Greatest
<1>7. PICK G : G = {i \in S : f[i] = top}
  OBVIOUS
<1>8. G \in SUBSET Nat /\ G # {} /\ \A m \in G : m <= Len(asg)
  BY <1>1, <1>4, <1>7
<1>9. PICK i \in G : \A m \in G : m <= i
  BY <1>2, <1>8, Greatest
<1>10. i \in S /\ f[i] = top
  BY <1>7, <1>9
<1>11. ASSUME NEW j \in S, j # i PROVE Before(j, i)
  <2>1. asg[j].from = f[j] /\ asg[i].from = top /\ f[j] <= top /\ f[j] \in Nat /\ top \in Nat
    BY <1>1, <1>3, <1>4, <1>6, <1>10
  <2>2. f[j] = top => j <= i /\ j \in Nat /\ i \in Nat
    BY <1>1, <1>7, <1>9, <1>10
  <2>. QED
    BY <1>11, <2>1, <2>2 DEF Before
<1>12. \E k \in S : \A j \in S \ {k} : Before(j, k)
  BY <1>10, <1>11
<1>. QED
  BY <1>12 DEF IsLatest, Latest

\* The shift a target has on a date.
Given(tg, d) == IF Matches(tg, d) = {} THEN NoShift ELSE asg[Latest(Matches(tg, d))].shift

\* The employee has that of the most specific scope that has one.
Resolved(d, S, n) ==
  S = {k \in DOMAIN Scopes : Matches(Scopes[k], d) # {}}
    => ResolveShift(d) = IF S = {} THEN NoShift ELSE Given(Scopes[n], d)

AllResolved == \A d, S, n : n = (CHOOSE k \in S : \A m \in S : k <= m) => Resolved(d, S, n)

LEMMA Resolves == TypeOK => AllResolved
<1>. SUFFICES ASSUME TypeOK, NEW d, NEW S, S = {k \in DOMAIN Scopes : Matches(Scopes[k], d) # {}},
                     NEW n, n = CHOOSE k \in S : \A m \in S : k <= m
              PROVE  ResolveShift(d) = IF S = {} THEN NoShift ELSE Given(Scopes[n], d)
  BY DEF AllResolved, Resolved
<1>1. CASE S = {}
  BY <1>1 DEF ResolveShift, InForce
<1>2. CASE S # {}
  <2>1. n \in S /\ Matches(Scopes[n], d) # {}
    BY <1>2, LeastScope
  <2>2. PICK M : M = Matches(Scopes[n], d)
    OBVIOUS
  <2>3. InForce(d) = Latest(M)
    BY <1>2, <2>2 DEF InForce
  <2>4. M \subseteq Ids /\ M # {}
    BY <2>1, <2>2 DEF Matches, Live
  <2>5. Latest(M) \in Ids
    BY <2>4, HasLatest DEF Latests, IsLatest
  <2>6. Latest(M) # 0
    BY <2>5, TableType
  <2>. QED
    BY <1>2, <2>1, <2>2, <2>3, <2>6 DEF ResolveShift, Given
<1>. QED
  BY <1>1, <1>2

\* A date on which every target has the shift it had is one on which the employee has.
SameAt(tg, d) == /\ Matches(tg, d) = {} <=> Matches(tg, d)' = {}
                 /\ Given(tg, d)' = Given(tg, d)

LEMMA SameShift ==
  ASSUME TypeOK, TypeOK', NEW d \in Dates, \A tg \in Targets : SameAt(tg, d)
  PROVE  ResolveShift(d)' = ResolveShift(d)
<1>1. PICK S, T : /\ S = {n \in DOMAIN Scopes : Matches(Scopes[n], d) # {}}
                  /\ T = {n \in DOMAIN Scopes : Matches(Scopes[n], d)' # {}}
  OBVIOUS
<1>2. \A n \in DOMAIN Scopes : Scopes[n] \in Targets
  BY DEF Targets
<1>3. S = T
  BY <1>1, <1>2 DEF SameAt
<1>4. PICK n : n = CHOOSE k \in S : \A m \in S : k <= m
  OBVIOUS
<1>5. ResolveShift(d) = IF S = {} THEN NoShift ELSE Given(Scopes[n], d)
  BY <1>1, <1>4, Resolves DEF AllResolved, Resolved
<1>6. ResolveShift(d)' = IF S = {} THEN NoShift ELSE Given(Scopes[n], d)'
  <2>1. AllResolved'
    BY Resolves, PTL
  <2>2. Resolved(d, S, n)'
    BY <1>4, <2>1 DEF AllResolved
  <2>. QED
    BY <1>1, <1>3, <2>2 DEF Resolved
<1>7. CASE S # {}
  <2>1. n \in S
    BY <1>1, <1>4, <1>7, LeastScope
  <2>2. PICK tg \in Targets : tg = Scopes[n]
    BY <1>1, <1>2, <2>1
  <2>3. Given(tg, d)' = Given(tg, d)
    BY DEF SameAt
  <2>. QED
    BY <1>5, <1>6, <1>7, <2>2, <2>3
<1>. QED
  BY <1>5, <1>6, <1>7

\* A target whose rows stay has the shifts it had.
LEMMA OthersSame ==
  ASSUME TypeOK, TypeOK', Kept, NEW target, Within(target), NEW tg, tg # target, NEW d \in Dates
  PROVE  SameAt(tg, d)
<1>1. PICK M : M = Matches(tg, d)
  OBVIOUS
<1>2. \A i \in M : i \in Ids /\ i \in Ids' /\ asg'[i] = asg[i]
  BY <1>1 DEF Kept, Within, Matches, Live
<1>3. Matches(tg, d)' = M
  <2>1. ASSUME NEW i \in Ids', asg'[i].target = tg PROVE i \in Ids /\ asg'[i] = asg[i]
    BY <2>1 DEF Kept, Within
  <2>2. ASSUME NEW i \in Ids, asg[i].target = tg PROVE i \in Ids' /\ asg'[i] = asg[i]
    BY <2>2 DEF Kept, Within
  <2>3. \A i : i \in Matches(tg, d)' => i \in M
    BY <1>1, <2>1 DEF Matches, Live
  <2>4. \A i : i \in M => i \in Matches(tg, d)'
    BY <1>1, <2>2 DEF Matches, Live
  <2>. QED
    BY <2>3, <2>4
<1>4. CASE M # {}
  <2>1. PICK i : i = Latest(M)
    OBVIOUS
  <2>2. i \in M /\ \A j \in M \ {i} : Before(j, i)
    BY <1>2, <1>4, <2>1, HasLatest DEF Latests, IsLatest
  <2>3. PICK k : k = Latest(M)'
    OBVIOUS
  <2>4. k \in M /\ \A j \in M \ {k} : Before(j, k)'
    <3>1. Latests'
      BY HasLatest, PTL
    <3>2. M \in SUBSET Ids'
      BY <1>2
    <3>. QED
      BY <1>4, <2>3, <3>1, <3>2 DEF Latests, IsLatest
  <2>5. i = k
    <3>. SUFFICES ASSUME i # k PROVE FALSE
      OBVIOUS
    <3>1. Before(k, i) /\ Before(i, k)'
      BY <2>2, <2>4
    <3>2. /\ asg'[i] = asg[i] /\ asg'[k] = asg[k] /\ i \in Nat /\ k \in Nat
          /\ asg[i].from \in Nat /\ asg[k].from \in Nat
      BY <1>2, <2>2, <2>4, TableType, RowDates
    <3>. QED
      BY <3>1, <3>2 DEF Before
  <2>. QED
    BY <1>1, <1>2, <1>3, <1>4, <2>1, <2>2, <2>3, <2>5 DEF SameAt, Given
<1>5. CASE M = {}
  BY <1>1, <1>3, <1>5 DEF SameAt, Given
<1>. QED
  BY <1>4, <1>5

\* In a history that does not overlap one assignment applies on a date, which is then the latest.
Serves(tg, d, sh) == \E i \in Matches(tg, d) : asg[i].shift = sh

OneServes(tg) == Tidy(tg) => \A d \in Dates : \A sh : Serves(tg, d, sh) => Given(tg, d) = sh

AllServe == \A tg : OneServes(tg)

LEMMA OneMatch == TypeOK => AllServe
<1>. SUFFICES ASSUME TypeOK, NEW tg, Tidy(tg), NEW d \in Dates, NEW i \in Matches(tg, d)
              PROVE  Given(tg, d) = asg[i].shift
  BY DEF AllServe, OneServes, Serves
<1>1. ASSUME NEW j \in Matches(tg, d), j # i PROVE FALSE
  <2>1. i \in Ids /\ j \in Ids /\ i \in Live(tg) /\ j \in Live(tg)
    BY DEF Matches, Live
  <2>2. /\ asg[i].from \in Nat /\ asg[i].to \in Nat /\ asg[j].from \in Nat /\ asg[j].to \in Nat
        /\ d \in Nat
    BY <2>1, TableType, RowDates, Dating
  <2>3. asg[i].to < asg[j].from \/ asg[j].to < asg[i].from
    BY <1>1, <2>1 DEF Tidy, Apart
  <2>. QED
    BY <2>2, <2>3 DEF Matches
<1>2. Matches(tg, d) \in SUBSET Ids /\ Matches(tg, d) # {}
  BY DEF Matches, Live
<1>3. Latest(Matches(tg, d)) \in Matches(tg, d)
  BY <1>2, HasLatest DEF Latests, IsLatest
<1>4. Latest(Matches(tg, d)) = i
  BY <1>1, <1>3
<1>. QED
  BY <1>2, <1>4 DEF Given

LEMMA TidySame ==
  ASSUME TypeOK, TypeOK', NEW tg, Tidy(tg), Tidy(tg)', NEW d \in Dates,
         \A sh : Serves(tg, d, sh) <=> Serves(tg, d, sh)'
  PROVE  SameAt(tg, d)
<1>1. AllServe /\ AllServe'
  BY OneMatch, PTL
<1>2. OneServes(tg) /\ OneServes(tg)'
  BY <1>1 DEF AllServe
<1>3. Matches(tg, d) = {} <=> Matches(tg, d)' = {}
  <2>1. Matches(tg, d) # {} <=> \E sh : Serves(tg, d, sh)
    BY DEF Serves
  <2>2. Matches(tg, d)' # {} <=> \E sh : Serves(tg, d, sh)'
    BY DEF Serves
  <2>. QED
    BY <2>1, <2>2
<1>4. CASE Matches(tg, d) = {}
  BY <1>3, <1>4 DEF SameAt, Given
<1>5. CASE Matches(tg, d) # {}
  <2>1. PICK sh : Serves(tg, d, sh)
    BY <1>5 DEF Serves
  <2>2. Serves(tg, d, sh)'
    BY <2>1
  <2>3. Given(tg, d) = sh
    BY <1>2, <2>1 DEF OneServes
  <2>4. Given(tg, d)' = sh
    BY <1>2, <2>2 DEF OneServes
  <2>. QED
    BY <1>3, <2>3, <2>4 DEF SameAt
<1>. QED
  BY <1>4, <1>5

----------------------------------------------------------------------------
(* What a request does to the other dates. *)

\* A new assignment leaves them as they are: a row it closes goes on after it.
LEMMA CreateServes ==
  ASSUME TypeOK, IInv, NEW w \in Admins, CommitCreate(w), NEW d \in Dates,
         ~(req[w].row.from <= d /\ d <= req[w].row.to), NEW tg, tg = req[w].target, tg \notin raced',
         NEW s
  PROVE  Serves(tg, d, s) <=> Serves(tg, d, s)'
<1>1. PICK r, a, rows, new : r = req[w] /\ a = r.row /\ rows = r.rows /\ new = asg'
  OBVIOUS
<1>2. r.op = "create" /\ r.locked /\ \A i \in rows : ~StartsInside(a, i)
  BY <1>1 DEF CommitCreate
<1>3. a \in Wanted /\ a \in Assignment /\ a.from \in Nat /\ a.to \in Nat /\ a.from <= a.to
  BY <1>1, <1>2, RequestType, WantedType, RowDates
<1>4. a.target = tg /\ rows = Live(tg) /\ rows \subseteq Ids /\ Tidy(tg)
  BY <1>1, <1>2, CreateEffect DEF IInv, Read, Creating, Live
<1>5. d \in Nat /\ (d < a.from \/ a.to < d)
  BY <1>1, <1>3, Dating
<1>0. PICK order \in OldestFirst(Outlasts(a, rows)) : new = Split(a, rows, order)
  BY <1>1 DEF CommitCreate
<1>6. /\ \A i \in Ids : i \in DOMAIN new /\ new[i] = Shortened(a, rows, i)
      /\ new[Len(new)] = a
      /\ \A k \in DOMAIN new : k \in Ids \/ k = Len(new)
           \/ \E m \in DOMAIN order : k = Len(asg) + m /\ new[k] = Remains(a, order[m])
      /\ \A m \in DOMAIN order : /\ Len(asg) + m \in DOMAIN new
                                 /\ new[Len(asg) + m] = Remains(a, order[m])
  BY <1>0, <1>3, <1>4, SplitShape
<1>7. ASSUME NEW i \in rows
      PROVE  /\ asg[i] \in Assignment /\ asg[i].from \in Nat /\ asg[i].to \in Nat
             /\ asg[i].live /\ asg[i].target = a.target
  BY <1>4, TableType, RowDates DEF Live
<1>8. ASSUME NEW i \in rows
      PROVE  /\ new[i].shift = asg[i].shift /\ new[i].target = a.target /\ new[i].live
             /\ new[i].from = asg[i].from /\ new[i].to <= asg[i].to /\ new[i].to \in Nat
             /\ Covers(a, i) => new[i].to = a.from - 1
             /\ ~Covers(a, i) => new[i] = asg[i]
  <2>1. PICK x : x = Shortened(a, rows, i)
    OBVIOUS
  <2>2. /\ x.from = asg[i].from /\ x.target = asg[i].target /\ x.live = asg[i].live
        /\ x.shift = asg[i].shift /\ x.to \in Nat /\ x.to <= asg[i].to
        /\ Covers(a, i) => x.to = a.from - 1
    BY <1>2, <1>3, <1>4, <2>1, ShortenedApart DEF IInv
  <2>3. ~Covers(a, i) => x = asg[i]
    BY <2>1 DEF Shortened
  <2>. QED
    BY <1>4, <1>6, <1>7, <2>1, <2>2, <2>3
<1>9. ASSUME NEW i \in Ids, i \notin rows
      PROVE  new[i] = asg[i] /\ ~(asg[i].live /\ asg[i].target = tg)
  BY <1>4, <1>6, <1>9 DEF Shortened, Live
<1>10. ASSUME NEW c \in rows, NEW z, z = Remains(a, c)
       PROVE  /\ z.live /\ z.target = tg /\ z.from = a.to + 1 /\ z.to = asg[c].to
              /\ z.shift = asg[c].shift
  BY <1>4, <1>7, <1>10 DEF Assignment, Remains
<1>11. Ids' = DOMAIN new
  BY <1>1 DEF Ids
<1>12. ASSUME NEW i \in Matches(tg, d), asg[i].shift = s PROVE Serves(tg, d, s)'
  <2>0. i \in rows /\ asg[i].from <= d /\ d <= asg[i].to
    BY <1>4 DEF Matches
  <2>2. CASE ~Covers(a, i) \/ d < a.from
    <3>1. /\ i \in DOMAIN new /\ new[i].live /\ new[i].target = tg /\ new[i].shift = s
          /\ new[i].from <= d
      BY <1>4, <1>6, <1>8, <1>12, <2>0
    <3>2. d <= new[i].to
      BY <1>3, <1>5, <1>8, <2>0, <2>2
    <3>. QED
      BY <1>1, <1>11, <3>1, <3>2 DEF Serves, Matches, Live
  <2>3. CASE Covers(a, i) /\ a.to < d
    <3>1. asg[i].to > a.to /\ i \in Outlasts(a, rows)
      BY <1>3, <1>5, <1>7, <2>0, <2>3 DEF Outlasts
    <3>2. PICK m \in DOMAIN order : order[m] = i
      BY <1>3, <1>4, <3>1, OneRemains DEF IInv
    <3>3. PICK k \in DOMAIN new : new[k] = Remains(a, i)
      BY <1>6, <3>2
    <3>4. /\ new[k].live /\ new[k].target = tg /\ new[k].from = a.to + 1 /\ new[k].to = asg[i].to
          /\ new[k].shift = s
      BY <1>10, <1>12, <2>0, <3>3
    <3>5. new[k].from <= d /\ d <= new[k].to
      BY <1>3, <1>5, <2>0, <2>3, <3>4
    <3>. QED
      BY <1>1, <1>11, <3>4, <3>5 DEF Serves, Matches, Live
  <2>. QED
    BY <1>5, <2>2, <2>3
<1>13. ASSUME NEW k \in DOMAIN new, new[k].live, new[k].target = tg, new[k].from <= d, d <= new[k].to,
              new[k].shift = s
       PROVE  Serves(tg, d, s)
  <2>1. CASE k \in Ids /\ k \notin rows
    BY <1>9, <1>13, <2>1
  <2>2. CASE k \in rows
    <3>1. /\ k \in Ids /\ asg[k].live /\ asg[k].target = tg /\ asg[k].shift = s
          /\ asg[k].from <= d
      BY <1>4, <1>7, <1>8, <1>13, <2>2
    <3>2. d <= asg[k].to
      BY <1>5, <1>7, <1>8, <1>13, <2>2
    <3>. QED
      BY <3>1, <3>2 DEF Serves, Matches, Live
  <2>3. CASE k = Len(new)
    BY <1>3, <1>5, <1>6, <1>13, <2>3
  <2>4. CASE k \notin Ids /\ k # Len(new)
    <3>1. PICK m \in DOMAIN order : new[k] = Remains(a, order[m])
      BY <1>6, <2>4
    <3>2. PICK c \in rows : c = order[m] /\ Covers(a, c) /\ asg[c].to > a.to
      <4>1. order[m] \in Outlasts(a, rows)
        BY <1>3, <1>4, RestType
      <4>. QED
        BY <4>1 DEF Outlasts
    <3>3. new[k].from = a.to + 1 /\ new[k].to = asg[c].to /\ new[k].shift = asg[c].shift
      BY <1>10, <3>1, <3>2
    <3>4. asg[c].from <= d /\ d <= asg[c].to
      BY <1>3, <1>5, <1>7, <1>13, <3>2, <3>3 DEF Covers
    <3>. QED
      BY <1>4, <1>13, <3>3, <3>4 DEF Serves, Matches
  <2>. QED
    BY <2>1, <2>2, <2>3, <2>4
<1>14. Serves(tg, d, s) => Serves(tg, d, s)'
  BY <1>12 DEF Serves
<1>15. Serves(tg, d, s)' => Serves(tg, d, s)
  <2>1. Serves(tg, d, s)' => \E k \in DOMAIN new : /\ new[k].live /\ new[k].target = tg /\ new[k].from <= d
                                                 /\ d <= new[k].to /\ new[k].shift = s
    BY <1>1, <1>11 DEF Serves, Matches, Live
  <2>. QED
    BY <1>13, <2>1
<1>. QED
  BY <1>14, <1>15

\* An end moves the dates after it, or after the end it was asked for: where the row has been cut
\* since, the assignment that cut it stands in the way.
LEMMA EndServes ==
  ASSUME TypeOK, IInv, CutsFollowed, NEW w \in Admins \ overtaken, CommitEnd(w), NEW d \in Dates,
         d <= req[w].to, d <= req[w].row.to, NEW tg, tg = req[w].target, tg \notin raced', NEW s
  PROVE  Serves(tg, d, s) <=> Serves(tg, d, s)'
<1>1. PICK r, n : r = req[w] /\ n = r.id
  OBVIOUS
<1>2. r.op = "end" /\ ~Overlaps(r)
  BY <1>1 DEF CommitEnd
<1>3. r.row \in Assignment /\ r.to \in Dates /\ r.row.to \in Nat /\ r.to \in Nat /\ d \in Nat
  BY <1>1, <1>2, RequestType, RowDates, Dating
<1>4. /\ Kept /\ Ids' = Ids /\ n \in Ids /\ asg[n].target = tg /\ r.rows = Live(tg) /\ asg[n].live
      /\ asg'[n].live /\ asg'[n].to = r.to
      /\ \A i \in Ids : i # n => asg'[i] = asg[i]
  BY <1>1, EndEffect
<1>5. r.row.from = asg[n].from /\ r.row.from <= r.to
  BY <1>1, <1>2 DEF IInv, Read, Ending, Known
<1>6. asg[n].from \in Nat /\ asg[n].to \in Nat /\ asg[n].from <= asg[n].to
  BY <1>4, TableType, RowDates DEF IInv, Ordered
<1>7. d <= asg[n].to
  <2>1. CASE asg[n].to = r.row.to
    BY <1>1, <2>1
  <2>2. CASE \E j \in Ids : /\ asg[j].live /\ asg[j].target = r.target /\ asg[j].from = asg[n].to + 1
    <3>1. PICK j \in Ids : /\ asg[j].live /\ asg[j].target = r.target /\ asg[j].from = asg[n].to + 1
      BY <2>2
    <3>2. j \in r.rows \ {r.id}
      BY <1>1, <1>4, <1>6, <3>1 DEF Live
    <3>3. ~(asg[j].from > r.row.from /\ r.to >= asg[j].from)
      BY <1>2, <3>2 DEF Overlaps
    <3>. QED
      BY <1>1, <1>3, <1>5, <1>6, <3>1, <3>3
  <2>. QED
    BY <1>1, <1>2, <2>1, <2>2 DEF CutsFollowed, Followed
<1>8. \A i \in Ids : i \in Matches(tg, d) <=> i \in Matches(tg, d)'
  <2>1. d <= r.to
    BY <1>1
  <2>2. asg'[n].from = asg[n].from /\ asg'[n].target = asg[n].target
    BY <1>4 DEF Kept
  <2>. QED
    BY <1>4, <1>7, <2>1, <2>2 DEF Matches, Live
<1>9. Matches(tg, d) \subseteq Ids /\ Matches(tg, d)' \subseteq Ids
  BY <1>4 DEF Matches, Live
<1>. QED
  BY <1>4, <1>8, <1>9 DEF Serves, Kept

\* A deletion leaves the dates before its row as they are.
LEMMA DeleteServes ==
  ASSUME TypeOK, IInv, NEW w \in Admins, CommitDelete(w), NEW d \in Dates,
         ~(req[w].row.from <= d), NEW tg, NEW s
  PROVE  Serves(tg, d, s) <=> Serves(tg, d, s)'
<1>1. PICK n, target : n = req[w].id /\ target = req[w].target
  OBVIOUS
<1>2. /\ Ids' = Ids /\ Kept /\ n \in Ids /\ asg[n].from = req[w].row.from /\ ~asg'[n].live
      /\ \A i \in Ids : i # n => asg'[i] = asg[i]
  BY <1>1, DeleteEffect
<1>3. \A i \in Ids : i \in Matches(tg, d) <=> i \in Matches(tg, d)'
  BY <1>1, <1>2 DEF Matches, Live
<1>4. Matches(tg, d) \subseteq Ids /\ Matches(tg, d)' \subseteq Ids
  BY <1>2 DEF Matches, Live
<1>. QED
  BY <1>2, <1>3, <1>4 DEF Serves, Kept

\* All targets have the shifts they had when that of the request has.
LEMMA SameElsewhere ==
  ASSUME TypeOK, TypeOK', Kept, NEW target, Within(target), NEW d \in Dates,
         Tidy(target), Tidy(target)', \A s : Serves(target, d, s) <=> Serves(target, d, s)'
  PROVE  ResolveShift(d)' = ResolveShift(d)
<1>1. SameAt(target, d)
  BY TidySame
<1>2. ASSUME NEW tg \in Targets, tg # target PROVE SameAt(tg, d)
  BY <1>2, OthersSame
<1>. QED
  BY <1>1, <1>2, SameShift

LEMMA AskedStep ==
  ASSUME TypeOK, IInv, CutsFollowed, [Next]_vars, asg' # asg,
         NEW w \in Admins \ overtaken, req'[w] # req[w], NEW target, target = req[w].target,
         target \notin raced', NEW d \in Dates, ResolveShift(d)' # ResolveShift(d)
  PROVE  Asked(w, d)
<1>1. TypeOK' /\ IInv'
  BY TypeStep, IInvStep DEF IInv
<1>2. CommitCreate(w) \/ CommitEnd(w) \/ CommitDelete(w)
  <2>1. PICK v \in Admins : CommitCreate(v) \/ CommitEnd(v) \/ CommitDelete(v)
    BY DEF Next, AskCreate, LockTarget, RefuseCreate, AskEnd, AskDelete, AskShift, RefuseEnd,
           SaveShift, NextDay, Ask, Send, vars
  <2>2. \A u \in Admins \ {v} : req'[u] = req[u]
    BY <2>1 DEF CommitCreate, CommitEnd, CommitDelete, Done, TypeOK
  <2>. QED
    BY <2>1, <2>2
<1>3. Tidy(target)'
  <2>1. OverlapIsRaced'
    BY <1>1 DEF IInv
  <2>. QED
    BY <2>1 DEF OverlapIsRaced, Tidy, Live
<1>4. CASE CommitCreate(w)
  <2>1. req[w].op = "create"
    BY <1>4 DEF CommitCreate
  <2>2. Kept /\ Within(target) /\ Tidy(target)
    BY <1>4, CreateEffect
  <2>3. req[w].row.from <= d /\ d <= req[w].row.to
    <3>. SUFFICES ASSUME ~(req[w].row.from <= d /\ d <= req[w].row.to) PROVE FALSE
      OBVIOUS
    <3>1. \A s : Serves(target, d, s) <=> Serves(target, d, s)'
      BY <1>4, CreateServes
    <3>. QED
      BY <1>1, <1>3, <2>2, <3>1, SameElsewhere
  <2>. QED
    BY <2>1, <2>3 DEF Asked
<1>5. CASE CommitEnd(w)
  <2>1. req[w].op = "end"
    BY <1>5 DEF CommitEnd
  <2>2. Kept /\ Within(target) /\ Tidy(target)
    BY <1>5, EndEffect
  <2>3. ~(d <= req[w].to /\ d <= req[w].row.to)
    <3>. SUFFICES ASSUME d <= req[w].to, d <= req[w].row.to PROVE FALSE
      OBVIOUS
    <3>1. \A s : Serves(target, d, s) <=> Serves(target, d, s)'
      BY <1>5, EndServes
    <3>. QED
      BY <1>1, <1>3, <2>2, <3>1, SameElsewhere
  <2>4. d \in Nat /\ req[w].to \in Nat /\ req[w].row.to \in Nat
    BY <2>1, RequestType, RowDates, Dating
  <2>5. d > req[w].to \/ d > req[w].row.to
    BY <2>3, <2>4
  <2>. QED
    BY <2>1, <2>5 DEF Asked
<1>6. CASE CommitDelete(w)
  <2>1. req[w].op = "delete"
    BY <1>6 DEF CommitDelete
  <2>2. Kept /\ Within(target) /\ raced' = raced
    BY <1>6, DeleteEffect
  <2>3. Tidy(target)
    BY <2>2 DEF IInv, OverlapIsRaced, Tidy, Live
  <2>4. req[w].row.from <= d
    <3>. SUFFICES ASSUME ~(req[w].row.from <= d) PROVE FALSE
      OBVIOUS
    <3>1. \A s : Serves(target, d, s) <=> Serves(target, d, s)'
      BY <1>6, DeleteServes
    <3>. QED
      BY <1>1, <1>3, <2>2, <2>3, <3>1, SameElsewhere
  <2>. QED
    BY <2>1, <2>4 DEF Asked
<1>. QED
  BY <1>2, <1>4, <1>5, <1>6

\* A request moves the employee's shift on the dates it was asked to decide only, however many are
\* under way: a temporary assignment gives the assignment it splits back on the day after it, and a
\* request that ends a row which has been split meanwhile does not undo the split.  Excepted are a
\* target with a raced history and an end that was overtaken (update_assignment saves the whole row).
THEOREM OnlyAskedDatesChange == Spec => ChangesAreAsked
<1>. DEFINE J == TypeOK /\ IInv /\ CutsFollowed
            Step == asg' # asg =>
                      \A w \in Admins \ overtaken :
                        req'[w] # req[w] /\ req[w].target \notin raced'
                          => \A d \in Dates : ResolveShift(d)' # ResolveShift(d) => Asked(w, d)
<1>1. Init => J
  <2>1. Init => CutsFollowed
    BY DEF Init, CutsFollowed, NoneYet
  <2>. QED
    BY <2>1, TypeInit, InitIInv
<1>2. J /\ [Next]_vars => J'
  <2>1. J /\ [Next]_vars => TypeOK'
    BY TypeStep DEF IInv
  <2>. QED
    BY <2>1, IInvStep, CutsStep
<1>3. J /\ [Next]_vars => [Step]_vars
  BY AskedStep
<1>. HIDE DEF J
<1>. QED
  BY <1>1, <1>2, <1>3, PTL DEF Spec, ChangesAreAsked
=============================================================================
