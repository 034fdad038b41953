-------------------------- MODULE CollectorProofs --------------------------
(***************************************************************************)
(* Proofs about Collector: the type invariant, and that no punch falls     *)
(* between the buffer and the watermark (ReachKept), for any number of     *)
(* punches, failures and restarts, any batch size and any look-back, as    *)
(* long as rows are written within the overlap (LagAssumption).            *)
(*                                                                         *)
(* ReachKept is not inductive.  Why no row appears behind the watermark    *)
(* takes two more facts: no row is further ahead of the clock than Ahead   *)
(* (RowsNotAhead), so the watermark, Overlap behind the newest row, is at  *)
(* least Late behind the clock (WatermarkBehind) unless it never moved.    *)
(*                                                                         *)
(* The last part proves that Collector implements PunchLedger, with the    *)
(* mapping Row; the invariant it takes is that what is stored was written  *)
(* (StoredWritten).                                                        *)
(***************************************************************************)
EXTENDS Collector, FiniteSetTheorems, TLAPS

RowsNotAhead == \A p \in log : Time[p] <= now + Ahead

WatermarkBehind == watermark <= since \/ watermark <= now + Ahead - Overlap

IInv == TypeOK /\ RowsNotAhead /\ WatermarkBehind /\ ReachKept

----------------------------------------------------------------------------
(* The buffer. *)

\* A reading of a set is a sequence of its elements, each once.
LEMMA ReadingIsSequence ==
  ASSUME NEW S, IsFiniteSet(S), NEW s \in OldestFirst(S)
  PROVE  /\ s \in Seq(S)
         /\ \A p \in S : \E i \in DOMAIN s : s[i] = p
         /\ \A i, j \in DOMAIN s : i # j => s[i] # s[j]
<1>1. Cardinality(S) \in Nat
  BY FS_CardinalityType
<1>2. s \in [1 .. Cardinality(S) -> S]
  BY DEF OldestFirst
<1>3. s \in Seq(S)
  BY <1>1, <1>2
<1>4. \A i, j \in DOMAIN s : i < j => s[i] # s[j]
  BY DEF OldestFirst
<1>5. \A i, j \in DOMAIN s : i # j => s[i] # s[j]
  <2>1. TAKE i, j \in DOMAIN s
  <2>2. i \in Int /\ j \in Int
    BY <1>1, <1>2
  <2>. QED
    BY <1>4, <2>1, <2>2
<1>. QED
  BY <1>3, <1>5 DEF OldestFirst

\* A punch that is not in the batch is still in the buffer after it left.
LEMMA RestIsKept ==
  ASSUME TypeOK, NEW p \in Buffered, p \notin Batch
  PROVE  LET rest == SubSeq(pending, BatchLength + 1, Len(pending))
         IN  \E i \in DOMAIN rest : rest[i] = p
<1>. DEFINE rest == SubSeq(pending, BatchLength + 1, Len(pending))
<1>1. pending \in Seq(log) /\ Len(pending) \in Nat
  BY DEF TypeOK
<1>2. BatchLength \in Nat /\ BatchLength <= Len(pending)
  BY <1>1, ConfigAssumption DEF BatchLength
<1>3. PICK i \in 1 .. Len(pending) : pending[i] = p
  BY <1>1 DEF Buffered
<1>4. i \notin 1 .. BatchLength
  BY <1>3 DEF Batch
<1>5. /\ i - BatchLength \in 1 .. Len(rest)
      /\ rest[i - BatchLength] = p
  BY <1>1, <1>2, <1>3, <1>4
<1>6. rest \in Seq(log)
  BY <1>1, <1>2
<1>. QED
  BY <1>5, <1>6

LEMMA BatchInLog == TypeOK => Batch \subseteq log /\ Buffered \subseteq log
<1>. SUFFICES ASSUME TypeOK PROVE Batch \subseteq log /\ Buffered \subseteq log
  OBVIOUS
<1>1. pending \in Seq(log) /\ Len(pending) \in Nat
  BY DEF TypeOK
<1>2. BatchLength \in Nat /\ BatchLength <= Len(pending)
  BY <1>1, ConfigAssumption DEF BatchLength
<1>. QED
  BY <1>1, <1>2 DEF Batch, Buffered

\* Storing a batch leaves the ledger a ledger, and takes nothing out of it.
LEMMA StoredType ==
  ASSUME TypeOK, NEW b
  PROVE  /\ Stored(b) \in [Punches -> Ledger]
         /\ \A p \in Punches : ledger[p] # "none" => Stored(b)[p] # "none"
BY DEF TypeOK, Stored, Ledger

----------------------------------------------------------------------------
(* Type correctness. *)

LEMMA TypeInit == Init => TypeOK
<1>. SUFFICES ASSUME Init PROVE TypeOK
  OBVIOUS
<1>1. pending = <<>> /\ pending \in Seq(log) /\ DOMAIN pending = {}
  BY DEF Init
<1>2. now \in 0 .. LastTime /\ faults \in 0 .. MaxFaults /\ since \in Int /\ watermark \in Int
  BY BoundAssumption DEF Init
<1>3. ledger \in [Punches -> Ledger] /\ registered \in BOOLEAN /\ phase \in Phases
  BY DEF Init, Ledger, Phases
<1>4. log \subseteq Punches /\ late \subseteq SUBSET log
  BY DEF Init
<1>. QED
  BY <1>1, <1>2, <1>3, <1>4 DEF TypeOK

LEMMA TypeStep == TypeOK /\ [Next]_vars => TypeOK'
<1>. SUFFICES ASSUME TypeOK, [Next]_vars PROVE TypeOK'
  OBVIOUS
<1>. USE DEF TypeOK
<1>1. CASE Tick
  BY <1>1, BoundAssumption DEF Tick, agent
<1>2. CASE Register
  BY <1>2 DEF Register, agent
<1>3. ASSUME NEW p \in Punches, Write(p) PROVE TypeOK'
  <2>1. log' = log \cup {p} /\ pending' = pending /\ late' = late
    BY <1>3 DEF Write, agent
  <2>2. pending' \in Seq(log')
    BY <2>1
  <2>3. late' \subseteq SUBSET log'
    BY <2>1
  <2>. QED
    BY <1>3, <2>1, <2>2, <2>3 DEF Write, agent
<1>4. CASE Start
  <2>1. since' \in Int
    BY <1>4, ConfigAssumption DEF Start
  <2>2. pending' = <<>> /\ pending' \in Seq(log') /\ DOMAIN pending' = {}
    BY <1>4 DEF Start
  <2>. QED
    BY <1>4, <2>1, <2>2 DEF Start, Phases
<1>5. CASE Fetch
  <2>1. PICK s \in OldestFirst(Unqueued) : pending' = pending \o s
    BY <1>5 DEF Fetch
  <2>2. IsFiniteSet(Unqueued) /\ Unqueued \subseteq log
    BY FS_Subset, TimeAssumption DEF Unqueued, Fetched
  <2>3. /\ s \in Seq(Unqueued)
        /\ \A i, j \in DOMAIN s : i # j => s[i] # s[j]
    BY <2>2, ReadingIsSequence
  <2>4. pending' \in Seq(log)
    BY <2>1, <2>2, <2>3
  <2>5. \A i \in DOMAIN pending, j \in DOMAIN s : pending[i] # s[j]
    <3>1. \A j \in DOMAIN s : s[j] \in Unqueued
      BY <2>3
    <3>. QED
      BY <3>1 DEF Unqueued, Buffered
  <2>6. \A i, j \in DOMAIN pending' : i # j => pending'[i] # pending'[j]
    <3>. DEFINE n == Len(pending)
    <3>1. n \in Nat /\ Len(s) \in Nat /\ Len(pending') = n + Len(s)
      BY <2>1, <2>3
    <3>2. /\ DOMAIN pending = 1 .. n /\ DOMAIN s = 1 .. Len(s)
          /\ DOMAIN pending' = 1 .. n + Len(s)
      BY <2>1, <2>3
    <3>3. \A i \in 1 .. n + Len(s) : pending'[i] = IF i <= n THEN pending[i] ELSE s[i - n]
      BY <2>1, <2>3, <3>1
    <3>4. \A i \in 1 .. n + Len(s) : (i <= n => i \in 1 .. n) /\ (~(i <= n) => i - n \in 1 .. Len(s))
      BY <3>1
    <3>. HIDE DEF n
    <3>5. TAKE i, j \in DOMAIN pending'
    <3>6. HAVE i # j
    <3>7. i \in Int /\ j \in Int
      BY <3>1, <3>2
    <3>8. i - n # j - n
      BY <3>1, <3>6, <3>7
    <3>. QED
      BY <2>3, <2>5, <3>2, <3>3, <3>4, <3>5, <3>6, <3>8
  <2>7. watermark' \in Int
    BY <1>5, TimeAssumption, ConfigAssumption DEF Fetch, Fetched, Moved
  <2>. QED
    BY <1>5, <2>4, <2>6, <2>7 DEF Fetch, Phases
<1>6. CASE Send
  BY <1>6 DEF Send, Phases
<1>7. CASE Reply
  <2>. DEFINE rest == SubSeq(pending, BatchLength + 1, Len(pending))
  <2>1. BatchLength \in Nat /\ BatchLength <= Len(pending) /\ Len(pending) \in Nat
    BY ConfigAssumption DEF BatchLength
  <2>2. rest \in Seq(log)
    BY <2>1
  <2>3. \A i \in DOMAIN rest : /\ i \in Nat
                               /\ i + BatchLength \in DOMAIN pending
                               /\ rest[i] = pending[i + BatchLength]
    BY <2>1
  <2>4. \A i, j \in DOMAIN rest : i # j => rest[i] # rest[j]
    BY <2>1, <2>3
  <2>5. pending' = rest
    BY <1>7 DEF Reply
  <2>6. ledger' \in [Punches -> Ledger]
    BY <1>7, StoredType DEF Reply
  <2>. HIDE DEF rest
  <2>. QED
    BY <1>7, <2>2, <2>4, <2>5, <2>6 DEF Reply, Phases
<1>8. CASE Fail
  <2>1. ledger' \in [Punches -> Ledger]
    BY <1>8, StoredType DEF Fail
  <2>. QED
    BY <1>8, <2>1, BoundAssumption DEF Fail, Fault, Phases
<1>9. CASE Timeout
  BY <1>9, BatchInLog, BoundAssumption DEF Timeout, Fault, Phases
<1>10. CASE Arrive
  <2>1. ledger' \in [Punches -> Ledger]
    BY <1>10, StoredType DEF Arrive
  <2>. QED
    BY <1>10, <2>1 DEF Arrive, agent
<1>11. CASE Crash
  <2>1. pending' = <<>> /\ pending' \in Seq(log') /\ DOMAIN pending' = {}
    BY <1>11 DEF Crash
  <2>2. late' \subseteq SUBSET log'
    BY <1>11, BatchInLog DEF Crash
  <2>3. faults' \in 0 .. MaxFaults
    BY <1>11, BoundAssumption DEF Crash, Fault
  <2>. QED
    BY <1>11, <2>1, <2>2, <2>3 DEF Crash, Phases
<1>12. CASE UNCHANGED vars
  BY <1>12 DEF vars, agent
<1>. QED
  BY <1>1, <1>2, <1>3, <1>4, <1>5, <1>6, <1>7, <1>8, <1>9, <1>10, <1>11, <1>12 DEF Next

\* Every table, buffer and counter of Collector keeps its type, and no punch is
\* queued twice: pending is keyed by external_punch_id.
THEOREM TypeCorrect == Spec => []TypeOK
BY TypeInit, TypeStep, PTL DEF Spec

----------------------------------------------------------------------------
(* The inductive invariant. *)

LEMMA ReachInit == Init => IInv
BY TypeInit DEF Init, IInv, RowsNotAhead, WatermarkBehind, ReachKept

\* No row is read that is further ahead than the clock allows.
LEMMA FetchMoves ==
  ASSUME TypeOK, RowsNotAhead, WatermarkBehind, Fetch
  PROVE  /\ WatermarkBehind'
         /\ watermark' >= watermark
<1>1. CASE Fetched = {}
  BY <1>1 DEF Fetch, WatermarkBehind, TypeOK
<1>2. CASE Fetched # {}
  <2>1. PICK p \in Fetched : watermark' = Moved(Time[p])
    BY <1>2 DEF Fetch
  <2>2. Time[p] \in Nat /\ Time[p] <= now + Ahead
    BY TimeAssumption DEF Fetched, TypeOK, RowsNotAhead
  <2>3. now \in Int /\ watermark \in Int /\ since \in Int
    BY BoundAssumption DEF TypeOK
  <2>. QED
    BY <2>1, <2>2, <2>3, LagAssumption, ConfigAssumption DEF Moved, WatermarkBehind, Fetch
<1>. QED
  BY <1>1, <1>2

\* The three facts about the clock and the watermark.
LEMMA ClockStep == TypeOK /\ RowsNotAhead /\ WatermarkBehind /\ [Next]_vars
                     => RowsNotAhead' /\ WatermarkBehind'
<1>. SUFFICES ASSUME TypeOK, RowsNotAhead, WatermarkBehind, [Next]_vars
              PROVE  RowsNotAhead' /\ WatermarkBehind'
  OBVIOUS
<1>1. /\ now \in Int /\ watermark \in Int /\ since \in Int /\ log \subseteq Punches
      /\ \A p \in Punches : Time[p] \in Nat
      /\ Ahead \in Nat /\ Overlap \in Nat
  BY TimeAssumption, LagAssumption, ConfigAssumption, BoundAssumption DEF TypeOK
<1>. USE <1>1 DEF RowsNotAhead, WatermarkBehind
<1>2. CASE Tick
  BY <1>2 DEF Tick, agent
<1>3. ASSUME NEW p \in Punches, Write(p) PROVE RowsNotAhead' /\ WatermarkBehind'
  BY <1>3 DEF Write, agent
<1>4. CASE Start
  BY <1>4, ConfigAssumption DEF Start
<1>5. CASE Fetch
  BY <1>5, FetchMoves DEF Fetch
<1>6. CASE Register \/ Send \/ Reply \/ Fail \/ Timeout \/ Arrive \/ Crash \/ UNCHANGED vars
  BY <1>6 DEF Register, Send, Reply, Fail, Timeout, Arrive, Crash, vars, agent
<1>. QED
  BY <1>2, <1>3, <1>4, <1>5, <1>6 DEF Next

LEMMA ReachStep == IInv /\ [Next]_vars => ReachKept'
<1>. SUFFICES ASSUME IInv, [Next]_vars, (phase # "off")',
                     NEW p \in log', Time[p] >= since'
              PROVE  (ledger[p] # "none" \/ p \in Buffered \/ Time[p] >= watermark \/ TooOld(p))'
  BY DEF ReachKept
<1>. USE DEF IInv
<1>1. /\ now \in Int /\ watermark \in Int /\ since \in Int /\ log \subseteq Punches
      /\ \A q \in Punches : Time[q] \in Nat
      /\ Late \in Nat /\ Ahead \in Nat /\ Overlap \in Nat /\ MaxAge \in Nat /\ MaxSkew \in Nat
      /\ Late + Ahead <= Overlap /\ Ahead <= MaxSkew
  BY TimeAssumption, LagAssumption, ConfigAssumption, BoundAssumption DEF TypeOK
<1>. DEFINE Kept == ledger[p] # "none" \/ p \in Buffered \/ Time[p] >= watermark \/ TooOld(p)
<1>2. p \in Punches
  BY TypeStep DEF TypeOK
<1>3. ASSUME phase # "off", p \in log, since' = since PROVE Kept
  BY <1>3 DEF ReachKept
<1>4. CASE Tick
  BY <1>1, <1>2, <1>3, <1>4 DEF Tick, agent, TooOld, Buffered
<1>5. CASE Register \/ UNCHANGED vars
  BY <1>3, <1>5 DEF Register, vars, agent, TooOld, Buffered
<1>6. ASSUME NEW q \in Punches, Write(q) PROVE Kept'
  <2>1. CASE p = q
    \* The row is new: late by Late at most, it is not behind the watermark.
    <3>1. Time[p] >= now - Late
      BY <1>6, <2>1 DEF Write
    <3>2. Time[p] >= since /\ watermark' = watermark
      BY <1>6 DEF Write, agent
    <3>. QED
      BY <1>1, <1>2, <3>1, <3>2 DEF WatermarkBehind
  <2>2. CASE p # q
    BY <1>3, <1>6, <2>2 DEF Write, agent, TooOld, Buffered
  <2>. QED
    BY <2>1, <2>2
<1>7. CASE Start
  BY <1>1, <1>7 DEF Start
<1>8. CASE Fetch
  <2>1. Kept
    BY <1>3, <1>8 DEF Fetch
  <2>2. PICK s \in OldestFirst(Unqueued) : pending' = pending \o s
    BY <1>8 DEF Fetch
  <2>3. IsFiniteSet(Unqueued) /\ Unqueued \subseteq log
    BY <1>1, FS_Subset, TimeAssumption DEF Unqueued, Fetched
  <2>4. /\ s \in Seq(Unqueued)
        /\ \A q \in Unqueued : \E i \in DOMAIN s : s[i] = q
    BY <2>3, ReadingIsSequence
  <2>5. pending \in Seq(log)
    BY DEF TypeOK
  <2>6. \A i \in DOMAIN pending : i \in DOMAIN pending' /\ pending'[i] = pending[i]
    BY <2>2, <2>4, <2>5
  <2>7. \A i \in DOMAIN s : /\ Len(pending) + i \in DOMAIN pending'
                            /\ pending'[Len(pending) + i] = s[i]
    BY <2>2, <2>4, <2>5
  <2>8. CASE p \in Buffered
    BY <2>6, <2>8 DEF Buffered
  <2>9. CASE p \in Unqueued
    BY <2>4, <2>7, <2>9 DEF Buffered
  <2>10. CASE p \notin Buffered /\ p \notin Unqueued
    BY <1>8, <2>1, <2>10 DEF Fetch, Unqueued, Fetched, TooOld
  <2>. QED
    BY <2>8, <2>9, <2>10
<1>9. CASE Send
  BY <1>3, <1>9 DEF Send, TooOld, Buffered
<1>10. CASE Reply
  <2>1. Kept /\ p \in log
    BY <1>3, <1>10 DEF Reply
  <2>2. CASE p \in Batch
    \* Stored, unless the server turned it away: not for being in the future.
    <3>1. Valid(p) => Stored(Batch)[p] # "none"
      BY <1>2, <2>2 DEF Stored
    <3>2. Time[p] <= now + MaxSkew
      BY <1>1, <1>2, <2>1 DEF RowsNotAhead
    <3>3. ~Valid(p) => TooOld(p)
      BY <1>1, <1>2, <3>2 DEF Valid, TooOld
    <3>. QED
      BY <1>10, <3>1, <3>3 DEF Reply, TooOld
  <2>3. CASE p \notin Batch
    <3>1. ledger[p] # "none" => ledger'[p] # "none"
      BY <1>2, <1>10, StoredType DEF Reply
    <3>2. p \in Buffered => p \in Buffered'
      BY <1>10, <2>3, RestIsKept DEF Reply, Buffered
    <3>. QED
      BY <1>10, <2>1, <3>1, <3>2 DEF Reply, TooOld
  <2>. QED
    BY <2>2, <2>3
<1>11. CASE Fail
  <2>1. ledger[p] # "none" => ledger'[p] # "none"
    BY <1>2, <1>11, StoredType DEF Fail
  <2>. QED
    BY <1>3, <1>11, <2>1 DEF Fail, TooOld, Buffered
<1>12. CASE Timeout
  BY <1>3, <1>12 DEF Timeout, TooOld, Buffered
<1>13. CASE Arrive
  <2>1. ledger[p] # "none" => ledger'[p] # "none"
    BY <1>2, <1>13, StoredType DEF Arrive
  <2>. QED
    BY <1>3, <1>13, <2>1 DEF Arrive, agent, TooOld, Buffered
<1>14. CASE Crash
  BY <1>14 DEF Crash
<1>. QED
  BY <1>4, <1>5, <1>6, <1>7, <1>8, <1>9, <1>10, <1>11, <1>12, <1>13, <1>14 DEF Next

\* No punch is lost between the device, the buffer and the ledger, whatever the
\* number of punches, failures, timeouts and restarts.
THEOREM ReachAlwaysKept == Spec => []ReachKept
<1>1. Init => IInv
  BY ReachInit
<1>2. IInv /\ [Next]_vars => IInv'
  BY TypeStep, ClockStep, ReachStep DEF IInv
<1>3. IInv => ReachKept
  BY DEF IInv
<1>. QED
  BY <1>1, <1>2, <1>3, PTL DEF Spec

----------------------------------------------------------------------------
(* The implementation of PunchLedger. *)

\* What is stored was written by the device: batches, on their way or waited for, are of the log.
StoredWritten == \A p \in Punches : ledger[p] # "none" => p \in log

LEMMA StoringKeepsWritten ==
  ASSUME TypeOK, StoredWritten, NEW b \in SUBSET log, ledger' = Stored(b), log' = log
  PROVE  StoredWritten'
BY DEF StoredWritten, Stored, TypeOK

LEMMA WrittenStep == TypeOK /\ StoredWritten /\ [Next]_vars => StoredWritten'
<1>. SUFFICES ASSUME TypeOK, StoredWritten, [Next]_vars PROVE StoredWritten'
  OBVIOUS
<1>1. ASSUME NEW p \in Punches, Write(p) PROVE StoredWritten'
  BY <1>1 DEF Write, StoredWritten
<1>2. CASE Reply
  BY <1>2, BatchInLog, StoringKeepsWritten DEF Reply
<1>3. CASE Fail
  <2>1. PICK b \in SUBSET Batch : ledger' = Stored(b)
    BY <1>3 DEF Fail
  <2>. QED
    BY <1>3, <2>1, BatchInLog, StoringKeepsWritten DEF Fail
<1>4. CASE Arrive
  <2>1. PICK b \in late : ledger' \in {ledger, Stored(b)}
    BY <1>4 DEF Arrive
  <2>2. b \in SUBSET log /\ log' = log
    BY <1>4, <2>1 DEF Arrive, TypeOK
  <2>3. CASE ledger' = ledger
    BY <2>2, <2>3 DEF StoredWritten
  <2>. QED
    BY <2>1, <2>2, <2>3, StoringKeepsWritten
<1>5. CASE Tick \/ Register \/ Start \/ Fetch \/ Send \/ Timeout \/ Crash \/ UNCHANGED vars
  BY <1>5 DEF Tick, Register, Start, Fetch, Send, Timeout, Crash, vars, StoredWritten
<1>. QED
  BY <1>1, <1>2, <1>3, <1>4, <1>5 DEF Next

\* Storing any part of the log is a delivery of the punches it changes.
LEMMA StoringDelivers ==
  ASSUME TypeOK, StoredWritten, NEW b \in SUBSET log,
         ledger' = Stored(b), log' = log, registered' = registered
  PROVE  Delivery!Next
<1>. DEFINE S == {p \in b : Valid(p) /\ ledger[p] # "linked"}
<1>1. b \subseteq Punches
  BY DEF TypeOK
<1>2. \A p \in S : Row[p] \in {"written", "unresolved"}
  <2>1. TAKE p \in S
  <2>2. p \in Punches /\ p \in log /\ ledger[p] \in {"none", "unresolved"}
    BY <1>1, <2>1 DEF TypeOK, Ledger
  <2>. QED
    BY <2>2 DEF Row
<1>3. Row' = [p \in Punches |-> IF p \notin S THEN Row[p]
                                ELSE IF registered THEN "linked" ELSE "unresolved"]
  <2>1. ASSUME NEW p \in Punches
        PROVE  Row'[p] = IF p \notin S THEN Row[p]
                         ELSE IF registered THEN "linked" ELSE "unresolved"
    BY DEF Row, Stored
  <2>2. Row' = [p \in Punches |-> Row'[p]]
    BY DEF Row
  <2>. QED
    BY <2>1, <2>2
<1>4. S \in SUBSET Punches
  BY <1>1
<1>5. Delivery!Deliver(S)
  BY <1>2, <1>3 DEF Delivery!Deliver
<1>. QED
  BY <1>4, <1>5 DEF Delivery!Next

LEMMA DeliveryInit == Init => Delivery!Init /\ StoredWritten
BY DEF Init, Delivery!Init, Row, StoredWritten

LEMMA DeliveryStep ==
  TypeOK /\ StoredWritten /\ [Next]_vars => [Delivery!Next]_<<Row, registered>>
<1>. SUFFICES ASSUME TypeOK, StoredWritten, [Next]_vars
              PROVE  [Delivery!Next]_<<Row, registered>>
  OBVIOUS
<1>1. ASSUME NEW p \in Punches, Write(p) PROVE Delivery!Next
  <2>1. p \notin log /\ log' = log \cup {p} /\ ledger' = ledger /\ registered' = registered
    BY <1>1 DEF Write
  <2>2. ledger[p] = "none"
    BY <2>1 DEF StoredWritten
  <2>3. Row[p] = "unwritten"
    BY <2>1, <2>2 DEF Row
  <2>4. Row' = [Row EXCEPT ![p] = "written"]
    BY <2>1, <2>2 DEF Row
  <2>5. Delivery!Write(p)
    BY <2>1, <2>3, <2>4 DEF Delivery!Write
  <2>. QED
    BY <2>5 DEF Delivery!Next
<1>2. CASE Register
  <2>1. Delivery!Register
    BY <1>2 DEF Register, Delivery!Register, Row
  <2>. QED
    BY <2>1 DEF Delivery!Next
<1>3. CASE Reply
  <2>1. Delivery!Next
    BY <1>3, BatchInLog, StoringDelivers DEF Reply
  <2>. QED
    BY <2>1
<1>4. CASE Fail
  <2>1. PICK b \in SUBSET Batch : ledger' = Stored(b)
    BY <1>4 DEF Fail
  <2>2. Delivery!Next
    BY <1>4, <2>1, BatchInLog, StoringDelivers DEF Fail
  <2>. QED
    BY <2>2
<1>5. CASE Arrive
  <2>1. PICK b \in late : ledger' \in {ledger, Stored(b)}
    BY <1>5 DEF Arrive
  <2>2. b \in SUBSET log /\ log' = log /\ registered' = registered
    BY <1>5, <2>1 DEF Arrive, TypeOK
  <2>3. CASE ledger' = ledger
    BY <2>2, <2>3 DEF Row
  <2>4. CASE ledger' = Stored(b)
    <3>1. Delivery!Next
      BY <2>2, <2>4, StoringDelivers
    <3>. QED
      BY <3>1
  <2>. QED
    BY <2>1, <2>3, <2>4
<1>6. CASE Tick \/ Start \/ Fetch \/ Send \/ Timeout \/ Crash \/ UNCHANGED vars
  <2>1. log' = log /\ ledger' = ledger /\ registered' = registered
    BY <1>6 DEF Tick, Start, Fetch, Send, Timeout, Crash, vars
  <2>. QED
    BY <2>1 DEF Row
<1>. QED
  BY <1>1, <1>2, <1>3, <1>4, <1>5, <1>6 DEF Next

\* Agent, network and server together implement PunchLedger, for any set of punches, any batch
\* size and any number of failures, late deliveries and restarts.
THEOREM CollectorKeepsLedger == Spec => KeepsLedger
<1>1. Init => TypeOK /\ StoredWritten /\ Delivery!Init
  BY TypeInit, DeliveryInit
<1>2. TypeOK /\ StoredWritten /\ [Next]_vars => (TypeOK /\ StoredWritten)'
  BY TypeStep, WrittenStep
<1>3. TypeOK /\ StoredWritten /\ [Next]_vars => [Delivery!Next]_<<Row, registered>>
  BY DeliveryStep
<1>. QED
  BY <1>1, <1>2, <1>3, PTL DEF Spec, KeepsLedger, Delivery!Spec
=============================================================================
