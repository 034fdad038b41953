----------------------------- MODULE Collector -----------------------------
(***************************************************************************)
(* The external collector (collectors/attendance_agent/core.py) and the    *)
(* server it posts to, as one biometric device, one agent and the ledger   *)
(* of raw punches.  The agent keeps no database: what it has read and not  *)
(* delivered is in pending, how far it has read is the watermark, and both *)
(* are gone when its process dies.                                         *)
(*                                                                         *)
(* The server stores each punch of a batch in a transaction of its own, so *)
(* a batch that fails may be stored in part; and a request the agent no    *)
(* longer waits for may be served later, or never.  What the server does   *)
(* inside one request is AttendanceEngine's subject.                       *)
(***************************************************************************)
EXTENDS Integers, Sequences, FiniteSets

CONSTANTS
  Punches,      \* the rows the device will ever write
  Time,         \* Time[p]: the time the row of p carries
  Late, Ahead,  \* a row is written at most Late after its time, Ahead before it
  LookBack,     \* lookback_hours
  Overlap,      \* the 10 minutes the watermark stays behind
  BatchSize,    \* batch_size
  MaxSkew,      \* MAX_FUTURE_SKEW_MINUTES
  MaxAge,       \* MAX_PUNCH_AGE_DAYS
  LastTime,     \* bound: the last instant the clock reaches
  MaxFaults     \* bound: failures of the network, the server and the agent

ASSUME TimeAssumption   == IsFiniteSet(Punches) /\ Time \in [Punches -> Nat]
ASSUME LagAssumption    == /\ Late \in Nat /\ Ahead \in Nat
                           /\ Late + Ahead <= Overlap /\ Ahead <= MaxSkew
ASSUME ConfigAssumption == /\ LookBack \in Nat /\ Overlap \in Nat /\ MaxSkew \in Nat
                           /\ MaxAge \in Nat /\ BatchSize \in Nat \ {0}
ASSUME BoundAssumption  == LastTime \in Nat /\ MaxFaults \in Nat

VARIABLES
  now,
  log,         \* the rows the device has written
  ledger,      \* attv2_raw_punch
  registered,  \* the employee of these punches is an active member
  phase,       \* where the agent is
  since,       \* the start-up watermark of the running agent
  watermark, pending,
  late,        \* batches the agent gave up on and the server may still serve
  faults

agent == <<phase, since, watermark, pending>>
vars  == <<now, log, ledger, registered, agent, late, faults>>

Ledger == {"none", "unresolved", "linked"}
Phases == {"off", "poll", "send", "wait"}
Buffered == {pending[i] : i \in DOMAIN pending}

TypeOK ==
  /\ now \in 0 .. LastTime
  /\ log \subseteq Punches
  /\ ledger \in [Punches -> Ledger]
  /\ registered \in BOOLEAN
  /\ phase \in Phases
  /\ since \in Int /\ watermark \in Int
  /\ pending \in Seq(log)
  /\ \A i, j \in DOMAIN pending : i # j => pending[i] # pending[j]
  /\ late \subseteq SUBSET log
  /\ faults \in 0 .. MaxFaults

Init ==
  /\ now = 0 /\ log = {} /\ ledger = [p \in Punches |-> "none"] /\ registered = FALSE
  /\ phase = "off" /\ since = 0 /\ watermark = 0 /\ pending = <<>>
  /\ late = {} /\ faults = 0

----------------------------------------------------------------------------
(* The world. *)

Tick == /\ now < LastTime /\ now' = now + 1
        /\ UNCHANGED <<log, ledger, registered, agent, late, faults>>

\* The device, or the software in front of it, writes the row of p.
Write(p) == /\ p \notin log
            /\ now - Late <= Time[p] /\ Time[p] <= now + Ahead
            /\ log' = log \cup {p}
            /\ UNCHANGED <<now, ledger, registered, agent, late, faults>>

Register == /\ ~registered /\ registered' = TRUE
            /\ UNCHANGED <<now, log, ledger, agent, late, faults>>

----------------------------------------------------------------------------
(* The agent. *)

\* CollectorAgent.__init__.
Start ==
  /\ phase = "off" /\ phase' = "poll"
  /\ since' = now - LookBack /\ watermark' = since' /\ pending' = <<>>
  /\ UNCHANGED <<now, log, ledger, registered, late, faults>>

Fetched == {p \in log : Time[p] >= watermark}

\* The orders a set of punches may be read in: oldest first.
OldestFirst(S) ==
  {s \in [1 .. Cardinality(S) -> S] :
     /\ \A p \in S : \E i \in DOMAIN s : s[i] = p
     /\ \A i, j \in DOMAIN s : i < j => s[i] # s[j] /\ Time[s[i]] <= Time[s[j]]}

\* Mutant: the watermark follows the newest punch without the overlap.
MovedToNewest(new) == IF new > watermark THEN new ELSE watermark

\* Where the watermark moves once the newest punch fetched is of time new.
Moved(new) == IF new - Overlap > watermark THEN new - Overlap ELSE watermark

\* Mutant: every punch that is read again is queued again.
Requeued == Fetched

\* pending is keyed by external_punch_id: a punch in it keeps its place.
Unqueued == Fetched \ Buffered

\* sync_once up to the watermark.
Fetch ==
  /\ phase = "poll" /\ phase' = "send"
  /\ \E s \in OldestFirst(Unqueued) : pending' = pending \o s
  /\ IF Fetched = {} THEN UNCHANGED watermark
     ELSE \E p \in Fetched : /\ \A q \in Fetched : Time[q] <= Time[p]
                             /\ watermark' = Moved(Time[p])
  /\ UNCHANGED <<now, log, ledger, registered, since, late, faults>>

BatchLength == IF Len(pending) < BatchSize THEN Len(pending) ELSE BatchSize
Batch == {pending[i] : i \in 1 .. BatchLength}

\* The next batch goes out; an empty buffer ends the round.
Send ==
  /\ phase = "send"
  /\ phase' = IF pending = <<>> THEN "poll" ELSE "wait"
  /\ UNCHANGED <<now, log, ledger, registered, since, watermark, pending, late, faults>>

----------------------------------------------------------------------------
(* The server. *)

\* _prepare: a punch of the future, or too old a one, is an error of its own
\* and is not stored.
Valid(p) == Time[p] <= now + MaxSkew /\ Time[p] >= now - MaxAge

\* Mutant of Stored: every punch is taken for one of a known employee.
StoredLinked(b) == [p \in Punches |-> IF p \in b /\ Valid(p) THEN "linked" ELSE ledger[p]]

\* The ledger after the valid punches of b were stored or, when they were there
\* as unresolved, linked.
Stored(b) ==
  [p \in Punches |-> IF p \in b /\ Valid(p) /\ ledger[p] # "linked"
                     THEN IF registered THEN "linked" ELSE "unresolved" ELSE ledger[p]]

\* A 200: whatever became of each punch, the batch leaves the buffer.
Reply ==
  /\ phase = "wait" /\ phase' = "send"
  /\ ledger' = Stored(Batch)
  /\ pending' = SubSeq(pending, BatchLength + 1, Len(pending))
  /\ UNCHANGED <<now, log, registered, since, watermark, late, faults>>

Fault == faults < MaxFaults /\ faults' = faults + 1

\* Mutant: an error nothing catches ends the loop.
FailStops ==
  /\ phase = "wait" /\ phase' = "stopped" /\ Fault
  /\ UNCHANGED <<now, log, ledger, registered, since, watermark, pending, late>>

\* A 4xx or 429 (nothing was stored) or a 5xx (a part was); the buffer stays.
Fail ==
  /\ phase = "wait" /\ phase' = "poll" /\ Fault
  /\ \E b \in SUBSET Batch : ledger' = Stored(b)
  /\ UNCHANGED <<now, log, registered, since, watermark, pending, late>>

\* No answer within timeout_seconds: the request may still be on its way.
Timeout ==
  /\ phase = "wait" /\ phase' = "poll" /\ Fault
  /\ late' = late \cup {Batch}
  /\ UNCHANGED <<now, log, ledger, registered, since, watermark, pending>>

\* It arrives after all, or it is lost.
Arrive == \E b \in late :
  /\ late' = late \ {b}
  /\ ledger' \in {ledger, Stored(b)}
  /\ UNCHANGED <<now, log, registered, agent, faults>>

\* The agent's process dies; a batch it had sent is still on its way.
Crash ==
  /\ phase # "off" /\ phase' = "off" /\ Fault
  /\ pending' = <<>>
  /\ late' = IF phase = "wait" THEN late \cup {Batch} ELSE late
  /\ UNCHANGED <<now, log, ledger, registered, since, watermark>>

Next == \/ Tick \/ Register \/ \E p \in Punches : Write(p)
        \/ Start \/ Fetch \/ Send
        \/ Reply \/ Fail \/ Timeout \/ Arrive \/ Crash

Spec == Init /\ [][Next]_vars

\* run_forever loops until it is stopped, a process that died is started again,
\* and a request the network and the server do not fail is answered.
FairSpec == Spec /\ WF_vars(Start) /\ WF_vars(Fetch) /\ WF_vars(Send) /\ WF_vars(Reply)
----------------------------------------------------------------------------
\* The server would turn the punch away: older than MAX_PUNCH_AGE_DAYS.
TooOld(p) == Time[p] < now - MaxAge

\* "The watermark keeps a 10-minute overlap so late-written rows are not missed",
\* "a batch leaves the pending buffer only after a successful response"
\* (ATTENDANCE_V2_TECHNICAL.md section 16): a punch of the device that the running
\* agent looks back to is in the ledger, in the buffer, or still ahead of the
\* watermark, unless it grew too old on the way.
ReachKept ==
  phase # "off" =>
    \A p \in log : Time[p] >= since
      => ledger[p] # "none" \/ p \in Buffered \/ Time[p] >= watermark \/ TooOld(p)

\* Every such punch reaches the ledger in the end, however often the agent, the
\* network or the server fail; unless it grows too old, or the agent is restarted
\* and no longer looks back to it.
EveryPunchDelivered ==
  \A p \in Punches :
    p \in log /\ phase # "off" /\ Time[p] >= since
      ~> ledger[p] # "none" \/ TooOld(p) \/ Time[p] < since

\* "A punch that arrives before an employee is set up is not lost; the collector's
\* next re-send links it." (ATTENDANCE_V2_TECHNICAL.md section 5.3)
ResendLinks ==
  \A p \in Punches : ledger[p] = "unresolved" /\ registered ~> ledger[p] = "linked"

----------------------------------------------------------------------------
(* The abstract specification. *)

\* How far a punch has come, on the device and in attv2_raw_punch together.
Row == [p \in Punches |-> IF ledger[p] # "none" THEN ledger[p]
                          ELSE IF p \in log THEN "written" ELSE "unwritten"]

Delivery == INSTANCE PunchLedger WITH row <- Row

\* Collector and server together keep what PunchLedger promises: only punches of the device are
\* stored, none is taken back, and none is linked before its employee is known or unlinked
\* afterwards, however batches are repeated, cut short and overtaken by later ones.
KeepsLedger == Delivery!Spec
=============================================================================
