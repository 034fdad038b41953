----------------------------- MODULE PunchLedger -----------------------------
(***************************************************************************)
(* What Attendance V2 promises a biometric device about its punches,       *)
(* whatever the collector, the network and the server do in between        *)
(* (PunchIngestionBL._ingest and _resolve_existing over attv2_raw_punch):  *)
(* only what the device wrote is stored, a row is never taken back, and it *)
(* belongs to the employee from the first delivery that finds one on.      *)
(***************************************************************************)
CONSTANT Punches

VARIABLES
  row,         \* how far each punch has come
  registered   \* the employee of these punches is an active member

Stages == {"unwritten", "written", "unresolved", "linked"}

Init == row = [p \in Punches |-> "unwritten"] /\ registered = FALSE

Write(p) == /\ row[p] = "unwritten"
            /\ row' = [row EXCEPT ![p] = "written"]
            /\ UNCHANGED registered

\* Any part of what was written is delivered, for the first time or again.
Deliver(S) ==
  /\ \A p \in S : row[p] \in {"written", "unresolved"}
  /\ row' = [p \in Punches |-> IF p \notin S THEN row[p]
                               ELSE IF registered THEN "linked" ELSE "unresolved"]
  /\ UNCHANGED registered

Register == /\ ~ registered /\ registered' = TRUE
            /\ UNCHANGED row

Next == \/ \E p \in Punches : Write(p)
        \/ \E S \in SUBSET Punches : Deliver(S)
        \/ Register

Spec == Init /\ [][Next]_<<row, registered>>
=============================================================================
