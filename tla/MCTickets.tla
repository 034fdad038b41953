----------------------------- MODULE MCTickets -----------------------------
(***************************************************************************)
(* Small instances of Tickets: one ticket under CI/CD and one not; a form  *)
(* changes the status and one thing more.                                  *)
(***************************************************************************)
EXTENDS Tickets, TLC

CONSTANTS w1, w2, r1, r2

Two    == <<r1, NoRepo>>
Form(s, p, moved, r, log) ==
  [status |-> s, parent |-> p, moved |-> moved, repo |-> r, merged |-> FALSE, log |-> log]
Raised == {Form("New", 0, FALSE, NoRepo, 0), [Form("New", 1, TRUE, r1, 0) EXCEPT !.merged = TRUE]}
Moved  == {Form("In Progress", 1, TRUE, NoRepo, 0), Form("In Progress", 2, TRUE, NoRepo, 0),
           Form("In Progress", 0, TRUE, NoRepo, 2), Form("In Progress", 0, FALSE, r2, 0)}
\* A stage, the last one, closed, reopened.
Staged == {Form(s, 0, FALSE, r1, 0) : s \in {"Verified by QA", "ReadyPushPro", "Invalid", "Reopen"}}
Sent   == Raised \cup Moved \cup Staged
Identical == Permutations({w1, w2})
=============================================================================
