--------------------------- MODULE MCOffboarding ---------------------------
(***************************************************************************)
(* A small instance of Offboarding: HR and one other department, and a     *)
(* resignation that is already accepted.                                   *)
(***************************************************************************)
EXTENDS Offboarding

CONSTANTS e1, e2, w1, w2, c1, hr, it

MCBefore == <<[emp |-> e1, status |-> "Accepted", terminated |-> FALSE, due |-> 2]>>
=============================================================================
