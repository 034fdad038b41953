------------------------------ MODULE MCLeave ------------------------------
(***************************************************************************)
(* Small instances of Leave: two leave types, four dates of which the third*)
(* is a weekly off.                                                        *)
(***************************************************************************)
EXTENDS Leave

TwoTypes == <<"general", "lop">>
Off      == {3}
Quotas   == {2, 4}
Full(first, last) == [type |-> "general", first |-> first, last |-> last, half |-> FALSE]
Asked    == {Full(2, 2), Full(2, 4), [Full(2, 4) EXCEPT !.half = TRUE]}
CompAsked == {[type |-> "lop", worked |-> 1, sched |-> 2, flag |-> TRUE]}
=============================================================================
