------------------------- MODULE MCShiftAssignments -------------------------
(***************************************************************************)
(* Small instances of ShiftAssignments: an employee with an open-ended     *)
(* assignment of their own on top of a company-wide one, or with none yet. *)
(***************************************************************************)
EXTENDS ShiftAssignments

OwnFirst == <<"employee", "company">>

MCShifts == {"General", "Night"}
New(s, tg, from, to) == [shift |-> s, target |-> tg, from |-> from, to |-> to, live |-> TRUE]
CompanyOnly == <<New("General", "company", 0, LastDate + 1)>>
BothOpen    == Append(CompanyOnly, New("Night", "employee", 0, LastDate + 1))
OneOrBoth   == {CompanyOnly, BothOpen}

\* A temporary change of the employee's own assignment or of the company's.
Either == {New("General", "employee", 1, 1), New("Night", "company", 1, 1)}
=============================================================================
