---------------------------- MODULE MCTaxClaims ----------------------------
(***************************************************************************)
(* Small instances of TaxClaims: two categories, and assessments at two    *)
(* stages to start from.                                                   *)
(***************************************************************************)
EXTENDS TaxClaims, TLC

CONSTANTS w1, w2

Limits  == 1 :> 3 @@ 2 :> 1
Nothing == [periods |-> <<>>, batches |-> <<>>, tds |-> 0, decls |-> <<>>, claims |-> <<>>]
Opened  == [Nothing EXCEPT !.periods = <<[live |-> TRUE]>>,
                           !.batches = <<NewBatch(1)>>, !.tds = 1]
Claimed == [Opened EXCEPT
  !.batches = <<[NewBatch(1) EXCEPT !.regime = "Old"]>>,
  !.decls = <<[period |-> 1, cat |-> 1, amount |-> 2, live |-> TRUE]>>,
  !.claims = <<[decl |-> 1, period |-> 1, amount |-> 1, status |-> "Under Review", live |-> TRUE]>>]
Stages  == {Nothing, Claimed}
Identical == Permutations({w1, w2})
=============================================================================
