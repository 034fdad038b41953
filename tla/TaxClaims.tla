------------------------------ MODULE TaxClaims ------------------------------
(***************************************************************************)
(* The income tax assessment of one employee in one financial year: TaxBL  *)
(* (tax_biz.py) over TaxDA (tax_da.py).  The accounts department opens an  *)
(* assessment period, which gives the employee a batch and the rows of     *)
(* twelve months' tax (TDS); the employee declares an amount by category   *)
(* and claims parts of it; accounts approve or reject the claims.          *)
(*                                                                         *)
(* A call validates on what it reads and writes later, locking nothing;    *)
(* the two deletions of accounts are sequences of commits.  Deadlines,     *)
(* which only refuse calls, proofs, parties, rent details and mail are     *)
(* left out.                                                               *)
(***************************************************************************)
EXTENDS Integers, Sequences, FiniteSets, FiniteSetsExt

CONSTANTS
  Workers,
  Limit,         \* maximum_allowed, by category
  Amounts,       \* amounts of forms
  Starts,        \* the assessments there are at first
  MaxRows,       \* bound: rows of each table
  MaxCalls,      \* bound: calls
  MaxFaults      \* bound: calls that die

Categories == DOMAIN Limit
Regimes  == {"Unset", "Old", "New"}
Statuses == {"Under Review", "Approved", "Rejected", "Other"}
Standing == {"Under Review", "Approved"}     \* the statuses that count

ASSUME TaxConstants ==
  /\ Limit \in [Categories -> Nat]
  /\ Amounts \subseteq Nat
  /\ MaxRows \in Nat /\ MaxCalls \in Nat /\ MaxFaults \in Nat

VARIABLES
  periods,    \* tax_period: which are not deleted
  batches,    \* tax_batch of the employee: period, regime, and whether the row is there
  tds,        \* how many times the twelve rows of employee_tds are there
  decls,      \* claim_declaration: period, category, amount, and whether it is not deleted
  claims,     \* claim: declaration, period, amount, status, and whether it is there and not deleted
  work,       \* the call each worker is in
  calls, faults,
  fresh,      \* history: workers whose validation no later commit can have outdated
  raced,      \* history: declarations, and 0 for batch and TDS, written after such a commit
  revived,    \* history: declarations of which a claim that did not count was made to count
  misnamed,   \* history: declarations last amended by a form that named another category
  doubled     \* history: the employee was added, or the year opened, a second time

tables  == <<periods, batches, tds, decls, claims>>
history == <<fresh, raced, revived, misnamed, doubled>>
vars    == <<tables, work, calls, faults, history>>

Idle == [at |-> "idle", id |-> 0, period |-> 0, cat |-> 0, amount |-> 0, regime |-> "Unset",
         status |-> "Under Review", last |-> FALSE]

Live(table) == {i \in DOMAIN table : table[i].live}

\* get_assessment_period_by_fin_year_id takes the last, get_tax_period_from_financial_year_id the first.
LastOf(S)  == IF S = {} THEN 0 ELSE Max(S)
FirstOf(S) == IF S = {} THEN 0 ELSE Min(S)

BatchesOf(p) == {b \in Live(batches) : batches[b].period = p}
DeclsOf(p)   == {d \in Live(decls) : decls[d].period = p}
ClaimsOf(d)  == {c \in Live(claims) : claims[c].decl = d}
Counted(d)   == {c \in ClaimsOf(d) : claims[c].status \in Standing}
Total(table, S) == MapThenSumSet(LAMBDA i : table[i].amount, S)

\* An assessment to start from, with rows of any age: one period is open at most, with one batch
\* and its TDS rows; declarations are of it and within their limits, claims within declarations.
Sound(s) ==
  /\ s.periods \in Seq([live : BOOLEAN])
  /\ s.batches \in Seq([period : DOMAIN s.periods, regime : Regimes, live : BOOLEAN])
  /\ s.decls \in Seq([period : DOMAIN s.periods, cat : Categories, amount : Nat, live : BOOLEAN])
  /\ s.claims \in Seq([decl : DOMAIN s.decls, period : DOMAIN s.periods, amount : Nat,
                        status : Statuses, live : BOOLEAN])
  /\ \A p, q \in Live(s.periods) : p = q
  /\ \A a, b \in Live(s.batches) : a = b
  /\ \A b \in Live(s.batches) : s.batches[b].period \in Live(s.periods)
  /\ s.tds = Cardinality(Live(s.batches))
  /\ \A d \in Live(s.decls) :
       /\ \E b \in Live(s.batches) : s.batches[b].period = s.decls[d].period
       /\ \A e \in Live(s.decls) : s.decls[e].cat = s.decls[d].cat => e = d
       /\ s.decls[d].amount <= Limit[s.decls[d].cat]
       /\ Total(s.claims, {c \in Live(s.claims) : s.claims[c].decl = d /\ s.claims[c].status \in Standing})
            <= s.decls[d].amount
  /\ \A c \in Live(s.claims) : s.claims[c].decl \in Live(s.decls)

ASSUME StartsAssumption == \A s \in Starts : Sound(s)

----------------------------------------------------------------------------
(* The steps of a call. *)

Turn(w, now) == work' = [work EXCEPT ![w] = now] /\ UNCHANGED calls

Ask(w, call) == /\ work[w] = Idle /\ calls < MaxCalls
                /\ calls' = calls + 1
                /\ work' = [work EXCEPT ![w] = call]
                /\ fresh' = fresh \cup {w}
                /\ UNCHANGED <<tables, faults, raced, revived, misnamed, doubled>>

\* A commit outdates what the other calls have validated; D: what it is about.
Wrote(w, D) == /\ fresh' = fresh \cap {w}
               /\ raced' = raced \cup {d \in D : w \notin fresh}
               /\ UNCHANGED faults

----------------------------------------------------------------------------
(* create_declaration, edit_claim_declaration_data and delete_declaration. *)

\* Mutant of MayDeclare: a category may be declared twice.
MayDeclareAgain(p, cat, amount) ==
  p # 0 /\ BatchesOf(p) # {} /\ amount \in 1 .. Limit[cat]

MayDeclare(p, cat, amount) ==
  /\ p # 0 /\ BatchesOf(p) # {} /\ amount \in 1 .. Limit[cat]
  /\ \A d \in DeclsOf(p) : decls[d].cat # cat

AskDeclare(w) == \E cat \in Categories, amount \in Amounts, regime \in Regimes :
  LET p == LastOf(Live(periods))
  IN  /\ MayDeclare(p, cat, amount)
      /\ Ask(w, [Idle EXCEPT !.at = "declare", !.period = p, !.cat = cat, !.amount = amount,
                             !.regime = regime])

\* update_finance_data: the regime of every batch of the employee.
ChooseRegime(r) ==
  batches' = [b \in DOMAIN batches |->
                IF batches[b].live /\ r # "Unset" THEN [batches[b] EXCEPT !.regime = r] ELSE batches[b]]

Same(w) == {d \in DOMAIN decls : decls[d].period = work[w].period /\ decls[d].cat = work[w].cat}

\* create_claim_declaration: get_or_create finds no declaration ...
FindDeclaration(w) ==
  /\ work[w].at = "declare" /\ Same(w) \cap Live(decls) = {}
  /\ Turn(w, [work[w] EXCEPT !.at = "insert"])
  /\ UNCHANGED <<tables, faults, history>>

\* ... and creates one,
InsertDeclaration(w) ==
  /\ work[w].at = "insert" /\ Len(decls) < MaxRows
  /\ decls' = Append(decls, [period |-> work[w].period, cat |-> work[w].cat,
                             amount |-> work[w].amount, live |-> TRUE])
  /\ ChooseRegime(work[w].regime)
  /\ Wrote(w, {Len(decls) + 1})
  /\ Turn(w, Idle)
  /\ UNCHANGED <<periods, tds, claims, revived, misnamed, doubled>>

\* or finds one, and the amount is added to it and to the deleted ones.
AddToDeclaration(w) ==
  /\ work[w].at = "declare" /\ Cardinality(Same(w) \cap Live(decls)) = 1
  /\ decls' = [d \in DOMAIN decls |->
                IF d \in Same(w) THEN [decls[d] EXCEPT !.amount = @ + work[w].amount] ELSE decls[d]]
  /\ ChooseRegime(work[w].regime)
  /\ Wrote(w, Same(w))
  /\ Turn(w, Idle)
  /\ UNCHANGED <<periods, tds, claims, revived, misnamed, doubled>>

\* Not below what is approved or under review, nor above the maximum of the category the form
\* names, which is not compared with that of the declaration.
AskAmend(w) == \E d \in Live(decls), cat \in Categories, amount \in Amounts :
  /\ BatchesOf(LastOf(Live(periods))) # {} /\ amount \in 1 .. Limit[cat]
  /\ amount >= Total(claims, Counted(d))
  /\ Ask(w, [Idle EXCEPT !.at = "amend", !.id = d, !.cat = cat, !.amount = amount])

AmendDeclaration(w) ==
  /\ work[w].at = "amend"
  /\ decls' = [decls EXCEPT ![work[w].id].amount = work[w].amount]
  /\ misnamed' = {d \in misnamed \cup {work[w].id} : d = work[w].id => work[w].cat # decls[d].cat}
  /\ Wrote(w, {work[w].id})
  /\ Turn(w, Idle)
  /\ UNCHANGED <<periods, batches, tds, claims, revived, doubled>>

\* Mutants of MayWithdraw: approved claims do not count; the regime is cleared too early.
MayWithdrawApproved(d, last) == last = (DeclsOf(decls[d].period) = {d})

MayWithdrawEarly(d, last) ==
  /\ \A c \in ClaimsOf(d) : claims[c].status # "Approved"
  /\ last = (Cardinality(DeclsOf(decls[d].period)) <= 2)

\* is_any_claim_approved; last_declaration.
MayWithdraw(d, last) ==
  /\ \A c \in ClaimsOf(d) : claims[c].status # "Approved"
  /\ last = (DeclsOf(decls[d].period) = {d})

AskWithdraw(w) == \E d \in Live(decls), last \in BOOLEAN :
  /\ MayWithdraw(d, last)
  /\ Ask(w, [Idle EXCEPT !.at = "withdraw", !.id = d, !.period = decls[d].period, !.last = last])

\* Mutant of ClaimsLeft: the claims stay.
ClaimsLeftAll(d) == claims

\* delete_claims_by_declaration.
ClaimsLeft(d) == [c \in DOMAIN claims |->
                    IF claims[c].decl = d THEN [claims[c] EXCEPT !.live = FALSE] ELSE claims[c]]

WithdrawDeclaration(w) ==
  LET d == work[w].id
      b == FirstOf(BatchesOf(work[w].period))
  IN  /\ work[w].at = "withdraw" /\ (work[w].last => b # 0)
      /\ decls' = [decls EXCEPT ![d].live = FALSE]
      /\ claims' = ClaimsLeft(d)
      /\ batches' = IF work[w].last THEN [batches EXCEPT ![b].regime = "Unset"] ELSE batches
      /\ Wrote(w, {d, 0})
      /\ Turn(w, Idle)
      /\ UNCHANGED <<periods, tds, revived, misnamed, doubled>>

\* get_or_create finds two, or the batch is gone: the transaction is undone.
Undo(w) ==
  /\ \/ work[w].at = "declare" /\ Cardinality(Same(w) \cap Live(decls)) > 1
     \/ work[w].at = "withdraw" /\ work[w].last /\ BatchesOf(work[w].period) = {}
  /\ Turn(w, Idle)
  /\ UNCHANGED <<tables, faults, history>>

----------------------------------------------------------------------------
(* create_employee_claim, update_employee_claim and delete_employee_claim. *)

\* Mutant of MayClaim: what is approved does not count.
MayClaimUncounted(d, amount, others) ==
  amount + Total(claims, {c \in others : claims[c].status = "Under Review"}) <= decls[d].amount

\* The claim fits beside the others that count.
MayClaim(d, amount, others) == amount + Total(claims, others) <= decls[d].amount

\* Here too the form names the category, and the claim goes to the last period.
AskClaim(w) == \E d \in Live(decls), amount \in Amounts \cup {0} :
  LET p == LastOf(Live(periods))
  IN  /\ BatchesOf(p) # {}
      /\ MayClaim(d, amount, Counted(d))
      /\ \E cat \in Categories : amount <= Limit[cat]
      /\ Ask(w, [Idle EXCEPT !.at = "claim", !.id = d, !.period = p, !.amount = amount])

\* The claim is also stored when the answer is that the rent's dates are wrong.
AddClaim(w) ==
  /\ work[w].at = "claim" /\ Len(claims) < MaxRows
  /\ claims' = Append(claims, [decl |-> work[w].id, period |-> work[w].period,
                               amount |-> work[w].amount,
                               status |-> "Under Review", live |-> TRUE])
  /\ Wrote(w, {work[w].id})
  /\ Turn(w, Idle)
  /\ UNCHANGED <<periods, batches, tds, decls, revived, misnamed, doubled>>

\* Whatever is not rejected counts here.
AskEdit(w) == \E c \in Live(claims), amount \in Amounts :
  LET d == claims[c].decl
  IN  /\ claims[c].status = "Under Review" /\ d \in Live(decls)
      /\ MayClaim(d, amount, {x \in ClaimsOf(d) \ {c} : claims[x].status # "Rejected"})
      /\ BatchesOf(claims[c].period) # {}
      /\ Ask(w, [Idle EXCEPT !.at = "edit", !.id = c, !.amount = amount])

AskDrop(w) == \E c \in Live(claims) :
  /\ claims[c].status = "Under Review"
  /\ Ask(w, [Idle EXCEPT !.at = "drop", !.id = c])

\* approve_claim asks nothing of the claim, its status or its declaration, and writes any status.
AskJudge(w) == \E c \in Live(claims), s \in Statuses :
  Ask(w, [Idle EXCEPT !.at = "judge", !.id = c, !.status = s])

\* update_claim writes the row of a call, deleted or not.
Rewrite(w, at, row) ==
  LET c == work[w].id
  IN  /\ work[w].at = at
      /\ claims' = [claims EXCEPT ![c] = row]
      /\ revived' = revived \cup {d \in {claims[c].decl} :
                       claims[c].status \notin Standing /\ claims'[c].status \in Standing}
      /\ Wrote(w, {claims[c].decl})
      /\ Turn(w, Idle)
      /\ UNCHANGED <<periods, batches, tds, decls, misnamed, doubled>>

EditClaim(w) == Rewrite(w, "edit", [claims[work[w].id] EXCEPT !.amount = work[w].amount,
                                                              !.status = "Under Review"])

DropClaim(w) == Rewrite(w, "drop", [claims[work[w].id] EXCEPT !.live = FALSE])

JudgeClaim(w) == Rewrite(w, "judge", [claims[work[w].id] EXCEPT !.status = work[w].status])

----------------------------------------------------------------------------
(* initiate_claims_forms, add_tax_batch, delete_tax_batch and              *)
(* delete_tax_period.                                                      *)

NewBatch(p) == [period |-> p, regime |-> "Unset", live |-> TRUE]

\* Mutant of TdsOfBatch: TDS rows are forgotten.
TdsOfBatchNone(n) == n

TdsOfBatch(n) == n + 1

\* A period is opened though one is, unless the form says so; the duplicate test is not used.
Initiate(w) == \E initiated \in BOOLEAN, chosen \in BOOLEAN :
  LET p == IF initiated THEN FirstOf(Live(periods)) ELSE Len(periods) + 1
  IN  /\ work[w] = Idle /\ calls < MaxCalls /\ calls' = calls + 1
      /\ p # 0 /\ p <= MaxRows /\ (chosen => Len(batches) < MaxRows)
      /\ periods' = IF initiated THEN periods ELSE Append(periods, [live |-> TRUE])
      /\ batches' = IF chosen THEN Append(batches, NewBatch(p)) ELSE batches
      /\ tds' = IF chosen THEN TdsOfBatch(tds) ELSE tds
      /\ doubled' = (doubled \/ (~ initiated /\ Live(periods) # {}) \/ (chosen /\ Live(batches) # {}))
      /\ Wrote(w, {})
      /\ UNCHANGED <<decls, claims, work, revived, misnamed>>

\* create_or_update_tax_bacth: an employee who is in the period gets no batch, but TDS rows again.
AddBatch(w) == \E p \in Live(periods) :
  LET found == BatchesOf(p)
  IN  /\ work[w] = Idle /\ calls < MaxCalls /\ calls' = calls + 1
      /\ Cardinality(found) <= 1 /\ Len(batches) < MaxRows
      /\ batches' = IF found = {} THEN Append(batches, NewBatch(p))
                    ELSE [b \in DOMAIN batches |-> IF b \in found THEN NewBatch(p) ELSE batches[b]]
      /\ tds' = TdsOfBatch(tds)
      /\ doubled' = (doubled \/ Live(batches) # {})
      /\ Wrote(w, {})
      /\ UNCHANGED <<periods, decls, claims, work, revived, misnamed>>

Undeclared(p) == DeclsOf(p) = {}

\* fin_year_id is found only through a period that is not deleted: what the TDS deletion will match.
AskRemoveBatch(w) == \E b \in Live(batches) :
  /\ Undeclared(batches[b].period)
  /\ Ask(w, [Idle EXCEPT !.at = "batch", !.id = b, !.period = batches[b].period,
                         !.last = batches[b].period \in Live(periods)])

RemoveBatch(w) ==
  /\ work[w].at = "batch"
  /\ batches' = [batches EXCEPT ![work[w].id].live = FALSE]
  /\ Wrote(w, {0} \cup DeclsOf(work[w].period))
  /\ Turn(w, [work[w] EXCEPT !.at = "tds"])
  /\ UNCHANGED <<periods, tds, decls, claims, revived, misnamed, doubled>>

AskRemovePeriod(w) == \E p \in DOMAIN periods :
  /\ Undeclared(p)
  /\ Ask(w, [Idle EXCEPT !.at = "period", !.period = p, !.last = p \in Live(periods)])

RemovePeriod(w) ==
  /\ work[w].at = "period"
  /\ periods' = [periods EXCEPT ![work[w].period].live = FALSE]
  /\ Wrote(w, {0} \cup DeclsOf(work[w].period))
  /\ Turn(w, [work[w] EXCEPT !.at = "batches"])
  /\ UNCHANGED <<batches, tds, decls, claims, revived, misnamed, doubled>>

RemoveBatches(w) ==
  /\ work[w].at = "batches"
  /\ batches' = [b \in DOMAIN batches |->
                  IF b \in BatchesOf(work[w].period) THEN [batches[b] EXCEPT !.live = FALSE] ELSE batches[b]]
  /\ Wrote(w, {0})
  /\ Turn(w, [work[w] EXCEPT !.at = "tds"])
  /\ UNCHANGED <<periods, tds, decls, claims, revived, misnamed, doubled>>

RemoveTds(w) ==
  /\ work[w].at = "tds"
  /\ tds' = IF work[w].last THEN 0 ELSE tds
  /\ Wrote(w, {0})
  /\ Turn(w, Idle)
  /\ UNCHANGED <<periods, batches, decls, claims, revived, misnamed, doubled>>

\* Whatever the worker had not committed is not written.
Die(w) ==
  /\ work[w] # Idle /\ faults < MaxFaults
  /\ faults' = faults + 1
  /\ raced' = raced \cup {x \in {0} : work[w].at \in {"batches", "tds"}}
  /\ Turn(w, Idle)
  /\ UNCHANGED <<tables, fresh, revived, misnamed, doubled>>

Init == /\ \E s \in Starts : /\ periods = s.periods /\ batches = s.batches /\ tds = s.tds
                             /\ decls = s.decls /\ claims = s.claims
        /\ work = [w \in Workers |-> Idle]
        /\ calls = 0 /\ faults = 0
        /\ fresh = {} /\ raced = {} /\ revived = {} /\ misnamed = {} /\ doubled = FALSE

Next == \E w \in Workers :
          \/ AskDeclare(w) \/ FindDeclaration(w) \/ InsertDeclaration(w) \/ AddToDeclaration(w)
          \/ AskAmend(w) \/ AmendDeclaration(w) \/ AskWithdraw(w) \/ WithdrawDeclaration(w) \/ Undo(w)
          \/ AskClaim(w) \/ AddClaim(w) \/ AskEdit(w) \/ AskDrop(w) \/ AskJudge(w)
          \/ EditClaim(w) \/ DropClaim(w) \/ JudgeClaim(w)
          \/ Initiate(w) \/ AddBatch(w) \/ AskRemoveBatch(w) \/ RemoveBatch(w)
          \/ AskRemovePeriod(w) \/ RemovePeriod(w) \/ RemoveBatches(w) \/ RemoveTds(w)
          \/ Die(w)

Spec == Init /\ [][Next]_vars

----------------------------------------------------------------------------
(* Properties.                                                             *)

\* What is approved or under review stays within what was declared, however claims and
\* declarations are edited, withdrawn and judged, unless a claim that did not count was approved or
\* put under review after all, or two calls crossed.
ClaimsWithinDeclaration ==
  \A d \in Live(decls) \ (raced \cup revived) : Total(claims, Counted(d)) <= decls[d].amount

\* All declarations of one category in one period together stay within its maximum, unless two
\* calls crossed: then get_or_create adds the amounts, or makes two rows.  Where the last amendment
\* named another category they stay within that of some category.
DeclaredWithinLimit ==
  \A p \in DOMAIN periods, cat \in Categories :
    LET S == {d \in DeclsOf(p) : decls[d].cat = cat}
    IN  \/ Total(decls, S) <= Limit[cat]
        \/ S \cap raced # {}
        \/ S \cap misnamed # {} /\ \E other \in Categories : Total(decls, S) <= Limit[other]

\* An approved claim neither goes nor becomes another amount or a question again, whatever the
\* employee does, unless his call was validated before the approval: only a call of accounts about
\* that claim changes its status.
ApprovedIsKept ==
  [][\A c \in Live(claims) : claims[c].status = "Approved" =>
       \/ claims'[c] = claims[c]
       \/ \E w \in Workers : /\ work[w].at = "judge" /\ work[w].id = c /\ work'[w] = Idle
                             /\ claims'[c] = [claims[c] EXCEPT !.status = work[w].status]
       \/ claims[c].decl \in raced']_vars

\* Nothing is left behind: no claim under a declaration that was withdrawn, no declaration without
\* its period or without a batch of the employee, unless two calls about it crossed.
NothingOrphaned ==
  /\ \A c \in Live(claims) : claims[c].decl \in Live(decls) \cup raced
  /\ \A d \in Live(decls) \ raced :
       decls[d].period \in Live(periods) /\ BatchesOf(decls[d].period) # {}

\* TDS rows are there once for an employee with a batch and not for one without, unless the year
\* was opened or the employee added twice, a deletion is under way, was cut off or crossed.
TdsFollowsBatch ==
  \/ tds = Cardinality(Live(batches))
  \/ doubled \/ 0 \in raced \/ \E w \in Workers : work[w].at \in {"tds", "batches"}

\* The regime an employee chose is forgotten only when no declaration of the period is left, unless
\* he is added again, or another call crossed the withdrawal.
RegimeKept ==
  [][\A b \in Live(batches) :
       batches[b].regime # "Unset" /\ batches'[b].live /\ batches'[b].regime = "Unset" =>
         \/ \A d \in DOMAIN decls' : decls'[d].live => decls'[d].period # batches[b].period
         \/ 0 \in raced' \/ doubled']_vars
=============================================================================
