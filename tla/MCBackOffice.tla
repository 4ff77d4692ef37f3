----------------------------- MODULE MCBackOffice -----------------------------
(***************************************************************************)
(* The workers and requests behind the payments of a pass that its owner   *)
(* prepared: scheduled payouts, the claim links of their recipients, and   *)
(* the jobs of a batch of invoices.  They share nothing that is modelled   *)
(* here; each behaviour is about one of them.                              *)
(***************************************************************************)
EXTENDS ScheduledPayout, RecipientClaim, PaymentJobs, TLC

CONSTANTS p1, p2, q1

VARIABLE scene

PaidBy(rails, recurring, stops, workers) ==
    [rails |-> rails, recurring |-> recurring, stops |-> stops, crew |-> workers]

\* One recipient on the exit rail beside a preparation worker; with two payout
\* workers that may stop; over two cycles; two workers and two cycles of invoice
\* payments; one recipient of each kind.
MCSettings == {PaidBy(<<"exit">>, FALSE, FALSE, {p1, q1}),
               PaidBy(<<"exit">>, FALSE, TRUE, {p1, p2}),
               PaidBy(<<"exit">>, TRUE, FALSE, {p1}),
               PaidBy(<<"invoice">>, TRUE, FALSE, {p1, p2}),
               PaidBy(<<"exit", "invoice">>, FALSE, FALSE, {p1})}

OneSetting == {PaidBy(<<"exit">>, TRUE, FALSE, {p1})}

\* Payment workers run the same code and are interchangeable.
WorkerSymmetry == Permutations(Worker)

officeVars == <<payoutVars, claimVars, jobsVars, scene>>

\* What a scene is not about has one initial value.
BackOfficeInit ==
    /\ scene \in {"payout", "claim", "jobs"}
    /\ ScheduledPayoutInit /\ RecipientClaimInit /\ JobsInit
    /\ scene = "payout" \/ setting = PaidBy(<<"exit">>, TRUE, FALSE, {p1})
    /\ scene = "claim" \/ link[1].status = "pending"

BackOfficeNext ==
    /\ UNCHANGED scene
    /\ \/ scene = "payout" /\ ScheduledPayoutNext /\ UNCHANGED <<claimVars, jobsVars>>
       \/ scene = "claim" /\ RecipientClaimNext /\ UNCHANGED <<payoutVars, jobsVars>>
       \/ scene = "jobs" /\ JobsNext /\ UNCHANGED <<payoutVars, claimVars>>

BackOfficeSpec == BackOfficeInit /\ [][BackOfficeNext]_officeVars

\* Every document holds values of its schema and every process is at a step of
\* its handler.
BackOfficeTypeOK == PayoutTypeOK /\ ClaimTypeOK /\ JobsTypeOK
=============================================================================
