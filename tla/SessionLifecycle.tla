-------------------------- MODULE SessionLifecycle --------------------------
(***************************************************************************)
(* topUpSession and closeSession of session.service.ts.  Each is a claim   *)
(* (a transaction that puts the pass in a transition state), a call of the *)
(* provider, and a completion (a second transaction), run by concurrent    *)
(* requests that may crash between any two of them and are retried with    *)
(* their idempotency key.  Charges of the pass go on next to them, and     *)
(* togglePauseSession and the expiry sweep save the status they computed   *)
(* from a copy they loaded earlier.  No schedule or metered grant spends    *)
(* these passes: both write over the limit a top-up has raised.            *)
(***************************************************************************)
EXTENDS ChargeReservation

CONSTANTS
  Request,     \* concurrent requests of the owner
  OwnerKey,    \* idempotency keys the owner uses
  Channelled,  \* passes with a fiberSessionId, whose provider calls can fail
  Expiring,    \* passes with an expiry date
  MaxOps,      \* bound on operations started
  MaxSaves,    \* bound on status saves loaded
  MaxCrashes   \* bound on crashes of requests

Kind == {"top_up", "revoke", "settle"}

\* The lifecycleState each kind of operation claims, and the status a close
\* leaves behind.
PendingOf(kind) ==
  [top_up |-> "top_up_pending", revoke |-> "revoke_pending", settle |-> "settle_pending"][kind]
ClosedAs(kind) == [revoke |-> "revoked", settle |-> "settled"][kind]

Open == {"active", "paused"}

ASSUME LifecycleAssumption ==
  /\ Open \cup {"expired", "revoked", "settled"} \subseteq Status
  /\ {PendingOf(kind) : kind \in Kind} \subseteq Lifecycle
  /\ Channelled \subseteq Pass /\ Expiring \subseteq Pass
  /\ Shared = {}
  /\ MaxOps \in Nat /\ MaxSaves \in Nat /\ MaxCrashes \in Nat

VARIABLES
  life,     \* the lifecycle fields of each pass
  request,  \* where each request is
  ops,      \* operation ids given out
  saving,   \* statuses computed from a loaded pass and not yet saved
  saves, crashes

ownerVars == <<life, request, ops, saving, saves, crashes>>
lifecycleVars == <<storeVars, ownerVars>>

Ops == 0..MaxOps
NoKey == "no key"

\* done: lifecycleCompletedAt is set.
LifeRecord ==
  [op: Ops, key: OwnerKey \cup {NoKey}, amount: Nat, done: BOOLEAN,
   provider: {"none", "not_started", "submitted", "uncertain", "succeeded"}]

RequestRecord ==
  [at: {"idle", "claim", "submit", "provider", "unsure", "record", "complete"},
   pass: Pass, kind: Kind, key: OwnerKey, amount: Nat, op: Ops]

LifecycleInit ==
  /\ StoreInit
  /\ life = [p \in Pass |-> [op |-> 0, key |-> NoKey, amount |-> 0, done |-> FALSE,
                             provider |-> "none"]]
  /\ \E p \in Pass, key \in OwnerKey :
       request = [r \in Request |-> [at |-> "idle", pass |-> p, kind |-> "top_up",
                                     key |-> key, amount |-> 0, op |-> 0]]
  /\ ops = 0
  /\ saving = [p \in Pass |-> {}]
  /\ saves = 0
  /\ crashes = 0
-----------------------------------------------------------------------------
Goto(r, at) == request' = [request EXCEPT ![r].at = at]

\* The pass is where the claim of an operation left it.
Claimed(p, kind, op) ==
  pass[p].lifecycle = PendingOf(kind) /\ life[p].op = op

\* A retry of a completed top-up, which is answered without doing anything.
Replayed(p, kind, key) ==
  kind = "top_up" /\ life[p].key = key /\ pass[p].lifecycle = "idle" /\ life[p].done

\* A request finds the pass open and idle and takes a fresh operation id.
\* Otherwise it is answered at once: the pass is closed, the operation is done,
\* or another one is pending.
BeginOperation(r, p, kind, key, amount) ==
  /\ request[r].at = "idle"
  /\ ops < MaxOps
  /\ pass[p].status \in Open
  /\ pass[p].lifecycle = "idle"
  /\ ~Replayed(p, kind, key)
  /\ ops' = ops + 1
  /\ request' = [request EXCEPT
                   ![r] = [at |-> "claim", pass |-> p, kind |-> kind, key |-> key,
                           amount |-> amount, op |-> ops + 1]]
  /\ UNCHANGED <<storeVars, life, saving, saves, crashes>>

\* Mutant of ResumeOperation: only top-ups are resumed.
ResumeTopUpOnly(r, p, kind, key) ==
  /\ request[r].at = "idle"
  /\ kind = "top_up"
  /\ pass[p].status \in Open
  /\ life[p].key = key
  /\ pass[p].lifecycle = PendingOf(kind)
  /\ life[p].provider = "succeeded"
  /\ request' = [request EXCEPT
                   ![r] = [at |-> "complete", pass |-> p, kind |-> kind, key |-> key,
                           amount |-> life[p].amount, op |-> life[p].op]]
  /\ UNCHANGED <<storeVars, life, ops, saving, saves, crashes>>

\* A retry finds its own operation pending with the provider's success recorded
\* and goes on to complete it.
ResumeOperation(r, p, kind, key) ==
  /\ request[r].at = "idle"
  /\ pass[p].status \in Open
  /\ life[p].key = key
  /\ pass[p].lifecycle = PendingOf(kind)
  /\ life[p].provider = "succeeded"
  /\ request' = [request EXCEPT
                   ![r] = [at |-> "complete", pass |-> p, kind |-> kind, key |-> key,
                           amount |-> life[p].amount, op |-> life[p].op]]
  /\ UNCHANGED <<storeVars, life, ops, saving, saves, crashes>>

\* Mutant of CanClaim: a pass with pending charges may be closed.
CanClaimWhileCharging(p, kind, key, amount) ==
  /\ pass[p].status \in Open
  /\ pass[p].lifecycle = "idle"
  /\ ~Replayed(p, kind, key)
  /\ kind = "top_up" /\ alloc[p].state = "active" => CanGrant(alloc[p].source, amount)

\* What the claim's transaction checks again.  A top-up of an active allocation
\* needs the source to grant it; without one it needs nothing.
CanClaim(p, kind, key, amount) ==
  /\ pass[p].status \in Open
  /\ pass[p].lifecycle = "idle"
  /\ ~Replayed(p, kind, key)
  /\ kind = "top_up" /\ alloc[p].state = "active" => CanGrant(alloc[p].source, amount)
  /\ kind # "top_up" => pass[p].reserved = 0

\* The part of the claim that moves funding.
ClaimFunding(p, kind, amount) ==
  IF kind = "top_up" /\ alloc[p].state = "active" THEN TopUpFunding(p, amount)
  ELSE UNCHANGED fundingVars

\* Mutant of ClaimedAmount: the operands of the refund are swapped.
RefundSwapped(p, kind, amount) ==
  IF kind = "top_up" THEN amount ELSE pass[p].spent - pass[p].limit

\* What the operation is about: the top-up, or what is left to refund.
ClaimedAmount(p, kind, amount) ==
  IF kind = "top_up" THEN amount
  ELSE IF pass[p].limit > pass[p].spent THEN pass[p].limit - pass[p].spent ELSE 0

ClaimOperation(r) ==
  LET q == request[r]
      p == q.pass
  IN /\ q.at = "claim"
     /\ CanClaim(p, q.kind, q.key, q.amount)
     /\ ClaimFunding(p, q.kind, q.amount)
     /\ pass' = [pass EXCEPT ![p].lifecycle = PendingOf(q.kind)]
     /\ life' = [life EXCEPT
                   ![p] = [op |-> q.op, key |-> q.key, done |-> FALSE,
                           amount |-> ClaimedAmount(p, q.kind, q.amount),
                           provider |-> "not_started"]]
     /\ Goto(r, "submit")
     /\ UNCHANGED <<daily, attempt, today, ops, saving, saves, crashes>>

ClaimRefused(r) ==
  LET q == request[r]
  IN /\ q.at = "claim"
     /\ ~CanClaim(q.pass, q.kind, q.key, q.amount)
     /\ Goto(r, "idle")
     /\ UNCHANGED <<storeVars, life, ops, saving, saves, crashes>>

SubmitOperation(r) ==
  LET p == request[r].pass
  IN /\ request[r].at = "submit"
     /\ life' = IF life[p].op = request[r].op /\ life[p].provider = "not_started"
                THEN [life EXCEPT ![p].provider = "submitted"] ELSE life
     /\ Goto(r, "provider")
     /\ UNCHANGED <<storeVars, ops, saving, saves, crashes>>

\* The provider's call.  A pass without a Fiber session is answered locally.
ProviderAnswers(r) ==
  /\ request[r].at = "provider"
  /\ \/ Goto(r, "record")
     \/ request[r].pass \in Channelled /\ Goto(r, "unsure")
  /\ UNCHANGED <<storeVars, life, ops, saving, saves, crashes>>

RecordUnsure(r) ==
  LET q == request[r]
  IN /\ q.at = "unsure"
     /\ life' = IF Claimed(q.pass, q.kind, q.op)
                THEN [life EXCEPT ![q.pass].provider = "uncertain"] ELSE life
     /\ Goto(r, "idle")
     /\ UNCHANGED <<storeVars, ops, saving, saves, crashes>>

RecordSuccess(r) ==
  LET q == request[r]
      owned == Claimed(q.pass, q.kind, q.op)
  IN /\ q.at = "record"
     /\ life' = IF owned THEN [life EXCEPT ![q.pass].provider = "succeeded"] ELSE life
     /\ Goto(r, IF owned THEN "complete" ELSE "idle")
     /\ UNCHANGED <<storeVars, ops, saving, saves, crashes>>
-----------------------------------------------------------------------------
\* Mutant of CanComplete: the transition state is not part of the lookup.
CanCompleteAgain(q) == life[q.pass].op = q.op /\ life[q.pass].provider = "succeeded"

\* What the completion's transaction looks the pass up by.
CanComplete(q) == Claimed(q.pass, q.kind, q.op) /\ life[q.pass].provider = "succeeded"

\* completeTopUpLifecycle raises the limit by the claimed amount.
CompleteTopUp(r) ==
  LET q == request[r]
      p == q.pass
  IN /\ q.at = "complete" /\ q.kind = "top_up"
     /\ CanComplete(q)
     /\ pass' = [pass EXCEPT ![p].limit = @ + life[p].amount, ![p].lifecycle = "idle"]
     /\ life' = [life EXCEPT ![p].done = TRUE]
     /\ Goto(r, "idle")
     /\ UNCHANGED <<daily, attempt, today, fundingVars, ops, saving, saves, crashes>>

\* The release inside completeCloseLifecycle, with the error it throws when an
\* active allocation returns anything but the refund (zero is let through).
ReleaseRefund(p) ==
  IF alloc[p].state = "active"
  THEN ReleaseFunding(p) /\ Rest(alloc[p]) \in {0, life[p].amount}
  ELSE UNCHANGED fundingVars

CloseCommits(p) ==
  alloc[p].state = "active" =>
    /\ ReleaseAllowed(alloc[p], source[alloc[p].source])
    /\ Rest(alloc[p]) \in {0, life[p].amount}

\* Mutant of CompleteClose: the allocation is left to a later step.
CompleteCloseKeepingFunding(r) ==
  LET q == request[r]
      p == q.pass
  IN /\ q.at = "complete" /\ q.kind # "top_up"
     /\ CanComplete(q) /\ CloseCommits(p)
     /\ pass' = [pass EXCEPT ![p].status = ClosedAs(q.kind), ![p].lifecycle = "idle"]
     /\ life' = [life EXCEPT ![p].done = TRUE]
     /\ Goto(r, "idle")
     /\ UNCHANGED <<fundingVars, daily, attempt, today, ops, saving, saves, crashes>>

CompleteClose(r) ==
  LET q == request[r]
      p == q.pass
  IN /\ q.at = "complete" /\ q.kind # "top_up"
     /\ CanComplete(q) /\ CloseCommits(p)
     /\ ReleaseRefund(p)
     /\ pass' = [pass EXCEPT ![p].status = ClosedAs(q.kind), ![p].lifecycle = "idle"]
     /\ life' = [life EXCEPT ![p].done = TRUE]
     /\ Goto(r, "idle")
     /\ UNCHANGED <<daily, attempt, today, ops, saving, saves, crashes>>

\* The pass is no longer where the operation left it, or the transaction aborts.
CompleteNothing(r) ==
  LET q == request[r]
  IN /\ q.at = "complete"
     /\ ~CanComplete(q) \/ (q.kind # "top_up" /\ ~CloseCommits(q.pass))
     /\ Goto(r, "idle")
     /\ UNCHANGED <<storeVars, life, ops, saving, saves, crashes>>

CrashRequest(r) ==
  /\ request[r].at # "idle"
  /\ crashes < MaxCrashes
  /\ crashes' = crashes + 1
  /\ Goto(r, "idle")
  /\ UNCHANGED <<storeVars, life, ops, saving, saves>>
-----------------------------------------------------------------------------
\* togglePauseSession loads the pass and flips its copy.
LoadToggle(p) ==
  /\ pass[p].status \in Open
  /\ pass[p].lifecycle = "idle"
  /\ saves < MaxSaves
  /\ saves' = saves + 1
  /\ saving' = [saving EXCEPT
                  ![p] = @ \cup {IF pass[p].status = "paused" THEN "active" ELSE "paused"}]
  /\ UNCHANGED <<storeVars, life, request, ops, crashes>>

\* The expiry sweep reads an open pass whose date has passed, whatever its
\* transition state.
LoadExpired(p) ==
  /\ p \in Expiring
  /\ pass[p].status \in Open
  /\ saves < MaxSaves
  /\ saves' = saves + 1
  /\ saving' = [saving EXCEPT ![p] = @ \cup {"expired"}]
  /\ UNCHANGED <<storeVars, life, request, ops, crashes>>

\* The save writes the status whatever the pass has become.
SaveStatus(p, status) ==
  /\ status \in saving[p]
  /\ pass' = [pass EXCEPT ![p].status = status]
  /\ saving' = [saving EXCEPT ![p] = @ \ {status}]
  /\ UNCHANGED <<fundingVars, daily, attempt, today, life, request, ops, saves, crashes>>

\* The charges of the pass, deposits and new passes.
OtherRequests ==
  /\ \/ ReservationNext
     \/ \E p \in Pass, s \in Source, l \in Grant : CreateSession(p, s, l)
     \/ SourceNext /\ UNCHANGED reservationVars
  /\ UNCHANGED ownerVars

OperationStep(r) ==
  \/ ClaimOperation(r) \/ ClaimRefused(r)
  \/ SubmitOperation(r)
  \/ ProviderAnswers(r)
  \/ RecordUnsure(r) \/ RecordSuccess(r)
  \/ CompleteTopUp(r) \/ CompleteClose(r) \/ CompleteNothing(r)

LifecycleNext ==
  \/ \E r \in Request, p \in Pass, kind \in Kind, key \in OwnerKey, a \in Grant :
       BeginOperation(r, p, kind, key, a)
  \/ \E r \in Request, p \in Pass, kind \in Kind, key \in OwnerKey :
       ResumeOperation(r, p, kind, key)
  \/ \E r \in Request : OperationStep(r) \/ CrashRequest(r)
  \/ \E p \in Pass : LoadToggle(p) \/ LoadExpired(p)
  \/ \E p \in Pass, status \in Status : SaveStatus(p, status)
  \/ OtherRequests

LifecycleSpec == LifecycleInit /\ [][LifecycleNext]_lifecycleVars

\* A running request goes on, and the owner retries with the same key.
FairLifecycleSpec ==
  /\ LifecycleSpec
  /\ \A r \in Request : WF_lifecycleVars(OperationStep(r))
  /\ \A p \in Pass, kind \in Kind, key \in OwnerKey :
       SF_lifecycleVars(\E r \in Request : ResumeOperation(r, p, kind, key))
-----------------------------------------------------------------------------
\* The documents are well formed and every request is at a step of topUpSession
\* or closeSession, with a refund that is never negative.
LifecycleTypeOK ==
  /\ FundingTypeOK
  /\ ReservationTypeOK
  /\ life \in [Pass -> LifeRecord]
  /\ request \in [Request -> RequestRecord]
  /\ ops \in Ops
  /\ saving \in [Pass -> SUBSET {"active", "paused", "expired"}]
  /\ saves \in Nat
  /\ crashes \in Nat

\* The pass has claimed a top-up that has not raised its limit yet.
ToppingUp(p) == pass[p].lifecycle = "top_up_pending"
Closing(p) == pass[p].lifecycle \in {"revoke_pending", "settle_pending"}

\* The funding behind a pass is its limit: an active allocation is authorized
\* for the limit and for a claimed top-up, and has spent what the pass has.  A
\* top-up that is completed twice, never, or by another operation breaks it.
FundingFollowsLimit ==
  \A p \in Pass :
    alloc[p].state = "active" =>
      /\ alloc[p].authorized = pass[p].limit + (IF ToppingUp(p) THEN life[p].amount ELSE 0)
      /\ alloc[p].spent = pass[p].spent

\* "Pass refund and funding allocation release do not match." is never thrown:
\* while a close is pending no charge moves what it will refund.
RefundMatchesRelease ==
  \A p \in Pass :
    Closing(p) => /\ pass[p].reserved = 0
                  /\ life[p].amount = pass[p].limit - pass[p].spent
                  /\ alloc[p].state = "active" => Rest(alloc[p]) = life[p].amount

\* A pass that its owner revoked or settled holds no funding, although a late save
\* may give it another status afterwards.
ClosedHoldsNothing ==
  \A p \in Pass : pass[p].status \in {"revoked", "settled"} => alloc[p].state # "active"

\* A claimed operation whose provider success is recorded is completed when the
\* owner retries it, as long as no sweep or save closes the pass under it.
RecordedSuccessCompletes ==
  \A p \in Pass :
    <>[](pass[p].lifecycle # "idle" => pass[p].status \in Open)
      => []<>~(pass[p].lifecycle # "idle" /\ life[p].provider = "succeeded")
=============================================================================
