--------------------------- MODULE PaymentSchedule ---------------------------
(***************************************************************************)
(* The payment schedules of paymentSchedule.service.ts.  Workers list the  *)
(* schedules that are due, claim the occurrence of the due date under a    *)
(* lease, reserve its amount on the pass, resolve a fresh payment request  *)
(* and pay it through an executor whose idempotency key is the occurrence. *)
(* The owner pauses, resumes, revokes and redirects schedules at any time. *)
(* Occurrences, schedules and the pass are separate documents; only some   *)
(* of the updates ask for the lease.  A lease may lapse while its worker   *)
(* is still running, so it keeps nobody out for good.                      *)
(***************************************************************************)
EXTENDS PassCounters, DestinationResolver, FiniteSets

CONSTANTS
  Schedule,         \* idempotency keys of schedules on the pass
  Fiber,            \* the schedules the charge handler executes
  Scheduler,        \* workers
  Price,            \* the amount of one occurrence
  LastDue,          \* the number of the last due date before the pass expires
  OccurrenceLimit,  \* occurrenceLimit of every schedule
  MaxReplacements   \* bound on replacements of the destination

ASSUME ScheduleAssumption ==
  /\ IsFiniteSet(Schedule) /\ Schedule # {} /\ Fiber \subseteq Schedule
  /\ Price \in Nat \ {0}
  /\ LastDue \in Nat
  /\ OccurrenceLimit \in Nat \ {0}
  /\ MaxReplacements \in Nat

Due == 0..LastDue

VARIABLES
  schedule,     \* the PaymentSchedule documents
  occurrence,   \* the ScheduledOccurrence documents, by schedule and due date
  payment,      \* the executor's payment under the key of each occurrence
  destination,  \* the active destination: its version and whether it fits
  scheduler,    \* what each worker is doing
  request       \* the owner's control request

scheduleVars == <<schedule, occurrence, payment, destination, scheduler, request>>

Closed == {"completed", "revoked", "depleted", "expired"}
ScheduleRecord ==
  [status: {"none", "active", "paused"} \cup Closed, next: Due, count: Nat, dest: Nat]
OccurrenceRecord ==
  [status: {"absent", "resolving", "executing", "uncertain", "retrying", "blocked", "succeeded"},
   hold: {"none", "reserved", "released", "spent"},
   lease: Scheduler \cup {"none"}, submitted: BOOLEAN]
PaymentStatus == {"none", "pending", "succeeded", "failed"}
DestinationRecord == [version: Nat, fits: BOOLEAN]

\* dest, ended and revoked: the schedule's destination, whether its occurrence
\* limit was reached and whether it was revoked when it was read; inflight: the
\* pass over submitted occurrences; to: the status a closing schedule gets.
SchedulerRecord ==
  [at: {"idle", "pass", "close", "closing", "claim", "lookup", "recovered", "reserve", "deplete",
        "depleted", "resolve", "store", "submit", "pay", "answer", "finalize", "unsure",
        "retry", "suspend", "block"},
   s: Schedule, n: Due, dest: Nat, ended: BOOLEAN, revoked: BOOLEAN, inflight: BOOLEAN,
   to: Closed]
RequestRecord ==
  [at: {"idle", "save", "list", "block"}, s: Schedule, to: {"active", "paused", "revoked"},
   block: SUBSET Due]

AnySchedule == CHOOSE s \in Schedule : TRUE
NoSchedule == [status |-> "none", next |-> 0, count |-> 0, dest |-> 0]
IdleScheduler ==
  [at |-> "idle", s |-> AnySchedule, n |-> 0, dest |-> 0, ended |-> FALSE, revoked |-> FALSE,
   inflight |-> FALSE, to |-> "completed"]
IdleRequest == [at |-> "idle", s |-> AnySchedule, to |-> "active", block |-> {}]

ScheduleInit ==
  /\ schedule = [s \in Schedule |-> NoSchedule]
  /\ occurrence = [s \in Schedule |-> [n \in Due |->
       [status |-> "absent", hold |-> "none", lease |-> "none", submitted |-> FALSE]]]
  /\ payment = [s \in Schedule |-> [n \in Due |-> "none"]]
  /\ destination = [version |-> 0, fits |-> TRUE]
  /\ scheduler = [w \in Scheduler |-> IdleScheduler]
  /\ request = IdleRequest
-----------------------------------------------------------------------------
Owns(w) == occurrence[scheduler[w].s][scheduler[w].n].lease = w
Occ(w) == occurrence[scheduler[w].s][scheduler[w].n]
Paying(w) == payment[scheduler[w].s][scheduler[w].n]
Goto(w, at) == scheduler' = [scheduler EXCEPT ![w].at = at]
GotoForgetting(w, at) == scheduler' = [scheduler EXCEPT ![w].at = at, ![w].dest = 0]
GoIdle(w) == scheduler' = [scheduler EXCEPT ![w] = IdleScheduler]

\* Updates of one occurrence: with the lease, without it, and not at all.
SetOccurrence(w, new) ==
  occurrence' = [occurrence EXCEPT ![scheduler[w].s][scheduler[w].n] = new]
Unleased(o, status) == [o EXCEPT !.status = status, !.lease = "none"]
UpdateIfLeased(w, new) == IF Owns(w) THEN SetOccurrence(w, new) ELSE UNCHANGED occurrence

\* releaseOccurrenceBudget and blockOccurrence, one transaction: the reserve
\* goes back, the occurrence is blocked whatever its status has become, and
\* its schedule is paused.
BlockedOccurrence(o) ==
  [Unleased(o, "blocked") EXCEPT !.hold = IF @ = "reserved" THEN "released" ELSE @]
BlockOccurrence(s, n) ==
  /\ IF occurrence[s][n].hold = "reserved"
     THEN purse' = Returned(Price) /\ WriteReserved
     ELSE UNCHANGED <<purse, minor>>
  /\ occurrence' = [occurrence EXCEPT ![s][n] = BlockedOccurrence(@)]
  /\ schedule' = [schedule EXCEPT ![s].status = IF @ = "active" THEN "paused" ELSE @]
  /\ UNCHANGED charge
-----------------------------------------------------------------------------
\* createPaymentSchedule under a key that is not in use; a replay changes
\* nothing.
CreatePaymentSchedule(s) ==
  /\ schedule[s].status = "none"
  /\ Usable
  /\ destination.fits
  /\ Room(Price)
  /\ schedule' = [schedule EXCEPT ![s].status = "active", ![s].dest = destination.version]
  /\ UNCHANGED <<occurrence, payment, destination, scheduler, request, passVars>>

\* configureReusablePaymentDestination, one transaction: the old destination is
\* replaced; schedules follow one of their rail, network and asset, and are
\* paused by another.
ConfigureDestination(fits) ==
  LET version == destination.version + 1
  IN /\ destination.version < MaxReplacements
     /\ purse.status \in {"active", "paused", "lapsed"}
     /\ destination' = [version |-> version, fits |-> fits]
     /\ schedule' = [s \in Schedule |->
          IF schedule[s].status \notin {"active", "paused"} THEN schedule[s]
          ELSE IF fits THEN [schedule[s] EXCEPT !.dest = version]
          ELSE [schedule[s] EXCEPT !.status = "paused"]]
     /\ UNCHANGED <<occurrence, payment, scheduler, request, passVars>>

\* controlPaymentSchedule loads the schedule, saves the new status over it, and
\* a revocation then lists and blocks the occurrences that were not submitted.
LoadForControl(s, to) ==
  /\ request.at = "idle"
  /\ CASE to = "paused" -> schedule[s].status = "active"
       [] to = "active" -> schedule[s].status = "paused" /\ Usable
       [] to = "revoked" -> schedule[s].status \in {"active", "paused"}
  /\ request' = [IdleRequest EXCEPT !.at = "save", !.s = s, !.to = to]
  /\ UNCHANGED <<schedule, occurrence, payment, destination, scheduler, passVars>>

SaveControl ==
  /\ request.at = "save"
  /\ schedule' = [schedule EXCEPT ![request.s].status = request.to]
  /\ request' = IF request.to = "revoked" THEN [request EXCEPT !.at = "list"] ELSE IdleRequest
  /\ UNCHANGED <<occurrence, payment, destination, scheduler, passVars>>

ListReleasable ==
  LET Releasable == {n \in Due : /\ occurrence[request.s][n].status \in {"resolving", "retrying"}
                                 /\ ~occurrence[request.s][n].submitted}
  IN /\ request.at = "list"
     /\ request' = IF Releasable = {} THEN IdleRequest
                   ELSE [request EXCEPT !.at = "block", !.block = Releasable]
     /\ UNCHANGED <<schedule, occurrence, payment, destination, scheduler, passVars>>

BlockListed(n) ==
  /\ request.at = "block"
  /\ n \in request.block
  /\ BlockOccurrence(request.s, n)
  /\ request' = IF request.block = {n} THEN IdleRequest ELSE [request EXCEPT !.block = @ \ {n}]
  /\ UNCHANGED <<payment, destination, scheduler>>
-----------------------------------------------------------------------------
\* The second half of runDuePaymentSchedules: a schedule that is due is listed.
ListDue(w, s) ==
  /\ scheduler[w].at = "idle"
  /\ schedule[s].status = "active"
  /\ scheduler' = [scheduler EXCEPT ![w] = [IdleScheduler EXCEPT !.at = "pass", !.s = s,
                                              !.n = schedule[s].next, !.dest = schedule[s].dest,
                                              !.ended = schedule[s].count >= OccurrenceLimit]]
  /\ UNCHANGED <<schedule, occurrence, payment, destination, request, passVars>>

\* The pass as it is now decides: go on, leave it for later, or close.
ReadPass(w) ==
  LET closedBy == CASE purse.status = "settled" -> "completed"
                    [] purse.status = "revoked" -> "revoked"
                    [] OTHER -> "expired"
  IN /\ scheduler[w].at = "pass"
     /\ scheduler' = CASE Usable -> [scheduler EXCEPT ![w].at = "claim"]
                       [] purse.status = "paused" -> [scheduler EXCEPT ![w] = IdleScheduler]
                       [] OTHER -> [scheduler EXCEPT ![w].at = "close", ![w].to = closedBy]
     /\ UNCHANGED <<schedule, occurrence, payment, destination, request, passVars>>

\* closeScheduleForPassState looks for an occurrence that was not submitted,
\* blocks it, and closes the schedule.
LookBeforeClosing(w) ==
  /\ scheduler[w].at = "close"
  /\ scheduler' = [scheduler EXCEPT ![w].at = "closing",
       ![w].inflight = Occ(w).status \in {"resolving", "retrying"} /\ ~Occ(w).submitted]
  /\ UNCHANGED <<schedule, occurrence, payment, destination, request, passVars>>

BlockBeforeClosing(w) ==
  /\ scheduler[w].at = "closing"
  /\ scheduler[w].inflight
  /\ BlockOccurrence(scheduler[w].s, scheduler[w].n)
  /\ scheduler' = [scheduler EXCEPT ![w].inflight = FALSE]
  /\ UNCHANGED <<payment, destination, request>>

CloseSchedule(w) ==
  /\ scheduler[w].at = "closing"
  /\ ~scheduler[w].inflight
  /\ schedule' = [schedule EXCEPT ![scheduler[w].s].status =
                    IF @ \in {"active", "paused"} THEN scheduler[w].to ELSE @]
  /\ GoIdle(w)
  /\ UNCHANGED <<occurrence, payment, destination, request, passVars>>

\* The occurrence limit is checked on the copy.
CompleteSchedule(w) ==
  /\ scheduler[w].at = "claim"
  /\ scheduler[w].ended
  /\ schedule' = [schedule EXCEPT ![scheduler[w].s].status =
                    IF @ = "active" THEN "completed" ELSE @]
  /\ GoIdle(w)
  /\ UNCHANGED <<occurrence, payment, destination, request, passVars>>

Claimable == {"absent", "resolving", "executing", "uncertain", "retrying"}

\* claimOccurrence: the occurrence is created, or its lease is taken over.
ClaimOccurrence(w) ==
  /\ scheduler[w].at = "claim"
  /\ ~scheduler[w].ended
  /\ IF Occ(w).status \in Claimable
     THEN /\ SetOccurrence(w, [Occ(w) EXCEPT !.lease = w,
                                 !.status = IF @ = "absent" THEN "resolving" ELSE @])
          /\ Goto(w, "lookup")
     ELSE UNCHANGED occurrence /\ GoIdle(w)
  /\ UNCHANGED <<schedule, payment, destination, request, passVars>>

\* The first half of runDuePaymentSchedules: the schedule is read, whatever its
\* status, and claimInFlightOccurrence takes over a submitted occurrence.
ClaimInFlight(w, s, n) ==
  /\ scheduler[w].at = "idle"
  /\ occurrence[s][n].status \in {"executing", "uncertain"}
  /\ occurrence' = [occurrence EXCEPT ![s][n].lease = w]
  /\ scheduler' = [scheduler EXCEPT ![w] =
       [IdleScheduler EXCEPT !.at = "lookup", !.s = s, !.n = n, !.inflight = TRUE,
          !.revoked = schedule[s].status = "revoked"]]
  /\ UNCHANGED <<schedule, payment, destination, request, passVars>>

\* reconcileExistingExecution: what the executor knows under the key decides;
\* without a payment the occurrence is executed, or given back if it was
\* thought to be in flight.
LookUpPayment(w) ==
  /\ scheduler[w].at = "lookup"
  /\ Goto(w, CASE Paying(w) = "succeeded" -> "finalize"
               [] Paying(w) = "pending" -> "unsure"
               [] Paying(w) = "failed" -> "block"
               [] scheduler[w].inflight ->
                    IF scheduler[w].revoked THEN "block" ELSE "retry"
               [] scheduler[w].s \in Fiber -> "resolve"
               [] OTHER -> "reserve")
  /\ UNCHANGED <<schedule, occurrence, payment, destination, request, passVars>>

\* The occurrence goes on as uncertain for whoever claims it next, even if
\* another worker has ended it.
MarkUncertain(w) ==
  /\ scheduler[w].at = "unsure"
  /\ SetOccurrence(w, Unleased(Occ(w), "uncertain"))
  /\ GoIdle(w)
  /\ UNCHANGED <<schedule, payment, destination, request, passVars>>

\* Mutant of ReserveBudget: the reservation forgets what is already reserved.
ReserveBudgetTwice(w) ==
  /\ scheduler[w].at = "reserve"
  /\ IF Usable /\ Room(Price)
     THEN /\ purse' = Held(Price) /\ WriteAll
          /\ SetOccurrence(w, [Occ(w) EXCEPT !.hold = "reserved"])
          /\ Goto(w, "resolve")
     ELSE UNCHANGED <<purse, minor, occurrence>> /\ GoIdle(w)
  /\ UNCHANGED <<schedule, payment, destination, request, charge>>

\* reserveOccurrenceBudget, one transaction.  If the pass has just become
\* inactive, the occurrence keeps its lease until it lapses.
ReserveBudget(w) ==
  /\ scheduler[w].at = "reserve"
  /\ CASE Occ(w).hold \in {"reserved", "spent"} ->
            UNCHANGED <<purse, minor, occurrence>> /\ Goto(w, "resolve")
       [] Occ(w).hold \notin {"reserved", "spent"} /\ ~Usable ->
            UNCHANGED <<purse, minor, occurrence>> /\ GoIdle(w)
       [] Occ(w).hold \notin {"reserved", "spent"} /\ Usable /\ ~Room(Price) ->
            UNCHANGED <<purse, minor, occurrence>> /\ Goto(w, "deplete")
       [] OTHER -> /\ purse' = Held(Price) /\ WriteAll
                   /\ SetOccurrence(w, [Occ(w) EXCEPT !.hold = "reserved"])
                   /\ Goto(w, "resolve")
  /\ UNCHANGED <<schedule, payment, destination, request, charge>>

DepleteSchedule(w) ==
  /\ scheduler[w].at = "deplete"
  /\ schedule' = [schedule EXCEPT ![scheduler[w].s].status =
                    IF @ = "active" THEN "depleted" ELSE @]
  /\ Goto(w, "depleted")
  /\ UNCHANGED <<occurrence, payment, destination, request, passVars>>

BlockDepleted(w) ==
  /\ scheduler[w].at = "depleted"
  /\ SetOccurrence(w, [Occ(w) EXCEPT !.status = "blocked"])
  /\ GoIdle(w)
  /\ UNCHANGED <<schedule, payment, destination, request, passVars>>

\* The destination of the copy must still be the active one, and the resolver
\* must answer with a request of the authorized contract.
ResolveRequest(w) ==
  LET rail == IF scheduler[w].s \in Fiber THEN "fiber" ELSE "lightning"
  IN /\ scheduler[w].at = "resolve"
     /\ \/ /\ scheduler[w].dest = destination.version /\ destination.fits
           /\ \E outcome \in Resolution("endpoint", rail) :
                GotoForgetting(w, CASE outcome = "resolved" -> "store"
                                    [] outcome # "resolved" /\ ScheduleRetries(outcome) -> "retry"
                                    [] OTHER -> "block")
        \/ /\ scheduler[w].dest # destination.version \/ ~destination.fits
           /\ GotoForgetting(w, "block")
     /\ UNCHANGED <<schedule, occurrence, payment, destination, request, passVars>>

\* The hash of the request is stored under the lease; one that was used before
\* is refused by the unique index.
StoreRequest(w) ==
  /\ scheduler[w].at = "store"
  /\ \/ /\ UpdateIfLeased(w, [Occ(w) EXCEPT !.status = "executing"])
        /\ IF Owns(w) THEN Goto(w, "submit") ELSE GoIdle(w)
     \/ Owns(w) /\ UNCHANGED occurrence /\ Goto(w, "retry")
  /\ UNCHANGED <<schedule, payment, destination, request, passVars>>

\* executeResolvedRequest does not ask whether the update found its lease.
MarkSubmitted(w) ==
  /\ scheduler[w].at = "submit"
  /\ UpdateIfLeased(w, [Occ(w) EXCEPT !.status = "executing", !.submitted = TRUE])
  /\ Goto(w, "pay")
  /\ UNCHANGED <<schedule, payment, destination, request, passVars>>

\* A charge of a Fiber schedule reserves the amount itself.
Start(s) == IF s \in Fiber THEN ChargeFits(Price) /\ ChargeReserves(Price) ELSE UNCHANGED minor

\* The executor starts one payment per key and refuses or joins another call.
Pay(w) ==
  LET s == scheduler[w].s n == scheduler[w].n
  IN /\ scheduler[w].at = "pay"
     /\ \/ /\ payment[s][n] = "none"
           /\ Start(s)
           /\ payment' = [payment EXCEPT ![s][n] = "pending"]
           /\ Goto(w, "answer")
        \/ payment[s][n] # "none" /\ UNCHANGED <<minor, payment>> /\ Goto(w, "answer")
        \/ UNCHANGED <<minor, payment>> /\ \E at \in {"retry", "block"} : Goto(w, at)
     /\ UNCHANGED <<schedule, occurrence, destination, request, purse, charge>>

\* Mutant of ReadAnswer: a payment that was accepted counts as paid.
ReadAnswerAccepted(w) ==
  /\ scheduler[w].at = "answer"
  /\ Goto(w, IF Paying(w) \in {"pending", "succeeded"} THEN "finalize" ELSE "unsure")
  /\ UNCHANGED <<schedule, occurrence, payment, destination, request, passVars>>

\* Only a success is final for the occurrence; an answer may be lost.
ReadAnswer(w) ==
  /\ scheduler[w].at = "answer"
  /\ \/ Goto(w, IF Paying(w) = "succeeded" THEN "finalize" ELSE "unsure")
     \/ \E at \in {"retry", "block"} : Goto(w, at)
  /\ UNCHANGED <<schedule, occurrence, payment, destination, request, passVars>>

\* The executor settles a payment; a charge moves or returns its reserve, and
\* stays pending when that is gone.
SettlePayment(s, n) ==
  /\ payment[s][n] = "pending"
  /\ \/ /\ payment' = [payment EXCEPT ![s][n] = "succeeded"]
        /\ IF s \in Fiber THEN ChargeFinalizes(Price) ELSE UNCHANGED minor
     \/ /\ payment' = [payment EXCEPT ![s][n] = "failed"]
        /\ IF s \in Fiber THEN ChargeReleases(Price) ELSE UNCHANGED minor
  /\ UNCHANGED <<schedule, occurrence, destination, scheduler, request, purse, charge>>

\* Mutant of Advanced: a schedule that ends is saved without its count.
AdvancedUncounted(record, n, after) ==
  CASE after.spent + after.reserved + Price > PassLimit -> [record EXCEPT !.status = "depleted"]
    [] record.count + 1 >= OccurrenceLimit -> [record EXCEPT !.status = "completed"]
    [] OTHER -> [record EXCEPT !.count = @ + 1, !.next = n + 1]

\* What the schedule becomes after the success of due date n: depleted, ended
\* by its limit, ended by the expiry of the pass, or waiting for the next date.
Advanced(record, n, after) ==
  LET counted == [record EXCEPT !.count = @ + 1]
  IN CASE after.spent + after.reserved + Price > PassLimit -> [counted EXCEPT !.status = "depleted"]
       [] counted.count >= OccurrenceLimit -> [counted EXCEPT !.status = "completed"]
       [] n = LastDue -> [counted EXCEPT !.status = "expired"]
       [] OTHER -> [counted EXCEPT !.next = n + 1]

\* Mutant of Finalizes: a reservation that is gone does not matter.
FinalizesUnreserved(w) == Occ(w).status # "succeeded"

Finalizes(w) ==
  /\ Occ(w).status # "succeeded"
  /\ scheduler[w].s \notin Fiber => Occ(w).hold = "reserved" /\ purse.reserved >= Price

\* finalizeOccurrenceSuccess, one transaction with the receipt.
FinalizeSuccess(w) ==
  LET s == scheduler[w].s n == scheduler[w].n
  IN /\ scheduler[w].at = "finalize"
     /\ Finalizes(w)
     /\ IF s \in Fiber THEN UNCHANGED <<purse, minor>> ELSE purse' = Debited(Price) /\ WriteSpent
     /\ SetOccurrence(w, [Unleased(Occ(w), "succeeded") EXCEPT
                            !.hold = IF s \in Fiber THEN @ ELSE "spent"])
     /\ schedule' = [schedule EXCEPT ![s] = Advanced(@, n, purse')]
     /\ GoIdle(w)
     /\ UNCHANGED <<payment, destination, request, charge>>

\* Another worker has finalized the occurrence, or the reservation is missing.
FinalizeRefused(w) ==
  /\ scheduler[w].at = "finalize"
  /\ ~Finalizes(w)
  /\ IF Occ(w).status = "succeeded" THEN GoIdle(w)
     ELSE Goto(w, IF scheduler[w].inflight THEN "suspend" ELSE "retry")
  /\ UNCHANGED <<schedule, occurrence, payment, destination, request, passVars>>

\* markOccurrenceRetry: an occurrence in flight that an error has interrupted
\* stays uncertain.
MarkRetry(w) ==
  /\ scheduler[w].at \in {"retry", "suspend"}
  /\ UpdateIfLeased(w, Unleased(Occ(w),
       IF scheduler[w].at = "retry" THEN "retrying" ELSE "uncertain"))
  /\ GoIdle(w)
  /\ UNCHANGED <<schedule, payment, destination, request, passVars>>

BlockFailed(w) ==
  /\ scheduler[w].at = "block"
  /\ BlockOccurrence(scheduler[w].s, scheduler[w].n)
  /\ GoIdle(w)
  /\ UNCHANGED <<payment, destination, request>>

\* A step that asks the database or the provider fails: retryableError decides,
\* and in-flight occurrences are always retried.
StepFails(w) ==
  /\ scheduler[w].at \in {"lookup", "reserve", "finalize"}
  /\ \E at \in IF scheduler[w].inflight THEN {"suspend"} ELSE {"retry", "block"} : Goto(w, at)
  /\ UNCHANGED <<schedule, occurrence, payment, destination, request, passVars>>

CrashScheduler(w) ==
  /\ scheduler[w].at # "idle"
  /\ GoIdle(w)
  /\ UNCHANGED <<schedule, occurrence, payment, destination, request, passVars>>
-----------------------------------------------------------------------------
SchedulerStep(w) ==
  \/ ReadPass(w) \/ LookBeforeClosing(w) \/ BlockBeforeClosing(w) \/ CloseSchedule(w)
  \/ CompleteSchedule(w) \/ ClaimOccurrence(w) \/ LookUpPayment(w) \/ MarkUncertain(w)
  \/ ReserveBudget(w) \/ DepleteSchedule(w) \/ BlockDepleted(w)
  \/ ResolveRequest(w) \/ StoreRequest(w) \/ MarkSubmitted(w) \/ Pay(w) \/ ReadAnswer(w)
  \/ FinalizeSuccess(w) \/ FinalizeRefused(w) \/ MarkRetry(w) \/ BlockFailed(w) \/ StepFails(w)

ControlStep == SaveControl \/ ListReleasable \/ \E n \in Due : BlockListed(n)

ScheduleNext ==
  \/ \E s \in Schedule : CreatePaymentSchedule(s)
  \/ \E fits \in BOOLEAN : ConfigureDestination(fits)
  \/ \E s \in Schedule, to \in {"active", "paused", "revoked"} : LoadForControl(s, to)
  \/ ControlStep
  \/ \E w \in Scheduler, s \in Schedule : ListDue(w, s) \/ \E n \in Due : ClaimInFlight(w, s, n)
  \/ \E w \in Scheduler : SchedulerStep(w) \/ CrashScheduler(w)
  \/ \E s \in Schedule, n \in Due : SettlePayment(s, n)
-----------------------------------------------------------------------------
Reserving == {o \in (Schedule \ Fiber) \X Due : occurrence[o[1]][o[2]].hold = "reserved"}
Spent == {o \in (Schedule \ Fiber) \X Due : occurrence[o[1]][o[2]].hold = "spent"}
FiberIn(status) == {o \in Fiber \X Due : payment[o[1]][o[2]] = status}
Unstarted == \A s \in Fiber, n \in Due : payment[s][n] = "none"

\* Every document holds statuses of its schema and every worker and request is
\* at a step of its handler.
ScheduleTypeOK ==
  /\ schedule \in [Schedule -> ScheduleRecord]
  /\ occurrence \in [Schedule -> [Due -> OccurrenceRecord]]
  /\ payment \in [Schedule -> [Due -> PaymentStatus]]
  /\ destination \in DestinationRecord
  /\ scheduler \in [Scheduler -> SchedulerRecord]
  /\ request \in RequestRecord

\* What the occurrences hold and have spent of the pass, and what the charges of
\* Fiber schedules do.
ScheduleHolds == Price * Cardinality(Reserving)
ScheduleSpent == Price * Cardinality(Spent)
FiberUses == Price * Cardinality(FiberIn("pending") \cup FiberIn("succeeded"))

\* An occurrence that says succeeded, or that was debited, was paid by the
\* executor, whichever worker finalized it and whatever the other one did.
OccurrenceSuccessIsPaid ==
  \A s \in Schedule, n \in Due :
    occurrence[s][n].status = "succeeded" \/ occurrence[s][n].hold = "spent"
      => payment[s][n] = "succeeded"

\* A schedule counts one occurrence for each debit and goes through its due
\* dates in order: what lies before the next one was debited.
CountFollowsDebits ==
  \A s \in Schedule \ Fiber :
    /\ schedule[s].count = Cardinality({n \in Due : <<s, n>> \in Spent})
    /\ \A n \in Due : n < schedule[s].next => <<s, n>> \in Spent
=============================================================================
