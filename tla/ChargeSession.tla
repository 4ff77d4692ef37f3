---------------------------- MODULE ChargeSession ----------------------------
(***************************************************************************)
(* chargeSession of session.service.ts as concurrent callers run it: API   *)
(* requests, retries with the same idempotency key and workers, each       *)
(* between any two awaits of the others, crashing anywhere, against a      *)
(* payment provider whose answers can be lost.  The reconciliation worker  *)
(* sweeps stale attempts and overdue passes next to them.  The stored      *)
(* documents and the steps on them are those of ChargeReservation.         *)
(***************************************************************************)
EXTENDS ChargeReservation

CONSTANTS
  InvoiceOf,   \* the Fiber invoice (payment hash) each key pays
  Expiring,    \* the passes with an expiry date
  MaxCrashes,  \* bound on crashes of callers
  MaxPauses    \* bound on the owner's pause and resume requests

ASSUME SessionAssumption ==
  /\ {"active", "paused", "expired", "settled"} \subseteq Status
  /\ Expiring \subseteq Pass
  /\ Key # {}

Invoice == {InvoiceOf[k] : k \in Key}

VARIABLES
  call,     \* where each caller is in chargeSession, for which key
  payment,  \* the provider's payment of each invoice
  sent,     \* how often send_payment reached the provider for each key
  due,      \* the passes whose expiry date has passed
  found,    \* stale attempts the sweep has read and not yet released
  overdue,  \* passes the sweep has read and not yet expired
  toggle,   \* the status the owner's request is about to save for each pass
  crashes, pauses

processVars == <<call, payment, sent, due, found, overdue, crashes, pauses, toggle>>
sessionVars == <<storeVars, processVars>>

Locations ==
  {"idle", "expire", "lookup", "funding", "quote", "acquire", "owned", "correlated",
   "execute", "waiting", "threw", "paid", "record", "unsure", "drop", "recover",
   "finalize", "reload", "exhaust", "settle", "giveBack"}

\* saw: the provider status of the attempt the caller read, "none" if it found
\* no attempt.
CallRecord ==
  [at: Locations, key: Key,
   saw: {"none", "not_started", "submitted", "uncertain", "succeeded", "failed"}]

SessionInit ==
  /\ StoreInit
  /\ \E k \in Key : call = [c \in Caller |-> [at |-> "idle", key |-> k, saw |-> "none"]]
  /\ payment = [i \in Invoice |-> "none"]
  /\ sent = [k \in Key |-> 0]
  /\ due = {}
  /\ found = {}
  /\ overdue = {}
  /\ crashes = 0
  /\ pauses = 0
  /\ toggle = [p \in Pass |-> "none"]
-----------------------------------------------------------------------------
KeyOf(c) == call[c].key
PassCharged(c) == PassOf[KeyOf(c)]
PaymentOf(k) == payment[InvoiceOf[k]]

At(c, here) == call[c].at = here

\* The caller goes on to another point of chargeSession.  Returning and throwing
\* are the same step: the request ends and the caller is free again.
GoTo(c, there) == call' = [call EXCEPT ![c].at = there]
Return(c) == GoTo(c, "idle")

OnlyCall == UNCHANGED <<payment, sent, due, found, overdue, crashes, pauses, toggle>>
NoStoreChange == UNCHANGED storeVars

\* A store operation whose filter does not match changes nothing.
OrNothing(enabled, Step) == IF enabled THEN Step ELSE NoStoreChange

\* assertChargePreflight passes, on the pass as loaded now; otherwise the
\* request ends without a trace.
BeginCharge(c, k) ==
  /\ At(c, "idle")
  /\ pass[PassOf[k]].status = "active"
  /\ pass[PassOf[k]].lifecycle = "idle"
  /\ call' = [call EXCEPT
                ![c] = [at |-> IF PassOf[k] \in due THEN "expire" ELSE "lookup",
                        key |-> k, saw |-> "none"]]
  /\ NoStoreChange /\ OnlyCall

\* The loaded pass is past its expiry date: it is marked expired and saved.
ExpireOnCharge(c) ==
  /\ At(c, "expire")
  /\ pass' = [pass EXCEPT ![PassCharged(c)].status = "expired"]
  /\ Return(c)
  /\ UNCHANGED <<daily, attempt, today, fundingVars>> /\ OnlyCall

\* Mutant of FindExistingAttempt: the attempt's own status is taken for the
\* provider's.
FindExistingStatus(c) ==
  LET a == attempt[KeyOf(c)]
  IN /\ At(c, "lookup")
     /\ IF a.status \in {"succeeded", "failed"} THEN Return(c)
        ELSE call' = [call EXCEPT
                        ![c].at = "funding",
                        ![c].saw = IF a.status = "absent" THEN "none" ELSE a.status]
     /\ NoStoreChange /\ OnlyCall

\* The lookup by idempotency key.  A resolved attempt answers the request.
FindExistingAttempt(c) ==
  LET a == attempt[KeyOf(c)]
  IN /\ At(c, "lookup")
     /\ IF a.status \in {"succeeded", "failed"} THEN Return(c)
        ELSE call' = [call EXCEPT
                        ![c].at = "funding",
                        ![c].saw = IF a.status = "absent" THEN "none" ELSE a.provider]
     /\ NoStoreChange /\ OnlyCall

\* fundingExecutionStatus and the connector's capability check: the allocation
\* covers the charge and its source is secured, proved, fresh and not short.
FundingReady(p, amount) ==
  LET s == alloc[p].source
  IN /\ alloc[p].state = "active"
     /\ alloc[p].remaining >= amount
     /\ ~source[s].failed
     /\ s \in Secured
     /\ source[s].proved /\ source[s].fresh
     /\ source[s].balance >= source[s].reserved
     /\ source[s].balance >= amount
     /\ source[s].reserved >= amount

CheckFunding(c) ==
  /\ At(c, "funding")
  /\ IF ~FundingReady(PassCharged(c), Amount[KeyOf(c)]) THEN Return(c)
     ELSE GoTo(c, IF call[c].saw \in {"none", "not_started"} THEN "quote" ELSE "recover")
  /\ NoStoreChange /\ OnlyCall

\* connector.quote answers, or fails; a failed quote drops an existing attempt.
Quote(c) ==
  /\ At(c, "quote")
  /\ \/ GoTo(c, "acquire")
     \/ GoTo(c, IF call[c].saw = "none" THEN "idle" ELSE "drop")
  /\ NoStoreChange /\ OnlyCall

\* reserveChargeAttempt creates the attempt, with the caller's lease.
Reserve(c) ==
  /\ At(c, "acquire") /\ call[c].saw = "none"
  /\ \E d \in RecentDays : ReserveChargeAttempt(c, KeyOf(c), d)
  /\ GoTo(c, "owned")
  /\ OnlyCall

\* reserveChargeAttempt finds an attempt another caller created meanwhile.
ReserveFindsAttempt(c) ==
  LET a == attempt[KeyOf(c)]
  IN /\ At(c, "acquire") /\ call[c].saw = "none"
     /\ a.status # "absent"
     /\ IF Unresolved(KeyOf(c)) /\ a.provider # "not_started"
        THEN call' = [call EXCEPT ![c].at = "recover", ![c].saw = a.provider]
        ELSE Return(c)
     /\ NoStoreChange /\ OnlyCall

\* The pass or the day has no room, or the pass is no longer open.
ReserveRejected(c) ==
  LET k == KeyOf(c)
  IN /\ At(c, "acquire") /\ call[c].saw = "none"
     /\ attempt[k].status = "absent"
     /\ \/ ~PassAdmits(PassOf[k], Amount[k])
        \/ \E d \in RecentDays : \E counter \in CountersOn(PassOf[k], d) :
             ~DayAdmits(counter, Amount[k])
     /\ Return(c)
     /\ NoStoreChange /\ OnlyCall

\* A retry takes over an attempt that never started, once its lease has run out.
Claim(c) ==
  /\ At(c, "acquire") /\ call[c].saw = "not_started"
  /\ ClaimChargeExecution(c, KeyOf(c))
  /\ GoTo(c, "owned")
  /\ OnlyCall

ClaimRefused(c) ==
  /\ At(c, "acquire") /\ call[c].saw = "not_started"
  /\ ~(NotStarted(KeyOf(c)) /\ attempt[KeyOf(c)].age # "held")
  /\ Return(c)
  /\ NoStoreChange /\ OnlyCall

\* The owner finds its quote expired, or records the provider correlation.
Correlate(c) ==
  /\ At(c, "owned")
  /\ \/ GoTo(c, "drop")
     \/ GoTo(c, IF OwnsUnstarted(c, KeyOf(c)) THEN "correlated" ELSE "idle")
  /\ NoStoreChange /\ OnlyCall

\* Mutant of Submit: the attempt is not marked before the payment is sent.
SubmitUnmarked(c) ==
  /\ At(c, "correlated")
  /\ GoTo(c, IF OwnsUnstarted(c, KeyOf(c)) THEN "execute" ELSE "idle")
  /\ NoStoreChange /\ OnlyCall

Submit(c) ==
  LET owner == OwnsUnstarted(c, KeyOf(c))
  IN /\ At(c, "correlated")
     /\ OrNothing(owner, MarkChargeProviderSubmitted(c, KeyOf(c)))
     /\ GoTo(c, IF owner THEN "execute" ELSE "idle")
     /\ OnlyCall

\* send_payment reaches the provider.  A provider that already has a live
\* payment of the invoice refuses a second one.
Send(c) ==
  LET k == KeyOf(c)
  IN /\ At(c, "execute")
     /\ PaymentOf(k) \in {"none", "failed"}
     /\ payment' = [payment EXCEPT ![InvoiceOf[k]] = "inflight"]
     /\ sent' = [sent EXCEPT ![k] = @ + 1]
     /\ GoTo(c, "waiting")
     /\ NoStoreChange
     /\ UNCHANGED <<due, found, overdue, crashes, pauses, toggle>>

\* The call throws before it reaches the provider.
SendFails(c) ==
  /\ At(c, "execute")
  /\ GoTo(c, "threw")
  /\ NoStoreChange /\ OnlyCall

\* Mutant of Answer: an answer that is not a failure counts as a success.
AnswerUnlessFailed(c) ==
  /\ At(c, "waiting")
  /\ \/ PaymentOf(KeyOf(c)) # "failed" /\ GoTo(c, "paid")
     \/ GoTo(c, "threw")
  /\ NoStoreChange /\ OnlyCall

\* The answer: only a Success is one; any other answer, a timeout or a lost
\* connection throws.
Answer(c) ==
  /\ At(c, "waiting")
  /\ \/ PaymentOf(KeyOf(c)) = "paid" /\ GoTo(c, "paid")
     \/ GoTo(c, "threw")
  /\ NoStoreChange /\ OnlyCall

\* connector.lookup by payment hash: a final outcome, or nothing (an error, an
\* unknown payment, or one still in flight).
Lookup(c, unknown) ==
  \/ PaymentOf(KeyOf(c)) = "paid" /\ GoTo(c, "record")
  \/ PaymentOf(KeyOf(c)) = "failed" /\ GoTo(c, "drop")
  \/ GoTo(c, unknown)

LookupAfterError(c) ==
  /\ At(c, "threw")
  /\ Lookup(c, "unsure")
  /\ NoStoreChange /\ OnlyCall

\* Mutant of Recover: a definite failure is not acted upon.
RecoverPaidOnly(c) ==
  /\ At(c, "recover")
  /\ IF call[c].saw = "succeeded" THEN GoTo(c, "finalize")
     ELSE \/ PaymentOf(KeyOf(c)) = "paid" /\ GoTo(c, "record")
          \/ Return(c)
  /\ NoStoreChange /\ OnlyCall

\* recoverProviderOutcome, on the provider status the caller read.
Recover(c) ==
  /\ At(c, "recover")
  /\ IF call[c].saw = "succeeded" THEN GoTo(c, "finalize") ELSE Lookup(c, "idle")
  /\ NoStoreChange /\ OnlyCall

\* The provider's success is stored before the reservation is finalized.
PersistSuccess(c) ==
  LET open == Unresolved(KeyOf(c))
  IN /\ At(c, "paid")
     /\ OrNothing(open, MarkChargeProviderSucceeded(KeyOf(c)))
     /\ GoTo(c, IF open THEN "finalize" ELSE "idle")
     /\ OnlyCall

\* After a lookup the result of storing the success is not looked at.
RecordLookup(c) ==
  /\ At(c, "record")
  /\ OrNothing(Unresolved(KeyOf(c)), MarkChargeProviderSucceeded(KeyOf(c)))
  /\ GoTo(c, "finalize")
  /\ OnlyCall

RecordUncertain(c) ==
  /\ At(c, "unsure")
  /\ OrNothing(Unresolved(KeyOf(c)), MarkChargeOutcomeUncertain(KeyOf(c)))
  /\ Return(c)
  /\ OnlyCall

\* releaseChargeReservation, and the request fails.
Drop(c) ==
  LET k == KeyOf(c)
  IN /\ At(c, "drop")
     /\ OrNothing(k \in Held /\ CountersHold(k), ReleaseChargeReservation(k))
     /\ Return(c)
     /\ OnlyCall

\* finalizeChargeReservation debits the reservation, finds it debited, or throws.
Finalize(c) ==
  LET k == KeyOf(c)
      ready == ReadyToFinalize(k) /\ CountersHold(k) /\ CanSpend(PassOf[k], Amount[k])
  IN /\ At(c, "finalize")
     /\ OrNothing(ready, FinalizeChargeReservation(k))
     /\ GoTo(c, IF ready \/ k \in Debited THEN "reload" ELSE "idle")
     /\ OnlyCall

\* completeCharge loads the pass again and decides from that copy; unless a
\* scheduled payout defers it, a single-use pass is settled.  A save writes the
\* status only if it differs from the loaded one.
Reload(c) ==
  LET p == PassCharged(c)
  IN /\ At(c, "reload")
     /\ IF pass[p].spent >= pass[p].limit
        THEN GoTo(c, IF pass[p].status = "expired" THEN "idle" ELSE "exhaust")
        ELSE \/ /\ p \in SingleUse
                /\ GoTo(c, IF pass[p].status = "settled" THEN "giveBack" ELSE "settle")
             \/ Return(c)
     /\ NoStoreChange /\ OnlyCall

\* It then saves the status it decided on, whatever happened in between.
SaveStatus(c) ==
  LET exhausted == At(c, "exhaust")
  IN /\ At(c, "exhaust") \/ At(c, "settle")
     /\ pass' = [pass EXCEPT ![PassCharged(c)].status =
                   IF exhausted THEN "expired" ELSE "settled"]
     /\ GoTo(c, IF exhausted THEN "idle" ELSE "giveBack")
     /\ UNCHANGED <<daily, attempt, today, fundingVars>> /\ OnlyCall

\* Mutant of ReleaseUnusedFunding: what the finalization released already is
\* released again.
ReleaseFundingTwice(c) ==
  LET p == PassCharged(c)
      s == alloc[p].source
  IN /\ At(c, "giveBack")
     /\ source' = [source EXCEPT
                     ![s] = ReleasedSource(s, @, alloc[p].authorized - alloc[p].spent)]
     /\ UNCHANGED <<alloc, loaded, reservationVars>>
     /\ Return(c)
     /\ OnlyCall

ReleaseUnusedFunding(c) ==
  LET p == PassCharged(c)
  IN /\ At(c, "giveBack")
     /\ OrNothing(alloc[p].state = "active" /\ ReleaseAllowed(alloc[p], source[alloc[p].source]),
                  ReleaseFunding(p) /\ UNCHANGED reservationVars)
     /\ Return(c)
     /\ OnlyCall

\* The process running a request stops; what it had stored and sent remains.
Crash(c) ==
  /\ crashes < MaxCrashes
  /\ ~At(c, "idle")
  /\ Return(c)
  /\ crashes' = crashes + 1
  /\ NoStoreChange
  /\ UNCHANGED <<payment, sent, due, found, overdue, pauses, toggle>>

ChargeStep(c) ==
  \/ ExpireOnCharge(c) \/ FindExistingAttempt(c) \/ CheckFunding(c) \/ Quote(c)
  \/ Reserve(c) \/ ReserveFindsAttempt(c) \/ ReserveRejected(c)
  \/ Claim(c) \/ ClaimRefused(c) \/ Correlate(c) \/ Submit(c)
  \/ Send(c) \/ SendFails(c) \/ Answer(c) \/ LookupAfterError(c) \/ Recover(c)
  \/ PersistSuccess(c) \/ RecordLookup(c) \/ RecordUncertain(c) \/ Drop(c)
  \/ Finalize(c) \/ Reload(c) \/ SaveStatus(c) \/ ReleaseUnusedFunding(c)
-----------------------------------------------------------------------------
\* The provider settles a payment in flight.
ProviderSettles(i) ==
  /\ payment[i] = "inflight"
  /\ \E outcome \in {"paid", "failed"} : payment' = [payment EXCEPT ![i] = outcome]
  /\ NoStoreChange
  /\ UNCHANGED <<call, sent, due, found, overdue, crashes, pauses, toggle>>

\* An expiry date passes.
ExpiryPasses(p) ==
  /\ p \in Expiring \ due
  /\ pass[p].status # "none"
  /\ due' = due \cup {p}
  /\ NoStoreChange
  /\ UNCHANGED <<call, payment, sent, found, overdue, crashes, pauses, toggle>>

\* releaseStaleChargeAttempts reads its batch once ...
SweepAttempts ==
  LET stale == {k \in Key : NotStarted(k) /\ attempt[k].age = "stale"}
  IN /\ found = {}
     /\ stale # {}
     /\ found' = stale
     /\ NoStoreChange
     /\ UNCHANGED <<call, payment, sent, due, overdue, crashes, pauses, toggle>>

\* ... and releases the attempts of the batch one after the other, up to one
\* whose release throws.
ReleaseStale(k) ==
  /\ k \in found
  /\ OrNothing(k \in Held /\ CountersHold(k), ReleaseChargeReservation(k))
  /\ found' = IF k \in Held /\ ~CountersHold(k) THEN {} ELSE found \ {k}
  /\ UNCHANGED <<call, payment, sent, due, overdue, crashes, pauses, toggle>>

\* expireDueSessions reads the open passes that are past their date ...
SweepPasses ==
  LET late == {p \in due : pass[p].status \in {"active", "paused"}}
  IN /\ overdue = {}
     /\ late # {}
     /\ overdue' = late
     /\ NoStoreChange
     /\ UNCHANGED <<call, payment, sent, due, found, crashes, pauses, toggle>>

\* Mutant of ExpirePass: expiring a pass drops its pending reservations.
ExpirePassClearing(p) ==
  /\ p \in overdue
  /\ pass' = [pass EXCEPT ![p].status = "expired", ![p].reserved = 0]
  /\ overdue' = overdue \ {p}
  /\ UNCHANGED <<daily, attempt, today, fundingVars>>
  /\ UNCHANGED <<call, payment, sent, due, found, crashes, pauses, toggle>>

\* ... and saves each as expired.
ExpirePass(p) ==
  /\ p \in overdue
  /\ pass' = [pass EXCEPT ![p].status = "expired"]
  /\ overdue' = overdue \ {p}
  /\ UNCHANGED <<daily, attempt, today, fundingVars>>
  /\ UNCHANGED <<call, payment, sent, due, found, crashes, pauses, toggle>>

\* The owner pauses or resumes a pass that is open when it is loaded ...
LoadToggle(p) ==
  /\ pauses < MaxPauses
  /\ toggle[p] = "none"
  /\ pass[p].status \in {"active", "paused"}
  /\ pass[p].lifecycle = "idle"
  /\ toggle' = [toggle EXCEPT ![p] = IF pass[p].status = "paused" THEN "active" ELSE "paused"]
  /\ pauses' = pauses + 1
  /\ NoStoreChange
  /\ UNCHANGED <<call, payment, sent, due, found, overdue, crashes>>

\* ... and the new status is saved, whatever the pass has become.
SaveToggle(p) ==
  /\ toggle[p] # "none"
  /\ pass' = [pass EXCEPT ![p].status = toggle[p]]
  /\ toggle' = [toggle EXCEPT ![p] = "none"]
  /\ UNCHANGED <<daily, attempt, today, fundingVars>>
  /\ UNCHANGED <<call, payment, sent, due, found, overdue, crashes, pauses>>

\* Store steps of the environment that no caller takes part in.
Elsewhere ==
  /\ \/ \E k \in Key : LeaseRunsOut(k)
     \/ NextDay
     \/ \E p \in Pass, s \in Source, l \in Grant : CreateSession(p, s, l)
     \/ \E p \in Shared, l, s, r \in 0..MaxLimit, st \in Status : SpendElsewhere(p, l, s, r, st)
     \/ SourceNext /\ UNCHANGED reservationVars
  /\ UNCHANGED processVars

SessionNext ==
  \/ \E c \in Caller, k \in Key : BeginCharge(c, k)
  \/ \E c \in Caller : ChargeStep(c)
  \/ \E c \in Caller : Crash(c)
  \/ \E i \in Invoice : ProviderSettles(i)
  \/ SweepAttempts
  \/ \E k \in Key : ReleaseStale(k)
  \/ SweepPasses
  \/ \E p \in Pass : ExpiryPasses(p) \/ ExpirePass(p) \/ LoadToggle(p) \/ SaveToggle(p)
  \/ Elsewhere

SessionSpec == SessionInit /\ [][SessionNext]_sessionVars

\* Requests run to their end unless they crash, calls to the provider return,
\* payments settle, leases run out, the workers keep sweeping, and a client
\* keeps retrying with its key until the charge is resolved, as the API asks.
\* A lookup repeated forever is answered at last.
Fairness ==
  /\ \A c \in Caller : WF_sessionVars(ChargeStep(c))
  /\ \A c \in Caller :
       SF_sessionVars(Recover(c) /\ PaymentOf(KeyOf(c)) \in {"paid", "failed"} /\ ~At(c, "idle")')
  /\ \A k \in Key : SF_sessionVars(\E c \in Caller : BeginCharge(c, k))
  /\ \A i \in Invoice : WF_sessionVars(ProviderSettles(i))
  /\ \A k \in Key : WF_sessionVars(LeaseRunsOut(k) /\ UNCHANGED processVars)
  /\ WF_sessionVars(SweepAttempts)
  /\ \A k \in Key : WF_sessionVars(ReleaseStale(k))
  /\ WF_sessionVars(SweepPasses)
  /\ \A p \in Pass : WF_sessionVars(ExpirePass(p))
-----------------------------------------------------------------------------
\* The documents are well formed and every caller is at a step of chargeSession.
SessionTypeOK ==
  /\ ReservationTypeOK
  /\ call \in [Caller -> CallRecord]
  /\ payment \in [Invoice -> {"none", "inflight", "paid", "failed"}]
  /\ sent \in [Key -> Nat]
  /\ due \subseteq Pass
  /\ found \subseteq Key
  /\ overdue \subseteq Pass
  /\ crashes \in Nat
  /\ pauses \in Nat
  /\ toggle \in [Pass -> {"none", "active", "paused"}]

\* However many callers retry a key, crash or lose answers, at most one payment
\* is sent for it.
AtMostOnePayment == \A k \in Key : sent[k] <= 1

\* A payment reaches the provider only after its attempt says so, so no retry
\* can take a sent charge for one that never started.
SentIsRecorded ==
  \A k \in Key : sent[k] > 0 => attempt[k].provider # "not_started"

\* The pass is debited only for a payment the provider completed, and so is
\* every success an attempt has stored.
DebitedOnlyIfPaid ==
  \A k \in Key :
    attempt[k].provider = "succeeded" \/ k \in Debited => PaymentOf(k) = "paid"

\* Whatever the callers, the sweep and the provider do, a key sends at most one
\* payment, its attempt says so before it does, and only a completed payment is
\* debited.
PaymentsSound == AtMostOnePayment /\ SentIsRecorded /\ DebitedOnlyIfPaid

\* Callers and sweeps touch the documents only through the operations of the
\* reservation service and the moves ChargeReservation grants to others, so what
\* is proved of the store holds while they run.
ImplementsReservations == StoreSpec

\* What the worker-reliability document promises: the reservation of a charge
\* that was submitted is given back only after a definite failure.
ReleasedNeverPaid ==
  \A k \in Key : attempt[k].reserve = "released" /\ sent[k] > 0
                    => PaymentOf(k) = "failed"

\* What the security document says: charges of an expired pass are blocked.
NoReservationAfterExpiry ==
  [][\A k \in Key : attempt[k].reserve = "none" /\ PassOf[k] \in due
                      => attempt'[k].reserve = "none"]_sessionVars

\* Nothing stands between a retry and its attempt: the pass is open and its
\* funding passes the execution check.
Unobstructed(k) ==
  /\ pass[PassOf[k]].status = "active"
  /\ PassOf[k] \notin due
  /\ FundingReady(PassOf[k], Amount[k])

\* Once the obstacles to retrying are gone, every charge of a pass only charges
\* spend that never started or that the provider knows of is debited or given
\* back: no crash, lost answer or stale lease holds its money for ever.
ReservationsResolve ==
  \A k \in OwnKeys :
    <>[](k \in Held => Unobstructed(k) /\ (NotStarted(k) \/ sent[k] > 0))
      => []<>(k \notin Held)
=============================================================================
