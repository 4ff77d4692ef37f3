-------------------------- MODULE ChargeReservation --------------------------
(***************************************************************************)
(* chargeReservation.service.ts: the reservation each charge of a pass     *)
(* holds while its payment is made.  Every exported function is one        *)
(* transaction or one findOneAndUpdate, so it is one step here, and any    *)
(* caller may take it at any time: how chargeSession orders the calls is   *)
(* the subject of ChargeSession.  The pass itself is changed by other      *)
(* services as well; the environment steps say how.  Among them, the       *)
(* payment schedules and metered grants of a Shared pass keep counters of  *)
(* their own and write the pass's counters from those, so that what is     *)
(* said of a pass's counters is said of the passes only charges spend.     *)
(***************************************************************************)
EXTENDS FundingLedger

CONSTANTS
  Key,         \* idempotency keys, each used by one pass
  PassOf,      \* the pass a key charges
  Amount,      \* the amount a key charges
  Caller,      \* processes that execute charges; a lease id names its owner
  SingleUse,   \* the single-use passes
  Shared,      \* the passes that schedules and metered grants spend as well
  DailyLimit,  \* FIBERPASS_DAILY_SESSION_SPEND_LIMIT_CKB
  LastDay,     \* bound on the days the clock reaches
  MaxLimit,    \* bound on a pass's limit
  Status,      \* statuses a pass can be moved to
  Lifecycle    \* transition states a pass can be moved to

ASSUME ReservationAssumption ==
  /\ IsFiniteSet(Key)
  /\ PassOf \in [Key -> Pass]
  /\ Amount \in [Key -> Nat \ {0}]
  /\ SingleUse \subseteq Pass
  /\ Shared \subseteq Pass
  /\ DailyLimit \in Nat
  /\ LastDay \in Nat
  /\ MaxLimit \in Nat
  /\ "active" \in Status /\ "none" \notin Status
  /\ "idle" \in Lifecycle

VARIABLES
  pass,     \* the Session documents
  daily,    \* the ChargeDailyCounter document of each pass and day
  attempt,  \* the ChargeAttempt document of each key
  today     \* the UTC day

reservationVars == <<pass, daily, attempt, today>>
storeVars == <<fundingVars, reservationVars>>

Days == 0..LastDay

\* The day of a reservation is read off the clock before its transaction
\* starts, so a midnight may lie between the two.
RecentDays == {today - 1, today} \cap Days

\* The passes only charges spend.
Own == Pass \ Shared
OwnKeys == {k \in Key : PassOf[k] \in Own}

NoCaller == "nobody"

PassRecord ==
  [status: Status \cup {"none"}, lifecycle: Lifecycle,
   limit: Nat, spent: Nat, reserved: Nat]

\* open: the counter document exists.
CounterRecord == [open: BOOLEAN, spent: Nat, reserved: Nat]

\* day and created: reservationDay, and the day of createdAt.
\* age: executionLeaseExpiresAt is ahead, has passed, or passed longer ago than
\* the reconciliation worker's stale threshold.
AttemptRecord ==
  [status: {"absent", "pending", "uncertain", "succeeded", "failed"},
   reserve: {"none", "reserved", "debited", "released"},
   provider: {"not_started", "submitted", "uncertain", "succeeded", "failed"},
   lease: Caller \cup {NoCaller}, age: {"held", "expired", "stale"}, day: Days,
   created: Days]

NoAttempt ==
  [status |-> "absent", reserve |-> "none", provider |-> "not_started",
   lease |-> NoCaller, age |-> "held", day |-> 0, created |-> 0]

ReservationInit ==
  /\ pass = [p \in Pass |-> [status |-> "none", lifecycle |-> "idle",
                             limit |-> 0, spent |-> 0, reserved |-> 0]]
  /\ daily = [p \in Pass |-> [d \in Days |->
                [open |-> FALSE, spent |-> 0, reserved |-> 0]]]
  /\ attempt = [k \in Key |-> NoAttempt]
  /\ today = 0

StoreInit == FundingInit /\ ReservationInit
-----------------------------------------------------------------------------
\* The attempts that hold their reservation, and those that were debited.
Held == {k \in Key : attempt[k].reserve = "reserved"}
Debited == {k \in Key : attempt[k].reserve = "debited"}
BookedOn(d) == {k \in Key : attempt[k].day = d}
CreatedOn(d) == {k \in Key : attempt[k].created = d}

\* The amounts pass p is charged by the keys in K.
Charges(p, K) == [k \in Key |-> IF PassOf[k] = p /\ k \in K THEN Amount[k] ELSE 0]

\* What a day's history may hold of the usage events of a metered grant; with
\* more of them than this no charge of that day is admitted.
MeteredSpend(p) == IF p \in Shared THEN 0..DailyLimit ELSE {0}

\* Mutant of CountersOn: the history is what succeeded on any day.
CountersOfAllDays(p, d) ==
  IF daily[p][d].open THEN {daily[p][d]}
  ELSE {[open |-> TRUE, reserved |-> 0,
         spent |-> Total(Charges(p, {k \in Key : attempt[k].status = "succeeded"}))]}

\* The counter of day d as reserveChargeAttempt finds it: created on first use,
\* with the charges that have succeeded and were created that day, although it
\* then counts charges by the day they are reserved for.
CountersOn(p, d) ==
  IF daily[p][d].open THEN {daily[p][d]}
  ELSE {[open |-> TRUE, reserved |-> 0,
         spent |-> m + Total(Charges(p, {k \in CreatedOn(d) :
                                           attempt[k].status = "succeeded"}))] :
        m \in MeteredSpend(p)}

\* Mutant of PassAdmits: pending reservations do not count against the limit.
PassAdmitsBySpent(p, amount) ==
  /\ pass[p].status = "active"
  /\ pass[p].lifecycle = "idle"
  /\ p \in SingleUse => pass[p].spent + pass[p].reserved = 0
  /\ pass[p].spent + amount <= pass[p].limit

\* Mutant of PassAdmits: a pending charge does not use up a single-use pass.
PassAdmitsWhilePending(p, amount) ==
  /\ pass[p].status = "active"
  /\ pass[p].lifecycle = "idle"
  /\ p \in SingleUse => pass[p].spent = 0
  /\ pass[p].spent + pass[p].reserved + amount <= pass[p].limit

\* Mutant of DayAdmits: pending reservations do not count against the day.
DayAdmitsBySpent(counter, amount) == counter.spent + amount <= DailyLimit

\* The filter of the pass update.  The caller's own conditions (sessionMatch)
\* are spread into the same object; their $and is replaced by the lifecycle
\* condition, so the expiry date is not part of the filter.
PassAdmits(p, amount) ==
  /\ pass[p].status = "active"
  /\ pass[p].lifecycle = "idle"
  /\ p \in SingleUse => pass[p].spent + pass[p].reserved = 0
  /\ pass[p].spent + pass[p].reserved + amount <= pass[p].limit

DayAdmits(counter, amount) == counter.spent + counter.reserved + amount <= DailyLimit

\* The new attempt of a caller.
NewAttempt(c, d) ==
  [status |-> "pending", reserve |-> "reserved", provider |-> "not_started",
   lease |-> c, age |-> "held", day |-> d, created |-> today]

\* Mutant of ReserveChargeAttempt: the day's counter is checked, not updated.
ReserveOnPassOnly(c, k, d) ==
  LET p == PassOf[k]
  IN /\ attempt[k].status = "absent"
     /\ PassAdmits(p, Amount[k])
     /\ \E counter \in CountersOn(p, d) : DayAdmits(counter, Amount[k])
     /\ pass' = [pass EXCEPT ![p].reserved = @ + Amount[k]]
     /\ attempt' = [attempt EXCEPT ![k] = NewAttempt(c, d)]
     /\ UNCHANGED <<daily, today, fundingVars>>

\* Mutant of ReserveChargeAttempt: a failed key may be reserved again.
ReserveFailedAgain(c, k, d) ==
  LET p == PassOf[k]
  IN \E counter \in CountersOn(p, d) :
       /\ attempt[k].status \in {"absent", "failed"}
       /\ PassAdmits(p, Amount[k])
       /\ DayAdmits(counter, Amount[k])
       /\ pass' = [pass EXCEPT ![p].reserved = @ + Amount[k]]
       /\ daily' = [daily EXCEPT
                      ![p][d] = [counter EXCEPT !.reserved = @ + Amount[k]]]
       /\ attempt' = [attempt EXCEPT ![k] = NewAttempt(c, d)]
       /\ UNCHANGED <<today, fundingVars>>

\* reserveChargeAttempt creating an attempt for day d: the pass, the day's
\* counter and the attempt change together or not at all.
ReserveChargeAttempt(c, k, d) ==
  LET p == PassOf[k]
  IN \E counter \in CountersOn(p, d) :
       /\ attempt[k].status = "absent"
       /\ PassAdmits(p, Amount[k])
       /\ DayAdmits(counter, Amount[k])
       /\ pass' = [pass EXCEPT ![p].reserved = @ + Amount[k]]
       /\ daily' = [daily EXCEPT
                      ![p][d] = [counter EXCEPT !.reserved = @ + Amount[k]]]
       /\ attempt' = [attempt EXCEPT ![k] = NewAttempt(c, d)]
       /\ UNCHANGED <<today, fundingVars>>

NotStarted(k) ==
  /\ attempt[k].status = "pending"
  /\ attempt[k].reserve = "reserved"
  /\ attempt[k].provider = "not_started"

\* Mutant of ClaimChargeExecution: only the lease is looked at.
ClaimAnyLapsed(c, k) ==
  /\ attempt[k].age # "held"
  /\ attempt' = [attempt EXCEPT ![k].lease = c, ![k].age = "held"]
  /\ UNCHANGED <<pass, daily, today, fundingVars>>

\* claimChargeExecution takes over an attempt whose lease has run out.
ClaimChargeExecution(c, k) ==
  /\ NotStarted(k)
  /\ attempt[k].age # "held"
  /\ attempt' = [attempt EXCEPT ![k].lease = c, ![k].age = "held"]
  /\ UNCHANGED <<pass, daily, today, fundingVars>>

\* Mutant of OwnsUnstarted: neither the lease nor the provider status is asked.
StillPending(c, k) == attempt[k].status = "pending" /\ attempt[k].reserve = "reserved"

\* The filter setChargeProviderCorrelation and markChargeProviderSubmitted share.
OwnsUnstarted(c, k) == NotStarted(k) /\ attempt[k].lease = c

MarkChargeProviderSubmitted(c, k) ==
  /\ OwnsUnstarted(c, k)
  /\ attempt' = [attempt EXCEPT ![k].provider = "submitted"]
  /\ UNCHANGED <<pass, daily, today, fundingVars>>

Unresolved(k) ==
  /\ attempt[k].status \in {"pending", "uncertain"}
  /\ attempt[k].reserve = "reserved"

MarkChargeProviderSucceeded(k) ==
  /\ Unresolved(k)
  /\ attempt' = [attempt EXCEPT ![k].provider = "succeeded"]
  /\ UNCHANGED <<pass, daily, today, fundingVars>>

MarkChargeOutcomeUncertain(k) ==
  /\ Unresolved(k)
  /\ attempt' = [attempt EXCEPT ![k].status = "uncertain", ![k].provider = "uncertain"]
  /\ UNCHANGED <<pass, daily, today, fundingVars>>

\* Both counters still hold the reservation; otherwise releasing or finalizing
\* throws and its transaction aborts.
CountersHold(k) ==
  /\ pass[PassOf[k]].reserved >= Amount[k]
  /\ daily[PassOf[k]][attempt[k].day].reserved >= Amount[k]

\* Mutant of ReleaseChargeReservation: neither the attempt nor the counters are
\* asked whether there is something to release.
ReleaseUnchecked(k) ==
  LET p == PassOf[k]
  IN /\ attempt[k].status # "absent"
     /\ pass' = [pass EXCEPT ![p].reserved = @ - Amount[k]]
     /\ daily' = [daily EXCEPT ![p][attempt[k].day].reserved = @ - Amount[k]]
     /\ attempt' = [attempt EXCEPT ![k].status = "failed", ![k].reserve = "released",
                                   ![k].provider = "failed", ![k].age = "expired"]
     /\ UNCHANGED <<today, fundingVars>>

\* releaseChargeReservation of a reservation that is neither released nor
\* failed (on those it returns, on a debited one it throws).  What the provider
\* was told does not matter to it.
ReleaseChargeReservation(k) ==
  LET p == PassOf[k]
  IN /\ attempt[k].status # "failed"
     /\ attempt[k].reserve = "reserved"
     /\ CountersHold(k)
     /\ pass' = [pass EXCEPT ![p].reserved = @ - Amount[k]]
     /\ daily' = [daily EXCEPT ![p][attempt[k].day].reserved = @ - Amount[k]]
     /\ attempt' = [attempt EXCEPT ![k].status = "failed", ![k].reserve = "released",
                                   ![k].provider = "failed", ![k].age = "expired"]
     /\ UNCHANGED <<today, fundingVars>>

\* The allocation's part of a finalization: spend, and for a single-use pass
\* release what is left.
SettleFunding(p, amount) ==
  LET s == alloc[p].source
      a == SpentAllocation(alloc[p], amount)
      src == SpentSource(s, source[s], amount)
      last == p \in SingleUse /\ a.state = "active"
  IN /\ CanSpend(p, amount)
     /\ last => ReleaseAllowed(a, src)
     /\ alloc' = [alloc EXCEPT ![p] = IF last THEN ReleasedAllocation(a) ELSE a]
     /\ source' = [source EXCEPT
                     ![s] = IF last THEN ReleasedSource(s, src, Rest(a)) ELSE src]
     /\ UNCHANGED loaded

ReadyToFinalize(k) ==
  attempt[k].provider = "succeeded" /\ attempt[k].reserve = "reserved"

\* Mutant of FinalizeChargeReservation: the charge is spent on the day it is
\* finalized instead of the day it was reserved.
FinalizeOnToday(k) ==
  LET p == PassOf[k]
  IN /\ ReadyToFinalize(k)
     /\ CountersHold(k)
     /\ pass' = [pass EXCEPT ![p].reserved = @ - Amount[k], ![p].spent = @ + Amount[k]]
     /\ daily' = [daily EXCEPT ![p][attempt[k].day].reserved = @ - Amount[k],
                               ![p][today].spent = @ + Amount[k]]
     /\ SettleFunding(p, Amount[k])
     /\ attempt' = [attempt EXCEPT ![k].status = "succeeded", ![k].reserve = "debited",
                                   ![k].age = "expired"]
     /\ UNCHANGED today

\* Mutant of FinalizeChargeReservation: the attempt keeps its status.
FinalizeKeepingStatus(k) ==
  LET p == PassOf[k]
  IN /\ ReadyToFinalize(k)
     /\ CountersHold(k)
     /\ pass' = [pass EXCEPT ![p].reserved = @ - Amount[k], ![p].spent = @ + Amount[k]]
     /\ daily' = [daily EXCEPT ![p][attempt[k].day].reserved = @ - Amount[k],
                               ![p][attempt[k].day].spent = @ + Amount[k]]
     /\ SettleFunding(p, Amount[k])
     /\ attempt' = [attempt EXCEPT ![k].reserve = "debited", ![k].age = "expired"]
     /\ UNCHANGED today

\* finalizeChargeReservation of a reservation the provider has paid.  A second
\* call finds the attempt debited and changes nothing.
FinalizeChargeReservation(k) ==
  LET p == PassOf[k]
  IN /\ ReadyToFinalize(k)
     /\ CountersHold(k)
     /\ pass' = [pass EXCEPT ![p].reserved = @ - Amount[k], ![p].spent = @ + Amount[k]]
     /\ daily' = [daily EXCEPT ![p][attempt[k].day].reserved = @ - Amount[k],
                               ![p][attempt[k].day].spent = @ + Amount[k]]
     /\ SettleFunding(p, Amount[k])
     /\ attempt' = [attempt EXCEPT ![k].status = "succeeded", ![k].reserve = "debited",
                                   ![k].age = "expired"]
     /\ UNCHANGED today
-----------------------------------------------------------------------------
\* The lease of an attempt runs out, and later becomes stale.
LeaseRunsOut(k) ==
  /\ NotStarted(k)
  /\ attempt[k].age # "stale"
  /\ attempt' = [attempt EXCEPT ![k].age = IF @ = "held" THEN "expired" ELSE "stale"]
  /\ UNCHANGED <<pass, daily, today, fundingVars>>

NextDay ==
  /\ today < LastDay
  /\ today' = today + 1
  /\ UNCHANGED <<pass, daily, attempt, fundingVars>>

\* createSession: the pass and its allocation, in one transaction.
CreateSession(p, s, limit) ==
  /\ pass[p].status = "none"
  /\ limit <= MaxLimit
  /\ AllocateFunding(p, s, limit)
  /\ pass' = [pass EXCEPT ![p].status = "active", ![p].limit = limit]
  /\ UNCHANGED <<daily, attempt, today>>

\* The owner, the expiry sweep and lifecycle operations move the pass between
\* statuses and transition states.
MovePass(p, status, lifecycle) ==
  /\ pass[p].status # "none"
  /\ pass' = [pass EXCEPT ![p].status = status, ![p].lifecycle = lifecycle]
  /\ UNCHANGED <<daily, attempt, today, fundingVars>>

\* A completed top-up raises the limit.
RaiseLimit(p, amount) ==
  /\ pass[p].status # "none"
  /\ pass[p].limit + amount <= MaxLimit
  /\ pass' = [pass EXCEPT ![p].limit = @ + amount]
  /\ UNCHANGED <<daily, attempt, today, fundingVars>>

\* A schedule or a metered grant reserves, spends or releases on a shared pass:
\* it computes from the Atomic counters, which charges do not touch, and writes
\* the amounts it changed over the pass's counters.  The limit, when written,
\* is the one the pass was created with.  A settled metered batch also spends
\* the allocation, and expires a pass it has used up.
SpendElsewhere(p, limit, spent, reserved, status) ==
  /\ pass[p].status # "none"
  /\ limit \in Grant \cup {pass[p].limit}
  /\ status \in {pass[p].status, "expired"}
  /\ pass' = [pass EXCEPT ![p].limit = limit, ![p].spent = spent,
                          ![p].reserved = reserved, ![p].status = status]
  /\ \/ UNCHANGED fundingVars
     \/ \E a \in Grant : SpendFunding(p, a)
  /\ UNCHANGED <<daily, attempt, today>>

\* Everything the ledger does by itself: deposits, observations, and the
\* allocation steps of top-ups and closings.
LedgerStep ==
  /\ \/ SourceNext
     \/ \E p \in Pass, a \in Grant : TopUpFunding(p, a)
     \/ \E p \in Pass : ReleaseFunding(p)
  /\ UNCHANGED reservationVars

EnvironmentNext ==
  \/ \E k \in Key : LeaseRunsOut(k)
  \/ NextDay
  \/ \E p \in Pass, s \in Source, l \in Grant : CreateSession(p, s, l)
  \/ \E p \in Pass, st \in Status, lc \in Lifecycle : MovePass(p, st, lc)
  \/ \E p \in Pass, a \in Grant : RaiseLimit(p, a)
  \/ \E p \in Shared, l, s, r \in 0..MaxLimit, st \in Status : SpendElsewhere(p, l, s, r, st)
  \/ LedgerStep

ReservationNext ==
  \/ \E c \in Caller, k \in Key, d \in RecentDays : ReserveChargeAttempt(c, k, d)
  \/ \E c \in Caller, k \in Key : ClaimChargeExecution(c, k)
  \/ \E c \in Caller, k \in Key : MarkChargeProviderSubmitted(c, k)
  \/ \E k \in Key : MarkChargeProviderSucceeded(k)
  \/ \E k \in Key : MarkChargeOutcomeUncertain(k)
  \/ \E k \in Key : ReleaseChargeReservation(k)
  \/ \E k \in Key : FinalizeChargeReservation(k)

StoreNext == EnvironmentNext \/ ReservationNext

StoreSpec == StoreInit /\ [][StoreNext]_storeVars
-----------------------------------------------------------------------------
\* No counter of a pass or a day falls below zero and every document keeps to
\* its schema.
ReservationTypeOK ==
  /\ pass \in [Pass -> PassRecord]
  /\ daily \in [Pass -> [Days -> CounterRecord]]
  /\ attempt \in [Key -> AttemptRecord]
  /\ today \in Days

\* The documented invariant of the counters, after any interleaving of
\* reservations, releases and finalizations: what a pass has reserved and spent
\* are the sums over the attempts, and so is what a UTC day has reserved.  A day
\* has spent what was reserved for it, and may count a charge that was only
\* created on it: one that was reserved just before midnight and inserted after
\* it.
CountersMatchAttempts ==
  \A p \in Own :
    /\ pass[p].reserved = Total(Charges(p, Held))
    /\ pass[p].spent = Total(Charges(p, Debited))
    /\ \A d \in Days :
         /\ daily[p][d].reserved = Total(Charges(p, Held \cap BookedOn(d)))
         /\ daily[p][d].spent >= Total(Charges(p, Debited \cap BookedOn(d)))
         /\ daily[p][d].spent <= Total(Charges(p, Debited \cap (BookedOn(d) \cup CreatedOn(d))))

\* A pass is never charged past its limit, pending charges included.
WithinLimit == \A p \in Own : pass[p].spent + pass[p].reserved <= pass[p].limit

\* No UTC day of a pass is charged past the daily limit.
WithinDailyLimit ==
  \A p \in Pass, d \in Days : daily[p][d].spent + daily[p][d].reserved <= DailyLimit

\* Neither limit is passed, by concurrent reservations or across midnight; the
\* pass's own limit as long as only charges spend it.
LimitsHold == WithinLimit /\ WithinDailyLimit

\* The status of an attempt, its reservation and what it knows of the provider
\* agree: unresolved attempts hold their reservation, failed ones have returned
\* it, and only a provider success is debited.
AttemptConsistent ==
  \A k \in Key :
    /\ attempt[k].status \in {"pending", "uncertain"} <=> attempt[k].reserve = "reserved"
    /\ attempt[k].status = "failed" <=> attempt[k].reserve = "released"
    /\ attempt[k].status = "succeeded" <=> attempt[k].reserve = "debited"
    /\ attempt[k].reserve = "debited" => attempt[k].provider = "succeeded"

\* The counters of the passes only charges spend account for the attempts, and
\* each attempt's status, reservation and provider state agree.
AttemptsAccounted == CountersMatchAttempts /\ AttemptConsistent

\* A single-use pass that only charges spend never has two charges that hold or
\* took money.
SingleUseOnce ==
  \A j, k \in Held \cup Debited :
    PassOf[j] = PassOf[k] /\ PassOf[j] \in SingleUse \ Shared => j = k

\* On a pass only charges spend, the "counters could not be released/finalized
\* consistently" errors are unreachable: as far as the pass and the day's counter
\* are concerned, a reservation can always be given back or debited.  On a
\* Shared pass they are reachable.
ReservationsReturnable == \A k \in Held \cap OwnKeys : CountersHold(k)

\* A debited or released attempt is never touched again, so a key is charged
\* at most once and a retry of a failed key cannot revive it.
ResolvedAttemptsFrozen ==
  [][\A k \in Key : attempt[k].status \in {"succeeded", "failed"}
                      => attempt'[k] = attempt[k]]_storeVars
-----------------------------------------------------------------------------
\* The budget an attempt's reservation stands for.
EntryOf(k) ==
  CASE attempt[k].reserve = "none" -> "free"
    [] attempt[k].reserve = "reserved" -> "held"
    [] attempt[k].reserve = "debited" -> "charged"
    [] attempt[k].reserve = "released" -> "returned"

Budget == INSTANCE SpendingBudget WITH
  Pass <- Own,
  Key <- OwnKeys,
  entry <- [k \in OwnKeys |-> EntryOf(k)],
  day <- [k \in OwnKeys |-> attempt[k].day],
  limit <- [p \in Own |-> pass[p].limit]

\* On the passes only charges spend, the reservation service implements
\* SpendingBudget: its counters admit a charge only when the charges themselves
\* leave room for it.
ImplementsBudget == Budget!BudgetSpec
=============================================================================
