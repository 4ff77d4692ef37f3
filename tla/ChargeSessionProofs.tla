------------------------- MODULE ChargeSessionProofs -------------------------
(***************************************************************************)
(* Concurrent chargeSession calls, for any number of callers, keys, passes *)
(* and crashes: they use the store only through its operations, and no key *)
(* is ever paid twice.                                                     *)
(***************************************************************************)
EXTENDS ChargeSession, ChargeReservationProofs

CallsTyped == call \in [Caller -> CallRecord]

\* A request, an expiry date and a sweep concern a pass that exists.
PassesExist ==
  /\ \A c \in Caller : call[c].at # "idle" => pass[PassOf[call[c].key]].status # "none"
  /\ \A p \in due \cup overdue : pass[p].status # "none"
  /\ \A p \in Pass : toggle[p] # "none" => pass[p].status # "none"

ProcessesTyped ==
  /\ CallsTyped
  /\ due \subseteq Pass
  /\ overdue \subseteq due
  /\ found \subseteq Key
  /\ toggle \in [Pass -> {"none", "active", "paused"}]

\* Enough of the state to see each step as a step of the store.
CallInv == ReservationInv /\ ProcessesTyped /\ PassesExist

\* A request that goes on changes nothing but its place.
LEMMA GoToFacts ==
  ASSUME CallsTyped, NEW c \in Caller, NEW there \in Locations, GoTo(c, there)
  PROVE  /\ CallsTyped'
         /\ \A d \in Caller : /\ call'[d].key = call[d].key
                              /\ call'[d].at = IF d = c THEN there ELSE call[d].at
  BY DEF CallsTyped, GoTo, CallRecord

\* No step of the store removes a pass.
LEMMA PassesStay ==
  ASSUME ReservationInv, [StoreNext]_storeVars, NEW p \in Pass, pass[p].status # "none"
  PROVE  pass'[p].status # "none"
<1>1. pass \in [Pass -> PassRecord] /\ "none" \notin Status /\ "active" \in Status
  BY ReservationAssumption DEF ReservationInv, ReservationTypeOK
<1>2. CASE EnvironmentNext
  <2>1. ASSUME NEW q \in Pass, NEW st \in Status, NEW lc \in Lifecycle, MovePass(q, st, lc)
        PROVE  pass'[p].status # "none"
    BY <1>1, <2>1 DEF MovePass, PassRecord
  <2>2. ASSUME NEW q \in Pass, NEW a \in Grant, RaiseLimit(q, a)
        PROVE  pass'[p].status # "none"
    BY <1>1, <2>2 DEF RaiseLimit, PassRecord
  <2>3. ASSUME NEW q \in Pass, NEW s \in Source, NEW l \in Grant, CreateSession(q, s, l)
        PROVE  pass'[p].status # "none"
    <3>1. pass' = [pass EXCEPT ![q].status = "active", ![q].limit = l]
      BY <2>3 DEF CreateSession
    <3> QED BY <1>1, <3>1 DEF PassRecord
  <2>4. ASSUME NEW q \in Shared, NEW l \in 0..MaxLimit, NEW s \in 0..MaxLimit,
               NEW r \in 0..MaxLimit, NEW st \in Status, SpendElsewhere(q, l, s, r, st)
        PROVE  pass'[p].status # "none"
    <3>1. pass' = [pass EXCEPT ![q].limit = l, ![q].spent = s, ![q].reserved = r, ![q].status = st]
          /\ st # "none"
      BY <1>1, <2>4 DEF SpendElsewhere
    <3> QED BY <1>1, <3>1 DEF PassRecord
  <2> QED BY <1>2, <2>1, <2>2, <2>3, <2>4
      DEF EnvironmentNext, LeaseRunsOut, NextDay, LedgerStep, reservationVars
<1>3. CASE ReservationNext
  <2>1. ASSUME NEW c \in Caller, NEW k \in Key, NEW d \in RecentDays,
               ReserveChargeAttempt(c, k, d)
        PROVE  pass'[p].status # "none"
    <3>1. pass' = [pass EXCEPT ![PassOf[k]].reserved = @ + Amount[k]]
      BY <2>1 DEF ReserveChargeAttempt
    <3> QED BY <1>1, <3>1 DEF PassRecord
  <2>2. ASSUME NEW k \in Key, ReleaseChargeReservation(k)
        PROVE  pass'[p].status # "none"
    <3>1. pass' = [pass EXCEPT ![PassOf[k]].reserved = @ - Amount[k]]
      BY <2>2 DEF ReleaseChargeReservation
    <3> QED BY <1>1, <3>1 DEF PassRecord
  <2>3. ASSUME NEW k \in Key, FinalizeChargeReservation(k)
        PROVE  pass'[p].status # "none"
    <3>1. pass' = [pass EXCEPT ![PassOf[k]].reserved = @ - Amount[k],
                               ![PassOf[k]].spent = @ + Amount[k]]
      BY <2>3 DEF FinalizeChargeReservation
    <3> QED BY <1>1, <3>1 DEF PassRecord
  <2> QED BY <1>3, <2>1, <2>2, <2>3 DEF ReservationNext, ClaimChargeExecution,
      MarkChargeProviderSubmitted, MarkChargeProviderSucceeded, MarkChargeOutcomeUncertain
<1>4. CASE UNCHANGED storeVars
  BY <1>4 DEF storeVars, reservationVars
<1> QED BY <1>2, <1>3, <1>4 DEF StoreNext

\* A save of the pass with another status is a MovePass of the store.
LEMMA StatusSave ==
  ASSUME ReservationInv, NEW p \in Pass, NEW st \in Status, pass[p].status # "none",
         pass' = [pass EXCEPT ![p].status = st],
         UNCHANGED <<daily, attempt, today, fundingVars>>
  PROVE  StoreNext
<1>1. pass \in [Pass -> PassRecord]
  BY DEF ReservationInv, ReservationTypeOK
<1>2. pass[p].lifecycle \in Lifecycle
  BY <1>1 DEF PassRecord
<1>3. pass' = [pass EXCEPT ![p].status = st, ![p].lifecycle = pass[p].lifecycle]
  BY <1>1 DEF PassRecord
<1>4. MovePass(p, st, pass[p].lifecycle)
  BY <1>3 DEF MovePass
<1> QED BY <1>2, <1>4 DEF StoreNext, EnvironmentNext

\* Every step of a request moves only that request, which was under way.
LEMMA ChargeStepCalls ==
  ASSUME ReservationInv, CallsTyped, NEW c \in Caller, ChargeStep(c)
  PROVE  /\ CallsTyped'
         /\ call[c].at # "idle"
         /\ \A d \in Caller : /\ call'[d].key = call[d].key
                              /\ d # c => call'[d] = call[d]
<1>1. ASSUME NEW there \in Locations, NEW saw \in {"none", "not_started", "submitted",
                                                   "uncertain", "succeeded", "failed"},
             \/ GoTo(c, there)
             \/ call' = [call EXCEPT ![c].at = there, ![c].saw = saw]
      PROVE  /\ CallsTyped'
             /\ \A d \in Caller : /\ call'[d].key = call[d].key
                                  /\ d # c => call'[d] = call[d]
  BY <1>1 DEF CallsTyped, GoTo, CallRecord
<1>2. \A k \in Key : attempt[k].provider \in {"not_started", "submitted", "uncertain",
                                              "succeeded", "failed"}
  BY DEF ReservationInv, ReservationTypeOK, AttemptRecord
<1>3. KeyOf(c) \in Key
  BY DEF KeyOf, CallsTyped, CallRecord
<1>4. call[c].at # "idle"
  BY DEF ChargeStep, At, ExpireOnCharge, FindExistingAttempt, CheckFunding, Quote, Reserve,
     ReserveFindsAttempt, ReserveRejected, Claim, ClaimRefused, Correlate, Submit, Send,
     SendFails, Answer, LookupAfterError, Recover, PersistSuccess, RecordLookup,
     RecordUncertain, Drop, Finalize, Reload, SaveStatus, ReleaseUnusedFunding
<1>5. \E there \in Locations, saw \in {"none", "not_started", "submitted",
                                       "uncertain", "succeeded", "failed"} :
        \/ GoTo(c, there)
        \/ call' = [call EXCEPT ![c].at = there, ![c].saw = saw]
  <2>1. CASE FindExistingAttempt(c)
    BY <2>1, <1>2, <1>3 DEF FindExistingAttempt, Return, Locations
  <2>2. CASE ReserveFindsAttempt(c)
    BY <2>2, <1>2, <1>3 DEF ReserveFindsAttempt, Return, Locations
  <2>3. CASE \E there \in Locations : GoTo(c, there)
    BY <2>3
  <2> QED BY <2>1, <2>2, <2>3
      DEF ChargeStep, ExpireOnCharge, CheckFunding, Quote, Reserve, ReserveRejected, Claim,
      ClaimRefused, Correlate, Submit, Send, SendFails, Answer, LookupAfterError, Recover,
      PersistSuccess, RecordLookup, RecordUncertain, Drop, Finalize, Reload, SaveStatus,
      ReleaseUnusedFunding, Lookup, Return, Locations
<1> QED BY <1>1, <1>4, <1>5

\* What every step of a request does to the store.
LEMMA ChargeStepStores ==
  ASSUME CallInv, NEW c \in Caller, ChargeStep(c)
  PROVE  [StoreNext]_storeVars
<1> DEFINE k == KeyOf(c)
           p == PassCharged(c)
<1>1. k \in Key /\ p \in Pass /\ p = PassOf[k]
  BY ReservationAssumption DEF KeyOf, PassCharged, CallInv, ProcessesTyped, CallsTyped, CallRecord
<1>2. pass[p].status # "none"
  BY ChargeStepCalls DEF CallInv, ProcessesTyped, PassesExist, PassCharged, KeyOf
<1> HIDE DEF k, p
<1>3. CASE ExpireOnCharge(c)
  <2>1. "expired" \in Status
    BY SessionAssumption
  <2> QED BY <1>1, <1>2, <1>3, <2>1, StatusSave DEF ExpireOnCharge, CallInv, p
<1>4. CASE SaveStatus(c)
  <2>1. "expired" \in Status /\ "settled" \in Status
    BY SessionAssumption
  <2>2. PICK st \in Status : pass' = [pass EXCEPT ![p].status = st]
    BY <1>4, <2>1 DEF SaveStatus, p
  <2> QED BY <1>1, <1>2, <1>4, <2>2, StatusSave DEF SaveStatus, CallInv
<1>5. CASE Reserve(c) \/ Claim(c) \/ Submit(c) \/ PersistSuccess(c) \/ RecordLookup(c)
           \/ RecordUncertain(c) \/ Drop(c) \/ Finalize(c)
  <2>1. \/ \E d \in RecentDays : ReserveChargeAttempt(c, k, d)
        \/ ClaimChargeExecution(c, k)
        \/ MarkChargeProviderSubmitted(c, k) \/ MarkChargeProviderSucceeded(k)
        \/ MarkChargeOutcomeUncertain(k) \/ ReleaseChargeReservation(k)
        \/ FinalizeChargeReservation(k) \/ NoStoreChange
    BY <1>5 DEF Reserve, Claim, Submit, PersistSuccess, RecordLookup, RecordUncertain, Drop,
       Finalize, OrNothing, k
  <2> QED BY <1>1, <2>1 DEF StoreNext, ReservationNext, NoStoreChange
<1>6. CASE ReleaseUnusedFunding(c)
  <2>1. (ReleaseFunding(p) /\ UNCHANGED reservationVars) \/ NoStoreChange
    BY <1>6 DEF ReleaseUnusedFunding, OrNothing, p
  <2> QED BY <1>1, <2>1 DEF StoreNext, EnvironmentNext, LedgerStep, NoStoreChange
<1>7. CASE NoStoreChange
  BY <1>7 DEF NoStoreChange
<1> QED BY <1>3, <1>4, <1>5, <1>6, <1>7
    DEF ChargeStep, FindExistingAttempt, CheckFunding, Quote, ReserveFindsAttempt,
    ReserveRejected, ClaimRefused, Correlate, Send, SendFails, Answer, LookupAfterError,
    Recover, Reload

\* The same for the requests' beginnings and crashes, the provider, the sweeps
\* and the owner.
LEMMA SessionStepStores ==
  ASSUME CallInv, [SessionNext]_sessionVars
  PROVE  [StoreNext]_storeVars
<1>1. CASE \E c \in Caller : ChargeStep(c)
  BY <1>1, ChargeStepStores
<1>2. ASSUME NEW p \in Pass, ExpirePass(p)
      PROVE  StoreNext
  <2>1. "expired" \in Status
    BY SessionAssumption
  <2>2. pass[p].status # "none"
    BY <1>2 DEF CallInv, PassesExist, ExpirePass
  <2> QED BY <1>2, <2>1, <2>2, StatusSave DEF ExpirePass, CallInv
<1>3. ASSUME NEW p \in Pass, SaveToggle(p)
      PROVE  StoreNext
  <2>1. toggle[p] \in Status /\ pass[p].status # "none"
    BY <1>3, SessionAssumption DEF SaveToggle, CallInv, ProcessesTyped, PassesExist
  <2> QED BY <1>3, <2>1, StatusSave DEF SaveToggle, CallInv
<1>4. ASSUME NEW k \in Key, ReleaseStale(k)
      PROVE  [StoreNext]_storeVars
  BY <1>4 DEF ReleaseStale, OrNothing, NoStoreChange, StoreNext, ReservationNext
<1>5. CASE Elsewhere
  BY <1>5 DEF Elsewhere, StoreNext, EnvironmentNext, LedgerStep
<1>6. CASE NoStoreChange
  BY <1>6 DEF NoStoreChange
<1>7. CASE UNCHANGED sessionVars
  BY <1>7 DEF sessionVars
<1> QED BY <1>1, <1>2, <1>3, <1>4, <1>5, <1>6, <1>7
    DEF SessionNext, BeginCharge, Crash, ProviderSettles, SweepAttempts, SweepPasses,
    ExpiryPasses, LoadToggle

\* CallInv is inductive.
LEMMA CallInitial == SessionInit => CallInv
<1> SUFFICES ASSUME SessionInit PROVE CallInv
  OBVIOUS
<1>1. ReservationInv
  BY ReservationInitial DEF SessionInit
<1>2. PICK k \in Key : call = [c \in Caller |-> [at |-> "idle", key |-> k, saw |-> "none"]]
  BY DEF SessionInit
<1>3. CallsTyped /\ \A c \in Caller : call[c].at = "idle"
  BY <1>2 DEF CallsTyped, CallRecord, Locations
<1> QED BY <1>1, <1>3 DEF CallInv, ProcessesTyped, PassesExist, SessionInit

\* Every step of a caller, a sweep or the owner keeps CallInv.
LEMMA CallStep == CallInv /\ [SessionNext]_sessionVars => CallInv'
<1> SUFFICES ASSUME CallInv, [SessionNext]_sessionVars PROVE CallInv'
  OBVIOUS
<1>1. ReservationInv' /\ [StoreNext]_storeVars
  BY SessionStepStores, StoreStepKeeps DEF CallInv
<1>2. \A p \in Pass : pass[p].status # "none" => pass'[p].status # "none"
  BY <1>1, PassesStay DEF CallInv
<1>3. /\ CallsTyped' /\ due' \subseteq Pass /\ overdue' \subseteq due'
      /\ found' \subseteq Key
      /\ \A c \in Caller : call'[c].at # "idle"
           => \/ call[c].at # "idle" /\ call'[c].key = call[c].key
              \/ pass[PassOf[call'[c].key]].status # "none"
      /\ \A p \in due' : p \in due \/ pass[p].status # "none"
      /\ toggle' \in [Pass -> {"none", "active", "paused"}]
      /\ \A p \in Pass : toggle'[p] # "none" => pass[p].status # "none"
  <2>1. CASE \E c \in Caller : ChargeStep(c)
    <3>1. PICK c \in Caller : ChargeStep(c)
      BY <2>1
    <3>2. /\ CallsTyped' /\ call[c].at # "idle"
          /\ \A d \in Caller : /\ call'[d].key = call[d].key
                               /\ d # c => call'[d] = call[d]
      BY <3>1, ChargeStepCalls DEF CallInv, ProcessesTyped, PassesExist
    <3>3. UNCHANGED <<due, found, overdue, toggle>>
      BY <3>1 DEF ChargeStep, ExpireOnCharge, FindExistingAttempt, CheckFunding, Quote,
         Reserve, ReserveFindsAttempt, ReserveRejected, Claim, ClaimRefused, Correlate,
         Submit, Send, SendFails, Answer, LookupAfterError, Recover, PersistSuccess,
         RecordLookup, RecordUncertain, Drop, Finalize, Reload, SaveStatus,
         ReleaseUnusedFunding, OnlyCall
    <3> QED BY <3>2, <3>3 DEF CallInv, ProcessesTyped, PassesExist
  <2>2. ASSUME NEW c \in Caller, Crash(c)
        PROVE  <1>3!:
    <3>1. /\ CallsTyped'
          /\ \A d \in Caller : /\ call'[d].key = call[d].key
                               /\ call'[d].at = IF d = c THEN "idle" ELSE call[d].at
      BY <2>2, GoToFacts DEF Crash, Return, Locations, CallInv, ProcessesTyped
    <3> QED BY <2>2, <3>1 DEF Crash, CallInv, ProcessesTyped, PassesExist
  <2>3. ASSUME NEW c \in Caller, NEW k \in Key, BeginCharge(c, k)
        PROVE  <1>3!:
    <3>1. PICK at \in Locations :
            call' = [call EXCEPT ![c] = [at |-> at, key |-> k, saw |-> "none"]]
      BY <2>3 DEF BeginCharge, Locations
    <3>2. /\ CallsTyped'
          /\ call'[c].key = k
          /\ \A d \in Caller : d # c => call'[d] = call[d]
      BY <3>1 DEF CallInv, ProcessesTyped, CallsTyped, CallRecord
    <3>3. pass[PassOf[k]].status # "none"
      BY <2>3 DEF BeginCharge
    <3> QED BY <2>3, <3>2, <3>3 DEF BeginCharge, OnlyCall, CallInv, ProcessesTyped, PassesExist
  <2>4. CASE call' = call
    <3>1. /\ due' \subseteq Pass /\ overdue' \subseteq due' /\ found' \subseteq Key
          /\ \A p \in due' : p \in due \/ pass[p].status # "none"
          /\ toggle' \in [Pass -> {"none", "active", "paused"}]
          /\ \A p \in Pass : toggle'[p] # "none" => pass[p].status # "none"
      <4>1. CASE SweepPasses
        BY <4>1 DEF SweepPasses, CallInv, ProcessesTyped, PassesExist
      <4>2. CASE \E p \in Pass : ExpiryPasses(p)
        BY <4>2 DEF ExpiryPasses, CallInv, ProcessesTyped, PassesExist
      <4>3. CASE \E p \in Pass : ExpirePass(p)
        BY <4>3 DEF ExpirePass, CallInv, ProcessesTyped, PassesExist
      <4>4. CASE SweepAttempts
        BY <4>4 DEF SweepAttempts, CallInv, ProcessesTyped, PassesExist
      <4>5. CASE \E k \in Key : ReleaseStale(k)
        BY <4>5 DEF ReleaseStale, CallInv, ProcessesTyped, PassesExist
      <4>6. CASE UNCHANGED <<due, found, overdue, toggle>>
        BY <4>6 DEF CallInv, ProcessesTyped, PassesExist
      <4>7. ASSUME NEW p \in Pass, LoadToggle(p) \/ SaveToggle(p)
            PROVE  <3>1!:
        <5>1. PICK to \in {"none", "active", "paused"} :
                /\ toggle' = [toggle EXCEPT ![p] = to]
                /\ to # "none" => pass[p].status # "none"
          BY <4>7 DEF LoadToggle, SaveToggle
        <5>2. UNCHANGED <<due, found, overdue>>
          BY <4>7 DEF LoadToggle, SaveToggle
        <5> QED BY <5>1, <5>2 DEF CallInv, ProcessesTyped, PassesExist
      <4>8. CASE \/ \E c \in Caller : ChargeStep(c) \/ Crash(c)
                 \/ \E c \in Caller, k \in Key : BeginCharge(c, k)
        BY <4>8, <2>1, <2>2, <2>3
      <4>9. ASSUME NEW i \in Invoice, ProviderSettles(i)
            PROVE  <3>1!:
        BY <4>6, <4>9 DEF ProviderSettles
      <4>10. CASE Elsewhere \/ UNCHANGED sessionVars
        BY <4>6, <4>10 DEF Elsewhere, processVars, sessionVars
      <4> QED BY <4>1, <4>2, <4>3, <4>4, <4>5, <4>7, <4>8, <4>9, <4>10 DEF SessionNext
    <3>2. CallsTyped'
      BY <2>4 DEF CallInv, ProcessesTyped, CallsTyped
    <3>3. \A c \in Caller : call'[c].at # "idle"
            => call[c].at # "idle" /\ call'[c].key = call[c].key
      BY <2>4
    <3> QED BY <3>1, <3>2, <3>3
  <2> QED BY <2>1, <2>2, <2>3, <2>4
      DEF SessionNext, ProviderSettles, SweepAttempts, ReleaseStale, SweepPasses,
      ExpiryPasses, ExpirePass, LoadToggle, SaveToggle, Elsewhere, processVars, sessionVars
<1>4. PassesExist'
  <2>1. \A c \in Caller : call'[c].key \in Key /\ PassOf[call'[c].key] \in Pass
    BY <1>3, ReservationAssumption DEF CallsTyped, CallRecord
  <2>2. \A c \in Caller : call'[c].at # "idle" => pass'[PassOf[call'[c].key]].status # "none"
    BY <1>2, <1>3, <2>1 DEF CallInv, PassesExist
  <2>3. \A p \in due' \cup overdue' : pass'[p].status # "none"
    BY <1>2, <1>3 DEF CallInv, PassesExist
  <2>4. \A p \in Pass : toggle'[p] # "none" => pass'[p].status # "none"
    BY <1>2, <1>3
  <2> QED BY <2>2, <2>3, <2>4 DEF PassesExist
<1> QED BY <1>1, <1>3, <1>4 DEF CallInv, ProcessesTyped

\* Requests, retries, crashes and sweeps of chargeSession and the reconciliation
\* worker use the stored documents only through the operations of the
\* reservation service, so every theorem about those holds while they run.
THEOREM CallsImplementReservations == SessionSpec => ImplementsReservations
<1>1. SessionInit => CallInv /\ StoreInit
  BY CallInitial DEF SessionInit
<1>2. CallInv /\ [SessionNext]_sessionVars => CallInv'
  BY CallStep
<1>3. CallInv /\ [SessionNext]_sessionVars => [StoreNext]_storeVars
  BY SessionStepStores
<1> QED BY <1>1, <1>2, <1>3, PTL DEF SessionSpec, ImplementsReservations, StoreSpec
-----------------------------------------------------------------------------
PaymentTyped ==
  /\ payment \in [Invoice -> {"none", "inflight", "paid", "failed"}]
  /\ sent \in [Key -> Nat]

NoAttemptNotStarted ==
  \A k \in Key : attempt[k].status = "absent" => attempt[k].provider = "not_started"

\* Before its payment is sent an attempt is marked as submitted, and only the
\* request that marked it is about to send.
OneSender ==
  /\ \A c \in Caller : At(c, "execute") => /\ attempt[KeyOf(c)].provider # "not_started"
                                           /\ sent[KeyOf(c)] = 0
  /\ \A c, d \in Caller : At(c, "execute") /\ At(d, "execute") /\ KeyOf(c) = KeyOf(d)
                            => c = d

\* A request about to store a success knows of a completed payment.
SuccessIsPaid ==
  \A c \in Caller : At(c, "paid") \/ At(c, "record") => PaymentOf(KeyOf(c)) = "paid"

StoredSuccessIsPaid ==
  \A k \in Key : attempt[k].provider = "succeeded" => PaymentOf(k) = "paid"

PaymentInv ==
  /\ PaymentTyped /\ NoAttemptNotStarted /\ OneSender /\ SuccessIsPaid /\ StoredSuccessIsPaid
  /\ AtMostOnePayment /\ SentIsRecorded

\* The progress of an attempt, as far as the steps of the store can change it.
ProviderMoves ==
  \A k \in Key :
    /\ attempt[k].provider # "not_started" => attempt'[k].provider # "not_started"
    /\ attempt'[k].status = "absent" => attempt'[k].provider = "not_started"

\* No step of the store takes an attempt back to not_started.
LEMMA StoreMovesProvider ==
  ASSUME ReservationInv, NoAttemptNotStarted, [StoreNext]_storeVars
  PROVE  ProviderMoves
<1> USE DEF ProviderMoves
<1>1. attempt \in [Key -> AttemptRecord]
  BY DEF ReservationInv, ReservationTypeOK
<1>2. ASSUME NEW c \in Caller, NEW k \in Key, NEW d \in RecentDays, ReserveChargeAttempt(c, k, d)
      PROVE  ProviderMoves
  <2>1. attempt[k].status = "absent"
    BY <1>2 DEF ReserveChargeAttempt
  <2>2. attempt' = [attempt EXCEPT ![k] = NewAttempt(c, d)]
    BY <1>2 DEF ReserveChargeAttempt
  <2> QED BY <1>1, <2>1, <2>2 DEF NoAttemptNotStarted, NewAttempt
<1>3. ASSUME NEW c \in Caller, NEW k \in Key, ClaimChargeExecution(c, k)
      PROVE  ProviderMoves
  BY <1>1, <1>3 DEF ClaimChargeExecution, AttemptRecord, NoAttemptNotStarted
<1>4. ASSUME NEW c \in Caller, NEW k \in Key, MarkChargeProviderSubmitted(c, k)
      PROVE  ProviderMoves
  BY <1>1, <1>4 DEF MarkChargeProviderSubmitted, OwnsUnstarted, NotStarted, AttemptRecord,
     NoAttemptNotStarted
<1>5. ASSUME NEW k \in Key, MarkChargeProviderSucceeded(k)
      PROVE  ProviderMoves
  BY <1>1, <1>5 DEF MarkChargeProviderSucceeded, Unresolved, AttemptRecord, NoAttemptNotStarted
<1>6. ASSUME NEW k \in Key, MarkChargeOutcomeUncertain(k)
      PROVE  ProviderMoves
  BY <1>1, <1>6 DEF MarkChargeOutcomeUncertain, AttemptRecord, NoAttemptNotStarted
<1>7. ASSUME NEW k \in Key, ReleaseChargeReservation(k)
      PROVE  ProviderMoves
  <2>1. attempt' = [attempt EXCEPT ![k].status = "failed", ![k].reserve = "released",
                                   ![k].provider = "failed", ![k].age = "expired"]
    BY <1>7 DEF ReleaseChargeReservation
  <2> QED BY <1>1, <2>1 DEF AttemptRecord, NoAttemptNotStarted
<1>8. ASSUME NEW k \in Key, FinalizeChargeReservation(k)
      PROVE  ProviderMoves
  <2>1. attempt' = [attempt EXCEPT ![k].status = "succeeded", ![k].reserve = "debited",
                                   ![k].age = "expired"]
    BY <1>8 DEF FinalizeChargeReservation
  <2> QED BY <1>1, <2>1 DEF AttemptRecord, NoAttemptNotStarted
<1>9. ASSUME NEW k \in Key, LeaseRunsOut(k)
      PROVE  ProviderMoves
  BY <1>1, <1>9 DEF LeaseRunsOut, AttemptRecord, NoAttemptNotStarted
<1>10. CASE attempt' = attempt
  BY <1>10 DEF NoAttemptNotStarted
<1>11. ASSUME NEW p \in Shared, NEW l \in 0..MaxLimit, NEW s \in 0..MaxLimit,
              NEW r \in 0..MaxLimit, NEW st \in Status, SpendElsewhere(p, l, s, r, st)
       PROVE  ProviderMoves
  BY <1>10, <1>11 DEF SpendElsewhere
<1> QED BY <1>2, <1>3, <1>4, <1>5, <1>6, <1>7, <1>8, <1>9, <1>10, <1>11
    DEF StoreNext, EnvironmentNext, ReservationNext, NextDay, CreateSession, MovePass,
    RaiseLimit, LedgerStep, storeVars, reservationVars

\* A step that sends nothing and lets no request begin to send keeps PaymentInv.
LEMMA PaymentKeeps ==
  ASSUME CallsTyped, CallsTyped', PaymentInv, ProviderMoves, PaymentTyped',
         \A k \in Key : attempt'[k].provider = "succeeded"
                          => attempt[k].provider = "succeeded" \/ PaymentOf(k) = "paid",
         \A i \in Invoice : payment[i] = "paid" => payment'[i] = "paid",
         sent' = sent,
         \A c \in Caller : At(c, "execute")' => At(c, "execute") /\ KeyOf(c)' = KeyOf(c),
         \A c \in Caller : At(c, "paid")' \/ At(c, "record")'
           => payment[InvoiceOf[KeyOf(c)']] = "paid"
  PROVE  PaymentInv'
<1>1. \A k \in Key : InvoiceOf[k] \in Invoice
  BY DEF Invoice
<1>2. \A c \in Caller : KeyOf(c) \in Key /\ KeyOf(c)' \in Key
  BY DEF CallsTyped, CallRecord, KeyOf
<1>3. \A k \in Key : PaymentOf(k) = "paid" => PaymentOf(k)' = "paid"
  BY <1>1 DEF PaymentOf
<1>4. OneSender'
  BY <1>2 DEF OneSender, PaymentInv, ProviderMoves
<1>5. SuccessIsPaid'
  BY <1>1, <1>2 DEF SuccessIsPaid, PaymentOf
<1>6. StoredSuccessIsPaid'
  BY <1>3 DEF StoredSuccessIsPaid, PaymentInv
<1>7. NoAttemptNotStarted' /\ AtMostOnePayment' /\ SentIsRecorded'
  BY DEF NoAttemptNotStarted, AtMostOnePayment, SentIsRecorded, PaymentInv, ProviderMoves
<1> QED BY <1>4, <1>5, <1>6, <1>7 DEF PaymentInv

NoNewSuccess ==
  \A k \in Key : attempt'[k].provider = "succeeded" => attempt[k].provider = "succeeded"

\* The owner of an attempt that never started marks it and goes on to send: no
\* other request was about to, since the attempt would be marked already.
LEMMA SubmitPays ==
  ASSUME CallInv, PaymentInv, CallsTyped', ProviderMoves, NEW c \in Caller, Submit(c)
  PROVE  PaymentInv'
<1> DEFINE k == KeyOf(c)
<1>1. /\ k \in Key
      /\ attempt \in [Key -> AttemptRecord]
      /\ CallsTyped
  BY DEF CallInv, ReservationInv, ReservationTypeOK, ProcessesTyped, CallsTyped, CallRecord, KeyOf
<1>2. UNCHANGED <<payment, sent>>
  BY DEF Submit, OnlyCall
<1>3. ASSUME NEW d \in Caller
      PROVE  /\ KeyOf(d)' = KeyOf(d)
             /\ call'[d].at = IF d = c THEN IF OwnsUnstarted(c, k) THEN "execute" ELSE "idle"
                              ELSE call[d].at
  BY <1>1, GoToFacts DEF Submit, Locations, KeyOf
<1>4. CASE OwnsUnstarted(c, k)
  <2>1. attempt[k].provider = "not_started"
    BY <1>4 DEF OwnsUnstarted, NotStarted
  <2>2. attempt' = [attempt EXCEPT ![k].provider = "submitted"]
    BY <1>4 DEF Submit, OrNothing, MarkChargeProviderSubmitted
  <2>3. \A j \in Key : attempt'[j].provider = IF j = k THEN "submitted" ELSE attempt[j].provider
    BY <1>1, <2>2 DEF AttemptRecord
  <2>4. sent[k] = 0
    BY <1>1, <2>1 DEF PaymentInv, SentIsRecorded, PaymentTyped
  <2>5. \A d \in Caller : At(d, "execute") => KeyOf(d) # k
    BY <2>1 DEF PaymentInv, OneSender
  <2>6. OneSender'
    <3>1. \A d \in Caller : At(d, "execute")' => d = c \/ At(d, "execute")
      BY <1>3 DEF At
    <3>2. \A d \in Caller : KeyOf(d) \in Key /\ KeyOf(d)' = KeyOf(d)
      BY <1>1, <1>3 DEF CallsTyped, CallRecord, KeyOf
    <3> HIDE DEF k
    <3>3. KeyOf(c) = k
      BY DEF k
    <3> QED BY <1>2, <2>3, <2>4, <2>5, <3>1, <3>2, <3>3 DEF OneSender, PaymentInv
  <2>7. SuccessIsPaid'
    BY <1>2, <1>3, <1>4 DEF SuccessIsPaid, At, PaymentInv, PaymentOf
  <2>8. StoredSuccessIsPaid'
    BY <1>2, <2>3 DEF StoredSuccessIsPaid, PaymentInv, PaymentOf
  <2>9. NoAttemptNotStarted' /\ AtMostOnePayment' /\ SentIsRecorded' /\ PaymentTyped'
    BY <1>2 DEF NoAttemptNotStarted, AtMostOnePayment, SentIsRecorded, PaymentTyped,
       PaymentInv, ProviderMoves
  <2> QED BY <2>6, <2>7, <2>8, <2>9 DEF PaymentInv
<1>5. CASE ~OwnsUnstarted(c, k)
  <2>1. attempt' = attempt
    BY <1>5 DEF Submit, OrNothing, NoStoreChange, storeVars, reservationVars
  <2>2. \A d \in Caller : At(d, "execute")' => At(d, "execute") /\ KeyOf(d)' = KeyOf(d)
    BY <1>3, <1>5 DEF At
  <2>3. \A d \in Caller : At(d, "paid")' \/ At(d, "record")'
          => payment[InvoiceOf[KeyOf(d)']] = "paid"
    BY <1>3, <1>5 DEF At, PaymentInv, SuccessIsPaid, PaymentOf
  <2>4. PaymentTyped'
    BY <1>2 DEF PaymentInv, PaymentTyped
  <2> QED BY <1>1, <1>2, <2>1, <2>2, <2>3, <2>4, PaymentKeeps
<1> QED BY <1>4, <1>5

\* Sending is the one step that counts a payment, and leaves no sender behind.
LEMMA SendPays ==
  ASSUME CallInv, PaymentInv, CallsTyped', NEW c \in Caller, Send(c)
  PROVE  PaymentInv'
<1> DEFINE k == KeyOf(c)
<1>1. k \in Key /\ CallsTyped /\ InvoiceOf[k] \in Invoice
  BY DEF CallInv, ProcessesTyped, CallsTyped, CallRecord, KeyOf, Invoice
<1>2. attempt' = attempt
  BY DEF Send, NoStoreChange, storeVars, reservationVars
<1>3. ASSUME NEW d \in Caller
      PROVE  /\ KeyOf(d)' = KeyOf(d)
             /\ call'[d].at = IF d = c THEN "waiting" ELSE call[d].at
  BY <1>1, GoToFacts DEF Send, Locations, KeyOf
<1>4. sent[k] = 0 /\ attempt[k].provider # "not_started"
  BY DEF Send, PaymentInv, OneSender
<1>5. /\ sent' \in [Key -> Nat]
      /\ \A j \in Key : sent'[j] = IF j = k THEN 1 ELSE sent[j]
  <2>1. sent \in [Key -> Nat] /\ sent' = [sent EXCEPT ![k] = sent[k] + 1]
    BY DEF Send, PaymentInv, PaymentTyped
  <2> QED BY <1>1, <1>4, <2>1
<1>6. /\ payment' \in [Invoice -> {"none", "inflight", "paid", "failed"}]
      /\ \A i \in Invoice : payment[i] = "paid" => payment'[i] = "paid"
  BY <1>1 DEF Send, PaymentInv, PaymentTyped, PaymentOf
<1>7. \A j \in Key : PaymentOf(j) = "paid" => PaymentOf(j)' = "paid"
  BY <1>6 DEF PaymentOf, Invoice
<1>8. OneSender'
  <2>1. \A d \in Caller : At(d, "execute")' => At(d, "execute") /\ d # c
    BY <1>3 DEF At
  <2>2. \A d \in Caller : At(d, "execute") /\ d # c => KeyOf(d) # k
    BY DEF PaymentInv, OneSender, Send
  <2>3. \A d \in Caller : KeyOf(d) \in Key
    BY <1>1 DEF CallsTyped, CallRecord, KeyOf
  <2> QED BY <1>2, <1>3, <1>5, <2>1, <2>2, <2>3 DEF PaymentInv, OneSender
<1>9. SuccessIsPaid'
  <2>1. \A d \in Caller : KeyOf(d) \in Key
    BY <1>1 DEF CallsTyped, CallRecord, KeyOf
  <2>2. \A d \in Caller : At(d, "paid")' \/ At(d, "record")'
          => PaymentOf(KeyOf(d)) = "paid" /\ KeyOf(d)' = KeyOf(d)
    BY <1>3 DEF At, PaymentInv, SuccessIsPaid
  <2> QED BY <1>7, <2>1, <2>2 DEF SuccessIsPaid, PaymentOf
<1>10. StoredSuccessIsPaid'
  BY <1>2, <1>7 DEF PaymentInv, StoredSuccessIsPaid
<1>11. NoAttemptNotStarted' /\ AtMostOnePayment' /\ SentIsRecorded'
  BY <1>2, <1>4, <1>5 DEF PaymentInv, NoAttemptNotStarted, AtMostOnePayment, SentIsRecorded
<1> QED BY <1>5, <1>6, <1>8, <1>9, <1>10, <1>11 DEF PaymentInv, PaymentTyped

\* Every other step of a request sends nothing, and stores a success only of a
\* completed payment.
LEMMA ChargeStepPays ==
  ASSUME CallInv, PaymentInv, ProviderMoves, [StoreNext]_storeVars,
         NEW c \in Caller, ChargeStep(c)
  PROVE  PaymentInv'
<1> DEFINE k == KeyOf(c)
<1>1. /\ CallsTyped'
      /\ \A d \in Caller : /\ call'[d].key = call[d].key
                           /\ d # c => call'[d] = call[d]
  BY ChargeStepCalls DEF CallInv, ProcessesTyped, PassesExist
<1>2. k \in Key /\ CallsTyped /\ attempt \in [Key -> AttemptRecord]
  BY DEF CallInv, ReservationInv, ReservationTypeOK, ProcessesTyped, CallsTyped, CallRecord, KeyOf
<1>3. CASE Submit(c)
  BY <1>1, <1>3, SubmitPays
<1>4. CASE Send(c)
  BY <1>1, <1>4, SendPays
<1>5. CASE ~Submit(c) /\ ~Send(c)
  <2>1. UNCHANGED <<payment, sent>>
    BY <1>5 DEF ChargeStep, ExpireOnCharge, FindExistingAttempt, CheckFunding, Quote, Reserve,
       ReserveFindsAttempt, ReserveRejected, Claim, ClaimRefused, Correlate, SendFails,
       Answer, LookupAfterError, Recover, PersistSuccess, RecordLookup, RecordUncertain,
       Drop, Finalize, Reload, SaveStatus, ReleaseUnusedFunding, OnlyCall
  <2>2. /\ call'[c].at # "execute"
        /\ call'[c].at \in {"paid", "record"} => PaymentOf(k) = "paid"
    <3>1. ASSUME NEW there \in Locations, GoTo(c, there)
          PROVE  call'[c].at = there
      BY <1>2, <3>1, GoToFacts
    <3>2. CASE FindExistingAttempt(c)
      BY <1>2, <3>2 DEF FindExistingAttempt, Return, GoTo, CallsTyped, CallRecord
    <3>3. CASE ReserveFindsAttempt(c)
      BY <1>2, <3>3 DEF ReserveFindsAttempt, Return, GoTo, CallsTyped, CallRecord
    <3>4. CASE \E there \in Locations \ {"execute", "paid", "record"} : GoTo(c, there)
      BY <3>1, <3>4
    <3>5. CASE PaymentOf(k) = "paid" /\ (GoTo(c, "paid") \/ GoTo(c, "record"))
      BY <3>1, <3>5 DEF Locations
    <3> QED BY <1>5, <3>2, <3>3, <3>4, <3>5
        DEF ChargeStep, ExpireOnCharge, CheckFunding, Quote, Reserve, ReserveRejected, Claim,
        ClaimRefused, Correlate, SendFails, Answer, LookupAfterError, Recover, PersistSuccess,
        RecordLookup, RecordUncertain, Drop, Finalize, Reload, SaveStatus,
        ReleaseUnusedFunding, Lookup, Return, Locations
  <2>3. \A j \in Key : attempt'[j].provider = "succeeded"
                         => attempt[j].provider = "succeeded" \/ PaymentOf(j) = "paid"
    <3>1. CASE PersistSuccess(c) \/ RecordLookup(c)
      <4>1. PaymentOf(k) = "paid"
        BY <3>1 DEF PersistSuccess, RecordLookup, PaymentInv, SuccessIsPaid
      <4>2. attempt' = attempt \/ attempt' = [attempt EXCEPT ![k].provider = "succeeded"]
        BY <3>1 DEF PersistSuccess, RecordLookup, OrNothing, NoStoreChange,
           MarkChargeProviderSucceeded, storeVars, reservationVars
      <4> QED BY <1>2, <4>1, <4>2 DEF AttemptRecord
    <3>2. CASE ~PersistSuccess(c) /\ ~RecordLookup(c)
      <4>1. NoNewSuccess
        <5>1. ASSUME NEW j \in Key, MarkChargeOutcomeUncertain(j) \/ ReleaseChargeReservation(j)
                                    \/ FinalizeChargeReservation(j)
              PROVE  NoNewSuccess
          <6>1. \/ attempt' = [attempt EXCEPT ![j].status = "uncertain",
                                              ![j].provider = "uncertain"]
                \/ attempt' = [attempt EXCEPT ![j].status = "failed", ![j].reserve = "released",
                                              ![j].provider = "failed", ![j].age = "expired"]
                \/ attempt' = [attempt EXCEPT ![j].status = "succeeded",
                                              ![j].reserve = "debited", ![j].age = "expired"]
            BY <5>1 DEF MarkChargeOutcomeUncertain, ReleaseChargeReservation,
               FinalizeChargeReservation
          <6> QED BY <1>2, <6>1 DEF AttemptRecord, NoNewSuccess
        <5>2. ASSUME NEW j \in Key, NEW d \in RecentDays,
                     ReserveChargeAttempt(c, j, d) \/ ClaimChargeExecution(c, j)
              PROVE  NoNewSuccess
          <6>1. \/ attempt' = [attempt EXCEPT ![j] = NewAttempt(c, d)]
                \/ attempt' = [attempt EXCEPT ![j].lease = c, ![j].age = "held"]
            BY <5>2 DEF ReserveChargeAttempt, ClaimChargeExecution
          <6> QED BY <1>2, <6>1 DEF AttemptRecord, NoNewSuccess, NewAttempt
        <5>3. CASE attempt' = attempt
          BY <5>3 DEF NoNewSuccess
        <5>4. CASE Reserve(c) \/ Claim(c)
          <6>1. RecentDays # {}
            BY DEF CallInv, ReservationInv, ReservationTypeOK, RecentDays
          <6> QED BY <1>2, <5>2, <5>4, <6>1 DEF Reserve, Claim
        <5>5. CASE RecordUncertain(c) \/ Drop(c) \/ Finalize(c)
          BY <1>2, <5>1, <5>3, <5>5 DEF RecordUncertain, Drop, Finalize, OrNothing,
             NoStoreChange, storeVars, reservationVars
        <5>6. CASE ReleaseUnusedFunding(c)
          BY <5>3, <5>6 DEF ReleaseUnusedFunding, OrNothing, NoStoreChange, storeVars,
             reservationVars
        <5>7. CASE NoStoreChange
          BY <5>3, <5>7 DEF NoStoreChange, storeVars, reservationVars
        <5> QED BY <1>5, <3>2, <5>3, <5>4, <5>5, <5>6, <5>7
            DEF ChargeStep, ExpireOnCharge, FindExistingAttempt, CheckFunding, Quote,
            ReserveFindsAttempt, ReserveRejected, ClaimRefused, Correlate, SendFails, Answer,
            LookupAfterError, Recover, Reload, SaveStatus
      <4> QED BY <4>1 DEF NoNewSuccess
    <3> QED BY <3>1, <3>2
  <2>4. \A d \in Caller : At(d, "execute")' => At(d, "execute") /\ KeyOf(d)' = KeyOf(d)
    BY <1>1, <2>2 DEF At, KeyOf
  <2>5. \A d \in Caller : At(d, "paid")' \/ At(d, "record")'
          => payment[InvoiceOf[KeyOf(d)']] = "paid"
    <3>1. ASSUME NEW d \in Caller, At(d, "paid")' \/ At(d, "record")'
          PROVE  PaymentOf(KeyOf(d)) = "paid" /\ KeyOf(d)' = KeyOf(d)
      <4>1. CASE d = c
        BY <1>1, <2>2, <3>1, <4>1 DEF At, KeyOf
      <4>2. CASE d # c
        BY <1>1, <3>1, <4>2 DEF At, KeyOf, PaymentInv, SuccessIsPaid
      <4> QED BY <4>1, <4>2
    <3> QED BY <3>1 DEF PaymentOf
  <2>6. PaymentTyped'
    BY <2>1 DEF PaymentInv, PaymentTyped
  <2> QED BY <1>1, <1>2, <2>1, <2>3, <2>4, <2>5, <2>6, PaymentKeeps
<1> QED BY <1>3, <1>4, <1>5

\* What the requests do not do - the provider, sweeps, owner and clock - sends
\* nothing either, and a settled payment stays settled.
LEMMA SessionStepPays ==
  ASSUME CallInv, CallInv', PaymentInv, [SessionNext]_sessionVars
  PROVE  PaymentInv'
<1>1. [StoreNext]_storeVars /\ ProviderMoves
  BY SessionStepStores, StoreMovesProvider DEF CallInv, PaymentInv
<1>2. CallsTyped /\ CallsTyped' /\ attempt \in [Key -> AttemptRecord]
  BY DEF CallInv, ProcessesTyped, ReservationInv, ReservationTypeOK
<1>3. CASE \E c \in Caller : ChargeStep(c)
  BY <1>1, <1>3, ChargeStepPays
<1>4. ASSUME NoNewSuccess, UNCHANGED sent, PaymentTyped',
             \A i \in Invoice : payment[i] = "paid" => payment'[i] = "paid",
             \A c \in Caller : \/ call'[c] = call[c]
                               \/ call'[c].at \in {"idle", "expire", "lookup"}
      PROVE  PaymentInv'
  <2>1. \A c \in Caller : At(c, "execute")' => At(c, "execute") /\ KeyOf(c)' = KeyOf(c)
    BY <1>4 DEF At, KeyOf
  <2>2. \A c \in Caller : At(c, "paid")' \/ At(c, "record")'
          => payment[InvoiceOf[KeyOf(c)']] = "paid"
    BY <1>4 DEF At, KeyOf, PaymentInv, SuccessIsPaid, PaymentOf
  <2> QED BY <1>1, <1>2, <1>4, <2>1, <2>2, PaymentKeeps DEF NoNewSuccess
<1>5. ASSUME attempt' = attempt
      PROVE  NoNewSuccess
  BY <1>5 DEF NoNewSuccess
<1>6. ASSUME payment' = payment, sent' = sent
      PROVE  PaymentTyped' /\ \A i \in Invoice : payment[i] = "paid" => payment'[i] = "paid"
  BY <1>6 DEF PaymentInv, PaymentTyped
<1>7. ASSUME NEW i \in Invoice, ProviderSettles(i)
      PROVE  PaymentInv'
  <2>1. PaymentTyped' /\ \A j \in Invoice : payment[j] = "paid" => payment'[j] = "paid"
    BY <1>7 DEF ProviderSettles, PaymentInv, PaymentTyped
  <2> QED BY <1>4, <1>5, <1>7, <2>1 DEF ProviderSettles, NoStoreChange, storeVars, reservationVars
<1>8. ASSUME NEW c \in Caller, NEW k \in Key, BeginCharge(c, k)
      PROVE  PaymentInv'
  <2>1. \A d \in Caller : call'[d] = call[d] \/ call'[d].at \in {"idle", "expire", "lookup"}
    BY <1>2, <1>8 DEF BeginCharge, CallsTyped, CallRecord
  <2> QED BY <1>4, <1>5, <1>6, <1>8, <2>1
      DEF BeginCharge, OnlyCall, NoStoreChange, storeVars, reservationVars
<1>9. ASSUME NEW c \in Caller, Crash(c)
      PROVE  PaymentInv'
  <2>1. \A d \in Caller : call'[d] = call[d] \/ call'[d].at \in {"idle", "expire", "lookup"}
    BY <1>2, <1>9 DEF Crash, Return, GoTo, CallsTyped, CallRecord
  <2> QED BY <1>4, <1>5, <1>6, <1>9, <2>1
      DEF Crash, NoStoreChange, storeVars, reservationVars
<1>10. ASSUME NEW k \in Key, ReleaseStale(k)
       PROVE  PaymentInv'
  <2>1. \/ attempt' = attempt
        \/ attempt' = [attempt EXCEPT ![k].status = "failed", ![k].reserve = "released",
                                      ![k].provider = "failed", ![k].age = "expired"]
    BY <1>10 DEF ReleaseStale, OrNothing, NoStoreChange, storeVars, reservationVars,
       ReleaseChargeReservation
  <2>2. NoNewSuccess
    BY <1>2, <2>1 DEF NoNewSuccess, AttemptRecord
  <2> QED BY <1>4, <1>6, <1>10, <2>2 DEF ReleaseStale
<1>11. CASE Elsewhere
  <2>1. attempt' = attempt
        \/ \E k \in Key : attempt' = [attempt EXCEPT ![k].age =
                                        IF @ = "held" THEN "expired" ELSE "stale"]
    <3>1. ASSUME NEW p \in Shared, NEW l \in 0..MaxLimit, NEW s \in 0..MaxLimit,
                 NEW r \in 0..MaxLimit, NEW st \in Status, SpendElsewhere(p, l, s, r, st)
          PROVE  attempt' = attempt
      BY <3>1 DEF SpendElsewhere
    <3> QED BY <1>11, <3>1 DEF Elsewhere, LeaseRunsOut, NextDay, CreateSession, reservationVars
  <2>2. NoNewSuccess
    BY <1>2, <2>1 DEF NoNewSuccess, AttemptRecord
  <2> QED BY <1>4, <1>6, <1>11, <2>2 DEF Elsewhere, processVars
<1>12. CASE attempt' = attempt /\ UNCHANGED <<call, payment, sent>>
  BY <1>4, <1>5, <1>6, <1>12
<1> QED BY <1>3, <1>7, <1>8, <1>9, <1>10, <1>11, <1>12
    DEF SessionNext, SweepAttempts, SweepPasses, ExpiryPasses, ExpirePass, LoadToggle, SaveToggle,
    NoStoreChange, storeVars, reservationVars, sessionVars, processVars

\* Initially nothing has been sent.
LEMMA PaymentInitial == SessionInit => PaymentInv
<1> SUFFICES ASSUME SessionInit PROVE PaymentInv
  OBVIOUS
<1>1. /\ \A k \in Key : attempt[k] = NoAttempt
      /\ \A c \in Caller : call[c].at = "idle"
  BY DEF SessionInit, StoreInit, ReservationInit
<1>2. PaymentTyped /\ AtMostOnePayment /\ SentIsRecorded
  BY DEF SessionInit, PaymentTyped, AtMostOnePayment, SentIsRecorded
<1> QED BY <1>1, <1>2 DEF PaymentInv, NoAttemptNotStarted, OneSender, SuccessIsPaid,
    StoredSuccessIsPaid, NoAttempt, At

\* The bounds on crashes and on the owner's pauses are counted from zero.
CountsTyped == crashes \in Nat /\ pauses \in Nat

\* No step of a request, a sweep or the owner takes a count back.
LEMMA CountsKept == CountsTyped /\ [SessionNext]_sessionVars => CountsTyped'
<1> SUFFICES ASSUME CountsTyped, [SessionNext]_sessionVars PROVE CountsTyped'
  OBVIOUS
<1>1. ASSUME NEW c \in Caller, ChargeStep(c) PROVE UNCHANGED <<crashes, pauses>>
  BY <1>1 DEF ChargeStep, ExpireOnCharge, FindExistingAttempt, CheckFunding, Quote, Reserve,
     ReserveFindsAttempt, ReserveRejected, Claim, ClaimRefused, Correlate, Submit, Send,
     SendFails, Answer, LookupAfterError, Recover, PersistSuccess, RecordLookup,
     RecordUncertain, Drop, Finalize, Reload, SaveStatus, ReleaseUnusedFunding, OnlyCall
<1>2. ASSUME NEW c \in Caller, NEW k \in Key, BeginCharge(c, k) PROVE UNCHANGED <<crashes, pauses>>
  BY <1>2 DEF BeginCharge, OnlyCall
<1>3. ASSUME \/ \E i \in Invoice : ProviderSettles(i)
             \/ SweepAttempts \/ SweepPasses \/ Elsewhere
             \/ \E k \in Key : ReleaseStale(k)
             \/ \E p \in Pass : ExpiryPasses(p) \/ ExpirePass(p) \/ SaveToggle(p)
      PROVE  UNCHANGED <<crashes, pauses>>
  BY <1>3 DEF ProviderSettles, SweepAttempts, SweepPasses, Elsewhere, ReleaseStale, ExpiryPasses,
     ExpirePass, SaveToggle, processVars
<1>4. ASSUME (\E c \in Caller : Crash(c)) \/ (\E p \in Pass : LoadToggle(p)) PROVE CountsTyped'
  BY <1>4 DEF Crash, LoadToggle, CountsTyped
<1>5. CASE UNCHANGED sessionVars
  BY <1>5 DEF sessionVars, processVars, CountsTyped
<1> QED BY <1>1, <1>2, <1>3, <1>4, <1>5 DEF SessionNext, CountsTyped

\* However requests with one key interleave, crash and retry, chargeSession
\* sends at most one payment for it, never before its attempt says so, and
\* debits a pass only for a payment the provider completed; its documents and
\* requests keep their schema.
THEOREM PaymentsSafe ==
  SessionSpec => [](SessionTypeOK /\ PaymentsSound)
<1>1. SessionInit => CallInv /\ PaymentInv
  BY CallInitial, PaymentInitial
<1>2. CallInv /\ PaymentInv /\ [SessionNext]_sessionVars => CallInv' /\ PaymentInv'
  BY CallStep, SessionStepPays
<1>3. CallInv /\ PaymentInv => PaymentsSound
  BY DEF CallInv, ReservationInv, AttemptConsistent, PaymentInv, StoredSuccessIsPaid,
     PaymentsSound, DebitedOnlyIfPaid, Debited
<1>4. CallInv /\ PaymentInv /\ CountsTyped => SessionTypeOK
  BY DEF CallInv, ReservationInv, ProcessesTyped, CallsTyped, PaymentInv, PaymentTyped,
     CountsTyped, SessionTypeOK
<1>5. SessionInit => CountsTyped
  BY DEF SessionInit, CountsTyped
<1> QED BY <1>1, <1>2, <1>3, <1>4, <1>5, CountsKept, PTL DEF SessionSpec

\* What the store guarantees to its callers it guarantees to these: the limit of a
\* day and the funding totals, and on the passes only charges spend the pass's
\* limit, single use and exact counters, hold throughout any run of the requests.
THEOREM StoreCorrectUnderCalls ==
  SessionSpec => [](AttemptsAccounted /\ LimitsHold /\ SingleUseOnce /\ LedgerBalanced)
<1>1. SessionSpec => StoreSpec
  BY CallsImplementReservations DEF ImplementsReservations
<1> QED BY <1>1, ReservationsCorrect, LedgerCorrectUnderCharges, PTL
=============================================================================
