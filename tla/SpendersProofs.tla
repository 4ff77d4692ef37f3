--------------------------- MODULE SpendersProofs ---------------------------
(***************************************************************************)
(* Schedules, a metered grant and charges on one pass, for any number of   *)
(* schedules, due dates, events, batches and workers: the Atomic counters  *)
(* of the pass and those of the grant are what the documents hold and were *)
(* debited, the Minor ones follow until a charge is made, and what says    *)
(* succeeded or settled was paid.                                          *)
(***************************************************************************)
EXTENDS PassSpenders, TotalsProofs, WellFoundedInduction

-----------------------------------------------------------------------------
(* Payment schedules.                                                      *)
\* An occurrence of a Fiber schedule holds nothing itself, what succeeded was paid,
\* and no occurrence is ahead of its schedule's next due date.
OccurrenceFacts ==
  \A s \in Schedule, n \in Due :
    /\ s \in Fiber => occurrence[s][n].hold = "none"
    /\ occurrence[s][n].status = "succeeded" \/ occurrence[s][n].hold = "spent"
         => payment[s][n] = "succeeded"
    /\ s \notin Fiber /\ occurrence[s][n].status # "absent" => n <= schedule[s].next

\* What a worker x may rely on: it finalizes what was paid, reserves only for
\* schedules that reserve themselves, and is not ahead either.
WorkerSound(x) ==
  /\ x.at = "finalize" => payment[x.s][x.n] = "succeeded"
  /\ x.at = "reserve" => x.s \notin Fiber
  /\ x.s \notin Fiber => x.n <= schedule[x.s].next

RequestSound == request.s \notin Fiber => \A n \in request.block : n <= schedule[request.s].next

\* The inductive invariant of the schedules.
ScheduleInv ==
  /\ ScheduleTypeOK
  /\ OccurrenceFacts /\ CountFollowsDebits
  /\ \A w \in Scheduler : WorkerSound(scheduler[w])
  /\ RequestSound

\* The records of processes that are idle.
LEMMA IdleScheduleTyped ==
  /\ IdleScheduler \in SchedulerRecord /\ IdleScheduler.at = "idle" /\ IdleScheduler.n = 0
  /\ IdleRequest \in RequestRecord /\ IdleRequest.block = {}
<1>1. AnySchedule \in Schedule
  BY ScheduleAssumption DEF AnySchedule
<1>2. 0 \in Due
  BY ScheduleAssumption DEF Due
<1> QED BY <1>1, <1>2 DEF IdleScheduler, IdleRequest, SchedulerRecord, RequestRecord, Closed

\* Sets of occurrences are finite.
LEMMA OccurrencesFinite ==
  ASSUME NEW S \in SUBSET (Schedule \X Due)
  PROVE  IsFiniteSet(S) /\ Cardinality(S) \in Nat
<1>1. IsFiniteSet(Due)
  BY ScheduleAssumption, FS_Interval DEF Due
<1>2. IsFiniteSet(Schedule \X Due)
  BY <1>1, ScheduleAssumption, FS_Product
<1> QED BY <1>2, FS_Subset, FS_CardinalityType

\* One more occurrence is worth one more price.
LEMMA OneMore ==
  ASSUME NEW S \in SUBSET (Schedule \X Due), NEW x \in (Schedule \X Due) \ S
  PROVE  Price * Cardinality(S \cup {x}) = Price * Cardinality(S) + Price
<1>1. Cardinality(S \cup {x}) = Cardinality(S) + 1
  BY OccurrencesFinite, FS_AddElement
<1>2. ASSUME NEW n \in Nat PROVE Price * (n + 1) = Price * n + Price
  BY ScheduleAssumption
<1> QED BY <1>1, <1>2, OccurrencesFinite

\* One less is worth one price less.
LEMMA OneLess ==
  ASSUME NEW S \in SUBSET (Schedule \X Due), NEW x \in S
  PROVE  /\ Price * Cardinality(S \ {x}) = Price * Cardinality(S) - Price
         /\ Price * Cardinality(S) >= Price
<1> DEFINE R == S \ {x}
<1>1. Price * Cardinality(R \cup {x}) = Price * Cardinality(R) + Price
  BY OneMore
<1>2. R \cup {x} = S
  OBVIOUS
<1>3. ASSUME NEW n \in Nat PROVE Price * n \in Nat
  BY ScheduleAssumption
<1>4. Price * Cardinality(R) \in Nat
  BY <1>3, OccurrencesFinite
<1> HIDE DEF R
<1>5. Price * Cardinality(S) = Price * Cardinality(R) + Price
  BY <1>1, <1>2
<1> QED BY <1>4, <1>5, ScheduleAssumption DEF R

\* What the occurrences hold and have spent are amounts.
LEMMA HoldsTyped ==
  /\ ScheduleHolds \in Nat /\ ScheduleSpent \in Nat
  /\ ScheduleHolds' \in Nat /\ ScheduleSpent' \in Nat
<1>1. /\ Reserving \in SUBSET (Schedule \X Due) /\ Spent \in SUBSET (Schedule \X Due)
      /\ Reserving' \in SUBSET (Schedule \X Due) /\ Spent' \in SUBSET (Schedule \X Due)
  BY DEF Reserving, Spent
<1>2. ASSUME NEW n \in Nat PROVE Price * n \in Nat
  BY ScheduleAssumption
<1> QED BY <1>1, <1>2, OccurrencesFinite DEF ScheduleHolds, ScheduleSpent

\* A step that makes no occurrence succeed and none spent keeps the invariant if what it
\* writes is typed and its processes are sound.
LEMMA ScheduleKept ==
  ASSUME ScheduleInv, ScheduleTypeOK',
         \A s \in Schedule : /\ schedule'[s].next = schedule[s].next
                             /\ schedule'[s].count = schedule[s].count,
         \A s \in Schedule, n \in Due :
            /\ s \in Fiber => occurrence'[s][n].hold = "none"
            /\ occurrence'[s][n].hold = "spent" <=> occurrence[s][n].hold = "spent"
            /\ occurrence'[s][n].status = "succeeded" => occurrence[s][n].status = "succeeded"
            /\ payment[s][n] = "succeeded" => payment'[s][n] = "succeeded"
            /\ s \notin Fiber /\ occurrence'[s][n].status # "absent" => n <= schedule[s].next,
         \A w \in Scheduler : WorkerSound(scheduler[w])',
         RequestSound'
  PROVE  ScheduleInv'
<1>1. OccurrenceFacts'
  BY DEF ScheduleInv, OccurrenceFacts
<1>2. Spent' = Spent
  BY DEF Spent
<1>3. ASSUME NEW s \in Schedule \ Fiber
      PROVE  /\ schedule'[s].count = Cardinality({n \in Due : <<s, n>> \in Spent'})
             /\ \A n \in Due : n < schedule'[s].next => <<s, n>> \in Spent'
  <2>1. {n \in Due : <<s, n>> \in Spent'} = {n \in Due : <<s, n>> \in Spent}
    BY <1>2
  <2>2. /\ schedule[s].count = Cardinality({n \in Due : <<s, n>> \in Spent})
        /\ \A n \in Due : n < schedule[s].next => <<s, n>> \in Spent
    BY DEF ScheduleInv, CountFollowsDebits
  <2> QED BY <1>2, <2>1, <2>2
<1>4. CountFollowsDebits'
  BY <1>3 DEF CountFollowsDebits
<1> QED BY <1>1, <1>4 DEF ScheduleInv

\* A step that takes no hold further leaves the sums alone.
LEMMA SumsKept ==
  ASSUME \A s \in Schedule, n \in Due : occurrence'[s][n].hold = occurrence[s][n].hold
  PROVE  ScheduleHolds' = ScheduleHolds /\ ScheduleSpent' = ScheduleSpent
<1>1. Reserving' = Reserving /\ Spent' = Spent
  BY DEF Reserving, Spent
<1> QED BY <1>1 DEF ScheduleHolds, ScheduleSpent

\* A schedule step that leaves the sums alone.
ScheduleQuiet ==
  ScheduleInv' /\ ScheduleHolds' = ScheduleHolds /\ ScheduleSpent' = ScheduleSpent

\* A schedule keeps its next due date and its count.
SameProgress(s) == schedule'[s].next = schedule[s].next /\ schedule'[s].count = schedule[s].count

\* The parts of the invariant that the steps use.
LEMMA ScheduleParts ==
  ASSUME ScheduleInv
  PROVE  /\ schedule \in [Schedule -> ScheduleRecord]
         /\ occurrence \in [Schedule -> [Due -> OccurrenceRecord]]
         /\ payment \in [Schedule -> [Due -> PaymentStatus]]
         /\ destination \in DestinationRecord
         /\ scheduler \in [Scheduler -> SchedulerRecord]
         /\ request \in RequestRecord
         /\ \A w \in Scheduler : WorkerSound(scheduler[w])
BY DEF ScheduleInv, ScheduleTypeOK

\* What a step of worker w does, with a document of occurrence <<s, n>> that keeps its
\* hold: whatever it does to statuses and leases, the invariant and the sums stay.
LEMMA SchedulerActs ==
  ASSUME ScheduleInv, NEW w \in Scheduler, NEW r \in SchedulerRecord, WorkerSound(r),
         scheduler' = [scheduler EXCEPT ![w] = r],
         UNCHANGED <<payment, destination, request>>,
         schedule' \in [Schedule -> ScheduleRecord], \A s \in Schedule : SameProgress(s),
         NEW s \in Schedule, NEW n \in Due, NEW o \in OccurrenceRecord,
         occurrence' = [occurrence EXCEPT ![s][n] = o],
         o.hold = occurrence[s][n].hold,
         \/ o.status = occurrence[s][n].status
         \/ /\ o.status # "succeeded"
            /\ s \notin Fiber => n <= schedule[s].next
  PROVE  ScheduleQuiet
<1>1. ScheduleTypeOK'
  BY ScheduleParts DEF ScheduleTypeOK
<1>2. ASSUME NEW q \in Schedule, NEW m \in Due
      PROVE  /\ occurrence'[q][m].hold = occurrence[q][m].hold
             /\ \/ occurrence'[q][m].status = occurrence[q][m].status
                \/ /\ occurrence'[q][m].status # "succeeded"
                   /\ q \notin Fiber => m <= schedule[q].next
  <2>1. occurrence'[q][m] = IF q = s /\ m = n THEN o ELSE occurrence[q][m]
    BY ScheduleParts
  <2> QED BY <2>1
<1>3. ASSUME NEW v \in Scheduler PROVE WorkerSound(scheduler[v])'
  <2>1. WorkerSound(IF v = w THEN r ELSE scheduler[v])
    BY ScheduleParts
  <2>2. scheduler'[v] = IF v = w THEN r ELSE scheduler[v]
    BY ScheduleParts
  <2>3. scheduler'[v].s \in Schedule
    BY <1>1 DEF ScheduleTypeOK, SchedulerRecord
  <2> QED BY <2>1, <2>2, <2>3 DEF WorkerSound, SameProgress
<1>4. RequestSound'
  BY ScheduleParts DEF ScheduleInv, RequestSound, RequestRecord, SameProgress
<1>5. ScheduleInv'
  BY <1>1, <1>2, <1>3, <1>4, ScheduleKept DEF SameProgress, ScheduleInv, OccurrenceFacts
<1> QED BY <1>2, <1>5, SumsKept DEF ScheduleQuiet

\* The same of a step that leaves the occurrences alone.
LEMMA SchedulerMoves ==
  ASSUME ScheduleInv, NEW w \in Scheduler, NEW r \in SchedulerRecord, WorkerSound(r),
         scheduler' = [scheduler EXCEPT ![w] = r],
         UNCHANGED <<occurrence, payment, destination, request>>,
         schedule' \in [Schedule -> ScheduleRecord], \A s \in Schedule : SameProgress(s)
  PROVE  ScheduleQuiet
<1> DEFINE s == scheduler[w].s
           n == scheduler[w].n
<1>1. s \in Schedule /\ n \in Due
  BY ScheduleParts DEF SchedulerRecord
<1>2. occurrence[s][n] \in OccurrenceRecord
  BY <1>1, ScheduleParts
<1>3. occurrence' = [occurrence EXCEPT ![s][n] = occurrence[s][n]]
  BY <1>1, ScheduleParts
<1> HIDE DEF s, n
<1> QED BY <1>1, <1>2, <1>3, SchedulerActs

Places ==
  {"idle", "pass", "close", "closing", "claim", "lookup", "recovered", "reserve", "deplete",
   "depleted", "resolve", "store", "submit", "pay", "answer", "finalize", "unsure", "retry",
   "suspend", "block"}

\* Worker w goes to a place it may be at.
Placed(w) == \E r \in SchedulerRecord : scheduler' = [scheduler EXCEPT ![w] = r] /\ WorkerSound(r)

\* A place written into a worker's record.
LEMMA PlaceTyped ==
  ASSUME NEW x \in SchedulerRecord, NEW at \in Places
  PROVE  LET r == [x EXCEPT !.at = at]
         IN r \in SchedulerRecord /\ r.at = at /\ r.s = x.s /\ r.n = x.n
BY DEF SchedulerRecord, Places

\* A worker with the record of another place, of the same occurrence.
LEMMA SameOccurrence ==
  ASSUME ScheduleInv, NEW w \in Scheduler, NEW r \in SchedulerRecord,
         scheduler' = [scheduler EXCEPT ![w] = r],
         r.s = scheduler[w].s, r.n = scheduler[w].n,
         r.at = "finalize" => Paying(w) = "succeeded",
         r.at = "reserve" => r.s \notin Fiber
  PROVE  Placed(w)
BY ScheduleParts DEF Placed, WorkerSound, Paying

\* A worker that goes on with its occurrence.
LEMMA GotoPlaces ==
  ASSUME ScheduleInv, NEW w \in Scheduler, NEW at \in Places, Goto(w, at),
         at = "finalize" => Paying(w) = "succeeded",
         at = "reserve" => scheduler[w].s \notin Fiber
  PROVE  Placed(w)
<1> DEFINE r == [scheduler[w] EXCEPT !.at = at]
<1>1. r \in SchedulerRecord /\ r.at = at /\ r.s = scheduler[w].s /\ r.n = scheduler[w].n
  BY ScheduleParts, PlaceTyped
<1>2. scheduler' = [scheduler EXCEPT ![w] = r]
  BY DEF Goto
<1> HIDE DEF r
<1> QED BY <1>1, <1>2, SameOccurrence

\* A worker that is done.
LEMMA IdlePlaces == ASSUME ScheduleInv, NEW w \in Scheduler, GoIdle(w) PROVE Placed(w)
<1>1. IdleScheduler.s \in Schedule /\ IdleScheduler \in SchedulerRecord
  BY IdleScheduleTyped DEF SchedulerRecord
<1>2. schedule[IdleScheduler.s].next \in Nat
  BY <1>1, ScheduleParts DEF ScheduleRecord, Due
<1>3. WorkerSound(IdleScheduler)
  BY <1>2, IdleScheduleTyped DEF WorkerSound
<1> QED BY <1>1, <1>3 DEF Placed, GoIdle

\* A worker that writes nothing.
LEMMA OnlyGoes ==
  ASSUME ScheduleInv, NEW w \in Scheduler, Placed(w),
         UNCHANGED <<schedule, occurrence, payment, destination, request>>
  PROVE  ScheduleQuiet
BY SchedulerMoves, ScheduleParts DEF Placed, SameProgress

\* A worker that writes the status of a schedule.
LEMMA StatusWritten ==
  ASSUME ScheduleInv, NEW s \in Schedule,
         NEW st \in {"none", "active", "paused"} \cup Closed,
         schedule' = [schedule EXCEPT ![s].status = st]
  PROVE  schedule' \in [Schedule -> ScheduleRecord] /\ \A q \in Schedule : SameProgress(q)
<1> DEFINE r == [schedule[s] EXCEPT !.status = st]
<1>1. r \in ScheduleRecord /\ r.next = schedule[s].next /\ r.count = schedule[s].count
  BY ScheduleParts DEF ScheduleRecord
<1>2. schedule' = [schedule EXCEPT ![s] = r]
  OBVIOUS
<1> HIDE DEF r
<1> QED BY <1>1, <1>2, ScheduleParts DEF SameProgress

\* A worker that writes the status of its schedule, or leaves it as it is.
LEMMA ClosesSchedule ==
  ASSUME ScheduleInv, NEW w \in Scheduler, Placed(w), NEW st \in Closed,
         \/ schedule' = [schedule EXCEPT ![scheduler[w].s].status = st]
         \/ schedule' = [schedule EXCEPT ![scheduler[w].s].status = @],
         UNCHANGED <<occurrence, payment, destination, request>>
  PROVE  ScheduleQuiet
<1> DEFINE s == scheduler[w].s
<1>1. s \in Schedule /\ schedule[s].status \in {"none", "active", "paused"} \cup Closed
  BY ScheduleParts DEF SchedulerRecord, ScheduleRecord
<1>2. schedule' \in [Schedule -> ScheduleRecord] /\ \A q \in Schedule : SameProgress(q)
  <2>1. CASE schedule' = [schedule EXCEPT ![s].status = st]
    BY <1>1, <2>1, StatusWritten
  <2>2. CASE schedule' = [schedule EXCEPT ![s].status = schedule[s].status]
    BY <1>1, <2>2, StatusWritten
  <2> QED BY <2>1, <2>2
<1> QED BY <1>2, SchedulerMoves DEF Placed

\* A worker that writes the occurrence it works on, and not its hold.
LEMMA WritesOccurrence ==
  ASSUME ScheduleInv, NEW w \in Scheduler, Placed(w), NEW o \in OccurrenceRecord,
         SetOccurrence(w, o), o.hold = Occ(w).hold, o.status # "succeeded",
         UNCHANGED <<schedule, payment, destination, request>>
  PROVE  ScheduleQuiet
<1> DEFINE s == scheduler[w].s
           n == scheduler[w].n
<1>1. s \in Schedule /\ n \in Due /\ (s \notin Fiber => n <= schedule[s].next)
  BY ScheduleParts DEF SchedulerRecord, WorkerSound
<1>2. /\ occurrence' = [occurrence EXCEPT ![s][n] = o]
      /\ o.hold = occurrence[s][n].hold
  BY DEF SetOccurrence, Occ
<1>3. schedule' \in [Schedule -> ScheduleRecord] /\ \A q \in Schedule : SameProgress(q)
  BY ScheduleParts DEF SameProgress
<1>4. PICK r \in SchedulerRecord : scheduler' = [scheduler EXCEPT ![w] = r] /\ WorkerSound(r)
  BY DEF Placed
<1> HIDE DEF s, n
<1> QED BY <1>1, <1>2, <1>3, <1>4, SchedulerActs

\* The reads and decisions of a worker.
LEMMA WorkerReads ==
  ASSUME ScheduleInv, NEW w \in Scheduler,
         \/ ReadPass(w) \/ LookBeforeClosing(w) \/ LookUpPayment(w) \/ ResolveRequest(w)
         \/ ReadAnswer(w) \/ FinalizeRefused(w) \/ StepFails(w) \/ CrashScheduler(w)
  PROVE  ScheduleQuiet
<1> DEFINE x == scheduler[w]
<1>a. x \in SchedulerRecord
  BY ScheduleParts
<1>1. CASE ReadPass(w)
  <2> DEFINE closedBy == CASE purse.status = "settled" -> "completed"
                           [] purse.status = "revoked" -> "revoked"
                           [] OTHER -> "expired"
  <2>1. closedBy \in Closed
    BY DEF Closed
  <2>3. ASSUME NEW to \in Closed,
               scheduler' = [scheduler EXCEPT ![w].at = "close", ![w].to = to]
        PROVE  Placed(w)
    <3> DEFINE r == [x EXCEPT !.at = "close", !.to = to]
    <3>1. r \in SchedulerRecord /\ r.at = "close" /\ r.s = x.s /\ r.n = x.n
      BY <1>a DEF SchedulerRecord
    <3>2. scheduler' = [scheduler EXCEPT ![w] = r]
      BY <2>3
    <3> HIDE DEF r
    <3> QED BY <3>1, <3>2, SameOccurrence
  <2>4. Placed(w)
    <3> HIDE DEF closedBy
    <3>1. CASE Usable
      <4>1. Goto(w, "claim")
        BY <1>1, <3>1 DEF ReadPass, Goto, Usable
      <4> QED BY <4>1, GotoPlaces DEF Places
    <3>2. CASE ~Usable /\ purse.status = "paused"
      BY <1>1, <3>2, IdlePlaces DEF ReadPass, GoIdle
    <3>3. CASE ~Usable /\ purse.status # "paused"
      <4>1. scheduler' = [scheduler EXCEPT ![w].at = "close", ![w].to = closedBy]
        BY <1>1, <3>3 DEF ReadPass, closedBy
      <4> QED BY <2>1, <2>3, <4>1
    <3> QED BY <3>1, <3>2, <3>3
  <2> QED BY <1>1, <2>4, OnlyGoes DEF ReadPass
<1>2. CASE LookBeforeClosing(w)
  <2> DEFINE flight == Occ(w).status \in {"resolving", "retrying"} /\ ~Occ(w).submitted
             r == [x EXCEPT !.at = "closing", !.inflight = flight]
  <2>1. flight \in BOOLEAN
    OBVIOUS
  <2> HIDE DEF flight
  <2>2. r \in SchedulerRecord /\ r.at = "closing" /\ r.s = x.s /\ r.n = x.n
    BY <1>a, <2>1 DEF SchedulerRecord
  <2>3. scheduler' = [scheduler EXCEPT ![w] = r]
    BY <1>2 DEF LookBeforeClosing, flight
  <2> HIDE DEF r
  <2>4. Placed(w)
    BY <2>2, <2>3, SameOccurrence
  <2> QED BY <1>2, <2>4, OnlyGoes DEF LookBeforeClosing
<1>3. CASE LookUpPayment(w)
  <2>1. PICK at \in {"finalize", "unsure", "block", "retry", "resolve", "reserve"} :
           /\ Goto(w, at)
           /\ at = "finalize" => Paying(w) = "succeeded"
           /\ at = "reserve" => x.s \notin Fiber
    BY <1>3, Zenon DEF LookUpPayment
  <2>2. Placed(w)
    BY <2>1, GotoPlaces DEF Places
  <2> QED BY <1>3, <2>2, OnlyGoes DEF LookUpPayment
<1>4. CASE ResolveRequest(w)
  <2>1. PICK at \in {"store", "retry", "block"} : GotoForgetting(w, at)
    BY <1>4 DEF ResolveRequest
  <2> DEFINE r == [x EXCEPT !.at = at, !.dest = 0]
  <2>2. r \in SchedulerRecord /\ r.at = at /\ r.s = x.s /\ r.n = x.n
    BY <1>a, <2>1 DEF SchedulerRecord
  <2>3. scheduler' = [scheduler EXCEPT ![w] = r]
    BY <2>1 DEF GotoForgetting
  <2> HIDE DEF r
  <2>4. Placed(w)
    BY <2>1, <2>2, <2>3, SameOccurrence
  <2> QED BY <1>4, <2>4, OnlyGoes DEF ResolveRequest
<1>5. CASE ReadAnswer(w)
  <2>1. PICK at \in {"finalize", "unsure", "retry", "block"} :
           Goto(w, at) /\ (at = "finalize" => Paying(w) = "succeeded")
    BY <1>5 DEF ReadAnswer
  <2>2. Placed(w)
    BY <2>1, GotoPlaces DEF Places
  <2> QED BY <1>5, <2>2, OnlyGoes DEF ReadAnswer
<1>6. CASE FinalizeRefused(w)
  <2>1. GoIdle(w) \/ \E at \in {"suspend", "retry"} : Goto(w, at)
    BY <1>6 DEF FinalizeRefused
  <2>2. Placed(w)
    BY <2>1, GotoPlaces, IdlePlaces DEF Places
  <2> QED BY <1>6, <2>2, OnlyGoes DEF FinalizeRefused
<1>7. CASE StepFails(w)
  <2>1. \E at \in {"suspend", "retry", "block"} : Goto(w, at)
    BY <1>7 DEF StepFails
  <2>2. Placed(w)
    BY <2>1, GotoPlaces DEF Places
  <2> QED BY <1>7, <2>2, OnlyGoes DEF StepFails
<1>8. CASE CrashScheduler(w)
  BY <1>8, IdlePlaces, OnlyGoes DEF CrashScheduler
<1> QED BY <1>1, <1>2, <1>3, <1>4, <1>5, <1>6, <1>7, <1>8

\* The updates of a worker that move no money.
LEMMA WorkerWrites ==
  ASSUME ScheduleInv, NEW w \in Scheduler,
         \/ CloseSchedule(w) \/ CompleteSchedule(w) \/ ClaimOccurrence(w) \/ MarkUncertain(w)
         \/ DepleteSchedule(w) \/ BlockDepleted(w) \/ StoreRequest(w) \/ MarkSubmitted(w)
         \/ MarkRetry(w)
  PROVE  ScheduleQuiet
<1> DEFINE x == scheduler[w]
           o == Occ(w)
<1>a. x \in SchedulerRecord /\ x.to \in Closed /\ o \in OccurrenceRecord
  BY ScheduleParts DEF SchedulerRecord, Occ
<1>b. ASSUME NEW st \in {"resolving", "executing", "uncertain", "retrying", "blocked"}
      PROVE  LET y == Unleased(o, st)
             IN y \in OccurrenceRecord /\ y.hold = o.hold /\ y.status = st
  BY <1>a DEF Unleased, OccurrenceRecord
<1>1. CASE CloseSchedule(w)
  <2>1. Placed(w)
    BY <1>1, IdlePlaces DEF CloseSchedule
  <2>2. \/ schedule' = [schedule EXCEPT ![x.s].status = x.to]
        \/ schedule' = [schedule EXCEPT ![x.s].status = @]
    BY <1>1 DEF CloseSchedule
  <2> QED BY <1>1, <1>a, <2>1, <2>2, ClosesSchedule DEF CloseSchedule
<1>2. CASE CompleteSchedule(w)
  <2>1. Placed(w)
    BY <1>2, IdlePlaces DEF CompleteSchedule
  <2>2. \/ schedule' = [schedule EXCEPT ![x.s].status = "completed"]
        \/ schedule' = [schedule EXCEPT ![x.s].status = @]
    BY <1>2 DEF CompleteSchedule
  <2>3. "completed" \in Closed
    BY DEF Closed
  <2> QED BY <1>2, <2>1, <2>2, <2>3, ClosesSchedule DEF CompleteSchedule
<1>3. CASE ClaimOccurrence(w)
  <2>1. CASE o.status \in Claimable
    <3> DEFINE y == [o EXCEPT !.lease = w, !.status = IF @ = "absent" THEN "resolving" ELSE @]
    <3>1. y \in OccurrenceRecord /\ y.hold = o.hold /\ y.status # "succeeded"
      BY <1>a, <2>1 DEF OccurrenceRecord, Claimable
    <3>2. SetOccurrence(w, y) /\ Goto(w, "lookup")
      BY <1>3, <2>1 DEF ClaimOccurrence
    <3> HIDE DEF y
    <3>3. Placed(w)
      BY <3>2, GotoPlaces DEF Places
    <3> QED BY <1>3, <3>1, <3>2, <3>3, WritesOccurrence DEF ClaimOccurrence
  <2>2. CASE o.status \notin Claimable
    BY <1>3, <2>2, IdlePlaces, OnlyGoes DEF ClaimOccurrence
  <2> QED BY <2>1, <2>2
<1>4. CASE MarkUncertain(w)
  <2>1. Placed(w)
    BY <1>4, IdlePlaces DEF MarkUncertain
  <2> QED BY <1>4, <1>b, <2>1, WritesOccurrence DEF MarkUncertain
<1>5. CASE DepleteSchedule(w)
  <2>1. Placed(w)
    BY <1>5, GotoPlaces DEF DepleteSchedule, Places
  <2>2. \/ schedule' = [schedule EXCEPT ![x.s].status = "depleted"]
        \/ schedule' = [schedule EXCEPT ![x.s].status = @]
    BY <1>5 DEF DepleteSchedule
  <2>3. "depleted" \in Closed
    BY DEF Closed
  <2> QED BY <1>5, <2>1, <2>2, <2>3, ClosesSchedule DEF DepleteSchedule
<1>6. CASE BlockDepleted(w)
  <2> DEFINE y == [o EXCEPT !.status = "blocked"]
  <2>1. y \in OccurrenceRecord /\ y.hold = o.hold /\ y.status # "succeeded"
    BY <1>a DEF OccurrenceRecord
  <2>2. SetOccurrence(w, y) /\ Placed(w)
    BY <1>6, IdlePlaces DEF BlockDepleted
  <2> HIDE DEF y
  <2> QED BY <1>6, <2>1, <2>2, WritesOccurrence DEF BlockDepleted
<1>7. CASE StoreRequest(w)
  <2> DEFINE y == [o EXCEPT !.status = "executing"]
  <2>1. y \in OccurrenceRecord /\ y.hold = o.hold /\ y.status # "succeeded"
    BY <1>a DEF OccurrenceRecord
  <2>2. \/ SetOccurrence(w, y) /\ Goto(w, "submit")
        \/ UNCHANGED occurrence /\ (GoIdle(w) \/ Goto(w, "retry"))
    BY <1>7 DEF StoreRequest, UpdateIfLeased
  <2>3. Placed(w)
    BY <2>2, GotoPlaces, IdlePlaces DEF Places
  <2> HIDE DEF y
  <2> QED BY <1>7, <2>1, <2>2, <2>3, WritesOccurrence, OnlyGoes DEF StoreRequest
<1>8. CASE MarkSubmitted(w)
  <2> DEFINE y == [o EXCEPT !.status = "executing", !.submitted = TRUE]
  <2>1. y \in OccurrenceRecord /\ y.hold = o.hold /\ y.status # "succeeded"
    BY <1>a DEF OccurrenceRecord
  <2>2. SetOccurrence(w, y) \/ UNCHANGED occurrence
    BY <1>8 DEF MarkSubmitted, UpdateIfLeased
  <2>3. Placed(w)
    BY <1>8, GotoPlaces DEF MarkSubmitted, Places
  <2> HIDE DEF y
  <2> QED BY <1>8, <2>1, <2>2, <2>3, WritesOccurrence, OnlyGoes DEF MarkSubmitted
<1>9. CASE MarkRetry(w)
  <2>1. PICK st \in {"retrying", "uncertain"} :
           SetOccurrence(w, Unleased(o, st)) \/ UNCHANGED occurrence
    BY <1>9 DEF MarkRetry, UpdateIfLeased
  <2>2. Placed(w)
    BY <1>9, IdlePlaces DEF MarkRetry
  <2> QED BY <1>9, <1>b, <2>1, <2>2, WritesOccurrence, OnlyGoes DEF MarkRetry
<1> QED BY <1>1, <1>2, <1>3, <1>4, <1>5, <1>6, <1>7, <1>8, <1>9

\* Occurrence <<q, m>> holds, or has spent, its price on the pass.
HoldsAt(q, m) == q \notin Fiber /\ occurrence[q][m].hold = "reserved"
SpentAt(q, m) == q \notin Fiber /\ occurrence[q][m].hold = "spent"

\* The sums are over the occurrences that hold or have spent.
LEMMA SumsAre ==
  LET H == {o \in Schedule \X Due : HoldsAt(o[1], o[2])}
      D == {o \in Schedule \X Due : SpentAt(o[1], o[2])}
  IN /\ ScheduleHolds = Price * Cardinality(H) /\ (ScheduleHolds = Price * Cardinality(H))'
     /\ ScheduleSpent = Price * Cardinality(D) /\ (ScheduleSpent = Price * Cardinality(D))'
<1>1. /\ Reserving = {o \in Schedule \X Due : HoldsAt(o[1], o[2])}
      /\ (Reserving = {o \in Schedule \X Due : HoldsAt(o[1], o[2])})'
  BY DEF Reserving, HoldsAt
<1>2. /\ Spent = {o \in Schedule \X Due : SpentAt(o[1], o[2])}
      /\ (Spent = {o \in Schedule \X Due : SpentAt(o[1], o[2])})'
  BY DEF Spent, SpentAt
<1> QED BY <1>1, <1>2 DEF ScheduleHolds, ScheduleSpent

\* A step that changes at most occurrence <<s, n>> changes each sum by at most its price.
LEMMA SumsMove ==
  ASSUME NEW s \in Schedule, NEW n \in Due,
         \A q \in Schedule, m \in Due : q # s \/ m # n =>
            (HoldsAt(q, m)' <=> HoldsAt(q, m)) /\ (SpentAt(q, m)' <=> SpentAt(q, m))
  PROVE  /\ (HoldsAt(s, n)' <=> HoldsAt(s, n)) => ScheduleHolds' = ScheduleHolds
         /\ HoldsAt(s, n) => ScheduleHolds >= Price
         /\ HoldsAt(s, n) /\ ~HoldsAt(s, n)' => ScheduleHolds' = ScheduleHolds - Price
         /\ ~HoldsAt(s, n) /\ HoldsAt(s, n)' => ScheduleHolds' = ScheduleHolds + Price
         /\ (SpentAt(s, n)' <=> SpentAt(s, n)) => ScheduleSpent' = ScheduleSpent
         /\ ~SpentAt(s, n) /\ SpentAt(s, n)' => ScheduleSpent' = ScheduleSpent + Price
<1> DEFINE x == <<s, n>>
           H == {o \in Schedule \X Due : HoldsAt(o[1], o[2])}
           D == {o \in Schedule \X Due : SpentAt(o[1], o[2])}
           Hp == {o \in Schedule \X Due : HoldsAt(o[1], o[2])'}
           Dp == {o \in Schedule \X Due : SpentAt(o[1], o[2])'}
<1>1. /\ ScheduleHolds = Price * Cardinality(H) /\ ScheduleHolds' = Price * Cardinality(Hp)
      /\ ScheduleSpent = Price * Cardinality(D) /\ ScheduleSpent' = Price * Cardinality(Dp)
  BY SumsAre
<1>2. /\ H \in SUBSET (Schedule \X Due) /\ Hp \in SUBSET (Schedule \X Due)
      /\ D \in SUBSET (Schedule \X Due) /\ Dp \in SUBSET (Schedule \X Due)
      /\ x \in Schedule \X Due
      /\ x \in H <=> HoldsAt(s, n)
      /\ x \in Hp <=> HoldsAt(s, n)'
      /\ x \in D <=> SpentAt(s, n)
      /\ x \in Dp <=> SpentAt(s, n)'
  OBVIOUS
<1>3. H \ {x} = Hp \ {x} /\ D \ {x} = Dp \ {x}
  OBVIOUS
<1> HIDE DEF H, D, Hp, Dp, x
<1>4. ASSUME NEW S \in SUBSET (Schedule \X Due), NEW T \in SUBSET (Schedule \X Due),
             S \ {x} = T \ {x}
      PROVE  /\ (x \in T <=> x \in S) => Price * Cardinality(T) = Price * Cardinality(S)
             /\ x \in S => Price * Cardinality(S) >= Price
             /\ x \in S /\ x \notin T => Price * Cardinality(T) = Price * Cardinality(S) - Price
             /\ x \notin S /\ x \in T => Price * Cardinality(T) = Price * Cardinality(S) + Price
  <2>1. (x \in T <=> x \in S) => T = S
    BY <1>4
  <2>2. x \in S /\ x \notin T => T = S \ {x}
    BY <1>4
  <2>3. x \notin S /\ x \in T => T = S \cup {x}
    BY <1>4
  <2> QED BY <1>2, <2>1, <2>2, <2>3, OneMore, OneLess
<1>5. /\ (x \in Hp <=> x \in H) => ScheduleHolds' = ScheduleHolds
      /\ x \in H => ScheduleHolds >= Price
      /\ x \in H /\ x \notin Hp => ScheduleHolds' = ScheduleHolds - Price
      /\ x \notin H /\ x \in Hp => ScheduleHolds' = ScheduleHolds + Price
  BY <1>1, <1>2, <1>3, <1>4
<1>6. /\ (x \in Dp <=> x \in D) => ScheduleSpent' = ScheduleSpent
      /\ x \notin D /\ x \in Dp => ScheduleSpent' = ScheduleSpent + Price
  BY <1>1, <1>2, <1>3, <1>4
<1> QED BY <1>2, <1>5, <1>6

-----------------------------------------------------------------------------
(* The counters of the pass.                                               *)
\* The counters are amounts, cover what the schedules hold and keep the limit.
PurseCovers ==
  /\ purse \in PurseRecord
  /\ purse.reserved >= ScheduleHolds
  /\ purse.spent + purse.reserved <= PassLimit

\* A schedule step moves the counters of the pass with the sums of the schedules.
ScheduleMoves ==
  /\ ScheduleInv'
  /\ purse' \in PurseRecord
  /\ purse'.reserved = purse.reserved + ScheduleHolds' - ScheduleHolds
  /\ purse'.spent = purse.spent + ScheduleSpent' - ScheduleSpent
  /\ purse'.spent + purse'.reserved <= PassLimit

\* setSessionAtomic: what the pass becomes when an amount is held, returned or debited.
LEMMA PurseMoves ==
  ASSUME purse \in PurseRecord, NEW a \in Nat
  PROVE  /\ Held(a) \in PurseRecord /\ Held(a).reserved = purse.reserved + a
         /\ Held(a).spent = purse.spent
         /\ purse.reserved >= a =>
              /\ Returned(a) \in PurseRecord /\ Returned(a).reserved = purse.reserved - a
              /\ Returned(a).spent = purse.spent
              /\ Debited(a) \in PurseRecord /\ Debited(a).reserved = purse.reserved - a
              /\ Debited(a).spent = purse.spent + a
<1>1. /\ purse.reserved \in Nat /\ purse.spent \in Nat /\ purse.status \in PassStatus
      /\ purse = [status |-> purse.status, spent |-> purse.spent, reserved |-> purse.reserved]
  BY DEF PurseRecord
<1>3. ASSUME NEW m \in Nat, NEW x, x = [purse EXCEPT !.reserved = m]
      PROVE  x \in PurseRecord /\ x.reserved = m /\ x.spent = purse.spent
  BY <1>1, <1>3 DEF PurseRecord
<1>4. /\ Held(a) \in PurseRecord /\ Held(a).reserved = purse.reserved + a
      /\ Held(a).spent = purse.spent
  BY <1>1, <1>3 DEF Held
<1>5. ASSUME purse.reserved >= a PROVE purse.reserved - a \in Nat
  BY <1>1, <1>5
<1>6. ASSUME purse.reserved >= a
      PROVE  /\ Returned(a) \in PurseRecord /\ Returned(a).reserved = purse.reserved - a
             /\ Returned(a).spent = purse.spent
  BY <1>3, <1>5, <1>6 DEF Returned
<1>7. ASSUME purse.reserved >= a
      PROVE  /\ Debited(a) \in PurseRecord /\ Debited(a).reserved = purse.reserved - a
             /\ Debited(a).spent = purse.spent + a
  <2>1. purse.spent + a \in Nat /\ purse.reserved - a \in Nat
    BY <1>1, <1>5, <1>7
  <2>2. PICK m \in Nat, k \in Nat : m = purse.reserved - a /\ k = purse.spent + a
    BY <2>1
  <2>3. Debited(a) = [purse EXCEPT !.reserved = m, !.spent = k]
    BY <2>2 DEF Debited
  <2>4. Debited(a) \in PurseRecord /\ Debited(a).reserved = m /\ Debited(a).spent = k
    BY <1>1, <2>3 DEF PurseRecord
  <2> QED BY <2>2, <2>4
<1> QED BY <1>4, <1>6, <1>7

\* A step that leaves sums and counters alone.
LEMMA QuietMoves == PurseCovers /\ ScheduleQuiet /\ UNCHANGED purse => ScheduleMoves
<1> SUFFICES ASSUME PurseCovers, ScheduleQuiet, UNCHANGED purse PROVE ScheduleMoves
  OBVIOUS
<1>1. ScheduleHolds \in Nat /\ ScheduleSpent \in Nat
  BY HoldsTyped
<1>2. purse.reserved \in Nat /\ purse.spent \in Nat
  BY DEF PurseCovers, PurseRecord
<1> QED BY <1>1, <1>2 DEF ScheduleMoves, PurseCovers, ScheduleQuiet

\* Occurrence <<s, n>> and its payment are written.
Written(s, n, o, p) ==
  /\ occurrence' = [occurrence EXCEPT ![s][n] = o]
  /\ payment' = [payment EXCEPT ![s][n] = p]

\* Only that occurrence changes, and with it the sums.
LEMMA SumsWritten ==
  ASSUME ScheduleInv, NEW s \in Schedule, NEW n \in Due, NEW o \in OccurrenceRecord,
         NEW p \in PaymentStatus, Written(s, n, o, p)
  PROVE  /\ occurrence' \in [Schedule -> [Due -> OccurrenceRecord]]
         /\ payment' \in [Schedule -> [Due -> PaymentStatus]]
         /\ \A q \in Schedule, m \in Due :
              /\ occurrence'[q][m] = IF q = s /\ m = n THEN o ELSE occurrence[q][m]
              /\ payment'[q][m] = IF q = s /\ m = n THEN p ELSE payment[q][m]
         /\ (HoldsAt(s, n)' <=> HoldsAt(s, n)) => ScheduleHolds' = ScheduleHolds
         /\ HoldsAt(s, n) => ScheduleHolds >= Price
         /\ HoldsAt(s, n) /\ ~HoldsAt(s, n)' => ScheduleHolds' = ScheduleHolds - Price
         /\ ~HoldsAt(s, n) /\ HoldsAt(s, n)' => ScheduleHolds' = ScheduleHolds + Price
         /\ (SpentAt(s, n)' <=> SpentAt(s, n)) => ScheduleSpent' = ScheduleSpent
         /\ ~SpentAt(s, n) /\ SpentAt(s, n)' => ScheduleSpent' = ScheduleSpent + Price
<1>1. /\ occurrence' \in [Schedule -> [Due -> OccurrenceRecord]]
      /\ payment' \in [Schedule -> [Due -> PaymentStatus]]
  BY ScheduleParts DEF Written
<1>2. ASSUME NEW q \in Schedule, NEW m \in Due
      PROVE  /\ occurrence'[q][m] = IF q = s /\ m = n THEN o ELSE occurrence[q][m]
             /\ payment'[q][m] = IF q = s /\ m = n THEN p ELSE payment[q][m]
  BY ScheduleParts DEF Written
<1>3. \A q \in Schedule, m \in Due : q # s \/ m # n =>
        (HoldsAt(q, m)' <=> HoldsAt(q, m)) /\ (SpentAt(q, m)' <=> SpentAt(q, m))
  BY <1>2 DEF HoldsAt, SpentAt
<1> QED BY <1>1, <1>2, <1>3, SumsMove

\* The workers stay sound while payments only succeed and schedules only go on.
LEMMA WorkersStay ==
  ASSUME ScheduleInv, UNCHANGED scheduler \/ \E w \in Scheduler : Placed(w),
         \A s \in Schedule \ Fiber : /\ schedule'[s].next \in Nat
                                     /\ schedule[s].next <= schedule'[s].next,
         \A s \in Schedule, n \in Due : payment[s][n] = "succeeded" => payment'[s][n] = "succeeded"
  PROVE  /\ scheduler' \in [Scheduler -> SchedulerRecord]
         /\ \A v \in Scheduler : WorkerSound(scheduler[v])'
<1>1. PICK f \in [Scheduler -> SchedulerRecord] :
         scheduler' = f /\ \A v \in Scheduler : WorkerSound(f[v])
  <2>1. CASE UNCHANGED scheduler
    BY <2>1, ScheduleParts
  <2>2. CASE \E w \in Scheduler : Placed(w)
    <3>1. PICK w \in Scheduler, r \in SchedulerRecord :
             scheduler' = [scheduler EXCEPT ![w] = r] /\ WorkerSound(r)
      BY <2>2 DEF Placed
    <3> DEFINE f == [scheduler EXCEPT ![w] = r]
    <3>2. f \in [Scheduler -> SchedulerRecord]
      BY <3>1, ScheduleParts
    <3>3. ASSUME NEW v \in Scheduler PROVE WorkerSound(f[v])
      <4>1. CASE v = w
        <5>1. f[v] = r
          BY <4>1, ScheduleParts
        <5> QED BY <3>1, <5>1
      <4>2. CASE v # w
        <5>1. f[v] = scheduler[v]
          BY <4>2, ScheduleParts
        <5> QED BY <5>1, ScheduleParts
      <4> QED BY <4>1, <4>2
    <3> HIDE DEF f
    <3>4. scheduler' = f
      BY <3>1 DEF f
    <3> QED BY <3>2, <3>3, <3>4
  <2> QED BY <2>1, <2>2
<1>2. ASSUME NEW v \in Scheduler PROVE WorkerSound(scheduler[v])'
  <2>1. /\ f[v].s \in Schedule /\ f[v].n \in Due /\ WorkerSound(f[v])
        /\ f[v].n \in Nat
    BY <1>1, ScheduleAssumption DEF SchedulerRecord, Due
  <2>2. schedule[f[v].s].next \in Nat
    BY <2>1, ScheduleParts DEF ScheduleRecord, Due
  <2> HIDE DEF Due
  <2> QED BY <1>1, <2>1, <2>2 DEF WorkerSound
<1> QED BY <1>1, <1>2

\* An occurrence and its payment are written and none newly succeeds or is debited.
LEMMA OccurrenceWritten ==
  ASSUME ScheduleInv, NEW s \in Schedule, NEW n \in Due, NEW o \in OccurrenceRecord,
         NEW p \in PaymentStatus, Written(s, n, o, p),
         UNCHANGED scheduler \/ \E w \in Scheduler : Placed(w),
         schedule' \in [Schedule -> ScheduleRecord], \A q \in Schedule : SameProgress(q),
         UNCHANGED destination, request' \in RequestRecord, RequestSound',
         s \in Fiber => o.hold = "none",
         o.hold = "spent" <=> occurrence[s][n].hold = "spent",
         o.status = "succeeded" => occurrence[s][n].status = "succeeded",
         payment[s][n] = "succeeded" => p = "succeeded",
         s \notin Fiber /\ o.status # "absent" => n <= schedule[s].next
  PROVE  ScheduleInv'
<1>1. \A q \in Schedule, m \in Due :
         /\ occurrence'[q][m] = IF q = s /\ m = n THEN o ELSE occurrence[q][m]
         /\ payment'[q][m] = IF q = s /\ m = n THEN p ELSE payment[q][m]
  BY SumsWritten
<1>2. \A q \in Schedule, m \in Due :
         payment[q][m] = "succeeded" => payment'[q][m] = "succeeded"
  BY <1>1
<1>3. \A q \in Schedule : schedule'[q].next \in Nat /\ schedule[q].next <= schedule'[q].next
  BY ScheduleParts DEF SameProgress, ScheduleRecord, Due
<1>4. /\ scheduler' \in [Scheduler -> SchedulerRecord]
      /\ \A v \in Scheduler : WorkerSound(scheduler[v])'
  BY <1>2, <1>3, WorkersStay
<1>5. ScheduleTypeOK'
  BY <1>4, SumsWritten, ScheduleParts DEF ScheduleTypeOK
<1>6. ASSUME NEW q \in Schedule, NEW m \in Due
      PROVE  /\ q \in Fiber => occurrence'[q][m].hold = "none"
             /\ occurrence'[q][m].hold = "spent" <=> occurrence[q][m].hold = "spent"
             /\ occurrence'[q][m].status = "succeeded" => occurrence[q][m].status = "succeeded"
             /\ q \notin Fiber /\ occurrence'[q][m].status # "absent" => m <= schedule[q].next
  BY <1>1 DEF ScheduleInv, OccurrenceFacts
<1> QED BY <1>2, <1>4, <1>5, <1>6, ScheduleKept DEF SameProgress

\* Blocking an occurrence returns what it holds, once.
LEMMA BlockMoves ==
  ASSUME ScheduleInv, PurseCovers, NEW s \in Schedule, NEW n \in Due,
         s \notin Fiber => n <= schedule[s].next,
         BlockOccurrence(s, n), UNCHANGED <<payment, destination>>,
         UNCHANGED scheduler \/ \E w \in Scheduler : Placed(w),
         request' \in RequestRecord, RequestSound'
  PROVE  ScheduleMoves
<1> DEFINE o == occurrence[s][n]
           y == BlockedOccurrence(o)
           p == payment[s][n]
<1>1. o \in OccurrenceRecord /\ p \in PaymentStatus
  BY ScheduleParts
<1>2. /\ y \in OccurrenceRecord /\ y.status = "blocked"
      /\ y.hold = IF o.hold = "reserved" THEN "released" ELSE o.hold
  BY <1>1 DEF BlockedOccurrence, Unleased, OccurrenceRecord
<1>3. Written(s, n, y, p)
  BY ScheduleParts DEF Written, BlockOccurrence
<1>4. schedule' \in [Schedule -> ScheduleRecord] /\ \A q \in Schedule : SameProgress(q)
  <2>1. schedule[s].status \in {"none", "active", "paused"} \cup Closed
    BY ScheduleParts DEF ScheduleRecord
  <2> DEFINE st == IF schedule[s].status = "active" THEN "paused" ELSE schedule[s].status
  <2>2. schedule' = [schedule EXCEPT ![s].status = st]
    BY DEF BlockOccurrence
  <2>3. st \in {"none", "active", "paused"} \cup Closed
    BY <2>1
  <2> QED BY <2>2, <2>3, StatusWritten
<1>5. s \in Fiber => o.hold = "none"
  BY DEF ScheduleInv, OccurrenceFacts
<1> HIDE DEF o, y, p
<1>6. ScheduleInv'
  BY <1>1, <1>2, <1>3, <1>4, <1>5, OccurrenceWritten DEF o, p
<1>7. occurrence'[s][n] = y /\ payment'[s][n] = p
  BY <1>1, <1>2, <1>3, SumsWritten
<1>8. /\ ~HoldsAt(s, n)'
      /\ HoldsAt(s, n) <=> o.hold = "reserved"
      /\ SpentAt(s, n)' <=> SpentAt(s, n)
  BY <1>2, <1>5, <1>7 DEF HoldsAt, SpentAt, o, p
<1>9. /\ ScheduleSpent' = ScheduleSpent
      /\ o.hold = "reserved" => /\ ScheduleHolds' = ScheduleHolds - Price
                                /\ ScheduleHolds >= Price
      /\ o.hold # "reserved" => ScheduleHolds' = ScheduleHolds
  BY <1>1, <1>2, <1>3, <1>5, <1>8, SumsWritten
<1>10. ScheduleHolds \in Nat /\ ScheduleSpent \in Nat /\ Price \in Nat
  BY HoldsTyped, ScheduleAssumption
<1>11. purse.reserved \in Nat /\ purse.spent \in Nat /\ PassLimit \in Nat
  BY CountersAssumption DEF PurseCovers, PurseRecord
<1>12. CASE o.hold = "reserved"
  <2>1. purse' = Returned(Price) /\ purse.reserved >= Price
    BY <1>9, <1>10, <1>11, <1>12 DEF BlockOccurrence, PurseCovers, o
  <2>2. /\ purse' \in PurseRecord /\ purse'.reserved = purse.reserved - Price
        /\ purse'.spent = purse.spent
    BY <1>10, <2>1, PurseMoves DEF PurseCovers
  <2> QED BY <1>6, <1>9, <1>10, <1>11, <1>12, <2>2 DEF ScheduleMoves, PurseCovers
<1>13. CASE o.hold # "reserved"
  BY <1>6, <1>9, <1>13, QuietMoves DEF BlockOccurrence, ScheduleQuiet, o
<1> QED BY <1>12, <1>13

\* The request of the owner stays sound while the schedules keep their place.
LEMMA RequestStays ==
  ASSUME ScheduleInv, UNCHANGED request, \A q \in Schedule : SameProgress(q)
  PROVE  request' \in RequestRecord /\ RequestSound'
BY ScheduleParts DEF ScheduleInv, RequestSound, RequestRecord, SameProgress

\* Blocking leaves the place of every schedule.
LEMMA BlockProgress ==
  ASSUME ScheduleInv, NEW s \in Schedule, NEW n \in Due, BlockOccurrence(s, n)
  PROVE  \A q \in Schedule : SameProgress(q)
<1>1. schedule[s].status \in {"none", "active", "paused"} \cup Closed
  BY ScheduleParts DEF ScheduleRecord
<1> DEFINE st == IF schedule[s].status = "active" THEN "paused" ELSE schedule[s].status
<1>2. schedule' = [schedule EXCEPT ![s].status = st]
  BY DEF BlockOccurrence
<1>3. st \in {"none", "active", "paused"} \cup Closed
  BY <1>1
<1> QED BY <1>2, <1>3, StatusWritten

\* A worker blocks its occurrence.
LEMMA WorkerBlocks ==
  ASSUME ScheduleInv, PurseCovers, NEW w \in Scheduler, BlockBeforeClosing(w) \/ BlockFailed(w)
  PROVE  ScheduleMoves
<1> DEFINE x == scheduler[w]
<1>1. /\ x \in SchedulerRecord /\ x.s \in Schedule /\ x.n \in Due
      /\ x.s \notin Fiber => x.n <= schedule[x.s].next
  BY ScheduleParts DEF SchedulerRecord, WorkerSound
<1>2. BlockOccurrence(x.s, x.n) /\ UNCHANGED <<payment, destination, request>>
  BY DEF BlockBeforeClosing, BlockFailed
<1>3. Placed(w)
  <2>1. CASE BlockBeforeClosing(w)
    <3> DEFINE r == [x EXCEPT !.inflight = FALSE]
    <3>1. r \in SchedulerRecord /\ r.at = "closing" /\ r.s = x.s /\ r.n = x.n
      BY <1>1, <2>1 DEF SchedulerRecord, BlockBeforeClosing
    <3>2. scheduler' = [scheduler EXCEPT ![w] = r]
      BY <2>1 DEF BlockBeforeClosing
    <3> HIDE DEF r
    <3> QED BY <3>1, <3>2, SameOccurrence
  <2>2. CASE BlockFailed(w)
    BY <2>2, IdlePlaces DEF BlockFailed
  <2> QED BY <2>1, <2>2
<1>4. request' \in RequestRecord /\ RequestSound'
  BY <1>1, <1>2, BlockProgress, RequestStays
<1> QED BY <1>1, <1>2, <1>3, <1>4, BlockMoves

\* reserveOccurrenceBudget holds the price once.
LEMMA ReserveMoves ==
  ASSUME ScheduleInv, PurseCovers, NEW w \in Scheduler, ReserveBudget(w)
  PROVE  ScheduleMoves
<1>a. PICK s \in Schedule, n \in Due : s = scheduler[w].s /\ n = scheduler[w].n
  BY ScheduleParts DEF SchedulerRecord
<1> DEFINE o == Occ(w)
           p == payment[s][n]
<1>1. /\ s \notin Fiber /\ n <= schedule[s].next
      /\ o \in OccurrenceRecord /\ p \in PaymentStatus /\ o = occurrence[s][n]
  BY <1>a, ScheduleParts DEF WorkerSound, ReserveBudget, Occ
<1>2. CASE /\ UNCHANGED <<purse, minor, occurrence>>
           /\ GoIdle(w) \/ \E at \in {"resolve", "deplete"} : Goto(w, at)
  <2>1. Placed(w)
    BY <1>2, GotoPlaces, IdlePlaces DEF Places
  <2> QED BY <1>2, <2>1, OnlyGoes, QuietMoves DEF ReserveBudget
<1> DEFINE y == [o EXCEPT !.hold = "reserved"]
<1>3. CASE /\ o.hold \notin {"reserved", "spent"} /\ Room(Price)
           /\ purse' = Held(Price) /\ WriteAll
           /\ SetOccurrence(w, y) /\ Goto(w, "resolve")
  <2>1. Placed(w)
    BY <1>3, GotoPlaces DEF Places
  <2>2. Written(s, n, y, p) /\ UNCHANGED <<schedule, destination, request>>
    BY <1>a, <1>3, ScheduleParts DEF ReserveBudget, SetOccurrence, Written
  <2>3. y \in OccurrenceRecord /\ y.status = o.status /\ y.hold = "reserved"
    BY <1>1 DEF OccurrenceRecord
  <2>4. /\ schedule' \in [Schedule -> ScheduleRecord] /\ \A q \in Schedule : SameProgress(q)
        /\ request' \in RequestRecord /\ RequestSound'
    BY <2>2, ScheduleParts, RequestStays DEF SameProgress
  <2> HIDE DEF o, y, p
  <2>5. ScheduleInv'
    BY <1>1, <1>3, <2>1, <2>2, <2>3, <2>4, OccurrenceWritten DEF p
  <2>6. occurrence'[s][n] = y
    BY <1>1, <2>2, <2>3, SumsWritten
  <2>7. ~HoldsAt(s, n) /\ HoldsAt(s, n)' /\ (SpentAt(s, n)' <=> SpentAt(s, n))
    BY <1>1, <1>3, <2>3, <2>6 DEF HoldsAt, SpentAt
  <2>8. ScheduleHolds' = ScheduleHolds + Price /\ ScheduleSpent' = ScheduleSpent
    BY <1>1, <2>2, <2>3, <2>7, SumsWritten
  <2>9. ScheduleHolds \in Nat /\ ScheduleSpent \in Nat /\ Price \in Nat
    BY HoldsTyped, ScheduleAssumption
  <2>10. purse.reserved \in Nat /\ purse.spent \in Nat /\ PassLimit \in Nat
    BY CountersAssumption DEF PurseCovers, PurseRecord
  <2>11. /\ purse' \in PurseRecord /\ purse'.reserved = purse.reserved + Price
         /\ purse'.spent = purse.spent
    BY <1>3, <2>9, PurseMoves DEF PurseCovers
  <2> QED BY <1>3, <2>5, <2>8, <2>9, <2>10, <2>11 DEF ScheduleMoves, Room
<1> QED BY <1>2, <1>3, Zenon DEF ReserveBudget

\* The executor writes the payment of occurrence <<s, n>> and no document.
LEMMA PaymentWritten ==
  ASSUME ScheduleInv, NEW s \in Schedule, NEW n \in Due, NEW p \in PaymentStatus,
         payment' = [payment EXCEPT ![s][n] = p], payment[s][n] \in {"none", "pending"},
         UNCHANGED scheduler \/ \E w \in Scheduler : Placed(w),
         UNCHANGED <<schedule, occurrence, destination, request>>
  PROVE  ScheduleQuiet
<1> DEFINE o == occurrence[s][n]
<1>1. o \in OccurrenceRecord /\ Written(s, n, o, p)
  BY ScheduleParts DEF Written
<1>2. /\ schedule' \in [Schedule -> ScheduleRecord] /\ \A q \in Schedule : SameProgress(q)
      /\ request' \in RequestRecord /\ RequestSound'
  BY ScheduleParts, RequestStays DEF SameProgress
<1>3. /\ s \in Fiber => o.hold = "none"
      /\ s \notin Fiber /\ o.status # "absent" => n <= schedule[s].next
  BY DEF ScheduleInv, OccurrenceFacts
<1>4. ScheduleInv'
  <2> HIDE DEF o
  <2> QED BY <1>1, <1>2, <1>3, OccurrenceWritten DEF o
<1> QED BY <1>4, SumsKept DEF ScheduleQuiet

\* The amounts that the moves compute with.
LEMMA Amounts ==
  ASSUME PurseCovers
  PROVE  /\ purse.reserved \in Nat /\ purse.spent \in Nat /\ PassLimit \in Nat
         /\ ScheduleHolds \in Nat /\ ScheduleSpent \in Nat /\ Price \in Nat
BY HoldsTyped, ScheduleAssumption, CountersAssumption DEF PurseCovers, PurseRecord

\* Paying moves none of the Atomic counters.
LEMMA PayMoves ==
  ASSUME ScheduleInv, PurseCovers, NEW w \in Scheduler, Pay(w)
  PROVE  ScheduleMoves
<1>a. PICK s \in Schedule, n \in Due : s = scheduler[w].s /\ n = scheduler[w].n
  BY ScheduleParts DEF SchedulerRecord
<1>b. UNCHANGED <<schedule, occurrence, destination, request, purse>>
  BY DEF Pay
<1>1. CASE /\ payment[s][n] = "none" /\ payment' = [payment EXCEPT ![s][n] = "pending"]
           /\ Goto(w, "answer")
  <2>1. Placed(w)
    BY <1>1, GotoPlaces DEF Places
  <2> QED BY <1>1, <1>b, <2>1, PaymentWritten, QuietMoves DEF PaymentStatus
<1>2. CASE UNCHANGED payment /\ \E at \in {"answer", "retry", "block"} : Goto(w, at)
  <2>1. Placed(w)
    BY <1>2, GotoPlaces DEF Places
  <2> QED BY <1>2, <1>b, <2>1, OnlyGoes, QuietMoves
<1> QED BY <1>a, <1>1, <1>2 DEF Pay

\* Nor does the end of a payment.
LEMMA SettleMoves ==
  ASSUME ScheduleInv, PurseCovers, NEW s \in Schedule, NEW n \in Due, SettlePayment(s, n)
  PROVE  ScheduleMoves
<1>1. PICK p \in PaymentStatus : payment' = [payment EXCEPT ![s][n] = p]
  BY DEF SettlePayment, PaymentStatus
<1>2. /\ payment[s][n] = "pending"
      /\ UNCHANGED <<schedule, occurrence, destination, request, scheduler, purse>>
  BY DEF SettlePayment
<1> QED BY <1>1, <1>2, PaymentWritten, QuietMoves

\* What a success makes of a schedule: one more, and the next due date if there is one.
LEMMA AdvancedTyped ==
  ASSUME NEW r \in ScheduleRecord, NEW n \in Due, NEW after
  PROVE  /\ Advanced(r, n, after) \in ScheduleRecord
         /\ Advanced(r, n, after).count = r.count + 1
         /\ Advanced(r, n, after).next \in {r.next, n + 1}
<1> DEFINE c == [r EXCEPT !.count = @ + 1]
<1>1. c \in ScheduleRecord /\ c.count = r.count + 1 /\ c.next = r.next
  BY DEF ScheduleRecord
<1>2. ASSUME NEW st \in Closed
      PROVE  LET y == [c EXCEPT !.status = st]
             IN y \in ScheduleRecord /\ y.count = c.count /\ y.next = c.next
  <2> HIDE DEF c
  <2> QED BY <1>1 DEF ScheduleRecord
<1>3. ASSUME n # LastDue
      PROVE  LET y == [c EXCEPT !.next = n + 1]
             IN y \in ScheduleRecord /\ y.count = c.count /\ y.next = n + 1
  <2>1. n + 1 \in Due
    BY <1>3, ScheduleAssumption DEF Due
  <2> HIDE DEF c
  <2> QED BY <1>1, <2>1 DEF ScheduleRecord
<1>4. {"depleted", "completed", "expired"} \subseteq Closed
  BY DEF Closed
<1>5. \/ Advanced(r, n, after) = [c EXCEPT !.status = "depleted"]
      \/ Advanced(r, n, after) = [c EXCEPT !.status = "completed"]
      \/ Advanced(r, n, after) = [c EXCEPT !.status = "expired"]
      \/ n # LastDue /\ Advanced(r, n, after) = [c EXCEPT !.next = n + 1]
  <2> DEFINE A == after.spent + after.reserved + Price > PassLimit
             B == c.count >= OccurrenceLimit
             X == [c EXCEPT !.status = "depleted"]
             Y == [c EXCEPT !.status = "completed"]
             Z == [c EXCEPT !.status = "expired"]
             N == [c EXCEPT !.next = n + 1]
  <2>1. Advanced(r, n, after) = CASE A -> X [] B -> Y [] n = LastDue -> Z [] OTHER -> N
    BY DEF Advanced
  <2> HIDE DEF A, B, X, Y, Z, N
  <2>2. \/ Advanced(r, n, after) = X
        \/ Advanced(r, n, after) = Y
        \/ Advanced(r, n, after) = Z
        \/ n # LastDue /\ Advanced(r, n, after) = N
    BY <2>1
  <2> QED BY <2>2 DEF X, Y, Z, N
<1> HIDE DEF c
<1>6. CASE \E st \in Closed : Advanced(r, n, after) = [c EXCEPT !.status = st]
  <2>1. PICK st \in Closed : Advanced(r, n, after) = [c EXCEPT !.status = st]
    BY <1>6
  <2> QED BY <1>1, <1>2, <2>1
<1>7. CASE n # LastDue /\ Advanced(r, n, after) = [c EXCEPT !.next = n + 1]
  BY <1>1, <1>3, <1>7
<1> QED BY <1>4, <1>5, <1>6, <1>7

\* finalizeOccurrenceSuccess debits a reservation that is still there, counts it, and
\* moves its schedule on.
LEMMA FinalizeMoves ==
  ASSUME ScheduleInv, PurseCovers, NEW w \in Scheduler, FinalizeSuccess(w)
  PROVE  ScheduleMoves
<1>a. PICK s \in Schedule, n \in Due : s = scheduler[w].s /\ n = scheduler[w].n
  BY ScheduleParts DEF SchedulerRecord
<1> DEFINE o == occurrence[s][n]
           p == payment[s][n]
           y == [Unleased(o, "succeeded") EXCEPT !.hold = IF s \in Fiber THEN @ ELSE "spent"]
           r == Advanced(schedule[s], n, purse')
<1>1. /\ o \in OccurrenceRecord /\ p = "succeeded" /\ p \in PaymentStatus
      /\ s \notin Fiber => n <= schedule[s].next
  BY <1>a, ScheduleParts DEF WorkerSound, FinalizeSuccess
<1>2. /\ y \in OccurrenceRecord /\ y.status = "succeeded"
      /\ y.hold = IF s \in Fiber THEN o.hold ELSE "spent"
  BY <1>1 DEF Unleased, OccurrenceRecord
<1>3. Written(s, n, y, p)
  BY <1>a, ScheduleParts DEF Written, FinalizeSuccess, SetOccurrence, Occ
<1>4. /\ s \notin Fiber => o.hold = "reserved" /\ purse.reserved >= Price
      /\ s \in Fiber => o.hold = "none"
  <2>1. OccurrenceFacts
    BY <1>a DEF ScheduleInv
  <2>2. s \notin Fiber => o.hold = "reserved" /\ purse.reserved >= Price
    BY <1>a DEF FinalizeSuccess, Finalizes, Occ
  <2>3. s \in Fiber => o.hold = "none"
    BY <2>1 DEF OccurrenceFacts
  <2> QED BY <2>2, <2>3
<1>5. /\ r \in ScheduleRecord /\ r.count = schedule[s].count + 1
      /\ r.next \in {schedule[s].next, n + 1}
  BY AdvancedTyped, ScheduleParts
<1>6. schedule' = [schedule EXCEPT ![s] = r]
  BY <1>a DEF FinalizeSuccess
<1> HIDE DEF o, p, y, r
<1>7. /\ schedule' \in [Schedule -> ScheduleRecord]
      /\ \A q \in Schedule : schedule'[q] = IF q = s THEN r ELSE schedule[q]
  BY <1>5, <1>6, ScheduleParts
<1>8. /\ occurrence' \in [Schedule -> [Due -> OccurrenceRecord]]
      /\ payment' \in [Schedule -> [Due -> PaymentStatus]]
      /\ \A q \in Schedule, m \in Due :
           /\ occurrence'[q][m] = IF q = s /\ m = n THEN y ELSE occurrence[q][m]
           /\ payment'[q][m] = payment[q][m]
  <2>1. /\ occurrence' \in [Schedule -> [Due -> OccurrenceRecord]]
        /\ payment' \in [Schedule -> [Due -> PaymentStatus]]
        /\ \A q \in Schedule, m \in Due :
             /\ occurrence'[q][m] = IF q = s /\ m = n THEN y ELSE occurrence[q][m]
             /\ payment'[q][m] = IF q = s /\ m = n THEN p ELSE payment[q][m]
    BY <1>1, <1>2, <1>3, SumsWritten
  <2> QED BY <2>1 DEF p
<1>9. ASSUME s \notin Fiber PROVE n = schedule[s].next
  <2>1. n < schedule[s].next => <<s, n>> \in Spent
    BY <1>9 DEF ScheduleInv, CountFollowsDebits
  <2>2. <<s, n>> \notin Spent
    BY <1>4, <1>9 DEF Spent, o
  <2>3. n \in Nat /\ schedule[s].next \in Nat
    BY ScheduleParts DEF ScheduleRecord, Due
  <2> QED BY <1>1, <1>9, <2>1, <2>2, <2>3
<1>10. ASSUME NEW q \in Schedule \ Fiber
       PROVE  schedule'[q].next \in Nat /\ schedule[q].next \in Nat
              /\ schedule[q].next <= schedule'[q].next
  <2>1. schedule'[q].next \in Nat /\ schedule[q].next \in Nat /\ n \in Nat
    BY <1>7, ScheduleParts DEF ScheduleRecord, Due
  <2> QED BY <1>5, <1>7, <1>9, <2>1
<1>11. /\ scheduler' \in [Scheduler -> SchedulerRecord]
       /\ \A v \in Scheduler : WorkerSound(scheduler[v])'
  <2>1. Placed(w)
    BY IdlePlaces DEF FinalizeSuccess
  <2> QED BY <1>8, <1>10, <2>1, WorkersStay
<1>12. UNCHANGED <<destination, request>>
  BY DEF FinalizeSuccess
<1>13. ScheduleTypeOK'
  BY <1>7, <1>8, <1>11, <1>12, ScheduleParts DEF ScheduleTypeOK
<1>14. RequestSound'
  <2>1. request \in RequestRecord /\ request.s \in Schedule /\ request.block \in SUBSET Due
    BY ScheduleParts DEF RequestRecord
  <2>2. \A m \in request.block : m \in Nat
    BY <2>1 DEF Due
  <2>3. request.s \notin Fiber => \A m \in request.block : m <= schedule[request.s].next
    BY DEF ScheduleInv, RequestSound
  <2> QED BY <1>10, <1>12, <2>1, <2>2, <2>3 DEF RequestSound
<1>15. OccurrenceFacts'
  <2> SUFFICES ASSUME NEW q \in Schedule, NEW m \in Due
      PROVE  /\ q \in Fiber => occurrence'[q][m].hold = "none"
             /\ occurrence'[q][m].status = "succeeded" \/ occurrence'[q][m].hold = "spent"
                  => payment'[q][m] = "succeeded"
             /\ q \notin Fiber /\ occurrence'[q][m].status # "absent" => m <= schedule'[q].next
    BY DEF OccurrenceFacts
  <2>1. /\ q \in Fiber => occurrence[q][m].hold = "none"
        /\ occurrence[q][m].status = "succeeded" \/ occurrence[q][m].hold = "spent"
             => payment[q][m] = "succeeded"
        /\ q \notin Fiber /\ occurrence[q][m].status # "absent" => m <= schedule[q].next
    BY DEF ScheduleInv, OccurrenceFacts
  <2>2. m \in Nat
    BY DEF Due
  <2>3. CASE q = s /\ m = n
    BY <1>1, <1>2, <1>4, <1>8, <1>10, <2>2, <2>3 DEF p
  <2>4. CASE q # s \/ m # n
    BY <1>8, <1>10, <2>1, <2>2, <2>4
  <2> QED BY <2>3, <2>4
<1>16. Spent' = IF s \in Fiber THEN Spent ELSE Spent \cup {<<s, n>>}
  BY <1>2, <1>8 DEF Spent
<1>17. CountFollowsDebits'
  <2> SUFFICES ASSUME NEW q \in Schedule \ Fiber
      PROVE  /\ schedule'[q].count = Cardinality({m \in Due : <<q, m>> \in Spent'})
             /\ \A m \in Due : m < schedule'[q].next => <<q, m>> \in Spent'
    BY DEF CountFollowsDebits
  <2> DEFINE D == {m \in Due : <<q, m>> \in Spent}
             E == {m \in Due : <<q, m>> \in Spent'}
  <2>1. /\ schedule[q].count = Cardinality(D)
        /\ \A m \in Due : m < schedule[q].next => <<q, m>> \in Spent
    BY DEF ScheduleInv, CountFollowsDebits
  <2>2. CASE q = s
    <3>1. <<s, n>> \notin Spent
      BY <1>4, <2>2 DEF Spent, o
    <3>2. E = D \cup {n} /\ n \notin D
      BY <1>16, <2>2, <3>1
    <3>3. IsFiniteSet(D)
      <4>1. IsFiniteSet(Due)
        BY ScheduleAssumption, FS_Interval DEF Due
      <4> QED BY <4>1, FS_Subset
    <3>4. Cardinality(E) = Cardinality(D) + 1
      BY <3>2, <3>3, FS_AddElement
    <3>5. schedule'[q].count = Cardinality(E)
      BY <1>5, <1>7, <2>1, <2>2, <3>4
    <3>6. ASSUME NEW m \in Due, m < schedule'[q].next PROVE <<q, m>> \in Spent'
      <4>1. m \in Nat /\ n \in Nat
        BY DEF Due
      <4>2. m < n \/ m = n
        BY <1>5, <1>7, <1>9, <2>2, <3>6, <4>1
      <4> QED BY <1>9, <1>16, <2>1, <2>2, <4>2
    <3> QED BY <3>5, <3>6
  <2>3. CASE q # s
    <3>1. \A m \in Due : <<q, m>> \in Spent' <=> <<q, m>> \in Spent
      BY <1>16, <2>3
    <3>2. E = D
      BY <3>1
    <3> HIDE DEF E, D
    <3>3. schedule'[q] = schedule[q]
      BY <1>7, <2>3
    <3> QED BY <2>1, <3>1, <3>2, <3>3 DEF E
  <2> QED BY <2>2, <2>3
<1>18. ScheduleInv'
  BY <1>11, <1>13, <1>14, <1>15, <1>17 DEF ScheduleInv
<1>19. CASE s \in Fiber
  <2>1. (HoldsAt(s, n)' <=> HoldsAt(s, n)) /\ (SpentAt(s, n)' <=> SpentAt(s, n))
    BY <1>8, <1>19 DEF HoldsAt, SpentAt
  <2>2. ScheduleHolds' = ScheduleHolds /\ ScheduleSpent' = ScheduleSpent
    BY <1>1, <1>2, <1>3, <2>1, SumsWritten
  <2>3. UNCHANGED purse
    BY <1>a, <1>19 DEF FinalizeSuccess
  <2> QED BY <1>18, <2>2, <2>3, QuietMoves DEF ScheduleQuiet
<1>20. CASE s \notin Fiber
  <2>1. HoldsAt(s, n) /\ ~HoldsAt(s, n)' /\ ~SpentAt(s, n) /\ SpentAt(s, n)'
    BY <1>2, <1>4, <1>8, <1>20 DEF HoldsAt, SpentAt, o
  <2>2. ScheduleHolds' = ScheduleHolds - Price /\ ScheduleSpent' = ScheduleSpent + Price
    BY <1>1, <1>2, <1>3, <2>1, SumsWritten
  <2>3. /\ purse' \in PurseRecord /\ purse'.reserved = purse.reserved - Price
        /\ purse'.spent = purse.spent + Price
    <3>1. purse' = Debited(Price)
      BY <1>a, <1>20 DEF FinalizeSuccess
    <3> QED BY <1>4, <1>20, <3>1, Amounts, PurseMoves DEF PurseCovers
  <2> QED BY <1>18, <2>2, <2>3, Amounts DEF ScheduleMoves, PurseCovers
<1> QED BY <1>19, <1>20

\* The owner writes schedules, the destination and its request, and no occurrence.
LEMMA OwnerWrites ==
  ASSUME ScheduleInv, schedule' \in [Schedule -> ScheduleRecord],
         \A q \in Schedule : SameProgress(q), destination' \in DestinationRecord,
         request' \in RequestRecord, RequestSound',
         UNCHANGED <<occurrence, payment, scheduler>>
  PROVE  ScheduleQuiet
<1>1. \A q \in Schedule : schedule'[q].next \in Nat /\ schedule[q].next <= schedule'[q].next
  BY ScheduleParts DEF SameProgress, ScheduleRecord, Due
<1>2. /\ scheduler' \in [Scheduler -> SchedulerRecord]
      /\ \A v \in Scheduler : WorkerSound(scheduler[v])'
  BY <1>1, WorkersStay
<1>3. ScheduleTypeOK'
  BY <1>2, ScheduleParts DEF ScheduleTypeOK
<1>4. ScheduleInv'
  BY <1>2, <1>3, ScheduleKept DEF SameProgress, ScheduleInv, OccurrenceFacts
<1> QED BY <1>4, SumsKept DEF ScheduleQuiet

\* The steps of the owner that move no money.
LEMMA OwnerMoves ==
  ASSUME ScheduleInv,
         \/ \E s \in Schedule : CreatePaymentSchedule(s)
         \/ \E fits \in BOOLEAN : ConfigureDestination(fits)
         \/ \E s \in Schedule, to \in {"active", "paused", "revoked"} : LoadForControl(s, to)
         \/ SaveControl \/ ListReleasable
  PROVE  ScheduleQuiet
<1>a. UNCHANGED <<occurrence, payment, scheduler>>
  BY DEF CreatePaymentSchedule, ConfigureDestination, LoadForControl, SaveControl, ListReleasable
<1>b. destination.version \in Nat /\ request.s \in Schedule
  BY ScheduleParts DEF DestinationRecord, RequestRecord
<1>c. ASSUME UNCHANGED schedule
      PROVE  schedule' \in [Schedule -> ScheduleRecord] /\ \A q \in Schedule : SameProgress(q)
  BY <1>c, ScheduleParts DEF SameProgress
<1>d. ASSUME request' = IdleRequest PROVE request' \in RequestRecord /\ RequestSound'
  BY <1>d, IdleScheduleTyped DEF RequestSound
<1>1. ASSUME NEW s \in Schedule, CreatePaymentSchedule(s) PROVE ScheduleQuiet
  <2> DEFINE r == [schedule[s] EXCEPT !.status = "active", !.dest = destination.version]
  <2>1. r \in ScheduleRecord /\ r.next = schedule[s].next /\ r.count = schedule[s].count
    BY <1>b, ScheduleParts DEF ScheduleRecord
  <2>2. schedule' = [schedule EXCEPT ![s] = r] /\ UNCHANGED <<destination, request>>
    BY <1>1 DEF CreatePaymentSchedule
  <2> HIDE DEF r
  <2>3. schedule' \in [Schedule -> ScheduleRecord] /\ \A q \in Schedule : SameProgress(q)
    BY <2>1, <2>2, ScheduleParts DEF SameProgress
  <2> QED BY <1>a, <2>2, <2>3, RequestStays, ScheduleParts, OwnerWrites
<1>2. ASSUME NEW fits \in BOOLEAN, ConfigureDestination(fits) PROVE ScheduleQuiet
  <2>1. destination.version + 1 \in Nat
    BY <1>b
  <2>2. PICK v \in Nat : v = destination.version + 1
    BY <2>1
  <2>3. /\ destination' = [version |-> v, fits |-> fits]
        /\ UNCHANGED request
        /\ schedule' = [s \in Schedule |->
             IF schedule[s].status \notin {"active", "paused"} THEN schedule[s]
             ELSE IF fits THEN [schedule[s] EXCEPT !.dest = v]
             ELSE [schedule[s] EXCEPT !.status = "paused"]]
    BY <1>2, <2>2 DEF ConfigureDestination
  <2>4. ASSUME NEW s \in Schedule
        PROVE  /\ schedule'[s] \in ScheduleRecord
               /\ schedule'[s].next = schedule[s].next /\ schedule'[s].count = schedule[s].count
    <3>1. schedule[s] \in ScheduleRecord
      BY ScheduleParts
    <3>2. \/ schedule'[s] = schedule[s]
          \/ schedule'[s] = [schedule[s] EXCEPT !.dest = v]
          \/ schedule'[s] = [schedule[s] EXCEPT !.status = "paused"]
      BY <2>3
    <3> QED BY <3>1, <3>2 DEF ScheduleRecord
  <2>5. schedule' \in [Schedule -> ScheduleRecord] /\ \A q \in Schedule : SameProgress(q)
    BY <2>3, <2>4 DEF SameProgress
  <2>6. destination' \in DestinationRecord
    BY <2>3 DEF DestinationRecord
  <2> QED BY <1>a, <2>3, <2>5, <2>6, RequestStays, OwnerWrites
<1>3. ASSUME NEW s \in Schedule, NEW to \in {"active", "paused", "revoked"}, LoadForControl(s, to)
      PROVE  ScheduleQuiet
  <2> DEFINE r == [IdleRequest EXCEPT !.at = "save", !.s = s, !.to = to]
  <2>1. r \in RequestRecord /\ r.block = {}
    BY IdleScheduleTyped DEF RequestRecord
  <2>2. request' = r /\ UNCHANGED <<schedule, destination>>
    BY <1>3 DEF LoadForControl
  <2> HIDE DEF r
  <2>3. request' \in RequestRecord /\ RequestSound'
    BY <2>1, <2>2 DEF RequestSound
  <2> QED BY <1>a, <1>c, <2>2, <2>3, ScheduleParts, OwnerWrites
<1>4. ASSUME SaveControl PROVE ScheduleQuiet
  <2>1. request.to \in {"none", "active", "paused"} \cup Closed
    BY ScheduleParts DEF RequestRecord, Closed
  <2>2. schedule' = [schedule EXCEPT ![request.s].status = request.to] /\ UNCHANGED destination
    BY <1>4 DEF SaveControl
  <2>3. schedule' \in [Schedule -> ScheduleRecord] /\ \A q \in Schedule : SameProgress(q)
    BY <1>b, <2>1, <2>2, StatusWritten
  <2>4. request' \in RequestRecord /\ RequestSound'
    <3>1. CASE request' = [request EXCEPT !.at = "list"]
      <4>1. request' \in RequestRecord /\ request'.s = request.s /\ request'.block = request.block
        BY <3>1, ScheduleParts DEF RequestRecord
      <4> QED BY <1>b, <2>3, <4>1 DEF ScheduleInv, RequestSound, SameProgress
    <3> QED BY <1>4, <1>d, <3>1 DEF SaveControl
  <2> QED BY <1>a, <2>2, <2>3, <2>4, ScheduleParts, OwnerWrites
<1>5. ASSUME ListReleasable PROVE ScheduleQuiet
  <2> DEFINE R == {n \in Due : /\ occurrence[request.s][n].status \in {"resolving", "retrying"}
                               /\ ~occurrence[request.s][n].submitted}
  <2>1. UNCHANGED <<schedule, destination>>
    BY <1>5 DEF ListReleasable
  <2>2. request' \in RequestRecord /\ RequestSound'
    <3>1. CASE request' = [request EXCEPT !.at = "block", !.block = R]
      <4>1. R \in SUBSET Due
        OBVIOUS
      <4>2. request.s \notin Fiber => \A n \in R : n <= schedule[request.s].next
        BY <1>b DEF ScheduleInv, OccurrenceFacts
      <4> HIDE DEF R
      <4>3. request' \in RequestRecord /\ request'.s = request.s /\ request'.block = R
        BY <3>1, <4>1, ScheduleParts DEF RequestRecord
      <4> QED BY <2>1, <4>2, <4>3 DEF RequestSound
    <3> QED BY <1>5, <1>d, <3>1 DEF ListReleasable
  <2> QED BY <1>a, <1>c, <2>1, <2>2, ScheduleParts, OwnerWrites
<1> QED BY <1>1, <1>2, <1>3, <1>4, <1>5

\* A revocation blocks one of the occurrences it listed.
LEMMA RevocationBlocks ==
  ASSUME ScheduleInv, PurseCovers, NEW n \in Due, BlockListed(n)
  PROVE  ScheduleMoves
<1>a. PICK s \in Schedule : s = request.s
  BY ScheduleParts DEF RequestRecord
<1>1. /\ BlockOccurrence(s, n) /\ UNCHANGED <<payment, destination, scheduler>>
      /\ n \in request.block
  BY <1>a DEF BlockListed
<1>2. s \notin Fiber => n <= schedule[s].next
  BY <1>a, <1>1 DEF ScheduleInv, RequestSound
<1>3. request' \in RequestRecord /\ RequestSound'
  <2>1. CASE request' = IdleRequest
    BY <2>1, IdleScheduleTyped DEF RequestSound
  <2>2. CASE request' = [request EXCEPT !.block = @ \ {n}]
    <3>1. /\ request' \in RequestRecord /\ request'.s = request.s
          /\ request'.block = request.block \ {n}
      BY <2>2, ScheduleParts DEF RequestRecord
    <3>2. SameProgress(s)
      BY <1>1, BlockProgress
    <3> QED BY <1>a, <3>1, <3>2 DEF ScheduleInv, RequestSound, SameProgress
  <2> QED BY <2>1, <2>2 DEF BlockListed
<1> QED BY <1>1, <1>2, <1>3, BlockMoves

\* A worker takes up a due schedule, or a submitted occurrence.
LEMMA WorkerStarts ==
  ASSUME ScheduleInv, NEW w \in Scheduler, NEW s \in Schedule,
         ListDue(w, s) \/ \E n \in Due : ClaimInFlight(w, s, n)
  PROVE  ScheduleQuiet
<1>1. ASSUME ListDue(w, s) PROVE ScheduleQuiet
  <2> DEFINE ended == schedule[s].count >= OccurrenceLimit
             r == [IdleScheduler EXCEPT !.at = "pass", !.s = s, !.n = schedule[s].next,
                                        !.dest = schedule[s].dest, !.ended = ended]
  <2>1. ended \in BOOLEAN
    OBVIOUS
  <2>2. schedule[s].next \in Due /\ schedule[s].dest \in Nat /\ schedule[s].next \in Nat
    BY ScheduleParts DEF ScheduleRecord, Due
  <2>3. scheduler' = [scheduler EXCEPT ![w] = r]
    BY <1>1 DEF ListDue
  <2> HIDE DEF ended
  <2>4. r \in SchedulerRecord /\ r.at = "pass" /\ r.s = s /\ r.n = schedule[s].next
    BY <2>1, <2>2, IdleScheduleTyped DEF SchedulerRecord
  <2> HIDE DEF r
  <2>5. WorkerSound(r)
    BY <2>2, <2>4 DEF WorkerSound
  <2> QED BY <1>1, <2>3, <2>4, <2>5, OnlyGoes DEF Placed, ListDue
<1>2. ASSUME NEW n \in Due, ClaimInFlight(w, s, n) PROVE ScheduleQuiet
  <2> DEFINE revoked == schedule[s].status = "revoked"
             r == [IdleScheduler EXCEPT !.at = "lookup", !.s = s, !.n = n, !.inflight = TRUE,
                                        !.revoked = revoked]
             o == [occurrence[s][n] EXCEPT !.lease = w]
  <2>1. revoked \in BOOLEAN
    OBVIOUS
  <2>2. scheduler' = [scheduler EXCEPT ![w] = r] /\ occurrence' = [occurrence EXCEPT ![s][n] = o]
    BY <1>2 DEF ClaimInFlight
  <2>3. s \notin Fiber => n <= schedule[s].next
    BY <1>2 DEF ClaimInFlight, ScheduleInv, OccurrenceFacts
  <2> HIDE DEF revoked
  <2>4. r \in SchedulerRecord /\ r.at = "lookup" /\ r.s = s /\ r.n = n
    BY <2>1, IdleScheduleTyped DEF SchedulerRecord
  <2>5. /\ o \in OccurrenceRecord /\ o.hold = occurrence[s][n].hold
        /\ o.status = occurrence[s][n].status
    <3>1. occurrence[s][n] \in OccurrenceRecord
      BY ScheduleParts
    <3> QED BY <3>1 DEF OccurrenceRecord
  <2> HIDE DEF r, o
  <2>6. WorkerSound(r)
    BY <2>3, <2>4 DEF WorkerSound
  <2>7. /\ UNCHANGED <<payment, destination, request>>
        /\ schedule' \in [Schedule -> ScheduleRecord] /\ \A q \in Schedule : SameProgress(q)
    BY <1>2, ScheduleParts DEF ClaimInFlight, SameProgress
  <2> QED BY <2>2, <2>4, <2>5, <2>6, <2>7, SchedulerActs
<1> QED BY <1>1, <1>2

\* Every step of the schedules keeps their invariant and moves the pass with them.
LEMMA ScheduleSteps == ASSUME ScheduleInv, PurseCovers, ScheduleNext PROVE ScheduleMoves
<1>1. CASE \/ \E s \in Schedule : CreatePaymentSchedule(s)
           \/ \E fits \in BOOLEAN : ConfigureDestination(fits)
           \/ \E s \in Schedule, to \in {"active", "paused", "revoked"} : LoadForControl(s, to)
           \/ SaveControl \/ ListReleasable
  <2>1. UNCHANGED purse
    BY <1>1 DEF CreatePaymentSchedule, ConfigureDestination, LoadForControl, SaveControl,
                ListReleasable, passVars
  <2> QED BY <1>1, <2>1, OwnerMoves, QuietMoves
<1>2. ASSUME NEW n \in Due, BlockListed(n) PROVE ScheduleMoves
  BY <1>2, RevocationBlocks
<1>3. ASSUME NEW w \in Scheduler, NEW s \in Schedule,
             ListDue(w, s) \/ \E n \in Due : ClaimInFlight(w, s, n)
      PROVE  ScheduleMoves
  <2>1. UNCHANGED purse
    BY <1>3 DEF ListDue, ClaimInFlight, passVars
  <2> QED BY <1>3, <2>1, WorkerStarts, QuietMoves
<1>4. ASSUME NEW w \in Scheduler, SchedulerStep(w) \/ CrashScheduler(w) PROVE ScheduleMoves
  <2>1. CASE \/ ReadPass(w) \/ LookBeforeClosing(w) \/ LookUpPayment(w) \/ ResolveRequest(w)
             \/ ReadAnswer(w) \/ FinalizeRefused(w) \/ StepFails(w) \/ CrashScheduler(w)
    <3>1. UNCHANGED purse
      BY <2>1 DEF ReadPass, LookBeforeClosing, LookUpPayment, ResolveRequest, ReadAnswer,
                  FinalizeRefused, StepFails, CrashScheduler, passVars
    <3> QED BY <2>1, <3>1, WorkerReads, QuietMoves
  <2>2. CASE \/ CloseSchedule(w) \/ CompleteSchedule(w) \/ ClaimOccurrence(w)
             \/ MarkUncertain(w) \/ DepleteSchedule(w) \/ BlockDepleted(w) \/ StoreRequest(w)
             \/ MarkSubmitted(w) \/ MarkRetry(w)
    <3>1. UNCHANGED purse
      BY <2>2 DEF CloseSchedule, CompleteSchedule, ClaimOccurrence, MarkUncertain,
                  DepleteSchedule, BlockDepleted, StoreRequest, MarkSubmitted, MarkRetry, passVars
    <3> QED BY <2>2, <3>1, WorkerWrites, QuietMoves
  <2>3. CASE BlockBeforeClosing(w) \/ BlockFailed(w)
    BY <2>3, WorkerBlocks
  <2>4. CASE ReserveBudget(w)
    BY <2>4, ReserveMoves
  <2>5. CASE Pay(w)
    BY <2>5, PayMoves
  <2>6. CASE FinalizeSuccess(w)
    BY <2>6, FinalizeMoves
  <2> QED BY <1>4, <2>1, <2>2, <2>3, <2>4, <2>5, <2>6 DEF SchedulerStep
<1>5. ASSUME NEW s \in Schedule, NEW n \in Due, SettlePayment(s, n) PROVE ScheduleMoves
  BY <1>5, SettleMoves
<1> QED BY <1>1, <1>2, <1>3, <1>4, <1>5 DEF ScheduleNext, ControlStep

-----------------------------------------------------------------------------
(* Sums over events.                                                       *)
\* The sum over a set of events is an amount, and the set is finite.
LEMMA CostTyped ==
  ASSUME NEW E \in SUBSET Event
  PROVE  /\ IsFiniteSet(E) /\ Cardinality(E) \in Nat
         /\ [e \in E |-> Cost[e]] \in [E -> Nat]
         /\ IsFiniteSet(Units([e \in E |-> Cost[e]])) /\ CostOf(E) \in Nat
<1>1. IsFiniteSet(E) /\ Cardinality(E) \in Nat
  BY MeteredAssumption, FS_Subset, FS_CardinalityType
<1>2. [e \in E |-> Cost[e]] \in [E -> Nat]
  BY MeteredAssumption
<1> QED BY <1>1, <1>2, UnitsFinite DEF CostOf

\* Disjoint sets of events add up.
LEMMA CostUnion ==
  ASSUME NEW E \in SUBSET Event, NEW F \in SUBSET Event, E \cap F = {}
  PROVE  /\ CostOf(E \cup F) = CostOf(E) + CostOf(F)
         /\ Cardinality(E \cup F) = Cardinality(E) + Cardinality(F)
<1> DEFINE u(S) == Units([e \in S |-> Cost[e]])
<1>1. u(E \cup F) = u(E) \cup u(F)
  BY DEF Units
<1>2. u(E) \cap u(F) = {}
  BY DEF Units
<1>3. /\ IsFiniteSet(u(E)) /\ IsFiniteSet(u(F))
      /\ CostOf(E) = Cardinality(u(E)) /\ CostOf(F) = Cardinality(u(F))
      /\ CostOf(E \cup F) = Cardinality(u(E \cup F))
      /\ CostOf(E) \in Nat /\ CostOf(F) \in Nat
  BY CostTyped DEF CostOf, Total
<1> HIDE DEF u
<1>4. ASSUME NEW S, NEW T, IsFiniteSet(S), IsFiniteSet(T), S \cap T = {}
      PROVE  Cardinality(S \cup T) = Cardinality(S) + Cardinality(T)
  <2>1. /\ Cardinality(S \cup T) = Cardinality(S) + Cardinality(T) - Cardinality(S \cap T)
        /\ Cardinality(S) \in Nat /\ Cardinality(T) \in Nat
    BY <1>4, FS_Union, FS_CardinalityType
  <2>2. Cardinality(S \cap T) = 0
    BY <1>4, FS_EmptySet
  <2> QED BY <2>1, <2>2
<1>5. Cardinality(u(E \cup F)) = Cardinality(u(E)) + Cardinality(u(F))
  BY <1>1, <1>2, <1>3, <1>4
<1>6. Cardinality(E \cup F) = Cardinality(E) + Cardinality(F)
  BY <1>4, CostTyped
<1> QED BY <1>3, <1>5, <1>6

\* No events cost nothing.
LEMMA CostNone == CostOf({}) = 0 /\ Cardinality({}) = 0
<1>1. Units([e \in {} |-> Cost[e]]) = {}
  BY DEF Units
<1> QED BY <1>1, FS_EmptySet DEF CostOf, Total

\* One event costs what it costs.
LEMMA CostOne ==
  ASSUME NEW e \in Event
  PROVE  CostOf({e}) = Cost[e] /\ Cardinality({e}) = 1 /\ Cost[e] \in Nat /\ Cost[e] > 0
<1>1. Cost[e] \in Nat /\ Cost[e] > 0
  BY MeteredAssumption
<1>2. Units([x \in {e} |-> Cost[x]]) = {e} \X (1..Cost[e])
  BY DEF Units
<1>3. Cardinality({e} \X (1..Cost[e])) = Cost[e]
  BY <1>1, ColumnSize
<1>4. CostOf({e}) = Cost[e]
  BY <1>2, <1>3 DEF CostOf, Total
<1> QED BY <1>1, <1>4, FS_Singleton

\* Some events cost something.
LEMMA CostSome ==
  ASSUME NEW E \in SUBSET Event, E # {}
  PROVE  CostOf(E) > 0
<1>1. PICK e \in Event : e \in E
  OBVIOUS
<1>2. E = {e} \cup (E \ {e}) /\ {e} \cap (E \ {e}) = {}
  BY <1>1
<1>3. CostOf({e} \cup (E \ {e})) = CostOf({e}) + CostOf(E \ {e})
  BY <1>2, CostUnion
<1>4. CostOf(E \ {e}) \in Nat
  <2>1. E \ {e} \in SUBSET Event
    OBVIOUS
  <2> QED BY <2>1, CostTyped
<1>5. CostOf(E) = Cost[e] + CostOf(E \ {e}) /\ Cost[e] \in Nat /\ Cost[e] > 0
  <2>1. CostOf(E) = CostOf({e}) + CostOf(E \ {e})
    BY <1>2, <1>3
  <2> QED BY <2>1, CostOne
<1> QED BY <1>4, <1>5

\* A set of naturals that is not empty has a least element.
LEMMA MinLeast ==
  ASSUME NEW S \in SUBSET Nat, S # {}
  PROVE  Min(S) \in S
<1> DEFINE R == {ss \in Nat \X Nat : ss[1] < ss[2]}
<1>1. IsWellFoundedOn(R, Nat)
  BY NatLessThanWellFounded DEF OpToRel
<1>2. PICK x \in S : \A y \in S : <<y, x>> \notin R
  <2> HIDE DEF R
  <2> QED BY <1>1, WFMin
<1>3. \A y \in S : x <= y
  <2> SUFFICES ASSUME NEW y \in S PROVE x <= y
    OBVIOUS
  <2>1. ~ (y < x)
    BY <1>2
  <2> QED BY <2>1
<1> QED BY <1>2, <1>3 DEF Min

-----------------------------------------------------------------------------
(* Metered payments.                                                       *)
\* The events of batch b.
Members(b) == {e \in Event : usage[e].batch = b}

\* The status that a final batch gives its events.
Settling(status) == IF status = "succeeded" THEN "settled" ELSE status

\* A batch and its events.
BatchFacts(b) ==
  /\ batches[b].status = "none" <=> Members(b) = {}
  /\ batches[b].status \in Open => \A e \in Members(b) : usage[e].status \in Unsettled
  /\ batches[b].status \in Final =>
       \A e \in Members(b) : usage[e].status = Settling(batches[b].status)
  /\ batches[b].total = CostOf(Members(b)) /\ batches[b].count = Cardinality(Members(b))
  /\ batches[b].total <= MaxBatch /\ batches[b].count <= MaxBatchEvents
  /\ batches[b].accepting => batches[b].status = "collecting"
  /\ batches[b].lease # "none" => batches[b].status \in Open /\ ~batches[b].accepting
  /\ batches[b].status = "succeeded" => provider[b] = "succeeded"

\* A worker has a batch that exists, and finalizes one that was paid.
SettlerFacts ==
  \A w \in Settler :
    /\ settler[w].at # "idle" => batches[settler[w].b].status # "none"
    /\ settler[w].at = "finalize" => provider[settler[w].b] = "succeeded"

MeteredInv ==
  /\ MeteredTypeOK
  /\ \A e \in Event : usage[e].status = "none" <=> usage[e].batch = 0
  /\ \A b \in Batch : BatchFacts(b)
  /\ \A b, c \in Accepting : b = c
  /\ SettlerFacts
  /\ \A b \in revoking.todo : batches[b].status # "none"
  /\ GrantMatchesEvents

\* The types of the documents and processes.
MeteredTyped ==
  /\ grant \in GrantRecord
  /\ usage \in [Event -> EventRecord]
  /\ batches \in [Batch -> BatchRecord]
  /\ inWindow \in 0..RateLimit
  /\ provider \in [Batch -> {"none", "pending", "succeeded", "failed"}]
  /\ settler \in [Settler -> SettlerRecord]
  /\ revoking \in [at: {"idle", "list", "release"}, todo: SUBSET Batch]

\* A set whose elements are all the same has at most one.
LEMMA AtMostOne ==
  ASSUME NEW S, \A x, y \in S : x = y
  PROVE  Cardinality(S) <= 1
<1>1. CASE S = {}
  BY <1>1, FS_EmptySet
<1>2. CASE S # {}
  <2>1. PICK x : S = {x}
    BY <1>2
  <2>2. Cardinality({x}) = 1
    BY FS_Singleton
  <2> QED BY <2>1, <2>2
<1> QED BY <1>1, <1>2

\* The batches are numbered from 1.
LEMMA BatchTyped ==
  /\ Batch \subseteq Nat /\ IsFiniteSet(Batch) /\ Cardinality(Batch) = Cardinality(Event)
  /\ 1 \in Batch /\ 0 \notin Batch /\ MaxTries \in Nat /\ GrantLimit \in Nat
  /\ MaxBatch \in Nat /\ MaxBatchEvents \in Nat /\ MaxBatchEvents >= 1
<1>1. Cardinality(Event) \in Nat /\ Cardinality(Event) # 0
  BY MeteredAssumption, FS_CardinalityType, FS_EmptySet
<1>2. PICK n \in Nat : n = Cardinality(Event) /\ n # 0
  BY <1>1
<1>3. IsFiniteSet(1..n) /\ Cardinality(1..n) = n
  <2>1. 1 \in Int /\ n \in Int
    OBVIOUS
  <2>2. IsFiniteSet(1..n) /\ Cardinality(1..n) = IF 1 > n THEN 0 ELSE n - 1 + 1
    BY <2>1, FS_Interval
  <2>3. (IF 1 > n THEN 0 ELSE n - 1 + 1) = n
    BY <1>2
  <2> QED BY <2>2, <2>3
<1>4. Batch = 1..n
  BY <1>2 DEF Batch
<1>5. /\ MaxTries \in Nat /\ GrantLimit \in Nat /\ MaxBatch \in Nat /\ MaxBatchEvents \in Nat
      /\ MaxBatchEvents >= 1
  BY MeteredAssumption
<1> QED BY <1>2, <1>3, <1>4, <1>5

\* The idle worker.
LEMMA IdleSettlerTyped == IdleSettler \in SettlerRecord /\ IdleSettler.at = "idle"
BY BatchTyped DEF IdleSettler, SettlerRecord

\* The parts of the invariant that the steps use.
LEMMA MeteredParts ==
  ASSUME MeteredInv
  PROVE  /\ MeteredTyped
         /\ \A e \in Event : usage[e] \in EventRecord
         /\ \A b \in Batch : batches[b] \in BatchRecord
         /\ \A w \in Settler : settler[w] \in SettlerRecord /\ settler[w].b \in Batch
         /\ \A b \in Batch : Members(b) \in SUBSET Event
BY DEF MeteredInv, MeteredTypeOK, MeteredTyped, SettlerRecord, Members

\* What may become of batch b while its events stay as they are: it stays open, and
\* accepts no more than before.
StaysOpen(b) ==
  /\ batches'[b].total = batches[b].total /\ batches'[b].count = batches[b].count
  /\ \/ batches'[b] = batches[b]
     \/ /\ batches[b].status \in Open /\ batches'[b].status \in Open
        /\ ~batches'[b].accepting

\* A step that settles no event and creates no batch keeps the invariant if what it
\* writes is typed and its workers are sound.
LEMMA MeteredKept ==
  ASSUME MeteredInv, MeteredTyped',
         \A e \in Event : /\ usage'[e].batch = usage[e].batch
                          /\ \/ usage'[e].status = usage[e].status
                             \/ /\ usage[e].status \in Unsettled
                                /\ usage'[e].status \in Unsettled,
         \A b \in Batch : StaysOpen(b),
         \A b \in Batch : provider[b] = "succeeded" => provider'[b] = "succeeded",
         grant'.reserved = grant.reserved, grant'.spent = grant.spent,
         SettlerFacts',
         \A b \in revoking'.todo : batches[b].status # "none"
  PROVE  MeteredInv'
<1>1. \A b \in Batch : Members(b)' = Members(b)
  BY DEF Members
<1>2. \A e \in Event : /\ usage'[e].status = "none" <=> usage[e].status = "none"
                       /\ usage'[e].status \in Unsettled <=> usage[e].status \in Unsettled
                       /\ usage'[e].status = "settled" <=> usage[e].status = "settled"
  BY DEF Unsettled
<1>3. ASSUME NEW b \in Batch PROVE BatchFacts(b)'
  <2>1. BatchFacts(b) /\ Members(b)' = Members(b) /\ Members(b) \in SUBSET Event
    BY <1>1, MeteredParts DEF MeteredInv
  <2>2. /\ batches'[b].total = CostOf(Members(b)') /\ batches'[b].count = Cardinality(Members(b)')
        /\ batches'[b].total <= MaxBatch /\ batches'[b].count <= MaxBatchEvents
    BY <2>1 DEF StaysOpen, BatchFacts
  <2>3. CASE batches'[b] = batches[b]
    <3>1. batches[b].status \in Final =>
            \A e \in Members(b) : usage[e].status = Settling(batches[b].status)
                                  /\ usage[e].status \notin Unsettled
      BY <2>1 DEF BatchFacts, Final, Settling, Unsettled
    <3>2. batches[b].status \in Final =>
            \A e \in Members(b) : usage'[e].status = Settling(batches[b].status)
      BY <2>1, <3>1
    <3>3. batches[b].status \in Open => \A e \in Members(b) : usage'[e].status \in Unsettled
      BY <1>2, <2>1 DEF BatchFacts
    <3> QED BY <2>1, <2>2, <2>3, <3>2, <3>3 DEF BatchFacts, Settling
  <2>4. CASE /\ batches[b].status \in Open /\ batches'[b].status \in Open
             /\ ~batches'[b].accepting
    <3>1. \A e \in Members(b) : usage'[e].status \in Unsettled
      BY <1>2, <2>1, <2>4 DEF BatchFacts
    <3> QED BY <2>1, <2>2, <2>4, <3>1 DEF BatchFacts, Open, Final
  <2> QED BY <2>3, <2>4 DEF StaysOpen
<1>4. \A b, c \in Accepting' : b = c
  <2>1. Accepting' \subseteq Accepting
    BY DEF Accepting, StaysOpen
  <2> QED BY <2>1 DEF MeteredInv
<1>5. GrantMatchesEvents'
  <2>1. EventsIn(Unsettled)' = EventsIn(Unsettled)
    BY <1>2 DEF EventsIn
  <2>2. EventsIn({"settled"})' = EventsIn({"settled"})
    BY <1>2 DEF EventsIn
  <2> QED BY <2>1, <2>2 DEF MeteredInv, GrantMatchesEvents
<1>6. MeteredTypeOK'
  BY <1>4, AtMostOne DEF MeteredTyped, MeteredTypeOK
<1>7. \A e \in Event : usage'[e].status = "none" <=> usage'[e].batch = 0
  BY <1>2 DEF MeteredInv
<1>8. \A b \in revoking'.todo : batches'[b].status # "none"
  <2>1. revoking'.todo \in SUBSET Batch
    BY DEF MeteredTyped
  <2>2. \A b \in Batch : batches[b].status # "none" => batches'[b].status # "none"
    BY DEF StaysOpen, Open
  <2> QED BY <2>1, <2>2
<1> QED BY <1>3, <1>4, <1>5, <1>6, <1>7, <1>8 DEF MeteredInv

\* A metered step that leaves the amounts of the grant alone.
MeteredQuiet ==
  MeteredInv' /\ grant'.reserved = grant.reserved /\ grant'.spent = grant.spent

\* Worker w goes to a place it may be at.
SettlerPlaced(w) ==
  \E r \in SettlerRecord :
    /\ settler' = [settler EXCEPT ![w] = r]
    /\ r.at # "idle" => batches[r.b].status # "none"
    /\ r.at = "finalize" => provider[r.b] = "succeeded"

\* The workers stay sound while batches stay and payments only succeed.
LEMMA SettlersStay ==
  ASSUME MeteredInv, UNCHANGED settler \/ \E w \in Settler : SettlerPlaced(w),
         \A b \in Batch : batches[b].status # "none" => batches'[b].status # "none",
         \A b \in Batch : provider[b] = "succeeded" => provider'[b] = "succeeded"
  PROVE  settler' \in [Settler -> SettlerRecord] /\ SettlerFacts'
<1>a. settler \in [Settler -> SettlerRecord]
  BY MeteredParts DEF MeteredTyped
<1>1. CASE UNCHANGED settler
  BY <1>a, <1>1 DEF MeteredInv, SettlerFacts, SettlerRecord
<1>2. ASSUME NEW w \in Settler, SettlerPlaced(w)
      PROVE  settler' \in [Settler -> SettlerRecord] /\ SettlerFacts'
  <2>1. PICK r \in SettlerRecord :
           /\ settler' = [settler EXCEPT ![w] = r]
           /\ r.at # "idle" => batches[r.b].status # "none"
           /\ r.at = "finalize" => provider[r.b] = "succeeded"
    BY <1>2 DEF SettlerPlaced
  <2>2. settler' \in [Settler -> SettlerRecord]
    BY <1>a, <2>1
  <2>3. r.b \in Batch
    BY DEF SettlerRecord
  <2>4. ASSUME NEW v \in Settler
        PROVE  /\ settler'[v].at # "idle" => batches'[settler'[v].b].status # "none"
               /\ settler'[v].at = "finalize" => provider'[settler'[v].b] = "succeeded"
    <3>1. CASE v = w
      <4>1. settler'[v] = r
        BY <1>a, <2>1, <3>1
      <4> QED BY <2>1, <2>3, <4>1
    <3>2. CASE v # w
      <4>1. settler'[v] = settler[v] /\ settler[v].b \in Batch
        BY <1>a, <2>1, <3>2, MeteredParts
      <4> QED BY <4>1 DEF MeteredInv, SettlerFacts
    <3> QED BY <3>1, <3>2
  <2> QED BY <2>2, <2>4 DEF SettlerFacts
<1> QED BY <1>1, <1>2

\* A worker that goes on with its batch.
LEMMA SameBatch ==
  ASSUME MeteredInv, NEW w \in Settler, NEW r \in SettlerRecord,
         settler' = [settler EXCEPT ![w] = r], settler[w].at # "idle", r.b = settler[w].b,
         r.at = "finalize" => provider[r.b] = "succeeded"
  PROVE  SettlerPlaced(w)
BY DEF SettlerPlaced, MeteredInv, SettlerFacts

SettlerPlaces ==
  {"grant", "lookup", "resolve", "store", "settling", "submit", "pay", "answer", "finalize",
   "release", "retry"}

\* A worker that goes on to another step.
LEMMA SettlerGoes ==
  ASSUME MeteredInv, NEW w \in Settler, NEW at \in SettlerPlaces, SettlerAt(w, at),
         settler[w].at # "idle", at = "finalize" => provider[settler[w].b] = "succeeded"
  PROVE  SettlerPlaced(w)
<1> DEFINE r == [settler[w] EXCEPT !.at = at]
<1>1. r \in SettlerRecord /\ r.at = at /\ r.b = settler[w].b
  BY MeteredParts DEF SettlerRecord, SettlerPlaces
<1>2. settler' = [settler EXCEPT ![w] = r]
  BY DEF SettlerAt
<1> HIDE DEF r
<1> QED BY <1>1, <1>2, SameBatch

\* A worker whose step fails.
LEMMA SettlerThrows ==
  ASSUME MeteredInv, NEW w \in Settler, NEW F \in SUBSET {"retry", "fatal"}, Throws(w, F),
         settler[w].at # "idle"
  PROVE  SettlerPlaced(w)
<1>1. PICK f \in F : settler' = [settler EXCEPT ![w].at = "caught", ![w].failure = f]
  BY DEF Throws
<1> DEFINE r == [settler[w] EXCEPT !.at = "caught", !.failure = f]
<1>2. r \in SettlerRecord /\ r.at = "caught" /\ r.b = settler[w].b
  BY MeteredParts DEF SettlerRecord
<1>3. settler' = [settler EXCEPT ![w] = r]
  BY <1>1
<1> HIDE DEF r
<1> QED BY <1>2, <1>3, SameBatch

\* A worker that is done.
LEMMA SettlerStops ==
  ASSUME MeteredInv, NEW w \in Settler, SettlerDone(w)
  PROVE  SettlerPlaced(w)
BY IdleSettlerTyped DEF SettlerPlaced, SettlerDone, IdleSettler

\* A worker that writes nothing.
LEMMA OnlySettler ==
  ASSUME MeteredInv, NEW w \in Settler, SettlerPlaced(w),
         UNCHANGED <<grant, usage, batches, inWindow, provider, revoking>>
  PROVE  MeteredQuiet
<1>1. settler' \in [Settler -> SettlerRecord] /\ SettlerFacts'
  BY SettlersStay
<1>2. MeteredTyped'
  BY <1>1, MeteredParts DEF MeteredTyped
<1>3. \A b \in Batch : StaysOpen(b)
  BY DEF StaysOpen
<1>4. MeteredInv'
  BY <1>1, <1>2, <1>3, MeteredKept DEF MeteredInv
<1> QED BY <1>4 DEF MeteredQuiet

\* The reads and decisions of a worker.
LEMMA SettlerReads ==
  ASSUME MeteredInv, NEW w \in Settler,
         \/ CheckGrant(w) \/ LookUpBatch(w) \/ ResolveBatch(w) \/ StoreBatchRequest(w)
         \/ ReadBatchAnswer(w) \/ FinalizeBatchRefused(w) \/ CatchFailure(w) \/ CrashSettler(w)
  PROVE  MeteredQuiet
<1> DEFINE x == settler[w]
<1>a. x \in SettlerRecord /\ x.b \in Batch
  BY MeteredParts
<1>b. x.at # "idle"
  BY DEF CheckGrant, LookUpBatch, ResolveBatch, StoreBatchRequest, ReadBatchAnswer,
         FinalizeBatchRefused, CatchFailure, CrashSettler
<1>c. UNCHANGED <<grant, usage, batches, inWindow, provider, revoking>>
  BY DEF CheckGrant, LookUpBatch, ResolveBatch, StoreBatchRequest, ReadBatchAnswer,
         FinalizeBatchRefused, CatchFailure, CrashSettler
<1>1. CASE CheckGrant(w)
  <2> DEFINE r == [x EXCEPT !.at = "release", !.to = "released"]
  <2>1. \/ \E at \in {"lookup", "resolve"} : SettlerAt(w, at)
        \/ settler' = [settler EXCEPT ![w] = r]
    BY <1>1 DEF CheckGrant, SettlerAt
  <2>2. r \in SettlerRecord /\ r.at = "release" /\ r.b = x.b
    BY <1>a DEF SettlerRecord
  <2> HIDE DEF r
  <2>3. SettlerPlaced(w)
    BY <1>b, <2>1, <2>2, SettlerGoes, SameBatch DEF SettlerPlaces
  <2> QED BY <1>c, <2>3, OnlySettler
<1>2. CASE LookUpBatch(w)
  <2>1. \/ Throws(w, {"retry", "fatal"})
        \/ \E at \in {"finalize", "retry", "release", "resolve"} :
             SettlerAt(w, at) /\ (at = "finalize" => provider[x.b] = "succeeded")
    BY <1>2 DEF LookUpBatch
  <2>2. SettlerPlaced(w)
    BY <1>b, <2>1, SettlerGoes, SettlerThrows DEF SettlerPlaces
  <2> QED BY <1>c, <2>2, OnlySettler
<1>3. CASE ResolveBatch(w)
  <2>1. SettlerAt(w, "store") \/ \E F \in SUBSET {"retry", "fatal"} : Throws(w, F)
    BY <1>3 DEF ResolveBatch
  <2>2. SettlerPlaced(w)
    BY <1>b, <2>1, SettlerGoes, SettlerThrows DEF SettlerPlaces
  <2> QED BY <1>c, <2>2, OnlySettler
<1>4. CASE StoreBatchRequest(w)
  <2>1. SettlerAt(w, "settling") \/ Throws(w, {"retry"}) \/ SettlerDone(w)
    BY <1>4 DEF StoreBatchRequest
  <2>2. SettlerPlaced(w)
    BY <1>b, <2>1, SettlerGoes, SettlerThrows, SettlerStops DEF SettlerPlaces
  <2> QED BY <1>c, <2>2, OnlySettler
<1>5. CASE ReadBatchAnswer(w)
  <2>1. \/ Throws(w, {"retry", "fatal"})
        \/ \E at \in {"finalize", "release", "retry"} :
             /\ settler' = [settler EXCEPT ![w].submitted = TRUE, ![w].at = at]
             /\ at = "finalize" => provider[x.b] = "succeeded"
    BY <1>5 DEF ReadBatchAnswer
  <2>2. ASSUME NEW at \in {"finalize", "release", "retry"},
               settler' = [settler EXCEPT ![w].submitted = TRUE, ![w].at = at],
               at = "finalize" => provider[x.b] = "succeeded"
        PROVE  SettlerPlaced(w)
    <3> DEFINE r == [x EXCEPT !.submitted = TRUE, !.at = at]
    <3>1. r \in SettlerRecord /\ r.at = at /\ r.b = x.b
      BY <1>a DEF SettlerRecord
    <3>2. settler' = [settler EXCEPT ![w] = r]
      BY <2>2
    <3> HIDE DEF r
    <3> QED BY <1>b, <2>2, <3>1, <3>2, SameBatch
  <2>3. SettlerPlaced(w)
    BY <1>b, <2>1, <2>2, SettlerThrows
  <2> QED BY <1>c, <2>3, OnlySettler
<1>6. CASE FinalizeBatchRefused(w)
  <2>1. Throws(w, {"retry"}) \/ SettlerDone(w)
    BY <1>6 DEF FinalizeBatchRefused
  <2>2. SettlerPlaced(w)
    BY <1>b, <2>1, SettlerThrows, SettlerStops
  <2> QED BY <1>c, <2>2, OnlySettler
<1>7. CASE CatchFailure(w)
  <2>1. PICK at \in {"retry", "release"} :
           settler' = [settler EXCEPT ![w].failure = "retry", ![w].to = "failed",
                         ![w].submitted = batches[x.b].submitted, ![w].at = at]
    BY <1>7 DEF CatchFailure
  <2>2. batches[x.b].submitted \in BOOLEAN
    BY <1>a, MeteredParts DEF BatchRecord
  <2> DEFINE r == [x EXCEPT !.failure = "retry", !.to = "failed",
                     !.submitted = batches[x.b].submitted, !.at = at]
  <2>3. r \in SettlerRecord /\ r.at = at /\ r.b = x.b
    BY <1>a, <2>2 DEF SettlerRecord
  <2>4. settler' = [settler EXCEPT ![w] = r]
    BY <2>1
  <2> HIDE DEF r
  <2>5. SettlerPlaced(w)
    BY <1>b, <2>3, <2>4, SameBatch
  <2> QED BY <1>c, <2>5, OnlySettler
<1>8. CASE CrashSettler(w)
  BY <1>8, <1>c, SettlerStops, OnlySettler DEF CrashSettler
<1> QED BY <1>1, <1>2, <1>3, <1>4, <1>5, <1>6, <1>7, <1>8

\* A worker updates a batch that is open, and leaves its sums.
LEMMA BatchUpdated ==
  ASSUME MeteredInv, NEW w \in Settler, SettlerPlaced(w), NEW b \in Batch, NEW r \in BatchRecord,
         \/ batches' = batches
         \/ /\ batches' = [batches EXCEPT ![b] = r] /\ batches[b].status \in Open
            /\ r.total = batches[b].total /\ r.count = batches[b].count
            /\ r.status \in Open /\ ~r.accepting,
         UNCHANGED <<grant, usage, inWindow, provider, revoking>>
  PROVE  MeteredQuiet
<1>1. \A c \in Batch : StaysOpen(c)
  BY MeteredParts DEF MeteredTyped, StaysOpen
<1>2. batches' \in [Batch -> BatchRecord]
  BY MeteredParts DEF MeteredTyped
<1>3. \A c \in Batch : batches[c].status # "none" => batches'[c].status # "none"
  BY <1>1 DEF StaysOpen, Open
<1>4. settler' \in [Settler -> SettlerRecord] /\ SettlerFacts'
  BY <1>3, SettlersStay
<1>5. MeteredTyped'
  BY <1>2, <1>4, MeteredParts DEF MeteredTyped
<1>6. MeteredInv'
  BY <1>1, <1>4, <1>5, MeteredKept DEF MeteredInv
<1> QED BY <1>6 DEF MeteredQuiet

\* How often a batch was claimed is counted up to the maximum.
LEMMA TriesTyped ==
  ASSUME NEW n \in 0..MaxTries
  PROVE  Min({n + 1, MaxTries}) \in 0..MaxTries
<1>1. n + 1 \in Nat /\ MaxTries \in Nat
  BY BatchTyped
<1>2. PICK m \in Nat, k \in Nat : m = n + 1 /\ k = MaxTries
  BY <1>1
<1>3. \E x \in {m, k} : x <= k /\ \A y \in {m, k} : x <= y
  BY <1>2
<1>4. Min({m, k}) \in {m, k} /\ \A y \in {m, k} : Min({m, k}) <= y
  BY <1>3 DEF Min
<1> QED BY <1>2, <1>4

\* The updates of a worker that move no money.
LEMMA SettlerWrites ==
  ASSUME MeteredInv, NEW w \in Settler,
         \/ MarkBatchSubmitted(w) \/ RetryBatch(w) \/ \E b \in Batch : ClaimBatch(w, b)
  PROVE  MeteredQuiet
<1> DEFINE x == settler[w]
<1>a. x \in SettlerRecord /\ x.b \in Batch /\ batches[x.b] \in BatchRecord
  BY MeteredParts
<1>b. Mine(w) => batches[x.b].status \in Open /\ ~batches[x.b].accepting
  BY <1>a, MeteredAssumption DEF Mine, MeteredInv, BatchFacts
<1>1. CASE MarkBatchSubmitted(w)
  <2>1. SettlerPlaced(w)
    BY <1>1, SettlerGoes DEF MarkBatchSubmitted, SettlerPlaces
  <2> DEFINE r == [batches[x.b] EXCEPT !.submitted = TRUE]
  <2>2. /\ r \in BatchRecord /\ r.total = batches[x.b].total /\ r.count = batches[x.b].count
        /\ r.status = batches[x.b].status /\ r.accepting = batches[x.b].accepting
    BY <1>a DEF BatchRecord
  <2>3. batches' = batches \/ (Mine(w) /\ batches' = [batches EXCEPT ![x.b] = r])
    BY <1>1 DEF MarkBatchSubmitted, UpdateMine
  <2> HIDE DEF r
  <2>4. UNCHANGED <<grant, usage, inWindow, provider, revoking>>
    BY <1>1 DEF MarkBatchSubmitted
  <2> QED BY <1>a, <1>b, <2>1, <2>2, <2>3, <2>4, BatchUpdated
<1>2. CASE RetryBatch(w)
  <2>1. SettlerPlaced(w)
    BY <1>2, SettlerStops DEF RetryBatch
  <2>2. PICK st \in {"uncertain", "retrying"} :
          batches' = batches \/ (Mine(w) /\ batches' =
            [batches EXCEPT ![x.b] = [batches[x.b] EXCEPT !.lease = "none", !.status = st]])
    BY <1>2 DEF RetryBatch, UpdateMine
  <2> DEFINE r == [batches[x.b] EXCEPT !.lease = "none", !.status = st]
  <2>3. /\ r \in BatchRecord /\ r.total = batches[x.b].total /\ r.count = batches[x.b].count
        /\ r.status \in Open /\ r.accepting = batches[x.b].accepting
    BY <1>a DEF BatchRecord, Open
  <2> HIDE DEF r
  <2>4. UNCHANGED <<grant, usage, inWindow, provider, revoking>>
    BY <1>2 DEF RetryBatch
  <2> QED BY <1>a, <1>b, <2>1, <2>2, <2>3, <2>4, BatchUpdated DEF r
<1>3. ASSUME NEW b \in Batch, ClaimBatch(w, b) PROVE MeteredQuiet
  <2>1. /\ batches[b] \in BatchRecord /\ batches[b].submitted \in BOOLEAN
        /\ batches[b].tries \in 0..MaxTries
    BY MeteredParts DEF BatchRecord
  <2>2. PICK t \in 0..MaxTries : t = Min({batches[b].tries + 1, MaxTries})
    BY <2>1, TriesTyped
  <2> DEFINE last == batches[b].tries + 1 >= MaxTries
             r == [batches[b] EXCEPT !.status = "processing", !.accepting = FALSE, !.lease = w,
                                     !.tries = t]
             y == [IdleSettler EXCEPT !.at = "grant", !.b = b, !.submitted = batches[b].submitted,
                                      !.last = last]
  <2>3. last \in BOOLEAN
    OBVIOUS
  <2>4. /\ batches' = [batches EXCEPT ![b] = r] /\ settler' = [settler EXCEPT ![w] = y]
        /\ batches[b].status \in Open
    <3>1. batches' = [batches EXCEPT ![b].status = "processing", ![b].accepting = FALSE,
                                     ![b].lease = w, ![b].tries = t]
      BY <1>3, <2>1, <2>2, MeteredParts, Zenon DEF ClaimBatch, MeteredTyped
    <3>2. settler' = [settler EXCEPT ![w] = y] /\ batches[b].status \in Open
      BY <1>3 DEF ClaimBatch
    <3> QED BY <3>1, <3>2
  <2> HIDE DEF last
  <2>5. /\ r \in BatchRecord /\ r.total = batches[b].total /\ r.count = batches[b].count
        /\ r.status \in Open /\ ~r.accepting
    BY <2>1 DEF BatchRecord, Open
  <2>6. y \in SettlerRecord /\ y.at = "grant" /\ y.b = b
    BY <2>1, <2>3, IdleSettlerTyped DEF SettlerRecord
  <2> HIDE DEF r, y
  <2>7. SettlerPlaced(w)
    BY <2>4, <2>6 DEF SettlerPlaced, Open
  <2>8. UNCHANGED <<grant, usage, inWindow, provider, revoking>>
    BY <1>3 DEF ClaimBatch
  <2> QED BY <2>4, <2>5, <2>7, <2>8, BatchUpdated
<1> QED BY <1>1, <1>2, <1>3

\* Events that are marked as settling stay unsettled.
LEMMA MarkSettlingQuiet ==
  ASSUME MeteredInv, NEW w \in Settler, MarkSettling(w)
  PROVE  MeteredQuiet
<1>1. SettlerPlaced(w)
  BY SettlerGoes DEF MarkSettling, SettlerPlaces
<1>2. settler' \in [Settler -> SettlerRecord] /\ SettlerFacts'
  BY <1>1, SettlersStay DEF MarkSettling
<1>3. ASSUME NEW e \in Event
      PROVE  /\ usage'[e] \in EventRecord /\ usage'[e].batch = usage[e].batch
             /\ \/ usage'[e].status = usage[e].status
                \/ usage[e].status \in Unsettled /\ usage'[e].status \in Unsettled
  <2>1. \/ usage'[e] = usage[e]
        \/ usage[e].status = "reserved" /\ usage'[e] = [usage[e] EXCEPT !.status = "settling"]
    BY DEF MarkSettling
  <2>2. usage[e] \in EventRecord
    BY MeteredParts
  <2> QED BY <2>1, <2>2 DEF EventRecord, Unsettled
<1>4. usage' \in [Event -> EventRecord]
  BY <1>3 DEF MarkSettling
<1>5. MeteredTyped'
  BY <1>2, <1>4, MeteredParts DEF MeteredTyped, MarkSettling
<1>6. MeteredInv'
  BY <1>2, <1>3, <1>5, MeteredKept DEF MeteredInv, StaysOpen, MarkSettling
<1> QED BY <1>6 DEF MeteredQuiet, MarkSettling

\* The provider starts and settles payments.
LEMMA ProviderQuiet ==
  ASSUME MeteredInv,
         (\E w \in Settler : PayBatch(w)) \/ (\E b \in Batch : SettleProviderPayment(b))
  PROVE  MeteredQuiet
<1> DEFINE P == {"none", "pending", "succeeded", "failed"}
<1>1. PICK b \in Batch, p \in P : /\ provider' = provider \/ provider' = [provider EXCEPT ![b] = p]
                                  /\ provider[b] \in {"none", "pending"} \/ provider' = provider
  <2>1. ASSUME NEW w \in Settler, PayBatch(w)
        PROVE  \E b \in Batch, p \in P :
                 /\ provider' = provider \/ provider' = [provider EXCEPT ![b] = p]
                 /\ provider[b] \in {"none", "pending"} \/ provider' = provider
    <3>1. settler[w].b \in Batch
      BY MeteredParts
    <3> QED BY <2>1, <3>1 DEF PayBatch
  <2> QED BY <2>1 DEF SettleProviderPayment
<1>2. /\ provider' \in [Batch -> P]
      /\ \A c \in Batch : provider[c] = "succeeded" => provider'[c] = "succeeded"
  BY <1>1, MeteredParts DEF MeteredTyped
<1>3. UNCHANGED settler \/ \E w \in Settler : SettlerPlaced(w)
  <2>1. ASSUME NEW w \in Settler, PayBatch(w) PROVE SettlerPlaced(w)
    <3>1. Throws(w, {"retry", "fatal"}) \/ SettlerAt(w, "answer")
      BY <2>1 DEF PayBatch
    <3> QED BY <2>1, <3>1, SettlerGoes, SettlerThrows DEF PayBatch, SettlerPlaces
  <2> QED BY <2>1 DEF SettleProviderPayment
<1>4. UNCHANGED <<grant, usage, batches, inWindow, revoking>>
  BY DEF PayBatch, SettleProviderPayment
<1>5. settler' \in [Settler -> SettlerRecord] /\ SettlerFacts'
  BY <1>2, <1>3, <1>4, SettlersStay
<1>6. MeteredTyped'
  BY <1>2, <1>4, <1>5, MeteredParts DEF MeteredTyped
<1>7. MeteredInv'
  BY <1>2, <1>4, <1>5, <1>6, MeteredKept DEF MeteredInv, StaysOpen
<1> QED BY <1>4, <1>7 DEF MeteredQuiet

\* The steps of the owner and the clock that move no money.
LEMMA GrantQuiet ==
  ASSUME MeteredInv, CreateMeteredGrant \/ NewWindow \/ RevokeGrant \/ ListUnsubmitted
  PROVE  MeteredQuiet
<1>1. UNCHANGED <<usage, batches, provider, settler>>
  BY DEF CreateMeteredGrant, NewWindow, RevokeGrant, ListUnsubmitted
<1>2. /\ grant' \in GrantRecord
      /\ grant'.reserved = grant.reserved /\ grant'.spent = grant.spent
  <2>1. grant \in GrantRecord
    BY MeteredParts DEF MeteredTyped
  <2>2. \/ grant' = grant
        \/ \E st \in {"active", "revoked"} : grant' = [grant EXCEPT !.status = st]
    BY DEF CreateMeteredGrant, NewWindow, RevokeGrant, ListUnsubmitted
  <2> QED BY <2>1, <2>2 DEF GrantRecord
<1>3. inWindow' \in 0..RateLimit
  <2>1. RateLimit \in Nat
    BY MeteredAssumption
  <2> QED BY <2>1, MeteredParts
      DEF MeteredTyped, CreateMeteredGrant, NewWindow, RevokeGrant, ListUnsubmitted
<1>4. /\ revoking' \in [at: {"idle", "list", "release"}, todo: SUBSET Batch]
      /\ \A b \in revoking'.todo : batches[b].status # "none"
  <2>1. revoking \in [at: {"idle", "list", "release"}, todo: SUBSET Batch]
    BY MeteredParts DEF MeteredTyped
  <2>2. \A b \in revoking.todo : batches[b].status # "none"
    BY DEF MeteredInv
  <2>3. CASE revoking' = revoking
    BY <2>1, <2>2, <2>3
  <2>4. CASE revoking' = [revoking EXCEPT !.at = "list"]
    BY <2>1, <2>2, <2>4
  <2>5. CASE ListUnsubmitted
    <3> DEFINE T == {b \in Batch : /\ batches[b].status \in {"collecting", "queued", "retrying"}
                                   /\ ~batches[b].submitted}
    <3>1. T \in SUBSET Batch /\ \A b \in T : batches[b].status # "none"
      OBVIOUS
    <3>2. revoking' = [at |-> "release", todo |-> T]
      BY <2>5 DEF ListUnsubmitted
    <3> HIDE DEF T
    <3> QED BY <3>1, <3>2
  <2> QED BY <2>3, <2>4, <2>5 DEF CreateMeteredGrant, NewWindow, RevokeGrant, ListUnsubmitted
<1>5. settler' \in [Settler -> SettlerRecord] /\ SettlerFacts'
  BY <1>1, SettlersStay
<1>6. MeteredTyped'
  BY <1>1, <1>2, <1>3, <1>4, <1>5, MeteredParts DEF MeteredTyped
<1>7. MeteredInv'
  BY <1>1, <1>2, <1>4, <1>5, <1>6, MeteredKept DEF StaysOpen
<1> QED BY <1>2, <1>7 DEF MeteredQuiet

\* The counters of the pass cover what the grant holds and keep the limit.
GrantCovers ==
  /\ purse \in PurseRecord
  /\ purse.reserved >= grant.reserved
  /\ purse.spent + purse.reserved <= PassLimit

\* A metered step moves the counters of the pass with those of the grant.
GrantMoves ==
  /\ MeteredInv'
  /\ purse' \in PurseRecord
  /\ purse'.reserved = purse.reserved + grant'.reserved - grant.reserved
  /\ purse'.spent = purse.spent + grant'.spent - grant.spent
  /\ purse'.spent + purse'.reserved <= PassLimit

\* The amounts that the moves compute with.
LEMMA GrantAmounts ==
  ASSUME MeteredInv
  PROVE  /\ grant.reserved \in Nat /\ grant.spent \in Nat
         /\ purse \in PurseRecord =>
              purse.reserved \in Nat /\ purse.spent \in Nat /\ PassLimit \in Nat
BY MeteredParts, CountersAssumption DEF MeteredTyped, GrantRecord, PurseRecord

\* A step that leaves grant and pass alone.
LEMMA QuietGrant == GrantCovers /\ MeteredInv /\ MeteredQuiet /\ UNCHANGED purse => GrantMoves
BY GrantAmounts DEF GrantCovers, GrantMoves, MeteredQuiet

\* The events of an open batch are all unsettled, and the grant holds them.
LEMMA OpenBatch ==
  ASSUME MeteredInv, NEW b \in Batch, batches[b].status \in Open
  PROVE  /\ UnsettledOf(b) = Members(b) /\ Members(b) \subseteq EventsIn(Unsettled)
         /\ batches[b].total = CostOf(Members(b))
         /\ CostOf(Members(b)) \in Nat /\ CostOf(Members(b)) <= grant.reserved
         /\ CostOf(EventsIn(Unsettled) \ Members(b)) = grant.reserved - CostOf(Members(b))
<1> DEFINE M == Members(b)
           U == EventsIn(Unsettled)
<1>1. UnsettledOf(b) = M /\ M \subseteq U
  BY DEF UnsettledOf, Members, MeteredInv, BatchFacts, EventsIn
<1>2. M \in SUBSET Event /\ U \in SUBSET Event /\ U \ M \in SUBSET Event
  BY DEF Members, EventsIn
<1>3. grant.reserved = CostOf(U)
  BY DEF MeteredInv, GrantMatchesEvents
<1>4. batches[b].total = CostOf(M)
  BY DEF MeteredInv, BatchFacts
<1> HIDE DEF M, U
<1>5. M \cup (U \ M) = U /\ M \cap (U \ M) = {}
  BY <1>1
<1>6. CostOf(M \cup (U \ M)) = CostOf(M) + CostOf(U \ M)
  BY <1>2, <1>5, CostUnion
<1>7. CostOf(U) = CostOf(M) + CostOf(U \ M)
  BY <1>5, <1>6
<1>8. CostOf(M) \in Nat /\ CostOf(U \ M) \in Nat
  BY <1>2, CostTyped
<1>9. CostOf(M) <= grant.reserved /\ CostOf(U \ M) = grant.reserved - CostOf(M)
  BY <1>3, <1>7, <1>8
<1> QED BY <1>1, <1>4, <1>8, <1>9 DEF M, U

\* A function of which one entry is written.
LEMMA EntryWritten ==
  ASSUME NEW S, NEW R, NEW f \in [S -> R], NEW b \in S, NEW r \in R
  PROVE  /\ [f EXCEPT ![b] = r] \in [S -> R]
         /\ \A c \in S : [f EXCEPT ![b] = r][c] = IF c = b THEN r ELSE f[c]
OBVIOUS

\* The end of an open batch settles all of its events in the same way.
LEMMA BatchEnds ==
  ASSUME MeteredInv, NEW b \in Batch, batches[b].status \in Open, NEW to \in Final,
         to = "succeeded" => provider[b] = "succeeded",
         usage' = [e \in Event |-> IF e \in UnsettledOf(b)
                                   THEN [usage[e] EXCEPT !.status = Settling(to)] ELSE usage[e]],
         batches' = [batches EXCEPT ![b].status = to, ![b].accepting = FALSE, ![b].lease = "none"],
         UNCHANGED <<inWindow, provider>>,
         UNCHANGED settler \/ \E w \in Settler : SettlerPlaced(w),
         revoking' \in [at: {"idle", "list", "release"}, todo: SUBSET Batch],
         revoking'.todo \subseteq revoking.todo,
         grant' \in GrantRecord,
         grant'.reserved = grant.reserved - CostOf(Members(b)),
         grant'.spent = IF to = "succeeded" THEN grant.spent + CostOf(Members(b)) ELSE grant.spent
  PROVE  MeteredInv'
<1> DEFINE M == Members(b)
           U == EventsIn(Unsettled)
           S == EventsIn({"settled"})
<1>1. /\ UnsettledOf(b) = M /\ M \subseteq U /\ CostOf(M) \in Nat /\ CostOf(M) <= grant.reserved
      /\ CostOf(U \ M) = grant.reserved - CostOf(M)
  BY OpenBatch
<1>2. M \in SUBSET Event /\ S \in SUBSET Event /\ M \cap S = {}
  BY <1>1 DEF Members, EventsIn, Unsettled
<1>3. /\ Settling(to) \in {"settled", "released", "failed"}
      /\ Settling(to) = "settled" <=> to = "succeeded"
  BY DEF Final, Settling
<1>4. ASSUME NEW e \in Event
      PROVE  /\ usage'[e] \in EventRecord /\ usage'[e].batch = usage[e].batch
             /\ usage'[e].status = IF e \in M THEN Settling(to) ELSE usage[e].status
  <2>1. usage[e] \in EventRecord
    BY MeteredParts
  <2>2. usage'[e] = IF e \in M THEN [usage[e] EXCEPT !.status = Settling(to)] ELSE usage[e]
    BY <1>1
  <2> QED BY <1>3, <2>1, <2>2 DEF EventRecord
<1>5. usage' \in [Event -> EventRecord]
  BY <1>4
<1>6. /\ batches' \in [Batch -> BatchRecord]
      /\ \A c \in Batch \ {b} : batches'[c] = batches[c]
      /\ batches'[b].status = to /\ ~batches'[b].accepting /\ batches'[b].lease = "none"
      /\ batches'[b].total = batches[b].total /\ batches'[b].count = batches[b].count
  <2> DEFINE r == [batches[b] EXCEPT !.status = to, !.accepting = FALSE, !.lease = "none"]
  <2>1. /\ r \in BatchRecord /\ r.status = to /\ ~r.accepting /\ r.lease = "none"
        /\ r.total = batches[b].total /\ r.count = batches[b].count
    <3>1. batches[b] \in BatchRecord
      BY MeteredParts
    <3>2. to \in Final
      OBVIOUS
    <3> QED BY <3>1, <3>2 DEF BatchRecord
  <2>2. batches' = [batches EXCEPT ![b] = r]
    OBVIOUS
  <2> HIDE DEF r
  <2>3. batches \in [Batch -> BatchRecord]
    BY MeteredParts DEF MeteredTyped
  <2>4. /\ batches' \in [Batch -> BatchRecord]
        /\ \A c \in Batch : batches'[c] = IF c = b THEN r ELSE batches[c]
    <3> DEFINE g == [batches EXCEPT ![b] = r]
    <3>1. g \in [Batch -> BatchRecord] /\ \A c \in Batch : g[c] = IF c = b THEN r ELSE batches[c]
      BY <2>1, <2>3, EntryWritten
    <3>2. batches' = g
      BY <2>2
    <3> HIDE DEF g
    <3> QED BY <3>1, <3>2, Zenon
  <2> QED BY <2>1, <2>4
<1>7. settler' \in [Settler -> SettlerRecord] /\ SettlerFacts'
  <2>1. \A c \in Batch : batches[c].status # "none" => batches'[c].status # "none"
    BY <1>6 DEF Final
  <2> QED BY <2>1, SettlersStay
<1>8. \A c \in Batch : Members(c)' = Members(c)
  BY <1>4 DEF Members
<1> HIDE DEF M, U, S
<1>9. ASSUME NEW c \in Batch PROVE BatchFacts(c)'
  <2>1. BatchFacts(c) /\ Members(c)' = Members(c) /\ Members(c) \subseteq Event
    BY <1>8 DEF MeteredInv, Members
  <2>2. CASE c = b
    <3>1. \A e \in M : usage'[e].status = Settling(to)
      BY <1>2, <1>4
    <3>2. to # "none" /\ to \notin Open /\ batches[b].status # "none"
      BY DEF Final, Open
    <3>3. Members(b) = M /\ Members(b)' = M /\ M # {}
      BY <2>1, <2>2, <3>2 DEF M, BatchFacts
    <3>4. /\ batches'[b].total = CostOf(M) /\ batches'[b].count = Cardinality(M)
          /\ batches'[b].total <= MaxBatch /\ batches'[b].count <= MaxBatchEvents
      BY <1>6, <2>1, <2>2, <3>3 DEF BatchFacts
    <3> QED BY <1>6, <2>2, <3>1, <3>2, <3>3, <3>4 DEF BatchFacts
  <2>3. CASE c # b
    <3>1. \A e \in Members(c) : usage'[e] = usage[e]
      <4>1. \A e \in Members(c) : e \notin M
        BY <2>3 DEF Members, M
      <4> QED BY <1>1, <2>1, <4>1
    <3>2. batches'[c] = batches[c]
      BY <1>6, <2>3
    <3>3. provider'[c] = provider[c]
      OBVIOUS
    <3>4. /\ batches'[c].status = "none" <=> Members(c)' = {}
          /\ batches'[c].total = CostOf(Members(c)') /\ batches'[c].count = Cardinality(Members(c)')
          /\ batches'[c].total <= MaxBatch /\ batches'[c].count <= MaxBatchEvents
      BY <2>1, <3>2 DEF BatchFacts
    <3>5. /\ batches'[c].status \in Open => \A e \in Members(c)' : usage'[e].status \in Unsettled
          /\ batches'[c].status \in Final =>
               \A e \in Members(c)' : usage'[e].status = Settling(batches'[c].status)
      <4>1. /\ batches[c].status \in Open => \A e \in Members(c) : usage[e].status \in Unsettled
            /\ batches[c].status \in Final =>
                 \A e \in Members(c) : usage[e].status = Settling(batches[c].status)
        BY <2>1 DEF BatchFacts
      <4>2. \A e \in Members(c)' : e \in Members(c) /\ usage'[e] = usage[e]
        BY <2>1, <3>1
      <4> QED BY <3>2, <4>1, <4>2
    <3>6. /\ batches'[c].accepting => batches'[c].status = "collecting"
          /\ batches'[c].lease # "none" => batches'[c].status \in Open /\ ~batches'[c].accepting
          /\ batches'[c].status = "succeeded" => provider'[c] = "succeeded"
      BY <2>1, <3>2, <3>3 DEF BatchFacts
    <3> QED BY <3>4, <3>5, <3>6 DEF BatchFacts
  <2> QED BY <2>2, <2>3
<1>10. \A c, d \in Accepting' : c = d
  <2>1. Accepting' \subseteq Accepting
    BY <1>6 DEF Accepting
  <2> QED BY <2>1 DEF MeteredInv
<1>11. GrantMatchesEvents'
  <2>1. EventsIn(Unsettled)' = U \ M
    BY <1>1, <1>2, <1>3, <1>4 DEF EventsIn, U, Unsettled
  <2>2. EventsIn({"settled"})' = IF to = "succeeded" THEN S \cup M ELSE S
    BY <1>1, <1>2, <1>3, <1>4 DEF EventsIn, S
  <2>3. CostOf(S \cup M) = CostOf(S) + CostOf(M)
    BY <1>2, CostUnion
  <2>4. grant.spent = CostOf(S) /\ grant.reserved + grant.spent <= GrantLimit
    BY DEF MeteredInv, GrantMatchesEvents, S
  <2>5. /\ grant'.reserved = CostOf(EventsIn(Unsettled)')
        /\ grant'.spent = CostOf(EventsIn({"settled"})')
    BY <1>1, <2>1, <2>2, <2>3, <2>4 DEF M
  <2>6. grant'.reserved + grant'.spent <= GrantLimit
    BY <1>1, <2>4, GrantAmounts, BatchTyped DEF M
  <2> QED BY <2>5, <2>6 DEF GrantMatchesEvents
<1>12. MeteredTyped'
  BY <1>5, <1>6, <1>7, MeteredParts DEF MeteredTyped
<1>13. MeteredTypeOK'
  BY <1>10, <1>12, AtMostOne DEF MeteredTyped, MeteredTypeOK
<1>14. \A e \in Event : usage'[e].status = "none" <=> usage'[e].batch = 0
  <2>1. \A e \in M : usage[e].status # "none"
    BY <1>1 DEF U, EventsIn, Unsettled
  <2> QED BY <1>3, <1>4, <2>1 DEF MeteredInv
<1>15. \A c \in revoking'.todo : batches'[c].status # "none"
  <2>1. revoking'.todo \in SUBSET Batch
    OBVIOUS
  <2> QED BY <1>6, <2>1 DEF MeteredInv, Final
<1> QED BY <1>7, <1>9, <1>10, <1>11, <1>13, <1>14, <1>15 DEF MeteredInv

\* Releasing a batch gives back the events that are still unsettled, once.
LEMMA ReleaseMoves ==
  ASSUME MeteredInv, GrantCovers, NEW b \in Batch, NEW to \in {"released", "failed"},
         batches[b].status # "none", ReleasedBatch(b, to), UNCHANGED <<inWindow, provider>>,
         UNCHANGED settler \/ \E w \in Settler : SettlerPlaced(w),
         revoking' \in [at: {"idle", "list", "release"}, todo: SUBSET Batch],
         revoking'.todo \subseteq revoking.todo
  PROVE  GrantMoves
<1>1. CASE batches[b].status \in Final
  <2>1. UNCHANGED <<batches, usage, grant, purse>>
    BY <1>1 DEF ReleasedBatch
  <2>2. settler' \in [Settler -> SettlerRecord] /\ SettlerFacts'
    BY <2>1, SettlersStay
  <2>3. MeteredTyped'
    BY <2>1, <2>2, MeteredParts DEF MeteredTyped
  <2>4. \A c \in revoking'.todo : batches[c].status # "none"
    BY DEF MeteredInv
  <2>5. MeteredInv'
    BY <2>1, <2>2, <2>3, <2>4, MeteredKept DEF StaysOpen
  <2> QED BY <2>1, <2>5, QuietGrant DEF MeteredQuiet
<1>2. CASE batches[b].status \notin Final
  <2> DEFINE c == CostOf(UnsettledOf(b))
  <2>1. batches[b].status \in Open
    BY <1>2, MeteredParts DEF BatchRecord
  <2>2. /\ c = CostOf(Members(b)) /\ c \in Nat /\ c <= grant.reserved
    BY <2>1, OpenBatch
  <2>3. /\ usage' = [e \in Event |-> IF e \in UnsettledOf(b) THEN [usage[e] EXCEPT !.status = to]
                                                            ELSE usage[e]]
        /\ grant' = [grant EXCEPT !.reserved = @ - c]
        /\ purse' = Returned(c)
        /\ batches' = [batches EXCEPT ![b].status = to, ![b].accepting = FALSE,
                                      ![b].lease = "none"]
    BY <1>2 DEF ReleasedBatch
  <2> HIDE DEF c
  <2>4. /\ grant' \in GrantRecord /\ grant'.reserved = grant.reserved - c
        /\ grant'.spent = grant.spent
    <3>1. grant \in GrantRecord /\ grant.reserved - c \in Nat
      BY <2>2, GrantAmounts, MeteredParts DEF MeteredTyped
    <3> QED BY <2>3, <3>1 DEF GrantRecord
  <2>5. to \in Final /\ to # "succeeded" /\ Settling(to) = to
    BY DEF Final, Settling
  <2>6. MeteredInv'
    BY <2>1, <2>2, <2>3, <2>4, <2>5, BatchEnds
  <2>7. purse.reserved >= c /\ purse.reserved \in Nat /\ purse.spent \in Nat /\ PassLimit \in Nat
    BY <2>2, GrantAmounts DEF GrantCovers
  <2>8. /\ purse' \in PurseRecord /\ purse'.reserved = purse.reserved - c
        /\ purse'.spent = purse.spent
    BY <2>2, <2>3, <2>7, PurseMoves DEF GrantCovers
  <2> QED BY <2>2, <2>4, <2>6, <2>7, <2>8, GrantAmounts DEF GrantMoves, GrantCovers
<1> QED BY <1>1, <1>2

\* finalizeMeteredBatch debits a batch only while all of its events are unsettled.
LEMMA FinalizeBatchMoves ==
  ASSUME MeteredInv, GrantCovers, NEW w \in Settler, FinalizeBatch(w)
  PROVE  GrantMoves
<1>a. PICK b \in Batch : b = settler[w].b
  BY MeteredParts
<1> DEFINE M == Members(b)
           c == CostOf(M)
           spentOut == grant.spent + c >= GrantLimit /\ grant.status = "active"
<1>b. /\ batches[b].status \notin {"none", "succeeded"} /\ provider[b] = "succeeded"
      /\ Complete(b)
  BY <1>a DEF FinalizeBatch, MeteredInv, SettlerFacts
<1>1. batches[b].status \in Open
  <2> SUFFICES ASSUME batches[b].status \in Final PROVE FALSE
    BY <1>b, MeteredParts DEF BatchRecord
  <2>1. UnsettledOf(b) = {}
    <3>1. Settling(batches[b].status) \notin Unsettled
      BY DEF Final, Settling, Unsettled
    <3>2. \A e \in Members(b) : usage[e].status = Settling(batches[b].status)
      BY DEF MeteredInv, BatchFacts
    <3> QED BY <3>1, <3>2 DEF UnsettledOf, Members
  <2>2. batches[b].total = 0
    BY <1>b, <2>1, CostNone DEF Complete
  <2>3. M \in SUBSET Event /\ M # {} /\ batches[b].total = CostOf(M)
    BY <1>b DEF MeteredInv, BatchFacts, Members
  <2> QED BY <2>2, <2>3, CostSome
<1>2. UnsettledOf(b) = M /\ batches[b].total = c /\ c \in Nat /\ c <= grant.reserved
  BY <1>1, OpenBatch
<1>3. /\ usage' = [e \in Event |-> IF e \in UnsettledOf(b)
                                   THEN [usage[e] EXCEPT !.status = "settled"] ELSE usage[e]]
      /\ grant' = [status |-> IF spentOut THEN "depleted" ELSE grant.status,
                   reserved |-> grant.reserved - c, spent |-> grant.spent + c]
      /\ purse' = [Debited(c) EXCEPT
                     !.status = IF purse.spent + c >= PassLimit THEN "expired" ELSE @]
      /\ batches' = [batches EXCEPT ![b].status = "succeeded", ![b].accepting = FALSE,
                                    ![b].lease = "none"]
      /\ SettlerDone(w)
      /\ UNCHANGED <<inWindow, provider, revoking>>
  BY <1>a, <1>2 DEF FinalizeBatch
<1> HIDE DEF c
<1>4. /\ grant' \in GrantRecord /\ grant'.reserved = grant.reserved - c
      /\ grant'.spent = grant.spent + c
  <2>1. grant \in GrantRecord /\ grant.reserved - c \in Nat /\ grant.spent + c \in Nat
    BY <1>2, GrantAmounts, MeteredParts DEF MeteredTyped
  <2>2. PICK m \in Nat, k \in Nat : m = grant.reserved - c /\ k = grant.spent + c
    BY <2>1
  <2> DEFINE st == IF spentOut THEN "depleted" ELSE grant.status
  <2>3. st \in {"none", "active", "revoked", "depleted"}
    BY <2>1 DEF GrantRecord
  <2> HIDE DEF st
  <2>4. grant' = [status |-> st, reserved |-> m, spent |-> k]
    BY <1>3, <2>2 DEF st
  <2> QED BY <2>2, <2>3, <2>4 DEF GrantRecord
<1>5. "succeeded" \in Final /\ Settling("succeeded") = "settled"
  BY DEF Final, Settling
<1>6. SettlerPlaced(w)
  BY <1>3, SettlerStops
<1>7. /\ revoking' \in [at: {"idle", "list", "release"}, todo: SUBSET Batch]
      /\ revoking'.todo \subseteq revoking.todo
  BY <1>3, MeteredParts DEF MeteredTyped
<1>8. MeteredInv'
  <2>1. usage' = [e \in Event |-> IF e \in UnsettledOf(b)
                                  THEN [usage[e] EXCEPT !.status = Settling("succeeded")]
                                  ELSE usage[e]]
    BY <1>3, <1>5
  <2>2. /\ grant'.reserved = grant.reserved - CostOf(M)
        /\ grant'.spent = IF "succeeded" = "succeeded" THEN grant.spent + CostOf(M) ELSE grant.spent
    BY <1>4 DEF c
  <2>3. UNCHANGED settler \/ \E v \in Settler : SettlerPlaced(v)
    BY <1>6
  <2>4. UNCHANGED <<inWindow, provider>>
    BY <1>3
  <2> QED BY <1>b, <1>1, <1>3, <1>4, <1>5, <1>7, <2>1, <2>2, <2>3, <2>4, BatchEnds
<1>9. purse.reserved >= c /\ purse.reserved \in Nat /\ purse.spent \in Nat /\ PassLimit \in Nat
  BY <1>2, GrantAmounts DEF GrantCovers
<1>10. /\ purse' \in PurseRecord /\ purse'.reserved = purse.reserved - c
       /\ purse'.spent = purse.spent + c
  <2> DEFINE d == Debited(c)
  <2>1. d \in PurseRecord /\ d.reserved = purse.reserved - c /\ d.spent = purse.spent + c
    BY <1>2, <1>9, PurseMoves DEF GrantCovers
  <2> HIDE DEF d
  <2>2. purse' = [d EXCEPT !.status = "expired"] \/ purse' = d
    <3>1. \/ purse' = [d EXCEPT !.status = "expired"]
          \/ purse' = [d EXCEPT !.status = @]
      BY <1>3 DEF d
    <3>2. [d EXCEPT !.status = @] = d
      BY <2>1 DEF PurseRecord
    <3> QED BY <3>1, <3>2
  <2>3. "expired" \in PassStatus
    BY MeteredAssumption
  <2> QED BY <2>1, <2>2, <2>3 DEF PurseRecord
<1> QED BY <1>2, <1>4, <1>8, <1>9, <1>10, GrantAmounts DEF GrantMoves, GrantCovers

\* While an event is not accepted there is a batch that does not exist: each batch that
\* does has an event.
LEMMA NewBatchFree ==
  ASSUME MeteredInv, NEW e \in Event, usage[e].batch = 0
  PROVE  NewBatch \in Batch /\ batches[NewBatch].status = "none"
<1> DEFINE F == {b \in Batch : batches[b].status = "none"}
           U == {x \in Event : usage[x].batch # 0}
           f == [x \in U |-> usage[x].batch]
<1>1. F # {}
  <2> SUFFICES ASSUME F = {} PROVE FALSE
    OBVIOUS
  <2>1. \A b \in Batch : Members(b) # {}
    BY DEF MeteredInv, BatchFacts
  <2>2. \A x \in U : usage[x].batch \in Batch
    BY MeteredParts DEF EventRecord
  <2>3. \A b \in Batch : \E x \in U : usage[x].batch = b
    BY <2>1, BatchTyped DEF Members
  <2>4. f \in Surjection(U, Batch)
    BY <2>2, <2>3 DEF Surjection
  <2>5. IsFiniteSet(Event \ {e}) /\ Cardinality(Event \ {e}) = Cardinality(Event) - 1
    BY MeteredAssumption, FS_RemoveElement
  <2>6. U \in SUBSET (Event \ {e})
    OBVIOUS
  <2> HIDE DEF U, f
  <2>7. IsFiniteSet(U) /\ Cardinality(U) <= Cardinality(Event) - 1 /\ Cardinality(U) \in Nat
    BY <2>5, <2>6, FS_Subset, FS_CardinalityType
  <2>8. Cardinality(Batch) <= Cardinality(U)
    BY <2>4, <2>7, FS_Surjection
  <2>9. Cardinality(Event) \in Nat /\ Cardinality(Batch) = Cardinality(Event)
    BY MeteredAssumption, FS_CardinalityType, BatchTyped
  <2> QED BY <2>7, <2>8, <2>9
<1>2. F \in SUBSET Nat
  BY BatchTyped
<1>3. Min(F) \in F
  <2> HIDE DEF F
  <2> QED BY <1>1, <1>2, MinLeast
<1> QED BY <1>3 DEF NewBatch

\* A batch to which an event of cost c was added.
LEMMA AddedTyped ==
  ASSUME NEW y \in BatchRecord, NEW c \in Nat
  PROVE  LET z == Added(y, c)
         IN /\ z \in BatchRecord /\ z.total = y.total + c /\ z.count = y.count + 1
            /\ z.lease = y.lease /\ z.status \in Open
            /\ z.accepting => z.status = "collecting" /\ ~(c >= Threshold)
<1> DEFINE full == \/ y.total + c >= Threshold \/ y.total + c >= MaxBatch
                   \/ y.count + 1 >= MaxBatchEvents
<1>1. y.total \in Nat /\ y.count \in Nat /\ Threshold \in Nat
  BY MeteredAssumption DEF BatchRecord
<1>2. PICK t \in Nat, k \in Nat : t = y.total + c /\ k = y.count + 1
  BY <1>1
<1>3. c >= Threshold => full
  BY <1>1
<1>4. Added(y, c) = [y EXCEPT !.total = t, !.count = k, !.accepting = ~full,
                       !.status = IF full THEN "queued" ELSE "collecting"]
  BY <1>2 DEF Added
<1>5. full \in BOOLEAN
  OBVIOUS
<1> HIDE DEF full
<1>6. CASE full
  <2>1. Added(y, c) = [y EXCEPT !.total = t, !.count = k, !.accepting = FALSE, !.status = "queued"]
    BY <1>4, <1>6
  <2> QED BY <1>2, <2>1 DEF BatchRecord, Open
<1>7. CASE ~full
  <2>1. Added(y, c) = [y EXCEPT !.total = t, !.count = k, !.accepting = TRUE,
                         !.status = "collecting"]
    BY <1>4, <1>7
  <2> QED BY <1>2, <1>3, <1>7, <2>1 DEF BatchRecord, Open
<1> QED BY <1>6, <1>7

\* The batch that an event goes into has room for it, and it alone may still accept.
LEMMA AcceptPlaces ==
  ASSUME MeteredInv, NEW e \in Event, AcceptUsageEvent(e)
  PROVE  \E b \in Batch :
           /\ usage' = [usage EXCEPT ![e] = [status |-> "reserved", batch |-> b]]
           /\ batches' \in [Batch -> BatchRecord]
           /\ batches'[b] = Added(batches[b], Cost[e])
           /\ batches[b].status \in {"none", "collecting"} /\ batches[b].lease = "none"
           /\ batches[b].total + Cost[e] <= MaxBatch /\ batches[b].count + 1 <= MaxBatchEvents
           /\ \A x \in Batch \ {b} :
                /\ StaysOpen(x)
                /\ batches'[x].accepting => batches[x].accepting /\ Cost[e] >= Threshold
<1> DEFINE c == Cost[e]
           J == {x \in Accepting : c < Threshold /\ ~Overfull(x, c)}
           q == [x \in Batch |-> IF x \in Accepting /\ c < Threshold /\ x \notin J
                                 THEN [batches[x] EXCEPT !.accepting = FALSE, !.status = "queued"]
                                 ELSE batches[x]]
           b == IF J # {} THEN CHOOSE x \in J : TRUE ELSE NewBatch
<1>1. /\ usage[e].status = "none" /\ c <= MaxPerEvent
      /\ batches' = [q EXCEPT ![b] = Added(q[b], c)]
      /\ usage' = [usage EXCEPT ![e] = [status |-> "reserved", batch |-> b]]
  BY DEF AcceptUsageEvent, Admits
<1>2. usage[e].batch = 0
  BY <1>1 DEF MeteredInv
<1>3. /\ c \in Nat /\ Threshold \in Nat /\ MaxBatch \in Nat /\ MaxBatchEvents \in Nat
      /\ MaxBatchEvents >= 1 /\ MaxPerEvent \in Nat /\ MaxPerEvent <= MaxBatch
  BY CostOne, BatchTyped, MeteredAssumption
<1>4. ASSUME NEW x \in Batch
      PROVE  /\ batches[x] \in BatchRecord /\ BatchFacts(x)
             /\ batches[x].total \in Nat /\ batches[x].count \in Nat
             /\ x \in Accepting <=> batches[x].accepting
  BY MeteredParts DEF MeteredInv, BatchRecord, Accepting
<1>5. ASSUME NEW x \in Batch
      PROVE  /\ q[x] \in BatchRecord
             /\ \/ q[x] = batches[x]
                \/ /\ batches[x].status = "collecting" /\ q[x].status = "queued"
                   /\ ~q[x].accepting
                   /\ q[x].total = batches[x].total /\ q[x].count = batches[x].count
             /\ q[x].accepting => batches[x].accepting /\ (c >= Threshold \/ x \in J)
             /\ x \notin Accepting \/ x \in J => q[x] = batches[x]
  <2>1. CASE x \in Accepting /\ c < Threshold /\ x \notin J
    <3>1. q[x] = [batches[x] EXCEPT !.accepting = FALSE, !.status = "queued"]
      BY <2>1
    <3>2. batches[x].status = "collecting"
      BY <1>4, <2>1 DEF BatchFacts
    <3> HIDE DEF q, J
    <3>3. /\ q[x] \in BatchRecord /\ q[x].status = "queued" /\ q[x].accepting = FALSE
          /\ q[x].total = batches[x].total /\ q[x].count = batches[x].count
      <4>1. batches[x] \in BatchRecord
        BY <1>4
      <4> QED BY <3>1, <4>1 DEF BatchRecord, Open
    <3> QED BY <2>1, <3>2, <3>3
  <2>2. CASE ~(x \in Accepting /\ c < Threshold /\ x \notin J)
    <3>1. q[x] = batches[x]
      BY <2>2
    <3> HIDE DEF q, J
    <3> QED BY <1>3, <1>4, <2>2, <3>1
  <2> QED BY <2>1, <2>2
<1>6. /\ b \in Batch /\ q[b] = batches[b]
      /\ batches[b].status \in {"none", "collecting"} /\ batches[b].lease = "none"
      /\ batches[b].total + c <= MaxBatch /\ batches[b].count + 1 <= MaxBatchEvents
      /\ \A x \in J : x = b
  <2>1. CASE J # {}
    <3>1. b \in J /\ b \in Batch /\ b \in Accepting
      BY <2>1 DEF Accepting
    <3>2. ~Overfull(b, c) /\ q[b] = batches[b]
      BY <1>5, <3>1
    <3>3. batches[b].status = "collecting" /\ batches[b].lease = "none"
      BY <1>4, <3>1 DEF BatchFacts
    <3>4. \A x \in J : x = b
      BY <3>1 DEF MeteredInv
    <3> HIDE DEF b, q, J
    <3> QED BY <1>3, <1>4, <3>1, <3>2, <3>3, <3>4 DEF Overfull
  <2>2. CASE J = {}
    <3>1. b = NewBatch
      BY <2>2
    <3>2. b \in Batch /\ batches[b].status = "none"
      BY <1>2, <3>1, NewBatchFree
    <3> HIDE DEF b, q, J
    <3>3. Members(b) = {} /\ ~batches[b].accepting /\ batches[b].lease = "none"
      BY <1>4, <3>2 DEF BatchFacts, Open
    <3>4. batches[b].total = 0 /\ batches[b].count = 0
      BY <1>4, <3>2, <3>3, CostNone DEF BatchFacts
    <3>5. q[b] = batches[b]
      BY <1>4, <1>5, <3>2, <3>3
    <3> QED BY <1>1, <1>3, <2>2, <3>2, <3>3, <3>4, <3>5
  <2> QED BY <2>1, <2>2
<1> HIDE DEF q, J, b
<1>7. q \in [Batch -> BatchRecord]
  BY <1>5 DEF q
<1>8. Added(q[b], c) \in BatchRecord
  BY <1>3, <1>5, <1>6, AddedTyped
<1>9. /\ batches' \in [Batch -> BatchRecord]
      /\ \A x \in Batch : batches'[x] = IF x = b THEN Added(q[b], c) ELSE q[x]
  <2> DEFINE g == [q EXCEPT ![b] = Added(q[b], c)]
  <2>1. /\ g \in [Batch -> BatchRecord]
        /\ \A x \in Batch : g[x] = IF x = b THEN Added(q[b], c) ELSE q[x]
    BY <1>6, <1>7, <1>8, EntryWritten
  <2>2. batches' = g
    BY <1>1
  <2> HIDE DEF g
  <2> QED BY <2>1, <2>2, Zenon
<1>10. ASSUME NEW x \in Batch \ {b}
       PROVE  /\ StaysOpen(x)
              /\ batches'[x].accepting => batches[x].accepting /\ c >= Threshold
  <2>1. batches'[x] = q[x] /\ x \notin J
    BY <1>6, <1>9
  <2> QED BY <1>5, <2>1 DEF StaysOpen, Open
<1> QED BY <1>1, <1>6, <1>9, <1>10

\* Accepting an event holds its cost on grant and pass, in a batch that has room.
LEMMA AcceptMoves ==
  ASSUME MeteredInv, GrantCovers, NEW e \in Event, AcceptUsageEvent(e)
  PROVE  GrantMoves
<1> DEFINE c == Cost[e]
           U == EventsIn(Unsettled)
<1>1. PICK b \in Batch :
        /\ usage' = [usage EXCEPT ![e] = [status |-> "reserved", batch |-> b]]
        /\ batches' \in [Batch -> BatchRecord]
        /\ batches'[b] = Added(batches[b], c)
        /\ batches[b].status \in {"none", "collecting"} /\ batches[b].lease = "none"
        /\ batches[b].total + c <= MaxBatch /\ batches[b].count + 1 <= MaxBatchEvents
        /\ \A x \in Batch \ {b} :
             /\ StaysOpen(x)
             /\ batches'[x].accepting => batches[x].accepting /\ c >= Threshold
  BY AcceptPlaces
<1>2. /\ usage[e].status = "none" /\ usage[e].batch = 0 /\ Room(c) /\ inWindow < RateLimit
      /\ c <= GrantRemaining /\ inWindow' = inWindow + 1
      /\ grant' = [grant EXCEPT !.reserved = @ + c] /\ purse' = Held(c)
      /\ UNCHANGED <<provider, settler, revoking>>
  BY DEF AcceptUsageEvent, Admits, MeteredInv
<1>3. c \in Nat /\ CostOf({e}) = c /\ Cardinality({e}) = 1 /\ GrantLimit \in Nat
  BY CostOne, BatchTyped
<1> HIDE DEF c
<1>4. /\ grant' \in GrantRecord /\ grant'.reserved = grant.reserved + c
      /\ grant'.spent = grant.spent
  <2>1. grant \in GrantRecord /\ grant.reserved + c \in Nat
    BY <1>3, GrantAmounts, MeteredParts DEF MeteredTyped
  <2> QED BY <1>2, <2>1 DEF GrantRecord
<1>5. /\ usage' \in [Event -> EventRecord]
      /\ usage'[e].status = "reserved" /\ usage'[e].batch = b
      /\ \A x \in Event \ {e} : usage'[x] = usage[x]
  <2>1. usage \in [Event -> EventRecord]
    BY MeteredParts DEF MeteredTyped
  <2>2. [status |-> "reserved", batch |-> b] \in EventRecord
    BY DEF EventRecord, Unsettled
  <2> QED BY <1>1, <2>1, <2>2
<1>6. ASSUME NEW x \in Batch
      PROVE  Members(x)' = IF x = b THEN Members(x) \cup {e} ELSE Members(x)
  <2>1. x # 0
    BY BatchTyped
  <2> QED BY <1>2, <1>5, <2>1 DEF Members
<1>7. LET z == batches'[b]
      IN /\ z \in BatchRecord /\ z.total = batches[b].total + c /\ z.count = batches[b].count + 1
         /\ z.lease = "none" /\ z.status \in Open
         /\ z.accepting => z.status = "collecting" /\ ~(c >= Threshold)
  <2>1. batches[b] \in BatchRecord
    BY MeteredParts
  <2> QED BY <1>1, <1>3, <2>1, AddedTyped
<1>8. BatchFacts(b)'
  <2>1. BatchFacts(b) /\ Members(b) \in SUBSET Event /\ e \notin Members(b)
    BY <1>2, BatchTyped DEF MeteredInv, Members
  <2>2. Members(b)' = Members(b) \cup {e} /\ Members(b) \cap {e} = {}
    BY <1>6, <2>1
  <2>3. /\ CostOf(Members(b) \cup {e}) = CostOf(Members(b)) + c
        /\ Cardinality(Members(b) \cup {e}) = Cardinality(Members(b)) + 1
    BY <1>3, <2>1, <2>2, CostUnion
  <2>4. /\ batches'[b].total = CostOf(Members(b)') /\ batches'[b].count = Cardinality(Members(b)')
        /\ batches'[b].total <= MaxBatch /\ batches'[b].count <= MaxBatchEvents
    BY <1>1, <1>7, <2>1, <2>2, <2>3 DEF BatchFacts
  <2>5. \A x \in Members(b)' : usage'[x].status \in Unsettled
    <3>1. \A x \in Members(b) : usage[x].status \in Unsettled
      BY <1>1, <2>1 DEF BatchFacts, Open
    <3> QED BY <1>5, <2>1, <2>2, <3>1 DEF Unsettled
  <2>6. batches'[b].status # "none" /\ batches'[b].status \notin Final /\ Members(b)' # {}
    BY <1>7, <2>2 DEF Open, Final
  <2> QED BY <1>7, <2>4, <2>5, <2>6 DEF BatchFacts, Final
<1>9. ASSUME NEW x \in Batch \ {b} PROVE BatchFacts(x)'
  <2>1. BatchFacts(x) /\ Members(x)' = Members(x) /\ StaysOpen(x)
    BY <1>1, <1>6 DEF MeteredInv
  <2>2. \A y \in Members(x) : usage'[y] = usage[y]
    BY <1>2, <1>5, BatchTyped DEF Members
  <2>3. CASE batches'[x] = batches[x]
    BY <1>2, <2>1, <2>2, <2>3 DEF BatchFacts, Settling
  <2>4. CASE /\ batches[x].status \in Open /\ batches'[x].status \in Open
             /\ ~batches'[x].accepting
    BY <2>1, <2>2, <2>4 DEF BatchFacts, StaysOpen, Open, Final
  <2> QED BY <2>1, <2>3, <2>4 DEF StaysOpen
<1>10. \A x, y \in Accepting' : x = y
  <2>1. \A x \in Accepting' : x \in Batch /\ batches'[x].accepting
    BY DEF Accepting
  <2>2. \A x \in Accepting' : x = b \/ (x \in Accepting /\ c >= Threshold)
    BY <1>1, <2>1 DEF Accepting
  <2>3. b \in Accepting' => ~(c >= Threshold)
    BY <1>7, <2>1
  <2> QED BY <2>2, <2>3 DEF MeteredInv
<1>11. GrantMatchesEvents'
  <2>1. EventsIn(Unsettled)' = U \cup {e} /\ U \cap {e} = {} /\ U \in SUBSET Event
    BY <1>2, <1>5 DEF EventsIn, Unsettled
  <2>2. EventsIn({"settled"})' = EventsIn({"settled"})
    BY <1>2, <1>5 DEF EventsIn
  <2>3. CostOf(U \cup {e}) = CostOf(U) + c
    BY <1>3, <2>1, CostUnion
  <2>4. /\ grant.reserved = CostOf(U) /\ grant.spent = CostOf(EventsIn({"settled"}))
        /\ grant.reserved + grant.spent <= GrantLimit
    BY DEF MeteredInv, GrantMatchesEvents
  <2>5. grant'.reserved + grant'.spent <= GrantLimit
    BY <1>2, <1>3, <1>4, GrantAmounts DEF GrantRemaining
  <2> HIDE DEF U
  <2> QED BY <1>4, <2>1, <2>2, <2>3, <2>4, <2>5 DEF GrantMatchesEvents
<1>12. \A x \in Batch : batches[x].status # "none" => batches'[x].status # "none"
  BY <1>1, <1>7 DEF StaysOpen, Open
<1>13. settler' \in [Settler -> SettlerRecord] /\ SettlerFacts'
  BY <1>2, <1>12, SettlersStay
<1>14. inWindow' \in 0..RateLimit
  <2>1. inWindow \in 0..RateLimit /\ RateLimit \in Nat
    BY MeteredParts, MeteredAssumption DEF MeteredTyped
  <2> QED BY <1>2, <2>1
<1>15. MeteredTyped'
  BY <1>1, <1>2, <1>4, <1>5, <1>13, <1>14, MeteredParts DEF MeteredTyped
<1>16. MeteredTypeOK'
  BY <1>10, <1>15, AtMostOne DEF MeteredTyped, MeteredTypeOK
<1>17. \A x \in Event : usage'[x].status = "none" <=> usage'[x].batch = 0
  BY <1>5, BatchTyped DEF MeteredInv
<1>18. \A x \in revoking'.todo : batches'[x].status # "none"
  BY <1>2, <1>12, MeteredParts DEF MeteredInv, MeteredTyped
<1>19. MeteredInv'
  <2>1. \A x \in Batch : BatchFacts(x)'
    BY <1>8, <1>9
  <2> QED BY <1>10, <1>11, <1>13, <1>16, <1>17, <1>18, <2>1 DEF MeteredInv
<1>20. /\ purse' \in PurseRecord /\ purse'.reserved = purse.reserved + c
       /\ purse'.spent = purse.spent
  BY <1>2, <1>3, PurseMoves DEF GrantCovers
<1> QED BY <1>2, <1>3, <1>4, <1>19, <1>20, GrantAmounts DEF GrantMoves, GrantCovers, Room

\* Every metered step keeps their invariant and moves the pass with the grant.
LEMMA MeteredSteps == ASSUME MeteredInv, GrantCovers, MeteredNext PROVE GrantMoves
<1>1. CASE CreateMeteredGrant \/ NewWindow \/ RevokeGrant \/ ListUnsubmitted
  <2>1. UNCHANGED purse
    BY <1>1 DEF CreateMeteredGrant, NewWindow, RevokeGrant, ListUnsubmitted, passVars
  <2> QED BY <1>1, <2>1, GrantQuiet, QuietGrant
<1>2. ASSUME NEW e \in Event, AcceptUsageEvent(e) PROVE GrantMoves
  BY <1>2, AcceptMoves
<1>3. ASSUME NEW b \in Batch, ReleaseListed(b) PROVE GrantMoves
  <2>1. revoking \in [at: {"idle", "list", "release"}, todo: SUBSET Batch]
    BY MeteredParts DEF MeteredTyped
  <2>2. revoking' = [revoking EXCEPT !.todo = @ \ {b}]
    BY <1>3 DEF ReleaseListed
  <2>3. /\ revoking' \in [at: {"idle", "list", "release"}, todo: SUBSET Batch]
        /\ revoking'.todo \subseteq revoking.todo
    BY <2>1, <2>2
  <2>4. batches[b].status # "none"
    BY <1>3 DEF ReleaseListed, MeteredInv
  <2> QED BY <1>3, <2>3, <2>4, ReleaseMoves DEF ReleaseListed
<1>4. ASSUME NEW w \in Settler,
             SettlerStep(w) \/ CrashSettler(w) \/ \E b \in Batch : ClaimBatch(w, b)
      PROVE  GrantMoves
  <2>1. CASE \/ CheckGrant(w) \/ LookUpBatch(w) \/ ResolveBatch(w) \/ StoreBatchRequest(w)
             \/ ReadBatchAnswer(w) \/ FinalizeBatchRefused(w) \/ CatchFailure(w)
             \/ CrashSettler(w)
    <3>1. UNCHANGED purse
      BY <2>1 DEF CheckGrant, LookUpBatch, ResolveBatch, StoreBatchRequest, ReadBatchAnswer,
                  FinalizeBatchRefused, CatchFailure, CrashSettler, passVars
    <3> QED BY <2>1, <3>1, SettlerReads, QuietGrant
  <2>2. CASE MarkBatchSubmitted(w) \/ RetryBatch(w) \/ \E b \in Batch : ClaimBatch(w, b)
    <3>1. UNCHANGED purse
      BY <2>2 DEF MarkBatchSubmitted, RetryBatch, ClaimBatch, passVars
    <3> QED BY <2>2, <3>1, SettlerWrites, QuietGrant
  <2>3. CASE MarkSettling(w)
    BY <2>3, MarkSettlingQuiet, QuietGrant DEF MarkSettling, passVars
  <2>4. CASE PayBatch(w)
    BY <2>4, ProviderQuiet, QuietGrant DEF PayBatch, passVars
  <2>5. CASE FinalizeBatch(w)
    BY <2>5, FinalizeBatchMoves
  <2>6. CASE ReleaseBatch(w)
    <3>1. /\ settler[w].b \in Batch /\ settler[w].to \in {"released", "failed"}
          /\ batches[settler[w].b].status # "none"
      BY <2>6, MeteredParts DEF ReleaseBatch, MeteredInv, SettlerFacts, SettlerRecord
    <3>2. SettlerPlaced(w)
      BY <2>6, SettlerStops DEF ReleaseBatch
    <3>3. /\ revoking' \in [at: {"idle", "list", "release"}, todo: SUBSET Batch]
          /\ revoking'.todo \subseteq revoking.todo
      BY <2>6, MeteredParts DEF ReleaseBatch, MeteredTyped
    <3> QED BY <2>6, <3>1, <3>2, <3>3, ReleaseMoves DEF ReleaseBatch
  <2> QED BY <1>4, <2>1, <2>2, <2>3, <2>4, <2>5, <2>6 DEF SettlerStep
<1>5. ASSUME NEW b \in Batch, SettleProviderPayment(b) PROVE GrantMoves
  BY <1>5, ProviderQuiet, QuietGrant DEF SettleProviderPayment, passVars
<1> QED BY <1>1, <1>2, <1>3, <1>4, <1>5 DEF MeteredNext

-----------------------------------------------------------------------------
(* The Minor counters.                                                     *)
\* The two sets tell the same.
SetsAgree == minor.reserved = purse.reserved /\ minor.spent = purse.spent

\* A step of a schedule or of the grant keeps them the same unless it starts a charge.
MinorKept ==
  /\ minor' \in MinorRecord
  /\ Unstarted' => Unstarted
  /\ Unstarted' /\ SetsAgree => SetsAgree'

\* What a step that starts no charge writes: the Atomic counters it has changed.
MinorFollows ==
  \/ UNCHANGED minor /\ purse'.reserved = purse.reserved /\ purse'.spent = purse.spent
  \/ WriteReserved /\ purse'.spent = purse.spent
  \/ WriteSpent
  \/ WriteAll

\* Then the sets still tell the same.
LEMMA FollowsKeeps ==
  ASSUME minor \in MinorRecord, purse' \in PurseRecord, MinorFollows, Unstarted' => Unstarted
  PROVE  MinorKept
<1>1. PICK r \in Nat, s \in Nat : r = purse'.reserved /\ s = purse'.spent
  BY DEF PurseRecord
<1>2. CASE UNCHANGED minor /\ purse'.reserved = purse.reserved /\ purse'.spent = purse.spent
  BY <1>2 DEF MinorKept, SetsAgree
<1>3. CASE WriteReserved /\ purse'.spent = purse.spent
  <2>1. minor' = [minor EXCEPT !.reserved = r]
    BY <1>1, <1>3 DEF WriteReserved
  <2>2. minor' \in MinorRecord /\ minor'.reserved = r /\ minor'.spent = minor.spent
    BY <2>1 DEF MinorRecord
  <2> QED BY <1>1, <1>3, <2>2 DEF MinorKept, SetsAgree
<1>4. CASE WriteSpent
  <2>1. minor' = [minor EXCEPT !.reserved = r, !.spent = s]
    BY <1>1, <1>4 DEF WriteSpent
  <2>2. minor' \in MinorRecord /\ minor'.reserved = r /\ minor'.spent = s
    BY <2>1 DEF MinorRecord
  <2> QED BY <1>1, <2>2 DEF MinorKept, SetsAgree
<1>5. CASE WriteAll
  <2>1. minor' = [limit |-> PassLimit, spent |-> s, reserved |-> r]
    BY <1>1, <1>5 DEF WriteAll
  <2>2. minor' \in MinorRecord /\ minor'.reserved = r /\ minor'.spent = s
    BY <2>1, CountersAssumption DEF MinorRecord
  <2> QED BY <1>1, <2>2 DEF MinorKept, SetsAgree
<1> QED BY <1>2, <1>3, <1>4, <1>5 DEF MinorFollows

\* A step that leaves the pass and the payments alone.
LEMMA PassLeft ==
  ASSUME minor \in MinorRecord, UNCHANGED <<passVars, payment>>
  PROVE  MinorKept
BY DEF MinorKept, SetsAgree, Unstarted, passVars

\* A payment that is pending or over was started, and none is forgotten.
LEMMA PaymentStarted ==
  ASSUME NEW s \in Schedule, NEW n \in Due, NEW p \in {"pending", "succeeded", "failed"},
         payment \in [Schedule -> [Due -> PaymentStatus]],
         payment' = [payment EXCEPT ![s][n] = p]
  PROVE  (Unstarted' => Unstarted) /\ (s \in Fiber => ~Unstarted')
<1>1. ASSUME NEW q \in Schedule, NEW m \in Due
      PROVE  payment'[q][m] = IF q = s /\ m = n THEN p ELSE payment[q][m]
  OBVIOUS
<1>2. \A q \in Fiber : q \in Schedule
  BY ScheduleAssumption
<1>3. s \in Fiber => ~Unstarted'
  <2>1. payment'[s][n] # "none"
    BY <1>1
  <2> QED BY <2>1 DEF Unstarted
<1>4. ASSUME s \notin Fiber PROVE Unstarted' => Unstarted
  BY <1>1, <1>2, <1>4 DEF Unstarted
<1> QED BY <1>3, <1>4

\* What a charge makes of the Minor counters.
LEMMA ChargeTyped ==
  ASSUME minor \in MinorRecord, NEW a \in Nat,
         ChargeReserves(a) \/ ChargeReleases(a) \/ ChargeFinalizes(a)
  PROVE  minor' \in MinorRecord
<1>1. minor.reserved \in Nat /\ minor.spent \in Nat /\ minor.limit \in Nat
  BY DEF MinorRecord
<1>2. \E r \in Nat : \/ minor' = [minor EXCEPT !.reserved = r]
                     \/ \E s \in Nat : minor' = [minor EXCEPT !.reserved = r, !.spent = s]
  <2>1. CASE ChargeReserves(a)
    <3>1. minor' = [minor EXCEPT !.reserved = minor.reserved + a] /\ minor.reserved + a \in Nat
      BY <1>1, <2>1 DEF ChargeReserves
    <3> QED BY <3>1
  <2>2. CASE ChargeReleases(a)
    <3>1. minor' = [minor EXCEPT !.reserved = minor.reserved - a] /\ minor.reserved - a \in Nat
      BY <1>1, <2>2 DEF ChargeReleases
    <3> QED BY <3>1
  <2>3. CASE ChargeFinalizes(a)
    <3>1. /\ minor' = [minor EXCEPT !.reserved = minor.reserved - a, !.spent = minor.spent + a]
          /\ minor.reserved - a \in Nat /\ minor.spent + a \in Nat
      BY <1>1, <2>3 DEF ChargeFinalizes
    <3> QED BY <3>1
  <2> QED BY <2>1, <2>2, <2>3
<1> QED BY <1>2 DEF MinorRecord

\* Blocking writes the reserve that it returns over both sets.
LEMMA BlockMinor ==
  ASSUME minor \in MinorRecord, purse' \in PurseRecord,
         NEW s \in Schedule, NEW n \in Due, BlockOccurrence(s, n), UNCHANGED payment
  PROVE  MinorKept
<1>1. Unstarted' <=> Unstarted
  BY DEF Unstarted
<1>2. Returned(Price).spent = purse.spent
  BY DEF Returned
<1>3. MinorFollows
  BY <1>2 DEF BlockOccurrence, MinorFollows
<1> QED BY <1>1, <1>3, FollowsKeeps

\* So does every step of a worker.
LEMMA SchedulerMinor ==
  ASSUME ScheduleInv, minor \in MinorRecord, purse' \in PurseRecord,
         NEW w \in Scheduler, SchedulerStep(w) \/ CrashScheduler(w)
  PROVE  MinorKept
<1>a. scheduler[w].s \in Schedule /\ scheduler[w].n \in Due
  BY ScheduleParts DEF SchedulerRecord
<1>1. CASE \/ ReadPass(w) \/ LookBeforeClosing(w) \/ CloseSchedule(w)
           \/ CompleteSchedule(w) \/ ClaimOccurrence(w) \/ LookUpPayment(w) \/ MarkUncertain(w)
  BY <1>1, PassLeft DEF ReadPass, LookBeforeClosing, CloseSchedule, CompleteSchedule,
                        ClaimOccurrence, LookUpPayment, MarkUncertain
<1>2. CASE \/ DepleteSchedule(w) \/ BlockDepleted(w) \/ ResolveRequest(w) \/ StoreRequest(w)
           \/ MarkSubmitted(w) \/ ReadAnswer(w) \/ FinalizeRefused(w) \/ MarkRetry(w)
           \/ StepFails(w) \/ CrashScheduler(w)
  BY <1>2, PassLeft DEF DepleteSchedule, BlockDepleted, ResolveRequest, StoreRequest,
                        MarkSubmitted, ReadAnswer, FinalizeRefused, MarkRetry, StepFails,
                        CrashScheduler
<1>3. CASE BlockBeforeClosing(w) \/ BlockFailed(w)
  BY <1>a, <1>3, BlockMinor DEF BlockBeforeClosing, BlockFailed
<1>4. CASE ReserveBudget(w)
  <2>1. Unstarted' <=> Unstarted
    BY <1>4 DEF ReserveBudget, Unstarted
  <2>2. UNCHANGED <<purse, minor>> \/ WriteAll
    BY <1>4, Zenon DEF ReserveBudget
  <2> QED BY <2>1, <2>2, FollowsKeeps DEF MinorFollows
<1>5. CASE Pay(w)
  <2>a. PICK s \in Schedule, n \in Due : s = scheduler[w].s /\ n = scheduler[w].n
    BY <1>a
  <2>b. UNCHANGED purse
    BY <1>5 DEF Pay
  <2>1. CASE UNCHANGED <<minor, payment>>
    BY <2>1, <2>b DEF MinorKept, SetsAgree, Unstarted
  <2>2. CASE /\ payment[s][n] = "none" /\ Start(s)
             /\ payment' = [payment EXCEPT ![s][n] = "pending"]
    <3>1. /\ Unstarted' => Unstarted
          /\ s \in Fiber => ~Unstarted'
      BY <2>2, ScheduleParts, PaymentStarted
    <3>2. CASE s \in Fiber
      BY <2>2, <3>1, <3>2, ChargeTyped, ScheduleAssumption DEF Start, MinorKept
    <3>3. CASE s \notin Fiber
      BY <2>2, <2>b, <3>1, <3>3 DEF Start, MinorKept, SetsAgree
    <3> QED BY <3>2, <3>3
  <2> QED BY <1>5, <2>a, <2>1, <2>2 DEF Pay
<1>6. CASE FinalizeSuccess(w)
  <2>1. Unstarted' <=> Unstarted
    BY <1>6 DEF FinalizeSuccess, Unstarted
  <2>2. UNCHANGED <<purse, minor>> \/ WriteSpent
    BY <1>6 DEF FinalizeSuccess
  <2> QED BY <2>1, <2>2, FollowsKeeps DEF MinorFollows
<1> QED BY <1>1, <1>2, <1>3, <1>4, <1>5, <1>6 DEF SchedulerStep

\* And of the owner and the executor.
LEMMA ScheduleMinor ==
  ASSUME ScheduleInv, minor \in MinorRecord, purse' \in PurseRecord, ScheduleNext
  PROVE  MinorKept
<1>1. CASE \/ \E s \in Schedule : CreatePaymentSchedule(s)
           \/ \E fits \in BOOLEAN : ConfigureDestination(fits)
           \/ \E s \in Schedule, to \in {"active", "paused", "revoked"} : LoadForControl(s, to)
           \/ SaveControl \/ ListReleasable
  BY <1>1, PassLeft DEF CreatePaymentSchedule, ConfigureDestination, LoadForControl, SaveControl,
                        ListReleasable
<1>2. ASSUME NEW n \in Due, BlockListed(n) PROVE MinorKept
  <2>1. request.s \in Schedule
    BY ScheduleParts DEF RequestRecord
  <2> QED BY <1>2, <2>1, BlockMinor DEF BlockListed
<1>3. ASSUME NEW w \in Scheduler, NEW s \in Schedule,
             ListDue(w, s) \/ \E n \in Due : ClaimInFlight(w, s, n)
      PROVE  MinorKept
  BY <1>3, PassLeft DEF ListDue, ClaimInFlight
<1>4. ASSUME NEW s \in Schedule, NEW n \in Due, SettlePayment(s, n) PROVE MinorKept
  <2>1. PICK p \in {"succeeded", "failed"} : payment' = [payment EXCEPT ![s][n] = p]
    BY <1>4 DEF SettlePayment
  <2>2. /\ Unstarted' => Unstarted
        /\ s \in Fiber => ~Unstarted'
    BY <2>1, ScheduleParts, PaymentStarted
  <2>3. CASE s \in Fiber
    BY <1>4, <2>2, <2>3, ChargeTyped, ScheduleAssumption DEF SettlePayment, MinorKept
  <2>4. CASE s \notin Fiber
    BY <1>4, <2>2, <2>4 DEF SettlePayment, MinorKept, SetsAgree
  <2> QED BY <2>3, <2>4
<1> QED BY <1>1, <1>2, <1>3, <1>4, SchedulerMinor DEF ScheduleNext, ControlStep

\* A batch that ends returns what it holds.
LEMMA ReleasedMinor ==
  ASSUME minor \in MinorRecord, purse' \in PurseRecord, NEW b, NEW to, ReleasedBatch(b, to),
         UNCHANGED payment
  PROVE  MinorKept
<1>1. Unstarted' <=> Unstarted
  BY DEF Unstarted
<1>2. \A a : Returned(a).spent = purse.spent
  BY DEF Returned
<1>3. UNCHANGED <<purse, minor>> \/ \E a : purse' = Returned(a) /\ WriteReserved
  BY DEF ReleasedBatch
<1> QED BY <1>1, <1>2, <1>3, FollowsKeeps DEF MinorFollows

\* The grant writes over both sets what it changes.
LEMMA MeteredMinor ==
  ASSUME minor \in MinorRecord, purse' \in PurseRecord, MeteredNext, UNCHANGED scheduleVars
  PROVE  MinorKept
<1>a. UNCHANGED payment
  BY DEF scheduleVars
<1>b. Unstarted' <=> Unstarted
  BY <1>a DEF Unstarted
<1>1. CASE CreateMeteredGrant \/ NewWindow \/ RevokeGrant \/ ListUnsubmitted
  BY <1>1, <1>a, PassLeft DEF CreateMeteredGrant, NewWindow, RevokeGrant, ListUnsubmitted
<1>2. ASSUME NEW e \in Event, AcceptUsageEvent(e) PROVE MinorKept
  <2>1. Held(Cost[e]).spent = purse.spent
    BY DEF Held
  <2>2. purse' = Held(Cost[e]) /\ WriteReserved
    BY <1>2 DEF AcceptUsageEvent
  <2> QED BY <1>b, <2>1, <2>2, FollowsKeeps DEF MinorFollows
<1>3. ASSUME NEW b \in Batch, ReleaseListed(b) PROVE MinorKept
  BY <1>3, <1>a, ReleasedMinor DEF ReleaseListed
<1>4. ASSUME NEW w \in Settler, NEW b \in Batch, ClaimBatch(w, b) PROVE MinorKept
  BY <1>4, <1>a, PassLeft DEF ClaimBatch
<1>5. ASSUME NEW b \in Batch, SettleProviderPayment(b) PROVE MinorKept
  BY <1>5, <1>a, PassLeft DEF SettleProviderPayment
<1>6. ASSUME NEW w \in Settler, SettlerStep(w) \/ CrashSettler(w) PROVE MinorKept
  <2>1. CASE \/ CheckGrant(w) \/ LookUpBatch(w) \/ ResolveBatch(w) \/ StoreBatchRequest(w)
             \/ MarkSettling(w) \/ MarkBatchSubmitted(w) \/ PayBatch(w) \/ ReadBatchAnswer(w)
    BY <2>1, <1>a, PassLeft DEF CheckGrant, LookUpBatch, ResolveBatch, StoreBatchRequest,
                                MarkSettling, MarkBatchSubmitted, PayBatch, ReadBatchAnswer
  <2>2. CASE FinalizeBatchRefused(w) \/ RetryBatch(w) \/ CatchFailure(w) \/ CrashSettler(w)
    BY <2>2, <1>a, PassLeft DEF FinalizeBatchRefused, RetryBatch, CatchFailure, CrashSettler
  <2>3. CASE FinalizeBatch(w)
    BY <2>3, <1>b, FollowsKeeps DEF FinalizeBatch, MinorFollows
  <2>4. CASE ReleaseBatch(w)
    BY <2>4, <1>a, ReleasedMinor DEF ReleaseBatch
  <2> QED BY <1>6, <2>1, <2>2, <2>3, <2>4 DEF SettlerStep
<1> QED BY <1>1, <1>2, <1>3, <1>4, <1>5, <1>6 DEF MeteredNext

\* Without a charge the sets go on telling the same.
LEMMA AgreementKept ==
  ASSUME CountersAgree, MinorKept, UNCHANGED charge
  PROVE  CountersAgree'
BY DEF CountersAgree, MinorKept, SetsAgree

-----------------------------------------------------------------------------
\* The inductive invariant of the spenders.
SpendersInv ==
  /\ purse \in PurseRecord /\ minor \in MinorRecord /\ charge \in ChargeStatus
  /\ ScheduleInv /\ MeteredInv
  /\ PassCountersMatch /\ CountersAgree

\* The pass covers the schedules and the grant; its counters are amounts.
LEMMA SpendersCover ==
  ASSUME SpendersInv
  PROVE  /\ PurseCovers /\ GrantCovers
         /\ purse.reserved \in Nat /\ purse.spent \in Nat /\ PassLimit \in Nat
         /\ ScheduleHolds \in Nat /\ ScheduleSpent \in Nat
         /\ grant.reserved \in Nat /\ grant.spent \in Nat
<1>1. purse.reserved \in Nat /\ purse.spent \in Nat /\ PassLimit \in Nat
  BY CountersAssumption DEF SpendersInv, PurseRecord
<1>2. /\ ScheduleHolds \in Nat /\ ScheduleSpent \in Nat
      /\ grant.reserved \in Nat /\ grant.spent \in Nat
  BY HoldsTyped, GrantAmounts DEF SpendersInv
<1>4. PurseCovers /\ GrantCovers
  BY <1>1, <1>2 DEF SpendersInv, PassCountersMatch, PurseCovers, GrantCovers
<1> QED BY <1>1, <1>2, <1>4

\* Initially nothing is held, spent or in flight.
LEMMA SpendersStart == SpendersInit => SpendersInv
<1> SUFFICES ASSUME SpendersInit PROVE SpendersInv
  OBVIOUS
<1>1. PurseInit /\ ScheduleInit /\ MeteredInit
  BY DEF SpendersInit
<1>2. /\ purse \in PurseRecord /\ minor \in MinorRecord /\ charge \in ChargeStatus
      /\ purse.reserved = 0 /\ purse.spent = 0 /\ PassLimit \in Nat
      /\ minor.reserved = 0 /\ minor.spent = 0
  BY <1>1, CountersAssumption DEF PurseInit, PurseRecord, MinorRecord, ChargeStatus
<1>3. 0 \in Due
  BY ScheduleAssumption DEF Due
<1>4. \A s \in Schedule, n \in Due : /\ occurrence[s][n].status = "absent"
                                     /\ occurrence[s][n].hold = "none" /\ payment[s][n] = "none"
  BY <1>1 DEF ScheduleInit
<1>5. Reserving = {} /\ Spent = {}
  BY <1>4 DEF Reserving, Spent
<1>6. ScheduleHolds = 0 /\ ScheduleSpent = 0
  <2>1. Price \in Nat /\ Cardinality({}) = 0 /\ Price * 0 = 0
    BY ScheduleAssumption, FS_EmptySet
  <2> QED BY <1>5, <2>1 DEF ScheduleHolds, ScheduleSpent
<1>7. ScheduleTypeOK
  <2>1. schedule \in [Schedule -> ScheduleRecord]
    BY <1>1, <1>3 DEF ScheduleInit, NoSchedule, ScheduleRecord
  <2>2. occurrence \in [Schedule -> [Due -> OccurrenceRecord]]
    BY <1>1 DEF ScheduleInit, OccurrenceRecord
  <2>3. payment \in [Schedule -> [Due -> PaymentStatus]] /\ destination \in DestinationRecord
    BY <1>1 DEF ScheduleInit, PaymentStatus, DestinationRecord
  <2>4. scheduler \in [Scheduler -> SchedulerRecord] /\ request \in RequestRecord
    BY <1>1, IdleScheduleTyped DEF ScheduleInit
  <2> QED BY <2>1, <2>2, <2>3, <2>4 DEF ScheduleTypeOK
<1>8. CountFollowsDebits
  <2> SUFFICES ASSUME NEW s \in Schedule \ Fiber
      PROVE  /\ schedule[s].count = Cardinality({n \in Due : <<s, n>> \in Spent})
             /\ \A n \in Due : n < schedule[s].next => <<s, n>> \in Spent
    BY DEF CountFollowsDebits
  <2>1. schedule[s].count = 0 /\ schedule[s].next = 0
    BY <1>1 DEF ScheduleInit, NoSchedule
  <2>2. {n \in Due : <<s, n>> \in Spent} = {}
    BY <1>5
  <2>3. Cardinality({}) = 0
    BY FS_EmptySet
  <2>4. \A n \in Due : ~ (n < 0)
    BY DEF Due
  <2> QED BY <2>1, <2>2, <2>3, <2>4
<1>9. ScheduleInv
  <2>1. \A w \in Scheduler : WorkerSound(scheduler[w])
    <3>1. IdleScheduler.at = "idle" /\ IdleScheduler.n = 0 /\ IdleScheduler.s \in Schedule
      BY IdleScheduleTyped DEF SchedulerRecord
    <3>2. \A s \in Schedule : schedule[s].next = 0
      BY <1>1 DEF ScheduleInit, NoSchedule
    <3>3. \A w \in Scheduler : scheduler[w] = IdleScheduler
      BY <1>1 DEF ScheduleInit
    <3> QED BY <3>1, <3>2, <3>3 DEF WorkerSound
  <2>2. RequestSound
    BY <1>1, IdleScheduleTyped DEF ScheduleInit, RequestSound
  <2> QED BY <1>4, <1>7, <1>8, <2>1, <2>2 DEF ScheduleInv, OccurrenceFacts
<1>10. MeteredTyped
  <2>1. grant \in GrantRecord /\ usage \in [Event -> EventRecord] /\ inWindow \in 0..RateLimit
    BY <1>1, MeteredAssumption DEF MeteredInit, GrantRecord, EventRecord
  <2>2. NoBatch \in BatchRecord
    BY BatchTyped DEF NoBatch, BatchRecord
  <2>3. /\ batches \in [Batch -> BatchRecord]
        /\ provider \in [Batch -> {"none", "pending", "succeeded", "failed"}]
        /\ settler \in [Settler -> SettlerRecord]
        /\ revoking \in [at: {"idle", "list", "release"}, todo: SUBSET Batch]
    BY <1>1, <2>2, IdleSettlerTyped DEF MeteredInit
  <2> QED BY <2>1, <2>3 DEF MeteredTyped
<1>11. \A x, y \in Accepting : x = y
  BY <1>1 DEF MeteredInit, Accepting, NoBatch
<1>12. MeteredTypeOK
  BY <1>10, <1>11, AtMostOne DEF MeteredTyped, MeteredTypeOK
<1>13. ASSUME NEW b \in Batch PROVE BatchFacts(b)
  <2>1. Members(b) = {}
    BY <1>1, BatchTyped DEF MeteredInit, Members
  <2>2. batches[b] = NoBatch
    BY <1>1 DEF MeteredInit
  <2>3. /\ batches[b].status = "none" /\ ~batches[b].accepting /\ batches[b].lease = "none"
        /\ batches[b].total = 0 /\ batches[b].count = 0
    BY <2>2 DEF NoBatch
  <2> QED BY <2>1, <2>3, CostNone, BatchTyped DEF BatchFacts, Open, Final
<1>14. /\ SettlerFacts
       /\ \A e \in Event : usage[e].status = "none" <=> usage[e].batch = 0
       /\ \A b \in revoking.todo : batches[b].status # "none"
  BY <1>1 DEF MeteredInit, SettlerFacts, IdleSettler
<1>15. GrantMatchesEvents /\ grant.reserved = 0 /\ grant.spent = 0
  <2>1. EventsIn(Unsettled) = {} /\ EventsIn({"settled"}) = {}
    BY <1>1 DEF MeteredInit, EventsIn, Unsettled
  <2>2. grant.reserved = 0 /\ grant.spent = 0
    BY <1>1 DEF MeteredInit
  <2> QED BY <2>1, <2>2, CostNone, BatchTyped DEF GrantMatchesEvents
<1>16. MeteredInv
  BY <1>11, <1>12, <1>13, <1>14, <1>15 DEF MeteredInv
<1>17. PassCountersMatch /\ CountersAgree
  BY <1>2, <1>6, <1>15 DEF PassCountersMatch, CountersAgree
<1> QED BY <1>2, <1>9, <1>16, <1>17 DEF SpendersInv

\* What nobody touches stays: the sums of the schedules, and the metered invariant.
LEMMA ScheduleStays ==
  ASSUME ScheduleInv, UNCHANGED scheduleVars
  PROVE  ScheduleInv' /\ ScheduleHolds' = ScheduleHolds /\ ScheduleSpent' = ScheduleSpent
<1>1. UNCHANGED <<schedule, occurrence, payment, destination, scheduler, request>>
  BY DEF scheduleVars
<1>2. ScheduleHolds' = ScheduleHolds /\ ScheduleSpent' = ScheduleSpent
  BY <1>1, SumsKept
<1>3. Spent' = Spent
  BY <1>1 DEF Spent
<1>4. ScheduleInv'
  <2>1. ScheduleTypeOK' /\ OccurrenceFacts'
    BY <1>1 DEF ScheduleInv, ScheduleTypeOK, OccurrenceFacts
  <2>2. CountFollowsDebits' /\ RequestSound'
    BY <1>1, <1>3 DEF ScheduleInv, CountFollowsDebits, RequestSound
  <2>3. \A w \in Scheduler : WorkerSound(scheduler[w])'
    BY <1>1 DEF ScheduleInv, WorkerSound
  <2> QED BY <2>1, <2>2, <2>3 DEF ScheduleInv
<1> QED BY <1>2, <1>4

\* The metered invariant stays while its variables do.
LEMMA MeteredStays ==
  ASSUME MeteredInv, UNCHANGED meteredVars
  PROVE  MeteredInv' /\ UNCHANGED grant
<1>1. UNCHANGED <<grant, usage, batches, inWindow, provider, settler, revoking>>
  BY DEF meteredVars
<1>2. MeteredTyped'
  BY <1>1, MeteredParts DEF MeteredTyped
<1>3. SettlerFacts'
  BY <1>1 DEF MeteredInv, SettlerFacts
<1> QED BY <1>1, <1>2, <1>3, MeteredKept DEF StaysOpen, MeteredInv

\* The charge and a top-up move the Minor counters alone, a change of status neither.
LEMMA PassSteps ==
  ASSUME SpendersInv, PassMoves
  PROVE  /\ purse' \in PurseRecord /\ minor' \in MinorRecord /\ charge' \in ChargeStatus
         /\ purse'.reserved = purse.reserved /\ purse'.spent = purse.spent
         /\ charge' = "none" =>
              charge = "none" /\ minor'.reserved = minor.reserved /\ minor'.spent = minor.spent
<1>1. purse \in PurseRecord /\ minor \in MinorRecord /\ charge \in ChargeStatus
  BY DEF SpendersInv
<1>2. CASE HoldCharge
  <2>1. minor' \in MinorRecord
    BY <1>1, <1>2, ChargeTyped, CountersAssumption DEF HoldCharge
  <2> QED BY <1>1, <1>2, <2>1 DEF HoldCharge, ChargeStatus
<1>3. CASE EndCharge
  <2>1. minor' \in MinorRecord
    BY <1>1, <1>3, ChargeTyped, CountersAssumption DEF EndCharge
  <2> QED BY <1>1, <1>3, <2>1 DEF EndCharge, ChargeStatus
<1>4. CASE TopUpPass
  <2>1. minor' = [minor EXCEPT !.limit = minor.limit + TopUp] /\ UNCHANGED <<purse, charge>>
    BY <1>4 DEF TopUpPass
  <2>2. minor.limit + TopUp \in Nat
    BY <1>1, CountersAssumption DEF MinorRecord
  <2>3. /\ minor' \in MinorRecord
        /\ minor'.reserved = minor.reserved /\ minor'.spent = minor.spent
    BY <1>1, <2>1, <2>2 DEF MinorRecord
  <2> QED BY <1>1, <2>1, <2>3
<1>5. CASE ChangePassStatus
  <2>1. PICK s \in PassStatus : purse' = [purse EXCEPT !.status = s] /\ UNCHANGED <<minor, charge>>
    BY <1>5 DEF ChangePassStatus
  <2>2. purse' \in PurseRecord /\ purse'.reserved = purse.reserved /\ purse'.spent = purse.spent
    BY <1>1, <2>1 DEF PurseRecord
  <2> QED BY <1>1, <2>1, <2>2
<1> QED BY <1>2, <1>3, <1>4, <1>5 DEF PassMoves

\* The execution of occurrences leaves the charges of the pass's app alone.
LEMMA SchedulerKeepsCharge ==
  ASSUME NEW w \in Scheduler, SchedulerStep(w) \/ CrashScheduler(w)
  PROVE  UNCHANGED charge
<1>1. CASE ReadPass(w) \/ LookBeforeClosing(w) \/ BlockBeforeClosing(w) \/ CloseSchedule(w)
  BY <1>1 DEF ReadPass, LookBeforeClosing, BlockBeforeClosing, CloseSchedule, BlockOccurrence,
    passVars
<1>2. CASE CompleteSchedule(w) \/ ClaimOccurrence(w) \/ LookUpPayment(w) \/ MarkUncertain(w)
  BY <1>2 DEF CompleteSchedule, ClaimOccurrence, LookUpPayment, MarkUncertain, passVars
<1>3. CASE ReserveBudget(w) \/ DepleteSchedule(w) \/ BlockDepleted(w) \/ ResolveRequest(w)
  BY <1>3 DEF ReserveBudget, DepleteSchedule, BlockDepleted, ResolveRequest, BlockOccurrence,
    passVars
<1>4. CASE StoreRequest(w) \/ MarkSubmitted(w) \/ Pay(w) \/ ReadAnswer(w)
  BY <1>4 DEF StoreRequest, MarkSubmitted, Pay, ReadAnswer, passVars
<1>5. CASE FinalizeSuccess(w) \/ FinalizeRefused(w) \/ MarkRetry(w)
  BY <1>5 DEF FinalizeSuccess, FinalizeRefused, MarkRetry, passVars
<1>6. CASE BlockFailed(w) \/ StepFails(w) \/ CrashScheduler(w)
  BY <1>6 DEF BlockFailed, StepFails, CrashScheduler, BlockOccurrence, passVars
<1> QED BY <1>1, <1>2, <1>3, <1>4, <1>5, <1>6 DEF SchedulerStep

\* The steps of the schedules leave the charges of the pass's app alone.
LEMMA ScheduleKeepsCharge == ScheduleNext => UNCHANGED charge
<1> SUFFICES ASSUME ScheduleNext PROVE UNCHANGED charge
  OBVIOUS
<1>1. ASSUME NEW s \in Schedule, CreatePaymentSchedule(s) PROVE UNCHANGED charge
  BY <1>1 DEF CreatePaymentSchedule, passVars
<1>2. ASSUME NEW fits \in BOOLEAN, ConfigureDestination(fits) PROVE UNCHANGED charge
  BY <1>2 DEF ConfigureDestination, passVars
<1>3. ASSUME NEW s \in Schedule, NEW to \in {"active", "paused", "revoked"},
             LoadForControl(s, to)
      PROVE  UNCHANGED charge
  BY <1>3 DEF LoadForControl, passVars
<1>4. ASSUME ControlStep PROVE UNCHANGED charge
  BY <1>4 DEF ControlStep, SaveControl, ListReleasable, BlockListed, BlockOccurrence, passVars
<1>5. ASSUME NEW w \in Scheduler, NEW s \in Schedule,
             ListDue(w, s) \/ \E n \in Due : ClaimInFlight(w, s, n)
      PROVE  UNCHANGED charge
  BY <1>5 DEF ListDue, ClaimInFlight, passVars
<1>6. ASSUME NEW s \in Schedule, NEW n \in Due, SettlePayment(s, n) PROVE UNCHANGED charge
  BY <1>6 DEF SettlePayment, passVars
<1> QED BY <1>1, <1>2, <1>3, <1>4, <1>5, <1>6, SchedulerKeepsCharge DEF ScheduleNext

\* The settlement of a batch leaves the charges of the pass's app alone.
LEMMA SettlerKeepsCharge ==
  ASSUME NEW w \in Settler, SettlerStep(w) \/ CrashSettler(w)
  PROVE  UNCHANGED charge
<1>1. CASE CheckGrant(w) \/ LookUpBatch(w) \/ ResolveBatch(w) \/ StoreBatchRequest(w)
  BY <1>1 DEF CheckGrant, LookUpBatch, ResolveBatch, StoreBatchRequest, passVars
<1>2. CASE MarkSettling(w) \/ MarkBatchSubmitted(w) \/ PayBatch(w) \/ ReadBatchAnswer(w)
  BY <1>2 DEF MarkSettling, MarkBatchSubmitted, PayBatch, ReadBatchAnswer, passVars
<1>3. CASE FinalizeBatch(w) \/ FinalizeBatchRefused(w) \/ ReleaseBatch(w)
  BY <1>3 DEF FinalizeBatch, FinalizeBatchRefused, ReleaseBatch, passVars
<1>4. CASE RetryBatch(w) \/ CatchFailure(w) \/ CrashSettler(w)
  BY <1>4 DEF RetryBatch, CatchFailure, CrashSettler, passVars
<1> QED BY <1>1, <1>2, <1>3, <1>4 DEF SettlerStep

\* The steps of the metered grant leave the charges of the pass's app alone.
LEMMA MeteredKeepsCharge == MeteredNext => UNCHANGED charge
<1> SUFFICES ASSUME MeteredNext PROVE UNCHANGED charge
  OBVIOUS
<1>1. CASE CreateMeteredGrant \/ NewWindow \/ RevokeGrant \/ ListUnsubmitted
  BY <1>1 DEF CreateMeteredGrant, NewWindow, RevokeGrant, ListUnsubmitted, passVars
<1>2. ASSUME NEW e \in Event, AcceptUsageEvent(e) PROVE UNCHANGED charge
  BY <1>2 DEF AcceptUsageEvent, passVars
<1>3. ASSUME NEW b \in Batch, ReleaseListed(b) PROVE UNCHANGED charge
  BY <1>3 DEF ReleaseListed, passVars
<1>4. ASSUME NEW w \in Settler, NEW b \in Batch, ClaimBatch(w, b) PROVE UNCHANGED charge
  BY <1>4 DEF ClaimBatch, passVars
<1>5. ASSUME NEW b \in Batch, SettleProviderPayment(b) PROVE UNCHANGED charge
  BY <1>5 DEF SettleProviderPayment, passVars
<1> QED BY <1>1, <1>2, <1>3, <1>4, <1>5, SettlerKeepsCharge DEF MeteredNext

\* Every step of any spender keeps the invariant.
LEMMA SpendersStep == SpendersInv /\ [SpendersNext]_spenderVars => SpendersInv'
<1> SUFFICES ASSUME SpendersInv, [SpendersNext]_spenderVars PROVE SpendersInv'
  OBVIOUS
<1>1. /\ ScheduleInv /\ MeteredInv /\ PassCountersMatch /\ CountersAgree
      /\ purse \in PurseRecord /\ minor \in MinorRecord /\ charge \in ChargeStatus
  BY DEF SpendersInv
<1>2. CASE ScheduleNext /\ UNCHANGED meteredVars
  <2>1. ScheduleMoves
    BY <1>1, <1>2, ScheduleSteps, SpendersCover
  <2>2. MeteredInv' /\ UNCHANGED grant
    BY <1>1, <1>2, MeteredStays
  <2>3. UNCHANGED charge
    BY <1>2, ScheduleKeepsCharge
  <2>4. MinorKept
    BY <1>1, <1>2, <2>1, ScheduleMinor DEF ScheduleMoves
  <2>5. ScheduleHolds' \in Nat /\ ScheduleSpent' \in Nat
    BY HoldsTyped
  <2>6. PassCountersMatch'
    <3>1. /\ grant'.reserved = grant.reserved /\ grant'.spent = grant.spent
          /\ purse'.reserved = purse.reserved + ScheduleHolds' - ScheduleHolds
          /\ purse'.spent = purse.spent + ScheduleSpent' - ScheduleSpent
          /\ purse'.spent + purse'.reserved <= PassLimit
      BY <2>1, <2>2 DEF ScheduleMoves
    <3>2. /\ purse.reserved = ScheduleHolds + grant.reserved
          /\ purse.spent = ScheduleSpent + grant.spent
      BY <1>1 DEF PassCountersMatch
    <3>3. /\ ScheduleHolds \in Nat /\ ScheduleSpent \in Nat
          /\ grant.reserved \in Nat /\ grant.spent \in Nat
      BY SpendersCover
    <3>4. /\ purse'.reserved = ScheduleHolds' + grant.reserved
          /\ purse'.spent = ScheduleSpent' + grant.spent
      BY <2>5, <3>1, <3>2, <3>3
    <3> QED BY <3>1, <3>4 DEF PassCountersMatch
  <2> QED BY <1>1, <2>1, <2>2, <2>3, <2>4, <2>6, AgreementKept
     DEF SpendersInv, ScheduleMoves, MinorKept
<1>3. CASE MeteredNext /\ UNCHANGED scheduleVars
  <2>1. GrantMoves
    BY <1>1, <1>3, MeteredSteps, SpendersCover
  <2>2. ScheduleInv' /\ ScheduleHolds' = ScheduleHolds /\ ScheduleSpent' = ScheduleSpent
    BY <1>1, <1>3, ScheduleStays
  <2>3. UNCHANGED charge
    BY <1>3, MeteredKeepsCharge
  <2>4. MinorKept
    BY <1>1, <1>3, <2>1, MeteredMinor DEF GrantMoves, scheduleVars
  <2>5. grant'.reserved \in Nat /\ grant'.spent \in Nat
    BY <2>1 DEF GrantMoves, MeteredInv, MeteredTypeOK, GrantRecord
  <2>6. PassCountersMatch'
    BY <1>1, <2>1, <2>2, <2>5, SpendersCover DEF GrantMoves, PassCountersMatch
  <2> QED BY <1>1, <2>1, <2>2, <2>3, <2>4, <2>6, AgreementKept
     DEF SpendersInv, GrantMoves, MinorKept
<1>4. CASE PassMoves /\ UNCHANGED <<scheduleVars, meteredVars>>
  <2>1. ScheduleInv' /\ ScheduleHolds' = ScheduleHolds /\ ScheduleSpent' = ScheduleSpent
    BY <1>1, <1>4, ScheduleStays
  <2>2. MeteredInv' /\ UNCHANGED grant
    BY <1>1, <1>4, MeteredStays
  <2>3. Unstarted' <=> Unstarted
    BY <1>4 DEF Unstarted, scheduleVars
  <2>4. PassCountersMatch' /\ CountersAgree'
    BY <1>1, <1>4, <2>1, <2>2, <2>3, PassSteps DEF PassCountersMatch, CountersAgree
  <2> QED BY <1>4, <2>1, <2>2, <2>4, PassSteps DEF SpendersInv
<1>5. CASE UNCHANGED spenderVars
  <2>1. ScheduleInv' /\ ScheduleHolds' = ScheduleHolds /\ ScheduleSpent' = ScheduleSpent
    BY <1>1, <1>5, ScheduleStays DEF spenderVars
  <2>2. MeteredInv' /\ UNCHANGED grant
    BY <1>1, <1>5, MeteredStays DEF spenderVars
  <2>3. UNCHANGED <<purse, minor, charge, payment>>
    BY <1>5 DEF spenderVars, passVars, scheduleVars
  <2>4. PassCountersMatch' /\ CountersAgree'
    BY <1>1, <2>1, <2>2, <2>3 DEF PassCountersMatch, CountersAgree, Unstarted
  <2> QED BY <1>1, <2>1, <2>2, <2>3, <2>4 DEF SpendersInv
<1> QED BY <1>2, <1>3, <1>4, <1>5 DEF SpendersNext

\* The events of a batch are all unsettled, all settled or all given back.
LEMMA BatchesWhole == MeteredInv => BatchIsWhole
<1> SUFFICES ASSUME MeteredInv, NEW b \in Batch
    PROVE  LET E == {e \in Event : usage[e].batch = b}
               now == {usage[e].status : e \in E}
           IN /\ now \subseteq Unsettled \/ Cardinality(now) = 1
              /\ batches[b].total = CostOf(E) /\ batches[b].count = Cardinality(E)
              /\ batches[b].total <= MaxBatch /\ batches[b].count <= MaxBatchEvents
  BY DEF BatchIsWhole
<1> DEFINE now == {usage[e].status : e \in Members(b)}
<1>1. BatchFacts(b) /\ batches[b] \in BatchRecord
  BY MeteredParts DEF MeteredInv
<1>2. ASSUME batches[b].status = "none" PROVE now \subseteq Unsettled
  BY <1>1, <1>2 DEF BatchFacts
<1>3. ASSUME batches[b].status \in Open PROVE now \subseteq Unsettled
  BY <1>1, <1>3 DEF BatchFacts
<1>4. ASSUME batches[b].status \in Final PROVE Cardinality(now) = 1
  <2>1. Members(b) # {} /\ \A e \in Members(b) : usage[e].status = Settling(batches[b].status)
    BY <1>1, <1>4 DEF BatchFacts, Final
  <2>2. now = {Settling(batches[b].status)}
    BY <2>1
  <2> QED BY <2>2, FS_Singleton
<1>5. now \subseteq Unsettled \/ Cardinality(now) = 1
  BY <1>1, <1>2, <1>3, <1>4 DEF BatchRecord
<1>6. /\ batches[b].total = CostOf(Members(b)) /\ batches[b].count = Cardinality(Members(b))
      /\ batches[b].total <= MaxBatch /\ batches[b].count <= MaxBatchEvents
  BY <1>1 DEF BatchFacts
<1> QED BY <1>5, <1>6 DEF Members

\* What is settled was paid.
LEMMA SettledPaid == MeteredInv => SettledIsPaid
<1> SUFFICES ASSUME MeteredInv, NEW e \in Event, usage[e].status = "settled"
    PROVE  provider[usage[e].batch] = "succeeded"
  BY DEF SettledIsPaid
<1> DEFINE b == usage[e].batch
<1>1. b \in Batch /\ e \in Members(b)
  BY MeteredParts DEF MeteredInv, EventRecord, Members
<1> HIDE DEF b
<1>2. BatchFacts(b) /\ batches[b] \in BatchRecord
  BY <1>1, MeteredParts DEF MeteredInv
<1>3. batches[b].status \in Final
  BY <1>1, <1>2 DEF BatchFacts, BatchRecord, Unsettled
<1>4. Settling(batches[b].status) = "settled"
  BY <1>1, <1>2, <1>3 DEF BatchFacts
<1>5. batches[b].status = "succeeded"
  BY <1>3, <1>4 DEF Settling, Final
<1> QED BY <1>2, <1>5 DEF BatchFacts, b

\* The documents of every spender are typed, the Atomic counters of the pass and those of
\* the grant are exactly what their occurrences and events hold and were debited, within
\* their limits, the Minor counters tell the same until a charge is made, what says
\* succeeded or settled was paid, and no batch is settled in part: for any number of
\* schedules, due dates, events and workers of each kind.
THEOREM SpendersCorrect ==
  SpendersSpec => [](SpendersTypeOK /\ ReservesMatch /\ SpendersPaid /\ BatchIsWhole)
<1>1. SpendersInv => SpendersTypeOK /\ ReservesMatch /\ SpendersPaid /\ BatchIsWhole
  <2> SUFFICES ASSUME SpendersInv
      PROVE SpendersTypeOK /\ ReservesMatch /\ SpendersPaid /\ BatchIsWhole
    OBVIOUS
  <2>1. SpendersTypeOK /\ ReservesMatch
    BY DEF SpendersInv, SpendersTypeOK, ScheduleInv, MeteredInv, ReservesMatch
  <2>2. SettledIsPaid /\ BatchIsWhole
    BY SettledPaid, BatchesWhole DEF SpendersInv
  <2>3. OccurrenceSuccessIsPaid /\ CountFollowsDebits
    BY DEF SpendersInv, ScheduleInv, OccurrenceFacts, OccurrenceSuccessIsPaid
  <2> QED BY <2>1, <2>2, <2>3 DEF SpendersPaid
<1> QED BY <1>1, SpendersStart, SpendersStep, PTL DEF SpendersSpec
=============================================================================
