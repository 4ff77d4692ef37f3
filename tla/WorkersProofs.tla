---------------------------- MODULE WorkersProofs ----------------------------
(***************************************************************************)
(* The workers that deliver webhooks and receipts and the lease of the     *)
(* reconciliation workers, for any number of workers, endpoints, replicas  *)
(* and attempts: a delivery's status says what happened to it, nothing is  *)
(* sent more often than its limit, and a lease keeps the others out.       *)
(***************************************************************************)
EXTENDS MCEventually, FiniteSetTheorems, TLAPS

\* The statuses of a delivery.
HookStatus == {"none", "queued", "delivering", "succeeded", "retrying", "failed"}

\* The delivery, what its endpoint answered, and the workers' copies.
HookTyped ==
    /\ hook \in [status: HookStatus, attempts: Nat, stale: BOOLEAN]
    /\ receiver \in [accepted: BOOLEAN, refused: BOOLEAN]
    /\ postman \in [Postman -> [pc: {"idle", "post", "save"}, attempts: Nat,
                                outcome: HookOutcomes \cup {"none"}]]

\* A worker's copy counts no attempt that was not made, and the outcome it is about
\* to save is one it met.
CopyIsHonest(w) ==
    /\ postman[w].attempts <= hook.attempts
    /\ postman[w].pc = "save" => /\ postman[w].outcome # "none"
                                 /\ postman[w].outcome = "ok" => receiver.accepted
                                 /\ postman[w].outcome = "refused" => receiver.refused

\* What every copy a worker may save says of the delivery is true.
HookInv == HookTyped /\ (\A w \in Postman : CopyIsHonest(w)) /\ WebhookHonest

\* Nothing is queued and no worker runs at the start.
LEMMA HookInitial == WebhookInit => HookInv
BY DEF WebhookInit, HookInv, HookTyped, HookStatus, HookOutcomes, IdlePostman, CopyIsHonest,
  WebhookHonest, SucceededWasAccepted, GivenUpIsExhausted

\* What a worker saves is true of the delivery: its copy is at most as old as the
\* document, and attempts and answers only accumulate.
LEMMA SaveIsHonest ==
  ASSUME HookInv, NEW w \in Postman, DeliverWebhookSaves(w)
  PROVE  /\ OutcomeStatus(w) \in HookStatus
         /\ OutcomeStatus(w) = "succeeded" => receiver.accepted
         /\ OutcomeStatus(w) = "failed" => receiver.refused \/ hook.attempts >= MaxPosts
<1>1. /\ postman[w].attempts \in Nat /\ hook.attempts \in Nat
      /\ postman[w].outcome \in {"ok", "retry", "refused"}
      /\ postman[w].attempts <= hook.attempts
      /\ postman[w].outcome = "ok" => receiver.accepted
      /\ postman[w].outcome = "refused" => receiver.refused
  BY DEF HookInv, HookTyped, HookOutcomes, CopyIsHonest, DeliverWebhookSaves
<1> QED BY <1>1, WebhookAssumption DEF OutcomeStatus, CanRetry, HookStatus

\* Each step of the app, the workers and the sweep keeps the invariant.
LEMMA HookStep == HookInv /\ [WebhookNext]_hookVars => HookInv'
<1> SUFFICES ASSUME HookInv, [WebhookNext]_hookVars PROVE HookInv'
  OBVIOUS
<1> USE WebhookAssumption DEF HookInv, HookTyped, HookStatus, CopyIsHonest, WebhookHonest,
        SucceededWasAccepted, GivenUpIsExhausted
<1>1. CASE EnqueueWebhookEvent
  BY <1>1 DEF EnqueueWebhookEvent
<1>2. CASE ConfigureAppWebhook
  BY <1>2 DEF ConfigureAppWebhook
<1>3. CASE RecoverStaleWebhookDeliveries
  BY <1>3 DEF RecoverStaleWebhookDeliveries, Recoverable
<1>4. CASE WebhookLockLapses
  BY <1>4 DEF WebhookLockLapses
<1>5. ASSUME NEW w \in Postman, ClaimNextWebhookDelivery(w) PROVE HookInv'
  <2>1. /\ hook' = [status |-> "delivering", attempts |-> hook.attempts + 1, stale |-> FALSE]
        /\ postman' = [postman EXCEPT ![w] = [pc |-> "post", attempts |-> hook.attempts + 1,
                                              outcome |-> "none"]]
        /\ receiver' = receiver
    BY <1>5 DEF ClaimNextWebhookDelivery, PostmanGoes
  <2>2. hook.attempts \in Nat /\ \A v \in Postman : postman[v].attempts \in Nat
    OBVIOUS
  <2>3. HookTyped'
    BY <2>1, <2>2 DEF HookOutcomes
  <2>4. ASSUME NEW v \in Postman PROVE CopyIsHonest(v)'
    BY <2>1, <2>2
  <2>5. WebhookHonest'
    BY <2>1
  <2> QED BY <2>3, <2>4, <2>5
<1>6. ASSUME NEW w \in Postman, PostWebhook(w) PROVE HookInv'
  <2>1. PICK answer \in {"ok", "redirect", "refused", "retry"} :
          /\ receiver' = [accepted |-> receiver.accepted \/ answer = "ok",
                          refused |-> receiver.refused \/ answer \in {"refused", "redirect"}]
          /\ PostmanGoes(w, [postman[w] EXCEPT !.pc = "save",
                                               !.outcome = WebhookHttpFailure(answer)])
    BY <1>6 DEF PostWebhook
  <2>2. /\ receiver' \in [accepted: BOOLEAN, refused: BOOLEAN]
        /\ receiver.accepted => receiver'.accepted
        /\ receiver.refused => receiver'.refused
        /\ WebhookHttpFailure(answer) = "ok" => receiver'.accepted
        /\ WebhookHttpFailure(answer) = "refused" => receiver'.refused
    BY <2>1 DEF WebhookHttpFailure
  <2>3. WebhookHttpFailure(answer) \in HookOutcomes
    BY DEF WebhookHttpFailure, HookOutcomes
  <2>4. postman' = [postman EXCEPT ![w] = [postman[w] EXCEPT !.pc = "save",
                                             !.outcome = WebhookHttpFailure(answer)]]
    BY <2>1 DEF PostmanGoes
  <2>5. hook' = hook
    BY <1>6 DEF PostWebhook
  <2>6. HookTyped'
    BY <2>2, <2>3, <2>4, <2>5, ZenonT(30)
  <2>7. ASSUME NEW v \in Postman PROVE CopyIsHonest(v)'
    BY <2>2, <2>3, <2>4, <2>5 DEF HookOutcomes
  <2>8. WebhookHonest'
    BY <2>2, <2>5
  <2> QED BY <2>6, <2>7, <2>8
<1>7. ASSUME NEW w \in Postman, SecretUnavailable(w) PROVE HookInv'
  BY <1>7, ZenonT(30) DEF SecretUnavailable, PostmanGoes, HookOutcomes
<1>8. ASSUME NEW w \in Postman, DeliverWebhookSaves(w) PROVE HookInv'
  <2>1. /\ hook' = [hook EXCEPT !.status = OutcomeStatus(w), !.stale = FALSE]
        /\ postman' = [postman EXCEPT ![w] = [pc |-> "idle", attempts |-> 0, outcome |-> "none"]]
        /\ receiver' = receiver
    BY <1>8 DEF DeliverWebhookSaves, PostmanGoes, IdlePostman
  <2>2. /\ OutcomeStatus(w) \in HookStatus
        /\ OutcomeStatus(w) = "succeeded" => receiver.accepted
        /\ OutcomeStatus(w) = "failed" => receiver.refused \/ hook.attempts >= MaxPosts
    BY <1>8, SaveIsHonest
  <2>3. HookTyped'
    BY <2>1, <2>2 DEF HookOutcomes
  <2>4. ASSUME NEW v \in Postman PROVE CopyIsHonest(v)'
    BY <2>1
  <2>5. WebhookHonest'
    BY <2>1, <2>2
  <2> QED BY <2>3, <2>4, <2>5
<1>9. ASSUME NEW w \in Postman, PostmanStops(w) PROVE HookInv'
  BY <1>9 DEF PostmanStops, PostmanGoes, IdlePostman
<1>10. CASE UNCHANGED hookVars
  BY <1>10 DEF hookVars
<1> QED BY <1>1, <1>2, <1>3, <1>4, <1>5, <1>6, <1>7, <1>8, <1>9, <1>10 DEF WebhookNext

-----------------------------------------------------------------------------
\* The claims that some worker still has in hand and that were made before the limit.
Early == {n \in 1..(MaxPosts - 1) :
            \E w \in Postman : postman[w].pc # "idle" /\ postman[w].attempts = n}

\* A delivery that a late save has brought back.
BroughtBack == IF hook.status = "retrying" THEN 1 ELSE 0

\* No two workers hold the same claim, and a delivery is brought back after its last
\* attempt only for a claim made before it.
CountInv ==
    /\ \A w \in Postman : postman[w].pc # "idle" => postman[w].attempts >= 1
    /\ \A v, w \in Postman :
          postman[v].pc # "idle" /\ postman[w].pc # "idle"
            /\ postman[v].attempts = postman[w].attempts => v = w
    /\ hook.status \in {"none", "queued"} => hook.attempts = 0
    /\ hook.attempts >= MaxPosts =>
          hook.attempts + Cardinality(Early) + BroughtBack <= 2 * MaxPosts - 1

\* There are fewer early claims than attempts.
LEMMA EarlyCount ==
  /\ IsFiniteSet(Early) /\ Cardinality(Early) \in Nat /\ Cardinality(Early) <= MaxPosts - 1
  /\ IsFiniteSet(Early') /\ Cardinality(Early') \in Nat /\ Cardinality(Early') <= MaxPosts - 1
<1>1. /\ 1 \in Int /\ MaxPosts - 1 \in Int /\ MaxPosts \in Nat /\ MaxPosts >= 1
  BY WebhookAssumption
<1>2. /\ IsFiniteSet(1..(MaxPosts - 1))
      /\ Cardinality(1..(MaxPosts - 1)) = IF 1 > MaxPosts - 1 THEN 0 ELSE MaxPosts - 1 - 1 + 1
  BY <1>1, FS_Interval
<1>3. Cardinality(1..(MaxPosts - 1)) = MaxPosts - 1
  BY <1>1, <1>2
<1>4. Early \in SUBSET (1..(MaxPosts - 1)) /\ Early' \in SUBSET (1..(MaxPosts - 1))
  BY DEF Early
<1> QED BY <1>2, <1>3, <1>4, FS_Subset, FS_CardinalityType

\* Nothing was claimed at the start.
LEMMA CountInitial == WebhookInit => CountInv
<1> SUFFICES ASSUME WebhookInit PROVE CountInv
  OBVIOUS
<1>1. /\ \A w \in Postman : postman[w].pc = "idle"
      /\ hook.attempts = 0 /\ hook.status = "none"
  BY DEF WebhookInit, IdlePostman
<1>2. ~(hook.attempts >= MaxPosts)
  BY <1>1, WebhookAssumption
<1> QED BY <1>1, <1>2 DEF CountInv

\* A step of one worker with its claim, or after it let go of it, where the delivery
\* is not brought back.
LEMMA CountKept ==
  ASSUME HookInv, CountInv, hook'.attempts = hook.attempts,
         hook'.status = "retrying" => hook.status = "retrying" \/ hook.attempts < MaxPosts,
         hook'.status \in {"none", "queued"} => hook.attempts = 0,
         \A w \in Postman : \/ postman'[w].pc = "idle"
                            \/ postman[w].pc # "idle" /\ postman'[w].attempts = postman[w].attempts
  PROVE  CountInv'
<1>1. hook.attempts \in Nat /\ MaxPosts \in Nat
  BY WebhookAssumption DEF HookInv, HookTyped
<1>2. Early' \in SUBSET Early
  BY DEF Early
<1>3. Cardinality(Early') <= Cardinality(Early)
  BY <1>2, EarlyCount, FS_Subset
<1>4. hook.attempts >= MaxPosts =>
        hook'.attempts + Cardinality(Early') + BroughtBack' <= 2 * MaxPosts - 1
  BY <1>1, <1>3, EarlyCount DEF CountInv, BroughtBack
<1>5. /\ \A w \in Postman : postman'[w].pc # "idle" => postman'[w].attempts >= 1
      /\ \A v, w \in Postman :
            postman'[v].pc # "idle" /\ postman'[w].pc # "idle"
              /\ postman'[v].attempts = postman'[w].attempts => v = w
  BY DEF CountInv
<1> QED BY <1>4, <1>5 DEF CountInv

\* A claim takes a number of its own.
LEMMA CountClaim ==
  ASSUME HookInv, CountInv, NEW w \in Postman, ClaimNextWebhookDelivery(w)
  PROVE  CountInv'
<1> DEFINE n == hook.attempts + 1
<1>1. /\ hook.attempts \in Nat /\ MaxPosts \in Nat /\ MaxPosts >= 1
      /\ \A v \in Postman : postman[v].attempts \in Nat /\ postman[v].attempts <= hook.attempts
  BY WebhookAssumption DEF HookInv, HookTyped, CopyIsHonest
<1>2. /\ hook'.attempts = n /\ hook'.status = "delivering" /\ postman[w].pc = "idle"
      /\ postman'[w].pc = "post" /\ postman'[w].attempts = n
      /\ \A v \in Postman \ {w} : postman'[v] = postman[v]
      /\ hook.status \in {"queued", "retrying"}
  BY DEF ClaimNextWebhookDelivery, PostmanGoes, HookInv, HookTyped
<1>3. /\ \A v \in Postman : postman'[v].pc # "idle" => postman'[v].attempts >= 1
      /\ \A u, v \in Postman :
            postman'[u].pc # "idle" /\ postman'[v].pc # "idle"
              /\ postman'[u].attempts = postman'[v].attempts => u = v
  BY <1>1, <1>2 DEF CountInv
<1>4. CASE n <= MaxPosts
  BY <1>1, <1>2, <1>3, <1>4, EarlyCount DEF CountInv, BroughtBack
<1>5. CASE n > MaxPosts
  <2>1. hook.attempts >= MaxPosts /\ hook.status = "retrying"
    BY <1>1, <1>2, <1>5 DEF CountInv
  <2>2. hook.attempts + Cardinality(Early) + 1 <= 2 * MaxPosts - 1
    BY <2>1 DEF CountInv, BroughtBack
  <2>3. Early' \in SUBSET Early
    BY <1>1, <1>2, <1>5 DEF Early
  <2>4. Cardinality(Early') <= Cardinality(Early)
    BY <2>3, EarlyCount, FS_Subset
  <2> QED BY <1>1, <1>2, <1>3, <2>2, <2>4, EarlyCount DEF CountInv, BroughtBack
<1> QED BY <1>1, <1>4, <1>5

\* A save that brings the delivery back lets go of an early claim.
LEMMA CountSave ==
  ASSUME HookInv, CountInv, NEW w \in Postman, DeliverWebhookSaves(w)
  PROVE  CountInv'
<1> DEFINE n == postman[w].attempts
<1>1. /\ hook.attempts \in Nat /\ MaxPosts \in Nat /\ MaxPosts >= 1 /\ n \in Nat
      /\ postman[w].pc = "save" /\ n >= 1
  BY WebhookAssumption DEF HookInv, HookTyped, CountInv, DeliverWebhookSaves
<1>2. /\ hook'.attempts = hook.attempts /\ hook'.status = OutcomeStatus(w)
      /\ postman'[w].pc = "idle" /\ \A v \in Postman \ {w} : postman'[v] = postman[v]
  BY DEF DeliverWebhookSaves, PostmanGoes, IdlePostman, HookInv, HookTyped
<1>3. OutcomeStatus(w) \in {"succeeded", "retrying", "failed"}
      /\ (OutcomeStatus(w) = "retrying" => n < MaxPosts)
  BY DEF OutcomeStatus, CanRetry
<1>4. CASE OutcomeStatus(w) # "retrying"
  BY <1>2, <1>3, <1>4, CountKept
<1>5. CASE OutcomeStatus(w) = "retrying"
  <2>1. n \in Early
    BY <1>1, <1>3, <1>5 DEF Early
  <2>2. \A v \in Postman \ {w} : postman[v].pc # "idle" => postman[v].attempts # n
    BY <1>1 DEF CountInv
  <2>3. Early' \in SUBSET (Early \ {n})
    BY <1>2, <2>2 DEF Early
  <2>4. /\ IsFiniteSet(Early \ {n}) /\ Cardinality(Early \ {n}) = Cardinality(Early) - 1
    BY <2>1, EarlyCount, FS_RemoveElement
  <2>5. Cardinality(Early') <= Cardinality(Early) - 1
    BY <2>3, <2>4, FS_Subset
  <2>6. hook.attempts >= MaxPosts =>
          hook'.attempts + Cardinality(Early') + BroughtBack' <= 2 * MaxPosts - 1
    BY <1>1, <1>2, <2>5, EarlyCount DEF CountInv, BroughtBack
  <2>7. /\ \A v \in Postman : postman'[v].pc # "idle" => postman'[v].attempts >= 1
        /\ \A u, v \in Postman :
              postman'[u].pc # "idle" /\ postman'[v].pc # "idle"
                /\ postman'[u].attempts = postman'[v].attempts => u = v
    BY <1>2 DEF CountInv
  <2> QED BY <1>2, <1>5, <2>6, <2>7 DEF CountInv
<1> QED BY <1>4, <1>5

\* Each step keeps the count of the claims.
LEMMA CountStep == HookInv /\ CountInv /\ [WebhookNext]_hookVars => CountInv'
<1> SUFFICES ASSUME HookInv, CountInv, [WebhookNext]_hookVars PROVE CountInv'
  OBVIOUS
<1>1. /\ hook \in [status: HookStatus, attempts: Nat, stale: BOOLEAN] /\ MaxPosts \in Nat
      /\ postman \in [Postman -> [pc: {"idle", "post", "save"}, attempts: Nat,
                                  outcome: HookOutcomes \cup {"none"}]]
  BY WebhookAssumption DEF HookInv, HookTyped
<1>2. CASE EnqueueWebhookEvent
  <2>1. hook'.attempts = hook.attempts /\ hook'.status = "queued" /\ hook.attempts = 0
        /\ postman' = postman
    BY <1>1, <1>2 DEF EnqueueWebhookEvent, CountInv
  <2> QED BY <2>1, CountKept
<1>3. CASE ConfigureAppWebhook \/ UNCHANGED hookVars
  <2>1. hook' = hook /\ postman' = postman
    BY <1>3 DEF ConfigureAppWebhook, hookVars
  <2> QED BY <2>1, CountKept DEF CountInv
<1>4. CASE RecoverStaleWebhookDeliveries \/ WebhookLockLapses
  <2>1. /\ hook'.attempts = hook.attempts /\ postman' = postman
        /\ hook'.status = "retrying" => hook.attempts < MaxPosts
        /\ hook'.status \notin {"none", "queued"}
    <3>1. CASE WebhookLockLapses
      BY <1>1, <3>1 DEF WebhookLockLapses
    <3>2. CASE RecoverStaleWebhookDeliveries
      <4>1. /\ hook' = [hook EXCEPT !.stale = FALSE,
                          !.status = IF hook.attempts >= MaxPosts THEN "failed" ELSE "retrying"]
            /\ postman' = postman
        BY <3>2 DEF RecoverStaleWebhookDeliveries
      <4> QED BY <1>1, <4>1
    <3> QED BY <1>4, <3>1, <3>2
  <2> QED BY <2>1, CountKept
<1>5. ASSUME NEW w \in Postman, PostWebhook(w) \/ SecretUnavailable(w) \/ PostmanStops(w)
      PROVE  CountInv'
  <2>1. hook' = hook
    BY <1>5 DEF PostWebhook, SecretUnavailable, PostmanStops
  <2>2. \A v \in Postman : \/ postman'[v].pc = "idle"
                           \/ postman[v].pc # "idle" /\ postman'[v].attempts = postman[v].attempts
    <3>1. CASE PostmanStops(w)
      BY <1>1, <3>1 DEF PostmanStops, PostmanGoes, IdlePostman
    <3>2. CASE PostWebhook(w) \/ SecretUnavailable(w)
      <4>1. postman[w].pc = "post"
        BY <3>2 DEF PostWebhook, SecretUnavailable
      <4>2. PICK o : postman' = [postman EXCEPT ![w] = [postman[w] EXCEPT !.pc = "save",
                                                                      !.outcome = o]]
        BY <3>2 DEF PostWebhook, SecretUnavailable, PostmanGoes
      <4>3. [postman[w] EXCEPT !.pc = "save", !.outcome = o].attempts = postman[w].attempts
        BY <1>1
      <4> QED BY <1>1, <4>1, <4>2, <4>3
    <3> QED BY <1>5, <3>1, <3>2
  <2> QED BY <2>1, <2>2, CountKept DEF CountInv
<1> QED BY <1>2, <1>3, <1>4, <1>5, CountClaim, CountSave DEF WebhookNext

\* The count of the claims bounds the attempts.
LEMMA HookIsTyped == HookInv /\ CountInv => WebhookTypeOK /\ WebhookHonest
<1> SUFFICES ASSUME HookInv, CountInv PROVE WebhookTypeOK
  BY DEF HookInv
<1>1. hook.attempts \in Nat /\ MaxPosts \in Nat /\ MaxPosts >= 1 /\ BroughtBack \in Nat
  BY WebhookAssumption DEF HookInv, HookTyped, BroughtBack
<1>2. hook.attempts \in 0..(2 * MaxPosts - 1)
  BY <1>1, EarlyCount DEF CountInv
<1>3. \A w \in Postman : postman[w].attempts \in 0..hook.attempts
  BY <1>1 DEF HookInv, HookTyped, CopyIsHonest
<1> QED BY <1>2, <1>3 DEF WebhookTypeOK, HookInv, HookTyped, HookStatus

\* deliverWebhook and recoverStaleWebhookDeliveries: a delivery says succeeded only if
\* its endpoint accepted it and failed only if it was refused or tried to the end,
\* and it is posted fewer than twice its limit, with any number of workers that save
\* stale copies.
THEOREM DeliveriesHonest == WebhookSpec => [](WebhookTypeOK /\ WebhookHonest)
BY HookIsTyped, HookInitial, HookStep, CountInitial, CountStep, PTL DEF WebhookSpec
-----------------------------------------------------------------------------
\* A replica and what it believes of its lease.
ReplicaRecord == [pc: {"stopped", "idle", "sweep", "release"}, within: BOOLEAN]

\* What a replica believes of its lease is what the document says of it.
WithinIsHeld ==
    \A r \in Replica : replica[r].within => lease.owner = workerId[r] /\ ~lease.lapsed

\* The inductive invariant of the lease.
LeaseInv ==
    /\ workerId \in [Replica -> WorkerId]
    /\ lease \in [owner: WorkerId \cup {NoWorker}, lapsed: BOOLEAN]
    /\ replica \in [Replica -> ReplicaRecord]
    /\ WithinIsHeld

\* No replica runs and nobody holds the lease at the start.
LEMMA LeaseInitial == WorkerLeaseInit => LeaseInv
BY LeaseAssumption
  DEF WorkerLeaseInit, LeaseInv, ReplicaRecord, WithinIsHeld, StoppedReplica, NoWorker

\* Each step of the supervisors, of a replica and of time keeps the invariant.
LEMMA LeaseStep == LeaseInv /\ [WorkerLeaseNext]_leaseVars => LeaseInv'
<1> SUFFICES ASSUME LeaseInv, [WorkerLeaseNext]_leaseVars PROVE LeaseInv'
  OBVIOUS
<1> USE DEF LeaseInv, ReplicaRecord, WithinIsHeld
<1>1. CASE LeaseLapses
  BY <1>1 DEF LeaseLapses
<1>2. ASSUME NEW r \in Replica, StartReplica(r) PROVE LeaseInv'
  BY <1>2 DEF StartReplica, ReplicaGoes
<1>3. ASSUME NEW r \in Replica, AcquireWorkerLease(r) PROVE LeaseInv'
  <2>1. \A q \in Replica \ {r} : replica[q].within => workerId[q] = workerId[r]
    BY <1>3 DEF AcquireWorkerLease, LeaseFree
  <2> QED BY <1>3, <2>1 DEF AcquireWorkerLease
<1>4. ASSUME NEW r \in Replica, LeaseRefused(r) PROVE LeaseInv'
  BY <1>4 DEF LeaseRefused
<1>5. ASSUME NEW r \in Replica, EndBatch(r) PROVE LeaseInv'
  BY <1>5 DEF EndBatch, ReplicaGoes
<1>6. ASSUME NEW r \in Replica, ReleaseWorkerLease(r) PROVE LeaseInv'
  <2>1. replica' \in [Replica -> ReplicaRecord]
    BY <1>6 DEF ReleaseWorkerLease
  <2>2. lease' \in [owner: WorkerId \cup {NoWorker}, lapsed: BOOLEAN]
        /\ lease'.owner = lease.owner
    BY <1>6, Zenon DEF ReleaseWorkerLease, Releases
  <2>3. ASSUME NEW q \in Replica, replica'[q].within
        PROVE  replica[q].within /\ workerId[q] # workerId[r]
    BY <1>6, <2>3 DEF ReleaseWorkerLease
  <2>4. ASSUME NEW q \in Replica, replica'[q].within PROVE ~lease'.lapsed
    BY <1>6, <2>3, <2>4 DEF ReleaseWorkerLease, Releases
  <2> QED BY <1>6, <2>1, <2>2, <2>3, <2>4 DEF ReleaseWorkerLease
<1>7. ASSUME NEW r \in Replica, StopReplica(r) PROVE LeaseInv'
  BY <1>7 DEF StopReplica, ReplicaGoes
<1>8. ASSUME NEW r \in Replica, CrashReplica(r) PROVE LeaseInv'
  BY <1>8 DEF CrashReplica, StoppedReplica
<1>9. CASE UNCHANGED leaseVars
  BY <1>9 DEF leaseVars
<1> QED BY <1>1, <1>2, <1>3, <1>4, <1>5, <1>6, <1>7, <1>8, <1>9
        DEF WorkerLeaseNext, ReplicaWorks

\* A replica within its lease is the one the document names.
LEMMA LeaseHolds == LeaseInv => WorkerLeaseTypeOK /\ HolderSweepsAlone
BY DEF LeaseInv, WithinIsHeld, ReplicaRecord, WorkerLeaseTypeOK, HolderSweepsAlone

\* The lease of acquireWorkerLease excludes: of replicas with ids of their own at
\* most one is within a lease it took, and losing or releasing one frees no other.
THEOREM LeaseExcludes == WorkerLeaseSpec => [](WorkerLeaseTypeOK /\ HolderSweepsAlone)
BY LeaseHolds, LeaseInitial, LeaseStep, PTL DEF WorkerLeaseSpec
-----------------------------------------------------------------------------
\* Deliveries and workers of the receipt notifications.
NoticeRecord == [status: {"none"} \cup OpenNotice \cup Ended, attempts: 0..MaxTries,
                 lease: 0..MaxTries, lapsed: BOOLEAN]
MessengerRecord == [pc: {"idle", "read", "send", "delivered", "failed"},
                    e: Endpoint \cup {"none"}, attempts: 0..MaxTries]

NoticeTyped ==
    /\ endpoint \in [Endpoint -> {"none", "active", "removed"}]
    /\ queueing \in SUBSET Endpoint
    /\ notice \in [Endpoint -> NoticeRecord]
    /\ messenger \in [Messenger -> MessengerRecord]
    /\ told \in [Endpoint -> [sent: Nat, after: Nat]]

\* A lease is the last claim's or none, and a delivery that has ended has none.  Only
\* an endpoint that was created has deliveries and workers.
NoticeFacts ==
    /\ \A e \in Endpoint :
          /\ notice[e].lease \in {0, notice[e].attempts}
          /\ notice[e].status \in Ended => notice[e].lease = 0
          /\ notice[e].status # "none" \/ e \in queueing => endpoint[e] # "none"
    /\ \A w \in Messenger :
          messenger[w].pc # "idle" =>
             /\ messenger[w].e \in Endpoint /\ messenger[w].attempts >= 1
             /\ endpoint[messenger[w].e] # "none"

\* The workers that have a claim on the delivery of e and have not sent it, and the
\* ones of them that have read its address.
Unsent(e) == {w \in Messenger : messenger[w].e = e /\ messenger[w].pc \in {"read", "send"}}
Ready(e) == {w \in Messenger : messenger[w].e = e /\ messenger[w].pc = "send"}

\* Every message and every worker about to send one has a claim of its own; after the
\* removal only workers that read the address before it send.
NoticeCount ==
    \A e \in Endpoint :
       /\ told[e].sent + Cardinality(Unsent(e)) <= notice[e].attempts
       /\ endpoint[e] # "removed" => told[e].after = 0
       /\ endpoint[e] = "removed" =>
             told[e].after + Cardinality(Ready(e)) <= Cardinality(Messenger)

\* The inductive invariant of the notifications.
NoticeInv == NoticeTyped /\ NoticeFacts /\ NoticeCount

\* A set of workers is finite.
LEMMA CrewIsFinite ==
  ASSUME NEW S \in SUBSET Messenger
  PROVE  IsFiniteSet(S) /\ Cardinality(S) \in Nat /\ Cardinality(S) <= Cardinality(Messenger)
BY NotificationAssumption, FS_Subset, FS_CardinalityType

\* A larger set of workers has at least as many.
LEMMA CrewGrows ==
  ASSUME NEW S \in SUBSET Messenger, NEW T \in SUBSET S
  PROVE  Cardinality(T) <= Cardinality(S)
BY CrewIsFinite, FS_Subset

\* Nothing was queued and nobody told at the start.
LEMMA NoticeInitial == NotificationInit => NoticeInv
<1> SUFFICES ASSUME NotificationInit PROVE NoticeInv
  OBVIOUS
<1>1. 0 \in 0..MaxTries /\ MaxTries \in Nat
  BY NotificationAssumption
<1>2. NoNotice \in NoticeRecord /\ NoNotice.attempts = 0 /\ NoNotice.lease = 0
      /\ NoNotice.status = "none"
  BY <1>1 DEF NoNotice, NoticeRecord
<1>3. IdleMessenger \in MessengerRecord /\ IdleMessenger.pc = "idle"
  BY <1>1 DEF IdleMessenger, MessengerRecord
<1>4. NoticeTyped
  BY <1>2, <1>3 DEF NotificationInit, NoticeTyped
<1>5. NoticeFacts
  BY <1>2, <1>3 DEF NotificationInit, NoticeFacts, Ended
<1>6. ASSUME NEW e \in Endpoint PROVE Unsent(e) = {} /\ told[e].sent = 0 /\ told[e].after = 0
                                      /\ endpoint[e] = "none" /\ notice[e].attempts = 0
  BY <1>2, <1>3 DEF NotificationInit, Unsent
<1>7. NoticeCount
  BY <1>6, FS_EmptySet DEF NoticeCount
<1> QED BY <1>4, <1>5, <1>7 DEF NoticeInv

\* A step that sends nothing and claims nothing, and lets no worker read the address
\* of a removed endpoint, keeps the counts.
LEMMA NoticeCountKept ==
  ASSUME NoticeInv, NoticeTyped', told' = told,
         \A e \in Endpoint :
            /\ notice'[e].attempts = notice[e].attempts
            /\ endpoint[e] = "removed" => endpoint'[e] = "removed" /\ Ready(e)' \subseteq Ready(e)
            /\ Unsent(e)' \subseteq Unsent(e)
  PROVE  NoticeCount'
<1> SUFFICES ASSUME NEW e \in Endpoint
             PROVE  /\ told'[e].sent + Cardinality(Unsent(e)') <= notice'[e].attempts
                    /\ endpoint'[e] # "removed" => told'[e].after = 0
                    /\ endpoint'[e] = "removed" =>
                          told'[e].after + Cardinality(Ready(e)') <= Cardinality(Messenger)
  BY DEF NoticeCount
<1>1. /\ Unsent(e) \in SUBSET Messenger /\ Unsent(e)' \in SUBSET Unsent(e)
      /\ Ready(e) \in SUBSET Messenger /\ Ready(e)' \in SUBSET Messenger
  BY DEF Unsent, Ready
<1>2. /\ Cardinality(Unsent(e)') <= Cardinality(Unsent(e))
      /\ Cardinality(Unsent(e)') \in Nat /\ Cardinality(Unsent(e)) \in Nat
  BY <1>1, CrewGrows, CrewIsFinite
<1>3. /\ Cardinality(Ready(e)') \in Nat /\ Cardinality(Ready(e)) \in Nat
      /\ Cardinality(Ready(e)') <= Cardinality(Messenger) /\ Cardinality(Messenger) \in Nat
  BY <1>1, CrewIsFinite
<1>4. told[e].sent \in Nat /\ told[e].after \in Nat /\ notice[e].attempts \in Nat
  BY NotificationAssumption DEF NoticeInv, NoticeTyped, NoticeRecord
<1>5. told'[e].sent + Cardinality(Unsent(e)') <= notice'[e].attempts
  BY <1>2, <1>4 DEF NoticeInv, NoticeCount
<1>6. endpoint'[e] # "removed" => told'[e].after = 0
  BY DEF NoticeInv, NoticeCount
<1>7. CASE endpoint[e] = "removed"
  <2>1. Cardinality(Ready(e)') <= Cardinality(Ready(e))
    BY <1>1, <1>7, CrewGrows
  <2> QED BY <1>3, <1>4, <1>5, <1>6, <1>7, <2>1 DEF NoticeInv, NoticeCount
<1>8. CASE endpoint[e] # "removed"
  BY <1>3, <1>4, <1>5, <1>6, <1>8 DEF NoticeInv, NoticeCount
<1> QED BY <1>7, <1>8

\* What a step that neither claims nor sends may do to the delivery of e.
DocumentKept(e) ==
    /\ endpoint[e] # "none" => endpoint'[e] # "none"
    /\ endpoint[e] = "removed" => endpoint'[e] = "removed"
    /\ notice'[e].attempts = notice[e].attempts
    /\ notice'[e].lease \in {0, notice[e].lease}
    /\ notice'[e].status \in Ended => notice'[e].lease = 0
    /\ notice'[e].status # "none" \/ e \in queueing' => endpoint'[e] # "none"

\* What such a step may do with worker v: leave it, let go of its claim, or go on with it.
WorkerKept(v) ==
    \/ messenger'[v] = messenger[v]
    \/ messenger'[v].pc = "idle"
    \/ /\ messenger[v].pc # "idle"
       /\ messenger'[v].e = messenger[v].e /\ messenger'[v].attempts = messenger[v].attempts
       /\ messenger'[v].pc = "send" => messenger[v].pc = "read" /\ endpoint[messenger[v].e] = "active"
       /\ messenger'[v].pc # "read"

\* Such a step keeps the invariant.
LEMMA NoticeKept ==
  ASSUME NoticeInv, NoticeTyped', told' = told,
         \A e \in Endpoint : DocumentKept(e),
         \A v \in Messenger : WorkerKept(v)
  PROVE  NoticeInv'
<1>1. NoticeFacts'
  <2>1. ASSUME NEW e \in Endpoint
        PROVE  /\ notice'[e].lease \in {0, notice'[e].attempts}
               /\ notice'[e].status \in Ended => notice'[e].lease = 0
               /\ notice'[e].status # "none" \/ e \in queueing' => endpoint'[e] # "none"
    BY <2>1 DEF NoticeInv, NoticeFacts, DocumentKept
  <2>2. ASSUME NEW v \in Messenger, messenger'[v].pc # "idle"
        PROVE  /\ messenger'[v].e \in Endpoint /\ messenger'[v].attempts >= 1
               /\ endpoint'[messenger'[v].e] # "none"
    BY <2>2 DEF NoticeInv, NoticeFacts, DocumentKept, WorkerKept
  <2> QED BY <2>1, <2>2 DEF NoticeFacts
<1>2. ASSUME NEW e \in Endpoint
      PROVE  /\ Unsent(e)' \subseteq Unsent(e)
             /\ endpoint[e] = "removed" => Ready(e)' \subseteq Ready(e)
  BY <1>2 DEF Unsent, Ready, WorkerKept
<1>3. NoticeCount'
  BY <1>2, NoticeCountKept DEF DocumentKept
<1> QED BY <1>1, <1>3 DEF NoticeInv

\* The owner, the settlement and time write no worker's copy.
LEMMA NoticeDocuments ==
  ASSUME NoticeInv, messenger' = messenger, told' = told,
         endpoint' \in [Endpoint -> {"none", "active", "removed"}],
         queueing' \in SUBSET Endpoint, notice' \in [Endpoint -> NoticeRecord],
         \A e \in Endpoint : DocumentKept(e)
  PROVE  NoticeInv'
<1>1. NoticeTyped'
  BY DEF NoticeInv, NoticeTyped
<1>2. \A v \in Messenger : WorkerKept(v)
  BY DEF WorkerKept
<1> QED BY <1>1, <1>2, NoticeKept

\* A delivery that is written in one place, with its endpoint as it was.
LEMMA NoticeWritten ==
  ASSUME NoticeInv, NEW e \in Endpoint, NEW r \in NoticeRecord,
         notice' = [notice EXCEPT ![e] = r], messenger' = messenger, told' = told,
         endpoint' = endpoint, queueing' \in SUBSET queueing,
         r.attempts = notice[e].attempts, r.lease \in {0, notice[e].lease},
         r.status \in Ended => r.lease = 0,
         r.status # "none" => endpoint[e] # "none"
  PROVE  NoticeInv'
<1>1. /\ notice \in [Endpoint -> NoticeRecord] /\ queueing \in SUBSET Endpoint
      /\ endpoint \in [Endpoint -> {"none", "active", "removed"}]
  BY DEF NoticeInv, NoticeTyped
<1>2. notice'[e] = r /\ \A d \in Endpoint \ {e} : notice'[d] = notice[d]
  BY <1>1
<1>3. ASSUME NEW d \in Endpoint PROVE DocumentKept(d)
  BY <1>1, <1>2, <1>3 DEF DocumentKept, NoticeInv, NoticeFacts
<1>4. notice' \in [Endpoint -> NoticeRecord]
  BY <1>1
<1> QED BY <1>1, <1>3, <1>4, NoticeDocuments

\* An endpoint that is created, marked or only about to be.
LEMMA EndpointWritten ==
  ASSUME NoticeInv, NEW e \in Endpoint, NEW s \in {"active", "removed"},
         endpoint' = [endpoint EXCEPT ![e] = s], endpoint[e] = "removed" => s = "removed",
         notice' = notice, messenger' = messenger, told' = told, queueing' = queueing
  PROVE  NoticeInv'
<1>1. /\ notice \in [Endpoint -> NoticeRecord] /\ queueing \in SUBSET Endpoint
      /\ endpoint \in [Endpoint -> {"none", "active", "removed"}]
  BY DEF NoticeInv, NoticeTyped
<1>2. ASSUME NEW d \in Endpoint PROVE DocumentKept(d)
  BY <1>1, <1>2 DEF DocumentKept, NoticeInv, NoticeFacts
<1>3. endpoint' \in [Endpoint -> {"none", "active", "removed"}]
  BY <1>1
<1> QED BY <1>1, <1>2, <1>3, NoticeDocuments

\* createPaymentReceipt, queueReceiptNotifications, the removals of an endpoint and the
\* end of a lease keep the invariant.
LEMMA NoticeDocumentStep ==
  ASSUME NoticeInv,
         \/ CreatePaymentReceipt \/ QueueReads
         \/ \E e \in Endpoint :
               \/ CreateNotificationEndpoint(e)
               \/ QueueReceiptNotifications(e) \/ NoticeLeaseLapses(e)
               \/ RemoveNotificationEndpoint(e) \/ DeleteContactEndpoints(e)
               \/ MarkEndpointDeleted(e) \/ CancelEndpointDeliveries(e)
  PROVE  NoticeInv'
<1>1. /\ notice \in [Endpoint -> NoticeRecord] /\ queueing \in SUBSET Endpoint
      /\ endpoint \in [Endpoint -> {"none", "active", "removed"}] /\ 0 \in 0..MaxTries
  BY NotificationAssumption DEF NoticeInv, NoticeTyped
<1>2. CASE CreatePaymentReceipt \/ QueueReads
  <2>1. /\ notice' = notice /\ endpoint' = endpoint /\ messenger' = messenger /\ told' = told
        /\ queueing' \in SUBSET Endpoint
        /\ \A e \in queueing' : e \in queueing \/ endpoint[e] = "active"
    BY <1>1, <1>2 DEF CreatePaymentReceipt, QueueReads
  <2>2. ASSUME NEW e \in Endpoint PROVE DocumentKept(e)
    BY <2>1, <2>2 DEF DocumentKept, NoticeInv, NoticeFacts
  <2> QED BY <1>1, <2>1, <2>2, NoticeDocuments
<1>3. ASSUME NEW e \in Endpoint, CreateNotificationEndpoint(e) PROVE NoticeInv'
  BY <1>3, EndpointWritten DEF CreateNotificationEndpoint
<1>4. ASSUME NEW e \in Endpoint, RemoveNotificationEndpoint(e) \/ MarkEndpointDeleted(e)
      PROVE  NoticeInv'
  BY <1>4, EndpointWritten DEF RemoveNotificationEndpoint, MarkEndpointDeleted
<1>5. ASSUME NEW e \in Endpoint, DeleteContactEndpoints(e) PROVE NoticeInv'
  <2>1. endpoint' = [endpoint EXCEPT ![e] = "active"] /\ endpoint[e] = "active"
    BY <1>1, <1>5 DEF DeleteContactEndpoints
  <2> QED BY <1>5, <2>1, EndpointWritten DEF DeleteContactEndpoints
<1>6. ASSUME NEW e \in Endpoint, QueueReceiptNotifications(e) PROVE NoticeInv'
  <2> DEFINE r == [notice[e] EXCEPT !.status = IF notice[e].status = "none" THEN "queued"
                                               ELSE notice[e].status]
  <2>1. r \in NoticeRecord /\ r.attempts = notice[e].attempts /\ r.lease = notice[e].lease
        /\ r.status \in {"queued", notice[e].status}
    BY <1>1 DEF NoticeRecord, OpenNotice
  <2>2. /\ notice' = [notice EXCEPT ![e] = r] /\ e \in queueing /\ queueing' \in SUBSET queueing
        /\ messenger' = messenger /\ told' = told /\ endpoint' = endpoint
    BY <1>1, <1>6 DEF QueueReceiptNotifications
  <2> HIDE DEF r
  <2>3. /\ r.status \in Ended => r.lease = 0
        /\ r.status # "none" => endpoint[e] # "none"
    BY <2>1, <2>2 DEF NoticeInv, NoticeFacts, Ended
  <2> QED BY <2>1, <2>2, <2>3, NoticeWritten
<1>7. ASSUME NEW e \in Endpoint, NoticeLeaseLapses(e) PROVE NoticeInv'
  <2> DEFINE r == [notice[e] EXCEPT !.lapsed = TRUE]
  <2>1. r \in NoticeRecord /\ r.attempts = notice[e].attempts /\ r.lease = notice[e].lease
        /\ r.status = notice[e].status
    BY <1>1 DEF NoticeRecord
  <2>2. /\ notice' = [notice EXCEPT ![e] = r] /\ queueing' = queueing
        /\ messenger' = messenger /\ told' = told /\ endpoint' = endpoint
    BY <1>1, <1>7 DEF NoticeLeaseLapses
  <2> HIDE DEF r
  <2>3. /\ r.status \in Ended => r.lease = 0
        /\ r.status # "none" => endpoint[e] # "none"
    BY <2>1 DEF NoticeInv, NoticeFacts
  <2> QED BY <2>1, <2>2, <2>3, NoticeWritten
<1>8. ASSUME NEW e \in Endpoint, CancelEndpointDeliveries(e) PROVE NoticeInv'
  <2> DEFINE c == [notice[e] EXCEPT !.status = "cancelled", !.lease = 0, !.lapsed = TRUE]
             r == IF notice[e].status \in OpenNotice THEN c ELSE notice[e]
  <2>1. c \in NoticeRecord /\ c.attempts = notice[e].attempts /\ c.lease = 0
        /\ c.status = "cancelled"
    BY <1>1 DEF NoticeRecord, Ended
  <2>2. /\ notice' = [notice EXCEPT ![e] = r] /\ queueing' = queueing
        /\ messenger' = messenger /\ told' = told /\ endpoint' = endpoint
    BY <1>1, <1>8 DEF CancelEndpointDeliveries
  <2>3. (r = c /\ notice[e].status \in OpenNotice) \/ r = notice[e]
    OBVIOUS
  <2> HIDE DEF r, c
  <2>4. /\ r \in NoticeRecord /\ r.attempts = notice[e].attempts
        /\ r.lease \in {0, notice[e].lease}
        /\ r.status \in Ended => r.lease = 0
        /\ r.status # "none" => endpoint[e] # "none"
    BY <1>1, <2>1, <2>3 DEF NoticeInv, NoticeFacts, OpenNotice
  <2> QED BY <2>2, <2>4, NoticeWritten
<1> QED BY <1>2, <1>3, <1>4, <1>5, <1>6, <1>7, <1>8

\* EndsNotice writes the delivery only under the worker's lease, and lets go of it.
LEMMA NoticeEnds ==
  ASSUME NoticeInv, NEW w \in Messenger, NEW s \in {"succeeded", "failed", "cancelled", "retrying"},
         messenger[w].pc # "idle", EndsNotice(w, s), told' = told, endpoint' = endpoint,
         queueing' = queueing
  PROVE  NoticeInv'
<1> DEFINE e == messenger[w].e
           c == [notice[e] EXCEPT !.status = s, !.lease = 0, !.lapsed = TRUE]
           r == IF HoldsLease(w) THEN c ELSE notice[e]
<1>1. /\ notice \in [Endpoint -> NoticeRecord] /\ messenger \in [Messenger -> MessengerRecord]
      /\ 0 \in 0..MaxTries /\ e \in Endpoint
  BY NotificationAssumption DEF NoticeInv, NoticeTyped, NoticeFacts
<1>2. c \in NoticeRecord /\ c.attempts = notice[e].attempts /\ c.lease = 0
  BY <1>1 DEF NoticeRecord, OpenNotice, Ended
<1>3. notice' = [notice EXCEPT ![e] = r] /\ messenger' = [messenger EXCEPT ![w] = IdleMessenger]
  BY <1>1 DEF EndsNotice, MyNotice, MessengerGoes
<1>4. r = c \/ r = notice[e]
  OBVIOUS
<1>5. IdleMessenger \in MessengerRecord /\ IdleMessenger.pc = "idle"
  BY <1>1 DEF IdleMessenger, MessengerRecord
<1>6. endpoint[e] # "none"
  BY DEF NoticeInv, NoticeFacts
<1>7. PICK d : d = e
  OBVIOUS
<1> HIDE DEF r, c, e
<1>8. /\ r \in NoticeRecord /\ r.attempts = notice[e].attempts /\ r.lease \in {0, notice[e].lease}
      /\ r.status \in Ended => r.lease = 0
  BY <1>1, <1>2, <1>4 DEF NoticeInv, NoticeFacts
<1>9. /\ notice' \in [Endpoint -> NoticeRecord] /\ notice'[d] = r
      /\ \A b \in Endpoint \ {d} : notice'[b] = notice[b]
      /\ messenger' \in [Messenger -> MessengerRecord] /\ messenger'[w].pc = "idle"
      /\ \A v \in Messenger \ {w} : messenger'[v] = messenger[v]
  BY <1>1, <1>3, <1>5, <1>7, <1>8
<1>10. NoticeTyped'
  BY <1>9 DEF NoticeInv, NoticeTyped
<1>11. ASSUME NEW b \in Endpoint PROVE DocumentKept(b)
  BY <1>6, <1>7, <1>8, <1>9, <1>11 DEF DocumentKept, NoticeInv, NoticeFacts
<1>12. \A v \in Messenger : WorkerKept(v)
  BY <1>9 DEF WorkerKept
<1> QED BY <1>10, <1>11, <1>12, NoticeKept

\* A worker goes on with its claim without sending, or drops it.
LEMMA MessengerMoves ==
  ASSUME NoticeInv, NEW w \in Messenger, FindsEndpointActive(w) \/ MessengerStops(w)
  PROVE  NoticeInv'
<1> DEFINE m == messenger[w]
<1>1. /\ messenger \in [Messenger -> MessengerRecord] /\ 0 \in 0..MaxTries
      /\ told' = told /\ endpoint' = endpoint /\ queueing' = queueing /\ notice' = notice
  BY NotificationAssumption
     DEF NoticeInv, NoticeTyped, FindsEndpointActive, MessengerStops
<1>2. PICK r \in MessengerRecord :
         /\ messenger' = [messenger EXCEPT ![w] = r]
         /\ \/ r.pc = "idle"
            \/ /\ m.pc = "read" /\ r.pc = "send" /\ r.e = m.e /\ r.attempts = m.attempts
               /\ endpoint[m.e] = "active"
  <2>1. CASE MessengerStops(w)
    <3>1. IdleMessenger \in MessengerRecord /\ IdleMessenger.pc = "idle"
      BY <1>1 DEF IdleMessenger, MessengerRecord
    <3> QED BY <2>1, <3>1 DEF MessengerStops, MessengerGoes
  <2>2. CASE FindsEndpointActive(w)
    <3> DEFINE r == [m EXCEPT !.pc = "send"]
    <3>1. r \in MessengerRecord /\ r.pc = "send" /\ r.e = m.e /\ r.attempts = m.attempts
      BY <1>1 DEF MessengerRecord
    <3>2. messenger' = [messenger EXCEPT ![w] = r] /\ m.pc = "read" /\ endpoint[m.e] = "active"
      BY <2>2 DEF FindsEndpointActive, MessengerGoes, EndpointActive, MyNotice
    <3> HIDE DEF r
    <3> QED BY <3>1, <3>2
  <2> QED BY <2>1, <2>2
<1>3. /\ messenger' \in [Messenger -> MessengerRecord] /\ messenger'[w] = r
      /\ \A v \in Messenger \ {w} : messenger'[v] = messenger[v]
  BY <1>1, <1>2
<1>4. NoticeTyped'
  BY <1>1, <1>3 DEF NoticeInv, NoticeTyped
<1>5. ASSUME NEW e \in Endpoint PROVE DocumentKept(e)
  BY <1>1, <1>5 DEF DocumentKept, NoticeInv, NoticeFacts
<1>6. ASSUME NEW v \in Messenger PROVE WorkerKept(v)
  BY <1>2, <1>3, <1>6 DEF WorkerKept
<1> QED BY <1>1, <1>4, <1>5, <1>6, NoticeKept

\* A claim counts as an attempt and adds one worker that has not sent.
LEMMA NoticeClaimed ==
  ASSUME NoticeInv, NEW w \in Messenger, NEW e \in Endpoint, ClaimNotificationDelivery(w, e)
  PROVE  NoticeInv'
<1> DEFINE n == notice[e].attempts + 1
<1>1. /\ notice \in [Endpoint -> NoticeRecord] /\ messenger \in [Messenger -> MessengerRecord]
      /\ MaxTries \in Nat /\ notice[e].attempts \in 0..MaxTries
      /\ messenger[w].pc = "idle" /\ notice[e].attempts < MaxTries
      /\ notice[e].status \in OpenNotice
  BY NotificationAssumption
     DEF NoticeInv, NoticeTyped, NoticeRecord, ClaimNotificationDelivery, NoticeClaimable
<1>2. n \in 0..MaxTries /\ n >= 1
  BY <1>1
<1>3. PICK r \in NoticeRecord, m \in MessengerRecord :
         /\ notice' = [notice EXCEPT ![e] = r] /\ messenger' = [messenger EXCEPT ![w] = m]
         /\ r.status = "delivering" /\ r.attempts = n /\ r.lease = n
         /\ m.pc = "read" /\ m.e = e /\ m.attempts = n
  <2> DEFINE r == [status |-> "delivering", attempts |-> n, lease |-> n, lapsed |-> FALSE]
             m == [pc |-> "read", e |-> e, attempts |-> n]
  <2>1. /\ r \in NoticeRecord /\ m \in MessengerRecord
        /\ r.status = "delivering" /\ r.attempts = n /\ r.lease = n
        /\ m.pc = "read" /\ m.e = e /\ m.attempts = n
    BY <1>2 DEF NoticeRecord, MessengerRecord, OpenNotice
  <2>2. notice' = [notice EXCEPT ![e] = r] /\ messenger' = [messenger EXCEPT ![w] = m]
    BY DEF ClaimNotificationDelivery, MessengerGoes, Taken
  <2> HIDE DEF r, m
  <2> QED BY <2>1, <2>2
<1>4. /\ notice' \in [Endpoint -> NoticeRecord] /\ messenger' \in [Messenger -> MessengerRecord]
      /\ notice'[e] = r /\ \A b \in Endpoint \ {e} : notice'[b] = notice[b]
      /\ messenger'[w] = m /\ \A v \in Messenger \ {w} : messenger'[v] = messenger[v]
      /\ endpoint' = endpoint /\ queueing' = queueing /\ told' = told
  BY <1>1, <1>3 DEF ClaimNotificationDelivery
<1>5. NoticeTyped'
  BY <1>4 DEF NoticeInv, NoticeTyped
<1>6. endpoint[e] # "none"
  BY <1>1 DEF NoticeInv, NoticeFacts, OpenNotice
<1>7. NoticeFacts'
  <2>1. ASSUME NEW b \in Endpoint
        PROVE  /\ notice'[b].lease \in {0, notice'[b].attempts}
               /\ notice'[b].status \in Ended => notice'[b].lease = 0
               /\ notice'[b].status # "none" \/ b \in queueing' => endpoint'[b] # "none"
    BY <1>3, <1>4, <1>6, <2>1 DEF NoticeInv, NoticeFacts, Ended
  <2>2. ASSUME NEW v \in Messenger, messenger'[v].pc # "idle"
        PROVE  /\ messenger'[v].e \in Endpoint /\ messenger'[v].attempts >= 1
               /\ endpoint'[messenger'[v].e] # "none"
    BY <1>2, <1>3, <1>4, <1>6, <2>2 DEF NoticeInv, NoticeFacts
  <2> QED BY <2>1, <2>2 DEF NoticeFacts
<1>8. ASSUME NEW b \in Endpoint
      PROVE  /\ told'[b].sent + Cardinality(Unsent(b)') <= notice'[b].attempts
             /\ endpoint'[b] # "removed" => told'[b].after = 0
             /\ endpoint'[b] = "removed" =>
                   told'[b].after + Cardinality(Ready(b)') <= Cardinality(Messenger)
  <2>1. Unsent(b) \in SUBSET Messenger /\ Cardinality(Unsent(b)) \in Nat /\ IsFiniteSet(Unsent(b))
    BY CrewIsFinite DEF Unsent
  <2>2. Ready(b)' = Ready(b)
    BY <1>1, <1>3, <1>4 DEF Ready
  <2>3. told[b].sent \in Nat /\ notice[b].attempts \in Nat
    BY <1>1 DEF NoticeInv, NoticeTyped, NoticeRecord
  <2>4. told[b].sent + Cardinality(Unsent(b)) <= notice[b].attempts
    BY DEF NoticeInv, NoticeCount
  <2>5. CASE b = e
    <3>1. Unsent(b)' = Unsent(b) \cup {w} /\ w \notin Unsent(b)
      BY <1>1, <1>3, <1>4, <2>5 DEF Unsent
    <3>2. Cardinality(Unsent(b)') = Cardinality(Unsent(b)) + 1
      BY <2>1, <3>1, FS_AddElement
    <3>3. told'[b].sent + Cardinality(Unsent(b)') <= notice'[b].attempts
      BY <1>3, <1>4, <2>1, <2>3, <2>4, <2>5, <3>2
    <3> QED BY <1>4, <2>2, <3>3 DEF NoticeInv, NoticeCount
  <2>6. CASE b # e
    <3>1. Unsent(b)' = Unsent(b)
      BY <1>1, <1>3, <1>4, <2>6 DEF Unsent
    <3> QED BY <1>4, <2>2, <2>4, <2>6, <3>1 DEF NoticeInv, NoticeCount
  <2> QED BY <2>5, <2>6
<1>9. NoticeCount'
  BY <1>8 DEF NoticeCount
<1> QED BY <1>5, <1>7, <1>9 DEF NoticeInv

\* A message uses up the claim of the worker that sends it.
LEMMA NoticeSent ==
  ASSUME NoticeInv, NEW w \in Messenger, NEW o \in {"delivered", "failed"}, SendNotice(w, o)
  PROVE  NoticeInv'
<1>1. PICK e : e = messenger[w].e
  OBVIOUS
<1>2. /\ messenger \in [Messenger -> MessengerRecord] /\ messenger[w].pc = "send"
      /\ told \in [Endpoint -> [sent: Nat, after: Nat]] /\ e \in Endpoint
      /\ endpoint[e] \in {"active", "removed"}
  BY <1>1 DEF NoticeInv, NoticeTyped, NoticeFacts, SendNotice
<1>3. /\ endpoint' = endpoint /\ queueing' = queueing /\ notice' = notice
  BY DEF SendNotice
<1>4. PICK m \in MessengerRecord :
         /\ messenger' = [messenger EXCEPT ![w] = m] /\ m.pc = o /\ m.e = e
         /\ m.attempts = messenger[w].attempts
  <2> DEFINE m == [messenger[w] EXCEPT !.pc = o]
  <2>1. m \in MessengerRecord /\ m.pc = o /\ m.e = e /\ m.attempts = messenger[w].attempts
    BY <1>1, <1>2 DEF MessengerRecord
  <2>2. messenger' = [messenger EXCEPT ![w] = m]
    BY DEF SendNotice, MessengerGoes
  <2> HIDE DEF m
  <2> QED BY <2>1, <2>2
<1>5. PICK t \in [sent: Nat, after: Nat] :
         /\ told' = [told EXCEPT ![e] = t] /\ t.sent = told[e].sent + 1
         /\ t.after = IF endpoint[e] = "active" THEN told[e].after ELSE told[e].after + 1
  <2> DEFINE t == [sent |-> told[e].sent + 1,
                   after |-> IF endpoint[e] = "active" THEN told[e].after ELSE told[e].after + 1]
  <2>1. told[e].sent \in Nat /\ told[e].after \in Nat
    BY <1>2
  <2>2. /\ t \in [sent: Nat, after: Nat] /\ t.sent = told[e].sent + 1
        /\ t.after = IF endpoint[e] = "active" THEN told[e].after ELSE told[e].after + 1
    BY <2>1
  <2>3. told' = [told EXCEPT ![e] = t]
    <3>1. told' = [told EXCEPT ![e].sent = @ + 1,
                     ![e].after = IF endpoint[e] = "active" THEN @ ELSE @ + 1]
      BY <1>1 DEF SendNotice, MyNotice
    <3>2. DOMAIN told' = Endpoint /\ \A b \in Endpoint \ {e} : told'[b] = told[b]
      BY <1>2, <3>1
    <3>3. told'[e] = t
      BY <1>2, <2>1, <3>1
    <3>4. told' = [b \in Endpoint |-> told'[b]]
      BY <3>1, <1>2
    <3> QED BY <1>2, <3>2, <3>3, <3>4
  <2> HIDE DEF t
  <2> QED BY <2>2, <2>3
<1>6. /\ messenger' \in [Messenger -> MessengerRecord] /\ messenger'[w] = m
      /\ \A v \in Messenger \ {w} : messenger'[v] = messenger[v]
      /\ told' \in [Endpoint -> [sent: Nat, after: Nat]] /\ told'[e] = t
      /\ \A b \in Endpoint \ {e} : told'[b] = told[b]
  BY <1>2, <1>4, <1>5
<1>7. NoticeTyped'
  BY <1>3, <1>6 DEF NoticeInv, NoticeTyped
<1>8. NoticeFacts'
  BY <1>1, <1>2, <1>3, <1>4, <1>6 DEF NoticeInv, NoticeFacts
<1>9. ASSUME NEW b \in Endpoint
      PROVE  /\ told'[b].sent + Cardinality(Unsent(b)') <= notice'[b].attempts
             /\ endpoint'[b] # "removed" => told'[b].after = 0
             /\ endpoint'[b] = "removed" =>
                   told'[b].after + Cardinality(Ready(b)') <= Cardinality(Messenger)
  <2>1. CASE b = e
    <3>1. /\ Unsent(b)' = Unsent(b) \ {w} /\ w \in Unsent(b)
          /\ Ready(b)' = Ready(b) \ {w} /\ w \in Ready(b)
      BY <1>1, <1>2, <1>4, <1>6, <2>1 DEF Unsent, Ready
    <3>2. /\ Unsent(b) \in SUBSET Messenger /\ Cardinality(Unsent(b)) \in Nat
          /\ IsFiniteSet(Unsent(b))
          /\ Ready(b) \in SUBSET Messenger /\ Cardinality(Ready(b)) \in Nat
          /\ IsFiniteSet(Ready(b)) /\ Cardinality(Messenger) \in Nat
      BY CrewIsFinite DEF Unsent, Ready
    <3>3. /\ Cardinality(Unsent(b)') = Cardinality(Unsent(b)) - 1
          /\ Cardinality(Ready(b)') = Cardinality(Ready(b)) - 1
      BY <3>1, <3>2, FS_RemoveElement, ZenonT(30)
    <3>4. told[b].sent \in Nat /\ told[b].after \in Nat /\ notice[b].attempts \in Nat
      BY <1>2, NotificationAssumption DEF NoticeInv, NoticeTyped, NoticeRecord
    <3>5. told'[b].sent = told[b].sent + 1 /\ notice'[b].attempts = notice[b].attempts
      BY <1>3, <1>5, <1>6, <2>1
    <3>6. told'[b].sent + Cardinality(Unsent(b)') <= notice'[b].attempts
      BY <3>2, <3>3, <3>4, <3>5 DEF NoticeInv, NoticeCount
    <3>7. CASE endpoint[b] = "active"
      <4>1. told'[b].after = 0 /\ endpoint'[b] = "active"
        BY <1>3, <1>5, <1>6, <2>1, <3>7 DEF NoticeInv, NoticeCount
      <4> QED BY <3>6, <4>1
    <3>8. CASE endpoint[b] = "removed"
      <4>1. told'[b].after = told[b].after + 1 /\ endpoint'[b] = "removed"
        BY <1>3, <1>5, <1>6, <2>1, <3>8
      <4>2. told'[b].after + Cardinality(Ready(b)') <= Cardinality(Messenger)
        BY <3>2, <3>3, <3>4, <3>8, <4>1 DEF NoticeInv, NoticeCount
      <4> QED BY <3>6, <4>1, <4>2
    <3> QED BY <1>2, <2>1, <3>7, <3>8
  <2>2. CASE b # e
    <3>1. Unsent(b)' = Unsent(b) /\ Ready(b)' = Ready(b)
      BY <1>1, <1>4, <1>6, <2>2 DEF Unsent, Ready
    <3> QED BY <1>3, <1>6, <2>2, <3>1 DEF NoticeInv, NoticeCount
  <2> QED BY <2>1, <2>2
<1>10. NoticeCount'
  BY <1>9 DEF NoticeCount
<1> QED BY <1>7, <1>8, <1>10 DEF NoticeInv

\* Each step of the owners, the settlement, the workers and of time keeps the invariant.
LEMMA NoticeStep == NoticeInv /\ [NotificationNext]_noticeVars => NoticeInv'
<1> SUFFICES ASSUME NoticeInv, [NotificationNext]_noticeVars PROVE NoticeInv'
  OBVIOUS
<1>1. CASE UNCHANGED noticeVars
  BY <1>1 DEF noticeVars, NoticeInv, NoticeTyped, NoticeFacts, NoticeCount, Unsent, Ready
<1>2. ASSUME NEW w \in Messenger, FindsEndpointRemoved(w) PROVE NoticeInv'
  BY <1>2, NoticeEnds DEF FindsEndpointRemoved
<1>3. ASSUME NEW w \in Messenger, RecordsDelivered(w) PROVE NoticeInv'
  BY <1>3, NoticeEnds DEF RecordsDelivered
<1>4. ASSUME NEW w \in Messenger, RecordsFailure(w) PROVE NoticeInv'
  <2>1. PICK s \in {"succeeded", "failed", "cancelled", "retrying"} :
           s = IF Terminal(w) THEN "failed" ELSE "retrying"
    OBVIOUS
  <2> QED BY <1>4, <2>1, NoticeEnds DEF RecordsFailure
<1> QED BY <1>1, <1>2, <1>3, <1>4, NoticeDocumentStep, MessengerMoves, NoticeClaimed, NoticeSent
        DEF NotificationNext, MessengerNext

\* An ended delivery has no lease, so no worker's write finds it.
LEMMA NoticeStaysEnded ==
  ASSUME NoticeInv, [NotificationNext]_noticeVars, NEW e \in Endpoint, notice[e].status \in Ended
  PROVE  notice'[e] = notice[e]
<1>1. /\ notice \in [Endpoint -> NoticeRecord] /\ notice[e].lease = 0
      /\ notice[e].status \notin OpenNotice \cup {"none"}
  BY DEF NoticeInv, NoticeTyped, NoticeFacts, Ended, OpenNotice
<1>2. ASSUME NEW w \in Messenger, messenger[w].pc # "idle", NEW s, EndsNotice(w, s)
      PROVE  notice'[e] = notice[e]
  <2>1. messenger[w].e \in Endpoint /\ messenger[w].attempts >= 1
    BY <1>2 DEF NoticeInv, NoticeFacts
  <2>2. messenger[w].e = e => ~HoldsLease(w)
    BY <1>1, <2>1 DEF HoldsLease, MyNotice
  <2>3. CASE messenger[w].e = e
    BY <1>1, <1>2, <2>2, <2>3 DEF EndsNotice, MyNotice
  <2>4. CASE messenger[w].e # e
    BY <1>1, <1>2, <2>4 DEF EndsNotice, MyNotice
  <2> QED BY <2>3, <2>4
<1>3. ASSUME NEW w \in Messenger, \/ FindsEndpointRemoved(w) \/ RecordsDelivered(w)
                                  \/ RecordsFailure(w)
      PROVE  notice'[e] = notice[e]
  <2>1. messenger[w].pc # "idle" /\ \E s : EndsNotice(w, s)
    BY <1>3 DEF FindsEndpointRemoved, RecordsDelivered, RecordsFailure
  <2> QED BY <1>2, <2>1
<1>4. ASSUME NEW w \in Messenger, NEW d \in Endpoint, ClaimNotificationDelivery(w, d)
      PROVE  notice'[e] = notice[e]
  BY <1>1, <1>4 DEF ClaimNotificationDelivery, NoticeClaimable
<1>5. ASSUME NEW d \in Endpoint, \/ QueueReceiptNotifications(d) \/ NoticeLeaseLapses(d)
                                 \/ CancelEndpointDeliveries(d)
      PROVE  notice'[e] = notice[e]
  <2>1. CASE QueueReceiptNotifications(d)
    BY <1>1, <2>1 DEF QueueReceiptNotifications, NoticeRecord
  <2>2. CASE NoticeLeaseLapses(d)
    BY <1>1, <2>2 DEF NoticeLeaseLapses, OpenNotice
  <2>3. CASE CancelEndpointDeliveries(d)
    BY <1>1, <2>3 DEF CancelEndpointDeliveries
  <2> QED BY <1>5, <2>1, <2>2, <2>3
<1>6. CASE notice' = notice
  BY <1>6
<1>7. notice' # notice =>
        \/ \E w \in Messenger : \/ FindsEndpointRemoved(w) \/ RecordsDelivered(w)
                                \/ RecordsFailure(w)
                                \/ \E d \in Endpoint : ClaimNotificationDelivery(w, d)
        \/ \E d \in Endpoint : \/ QueueReceiptNotifications(d) \/ NoticeLeaseLapses(d)
                               \/ CancelEndpointDeliveries(d)
  BY DEF NotificationNext, MessengerNext, noticeVars, CreatePaymentReceipt, QueueReads,
         CreateNotificationEndpoint, RemoveNotificationEndpoint, DeleteContactEndpoints,
         MarkEndpointDeleted, FindsEndpointActive, SendNotice, MessengerStops
<1> QED BY <1>3, <1>4, <1>5, <1>6, <1>7

\* The counts bound what an endpoint is told.
LEMMA NoticeBounds == NoticeInv => NotificationTypeOK /\ NoticesBounded /\ LateNoticesBounded
<1> SUFFICES ASSUME NoticeInv
             PROVE  NotificationTypeOK /\ NoticesBounded /\ LateNoticesBounded
  OBVIOUS
<1>1. NotificationTypeOK
  BY DEF NoticeInv, NoticeTyped, NoticeFacts, NoticeRecord, MessengerRecord, NotificationTypeOK
<1>2. ASSUME NEW e \in Endpoint
      PROVE  /\ told[e].sent <= notice[e].attempts /\ told[e].sent <= MaxTries
             /\ told[e].after <= Cardinality(Messenger)
  <2>1. /\ told[e].sent \in Nat /\ told[e].after \in Nat /\ MaxTries \in Nat
        /\ notice[e].attempts \in 0..MaxTries
    BY NotificationAssumption DEF NoticeInv, NoticeTyped, NoticeRecord
  <2>2. /\ Cardinality(Unsent(e)) \in Nat /\ Cardinality(Ready(e)) \in Nat
        /\ Cardinality(Messenger) \in Nat
    BY CrewIsFinite DEF Unsent, Ready
  <2> QED BY <2>1, <2>2 DEF NoticeInv, NoticeCount
<1> QED BY <1>1, <1>2 DEF NoticesBounded, LateNoticesBounded

\* runReceiptNotificationWorker: a recipient is told of a receipt at most once per claim
\* and at most MaxTries times, a removed endpoint at most once more by each worker, and
\* a delivery that has ended is never written again, for any number of workers that
\* lapse, stop and overlap.
THEOREM NoticesCorrect == NotificationSpec => []NotificationTypeOK /\ NoticesSound
<1>1. NoticeInv /\ [NotificationNext]_noticeVars =>
        [\A e \in Endpoint : notice[e].status \in Ended => notice'[e] = notice[e]]_noticeVars
  BY NoticeStaysEnded
<1> QED BY <1>1, NoticeBounds, NoticeInitial, NoticeStep, PTL
        DEF NotificationSpec, NoticesSound, EndedNoticeStays

-----------------------------------------------------------------------------
\* The workers side by side.
WorkersInv == HookInv /\ CountInv /\ NoticeInv /\ LeaseInv

\* Whichever of them a step is about, the others' state is as it was.
LEMMA WorkersStep == WorkersInv /\ [EventuallyNext]_eventuallyVars => WorkersInv'
<1> SUFFICES ASSUME WorkersInv, [EventuallyNext]_eventuallyVars PROVE WorkersInv'
  OBVIOUS
<1>1. /\ [WebhookNext]_hookVars /\ [NotificationNext]_noticeVars /\ [WorkerLeaseNext]_leaseVars
  <2>1. CASE EventuallyNext
    BY <2>1 DEF EventuallyNext
  <2>2. CASE UNCHANGED eventuallyVars
    BY <2>2 DEF eventuallyVars
  <2> QED BY <2>1, <2>2
<1> QED BY <1>1, HookStep, CountStep, NoticeStep, LeaseStep DEF WorkersInv

\* runWebhookDeliveryWorker, runReceiptNotificationWorker and the reconciliation workers:
\* in every behaviour of the workers their documents keep their schema, a delivery's
\* status is honest, an endpoint is told a bounded number of times and a lease excludes.
THEOREM WorkersCorrect ==
  EventuallySpec => [](WorkersTypeOK /\ WebhookHonest /\ HolderSweepsAlone) /\ NoticesSound
<1>1. EventuallyInit => WorkersInv
  BY HookInitial, CountInitial, NoticeInitial, LeaseInitial DEF EventuallyInit, WorkersInv
<1>2. WorkersInv => WorkersTypeOK /\ WebhookHonest /\ HolderSweepsAlone
                    /\ NoticesBounded /\ LateNoticesBounded
  BY HookIsTyped, NoticeBounds, LeaseHolds DEF WorkersInv, WorkersTypeOK
<1>3. WorkersInv /\ [EventuallyNext]_eventuallyVars =>
        [\A e \in Endpoint : notice[e].status \in Ended => notice'[e] = notice[e]]_noticeVars
  <2> SUFFICES ASSUME NoticeInv, [EventuallyNext]_eventuallyVars
               PROVE  [\A e \in Endpoint : notice[e].status \in Ended =>
                                              notice'[e] = notice[e]]_noticeVars
    BY DEF WorkersInv
  <2>1. [NotificationNext]_noticeVars
    BY DEF EventuallyNext, eventuallyVars
  <2> QED BY <2>1, NoticeStaysEnded
<1> QED BY <1>1, <1>2, <1>3, WorkersStep, PTL DEF EventuallySpec, NoticesSound, EndedNoticeStays

=============================================================================
