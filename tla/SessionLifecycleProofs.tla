----------------------- MODULE SessionLifecycleProofs -----------------------
(***************************************************************************)
(* Top-ups, closings and status saves for any number of passes, owner      *)
(* requests, charges and amounts: the funding behind a pass is its limit,  *)
(* a close refunds what it releases, and a closed pass holds nothing.      *)
(***************************************************************************)
EXTENDS SessionLifecycle, ChargeReservationProofs

\* What a pass P with lifecycle fields L, allocation A and unsaved statuses S is
\* to keep.  Beyond the properties it says that an active allocation has returned
\* nothing yet, and that a pass that was not created has neither.
PassSound(P, L, A, S) ==
  /\ A.state = "active" =>
       /\ A.authorized = P.limit + (IF P.lifecycle = "top_up_pending" THEN L.amount ELSE 0)
       /\ A.spent = P.spent
       /\ A.released = 0
  /\ P.lifecycle \in {"revoke_pending", "settle_pending"} =>
       P.reserved = 0 /\ L.amount = P.limit - P.spent
  /\ P.status \in {"revoked", "settled"} => A.state # "active"
  /\ P.status = "none" => A.state = "none" /\ P.lifecycle = "idle" /\ S = {}

PassesSound == \A p \in Pass : PassSound(pass[p], life[p], alloc[p], saving[p])

\* The fields of the requests themselves.
OwnerTyped ==
  /\ life \in [Pass -> LifeRecord]
  /\ request \in [Request -> RequestRecord]
  /\ ops \in Ops
  /\ saving \in [Pass -> SUBSET {"active", "paused", "expired"}]
  /\ saves \in Nat
  /\ crashes \in Nat

\* The inductive invariant of the lifecycle operations.
LifecycleInv == LedgerInv /\ ReservationInv /\ OwnerTyped /\ PassesSound

\* Only charges spend the passes the owner works on here.
LEMMA OnlyCharges == Own = Pass /\ Shared = {}
  BY LifecycleAssumption DEF Own

\* The invariant implies what the runs check.
LEMMA LifecycleInvImplies ==
  LifecycleInv => /\ LifecycleTypeOK
                  /\ FundingFollowsLimit /\ RefundMatchesRelease /\ ClosedHoldsNothing
<1> SUFFICES ASSUME LifecycleInv
             PROVE  /\ LifecycleTypeOK
                    /\ FundingFollowsLimit /\ RefundMatchesRelease /\ ClosedHoldsNothing
  OBVIOUS
<1>1. LifecycleTypeOK
  BY DEF LifecycleInv, LifecycleTypeOK, LedgerInv, ReservationInv, OwnerTyped
<1>2. ASSUME NEW p \in Pass
      PROVE  PassSound(pass[p], life[p], alloc[p], saving[p])
  BY DEF LifecycleInv, PassesSound
<1>3. FundingFollowsLimit /\ ClosedHoldsNothing
  BY <1>2 DEF PassSound, FundingFollowsLimit, ClosedHoldsNothing, ToppingUp
<1>4. RefundMatchesRelease
  <2> SUFFICES ASSUME NEW p \in Pass, Closing(p)
               PROVE  /\ pass[p].reserved = 0
                      /\ life[p].amount = pass[p].limit - pass[p].spent
                      /\ alloc[p].state = "active" => Rest(alloc[p]) = life[p].amount
    BY DEF RefundMatchesRelease
  <2>1. /\ pass[p].limit \in Nat /\ pass[p].spent \in Nat
        /\ alloc[p].authorized \in Nat
    BY DEF LifecycleInv, ReservationInv, ReservationTypeOK, PassRecord, LedgerInv, FundingTypeOK,
           AllocationRecord
  <2>2. pass[p].lifecycle \in {"revoke_pending", "settle_pending"}
    BY DEF Closing
  <2>3. pass[p].reserved = 0 /\ life[p].amount = pass[p].limit - pass[p].spent
    BY <1>2, <2>2 DEF PassSound
  <2>4. ASSUME alloc[p].state = "active" PROVE Rest(alloc[p]) = life[p].amount
    <3>1. /\ alloc[p].authorized = pass[p].limit + 0
          /\ alloc[p].spent = pass[p].spent /\ alloc[p].released = 0
      BY <1>2, <2>2, <2>4 DEF PassSound
    <3> QED BY <2>1, <2>3, <3>1 DEF Rest
  <2> QED BY <2>3, <2>4
<1> QED BY <1>1, <1>3, <1>4

\* Initially there is no pass.
LEMMA LifecycleInitial == LifecycleInit => LifecycleInv
<1> SUFFICES ASSUME LifecycleInit PROVE LifecycleInv
  OBVIOUS
<1>1. LedgerInv /\ ReservationInv
  BY LedgerInit, ReservationInitial DEF LifecycleInit, StoreInit
<1>2. PassesSound
  BY DEF LifecycleInit, StoreInit, FundingInit, ReservationInit, PassesSound, PassSound,
         NoAllocation
<1>3. OwnerTyped
  <2>1. 0 \in Ops
    BY LifecycleAssumption DEF Ops
  <2>2. request \in [Request -> RequestRecord]
    BY <2>1 DEF LifecycleInit, RequestRecord, Kind
  <2> QED BY <2>1, <2>2 DEF LifecycleInit, OwnerTyped, LifeRecord
<1> QED BY <1>1, <1>2, <1>3 DEF LifecycleInv
-----------------------------------------------------------------------------
\* A step that concerns one pass at most keeps every pass sound if it keeps that one.
LEMMA OnePassMoves ==
  ASSUME PassesSound, NEW p \in Pass,
         \A q \in Pass \ {p} : /\ pass'[q] = pass[q] /\ life'[q] = life[q]
                               /\ alloc'[q] = alloc[q] /\ saving'[q] = saving[q],
         PassSound(pass'[p], life'[p], alloc'[p], saving'[p])
  PROVE  PassesSound'
<1> SUFFICES ASSUME NEW q \in Pass
             PROVE  PassSound(pass'[q], life'[q], alloc'[q], saving'[q])
  BY DEF PassesSound, PassSound
<1>1. CASE q = p
  BY <1>1
<1>2. CASE q # p
  BY <1>2 DEF PassesSound
<1> QED BY <1>1, <1>2

\* A step of the lifecycle that leaves the passes and their funding alone.
LEMMA NoPassMoves ==
  ASSUME LifecycleInv, UNCHANGED storeVars, UNCHANGED saving,
         \A p \in Pass : life'[p].amount = life[p].amount,
         OwnerTyped'
  PROVE  LifecycleInv'
<1>1. /\ source' = source /\ alloc' = alloc /\ loaded' = loaded
      /\ pass' = pass /\ daily' = daily /\ attempt' = attempt /\ today' = today
  BY DEF storeVars, fundingVars, reservationVars
<1>2. LedgerInv'
  BY <1>1, LedgerStutter DEF LifecycleInv, fundingVars
<1>3. ReservationInv'
  BY StoreStepKeeps DEF LifecycleInv
<1>4. PassesSound'
  BY <1>1 DEF LifecycleInv, PassesSound, PassSound
<1> QED BY <1>2, <1>3, <1>4 DEF LifecycleInv

\* The transition state and the final status of each kind of operation.
LEMMA Kinds ==
  /\ PendingOf("top_up") = "top_up_pending"
  /\ PendingOf("revoke") = "revoke_pending"
  /\ PendingOf("settle") = "settle_pending"
  /\ ClosedAs("revoke") = "revoked" /\ ClosedAs("settle") = "settled"
  BY DEF PendingOf, ClosedAs

\* The documents of one pass and one request, as far as the steps need them.
LEMMA LifecycleFacts ==
  ASSUME LifecycleInv
  PROVE  /\ LedgerInv /\ ReservationInv /\ OwnerTyped /\ PassesSound
         /\ pass \in [Pass -> PassRecord] /\ alloc \in [Pass -> AllocationRecord]
         /\ life \in [Pass -> LifeRecord] /\ request \in [Request -> RequestRecord]
         /\ saving \in [Pass -> SUBSET {"active", "paused", "expired"}]
         /\ \A p \in Pass : PassSound(pass[p], life[p], alloc[p], saving[p])
         /\ \A r \in Request : /\ request[r].pass \in Pass /\ request[r].kind \in Kind
                               /\ request[r].op \in Ops /\ request[r].key \in OwnerKey
                               /\ request[r].amount \in Nat
  BY DEF LifecycleInv, LedgerInv, FundingTypeOK, ReservationInv, ReservationTypeOK, OwnerTyped,
         PassesSound, RequestRecord

\* A request that only moves on is still typed.
LEMMA GotoTyped ==
  ASSUME request \in [Request -> RequestRecord], NEW r \in Request,
         NEW at \in {"idle", "claim", "submit", "provider", "unsure", "record", "complete"},
         Goto(r, at)
  PROVE  request' \in [Request -> RequestRecord]
  BY DEF Goto, RequestRecord

\* A step that writes one pass, without touching its counters.
LEMMA PassWritten ==
  ASSUME LifecycleInv, NEW p \in Pass, NEW new \in PassRecord,
         pass' = [pass EXCEPT ![p] = new],
         UNCHANGED <<daily, attempt, today>>,
         new.reserved = pass[p].reserved, new.spent = pass[p].spent,
         new.limit >= pass[p].limit, new.status # "none",
         LedgerInv', OwnerTyped',
         \A q \in Pass \ {p} : /\ life'[q] = life[q] /\ alloc'[q] = alloc[q]
                               /\ saving'[q] = saving[q],
         PassSound(new, life'[p], alloc'[p], saving'[p])
  PROVE  LifecycleInv'
<1>1. ReservationInv'
  BY PassQuiet DEF LifecycleInv
<1>2. pass'[p] = new /\ \A q \in Pass \ {p} : pass'[q] = pass[q]
  BY LifecycleFacts
<1>3. PassesSound'
  BY <1>2, LifecycleFacts, OnePassMoves
<1> QED BY <1>1, <1>3 DEF LifecycleInv

\* What a top-up of the allocation does to it.
LEMMA TopUpMoves ==
  ASSUME LedgerInv, NEW p \in Pass, NEW amount \in Nat, TopUpFunding(p, amount)
  PROVE  /\ \A q \in Pass \ {p} : alloc'[q] = alloc[q]
         /\ alloc[p].state = "active" /\ alloc'[p].state = "active"
         /\ alloc'[p].authorized = alloc[p].authorized + amount
         /\ alloc'[p].spent = alloc[p].spent /\ alloc'[p].released = alloc[p].released
<1> DEFINE a == alloc[p]
           b == ToppedUpAllocation(a, amount)
<1>1. a.state = "active" /\ alloc' = [alloc EXCEPT ![p] = b]
  BY DEF TopUpFunding
<1>2. Balanced(a)
  BY LedgerFacts
<1>3. alloc \in [Pass -> AllocationRecord]
  BY DEF LedgerInv, FundingTypeOK
<1> HIDE DEF a
<1>4. /\ Balanced(b) /\ b.state = "active" /\ b.remaining = a.remaining + amount
      /\ b.spent = a.spent /\ b.released = a.released
  BY <1>1, <1>2, ToppedUpBalanced
<1> HIDE DEF b
<1>5. b.authorized = a.authorized + amount
  BY <1>2, <1>4 DEF Balanced, AllocationRecord
<1> QED BY <1>1, <1>3, <1>4, <1>5 DEF a

\* What the debit of a charge does to the allocation: it stays active and has
\* spent more, or it is over.
LEMMA SettleMoves ==
  ASSUME LedgerInv, NEW p \in Pass, NEW n \in Nat, SettleFunding(p, n)
  PROVE  /\ \A q \in Pass \ {p} : alloc'[q] = alloc[q]
         /\ alloc[p].state = "active" /\ alloc'[p].state # "none"
         /\ alloc'[p].state = "active" =>
              /\ alloc'[p].authorized = alloc[p].authorized
              /\ alloc'[p].spent = alloc[p].spent + n /\ alloc'[p].released = alloc[p].released
<1> DEFINE a == alloc[p]
           b == SpentAllocation(a, n)
           last == p \in SingleUse /\ b.state = "active"
<1>1. /\ CanSpend(p, n)
      /\ alloc' = [alloc EXCEPT ![p] = IF last THEN ReleasedAllocation(b) ELSE b]
  BY DEF SettleFunding
<1>2. Balanced(a) /\ a.state = "active" /\ Rest(a) >= n
  BY <1>1, LedgerFacts DEF CanSpend
<1>3. alloc \in [Pass -> AllocationRecord]
  BY DEF LedgerInv, FundingTypeOK
<1> HIDE DEF a
<1>4. /\ Balanced(b) /\ b.state = IF b.remaining = 0 THEN "exhausted" ELSE "active"
      /\ b.remaining = a.remaining - n
      /\ b.spent = a.spent + n /\ b.released = a.released
  BY <1>2, SpentAllocationBalanced
<1> HIDE DEF b
<1>5. b.authorized = a.authorized /\ b.state # "none"
  BY <1>2, <1>4 DEF Balanced, AllocationRecord
<1>6. CASE last
  <2>1. ReleasedAllocation(b).state = "released"
    BY <1>4, <1>6, ReleasedAllocationBalanced
  <2> QED BY <1>1, <1>2, <1>3, <1>6, <2>1 DEF a
<1>7. CASE ~last
  BY <1>1, <1>2, <1>3, <1>4, <1>5, <1>7 DEF a
<1> QED BY <1>6, <1>7

\* A release ends the allocation.
LEMMA ReleaseMoves ==
  ASSUME LedgerInv, NEW p \in Pass, ReleaseFunding(p)
  PROVE  alloc'[p].state = "released" /\ \A q \in Pass \ {p} : alloc'[q] = alloc[q]
<1>1. alloc[p].state = "active" /\ alloc' = [alloc EXCEPT ![p] = ReleasedAllocation(alloc[p])]
  BY DEF ReleaseFunding
<1>2. Balanced(alloc[p]) /\ alloc \in [Pass -> AllocationRecord]
  BY LedgerFacts DEF LedgerInv, FundingTypeOK
<1>3. ReleasedAllocation(alloc[p]).state = "released"
  BY <1>1, <1>2, ReleasedAllocationBalanced
<1> QED BY <1>1, <1>2, <1>3
-----------------------------------------------------------------------------
\* The claim of a top-up or a close: a top-up authorizes what it will add to the
\* limit, a close remembers what is left, and the pass takes no charge from here on.
LEMMA ClaimKeeps ==
  ASSUME LifecycleInv, NEW r \in Request, ClaimOperation(r)
  PROVE  LifecycleInv'
<1> DEFINE q == request[r]
           p == q.pass
           n == ClaimedAmount(p, q.kind, q.amount)
           new == [pass[p] EXCEPT !.lifecycle = PendingOf(q.kind)]
           L == [op |-> q.op, key |-> q.key, done |-> FALSE, amount |-> n,
                 provider |-> "not_started"]
<1>1. /\ p \in Pass /\ q.kind \in Kind /\ q.op \in Ops /\ q.key \in OwnerKey /\ q.amount \in Nat
      /\ pass[p] \in PassRecord /\ PassSound(pass[p], life[p], alloc[p], saving[p])
      /\ pass \in [Pass -> PassRecord] /\ life \in [Pass -> LifeRecord]
      /\ LedgerInv /\ OwnerTyped
  BY LifecycleFacts
<1>2. /\ CanClaim(p, q.kind, q.key, q.amount)
      /\ ClaimFunding(p, q.kind, q.amount)
      /\ pass' = [pass EXCEPT ![p] = new]
      /\ life' = [life EXCEPT ![p] = L]
      /\ Goto(r, "submit")
      /\ UNCHANGED <<daily, attempt, today, ops, saving, saves, crashes>>
  BY DEF ClaimOperation
<1>3. n \in Nat /\ pass[p].spent <= pass[p].limit
  <2>1. pass[p].limit \in Nat /\ pass[p].spent \in Nat /\ pass[p].reserved \in Nat
    BY <1>1 DEF PassRecord
  <2>2. pass[p].spent + pass[p].reserved <= pass[p].limit
    BY <1>1, OnlyCharges, LifecycleFacts DEF ReservationInv, WithinLimit
  <2> QED BY <1>1, <2>1, <2>2 DEF ClaimedAmount
<1>4. PendingOf(q.kind) \in Lifecycle
  BY <1>1, LifecycleAssumption
<1>5. /\ new \in PassRecord /\ new.reserved = pass[p].reserved /\ new.spent = pass[p].spent
      /\ new.limit = pass[p].limit /\ new.status = pass[p].status
      /\ new.lifecycle = PendingOf(q.kind)
  BY <1>1, <1>4 DEF PassRecord
<1>6. pass[p].status \in Open /\ pass[p].lifecycle = "idle"
  BY <1>2 DEF CanClaim
<1>7. /\ L \in LifeRecord /\ L.amount = n
      /\ life'[p] = L /\ \A x \in Pass \ {p} : life'[x] = life[x]
      /\ life' \in [Pass -> LifeRecord]
  <2>1. L \in LifeRecord /\ L.amount = n
    BY <1>1, <1>3 DEF LifeRecord
  <2> HIDE DEF L
  <2> QED BY <1>1, <1>2, <2>1
<1> HIDE DEF L, new, n
<1>8. OwnerTyped'
  BY <1>1, <1>2, <1>7, GotoTyped DEF OwnerTyped
<1>9. /\ LedgerInv' /\ \A x \in Pass \ {p} : alloc'[x] = alloc[x]
      /\ alloc'[p].state = "active" =>
           /\ alloc[p].state = "active"
           /\ alloc'[p].authorized =
                alloc[p].authorized + (IF q.kind = "top_up" THEN q.amount ELSE 0)
           /\ alloc'[p].spent = alloc[p].spent /\ alloc'[p].released = alloc[p].released
  <2>1. CASE q.kind = "top_up" /\ alloc[p].state = "active"
    <3>1. TopUpFunding(p, q.amount)
      BY <1>2, <2>1 DEF ClaimFunding
    <3> QED BY <1>1, <2>1, <3>1, TopUpKeeps, TopUpMoves
  <2>2. CASE ~(q.kind = "top_up" /\ alloc[p].state = "active")
    <3>1. UNCHANGED fundingVars
      BY <1>2, <2>2 DEF ClaimFunding
    <3>2. alloc' = alloc /\ LedgerInv'
      BY <1>1, <3>1, LedgerStutter DEF fundingVars
    <3>3. alloc[p].authorized \in Nat
      BY <1>1 DEF LedgerInv, FundingTypeOK, AllocationRecord
    <3> QED BY <2>2, <3>2, <3>3
  <2> QED BY <2>1, <2>2
<1>10. PassSound(new, life'[p], alloc'[p], saving'[p])
  <2>1. /\ alloc[p].state = "active" => /\ alloc[p].authorized = pass[p].limit + 0
                                        /\ alloc[p].spent = pass[p].spent /\ alloc[p].released = 0
        /\ pass[p].limit \in Nat /\ pass[p].spent \in Nat
    BY <1>1, <1>6 DEF PassSound, PassRecord
  <2>2. new.status \in Open
    BY <1>5, <1>6
  <2>3. CASE q.kind = "top_up"
    <3>1. new.lifecycle = "top_up_pending" /\ n = q.amount
      BY <1>5, <2>3, Kinds DEF n, ClaimedAmount
    <3> QED BY <1>1, <1>3, <1>5, <1>7, <1>9, <2>1, <2>2, <2>3, <3>1 DEF PassSound, Open
  <2>4. CASE q.kind # "top_up"
    <3>1. new.lifecycle \in {"revoke_pending", "settle_pending"}
      BY <1>1, <1>5, <2>4, Kinds DEF Kind
    <3>2. new.reserved = 0 /\ n = pass[p].limit - pass[p].spent
      BY <1>2, <1>3, <1>5, <2>1, <2>4 DEF CanClaim, n, ClaimedAmount
    <3> QED BY <1>1, <1>3, <1>5, <1>7, <1>9, <2>1, <2>2, <2>4, <3>1, <3>2 DEF PassSound, Open
  <2> QED BY <2>3, <2>4
<1>11. new.limit >= pass[p].limit /\ new.status # "none"
  BY <1>1, <1>5, <1>6 DEF PassRecord, Open
<1>12. \A x \in Pass \ {p} : life'[x] = life[x] /\ alloc'[x] = alloc[x] /\ saving'[x] = saving[x]
  BY <1>2, <1>7, <1>9
<1> HIDE DEF p
<1> QED BY <1>1, <1>2, <1>5, <1>8, <1>9, <1>10, <1>11, <1>12, PassWritten

\* A completed top-up: the limit catches up with what was authorized.
LEMMA CompleteTopUpKeeps ==
  ASSUME LifecycleInv, NEW r \in Request, CompleteTopUp(r)
  PROVE  LifecycleInv'
<1> DEFINE q == request[r]
           p == q.pass
           more == pass[p].limit + life[p].amount
           new == [pass[p] EXCEPT !.limit = more, !.lifecycle = "idle"]
           L == [life[p] EXCEPT !.done = TRUE]
<1>1. /\ p \in Pass /\ pass[p] \in PassRecord /\ life[p] \in LifeRecord
      /\ PassSound(pass[p], life[p], alloc[p], saving[p])
      /\ pass \in [Pass -> PassRecord] /\ life \in [Pass -> LifeRecord]
      /\ LedgerInv /\ OwnerTyped
  BY LifecycleFacts
<1>2. /\ q.kind = "top_up" /\ CanComplete(q)
      /\ pass' = [pass EXCEPT ![p] = new]
      /\ life' = [life EXCEPT ![p] = L]
      /\ Goto(r, "idle")
      /\ UNCHANGED <<daily, attempt, today, fundingVars, ops, saving, saves, crashes>>
  BY DEF CompleteTopUp
<1>3. pass[p].lifecycle = "top_up_pending"
  BY <1>2, Kinds DEF CanComplete, Claimed
<1>4. more \in Nat /\ more >= pass[p].limit
  BY <1>1 DEF PassRecord, LifeRecord
<1>5. /\ L \in LifeRecord /\ life'[p] = L /\ \A x \in Pass \ {p} : life'[x] = life[x]
      /\ life' \in [Pass -> LifeRecord]
  BY <1>1, <1>2 DEF LifeRecord
<1> HIDE DEF more, L
<1>6. /\ new \in PassRecord /\ new.reserved = pass[p].reserved /\ new.spent = pass[p].spent
      /\ new.limit = more /\ new.status = pass[p].status /\ new.lifecycle = "idle"
  BY <1>1, <1>4, ReservationAssumption DEF PassRecord
<1> HIDE DEF new
<1>7. OwnerTyped'
  BY <1>1, <1>2, <1>5, GotoTyped DEF OwnerTyped
<1>8. LedgerInv' /\ alloc' = alloc
  BY <1>1, <1>2, LedgerStutter DEF fundingVars
<1>9. new.status # "none"
  BY <1>1, <1>3, <1>6 DEF PassSound
<1>10. PassSound(new, life'[p], alloc'[p], saving'[p])
  <2>1. alloc[p].state = "active" => alloc[p].authorized = more
    BY <1>1, <1>3 DEF PassSound, more
  <2>2. more + 0 = more
    BY <1>4
  <2> QED BY <1>1, <1>6, <1>8, <1>9, <2>1, <2>2 DEF PassSound
<1>11. \A x \in Pass \ {p} : life'[x] = life[x] /\ alloc'[x] = alloc[x] /\ saving'[x] = saving[x]
  BY <1>2, <1>5, <1>8
<1> HIDE DEF p
<1> QED BY <1>1, <1>2, <1>4, <1>6, <1>7, <1>8, <1>9, <1>10, <1>11, PassWritten

\* A completed close: the allocation goes back with the status.
LEMMA CompleteCloseKeeps ==
  ASSUME LifecycleInv, NEW r \in Request, CompleteClose(r)
  PROVE  LifecycleInv'
<1> DEFINE q == request[r]
           p == q.pass
           new == [pass[p] EXCEPT !.status = ClosedAs(q.kind), !.lifecycle = "idle"]
           L == [life[p] EXCEPT !.done = TRUE]
<1>1. /\ p \in Pass /\ pass[p] \in PassRecord /\ life[p] \in LifeRecord /\ q.kind \in Kind
      /\ PassSound(pass[p], life[p], alloc[p], saving[p])
      /\ pass \in [Pass -> PassRecord] /\ life \in [Pass -> LifeRecord]
      /\ LedgerInv /\ OwnerTyped
  BY LifecycleFacts
<1>2. /\ q.kind # "top_up" /\ CanComplete(q) /\ ReleaseRefund(p)
      /\ pass' = [pass EXCEPT ![p] = new]
      /\ life' = [life EXCEPT ![p] = L]
      /\ Goto(r, "idle")
      /\ UNCHANGED <<daily, attempt, today, ops, saving, saves, crashes>>
  BY DEF CompleteClose
<1>3. ClosedAs(q.kind) \in Status /\ ClosedAs(q.kind) # "none"
  BY <1>1, <1>2, Kinds, LifecycleAssumption DEF Kind
<1>4. /\ L \in LifeRecord /\ life'[p] = L /\ \A x \in Pass \ {p} : life'[x] = life[x]
      /\ life' \in [Pass -> LifeRecord]
  BY <1>1, <1>2 DEF LifeRecord
<1>5. /\ new \in PassRecord /\ new.reserved = pass[p].reserved /\ new.spent = pass[p].spent
      /\ new.limit = pass[p].limit /\ new.status = ClosedAs(q.kind) /\ new.lifecycle = "idle"
  BY <1>1, <1>3, ReservationAssumption DEF PassRecord
<1> HIDE DEF L, new
<1>6. OwnerTyped'
  BY <1>1, <1>2, <1>4, GotoTyped DEF OwnerTyped
<1>7. /\ LedgerInv' /\ \A x \in Pass \ {p} : alloc'[x] = alloc[x]
      /\ alloc'[p].state # "active"
  <2>1. CASE alloc[p].state = "active"
    <3>1. ReleaseFunding(p)
      BY <1>2, <2>1 DEF ReleaseRefund
    <3> QED BY <1>1, <3>1, ReleaseKeeps, ReleaseMoves
  <2>2. CASE alloc[p].state # "active"
    <3>1. UNCHANGED fundingVars
      BY <1>2, <2>2 DEF ReleaseRefund
    <3> QED BY <1>1, <2>2, <3>1, LedgerStutter DEF fundingVars
  <2> QED BY <2>1, <2>2
<1>8. PassSound(new, life'[p], alloc'[p], saving'[p])
  BY <1>3, <1>5, <1>7 DEF PassSound
<1>9. new.limit >= pass[p].limit /\ new.status # "none"
  BY <1>1, <1>3, <1>5 DEF PassRecord
<1>10. \A x \in Pass \ {p} : life'[x] = life[x] /\ alloc'[x] = alloc[x] /\ saving'[x] = saving[x]
  BY <1>2, <1>4, <1>7
<1> HIDE DEF p
<1> QED BY <1>1, <1>2, <1>5, <1>6, <1>7, <1>8, <1>9, <1>10, PassWritten

\* A late save of a computed status reopens a closed pass at most without funding.
LEMMA SaveKeeps ==
  ASSUME LifecycleInv, NEW p \in Pass, NEW status \in Status, SaveStatus(p, status)
  PROVE  LifecycleInv'
<1> DEFINE new == [pass[p] EXCEPT !.status = status]
<1>1. /\ pass[p] \in PassRecord /\ PassSound(pass[p], life[p], alloc[p], saving[p])
      /\ pass \in [Pass -> PassRecord]
      /\ saving \in [Pass -> SUBSET {"active", "paused", "expired"}]
      /\ LedgerInv /\ OwnerTyped
  BY LifecycleFacts
<1>2. /\ status \in saving[p]
      /\ pass' = [pass EXCEPT ![p] = new]
      /\ saving' = [saving EXCEPT ![p] = @ \ {status}]
      /\ UNCHANGED <<fundingVars, daily, attempt, today, life, request, ops, saves, crashes>>
  BY DEF SaveStatus
<1>3. /\ new \in PassRecord /\ new.reserved = pass[p].reserved /\ new.spent = pass[p].spent
      /\ new.limit = pass[p].limit /\ new.status = status
      /\ new.lifecycle = pass[p].lifecycle
  BY <1>1 DEF PassRecord
<1> HIDE DEF new
<1>4. status \in {"active", "paused", "expired"}
  BY <1>1, <1>2
<1>5. LedgerInv' /\ alloc' = alloc
  BY <1>1, <1>2, LedgerStutter DEF fundingVars
<1>6. OwnerTyped'
  BY <1>1, <1>2 DEF OwnerTyped
<1>7. new.limit >= pass[p].limit
  BY <1>1, <1>3 DEF PassRecord
<1>8. PassSound(new, life'[p], alloc'[p], saving'[p])
  BY <1>1, <1>2, <1>3, <1>4, <1>5 DEF PassSound
<1>9. \A x \in Pass \ {p} : life'[x] = life[x] /\ alloc'[x] = alloc[x] /\ saving'[x] = saving[x]
  BY <1>1, <1>2, <1>5
<1> QED BY <1>1, <1>2, <1>3, <1>4, <1>5, <1>6, <1>7, <1>8, <1>9, PassWritten

\* Loading a status to save needs a pass that exists.
LEMMA LoadKeeps ==
  ASSUME LifecycleInv, NEW p \in Pass, LoadToggle(p) \/ LoadExpired(p)
  PROVE  LifecycleInv'
<1>1. /\ PassSound(pass[p], life[p], alloc[p], saving[p])
      /\ saving \in [Pass -> SUBSET {"active", "paused", "expired"}]
      /\ LedgerInv /\ ReservationInv /\ OwnerTyped
  BY LifecycleFacts
<1>2. /\ pass[p].status \in Open /\ saves' = saves + 1
      /\ \E st \in {"active", "paused", "expired"} : saving' = [saving EXCEPT ![p] = @ \cup {st}]
      /\ UNCHANGED <<storeVars, life, request, ops, crashes>>
  BY DEF LoadToggle, LoadExpired
<1>3. /\ source' = source /\ alloc' = alloc /\ loaded' = loaded /\ pass' = pass
  BY <1>2 DEF storeVars, fundingVars, reservationVars
<1>4. LedgerInv' /\ ReservationInv'
  BY <1>1, <1>2, <1>3, LedgerStutter, StoreStepKeeps DEF fundingVars
<1>5. OwnerTyped'
  BY <1>1, <1>2 DEF OwnerTyped
<1>6. /\ PassSound(pass'[p], life'[p], alloc'[p], saving'[p])
      /\ \A q \in Pass \ {p} : saving'[q] = saving[q]
  BY <1>1, <1>2, <1>3 DEF PassSound, Open
<1>7. PassesSound'
  BY <1>2, <1>3, <1>6, LifecycleFacts, OnePassMoves
<1> QED BY <1>4, <1>5, <1>7 DEF LifecycleInv

\* The other steps of a request change at most what it knows of the provider.
LEMMA RequestQuiet ==
  ASSUME LifecycleInv, NEW r \in Request,
         \/ \E p \in Pass, kind \in Kind, key \in OwnerKey, a \in Grant :
              BeginOperation(r, p, kind, key, a)
         \/ \E p \in Pass, kind \in Kind, key \in OwnerKey : ResumeOperation(r, p, kind, key)
         \/ ClaimRefused(r) \/ SubmitOperation(r) \/ ProviderAnswers(r) \/ RecordUnsure(r)
         \/ RecordSuccess(r) \/ CompleteNothing(r) \/ CrashRequest(r)
  PROVE  LifecycleInv'
<1> DEFINE Quiet == /\ UNCHANGED <<storeVars, saving>> /\ OwnerTyped'
                    /\ \A x \in Pass : life'[x].amount = life[x].amount
<1>1. /\ request \in [Request -> RequestRecord] /\ life \in [Pass -> LifeRecord]
      /\ OwnerTyped /\ request[r].pass \in Pass
  BY LifecycleFacts
<1>2. ASSUME NEW p \in Pass, NEW kind \in Kind, NEW key \in OwnerKey, NEW a \in Grant,
             BeginOperation(r, p, kind, key, a)
      PROVE  Quiet
  <2>1. ops + 1 \in Ops /\ a \in Nat /\ ops' = ops + 1
    BY <1>1, <1>2, LifecycleAssumption, FundingAssumption DEF BeginOperation, Ops, OwnerTyped
  <2>2. request' \in [Request -> RequestRecord]
    BY <1>1, <1>2, <2>1 DEF BeginOperation, RequestRecord
  <2> QED BY <1>1, <1>2, <2>1, <2>2 DEF BeginOperation, OwnerTyped
<1>3. ASSUME NEW p \in Pass, NEW kind \in Kind, NEW key \in OwnerKey,
             ResumeOperation(r, p, kind, key)
      PROVE  Quiet
  <2>1. life[p].op \in Ops /\ life[p].amount \in Nat
    BY <1>1 DEF LifeRecord
  <2>2. request' \in [Request -> RequestRecord]
    BY <1>1, <1>3, <2>1 DEF ResumeOperation, RequestRecord
  <2> QED BY <1>1, <1>3, <2>2 DEF ResumeOperation, OwnerTyped
<1>4. ASSUME ClaimRefused(r) \/ CompleteNothing(r) PROVE Quiet
  <2>1. Goto(r, "idle") /\ UNCHANGED <<storeVars, life, ops, saving, saves, crashes>>
    BY <1>4 DEF ClaimRefused, CompleteNothing
  <2> QED BY <1>1, <2>1, GotoTyped DEF OwnerTyped
<1>5. ASSUME ProviderAnswers(r) PROVE Quiet
  <2>1. /\ Goto(r, "record") \/ Goto(r, "unsure")
        /\ UNCHANGED <<storeVars, life, ops, saving, saves, crashes>>
    BY <1>5 DEF ProviderAnswers
  <2> QED BY <1>1, <2>1, GotoTyped DEF OwnerTyped
<1>6. ASSUME CrashRequest(r) PROVE Quiet
  <2>1. /\ Goto(r, "idle") /\ crashes' = crashes + 1
        /\ UNCHANGED <<storeVars, life, ops, saving, saves>>
    BY <1>6 DEF CrashRequest
  <2> QED BY <1>1, <2>1, GotoTyped DEF OwnerTyped
<1>7. ASSUME SubmitOperation(r) \/ RecordUnsure(r) \/ RecordSuccess(r) PROVE Quiet
  <2>1. /\ \E at \in {"idle", "provider", "complete"} : Goto(r, at)
        /\ \/ life' = life
           \/ \E st \in {"submitted", "uncertain", "succeeded"} :
                life' = [life EXCEPT ![request[r].pass].provider = st]
        /\ UNCHANGED <<storeVars, ops, saving, saves, crashes>>
    BY <1>7 DEF SubmitOperation, RecordUnsure, RecordSuccess
  <2>2. /\ life' \in [Pass -> LifeRecord]
        /\ \A x \in Pass : life'[x].amount = life[x].amount
    <3>1. CASE life' = life
      BY <1>1, <3>1
    <3>2. ASSUME NEW st \in {"submitted", "uncertain", "succeeded"},
                 life' = [life EXCEPT ![request[r].pass].provider = st]
          PROVE  /\ life' \in [Pass -> LifeRecord]
                 /\ \A x \in Pass : life'[x].amount = life[x].amount
      BY <1>1, <3>2 DEF LifeRecord
    <3> QED BY <2>1, <3>1, <3>2
  <2>3. request' \in [Request -> RequestRecord]
    BY <1>1, <2>1, GotoTyped
  <2> QED BY <1>1, <2>1, <2>2, <2>3 DEF OwnerTyped
<1>8. Quiet
  BY <1>2, <1>3, <1>4, <1>5, <1>6, <1>7
<1> QED BY <1>8, NoPassMoves
-----------------------------------------------------------------------------
\* A charge that is reserved, released or debited next to the owner's operations:
\* none is reserved while an operation is pending, and none is left to resolve
\* once a close was claimed.
LEMMA ChargesKeep ==
  ASSUME LifecycleInv, ReservationNext, UNCHANGED ownerVars
  PROVE  PassesSound'
<1>1. /\ life' = life /\ saving' = saving
      /\ pass \in [Pass -> PassRecord] /\ PassesSound /\ LedgerInv
      /\ \A p \in Pass : PassSound(pass[p], life[p], alloc[p], saving[p])
  BY LifecycleFacts DEF ownerVars
<1>2. ASSUME UNCHANGED <<pass, fundingVars>> PROVE PassesSound'
  BY <1>1, <1>2 DEF PassesSound, PassSound, fundingVars
<1>3. ASSUME NEW c \in Caller, NEW k \in Key, NEW d \in RecentDays, ReserveChargeAttempt(c, k, d)
      PROVE  PassesSound'
  <2> DEFINE p == PassOf[k]
             P == [pass[p] EXCEPT !.reserved = @ + Amount[k]]
  <2>1. p \in Pass
    BY ReservationAssumption
  <2>2. /\ pass[p].status = "active" /\ pass[p].lifecycle = "idle"
        /\ pass' = [pass EXCEPT ![p] = P] /\ alloc' = alloc
    BY <1>3 DEF ReserveChargeAttempt, PassAdmits, fundingVars
  <2>3. /\ P.status = "active" /\ P.lifecycle = "idle" /\ P.limit = pass[p].limit
        /\ P.spent = pass[p].spent
    BY <1>1, <2>1, <2>2 DEF PassRecord
  <2>4. pass'[p] = P /\ \A q \in Pass \ {p} : pass'[q] = pass[q]
    BY <1>1, <2>1, <2>2
  <2> HIDE DEF p, P
  <2>5. PassSound(pass'[p], life'[p], alloc'[p], saving'[p])
    BY <1>1, <2>1, <2>2, <2>3, <2>4 DEF PassSound
  <2> QED BY <1>1, <2>1, <2>2, <2>4, <2>5, OnePassMoves
<1>4. ASSUME NEW k \in Key, ReleaseChargeReservation(k) \/ FinalizeChargeReservation(k)
      PROVE  /\ PassOf[k] \in Pass /\ Amount[k] \in Nat
             /\ pass[PassOf[k]].lifecycle \notin {"revoke_pending", "settle_pending"}
             /\ pass[PassOf[k]].status # "none"
             /\ pass[PassOf[k]].reserved \in Nat /\ pass[PassOf[k]].spent \in Nat
             /\ pass[PassOf[k]].limit \in Nat
  <2> DEFINE p == PassOf[k]
  <2>1. p \in Pass /\ Amount[k] \in Nat /\ Amount[k] > 0
    BY ReservationAssumption
  <2>2. pass[p].reserved \in Nat /\ pass[p].spent \in Nat /\ pass[p].limit \in Nat
    BY <1>1, <2>1 DEF PassRecord
  <2>3. pass[p].reserved >= Amount[k]
    BY <1>4 DEF ReleaseChargeReservation, FinalizeChargeReservation, CountersHold
  <2>4. pass[p].spent + pass[p].reserved <= pass[p].limit
        /\ (pass[p].status = "none" => pass[p].limit = 0)
    BY <2>1, OnlyCharges, LifecycleFacts DEF ReservationInv, WithinLimit, UnopenedIsEmpty
  <2>5. pass[p].reserved # 0 /\ pass[p].limit # 0
    BY <2>1, <2>2, <2>3, <2>4
  <2>6. PassSound(pass[p], life[p], alloc[p], saving[p])
    BY <1>1, <2>1
  <2> HIDE DEF p
  <2>7. /\ pass[p].lifecycle \notin {"revoke_pending", "settle_pending"}
        /\ pass[p].status # "none"
    BY <2>4, <2>5, <2>6 DEF PassSound
  <2> QED BY <2>1, <2>2, <2>7 DEF p
<1>5. ASSUME NEW k \in Key, ReleaseChargeReservation(k) PROVE PassesSound'
  <2> DEFINE p == PassOf[k]
             P == [pass[p] EXCEPT !.reserved = @ - Amount[k]]
  <2>1. pass' = [pass EXCEPT ![p] = P] /\ alloc' = alloc
    BY <1>5 DEF ReleaseChargeReservation, fundingVars
  <2>2. p \in Pass
    BY ReservationAssumption
  <2>3. /\ P.status = pass[p].status /\ P.lifecycle = pass[p].lifecycle
        /\ P.limit = pass[p].limit /\ P.spent = pass[p].spent
    BY <1>1, <2>2 DEF PassRecord
  <2>4. pass'[p] = P /\ \A q \in Pass \ {p} : pass'[q] = pass[q]
    BY <1>1, <2>1, <2>2
  <2>5. pass[p].lifecycle \notin {"revoke_pending", "settle_pending"}
    BY <1>4, <1>5
  <2> HIDE DEF p, P
  <2>6. PassSound(pass'[p], life'[p], alloc'[p], saving'[p])
    BY <1>1, <2>1, <2>2, <2>3, <2>4, <2>5 DEF PassSound
  <2> QED BY <1>1, <2>1, <2>2, <2>4, <2>6, OnePassMoves
<1>6. ASSUME NEW k \in Key, FinalizeChargeReservation(k) PROVE PassesSound'
  <2> DEFINE p == PassOf[k]
             less == pass[p].reserved - Amount[k]
             more == pass[p].spent + Amount[k]
             P == [pass[p] EXCEPT !.reserved = less, !.spent = more]
  <2>1. pass' = [pass EXCEPT ![p] = P] /\ SettleFunding(p, Amount[k])
    BY <1>6 DEF FinalizeChargeReservation
  <2>2. /\ p \in Pass /\ Amount[k] \in Nat /\ pass[p].spent \in Nat /\ pass[p].limit \in Nat
        /\ pass[p].lifecycle \notin {"revoke_pending", "settle_pending"}
        /\ pass[p].status # "none"
    BY <1>4, <1>6
  <2>3. /\ P.status = pass[p].status /\ P.lifecycle = pass[p].lifecycle
        /\ P.limit = pass[p].limit /\ P.spent = more
    BY <1>1, <2>2 DEF PassRecord
  <2>4. pass'[p] = P /\ \A q \in Pass \ {p} : pass'[q] = pass[q]
    BY <1>1, <2>1, <2>2
  <2>5. /\ \A q \in Pass \ {p} : alloc'[q] = alloc[q]
        /\ alloc[p].state = "active" /\ alloc'[p].state # "none"
        /\ alloc'[p].state = "active" =>
             /\ alloc'[p].authorized = alloc[p].authorized
             /\ alloc'[p].spent = alloc[p].spent + Amount[k]
             /\ alloc'[p].released = alloc[p].released
    BY <1>1, <2>1, <2>2, SettleMoves
  <2>6. PassSound(pass[p], life[p], alloc[p], saving[p])
    BY <1>1, <2>2
  <2>7. alloc[p].spent = pass[p].spent
    BY <2>5, <2>6 DEF PassSound
  <2>8. more = alloc[p].spent + Amount[k]
    BY <2>7
  <2> HIDE DEF p, P, more
  <2>9. PassSound(pass'[p], life'[p], alloc'[p], saving'[p])
    BY <1>1, <2>2, <2>3, <2>4, <2>5, <2>6, <2>8 DEF PassSound
  <2> QED BY <1>1, <2>2, <2>4, <2>5, <2>9, OnePassMoves
<1> QED
  BY <1>2, <1>3, <1>5, <1>6 DEF ReservationNext, ClaimChargeExecution, MarkChargeProviderSubmitted,
    MarkChargeProviderSucceeded, MarkChargeOutcomeUncertain

\* Charges, new passes and deposits next to the owner's operations.
LEMMA OthersKeep ==
  ASSUME LifecycleInv, OtherRequests
  PROVE  LifecycleInv'
<1>1. /\ life' = life /\ saving' = saving /\ UNCHANGED ownerVars
      /\ pass \in [Pass -> PassRecord] /\ alloc \in [Pass -> AllocationRecord]
      /\ PassesSound /\ LedgerInv /\ ReservationInv
      /\ \A p \in Pass : PassSound(pass[p], life[p], alloc[p], saving[p])
  BY LifecycleFacts DEF OtherRequests, ownerVars
<1>2. OwnerTyped'
  BY <1>1, LifecycleFacts DEF OwnerTyped, ownerVars
<1>3. [StoreNext]_storeVars
  BY DEF OtherRequests, StoreNext, EnvironmentNext, LedgerStep
<1>4. LedgerInv' /\ ReservationInv'
  BY <1>1, <1>3, StoreStepKeeps, StoreStepKeepsLedger
<1>5. ASSUME NEW p \in Pass, NEW s \in Source, NEW l \in Grant, CreateSession(p, s, l)
      PROVE  PassesSound'
  <2> DEFINE P == [pass[p] EXCEPT !.status = "active", !.limit = l]
             A == [state |-> "active", source |-> s, authorized |-> l,
                   spent |-> 0, released |-> 0, remaining |-> l]
  <2>1. /\ pass[p].status = "none"
        /\ pass' = [pass EXCEPT ![p] = P] /\ alloc' = [alloc EXCEPT ![p] = A]
    BY <1>5 DEF CreateSession, AllocateFunding
  <2>2. /\ P.status = "active" /\ P.limit = l /\ P.lifecycle = pass[p].lifecycle
        /\ P.spent = pass[p].spent /\ l \in Nat
    BY <1>1, FundingAssumption DEF PassRecord
  <2>3. A.state = "active" /\ A.authorized = l /\ A.spent = 0 /\ A.released = 0
    OBVIOUS
  <2> HIDE DEF P, A
  <2>4. pass[p].lifecycle = "idle"
    BY <1>1, <2>1 DEF PassSound
  <2>5. pass[p].spent = 0
    <3>1. /\ pass[p].spent + pass[p].reserved <= pass[p].limit /\ pass[p].limit = 0
          /\ pass[p].spent \in Nat /\ pass[p].reserved \in Nat
      BY <1>1, <2>1, OnlyCharges DEF ReservationInv, WithinLimit, UnopenedIsEmpty, PassRecord
    <3> QED BY <3>1
  <2>6. PassSound(P, life'[p], A, saving'[p])
    BY <2>2, <2>3, <2>4, <2>5 DEF PassSound
  <2> QED BY <1>1, <2>1, <2>6, OnePassMoves
<1>6. ASSUME SourceNext, UNCHANGED reservationVars PROVE PassesSound'
  <2>1. alloc' = alloc /\ pass' = pass
    BY <1>1, <1>6, SourceStep DEF LedgerInv, reservationVars
  <2> QED BY <1>1, <2>1 DEF PassesSound, PassSound
<1>7. PassesSound'
  BY <1>1, <1>5, <1>6, ChargesKeep DEF OtherRequests
<1> QED BY <1>2, <1>4, <1>7 DEF LifecycleInv

\* Every step of the owner, the sweep and the charges keeps the invariant.
LEMMA LifecycleStepKeeps == LifecycleInv /\ [LifecycleNext]_lifecycleVars => LifecycleInv'
<1> SUFFICES ASSUME LifecycleInv, [LifecycleNext]_lifecycleVars PROVE LifecycleInv'
  OBVIOUS
<1>1. ASSUME NEW r \in Request, OperationStep(r) \/ CrashRequest(r) PROVE LifecycleInv'
  BY <1>1, ClaimKeeps, CompleteTopUpKeeps, CompleteCloseKeeps, RequestQuiet DEF OperationStep
<1>2. CASE UNCHANGED lifecycleVars
  <2>1. UNCHANGED <<storeVars, life, request, ops, saving, saves, crashes>>
    BY <1>2 DEF lifecycleVars, ownerVars
  <2>2. OwnerTyped'
    BY <2>1 DEF LifecycleInv, OwnerTyped
  <2> QED BY <2>1, <2>2, NoPassMoves
<1> QED
  BY <1>1, <1>2, RequestQuiet, LoadKeeps, SaveKeeps, OthersKeep DEF LifecycleNext

\* Top-ups and closings by concurrent, crashing and retried requests, next to
\* charges, pauses and the expiry sweep: the documents are well formed, an active
\* allocation is authorized for the limit and a claimed top-up and has spent what
\* the pass has, a pending close will release exactly its refund, and a revoked or
\* settled pass holds no funding.
THEOREM LifecycleCorrect ==
  LifecycleSpec => [](/\ LifecycleTypeOK
                      /\ FundingFollowsLimit /\ RefundMatchesRelease /\ ClosedHoldsNothing)
  BY LifecycleInitial, LifecycleStepKeeps, LifecycleInvImplies, PTL DEF LifecycleSpec

\* What the charges are promised holds next to the owner's operations as well: the
\* counters are the sums over the attempts, no limit is passed, and the funding
\* sources account for every allocation.
THEOREM StoreCorrectUnderLifecycle ==
  LifecycleSpec => [](AttemptsAccounted /\ LimitsHold /\ SingleUseOnce /\ LedgerBalanced)
<1>1. LifecycleInv => AttemptsAccounted /\ LimitsHold /\ SingleUseOnce /\ LedgerBalanced
  BY DEF LifecycleInv, ReservationInv, LedgerInv, AttemptsAccounted, LimitsHold, LedgerBalanced
<1> QED BY <1>1, LifecycleInitial, LifecycleStepKeeps, PTL DEF LifecycleSpec
=============================================================================
