---------------------------- MODULE FundingLedger ----------------------------
(***************************************************************************)
(* The funding ledger of fundingSource.service.ts: each pass holds one     *)
(* allocation of one funding source, and the source keeps running counters *)
(* of what its allocations hold.  Allocating, topping up, spending and     *)
(* releasing run inside MongoDB transactions and are atomic steps here.    *)
(* Recording an observed balance is a load, a change of the loaded copy    *)
(* and a save outside any transaction, so it is two steps here, and the    *)
(* save writes only the fields that differ from the loaded copy.           *)
(***************************************************************************)
EXTENDS Totals

CONSTANTS
  Pass,        \* passes (sessions); a pass has at most one allocation
  Source,      \* funding sources
  Secured,     \* the secured_autopay sources; the others are connected wallets
  Observer,    \* concurrent requests that record an observed balance
  Grant,       \* amounts a pass is created with, topped up with, or spends
  MaxBalance,  \* bound on observed and deposited value
  MaxGrant     \* bound on what one allocation is ever authorized for

ASSUME FundingAssumption ==
  /\ IsFiniteSet(Pass)
  /\ Source # {}
  /\ Secured \subseteq Source
  /\ Grant \subseteq Nat \ {0}
  /\ MaxBalance \in Nat
  /\ MaxGrant \in Nat

VARIABLES
  source,  \* the FundingSource documents
  alloc,   \* the FundingAllocation document of each pass
  loaded   \* the copy of a source each observer works on

fundingVars == <<source, alloc, loaded>>

SourceStates == {"unverified", "available", "fully_allocated", "insufficient", "stale"}

\* proved: networkProofId of a secured source, balanceObservedAt of a wallet.
\* balance: lockedMinor (= availableMinor) of a secured source, availableMinor
\* of a wallet.  reserved is the policy reservation, zero for a wallet.
\* failed: failureCode is set.
SourceRecord ==
  [proved: BOOLEAN, fresh: BOOLEAN, failed: BOOLEAN, state: SourceStates,
   balance: Nat, authorized: Nat, reserved: Nat, spent: Nat, released: Nat,
   reclaimable: Nat]

AllocationRecord ==
  [state: {"none", "active", "exhausted", "released"}, source: Source,
   authorized: Nat, spent: Nat, released: Nat, remaining: Nat]

\* Any source, for the fields that mean nothing yet.
AnySource == CHOOSE s \in Source : TRUE

EmptySource ==
  [proved |-> FALSE, fresh |-> FALSE, failed |-> FALSE, state |-> "unverified",
   balance |-> 0, authorized |-> 0, reserved |-> 0, spent |-> 0,
   released |-> 0, reclaimable |-> 0]

NoAllocation ==
  [state |-> "none", source |-> AnySource, authorized |-> 0, spent |-> 0,
   released |-> 0, remaining |-> 0]

NothingLoaded == [busy |-> FALSE, of |-> AnySource, copy |-> EmptySource]

FundingInit ==
  /\ source = [s \in Source |-> EmptySource]
  /\ alloc = [p \in Pass |-> NoAllocation]
  /\ loaded = [o \in Observer |-> NothingLoaded]
-----------------------------------------------------------------------------
\* securedReclaimableMinor throws on this condition's negation, and every
\* transaction that refreshes the source's amounts aborts with it.
Refreshable(s, src) == s \in Secured => src.reserved <= src.balance

\* The reclaimable amount refreshSourceAmounts stores.
ReclaimableOf(s, src) ==
  IF s \in Secured THEN src.balance - src.reserved
  ELSE IF src.balance >= src.authorized THEN src.balance - src.authorized ELSE 0

\* fundingSourceState: the state a refresh stores.
StateOf(s, src) ==
  CASE src.proved /\ ~src.fresh -> "stale"
    [] ~src.proved -> "unverified"
    [] src.proved /\ src.fresh /\ s \in Secured ->
         IF src.balance = src.reserved THEN "fully_allocated" ELSE "available"
    [] src.proved /\ src.fresh /\ s \notin Secured ->
         IF src.balance > 0 /\ src.balance >= src.authorized
         THEN "available" ELSE "insufficient"

RefreshSourceAmounts(s, src) ==
  [src EXCEPT !.reclaimable = ReclaimableOf(s, src), !.state = StateOf(s, src)]

\* allocationRemainingMinor: what an allocation still holds.
Rest(a) == a.authorized - a.spent - a.released

RefreshAllocationAmounts(a) == [a EXCEPT !.remaining = Rest(a)]

\* What allocating or topping up adds to the source's counters.
Granted(s, src, amount) ==
  [src EXCEPT !.authorized = @ + amount,
              !.reserved = IF s \in Secured THEN @ + amount ELSE @]

\* A secured source grants only with a fresh proof and enough reclaimable value.
CanGrant(s, amount) ==
  s \in Secured =>
    /\ source[s].proved
    /\ source[s].fresh
    /\ Refreshable(s, source[s])
    /\ source[s].balance - source[s].reserved >= amount
-----------------------------------------------------------------------------
\* A confirmed deposit adds proof-backed value to a secured source.
RecordSecuredFundingProof(s, amount) ==
  LET src == [source[s] EXCEPT !.balance = @ + amount, !.proved = TRUE,
                               !.fresh = TRUE, !.failed = FALSE]
  IN /\ s \in Secured
     /\ src.balance <= MaxBalance
     /\ Refreshable(s, src)
     /\ source' = [source EXCEPT ![s] = RefreshSourceAmounts(s, src)]
     /\ UNCHANGED <<alloc, loaded>>

\* The observation grows older than SOURCE_FRESHNESS_MS; the stored state does
\* not change until the next refresh.
BecomeStale(s) ==
  /\ source[s].fresh
  /\ source' = [source EXCEPT ![s].fresh = FALSE]
  /\ UNCHANGED <<alloc, loaded>>

\* A balance observation finds its source.  recordSecuredFundingBalance does
\* nothing for a source that no proof has created yet.
LoadForObservation(o, s) ==
  /\ ~loaded[o].busy
  /\ s \in Secured => source[s].proved
  /\ loaded' = [loaded EXCEPT ![o] = [busy |-> TRUE, of |-> s, copy |-> source[s]]]
  /\ UNCHANGED <<source, alloc>>

\* Mutant of ObservedSecured: a shortfall is refreshed like any other balance.
ObservedShortfall(s, copy, balance) ==
  RefreshSourceAmounts(s, [copy EXCEPT !.balance = balance, !.proved = TRUE,
                                       !.fresh = TRUE, !.failed = FALSE])

\* recordSecuredFundingBalance's changes to the loaded copy.
ObservedSecured(s, copy, balance) ==
  LET src == [copy EXCEPT !.balance = balance, !.proved = TRUE, !.fresh = TRUE]
  IN IF balance < copy.reserved
     THEN [src EXCEPT !.reclaimable = 0, !.state = "insufficient", !.failed = TRUE]
     ELSE RefreshSourceAmounts(s, [src EXCEPT !.failed = FALSE])

\* recordConnectedWalletBalance's changes to the loaded copy.
ObservedConnected(s, copy, balance) ==
  RefreshSourceAmounts(s, [copy EXCEPT !.balance = balance, !.proved = TRUE,
                                       !.fresh = TRUE, !.failed = FALSE])

\* Mutant of SaveOver: the save replaces the whole document.
SaveWholeCopy(stored, copy, changed) == changed

\* What a save outside a transaction does to the stored document: a field that
\* still has its loaded value is not written, one that was changed is.
\* balanceObservedAt and staleAt are new dates, so they are always written.
SaveOver(stored, copy, changed) ==
  [f \in DOMAIN stored |->
     IF f \notin {"proved", "fresh"} /\ changed[f] = copy[f]
     THEN stored[f] ELSE changed[f]]

SaveObservation(o, balance) ==
  LET s == loaded[o].of
      copy == loaded[o].copy
      changed == IF s \in Secured THEN ObservedSecured(s, copy, balance)
                 ELSE ObservedConnected(s, copy, balance)
  IN /\ loaded[o].busy
     /\ source' = [source EXCEPT ![s] = SaveOver(@, copy, changed)]
     /\ loaded' = [loaded EXCEPT ![o] = NothingLoaded]
     /\ UNCHANGED alloc

\* createSession's transaction: the source's part of allocateFundingForSession
\* and the new allocation.
AllocateFunding(p, s, amount) ==
  /\ alloc[p].state = "none"
  /\ amount <= MaxGrant
  /\ CanGrant(s, amount)
  /\ source' = [source EXCEPT
                  ![s] = RefreshSourceAmounts(s, Granted(s, @, amount))]
  /\ alloc' = [alloc EXCEPT
                 ![p] = [state |-> "active", source |-> s, authorized |-> amount,
                         spent |-> 0, released |-> 0, remaining |-> amount]]
  /\ UNCHANGED loaded

ToppedUpAllocation(a, amount) ==
  RefreshAllocationAmounts([a EXCEPT !.authorized = @ + amount])

\* topUpFundingAllocation on an active allocation.
TopUpFunding(p, amount) ==
  LET s == alloc[p].source
  IN /\ alloc[p].state = "active"
     /\ alloc[p].authorized + amount <= MaxGrant
     /\ CanGrant(s, amount)
     /\ source' = [source EXCEPT
                     ![s] = RefreshSourceAmounts(s, Granted(s, @, amount))]
     /\ alloc' = [alloc EXCEPT ![p] = ToppedUpAllocation(@, amount)]
     /\ UNCHANGED loaded

\* spendFundingAllocation throws, and aborts the charge's transaction, when
\* this is false.
CanSpend(p, amount) ==
  LET s == alloc[p].source
  IN /\ alloc[p].state = "active"
     /\ Rest(alloc[p]) >= amount
     /\ s \in Secured => /\ source[s].reserved >= amount
                         /\ source[s].balance >= amount
                         /\ source[s].reserved <= source[s].balance
     /\ source[s].authorized >= amount

SpentSource(s, src, amount) ==
  RefreshSourceAmounts(s,
    [src EXCEPT !.reserved = IF s \in Secured THEN @ - amount ELSE @,
                !.balance = IF s \in Secured THEN @ - amount ELSE @,
                !.authorized = @ - amount,
                !.spent = @ + amount])

\* Mutant of SpentAllocation: spending the rest does not exhaust it.
SpentAllocationStillActive(a, amount) ==
  RefreshAllocationAmounts([a EXCEPT !.spent = @ + amount])

SpentAllocation(a, amount) ==
  LET b == RefreshAllocationAmounts([a EXCEPT !.spent = @ + amount])
  IN [b EXCEPT !.state = IF b.remaining = 0 THEN "exhausted" ELSE @]

SpendFunding(p, amount) ==
  LET s == alloc[p].source
  IN /\ CanSpend(p, amount)
     /\ source' = [source EXCEPT ![s] = SpentSource(s, @, amount)]
     /\ alloc' = [alloc EXCEPT ![p] = SpentAllocation(@, amount)]
     /\ UNCHANGED loaded

\* releaseFundingAllocation throws on the negation of this for an active
\* allocation a of the source src; on any other allocation it returns 0.
ReleaseAllowed(a, src) ==
  /\ a.source \in Secured => /\ src.reserved >= Rest(a)
                             /\ src.reserved - Rest(a) <= src.balance
  /\ src.authorized >= Rest(a)

ReleasedSource(s, src, rest) ==
  RefreshSourceAmounts(s,
    [src EXCEPT !.reserved = IF s \in Secured THEN @ - rest ELSE @,
                !.authorized = @ - rest,
                !.released = @ + rest])

ReleasedAllocation(a) ==
  RefreshAllocationAmounts(
    [a EXCEPT !.released = @ + Rest(a), !.state = "released"])

\* Mutant of ReleaseFunding: an exhausted allocation is released as well.
ReleaseFundingOfAny(p) ==
  LET s == alloc[p].source
  IN /\ alloc[p].state # "none"
     /\ ReleaseAllowed(alloc[p], source[s])
     /\ source' = [source EXCEPT ![s] = ReleasedSource(s, @, Rest(alloc[p]))]
     /\ alloc' = [alloc EXCEPT ![p] = ReleasedAllocation(@)]
     /\ UNCHANGED loaded

ReleaseFunding(p) ==
  LET s == alloc[p].source
  IN /\ alloc[p].state = "active"
     /\ ReleaseAllowed(alloc[p], source[s])
     /\ source' = [source EXCEPT ![s] = ReleasedSource(s, @, Rest(alloc[p]))]
     /\ alloc' = [alloc EXCEPT ![p] = ReleasedAllocation(@)]
     /\ UNCHANGED loaded
-----------------------------------------------------------------------------
\* Steps that leave the allocations alone.
SourceNext ==
  \/ \E s \in Source, a \in Grant : RecordSecuredFundingProof(s, a)
  \/ \E s \in Source : BecomeStale(s)
  \/ \E o \in Observer, s \in Source : LoadForObservation(o, s)
  \/ \E o \in Observer, b \in 0..MaxBalance : SaveObservation(o, b)

AllocationNext ==
  \/ \E p \in Pass, s \in Source, a \in Grant : AllocateFunding(p, s, a)
  \/ \E p \in Pass, a \in Grant : TopUpFunding(p, a)
  \/ \E p \in Pass, a \in Grant : SpendFunding(p, a)
  \/ \E p \in Pass : ReleaseFunding(p)

FundingNext == SourceNext \/ AllocationNext

-----------------------------------------------------------------------------
\* No amount of a source or an allocation falls below zero and every state is
\* one of the schema.
FundingTypeOK ==
  /\ source \in [Source -> SourceRecord]
  /\ alloc \in [Pass -> AllocationRecord]
  /\ loaded \in [Observer -> [busy: BOOLEAN, of: Source, copy: SourceRecord]]

\* What each pass holds, has spent and has given back of source s.
HeldOf(s) == [p \in Pass |->
  IF alloc[p].state = "active" /\ alloc[p].source = s THEN alloc[p].remaining ELSE 0]
SpentOf(s) == [p \in Pass |-> IF alloc[p].source = s THEN alloc[p].spent ELSE 0]
ReleasedOf(s) == [p \in Pass |-> IF alloc[p].source = s THEN alloc[p].released ELSE 0]

\* The documented accounting contract: a source's running counters are the sums
\* over the allocations drawn on it, whatever interleaving of transactions and
\* balance observations changed them.
SourceMatchesAllocations ==
  \A s \in Source :
    /\ source[s].authorized = Total(HeldOf(s))
    /\ source[s].reserved = IF s \in Secured THEN Total(HeldOf(s)) ELSE 0
    /\ source[s].spent = Total(SpentOf(s))
    /\ source[s].released = Total(ReleasedOf(s))

\* The documented contract of one allocation, and that only an active
\* allocation holds anything.
AllocationBalanced ==
  \A p \in Pass :
    /\ alloc[p].authorized = alloc[p].spent + alloc[p].released + alloc[p].remaining
    /\ alloc[p].state = "active" <=> alloc[p].remaining > 0

\* Both contracts at once: the counters of the sources and of the allocations
\* account for every unit, and no closed allocation holds any.
LedgerBalanced == SourceMatchesAllocations /\ AllocationBalanced

\* An allocation that was spent to the end or returned is history: a late
\* top-up, spend or second release changes nothing of it.
ClosedAllocationsFrozen ==
  [][\A p \in Pass : alloc[p].state \in {"exhausted", "released"}
                        => alloc'[p] = alloc[p]]_fundingVars
-----------------------------------------------------------------------------
FundingSpec == FundingInit /\ [][FundingNext]_fundingVars
=============================================================================
