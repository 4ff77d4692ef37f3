----------------------- MODULE ChargeReservationProofs -----------------------
(***************************************************************************)
(* The funding ledger and the reservation store on it, for any number of   *)
(* passes, sources, observers, keys, callers, days and amounts: the        *)
(* ledger's accounting contract, and, for the passes only charges spend,   *)
(* counters that are the sums over the attempts, so that no limit is ever  *)
(* exceeded and no reservation stuck.                                      *)
(***************************************************************************)
EXTENDS ChargeReservation, TotalsProofs

-----------------------------------------------------------------------------
(* The funding ledger.                                                     *)
\* What a refresh stores is well typed, and it touches no counter.
LEMMA RefreshSource ==
  ASSUME NEW s \in Source, NEW src \in SourceRecord, Refreshable(s, src)
  PROVE  LET r == RefreshSourceAmounts(s, src)
         IN /\ r \in SourceRecord
            /\ r.authorized = src.authorized
            /\ r.reserved = src.reserved
            /\ r.spent = src.spent
            /\ r.released = src.released
            /\ r.balance = src.balance
<1>1. ReclaimableOf(s, src) \in Nat
  BY FundingAssumption DEF ReclaimableOf, Refreshable, SourceRecord
<1>2. StateOf(s, src) \in SourceStates
  BY DEF StateOf, SourceStates, SourceRecord
<1> QED
  BY <1>1, <1>2 DEF RefreshSourceAmounts, SourceRecord

\* Saving an observation writes no counter, whatever the stored document has
\* become since it was loaded.
LEMMA SaveOverTyped ==
  ASSUME NEW stored \in SourceRecord, NEW copy \in SourceRecord,
         NEW changed \in SourceRecord,
         changed.authorized = copy.authorized, changed.reserved = copy.reserved,
         changed.spent = copy.spent, changed.released = copy.released
  PROVE  LET r == SaveOver(stored, copy, changed)
         IN /\ r \in SourceRecord
            /\ r.authorized = stored.authorized
            /\ r.reserved = stored.reserved
            /\ r.spent = stored.spent
            /\ r.released = stored.released
  BY DEF SaveOver, SourceRecord
-----------------------------------------------------------------------------
\* An allocation that was never made holds nothing.
UnmadeIsEmpty == \A p \in Pass : alloc[p].state = "none" => alloc[p].authorized = 0

\* The inductive invariant of the ledger.
LedgerInv ==
  /\ FundingTypeOK
  /\ AllocationBalanced
  /\ UnmadeIsEmpty
  /\ SourceMatchesAllocations

\* The initial ledger satisfies its contract.
LEMMA LedgerInit == FundingInit => LedgerInv
<1> SUFFICES ASSUME FundingInit PROVE LedgerInv
  OBVIOUS
<1>1. AnySource \in Source
  BY FundingAssumption DEF AnySource
<1>2. FundingTypeOK
  BY <1>1 DEF FundingInit, FundingTypeOK, EmptySource, NoAllocation, NothingLoaded,
              SourceRecord, AllocationRecord, SourceStates
<1>3. AllocationBalanced /\ UnmadeIsEmpty
  BY DEF FundingInit, AllocationBalanced, UnmadeIsEmpty, NoAllocation
<1>4. SourceMatchesAllocations
  <2> SUFFICES ASSUME NEW s \in Source
               PROVE  /\ source[s].authorized = Total(HeldOf(s))
                      /\ source[s].reserved = IF s \in Secured THEN Total(HeldOf(s)) ELSE 0
                      /\ source[s].spent = Total(SpentOf(s))
                      /\ source[s].released = Total(ReleasedOf(s))
    BY DEF SourceMatchesAllocations
  <2>1. /\ HeldOf(s) \in [Pass -> Nat] /\ \A p \in Pass : HeldOf(s)[p] = 0
        /\ SpentOf(s) \in [Pass -> Nat] /\ \A p \in Pass : SpentOf(s)[p] = 0
        /\ ReleasedOf(s) \in [Pass -> Nat] /\ \A p \in Pass : ReleasedOf(s)[p] = 0
    BY DEF HeldOf, SpentOf, ReleasedOf, FundingInit, NoAllocation
  <2>2. Total(HeldOf(s)) = 0 /\ Total(SpentOf(s)) = 0 /\ Total(ReleasedOf(s)) = 0
    BY <2>1, TotalZero
  <2> QED BY <2>2 DEF FundingInit, EmptySource
<1> QED BY <1>2, <1>3, <1>4 DEF LedgerInv

\* A step on sources alone: deposits, ageing and balance observations change no
\* counter that the allocations determine.
LEMMA SourceStep ==
  ASSUME FundingTypeOK, SourceNext
  PROVE  /\ FundingTypeOK'
         /\ alloc' = alloc
         /\ \A s \in Source : /\ source'[s].authorized = source[s].authorized
                              /\ source'[s].reserved = source[s].reserved
                              /\ source'[s].spent = source[s].spent
                              /\ source'[s].released = source[s].released
<1> DEFINE Kept(s) == /\ source'[s].authorized = source[s].authorized
                      /\ source'[s].reserved = source[s].reserved
                      /\ source'[s].spent = source[s].spent
                      /\ source'[s].released = source[s].released
           Goal == FundingTypeOK' /\ alloc' = alloc /\ \A s \in Source : Kept(s)
<1>1. ASSUME NEW t \in Source, NEW a \in Grant, RecordSecuredFundingProof(t, a)
      PROVE  Goal
  <2> DEFINE old == source[t]
             more == old.balance + a
             src == [old EXCEPT !.balance = more, !.proved = TRUE,
                                !.fresh = TRUE, !.failed = FALSE]
  <2>1. old \in SourceRecord /\ a \in Nat
    BY FundingAssumption DEF FundingTypeOK
  <2>2. /\ Refreshable(t, src)
        /\ source' = [source EXCEPT ![t] = RefreshSourceAmounts(t, src)]
        /\ UNCHANGED <<alloc, loaded>>
    BY <1>1 DEF RecordSecuredFundingProof
  <2> HIDE DEF old
  <2>3. more \in Nat
    BY <2>1 DEF SourceRecord
  <2> HIDE DEF more
  <2>4. /\ src \in SourceRecord
        /\ src.authorized = old.authorized /\ src.reserved = old.reserved
        /\ src.spent = old.spent /\ src.released = old.released
    BY <2>1, <2>3 DEF SourceRecord
  <2> HIDE DEF src
  <2> QED BY <2>2, <2>4, RefreshSource DEF FundingTypeOK, old
<1>2. ASSUME NEW t \in Source, BecomeStale(t)
      PROVE  Goal
  <2>1. source[t] \in SourceRecord
    BY DEF FundingTypeOK
  <2>2. /\ source' = [source EXCEPT ![t].fresh = FALSE]
        /\ UNCHANGED <<alloc, loaded>>
    BY <1>2 DEF BecomeStale
  <2> QED BY <2>1, <2>2 DEF FundingTypeOK, SourceRecord
<1>3. ASSUME NEW o \in Observer, NEW t \in Source, LoadForObservation(o, t)
      PROVE  Goal
  BY <1>3 DEF LoadForObservation, FundingTypeOK
<1>4. ASSUME NEW o \in Observer, NEW b \in 0..MaxBalance, SaveObservation(o, b)
      PROVE  Goal
  <2> DEFINE t == loaded[o].of
             copy == loaded[o].copy
             changed == IF t \in Secured THEN ObservedSecured(t, copy, b)
                        ELSE ObservedConnected(t, copy, b)
  <2>1. t \in Source /\ copy \in SourceRecord /\ source[t] \in SourceRecord /\ b \in Nat
    BY FundingAssumption DEF FundingTypeOK
  <2> HIDE DEF t, copy
  <2>2. /\ changed \in SourceRecord
        /\ changed.authorized = copy.authorized /\ changed.reserved = copy.reserved
        /\ changed.spent = copy.spent /\ changed.released = copy.released
    <3> DEFINE wallet == [copy EXCEPT !.balance = b, !.proved = TRUE,
                                      !.fresh = TRUE, !.failed = FALSE]
    <3>1. /\ wallet \in SourceRecord
          /\ wallet.authorized = copy.authorized /\ wallet.reserved = copy.reserved
          /\ wallet.spent = copy.spent /\ wallet.released = copy.released
          /\ wallet.balance = b
      BY <2>1 DEF SourceRecord
    <3>2. CASE t \notin Secured
      <4>1. changed = RefreshSourceAmounts(t, wallet)
        BY <3>2 DEF ObservedConnected
      <4>2. Refreshable(t, wallet)
        BY <3>2 DEF Refreshable
      <4> HIDE DEF wallet, changed
      <4> QED BY <2>1, <3>1, <4>1, <4>2, RefreshSource
    <3>3. CASE t \in Secured /\ b < copy.reserved
      BY <2>1, <3>3 DEF ObservedSecured, SourceRecord, SourceStates
    <3>4. CASE t \in Secured /\ ~(b < copy.reserved)
      <4>1. changed = RefreshSourceAmounts(t, wallet)
        BY <2>1, <3>4 DEF ObservedSecured, SourceRecord
      <4>2. copy.reserved \in Nat
        BY <2>1 DEF SourceRecord
      <4> HIDE DEF wallet, changed
      <4>3. Refreshable(t, wallet)
        BY <2>1, <3>1, <3>4, <4>2 DEF Refreshable
      <4> QED BY <2>1, <3>1, <4>1, <4>3, RefreshSource
    <3> QED BY <3>2, <3>3, <3>4
  <2>3. /\ source' = [source EXCEPT ![t] = SaveOver(@, copy, changed)]
        /\ loaded' = [loaded EXCEPT ![o] = NothingLoaded]
        /\ alloc' = alloc
    BY <1>4 DEF SaveObservation, t, copy
  <2> HIDE DEF changed
  <2>4. NothingLoaded \in [busy: BOOLEAN, of: Source, copy: SourceRecord]
    BY FundingAssumption DEF NothingLoaded, AnySource, EmptySource, SourceRecord, SourceStates
  <2>5. /\ SaveOver(source[t], copy, changed) \in SourceRecord
        /\ SaveOver(source[t], copy, changed).authorized = source[t].authorized
        /\ SaveOver(source[t], copy, changed).reserved = source[t].reserved
        /\ SaveOver(source[t], copy, changed).spent = source[t].spent
        /\ SaveOver(source[t], copy, changed).released = source[t].released
    BY <2>1, <2>2, SaveOverTyped
  <2> QED BY <2>1, <2>3, <2>4, <2>5 DEF FundingTypeOK
<1> QED
  BY <1>1, <1>2, <1>3, <1>4 DEF SourceNext

\* Such a step keeps the contract.
LEMMA SourceStepKeeps == LedgerInv /\ SourceNext => LedgerInv'
<1> SUFFICES ASSUME LedgerInv, SourceNext PROVE LedgerInv'
  OBVIOUS
<1>1. FundingTypeOK
  BY DEF LedgerInv
<1>2. /\ FundingTypeOK'
      /\ alloc' = alloc
      /\ \A s \in Source : /\ source'[s].authorized = source[s].authorized
                           /\ source'[s].reserved = source[s].reserved
                           /\ source'[s].spent = source[s].spent
                           /\ source'[s].released = source[s].released
  BY <1>1, SourceStep
<1>3. AllocationBalanced' /\ UnmadeIsEmpty'
  BY <1>2 DEF LedgerInv, AllocationBalanced, UnmadeIsEmpty
<1>4. \A s \in Source : /\ HeldOf(s)' = HeldOf(s)
                        /\ SpentOf(s)' = SpentOf(s)
                        /\ ReleasedOf(s)' = ReleasedOf(s)
  BY <1>2 DEF HeldOf, SpentOf, ReleasedOf
<1>5. SourceMatchesAllocations'
  BY <1>2, <1>4 DEF LedgerInv, SourceMatchesAllocations
<1> QED BY <1>2, <1>3, <1>5 DEF LedgerInv
-----------------------------------------------------------------------------
\* What allocation a is to keep the contract of one allocation.
Balanced(a) ==
  /\ a \in AllocationRecord
  /\ a.authorized = a.spent + a.released + a.remaining
  /\ a.state = "active" <=> a.remaining > 0

\* A step that replaces one allocation and moves its source's counters by the
\* same differences keeps the contract.
LEMMA AllocationStep ==
  ASSUME LedgerInv,
         NEW p \in Pass, NEW s \in Source, NEW a, NEW src \in SourceRecord,
         Balanced(a), a.source = s, a.state # "none",
         alloc[p].source = s \/ alloc[p].state = "none",
         alloc' = [alloc EXCEPT ![p] = a],
         source' = [source EXCEPT ![s] = src],
         loaded' = loaded,
         src.authorized = source[s].authorized - alloc[p].remaining + a.remaining,
         src.reserved = IF s \in Secured
                        THEN source[s].reserved - alloc[p].remaining + a.remaining
                        ELSE source[s].reserved,
         src.spent = source[s].spent - alloc[p].spent + a.spent,
         src.released = source[s].released - alloc[p].released + a.released
  PROVE  LedgerInv'
<1>1. FundingTypeOK'
  BY DEF LedgerInv, FundingTypeOK, Balanced
<1>2. AllocationBalanced' /\ UnmadeIsEmpty'
  BY DEF LedgerInv, FundingTypeOK, AllocationBalanced, UnmadeIsEmpty, Balanced
<1>3. IsFiniteSet(Pass)
  BY FundingAssumption
<1>4. /\ alloc[p] \in AllocationRecord
      /\ alloc[p].authorized = alloc[p].spent + alloc[p].released + alloc[p].remaining
      /\ alloc[p].state = "active" <=> alloc[p].remaining > 0
      /\ alloc[p].state = "none" => alloc[p].authorized = 0
  BY DEF LedgerInv, FundingTypeOK, AllocationBalanced, UnmadeIsEmpty
<1>5. /\ alloc[p].spent \in Nat /\ alloc[p].released \in Nat /\ alloc[p].remaining \in Nat
      /\ a.spent \in Nat /\ a.released \in Nat /\ a.remaining \in Nat
      /\ alloc[p].state = "none" =>
           alloc[p].spent = 0 /\ alloc[p].released = 0 /\ alloc[p].remaining = 0
  BY <1>4 DEF Balanced, AllocationRecord
<1>6. \A q \in Pass : alloc'[q] = IF q = p THEN a ELSE alloc[q]
  BY DEF LedgerInv, FundingTypeOK
<1>7. alloc \in [Pass -> AllocationRecord] /\ alloc' \in [Pass -> AllocationRecord]
  BY <1>1 DEF LedgerInv, FundingTypeOK
<1>8. a.state = "active" \/ a.remaining = 0
  BY <1>5 DEF Balanced
<1>9. ASSUME NEW t \in Source
      PROVE  /\ Total(HeldOf(t)') = IF t = s THEN Total(HeldOf(t)) - alloc[p].remaining + a.remaining
                                    ELSE Total(HeldOf(t))
             /\ Total(SpentOf(t)') = IF t = s THEN Total(SpentOf(t)) - alloc[p].spent + a.spent
                                     ELSE Total(SpentOf(t))
             /\ Total(ReleasedOf(t)') = IF t = s THEN Total(ReleasedOf(t)) - alloc[p].released + a.released
                                        ELSE Total(ReleasedOf(t))
  <2>1. ASSUME NEW f \in [Pass -> Nat], NEW g \in [Pass -> Nat], NEW m \in Nat, NEW n \in Nat,
               \A q \in Pass \ {p} : g[q] = f[q],
               f[p] = (IF t = s THEN m ELSE 0), g[p] = (IF t = s THEN n ELSE 0)
        PROVE  Total(g) = IF t = s THEN Total(f) - m + n ELSE Total(f)
    <3>1. Total(g) = Total(f) - f[p] + g[p]
      BY <1>3, <2>1, TotalChange
    <3>2. Total(f) \in Nat
      BY <1>3, UnitsFinite
    <3> QED BY <2>1, <3>1, <3>2
  <2>2. /\ HeldOf(t) \in [Pass -> Nat] /\ HeldOf(t)' \in [Pass -> Nat]
        /\ \A q \in Pass \ {p} : HeldOf(t)'[q] = HeldOf(t)[q]
        /\ HeldOf(t)[p] = (IF t = s THEN alloc[p].remaining ELSE 0)
        /\ HeldOf(t)'[p] = (IF t = s THEN a.remaining ELSE 0)
    BY <1>4, <1>5, <1>6, <1>7, <1>8 DEF HeldOf, AllocationRecord
  <2>3. /\ SpentOf(t) \in [Pass -> Nat] /\ SpentOf(t)' \in [Pass -> Nat]
        /\ \A q \in Pass \ {p} : SpentOf(t)'[q] = SpentOf(t)[q]
        /\ SpentOf(t)[p] = (IF t = s THEN alloc[p].spent ELSE 0)
        /\ SpentOf(t)'[p] = (IF t = s THEN a.spent ELSE 0)
    BY <1>5, <1>6, <1>7 DEF SpentOf, AllocationRecord
  <2>4. /\ ReleasedOf(t) \in [Pass -> Nat] /\ ReleasedOf(t)' \in [Pass -> Nat]
        /\ \A q \in Pass \ {p} : ReleasedOf(t)'[q] = ReleasedOf(t)[q]
        /\ ReleasedOf(t)[p] = (IF t = s THEN alloc[p].released ELSE 0)
        /\ ReleasedOf(t)'[p] = (IF t = s THEN a.released ELSE 0)
    BY <1>5, <1>6, <1>7 DEF ReleasedOf, AllocationRecord
  <2>5. Total(HeldOf(t)') = IF t = s THEN Total(HeldOf(t)) - alloc[p].remaining + a.remaining
                            ELSE Total(HeldOf(t))
    BY <1>5, <2>1, <2>2
  <2>6. Total(SpentOf(t)') = IF t = s THEN Total(SpentOf(t)) - alloc[p].spent + a.spent
                             ELSE Total(SpentOf(t))
    BY <1>5, <2>1, <2>3
  <2>7. Total(ReleasedOf(t)') = IF t = s THEN Total(ReleasedOf(t)) - alloc[p].released + a.released
                                ELSE Total(ReleasedOf(t))
    BY <1>5, <2>1, <2>4
  <2> QED BY <2>5, <2>6, <2>7
<1>10. /\ source'[s] = src
       /\ \A t \in Source \ {s} : source'[t] = source[t]
  BY DEF LedgerInv, FundingTypeOK
<1>11. SourceMatchesAllocations'
  <2> SUFFICES ASSUME NEW t \in Source
               PROVE  /\ source'[t].authorized = Total(HeldOf(t)')
                      /\ source'[t].reserved = IF t \in Secured THEN Total(HeldOf(t)') ELSE 0
                      /\ source'[t].spent = Total(SpentOf(t)')
                      /\ source'[t].released = Total(ReleasedOf(t)')
    BY DEF SourceMatchesAllocations, Total, Units
  <2>1. /\ source[t].authorized = Total(HeldOf(t))
        /\ source[t].reserved = IF t \in Secured THEN Total(HeldOf(t)) ELSE 0
        /\ source[t].spent = Total(SpentOf(t))
        /\ source[t].released = Total(ReleasedOf(t))
    BY DEF LedgerInv, SourceMatchesAllocations
  <2> QED BY <1>9, <1>10, <2>1
<1> QED BY <1>1, <1>2, <1>11 DEF LedgerInv

-----------------------------------------------------------------------------
\* The source's part of granting, spending and releasing.
LEMMA GrantedSource ==
  ASSUME NEW s \in Source, NEW src \in SourceRecord, NEW amount \in Nat,
         s \in Secured => /\ Refreshable(s, src)
                          /\ src.balance - src.reserved >= amount
  PROVE  LET r == RefreshSourceAmounts(s, Granted(s, src, amount))
         IN /\ r \in SourceRecord
            /\ r.authorized = src.authorized + amount
            /\ r.reserved = IF s \in Secured THEN src.reserved + amount ELSE src.reserved
            /\ r.spent = src.spent
            /\ r.released = src.released
<1> DEFINE auth == src.authorized + amount
           resv == IF s \in Secured THEN src.reserved + amount ELSE src.reserved
           g == Granted(s, src, amount)
<1>1. g = [src EXCEPT !.authorized = auth, !.reserved = resv]
  BY DEF Granted
<1>2. /\ auth \in Nat /\ resv \in Nat
      /\ s \in Secured => resv <= src.balance
  BY DEF SourceRecord, Refreshable
<1> HIDE DEF auth, resv, g
<1>3. /\ g \in SourceRecord
      /\ g.authorized = auth /\ g.reserved = resv
      /\ g.spent = src.spent /\ g.released = src.released /\ g.balance = src.balance
  BY <1>1, <1>2 DEF SourceRecord
<1>4. Refreshable(s, g)
  BY <1>2, <1>3 DEF Refreshable
<1> QED BY <1>3, <1>4, RefreshSource DEF auth, resv, g

\* Spending keeps the amounts of a source natural numbers.
LEMMA SpentSourceTyped ==
  ASSUME NEW s \in Source, NEW src \in SourceRecord, NEW amount \in Nat,
         s \in Secured => /\ src.reserved >= amount
                          /\ src.balance >= amount
                          /\ src.reserved <= src.balance,
         src.authorized >= amount
  PROVE  LET r == SpentSource(s, src, amount)
         IN /\ r \in SourceRecord
            /\ r.authorized = src.authorized - amount
            /\ r.reserved = IF s \in Secured THEN src.reserved - amount ELSE src.reserved
            /\ r.spent = src.spent + amount
            /\ r.released = src.released
<1> DEFINE auth == src.authorized - amount
           resv == IF s \in Secured THEN src.reserved - amount ELSE src.reserved
           bal == IF s \in Secured THEN src.balance - amount ELSE src.balance
           used == src.spent + amount
           g == [src EXCEPT !.reserved = resv, !.balance = bal, !.authorized = auth, !.spent = used]
<1>1. SpentSource(s, src, amount) = RefreshSourceAmounts(s, g)
  BY DEF SpentSource
<1>2. /\ auth \in Nat /\ resv \in Nat /\ bal \in Nat /\ used \in Nat
      /\ s \in Secured => resv <= bal
  BY DEF SourceRecord
<1> HIDE DEF auth, resv, bal, used
<1>3. /\ g \in SourceRecord
      /\ g.authorized = auth /\ g.reserved = resv
      /\ g.spent = used /\ g.released = src.released /\ g.balance = bal
  BY <1>2 DEF SourceRecord
<1> HIDE DEF g
<1>4. Refreshable(s, g)
  BY <1>2, <1>3 DEF Refreshable
<1> QED BY <1>1, <1>3, <1>4, RefreshSource DEF auth, resv, used

\* Releasing keeps the amounts of a source natural numbers.
LEMMA ReleasedSourceTyped ==
  ASSUME NEW s \in Source, NEW src \in SourceRecord, NEW rest \in Nat,
         s \in Secured => src.reserved >= rest /\ src.reserved - rest <= src.balance,
         src.authorized >= rest
  PROVE  LET r == ReleasedSource(s, src, rest)
         IN /\ r \in SourceRecord
            /\ r.authorized = src.authorized - rest
            /\ r.reserved = IF s \in Secured THEN src.reserved - rest ELSE src.reserved
            /\ r.spent = src.spent
            /\ r.released = src.released + rest
<1> DEFINE auth == src.authorized - rest
           resv == IF s \in Secured THEN src.reserved - rest ELSE src.reserved
           back == src.released + rest
           g == [src EXCEPT !.reserved = resv, !.authorized = auth, !.released = back]
<1>1. ReleasedSource(s, src, rest) = RefreshSourceAmounts(s, g)
  BY DEF ReleasedSource
<1>2. /\ auth \in Nat /\ resv \in Nat /\ back \in Nat
      /\ s \in Secured => resv <= src.balance
  BY DEF SourceRecord
<1> HIDE DEF auth, resv, back
<1>3. /\ g \in SourceRecord
      /\ g.authorized = auth /\ g.reserved = resv
      /\ g.spent = src.spent /\ g.released = back /\ g.balance = src.balance
  BY <1>2 DEF SourceRecord
<1> HIDE DEF g
<1>4. Refreshable(s, g)
  BY <1>2, <1>3 DEF Refreshable
<1> QED BY <1>1, <1>3, <1>4, RefreshSource DEF auth, resv, back

\* The allocation's part of topping up, spending and releasing.
LEMMA ToppedUpBalanced ==
  ASSUME NEW a, Balanced(a), a.state = "active", NEW amount \in Nat
  PROVE  LET b == ToppedUpAllocation(a, amount)
         IN /\ Balanced(b) /\ b.state = "active" /\ b.source = a.source
            /\ b.remaining = a.remaining + amount
            /\ b.spent = a.spent /\ b.released = a.released
<1> DEFINE auth == a.authorized + amount
           left == a.remaining + amount
           b == [a EXCEPT !.authorized = auth, !.remaining = left]
<1>1. auth \in Nat /\ left \in Nat /\ left > 0
  BY DEF Balanced, AllocationRecord
<1>2. auth = a.spent + a.released + left /\ auth - a.spent - a.released = left
  BY DEF Balanced, AllocationRecord
<1> HIDE DEF auth, left
<1>3. /\ b \in AllocationRecord /\ b.state = "active" /\ b.source = a.source
      /\ b.remaining = left /\ b.authorized = auth
      /\ b.spent = a.spent /\ b.released = a.released
  BY <1>1 DEF Balanced, AllocationRecord
<1>4. ToppedUpAllocation(a, amount) = b
  <2>1. ToppedUpAllocation(a, amount) = RefreshAllocationAmounts([a EXCEPT !.authorized = auth])
    BY DEF ToppedUpAllocation, auth
  <2> QED
    BY <1>1, <1>2, <2>1 DEF RefreshAllocationAmounts, Rest, Balanced, AllocationRecord
<1> HIDE DEF b
<1>5. Balanced(b)
  BY <1>1, <1>2, <1>3 DEF Balanced
<1> QED BY <1>3, <1>4, <1>5 DEF auth, left

\* A spend keeps the contract of an allocation.
LEMMA SpentAllocationBalanced ==
  ASSUME NEW a, Balanced(a), a.state = "active", NEW amount \in Nat, Rest(a) >= amount
  PROVE  LET b == SpentAllocation(a, amount)
         IN /\ Balanced(b) /\ b.source = a.source
            /\ b.state = IF b.remaining = 0 THEN "exhausted" ELSE "active"
            /\ b.remaining = a.remaining - amount
            /\ b.spent = a.spent + amount /\ b.released = a.released
<1> DEFINE used == a.spent + amount
           left == a.remaining - amount
           b == [a EXCEPT !.spent = used, !.remaining = left,
                          !.state = IF left = 0 THEN "exhausted" ELSE @]
<1>1. used \in Nat /\ left \in Nat
  BY DEF Balanced, AllocationRecord, Rest
<1>2. a.authorized = used + a.released + left /\ a.authorized - used - a.released = left
  BY DEF Balanced, AllocationRecord
<1> HIDE DEF used, left
<1>3. /\ b \in AllocationRecord /\ b.source = a.source
      /\ b.state = IF left = 0 THEN "exhausted" ELSE "active"
      /\ b.remaining = left /\ b.authorized = a.authorized
      /\ b.spent = used /\ b.released = a.released
  BY <1>1 DEF Balanced, AllocationRecord
<1>4. SpentAllocation(a, amount) = b
  <2>1. RefreshAllocationAmounts([a EXCEPT !.spent = used]) = [a EXCEPT !.spent = used, !.remaining = left]
    BY <1>1, <1>2 DEF RefreshAllocationAmounts, Rest, Balanced, AllocationRecord
  <2>2. SpentAllocation(a, amount) =
          [[a EXCEPT !.spent = used, !.remaining = left] EXCEPT
             !.state = IF [a EXCEPT !.spent = used, !.remaining = left].remaining = 0
                       THEN "exhausted" ELSE @]
    BY <2>1 DEF SpentAllocation, used
  <2> QED BY <1>1, <2>2 DEF Balanced, AllocationRecord
<1> HIDE DEF b
<1>5. Balanced(b)
  BY <1>1, <1>2, <1>3 DEF Balanced
<1> QED BY <1>3, <1>4, <1>5 DEF used, left

\* A release keeps the contract of an allocation.
LEMMA ReleasedAllocationBalanced ==
  ASSUME NEW a, Balanced(a), a.state = "active"
  PROVE  LET b == ReleasedAllocation(a)
         IN /\ Balanced(b) /\ b.source = a.source /\ b.state = "released"
            /\ b.remaining = 0 /\ b.spent = a.spent
            /\ b.released = a.released + a.remaining
            /\ Rest(a) = a.remaining
<1> DEFINE back == a.released + a.remaining
           b == [a EXCEPT !.released = back, !.state = "released", !.remaining = 0]
<1>1. back \in Nat /\ Rest(a) = a.remaining
  BY DEF Balanced, AllocationRecord, Rest
<1>2. a.authorized = a.spent + back /\ a.authorized - a.spent - back = 0
  BY DEF Balanced, AllocationRecord
<1>3. ReleasedAllocation(a) =
        RefreshAllocationAmounts([a EXCEPT !.released = back, !.state = "released"])
  BY <1>1 DEF ReleasedAllocation
<1> HIDE DEF back
<1>4. /\ b \in AllocationRecord /\ b.source = a.source /\ b.state = "released"
      /\ b.remaining = 0 /\ b.authorized = a.authorized
      /\ b.spent = a.spent /\ b.released = back
  BY <1>1 DEF Balanced, AllocationRecord
<1>5. RefreshAllocationAmounts([a EXCEPT !.released = back, !.state = "released"]) = b
  BY <1>1, <1>2 DEF RefreshAllocationAmounts, Rest, Balanced, AllocationRecord
<1> HIDE DEF b
<1>6. Balanced(b)
  BY <1>1, <1>2, <1>4 DEF Balanced, AllocationRecord
<1> QED BY <1>1, <1>3, <1>4, <1>5, <1>6 DEF back
-----------------------------------------------------------------------------
\* What the contract says of one pass and of one source.
LEMMA LedgerFacts ==
  ASSUME LedgerInv, NEW p \in Pass
  PROVE  /\ Balanced(alloc[p])
         /\ alloc[p].source \in Source
         /\ alloc[p].state = "none" => /\ alloc[p].spent = 0
                                       /\ alloc[p].released = 0
                                       /\ alloc[p].remaining = 0
         /\ \A s \in Source : source[s] \in SourceRecord
<1>1. alloc[p] \in AllocationRecord /\ \A s \in Source : source[s] \in SourceRecord
  BY DEF LedgerInv, FundingTypeOK
<1>2. /\ alloc[p].authorized = alloc[p].spent + alloc[p].released + alloc[p].remaining
      /\ alloc[p].state = "active" <=> alloc[p].remaining > 0
      /\ alloc[p].state = "none" => alloc[p].authorized = 0
  BY DEF LedgerInv, AllocationBalanced, UnmadeIsEmpty
<1>3. /\ alloc[p].source \in Source
      /\ alloc[p].spent \in Nat /\ alloc[p].released \in Nat /\ alloc[p].remaining \in Nat
  BY <1>1 DEF AllocationRecord
<1>4. Balanced(alloc[p])
  BY <1>1, <1>2 DEF Balanced
<1>5. alloc[p].state = "none" =>
        alloc[p].spent = 0 /\ alloc[p].released = 0 /\ alloc[p].remaining = 0
  BY <1>1, <1>2 DEF AllocationRecord
<1> QED BY <1>1, <1>3, <1>4, <1>5

\* allocateFundingForSession keeps the ledger correct.
LEMMA AllocateKeeps ==
  ASSUME LedgerInv, NEW p \in Pass, NEW s \in Source, NEW amount \in Nat \ {0},
         AllocateFunding(p, s, amount)
  PROVE  LedgerInv'
<1> DEFINE src == RefreshSourceAmounts(s, Granted(s, source[s], amount))
           a == [state |-> "active", source |-> s, authorized |-> amount,
                 spent |-> 0, released |-> 0, remaining |-> amount]
<1>1. /\ alloc[p].state = "none" /\ CanGrant(s, amount)
      /\ source' = [source EXCEPT ![s] = src]
      /\ alloc' = [alloc EXCEPT ![p] = a] /\ loaded' = loaded
  BY DEF AllocateFunding
<1>2. /\ src \in SourceRecord
      /\ src.authorized = source[s].authorized + amount
      /\ src.reserved = IF s \in Secured THEN source[s].reserved + amount ELSE source[s].reserved
      /\ src.spent = source[s].spent /\ src.released = source[s].released
  BY <1>1, LedgerFacts, GrantedSource DEF CanGrant
<1>3. /\ Balanced(a) /\ a.source = s /\ a.state # "none"
      /\ a.remaining = amount /\ a.spent = 0 /\ a.released = 0
  BY DEF Balanced, AllocationRecord
<1>4. alloc[p].spent = 0 /\ alloc[p].released = 0 /\ alloc[p].remaining = 0
  BY <1>1, LedgerFacts
<1>5. source[s].authorized \in Nat /\ source[s].reserved \in Nat
      /\ source[s].spent \in Nat /\ source[s].released \in Nat
  BY LedgerFacts DEF SourceRecord
<1> HIDE DEF src, a
<1>6. /\ src.authorized = source[s].authorized - alloc[p].remaining + a.remaining
      /\ src.reserved = IF s \in Secured
                        THEN source[s].reserved - alloc[p].remaining + a.remaining
                        ELSE source[s].reserved
      /\ src.spent = source[s].spent - alloc[p].spent + a.spent
      /\ src.released = source[s].released - alloc[p].released + a.released
  BY <1>2, <1>3, <1>4, <1>5
<1> QED BY <1>1, <1>2, <1>3, <1>6, AllocationStep

\* topUpFundingAllocation keeps the ledger correct.
LEMMA TopUpKeeps ==
  ASSUME LedgerInv, NEW p \in Pass, NEW amount \in Nat, TopUpFunding(p, amount)
  PROVE  LedgerInv'
<1> DEFINE s == alloc[p].source
           src == RefreshSourceAmounts(s, Granted(s, source[s], amount))
           a == ToppedUpAllocation(alloc[p], amount)
<1>1. /\ alloc[p].state = "active" /\ CanGrant(s, amount)
      /\ source' = [source EXCEPT ![s] = src]
      /\ alloc' = [alloc EXCEPT ![p] = a] /\ loaded' = loaded
  BY DEF TopUpFunding
<1>2. s \in Source /\ source[s] \in SourceRecord /\ Balanced(alloc[p])
  BY LedgerFacts
<1>3. /\ src \in SourceRecord
      /\ src.authorized = source[s].authorized + amount
      /\ src.reserved = IF s \in Secured THEN source[s].reserved + amount ELSE source[s].reserved
      /\ src.spent = source[s].spent /\ src.released = source[s].released
  BY <1>1, <1>2, GrantedSource DEF CanGrant
<1>4. /\ Balanced(a) /\ a.source = s /\ a.state = "active"
      /\ a.remaining = alloc[p].remaining + amount
      /\ a.spent = alloc[p].spent /\ a.released = alloc[p].released
  BY <1>1, <1>2, ToppedUpBalanced
<1> HIDE DEF src, a
<1>5. /\ source[s].authorized \in Nat /\ source[s].reserved \in Nat
      /\ source[s].spent \in Nat /\ source[s].released \in Nat
      /\ alloc[p].remaining \in Nat /\ alloc[p].spent \in Nat /\ alloc[p].released \in Nat
  BY <1>2 DEF SourceRecord, Balanced, AllocationRecord
<1>6. /\ src.authorized = source[s].authorized - alloc[p].remaining + a.remaining
      /\ src.reserved = IF s \in Secured
                        THEN source[s].reserved - alloc[p].remaining + a.remaining
                        ELSE source[s].reserved
      /\ src.spent = source[s].spent - alloc[p].spent + a.spent
      /\ src.released = source[s].released - alloc[p].released + a.released
  BY <1>3, <1>4, <1>5
<1>7. alloc[p].source = s
  OBVIOUS
<1> HIDE DEF s
<1> QED BY <1>1, <1>2, <1>3, <1>4, <1>6, <1>7, AllocationStep

\* spendFundingAllocation keeps the ledger correct.
LEMMA SpendKeeps ==
  ASSUME LedgerInv, NEW p \in Pass, NEW amount \in Nat, SpendFunding(p, amount)
  PROVE  LedgerInv'
<1> DEFINE s == alloc[p].source
           src == SpentSource(s, source[s], amount)
           a == SpentAllocation(alloc[p], amount)
<1>1. /\ CanSpend(p, amount)
      /\ source' = [source EXCEPT ![s] = src]
      /\ alloc' = [alloc EXCEPT ![p] = a] /\ loaded' = loaded
  BY DEF SpendFunding
<1>2. s \in Source /\ source[s] \in SourceRecord /\ Balanced(alloc[p])
  BY LedgerFacts
<1>3. /\ src \in SourceRecord
      /\ src.authorized = source[s].authorized - amount
      /\ src.reserved = IF s \in Secured THEN source[s].reserved - amount ELSE source[s].reserved
      /\ src.spent = source[s].spent + amount /\ src.released = source[s].released
  BY <1>1, <1>2, SpentSourceTyped DEF CanSpend
<1>4. /\ Balanced(a) /\ a.source = s /\ a.state # "none"
      /\ a.remaining = alloc[p].remaining - amount
      /\ a.spent = alloc[p].spent + amount /\ a.released = alloc[p].released
  BY <1>1, <1>2, SpentAllocationBalanced DEF CanSpend
<1> HIDE DEF src, a
<1>5. /\ source[s].authorized \in Nat /\ source[s].reserved \in Nat
      /\ source[s].spent \in Nat /\ source[s].released \in Nat
      /\ alloc[p].remaining \in Nat /\ alloc[p].spent \in Nat /\ alloc[p].released \in Nat
  BY <1>2 DEF SourceRecord, Balanced, AllocationRecord
<1>6. /\ src.authorized = source[s].authorized - alloc[p].remaining + a.remaining
      /\ src.reserved = IF s \in Secured
                        THEN source[s].reserved - alloc[p].remaining + a.remaining
                        ELSE source[s].reserved
      /\ src.spent = source[s].spent - alloc[p].spent + a.spent
      /\ src.released = source[s].released - alloc[p].released + a.released
  BY <1>3, <1>4, <1>5
<1>7. alloc[p].source = s
  OBVIOUS
<1> HIDE DEF s
<1> QED BY <1>1, <1>2, <1>3, <1>4, <1>6, <1>7, AllocationStep

\* releaseFundingAllocation keeps the ledger correct.
LEMMA ReleaseKeeps ==
  ASSUME LedgerInv, NEW p \in Pass, ReleaseFunding(p)
  PROVE  LedgerInv'
<1> DEFINE s == alloc[p].source
           rest == Rest(alloc[p])
           src == ReleasedSource(s, source[s], rest)
           a == ReleasedAllocation(alloc[p])
<1>1. /\ alloc[p].state = "active" /\ ReleaseAllowed(alloc[p], source[s])
      /\ source' = [source EXCEPT ![s] = src]
      /\ alloc' = [alloc EXCEPT ![p] = a] /\ loaded' = loaded
  BY DEF ReleaseFunding
<1>2. s \in Source /\ source[s] \in SourceRecord /\ Balanced(alloc[p])
  BY LedgerFacts
<1>3. /\ Balanced(a) /\ a.source = s /\ a.state # "none"
      /\ a.remaining = 0 /\ a.spent = alloc[p].spent
      /\ a.released = alloc[p].released + alloc[p].remaining
      /\ rest = alloc[p].remaining
  BY <1>1, <1>2, ReleasedAllocationBalanced
<1>4. /\ source[s].authorized \in Nat /\ source[s].reserved \in Nat
      /\ source[s].spent \in Nat /\ source[s].released \in Nat
      /\ alloc[p].remaining \in Nat /\ alloc[p].spent \in Nat /\ alloc[p].released \in Nat
  BY <1>2 DEF SourceRecord, Balanced, AllocationRecord
<1>5. /\ s \in Secured => source[s].reserved >= rest /\ source[s].reserved - rest <= source[s].balance
      /\ source[s].authorized >= rest
  BY <1>1 DEF ReleaseAllowed
<1> HIDE DEF rest, a
<1>6. /\ src \in SourceRecord
      /\ src.authorized = source[s].authorized - rest
      /\ src.reserved = IF s \in Secured THEN source[s].reserved - rest ELSE source[s].reserved
      /\ src.spent = source[s].spent /\ src.released = source[s].released + rest
  BY <1>2, <1>3, <1>4, <1>5, ReleasedSourceTyped
<1> HIDE DEF src
<1>7. /\ src.authorized = source[s].authorized - alloc[p].remaining + a.remaining
      /\ src.reserved = IF s \in Secured
                        THEN source[s].reserved - alloc[p].remaining + a.remaining
                        ELSE source[s].reserved
      /\ src.spent = source[s].spent - alloc[p].spent + a.spent
      /\ src.released = source[s].released - alloc[p].released + a.released
  BY <1>3, <1>4, <1>6
<1>8. alloc[p].source = s
  OBVIOUS
<1> HIDE DEF s
<1> QED BY <1>1, <1>2, <1>3, <1>6, <1>7, <1>8, AllocationStep

\* A step that leaves the ledger alone keeps it correct.
LEMMA LedgerStutter == LedgerInv /\ UNCHANGED fundingVars => LedgerInv'
<1> SUFFICES ASSUME LedgerInv, UNCHANGED fundingVars PROVE LedgerInv'
  OBVIOUS
<1>1. source' = source /\ alloc' = alloc /\ loaded' = loaded
  BY DEF fundingVars
<1>2. FundingTypeOK' /\ AllocationBalanced' /\ UnmadeIsEmpty'
  BY <1>1 DEF LedgerInv, FundingTypeOK, AllocationBalanced, UnmadeIsEmpty
<1>3. SourceMatchesAllocations'
  BY <1>1, SMTT(30)
  DEF LedgerInv, SourceMatchesAllocations, HeldOf, SpentOf, ReleasedOf, Total, Units
<1> QED BY <1>2, <1>3 DEF LedgerInv

\* Every behaviour of the ledger keeps its contract: the counters of a source
\* are the sums over its allocations, and each allocation balances, whatever
\* observations are saved between the transactions.
THEOREM LedgerCorrect ==
  FundingSpec => [](FundingTypeOK /\ LedgerBalanced)
<1>1. FundingInit => LedgerInv
  BY LedgerInit
<1>2. LedgerInv /\ [FundingNext]_fundingVars => LedgerInv'
  <2> SUFFICES ASSUME LedgerInv, [FundingNext]_fundingVars PROVE LedgerInv'
    OBVIOUS
  <2>1. CASE SourceNext
    BY <2>1, SourceStepKeeps
  <2>2. ASSUME NEW p \in Pass, NEW s \in Source, NEW a \in Grant, AllocateFunding(p, s, a)
        PROVE  LedgerInv'
    BY <2>2, AllocateKeeps, FundingAssumption
  <2>3. ASSUME NEW p \in Pass, NEW a \in Grant, TopUpFunding(p, a)
        PROVE  LedgerInv'
    BY <2>3, TopUpKeeps, FundingAssumption
  <2>4. ASSUME NEW p \in Pass, NEW a \in Grant, SpendFunding(p, a)
        PROVE  LedgerInv'
    BY <2>4, SpendKeeps, FundingAssumption
  <2>5. ASSUME NEW p \in Pass, ReleaseFunding(p)
        PROVE  LedgerInv'
    BY <2>5, ReleaseKeeps
  <2>6. CASE UNCHANGED fundingVars
    BY <2>6, LedgerStutter
  <2> QED BY <2>1, <2>2, <2>3, <2>4, <2>5, <2>6 DEF FundingNext, AllocationNext
<1>3. LedgerInv => FundingTypeOK /\ LedgerBalanced
  BY DEF LedgerInv, LedgerBalanced
<1> QED BY <1>1, <1>2, <1>3, PTL DEF FundingSpec

\* An exhausted or released allocation never changes again: the late top-up,
\* spend or release of a racing request finds no active allocation.
THEOREM ClosedAllocationsStayFrozen == FundingSpec => ClosedAllocationsFrozen
<1> DEFINE Frozen == \A p \in Pass : alloc[p].state \in {"exhausted", "released"}
                                        => alloc'[p] = alloc[p]
<1>1. FundingTypeOK /\ [FundingNext]_fundingVars => [Frozen]_fundingVars
  <2> SUFFICES ASSUME FundingTypeOK, FundingNext PROVE Frozen
    OBVIOUS
  <2>1. alloc \in [Pass -> AllocationRecord]
    BY DEF FundingTypeOK
  <2>2. CASE SourceNext
    <3>1. alloc' = alloc
      BY <2>2, SourceStep
    <3> QED BY <3>1
  <2>3. CASE AllocationNext
    BY <2>1, <2>3 DEF AllocationNext, AllocateFunding, TopUpFunding, SpendFunding, CanSpend, ReleaseFunding
  <2> QED BY <2>2, <2>3 DEF FundingNext
<1>2. FundingSpec => []FundingTypeOK
  BY LedgerCorrect, PTL
<1> QED BY <1>1, <1>2, PTL DEF FundingSpec, ClosedAllocationsFrozen
-----------------------------------------------------------------------------
(* The reservations.                                                       *)
\* A day that a charge of its pass is reserved or spent on has its counter.
BookedIsOpen ==
  \A k \in Held \cup Debited : daily[PassOf[k]][attempt[k].day].open

\* A counter that was not created yet holds nothing, and neither does a pass.
UnopenedIsEmpty ==
  /\ \A p \in Pass, d \in Days : ~daily[p][d].open => daily[p][d].reserved = 0
  /\ \A p \in Pass : pass[p].status = "none" => pass[p].limit = 0

\* The inductive invariant of the reservations.
ReservationInv ==
  /\ ReservationTypeOK
  /\ AttemptConsistent
  /\ CountersMatchAttempts
  /\ WithinLimit
  /\ WithinDailyLimit
  /\ SingleUseOnce
  /\ BookedIsOpen
  /\ UnopenedIsEmpty

\* The amounts one pass is charged are a map of naturals.
LEMMA ChargesTyped ==
  ASSUME NEW p, NEW K
  PROVE  /\ Charges(p, K) \in [Key -> Nat]
         /\ Total(Charges(p, K)) \in Nat
         /\ IsFiniteSet(Key)
<1>1. Charges(p, K) \in [Key -> Nat]
  BY ReservationAssumption DEF Charges
<1>2. IsFiniteSet(Key)
  BY ReservationAssumption
<1> QED BY <1>1, <1>2, UnitsFinite

\* A charge in K is covered by the total of K.
LEMMA ChargeCovered ==
  ASSUME NEW k \in Key, NEW K, k \in K
  PROVE  Amount[k] <= Total(Charges(PassOf[k], K))
<1>1. Charges(PassOf[k], K)[k] = Amount[k]
  BY DEF Charges
<1> QED BY <1>1, ChargesTyped, TotalCovers

\* Two disjoint sets of charges.
LEMMA ChargesSplit ==
  ASSUME NEW p, NEW J, NEW K, J \cap K = {}
  PROVE  Total(Charges(p, J \cup K)) = Total(Charges(p, J)) + Total(Charges(p, K))
<1> DEFINE f == Charges(p, J \cup K) g == Charges(p, J) h == Charges(p, K)
<1>1. /\ f \in [Key -> Nat] /\ g \in [Key -> Nat] /\ h \in [Key -> Nat]
      /\ IsFiniteSet(Key)
  BY ChargesTyped
<1>2. \A x \in Key : \/ g[x] = 0 /\ f[x] = h[x]
                     \/ h[x] = 0 /\ f[x] = g[x]
  BY DEF Charges
<1> HIDE DEF f, g, h
<1>3. Total(f) = Total(g) + Total(h)
  BY <1>1, <1>2, TotalSplit
<1> QED BY <1>3 DEF f, g, h

\* More charges total more.
LEMMA ChargesGrow ==
  ASSUME NEW p, NEW J, NEW K, J \subseteq K
  PROVE  Total(Charges(p, J)) <= Total(Charges(p, K))
<1>1. J \cup (K \ J) = K /\ J \cap (K \ J) = {}
  OBVIOUS
<1>2. Total(Charges(p, J \cup (K \ J))) = Total(Charges(p, J)) + Total(Charges(p, K \ J))
  BY <1>1, ChargesSplit
<1>3. Total(Charges(p, J)) \in Nat /\ Total(Charges(p, K \ J)) \in Nat
  BY ChargesTyped
<1>4. Total(Charges(p, K)) = Total(Charges(p, J)) + Total(Charges(p, K \ J))
  BY <1>1, <1>2
<1> QED BY <1>3, <1>4

\* Charges of other passes total nothing.
LEMMA ChargesNone ==
  ASSUME NEW p, NEW K, \A k \in K : PassOf[k] # p
  PROVE  Total(Charges(p, K)) = 0
<1>1. \A k \in Key : Charges(p, K)[k] = 0
  BY DEF Charges
<1> QED BY <1>1, ChargesTyped, TotalZero

\* The passes only charges spend are passes.
LEMMA OwnPass == Own \subseteq Pass /\ OwnKeys \subseteq Key
  BY DEF Own, OwnKeys

\* When the attempt of one key changes, the total of a set of charges moves by
\* that key's part in it.
LEMMA ChargesChange ==
  ASSUME NEW p, NEW k \in Key, NEW J, NEW K,
         J \ {k} = K \ {k}
  PROVE  Total(Charges(p, K)) = Total(Charges(p, J)) - Charges(p, J)[k] + Charges(p, K)[k]
<1> DEFINE f == Charges(p, J) g == Charges(p, K)
<1>1. f \in [Key -> Nat] /\ g \in [Key -> Nat] /\ IsFiniteSet(Key)
  BY ChargesTyped
<1>2. \A x \in Key \ {k} : g[x] = f[x]
  BY DEF Charges
<1> HIDE DEF f, g
<1>3. Total(g) = Total(f) - f[k] + g[k]
  BY <1>1, <1>2, TotalChange
<1> QED BY <1>3 DEF f, g
-----------------------------------------------------------------------------
\* The empty store satisfies the invariant.
LEMMA ReservationInitial == StoreInit => ReservationInv
<1> SUFFICES ASSUME ReservationInit PROVE ReservationInv
  BY DEF StoreInit
<1>1. Days # {} /\ 0 \in Days
  BY ReservationAssumption DEF Days
<1>2. ReservationTypeOK
  BY <1>1, ReservationAssumption
  DEF ReservationInit, ReservationTypeOK, PassRecord, CounterRecord, AttemptRecord, NoAttempt
<1>3. Held = {} /\ Debited = {}
  BY DEF ReservationInit, Held, Debited, NoAttempt
<1>4. /\ AttemptConsistent /\ WithinLimit /\ WithinDailyLimit
      /\ UnopenedIsEmpty /\ BookedIsOpen /\ SingleUseOnce
  BY <1>3, ReservationAssumption, OwnPass
  DEF ReservationInit, AttemptConsistent, NoAttempt, WithinLimit, WithinDailyLimit,
      UnopenedIsEmpty, BookedIsOpen, SingleUseOnce
<1>5. \A p \in Pass : Total(Charges(p, {})) = 0
  BY ChargesNone
<1>6. CountersMatchAttempts
  <2>1. \A d \in Days : /\ Held \cap BookedOn(d) = {} /\ Debited \cap BookedOn(d) = {}
                        /\ Debited \cap (BookedOn(d) \cup CreatedOn(d)) = {}
    BY <1>3
  <2>2. \A p \in Own : /\ pass[p].reserved = 0 /\ pass[p].spent = 0
                       /\ \A d \in Days : daily[p][d].reserved = 0 /\ daily[p][d].spent = 0
    BY OwnPass DEF ReservationInit
  <2> QED BY <1>3, <1>5, <2>1, <2>2, OwnPass DEF CountersMatchAttempts
<1> QED BY <1>2, <1>4, <1>6 DEF ReservationInv

\* Steps that move no reservation keep the invariant: leases, provider states,
\* statuses of the pass, a higher limit, what others spend on a shared pass.
LEMMA QuietStep ==
  ASSUME ReservationInv, ReservationTypeOK', AttemptConsistent',
         \A k \in Key : /\ attempt'[k].reserve = attempt[k].reserve
                        /\ attempt'[k].day = attempt[k].day
                        /\ attempt'[k].created = attempt[k].created,
         daily' = daily,
         \A p \in Own : /\ pass'[p].reserved = pass[p].reserved
                        /\ pass'[p].spent = pass[p].spent
                        /\ pass'[p].limit >= pass[p].limit,
         \A p \in Pass : pass'[p].status = "none" => pass'[p].limit = 0
  PROVE  ReservationInv'
<1>1. /\ Held' = Held /\ Debited' = Debited
      /\ \A d \in Days : BookedOn(d)' = BookedOn(d) /\ CreatedOn(d)' = CreatedOn(d)
  BY DEF Held, Debited, BookedOn, CreatedOn
<1>2. CountersMatchAttempts'
  <2> SUFFICES ASSUME NEW p \in Own
               PROVE  /\ pass'[p].reserved = Total(Charges(p, Held'))
                      /\ pass'[p].spent = Total(Charges(p, Debited'))
                      /\ \A d \in Days :
                           /\ daily'[p][d].reserved = Total(Charges(p, Held' \cap BookedOn(d)'))
                           /\ daily'[p][d].spent >= Total(Charges(p, Debited' \cap BookedOn(d)'))
                           /\ daily'[p][d].spent <=
                                Total(Charges(p, Debited' \cap (BookedOn(d)' \cup CreatedOn(d)')))
    BY DEF CountersMatchAttempts, Charges, Total, Units
  <2> QED BY <1>1 DEF ReservationInv, CountersMatchAttempts
<1>3. WithinLimit'
  BY OwnPass DEF WithinLimit, ReservationInv, ReservationTypeOK, PassRecord
<1>4. WithinDailyLimit' /\ UnopenedIsEmpty' /\ BookedIsOpen'
  <2>1. Held' \cup Debited' \subseteq Key
    BY <1>1 DEF Held, Debited
  <2> QED BY <1>1, <2>1 DEF WithinDailyLimit, UnopenedIsEmpty, BookedIsOpen, ReservationInv
<1>5. SingleUseOnce'
  BY <1>1 DEF SingleUseOnce, ReservationInv
<1> QED BY <1>2, <1>3, <1>4, <1>5 DEF ReservationInv

\* The part of k in what its pass has reserved, and in what it has spent.
HeldPart(k, reserve) == IF reserve = "reserved" THEN Amount[k] ELSE 0
DebitPart(k, reserve) == IF reserve = "debited" THEN Amount[k] ELSE 0

\* The keys of an attempt map whose reservation is in state r, those of them that
\* are booked on day d, and those booked or created on it.
InState(at, r) == {j \in Key : at[j].reserve = r}
InStateOn(at, r, d) == {j \in Key : at[j].reserve = r /\ at[j].day = d}
InStateNear(at, r, d) ==
  {j \in Key : at[j].reserve = r /\ (at[j].day = d \/ at[j].created = d)}

\* The sets of attempts by reservation state are the ones the counters sum over.
LEMMA StateSets ==
  /\ Held = InState(attempt, "reserved") /\ Debited = InState(attempt, "debited")
  /\ \A d : /\ Held \cap BookedOn(d) = InStateOn(attempt, "reserved", d)
            /\ Debited \cap BookedOn(d) = InStateOn(attempt, "debited", d)
            /\ Debited \cap (BookedOn(d) \cup CreatedOn(d)) = InStateNear(attempt, "debited", d)
  BY DEF Held, Debited, BookedOn, CreatedOn, InState, InStateOn, InStateNear

\* CountersMatchAttempts in terms of these sets.
CountersAre(ps, dl, at) ==
  \A p \in Own :
    /\ ps[p].reserved = Total(Charges(p, InState(at, "reserved")))
    /\ ps[p].spent = Total(Charges(p, InState(at, "debited")))
    /\ \A d \in Days :
         /\ dl[p][d].reserved = Total(Charges(p, InStateOn(at, "reserved", d)))
         /\ dl[p][d].spent >= Total(Charges(p, InStateOn(at, "debited", d)))
         /\ dl[p][d].spent <= Total(Charges(p, InStateNear(at, "debited", d)))

\* CountersAre is CountersMatchAttempts with the documents as parameters.
LEMMA CountersAreMatch == CountersMatchAttempts <=> CountersAre(pass, daily, attempt)
  BY StateSets DEF CountersMatchAttempts, CountersAre

\* What replacing the attempt of k does to the totals.
LEMMA TotalsMove ==
  ASSUME NEW at \in [Key -> AttemptRecord], NEW bt \in [Key -> AttemptRecord],
         NEW k \in Key, \A j \in Key \ {k} : bt[j] = at[j], NEW q, NEW r
  PROVE  Total(Charges(q, InState(bt, r))) = Total(Charges(q, InState(at, r)))
            - (IF PassOf[k] = q /\ at[k].reserve = r THEN Amount[k] ELSE 0)
            + (IF PassOf[k] = q /\ bt[k].reserve = r THEN Amount[k] ELSE 0)
<1> DEFINE J == InState(at, r) K == InState(bt, r)
<1>1. /\ J \ {k} = K \ {k}
      /\ k \in J <=> at[k].reserve = r
      /\ k \in K <=> bt[k].reserve = r
  BY DEF InState
<1> HIDE DEF J, K
<1>2. Total(Charges(q, K)) = Total(Charges(q, J)) - Charges(q, J)[k] + Charges(q, K)[k]
  BY <1>1, ChargesChange
<1>3. /\ Charges(q, J)[k] = IF PassOf[k] = q /\ k \in J THEN Amount[k] ELSE 0
      /\ Charges(q, K)[k] = IF PassOf[k] = q /\ k \in K THEN Amount[k] ELSE 0
  BY DEF Charges
<1> QED BY <1>1, <1>2, <1>3 DEF J, K

\* The same for the sums of one day.
LEMMA TotalsMoveOn ==
  ASSUME NEW at \in [Key -> AttemptRecord], NEW bt \in [Key -> AttemptRecord],
         NEW k \in Key, \A j \in Key \ {k} : bt[j] = at[j], NEW q, NEW r, NEW d
  PROVE  Total(Charges(q, InStateOn(bt, r, d))) = Total(Charges(q, InStateOn(at, r, d)))
            - (IF PassOf[k] = q /\ at[k].reserve = r /\ at[k].day = d THEN Amount[k] ELSE 0)
            + (IF PassOf[k] = q /\ bt[k].reserve = r /\ bt[k].day = d THEN Amount[k] ELSE 0)
<1> DEFINE J == InStateOn(at, r, d) K == InStateOn(bt, r, d)
<1>1. /\ J \ {k} = K \ {k}
      /\ k \in J <=> at[k].reserve = r /\ at[k].day = d
      /\ k \in K <=> bt[k].reserve = r /\ bt[k].day = d
  BY DEF InStateOn
<1> HIDE DEF J, K
<1>2. Total(Charges(q, K)) = Total(Charges(q, J)) - Charges(q, J)[k] + Charges(q, K)[k]
  BY <1>1, ChargesChange
<1>3. /\ Charges(q, J)[k] = IF PassOf[k] = q /\ k \in J THEN Amount[k] ELSE 0
      /\ Charges(q, K)[k] = IF PassOf[k] = q /\ k \in K THEN Amount[k] ELSE 0
  BY DEF Charges
<1> QED BY <1>1, <1>2, <1>3 DEF J, K

\* And for the sums that go with the days of booking and creation, when k enters them.
LEMMA TotalsMoveNear ==
  ASSUME NEW at \in [Key -> AttemptRecord], NEW bt \in [Key -> AttemptRecord],
         NEW k \in Key, \A j \in Key \ {k} : bt[j] = at[j], NEW q, NEW r, NEW d,
         at[k].reserve # r
  PROVE  Total(Charges(q, InStateNear(bt, r, d))) >= Total(Charges(q, InStateNear(at, r, d)))
            + (IF PassOf[k] = q /\ bt[k].reserve = r /\ bt[k].day = d THEN Amount[k] ELSE 0)
<1> DEFINE J == InStateNear(at, r, d) K == InStateNear(bt, r, d)
<1>1. /\ J \ {k} = K \ {k}
      /\ k \notin J
      /\ bt[k].reserve = r /\ bt[k].day = d => k \in K
  BY DEF InStateNear
<1> HIDE DEF J, K
<1>2. Total(Charges(q, K)) = Total(Charges(q, J)) - Charges(q, J)[k] + Charges(q, K)[k]
  BY <1>1, ChargesChange
<1>3. /\ Charges(q, J)[k] = IF PassOf[k] = q /\ k \in J THEN Amount[k] ELSE 0
      /\ Charges(q, K)[k] = IF PassOf[k] = q /\ k \in K THEN Amount[k] ELSE 0
  BY DEF Charges
<1>4. Amount[k] \in Nat /\ Total(Charges(q, J)) \in Nat
  BY ChargesTyped, ReservationAssumption
<1> QED BY <1>1, <1>2, <1>3, <1>4 DEF J, K

\* From at to bt only k moves, and the counters of its pass and day move by k's
\* part in them.
OnlyMoves(k, at, bt) ==
  /\ \A j \in Key \ {k} : bt[j] = at[j]
  /\ at[k].reserve = "none" \/ at[k].day = bt[k].day

PassFollows(k, at, bt, ps, pt) ==
  \A q \in Pass :
    /\ pt[q].reserved =
         IF q = PassOf[k]
         THEN ps[q].reserved - HeldPart(k, at[k].reserve) + HeldPart(k, bt[k].reserve)
         ELSE ps[q].reserved
    /\ pt[q].spent =
         IF q = PassOf[k]
         THEN ps[q].spent - DebitPart(k, at[k].reserve) + DebitPart(k, bt[k].reserve)
         ELSE ps[q].spent

DayFollows(k, at, bt, dl, dt) ==
  \A q \in Pass, d \in Days :
    /\ dt[q][d].reserved =
         IF q = PassOf[k] /\ d = bt[k].day
         THEN dl[q][d].reserved - HeldPart(k, at[k].reserve) + HeldPart(k, bt[k].reserve)
         ELSE dl[q][d].reserved
    /\ dt[q][d].spent =
         IF q = PassOf[k] /\ d = bt[k].day
         THEN dl[q][d].spent - DebitPart(k, at[k].reserve) + DebitPart(k, bt[k].reserve)
         ELSE dl[q][d].spent

\* Such a step keeps the counters at the sums.
LEMMA MovingStep ==
  ASSUME NEW at \in [Key -> AttemptRecord], NEW bt \in [Key -> AttemptRecord],
         NEW ps, NEW pt, NEW dl \in [Pass -> [Days -> CounterRecord]], NEW dt, NEW k \in Key,
         CountersAre(ps, dl, at), OnlyMoves(k, at, bt), at[k].reserve # "debited",
         PassFollows(k, at, bt, ps, pt), DayFollows(k, at, bt, dl, dt)
  PROVE  CountersAre(pt, dt, bt)
<1> SUFFICES ASSUME NEW q \in Own
             PROVE  /\ pt[q].reserved = Total(Charges(q, InState(bt, "reserved")))
                    /\ pt[q].spent = Total(Charges(q, InState(bt, "debited")))
                    /\ \A d \in Days :
                         /\ dt[q][d].reserved = Total(Charges(q, InStateOn(bt, "reserved", d)))
                         /\ dt[q][d].spent >= Total(Charges(q, InStateOn(bt, "debited", d)))
                         /\ dt[q][d].spent <= Total(Charges(q, InStateNear(bt, "debited", d)))
  BY DEF CountersAre
<1>1. Amount[k] \in Nat /\ q \in Pass
  BY ReservationAssumption, OwnPass
<1>2. pt[q].reserved = Total(Charges(q, InState(bt, "reserved")))
  <2>1. ps[q].reserved = Total(Charges(q, InState(at, "reserved")))
    BY DEF CountersAre
  <2>2. Total(Charges(q, InState(at, "reserved"))) \in Nat
    BY ChargesTyped
  <2>3. Total(Charges(q, InState(bt, "reserved"))) = Total(Charges(q, InState(at, "reserved")))
          - (IF PassOf[k] = q /\ at[k].reserve = "reserved" THEN Amount[k] ELSE 0)
          + (IF PassOf[k] = q /\ bt[k].reserve = "reserved" THEN Amount[k] ELSE 0)
    BY TotalsMove DEF OnlyMoves
  <2> QED BY <1>1, <2>1, <2>2, <2>3 DEF HeldPart, OnlyMoves, PassFollows
<1>3. pt[q].spent = Total(Charges(q, InState(bt, "debited")))
  <2>1. ps[q].spent = Total(Charges(q, InState(at, "debited")))
    BY DEF CountersAre
  <2>2. Total(Charges(q, InState(at, "debited"))) \in Nat
    BY ChargesTyped
  <2>3. Total(Charges(q, InState(bt, "debited"))) = Total(Charges(q, InState(at, "debited")))
          - (IF PassOf[k] = q /\ at[k].reserve = "debited" THEN Amount[k] ELSE 0)
          + (IF PassOf[k] = q /\ bt[k].reserve = "debited" THEN Amount[k] ELSE 0)
    BY TotalsMove DEF OnlyMoves
  <2> QED BY <1>1, <2>1, <2>2, <2>3 DEF DebitPart, OnlyMoves, PassFollows
<1>4. ASSUME NEW d \in Days
      PROVE  dt[q][d].reserved = Total(Charges(q, InStateOn(bt, "reserved", d)))
  <2>1. dl[q][d].reserved = Total(Charges(q, InStateOn(at, "reserved", d)))
    BY DEF CountersAre
  <2>2. Total(Charges(q, InStateOn(at, "reserved", d))) \in Nat
    BY ChargesTyped
  <2>3. Total(Charges(q, InStateOn(bt, "reserved", d))) = Total(Charges(q, InStateOn(at, "reserved", d)))
          - (IF PassOf[k] = q /\ at[k].reserve = "reserved" /\ at[k].day = d THEN Amount[k] ELSE 0)
          + (IF PassOf[k] = q /\ bt[k].reserve = "reserved" /\ bt[k].day = d THEN Amount[k] ELSE 0)
    BY TotalsMoveOn DEF OnlyMoves
  <2> QED BY <1>1, <2>1, <2>2, <2>3 DEF HeldPart, OnlyMoves, DayFollows
<1>5. ASSUME NEW d \in Days
      PROVE  /\ dt[q][d].spent >= Total(Charges(q, InStateOn(bt, "debited", d)))
             /\ dt[q][d].spent <= Total(Charges(q, InStateNear(bt, "debited", d)))
  <2> DEFINE new == IF q = PassOf[k] /\ bt[k].reserve = "debited" /\ d = bt[k].day
                    THEN Amount[k] ELSE 0
             on == Total(Charges(q, InStateOn(at, "debited", d)))
             near == Total(Charges(q, InStateNear(at, "debited", d)))
  <2>1. dl[q][d].spent >= on /\ dl[q][d].spent <= near
    BY DEF CountersAre
  <2>2. on \in Nat /\ near \in Nat /\ new \in Nat
    BY <1>1, ChargesTyped
  <2>3. dl[q][d].spent \in Nat => dt[q][d].spent = dl[q][d].spent + new
    BY <1>1 DEF DayFollows, DebitPart
  <2>4. Total(Charges(q, InStateOn(bt, "debited", d))) = on + new
    <3>1. Total(Charges(q, InStateOn(bt, "debited", d))) = on
            - (IF PassOf[k] = q /\ at[k].reserve = "debited" /\ at[k].day = d THEN Amount[k] ELSE 0)
            + (IF PassOf[k] = q /\ bt[k].reserve = "debited" /\ bt[k].day = d THEN Amount[k] ELSE 0)
      BY TotalsMoveOn DEF OnlyMoves
    <3> QED BY <1>1, <2>2, <3>1
  <2>5. Total(Charges(q, InStateNear(bt, "debited", d))) >= near + new
    <3>1. Total(Charges(q, InStateNear(bt, "debited", d))) >= near
            + (IF PassOf[k] = q /\ bt[k].reserve = "debited" /\ bt[k].day = d THEN Amount[k] ELSE 0)
      BY TotalsMoveNear DEF OnlyMoves
    <3> QED BY <3>1
  <2>6. Total(Charges(q, InStateNear(bt, "debited", d))) \in Nat
    BY ChargesTyped
  <2> HIDE DEF new, on, near
  <2>7. dl[q][d].spent \in Nat
    BY <1>1 DEF CounterRecord
  <2> QED BY <2>1, <2>2, <2>3, <2>4, <2>5, <2>6, <2>7
<1> QED BY <1>2, <1>3, <1>4, <1>5

\* CountersAreMatch in the next state.
LEMMA CountersAreMatchNext ==
  CountersMatchAttempts' <=> CountersAre(pass', daily', attempt')
<1>1. (CountersMatchAttempts <=> CountersAre(pass, daily, attempt))'
  BY CountersAreMatch, PTL
<1>2. CountersAre(pass, daily, attempt)' <=> CountersAre(pass', daily', attempt')
  BY DEF CountersAre, Charges, Total, Units, InState, InStateOn, InStateNear
<1> QED BY <1>1, <1>2
-----------------------------------------------------------------------------
\* Opening a day's counter leaves what is reserved on it, and counts no charge
\* that was neither booked nor created on that day.
LEMMA OpeningKeeps ==
  ASSUME ReservationInv, NEW p \in Pass, NEW d \in Days, NEW counter \in CountersOn(p, d)
  PROVE  /\ counter \in CounterRecord /\ counter.open
         /\ counter.reserved = daily[p][d].reserved
         /\ CountersAre(pass, [daily EXCEPT ![p][d] = counter], attempt)
<1> DEFINE S == {k \in CreatedOn(d) : attempt[k].status = "succeeded"}
<1>1. daily \in [Pass -> [Days -> CounterRecord]] /\ daily[p][d] \in CounterRecord
  BY DEF ReservationInv, ReservationTypeOK
<1>2. CountersAre(pass, daily, attempt)
  BY CountersAreMatch DEF ReservationInv
<1>3. CASE daily[p][d].open
  <2>1. counter = daily[p][d]
    BY <1>3 DEF CountersOn
  <2>2. [daily EXCEPT ![p][d] = counter] = daily
    BY <1>1, <2>1
  <2> QED BY <1>1, <1>2, <1>3, <2>1, <2>2
<1>4. CASE ~daily[p][d].open
  <2>1. PICK m \in MeteredSpend(p) :
          counter = [open |-> TRUE, reserved |-> 0, spent |-> m + Total(Charges(p, S))]
    BY <1>4 DEF CountersOn
  <2>2. m \in Nat /\ Total(Charges(p, S)) \in Nat /\ (p \in Own => m = 0)
    BY ChargesTyped, ReservationAssumption DEF MeteredSpend, Own
  <2>3. daily[p][d].reserved = 0
    BY <1>4 DEF ReservationInv, UnopenedIsEmpty
  <2>4. counter \in CounterRecord /\ counter.open /\ counter.reserved = daily[p][d].reserved
    BY <2>1, <2>2, <2>3 DEF CounterRecord
  <2>5. counter.spent = m + Total(Charges(p, S))
    BY <2>1
  <2>6. ASSUME p \in Own
        PROVE  /\ counter.spent >= Total(Charges(p, InStateOn(attempt, "debited", d)))
               /\ counter.spent <= Total(Charges(p, InStateNear(attempt, "debited", d)))
    <3>1. S \subseteq InStateNear(attempt, "debited", d)
      BY DEF ReservationInv, AttemptConsistent, CreatedOn, InStateNear
    <3>2. Total(Charges(p, S)) <= Total(Charges(p, InStateNear(attempt, "debited", d)))
      BY <3>1, ChargesGrow
    <3>3. \A k \in InStateOn(attempt, "debited", d) : PassOf[k] # p
      BY <1>4 DEF ReservationInv, BookedIsOpen, Debited, InStateOn
    <3>4. Total(Charges(p, InStateOn(attempt, "debited", d))) = 0
      BY <3>3, ChargesNone
    <3> QED BY <2>2, <2>5, <2>6, <3>2, <3>4
  <2>7. \A q \in Pass, e \in Days :
          [daily EXCEPT ![p][d] = counter][q][e] = IF q = p /\ e = d THEN counter ELSE daily[q][e]
    BY <1>1
  <2>8. CountersAre(pass, [daily EXCEPT ![p][d] = counter], attempt)
    <3> DEFINE dl == [daily EXCEPT ![p][d] = counter]
    <3> SUFFICES ASSUME NEW q \in Own
                 PROVE  /\ pass[q].reserved = Total(Charges(q, InState(attempt, "reserved")))
                        /\ pass[q].spent = Total(Charges(q, InState(attempt, "debited")))
                        /\ \A e \in Days :
                             /\ dl[q][e].reserved = Total(Charges(q, InStateOn(attempt, "reserved", e)))
                             /\ dl[q][e].spent >= Total(Charges(q, InStateOn(attempt, "debited", e)))
                             /\ dl[q][e].spent <= Total(Charges(q, InStateNear(attempt, "debited", e)))
      BY DEF CountersAre
    <3>1. q \in Pass
      BY OwnPass
    <3>2. /\ pass[q].reserved = Total(Charges(q, InState(attempt, "reserved")))
          /\ pass[q].spent = Total(Charges(q, InState(attempt, "debited")))
      BY <1>2 DEF CountersAre
    <3>3. ASSUME NEW e \in Days
          PROVE  /\ dl[q][e].reserved = Total(Charges(q, InStateOn(attempt, "reserved", e)))
                 /\ dl[q][e].spent >= Total(Charges(q, InStateOn(attempt, "debited", e)))
                 /\ dl[q][e].spent <= Total(Charges(q, InStateNear(attempt, "debited", e)))
      <4>1. /\ daily[q][e].reserved = Total(Charges(q, InStateOn(attempt, "reserved", e)))
            /\ daily[q][e].spent >= Total(Charges(q, InStateOn(attempt, "debited", e)))
            /\ daily[q][e].spent <= Total(Charges(q, InStateNear(attempt, "debited", e)))
        BY <1>2 DEF CountersAre
      <4>2. dl[q][e] = IF q = p /\ e = d THEN counter ELSE daily[q][e]
        BY <2>7, <3>1
      <4> HIDE DEF dl
      <4>3. CASE q = p /\ e = d
        BY <2>4, <2>6, <4>1, <4>2, <4>3
      <4>4. CASE ~(q = p /\ e = d)
        BY <4>1, <4>2, <4>4
      <4> QED BY <4>3, <4>4
    <3> QED BY <3>2, <3>3
  <2> QED BY <2>4, <2>8
<1> QED BY <1>3, <1>4

\* The counter a reservation was admitted by, and what the step does with it.
LEMMA ReserveFacts ==
  ASSUME NEW c \in Caller, NEW k \in Key, NEW d \in Days, ReserveChargeAttempt(c, k, d)
  PROVE  \E counter \in CountersOn(PassOf[k], d) :
           /\ attempt[k].status = "absent"
           /\ PassAdmits(PassOf[k], Amount[k])
           /\ DayAdmits(counter, Amount[k])
           /\ pass' = [pass EXCEPT ![PassOf[k]].reserved = @ + Amount[k]]
           /\ daily' = [daily EXCEPT
                          ![PassOf[k]][d] = [counter EXCEPT !.reserved = @ + Amount[k]]]
           /\ attempt' = [attempt EXCEPT ![k] = NewAttempt(c, d)]
           /\ today' = today
  BY DEF ReserveChargeAttempt

\* Reserving a charge (reserveChargeAttempt) keeps the invariant.
LEMMA ReserveKeeps ==
  ASSUME ReservationInv, NEW c \in Caller, NEW k \in Key, NEW d \in Days,
         ReserveChargeAttempt(c, k, d)
  PROVE  ReservationInv'
<1> DEFINE p == PassOf[k]
           n == Amount[k]
           a == NewAttempt(c, d)
           more == pass[p].reserved + n
<1>1. /\ p \in Pass /\ n \in Nat /\ n > 0 /\ today \in Days
      /\ pass \in [Pass -> PassRecord] /\ daily \in [Pass -> [Days -> CounterRecord]]
      /\ attempt \in [Key -> AttemptRecord]
  BY ReservationAssumption DEF ReservationInv, ReservationTypeOK
<1>2. PICK C \in CountersOn(p, d) :
        /\ attempt[k].status = "absent"
        /\ PassAdmits(p, n)
        /\ DayAdmits(C, n)
        /\ pass' = [pass EXCEPT ![p].reserved = @ + n]
        /\ daily' = [daily EXCEPT ![p][d] = [C EXCEPT !.reserved = @ + n]]
        /\ attempt' = [attempt EXCEPT ![k] = a]
        /\ today' = today
  BY ReserveFacts
<1> DEFINE booked == C.reserved + n
           D == [C EXCEPT !.reserved = booked]
           opened == [daily EXCEPT ![p][d] = C]
<1>3. /\ C \in CounterRecord /\ C.open
      /\ CountersAre(pass, opened, attempt)
  BY <1>1, <1>2, OpeningKeeps
<1>4. attempt[k].reserve = "none"
  BY <1>1, <1>2 DEF ReservationInv, AttemptConsistent, AttemptRecord
<1>5. more \in Nat /\ booked \in Nat /\ C.spent \in Nat /\ C.reserved \in Nat
  BY <1>1, <1>3 DEF PassRecord, CounterRecord
<1>6. /\ a \in AttemptRecord
      /\ a.status = "pending" /\ a.reserve = "reserved" /\ a.day = d
      /\ D \in CounterRecord
      /\ D.open /\ D.reserved = booked /\ D.spent = C.spent
  BY <1>1, <1>3, <1>5 DEF AttemptRecord, CounterRecord, NewAttempt
<1>7. /\ pass' = [pass EXCEPT ![p].reserved = more]
      /\ daily' = [daily EXCEPT ![p][d] = D]
      /\ C.spent + booked <= DailyLimit
  BY <1>1, <1>2, <1>5, ReservationAssumption DEF DayAdmits
<1> HIDE DEF D, booked, a
<1>8. /\ \A q \in Pass : pass'[q] = IF q = p THEN [pass[p] EXCEPT !.reserved = more] ELSE pass[q]
      /\ \A q \in Pass, e \in Days :
           daily'[q][e] = IF q = p /\ e = d THEN D ELSE daily[q][e]
      /\ \A q \in Pass, e \in Days :
           opened[q][e] = IF q = p /\ e = d THEN C ELSE daily[q][e]
      /\ opened \in [Pass -> [Days -> CounterRecord]]
      /\ \A j \in Key : attempt'[j] = IF j = k THEN a ELSE attempt[j]
  <2>1. \A j \in Key : attempt'[j] = IF j = k THEN a ELSE attempt[j]
    BY <1>1, <1>2
  <2>2. /\ \A q \in Pass, e \in Days :
             opened[q][e] = IF q = p /\ e = d THEN C ELSE daily[q][e]
        /\ opened \in [Pass -> [Days -> CounterRecord]]
    BY <1>1, <1>3
  <2>3. /\ \A q \in Pass : pass'[q] = IF q = p THEN [pass[p] EXCEPT !.reserved = more] ELSE pass[q]
        /\ \A q \in Pass, e \in Days :
             daily'[q][e] = IF q = p /\ e = d THEN D ELSE daily[q][e]
    BY <1>1, <1>7
  <2> HIDE DEF opened
  <2> QED BY <2>1, <2>2, <2>3
<1> HIDE DEF opened
<1>9. ReservationTypeOK'
  <2>1. pass' \in [Pass -> PassRecord]
    <3>1. pass[p] \in PassRecord
      BY <1>1
    <3>2. [pass[p] EXCEPT !.reserved = more] \in PassRecord
      BY <1>5, <3>1 DEF PassRecord
    <3> QED BY <1>1, <1>7, <3>2
  <2>2. daily' \in [Pass -> [Days -> CounterRecord]]
    BY <1>1, <1>6, <1>7
  <2>3. attempt' \in [Key -> AttemptRecord]
    BY <1>1, <1>2, <1>6
  <2> QED BY <1>1, <1>2, <2>1, <2>2, <2>3 DEF ReservationTypeOK
<1>10. AttemptConsistent'
  BY <1>6, <1>8 DEF ReservationInv, AttemptConsistent
<1>11. CountersMatchAttempts'
  <2>1. /\ \A j \in Key \ {k} : attempt'[j] = attempt[j]
        /\ attempt'[k].reserve = "reserved" /\ attempt'[k].day = d
        /\ attempt' \in [Key -> AttemptRecord]
    BY <1>6, <1>8, <1>9 DEF ReservationTypeOK
  <2>2. /\ HeldPart(k, attempt[k].reserve) = 0 /\ HeldPart(k, attempt'[k].reserve) = n
        /\ DebitPart(k, attempt[k].reserve) = 0 /\ DebitPart(k, attempt'[k].reserve) = 0
    BY <1>4, <2>1 DEF HeldPart, DebitPart
  <2>3. PassFollows(k, attempt, attempt', pass, pass')
    BY <1>1, <1>8, <2>2 DEF PassFollows, PassRecord
  <2>4. DayFollows(k, attempt, attempt', opened, daily')
    <3> SUFFICES ASSUME NEW q \in Pass, NEW e \in Days
                 PROVE  /\ daily'[q][e].reserved = IF q = p /\ e = d
                                                   THEN opened[q][e].reserved - 0 + n
                                                   ELSE opened[q][e].reserved
                        /\ daily'[q][e].spent = IF q = p /\ e = d
                                                THEN opened[q][e].spent - 0 + 0
                                                ELSE opened[q][e].spent
      BY <2>1, <2>2 DEF DayFollows
    <3> QED BY <1>1, <1>3, <1>5, <1>6, <1>8 DEF booked
  <2>5. OnlyMoves(k, attempt, attempt')
    BY <1>4, <2>1 DEF OnlyMoves
  <2>6. CountersAre(pass', daily', attempt')
    BY <1>1, <1>3, <1>4, <1>8, <2>1, <2>3, <2>4, <2>5, MovingStep
  <2> QED BY <2>6, CountersAreMatchNext
<1>12. WithinLimit' /\ WithinDailyLimit' /\ UnopenedIsEmpty' /\ BookedIsOpen'
  <2>1. pass[p].spent + pass[p].reserved + n <= pass[p].limit /\ pass[p].status = "active"
    BY <1>2 DEF PassAdmits
  <2>2. WithinLimit'
    <3> SUFFICES ASSUME NEW q \in Own
                 PROVE  pass'[q].spent + pass'[q].reserved <= pass'[q].limit
      BY DEF WithinLimit
    <3>1. q \in Pass /\ pass[q] \in PassRecord
      BY <1>1, OwnPass
    <3>2. CASE q = p
      <4>1. /\ pass'[q].spent = pass[p].spent /\ pass'[q].limit = pass[p].limit
            /\ pass'[q].reserved = pass[p].reserved + n
        BY <1>1, <1>8, <3>1, <3>2 DEF PassRecord
      <4>2. pass[p].spent \in Nat /\ pass[p].reserved \in Nat /\ pass[p].limit \in Nat
        BY <3>1, <3>2 DEF PassRecord
      <4> QED BY <1>1, <2>1, <4>1, <4>2
    <3>3. CASE q # p
      BY <1>8, <3>1, <3>3 DEF ReservationInv, WithinLimit
    <3> QED BY <3>2, <3>3
  <2>3. WithinDailyLimit'
    BY <1>6, <1>7, <1>8 DEF ReservationInv, WithinDailyLimit
  <2>4. UnopenedIsEmpty'
    <3>1. \A q \in Pass, e \in Days : ~daily'[q][e].open => daily'[q][e].reserved = 0
      BY <1>6, <1>8 DEF ReservationInv, UnopenedIsEmpty
    <3>2. ASSUME NEW q \in Pass, pass'[q].status = "none" PROVE pass'[q].limit = 0
      <4>1. CASE q = p
        <5>1. pass[p] \in PassRecord /\ pass'[p] = [pass[p] EXCEPT !.reserved = more]
          BY <1>1, <1>8
        <5>2. pass'[p].status = "active"
          BY <2>1, <5>1 DEF PassRecord
        <5> QED BY <3>2, <4>1, <5>2
      <4>2. CASE q # p
        <5>1. pass'[q] = pass[q]
          BY <1>8, <4>2
        <5> QED BY <3>2, <5>1 DEF ReservationInv, UnopenedIsEmpty
      <4> QED BY <4>1, <4>2
    <3> QED BY <3>1, <3>2 DEF UnopenedIsEmpty
  <2>5. BookedIsOpen'
    <3> SUFFICES ASSUME NEW j \in Key, attempt'[j].reserve \in {"reserved", "debited"}
                 PROVE  daily'[PassOf[j]][attempt'[j].day].open
      BY DEF BookedIsOpen, Held, Debited
    <3>1. PassOf[j] \in Pass /\ attempt'[j].day \in Days
      BY <1>9, ReservationAssumption DEF ReservationTypeOK, AttemptRecord
    <3>2. CASE j = k
      BY <1>6, <1>8, <3>1, <3>2
    <3>3. CASE j # k
      <4>1. attempt'[j] = attempt[j]
        BY <1>8, <3>3
      <4>2. daily[PassOf[j]][attempt[j].day].open
        BY <4>1 DEF ReservationInv, BookedIsOpen, Held, Debited
      <4> QED BY <1>6, <1>8, <3>1, <4>1, <4>2
    <3> QED BY <3>2, <3>3
  <2> QED BY <2>2, <2>3, <2>4, <2>5
<1>13. SingleUseOnce'
  <2>1. (Held \cup Debited)' = (Held \cup Debited) \cup {k}
    BY <1>4, <1>6, <1>8 DEF Held, Debited
  <2>2. ASSUME NEW j \in Held \cup Debited, PassOf[j] = p, p \in SingleUse \ Shared
        PROVE  FALSE
    <3>1. j \in Key /\ Amount[j] \in Nat /\ Amount[j] > 0 /\ p \in Own
      BY <1>1, <2>2, ReservationAssumption DEF Held, Debited, Own
    <3>2. pass[p].spent + pass[p].reserved = 0 /\ pass[p].spent \in Nat /\ pass[p].reserved \in Nat
      BY <1>1, <1>2, <2>2 DEF PassAdmits, PassRecord
    <3>3. pass[p].reserved = Total(Charges(p, Held)) /\ pass[p].spent = Total(Charges(p, Debited))
      BY <3>1 DEF ReservationInv, CountersMatchAttempts
    <3>4. j \in Held => Amount[j] <= Total(Charges(p, Held))
      BY <2>2, <3>1, ChargeCovered
    <3>5. j \in Debited => Amount[j] <= Total(Charges(p, Debited))
      BY <2>2, <3>1, ChargeCovered
    <3> QED BY <2>2, <3>1, <3>2, <3>3, <3>4, <3>5
  <2> QED BY <2>1, <2>2 DEF ReservationInv, SingleUseOnce
<1> QED BY <1>9, <1>10, <1>11, <1>12, <1>13 DEF ReservationInv

\* Giving a reservation back (releaseChargeReservation) keeps the invariant.
LEMMA ReleaseChargeKeeps ==
  ASSUME ReservationInv, NEW k \in Key, ReleaseChargeReservation(k)
  PROVE  ReservationInv'
<1> DEFINE p == PassOf[k]
           n == Amount[k]
           e == attempt[k].day
           a == [attempt[k] EXCEPT !.status = "failed", !.reserve = "released",
                                   !.provider = "failed", !.age = "expired"]
           less == pass[p].reserved - n
           old == daily[p][e]
           back == old.reserved - n
           D == [old EXCEPT !.reserved = back]
<1>1. /\ p \in Pass /\ n \in Nat /\ n > 0 /\ today \in Days
      /\ pass \in [Pass -> PassRecord] /\ daily \in [Pass -> [Days -> CounterRecord]]
      /\ attempt \in [Key -> AttemptRecord]
  BY ReservationAssumption DEF ReservationInv, ReservationTypeOK
<1>2. e \in Days
  BY <1>1 DEF AttemptRecord
<1>3. /\ attempt[k].reserve = "reserved"
      /\ pass[p].reserved >= n /\ daily[p][e].reserved >= n
      /\ pass' = [pass EXCEPT ![p].reserved = less]
      /\ daily' = [daily EXCEPT ![p][e] = D]
      /\ attempt' = [attempt EXCEPT ![k].status = "failed", ![k].reserve = "released",
                                    ![k].provider = "failed", ![k].age = "expired"]
      /\ today' = today
  BY DEF ReleaseChargeReservation, CountersHold
<1>4. less \in Nat /\ back \in Nat
  BY <1>1, <1>2, <1>3 DEF PassRecord, CounterRecord
<1>5. /\ a \in AttemptRecord /\ a.status = "failed" /\ a.reserve = "released"
      /\ a.provider = "failed" /\ a.day = e
  BY <1>1 DEF AttemptRecord
<1> HIDE DEF less, back
<1>6. /\ \A q \in Pass : pass'[q] = IF q = p THEN [pass[p] EXCEPT !.reserved = less] ELSE pass[q]
      /\ \A q \in Pass, d \in Days :
           daily'[q][d] = IF q = p /\ d = e THEN D ELSE daily[q][d]
      /\ \A j \in Key : attempt'[j] = IF j = k THEN a ELSE attempt[j]
  BY <1>1, <1>2, <1>3
<1> HIDE DEF e
<1>7. old \in CounterRecord
  BY <1>1, <1>2
<1>8. old = daily[p][e]
  OBVIOUS
<1> HIDE DEF old
<1>9. /\ D \in CounterRecord /\ D.reserved = back
      /\ D.open = old.open /\ D.spent = old.spent
  BY <1>4, <1>7 DEF CounterRecord
<1> HIDE DEF a, D
<1>10. ReservationTypeOK'
  <2>1. pass' \in [Pass -> PassRecord]
    <3>1. pass[p] \in PassRecord
      BY <1>1
    <3>2. [pass[p] EXCEPT !.reserved = less] \in PassRecord
      BY <1>4, <3>1 DEF PassRecord
    <3> QED BY <1>1, <1>3, <3>2
  <2>2. daily' \in [Pass -> [Days -> CounterRecord]]
    BY <1>1, <1>2, <1>3, <1>9
  <2>3. attempt' \in [Key -> AttemptRecord]
    BY <1>1, <1>3 DEF AttemptRecord
  <2> QED BY <1>1, <1>3, <2>1, <2>2, <2>3 DEF ReservationTypeOK
<1>11. AttemptConsistent'
  BY <1>5, <1>6 DEF ReservationInv, AttemptConsistent
<1>12. CountersMatchAttempts'
  <2>1. /\ OnlyMoves(k, attempt, attempt') /\ attempt[k].reserve # "debited"
        /\ attempt'[k].reserve = "released" /\ attempt'[k].day = e
        /\ attempt' \in [Key -> AttemptRecord]
    BY <1>3, <1>5, <1>6, <1>10 DEF OnlyMoves, ReservationTypeOK, e
  <2>2. /\ HeldPart(k, attempt[k].reserve) = n /\ HeldPart(k, attempt'[k].reserve) = 0
        /\ DebitPart(k, attempt[k].reserve) = 0 /\ DebitPart(k, attempt'[k].reserve) = 0
    BY <1>3, <2>1 DEF HeldPart, DebitPart
  <2>3. PassFollows(k, attempt, attempt', pass, pass')
    BY <1>1, <1>6, <2>2 DEF PassFollows, PassRecord, less
  <2>4. DayFollows(k, attempt, attempt', daily, daily')
    BY <1>1, <1>2, <1>6, <1>8, <1>9, <2>1, <2>2 DEF DayFollows, CounterRecord, back
  <2>5. CountersAre(pass, daily, attempt)
    BY CountersAreMatch DEF ReservationInv
  <2>6. CountersAre(pass', daily', attempt')
    BY <1>1, <2>1, <2>3, <2>4, <2>5, MovingStep
  <2> QED BY <2>6, CountersAreMatchNext
<1>13. WithinLimit' /\ WithinDailyLimit' /\ UnopenedIsEmpty' /\ BookedIsOpen'
  <2>1. less <= pass[p].reserved /\ back <= daily[p][e].reserved
    BY <1>1, <1>7, <1>8 DEF less, back, PassRecord, CounterRecord
  <2>2. WithinLimit'
    BY <1>1, <1>4, <1>6, <2>1, OwnPass DEF ReservationInv, WithinLimit, PassRecord
  <2>3. WithinDailyLimit'
    <3> SUFFICES ASSUME NEW q \in Pass, NEW d \in Days
                 PROVE  daily'[q][d].spent + daily'[q][d].reserved <= DailyLimit
      BY DEF WithinDailyLimit
    <3>1. daily[q][d].spent + daily[q][d].reserved <= DailyLimit
      BY DEF ReservationInv, WithinDailyLimit
    <3>2. CASE q = p /\ d = e
      BY <1>4, <1>6, <1>7, <1>8, <1>9, <2>1, <3>1, <3>2, ReservationAssumption DEF CounterRecord
    <3>3. CASE ~(q = p /\ d = e)
      BY <1>6, <3>1, <3>3
    <3> QED BY <3>2, <3>3
  <2>4. \A q \in Pass, d \in Days : ~daily'[q][d].open => daily'[q][d].reserved = 0
    <3>1. old.open
      BY <1>1, <1>2, <1>3, <1>7, <1>8 DEF ReservationInv, UnopenedIsEmpty, CounterRecord
    <3> SUFFICES ASSUME NEW q \in Pass, NEW d \in Days, ~daily'[q][d].open
                 PROVE  daily'[q][d].reserved = 0
      OBVIOUS
    <3>2. daily'[q][d] = daily[q][d]
      BY <1>6, <1>9, <3>1
    <3> QED BY <3>2 DEF ReservationInv, UnopenedIsEmpty
  <2>5. \A q \in Pass : pass'[q].status = "none" => pass'[q].limit = 0
    <3> SUFFICES ASSUME NEW q \in Pass, pass'[q].status = "none" PROVE pass'[q].limit = 0
      OBVIOUS
    <3>1. pass'[q].status = pass[q].status /\ pass'[q].limit = pass[q].limit
      <4>1. CASE q = p
        <5>1. pass[p] \in PassRecord /\ pass'[p] = [pass[p] EXCEPT !.reserved = less]
          BY <1>1, <1>6
        <5> QED BY <4>1, <5>1 DEF PassRecord
      <4>2. CASE q # p
        BY <1>6, <4>2
      <4> QED BY <4>1, <4>2
    <3> QED BY <3>1 DEF ReservationInv, UnopenedIsEmpty
  <2>6. BookedIsOpen'
    <3> SUFFICES ASSUME NEW j \in Key, attempt'[j].reserve \in {"reserved", "debited"}
                 PROVE  daily'[PassOf[j]][attempt'[j].day].open
      BY DEF BookedIsOpen, Held, Debited
    <3>1. PassOf[j] \in Pass /\ attempt'[j].day \in Days
      BY <1>10, ReservationAssumption DEF ReservationTypeOK, AttemptRecord
    <3>2. attempt[j].reserve \in {"reserved", "debited"} /\ attempt'[j].day = attempt[j].day
      BY <1>3, <1>5, <1>6 DEF e
    <3>3. daily[PassOf[j]][attempt[j].day].open
      BY <3>2 DEF ReservationInv, BookedIsOpen, Held, Debited
    <3> QED BY <1>6, <1>8, <1>9, <3>1, <3>2, <3>3
  <2> QED BY <2>2, <2>3, <2>4, <2>5, <2>6 DEF UnopenedIsEmpty
<1>14. SingleUseOnce'
  <2>1. (Held \cup Debited)' \subseteq Held \cup Debited
    BY <1>5, <1>6 DEF Held, Debited
  <2> QED BY <2>1 DEF ReservationInv, SingleUseOnce
<1> QED BY <1>10, <1>11, <1>12, <1>13, <1>14 DEF ReservationInv

\* Debiting a reservation (finalizeChargeReservation) keeps the invariant.
LEMMA FinalizeChargeKeeps ==
  ASSUME ReservationInv, NEW k \in Key, FinalizeChargeReservation(k)
  PROVE  ReservationInv'
<1> DEFINE p == PassOf[k]
           n == Amount[k]
           e == attempt[k].day
           a == [attempt[k] EXCEPT !.status = "succeeded", !.reserve = "debited",
                                   !.age = "expired"]
           was == pass[p]
           less == was.reserved - n
           more == was.spent + n
           P == [was EXCEPT !.reserved = less, !.spent = more]
           old == daily[p][e]
           back == old.reserved - n
           used == old.spent + n
           D == [old EXCEPT !.reserved = back, !.spent = used]
<1>1. /\ p \in Pass /\ n \in Nat /\ n > 0 /\ today \in Days
      /\ pass \in [Pass -> PassRecord] /\ daily \in [Pass -> [Days -> CounterRecord]]
      /\ attempt \in [Key -> AttemptRecord]
  BY ReservationAssumption DEF ReservationInv, ReservationTypeOK
<1>2. e \in Days
  BY <1>1 DEF AttemptRecord
<1>3. /\ attempt[k].reserve = "reserved"
      /\ pass[p].reserved >= n /\ daily[p][e].reserved >= n
      /\ attempt[k].provider = "succeeded"
      /\ pass' = [pass EXCEPT ![p] = P]
      /\ daily' = [daily EXCEPT ![p][e] = D]
      /\ attempt' = [attempt EXCEPT ![k].status = "succeeded", ![k].reserve = "debited",
                                    ![k].age = "expired"]
      /\ today' = today
  BY DEF FinalizeChargeReservation, CountersHold, ReadyToFinalize
<1>4. less \in Nat /\ back \in Nat /\ more \in Nat /\ used \in Nat
  BY <1>1, <1>2, <1>3 DEF PassRecord, CounterRecord
<1>5. /\ a \in AttemptRecord /\ a.status = "succeeded" /\ a.reserve = "debited"
      /\ a.provider = attempt[k].provider /\ a.day = e
  BY <1>1 DEF AttemptRecord
<1> HIDE DEF less, back, more, used
<1>6. /\ \A q \in Pass : pass'[q] = IF q = p THEN P ELSE pass[q]
      /\ \A q \in Pass, d \in Days :
           daily'[q][d] = IF q = p /\ d = e THEN D ELSE daily[q][d]
      /\ \A j \in Key : attempt'[j] = IF j = k THEN a ELSE attempt[j]
  BY <1>1, <1>2, <1>3
<1> HIDE DEF e
<1>7. old \in CounterRecord /\ was \in PassRecord
  BY <1>1, <1>2
<1>8. old = daily[p][e] /\ was = pass[p]
  OBVIOUS
<1> HIDE DEF old, was
<1>9. /\ D \in CounterRecord /\ D.reserved = back
      /\ D.open = old.open /\ D.spent = used
      /\ P \in PassRecord /\ P.reserved = less /\ P.spent = more
      /\ P.limit = was.limit /\ P.status = was.status
  BY <1>4, <1>7 DEF CounterRecord, PassRecord
<1> HIDE DEF a, D, P
<1>10. ReservationTypeOK'
  <2>1. pass' \in [Pass -> PassRecord]
    BY <1>1, <1>3, <1>9
  <2>2. daily' \in [Pass -> [Days -> CounterRecord]]
    BY <1>1, <1>2, <1>3, <1>9
  <2>3. attempt' \in [Key -> AttemptRecord]
    BY <1>1, <1>3 DEF AttemptRecord
  <2> QED BY <1>1, <1>3, <2>1, <2>2, <2>3 DEF ReservationTypeOK
<1>11. AttemptConsistent'
  <2> SUFFICES ASSUME NEW j \in Key
               PROVE  /\ attempt'[j].status \in {"pending", "uncertain"}
                           <=> attempt'[j].reserve = "reserved"
                      /\ attempt'[j].status = "failed" <=> attempt'[j].reserve = "released"
                      /\ attempt'[j].status = "succeeded" <=> attempt'[j].reserve = "debited"
                      /\ attempt'[j].reserve = "debited" => attempt'[j].provider = "succeeded"
    BY DEF AttemptConsistent
  <2>1. CASE j = k
    <3>1. a.provider = "succeeded"
      BY <1>3, <1>5
    <3> QED BY <1>5, <1>6, <2>1, <3>1
  <2>2. CASE j # k
    BY <1>6, <2>2 DEF ReservationInv, AttemptConsistent
  <2> QED BY <2>1, <2>2
<1>12. CountersMatchAttempts'
  <2>1. /\ OnlyMoves(k, attempt, attempt') /\ attempt[k].reserve # "debited"
        /\ attempt'[k].reserve = "debited" /\ attempt'[k].day = e
        /\ attempt' \in [Key -> AttemptRecord]
    BY <1>3, <1>5, <1>6, <1>10 DEF OnlyMoves, ReservationTypeOK, e
  <2>2. /\ HeldPart(k, attempt[k].reserve) = n /\ HeldPart(k, attempt'[k].reserve) = 0
        /\ DebitPart(k, attempt[k].reserve) = 0 /\ DebitPart(k, attempt'[k].reserve) = n
    BY <1>3, <2>1 DEF HeldPart, DebitPart
  <2>3. PassFollows(k, attempt, attempt', pass, pass')
    BY <1>1, <1>6, <1>8, <1>9, <2>2 DEF PassFollows, PassRecord, less, more
  <2>4. DayFollows(k, attempt, attempt', daily, daily')
    BY <1>1, <1>2, <1>6, <1>8, <1>9, <2>1, <2>2 DEF DayFollows, CounterRecord, back, used
  <2>5. CountersAre(pass, daily, attempt)
    BY CountersAreMatch DEF ReservationInv
  <2>6. CountersAre(pass', daily', attempt')
    BY <1>1, <2>1, <2>3, <2>4, <2>5, MovingStep
  <2> QED BY <2>6, CountersAreMatchNext
<1>13. WithinLimit' /\ WithinDailyLimit' /\ UnopenedIsEmpty' /\ BookedIsOpen'
  <2>1. /\ less + more = was.reserved + was.spent
        /\ back + used = old.reserved + old.spent
    BY <1>1, <1>7, <1>8 DEF less, back, more, used, PassRecord, CounterRecord
  <2>2. WithinLimit'
    <3> SUFFICES ASSUME NEW q \in Own
                 PROVE  pass'[q].spent + pass'[q].reserved <= pass'[q].limit
      BY DEF WithinLimit
    <3>4. q \in Pass
      BY OwnPass
    <3>1. pass[q].spent + pass[q].reserved <= pass[q].limit
      BY DEF ReservationInv, WithinLimit
    <3>2. CASE q = p
      BY <1>4, <1>6, <1>7, <1>8, <1>9, <2>1, <3>1, <3>2, <3>4 DEF PassRecord
    <3>3. CASE q # p
      BY <1>6, <3>1, <3>3, <3>4
    <3> QED BY <3>2, <3>3
  <2>3. WithinDailyLimit'
    <3> SUFFICES ASSUME NEW q \in Pass, NEW d \in Days
                 PROVE  daily'[q][d].spent + daily'[q][d].reserved <= DailyLimit
      BY DEF WithinDailyLimit
    <3>1. daily[q][d].spent + daily[q][d].reserved <= DailyLimit
      BY DEF ReservationInv, WithinDailyLimit
    <3>2. CASE q = p /\ d = e
      BY <1>4, <1>6, <1>7, <1>8, <1>9, <2>1, <3>1, <3>2, ReservationAssumption DEF CounterRecord
    <3>3. CASE ~(q = p /\ d = e)
      BY <1>6, <3>1, <3>3
    <3> QED BY <3>2, <3>3
  <2>4. \A q \in Pass, d \in Days : ~daily'[q][d].open => daily'[q][d].reserved = 0
    <3>1. old.open
      BY <1>1, <1>2, <1>3, <1>7, <1>8 DEF ReservationInv, UnopenedIsEmpty, CounterRecord
    <3> SUFFICES ASSUME NEW q \in Pass, NEW d \in Days, ~daily'[q][d].open
                 PROVE  daily'[q][d].reserved = 0
      OBVIOUS
    <3>2. daily'[q][d] = daily[q][d]
      BY <1>6, <1>9, <3>1
    <3> QED BY <3>2 DEF ReservationInv, UnopenedIsEmpty
  <2>5. \A q \in Pass : pass'[q].status = "none" => pass'[q].limit = 0
    BY <1>1, <1>6, <1>8, <1>9 DEF ReservationInv, UnopenedIsEmpty
  <2>6. BookedIsOpen'
    <3> SUFFICES ASSUME NEW j \in Key, attempt'[j].reserve \in {"reserved", "debited"}
                 PROVE  daily'[PassOf[j]][attempt'[j].day].open
      BY DEF BookedIsOpen, Held, Debited
    <3>1. PassOf[j] \in Pass /\ attempt'[j].day \in Days
      BY <1>10, ReservationAssumption DEF ReservationTypeOK, AttemptRecord
    <3>2. attempt[j].reserve \in {"reserved", "debited"} /\ attempt'[j].day = attempt[j].day
      BY <1>3, <1>5, <1>6 DEF e
    <3>3. daily[PassOf[j]][attempt[j].day].open
      BY <3>2 DEF ReservationInv, BookedIsOpen, Held, Debited
    <3> QED BY <1>6, <1>8, <1>9, <3>1, <3>2, <3>3
  <2> QED BY <2>2, <2>3, <2>4, <2>5, <2>6 DEF UnopenedIsEmpty
<1>14. SingleUseOnce'
  <2>1. (Held \cup Debited)' \subseteq Held \cup Debited
    BY <1>3, <1>5, <1>6 DEF Held, Debited
  <2> QED BY <2>1 DEF ReservationInv, SingleUseOnce
<1> QED BY <1>10, <1>11, <1>12, <1>13, <1>14 DEF ReservationInv
-----------------------------------------------------------------------------
\* The quiet steps: an attempt changes its lease or provider state ...
LEMMA AttemptQuiet ==
  ASSUME ReservationInv, NEW k \in Key, NEW a \in AttemptRecord,
         attempt' = [attempt EXCEPT ![k] = a],
         UNCHANGED <<pass, daily, today>>,
         a.reserve = attempt[k].reserve, a.day = attempt[k].day,
         a.created = attempt[k].created,
         \/ a.status = attempt[k].status
         \/ {a.status, attempt[k].status} \subseteq {"pending", "uncertain"},
         a.reserve # "debited"
  PROVE  ReservationInv'
<1>1. ReservationTypeOK'
  BY DEF ReservationInv, ReservationTypeOK
<1>2. \A j \in Key : attempt'[j] = IF j = k THEN a ELSE attempt[j]
  BY DEF ReservationInv, ReservationTypeOK
<1>3. AttemptConsistent'
  BY <1>2 DEF ReservationInv, AttemptConsistent
<1>4. \A j \in Key : /\ attempt'[j].reserve = attempt[j].reserve
                     /\ attempt'[j].day = attempt[j].day
                     /\ attempt'[j].created = attempt[j].created
  BY <1>2
<1>5. /\ daily' = daily
      /\ \A p \in Own : /\ pass'[p].reserved = pass[p].reserved /\ pass'[p].spent = pass[p].spent
                        /\ pass'[p].limit >= pass[p].limit
      /\ \A p \in Pass : pass'[p].status = "none" => pass'[p].limit = 0
  <2>1. \A p \in Own : pass[p].limit \in Nat
    BY OwnPass DEF ReservationInv, ReservationTypeOK, PassRecord
  <2> QED BY <2>1 DEF ReservationInv, UnopenedIsEmpty
<1> QED BY <1>1, <1>3, <1>4, <1>5, QuietStep

\* ... or the pass changes and no attempt does.
LEMMA PassQuiet ==
  ASSUME ReservationInv, NEW p \in Pass, NEW new \in PassRecord,
         pass' = [pass EXCEPT ![p] = new],
         UNCHANGED <<daily, attempt, today>>,
         p \in Own => /\ new.reserved = pass[p].reserved /\ new.spent = pass[p].spent
                      /\ new.limit >= pass[p].limit,
         new.status # "none"
  PROVE  ReservationInv'
<1>1. ReservationTypeOK'
  BY DEF ReservationInv, ReservationTypeOK
<1>2. \A q \in Pass : pass'[q] = IF q = p THEN new ELSE pass[q]
  BY DEF ReservationInv, ReservationTypeOK
<1>3. AttemptConsistent'
  BY DEF ReservationInv, AttemptConsistent
<1>4. /\ \A q \in Own : /\ pass'[q].reserved = pass[q].reserved /\ pass'[q].spent = pass[q].spent
                        /\ pass'[q].limit >= pass[q].limit
      /\ \A q \in Pass : pass'[q].status = "none" => pass'[q].limit = 0
  <2>1. \A q \in Own : q \in Pass /\ pass[q].limit \in Nat
    BY OwnPass DEF ReservationInv, ReservationTypeOK, PassRecord
  <2> QED BY <1>2, <2>1 DEF ReservationInv, UnopenedIsEmpty
<1> QED BY <1>1, <1>3, <1>4, QuietStep

\* ... or neither.
LEMMA NothingMoves ==
  ASSUME ReservationInv, UNCHANGED <<pass, daily, attempt>>, today' \in Days
  PROVE  ReservationInv'
<1>1. ReservationTypeOK' /\ AttemptConsistent'
  BY DEF ReservationInv, ReservationTypeOK, AttemptConsistent
<1>2. \A q \in Own : pass[q].limit \in Nat
  BY OwnPass DEF ReservationInv, ReservationTypeOK, PassRecord
<1>3. /\ \A q \in Own : /\ pass'[q].reserved = pass[q].reserved /\ pass'[q].spent = pass[q].spent
                        /\ pass'[q].limit >= pass[q].limit
      /\ \A q \in Pass : pass'[q].status = "none" => pass'[q].limit = 0
  BY <1>2 DEF ReservationInv, UnopenedIsEmpty
<1> QED BY <1>1, <1>3, QuietStep

\* The steps that change only what an attempt knows of its payment keep the invariant.
LEMMA AttemptStepsKeep ==
  ASSUME ReservationInv, NEW k \in Key,
         \/ \E c \in Caller : ClaimChargeExecution(c, k) \/ MarkChargeProviderSubmitted(c, k)
         \/ MarkChargeProviderSucceeded(k) \/ MarkChargeOutcomeUncertain(k) \/ LeaseRunsOut(k)
  PROVE  ReservationInv'
<1> DEFINE old == attempt[k]
<1>1. old \in AttemptRecord /\ old = attempt[k] /\ attempt \in [Key -> AttemptRecord]
  BY DEF ReservationInv, ReservationTypeOK
<1> HIDE DEF old
<1>2. ASSUME NEW c \in Caller, ClaimChargeExecution(c, k) PROVE ReservationInv'
  <2> DEFINE a == [old EXCEPT !.lease = c, !.age = "held"]
  <2>1. /\ a \in AttemptRecord /\ a.reserve = old.reserve /\ a.day = old.day
        /\ a.created = old.created /\ a.status = old.status
    BY <1>1, ZenonT(30) DEF AttemptRecord
  <2>2. attempt' = [attempt EXCEPT ![k] = a] /\ UNCHANGED <<pass, daily, today>>
        /\ old.reserve = "reserved"
    BY <1>1, <1>2 DEF ClaimChargeExecution, NotStarted
  <2> HIDE DEF a
  <2> QED BY <1>1, <2>1, <2>2, AttemptQuiet
<1>3. ASSUME NEW c \in Caller, MarkChargeProviderSubmitted(c, k) PROVE ReservationInv'
  <2> DEFINE a == [old EXCEPT !.provider = "submitted"]
  <2>1. /\ a \in AttemptRecord /\ a.reserve = old.reserve /\ a.day = old.day
        /\ a.created = old.created /\ a.status = old.status
    BY <1>1 DEF AttemptRecord
  <2>2. attempt' = [attempt EXCEPT ![k] = a] /\ UNCHANGED <<pass, daily, today>>
        /\ old.reserve = "reserved"
    BY <1>1, <1>3 DEF MarkChargeProviderSubmitted, OwnsUnstarted, NotStarted
  <2> HIDE DEF a
  <2> QED BY <1>1, <2>1, <2>2, AttemptQuiet
<1>4. CASE MarkChargeProviderSucceeded(k)
  <2> DEFINE a == [old EXCEPT !.provider = "succeeded"]
  <2>1. /\ a \in AttemptRecord /\ a.reserve = old.reserve /\ a.day = old.day
        /\ a.created = old.created /\ a.status = old.status
    BY <1>1 DEF AttemptRecord
  <2>2. attempt' = [attempt EXCEPT ![k] = a] /\ UNCHANGED <<pass, daily, today>>
        /\ old.reserve = "reserved"
    BY <1>1, <1>4 DEF MarkChargeProviderSucceeded, Unresolved
  <2> HIDE DEF a
  <2> QED BY <1>1, <2>1, <2>2, AttemptQuiet
<1>5. CASE MarkChargeOutcomeUncertain(k)
  <2> DEFINE a == [old EXCEPT !.status = "uncertain", !.provider = "uncertain"]
  <2>1. /\ a \in AttemptRecord /\ a.reserve = old.reserve /\ a.day = old.day
        /\ a.created = old.created /\ a.status = "uncertain"
    BY <1>1, ZenonT(30) DEF AttemptRecord
  <2>2. /\ attempt' = [attempt EXCEPT ![k] = a] /\ UNCHANGED <<pass, daily, today>>
        /\ old.reserve = "reserved" /\ old.status \in {"pending", "uncertain"}
    BY <1>1, <1>5 DEF MarkChargeOutcomeUncertain, Unresolved
  <2> HIDE DEF a
  <2> QED BY <1>1, <2>1, <2>2, AttemptQuiet
<1>6. CASE LeaseRunsOut(k)
  <2> DEFINE a == [old EXCEPT !.age = IF old.age = "held" THEN "expired" ELSE "stale"]
  <2>1. /\ a \in AttemptRecord /\ a.reserve = old.reserve /\ a.day = old.day
        /\ a.created = old.created /\ a.status = old.status
    BY <1>1 DEF AttemptRecord
  <2>2. attempt' = [attempt EXCEPT ![k] = a] /\ UNCHANGED <<pass, daily, today>>
        /\ old.reserve = "reserved"
    BY <1>1, <1>6 DEF LeaseRunsOut, NotStarted
  <2> HIDE DEF a
  <2> QED BY <1>1, <2>1, <2>2, AttemptQuiet
<1> QED BY <1>2, <1>3, <1>4, <1>5, <1>6

\* Creating a pass, moving its status, raising its limit and what others spend on
\* a shared pass keep the invariant.
LEMMA PassStepsKeep ==
  ASSUME ReservationInv, NEW p \in Pass,
         \/ \E s \in Source, l \in Grant : CreateSession(p, s, l)
         \/ \E st \in Status, lc \in Lifecycle : MovePass(p, st, lc)
         \/ \E a \in Grant : RaiseLimit(p, a)
         \/ p \in Shared /\ \E l, s, r \in 0..MaxLimit, st \in Status : SpendElsewhere(p, l, s, r, st)
  PROVE  ReservationInv'
<1> DEFINE old == pass[p]
<1>1. old \in PassRecord /\ old = pass[p] /\ pass \in [Pass -> PassRecord]
  BY DEF ReservationInv, ReservationTypeOK
<1> HIDE DEF old
<1>2. ASSUME NEW s \in Source, NEW l \in Grant, CreateSession(p, s, l) PROVE ReservationInv'
  <2> DEFINE new == [old EXCEPT !.status = "active", !.limit = l]
  <2>1. l \in Nat /\ l >= 0
    BY FundingAssumption
  <2>2. /\ new \in PassRecord /\ new.reserved = old.reserved /\ new.spent = old.spent
        /\ new.limit = l /\ new.status = "active"
    BY <1>1, <2>1, ReservationAssumption DEF PassRecord
  <2>3. /\ pass' = [pass EXCEPT ![p] = new] /\ UNCHANGED <<daily, attempt, today>>
        /\ old.status = "none"
    BY <1>1, <1>2 DEF CreateSession
  <2>4. old.limit = 0
    BY <1>1, <2>3 DEF ReservationInv, UnopenedIsEmpty
  <2> HIDE DEF new
  <2> QED BY <1>1, <2>1, <2>2, <2>3, <2>4, PassQuiet
<1>3. ASSUME NEW st \in Status, NEW lc \in Lifecycle, MovePass(p, st, lc) PROVE ReservationInv'
  <2> DEFINE new == [old EXCEPT !.status = st, !.lifecycle = lc]
  <2>1. /\ new \in PassRecord /\ new.reserved = old.reserved /\ new.spent = old.spent
        /\ new.limit = old.limit /\ new.limit >= old.limit /\ new.status # "none"
    <3>1. st # "none"
      BY ReservationAssumption
    <3>2. /\ new \in PassRecord /\ new.reserved = old.reserved /\ new.spent = old.spent
          /\ new.limit = old.limit /\ new.status = st
      BY <1>1 DEF PassRecord
    <3>3. old.limit >= old.limit
      BY <1>1 DEF PassRecord
    <3> QED BY <3>1, <3>2, <3>3
  <2>2. pass' = [pass EXCEPT ![p] = new] /\ UNCHANGED <<daily, attempt, today>>
    BY <1>1, <1>3 DEF MovePass
  <2> HIDE DEF new
  <2> QED BY <1>1, <2>1, <2>2, PassQuiet
<1>4. ASSUME NEW a \in Grant, RaiseLimit(p, a) PROVE ReservationInv'
  <2> DEFINE more == old.limit + a
             new == [old EXCEPT !.limit = more]
  <2>1. more \in Nat /\ more >= old.limit
    BY <1>1, FundingAssumption DEF PassRecord
  <2>2. /\ pass' = [pass EXCEPT ![p] = new] /\ UNCHANGED <<daily, attempt, today>>
        /\ old.status # "none"
    BY <1>1, <1>4 DEF RaiseLimit
  <2> HIDE DEF more
  <2>3. /\ new \in PassRecord /\ new.reserved = old.reserved /\ new.spent = old.spent
        /\ new.limit = more /\ new.status = old.status
    BY <1>1, <2>1 DEF PassRecord
  <2> HIDE DEF new
  <2> QED BY <1>1, <2>1, <2>2, <2>3, PassQuiet
<1>5. ASSUME p \in Shared, NEW l \in 0..MaxLimit, NEW s \in 0..MaxLimit, NEW r \in 0..MaxLimit,
             NEW st \in Status, SpendElsewhere(p, l, s, r, st)
      PROVE  ReservationInv'
  <2> DEFINE new == [old EXCEPT !.limit = l, !.spent = s, !.reserved = r, !.status = st]
  <2>1. st # "none" /\ l \in Nat /\ s \in Nat /\ r \in Nat /\ p \notin Own
    BY <1>5, ReservationAssumption DEF Own
  <2>2. new \in PassRecord /\ new.status = st
    BY <1>1, <2>1 DEF PassRecord
  <2>3. pass' = [pass EXCEPT ![p] = new] /\ UNCHANGED <<daily, attempt, today>>
    BY <1>1, <1>5 DEF SpendElsewhere
  <2> HIDE DEF new
  <2> QED BY <2>1, <2>2, <2>3, PassQuiet
<1> QED BY <1>2, <1>3, <1>4, <1>5

\* Every step of the store keeps the invariant.
LEMMA StoreStepKeeps == ReservationInv /\ [StoreNext]_storeVars => ReservationInv'
<1> SUFFICES ASSUME ReservationInv, [StoreNext]_storeVars PROVE ReservationInv'
  OBVIOUS
<1>1. today \in Days
  BY DEF ReservationInv, ReservationTypeOK
<1>2. CASE UNCHANGED storeVars
  BY <1>1, <1>2, NothingMoves DEF storeVars, reservationVars
<1>3. CASE NextDay
  <2>1. today' \in Days
    BY <1>1, <1>3, ReservationAssumption DEF NextDay, Days
  <2> QED BY <1>3, <2>1, NothingMoves DEF NextDay
<1>4. CASE LedgerStep
  BY <1>1, <1>4, NothingMoves DEF LedgerStep, reservationVars
<1>5. CASE EnvironmentNext
  <2>1. Shared \subseteq Pass
    BY ReservationAssumption
  <2> QED BY <1>3, <1>4, <1>5, <2>1, AttemptStepsKeep, PassStepsKeep DEF EnvironmentNext
<1>6. CASE ReservationNext
  <2>1. RecentDays \subseteq Days
    BY DEF RecentDays
  <2> QED BY <1>6, <2>1, ReserveKeeps, AttemptStepsKeep, ReleaseChargeKeeps, FinalizeChargeKeeps
      DEF ReservationNext
<1> QED BY <1>2, <1>5, <1>6 DEF StoreNext

\* Whatever callers, sweeps, owners, days, schedules and grants do, in any order:
\* the documents are well formed, an attempt's status, reservation and provider
\* state agree, and no day is charged past its limit.  On the passes only charges
\* spend, what is reserved and spent are the sums over the attempts, the limit is
\* never passed and a single-use pass is charged once.
THEOREM ReservationsCorrect ==
  StoreSpec => [](ReservationTypeOK /\ AttemptsAccounted /\ LimitsHold /\ SingleUseOnce)
<1>1. StoreInit => ReservationInv
  BY ReservationInitial
<1>2. ReservationInv /\ [StoreNext]_storeVars => ReservationInv'
  BY StoreStepKeeps
<1>3. ReservationInv => ReservationTypeOK /\ AttemptsAccounted /\ LimitsHold /\ SingleUseOnce
  BY DEF ReservationInv, AttemptsAccounted, LimitsHold
<1> QED BY <1>1, <1>2, <1>3, PTL DEF StoreSpec

\* On the passes only charges spend, the errors releaseChargeReservation and
\* finalizeChargeReservation throw when a counter no longer holds the reservation
\* are unreachable.
THEOREM ReservationsAlwaysReturnable == StoreSpec => []ReservationsReturnable
<1>1. ReservationInv => ReservationsReturnable
  <2> SUFFICES ASSUME ReservationInv, NEW k \in Held \cap OwnKeys PROVE CountersHold(k)
    BY DEF ReservationsReturnable
  <2> DEFINE p == PassOf[k]
             d == attempt[k].day
  <2>1. k \in Key /\ p \in Own /\ d \in Days /\ k \in Held \cap BookedOn(d)
    <3>1. k \in Key
      BY DEF Held
    <3>2. attempt[k] \in AttemptRecord /\ p \in Own
      BY <3>1 DEF ReservationInv, ReservationTypeOK, OwnKeys
    <3>3. d \in Days
      BY <3>2 DEF AttemptRecord
    <3> QED BY <3>1, <3>2, <3>3 DEF BookedOn
  <2>2. pass[p].reserved = Total(Charges(p, Held))
        /\ daily[p][d].reserved = Total(Charges(p, Held \cap BookedOn(d)))
    BY <2>1 DEF ReservationInv, CountersMatchAttempts
  <2>3. Amount[k] <= Total(Charges(p, Held))
    BY <2>1, ChargeCovered
  <2>4. Amount[k] <= Total(Charges(p, Held \cap BookedOn(d)))
    BY <2>1, ChargeCovered
  <2>5. /\ Amount[k] \in Nat /\ Total(Charges(p, Held)) \in Nat
        /\ Total(Charges(p, Held \cap BookedOn(d))) \in Nat
    BY <2>1, ChargesTyped, ReservationAssumption
  <2> QED BY <2>2, <2>3, <2>4, <2>5 DEF CountersHold
<1>2. StoreSpec => []ReservationInv
  BY ReservationInitial, StoreStepKeeps, PTL DEF StoreSpec
<1> QED BY <1>1, <1>2, PTL

\* A charge that was debited or given back is final: no retry, late provider
\* answer or sweep touches its attempt again.
THEOREM ResolvedAttemptsStayFrozen == StoreSpec => ResolvedAttemptsFrozen
<1> DEFINE Frozen == \A k \in Key : attempt[k].status \in {"succeeded", "failed"}
                                       => attempt'[k] = attempt[k]
<1>1. ReservationInv /\ [StoreNext]_storeVars => [Frozen]_storeVars
  <2> SUFFICES ASSUME ReservationInv, StoreNext,
                      NEW k \in Key, attempt[k].status \in {"succeeded", "failed"}
               PROVE  attempt'[k] = attempt[k]
    OBVIOUS
  <2>1. attempt \in [Key -> AttemptRecord] /\ attempt[k].reserve # "reserved"
        /\ attempt[k].status # "absent"
    BY DEF ReservationInv, ReservationTypeOK, AttemptConsistent
  <2>2. CASE EnvironmentNext
    <3>1. ASSUME NEW p \in Shared, NEW l \in 0..MaxLimit, NEW s \in 0..MaxLimit,
                 NEW r \in 0..MaxLimit, NEW st \in Status, SpendElsewhere(p, l, s, r, st)
          PROVE  attempt' = attempt
      BY <3>1 DEF SpendElsewhere
    <3> QED BY <2>1, <2>2, <3>1 DEF EnvironmentNext, LeaseRunsOut, NotStarted, NextDay,
          CreateSession, MovePass, RaiseLimit, LedgerStep, reservationVars
  <2>3. CASE ReservationNext
    BY <2>1, <2>3 DEF ReservationNext, ReserveChargeAttempt, ClaimChargeExecution, NotStarted,
      MarkChargeProviderSubmitted, OwnsUnstarted, MarkChargeProviderSucceeded,
      MarkChargeOutcomeUncertain, Unresolved, ReleaseChargeReservation,
      FinalizeChargeReservation, ReadyToFinalize
  <2> QED BY <2>2, <2>3 DEF StoreNext
<1>2. StoreSpec => []ReservationInv
  BY ReservationInitial, StoreStepKeeps, PTL DEF StoreSpec
<1> QED BY <1>1, <1>2, PTL DEF StoreSpec, ResolvedAttemptsFrozen
-----------------------------------------------------------------------------
\* The debit of a charge: spending, and for the last charge of a single-use
\* pass releasing the rest, keeps the ledger's contract.
LEMMA SettleKeeps ==
  ASSUME LedgerInv, NEW p \in Pass, NEW n \in Nat, SettleFunding(p, n)
  PROVE  LedgerInv'
<1> DEFINE s == alloc[p].source
           a == SpentAllocation(alloc[p], n)
           src == SpentSource(s, source[s], n)
           b == ReleasedAllocation(a)
           rest == Rest(a)
           given == ReleasedSource(s, src, rest)
           last == p \in SingleUse /\ a.state = "active"
<1>1. /\ CanSpend(p, n)
      /\ last => ReleaseAllowed(a, src)
      /\ alloc' = [alloc EXCEPT ![p] = IF last THEN b ELSE a]
      /\ source' = [source EXCEPT ![s] = IF last THEN given ELSE src]
      /\ loaded' = loaded
  BY DEF SettleFunding
<1>2. CASE ~last
  <2>1. SpendFunding(p, n)
    BY <1>1, <1>2 DEF SpendFunding
  <2> QED BY <2>1, SpendKeeps
<1>3. CASE last
  <2>1. s \in Source /\ source[s] \in SourceRecord /\ Balanced(alloc[p])
    BY LedgerFacts
  <2>2. /\ src \in SourceRecord
        /\ src.authorized = source[s].authorized - n
        /\ src.reserved = IF s \in Secured THEN source[s].reserved - n ELSE source[s].reserved
        /\ src.spent = source[s].spent + n /\ src.released = source[s].released
    BY <1>1, <2>1, SpentSourceTyped DEF CanSpend
  <2>3. /\ Balanced(a) /\ a.source = s /\ a.state = "active"
        /\ a.remaining = alloc[p].remaining - n
        /\ a.spent = alloc[p].spent + n /\ a.released = alloc[p].released
    BY <1>1, <1>3, <2>1, SpentAllocationBalanced DEF CanSpend
  <2>4. /\ ReleaseAllowed(a, src)
        /\ alloc' = [alloc EXCEPT ![p] = b]
        /\ source' = [source EXCEPT ![s] = given]
        /\ loaded' = loaded
    BY <1>1, <1>3
  <2>5. alloc[p].source = s
    OBVIOUS
  <2> HIDE DEF s, a, src
  <2>6. /\ Balanced(b) /\ b.source = s /\ b.state # "none"
        /\ b.remaining = 0 /\ b.spent = a.spent /\ b.released = a.released + a.remaining
        /\ rest = a.remaining
    BY <2>3, ReleasedAllocationBalanced
  <2>7. /\ s \in Secured => src.reserved >= rest /\ src.reserved - rest <= src.balance
        /\ src.authorized >= rest
    BY <2>3, <2>4 DEF ReleaseAllowed
  <2> HIDE DEF rest, b
  <2>8. /\ source[s].authorized \in Nat /\ source[s].reserved \in Nat
        /\ source[s].spent \in Nat /\ source[s].released \in Nat
        /\ alloc[p].remaining \in Nat /\ alloc[p].spent \in Nat /\ alloc[p].released \in Nat
        /\ a.remaining \in Nat
    BY <2>1, <2>3 DEF SourceRecord, Balanced, AllocationRecord
  <2>9. /\ given \in SourceRecord
        /\ given.authorized = src.authorized - rest
        /\ given.reserved = IF s \in Secured THEN src.reserved - rest ELSE src.reserved
        /\ given.spent = src.spent /\ given.released = src.released + rest
    BY <2>1, <2>2, <2>6, <2>7, <2>8, ReleasedSourceTyped
  <2> HIDE DEF given
  <2>10. /\ given.authorized = source[s].authorized - alloc[p].remaining + b.remaining
         /\ given.reserved = IF s \in Secured
                             THEN source[s].reserved - alloc[p].remaining + b.remaining
                             ELSE source[s].reserved
         /\ given.spent = source[s].spent - alloc[p].spent + b.spent
         /\ given.released = source[s].released - alloc[p].released + b.released
    BY <2>2, <2>3, <2>6, <2>8, <2>9
  <2> QED BY <2>1, <2>4, <2>5, <2>6, <2>9, <2>10, AllocationStep
<1> QED BY <1>2, <1>3

\* Every step of the store keeps the ledger correct.
LEMMA StoreStepKeepsLedger == LedgerInv /\ [StoreNext]_storeVars => LedgerInv'
<1> SUFFICES ASSUME LedgerInv, [StoreNext]_storeVars PROVE LedgerInv'
  OBVIOUS
<1>1. CASE UNCHANGED fundingVars
  BY <1>1, LedgerStutter
<1>2. ASSUME NEW p \in Pass, NEW s \in Source, NEW l \in Grant, CreateSession(p, s, l)
      PROVE  LedgerInv'
  BY <1>2, AllocateKeeps, FundingAssumption DEF CreateSession
<1>3. CASE LedgerStep
  <2>1. ASSUME NEW p \in Pass, NEW a \in Grant, TopUpFunding(p, a) PROVE LedgerInv'
    BY <2>1, TopUpKeeps, FundingAssumption
  <2> QED BY <1>3, <2>1, SourceStepKeeps, ReleaseKeeps DEF LedgerStep
<1>4. ASSUME NEW k \in Key, FinalizeChargeReservation(k) PROVE LedgerInv'
  <2>1. PassOf[k] \in Pass /\ Amount[k] \in Nat
    BY ReservationAssumption
  <2>2. SettleFunding(PassOf[k], Amount[k])
    BY <1>4 DEF FinalizeChargeReservation
  <2> QED BY <2>1, <2>2, SettleKeeps
<1>5. CASE EnvironmentNext
  <2>1. ASSUME NEW p \in Shared, NEW l \in 0..MaxLimit, NEW s \in 0..MaxLimit,
               NEW r \in 0..MaxLimit, NEW st \in Status, SpendElsewhere(p, l, s, r, st)
        PROVE  LedgerInv'
    <3>1. ASSUME NEW n \in Grant, SpendFunding(p, n) PROVE LedgerInv'
      BY <3>1, SpendKeeps, FundingAssumption, ReservationAssumption
    <3> QED BY <1>1, <2>1, <3>1 DEF SpendElsewhere
  <2> QED BY <1>1, <1>2, <1>3, <1>5, <2>1
      DEF EnvironmentNext, LeaseRunsOut, NextDay, MovePass, RaiseLimit
<1>6. CASE ReservationNext
  BY <1>1, <1>4, <1>6 DEF ReservationNext, ReserveChargeAttempt, ClaimChargeExecution,
    MarkChargeProviderSubmitted, MarkChargeProviderSucceeded, MarkChargeOutcomeUncertain,
    ReleaseChargeReservation
<1>7. CASE UNCHANGED storeVars
  BY <1>1, <1>7 DEF storeVars
<1> QED BY <1>5, <1>6, <1>7 DEF StoreNext

\* Under the charges as well, the counters of a funding source are the sums over
\* its allocations: debiting a charge keeps the ledger's contract.
THEOREM LedgerCorrectUnderCharges ==
  StoreSpec => [](FundingTypeOK /\ LedgerBalanced)
<1>1. StoreInit => LedgerInv
  BY LedgerInit DEF StoreInit
<1>2. LedgerInv /\ [StoreNext]_storeVars => LedgerInv'
  BY StoreStepKeepsLedger
<1>3. LedgerInv => FundingTypeOK /\ LedgerBalanced
  BY DEF LedgerInv, LedgerBalanced
<1> QED BY <1>1, <1>2, <1>3, PTL DEF StoreSpec
-----------------------------------------------------------------------------
\* The commitments of a pass only charges spend total its charges: the keys of
\* shared passes charge it nothing.
LEMMA CommitmentsTotal ==
  ASSUME NEW p \in Own, NEW K
  PROVE  Total(Budget!Commitments(p, K)) = Total(Charges(p, K))
<1> DEFINE f == Budget!Commitments(p, K)
           h == Charges(p, K)
<1>1. /\ DOMAIN f = OwnKeys /\ DOMAIN h = Key
      /\ \A k \in OwnKeys : f[k] = h[k]
  BY OwnPass DEF Budget!Commitments, Charges
<1>2. \A k \in Key \ OwnKeys : h[k] = 0
  BY DEF OwnKeys, Charges
<1> HIDE DEF f, h
<1>3. Units(f) = Units(h)
  BY <1>1, <1>2, OwnPass DEF Units
<1> QED BY <1>3 DEF Total, f, h

\* What the abstract budget has committed is what the counters hold, or less on
\* the day of a charge that was reserved before midnight and inserted after it.
LEMMA CommitmentsAreCounters ==
  ASSUME ReservationInv, NEW p \in Own, NEW dl \in [Pass -> [Days -> CounterRecord]],
         CountersAre(pass, dl, attempt)
  PROVE  /\ Total(Budget!Commitments(p, Budget!Committed)) = pass[p].spent + pass[p].reserved
         /\ \A d \in Days :
              LET sum == Total(Budget!Commitments(p, {j \in Budget!Committed : attempt[j].day = d}))
              IN sum \in Nat /\ sum <= dl[p][d].spent + dl[p][d].reserved
<1>1. Budget!Committed = (Held \cup Debited) \cap OwnKeys
  <2>1. \A k \in Key : attempt[k].reserve \in {"none", "reserved", "debited", "released"}
    BY DEF ReservationInv, ReservationTypeOK, AttemptRecord
  <2>2. \A k \in Key : EntryOf(k) \in {"held", "charged"}
                         <=> attempt[k].reserve \in {"reserved", "debited"}
    BY <2>1 DEF EntryOf
  <2> QED BY <2>2, OwnPass DEF Budget!Committed, Held, Debited
<1>2. \A K : Total(Charges(p, K \cap OwnKeys)) = Total(Charges(p, K))
  <2> SUFFICES ASSUME NEW K PROVE Charges(p, K \cap OwnKeys) = Charges(p, K)
    OBVIOUS
  <2> QED BY DEF Charges, OwnKeys
<1>3. Held \cap Debited = {}
  BY DEF Held, Debited
<1>4. Total(Charges(p, Held \cup Debited)) = Total(Charges(p, Held)) + Total(Charges(p, Debited))
  BY <1>3, ChargesSplit
<1>5. pass[p].reserved = Total(Charges(p, Held)) /\ pass[p].spent = Total(Charges(p, Debited))
  BY DEF ReservationInv, CountersMatchAttempts
<1>6. pass[p].reserved \in Nat /\ pass[p].spent \in Nat /\ p \in Pass
  BY OwnPass DEF ReservationInv, ReservationTypeOK, PassRecord
<1>7. Total(Budget!Commitments(p, Budget!Committed)) = pass[p].spent + pass[p].reserved
  BY <1>1, <1>2, <1>4, <1>5, <1>6, CommitmentsTotal
<1>8. ASSUME NEW d \in Days
      PROVE  LET sum == Total(Budget!Commitments(p, {j \in Budget!Committed : attempt[j].day = d}))
             IN sum \in Nat /\ sum <= dl[p][d].spent + dl[p][d].reserved
  <2> DEFINE J == InStateOn(attempt, "reserved", d)
             K == InStateOn(attempt, "debited", d)
  <2>1. {j \in Budget!Committed : attempt[j].day = d} = (J \cup K) \cap OwnKeys /\ J \cap K = {}
    BY <1>1, OwnPass DEF Held, Debited, InStateOn
  <2>2. dl[p][d].reserved = Total(Charges(p, J)) /\ dl[p][d].spent >= Total(Charges(p, K))
    BY DEF CountersAre
  <2>3. dl[p][d].reserved \in Nat /\ dl[p][d].spent \in Nat
    BY <1>6 DEF CounterRecord
  <2> HIDE DEF J, K
  <2>4. Total(Charges(p, J \cup K)) = Total(Charges(p, J)) + Total(Charges(p, K))
    BY <2>1, ChargesSplit
  <2>5. Total(Budget!Commitments(p, {j \in Budget!Committed : attempt[j].day = d}))
          = Total(Charges(p, J \cup K))
    BY <1>2, <2>1, CommitmentsTotal
  <2>6. Total(Charges(p, J)) \in Nat /\ Total(Charges(p, K)) \in Nat
    BY ChargesTyped
  <2> QED BY <2>2, <2>3, <2>4, <2>5, <2>6
<1> QED BY <1>7, <1>8

\* An attempt whose reservation and day stay is the same entry of the budget.
LEMMA BudgetStutters ==
  ASSUME \A k \in OwnKeys : /\ attempt'[k].reserve = attempt[k].reserve
                           /\ attempt'[k].day = attempt[k].day,
         \A p \in Own : pass'[p].limit = pass[p].limit
  PROVE  UNCHANGED Budget!budgetVars
<1>1. \A k \in OwnKeys : EntryOf(k)' = EntryOf(k)
  BY DEF EntryOf
<1> QED BY <1>1 DEF Budget!budgetVars

\* Initially nothing of the budget is held.
LEMMA BudgetInitial == StoreInit => Budget!BudgetInit
<1> SUFFICES ASSUME ReservationInit PROVE Budget!BudgetInit
  BY DEF StoreInit
<1>1. \A k \in OwnKeys : EntryOf(k) = "free" /\ attempt[k].day = 0
  BY OwnPass DEF ReservationInit, NoAttempt, EntryOf
<1>2. 0 \in Days
  BY ReservationAssumption DEF Days
<1>3. \A p \in Own : pass[p].limit = 0
  BY OwnPass DEF ReservationInit
<1> QED BY <1>1, <1>2, <1>3 DEF Budget!BudgetInit

\* Reserving a charge is holding its key, on a day and under limits with room for it.
LEMMA ReserveHolds ==
  ASSUME ReservationInv, NEW c \in Caller, NEW k \in OwnKeys, NEW d \in Days,
         ReserveChargeAttempt(c, k, d)
  PROVE  Budget!Hold(k, d)
<1> DEFINE p == PassOf[k]
           n == Amount[k]
           a == NewAttempt(c, d)
<1>1. /\ k \in Key /\ p \in Own /\ p \in Pass /\ n \in Nat /\ n > 0
      /\ pass \in [Pass -> PassRecord] /\ daily \in [Pass -> [Days -> CounterRecord]]
      /\ attempt \in [Key -> AttemptRecord]
  BY ReservationAssumption, OwnPass DEF ReservationInv, ReservationTypeOK, OwnKeys
<1>2. PICK C \in CountersOn(p, d) :
        /\ attempt[k].status = "absent"
        /\ PassAdmits(p, n)
        /\ DayAdmits(C, n)
        /\ pass' = [pass EXCEPT ![p].reserved = @ + n]
        /\ attempt' = [attempt EXCEPT ![k] = a]
  BY DEF ReserveChargeAttempt
<1>3. attempt[k].reserve = "none"
  BY <1>1, <1>2 DEF ReservationInv, AttemptConsistent, AttemptRecord
<1>4. EntryOf(k) = "free"
  BY <1>3 DEF EntryOf
<1> DEFINE opened == [daily EXCEPT ![p][d] = C]
<1>5. /\ CountersAre(pass, opened, attempt)
      /\ opened \in [Pass -> [Days -> CounterRecord]] /\ opened[p][d] = C
      /\ C \in CounterRecord
  BY <1>1, <1>2, OpeningKeeps
<1> HIDE DEF opened
<1>6. Total(Budget!Commitments(p, Budget!Committed)) = pass[p].spent + pass[p].reserved
  BY <1>1, <1>5, CommitmentsAreCounters
<1>7. p \in SingleUse => \A j \in Budget!Committed : PassOf[j] # p
  <2> SUFFICES ASSUME p \in SingleUse, NEW j \in Budget!Committed, PassOf[j] = p PROVE FALSE
    OBVIOUS
  <2>1. j \in Key /\ Amount[j] \in Nat /\ Amount[j] > 0
    BY ReservationAssumption, OwnPass DEF Budget!Committed
  <2>2. Charges(p, Budget!Committed)[j] = Amount[j]
    BY <2>1 DEF Charges
  <2>3. Amount[j] <= Total(Charges(p, Budget!Committed)) /\ Total(Charges(p, Budget!Committed)) \in Nat
    BY <2>1, <2>2, ChargesTyped, TotalCovers
  <2>4. Total(Charges(p, Budget!Committed)) = pass[p].spent + pass[p].reserved
    BY <1>1, <1>6, CommitmentsTotal
  <2>5. pass[p].spent + pass[p].reserved = 0
    BY <1>2 DEF PassAdmits
  <2> QED BY <2>1, <2>3, <2>4, <2>5
<1>8. Total(Budget!Commitments(p, Budget!Committed)) + n <= pass[p].limit
  BY <1>2, <1>6 DEF PassAdmits
<1>9. Total(Budget!Commitments(p, {j \in Budget!Committed : attempt[j].day = d})) + n <= DailyLimit
  <2> DEFINE sum == Total(Budget!Commitments(p, {j \in Budget!Committed : attempt[j].day = d}))
  <2>1. sum \in Nat /\ sum <= opened[p][d].spent + opened[p][d].reserved
    BY <1>1, <1>5, CommitmentsAreCounters
  <2> HIDE DEF sum
  <2>2. sum <= C.spent + C.reserved /\ C.spent \in Nat /\ C.reserved \in Nat
    BY <1>5, <2>1 DEF CounterRecord
  <2>3. C.spent + C.reserved + n <= DailyLimit
    BY <1>2 DEF DayAdmits
  <2>4. sum + n <= DailyLimit
    BY <1>1, <2>1, <2>2, <2>3, ReservationAssumption
  <2> QED BY <2>4 DEF sum
<1>10. \A j \in OwnKeys : /\ attempt'[j].reserve = IF j = k THEN "reserved" ELSE attempt[j].reserve
                         /\ attempt'[j].day = IF j = k THEN d ELSE attempt[j].day
  BY <1>1, <1>2, OwnPass DEF NewAttempt
<1>11. \A j \in OwnKeys : EntryOf(j)' = IF j = k THEN "held" ELSE EntryOf(j)
  <2>1. EntryOf(k)' = "held"
    BY <1>10 DEF EntryOf
  <2>2. \A j \in OwnKeys \ {k} : EntryOf(j)' = EntryOf(j)
    BY <1>10 DEF EntryOf
  <2> QED BY <2>1, <2>2
<1>12. \A q \in Own : pass'[q].limit = pass[q].limit
  BY <1>1, <1>2, OwnPass DEF PassRecord
<1>13. [j \in OwnKeys |-> EntryOf(j)]' = [[j \in OwnKeys |-> EntryOf(j)] EXCEPT ![k] = "held"]
  BY <1>11
<1>14. [j \in OwnKeys |-> attempt[j].day]' = [[j \in OwnKeys |-> attempt[j].day] EXCEPT ![k] = d]
  BY <1>10
<1>15. [q \in Own |-> pass[q].limit]' = [q \in Own |-> pass[q].limit]
  BY <1>12
<1> HIDE DEF p, n
<1>16. {j \in Budget!Committed : [i \in OwnKeys |-> attempt[i].day][j] = d}
         = {j \in Budget!Committed : attempt[j].day = d}
  BY DEF Budget!Committed
<1>17. [q \in Own |-> pass[q].limit][p] = pass[p].limit /\ [j \in OwnKeys |-> EntryOf(j)][k] = EntryOf(k)
  BY <1>1
<1>18. Total(Budget!Commitments(p, Budget!Committed)) + n <= [q \in Own |-> pass[q].limit][p]
  BY <1>8, <1>17
<1>19. Total(Budget!Commitments(p,
         {j \in Budget!Committed : [i \in OwnKeys |-> attempt[i].day][j] = d})) + n <= DailyLimit
  BY <1>9, <1>16
<1> QED BY <1>4, <1>7, <1>13, <1>14, <1>15, <1>17, <1>18, <1>19 DEF Budget!Hold, p, n

\* Finalizing and releasing resolve a held key.
LEMMA ResolvingResolves ==
  ASSUME ReservationInv, NEW k \in OwnKeys,
         ReleaseChargeReservation(k) \/ FinalizeChargeReservation(k)
  PROVE  \E outcome \in {"charged", "returned"} : Budget!Resolve(k, outcome)
<1> DEFINE outcome == IF ReleaseChargeReservation(k) THEN "returned" ELSE "charged"
           mark == IF ReleaseChargeReservation(k) THEN "released" ELSE "debited"
<1>1. /\ attempt \in [Key -> AttemptRecord] /\ pass \in [Pass -> PassRecord]
      /\ PassOf[k] \in Pass /\ k \in Key
  BY ReservationAssumption, OwnPass DEF ReservationInv, ReservationTypeOK
<1>2. attempt[k].reserve = "reserved"
  BY DEF ReleaseChargeReservation, FinalizeChargeReservation, ReadyToFinalize
<1>3. \A j \in Key : /\ attempt'[j].reserve = IF j = k THEN mark ELSE attempt[j].reserve
                     /\ attempt'[j].day = attempt[j].day
  <2>1. CASE ReleaseChargeReservation(k)
    BY <1>1, <2>1 DEF ReleaseChargeReservation, AttemptRecord
  <2>2. CASE FinalizeChargeReservation(k) /\ ~ReleaseChargeReservation(k)
    <3>1. attempt' = [attempt EXCEPT ![k].status = "succeeded", ![k].reserve = "debited",
                                     ![k].age = "expired"]
      BY <2>2 DEF FinalizeChargeReservation
    <3> QED BY <1>1, <2>2, <3>1 DEF AttemptRecord
  <2> QED BY <2>1, <2>2
<1>4. \A q \in Pass : pass'[q].limit = pass[q].limit
  <2>1. CASE ReleaseChargeReservation(k)
    BY <1>1, <2>1 DEF ReleaseChargeReservation, PassRecord
  <2>2. CASE FinalizeChargeReservation(k)
    <3>1. pass' = [pass EXCEPT ![PassOf[k]].reserved = @ - Amount[k],
                               ![PassOf[k]].spent = @ + Amount[k]]
      BY <2>2 DEF FinalizeChargeReservation
    <3> QED BY <1>1, <3>1 DEF PassRecord
  <2> QED BY <2>1, <2>2
<1>5. /\ EntryOf(k) = "held" /\ EntryOf(k)' = outcome
      /\ \A j \in OwnKeys \ {k} : EntryOf(j)' = EntryOf(j)
  BY <1>1, <1>2, <1>3, OwnPass DEF EntryOf
<1>6. [j \in OwnKeys |-> EntryOf(j)]' = [[j \in OwnKeys |-> EntryOf(j)] EXCEPT ![k] = outcome]
  BY <1>5
<1>7. /\ [j \in OwnKeys |-> attempt[j].day]' = [j \in OwnKeys |-> attempt[j].day]
      /\ [q \in Own |-> pass[q].limit]' = [q \in Own |-> pass[q].limit]
  BY <1>3, <1>4, OwnPass
<1>8. [j \in OwnKeys |-> EntryOf(j)][k] = "held"
  BY <1>5
<1>9. outcome \in {"charged", "returned"}
  OBVIOUS
<1> HIDE DEF outcome
<1>10. Budget!Resolve(k, outcome)
  BY <1>6, <1>7, <1>8 DEF Budget!Resolve
<1> QED BY <1>9, <1>10

\* Creating a pass and topping it up raise its limit; nothing else of the budget moves.
LEMMA LimitsRaise ==
  ASSUME ReservationInv, NEW p \in Pass,
         \/ \E s \in Source, l \in Grant : CreateSession(p, s, l)
         \/ \E a \in Grant : RaiseLimit(p, a)
  PROVE  Budget!BudgetNext \/ UNCHANGED Budget!budgetVars
<1>1. pass \in [Pass -> PassRecord] /\ attempt' = attempt
  BY DEF ReservationInv, ReservationTypeOK, CreateSession, RaiseLimit
<1>2. /\ \A q \in Pass \ {p} : pass'[q] = pass[q]
      /\ pass'[p].limit >= pass[p].limit
  <2> DEFINE Raised == /\ \A q \in Pass \ {p} : pass'[q] = pass[q]
                       /\ pass'[p].limit >= pass[p].limit
  <2>1. ASSUME NEW s \in Source, NEW l \in Grant, CreateSession(p, s, l) PROVE Raised
    <3>1. pass[p].limit = 0 /\ l \in Nat
      BY <2>1, FundingAssumption DEF CreateSession, ReservationInv, UnopenedIsEmpty
    <3>2. pass' = [pass EXCEPT ![p].status = "active", ![p].limit = l]
      BY <2>1 DEF CreateSession
    <3>3. pass'[p].limit = l /\ \A q \in Pass \ {p} : pass'[q] = pass[q]
      BY <1>1, <3>2 DEF PassRecord
    <3> QED BY <3>1, <3>3
  <2>2. ASSUME NEW a \in Grant, RaiseLimit(p, a) PROVE Raised
    <3>1. pass[p].limit \in Nat /\ a \in Nat
      BY <1>1, FundingAssumption DEF PassRecord
    <3> QED BY <1>1, <2>2, <3>1 DEF RaiseLimit, PassRecord
  <2> QED BY <2>1, <2>2
<1>3. CASE p \notin Own
  BY <1>1, <1>2, <1>3, OwnPass, BudgetStutters
<1>4. CASE p \in Own
  <2>1. UNCHANGED <<[j \in OwnKeys |-> EntryOf(j)], [j \in OwnKeys |-> attempt[j].day]>>
    BY <1>1 DEF EntryOf
  <2>2. [q \in Own |-> pass'[q].limit] =
          [[q \in Own |-> pass[q].limit] EXCEPT ![p] = [q \in Own |-> pass'[q].limit][p]]
    BY <1>2, <1>4, OwnPass
  <2>3. Budget!Raise(p)
    BY <1>2, <1>4, <2>1, <2>2 DEF Budget!Raise
  <2> QED BY <1>4, <2>3 DEF Budget!BudgetNext
<1> QED BY <1>3, <1>4

\* A step of a shared pass is none of the budget.
LEMMA SharedStutters ==
  ASSUME ReservationInv, NEW k \in Key \ OwnKeys,
         \/ \E c \in Caller, d \in Days : ReserveChargeAttempt(c, k, d)
         \/ ReleaseChargeReservation(k)
         \/ FinalizeChargeReservation(k)
  PROVE  UNCHANGED Budget!budgetVars
<1>1. /\ attempt \in [Key -> AttemptRecord] /\ pass \in [Pass -> PassRecord]
      /\ PassOf[k] \in Pass /\ PassOf[k] \notin Own /\ k \notin OwnKeys
  BY ReservationAssumption DEF ReservationInv, ReservationTypeOK, OwnKeys
<1> DEFINE Same == /\ \A j \in OwnKeys : attempt'[j] = attempt[j]
                   /\ \A q \in Own : pass'[q] = pass[q]
<1>2. ASSUME NEW c \in Caller, NEW d \in Days, ReserveChargeAttempt(c, k, d) PROVE Same
  <2>1. /\ pass' = [pass EXCEPT ![PassOf[k]].reserved = @ + Amount[k]]
        /\ attempt' = [attempt EXCEPT ![k] = NewAttempt(c, d)]
    BY <1>2 DEF ReserveChargeAttempt
  <2> QED BY <1>1, <2>1, OwnPass
<1>3. ASSUME ReleaseChargeReservation(k) PROVE Same
  BY <1>1, <1>3, OwnPass DEF ReleaseChargeReservation
<1>4. ASSUME FinalizeChargeReservation(k) PROVE Same
  <2>1. /\ pass' = [pass EXCEPT ![PassOf[k]].reserved = @ - Amount[k],
                                ![PassOf[k]].spent = @ + Amount[k]]
        /\ attempt' = [attempt EXCEPT ![k].status = "succeeded", ![k].reserve = "debited",
                                      ![k].age = "expired"]
    BY <1>4 DEF FinalizeChargeReservation
  <2> QED BY <1>1, <2>1, OwnPass
<1>5. Same
  BY <1>2, <1>3, <1>4
<1> QED BY <1>5, BudgetStutters

\* On the passes only charges spend, the reservation service implements the
\* abstract budget: its counters admit a charge only when the charges themselves
\* leave room for it.
THEOREM ReservationsImplementBudget == StoreSpec => ImplementsBudget
<1>1. StoreInit => Budget!BudgetInit
  BY BudgetInitial
<1>2. ReservationInv /\ [StoreNext]_storeVars => [Budget!BudgetNext]_(Budget!budgetVars)
  <2> SUFFICES ASSUME ReservationInv, [StoreNext]_storeVars
               PROVE  Budget!BudgetNext \/ UNCHANGED Budget!budgetVars
    OBVIOUS
  <2>1. today \in Days /\ attempt \in [Key -> AttemptRecord] /\ pass \in [Pass -> PassRecord]
    BY DEF ReservationInv, ReservationTypeOK
  <2>2. ASSUME UNCHANGED <<pass, attempt>> PROVE UNCHANGED Budget!budgetVars
    BY <2>2, BudgetStutters
  <2>3. ASSUME NEW k \in Key,
               \/ \E c \in Caller : ClaimChargeExecution(c, k) \/ MarkChargeProviderSubmitted(c, k)
               \/ MarkChargeProviderSucceeded(k) \/ MarkChargeOutcomeUncertain(k) \/ LeaseRunsOut(k)
        PROVE  UNCHANGED Budget!budgetVars
    <3>1. pass' = pass
      BY <2>3 DEF ClaimChargeExecution, MarkChargeProviderSubmitted, MarkChargeProviderSucceeded,
        MarkChargeOutcomeUncertain, LeaseRunsOut
    <3> DEFINE Same == \A j \in OwnKeys : /\ attempt'[j].reserve = attempt[j].reserve
                                      /\ attempt'[j].day = attempt[j].day
    <3>2. ASSUME NEW c \in Caller, ClaimChargeExecution(c, k) PROVE Same
      BY <2>1, <3>2, OwnPass DEF ClaimChargeExecution, AttemptRecord
    <3>3. ASSUME NEW c \in Caller, MarkChargeProviderSubmitted(c, k) PROVE Same
      BY <2>1, <3>3, OwnPass DEF MarkChargeProviderSubmitted, AttemptRecord
    <3>4. ASSUME MarkChargeProviderSucceeded(k) PROVE Same
      BY <2>1, <3>4, OwnPass DEF MarkChargeProviderSucceeded, AttemptRecord
    <3>5. ASSUME MarkChargeOutcomeUncertain(k) PROVE Same
      BY <2>1, <3>5, OwnPass DEF MarkChargeOutcomeUncertain, AttemptRecord
    <3>6. ASSUME LeaseRunsOut(k) PROVE Same
      BY <2>1, <3>6, OwnPass DEF LeaseRunsOut, AttemptRecord
    <3>7. Same
      BY <2>3, <3>2, <3>3, <3>4, <3>5, <3>6
    <3> QED BY <3>1, <3>7, BudgetStutters
  <2>4. ASSUME NEW p \in Pass, NEW st \in Status, NEW lc \in Lifecycle, MovePass(p, st, lc)
        PROVE  UNCHANGED Budget!budgetVars
    <3>1. attempt' = attempt /\ \A q \in Pass : pass'[q].limit = pass[q].limit
      BY <2>1, <2>4 DEF MovePass, PassRecord
    <3> QED BY <3>1, OwnPass, BudgetStutters
  <2>5. CASE EnvironmentNext
    <3>1. NextDay \/ LedgerStep => UNCHANGED <<pass, attempt>>
      BY DEF NextDay, LedgerStep, reservationVars
    <3>2. ASSUME NEW p \in Shared, NEW l \in 0..MaxLimit, NEW s \in 0..MaxLimit,
                 NEW r \in 0..MaxLimit, NEW st \in Status, SpendElsewhere(p, l, s, r, st)
          PROVE  UNCHANGED Budget!budgetVars
      <4>1. attempt' = attempt /\ \A q \in Own : pass'[q] = pass[q]
        BY <2>1, <3>2, OwnPass DEF SpendElsewhere, Own
      <4> QED BY <4>1, BudgetStutters
    <3> QED BY <2>2, <2>3, <2>4, <2>5, <3>1, <3>2, LimitsRaise DEF EnvironmentNext
  <2>6. CASE ReservationNext
    <3>1. ASSUME NEW c \in Caller, NEW k \in Key, NEW d \in RecentDays, ReserveChargeAttempt(c, k, d)
          PROVE  Budget!BudgetNext \/ UNCHANGED Budget!budgetVars
      <4>1. d \in Days
        BY DEF RecentDays
      <4>2. k \in OwnKeys => Budget!Hold(k, d)
        BY <3>1, <4>1, ReserveHolds
      <4>3. k \notin OwnKeys => UNCHANGED Budget!budgetVars
        BY <3>1, <4>1, SharedStutters
      <4> QED BY <4>1, <4>2, <4>3 DEF Budget!BudgetNext
    <3>2. ASSUME NEW k \in Key, ReleaseChargeReservation(k) \/ FinalizeChargeReservation(k)
          PROVE  Budget!BudgetNext \/ UNCHANGED Budget!budgetVars
      <4>1. k \in OwnKeys => Budget!BudgetNext
        BY <3>2, ResolvingResolves DEF Budget!BudgetNext
      <4>2. k \notin OwnKeys => UNCHANGED Budget!budgetVars
        BY <3>2, SharedStutters
      <4> QED BY <4>1, <4>2
    <3> QED BY <2>3, <2>6, <3>1, <3>2 DEF ReservationNext
  <2>7. CASE UNCHANGED storeVars
    BY <2>2, <2>7 DEF storeVars, reservationVars
  <2> QED BY <2>5, <2>6, <2>7 DEF StoreNext
<1>3. StoreSpec => []ReservationInv
  BY ReservationInitial, StoreStepKeeps, PTL DEF StoreSpec
<1> QED BY <1>1, <1>2, <1>3, PTL DEF StoreSpec, ImplementsBudget, Budget!BudgetSpec
=============================================================================
