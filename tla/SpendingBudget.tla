--------------------------- MODULE SpendingBudget ---------------------------
(***************************************************************************)
(* What charge reservations promise, without counters, leases or provider  *)
(* states: each idempotency key is held at most once and then charged or   *)
(* returned, for good, and what is held or charged never exceeds the       *)
(* limits of its pass and of its UTC day.                                  *)
(***************************************************************************)
EXTENDS Naturals

CONSTANTS
  Pass, Key, PassOf, Amount, SingleUse, DailyLimit, Days,
  Total(_)  \* the sum of a map of amounts

VARIABLES
  entry,  \* what became of each key
  day,    \* the UTC day a key was held on
  limit   \* the limit of each pass

budgetVars == <<entry, day, limit>>

Committed == {k \in Key : entry[k] \in {"held", "charged"}}

\* What the keys in K commit pass p to.
Commitments(p, K) == [k \in Key |-> IF PassOf[k] = p /\ k \in K THEN Amount[k] ELSE 0]

BudgetInit ==
  /\ entry = [k \in Key |-> "free"]
  /\ day \in [Key -> Days]
  /\ limit = [p \in Pass |-> 0]

Hold(k, d) ==
  LET p == PassOf[k]
  IN /\ entry[k] = "free"
     /\ p \in SingleUse => \A j \in Committed : PassOf[j] # p
     /\ Total(Commitments(p, Committed)) + Amount[k] <= limit[p]
     /\ Total(Commitments(p, {j \in Committed : day[j] = d})) + Amount[k] <= DailyLimit
     /\ entry' = [entry EXCEPT ![k] = "held"]
     /\ day' = [day EXCEPT ![k] = d]
     /\ UNCHANGED limit

Resolve(k, outcome) ==
  /\ entry[k] = "held"
  /\ entry' = [entry EXCEPT ![k] = outcome]
  /\ UNCHANGED <<day, limit>>

Raise(p) ==
  /\ limit'[p] >= limit[p]
  /\ limit' = [limit EXCEPT ![p] = limit'[p]]
  /\ UNCHANGED <<entry, day>>

BudgetNext ==
  \/ \E k \in Key, d \in Days : Hold(k, d)
  \/ \E k \in Key, outcome \in {"charged", "returned"} : Resolve(k, outcome)
  \/ \E p \in Pass : Raise(p)

BudgetSpec == BudgetInit /\ [][BudgetNext]_budgetVars
=============================================================================
