SPECIFICATION StoresSpec
CONSTANTS
  p1 = p1
  p2 = p2
  k1 = k1
  k2 = k2
  k3 = k3
  k4 = k4
  vault = vault
  wallet = wallet
  Pass = {p1, p2}
  Source = {vault, wallet}
  Secured = {vault}
  Observer = {o1}
  Grant = {1, 2}
  MaxBalance = 2
  MaxGrant = 2
  Key = {k1, k2, k3, k4}
  PassOf <- MCPassOf
  Amount <- MCAmount
  Caller = {c1}
  SingleUse = {}
  Shared = {p2}
  DailyLimit = 2
  LastDay = 1
  MaxLimit = 4
  Status = {"active", "paused"}
  Lifecycle = {"idle"}
INVARIANTS
  FundingTypeOK
  LedgerBalanced
  ReservationTypeOK
  ReservationsReturnable
  AttemptsAccounted
  LimitsHold
PROPERTIES
  ClosedAllocationsFrozen
  ImplementsBudget
  ResolvedAttemptsFrozen
CHECK_DEADLOCK FALSE
