SPECIFICATION ChargesSpec
CONSTANTS
  p1 = p1
  p2 = p2
  k1 = k1
  k2 = k2
  k3 = k3
  k4 = k4
  p3 = p3
  Pass = {p1, p2}
  Source = {vault}
  Secured = {vault}
  Observer = {}
  Grant = {2}
  MaxBalance = 2
  MaxGrant = 2
  Key = {k1, k2, k3}
  PassOf <- MCPassOf
  Amount <- MCAmount
  Caller = {c1, c2}
  SingleUse = {p2}
  Shared = {}
  DailyLimit = 2
  LastDay = 0
  MaxLimit = 2
  Status = {"active", "paused", "expired", "settled"}
  Lifecycle = {"idle"}
  InvoiceOf <- MCInvoiceOf
  Expiring = {p1}
  MaxCrashes = 1
  MaxPauses = 1
SYMMETRY CallerSymmetry
INVARIANT ReleasedNeverPaid
CHECK_DEADLOCK FALSE
