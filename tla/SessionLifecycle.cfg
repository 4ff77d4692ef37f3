SPECIFICATION FairLifecycleSpec
CONSTANTS
  p1 = p1
  Pass = {p1}
  Source = {vault}
  Secured = {vault}
  Observer = {}
  Grant = {1}
  MaxBalance = 2
  MaxGrant = 3
  Key = {k1}
  PassOf <- MCPassOf
  Amount <- MCAmount
  Caller = {c1}
  SingleUse = {}
  Shared = {}
  DailyLimit = 2
  LastDay = 0
  MaxLimit = 3
  Status = {"active", "paused", "expired", "revoked", "settled"}
  Lifecycle = {"idle", "top_up_pending", "revoke_pending", "settle_pending"}
  Request = {r1, r2}
  OwnerKey = {a}
  Channelled = {p1}
  Expiring = {p1}
  MaxOps = 2
  MaxSaves = 1
  MaxCrashes = 1
INVARIANTS
  LifecycleTypeOK
  FundingFollowsLimit
  RefundMatchesRelease
  ClosedHoldsNothing
PROPERTY RecordedSuccessCompletes
CHECK_DEADLOCK FALSE
