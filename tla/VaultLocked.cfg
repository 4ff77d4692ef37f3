\* Deposits in the vault and passes that reserve them.
SPECIFICATION ProvidersSpec
CONSTANTS
  h1 = h1
  h2 = h2
  k1 = k1
  k2 = k2
  c1 = c1
  c2 = c2
  p1 = p1
  p2 = p2
  Wire = {c1, c2}
  Invoice = {h1, h2}
  PayKey = {k1, k2}
  Payer = {p1, p2}
  Satoshis <- MCSatoshis
  Allowance = 1
  BillKey = {k1}
  Bolt11 = {h1, h2}
  StoreKey = {k1, k2}
  Clerk = {p1, p2}
  Psbt = {q1, q2}
  Coin = {c1}
  Worth <- MCWorth
  Amount = 3
  MaxFee = 6
  Dust = 2
  Rates = {1, 2}
  FullSize = 2
  ShortSize = 1
  Deep = 2
  Teller = {p1, p2}
  Desk = {p1, p2}
  Deposits <- MCDeposits
  RequestAmounts = {3}
  PayoutAmounts = {3}
  MinCell = 1
  MaxTx = 2
  MaxFunding = 2
SYMMETRY Requests
INVARIANT LockedIsDeposited
CHECK_DEADLOCK FALSE
