\* One caller that may crash and one payment worker; two processes of every other
\* kind.
SPECIFICATION FairEventuallySpec
CONSTANTS
    p1 = p1
    Pass = {p1}
    Source = {vault}
    Secured = {vault}
    Observer = {}
    Grant = {2}
    MaxBalance = 2
    MaxGrant = 2
    Key = {k1}
    PassOf <- MCPassOf
    Amount <- MCAmount
    Caller = {c1}
    SingleUse = {}
    Shared = {}
    DailyLimit = 2
    LastDay = 0
    MaxLimit = 2
    Status = {"active", "paused", "expired", "settled"}
    Lifecycle = {"idle"}
    InvoiceOf <- MCInvoiceOf
    Expiring = {p1}
    MaxCrashes = 1
    MaxPauses = 0
    JobInvoice = {i1}
    Worker = {w1}
    MaxAttempts = 2
    MaxQueues = 2
    Postman = {w1, w2}
    MaxPosts = 3
    Messenger = {m1, m2}
    Endpoint = {e1}
    MaxTries = 3
    r1 = r1
    r2 = r2
    id1 = id1
    id2 = id2
    Replica = {r1, r2}
    WorkerId = {id1, id2}
    Namings <- MCNamings
INVARIANTS
    WorkersTypeOK
    WebhookHonest
    HolderSweepsAlone
PROPERTIES
    NoticesSound
    ReservationsResolve
    JobsFinish
    DeliveriesEnd
    LeasedSweepsGoOn
CHECK_DEADLOCK FALSE
