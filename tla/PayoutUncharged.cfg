\* One recipient on the exit rail of a repeated pass.
SPECIFICATION BackOfficeSpec
CONSTANTS
    p1 = p1
    p2 = p2
    q1 = q1
    PayWorker = {p1, p2}
    PrepWorker = {q1}
    Settings <- OneSetting
    MaxCycle = 2
    MaxSent = 2
    MaxUnheard = 1
    Clerk = {c1, c2}
    MaxLinks = 2
    JobInvoice = {i1}
    Worker = {w1}
    MaxAttempts = 2
    MaxQueues = 0
INVARIANT SettlementIsCharged
CHECK_DEADLOCK FALSE
