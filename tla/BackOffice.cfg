\* Two processes of each kind; see MCSettings for the payouts.
SPECIFICATION BackOfficeSpec
CONSTANTS
    p1 = p1
    p2 = p2
    q1 = q1
    PayWorker = {p1, p2}
    PrepWorker = {q1}
    Settings <- MCSettings
    MaxCycle = 2
    MaxSent = 3
    MaxUnheard = 1
    Clerk = {c1, c2}
    MaxLinks = 3
    JobInvoice = {i1}
    Worker = {w1, w2}
    MaxAttempts = 2
    MaxQueues = 1
SYMMETRY WorkerSymmetry
INVARIANTS
    BackOfficeTypeOK
    PayoutsAreCharged
    TransfersOnce
    JobsAreCharged
PROPERTIES
    ClaimsSound
CHECK_DEADLOCK FALSE
