\* Two creating calls, two workers; two faults on one job, so that all workers
\* may be down, and one fault where two calls race.
SPECIFICATION MCSpec
CONSTANTS
    c1 = c1
    c2 = c2
    k1 = k1
    p = p
    q = q
    Call = {c1, c2}
    Worker = {w1, w2}
    Key = {k1}
    NoKey = NoKey
    Payload = {p, q}
    MaxAttempts = 2
    MaxCrashes = 2
    MaxSlow = 2
INVARIANTS
    TypeOK
    KeyNamesOneJob
    ClaimHeldOnce
    SucceededWasPerformed
    FailedForReason
PROPERTIES
    ImplementsJobQueue
    EveryJobSettles
CHECK_DEADLOCK FALSE
