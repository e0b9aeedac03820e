\* One unkeyed job, two workers; enough lost leases to pass the attempt limit.
SPECIFICATION Spec
CONSTANTS
    c1 = c1
    c2 = c2
    k1 = k1
    p = p
    q = q
    Call = {c1}
    Worker = {w1, w2}
    Key = {}
    NoKey = NoKey
    Payload = {p}
    MaxAttempts = 2
    MaxCrashes = 2
    MaxSlow = 2
INVARIANTS
    AttemptsBounded
CHECK_DEADLOCK FALSE
