\* Two clients that send four requests, repeats and conflicts of keys included.
SPECIFICATION FairSpec
CONSTANTS
    l1 = l1
    l2 = l2
    i1 = i1
    i2 = i2
    k1 = k1
    k2 = k2
    Client = {c1, c2}
    Key = {k1, k2}
    List = {l1, l2, l3}
    Item = {i1, i2, i3}
    Existing = {l1}
    Quantity = {1, 2}
    Requests <- AllRequests
    Nobody = Nobody
    NoRow = NoRow
    MaxSends = 3
    MaxReads = 1
    MaxExpiries = 1
INVARIANTS
    TypeOK
    KeyRunsOnce
    RepeatsAnswerAlike
    RevisionCountsChanges
    SnapshotsAreOfRevisions
    OptimizesWhatWasSeen
PROPERTIES
    EveryRequestEnds
CHECK_DEADLOCK FALSE
