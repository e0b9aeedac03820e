\* One executor that may die three times: as often as a job has attempts.
SPECIFICATION FairSpec
CONSTANTS
    Executor = {e1}
    ProcessOf <- OneProcess
    MaxCrashes = 3
INVARIANTS
    TypeOK
    RecordIsLoadable
    AttemptRunsOnce
    AttemptMatchesHistory
    AttemptsInOrder
PROPERTIES
    HistoryOnlyGrows
    DeliveryEnds
    EndsIfDelivered
CHECK_DEADLOCK FALSE
