\* Two executors of one process: two deliveries of the job at the same time.
SPECIFICATION Spec
CONSTANTS
    Executor = {e1, e2}
    ProcessOf <- OneProcess
    MaxCrashes = 0
SYMMETRY Symmetry
INVARIANTS
    AttemptRunsOnce
PROPERTIES
    HistoryOnlyGrows
CHECK_DEADLOCK FALSE
