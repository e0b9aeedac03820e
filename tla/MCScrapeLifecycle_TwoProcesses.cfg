\* Two processes, an API instance and a worker, are given the same job.
SPECIFICATION Spec
CONSTANTS
    Executor = {e1, e2}
    ProcessOf <- OwnProcess
    MaxCrashes = 0
PROPERTIES
    HistoryOnlyGrows
CHECK_DEADLOCK FALSE
