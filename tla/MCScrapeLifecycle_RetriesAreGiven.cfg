\* One executor that may die once.
SPECIFICATION Spec
CONSTANTS
    Executor = {e1}
    ProcessOf <- OneProcess
    MaxCrashes = 1
PROPERTIES
    RetriesAreGiven
CHECK_DEADLOCK FALSE
