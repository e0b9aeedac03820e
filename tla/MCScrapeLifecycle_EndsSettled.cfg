\* One executor that may die once; the property asks for deliveries without end.
SPECIFICATION FairSpec
CONSTANTS
    Executor = {e1}
    ProcessOf <- OneProcess
    MaxCrashes = 1
PROPERTIES
    EndsSettled
CHECK_DEADLOCK FALSE
