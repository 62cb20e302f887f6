\* One job across a runtime transition.
CONSTANTS
    MaxAttempts = 3
    MaxCrashes = 3
    MaxFaults = 3
SPECIFICATION Spec
INVARIANTS
    OneWorker
    CommitIsAccepted

    
    
\* A finished job leaves the worker and the supervisor at rest.
CHECK_DEADLOCK FALSE
