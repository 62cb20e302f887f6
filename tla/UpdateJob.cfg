\* Two migrations, one service, three jobs.
CONSTANTS
    Migrations = 2
    Services = {s1}
    NoService = none
    MaxJobs = 3
    MaxCrashes = 2
    MaxFaults = 1
    MaxDisturbs = 1
SPECIFICATION Spec
INVARIANTS
    EvidenceIsOwn
    RetryIsNotStranded
    SuccessIsComplete
PROPERTIES
    JobsEnd
    ImplementsContract
CHECK_DEADLOCK FALSE
