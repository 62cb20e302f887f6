\* Two groups, two destinations: enough for a collision, a move and a swap of
\* destinations.  One fault on top of bad and invalid configurations reaches
\* the failed rollback.  The manager has nothing to do in a settled state, so
\* a run may stop.
CONSTANTS
    Groups = {1, 2}
    Destinations = {d1, d2}
    Incomplete = incomplete
    NoConfig = no_config
    NoDest = no_dest
    NoLkg = no_lkg
    MaxEdits = 2
    MaxFaults = 1
SPECIFICATION Spec
INVARIANTS
    NoDoubleLaunch
    RunningIsWhatRuns
    OneReplacement
    LkgIsProven
PROPERTIES
    CandidateNeverCollides
    GroupComesBack
    SavedIsAppliedInTurn
CHECK_DEADLOCK FALSE
