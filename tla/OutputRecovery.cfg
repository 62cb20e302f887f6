\* Two devices, one of them known by a stable identity; four faults are
\* enough for a loss during verification on top of a retarget on top of a
\* loss.  With them no behaviour reaches MaxBins or MaxOps.
CONSTANTS
    Devices = {d1, d2}
    Stable = {d1}
    MaxBins = 9
    MaxOps = 24
    MaxFaults = 4
SPECIFICATION Spec
INVARIANTS
    SettledPlays
    SettledOnTarget
    CompletionNeverLost
    FlowIsVouchedFor
PROPERTIES
    OutputComesBack
