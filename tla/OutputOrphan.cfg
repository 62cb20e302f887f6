\* Does every generation in the pipeline belong to the slot?
CONSTANTS
    Devices = {d1, d2}
    Stable = {d1}
    MaxBins = 9
    MaxOps = 24
    MaxFaults = 4
SPECIFICATION Spec
INVARIANT NoOrphanGeneration
