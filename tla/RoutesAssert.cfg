SPECIFICATION Spec
CONSTANTS
    Width = 3
    MaxNets = 3
    AnyNets = TRUE
INVARIANT LoopAssertions
