SPECIFICATION FairSpec
CONSTANTS
    Width = 4
    MaxNets = 3
    AnyNets = FALSE
INVARIANTS TypeOK LongestPrefixWins Disjoint LoopAssertions
PROPERTY Terminates
