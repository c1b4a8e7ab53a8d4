SPECIFICATION Spec
CONSTANTS
    Null = Null
    Values <- MCValues
    Mtus <- MCMtus
    Pushes <- MCPushes
    LocalNets = {"net2"}
    MaxDns = 1
INVARIANTS TypeOK AsPushed
PROPERTY KeepsOnlyEqual
