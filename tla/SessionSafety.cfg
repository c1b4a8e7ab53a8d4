SPECIFICATION Spec
CONSTANTS
    MaxSessions = 2
    Settings <- SafetySettings
INVARIANTS TypeOK StopReaches
CHECK_DEADLOCK FALSE
