SPECIFICATION FairSpec
CONSTANTS
    MaxSessions = 2
    Settings <- LiveSettings
PROPERTIES ServiceEnds OldSessionEnds
CHECK_DEADLOCK FALSE
