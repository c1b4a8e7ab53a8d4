SPECIFICATION Spec
CONSTANTS
    Nets = {n1}
    NoNet = none
    ScreenOffPause = {FALSE}
    NetChangeReconnect = {TRUE}
    BinderCalls = FALSE
    RedundantResume = FALSE
    MaxTimers = 1
    MaxInFlight = 2
PROPERTY UserPauseRespected
