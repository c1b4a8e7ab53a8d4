SPECIFICATION FairSpec
CONSTANTS
    Nets = {n1}
    NoNet = none
    ScreenOffPause = {FALSE}
    NetChangeReconnect = {TRUE}
    BinderCalls = FALSE
    RedundantResume = FALSE
    MaxTimers = 1
    MaxInFlight = 1
PROPERTY LostNetworkHolds
