SPECIFICATION FairSpec
CONSTANTS
    Nets = {n1, n2}
    NoNet = none
    ScreenOffPause = {TRUE, FALSE}
    NetChangeReconnect = {TRUE, FALSE}
    BinderCalls = FALSE
    RedundantResume = FALSE
    MaxTimers = 1
    MaxInFlight = 1
INVARIANTS TypeOK NoLostRelease NoLostStop
PROPERTY GoodConditionsRelease
