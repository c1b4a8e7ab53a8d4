---------------------------- MODULE PauseControl ----------------------------
(***************************************************************************)
(* How the OpenVPN back end decides whether the tunnel may run.            *)
(*                                                                         *)
(* DeviceStateReceiver folds three conditions (network, screen, user) into *)
(* shouldBeConnected(); OpenVpnManagementThread turns changes of it into   *)
(* commands on the management socket.  The openvpn process (external)      *)
(* announces ">HOLD" before every connection attempt and waits for         *)
(* "hold release"; SIGUSR1 makes it restart, which leads to a new hold.    *)
(*                                                                         *)
(* Three threads run this code without a common lock:                      *)
(*   "main"    the looper: broadcasts, delayed runnables, intents;         *)
(*   "mgmt"    the thread reading the management socket;                   *)
(*   "binder"  AIDL calls of userPause.                                    *)
(* A thread's position inside a call is pc[t]; the steps are the points    *)
(* between which another thread can change what the call has read.         *)
(***************************************************************************)
EXTENDS Naturals, Sequences

CONSTANTS
    Nets,            \* connected NetworkInfo values (type and extra info)
    NoNet,           \* the null NetworkInfo
    ScreenOffPause,  \* values the preference "screenoff" may have when read
    NetChangeReconnect, \* values of the preference "netchangereconnect"
    BinderCalls,     \* TRUE: userPause arrives by AIDL; FALSE: by PAUSE_VPN and RESUME_VPN
    RedundantResume, \* TRUE: userPause(false) may come when not user-paused
    MaxTimers,       \* bound on posted copies of mDelayDisconnectRunnable
    MaxInFlight      \* bound on unread socket messages at an event

ASSUME NetsAssumption == NoNet \notin Nets
ASSUME PrefsAssumption ==
    /\ ScreenOffPause \subseteq BOOLEAN
    /\ NetChangeReconnect \subseteq BOOLEAN
    /\ BinderCalls \in BOOLEAN
    /\ RedundantResume \in BOOLEAN
ASSUME BoundsAssumption == MaxTimers \in Nat /\ MaxInFlight \in Nat

VARIABLES
    network, screen, userpause,  \* the connectState fields
    lastConnectedNetwork,        \* last connected NetworkInfo, or NoNet
    registered,                  \* the receiver exists (mPauseCallback # null)
    delayTimers,                 \* posted mDelayDisconnectRunnables
    mWaitingForRelease, lastPauseReason, \* management thread fields
    resumeTimers,                \* posted mResumeHoldRunnables
    pc, arg,                     \* per thread: position and argument of a call
    status,                      \* VpnStatus.mLaststate
    ovpn,                        \* external: phase of the openvpn process
    toApp, toOvpn,               \* external: the management socket, FIFO
    display                      \* external: the physical screen is on

deviceVars == <<network, screen, userpause, lastConnectedNetwork, registered,
                delayTimers>>
mgmtVars   == <<mWaitingForRelease, lastPauseReason, resumeTimers>>
threadVars == <<pc, arg>>
ovpnVars   == <<ovpn, toApp, toOvpn>>
vars == <<deviceVars, mgmtVars, threadVars, status, ovpnVars, display>>

Threads == {"main", "mgmt", "binder"}
connectState == {"SHOULDBECONNECTED", "PENDINGDISCONNECT", "DISCONNECTED"}
pauseReason == {"noNetwork", "userPause", "screenOff"}
Calls == {"idle", "pause", "signalusr1", "networkChange", "resume",
          "releaseHoldCmd", "clearWaiting", "sendRelease",
          "checkHold", "postResume", "showPause", "lowTraffic"}
Args == pauseReason \cup {"none", "resume"}
States == {"NOPROCESS", "CONNECTRETRY", "CONNECTED", "NONETWORK",
           "SCREENOFF", "USERPAUSE"}

AppMsgs == {"HOLD", "CONNECTED", "BYTECOUNT"}
OvpnCmds == {"hold release", "signal SIGUSR1", "network-change"}
Phases == {"init", "holding", "connecting", "connected"}

\* Every field, message and status is one the code knows.
TypeOK ==
    /\ network \in connectState
    /\ screen \in connectState
    /\ userpause \in connectState \ {"PENDINGDISCONNECT"}
    /\ lastConnectedNetwork \in Nets \cup {NoNet}
    /\ registered \in BOOLEAN
    /\ delayTimers \in Nat
    /\ mWaitingForRelease \in BOOLEAN
    /\ lastPauseReason \in pauseReason
    /\ resumeTimers \in Nat
    /\ pc \in [Threads -> Calls]
    /\ arg \in [Threads -> Args]
    /\ status \in States
    /\ ovpn \in Phases
    /\ toApp \in Seq(AppMsgs)
    /\ toOvpn \in Seq(OvpnCmds)
    /\ display \in BOOLEAN

Init ==
    /\ network = "DISCONNECTED"
    /\ screen = "SHOULDBECONNECTED"
    /\ userpause = "SHOULDBECONNECTED"
    /\ lastConnectedNetwork = NoNet
    /\ registered = FALSE
    /\ delayTimers = 0
    /\ mWaitingForRelease = FALSE
    /\ lastPauseReason = "noNetwork"
    /\ resumeTimers = 0
    /\ pc = [t \in Threads |-> "idle"]
    /\ arg = [t \in Threads |-> "none"]
    /\ status = "NOPROCESS"
    /\ ovpn = "init"
    /\ toApp = <<>>
    /\ toOvpn = <<>>
    /\ display = TRUE

-----------------------------------------------------------------------------
(* Reading the three conditions *)

Connects(n, s, u) ==
    n = "SHOULDBECONNECTED" /\ s = "SHOULDBECONNECTED" /\ u = "SHOULDBECONNECTED"

shouldBeConnected == Connects(network, screen, userpause)

\* OpenVpnManagementThread.shouldBeRunning: FALSE until a receiver is set
shouldBeRunning == registered /\ shouldBeConnected

\* mutant: a misspelt state
pauseState_Typo(reason) == "PAUSED"

\* The last line of the code is a default: a pending disconnect reads as a
\* pause by the user.
getPauseReason(n, s, u) ==
    CASE u = "DISCONNECTED" -> "userPause"
      [] u # "DISCONNECTED" /\ s = "DISCONNECTED" -> "screenOff"
      [] u # "DISCONNECTED" /\ s # "DISCONNECTED" /\ n = "DISCONNECTED" -> "noNetwork"
      [] OTHER -> "userPause"

\* VpnStatus.updateStatePause
pauseState(reason) ==
    CASE reason = "noNetwork" -> "NONETWORK"
      [] reason = "screenOff" -> "SCREENOFF"
      [] reason = "userPause" -> "USERPAUSE"

\* managmentCommand: dropped while no client has connected (mSocket = null)
managmentCommand(cmd) ==
    toOvpn' = IF ovpn = "init" THEN toOvpn ELSE Append(toOvpn, cmd)

Goto(t, call) == pc' = [pc EXCEPT ![t] = call] /\ UNCHANGED arg
Call(t, call, a) ==
    /\ pc' = [pc EXCEPT ![t] = call]
    /\ arg' = [arg EXCEPT ![t] = a]

-----------------------------------------------------------------------------
(* Calls on the management object, run by whichever thread makes them *)

\* pause(reason), up to signalusr1's removeCallbacks
pause(t) ==
    /\ pc[t] = "pause"
    /\ lastPauseReason' = arg[t]
    /\ resumeTimers' = 0
    /\ Goto(t, "signalusr1")
    /\ UNCHANGED <<deviceVars, mWaitingForRelease, status, ovpnVars, display>>

\* mutant: only the status is updated, nothing is sent
signalusr1_StatusOnly(t) ==
    /\ pc[t] = "signalusr1"
    /\ status' = pauseState(lastPauseReason)
    /\ Goto(t, "idle")
    /\ UNCHANGED <<deviceVars, mgmtVars, ovpnVars, display>>

signalusr1(t) ==
    /\ pc[t] = "signalusr1"
    /\ IF mWaitingForRelease
       THEN status' = pauseState(lastPauseReason) /\ UNCHANGED toOvpn
       ELSE managmentCommand("signal SIGUSR1") /\ UNCHANGED status
    /\ Goto(t, "idle")
    /\ UNCHANGED <<deviceVars, mgmtVars, ovpn, toApp, display>>

networkChange(t) ==
    /\ pc[t] = "networkChange"
    /\ IF mWaitingForRelease
       THEN Goto(t, "releaseHoldCmd") /\ UNCHANGED toOvpn
       ELSE managmentCommand("network-change") /\ Goto(t, "idle")
    /\ UNCHANGED <<deviceVars, mgmtVars, status, ovpn, toApp, display>>

\* mutant: the reason is reset but the hold is not released
resume_NoRelease(t) ==
    /\ pc[t] = "resume"
    /\ lastPauseReason' = "noNetwork"
    /\ Goto(t, "idle")
    /\ UNCHANGED <<deviceVars, mWaitingForRelease, resumeTimers, status,
                   ovpnVars, display>>

resume(t) ==
    /\ pc[t] = "resume"
    /\ IF mWaitingForRelease
       THEN Goto(t, "releaseHoldCmd") /\ UNCHANGED lastPauseReason
       ELSE lastPauseReason' = "noNetwork" /\ Goto(t, "idle")
    /\ UNCHANGED <<deviceVars, mWaitingForRelease, resumeTimers, status,
                   ovpnVars, display>>

\* releaseHoldCmd: removeCallbacks; a sleep of 3 s may follow when the last
\* release is less than 5 s old, so the next step may come much later.
releaseHoldCmd(t) ==
    /\ pc[t] = "releaseHoldCmd"
    /\ resumeTimers' = 0
    /\ Goto(t, "clearWaiting")
    /\ UNCHANGED <<deviceVars, mWaitingForRelease, lastPauseReason, status,
                   ovpnVars, display>>

clearWaiting(t) ==
    /\ pc[t] = "clearWaiting"
    /\ mWaitingForRelease' = FALSE
    /\ Goto(t, "sendRelease")
    /\ UNCHANGED <<deviceVars, lastPauseReason, resumeTimers, status, ovpnVars,
                   display>>

\* the release itself; resume() then resets lastPauseReason
sendRelease(t) ==
    /\ pc[t] = "sendRelease"
    /\ managmentCommand("hold release")
    /\ lastPauseReason' = IF arg[t] = "resume" THEN "noNetwork" ELSE lastPauseReason
    /\ Goto(t, "idle")
    /\ UNCHANGED <<deviceVars, mWaitingForRelease, resumeTimers, status, ovpn,
                   toApp, display>>

-----------------------------------------------------------------------------
(* The main thread: broadcasts, runnables, registration, intents *)

MainIdle == pc["main"] = "idle"
Room == Len(toOvpn) + Len(toApp) < MaxInFlight

\* networkStateChange with a connected network n
NetworkConnected(n) ==
    LET pendingDisconnect == network = "PENDINGDISCONNECT"
        sameNetwork == lastConnectedNetwork = n
    IN  /\ network' = "SHOULDBECONNECTED"
        /\ UNCHANGED userpause
        /\ IF pendingDisconnect /\ sameNetwork
           THEN /\ delayTimers' = 0
                /\ Call("main", "networkChange", "none")
                /\ UNCHANGED <<screen, lastConnectedNetwork>>
           ELSE /\ screen' = IF screen = "PENDINGDISCONNECT"
                             THEN "DISCONNECTED" ELSE screen
                /\ lastConnectedNetwork' = n
                /\ IF Connects(network', screen', userpause)
                   THEN /\ delayTimers' = 0
                        /\ IF pendingDisconnect \/ ~sameNetwork
                           THEN Call("main", "networkChange", "none")
                           ELSE Call("main", "resume", "resume")
                   ELSE UNCHANGED <<delayTimers, threadVars>>

\* networkStateChange with networkInfo = null
NetworkLost ==
    \E sendusr1 \in NetChangeReconnect :
        /\ IF sendusr1
           THEN /\ network' = "PENDINGDISCONNECT"
                /\ delayTimers < MaxTimers
                /\ delayTimers' = delayTimers + 1
           ELSE UNCHANGED <<network, delayTimers>>
        /\ UNCHANGED <<screen, userpause, lastConnectedNetwork, threadVars>>

networkStateChange ==
    /\ NetworkLost \/ \E n \in Nets : NetworkConnected(n)
    /\ UNCHANGED <<mgmtVars, status, ovpnVars, display>>

\* registerDeviceStateReceiver, posted to the looper by startOpenVPN; it
\* fetches the initial network state before any broadcast
registerDeviceStateReceiver ==
    /\ ~registered /\ MainIdle /\ Room
    /\ registered' = TRUE
    /\ networkStateChange

connectivityAction ==
    /\ registered /\ MainIdle /\ Room
    /\ networkStateChange
    /\ UNCHANGED registered

screenOff ==
    /\ registered /\ MainIdle /\ Room /\ display
    /\ display' = FALSE
    /\ \E screenOffPause \in ScreenOffPause :
         screen' = CASE ~screenOffPause -> screen
                     [] screenOffPause /\ (\/ network = "DISCONNECTED"
                                           \/ userpause = "DISCONNECTED") -> "DISCONNECTED"
                     [] OTHER -> "PENDINGDISCONNECT"
    /\ UNCHANGED <<network, userpause, lastConnectedNetwork, registered,
                   delayTimers, mgmtVars, threadVars, status, ovpnVars>>

screenOn ==
    /\ registered /\ MainIdle /\ Room /\ ~display
    /\ display' = TRUE
    /\ screen' = "SHOULDBECONNECTED"
    /\ delayTimers' = 0
    /\ LET now == Connects(network, screen', userpause)
       IN  CASE now # shouldBeConnected -> Call("main", "resume", "resume")
             [] now = shouldBeConnected /\ ~now ->
                  Call("main", "pause", getPauseReason(network, screen', userpause))
             [] OTHER -> UNCHANGED threadVars
    /\ UNCHANGED <<network, userpause, lastConnectedNetwork, registered,
                   mgmtVars, status, ovpnVars>>

mDelayDisconnectRunnable ==
    /\ MainIdle /\ delayTimers > 0
    /\ delayTimers' = delayTimers - 1
    /\ IF network # "PENDINGDISCONNECT"
       THEN UNCHANGED <<network, screen, threadVars>>
       ELSE /\ network' = "DISCONNECTED"
            /\ screen' = IF screen = "PENDINGDISCONNECT"
                         THEN "DISCONNECTED" ELSE screen
            /\ Call("main", "pause", getPauseReason(network', screen', userpause))
    /\ UNCHANGED <<userpause, lastConnectedNetwork, registered, mgmtVars,
                   status, ovpnVars, display>>

\* mutant: the runnable posts itself again instead of releasing
mResumeHoldRunnable_Repost ==
    /\ MainIdle /\ resumeTimers > 0
    /\ UNCHANGED vars

mResumeHoldRunnable ==
    /\ MainIdle /\ resumeTimers > 0
    /\ resumeTimers' = resumeTimers - 1
    /\ IF shouldBeRunning THEN Call("main", "releaseHoldCmd", "none")
                          ELSE UNCHANGED threadVars
    /\ UNCHANGED <<deviceVars, mWaitingForRelease, lastPauseReason, status,
                   ovpnVars, display>>

\* userPause(b), by intent on the main thread or by AIDL on a binder thread
userPause(t, b) ==
    /\ registered /\ pc[t] = "idle" /\ Room
    /\ IF b
       THEN /\ userpause' = "DISCONNECTED"
            /\ Call(t, "pause", "userPause")
       ELSE /\ RedundantResume \/ userpause = "DISCONNECTED"
            /\ userpause' = "SHOULDBECONNECTED"
            /\ IF Connects(network, screen, userpause') /\ ~shouldBeConnected
               THEN Call(t, "resume", "resume")
               ELSE Call(t, "pause", getPauseReason(network, screen, userpause'))
    /\ UNCHANGED <<network, screen, lastConnectedNetwork, registered,
                   delayTimers, mgmtVars, status, ovpnVars, display>>

UserThread == IF BinderCalls THEN "binder" ELSE "main"

-----------------------------------------------------------------------------
(* The management thread: messages of the openvpn process *)

Receives(msg) ==
    /\ pc["mgmt"] = "idle"
    /\ toApp # <<>> /\ Head(toApp) = msg
    /\ toApp' = Tail(toApp)

\* handleHold: flag first, then the decision, then its effect
handleHold ==
    /\ Receives("HOLD")
    /\ mWaitingForRelease' = TRUE
    /\ Goto("mgmt", "checkHold")
    /\ UNCHANGED <<deviceVars, lastPauseReason, resumeTimers, status, ovpn,
                   toOvpn, display>>

checkHold ==
    /\ pc["mgmt"] = "checkHold"
    /\ Goto("mgmt", IF shouldBeRunning THEN "postResume" ELSE "showPause")
    /\ UNCHANGED <<deviceVars, mgmtVars, status, ovpnVars, display>>

\* waittime > 1 reports CONNECTRETRY; the runnable is posted either way
postResume ==
    /\ pc["mgmt"] = "postResume"
    /\ status' \in {status, "CONNECTRETRY"}
    /\ resumeTimers' = resumeTimers + 1
    /\ Goto("mgmt", "idle")
    /\ UNCHANGED <<deviceVars, mWaitingForRelease, lastPauseReason, ovpnVars,
                   display>>

showPause ==
    /\ pc["mgmt"] = "showPause"
    /\ status' = pauseState(lastPauseReason)
    /\ Goto("mgmt", "idle")
    /\ UNCHANGED <<deviceVars, mgmtVars, ovpnVars, display>>

processState ==
    /\ Receives("CONNECTED")
    /\ status' = "CONNECTED"
    /\ UNCHANGED <<deviceVars, mgmtVars, threadVars, ovpn, toOvpn, display>>

\* updateByteCount: the test of screen and the traffic window ...
updateByteCount ==
    /\ Receives("BYTECOUNT")
    /\ \/ UNCHANGED threadVars
       \/ registered /\ screen = "PENDINGDISCONNECT" /\ Goto("mgmt", "lowTraffic")
    /\ UNCHANGED <<deviceVars, mgmtVars, status, ovpn, toOvpn, display>>

\* ... and, when the window is below TRAFFIC_LIMIT, the pause it leads to
lowTraffic ==
    /\ pc["mgmt"] = "lowTraffic"
    /\ screen' = "DISCONNECTED"
    /\ Call("mgmt", "pause", getPauseReason(network, screen', userpause))
    /\ UNCHANGED <<network, userpause, lastConnectedNetwork, registered,
                   delayTimers, mgmtVars, status, ovpnVars, display>>

-----------------------------------------------------------------------------
(* The openvpn process (external) *)

\* the process connects to the socket and holds before its first attempt
ovpnStart ==
    /\ ovpn = "init"
    /\ ovpn' = "holding"
    /\ toApp' = Append(toApp, "HOLD")
    /\ UNCHANGED <<deviceVars, mgmtVars, threadVars, status, toOvpn, display>>

\* one command; a release counts only in a hold.  SIGUSR1 restarts the
\* process, which then holds; it may also go unnoticed by a holding process.
ovpnCommand ==
    /\ toOvpn # <<>>
    /\ toOvpn' = Tail(toOvpn)
    /\ \/ /\ Head(toOvpn) = "hold release" /\ ovpn = "holding"
          /\ ovpn' = "connecting" /\ UNCHANGED toApp
       \/ /\ Head(toOvpn) = "signal SIGUSR1"
          /\ ovpn' = "holding" /\ toApp' = Append(toApp, "HOLD")
       \/ /\ \/ Head(toOvpn) = "network-change"
             \/ Head(toOvpn) = "hold release" /\ ovpn # "holding"
             \/ Head(toOvpn) = "signal SIGUSR1" /\ ovpn = "holding"
          /\ UNCHANGED <<ovpn, toApp>>
    /\ UNCHANGED <<deviceVars, mgmtVars, threadVars, status, display>>

ovpnConnected ==
    /\ ovpn = "connecting"
    /\ ovpn' = "connected"
    /\ toApp' = Append(toApp, "CONNECTED")
    /\ UNCHANGED <<deviceVars, mgmtVars, threadVars, status, toOvpn, display>>

\* the connection times out: the process restarts by itself
ovpnRestart ==
    /\ ovpn \in {"connecting", "connected"} /\ Room
    /\ ovpn' = "holding"
    /\ toApp' = Append(toApp, "HOLD")
    /\ UNCHANGED <<deviceVars, mgmtVars, threadVars, status, toOvpn, display>>

ovpnByteCount ==
    /\ ovpn = "connected" /\ Room
    /\ toApp' = Append(toApp, "BYTECOUNT")
    /\ UNCHANGED <<deviceVars, mgmtVars, threadVars, status, ovpn, toOvpn, display>>

-----------------------------------------------------------------------------
ManagementCall(t) ==
    \/ pause(t) \/ signalusr1(t) \/ networkChange(t) \/ resume(t)
    \/ releaseHoldCmd(t) \/ clearWaiting(t) \/ sendRelease(t)

DeviceEvent ==
    \/ connectivityAction \/ screenOff \/ screenOn
    \/ \E b \in BOOLEAN : userPause(UserThread, b)

MgmtStep ==
    \/ handleHold \/ checkHold \/ postResume \/ showPause \/ processState
    \/ updateByteCount \/ lowTraffic

Next ==
    \/ \E t \in Threads : ManagementCall(t)
    \/ registerDeviceStateReceiver \/ DeviceEvent
    \/ mDelayDisconnectRunnable \/ mResumeHoldRunnable
    \/ MgmtStep
    \/ ovpnStart \/ ovpnCommand \/ ovpnConnected \/ ovpnRestart \/ ovpnByteCount

\* The looper, the reader thread and the process keep running, and posted
\* runnables become due; broadcasts, the user and time-outs are not fair.
Fairness ==
    /\ \A t \in Threads : WF_vars(ManagementCall(t))
    /\ WF_vars(registerDeviceStateReceiver)
    /\ WF_vars(mDelayDisconnectRunnable) /\ WF_vars(mResumeHoldRunnable)
    /\ WF_vars(MgmtStep)
    /\ WF_vars(ovpnStart) /\ WF_vars(ovpnCommand) /\ WF_vars(ovpnConnected)

Spec == Init /\ [][Next]_vars
FairSpec == Spec /\ Fairness

-----------------------------------------------------------------------------
(* Properties *)

Queued(m, q) == \E i \in 1..Len(q) : q[i] = m

\* A release of the current hold is still to come: its ">HOLD" is unread or
\* being handled, the runnable is posted, a call that releases is under way,
\* or the command is on the socket.
ReleaseUnderWay ==
    \/ Queued("HOLD", toApp)
    \/ pc["mgmt"] \in {"checkHold", "postResume"}
    \/ resumeTimers > 0
    \/ pc["main"] \in {"releaseHoldCmd", "clearWaiting", "sendRelease"}
    \/ pc["main"] \in {"networkChange", "resume"} /\ mWaitingForRelease
    \/ Queued("hold release", toOvpn)

\* When the three conditions allow the VPN to run and openvpn waits in a
\* hold, something that releases the hold is under way: no interleaving of
\* handleHold with the broadcasts and runnables strands the process.
NoLostRelease == ovpn = "holding" /\ shouldBeRunning => ReleaseUnderWay

\* When the delay has run out with no network, a process that runs is told
\* to restart into a hold, unless the management thread takes it to be held
\* already (mWaitingForRelease): the decision to stop is never lost.
NoLostStop ==
    ovpn \in {"connecting", "connected"} /\ registered
    /\ network = "DISCONNECTED" /\ ~mWaitingForRelease
      => \/ pc["main"] \in {"pause", "signalusr1"}
         \/ Queued("signal SIGUSR1", toOvpn)

\* Conditions that stay good get openvpn out of its hold.
GoodConditionsRelease == <>[]shouldBeRunning => []<>(ovpn # "holding")

\* A network that stays gone leaves openvpn in its hold ("Not connected, stop
\* openvpn" in networkStateChange).
LostNetworkHolds ==
    <>[](registered /\ network = "DISCONNECTED") => <>[](ovpn = "holding")

\* The main thread never starts to release a hold while the user's pause is
\* in force ("Pause the VPN" of the service's AIDL interface).
UserPauseRespected ==
    [][pc["main"] # "releaseHoldCmd" /\ pc'["main"] = "releaseHoldCmd"
         => userpause # "DISCONNECTED"]_vars
=============================================================================
