------------------------- MODULE PauseControlProofs -------------------------
(***************************************************************************)
(* Theorems about PauseControl, for every value of its constants.          *)
(***************************************************************************)
EXTENDS PauseControl, SequenceTheorems, TLAPS

-----------------------------------------------------------------------------
(* The inductive invariant *)

MainReleases == {"networkChange", "resume", "releaseHoldCmd", "clearWaiting",
                 "sendRelease"}

\* Who runs what: only the main thread releases, only the management thread
\* handles messages, and a pause carries a reason.
CallInv ==
    /\ pc["binder"] = "idle"
    /\ pc["main"] \in {"idle", "pause", "signalusr1"} \cup MainReleases
    /\ pc["mgmt"] \in {"idle", "pause", "signalusr1", "checkHold",
                       "postResume", "showPause", "lowTraffic"}
    /\ \A t \in Threads : pc[t] = "pause" => arg[t] \in pauseReason
    /\ ~registered => network = "DISCONNECTED"

\* The main thread pauses only when the conditions forbid running.
PauseInv == pc["main"] \in {"pause", "signalusr1"} => ~shouldBeConnected

\* The newest message of a holding process is its hold; while the management
\* thread acts on a byte count, that hold is still unread.
HoldLast ==
    ovpn = "holding" =>
        /\ toApp # <<>> => toApp[Len(toApp)] = "HOLD"
        /\ pc["mgmt"] \in {"pause", "signalusr1", "lowTraffic"} => toApp # <<>>

\* mWaitingForRelease is down in a hold that has been read only when its
\* release is being written or is on the socket.
FlagInv ==
    ovpn = "holding" /\ toApp = <<>> /\ ~mWaitingForRelease =>
        pc["main"] = "sendRelease" \/ Queued("hold release", toOvpn)

IInv == TypeOK /\ CallInv /\ PauseInv /\ HoldLast /\ FlagInv /\ NoLostRelease

-----------------------------------------------------------------------------
(* Type correctness *)

ArgInv == \A t \in Threads : pc[t] = "pause" => arg[t] \in pauseReason
TInv == TypeOK /\ ArgInv

\* Whatever the device state, getPauseReason answers with a pause reason.
LEMMA ReasonType ==
    ASSUME NEW n, NEW s, NEW u
    PROVE  getPauseReason(n, s, u) \in pauseReason
BY DEF getPauseReason, pauseReason

\* updateStatePause shows one of the known states for every reason.
LEMMA StateType ==
    ASSUME NEW r \in pauseReason
    PROVE  pauseState(r) \in States
BY DEF pauseState, pauseReason, States

\* Sending and receiving keep the queues sequences of messages.
LEMMA QueueType ==
    ASSUME NEW S, NEW q \in Seq(S)
    PROVE  /\ \A m \in S : Append(q, m) \in Seq(S)
           /\ q # <<>> => Tail(q) \in Seq(S)
OBVIOUS

\* A command written to the socket keeps the queue to the process well typed.
LEMMA CommandType ==
    ASSUME TypeOK, NEW cmd \in OvpnCmds, managmentCommand(cmd)
    PROVE  toOvpn' \in Seq(OvpnCmds)
<1>1. toOvpn \in Seq(OvpnCmds)
  BY DEF TypeOK
<1> QED
  BY <1>1, QueueType DEF managmentCommand

\* Taking a message off the socket keeps the queue to the app well typed.
LEMMA ReceiveType ==
    ASSUME TypeOK, NEW msg, Receives(msg)
    PROVE  toApp' \in Seq(AppMsgs)
<1>1. toApp \in Seq(AppMsgs)
  BY DEF TypeOK
<1> QED
  BY <1>1, QueueType DEF Receives

\* The commands and messages named by the actions are known ones.
LEMMA Messages ==
    /\ \A m \in {"HOLD", "CONNECTED", "BYTECOUNT"} : m \in AppMsgs
    /\ \A m \in {"hold release", "signal SIGUSR1", "network-change"} : m \in OvpnCmds
BY DEF AppMsgs, OvpnCmds

\* The initial state is well typed.
LEMMA TypeInit == Init => TInv
<1> SUFFICES ASSUME Init PROVE TInv
  OBVIOUS
<1>1. toApp \in Seq(AppMsgs) /\ toOvpn \in Seq(OvpnCmds)
  BY DEF Init
<1>2. pc \in [Threads -> Calls] /\ arg \in [Threads -> Args] /\ ArgInv
  BY DEF Init, Calls, Args, ArgInv
<1> QED
  BY <1>1, <1>2 DEF Init, TInv, TypeOK, connectState, pauseReason, States, Phases

\* Every step keeps the types, and a pause keeps a reason as its argument.
LEMMA TypeStep == TInv /\ [Next]_vars => TInv'
<1> SUFFICES ASSUME TInv, [Next]_vars PROVE TInv'
  OBVIOUS
<1> USE DEF TInv, TypeOK, ArgInv, deviceVars, mgmtVars, threadVars, ovpnVars
<1>1. CASE UNCHANGED vars
  BY <1>1 DEF vars
<1>2. ASSUME NEW t \in Threads, ManagementCall(t) PROVE TInv'
  <2> USE DEF Goto
  <2>1. CASE pause(t)
    BY <2>1 DEF pause, Calls
  <2>2. CASE signalusr1(t)
    BY <2>2, StateType, CommandType, Messages DEF signalusr1, Calls
  <2>3. CASE networkChange(t)
    BY <2>3, CommandType, Messages DEF networkChange, Calls
  <2>4. CASE resume(t)
    BY <2>4 DEF resume, Calls, pauseReason
  <2>5. CASE releaseHoldCmd(t)
    BY <2>5 DEF releaseHoldCmd, Calls
  <2>6. CASE clearWaiting(t)
    BY <2>6 DEF clearWaiting, Calls
  <2>7. CASE sendRelease(t)
    BY <2>7, CommandType, Messages DEF sendRelease, Calls, pauseReason
  <2> QED BY <1>2, <2>1, <2>2, <2>3, <2>4, <2>5, <2>6, <2>7 DEF ManagementCall
<1>3. CASE MgmtStep
  <2> USE DEF Goto, Threads, Calls
  <2>1. CASE handleHold
    BY <2>1, ReceiveType DEF handleHold
  <2>2. CASE checkHold
    BY <2>2 DEF checkHold
  <2>3. CASE postResume
    BY <2>3 DEF postResume, States
  <2>4. CASE showPause
    BY <2>4, StateType DEF showPause
  <2>5. CASE processState
    BY <2>5, ReceiveType DEF processState, States
  <2>6. CASE updateByteCount
    BY <2>6, ReceiveType DEF updateByteCount
  <2>7. CASE lowTraffic
    BY <2>7, ReasonType DEF lowTraffic, connectState, Args, Call
  <2> QED BY <1>3, <2>1, <2>2, <2>3, <2>4, <2>5, <2>6, <2>7 DEF MgmtStep
<1>4. CASE ovpnStart \/ ovpnCommand \/ ovpnConnected \/ ovpnRestart \/ ovpnByteCount
  <2>1. toApp' \in Seq(AppMsgs) /\ toOvpn' \in Seq(OvpnCmds) /\ ovpn' \in Phases
    BY <1>4, QueueType, Messages
    DEF ovpnStart, ovpnCommand, ovpnConnected, ovpnRestart, ovpnByteCount, Phases
  <2> QED
    BY <1>4, <2>1 DEF ovpnStart, ovpnCommand, ovpnConnected, ovpnRestart, ovpnByteCount
<1>5. CASE mDelayDisconnectRunnable
  BY <1>5, ReasonType DEF mDelayDisconnectRunnable, Call, Threads, Calls, Args, connectState
<1>6. CASE mResumeHoldRunnable
  BY <1>6 DEF mResumeHoldRunnable, Call, Threads, Calls, Args
<1>7. CASE screenOff
  BY <1>7 DEF screenOff, connectState
<1>8. CASE screenOn
  BY <1>8, ReasonType DEF screenOn, Call, Threads, Calls, Args, connectState, MainIdle
<1>9. ASSUME NEW b \in BOOLEAN, userPause(UserThread, b) PROVE TInv'
  BY <1>9, ReasonType DEF userPause, UserThread, Call, Threads, Calls, Args, connectState, pauseReason
<1>10. ASSUME networkStateChange, registered' \in BOOLEAN PROVE TInv'
  <2>1. CASE NetworkLost
    BY <1>10, <2>1 DEF networkStateChange, NetworkLost, connectState
  <2>2. ASSUME NEW n \in Nets, NetworkConnected(n) PROVE TInv'
    BY <1>10, <2>2 DEF networkStateChange, NetworkConnected, Call, Threads, Calls, Args, connectState
  <2> QED BY <1>10, <2>1, <2>2 DEF networkStateChange
<1>11. CASE registerDeviceStateReceiver
  BY <1>10, <1>11 DEF registerDeviceStateReceiver
<1>12. CASE connectivityAction
  BY <1>10, <1>12 DEF connectivityAction
<1> QED
  BY <1>1, <1>2, <1>3, <1>4, <1>5, <1>6, <1>7, <1>8, <1>9, <1>11, <1>12
  DEF Next, DeviceEvent

\* Every variable keeps its type, for every value of the constants.
THEOREM TypeCorrect == Spec => []TypeOK
<1>1. TInv => TypeOK
  BY DEF TInv
<1> QED
  BY <1>1, TypeInit, TypeStep, PTL DEF Spec

-----------------------------------------------------------------------------
(* Sequences: what a queue contains after a message is added or removed *)

\* What is queued after an append: what was, and the new message.
LEMMA AppendQueued ==
    ASSUME NEW S, NEW q \in Seq(S), NEW m \in S, NEW x
    PROVE  /\ Queued(x, Append(q, m)) <=> (Queued(x, q) \/ x = m)
           /\ Append(q, m) # <<>>
           /\ Append(q, m)[Len(Append(q, m))] = m
BY DEF Queued

\* Taking the head off a queue loses no message but the head.
LEMMA TailQueued ==
    ASSUME NEW S, NEW q \in Seq(S), q # <<>>, NEW x
    PROVE  /\ Queued(x, q) <=> (Queued(x, Tail(q)) \/ x = Head(q))
           /\ Tail(q) # <<>> => Tail(q)[Len(Tail(q))] = q[Len(q)]
           /\ Tail(q) = <<>> => q[Len(q)] = Head(q)
<1>1. /\ Len(q) \in Nat \ {0} /\ Head(q) = q[1]
      /\ Tail(q) \in Seq(S) /\ Len(Tail(q)) = Len(q) - 1
      /\ \A i \in 1..(Len(q) - 1) : Tail(q)[i] = q[i + 1]
  OBVIOUS
<1>2. Queued(x, Tail(q)) => Queued(x, q)
  BY <1>1 DEF Queued
<1>3. x = Head(q) => Queued(x, q)
  BY <1>1 DEF Queued
<1>4. ASSUME NEW i \in 1..Len(q), q[i] = x, i # 1
      PROVE  Queued(x, Tail(q))
  <2>1. i - 1 \in 1..Len(Tail(q)) /\ Tail(q)[i - 1] = q[(i - 1) + 1]
    BY <1>1, <1>4
  <2> QED BY <2>1, <1>4 DEF Queued
<1>5. Queued(x, q) => Queued(x, Tail(q)) \/ x = Head(q)
  BY <1>1, <1>4 DEF Queued
<1>6. ASSUME Tail(q) # <<>> PROVE Tail(q)[Len(Tail(q))] = q[Len(q)]
  <2>1. Len(q) - 1 \in 1..(Len(q) - 1)
    BY <1>1, <1>6
  <2>2. Tail(q)[Len(q) - 1] = q[(Len(q) - 1) + 1]
    BY <1>1, <2>1
  <2>3. (Len(q) - 1) + 1 = Len(q)
    BY <1>1
  <2> QED BY <1>1, <2>2, <2>3
<1>7. ASSUME Tail(q) = <<>> PROVE q[Len(q)] = Head(q)
  <2>1. Len(Tail(q)) = 0
    BY <1>1, <1>7, EmptySeq
  <2>2. \A n \in Nat : n - 1 = 0 => n = 1
    OBVIOUS
  <2>3. Len(q) = 1
    BY <1>1, <2>1, <2>2
  <2> QED BY <1>1, <2>3
<1> QED BY <1>2, <1>3, <1>5, <1>6, <1>7

\* Nothing is queued in an empty queue.
LEMMA EmptyQueued == \A x : ~Queued(x, <<>>)
BY DEF Queued

\* The last message of a non-empty queue is queued.
LEMMA LastQueued ==
    ASSUME NEW S, NEW q \in Seq(S), q # <<>>
    PROVE  Queued(q[Len(q)], q)
BY DEF Queued

\* A command is appended, unless no process has connected yet.
LEMMA CommandQueued ==
    ASSUME toOvpn \in Seq(OvpnCmds), NEW cmd \in OvpnCmds, managmentCommand(cmd)
    PROVE  /\ \A x : Queued(x, toOvpn) => Queued(x, toOvpn')
           /\ ovpn # "init" => Queued(cmd, toOvpn')
<1>1. CASE ovpn = "init"
  BY <1>1 DEF managmentCommand
<1>2. CASE ovpn # "init"
  <2>1. toOvpn' = Append(toOvpn, cmd)
    BY <1>2 DEF managmentCommand
  <2>2. \A x : Queued(x, Append(toOvpn, cmd)) <=> (Queued(x, toOvpn) \/ x = cmd)
    BY AppendQueued
  <2> QED BY <2>1, <2>2
<1> QED BY <1>1, <1>2

-----------------------------------------------------------------------------
(* No release is lost *)

\* A counter that was incremented is positive (posted resume runnables).
LEMMA SuccPositive == \A n \in Nat : n + 1 > 0
OBVIOUS

\* The strengthened release invariant holds initially.
LEMMA ReleaseInit ==
    ASSUME BinderCalls = FALSE, RedundantResume = FALSE
    PROVE  Init => IInv
<1> SUFFICES ASSUME Init PROVE IInv
  OBVIOUS
<1>1. TypeOK
  BY TypeInit DEF TInv
<1> QED
  BY <1>1 DEF Init, IInv, CallInv, PauseInv, HoldLast, FlagInv, NoLostRelease,
              Threads, shouldBeConnected, Connects

\* Every step keeps the strengthened release invariant.
LEMMA ReleaseStep ==
    ASSUME BinderCalls = FALSE, RedundantResume = FALSE
    PROVE  IInv /\ [Next]_vars => IInv'
<1> SUFFICES ASSUME IInv, [Next]_vars PROVE IInv'
  OBVIOUS
<1> USE DEF IInv
<1>0. TypeOK /\ TypeOK'
  BY TypeStep DEF TInv, ArgInv, CallInv
<1>q. toApp \in Seq(AppMsgs) /\ toOvpn \in Seq(OvpnCmds)
  BY <1>0 DEF TypeOK
<1>p. /\ pc \in [Threads -> Calls] /\ arg \in [Threads -> Args] /\ resumeTimers \in Nat
      /\ registered \in BOOLEAN /\ mWaitingForRelease \in BOOLEAN
  BY <1>0 DEF TypeOK
<1> DEFINE Rest == CallInv /\ PauseInv /\ HoldLast /\ FlagInv /\ NoLostRelease
<1> SUFFICES Rest'
  BY <1>0
<1> USE DEF CallInv, PauseInv, HoldLast, FlagInv, NoLostRelease, ReleaseUnderWay,
            shouldBeRunning, shouldBeConnected, Connects,
            deviceVars, mgmtVars, threadVars, ovpnVars, MainReleases
<1>h. ovpn = "holding" /\ toApp # <<>> => Queued("HOLD", toApp)
  BY <1>q, LastQueued
<1>a. toApp' = Append(toApp, "HOLD") =>
        toApp' # <<>> /\ toApp'[Len(toApp')] = "HOLD" /\ Queued("HOLD", toApp')
  <2> SUFFICES ASSUME toApp' = Append(toApp, "HOLD")
               PROVE  toApp' # <<>> /\ toApp'[Len(toApp')] = "HOLD" /\ Queued("HOLD", toApp')
    OBVIOUS
  <2> HIDE DEF IInv, CallInv, PauseInv, HoldLast, FlagInv, NoLostRelease, ReleaseUnderWay, MainReleases
  <2>1. "HOLD" \in AppMsgs
    BY Messages
  <2> QED
    BY <1>q, <2>1, AppendQueued, ZenonT(60)
<1>1. CASE UNCHANGED vars
  BY <1>1 DEF vars
<1>2. ASSUME NEW t \in Threads, ManagementCall(t) PROVE Rest'
  <2> USE <1>h, <1>p DEF Goto, Threads
  <2>1. CASE pause(t)
    BY <2>1 DEF pause
  <2>2. CASE signalusr1(t)
    <3>1. \A x : Queued(x, toOvpn) => Queued(x, toOvpn')
      BY <2>2, <1>q, CommandQueued, Messages DEF signalusr1
    <3> QED BY <2>2, <3>1 DEF signalusr1
  <2>3. CASE networkChange(t)
    <3>1. \A x : Queued(x, toOvpn) => Queued(x, toOvpn')
      BY <2>3, <1>q, CommandQueued, Messages DEF networkChange
    <3> QED BY <2>3, <3>1 DEF networkChange
  <2>4. CASE resume(t)
    BY <2>4 DEF resume
  <2>5. CASE releaseHoldCmd(t)
    BY <2>5 DEF releaseHoldCmd
  <2>6. CASE clearWaiting(t)
    BY <2>6 DEF clearWaiting
  <2>7. CASE sendRelease(t)
    BY <2>7, <1>q, CommandQueued, Messages DEF sendRelease
  <2> QED BY <1>2, <2>1, <2>2, <2>3, <2>4, <2>5, <2>6, <2>7 DEF ManagementCall
<1>3. CASE MgmtStep
  <2> USE <1>h, <1>p DEF Goto, Threads
  <2>1. CASE handleHold
    BY <2>1, <1>q, TailQueued DEF handleHold, Receives
  <2>2. CASE checkHold
    BY <2>2 DEF checkHold
  <2>3. CASE postResume
    <3>1. resumeTimers \in Nat /\ resumeTimers' = resumeTimers + 1
      BY <2>3 DEF postResume
    <3>2. resumeTimers' > 0
      BY <3>1, SuccPositive
    <3> QED BY <2>3, <3>2 DEF postResume
  <2>4. CASE showPause
    BY <2>4 DEF showPause
  <2>5. CASE processState
    BY <2>5, <1>q, TailQueued, ZenonT(60) DEF processState, Receives
  <2>6. CASE updateByteCount
    BY <2>6, <1>q, TailQueued DEF updateByteCount, Receives
  <2>7. CASE lowTraffic
    BY <2>7, ReasonType DEF lowTraffic, Call
  <2> QED BY <1>3, <2>1, <2>2, <2>3, <2>4, <2>5, <2>6, <2>7 DEF MgmtStep
<1>4. CASE ovpnStart
  BY <1>4, <1>a DEF ovpnStart
<1>5. CASE ovpnCommand
  <2>0. toOvpn # <<>> /\ toOvpn' = Tail(toOvpn)
    BY <1>5 DEF ovpnCommand
  <2>1. \A x : Queued(x, toOvpn) => Queued(x, toOvpn') \/ x = Head(toOvpn)
    BY <2>0, <1>q, TailQueued
  <2>2. CASE Head(toOvpn) = "signal SIGUSR1" /\ toApp' = Append(toApp, "HOLD")
    <3>1. toApp' # <<>> /\ toApp'[Len(toApp')] = "HOLD" /\ Queued("HOLD", toApp')
      BY <2>2, <1>a
    <3> QED BY <1>5, <2>1, <2>2, <3>1 DEF ovpnCommand
  <2>3. CASE Head(toOvpn) = "hold release" /\ ovpn' # "holding"
    BY <1>5, <2>1, <2>3 DEF ovpnCommand
  <2>4. CASE Head(toOvpn) # "hold release" /\ UNCHANGED <<ovpn, toApp>>
    BY <1>5, <2>1, <2>4, ZenonT(60) DEF ovpnCommand
  <2> QED BY <1>5, <2>2, <2>3, <2>4 DEF ovpnCommand
<1>6. CASE ovpnConnected \/ ovpnByteCount
  BY <1>6, <1>q, AppendQueued, Messages DEF ovpnConnected, ovpnByteCount
<1>7. CASE ovpnRestart
  BY <1>7, <1>a DEF ovpnRestart
<1>8. CASE mDelayDisconnectRunnable
  <2>1. getPauseReason(network', screen', userpause) \in pauseReason
    BY ReasonType
  <2> QED BY <1>8, <1>p, <2>1 DEF mDelayDisconnectRunnable, Call, Threads, MainIdle
<1>9. CASE mResumeHoldRunnable
  BY <1>9, <1>p DEF mResumeHoldRunnable, Call, Threads, MainIdle
<1>10. CASE screenOff
  BY <1>10 DEF screenOff, MainIdle
<1>11. CASE screenOn
  <2>1. getPauseReason(network, screen', userpause) \in pauseReason
    BY ReasonType
  <2>2. CASE Connects(network, screen', userpause) # shouldBeConnected
    BY <1>11, <1>p, <1>h, <2>2 DEF screenOn, Call, Threads, MainIdle
  <2>3. CASE Connects(network, screen', userpause) = shouldBeConnected
    BY <1>11, <1>p, <1>h, <2>1, <2>3 DEF screenOn, Call, Threads, MainIdle
  <2> QED BY <2>2, <2>3
<1>12. ASSUME NEW b \in BOOLEAN, userPause(UserThread, b) PROVE Rest'
  <2>1. userPause("main", b)
    BY <1>12 DEF UserThread
  <2>2. CASE b
    BY <2>1, <2>2, <1>p DEF userPause, Call, Threads, pauseReason
  <2>3. CASE ~b
    <3>1. getPauseReason(network, screen, userpause') \in pauseReason
      BY ReasonType
    <3> QED BY <2>1, <2>3, <1>p, <1>h, <3>1 DEF userPause, Call, Threads
  <2> QED BY <2>2, <2>3
<1>13. ASSUME networkStateChange, registered' = TRUE, MainIdle PROVE Rest'
  <2>1. CASE NetworkLost
    BY <1>13, <1>p, <2>1 DEF networkStateChange, NetworkLost, MainIdle
  <2>2. ASSUME NEW n \in Nets, NetworkConnected(n) PROVE Rest'
    BY <1>13, <1>p, <1>h, <2>2, ZenonT(60) DEF networkStateChange, NetworkConnected, MainIdle, Call, Threads
  <2> QED BY <1>13, <2>1, <2>2 DEF networkStateChange
<1>14. CASE registerDeviceStateReceiver
  BY <1>13, <1>14 DEF registerDeviceStateReceiver
<1>15. CASE connectivityAction
  BY <1>13, <1>15, <1>p DEF connectivityAction
<1> QED
  BY <1>1, <1>2, <1>3, <1>4, <1>5, <1>6, <1>7, <1>8, <1>9, <1>10, <1>11, <1>12,
     <1>14, <1>15
  DEF Next, DeviceEvent

\* openvpn is never left in a hold when network, screen and user allow it to
\* run, whatever the order of holds, broadcasts, runnables and low traffic:
\* with userPause on the main thread and a resume only after a pause.
THEOREM ReleaseNeverLost ==
    ASSUME BinderCalls = FALSE, RedundantResume = FALSE
    PROVE  Spec => []NoLostRelease
<1>1. Init => IInv
  BY ReleaseInit
<1>2. IInv /\ [Next]_vars => IInv'
  BY ReleaseStep
<1>3. IInv => NoLostRelease
  BY DEF IInv
<1> QED
  BY <1>1, <1>2, <1>3, PTL DEF Spec

-----------------------------------------------------------------------------
(* No stop is lost *)

\* A SIGUSR1 with no release behind it, in a queue.
StopIn(q) ==
    \E i \in 1..Len(q) :
        /\ q[i] = "signal SIGUSR1"
        /\ \A j \in 1..Len(q) : j > i => q[j] # "hold release"

\* The main thread is in a releasing call only with the network up.
ReleaseNeedsNetwork == pc["main"] \in MainReleases => network = "SHOULDBECONNECTED"

\* Before the receiver exists nothing has been sent and nothing released.
Unregistered ==
    /\ ~registered => /\ ovpn \in {"init", "holding"}
                      /\ pc["main"] = "idle"
                      /\ pc["mgmt"] \notin {"pause", "signalusr1", "lowTraffic"}
                      /\ toOvpn = <<>>
    /\ ovpn = "init" => toOvpn = <<>>

\* Without a network, unless the pause is still being carried out or the
\* process is taken to be held, it was told to stop or holds for good.
StopInv ==
    registered /\ network = "DISCONNECTED" /\ ~mWaitingForRelease
    /\ ovpn # "init" /\ pc["main"] \notin {"pause", "signalusr1"}
      => StopIn(toOvpn) \/ (ovpn = "holding" /\ ~Queued("hold release", toOvpn))

SInv == TypeOK /\ CallInv /\ ReleaseNeedsNetwork /\ Unregistered /\ StopInv

\* A stop is pending behind a new SIGUSR1, and stays so behind anything but a release.
LEMMA StopAppend ==
    ASSUME NEW q \in Seq(OvpnCmds), NEW m \in OvpnCmds
    PROVE  /\ m = "signal SIGUSR1" => StopIn(Append(q, m))
           /\ m # "hold release" /\ StopIn(q) => StopIn(Append(q, m))
<1> DEFINE p == Append(q, m)
<1>1. /\ Len(q) \in Nat /\ Len(p) = Len(q) + 1
      /\ p[Len(q) + 1] = m
      /\ \A i \in 1..Len(q) : p[i] = q[i]
  OBVIOUS
<1> HIDE DEF p
<1>2. ASSUME m = "signal SIGUSR1" PROVE StopIn(p)
  <2>1. Len(q) + 1 \in 1..Len(p) /\ \A j \in 1..Len(p) : ~(j > Len(q) + 1)
    BY <1>1
  <2> QED BY <1>1, <1>2, <2>1 DEF StopIn
<1>3. ASSUME m # "hold release", StopIn(q) PROVE StopIn(p)
  <2>1. PICK i \in 1..Len(q) :
          /\ q[i] = "signal SIGUSR1"
          /\ \A j \in 1..Len(q) : j > i => q[j] # "hold release"
    BY <1>3 DEF StopIn
  <2>2. i \in 1..Len(p) /\ p[i] = "signal SIGUSR1"
    <3>1. i \in 1..Len(p)
      BY <1>1
    <3> QED BY <1>1, <2>1, <3>1
  <2>3. ASSUME NEW j \in 1..Len(p), j > i PROVE p[j] # "hold release"
    <3>1. j \in 1..Len(q) \/ j = Len(q) + 1
      BY <1>1
    <3> QED BY <1>1, <1>3, <2>1, <2>3, <3>1
  <2> QED BY <2>2, <2>3 DEF StopIn
<1> QED BY <1>2, <1>3 DEF p

\* A pending stop is still pending behind the head, or the head was it.
LEMMA StopTail ==
    ASSUME NEW q \in Seq(OvpnCmds), q # <<>>, StopIn(q)
    PROVE  \/ StopIn(Tail(q))
           \/ Head(q) = "signal SIGUSR1" /\ ~Queued("hold release", Tail(q))
<1>1. /\ Len(q) \in Nat \ {0} /\ Head(q) = q[1]
      /\ Len(Tail(q)) = Len(q) - 1
      /\ \A i \in 1..(Len(q) - 1) : Tail(q)[i] = q[i + 1]
  OBVIOUS
<1>2. PICK i \in 1..Len(q) :
        /\ q[i] = "signal SIGUSR1"
        /\ \A j \in 1..Len(q) : j > i => q[j] # "hold release"
  BY DEF StopIn
<1>3. CASE i = 1
  <2>1. ASSUME NEW k \in 1..Len(Tail(q)) PROVE Tail(q)[k] # "hold release"
    <3>1. k + 1 \in 1..Len(q) /\ k + 1 > 1 /\ k \in 1..(Len(q) - 1)
      BY <1>1
    <3> QED BY <1>1, <1>2, <1>3, <3>1
  <2> QED BY <1>1, <1>2, <1>3, <2>1 DEF Queued
<1>4. CASE i # 1
  <2>1. i - 1 \in 1..Len(Tail(q)) /\ Tail(q)[i - 1] = "signal SIGUSR1"
    <3>1. i - 1 \in 1..(Len(q) - 1) /\ (i - 1) + 1 = i
      BY <1>1, <1>4
    <3> QED BY <1>1, <1>2, <3>1
  <2>2. ASSUME NEW k \in 1..Len(Tail(q)), k > i - 1
        PROVE  Tail(q)[k] # "hold release"
    <3>1. k + 1 \in 1..Len(q) /\ k + 1 > i /\ k \in 1..(Len(q) - 1)
      BY <1>1, <2>2
    <3> QED BY <1>1, <1>2, <3>1
  <2> QED BY <2>1, <2>2 DEF StopIn
<1> QED BY <1>3, <1>4

\* The strengthened stop invariant holds initially.
LEMMA StopInit ==
    ASSUME BinderCalls = FALSE
    PROVE  Init => SInv
<1> SUFFICES ASSUME Init PROVE SInv
  OBVIOUS
<1>1. TypeOK
  BY TypeInit DEF TInv
<1> QED
  BY <1>1 DEF Init, SInv, CallInv, ReleaseNeedsNetwork, Unregistered, StopInv, Threads,
              MainReleases

\* Every step keeps the strengthened stop invariant.
LEMMA StopStep ==
    ASSUME BinderCalls = FALSE
    PROVE  SInv /\ [Next]_vars => SInv'
<1> SUFFICES ASSUME SInv, [Next]_vars PROVE SInv'
  OBVIOUS
<1> USE DEF SInv
<1>0. TypeOK /\ TypeOK'
  BY TypeStep DEF TInv, ArgInv, CallInv
<1>q. toApp \in Seq(AppMsgs) /\ toOvpn \in Seq(OvpnCmds)
  BY <1>0 DEF TypeOK
<1>p. /\ pc \in [Threads -> Calls] /\ arg \in [Threads -> Args]
      /\ registered \in BOOLEAN /\ mWaitingForRelease \in BOOLEAN
  BY <1>0 DEF TypeOK
<1> DEFINE Rest == CallInv /\ ReleaseNeedsNetwork /\ Unregistered /\ StopInv
<1> SUFFICES Rest'
  BY <1>0
<1> USE DEF CallInv, ReleaseNeedsNetwork, Unregistered, StopInv,
            deviceVars, mgmtVars, threadVars, ovpnVars, MainReleases
<1>1. CASE UNCHANGED vars
  BY <1>1 DEF vars
<1>2. ASSUME NEW t \in Threads, ManagementCall(t) PROVE Rest'
  <2> USE <1>p DEF Goto, Threads
  <2>1. CASE pause(t)
    BY <2>1 DEF pause
  <2>2. CASE signalusr1(t)
    <3>1. CASE mWaitingForRelease
      BY <2>2, <3>1 DEF signalusr1
    <3>2. CASE ~mWaitingForRelease /\ ovpn # "init"
      <4>1. toOvpn' = Append(toOvpn, "signal SIGUSR1") /\ StopIn(toOvpn')
        BY <2>2, <3>2, <1>q, StopAppend, Messages DEF signalusr1, managmentCommand
      <4> QED BY <2>2, <3>2, <4>1 DEF signalusr1
    <3>3. CASE ~mWaitingForRelease /\ ovpn = "init"
      BY <2>2, <3>3 DEF signalusr1, managmentCommand
    <3> QED BY <3>1, <3>2, <3>3
  <2>3. CASE networkChange(t)
    BY <2>3, <1>q, StopAppend, AppendQueued, Messages DEF networkChange, managmentCommand
  <2>4. CASE resume(t)
    BY <2>4 DEF resume
  <2>5. CASE releaseHoldCmd(t)
    BY <2>5 DEF releaseHoldCmd
  <2>6. CASE clearWaiting(t)
    BY <2>6 DEF clearWaiting
  <2>7. CASE sendRelease(t)
    BY <2>7 DEF sendRelease, managmentCommand
  <2> QED BY <1>2, <2>1, <2>2, <2>3, <2>4, <2>5, <2>6, <2>7 DEF ManagementCall
<1>3. CASE MgmtStep
  <2> USE <1>p DEF Goto, Threads
  <2>1. CASE handleHold
    BY <2>1 DEF handleHold, Receives
  <2>2. CASE checkHold
    BY <2>2 DEF checkHold
  <2>6. CASE postResume
    BY <2>6 DEF postResume
  <2>7. CASE showPause
    BY <2>7 DEF showPause
  <2>3. CASE processState
    BY <2>3 DEF processState, Receives
  <2>4. CASE updateByteCount
    BY <2>4 DEF updateByteCount, Receives
  <2>5. CASE lowTraffic
    BY <2>5, ReasonType DEF lowTraffic, Call
  <2> QED BY <1>3, <2>1, <2>2, <2>3, <2>4, <2>5, <2>6, <2>7 DEF MgmtStep
<1>4. CASE ovpnStart
  BY <1>4, EmptyQueued DEF ovpnStart
<1>5. CASE ovpnCommand
  <2>1. toOvpn # <<>> /\ toOvpn' = Tail(toOvpn)
    BY <1>5 DEF ovpnCommand
  <2>2. StopIn(toOvpn) => \/ StopIn(toOvpn')
                          \/ Head(toOvpn) = "signal SIGUSR1" /\ ~Queued("hold release", toOvpn')
    BY <2>1, <1>q, StopTail
  <2>3. ~Queued("hold release", toOvpn) =>
          ~Queued("hold release", toOvpn') /\ Head(toOvpn) # "hold release"
    BY <2>1, <1>q, TailQueued
  <2>4. registered /\ ovpn # "init"
    BY <2>1
  <2> QED BY <1>5, <2>1, <2>2, <2>3, <2>4 DEF ovpnCommand
<1>6. CASE ovpnConnected \/ ovpnByteCount
  BY <1>6 DEF ovpnConnected, ovpnByteCount
<1>7. CASE ovpnRestart
  BY <1>7 DEF ovpnRestart
<1>8. CASE mDelayDisconnectRunnable
  <2>1. getPauseReason(network', screen', userpause) \in pauseReason
    BY ReasonType
  <2> QED BY <1>8, <1>p, <2>1 DEF mDelayDisconnectRunnable, Call, Threads, MainIdle
<1>9. CASE mResumeHoldRunnable
  BY <1>9, <1>p DEF mResumeHoldRunnable, Call, Threads, MainIdle, shouldBeRunning,
                    shouldBeConnected, Connects
<1>10. CASE screenOff
  BY <1>10 DEF screenOff, MainIdle
<1>11. CASE screenOn
  <2>1. getPauseReason(network, screen', userpause) \in pauseReason
    BY ReasonType
  <2> QED BY <1>11, <1>p, <2>1 DEF screenOn, Call, Threads, MainIdle, shouldBeConnected, Connects
<1>12. ASSUME NEW b \in BOOLEAN, userPause(UserThread, b) PROVE Rest'
  <2>1. userPause("main", b)
    BY <1>12 DEF UserThread
  <2>2. getPauseReason(network, screen, userpause') \in pauseReason
    BY ReasonType
  <2> QED
    BY <2>1, <2>2, <1>p, ZenonT(60) DEF userPause, Call, Threads, pauseReason, shouldBeConnected, Connects
<1>13. ASSUME networkStateChange, registered' = TRUE, MainIdle PROVE Rest'
  <2>1. CASE NetworkLost
    BY <1>13, <1>p, <2>1, EmptyQueued DEF networkStateChange, NetworkLost, MainIdle
  <2>2. ASSUME NEW n \in Nets, NetworkConnected(n) PROVE Rest'
    BY <1>13, <1>p, <2>2 DEF networkStateChange, NetworkConnected, MainIdle, Call, Threads
  <2> QED BY <1>13, <2>1, <2>2 DEF networkStateChange
<1>14. CASE registerDeviceStateReceiver
  BY <1>13, <1>14 DEF registerDeviceStateReceiver
<1>15. CASE connectivityAction
  BY <1>13, <1>15, <1>p DEF connectivityAction
<1> QED
  BY <1>1, <1>2, <1>3, <1>4, <1>5, <1>6, <1>7, <1>8, <1>9, <1>10, <1>11, <1>12,
     <1>14, <1>15
  DEF Next, DeviceEvent

\* When the network is gone, a running process that the management thread
\* knows to be running has been, or is being, told to restart into a hold.
THEOREM StopNeverLost ==
    ASSUME BinderCalls = FALSE
    PROVE  Spec => []NoLostStop
<1>1. Init => SInv
  BY StopInit
<1>2. SInv /\ [Next]_vars => SInv'
  BY StopStep
<1>3. StopIn(toOvpn) => Queued("signal SIGUSR1", toOvpn)
  BY DEF StopIn, Queued
<1>4. SInv => NoLostStop
  BY <1>3 DEF SInv, StopInv, NoLostStop
<1> QED
  BY <1>1, <1>2, <1>4, PTL DEF Spec

=============================================================================
