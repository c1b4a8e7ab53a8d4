------------------------------ MODULE Session -------------------------------
(***************************************************************************)
(* Starting, replacing and stopping OpenVPN sessions.                      *)
(*                                                                         *)
(* Every start intent makes OpenVPNService spawn a thread that runs        *)
(* startOpenVPN: it stops the old process, opens the management socket and *)
(* starts two threads, OpenVpnManagementThread (reads the socket) and      *)
(* OpenVPNThread (runs the openvpn process and, when it ends, the clean-up *)
(* endVpnService).  The threads of one session share the service's fields  *)
(* with those of the sessions before and after it; only mProcessThread is  *)
(* protected, by mProcessLock.                                             *)
(*                                                                         *)
(* Session s is the s-th start intent of one service instance.  A thread   *)
(* is <<role, s>>; pc[t] is its position.  Delays (sleep) are not modelled *)
(* as time: another thread may or may not run meanwhile.                   *)
(***************************************************************************)
EXTENDS Naturals, Sequences, SequencesExt

CONSTANTS
    MaxSessions,   \* bound on start intents
    Settings       \* the circumstances a behaviour may have, records of
                   \*   overlap: a start may come while another is in startOpenVPN
                   \*   failures: writing the configuration or binding may fail
                   \*   revoke: another VPN app may take over (onRevoke)
                   \*   prompt: the sleep in forceStopOpenVpnProcess is long
                   \*     enough for the old thread to get as far as it can

ASSUME MaxSessionsAssumption == MaxSessions \in Nat
ASSUME SettingsAssumption ==
    Settings \subseteq [overlap : BOOLEAN, failures : BOOLEAN, revoke : BOOLEAN, prompt : BOOLEAN]

Sessions == 1..MaxSessions
None == 0
Main == <<"main", 0>>
Starter(s) == <<"start", s>>
Process(s) == <<"process", s>>
Mgmt(s) == <<"mgmt", s>>
Thread == {"start", "process", "mgmt"} \X Sessions \cup {Main}

VARIABLES
    setting,            \* the member of Settings this behaviour has
    pc,                 \* position of every thread
    started,            \* start intents so far
    mStarting,
    mManagement, mOpenVPNThread, mProcessThread, \* a session, or None
    mProcessLock,       \* the starter that sleeps in forceStopOpenVpnProcess
    receiver,           \* session whose management mDeviceStateReceiver has
    posted,             \* runnables that will register a receiver
    mNoProcessExitStatus, interrupted, \* per OpenVPNThread
    active,             \* OpenVpnManagementThread.active
    mSocket,            \* per management thread: "null", "open", "closed"
    mShuttingDown,      \* per management thread: state messages are ignored
    status,             \* VpnStatus.mLaststate
    service,            \* "up", "stopSelf", "destroyed"
    bound,              \* external: listener behind the socket's path
    proc, signalled,    \* external: the openvpn processes
    peer, unread        \* external: per management thread, its client and
                        \*   the state messages it has not read

serviceVars == <<setting, started, mStarting, mManagement, mOpenVPNThread, mProcessThread,
                 mProcessLock, receiver, posted, service>>
mgmtVars == <<active, mSocket, mShuttingDown>>
threadVars == <<mNoProcessExitStatus, interrupted>>
ovpnVars == <<bound, proc, signalled, peer, unread>>
vars == <<pc, serviceVars, mgmtVars, threadVars, status, ovpnVars>>

OrNone == Sessions \cup {None}
EndPcs == {"end", "unregister", "clearThread", "stopSelf"}
Pcs == {"none", "idle", "done", "config", "flag", "replace", "stopOld", "force",
        "forced", "clear", "open", "thread", "process", "post", "launch",
        "reading", "status", "stopped", "new", "accepting"} \cup EndPcs

\* Every field names a session or none, and every thread is somewhere in its code.
TypeOK ==
    /\ pc \in [Thread -> Pcs]
    /\ started \in 0..MaxSessions
    /\ mStarting \in BOOLEAN
    /\ {mManagement, mOpenVPNThread, mProcessThread, receiver, bound} \subseteq OrNone
    /\ mProcessLock \in OrNone
    /\ posted \in Nat
    /\ {mNoProcessExitStatus, interrupted, signalled, mShuttingDown} \subseteq [Sessions -> BOOLEAN]
    /\ active \in Seq(Sessions)
    /\ mSocket \in [Sessions -> {"null", "open", "closed"}]
    /\ status \in {"NOPROCESS", "VPN_GENERATE_CONFIG", "STATE", "EXITING"}
    /\ service \in {"up", "stopSelf", "destroyed"}
    /\ proc \in [Sessions -> {"none", "running", "connected", "exited"}]
    /\ peer \in [Sessions -> OrNone]
    /\ unread \in [Sessions -> Seq({"STATE", "EXITING"})]

Init ==
    /\ setting \in Settings
    /\ pc = [t \in Thread |-> IF t = Main THEN "idle" ELSE "none"]
    /\ started = 0
    /\ mStarting = FALSE
    /\ mManagement = None /\ mOpenVPNThread = None /\ mProcessThread = None
    /\ mProcessLock = None
    /\ receiver = None /\ posted = 0
    /\ mNoProcessExitStatus = [s \in Sessions |-> FALSE]
    /\ interrupted = [s \in Sessions |-> FALSE]
    /\ active = <<>>
    /\ mSocket = [s \in Sessions |-> "null"]
    /\ mShuttingDown = [s \in Sessions |-> FALSE]
    /\ status = "NOPROCESS"
    /\ service = "up"
    /\ bound = None
    /\ proc = [s \in Sessions |-> "none"]
    /\ signalled = [s \in Sessions |-> FALSE]
    /\ peer = [s \in Sessions |-> None]
    /\ unread = [s \in Sessions |-> <<>>]

Goto(t, l) == pc' = [pc EXCEPT ![t] = l]
At(t, l) == pc[t] = l
LockFree == mProcessLock = None

-----------------------------------------------------------------------------
(* stopOpenVPN: SIGINT to every client in active, then close its socket *)

Reached == {a \in ToSet(active) : mSocket[a] = "open" /\ proc[peer[a]] = "connected"}

\* what stopOpenVPN returns: the result of the last element's command
sendCMD == active # <<>> /\ Last(active) \in Reached

\* what the closed sockets had not delivered is lost
stopOpenVPN ==
    /\ signalled' = [q \in Sessions |-> signalled[q] \/ \E a \in Reached : peer[a] = q]
    /\ mSocket' = [a \in Sessions |->
                     IF a \in ToSet(active) /\ mSocket[a] = "open"
                     THEN "closed" ELSE mSocket[a]]
    /\ unread' = [a \in Sessions |-> IF a \in ToSet(active) THEN <<>> ELSE unread[a]]

\* OpenVPNManagement.stopVPN, always called on mManagement
managementStop ==
    /\ stopOpenVPN
    /\ mShuttingDown' = [mShuttingDown EXCEPT ![mManagement] = @ \/ sendCMD]

-----------------------------------------------------------------------------
(* endVpnService, by the process thread, a starter or the main thread *)

endVpnService(t) ==
    /\ At(t, "end") /\ LockFree
    /\ mProcessThread' = None
    /\ Goto(t, "unregister")
    /\ UNCHANGED <<setting, started, mStarting, mManagement, mOpenVPNThread, mProcessLock,
                   receiver, posted, service, mgmtVars, threadVars, status, ovpnVars>>

unregisterDeviceStateReceiver(t) ==
    /\ At(t, "unregister")
    /\ receiver' = None
    /\ Goto(t, "clearThread")
    /\ UNCHANGED <<setting, started, mStarting, mManagement, mOpenVPNThread, mProcessThread,
                   mProcessLock, posted, service, mgmtVars, threadVars, status,
                   ovpnVars>>

clearThread(t) ==
    /\ At(t, "clearThread")
    /\ mOpenVPNThread' = None
    /\ Goto(t, "stopSelf")
    /\ UNCHANGED <<setting, started, mStarting, mManagement, mProcessThread, mProcessLock,
                   receiver, posted, service, mgmtVars, threadVars, status, ovpnVars>>

stopSelf(t) ==
    /\ At(t, "stopSelf")
    /\ service' = IF ~mStarting /\ service = "up" THEN "stopSelf" ELSE service
    /\ Goto(t, IF t = Main THEN "idle" ELSE "done")
    /\ UNCHANGED <<setting, started, mStarting, mManagement, mOpenVPNThread, mProcessThread,
                   mProcessLock, receiver, posted, mgmtVars, threadVars, status,
                   ovpnVars>>

EndStep(t) ==
    endVpnService(t) \/ unregisterDeviceStateReceiver(t) \/ clearThread(t) \/ stopSelf(t)
-----------------------------------------------------------------------------
(* startOpenVPN, on a thread of its own *)

writeConfigFile(s) ==
    LET t == Starter(s)
    IN  /\ At(t, "config")
        /\ Goto(t, "flag") \/ (setting.failures /\ Goto(t, "end"))
        /\ UNCHANGED <<serviceVars, mgmtVars, threadVars, status, ovpnVars>>

setStarting(s) ==
    /\ At(Starter(s), "flag")
    /\ mStarting' = TRUE
    /\ Goto(Starter(s), "replace")
    /\ UNCHANGED <<setting, started, mManagement, mOpenVPNThread, mProcessThread,
                   mProcessLock, receiver, posted, service, mgmtVars, threadVars,
                   status, ovpnVars>>

\* stopOldOpenVPNProcess: setReplaceConnection on the old thread ...
setReplaceConnection(s) ==
    LET t == Starter(s)
    IN  /\ At(t, "replace")
        /\ IF mManagement = None
           THEN Goto(t, "force") /\ UNCHANGED mNoProcessExitStatus
           ELSE /\ mNoProcessExitStatus' =
                      [q \in Sessions |-> mNoProcessExitStatus[q] \/ q = mOpenVPNThread]
                /\ Goto(t, "stopOld")
        /\ UNCHANGED <<serviceVars, mgmtVars, interrupted, status, ovpnVars>>

\* ... then stopVPN(true); a second's sleep follows when it returned true
stopOldOpenVPNProcess(s) ==
    /\ At(Starter(s), "stopOld")
    /\ managementStop
    /\ Goto(Starter(s), "force")
    /\ UNCHANGED <<serviceVars, active, threadVars, status, bound, proc, peer>>

\* Mutant: the old thread is not interrupted
forceStop_Skipped(s) ==
    /\ At(Starter(s), "force") /\ LockFree
    /\ Goto(Starter(s), "clear")
    /\ UNCHANGED <<serviceVars, mgmtVars, threadVars, status, ovpnVars>>

\* interrupt the old thread and sleep while holding the lock
forceStopOpenVpnProcess(s) ==
    LET t == Starter(s)
    IN  /\ At(t, "force") /\ LockFree
        /\ IF mProcessThread = None
           THEN Goto(t, "clear") /\ UNCHANGED <<interrupted, mProcessLock>>
           ELSE /\ interrupted' = [interrupted EXCEPT ![mProcessThread] = TRUE]
                /\ mProcessLock' = s
                /\ Goto(t, "forced")
        /\ UNCHANGED <<setting, started, mStarting, mManagement, mOpenVPNThread,
                       mProcessThread, receiver, posted, service, mgmtVars,
                       mNoProcessExitStatus, status, ovpnVars>>

forceStopReturns(s) ==
    /\ At(Starter(s), "forced")
    /\ setting.prompt => pc[Process(mProcessThread)] \in {"end", "done"}
    /\ mProcessLock' = None
    /\ Goto(Starter(s), "clear")
    /\ UNCHANGED <<setting, started, mStarting, mManagement, mOpenVPNThread, mProcessThread,
                   receiver, posted, service, mgmtVars, threadVars, status, ovpnVars>>

\* Mutant: mStarting stays up
clearStarting_Forgotten(s) ==
    /\ At(Starter(s), "clear")
    /\ Goto(Starter(s), "open")
    /\ UNCHANGED <<serviceVars, mgmtVars, threadVars, status, ovpnVars>>

clearStarting(s) ==
    /\ At(Starter(s), "clear")
    /\ mStarting' = FALSE
    /\ Goto(Starter(s), "open")
    /\ UNCHANGED <<setting, started, mManagement, mOpenVPNThread, mProcessThread,
                   mProcessLock, receiver, posted, service, mgmtVars, threadVars,
                   status, ovpnVars>>

\* every session binds the same path; the last one gets the connections
openManagementInterface(s) ==
    LET t == Starter(s)
    IN  /\ At(t, "open")
        /\ \/ /\ pc' = [pc EXCEPT ![t] = "thread", ![Mgmt(s)] = "new"]
              /\ mManagement' = s
              /\ bound' = s
           \/ setting.failures /\ Goto(t, "end") /\ UNCHANGED <<mManagement, bound>>
        /\ UNCHANGED <<setting, started, mStarting, mOpenVPNThread, mProcessThread,
                       mProcessLock, receiver, posted, service, mgmtVars,
                       threadVars, status, proc, signalled, peer, unread>>

newOpenVPNThread(s) ==
    /\ At(Starter(s), "thread")
    /\ mOpenVPNThread' = s
    /\ Goto(Starter(s), "process")
    /\ UNCHANGED <<setting, started, mStarting, mManagement, mProcessThread, mProcessLock,
                   receiver, posted, service, mgmtVars, threadVars, status, ovpnVars>>

startProcessThread(s) ==
    /\ At(Starter(s), "process") /\ LockFree
    /\ mProcessThread' = s
    /\ pc' = [pc EXCEPT ![Starter(s)] = "post", ![Process(s)] = "launch"]
    /\ UNCHANGED <<setting, started, mStarting, mManagement, mOpenVPNThread, mProcessLock,
                   receiver, posted, service, mgmtVars, threadVars, status, ovpnVars>>

postRegister(s) ==
    /\ At(Starter(s), "post")
    /\ posted' = posted + 1
    /\ Goto(Starter(s), "done")
    /\ UNCHANGED <<setting, started, mStarting, mManagement, mOpenVPNThread, mProcessThread,
                   mProcessLock, receiver, service, mgmtVars, threadVars, status,
                   ovpnVars>>

startOpenVPN(s) ==
    \/ writeConfigFile(s) \/ setStarting(s) \/ setReplaceConnection(s)
    \/ stopOldOpenVPNProcess(s) \/ forceStopOpenVpnProcess(s) \/ forceStopReturns(s)
    \/ clearStarting(s) \/ openManagementInterface(s) \/ newOpenVPNThread(s)
    \/ startProcessThread(s) \/ postRegister(s) \/ EndStep(Starter(s))
-----------------------------------------------------------------------------
(* OpenVPNThread.run *)

startOpenVPNThreadArgs(s) ==
    /\ At(Process(s), "launch")
    /\ \/ proc' = [proc EXCEPT ![s] = "running"] /\ Goto(Process(s), "reading")
       \/ setting.failures /\ Goto(Process(s), "status") /\ UNCHANGED proc
    /\ UNCHANGED <<serviceVars, mgmtVars, threadVars, status, bound, signalled,
                   peer, unread>>

\* the interrupt is noticed at the next log line and destroys the process
readLogLine(s) ==
    /\ At(Process(s), "reading")
    /\ interrupted[s] /\ proc[s] \in {"running", "connected"}
    /\ interrupted' = [interrupted EXCEPT ![s] = FALSE]
    /\ proc' = [proc EXCEPT ![s] = "exited"]
    /\ Goto(Process(s), "status")
    /\ UNCHANGED <<serviceVars, mgmtVars, mNoProcessExitStatus, status, bound,
                   signalled, peer, unread>>

readLogEnd(s) ==
    /\ At(Process(s), "reading") /\ proc[s] = "exited"
    /\ Goto(Process(s), "status")
    /\ UNCHANGED <<serviceVars, mgmtVars, threadVars, status, ovpnVars>>

updateNoProcess(s) ==
    /\ At(Process(s), "status")
    /\ status' = IF mNoProcessExitStatus[s] THEN status ELSE "NOPROCESS"
    /\ Goto(Process(s), "stopped")
    /\ UNCHANGED <<serviceVars, mgmtVars, threadVars, ovpnVars>>

\* the flag is read a second time
openvpnStopped(s) ==
    /\ At(Process(s), "stopped")
    /\ Goto(Process(s), IF mNoProcessExitStatus[s] THEN "done" ELSE "end")
    /\ UNCHANGED <<serviceVars, mgmtVars, threadVars, status, ovpnVars>>

ProcessThread(s) ==
    \/ startOpenVPNThreadArgs(s) \/ readLogLine(s) \/ readLogEnd(s)
    \/ updateNoProcess(s) \/ openvpnStopped(s) \/ EndStep(Process(s))

-----------------------------------------------------------------------------
(* OpenVpnManagementThread.run *)

\* Mutant: active holds the newest thread only
addActive_Newest(s) ==
    /\ At(Mgmt(s), "new")
    /\ active' = <<s>>
    /\ Goto(Mgmt(s), "accepting")
    /\ UNCHANGED <<serviceVars, mSocket, mShuttingDown, threadVars, status, ovpnVars>>

addActive(s) ==
    /\ At(Mgmt(s), "new")
    /\ active' = Append(active, s)
    /\ Goto(Mgmt(s), "accepting")
    /\ UNCHANGED <<serviceVars, mSocket, mShuttingDown, threadVars, status, ovpnVars>>

\* processState, one message
processState(s) ==
    /\ At(Mgmt(s), "reading") /\ mSocket[s] = "open" /\ unread[s] # <<>>
    /\ status' = IF mShuttingDown[s] THEN status ELSE Head(unread[s])
    /\ unread' = [unread EXCEPT ![s] = Tail(@)]
    /\ UNCHANGED <<pc, serviceVars, mgmtVars, threadVars, bound, proc, signalled, peer>>

\* end of stream: run returns without removing itself from active
readEnd(s) ==
    /\ At(Mgmt(s), "reading") /\ mSocket[s] = "open" /\ unread[s] = <<>>
    /\ proc[peer[s]] = "exited"
    /\ Goto(Mgmt(s), "done")
    /\ UNCHANGED <<serviceVars, mgmtVars, threadVars, status, ovpnVars>>

\* the socket was closed by stopOpenVPN: read fails
removeActive(s) ==
    /\ At(Mgmt(s), "reading") /\ mSocket[s] = "closed"
    /\ active' = RemoveFirst(active, s)
    /\ Goto(Mgmt(s), "done")
    /\ UNCHANGED <<serviceVars, mSocket, mShuttingDown, threadVars, status, ovpnVars>>

MgmtThread(s) == addActive(s) \/ processState(s) \/ readEnd(s) \/ removeActive(s)

-----------------------------------------------------------------------------
(* The main thread and binder calls *)

Starting == \E s \in Sessions : pc[Starter(s)] \notin {"none", "done"}

onStartCommand ==
    /\ At(Main, "idle") /\ service = "up" /\ started < MaxSessions
    /\ setting.overlap \/ ~Starting
    /\ started' = started + 1
    /\ status' = "VPN_GENERATE_CONFIG"
    /\ Goto(Starter(started + 1), "config")
    /\ UNCHANGED <<setting, mStarting, mManagement, mOpenVPNThread, mProcessThread,
                   mProcessLock, receiver, posted, service, mgmtVars, threadVars,
                   ovpnVars>>

\* Mutant: runs without having been posted
register_Unposted ==
    /\ At(Main, "idle") /\ mManagement # None
    /\ posted' = posted - 1
    /\ receiver' = mManagement
    /\ UNCHANGED <<pc, setting, started, mStarting, mManagement, mOpenVPNThread,
                   mProcessThread, mProcessLock, service, mgmtVars, threadVars,
                   status, ovpnVars>>

registerDeviceStateReceiver ==
    /\ At(Main, "idle") /\ posted > 0
    /\ posted' = posted - 1
    /\ receiver' = mManagement
    /\ UNCHANGED <<pc, setting, started, mStarting, mManagement, mOpenVPNThread,
                   mProcessThread, mProcessLock, service, mgmtVars, threadVars,
                   status, ovpnVars>>

\* stopVPN of the binder interface, when there is a management object
stopVPN ==
    /\ mManagement # None /\ service = "up"
    /\ managementStop
    /\ UNCHANGED <<pc, serviceVars, active, threadVars, status, bound, proc, peer>>

\* another application takes over while a process has the interface
onRevoke ==
    /\ setting.revoke /\ At(Main, "idle") /\ mManagement # None /\ service = "up"
    /\ \E q \in Sessions : proc[q] = "connected"
    /\ managementStop
    /\ Goto(Main, "end")
    /\ UNCHANGED <<serviceVars, active, threadVars, status, bound, proc, peer>>

onDestroy ==
    /\ At(Main, "idle") /\ service = "stopSelf" /\ LockFree
    /\ service' = "destroyed"
    /\ receiver' = None
    /\ IF mProcessThread # None THEN managementStop
                                ELSE UNCHANGED <<mSocket, mShuttingDown, signalled, unread>>
    /\ UNCHANGED <<pc, setting, started, mStarting, mManagement, mOpenVPNThread,
                   mProcessThread, mProcessLock, posted, active, threadVars, status,
                   bound, proc, peer>>

-----------------------------------------------------------------------------
(* The openvpn process (external) *)

\* it connects to whoever listens on the path, or gives up
ovpnConnect(q) ==
    /\ proc[q] = "running"
    /\ IF bound = None
       THEN /\ proc' = [proc EXCEPT ![q] = "exited"]
            /\ UNCHANGED <<pc, mSocket, peer, bound>>
       ELSE /\ At(Mgmt(bound), "accepting")
            /\ proc' = [proc EXCEPT ![q] = "connected"]
            /\ mSocket' = [mSocket EXCEPT ![bound] = "open"]
            /\ peer' = [peer EXCEPT ![bound] = q]
            /\ Goto(Mgmt(bound), "reading")
            /\ bound' = None
    /\ UNCHANGED <<serviceVars, active, mShuttingDown, threadVars, status, signalled, unread>>

\* messages of q go to the management thread it is connected to
Tell(q, msg) ==
    unread' = [a \in Sessions |-> IF peer[a] = q /\ mSocket[a] = "open"
                                  THEN Append(unread[a], msg) ELSE unread[a]]

ovpnState(q) ==
    /\ proc[q] = "connected"
    /\ \A a \in Sessions : peer[a] = q => unread[a] = <<>>
    /\ Tell(q, "STATE")
    /\ UNCHANGED <<pc, serviceVars, mgmtVars, threadVars, status, bound, proc,
                   signalled, peer>>

\* it exits on SIGINT or because of an error, and says so
ovpnExit(q) ==
    /\ proc[q] = "connected"
    /\ proc' = [proc EXCEPT ![q] = "exited"]
    /\ Tell(q, "EXITING")
    /\ UNCHANGED <<pc, serviceVars, mgmtVars, threadVars, status, bound, signalled, peer>>

ovpnSignalled(q) == signalled[q] /\ ovpnExit(q)

-----------------------------------------------------------------------------
Next ==
    \/ onStartCommand \/ registerDeviceStateReceiver \/ stopVPN \/ onRevoke
    \/ onDestroy \/ EndStep(Main)
    \/ \E s \in Sessions :
          \/ startOpenVPN(s) \/ ProcessThread(s) \/ MgmtThread(s)
          \/ ovpnConnect(s) \/ ovpnState(s) \/ ovpnExit(s)

\* Threads run, the looper handles its queue, a process connects, logs and
\* obeys SIGINT; starts, stops, revocations and errors are not fair.
Fairness ==
    /\ WF_vars(registerDeviceStateReceiver) /\ WF_vars(onDestroy) /\ WF_vars(EndStep(Main))
    /\ \A s \in Sessions :
         /\ WF_vars(startOpenVPN(s)) /\ WF_vars(ProcessThread(s)) /\ WF_vars(MgmtThread(s))
         /\ WF_vars(ovpnConnect(s)) /\ WF_vars(ovpnSignalled(s))

Spec == Init /\ [][Next]_vars
FairSpec == Spec /\ Fairness

-----------------------------------------------------------------------------
(* Properties *)

\* Every process that is connected and has not been told to stop is reached
\* by stopOpenVPN, even one that a later session has replaced in the fields.
StopReaches ==
    \A q \in Sessions :
        proc[q] = "connected" /\ ~signalled[q] => \E a \in Reached : peer[a] = q

Alive(q) == proc[q] \in {"running", "connected"}

Quiet ==
    ~Starting /\ \A q \in Sessions : ~Alive(q) /\ pc[Process(q)] \in {"none", "done"}

\* A service whose sessions are all over stops itself: whatever the order of
\* the clean-ups, one of them finds mStarting down.
ServiceEnds == <>[](started > 0 /\ Quiet) => <>(service = "destroyed")

OlderEnded(s) == \A q \in Sessions : q < s => ~Alive(q)

\* A session that gets its process thread leaves no older process running
\* for ever.
OldSessionEnds ==
    []<>(\A s \in Sessions : pc[Process(s)] # "none" => OlderEnded(s))
=============================================================================
