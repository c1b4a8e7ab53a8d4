--------------------------- MODULE SessionProofs ----------------------------
(***************************************************************************)
(* Proofs about Session, for any number of start intents and any settings. *)
(***************************************************************************)
EXTENDS Session, SequenceTheorems, WellFoundedInduction, TLAPS

\* Every non-empty set of naturals has a least element.
LEMMA NatMin ==
    ASSUME NEW T, T \subseteq Nat, T # {}
    PROVE  \E x \in T : \A y \in T : x <= y
<1> DEFINE R == {p \in Nat \X Nat : p[1] < p[2]}
<1>1. IsWellFoundedOn(R, Nat)
  BY NatLessThanWellFounded DEF OpToRel
<1> HIDE DEF R
<1>2. PICK x \in T : \A y \in T : ~(<<y, x>> \in R)
  BY <1>1, WFMin
<1>3. \A y \in T : ~(y < x)
  BY <1>2 DEF R
<1> QED
  BY <1>3

\* RemoveFirst leaves a sequence, and of the elements at most e goes.
LEMMA RemoveFirstKeeps ==
    ASSUME NEW S, NEW seq \in Seq(S), NEW e
    PROVE  /\ RemoveFirst(seq, e) \in Seq(S)
           /\ \A a \in ToSet(seq) : a # e => a \in ToSet(RemoveFirst(seq, e))
<1>1. CASE ~\E i \in 1..Len(seq) : seq[i] = e
  BY <1>1 DEF RemoveFirst
<1>2. CASE \E i \in 1..Len(seq) : seq[i] = e
  <2> DEFINE I == {i \in 1..Len(seq) : seq[i] = e}
             k == Min(I)
             r == RemoveAt(seq, k)
  <2>1. RemoveFirst(seq, e) = r
    BY <1>2 DEF RemoveFirst, SelectInSeq
  <2>2. k \in 1..Len(seq) /\ seq[k] = e
    <3>1. I \subseteq Nat /\ I # {}
      BY <1>2
    <3>2. \E x \in I : \A y \in I : x <= y
      <4> HIDE DEF I
      <4> QED
        BY <3>1, NatMin
    <3> QED
      BY <3>2 DEF Min
  <2> HIDE DEF k
  <2>3. /\ r \in Seq(S) /\ Len(r) = Len(seq) - 1
        /\ \A i \in 1..Len(seq) : i < k => r[i] = seq[i]
        /\ \A i \in 1..Len(seq) : i > k => r[i - 1] = seq[i]
    <3> DEFINE u == SubSeq(seq, 1, k - 1)
               v == SubSeq(seq, k + 1, Len(seq))
    <3>1. /\ u \in Seq(S) /\ Len(u) = k - 1
          /\ \A i \in 1..(k - 1) : u[i] = seq[i]
      BY <2>2
    <3>2. /\ v \in Seq(S) /\ Len(v) = Len(seq) - k
          /\ \A i \in 1..(Len(seq) - k) : v[i] = seq[k + i]
      BY <2>2
    <3>3. r = u \o v
      BY DEF RemoveAt
    <3> HIDE DEF u, v, r
    <3>4. r \in Seq(S) /\ Len(r) = Len(seq) - 1
      <4>1. u \o v \in Seq(S) /\ Len(u \o v) = Len(u) + Len(v)
        BY <3>1, <3>2, ConcatProperties
      <4> QED
        BY <2>2, <3>1, <3>2, <3>3, <4>1
    <3>5. \A i \in 1..Len(seq) : i < k => r[i] = seq[i]
      BY <2>2, <3>1, <3>2, <3>3
    <3>6. ASSUME NEW i \in 1..Len(seq), i > k PROVE r[i - 1] = seq[i]
      <4>1. r[i - 1] = v[i - 1 - Len(u)]
        BY <2>2, <3>1, <3>2, <3>3, <3>6
      <4>2. v[i - k] = seq[k + (i - k)]
        BY <2>2, <3>2, <3>6
      <4> QED
        BY <2>2, <3>1, <4>1, <4>2
    <3> QED
      BY <3>4, <3>5, <3>6
  <2>4. ASSUME NEW a \in ToSet(seq), a # e PROVE a \in ToSet(r)
    <3>1. PICK i \in 1..Len(seq) : a = seq[i]
      BY DEF ToSet
    <3>2. i # k
      BY <2>2, <2>4, <3>1
    <3>3. \E j \in 1..Len(r) : a = r[j]
      BY <2>2, <2>3, <3>1, <3>2
    <3> QED
      BY <2>3, <3>3 DEF ToSet
  <2> QED
    BY <2>1, <2>3, <2>4
<1> QED
  BY <1>1, <1>2

-----------------------------------------------------------------------------
(* Type correctness *)

\* A thread's next position is a position.
LEMMA GotoType ==
    ASSUME TypeOK, NEW t, NEW l \in Pcs, Goto(t, l)
    PROVE  pc' \in [Thread -> Pcs]
  BY DEF Goto, TypeOK

\* stopOpenVPN leaves sockets, signals and buffers of the right kind.
LEMMA StopType ==
    ASSUME TypeOK, managementStop
    PROVE  /\ mShuttingDown' \in [Sessions -> BOOLEAN]
           /\ signalled' \in [Sessions -> BOOLEAN]
           /\ mSocket' \in [Sessions -> {"null", "open", "closed"}]
           /\ unread' \in [Sessions -> Seq({"STATE", "EXITING"})]
<1>1. signalled' \in [Sessions -> BOOLEAN]
  BY DEF managementStop, stopOpenVPN, TypeOK
<1>2. mSocket' \in [Sessions -> {"null", "open", "closed"}]
  BY DEF managementStop, stopOpenVPN, TypeOK
<1>3. unread' \in [Sessions -> Seq({"STATE", "EXITING"})]
  BY DEF managementStop, stopOpenVPN, TypeOK
<1>4. mShuttingDown' \in [Sessions -> BOOLEAN]
  <2>1. sendCMD \in BOOLEAN
    BY DEF sendCMD
  <2> QED
    BY <2>1 DEF managementStop, TypeOK
<1> QED
  BY <1>1, <1>2, <1>3, <1>4

\* The clean-up keeps the types.
LEMMA EndType ==
    ASSUME TypeOK, NEW t, EndStep(t)
    PROVE  TypeOK'
<1> USE DEF Pcs, EndPcs, OrNone
<1>1. CASE endVpnService(t)
  BY <1>1, GotoType DEF endVpnService, TypeOK, serviceVars, mgmtVars, threadVars, ovpnVars
<1>2. CASE unregisterDeviceStateReceiver(t)
  BY <1>2, GotoType DEF unregisterDeviceStateReceiver, TypeOK, serviceVars, mgmtVars, threadVars, ovpnVars
<1>3. CASE clearThread(t)
  BY <1>3, GotoType DEF clearThread, TypeOK, serviceVars, mgmtVars, threadVars, ovpnVars
<1>4. CASE stopSelf(t)
  BY <1>4, GotoType DEF stopSelf, TypeOK, serviceVars, mgmtVars, threadVars, ovpnVars
<1> QED
  BY <1>1, <1>2, <1>3, <1>4 DEF EndStep

\* A starter keeps the types.
LEMMA StartType ==
    ASSUME TypeOK, NEW s \in Sessions, startOpenVPN(s)
    PROVE  TypeOK'
<1> USE DEF Pcs, EndPcs, OrNone
<1>1. CASE writeConfigFile(s)
  BY <1>1, GotoType DEF writeConfigFile, TypeOK, serviceVars, mgmtVars, threadVars, ovpnVars
<1>2. CASE setStarting(s)
  BY <1>2, GotoType DEF setStarting, TypeOK, serviceVars, mgmtVars, threadVars, ovpnVars
<1>3. CASE setReplaceConnection(s)
  <2>1. pc' \in [Thread -> Pcs]
    BY <1>3, GotoType DEF setReplaceConnection
  <2>2. mNoProcessExitStatus' \in [Sessions -> BOOLEAN]
    BY <1>3 DEF setReplaceConnection, TypeOK
  <2> QED
    BY <1>3, <2>1, <2>2 DEF setReplaceConnection, TypeOK, serviceVars, mgmtVars, threadVars, ovpnVars
<1>4. CASE stopOldOpenVPNProcess(s)
  BY <1>4, GotoType, StopType DEF stopOldOpenVPNProcess, TypeOK, serviceVars, mgmtVars, threadVars, ovpnVars
<1>5. CASE forceStopOpenVpnProcess(s)
  <2>1. pc' \in [Thread -> Pcs]
    BY <1>5, GotoType DEF forceStopOpenVpnProcess
  <2>2. interrupted' \in [Sessions -> BOOLEAN] /\ mProcessLock' \in OrNone
    BY <1>5 DEF forceStopOpenVpnProcess, TypeOK
  <2> QED
    BY <1>5, <2>1, <2>2 DEF forceStopOpenVpnProcess, TypeOK, serviceVars, mgmtVars, threadVars, ovpnVars
<1>6. CASE forceStopReturns(s)
  BY <1>6, GotoType DEF forceStopReturns, TypeOK, serviceVars, mgmtVars, threadVars, ovpnVars
<1>7. CASE clearStarting(s)
  BY <1>7, GotoType DEF clearStarting, TypeOK, serviceVars, mgmtVars, threadVars, ovpnVars
<1>8. CASE openManagementInterface(s)
  <2>1. pc' \in [Thread -> Pcs]
    BY <1>8, GotoType DEF openManagementInterface, TypeOK
  <2>2. mManagement' \in OrNone /\ bound' \in OrNone
    BY <1>8 DEF openManagementInterface, TypeOK
  <2> QED
    BY <1>8, <2>1, <2>2 DEF openManagementInterface, TypeOK, serviceVars, mgmtVars, threadVars, ovpnVars
<1>9. CASE newOpenVPNThread(s)
  BY <1>9, GotoType DEF newOpenVPNThread, TypeOK, serviceVars, mgmtVars, threadVars, ovpnVars
<1>10. CASE startProcessThread(s)
  <2>1. pc' \in [Thread -> Pcs]
    <3>1. pc' = [pc EXCEPT ![Starter(s)] = "post", ![Process(s)] = "launch"] /\ pc \in [Thread -> Pcs]
      BY <1>10 DEF startProcessThread, TypeOK
    <3>2. "post" \in Pcs /\ "launch" \in Pcs
      OBVIOUS
    <3> HIDE DEF Pcs
    <3> QED
      BY <3>1, <3>2
  <2>2. mProcessThread' \in OrNone
    BY <1>10 DEF startProcessThread
  <2> HIDE DEF Pcs
  <2> QED
    BY <1>10, <2>1, <2>2, ZenonT(60) DEF startProcessThread, TypeOK, serviceVars, mgmtVars, threadVars, ovpnVars
<1>11. CASE postRegister(s)
  BY <1>11, GotoType DEF postRegister, TypeOK, serviceVars, mgmtVars, threadVars, ovpnVars
<1>12. CASE EndStep(Starter(s))
  BY <1>12, EndType DEF Starter, TypeOK, serviceVars, mgmtVars, threadVars, ovpnVars
<1> QED
  BY <1>1, <1>2, <1>3, <1>4, <1>5, <1>6, <1>7, <1>8, <1>9, <1>10, <1>11, <1>12 DEF startOpenVPN

\* A process thread keeps the types.
LEMMA ProcessType ==
    ASSUME TypeOK, NEW s \in Sessions, ProcessThread(s)
    PROVE  TypeOK'
<1> USE DEF Pcs, EndPcs, OrNone
<1>1. CASE startOpenVPNThreadArgs(s)
  BY <1>1, GotoType DEF startOpenVPNThreadArgs, TypeOK, serviceVars, mgmtVars, threadVars, ovpnVars
<1>2. CASE readLogLine(s)
  BY <1>2, GotoType DEF readLogLine, TypeOK, serviceVars, mgmtVars, threadVars, ovpnVars
<1>3. CASE readLogEnd(s)
  BY <1>3, GotoType DEF readLogEnd, TypeOK, serviceVars, mgmtVars, threadVars, ovpnVars
<1>4. CASE updateNoProcess(s)
  BY <1>4, GotoType DEF updateNoProcess, TypeOK, serviceVars, mgmtVars, threadVars, ovpnVars
<1>5. CASE openvpnStopped(s)
  BY <1>5, GotoType DEF openvpnStopped, TypeOK, serviceVars, mgmtVars, threadVars, ovpnVars
<1>6. CASE EndStep(Process(s))
  BY <1>6, EndType DEF Process, TypeOK, serviceVars, mgmtVars, threadVars, ovpnVars
<1> QED
  BY <1>1, <1>2, <1>3, <1>4, <1>5, <1>6 DEF ProcessThread

\* A management thread keeps the types.
LEMMA MgmtType ==
    ASSUME TypeOK, NEW s \in Sessions, MgmtThread(s)
    PROVE  TypeOK'
<1> USE DEF Pcs, EndPcs, OrNone
<1>1. CASE addActive(s)
  BY <1>1, GotoType DEF addActive, TypeOK, serviceVars, mgmtVars, threadVars, ovpnVars
<1>2. CASE processState(s)
  BY <1>2 DEF processState, TypeOK, serviceVars, mgmtVars, threadVars, ovpnVars
<1>3. CASE readEnd(s)
  BY <1>3, GotoType DEF readEnd, TypeOK, serviceVars, mgmtVars, threadVars, ovpnVars
<1>4. CASE removeActive(s)
  BY <1>4, GotoType, RemoveFirstKeeps DEF removeActive, TypeOK, serviceVars, mgmtVars, threadVars, ovpnVars
<1> QED
  BY <1>1, <1>2, <1>3, <1>4 DEF MgmtThread

\* An openvpn process keeps the types.
LEMMA OvpnType ==
    ASSUME TypeOK, NEW s \in Sessions, ovpnConnect(s) \/ ovpnState(s) \/ ovpnExit(s)
    PROVE  TypeOK'
<1> USE DEF Pcs, EndPcs, OrNone
<1>1. CASE ovpnConnect(s)
  <2>1. pc' \in [Thread -> Pcs]
    BY <1>1, GotoType DEF ovpnConnect, TypeOK
  <2>2. proc' \in [Sessions -> {"none", "running", "connected", "exited"}]
    BY <1>1, ZenonT(60) DEF ovpnConnect, TypeOK
  <2>3. mSocket' \in [Sessions -> {"null", "open", "closed"}] /\ peer' \in [Sessions -> OrNone]
    BY <1>1, ZenonT(60) DEF ovpnConnect, TypeOK
  <2>4. bound' \in OrNone
    BY <1>1 DEF ovpnConnect, TypeOK
  <2>5. UNCHANGED <<serviceVars, active, mShuttingDown, threadVars, status, signalled, unread>>
    BY <1>1 DEF ovpnConnect
  <2> HIDE DEF Pcs
  <2> QED
    BY <2>1, <2>2, <2>3, <2>4, <2>5 DEF TypeOK, serviceVars, threadVars
<1>2. CASE ovpnState(s)
  BY <1>2 DEF ovpnState, Tell, TypeOK, serviceVars, mgmtVars, threadVars, ovpnVars
<1>3. CASE ovpnExit(s)
  BY <1>3 DEF ovpnExit, Tell, TypeOK, serviceVars, mgmtVars, threadVars, ovpnVars
<1> QED
  BY <1>1, <1>2, <1>3 DEF ovpnConnect

\* The main thread and the binder calls keep the types.
LEMMA MainType ==
    ASSUME TypeOK, onStartCommand \/ registerDeviceStateReceiver \/ stopVPN \/ onRevoke \/ onDestroy
    PROVE  TypeOK'
<1> USE DEF Pcs, EndPcs, OrNone
<1>1. CASE onStartCommand
  BY <1>1, GotoType, MaxSessionsAssumption DEF onStartCommand, TypeOK, serviceVars, mgmtVars, threadVars, ovpnVars
<1>2. CASE registerDeviceStateReceiver
  BY <1>2 DEF registerDeviceStateReceiver, TypeOK, serviceVars, mgmtVars, threadVars, ovpnVars
<1>3. CASE stopVPN
  BY <1>3, StopType DEF stopVPN, TypeOK, serviceVars, mgmtVars, threadVars, ovpnVars
<1>4. CASE onRevoke
  BY <1>4, GotoType, StopType DEF onRevoke, TypeOK, serviceVars, mgmtVars, threadVars, ovpnVars
<1>5. CASE onDestroy
  <2>1. /\ mShuttingDown' \in [Sessions -> BOOLEAN] /\ signalled' \in [Sessions -> BOOLEAN]
        /\ mSocket' \in [Sessions -> {"null", "open", "closed"}]
        /\ unread' \in [Sessions -> Seq({"STATE", "EXITING"})]
    <3>1. CASE managementStop
      BY <3>1, StopType
    <3>2. CASE UNCHANGED <<mSocket, mShuttingDown, signalled, unread>>
      BY <3>2 DEF TypeOK
    <3> QED
      BY <1>5, <3>1, <3>2 DEF onDestroy
  <2>2. /\ service' = "destroyed" /\ receiver' = None
        /\ UNCHANGED <<pc, started, mStarting, mManagement, mOpenVPNThread, mProcessThread,
                       mProcessLock, posted, active, mNoProcessExitStatus, interrupted, status,
                       bound, proc, peer>>
    BY <1>5 DEF onDestroy, threadVars
  <2> QED
    BY <2>1, <2>2, SMTT(30) DEF TypeOK
<1> QED
  BY <1>1, <1>2, <1>3, <1>4, <1>5 DEF onDestroy

\* Every step keeps the types.
LEMMA TypeStep ==
    ASSUME TypeOK, [Next]_vars
    PROVE  TypeOK'
<1>1. CASE UNCHANGED vars
  BY <1>1 DEF vars, serviceVars, mgmtVars, threadVars, ovpnVars, TypeOK
<1> QED
  BY <1>1, MainType, EndType, StartType, ProcessType, MgmtType, OvpnType DEF Next

\* The fields are well typed in the beginning.
LEMMA TypeInit == Init => TypeOK
<1> SUFFICES ASSUME Init PROVE TypeOK
  OBVIOUS
<1>1. pc \in [Thread -> Pcs]
  BY DEF Init, Pcs
<1>2. started \in 0..MaxSessions
  BY MaxSessionsAssumption DEF Init
<1>3. {mManagement, mOpenVPNThread, mProcessThread, receiver, bound, mProcessLock} \subseteq OrNone
  BY DEF Init, OrNone
<1>4. {mNoProcessExitStatus, interrupted, signalled, mShuttingDown} \subseteq [Sessions -> BOOLEAN]
  BY DEF Init
<1>5. /\ active \in Seq(Sessions)
      /\ mSocket \in [Sessions -> {"null", "open", "closed"}]
      /\ proc \in [Sessions -> {"none", "running", "connected", "exited"}]
      /\ peer \in [Sessions -> OrNone]
      /\ unread \in [Sessions -> Seq({"STATE", "EXITING"})]
  BY DEF Init, OrNone
<1>6. posted \in Nat /\ mStarting \in BOOLEAN /\ status = "NOPROCESS" /\ service = "up"
  BY DEF Init
<1> QED
  BY <1>1, <1>2, <1>3, <1>4, <1>5, <1>6 DEF TypeOK

\* Every field names a session or none, and every thread is somewhere in its
\* code, for any number of sessions.
THEOREM TypeCorrect == Spec => []TypeOK
<1>1. TypeOK /\ [Next]_vars => TypeOK'
  BY TypeStep
<1> QED
  BY TypeInit, <1>1, PTL DEF Spec

-----------------------------------------------------------------------------
(* Every connected process is within reach of a stop *)

BeforeOpen == {"none", "config", "flag", "replace", "stopOld", "force", "forced", "clear", "open"}

\* A session has a management thread only after its starter has opened the
\* management interface, and a starter only after its start intent.
Sequenced ==
    \A a \in Sessions :
        /\ a > started => pc[Starter(a)] = "none"
        /\ pc[Starter(a)] \in BeforeOpen => pc[Mgmt(a)] = "none"

\* Until it has accepted a connection a management thread has no socket, and
\* while it waits for one it is in active.
Accepting ==
    \A a \in Sessions :
        /\ pc[Mgmt(a)] \in {"none", "new", "accepting"} => mSocket[a] = "null"
        /\ pc[Mgmt(a)] = "accepting" => a \in ToSet(active)

\* A connected process that has not been told to stop talks to a thread that
\* is in active and whose socket is open.
Within ==
    \A q \in Sessions :
        proc[q] = "connected" /\ ~signalled[q] =>
            \E a \in Sessions : a \in ToSet(active) /\ mSocket[a] = "open" /\ peer[a] = q

IInv == TypeOK /\ Sequenced /\ Accepting /\ Within

\* A thread other than a management thread goes on.
LEMMA OthersMove ==
    ASSUME IInv, NEW t, NEW l, Goto(t, l), pc[t] # "none", started' = started,
           \A a \in Sessions : t # Mgmt(a),
           l \in BeforeOpen => pc[t] \in BeforeOpen
    PROVE  /\ Sequenced'
           /\ \A a \in Sessions : pc'[Mgmt(a)] = pc[Mgmt(a)]
<1>1. ASSUME NEW a \in Sessions PROVE pc'[Mgmt(a)] = pc[Mgmt(a)]
  BY DEF Goto, IInv, TypeOK, Mgmt, Thread
<1>2. ASSUME NEW a \in Sessions, a > started' PROVE pc'[Starter(a)] = "none"
  BY <1>2 DEF Goto, IInv, TypeOK, Sequenced, Starter, Thread
<1>3. ASSUME NEW a \in Sessions, pc'[Starter(a)] \in BeforeOpen PROVE pc'[Mgmt(a)] = "none"
  <2>1. pc[Starter(a)] \in BeforeOpen
    BY <1>3 DEF Goto, IInv, TypeOK, Starter, Thread
  <2> QED
    BY <1>1, <2>1 DEF IInv, Sequenced
<1> QED
  BY <1>1, <1>2, <1>3 DEF Sequenced

\* Nothing happens to the threads' positions.
LEMMA NobodyMoves ==
    ASSUME IInv, UNCHANGED <<pc, started>>
    PROVE  Sequenced' /\ \A a \in Sessions : pc'[Mgmt(a)] = pc[Mgmt(a)]
  BY DEF IInv, Sequenced

\* Sockets and active stay as they are, and no process connects.
LEMMA ReachStays ==
    ASSUME IInv, UNCHANGED <<active, mSocket, peer, signalled>>,
           \A a \in Sessions : pc'[Mgmt(a)] = pc[Mgmt(a)],
           \A q \in Sessions : proc'[q] = "connected" => proc[q] = "connected"
    PROVE  Accepting' /\ Within'
<1>1. Accepting'
  BY DEF IInv, Accepting
<1>2. Within'
  BY DEF IInv, Within
<1> QED
  BY <1>1, <1>2

\* A stop signals whoever it disconnects.
LEMMA ReachStopped ==
    ASSUME IInv, managementStop, UNCHANGED <<active, peer, proc>>,
           \A a \in Sessions : pc'[Mgmt(a)] = pc[Mgmt(a)]
    PROVE  Accepting' /\ Within'
<1>1. Accepting'
  <2>1. ASSUME NEW a \in Sessions, mSocket[a] = "null" PROVE mSocket'[a] = "null"
    BY <2>1 DEF managementStop, stopOpenVPN
  <2> QED
    BY <2>1 DEF IInv, Accepting
<1>2. ASSUME NEW q \in Sessions, proc'[q] = "connected", ~signalled'[q] PROVE FALSE
  <2>1. proc[q] = "connected" /\ ~signalled[q]
    BY <1>2 DEF managementStop, stopOpenVPN
  <2>2. PICK a \in Sessions : a \in ToSet(active) /\ mSocket[a] = "open" /\ peer[a] = q
    BY <2>1 DEF IInv, Within
  <2>3. a \in Reached
    BY <2>1, <2>2 DEF Reached
  <2> QED
    BY <1>2, <2>2, <2>3 DEF managementStop, stopOpenVPN
<1> QED
  BY <1>1, <1>2 DEF Within

\* The clean-up, of a thread that is not a management thread.
LEMMA EndReach ==
    ASSUME IInv, NEW t, EndStep(t), \A a \in Sessions : t # Mgmt(a)
    PROVE  Sequenced' /\ Accepting' /\ Within'
<1> USE DEF BeforeOpen
<1>1. CASE endVpnService(t)
  BY <1>1, OthersMove, ReachStays DEF endVpnService, serviceVars, mgmtVars, threadVars, ovpnVars, At
<1>2. CASE unregisterDeviceStateReceiver(t)
  BY <1>2, OthersMove, ReachStays DEF unregisterDeviceStateReceiver, serviceVars, mgmtVars, threadVars, ovpnVars, At
<1>3. CASE clearThread(t)
  BY <1>3, OthersMove, ReachStays DEF clearThread, serviceVars, mgmtVars, threadVars, ovpnVars, At
<1>4. CASE stopSelf(t)
  BY <1>4, OthersMove, ReachStays DEF stopSelf, serviceVars, mgmtVars, threadVars, ovpnVars, At
<1> QED
  BY <1>1, <1>2, <1>3, <1>4 DEF EndStep

\* A starter.
LEMMA StartReach ==
    ASSUME IInv, NEW s \in Sessions, startOpenVPN(s)
    PROVE  Sequenced' /\ Accepting' /\ Within'
<1> USE DEF BeforeOpen
<1>1. CASE writeConfigFile(s)
  BY <1>1, OthersMove, ReachStays DEF writeConfigFile, serviceVars, mgmtVars, threadVars, ovpnVars, At, Starter, Mgmt
<1>2. CASE setStarting(s)
  BY <1>2, OthersMove, ReachStays DEF setStarting, serviceVars, mgmtVars, threadVars, ovpnVars, At, Starter, Mgmt
<1>3. CASE setReplaceConnection(s)
  BY <1>3, OthersMove, ReachStays DEF setReplaceConnection, serviceVars, mgmtVars, threadVars, ovpnVars, At, Starter, Mgmt
<1>4. CASE stopOldOpenVPNProcess(s)
  BY <1>4, OthersMove, ReachStopped DEF stopOldOpenVPNProcess, serviceVars, mgmtVars, threadVars, ovpnVars, At, Starter, Mgmt
<1>5. CASE forceStopOpenVpnProcess(s)
  BY <1>5, OthersMove, ReachStays DEF forceStopOpenVpnProcess, serviceVars, mgmtVars, threadVars, ovpnVars, At, Starter, Mgmt
<1>6. CASE forceStopReturns(s)
  BY <1>6, OthersMove, ReachStays DEF forceStopReturns, serviceVars, mgmtVars, threadVars, ovpnVars, At, Starter, Mgmt
<1>7. CASE clearStarting(s)
  BY <1>7, OthersMove, ReachStays DEF clearStarting, serviceVars, mgmtVars, threadVars, ovpnVars, At, Starter, Mgmt
<1>8. CASE openManagementInterface(s)
  <2>1. CASE Goto(Starter(s), "end")
    BY <1>8, <2>1, OthersMove, ReachStays DEF openManagementInterface, serviceVars, mgmtVars, threadVars, ovpnVars, At, Starter, Mgmt
  <2>2. CASE pc' = [pc EXCEPT ![Starter(s)] = "thread", ![Mgmt(s)] = "new"]
    <3>0. /\ pc \in [Thread -> Pcs]
          /\ \A a \in Sessions : Mgmt(a) \in Thread /\ Starter(a) \in Thread
          /\ \A a \in Sessions, b \in Sessions : Mgmt(a) # Starter(b)
          /\ \A a \in Sessions, b \in Sessions : a # b => Mgmt(a) # Mgmt(b) /\ Starter(a) # Starter(b)
      BY DEF IInv, TypeOK, Thread, Starter, Mgmt
    <3>2. /\ pc'[Mgmt(s)] = "new" /\ pc'[Starter(s)] = "thread"
          /\ \A a \in Sessions : a # s => /\ pc'[Mgmt(a)] = pc[Mgmt(a)]
                                         /\ pc'[Starter(a)] = pc[Starter(a)]
      BY <2>2, <3>0
    <3> USE <2>2 DEF IInv, TypeOK, Thread, Starter, Mgmt
    <3>1. pc[Starter(s)] = "open" /\ pc[Mgmt(s)] = "none"
      BY <1>8 DEF openManagementInterface, At, Sequenced
    <3>3. UNCHANGED <<started, active, mSocket, peer, proc, signalled>>
      BY <1>8 DEF openManagementInterface, serviceVars, mgmtVars, threadVars, ovpnVars
    <3>4. Sequenced'
      BY <3>1, <3>2, <3>3 DEF Sequenced
    <3>5. Accepting'
      BY <3>1, <3>2, <3>3, ZenonT(60) DEF Accepting
    <3>6. Within'
      BY <3>3 DEF Within
    <3> QED
      BY <3>4, <3>5, <3>6
  <2> QED
    BY <1>8, <2>1, <2>2 DEF openManagementInterface
<1>9. CASE newOpenVPNThread(s)
  BY <1>9, OthersMove, ReachStays DEF newOpenVPNThread, serviceVars, mgmtVars, threadVars, ovpnVars, At, Starter, Mgmt
<1>10. CASE startProcessThread(s)
  <2>1. pc' = [pc EXCEPT ![Starter(s)] = "post", ![Process(s)] = "launch"] /\ pc[Starter(s)] = "process"
    BY <1>10 DEF startProcessThread, At
  <2>2. /\ \A a \in Sessions : pc'[Mgmt(a)] = pc[Mgmt(a)]
        /\ \A a \in Sessions : pc'[Starter(a)] = IF a = s THEN "post" ELSE pc[Starter(a)]
    BY <2>1 DEF IInv, TypeOK, Thread, Starter, Mgmt, Process
  <2>3. UNCHANGED <<started, active, mSocket, peer, proc, signalled>>
    BY <1>10 DEF startProcessThread, serviceVars, mgmtVars, threadVars, ovpnVars
  <2>4. Sequenced'
    <3>1. ~(s > started)
      BY <2>1 DEF IInv, Sequenced
    <3> QED
      BY <2>2, <2>3, <3>1 DEF IInv, Sequenced
  <2> QED
    BY <2>2, <2>3, <2>4, ReachStays
<1>11. CASE postRegister(s)
  BY <1>11, OthersMove, ReachStays DEF postRegister, serviceVars, mgmtVars, threadVars, ovpnVars, At, Starter, Mgmt
<1>12. CASE EndStep(Starter(s))
  BY <1>12, EndReach DEF Starter, Mgmt, serviceVars, mgmtVars, threadVars, ovpnVars
<1> QED
  BY <1>1, <1>2, <1>3, <1>4, <1>5, <1>6, <1>7, <1>8, <1>9, <1>10, <1>11, <1>12 DEF startOpenVPN

\* A process thread.
LEMMA ProcessReach ==
    ASSUME IInv, NEW s \in Sessions, ProcessThread(s)
    PROVE  Sequenced' /\ Accepting' /\ Within'
<1> USE DEF BeforeOpen
<1>1. CASE startOpenVPNThreadArgs(s)
  BY <1>1, OthersMove, ReachStays DEF startOpenVPNThreadArgs, serviceVars, mgmtVars, threadVars, ovpnVars, At, Process, Mgmt, IInv, TypeOK
<1>2. CASE readLogLine(s)
  BY <1>2, OthersMove, ReachStays DEF readLogLine, serviceVars, mgmtVars, threadVars, ovpnVars, At, Process, Mgmt, IInv, TypeOK
<1>3. CASE readLogEnd(s)
  BY <1>3, OthersMove, ReachStays DEF readLogEnd, serviceVars, mgmtVars, threadVars, ovpnVars, At, Process, Mgmt, IInv, TypeOK
<1>4. CASE updateNoProcess(s)
  BY <1>4, OthersMove, ReachStays DEF updateNoProcess, serviceVars, mgmtVars, threadVars, ovpnVars, At, Process, Mgmt, IInv, TypeOK
<1>5. CASE openvpnStopped(s)
  BY <1>5, OthersMove, ReachStays DEF openvpnStopped, serviceVars, mgmtVars, threadVars, ovpnVars, At, Process, Mgmt, IInv, TypeOK
<1>6. CASE EndStep(Process(s))
  BY <1>6, EndReach DEF Process, Mgmt, serviceVars, mgmtVars, threadVars, ovpnVars
<1> QED
  BY <1>1, <1>2, <1>3, <1>4, <1>5, <1>6 DEF ProcessThread

\* The main thread and the binder calls.
LEMMA MainReach ==
    ASSUME IInv, onStartCommand \/ registerDeviceStateReceiver \/ stopVPN \/ onRevoke \/ onDestroy
    PROVE  Sequenced' /\ Accepting' /\ Within'
<1> USE DEF BeforeOpen
<1>1. CASE onStartCommand
  <2>1. pc' = [pc EXCEPT ![Starter(started + 1)] = "config"] /\ started + 1 \in Sessions
    BY <1>1, MaxSessionsAssumption DEF onStartCommand, Goto, IInv, TypeOK, Sessions
  <2>2. /\ \A a \in Sessions : pc'[Mgmt(a)] = pc[Mgmt(a)]
        /\ \A a \in Sessions : pc'[Starter(a)] = IF a = started + 1 THEN "config" ELSE pc[Starter(a)]
    BY <2>1 DEF IInv, TypeOK, Thread, Starter, Mgmt
  <2>3. started' = started + 1 /\ UNCHANGED <<active, mSocket, peer, proc, signalled>>
    BY <1>1 DEF onStartCommand, serviceVars, mgmtVars, threadVars, ovpnVars
  <2>4. Sequenced'
    <3>1. pc[Starter(started + 1)] = "none" /\ pc[Mgmt(started + 1)] = "none"
      BY <2>1 DEF IInv, TypeOK, Sequenced
    <3> QED
      BY <2>1, <2>2, <2>3, <3>1 DEF IInv, TypeOK, Sequenced, Sessions
  <2> QED
    BY <2>2, <2>3, <2>4, ReachStays
<1>2. CASE registerDeviceStateReceiver
  BY <1>2, NobodyMoves, ReachStays DEF registerDeviceStateReceiver, serviceVars, mgmtVars, threadVars, ovpnVars
<1>3. CASE stopVPN
  BY <1>3, NobodyMoves, ReachStopped DEF stopVPN, serviceVars, mgmtVars, threadVars, ovpnVars
<1>4. CASE onRevoke
  BY <1>4, OthersMove, ReachStopped DEF onRevoke, serviceVars, mgmtVars, threadVars, ovpnVars, At, Main, Mgmt
<1>5. CASE onDestroy
  BY <1>5, NobodyMoves, ReachStopped, ReachStays DEF onDestroy, serviceVars, mgmtVars, threadVars, ovpnVars
<1> QED
  BY <1>1, <1>2, <1>3, <1>4, <1>5 DEF onDestroy

\* An openvpn process: the one that connects takes a thread that had no socket.
LEMMA OvpnReach ==
    ASSUME IInv, NEW s \in Sessions, ovpnConnect(s) \/ ovpnState(s) \/ ovpnExit(s)
    PROVE  Sequenced' /\ Accepting' /\ Within'
<1>1. CASE ovpnConnect(s) /\ bound = None
  BY <1>1, NobodyMoves, ReachStays DEF ovpnConnect, serviceVars, mgmtVars, threadVars, ovpnVars, IInv, TypeOK
<1>2. CASE ovpnConnect(s) /\ bound # None
  <2>1. /\ bound \in Sessions /\ pc[Mgmt(bound)] = "accepting"
        /\ pc' = [pc EXCEPT ![Mgmt(bound)] = "reading"]
        /\ mSocket' = [mSocket EXCEPT ![bound] = "open"]
        /\ peer' = [peer EXCEPT ![bound] = s]
        /\ proc' = [proc EXCEPT ![s] = "connected"]
        /\ UNCHANGED <<started, active, signalled>>
    BY <1>2 DEF ovpnConnect, At, Goto, IInv, TypeOK, OrNone, serviceVars, mgmtVars, threadVars, ovpnVars
  <2>2. bound \in ToSet(active) /\ mSocket[bound] = "null"
    BY <2>1 DEF IInv, Accepting
  <2>3. /\ \A a \in Sessions : pc'[Mgmt(a)] = IF a = bound THEN "reading" ELSE pc[Mgmt(a)]
        /\ \A a \in Sessions : pc'[Starter(a)] = pc[Starter(a)]
    BY <2>1 DEF IInv, TypeOK, Thread, Starter, Mgmt
  <2>4. Sequenced'
    BY <2>1, <2>3 DEF IInv, Sequenced
  <2>5. Accepting'
    BY <2>1, <2>3 DEF IInv, TypeOK, Accepting
  <2>6. Within'
    <3>1. ASSUME NEW q \in Sessions, proc'[q] = "connected", ~signalled'[q]
          PROVE  \E a \in Sessions : a \in ToSet(active)' /\ mSocket'[a] = "open" /\ peer'[a] = q
      <4>1. CASE q = s
        BY <2>1, <2>2, <4>1 DEF IInv, TypeOK
      <4>2. CASE q # s
        <5>1. PICK a \in Sessions : a \in ToSet(active) /\ mSocket[a] = "open" /\ peer[a] = q
          BY <2>1, <3>1, <4>2 DEF IInv, TypeOK, Within
        <5>2. a # bound
          BY <2>2, <5>1
        <5> QED
          BY <2>1, <5>1, <5>2 DEF IInv, TypeOK
      <4> QED
        BY <4>1, <4>2
    <3> QED
      BY <3>1 DEF Within
  <2> QED
    BY <2>4, <2>5, <2>6
<1>3. CASE ovpnState(s)
  BY <1>3, NobodyMoves, ReachStays DEF ovpnState, serviceVars, mgmtVars, threadVars, ovpnVars
<1>4. CASE ovpnExit(s)
  BY <1>4, NobodyMoves, ReachStays DEF ovpnExit, serviceVars, mgmtVars, threadVars, ovpnVars, IInv, TypeOK
<1> QED
  BY <1>1, <1>2, <1>3, <1>4 DEF ovpnConnect

\* A management thread: it leaves active only with its socket closed.
LEMMA MgmtReach ==
    ASSUME IInv, NEW s \in Sessions, MgmtThread(s)
    PROVE  Sequenced' /\ Accepting' /\ Within'
<1> USE DEF BeforeOpen
<1>1. CASE addActive(s) \/ readEnd(s) \/ removeActive(s)
  <2>1. PICK l \in {"accepting", "done"} : pc' = [pc EXCEPT ![Mgmt(s)] = l]
    BY <1>1 DEF addActive, readEnd, removeActive, Goto
  <2>2. /\ \A a \in Sessions : pc'[Mgmt(a)] = IF a = s THEN l ELSE pc[Mgmt(a)]
        /\ \A a \in Sessions : pc'[Starter(a)] = pc[Starter(a)]
    BY <2>1 DEF IInv, TypeOK, Thread, Starter, Mgmt
  <2>3. /\ UNCHANGED <<started, mSocket, peer, proc, signalled>>
        /\ pc[Mgmt(s)] # "none"
        /\ pc[Mgmt(s)] # "accepting"
    BY <1>1 DEF addActive, readEnd, removeActive, At, serviceVars, mgmtVars, threadVars, ovpnVars
  <2>4. Sequenced'
    BY <2>2, <2>3 DEF IInv, Sequenced
  <2>5. /\ \A a \in ToSet(active) : a \in ToSet(active') \/ (a = s /\ mSocket[a] = "closed" /\ l = "done")
        /\ l = "accepting" => s \in ToSet(active') /\ mSocket[s] = "null"
    <3>1. CASE addActive(s)
      <4>1. active' = Append(active, s) /\ active \in Seq(Sessions)
        BY <3>1 DEF addActive, IInv, TypeOK
      <4>2. /\ \A i \in 1..Len(active) : active'[i] = active[i]
            /\ active'[Len(active) + 1] = s /\ active' \in Seq(Sessions)
            /\ Len(active') = Len(active) + 1
        BY <4>1, AppendProperties
      <4>3. ToSet(active) \subseteq ToSet(active') /\ s \in ToSet(active')
        BY <4>1, <4>2 DEF ToSet
      <4>4. mSocket[s] = "null"
        BY <3>1 DEF addActive, At, IInv, Accepting
      <4> QED
        BY <4>3, <4>4
    <3>2. CASE readEnd(s)
      BY <2>1, <3>2 DEF readEnd, Goto, At, mgmtVars, IInv, TypeOK, Thread, Mgmt
    <3>3. CASE removeActive(s)
      <4>1. active' = RemoveFirst(active, s) /\ mSocket[s] = "closed" /\ active \in Seq(Sessions)
        BY <3>3 DEF removeActive, IInv, TypeOK
      <4>2. l = "done"
        BY <2>1, <3>3 DEF removeActive, Goto, IInv, TypeOK, Thread, Mgmt
      <4> QED
        BY <4>1, <4>2, RemoveFirstKeeps
    <3> QED
      BY <1>1, <3>1, <3>2, <3>3
  <2>6. Accepting'
    BY <2>2, <2>3, <2>5 DEF IInv, Accepting
  <2>7. Within'
    BY <2>3, <2>5 DEF IInv, Within
  <2> QED
    BY <2>4, <2>6, <2>7
<1>2. CASE processState(s)
  BY <1>2, NobodyMoves, ReachStays DEF processState, serviceVars, mgmtVars, threadVars, ovpnVars
<1> QED
  BY <1>1, <1>2 DEF MgmtThread

\* Every step keeps the inductive invariant.
LEMMA ReachStep ==
    ASSUME IInv, [Next]_vars
    PROVE  IInv'
<1>1. TypeOK'
  BY TypeStep DEF IInv
<1>2. CASE UNCHANGED vars
  BY <1>1, <1>2, NobodyMoves, ReachStays DEF vars, serviceVars, mgmtVars, ovpnVars, IInv
<1>3. CASE EndStep(Main)
  BY <1>1, <1>3, EndReach DEF Main, Mgmt, IInv
<1> QED
  BY <1>1, <1>2, <1>3, MainReach, StartReach, ProcessReach, MgmtReach, OvpnReach DEF Next, IInv

\* However many sessions replace each other, whichever starts overlap or fail,
\* a stop reaches every connected process that has not been told to stop:
\* stopOpenVPN walks active, from which run() removes a thread only when its
\* socket has been closed.
THEOREM StopReachesAll == Spec => []StopReaches
<1>1. Init => IInv
  <2>1. Init => Sequenced /\ Accepting /\ Within
    BY DEF Init, Sequenced, Accepting, Within, Thread, Starter, Mgmt, Main
  <2> QED
    BY <2>1, TypeInit DEF IInv
<1>2. IInv /\ [Next]_vars => IInv'
  BY ReachStep
<1>3. IInv => StopReaches
  BY DEF IInv, Within, StopReaches, Reached
<1> QED
  BY <1>1, <1>2, <1>3, PTL DEF Spec
=============================================================================
