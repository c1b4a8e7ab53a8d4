-------------------------- MODULE TunConfigProofs ---------------------------
(***************************************************************************)
(* Proofs about TunConfig, for every set of pushes and local networks.     *)
(***************************************************************************)
EXTENDS TunConfig, WellFoundedInduction, TLAPS

\* While an interface is open, mLastTunCfg describes it: openTun is the only
\* writer of both, and without a process there is no interface.
LastCfgIsTun ==
    /\ tun # Null => mLastTunCfg = tun
    /\ phase = "down" => tun = Null

\* The two readings of the fields agree: the string compares everything the
\* builder was given.
LEMMA StringIsComplete == getTunConfigString = Collected
  BY DEF getTunConfigString, Collected

\* LastCfgIsTun holds initially and is kept by every step.
LEMMA LastCfgInvariant == Spec => []LastCfgIsTun
<1>1. Init => LastCfgIsTun
  BY DEF Init, LastCfgIsTun
<1>2. LastCfgIsTun /\ [Next]_vars => LastCfgIsTun'
  <2> SUFFICES ASSUME LastCfgIsTun, [Next]_vars PROVE LastCfgIsTun'
    OBVIOUS
  <2> USE DEF LastCfgIsTun
  <2>1. CASE openTun
    BY <2>1, StringIsComplete DEF openTun, Ended
  <2>2. CASE openTunFails
    BY <2>2 DEF openTunFails, Ended
  <2>3. CASE setLocalIP \/ setLocalIPv6 \/ addRoute \/ addRoutev6 \/ addDNS \/ setDomain
    BY <2>3 DEF setLocalIP, setLocalIPv6, addRoute, addRoutev6, addDNS, setDomain, Receives
  <2>4. CASE getTunReopenStatus \/ ovpnConnect
    BY <2>4 DEF getTunReopenStatus, ovpnConnect
  <2>5. CASE onDestroy
    BY <2>5 DEF onDestroy
  <2>6. CASE ovpnExit
    BY <2>6 DEF ovpnExit, Ended
  <2>7. CASE UNCHANGED vars
    BY <2>7 DEF vars
  <2> QED
    BY <2>1, <2>2, <2>3, <2>4, <2>5, <2>6, <2>7 DEF Next, processNeedCommand
<1> QED
  BY <1>1, <1>2, PTL DEF Spec

\* The change from "push" to "connected" is an answer NOACTION.
LEMMA OnlyNoactionKeeps ==
    ASSUME LastCfgIsTun, [Next]_vars, phase = "push", phase' = "connected"
    PROVE  getTunConfigString = mLastTunCfg /\ tun # Null
<1>1. CASE getTunReopenStatus
  BY <1>1 DEF getTunReopenStatus
<1>2. CASE openTun \/ openTunFails \/ ovpnConnect \/ onDestroy
  BY <1>2 DEF openTun, openTunFails, ovpnConnect, onDestroy
<1>3. CASE setLocalIP \/ setLocalIPv6 \/ addRoute \/ addRoutev6 \/ addDNS \/ setDomain
  BY <1>3 DEF setLocalIP, setLocalIPv6, addRoute, addRoutev6, addDNS, setDomain, Receives
<1>4. CASE ovpnExit
  BY <1>4 DEF ovpnExit, Ended
<1>5. CASE UNCHANGED vars
  BY <1>5 DEF vars
<1> QED
  BY <1>1, <1>2, <1>3, <1>4, <1>5 DEF Next, processNeedCommand

\* For every set of pushes, an interface is kept (NOACTION answered by
\* getTunReopenStatus) only if openTun built it from the settings that are
\* collected now.
THEOREM KeptInterfaceIsEqual == Spec => KeepsOnlyEqual
<1>1. LastCfgIsTun /\ [Next]_vars
        => [phase = "push" /\ phase' = "connected" => tun = Collected]_vars
  BY OnlyNoactionKeeps, StringIsComplete DEF LastCfgIsTun
<1> QED
  BY <1>1, LastCfgInvariant, PTL DEF Spec, KeepsOnlyEqual

-----------------------------------------------------------------------------
(* Type correctness. *)

\* A setter changes one or two fields, by values the command carries.
LEMMA CommandTypes ==
    ASSUME NEW c \in Command
    PROVE  /\ c.need = "IFCONFIG" => c.ip \in Values /\ c.net \in Values \cup {Null} /\ c.mtu \in Mtus
           /\ c.need = "IFCONFIG6" => c.ip \in Values /\ c.mtu \in Mtus
           /\ c.need \in {"ROUTE", "ROUTE6"} => c.route \in Route
           /\ c.need \in {"DNSSERVER", "DNSDOMAIN"} => c.arg \in Values
  BY DEF Command

\* TreeSet.add keeps a set of routes a set of routes.
LEMMA AddRouteType ==
    ASSUME NEW routes \in SUBSET Route, NEW r \in Route
    PROVE  AddRoute(routes, r) \in SUBSET Route
  BY DEF AddRoute

\* What a received command leaves: the rest of the push.
LEMMA ReceivesTypes ==
    ASSUME TypeOK, NEW needs, Receives(needs)
    PROVE  /\ Head(todo) \in Command /\ Head(todo).need \in needs
           /\ todo' \in Seq(Command) /\ push' \in Seq(Command)
           /\ mLastTunCfg' \in Settings \cup {Null} /\ tun' \in Settings \cup {Null}
           /\ phase' \in {"down", "push", "open", "connected"} /\ clean' \in BOOLEAN
  BY DEF TypeOK, Receives

\* openTun adds routes to the collected ones, of excluded local networks.
LEMMA LocalRoutesType ==
    ASSUME TypeOK, NEW nets \in LocalNetworks
    PROVE  addLocalNetworksToRoutes(nets) \in SUBSET Route
<1>1. nets \subseteq Values
  BY LocalAssumption DEF LocalNetworks
<1>2. \A n \in nets : [net |-> n, included |-> FALSE] \in Route
  BY <1>1 DEF Route
<1> QED
  BY <1>2 DEF TypeOK, addLocalNetworksToRoutes

\* TypeOK is kept by every step.
LEMMA TypeStep == TypeOK /\ [Next]_vars => TypeOK'
<1> SUFFICES ASSUME TypeOK, [Next]_vars PROVE TypeOK'
  OBVIOUS
<1>1. CASE setLocalIP
  <2>1. Receives({"IFCONFIG"})
    BY <1>1 DEF setLocalIP
  <2>2. /\ Head(todo).ip \in Values /\ Head(todo).mtu \in Mtus
        /\ Head(todo).net \in Values \cup {Null}
    BY <2>1, ReceivesTypes, CommandTypes
  <2>3. mRoutes' \in SUBSET Route
    <3>1. Head(todo).net # Null => [net |-> Head(todo).net, included |-> TRUE] \in Route
      BY <2>2 DEF Route
    <3>2. mRoutes \in SUBSET Route
      BY DEF TypeOK
    <3> QED
      BY <1>1, <3>1, <3>2, AddRouteType DEF setLocalIP
  <2>4. mLocalIP' \in Values \cup {Null} /\ mMtu' \in Mtus \cup {0}
    BY <1>1, <2>2 DEF setLocalIP
  <2>5. UNCHANGED <<mLocalIPv6, mDnslist, mDomain>>
    BY <1>1 DEF setLocalIP
  <2> QED
    BY <2>1, <2>3, <2>4, <2>5, ReceivesTypes DEF TypeOK
<1>2. CASE setLocalIPv6
  <2>1. Receives({"IFCONFIG6"})
    BY <1>2 DEF setLocalIPv6
  <2>2. Head(todo).ip \in Values /\ Head(todo).mtu \in Mtus
    BY <2>1, ReceivesTypes, CommandTypes
  <2> QED
    BY <1>2, <2>1, <2>2, ReceivesTypes DEF TypeOK, setLocalIPv6
<1>3. CASE addRoute \/ addRoutev6
  <2>1. Receives({"ROUTE"}) \/ Receives({"ROUTE6"})
    BY <1>3 DEF addRoute, addRoutev6
  <2>2. Head(todo).route \in Route
    BY <2>1, ReceivesTypes, CommandTypes
  <2>3. mRoutes' \in SUBSET Route
    BY <1>3, <2>2, AddRouteType DEF TypeOK, addRoute, addRoutev6
  <2>4. UNCHANGED <<mLocalIP, mLocalIPv6, mDnslist, mDomain, mMtu>>
    BY <1>3 DEF addRoute, addRoutev6
  <2> QED
    BY <2>1, <2>3, <2>4, ReceivesTypes DEF TypeOK
<1>4. CASE addDNS
  <2>1. Receives({"DNSSERVER"})
    BY <1>4 DEF addDNS
  <2>2. Head(todo).arg \in Values
    BY <2>1, ReceivesTypes, CommandTypes
  <2> QED
    BY <1>4, <2>1, <2>2, ReceivesTypes DEF TypeOK, addDNS
<1>5. CASE setDomain
  <2>1. Receives({"DNSDOMAIN"})
    BY <1>5 DEF setDomain
  <2>2. Head(todo).arg \in Values
    BY <2>1, ReceivesTypes, CommandTypes
  <2> QED
    BY <1>5, <2>1, <2>2, ReceivesTypes DEF TypeOK, setDomain
<1>6. CASE getTunReopenStatus
  BY <1>6 DEF TypeOK, getTunReopenStatus, fields
<1>7. CASE openTun
  <2> PICK nets \in LocalNetworks :
         LET routes == addLocalNetworksToRoutes(nets)
         IN  /\ mLastTunCfg' = [getTunConfigString EXCEPT !.routes = routes]
             /\ \/ /\ tun' = [Collected EXCEPT !.routes = routes]
                   /\ phase' = "connected"
                \/ Ended
    BY <1>7 DEF openTun
  <2>1. addLocalNetworksToRoutes(nets) \in SUBSET Route
    BY LocalRoutesType
  <2>2. [Collected EXCEPT !.routes = addLocalNetworksToRoutes(nets)] \in Settings
    BY <2>1 DEF TypeOK, Collected, Settings
  <2>3. mLastTunCfg' \in Settings /\ tun' \in Settings \cup {Null}
        /\ phase' \in {"down", "connected"}
    BY <2>2, StringIsComplete DEF Ended
  <2> QED
    BY <1>7, <2>3 DEF TypeOK, openTun
<1>8. CASE openTunFails
  <2>1. mRoutes' \in SUBSET Route
    BY <1>8, LocalRoutesType DEF openTunFails
  <2> QED
    BY <1>8, <2>1 DEF TypeOK, openTunFails, Ended
<1>9. CASE onDestroy
  BY <1>9 DEF TypeOK, onDestroy
<1>10. CASE ovpnConnect
  BY <1>10, PushesAssumption DEF TypeOK, ovpnConnect, fields, Empty
<1>11. CASE ovpnExit
  BY <1>11 DEF TypeOK, ovpnExit, Ended, fields
<1>12. CASE UNCHANGED vars
  BY <1>12 DEF TypeOK, vars, fields
<1> QED
  BY <1>1, <1>2, <1>3, <1>4, <1>5, <1>6, <1>7, <1>8, <1>9, <1>10, <1>11, <1>12
     DEF Next, processNeedCommand

\* The fields of OpenVPNService, the recorded configuration and the interface
\* keep their types, whatever the server pushes and wherever the push ends.
THEOREM TypeCorrect == Spec => []TypeOK
<1>1. Init => TypeOK
  BY DEF Init, Empty, TypeOK
<1> QED
  BY <1>1, TypeStep, PTL DEF Spec

-----------------------------------------------------------------------------
(* The settings collected from a push. *)

\* how many commands of the push have been received
Received == Len(push) - Len(todo)

\* What is still to come is the end of the push.
Remaining ==
    /\ Len(todo) <= Len(push)
    /\ \A i \in 1..Len(todo) : todo[i] = push[Received + i]

\* A field that is null was not pushed.
NullNotPushed(n) ==
    /\ mLocalIP = Null => NoneOf({"IFCONFIG"}, n)
    /\ mDomain = Null => NoneOf({"DNSDOMAIN"}, n)

\* The inductive invariant: the fields hold what the commands received so far
\* say, so that they hold all of the push when it has been received.
PushInv ==
    /\ phase \in {"push", "open"} =>
         Remaining /\ (clean => CollectedFrom(Received) /\ NullNotPushed(Received))
    /\ phase = "open" => todo = <<>>

\* Every non-empty set of naturals has a least element.
LEMMA NatMin ==
    ASSUME NEW T, T \subseteq Nat, T # {}
    PROVE  \E x \in T : \A y \in T : x <= y
<1> DEFINE R == {p \in Nat \X Nat : p[1] < p[2]}
<1>1. IsWellFoundedOn(R, Nat)
  BY NatLessThanWellFounded DEF OpToRel
<1> HIDE DEF R
<1>2. PICK x \in T : \A y \in T : ~(<<y, x>> \in R)
  BY <1>1, WFMin
<1>3. \A y \in T : ~(y < x)
  BY <1>2 DEF R
<1> QED
  BY <1>3

\* A command names at most one network.
LEMMA OneRoute ==
    ASSUME NEW i, NEW q \in RouteOf(i), NEW r \in RouteOf(i)
    PROVE  q = r
<1>1. CASE Is({"IFCONFIG"}, i)
  BY <1>1 DEF RouteOf, Is
<1>2. CASE Is({"ROUTE"}, i)
  BY <1>2 DEF RouteOf, Is
<1>3. CASE Is({"ROUTE6"}, i)
  BY <1>3 DEF RouteOf, Is
<1> QED
  BY <1>1, <1>2, <1>3 DEF RouteOf

\* Every network that was named has a route: that of the first command naming it.
LEMMA NamedIsPushed ==
    ASSUME NEW n \in Nat, NEW net
    PROVE  (\E q \in PushedRoutes(n) : q.net = net)
             <=> (\E j \in 1..n : \E q \in RouteOf(j) : q.net = net)
<1>1. ASSUME NEW q \in PushedRoutes(n), q.net = net
      PROVE  \E j \in 1..n : \E p \in RouteOf(j) : p.net = net
  BY <1>1 DEF PushedRoutes, FirstRoute
<1>2. ASSUME NEW j \in 1..n, NEW p \in RouteOf(j), p.net = net
      PROVE  \E q \in PushedRoutes(n) : q.net = net
  <2> DEFINE T == {i \in 1..n : \E q \in RouteOf(i) : q.net = net}
  <2>1. T \subseteq Nat /\ T # {}
    BY <1>2
  <2> HIDE DEF T
  <2>2. PICK i \in T : \A k \in T : i <= k
    BY <2>1, NatMin
  <2> USE DEF T
  <2>3. PICK q \in RouteOf(i) : q.net = net
    OBVIOUS
  <2>4. i \in 1..n /\ \A k \in 1..i - 1 : k \notin T /\ k \in 1..n
    BY <2>2
  <2>5. FirstRoute(i, q)
    BY <2>3, <2>4 DEF FirstRoute
  <2>6. q \in PushedRoutes(n)
    BY <2>3, <2>4, <2>5 DEF PushedRoutes
  <2> QED
    BY <2>3, <2>6
<1> QED
  BY <1>1, <1>2

\* What one more command does to the routes is what TreeSet.add does.
LEMMA RoutesGrow ==
    ASSUME NEW n \in Nat
    PROVE  /\ RouteOf(n + 1) = {} => PushedRoutes(n + 1) = PushedRoutes(n)
           /\ \A r \in RouteOf(n + 1) : PushedRoutes(n + 1) = AddRoute(PushedRoutes(n), r)
<1>1. 1..n + 1 = 1..n \cup {n + 1}
  OBVIOUS
<1>2. \A r : r \in PushedRoutes(n) <=> \E i \in 1..n : FirstRoute(i, r)
  BY DEF PushedRoutes, FirstRoute
<1>3. \A r : r \in PushedRoutes(n + 1) <=> \E i \in 1..n + 1 : FirstRoute(i, r)
  BY DEF PushedRoutes, FirstRoute
<1>4. \A r : r \in PushedRoutes(n + 1) <=> r \in PushedRoutes(n) \/ FirstRoute(n + 1, r)
  BY <1>1, <1>2, <1>3
<1>5. ASSUME RouteOf(n + 1) = {} PROVE PushedRoutes(n + 1) = PushedRoutes(n)
  BY <1>4, <1>5 DEF FirstRoute
<1>6. ASSUME NEW r \in RouteOf(n + 1)
      PROVE  PushedRoutes(n + 1) = AddRoute(PushedRoutes(n), r)
  <2>1. \A q : FirstRoute(n + 1, q) <=>
          q = r /\ \A j \in 1..n : \A p \in RouteOf(j) : p.net # r.net
    BY <1>6, OneRoute DEF FirstRoute
  <2>2. (\E q \in PushedRoutes(n) : q.net = r.net)
          <=> (\E j \in 1..n : \E p \in RouteOf(j) : p.net = r.net)
    BY NamedIsPushed
  <2> QED
    BY <1>4, <2>1, <2>2 DEF AddRoute
<1> QED
  BY <1>5, <1>6

\* The command that is received is the next one of the push.
LEMMA ReceivesNext ==
    ASSUME TypeOK, Remaining, NEW needs, Receives(needs)
    PROVE  /\ Received \in Nat /\ Received + 1 \in 1..Len(push)
           /\ Received' = Received + 1
           /\ push[Received + 1] = Head(todo)
           /\ push[Received + 1] \in Command
           /\ Is(needs, Received + 1)
           /\ push' = push
           /\ Remaining'
<1>1. /\ push' = push /\ todo' = Tail(todo) /\ todo # <<>> /\ Head(todo).need \in needs
      /\ push \in Seq(Command) /\ todo \in Seq(Command)
  BY DEF Receives, TypeOK
<1>2. Len(todo) \in Nat \ {0} /\ Len(push) \in Nat /\ Len(todo') = Len(todo) - 1
  BY <1>1
<1>3. /\ Received \in Nat /\ Received + 1 \in 1..Len(push) /\ Received' = Received + 1
      /\ push[Received + 1] = Head(todo)
  BY <1>1, <1>2 DEF Received, Remaining
<1>4. \A i \in 1..Len(todo') : todo'[i] = todo[i + 1]
  BY <1>1, <1>2
<1>5. Remaining'
  BY <1>1, <1>2, <1>3, <1>4 DEF Remaining, Received
<1> QED
  BY <1>1, <1>3, <1>5 DEF Is

\* The DNS servers stay the ones pushed, in order, when the command is received.
LEMMA DnsStep ==
    ASSUME TypeOK, NEW n \in Nat, push' = push,
           \E at \in [1..Len(mDnslist) -> 1..n] : DnsFrom(at, n),
           mDnslist' = IF Is({"DNSSERVER"}, n + 1)
                       THEN Append(mDnslist, push[n + 1].arg) ELSE mDnslist
    PROVE  (\E at \in [1..Len(mDnslist) -> 1..n + 1] : DnsFrom(at, n + 1))'
<1> PICK at \in [1..Len(mDnslist) -> 1..n] : DnsFrom(at, n)
  OBVIOUS
<1>0. mDnslist \in Seq(Values) /\ Len(mDnslist) \in Nat
  BY DEF TypeOK
<1>1. CASE ~Is({"DNSSERVER"}, n + 1)
  <2>1. at \in [1..Len(mDnslist) -> 1..n + 1]
    BY <1>0
  <2>2. DnsFrom(at, n + 1)
    BY <1>1 DEF DnsFrom
  <2>3. mDnslist' = mDnslist
    BY <1>1
  <2> QED
    BY <2>1, <2>2, <2>3 DEF DnsFrom, Is
<1>2. CASE Is({"DNSSERVER"}, n + 1)
  <2>6. PICK m \in Nat : m = Len(mDnslist)
    BY <1>0
  <2> DEFINE new == [j \in 1..m + 1 |-> IF j <= m THEN at[j] ELSE n + 1]
  <2>1. mDnslist' = Append(mDnslist, push[n + 1].arg)
    BY <1>2
  <2>2. /\ Len(mDnslist') = m + 1
        /\ \A j \in 1..m : mDnslist'[j] = mDnslist[j]
        /\ mDnslist'[m + 1] = push[n + 1].arg
    BY <1>0, <2>1, <2>6
  <2>3. new \in [1..m + 1 -> 1..n + 1]
    BY <2>6
  <2>4. \A j \in 1..m : new[j] = at[j] /\ at[j] \in 1..n
    BY <2>6, SMTT(30)
  <2>5. new[m + 1] = n + 1
    BY <2>6
  <2> HIDE DEF new
  <2>7. \A i, j \in 1..m + 1 : i < j => new[i] < new[j]
    <3> SUFFICES ASSUME NEW i \in 1..m + 1, NEW j \in 1..m + 1, i < j
                 PROVE  new[i] < new[j]
      OBVIOUS
    <3>1. i \in 1..m /\ new[i] = at[i] /\ at[i] \in 1..n
      BY <2>4
    <3>2. CASE j = m + 1
      BY <2>5, <3>1, <3>2
    <3>3. CASE j \in 1..m
      BY <2>4, <2>6, <3>1, <3>3 DEF DnsFrom
    <3> QED
      BY <3>2, <3>3
  <2>8. \A i \in 1..n + 1 : Is({"DNSSERVER"}, i) => \E j \in 1..m + 1 : new[j] = i
    <3> SUFFICES ASSUME NEW i \in 1..n + 1, Is({"DNSSERVER"}, i)
                 PROVE  \E j \in 1..m + 1 : new[j] = i
      OBVIOUS
    <3>1. CASE i = n + 1
      BY <2>5, <2>6, <3>1
    <3>2. CASE i # n + 1
      <4>1. PICK j \in 1..m : at[j] = i
        BY <2>6, <3>2 DEF DnsFrom
      <4> QED
        BY <2>4, <2>6, <4>1
    <3> QED
      BY <3>1, <3>2
  <2>9. \A j \in 1..m + 1 : Is({"DNSSERVER"}, new[j]) /\ mDnslist'[j] = push[new[j]].arg
    <3> SUFFICES ASSUME NEW j \in 1..m + 1
                 PROVE  Is({"DNSSERVER"}, new[j]) /\ mDnslist'[j] = push[new[j]].arg
      OBVIOUS
    <3>1. CASE j = m + 1
      BY <1>2, <2>2, <2>5, <3>1
    <3>2. CASE j \in 1..m
      BY <2>2, <2>4, <2>6, <3>2 DEF DnsFrom
    <3> QED
      BY <2>6, <3>1, <3>2
  <2>10. DnsFrom(new, n + 1)'
    BY <2>2, <2>7, <2>8, <2>9 DEF DnsFrom, Is
  <2> QED
    BY <2>2, <2>3, <2>10
<1> QED
  BY <1>1, <1>2

\* One command of the push: if every field takes what the command says, the
\* fields hold what one command more says.
LEMMA CollectStep ==
    ASSUME TypeOK, NEW n \in Nat, push' = push, push[n + 1] \in Command,
           CollectedFrom(n), NullNotPushed(n),
           mLocalIP' = IF Is({"IFCONFIG"}, n + 1) THEN push[n + 1].ip ELSE mLocalIP,
           mLocalIPv6' = IF Is({"IFCONFIG6"}, n + 1) THEN push[n + 1].ip ELSE mLocalIPv6,
           mMtu' = IF Is({"IFCONFIG", "IFCONFIG6"}, n + 1) THEN push[n + 1].mtu ELSE mMtu,
           mDomain' = IF Is({"DNSDOMAIN"}, n + 1) /\ mDomain = Null
                      THEN push[n + 1].arg ELSE mDomain,
           mDnslist' = IF Is({"DNSSERVER"}, n + 1)
                       THEN Append(mDnslist, push[n + 1].arg) ELSE mDnslist,
           mRoutes' = PushedRoutes(n + 1)
    PROVE  (CollectedFrom(n + 1) /\ NullNotPushed(n + 1))'
<1>1. \A needs, i : Is(needs, i)' = Is(needs, i)
  BY DEF Is
<1>2. \A i : (RouteOf(i))' = RouteOf(i)
  BY <1>1 DEF RouteOf, NoneOf, Is
<1>3. PushedRoutes(n + 1)' = PushedRoutes(n + 1)
  BY <1>2 DEF PushedRoutes, FirstRoute
<1>4. \A j \in 1..n + 1 : j \in 1..n \/ j = n + 1
  OBVIOUS
<1>5. \A needs : NoneOf(needs, n + 1)' <=> NoneOf(needs, n) /\ ~Is(needs, n + 1)
  BY <1>4 DEF NoneOf, Is
<1>6. \A needs : \A i \in 1..n + 1 : Last(needs, i, n + 1)' <=>
         (i = n + 1 /\ Is(needs, n + 1)) \/ (i \in 1..n /\ Last(needs, i, n) /\ ~Is(needs, n + 1))
  BY <1>4 DEF Last, Is
<1>7. \A needs : \A i \in 1..n + 1 : First(needs, i)' <=>
         (i = n + 1 /\ Is(needs, n + 1) /\ NoneOf(needs, n)) \/ (i \in 1..n /\ First(needs, i))
  BY <1>4 DEF First, Is, NoneOf
<1>8. ASSUME NEW i \in 1..n + 1
      PROVE  (/\ Last({"IFCONFIG"}, i, n + 1) => mLocalIP = push[i].ip
              /\ Last({"IFCONFIG6"}, i, n + 1) => mLocalIPv6 = push[i].ip
              /\ Last({"IFCONFIG", "IFCONFIG6"}, i, n + 1) => mMtu = push[i].mtu)'
  BY <1>6 DEF CollectedFrom
<1>9. ASSUME NEW i \in 1..n + 1
      PROVE  (First({"DNSDOMAIN"}, i) => mDomain = push[i].arg)'
  <2>1. CASE i = n + 1
    BY <1>7, <2>1 DEF CollectedFrom
  <2>2. CASE i \in 1..n /\ First({"DNSDOMAIN"}, i)
    <3>1. ~NoneOf({"DNSDOMAIN"}, n)
      BY <2>2 DEF First, NoneOf
    <3>2. mDomain = push[i].arg /\ mDomain # Null
      BY <2>2, <3>1 DEF CollectedFrom, NullNotPushed
    <3> QED
      BY <3>2
  <2> QED
    BY <1>7, <2>1, <2>2
<1>10. (/\ NoneOf({"IFCONFIG"}, n + 1) => mLocalIP = Null
        /\ NoneOf({"IFCONFIG6"}, n + 1) => mLocalIPv6 = Null
        /\ NoneOf({"DNSDOMAIN"}, n + 1) => mDomain = Null)'
  BY <1>5 DEF CollectedFrom
<1>11. (\E at \in [1..Len(mDnslist) -> 1..n + 1] : DnsFrom(at, n + 1))'
  BY DnsStep DEF CollectedFrom
<1>12. Is({"IFCONFIG"}, n + 1) => push[n + 1].ip # Null
  BY CommandTypes, NullAssumption DEF Is
<1>13. Is({"DNSDOMAIN"}, n + 1) => push[n + 1].arg # Null
  BY CommandTypes, NullAssumption DEF Is
<1>14. NullNotPushed(n + 1)'
  BY <1>5, <1>12, <1>13 DEF NullNotPushed
<1> QED
  BY <1>3, <1>8, <1>9, <1>10, <1>11, <1>14 DEF CollectedFrom

\* A local address is set exactly when an IFCONFIG came: what addRoute tests.
LEMMA AddressKnown ==
    ASSUME NEW n, CollectedFrom(n), NullNotPushed(n)
    PROVE  mLocalIP = Null <=> NoneOf({"IFCONFIG"}, n)
  BY DEF CollectedFrom, NullNotPushed

\* What the six setters do, read off the command that is received.
LEMMA SetterStep ==
    ASSUME TypeOK, Remaining, CollectedFrom(Received), NullNotPushed(Received),
           setLocalIP \/ setLocalIPv6 \/ addRoute \/ addRoutev6 \/ addDNS \/ setDomain
    PROVE  Remaining' /\ (CollectedFrom(Received) /\ NullNotPushed(Received))'
<1>1. PICK needs \in {{"IFCONFIG"}, {"IFCONFIG6"}, {"ROUTE"}, {"ROUTE6"}, {"DNSSERVER"},
                      {"DNSDOMAIN"}} : Receives(needs)
  BY DEF setLocalIP, setLocalIPv6, addRoute, addRoutev6, addDNS, setDomain
<1>2. PICK n \in Nat : n = Received
  BY <1>1, ReceivesNext
<1> DEFINE c == push[n + 1]
<1>3. /\ Received' = n + 1 /\ Remaining' /\ push' = push
      /\ c = Head(todo) /\ c \in Command
  BY <1>1, <1>2, ReceivesNext
<1>4. \A s : Is(s, n + 1) <=> Head(todo).need \in s
  BY <1>3 DEF Is
<1>5. /\ mLocalIP' = IF Is({"IFCONFIG"}, n + 1) THEN c.ip ELSE mLocalIP
      /\ mLocalIPv6' = IF Is({"IFCONFIG6"}, n + 1) THEN c.ip ELSE mLocalIPv6
      /\ mMtu' = IF Is({"IFCONFIG", "IFCONFIG6"}, n + 1) THEN c.mtu ELSE mMtu
      /\ mDomain' = IF Is({"DNSDOMAIN"}, n + 1) /\ mDomain = Null THEN c.arg ELSE mDomain
      /\ mDnslist' = IF Is({"DNSSERVER"}, n + 1) THEN Append(mDnslist, c.arg) ELSE mDnslist
  BY <1>3, <1>4
     DEF setLocalIP, setLocalIPv6, addRoute, addRoutev6, addDNS, setDomain, Receives
<1>6. mRoutes = PushedRoutes(n)
  BY <1>2 DEF CollectedFrom
<1>7. mRoutes' = PushedRoutes(n + 1)
  <2>1. CASE setLocalIP
    <3>1. Is({"IFCONFIG"}, n + 1)
      BY <1>4, <2>1 DEF setLocalIP, Receives
    <3>2. RouteOf(n + 1) = IF c.net = Null THEN {}
                           ELSE {[net |-> c.net, included |-> TRUE]}
      BY <3>1 DEF RouteOf, Is
    <3> QED
      BY <1>3, <1>6, <2>1, <3>2, RoutesGrow DEF setLocalIP
  <2>2. CASE addRoute
    <3>1. Is({"ROUTE"}, n + 1)
      BY <1>4, <2>2 DEF addRoute, Receives
    <3>2. NoneOf({"IFCONFIG"}, n + 1) <=> NoneOf({"IFCONFIG"}, n)
      <4>1. ~Is({"IFCONFIG"}, n + 1)
        BY <3>1 DEF Is
      <4>2. \A j \in 1..n + 1 : j \in 1..n \/ j = n + 1
        OBVIOUS
      <4> QED
        BY <4>1, <4>2 DEF NoneOf
    <3>3. RouteOf(n + 1) = IF mLocalIP = Null THEN {} ELSE {c.route}
      BY <1>2, <3>1, <3>2, AddressKnown DEF RouteOf, Is
    <3> QED
      BY <1>3, <1>6, <2>2, <3>3, RoutesGrow DEF addRoute
  <2>3. CASE addRoutev6
    <3>1. Is({"ROUTE6"}, n + 1)
      BY <1>4, <2>3 DEF addRoutev6, Receives
    <3>2. RouteOf(n + 1) = {c.route}
      BY <3>1 DEF RouteOf, Is
    <3> QED
      BY <1>3, <1>6, <2>3, <3>2, RoutesGrow DEF addRoutev6
  <2>4. CASE setLocalIPv6 \/ addDNS \/ setDomain
    <3>1. Is({"IFCONFIG6", "DNSSERVER", "DNSDOMAIN"}, n + 1)
      BY <1>4, <2>4 DEF setLocalIPv6, addDNS, setDomain, Receives
    <3>2. RouteOf(n + 1) = {}
      BY <3>1 DEF RouteOf, Is
    <3> QED
      BY <1>6, <2>4, <3>2, RoutesGrow DEF setLocalIPv6, addDNS, setDomain
  <2> QED
    BY <2>1, <2>2, <2>3, <2>4
<1>8. (CollectedFrom(n + 1) /\ NullNotPushed(n + 1))'
  BY <1>2, <1>3, <1>5, <1>7, CollectStep
<1> QED
  BY <1>3, <1>8

\* A push begins with nothing received and, if clean, with nothing collected.
LEMMA PushBegins == TypeOK /\ ovpnConnect => PushInv'
<1> SUFFICES ASSUME TypeOK, ovpnConnect PROVE PushInv'
  OBVIOUS
<1>1. push' \in Seq(Command) /\ todo' = push' /\ phase' = "push" /\ clean' = Empty
  BY PushesAssumption DEF ovpnConnect
<1>2. Len(push') \in Nat /\ Received' = 0
  BY <1>1 DEF Received
<1>3. Remaining'
  BY <1>1, <1>2 DEF Remaining, Received
<1>4. ASSUME clean' PROVE CollectedFrom(0)' /\ NullNotPushed(0)'
  <2>1. mLocalIP' = Null /\ mLocalIPv6' = Null /\ mDnslist' = <<>> /\ mRoutes' = {} /\ mDomain' = Null
    BY <1>1, <1>4 DEF ovpnConnect, Empty, fields
  <2>2. PushedRoutes(0)' = {}
    BY DEF PushedRoutes
  <2>3. \E at \in [1..Len(mDnslist') -> 1..0] : DnsFrom(at, 0)'
    <3> DEFINE at == [j \in 1..0 |-> 0]
    <3>1. Len(mDnslist') = 0
      BY <2>1
    <3>2. at \in [1..0 -> 1..0]
      OBVIOUS
    <3>3. DnsFrom(at, 0)'
      BY <3>1 DEF DnsFrom
    <3> QED
      BY <3>1, <3>2, <3>3
  <2>4. 1..0 = {}
    OBVIOUS
  <2>5. \A needs : NoneOf(needs, 0)'
    BY <2>4 DEF NoneOf
  <2>6. CollectedFrom(0)'
    BY <2>1, <2>2, <2>3, <2>4 DEF CollectedFrom
  <2>7. NullNotPushed(0)'
    BY <2>5 DEF NullNotPushed
  <2> QED
    BY <2>6, <2>7
<1> QED
  BY <1>1, <1>2, <1>3, <1>4 DEF PushInv

\* PushInv is kept by every step.
LEMMA PushStep == TypeOK /\ PushInv /\ [Next]_vars => PushInv'
<1> SUFFICES ASSUME TypeOK, PushInv, [Next]_vars PROVE PushInv'
  OBVIOUS
<1>1. CASE setLocalIP \/ setLocalIPv6 \/ addRoute \/ addRoutev6 \/ addDNS \/ setDomain
  <2>1. PICK needs : Receives(needs)
    BY <1>1 DEF setLocalIP, setLocalIPv6, addRoute, addRoutev6, addDNS, setDomain
  <2>2. phase = "push" /\ phase' = "push" /\ clean' = clean
    BY <2>1 DEF Receives
  <2>3. Remaining /\ (clean => CollectedFrom(Received) /\ NullNotPushed(Received))
    BY <2>2 DEF PushInv
  <2>4. Remaining'
    BY <2>1, <2>3, ReceivesNext
  <2>5. clean' => (CollectedFrom(Received) /\ NullNotPushed(Received))'
    BY <1>1, <2>2, <2>3, SetterStep
  <2> QED
    BY <2>2, <2>4, <2>5 DEF PushInv
<1>2. CASE getTunReopenStatus \/ UNCHANGED vars
  <2>1. UNCHANGED <<mLocalIP, mLocalIPv6, mDnslist, mRoutes, mDomain, mMtu, push, todo, clean>>
    BY <1>2 DEF getTunReopenStatus, vars, fields
  <2>2. Remaining' = Remaining /\ Received' = Received
    BY <2>1 DEF Remaining, Received
  <2>3. CollectedFrom(Received)' = CollectedFrom(Received)
        /\ NullNotPushed(Received)' = NullNotPushed(Received)
    BY <2>1, <2>2 DEF CollectedFrom, NullNotPushed, Last, First, NoneOf, Is, PushedRoutes,
                      FirstRoute, RouteOf, DnsFrom
  <2>4. phase' \in {"push", "open"} => phase \in {"push", "open"}
    BY <1>2 DEF getTunReopenStatus, vars
  <2>5. phase' = "open" => todo' = <<>>
    BY <1>2 DEF getTunReopenStatus, vars, PushInv
  <2> QED
    BY <2>1, <2>2, <2>3, <2>4, <2>5 DEF PushInv
<1>3. CASE openTun \/ openTunFails \/ ovpnExit \/ onDestroy
  BY <1>3 DEF PushInv, openTun, openTunFails, ovpnExit, onDestroy, Ended
<1>4. CASE ovpnConnect
  BY <1>4, PushBegins
<1> QED
  BY <1>1, <1>2, <1>3, <1>4 DEF Next, processNeedCommand

\* For every server and every history of earlier connections: a push that
\* found the fields empty is collected as pushed, when openTun is reached.
THEOREM CollectedAsPushed == Spec => []AsPushed
<1>1. Init => PushInv
  BY DEF Init, PushInv
<1>2. TypeOK /\ PushInv => AsPushed
  <2> SUFFICES ASSUME TypeOK, PushInv, phase = "open", clean PROVE CollectedFrom(Len(push))
    BY DEF AsPushed
  <2>1. todo = <<>> /\ CollectedFrom(Received) /\ Len(push) \in Nat
    BY DEF PushInv, TypeOK
  <2>2. Received = Len(push)
    BY <2>1 DEF Received
  <2> QED
    BY <2>1, <2>2
<1> QED
  BY <1>1, <1>2, TypeCorrect, PushStep, PTL DEF Spec
=============================================================================
