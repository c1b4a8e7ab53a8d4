----------------------------- MODULE TunConfig ------------------------------
(***************************************************************************)
(* How the settings of the tun interface are collected and when the        *)
(* interface is opened anew.                                               *)
(*                                                                         *)
(* For every connection the openvpn process (external) sends NEED-OK       *)
(* commands: IFCONFIG, IFCONFIG6, ROUTE, ROUTE6, DNSSERVER, DNSDOMAIN.     *)
(* OpenVPNService collects them in fields.  PERSIST_TUN_ACTION asks if the *)
(* interface of the last connection may stay; otherwise OPENTUN builds a   *)
(* new one, which also resets the fields.  All of it runs on the           *)
(* management thread, one command at a time.                               *)
(*                                                                         *)
(* Addresses, networks, servers and domains are opaque values.  mRoutes    *)
(* stands for mRoutes and mRoutesv6: networks of the two families differ.  *)
(***************************************************************************)
EXTENDS Naturals, Sequences

CONSTANTS
    Values,       \* addresses, networks, DNS servers, domains
    Null,         \* the null reference
    Mtus,         \* MTU values
    Pushes,       \* what a server may push: sequences of commands
    LocalNets,    \* local networks excluded by addLocalNetworksToRoutes
    MaxDns        \* bound on mDnslist when a connection begins

ASSUME NullAssumption == Null \notin Values
ASSUME LocalAssumption == LocalNets \subseteq Values
ASSUME MaxDnsAssumption == MaxDns \in Nat

Route == [net : Values, included : BOOLEAN]

\* A command.  IFCONFIG carries the network of the interface, Null for a
\* single address; routes carry the result of addRoute's include test.
Command ==
         [need : {"IFCONFIG"}, ip : Values, net : Values \cup {Null}, mtu : Mtus]
    \cup [need : {"IFCONFIG6"}, ip : Values, mtu : Mtus]
    \cup [need : {"ROUTE", "ROUTE6"}, route : Route]
    \cup [need : {"DNSSERVER", "DNSDOMAIN"}, arg : Values]

ASSUME PushesAssumption == Pushes \subseteq Seq(Command)

VARIABLES
    mLocalIP, mLocalIPv6, mDnslist, mRoutes, mDomain, mMtu, \* the fields
    mLastTunCfg,  \* what the last openTun recorded, or Null
    tun,          \* external: settings of the open interface, or Null
    push, todo,   \* external: commands of this connection, those not yet sent
    phase,        \* external: "down", "push", "open", "connected"
    clean         \* history: the fields were empty when the push began

fields == <<mLocalIP, mLocalIPv6, mDnslist, mRoutes, mDomain, mMtu>>
vars == <<fields, mLastTunCfg, tun, push, todo, phase, clean>>

Settings ==
    [ips : (Values \cup {Null}) \X (Values \cup {Null}), routes : SUBSET Route,
     dns : Seq(Values), domain : Values \cup {Null}, mtu : Mtus \cup {0}]

\* what openTun gives to the builder
Collected ==
    [ips |-> <<mLocalIP, mLocalIPv6>>, routes |-> mRoutes,
     dns |-> mDnslist, domain |-> mDomain, mtu |-> mMtu]

\* mutant: the DNS servers are left out
getTunConfigString_NoDns ==
    [ips |-> <<mLocalIP, mLocalIPv6>>, routes |-> mRoutes,
     dns |-> <<>>, domain |-> mDomain, mtu |-> mMtu]

\* the string, as its parts: it is only compared with another one
getTunConfigString ==
    [ips |-> <<mLocalIP, mLocalIPv6>>, routes |-> mRoutes,
     dns |-> mDnslist, domain |-> mDomain, mtu |-> mMtu]

\* The fields hold what the setters may put there.
TypeOK ==
    /\ mLocalIP \in Values \cup {Null}
    /\ mLocalIPv6 \in Values \cup {Null}
    /\ mDnslist \in Seq(Values)
    /\ mRoutes \subseteq Route
    /\ mDomain \in Values \cup {Null}
    /\ mMtu \in Mtus \cup {0}
    /\ mLastTunCfg \in Settings \cup {Null}
    /\ tun \in Settings \cup {Null}
    /\ push \in Seq(Command)
    /\ todo \in Seq(Command)
    /\ phase \in {"down", "push", "open", "connected"}
    /\ clean \in BOOLEAN

Empty ==
    /\ mLocalIP = Null /\ mLocalIPv6 = Null
    /\ mDnslist = <<>> /\ mRoutes = {} /\ mDomain = Null

Init ==
    /\ Empty /\ mMtu = 0
    /\ mLastTunCfg = Null
    /\ tun = Null
    /\ push = <<>> /\ todo = <<>>
    /\ phase = "down"
    /\ clean = TRUE

\* TreeSet.add: a network already there keeps its type
AddRoute(routes, r) ==
    IF \E q \in routes : q.net = r.net THEN routes ELSE routes \cup {r}

-----------------------------------------------------------------------------
(* processNeedCommand: one command of the push *)

Receives(needs) ==
    /\ phase = "push" /\ todo # <<>> /\ Head(todo).need \in needs
    /\ todo' = Tail(todo)
    /\ UNCHANGED <<mLastTunCfg, tun, push, phase, clean>>

\* with the interface route of an address that has a network
setLocalIP ==
    /\ Receives({"IFCONFIG"})
    /\ LET c == Head(todo)
       IN  /\ mLocalIP' = c.ip
           /\ mMtu' = c.mtu
           /\ mRoutes' = IF c.net = Null THEN mRoutes
                         ELSE AddRoute(mRoutes, [net |-> c.net, included |-> TRUE])
    /\ UNCHANGED <<mLocalIPv6, mDnslist, mDomain>>

\* mutant: an MTU nobody configured
setLocalIPv6_OffByOne ==
    /\ Receives({"IFCONFIG6"})
    /\ mLocalIPv6' = Head(todo).ip
    /\ mMtu' = Head(todo).mtu - 1
    /\ UNCHANGED <<mLocalIP, mDnslist, mRoutes, mDomain>>

setLocalIPv6 ==
    /\ Receives({"IFCONFIG6"})
    /\ mLocalIPv6' = Head(todo).ip
    /\ mMtu' = Head(todo).mtu
    /\ UNCHANGED <<mLocalIP, mDnslist, mRoutes, mDomain>>

\* dropped with an error while there is no local address
addRoute ==
    /\ Receives({"ROUTE"})
    /\ mRoutes' = IF mLocalIP = Null THEN mRoutes
                  ELSE AddRoute(mRoutes, Head(todo).route)
    /\ UNCHANGED <<mLocalIP, mLocalIPv6, mDnslist, mDomain, mMtu>>

addRoutev6 ==
    /\ Receives({"ROUTE6"})
    /\ mRoutes' = AddRoute(mRoutes, Head(todo).route)
    /\ UNCHANGED <<mLocalIP, mLocalIPv6, mDnslist, mDomain, mMtu>>

addDNS ==
    /\ Receives({"DNSSERVER"})
    /\ mDnslist' = Append(mDnslist, Head(todo).arg)
    /\ UNCHANGED <<mLocalIP, mLocalIPv6, mRoutes, mDomain, mMtu>>

\* mutant: the last domain wins
setDomain_Overwrite ==
    /\ Receives({"DNSDOMAIN"})
    /\ mDomain' = Head(todo).arg
    /\ UNCHANGED <<mLocalIP, mLocalIPv6, mDnslist, mRoutes, mMtu>>

setDomain ==
    /\ Receives({"DNSDOMAIN"})
    /\ mDomain' = IF mDomain = Null THEN Head(todo).arg ELSE mDomain
    /\ UNCHANGED <<mLocalIP, mLocalIPv6, mDnslist, mRoutes, mMtu>>

-----------------------------------------------------------------------------
(* PERSIST_TUN_ACTION and OPENTUN *)

\* NOACTION lets a process that has an interface keep it
getTunReopenStatus ==
    /\ phase = "push" /\ todo = <<>>
    /\ phase' = IF getTunConfigString = mLastTunCfg /\ tun # Null
                THEN "connected" ELSE "open"
    /\ UNCHANGED <<fields, mLastTunCfg, tun, push, todo, clean>>

\* the local networks openTun may find: none without an IPv4 address or
\* without mAllowLocalLAN
LocalNetworks == IF mLocalIP = Null THEN {{}} ELSE SUBSET LocalNets

addLocalNetworksToRoutes(nets) ==
    mRoutes \cup {[net |-> n, included |-> FALSE] :
                     n \in {m \in nets : \A q \in mRoutes : q.net # m}}

\* the process ends, as it does on "cancel", and its interface with it
Ended == tun' = Null /\ phase' = "down"

\* no address, or one the builder rejects: the fields are kept
openTunFails ==
    /\ phase = "open"
    /\ \E nets \in LocalNetworks : mRoutes' = addLocalNetworksToRoutes(nets)
    /\ Ended
    /\ UNCHANGED <<mLocalIP, mLocalIPv6, mDnslist, mDomain, mMtu, mLastTunCfg,
                   push, todo, clean>>

\* openTun and sendTunFD; establish() or the transfer of the descriptor may
\* still fail after the configuration is recorded and the fields are reset
openTun ==
    /\ phase = "open" /\ (mLocalIP # Null \/ mLocalIPv6 # Null)
    /\ \E nets \in LocalNetworks :
         LET routes == addLocalNetworksToRoutes(nets)
         IN  /\ mLastTunCfg' = [getTunConfigString EXCEPT !.routes = routes]
             /\ \/ /\ tun' = [Collected EXCEPT !.routes = routes]
                   /\ phase' = "connected"
                \/ Ended
    /\ mLocalIP' = Null /\ mLocalIPv6' = Null
    /\ mDnslist' = <<>> /\ mRoutes' = {} /\ mDomain' = Null
    /\ UNCHANGED <<mMtu, push, todo, clean>>

\* the service is destroyed with its session; the next one has new fields
onDestroy ==
    /\ phase = "down"
    /\ mLocalIP' = Null /\ mLocalIPv6' = Null
    /\ mDnslist' = <<>> /\ mRoutes' = {} /\ mDomain' = Null /\ mMtu' = 0
    /\ mLastTunCfg' = Null
    /\ UNCHANGED <<tun, push, todo, phase, clean>>

-----------------------------------------------------------------------------
(* The openvpn process (external) *)

\* a new process, or a reconnection of the running one, receives a push
ovpnConnect ==
    /\ phase \in {"down", "connected"}
    /\ Len(mDnslist) <= MaxDns
    /\ \E p \in Pushes : push' = p /\ todo' = p
    /\ phase' = "push"
    /\ clean' = Empty
    /\ UNCHANGED <<fields, mLastTunCfg, tun>>

\* the process is stopped, crashes or is replaced, at any point of the push;
\* a replacement finds the fields as they are
ovpnExit ==
    /\ phase # "down"
    /\ Ended
    /\ push' = <<>> /\ todo' = <<>>
    /\ UNCHANGED <<fields, mLastTunCfg, clean>>

processNeedCommand ==
    \/ setLocalIP \/ setLocalIPv6 \/ addRoute \/ addRoutev6 \/ addDNS \/ setDomain
    \/ getTunReopenStatus \/ openTun \/ openTunFails

Next == processNeedCommand \/ onDestroy \/ ovpnConnect \/ ovpnExit

Spec == Init /\ [][Next]_vars

-----------------------------------------------------------------------------
(* Properties *)

\* An interface is kept (NOACTION) only if it was built from exactly the
\* settings collected for the new connection.
KeepsOnlyEqual ==
    [][phase = "push" /\ phase' = "connected" => tun = Collected]_vars

Is(needs, i) == push[i].need \in needs
Last(needs, i, n) == Is(needs, i) /\ \A j \in i + 1..n : ~Is(needs, j)
First(needs, i) == Is(needs, i) /\ \A j \in 1..i - 1 : ~Is(needs, j)
NoneOf(needs, n) == \A j \in 1..n : ~Is(needs, j)

\* the networks command i names, and those of the first n commands that count
RouteOf(i) ==
    CASE Is({"IFCONFIG"}, i) /\ push[i].net # Null ->
           {[net |-> push[i].net, included |-> TRUE]}
      [] Is({"ROUTE"}, i) /\ ~NoneOf({"IFCONFIG"}, i) -> {push[i].route}
      [] Is({"ROUTE6"}, i) -> {push[i].route}
      [] OTHER -> {}
FirstRoute(i, r) == r \in RouteOf(i) /\ \A j \in 1..i - 1 : \A q \in RouteOf(j) : q.net # r.net
PushedRoutes(n) ==
    {r \in UNION {RouteOf(i) : i \in 1..n} : \E i \in 1..n : FirstRoute(i, r)}

\* at[j] is the command that pushed the j-th DNS server
DnsFrom(at, n) ==
    /\ \A i, j \in 1..Len(mDnslist) : i < j => at[i] < at[j]
    /\ \A i \in 1..n : Is({"DNSSERVER"}, i) => \E j \in 1..Len(mDnslist) : at[j] = i
    /\ \A j \in 1..Len(mDnslist) : Is({"DNSSERVER"}, at[j]) /\ mDnslist[j] = push[at[j]].arg

\* what the fields hold after the first n commands: the last addresses, the
\* first domain, every DNS server in order, and for every network its first route
CollectedFrom(n) ==
    /\ \A i \in 1..n :
          /\ Last({"IFCONFIG"}, i, n) => mLocalIP = push[i].ip
          /\ Last({"IFCONFIG6"}, i, n) => mLocalIPv6 = push[i].ip
          /\ Last({"IFCONFIG", "IFCONFIG6"}, i, n) => mMtu = push[i].mtu
          /\ First({"DNSDOMAIN"}, i) => mDomain = push[i].arg
    /\ NoneOf({"IFCONFIG"}, n) => mLocalIP = Null
    /\ NoneOf({"IFCONFIG6"}, n) => mLocalIPv6 = Null
    /\ NoneOf({"DNSDOMAIN"}, n) => mDomain = Null
    /\ mRoutes = PushedRoutes(n)
    /\ \E at \in [1..Len(mDnslist) -> 1..n] : DnsFrom(at, n)

\* A push that found the fields empty is collected as pushed: every setting of
\* the interface that is about to be opened comes from this push, and nothing
\* that counts is missing.
AsPushed == phase = "open" /\ clean => CollectedFrom(Len(push))
=============================================================================
