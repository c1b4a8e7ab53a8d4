---------------------------- MODULE MCTunConfig -----------------------------
(***************************************************************************)
(* TunConfig for TLC: a few pushes that share and change settings.         *)
(***************************************************************************)
EXTENDS TunConfig

MCValues == {"ip1", "ip2", "net1", "net2", "lan", "dns1", "dns2", "dom1", "dom2"}
MCMtus == {1400, 1500}

Ifconfig(ip, net, mtu) == [need |-> "IFCONFIG", ip |-> ip, net |-> net, mtu |-> mtu]
RouteCmd(need, net, incl) ==
    [need |-> need, route |-> [net |-> net, included |-> incl]]
Cmd(need, arg) == [need |-> need, arg |-> arg]

\* an address with a network, a route and name resolution
Full == <<Ifconfig("ip1", "net1", 1500), RouteCmd("ROUTE", "net2", TRUE),
          Cmd("DNSSERVER", "dns1"), Cmd("DNSDOMAIN", "dom1")>>
\* another server: the same network excluded, two servers, two domains
Other == <<Ifconfig("ip2", Null, 1400), RouteCmd("ROUTE", "net2", FALSE),
           RouteCmd("ROUTE", "net2", TRUE), Cmd("DNSSERVER", "dns2"),
           Cmd("DNSSERVER", "dns1"), Cmd("DNSDOMAIN", "dom2"),
           Cmd("DNSDOMAIN", "dom1")>>
\* the settings of Full with another MTU and DNS server
Changed == <<Ifconfig("ip1", "net1", 1400), RouteCmd("ROUTE", "net2", TRUE),
             Cmd("DNSSERVER", "dns2"), Cmd("DNSDOMAIN", "dom1")>>
\* IPv6 only; the IPv4 route is dropped
Six == <<RouteCmd("ROUTE", "net1", TRUE),
         [need |-> "IFCONFIG6", ip |-> "ip2", mtu |-> 1500],
         RouteCmd("ROUTE6", "net2", TRUE), Cmd("DNSSERVER", "dns1")>>
\* no address at all
NoIp == <<RouteCmd("ROUTE6", "net2", TRUE)>>

MCPushes == {Full, Other, Changed, Six, NoIp}
=============================================================================
