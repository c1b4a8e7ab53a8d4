# NicVPN: verification of the OpenVPN back end and of tun2socks

NicVPN is an Android VPN client. It bundles three ways to tunnel: OpenVPN (`de.blinkt.openvpn`), V2Ray
(`com.v2ray.ang`) and HTTP, stunnel and DNS tunnels (`com.nicadevelop.nicavpn.service`, `.http`, and the gradle module
`dnstunnel`). V2Ray's tunnel ends in a native process, tun2socks (`jni/badvpn`), which contains its own TCP, lwIP.
This directory holds TLA+ models of the parts whose correctness depends on the order of events in several threads or
on a non-trivial algorithm, model-checked with TLC, with theorems checked by TLAPS. This document is the inventory,
the plan, and the account of what has been shown.

## 1. Inventory

| Component | State | Operations | Interacts with |
|---|---|---|---|
| Pause control: `DeviceStateReceiver`, hold handling of `OpenVpnManagementThread` | `network`, `screen`, `userpause`, `mWaitingForRelease`, two kinds of posted runnables | broadcasts, user pause, byte counts; `pause`, `resume`, `networkChange`, `handleHold` | the openvpn process by the management socket; `VpnStatus` |
| Sessions: `OpenVPNService`, `OpenVPNThread`, `OpenVpnManagementThread` | `mManagement`, `mOpenVPNThread`, `mProcessThread`, `mStarting`, `active`, sockets | start, replace, stop, revoke, `endVpnService`, `onDestroy` | one starter, one process and one management thread per session; openvpn processes |
| Tun configuration: `OpenVPNService.openTun` and its setters | local addresses, routes, DNS servers, domain, MTU, `mLastTunCfg` | one NEED-OK command each, `getTunReopenStatus`, `openTun` | openvpn process, `VpnService.Builder`, route calculation |
| Route calculation: `NetworkSpace` | set of included and excluded networks | `addIP`, `generateIPList`, `getPositiveIPList`, `clear` | called by `openTun` |
| Proxy and passwords of the management thread, `OrbotHelper`, `PasswordCache` | pending proxy request, cached passwords | `processProxyCMD`, Orbot callback, time-out | Orbot by broadcasts |
| Status: `VpnStatus`, `OpenVPNStatusService`, `LogFileHandler` | last state and level, log buffer, listeners | update, log, register | every other part; the UI process by AIDL |
| `CIDRIP`, `TrafficHistory`, `ProfileManager`, `ConfigParser` | values, samples, profiles | conversion, consolidation, load and save, parsing | sequential helpers |
| V2Ray services | `v2rayPoint`, `isRunning`, the tun2socks process | start, stop, shutdown callback, process watcher | Go core, system VPN service |
| HTTP tunnel: `ClientServer`, `Connection` | list of connections, sockets, `isStopped` | accept, establish, relay, close | local socket, remote server |
| tun2socks: `tun2socks.c` | per connection: `buf`, the SOCKS receive buffer, `socks_recv_tcp_pending`, what is closed | lwIP and SOCKS callbacks; `client_free_client`, `client_abort_client`, `client_free_socks`, `client_murder` | lwIP by calls both ways, BSocksClient, the reactor's jobs (`SYNC_COMMIT`) |
| `BSocksClient`, `BConnection` | state of the negotiation, one send and one receive under way | connect, hello, password, request, reply, transfer, error | tun2socks, the local SOCKS server |
| lwIP TCP (`tcp.c`, `tcp_in.c`, `tcp_out.c`) | `struct tcp_pcb`: queues, windows, timers, state | segment in, `tcp_write`, `tcp_output`, `tcp_recved`, `tcp_close`, fast and slow timer | tun2socks by callbacks, the device's TCP by segments |
| pdnsd, other native code | DNS cache | DNS queries | separate process |
| stunnel and DNS process managers | process, stop flag | start loop, stop | native processes |
| UI, advertising, purchases, server list | widgets, preferences | user actions | all of the above by intents |

The service and the status service run in the process `:openvpn`, the V2Ray services in `:RunSoLibV2RayDaemon`, the
UI in the main process.

**What is hard here.** The OpenVPN back end shares fields between the looper, binder threads, one management thread
and one process thread per session, and the short-lived starter threads; only `mProcessThread` has a lock. Decisions
are read on one thread and acted on later on another (hold and release, pause and resume). Delays (20 s before a lost
network counts, 3 s between releases, 1 s sleeps for an old process) are raced by the events they wait for. The
management socket is an asynchronous FIFO, and a stop closes it with messages unread. A replaced session ends at the
same time as the new one starts, and both clean up. tun2socks is a single thread, but its handlers nest: lwIP calls
the client inside `tcp_input`, the client closes or aborts the pcb inside that callback, and `SYNC_COMMIT` runs socket
jobs inside both. lwIP meets lost, repeated and reordered segments with two queues per direction, three timers and
numbers that wrap. `PROJECT.json` lists these hazards at their lines.

**What makes each part correct.**

* Pause control: openvpn is held when a condition fails and released when all are good, in every interleaving.
* Sessions: every process can be stopped, a replaced one ends, and the service ends when nothing is left.
* Tun configuration: an interface is kept only if it is what the server asks for now.
* Route calculation: the routes given to Android are those of a longest-prefix table.
* tun2socks: bytes go both ways in order, buffers and windows agree, no freed object is touched, every connection ends.
* lwIP TCP: the stream arrives complete and in order, and no connection stops for want of a timer or of window.
* HTTP tunnel and V2Ray (planned): no connection or native process outlives the stop of its service.

## 2. Modules

| Module | Models | Lines that matter most |
|---|---|---|
| `PauseControl` | conditions, commands and hold protocol | `DeviceStateReceiver.java:39-290`, `OpenVpnManagementThread.java:403-448, 728-792` |
| `PauseControlProofs` | its theorems | |
| `Session` | start, replacement, stop, end | `OpenVPNService.java:224-252, 453-741`, `OpenVPNThread.java:61-200`, `OpenVpnManagementThread.java:107-234` |
| `SessionProofs` | its theorems | |
| `TunConfig` | settings of the interface | `OpenVPNService.java:743-998, 1061-1189, 1265-1278`, `OpenVpnManagementThread.java:549-668` |
| `TunConfigProofs` | its theorems | |
| `NetworkSpace` | the route algorithm | `NetworkSpace.java:32-338` |
| `NetworkSpaceProofs` | its theorems | |
| `Tun2Socks` | one connection of tun2socks: pcb, `tcp_client`, SOCKS client | `tun2socks.c:1726-2271`, `BSocksClient.c:147-592`, `BConnection_unix.c:239-376` |
| `Tun2SocksProofs` | its theorems, and that it implements `Relay` | |
| `Relay` | what tun2socks promises for a connection; `Tun2Socks` implements it | |
| `RelayProofs` | its theorem | |
| `LwipRecv` | the receiving half of lwIP's TCP | `tcp_in.c:319-410, 833-864, 1160-1577`, `tcp.c:641-702, 1112-1188` |
| `LwipRecvProofs` | its theorems | |
| `LwipSend` | the sending half of lwIP's TCP | `tcp_out.c:297-712, 905-1050, 1252-1365, 1430-1498`, `tcp_in.c:763-823, 899-1122`, `tcp.c:889-1064` |
| `LwipSendProofs` | its theorems | |
| `MC*` | instances for TLC; `MCTunConfig` adds the pushes, `MCSession` the settings | |

Definitions carry the names of the methods and fields they model; `PROJECT.json` maps each to its lines. The definitions
named `<name>_<Change>` are mutated versions of `<name>`: each property is known to fail when the corresponding
one takes its place.

### PauseControl

`pc[t]` and `arg[t]` are the position and the argument of the call that thread `t` makes on the management object.
A call is cut where another thread can change what it has read: `pause` and `signalusr1`; `resume` or `networkChange`
and the three steps of `releaseHoldCmd` (remove the runnable, clear the flag after the sleep, send the command);
`handleHold`, which sets the flag, then reads the conditions, then posts or shows. The looper handles one event at a
time (`MainIdle`). The openvpn process is external: it announces a hold when it starts, after SIGUSR1 and after a
time-out, leaves it on `hold release`, and may or may not notice SIGUSR1 inside a hold. The socket is two FIFO
queues. Traffic volumes are a choice in `updateByteCount`.

The constants `BinderCalls` and `RedundantResume` allow two uses that the AIDL interface admits but this application
does not make: `ExternalOpenVPNService` is not in the manifest, and a resume without a pause has no sender at all. As built,
not even the ordinary pause has one in the application, since the actions of the notification are commented out
(`OpenVPNService.java:392-409`); what is left are the `PAUSE_VPN` and `RESUME_VPN` intents of `onStartCommand` and the binder's
`userPause`, and the model keeps the order the commented code gave them: resume only while the user's pause is in force. With `RedundantResume = TRUE`, `NoLostRelease` fails: `userPause(false)` then calls `pause`,
which removes the posted release.

### Session

Session `s` is the `s`-th start intent of one service instance; a thread is `<<role, s>>`. The steps of
`startOpenVPN`, `OpenVPNThread.run`, `OpenVpnManagementThread.run` and `endVpnService` are separate actions, since each
reads or writes a field that other sessions use. `mProcessLock` names the starter that sleeps while holding it;
`startProcessThread`, `endVpnService` and `onDestroy` wait for it. `active`, `mSocket` and `peer` say which management thread
can reach which process: all sessions bind the same path, and the last binder gets the connection. An interrupt is
noticed at the next log line. `unread` holds the state lines not yet read, which a stop loses.

The constant `Settings` is the set of circumstances a behaviour may have: overlapping starts, failures, revocation, and
`prompt`. Sleeps are not timed: `prompt` assumes that the one-second sleep of `forceStopOpenVpnProcess` is long enough for
the interrupted thread to go as far as the lock lets it; without it nothing is assumed.
Not modelled: the second run of a crashed process (`mBrokenPie`), the always-visible notification preference (taken
as off), OpenVPN 3 (disabled in the build), the window between starting the management thread and assigning
`mManagement`.

### TunConfig

Fields are as in the service; addresses, networks, servers and domains are opaque. `mRoutes` stands for `mRoutes` and
`mRoutesv6`, whose networks never meet. The configuration string is only ever compared, so it is a record of its
parts. The record is more exact than the string: `getTunConfigString` writes some parts one behind the other without a
separator, a missing domain as `null`, and IPv6 networks without their leading zero groups (`NetworkSpace.java:165-193`).
Different configurations whose strings happen to agree are left out. A command is one element of a push; a push may be interrupted anywhere (`ovpnExit`), the next process finding
the fields as they are. `clean` records whether a push found the fields empty. `openTun` covers success, failure
before the reset (`openTunFails`) and failure of `establish()` after it. That the process ends on "cancel" is an
assumption about openvpn.

The converse of `KeepsOnlyEqual` does not hold: NOACTION leaves the collected fields in place, so the second
reconnection with an unchanged push compares unequal and gets a new interface.

### NetworkSpace

A network is first address, prefix length and type over an address width given as a constant. The queue of
`generateIPList` is a bag, because the code can queue equal networks, and `poll` may return any of the least elements.
Every branch of the loop is an action. `addIPSplit` and the code for Android before 4.4 are dead (minSdk 22).

The constant `AnyNets` controls the inputs. `FALSE` admits those in which the exceptions (networks inside one of the
other type) are single addresses or only one network: a default route without the VPN servers, or without one
local network. `TRUE` admits everything; there the algorithm is wrong (see findings).

### Tun2Socks and Relay

The process has one thread, so an action is one event (a segment, a timer, a socket that is ready) with everything its
handler calls. A C function is an operator on a record of the whole state, which also carries the function's return value
(`ret`), the choices of the surroundings (`c`) and a `log` of the assertions and "!?!" branches it runs into; the
operators call each other as the functions do. So the nesting that makes this code hard is kept: `client_recv_func` inside
`tcp_input` sends to SOCKS inside `SYNC_COMMIT`, whose job may fail and reach `client_abort_client`, after which lwIP must be told
`ERR_ABRT`. A `SYNC_COMMIT` runs at most one socket job that moves bytes, and behind it one that finds the connection failed or closed
(`JobRuns`). The code may run more, for instance two receives in a row when the first is queued at once
(`tun2socks.c:2249-2259`); in the model the second is an event of its own. An error event while neither transfer is
under way (`BConnection_unix.c:371-375`) is left out; it ends the SOCKS side as the other errors do.

Bytes are counted, not named: every queue on the way is first in, first out. One connection lives at a time, since
connections share nothing but the list and its count. The SOCKS negotiation is modelled message by message; a message
received in parts is received at its last part. It has no time-out in the code and none here: a server that never answers
is excluded by fairness. A pcb that `tcp_close` has left to lwIP has no callbacks, so its closing states collapse
into `PcbFinished`; `LwipSend` has them in full. Of the failures of malloc only the one inside `tcp_output` is kept, and the
failing `BSocksClient_Init`. In particular `tcp_write` gives `ERR_MEM` only when something is queued: with an empty queue that
would be a failed allocation (`tcp_out.c:538-590`), after which the "can't queue data" branch is taken. The data that lwIP would keep as `refused_data` cannot arise here: the branch of
`client_recv_func` that refuses is one of those `NeverStuck` excludes.

`Stale = TRUE` adds segments that make `tcp_process` return early (a SYN, or an RST outside the window). `pcb->acked` then keeps
its value, the sent callback runs a second time with it, and `SendAccounted` fails: the `ASSERT` at `tun2socks.c:2227` is compiled
out of a release build, where `socks_recv_tcp_pending` then goes wrong. The run has `Stale = FALSE`.

`Relay` is the promise without buffers and callbacks: a side ends only when its own peer has gone, or when the other
side's peer has gone and everything that came from it has been handed over. A handler may do several such things at
once, so a step is a relation between the counts before and after. `Tun2Socks!R` is the refinement mapping (open sides
from `client_closed` and `socks_closed`, counts from `net`), and `RelaySpec` the property that every step maps to one.
An abort by `client_abort_client`, when `tcp_write` or `tcp_output` has failed (`tun2socks.c:2181-2206`), counts as a failure of the
device's side. So `RelaySpec` does not say that such an abort was necessary; that its "!?!" case never comes is `NeverStuck`.

### LwipRecv

The peer sends any segment inside the window it knows, as often and in whatever order, and a byte of probe when the
window is closed. Each byte is its offset, so that misplaced bytes are seen. Sequence numbers are taken modulo `M` and
compared as the macros do. Acknowledgements of an event may be lost. The application may refuse data (`Refusal`), as lwIP's
interface allows, and reads at once or later. The comparison at `tcp_in.c:1514` is kept as it is in the code, of plain numbers:
with an initial number whose window straddles the wrap (`Isns = {60}`, `M = 64`) a segment that fits is given a length beyond its
buffer, and `InOrder` fails. The run starts at numbers whose windows do not reach the wrap.
An event is a chain of operators on one record, one for each part of `tcp_input` and `tcp_receive`, so that each has a lemma.

### LwipSend

Sequence numbers are offsets; the wrap is the receiving half's business. The peer takes what is in its window and never
takes its window back. A segment under way
arrives at any time or never; an answer may never arrive, arrive again and again, or be held up (one at a time) and
arrive after later ones. Times are not modelled: a timer that runs may go off. tun2socks disables Nagle's algorithm on
each connection it accepts (`tun2socks.c:1792`), so the window alone decides what is sent. The length of the pbuf
queue is a free choice (`full`) wherever the code asks for it. `cwnd` is cut at the peer's largest window and `nrtx`
above its limit: beyond them the values make no difference to what is sent. Closing with unread data, or with no room
for the FIN, resets, as tun2socks does. A segment that brings the peer nothing new only makes it repeat its answer, which
`Answered` allows at any time; `Arrives` leaves it out, so that what the peer has received never goes back.

The peer's own stream is its FIN, whose number is `far.seq` before it and one less after. The constant `Repeats` says whether its
segments may arrive with a number used before: then its FIN may be lost and come again, and keepalives carry the present
acknowledgement and window under the number before the next (`Carried`). TCP allows both. The code handles neither: `tcp_receive`
leaves `snd_wnd` when the number is below `snd_wl1` (`tcp_in.c:903-905`) but takes the acknowledgement, and `tcp_output` counts
`snd_wnd` from `lastack` (`tcp_out.c:970`: "data available and window allows it to be sent?"). So when a plain acknowledgement
is lost and such a segment brings the same one, the old window is added to the new acknowledgement. With `Repeats = TRUE`
in `LwipSend.cfg` TLC shows it in six states: four bytes are sent into a window of four, the peer takes two and reads none, a
keepalive acknowledges them, and `tcp_write` sends bytes 4 and 5 beyond the edge at 4; `WithinOffer` fails. The peer drops the excess,
but when its next answer narrows the window and the third duplicate acknowledgement follows, the first segment stays in `unsent`
before later ones in `unacked`, where `tcp_close` puts the FIN on it in mid-stream: `QueuesSound` fails too, and behind it
`SendBufAccounted` and `NeverSilent`.

`lwip_send` and the theorems are therefore about `Repeats = FALSE`, which is an assumption about the device that TCP does not
give: acknowledgements may be lost, late and repeated, but a newer one never comes on an earlier number. It holds as long as the
device sends neither repeated data or FIN nor a keepalive while the answer to what it received is lost.

The loops of the code over a queue are counts of the segments that pass the test (`Leading`), and the loop of
`tcp_output` is a function of the number of segments sent (`SendFirst`), so that each can be reasoned about.

## 3. Runs

| Run | Checks | Bounds | Result |
|---|---|---|---|
| `pause` | `TypeOK`, `NoLostRelease`, `NoLostStop`, `GoodConditionsRelease` | 2 networks, both values of both preferences, 1 delayed disconnect, events only while fewer than 1 message is in flight | passes |
| `lost_network` | `LostNetworkHolds` | 1 network | violated |
| `user_pause` | `UserPauseRespected` | 1 network | violated |
| `routes` | `TypeOK`, `LongestPrefixWins`, `Disjoint`, `LoopAssertions`, `Terminates` | 4-bit addresses, 3 networks, few exceptions | passes |
| `routes_assert` | `LoopAssertions` | 3-bit addresses, any 3 networks | violated |
| `tun` | `TypeOK`, `AsPushed`, `KeepsOnlyEqual` | 5 pushes, 1 local network, at most 1 leftover DNS server at a connect | passes |
| `session_safety` | `TypeOK`, `StopReaches` | 2 sessions; failures, revocation and arbitrary sleeps, or overlapping starts | passes |
| `session_live` | `ServiceEnds`, `OldSessionEnds` | 2 sessions, failures | passes |
| `tun2socks` | `TypeOK`, `WindowAccounted`, `SendAccounted`, `NoDangling`, `NestingSafe`, `NeverStuck`, `RelaySpec`, `Reaped` | window 2, send buffer 3, SOCKS buffer 2, 3 bytes up and 4 down | passes |
| `lwip_recv` | `RecvTypeOK`, `InOrder`, `OoseqShape`, `RecvWindowAccounted`, `EdgeKept`, `AllDelivered` | window 6, segments up to 3, stream of 7 and FIN | passes |
| `lwip_send` | `SendTypeOK`, `QueuesSound`, `SendBufAccounted`, `WithinOffer`, `NeverSilent` | segments of 2, buffer and window 4, 6 bytes and FIN, 2 retransmissions, `Repeats = FALSE` | passes |
| `last_ack` | `ClosedDelivers` | the same with 5 bytes | violated |

**Why the bounds are enough.** Two networks distinguish "the same network came back" from "another one did", the only
thing the receiver asks. `MaxInFlight` restricts only when new events begin; calls already under way still send, so
the queues hold several messages, and the theorems below hold for every bound. Posted delayed disconnects are
interchangeable, and all but the first find the network no longer pending. Two sessions are a running one and its
replacement, and with `overlap` two that start at once. `OldSessionEnds` is claimed for two: with three, a middle one
that fails to write its configuration clears `mProcessThread` of a first one that has not connected yet, and the third
cannot find it (hazard at `OpenVPNService.java:599`). Four address bits with three networks contain every relation of
networks (equal, touching, same base, same end, nested, apart) and several levels of splitting. The five pushes share
and change every kind of setting, and one has no address. In `tun2socks` each buffer can be empty, partly filled and
full, the send buffer is larger than the SOCKS buffer and not a multiple of it, and the stream is longer than every
buffer, so each is reused. In `lwip_recv` the stream is longer than the window, which holds two full segments or six
small ones, and the out-of-order queue gets up to five. In `lwip_send` two segments fill the window and a third waits
behind it; three duplicate acknowledgements are reached, and both limits of retransmissions.

**Fairness.** Pause control: threads that are in a call go on, the management thread reads its socket, posted runnables
come due, the posted registration runs, and openvpn starts, reads commands and connects. Broadcasts, the user,
time-outs and byte counts are not fair. Sessions: threads run, the looper handles its queue, a process connects
(`ovpnConnect`) and obeys SIGINT; starts, stops, revocations and spontaneous exits are not fair. `Routes`: the loop runs on
one thread and waits for nothing. Weak fairness suffices for these: no step is disabled again and again by others,
except for `mProcessLock`, which is released after a bounded sleep. tun2socks: the device acknowledges or goes away, the
socket becomes ready, the negotiation goes on, and lwIP frees a finished pcb; new data, closes and resets are not fair. lwIP
receiving: the application reads (weak); of the segments at the first byte the peer misses, and of the runs of the fast
timer, not all are spoilt by loss or refusal (strong fairness: a loss may follow any one of them, but not every one).

**Deadlock** is checked for `PauseControl`, `TunConfig`, `NetworkSpace` and `Tun2Socks`, which never stops since a new
connection may always come. A `Session` instance really stops: the service is destroyed. `LwipRecv` and `LwipSend` stop
when the stream is complete or the pcb has gone.

### What the passing runs show

* `NoLostRelease`: whenever the conditions are good and openvpn holds, a release is on its way: the hold message is
  unread, the decision is being made, the runnable is posted, a releasing call is under way, or the command is on the socket.
* `NoLostStop`: when the network is gone and openvpn runs without being marked as held, a SIGUSR1 is on its way.
* `GoodConditionsRelease`: good conditions that last get openvpn out of its hold, again after every restart.
* `StopReaches`: `active` keeps every connected process within reach of a stop, although the fields of the service name only
  the newest session and a thread that reads end of stream never leaves `active`.
* `ServiceEnds`: `mStarting` is down when the last clean-up looks at it, so the service does not stay up with nothing to do.
* `OldSessionEnds`: SIGINT or the interrupt ends what a start replaces.
* `KeepsOnlyEqual`, `AsPushed`: over failures and interrupted pushes an interface is kept only for an equal
  configuration, and a push that finds the fields empty is collected as it was sent.
* `WindowAccounted`, `NeverStuck`: what lwIP has closed of the window is what `buf` holds, so data always finds room.
* `SendAccounted`: `socks_recv_tcp_pending` is what lwIP holds, and a buffer that waits has an acknowledgement to wait for.
* `NoDangling`, `NestingSafe`: pcb and client point at each other only while both live, through every nesting of callbacks.
* `RelaySpec`, `Reaped`: a connection is ended only with its debts paid, and then is freed.
* `InOrder`, `OoseqShape`, `RecvWindowAccounted`, `EdgeKept`, `AllDelivered`: trimming and joining segments, refused data and
  the rounding of the window lose no byte, no window, and no connection.
* `QueuesSound`, `SendBufAccounted`, `WithinOffer`: over retransmissions and partial acknowledgements each byte is in exactly one
  queued segment until acknowledged, the sent callback reports each once, and the offer of a peer whose numbers do not
  go back is respected.
* `NeverSilent`: something always remains to move the connection. It is the safety side of progress, whose liveness form
  TLC cannot finish on this state space. The one exception, `SmallWindow`, has no timer in the code: that
  stall is exempted here, not excluded.
* `LongestPrefixWins`, `Disjoint`, `LoopAssertions`, `Terminates`: within the inputs of `FewExceptions` the routes are right.

### Findings

Each is a run whose counterexample is a behaviour of the code against a statement in the repository; `PROJECT.json`
quotes both.

1. `user_pause`: a network that returns within the delay releases the hold of a VPN the user has paused.
2. `lost_network`: two calls may release one hold; if the second release arrives in the next hold, `mWaitingForRelease`
   stays up while openvpn runs, and the loss of the network is no longer signalled.
3. `routes_assert`: two exclusions inside one route, or two routes inside one exclusion (the trace TLC gives), can fail
   the loop's own assertion. A release build goes on:
   for 0.0.0.0/0 without 64.0.0.0/2 and 128.0.0.0/1 it gives most of 128.0.0.0/1 to the VPN.
4. `last_ack`: a closing connection is finished when the acknowledgement equals `snd_nxt`, even if data and the FIN are still
   unsent, as after a time-out, when the congestion window is one segment; what was unsent is dropped.

Weaknesses met in modelling without a run of their own: the repeated sent callback (`Stale`), the comparison at
`tcp_in.c:1514` and the window that an earlier number leaves behind (`Repeats`, `tcp_in.c:903`), all above;
`nrtx` stepping past `TCP_MAXRTX` by a fast retransmit, after which only an
acknowledgement ends the retransmissions (`tcp.c:893`); the old OpenVPN thread, still in `endVpnService` or waiting
for the lock its stopper sleeps with, that cleans up under the new session although "An old running VPN should now be
exited" (`OpenVPNService.java:622`); and a state line read after NOPROCESS that remains the last status, its EXITING
lost by a stop (`OpenVPNService.java:1193`).

## 4. Proofs

| Theorem | States | Hypothesis |
|---|---|---|
| `PauseControlProofs!TypeCorrect` | `Spec => []TypeOK` | |
| `PauseControlProofs!ReleaseNeverLost` | `Spec => []NoLostRelease` | `~BinderCalls`, `~RedundantResume` |
| `PauseControlProofs!StopNeverLost` | `Spec => []NoLostStop` | the same |
| `SessionProofs!TypeCorrect` | `Spec => []TypeOK` | |
| `SessionProofs!StopReachesAll` | `Spec => []StopReaches` | |
| `TunConfigProofs!TypeCorrect` | `Spec => []TypeOK` | |
| `TunConfigProofs!CollectedAsPushed` | `Spec => []AsPushed` | |
| `TunConfigProofs!KeptInterfaceIsEqual` | `Spec => KeepsOnlyEqual` | |
| `NetworkSpaceProofs!RoutesDisjoint` | `Spec => []Disjoint` | |
| `NetworkSpaceProofs!TypeCorrect` | `Spec => []TypeOK` | `~AnyNets` |
| `NetworkSpaceProofs!LongestPrefixDecides` | `Spec => []LongestPrefixWins` | `~AnyNets` |
| `NetworkSpaceProofs!AssertionsHold` | `Spec => []LoopAssertions` | `~AnyNets` |
| `Tun2SocksProofs!TypeCorrect` | `Spec => []TypeOK` | |
| `Tun2SocksProofs!WindowKept` | `Spec => []WindowAccounted` | |
| `Tun2SocksProofs!NeverDangling` | `Spec => []NoDangling` | |
| `Tun2SocksProofs!HandlersNestSafely` | `Spec => []NestingSafe` | |
| `Tun2SocksProofs!PendingIsQueued` | `Spec => []SendAccounted` | `~Stale` |
| `Tun2SocksProofs!BranchesNeverTaken` | `Spec => []NeverStuck` | `~Stale` |
| `Tun2SocksProofs!ImplementsRelay` | `Spec => RelaySpec` | `~Stale` |
| `LwipRecvProofs!RecvTypeCorrect` | `RecvSpec => []RecvTypeOK` | `NoWrap` |
| `LwipRecvProofs!DeliveredInOrder` | `RecvSpec => []InOrder` | `NoWrap` |
| `LwipRecvProofs!OoseqSound` | `RecvSpec => []OoseqShape` | `NoWrap` |
| `LwipRecvProofs!RecvWindowKept` | `RecvSpec => []RecvWindowAccounted` | `NoWrap` |
| `LwipRecvProofs!EdgeNeverBack` | `RecvSpec => []EdgeKept` | `NoWrap` |
| `LwipSendProofs!SendTypesCorrect` | `SendSpec => []SendTypeOK` | `~Repeats` |
| `LwipSendProofs!QueuesCorrect` | `SendSpec => []QueuesSound` | `~Repeats` |
| `LwipSendProofs!SendBufCorrect` | `SendSpec => []SendBufAccounted` | `~Repeats` |
| `LwipSendProofs!OfferRespected` | `SendSpec => []WithinOffer` | `~Repeats` |
| `LwipSendProofs!SilenceExcluded` | `SendSpec => []NeverSilent` | `~Repeats` |
| `RelayProofs!RelayDelivers` | `Relay!Spec => []Delivered` | |

They hold for every value of the constants the modules' `ASSUME`s admit: any networks, preferences, pushes, number of
sessions, address width, sizes of buffers, segments and windows, streams of any length. A hypothesis in the last column is stated in the theorem, and
each is needed. With `RedundantResume` the code does lose a release. With `AnyNets` its loop assertion does fail
(finding 3). With `Stale` the pending count does go wrong; what holds all the same (no freed memory, the window) is
proved without it. Without `NoWrap` (no window from a first number in `Isns` reaches the modulus) the queue does go
wrong: `tcp_in.c:1514` takes a segment that fits for an overrun and gives it a length beyond its buffer. With `Repeats` the
sender does pass the offer, and TLC refutes all but the type invariant of `LwipSend`, for which it found nothing.

**The inductive invariant of PauseControl.** `NoLostRelease` alone is not inductive: from it one cannot see that a `pause` in
progress, which removes the posted runnable, implies that the conditions are bad, nor that a `resume` that finds the
flag down will be followed by a hold message. `IInv` adds `CallInv` (which calls each thread can be in, and with which
argument), `PauseInv` (while the main thread is in `pause` or `signalusr1` the conditions do not allow the VPN to run),
`HoldLast` (the newest message of a holding process is its hold) and `FlagInv` (a
hold whose message has been read has left the flag up, unless its release is on the way). Each action has its own step,
with one step below it for every conjunct it can disturb.

**The inductive invariant of Session.** That a stop reaches a process depends on three threads agreeing about the
positions of two others. `Sequenced` says that a session that has not been started has no starter, and that its management thread begins
only after the starter has opened its socket. `Accepting` says that a thread that waits for a connection has no socket
yet and is in `active`. `Within` is `StopReaches` with a witness: a connected process that has not been told to
stop talks to a thread that is in `active` and whose socket is open. Neither a new session's bind on the same path nor
the end of another thread can then hide it.

**The inductive invariants of TunConfig.** `LastCfgIsTun`: while an interface is open `mLastTunCfg` describes it, and without
a process there is none. It is needed because the comparison is made with the recorded string, not with the interface.
`PushInv`: the fields hold what the commands of the present push say, as far as they have been received, so that at `openTun`
they hold what the whole push says. A push is a sequence of any length.

**The invariants of NetworkSpace.** `Disjoint` needs only the order of the loop: every finished network ends before the current
one begins, which begins no later than any in the queue. This holds for any networks. Routing is harder, because the loop replaces
networks by halves and drops others. `RouteInv` says that the current and the queued networks form a `Good` family
(well formed, no two equal, few exceptions), that this family routes every address from the current network on as the input
does, and that the finished networks do so for the addresses before. The lemmas behind it are about networks alone: two
networks are nested or apart; the halves of a network cover it and nothing else; replacing a network by its halves, or
dropping one whose addresses a network of the same type decides anyway, changes no longest-prefix decision. Where the
longest of a set of networks is needed, its existence follows from the least element of a set of naturals, since the
induction theorems of the library cannot be instantiated. For the same reason powers of two are a recursive function
(`PowerOfTwo`).

**The inductive invariant of Tun2Socks.** One event runs a handler inside a handler inside a third, so the invariant is
stated of the record the operators pass on (`Sound(s, x, a)`) and not only of the variables: `x` bytes of the window
and `a` bytes of the acknowledgement belong to a caller further out that has not used them yet. `Linked`
says which callbacks are set and which objects live, given which sides of the client are open; `Transfers`, which
transfers on the SOCKS connection may be under way; `Counted`, how window, buffers and pending bytes add up; `Clean`, that
nothing bad has been noted. `Settled` (a full receive buffer waits for an acknowledgement that will come, an empty one is
being filled) holds between events and not inside a handler. Every C function has a lemma: from a sound record it makes a sound record, what
it returns tells the truth about the pcb (the fact that lets lwIP go on after a callback), and without `Stale` the step from the first record to the last
is one of `Relay`. Relay steps compose (`RelaysTransitive`), so a whole event is one.

**The inductive invariant of LwipRecv.** It too is stated of the record of an event (`Sound(p, a, r, d, f)`), `d` and
`f` being the data and the FIN that `tcp_input` has taken over and not yet delivered, and all numbers in it are offsets
in the stream. `Stream` says that the bytes handed over, the refused ones and `d` are consecutive runs of the
stream up to `rcv_nxt`; `Window`, that with the unread bytes they and the FIN are what `rcv_wnd` lacks; `Fins`, that the FIN
is in one place, and that nothing follows it; `Edges`, that the peer knows of no edge beyond the one announced, nor that one of
an edge beyond the free window; `Queue`, that the segments in `ooseq` are `Good` (their buffers hold the bytes their headers
name), sorted, apart, behind `rcv_nxt` and inside the window. `InOrder` alone is not inductive: the bytes of a segment that
becomes in sequence come from the queue, so the queue's shape is part of it, and the queue is inside the window only because
of `Edges` and `Window`. The lemmas underneath are about sequence numbers (the macros order numbers less than half the
modulus apart, `SeqOrder`), the loops over the queue (where they stop, `LoopStops`), runs of bytes, and queues (parts,
concatenations and cuts of them). Then each function of the code has one: inserting, absorbing and cutting segments
keeps a queue (`QueueOoseqGood`, `AbsorbGood`); what follows in line joins to the next run of bytes (`JoinedLine`); the
window announced never takes back the last edge (`AnnouncedFits`); and every step of `tcp_input`, of the timers and of `tcp_recved`
keeps the record sound.

**The inductive invariant of LwipSend.** The five invariants of the run share one, `IInv`, since none is inductive. That no
byte leaves the queues depends on where the acknowledgement is, that on what the peer can have received, that on what was
sent, and this on the window, which comes from an acknowledgement that may be older than the last. `Queues` says that
`unacked` and `unsent` are, one behind the other, a `Line`: segments without gap or overlap from at or before `lastack` to the end
of the stream, each ending behind `lastack`, the FIN on the last and nowhere else. `InFlight`: what is unacked has been
sent, lies in the known window, and has its timer. `Counts`: `snd_buf`, `snd_lbb`, `lastack` and the confirmed bytes add up.
`Congestion`: the congestion window takes a segment, so after a time-out the first one leaves at once. `Peer`: what
the peer has is at most what was sent, or one byte of a probe; the answer the window was taken from is not newer than
the peer's present one in sequence number, acknowledgement or edge; and a late answer can be compared with it in all
three (`Past`). This is where `~Repeats` is used: a segment with an old number and a new acknowledgement is neither. And it
is what makes the test of `UpdateWindow` (`snd_wl1`, `snd_wl2`) right: a window it takes never moves the
known edge back, and one it ignores is not ahead. A pcb that has gone keeps its types only.
The lemmas underneath are about lines (`LineCat`, `LineSplit`, `LineTaken`), the loops (`ConfirmedLeads`, `ReadyLeads`), the loop of
`tcp_output`, which moves the first `n` unsent segments behind the unacked ones (`SendLine`) also when the first is a
retransmission that goes before them (`SendAgain`), and the cutting of a write into segments (`SegmentedLine`). Between a
fast retransmit and the `tcp_output` that ends `tcp_input` the first segment is at the head of `unsent`, before the unacked
ones (`Resent`): this is the only time the queues are not one line, and `OutputAgain` shows that it ends with the event.

**The inductive invariant of Relay.** `Delivered` says that a side that ended although its peer had not gone was
handed everything. It is not inductive: a side that has ended must not see the other bring more bytes. `Over` says
that then the other side has ended too. By `ImplementsRelay` this carries over to every connection of tun2socks.

**Only model-checked.** Liveness (`GoodConditionsRelease`, `Terminates`, `ServiceEnds`, `OldSessionEnds`, `Reaped`,
`AllDelivered`) is outside the prover's reach. What `LwipRecv` does at the wrap is left to TLC. Every invariant
and action property of a passing run has a theorem.

## 5. Not modelled

`PROJECT.json` gives the reason for every component. In short: the V2Ray services, HTTP tunnel, stunnel and DNS
process managers, the Orbot negotiation, the status service, CIDR arithmetic and traffic history are planned; the
configuration parser is character-level sequential code; the UI, advertising, purchases and server list are calls into
Android and third-party SDKs; `ExternalOpenVPNService` and `RemoteAction` are not in the manifest. Of the native code,
the UDP gateway and the DNS forwarding of tun2socks, lwIP's connection set-up, IP layers and timers' durations, and
pdnsd are left out; most of badvpn (client, server, ncd, the generated parsers of lemon and lime) and lwIP's socket
API and SNMP are in the tree but not in the sources `Android.mk` compiles.

## 6. Plan

1. **HttpTunnel**: accept loop, list of connections under its two locks, establishment against `close`, the count of
   ended relay threads. Properties: after `close` every socket is eventually closed; a connection is removed exactly
   once. An abstract specification (a set of open connections that shrinks to nothing after a stop) for it to
   implement.
2. **V2RayService**: start and stop of the core, the asynchronous `stopLoop`, the shutdown callback and the tun2socks
   watcher. Properties: no tun2socks process outlives its session; a start request is not lost; a callback stops only
   its own session.
3. **ProcessManager**: the self-restarting stunnel and DNS processes against stop and start.
4. **Orbot**: the time-out against `onOrbotReady`; every proxy request is answered exactly once.
5. **Cidr and TrafficHistory**: netmask arithmetic and consolidation, checked against reference definitions.
6. **UDP gateway**: the connections of `SocksUdpGwClient` and their reuse when the table is full.
7. **Theorems**: the safety of `HttpTunnel` and of the other modules above.
