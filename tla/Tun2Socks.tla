------------------------------ MODULE Tun2Socks ------------------------------
(***************************************************************************)
(* One TCP connection of the tun2socks process that V2RayVpnService runs   *)
(* (jni/badvpn): the lwIP pcb that terminates the device's connection, the *)
(* tcp_client structure of tun2socks.c and the BSocksClient that carries   *)
(* its bytes to the local SOCKS server.                                    *)
(*                                                                         *)
(* The process is one thread: an event (a segment read from the tun        *)
(* device, a timer, a socket that became readable or writable) runs its    *)
(* handler to the end, but handlers call back into each other: lwIP calls  *)
(* the client from inside tcp_input, the client calls tcp_close or         *)
(* tcp_abort from inside that callback, and a SYNC_COMMIT runs socket jobs *)
(* in the middle of both.  So a C function is an operator on the state     *)
(* record s = [pcb, client, socks, net, ret, c, log], and an action is one *)
(* event with everything it calls.                                         *)
(*                                                                         *)
(* Bytes are counted, not named: each queue is first in, first out.        *)
(***************************************************************************)
EXTENDS Integers, Sequences

CONSTANTS Wnd,        \* TCP_WND: the receive window, and the size of client->buf
          SndBuf,     \* TCP_SND_BUF: the send buffer of the pcb
          RecvBuf,    \* CLIENT_SOCKS_RECV_BUF_SIZE
          Methods,    \* socks_auth_info: subset of {"none", "password"}
          MaxUp,      \* bound: bytes the device sends on one connection
          MaxDown,    \* bound: bytes the SOCKS server sends on one connection
          Stale       \* whether a SYN or stray RST may follow an acknowledgement at once

ASSUME SizesAssumption ==
  /\ Wnd \in Nat \ {0} /\ SndBuf \in Nat \ {0} /\ RecvBuf \in Nat \ {0}
  /\ MaxUp \in Nat /\ MaxDown \in Nat
  /\ Methods \subseteq {"none", "password"} /\ Stale \in BOOLEAN

VARIABLES
  pcb,     \* lwIP's control block of the device's connection
  client,  \* struct tcp_client
  socks,   \* BSocksClient of that client
  net,     \* what the two peers have done so far (environment and history)
  log      \* assertions and "!?!" branches the code has run into

vars == <<pcb, client, socks, net, log>>

Open == {"ESTABLISHED", "CLOSE_WAIT"}

NoPcb == [state |-> "freed", err |-> FALSE, recv |-> FALSE, sent |-> FALSE,
          unread |-> 0, queued |-> 0, acked |-> 0]

NoClient == [live |-> FALSE, client_closed |-> TRUE, socks_closed |-> TRUE,
             socks_up |-> FALSE, buf_used |-> 0, recv_buf_used |-> -1,
             recv_buf_sent |-> 0, recv_waiting |-> FALSE, tcp_pending |-> 0]

NoSocks == [state |-> "freed", sending |-> 0, receiving |-> FALSE]

\* up, down: bytes taken from the device and from the server; given,
\* confirmed: bytes written to the server's socket and acknowledged by the device.
NoNet == [up |-> 0, given |-> 0, down |-> 0, confirmed |-> 0, clientGone |-> FALSE, socksGone |-> FALSE]

Init == pcb = NoPcb /\ client = NoClient /\ socks = NoSocks /\ net = NoNet /\ log = {}

-----------------------------------------------------------------------------
(* The state a handler works on.  c holds the choices of the libraries the   *)
(* handler calls: whether tcp_write and tcp_send_fin find the segment queue  *)
(* full, whether tcp_output cannot allocate, and what the socket jobs of a   *)
(* SYNC_COMMIT find.                                                         *)

Here(c) == [pcb |-> pcb, client |-> client, socks |-> socks, net |-> net,
            log |-> log, ret |-> "OK", c |-> c]

Become(s) == /\ pcb' = s.pcb /\ client' = s.client /\ socks' = s.socks
             /\ net' = s.net /\ log' = s.log

Note(s, bad, what) == IF bad THEN [s EXCEPT !.log = @ \cup {what}] ELSE s

\* Dereferencing a freed pcb or a freed client is undefined behaviour: noted.
UsePcb(s) == Note(s, s.pcb.state = "freed", "freed pcb")
UseClient(s) == Note(s, ~s.client.live, "freed client")

Outcomes == [job : {"sent", "received"}, n : 1..(IF Wnd > RecvBuf THEN Wnd ELSE RecvBuf)]
              \cup [job : {"error", "eof"}, n : {0}]

\* A SYNC_COMMIT's socket jobs: none completes, one does, or one moves bytes
\* and the one it starts finds the connection failed or closed.
JobRuns == {<<>>} \cup {<<o>> : o \in Outcomes}
             \cup {<<o, p>> : o \in {x \in Outcomes : x.n > 0}, p \in {x \in Outcomes : x.n = 0}}

\* Only the choices the present state lets matter are enumerated.
Library == [full : IF pcb.queued > 0 THEN BOOLEAN ELSE {FALSE},
            oom : IF client.socks_up THEN BOOLEAN ELSE {FALSE}, jobs : {<<>>}]

Oracles == [full : IF pcb.queued > 0 THEN BOOLEAN ELSE {FALSE},
            oom : IF client.recv_waiting THEN BOOLEAN ELSE {FALSE},
            jobs : IF client.socks_up THEN JobRuns ELSE {<<>>}]

\* An event whose handlers run no SYNC_COMMIT.
Plain == [full |-> FALSE, oom |-> FALSE, jobs |-> <<>>]

Least(a, b) == IF a < b THEN a ELSE b

-----------------------------------------------------------------------------
(* lwIP: the calls the client makes on its pcb.                              *)

\* Mutant: the error callback is left set.
NoCallbacks_KeepErr(s) == [UsePcb(s) EXCEPT !.pcb.recv = FALSE, !.pcb.sent = FALSE]

\* tcp_err, tcp_recv and tcp_sent with NULL.
NoCallbacks(s) ==
  [UsePcb(s) EXCEPT !.pcb.err = FALSE, !.pcb.recv = FALSE, !.pcb.sent = FALSE]

\* tcp_abandon with a reset: the queues go and the pcb with them.  The error
\* callback is called when it is still set: client_err_func's own effect is
\* in PcbDead below, no caller here leaves it set.
tcp_abort(s) ==
  LET u == Note(UsePcb(s), s.pcb.err, "abort with callback")
  IN [u EXCEPT !.pcb = NoPcb]

\* Data the application has not taken makes tcp_close reset the connection;
\* otherwise a FIN is queued, which fails when the queue has no room for it.
tcp_close(s) ==
  LET u == UsePcb(s)
  IN IF s.pcb.state \in Open /\ s.pcb.unread > 0
     THEN [u EXCEPT !.ret = "OK",
                    !.pcb = [NoPcb EXCEPT !.state = IF s.pcb.state = "ESTABLISHED"
                                                    THEN "TIME_WAIT" ELSE "freed"]]
     ELSE IF s.pcb.queued > 0 /\ s.c.full
          THEN [u EXCEPT !.ret = "MEM"]
          ELSE [u EXCEPT !.ret = "OK",
                         !.pcb.state = IF s.pcb.state = "ESTABLISHED"
                                       THEN "FIN_WAIT_1" ELSE "LAST_ACK"]

tcp_recved(s, n) ==
  [UsePcb(s) EXCEPT !.pcb.unread = IF @ > n THEN @ - n ELSE 0]

\* Mutant: the space of an empty send buffer.
tcp_sndbuf_Whole(s) == SndBuf

tcp_sndbuf(s) == SndBuf - s.pcb.queued

\* All or nothing.  A queue that holds nothing cannot be full.
tcp_write(s, n) ==
  LET u == UsePcb(s)
  IN IF s.pcb.state \notin Open THEN [u EXCEPT !.ret = "CONN"]
     ELSE IF s.pcb.queued > 0 /\ s.c.full THEN [u EXCEPT !.ret = "MEM"]
     ELSE [u EXCEPT !.ret = "OK", !.pcb.queued = @ + n]

tcp_output(s) == [UsePcb(s) EXCEPT !.ret = IF s.c.oom THEN "BUF" ELSE "OK"]

-----------------------------------------------------------------------------
(* tun2socks.c: closing one side, the other side, and the structure.         *)

client_dealloc(s) ==
  LET u == Note(UseClient(s), ~s.client.client_closed \/ ~s.client.socks_closed, "dealloc")
  IN [u EXCEPT !.client = NoClient]

\* The pcb part of client_free_client and of client_abort_client.
ClosePcb(s) ==
  LET u == tcp_close(NoCallbacks(s))
  IN IF u.ret = "OK" THEN u ELSE tcp_abort(u)

AbortPcb(s) == tcp_abort(NoCallbacks(s))

BSocksClient_Free(s) == [s EXCEPT !.socks = NoSocks]

\* Mutant: the client is closed although bytes for it are still queued.
client_free_socks_NoWait(s) ==
  LET u == [BSocksClient_Free(s) EXCEPT !.client.socks_closed = TRUE]
  IN IF ~s.client.client_closed
     THEN client_dealloc([ClosePcb(u) EXCEPT !.client.client_closed = TRUE])
     ELSE client_dealloc(u)

\* With bytes still to give to the client the structure waits for
\* client_sent_func; otherwise client_free_client, which with SOCKS closed
\* ends in client_dealloc.
client_free_socks(s) ==
  LET t == IF s.client.socks_up /\ ~s.client.client_closed
           THEN [UsePcb(s) EXCEPT !.pcb.recv = FALSE] ELSE s
      u == [BSocksClient_Free(t) EXCEPT !.client.socks_closed = TRUE]
  IN IF /\ s.client.socks_up /\ ~s.client.client_closed
        /\ s.client.recv_buf_used >= 0 \/ s.client.tcp_pending > 0
     THEN u
     ELSE IF ~s.client.client_closed
          THEN client_dealloc([ClosePcb(u) EXCEPT !.client.client_closed = TRUE])
          ELSE client_dealloc(u)

client_handle_freed_client(s) ==
  LET u == [UseClient(s) EXCEPT !.client.client_closed = TRUE]
  IN IF s.client.buf_used > 0 /\ ~s.client.socks_closed THEN u
     ELSE IF ~s.client.socks_closed THEN client_free_socks(u)
     ELSE client_dealloc(u)

client_free_client(s) == client_handle_freed_client(ClosePcb(s))

\* Its callers could not queue or send what is for the device: for Relay the
\* device's side has then failed.
client_abort_client(s) ==
  client_handle_freed_client([AbortPcb(s) EXCEPT !.net.clientGone = TRUE])

client_murder(s) ==
  LET u == IF s.client.client_closed THEN s
           ELSE [AbortPcb(s) EXCEPT !.client.client_closed = TRUE]
      v == IF s.client.socks_closed THEN u
           ELSE [BSocksClient_Free(u) EXCEPT !.client.socks_closed = TRUE]
  IN client_dealloc(v)

client_err_func(s) == client_handle_freed_client(Note(s, s.client.client_closed, "callback"))

-----------------------------------------------------------------------------
(* tun2socks.c: bytes to the client.                                         *)

\* ret is "ABRT" when the pcb is gone, "OK" when it is still up.
client_socks_recv_send_out(s) ==
  LET left == s.client.recv_buf_used - s.client.recv_buf_sent
      n    == Least(left, tcp_sndbuf(s))
      w    == IF n = 0 THEN [s EXCEPT !.ret = "OK"] ELSE tcp_write(s, n)
      done == IF n = 0 \/ w.ret # "OK" THEN w
              ELSE [w EXCEPT !.client.recv_buf_sent = @ + n, !.client.tcp_pending = @ + n]
      out  == tcp_output(done)
      more == out.client.recv_buf_sent < out.client.recv_buf_used
      Abort(t) == [client_abort_client(t) EXCEPT !.ret = "ABRT"]
  IN IF w.ret = "CONN" THEN Abort(w)
     ELSE IF out.ret # "OK" THEN Abort(out)
     ELSE IF more /\ out.client.tcp_pending = 0
          THEN Abort(Note(out, TRUE, "can't queue data"))
     ELSE IF more THEN [out EXCEPT !.client.recv_waiting = TRUE]
     ELSE [out EXCEPT !.client.recv_buf_used = -1]

client_socks_recv_initiate(s) ==
  LET u == Note(s, s.client.client_closed \/ s.client.socks_closed
                     \/ s.client.recv_buf_used # -1 \/ s.socks.receiving, "receive")
  IN [u EXCEPT !.socks.receiving = TRUE]

client_socks_recv_handler_done(s, n) ==
  LET u == [s EXCEPT !.socks.receiving = FALSE]
      v == [u EXCEPT !.client.recv_buf_used = n, !.client.recv_buf_sent = 0,
                     !.client.recv_waiting = FALSE]
      w == client_socks_recv_send_out(v)
  IN IF s.client.client_closed THEN u
     ELSE IF w.ret = "OK" /\ w.client.recv_buf_used = -1
          THEN client_socks_recv_initiate(w) ELSE w

-----------------------------------------------------------------------------
(* tun2socks.c: bytes to SOCKS.                                              *)

client_send_to_socks(s) ==
  LET u == Note(s, s.client.socks_closed \/ ~s.client.socks_up \/ s.socks.sending > 0, "send")
  IN [u EXCEPT !.socks.sending = s.client.buf_used]

\* Mutant: bytes given to SOCKS are not confirmed to lwIP.
client_socks_send_handler_done_NoRecved(s, n) ==
  LET v == [s EXCEPT !.socks.sending = 0, !.client.buf_used = @ - n, !.net.given = @ + n]
  IN IF v.client.buf_used > 0 THEN client_send_to_socks(v)
     ELSE IF v.client.client_closed THEN client_free_socks(v)
     ELSE v

client_socks_send_handler_done(s, n) ==
  LET u == [s EXCEPT !.socks.sending = 0, !.client.buf_used = @ - n, !.net.given = @ + n]
      v == IF s.client.client_closed THEN u ELSE tcp_recved(u, n)
  IN IF v.client.buf_used > 0 THEN client_send_to_socks(v)
     ELSE IF v.client.client_closed THEN client_free_socks(v)
     ELSE v

\* BSOCKSCLIENT_EVENT_ERROR and BSOCKSCLIENT_EVENT_ERROR_CLOSED.
SocksGone(s) == client_free_socks([s EXCEPT !.net.socksGone = TRUE])

\* BSOCKSCLIENT_EVENT_UP.
SocksUp(s) ==
  LET u == [s EXCEPT !.socks.state = "UP", !.client.recv_buf_used = -1,
                     !.client.tcp_pending = 0, !.client.socks_up = TRUE,
                     !.pcb.sent = IF s.client.client_closed THEN @ ELSE TRUE]
      v == IF u.client.buf_used > 0 THEN client_send_to_socks(u) ELSE u
  IN IF v.client.client_closed THEN v ELSE client_socks_recv_initiate(UsePcb(v))

\* What one socket job finds: connection_send and connection_recv.  Left
\* out is an error event while neither transfer is under way, which does the same.
SocketJob(s, o) ==
  IF ~s.client.live \/ s.socks.state # "UP" THEN s
  ELSE CASE o.job = "sent" /\ s.socks.sending >= o.n -> client_socks_send_handler_done(s, o.n)
         [] o.job = "received" /\ s.socks.receiving /\ o.n <= RecvBuf
              /\ s.net.down + o.n <= MaxDown ->
              client_socks_recv_handler_done([s EXCEPT !.net.down = @ + o.n], o.n)
         [] o.job = "error" /\ (s.socks.sending > 0 \/ s.socks.receiving) -> SocksGone(s)
         [] o.job = "eof" /\ s.socks.receiving -> SocksGone(s)
         [] OTHER -> s

\* The socket jobs of s.c, as far as they are of the kinds given.
Jobs(s, kinds) ==
  LET Run(t, i) == IF i <= Len(s.c.jobs) /\ s.c.jobs[i].job \in kinds
                   THEN SocketJob(t, s.c.jobs[i]) ELSE t
  IN Run(Run(s, 1), 2)

\* Mutant: the caller does not look whether the jobs killed the client.
SYNC_COMMIT_NoDead(s, jobs) ==
  [Jobs(s, jobs) EXCEPT !.ret = "OK"]

\* The value a callback returns after DEAD_LEAVE2 of dead_client.
DEAD_LEAVE2(s) == [s EXCEPT !.ret = IF s.client.client_closed THEN "ABRT" ELSE "OK"]

\* SYNC_COMMIT between DEAD_ENTER and DEAD_LEAVE2 of dead_client.  Only the
\* operation that was just started, and those it starts, run.
SYNC_COMMIT(s, jobs) == DEAD_LEAVE2(Jobs(s, jobs))

-----------------------------------------------------------------------------
(* tun2socks.c: the callbacks lwIP makes from inside tcp_input.              *)

\* Mutant: data is confirmed to lwIP when it is copied, not when SOCKS takes it.
client_recv_func_RecvedEarly(s, n) ==
  LET v == tcp_recved([UseClient(s) EXCEPT !.client.buf_used = @ + n], n)
  IN IF n = 0 THEN [client_free_client(UseClient(s)) EXCEPT !.ret = "ABRT"]
     ELSE IF n > Wnd - s.client.buf_used
          THEN [Note(s, TRUE, "no buffer for data") EXCEPT !.ret = "MEM"]
     ELSE IF s.client.buf_used = 0 /\ s.client.socks_up
          THEN SYNC_COMMIT(client_send_to_socks(v), {"sent", "error"})
     ELSE [v EXCEPT !.ret = "OK"]

client_recv_func(s, n) ==
  LET u == Note(UseClient(s), s.client.client_closed, "callback")
      v == [u EXCEPT !.client.buf_used = @ + n]
  IN IF n = 0 THEN [client_free_client(u) EXCEPT !.ret = "ABRT"]
     ELSE IF n > Wnd - s.client.buf_used
          THEN [Note(u, TRUE, "no buffer for data") EXCEPT !.ret = "MEM"]
     ELSE IF s.client.buf_used = 0 /\ s.client.socks_up
          THEN SYNC_COMMIT(client_send_to_socks(v), {"sent", "error"})
     ELSE [v EXCEPT !.ret = "OK"]

\* Mutant: the part of the buffer that waited is queued, but not counted off.
client_sent_func_NoDecrement(s, n) ==
  LET w == client_socks_recv_send_out([UseClient(s) EXCEPT !.client.recv_waiting = FALSE])
  IN IF s.client.recv_buf_used > 0 THEN w ELSE [s EXCEPT !.ret = "OK"]

\* Mutant: a client whose SOCKS side is closed is not freed with its last byte.
client_sent_func_NoFree(s, n) ==
  LET v == [UseClient(s) EXCEPT !.client.tcp_pending = @ - n]
      w == client_socks_recv_send_out([v EXCEPT !.client.recv_waiting = FALSE])
  IN IF v.client.recv_buf_used > 0
     THEN IF w.ret = "OK" /\ w.client.recv_buf_used = -1 /\ ~w.client.socks_closed
          THEN client_socks_recv_initiate(w) ELSE w
     ELSE [v EXCEPT !.ret = "OK"]

\* client_sent_func after it has queued more of the buffer.
SentMore(s) ==
  IF s.ret = "ABRT" THEN s
  ELSE IF s.client.recv_buf_used = -1 /\ ~s.client.socks_closed
       THEN SYNC_COMMIT(client_socks_recv_initiate(s), {"received", "error", "eof"})
       ELSE [s EXCEPT !.ret = "OK"]

\* The rest of client_sent_func, once the confirmed bytes are counted off.
SentRest(s) ==
  IF s.client.recv_buf_used > 0
  THEN SentMore(client_socks_recv_send_out([s EXCEPT !.client.recv_waiting = FALSE]))
  ELSE IF s.client.socks_closed /\ s.client.tcp_pending = 0
       THEN [client_free_client(s) EXCEPT !.ret = "ABRT"]
       ELSE [s EXCEPT !.ret = "OK"]

client_sent_func(s, n) ==
  LET u == Note(UseClient(s), s.client.client_closed \/ ~s.client.socks_up, "callback")
  IN SentRest([Note(u, n > s.client.tcp_pending, "pending") EXCEPT !.client.tcp_pending = @ - n])

-----------------------------------------------------------------------------
(* lwIP: the events of one incoming segment, in tcp_input's order.           *)

EventSent(s) ==
  IF s.pcb.acked > 0 /\ s.pcb.sent THEN client_sent_func(s, s.pcb.acked)
  ELSE [s EXCEPT !.ret = "OK"]

\* Without a callback tcp_recv_null takes the bytes and drops them.
EventRecv(s, n) ==
  LET u == [UsePcb(s) EXCEPT !.net.up = @ + n]
  IN IF s.ret = "ABRT" \/ n = 0 THEN s
     ELSE IF s.pcb.recv THEN client_recv_func(u, n)
     ELSE [tcp_recved(u, n) EXCEPT !.ret = "OK"]

EventClosed(s, fin) ==
  LET u == tcp_recved(s, 1)
  IN IF s.ret = "ABRT" \/ ~fin THEN s
     ELSE IF s.pcb.recv THEN client_recv_func([u EXCEPT !.net.clientGone = TRUE], 0)
     ELSE [u EXCEPT !.ret = "OK"]

\* The tcp_output with which tcp_input ends, when no callback ended the pcb.
EventOutput(s) == IF s.ret = "ABRT" THEN s ELSE UsePcb(s)

\* tcp_process and tcp_receive of an open connection: ack bytes of the send
\* queue are confirmed, data bytes are new and in order, fin closes.
\* A FIN takes one byte of the window until tcp_input gives it back.
Segments == [ack : 0..SndBuf, data : 0..Wnd, fin : BOOLEAN]

FinLen(seg) == IF seg.fin THEN 1 ELSE 0

tcp_receive(s, seg) ==
  [s EXCEPT !.pcb.acked = seg.ack, !.pcb.queued = @ - seg.ack,
            !.pcb.unread = @ + seg.data + FinLen(seg),
            !.net.confirmed = @ + seg.ack,
            !.pcb.state = IF seg.fin THEN "CLOSE_WAIT" ELSE @]

Events(s, seg) == EventOutput(EventClosed(EventRecv(EventSent(s), seg.data), seg.fin))

\* A segment the peer can send now: inside the window, new data only before
\* its FIN.
Possible(seg) ==
  /\ seg.ack <= pcb.queued
  /\ net.up + seg.data <= MaxUp
  /\ IF pcb.state = "ESTABLISHED" THEN seg.data + FinLen(seg) <= Wnd - pcb.unread
     ELSE seg.data = 0 /\ ~seg.fin

TcpInput(seg, c) ==
  /\ pcb.state \in Open
  /\ Possible(seg)
  /\ Become(Events(tcp_receive(Here(c), seg), seg))

\* tcp_process answers a SYN or an unacceptable RST and returns ERR_OK without
\* tcp_receive, so that pcb->acked is still that of the segment before.
TcpInputStale(c) ==
  /\ Stale \/ pcb.acked = 0
  /\ pcb.state \in Open
  /\ Become(Events(Here(c), [ack |-> 0, data |-> 0, fin |-> FALSE]))

\* The error callback without a live pcb: a RST of the device, or tcp_slowtmr
\* gives up after TCP_MAXRTX retransmissions.
PcbDead(s) ==
  [(IF s.pcb.err THEN client_err_func(s) ELSE s) EXCEPT !.pcb = NoPcb]

DeviceGone == [Here(Plain) EXCEPT !.net.clientGone = TRUE]

TcpReset ==
  /\ pcb.state \in Open
  /\ Become(PcbDead(DeviceGone))

TcpSlowtmr ==
  /\ pcb.state \in Open
  /\ pcb.queued > 0
  /\ Become(PcbDead(DeviceGone))

\* After tcp_close the pcb has no callbacks; acknowledgements, resets and
\* timers lead it to memp_free.
PcbFinished ==
  /\ pcb.state \in {"FIN_WAIT_1", "LAST_ACK", "TIME_WAIT"}
  /\ Become(PcbDead(Here(Plain)))

\* The ACK of our SYN.  BSocksClient_Init may fail, then lwIP aborts; the
\* connect may fail at once, inside the SYNC_COMMIT.
Accepted ==
  [Here(Plain) EXCEPT
     !.pcb = [NoPcb EXCEPT !.state = "ESTABLISHED", !.err = TRUE, !.recv = TRUE],
     !.client = [NoClient EXCEPT !.live = TRUE, !.client_closed = FALSE,
                                 !.socks_closed = FALSE],
     !.socks = [NoSocks EXCEPT !.state = "CONNECTING"],
     !.net = NoNet]

listener_accept_func(fails, seg) ==
  /\ ~client.live /\ pcb.state = "freed"
  /\ seg.ack = 0 /\ seg.data <= MaxUp /\ seg.data + FinLen(seg) <= Wnd
  /\ Become(IF fails THEN SocksGone(Accepted) ELSE Events(tcp_receive(Accepted, seg), seg))

-----------------------------------------------------------------------------
(* BSocksClient.c before UP: one action per completed step, `ok' false when  *)
(* the step or the server's answer is refused.                               *)

Negotiating(state) == client.live /\ socks.state = state

NextState(ok, state) ==
  Become(IF ok THEN [Here(Plain) EXCEPT !.socks.state = state]
         ELSE SocksGone(Here(Plain)))

connector_handler(ok) ==
  Negotiating("CONNECTING") /\ NextState(ok /\ Methods # {}, "SENDING_HELLO")

send_handler_done ==
  \/ Negotiating("SENDING_HELLO") /\ NextState(TRUE, "SENT_HELLO")
  \/ Negotiating("SENDING_PASSWORD") /\ NextState(TRUE, "SENT_PASSWORD")
  \/ Negotiating("SENDING_REQUEST") /\ NextState(TRUE, "SENT_REQUEST")

\* The server picks a method; one that was not offered is refused.
ReceivedHello(method) ==
  /\ Negotiating("SENT_HELLO")
  /\ NextState(method \in Methods,
               IF method = "password" THEN "SENDING_PASSWORD" ELSE "SENDING_REQUEST")

ReceivedPasswordReply(ok) ==
  Negotiating("SENT_PASSWORD") /\ NextState(ok, "SENDING_REQUEST")

ReceivedReplyHeader(ok) ==
  Negotiating("SENT_REQUEST") /\ NextState(ok, "RECEIVED_REPLY_HEADER")

ReceivedReplyRest ==
  Negotiating("RECEIVED_REPLY_HEADER") /\ Become(SocksUp(Here(Plain)))

\* connection_handler during the negotiation.
ControlError ==
  /\ client.live /\ socks.state \notin {"CONNECTING", "UP", "freed"}
  /\ Become(SocksGone(Here(Plain)))

\* A socket event in the main loop.
SocketReady(o, c) ==
  /\ client.live /\ socks.state = "UP"
  /\ Become(SocketJob(Here(c), o))

\* Terminating the process murders every client.
Terminate == client.live /\ Become(client_murder([Here(Plain) EXCEPT !.net.clientGone = TRUE,
                                                                     !.net.socksGone = TRUE]))

Negotiation ==
  \/ \E ok \in BOOLEAN : connector_handler(ok) \/ ReceivedPasswordReply(ok)
                           \/ ReceivedReplyHeader(ok)
  \/ send_handler_done
  \/ \E m \in {"none", "password", "refused"} : ReceivedHello(m)
  \/ ReceivedReplyRest
  \/ ControlError

Next ==
  \/ \E fails \in BOOLEAN, seg \in Segments : listener_accept_func(fails, seg)
  \/ \E seg \in Segments, c \in Oracles : TcpInput(seg, c)
  \/ \E c \in Oracles : TcpInputStale(c)
  \/ TcpReset
  \/ TcpSlowtmr
  \/ PcbFinished
  \/ Negotiation
  \/ \E o \in Outcomes, c \in Library : SocketReady(o, c)
  \/ Terminate

-----------------------------------------------------------------------------
PcbType ==
  [state : Open \cup {"FIN_WAIT_1", "LAST_ACK", "TIME_WAIT", "freed"},
   err : BOOLEAN, recv : BOOLEAN, sent : BOOLEAN,
   unread : 0..Wnd, queued : 0..SndBuf, acked : 0..SndBuf]

ClientType ==
  [live : BOOLEAN, client_closed : BOOLEAN, socks_closed : BOOLEAN, socks_up : BOOLEAN,
   buf_used : 0..Wnd, recv_buf_used : -1..RecvBuf, recv_buf_sent : 0..RecvBuf,
   recv_waiting : BOOLEAN, tcp_pending : Int]

SocksType ==
  [state : {"CONNECTING", "SENDING_HELLO", "SENT_HELLO", "SENDING_PASSWORD", "SENT_PASSWORD",
            "SENDING_REQUEST", "SENT_REQUEST", "RECEIVED_REPLY_HEADER", "UP", "freed"},
   sending : 0..Wnd, receiving : BOOLEAN]

NetType == [up : Nat, given : Nat, down : Nat, confirmed : Nat,
            clientGone : BOOLEAN, socksGone : BOOLEAN]

\* Every field keeps its range: the buffers of the client and the send buffer
\* of the pcb never hold more than their sizes.
TypeOK == pcb \in PcbType /\ client \in ClientType /\ socks \in SocksType /\ net \in NetType

-----------------------------------------------------------------------------
(* Fairness: the device acknowledges what it gets or lwIP gives up on it     *)
(* (tcp_slowtmr), closed pcbs run out, the SOCKS server answers or its       *)
(* connection fails, and a socket the kernel can write to is reported.       *)

DeviceProgress ==
  TcpSlowtmr \/ \E seg \in Segments : seg.ack > 0 /\ TcpInput(seg, Plain)

SocketProgress ==
  \E o \in Outcomes : o.job = "sent" /\ SocketReady(o, Plain)

Fairness ==
  /\ WF_vars(DeviceProgress) /\ WF_vars(PcbFinished)
  /\ WF_vars(Negotiation) /\ WF_vars(SocketProgress)

Spec == Init /\ [][Next]_vars /\ Fairness

-----------------------------------------------------------------------------
(* Properties.                                                               *)

\* The window lwIP has closed is exactly what client->buf holds, so the buffer
\* never overflows and the window opens again when SOCKS has taken the bytes.
WindowAccounted ==
  client.live /\ ~client.client_closed /\ pcb.recv => pcb.unread = client.buf_used

\* socks_recv_tcp_pending is exactly what lwIP still holds for the device, so
\* that ASSERT(len <= client->socks_recv_tcp_pending) of client_sent_func holds,
\* and a partly queued buffer always waits for an acknowledgement that will come.
\* With Stale = TRUE it fails: the same acknowledgement is reported twice.
SendAccounted ==
  /\ "pending" \notin log
  /\ client.live /\ client.socks_up /\ ~client.client_closed =>
       /\ client.tcp_pending = pcb.queued
       /\ client.recv_buf_used > 0 => client.recv_waiting /\ client.tcp_pending > 0

\* The pcb and the structure point at each other only while both are alive: a
\* client that is not closed has an open pcb, and a pcb with a callback set
\* has a client that is not closed.
NoDangling ==
  /\ client.live /\ ~client.client_closed => pcb.state \in Open
  /\ pcb.err \/ pcb.recv \/ pcb.sent => client.live /\ ~client.client_closed

\* No handler, however nested, touches a freed pcb or a freed client, starts a
\* second transfer on a busy socket, or returns to lwIP without ERR_ABRT when
\* the pcb is gone.
NestingSafe ==
  log \cap {"freed pcb", "freed client", "callback", "dealloc", "send", "receive",
            "abort with callback"} = {}

\* The two branches whose message ends in "!?!" are never taken.
NeverStuck == log \cap {"no buffer for data", "can't queue data"} = {}

\* The connection implements the relay it promises.
R == INSTANCE Relay WITH
       UpMax <- Wnd, DownMax <- SndBuf + RecvBuf,
       deviceOpen <- client.live /\ ~client.client_closed,
       serverOpen <- client.live /\ ~client.socks_closed,
       deviceGone <- net.clientGone, serverGone <- net.socksGone,
       fromDevice <- net.up, toServer <- net.given,
       fromServer <- net.down, toDevice <- net.confirmed

RelaySpec == R!Spec

\* A connection with one side closed is reaped: the other side is drained or
\* fails, and the structure is freed.
Reaped ==
  client.live /\ (client.client_closed \/ client.socks_closed) ~> ~client.live
=============================================================================
