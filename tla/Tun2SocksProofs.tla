-------------------------- MODULE Tun2SocksProofs ---------------------------
(***************************************************************************)
(* Proofs about Tun2Socks, for all sizes of the window and the buffers and *)
(* all bounds on the streams.                                              *)
(*                                                                         *)
(* A handler is an operator on the state record s, so there is one lemma   *)
(* per C function: from a sound state it leads to a sound state, and what  *)
(* it does to the counts is a step of the relay (Relays).                  *)
(***************************************************************************)
EXTENDS Tun2Socks, TLAPS

Dev(s) == s.client.live /\ ~s.client.client_closed
Srv(s) == s.client.live /\ ~s.client.socks_closed

Rets == {"OK", "MEM", "BUF", "CONN", "ABRT"}

Unsafe == {"freed pcb", "freed client", "callback", "dealloc", "send", "receive",
           "abort with callback"}
StaleNotes == {"pending", "no buffer for data", "can't queue data"}

State ==
  [pcb : PcbType, client : ClientType, socks : SocksType, net : NetType,
   log : SUBSET (Unsafe \cup StaleNotes),
   ret : Rets, c : [full : BOOLEAN, oom : BOOLEAN, jobs : JobRuns]]

\* Which of the pcb, the client and the SOCKS connection exist, and which
\* callbacks are set.
Linked(s) ==
  /\ s.pcb.state \in Open <=> Dev(s)
  /\ s.pcb.err <=> Dev(s)
  /\ s.pcb.recv <=> Dev(s) /\ Srv(s)
  /\ s.pcb.sent <=> Dev(s) /\ s.client.socks_up
  /\ s.client.live => Dev(s) \/ Srv(s)
  /\ ~s.client.live => s.client = NoClient
  /\ s.socks.state # "freed" <=> Srv(s)
  /\ s.socks.state = "UP" <=> Srv(s) /\ s.client.socks_up
  /\ Dev(s) /\ ~Srv(s) => s.client.socks_up /\ s.net.socksGone
  /\ Srv(s) /\ ~Dev(s) => s.client.buf_used > 0 /\ s.net.clientGone

\* The two transfers on the SOCKS connection.
Transfers(s) ==
  /\ s.client.recv_buf_used # 0
  /\ Dev(s) /\ s.client.recv_buf_used > 0 => s.client.recv_buf_sent <= s.client.recv_buf_used
  /\ ~s.client.socks_up => s.client.recv_buf_used = -1 /\ (Dev(s) => s.pcb.queued = 0)
  /\ s.socks.state # "UP" => s.socks.sending = 0 /\ ~s.socks.receiving
  /\ s.socks.sending <= s.client.buf_used
  /\ s.socks.state = "UP" /\ s.client.buf_used > 0 => s.socks.sending > 0
  /\ s.socks.receiving => s.client.recv_buf_used = -1

\* bytes of recv_buf that tcp_write has not taken
Left(s) ==
  IF s.client.recv_buf_used > 0 THEN s.client.recv_buf_used - s.client.recv_buf_sent ELSE 0

\* Where the bytes are.  Inside tcp_input x bytes of the window are not yet
\* given to client_recv_func and a acknowledged ones not to client_sent_func.
Counted(s, x, a) ==
  /\ Dev(s) /\ Srv(s) => s.pcb.unread = s.client.buf_used + x
  /\ ~Stale /\ Dev(s) /\ s.client.socks_up => s.client.tcp_pending = s.pcb.queued + a
  /\ s.net.given <= s.net.up /\ s.net.confirmed <= s.net.down
  /\ Srv(s) => s.net.up = s.net.given + s.client.buf_used
  /\ Dev(s) => s.net.down = s.net.confirmed + s.pcb.queued + Left(s)

Clean(s) == s.log \cap Unsafe = {} /\ (~Stale => s.log = {})

Sound(s, x, a) ==
  s \in State /\ Linked(s) /\ Transfers(s) /\ Counted(s, x, a) /\ Clean(s)

\* Between two events the receive buffer either waits for an acknowledgement
\* that will come or is being filled.
Settled(s) ==
  Dev(s) =>
    /\ ~Stale /\ s.client.recv_buf_used > 0 => s.client.recv_waiting /\ s.client.tcp_pending > 0
    /\ s.socks.state = "UP" /\ s.client.recv_buf_used = -1 => s.socks.receiving

\* A step of the relay from s to t, without the bounds that Sound gives.
Relays(s, t) ==
  /\ s.net.up <= t.net.up /\ s.net.given <= t.net.given
  /\ s.net.down <= t.net.down /\ s.net.confirmed <= t.net.confirmed
  /\ s.net.clientGone => t.net.clientGone
  /\ s.net.socksGone => t.net.socksGone
  /\ Dev(t) => Dev(s)
  /\ Srv(t) => Srv(s)
  /\ ~Dev(s) => t.net.up = s.net.up /\ t.net.confirmed = s.net.confirmed
  /\ ~Srv(s) => t.net.down = s.net.down /\ t.net.given = s.net.given
  /\ Dev(s) /\ ~Dev(t) =>
       t.net.clientGone \/ (t.net.socksGone /\ ~Srv(t) /\ t.net.confirmed = t.net.down)
  /\ Srv(s) /\ ~Srv(t) =>
       t.net.socksGone \/ (t.net.clientGone /\ ~Dev(t) /\ t.net.given = t.net.up)

\* The inductive invariant: every event finds a sound and settled state.
IInv == Sound(Here(Plain), 0, 0) /\ Settled(Here(Plain))

\* Steps of the relay compose: what one handler starts, the next continues.
LEMMA RelaysTransitive ==
  ASSUME NEW s \in State, NEW t \in State, NEW u \in State, Relays(s, t), Relays(t, u)
  PROVE  Relays(s, u)
<1>1. /\ s.net \in NetType /\ t.net \in NetType /\ u.net \in NetType
  BY DEF State
<1> QED
  BY <1>1 DEF Relays, NetType

\* Doing nothing is a step of the relay.
LEMMA RelaysReflexive == ASSUME NEW s \in State PROVE Relays(s, s)
<1>1. s.net \in NetType
  BY DEF State
<1> QED
  BY <1>1 DEF Relays, NetType

-----------------------------------------------------------------------------
(* lwIP's calls. *)

\* A pcb that is not freed may be used, a client that is alive too.
LEMMA Uses ==
  ASSUME NEW s
  PROVE  /\ s.pcb.state # "freed" => UsePcb(s) = s
         /\ s.client.live = TRUE => UseClient(s) = s
  BY DEF UsePcb, UseClient, Note

\* What NoCallbacks and AbortPcb leave of an open connection.
LEMMA AbortPcbDoes ==
  ASSUME NEW s \in State, s.pcb.state \in Open
  PROVE  /\ AbortPcb(s) \in State
         /\ AbortPcb(s) = [s EXCEPT !.pcb = NoPcb]
<1>1. s.pcb \in PcbType /\ s.pcb.state # "freed"
  BY DEF State, Open
<1>2. NoPcb \in PcbType
  BY SizesAssumption DEF NoPcb, PcbType
<1> DEFINE n == NoCallbacks(s)
<1>3. n = [s EXCEPT !.pcb.err = FALSE, !.pcb.recv = FALSE, !.pcb.sent = FALSE]
  BY <1>1, Uses DEF NoCallbacks
<1>4. n.pcb = [s.pcb EXCEPT !.err = FALSE, !.recv = FALSE, !.sent = FALSE]
  BY <1>3 DEF State
<1>5. n.pcb.err = FALSE /\ n.pcb.state = s.pcb.state
  BY <1>1, <1>4 DEF PcbType
<1>6. tcp_abort(n) = [n EXCEPT !.pcb = NoPcb]
  BY <1>1, <1>5, Uses DEF tcp_abort, Note
<1>7. [n EXCEPT !.pcb = NoPcb] = [s EXCEPT !.pcb = NoPcb]
  BY <1>3 DEF State
<1>8. [s EXCEPT !.pcb = NoPcb] \in State
  BY <1>2 DEF State
<1> QED
  BY <1>6, <1>7, <1>8 DEF AbortPcb

\* s with another pcb and returned error, with other counts, without a client
WithPcb(s, p, r) == [s EXCEPT !.pcb = p, !.ret = r]
WithRet(s, r) == [s EXCEPT !.ret = r]
WithLog(s, what) == [s EXCEPT !.log = s.log \cup {what}]
WithNet(s, n) == [s EXCEPT !.net = n]
Without(s, p, r) == [s EXCEPT !.pcb = p, !.ret = r, !.client = NoClient, !.socks = NoSocks]
DeviceLost(n) == [n EXCEPT !.clientGone = TRUE]
ServerLost(n) == [n EXCEPT !.socksGone = TRUE]
BothLost(n) == [n EXCEPT !.clientGone = TRUE, !.socksGone = TRUE]

\* a pcb the client has let go
Unlinked(p) == p.state \notin Open /\ ~p.err /\ ~p.recv /\ ~p.sent

\* A freed pcb has no callbacks.
LEMMA NoPcbUnlinked == NoPcb \in PcbType /\ Unlinked(NoPcb)
  BY SizesAssumption DEF Unlinked, NoPcb, PcbType, Open

\* What client_free_client does to the pcb: tcp_close, or tcp_abort when the
\* FIN finds no room.  Only the pcb and the returned error change.
LEMMA ClosePcbDoes ==
  ASSUME NEW s \in State, s.pcb.state \in Open
  PROVE  \E p \in PcbType, r \in Rets : Unlinked(p) /\ ClosePcb(s) = WithPcb(s, p, r)
<1>1. s.pcb \in PcbType /\ s.pcb.state # "freed"
  BY DEF State, Open
<1> DEFINE n == NoCallbacks(s)
           q == [s.pcb EXCEPT !.err = FALSE, !.recv = FALSE, !.sent = FALSE]
<1>2. n = [s EXCEPT !.pcb.err = FALSE, !.pcb.recv = FALSE, !.pcb.sent = FALSE]
  BY <1>1, Uses DEF NoCallbacks
<1>3. n = [s EXCEPT !.pcb = q] /\ n.pcb = q /\ n.c = s.c
  BY <1>2 DEF State
<1>4. q \in PcbType /\ q.state = s.pcb.state /\ ~q.err /\ ~q.recv /\ ~q.sent
  BY <1>1 DEF PcbType
<1> HIDE DEF n, q
<1>5. UsePcb(n) = n
  BY <1>1, <1>3, <1>4, Uses
<1>6. CASE q.unread > 0
  <2> DEFINE p == [NoPcb EXCEPT !.state = IF q.state = "ESTABLISHED" THEN "TIME_WAIT" ELSE "freed"]
  <2>1. p \in PcbType /\ Unlinked(p)
    <3>1. NoPcb \in PcbType /\ p.state \in {"TIME_WAIT", "freed"}
      BY NoPcbUnlinked DEF PcbType
    <3>2. p \in PcbType /\ p.err = NoPcb.err /\ p.recv = NoPcb.recv /\ p.sent = NoPcb.sent
      BY <3>1 DEF PcbType
    <3> QED
      BY <3>1, <3>2, NoPcbUnlinked DEF Unlinked, Open
  <2>2. tcp_close(n) = [n EXCEPT !.ret = "OK", !.pcb = p]
    BY <1>3, <1>4, <1>5, <1>6 DEF tcp_close
  <2> HIDE DEF p
  <2>3. [n EXCEPT !.ret = "OK", !.pcb = p] = [s EXCEPT !.pcb = p, !.ret = "OK"]
    BY <1>3 DEF State
  <2>4. ClosePcb(s) = WithPcb(s, p, "OK")
    BY <2>2, <2>3 DEF ClosePcb, n, State, WithPcb
  <2>5. "OK" \in Rets
    BY DEF Rets
  <2> QED
    BY <2>1, <2>4, <2>5
<1>7. CASE ~(q.unread > 0) /\ q.queued > 0 /\ n.c.full
  <2>1. tcp_close(n) = [n EXCEPT !.ret = "MEM"]
    BY <1>3, <1>4, <1>5, <1>7 DEF tcp_close
  <2> DEFINE m == [n EXCEPT !.ret = "MEM"]
  <2>2. m.ret = "MEM" /\ m.pcb = q
    BY <1>3 DEF State
  <2>3. UsePcb(m) = m
    BY <1>1, <1>4, <2>2, Uses
  <2>4. tcp_abort(m) = [m EXCEPT !.pcb = NoPcb]
    BY <1>4, <2>2, <2>3 DEF tcp_abort, Note
  <2>5. [m EXCEPT !.pcb = NoPcb] = [s EXCEPT !.pcb = NoPcb, !.ret = "MEM"]
    BY <1>3 DEF State
  <2>6. ClosePcb(s) = WithPcb(s, NoPcb, "MEM")
    BY <2>1, <2>2, <2>4, <2>5 DEF ClosePcb, n, WithPcb
  <2>7. "MEM" \in Rets
    BY DEF Rets
  <2> QED
    BY <2>6, <2>7, NoPcbUnlinked
<1>8. CASE ~(q.unread > 0) /\ ~(q.queued > 0 /\ n.c.full)
  <2> DEFINE p == [q EXCEPT !.state = IF q.state = "ESTABLISHED" THEN "FIN_WAIT_1" ELSE "LAST_ACK"]
  <2>1. p \in PcbType /\ Unlinked(p)
    BY <1>4 DEF Unlinked, PcbType, Open
  <2>2. tcp_close(n) = [n EXCEPT !.ret = "OK", !.pcb = p]
    <3>1. tcp_close(n) = [n EXCEPT !.ret = "OK",
                !.pcb.state = IF n.pcb.state = "ESTABLISHED" THEN "FIN_WAIT_1" ELSE "LAST_ACK"]
      BY <1>3, <1>4, <1>5, <1>8 DEF tcp_close
    <3> QED
      BY <3>1, <1>3 DEF State
  <2> HIDE DEF p
  <2>3. [n EXCEPT !.ret = "OK", !.pcb = p] = [s EXCEPT !.pcb = p, !.ret = "OK"]
    BY <1>3 DEF State
  <2>4. ClosePcb(s) = WithPcb(s, p, "OK")
    BY <2>2, <2>3 DEF ClosePcb, n, State, WithPcb
  <2>5. "OK" \in Rets
    BY DEF Rets
  <2> QED
    BY <2>1, <2>4, <2>5
<1> QED
  BY <1>6, <1>7, <1>8

-----------------------------------------------------------------------------
(* Closing one side and the other. *)

\* The structure is freed when both sides are closed.
LEMMA DeallocDoes ==
  ASSUME NEW s \in State, s.client.live, s.client.client_closed, s.client.socks_closed
  PROVE  client_dealloc(s) = [s EXCEPT !.client = NoClient]
<1>1. UseClient(s) = s
  BY Uses
<1> QED
  BY <1>1 DEF client_dealloc, Note

\* The empty records are of their types.
LEMMA EmptyTypes == NoClient \in ClientType /\ NoSocks \in SocksType
<1>1. NoClient \in ClientType
  BY SizesAssumption DEF NoClient, ClientType
<1>2. NoSocks \in SocksType
  BY SizesAssumption DEF NoSocks, SocksType
<1> QED
  BY <1>1, <1>2

\* client_free_socks: with the client closed the structure goes; with bytes
\* for the client it waits; otherwise the pcb and the structure go.
LEMMA FreeSocksDoes ==
  ASSUME NEW s \in State, s.client.live, s.client.client_closed \/ s.pcb.state \in Open
  PROVE  LET waits == s.client.socks_up /\ (s.client.recv_buf_used >= 0 \/ s.client.tcp_pending > 0)
         IN  /\ s.client.client_closed =>
                  client_free_socks(s) = [s EXCEPT !.client = NoClient, !.socks = NoSocks]
             /\ ~s.client.client_closed /\ waits =>
                  client_free_socks(s) =
                    [s EXCEPT !.pcb.recv = FALSE, !.socks = NoSocks, !.client.socks_closed = TRUE]
             /\ ~s.client.client_closed /\ ~waits =>
                  \E p \in PcbType, r \in Rets : /\ Unlinked(p)
                            /\ client_free_socks(s) = Without(s, p, r)
<1> DEFINE t == IF s.client.socks_up /\ ~s.client.client_closed
                THEN [UsePcb(s) EXCEPT !.pcb.recv = FALSE] ELSE s
           u == [BSocksClient_Free(t) EXCEPT !.client.socks_closed = TRUE]
<1>0. /\ s.client \in ClientType /\ s.pcb \in PcbType
      /\ s.client.client_closed \in BOOLEAN /\ s.client.socks_up \in BOOLEAN
  BY DEF State, ClientType
<1>1. ASSUME s.client.client_closed
      PROVE  client_free_socks(s) = [s EXCEPT !.client = NoClient, !.socks = NoSocks]
  <2> DEFINE k == [[s EXCEPT !.socks = NoSocks] EXCEPT !.client.socks_closed = TRUE]
  <2>1. k \in State
    BY EmptyTypes DEF State, ClientType
  <2>2. k.client.live /\ k.client.client_closed /\ k.client.socks_closed
    BY <1>1, <1>0 DEF State, ClientType
  <2>3. client_free_socks(s) = client_dealloc(k)
    BY <1>1 DEF client_free_socks, BSocksClient_Free
  <2>4. client_dealloc(k) = [k EXCEPT !.client = NoClient]
    BY <2>1, <2>2, DeallocDoes
  <2>5. [k EXCEPT !.client = NoClient] = [s EXCEPT !.client = NoClient, !.socks = NoSocks]
    BY DEF State
  <2> QED
    BY <2>3, <2>4, <2>5
<1>2. ASSUME ~s.client.client_closed, s.client.socks_up,
             s.client.recv_buf_used >= 0 \/ s.client.tcp_pending > 0
      PROVE  client_free_socks(s) =
               [s EXCEPT !.pcb.recv = FALSE, !.socks = NoSocks, !.client.socks_closed = TRUE]
  <2>1. UsePcb(s) = s
    BY <1>2, Uses DEF Open
  <2>2. client_free_socks(s) =
          [[[s EXCEPT !.pcb.recv = FALSE] EXCEPT !.socks = NoSocks] EXCEPT !.client.socks_closed = TRUE]
    BY <1>2, <2>1 DEF client_free_socks, BSocksClient_Free
  <2> QED
    BY <2>2 DEF State
<1>3. ASSUME ~s.client.client_closed,
             ~(s.client.socks_up /\ (s.client.recv_buf_used >= 0 \/ s.client.tcp_pending > 0))
      PROVE  \E p \in PcbType, r \in Rets : /\ Unlinked(p)
                       /\ client_free_socks(s) = Without(s, p, r)
  <2> DEFINE b == IF s.client.socks_up THEN [s EXCEPT !.pcb.recv = FALSE] ELSE s
             k == [[b EXCEPT !.socks = NoSocks] EXCEPT !.client.socks_closed = TRUE]
  <2>1. UsePcb(s) = s
    BY <1>3, Uses DEF Open
  <2>2. client_free_socks(s) = client_dealloc([ClosePcb(k) EXCEPT !.client.client_closed = TRUE])
    BY <1>3, <2>1 DEF client_free_socks, BSocksClient_Free
  <2>3. b \in State /\ b.pcb.state \in Open /\ b.client = s.client
        /\ \A p, r, cl, so : [b EXCEPT !.pcb = p, !.ret = r, !.client = cl, !.socks = so]
                           = [s EXCEPT !.pcb = p, !.ret = r, !.client = cl, !.socks = so]
    BY <1>0, <1>3, ZenonT(60) DEF State, PcbType
  <2> HIDE DEF b
  <2>4. /\ k \in State /\ k.pcb.state \in Open
        /\ k.client = [s.client EXCEPT !.socks_closed = TRUE]
    BY <2>3, EmptyTypes DEF State, ClientType
  <2>5. PICK p \in PcbType, r \in Rets : Unlinked(p) /\ ClosePcb(k) = WithPcb(k, p, r)
    BY <2>4, ClosePcbDoes
  <2> DEFINE m == [ClosePcb(k) EXCEPT !.client.client_closed = TRUE]
  <2>6. m = [[k EXCEPT !.pcb = p, !.ret = r] EXCEPT !.client.client_closed = TRUE]
    BY <2>5 DEF WithPcb
  <2> HIDE DEF m
  <2>7. m \in State
    <3> DEFINE l == [k EXCEPT !.pcb = p, !.ret = r]
    <3>1. l \in State
      BY <2>4, <2>5 DEF State
    <3> HIDE DEF l
    <3>2. [l EXCEPT !.client.client_closed = TRUE] \in State
      BY <3>1 DEF State, ClientType
    <3> QED
      BY <2>6, <3>2 DEF l
  <2>8. m.client.live /\ m.client.client_closed /\ m.client.socks_closed
    BY <1>0, <2>4, <2>6 DEF State, ClientType
  <2>9. client_dealloc(m) = [m EXCEPT !.client = NoClient]
    BY <2>7, <2>8, DeallocDoes
  <2>10. [m EXCEPT !.client = NoClient] =
           [b EXCEPT !.pcb = p, !.ret = r, !.client = NoClient, !.socks = NoSocks]
    BY <2>3, <2>6 DEF State
  <2>11. client_free_socks(s) = Without(s, p, r)
    BY <2>2, <2>3, <2>9, <2>10 DEF m, Without
  <2> QED
    BY <2>5, <2>11
<1> QED
  BY <1>0, <1>1, <1>2, <1>3

\* client_handle_freed_client: with bytes for the server the structure waits,
\* otherwise it goes, and the SOCKS connection with it.
LEMMA HandleFreedDoes ==
  ASSUME NEW s \in State, s.client.live
  PROVE  client_handle_freed_client(s) =
           IF s.client.buf_used > 0 /\ ~s.client.socks_closed
           THEN [s EXCEPT !.client.client_closed = TRUE]
           ELSE [s EXCEPT !.client = NoClient,
                          !.socks = IF s.client.socks_closed THEN s.socks ELSE NoSocks]
<1> DEFINE u == [s EXCEPT !.client.client_closed = TRUE]
<1>1. UseClient(s) = s
  BY Uses DEF State, ClientType
<1>2. client_handle_freed_client(s) =
        IF s.client.buf_used > 0 /\ ~s.client.socks_closed THEN u
        ELSE IF ~s.client.socks_closed THEN client_free_socks(u) ELSE client_dealloc(u)
  BY <1>1 DEF client_handle_freed_client
<1>3. u \in State /\ u.client = [s.client EXCEPT !.client_closed = TRUE]
  BY DEF State, ClientType
<1>4. u.client.live /\ u.client.client_closed /\ u.client.socks_closed = s.client.socks_closed
  BY <1>3 DEF State, ClientType
<1>5. client_free_socks(u) = [u EXCEPT !.client = NoClient, !.socks = NoSocks]
  BY <1>3, <1>4, FreeSocksDoes
<1>6. s.client.socks_closed => client_dealloc(u) = [u EXCEPT !.client = NoClient]
  BY <1>3, <1>4, DeallocDoes
<1>7. [u EXCEPT !.client = NoClient, !.socks = NoSocks] = [s EXCEPT !.client = NoClient, !.socks = NoSocks]
  BY DEF State
<1>8. [u EXCEPT !.client = NoClient] = [s EXCEPT !.client = NoClient, !.socks = s.socks]
  BY DEF State
<1> HIDE DEF u
<1> QED
  BY <1>2, <1>5, <1>6, <1>7, <1>8 DEF u

\* why the device's side may end: its peer has gone, or the server has and
\* all its bytes are delivered
MayEndDevice(s) ==
  s.net.clientGone \/ (s.net.socksGone /\ ~Srv(s) /\ (~Stale => s.net.confirmed = s.net.down))

\* The device's side ends: the pcb is let go, client_handle_freed_client runs.
LEMMA DeviceEnds ==
  ASSUME NEW x, NEW a, NEW s, Sound(s, x, a), Dev(s), MayEndDevice(s),
         NEW p \in PcbType, Unlinked(p), NEW r \in Rets,
         NEW t, t = WithPcb(client_handle_freed_client(s), p, r)
  PROVE  /\ \A y, b : Sound(t, y, b)
         /\ Settled(t) /\ ~Dev(t) /\ t.ret = r /\ t.c = s.c
         /\ ~Stale => Relays(s, t)
<1>1. s \in State /\ s.client.live /\ ~s.client.client_closed
  BY DEF Sound, Dev
<1>2. s.client \in ClientType /\ s.pcb \in PcbType /\ s.net \in NetType /\ s.socks \in SocksType
  BY <1>1 DEF State
<1>3. CASE s.client.buf_used > 0 /\ ~s.client.socks_closed
  <2> DEFINE cl == [s.client EXCEPT !.client_closed = TRUE]
  <2>1. t = [s EXCEPT !.client = cl, !.pcb = p, !.ret = r]
    BY <1>1, <1>3, HandleFreedDoes DEF State, WithPcb
  <2>2. cl \in ClientType
    BY <1>2 DEF ClientType
  <2>3. /\ cl.live /\ cl.client_closed /\ ~cl.socks_closed /\ cl.socks_up = s.client.socks_up
        /\ cl.buf_used = s.client.buf_used /\ cl.recv_buf_used = s.client.recv_buf_used
    BY <1>1, <1>2, <1>3 DEF ClientType
  <2> HIDE DEF cl
  <2>4. /\ t \in State /\ t.client = cl /\ t.pcb = p /\ t.ret = r
        /\ t.c = s.c /\ t.socks = s.socks /\ t.net = s.net /\ t.log = s.log
    BY <1>1, <2>1, <2>2 DEF State
  <2>5. ~Dev(t) /\ Srv(t) /\ Srv(s)
    BY <1>1, <1>3, <2>3, <2>4 DEF Dev, Srv
  <2>6. s.net.clientGone
    BY <2>5 DEF MayEndDevice
  <2>7. Linked(t)
    BY <2>3, <2>4, <2>5, <2>6, <1>3, <1>2 DEF Linked, Sound, Unlinked, Dev, Srv
  <2>8. Transfers(t)
    BY <2>3, <2>4, <2>5 DEF Transfers, Sound
  <2>9. \A y, b : Counted(t, y, b)
    BY <2>3, <2>4, <2>5 DEF Counted, Sound
  <2>10. Relays(s, t)
    BY <1>2, <2>4, <2>5, <2>6 DEF Relays, NetType
  <2>11. Clean(t)
    BY <2>4 DEF Clean, Sound
  <2> QED
    BY <2>4, <2>5, <2>7, <2>8, <2>9, <2>10, <2>11 DEF Sound, Settled
<1>4. CASE ~(s.client.buf_used > 0 /\ ~s.client.socks_closed)
  <2>1. t = [s EXCEPT !.client = NoClient, !.pcb = p, !.ret = r,
                      !.socks = IF s.client.socks_closed THEN s.socks ELSE NoSocks]
    BY <1>1, <1>4, HandleFreedDoes DEF State, WithPcb
  <2>2. NoClient \in ClientType /\ NoSocks \in SocksType
    BY EmptyTypes
  <2>3. /\ t \in State /\ t.client = NoClient /\ t.pcb = p /\ t.ret = r
        /\ t.c = s.c /\ t.net = s.net /\ t.log = s.log
        /\ t.socks = IF s.client.socks_closed THEN s.socks ELSE NoSocks
    BY <1>1, <1>2, <2>1, <2>2 DEF State
  <2>4. ~Dev(t) /\ ~Srv(t)
    BY <2>3 DEF Dev, Srv, NoClient
  <2>5. t.socks.state = "freed" /\ t.socks.sending = 0 /\ ~t.socks.receiving
    <3>1. CASE s.client.socks_closed
      <4>1. s.socks.state = "freed"
        BY <1>1, <3>1 DEF Sound, Linked, Srv
      <4> QED
        BY <2>3, <3>1, <4>1 DEF Sound, Transfers
    <3>2. CASE ~s.client.socks_closed
      BY <2>3, <3>2 DEF NoSocks
    <3> QED
      BY <3>1, <3>2
  <2>6. Linked(t)
    BY <2>3, <2>4, <2>5 DEF Linked, Unlinked, NoClient
  <2>7. Transfers(t)
    BY <2>3, <2>4, <2>5 DEF Transfers, NoClient
  <2>8. \A y, b : Counted(t, y, b)
    BY <2>3, <2>4 DEF Counted, Sound
  <2>9. Clean(t)
    BY <2>3 DEF Clean, Sound
  <2>10. ~Stale => Relays(s, t)
    <3>1. Srv(s) => s.net.given = s.net.up /\ s.net.clientGone
      <4> SUFFICES ASSUME Srv(s) PROVE s.net.given = s.net.up /\ s.net.clientGone
        OBVIOUS
      <4>1. s.client.buf_used = 0
        BY <1>2, <1>4 DEF Srv, ClientType
      <4> QED
        BY <1>2, <4>1 DEF Sound, Counted, MayEndDevice, NetType
    <3> QED
      BY <1>2, <2>3, <2>4, <3>1 DEF Relays, NetType, MayEndDevice
  <2> QED
    BY <2>3, <2>4, <2>6, <2>7, <2>8, <2>9, <2>10 DEF Sound, Settled
<1> QED
  BY <1>3, <1>4

\* client_handle_freed_client neither reads nor writes the pcb.
LEMMA HandleFreedCommutes ==
  ASSUME NEW s \in State, s.client.live, NEW p \in PcbType, NEW r \in Rets,
         NEW u, u = WithPcb(s, p, r)
  PROVE  client_handle_freed_client(u) = WithPcb(client_handle_freed_client(s), p, r)
<1> USE DEF WithPcb
<1>1. u \in State /\ u.client = s.client /\ u.socks = s.socks
  BY DEF State
<1>2. client_handle_freed_client(u) =
        IF s.client.buf_used > 0 /\ ~s.client.socks_closed
        THEN [u EXCEPT !.client.client_closed = TRUE]
        ELSE [u EXCEPT !.client = NoClient,
                       !.socks = IF s.client.socks_closed THEN s.socks ELSE NoSocks]
  BY <1>1, HandleFreedDoes
<1>3. CASE s.client.buf_used > 0 /\ ~s.client.socks_closed
  <2>1. client_handle_freed_client(s) = [s EXCEPT !.client.client_closed = TRUE]
    BY <1>3, HandleFreedDoes
  <2>2. [[s EXCEPT !.client.client_closed = TRUE] EXCEPT !.pcb = p, !.ret = r]
          = [u EXCEPT !.client.client_closed = TRUE]
    BY DEF State
  <2> QED
    BY <1>2, <1>3, <2>1, <2>2
<1>4. CASE ~(s.client.buf_used > 0 /\ ~s.client.socks_closed)
  <2> DEFINE so == IF s.client.socks_closed THEN s.socks ELSE NoSocks
  <2>1. client_handle_freed_client(s) = [s EXCEPT !.client = NoClient, !.socks = so]
    BY <1>4, HandleFreedDoes
  <2> HIDE DEF so
  <2>2. [[s EXCEPT !.client = NoClient, !.socks = so] EXCEPT !.pcb = p, !.ret = r]
          = [u EXCEPT !.client = NoClient, !.socks = so]
    BY DEF State
  <2> QED
    BY <1>2, <1>4, <2>1, <2>2 DEF so
<1> QED
  BY <1>3, <1>4

\* That a peer is found gone is recorded; nothing else changes.
LEMMA MarkNet ==
  ASSUME NEW x, NEW a, NEW s, Sound(s, x, a),
         NEW n \in NetType, n.up = s.net.up, n.given = s.net.given,
         n.down = s.net.down, n.confirmed = s.net.confirmed,
         s.net.clientGone => n.clientGone, s.net.socksGone => n.socksGone,
         NEW t, t = WithNet(s, n)
  PROVE  /\ Sound(t, x, a) /\ Relays(s, t) /\ (Settled(s) => Settled(t)) /\ t.net = n
         /\ t.pcb = s.pcb /\ t.client = s.client /\ t.socks = s.socks
         /\ t.log = s.log /\ t.c = s.c /\ t.ret = s.ret
<1>1. s \in State /\ s.net \in NetType
  BY DEF Sound, State
<1>2. /\ t.net = n
      /\ t.pcb = s.pcb /\ t.client = s.client /\ t.socks = s.socks
      /\ t.log = s.log /\ t.c = s.c /\ t.ret = s.ret
  BY <1>1 DEF State, WithNet
<1>4. t \in State
  BY <1>1 DEF State, WithNet
<1>5. (Dev(t) <=> Dev(s)) /\ (Srv(t) <=> Srv(s)) /\ Left(t) = Left(s)
  BY <1>2 DEF Dev, Srv, Left
<1>6. Linked(t)
  BY <1>2, <1>5 DEF Linked, Sound
<1>7. Transfers(t) /\ Counted(t, x, a) /\ Clean(t)
  BY <1>2, <1>5 DEF Transfers, Counted, Clean, Sound
<1>8. Relays(s, t)
  BY <1>1, <1>2, <1>5 DEF Relays, NetType
<1>9. Settled(s) => Settled(t)
  BY <1>2, <1>5 DEF Settled
<1> QED
  BY <1>2, <1>4, <1>6, <1>7, <1>8, <1>9 DEF Sound

\* The device, the server or both are found gone.
LEMMA MarkGone ==
  ASSUME NEW x, NEW a, NEW s, Sound(s, x, a), NEW n,
         n \in {DeviceLost(s.net), ServerLost(s.net), BothLost(s.net)},
         NEW t, t = WithNet(s, n)
  PROVE  /\ Sound(t, x, a) /\ Relays(s, t) /\ (Settled(s) => Settled(t)) /\ t.net = n
         /\ t.pcb = s.pcb /\ t.client = s.client /\ t.socks = s.socks
         /\ t.log = s.log /\ t.c = s.c /\ t.ret = s.ret
<1>1. s.net \in NetType
  BY DEF Sound, State
<1>2. /\ n \in NetType /\ n.up = s.net.up /\ n.given = s.net.given
      /\ n.down = s.net.down /\ n.confirmed = s.net.confirmed
      /\ (s.net.clientGone => n.clientGone) /\ (s.net.socksGone => n.socksGone)
  BY <1>1 DEF NetType, DeviceLost, ServerLost, BothLost
<1> QED
  BY <1>2, MarkNet

\* client_free_client: what DeviceEnds says, after tcp_close.
LEMMA FreeClient ==
  ASSUME NEW x, NEW a, NEW s, Sound(s, x, a), Dev(s), MayEndDevice(s), NEW r \in Rets,
         NEW t, t = WithRet(client_free_client(s), r)
  PROVE  /\ \A y, b : Sound(t, y, b)
         /\ Settled(t) /\ ~Dev(t) /\ t.ret = r /\ t.c = s.c
         /\ ~Stale => Relays(s, t)
<1>1. s \in State /\ s.client.live /\ s.pcb.state \in Open
  BY DEF Sound, Linked, Dev
<1>2. PICK p \in PcbType, q \in Rets : Unlinked(p) /\ ClosePcb(s) = WithPcb(s, p, q)
  BY <1>1, ClosePcbDoes
<1>3. client_handle_freed_client(ClosePcb(s)) = WithPcb(client_handle_freed_client(s), p, q)
  BY <1>1, <1>2, HandleFreedCommutes
<1>4. t = WithPcb(client_handle_freed_client(s), p, r)
  BY <1>3 DEF client_free_client, WithPcb, WithRet
<1> QED
  BY <1>2, <1>4, DeviceEnds

\* client_abort_client: the same with a reset, recorded as a failure.
LEMMA AbortClient ==
  ASSUME NEW x, NEW a, NEW s, Sound(s, x, a), Dev(s), NEW r \in Rets,
         NEW t, t = WithRet(client_abort_client(s), r)
  PROVE  /\ \A y, b : Sound(t, y, b)
         /\ Settled(t) /\ ~Dev(t) /\ t.ret = r /\ t.c = s.c
         /\ ~Stale => Relays(s, t)
<1> DEFINE n == DeviceLost(s.net)
           g == WithNet(s, n)
<1>1. s \in State /\ s.client.live /\ s.pcb.state \in Open /\ s.net \in NetType /\ s.ret \in Rets
  BY DEF Sound, Linked, Dev, State
<1>2. /\ Sound(g, x, a) /\ Relays(s, g) /\ g.net = n
      /\ g.client = s.client /\ g.c = s.c /\ g.ret = s.ret
  <2>1. n = DeviceLost(s.net) /\ g = WithNet(s, n)
    OBVIOUS
  <2> HIDE DEF n, g
  <2> QED
    BY <2>1, MarkGone
<1>3. n.clientGone = TRUE
  BY <1>1 DEF NetType, DeviceLost
<1>4. [AbortPcb(s) EXCEPT !.net.clientGone = TRUE] = WithPcb(g, NoPcb, s.ret)
  <2>1. AbortPcb(s) = [s EXCEPT !.pcb = NoPcb]
    BY <1>1, AbortPcbDoes
  <2> QED
    BY <1>1, <2>1 DEF State, WithPcb, WithNet, DeviceLost
<1> HIDE DEF g, n
<1>5. g \in State /\ g.client.live /\ Dev(g) /\ MayEndDevice(g)
  BY <1>1, <1>2, <1>3 DEF Sound, MayEndDevice, Dev
<1>6. client_abort_client(s) = WithPcb(client_handle_freed_client(g), NoPcb, s.ret)
  <2>1. client_handle_freed_client([AbortPcb(s) EXCEPT !.net.clientGone = TRUE])
          = WithPcb(client_handle_freed_client(g), NoPcb, s.ret)
    BY <1>1, <1>4, <1>5, HandleFreedCommutes, NoPcbUnlinked
  <2> QED
    BY <2>1 DEF client_abort_client
<1>7. t = WithPcb(client_handle_freed_client(g), NoPcb, r)
  BY <1>6 DEF WithPcb, WithRet
<1>8. /\ \A y, b : Sound(t, y, b)
      /\ Settled(t) /\ ~Dev(t) /\ t.ret = r /\ t.c = g.c
      /\ ~Stale => Relays(g, t)
  BY <1>2, <1>5, <1>7, DeviceEnds, NoPcbUnlinked
<1>9. ~Stale => Relays(s, t)
  BY <1>1, <1>2, <1>5, <1>8, RelaysTransitive DEF Sound
<1> QED
  BY <1>2, <1>8, <1>9

\* The error callback of a pcb that is gone: client_err_func.
LEMMA PcbDies ==
  ASSUME NEW x, NEW a, NEW s, Sound(s, x, a), s.net.clientGone \/ ~Dev(s),
         NEW t, t = PcbDead(s)
  PROVE  /\ \A y, b : Sound(t, y, b)
         /\ Settled(t) /\ ~Dev(t)
         /\ ~Stale => Relays(s, t)
<1>1. s \in State /\ s.ret \in Rets
  BY DEF Sound, State
<1>2. CASE Dev(s)
  <2>1. s.pcb.err /\ s.client.live /\ ~s.client.client_closed
    BY <1>2 DEF Sound, Linked, Dev
  <2>2. Note(s, s.client.client_closed, "callback") = s
    BY <2>1 DEF Note
  <2>3. client_err_func(s) = client_handle_freed_client(s)
    BY <2>2 DEF client_err_func
  <2> DEFINE h == client_handle_freed_client(s)
  <2>4. h \in [{"pcb", "client", "socks", "net", "log", "ret", "c"} -> {h[f] : f \in DOMAIN h}]
        /\ h.ret = s.ret
    <3>1. CASE s.client.buf_used > 0 /\ ~s.client.socks_closed
      BY <1>1, <2>1, <3>1, HandleFreedDoes DEF State
    <3>2. CASE ~(s.client.buf_used > 0 /\ ~s.client.socks_closed)
      BY <1>1, <2>1, <3>2, HandleFreedDoes DEF State
    <3> QED
      BY <3>1, <3>2
  <2>5. t = [h EXCEPT !.pcb = NoPcb, !.ret = s.ret]
    BY <2>1, <2>3, <2>4 DEF PcbDead
  <2>6. MayEndDevice(s)
    BY <1>2 DEF MayEndDevice
  <2> HIDE DEF h
  <2>7. t = WithPcb(client_handle_freed_client(s), NoPcb, s.ret)
    BY <2>5 DEF h, WithPcb
  <2>8. NoPcb \in PcbType /\ Unlinked(NoPcb)
    BY NoPcbUnlinked
  <2> QED
    BY <1>1, <1>2, <2>6, <2>7, <2>8, DeviceEnds
<1>3. CASE ~Dev(s)
  <2>1. t = [s EXCEPT !.pcb = NoPcb]
    BY <1>3 DEF PcbDead, Sound, Linked
  <2>2. /\ t \in State /\ t.pcb = NoPcb /\ t.client = s.client /\ t.socks = s.socks
        /\ t.net = s.net /\ t.log = s.log
    BY <1>1, <2>1, NoPcbUnlinked DEF State
  <2>3. ~Dev(t) /\ (Srv(t) <=> Srv(s))
    BY <1>3, <2>2 DEF Dev, Srv
  <2>4. Linked(t)
    BY <1>3, <2>2, <2>3, NoPcbUnlinked DEF Linked, Sound, Unlinked
  <2>5. Transfers(t) /\ Clean(t) /\ \A y, b : Counted(t, y, b)
    BY <1>3, <2>2, <2>3 DEF Transfers, Clean, Counted, Sound
  <2>6. s.net \in NetType
    BY <1>1 DEF State
  <2>7. Relays(s, t)
    BY <1>3, <2>2, <2>3, <2>6 DEF Relays, NetType
  <2> QED
    BY <2>2, <2>3, <2>4, <2>5, <2>7 DEF Sound, Settled
<1> QED
  BY <1>2, <1>3

\* The server's side ends with its peer gone: client_free_socks.
LEMMA ServerEnds ==
  ASSUME NEW x, NEW s, Sound(s, x, 0), Settled(s), Srv(s), s.net.socksGone,
         NEW t, t = client_free_socks(s)
  PROVE  /\ Sound(t, x, 0) /\ Settled(t) /\ ~Srv(t) /\ t.c = s.c
         /\ ~Stale => Relays(s, t)
<1>1. s \in State /\ s.client.live /\ ~s.client.socks_closed
  BY DEF Sound, Srv
<1>2. s.client \in ClientType /\ s.pcb \in PcbType /\ s.net \in NetType /\ s.socks \in SocksType
  BY <1>1 DEF State
<1>3. s.client.client_closed \/ s.pcb.state \in Open
  BY <1>1 DEF Sound, Linked, Dev
<1>4. NoClient \in ClientType /\ NoSocks \in SocksType /\ NoSocks.state = "freed"
      /\ NoSocks.sending = 0 /\ ~NoSocks.receiving /\ ~NoClient.live
      /\ NoClient.recv_buf_used = -1 /\ NoClient.buf_used = 0
  BY EmptyTypes DEF NoSocks, NoClient
<1> DEFINE waits == s.client.socks_up /\ (s.client.recv_buf_used >= 0 \/ s.client.tcp_pending > 0)
<1>5. CASE s.client.client_closed
  <2>1. t = [s EXCEPT !.client = NoClient, !.socks = NoSocks]
    BY <1>1, <1>5, FreeSocksDoes
  <2>2. /\ t \in State /\ t.client = NoClient /\ t.socks = NoSocks /\ t.pcb = s.pcb
        /\ t.c = s.c /\ t.net = s.net /\ t.log = s.log
    BY <1>1, <1>4, <2>1 DEF State
  <2>3. ~Dev(s) /\ ~Dev(t) /\ ~Srv(t)
    BY <1>4, <1>5, <2>2 DEF Dev, Srv
  <2>4. Linked(t)
    BY <1>4, <2>2, <2>3 DEF Linked, Sound
  <2>5. Transfers(t)
    BY <1>4, <2>2, <2>3 DEF Transfers
  <2>6. Counted(t, x, 0) /\ Clean(t) /\ Settled(t)
    BY <2>2, <2>3 DEF Counted, Clean, Settled, Sound
  <2>7. Relays(s, t)
    BY <1>2, <2>2, <2>3 DEF Relays, NetType
  <2> QED
    BY <2>2, <2>3, <2>4, <2>5, <2>6, <2>7 DEF Sound
<1>6. CASE ~s.client.client_closed /\ waits
  <2> DEFINE cl == [s.client EXCEPT !.socks_closed = TRUE]
             p == [s.pcb EXCEPT !.recv = FALSE]
  <2>1. t = [s EXCEPT !.pcb.recv = FALSE, !.socks = NoSocks, !.client.socks_closed = TRUE]
    BY <1>1, <1>3, <1>6, FreeSocksDoes
  <2>2. /\ t.client = cl /\ t.socks = NoSocks /\ t.pcb = p
        /\ t.c = s.c /\ t.net = s.net /\ t.log = s.log
    BY <1>1, <2>1 DEF State
  <2>3. /\ cl \in ClientType /\ cl.live /\ ~cl.client_closed /\ cl.socks_closed
        /\ cl.socks_up /\ cl.buf_used = s.client.buf_used
        /\ cl.recv_buf_used = s.client.recv_buf_used /\ cl.recv_buf_sent = s.client.recv_buf_sent
        /\ cl.recv_waiting = s.client.recv_waiting /\ cl.tcp_pending = s.client.tcp_pending
    BY <1>1, <1>2, <1>6 DEF ClientType
  <2>4. /\ p \in PcbType /\ p.state = s.pcb.state /\ p.err = s.pcb.err /\ ~p.recv
        /\ p.sent = s.pcb.sent /\ p.unread = s.pcb.unread /\ p.queued = s.pcb.queued
    BY <1>2 DEF PcbType
  <2>5. t \in State
    BY <1>1, <1>2, <1>4, <2>1, <2>3, <2>4 DEF State
  <2> HIDE DEF cl, p
  <2>6. Dev(s) /\ Dev(t) /\ ~Srv(t)
    BY <1>1, <1>6, <2>2, <2>3 DEF Dev, Srv
  <2>7. Linked(t)
    BY <1>4, <1>6, <2>2, <2>3, <2>4, <2>6 DEF Linked, Sound
  <2>8. Transfers(t)
    BY <1>2, <1>4, <2>2, <2>3, <2>6 DEF Transfers, Sound, ClientType
  <2>9. Counted(t, x, 0)
    BY <1>6, <2>2, <2>3, <2>4, <2>6 DEF Counted, Sound, Left
  <2>10. Clean(t)
    BY <2>2 DEF Clean, Sound
  <2>11. Settled(t)
    BY <1>4, <2>2, <2>3, <2>6 DEF Settled
  <2>12. Relays(s, t)
    BY <1>2, <2>2, <2>6 DEF Relays, NetType
  <2> QED
    BY <2>2, <2>5, <2>6, <2>7, <2>8, <2>9, <2>10, <2>11, <2>12 DEF Sound
<1>7. CASE ~s.client.client_closed /\ ~waits
  <2>1. PICK p \in PcbType, r \in Rets :
          /\ Unlinked(p)
          /\ t = Without(s, p, r)
    BY <1>1, <1>3, <1>7, FreeSocksDoes
  <2>2. /\ t \in State /\ t.client = NoClient /\ t.socks = NoSocks /\ t.pcb = p
        /\ t.c = s.c /\ t.net = s.net /\ t.log = s.log
    BY <1>1, <1>4, <2>1 DEF State, Without
  <2>3. Dev(s) /\ ~Dev(t) /\ ~Srv(t)
    BY <1>1, <1>4, <1>7, <2>2 DEF Dev, Srv
  <2>4. Linked(t)
    BY <1>4, <2>1, <2>2, <2>3 DEF Linked, Unlinked
  <2>5. Transfers(t)
    BY <1>4, <2>2, <2>3 DEF Transfers
  <2>6. Counted(t, x, 0) /\ Clean(t) /\ Settled(t)
    BY <2>2, <2>3 DEF Counted, Clean, Settled, Sound
  <2>7. ~Stale => s.pcb.queued = 0 /\ Left(s) = 0
    BY <1>2, <1>7, <2>3 DEF Sound, Counted, Transfers, Left, ClientType, PcbType
  <2>8. ~Stale => s.net.confirmed = s.net.down
    BY <1>2, <2>3, <2>7 DEF Sound, Counted, NetType
  <2>9. ~Stale => Relays(s, t)
    BY <1>2, <2>2, <2>3, <2>8 DEF Relays, NetType
  <2> QED
    BY <2>2, <2>3, <2>4, <2>5, <2>6, <2>9 DEF Sound
<1> QED
  BY <1>5, <1>6, <1>7

\* An error or the end of the SOCKS connection.
LEMMA SocksGoneKeeps ==
  ASSUME NEW x, NEW s, Sound(s, x, 0), Settled(s), Srv(s), NEW t, t = SocksGone(s)
  PROVE  /\ Sound(t, x, 0) /\ Settled(t) /\ ~Srv(t) /\ t.c = s.c
         /\ ~Stale => Relays(s, t)
<1> DEFINE n == ServerLost(s.net)
           g == WithNet(s, n)
<1>1. s \in State /\ s.net \in NetType
  BY DEF Sound, State
<1>2. g = [s EXCEPT !.net.socksGone = TRUE]
  BY <1>1 DEF State, WithNet, ServerLost
<1>3. n.socksGone = TRUE
  BY <1>1 DEF NetType, ServerLost
<1>4. n = ServerLost(s.net) /\ g = WithNet(s, n)
  OBVIOUS
<1> HIDE DEF n, g
<1>5. Sound(g, x, 0) /\ Relays(s, g) /\ Settled(g) /\ g.net = n /\ g.client = s.client /\ g.c = s.c
  BY <1>4, MarkGone
<1>6. t = client_free_socks(g)
  BY <1>2 DEF SocksGone
<1>7. Srv(g) /\ g.net.socksGone
  BY <1>3, <1>5 DEF Srv
<1>8. Sound(t, x, 0) /\ Settled(t) /\ ~Srv(t) /\ t.c = g.c /\ (~Stale => Relays(g, t))
  BY <1>5, <1>6, <1>7, ServerEnds
<1>9. ~Stale => Relays(s, t)
  BY <1>1, <1>5, <1>8, RelaysTransitive DEF Sound
<1> QED
  BY <1>5, <1>8, <1>9

-----------------------------------------------------------------------------
(* Bytes to the client. *)

\* s after k bytes of recv_buf are queued
Moved(s, k, r) ==
  [s EXCEPT !.pcb.queued = s.pcb.queued + k,
            !.client.recv_buf_sent = s.client.recv_buf_sent + k,
            !.client.tcp_pending = s.client.tcp_pending + k, !.ret = r]

\* Queueing bytes moves them from one count to the other.
LEMMA MovedKeeps ==
  ASSUME NEW x, NEW s, Sound(s, x, 0), Dev(s), s.client.socks_up, s.client.recv_buf_used > 0,
         NEW k \in Nat, k <= s.client.recv_buf_used - s.client.recv_buf_sent,
         k <= SndBuf - s.pcb.queued, NEW r \in Rets,
         NEW t, t = Moved(s, k, r)
  PROVE  /\ Sound(t, x, 0) /\ Relays(s, t) /\ Dev(t)
         /\ t.c = s.c /\ t.ret = r /\ t.socks = s.socks /\ t.net = s.net
         /\ (Srv(t) <=> Srv(s)) /\ t.client.socks_up
         /\ t.client.recv_buf_used = s.client.recv_buf_used
         /\ t.client.recv_buf_sent = s.client.recv_buf_sent + k
         /\ t.client.tcp_pending = s.client.tcp_pending + k
         /\ t.pcb.queued = s.pcb.queued + k
<1>1. s \in State
  BY DEF Sound
<1>2. s.client \in ClientType /\ s.pcb \in PcbType /\ s.net \in NetType /\ s.socks \in SocksType
  BY <1>1 DEF State
<1> DEFINE p == [s.pcb EXCEPT !.queued = s.pcb.queued + k]
           cl == [s.client EXCEPT !.recv_buf_sent = s.client.recv_buf_sent + k,
                                  !.tcp_pending = s.client.tcp_pending + k]
<1>3. /\ t.pcb = p /\ t.client = cl /\ t.socks = s.socks /\ t.net = s.net /\ t.log = s.log
      /\ t.c = s.c /\ t.ret = r
  BY <1>1 DEF State, Moved
<1>4. /\ cl \in ClientType /\ cl.live = s.client.live /\ cl.client_closed = s.client.client_closed
      /\ cl.socks_closed = s.client.socks_closed /\ cl.socks_up = s.client.socks_up
      /\ cl.buf_used = s.client.buf_used /\ cl.recv_buf_used = s.client.recv_buf_used
      /\ cl.recv_buf_sent = s.client.recv_buf_sent + k
      /\ cl.tcp_pending = s.client.tcp_pending + k
  <2>1. /\ s.client.recv_buf_sent + k \in 0..RecvBuf
        /\ s.client.tcp_pending + k \in Int
    <3>1. /\ s.client.recv_buf_sent \in 0..RecvBuf /\ s.client.recv_buf_used \in -1..RecvBuf
          /\ s.client.tcp_pending \in Int
      BY <1>2 DEF ClientType
    <3> QED
      BY <3>1, SizesAssumption
  <2> QED
    BY <1>2, <2>1 DEF ClientType
<1>5. /\ p \in PcbType /\ p.state = s.pcb.state /\ p.err = s.pcb.err /\ p.recv = s.pcb.recv
      /\ p.sent = s.pcb.sent /\ p.unread = s.pcb.unread /\ p.queued = s.pcb.queued + k
  BY <1>2, SizesAssumption DEF PcbType
<1>6. t \in State
  BY <1>1, <1>4, <1>5 DEF State, Moved
<1> HIDE DEF p, cl
<1>7. (Dev(t) <=> Dev(s)) /\ (Srv(t) <=> Srv(s))
  BY <1>3, <1>4 DEF Dev, Srv
<1>8. Left(t) = Left(s) - k
  BY <1>2, <1>3, <1>4 DEF Left, ClientType
<1>9. Linked(t)
  BY <1>3, <1>4, <1>5, <1>7 DEF Linked, Sound, Dev
<1>10. Transfers(t)
  BY <1>2, <1>3, <1>4, <1>5, <1>7 DEF Transfers, Sound, ClientType
<1>11. Left(s) \in Nat
  BY <1>2 DEF Left, Sound, Transfers, ClientType
<1>12. Counted(t, x, 0)
  BY <1>2, <1>3, <1>4, <1>5, <1>7, <1>8, <1>11 DEF Counted, Sound, ClientType, PcbType, NetType
<1>13. Clean(t)
  BY <1>3 DEF Clean, Sound
<1>14. Relays(s, t)
  BY <1>2, <1>3, <1>7 DEF Relays, NetType
<1> QED
  BY <1>3, <1>4, <1>5, <1>6, <1>7, <1>9, <1>10, <1>12, <1>13, <1>14 DEF Sound

\* What the attempt to queue comes to: k bytes, and none only if lwIP already
\* holds some.
LEMMA QueueingDoes ==
  ASSUME NEW x, NEW s, Sound(s, x, 0), Dev(s), s.client.socks_up, s.client.recv_buf_used > 0
  PROVE  LET left == s.client.recv_buf_used - s.client.recv_buf_sent
             n    == Least(left, tcp_sndbuf(s))
             w    == IF n = 0 THEN [s EXCEPT !.ret = "OK"] ELSE tcp_write(s, n)
             done == IF n = 0 \/ w.ret # "OK" THEN w
                     ELSE [w EXCEPT !.client.recv_buf_sent = @ + n, !.client.tcp_pending = @ + n]
         IN  /\ w.ret # "CONN"
             /\ \E k \in Nat : /\ k <= left /\ k <= SndBuf - s.pcb.queued
                               /\ k = 0 => left = 0 \/ s.pcb.queued > 0
                               /\ tcp_output(done) = Moved(s, k, IF s.c.oom THEN "BUF" ELSE "OK")
<1> DEFINE left == s.client.recv_buf_used - s.client.recv_buf_sent
           n    == Least(left, tcp_sndbuf(s))
           w    == IF n = 0 THEN [s EXCEPT !.ret = "OK"] ELSE tcp_write(s, n)
           done == IF n = 0 \/ w.ret # "OK" THEN w
                   ELSE [w EXCEPT !.client.recv_buf_sent = @ + n, !.client.tcp_pending = @ + n]
           o    == IF s.c.oom THEN "BUF" ELSE "OK"
<1>1. s \in State /\ s.pcb.state \in Open /\ s.pcb.state # "freed"
  BY DEF Sound, Linked, Open
<1>2. s.client \in ClientType /\ s.pcb \in PcbType
  BY <1>1 DEF State
<1>3. left \in Nat
  BY <1>2 DEF Sound, Transfers, ClientType
<1>4. SndBuf - s.pcb.queued \in Nat /\ s.pcb.queued \in Nat /\ SndBuf \in Nat \ {0}
  BY <1>2, SizesAssumption DEF PcbType
<1>5. n \in Nat /\ n <= left /\ n <= SndBuf - s.pcb.queued
  BY <1>3, <1>4 DEF Least, tcp_sndbuf
<1>6. n = 0 => left = 0 \/ s.pcb.queued > 0
  BY <1>3, <1>4 DEF Least, tcp_sndbuf
<1>7. UsePcb(s) = s
  BY <1>1, Uses
<1> HIDE DEF n, left
<1>8. CASE n = 0 \/ (s.pcb.queued > 0 /\ s.c.full)
  <2>1. w = [s EXCEPT !.ret = IF n = 0 THEN "OK" ELSE "MEM"]
    BY <1>1, <1>7, <1>8 DEF tcp_write
  <2>2. w.ret # "CONN" /\ (n # 0 => w.ret # "OK") /\ w.pcb = s.pcb
    BY <1>1, <2>1 DEF State
  <2>3. done = w
    BY <2>2
  <2>4. UsePcb(w) = w
    <3> HIDE DEF w
    <3> QED
      BY <1>1, <2>2, Uses
  <2>5. w.c = s.c
    BY <1>1, <2>1 DEF State
  <2>6. tcp_output(w) = [w EXCEPT !.ret = o]
    BY <2>4, <2>5 DEF tcp_output
  <2>7. [w EXCEPT !.ret = o] = [s EXCEPT !.ret = o]
    BY <1>1, <2>1 DEF State
  <2> HIDE DEF o
  <2>8. [s EXCEPT !.ret = o] = Moved(s, 0, o)
    <3>1. [s.pcb EXCEPT !.queued = s.pcb.queued + 0] = s.pcb
      BY <1>2 DEF PcbType
    <3>2. [s.client EXCEPT !.recv_buf_sent = s.client.recv_buf_sent + 0,
                           !.tcp_pending = s.client.tcp_pending + 0] = s.client
      <4>1. s.client.recv_buf_sent + 0 = s.client.recv_buf_sent
        BY <1>2 DEF ClientType
      <4>2. s.client.tcp_pending + 0 = s.client.tcp_pending
        BY <1>2 DEF ClientType
      <4>3. [s.client EXCEPT !.recv_buf_sent = s.client.recv_buf_sent,
                             !.tcp_pending = s.client.tcp_pending] = s.client
        BY <1>2 DEF ClientType
      <4> QED
        BY <4>1, <4>2, <4>3
    <3>3. Moved(s, 0, o) =
            [s EXCEPT !.pcb = [s.pcb EXCEPT !.queued = s.pcb.queued + 0],
                      !.client = [s.client EXCEPT !.recv_buf_sent = s.client.recv_buf_sent + 0,
                                                  !.tcp_pending = s.client.tcp_pending + 0],
                      !.ret = o]
      BY <1>1 DEF State, Moved
    <3>4. [s EXCEPT !.pcb = s.pcb, !.client = s.client, !.ret = o] = [s EXCEPT !.ret = o]
      BY <1>1 DEF State
    <3> QED
      BY <3>1, <3>2, <3>3, <3>4
  <2>9. tcp_output(done) = Moved(s, 0, o)
    BY <2>3, <2>6, <2>7, <2>8
  <2> HIDE DEF done, w
  <2>10. 0 <= left /\ 0 <= SndBuf - s.pcb.queued /\ 0 \in Nat
    BY <1>3, <1>4
  <2>11. left = 0 \/ s.pcb.queued > 0
    BY <1>6, <1>8
  <2> QED
    BY <2>2, <2>9, <2>10, <2>11 DEF done, w, n, left, o
<1>9. CASE n # 0 /\ ~(s.pcb.queued > 0 /\ s.c.full)
  <2>1. w = [s EXCEPT !.ret = "OK", !.pcb.queued = @ + n]
    BY <1>1, <1>7, <1>9 DEF tcp_write
  <2>2. w.ret = "OK"
    BY <1>1, <2>1 DEF State
  <2>3. done = [w EXCEPT !.client.recv_buf_sent = @ + n, !.client.tcp_pending = @ + n]
    BY <1>9, <2>2
  <2>4. done.pcb = [s.pcb EXCEPT !.queued = s.pcb.queued + n] /\ done.c = s.c
    BY <1>1, <2>1, <2>3 DEF State
  <2>5. done.pcb.state # "freed"
    BY <1>1, <1>2, <2>4 DEF PcbType
  <2>6. tcp_output(done) = [done EXCEPT !.ret = o]
    <3> HIDE DEF done
    <3>1. UsePcb(done) = done
      BY <2>5, Uses
    <3> QED
      BY <2>4, <3>1 DEF tcp_output
  <2> HIDE DEF o
  <2>7. [done EXCEPT !.ret = o] = Moved(s, n, o)
    BY <1>1, <1>2, <2>1, <2>3 DEF State, Moved, PcbType, ClientType
  <2>8. tcp_output(done) = Moved(s, n, o)
    BY <2>6, <2>7
  <2> HIDE DEF done, w
  <2> QED
    BY <1>5, <1>9, <2>2, <2>8 DEF done, w, n, left, o
<1> QED
  BY <1>8, <1>9

\* A note that does no harm: possible only with stale acknowledgements.
LEMMA NoteKeeps ==
  ASSUME NEW x, NEW a, NEW s, Sound(s, x, a), Stale,
         NEW what \in StaleNotes,
         NEW t, t = WithLog(s, what)
  PROVE  /\ Sound(t, x, a) /\ t.pcb = s.pcb /\ t.client = s.client /\ t.socks = s.socks
         /\ t.net = s.net /\ t.ret = s.ret /\ t.c = s.c
<1>1. s \in State
  BY DEF Sound
<1>2. t = [s EXCEPT !.log = s.log \cup {what}]
  BY DEF WithLog
<1>3. /\ t.pcb = s.pcb /\ t.client = s.client /\ t.socks = s.socks
      /\ t.net = s.net /\ t.ret = s.ret /\ t.c = s.c /\ t.log = s.log \cup {what}
  BY <1>1, <1>2 DEF State
<1>4. t \in State
  BY <1>1, <1>2 DEF State
<1>5. Clean(t)
  BY <1>3 DEF Clean, Sound, Unsafe, StaleNotes
<1>6. (Dev(t) <=> Dev(s)) /\ (Srv(t) <=> Srv(s)) /\ Left(t) = Left(s)
  BY <1>3 DEF Dev, Srv, Left
<1>7. Linked(t) /\ Transfers(t) /\ Counted(t, x, a)
  BY <1>3, <1>6 DEF Linked, Transfers, Counted, Sound
<1> QED
  BY <1>3, <1>4, <1>5, <1>7 DEF Sound

\* client_socks_recv_send_out: the pcb is aborted, all is queued, or the rest
\* waits for an acknowledgement that will come.
LEMMA SendOut ==
  ASSUME NEW x, NEW s, Sound(s, x, 0), Dev(s), s.client.socks_up, s.client.recv_buf_used > 0,
         NEW t, t = client_socks_recv_send_out(s)
  PROVE  /\ Sound(t, x, 0) /\ (~Stale => Relays(s, t)) /\ t.c = s.c
         /\ t.ret \in {"OK", "ABRT"}
         /\ t.ret = "ABRT" => ~Dev(t) /\ Settled(t)
         /\ t.ret = "OK" =>
              /\ Dev(t) /\ (Srv(t) <=> Srv(s)) /\ t.client.socks_up /\ t.socks = s.socks
              /\ t.client.recv_buf_used = -1 \/
                   (t.client.recv_buf_used > 0 /\ (~Stale => t.client.recv_waiting /\ t.client.tcp_pending > 0))
<1> DEFINE left == s.client.recv_buf_used - s.client.recv_buf_sent
           n    == Least(left, tcp_sndbuf(s))
           w    == IF n = 0 THEN [s EXCEPT !.ret = "OK"] ELSE tcp_write(s, n)
           done == IF n = 0 \/ w.ret # "OK" THEN w
                   ELSE [w EXCEPT !.client.recv_buf_sent = @ + n, !.client.tcp_pending = @ + n]
           out  == tcp_output(done)
           more == out.client.recv_buf_sent < out.client.recv_buf_used
<1>1. t = IF w.ret = "CONN" THEN WithRet(client_abort_client(w), "ABRT")
          ELSE IF out.ret # "OK" THEN WithRet(client_abort_client(out), "ABRT")
          ELSE IF more /\ out.client.tcp_pending = 0
               THEN WithRet(client_abort_client(Note(out, TRUE, "can't queue data")), "ABRT")
          ELSE IF more THEN [out EXCEPT !.client.recv_waiting = TRUE]
          ELSE [out EXCEPT !.client.recv_buf_used = -1]
  BY DEF client_socks_recv_send_out, WithRet
<1>2. /\ w.ret # "CONN"
      /\ \E k \in Nat : /\ k <= left /\ k <= SndBuf - s.pcb.queued
                        /\ k = 0 => left = 0 \/ s.pcb.queued > 0
                        /\ out = Moved(s, k, IF s.c.oom THEN "BUF" ELSE "OK")
  BY QueueingDoes
<1> HIDE DEF w, done, out, n
<1>3. PICK k \in Nat : /\ k <= left /\ k <= SndBuf - s.pcb.queued
                       /\ k = 0 => left = 0 \/ s.pcb.queued > 0
                       /\ out = Moved(s, k, IF s.c.oom THEN "BUF" ELSE "OK")
  BY <1>2
<1> DEFINE r == IF s.c.oom THEN "BUF" ELSE "OK"
<1>4. r \in Rets
  BY DEF Rets
<1> HIDE DEF r
<1>5. /\ Sound(out, x, 0) /\ Relays(s, out) /\ Dev(out)
      /\ out.c = s.c /\ out.ret = r /\ out.socks = s.socks /\ out.net = s.net
      /\ (Srv(out) <=> Srv(s)) /\ out.client.socks_up
      /\ out.client.recv_buf_used = s.client.recv_buf_used
      /\ out.client.recv_buf_sent = s.client.recv_buf_sent + k
      /\ out.client.tcp_pending = s.client.tcp_pending + k
      /\ out.pcb.queued = s.pcb.queued + k
  <2>1. out = Moved(s, k, r)
    BY <1>3 DEF r
  <2> QED
    BY <1>3, <1>4, <2>1, MovedKeeps
<1>6. s \in State /\ out \in State /\ s.client \in ClientType /\ s.pcb \in PcbType
      /\ out.client \in ClientType /\ out.pcb \in PcbType
  BY <1>5 DEF Sound, State
<1>9. "ABRT" \in Rets
  BY DEF Rets
<1>10. CASE out.ret # "OK"
  <2>1. t = WithRet(client_abort_client(out), "ABRT")
    BY <1>1, <1>2, <1>10
  <2>2. /\ Sound(t, x, 0) /\ Settled(t) /\ ~Dev(t) /\ t.ret = "ABRT" /\ t.c = out.c
        /\ ~Stale => Relays(out, t)
    BY <1>5, <1>9, <2>1, AbortClient
  <2>3. ~Stale => Relays(s, t)
    BY <1>5, <1>6, <2>2, RelaysTransitive DEF Sound
  <2> QED
    BY <1>5, <2>2, <2>3
<1>11. CASE out.ret = "OK" /\ more /\ out.client.tcp_pending = 0
  <2>1. Stale
    <3> SUFFICES ASSUME ~Stale PROVE FALSE
      OBVIOUS
    <3>1. s.client.tcp_pending = s.pcb.queued
      BY <1>6 DEF Sound, Counted, PcbType
    <3>2. /\ s.pcb.queued \in Nat /\ s.client.recv_buf_sent \in Int /\ s.client.recv_buf_used \in Int
      BY <1>6, SizesAssumption DEF PcbType, ClientType
    <3> QED
      BY <1>3, <1>5, <1>11, <3>1, <3>2
  <2> DEFINE o == Note(out, TRUE, "can't queue data")
  <2>2. t = WithRet(client_abort_client(o), "ABRT")
    BY <1>1, <1>2, <1>11
  <2>3. Sound(o, x, 0) /\ o.client = out.client /\ o.c = out.c
    <3>1. PICK what \in StaleNotes : o = WithLog(out, what)
      BY DEF Note, WithLog, StaleNotes
    <3> HIDE DEF o
    <3> QED
      BY <1>5, <2>1, <3>1, NoteKeeps
  <2> HIDE DEF o
  <2>4. Dev(o)
    BY <1>5, <2>3 DEF Dev
  <2>5. Sound(t, x, 0) /\ Settled(t) /\ ~Dev(t) /\ t.ret = "ABRT" /\ t.c = o.c
    BY <1>9, <2>2, <2>3, <2>4, AbortClient
  <2> QED
    BY <1>5, <2>1, <2>3, <2>5
<1>12. CASE out.ret = "OK" /\ more /\ out.client.tcp_pending # 0
  <2> DEFINE cl == [out.client EXCEPT !.recv_waiting = TRUE]
  <2>1. t = [out EXCEPT !.client.recv_waiting = TRUE]
    BY <1>1, <1>2, <1>12
  <2>2. /\ t.client = cl /\ t.pcb = out.pcb /\ t.socks = out.socks /\ t.net = out.net
        /\ t.log = out.log /\ t.c = out.c /\ t.ret = out.ret
    BY <1>6, <2>1 DEF State
  <2>3. /\ cl \in ClientType /\ cl.live = out.client.live
        /\ cl.client_closed = out.client.client_closed /\ cl.socks_closed = out.client.socks_closed
        /\ cl.socks_up = out.client.socks_up /\ cl.buf_used = out.client.buf_used
        /\ cl.recv_buf_used = out.client.recv_buf_used /\ cl.recv_buf_sent = out.client.recv_buf_sent
        /\ cl.tcp_pending = out.client.tcp_pending /\ cl.recv_waiting
    BY <1>6 DEF ClientType
  <2>4. t \in State
    BY <1>6, <2>1, <2>3 DEF State
  <2> HIDE DEF cl
  <2>5. (Dev(t) <=> Dev(out)) /\ (Srv(t) <=> Srv(out)) /\ Left(t) = Left(out)
    BY <2>2, <2>3 DEF Dev, Srv, Left
  <2>6. Linked(t)
    BY <1>5, <2>2, <2>3, <2>5 DEF Linked, Sound, Dev
  <2>7. Transfers(t) /\ Counted(t, x, 0) /\ Clean(t)
    BY <1>5, <2>2, <2>3, <2>5 DEF Transfers, Counted, Clean, Sound
  <2>8. Relays(s, t)
    BY <1>5, <2>2, <2>5 DEF Relays
  <2>9. ~Stale => t.client.tcp_pending > 0
    <3>1. ~Stale => out.client.tcp_pending = out.pcb.queued
      BY <1>5, <1>6 DEF Sound, Counted, PcbType
    <3> QED
      BY <1>6, <1>12, <2>2, <2>3, <3>1 DEF PcbType
  <2> QED
    BY <1>5, <1>12, <2>2, <2>3, <2>4, <2>5, <2>6, <2>7, <2>8, <2>9 DEF Sound
<1>13. CASE out.ret = "OK" /\ ~more
  <2> DEFINE cl == [out.client EXCEPT !.recv_buf_used = -1]
  <2>1. t = [out EXCEPT !.client.recv_buf_used = -1]
    BY <1>1, <1>2, <1>13
  <2>2. /\ t.client = cl /\ t.pcb = out.pcb /\ t.socks = out.socks /\ t.net = out.net
        /\ t.log = out.log /\ t.c = out.c /\ t.ret = out.ret
    BY <1>6, <2>1 DEF State
  <2>3. /\ cl \in ClientType /\ cl.live = out.client.live
        /\ cl.client_closed = out.client.client_closed /\ cl.socks_closed = out.client.socks_closed
        /\ cl.socks_up = out.client.socks_up /\ cl.buf_used = out.client.buf_used
        /\ cl.recv_buf_used = -1 /\ cl.tcp_pending = out.client.tcp_pending
    BY <1>6, SizesAssumption DEF ClientType
  <2>4. t \in State
    BY <1>6, <2>1, <2>3 DEF State
  <2> HIDE DEF cl
  <2>5. (Dev(t) <=> Dev(out)) /\ (Srv(t) <=> Srv(out))
    BY <2>2, <2>3 DEF Dev, Srv
  <2>6. Left(t) = 0 /\ Left(out) = 0
    <3>1. out.client.recv_buf_sent <= out.client.recv_buf_used
      BY <1>5 DEF Sound, Transfers
    <3> QED
      BY <1>6, <1>13, <2>2, <2>3, <3>1 DEF Left, ClientType
  <2>7. Linked(t)
    BY <1>5, <2>2, <2>3, <2>5 DEF Linked, Sound, Dev
  <2>8. Transfers(t) /\ Clean(t)
    BY <1>5, <2>2, <2>3, <2>5 DEF Transfers, Clean, Sound
  <2>9. Counted(t, x, 0)
    BY <1>5, <2>2, <2>3, <2>5, <2>6 DEF Counted, Sound
  <2>10. Relays(s, t)
    BY <1>5, <2>2, <2>5 DEF Relays
  <2> QED
    BY <1>5, <1>13, <2>2, <2>3, <2>4, <2>5, <2>7, <2>8, <2>9, <2>10 DEF Sound
<1> QED
  BY <1>10, <1>11, <1>12, <1>13

\* The returned error is part of no invariant.
LEMMA RetKeeps ==
  ASSUME NEW x, NEW a, NEW s, Sound(s, x, a), NEW r \in Rets, NEW t, t = WithRet(s, r)
  PROVE  /\ Sound(t, x, a) /\ (Settled(s) => Settled(t)) /\ Relays(s, t) /\ t.ret = r
         /\ \A u : Relays(u, s) => Relays(u, t)
         /\ t.pcb = s.pcb /\ t.client = s.client /\ t.socks = s.socks /\ t.net = s.net
         /\ t.c = s.c /\ (Dev(t) <=> Dev(s)) /\ (Srv(t) <=> Srv(s))
<1>1. s \in State /\ s.net \in NetType
  BY DEF Sound, State
<1>2. /\ t \in State /\ t.pcb = s.pcb /\ t.client = s.client /\ t.socks = s.socks
      /\ t.net = s.net /\ t.ret = r /\ t.c = s.c /\ t.log = s.log
  BY <1>1 DEF State, WithRet
<1>3. (Dev(t) <=> Dev(s)) /\ (Srv(t) <=> Srv(s)) /\ Left(t) = Left(s)
  BY <1>2 DEF Dev, Srv, Left
<1>4. Linked(t) /\ Transfers(t) /\ Counted(t, x, a) /\ Clean(t)
  BY <1>2, <1>3 DEF Linked, Transfers, Counted, Clean, Sound
<1>5. Settled(s) => Settled(t)
  BY <1>2, <1>3 DEF Settled
<1>6. Relays(s, t)
  BY <1>1, <1>2, <1>3 DEF Relays, NetType
<1>7. \A u : Relays(u, s) => Relays(u, t)
  BY <1>2, <1>3 DEF Relays
<1> QED
  BY <1>2, <1>3, <1>4, <1>5, <1>6, <1>7 DEF Sound

\* client_socks_recv_initiate: the empty buffer is offered to the socket.
LEMMA RecvInitiate ==
  ASSUME NEW x, NEW s, Sound(s, x, 0), Dev(s), s.socks.state = "UP",
         s.client.recv_buf_used = -1, ~s.socks.receiving,
         NEW t, t = client_socks_recv_initiate(s)
  PROVE  /\ Sound(t, x, 0) /\ Settled(t) /\ Relays(s, t) /\ t.client = s.client
         /\ t.c = s.c /\ t.ret = s.ret
<1>1. s \in State /\ s.socks \in SocksType /\ s.net \in NetType
  BY DEF Sound, State
<1>2. ~(s.client.client_closed \/ s.client.socks_closed
          \/ s.client.recv_buf_used # -1 \/ s.socks.receiving)
  BY DEF Sound, Linked, Dev, Srv
<1> DEFINE so == [s.socks EXCEPT !.receiving = TRUE]
<1>3. t = [s EXCEPT !.socks.receiving = TRUE]
  BY <1>2 DEF client_socks_recv_initiate, Note
<1>4. /\ t.socks = so /\ t.client = s.client /\ t.pcb = s.pcb /\ t.net = s.net
      /\ t.log = s.log /\ t.c = s.c /\ t.ret = s.ret
  BY <1>1, <1>3 DEF State
<1>5. so \in SocksType /\ so.state = s.socks.state /\ so.sending = s.socks.sending /\ so.receiving
  BY <1>1 DEF SocksType
<1>6. t \in State
  BY <1>1, <1>3, <1>5 DEF State
<1> HIDE DEF so
<1>7. (Dev(t) <=> Dev(s)) /\ (Srv(t) <=> Srv(s)) /\ Left(t) = Left(s)
  BY <1>4 DEF Dev, Srv, Left
<1>8. Linked(t)
  BY <1>4, <1>5, <1>7 DEF Linked, Sound
<1>9. Transfers(t) /\ Counted(t, x, 0) /\ Clean(t)
  BY <1>4, <1>5, <1>7 DEF Transfers, Counted, Clean, Sound
<1>10. Settled(t)
  BY <1>4, <1>5 DEF Settled
<1>11. Relays(s, t)
  BY <1>1, <1>4, <1>7 DEF Relays, NetType
<1> QED
  BY <1>4, <1>6, <1>8, <1>9, <1>10, <1>11 DEF Sound

\* n bytes come from the server: client_socks_recv_handler_done.
LEMMA RecvDone ==
  ASSUME NEW x, NEW s, Sound(s, x, 0), Settled(s), s.socks.state = "UP", s.socks.receiving,
         NEW n \in 1..RecvBuf,
         NEW t, t = client_socks_recv_handler_done([s EXCEPT !.net.down = @ + n], n)
  PROVE  /\ Sound(t, x, 0) /\ Settled(t) /\ t.c = s.c
         /\ ~Stale => Relays(s, t)
<1>1. s \in State /\ s.socks \in SocksType /\ s.net \in NetType /\ s.client \in ClientType
      /\ s.pcb \in PcbType
  BY DEF Sound, State
<1> DEFINE s1 == [s EXCEPT !.net.down = @ + n]
           u == [s1 EXCEPT !.socks.receiving = FALSE]
           v == [u EXCEPT !.client.recv_buf_used = n, !.client.recv_buf_sent = 0,
                          !.client.recv_waiting = FALSE]
           w == client_socks_recv_send_out(v)
           so == [s.socks EXCEPT !.receiving = FALSE]
           nt == [s.net EXCEPT !.down = s.net.down + n]
           cl == [s.client EXCEPT !.recv_buf_used = n, !.recv_buf_sent = 0, !.recv_waiting = FALSE]
<1>2. t = IF s1.client.client_closed THEN u
          ELSE IF w.ret = "OK" /\ w.client.recv_buf_used = -1
               THEN client_socks_recv_initiate(w) ELSE w
  BY DEF client_socks_recv_handler_done
<1>3. /\ s1.client = s.client
      /\ u.socks = so /\ u.net = nt /\ u.client = s.client /\ u.pcb = s.pcb
      /\ u.log = s.log /\ u.c = s.c
      /\ v.socks = so /\ v.net = nt /\ v.client = cl /\ v.pcb = s.pcb
      /\ v.log = s.log /\ v.c = s.c
  BY <1>1 DEF State
<1>4. so \in SocksType /\ so.state = "UP" /\ so.sending = s.socks.sending /\ ~so.receiving
  BY <1>1 DEF SocksType
<1>5. /\ nt \in NetType /\ nt.down = s.net.down + n /\ nt.up = s.net.up /\ nt.given = s.net.given
      /\ nt.confirmed = s.net.confirmed /\ nt.clientGone = s.net.clientGone
      /\ nt.socksGone = s.net.socksGone
  BY <1>1 DEF NetType
<1>6. /\ cl \in ClientType /\ cl.live = s.client.live /\ cl.client_closed = s.client.client_closed
      /\ cl.socks_closed = s.client.socks_closed /\ cl.socks_up = s.client.socks_up
      /\ cl.buf_used = s.client.buf_used /\ cl.recv_buf_used = n /\ cl.recv_buf_sent = 0
      /\ cl.tcp_pending = s.client.tcp_pending
  <2>1. n \in -1..RecvBuf /\ 0 \in 0..RecvBuf
    BY SizesAssumption
  <2> QED
    BY <1>1, <2>1 DEF ClientType
<1>7. u \in State
  BY <1>1, <1>4, <1>5 DEF State, NetType, SocksType
<1>8. v \in State
  <2> HIDE DEF u
  <2>1. v = [u EXCEPT !.client = cl]
    BY <1>3, <1>7 DEF State
  <2> QED
    BY <1>6, <1>7, <2>1 DEF State
<1> HIDE DEF so, nt, cl, s1, u, v, w
<1>9. Srv(s) /\ s.client.socks_up /\ s.client.recv_buf_used = -1 /\ s.net.down \in Nat
      /\ s.net.confirmed <= s.net.down /\ s.net.confirmed \in Nat
  BY <1>1 DEF Sound, Linked, Transfers, Counted, NetType
<1>10. CASE s.client.client_closed
  <2>1. t = u
    BY <1>2, <1>3, <1>10
  <2>2. ~Dev(s) /\ ~Dev(t) /\ Srv(t)
    BY <1>3, <1>9, <1>10, <2>1 DEF Dev, Srv
  <2>3. Linked(t)
    BY <1>3, <1>4, <1>5, <1>9, <2>1, <2>2 DEF Linked, Sound
  <2>4. Transfers(t) /\ Clean(t) /\ Settled(t)
    BY <1>3, <1>4, <2>1, <2>2 DEF Transfers, Clean, Settled, Sound
  <2>5. Counted(t, x, 0)
    BY <1>1, <1>3, <1>5, <1>9, <2>1, <2>2 DEF Counted, Sound
  <2>6. Relays(s, t)
    BY <1>1, <1>3, <1>5, <1>9, <2>1, <2>2 DEF Relays, NetType
  <2> QED
    BY <1>3, <1>7, <2>1, <2>3, <2>4, <2>5, <2>6 DEF Sound
<1>11. CASE ~s.client.client_closed
  <2>1. Dev(s) /\ Dev(v) /\ Srv(v)
    BY <1>3, <1>6, <1>9, <1>11 DEF Dev, Srv
  <2>2. Linked(v)
    BY <1>3, <1>4, <1>5, <1>6, <1>9, <2>1 DEF Linked, Sound, Srv
  <2>3. Transfers(v) /\ Clean(v)
    BY <1>1, <1>3, <1>4, <1>6, <1>9, <2>1 DEF Transfers, Clean, Sound
  <2>4. Left(v) = n /\ Left(s) = 0
    BY <1>3, <1>6, <1>9 DEF Left
  <2>5. Counted(v, x, 0)
    BY <1>1, <1>3, <1>5, <1>6, <1>9, <2>1, <2>4 DEF Counted, Sound, PcbType
  <2>6. Relays(s, v)
    BY <1>1, <1>3, <1>5, <1>9, <2>1 DEF Relays, NetType
  <2>7. Sound(v, x, 0)
    BY <1>8, <2>2, <2>3, <2>5 DEF Sound
  <2>8. v.client.socks_up /\ v.client.recv_buf_used > 0 /\ v.socks.state = "UP" /\ ~v.socks.receiving
    BY <1>3, <1>4, <1>6, <1>9
  <2>9. w = client_socks_recv_send_out(v)
    BY DEF w
  <2>10. /\ Sound(w, x, 0) /\ (~Stale => Relays(v, w)) /\ w.c = v.c
         /\ w.ret \in {"OK", "ABRT"}
         /\ w.ret = "ABRT" => ~Dev(w) /\ Settled(w)
         /\ w.ret = "OK" =>
              /\ Dev(w) /\ (Srv(w) <=> Srv(v)) /\ w.client.socks_up /\ w.socks = v.socks
              /\ w.client.recv_buf_used = -1 \/
                   (w.client.recv_buf_used > 0 /\ (~Stale => w.client.recv_waiting /\ w.client.tcp_pending > 0))
    BY <2>1, <2>7, <2>8, <2>9, SendOut
  <2>11. ~Stale => Relays(s, w)
    BY <1>1, <1>8, <2>6, <2>10, RelaysTransitive DEF Sound
  <2>12. CASE w.ret = "OK" /\ w.client.recv_buf_used = -1
    <3>1. t = client_socks_recv_initiate(w)
      BY <1>2, <1>3, <1>11, <2>12
    <3>2. Sound(t, x, 0) /\ Settled(t) /\ Relays(w, t) /\ t.c = w.c
      BY <2>8, <2>10, <2>12, <3>1, RecvInitiate
    <3>3. ~Stale => Relays(s, t)
      BY <1>1, <2>10, <2>11, <3>2, RelaysTransitive DEF Sound
    <3> QED
      BY <1>3, <2>10, <3>2, <3>3
  <2>13. CASE ~(w.ret = "OK" /\ w.client.recv_buf_used = -1)
    <3>1. t = w
      BY <1>2, <1>3, <1>11, <2>13
    <3>2. Settled(t)
      BY <2>10, <2>13, <3>1 DEF Settled
    <3> QED
      BY <1>3, <2>10, <2>11, <3>1, <3>2
  <2> QED
    BY <2>12, <2>13
<1> QED
  BY <1>10, <1>11

-----------------------------------------------------------------------------
(* Bytes to SOCKS. *)

\* client_send_to_socks on a free socket
Offered(s) == [s EXCEPT !.socks.sending = s.client.buf_used]

\* It is called with the SOCKS connection up and no transfer running.
LEMMA SendToSocks ==
  ASSUME NEW s, ~s.client.socks_closed, s.client.socks_up, s.socks.sending = 0
  PROVE  client_send_to_socks(s) = Offered(s)
<1>1. ~(s.client.socks_closed \/ ~s.client.socks_up \/ s.socks.sending > 0)
  OBVIOUS
<1> QED
  BY <1>1 DEF client_send_to_socks, Note, Offered

\* The server has taken n bytes: client_socks_send_handler_done confirms them
\* to lwIP, offers the rest, or frees the client that waited for it.
LEMMA SendDone ==
  ASSUME NEW x \in Nat, NEW s, Sound(s, x, 0), Settled(s), s.socks.state = "UP",
         NEW n \in Nat \ {0}, n <= s.socks.sending,
         NEW t, t = client_socks_send_handler_done(s, n)
  PROVE  /\ Sound(t, x, 0) /\ Settled(t) /\ t.c = s.c
         /\ ~Stale => Relays(s, t)
<1>1. s \in State /\ s.socks \in SocksType /\ s.net \in NetType /\ s.client \in ClientType
      /\ s.pcb \in PcbType
  BY DEF Sound, State
<1>2. /\ Srv(s) /\ s.client.live /\ ~s.client.socks_closed /\ s.client.socks_up
      /\ s.socks.sending <= s.client.buf_used
  BY DEF Sound, Linked, Transfers, Srv
<1>3. /\ s.client.buf_used \in Nat /\ s.client.buf_used <= Wnd /\ Wnd \in Nat
      /\ s.socks.sending \in Nat /\ s.pcb.unread \in Nat /\ s.pcb.unread <= Wnd
      /\ s.net.given \in Nat /\ s.net.up \in Nat
  BY <1>1, SizesAssumption DEF ClientType, SocksType, PcbType, NetType
<1> DEFINE b == s.client.buf_used - n
           cl == [s.client EXCEPT !.buf_used = b]
           nt == [s.net EXCEPT !.given = s.net.given + n]
           so(k) == [s.socks EXCEPT !.sending = k]
           p == IF s.client.client_closed THEN s.pcb
                ELSE [s.pcb EXCEPT !.unread = IF s.pcb.unread > n THEN s.pcb.unread - n ELSE 0]
           u == [s EXCEPT !.socks.sending = 0, !.client.buf_used = @ - n, !.net.given = @ + n]
           v == IF s.client.client_closed THEN u ELSE tcp_recved(u, n)
<1>4. t = IF v.client.buf_used > 0 THEN client_send_to_socks(v)
          ELSE IF v.client.client_closed THEN client_free_socks(v) ELSE v
  BY DEF client_socks_send_handler_done
<1>5. b \in Nat /\ b <= Wnd /\ b < s.client.buf_used /\ 0 \in 0..Wnd /\ b \in 0..Wnd
  BY <1>2, <1>3
<1>6. /\ u.socks = so(0) /\ u.client = cl /\ u.net = nt /\ u.pcb = s.pcb
      /\ u.log = s.log /\ u.c = s.c
  BY <1>1 DEF State
<1>7. /\ cl \in ClientType /\ cl.live /\ cl.client_closed = s.client.client_closed
      /\ ~cl.socks_closed /\ cl.socks_up /\ cl.buf_used = b
      /\ cl.recv_buf_used = s.client.recv_buf_used /\ cl.recv_buf_sent = s.client.recv_buf_sent
      /\ cl.recv_waiting = s.client.recv_waiting /\ cl.tcp_pending = s.client.tcp_pending
  BY <1>1, <1>2, <1>5 DEF ClientType
<1>8. /\ nt \in NetType /\ nt.given = s.net.given + n /\ nt.up = s.net.up /\ nt.down = s.net.down
      /\ nt.confirmed = s.net.confirmed /\ nt.clientGone = s.net.clientGone
      /\ nt.socksGone = s.net.socksGone
  BY <1>1 DEF NetType
<1>9. \A k \in 0..Wnd : /\ so(k) \in SocksType /\ so(k).state = "UP" /\ so(k).sending = k
                        /\ so(k).receiving = s.socks.receiving
  BY <1>1 DEF SocksType
<1>10. /\ p \in PcbType /\ p.state = s.pcb.state /\ p.err = s.pcb.err /\ p.recv = s.pcb.recv
       /\ p.sent = s.pcb.sent /\ p.queued = s.pcb.queued
       /\ ~s.client.client_closed => p.unread = IF s.pcb.unread > n THEN s.pcb.unread - n ELSE 0
  <2>1. (IF s.pcb.unread > n THEN s.pcb.unread - n ELSE 0) \in 0..Wnd
    BY <1>3
  <2> QED
    BY <1>1, <2>1 DEF PcbType
<1>11. u \in State
  <2>1. u = [s EXCEPT !.socks = so(0), !.client = cl, !.net = nt]
    BY <1>1 DEF State
  <2> HIDE DEF cl, nt, so, u
  <2> QED
    BY <1>1, <1>5, <1>7, <1>8, <1>9, <2>1 DEF State
<1>12. v = [u EXCEPT !.pcb = p]
  <2>1. CASE s.client.client_closed
    <3>1. [u EXCEPT !.pcb = u.pcb] = u
      BY <1>11 DEF State
    <3> QED
      BY <1>6, <2>1, <3>1
  <2>2. CASE ~s.client.client_closed
    <3>1. s.pcb.state # "freed"
      BY <1>2, <2>2 DEF Sound, Linked, Dev, Open
    <3> HIDE DEF u
    <3>2. UsePcb(u) = u
      BY <1>6, <3>1, Uses
    <3>3. tcp_recved(u, n) = [u EXCEPT !.pcb.unread = IF s.pcb.unread > n THEN s.pcb.unread - n ELSE 0]
      BY <1>6, <1>11, <3>2 DEF tcp_recved, State, PcbType
    <3> QED
      BY <1>6, <1>11, <2>2, <3>3 DEF State
  <2> QED
    BY <2>1, <2>2
<1> HIDE DEF u, v, p, cl, nt
<1>13. /\ v \in State /\ v.pcb = p /\ v.client = cl /\ v.net = nt /\ v.socks = so(0)
       /\ v.log = s.log /\ v.c = s.c
  BY <1>6, <1>10, <1>11, <1>12 DEF State
<1>14. Dev(s) => s.pcb.unread = s.client.buf_used + x /\ p.unread = b + x
  <2>1. Dev(s) => s.pcb.unread = s.client.buf_used + x /\ ~s.client.client_closed
    BY <1>2 DEF Sound, Counted, Dev
  <2> QED
    BY <1>2, <1>3, <1>10, <2>1
<1>15. CASE b > 0 \/ ~s.client.client_closed
  <2>1. PICK k \in 0..Wnd : k = b
    BY <1>5
  <2>2. /\ t \in State /\ t.pcb = p /\ t.client = cl /\ t.net = nt /\ t.socks = so(k)
        /\ t.log = s.log /\ t.c = s.c
    <3>1. CASE b > 0
      <4>1. t = client_send_to_socks(v)
        BY <1>4, <1>7, <1>13, <3>1
      <4>2. ~v.client.socks_closed /\ v.client.socks_up /\ v.socks.sending = 0 /\ v.client.buf_used = b
        BY <1>5, <1>7, <1>9, <1>13
      <4>3. t = Offered(v)
        BY <4>1, <4>2, SendToSocks
      <4>4. t = [v EXCEPT !.socks = so(k)]
        BY <1>13, <2>1, <4>2, <4>3 DEF Offered, State
      <4> HIDE DEF so
      <4> QED
        BY <1>9, <1>13, <4>4 DEF State
    <3>2. CASE ~(b > 0)
      <4>1. b = 0 /\ k = 0
        BY <1>5, <2>1, <3>2
      <4>2. t = v
        BY <1>4, <1>7, <1>13, <1>15, <3>2
      <4> QED
        BY <1>13, <4>1, <4>2
    <3> QED
      BY <3>1, <3>2
  <2>3. /\ so(k) \in SocksType /\ so(k).state = "UP" /\ so(k).sending = b
        /\ so(k).receiving = s.socks.receiving
    BY <1>9, <2>1
  <2> HIDE DEF so
  <2>4. (Dev(t) <=> Dev(s)) /\ Srv(t) /\ Left(t) = Left(s)
    BY <1>2, <1>7, <2>2 DEF Dev, Srv, Left
  <2>5. Linked(t)
    BY <1>2, <1>7, <1>8, <1>10, <1>15, <2>2, <2>3, <2>4 DEF Linked, Sound, Dev
  <2>6. Transfers(t)
    BY <1>2, <1>5, <1>7, <1>10, <2>2, <2>3, <2>4 DEF Transfers, Sound
  <2>7. Clean(t) /\ Settled(t)
    BY <1>7, <2>2, <2>3, <2>4 DEF Clean, Sound, Settled
  <2>8. nt.up = nt.given + b /\ nt.given <= nt.up
    BY <1>2, <1>3, <1>5, <1>8 DEF Sound, Counted
  <2>9. Counted(t, x, 0)
    BY <1>2, <1>7, <1>8, <1>10, <1>14, <2>2, <2>4, <2>8 DEF Counted, Sound
  <2>10. Relays(s, t)
    BY <1>1, <1>2, <1>3, <1>8, <2>2, <2>4 DEF Relays, NetType
  <2> QED
    BY <2>2, <2>5, <2>6, <2>7, <2>9, <2>10 DEF Sound
<1>16. CASE ~(b > 0) /\ s.client.client_closed
  <2>1. t = client_free_socks(v)
    BY <1>4, <1>7, <1>13, <1>16
  <2>2. v.client.live /\ v.client.client_closed
    BY <1>7, <1>13, <1>16
  <2>3. t = [v EXCEPT !.client = NoClient, !.socks = NoSocks]
    BY <1>13, <2>1, <2>2, FreeSocksDoes
  <2>4. NoClient \in ClientType /\ NoSocks \in SocksType /\ NoSocks.state = "freed"
        /\ NoSocks.sending = 0 /\ ~NoSocks.receiving /\ ~NoClient.live
        /\ NoClient.recv_buf_used = -1 /\ NoClient.buf_used = 0
    BY EmptyTypes DEF NoSocks, NoClient
  <2>5. /\ t \in State /\ t.client = NoClient /\ t.socks = NoSocks /\ t.pcb = p
        /\ t.c = s.c /\ t.net = nt /\ t.log = s.log
    BY <1>13, <2>3, <2>4 DEF State
  <2>6. ~Dev(s) /\ ~Dev(t) /\ ~Srv(t)
    BY <1>16, <2>4, <2>5 DEF Dev, Srv
  <2>7. Linked(t)
    BY <1>10, <2>4, <2>5, <2>6 DEF Linked, Sound
  <2>8. Transfers(t)
    BY <2>4, <2>5, <2>6 DEF Transfers
  <2>9. nt.given = nt.up /\ s.net.clientGone
    BY <1>2, <1>3, <1>5, <1>8, <1>16, <2>6 DEF Sound, Counted, Linked
  <2>10. Counted(t, x, 0) /\ Clean(t) /\ Settled(t)
    BY <1>3, <1>8, <2>5, <2>6, <2>9 DEF Counted, Clean, Settled, Sound
  <2>11. Relays(s, t)
    <3>1. /\ s.net.up <= nt.up /\ s.net.given <= nt.given
          /\ s.net.down <= nt.down /\ s.net.confirmed <= nt.confirmed
      BY <1>1, <1>3, <1>8 DEF NetType
    <3> HIDE DEF b, so
    <3> QED
      BY <1>2, <1>8, <2>5, <2>6, <2>9, <3>1 DEF Relays
  <2> QED
    BY <2>5, <2>7, <2>8, <2>10, <2>11 DEF Sound
<1> QED
  BY <1>15, <1>16

\* BSOCKSCLIENT_EVENT_UP: the counts start afresh, and both transfers.
LEMMA SocksUpKeeps ==
  ASSUME NEW s, Sound(s, 0, 0), Srv(s), s.socks.state # "UP", NEW t, t = SocksUp(s)
  PROVE  Sound(t, 0, 0) /\ Settled(t) /\ Relays(s, t)
<1>1. s \in State /\ s.socks \in SocksType /\ s.net \in NetType /\ s.client \in ClientType
      /\ s.pcb \in PcbType
  BY DEF Sound, State
<1>2. /\ s.client.live /\ ~s.client.socks_closed /\ ~s.client.socks_up
      /\ s.socks.sending = 0 /\ ~s.socks.receiving /\ s.client.recv_buf_used = -1
      /\ Dev(s) => s.pcb.queued = 0
  BY DEF Sound, Linked, Transfers, Srv
<1> DEFINE u == [s EXCEPT !.socks.state = "UP", !.client.recv_buf_used = -1,
                          !.client.tcp_pending = 0, !.client.socks_up = TRUE,
                          !.pcb.sent = IF s.client.client_closed THEN @ ELSE TRUE]
           v == IF u.client.buf_used > 0 THEN client_send_to_socks(u) ELSE u
           cl == [s.client EXCEPT !.recv_buf_used = -1, !.tcp_pending = 0, !.socks_up = TRUE]
           p == [s.pcb EXCEPT !.sent = IF s.client.client_closed THEN s.pcb.sent ELSE TRUE]
           su == [s.socks EXCEPT !.state = "UP"]
           so == [su EXCEPT !.sending = s.client.buf_used]
<1>3. t = IF v.client.client_closed THEN v ELSE client_socks_recv_initiate(UsePcb(v))
  BY DEF SocksUp
<1>4. u = [s EXCEPT !.socks = su, !.client = cl, !.pcb = p]
  BY <1>1 DEF State
<1>5. /\ cl \in ClientType /\ cl.live /\ cl.client_closed = s.client.client_closed
      /\ ~cl.socks_closed /\ cl.socks_up /\ cl.buf_used = s.client.buf_used
      /\ cl.recv_buf_used = -1 /\ cl.tcp_pending = 0
  <2>1. PICK m \in -1..RecvBuf : m = -1
    BY SizesAssumption
  <2>2. cl = [s.client EXCEPT !.recv_buf_used = m, !.tcp_pending = 0, !.socks_up = TRUE]
    BY <2>1
  <2> HIDE DEF cl
  <2>3. cl.recv_buf_used = m
    BY <1>1, <2>2 DEF ClientType
  <2>5. cl \in ClientType
    <3>1. 0 \in Int /\ m \in -1..RecvBuf
      BY <2>1
    <3> QED
      BY <1>1, <2>2, <3>1 DEF ClientType
  <2>4. /\ cl.live = s.client.live /\ cl.client_closed = s.client.client_closed
        /\ cl.socks_closed = s.client.socks_closed /\ cl.socks_up
        /\ cl.buf_used = s.client.buf_used /\ cl.tcp_pending = 0
    BY <1>1, <2>2 DEF ClientType
  <2> QED
    BY <1>2, <2>1, <2>3, <2>4, <2>5
<1>6. /\ p \in PcbType /\ p.state = s.pcb.state /\ p.err = s.pcb.err /\ p.recv = s.pcb.recv
      /\ p.unread = s.pcb.unread /\ p.queued = s.pcb.queued
      /\ p.sent = IF s.client.client_closed THEN s.pcb.sent ELSE TRUE
  BY <1>1 DEF PcbType
<1>7. /\ su \in SocksType /\ su.state = "UP" /\ su.sending = 0 /\ ~su.receiving
  BY <1>1, <1>2 DEF SocksType
<1>8. /\ so \in SocksType /\ so.state = "UP" /\ so.sending = s.client.buf_used /\ ~so.receiving
  <2>1. s.client.buf_used \in 0..Wnd
    BY <1>1 DEF ClientType
  <2> QED
    BY <1>7, <2>1 DEF SocksType
<1> HIDE DEF su, cl, p, u, so
<1>9. /\ u \in State /\ u.socks = su /\ u.client = cl /\ u.pcb = p /\ u.net = s.net
      /\ u.log = s.log /\ u.c = s.c /\ u.ret = s.ret
  BY <1>1, <1>4, <1>5, <1>6, <1>7 DEF State
<1>10. v = [u EXCEPT !.socks = so]
  <2>1. CASE s.client.buf_used > 0
    <3>1. client_send_to_socks(u) = Offered(u)
      BY <1>5, <1>7, <1>9, SendToSocks
    <3>2. Offered(u) = [u EXCEPT !.socks = so]
      BY <1>5, <1>9 DEF Offered, State, so
    <3> QED
      BY <1>5, <1>9, <2>1, <3>1, <3>2
  <2>2. CASE ~(s.client.buf_used > 0)
    <3>1. s.client.buf_used = 0
      BY <1>1, <2>2 DEF ClientType
    <3>2. so = su
      BY <1>7, <3>1 DEF SocksType, so
    <3>3. [u EXCEPT !.socks = u.socks] = u
      BY <1>9 DEF State
    <3> QED
      BY <1>5, <1>9, <2>2, <3>2, <3>3
  <2> QED
    BY <2>1, <2>2
<1> HIDE DEF v
<1>11. /\ v \in State /\ v.socks = so /\ v.client = cl /\ v.pcb = p /\ v.net = s.net
       /\ v.log = s.log /\ v.c = s.c
  BY <1>8, <1>9, <1>10 DEF State
<1>12. (Dev(v) <=> Dev(s)) /\ Srv(v) /\ Left(v) = 0 /\ Left(s) = 0
  BY <1>2, <1>5, <1>11 DEF Dev, Srv, Left
<1>13. Linked(v)
  BY <1>2, <1>5, <1>6, <1>8, <1>11, <1>12 DEF Linked, Sound, Dev
<1>14. Transfers(v) /\ Clean(v)
  BY <1>1, <1>5, <1>6, <1>8, <1>11, <1>12 DEF Transfers, Clean, Sound, ClientType
<1>15. Counted(v, 0, 0)
  BY <1>2, <1>5, <1>6, <1>11, <1>12 DEF Counted, Sound
<1>16. Relays(s, v)
  BY <1>1, <1>11, <1>12 DEF Relays, NetType
<1>17. Sound(v, 0, 0)
  BY <1>11, <1>13, <1>14, <1>15 DEF Sound
<1>18. CASE v.client.client_closed
  BY <1>3, <1>16, <1>17, <1>18 DEF Settled, Dev
<1>19. CASE ~v.client.client_closed
  <2>1. Dev(v) /\ v.socks.state = "UP" /\ v.client.recv_buf_used = -1 /\ ~v.socks.receiving
    BY <1>5, <1>8, <1>11, <1>19 DEF Dev
  <2>2. UsePcb(v) = v
    BY <2>1, <1>13, Uses DEF Linked, Open
  <2>3. t = client_socks_recv_initiate(v)
    BY <1>3, <1>19, <2>2
  <2>4. Sound(t, 0, 0) /\ Settled(t) /\ Relays(v, t)
    BY <1>17, <2>1, <2>3, RecvInitiate
  <2> QED
    BY <1>1, <1>11, <1>16, <2>4, RelaysTransitive DEF Sound
<1> QED
  BY <1>18, <1>19

\* One socket job, whatever it finds.
LEMMA SocketJobKeeps ==
  ASSUME NEW x \in Nat, NEW s, Sound(s, x, 0), Settled(s), NEW o \in Outcomes,
         NEW t, t = SocketJob(s, o)
  PROVE  /\ Sound(t, x, 0) /\ Settled(t) /\ t.c = s.c
         /\ ~Stale => Relays(s, t)
<1>1. s \in State
  BY DEF Sound
<1>2. CASE t = s
  BY <1>1, <1>2, RelaysReflexive
<1>3. CASE t # s
  <2>1. s.client.live /\ s.socks.state = "UP"
    BY <1>3 DEF SocketJob
  <2>2. Srv(s)
    BY <2>1 DEF Sound, Linked
  <2>3. CASE o.job = "sent" /\ s.socks.sending >= o.n
    <3>1. t = client_socks_send_handler_done(s, o.n)
      BY <2>1, <2>3 DEF SocketJob
    <3>2. o.n \in Nat \ {0}
      BY <2>3, SizesAssumption DEF Outcomes
    <3>3. o.n <= s.socks.sending
      <4>1. s.socks.sending \in Nat
        BY <1>1, SizesAssumption DEF State, SocksType
      <4> QED
        BY <2>3, <3>2, <4>1
    <3> QED
      BY <2>1, <3>1, <3>2, <3>3, SendDone
  <2>4. CASE o.job = "received" /\ s.socks.receiving /\ o.n <= RecvBuf
               /\ s.net.down + o.n <= MaxDown
    <3>1. t = client_socks_recv_handler_done([s EXCEPT !.net.down = @ + o.n], o.n)
      BY <2>1, <2>4 DEF SocketJob
    <3>2. o.n \in 1..RecvBuf
      BY <2>4, SizesAssumption DEF Outcomes
    <3> QED
      BY <2>1, <2>4, <3>1, <3>2, RecvDone
  <2>5. CASE o.job \in {"error", "eof"}
    <3>1. t = SocksGone(s)
      BY <1>3, <2>1, <2>5 DEF SocketJob
    <3> QED
      BY <2>2, <3>1, SocksGoneKeeps
  <2> QED
    BY <1>3, <2>1, <2>3, <2>4, <2>5 DEF SocketJob, Outcomes
<1> QED
  BY <1>2, <1>3

\* The jobs of a SYNC_COMMIT, and the value the callback returns after it.
LEMMA SyncCommitKeeps ==
  ASSUME NEW x \in Nat, NEW s, Sound(s, x, 0), Settled(s), NEW kinds,
         NEW t, t = SYNC_COMMIT(s, kinds)
  PROVE  /\ Sound(t, x, 0) /\ Settled(t) /\ t.c = s.c
         /\ t.ret \in {"OK", "ABRT"} /\ (t.ret = "ABRT" <=> ~Dev(t))
         /\ ~Stale => Relays(s, t)
<1>1. s \in State /\ s.c.jobs \in JobRuns
  BY DEF Sound, State
<1> DEFINE J == s.c.jobs
           Run(r, i) == IF i <= Len(J) /\ J[i].job \in kinds THEN SocketJob(r, J[i]) ELSE r
           u == Run(s, 1)
           v == Run(u, 2)
<1>2. t = [v EXCEPT !.ret = IF v.client.client_closed THEN "ABRT" ELSE "OK"]
  BY DEF SYNC_COMMIT, DEAD_LEAVE2, Jobs
<1>3. Len(J) \in Nat /\ \A i \in {1, 2} : i <= Len(J) => J[i] \in Outcomes
  BY <1>1 DEF JobRuns
<1> HIDE DEF J
<1>4. Sound(u, x, 0) /\ Settled(u) /\ u.c = s.c /\ (~Stale => Relays(s, u))
  <2>1. CASE u = s
    BY <1>1, <2>1, RelaysReflexive
  <2>2. CASE u # s
    <3>1. 1 <= Len(J) /\ u = SocketJob(s, J[1])
      BY <2>2
    <3> HIDE DEF u
    <3>2. J[1] \in Outcomes
      BY <1>3, <3>1
    <3> QED
      BY <3>1, <3>2, SocketJobKeeps
  <2> QED
    BY <2>1, <2>2
<1> HIDE DEF u
<1>5. Sound(v, x, 0) /\ Settled(v) /\ v.c = s.c /\ (~Stale => Relays(s, v))
  <2>1. CASE v = u
    BY <1>4, <2>1
  <2>2. CASE v # u
    <3>1. 2 <= Len(J) /\ v = SocketJob(u, J[2])
      BY <2>2
    <3> HIDE DEF v
    <3>2. J[2] \in Outcomes
      BY <1>3, <3>1
    <3>3. Sound(v, x, 0) /\ Settled(v) /\ v.c = u.c /\ (~Stale => Relays(u, v))
      BY <1>4, <3>1, <3>2, SocketJobKeeps
    <3> QED
      BY <1>1, <1>4, <3>3, RelaysTransitive DEF Sound
  <2> QED
    BY <2>1, <2>2
<1> HIDE DEF v
<1> DEFINE r == IF v.client.client_closed THEN "ABRT" ELSE "OK"
<1>6. r \in Rets /\ r \in {"OK", "ABRT"} /\ (r = "ABRT" <=> v.client.client_closed)
  BY DEF Rets
<1>7. t = WithRet(v, r)
  BY <1>2 DEF WithRet
<1> HIDE DEF r
<1>8. v.client.client_closed <=> ~Dev(v)
  BY <1>5 DEF Sound, Linked, Dev, NoClient
<1> QED
  BY <1>5, <1>6, <1>7, <1>8, RetKeeps

-----------------------------------------------------------------------------
(* The events of one segment. *)

\* how a callback leaves the state: sound, settled, and ERR_ABRT exactly if
\* the pcb is no longer the client's
Returned(s, t, x) ==
  /\ Sound(t, x, 0) /\ Settled(t) /\ t.c = s.c
  /\ t.ret = "ABRT" <=> ~Dev(t)
  /\ ~Stale => Relays(s, t)

\* the acknowledged bytes are counted off
CountedOff(s, a) ==
  [s EXCEPT !.client.tcp_pending = s.client.tcp_pending - a]

\* They are, before anything else, in client_sent_func.
LEMMA CountedOffKeeps ==
  ASSUME NEW x, NEW a \in Int, NEW s, Sound(s, x, a), Dev(s), s.client.socks_up,
         NEW t, t = CountedOff(s, a)
  PROVE  /\ Sound(t, x, 0) /\ Relays(s, t) /\ Dev(t) /\ (Srv(t) <=> Srv(s)) /\ t.client.socks_up
         /\ t.client.recv_buf_used = s.client.recv_buf_used
         /\ t.client.socks_closed = s.client.socks_closed
         /\ t.c = s.c /\ t.net = s.net /\ t.socks = s.socks /\ t.pcb = s.pcb
         /\ t.client.tcp_pending = s.client.tcp_pending - a
<1>1. s \in State /\ s.net \in NetType /\ s.client \in ClientType /\ s.pcb \in PcbType
  BY DEF Sound, State
<1> DEFINE cl == [s.client EXCEPT !.tcp_pending = s.client.tcp_pending - a]
<1>2. /\ t.client = cl /\ t.pcb = s.pcb /\ t.socks = s.socks /\ t.net = s.net
      /\ t.log = s.log /\ t.c = s.c /\ t.ret = s.ret
  BY <1>1 DEF State, CountedOff
<1>3. /\ cl \in ClientType /\ cl.live = s.client.live
      /\ cl.client_closed = s.client.client_closed /\ cl.socks_closed = s.client.socks_closed
      /\ cl.socks_up = s.client.socks_up /\ cl.buf_used = s.client.buf_used
      /\ cl.recv_buf_used = s.client.recv_buf_used /\ cl.recv_buf_sent = s.client.recv_buf_sent
      /\ cl.tcp_pending = s.client.tcp_pending - a
  <2>1. s.client.tcp_pending - a \in Int
    BY <1>1 DEF ClientType
  <2> QED
    BY <1>1, <2>1 DEF ClientType
<1>4. t \in State
  BY <1>1, <1>3 DEF State, CountedOff
<1> HIDE DEF cl
<1>5. (Dev(t) <=> Dev(s)) /\ (Srv(t) <=> Srv(s)) /\ Left(t) = Left(s)
  BY <1>2, <1>3 DEF Dev, Srv, Left
<1>6. Linked(t)
  BY <1>2, <1>3, <1>5 DEF Linked, Sound, Dev
<1>7. Transfers(t) /\ Clean(t)
  BY <1>2, <1>3, <1>5 DEF Transfers, Clean, Sound
<1>8. Counted(t, x, 0)
  BY <1>1, <1>2, <1>3, <1>5 DEF Counted, Sound, PcbType, ClientType
<1>9. Relays(s, t)
  BY <1>1, <1>2, <1>5 DEF Relays, NetType
<1> QED
  BY <1>2, <1>3, <1>4, <1>5, <1>6, <1>7, <1>8, <1>9 DEF Sound

NotWaiting(s) == [s EXCEPT !.client.recv_waiting = FALSE]

\* recv_waiting is part of Settled only.
LEMMA NotWaitingKeeps ==
  ASSUME NEW x, NEW s, Sound(s, x, 0), s.client.live, NEW t, t = NotWaiting(s)
  PROVE  /\ Sound(t, x, 0) /\ Relays(s, t) /\ (Dev(t) <=> Dev(s)) /\ (Srv(t) <=> Srv(s))
         /\ t.client.socks_up = s.client.socks_up /\ t.c = s.c /\ t.socks = s.socks
         /\ t.client.recv_buf_used = s.client.recv_buf_used
<1>1. s \in State /\ s.net \in NetType /\ s.client \in ClientType
  BY DEF Sound, State
<1> DEFINE cl == [s.client EXCEPT !.recv_waiting = FALSE]
<1>2. /\ t.client = cl /\ t.pcb = s.pcb /\ t.socks = s.socks /\ t.net = s.net
      /\ t.log = s.log /\ t.c = s.c /\ t.ret = s.ret
  BY <1>1 DEF State, NotWaiting
<1>3. /\ cl \in ClientType /\ cl.live = s.client.live
      /\ cl.client_closed = s.client.client_closed /\ cl.socks_closed = s.client.socks_closed
      /\ cl.socks_up = s.client.socks_up /\ cl.buf_used = s.client.buf_used
      /\ cl.recv_buf_used = s.client.recv_buf_used /\ cl.recv_buf_sent = s.client.recv_buf_sent
      /\ cl.tcp_pending = s.client.tcp_pending
  BY <1>1 DEF ClientType
<1>4. t \in State
  BY <1>1, <1>3 DEF State, ClientType, NotWaiting
<1> HIDE DEF cl
<1>7. (Dev(t) <=> Dev(s)) /\ (Srv(t) <=> Srv(s)) /\ Left(t) = Left(s)
  BY <1>2, <1>3 DEF Dev, Srv, Left
<1>8. Linked(t)
  BY <1>2, <1>3, <1>7 DEF Linked, Sound
<1>9. Transfers(t) /\ Clean(t) /\ Counted(t, x, 0)
  BY <1>2, <1>3, <1>7 DEF Transfers, Clean, Counted, Sound
<1>10. Relays(s, t)
  BY <1>1, <1>2, <1>7 DEF Relays, NetType
<1> QED
  BY <1>2, <1>3, <1>4, <1>7, <1>8, <1>9, <1>10 DEF Sound

\* the same with the assertion of client_sent_func
NotedOff(s, a) ==
  [Note(s, a > s.client.tcp_pending, "pending") EXCEPT !.client.tcp_pending = @ - a]

\* The acknowledged bytes are the oldest of those pending.
LEMMA PendingNote ==
  ASSUME NEW x, NEW a \in Nat, NEW s, Sound(s, x, a), Dev(s), s.client.socks_up,
         NEW t, t = NotedOff(s, a)
  PROVE  \E u : /\ Sound(u, x, a) /\ Dev(u) /\ u.client = s.client /\ u.c = s.c
                /\ u.socks = s.socks /\ u.net = s.net /\ t = CountedOff(u, a)
<1>1. s \in State /\ s.client \in ClientType /\ s.pcb \in PcbType
  BY DEF Sound, State
<1>2. CASE a > s.client.tcp_pending
  <2> DEFINE u == WithLog(s, "pending")
  <2>1. Stale
    BY <1>1, <1>2 DEF Sound, Counted, PcbType, ClientType
  <2>2. Note(s, a > s.client.tcp_pending, "pending") = u
    BY <1>2 DEF Note, WithLog
  <2>3. "pending" \in StaleNotes
    BY DEF StaleNotes
  <2>4. u = WithLog(s, "pending")
    OBVIOUS
  <2>5. t = CountedOff(u, a)
    BY <2>2 DEF CountedOff, NotedOff
  <2> HIDE DEF u
  <2>6. Sound(u, x, a) /\ u.client = s.client /\ u.c = s.c /\ u.socks = s.socks /\ u.net = s.net
    BY <2>1, <2>3, <2>4, NoteKeeps
  <2>7. Dev(u)
    BY <2>6 DEF Dev
  <2> QED
    BY <2>5, <2>6, <2>7
<1>3. CASE ~(a > s.client.tcp_pending)
  <2>1. Note(s, a > s.client.tcp_pending, "pending") = s
    BY <1>3 DEF Note
  <2>2. t = CountedOff(s, a)
    BY <2>1 DEF CountedOff, NotedOff
  <2> QED
    BY <2>2
<1> QED
  BY <1>2, <1>3

\* client_sent_func: the bytes are counted off, the rest of the buffer is
\* queued, and a client whose server has gone ends with its last byte.
LEMMA SentFunc ==
  ASSUME NEW x \in Nat, NEW a \in Nat, NEW s, Sound(s, x, a), Settled(s), Dev(s),
         s.client.socks_up, NEW t, t = client_sent_func(s, a)
  PROVE  Returned(s, t, x)
<1> DEFINE v == NotedOff(s, a)
           w == client_socks_recv_send_out([v EXCEPT !.client.recv_waiting = FALSE])
<1>0. UseClient(s) = s /\ ~s.client.client_closed
  BY DEF Dev, UseClient, Note
<1>1. Note(UseClient(s), s.client.client_closed \/ ~s.client.socks_up, "callback") = s
  BY <1>0 DEF Note
<1>2. t = IF v.client.recv_buf_used > 0
          THEN IF w.ret = "ABRT" THEN w
               ELSE IF w.client.recv_buf_used = -1 /\ ~w.client.socks_closed
                    THEN SYNC_COMMIT(client_socks_recv_initiate(w), {"received", "error", "eof"})
                    ELSE [w EXCEPT !.ret = "OK"]
          ELSE IF v.client.socks_closed /\ v.client.tcp_pending = 0
               THEN [client_free_client(v) EXCEPT !.ret = "ABRT"]
               ELSE [v EXCEPT !.ret = "OK"]
  <2>1. t = SentRest(v)
    BY <1>1 DEF client_sent_func, NotedOff
  <2> HIDE DEF v
  <2> QED
    BY <2>1 DEF SentRest, SentMore
<1>3. PICK u : /\ Sound(u, x, a) /\ Dev(u) /\ u.client = s.client /\ u.c = s.c
               /\ u.socks = s.socks /\ u.net = s.net /\ v = CountedOff(u, a)
  <2>1. v = NotedOff(s, a)
    OBVIOUS
  <2> HIDE DEF v
  <2> QED
    BY <2>1, PendingNote
<1> HIDE DEF v
<1>4. /\ Sound(v, x, 0) /\ Relays(u, v) /\ Dev(v) /\ (Srv(v) <=> Srv(u)) /\ v.client.socks_up
      /\ v.client.recv_buf_used = s.client.recv_buf_used
      /\ v.client.socks_closed = s.client.socks_closed
      /\ v.c = s.c /\ v.net = s.net /\ v.socks = s.socks
  BY <1>3, CountedOffKeeps
<1>5. (Srv(u) <=> Srv(s)) /\ Relays(s, v)
  BY <1>3, <1>4 DEF Relays, Dev, Srv
<1>6. v \in State /\ s \in State /\ v.client \in ClientType /\ v.pcb \in PcbType
      /\ v.net \in NetType
  BY <1>4 DEF Sound, State
<1>7. "OK" \in Rets /\ "ABRT" \in Rets
  BY DEF Rets
<1>8. CASE v.client.recv_buf_used > 0
  <2> DEFINE k == [v EXCEPT !.client.recv_waiting = FALSE]
  <2>1. k = NotWaiting(v)
    BY DEF NotWaiting
  <2> HIDE DEF k
  <2>2. /\ Sound(k, x, 0) /\ Relays(v, k) /\ Dev(k) /\ (Srv(k) <=> Srv(v)) /\ k.client.socks_up
        /\ k.c = v.c /\ k.socks = v.socks /\ k.client.recv_buf_used = v.client.recv_buf_used
    BY <1>4, <2>1, NotWaitingKeeps DEF Dev
  <2>3. w = client_socks_recv_send_out(k)
    BY DEF k
  <2> HIDE DEF w
  <2>4. /\ Sound(w, x, 0) /\ (~Stale => Relays(k, w)) /\ w.c = k.c /\ w.ret \in {"OK", "ABRT"}
        /\ w.ret = "ABRT" => ~Dev(w) /\ Settled(w)
        /\ w.ret = "OK" =>
             /\ Dev(w) /\ (Srv(w) <=> Srv(k)) /\ w.client.socks_up /\ w.socks = k.socks
             /\ w.client.recv_buf_used = -1 \/
                  (w.client.recv_buf_used > 0 /\ (~Stale => w.client.recv_waiting /\ w.client.tcp_pending > 0))
    BY <1>8, <2>2, <2>3, SendOut
  <2>5. ~Stale => Relays(s, w)
    BY <1>5, <1>6, <2>2, <2>4, RelaysTransitive DEF Sound
  <2>6. CASE w.ret = "ABRT"
    BY <1>2, <1>4, <1>8, <2>2, <2>4, <2>5, <2>6 DEF Returned
  <2>7. CASE w.ret = "OK" /\ w.client.recv_buf_used = -1 /\ ~w.client.socks_closed
    <3> DEFINE i == client_socks_recv_initiate(w)
    <3>1. t = SYNC_COMMIT(i, {"received", "error", "eof"})
      BY <1>2, <1>8, <2>7
    <3>2. Srv(w) /\ w.socks.state = "UP"
      BY <2>4, <2>7 DEF Sound, Linked, Dev, Srv
    <3>3. ~w.socks.receiving
      BY <1>8, <1>6, <2>2, <2>4, <2>7, <1>4 DEF Sound, Transfers
    <3>4. i = client_socks_recv_initiate(w)
      OBVIOUS
    <3> HIDE DEF i
    <3>5. Sound(i, x, 0) /\ Settled(i) /\ Relays(w, i) /\ i.c = w.c
      BY <2>4, <2>7, <3>2, <3>3, <3>4, RecvInitiate
    <3>6. /\ Sound(t, x, 0) /\ Settled(t) /\ t.c = i.c
          /\ (t.ret = "ABRT" <=> ~Dev(t)) /\ (~Stale => Relays(i, t))
      BY <3>1, <3>5, SyncCommitKeeps
    <3>7. ~Stale => Relays(s, t)
      BY <1>6, <2>4, <2>5, <3>5, <3>6, RelaysTransitive DEF Sound
    <3> QED
      BY <1>4, <2>2, <2>4, <3>5, <3>6, <3>7 DEF Returned
  <2>8. CASE w.ret = "OK" /\ ~(w.client.recv_buf_used = -1 /\ ~w.client.socks_closed)
    <3>1. t = WithRet(w, "OK")
      BY <1>2, <1>8, <2>8 DEF WithRet
    <3>2. Settled(w)
      <4>1. w.client.recv_buf_used > 0 => w.client.recv_buf_used # -1
        OBVIOUS
      <4>2. w.client.socks_closed => w.socks.state # "UP"
        BY <2>4 DEF Sound, Linked, Srv
      <4> QED
        BY <2>4, <2>8, <4>1, <4>2 DEF Settled
    <3>3. /\ Sound(t, x, 0) /\ Settled(t) /\ t.c = w.c /\ t.ret = "OK" /\ (Dev(t) <=> Dev(w))
          /\ (Relays(s, w) => Relays(s, t))
      BY <1>7, <2>4, <3>1, <3>2, RetKeeps
    <3> QED
      BY <1>4, <2>2, <2>4, <2>5, <2>8, <3>3 DEF Returned
  <2> QED
    BY <2>4, <2>6, <2>7, <2>8
<1>9. CASE ~(v.client.recv_buf_used > 0) /\ v.client.socks_closed /\ v.client.tcp_pending = 0
  <2>1. t = WithRet(client_free_client(v), "ABRT")
    BY <1>2, <1>9 DEF WithRet
  <2>2. v.net.socksGone /\ ~Srv(v)
    BY <1>4, <1>9 DEF Sound, Linked, Srv
  <2>3. ~Stale => v.net.confirmed = v.net.down
    <3>1. Left(v) = 0
      BY <1>9 DEF Left
    <3>2. ~Stale => v.pcb.queued = 0
      BY <1>4, <1>6, <1>9 DEF Sound, Counted, PcbType
    <3> QED
      BY <1>4, <1>6, <3>1, <3>2 DEF Sound, Counted, NetType
  <2>4. MayEndDevice(v)
    BY <2>2, <2>3 DEF MayEndDevice
  <2>5. /\ Sound(t, x, 0) /\ Settled(t) /\ ~Dev(t) /\ t.ret = "ABRT" /\ t.c = v.c
        /\ ~Stale => Relays(v, t)
    BY <1>4, <1>7, <2>1, <2>4, FreeClient
  <2> QED
    BY <1>4, <1>5, <1>6, <2>5, RelaysTransitive DEF Returned, Sound
<1>10. CASE ~(v.client.recv_buf_used > 0) /\ ~(v.client.socks_closed /\ v.client.tcp_pending = 0)
  <2>1. t = WithRet(v, "OK")
    BY <1>2, <1>10 DEF WithRet
  <2>2. Settled(v)
    BY <1>4, <1>10 DEF Settled
  <2>3. /\ Sound(t, x, 0) /\ Settled(t) /\ t.c = v.c /\ t.ret = "OK" /\ (Dev(t) <=> Dev(v))
        /\ (Relays(s, v) => Relays(s, t))
    BY <1>4, <1>7, <2>1, <2>2, RetKeeps
  <2> QED
    BY <1>4, <1>5, <2>3 DEF Returned
<1> QED
  BY <1>8, <1>9, <1>10

\* TCP_EVENT_SENT, with or without a callback.
LEMMA EventSentKeeps ==
  ASSUME NEW x \in Nat, NEW s, Sound(s, x, s.pcb.acked), Settled(s), Dev(s),
         NEW t, t = EventSent(s)
  PROVE  Returned(s, t, x)
<1>1. s \in State /\ s.pcb \in PcbType /\ s.client \in ClientType
  BY DEF Sound, State
<1>2. PICK a \in Nat : a = s.pcb.acked
  BY <1>1, SizesAssumption DEF PcbType
<1>3. CASE a > 0 /\ s.pcb.sent
  <2>1. t = client_sent_func(s, a)
    BY <1>2, <1>3 DEF EventSent
  <2>2. s.client.socks_up
    BY <1>3 DEF Sound, Linked
  <2> QED
    BY <1>2, <2>1, <2>2, SentFunc
<1>4. CASE ~(a > 0 /\ s.pcb.sent)
  <2>1. t = WithRet(s, "OK")
    BY <1>2, <1>4 DEF EventSent, WithRet
  <2>2. a = 0 \/ ~s.client.socks_up
    BY <1>2, <1>4 DEF Sound, Linked
  <2>3. Sound(s, x, 0)
    BY <1>2, <2>2 DEF Sound, Counted
  <2>4. "OK" \in Rets
    BY DEF Rets
  <2> QED
    BY <2>1, <2>3, <2>4, RetKeeps DEF Returned
<1> QED
  BY <1>3, <1>4

\* what client_recv_func leaves offered to SOCKS
Offering(s, n, so) ==
  so = IF s.client.buf_used = 0 /\ s.client.socks_up THEN n ELSE s.socks.sending

\* s after client_recv_func copied n bytes, with so bytes offered to SOCKS
Copied(s, n, so, r) ==
  [s EXCEPT !.net.up = s.net.up + n, !.client.buf_used = s.client.buf_used + n,
            !.socks.sending = so, !.ret = r]

\* The bytes of a segment move from the window to client->buf.
LEMMA CopiedKeeps ==
  ASSUME NEW f \in Nat, NEW n \in Nat \ {0}, NEW x, x = n + f, NEW s, Sound(s, x, 0), Settled(s),
         Dev(s), Srv(s), NEW so,
         Offering(s, n, so),
         NEW r \in Rets, NEW t, t = Copied(s, n, so, r)
  PROVE  /\ Sound(t, f, 0) /\ Settled(t) /\ Relays(s, t) /\ Dev(t) /\ t.c = s.c /\ t.ret = r
         /\ n <= Wnd - s.client.buf_used
<1>1. s \in State /\ s.socks \in SocksType /\ s.net \in NetType /\ s.client \in ClientType
      /\ s.pcb \in PcbType
  BY DEF Sound, State
<1>2. s.client.buf_used \in Nat /\ s.pcb.unread \in 0..Wnd /\ s.socks.sending \in 0..Wnd
      /\ s.net.up \in Nat /\ s.net.given \in Nat /\ Wnd \in Nat
  BY <1>1, SizesAssumption DEF ClientType, PcbType, SocksType, NetType
<1>3. s.pcb.unread = s.client.buf_used + n + f
  BY <1>2 DEF Sound, Counted
<1>0. so = IF s.client.buf_used = 0 /\ s.client.socks_up THEN n ELSE s.socks.sending
  BY DEF Offering
<1>4. n <= Wnd - s.client.buf_used /\ s.client.buf_used + n \in 0..Wnd /\ so \in 0..Wnd
  BY <1>0, <1>2, <1>3
<1> DEFINE b == s.client.buf_used + n
           cl == [s.client EXCEPT !.buf_used = b]
           sk == [s.socks EXCEPT !.sending = so]
           nt == [s.net EXCEPT !.up = s.net.up + n]
<1>5. /\ cl \in ClientType /\ cl.buf_used = b /\ cl.live = s.client.live
      /\ cl.client_closed = s.client.client_closed /\ cl.socks_closed = s.client.socks_closed
      /\ cl.socks_up = s.client.socks_up /\ cl.tcp_pending = s.client.tcp_pending
      /\ cl.recv_waiting = s.client.recv_waiting
      /\ cl.recv_buf_used = s.client.recv_buf_used /\ cl.recv_buf_sent = s.client.recv_buf_sent
  <2>1. b \in 0..Wnd
    BY <1>4
  <2> HIDE DEF b
  <2> QED
    BY <1>1, <2>1 DEF ClientType
<1>6. sk \in SocksType /\ sk.state = s.socks.state /\ sk.sending = so
      /\ sk.receiving = s.socks.receiving
  BY <1>1, <1>4 DEF SocksType
<1>7. /\ nt \in NetType /\ nt.up = s.net.up + n /\ nt.given = s.net.given /\ nt.down = s.net.down
      /\ nt.confirmed = s.net.confirmed /\ nt.clientGone = s.net.clientGone
      /\ nt.socksGone = s.net.socksGone
  <2>1. s.net.up + n \in Nat
    BY <1>2
  <2> QED
    BY <1>1, <2>1 DEF NetType
<1>8. t = [s EXCEPT !.net = nt, !.client = cl, !.socks = sk, !.ret = r]
  BY <1>1 DEF State, Copied
<1>9. b \in Nat /\ b > 0 /\ b = s.client.buf_used + n
  BY <1>2
<1> HIDE DEF cl, sk, nt, b
<1>10. /\ t \in State /\ t.client = cl /\ t.pcb = s.pcb /\ t.socks = sk /\ t.net = nt
       /\ t.log = s.log /\ t.c = s.c /\ t.ret = r
  BY <1>1, <1>5, <1>6, <1>7, <1>8 DEF State
<1>11. Dev(t) /\ Srv(t) /\ Left(t) = Left(s)
  BY <1>5, <1>10 DEF Dev, Srv, Left
<1>12. Linked(t)
  BY <1>5, <1>6, <1>7, <1>10, <1>11 DEF Linked, Sound, Dev
<1>13. Transfers(t)
  <2>1. so <= b /\ (s.socks.state = "UP" => so > 0)
    BY <1>0, <1>2, <1>9 DEF Sound, Transfers, Linked
  <2>2. s.socks.state # "UP" => so = 0
    BY <1>0, <1>9 DEF Sound, Transfers, Linked
  <2> QED
    BY <1>5, <1>6, <1>10, <1>11, <2>1, <2>2 DEF Sound, Transfers
<1>14. Clean(t) /\ Settled(t)
  BY <1>5, <1>6, <1>10, <1>11 DEF Clean, Sound, Settled
<1>15. Counted(t, f, 0)
  BY <1>2, <1>3, <1>5, <1>7, <1>9, <1>10, <1>11 DEF Counted, Sound
<1>16. Relays(s, t)
  BY <1>1, <1>2, <1>7, <1>10, <1>11 DEF Relays, NetType
<1> QED
  BY <1>4, <1>10, <1>11, <1>12, <1>13, <1>14, <1>15, <1>16 DEF Sound

\* s after bytes or a FIN that no callback wants are taken: new unread, new up
Dropped(s, m, k, r) == [s EXCEPT !.pcb.unread = m, !.net.up = k, !.ret = r]

\* With the server gone the window does not count.
LEMMA DroppedKeeps ==
  ASSUME NEW x, NEW y, NEW s, Sound(s, x, 0), Settled(s), Dev(s), ~Srv(s),
         NEW m \in 0..Wnd, NEW k \in Nat, k >= s.net.up, NEW r \in Rets,
         NEW t, t = Dropped(s, m, k, r)
  PROVE  Sound(t, y, 0) /\ Settled(t) /\ Relays(s, t) /\ Dev(t) /\ t.c = s.c /\ t.ret = r
<1>1. s \in State /\ s.net \in NetType /\ s.client \in ClientType /\ s.pcb \in PcbType
  BY DEF Sound, State
<1> DEFINE p == [s.pcb EXCEPT !.unread = m]
           nt == [s.net EXCEPT !.up = k]
<1>2. /\ p \in PcbType /\ p.state = s.pcb.state /\ p.err = s.pcb.err /\ p.recv = s.pcb.recv
      /\ p.sent = s.pcb.sent /\ p.queued = s.pcb.queued
  BY <1>1 DEF PcbType
<1>3. /\ nt \in NetType /\ nt.up = k /\ nt.given = s.net.given /\ nt.down = s.net.down
      /\ nt.confirmed = s.net.confirmed /\ nt.clientGone = s.net.clientGone
      /\ nt.socksGone = s.net.socksGone
  BY <1>1 DEF NetType
<1>4. t = [s EXCEPT !.net = nt, !.pcb = p, !.ret = r]
  BY <1>1 DEF State, Dropped
<1> HIDE DEF p, nt
<1>5. /\ t \in State /\ t.client = s.client /\ t.pcb = p /\ t.socks = s.socks /\ t.net = nt
      /\ t.log = s.log /\ t.c = s.c /\ t.ret = r
  BY <1>1, <1>2, <1>3, <1>4 DEF State
<1>6. Dev(t) /\ ~Srv(t) /\ Left(t) = Left(s)
  BY <1>5 DEF Dev, Srv, Left
<1>7. Linked(t)
  BY <1>2, <1>3, <1>5, <1>6 DEF Linked, Sound
<1>8. Transfers(t) /\ Clean(t) /\ Settled(t)
  BY <1>2, <1>5, <1>6 DEF Transfers, Clean, Settled, Sound
<1>9. s.net.up \in Nat /\ s.net.given \in Nat /\ s.net.given <= k
  BY <1>1 DEF NetType, Sound, Counted
<1>10. Counted(t, y, 0)
  BY <1>2, <1>3, <1>5, <1>6, <1>9 DEF Counted, Sound
<1>11. Relays(s, t)
  BY <1>1, <1>3, <1>5, <1>6 DEF Relays, NetType
<1> QED
  BY <1>5, <1>6, <1>7, <1>8, <1>10, <1>11 DEF Sound

\* tcp_recved leaves a window within its size.
LEMMA RecvedUnread ==
  ASSUME NEW s \in State, NEW n \in Nat
  PROVE  (IF s.pcb.unread > n THEN s.pcb.unread - n ELSE 0) \in 0..Wnd
<1>1. s.pcb.unread \in 0..Wnd
  BY DEF State, PcbType
<1> QED
  BY <1>1, SizesAssumption

\* TCP_EVENT_RECV: client_recv_func copies the bytes and offers them to SOCKS
\* when it is idle; without a callback they are dropped.
LEMMA EventRecvKeeps ==
  ASSUME NEW f \in Nat, NEW n \in Nat, NEW s, Sound(s, n + f, 0), Settled(s),
         s.ret = "ABRT" <=> ~Dev(s), NEW t, t = EventRecv(s, n)
  PROVE  Returned(s, t, f)
<1>1. s \in State /\ s.socks \in SocksType /\ s.net \in NetType /\ s.client \in ClientType
      /\ s.pcb \in PcbType
  BY DEF Sound, State
<1>2. "OK" \in Rets
  BY DEF Rets
<1>3. CASE s.ret = "ABRT" \/ n = 0
  <2>1. t = s
    BY <1>3 DEF EventRecv
  <2>2. Sound(s, f, 0)
    <3>1. CASE n = 0
      <4>1. n + f = f
        BY <3>1
      <4> QED
        BY <4>1
    <3>2. CASE ~Dev(s)
      BY <3>2 DEF Sound, Counted
    <3> QED
      BY <1>3, <3>1, <3>2
  <2> QED
    BY <1>1, <2>1, <2>2, RelaysReflexive DEF Returned
<1>4. CASE ~(s.ret = "ABRT" \/ n = 0)
  <2>1. Dev(s) /\ n \in Nat \ {0} /\ UsePcb(s) = s
    BY <1>4, Uses DEF Sound, Linked, Open
  <2> DEFINE u == [s EXCEPT !.net.up = @ + n]
  <2>2. t = IF s.pcb.recv THEN client_recv_func(u, n) ELSE [tcp_recved(u, n) EXCEPT !.ret = "OK"]
    BY <1>4, <2>1 DEF EventRecv
  <2>3. u.pcb = s.pcb /\ u.client = s.client /\ u.socks = s.socks
    BY <1>1 DEF State
  <2>4. CASE s.pcb.recv
    <3>1. Srv(s)
      BY <2>4 DEF Sound, Linked
    <3> DEFINE v == [u EXCEPT !.client.buf_used = @ + n]
    <3>2. Note(UseClient(u), u.client.client_closed, "callback") = u
      BY <2>1, <2>3, Uses DEF Note, Dev
    <3>0. PICK x : x = n + f
      OBVIOUS
    <3>3. PICK so : Offering(s, n, so)
      BY DEF Offering
    <3> DEFINE k == Copied(s, n, so, s.ret)
               l == Copied(s, n, so, "OK")
    <3>4. /\ s.ret \in Rets
          /\ k = Copied(s, n, so, s.ret)
          /\ l = Copied(s, n, so, "OK")
      BY <1>1 DEF State
    <3> DEFINE cl == [s.client EXCEPT !.buf_used = s.client.buf_used + n]
               sk == [s.socks EXCEPT !.sending = so]
               nt == [s.net EXCEPT !.up = s.net.up + n]
    <3>a. v = [s EXCEPT !.net = nt, !.client = cl]
      BY <1>1 DEF State
    <3>b. /\ k = [s EXCEPT !.net = nt, !.client = cl, !.socks = sk, !.ret = s.ret]
          /\ l = [s EXCEPT !.net = nt, !.client = cl, !.socks = sk, !.ret = "OK"]
      BY <1>1 DEF Copied, State
    <3> HIDE DEF k, l
    <3>5. /\ Sound(k, f, 0) /\ Settled(k) /\ Relays(s, k) /\ k.c = s.c
          /\ n <= Wnd - s.client.buf_used
      BY <2>1, <3>0, <3>1, <3>3, <3>4, CopiedKeeps
    <3>6. /\ Sound(l, f, 0) /\ Settled(l) /\ Relays(s, l) /\ Dev(l) /\ l.c = s.c /\ l.ret = "OK"
      BY <1>2, <2>1, <3>0, <3>1, <3>3, <3>4, CopiedKeeps
    <3>7. s.client.buf_used \in Nat /\ ~(n > Wnd - u.client.buf_used)
      BY <1>1, <2>3, <3>5, SizesAssumption DEF ClientType
    <3>8. t = IF s.client.buf_used = 0 /\ s.client.socks_up
              THEN SYNC_COMMIT(client_send_to_socks(v), {"sent", "error"})
              ELSE [v EXCEPT !.ret = "OK"]
      BY <2>1, <2>2, <2>3, <2>4, <3>2, <3>7 DEF client_recv_func
    <3>9. CASE s.client.buf_used = 0 /\ s.client.socks_up
      <4>1. s.socks.sending = 0
        BY <1>1, <3>9 DEF Sound, Transfers, SocksType
      <4>2. /\ ~v.client.socks_closed /\ v.client.socks_up /\ v.socks.sending = 0
            /\ v.client.buf_used = n
        BY <1>1, <3>1, <3>9, <4>1 DEF State, ClientType, Srv
      <4> HIDE DEF v
      <4>3. client_send_to_socks(v) = Offered(v)
        BY <4>2, SendToSocks
      <4>4. Offered(v) = k
        <5>1. so = n /\ v.socks = s.socks
          BY <1>1, <3>3, <3>9, <3>a DEF State, Offering
        <5>2. Offered(v) = [v EXCEPT !.socks = sk]
          BY <4>2, <5>1 DEF Offered
        <5> HIDE DEF sk, cl, nt
        <5> QED
          BY <1>1, <3>a, <3>b, <5>2 DEF State
      <4>5. t = SYNC_COMMIT(k, {"sent", "error"})
        BY <3>8, <3>9, <4>3, <4>4
      <4>6. /\ Sound(t, f, 0) /\ Settled(t) /\ t.c = k.c
            /\ (t.ret = "ABRT" <=> ~Dev(t)) /\ (~Stale => Relays(k, t))
        BY <3>5, <4>5, SyncCommitKeeps
      <4> QED
        BY <1>1, <3>5, <4>6, RelaysTransitive DEF Returned, Sound
    <3>10. CASE ~(s.client.buf_used = 0 /\ s.client.socks_up)
      <4>1. so = s.socks.sending
        BY <3>3, <3>10 DEF Offering
      <4>2. [s.socks EXCEPT !.sending = s.socks.sending] = s.socks
        BY <1>1 DEF SocksType
      <4>3. t = l
        <5>1. sk = s.socks /\ t = [v EXCEPT !.ret = "OK"]
          BY <3>8, <3>10, <4>1, <4>2
        <5> HIDE DEF v, sk, cl, nt
        <5> QED
          BY <1>1, <3>a, <3>b, <5>1, ZenonT(60) DEF State
      <4> QED
        BY <3>6, <4>3 DEF Returned
    <3> QED
      BY <3>9, <3>10
  <2>5. CASE ~s.pcb.recv
    <3>1. ~Srv(s)
      BY <2>1, <2>5 DEF Sound, Linked
    <3>2. PICK m \in 0..Wnd : m = IF s.pcb.unread > n THEN s.pcb.unread - n ELSE 0
      BY <1>1, RecvedUnread
    <3>3. PICK k \in Nat : k = s.net.up + n
      BY <1>1 DEF NetType
    <3>4. k >= s.net.up
      BY <1>1, <3>3 DEF NetType
    <3>5. UsePcb(u) = u
      BY <2>1, <2>3, Uses DEF Sound, Linked, Open
    <3>6. t = Dropped(s, m, k, "OK")
      <4>1. t = [[u EXCEPT !.pcb.unread = IF @ > n THEN @ - n ELSE 0] EXCEPT !.ret = "OK"]
        BY <2>2, <2>5, <3>5 DEF tcp_recved
      <4> DEFINE q == [s.pcb EXCEPT !.unread = m]
                 nt == [s.net EXCEPT !.up = k]
      <4>2. u = [s EXCEPT !.net = nt]
        BY <3>3
      <4>3. [u EXCEPT !.pcb.unread = IF @ > n THEN @ - n ELSE 0] = [u EXCEPT !.pcb = q]
        <5>1. [u EXCEPT !.pcb.unread = IF @ > n THEN @ - n ELSE 0]
                = [u EXCEPT !.pcb = [u.pcb EXCEPT !.unread = IF u.pcb.unread > n THEN u.pcb.unread - n ELSE 0]]
          OBVIOUS
        <5> HIDE DEF u
        <5> QED
          BY <2>3, <3>2, <5>1
      <4>4. Dropped(s, m, k, "OK") = [s EXCEPT !.pcb = q, !.net = nt, !.ret = "OK"]
        BY <1>1 DEF Dropped, State
      <4>5. t = [[u EXCEPT !.pcb = q] EXCEPT !.ret = "OK"]
        BY <4>1, <4>3
      <4> HIDE DEF q, nt, u
      <4>6. t = [[[s EXCEPT !.net = nt] EXCEPT !.pcb = q] EXCEPT !.ret = "OK"]
        BY <4>2, <4>5
      <4> QED
        BY <1>1, <4>4, <4>6 DEF State
    <3> QED
      BY <1>2, <2>1, <3>1, <3>4, <3>6, DroppedKeeps DEF Returned
  <2> QED
    BY <2>4, <2>5
<1> QED
  BY <1>3, <1>4

\* s with m bytes of the window in use
Unread(s, m) == [s EXCEPT !.pcb.unread = m]

\* The window that the FIN took is given back.
LEMMA UnreadKeeps ==
  ASSUME NEW s, Sound(s, 1, 0), Settled(s), Dev(s), Srv(s),
         NEW m, m = IF s.pcb.unread > 1 THEN s.pcb.unread - 1 ELSE 0,
         NEW t, t = Unread(s, m)
  PROVE  /\ Sound(t, 0, 0) /\ Settled(t) /\ Relays(s, t) /\ Dev(t)
         /\ t.c = s.c /\ t.net = s.net /\ t.client = s.client
<1>1. s \in State /\ s.net \in NetType /\ s.client \in ClientType /\ s.pcb \in PcbType
  BY DEF Sound, State
<1>2. m \in 0..Wnd
  BY <1>1, RecvedUnread
<1>3. s.pcb.unread = s.client.buf_used + 1
  BY DEF Sound, Counted
<1>4. m = s.client.buf_used
  BY <1>1, <1>3, SizesAssumption DEF ClientType
<1> DEFINE p == [s.pcb EXCEPT !.unread = m]
<1>5. /\ p \in PcbType /\ p.state = s.pcb.state /\ p.err = s.pcb.err /\ p.recv = s.pcb.recv
      /\ p.sent = s.pcb.sent /\ p.queued = s.pcb.queued /\ p.unread = m
  BY <1>1, <1>2 DEF PcbType
<1>6. t = [s EXCEPT !.pcb = p]
  BY <1>1 DEF State, Unread
<1> HIDE DEF p
<1>7. /\ t \in State /\ t.client = s.client /\ t.pcb = p /\ t.socks = s.socks /\ t.net = s.net
      /\ t.log = s.log /\ t.c = s.c
  BY <1>1, <1>5, <1>6 DEF State
<1>8. Dev(t) /\ Srv(t) /\ Left(t) = Left(s)
  BY <1>7 DEF Dev, Srv, Left
<1>9. Linked(t)
  BY <1>5, <1>7, <1>8 DEF Linked, Sound
<1>10. Transfers(t) /\ Clean(t) /\ Settled(t)
  BY <1>5, <1>7, <1>8 DEF Transfers, Clean, Settled, Sound
<1>11. s.client.buf_used = s.client.buf_used + 0
  BY <1>1, SizesAssumption DEF ClientType
<1>12. Counted(t, 0, 0)
  BY <1>4, <1>5, <1>7, <1>8, <1>11 DEF Counted, Sound
<1>13. Relays(s, t)
  BY <1>1, <1>7, <1>8 DEF Relays, NetType
<1> QED
  BY <1>7, <1>8, <1>9, <1>10, <1>12, <1>13 DEF Sound

\* TCP_EVENT_CLOSED: client_recv_func without a pbuf frees the client.
LEMMA EventClosedKeeps ==
  ASSUME NEW s, NEW fin \in BOOLEAN, NEW f, f = IF fin THEN 1 ELSE 0,
         Sound(s, f, 0), Settled(s),
         s.ret = "ABRT" <=> ~Dev(s), NEW t, t = EventClosed(s, fin)
  PROVE  Returned(s, t, 0)
<1>1. s \in State /\ s.net \in NetType /\ s.client \in ClientType /\ s.pcb \in PcbType
  BY DEF Sound, State
<1>2. "OK" \in Rets /\ "ABRT" \in Rets
  BY DEF Rets
<1>3. CASE s.ret = "ABRT" \/ ~fin
  <2>1. t = s
    BY <1>3 DEF EventClosed
  <2>2. Sound(s, 0, 0)
    BY <1>3 DEF Sound, Counted
  <2> QED
    BY <1>1, <2>1, <2>2, RelaysReflexive DEF Returned
<1>4. CASE s.ret # "ABRT" /\ fin
  <2>1. Dev(s) /\ UsePcb(s) = s /\ f = 1
    BY <1>4, Uses DEF Sound, Linked, Open
  <2>2. PICK m \in 0..Wnd : m = IF s.pcb.unread > 1 THEN s.pcb.unread - 1 ELSE 0
    BY <1>1, RecvedUnread
  <2> DEFINE u == Unread(s, m)
  <2>3. tcp_recved(s, 1) = u
    BY <2>1, <2>2 DEF tcp_recved, Unread
  <2>4. CASE s.pcb.recv
    <3>1. Srv(s)
      BY <2>4 DEF Sound, Linked
    <3> HIDE DEF u
    <3>2. /\ Sound(u, 0, 0) /\ Settled(u) /\ Relays(s, u) /\ Dev(u)
          /\ u.c = s.c /\ u.net = s.net /\ u.client = s.client
      BY <2>1, <2>2, <3>1, UnreadKeeps DEF u
    <3> DEFINE n == DeviceLost(u.net)
               v == WithNet(u, n)
    <3>3. n = DeviceLost(u.net) /\ v = WithNet(u, n)
      OBVIOUS
    <3>4. [u EXCEPT !.net.clientGone = TRUE] = v
      BY DEF WithNet, DeviceLost
    <3>5. t = client_recv_func(v, 0)
      BY <1>4, <2>3, <2>4, <3>4 DEF EventClosed
    <3> HIDE DEF n, v
    <3>6. Sound(v, 0, 0) /\ Relays(u, v) /\ v.net = n /\ v.client = u.client /\ v.c = u.c
      BY <3>2, <3>3, MarkGone
    <3>7. n.clientGone
      BY <1>1, <3>2, <3>3 DEF DeviceLost, NetType
    <3>8. Dev(v) /\ MayEndDevice(v)
      BY <3>2, <3>6, <3>7 DEF Dev, MayEndDevice
    <3>9. Note(UseClient(v), v.client.client_closed, "callback") = v
      BY <3>8, Uses DEF Note, Dev
    <3>10. t = WithRet(client_free_client(v), "ABRT")
      BY <3>5, <3>9 DEF client_recv_func, WithRet
    <3>11. /\ Sound(t, 0, 0) /\ Settled(t) /\ ~Dev(t) /\ t.ret = "ABRT" /\ t.c = v.c
           /\ ~Stale => Relays(v, t)
      BY <1>2, <3>6, <3>8, <3>10, FreeClient
    <3>12. ~Stale => Relays(s, t)
      BY <1>1, <3>2, <3>6, <3>11, RelaysTransitive DEF Sound
    <3> QED
      BY <3>2, <3>6, <3>11, <3>12 DEF Returned
  <2>5. CASE ~s.pcb.recv
    <3>1. ~Srv(s)
      BY <2>1, <2>5 DEF Sound, Linked
    <3>2. s.net.up \in Nat /\ s.net.up >= s.net.up
      BY <1>1 DEF NetType
    <3>3. [s.net EXCEPT !.up = s.net.up] = s.net
      BY <1>1 DEF NetType
    <3>4. t = Dropped(s, m, s.net.up, "OK")
      BY <1>1, <1>4, <2>3, <2>5, <3>3 DEF EventClosed, Dropped, Unread, State
    <3> QED
      BY <1>2, <2>1, <3>1, <3>2, <3>4, DroppedKeeps DEF Returned
  <2> QED
    BY <2>4, <2>5
<1> QED
  BY <1>3, <1>4

\* The callbacks of one segment, in tcp_input's order.
LEMMA EventsKeep ==
  ASSUME NEW s, NEW seg \in Segments, Sound(s, seg.data + FinLen(seg), s.pcb.acked), Settled(s),
         Dev(s), NEW t, t = Events(s, seg)
  PROVE  /\ Sound(t, 0, 0) /\ Settled(t)
         /\ ~Stale => Relays(s, t)
<1>1. PICK n \in Nat, f \in Nat : n = seg.data /\ f = FinLen(seg) /\ f = IF seg.fin THEN 1 ELSE 0
  BY SizesAssumption DEF Segments, FinLen
<1>2. seg.fin \in BOOLEAN /\ n + f \in Nat
  BY <1>1 DEF Segments
<1> DEFINE u == EventSent(s)
           v == EventRecv(u, n)
           w == EventClosed(v, seg.fin)
<1>3. t = EventOutput(w)
  BY <1>1 DEF Events
<1>4. u = EventSent(s) /\ v = EventRecv(u, n) /\ w = EventClosed(v, seg.fin)
  OBVIOUS
<1> HIDE DEF u, v, w
<1>5. Returned(s, u, n + f)
  BY <1>1, <1>2, <1>4, EventSentKeeps
<1>6. Returned(u, v, f)
  BY <1>1, <1>4, <1>5, EventRecvKeeps DEF Returned
<1>7. Returned(v, w, 0)
  BY <1>1, <1>2, <1>4, <1>6, EventClosedKeeps DEF Returned
<1>8. t = w
  BY <1>3, <1>7, Uses DEF EventOutput, Returned, Sound, Linked, Open
<1>9. ~Stale => Relays(s, v)
  BY <1>5, <1>6, <1>7, RelaysTransitive DEF Returned, Sound
<1> QED
  BY <1>5, <1>6, <1>7, <1>8, <1>9, RelaysTransitive DEF Returned, Sound

\* tcp_receive: acknowledged bytes leave the send queue, new ones take part of
\* the window, and a FIN one byte of it.
LEMMA ReceiveKeeps ==
  ASSUME NEW s, Sound(s, 0, 0), Settled(s), Dev(s), NEW seg \in Segments,
         seg.ack <= s.pcb.queued, seg.data + FinLen(seg) <= Wnd - s.pcb.unread,
         NEW t, t = tcp_receive(s, seg)
  PROVE  /\ Sound(t, seg.data + FinLen(seg), t.pcb.acked) /\ Settled(t) /\ Dev(t)
         /\ Relays(s, t) /\ t.c = s.c
<1>1. s \in State /\ s.net \in NetType /\ s.client \in ClientType /\ s.pcb \in PcbType
  BY DEF Sound, State
<1>2. PICK x \in Nat : x = seg.data + FinLen(seg)
  BY SizesAssumption DEF Segments, FinLen
<1>3. PICK a \in Nat : a = seg.ack /\ a <= SndBuf
  BY SizesAssumption DEF Segments
<1>4. s.pcb.queued \in 0..SndBuf /\ s.pcb.unread \in 0..Wnd /\ s.net.confirmed \in Nat
      /\ s.net.down \in Nat /\ Wnd \in Nat /\ SndBuf \in Nat
  BY <1>1, SizesAssumption DEF PcbType, NetType
<1>5. a \in 0..SndBuf /\ s.pcb.queued - a \in 0..SndBuf /\ s.pcb.unread + x \in 0..Wnd
      /\ s.net.confirmed + a \in Nat
  BY <1>2, <1>3, <1>4
<1>6. PICK q \in 0..SndBuf, m \in 0..Wnd, k \in Nat :
        q = s.pcb.queued - a /\ m = s.pcb.unread + x /\ k = s.net.confirmed + a
  BY <1>5
<1>7. s.pcb.state \in Open
  BY DEF Sound, Linked
<1>8. PICK st \in Open : st = IF seg.fin THEN "CLOSE_WAIT" ELSE s.pcb.state
  BY <1>7 DEF Open
<1> DEFINE p == [s.pcb EXCEPT !.acked = a, !.queued = q, !.unread = m, !.state = st]
           nt == [s.net EXCEPT !.confirmed = k]
<1>9. s.pcb.unread + seg.data + FinLen(seg) = m
  <2>1. seg.data \in Nat /\ FinLen(seg) \in Nat
    BY SizesAssumption DEF Segments, FinLen
  <2> QED
    BY <1>2, <1>4, <1>6, <2>1
<1>10. t = [s EXCEPT !.pcb = p, !.net = nt]
  BY <1>1, <1>3, <1>6, <1>8, <1>9 DEF State, tcp_receive
<1>11. /\ p \in PcbType /\ p.state = st /\ p.err = s.pcb.err /\ p.recv = s.pcb.recv
       /\ p.sent = s.pcb.sent /\ p.queued = q /\ p.unread = m /\ p.acked = a
  <2>1. p \in PcbType
    BY <1>1, <1>5, <1>6, <1>8 DEF PcbType
  <2> QED
    BY <1>1, <2>1 DEF PcbType
<1>12. /\ nt \in NetType /\ nt.up = s.net.up /\ nt.given = s.net.given /\ nt.down = s.net.down
       /\ nt.confirmed = k /\ nt.clientGone = s.net.clientGone
       /\ nt.socksGone = s.net.socksGone
  BY <1>1, <1>6 DEF NetType
<1> HIDE DEF p, nt
<1>13. /\ t \in State /\ t.client = s.client /\ t.pcb = p /\ t.socks = s.socks /\ t.net = nt
       /\ t.log = s.log /\ t.c = s.c
  BY <1>1, <1>10, <1>11, <1>12 DEF State
<1>14. Dev(t) /\ (Srv(t) <=> Srv(s)) /\ Left(t) = Left(s)
  BY <1>13 DEF Dev, Srv, Left
<1>15. Linked(t)
  BY <1>7, <1>8, <1>11, <1>12, <1>13, <1>14 DEF Linked, Sound
<1>16. Transfers(t) /\ Clean(t) /\ Settled(t)
  <2>1. s.pcb.queued = 0 => q = 0
    BY <1>3, <1>4, <1>6
  <2> QED
    BY <1>11, <1>13, <1>14, <2>1 DEF Transfers, Clean, Settled, Sound
<1>17. Left(s) \in Nat
  BY <1>1, SizesAssumption DEF Left, Sound, Transfers, ClientType
<1>18. k <= s.net.down /\ s.net.down = k + q + Left(s)
  BY <1>3, <1>4, <1>6, <1>17 DEF Sound, Counted
<1>19. s.pcb.unread = s.client.buf_used + 0 => m = s.client.buf_used + x
  BY <1>1, <1>4, <1>6, SizesAssumption DEF ClientType
<1>20. s.client.tcp_pending = s.pcb.queued + 0 => s.client.tcp_pending = q + a
  BY <1>3, <1>4, <1>6
<1>21. Counted(t, x, a)
  BY <1>11, <1>12, <1>13, <1>14, <1>18, <1>19, <1>20 DEF Counted, Sound
<1>22. Relays(s, t)
  BY <1>1, <1>3, <1>6, <1>12, <1>13, <1>14 DEF Relays, NetType
<1> QED
  BY <1>2, <1>11, <1>13, <1>14, <1>15, <1>16, <1>21, <1>22 DEF Sound

-----------------------------------------------------------------------------
(* The actions. *)

\* an event leads to t, by a step of the relay
StepTo(t) ==
  /\ Become(t) /\ Sound(t, 0, 0) /\ Settled(t)
  /\ ~Stale => Relays(Here(Plain), t)

\* a new connection leads to t
NewTo(t) ==
  /\ ~client.live
  /\ Become(t) /\ Sound(t, 0, 0) /\ Settled(t)
  /\ ~Stale => Relays(Accepted, t)

Choices == [full : BOOLEAN, oom : BOOLEAN, jobs : JobRuns]

\* What the libraries choose is no part of the invariant.
LEMMA HereSound ==
  ASSUME IInv, NEW c \in Choices
  PROVE  /\ Sound(Here(c), 0, 0) /\ Settled(Here(c))
         /\ \A t : Relays(Here(c), t) => Relays(Here(Plain), t)
         /\ Here(c).pcb = pcb /\ Here(c).client = client /\ Here(c).socks = socks
         /\ Here(c).net = net /\ Here(c).log = log
<1> DEFINE s == Here(Plain)
           t == Here(c)
<1>1. /\ s.pcb = pcb /\ s.client = client /\ s.socks = socks /\ s.net = net /\ s.log = log
      /\ t.pcb = pcb /\ t.client = client /\ t.socks = socks /\ t.net = net /\ t.log = log
      /\ t.ret = "OK" /\ t.c = c
  BY DEF Here
<1>2. Sound(s, 0, 0) /\ Settled(s) /\ s \in State
  BY DEF IInv, Sound
<1>3. t \in State
  <2>1. /\ pcb \in PcbType /\ client \in ClientType /\ socks \in SocksType /\ net \in NetType
        /\ log \in SUBSET (Unsafe \cup StaleNotes)
    BY <1>1, <1>2 DEF State
  <2>2. "OK" \in Rets
    BY DEF Rets
  <2> QED
    BY <2>1, <2>2 DEF Here, State, Choices
<1> HIDE DEF s, t
<1>4. (Dev(t) <=> Dev(s)) /\ (Srv(t) <=> Srv(s)) /\ Left(t) = Left(s)
  BY <1>1 DEF Dev, Srv, Left
<1>5. Linked(t)
  BY <1>1, <1>2, <1>4 DEF Sound, Linked
<1>6. Transfers(t) /\ Clean(t) /\ Settled(t)
  BY <1>1, <1>2, <1>4 DEF Sound, Transfers, Clean, Settled
<1>7. Counted(t, 0, 0)
  BY <1>1, <1>2, <1>4 DEF Sound, Counted
<1>8. \A u : Relays(t, u) => Relays(s, u)
  BY <1>1, <1>4 DEF Relays
<1>9. Sound(t, 0, 0)
  BY <1>3, <1>5, <1>6, <1>7 DEF Sound
<1> QED
  BY <1>1, <1>6, <1>8, <1>9 DEF s, t

\* The invariant after an event is what the state it leads to satisfies.
LEMMA Becomes ==
  ASSUME NEW t, Become(t), Sound(t, 0, 0), Settled(t)
  PROVE  IInv'
<1> DEFINE s == Here(Plain)'
<1>1. s = [pcb |-> t.pcb, client |-> t.client, socks |-> t.socks, net |-> t.net,
           log |-> t.log, ret |-> "OK", c |-> Plain]
  BY DEF Here, Become, Plain
<1> HIDE DEF s
<1>2. /\ s.pcb = t.pcb /\ s.client = t.client /\ s.socks = t.socks /\ s.net = t.net
      /\ s.log = t.log
  BY <1>1
<1>3. s \in State
  <2>1. "OK" \in Rets /\ <<>> \in JobRuns
    BY DEF Rets, JobRuns
  <2>2. Plain \in Choices
    BY <2>1 DEF Plain, Choices
  <2> QED
    BY <1>1, <2>1, <2>2 DEF Sound, State, Choices
<1>4. (Dev(s) <=> Dev(t)) /\ (Srv(s) <=> Srv(t)) /\ Left(s) = Left(t)
  BY <1>2 DEF Dev, Srv, Left
<1>5. Linked(s)
  BY <1>2, <1>4 DEF Sound, Linked
<1>6. Transfers(s) /\ Clean(s) /\ Settled(s)
  BY <1>2, <1>4 DEF Sound, Transfers, Clean, Settled
<1>7. Counted(s, 0, 0)
  BY <1>2, <1>4 DEF Sound, Counted
<1>8. Sound(s, 0, 0)
  BY <1>3, <1>5, <1>6, <1>7 DEF Sound
<1> QED
  BY <1>6, <1>8 DEF IInv, s

\* The libraries' choices are all of the kinds that State knows.
LEMMA ChoicesOK == Plain \in Choices /\ Oracles \subseteq Choices /\ Library \subseteq Choices
<1>1. <<>> \in JobRuns
  BY DEF JobRuns
<1>2. Plain \in Choices
  BY <1>1 DEF Plain, Choices
<1>3. Oracles \subseteq Choices
  BY <1>1 DEF Oracles, Choices
<1>4. Library \subseteq Choices
  BY <1>1 DEF Library, Choices
<1> QED
  BY <1>2, <1>3, <1>4

\* A new connection: the pcb, the structure and the connecting SOCKS client.
LEMMA AcceptedSound ==
  ASSUME IInv, ~client.live
  PROVE  Sound(Accepted, 0, 0) /\ Settled(Accepted) /\ Dev(Accepted) /\ Srv(Accepted)
         /\ Accepted.pcb.queued = 0 /\ Accepted.pcb.unread = 0
<1> DEFINE s == Here(Plain)
           t == Accepted
           p == [NoPcb EXCEPT !.state = "ESTABLISHED", !.err = TRUE, !.recv = TRUE]
           cl == [NoClient EXCEPT !.live = TRUE, !.client_closed = FALSE, !.socks_closed = FALSE]
           so == [NoSocks EXCEPT !.state = "CONNECTING"]
<1>1. Sound(s, 0, 0) /\ s \in State
  BY DEF IInv, Sound
<1>2. /\ p \in PcbType /\ p.state = "ESTABLISHED" /\ p.err /\ p.recv /\ ~p.sent
      /\ p.unread = 0 /\ p.queued = 0
  <2>1. NoPcb \in PcbType
    BY NoPcbUnlinked
  <2>2. p \in PcbType
    BY <2>1 DEF PcbType, Open
  <2> QED
    BY <2>2 DEF NoPcb
<1>3. /\ cl \in ClientType /\ cl.live /\ ~cl.client_closed /\ ~cl.socks_closed /\ ~cl.socks_up
      /\ cl.buf_used = 0 /\ cl.recv_buf_used = -1 
  <2>1. cl \in ClientType
    BY EmptyTypes DEF ClientType
  <2> QED
    BY <2>1 DEF NoClient
<1>4. so \in SocksType /\ so.state = "CONNECTING" /\ so.sending = 0 /\ ~so.receiving
  <2>1. so \in SocksType
    BY EmptyTypes DEF SocksType
  <2> QED
    BY <2>1 DEF NoSocks
<1>5. /\ NoNet \in NetType /\ NoNet.up = 0 /\ NoNet.given = 0 /\ NoNet.down = 0
      /\ NoNet.confirmed = 0
  BY DEF NoNet, NetType
<1>6. t = [s EXCEPT !.pcb = p, !.client = cl, !.socks = so, !.net = NoNet]
  BY DEF Accepted
<1> HIDE DEF s, t, p, cl, so
<1>7. /\ t \in State /\ t.pcb = p /\ t.client = cl /\ t.socks = so /\ t.net = NoNet
      /\ t.log = s.log
  BY <1>1, <1>2, <1>3, <1>4, <1>5, <1>6 DEF State
<1>8. Dev(t) /\ Srv(t) /\ Left(t) = 0
  BY <1>3, <1>7 DEF Dev, Srv, Left
<1>9. Linked(t)
  BY <1>2, <1>3, <1>4, <1>7, <1>8 DEF Linked, Open
<1>10. Transfers(t) /\ Clean(t) /\ Settled(t)
  BY <1>1, <1>2, <1>3, <1>4, <1>7, <1>8 DEF Transfers, Clean, Settled, Sound
<1>11. Counted(t, 0, 0)
  BY <1>2, <1>3, <1>5, <1>7, <1>8 DEF Counted
<1>12. Sound(t, 0, 0)
  BY <1>7, <1>9, <1>10, <1>11 DEF Sound
<1> QED
  BY <1>2, <1>7, <1>8, <1>10, <1>12 DEF t

\* listener_accept_func and the segment that completed the handshake.
LEMMA AcceptStep ==
  ASSUME IInv, NEW fails \in BOOLEAN, NEW seg \in Segments, listener_accept_func(fails, seg)
  PROVE  \E t : NewTo(t)
<1>1. /\ ~client.live /\ seg.ack = 0 /\ seg.data + FinLen(seg) <= Wnd
      /\ Become(IF fails THEN SocksGone(Accepted) ELSE Events(tcp_receive(Accepted, seg), seg))
  BY DEF listener_accept_func
<1> DEFINE s == Accepted
<1>2. /\ Sound(s, 0, 0) /\ Settled(s) /\ Dev(s) /\ Srv(s) /\ s.pcb.queued = 0 /\ s.pcb.unread = 0
  BY <1>1, AcceptedSound
<1> HIDE DEF s
<1>3. CASE fails
  <2> DEFINE t == SocksGone(s)
  <2>1. Become(t) /\ t = SocksGone(s)
    BY <1>1, <1>3 DEF s
  <2> HIDE DEF t
  <2>2. Sound(t, 0, 0) /\ Settled(t) /\ (~Stale => Relays(s, t))
    BY <1>2, <2>1, SocksGoneKeeps
  <2>3. NewTo(t)
    BY <1>1, <2>1, <2>2 DEF NewTo, s
  <2> QED
    BY <2>3
<1>4. CASE ~fails
  <2> DEFINE u == tcp_receive(s, seg)
             t == Events(u, seg)
  <2>1. Become(t) /\ t = Events(u, seg) /\ u = tcp_receive(s, seg)
    BY <1>1, <1>4 DEF s
  <2> HIDE DEF t, u
  <2>2. seg.ack <= s.pcb.queued /\ seg.data + FinLen(seg) <= Wnd - s.pcb.unread
    BY <1>1, <1>2, SizesAssumption
  <2>3. Sound(u, seg.data + FinLen(seg), u.pcb.acked) /\ Settled(u) /\ Dev(u) /\ Relays(s, u)
    BY <1>2, <2>1, <2>2, ReceiveKeeps
  <2>4. Sound(t, 0, 0) /\ Settled(t) /\ (~Stale => Relays(u, t))
    BY <2>1, <2>3, EventsKeep
  <2>5. ~Stale => Relays(s, t)
    BY <1>2, <2>3, <2>4, RelaysTransitive DEF Sound
  <2>6. NewTo(t)
    BY <1>1, <2>1, <2>4, <2>5 DEF NewTo, s
  <2> QED
    BY <2>6
<1> QED
  BY <1>3, <1>4

\* A segment of an open connection.
LEMMA InputStep ==
  ASSUME IInv, NEW seg \in Segments, NEW c \in Oracles, TcpInput(seg, c)
  PROVE  \E t : StepTo(t)
<1> DEFINE s == Here(c)
           u == tcp_receive(s, seg)
           t == Events(u, seg)
<1>1. pcb.state \in Open /\ Possible(seg) /\ Become(t) /\ t = Events(u, seg)
      /\ u = tcp_receive(s, seg)
  BY DEF TcpInput
<1>2. c \in Choices
  BY ChoicesOK
<1>3. /\ Sound(s, 0, 0) /\ Settled(s) /\ s.pcb = pcb
      /\ \A r : Relays(s, r) => Relays(Here(Plain), r)
  BY <1>2, HereSound
<1> HIDE DEF s, t, u
<1>4. Dev(s)
  BY <1>1, <1>3 DEF Sound, Linked
<1>5. seg.ack <= s.pcb.queued
  BY <1>1, <1>3 DEF Possible
<1>6. seg.data + FinLen(seg) <= Wnd - s.pcb.unread
  <2>1. s.pcb.unread \in 0..Wnd
    BY <1>3 DEF Sound, State, PcbType
  <2> QED
    BY <1>1, <1>3, <2>1, SizesAssumption DEF Possible, FinLen
<1>7. Sound(u, seg.data + FinLen(seg), u.pcb.acked) /\ Settled(u) /\ Dev(u) /\ Relays(s, u)
  BY <1>1, <1>3, <1>4, <1>5, <1>6, ReceiveKeeps
<1>8. Sound(t, 0, 0) /\ Settled(t) /\ (~Stale => Relays(u, t))
  BY <1>1, <1>7, EventsKeep
<1>9. ~Stale => Relays(s, t)
  BY <1>3, <1>7, <1>8, RelaysTransitive DEF Sound
<1>10. StepTo(t)
  BY <1>1, <1>3, <1>8, <1>9 DEF StepTo
<1> QED
  BY <1>10

\* A SYN or a stray RST: the callbacks run with the acknowledgement of the
\* segment before.
LEMMA StaleStep ==
  ASSUME IInv, NEW c \in Oracles, TcpInputStale(c)
  PROVE  \E t : StepTo(t)
<1> DEFINE s == Here(c)
           seg == [ack |-> 0, data |-> 0, fin |-> FALSE]
           t == Events(s, seg)
<1>1. (Stale \/ pcb.acked = 0) /\ pcb.state \in Open /\ Become(t) /\ t = Events(s, seg)
  BY DEF TcpInputStale
<1>2. c \in Choices
  BY ChoicesOK
<1>3. /\ Sound(s, 0, 0) /\ Settled(s) /\ s.pcb = pcb
      /\ \A r : Relays(s, r) => Relays(Here(Plain), r)
  BY <1>2, HereSound
<1>4. seg \in Segments /\ seg.data + FinLen(seg) = 0
  BY SizesAssumption DEF Segments, FinLen
<1> HIDE DEF s, t, seg
<1>5. Dev(s)
  BY <1>1, <1>3 DEF Sound, Linked
<1>6. Sound(s, seg.data + FinLen(seg), s.pcb.acked)
  BY <1>1, <1>3, <1>4 DEF Sound, Counted
<1>7. Sound(t, 0, 0) /\ Settled(t) /\ (~Stale => Relays(s, t))
  BY <1>1, <1>3, <1>4, <1>5, <1>6, EventsKeep
<1>8. StepTo(t)
  BY <1>1, <1>3, <1>7 DEF StepTo
<1> QED
  BY <1>8

\* A reset, the retransmission limit, and the end of a closed pcb.
LEMMA DeadStep ==
  ASSUME IInv, TcpReset \/ TcpSlowtmr \/ PcbFinished
  PROVE  \E t : StepTo(t)
<1>1. Sound(Here(Plain), 0, 0) /\ Here(Plain).pcb = pcb /\ Here(Plain).net = net
  BY ChoicesOK, HereSound
<1> DEFINE s == Here(Plain)
<1>2. s = Here(Plain) /\ s \in State /\ s.net \in NetType
  BY <1>1 DEF Sound, State
<1> HIDE DEF s
<1>3. CASE TcpReset \/ TcpSlowtmr
  <2> DEFINE n == DeviceLost(s.net)
             u == WithNet(s, n)
             t == PcbDead(u)
  <2>1. DeviceGone = u
    BY <1>2 DEF DeviceGone, WithNet, DeviceLost
  <2>2. Become(t) /\ n = DeviceLost(s.net) /\ u = WithNet(s, n) /\ t = PcbDead(u)
    BY <1>3, <2>1 DEF TcpReset, TcpSlowtmr
  <2> HIDE DEF u, t, n
  <2>3. Sound(u, 0, 0) /\ Relays(s, u) /\ u.net = n
    BY <1>1, <1>2, <2>2, MarkGone
  <2>4. u.net.clientGone
    BY <1>2, <2>2, <2>3 DEF DeviceLost, NetType
  <2>5. Sound(t, 0, 0) /\ Settled(t) /\ (~Stale => Relays(u, t))
    BY <2>2, <2>3, <2>4, PcbDies
  <2>6. ~Stale => Relays(s, t)
    BY <1>2, <2>3, <2>5, RelaysTransitive DEF Sound
  <2>7. StepTo(t)
    BY <1>2, <2>2, <2>5, <2>6 DEF StepTo
  <2> QED
    BY <2>7
<1>4. CASE PcbFinished
  <2> DEFINE t == PcbDead(s)
  <2>1. Become(t) /\ t = PcbDead(s)
    BY <1>2, <1>4 DEF PcbFinished
  <2>2. ~Dev(s)
    BY <1>1, <1>2, <1>4 DEF PcbFinished, Sound, Linked, Open
  <2> HIDE DEF t
  <2>3. Sound(t, 0, 0) /\ Settled(t) /\ (~Stale => Relays(s, t))
    BY <1>1, <1>2, <2>1, <2>2, PcbDies
  <2>4. StepTo(t)
    BY <1>2, <2>1, <2>3 DEF StepTo
  <2> QED
    BY <2>4
<1> QED
  BY <1>3, <1>4

BeforeUp == {"CONNECTING", "SENDING_HELLO", "SENT_HELLO", "SENDING_PASSWORD", "SENT_PASSWORD",
             "SENDING_REQUEST", "SENT_REQUEST", "RECEIVED_REPLY_HEADER"}

WithSocks(s, st) == [s EXCEPT !.socks.state = st]

\* The negotiation touches nothing but its own state.
LEMMA NegotiationKeeps ==
  ASSUME NEW s, Sound(s, 0, 0), Settled(s), s.socks.state \in BeforeUp,
         NEW st \in BeforeUp, NEW t, t = WithSocks(s, st)
  PROVE  Sound(t, 0, 0) /\ Settled(t) /\ Relays(s, t)
<1>1. s \in State /\ s.net \in NetType /\ s.socks \in SocksType
  BY DEF Sound, State
<1> DEFINE so == [s.socks EXCEPT !.state = st]
<1>2. /\ so \in SocksType /\ so.state = st /\ so.sending = s.socks.sending
      /\ so.receiving = s.socks.receiving
  BY <1>1 DEF SocksType, BeforeUp
<1>3. t = [s EXCEPT !.socks = so]
  BY <1>1 DEF WithSocks, State
<1> HIDE DEF so
<1>4. /\ t \in State /\ t.client = s.client /\ t.pcb = s.pcb /\ t.socks = so /\ t.net = s.net
      /\ t.log = s.log
  BY <1>1, <1>2, <1>3 DEF State
<1>5. (Dev(t) <=> Dev(s)) /\ (Srv(t) <=> Srv(s)) /\ Left(t) = Left(s)
  BY <1>4 DEF Dev, Srv, Left
<1>6. /\ st # "UP" /\ st # "freed" /\ s.socks.state # "UP" /\ s.socks.state # "freed"
  BY DEF BeforeUp
<1>7. Linked(t)
  BY <1>2, <1>4, <1>5, <1>6 DEF Linked, Sound
<1>8. Transfers(t) /\ Clean(t) /\ Settled(t)
  BY <1>2, <1>4, <1>5, <1>6 DEF Transfers, Clean, Settled, Sound
<1>9. Counted(t, 0, 0)
  BY <1>4, <1>5 DEF Counted, Sound
<1>10. Relays(s, t)
  BY <1>1, <1>4, <1>5 DEF Relays, NetType
<1> QED
  BY <1>4, <1>7, <1>8, <1>9, <1>10 DEF Sound

\* One completed step of the negotiation, or its refusal.
LEMMA NextStateStep ==
  ASSUME IInv, socks.state \in BeforeUp, NEW ok \in BOOLEAN, NEW st \in BeforeUp,
         NextState(ok, st)
  PROVE  \E t : StepTo(t)
<1> DEFINE s == Here(Plain)
<1>1. /\ s = Here(Plain) /\ Sound(s, 0, 0) /\ Settled(s) /\ s.socks.state \in BeforeUp
  BY ChoicesOK, HereSound
<1>2. Become(IF ok THEN [s EXCEPT !.socks.state = st] ELSE SocksGone(s))
  BY DEF NextState
<1> HIDE DEF s
<1>3. CASE ok
  <2> DEFINE t == WithSocks(s, st)
  <2>1. Become(t) /\ t = WithSocks(s, st)
    BY <1>2, <1>3 DEF WithSocks
  <2> HIDE DEF t
  <2>2. Sound(t, 0, 0) /\ Settled(t) /\ Relays(s, t)
    BY <1>1, <2>1, NegotiationKeeps
  <2>3. StepTo(t)
    BY <1>1, <2>1, <2>2 DEF StepTo
  <2> QED
    BY <2>3
<1>4. CASE ~ok
  <2> DEFINE t == SocksGone(s)
  <2>1. Become(t) /\ t = SocksGone(s)
    BY <1>2, <1>4
  <2> HIDE DEF t
  <2>2. Srv(s)
    BY <1>1 DEF Sound, Linked, BeforeUp
  <2>3. Sound(t, 0, 0) /\ Settled(t) /\ (~Stale => Relays(s, t))
    BY <1>1, <2>1, <2>2, SocksGoneKeeps
  <2>4. StepTo(t)
    BY <1>1, <2>1, <2>3 DEF StepTo
  <2> QED
    BY <2>4
<1> QED
  BY <1>3, <1>4

\* The negotiation, up to BSOCKSCLIENT_EVENT_UP.
LEMMA NegotiationStep ==
  ASSUME IInv, Negotiation
  PROVE  \E t : StepTo(t)
<1> DEFINE s == Here(Plain)
<1>1. s = Here(Plain) /\ Sound(s, 0, 0) /\ Settled(s) /\ s.socks = socks /\ s.client = client
  BY ChoicesOK, HereSound
<1>2. socks.state \in BeforeUp \cup {"UP", "freed"}
  BY <1>1 DEF Sound, State, SocksType, BeforeUp
<1> HIDE DEF s
<1>3. ASSUME NEW ok \in BOOLEAN, NEW st \in BeforeUp, NextState(ok, st), socks.state \in BeforeUp
      PROVE  \E t : StepTo(t)
  BY <1>3, NextStateStep
<1>4. ASSUME NEW ok \in BOOLEAN, connector_handler(ok) PROVE \E t : StepTo(t)
  <2> DEFINE k == ok /\ Methods # {}
  <2>1. k \in BOOLEAN /\ NextState(k, "SENDING_HELLO") /\ socks.state \in BeforeUp
        /\ "SENDING_HELLO" \in BeforeUp
    BY <1>4 DEF connector_handler, Negotiating, BeforeUp
  <2> HIDE DEF k
  <2> QED
    BY <1>3, <2>1
<1>5. ASSUME NEW ok \in BOOLEAN, ReceivedPasswordReply(ok) PROVE \E t : StepTo(t)
  <2>1. NextState(ok, "SENDING_REQUEST") /\ socks.state \in BeforeUp
        /\ "SENDING_REQUEST" \in BeforeUp
    BY <1>5 DEF ReceivedPasswordReply, Negotiating, BeforeUp
  <2> QED
    BY <1>3, <2>1
<1>6. ASSUME NEW ok \in BOOLEAN, ReceivedReplyHeader(ok) PROVE \E t : StepTo(t)
  <2>1. NextState(ok, "RECEIVED_REPLY_HEADER") /\ socks.state \in BeforeUp
        /\ "RECEIVED_REPLY_HEADER" \in BeforeUp
    BY <1>6 DEF ReceivedReplyHeader, Negotiating, BeforeUp
  <2> QED
    BY <1>3, <2>1
<1>7. ASSUME send_handler_done PROVE \E t : StepTo(t)
  <2>1. PICK st \in BeforeUp : NextState(TRUE, st) /\ socks.state \in BeforeUp
    BY <1>7 DEF send_handler_done, Negotiating, BeforeUp
  <2>2. PICK ok \in BOOLEAN : ok = TRUE
    OBVIOUS
  <2> QED
    BY <1>3, <2>1, <2>2
<1>8. ASSUME NEW m \in {"none", "password", "refused"}, ReceivedHello(m) PROVE \E t : StepTo(t)
  <2> DEFINE k == m \in Methods
             st == IF m = "password" THEN "SENDING_PASSWORD" ELSE "SENDING_REQUEST"
  <2>1. k \in BOOLEAN /\ NextState(k, st) /\ socks.state \in BeforeUp /\ st \in BeforeUp
    BY <1>8 DEF ReceivedHello, Negotiating, BeforeUp
  <2> HIDE DEF k, st
  <2> QED
    BY <1>3, <2>1
<1>9. ASSUME ReceivedReplyRest PROVE \E t : StepTo(t)
  <2> DEFINE t == SocksUp(s)
  <2>1. Become(t) /\ t = SocksUp(s) /\ socks.state = "RECEIVED_REPLY_HEADER"
    BY <1>1, <1>9 DEF ReceivedReplyRest, Negotiating
  <2> HIDE DEF t
  <2>2. Srv(s) /\ s.socks.state # "UP"
    BY <1>1, <2>1 DEF Sound, Linked
  <2>3. Sound(t, 0, 0) /\ Settled(t) /\ Relays(s, t)
    BY <1>1, <2>1, <2>2, SocksUpKeeps
  <2>4. StepTo(t)
    BY <1>1, <2>1, <2>3 DEF StepTo
  <2> QED
    BY <2>4
<1>10. ASSUME ControlError PROVE \E t : StepTo(t)
  <2> DEFINE t == SocksGone(s)
  <2>1. Become(t) /\ t = SocksGone(s) /\ socks.state # "freed"
    BY <1>1, <1>10 DEF ControlError
  <2> HIDE DEF t
  <2>2. Srv(s)
    BY <1>1, <2>1 DEF Sound, Linked
  <2>3. Sound(t, 0, 0) /\ Settled(t) /\ (~Stale => Relays(s, t))
    BY <1>1, <2>1, <2>2, SocksGoneKeeps
  <2>4. StepTo(t)
    BY <1>1, <2>1, <2>3 DEF StepTo
  <2> QED
    BY <2>4
<1> QED
  BY <1>4, <1>5, <1>6, <1>7, <1>8, <1>9, <1>10 DEF Negotiation

\* A socket event in the main loop.
LEMMA SocketStep ==
  ASSUME IInv, NEW o \in Outcomes, NEW c \in Library, SocketReady(o, c)
  PROVE  \E t : StepTo(t)
<1> DEFINE s == Here(c)
           t == SocketJob(s, o)
<1>1. Become(t) /\ t = SocketJob(s, o)
  BY DEF SocketReady
<1>2. c \in Choices
  BY ChoicesOK
<1>3. /\ Sound(s, 0, 0) /\ Settled(s)
      /\ \A r : Relays(s, r) => Relays(Here(Plain), r)
  BY <1>2, HereSound
<1> HIDE DEF s, t
<1>4. Sound(t, 0, 0) /\ Settled(t) /\ (~Stale => Relays(s, t))
  BY <1>1, <1>3, SocketJobKeeps
<1>5. StepTo(t)
  BY <1>1, <1>3, <1>4 DEF StepTo
<1> QED
  BY <1>5

\* client_murder ends both sides, whatever they were doing.
LEMMA MurderKeeps ==
  ASSUME NEW s, Sound(s, 0, 0), s.client.live, s.net.clientGone, s.net.socksGone,
         NEW t, t = client_murder(s)
  PROVE  Sound(t, 0, 0) /\ Settled(t) /\ Relays(s, t)
<1>1. s \in State /\ s.net \in NetType /\ s.client \in ClientType /\ s.pcb \in PcbType
      /\ s.client.client_closed \in BOOLEAN /\ s.client.socks_closed \in BOOLEAN
  BY DEF Sound, State, ClientType
<1> DEFINE u == IF s.client.client_closed THEN s
                ELSE [AbortPcb(s) EXCEPT !.client.client_closed = TRUE]
           v == IF s.client.socks_closed THEN u
                ELSE [BSocksClient_Free(u) EXCEPT !.client.socks_closed = TRUE]
           cu == [s.client EXCEPT !.client_closed = TRUE]
           cv == [cu EXCEPT !.socks_closed = TRUE]
<1>2. t = client_dealloc(v)
  BY DEF client_murder
<1>3. PICK p \in PcbType : Unlinked(p) /\ u = [s EXCEPT !.pcb = p, !.client = cu]
  <2>1. CASE s.client.client_closed
    <3>1. Unlinked(s.pcb)
      BY <2>1 DEF Sound, Linked, Unlinked, Dev
    <3>2. cu = s.client
      BY <1>1, <2>1 DEF ClientType
    <3>3. u = [s EXCEPT !.pcb = s.pcb, !.client = cu]
      BY <1>1, <2>1, <3>2 DEF State
    <3> QED
      BY <1>1, <3>1, <3>3
  <2>2. CASE ~s.client.client_closed
    <3>1. s.pcb.state \in Open
      BY <2>2 DEF Sound, Linked, Dev
    <3>2. AbortPcb(s) = [s EXCEPT !.pcb = NoPcb]
      BY <1>1, <3>1, AbortPcbDoes
    <3>3. u = [s EXCEPT !.pcb = NoPcb, !.client = cu]
      BY <1>1, <2>2, <3>2 DEF State
    <3> QED
      BY <3>3, NoPcbUnlinked
  <2> QED
    BY <2>1, <2>2
<1>4. cu \in ClientType /\ cu.live /\ cu.client_closed /\ cu.socks_closed = s.client.socks_closed
  BY <1>1 DEF ClientType
<1> HIDE DEF u, cu
<1>5. PICK so \in SocksType : /\ so.state = "freed" /\ so.sending = 0 /\ ~so.receiving
                              /\ v = [s EXCEPT !.pcb = p, !.client = cv, !.socks = so]
  <2>1. CASE s.client.socks_closed
    <3>1. /\ s.socks \in SocksType /\ s.socks.state = "freed" /\ s.socks.sending = 0
          /\ ~s.socks.receiving
      BY <1>1, <2>1 DEF Sound, Linked, Transfers, Srv, State
    <3>2. cv = cu
      BY <1>4, <2>1 DEF ClientType
    <3>3. v = [s EXCEPT !.pcb = p, !.client = cv, !.socks = s.socks]
      BY <1>1, <1>3, <2>1, <3>2 DEF State
    <3> QED
      BY <3>1, <3>3
  <2>2. CASE ~s.client.socks_closed
    <3>1. NoSocks \in SocksType /\ NoSocks.state = "freed" /\ NoSocks.sending = 0
          /\ ~NoSocks.receiving
      BY EmptyTypes DEF NoSocks
    <3>2. v = [s EXCEPT !.pcb = p, !.client = cv, !.socks = NoSocks]
      BY <1>1, <1>3, <2>2 DEF State, BSocksClient_Free
    <3> QED
      BY <3>1, <3>2
  <2> QED
    BY <2>1, <2>2
<1>6. cv \in ClientType /\ cv.live /\ cv.client_closed /\ cv.socks_closed
  BY <1>4 DEF ClientType
<1> HIDE DEF v, cv
<1>7. v \in State /\ v.client = cv
  BY <1>1, <1>3, <1>5, <1>6 DEF State
<1>8. t = [v EXCEPT !.client = NoClient]
  BY <1>2, <1>6, <1>7, DeallocDoes
<1>9. /\ t \in State /\ t.client = NoClient /\ t.pcb = p /\ t.socks = so /\ t.net = s.net
      /\ t.log = s.log
  BY <1>1, <1>3, <1>5, <1>7, <1>8, EmptyTypes DEF State
<1>10. ~NoClient.live /\ NoClient.recv_buf_used = -1 /\ NoClient.buf_used = 0 /\ ~NoClient.socks_up
  BY DEF NoClient
<1>11. ~Dev(t) /\ ~Srv(t)
  BY <1>9, <1>10 DEF Dev, Srv
<1>12. Linked(t)
  BY <1>3, <1>5, <1>9, <1>10, <1>11 DEF Linked, Unlinked
<1>13. Transfers(t) /\ Clean(t) /\ Settled(t)
  BY <1>5, <1>9, <1>10, <1>11 DEF Transfers, Clean, Settled, Sound
<1>14. Counted(t, 0, 0)
  BY <1>9, <1>11 DEF Counted, Sound
<1>15. Relays(s, t)
  BY <1>1, <1>9, <1>11 DEF Relays, NetType
<1> QED
  BY <1>9, <1>12, <1>13, <1>14, <1>15 DEF Sound

\* The process terminates.
LEMMA TerminateStep ==
  ASSUME IInv, Terminate
  PROVE  \E t : StepTo(t)
<1> DEFINE s == Here(Plain)
           n == BothLost(s.net)
           u == WithNet(s, n)
           t == client_murder(u)
<1>1. s = Here(Plain) /\ Sound(s, 0, 0) /\ s.client = client
  BY ChoicesOK, HereSound
<1>2. s \in State /\ s.net \in NetType
  BY <1>1 DEF Sound, State
<1> HIDE DEF s
<1>3. [s EXCEPT !.net.clientGone = TRUE, !.net.socksGone = TRUE] = u
  BY <1>2 DEF WithNet, BothLost, State
<1>4. client.live /\ Become(t) /\ n = BothLost(s.net) /\ u = WithNet(s, n) /\ t = client_murder(u)
  BY <1>1, <1>3 DEF Terminate
<1> HIDE DEF n, u, t
<1>5. Sound(u, 0, 0) /\ Relays(s, u) /\ u.net = n /\ u.client = s.client
  BY <1>1, <1>4, MarkGone
<1>6. u.net.clientGone /\ u.net.socksGone /\ u.client.live
  BY <1>1, <1>2, <1>4, <1>5 DEF BothLost, NetType
<1>7. Sound(t, 0, 0) /\ Settled(t) /\ Relays(u, t)
  BY <1>4, <1>5, <1>6, MurderKeeps
<1>8. Relays(s, t)
  BY <1>2, <1>5, <1>7, RelaysTransitive DEF Sound
<1>9. StepTo(t)
  BY <1>1, <1>4, <1>7, <1>8 DEF StepTo
<1> QED
  BY <1>9

-----------------------------------------------------------------------------
(* The invariant and the theorems. *)

\* What every event of the specification comes to.
LEMMA NextStep ==
  ASSUME IInv, Next
  PROVE  \E t : StepTo(t) \/ NewTo(t)
<1>1. CASE \E fails \in BOOLEAN, seg \in Segments : listener_accept_func(fails, seg)
  BY <1>1, AcceptStep
<1>2. CASE \E seg \in Segments, c \in Oracles : TcpInput(seg, c)
  BY <1>2, InputStep
<1>3. CASE \E c \in Oracles : TcpInputStale(c)
  BY <1>3, StaleStep
<1>4. CASE TcpReset \/ TcpSlowtmr \/ PcbFinished
  BY <1>4, DeadStep
<1>5. CASE Negotiation
  BY <1>5, NegotiationStep
<1>6. CASE \E o \in Outcomes, c \in Library : SocketReady(o, c)
  BY <1>6, SocketStep
<1>7. CASE Terminate
  BY <1>7, TerminateStep
<1> QED
  BY <1>1, <1>2, <1>3, <1>4, <1>5, <1>6, <1>7 DEF Next

\* There is no connection at first.
LEMMA InitSound == Init => IInv
<1> SUFFICES ASSUME Init PROVE IInv
  OBVIOUS
<1> DEFINE s == Here(Plain)
<1>1. /\ s.pcb = NoPcb /\ s.client = NoClient /\ s.socks = NoSocks /\ s.net = NoNet /\ s.log = {}
  BY DEF Here, Init
<1>2. /\ NoPcb.queued = 0 /\ NoPcb.unread = 0 /\ ~NoClient.live /\ ~NoClient.socks_up
      /\ NoClient.recv_buf_used = -1 /\ NoClient.buf_used = 0
      /\ NoSocks.state = "freed" /\ NoSocks.sending = 0 /\ ~NoSocks.receiving
      /\ NoNet.up = 0 /\ NoNet.given = 0 /\ NoNet.down = 0 /\ NoNet.confirmed = 0
  BY DEF NoPcb, NoClient, NoSocks, NoNet
<1>3. s \in State
  <2>1. NoNet \in NetType
    BY DEF NoNet, NetType
  <2>2. "OK" \in Rets /\ Plain \in Choices
    BY ChoicesOK DEF Rets
  <2> QED
    BY <2>1, <2>2, NoPcbUnlinked, EmptyTypes DEF Here, Init, State, Choices
<1> HIDE DEF s
<1>4. ~Dev(s) /\ ~Srv(s)
  BY <1>1, <1>2 DEF Dev, Srv
<1>5. Linked(s)
  BY <1>1, <1>2, <1>4, NoPcbUnlinked DEF Linked, Unlinked
<1>6. Transfers(s) /\ Clean(s) /\ Settled(s)
  BY <1>1, <1>2, <1>4 DEF Transfers, Clean, Settled
<1>7. Counted(s, 0, 0)
  BY <1>1, <1>2, <1>4 DEF Counted
<1> QED
  BY <1>3, <1>5, <1>6, <1>7 DEF Sound, IInv, s

\* Every event finds a sound and settled state and leaves one.
LEMMA Invariance == Spec => []IInv
<1>1. IInv /\ [Next]_vars => IInv'
  <2> SUFFICES ASSUME IInv, [Next]_vars PROVE IInv'
    OBVIOUS
  <2>1. CASE Next
    <3>1. PICK t : StepTo(t) \/ NewTo(t)
      BY <2>1, NextStep
    <3>2. Become(t) /\ Sound(t, 0, 0) /\ Settled(t)
      BY <3>1 DEF StepTo, NewTo
    <3> QED
      BY <3>2, Becomes
  <2>2. CASE UNCHANGED vars
    <3> DEFINE s == Here(Plain)
    <3>1. Become(s)
      BY <2>2 DEF Become, Here, vars
    <3>2. Sound(s, 0, 0) /\ Settled(s)
      BY DEF IInv
    <3> HIDE DEF s
    <3> QED
      BY <3>1, <3>2, Becomes
  <2> QED
    BY <2>1, <2>2
<1> QED
  BY <1>1, InitSound, PTL DEF Spec

\* What the invariant says of the variables themselves.
LEMMA InvariantHere ==
  ASSUME IInv
  PROVE  LET s == Here(Plain)
         IN  /\ s.pcb = pcb /\ s.client = client /\ s.socks = socks /\ s.net = net /\ s.log = log
             /\ s \in State /\ Linked(s) /\ Transfers(s) /\ Counted(s, 0, 0) /\ Clean(s)
             /\ Settled(s)
  BY DEF IInv, Sound, Here

\* Every field keeps its range, whatever nests inside a handler: client->buf
\* holds at most the window, the send queue at most the send buffer.
THEOREM TypeCorrect == Spec => []TypeOK
<1>1. IInv => TypeOK
  BY InvariantHere DEF TypeOK, State
<1> QED
  BY <1>1, Invariance, PTL

\* The window that lwIP has closed is what client->buf holds, stale
\* acknowledgements or not.
THEOREM WindowKept == Spec => []WindowAccounted
<1>1. IInv => WindowAccounted
  <2> SUFFICES ASSUME IInv, client.live, ~client.client_closed, pcb.recv
               PROVE  pcb.unread = client.buf_used
    BY DEF WindowAccounted
  <2> DEFINE s == Here(Plain)
  <2>1. /\ s.pcb = pcb /\ s.client = client /\ s \in State /\ Linked(s) /\ Counted(s, 0, 0)
    BY InvariantHere
  <2> HIDE DEF s
  <2>2. Dev(s) /\ Srv(s)
    BY <2>1 DEF Dev, Linked
  <2>3. client.buf_used \in 0..Wnd
    BY <2>1 DEF State, ClientType
  <2> QED
    BY <2>1, <2>2, <2>3, SizesAssumption DEF Counted
<1> QED
  BY <1>1, Invariance, PTL

\* The pcb and the structure point at each other only while both are alive.
THEOREM NeverDangling == Spec => []NoDangling
<1>1. IInv => NoDangling
  <2> SUFFICES ASSUME IInv PROVE NoDangling
    OBVIOUS
  <2> DEFINE s == Here(Plain)
  <2>1. s.pcb = pcb /\ s.client = client /\ Linked(s)
    BY InvariantHere
  <2> HIDE DEF s
  <2> QED
    BY <2>1 DEF NoDangling, Linked, Dev
<1> QED
  BY <1>1, Invariance, PTL

\* No handler touches freed memory, starts a transfer on a busy socket or
\* returns to lwIP without ERR_ABRT when the pcb is gone, however callbacks,
\* socket jobs and errors nest, and stale acknowledgements or not.
THEOREM HandlersNestSafely == Spec => []NestingSafe
<1>1. IInv => NestingSafe
  <2> SUFFICES ASSUME IInv PROVE NestingSafe
    OBVIOUS
  <2>1. log \cap Unsafe = {}
    BY InvariantHere DEF Clean
  <2> QED
    BY <2>1 DEF NestingSafe, Unsafe
<1> QED
  BY <1>1, Invariance, PTL

\* Without stale acknowledgements socks_recv_tcp_pending is exactly what lwIP
\* holds for the device, so the assertion of client_sent_func holds and a
\* buffer that waits is waiting for an acknowledgement that will come.
THEOREM PendingIsQueued ==
  ASSUME ~Stale
  PROVE  Spec => []SendAccounted
<1>1. IInv => SendAccounted
  <2> SUFFICES ASSUME IInv PROVE SendAccounted
    OBVIOUS
  <2> DEFINE s == Here(Plain)
  <2>1. /\ s.pcb = pcb /\ s.client = client /\ s.log = log /\ s \in State
        /\ Counted(s, 0, 0) /\ Clean(s) /\ Settled(s)
    BY InvariantHere
  <2> HIDE DEF s
  <2>2. log = {}
    BY <2>1 DEF Clean
  <2>3. pcb.queued \in 0..SndBuf
    BY <2>1 DEF State, PcbType
  <2>4. ASSUME client.live, client.socks_up, ~client.client_closed
        PROVE  /\ client.tcp_pending = pcb.queued
               /\ client.recv_buf_used > 0 => client.recv_waiting /\ client.tcp_pending > 0
    <3>1. Dev(s)
      BY <2>1, <2>4 DEF Dev
    <3> QED
      BY <2>1, <2>3, <2>4, <3>1, SizesAssumption DEF Counted, Settled
  <2> QED
    BY <2>2, <2>4 DEF SendAccounted
<1> QED
  BY <1>1, Invariance, PTL

\* Without stale acknowledgements neither branch whose message ends in "!?!"
\* is ever taken.
THEOREM BranchesNeverTaken ==
  ASSUME ~Stale
  PROVE  Spec => []NeverStuck
<1>1. IInv => NeverStuck
  <2> SUFFICES ASSUME IInv PROVE NeverStuck
    OBVIOUS
  <2>1. log = {}
    BY InvariantHere DEF Clean
  <2> QED
    BY <2>1 DEF NeverStuck
<1> QED
  BY <1>1, Invariance, PTL

\* With no client only a closed pcb can move, and it brings nothing.
LEMMA IdleStep ==
  ASSUME IInv, Next, ~client.live
  PROVE  (\E t : NewTo(t)) \/ (client' = client /\ net' = net)
<1> DEFINE s == Here(Plain)
<1>1. s.pcb = pcb /\ s.client = client /\ s.net = net /\ s \in State /\ Linked(s)
  BY InvariantHere
<1>2. s = Here(Plain)
  OBVIOUS
<1> HIDE DEF s
<1>3. ~Dev(s) /\ pcb.state \notin Open /\ ~pcb.err
  BY <1>1 DEF Dev, Linked
<1>4. CASE \E fails \in BOOLEAN, seg \in Segments : listener_accept_func(fails, seg)
  BY <1>4, AcceptStep
<1>5. CASE PcbFinished
  <2>1. Become(PcbDead(s))
    BY <1>2, <1>5 DEF PcbFinished
  <2>2. PcbDead(s) = [s EXCEPT !.pcb = NoPcb]
    BY <1>1, <1>3 DEF PcbDead
  <2>3. PcbDead(s).client = s.client /\ PcbDead(s).net = s.net
    BY <1>1, <2>2 DEF State
  <2> QED
    BY <1>1, <2>1, <2>3 DEF Become
<1>6. ~(\E seg \in Segments, c \in Oracles : TcpInput(seg, c)) /\ ~TcpReset /\ ~TcpSlowtmr
      /\ ~(\E c \in Oracles : TcpInputStale(c))
  BY <1>3 DEF TcpInput, TcpInputStale, TcpReset, TcpSlowtmr
<1>7. ~Terminate /\ ~(\E o \in Outcomes, c \in Library : SocketReady(o, c))
  BY DEF Terminate, SocketReady
<1>8. ~Negotiation
  BY DEF Negotiation, connector_handler, ReceivedPasswordReply, ReceivedReplyHeader,
         send_handler_done, ReceivedHello, ReceivedReplyRest, ControlError, Negotiating
<1> QED
  BY <1>4, <1>5, <1>6, <1>7, <1>8 DEF Next

\* What the relay may hold is bounded by the buffers of the client and lwIP.
LEMMA HeldBytes ==
  ASSUME NEW t, Sound(t, 0, 0)
  PROVE  /\ t.net.given <= t.net.up /\ t.net.confirmed <= t.net.down
         /\ Srv(t) => t.net.up - t.net.given <= Wnd
         /\ Dev(t) => t.net.down - t.net.confirmed <= SndBuf + RecvBuf
<1>1. t \in State /\ t.client \in ClientType /\ t.pcb \in PcbType /\ t.net \in NetType
      /\ Transfers(t) /\ Counted(t, 0, 0)
  BY DEF Sound, State
<1>2. /\ t.net.up \in Nat /\ t.net.given \in Nat /\ t.net.down \in Nat /\ t.net.confirmed \in Nat
      /\ t.client.buf_used \in 0..Wnd /\ t.pcb.queued \in 0..SndBuf
      /\ t.client.recv_buf_used \in -1..RecvBuf /\ t.client.recv_buf_sent \in 0..RecvBuf
      /\ Wnd \in Nat /\ SndBuf \in Nat /\ RecvBuf \in Nat
  BY <1>1, SizesAssumption DEF NetType, ClientType, PcbType
<1>3. Left(t) \in 0..RecvBuf \/ ~Dev(t)
  BY <1>1, <1>2 DEF Left, Transfers
<1> QED
  BY <1>1, <1>2, <1>3 DEF Counted

\* Without stale acknowledgements the connection, with lwIP, the callbacks
\* and the socket jobs, implements the relay: each event is a step of it.
THEOREM ImplementsRelay ==
  ASSUME ~Stale
  PROVE  Spec => RelaySpec
<1>1. Init => R!Init
  BY DEF Init, NoClient, NoNet, R!Init
<1>2. ASSUME IInv, [Next]_vars PROVE [R!Next]_(R!vars)
  <2> DEFINE s == Here(Plain)
  <2>1. /\ s = Here(Plain) /\ s.client = client /\ s.net = net /\ s \in State /\ Linked(s)
        /\ s.net \in NetType /\ s.client \in ClientType
    BY <1>2, InvariantHere DEF State
  <2> HIDE DEF s
  <2>2. (client.live /\ ~client.client_closed <=> Dev(s))
        /\ (client.live /\ ~client.socks_closed <=> Srv(s))
    BY <2>1 DEF Dev, Srv
  <2>3. ASSUME NEW t, Become(t), Sound(t, 0, 0)
        PROVE  /\ t.net = net' /\ t.client = client' /\ t.net \in NetType
               /\ t.net.up \in Nat /\ t.net.given \in Nat /\ t.net.down \in Nat
               /\ t.net.confirmed \in Nat /\ t.net.clientGone \in BOOLEAN
               /\ t.net.socksGone \in BOOLEAN
               /\ (client.live /\ ~client.client_closed)' <=> Dev(t)
               /\ (client.live /\ ~client.socks_closed)' <=> Srv(t)
    BY <2>3 DEF Become, Sound, State, Dev, Srv, NetType
  <2>4. CASE \E t : NewTo(t)
    <3>1. PICK t : NewTo(t)
      BY <2>4
    <3>2. /\ ~client.live /\ Become(t) /\ Sound(t, 0, 0) /\ Relays(Accepted, t)
      BY <3>1 DEF NewTo
    <3>3. Dev(Accepted) /\ Srv(Accepted) /\ Accepted.net = NoNet
      BY <1>2, <3>2, AcceptedSound DEF Accepted, Here
    <3>4. /\ NoNet.up = 0 /\ NoNet.given = 0 /\ NoNet.down = 0 /\ NoNet.confirmed = 0
      BY DEF NoNet
    <3>5. R!Carry(0, 0, 0, 0)
      BY <2>3, <3>2, <3>3, <3>4, HeldBytes DEF R!Carry, Relays
    <3>6. R!Ends(TRUE, TRUE)
      BY <2>3, <3>2, <3>3 DEF R!Ends, Relays
    <3>7. ~R!Live
      BY <3>2 DEF R!Live
    <3> QED
      BY <3>5, <3>6, <3>7 DEF R!Next, R!Accept
  <2>5. CASE client.live /\ \E t : StepTo(t)
    <3>1. PICK t : StepTo(t)
      BY <2>5
    <3>2. /\ Become(t) /\ Sound(t, 0, 0) /\ Relays(s, t)
      BY <2>1, <3>1 DEF StepTo
    <3>3. R!Carry(net.up, net.given, net.down, net.confirmed)
      BY <2>1, <2>3, <3>2, HeldBytes DEF R!Carry, Relays
    <3>4. R!Ends(client.live /\ ~client.client_closed, client.live /\ ~client.socks_closed)
      BY <2>1, <2>2, <2>3, <3>2 DEF R!Ends, Relays
    <3>5. R!Live
      BY <2>1, <2>2, <2>5 DEF R!Live, Linked
    <3>6. /\ net.clientGone => net'.clientGone
          /\ net.socksGone => net'.socksGone
          /\ ~Dev(s) => net'.up = net.up /\ net'.confirmed = net.confirmed
          /\ ~Srv(s) => net'.down = net.down /\ net'.given = net.given
      BY <2>1, <2>3, <3>2 DEF Relays
    <3> QED
      BY <2>2, <3>3, <3>4, <3>5, <3>6 DEF R!Next, R!Step
  <2>6. CASE client' = client /\ net' = net
    BY <2>6 DEF R!vars
  <2>7. Next => \E t : StepTo(t) \/ NewTo(t)
    BY <1>2, NextStep
  <2>8. Next /\ ~client.live => (\E t : NewTo(t)) \/ (client' = client /\ net' = net)
    BY <1>2, IdleStep
  <2>9. UNCHANGED vars => client' = client /\ net' = net
    BY DEF vars
  <2> QED
    BY <1>2, <2>4, <2>5, <2>6, <2>7, <2>8, <2>9
<1> QED
  BY <1>1, <1>2, Invariance, PTL DEF Spec, RelaySpec, R!Spec
=============================================================================
