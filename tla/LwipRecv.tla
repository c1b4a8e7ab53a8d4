------------------------------ MODULE LwipRecv -------------------------------
(***************************************************************************)
(* The receiving half of a TCP connection in lwIP (jni/badvpn/lwip), the   *)
(* stack tun2socks ends the device's connections with: tcp_receive and its *)
(* out-of-sequence queue, the window it announces, delayed                 *)
(* acknowledgements, data the application refuses, and the timers.         *)
(*                                                                         *)
(* The peer conforms to TCP: it has N bytes and a FIN to send, and at any  *)
(* time a segment of at most Mss bytes that ends inside the window it has  *)
(* learnt of, or a probe of a closed window, may arrive: first             *)
(* transmissions, retransmissions, other segmentations of the same bytes   *)
(* and late duplicates, in any order.  Every acknowledgement may be lost.  *)
(*                                                                         *)
(* Sequence numbers are taken modulo M, as the code takes them modulo      *)
(* 2^32.  A byte is its offset in the peer's stream.                       *)
(***************************************************************************)
EXTENDS Integers, Sequences, SequencesExt

CONSTANTS Wnd,     \* TCP_WND
          Mss,     \* pcb->mss, and the most a segment of the peer carries
          N,       \* bound: bytes the peer sends before its FIN
          M,       \* the modulus of sequence numbers, 2^32 in the code
          Isns,    \* sequence numbers the peer's first byte may have
          Refusal  \* whether the recv callback may return ERR_MEM

ASSUME RecvAssumption ==
  /\ Wnd \in Nat \ {0} /\ Mss \in Nat \ {0} /\ N \in Nat
  /\ M \in Nat /\ M % 2 = 0 /\ 2 * (N + 2 * Wnd + 2) <= M
  /\ Isns \subseteq 0..(M - 1) /\ Refusal \in BOOLEAN

VARIABLES
  pcb,   \* the receive fields of struct tcp_pcb
  app,   \* what the application has been handed, and what it has not read yet
  peer,  \* the highest acknowledgement and window edge the peer has learnt
  isn    \* the sequence number of the peer's first byte

rvars == <<pcb, app, peer, isn>>

\* TCP_SEQ_LT and its relatives: the sign of the difference.
TCP_SEQ_LT(a, b) == (a - b) % M >= M \div 2
TCP_SEQ_LEQ(a, b) == (a - b) % M = 0 \/ TCP_SEQ_LT(a, b)
TCP_SEQ_BETWEEN(a, b, c) == TCP_SEQ_LEQ(b, a) /\ TCP_SEQ_LEQ(a, c)

SeqNo(pos) == (isn + pos) % M

\* F of the value of x, which TLC then evaluates once.
Given(x, F(_)) == CHOOSE y \in {F(v) : v \in {x}} : TRUE

\* TCP_TCPLEN: a FIN takes one sequence number.
TCPLEN(seg) == seg.len + (IF seg.fin THEN 1 ELSE 0)
EndOf(seg) == (seg.seq + seg.len) % M

\* pbuf_realloc never makes a buffer longer.
pbuf_realloc(p, n) == SubSeq(p, 1, IF n < Len(p) THEN n ELSE Len(p))
Shorten(seg, n) == [seg EXCEPT !.len = n, !.p = pbuf_realloc(@, n)]

NoRefused == [held |-> FALSE, p |-> <<>>, fin |-> FALSE]

RecvInit ==
  /\ isn \in Isns
  /\ pcb = [rcv_nxt |-> isn, rcv_wnd |-> Wnd, ann_wnd |-> Wnd, ann_edge |-> SeqNo(Wnd),
            ooseq |-> <<>>, state |-> "ESTABLISHED", ack_delay |-> FALSE,
            ack_now |-> FALSE, refused |-> NoRefused]
  /\ app = [got |-> <<>>, unread |-> 0, eof |-> FALSE]
  /\ peer = [ack |-> 0, edge |-> Wnd]

-----------------------------------------------------------------------------
(* An event is an operator on s = [pcb, app, peer, data, got_fin, c], where  *)
(* data and got_fin are tcp_input's recv_data and TF_GOT_FIN, and c is what  *)
(* the surroundings decide: whether the acknowledgements of this event are   *)
(* lost, whether the callback takes the data, and whether it calls           *)
(* tcp_recved for it at once.                                                *)

Surroundings == [lost : BOOLEAN, takes : IF Refusal THEN BOOLEAN ELSE {TRUE}, reads : BOOLEAN]

Here(c) == [pcb |-> pcb, app |-> app, peer |-> peer, data |-> <<>>, got_fin |-> FALSE, c |-> c]
Become(s) == \E t \in {s} : pcb' = t.pcb /\ app' = t.app /\ peer' = t.peer /\ isn' = isn

\* How far the peer's knowledge moves: an old acknowledgement moves nothing.
Ahead(from, seq) == LET d == (seq - SeqNo(from)) % M IN IF d < M \div 2 THEN from + d ELSE from

\* tcp_send_empty_ack through tcp_output_alloc_header: the acknowledgement
\* carries rcv_nxt and rcv_ann_wnd, and the edge it announces is remembered.
tcp_send_empty_ack(s) ==
  LET edge == (s.pcb.rcv_nxt + s.pcb.ann_wnd) % M
      t == [s EXCEPT !.pcb.ack_delay = FALSE, !.pcb.ack_now = FALSE, !.pcb.ann_edge = edge]
  IN IF s.c.lost THEN t
     ELSE [t EXCEPT !.peer.ack = Ahead(@, s.pcb.rcv_nxt), !.peer.edge = Ahead(@, edge)]

\* tcp_output with nothing to send.
tcp_output(s) == IF s.pcb.ack_now THEN tcp_send_empty_ack(s) ELSE s

tcp_ack_now(s) == [s EXCEPT !.pcb.ack_now = TRUE]

\* Every second acknowledgement is sent at once.
tcp_ack(s) == IF s.pcb.ack_delay THEN [s EXCEPT !.pcb.ack_delay = FALSE, !.pcb.ack_now = TRUE]
              ELSE [s EXCEPT !.pcb.ack_delay = TRUE]

Least(a, b) == IF a < b THEN a ELSE b

\* Mutant: the announced window follows the free space, less one, whatever edge
\* was announced before.
tcp_update_rcv_ann_wnd_Always(p) == [p EXCEPT !.ann_wnd = p.rcv_wnd - Least(1, p.rcv_wnd)]

\* The window announced next: the whole free space when that moves the edge
\* by enough, otherwise what keeps the edge where it is.
tcp_update_rcv_ann_wnd(p) ==
  LET edge == (p.rcv_nxt + p.rcv_wnd) % M
  IN [p EXCEPT !.ann_wnd =
       IF TCP_SEQ_LEQ(p.ann_edge + Least(Wnd \div 2, Mss), edge) THEN p.rcv_wnd
       ELSE IF TCP_SEQ_LT(p.ann_edge, p.rcv_nxt) THEN 0
       ELSE (p.ann_edge - p.rcv_nxt) % M]

\* What tcp_update_rcv_ann_wnd returns.
Inflation(p) ==
  LET edge == (p.rcv_nxt + p.rcv_wnd) % M
  IN IF TCP_SEQ_LEQ(p.ann_edge + Least(Wnd \div 2, Mss), edge) THEN (edge - p.ann_edge) % M ELSE 0

\* Mutant: the window grows without its bound.
tcp_recved_Unbounded(s, n) ==
  [s EXCEPT !.pcb = tcp_update_rcv_ann_wnd([s.pcb EXCEPT !.rcv_wnd = @ + n + 1]),
            !.app.unread = @ - n]

\* tcp_recved without its call of tcp_output, which does nothing inside tcp_input.
tcp_recved(s, n) ==
  LET p == [s.pcb EXCEPT !.rcv_wnd = Least(@ + n, Wnd)]
      t == [s EXCEPT !.pcb = tcp_update_rcv_ann_wnd(p), !.app.unread = @ - n]
  IN IF Inflation(p) >= Wnd \div 4 THEN tcp_ack_now(t) ELSE t

-----------------------------------------------------------------------------
(* tcp_receive.                                                              *)

\* The longest prefix of q whose segments all pass the test: a while loop.
Leading(q, Test(_)) ==
  CHOOSE n \in 0..Len(q) : (\A i \in 1..n : Test(q[i])) /\ (n = Len(q) \/ ~Test(q[n + 1]))

Behind(q, n) == SubSeq(q, n + 1, Len(q))

\* A FIN among the first n segments of q, which seg covers, is seg's now.
TakeFin(seg, q, n) == IF \E i \in 1..n : q[i].fin THEN [seg EXCEPT !.fin = TRUE] ELSE seg

\* They are dropped, and seg is cut where it reaches into the first one left.
AbsorbFirst(seg, q, n) ==
  [seg |-> IF n < Len(q) /\ TCP_SEQ_LT(q[n + 1].seq, EndOf(seg))
           THEN Shorten(TakeFin(seg, q, n), (q[n + 1].seq - seg.seq) % M) ELSE TakeFin(seg, q, n),
   rest |-> Behind(q, n)]

Absorb(seg, q) ==
  Given(Leading(q, LAMBDA x : TCP_SEQ_LEQ(EndOf(x), EndOf(seg))), LAMBDA n : AbsorbFirst(seg, q, n))

\* Mutant: the segments behind an inserted one are left as they are.
tcp_oos_insert_segment_NoTrim(seg, q) == <<seg>> \o q

\* seg and what remains of the queue q behind it.
tcp_oos_insert_segment(seg, q) ==
  IF seg.fin THEN <<seg>> ELSE Given(Absorb(seg, q), LAMBDA a : <<a.seg>> \o a.rest)

CutAt(x, seq) == IF TCP_SEQ_LT(seq, EndOf(x)) THEN Shorten(x, (seq - x.seq) % M) ELSE x

\* At the end of the queue: the segment before is cut, and seg is cut to the
\* window.  Here, and only here, the code compares sequence numbers as numbers.
AppendSegment(p, seg) ==
  LET q == p.ooseq
      last == q[Len(q)]
      edge == (p.rcv_nxt + p.rcv_wnd) % M
  IN IF last.fin THEN q
     ELSE Append([q EXCEPT ![Len(q)] = CutAt(last, seg.seq)],
                 IF (TCPLEN(seg) + seg.seq) % M > edge
                 THEN [Shorten(seg, (edge - seg.seq) % M) EXCEPT !.fin = FALSE] ELSE seg)

\* Where an out-of-sequence segment goes, by its sequence number.
QueueOoseq(p, seg) ==
  LET q == p.ooseq
      same == {i \in 1..Len(q) : q[i].seq = seg.seq}
      k == Leading(q, LAMBDA x : TCP_SEQ_LT(x.seq, seg.seq))
  IN IF q = <<>> THEN <<seg>>
     ELSE IF same # {} THEN
       LET i == CHOOSE j \in same : TRUE
       IN IF seg.len > q[i].len
          THEN SubSeq(q, 1, i - 1) \o tcp_oos_insert_segment(seg, Behind(q, i - 1)) ELSE q
     ELSE IF k = 0 THEN tcp_oos_insert_segment(seg, q)
     ELSE IF k = Len(q) THEN AppendSegment(p, seg)
     ELSE SubSeq(q, 1, k - 1) \o <<CutAt(q[k], seg.seq)>> \o tcp_oos_insert_segment(seg, Behind(q, k))

\* Consecutive segments at the head of the queue that continue at nxt.
InLine(q, nxt) ==
  CHOOSE n \in 0..Len(q) :
    LET start(i) == IF i = 1 THEN nxt ELSE (q[i - 1].seq + TCPLEN(q[i - 1])) % M
    IN /\ \A i \in 1..n : q[i].seq = start(i)
       /\ n = Len(q) \/ q[n + 1].seq # start(n + 1)

\* rcv_nxt and the window move over n sequence numbers.
Advance(p, n) ==
  tcp_update_rcv_ann_wnd([p EXCEPT !.rcv_nxt = (@ + n) % M, !.rcv_wnd = @ - n])

\* The front of a segment that begins before rcv_nxt and ends behind it is cut.
TrimFront(p, seg) ==
  LET off == (p.rcv_nxt - seg.seq) % M
  IN IF TCP_SEQ_BETWEEN(p.rcv_nxt, seg.seq + 1, seg.seq + TCPLEN(seg) - 1)
     THEN [seg EXCEPT !.seq = p.rcv_nxt, !.len = @ - off, !.p = SubSeq(@, off + 1, Len(@))]
     ELSE seg

\* A segment that overruns the window loses its end and its FIN.
TrimToWindow(p, seg) ==
  IF TCPLEN(seg) > p.rcv_wnd THEN [Shorten(seg, p.rcv_wnd) EXCEPT !.fin = FALSE] ELSE seg

\* pbuf_cat of the buffers of a line of segments.
Joined(line) ==
  LET cat[i \in 0..Len(line)] == IF i = 0 THEN <<>> ELSE cat[i - 1] \o line[i].p
  IN cat[Len(line)]

\* The segments of line, all in sequence now, are taken over: each moves
\* rcv_nxt and the window, and the window announced follows from the last.
TakeLine(s, line, rest) ==
  LET last == line[Len(line)]
      fin == \E i \in 1..Len(line) : line[i].fin
  IN tcp_ack([s EXCEPT
       !.pcb = Advance([s.pcb EXCEPT !.ooseq = rest,
                          !.state = IF fin THEN "CLOSE_WAIT" ELSE @],
                       (last.seq + TCPLEN(last) - s.pcb.rcv_nxt) % M),
       !.data = Joined(line),
       !.got_fin = fin])

\* a.seg is at rcv_nxt, and the segments of a.rest that continue it go with it.
TakeWith(s, a) ==
  Given(InLine(a.rest, (a.seg.seq + TCPLEN(a.seg)) % M), LAMBDA n :
    TakeLine(s, <<a.seg>> \o SubSeq(a.rest, 1, n), Behind(a.rest, n)))

\* The segment at rcv_nxt, and those of the queue it brings into sequence.
InSequence(s, seg) ==
  Given(IF seg.fin THEN [seg |-> seg, rest |-> <<>>] ELSE Absorb(seg, s.pcb.ooseq), LAMBDA a :
    TakeWith(s, a))

\* A segment with data or a FIN, its front cut.
ReceiveCut(s, seg) ==
  IF ~TCP_SEQ_BETWEEN(seg.seq, s.pcb.rcv_nxt, s.pcb.rcv_nxt + s.pcb.rcv_wnd - 1)
  THEN tcp_send_empty_ack(IF TCP_SEQ_LT(seg.seq, s.pcb.rcv_nxt) THEN tcp_ack_now(s) ELSE s)
  ELSE IF seg.seq = s.pcb.rcv_nxt THEN Given(TrimToWindow(s.pcb, seg), LAMBDA x : InSequence(s, x))
  ELSE [tcp_send_empty_ack(s) EXCEPT !.pcb.ooseq = QueueOoseq(s.pcb, seg)]

tcp_receive(s, seg) ==
  IF TCPLEN(seg) > 0 /\ s.pcb.state = "ESTABLISHED"
  THEN Given(TrimFront(s.pcb, seg), LAMBDA x : ReceiveCut(s, x))
  ELSE IF TCP_SEQ_BETWEEN(seg.seq, s.pcb.rcv_nxt, s.pcb.rcv_nxt + s.pcb.rcv_wnd - 1) THEN s
  ELSE tcp_ack_now(s)

-----------------------------------------------------------------------------
(* tcp_input and the application.                                            *)

\* TCP_EVENT_RECV: the callback takes the data, and may read it at once, or
\* refuses it.
EventRecv(s, data) ==
  LET t == [s EXCEPT !.app.got = @ \o data, !.app.unread = @ + Len(data)]
  IN IF s.c.reads THEN tcp_recved(t, Len(data)) ELSE t

\* Mutant: the window is not corrected for the FIN.
EventClosed_NoWnd(s) == [s EXCEPT !.app.eof = TRUE]

\* The FIN's place in the window is given back, since nobody reads it.
EventClosed(s) == [s EXCEPT !.pcb.rcv_wnd = Least(@ + 1, Wnd), !.app.eof = TRUE]

\* Mutant: a FIN that came behind refused data is forgotten.
tcp_process_refused_data_NoFin(s) ==
  IF ~s.c.takes THEN s
  ELSE tcp_output(EventRecv([s EXCEPT !.pcb.refused = NoRefused], s.pcb.refused.p))

\* The callback takes the refused data.  Outside tcp_process, the tcp_output
\* of a tcp_recved in the callback sends.
TakesRefused(s) ==
  Given(EventRecv([s EXCEPT !.pcb.refused = NoRefused], s.pcb.refused.p), tcp_output)

\* A FIN that waited behind the data goes to the application now.
tcp_process_refused_data(s) ==
  IF ~s.c.takes THEN s
  ELSE IF s.pcb.refused.fin THEN Given(TakesRefused(s), EventClosed)
  ELSE TakesRefused(s)

\* tcp_process of an open connection acknowledges a FIN at once.
GotFin(s) == IF s.got_fin THEN [tcp_ack_now(s) EXCEPT !.pcb.state = "CLOSE_WAIT"] ELSE s

\* The data goes to the application, or waits when it is refused.
Offered(s) ==
  IF s.data = <<>> THEN s
  ELSE IF s.c.takes THEN EventRecv(s, s.data)
  ELSE [s EXCEPT !.pcb.refused = [held |-> TRUE, p |-> s.data, fin |-> FALSE]]

\* The FIN goes to the application behind the data, or waits with it.
Closed(s) ==
  IF ~s.got_fin THEN s
  ELSE IF s.pcb.refused.held THEN [s EXCEPT !.pcb.refused.fin = TRUE]
  ELSE EventClosed(s)

\* tcp_process for an open connection, the callbacks, and tcp_output.
Deliver(s, seg) == Given(Given(Given(Given(tcp_receive(s, seg), GotFin), Offered), Closed), tcp_output)

\* While data is refused, more is dropped.
DeliverUnlessHeld(s, seg) == IF s.pcb.refused.held /\ TCPLEN(seg) > 0 THEN s ELSE Deliver(s, seg)

\* Refused data is offered again first.
tcp_input(s, seg) ==
  Given(IF s.pcb.refused.held THEN tcp_process_refused_data(s) ELSE s, LAMBDA t : DeliverUnlessHeld(t, seg))

Segment(pos, len, fin) ==
  [seq |-> SeqNo(pos), len |-> len, fin |-> fin, p |-> [i \in 1..len |-> pos + i - 1]]

\* What the peer may have under way: segments that end inside the window it
\* knows, a probe of one byte when that window is closed, and bare
\* acknowledgements.
Sendable ==
  {x \in [pos : 0..N, len : 0..Mss, fin : BOOLEAN] :
     LET end == x.pos + x.len + (IF x.fin THEN 1 ELSE 0)
     IN /\ x.pos + x.len <= N
        /\ x.fin => x.pos + x.len = N
        /\ \/ end <= peer.edge
           \/ x.pos = peer.ack /\ peer.ack = peer.edge /\ end = x.pos + 1}

Arrive(x, c) ==
  \E s \in {Here(c)}, seg \in {Segment(x.pos, x.len, x.fin)} : Become(tcp_input(s, seg))

\* The application has read n bytes, outside tcp_input.
Recved(n, c) ==
  /\ n \in 1..app.unread
  /\ Become(tcp_output(tcp_recved(Here(c), n)))

\* Mutant: the timer only sends the delayed acknowledgement.
tcp_fasttmr_AckOnly(c) == pcb.ack_delay /\ Become(tcp_send_empty_ack(Here(c)))

\* tcp_fasttmr: the delayed acknowledgement, and the refused data once more.
tcp_fasttmr(c) ==
  /\ pcb.ack_delay \/ pcb.refused.held
  /\ \E s \in {IF pcb.ack_delay THEN tcp_send_empty_ack(Here(c)) ELSE Here(c)} :
       Become(IF pcb.refused.held THEN tcp_process_refused_data(s) ELSE s)

\* tcp_slowtmr drops out-of-sequence data that has waited too long.
tcp_slowtmr_ooseq == pcb.ooseq # <<>> /\ Become([Here([lost |-> TRUE]) EXCEPT !.pcb.ooseq = <<>>])

RecvNext ==
  \/ \E x \in Sendable, c \in Surroundings : Arrive(x, c)
  \/ \E n \in 1..(Wnd + 1), c \in Surroundings : Recved(n, c)
  \/ \E c \in Surroundings : tcp_fasttmr(c)
  \/ tcp_slowtmr_ooseq

\* The peer retransmits or probes from the byte it has no acknowledgement
\* for, not every such segment and not every acknowledgement is lost, the
\* application reads and does not refuse for ever, and the fast timer runs.
Kind == {c \in Surroundings : ~c.lost /\ c.takes}

RecvFairness ==
  /\ SF_rvars(\E x \in Sendable, c \in Kind : x.pos = peer.ack /\ x.len + (IF x.fin THEN 1 ELSE 0) > 0 /\ Arrive(x, c))
  /\ SF_rvars(\E c \in Kind : tcp_fasttmr(c))
  /\ WF_rvars(\E c \in Surroundings : Recved(app.unread, c))

RecvSpec == RecvInit /\ [][RecvNext]_rvars
RecvFairSpec == RecvSpec /\ RecvFairness

-----------------------------------------------------------------------------
\* Every field keeps its range: the free window and the announced one stay
\* within TCP_WND, and the application never holds more than that.
RecvTypeOK ==
  /\ pcb.rcv_nxt \in 0..(M - 1) /\ pcb.ann_edge \in 0..(M - 1)
  /\ pcb.rcv_wnd \in 0..Wnd /\ pcb.ann_wnd \in 0..Wnd
  /\ pcb.state \in {"ESTABLISHED", "CLOSE_WAIT"}
  /\ app.got \in Seq(0..N) /\ app.unread \in 0..Wnd
  /\ peer.ack \in 0..(N + 1) /\ peer.edge \in 0..(N + 1 + Wnd)

\* Offset of a sequence number in the peer's stream.
PosOf(seq) == (seq - isn) % M

\* The application is handed the peer's bytes in order, none missing and
\* none twice, and whatever is acknowledged has been handed over or is held
\* as refused data: tcp_receive cuts and joins segments at the right bytes,
\* and its data survives a refusal.
InOrder ==
  LET all == app.got \o pcb.refused.p
  IN /\ \A i \in 1..Len(all) : all[i] = i - 1
     /\ PosOf(pcb.rcv_nxt) = Len(all) + (IF app.eof \/ pcb.refused.fin THEN 1 ELSE 0)
     /\ app.eof => Len(app.got) = N

\* The out-of-sequence queue is sorted, free of overlaps, beyond rcv_nxt and
\* inside the window, a FIN can only be on its last segment, and each
\* segment's buffer holds exactly the bytes its header claims.
OoseqShape ==
  LET q == pcb.ooseq
      from(i) == PosOf(q[i].seq)
      to(i) == from(i) + TCPLEN(q[i])
  IN \A i \in 1..Len(q) :
       /\ q[i].p = [j \in 1..q[i].len |-> from(i) + j - 1]
       /\ PosOf(pcb.rcv_nxt) < from(i) /\ to(i) <= PosOf(pcb.rcv_nxt) + pcb.rcv_wnd
       /\ i < Len(q) => to(i) <= from(i + 1) /\ ~q[i].fin
       /\ q[i].fin => to(i) = N + 1

\* Every byte of the window is free, or with the application, or held for
\* it: nothing leaks from rcv_wnd, whose loss would slow and then stop the
\* connection, and tcp_recved never has to cut it off.
RecvWindowAccounted ==
  pcb.rcv_wnd + app.unread + Len(pcb.refused.p) + (IF pcb.refused.fin THEN 1 ELSE 0) = Wnd

\* The edge announced next never lies before the one announced last, and
\* never beyond the space there is: tcp_update_rcv_ann_wnd keeps the promise
\* the peer sends by.
EdgeKept ==
  /\ TCP_SEQ_LEQ(pcb.ann_edge, pcb.rcv_nxt + pcb.ann_wnd)
  /\ pcb.ann_wnd <= pcb.rcv_wnd
  /\ peer.edge <= PosOf(pcb.ann_edge)

\* All bytes and the FIN reach the application, whatever is lost,
\* duplicated, reordered, dropped by the timer or refused on the way: no
\* window, delayed acknowledgement or refusal stops the connection for good.
AllDelivered == <>(app.eof /\ Len(app.got) = N)
=============================================================================
