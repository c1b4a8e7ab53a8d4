------------------------------ MODULE LwipSend -------------------------------
(***************************************************************************)
(* The sending half of a TCP connection in lwIP (jni/badvpn/lwip):         *)
(* tcp_write and tcp_output with the unsent and unacked queues, the        *)
(* acknowledgement half of tcp_receive, fast retransmit, the retransmission*)
(* and persist timers of tcp_slowtmr, and tcp_close with the states behind *)
(* it.                                                                     *)
(*                                                                         *)
(* The peer takes the bytes at its next offset that lie inside its window  *)
(* and never takes its window back.  A segment arrives whenever it likes,  *)
(* or never: then it is lost.  An acknowledgement may arrive never, more   *)
(* than once, or after later ones.  Of its own the peer sends a FIN and,   *)
(* if Repeats, that FIN again and keepalives, which carry the present      *)
(* acknowledgement and window under a number it has used before.           *)
(*                                                                         *)
(* Sequence numbers are offsets in the stream; the FIN takes one.          *)
(***************************************************************************)
EXTENDS Integers, Sequences, SequencesExt

CONSTANTS SMss,     \* pcb->mss
          SndBuf,   \* TCP_SND_BUF
          PeerWnd,  \* the largest window the peer offers
          MaxRtx,   \* TCP_MAXRTX
          Repeats,  \* whether the peer's segments may arrive with a number it has used before
          MaxOut,   \* bound: bytes the application writes
          Writes    \* bound: how many bytes it may write at once

ASSUME SendAssumption ==
  /\ SMss \in Nat \ {0} /\ SndBuf \in Nat \ {0} /\ MaxRtx \in Nat \ {0} /\ MaxOut \in Nat
  /\ Writes \subseteq 1..MaxOut
  /\ PeerWnd \in Nat /\ PeerWnd >= SMss /\ PeerWnd >= 2 /\ Repeats \in BOOLEAN

VARIABLES
  out,   \* the send fields of struct tcp_pcb
  sent,  \* bytes the application has written, and the sent callback has confirmed
  net,   \* segments under way to the peer
  far    \* the peer: what it has, the edge of its window, and its acknowledgements

svars == <<out, sent, net, far>>

Smaller(a, b) == IF a < b THEN a ELSE b

TcpLen(seg) == seg.len + (IF seg.fin THEN 1 ELSE 0)
EndSeq(seg) == seg.seq + TcpLen(seg)

\* How many segments at the head of a queue pass the test of a loop.
Leading(q, Test(_)) ==
  CHOOSE n \in 0..Len(q) : (\A i \in 1..n : Test(q[i])) /\ (n = Len(q) \/ ~Test(q[n + 1]))

\* A segment goes in before the first that does not begin earlier.
Insert(q, seg) ==
  LET n == Leading(q, LAMBDA x : x.seq < seg.seq)
  IN SubSeq(q, 1, n) \o <<seg>> \o SubSeq(q, n + 1, Len(q))

Open == {"ESTABLISHED", "CLOSE_WAIT"}
Closing == {"FIN_WAIT_1", "FIN_WAIT_2", "CLOSING", "LAST_ACK"}
Ended == {"TIME_WAIT", "closed", "aborted"}

\* The connection is established: SYN_RCVD has left two segments of congestion window.
SendInit ==
  /\ out = [unsent |-> <<>>, unacked |-> <<>>, snd_nxt |-> 0, lastack |-> 0, snd_lbb |-> 0,
            snd_buf |-> SndBuf, snd_wnd |-> PeerWnd, snd_wl1 |-> 1, snd_wl2 |-> 0,
            cwnd |-> Smaller(2 * SMss, PeerWnd), ssthresh |-> PeerWnd, dupacks |-> 0,
            nrtx |-> 0, rtime |-> FALSE, persist |-> FALSE, infr |-> FALSE,
            fin |-> FALSE, state |-> "ESTABLISHED", acked |-> 0]
  /\ sent = [written |-> 0, confirmed |-> 0]
  /\ net = {}
  /\ far = [rcv |-> 0, edge |-> PeerWnd, late |-> <<>>, seq |-> 1]

tcp_pcb_purge(p) == [p EXCEPT !.unsent = <<>>, !.unacked = <<>>, !.rtime = FALSE]

\* The pcb is purged and freed with an error.
Purge == out' = [tcp_pcb_purge(out) EXCEPT !.state = "aborted"] /\ net' = {}

-----------------------------------------------------------------------------
(* tcp_output.                                                               *)

\* A segment goes to the tail of unacked, or before it when it was sent before.
Requeue(q, seg) ==
  IF q = <<>> \/ seg.seq >= q[Len(q)].seq THEN Append(q, seg) ELSE Insert(q, seg)

\* Mutant: the effective window is the congestion window alone.
Fits_NoWnd(p, seg) == seg.seq - p.lastack + seg.len <= p.cwnd

Fits(p, seg) == seg.seq - p.lastack + seg.len <= Smaller(p.snd_wnd, p.cwnd)

\* One segment leaves: the timer runs, snd_nxt follows, unacked keeps the segment.
tcp_output_segment(p, seg) ==
  [p EXCEPT !.rtime = TRUE, !.unacked = Requeue(@, seg),
            !.snd_nxt = IF @ < EndSeq(seg) THEN EndSeq(seg) ELSE @]

\* tun2socks disables Nagle's algorithm on every connection it accepts, so the
\* window alone decides how many of the unsent segments leave.
Ready(p) == Leading(p.unsent, LAMBDA x : Fits(p, x))

\* The loop over the first n unsent segments.
SendFirst(p, n) ==
  LET after[i \in 0..n] == IF i = 0 THEN p ELSE tcp_output_segment(after[i - 1], p.unsent[i])
  IN [after[n] EXCEPT !.unsent = SubSeq(@, n + 1, Len(@))]

tcp_output(pcb) ==
  \E p \in {pcb} : \E n \in {Ready(p)} :
    /\ out' = SendFirst(p, n)
    /\ net' = net \cup {[from |-> p.unsent[i].seq, to |-> EndSeq(p.unsent[i])] :
                          i \in {j \in 1..n : EndSeq(p.unsent[j]) > far.rcv}}

-----------------------------------------------------------------------------
(* The application: tcp_write followed by tcp_output, and tcp_close.         *)

\* No segment is larger than half the largest window the peer has offered.
MssLocal == Smaller(SMss, PeerWnd \div 2)

\* The bytes fill up the last unsent segment and continue in new ones.
Segmented(p, n) ==
  LET last == p.unsent[Len(p.unsent)]
      room == IF p.unsent = <<>> \/ last.len = 0 THEN 0 ELSE Smaller(MssLocal - last.len, n)
      left == n - room
      new == [i \in 1..((left + MssLocal - 1) \div MssLocal) |->
                [seq |-> p.snd_lbb + room + (i - 1) * MssLocal,
                 len |-> Smaller(MssLocal, left - (i - 1) * MssLocal), fin |-> FALSE]]
  IN (IF room = 0 THEN p.unsent ELSE [p.unsent EXCEPT ![Len(p.unsent)].len = @ + room]) \o new

\* Mutant: the send buffer is not charged.
tcp_write_Free(p, n) == [p EXCEPT !.unsent = Segmented(p, n), !.snd_lbb = @ + n]

tcp_write(p, n) ==
  [p EXCEPT !.unsent = Segmented(p, n), !.snd_lbb = @ + n, !.snd_buf = @ - n]

\* tcp_write, which a queue of TCP_SND_QUEUELEN pbufs refuses, and tcp_output.
Write(n, full) ==
  /\ out.state \in Open
  /\ n <= out.snd_buf /\ sent.written + n <= MaxOut
  /\ full => out.unsent # <<>> \/ out.unacked # <<>>
  /\ tcp_output(IF full THEN out ELSE tcp_write(out, n))
  /\ sent' = IF full THEN sent ELSE [sent EXCEPT !.written = @ + n]
  /\ UNCHANGED far

\* The FIN rides on the last unsent segment, which charges neither snd_lbb
\* nor snd_buf, or gets a segment of its own.
tcp_send_fin(p) ==
  IF p.unsent # <<>> /\ ~p.unsent[Len(p.unsent)].fin
  THEN [p EXCEPT !.unsent[Len(p.unsent)].fin = TRUE, !.fin = TRUE]
  ELSE [p EXCEPT !.unsent = Append(@, [seq |-> p.snd_lbb, len |-> 0, fin |-> TRUE]),
                 !.fin = TRUE, !.snd_lbb = @ + 1, !.snd_buf = @ - 1]

\* Bytes received and not read reset the connection.  So does tun2socks when
\* tcp_close fails, which needs a byte of send buffer and room in the queue
\* unless an unsent segment can take the FIN.
tcp_close(unread, full) ==
  /\ out.state \in Open
  /\ IF unread \/ (out.unsent = <<>> /\ (full \/ out.snd_buf = 0))
     THEN Purge
     ELSE tcp_output([tcp_send_fin(out) EXCEPT !.state =
                        IF @ = "ESTABLISHED" THEN "FIN_WAIT_1" ELSE "LAST_ACK"])
  /\ UNCHANGED <<sent, far>>

-----------------------------------------------------------------------------
(* An acknowledgement arrives: a = [ack, wnd, seq, fin].                     *)

\* A newer segment, or a newer or wider acknowledgement, sets the window, and
\* a closed window the persist timer.
UpdateWindow(p, a) ==
  IF \/ p.snd_wl1 < a.seq
     \/ p.snd_wl1 = a.seq /\ p.snd_wl2 < a.ack
     \/ p.snd_wl2 = a.ack /\ a.wnd > p.snd_wnd
  THEN [p EXCEPT !.snd_wnd = a.wnd, !.snd_wl1 = a.seq, !.snd_wl2 = a.ack, !.persist = (a.wnd = 0)]
  ELSE p

HalfWindow(p) ==
  LET half == Smaller(p.cwnd, p.snd_wnd) \div 2 IN IF half < 2 * SMss THEN 2 * SMss ELSE half

\* No window beyond the peer's largest makes a difference to what is sent.
Cwnd(n) == Smaller(n, PeerWnd)

\* nrtx is an 8-bit counter: beyond its limit its value makes no difference.
MoreRtx(n) == Smaller(n + 1, MaxRtx + 1)

\* The first unacked segment goes back to unsent, which stays sorted.
tcp_rexmit(p) ==
  [p EXCEPT !.unacked = Tail(@), !.unsent = Insert(@, p.unacked[1]), !.nrtx = MoreRtx(@)]

tcp_rexmit_fast(p) ==
  IF p.unacked = <<>> \/ p.infr THEN p
  ELSE [tcp_rexmit(p) EXCEPT !.ssthresh = HalfWindow(p), !.cwnd = Cwnd(HalfWindow(p) + 3 * SMss),
                             !.infr = TRUE]

\* Nothing new: possibly a duplicate acknowledgement, the third of which
\* retransmits.  p is the pcb before the window update, q after it.
OldAck(p, q, a) ==
  IF q.snd_wl2 + q.snd_wnd = p.snd_wl2 + p.snd_wnd /\ p.rtime /\ p.lastack = a.ack /\ ~a.fin
  THEN IF q.dupacks >= 3 THEN [q EXCEPT !.dupacks = 4, !.cwnd = Cwnd(@ + SMss), !.acked = 0]
       ELSE IF q.dupacks = 2 THEN [tcp_rexmit_fast(q) EXCEPT !.dupacks = 3, !.acked = 0]
       ELSE [q EXCEPT !.dupacks = @ + 1, !.acked = 0]
  ELSE [q EXCEPT !.dupacks = 0, !.acked = 0]

\* Segments at the head of a queue that end at or before the acknowledgement.
Confirmed(q, ack) == Leading(q, LAMBDA x : EndSeq(x) <= ack)

HasFin(q, n) == \E i \in 1..n : q[i].fin

\* Mutant: the timer stops although segments remain.
NewAck_StopsTimer(p, ack) ==
  LET n == Confirmed(p.unacked, ack)
  IN [p EXCEPT !.acked = ack - p.lastack - (IF HasFin(p.unacked, n) THEN 1 ELSE 0),
               !.snd_buf = @ + (ack - p.lastack), !.dupacks = 0, !.lastack = ack, !.nrtx = 0,
               !.unacked = SubSeq(@, n + 1, Len(@)), !.rtime = FALSE]

\* Something new: the send buffer, the congestion window and the queue follow.
NewAck(p, ack) ==
  LET n == Confirmed(p.unacked, ack)
      cwnd == IF p.infr THEN p.ssthresh ELSE p.cwnd
  IN [p EXCEPT !.infr = FALSE, !.nrtx = 0, !.dupacks = 0, !.lastack = ack,
               !.acked = ack - p.lastack - (IF HasFin(p.unacked, n) THEN 1 ELSE 0),
               !.snd_buf = @ + (ack - p.lastack),
               !.cwnd = Cwnd(cwnd + (IF cwnd < p.ssthresh THEN SMss ELSE (SMss * SMss) \div cwnd)),
               !.unacked = SubSeq(@, n + 1, Len(@)),
               !.rtime = n < Len(p.unacked)]

\* Mutant: segments that wait for their retransmission are not looked at.
AckUnsent_Not(p, ack) == p

\* Segments that went back to unsent may be acknowledged as well.
AckUnsent(p, ack) ==
  LET n == IF ack <= p.snd_nxt THEN Confirmed(p.unsent, ack) ELSE 0
  IN [p EXCEPT !.unsent = SubSeq(@, n + 1, Len(@)),
               !.acked = IF @ # 0 /\ HasFin(p.unsent, n) THEN @ - 1 ELSE @]

\* The acknowledgement half of tcp_receive, q being the pcb after the window update.
TakeAck(p, q, a) ==
  IF a.ack <= p.lastack THEN OldAck(p, q, a)
  ELSE IF a.ack <= q.snd_nxt THEN NewAck(q, a.ack)
  ELSE [q EXCEPT !.acked = 0]

\* tcp_process: what an acknowledgement of snd_nxt and a FIN do to the state.
NextState(p, a) ==
  LET all == a.ack = p.snd_nxt
  IN CASE p.state = "ESTABLISHED" /\ a.fin -> "CLOSE_WAIT"
       [] p.state = "FIN_WAIT_1" /\ a.fin -> IF all THEN "TIME_WAIT" ELSE "CLOSING"
       [] p.state = "FIN_WAIT_1" /\ ~a.fin /\ all -> "FIN_WAIT_2"
       [] p.state = "FIN_WAIT_2" /\ a.fin -> "TIME_WAIT"
       [] p.state = "CLOSING" /\ all -> "TIME_WAIT"
       [] p.state = "LAST_ACK" /\ all -> "closed"
       [] OTHER -> p.state

\* tcp_input: tcp_process with tcp_receive, the sent callback, and tcp_output
\* unless the pcb has gone.
AckInput(a) ==
  /\ out.state \notin Ended
  /\ \E q \in {UpdateWindow(out, a)} : \E r \in {AckUnsent(TakeAck(out, q, a), a.ack)} :
     \E p \in {[r EXCEPT !.state = NextState(r, a), !.acked = 0]} :
       /\ sent' = [sent EXCEPT !.confirmed = @ + (IF p.state = "closed" THEN 0 ELSE r.acked)]
       /\ IF p.state \in Ended THEN out' = tcp_pcb_purge(p) /\ UNCHANGED net ELSE tcp_output(p)

-----------------------------------------------------------------------------
(* Timers.                                                                   *)

\* Mutant: what was sent goes behind what was not.
tcp_rexmit_rto_Behind(p) ==
  [p EXCEPT !.unsent = p.unsent \o p.unacked, !.unacked = <<>>, !.nrtx = MoreRtx(@)]

tcp_rexmit_rto(p) ==
  [p EXCEPT !.unsent = p.unacked \o p.unsent, !.unacked = <<>>, !.nrtx = MoreRtx(@)]

\* The retransmission timer runs out: one segment of congestion window, and
\* everything unacknowledged is to be sent again.
Retransmit ==
  /\ out.state \notin Ended /\ out.nrtx # MaxRtx /\ ~out.persist
  /\ out.rtime /\ out.unacked # <<>>
  /\ tcp_output(tcp_rexmit_rto([out EXCEPT !.ssthresh = HalfWindow(out), !.cwnd = SMss]))
  /\ UNCHANGED <<sent, far>>

\* The limit of retransmissions is reached: the pcb goes, with an error.
GiveUp ==
  /\ out.state \notin Ended /\ out.nrtx = MaxRtx
  /\ Purge /\ UNCHANGED <<sent, far>>

\* The persist timer probes with the first byte, or FIN, that is not
\* acknowledged; snd_nxt does not follow.
tcp_zero_window_probe ==
  /\ out.state \notin Ended /\ out.nrtx # MaxRtx /\ out.persist
  /\ LET q == out.unacked \o out.unsent
     IN q # <<>> /\ net' = net \cup {[from |-> q[1].seq, to |-> q[1].seq + 1]}
  /\ UNCHANGED <<out, sent, far>>

\* Every slow tick ends with the poll, which is tcp_output.
Poll ==
  /\ out.state \notin Ended
  /\ tcp_output(out)
  /\ UNCHANGED <<sent, far>>

\* FIN_WAIT_2 and LAST_ACK are left after a while whatever happens.
CloseTimeout ==
  /\ out.state \in {"FIN_WAIT_2", "LAST_ACK"}
  /\ Purge /\ UNCHANGED <<sent, far>>

-----------------------------------------------------------------------------
(* The network and the peer.                                                 *)

Answer == [ack |-> far.rcv, wnd |-> far.edge - far.rcv, seq |-> far.seq, fin |-> FALSE]

\* The peer changes: its answer from before may still be held up in the
\* network, to arrive after later ones.
Changes(peer, held) ==
  /\ held => far.late = <<>>
  /\ far' = [peer EXCEPT !.late = IF held THEN <<Answer>> ELSE @]

\* A segment that begins at or before what the peer has next is taken as far
\* as the window goes.  One that brings nothing new does no more than repeat
\* the answer, which Answered allows at any time, so it is dropped.
Arrives(seg, held) ==
  /\ out.state \notin Ended
  /\ seg.from <= far.rcv /\ far.rcv < Smaller(seg.to, far.edge)
  /\ LET rcv == Smaller(seg.to, far.edge)
     IN Changes([far EXCEPT !.rcv = rcv], held) /\ net' = {x \in net : x.to > rcv}
  /\ UNCHANGED <<out, sent>>

\* The peer's application reads everything, which opens the window.
PeerReads(held) ==
  /\ out.state \notin Ended
  /\ far.edge < far.rcv + PeerWnd
  /\ Changes([far EXCEPT !.edge = far.rcv + PeerWnd], held)
  /\ UNCHANGED <<out, sent, net>>

\* The peer ends its own stream with its answer, which may be lost when it is
\* going to be repeated.
PeerFin(held, lost) ==
  /\ far.seq = 1 /\ (lost => Repeats)
  /\ IF lost THEN out.state \notin Ended /\ UNCHANGED <<out, sent, net>>
             ELSE AckInput([Answer EXCEPT !.fin = TRUE])
  /\ Changes([far EXCEPT !.seq = 2], held)

\* The segments an answer may come on: one with the peer's next number or, if
\* the peer repeats its FIN or sends a keepalive, with the number before.
Carried(a) ==
  {a} \cup (IF Repeats THEN {[a EXCEPT !.seq = @ - 1, !.fin = f] : f \in {FALSE, a.seq = 2}}
           ELSE {})

\* The peer's present answer arrives, perhaps not for the first time.
Answered == \E a \in Carried(Answer) : AckInput(a) /\ UNCHANGED far

LateAnswer ==
  /\ far.late # <<>> /\ \E a \in Carried(far.late[1]) : AckInput(a)
  /\ far' = [far EXCEPT !.late = <<>>]

SendNext ==
  \/ \E n \in Writes, full \in BOOLEAN : Write(n, full)
  \/ \E unread, full \in BOOLEAN : tcp_close(unread, full)
  \/ Retransmit \/ GiveUp \/ tcp_zero_window_probe \/ Poll \/ CloseTimeout
  \/ \E held \in BOOLEAN : (\E seg \in net : Arrives(seg, held)) \/ PeerReads(held)
  \/ \E held, lost \in BOOLEAN : PeerFin(held, lost)
  \/ Answered \/ LateAnswer

SendSpec == SendInit /\ [][SendNext]_svars

-----------------------------------------------------------------------------
\* Every field of the pcb keeps its range: the free send buffer stays within
\* TCP_SND_BUF, of which the FIN gives back one byte more than it took, and
\* no segment is acknowledged that was not sent.
SendTypeOK ==
  /\ out.snd_nxt \in 0..(MaxOut + 1) /\ out.lastack \in 0..(MaxOut + 1)
  /\ out.snd_buf \in 0..(SndBuf + 1) /\ out.cwnd \in 1..PeerWnd
  /\ out.dupacks \in 0..4 /\ out.nrtx \in 0..(MaxRtx + 1)
  /\ out.state \in Open \cup Closing \cup Ended
  /\ sent.written \in 0..MaxOut /\ sent.confirmed \in 0..MaxOut
  /\ far.rcv \in 0..(MaxOut + 1)

\* Every byte that is written and not acknowledged, and the FIN, is in
\* exactly one segment of the two queues, both are in order, and everything
\* unacked has been sent: no retransmission, partial acknowledgement or
\* refilled segment loses or repeats a byte.
QueuesSound ==
  LET q == out.unacked \o out.unsent
      covered == UNION {x.seq..(EndSeq(x) - 1) : x \in ToSet(q)}
      end == sent.written + (IF out.fin THEN 1 ELSE 0)
      sorted(r) == \A i \in 1..(Len(r) - 1) : EndSeq(r[i]) <= r[i + 1].seq
  IN out.state \notin Ended =>
       /\ sorted(out.unacked) /\ sorted(out.unsent)
       /\ out.lastack..(end - 1) \subseteq covered
       /\ \A x \in ToSet(q) : out.lastack < EndSeq(x) /\ EndSeq(x) <= end
       /\ \A i, j \in 1..Len(q) : i # j => EndSeq(q[i]) <= q[j].seq \/ EndSeq(q[j]) <= q[i].seq
       /\ \A x \in ToSet(out.unacked) : EndSeq(x) <= out.snd_nxt

\* The free send buffer and the bytes not yet acknowledged make up
\* TCP_SND_BUF, and the callbacks have confirmed exactly the acknowledged
\* bytes, without the FIN.
SendBufAccounted ==
  out.state \notin Ended =>
    /\ out.snd_buf + (out.snd_lbb - Smaller(out.lastack, out.snd_lbb)) \in SndBuf..(SndBuf + 1)
    /\ ~out.fin => out.snd_buf + (sent.written - out.lastack) = SndBuf
    /\ sent.confirmed = Smaller(out.lastack, sent.written)

\* Nothing that tcp_output sends lies beyond the edge the peer has offered,
\* except one byte of a probe or the FIN.  It holds while the peer's numbers
\* do not go back, and fails with Repeats: tcp_receive then moves lastack and
\* leaves snd_wnd, which tcp_output counts from lastack.
WithinOffer ==
  \A seg \in net : \/ seg.to <= far.edge
                   \/ seg.to = seg.from + 1 /\ seg.from <= far.edge
                   \/ seg.to = sent.written + 1 /\ seg.to <= far.edge + 1

\* The peer's window is open, but not for the segment that is next, and
\* nothing is unacknowledged: the code starts no timer then.
SmallWindow ==
  /\ out.unacked = <<>> /\ ~out.persist
  /\ out.unsent[1].seq - out.lastack + out.unsent[1].len > out.snd_wnd

\* A connection with anything left to send or to have acknowledged is never
\* left without a timer that will move it: the retransmission timer, the
\* persist timer of a closed window, or the poll, which then finds the next
\* segment fit to send.  The one exception is SmallWindow.
NeverSilent ==
  out.state \notin Ended =>
    \/ out.unacked = <<>> /\ out.unsent = <<>>
    \/ out.persist
    \/ out.unacked # <<>> /\ out.rtime
    \/ out.unacked = <<>> /\ Fits(out, out.unsent[1])
    \/ SmallWindow

\* tcp_close lets go of the pcb only when all that was written, and the FIN,
\* has been acknowledged.
ClosedDelivers ==
  out.state \in {"closed", "TIME_WAIT"} => out.lastack = sent.written + 1
=============================================================================
