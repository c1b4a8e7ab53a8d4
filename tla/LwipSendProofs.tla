--------------------------- MODULE LwipSendProofs ----------------------------
(***************************************************************************)
(* Theorems about LwipSend: for any segment size, buffer, window, limit of *)
(* retransmissions and any writes, the two queues hold exactly what is not *)
(* acknowledged, the send buffer is accounted for, nothing leaves beyond   *)
(* the peer's offer, and a timer is left to move what waits.  All of it is *)
(* for a peer none of whose segments arrives with a number used before     *)
(* (~Repeats), without which none of the last four holds.                  *)
(***************************************************************************)
EXTENDS LwipSend, TLAPS, NaturalsInduction, WellFoundedInduction

-----------------------------------------------------------------------------
(* The inductive invariant *)

Int1(b) == IF b THEN 1 ELSE 0

\* Where the stream ends so far, w bytes being written.
StreamEnd(p, w) == w + Int1(p.fin)

SegType == [seq : Nat, len : Nat, fin : BOOLEAN]
PcbType == [unsent : Seq(SegType), unacked : Seq(SegType), snd_nxt : Nat, lastack : Nat,
            snd_lbb : Nat, snd_buf : Nat, snd_wnd : Nat, snd_wl1 : Nat, snd_wl2 : Nat,
            cwnd : Nat, ssthresh : Nat, dupacks : 0..4, nrtx : 0..(MaxRtx + 1), rtime : BOOLEAN,
            persist : BOOLEAN, infr : BOOLEAN, fin : BOOLEAN,
            state : Open \cup Closing \cup Ended, acked : Nat]
SentType == [written : Nat, confirmed : Nat]
AckType == [ack : Nat, wnd : Nat, seq : Nat, fin : BOOLEAN]
FarType == [rcv : Nat, edge : Nat, late : Seq(AckType), seq : Nat]
NetType == [from : Nat, to : Nat]

\* A segment of a stream of w bytes, behind which there may be the FIN.
Proper(x, w) ==
  /\ x \in SegType /\ x.len <= MssLocal /\ TcpLen(x) > 0
  /\ x.fin <=> EndSeq(x) = w + 1

\* Segments that follow one another without a gap from a to b.
Line(s, a, b, w) ==
  /\ s \in Seq(SegType) /\ a <= b
  /\ \A i \in 1..Len(s) : Proper(s[i], w) /\ a <= s[i].seq /\ EndSeq(s[i]) <= b
  /\ \A i, j \in 1..Len(s) : i < j => EndSeq(s[i]) <= s[j].seq
  /\ \A i, j \in 1..Len(s) : j = i + 1 => s[j].seq = EndSeq(s[i])
  /\ s = <<>> => a = b
  /\ s # <<>> => s[1].seq = a /\ EndSeq(s[Len(s)]) = b

\* No segment is behind the acknowledgement.
Pending(s, ack) == \A i \in 1..Len(s) : EndSeq(s[i]) > ack

\* What is unacked, and what is unsent behind it, make up the stream from the
\* acknowledgement on.
Queues(p, w) ==
  \E a, b \in 0..StreamEnd(p, w) :
    /\ a <= p.lastack /\ Line(p.unacked, a, b, w) /\ Line(p.unsent, b, StreamEnd(p, w), w)
    /\ Pending(p.unacked, p.lastack) /\ Pending(p.unsent, p.lastack)

\* What is unacked has been sent, in the window that is known.
InFlight(p) ==
  /\ \A i \in 1..Len(p.unacked) : /\ EndSeq(p.unacked[i]) <= p.snd_nxt
                                  /\ p.unacked[i].seq + p.unacked[i].len <= p.lastack + p.snd_wnd
  /\ p.unacked # <<>> => p.rtime

\* The counters, c bytes being confirmed.
Counts(p, w, c) ==
  /\ p.lastack <= p.snd_nxt /\ p.snd_nxt <= StreamEnd(p, w)
  /\ w <= p.snd_lbb /\ p.snd_lbb <= StreamEnd(p, w)
  /\ p.snd_buf + p.snd_lbb = SndBuf + p.lastack
  /\ c = Smaller(p.lastack, w)

\* The congestion window takes a segment at least.
Congestion(p) == SMss <= p.cwnd /\ p.cwnd <= PeerWnd /\ SMss <= p.ssthresh

\* An answer with sequence number s and acknowledgement k, for a window up to
\* e, is not newer than another.
NotNewer(s, k, e, t, l, f) == s <= t /\ k <= l /\ e <= f

\* The answer the window is taken from, and the peer's present one.
Known(p, r) ==
  /\ p.lastack <= p.snd_wl2
  /\ NotNewer(p.snd_wl1, p.snd_wl2, p.snd_wl2 + p.snd_wnd, r.seq, r.rcv, r.edge)

\* An answer under way is of the peer's past, before or after the one the
\* window is taken from.
Past(a, p, r) ==
  /\ NotNewer(a.seq, a.ack, a.ack + a.wnd, r.seq, r.rcv, r.edge)
  /\ \/ NotNewer(a.seq, a.ack, a.ack + a.wnd, p.snd_wl1, p.snd_wl2, p.snd_wl2 + p.snd_wnd)
     \/ NotNewer(p.snd_wl1, p.snd_wl2, p.snd_wl2 + p.snd_wnd, a.seq, a.ack, a.ack + a.wnd)

\* What has been sent: up to snd_nxt, or one byte in a probe.
Reached(p, k) == k <= p.snd_nxt \/ k <= p.lastack + 1

Peer(p, r, w) ==
  /\ r.rcv <= r.edge /\ r.edge <= r.rcv + PeerWnd
  /\ r.rcv <= StreamEnd(p, w) /\ Reached(p, r.rcv)
  /\ Known(p, r)
  /\ r.late # <<>> => r.late = <<r.late[1]>> /\ Past(r.late[1], p, r)

UnderWay(p, n, w) == \A x \in n : x.to <= StreamEnd(p, w) /\ Reached(p, x.to)

\* A pcb p, w bytes being written and c confirmed, and the peer r.
Ok(p, w, c, r) ==
  /\ p \in PcbType /\ Queues(p, w) /\ InFlight(p) /\ Counts(p, w, c)
  /\ Congestion(p) /\ Peer(p, r, w)
  /\ p.fin <=> p.state \notin Open

\* WithinOffer for segments N, an edge e and w bytes written.
Offered(N, e, w) ==
  \A seg \in N : \/ seg.to <= e
                 \/ seg.to = seg.from + 1 /\ seg.from <= e
                 \/ seg.to = w + 1 /\ seg.to <= e + 1

Types(p, s, N, r) ==
  /\ p \in PcbType /\ s \in SentType /\ r \in FarType /\ N \subseteq NetType
  /\ p.snd_nxt <= MaxOut + 1 /\ p.lastack <= MaxOut + 1 /\ p.snd_buf <= SndBuf + 1
  /\ 1 <= p.cwnd /\ p.cwnd <= PeerWnd
  /\ s.written <= MaxOut /\ s.confirmed <= MaxOut /\ r.rcv <= MaxOut + 1

\* A pcb that has gone keeps its types only.
Sound(p, s, N, r) ==
  /\ Types(p, s, N, r) /\ Offered(N, r.edge, s.written)
  /\ p.state \notin Ended => Ok(p, s.written, s.confirmed, r) /\ UnderWay(p, N, s.written)

IInv == Sound(out, sent, net, far)

-----------------------------------------------------------------------------
(* Numbers and loops *)

LEMMA Sizes ==
  /\ SMss \in Nat /\ SMss > 0 /\ SndBuf \in Nat /\ SndBuf > 0 /\ MaxRtx \in Nat /\ MaxRtx > 0
  /\ MaxOut \in Nat /\ PeerWnd \in Nat /\ SMss <= PeerWnd
  /\ Writes \subseteq Nat /\ \A n \in Writes : n > 0
  /\ MssLocal \in Nat /\ MssLocal > 0 /\ MssLocal <= SMss
<1>1. /\ SMss \in Nat /\ SMss > 0 /\ SndBuf \in Nat /\ SndBuf > 0 /\ MaxRtx \in Nat /\ MaxRtx > 0
      /\ MaxOut \in Nat /\ PeerWnd \in Nat /\ SMss <= PeerWnd /\ PeerWnd >= 2
      /\ Writes \subseteq Nat /\ \A n \in Writes : n > 0
  BY SendAssumption
<1>2. PeerWnd \div 2 \in Nat /\ PeerWnd \div 2 > 0
  BY <1>1
<1> QED
  BY <1>1, <1>2 DEF MssLocal, Smaller

\* The least element of a set of natural numbers.
LEMMA NatMin ==
  ASSUME NEW T, T \subseteq Nat, T # {}
  PROVE  \E x \in T : \A y \in T : x <= y
<1> DEFINE R == {p \in Nat \X Nat : p[1] < p[2]}
<1>1. IsWellFoundedOn(R, Nat)
  BY NatLessThanWellFounded DEF OpToRel
<1> HIDE DEF R
<1>2. PICK x \in T : \A y \in T : ~(<<y, x>> \in R)
  BY <1>1, WFMin
<1>3. \A y \in T : ~(y < x)
  BY <1>2 DEF R
<1> QED
  BY <1>3

\* A loop over 1..n stops at the first bad index or behind the last.
Stops(n, bad) == \E k \in 0..n : (\A i \in 1..k : i \notin bad) /\ (k = n \/ k + 1 \in bad)

LEMMA LoopStops == ASSUME NEW n \in Nat, NEW bad PROVE Stops(n, bad)
<1> DEFINE T == {k \in 1..n : k \in bad}
<1>1. CASE T = {}
  BY <1>1 DEF Stops
<1>2. CASE T # {}
  <2>1. T \subseteq Nat
    OBVIOUS
  <2>2. PICK k \in T : \A i \in T : k <= i
    <3> HIDE DEF T
    <3> QED
      BY <1>2, <2>1, NatMin
  <2>3. k - 1 \in 0..n /\ (\A i \in 1..(k - 1) : i \notin bad) /\ (k - 1) + 1 \in bad
    BY <2>2
  <2> QED
    BY <2>3 DEF Stops
<1> QED
  BY <1>1, <1>2

\* The loops of tcp_receive, tcp_output and of an insertion stop somewhere.
LEMMA ConfirmedLeads ==
  ASSUME NEW q, Len(q) \in Nat, NEW ack
  PROVE  /\ Confirmed(q, ack) \in 0..Len(q)
         /\ \A i \in 1..Confirmed(q, ack) : EndSeq(q[i]) <= ack
         /\ Confirmed(q, ack) = Len(q) \/ ~(EndSeq(q[Confirmed(q, ack) + 1]) <= ack)
<1> DEFINE bad == {i \in 1..Len(q) : ~(EndSeq(q[i]) <= ack)}
<1>1. PICK k \in 0..Len(q) : (\A i \in 1..k : i \notin bad) /\ (k = Len(q) \/ k + 1 \in bad)
  <2>1. PICK l \in Nat : l = Len(q)
    OBVIOUS
  <2> HIDE DEF bad
  <2>2. Stops(l, bad)
    BY LoopStops
  <2> QED
    BY <2>1, <2>2 DEF Stops
<1>2. /\ k \in 0..Len(q)
      /\ \A i \in 1..k : EndSeq(q[i]) <= ack
      /\ k = Len(q) \/ ~(EndSeq(q[k + 1]) <= ack)
  BY <1>1
<1> QED
  BY <1>2 DEF Confirmed, Leading

LEMMA ReadyLeads ==
  ASSUME NEW p, Len(p.unsent) \in Nat
  PROVE  /\ Ready(p) \in 0..Len(p.unsent)
         /\ \A i \in 1..Ready(p) : Fits(p, p.unsent[i])
         /\ Ready(p) = Len(p.unsent) \/ ~Fits(p, p.unsent[Ready(p) + 1])
<1> DEFINE bad == {i \in 1..Len(p.unsent) : ~Fits(p, p.unsent[i])}
<1>1. PICK k \in 0..Len(p.unsent) : (\A i \in 1..k : i \notin bad) /\ (k = Len(p.unsent) \/ k + 1 \in bad)
  <2>1. PICK l \in Nat : l = Len(p.unsent)
    OBVIOUS
  <2> HIDE DEF bad
  <2>2. Stops(l, bad)
    BY LoopStops
  <2> QED
    BY <2>1, <2>2 DEF Stops
<1>2. /\ k \in 0..Len(p.unsent)
      /\ \A i \in 1..k : Fits(p, p.unsent[i])
      /\ k = Len(p.unsent) \/ ~Fits(p, p.unsent[k + 1])
  BY <1>1
<1> QED
  BY <1>2 DEF Ready, Leading

\* A segment that begins before the whole queue goes to its head.
LEMMA InsertFirst ==
  ASSUME NEW T, NEW q \in Seq(T), NEW seg \in T,
         q # <<>> => ~(q[1].seq < seg.seq)
  PROVE  Insert(q, seg) = <<seg>> \o q
<1> DEFINE n == Leading(q, LAMBDA x : x.seq < seg.seq)
<1>1. 0 \in 0..Len(q) /\ (\A i \in 1..0 : q[i].seq < seg.seq) /\ (0 = Len(q) \/ ~(q[0 + 1].seq < seg.seq))
  OBVIOUS
<1>2. /\ n \in 0..Len(q)
      /\ \A i \in 1..n : q[i].seq < seg.seq
  BY <1>1 DEF Leading
<1>3. n = 0
  <2>1. CASE n # 0
    <3>1. 1 \in 1..n /\ q # <<>>
      BY <1>2, <2>1
    <3> QED
      BY <1>2, <3>1
  <2> QED
    BY <2>1
<1>4. SubSeq(q, 1, 0) = <<>> /\ SubSeq(q, 0 + 1, Len(q)) = q
  OBVIOUS
<1>5. Insert(q, seg) = SubSeq(q, 1, n) \o <<seg>> \o SubSeq(q, n + 1, Len(q))
  BY DEF Insert
<1> HIDE DEF n
<1>6. Insert(q, seg) = (<<>> \o <<seg>>) \o q
  BY <1>3, <1>4, <1>5
<1> QED
  BY <1>6

-----------------------------------------------------------------------------
(* Lines of segments *)

\* Names for the sequence operators, which the lemmas are instantiated with.
Upto(q, n) == SubSeq(q, 1, n)
Behind(q, n) == SubSeq(q, n + 1, Len(q))
Cat(q, r) == q \o r

LEMMA LenNat == ASSUME NEW T, NEW q, q \in Seq(T) PROVE Len(q) \in Nat
  OBVIOUS

LEMMA NoneSeq == ASSUME NEW T, NEW q, q \in Seq(T) PROVE Len(q) = 0 <=> q = <<>>
  OBVIOUS

LEMMA SameSeq ==
  ASSUME NEW T, NEW q, NEW r, q \in Seq(T), r \in Seq(T), Len(q) = Len(r),
         \A i \in 1..Len(r) : q[i] = r[i]
  PROVE  q = r
  OBVIOUS

LEMMA CatAt ==
  ASSUME NEW T, NEW q \in Seq(T), NEW r \in Seq(T)
  PROVE  /\ Cat(q, r) \in Seq(T) /\ Len(Cat(q, r)) = Len(q) + Len(r)
         /\ \A i \in 1..Len(q) : Cat(q, r)[i] = q[i]
         /\ \A i \in 1..Len(r) : Cat(q, r)[Len(q) + i] = r[i]
  BY DEF Cat

LEMMA PartsAt ==
  ASSUME NEW T, NEW q \in Seq(T), NEW n \in 0..Len(q)
  PROVE  /\ Upto(q, n) \in Seq(T) /\ Len(Upto(q, n)) = n
         /\ \A i \in 1..n : Upto(q, n)[i] = q[i]
         /\ Behind(q, n) \in Seq(T) /\ Len(Behind(q, n)) = Len(q) - n
         /\ \A i \in 1..(Len(q) - n) : Behind(q, n)[i] = q[n + i]
  BY DEF Upto, Behind

LEMMA PartsCat ==
  ASSUME NEW T, NEW q \in Seq(T), NEW n \in 0..Len(q)
  PROVE  Cat(Upto(q, n), Behind(q, n)) = q
<1>1. PICK f, h, c : f = Upto(q, n) /\ h = Behind(q, n) /\ c = Cat(f, h)
  OBVIOUS
<1>2. /\ f \in Seq(T) /\ Len(f) = n /\ (\A i \in 1..n : f[i] = q[i])
      /\ h \in Seq(T) /\ Len(h) = Len(q) - n /\ (\A i \in 1..(Len(q) - n) : h[i] = q[n + i])
  BY <1>1, PartsAt
<1>3. /\ c \in Seq(T) /\ Len(c) = Len(f) + Len(h)
      /\ \A i \in 1..Len(f) : c[i] = f[i]
      /\ \A i \in 1..Len(h) : c[Len(f) + i] = h[i]
  <2>1. /\ Cat(f, h) \in Seq(T) /\ Len(Cat(f, h)) = Len(f) + Len(h)
        /\ \A i \in 1..Len(f) : Cat(f, h)[i] = f[i]
        /\ \A i \in 1..Len(h) : Cat(f, h)[Len(f) + i] = h[i]
    <3>1. f \in Seq(T) /\ h \in Seq(T)
      BY <1>2
    <3> QED
      BY <3>1 DEF Cat
  <2> QED
    BY <1>1, <2>1
<1>4. Len(c) = Len(q)
  BY <1>2, <1>3
<1>5. ASSUME NEW i \in 1..Len(q) PROVE c[i] = q[i]
  <2>1. CASE i <= n
    BY <1>2, <1>3, <2>1
  <2>2. CASE i > n
    <3>1. PICK j \in 1..(Len(q) - n) : i = n + j
      <4>1. i - n \in 1..(Len(q) - n) /\ i = n + (i - n)
        BY <2>2
      <4> QED
        BY <4>1
    <3>2. c[n + j] = h[j] /\ h[j] = q[n + j]
      BY <1>2, <1>3, <3>1
    <3> QED
      BY <3>1, <3>2
  <2> QED
    BY <2>1, <2>2
<1>6. c = q
  BY <1>3, <1>4, <1>5
<1> QED
  BY <1>1, <1>6

\* What the arithmetic needs to know of a segment.
LEMMA SegFacts ==
  ASSUME NEW x, NEW w \in Nat, Proper(x, w)
  PROVE  /\ x \in SegType /\ x.seq \in Nat /\ x.len \in Nat /\ x.fin \in BOOLEAN
         /\ EndSeq(x) \in Nat /\ x.seq < EndSeq(x) /\ x.seq + x.len <= EndSeq(x)
         /\ EndSeq(x) <= x.seq + x.len + 1 /\ x.len <= MssLocal
         /\ x.fin => EndSeq(x) = w + 1 /\ EndSeq(x) = x.seq + x.len + 1
         /\ ~x.fin => EndSeq(x) # w + 1 /\ EndSeq(x) = x.seq + x.len
  BY DEF Proper, SegType, EndSeq, TcpLen

LEMMA LineFacts ==
  ASSUME NEW s, NEW a, NEW b, NEW w \in Nat, Line(s, a, b, w)
  PROVE  /\ s \in Seq(SegType) /\ Len(s) \in Nat /\ (s = <<>> <=> Len(s) = 0)
         /\ \A i \in 1..Len(s) : /\ s[i] \in SegType /\ s[i].seq \in Nat /\ EndSeq(s[i]) \in Nat
                                 /\ s[i].seq < EndSeq(s[i]) /\ Proper(s[i], w)
                                 /\ a <= s[i].seq /\ EndSeq(s[i]) <= b
  BY SegFacts DEF Line

LEMMA LineOne ==
  ASSUME NEW x, NEW w \in Nat, Proper(x, w)
  PROVE  Line(<<x>>, x.seq, EndSeq(x), w)
<1>1. x.seq \in Nat /\ EndSeq(x) \in Nat /\ x.seq < EndSeq(x) /\ x \in SegType
  BY SegFacts
<1>2. <<x>> \in Seq(SegType) /\ Len(<<x>>) = 1 /\ <<x>>[1] = x
  BY <1>1
<1> QED
  BY <1>1, <1>2 DEF Line

LEMMA LineNone == ASSUME NEW a \in Nat, NEW w \in Nat PROVE Line(<<>>, a, a, w)
  BY DEF Line

LEMMA LineCat ==
  ASSUME NEW s, NEW t, NEW a \in Nat, NEW m \in Nat, NEW b \in Nat, NEW w \in Nat,
         Line(s, a, m, w), Line(t, m, b, w)
  PROVE  Line(Cat(s, t), a, b, w)
<1>1. PICK k \in Nat, l \in Nat : k = Len(s) /\ l = Len(t)
  BY LineFacts
<1>2. PICK c : c = Cat(s, t)
  OBVIOUS
<1>3. s \in Seq(SegType) /\ t \in Seq(SegType) /\ a <= m /\ m <= b
  BY DEF Line
<1>4. /\ c \in Seq(SegType) /\ Len(c) = k + l
      /\ \A i \in 1..k : c[i] = s[i]
      /\ \A i \in 1..l : c[k + i] = t[i]
  <2>1. /\ Cat(s, t) \in Seq(SegType) /\ Len(Cat(s, t)) = Len(s) + Len(t)
        /\ \A i \in 1..Len(s) : Cat(s, t)[i] = s[i]
        /\ \A i \in 1..Len(t) : Cat(s, t)[Len(s) + i] = t[i]
    <3>1. s \in Seq(SegType) /\ t \in Seq(SegType)
      BY <1>3
    <3> QED
      BY <3>1 DEF Cat
  <2> QED
    BY <1>1, <1>2, <2>1
<1>5. /\ \A i \in 1..k : /\ Proper(s[i], w) /\ a <= s[i].seq /\ EndSeq(s[i]) <= m
                         /\ s[i].seq \in Nat /\ EndSeq(s[i]) \in Nat
      /\ \A i \in 1..l : /\ Proper(t[i], w) /\ m <= t[i].seq /\ EndSeq(t[i]) <= b
                         /\ t[i].seq \in Nat /\ EndSeq(t[i]) \in Nat
  BY <1>1, LineFacts
<1>6. ASSUME NEW i \in 1..(k + l), i > k
      PROVE  i - k \in 1..l /\ c[i] = t[i - k]
  <2>1. PICK j \in 1..l : i = k + j
    <3>1. i - k \in 1..l /\ i = k + (i - k)
      BY <1>6
    <3> QED
      BY <3>1
  <2>2. i - k = j /\ c[k + j] = t[j]
    BY <1>4, <2>1
  <2> QED
    BY <2>1, <2>2
<1>7. \A i \in 1..(k + l) : Proper(c[i], w) /\ a <= c[i].seq /\ EndSeq(c[i]) <= b
  <2>1. ASSUME NEW i \in 1..(k + l)
        PROVE  Proper(c[i], w) /\ a <= c[i].seq /\ EndSeq(c[i]) <= b
    <3>1. CASE i <= k
      <4>1. i \in 1..k /\ c[i] = s[i]
        BY <1>4, <3>1
      <4> QED
        BY <1>3, <1>5, <4>1
    <3>2. CASE i > k
      <4>1. i - k \in 1..l /\ c[i] = t[i - k]
        BY <1>6, <3>2
      <4>2. PICK j \in 1..l : c[i] = t[j]
        BY <4>1
      <4> QED
        BY <1>3, <1>5, <4>2
    <3> QED
      BY <3>1, <3>2
  <2> QED
    BY <2>1
<1>8. ASSUME NEW i \in 1..(k + l), NEW j \in 1..(k + l), i < j
      PROVE  EndSeq(c[i]) <= c[j].seq
  <2>1. CASE j <= k
    <3>1. i \in 1..k /\ j \in 1..k /\ c[i] = s[i] /\ c[j] = s[j]
      BY <1>4, <1>8, <2>1
    <3> QED
      BY <1>1, <1>8, <3>1 DEF Line
  <2>2. CASE j > k /\ i <= k
    <3>1. i \in 1..k /\ c[i] = s[i]
      BY <1>4, <2>2
    <3>2. PICK h \in 1..l : c[j] = t[h]
      BY <1>6, <2>2
    <3> QED
      BY <1>5, <3>1, <3>2
  <2>3. CASE i > k
    <3>1. i - k \in 1..l /\ c[i] = t[i - k] /\ j - k \in 1..l /\ c[j] = t[j - k] /\ i - k < j - k
      BY <1>6, <1>8, <2>3
    <3>2. PICK g \in 1..l, h \in 1..l : c[i] = t[g] /\ c[j] = t[h] /\ g < h
      BY <3>1
    <3> QED
      BY <1>1, <3>2 DEF Line
  <2> QED
    BY <2>1, <2>2, <2>3
<1>9. ASSUME NEW i \in 1..(k + l), NEW j \in 1..(k + l), j = i + 1
      PROVE  c[j].seq = EndSeq(c[i])
  <2>1. CASE j <= k
    <3>1. i \in 1..k /\ j \in 1..k /\ c[i] = s[i] /\ c[j] = s[j]
      BY <1>4, <1>9, <2>1
    <3> QED
      BY <1>1, <1>9, <3>1 DEF Line
  <2>2. CASE j > k /\ i <= k
    <3>1. i = k /\ j = k + 1 /\ k \in 1..k /\ 1 \in 1..l /\ s # <<>> /\ t # <<>>
      BY <1>1, <1>9, <2>2
    <3>2. c[i] = s[k] /\ c[j] = t[1]
      BY <1>4, <3>1
    <3> QED
      BY <1>1, <3>1, <3>2 DEF Line
  <2>3. CASE i > k
    <3>1. i - k \in 1..l /\ c[i] = t[i - k] /\ j - k \in 1..l /\ c[j] = t[j - k] /\ j - k = (i - k) + 1
      BY <1>6, <1>9, <2>3
    <3>2. PICK g \in 1..l, h \in 1..l : c[i] = t[g] /\ c[j] = t[h] /\ h = g + 1
      BY <3>1
    <3> QED
      BY <1>1, <3>2 DEF Line
  <2> QED
    BY <2>1, <2>2, <2>3
<1>10. c = <<>> => a = b
  <2>1. ASSUME c = <<>> PROVE s = <<>> /\ t = <<>>
    BY <1>1, <1>3, <1>4, <2>1
  <2> QED
    BY <2>1 DEF Line
<1>11. ASSUME c # <<>> PROVE c[1].seq = a
  <2>1. CASE k > 0
    <3>1. s # <<>> /\ c[1] = s[1]
      BY <1>1, <1>4, <2>1
    <3> QED
      BY <3>1 DEF Line
  <2>2. CASE k = 0
    <3>0. Len(s) = 0 /\ Len(c) # 0
      BY <1>1, <1>4, <1>11, <2>2, NoneSeq
    <3>1. s = <<>> /\ l > 0
      BY <1>3, <1>4, <2>2, <3>0, NoneSeq
    <3>2. 1 \in 1..l /\ k + 1 = 1
      BY <2>2, <3>1
    <3>3. c[1] = t[1] /\ t # <<>>
      BY <1>1, <1>4, <3>1, <3>2
    <3> QED
      BY <3>1, <3>3 DEF Line
  <2> QED
    BY <2>1, <2>2
<1>12. ASSUME c # <<>> PROVE EndSeq(c[k + l]) = b
  <2>1. CASE l > 0
    <3>1. t # <<>> /\ c[k + l] = t[l]
      BY <1>1, <1>4, <2>1
    <3> QED
      BY <1>1, <3>1 DEF Line
  <2>2. CASE l = 0
    <3>3. Len(t) = 0 /\ Len(c) # 0
      BY <1>1, <1>4, <1>12, <2>2, NoneSeq
    <3>0. t = <<>> /\ k > 0
      BY <1>3, <1>4, <2>2, <3>3, NoneSeq
    <3>1. t = <<>> /\ s # <<>> /\ c[k] = s[k] /\ k + l = k
      BY <1>1, <1>4, <2>2, <3>0
    <3> QED
      BY <1>1, <3>1 DEF Line
  <2> QED
    BY <2>1, <2>2
<1>13. Line(c, a, b, w)
  BY <1>3, <1>4, <1>7, <1>8, <1>9, <1>10, <1>11, <1>12 DEF Line
<1> QED
  BY <1>2, <1>13

LEMMA LineSplit ==
  ASSUME NEW s, NEW a \in Nat, NEW b \in Nat, NEW w \in Nat, Line(s, a, b, w), NEW k \in 0..Len(s)
  PROVE  \E m \in Nat : /\ a <= m /\ m <= b
                        /\ Line(Upto(s, k), a, m, w) /\ Line(Behind(s, k), m, b, w)
<1>1. PICK l \in Nat : l = Len(s) /\ s \in Seq(SegType) /\ a <= b
  BY LineFacts DEF Line
<1>2. PICK f, h : f = Upto(s, k) /\ h = Behind(s, k)
  OBVIOUS
<1>3. /\ f \in Seq(SegType) /\ Len(f) = k /\ (\A i \in 1..k : f[i] = s[i])
      /\ h \in Seq(SegType) /\ Len(h) = l - k /\ (\A i \in 1..(l - k) : h[i] = s[k + i])
  BY <1>1, <1>2, PartsAt
<1>4. /\ \A i \in 1..l : /\ s[i].seq \in Nat /\ EndSeq(s[i]) \in Nat /\ s[i].seq < EndSeq(s[i])
                         /\ Proper(s[i], w) /\ a <= s[i].seq /\ EndSeq(s[i]) <= b
      /\ \A i, j \in 1..l : i < j => EndSeq(s[i]) <= s[j].seq
      /\ \A i, j \in 1..l : j = i + 1 => s[j].seq = EndSeq(s[i])
  BY <1>1, LineFacts DEF Line
<1>5. s # <<>> => s[1].seq = a /\ EndSeq(s[l]) = b
  BY <1>1 DEF Line
<1>6. s = <<>> => a = b
  BY DEF Line
<1>7. CASE k = l
  <2>1. Line(f, a, b, w)
    <3>1. f = <<>> <=> s = <<>>
      BY <1>1, <1>3, <1>7, NoneSeq
    <3>2. f # <<>> => f[1] = s[1] /\ f[k] = s[k]
      <4>1. ASSUME f # <<>> PROVE 1 \in 1..k /\ k \in 1..k
        <5>1. Len(f) # 0
          BY <1>3, <4>1, NoneSeq
        <5> QED
          BY <1>1, <1>3, <1>7, <5>1
      <4> QED
        BY <1>3, <4>1
    <3> QED
      BY <1>1, <1>3, <1>4, <1>5, <1>6, <1>7, <3>1, <3>2 DEF Line
  <2>2. h = <<>>
    <3>1. Len(h) = 0
      BY <1>1, <1>3, <1>7
    <3> QED
      BY <1>3, <3>1, NoneSeq
  <2>3. Line(h, b, b, w)
    BY <2>2, LineNone
  <2> QED
    BY <1>1, <1>2, <2>1, <2>3
<1>8. CASE k < l
  <2>1. k + 1 \in 1..l
    BY <1>1, <1>8
  <2>2. PICK m \in Nat : s[k + 1].seq = m
    BY <1>4, <2>1
  <2>3. a <= m /\ m <= b
    BY <1>4, <2>1, <2>2
  <2>4. \A i \in 1..k : i \in 1..l /\ EndSeq(s[i]) <= m
    BY <1>1, <1>4, <1>8, <2>1, <2>2
  <2>5. k # 0 => EndSeq(s[k]) = m /\ s[1].seq = a
    <3>1. ASSUME k # 0 PROVE k \in 1..l /\ s # <<>>
      BY <1>1, <1>8, <3>1
    <3> QED
      BY <1>4, <1>5, <2>1, <2>2, <3>1
  <2>6. k = 0 => m = a
    <3>1. s # <<>>
      BY <1>1, <1>8
    <3> QED
      BY <1>5, <2>2, <3>1
  <2>7. Line(f, a, m, w)
    <3>1. f = <<>> <=> k = 0
      BY <1>3, NoneSeq
    <3>2. k # 0 => f[1] = s[1] /\ f[k] = s[k]
      BY <1>3
    <3> QED
      BY <1>1, <1>3, <1>4, <2>3, <2>4, <2>5, <2>6, <3>1, <3>2 DEF Line
  <2>8. Line(h, m, b, w)
    <3>1. \A i \in 1..(l - k) : k + i \in 1..l /\ h[i] = s[k + i]
      BY <1>1, <1>3, <1>8
    <3>2. \A i \in 1..(l - k) : Proper(h[i], w) /\ m <= h[i].seq /\ EndSeq(h[i]) <= b
      <4>1. ASSUME NEW i \in 1..(l - k) PROVE Proper(h[i], w) /\ m <= h[i].seq /\ EndSeq(h[i]) <= b
        <5>1. PICK j \in 1..l : j = k + i /\ h[i] = s[j] /\ (k + 1 = j \/ k + 1 < j)
          BY <1>1, <1>8, <3>1
        <5>2. Proper(s[j], w) /\ EndSeq(s[j]) <= b /\ s[j].seq \in Nat
          BY <1>4
        <5>3. CASE k + 1 = j
          BY <2>2, <5>1, <5>2, <5>3
        <5>4. CASE k + 1 < j
          <6>1. EndSeq(s[k + 1]) <= s[j].seq /\ s[k + 1].seq < EndSeq(s[k + 1]) /\ EndSeq(s[k + 1]) \in Nat
            BY <1>4, <2>1, <5>4
          <6> QED
            BY <2>2, <5>1, <5>2, <6>1
        <5> QED
          BY <5>1, <5>3, <5>4
      <4> QED
        BY <4>1
    <3>3. \A i, j \in 1..(l - k) : i < j => EndSeq(h[i]) <= h[j].seq
      <4>1. ASSUME NEW i \in 1..(l - k), NEW j \in 1..(l - k), i < j PROVE EndSeq(h[i]) <= h[j].seq
        <5>1. k + i \in 1..l /\ k + j \in 1..l /\ k + i < k + j
          BY <1>1, <1>8, <4>1
        <5> QED
          BY <1>4, <3>1, <5>1
      <4> QED
        BY <4>1
    <3>4. \A i, j \in 1..(l - k) : j = i + 1 => h[j].seq = EndSeq(h[i])
      <4>1. ASSUME NEW i \in 1..(l - k), NEW j \in 1..(l - k), j = i + 1 PROVE h[j].seq = EndSeq(h[i])
        <5>1. PICK c \in 1..l, d \in 1..l : c = k + i /\ d = k + j /\ d = c + 1
          <6>1. k + i \in 1..l /\ k + j \in 1..l /\ k + j = (k + i) + 1
            BY <1>1, <1>8, <4>1
          <6> QED
            BY <6>1
        <5>2. h[i] = s[c] /\ h[j] = s[d]
          BY <3>1, <4>1, <5>1
        <5>3. s[d].seq = EndSeq(s[c])
          BY <1>4, <5>1
        <5> QED
          BY <5>2, <5>3
      <4> QED
        BY <4>1
    <3>5. h # <<>> /\ h[1] = s[k + 1] /\ h[l - k] = s[l] /\ s # <<>>
      <4>1. 1 \in 1..(l - k) /\ l - k \in 1..(l - k) /\ k + (l - k) = l /\ Len(h) # 0
        BY <1>1, <1>3, <1>8
      <4>2. h[l - k] = s[k + (l - k)]
        BY <3>1, <4>1
      <4> QED
        BY <1>1, <1>3, <1>8, <4>1, <4>2
    <3>6. h[1].seq = m /\ EndSeq(h[Len(h)]) = b
      BY <1>3, <1>5, <2>2, <3>5
    <3>7. Len(h) = l - k /\ h \in Seq(SegType)
      BY <1>3
    <3> HIDE <1>3
    <3> QED
      BY <2>3, <3>2, <3>3, <3>4, <3>5, <3>6, <3>7 DEF Line
  <2> QED
    BY <1>2, <2>3, <2>7, <2>8
<1> QED
  BY <1>1, <1>7, <1>8

\* A line that ends before the FIN is one of a longer stream as well.
LEMMA LineLater ==
  ASSUME NEW s, NEW a \in Nat, NEW b \in Nat, NEW w \in Nat, NEW v \in Nat,
         Line(s, a, b, w), b <= w, w <= v
  PROVE  Line(s, a, b, v)
<1>1. ASSUME NEW i \in 1..Len(s) PROVE Proper(s[i], v)
  <2>1. Proper(s[i], w) /\ EndSeq(s[i]) <= b /\ EndSeq(s[i]) \in Nat
    BY LineFacts
  <2>2. EndSeq(s[i]) # w + 1 /\ EndSeq(s[i]) # v + 1
    BY <2>1
  <2> QED
    BY <2>1, <2>2 DEF Proper
<1> QED
  BY <1>1 DEF Line

\* A line begins with its first segment, which ends before the others do.
LEMMA LineFirst ==
  ASSUME NEW s, NEW a \in Nat, NEW b \in Nat, NEW w \in Nat, Line(s, a, b, w), s # <<>>
  PROVE  /\ Proper(s[1], w) /\ s[1].seq = a /\ a < EndSeq(s[1]) /\ EndSeq(s[1]) <= b
         /\ \A i \in 1..Len(s) : EndSeq(s[1]) <= EndSeq(s[i])
<1>1. Len(s) \in Nat /\ Len(s) # 0
  BY LineFacts
<1>2. 1 \in 1..Len(s) /\ s[1].seq = a
  BY <1>1 DEF Line
<1>3. \A i \in 1..Len(s) : s[i].seq \in Nat /\ EndSeq(s[i]) \in Nat /\ s[i].seq < EndSeq(s[i])
                           /\ Proper(s[i], w) /\ EndSeq(s[i]) <= b
  BY LineFacts
<1>4. \A i \in 1..Len(s) : i = 1 \/ EndSeq(s[1]) <= s[i].seq
  BY <1>1, <1>2 DEF Line
<1>5. ASSUME NEW i \in 1..Len(s) PROVE EndSeq(s[1]) <= EndSeq(s[i])
  <2>1. PICK f \in Nat, x \in Nat, y \in Nat : f = EndSeq(s[1]) /\ x = s[i].seq /\ y = EndSeq(s[i]) /\ x < y
    BY <1>2, <1>3
  <2>2. f = y \/ f <= x
    BY <1>4, <2>1
  <2>3. f <= y
    BY <2>1, <2>2
  <2> QED
    BY <2>1, <2>3
<1>6. Proper(s[1], w) /\ s[1].seq < EndSeq(s[1]) /\ EndSeq(s[1]) <= b
  BY <1>2, <1>3
<1> QED
  BY <1>2, <1>5, <1>6

-----------------------------------------------------------------------------
(* tcp_output *)

\* The pcb after some segments have left.
Left(p, q, k) == [p EXCEPT !.rtime = TRUE, !.unacked = q, !.snd_nxt = k]

LEMMA LeftFacts ==
  ASSUME NEW p \in PcbType, NEW q, NEW k
  PROVE  /\ Left(p, q, k).unacked = q /\ Left(p, q, k).snd_nxt = k /\ Left(p, q, k).unsent = p.unsent
         /\ \A r, l : Left(Left(p, q, k), r, l) = Left(p, r, l)
  BY DEF Left, PcbType

LEMMA SegmentLeaves ==
  ASSUME NEW p, NEW seg, NEW q, NEW k, NEW r, NEW l, p.unacked = q, p.snd_nxt = k,
         r = Requeue(q, seg), l = IF k < EndSeq(seg) THEN EndSeq(seg) ELSE k
  PROVE  tcp_output_segment(p, seg) = Left(p, r, l)
  BY DEF tcp_output_segment, Left

\* The loop of tcp_output: B and N are what unacked and snd_nxt are after each
\* of the first n segments.
Steps(p, n, B, N) ==
  /\ B[0] = p.unacked /\ N[0] = p.snd_nxt
  /\ \A i \in 1..n : B[i] = Requeue(B[i - 1], p.unsent[i])
  /\ \A i \in 1..n : N[i] = IF N[i - 1] < EndSeq(p.unsent[i]) THEN EndSeq(p.unsent[i]) ELSE N[i - 1]

LEMMA SendFirstIs ==
  ASSUME NEW p \in PcbType, NEW n \in Nat, NEW B, NEW N, Steps(p, n, B, N)
  PROVE  SendFirst(p, n) = [(IF n = 0 THEN p ELSE Left(p, B[n], N[n])) EXCEPT !.unsent = Behind(p.unsent, n)]
<1> DEFINE Step(q, i) == tcp_output_segment(q, p.unsent[i])
           h == [i \in 0..n |-> IF i = 0 THEN p ELSE Left(p, B[i], N[i])]
<1>1. ASSUME NEW i \in 1..n PROVE h[i] = Step(h[i - 1], i)
  <2>1. i \in 0..n /\ i - 1 \in 0..n /\ i # 0
    OBVIOUS
  <2>2. h[i] = Left(p, B[i], N[i])
    BY <2>1
  <2>3. PICK q : q = h[i - 1]
    OBVIOUS
  <2>4. PICK c, k : c = B[i - 1] /\ k = N[i - 1]
    OBVIOUS
  <2>5. q.unacked = c /\ q.snd_nxt = k /\ Left(q, B[i], N[i]) = Left(p, B[i], N[i])
    <3>1. CASE i = 1
      <4>1. q = p /\ c = p.unacked /\ k = p.snd_nxt
        BY <2>1, <2>3, <2>4, <3>1 DEF Steps
      <4> QED
        BY <4>1
    <3>2. CASE i # 1
      <4>1. q = Left(p, c, k)
        BY <2>1, <2>3, <2>4, <3>2
      <4> HIDE DEF h
      <4> QED
        BY <4>1, LeftFacts
    <3> QED
      BY <3>1, <3>2
  <2>6. B[i] = Requeue(c, p.unsent[i]) /\ N[i] = IF k < EndSeq(p.unsent[i]) THEN EndSeq(p.unsent[i]) ELSE k
    BY <2>4 DEF Steps
  <2>7. tcp_output_segment(q, p.unsent[i]) = Left(q, B[i], N[i])
    <3> HIDE DEF h
    <3> QED
      BY <2>5, <2>6, SegmentLeaves
  <2> QED
    BY <2>2, <2>3, <2>5, <2>7
<1>2. h[0] = p
  OBVIOUS
<1>3. h[n] = IF n = 0 THEN p ELSE Left(p, B[n], N[n])
  OBVIOUS
<1>4. h = [i \in 0..n |-> IF i = 0 THEN p ELSE Step(h[i - 1], i)]
  <2>1. ASSUME NEW i \in 0..n PROVE h[i] = IF i = 0 THEN p ELSE Step(h[i - 1], i)
    <3>1. CASE i = 0
      BY <1>2, <3>1
    <3>2. CASE i # 0
      <4>1. i \in 1..n
        BY <3>2
      <4> HIDE DEF h, Step
      <4> QED
        BY <1>1, <3>2, <4>1
    <3> QED
      BY <3>1, <3>2
  <2>2. h = [i \in 0..n |-> h[i]]
    OBVIOUS
  <2> HIDE DEF h, Step
  <2> QED
    BY <2>1, <2>2, Zenon
<1> HIDE DEF h
<1>5. PICK c : /\ c = [i \in 0..n |-> IF i = 0 THEN p ELSE tcp_output_segment(c[i - 1], p.unsent[i])]
               /\ SendFirst(p, n) = [c[n] EXCEPT !.unsent = SubSeq(@, n + 1, Len(@))]
  BY <1>4 DEF SendFirst
<1>6. c[0] = p /\ \A i \in 1..n : c[i] = Step(c[i - 1], i)
  BY <1>5
<1> HIDE DEF Step
<1>7. c[n] = h[n]
  <2> DEFINE bad == {i \in 0..n : c[i] # h[i]}
  <2>1. bad \subseteq Nat
    OBVIOUS
  <2>2. CASE bad = {}
    BY <2>2
  <2>3. CASE bad # {}
    <3>1. PICK i \in bad : \A j \in bad : i <= j
      <4> HIDE DEF bad
      <4> QED
        BY <2>1, <2>3, NatMin
    <3>2. i \in 0..n /\ c[i] # h[i]
      OBVIOUS
    <3>3. i # 0
      BY <1>2, <1>6, <3>2
    <3>4. i \in 1..n /\ i - 1 \in 0..n /\ ~(i <= i - 1)
      BY <3>2, <3>3
    <3>5. i - 1 \notin bad
      BY <3>1, <3>4
    <3>6. c[i - 1] = h[i - 1]
      BY <3>4, <3>5
    <3> QED
      BY <1>1, <1>6, <3>2, <3>4, <3>6
  <2> QED
    BY <2>2, <2>3
<1>8. c[n].unsent = p.unsent
  BY <1>3, <1>7, LeftFacts
<1>9. SendFirst(p, n) = [c[n] EXCEPT !.unsent = Behind(p.unsent, n)]
  BY <1>5, <1>8 DEF Behind
<1> QED
  BY <1>3, <1>7, <1>9

Higher(a, b) == IF a < b THEN b ELSE a

LEMMA HigherStep ==
  ASSUME NEW x \in Nat, NEW e \in Nat, NEW f \in Nat, e < f
  PROVE  Higher(x, f) = IF Higher(x, e) < f THEN f ELSE Higher(x, e)
  BY DEF Higher

LEMMA CatUpto ==
  ASSUME NEW T, NEW q \in Seq(T), NEW r \in Seq(T), NEW i \in 1..Len(r)
  PROVE  Append(Cat(q, Upto(r, i - 1)), r[i]) = Cat(q, Upto(r, i))
<1>1. PICK f, h : f = Upto(r, i - 1) /\ h = Upto(r, i)
  OBVIOUS
<1>2. i - 1 \in 0..Len(r) /\ i \in 0..Len(r)
  OBVIOUS
<1>3. /\ f \in Seq(T) /\ Len(f) = i - 1 /\ (\A j \in 1..(i - 1) : f[j] = r[j])
      /\ h \in Seq(T) /\ Len(h) = i /\ (\A j \in 1..i : h[j] = r[j])
  BY <1>1, <1>2, PartsAt
<1>4. h = Append(f, r[i])
  <2>1. Append(f, r[i]) \in Seq(T) /\ Len(Append(f, r[i])) = i
    BY <1>3
  <2>2. ASSUME NEW j \in 1..i PROVE h[j] = Append(f, r[i])[j]
    <3>1. CASE j = i
      BY <1>3, <3>1
    <3>2. CASE j # i
      <4>1. j \in 1..(i - 1) /\ f \in Seq(T) /\ Len(f) = i - 1
        BY <1>3, <3>2
      <4>2. Append(f, r[i])[j] = f[j]
        BY <4>1
      <4> QED
        BY <1>3, <4>1, <4>2
    <3> QED
      BY <3>1, <3>2
  <2> QED
    BY <1>3, <2>1, <2>2
<1>5. q \o Append(f, r[i]) = Append(q \o f, r[i])
  BY <1>3
<1> QED
  BY <1>1, <1>4, <1>5 DEF Cat

LEMMA CatNone ==
  ASSUME NEW T, NEW q \in Seq(T), NEW r
  PROVE  Cat(q, Upto(r, 0)) = q
<1>1. Upto(r, 0) = <<>>
  BY DEF Upto
<1> QED
  BY <1>1 DEF Cat

\* Segments that follow on unacked go to its tail.
LEMMA RequeueBehind ==
  ASSUME NEW s, NEW t, NEW a \in Nat, NEW m \in Nat, NEW b \in Nat, NEW w \in Nat,
         Line(s, a, m, w), Line(t, m, b, w), NEW i \in 1..Len(t)
  PROVE  Requeue(Cat(s, Upto(t, i - 1)), t[i]) = Cat(s, Upto(t, i))
<1>1. s \in Seq(SegType) /\ t \in Seq(SegType) /\ Len(t) \in Nat
  BY LineFacts
<1>2. PICK f, c, x : f = Upto(t, i - 1) /\ c = Cat(s, f) /\ t[i] = x
  OBVIOUS
<1>3. i - 1 \in 0..Len(t)
  BY <1>1
<1>4. f \in Seq(SegType) /\ Len(f) = i - 1 /\ \A j \in 1..(i - 1) : f[j] = t[j]
  BY <1>1, <1>2, <1>3, PartsAt
<1>5. CASE c = <<>>
  <2>1. Requeue(c, x) = Append(c, x)
    BY <1>5 DEF Requeue
  <2> QED
    BY <1>1, <1>2, <2>1, CatUpto
<1>6. CASE c # <<>>
  <2>1. PICK y \in Nat : Line(f, m, y, w) /\ y <= x.seq
    <3>1. PICK y \in Nat : m <= y /\ Line(Upto(t, i - 1), m, y, w) /\ Line(Behind(t, i - 1), y, b, w)
      BY <1>3, LineSplit
    <3>2. Len(Behind(t, i - 1)) = Len(t) - (i - 1) /\ \A j \in 1..(Len(t) - (i - 1)) : Behind(t, i - 1)[j] = t[(i - 1) + j]
      BY <1>1, <1>3, PartsAt, ZenonT(40)
    <3>3. 1 \in 1..(Len(t) - (i - 1)) /\ (i - 1) + 1 = i
      BY <1>1
    <3>4. Behind(t, i - 1)[1] = x
      BY <1>2, <3>2, <3>3
    <3>5. PICK g : g = Behind(t, i - 1)
      OBVIOUS
    <3>6. 1 \in 1..Len(g)
      BY <3>2, <3>3, <3>5
    <3>7. y <= g[1].seq
      BY <3>1, <3>5, <3>6, LineFacts
    <3> QED
      BY <1>2, <3>1, <3>4, <3>5, <3>7
  <2>2. Line(c, a, y, w)
    BY <1>2, <2>1, LineCat
  <2>3. Len(c) \in 1..Len(c)
    <3>1. c \in Seq(SegType) /\ Len(c) \in Nat /\ Len(c) # 0
      BY <1>6, <2>2, LineFacts
    <3> QED
      BY <3>1
  <2>4. /\ c[Len(c)].seq \in Nat /\ EndSeq(c[Len(c)]) \in Nat /\ c[Len(c)].seq < EndSeq(c[Len(c)])
        /\ EndSeq(c[Len(c)]) <= y
    BY <2>2, <2>3, LineFacts
  <2>5. x.seq \in Nat
    BY <1>2, LineFacts
  <2>6. x.seq >= c[Len(c)].seq
    BY <2>1, <2>4, <2>5
  <2>7. Requeue(c, x) = Append(c, x)
    BY <2>6 DEF Requeue
  <2> QED
    BY <1>1, <1>2, <2>7, CatUpto
<1> QED
  BY <1>5, <1>6

\* tcp_output moves a prefix of unsent to the end of unacked.
LEMMA SendLine ==
  ASSUME NEW p \in PcbType, NEW a \in Nat, NEW m \in Nat, NEW b \in Nat, NEW w \in Nat,
         Line(p.unacked, a, m, w), Line(p.unsent, m, b, w), NEW n \in 0..Len(p.unsent)
  PROVE  SendFirst(p, n) =
           [(IF n = 0 THEN p
             ELSE Left(p, Cat(p.unacked, Upto(p.unsent, n)), Higher(p.snd_nxt, EndSeq(p.unsent[n]))))
            EXCEPT !.unsent = Behind(p.unsent, n)]
<1>1. PICK A, U, x : A = p.unacked /\ U = p.unsent /\ x = p.snd_nxt
  OBVIOUS
<1>2. A \in Seq(SegType) /\ U \in Seq(SegType) /\ x \in Nat /\ Len(U) \in Nat /\ n \in Nat /\ n <= Len(U)
  BY <1>1, LineFacts DEF PcbType
<1> DEFINE B == [i \in 0..n |-> Cat(A, Upto(U, i))]
           N == [i \in 0..n |-> IF i = 0 THEN x ELSE Higher(x, EndSeq(U[i]))]
<1>3. B[0] = p.unacked /\ N[0] = p.snd_nxt
  <2>1. B[0] = Cat(A, Upto(U, 0)) /\ N[0] = x
    BY <1>2
  <2> QED
    BY <1>1, <1>2, <2>1, CatNone
<1>4. ASSUME NEW i \in 1..n PROVE B[i] = Requeue(B[i - 1], p.unsent[i])
  <2>1. i \in 1..Len(U) /\ B[i] = Cat(A, Upto(U, i)) /\ B[i - 1] = Cat(A, Upto(U, i - 1))
    BY <1>2
  <2>2. Line(A, a, m, w) /\ Line(U, m, b, w)
    BY <1>1
  <2>3. Requeue(Cat(A, Upto(U, i - 1)), U[i]) = Cat(A, Upto(U, i))
    BY <2>1, <2>2, RequeueBehind
  <2> QED
    BY <1>1, <2>1, <2>3
<1>5. ASSUME NEW i \in 1..n
      PROVE  N[i] = IF N[i - 1] < EndSeq(p.unsent[i]) THEN EndSeq(p.unsent[i]) ELSE N[i - 1]
  <2>1. i \in 1..Len(U) /\ N[i] = Higher(x, EndSeq(U[i])) /\ EndSeq(U[i]) \in Nat
    <3>1. i \in 1..Len(U) /\ i \in 0..n /\ i # 0
      BY <1>2
    <3>2. Line(U, m, b, w)
      BY <1>1
    <3>3. EndSeq(U[i]) \in Nat
      BY <3>1, <3>2, LineFacts
    <3> QED
      BY <3>1, <3>3
  <2>2. CASE i = 1
    <3>1. N[i - 1] = x
      BY <1>2, <2>2
    <3> QED
      BY <1>1, <2>1, <3>1 DEF Higher
  <2>3. CASE i # 1
    <3>1. PICK j \in 1..Len(U) : j = i - 1 /\ j < i /\ j # 0 /\ j \in 0..n
      <4>1. i - 1 \in 1..Len(U) /\ i - 1 < i /\ i - 1 # 0 /\ i - 1 \in 0..n
        BY <1>2, <2>1, <2>3
      <4> QED
        BY <4>1
    <3>2. N[i - 1] = Higher(x, EndSeq(U[j]))
      BY <3>1
    <3>3. EndSeq(U[j]) \in Nat /\ U[i].seq \in Nat /\ EndSeq(U[j]) <= U[i].seq /\ U[i].seq < EndSeq(U[i])
      <4>1. Line(U, m, b, w) /\ i \in 1..Len(U)
        BY <1>1, <2>1
      <4>2. EndSeq(U[j]) \in Nat /\ U[i].seq \in Nat /\ U[i].seq < EndSeq(U[i])
        BY <3>1, <4>1, LineFacts
      <4>3. EndSeq(U[j]) <= U[i].seq
        BY <3>1, <4>1 DEF Line
      <4> QED
        BY <4>2, <4>3
    <3>4. PICK e \in Nat, f \in Nat : e = EndSeq(U[j]) /\ f = EndSeq(U[i]) /\ e < f
      BY <2>1, <3>3
    <3>5. x \in Nat /\ N[i - 1] = Higher(x, e) /\ N[i] = Higher(x, f) /\ f = EndSeq(p.unsent[i])
      BY <1>1, <1>2, <2>1, <3>2, <3>4
    <3>6. Higher(x, f) = IF Higher(x, e) < f THEN f ELSE Higher(x, e)
      BY <3>4, <3>5, HigherStep
    <3> QED
      BY <3>5, <3>6
  <2> QED
    BY <2>2, <2>3
<1>6. n # 0 => B[n] = Cat(A, Upto(U, n)) /\ N[n] = Higher(x, EndSeq(U[n]))
  BY <1>2
<1> HIDE DEF B, N
<1>7. SendFirst(p, n) = [(IF n = 0 THEN p ELSE Left(p, B[n], N[n])) EXCEPT !.unsent = Behind(p.unsent, n)]
  <2>1. Steps(p, n, B, N)
    BY <1>3, <1>4, <1>5 DEF Steps
  <2> QED
    BY <1>2, <2>1, SendFirstIs
<1> QED
  BY <1>1, <1>6, <1>7, Zenon

\* The first of unacked s, which was sent, is at the head of unsent t.
MovedBack(p, s, t) ==
  /\ s # <<>> /\ \A i \in 1..Len(s) : EndSeq(s[i]) <= p.snd_nxt
  /\ p.unacked = Tail(s) /\ p.unsent = Cat(<<s[1]>>, t)

\* The same with a segment that was moved back.
LEMMA SendAgain ==
  ASSUME NEW p \in PcbType, NEW s, NEW t, NEW a \in Nat, NEW m \in Nat, NEW b \in Nat, NEW w \in Nat,
         Line(s, a, m, w), Line(t, m, b, w), MovedBack(p, s, t), NEW n \in 0..Len(t)
  PROVE  SendFirst(p, n + 1) =
           [Left(p, Cat(s, Upto(t, n)),
                 IF n = 0 THEN p.snd_nxt ELSE Higher(p.snd_nxt, EndSeq(t[n])))
            EXCEPT !.unsent = Behind(t, n)]
<1>0. /\ s # <<>> /\ \A i \in 1..Len(s) : EndSeq(s[i]) <= p.snd_nxt
      /\ p.unacked = Tail(s) /\ p.unsent = Cat(<<s[1]>>, t)
  BY DEF MovedBack
<1>1. PICK U, x, y : Cat(<<s[1]>>, t) = U /\ p.snd_nxt = x /\ s[1] = y
  OBVIOUS
<1>2. s \in Seq(SegType) /\ t \in Seq(SegType) /\ x \in Nat /\ Len(t) \in Nat /\ n \in Nat /\ n <= Len(t)
  BY <1>1, LineFacts DEF PcbType
<1>3. 1 \in 1..Len(s) /\ y \in SegType /\ y.seq \in Nat /\ EndSeq(y) \in Nat /\ EndSeq(y) <= x
  <2>1. 1 \in 1..Len(s)
    BY <1>0, <1>2
  <2> QED
    BY <1>0, <1>1, <2>1, LineFacts
<1>4. /\ U \in Seq(SegType) /\ Len(U) = Len(t) + 1 /\ U[1] = y
      /\ \A i \in 1..Len(t) : U[i + 1] = t[i]
  <2>1. U = <<y>> \o t
    BY <1>1 DEF Cat
  <2>2. <<y>> \in Seq(SegType) /\ Len(<<y>>) = 1 /\ <<y>>[1] = y
    BY <1>3
  <2> QED
    BY <1>2, <2>1, <2>2
<1>5. Behind(U, n + 1) = Behind(t, n)
  <2>1. PICK f, h : f = Behind(U, n + 1) /\ h = Behind(t, n)
    OBVIOUS
  <2>2. n + 1 \in 0..Len(U) /\ n \in 0..Len(t)
    BY <1>2, <1>4
  <2>3. /\ f \in Seq(SegType) /\ Len(f) = Len(U) - (n + 1)
        /\ \A i \in 1..(Len(U) - (n + 1)) : f[i] = U[(n + 1) + i]
        /\ h \in Seq(SegType) /\ Len(h) = Len(t) - n /\ \A i \in 1..(Len(t) - n) : h[i] = t[n + i]
    BY <1>2, <1>4, <2>1, <2>2, PartsAt
  <2>4. Len(f) = Len(h) /\ Len(U) - (n + 1) = Len(t) - n
    BY <1>2, <1>4, <2>3
  <2>5. ASSUME NEW i \in 1..Len(h) PROVE f[i] = h[i]
    <3>1. n + i \in 1..Len(t) /\ (n + 1) + i = (n + i) + 1
      BY <1>2, <2>3
    <3>2. f[i] = U[(n + i) + 1] /\ h[i] = t[n + i]
      BY <2>3, <2>4, <3>1
    <3> QED
      BY <1>4, <3>1, <3>2
  <2>6. f = h
    <3>1. f \in Seq(SegType) /\ h \in Seq(SegType)
      BY <2>3
    <3> QED
      BY <2>4, <2>5, <3>1, SameSeq
  <2> QED
    BY <2>1, <2>6
<1>6. Requeue(Tail(s), y) = s
  <2>1. Tail(s) \in Seq(SegType) /\ Len(Tail(s)) = Len(s) - 1 /\ \A i \in 1..(Len(s) - 1) : Tail(s)[i] = s[i + 1]
    BY <1>2, <1>3
  <2>2. <<y>> \o Tail(s) = s
    BY <1>1, <1>2, <1>3
  <2>3. CASE Tail(s) = <<>>
    <3>1. Requeue(Tail(s), y) = Append(Tail(s), y)
      BY <2>3 DEF Requeue
    <3>2. Append(<<>>, y) = <<y>> /\ <<y>> \o <<>> = <<y>>
      BY <1>3
    <3> QED
      BY <2>2, <2>3, <3>1, <3>2
  <2>4. CASE Tail(s) # <<>>
    <3>1. PICK l \in 1..Len(s) : l = Len(s) /\ l > 1 /\ 2 \in 1..Len(s)
      <4>0. PICK r : r = Tail(s) /\ r \in Seq(SegType) /\ r # <<>>
        BY <2>1, <2>4
      <4>1. Len(Tail(s)) # 0 /\ Len(s) \in Nat
        <5>1. Len(r) # 0
          BY <4>0, NoneSeq
        <5> QED
          BY <1>2, <4>0, <5>1
      <4>2. Len(s) > 1
        BY <1>3, <2>1, <4>1
      <4> QED
        BY <4>1, <4>2
    <3>2. Tail(s)[Len(Tail(s))] = s[l] /\ Tail(s)[1] = s[2]
      BY <1>2, <2>1, <3>1
    <3>3. s[l].seq \in Nat /\ s[2].seq \in Nat /\ EndSeq(y) <= s[l].seq /\ EndSeq(y) <= s[2].seq /\ y.seq < EndSeq(y)
      <4>1. \A i \in 1..Len(s) : s[i].seq \in Nat /\ s[i].seq < EndSeq(s[i])
        BY LineFacts
      <4>2. \A i, j \in 1..Len(s) : i < j => EndSeq(s[i]) <= s[j].seq
        BY DEF Line
      <4>3. EndSeq(s[1]) <= s[l].seq
        BY <1>3, <3>1, <4>2
      <4>4. EndSeq(s[1]) <= s[2].seq
        BY <1>3, <3>1, <4>2
      <4> QED
        BY <1>1, <1>3, <3>1, <4>1, <4>3, <4>4
    <3>4. ~(y.seq >= s[l].seq) /\ ~(s[2].seq < y.seq)
      <4>1. PICK f \in Nat, g \in Nat, h \in Nat, e \in Nat :
              f = y.seq /\ g = s[l].seq /\ h = s[2].seq /\ e = EndSeq(y)
        BY <1>3, <3>3
      <4>2. e <= g /\ e <= h /\ f < e
        BY <3>3, <4>1
      <4>3. ~(f >= g) /\ ~(h < f)
        BY <4>2
      <4> QED
        BY <4>1, <4>3
    <3>5. Requeue(Tail(s), y) = Insert(Tail(s), y)
      BY <2>4, <3>2, <3>4 DEF Requeue
    <3>6. Insert(Tail(s), y) = <<y>> \o Tail(s)
      BY <1>3, <2>1, <3>2, <3>4, InsertFirst
    <3> QED
      BY <2>2, <3>5, <3>6
  <2> QED
    BY <2>3, <2>4
<1> DEFINE B == [i \in 0..(n + 1) |-> IF i = 0 THEN Tail(s) ELSE Cat(s, Upto(t, i - 1))]
           N == [i \in 0..(n + 1) |-> IF i < 2 THEN x ELSE Higher(x, EndSeq(t[i - 1]))]
<1>7. B[0] = p.unacked /\ N[0] = p.snd_nxt
  BY <1>0, <1>1, <1>2
<1>8. B[1] = s /\ N[1] = x
  <2>1. B[1] = Cat(s, Upto(t, 0)) /\ N[1] = x
    BY <1>2
  <2> QED
    BY <1>2, <2>1, CatNone
<1>9. ASSUME NEW i \in 1..(n + 1) PROVE B[i] = Requeue(B[i - 1], p.unsent[i])
  <2>1. CASE i = 1
    <3>1. B[i - 1] = Tail(s) /\ p.unsent[i] = y /\ B[i] = s
      BY <1>0, <1>1, <1>4, <1>7, <1>8, <2>1
    <3> QED
      BY <1>6, <3>1
  <2>2. CASE i # 1
    <3>1. PICK j \in 1..Len(t) : i = j + 1
      <4>1. i - 1 \in 1..Len(t) /\ i = (i - 1) + 1
        BY <1>2, <2>2
      <4> QED
        BY <4>1
    <3>2. B[i] = Cat(s, Upto(t, j)) /\ B[i - 1] = Cat(s, Upto(t, j - 1)) /\ p.unsent[i] = t[j]
      <4>1. i - 1 = j /\ i # 0 /\ j # 0 /\ j \in 0..(n + 1)
        BY <1>2, <3>1
      <4>2. B[i] = Cat(s, Upto(t, i - 1)) /\ B[j] = Cat(s, Upto(t, j - 1))
        BY <4>1
      <4> QED
        BY <1>0, <1>1, <1>4, <3>1, <4>1, <4>2
    <3>3. Requeue(Cat(s, Upto(t, j - 1)), t[j]) = Cat(s, Upto(t, j))
      BY RequeueBehind
    <3> QED
      BY <3>2, <3>3
  <2> QED
    BY <2>1, <2>2
<1>10. ASSUME NEW i \in 1..(n + 1)
      PROVE  N[i] = IF N[i - 1] < EndSeq(p.unsent[i]) THEN EndSeq(p.unsent[i]) ELSE N[i - 1]
  <2>1. CASE i = 1
    <3>1. p.unsent[i] = y /\ N[i] = x /\ N[i - 1] = x
      BY <1>0, <1>1, <1>4, <1>7, <1>8, <2>1
    <3>2. ~(x < EndSeq(y))
      BY <1>2, <1>3
    <3> QED
      BY <3>1, <3>2
  <2>2. CASE i # 1
    <3>1. PICK j \in 1..Len(t) : i = j + 1
      <4>1. i - 1 \in 1..Len(t) /\ i = (i - 1) + 1
        BY <1>2, <2>2
      <4> QED
        BY <4>1
    <3>2. p.unsent[i] = t[j] /\ EndSeq(t[j]) \in Nat
      BY <1>0, <1>1, <1>4, <3>1, LineFacts
    <3>3. N[i] = Higher(x, EndSeq(t[j]))
      <4>1. i - 1 = j /\ ~(i < 2) /\ i \in 0..(n + 1)
        BY <1>2, <3>1
      <4>2. N[i] = Higher(x, EndSeq(t[i - 1]))
        BY <4>1
      <4> QED
        BY <4>1, <4>2
    <3>4. CASE j = 1
      <4>1. i - 1 = 1
        BY <3>1, <3>4
      <4>2. N[i - 1] = x
        BY <1>8, <4>1
      <4> QED
        BY <1>2, <3>2, <3>3, <4>2 DEF Higher
    <3>5. CASE j # 1
      <4>1. PICK k \in 1..Len(t) : k = j - 1 /\ k < j /\ i - 1 = j /\ ~(j < 2) /\ j \in 0..(n + 1)
        <5>1. j - 1 \in 1..Len(t) /\ j - 1 < j /\ i - 1 = j /\ ~(j < 2) /\ j \in 0..(n + 1)
          BY <1>2, <3>1, <3>5
        <5> QED
          BY <5>1
      <4>2. N[j] = Higher(x, EndSeq(t[j - 1]))
        BY <4>1
      <4>3. N[i - 1] = Higher(x, EndSeq(t[k]))
        BY <4>1, <4>2
      <4>4. EndSeq(t[k]) \in Nat /\ t[j].seq \in Nat /\ EndSeq(t[k]) <= t[j].seq /\ t[j].seq < EndSeq(t[j])
        <5>1. EndSeq(t[k]) \in Nat /\ t[j].seq \in Nat /\ t[j].seq < EndSeq(t[j])
          BY <4>1, LineFacts
        <5>2. EndSeq(t[k]) <= t[j].seq
          BY <4>1 DEF Line
        <5> QED
          BY <5>1, <5>2
      <4>5. PICK e \in Nat, f \in Nat : e = EndSeq(t[k]) /\ f = EndSeq(t[j]) /\ e < f
        BY <3>2, <4>4
      <4>6. x \in Nat /\ N[i - 1] = Higher(x, e) /\ N[i] = Higher(x, f) /\ f = EndSeq(p.unsent[i])
        BY <1>2, <3>2, <3>3, <4>3, <4>5
      <4>7. Higher(x, f) = IF Higher(x, e) < f THEN f ELSE Higher(x, e)
        BY <4>5, <4>6, HigherStep
      <4> QED
        BY <4>6, <4>7
    <3> QED
      BY <3>4, <3>5
  <2> QED
    BY <2>1, <2>2
<1>11. /\ B[n + 1] = Cat(s, Upto(t, n))
       /\ N[n + 1] = IF n = 0 THEN p.snd_nxt ELSE Higher(p.snd_nxt, EndSeq(t[n]))
  <2>1. n + 1 \in 0..(n + 1) /\ n + 1 # 0 /\ (n + 1) - 1 = n /\ (n + 1 < 2 <=> n = 0)
    BY <1>2
  <2>2. B[n + 1] = Cat(s, Upto(t, (n + 1) - 1)) /\ N[n + 1] = IF n + 1 < 2 THEN x ELSE Higher(x, EndSeq(t[(n + 1) - 1]))
    BY <2>1
  <2> QED
    BY <1>1, <2>1, <2>2
<1> HIDE DEF B, N
<1>12. PICK k \in Nat : k = n + 1 /\ k # 0
  BY <1>2
<1>13. SendFirst(p, k) = [(IF k = 0 THEN p ELSE Left(p, B[k], N[k])) EXCEPT !.unsent = Behind(p.unsent, k)]
  <2>1. \A i \in 1..k : B[i] = Requeue(B[i - 1], p.unsent[i])
    BY <1>9, <1>12
  <2>2. \A i \in 1..k : N[i] = IF N[i - 1] < EndSeq(p.unsent[i]) THEN EndSeq(p.unsent[i]) ELSE N[i - 1]
    BY <1>10, <1>12
  <2>3. Steps(p, k, B, N)
    BY <1>7, <2>1, <2>2 DEF Steps
  <2> QED
    BY <1>12, <2>3, SendFirstIs
<1> QED
  BY <1>0, <1>1, <1>5, <1>11, <1>12, <1>13

-----------------------------------------------------------------------------
(* What holds of the pcb between the parts of a step *)

\* A segment that may leave: inside the window that is known, and sent by k.
MayLeave(x, p, w, k) ==
  /\ Proper(x, w) /\ EndSeq(x) <= StreamEnd(p, w) /\ EndSeq(x) <= k
  /\ x.seq + x.len <= p.lastack + p.snd_wnd

LEMMA PcbFacts ==
  ASSUME NEW p \in PcbType
  PROVE  /\ p.unsent \in Seq(SegType) /\ p.unacked \in Seq(SegType)
         /\ Len(p.unsent) \in Nat /\ Len(p.unacked) \in Nat
         /\ p.snd_nxt \in Nat /\ p.lastack \in Nat /\ p.snd_lbb \in Nat /\ p.snd_buf \in Nat
         /\ p.snd_wnd \in Nat /\ p.snd_wl1 \in Nat /\ p.snd_wl2 \in Nat /\ p.cwnd \in Nat
         /\ p.ssthresh \in Nat /\ p.dupacks \in 0..4 /\ p.nrtx \in 0..(MaxRtx + 1)
         /\ p.rtime \in BOOLEAN /\ p.persist \in BOOLEAN /\ p.infr \in BOOLEAN /\ p.fin \in BOOLEAN
         /\ p.state \in Open \cup Closing \cup Ended /\ p.acked \in Nat
         /\ \A w \in Nat : StreamEnd(p, w) \in Nat /\ w <= StreamEnd(p, w) /\ StreamEnd(p, w) <= w + 1
  BY LenNat DEF PcbType, StreamEnd, Int1

\* Queues whose segments are all of a kind.
LEMMA KindCat ==
  ASSUME NEW T, NEW S, NEW s, NEW t, s \in Seq(T), t \in Seq(T),
         \A i \in 1..Len(s) : s[i] \in S, \A i \in 1..Len(t) : t[i] \in S
  PROVE  \A i \in 1..Len(Cat(s, t)) : Cat(s, t)[i] \in S
<1>1. s \in Seq(S) /\ t \in Seq(S)
  OBVIOUS
<1>2. Cat(s, t) \in Seq(S)
  BY <1>1 DEF Cat
<1> QED
  BY <1>2

LEMMA KindParts ==
  ASSUME NEW T, NEW S, NEW s, s \in Seq(T), NEW n \in 0..Len(s)
  PROVE  /\ (\A i \in 1..n : s[i] \in S) => \A i \in 1..Len(Upto(s, n)) : Upto(s, n)[i] \in S
         /\ (\A i \in 1..Len(s) : s[i] \in S) => \A i \in 1..Len(Behind(s, n)) : Behind(s, n)[i] \in S
<1>1. /\ Len(Upto(s, n)) = n /\ (\A i \in 1..n : Upto(s, n)[i] = s[i])
      /\ Len(Behind(s, n)) = Len(s) - n /\ (\A i \in 1..(Len(s) - n) : Behind(s, n)[i] = s[n + i])
  BY PartsAt
<1>2. \A i \in 1..(Len(s) - n) : n + i \in 1..Len(s)
  BY LenNat
<1> QED
  BY <1>1, <1>2

\* A segment that fits may leave.
LEMMA FitMayLeave ==
  ASSUME NEW p \in PcbType, NEW w \in Nat, NEW x, Proper(x, w), EndSeq(x) <= StreamEnd(p, w),
         Fits(p, x), NEW k \in Nat, EndSeq(x) <= k
  PROVE  MayLeave(x, p, w, k)
<1>1. x.seq \in Nat /\ x.len \in Nat
  BY SegFacts
<1>2. p.lastack \in Nat /\ p.snd_wnd \in Nat /\ p.cwnd \in Nat
  BY PcbFacts
<1>3. x.seq - p.lastack + x.len <= p.snd_wnd
  BY <1>1, <1>2 DEF Fits, Smaller
<1>4. x.seq + x.len <= p.lastack + p.snd_wnd
  BY <1>1, <1>2, <1>3
<1> QED
  BY <1>4 DEF MayLeave

\* A pcb whose queues and snd_nxt alone change.
Requeued(p, q) ==
  /\ q \in PcbType
  /\ q.lastack = p.lastack /\ q.snd_lbb = p.snd_lbb /\ q.snd_buf = p.snd_buf
  /\ q.snd_wnd = p.snd_wnd /\ q.snd_wl1 = p.snd_wl1 /\ q.snd_wl2 = p.snd_wl2
  /\ q.cwnd = p.cwnd /\ q.ssthresh = p.ssthresh /\ q.fin = p.fin /\ q.state = p.state
  /\ p.snd_nxt <= q.snd_nxt

LEMMA RequeuedPeer ==
  ASSUME NEW p \in PcbType, NEW q, Requeued(p, q), NEW r \in FarType, NEW w \in Nat, Peer(p, r, w)
  PROVE  Peer(q, r, w)
<1>1. StreamEnd(q, w) = StreamEnd(p, w)
  BY DEF Requeued, StreamEnd
<1>2. p.snd_nxt \in Nat /\ q.snd_nxt \in Nat /\ p.snd_nxt <= q.snd_nxt /\ r.rcv \in Nat /\ q.lastack = p.lastack
  BY PcbFacts DEF Requeued, FarType
<1>3. Reached(q, r.rcv)
  <2>1. Reached(p, r.rcv)
    BY DEF Peer
  <2> QED
    BY <1>2, <2>1 DEF Reached
<1>4. Known(q, r)
  BY DEF Peer, Known, Requeued
<1>5. r.late # <<>> => Past(r.late[1], q, r)
  BY DEF Peer, Past, Requeued
<1> QED
  BY <1>1, <1>3, <1>4, <1>5 DEF Peer

\* tcp_output keeps the order of the queues, and lets go what may leave.
LEMMA OutputKeeps ==
  ASSUME NEW p, NEW w \in Nat, NEW c, NEW r \in FarType, Ok(p, w, c, r),
         NEW n \in 0..Len(p.unsent), \A i \in 1..n : Fits(p, p.unsent[i]),
         NEW q, q = SendFirst(p, n)
  PROVE  /\ Ok(q, w, c, r) /\ Requeued(p, q)
         /\ \A i \in 1..n : MayLeave(p.unsent[i], q, w, q.snd_nxt)
<1>1. p \in PcbType
  BY DEF Ok
<1>2. PICK A, U, e : A = p.unacked /\ U = p.unsent /\ StreamEnd(p, w) = e
  OBVIOUS
<1>3. PICK a \in Nat, b \in Nat : /\ a <= b /\ b <= e /\ a <= p.lastack /\ Line(A, a, b, w) /\ Line(U, b, e, w)
                                  /\ Pending(A, p.lastack) /\ Pending(U, p.lastack)
  <2>1. PICK a, b \in 0..StreamEnd(p, w) :
          /\ a <= p.lastack /\ Line(p.unacked, a, b, w) /\ Line(p.unsent, b, StreamEnd(p, w), w)
          /\ Pending(p.unacked, p.lastack) /\ Pending(p.unsent, p.lastack)
    BY DEF Ok, Queues
  <2>2. a \in Nat /\ b \in Nat /\ a <= b /\ b <= StreamEnd(p, w)
    BY <1>1, <2>1, PcbFacts DEF Line
  <2> QED
    BY <1>2, <2>1, <2>2
<1>4. e \in Nat /\ p.lastack \in Nat /\ p.snd_nxt \in Nat /\ p.snd_wnd \in Nat
  BY <1>1, <1>2, PcbFacts
<1>5. /\ q = [(IF n = 0 THEN p ELSE Left(p, Cat(A, Upto(U, n)), Higher(p.snd_nxt, EndSeq(U[n]))))
              EXCEPT !.unsent = Behind(U, n)]
  BY <1>1, <1>2, <1>3, <1>4, SendLine
<1>6. A \in Seq(SegType) /\ U \in Seq(SegType) /\ Len(U) \in Nat /\ n \in 0..Len(U)
  BY <1>2, <1>3, LineFacts
<1>7. CASE n = 0
  <2>1. Behind(U, n) = U
    BY <1>6, <1>7 DEF Behind
  <2>2. q = p
    BY <1>1, <1>2, <1>5, <1>7, <2>1 DEF PcbType
  <2>3. Requeued(p, p)
    BY <1>1, <1>4 DEF Requeued
  <2> QED
    BY <1>7, <2>2, <2>3
<1>8. CASE n # 0
  <2>1. PICK m \in Nat : b <= m /\ m <= e /\ Line(Upto(U, n), b, m, w) /\ Line(Behind(U, n), m, e, w)
    BY <1>3, <1>4, <1>6, LineSplit
  <2>2. PICK V, S, k : V = Behind(U, n) /\ S = Cat(A, Upto(U, n)) /\ k = Higher(p.snd_nxt, EndSeq(U[n]))
    OBVIOUS
  <2>3. Line(S, a, m, w) /\ Line(V, m, e, w)
    BY <1>3, <2>1, <2>2, LineCat
  <2>4. q = [Left(p, S, k) EXCEPT !.unsent = V]
    BY <1>5, <1>8, <2>2
  <2>5. n \in 1..Len(U)
    BY <1>6, <1>8
  <2>6. k \in Nat /\ p.snd_nxt <= k /\ EndSeq(U[n]) <= k /\ k <= e
    <3>1. EndSeq(U[n]) \in Nat /\ EndSeq(U[n]) <= e
      BY <1>3, <2>5, LineFacts
    <3>2. p.snd_nxt <= e
      BY <1>2 DEF Ok, Counts
    <3> QED
      BY <1>4, <2>2, <3>1, <3>2 DEF Higher
  <2>7. /\ q \in PcbType /\ q.unacked = S /\ q.unsent = V /\ q.snd_nxt = k /\ q.rtime = TRUE
        /\ Requeued(p, q)
    <3>1. S \in Seq(SegType) /\ V \in Seq(SegType)
      BY <2>3, LineFacts
    <3>2. /\ q \in PcbType /\ q.unacked = S /\ q.unsent = V /\ q.snd_nxt = k /\ q.rtime = TRUE
      BY <1>1, <2>4, <2>6, <3>1 DEF PcbType, Left
    <3>3. /\ q.lastack = p.lastack /\ q.snd_lbb = p.snd_lbb /\ q.snd_buf = p.snd_buf
          /\ q.snd_wnd = p.snd_wnd /\ q.snd_wl1 = p.snd_wl1 /\ q.snd_wl2 = p.snd_wl2
          /\ q.cwnd = p.cwnd /\ q.ssthresh = p.ssthresh /\ q.fin = p.fin /\ q.state = p.state
      BY <1>1, <2>4 DEF PcbType, Left
    <3> QED
      BY <2>6, <3>2, <3>3 DEF Requeued
  <2>8. StreamEnd(q, w) = e /\ q.lastack = p.lastack /\ q.snd_wnd = p.snd_wnd
    BY <1>2, <2>7 DEF Requeued, StreamEnd
  <2>9. \A i \in 1..n : MayLeave(U[i], q, w, k)
    <3>1. ASSUME NEW i \in 1..n PROVE MayLeave(U[i], q, w, k)
      <4>1. i \in 1..Len(U)
        BY <1>6
      <4>2. Proper(U[i], w) /\ EndSeq(U[i]) <= e /\ EndSeq(U[i]) \in Nat
        BY <1>3, <4>1, LineFacts
      <4>3. EndSeq(U[i]) <= EndSeq(U[n])
        <5>1. CASE i = n
          BY <4>2, <5>1
        <5>2. CASE i # n
          <6>1. i < n
            BY <2>5, <5>2
          <6>2. EndSeq(U[i]) <= U[n].seq /\ U[n].seq < EndSeq(U[n]) /\ U[n].seq \in Nat /\ EndSeq(U[n]) \in Nat
            BY <1>3, <2>5, <4>1, <6>1, LineFacts DEF Line
          <6> QED
            BY <4>2, <6>2
        <5> QED
          BY <5>1, <5>2
      <4>4. EndSeq(U[i]) <= k
        <5>1. EndSeq(U[n]) \in Nat
          BY <1>3, <2>5, LineFacts
        <5> QED
          BY <2>6, <4>2, <4>3, <5>1
      <4>5. Fits(p, U[i])
        BY <1>2
      <4>6. MayLeave(U[i], p, w, k)
        BY <1>1, <1>2, <2>6, <4>2, <4>4, <4>5, FitMayLeave
      <4> QED
        BY <1>2, <2>8, <4>6 DEF MayLeave
    <3> QED
      BY <3>1
  <2>10. Pending(S, p.lastack) /\ Pending(V, p.lastack)
    <3> DEFINE P == {x \in SegType : EndSeq(x) > p.lastack}
    <3>1. (\A i \in 1..Len(A) : A[i] \in P) /\ (\A i \in 1..Len(U) : U[i] \in P)
      BY <1>3, LineFacts DEF Pending
    <3>2. \A i \in 1..n : U[i] \in P
      BY <1>6, <3>1
    <3>3. Upto(U, n) \in Seq(SegType)
      BY <2>1, LineFacts
    <3> HIDE DEF P
    <3>4. (\A i \in 1..Len(Upto(U, n)) : Upto(U, n)[i] \in P) /\ \A i \in 1..Len(Behind(U, n)) : Behind(U, n)[i] \in P
      BY <1>6, <3>1, <3>2, KindParts
    <3>5. \A i \in 1..Len(Cat(A, Upto(U, n))) : Cat(A, Upto(U, n))[i] \in P
      BY <1>6, <3>1, <3>3, <3>4, KindCat
    <3> QED
      BY <2>2, <3>4, <3>5 DEF P, Pending
  <2>11. \A i \in 1..Len(S) : EndSeq(S[i]) <= k /\ S[i].seq + S[i].len <= p.lastack + p.snd_wnd
    <3> DEFINE P == {x \in SegType : EndSeq(x) <= k /\ x.seq + x.len <= p.lastack + p.snd_wnd}
    <3>1. \A i \in 1..Len(A) : A[i] \in P
      <4>1. ASSUME NEW i \in 1..Len(A) PROVE A[i] \in P
        <5>1. EndSeq(A[i]) <= p.snd_nxt /\ A[i].seq + A[i].len <= p.lastack + p.snd_wnd
          BY <1>2 DEF Ok, InFlight
        <5>2. A[i] \in SegType /\ EndSeq(A[i]) \in Nat
          BY <1>3, LineFacts
        <5> QED
          BY <1>4, <2>6, <5>1, <5>2
      <4> QED
        BY <4>1
    <3>2. \A i \in 1..n : U[i] \in P
      BY <2>8, <2>9, SegFacts DEF MayLeave
    <3>3. Upto(U, n) \in Seq(SegType)
      BY <2>1, LineFacts
    <3> HIDE DEF P
    <3>4. \A i \in 1..Len(Upto(U, n)) : Upto(U, n)[i] \in P
      BY <1>6, <3>2, KindParts
    <3>5. \A i \in 1..Len(Cat(A, Upto(U, n))) : Cat(A, Upto(U, n))[i] \in P
      BY <1>6, <3>1, <3>3, <3>4, KindCat
    <3> QED
      BY <2>2, <3>5 DEF P
  <2>12. Queues(q, w)
    <3>1. a \in 0..StreamEnd(q, w) /\ m \in 0..StreamEnd(q, w)
      BY <1>3, <1>4, <2>1, <2>8
    <3> QED
      BY <1>3, <2>3, <2>7, <2>8, <2>10, <3>1 DEF Queues
  <2>13. InFlight(q)
    BY <2>7, <2>8, <2>11 DEF InFlight
  <2>14. Counts(q, w, c)
    <3>1. p.lastack <= p.snd_nxt
      BY DEF Ok, Counts
    <3>2. q.lastack <= q.snd_nxt
      BY <1>4, <2>6, <2>7, <2>8, <3>1
    <3> QED
      BY <1>2, <2>6, <2>7, <2>8, <3>2 DEF Ok, Counts, Requeued
  <2>15. Congestion(q) /\ Peer(q, r, w) /\ (q.fin <=> q.state \notin Open)
    <3>1. Peer(q, r, w)
      BY <1>1, <2>7, RequeuedPeer DEF Ok
    <3> QED
      BY <2>7, <3>1 DEF Ok, Congestion, Requeued
  <2> QED
    BY <1>2, <2>7, <2>9, <2>12, <2>13, <2>14, <2>15 DEF Ok
<1> QED
  BY <1>7, <1>8

LEMMA FarFacts ==
  ASSUME NEW r \in FarType
  PROVE  r.rcv \in Nat /\ r.edge \in Nat /\ r.seq \in Nat /\ r.late \in Seq(AckType)
  BY DEF FarType

\* Segments that may leave are inside the peer's offer.
LEMMA NetGrows ==
  ASSUME NEW p \in PcbType, NEW q, NEW w \in Nat, NEW c, NEW r \in FarType, Ok(q, w, c, r), Requeued(p, q),
         NEW N, N \subseteq NetType, UnderWay(p, N, w), Offered(N, r.edge, w),
         NEW S, \A s \in S : \E x : MayLeave(x, q, w, q.snd_nxt) /\ s = [from |-> x.seq, to |-> EndSeq(x)]
  PROVE  N \cup S \subseteq NetType /\ UnderWay(q, N \cup S, w) /\ Offered(N \cup S, r.edge, w)
<1>1. /\ q \in PcbType /\ q.snd_nxt \in Nat /\ q.lastack \in Nat /\ p.snd_nxt \in Nat /\ q.lastack = p.lastack
      /\ q.snd_wnd \in Nat /\ q.snd_wl2 \in Nat /\ p.snd_nxt <= q.snd_nxt /\ r.edge \in Nat
      /\ StreamEnd(q, w) = StreamEnd(p, w) /\ StreamEnd(q, w) \in Nat
  BY PcbFacts, FarFacts DEF Ok, Requeued, StreamEnd
<1>2. ASSUME NEW s \in S
      PROVE  /\ s \in NetType /\ s.to <= StreamEnd(q, w) /\ Reached(q, s.to)
             /\ (s.to <= r.edge \/ (s.to = w + 1 /\ s.to <= r.edge + 1))
  <2>1. PICK x : MayLeave(x, q, w, q.snd_nxt) /\ s = [from |-> x.seq, to |-> EndSeq(x)]
    BY <1>2
  <2>2. /\ x.seq \in Nat /\ x.len \in Nat /\ EndSeq(x) \in Nat /\ EndSeq(x) <= x.seq + x.len + 1
        /\ x.fin => EndSeq(x) = w + 1
        /\ ~x.fin => EndSeq(x) = x.seq + x.len
    BY <2>1, SegFacts DEF MayLeave
  <2>3. /\ EndSeq(x) <= StreamEnd(q, w) /\ EndSeq(x) <= q.snd_nxt
        /\ x.seq + x.len <= q.lastack + q.snd_wnd
    BY <2>1 DEF MayLeave
  <2>4. q.lastack <= q.snd_wl2 /\ q.snd_wl2 + q.snd_wnd <= r.edge
    BY DEF Ok, Peer, Known, NotNewer
  <2>5. x.seq + x.len <= r.edge
    BY <1>1, <2>2, <2>3, <2>4
  <2>6. s.to = EndSeq(x) /\ s \in NetType
    BY <2>1, <2>2 DEF NetType
  <2>7. s.to <= r.edge \/ (s.to = w + 1 /\ s.to <= r.edge + 1)
    <3>1. CASE x.fin
      BY <1>1, <2>2, <2>5, <2>6, <3>1
    <3>2. CASE ~x.fin
      BY <1>1, <2>2, <2>5, <2>6, <3>2
    <3> QED
      BY <3>1, <3>2
  <2> QED
    BY <2>3, <2>6, <2>7 DEF Reached
<1>3. ASSUME NEW s \in N
      PROVE  s.to <= StreamEnd(q, w) /\ Reached(q, s.to)
  <2>1. s.to \in Nat /\ s.to <= StreamEnd(p, w) /\ Reached(p, s.to)
    BY DEF NetType, UnderWay
  <2> QED
    BY <1>1, <2>1 DEF Reached
<1>4. N \cup S \subseteq NetType
  BY <1>2
<1>5. UnderWay(q, N \cup S, w)
  BY <1>2, <1>3 DEF UnderWay
<1>6. Offered(N \cup S, r.edge, w)
  BY <1>2 DEF Offered
<1> QED
  BY <1>4, <1>5, <1>6

\* What a call of tcp_output needs, and what it leaves.
LEMMA OutputStep ==
  ASSUME NEW p, NEW w \in Nat, NEW c, far \in FarType, Ok(p, w, c, far),
         net \subseteq NetType, UnderWay(p, net, w), Offered(net, far.edge, w), tcp_output(p)
  PROVE  /\ Ok(out', w, c, far) /\ Requeued(p, out')
         /\ net' \subseteq NetType /\ UnderWay(out', net', w) /\ Offered(net', far.edge, w)
<1>1. p \in PcbType /\ Len(p.unsent) \in Nat
  BY PcbFacts DEF Ok
<1>2. PICK n : /\ n = Ready(p) /\ out' = SendFirst(p, n)
               /\ net' = net \cup {[from |-> p.unsent[i].seq, to |-> EndSeq(p.unsent[i])] :
                                     i \in {j \in 1..n : EndSeq(p.unsent[j]) > far.rcv}}
  BY DEF tcp_output
<1>3. n \in 0..Len(p.unsent) /\ \A i \in 1..n : Fits(p, p.unsent[i])
  BY <1>1, <1>2, ReadyLeads
<1>4. /\ Ok(out', w, c, far) /\ Requeued(p, out')
      /\ \A i \in 1..n : MayLeave(p.unsent[i], out', w, out'.snd_nxt)
  BY <1>2, <1>3, OutputKeeps
<1>5. PICK q, N, S, r : /\ q = out' /\ N = net /\ r = far
                        /\ S = {[from |-> p.unsent[i].seq, to |-> EndSeq(p.unsent[i])] :
                                  i \in {j \in 1..n : EndSeq(p.unsent[j]) > far.rcv}}
  OBVIOUS
<1>6. \A s \in S : \E x : MayLeave(x, q, w, q.snd_nxt) /\ s = [from |-> x.seq, to |-> EndSeq(x)]
  BY <1>4, <1>5
<1>7. /\ Ok(q, w, c, r) /\ Requeued(p, q) /\ r \in FarType
      /\ N \subseteq NetType /\ UnderWay(p, N, w) /\ Offered(N, r.edge, w)
  BY <1>4, <1>5
<1>8. N \cup S \subseteq NetType /\ UnderWay(q, N \cup S, w) /\ Offered(N \cup S, r.edge, w)
  BY <1>1, <1>6, <1>7, NetGrows
<1> QED
  BY <1>2, <1>4, <1>5, <1>8

\* The pcb with its first unacked segment back in unsent.
Resent(p) == [p EXCEPT !.unacked = Tail(p.unacked), !.unsent = Cat(<<p.unacked[1]>>, p.unsent)]

\* A call of tcp_output sends the segment of a fast retransmission at once.
LEMMA OutputAgain ==
  ASSUME NEW p, NEW w \in Nat, NEW c, far \in FarType, Ok(p, w, c, far), p.unacked # <<>>,
         net \subseteq NetType, UnderWay(p, net, w), Offered(net, far.edge, w), tcp_output(Resent(p))
  PROVE  /\ Ok(out', w, c, far) /\ Requeued(p, out')
         /\ net' \subseteq NetType /\ UnderWay(out', net', w) /\ Offered(net', far.edge, w)
<1>1. /\ p \in PcbType /\ Len(p.unsent) \in Nat /\ p.unacked \in Seq(SegType) /\ p.unsent \in Seq(SegType)
      /\ p.lastack \in Nat /\ p.snd_wnd \in Nat /\ p.cwnd \in Nat /\ p.snd_nxt \in Nat
  BY PcbFacts DEF Ok
<1>2. PICK A, U, e, y : A = p.unacked /\ U = p.unsent /\ StreamEnd(p, w) = e /\ y = A[1]
  OBVIOUS
<1>3. PICK a \in Nat, b \in Nat : /\ a <= p.lastack /\ Line(A, a, b, w) /\ Line(U, b, e, w)
                                  /\ b <= e /\ e \in Nat
  <2>1. PICK a, b \in 0..StreamEnd(p, w) :
          a <= p.lastack /\ Line(p.unacked, a, b, w) /\ Line(p.unsent, b, StreamEnd(p, w), w)
    BY DEF Ok, Queues
  <2>2. StreamEnd(p, w) \in Nat
    BY <1>1, PcbFacts
  <2> QED
    BY <1>2, <2>1, <2>2
<1>4. /\ Proper(y, w) /\ y.seq = a /\ y.seq \in Nat /\ y.len \in Nat /\ y.len <= MssLocal
      /\ EndSeq(y) \in Nat /\ EndSeq(y) <= b /\ y \in SegType
  <2>1. Proper(y, w) /\ y.seq = a /\ EndSeq(y) <= b
    BY <1>2, <1>3, LineFirst
  <2> QED
    BY <2>1, SegFacts
<1>5. /\ EndSeq(y) <= p.snd_nxt /\ y.seq + y.len <= p.lastack + p.snd_wnd /\ p.rtime = TRUE
      /\ \A i \in 1..Len(A) : EndSeq(A[i]) <= p.snd_nxt
  <2>1. 1 \in 1..Len(A)
    BY <1>1, <1>2
  <2> QED
    BY <1>1, <1>2, <2>1, PcbFacts DEF Ok, InFlight
<1>6. PICK t : t = Resent(p)
  OBVIOUS
<1>7. PICK Z : Z = Cat(<<y>>, U)
  OBVIOUS
<1>8. /\ t \in PcbType /\ t.unacked = Tail(A) /\ t.unsent = Z /\ t.snd_nxt = p.snd_nxt
      /\ t.lastack = p.lastack /\ t.snd_wnd = p.snd_wnd /\ t.cwnd = p.cwnd
      /\ Z \in Seq(SegType) /\ Len(Z) = Len(U) + 1 /\ Z[1] = y /\ \A i \in 1..Len(U) : Z[i + 1] = U[i]
  <2>1. /\ Z \in Seq(SegType) /\ Len(Z) = Len(U) + 1 /\ Z[1] = y /\ \A i \in 1..Len(U) : Z[i + 1] = U[i]
    <3>1. Z = <<y>> \o U
      BY <1>7 DEF Cat
    <3>2. <<y>> \in Seq(SegType) /\ Len(<<y>>) = 1 /\ <<y>>[1] = y /\ U \in Seq(SegType)
      BY <1>1, <1>2, <1>4
    <3> QED
      BY <3>1, <3>2
  <2>2. Tail(A) \in Seq(SegType)
    BY <1>1, <1>2
  <2>3. t = [p EXCEPT !.unacked = Tail(A), !.unsent = Z]
    BY <1>2, <1>6, <1>7 DEF Resent
  <2>4. /\ t \in PcbType /\ t.unacked = Tail(A) /\ t.unsent = Z /\ t.snd_nxt = p.snd_nxt
        /\ t.lastack = p.lastack /\ t.snd_wnd = p.snd_wnd /\ t.cwnd = p.cwnd
    BY <1>1, <2>1, <2>2, <2>3 DEF PcbType
  <2> QED
    BY <2>1, <2>4
<1>9. \A x : Fits(t, x) <=> Fits(p, x)
  BY <1>8 DEF Fits
<1>10. Fits(p, y)
  <2>1. SMss <= p.cwnd
    BY DEF Ok, Congestion
  <2>2. y.seq - p.lastack + y.len <= p.cwnd
    BY <1>1, <1>3, <1>4, <2>1, Sizes
  <2>3. y.seq - p.lastack + y.len <= p.snd_wnd
    BY <1>1, <1>4, <1>5, SMTT(30)
  <2> QED
    BY <2>2, <2>3 DEF Fits, Smaller
<1>11. PICK k : /\ k = Ready(t) /\ out' = SendFirst(t, k)
                /\ net' = net \cup {[from |-> t.unsent[i].seq, to |-> EndSeq(t.unsent[i])] :
                                     i \in {j \in 1..k : EndSeq(t.unsent[j]) > far.rcv}}
  BY <1>6 DEF tcp_output
<1>12. k \in 0..Len(Z) /\ (\A i \in 1..k : Fits(t, Z[i])) /\ (k = Len(Z) \/ ~Fits(t, Z[k + 1]))
  <2>1. Len(t.unsent) \in Nat
    BY <1>8, PcbFacts
  <2> QED
    BY <1>8, <1>11, <2>1, ReadyLeads
<1>13. k # 0
  <2>1. ASSUME k = 0 PROVE FALSE
    <3>1. Len(Z) # 0 /\ k + 1 = 1
      BY <1>1, <1>2, <1>8, <2>1
    <3> QED
      BY <1>8, <1>9, <1>10, <1>12, <2>1, <3>1
  <2> QED
    BY <2>1
<1>14. PICK n \in 0..Len(U) : k = n + 1
  <2>1. k - 1 \in 0..Len(U) /\ k = (k - 1) + 1
    BY <1>1, <1>2, <1>8, <1>12, <1>13
  <2> QED
    BY <2>1
<1>15. \A i \in 1..n : Fits(p, U[i]) /\ i + 1 \in 1..k /\ Z[i + 1] = U[i]
  <2>1. ASSUME NEW i \in 1..n PROVE Fits(p, U[i]) /\ i + 1 \in 1..k /\ Z[i + 1] = U[i]
    <3>1. i \in 1..Len(U) /\ i + 1 \in 1..k
      BY <1>1, <1>2, <1>14
    <3> QED
      BY <1>8, <1>9, <1>12, <3>1
  <2> QED
    BY <2>1
<1>16. SendFirst(t, k) = SendFirst(p, n)
  <2>1. SendFirst(t, n + 1) =
          [Left(t, Cat(A, Upto(U, n)), IF n = 0 THEN t.snd_nxt ELSE Higher(t.snd_nxt, EndSeq(U[n])))
           EXCEPT !.unsent = Behind(U, n)]
    <3>1. \A i \in 1..Len(A) : EndSeq(A[i]) <= t.snd_nxt
      BY <1>5, <1>8
    <3>2. t.unacked = Tail(A) /\ t.unsent = Cat(<<A[1]>>, U) /\ A # <<>>
      BY <1>2, <1>7, <1>8
    <3>3. MovedBack(t, A, U)
      BY <3>1, <3>2 DEF MovedBack
    <3>4. t \in PcbType /\ Line(A, a, b, w) /\ Line(U, b, e, w) /\ e \in Nat
      BY <1>3, <1>8
    <3> QED
      BY <3>3, <3>4, SendAgain
  <2>2. SendFirst(p, n) =
          [(IF n = 0 THEN p ELSE Left(p, Cat(A, Upto(U, n)), Higher(p.snd_nxt, EndSeq(U[n]))))
           EXCEPT !.unsent = Behind(U, n)]
    BY <1>1, <1>2, <1>3, SendLine
  <2>3. t = [p EXCEPT !.unacked = Tail(A), !.unsent = Z]
    BY <1>2, <1>6, <1>7 DEF Resent
  <2>4. PICK S, V, x : S = Cat(A, Upto(U, n)) /\ V = Behind(U, n) /\ x = Higher(p.snd_nxt, EndSeq(U[n]))
    OBVIOUS
  <2>5. CASE n = 0
    <3>1. S = A /\ V = U
      <4>1. Cat(A, Upto(U, 0)) = A
        BY <1>1, <1>2, CatNone
      <4>2. Behind(U, 0) = U
        BY <1>1, <1>2 DEF Behind
      <4> QED
        BY <2>4, <2>5, <4>1, <4>2
    <3>2. SendFirst(t, n + 1) = [Left(t, A, p.snd_nxt) EXCEPT !.unsent = U]
      BY <1>8, <2>1, <2>4, <2>5, <3>1
    <3>3. [Left(t, A, p.snd_nxt) EXCEPT !.unsent = U] = p
      BY <1>1, <1>2, <1>5, <2>3 DEF Left, PcbType
    <3>4. SendFirst(p, n) = p
      <4>1. [p EXCEPT !.unsent = U] = p
        BY <1>1, <1>2 DEF PcbType
      <4> QED
        BY <2>2, <2>4, <2>5, <3>1, <4>1
    <3> QED
      BY <1>14, <3>2, <3>3, <3>4
  <2>6. CASE n # 0
    <3>1. SendFirst(t, n + 1) = [Left(t, S, x) EXCEPT !.unsent = V]
      BY <1>8, <2>1, <2>4, <2>6
    <3>2. SendFirst(p, n) = [Left(p, S, x) EXCEPT !.unsent = V]
      BY <2>2, <2>4, <2>6
    <3>3. [Left(t, S, x) EXCEPT !.unsent = V] = [Left(p, S, x) EXCEPT !.unsent = V]
      BY <1>1, <2>3 DEF Left, PcbType
    <3> QED
      BY <1>14, <3>1, <3>2, <3>3
  <2> QED
    BY <2>5, <2>6
<1>17. PICK q : q = out'
  OBVIOUS
<1>18. /\ Ok(q, w, c, far) /\ Requeued(p, q)
       /\ \A i \in 1..n : MayLeave(U[i], q, w, q.snd_nxt)
  <2>1. n \in 0..Len(p.unsent) /\ \A i \in 1..n : Fits(p, p.unsent[i])
    BY <1>2, <1>14, <1>15
  <2>2. q = SendFirst(p, n)
    BY <1>11, <1>16, <1>17
  <2> QED
    BY <1>2, <2>1, <2>2, OutputKeeps
<1>19. MayLeave(y, q, w, q.snd_nxt)
  <2>1. q.lastack = p.lastack /\ q.snd_wnd = p.snd_wnd /\ StreamEnd(q, w) = e /\ p.snd_nxt <= q.snd_nxt /\ q.snd_nxt \in Nat
    BY <1>2, <1>18, PcbFacts DEF Requeued, StreamEnd
  <2>2. EndSeq(y) <= q.snd_nxt /\ EndSeq(y) <= e
    BY <1>1, <1>3, <1>4, <1>5, <2>1, SMTT(30)
  <2> QED
    BY <1>4, <1>5, <2>1, <2>2 DEF MayLeave
<1>20. PICK S : S = {[from |-> Z[i].seq, to |-> EndSeq(Z[i])] : i \in {j \in 1..k : EndSeq(Z[j]) > far.rcv}}
  OBVIOUS
<1>21. \A i \in 1..k : MayLeave(Z[i], q, w, q.snd_nxt)
  <2>1. ASSUME NEW i \in 1..k PROVE MayLeave(Z[i], q, w, q.snd_nxt)
    <3>1. CASE i = 1
      BY <1>8, <1>19, <3>1
    <3>2. CASE i # 1
      <4>1. PICK j \in 1..n : i = j + 1
        <5>1. i - 1 \in 1..n /\ i = (i - 1) + 1
          BY <1>1, <1>2, <1>14, <3>2
        <5> QED
          BY <5>1
      <4> QED
        BY <1>15, <1>18, <4>1
    <3> QED
      BY <3>1, <3>2
  <2> QED
    BY <2>1
<1>22. \A s \in S : \E x : MayLeave(x, q, w, q.snd_nxt) /\ s = [from |-> x.seq, to |-> EndSeq(x)]
  BY <1>20, <1>21
<1>23. PICK N, r : N = net /\ r = far
  OBVIOUS
<1>24. /\ Ok(q, w, c, r) /\ Requeued(p, q) /\ r \in FarType
       /\ N \subseteq NetType /\ UnderWay(p, N, w) /\ Offered(N, r.edge, w)
  BY <1>18, <1>23
<1>25. N \cup S \subseteq NetType /\ UnderWay(q, N \cup S, w) /\ Offered(N \cup S, r.edge, w)
  BY <1>1, <1>22, <1>24, NetGrows
<1>26. net' = N \cup S
  BY <1>8, <1>11, <1>20, <1>23
<1> QED
  BY <1>17, <1>18, <1>23, <1>25, <1>26

-----------------------------------------------------------------------------
(* From the pcb to the state *)

LEMMA OkTypes ==
  ASSUME NEW p, NEW w \in Nat, NEW c, NEW r \in FarType, Ok(p, w, c, r), w <= MaxOut
  PROVE  /\ p \in PcbType /\ c \in Nat /\ c <= MaxOut
         /\ p.snd_nxt <= MaxOut + 1 /\ p.lastack <= MaxOut + 1 /\ p.snd_buf <= SndBuf + 1
         /\ 1 <= p.cwnd /\ p.cwnd <= PeerWnd /\ r.rcv <= MaxOut + 1
<1>1. p \in PcbType
  BY DEF Ok
<1>2. PICK x \in Nat, l \in Nat, b \in Nat, f \in Nat, e \in Nat, d \in Nat, g \in Nat :
        /\ x = p.snd_nxt /\ l = p.lastack /\ b = p.snd_buf /\ f = p.snd_lbb /\ e = StreamEnd(p, w)
        /\ d = p.cwnd /\ g = r.rcv /\ e <= w + 1
  BY <1>1, PcbFacts, FarFacts
<1>3. /\ l <= x /\ x <= e /\ w <= f /\ b + f = SndBuf + l /\ c = (IF l < w THEN l ELSE w)
      /\ SMss <= d /\ d <= PeerWnd /\ g <= e
  BY <1>2 DEF Ok, Counts, Congestion, Peer, Smaller
<1>4. c \in Nat /\ c <= MaxOut /\ x <= MaxOut + 1 /\ l <= MaxOut + 1 /\ b <= SndBuf + 1 /\ 1 <= d /\ g <= MaxOut + 1
  BY <1>2, <1>3, Sizes
<1> QED
  BY <1>1, <1>2, <1>3, <1>4

LEMMA SoundFrom ==
  ASSUME NEW p, NEW s \in SentType, s.written <= MaxOut, NEW N, N \subseteq NetType, NEW r \in FarType,
         Ok(p, s.written, s.confirmed, r), UnderWay(p, N, s.written), Offered(N, r.edge, s.written)
  PROVE  Sound(p, s, N, r)
<1>1. s.written \in Nat
  BY DEF SentType
<1>2. /\ p \in PcbType /\ s.confirmed <= MaxOut
      /\ p.snd_nxt <= MaxOut + 1 /\ p.lastack <= MaxOut + 1 /\ p.snd_buf <= SndBuf + 1
      /\ 1 <= p.cwnd /\ p.cwnd <= PeerWnd /\ r.rcv <= MaxOut + 1
  BY <1>1, OkTypes
<1> QED
  BY <1>2 DEF Sound, Types

\* What IInv gives while the pcb is alive.
LEMMA Alive ==
  ASSUME IInv
  PROVE  /\ out \in PcbType /\ sent \in SentType /\ far \in FarType /\ net \subseteq NetType
         /\ sent.written \in Nat /\ sent.confirmed \in Nat /\ sent.written <= MaxOut
         /\ Offered(net, far.edge, sent.written)
         /\ out.state \notin Ended =>
              Ok(out, sent.written, sent.confirmed, far) /\ UnderWay(out, net, sent.written)
  BY DEF IInv, Sound, Types, SentType

\* A step that ends with tcp_output.
LEMMA OutputSound ==
  ASSUME IInv, NEW p, NEW w \in Nat, w <= MaxOut, NEW c,
         Ok(p, w, c, far), UnderWay(p, net, w), Offered(net, far.edge, w), tcp_output(p),
         sent' \in SentType, sent'.written = w, sent'.confirmed = c, far' = far
  PROVE  IInv'
<1>1. far \in FarType /\ net \subseteq NetType
  BY Alive
<1>2. /\ Ok(out', w, c, far)
      /\ net' \subseteq NetType /\ UnderWay(out', net', w) /\ Offered(net', far.edge, w)
  BY <1>1, OutputStep
<1>3. Sound(out', sent', net', far')
  BY <1>1, <1>2, SoundFrom
<1> QED
  BY <1>3 DEF IInv

LEMMA EndedStates ==
  /\ "aborted" \in Ended /\ "TIME_WAIT" \in Ended /\ "closed" \in Ended
  /\ \A s \in Open \cup Closing : s \notin Ended
  /\ \A s \in Closing : s \notin Open
  BY DEF Open, Closing, Ended

LEMMA PurgeSound ==
  ASSUME IInv, Purge, UNCHANGED <<sent, far>>
  PROVE  IInv'
<1>1. out' = [tcp_pcb_purge(out) EXCEPT !.state = "aborted"] /\ net' = {}
  BY DEF Purge
<1>2. Types(out, sent, net, far)
  BY DEF IInv, Sound
<1>3. out \in PcbType
  BY <1>2 DEF Types
<1>4. <<>> \in Seq(SegType) /\ "aborted" \in Open \cup Closing \cup Ended
  BY EndedStates
<1>5. /\ out' \in PcbType /\ out'.state = "aborted" /\ out'.snd_nxt = out.snd_nxt /\ out'.lastack = out.lastack
      /\ out'.snd_buf = out.snd_buf /\ out'.cwnd = out.cwnd
  BY <1>1, <1>3, <1>4 DEF tcp_pcb_purge, PcbType
<1>6. Types(out', sent', net', far')
  BY <1>1, <1>2, <1>5 DEF Types
<1>7. Offered(net', far'.edge, sent'.written)
  BY <1>1 DEF Offered
<1> QED
  BY <1>5, <1>6, <1>7, EndedStates DEF IInv, Sound

LEMMA InitSound == ASSUME SendInit PROVE IInv
<1>1. /\ out.unsent = <<>> /\ out.unacked = <<>> /\ out.snd_nxt = 0 /\ out.lastack = 0 /\ out.snd_lbb = 0
      /\ out.snd_buf = SndBuf /\ out.snd_wnd = PeerWnd /\ out.snd_wl1 = 1 /\ out.snd_wl2 = 0
      /\ out.cwnd = Smaller(2 * SMss, PeerWnd) /\ out.ssthresh = PeerWnd
      /\ out.fin = FALSE /\ out.state = "ESTABLISHED"
  BY DEF SendInit
<1>2. /\ sent \in SentType /\ sent.written = 0 /\ sent.confirmed = 0 /\ net = {}
      /\ far \in FarType /\ far.rcv = 0 /\ far.edge = PeerWnd /\ far.late = <<>> /\ far.seq = 1
  BY Sizes DEF SendInit, SentType, FarType
<1>3. Smaller(2 * SMss, PeerWnd) \in Nat /\ SMss <= Smaller(2 * SMss, PeerWnd) /\ Smaller(2 * SMss, PeerWnd) <= PeerWnd
  BY Sizes DEF Smaller
<1>4. out \in PcbType
  <2>1. <<>> \in Seq(SegType) /\ "ESTABLISHED" \in Open \cup Closing \cup Ended
    BY DEF Open
  <2>2. 0 \in 0..4 /\ 0 \in 0..(MaxRtx + 1)
    BY Sizes
  <2>3. PICK k : k = Smaller(2 * SMss, PeerWnd) /\ k \in Nat
    BY <1>3
  <2> QED
    BY <2>1, <2>2, <2>3, Sizes DEF SendInit, PcbType
<1>5. StreamEnd(out, 0) = 0
  BY <1>1 DEF StreamEnd, Int1
<1>6. Queues(out, 0)
  <2>1. Line(<<>>, 0, 0, 0) /\ Pending(<<>>, 0)
    BY LineNone DEF Pending
  <2>2. 0 \in 0..0 /\ 0 <= 0
    OBVIOUS
  <2> QED
    BY <1>1, <1>5, <2>1, <2>2 DEF Queues
<1>7. InFlight(out) /\ Counts(out, 0, 0) /\ Congestion(out)
  BY <1>1, <1>3, <1>5, Sizes DEF InFlight, Counts, Congestion, Smaller
<1>8. Peer(out, far, 0)
  BY <1>1, <1>2, <1>5, Sizes DEF Peer, Known, NotNewer, Reached
<1>9. Ok(out, 0, 0, far)
  BY <1>1, <1>4, <1>6, <1>7, <1>8 DEF Ok, Open
<1>10. UnderWay(out, net, 0) /\ Offered(net, far.edge, 0) /\ net \subseteq NetType
  BY <1>2 DEF UnderWay, Offered
<1>11. Sound(out, sent, net, far)
  BY <1>2, <1>9, <1>10, SoundFrom, Sizes
<1> QED
  BY <1>11 DEF IInv

-----------------------------------------------------------------------------
(* Timers and the peer *)

LEMMA PollSound == ASSUME IInv, Poll PROVE IInv'
<1>1. out.state \notin Ended /\ tcp_output(out) /\ UNCHANGED <<sent, far>>
  BY DEF Poll
<1>2. PICK p, w, c : p = out /\ w = sent.written /\ c = sent.confirmed /\ w \in Nat
  BY Alive
<1>3. /\ Ok(p, w, c, far) /\ UnderWay(p, net, w) /\ Offered(net, far.edge, w) /\ tcp_output(p)
      /\ w <= MaxOut /\ sent' \in SentType /\ sent'.written = w /\ sent'.confirmed = c /\ far' = far
  BY <1>1, <1>2, Alive
<1> QED
  BY <1>2, <1>3, OutputSound

\* The window that is left after a loss.
LEMMA HalfWindowFacts ==
  ASSUME NEW p \in PcbType
  PROVE  HalfWindow(p) \in Nat /\ 2 * SMss <= HalfWindow(p)
<1>1. Smaller(p.cwnd, p.snd_wnd) \in Nat
  BY PcbFacts DEF Smaller
<1>2. Smaller(p.cwnd, p.snd_wnd) \div 2 \in Nat
  BY <1>1
<1> QED
  BY <1>2, Sizes DEF HalfWindow

LEMMA MoreRtxFacts == ASSUME NEW n \in 0..(MaxRtx + 1) PROVE MoreRtx(n) \in 0..(MaxRtx + 1)
  BY Sizes DEF MoreRtx, Smaller

\* The pcb when its retransmission timer has run out.
Rto(p) == tcp_rexmit_rto([p EXCEPT !.ssthresh = HalfWindow(p), !.cwnd = SMss])

\* Everything unacked goes back to unsent, in front.
LEMMA RtoOk ==
  ASSUME NEW p, NEW w \in Nat, NEW c, NEW r \in FarType, Ok(p, w, c, r), NEW q, q = Rto(p)
  PROVE  /\ Ok(q, w, c, r)
         /\ q.snd_nxt = p.snd_nxt /\ q.lastack = p.lastack /\ q.fin = p.fin
<1>1. p \in PcbType
  BY DEF Ok
<1>2. PICK A, U, e, h : /\ A = p.unacked /\ U = p.unsent /\ StreamEnd(p, w) = e
                        /\ h = HalfWindow(p) /\ h \in Nat /\ 2 * SMss <= h
  BY <1>1, HalfWindowFacts
<1>3. PICK a \in Nat, b \in Nat : /\ a <= b /\ b <= e /\ a <= p.lastack /\ Line(A, a, b, w) /\ Line(U, b, e, w)
                                  /\ Pending(A, p.lastack) /\ Pending(U, p.lastack) /\ e \in Nat
  <2>1. PICK a, b \in 0..StreamEnd(p, w) :
          /\ a <= p.lastack /\ Line(p.unacked, a, b, w) /\ Line(p.unsent, b, StreamEnd(p, w), w)
          /\ Pending(p.unacked, p.lastack) /\ Pending(p.unsent, p.lastack)
    BY DEF Ok, Queues
  <2>2. a \in Nat /\ b \in Nat /\ a <= b /\ b <= StreamEnd(p, w) /\ StreamEnd(p, w) \in Nat
    BY <1>1, <2>1, PcbFacts DEF Line
  <2> QED
    BY <1>2, <2>1, <2>2
<1>4. PICK S, k : S = Cat(A, U) /\ k = MoreRtx(p.nrtx) /\ k \in 0..(MaxRtx + 1)
  BY <1>1, PcbFacts, MoreRtxFacts
<1>5. Line(S, a, e, w)
  BY <1>3, <1>4, LineCat
<1>6. S \in Seq(SegType) /\ A \in Seq(SegType) /\ U \in Seq(SegType)
  BY <1>3, <1>5, LineFacts
<1>7. q = [p EXCEPT !.ssthresh = h, !.cwnd = SMss, !.unsent = S, !.unacked = <<>>, !.nrtx = k]
  BY <1>1, <1>2, <1>4 DEF Rto, tcp_rexmit_rto, Cat, PcbType
<1>8. <<>> \in Seq(SegType) /\ SMss \in Nat
  BY Sizes
<1>9. /\ q \in PcbType /\ q.unsent = S /\ q.unacked = <<>> /\ q.ssthresh = h /\ q.cwnd = SMss
      /\ q.snd_nxt = p.snd_nxt /\ q.lastack = p.lastack /\ q.fin = p.fin /\ q.state = p.state
      /\ q.snd_lbb = p.snd_lbb /\ q.snd_buf = p.snd_buf
      /\ q.snd_wnd = p.snd_wnd /\ q.snd_wl1 = p.snd_wl1 /\ q.snd_wl2 = p.snd_wl2
  BY <1>1, <1>2, <1>4, <1>6, <1>7, <1>8, ZenonT(40) DEF PcbType
<1>10. StreamEnd(q, w) = e
  BY <1>2, <1>9 DEF StreamEnd
<1>11. Pending(S, p.lastack)
  <2> DEFINE P == {x \in SegType : EndSeq(x) > p.lastack}
  <2>1. (\A i \in 1..Len(A) : A[i] \in P) /\ (\A i \in 1..Len(U) : U[i] \in P)
    BY <1>3, LineFacts DEF Pending
  <2> HIDE DEF P
  <2>2. \A i \in 1..Len(Cat(A, U)) : Cat(A, U)[i] \in P
    BY <1>6, <2>1, KindCat
  <2> QED
    BY <1>4, <2>2 DEF P, Pending
<1>12. Queues(q, w)
  <2>1. Line(<<>>, a, a, w) /\ a \in 0..e /\ Pending(<<>>, p.lastack)
    BY <1>3, LineNone DEF Pending
  <2> QED
    BY <1>3, <1>5, <1>9, <1>10, <1>11, <2>1 DEF Queues
<1>13. InFlight(q) /\ Congestion(q)
  BY <1>2, <1>9, Sizes DEF InFlight, Congestion
<1>14. Counts(q, w, c)
  BY <1>2, <1>9, <1>10 DEF Ok, Counts
<1>15. Peer(q, r, w)
  BY <1>2, <1>9, <1>10 DEF Ok, Peer, Known, Past, Reached
<1> QED
  BY <1>9, <1>12, <1>13, <1>14, <1>15 DEF Ok

LEMMA RetransmitSound == ASSUME IInv, Retransmit PROVE IInv'
<1>1. /\ out.state \notin Ended /\ UNCHANGED <<sent, far>>
      /\ tcp_output(Rto(out))
  BY DEF Retransmit, Rto
<1>2. PICK o, p, w, c, r : /\ o = out /\ w = sent.written /\ w \in Nat /\ c = sent.confirmed /\ r = far
                           /\ p = Rto(o)
  BY Alive
<1>3. Ok(o, w, c, r) /\ r \in FarType /\ UnderWay(o, net, w)
  BY <1>1, <1>2, Alive
<1>4. Ok(p, w, c, r) /\ p.snd_nxt = o.snd_nxt /\ p.lastack = o.lastack /\ p.fin = o.fin
  BY <1>2, <1>3, RtoOk
<1>5. UnderWay(p, net, w)
  BY <1>3, <1>4 DEF UnderWay, Reached, StreamEnd
<1>6. /\ Ok(p, w, c, far) /\ Offered(net, far.edge, w) /\ tcp_output(p)
      /\ w <= MaxOut /\ sent' \in SentType /\ sent'.written = w /\ sent'.confirmed = c /\ far' = far
  BY <1>1, <1>2, <1>4, Alive
<1> QED
  BY <1>2, <1>5, <1>6, OutputSound

LEMMA GiveUpSound == ASSUME IInv, GiveUp PROVE IInv'
  BY PurgeSound DEF GiveUp

LEMMA CloseTimeoutSound == ASSUME IInv, CloseTimeout PROVE IInv'
  BY PurgeSound DEF CloseTimeout

\* The first segment of the two queues is the one that is acknowledged next.
LEMMA FirstOf ==
  ASSUME NEW p, NEW w \in Nat, p \in PcbType, Queues(p, w), NEW q, q = p.unacked \o p.unsent, q # <<>>
  PROVE  /\ q[1].seq \in Nat /\ q[1].seq <= p.lastack /\ p.lastack < StreamEnd(p, w)
         /\ q[1].seq + 1 <= StreamEnd(p, w)
<1>1. PICK e \in Nat : StreamEnd(p, w) = e
  BY PcbFacts
<1>2. PICK a, b \in 0..e : /\ a <= p.lastack /\ Line(p.unacked, a, b, w) /\ Line(p.unsent, b, e, w)
                           /\ Pending(p.unacked, p.lastack) /\ Pending(p.unsent, p.lastack)
  BY <1>1 DEF Queues
<1>3. Line(q, a, e, w)
  <2>1. q = Cat(p.unacked, p.unsent)
    BY DEF Cat
  <2>2. a \in Nat /\ b \in Nat
    BY <1>2
  <2>3. Line(Cat(p.unacked, p.unsent), a, e, w)
    BY <1>2, <2>2, LineCat
  <2> QED
    BY <2>1, <2>3
<1>4. a \in Nat /\ p.lastack \in Nat
  BY <1>2, PcbFacts
<1>5. Proper(q[1], w) /\ q[1].seq = a /\ a < EndSeq(q[1]) /\ EndSeq(q[1]) <= e
  BY <1>3, <1>4, LineFirst
<1>6. EndSeq(q[1]) > p.lastack
  <2>0. PICK A, U : /\ A = p.unacked /\ U = p.unsent /\ A \in Seq(SegType) /\ U \in Seq(SegType)
                    /\ q = A \o U
    BY PcbFacts
  <2>1. CASE A # <<>>
    <3>2. 1 \in 1..Len(A)
      <4>1. Len(A) \in Nat /\ Len(A) # 0
        BY <2>0, <2>1, NoneSeq, LenNat
      <4> QED
        BY <4>1
    <3>1. 1 \in 1..Len(A) /\ q[1] = A[1]
      <4>1. A \in Seq(SegType) /\ U \in Seq(SegType)
        BY <2>0
      <4>2. \A i \in 1..Len(A) : Cat(A, U)[i] = A[i]
        BY <4>1, CatAt
      <4>3. q = Cat(A, U)
        BY <2>0 DEF Cat
      <4> QED
        BY <3>2, <4>2, <4>3
    <3> QED
      BY <1>2, <2>0, <3>1 DEF Pending
  <2>2. CASE A = <<>>
    <3>1. q = U
      BY <2>0, <2>2
    <3>2. 1 \in 1..Len(U)
      BY <2>0, <3>1
    <3> QED
      BY <1>2, <2>0, <3>1, <3>2 DEF Pending
  <2> QED
    BY <2>1, <2>2
<1>7. EndSeq(q[1]) \in Nat
  BY <1>5, SegFacts
<1>8. PICK l \in Nat, f \in Nat : l = p.lastack /\ f = EndSeq(q[1])
  BY <1>4, <1>7
<1>9. a <= l /\ l < f /\ f <= e /\ a \in Nat
  BY <1>2, <1>4, <1>5, <1>6, <1>8
<1>10. l < e /\ a + 1 <= e
  BY <1>9
<1> QED
  BY <1>1, <1>5, <1>8, <1>9, <1>10

LEMMA ProbeSound == ASSUME IInv, tcp_zero_window_probe PROVE IInv'
<1>1. PICK q : /\ q = out.unacked \o out.unsent /\ q # <<>>
               /\ net' = net \cup {[from |-> q[1].seq, to |-> q[1].seq + 1]}
  BY DEF tcp_zero_window_probe
<1>2. out.state \notin Ended /\ UNCHANGED <<out, sent, far>>
  BY DEF tcp_zero_window_probe
<1>3. PICK p, w, c, r, N : /\ p = out /\ w = sent.written /\ w \in Nat /\ c = sent.confirmed
                           /\ r = far /\ N = net
  BY Alive
<1>4. /\ Ok(p, w, c, r) /\ r \in FarType /\ UnderWay(p, N, w) /\ N \subseteq NetType /\ Offered(N, r.edge, w)
      /\ p \in PcbType
  BY <1>2, <1>3, Alive
<1>5. PICK x : x = q[1].seq
  OBVIOUS
<1>6. x \in Nat /\ x <= p.lastack /\ x + 1 <= StreamEnd(p, w)
  BY <1>1, <1>3, <1>4, <1>5, FirstOf DEF Ok
<1>7. PICK s : s = [from |-> x, to |-> x + 1]
  OBVIOUS
<1>8. s \in NetType /\ s.to = x + 1 /\ s.from = x
  BY <1>6, <1>7 DEF NetType
<1>9. p.lastack \in Nat /\ r.edge \in Nat /\ r.rcv \in Nat /\ p.snd_wl2 \in Nat
  BY <1>4, PcbFacts, FarFacts
<1>10. x <= r.edge
  <2>1. p.lastack <= p.snd_wl2 /\ p.snd_wl2 <= r.rcv /\ r.rcv <= r.edge
    BY <1>4 DEF Ok, Peer, Known, NotNewer
  <2> QED
    BY <1>6, <1>9, <2>1
<1>11. Reached(p, x + 1)
  BY <1>6, <1>9 DEF Reached
<1>12. UnderWay(p, N \cup {s}, w) /\ Offered(N \cup {s}, r.edge, w) /\ N \cup {s} \subseteq NetType
  BY <1>4, <1>6, <1>8, <1>10, <1>11 DEF UnderWay, Offered
<1>13. net' = N \cup {s}
  BY <1>1, <1>3, <1>5, <1>7
<1>14. Sound(p, sent, N \cup {s}, r)
  BY <1>3, <1>4, <1>12, Alive, SoundFrom
<1> QED
  BY <1>2, <1>3, <1>13, <1>14 DEF IInv

\* An answer of the peer, with or without its FIN.
IsAnswer(a, r) == a \in AckType /\ a.ack = r.rcv /\ a.ack + a.wnd = r.edge /\ a.seq = r.seq

LEMMA AnswerIs ==
  ASSUME far \in FarType, far.rcv <= far.edge
  PROVE  IsAnswer(Answer, far) /\ IsAnswer([Answer EXCEPT !.fin = TRUE], far)
<1>1. far.rcv \in Nat /\ far.edge \in Nat /\ far.seq \in Nat
  BY FarFacts
<1>2. PICK d \in Nat : d = far.edge - far.rcv /\ far.rcv + d = far.edge
  <2>1. far.edge - far.rcv \in Nat /\ far.rcv + (far.edge - far.rcv) = far.edge
    BY <1>1
  <2> QED
    BY <2>1
<1>3. Answer = [ack |-> far.rcv, wnd |-> d, seq |-> far.seq, fin |-> FALSE]
  BY <1>2 DEF Answer
<1> QED
  BY <1>1, <1>2, <1>3 DEF IsAnswer, AckType

\* The present answer is of the past, and as new as any.
LEMMA AnswerPast ==
  ASSUME NEW p \in PcbType, NEW r \in FarType, NEW w, Peer(p, r, w), NEW a, IsAnswer(a, r)
  PROVE  Past(a, p, r)
<1>1. r.rcv \in Nat /\ r.edge \in Nat /\ r.seq \in Nat
  BY FarFacts
<1>2. NotNewer(p.snd_wl1, p.snd_wl2, p.snd_wl2 + p.snd_wnd, r.seq, r.rcv, r.edge)
  BY DEF Peer, Known
<1>3. NotNewer(r.seq, r.rcv, r.edge, r.seq, r.rcv, r.edge)
  BY <1>1 DEF NotNewer
<1> QED
  BY <1>2, <1>3 DEF IsAnswer, Past

\* The peer goes on from r to t.
Moves(r, t) == r.rcv <= t.rcv /\ r.edge <= t.edge /\ r.seq <= t.seq

\* What the peer's answers under way may be after a step of it.
LateOf(r, t) == t.late = r.late \/ t.late = <<>> \/ \E a : IsAnswer(a, r) /\ t.late = <<a>>

LEMMA PeerMoves ==
  ASSUME NEW p \in PcbType, NEW r \in FarType, NEW t \in FarType, NEW w \in Nat, Peer(p, r, w),
         Moves(r, t), LateOf(r, t), t.rcv <= t.edge, t.edge <= t.rcv + PeerWnd,
         t.rcv <= StreamEnd(p, w), Reached(p, t.rcv)
  PROVE  Peer(p, t, w)
<1>1. /\ r.rcv \in Nat /\ r.edge \in Nat /\ r.seq \in Nat /\ t.rcv \in Nat /\ t.edge \in Nat /\ t.seq \in Nat
      /\ r.rcv <= t.rcv /\ r.edge <= t.edge /\ r.seq <= t.seq
      /\ p.snd_wl1 \in Nat /\ p.snd_wl2 \in Nat /\ p.snd_wnd \in Nat
  BY FarFacts, PcbFacts DEF Moves
<1>2. Known(p, t)
  <2>1. p.lastack <= p.snd_wl2 /\ p.snd_wl1 <= r.seq /\ p.snd_wl2 <= r.rcv /\ p.snd_wl2 + p.snd_wnd <= r.edge
    BY DEF Peer, Known, NotNewer
  <2>2. p.snd_wl1 <= t.seq /\ p.snd_wl2 <= t.rcv /\ p.snd_wl2 + p.snd_wnd <= t.edge
    BY <1>1, <2>1
  <2> QED
    BY <2>1, <2>2 DEF Known, NotNewer
<1>3. ASSUME NEW a \in AckType, Past(a, p, r) PROVE Past(a, p, t)
  <2>1. a.ack \in Nat /\ a.wnd \in Nat /\ a.seq \in Nat
    BY DEF AckType
  <2>2. NotNewer(a.seq, a.ack, a.ack + a.wnd, t.seq, t.rcv, t.edge)
    BY <1>1, <1>3, <2>1 DEF Past, NotNewer
  <2> QED
    BY <1>3, <2>2 DEF Past
<1>4. ASSUME t.late # <<>> PROVE t.late = <<t.late[1]>> /\ Past(t.late[1], p, t)
  <2>1. CASE t.late = r.late
    <3>1. r.late = <<r.late[1]>> /\ Past(r.late[1], p, r)
      BY <1>4, <2>1 DEF Peer
    <3>2. r.late[1] \in AckType
      BY <1>4, <2>1, FarFacts
    <3> QED
      BY <1>3, <2>1, <3>1, <3>2
  <2>2. CASE \E a : IsAnswer(a, r) /\ t.late = <<a>>
    <3>1. PICK a : IsAnswer(a, r) /\ t.late = <<a>>
      BY <2>2
    <3>2. Past(a, p, r) /\ a \in AckType
      BY <3>1, AnswerPast DEF IsAnswer
    <3>3. t.late[1] = a
      BY <3>1
    <3> QED
      BY <1>3, <3>1, <3>2, <3>3
  <2> QED
    BY <1>4, <2>1, <2>2 DEF LateOf
<1> QED
  BY <1>2, <1>4 DEF Peer

\* A step of the peer that keeps the pcb.
LEMMA PeerSound ==
  ASSUME IInv, out.state \notin Ended, UNCHANGED <<out, sent>>, net' \subseteq net,
         far' \in FarType, Moves(far, far'), LateOf(far, far'),
         far'.rcv <= far'.edge, far'.edge <= far'.rcv + PeerWnd,
         far'.rcv <= StreamEnd(out, sent.written), Reached(out, far'.rcv)
  PROVE  IInv'
<1>1. PICK p, w, c, r, t, N, S : /\ p = out /\ w = sent.written /\ w \in Nat /\ c = sent.confirmed
                                 /\ r = far /\ N = net /\ t = far' /\ S = net'
  BY Alive
<1>2. /\ Ok(p, w, c, r) /\ r \in FarType /\ UnderWay(p, N, w) /\ N \subseteq NetType /\ Offered(N, r.edge, w)
      /\ p \in PcbType /\ t \in FarType /\ S \subseteq N /\ w <= MaxOut
  BY <1>1, Alive
<1>3. Peer(p, t, w)
  <2>1. Peer(p, r, w) /\ Moves(r, t) /\ LateOf(r, t)
    BY <1>1, <1>2 DEF Ok
  <2>2. t.rcv <= t.edge /\ t.edge <= t.rcv + PeerWnd /\ t.rcv <= StreamEnd(p, w) /\ Reached(p, t.rcv)
    BY <1>1
  <2> QED
    BY <1>1, <1>2, <2>1, <2>2, PeerMoves
<1>4. Ok(p, w, c, t) /\ UnderWay(p, S, w) /\ S \subseteq NetType
  BY <1>2, <1>3 DEF Ok, UnderWay
<1>5. Offered(S, t.edge, w)
  <2>1. r.edge \in Nat /\ t.edge \in Nat /\ r.edge <= t.edge
    BY <1>1, <1>2, FarFacts DEF Moves
  <2>2. ASSUME NEW s \in S
        PROVE  s.to <= t.edge \/ (s.to = s.from + 1 /\ s.from <= t.edge) \/ (s.to = w + 1 /\ s.to <= t.edge + 1)
    <3>1. s.to \in Nat /\ s.from \in Nat
      BY <1>2 DEF NetType
    <3>2. s.to <= r.edge \/ (s.to = s.from + 1 /\ s.from <= r.edge) \/ (s.to = w + 1 /\ s.to <= r.edge + 1)
      BY <1>2 DEF Offered
    <3> QED
      BY <2>1, <3>1, <3>2
  <2> QED
    BY <2>2 DEF Offered
<1>6. sent \in SentType
  BY Alive
<1>7. Sound(p, sent, S, t)
  BY <1>1, <1>2, <1>4, <1>5, <1>6, SoundFrom
<1> QED
  BY <1>1, <1>7 DEF IInv

\* The effect of Changes on the peer.
LEMMA ChangesIs ==
  ASSUME far \in FarType, far.rcv <= far.edge, NEW held \in BOOLEAN, NEW v \in FarType, v.late = far.late,
         Changes(v, held)
  PROVE  /\ far' \in FarType /\ far'.rcv = v.rcv /\ far'.edge = v.edge /\ far'.seq = v.seq
         /\ LateOf(far, far')
<1>1. PICK a : a = Answer /\ IsAnswer(a, far) /\ a \in AckType
  BY AnswerIs DEF IsAnswer
<1>2. PICK l : l = (IF held THEN <<a>> ELSE v.late) /\ l \in Seq(AckType)
  <2>1. <<a>> \in Seq(AckType) /\ v.late \in Seq(AckType)
    BY <1>1, FarFacts
  <2> QED
    BY <2>1
<1>3. far' = [v EXCEPT !.late = l]
  BY <1>1, <1>2 DEF Changes
<1>4. far' \in FarType /\ far'.rcv = v.rcv /\ far'.edge = v.edge /\ far'.seq = v.seq /\ far'.late = l
  BY <1>2, <1>3 DEF FarType
<1>5. LateOf(far, far')
  BY <1>1, <1>2, <1>4 DEF LateOf
<1> QED
  BY <1>4, <1>5

LEMMA ArrivesSound ==
  ASSUME IInv, NEW seg \in net, NEW held \in BOOLEAN, Arrives(seg, held)
  PROVE  IInv'
<1>1. PICK k : k = Smaller(seg.to, far.edge)
  OBVIOUS
<1>2. /\ out.state \notin Ended /\ far.rcv < k /\ UNCHANGED <<out, sent>>
      /\ Changes([far EXCEPT !.rcv = k], held) /\ net' = {x \in net : x.to > k}
  BY <1>1 DEF Arrives
<1>3. /\ far \in FarType /\ far.rcv \in Nat /\ far.edge \in Nat /\ far.seq \in Nat /\ seg.to \in Nat
      /\ far.rcv <= far.edge /\ far.edge <= far.rcv + PeerWnd
      /\ seg.to <= StreamEnd(out, sent.written) /\ Reached(out, seg.to)
      /\ out.snd_nxt \in Nat /\ out.lastack \in Nat /\ StreamEnd(out, sent.written) \in Nat
  <2>1. seg \in NetType
    BY Alive
  <2>2. far \in FarType /\ out \in PcbType /\ sent.written \in Nat
    BY Alive
  <2> QED
    BY <1>2, <2>1, <2>2, Alive, FarFacts, PcbFacts DEF NetType, Ok, Peer, UnderWay
<1>4. k \in Nat /\ k <= seg.to /\ k <= far.edge
  BY <1>1, <1>3 DEF Smaller
<1>5. PICK v : v = [far EXCEPT !.rcv = k]
  OBVIOUS
<1>6. v \in FarType /\ v.rcv = k /\ v.edge = far.edge /\ v.seq = far.seq /\ v.late = far.late
  BY <1>3, <1>4, <1>5 DEF FarType
<1>7. /\ far' \in FarType /\ far'.rcv = k /\ far'.edge = far.edge /\ far'.seq = far.seq
      /\ LateOf(far, far')
  <2>1. Changes(v, held)
    BY <1>2, <1>5
  <2> QED
    BY <1>3, <1>6, <2>1, ChangesIs
<1>8. Moves(far, far') /\ far'.rcv <= far'.edge
  BY <1>2, <1>3, <1>4, <1>7 DEF Moves
<1>9. far'.edge <= far'.rcv + PeerWnd
  <2>1. far.edge <= k + PeerWnd
    BY <1>2, <1>3, <1>4, Sizes
  <2> QED
    BY <1>7, <2>1
<1>10. far'.rcv <= StreamEnd(out, sent.written) /\ Reached(out, far'.rcv)
  <2>1. k <= StreamEnd(out, sent.written)
    BY <1>3, <1>4
  <2>2. Reached(out, k)
    BY <1>3, <1>4 DEF Reached
  <2> QED
    BY <1>7, <2>1, <2>2
<1>11. net' \subseteq net
  BY <1>2
<1> QED
  BY <1>2, <1>7, <1>8, <1>9, <1>10, <1>11, PeerSound

LEMMA PeerReadsSound ==
  ASSUME IInv, NEW held \in BOOLEAN, PeerReads(held)
  PROVE  IInv'
<1>1. PICK k : k = far.rcv + PeerWnd
  OBVIOUS
<1>2. /\ out.state \notin Ended /\ far.edge < k /\ UNCHANGED <<out, sent, net>>
      /\ Changes([far EXCEPT !.edge = k], held)
  BY <1>1 DEF PeerReads
<1>3. /\ far \in FarType /\ far.rcv \in Nat /\ far.edge \in Nat /\ far.seq \in Nat
      /\ far.rcv <= far.edge /\ far.rcv <= StreamEnd(out, sent.written) /\ Reached(out, far.rcv)
  BY <1>2, Alive, FarFacts DEF Ok, Peer
<1>4. k \in Nat /\ far.rcv <= k
  BY <1>1, <1>3, Sizes
<1>5. PICK v : v = [far EXCEPT !.edge = k]
  OBVIOUS
<1>6. v \in FarType /\ v.rcv = far.rcv /\ v.edge = k /\ v.seq = far.seq /\ v.late = far.late
  BY <1>3, <1>4, <1>5 DEF FarType
<1>7. /\ far' \in FarType /\ far'.rcv = far.rcv /\ far'.edge = k /\ far'.seq = far.seq
      /\ LateOf(far, far')
  <2>1. Changes(v, held)
    BY <1>2, <1>5
  <2> QED
    BY <1>3, <1>6, <2>1, ChangesIs
<1>8. Moves(far, far') /\ far'.rcv <= far'.edge
  BY <1>2, <1>3, <1>4, <1>7 DEF Moves
<1>9. far'.edge <= far'.rcv + PeerWnd
  BY <1>1, <1>4, <1>7
<1> QED
  BY <1>2, <1>3, <1>7, <1>8, <1>9, PeerSound

-----------------------------------------------------------------------------
(* The application *)

\* What tcp_write needs to know of quotients and multiples.
LEMMA Quotient ==
  ASSUME NEW a \in Nat, NEW m \in Nat, m > 0
  PROVE  a \div m \in Nat /\ (a \div m) * m <= a /\ a < (a \div m) * m + m
  OBVIOUS

LEMMA Multiple ==
  ASSUME NEW i \in Nat, NEW m \in Nat
  PROVE  i * m \in Nat /\ (i + 1) * m = i * m + m
  OBVIOUS

LEMMA Multiples ==
  ASSUME NEW i \in Nat, NEW j \in Nat, NEW m \in Nat, i <= j
  PROVE  i * m <= j * m
<1>1. PICK d \in Nat : j = i + d
  <2>1. j - i \in Nat /\ j = i + (j - i)
    OBVIOUS
  <2> QED
    BY <2>1
<1>2. (i + d) * m = i * m + d * m /\ d * m \in Nat /\ i * m \in Nat
  OBVIOUS
<1> QED
  BY <1>1, <1>2

\* The new segments of a write of n bytes at s.
Chunks(s, n) ==
  [i \in 1..((n + MssLocal - 1) \div MssLocal) |->
     [seq |-> s + (i - 1) * MssLocal, len |-> Smaller(MssLocal, n - (i - 1) * MssLocal), fin |-> FALSE]]

LEMMA ChunksLine ==
  ASSUME NEW s \in Nat, NEW n \in Nat
  PROVE  Line(Chunks(s, n), s, s + n, s + n)
<1>1. PICK m \in Nat : m = MssLocal /\ m > 0
  BY Sizes
<1>2. PICK k \in Nat : k = (n + m - 1) \div m /\ k * m <= n + m - 1 /\ n + m - 1 < k * m + m
  <2>1. n + m - 1 \in Nat
    BY <1>1
  <2> QED
    BY <1>1, <2>1, Quotient
<1>3. PICK q : q = Chunks(s, n)
  OBVIOUS
<1> DEFINE f(i) == (i - 1) * m
<1>4. ASSUME NEW i \in 1..k
      PROVE  /\ f(i) \in Nat /\ f(i) < n
             /\ i * m = f(i) + m
             /\ i < k => f(i) + m < n
             /\ i = k => n <= f(i) + m
  <2>1. PICK h \in Nat : h = i - 1 /\ i = h + 1
    OBVIOUS
  <2>2. h * m \in Nat /\ (h + 1) * m = h * m + m
    BY Multiple
  <2>3. f(i) = h * m /\ i * m = h * m + m
    BY <2>1, <2>2
  <2>4. i * m <= k * m /\ k * m \in Nat /\ i * m \in Nat
    BY Multiples, Multiple
  <2>5. i < k => (i + 1) * m <= k * m /\ (i + 1) * m = i * m + m
    BY Multiples, Multiple
  <2>6. PICK x \in Nat, y \in Nat, z \in Nat : x = f(i) /\ y = i * m /\ z = k * m /\ y = x + m /\ y <= z
    BY <2>2, <2>3, <2>4
  <2>7. x < n
    BY <1>1, <1>2, <2>6
  <2>8. i < k => y + m <= z
    BY <2>5, <2>6
  <2>9. i < k => x + m < n
    BY <1>1, <1>2, <2>6, <2>8
  <2>10. i = k => n <= x + m
    BY <1>1, <1>2, <2>6
  <2> QED
    BY <2>6, <2>7, <2>9, <2>10
<1>5. q = [i \in 1..k |-> [seq |-> s + f(i), len |-> Smaller(m, n - f(i)), fin |-> FALSE]]
  BY <1>1, <1>2, <1>3 DEF Chunks
<1>6. ASSUME NEW i \in 1..k, NEW j \in 1..k, i < j PROVE f(i) + m <= f(j)
  <2>1. i \in Nat /\ j - 1 \in Nat /\ i <= j - 1
    BY <1>6
  <2>2. i * m <= (j - 1) * m
    BY <2>1, Multiples
  <2> QED
    BY <1>4, <2>2
<1>7. ASSUME NEW i \in 1..k, NEW j \in 1..k, j = i + 1 PROVE f(j) = f(i) + m
  <2>1. j - 1 = i
    BY <1>7
  <2> QED
    BY <1>4, <2>1
<1> HIDE DEF f
<1>8. ASSUME NEW i \in 1..k
      PROVE  /\ q[i] \in SegType /\ q[i].seq = s + f(i) /\ q[i].fin = FALSE
             /\ EndSeq(q[i]) = s + Smaller(f(i) + m, n) /\ Proper(q[i], s + n)
  <2>1. PICK x \in Nat, l \in Nat : x = f(i) /\ l = Smaller(m, n - x) /\ l > 0 /\ l <= m /\ x + l = Smaller(x + m, n) /\ x + l <= n
    <3>1. PICK x \in Nat : x = f(i) /\ x < n
      BY <1>4
    <3>2. Smaller(m, n - x) \in Nat /\ Smaller(m, n - x) > 0 /\ Smaller(m, n - x) <= m /\ x + Smaller(m, n - x) = Smaller(x + m, n)
          /\ x + Smaller(m, n - x) <= n
      BY <1>1, <3>1 DEF Smaller
    <3> QED
      BY <3>1, <3>2
  <2>2. q[i] = [seq |-> s + x, len |-> l, fin |-> FALSE]
    BY <1>5, <2>1
  <2>3. q[i] \in SegType /\ q[i].seq = s + x /\ q[i].len = l /\ q[i].fin = FALSE
    BY <2>1, <2>2 DEF SegType
  <2>4. TcpLen(q[i]) = l /\ EndSeq(q[i]) = s + x + l
    BY <2>1, <2>3 DEF TcpLen, EndSeq
  <2>5. EndSeq(q[i]) # s + n + 1 /\ EndSeq(q[i]) = s + Smaller(x + m, n)
    BY <2>1, <2>4
  <2> QED
    BY <1>1, <2>1, <2>3, <2>4, <2>5 DEF Proper
<1>9. q \in Seq(SegType) /\ Len(q) = k
  <2>1. q \in [1..k -> SegType]
    <3>1. DOMAIN q = 1..k /\ q = [i \in DOMAIN q |-> q[i]]
      BY <1>5
    <3> QED
      BY <1>8, <3>1
  <2> HIDE <1>5
  <2> QED
    BY <2>1
<1>10. ASSUME NEW i \in 1..k
       PROVE  s <= q[i].seq /\ EndSeq(q[i]) <= s + n
  <2>1. PICK x \in Nat : x = f(i)
    BY <1>4
  <2>2. q[i].seq = s + x /\ EndSeq(q[i]) = s + Smaller(x + m, n)
    BY <1>8, <2>1
  <2> QED
    BY <1>1, <2>1, <2>2 DEF Smaller
<1>11. ASSUME NEW i \in 1..k, NEW j \in 1..k, i < j PROVE EndSeq(q[i]) <= q[j].seq
  <2>1. PICK x \in Nat, y \in Nat : x = f(i) /\ y = f(j) /\ x + m <= y
    BY <1>4, <1>6, <1>11
  <2>2. EndSeq(q[i]) = s + Smaller(x + m, n) /\ q[j].seq = s + y
    BY <1>8, <2>1
  <2> QED
    BY <1>1, <2>1, <2>2 DEF Smaller
<1>12. ASSUME NEW i \in 1..k, NEW j \in 1..k, j = i + 1 PROVE q[j].seq = EndSeq(q[i])
  <2>1. i < k
    BY <1>12
  <2>2. PICK x \in Nat : x = f(i) /\ x + m < n /\ f(j) = x + m
    BY <1>4, <1>7, <1>12, <2>1
  <2>3. EndSeq(q[i]) = s + Smaller(x + m, n) /\ q[j].seq = s + (x + m)
    BY <1>8, <2>2
  <2> QED
    BY <1>1, <2>2, <2>3 DEF Smaller
<1>13. q = <<>> => s = s + n
  <2>1. ASSUME q = <<>> PROVE n = 0
    <3>1. k = 0
      BY <1>9, <2>1
    <3>2. k * m = 0
      BY <3>1
    <3> QED
      BY <1>1, <1>2, <3>2
  <2> QED
    BY <2>1
<1>14. ASSUME q # <<>> PROVE q[1].seq = s /\ EndSeq(q[k]) = s + n
  <2>1. 1 \in 1..k /\ k \in 1..k
    <3>1. k # 0
      BY <1>9, <1>14, NoneSeq
    <3> QED
      BY <3>1
  <2>2. f(1) = 0
    BY <1>1 DEF f
  <2>3. q[1].seq = s
    <3>1. q[1].seq = s + f(1)
      BY <1>8, <2>1
    <3> QED
      BY <2>2, <3>1
  <2>4. PICK x \in Nat : x = f(k) /\ n <= x + m
    BY <1>4, <2>1
  <2>5. EndSeq(q[k]) = s + Smaller(x + m, n)
    BY <1>8, <2>1, <2>4
  <2> QED
    BY <1>1, <2>3, <2>4, <2>5 DEF Smaller
<1>15. Line(q, s, s + n, s + n)
  <2>1. \A i \in 1..Len(q) : Proper(q[i], s + n) /\ s <= q[i].seq /\ EndSeq(q[i]) <= s + n
    BY <1>8, <1>9, <1>10
  <2>2. \A i, j \in 1..Len(q) : i < j => EndSeq(q[i]) <= q[j].seq
    BY <1>9, <1>11
  <2>3. \A i, j \in 1..Len(q) : j = i + 1 => q[j].seq = EndSeq(q[i])
    BY <1>9, <1>12
  <2>4. q # <<>> => q[1].seq = s /\ EndSeq(q[Len(q)]) = s + n
    BY <1>9, <1>14
  <2>5. q \in Seq(SegType) /\ s <= s + n
    BY <1>9
  <2> QED
    BY <1>13, <2>1, <2>2, <2>3, <2>4, <2>5 DEF Line
<1> QED
  BY <1>3, <1>15

-----------------------------------------------------------------------------
(* The application *)

LEMMA ExceptAt ==
  ASSUME NEW T, NEW q \in Seq(T), NEW k \in 1..Len(q), NEW y \in T
  PROVE  /\ [q EXCEPT ![k] = y] \in Seq(T) /\ Len([q EXCEPT ![k] = y]) = Len(q)
         /\ [q EXCEPT ![k] = y][k] = y
         /\ \A i \in 1..Len(q) : i # k => [q EXCEPT ![k] = y][i] = q[i]
  OBVIOUS

\* A line of which the last segment alone changes.
LEMMA LastGrows ==
  ASSUME NEW s, NEW b \in Nat, NEW e \in Nat, NEW w \in Nat, NEW v \in Nat, Line(s, b, e, w), s # <<>>,
         e <= w, w <= v, NEW y, Proper(y, v), y.seq = s[Len(s)].seq
  PROVE  Line([s EXCEPT ![Len(s)] = y], b, EndSeq(y), v)
<1>1. PICK l \in Nat : l = Len(s) /\ l # 0 /\ s \in Seq(SegType)
  BY LineFacts
<1>2. PICK k \in 0..Len(s) : l = k + 1
  <2>1. l - 1 \in 0..Len(s) /\ l = (l - 1) + 1
    BY <1>1
  <2> QED
    BY <2>1
<1>3. PICK f, h, t : f = Upto(s, k) /\ h = Behind(s, k) /\ t = [s EXCEPT ![Len(s)] = y]
  OBVIOUS
<1>4. PICK m \in Nat : m <= e /\ Line(f, b, m, w) /\ Line(h, m, e, w)
  BY <1>3, LineSplit
<1>5. /\ f \in Seq(SegType) /\ Len(f) = k /\ (\A i \in 1..k : f[i] = s[i])
      /\ Len(h) = 1 /\ h[1] = s[l]
  <2>1. /\ f \in Seq(SegType) /\ Len(f) = k /\ (\A i \in 1..k : f[i] = s[i])
        /\ Len(h) = Len(s) - k /\ \A i \in 1..(Len(s) - k) : h[i] = s[k + i]
    BY <1>1, <1>3, PartsAt
  <2>2. Len(s) - k = 1 /\ 1 \in 1..(Len(s) - k) /\ k + 1 = l
    BY <1>1, <1>2
  <2> QED
    BY <2>1, <2>2
<1>6. y.seq = m
  <2>1. h \in Seq(SegType) /\ Len(h) # 0
    BY <1>4, <1>5, LineFacts
  <2>2. h # <<>>
    BY <2>1
  <2> QED
    BY <1>1, <1>4, <1>5, <2>2, LineFirst
<1>7. Line(f, b, m, v)
  BY <1>4, LineLater
<1>8. Line(<<y>>, m, EndSeq(y), v)
  BY <1>6, LineOne
<1>9. EndSeq(y) \in Nat /\ y \in SegType
  BY SegFacts
<1>10. Line(Cat(f, <<y>>), b, EndSeq(y), v)
  BY <1>7, <1>8, <1>9, LineCat
<1>11. t = Cat(f, <<y>>)
  <2>1. PICK c : c = Cat(f, <<y>>)
    OBVIOUS
  <2>2. <<y>> \in Seq(SegType) /\ Len(<<y>>) = 1 /\ <<y>>[1] = y
    BY <1>9
  <2>3. c \in Seq(SegType) /\ Len(c) = l /\ c[l] = y /\ \A i \in 1..k : c[i] = s[i]
    <3>1. PICK z : z = <<y>> /\ z \in Seq(SegType) /\ Len(z) = 1 /\ z[1] = y
      BY <2>2
    <3>2. /\ Cat(f, z) \in Seq(SegType) /\ Len(Cat(f, z)) = Len(f) + Len(z)
          /\ \A i \in 1..Len(f) : Cat(f, z)[i] = f[i]
          /\ \A i \in 1..Len(z) : Cat(f, z)[Len(f) + i] = z[i]
      <4>1. f \in Seq(SegType) /\ z \in Seq(SegType)
        BY <1>5, <3>1
      <4> QED
        BY <4>1 DEF Cat
    <3>3. c = Cat(f, z)
      BY <2>1, <3>1
    <3>4. 1 \in 1..Len(z) /\ l = Len(f) + 1
      BY <1>2, <1>5, <3>1
    <3>5. c \in Seq(SegType) /\ Len(c) = l /\ c[l] = y
      BY <1>5, <3>1, <3>2, <3>3, <3>4
    <3> QED
      BY <1>5, <3>2, <3>3, <3>5
  <2>4. t \in Seq(SegType) /\ Len(t) = l /\ t[l] = y /\ \A i \in 1..k : t[i] = s[i]
    <3>1. t = [s EXCEPT ![l] = y] /\ l \in 1..Len(s)
      BY <1>1, <1>3
    <3>2. /\ t \in Seq(SegType) /\ Len(t) = Len(s) /\ t[l] = y
          /\ \A i \in 1..Len(s) : i # l => t[i] = s[i]
      BY <1>1, <1>9, <3>1, ExceptAt
    <3>3. \A i \in 1..k : i \in 1..Len(s) /\ i # l
      BY <1>1, <1>2
    <3>4. Len(t) = l
      BY <1>1, <3>2
    <3> QED
      BY <3>2, <3>3, <3>4
  <2>5. \A i \in 1..l : t[i] = c[i]
    <3>1. \A i \in 1..l : i = l \/ i \in 1..k
      BY <1>2
    <3> QED
      BY <2>3, <2>4, <3>1
  <2>6. t = c
    BY <2>3, <2>4, <2>5, SameSeq
  <2> QED
    BY <2>1, <2>6
<1> QED
  BY <1>3, <1>10, <1>11

LEMMA QueuesAre ==
  ASSUME NEW p, NEW w \in Nat, p \in PcbType, Queues(p, w)
  PROVE  \E a \in Nat, b \in Nat, e \in Nat :
           /\ e = StreamEnd(p, w) /\ a <= b /\ b <= e /\ a <= p.lastack
           /\ Line(p.unacked, a, b, w) /\ Line(p.unsent, b, e, w)
           /\ Pending(p.unacked, p.lastack) /\ Pending(p.unsent, p.lastack)
<1>1. PICK a, b \in 0..StreamEnd(p, w) :
        /\ a <= p.lastack /\ Line(p.unacked, a, b, w) /\ Line(p.unsent, b, StreamEnd(p, w), w)
        /\ Pending(p.unacked, p.lastack) /\ Pending(p.unsent, p.lastack)
  BY DEF Queues
<1>2. a \in Nat /\ b \in Nat /\ a <= b /\ b <= StreamEnd(p, w) /\ StreamEnd(p, w) \in Nat
  BY <1>1, PcbFacts DEF Line
<1> QED
  BY <1>1, <1>2

\* The stream grows from w to v bytes and nothing is sent.
Longer(p, w, q, v) ==
  /\ q \in PcbType /\ q.lastack = p.lastack /\ q.snd_nxt = p.snd_nxt
  /\ q.snd_wnd = p.snd_wnd /\ q.snd_wl1 = p.snd_wl1 /\ q.snd_wl2 = p.snd_wl2
  /\ StreamEnd(p, w) <= StreamEnd(q, v)

LEMMA LongerPeer ==
  ASSUME NEW p \in PcbType, NEW w \in Nat, NEW q, NEW v \in Nat, Longer(p, w, q, v),
         NEW r \in FarType, Peer(p, r, w)
  PROVE  Peer(q, r, v)
<1>1. r.rcv <= StreamEnd(q, v)
  <2>1. r.rcv <= StreamEnd(p, w) /\ StreamEnd(p, w) <= StreamEnd(q, v) /\ q \in PcbType
    BY DEF Peer, Longer
  <2>2. StreamEnd(p, w) \in Nat /\ StreamEnd(q, v) \in Nat /\ r.rcv \in Nat
    BY <2>1, PcbFacts, FarFacts
  <2> QED
    BY <2>1, <2>2
<1> QED
  BY <1>1 DEF Longer, Peer, Known, Past, Reached

LEMMA LongerNet ==
  ASSUME NEW p \in PcbType, NEW w \in Nat, NEW q, NEW v \in Nat, Longer(p, w, q, v),
         NEW N, N \subseteq NetType, UnderWay(p, N, w)
  PROVE  UnderWay(q, N, v)
<1>1. ASSUME NEW x \in N PROVE x.to <= StreamEnd(q, v) /\ Reached(q, x.to)
  <2>1. x.to <= StreamEnd(p, w) /\ Reached(p, x.to) /\ x.to \in Nat
    BY DEF UnderWay, NetType
  <2>2. StreamEnd(p, w) <= StreamEnd(q, v) /\ StreamEnd(p, w) \in Nat /\ StreamEnd(q, v) \in Nat
    BY PcbFacts DEF Longer
  <2>3. x.to <= StreamEnd(q, v)
    BY <2>1, <2>2
  <2> QED
    BY <2>1, <2>3 DEF Reached, Longer
<1> QED
  BY <1>1 DEF UnderWay

\* The pcb that tcp_close leaves with a FIN.
WithFin(p) ==
  [tcp_send_fin(p) EXCEPT !.state = IF @ = "ESTABLISHED" THEN "FIN_WAIT_1" ELSE "LAST_ACK"]

\* The FIN rides on the last unsent segment.
LEMMA FinRides ==
  ASSUME NEW s, NEW b \in Nat, NEW w \in Nat, Line(s, b, w, w), s # <<>>, NEW k \in Nat, Pending(s, k)
  PROVE  /\ ~s[Len(s)].fin
         /\ Line([s EXCEPT ![Len(s)].fin = TRUE], b, w + 1, w)
         /\ Pending([s EXCEPT ![Len(s)].fin = TRUE], k)
<1>1. PICK l, x : l \in Nat /\ l = Len(s) /\ x = s[l] /\ l \in 1..Len(s) /\ s \in Seq(SegType)
  BY LineFacts
<1>2. Proper(x, w) /\ EndSeq(x) = w
  BY <1>1, LineFacts DEF Line
<1>3. /\ x \in SegType /\ x.seq \in Nat /\ x.len \in Nat /\ x.len <= MssLocal /\ x.fin = FALSE
      /\ x.seq + x.len = w
  BY <1>2, SegFacts
<1>4. PICK y : y = [x EXCEPT !.fin = TRUE]
  OBVIOUS
<1>5. y \in SegType /\ y.seq = x.seq /\ y.len = x.len /\ y.fin = TRUE
  BY <1>3, <1>4 DEF SegType
<1>6. EndSeq(y) = w + 1 /\ Proper(y, w)
  BY <1>3, <1>5 DEF EndSeq, TcpLen, Proper
<1>7. PICK t : t = [s EXCEPT ![Len(s)] = y]
  OBVIOUS
<1>8. [s EXCEPT ![Len(s)].fin = TRUE] = t
  BY <1>1, <1>4, <1>7
<1>9. Line(t, b, w + 1, w)
  <2>1. y.seq = s[Len(s)].seq
    BY <1>1, <1>5
  <2>2. Line([s EXCEPT ![Len(s)] = y], b, EndSeq(y), w)
    BY <1>6, <2>1, LastGrows
  <2> QED
    BY <1>6, <1>7, <2>2
<1>10. Pending(t, k)
  <2>1. Len(t) = Len(s) /\ t[l] = y /\ \A i \in 1..Len(s) : i # l => t[i] = s[i]
    BY <1>1, <1>5, <1>7, ExceptAt
  <2>2. EndSeq(y) > k
    <3>1. EndSeq(x) > k
      BY <1>1 DEF Pending
    <3> QED
      BY <1>2, <1>6, <3>1
  <2> QED
    BY <2>1, <2>2 DEF Pending
<1> QED
  BY <1>1, <1>3, <1>8, <1>9, <1>10

LEMMA FinOk ==
  ASSUME NEW p, NEW w \in Nat, NEW c, NEW r \in FarType, Ok(p, w, c, r), p.state \in Open,
         p.unsent # <<>> \/ p.snd_buf # 0, NEW q, q = WithFin(p)
  PROVE  Ok(q, w, c, r) /\ Longer(p, w, q, w)
<1>1. p \in PcbType /\ p.fin = FALSE
  BY PcbFacts DEF Ok
<1>2. PICK a, b, A, U, k :
        /\ a \in Nat /\ b \in Nat /\ k \in Nat /\ A = p.unacked /\ U = p.unsent /\ k = p.lastack
        /\ a <= b /\ b <= w /\ a <= k /\ Line(A, a, b, w) /\ Line(U, b, w, w)
        /\ Pending(A, k) /\ Pending(U, k)
  <2>1. StreamEnd(p, w) = w
    BY <1>1 DEF StreamEnd, Int1
  <2>2. Queues(p, w) /\ p.lastack \in Nat
    BY <1>1, PcbFacts DEF Ok
  <2> QED
    BY <1>1, <2>1, <2>2, QueuesAre
<1>3. PICK x, l, f, s : /\ x \in Nat /\ l \in Nat /\ f \in Nat
                        /\ x = p.snd_nxt /\ l = p.snd_lbb /\ f = p.snd_buf /\ s = q.state
  BY <1>1, PcbFacts
<1>4. /\ k <= x /\ x <= w /\ l = w /\ f + l = SndBuf + k /\ c = Smaller(k, w)
      /\ k \in Nat /\ x \in Nat /\ f \in Nat
  <2>1. StreamEnd(p, w) = w
    BY <1>1 DEF StreamEnd, Int1
  <2>2. k <= x /\ x <= w /\ w <= l /\ l <= w /\ f + l = SndBuf + k /\ c = Smaller(k, w)
    BY <1>2, <1>3, <2>1 DEF Ok, Counts
  <2> QED
    BY <1>2, <1>3, <2>2
<1>5. \E V, m, g :
        /\ m \in Nat /\ g \in Nat
        /\ q = [p EXCEPT !.unsent = V, !.fin = TRUE, !.snd_lbb = m, !.snd_buf = g, !.state = s]
        /\ Line(V, b, w + 1, w) /\ Pending(V, k) /\ w <= m /\ m <= w + 1 /\ g + m = SndBuf + k
  <2>1. CASE U # <<>>
    <3>1. PICK V : V = [U EXCEPT ![Len(U)].fin = TRUE]
      OBVIOUS
    <3>2. ~U[Len(U)].fin /\ Line(V, b, w + 1, w) /\ Pending(V, k)
      BY <1>2, <2>1, <3>1, FinRides
    <3>3. tcp_send_fin(p) = [p EXCEPT !.unsent = V, !.fin = TRUE]
      BY <1>1, <1>2, <2>1, <3>1, <3>2 DEF tcp_send_fin, PcbType
    <3>4. q = [p EXCEPT !.unsent = V, !.fin = TRUE, !.snd_lbb = l, !.snd_buf = f, !.state = s]
      BY <1>1, <1>3, <3>3 DEF WithFin, PcbType
    <3>5. w <= l /\ l <= w + 1 /\ l \in Nat /\ f \in Nat
      BY <1>3, <1>4
    <3> QED
      BY <1>4, <3>2, <3>4, <3>5
  <2>2. CASE U = <<>>
    <3>1. b = w
      BY <1>2, <2>2 DEF Line
    <3>2. PICK y, V : y = [seq |-> w, len |-> 0, fin |-> TRUE] /\ V = <<y>>
      OBVIOUS
    <3>3. Proper(y, w) /\ y.seq = w /\ EndSeq(y) = w + 1
      BY <3>2, Sizes DEF Proper, EndSeq, TcpLen, SegType
    <3>4. Line(V, b, w + 1, w)
      <4>1. Line(<<y>>, y.seq, EndSeq(y), w)
        BY <3>3, LineOne
      <4> QED
        BY <3>1, <3>2, <3>3, <4>1
    <3>5. Pending(V, k)
      <4>1. Len(V) = 1 /\ V[1] = y /\ w + 1 > k
        BY <1>4, <3>2
      <4>2. \A i \in 1..Len(V) : i = 1
        BY <4>1
      <4> QED
        BY <3>3, <4>1, <4>2 DEF Pending
    <3>6. f - 1 \in Nat /\ w + 1 \in Nat /\ f - 1 + (w + 1) = SndBuf + k /\ w <= w + 1
      <4>1. f # 0
        BY <1>2, <1>3, <2>2
      <4>2. w \in Nat /\ f \in Nat /\ k \in Nat /\ SndBuf \in Nat
        BY <1>2, <1>3, Sizes
      <4>3. f + w = SndBuf + k
        BY <1>4
      <4> QED
        BY <4>1, <4>2, <4>3
    <3>7. Append(U, y) = V
      BY <2>2, <3>2
    <3>8. tcp_send_fin(p) = [p EXCEPT !.unsent = V, !.fin = TRUE, !.snd_lbb = w + 1, !.snd_buf = f - 1]
      BY <1>1, <1>2, <1>3, <1>4, <2>2, <3>2, <3>7 DEF tcp_send_fin, PcbType
    <3>9. q = [p EXCEPT !.unsent = V, !.fin = TRUE, !.snd_lbb = w + 1, !.snd_buf = f - 1, !.state = s]
      BY <1>1, <1>3, <3>8 DEF WithFin, PcbType
    <3>10. w <= w + 1 /\ w + 1 <= w + 1
      OBVIOUS
    <3> QED
      BY <3>4, <3>5, <3>6, <3>9, <3>10
  <2> QED
    BY <2>1, <2>2
<1>6. PICK V, m, g :
        /\ m \in Nat /\ g \in Nat
        /\ q = [p EXCEPT !.unsent = V, !.fin = TRUE, !.snd_lbb = m, !.snd_buf = g, !.state = s]
        /\ Line(V, b, w + 1, w) /\ Pending(V, k) /\ w <= m /\ m <= w + 1 /\ g + m = SndBuf + k
  BY <1>5
<1>7. s \in {"FIN_WAIT_1", "LAST_ACK"}
  <2>1. q = [tcp_send_fin(p) EXCEPT !.state = IF @ = "ESTABLISHED" THEN "FIN_WAIT_1" ELSE "LAST_ACK"]
    BY DEF WithFin
  <2>2. tcp_send_fin(p) = [tcp_send_fin(p) EXCEPT !.fin = TRUE] /\ "state" \in DOMAIN tcp_send_fin(p)
    BY <1>1 DEF tcp_send_fin, PcbType
  <2> QED
    BY <1>3, <2>1, <2>2
<1>8. s \in Open \cup Closing \cup Ended /\ s \notin Open
  BY <1>7 DEF Open, Closing
<1>9. V \in Seq(SegType)
  BY <1>6, LineFacts
<1>10. /\ q \in PcbType /\ q.unsent = V /\ q.unacked = A /\ q.fin = TRUE /\ q.snd_lbb = m /\ q.snd_buf = g
       /\ q.state = s /\ q.snd_nxt = x /\ q.lastack = k /\ q.snd_wnd = p.snd_wnd /\ q.snd_wl1 = p.snd_wl1
       /\ q.snd_wl2 = p.snd_wl2 /\ q.cwnd = p.cwnd /\ q.ssthresh = p.ssthresh /\ q.rtime = p.rtime
  BY <1>1, <1>2, <1>3, <1>6, <1>8, <1>9, ZenonT(40) DEF PcbType
<1>11. StreamEnd(q, w) = w + 1 /\ StreamEnd(p, w) = w
  BY <1>1, <1>10 DEF StreamEnd, Int1
<1>12. Longer(p, w, q, w)
  BY <1>2, <1>3, <1>10, <1>11 DEF Longer
<1>13. Peer(q, r, w)
  <2>1. Peer(p, r, w)
    BY DEF Ok
  <2> QED
    BY <1>1, <1>12, <2>1, LongerPeer
<1>14. Queues(q, w)
  <2>1. a \in 0..(w + 1) /\ b \in 0..(w + 1)
    BY <1>2
  <2> QED
    BY <1>2, <1>6, <1>10, <1>11, <2>1 DEF Queues
<1>15. InFlight(q) /\ Congestion(q)
  BY <1>2, <1>3, <1>10 DEF Ok, InFlight, Congestion
<1>16. Counts(q, w, c)
  BY <1>3, <1>4, <1>6, <1>10, <1>11 DEF Counts
<1> QED
  BY <1>8, <1>10, <1>12, <1>13, <1>14, <1>15, <1>16 DEF Ok

LEMMA CloseSound ==
  ASSUME IInv, NEW unread, NEW full, tcp_close(unread, full)
  PROVE  IInv'
<1>1. out.state \in Open /\ UNCHANGED <<sent, far>>
  BY DEF tcp_close
<1>2. CASE Purge
  BY <1>1, <1>2, PurgeSound
<1>3. CASE ~Purge
  <2>1. tcp_output(WithFin(out)) /\ ~(out.unsent = <<>> /\ out.snd_buf = 0)
    BY <1>3 DEF tcp_close, WithFin
  <2>2. out.state \notin Ended
    BY <1>1, EndedStates
  <2>3. PICK p, w, c, q, r : /\ p = out /\ w = sent.written /\ c = sent.confirmed /\ w \in Nat /\ q = WithFin(out)
                             /\ r = far
    BY Alive
  <2>4. /\ p \in PcbType /\ r \in FarType /\ Ok(p, w, c, r) /\ UnderWay(p, net, w) /\ Offered(net, far.edge, w)
        /\ w <= MaxOut /\ sent' \in SentType /\ sent'.written = w /\ sent'.confirmed = c /\ far' = far
        /\ net \subseteq NetType
    BY <1>1, <2>2, <2>3, Alive
  <2>5. Ok(q, w, c, r) /\ Longer(p, w, q, w)
    <3>1. p.state \in Open /\ (p.unsent # <<>> \/ p.snd_buf # 0) /\ q = WithFin(p)
      BY <1>1, <2>1, <2>3
    <3> QED
      BY <2>3, <2>4, <3>1, FinOk
  <2>6. UnderWay(q, net, w)
    BY <2>3, <2>4, <2>5, LongerNet
  <2>7. Ok(q, w, c, far) /\ tcp_output(q)
    BY <2>1, <2>3, <2>5
  <2> QED
    BY <2>3, <2>4, <2>6, <2>7, OutputSound
<1> QED
  BY <1>2, <1>3

LEMMA LinePending ==
  ASSUME NEW s, NEW a \in Nat, NEW b \in Nat, NEW w \in Nat, Line(s, a, b, w), NEW k \in Nat, k <= a
  PROVE  Pending(s, k)
<1>1. \A i \in 1..Len(s) : s[i].seq \in Nat /\ EndSeq(s[i]) \in Nat /\ s[i].seq < EndSeq(s[i]) /\ a <= s[i].seq
  BY LineFacts
<1>2. ASSUME NEW i \in 1..Len(s) PROVE EndSeq(s[i]) > k
  <2>1. PICK x \in Nat, y \in Nat : x = s[i].seq /\ y = EndSeq(s[i]) /\ x < y /\ a <= x
    BY <1>1
  <2>2. y > k
    BY <2>1
  <2> QED
    BY <2>1, <2>2
<1> QED
  BY <1>2 DEF Pending

LEMMA PendingCat ==
  ASSUME NEW s, NEW t, s \in Seq(SegType), t \in Seq(SegType), NEW k, Pending(s, k), Pending(t, k)
  PROVE  Pending(Cat(s, t), k)
<1> DEFINE P == {x \in SegType : EndSeq(x) > k}
<1>1. (\A i \in 1..Len(s) : s[i] \in P) /\ (\A i \in 1..Len(t) : t[i] \in P)
  BY DEF Pending
<1> HIDE DEF P
<1>2. \A i \in 1..Len(Cat(s, t)) : Cat(s, t)[i] \in P
  BY <1>1, KindCat
<1> QED
  BY <1>2 DEF P, Pending

\* A write fills up the last unsent segment.
LEMMA LastFills ==
  ASSUME NEW s, NEW b \in Nat, NEW w \in Nat, Line(s, b, w, w), s # <<>>, NEW k \in Nat, Pending(s, k),
         NEW h \in Nat, s[Len(s)].len + h <= MssLocal, NEW v \in Nat, w + h <= v
  PROVE  /\ Line([s EXCEPT ![Len(s)].len = @ + h], b, w + h, v)
         /\ Pending([s EXCEPT ![Len(s)].len = @ + h], k)
<1>1. PICK l, x : l \in Nat /\ l = Len(s) /\ x = s[l] /\ l \in 1..Len(s) /\ s \in Seq(SegType)
  BY LineFacts
<1>2. Proper(x, w) /\ EndSeq(x) = w
  BY <1>1, LineFacts DEF Line
<1>3. /\ x \in SegType /\ x.seq \in Nat /\ x.len \in Nat /\ x.len + h <= MssLocal /\ x.fin = FALSE
      /\ x.seq + x.len = w /\ x.len > 0
  <2>1. /\ x \in SegType /\ x.seq \in Nat /\ x.len \in Nat /\ x.fin = FALSE
        /\ x.seq + x.len = w /\ x.seq < w
    BY <1>2, SegFacts
  <2> QED
    BY <1>1, <2>1
<1>4. PICK m, y : m \in Nat /\ m = x.len + h /\ y = [x EXCEPT !.len = x.len + h]
  <2>1. x.len + h \in Nat
    BY <1>3
  <2> QED
    BY <2>1
<1>5. y \in SegType /\ y.seq = x.seq /\ y.len = m /\ y.fin = FALSE
  BY <1>3, <1>4 DEF SegType
<1>6. EndSeq(y) = w + h /\ Proper(y, v)
  <2>1. TcpLen(y) = m /\ EndSeq(y) = x.seq + m
    BY <1>4, <1>5 DEF EndSeq, TcpLen
  <2>2. PICK f \in Nat, g \in Nat, j \in Nat : f = x.seq /\ g = x.len /\ j = MssLocal
    BY <1>3, Sizes
  <2>3. f + g = w /\ g + h <= j /\ g > 0 /\ m = g + h
    BY <1>3, <1>4, <2>2
  <2>4. f + m = w + h /\ m > 0 /\ m <= j /\ w + h # v + 1
    BY <2>3
  <2> QED
    BY <1>5, <2>1, <2>2, <2>4 DEF Proper
<1>7. PICK t : t = [s EXCEPT ![Len(s)] = y]
  OBVIOUS
<1>8. [s EXCEPT ![Len(s)].len = @ + h] = t
  BY <1>1, <1>4, <1>7
<1>9. Line(t, b, w + h, v)
  <2>1. y.seq = s[Len(s)].seq /\ w <= v
    BY <1>1, <1>5
  <2>2. Line([s EXCEPT ![Len(s)] = y], b, EndSeq(y), v)
    BY <1>6, <2>1, LastGrows, SMTT(30)
  <2> QED
    BY <1>6, <1>7, <2>2
<1>10. Pending(t, k)
  <2>1. Len(t) = Len(s) /\ t[l] = y /\ \A i \in 1..Len(s) : i # l => t[i] = s[i]
    BY <1>1, <1>5, <1>7, ExceptAt
  <2>2. EndSeq(y) > k
    <3>1. EndSeq(x) > k
      BY <1>1 DEF Pending
    <3> QED
      BY <1>2, <1>6, <3>1
  <2> QED
    BY <2>1, <2>2 DEF Pending
<1> QED
  BY <1>8, <1>9, <1>10

\* The unsent queue after a write of n bytes.
LEMMA SegmentedLine ==
  ASSUME NEW p \in PcbType, NEW b \in Nat, NEW w \in Nat, NEW k \in Nat, Line(p.unsent, b, w, w),
         Pending(p.unsent, k), p.snd_lbb = w, k <= w, NEW n \in Nat
  PROVE  Line(Segmented(p, n), b, w + n, w + n) /\ Pending(Segmented(p, n), k)
<1>1. PICK U, v : /\ U = p.unsent /\ U \in Seq(SegType) /\ Len(U) \in Nat
                  /\ v = w + n /\ v \in Nat /\ w <= v
  <2>1. p.unsent \in Seq(SegType) /\ Len(p.unsent) \in Nat
    BY PcbFacts
  <2>2. w + n \in Nat /\ w <= w + n
    OBVIOUS
  <2> QED
    BY <2>1, <2>2
<1>2. PICK h : h = IF U = <<>> \/ U[Len(U)].len = 0 THEN 0 ELSE Smaller(MssLocal - U[Len(U)].len, n)
  OBVIOUS
<1>3. PICK V : V = IF h = 0 THEN U ELSE [U EXCEPT ![Len(U)].len = @ + h]
  OBVIOUS
<1>4. Segmented(p, n) = Cat(V, Chunks(w + h, n - h))
  BY <1>1, <1>2, <1>3 DEF Segmented, Cat, Chunks
<1>5. /\ h \in Nat /\ h <= n
      /\ h # 0 => U # <<>> /\ U[Len(U)].len + h <= MssLocal
  <2>1. CASE U = <<>> \/ U[Len(U)].len = 0
    BY <1>2, <2>1
  <2>2. CASE ~(U = <<>> \/ U[Len(U)].len = 0)
    <3>1. Len(U) \in 1..Len(U)
      <4>1. Len(U) # 0
        BY <1>1, <2>2, NoneSeq
      <4> QED
        BY <1>1, <4>1
    <3>2. Proper(U[Len(U)], w)
      BY <1>1, <3>1, LineFacts
    <3>3. PICK l \in Nat, m \in Nat : l = U[Len(U)].len /\ m = MssLocal /\ l <= m
      BY <3>2, SegFacts, Sizes
    <3>4. h = Smaller(m - l, n)
      BY <1>2, <2>2, <3>3
    <3>5. h \in Nat /\ h <= n /\ l + h <= m
      <4>1. h = IF m - l < n THEN m - l ELSE n
        BY <3>4 DEF Smaller
      <4>2. m - l \in Nat /\ l + (m - l) = m
        BY <3>3
      <4> QED
        BY <4>1, <4>2
    <3> QED
      BY <2>2, <3>3, <3>5
  <2> QED
    BY <2>1, <2>2
<1>6. Line(V, b, w + h, v) /\ Pending(V, k)
  <2>1. CASE h = 0
    <3>1. V = U /\ w + h = w
      BY <1>3, <2>1
    <3>2. Line(U, b, w, v)
      BY <1>1, LineLater
    <3> QED
      BY <1>1, <3>1, <3>2
  <2>2. CASE h # 0
    <3>1. V = [U EXCEPT ![Len(U)].len = @ + h] /\ w + h <= v
      BY <1>1, <1>3, <1>5, <2>2
    <3>2. Line(U, b, w, w) /\ Pending(U, k)
      BY <1>1
    <3>3. U # <<>> /\ U[Len(U)].len + h <= MssLocal /\ h \in Nat /\ v \in Nat
      BY <1>1, <1>5, <2>2
    <3> QED
      BY <3>1, <3>2, <3>3, LastFills
  <2> QED
    BY <2>1, <2>2
<1>7. PICK C, x, y : C = Chunks(x, y) /\ x = w + h /\ y = n - h /\ x \in Nat /\ y \in Nat /\ x + y = v /\ k <= x
  BY <1>1, <1>5
<1>8. Line(C, x, v, v)
  <2>1. Line(Chunks(x, y), x, x + y, x + y)
    BY <1>7, ChunksLine
  <2> QED
    BY <1>7, <2>1
<1>9. Pending(C, k)
  BY <1>1, <1>7, <1>8, LinePending
<1>10. Line(Cat(V, C), b, v, v)
  <2>1. Line(V, b, x, v) /\ x \in Nat
    BY <1>6, <1>7
  <2> QED
    BY <1>1, <1>8, <2>1, LineCat
<1>11. Pending(Cat(V, C), k)
  <2>1. V \in Seq(SegType) /\ C \in Seq(SegType)
    BY <1>1, <1>6, <1>8, LineFacts
  <2> QED
    BY <1>6, <1>9, <2>1, PendingCat
<1>12. Segmented(p, n) = Cat(V, C)
  BY <1>4, <1>7
<1> QED
  BY <1>1, <1>10, <1>11, <1>12

LEMMA WriteOk ==
  ASSUME NEW p, NEW w \in Nat, NEW c, NEW r \in FarType, Ok(p, w, c, r), p.state \in Open,
         NEW n \in Nat, n <= p.snd_buf, NEW q, q = tcp_write(p, n), NEW v \in Nat, v = w + n
  PROVE  Ok(q, v, c, r) /\ Longer(p, w, q, v) /\ StreamEnd(p, w) = w
<1>1. p \in PcbType /\ p.fin = FALSE
  BY PcbFacts DEF Ok
<1>2. StreamEnd(p, w) = w
  BY <1>1 DEF StreamEnd, Int1
<1>3. PICK a, b, A, U, k :
        /\ a \in Nat /\ b \in Nat /\ k \in Nat /\ A = p.unacked /\ U = p.unsent /\ k = p.lastack
        /\ a <= b /\ b <= w /\ a <= k /\ Line(A, a, b, w) /\ Line(U, b, w, w)
        /\ Pending(A, k) /\ Pending(U, k)
  <2>1. Queues(p, w) /\ p.lastack \in Nat
    BY <1>1, PcbFacts DEF Ok
  <2> QED
    BY <1>1, <1>2, <2>1, QueuesAre
<1>4. PICK x \in Nat, l \in Nat, f \in Nat : x = p.snd_nxt /\ l = p.snd_lbb /\ f = p.snd_buf
  BY <1>1, PcbFacts
<1>5. k <= x /\ x <= w /\ l = w /\ f + l = SndBuf + k /\ c = Smaller(k, w)
  <2>1. k <= x /\ x <= w /\ w <= l /\ l <= w /\ f + l = SndBuf + k /\ c = Smaller(k, w)
    BY <1>2, <1>3, <1>4 DEF Ok, Counts
  <2> QED
    BY <2>1
<1>6. PICK V, m, g : V = Segmented(p, n) /\ m = l + n /\ g = f - n /\ m \in Nat /\ g \in Nat
  <2>1. l + n \in Nat /\ f - n \in Nat
    BY <1>4
  <2> QED
    BY <2>1
<1>7. Line(V, b, v, v) /\ Pending(V, k)
  <2>1. p.snd_lbb = w /\ k <= w /\ Line(p.unsent, b, w, w) /\ Pending(p.unsent, k)
    BY <1>3, <1>4, <1>5
  <2>2. Line(Segmented(p, n), b, w + n, w + n) /\ Pending(Segmented(p, n), k)
    BY <1>1, <1>3, <2>1, SegmentedLine
  <2> QED
    BY <1>6, <2>2
<1>8. Line(A, a, b, v)
  BY <1>3, LineLater
<1>9. V \in Seq(SegType)
  BY <1>7, LineFacts
<1>10. q = [p EXCEPT !.unsent = V, !.snd_lbb = m, !.snd_buf = g]
  BY <1>1, <1>4, <1>6 DEF tcp_write, PcbType
<1>11. /\ q \in PcbType /\ q.unsent = V /\ q.unacked = A /\ q.fin = FALSE /\ q.snd_lbb = m /\ q.snd_buf = g
       /\ q.state = p.state /\ q.snd_nxt = x /\ q.lastack = k /\ q.snd_wnd = p.snd_wnd /\ q.snd_wl1 = p.snd_wl1
       /\ q.snd_wl2 = p.snd_wl2 /\ q.cwnd = p.cwnd /\ q.ssthresh = p.ssthresh /\ q.rtime = p.rtime
  BY <1>1, <1>3, <1>4, <1>6, <1>9, <1>10, ZenonT(40) DEF PcbType
<1>12. StreamEnd(q, v) = v
  BY <1>11 DEF StreamEnd, Int1
<1>13. Longer(p, w, q, v)
  BY <1>2, <1>3, <1>4, <1>11, <1>12 DEF Longer
<1>14. Peer(q, r, v)
  <2>1. Peer(p, r, w)
    BY DEF Ok
  <2> QED
    BY <1>1, <1>13, <2>1, LongerPeer
<1>15. Queues(q, v)
  <2>1. a \in 0..v /\ b \in 0..v
    BY <1>3
  <2> QED
    BY <1>3, <1>7, <1>8, <1>11, <1>12, <2>1 DEF Queues
<1>16. InFlight(q) /\ Congestion(q)
  BY <1>3, <1>4, <1>11 DEF Ok, InFlight, Congestion
<1>17. Counts(q, v, c)
  <2>1. k <= x /\ x <= v /\ v <= m /\ m <= v
    BY <1>3, <1>5, <1>6
  <2>2. g + m = SndBuf + k
    BY <1>3, <1>4, <1>5, <1>6, Sizes
  <2>3. c = Smaller(k, v)
    BY <1>3, <1>5 DEF Smaller
  <2> QED
    BY <1>11, <1>12, <2>1, <2>2, <2>3 DEF Counts
<1> QED
  BY <1>1, <1>2, <1>11, <1>13, <1>14, <1>15, <1>16, <1>17 DEF Ok

LEMMA WriteSound ==
  ASSUME IInv, NEW n \in Writes, NEW full \in BOOLEAN, Write(n, full)
  PROVE  IInv'
<1>1. /\ out.state \in Open /\ n <= out.snd_buf /\ sent.written + n <= MaxOut /\ far' = far
      /\ tcp_output(IF full THEN out ELSE tcp_write(out, n))
      /\ sent' = IF full THEN sent ELSE [sent EXCEPT !.written = @ + n]
  BY DEF Write
<1>2. out.state \notin Ended
  BY <1>1, EndedStates
<1>3. PICK p, w, c, r, N : /\ p = out /\ w = sent.written /\ c = sent.confirmed /\ w \in Nat /\ r = far
                           /\ N = net
  BY Alive
<1>4. /\ p \in PcbType /\ r \in FarType /\ Ok(p, w, c, r) /\ UnderWay(p, N, w) /\ Offered(N, r.edge, w)
      /\ w <= MaxOut /\ N \subseteq NetType /\ sent \in SentType
  BY <1>2, <1>3, Alive
<1>5. CASE full
  <2>1. tcp_output(p) /\ sent' = sent
    BY <1>1, <1>3, <1>5
  <2>2. /\ Ok(p, w, c, far) /\ UnderWay(p, net, w) /\ Offered(net, far.edge, w)
        /\ sent' \in SentType /\ sent'.written = w /\ sent'.confirmed = c
    BY <1>3, <1>4, <2>1
  <2> QED
    BY <1>1, <1>3, <1>4, <2>1, <2>2, OutputSound
<1>6. CASE ~full
  <2>1. PICK q, v : q = tcp_write(p, n) /\ v = w + n /\ v \in Nat /\ n \in Nat
    <3>1. n \in Nat
      BY Sizes
    <3>2. w + n \in Nat
      BY <1>3, <3>1
    <3> QED
      BY <3>1, <3>2
  <2>2. /\ tcp_output(q) /\ sent' \in SentType /\ sent'.written = v /\ sent'.confirmed = c /\ v <= MaxOut
    <3>1. sent' = [sent EXCEPT !.written = v]
      BY <1>1, <1>3, <1>6, <2>1
    <3> QED
      BY <1>1, <1>3, <1>4, <1>6, <2>1, <3>1 DEF SentType
  <2>3. Ok(q, v, c, r) /\ Longer(p, w, q, v) /\ StreamEnd(p, w) = w
    <3>1. p.state \in Open /\ n <= p.snd_buf
      BY <1>1, <1>3
    <3> QED
      BY <1>3, <1>4, <2>1, <3>1, WriteOk
  <2>4. UnderWay(q, N, v)
    BY <1>3, <1>4, <2>1, <2>3, LongerNet
  <2>5. Offered(N, r.edge, v)
    <3>1. ASSUME NEW s \in N PROVE s.to # w + 1
      <4>1. s.to <= w /\ s.to \in Nat
        BY <1>4, <2>3 DEF UnderWay, NetType
      <4> QED
        BY <1>3, <4>1
    <3> QED
      BY <1>4, <3>1 DEF Offered
  <2>6. Ok(q, v, c, far) /\ UnderWay(q, net, v) /\ Offered(net, far.edge, v)
    BY <1>3, <2>3, <2>4, <2>5
  <2> QED
    BY <1>1, <2>1, <2>2, <2>6, OutputSound
<1> QED
  BY <1>5, <1>6

-----------------------------------------------------------------------------
(* An acknowledgement arrives *)

\* It is the peer's present answer, or the one that is late.
Arrived(a, r) == a \in AckType /\ (IsAnswer(a, r) \/ (r.late # <<>> /\ a = r.late[1]))

\* The window the pcb knows is of the peer's past, and so is the late answer.
Window(p, r) ==
  /\ NotNewer(p.snd_wl1, p.snd_wl2, p.snd_wl2 + p.snd_wnd, r.seq, r.rcv, r.edge)
  /\ r.late # <<>> => Past(r.late[1], p, r)

\* A pcb of which the window, the congestion window and the counters may change.
Held(p, q) ==
  /\ q \in PcbType
  /\ q.unsent = p.unsent /\ q.unacked = p.unacked /\ q.snd_nxt = p.snd_nxt /\ q.lastack = p.lastack
  /\ q.snd_lbb = p.snd_lbb /\ q.snd_buf = p.snd_buf /\ q.rtime = p.rtime /\ q.fin = p.fin
  /\ q.state = p.state

LEMMA ArrivedPast ==
  ASSUME NEW p \in PcbType, NEW r \in FarType, NEW w, Peer(p, r, w), NEW a, Arrived(a, r)
  PROVE  /\ a \in AckType /\ a.ack \in Nat /\ a.wnd \in Nat /\ a.seq \in Nat /\ a.fin \in BOOLEAN
         /\ Past(a, p, r) /\ a.ack <= r.rcv
<1>1. a \in AckType
  BY DEF Arrived
<1>2. Past(a, p, r)
  <2>1. CASE IsAnswer(a, r)
    BY <2>1, AnswerPast
  <2>2. CASE r.late # <<>> /\ a = r.late[1]
    BY <2>2 DEF Peer
  <2> QED
    BY <2>1, <2>2 DEF Arrived
<1>3. a.ack <= r.rcv
  BY <1>2 DEF Past, NotNewer
<1> QED
  BY <1>1, <1>2, <1>3 DEF AckType

\* Whether UpdateWindow sets the window.
Newer(p, a) ==
  \/ p.snd_wl1 < a.seq
  \/ p.snd_wl1 = a.seq /\ p.snd_wl2 < a.ack
  \/ p.snd_wl2 = a.ack /\ a.wnd > p.snd_wnd

\* It sets the window to what the peer said later, and to nothing else.
LEMMA NewerIs ==
  ASSUME NEW p \in PcbType, NEW r, NEW a \in AckType, Past(a, p, r)
  PROVE  /\ Newer(p, a) => /\ p.snd_wl2 <= a.ack /\ p.snd_wl2 + p.snd_wnd <= a.ack + a.wnd
         /\ ~Newer(p, a) => a.ack <= p.snd_wl2
<1>1. PICK s \in Nat, k \in Nat, d \in Nat, t \in Nat, l \in Nat, f \in Nat :
        /\ s = p.snd_wl1 /\ k = p.snd_wl2 /\ d = p.snd_wnd /\ t = a.seq /\ l = a.ack /\ f = a.wnd
  BY PcbFacts DEF AckType
<1>2. \/ t <= s /\ l <= k /\ l + f <= k + d
      \/ s <= t /\ k <= l /\ k + d <= l + f
  BY <1>1 DEF Past, NotNewer
<1>3. Newer(p, a) <=> (s < t \/ (s = t /\ k < l) \/ (k = l /\ f > d))
  BY <1>1 DEF Newer
<1>4. Newer(p, a) => k <= l /\ k + d <= l + f
  BY <1>2, <1>3
<1>5. ~Newer(p, a) => l <= k
  BY <1>2, <1>3
<1> QED
  BY <1>1, <1>4, <1>5

LEMMA UpdateIs ==
  ASSUME NEW p, NEW w \in Nat, NEW c, NEW r \in FarType, Ok(p, w, c, r), NEW a, Arrived(a, r),
         NEW q, q = UpdateWindow(p, a)
  PROVE  /\ Held(p, q) /\ Window(q, r) /\ q.cwnd = p.cwnd /\ q.ssthresh = p.ssthresh
         /\ p.lastack <= q.snd_wl2 /\ a.ack <= q.snd_wl2
         /\ a.ack <= p.lastack => p.snd_wnd <= q.snd_wnd
         /\ p.lastack < a.ack => p.lastack + p.snd_wnd <= a.ack + q.snd_wnd
<1>1. p \in PcbType /\ Peer(p, r, w)
  BY DEF Ok
<1>2. /\ a \in AckType /\ a.ack \in Nat /\ a.wnd \in Nat /\ a.seq \in Nat
      /\ Past(a, p, r) /\ a.ack <= r.rcv
  BY <1>1, ArrivedPast
<1>3. PICK k \in Nat, l \in Nat, d \in Nat, x \in Nat, f \in Nat :
        /\ k = p.lastack /\ l = p.snd_wl2 /\ d = p.snd_wnd /\ x = a.ack /\ f = a.wnd /\ k <= l
  BY <1>1, <1>2, PcbFacts DEF Peer, Known
<1>4. Window(p, r)
  BY <1>1 DEF Peer, Known, Window
<1>5. CASE ~Newer(p, a)
  <2>1. q = p
    BY <1>5 DEF UpdateWindow, Newer
  <2>2. x <= l
    BY <1>2, <1>3, <1>5, <1>1, NewerIs
  <2>3. k < x => k + d <= x + d
    BY <1>3
  <2>4. d <= d
    BY <1>3
  <2> QED
    BY <1>1, <1>3, <1>4, <2>1, <2>2, <2>3, <2>4 DEF Held
<1>6. CASE Newer(p, a)
  <2>1. PICK g \in BOOLEAN : g = (a.wnd = 0)
    OBVIOUS
  <2>2. q = [p EXCEPT !.snd_wnd = a.wnd, !.snd_wl1 = a.seq, !.snd_wl2 = a.ack, !.persist = g]
    BY <1>6, <2>1 DEF UpdateWindow, Newer
  <2>3. /\ Held(p, q) /\ q.cwnd = p.cwnd /\ q.ssthresh = p.ssthresh
        /\ q.snd_wnd = a.wnd /\ q.snd_wl1 = a.seq /\ q.snd_wl2 = a.ack
    <3>1. PICK i \in Nat, j \in Nat, h \in Nat : i = a.wnd /\ j = a.seq /\ h = a.ack
      BY <1>2
    <3>2. q = [p EXCEPT !.snd_wnd = i, !.snd_wl1 = j, !.snd_wl2 = h, !.persist = g]
      BY <2>2, <3>1
    <3>3. /\ Held(p, q) /\ q.cwnd = p.cwnd /\ q.ssthresh = p.ssthresh
          /\ q.snd_wnd = i /\ q.snd_wl1 = j /\ q.snd_wl2 = h
      BY <1>1, <3>2, ZenonT(40) DEF Held, PcbType
    <3> QED
      BY <3>1, <3>3
  <2>4. l <= x /\ l + d <= x + f
    BY <1>1, <1>2, <1>3, <1>6, NewerIs
  <2>5. Window(q, r)
    <3>1. NotNewer(a.seq, a.ack, a.ack + a.wnd, r.seq, r.rcv, r.edge)
      BY <1>2 DEF Past
    <3>2. ASSUME r.late # <<>> PROVE Past(r.late[1], q, r)
      <4>1. PICK b : b = r.late[1]
        OBVIOUS
      <4>2. Past(b, p, r)
        BY <1>1, <3>2, <4>1 DEF Peer
      <4>3. NotNewer(b.seq, b.ack, b.ack + b.wnd, a.seq, a.ack, a.ack + a.wnd)
        <5>1. CASE IsAnswer(a, r)
          BY <4>2, <5>1 DEF IsAnswer, Past
        <5>2. CASE a = b
          BY <1>2, <5>2 DEF NotNewer
        <5> QED
          BY <4>1, <5>1, <5>2 DEF Arrived
      <4> QED
        BY <2>3, <4>1, <4>2, <4>3 DEF Past
    <3> QED
      BY <2>3, <3>1, <3>2 DEF Window
  <2>6. k <= x /\ x <= x /\ (x <= k => d <= f) /\ (k < x => k + d <= x + f)
    BY <1>3, <2>4
  <2> QED
    BY <1>3, <2>3, <2>5, <2>6
<1> QED
  BY <1>5, <1>6

\* The pcb stays sound when only its window, which it may widen, changes.
LEMMA HeldOk ==
  ASSUME NEW p, NEW w \in Nat, NEW c, NEW r \in FarType, Ok(p, w, c, r), NEW q, Held(p, q), Window(q, r),
         Congestion(q), p.lastack <= q.snd_wl2, p.unacked = <<>> \/ p.snd_wnd <= q.snd_wnd
  PROVE  Ok(q, w, c, r)
<1>1. p \in PcbType /\ q \in PcbType
  BY DEF Ok, Held
<1>2. StreamEnd(q, w) = StreamEnd(p, w)
  BY DEF Held, StreamEnd
<1>3. Queues(q, w) /\ Counts(q, w, c)
  BY <1>2 DEF Ok, Held, Queues, Counts
<1>4. InFlight(q)
  <2>1. ASSUME NEW i \in 1..Len(p.unacked)
        PROVE  p.unacked[i].seq + p.unacked[i].len <= q.lastack + q.snd_wnd
    <3>1. /\ p.unacked[i].seq + p.unacked[i].len <= p.lastack + p.snd_wnd
          /\ p.unacked[i].seq + p.unacked[i].len \in Nat
      <4>1. p.unacked \in Seq(SegType)
        BY <1>1, PcbFacts
      <4>2. p.unacked[i] \in SegType
        BY <4>1
      <4> QED
        BY <4>2 DEF Ok, InFlight, SegType
    <3>2. p.snd_wnd <= q.snd_wnd
      <4>1. p.unacked # <<>>
        OBVIOUS
      <4> QED
        BY <4>1
    <3>3. PICK z \in Nat, k \in Nat, d \in Nat, f \in Nat :
            z = p.unacked[i].seq + p.unacked[i].len /\ k = p.lastack /\ d = p.snd_wnd /\ f = q.snd_wnd
      BY <1>1, <3>1, PcbFacts
    <3>4. z <= k + f
      BY <3>1, <3>2, <3>3, SMTT(30)
    <3> QED
      BY <3>3, <3>4 DEF Held
  <2> QED
    BY <2>1 DEF Ok, InFlight, Held
<1>5. Peer(q, r, w)
  BY <1>2 DEF Ok, Peer, Known, Window, Held, Reached
<1> QED
  BY <1>1, <1>3, <1>4, <1>5 DEF Ok, Held

LEMMA NoneConfirmed ==
  ASSUME NEW s, s \in Seq(SegType), NEW k \in Nat, Pending(s, k)
  PROVE  Confirmed(s, k) = 0
<1>1. PICK n : n = Confirmed(s, k) /\ n \in 0..Len(s) /\ \A i \in 1..n : EndSeq(s[i]) <= k
  BY ConfirmedLeads, LenNat
<1>2. ASSUME n # 0 PROVE FALSE
  <2>1. 1 \in 1..n /\ 1 \in 1..Len(s)
    BY <1>1, <1>2, LenNat
  <2>2. EndSeq(s[1]) <= k /\ EndSeq(s[1]) > k
    BY <1>1, <2>1 DEF Pending
  <2>3. EndSeq(s[1]) \in Nat
    <3>1. s[1] \in SegType
      BY <2>1
    <3> QED
      BY <3>1 DEF SegType, EndSeq, TcpLen
  <2> QED
    BY <2>2, <2>3
<1> QED
  BY <1>1, <1>2

\* Nothing of unsent is acknowledged.
LEMMA UnsentStays ==
  ASSUME NEW p \in PcbType, NEW k \in Nat, k <= p.snd_nxt => Pending(p.unsent, k)
  PROVE  AckUnsent(p, k) = p
<1>1. PICK n : n = (IF k <= p.snd_nxt THEN Confirmed(p.unsent, k) ELSE 0)
  OBVIOUS
<1>2. n = 0
  BY <1>1, NoneConfirmed, PcbFacts
<1>3. AckUnsent(p, k) = [p EXCEPT !.unsent = SubSeq(@, n + 1, Len(@)),
                                  !.acked = IF @ # 0 /\ HasFin(p.unsent, n) THEN @ - 1 ELSE @]
  BY <1>1 DEF AckUnsent
<1>4. ~HasFin(p.unsent, 0)
  BY DEF HasFin
<1>5. SubSeq(p.unsent, 0 + 1, Len(p.unsent)) = p.unsent
  <2>1. p.unsent \in Seq(SegType)
    BY PcbFacts
  <2> QED
    BY <2>1
<1> QED
  BY <1>2, <1>3, <1>4, <1>5 DEF PcbType

LEMMA CwndFacts ==
  ASSUME NEW n \in Nat, SMss <= n
  PROVE  Cwnd(n) \in Nat /\ SMss <= Cwnd(n) /\ Cwnd(n) <= PeerWnd
  BY Sizes DEF Cwnd, Smaller

\* The window and what was acknowledged by now are the same.
Alike(p, q) ==
  /\ Held(p, q) /\ Congestion(q) /\ q.acked = 0
  /\ q.snd_wnd = p.snd_wnd /\ q.snd_wl1 = p.snd_wl1 /\ q.snd_wl2 = p.snd_wl2

\* The third duplicate acknowledgement.
Fast(p, d) == [tcp_rexmit_fast(p) EXCEPT !.dupacks = d, !.acked = 0]

LEMMA FastIs ==
  ASSUME NEW p \in PcbType, NEW w \in Nat, Queues(p, w), Congestion(p), NEW d \in 0..4, NEW o,
         o = Fast(p, d)
  PROVE  \E v : Alike(p, v) /\ (o = v \/ (v.unacked # <<>> /\ o = Resent(v)))
<1>1. CASE p.unacked = <<>> \/ p.infr
  <2>1. o = [p EXCEPT !.dupacks = d, !.acked = 0]
    BY <1>1 DEF Fast, tcp_rexmit_fast
  <2>2. 0 \in Nat /\ d \in 0..4
    OBVIOUS
  <2>3. Alike(p, o)
    BY <2>1, <2>2, ZenonT(40) DEF Alike, Held, Congestion, PcbType
  <2> QED
    BY <2>3
<1>2. CASE ~(p.unacked = <<>> \/ p.infr)
  <2>1. PICK h, g, k, A, U : /\ h = HalfWindow(p) /\ g = Cwnd(h + 3 * SMss) /\ k = MoreRtx(p.nrtx)
                             /\ A = p.unacked /\ U = p.unsent
    OBVIOUS
  <2>2. h \in Nat /\ SMss <= h /\ h + 3 * SMss \in Nat /\ SMss <= h + 3 * SMss
    <3>1. h \in Nat /\ 2 * SMss <= h
      BY <2>1, HalfWindowFacts
    <3> QED
      BY <3>1, Sizes
  <2>3. g \in Nat /\ SMss <= g /\ g <= PeerWnd
    BY <2>1, <2>2, CwndFacts
  <2>4. k \in 0..(MaxRtx + 1)
    BY <2>1, MoreRtxFacts, PcbFacts
  <2>5. PICK v : v = [p EXCEPT !.nrtx = k, !.ssthresh = h, !.cwnd = g, !.infr = TRUE, !.dupacks = d, !.acked = 0]
    OBVIOUS
  <2>6. Alike(p, v) /\ v.unacked = A /\ v.unsent = U
    <3>1. 0 \in Nat
      OBVIOUS
    <3>2. v \in PcbType /\ v.cwnd = g /\ v.ssthresh = h /\ v.acked = 0
      BY <2>2, <2>3, <2>4, <2>5, <3>1 DEF PcbType
    <3> QED
      BY <2>1, <2>2, <2>3, <2>5, <3>2 DEF Alike, Held, Congestion, PcbType
  <2>7. A \in Seq(SegType) /\ U \in Seq(SegType) /\ A # <<>>
    BY <1>2, <2>1, PcbFacts
  <2>8. A[1] \in SegType /\ (U # <<>> => ~(U[1].seq < A[1].seq))
    <3>1. PICK a \in Nat, b \in Nat, e \in Nat : Line(A, a, b, w) /\ Line(U, b, e, w) /\ b <= e
      BY <2>1, QueuesAre
    <3>2. A[1] \in SegType /\ A[1].seq \in Nat /\ A[1].seq <= b
      <4>1. Proper(A[1], w) /\ A[1].seq = a /\ a < EndSeq(A[1]) /\ EndSeq(A[1]) <= b
        BY <2>7, <3>1, LineFirst
      <4>2. A[1] \in SegType /\ EndSeq(A[1]) \in Nat
        BY <4>1, SegFacts
      <4> QED
        BY <3>1, <4>1, <4>2
    <3>3. U # <<>> => U[1].seq = b
      BY <3>1, LineFirst
    <3> QED
      BY <3>2, <3>3
  <2>9. Insert(U, A[1]) = Cat(<<A[1]>>, U)
    BY <2>7, <2>8, InsertFirst DEF Cat
  <2>10. PICK I, T : I = Insert(U, A[1]) /\ T = Tail(A)
    OBVIOUS
  <2>11. o = [p EXCEPT !.unacked = T, !.unsent = I, !.nrtx = k, !.ssthresh = h, !.cwnd = g, !.infr = TRUE,
                       !.dupacks = d, !.acked = 0]
    BY <1>2, <2>1, <2>10 DEF Fast, tcp_rexmit_fast, tcp_rexmit, PcbType
  <2>12. Resent(v) = [v EXCEPT !.unacked = T, !.unsent = I]
    BY <2>6, <2>9, <2>10 DEF Resent
  <2>13. o = Resent(v)
    <3>1. o = [[p EXCEPT !.nrtx = k, !.ssthresh = h, !.cwnd = g, !.infr = TRUE, !.dupacks = d, !.acked = 0]
               EXCEPT !.unacked = T, !.unsent = I]
      BY <2>11 DEF PcbType
    <3> QED
      BY <2>5, <2>12, <3>1
  <2> QED
    BY <2>6, <2>7, <2>13
<1> QED
  BY <1>1, <1>2

LEMMA OldIs ==
  ASSUME NEW p, NEW q \in PcbType, NEW w \in Nat, Queues(q, w), Congestion(q), NEW a, NEW o, o = OldAck(p, q, a)
  PROVE  \E v : Alike(q, v) /\ (o = v \/ (v.unacked # <<>> /\ o = Resent(v)))
<1>1. CASE o = [q EXCEPT !.dupacks = 0, !.acked = 0]
  <2>1. 0 \in 0..4 /\ 0 \in Nat
    OBVIOUS
  <2>2. Alike(q, o)
    BY <1>1, <2>1 DEF Alike, Held, Congestion, PcbType
  <2> QED
    BY <2>2
<1>2. CASE q.dupacks # 2 /\ ~(q.dupacks >= 3) /\ o = [q EXCEPT !.dupacks = @ + 1, !.acked = 0]
  <2>1. PICK d : d = q.dupacks + 1 /\ d \in 0..4
    BY <1>2, PcbFacts, SMTT(30)
  <2>2. o = [q EXCEPT !.dupacks = d, !.acked = 0] /\ 0 \in Nat
    BY <1>2, <2>1
  <2>3. Alike(q, o)
    BY <2>1, <2>2, ZenonT(40) DEF Alike, Held, Congestion, PcbType
  <2> QED
    BY <2>3
<1>3. CASE o = [q EXCEPT !.dupacks = 4, !.cwnd = Cwnd(@ + SMss), !.acked = 0]
  <2>1. PICK g : g = Cwnd(q.cwnd + SMss)
    OBVIOUS
  <2>2. g \in Nat /\ SMss <= g /\ g <= PeerWnd
    <3>1. PICK x \in Nat, y \in Nat : x = q.cwnd /\ y = SMss
      BY PcbFacts, Sizes
    <3>2. x + y \in Nat /\ y <= x + y
      BY <3>1
    <3> QED
      BY <2>1, <3>1, <3>2, CwndFacts
  <2>3. o = [q EXCEPT !.dupacks = 4, !.cwnd = g, !.acked = 0]
    BY <1>3, <2>1
  <2>4. 4 \in 0..4 /\ 0 \in Nat
    OBVIOUS
  <2>5. Held(q, o) /\ o.cwnd = g /\ o.ssthresh = q.ssthresh /\ o.acked = 0
        /\ o.snd_wnd = q.snd_wnd /\ o.snd_wl1 = q.snd_wl1 /\ o.snd_wl2 = q.snd_wl2
    BY <2>2, <2>3, <2>4, ZenonT(40) DEF Held, PcbType
  <2>6. Alike(q, o)
    BY <2>2, <2>5 DEF Alike, Congestion
  <2> QED
    BY <2>6
<1>4. CASE o = [tcp_rexmit_fast(q) EXCEPT !.dupacks = 3, !.acked = 0]
  <2>1. PICK d \in 0..4 : d = 3
    OBVIOUS
  <2>2. o = Fast(q, d)
    BY <1>4, <2>1 DEF Fast
  <2> QED
    BY <2>2, FastIs
<1> QED
  BY <1>1, <1>2, <1>3, <1>4 DEF OldAck

\* An acknowledgement of k takes n segments off a queue.
Taken(s, a, b, w, k, n) ==
  /\ n \in 0..Len(s)
  /\ \E m \in Nat : /\ a <= m /\ m <= b /\ m <= k /\ (n = Len(s) => m = b)
                    /\ Line(Behind(s, n), m, b, w) /\ Pending(Behind(s, n), k)
  /\ n # Len(s) => b > k
  /\ HasFin(s, n) => w + 1 <= k /\ w + 1 <= b
  /\ n = Len(s) /\ s # <<>> /\ b = w + 1 => HasFin(s, n)

LEMMA LineTaken ==
  ASSUME NEW s, NEW a \in Nat, NEW b \in Nat, NEW w \in Nat, Line(s, a, b, w), NEW k \in Nat, a <= k,
         NEW n, n = Confirmed(s, k)
  PROVE  Taken(s, a, b, w, k, n)
<1>1. PICK l \in Nat : l = Len(s) /\ s \in Seq(SegType) /\ (s = <<>> <=> l = 0)
  BY LineFacts
<1>2. n \in 0..l /\ (\A i \in 1..n : EndSeq(s[i]) <= k) /\ (n = l \/ ~(EndSeq(s[n + 1]) <= k))
  BY <1>1, ConfirmedLeads
<1>3. \A i \in 1..l : EndSeq(s[i]) \in Nat /\ EndSeq(s[i]) <= b /\ Proper(s[i], w)
  BY <1>1, LineFacts
<1>4. PICK f, h : f = Upto(s, n) /\ h = Behind(s, n)
  OBVIOUS
<1>5. n \in 0..Len(s)
  BY <1>1, <1>2
<1>6. /\ f \in Seq(SegType) /\ Len(f) = n /\ (\A i \in 1..n : f[i] = s[i])
      /\ h \in Seq(SegType) /\ Len(h) = l - n /\ \A i \in 1..(l - n) : h[i] = s[n + i]
  BY <1>1, <1>4, <1>5, PartsAt, ZenonT(40)
<1>7. PICK m \in Nat : a <= m /\ m <= b /\ Line(f, a, m, w) /\ Line(h, m, b, w)
  BY <1>4, <1>5, LineSplit
<1>8. m <= k
  <2>1. CASE n = 0
    <3>1. f = <<>>
      BY <1>6, <2>1, NoneSeq
    <3> QED
      BY <1>7, <3>1 DEF Line
  <2>2. CASE n # 0
    <3>1. n \in 1..n /\ f # <<>>
      BY <1>2, <1>6, <2>2
    <3>2. EndSeq(f[n]) = m /\ f[n] = s[n]
      BY <1>6, <1>7, <3>1 DEF Line
    <3> QED
      BY <1>2, <3>1, <3>2
  <2> QED
    BY <2>1, <2>2
<1>9. n = l => m = b
  <2>1. ASSUME n = l PROVE m = b
    <3>1. Len(h) = 0
      BY <1>2, <1>6, <2>1
    <3>2. h = <<>>
      BY <1>6, <3>1, NoneSeq
    <3> QED
      BY <1>7, <3>2 DEF Line
  <2> QED
    BY <2>1
<1>10. n # l => b > k /\ EndSeq(s[n + 1]) > k
  <2>1. ASSUME n # l PROVE b > k /\ EndSeq(s[n + 1]) > k
    <3>1. n + 1 \in 1..l /\ ~(EndSeq(s[n + 1]) <= k)
      BY <1>2, <2>1
    <3>2. PICK z \in Nat : z = EndSeq(s[n + 1]) /\ z <= b
      BY <1>3, <3>1
    <3> QED
      BY <3>1, <3>2
  <2> QED
    BY <2>1
<1>11. Pending(h, k)
  <2>1. CASE n = l
    <3>1. Len(h) = 0
      BY <1>2, <1>6, <2>1
    <3> QED
      BY <3>1 DEF Pending
  <2>2. CASE n # l
    <3>1. 1 \in 1..(l - n) /\ l - n # 0
      BY <1>2, <2>2
    <3>2. h # <<>> /\ h[1] = s[n + 1]
      BY <1>6, <3>1
    <3>3. \A i \in 1..Len(h) : EndSeq(h[1]) <= EndSeq(h[i])
      BY <1>7, <3>2, LineFirst
    <3>4. \A i \in 1..Len(h) : EndSeq(h[i]) \in Nat
      BY <1>7, LineFacts
    <3>5. EndSeq(h[1]) > k /\ EndSeq(h[1]) \in Nat
      BY <1>6, <1>10, <2>2, <3>1, <3>2, <3>4
    <3>6. ASSUME NEW i \in 1..Len(h) PROVE EndSeq(h[i]) > k
      <4>1. PICK y \in Nat, z \in Nat : y = EndSeq(h[1]) /\ z = EndSeq(h[i]) /\ y > k /\ y <= z
        BY <3>3, <3>4, <3>5
      <4>2. z > k
        BY <4>1
      <4> QED
        BY <4>1, <4>2
    <3> QED
      BY <3>6 DEF Pending
  <2> QED
    BY <2>1, <2>2
<1>12. HasFin(s, n) => w + 1 <= k /\ w + 1 <= b
  <2>1. ASSUME HasFin(s, n) PROVE w + 1 <= k /\ w + 1 <= b
    <3>1. PICK i \in 1..n : s[i].fin
      BY <2>1 DEF HasFin
    <3>2. i \in 1..l
      BY <1>2
    <3>3. EndSeq(s[i]) = w + 1
      BY <1>3, <3>1, <3>2, SegFacts
    <3> QED
      BY <1>2, <1>3, <3>2, <3>3
  <2> QED
    BY <2>1
<1>13. n = l /\ s # <<>> /\ b = w + 1 => HasFin(s, n)
  <2>1. ASSUME n = l, s # <<>>, b = w + 1 PROVE HasFin(s, n)
    <3>1. l \in 1..l
      BY <1>1, <2>1
    <3>2. EndSeq(s[l]) = w + 1
      BY <1>1, <2>1 DEF Line
    <3>3. s[l].fin
      BY <1>3, <3>1, <3>2, SegFacts
    <3> QED
      BY <2>1, <3>1, <3>3 DEF HasFin
  <2> QED
    BY <2>1
<1> QED
  BY <1>1, <1>4, <1>5, <1>7, <1>8, <1>9, <1>10, <1>11, <1>12, <1>13 DEF Taken

\* It takes n off unacked and h off unsent, and with them the FIN if it covers it.
TakenBoth(A, U, e, w, k, n, h) ==
  /\ n \in 0..Len(A) /\ h \in 0..Len(U)
  /\ \E f \in Nat, g \in Nat :
       /\ f <= k /\ f <= g /\ g <= e
       /\ Line(Behind(A, n), f, g, w) /\ Line(Behind(U, h), g, e, w)
       /\ Pending(Behind(A, n), k) /\ Pending(Behind(U, h), k)
  /\ k <= w => ~HasFin(A, n) /\ ~HasFin(U, h)
  /\ k > w => (HasFin(A, n) <=> ~HasFin(U, h))

LEMMA QueuesTaken ==
  ASSUME NEW A, NEW U, NEW a \in Nat, NEW b \in Nat, NEW e \in Nat, NEW w \in Nat,
         Line(A, a, b, w), Line(U, b, e, w), NEW k \in Nat, a <= k, k <= e, a < e, e <= w + 1,
         NEW n, n = Confirmed(A, k), NEW h, h = Confirmed(U, k)
  PROVE  TakenBoth(A, U, e, w, k, n, h)
<1> Taken(A, a, b, w, k, n)
  BY LineTaken
<1>1. /\ n \in 0..Len(A)
      /\ n # Len(A) => b > k
      /\ HasFin(A, n) => w + 1 <= k /\ w + 1 <= b
      /\ n = Len(A) /\ A # <<>> /\ b = w + 1 => HasFin(A, n)
  BY DEF Taken
<1>2. PICK f \in Nat : /\ a <= f /\ f <= b /\ f <= k /\ (n = Len(A) => f = b)
                       /\ Line(Behind(A, n), f, b, w) /\ Pending(Behind(A, n), k)
  BY DEF Taken
<1>3. b <= e /\ A \in Seq(SegType) /\ U \in Seq(SegType) /\ Len(A) \in Nat /\ Len(U) \in Nat
  BY LineFacts DEF Line
<1>4. CASE n = Len(A)
  <2>1. f = b /\ b <= k
    BY <1>2, <1>4
  <2> Taken(U, b, e, w, k, h)
    BY <2>1, LineTaken
  <2>2. /\ h \in 0..Len(U)
        /\ h # Len(U) => e > k
        /\ HasFin(U, h) => w + 1 <= k /\ w + 1 <= e
        /\ h = Len(U) /\ U # <<>> /\ e = w + 1 => HasFin(U, h)
    BY DEF Taken
  <2>3. PICK g \in Nat : /\ b <= g /\ g <= e /\ g <= k /\ (h = Len(U) => g = e)
                         /\ Line(Behind(U, h), g, e, w) /\ Pending(Behind(U, h), k)
    BY DEF Taken
  <2>4. Behind(A, n) = <<>>
    <3>1. Behind(A, n) \in Seq(SegType) /\ Len(Behind(A, n)) = Len(A) - n
      BY <1>1, <1>3, PartsAt
    <3>2. Len(Behind(A, n)) = 0
      BY <1>3, <1>4, <3>1
    <3> QED
      BY <3>1, <3>2, NoneSeq
  <2>5. Line(Behind(A, n), g, g, w)
    BY <2>4, LineNone
  <2>6. k <= w => ~HasFin(A, n) /\ ~HasFin(U, h)
    BY <1>1, <2>2
  <2>7. ASSUME k > w PROVE HasFin(A, n) <=> ~HasFin(U, h)
    <3>1. k = w + 1 /\ e = w + 1 /\ h = Len(U)
      BY <2>2, <2>7
    <3>2. CASE U = <<>>
      <4>1. b = e /\ A # <<>>
        BY <3>2 DEF Line
      <4>2. HasFin(A, n)
        BY <1>1, <1>4, <3>1, <4>1
      <4>3. h = 0
        BY <3>1, <3>2
      <4>4. ~HasFin(U, h)
        BY <4>3 DEF HasFin
      <4> QED
        BY <4>2, <4>4
    <3>3. CASE U # <<>>
      <4>1. HasFin(U, h)
        BY <2>2, <3>1, <3>3
      <4>2. b < e
        <5>1. b < EndSeq(U[1]) /\ EndSeq(U[1]) <= e /\ Proper(U[1], w)
          BY <3>3, LineFirst
        <5>2. EndSeq(U[1]) \in Nat
          BY <5>1, SegFacts
        <5> QED
          BY <5>1, <5>2
      <4>3. ~HasFin(A, n)
        BY <1>1, <3>1, <4>2
      <4> QED
        BY <4>1, <4>3
    <3> QED
      BY <3>2, <3>3
  <2>8. g <= k /\ g <= g /\ g <= e
    BY <2>3
  <2> QED
    BY <1>1, <1>2, <2>2, <2>3, <2>5, <2>6, <2>7, <2>8 DEF TakenBoth
<1>5. CASE n # Len(A)
  <2>1. b > k /\ k <= w /\ k <= b
    BY <1>1, <1>3, <1>5
  <2>2. Pending(U, k)
    BY <2>1, LinePending
  <2>3. h = 0
    BY <1>3, <2>2, NoneConfirmed
  <2>4. Behind(U, h) = U
    BY <1>3, <2>3 DEF Behind
  <2>5. ~HasFin(A, n) /\ ~HasFin(U, h)
    <3>1. ~HasFin(A, n)
      BY <1>1, <2>1
    <3>2. ~HasFin(U, h)
      BY <2>3 DEF HasFin
    <3> QED
      BY <3>1, <3>2
  <2>6. h \in 0..Len(U)
    BY <1>3, <2>3
  <2>7. ~(k > w)
    BY <2>1
  <2> QED
    BY <1>1, <1>2, <1>3, <2>2, <2>4, <2>5, <2>6, <2>7 DEF TakenBoth
<1> QED
  BY <1>4, <1>5

\* The congestion window grows.
LEMMA GrownFacts ==
  ASSUME NEW d \in Nat, SMss <= d, NEW t \in Nat
  PROVE  /\ Cwnd(d + (IF d < t THEN SMss ELSE (SMss * SMss) \div d)) \in Nat
         /\ SMss <= Cwnd(d + (IF d < t THEN SMss ELSE (SMss * SMss) \div d))
         /\ Cwnd(d + (IF d < t THEN SMss ELSE (SMss * SMss) \div d)) <= PeerWnd
<1>1. PICK s \in Nat : s = SMss /\ s > 0
  BY Sizes
<1>2. s * s \in Nat /\ d > 0
  BY <1>1
<1>3. (s * s) \div d \in Nat
  BY <1>2, Quotient
<1>4. PICK x \in Nat : x = (IF d < t THEN s ELSE (s * s) \div d)
  BY <1>1, <1>3
<1>5. d + x \in Nat /\ SMss <= d + x
  BY <1>1, <1>4
<1> QED
  BY <1>1, <1>4, <1>5, CwndFacts

\* What the sent callback confirms: y says that the FIN was unacked, z that it
\* was unsent, of what an acknowledgement from k to l takes.
LEMMA ConfirmedBytes ==
  ASSUME NEW w \in Nat, NEW k \in Nat, NEW l \in Nat, k < l, l <= w + 1, NEW y \in BOOLEAN, NEW z \in BOOLEAN,
         l <= w => ~y /\ ~z, l > w => (y <=> ~z), NEW d, d = l - k - (IF y THEN 1 ELSE 0),
         NEW n, n = (IF d # 0 /\ z THEN d - 1 ELSE d)
  PROVE  d \in Nat /\ n \in Nat /\ Smaller(k, w) + n = Smaller(l, w)
<1>1. CASE l <= w
  <2>1. d = l - k /\ n = d
    BY <1>1
  <2> QED
    BY <1>1, <2>1 DEF Smaller
<1>2. CASE l > w
  <2>1. l = w + 1 /\ k <= w /\ Smaller(k, w) = k /\ Smaller(l, w) = w
    BY <1>2 DEF Smaller
  <2>2. CASE y
    <3>1. d = w - k /\ n = d
      BY <1>2, <2>1, <2>2
    <3> QED
      BY <2>1, <3>1
  <2>3. CASE ~y
    <3>1. d = w + 1 - k /\ d # 0 /\ n = w - k
      BY <1>2, <2>1, <2>3
    <3> QED
      BY <2>1, <3>1
  <2> QED
    BY <2>2, <2>3
<1> QED
  BY <1>1, <1>2

\* What an acknowledgement of l takes off the queues A and U, and the bytes
\* that the sent callback confirms, k being acknowledged before.
Takes(A, U, k, l, n, h, d, m) ==
  /\ n = Confirmed(A, l) /\ h = Confirmed(U, l)
  /\ d = l - k - (IF HasFin(A, n) THEN 1 ELSE 0)
  /\ m = IF d # 0 /\ HasFin(U, h) THEN d - 1 ELSE d

\* NewAck and AckUnsent, as one assignment.
NewAcked(q, l, f, S, V, B, m, g) ==
  [q EXCEPT !.infr = FALSE, !.nrtx = 0, !.dupacks = 0, !.lastack = l, !.acked = m,
            !.snd_buf = f, !.cwnd = g, !.unacked = S, !.rtime = B, !.unsent = V]

NewAckGives(q, l, A, U, n, h, m) ==
  \E g \in Nat :
    /\ SMss <= g /\ g <= PeerWnd
    /\ AckUnsent(NewAck(q, l), l) =
         NewAcked(q, l, q.snd_buf + (l - q.lastack), Behind(A, n), Behind(U, h), n < Len(A), m, g)

LEMMA NewAckIs ==
  ASSUME NEW q \in PcbType, Congestion(q), NEW l \in Nat, l <= q.snd_nxt, NEW A, A = q.unacked, NEW U, U = q.unsent,
         NEW n, NEW h, NEW d, NEW m, Takes(A, U, q.lastack, l, n, h, d, m)
  PROVE  NewAckGives(q, l, A, U, n, h, m)
<1>0. PICK o : o = AckUnsent(NewAck(q, l), l)
  OBVIOUS
<1>1. PICK t : t = IF q.infr THEN q.ssthresh ELSE q.cwnd
  OBVIOUS
<1>2. t \in Nat /\ SMss <= t /\ q.ssthresh \in Nat
  BY <1>1, PcbFacts DEF Congestion
<1>3. PICK g : g = Cwnd(t + (IF t < q.ssthresh THEN SMss ELSE (SMss * SMss) \div t))
  OBVIOUS
<1>4. g \in Nat /\ SMss <= g /\ g <= PeerWnd
  BY <1>2, <1>3, GrownFacts
<1>5. PICK N, S, B, f : /\ N = NewAck(q, l) /\ S = Behind(A, n) /\ B = (n < Len(A)) /\ f = q.snd_buf + (l - q.lastack)
  OBVIOUS
<1>6. N = [q EXCEPT !.infr = FALSE, !.nrtx = 0, !.dupacks = 0, !.lastack = l, !.acked = d,
                    !.snd_buf = f, !.cwnd = g, !.unacked = S, !.rtime = B]
  BY <1>1, <1>3, <1>5 DEF NewAck, Behind, Takes
<1>7. N.unsent = U /\ N.snd_nxt = q.snd_nxt /\ N.acked = d
  BY <1>6 DEF PcbType
<1>8. o = [N EXCEPT !.unsent = Behind(U, h), !.acked = m]
  BY <1>0, <1>5, <1>7 DEF AckUnsent, Behind, Takes
<1>9. PICK V : V = Behind(U, h)
  OBVIOUS
<1>10. o = [q EXCEPT !.infr = FALSE, !.nrtx = 0, !.dupacks = 0, !.lastack = l, !.acked = m,
                     !.snd_buf = f, !.cwnd = g, !.unacked = S, !.rtime = B, !.unsent = V]
  BY <1>6, <1>8, <1>9 DEF PcbType
<1> QED
  BY <1>0, <1>4, <1>5, <1>9, <1>10, ZenonT(40) DEF NewAcked, NewAckGives

\* What an acknowledgement makes of the rest.
Acks(p, o) ==
  /\ o.snd_nxt = p.snd_nxt /\ o.fin = p.fin /\ o.state = p.state
  /\ o.lastack \in Nat /\ p.lastack <= o.lastack /\ o.acked \in Nat

LEMMA NewOk ==
  ASSUME NEW p, NEW w \in Nat, NEW c, NEW r \in FarType, Ok(p, w, c, r), NEW q, Held(p, q), Window(q, r),
         Congestion(q), NEW l \in Nat, p.lastack < l, l <= p.snd_nxt, l <= q.snd_wl2,
         p.lastack + p.snd_wnd <= l + q.snd_wnd, NEW o, o = AckUnsent(NewAck(q, l), l)
  PROVE  Acks(p, o) /\ Ok(o, w, c + o.acked, r)
<1>1. p \in PcbType /\ q \in PcbType
  BY DEF Ok, Held
<1>2. PICK A, U, k, x, e, f, b : /\ A = q.unacked /\ U = q.unsent /\ k = q.lastack /\ x = q.snd_nxt
                                 /\ e = StreamEnd(p, w) /\ f = q.snd_buf /\ b = q.snd_lbb
  OBVIOUS
<1>3. /\ A = p.unacked /\ U = p.unsent /\ k = p.lastack /\ x = p.snd_nxt /\ f = p.snd_buf /\ b = p.snd_lbb
      /\ q.fin = p.fin /\ q.state = p.state
  BY <1>2 DEF Held
<1>4. /\ k \in Nat /\ x \in Nat /\ e \in Nat /\ f \in Nat /\ b \in Nat /\ w <= e /\ e <= w + 1
      /\ A \in Seq(SegType) /\ U \in Seq(SegType) /\ Len(A) \in Nat /\ Len(U) \in Nat
  BY <1>1, <1>2, PcbFacts
<1>5. k < l /\ l <= x /\ x <= e /\ w <= b /\ b <= e /\ f + b = SndBuf + k /\ c = Smaller(k, w)
  BY <1>2, <1>3 DEF Ok, Counts
<1>6. PICK i \in Nat, j \in Nat : i <= k /\ Line(A, i, j, w) /\ Line(U, j, e, w)
  <2>1. Queues(p, w)
    BY DEF Ok
  <2> QED
    BY <1>1, <1>2, <1>3, <2>1, QueuesAre
<1>7. PICK n, h, d, m : Takes(A, U, k, l, n, h, d, m)
  BY DEF Takes
<1>8. TakenBoth(A, U, e, w, l, n, h)
  <2>1. i <= l /\ l <= e /\ i < e
    BY <1>4, <1>5, <1>6
  <2> QED
    BY <1>4, <1>6, <1>7, <2>1, QueuesTaken DEF Takes
<1>9. d \in Nat /\ m \in Nat /\ c + m = Smaller(l, w)
  <2>1. PICK y \in BOOLEAN, z \in BOOLEAN : y = HasFin(A, n) /\ z = HasFin(U, h)
    BY DEF HasFin
  <2>2. (l <= w => ~y /\ ~z) /\ (l > w => (y <=> ~z))
    BY <1>8, <2>1 DEF TakenBoth
  <2>3. d = l - k - (IF y THEN 1 ELSE 0) /\ m = (IF d # 0 /\ z THEN d - 1 ELSE d)
    BY <1>7, <2>1 DEF Takes
  <2>4. k < l /\ l <= w + 1
    BY <1>4, <1>5
  <2>5. d \in Nat /\ m \in Nat /\ Smaller(k, w) + m = Smaller(l, w)
    BY <1>4, <2>2, <2>3, <2>4, ConfirmedBytes
  <2> QED
    BY <1>5, <2>5
<1>10. PICK g \in Nat :
         /\ SMss <= g /\ g <= PeerWnd
         /\ o = NewAcked(q, l, q.snd_buf + (l - q.lastack), Behind(A, n), Behind(U, h), n < Len(A), m, g)
  <2>1. /\ l <= q.snd_nxt /\ Takes(A, U, q.lastack, l, n, h, d, m)
        /\ A = q.unacked /\ U = q.unsent /\ q \in PcbType /\ Congestion(q)
    BY <1>1, <1>2, <1>5, <1>7
  <2>2. NewAckGives(q, l, A, U, n, h, m)
    BY <2>1, NewAckIs
  <2> QED
    BY <2>2 DEF NewAckGives
<1>11. PICK S, V, F, B : S = Behind(A, n) /\ V = Behind(U, h) /\ F = f + (l - k) /\ B = (n < Len(A))
  OBVIOUS
<1>12. F \in Nat /\ F + b = SndBuf + l
  BY <1>4, <1>5, <1>11, Sizes
<1>13. n \in 0..Len(A) /\ h \in 0..Len(U)
  BY <1>8 DEF TakenBoth
<1>14. /\ S \in Seq(SegType) /\ Len(S) = Len(A) - n /\ (\A z \in 1..(Len(A) - n) : S[z] = A[n + z])
       /\ V \in Seq(SegType)
  <2>1. /\ S \in Seq(SegType) /\ Len(S) = Len(A) - n
        /\ \A z \in 1..(Len(A) - n) : S[z] = A[n + z]
    BY <1>4, <1>11, <1>13, PartsAt
  <2>2. V \in Seq(SegType)
    BY <1>4, <1>11, <1>13, PartsAt
  <2> QED
    BY <2>1, <2>2
<1>15. o = NewAcked(q, l, F, S, V, B, m, g) /\ B \in BOOLEAN
  BY <1>2, <1>10, <1>11
<1>16. /\ o \in PcbType /\ o.lastack = l /\ o.acked = m /\ o.snd_buf = F /\ o.cwnd = g /\ o.unacked = S
       /\ o.rtime = B /\ o.unsent = V /\ o.snd_nxt = x /\ o.snd_lbb = b /\ o.fin = p.fin /\ o.state = p.state
       /\ o.ssthresh = q.ssthresh /\ o.snd_wnd = q.snd_wnd /\ o.snd_wl1 = q.snd_wl1 /\ o.snd_wl2 = q.snd_wl2
  <2>1. 0 \in 0..(MaxRtx + 1) /\ 0 \in 0..4
    BY Sizes
  <2>2. S \in Seq(SegType) /\ V \in Seq(SegType) /\ m \in Nat /\ F \in Nat /\ g \in Nat /\ B \in BOOLEAN
    BY <1>9, <1>12, <1>14, <1>15
  <2>3. o \in PcbType
    <3>1. PICK t : t = [q EXCEPT !.infr = FALSE, !.nrtx = 0, !.dupacks = 0, !.lastack = l, !.acked = m]
      OBVIOUS
    <3>2. t \in PcbType
      BY <1>1, <2>1, <2>2, <3>1 DEF PcbType
    <3>3. o = [t EXCEPT !.snd_buf = F, !.cwnd = g, !.unacked = S, !.rtime = B, !.unsent = V]
      BY <1>1, <1>15, <3>1 DEF NewAcked, PcbType
    <3>4. [t EXCEPT !.snd_buf = F, !.cwnd = g, !.unacked = S, !.rtime = B, !.unsent = V] \in PcbType
      BY <2>2, <3>2 DEF PcbType
    <3> QED
      BY <3>3, <3>4
  <2> QED
    BY <1>1, <1>2, <1>3, <1>15, <2>3 DEF NewAcked, PcbType
<1>17. StreamEnd(o, w) = e
  BY <1>2, <1>16 DEF StreamEnd
<1>18. Queues(o, w)
  <2>1. PICK y \in Nat, z \in Nat : /\ y <= l /\ y <= z /\ z <= e /\ Line(S, y, z, w) /\ Line(V, z, e, w)
                                    /\ Pending(S, l) /\ Pending(V, l)
    BY <1>8, <1>11 DEF TakenBoth
  <2>2. y \in 0..e /\ z \in 0..e
    BY <1>4, <2>1
  <2> QED
    BY <1>16, <1>17, <2>1, <2>2 DEF Queues
<1>19. InFlight(o)
  <2>1. ASSUME NEW z \in 1..Len(S)
        PROVE  EndSeq(S[z]) <= x /\ S[z].seq + S[z].len <= l + q.snd_wnd
    <3>1. PICK y \in 1..Len(A) : S[z] = A[y]
      <4>1. z \in 1..(Len(A) - n) /\ n + z \in 1..Len(A)
        BY <1>4, <1>13, <1>14
      <4> QED
        BY <1>14, <4>1
    <3>2. EndSeq(A[y]) <= x /\ A[y].seq + A[y].len <= p.lastack + p.snd_wnd
      BY <1>3 DEF Ok, InFlight
    <3>3. A[y].seq + A[y].len \in Nat
      <4>1. A[y] \in SegType
        BY <1>4
      <4> QED
        BY <4>1 DEF SegType
    <3>4. PICK s \in Nat, t \in Nat, v \in Nat : s = A[y].seq + A[y].len /\ t = p.snd_wnd /\ v = q.snd_wnd
      BY <1>1, <3>3, PcbFacts
    <3>5. s <= k + t /\ k + t <= l + v
      BY <1>3, <3>2, <3>4
    <3>6. s <= l + v
      BY <1>4, <3>5
    <3> QED
      BY <3>1, <3>2, <3>4, <3>6
  <2>2. S # <<>> => B
    <3>1. ASSUME S # <<>> PROVE n < Len(A)
      <4>1. Len(S) # 0
        BY <1>14, <3>1, NoneSeq
      <4>2. Len(A) - n # 0
        BY <1>14, <4>1
      <4>3. PICK y, z : y \in Nat /\ z \in 0..y /\ y = Len(A) /\ z = n
        BY <1>4, <1>13
      <4>4. z < y
        BY <4>2, <4>3
      <4> QED
        BY <4>3, <4>4
    <3> QED
      BY <1>11, <3>1
  <2> QED
    BY <1>16, <2>1, <2>2 DEF InFlight
<1>20. Congestion(o)
  BY <1>10, <1>16 DEF Congestion
<1>21. Counts(o, w, c + m)
  BY <1>5, <1>9, <1>12, <1>16, <1>17 DEF Counts
<1>22. Peer(o, r, w)
  <2>1. Reached(o, r.rcv)
    <3>1. r.rcv <= x \/ r.rcv <= k + 1
      BY <1>2, <1>3 DEF Ok, Peer, Reached
    <3>2. r.rcv \in Nat
      BY FarFacts
    <3>3. r.rcv <= x \/ r.rcv <= l + 1
      BY <1>4, <1>5, <3>1, <3>2
    <3> QED
      BY <1>16, <3>3 DEF Reached
  <2>2. Known(o, r)
    BY <1>16 DEF Window, Known
  <2>3. r.late # <<>> => Past(r.late[1], o, r)
    BY <1>16 DEF Window, Past
  <2> QED
    BY <1>2, <1>17, <2>1, <2>2, <2>3 DEF Ok, Peer
<1>23. p.fin <=> p.state \notin Open
  BY DEF Ok
<1>24. Acks(p, o)
  BY <1>3, <1>4, <1>5, <1>9, <1>16 DEF Acks
<1> QED
  BY <1>16, <1>18, <1>19, <1>20, <1>21, <1>22, <1>23, <1>24 DEF Ok

LEMMA PendingLess ==
  ASSUME NEW s, s \in Seq(SegType), NEW k \in Nat, NEW l \in Nat, l <= k, Pending(s, k)
  PROVE  Pending(s, l)
<1>1. ASSUME NEW i \in 1..Len(s) PROVE EndSeq(s[i]) > l
  <2>1. s[i] \in SegType
    OBVIOUS
  <2>2. EndSeq(s[i]) \in Nat
    BY <2>1 DEF SegType, EndSeq, TcpLen
  <2>3. PICK z \in Nat : z = EndSeq(s[i]) /\ z > k
    BY <2>2 DEF Pending
  <2>4. z > l
    BY <2>3
  <2> QED
    BY <2>3, <2>4
<1> QED
  BY <1>1 DEF Pending

LEMMA ResentFacts ==
  ASSUME NEW v \in PcbType, v.unacked # <<>>
  PROVE  /\ Resent(v) \in PcbType /\ Resent(v).acked = v.acked /\ Resent(v).state = v.state
         /\ Resent(v).snd_nxt = v.snd_nxt /\ Resent(v).unsent = Cat(<<v.unacked[1]>>, v.unsent)
         /\ v.unacked[1] \in SegType /\ 1 \in 1..Len(v.unacked)
<1>1. PICK A, U : A = v.unacked /\ U = v.unsent /\ A \in Seq(SegType) /\ U \in Seq(SegType) /\ A # <<>>
  BY PcbFacts
<1>2. A[1] \in SegType /\ Tail(A) \in Seq(SegType) /\ 1 \in 1..Len(A)
  BY <1>1
<1>3. PICK T, Z : T = Tail(A) /\ Z = Cat(<<A[1]>>, U) /\ T \in Seq(SegType) /\ Z \in Seq(SegType)
  <2>1. <<A[1]>> \in Seq(SegType)
    BY <1>2
  <2>2. <<A[1]>> \o U \in Seq(SegType)
    BY <1>1, <2>1
  <2> QED
    BY <1>2, <2>2 DEF Cat
<1>4. Resent(v) = [v EXCEPT !.unacked = T, !.unsent = Z]
  BY <1>1, <1>3 DEF Resent
<1> QED
  BY <1>1, <1>2, <1>3, <1>4 DEF PcbType

\* The pcb v that the first unacked segment of may have gone back to unsent.
Resends(o, v) == o = v \/ (v.unacked # <<>> /\ o = Resent(v))

AckGives(p, w, c, r, o) ==
  \E v : Acks(p, v) /\ o.acked = v.acked /\ o.state = v.state /\ Ok(v, w, c + v.acked, r) /\ Resends(o, v)

LEMMA OldOk ==
  ASSUME NEW p, NEW w \in Nat, NEW c, NEW r \in FarType, Ok(p, w, c, r), NEW a, Arrived(a, r),
         NEW q, q = UpdateWindow(p, a), a.ack <= p.lastack, NEW o, o = AckUnsent(OldAck(p, q, a), a.ack)
  PROVE  AckGives(p, w, c, r, o)
<1>1. p \in PcbType /\ Peer(p, r, w) /\ Queues(p, w) /\ Congestion(p) /\ Counts(p, w, c)
  BY DEF Ok
<1>2. a.ack \in Nat /\ p.lastack \in Nat
  BY <1>1, ArrivedPast, PcbFacts
<1>3. /\ Held(p, q) /\ Window(q, r) /\ q.cwnd = p.cwnd /\ q.ssthresh = p.ssthresh
      /\ p.lastack <= q.snd_wl2 /\ p.snd_wnd <= q.snd_wnd
  BY UpdateIs
<1>4. q \in PcbType /\ Queues(q, w) /\ Congestion(q)
  <2>1. StreamEnd(q, w) = StreamEnd(p, w)
    BY <1>3 DEF Held, StreamEnd
  <2> QED
    BY <1>1, <1>3, <2>1 DEF Held, Queues, Congestion
<1>5. PICK i : i = OldAck(p, q, a)
  OBVIOUS
<1>6. PICK v : Alike(q, v) /\ (i = v \/ (v.unacked # <<>> /\ i = Resent(v)))
  BY <1>4, <1>5, OldIs
<1>7. /\ Held(p, v) /\ v \in PcbType /\ Congestion(v) /\ v.acked = 0
      /\ v.snd_wnd = q.snd_wnd /\ v.snd_wl1 = q.snd_wl1 /\ v.snd_wl2 = q.snd_wl2
  BY <1>3, <1>6 DEF Alike, Held
<1>8. Window(v, r)
  BY <1>3, <1>7 DEF Window, Past
<1>9. Ok(v, w, c, r)
  <2>1. p.lastack <= v.snd_wl2 /\ p.snd_wnd <= v.snd_wnd
    BY <1>3, <1>7
  <2> QED
    BY <1>7, <1>8, <2>1, HeldOk
<1>10. c + v.acked = c
  <2>1. c \in Nat
    BY <1>1, <1>2 DEF Counts, Smaller
  <2> QED
    BY <1>7, <2>1
<1>11. Acks(p, v)
  BY <1>2, <1>7 DEF Held, Acks
<1>12. Pending(v.unsent, a.ack) /\ Pending(v.unacked, a.ack)
  <2>1. Pending(v.unsent, p.lastack) /\ Pending(v.unacked, p.lastack)
    BY <1>7, <1>9 DEF Ok, Queues, Held
  <2> QED
    BY <1>2, <1>7, <2>1, PendingLess, PcbFacts
<1>13. i \in PcbType /\ Pending(i.unsent, a.ack) /\ i.acked = v.acked /\ i.state = v.state
  <2>1. CASE i = v
    BY <1>7, <1>12, <2>1
  <2>2. CASE v.unacked # <<>> /\ i = Resent(v)
    <3>1. PICK x, s : x = v.unacked[1] /\ s = <<x>>
      OBVIOUS
    <3>2. /\ i \in PcbType /\ i.acked = v.acked /\ i.state = v.state /\ i.unsent = Cat(s, v.unsent)
          /\ x \in SegType /\ 1 \in 1..Len(v.unacked)
      BY <1>7, <2>2, <3>1, ResentFacts
    <3>3. Pending(s, a.ack) /\ s \in Seq(SegType)
      <4>1. EndSeq(x) > a.ack
        BY <1>12, <3>1, <3>2 DEF Pending
      <4>2. s \in Seq(SegType) /\ Len(s) = 1 /\ s[1] = x
        BY <3>1, <3>2
      <4>3. \A j \in 1..Len(s) : j = 1
        BY <4>2
      <4> QED
        BY <4>1, <4>2, <4>3 DEF Pending
    <3>4. v.unsent \in Seq(SegType)
      BY <1>7, PcbFacts
    <3>5. Pending(Cat(s, v.unsent), a.ack)
      BY <1>12, <3>3, <3>4, PendingCat
    <3> QED
      BY <3>2, <3>5
  <2> QED
    BY <1>6, <2>1, <2>2
<1>14. o = i
  <2>1. AckUnsent(i, a.ack) = i
    BY <1>2, <1>13, UnsentStays
  <2> QED
    BY <1>5, <2>1
<1> QED
  BY <1>6, <1>9, <1>10, <1>11, <1>13, <1>14 DEF AckGives, Resends

\* An acknowledgement of a probe's byte, which was never counted as sent.
LEMMA BeyondOk ==
  ASSUME NEW p, NEW w \in Nat, NEW c, NEW r \in FarType, Ok(p, w, c, r), NEW a, Arrived(a, r),
         NEW q, q = UpdateWindow(p, a), p.snd_nxt < a.ack, NEW o, o = AckUnsent([q EXCEPT !.acked = 0], a.ack)
  PROVE  AckGives(p, w, c, r, o)
<1>1. p \in PcbType /\ Peer(p, r, w) /\ Congestion(p) /\ Counts(p, w, c)
  BY DEF Ok
<1>2. PICK l \in Nat, k \in Nat, x \in Nat, y \in Nat : /\ l = a.ack /\ k = p.lastack /\ x = p.snd_nxt /\ y = r.rcv
                                                       /\ l <= y
  BY <1>1, ArrivedPast, PcbFacts, FarFacts
<1>3. /\ Held(p, q) /\ Window(q, r) /\ q.cwnd = p.cwnd /\ q.ssthresh = p.ssthresh
      /\ p.lastack <= q.snd_wl2
  BY UpdateIs
<1>4. x < l /\ (y <= x \/ y <= k + 1) /\ k <= x
  BY <1>1, <1>2 DEF Peer, Reached, Counts
<1>5. x = k
  BY <1>2, <1>4
<1>6. p.unacked = <<>>
  <2>1. ASSUME p.unacked # <<>> PROVE FALSE
    <3>1. PICK A : A = p.unacked /\ A \in Seq(SegType) /\ A # <<>>
      BY <1>1, <2>1, PcbFacts
    <3>2. 1 \in 1..Len(A) /\ A[1] \in SegType
      BY <3>1
    <3>3. EndSeq(A[1]) \in Nat
      BY <3>2 DEF SegType, EndSeq, TcpLen
    <3>4. EndSeq(A[1]) > k /\ EndSeq(A[1]) <= x
      BY <1>2, <3>1, <3>2 DEF Ok, Queues, InFlight, Pending
    <3> QED
      BY <1>5, <3>3, <3>4
  <2> QED
    BY <2>1
<1>7. PICK v : v = [q EXCEPT !.acked = 0]
  OBVIOUS
<1>8. /\ Held(p, v) /\ v \in PcbType /\ v.acked = 0 /\ v.cwnd = p.cwnd /\ v.ssthresh = p.ssthresh
      /\ v.snd_wnd = q.snd_wnd /\ v.snd_wl1 = q.snd_wl1 /\ v.snd_wl2 = q.snd_wl2
  BY <1>3, <1>7 DEF Held, PcbType
<1>9. Window(v, r) /\ Congestion(v)
  BY <1>1, <1>3, <1>8 DEF Window, Past, Congestion
<1>10. Ok(v, w, c, r)
  <2>1. p.lastack <= v.snd_wl2
    BY <1>3, <1>8
  <2> QED
    BY <1>6, <1>8, <1>9, <2>1, HeldOk
<1>11. c + v.acked = c
  <2>1. c \in Nat
    BY <1>1, <1>2 DEF Counts, Smaller
  <2> QED
    BY <1>8, <2>1
<1>12. Acks(p, v)
  BY <1>2, <1>8 DEF Held, Acks
<1>13. o = v
  <2>1. ~(l <= v.snd_nxt)
    BY <1>2, <1>4, <1>8 DEF Held
  <2>2. AckUnsent(v, l) = v
    BY <1>8, <2>1, UnsentStays
  <2> QED
    BY <1>2, <1>7, <2>2
<1> QED
  BY <1>10, <1>11, <1>12, <1>13 DEF AckGives, Resends

LEMMA AckOk ==
  ASSUME NEW p, NEW w \in Nat, NEW c, NEW r \in FarType, Ok(p, w, c, r), NEW a, Arrived(a, r),
         NEW q, q = UpdateWindow(p, a), NEW o, o = AckUnsent(TakeAck(p, q, a), a.ack)
  PROVE  AckGives(p, w, c, r, o)
<1>1. p \in PcbType /\ Peer(p, r, w) /\ Congestion(p)
  BY DEF Ok
<1>2. a.ack \in Nat /\ p.lastack \in Nat /\ p.snd_nxt \in Nat /\ q.snd_nxt = p.snd_nxt
  <2>1. Held(p, q)
    BY UpdateIs
  <2> QED
    BY <1>1, <2>1, ArrivedPast, PcbFacts DEF Held
<1>3. CASE a.ack <= p.lastack
  <2>1. o = AckUnsent(OldAck(p, q, a), a.ack)
    BY <1>3 DEF TakeAck
  <2> QED
    BY <1>3, <2>1, OldOk
<1>4. CASE ~(a.ack <= p.lastack) /\ a.ack <= p.snd_nxt
  <2>1. PICK l \in Nat : l = a.ack /\ p.lastack < l /\ l <= p.snd_nxt
    BY <1>2, <1>4
  <2>2. o = AckUnsent(NewAck(q, l), l)
    BY <1>2, <1>4, <2>1 DEF TakeAck
  <2>3. /\ Held(p, q) /\ Window(q, r) /\ q.cwnd = p.cwnd /\ q.ssthresh = p.ssthresh
        /\ l <= q.snd_wl2 /\ p.lastack + p.snd_wnd <= l + q.snd_wnd
    <3>1. /\ Held(p, q) /\ Window(q, r) /\ q.cwnd = p.cwnd /\ q.ssthresh = p.ssthresh
          /\ a.ack <= q.snd_wl2
          /\ p.lastack < a.ack => p.lastack + p.snd_wnd <= a.ack + q.snd_wnd
      BY UpdateIs
    <3> QED
      BY <2>1, <3>1
  <2>4. Congestion(q)
    BY <1>1, <2>3 DEF Congestion
  <2>5. Acks(p, o) /\ Ok(o, w, c + o.acked, r)
    BY <2>1, <2>2, <2>3, <2>4, NewOk
  <2> QED
    BY <2>5 DEF AckGives, Resends
<1>5. CASE ~(a.ack <= p.lastack) /\ ~(a.ack <= p.snd_nxt)
  <2>1. o = AckUnsent([q EXCEPT !.acked = 0], a.ack) /\ p.snd_nxt < a.ack
    BY <1>2, <1>5 DEF TakeAck
  <2> QED
    BY <2>1, BeyondOk
<1> QED
  BY <1>3, <1>4, <1>5

\* tcp_process keeps the state on its side of the FIN.
LEMMA NextStateIs ==
  ASSUME NEW o, NEW a \in AckType, o.state \in Open \cup Closing
  PROVE  /\ NextState(o, a) \in Open \cup Closing \cup Ended
         /\ NextState(o, a) \in Open <=> o.state \in Open
<1>1. a.fin \in BOOLEAN
  BY DEF AckType
<1>2. CASE o.state = "ESTABLISHED"
  BY <1>1, <1>2 DEF NextState, Open, Closing, Ended
<1>3. CASE o.state = "CLOSE_WAIT"
  BY <1>1, <1>3 DEF NextState, Open, Closing, Ended
<1>4. CASE o.state = "FIN_WAIT_1"
  BY <1>1, <1>4 DEF NextState, Open, Closing, Ended
<1>5. CASE o.state = "FIN_WAIT_2"
  BY <1>1, <1>5 DEF NextState, Open, Closing, Ended
<1>6. CASE o.state = "CLOSING"
  BY <1>1, <1>6 DEF NextState, Open, Closing, Ended
<1>7. CASE o.state = "LAST_ACK"
  BY <1>1, <1>7 DEF NextState, Open, Closing, Ended
<1> QED
  BY <1>2, <1>3, <1>4, <1>5, <1>6, <1>7 DEF Open, Closing

LEMMA OkMoves ==
  ASSUME NEW p, NEW w \in Nat, NEW c, NEW r \in FarType, Ok(p, w, c, r), NEW t \in FarType,
         Moves(r, t), LateOf(r, t), t.rcv = r.rcv, t.edge = r.edge
  PROVE  Ok(p, w, c, t)
<1>1. p \in PcbType /\ Peer(p, r, w)
  BY DEF Ok
<1>2. t.rcv <= t.edge /\ t.edge <= t.rcv + PeerWnd /\ t.rcv <= StreamEnd(p, w) /\ Reached(p, t.rcv)
  BY <1>1 DEF Peer
<1>3. Peer(p, t, w)
  BY <1>1, <1>2, PeerMoves
<1> QED
  BY <1>3 DEF Ok

\* The pcb with the state that tcp_process gives it, the callback having run.
Processed(o, s) == [o EXCEPT !.state = s, !.acked = 0]

LEMMA ProcessedOk ==
  ASSUME NEW v, NEW w \in Nat, NEW c, NEW r \in FarType, Ok(v, w, c, r),
         NEW s, s \in Open \cup Closing \cup Ended, s \in Open <=> v.state \in Open, NEW z, z = Processed(v, s)
  PROVE  /\ Ok(z, w, c, r) /\ z.state = s /\ z.snd_nxt = v.snd_nxt /\ z.lastack = v.lastack /\ z.fin = v.fin
         /\ z.unacked = v.unacked
<1>1. v \in PcbType
  BY DEF Ok
<1>2. 0 \in Nat
  OBVIOUS
<1>3. /\ z \in PcbType /\ z.unsent = v.unsent /\ z.unacked = v.unacked /\ z.snd_nxt = v.snd_nxt
      /\ z.lastack = v.lastack /\ z.snd_lbb = v.snd_lbb /\ z.snd_buf = v.snd_buf /\ z.rtime = v.rtime
      /\ z.fin = v.fin /\ z.state = s /\ z.cwnd = v.cwnd /\ z.ssthresh = v.ssthresh
      /\ z.snd_wnd = v.snd_wnd /\ z.snd_wl1 = v.snd_wl1 /\ z.snd_wl2 = v.snd_wl2
  BY <1>1, <1>2 DEF Processed, PcbType
<1>4. StreamEnd(z, w) = StreamEnd(v, w)
  BY <1>3 DEF StreamEnd
<1>5. Queues(z, w) /\ InFlight(z) /\ Counts(z, w, c) /\ Congestion(z)
  BY <1>3, <1>4 DEF Ok, Queues, InFlight, Counts, Congestion
<1>6. Peer(z, r, w)
  BY <1>3, <1>4 DEF Ok, Peer, Known, Past, Reached
<1>7. z.fin <=> z.state \notin Open
  BY <1>3 DEF Ok
<1> QED
  BY <1>3, <1>5, <1>6, <1>7 DEF Ok

LEMMA ProcessedResends ==
  ASSUME NEW v \in PcbType, NEW o, Resends(o, v), NEW s, NEW u, u = Processed(o, s), NEW z, z = Processed(v, s)
  PROVE  Resends(u, z)
<1>1. CASE o = v
  BY <1>1 DEF Resends
<1>2. CASE v.unacked # <<>> /\ o = Resent(v)
  <2>1. z.unacked = v.unacked /\ z.unsent = v.unsent
    BY DEF Processed, PcbType
  <2>2. PICK T, Z : T = Tail(v.unacked) /\ Z = Cat(<<v.unacked[1]>>, v.unsent)
    OBVIOUS
  <2>3. o = [v EXCEPT !.unacked = T, !.unsent = Z]
    BY <1>2, <2>2 DEF Resent
  <2>4. Resent(z) = [z EXCEPT !.unacked = T, !.unsent = Z]
    BY <2>1, <2>2 DEF Resent
  <2>5. u = Resent(z)
    BY <2>3, <2>4 DEF Processed, PcbType
  <2> QED
    BY <1>2, <2>1, <2>5 DEF Resends
<1> QED
  BY <1>1, <1>2 DEF Resends

LEMMA AckNet ==
  ASSUME NEW p \in PcbType, NEW z \in PcbType, NEW w \in Nat, NEW N, N \subseteq NetType, UnderWay(p, N, w),
         z.snd_nxt = p.snd_nxt, z.fin = p.fin, p.lastack <= z.lastack
  PROVE  UnderWay(z, N, w)
<1>1. ASSUME NEW x \in N PROVE x.to <= StreamEnd(z, w) /\ Reached(z, x.to)
  <2>1. x.to <= StreamEnd(p, w) /\ Reached(p, x.to) /\ x.to \in Nat
    BY DEF UnderWay, NetType
  <2>2. PICK k \in Nat, l \in Nat, i \in Nat : k = p.lastack /\ l = z.lastack /\ i = x.to /\ k <= l
    BY <2>1, PcbFacts
  <2>3. i <= k + 1 => i <= l + 1
    BY <2>2
  <2> QED
    BY <2>1, <2>2, <2>3 DEF Reached, StreamEnd
<1> QED
  BY <1>1 DEF UnderWay

LEMMA AckSound ==
  ASSUME IInv, NEW a, Arrived(a, far), AckInput(a), far' \in FarType, Moves(far, far'), LateOf(far, far'),
         far'.rcv = far.rcv, far'.edge = far.edge
  PROVE  IInv'
<1>1. out.state \notin Ended
  BY DEF AckInput
<1>2. PICK p, w, c, r, N : /\ p = out /\ w = sent.written /\ w \in Nat /\ c = sent.confirmed /\ c \in Nat
                           /\ r = far /\ N = net
  BY Alive
<1>3. /\ p \in PcbType /\ r \in FarType /\ Ok(p, w, c, r) /\ UnderWay(p, N, w) /\ Offered(N, r.edge, w)
      /\ w <= MaxOut /\ N \subseteq NetType /\ sent \in SentType
  BY <1>1, <1>2, Alive
<1>4. PICK q, o, s, u : /\ q = UpdateWindow(p, a) /\ o = AckUnsent(TakeAck(p, q, a), a.ack)
                        /\ s = NextState(o, a) /\ u = Processed(o, s)
                        /\ sent' = [sent EXCEPT !.confirmed = @ + (IF u.state = "closed" THEN 0 ELSE o.acked)]
                        /\ IF u.state \in Ended THEN out' = tcp_pcb_purge(u) /\ net' = net ELSE tcp_output(u)
  BY <1>2 DEF AckInput, Processed
<1>5. Arrived(a, r) /\ a \in AckType
  BY <1>2 DEF Arrived
<1>6. AckGives(p, w, c, r, o)
  BY <1>2, <1>3, <1>4, <1>5, AckOk
<1>7. PICK v : /\ Acks(p, v) /\ o.acked = v.acked /\ o.state = v.state /\ Ok(v, w, c + v.acked, r)
               /\ Resends(o, v)
  BY <1>6 DEF AckGives
<1>8. o.state \in Open \cup Closing /\ v.state = o.state
  BY <1>1, <1>2, <1>3, <1>7, PcbFacts DEF Acks
<1>9. s \in Open \cup Closing \cup Ended /\ (s \in Open <=> v.state \in Open)
  BY <1>4, <1>5, <1>8, NextStateIs
<1>10. PICK z, d, m : z = Processed(v, s) /\ d = c + v.acked /\ m = v.acked /\ m \in Nat /\ d \in Nat
  <2>1. v.acked \in Nat
    BY <1>7 DEF Acks
  <2>2. c + v.acked \in Nat
    BY <1>2, <2>1
  <2> QED
    BY <2>1, <2>2
<1>11. /\ Ok(z, w, d, r) /\ z.state = s /\ z.snd_nxt = v.snd_nxt /\ z.lastack = v.lastack /\ z.fin = v.fin
       /\ z.unacked = v.unacked
  BY <1>2, <1>3, <1>7, <1>9, <1>10, ProcessedOk
<1>12. v \in PcbType /\ z \in PcbType
  BY <1>7, <1>11 DEF Ok
<1>13. Resends(u, z)
  BY <1>4, <1>7, <1>10, <1>12, ProcessedResends
<1>14. UnderWay(z, N, w)
  <2>1. z.snd_nxt = p.snd_nxt /\ z.fin = p.fin /\ p.lastack <= z.lastack
    BY <1>7, <1>11 DEF Acks
  <2> QED
    BY <1>2, <1>3, <1>12, <2>1, AckNet
<1>15. u.state = s
  <2>1. CASE u = z
    BY <1>11, <2>1
  <2>2. CASE z.unacked # <<>> /\ u = Resent(z)
    BY <1>11, <1>12, <2>2, ResentFacts
  <2> QED
    BY <1>13, <2>1, <2>2 DEF Resends
<1>16. PICK t : t = far' /\ t \in FarType /\ Moves(r, t) /\ LateOf(r, t) /\ t.rcv = r.rcv /\ t.edge = r.edge
  BY <1>2
<1>17. CASE s \notin Ended
  <2>1. tcp_output(u) /\ s # "closed"
    BY <1>4, <1>15, <1>17, EndedStates
  <2>2. sent' = [sent EXCEPT !.confirmed = d]
    BY <1>2, <1>4, <1>7, <1>10, <1>15, <2>1
  <2>3. sent' \in SentType /\ sent'.written = w /\ sent'.confirmed = d
    BY <1>2, <1>3, <1>10, <2>2 DEF SentType
  <2>4. /\ Ok(z, w, d, far) /\ far \in FarType /\ net \subseteq NetType /\ UnderWay(z, net, w)
        /\ Offered(net, far.edge, w)
    BY <1>2, <1>3, <1>11, <1>14
  <2>5. /\ Ok(out', w, d, far) /\ net' \subseteq NetType /\ UnderWay(out', net', w)
        /\ Offered(net', far.edge, w)
    <3>1. CASE u = z
      <4>1. tcp_output(z)
        BY <2>1, <3>1
      <4> QED
        BY <1>2, <2>4, <4>1, OutputStep
    <3>2. CASE z.unacked # <<>> /\ u = Resent(z)
      <4>1. tcp_output(Resent(z)) /\ z.unacked # <<>>
        BY <2>1, <3>2
      <4> QED
        BY <1>2, <2>4, <4>1, OutputAgain
    <3> QED
      BY <1>13, <3>1, <3>2 DEF Resends
  <2>6. PICK o2, N2, s2 : o2 = out' /\ N2 = net' /\ s2 = sent'
    OBVIOUS
  <2>7. Ok(o2, w, d, t)
    <3>1. Ok(o2, w, d, r)
      BY <1>2, <2>5, <2>6
    <3> QED
      BY <1>2, <1>3, <1>16, <3>1, OkMoves
  <2>8. Sound(o2, s2, N2, t)
    <3>1. /\ s2 \in SentType /\ s2.written <= MaxOut /\ N2 \subseteq NetType /\ t \in FarType
          /\ Ok(o2, s2.written, s2.confirmed, t) /\ UnderWay(o2, N2, s2.written)
          /\ Offered(N2, t.edge, s2.written)
      BY <1>2, <1>3, <1>16, <2>3, <2>5, <2>6, <2>7
    <3> QED
      BY <3>1, SoundFrom
  <2> QED
    BY <1>16, <2>6, <2>8 DEF IInv
<1>18. CASE s \in Ended
  <2>1. out' = tcp_pcb_purge(u) /\ net' = net
    BY <1>4, <1>15, <1>18
  <2>2. PICK o2, N2, s2 : o2 = out' /\ N2 = net' /\ s2 = sent'
    OBVIOUS
  <2>3. PICK i : i = (IF u.state = "closed" THEN 0 ELSE o.acked) /\ i \in Nat /\ (i = 0 \/ i = m)
    BY <1>7, <1>10
  <2>4. s2 = [sent EXCEPT !.confirmed = c + i]
    BY <1>2, <1>4, <2>2, <2>3
  <2>5. /\ z \in PcbType /\ d \in Nat /\ d <= MaxOut
        /\ z.snd_nxt <= MaxOut + 1 /\ z.lastack <= MaxOut + 1 /\ z.snd_buf <= SndBuf + 1
        /\ 1 <= z.cwnd /\ z.cwnd <= PeerWnd /\ r.rcv <= MaxOut + 1
    BY <1>2, <1>3, <1>11, OkTypes
  <2>6. c + i \in Nat /\ c + i <= MaxOut
    BY <1>2, <1>10, <2>3, <2>5, Sizes
  <2>7. s2 \in SentType /\ s2.written = w /\ s2.confirmed = c + i
    <3>1. PICK j : j = c + i /\ j \in Nat
      BY <2>6
    <3> QED
      BY <1>2, <1>3, <2>4, <3>1 DEF SentType
  <2>8. o2 = tcp_pcb_purge(z)
    <3>1. CASE u = z
      BY <2>1, <2>2, <3>1
    <3>2. CASE z.unacked # <<>> /\ u = Resent(z)
      <4>1. tcp_pcb_purge(Resent(z)) = tcp_pcb_purge(z)
        BY <1>12 DEF Resent, tcp_pcb_purge, PcbType
      <4> QED
        BY <2>1, <2>2, <3>2, <4>1
    <3> QED
      BY <1>13, <3>1, <3>2 DEF Resends
  <2>9. /\ o2 \in PcbType /\ o2.snd_nxt = z.snd_nxt /\ o2.lastack = z.lastack /\ o2.snd_buf = z.snd_buf
        /\ o2.cwnd = z.cwnd /\ o2.state = s
    <3>1. <<>> \in Seq(SegType)
      OBVIOUS
    <3> QED
      BY <1>11, <1>12, <2>8, <3>1 DEF tcp_pcb_purge, PcbType
  <2>10. Types(o2, s2, N2, t)
    BY <1>2, <1>3, <1>16, <2>1, <2>2, <2>5, <2>6, <2>7, <2>9 DEF Types
  <2>11. Offered(N2, t.edge, s2.written)
    BY <1>2, <1>3, <1>16, <2>1, <2>2, <2>7
  <2>12. Sound(o2, s2, N2, t)
    BY <1>18, <2>9, <2>10, <2>11 DEF Sound
  <2> QED
    BY <1>16, <2>2, <2>12 DEF IInv
<1> QED
  BY <1>17, <1>18

\* A peer that repeats nothing gives the answer as it is.
LEMMA CarriedOnce == ASSUME ~Repeats, NEW a PROVE Carried(a) = {a}
  BY DEF Carried

LEMMA AnsweredSound == ASSUME IInv, ~Repeats, Answered PROVE IInv'
<1>1. AckInput(Answer) /\ far' = far /\ out.state \notin Ended
  <2>1. PICK a : a \in Carried(Answer) /\ AckInput(a) /\ far' = far
    BY DEF Answered
  <2>2. a = Answer
    BY <2>1, CarriedOnce
  <2>3. out.state \notin Ended
    BY <2>1 DEF AckInput
  <2> QED
    BY <2>1, <2>2, <2>3
<1>2. far \in FarType /\ far.rcv <= far.edge
  BY <1>1, Alive DEF Ok, Peer
<1>3. IsAnswer(Answer, far)
  BY <1>2, AnswerIs
<1>4. PICK b : b = Answer /\ Arrived(b, far) /\ AckInput(b)
  BY <1>1, <1>3 DEF Arrived, IsAnswer
<1>5. Moves(far, far') /\ LateOf(far, far') /\ far'.rcv = far.rcv /\ far'.edge = far.edge /\ far' \in FarType
  BY <1>1, <1>2, FarFacts DEF Moves, LateOf
<1> QED
  BY <1>4, <1>5, AckSound

LEMMA LateAnswerSound == ASSUME IInv, ~Repeats, LateAnswer PROVE IInv'
<1>1. far.late # <<>> /\ AckInput(far.late[1]) /\ far' = [far EXCEPT !.late = <<>>] /\ out.state \notin Ended
  <2>1. PICK a : /\ a \in Carried(far.late[1]) /\ AckInput(a)
                 /\ far.late # <<>> /\ far' = [far EXCEPT !.late = <<>>]
    BY DEF LateAnswer
  <2>2. a = far.late[1]
    BY <2>1, CarriedOnce
  <2>3. out.state \notin Ended
    BY <2>1 DEF AckInput
  <2> QED
    BY <2>1, <2>2, <2>3
<1>2. far \in FarType
  BY Alive
<1>3. far.late[1] \in AckType
  BY <1>1, <1>2, FarFacts
<1>4. PICK b : b = far.late[1] /\ Arrived(b, far) /\ AckInput(b)
  BY <1>1, <1>3 DEF Arrived
<1>5. <<>> \in Seq(AckType)
  OBVIOUS
<1>6. far' \in FarType /\ far'.rcv = far.rcv /\ far'.edge = far.edge /\ far'.seq = far.seq /\ far'.late = <<>>
  BY <1>1, <1>2, <1>5 DEF FarType
<1>7. Moves(far, far') /\ LateOf(far, far')
  BY <1>2, <1>6, FarFacts DEF Moves, LateOf
<1> QED
  BY <1>4, <1>6, <1>7, AckSound

LEMMA PeerFinSound ==
  ASSUME IInv, ~Repeats, NEW held \in BOOLEAN, NEW lost \in BOOLEAN, PeerFin(held, lost)
  PROVE  IInv'
<1>1. /\ AckInput([Answer EXCEPT !.fin = TRUE]) /\ out.state \notin Ended /\ far.seq = 1
      /\ Changes([far EXCEPT !.seq = 2], held)
  BY DEF PeerFin, AckInput
<1>2. far \in FarType /\ far.rcv <= far.edge
  BY <1>1, Alive DEF Ok, Peer
<1>3. PICK b : b = [Answer EXCEPT !.fin = TRUE]
  OBVIOUS
<1>4. IsAnswer(b, far)
  BY <1>2, <1>3, AnswerIs
<1>5. Arrived(b, far)
  BY <1>4 DEF Arrived, IsAnswer
<1>6. PICK x : x = [far EXCEPT !.seq = 2]
  OBVIOUS
<1>7. x \in FarType /\ x.late = far.late /\ x.rcv = far.rcv /\ x.edge = far.edge /\ x.seq = 2
  BY <1>2, <1>6 DEF FarType
<1>8. /\ far' \in FarType /\ far'.rcv = x.rcv /\ far'.edge = x.edge /\ far'.seq = x.seq
      /\ LateOf(far, far')
  BY <1>1, <1>2, <1>6, <1>7, ChangesIs
<1>9. Moves(far, far')
  BY <1>1, <1>2, <1>7, <1>8, FarFacts DEF Moves
<1>10. AckInput(b) /\ far'.rcv = far.rcv /\ far'.edge = far.edge
  BY <1>1, <1>3, <1>7, <1>8
<1> QED
  BY <1>5, <1>8, <1>9, <1>10, AckSound

-----------------------------------------------------------------------------
(* The theorems *)

LEMMA NextSound == ASSUME IInv, ~Repeats, [SendNext]_svars PROVE IInv'
<1>1. CASE \E n \in Writes, full \in BOOLEAN : Write(n, full)
  BY <1>1, WriteSound
<1>2. CASE \E unread, full \in BOOLEAN : tcp_close(unread, full)
  BY <1>2, CloseSound
<1>3. CASE Retransmit
  BY <1>3, RetransmitSound
<1>4. CASE GiveUp
  BY <1>4, GiveUpSound
<1>5. CASE tcp_zero_window_probe
  BY <1>5, ProbeSound
<1>6. CASE Poll
  BY <1>6, PollSound
<1>7. CASE CloseTimeout
  BY <1>7, CloseTimeoutSound
<1>8. CASE \E held \in BOOLEAN : (\E seg \in net : Arrives(seg, held)) \/ PeerReads(held)
  <2>1. PICK held \in BOOLEAN : (\E seg \in net : Arrives(seg, held)) \/ PeerReads(held)
    BY <1>8
  <2>2. CASE \E seg \in net : Arrives(seg, held)
    <3>1. PICK seg : seg \in net /\ Arrives(seg, held)
      BY <2>2
    <3> QED
      BY <3>1, ArrivesSound
  <2>3. CASE PeerReads(held)
    BY <2>3, PeerReadsSound
  <2> QED
    BY <2>1, <2>2, <2>3
<1>9. CASE \E held, lost \in BOOLEAN : PeerFin(held, lost)
  BY <1>9, PeerFinSound
<1>10. CASE Answered
  BY <1>10, AnsweredSound
<1>11. CASE LateAnswer
  BY <1>11, LateAnswerSound
<1>12. CASE UNCHANGED svars
  BY <1>12 DEF svars, IInv
<1> QED
  BY <1>1, <1>2, <1>3, <1>4, <1>5, <1>6, <1>7, <1>8, <1>9, <1>10, <1>11, <1>12 DEF SendNext

\* The inductive invariant holds in every state, if no number of the peer is
\* repeated.
LEMMA Invariant ==
  ASSUME ~Repeats
  PROVE  SendSpec => []IInv
<1>1. SendInit => IInv
  BY InitSound
<1>2. IInv /\ [SendNext]_svars => IInv'
  BY NextSound
<1> QED
  BY <1>1, <1>2, PTL DEF SendSpec

LEMMA TypesHold == ASSUME IInv PROVE SendTypeOK
<1>1. Types(out, sent, net, far)
  BY DEF IInv, Sound
<1>2. /\ out.snd_nxt \in Nat /\ out.lastack \in Nat /\ out.snd_buf \in Nat /\ out.cwnd \in Nat
      /\ out.dupacks \in 0..4 /\ out.nrtx \in 0..(MaxRtx + 1) /\ out.state \in Open \cup Closing \cup Ended
  BY <1>1, PcbFacts DEF Types
<1>3. sent.written \in Nat /\ sent.confirmed \in Nat /\ far.rcv \in Nat
  BY <1>1 DEF Types, SentType, FarType
<1> QED
  BY <1>1, <1>2, <1>3, Sizes DEF Types, SendTypeOK

LEMMA OfferHolds == ASSUME IInv PROVE WithinOffer
  BY DEF IInv, Sound, Offered, WithinOffer

LEMMA AccountHolds == ASSUME IInv PROVE SendBufAccounted
<1>1. ASSUME out.state \notin Ended
      PROVE  /\ out.snd_buf + (out.snd_lbb - Smaller(out.lastack, out.snd_lbb)) \in SndBuf..(SndBuf + 1)
             /\ ~out.fin => out.snd_buf + (sent.written - out.lastack) = SndBuf
             /\ sent.confirmed = Smaller(out.lastack, sent.written)
  <2>1. out \in PcbType /\ sent.written \in Nat /\ Counts(out, sent.written, sent.confirmed)
    BY <1>1, Alive DEF Ok
  <2>2. PICK k \in Nat, b \in Nat, f \in Nat, w \in Nat, e \in Nat, x \in Nat :
          /\ k = out.lastack /\ b = out.snd_lbb /\ f = out.snd_buf /\ w = sent.written
          /\ e = StreamEnd(out, w) /\ x = out.snd_nxt /\ w <= e /\ e <= w + 1
    BY <2>1, PcbFacts
  <2>3. k <= x /\ x <= e /\ w <= b /\ b <= e /\ f + b = SndBuf + k /\ sent.confirmed = Smaller(k, w)
    BY <2>1, <2>2 DEF Counts
  <2>4. f + (b - Smaller(k, b)) \in SndBuf..(SndBuf + 1)
    BY <2>2, <2>3, Sizes DEF Smaller
  <2>5. ~out.fin => f + (w - k) = SndBuf
    <3>1. ~out.fin => e = w
      BY <2>2 DEF StreamEnd, Int1
    <3> QED
      BY <2>2, <2>3, <3>1, Sizes
  <2> QED
    BY <2>2, <2>3, <2>4, <2>5
<1> QED
  BY <1>1 DEF SendBufAccounted

\* What is unacked has its timer.  When nothing is, the first unsent segment
\* begins no later than the acknowledgement and fits the congestion window.
LEMMA SilentHolds == ASSUME IInv PROVE NeverSilent
<1>1. ASSUME out.state \notin Ended, out.unacked # <<>>
      PROVE  out.rtime
  BY <1>1, Alive DEF Ok, InFlight
<1>2. ASSUME out.state \notin Ended, out.unacked = <<>>, out.unsent # <<>>, ~out.persist
      PROVE  Fits(out, out.unsent[1]) \/ SmallWindow
  <2>1. out \in PcbType /\ sent.written \in Nat /\ Queues(out, sent.written) /\ Congestion(out)
    BY <1>2, Alive DEF Ok
  <2>2. PICK w \in Nat, a \in Nat, b \in Nat, e \in Nat :
          a <= out.lastack /\ Line(out.unacked, a, b, w) /\ Line(out.unsent, b, e, w)
    BY <2>1, QueuesAre
  <2>3. a = b
    BY <1>2, <2>2 DEF Line
  <2>4. Proper(out.unsent[1], w) /\ out.unsent[1].seq = b
    BY <1>2, <2>2, LineFirst
  <2>5. out.unsent[1].len \in Nat /\ out.unsent[1].len <= MssLocal
    BY <2>4, SegFacts
  <2>6. PICK k \in Nat, n \in Nat, c \in Nat, v \in Nat :
          /\ k = out.lastack /\ n = out.unsent[1].len /\ c = out.cwnd /\ v = out.snd_wnd
          /\ b <= k /\ n <= c
    <3>1. SMss <= out.cwnd /\ out.cwnd \in Nat /\ out.lastack \in Nat /\ out.snd_wnd \in Nat
      BY <2>1, PcbFacts DEF Congestion
    <3>2. out.unsent[1].len <= out.cwnd
      BY <2>5, <3>1, Sizes
    <3> QED
      BY <2>2, <2>3, <2>5, <3>1, <3>2
  <2>7. b - k + n <= Smaller(v, c) \/ b - k + n > v
    BY <2>2, <2>6 DEF Smaller
  <2> QED
    BY <1>2, <2>4, <2>6, <2>7 DEF Fits, SmallWindow
<1> QED
  BY <1>1, <1>2 DEF NeverSilent

\* Every byte of a line of segments is in one of them.
LEMMA LineCovers ==
  ASSUME NEW s, NEW a \in Nat, NEW b \in Nat, NEW w \in Nat, Line(s, a, b, w),
         NEW z \in Nat, a <= z, z < b
  PROVE  \E i \in 1..Len(s) : s[i].seq <= z /\ z < EndSeq(s[i])
<1> DEFINE T == {i \in 1..Len(s) : z < EndSeq(s[i])}
<1>1. /\ s # <<>> /\ Len(s) \in Nat /\ Len(s) # 0 /\ s[1].seq = a /\ EndSeq(s[Len(s)]) = b
      /\ \A i, j \in 1..Len(s) : j = i + 1 => s[j].seq = EndSeq(s[i])
  <2>1. s # <<>>
    BY DEF Line
  <2>2. Len(s) \in Nat /\ Len(s) # 0
    BY <2>1, LineFacts
  <2> QED
    BY <2>1, <2>2 DEF Line
<1>2. \A i \in 1..Len(s) : s[i].seq \in Nat /\ EndSeq(s[i]) \in Nat
  BY LineFacts
<1>3. PICK k \in T : \A i \in T : k <= i
  <2>1. Len(s) \in T /\ T \subseteq Nat
    BY <1>1
  <2> HIDE DEF T
  <2> QED
    BY <2>1, NatMin
<1>4. k \in 1..Len(s) /\ z < EndSeq(s[k])
  BY <1>3
<1>5. s[k].seq <= z
  <2>1. CASE k = 1
    BY <1>1, <2>1
  <2>2. CASE k # 1
    <3>1. k - 1 \in 1..Len(s) /\ k = (k - 1) + 1 /\ k - 1 \notin T
      BY <1>1, <1>3, <1>4, <2>2
    <3>2. ~(z < EndSeq(s[k - 1])) /\ s[k].seq = EndSeq(s[k - 1]) /\ s[k].seq \in Nat
      BY <1>1, <1>2, <1>4, <3>1
    <3> QED
      BY <3>2
  <2> QED
    BY <2>1, <2>2
<1> QED
  BY <1>4, <1>5

\* A line of segments is in order.
LEMMA LineSorted ==
  ASSUME NEW s, NEW a, NEW b, NEW w \in Nat, Line(s, a, b, w)
  PROVE  \A i \in 1..(Len(s) - 1) : EndSeq(s[i]) <= s[i + 1].seq
<1>1. Len(s) \in Nat /\ \A i, j \in 1..Len(s) : i < j => EndSeq(s[i]) <= s[j].seq
  BY LineFacts DEF Line
<1>2. ASSUME NEW i \in 1..(Len(s) - 1) PROVE EndSeq(s[i]) <= s[i + 1].seq
  <2>1. i \in 1..Len(s) /\ i + 1 \in 1..Len(s) /\ i < i + 1
    BY <1>1
  <2> QED
    BY <1>1, <2>1
<1> QED
  BY <1>2

LEMMA QueuesHold == ASSUME IInv PROVE QueuesSound
<1> DEFINE q == out.unacked \o out.unsent
           covered == UNION {x.seq..(EndSeq(x) - 1) : x \in ToSet(q)}
           end == sent.written + (IF out.fin THEN 1 ELSE 0)
<1>1. ASSUME out.state \notin Ended
      PROVE  /\ \A i \in 1..(Len(out.unacked) - 1) : EndSeq(out.unacked[i]) <= out.unacked[i + 1].seq
             /\ \A i \in 1..(Len(out.unsent) - 1) : EndSeq(out.unsent[i]) <= out.unsent[i + 1].seq
             /\ out.lastack..(end - 1) \subseteq covered
             /\ \A x \in ToSet(q) : out.lastack < EndSeq(x) /\ EndSeq(x) <= end
             /\ \A i, j \in 1..Len(q) : i # j => EndSeq(q[i]) <= q[j].seq \/ EndSeq(q[j]) <= q[i].seq
             /\ \A x \in ToSet(out.unacked) : EndSeq(x) <= out.snd_nxt
  <2>1. /\ out \in PcbType /\ sent.written \in Nat /\ Queues(out, sent.written) /\ InFlight(out)
        /\ out.lastack \in Nat /\ out.unacked \in Seq(SegType) /\ out.unsent \in Seq(SegType)
    BY <1>1, Alive, PcbFacts DEF Ok
  <2>2. PICK w \in Nat, a \in Nat, b \in Nat, e \in Nat :
          /\ e = StreamEnd(out, w) /\ w = sent.written /\ a <= out.lastack
          /\ Line(out.unacked, a, b, w) /\ Line(out.unsent, b, e, w)
          /\ Pending(out.unacked, out.lastack) /\ Pending(out.unsent, out.lastack)
    BY <2>1, QueuesAre
  <2>3. PICK s, k : s = Cat(out.unacked, out.unsent) /\ k = out.lastack /\ k \in Nat
    BY <2>1
  <2>4. q = s /\ end = e
    BY <2>2, <2>3 DEF Cat, StreamEnd, Int1
  <2>5. Line(s, a, e, w) /\ Pending(s, k)
    BY <2>1, <2>2, <2>3, LineCat, PendingCat
  <2>6. /\ Len(s) \in Nat
        /\ \A i \in 1..Len(s) : s[i].seq \in Nat /\ EndSeq(s[i]) \in Nat /\ EndSeq(s[i]) <= e
    BY <2>5, LineFacts
  <2>7. DOMAIN s = 1..Len(s) /\ DOMAIN out.unacked = 1..Len(out.unacked)
    BY <2>1, <2>5 DEF Line
  <2> HIDE DEF q, end
  <2>8. out.lastack..(end - 1) \subseteq covered
    <3>1. ASSUME NEW z \in k..(e - 1) PROVE z \in UNION {x.seq..(EndSeq(x) - 1) : x \in ToSet(s)}
      <4>1. z \in Nat /\ a <= z /\ z < e
        BY <2>2, <2>3
      <4>2. PICK i \in 1..Len(s) : s[i].seq <= z /\ z < EndSeq(s[i])
        BY <2>5, <4>1, LineCovers
      <4>3. z \in s[i].seq..(EndSeq(s[i]) - 1)
        BY <2>6, <4>1, <4>2
      <4>4. s[i] \in ToSet(s)
        BY <2>7, <4>2 DEF ToSet
      <4> QED
        BY <4>3, <4>4
    <3> QED
      BY <2>3, <2>4, <3>1
  <2>9. \A x \in ToSet(q) : out.lastack < EndSeq(x) /\ EndSeq(x) <= end
    BY <2>3, <2>4, <2>5, <2>6, <2>7 DEF ToSet, Pending
  <2>10. \A i, j \in 1..Len(q) : i # j => EndSeq(q[i]) <= q[j].seq \/ EndSeq(q[j]) <= q[i].seq
    <3>1. \A i, j \in 1..Len(s) : i < j => EndSeq(s[i]) <= s[j].seq
      BY <2>5 DEF Line
    <3>2. \A i, j \in 1..Len(s) : i # j => i < j \/ j < i
      BY <2>6
    <3> QED
      BY <2>4, <3>1, <3>2
  <2>11. \A x \in ToSet(out.unacked) : EndSeq(x) <= out.snd_nxt
    BY <2>1, <2>7 DEF ToSet, InFlight
  <2> QED
    BY <2>2, <2>8, <2>9, <2>10, <2>11, LineSorted
<1> QED
  BY <1>1 DEF QueuesSound

\* Every field of the pcb keeps its range, whatever is lost or late, as long
\* as the peer's numbers do not go back: the free send buffer of tcp_write and
\* tcp_receive stays within TCP_SND_BUF and one byte, and no acknowledgement
\* passes the stream.
THEOREM SendTypesCorrect ==
  ASSUME ~Repeats
  PROVE  SendSpec => []SendTypeOK
<1>1. IInv => SendTypeOK
  BY TypesHold
<1> QED
  BY <1>1, Invariant, PTL

\* The unacked and unsent queues of tcp_output, tcp_receive and the
\* retransmissions hold every byte that is not acknowledged, and the FIN,
\* once and in order, as long as the peer's numbers do not go back.
THEOREM QueuesCorrect ==
  ASSUME ~Repeats
  PROVE  SendSpec => []QueuesSound
<1>1. IInv => QueuesSound
  BY QueuesHold
<1> QED
  BY <1>1, Invariant, PTL

\* What tcp_write takes from snd_buf, tcp_receive gives back, and the sent
\* callback confirms the acknowledged bytes without the FIN, as long as the
\* peer's numbers do not go back.
THEOREM SendBufCorrect ==
  ASSUME ~Repeats
  PROVE  SendSpec => []SendBufAccounted
<1>1. IInv => SendBufAccounted
  BY AccountHolds
<1> QED
  BY <1>1, Invariant, PTL

\* tcp_output sends nothing beyond the edge the peer has offered, also when
\* acknowledgements arrive late or twice; a probe of tcp_zero_window_probe
\* and the FIN may pass it by one.  The assumption is needed: of a segment
\* with an earlier number tcp_receive takes the acknowledgement and not the
\* window, and tcp_output then counts the old window from the new
\* acknowledgement.
THEOREM OfferRespected ==
  ASSUME ~Repeats
  PROVE  SendSpec => []WithinOffer
<1>1. IInv => WithinOffer
  BY OfferHolds
<1> QED
  BY <1>1, Invariant, PTL

\* A connection with anything left to send has the retransmission timer, the
\* persist timer or a segment the next poll sends, except in SmallWindow, as
\* long as the peer's numbers do not go back.
THEOREM SilenceExcluded ==
  ASSUME ~Repeats
  PROVE  SendSpec => []NeverSilent
<1>1. IInv => NeverSilent
  BY SilentHolds
<1> QED
  BY <1>1, Invariant, PTL
=============================================================================
