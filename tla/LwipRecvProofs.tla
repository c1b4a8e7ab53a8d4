--------------------------- MODULE LwipRecvProofs ----------------------------
(***************************************************************************)
(* Theorems about LwipRecv: for any window, segment size and stream, the   *)
(* application gets the peer's bytes in order, the out-of-sequence queue   *)
(* keeps its shape, and the window is neither lost nor taken back.         *)
(*                                                                         *)
(* They hold for first sequence numbers whose windows do not reach the     *)
(* wrap, where the comparison of tcp_in.c:1514 is right.                   *)
(***************************************************************************)
EXTENDS LwipRecv, TLAPS, NaturalsInduction, WellFoundedInduction

NoWrap == \A i \in Isns : i + N + Wnd + 1 < M

-----------------------------------------------------------------------------
(* The inductive invariant *)

Int1(b) == IF b THEN 1 ELSE 0

\* The bytes of the stream from offset a on.
Run(a, n) == [i \in 1..n |-> a + i - 1]

SegType == [seq : Int, len : Int, fin : BOOLEAN, p : Seq(Int)]
RefusedType == [held : BOOLEAN, p : Seq(Int), fin : BOOLEAN]
PcbType == [rcv_nxt : Int, rcv_wnd : Int, ann_wnd : Int, ann_edge : Int, ooseq : Seq(SegType),
            state : {"ESTABLISHED", "CLOSE_WAIT"}, ack_delay : BOOLEAN, ack_now : BOOLEAN,
            refused : RefusedType]
AppType == [got : Seq(Int), unread : Int, eof : BOOLEAN]
PeerType == [ack : Int, edge : Int]
StateType == [pcb : PcbType, app : AppType, peer : PeerType, data : Seq(Int), got_fin : BOOLEAN,
              c : Surroundings]

\* Offsets in the stream, of rcv_nxt and of the ends of a segment.
Nxt(p) == p.rcv_nxt - isn
From(x) == x.seq - isn
To(x) == From(x) + TCPLEN(x)

\* A segment carries the bytes of the stream that its header says.
Fair(x) ==
  /\ x \in SegType
  /\ x.len \in Nat /\ From(x) \in Nat
  /\ x.p = Run(From(x), x.len)
  /\ From(x) + x.len <= N
  /\ x.fin => From(x) + x.len = N

Good(x) == Fair(x) /\ TCPLEN(x) > 0

\* Segments in order, without overlaps, behind lo and up to hi.
Queue(q, lo, hi) ==
  /\ q \in Seq(SegType)
  /\ \A i \in 1..Len(q) : Good(q[i]) /\ lo < From(q[i]) /\ To(q[i]) <= hi
  /\ \A i, j \in 1..Len(q) : i < j => To(q[i]) <= From(q[j]) /\ ~q[i].fin

\* What has been promised and what is known of it.
Edges(p, r) ==
  /\ Nxt(p) \in 0..(N + 1) /\ p.rcv_wnd \in 0..Wnd /\ p.ann_wnd \in 0..p.rcv_wnd
  /\ p.ann_edge - isn \in 0..(Nxt(p) + p.ann_wnd)
  /\ r.ack \in 0..Nxt(p) /\ r.edge \in 0..(p.ann_edge - isn)

\* Where the bytes are that rcv_nxt has passed, d and f being the data and
\* the FIN that tcp_input holds.
Stream(p, a, d, f) ==
  /\ a.got = Run(0, Len(a.got))
  /\ p.refused.p = Run(Len(a.got), Len(p.refused.p))
  /\ d = Run(Len(a.got) + Len(p.refused.p), Len(d))
  /\ Nxt(p) = Len(a.got) + Len(p.refused.p) + Len(d) + Int1(p.state = "CLOSE_WAIT")

\* The window is free, or taken by bytes and a FIN on their way.
Window(p, a, d, f) ==
  /\ a.unread \in Nat
  /\ p.rcv_wnd + a.unread + Len(p.refused.p) + Int1(p.refused.fin) + Len(d) + Int1(f) = Wnd

\* The FIN has been seen, and is with tcp_input, the refused data or the
\* application.
Fins(p, a, d, f) ==
  /\ p.state = "CLOSE_WAIT" <=> a.eof \/ p.refused.fin \/ f
  /\ p.state = "CLOSE_WAIT" => Nxt(p) = N + 1
  /\ ~(a.eof /\ p.refused.fin) /\ ~(a.eof /\ f) /\ ~(p.refused.fin /\ f)
  /\ p.refused.held => ~a.eof /\ d = <<>>
  /\ a.eof => d = <<>>
  /\ ~p.refused.held => p.refused = NoRefused

Sound(p, a, r, d, f) ==
  /\ p \in PcbType /\ a \in AppType /\ r \in PeerType /\ d \in Seq(Int) /\ f \in BOOLEAN
  /\ Edges(p, r) /\ Stream(p, a, d, f) /\ Window(p, a, d, f) /\ Fins(p, a, d, f)
  /\ Queue(p.ooseq, Nxt(p), Nxt(p) + p.rcv_wnd)

IInv == isn \in Isns /\ Sound(pcb, app, peer, <<>>, FALSE)

-----------------------------------------------------------------------------
(* Sequence numbers *)

\* The first sequence number, and that no window wraps from it.
Start == isn \in Nat /\ isn + N + Wnd + 1 < M

LEMMA StartHolds ==
  ASSUME NoWrap, isn \in Isns
  PROVE  Start
  BY RecvAssumption DEF NoWrap, Start

LEMMA Sizes ==
  /\ Wnd \in Nat /\ Wnd > 0 /\ Mss \in Nat /\ Mss > 0 /\ N \in Nat /\ M \in Nat /\ M > 0
  /\ M \div 2 \in Nat /\ M = (M \div 2) + (M \div 2) /\ N + Wnd + Wnd + 2 <= M \div 2
  BY RecvAssumption

\* Numbers below the modulus, and negative ones.
LEMMA ModSmall == ASSUME NEW x \in Int, 0 <= x, x < M PROVE x % M = x
  BY Sizes
LEMMA ModNegative == ASSUME NEW x \in Int, x < 0, -M <= x PROVE x % M = x + M
  BY Sizes

\* The macros compare numbers that are less than half the modulus apart.
LEMMA SeqOrder ==
  ASSUME NEW a \in Int, NEW b \in Int,
         a - b <= N + Wnd + Wnd + 1, b - a <= N + Wnd + Wnd + 1
  PROVE  /\ TCP_SEQ_LT(a, b) <=> a < b
         /\ TCP_SEQ_LEQ(a, b) <=> a <= b
<1>1. PICK d \in Int : d = a - b
  OBVIOUS
<1>2. PICK h \in Nat : h = M \div 2 /\ M = h + h /\ N + Wnd + Wnd + 2 <= h
  BY Sizes
<1>3. CASE d >= 0
  <2>1. d % M = d
    BY <1>1, <1>2, <1>3, ModSmall, Sizes
  <2> QED
    BY <1>1, <1>2, <1>3, <2>1, Sizes DEF TCP_SEQ_LT, TCP_SEQ_LEQ
<1>4. CASE d < 0
  <2>1. d % M = d + M
    BY <1>1, <1>2, <1>4, ModNegative, Sizes
  <2> QED
    BY <1>1, <1>2, <1>4, <2>1, Sizes DEF TCP_SEQ_LT, TCP_SEQ_LEQ
<1> QED
  BY <1>3, <1>4

\* Positions of the stream and of its windows do not wrap.
LEMMA Positions ==
  ASSUME Start, NEW x \in 0..(N + Wnd + 1)
  PROVE  /\ SeqNo(x) = isn + x /\ (isn + x) % M = isn + x
         /\ PosOf(isn + x) = x
<1>1. (isn + x) % M = isn + x
  BY Sizes, ModSmall DEF Start
<1>2. x % M = x
  BY Sizes, ModSmall DEF Start
<1>3. isn + x - isn = x
  BY Sizes DEF Start
<1> QED
  BY <1>1, <1>2, <1>3, Sizes DEF SeqNo, PosOf, Start

\* The least element of a set of natural numbers.
LEMMA NatMin ==
  ASSUME NEW T, T \subseteq Nat, T # {}
  PROVE  \E x \in T : \A y \in T : x <= y
<1> DEFINE R == {p \in Nat \X Nat : p[1] < p[2]}
<1>1. IsWellFoundedOn(R, Nat)
  BY NatLessThanWellFounded DEF OpToRel
<1> HIDE DEF R
<1>2. PICK x \in T : \A y \in T : ~(<<y, x>> \in R)
  BY <1>1, WFMin
<1>3. \A y \in T : ~(y < x)
  BY <1>2 DEF R
<1> QED
  BY <1>3

\* A loop over 1..n stops at the first bad index or behind the last.
LEMMA LoopStops ==
  ASSUME NEW n \in Nat, NEW bad
  PROVE  \E k \in 0..n : (\A i \in 1..k : i \notin bad) /\ (k = n \/ k + 1 \in bad)
<1> DEFINE T == {k \in 1..n : k \in bad}
<1>1. CASE T = {}
  BY <1>1
<1>2. CASE T # {}
  <2>1. T \subseteq Nat
    OBVIOUS
  <2>2. PICK k \in T : \A i \in T : k <= i
    <3> HIDE DEF T
    <3> QED
      BY <1>2, <2>1, NatMin
  <2>3. k - 1 \in 0..n /\ (\A i \in 1..(k - 1) : i \notin bad) /\ (k - 1) + 1 \in bad
    BY <2>2
  <2> QED
    BY <2>3
<1> QED
  BY <1>1, <1>2


-----------------------------------------------------------------------------
(* Runs of bytes *)

\* Names for the sequence operators, which the lemmas are instantiated with.
Upto(q, n) == SubSeq(q, 1, n)
Cat(q, r) == q \o r

LEMMA LenNat == ASSUME NEW T, NEW q, q \in Seq(T) PROVE Len(q) \in Nat
  OBVIOUS

LEMMA CatAt ==
  ASSUME NEW T, NEW q \in Seq(T), NEW r \in Seq(T)
  PROVE  /\ \A i \in 1..Len(q) : Cat(q, r)[i] = q[i]
         /\ \A i \in 1..Len(r) : Cat(q, r)[Len(q) + i] = r[i]
  BY DEF Cat

LEMMA RunLen ==
  ASSUME NEW a \in Int, NEW n \in Nat
  PROVE  /\ Run(a, n) \in Seq(Int) /\ Len(Run(a, n)) = n
         /\ \A i \in 1..n : Run(a, n)[i] = a + i - 1
         /\ n = 0 => Run(a, n) = <<>>
         /\ Run(a, n) = <<>> => n = 0
  BY DEF Run

LEMMA RunCat ==
  ASSUME NEW a \in Int, NEW n \in Nat, NEW m \in Nat, NEW b \in Int, b = a + n,
         NEW k \in Int, k = n + m
  PROVE  Cat(Run(a, n), Run(b, m)) = Run(a, k)
  BY RunLen DEF Run, Cat

LEMMA RunFront ==
  ASSUME NEW a \in Int, NEW n \in Nat, NEW m \in Nat, m <= n
  PROVE  SubSeq(Run(a, n), 1, m) = Run(a, m)
  BY DEF Run

LEMMA RunBehind ==
  ASSUME NEW a \in Int, NEW n \in Nat, NEW m \in Nat, m <= n, NEW b \in Int, b = a + m,
         NEW k \in Int, k = n - m
  PROVE  Behind(Run(a, n), m) = Run(b, k)
  BY RunLen DEF Run, Behind

-----------------------------------------------------------------------------
(* Segments and queues of them *)

\* A segment is cut to n bytes, and its FIN goes.
LEMMA ShortenGood ==
  ASSUME NEW x, Fair(x), ~x.fin, NEW n \in Nat, 0 < n, n <= x.len, NEW y, y = Shorten(x, n)
  PROVE  Good(y) /\ y.seq = x.seq /\ y.len = n /\ ~y.fin
<1>1. x \in SegType /\ x.len \in Nat /\ From(x) \in Nat /\ x.p = Run(From(x), x.len)
  BY DEF Fair
<1>2. Len(x.p) = x.len /\ pbuf_realloc(x.p, n) = Run(From(x), n)
  <2>1. From(x) \in Int /\ Len(x.p) = x.len
    BY <1>1, RunLen
  <2>2. pbuf_realloc(x.p, n) = SubSeq(x.p, 1, n)
    BY <1>1, <2>1 DEF pbuf_realloc
  <2>3. SubSeq(Run(From(x), x.len), 1, n) = Run(From(x), n)
    BY <1>1, <2>1, RunFront
  <2> QED
    BY <1>1, <2>1, <2>2, <2>3
<1>3. y = [seq |-> x.seq, len |-> n, fin |-> FALSE, p |-> Run(From(x), n)]
  BY <1>1, <1>2 DEF Shorten, SegType
<1>4. Run(From(x), n) \in Seq(Int)
  BY <1>1, RunLen
<1>5. y \in SegType
  BY <1>1, <1>3, <1>4 DEF SegType
<1>6. From(y) = From(x) /\ TCPLEN(y) = n
  BY <1>3 DEF From, TCPLEN
<1> QED
  BY <1>1, <1>3, <1>5, <1>6, Sizes DEF Good, Fair

\* What the arithmetic needs to know of a segment.
LEMMA GoodFacts ==
  ASSUME Start, NEW x, Fair(x)
  PROVE  /\ x.seq \in Int /\ x.seq = isn + From(x) /\ x.len \in Nat /\ From(x) \in Nat
         /\ x.fin \in BOOLEAN /\ TCPLEN(x) \in Nat /\ TCPLEN(x) = x.len + Int1(x.fin)
         /\ To(x) \in Nat /\ To(x) = From(x) + TCPLEN(x) /\ To(x) <= N + 1
         /\ From(x) + x.len <= N /\ (x.fin => From(x) + x.len = N)
         /\ EndOf(x) = isn + From(x) + x.len
<1>1. /\ x.seq \in Int /\ x.seq = isn + From(x) /\ x.len \in Nat /\ From(x) \in Nat
      /\ x.fin \in BOOLEAN /\ From(x) + x.len <= N /\ (x.fin => From(x) + x.len = N)
  BY DEF Fair, SegType, From, Start
<1>2. TCPLEN(x) = x.len + Int1(x.fin) /\ TCPLEN(x) \in Nat
  BY <1>1 DEF TCPLEN, Int1
<1>3. To(x) = From(x) + TCPLEN(x) /\ To(x) \in Nat /\ To(x) <= N + 1
  BY <1>1, <1>2, Sizes DEF To, Int1
<1>4. EndOf(x) = isn + From(x) + x.len
  <2>1. PICK e \in Nat : e = From(x) + x.len
    BY <1>1
  <2>2. e \in 0..(N + Wnd + 1)
    BY <1>1, <2>1, Sizes
  <2>3. x.seq + x.len = isn + e
    BY <1>1, <2>1 DEF Start
  <2> QED
    BY <1>1, <2>1, <2>2, <2>3, Positions DEF EndOf, Start
<1> QED
  BY <1>1, <1>2, <1>3, <1>4

\* Queues: their parts, one more segment, and two of them in a row.
LEMMA QueueEmpty ==
  ASSUME NEW lo, NEW hi
  PROVE  Queue(<<>>, lo, hi)
  BY DEF Queue

LEMMA QueueOne ==
  ASSUME NEW lo, NEW hi, NEW x, Good(x), lo < From(x), To(x) <= hi
  PROVE  Queue(<<x>>, lo, hi)
  BY DEF Queue, Good, Fair

LEMMA QueueBehind ==
  ASSUME NEW q, NEW lo, NEW hi, Queue(q, lo, hi), NEW n \in 0..Len(q), NEW r, r = Behind(q, n)
  PROVE  /\ Queue(r, lo, hi) /\ Len(r) = Len(q) - n
         /\ \A i \in 1..Len(r) : r[i] = q[n + i] /\ n + i \in 1..Len(q)
<1>1. q \in Seq(SegType) /\ Len(q) \in Nat
  BY DEF Queue
<1>2. r \in Seq(SegType) /\ Len(r) = Len(q) - n
  BY <1>1 DEF Behind
<1>3. \A i \in 1..Len(r) : r[i] = q[n + i] /\ n + i \in 1..Len(q)
  BY <1>1, <1>2 DEF Behind
<1>4. \A i \in 1..Len(r) : Good(r[i]) /\ lo < From(r[i]) /\ To(r[i]) <= hi
  BY <1>3 DEF Queue
<1>5. ASSUME NEW i \in 1..Len(r), NEW j \in 1..Len(r), i < j
      PROVE  To(r[i]) <= From(r[j]) /\ ~r[i].fin
  <2>1. n + i < n + j
    BY <1>1, <1>2, <1>5
  <2> QED
    BY <1>3, <1>5, <2>1 DEF Queue
<1> QED
  BY <1>2, <1>3, <1>4, <1>5 DEF Queue

\* r is q without its first n segments.
IsBehind(r, q, n) == Len(r) = Len(q) - n /\ \A i \in 1..Len(r) : r[i] = q[n + i] /\ n + i \in 1..Len(q)

LEMMA QueueTail ==
  ASSUME NEW q, NEW lo, NEW hi, Queue(q, lo, hi), NEW n \in 0..Len(q)
  PROVE  Queue(Behind(q, n), lo, hi) /\ IsBehind(Behind(q, n), q, n)
<1>1. PICK r : r = Behind(q, n)
  OBVIOUS
<1>2. Queue(r, lo, hi) /\ IsBehind(r, q, n)
  BY <1>1, QueueBehind DEF IsBehind
<1> QED
  BY <1>1, <1>2

LEMMA QueueFront ==
  ASSUME NEW q, NEW lo, NEW hi, Queue(q, lo, hi), NEW n \in 0..Len(q), NEW r, r = Upto(q, n)
  PROVE  /\ Queue(r, lo, hi) /\ Len(r) = n
         /\ \A i \in 1..Len(r) : r[i] = q[i] /\ i \in 1..Len(q)
<1>1. q \in Seq(SegType) /\ Len(q) \in Nat
  BY DEF Queue
<1>2. r \in Seq(SegType) /\ Len(r) = n
  BY <1>1 DEF Upto
<1>3. \A i \in 1..Len(r) : r[i] = q[i] /\ i \in 1..Len(q)
  BY <1>1, <1>2 DEF Upto
<1> QED
  BY <1>2, <1>3 DEF Queue

\* The segments of q end before those of r begin.
Before(q, r) == \A i \in 1..Len(q), j \in 1..Len(r) : To(q[i]) <= From(r[j]) /\ ~q[i].fin

LEMMA QueueCat ==
  ASSUME NEW q, NEW r, NEW lo, NEW hi, Queue(q, lo, hi), Queue(r, lo, hi), Before(q, r),
         NEW t, t = Cat(q, r)
  PROVE  Queue(t, lo, hi) /\ Len(t) = Len(q) + Len(r)
<1>1. q \in Seq(SegType) /\ r \in Seq(SegType) /\ Len(q) \in Nat /\ Len(r) \in Nat
  BY DEF Queue
<1>2. t \in Seq(SegType) /\ Len(t) = Len(q) + Len(r)
  BY <1>1 DEF Cat
<1>3. /\ \A i \in 1..Len(q) : t[i] = q[i]
      /\ \A i \in 1..Len(r) : t[Len(q) + i] = r[i]
      /\ \A i \in 1..Len(t) : i > Len(q) => i - Len(q) \in 1..Len(r) /\ t[i] = r[i - Len(q)]
  BY <1>1, <1>2 DEF Cat
<1>4. \A i \in 1..Len(t) : Good(t[i]) /\ lo < From(t[i]) /\ To(t[i]) <= hi
  <2> TAKE i \in 1..Len(t)
  <2>1. CASE i <= Len(q)
    BY <1>1, <1>2, <1>3, <2>1 DEF Queue
  <2>2. CASE i > Len(q)
    BY <1>1, <1>2, <1>3, <2>2 DEF Queue
  <2> QED
    BY <1>1, <1>2, <2>1, <2>2
<1>5. ASSUME NEW i \in 1..Len(t), NEW j \in 1..Len(t), i < j
      PROVE  To(t[i]) <= From(t[j]) /\ ~t[i].fin
  <2>1. CASE j <= Len(q)
    <3>1. i \in 1..Len(q) /\ j \in 1..Len(q) /\ t[i] = q[i] /\ t[j] = q[j]
      BY <1>1, <1>2, <1>3, <1>5, <2>1
    <3> QED
      BY <1>5, <3>1 DEF Queue
  <2>2. CASE i <= Len(q) /\ j > Len(q)
    <3>1. i \in 1..Len(q) /\ j - Len(q) \in 1..Len(r) /\ t[i] = q[i] /\ t[j] = r[j - Len(q)]
      BY <1>1, <1>2, <1>3, <1>5, <2>2
    <3> QED
      BY <3>1 DEF Before
  <2>3. CASE i > Len(q)
    <3>1. /\ i - Len(q) \in 1..Len(r) /\ j - Len(q) \in 1..Len(r) /\ i - Len(q) < j - Len(q)
          /\ t[i] = r[i - Len(q)] /\ t[j] = r[j - Len(q)]
      BY <1>1, <1>2, <1>3, <1>5, <2>3
    <3> QED
      BY <3>1 DEF Queue
  <2> QED
    BY <1>1, <1>2, <2>1, <2>2, <2>3
<1> QED
  BY <1>2, <1>3, <1>4, <1>5 DEF Queue


-----------------------------------------------------------------------------
(* Segments that are inserted into the out-of-sequence queue *)

\* Prefixes that loops over the queue find.
Covered(q, seg) == Leading(q, LAMBDA x : TCP_SEQ_LEQ(EndOf(x), EndOf(seg)))
Lower(q, seg) == Leading(q, LAMBDA x : TCP_SEQ_LT(x.seq, seg.seq))

LEMMA CoveredLeads ==
  ASSUME NEW q, Len(q) \in Nat, NEW seg, NEW n, n = Covered(q, seg)
  PROVE  /\ n \in 0..Len(q)
         /\ \A i \in 1..n : TCP_SEQ_LEQ(EndOf(q[i]), EndOf(seg))
         /\ n = Len(q) \/ ~TCP_SEQ_LEQ(EndOf(q[n + 1]), EndOf(seg))
<1> DEFINE bad == {i \in 1..Len(q) : ~TCP_SEQ_LEQ(EndOf(q[i]), EndOf(seg))}
<1>1. PICK k \in 0..Len(q) : (\A i \in 1..k : i \notin bad) /\ (k = Len(q) \/ k + 1 \in bad)
  <2>1. PICK l \in Nat : l = Len(q)
    OBVIOUS
  <2> HIDE DEF bad
  <2>2. \E k \in 0..l : (\A i \in 1..k : i \notin bad) /\ (k = l \/ k + 1 \in bad)
    BY LoopStops, ZenonT(30)
  <2> QED
    BY <2>1, <2>2
<1>2. /\ k \in 0..Len(q)
      /\ \A i \in 1..k : TCP_SEQ_LEQ(EndOf(q[i]), EndOf(seg))
      /\ k = Len(q) \/ ~TCP_SEQ_LEQ(EndOf(q[k + 1]), EndOf(seg))
  BY <1>1
<1> QED
  BY <1>2 DEF Covered, Leading

LEMMA LowerLeads ==
  ASSUME NEW q, Len(q) \in Nat, NEW seg, NEW n, n = Lower(q, seg)
  PROVE  /\ n \in 0..Len(q)
         /\ \A i \in 1..n : TCP_SEQ_LT(q[i].seq, seg.seq)
         /\ n = Len(q) \/ ~TCP_SEQ_LT(q[n + 1].seq, seg.seq)
<1> DEFINE bad == {i \in 1..Len(q) : ~TCP_SEQ_LT(q[i].seq, seg.seq)}
<1>1. PICK k \in 0..Len(q) : (\A i \in 1..k : i \notin bad) /\ (k = Len(q) \/ k + 1 \in bad)
  <2>1. PICK l \in Nat : l = Len(q)
    OBVIOUS
  <2> HIDE DEF bad
  <2>2. \E k \in 0..l : (\A i \in 1..k : i \notin bad) /\ (k = l \/ k + 1 \in bad)
    BY LoopStops, ZenonT(30)
  <2> QED
    BY <2>1, <2>2
<1>2. /\ k \in 0..Len(q)
      /\ \A i \in 1..k : TCP_SEQ_LT(q[i].seq, seg.seq)
      /\ k = Len(q) \/ ~TCP_SEQ_LT(q[k + 1].seq, seg.seq)
  BY <1>1
<1> QED
  BY <1>2 DEF Lower, Leading

\* Segments compare as their ends do.
LEMMA SegOrder ==
  ASSUME Start, NEW x, NEW y, Fair(x), Fair(y)
  PROVE  /\ TCP_SEQ_LEQ(EndOf(x), EndOf(y)) <=> From(x) + x.len <= From(y) + y.len
         /\ TCP_SEQ_LT(x.seq, EndOf(y)) <=> From(x) < From(y) + y.len
         /\ TCP_SEQ_LT(x.seq, y.seq) <=> From(x) < From(y)
         /\ x.seq = y.seq <=> From(x) = From(y)
         /\ From(x) >= From(y) => (x.seq - y.seq) % M = From(x) - From(y)
<1>1. /\ x.seq = isn + From(x) /\ y.seq = isn + From(y)
      /\ EndOf(x) = isn + From(x) + x.len /\ EndOf(y) = isn + From(y) + y.len
      /\ x.len \in Nat /\ y.len \in Nat /\ From(x) \in Nat /\ From(y) \in Nat
      /\ From(x) + x.len <= N /\ From(y) + y.len <= N
  BY GoodFacts
<1>2. PICK a \in Int, b \in Int, c \in Int, d \in Int :
        a = x.seq /\ b = y.seq /\ c = EndOf(x) /\ d = EndOf(y)
  BY <1>1 DEF Start
<1>3. TCP_SEQ_LEQ(c, d) <=> c <= d
  BY <1>1, <1>2, SeqOrder, Sizes DEF Start
<1>4. TCP_SEQ_LT(a, d) <=> a < d
  BY <1>1, <1>2, SeqOrder, Sizes DEF Start
<1>5. TCP_SEQ_LT(a, b) <=> a < b
  BY <1>1, <1>2, SeqOrder, Sizes DEF Start
<1>6. ASSUME From(x) >= From(y) PROVE (x.seq - y.seq) % M = From(x) - From(y)
  <2>1. PICK k \in Int : k = a - b
    OBVIOUS
  <2>2. k % M = k
    BY <1>1, <1>2, <1>6, <2>1, ModSmall, Sizes DEF Start
  <2> QED
    BY <1>1, <1>2, <2>1, <2>2 DEF Start
<1> QED
  BY <1>1, <1>2, <1>3, <1>4, <1>5, <1>6 DEF Start

\* Absorb drops what seg covers and cuts seg at what it does not.
LEMMA AbsorbGood ==
  ASSUME Start, NEW q, NEW lo, NEW hi \in Int, Queue(q, lo, hi), NEW seg, Good(seg), ~seg.fin,
         To(seg) <= hi,
         \A i \in 1..Len(q) : From(seg) < From(q[i]) \/ From(q[i]) + q[i].len <= From(seg) + seg.len,
         NEW a, a = Absorb(seg, q)
  PROVE  /\ Good(a.seg) /\ a.seg.seq = seg.seq /\ To(a.seg) <= hi
         /\ Queue(a.rest, lo, hi)
         /\ \A i \in 1..Len(a.rest) : To(a.seg) <= From(a.rest[i]) /\ ~a.seg.fin
<1> DEFINE n == Covered(q, seg)
           kept == TakeFin(seg, q, n)
<1>0. q \in Seq(SegType) /\ Len(q) \in Nat /\ \A i \in 1..Len(q) : Good(q[i]) /\ Fair(q[i])
  BY DEF Queue, Good
<1>1. /\ n \in 0..Len(q)
      /\ \A i \in 1..n : TCP_SEQ_LEQ(EndOf(q[i]), EndOf(seg))
      /\ n = Len(q) \/ ~TCP_SEQ_LEQ(EndOf(q[n + 1]), EndOf(seg))
  BY <1>0, CoveredLeads
<1>2. a = AbsorbFirst(seg, q, n)
  <2> DEFINE m == Leading(q, LAMBDA x : TCP_SEQ_LEQ(EndOf(x), EndOf(seg)))
  <2>1. m = n
    BY DEF Covered
  <2>2. Absorb(seg, q) = AbsorbFirst(seg, q, m)
    BY ZenonT(30) DEF Absorb, Given
  <2> QED
    BY <2>1, <2>2
<1> HIDE DEF n
<1>3. a.rest = Behind(q, n)
      /\ a.seg = (IF n < Len(q) /\ TCP_SEQ_LT(q[n + 1].seq, EndOf(seg))
                  THEN Shorten(kept, (q[n + 1].seq - seg.seq) % M) ELSE kept)
  BY <1>2 DEF AbsorbFirst
<1>4. Fair(seg) /\ seg \in SegType
  BY DEF Good, Fair
<1>5. /\ Queue(a.rest, lo, hi) /\ Len(a.rest) = Len(q) - n
      /\ \A i \in 1..Len(a.rest) : a.rest[i] = q[n + i] /\ n + i \in 1..Len(q)
  BY <1>0, <1>1, <1>3, QueueBehind
<1>6. CASE \E i \in 1..n : q[i].fin
  <2>1. PICK i \in 1..n : q[i].fin
    BY <1>6
  <2>2. i = Len(q) /\ n = Len(q) /\ i \in 1..Len(q)
    BY <1>0, <1>1, <2>1 DEF Queue
  <2>3. From(q[i]) + q[i].len = N /\ To(q[i]) = N + 1 /\ To(q[i]) <= hi
    <3>1. Fair(q[i]) /\ To(q[i]) <= hi
      BY <1>0, <2>2 DEF Queue
    <3>2. From(q[i]) + q[i].len = N /\ From(q[i]) \in Nat /\ q[i].len \in Nat
          /\ To(q[i]) = From(q[i]) + TCPLEN(q[i]) /\ TCPLEN(q[i]) = q[i].len + Int1(q[i].fin)
      BY <2>1, <3>1, GoodFacts
    <3>3. Int1(q[i].fin) = 1
      BY <2>1 DEF Int1
    <3>4. TCPLEN(q[i]) = q[i].len + 1
      BY <3>2, <3>3
    <3> QED
      BY <3>1, <3>2, <3>4
  <2>4. From(q[i]) + q[i].len <= From(seg) + seg.len
    BY <1>0, <1>1, <1>4, <2>2, SegOrder
  <2>5. From(seg) + seg.len = N
    BY <1>4, <2>3, <2>4, GoodFacts, Sizes
  <2>6. kept = [seq |-> seg.seq, len |-> seg.len, fin |-> TRUE, p |-> seg.p]
    BY <1>4, <1>6 DEF SegType, TakeFin
  <2>7. a.seg = kept /\ Len(a.rest) = 0
    BY <1>0, <1>3, <1>5, <2>2
  <2> HIDE DEF kept
  <2>8. PICK k : k = kept
    OBVIOUS
  <2>9. /\ k \in SegType /\ k.len = seg.len /\ k.p = seg.p /\ k.seq = seg.seq /\ k.fin
        /\ seg.len \in Nat /\ From(seg) \in Nat /\ seg.p = Run(From(seg), seg.len)
    BY <1>4, <2>6, <2>8 DEF Fair, SegType
  <2>10. From(k) = From(seg) /\ TCPLEN(k) = seg.len + 1
    BY <2>9 DEF From, TCPLEN
  <2>11. Fair(k)
    BY <2>5, <2>9, <2>10, Sizes DEF Fair
  <2>12. Good(k) /\ To(k) = N + 1
    BY <2>5, <2>9, <2>10, <2>11, Sizes DEF Good, To
  <2> QED
    BY <1>5, <2>3, <2>7, <2>8, <2>9, <2>12
<1>7. CASE ~\E i \in 1..n : q[i].fin
  <2>1. kept = seg
    BY <1>4, <1>7 DEF SegType, TakeFin
  <2> HIDE DEF kept
  <2>2. CASE n < Len(q) /\ TCP_SEQ_LT(q[n + 1].seq, EndOf(seg))
    <3>1. n + 1 \in 1..Len(q) /\ Good(q[n + 1]) /\ Fair(q[n + 1])
      BY <1>0, <1>1, <2>2
    <3>2. PICK y : y = q[n + 1]
      OBVIOUS
    <3>3. From(y) < From(seg) + seg.len /\ ~(From(y) + y.len <= From(seg) + seg.len)
      BY <1>1, <1>4, <2>2, <3>1, <3>2, SegOrder
    <3>4. From(seg) < From(y)
      BY <3>1, <3>2, <3>3
    <3>5. PICK m \in Nat : m = From(y) - From(seg) /\ 0 < m /\ m <= seg.len
      <4>1. From(y) \in Nat /\ From(seg) \in Nat /\ seg.len \in Nat
        BY <1>4, <3>1, <3>2, GoodFacts
      <4>2. From(y) - From(seg) \in Nat /\ 0 < From(y) - From(seg) /\ From(y) - From(seg) <= seg.len
        BY <3>3, <3>4, <4>1
      <4> QED
        BY <4>2
    <3>6. (y.seq - seg.seq) % M = m
      BY <1>4, <3>1, <3>2, <3>4, <3>5, GoodFacts, SegOrder
    <3>7. a.seg = Shorten(seg, m)
      BY <1>3, <2>1, <2>2, <3>2, <3>6
    <3>8. Good(a.seg) /\ a.seg.seq = seg.seq /\ a.seg.len = m /\ ~a.seg.fin
      BY <1>4, <3>5, <3>7, ShortenGood
    <3>9. To(a.seg) = From(y)
      <4>1. From(a.seg) = From(seg) /\ TCPLEN(a.seg) = m
        BY <3>5, <3>8 DEF TCPLEN, From
      <4>2. From(seg) \in Nat /\ From(y) \in Nat
        BY <1>4, <3>1, <3>2, GoodFacts
      <4> QED
        BY <3>5, <4>1, <4>2 DEF To
    <3>10. \A i \in 1..Len(a.rest) : From(y) <= From(a.rest[i])
      <4> TAKE i \in 1..Len(a.rest)
      <4>1. CASE i = 1
        BY <1>5, <3>1, <3>2, <4>1, GoodFacts
      <4>2. CASE i > 1
        <5>1. To(y) <= From(q[n + i])
          BY <1>0, <1>1, <1>5, <3>1, <3>2, <4>2 DEF Queue
        <5>2. To(y) = From(y) + TCPLEN(y) /\ TCPLEN(y) \in Nat /\ From(y) \in Nat
          BY <3>1, <3>2, GoodFacts
        <5>3. From(q[n + i]) \in Nat
          BY <1>0, <1>5, GoodFacts
        <5> QED
          BY <1>5, <5>1, <5>2, <5>3
      <4> QED
        BY <1>0, <1>5, <4>1, <4>2
    <3>11. To(a.seg) <= hi
      <4>1. To(y) <= hi /\ To(y) = From(y) + TCPLEN(y) /\ TCPLEN(y) \in Nat /\ From(y) \in Nat
        BY <3>1, <3>2, GoodFacts DEF Queue
      <4> QED
        BY <3>9, <4>1
    <3> QED
      BY <1>5, <3>8, <3>9, <3>10, <3>11
  <2>3. CASE ~(n < Len(q) /\ TCP_SEQ_LT(q[n + 1].seq, EndOf(seg)))
    <3>1. a.seg = seg
      BY <1>3, <2>1, <2>3
    <3>2. To(seg) = From(seg) + seg.len /\ seg.len \in Nat /\ From(seg) \in Nat
      BY <1>4, GoodFacts DEF Int1
    <3>3. ASSUME NEW i \in 1..Len(a.rest) PROVE To(seg) <= From(a.rest[i])
      <4>1. n < Len(q) /\ n + 1 \in 1..Len(q) /\ n + i \in 1..Len(q) /\ a.rest[i] = q[n + i]
        BY <1>0, <1>1, <1>5, <3>3
      <4>2. PICK y : y = q[n + 1] /\ Good(y) /\ Fair(y)
        BY <1>0, <4>1
      <4>3. From(seg) + seg.len <= From(y)
        <5>1. ~TCP_SEQ_LT(y.seq, EndOf(seg))
          BY <2>3, <4>1, <4>2
        <5>2. From(y) \in Nat
          BY <4>2, GoodFacts
        <5>3. ~(From(y) < From(seg) + seg.len)
          BY <1>4, <4>2, <5>1, SegOrder
        <5> QED
          BY <3>2, <5>2, <5>3
      <4>4. CASE i = 1
        BY <3>2, <4>1, <4>2, <4>3, <4>4
      <4>5. CASE i > 1
        <5>1. To(y) <= From(q[n + i])
          BY <1>0, <1>1, <4>1, <4>2, <4>5 DEF Queue
        <5>2. To(y) = From(y) + TCPLEN(y) /\ TCPLEN(y) \in Nat /\ From(y) \in Nat
          BY <4>2, GoodFacts
        <5>3. From(q[n + i]) \in Nat
          BY <1>0, <4>1, GoodFacts
        <5> QED
          BY <3>2, <4>1, <4>3, <5>1, <5>2, <5>3
      <4> QED
        BY <1>5, <3>3, <4>4, <4>5
    <3> QED
      BY <1>5, <3>1, <3>3
  <2> QED
    BY <2>2, <2>3
<1> QED
  BY <1>6, <1>7


\* The segments of a queue begin one behind the other.
LEMMA QueueSorted ==
  ASSUME Start, NEW q, NEW lo, NEW hi, Queue(q, lo, hi), NEW i \in 1..Len(q), NEW j \in 1..Len(q), i < j
  PROVE  From(q[i]) < From(q[j])
<1>1. Good(q[i]) /\ Good(q[j]) /\ To(q[i]) <= From(q[j])
  BY DEF Queue
<1>2. PICK x, y : x = q[i] /\ y = q[j]
  OBVIOUS
<1>3. To(x) = From(x) + TCPLEN(x) /\ TCPLEN(x) \in Nat /\ From(x) \in Nat /\ From(y) \in Nat /\ TCPLEN(x) > 0
  BY <1>1, <1>2, GoodFacts DEF Good
<1> QED
  BY <1>1, <1>2, <1>3

\* tcp_oos_insert_segment puts seg before a queue that begins behind it.
LEMMA InsertGood ==
  ASSUME Start, NEW q, NEW lo, NEW hi \in Int, Queue(q, lo, hi), NEW seg, Good(seg),
         lo < From(seg), To(seg) <= hi,
         \A i \in 1..Len(q) : From(seg) < From(q[i]) \/ From(q[i]) + q[i].len <= From(seg) + seg.len,
         NEW r, r = tcp_oos_insert_segment(seg, q)
  PROVE  Queue(r, lo, hi) /\ \A i \in 1..Len(r) : From(seg) <= From(r[i])
<1>0. From(seg) \in Nat
  BY GoodFacts DEF Good
<1>1. CASE seg.fin
  <2>1. r = <<seg>>
    BY <1>1 DEF tcp_oos_insert_segment
  <2>2. Len(r) = 1 /\ r[1] = seg
    BY <2>1
  <2> QED
    BY <1>0, <2>1, <2>2, QueueOne
<1>2. CASE ~seg.fin
  <2>1. PICK a, h : a = Absorb(seg, q) /\ h = <<a.seg>>
    OBVIOUS
  <2>2. r = Cat(h, a.rest)
    BY <1>2, <2>1 DEF tcp_oos_insert_segment, Given, Cat
  <2>3. /\ Good(a.seg) /\ a.seg.seq = seg.seq /\ To(a.seg) <= hi
        /\ Queue(a.rest, lo, hi)
        /\ \A i \in 1..Len(a.rest) : To(a.seg) <= From(a.rest[i]) /\ ~a.seg.fin
    BY <1>2, <2>1, AbsorbGood
  <2>4. From(a.seg) = From(seg)
    BY <2>3 DEF From
  <2>5. Queue(h, lo, hi) /\ Len(h) = 1 /\ h[1] = a.seg
    BY <2>1, <2>3, <2>4, QueueOne
  <2>6. \A i \in 1..Len(h), j \in 1..Len(a.rest) : To(h[i]) <= From(a.rest[j]) /\ ~h[i].fin
    BY <2>3, <2>5
  <2>7. PICK w : w = a.rest
    OBVIOUS
  <2>8. Queue(r, lo, hi) /\ Len(r) = 1 + Len(w) /\ r[1] = a.seg
    <3>1. /\ r = Cat(h, w) /\ Queue(w, lo, hi)
          /\ Before(h, w)
      BY <2>2, <2>3, <2>6, <2>7 DEF Before
    <3>2. Queue(r, lo, hi) /\ Len(r) = Len(h) + Len(w)
      BY <2>5, <3>1, QueueCat
    <3>3. h \in Seq(SegType) /\ w \in Seq(SegType)
      BY <2>5, <3>1 DEF Queue
    <3>4. \A i \in 1..Len(h) : r[i] = h[i]
      BY <3>1, <3>3 DEF Cat
    <3> QED
      BY <2>5, <3>2, <3>4
  <2>9. ASSUME NEW i \in 1..Len(r) PROVE From(seg) <= From(r[i])
    <3>1. CASE i = 1
      BY <1>0, <2>4, <2>8, <3>1
    <3>2. CASE i # 1
      <4>1. Len(r) \in Nat /\ 1 \in 1..Len(r) /\ 1 < i
        BY <2>8, <2>9, <3>2 DEF Queue
      <4>2. From(r[1]) < From(r[i])
        BY <2>8, <2>9, <4>1, QueueSorted
      <4>3. From(r[i]) \in Nat
        BY <2>8, <2>9, GoodFacts DEF Queue, Good
      <4> QED
        BY <1>0, <2>4, <2>8, <4>2, <4>3
    <3> QED
      BY <3>1, <3>2
  <2> QED
    BY <2>8, <2>9
<1> QED
  BY <1>1, <1>2

\* The segment before an inserted one ends where that begins.
LEMMA CutGood ==
  ASSUME Start, NEW x, Good(x), ~x.fin, NEW seg, Good(seg), From(x) < From(seg),
         NEW y, y = CutAt(x, seg.seq)
  PROVE  Good(y) /\ y.seq = x.seq /\ ~y.fin /\ To(y) <= From(seg) /\ To(y) <= To(x)
<1>1. /\ Fair(x) /\ Fair(seg) /\ From(x) \in Nat /\ x.len \in Nat /\ From(seg) \in Nat
      /\ To(x) = From(x) + x.len
  BY GoodFacts DEF Good, Int1
<1>2. TCP_SEQ_LT(seg.seq, EndOf(x)) <=> From(seg) < From(x) + x.len
  BY <1>1, SegOrder
<1>3. (seg.seq - x.seq) % M = From(seg) - From(x)
  BY <1>1, SegOrder
<1>4. CASE From(seg) < From(x) + x.len
  <2>1. PICK m \in Nat : m = From(seg) - From(x) /\ 0 < m /\ m <= x.len
    BY <1>1, <1>4
  <2>2. y = Shorten(x, m)
    BY <1>2, <1>3, <1>4, <2>1 DEF CutAt
  <2>3. Good(y) /\ y.seq = x.seq /\ y.len = m /\ ~y.fin
    BY <1>1, <2>1, <2>2, ShortenGood
  <2>4. From(y) = From(x) /\ TCPLEN(y) = m
    BY <2>1, <2>3 DEF From, TCPLEN
  <2> QED
    BY <1>1, <2>1, <2>3, <2>4 DEF To
<1>5. CASE ~(From(seg) < From(x) + x.len)
  BY <1>1, <1>2, <1>5 DEF CutAt
<1> QED
  BY <1>4, <1>5

\* A queue up to its kth segment, which is replaced by the shorter y.
LEMMA QueueCut ==
  ASSUME Start, NEW q, NEW lo, NEW hi \in Int, Queue(q, lo, hi), NEW k \in 1..Len(q),
         NEW y, Good(y), ~y.fin, y.seq = q[k].seq, To(y) <= To(q[k]),
         NEW c, c = Cat(Upto(q, k - 1), <<y>>)
  PROVE  /\ Queue(c, lo, hi)
         /\ \A i \in 1..Len(c) : ~c[i].fin /\ To(c[i]) <= To(y)
<1> DEFINE f == Upto(q, k - 1)
           h == <<y>>
<1>1. q \in Seq(SegType) /\ Len(q) \in Nat /\ k - 1 \in 0..Len(q)
  BY DEF Queue
<1>2. /\ Queue(f, lo, hi) /\ Len(f) = k - 1
      /\ \A i \in 1..Len(f) : f[i] = q[i] /\ i \in 1..Len(q)
  BY <1>1, QueueFront
<1>3. From(y) = From(q[k]) /\ Good(q[k]) /\ lo < From(q[k]) /\ To(q[k]) <= hi
  BY DEF From, Queue
<1>4. To(y) \in Nat /\ To(q[k]) \in Nat /\ From(y) \in Nat /\ To(y) = From(y) + TCPLEN(y) /\ TCPLEN(y) \in Nat
  BY <1>3, GoodFacts DEF Good
<1>5. To(y) <= hi /\ lo < From(y)
  BY <1>3, <1>4
<1>6. Queue(h, lo, hi) /\ Len(h) = 1 /\ h[1] = y
  BY <1>5, QueueOne
<1>7. \A i \in 1..Len(f) : To(f[i]) <= From(y) /\ ~f[i].fin /\ To(f[i]) \in Nat
  <2> SUFFICES ASSUME NEW i \in 1..Len(f) PROVE To(q[i]) <= From(q[k]) /\ ~q[i].fin /\ To(q[i]) \in Nat
    BY <1>2, <1>3
  <2>1. i \in 1..Len(q) /\ i < k
    BY <1>1, <1>2
  <2>2. Good(q[i])
    BY <2>1 DEF Queue
  <2>3. To(q[i]) \in Nat
    BY <2>2, GoodFacts DEF Good
  <2> QED
    BY <2>1, <2>3 DEF Queue
<1>8. Before(f, h)
  BY <1>6, <1>7 DEF Before
<1> HIDE DEF f, h
<1>9. c = Cat(f, h)
  BY DEF f, h
<1>10. Queue(c, lo, hi) /\ Len(c) = Len(f) + Len(h)
  BY <1>2, <1>6, <1>8, <1>9, QueueCat
<1>11. f \in Seq(SegType) /\ h \in Seq(SegType)
  BY <1>2, <1>6 DEF Queue
<1>12. /\ \A i \in 1..Len(f) : c[i] = f[i]
       /\ \A i \in 1..Len(h) : c[Len(f) + i] = h[i]
  <2>1. /\ \A i \in 1..Len(f) : Cat(f, h)[i] = f[i]
        /\ \A i \in 1..Len(h) : Cat(f, h)[Len(f) + i] = h[i]
    BY <1>11, CatAt
  <2> QED
    BY <1>9, <2>1
<1>13. ASSUME NEW i \in 1..Len(c) PROVE ~c[i].fin /\ To(c[i]) <= To(y)
  <2>1. CASE i <= Len(f)
    <3>1. i \in 1..Len(f)
      BY <1>1, <1>2, <1>13, <2>1, <1>10, <1>6
    <3>2. c[i] = f[i] /\ To(f[i]) <= From(y) /\ ~f[i].fin /\ To(f[i]) \in Nat
      BY <1>7, <1>12, <3>1
    <3> QED
      BY <1>4, <3>2
  <2>2. CASE i > Len(f)
    <3>1. i = Len(f) + 1
      BY <1>1, <1>2, <1>6, <1>10, <1>13, <2>2
    <3>2. c[i] = y
      BY <1>6, <1>12, <3>1
    <3> QED
      BY <1>4, <3>2
  <2> QED
    BY <1>1, <1>2, <1>13, <2>1, <2>2
<1> QED
  BY <1>10, <1>13

LEMMA QueueCutCat ==
  ASSUME Start, NEW q, NEW lo, NEW hi \in Int, Queue(q, lo, hi), NEW k \in 1..Len(q),
         NEW y, Good(y), ~y.fin, y.seq = q[k].seq, To(y) <= To(q[k])
  PROVE  /\ Queue(Cat(Upto(q, k - 1), <<y>>), lo, hi)
         /\ \A i \in 1..Len(Cat(Upto(q, k - 1), <<y>>)) :
              /\ ~Cat(Upto(q, k - 1), <<y>>)[i].fin
              /\ To(Cat(Upto(q, k - 1), <<y>>)[i]) <= To(y)
<1>1. PICK c : c = Cat(Upto(q, k - 1), <<y>>)
  OBVIOUS
<1>2. Queue(c, lo, hi) /\ \A i \in 1..Len(c) : ~c[i].fin /\ To(c[i]) <= To(y)
  BY <1>1, QueueCut
<1> QED
  BY <1>1, <1>2

\* AppendSegment's sequence as one of the joined ones.
LEMMA AppendAsCat ==
  ASSUME NEW q \in Seq(SegType), q # <<>>, NEW y \in SegType, NEW seg \in SegType
  PROVE  Append([q EXCEPT ![Len(q)] = y], seg) = Cat(Cat(Upto(q, Len(q) - 1), <<y>>), <<seg>>)
<1> DEFINE f == Upto(q, Len(q) - 1)
           c == Cat(f, <<y>>)
<1>1. Len(q) \in Nat /\ Len(q) > 0
  OBVIOUS
<1>2. f \in Seq(SegType) /\ Len(f) = Len(q) - 1 /\ \A i \in 1..Len(f) : f[i] = q[i]
  <2>1. PICK m \in Nat : m = Len(q) - 1
    BY <1>1
  <2>2. SubSeq(q, 1, m) \in Seq(SegType) /\ Len(SubSeq(q, 1, m)) = m /\ \A i \in 1..m : SubSeq(q, 1, m)[i] = q[i]
    BY <1>1, <2>1
  <2> QED
    BY <2>1, <2>2 DEF Upto
<1> HIDE DEF f
<1>3. /\ c \in Seq(SegType) /\ Len(c) = Len(q)
      /\ \A i \in 1..Len(q) : c[i] = IF i = Len(q) THEN y ELSE q[i]
  BY <1>1, <1>2 DEF Cat
<1> HIDE DEF c
<1>4. [q EXCEPT ![Len(q)] = y] = c
  <2> DEFINE e == [q EXCEPT ![Len(q)] = y]
  <2>1. e \in Seq(SegType) /\ Len(e) = Len(q) /\ \A i \in 1..Len(q) : e[i] = IF i = Len(q) THEN y ELSE q[i]
    BY <1>1
  <2> HIDE DEF e
  <2>2. e = c
    BY <1>1, <1>3, <2>1
  <2> QED
    BY <2>2 DEF e
<1>5. Append(c, seg) = Cat(c, <<seg>>)
  BY <1>3 DEF Cat
<1> QED
  BY <1>4, <1>5 DEF c, f

\* An out-of-sequence segment inside the window keeps the queue one.
LEMMA QueueOoseqGood ==
  ASSUME Start, NEW p, NEW lo \in Nat, NEW hi \in Nat, NEW q, q = p.ooseq,
         p.rcv_nxt = isn + lo, p.rcv_wnd = hi - lo, hi <= N + Wnd + 1,
         Queue(q, lo, hi), NEW seg, Good(seg), lo < From(seg), To(seg) <= hi,
         NEW r, r = QueueOoseq(p, seg)
  PROVE  Queue(r, lo, hi)
<1> DEFINE same == {i \in 1..Len(q) : q[i].seq = seg.seq}
<1>k. PICK k : k = Lower(q, seg)
  OBVIOUS
<1>0. /\ q \in Seq(SegType) /\ Len(q) \in Nat /\ \A i \in 1..Len(q) : Good(q[i]) /\ Fair(q[i])
      /\ Fair(seg) /\ seg \in SegType
  BY DEF Queue, Good, Fair
<1>1. /\ k \in 0..Len(q)
      /\ \A i \in 1..k : TCP_SEQ_LT(q[i].seq, seg.seq)
      /\ k = Len(q) \/ ~TCP_SEQ_LT(q[k + 1].seq, seg.seq)
  BY <1>0, <1>k, LowerLeads
<1>2. r = IF q = <<>> THEN <<seg>>
          ELSE IF same # {} THEN
            LET i == CHOOSE j \in same : TRUE
            IN IF seg.len > q[i].len
               THEN Upto(q, i - 1) \o tcp_oos_insert_segment(seg, Behind(q, i - 1)) ELSE q
          ELSE IF k = 0 THEN tcp_oos_insert_segment(seg, q)
          ELSE IF k = Len(q) THEN AppendSegment(p, seg)
          ELSE Upto(q, k - 1) \o <<CutAt(q[k], seg.seq)>> \o tcp_oos_insert_segment(seg, Behind(q, k))
  BY <1>k DEF QueueOoseq, Lower, Upto
<1>3. From(seg) \in Nat /\ \A i \in 1..Len(q) : From(q[i]) \in Nat /\ To(q[i]) \in Nat
  BY <1>0, GoodFacts
<1>4. \A i \in 1..k : i \in 1..Len(q) /\ From(q[i]) < From(seg)
  BY <1>0, <1>1, SegOrder
<1>5. CASE q = <<>>
  BY <1>2, <1>5, QueueOne
<1>6. CASE q # <<>> /\ same # {}
  <2>1. PICK i \in 1..Len(q) : /\ q[i].seq = seg.seq
                               /\ r = IF seg.len > q[i].len
                                      THEN Upto(q, i - 1) \o tcp_oos_insert_segment(seg, Behind(q, i - 1)) ELSE q
    BY <1>2, <1>6
  <2>2. CASE ~(seg.len > q[i].len)
    BY <2>1, <2>2
  <2>3. CASE seg.len > q[i].len
    <3> DEFINE f == Upto(q, i - 1)
               b == Behind(q, i - 1)
               g == tcp_oos_insert_segment(seg, b)
    <3>1. i - 1 \in 0..Len(q)
      BY <1>0
    <3>2. /\ Queue(f, lo, hi) /\ Len(f) = i - 1
          /\ \A j \in 1..Len(f) : f[j] = q[j] /\ j \in 1..Len(q)
      BY <3>1, QueueFront
    <3>3. /\ Queue(b, lo, hi) /\ Len(b) = Len(q) - (i - 1)
          /\ \A j \in 1..Len(b) : b[j] = q[(i - 1) + j] /\ (i - 1) + j \in 1..Len(q)
      <4>1. Queue(b, lo, hi) /\ IsBehind(b, q, i - 1)
        BY <3>1, QueueTail, Zenon
      <4> QED
        BY <4>1 DEF IsBehind
    <3> HIDE DEF f, b
    <3>4. From(q[i]) = From(seg)
      BY <1>0, <2>1, SegOrder
    <3>5. ASSUME NEW j \in 1..Len(b)
          PROVE  From(seg) < From(b[j]) \/ From(b[j]) + b[j].len <= From(seg) + seg.len
      <4>1. CASE j = 1
        <5>1. (i - 1) + j = i
          BY <4>1
        <5>1a. b[j] = q[i]
          BY <3>3, <3>5, <5>1
        <5>2. q[i].len \in Nat /\ seg.len \in Nat
          BY <1>0, GoodFacts
        <5> QED
          <6>1. PICK u \in Nat, v \in Nat, k1 \in Nat : From(seg) = u /\ q[i].len = v /\ seg.len = k1
            BY <1>3, <5>2
          <6>2. k1 > v
            BY <2>3, <6>1
          <6>3. u + v <= u + k1
            BY <6>2
          <6> QED
            BY <3>4, <5>1a, <6>1, <6>3
      <4>2. CASE j # 1
        <5>1. i < (i - 1) + j /\ (i - 1) + j \in 1..Len(q) /\ b[j] = q[(i - 1) + j]
          <6>1. b[j] = q[(i - 1) + j] /\ (i - 1) + j \in 1..Len(q)
            BY <3>3, <3>5
          <6>2. i \in Int /\ j \in Int /\ j >= 1
            BY <1>0, <3>3, <3>5
          <6>3. i < (i - 1) + j
            BY <4>2, <6>2
          <6> QED
            BY <6>1, <6>3
        <5> QED
          BY <3>4, <5>1, QueueSorted
      <4> QED
        BY <4>1, <4>2
    <3>6. Queue(g, lo, hi) /\ \A j \in 1..Len(g) : From(seg) <= From(g[j])
      <4>1. hi \in Int /\ g = tcp_oos_insert_segment(seg, b)
        OBVIOUS
      <4> HIDE DEF g
      <4> QED
        BY <3>3, <3>5, <4>1, InsertGood
    <3> HIDE DEF g
    <3>7. \A j \in 1..Len(g) : From(g[j]) \in Nat
      BY <3>6, GoodFacts DEF Queue, Good
    <3>8. ASSUME NEW x \in 1..Len(f), NEW j \in 1..Len(g) PROVE To(f[x]) <= From(g[j]) /\ ~f[x].fin
      <4>1. x \in 1..Len(q) /\ x < i /\ f[x] = q[x]
        BY <3>2, <3>1, <1>0
      <4>2. To(q[x]) <= From(q[i]) /\ ~q[x].fin
        BY <4>1 DEF Queue
      <4>3. To(q[x]) \in Nat /\ From(seg) <= From(g[j]) /\ From(g[j]) \in Nat
        BY <1>3, <3>6, <3>7, <4>1
      <4> QED
        BY <1>3, <3>4, <4>1, <4>2, <4>3
    <3>9. Before(f, g)
      BY <3>8 DEF Before
    <3>10. r = Cat(f, g)
      BY <2>1, <2>3 DEF f, b, g, Cat
    <3> QED
      BY <3>2, <3>6, <3>9, <3>10, QueueCat
  <2> QED
    BY <2>2, <2>3
<1>7. CASE q # <<>> /\ same = {}
  <2>0. \A i \in 1..Len(q) : q[i].seq # seg.seq
    BY <1>7
  <2>1. \A i \in 1..Len(q) : i > k => From(seg) < From(q[i])
    <3> SUFFICES ASSUME NEW i \in 1..Len(q), i > k PROVE From(seg) < From(q[i])
      OBVIOUS
    <3>1. k + 1 \in 1..Len(q) /\ ~TCP_SEQ_LT(q[k + 1].seq, seg.seq) /\ q[k + 1].seq # seg.seq
      BY <1>0, <1>1, <2>0
    <3>2. From(seg) < From(q[k + 1])
      <4>1. PICK y : y = q[k + 1] /\ Fair(y)
        BY <1>0, <3>1
      <4>2. ~(From(y) < From(seg)) /\ From(y) # From(seg) /\ From(y) \in Nat
        BY <1>0, <3>1, <4>1, SegOrder, GoodFacts
      <4> QED
        BY <1>3, <4>1, <4>2
    <3>3. CASE i = k + 1
      BY <3>2, <3>3
    <3>4. CASE i # k + 1
      <4>1. k + 1 < i
        BY <1>0, <1>1, <3>4
      <4>2. From(q[k + 1]) < From(q[i])
        BY <3>1, <4>1, QueueSorted
      <4> QED
        BY <1>3, <3>1, <3>2, <4>2
    <3> QED
      BY <3>3, <3>4
  <2>2. CASE k = 0
    <3>1. r = tcp_oos_insert_segment(seg, q)
      BY <1>2, <1>7, <2>2
    <3>2. \A i \in 1..Len(q) : From(seg) < From(q[i]) \/ From(q[i]) + q[i].len <= From(seg) + seg.len
      BY <1>0, <2>1, <2>2
    <3> QED
      BY <3>1, <3>2, InsertGood
  <2>3. CASE k # 0 /\ k = Len(q)
    <3>1. r = AppendSegment(p, seg)
      BY <1>2, <1>7, <2>3
    <3>2. k \in 1..Len(q) /\ k \in 1..k
      BY <1>1, <2>3
    <3>3. CASE q[k].fin
      BY <2>3, <3>1, <3>3 DEF AppendSegment
    <3>4. CASE ~q[k].fin
      <4> DEFINE y == CutAt(q[k], seg.seq)
                 c == Cat(Upto(q, k - 1), <<y>>)
                 g == <<seg>>
      <4>1. Good(y) /\ y.seq = q[k].seq /\ ~y.fin /\ To(y) <= From(seg) /\ To(y) <= To(q[k])
        BY <1>0, <1>4, <3>2, <3>4, CutGood
      <4>2. (TCPLEN(seg) + seg.seq) % M = isn + To(seg)
        <5>0. To(seg) \in Nat /\ To(seg) <= N + 1
          BY <1>0, GoodFacts
        <5>1. PICK e \in 0..(N + Wnd + 1) : e = To(seg)
          BY <5>0, Sizes
        <5>2. TCPLEN(seg) + seg.seq = isn + e
          BY <1>0, <5>1, GoodFacts DEF Start
        <5> QED
          BY <5>1, <5>2, Positions
      <4>3. (p.rcv_nxt + p.rcv_wnd) % M = isn + hi
        <5>1. p.rcv_nxt + p.rcv_wnd = isn + hi
          BY DEF Start
        <5>2. hi \in 0..(N + Wnd + 1)
          BY Sizes
        <5> QED
          BY <5>1, <5>2, Positions
      <4>4. ~((TCPLEN(seg) + seg.seq) % M > (p.rcv_nxt + p.rcv_wnd) % M)
        <5>1. To(seg) \in Nat
          BY <1>0, GoodFacts
        <5> QED
          BY <4>2, <4>3, <5>1 DEF Start
      <4>5. r = Append([q EXCEPT ![Len(q)] = y], seg)
        BY <2>3, <3>1, <3>4, <4>4 DEF AppendSegment
      <4>6. y \in SegType
        BY <4>1 DEF Good, Fair
      <4> HIDE DEF y
      <4>7. r = Cat(c, g)
        BY <1>0, <1>7, <2>3, <4>5, <4>6, AppendAsCat
      <4>8. Queue(c, lo, hi) /\ \A i \in 1..Len(c) : ~c[i].fin /\ To(c[i]) <= To(y)
        BY <3>2, <4>1, QueueCut
      <4>9. Queue(g, lo, hi) /\ Len(g) = 1 /\ g[1] = seg
        BY QueueOne
      <4> HIDE DEF c, g
      <4>10. To(y) \in Nat /\ \A i \in 1..Len(c) : To(c[i]) \in Nat
        BY <4>1, <4>8, GoodFacts DEF Good, Queue
      <4>11. Before(c, g)
        BY <1>3, <4>1, <4>8, <4>9, <4>10 DEF Before
      <4> QED
        BY <4>7, <4>8, <4>9, <4>11, QueueCat
    <3> QED
      BY <3>3, <3>4
  <2>4. CASE k # 0 /\ k # Len(q)
    <3> DEFINE y == CutAt(q[k], seg.seq)
               c == Cat(Upto(q, k - 1), <<y>>)
    <3>b. PICK b : b = Behind(q, k)
      OBVIOUS
    <3>g. PICK g : g = tcp_oos_insert_segment(seg, b)
      OBVIOUS
    <3>k. k \in 0..Len(q)
      BY <1>1
    <3>1. k \in 1..Len(q) /\ k \in 1..k /\ k + 1 \in 1..Len(q) /\ k < k + 1
      BY <1>1, <2>4, <1>0
    <3>2. ~q[k].fin
      BY <3>1 DEF Queue
    <3>3. Good(y) /\ y.seq = q[k].seq /\ ~y.fin /\ To(y) <= From(seg) /\ To(y) <= To(q[k])
      BY <1>0, <1>4, <3>1, <3>2, CutGood
    <3>4. r = Cat(c, g)
      BY <1>2, <1>7, <2>4, <3>b, <3>g DEF Cat
    <3> HIDE DEF y
    <3>5. Queue(c, lo, hi) /\ \A i \in 1..Len(c) : ~c[i].fin /\ To(c[i]) <= To(y)
      <4>1. hi \in Int /\ k \in 1..Len(q)
        BY <3>1
      <4> QED
        BY <3>3, <4>1, QueueCutCat, Zenon
    <3> HIDE DEF c
    <3>6. /\ Queue(b, lo, hi) /\ Len(b) = Len(q) - k
          /\ \A j \in 1..Len(b) : b[j] = q[k + j] /\ k + j \in 1..Len(q)
      <4>1. Queue(b, lo, hi) /\ IsBehind(b, q, k)
        BY <3>k, <3>b, QueueTail, Zenon
      <4> QED
        BY <4>1 DEF IsBehind
    <3>7. \A j \in 1..Len(b) : From(seg) < From(b[j]) \/ From(b[j]) + b[j].len <= From(seg) + seg.len
      BY <1>0, <1>1, <2>1, <3>6
    <3>8. Queue(g, lo, hi) /\ \A j \in 1..Len(g) : From(seg) <= From(g[j])
      BY <3>g, <3>6, <3>7, InsertGood
    <3>9. /\ \A j \in 1..Len(g) : From(g[j]) \in Nat
          /\ To(y) \in Nat /\ \A i \in 1..Len(c) : To(c[i]) \in Nat
      BY <3>3, <3>5, <3>8, GoodFacts DEF Queue, Good
    <3>10. Before(c, g)
      BY <1>3, <3>3, <3>5, <3>8, <3>9 DEF Before
    <3> QED
      BY <3>4, <3>5, <3>8, <3>10, QueueCat
  <2> QED
    BY <2>2, <2>3, <2>4
<1> QED
  BY <1>5, <1>6, <1>7

-----------------------------------------------------------------------------
(* Windows and acknowledgements *)

\* An event in progress: d and f are the data and the FIN not yet handed on.
Ok(s, d, f) == s \in StateType /\ Sound(s.pcb, s.app, s.peer, d, f)

\* The window tcp_update_rcv_ann_wnd announces keeps the edge and is free.
LEMMA AnnouncedFits ==
  ASSUME Start, NEW p, p \in PcbType, Nxt(p) \in 0..(N + 1), p.rcv_wnd \in 0..Wnd,
         p.ann_edge - isn \in 0..(Nxt(p) + p.rcv_wnd),
         NEW t, t = tcp_update_rcv_ann_wnd(p)
  PROVE  /\ t \in PcbType /\ t = [p EXCEPT !.ann_wnd = t.ann_wnd]
         /\ t.ann_wnd \in 0..p.rcv_wnd
         /\ p.ann_edge - isn <= Nxt(p) + t.ann_wnd
<1>1. PICK w : w = IF TCP_SEQ_LEQ(p.ann_edge + Least(Wnd \div 2, Mss), (p.rcv_nxt + p.rcv_wnd) % M) THEN p.rcv_wnd
                   ELSE IF TCP_SEQ_LT(p.ann_edge, p.rcv_nxt) THEN 0
                   ELSE (p.ann_edge - p.rcv_nxt) % M
  OBVIOUS
<1>2. t = [p EXCEPT !.ann_wnd = w]
  BY <1>1 DEF tcp_update_rcv_ann_wnd
<1>3. PICK e \in Int, n \in Int, v \in Int : e = p.ann_edge /\ n = p.rcv_nxt /\ v = p.rcv_wnd
  BY DEF PcbType
<1>4. n - isn \in 0..(N + 1) /\ v \in 0..Wnd /\ e - isn \in 0..(n - isn + v)
  BY <1>3 DEF Nxt
<1>5. w \in 0..v /\ e - isn <= n - isn + w
  <2>1. w = v \/ (TCP_SEQ_LT(e, n) /\ w = 0) \/ (~TCP_SEQ_LT(e, n) /\ w = (e - n) % M)
    BY <1>1, <1>3
  <2>2. TCP_SEQ_LT(e, n) <=> e < n
    BY <1>4, SeqOrder, Sizes DEF Start
  <2>3. ASSUME ~(e < n) PROVE (e - n) % M = e - n
    <3>1. PICK k \in Int : k = e - n
      OBVIOUS
    <3>2. k % M = k
      BY <1>4, <2>3, <3>1, ModSmall, Sizes DEF Start
    <3> QED
      BY <3>1, <3>2
  <2> QED
    BY <1>4, <2>1, <2>2, <2>3 DEF Start
<1>6. w \in Int
  BY <1>3, <1>5
<1>7. t.ann_wnd = w /\ t \in PcbType
  BY <1>2, <1>6 DEF PcbType
<1> QED
  BY <1>2, <1>3, <1>5, <1>7 DEF Nxt

\* The peer learns of an edge that is not behind the one it knows.
LEMMA AheadReaches ==
  ASSUME Start, NEW x \in Nat, x <= N + Wnd + 1, NEW f \in Nat, f <= x
  PROVE  Ahead(f, isn + x) = x
<1>1. SeqNo(f) = isn + f
  BY Positions, Sizes
<1>2. PICK d \in Int : d = x - f
  OBVIOUS
<1>3. isn + x - SeqNo(f) = d
  BY <1>1, <1>2 DEF Start
<1>4. d % M = d /\ d < M \div 2
  BY <1>2, ModSmall, Sizes
<1>5. d \in Int /\ f + d = x /\ isn \in Int /\ M \in Int /\ M \div 2 \in Int
  BY <1>2, Sizes DEF Start
<1>6. Ahead(f, isn + x) = IF (isn + x - (isn + f)) % M < M \div 2 THEN f + ((isn + x - (isn + f)) % M) ELSE f
  BY <1>1, <1>5 DEF Ahead
<1>7. isn + x - (isn + f) = d
  BY <1>1, <1>3
<1> QED
  BY <1>4, <1>5, <1>6, <1>7

\* All but the acknowledgements is as it was.
Kept(s, t) ==
  /\ t.data = s.data /\ t.got_fin = s.got_fin /\ t.c = s.c /\ t.app = s.app
  /\ t.pcb.rcv_nxt = s.pcb.rcv_nxt /\ t.pcb.rcv_wnd = s.pcb.rcv_wnd
  /\ t.pcb.ooseq = s.pcb.ooseq /\ t.pcb.state = s.pcb.state /\ t.pcb.refused = s.pcb.refused

\* The flags of the acknowledgements matter to nothing else.
LEMMA FlagsFree ==
  ASSUME NEW s, NEW d, NEW f, Ok(s, d, f), NEW x \in BOOLEAN, NEW y \in BOOLEAN,
         NEW t, t = [s EXCEPT !.pcb.ack_delay = x, !.pcb.ack_now = y]
  PROVE  Ok(t, d, f) /\ Kept(s, t)
<1>1. s \in StateType /\ s.pcb \in PcbType
  BY DEF Ok, StateType
<1>2. t = [s EXCEPT !.pcb = [s.pcb EXCEPT !.ack_delay = x, !.ack_now = y]]
  BY <1>1 DEF StateType
<1>3. PICK p : p = [s.pcb EXCEPT !.ack_delay = x, !.ack_now = y]
  OBVIOUS
<1>4. /\ p \in PcbType /\ p.rcv_nxt = s.pcb.rcv_nxt /\ p.rcv_wnd = s.pcb.rcv_wnd
      /\ p.ann_wnd = s.pcb.ann_wnd /\ p.ann_edge = s.pcb.ann_edge
      /\ p.ooseq = s.pcb.ooseq /\ p.state = s.pcb.state /\ p.refused = s.pcb.refused
  BY <1>1, <1>3 DEF PcbType
<1>5. /\ t \in StateType /\ t.pcb = p /\ t.app = s.app /\ t.peer = s.peer
      /\ t.data = s.data /\ t.got_fin = s.got_fin /\ t.c = s.c
  BY <1>1, <1>2, <1>3, <1>4 DEF StateType
<1>6. Sound(p, s.app, s.peer, d, f)
  BY <1>4 DEF Ok, Sound, Edges, Stream, Window, Fins, Nxt
<1> QED
  BY <1>4, <1>5, <1>6 DEF Ok, Kept

LEMMA AckNow ==
  ASSUME NEW s, NEW d, NEW f, Ok(s, d, f), NEW t, t = tcp_ack_now(s)
  PROVE  Ok(t, d, f) /\ Kept(s, t)
<1>1. s \in StateType /\ s.pcb \in PcbType /\ s.pcb.ack_delay \in BOOLEAN
  BY DEF Ok, StateType, PcbType
<1>2. PICK x \in BOOLEAN : x = s.pcb.ack_delay
  BY <1>1
<1>3. t = [s EXCEPT !.pcb.ack_delay = x, !.pcb.ack_now = TRUE]
  BY <1>1, <1>2 DEF tcp_ack_now, StateType, PcbType
<1> QED
  BY <1>3, FlagsFree

LEMMA AckSoon ==
  ASSUME NEW s, NEW d, NEW f, Ok(s, d, f), NEW t, t = tcp_ack(s)
  PROVE  Ok(t, d, f) /\ Kept(s, t)
<1>1. s \in StateType /\ s.pcb \in PcbType /\ s.pcb.ack_now \in BOOLEAN
  BY DEF Ok, StateType, PcbType
<1>2. PICK y \in BOOLEAN : y = s.pcb.ack_now
  BY <1>1
<1>3. CASE s.pcb.ack_delay
  <2>1. t = [s EXCEPT !.pcb.ack_delay = FALSE, !.pcb.ack_now = TRUE]
    BY <1>3 DEF tcp_ack
  <2> QED
    BY <2>1, FlagsFree
<1>4. CASE ~s.pcb.ack_delay
  <2>1. t = [s EXCEPT !.pcb.ack_delay = TRUE, !.pcb.ack_now = y]
    BY <1>1, <1>2, <1>4 DEF tcp_ack, StateType, PcbType
  <2> QED
    BY <2>1, FlagsFree
<1> QED
  BY <1>3, <1>4

LEMMA AckSent ==
  ASSUME Start, NEW s, NEW d, NEW f, Ok(s, d, f), NEW t, t = tcp_send_empty_ack(s)
  PROVE  Ok(t, d, f) /\ Kept(s, t)
<1>1. s \in StateType /\ s.pcb \in PcbType /\ s.app \in AppType /\ s.peer \in PeerType /\ s.c \in Surroundings
  BY DEF Ok, StateType
<1>2. PICK n \in Nat, w \in Nat, e \in Nat, a \in Nat, g \in Nat :
        /\ s.pcb.rcv_nxt = isn + n /\ s.pcb.ann_wnd = w /\ e = n + w /\ a = s.peer.ack /\ g = s.peer.edge
        /\ n <= N + 1 /\ w <= Wnd /\ a <= n /\ g <= e
  <2>1. PICK n \in Int, w \in Int, a \in Int, g \in Int, h \in Int, v \in Int :
          n = Nxt(s.pcb) /\ w = s.pcb.ann_wnd /\ a = s.peer.ack /\ g = s.peer.edge /\ h = s.pcb.ann_edge - isn
          /\ v = s.pcb.rcv_wnd
    <3>1. /\ s.pcb.rcv_nxt \in Int /\ s.pcb.ann_wnd \in Int /\ s.pcb.rcv_wnd \in Int /\ s.pcb.ann_edge \in Int
          /\ s.peer.ack \in Int /\ s.peer.edge \in Int
      BY <1>1 DEF PcbType, PeerType
    <3>2. Nxt(s.pcb) \in Int /\ s.pcb.ann_edge - isn \in Int
      BY <3>1 DEF Nxt, Start
    <3> QED
      BY <3>1, <3>2
  <2>2. n \in 0..(N + 1) /\ v \in 0..Wnd /\ w \in 0..v /\ h \in 0..(n + w) /\ a \in 0..n /\ g \in 0..h
    BY <2>1 DEF Ok, Sound, Edges
  <2>3. s.pcb.rcv_nxt = isn + n
    BY <1>1, <2>1 DEF Nxt, PcbType, Start
  <2>4. n \in Nat /\ w \in Nat /\ n + w \in Nat /\ a \in Nat /\ g \in Nat /\ n <= N + 1 /\ w <= Wnd /\ a <= n /\ g <= n + w
    BY <2>2, Sizes
  <2> QED
    BY <2>1, <2>3, <2>4
<1>3. e <= N + Wnd + 1 /\ e \in 0..(N + Wnd + 1)
  BY <1>2, Sizes
<1>4. (s.pcb.rcv_nxt + s.pcb.ann_wnd) % M = isn + e
  <2>1. s.pcb.rcv_nxt + s.pcb.ann_wnd = isn + e
    BY <1>2 DEF Start
  <2> QED
    BY <1>3, <2>1, Positions
<1>5. Ahead(a, isn + n) = n /\ Ahead(g, isn + e) = e
  BY <1>2, <1>3, AheadReaches, Sizes
<1>6. t.pcb = [s.pcb EXCEPT !.ack_delay = FALSE, !.ack_now = FALSE, !.ann_edge = isn + e]
      /\ t.app = s.app /\ t.data = s.data /\ t.got_fin = s.got_fin /\ t.c = s.c
      /\ (t.peer = s.peer \/ t.peer = [ack |-> n, edge |-> e])
  <2>1. CASE s.c.lost
    BY <1>1, <1>4, <2>1 DEF tcp_send_empty_ack, StateType, PcbType
  <2>2. CASE ~s.c.lost
    BY <1>1, <1>2, <1>4, <1>5, <2>2 DEF tcp_send_empty_ack, StateType, PcbType, PeerType
  <2> QED
    BY <2>1, <2>2
<1>7. t \in StateType
  <2>1. t.pcb \in PcbType
    <3>1. isn + e \in Int
      BY <1>2 DEF Start
    <3> QED
      BY <1>1, <1>6, <3>1 DEF PcbType
  <2>2. t.peer \in PeerType
    BY <1>1, <1>2, <1>6 DEF PeerType
  <2>3. DOMAIN t = DOMAIN s
    BY <1>1 DEF tcp_send_empty_ack, StateType
  <2> QED
    BY <1>1, <1>6, <2>1, <2>2, <2>3 DEF StateType, tcp_send_empty_ack
<1>8. /\ t.pcb.rcv_nxt = s.pcb.rcv_nxt /\ t.pcb.rcv_wnd = s.pcb.rcv_wnd
      /\ t.pcb.ooseq = s.pcb.ooseq /\ t.pcb.state = s.pcb.state /\ t.pcb.refused = s.pcb.refused
      /\ t.pcb.ann_wnd = s.pcb.ann_wnd /\ t.pcb.ann_edge = isn + e
  BY <1>1, <1>6 DEF PcbType
<1>9. Edges(t.pcb, t.peer)
  <2>1. t.peer.ack \in 0..n /\ t.peer.edge \in 0..e
    BY <1>2, <1>6
  <2>2. Nxt(t.pcb) = n /\ Nxt(s.pcb) = n /\ t.pcb.ann_edge - isn = e
    BY <1>2, <1>8 DEF Nxt, Start
  <2>3. s.pcb.rcv_wnd \in 0..Wnd /\ s.pcb.ann_wnd \in 0..s.pcb.rcv_wnd /\ Nxt(s.pcb) \in 0..(N + 1)
    BY DEF Ok, Sound, Edges
  <2> QED
    BY <1>2, <1>8, <2>1, <2>2, <2>3 DEF Edges
<1> QED
  <2>1. t.pcb \in PcbType /\ t.app \in AppType /\ t.peer \in PeerType
    BY <1>7 DEF StateType
  <2>2. /\ Stream(t.pcb, t.app, d, f) /\ Window(t.pcb, t.app, d, f) /\ Fins(t.pcb, t.app, d, f)
        /\ Queue(t.pcb.ooseq, Nxt(t.pcb), Nxt(t.pcb) + t.pcb.rcv_wnd)
        /\ d \in Seq(Int) /\ f \in BOOLEAN
    BY <1>6, <1>8 DEF Ok, Sound, Stream, Window, Fins, Nxt
  <2> QED
    BY <1>6, <1>7, <1>8, <1>9, <2>1, <2>2 DEF Ok, Sound, Kept

LEMMA OutputGood ==
  ASSUME Start, NEW s, NEW d, NEW f, Ok(s, d, f), NEW t, t = tcp_output(s)
  PROVE  Ok(t, d, f) /\ Kept(s, t)
<1>1. CASE s.pcb.ack_now
  BY <1>1, AckSent DEF tcp_output
<1>2. CASE ~s.pcb.ack_now
  BY <1>2 DEF tcp_output, Kept
<1> QED
  BY <1>1, <1>2

-----------------------------------------------------------------------------
(* The application *)

\* The window has not shrunk, and begins where it began.
Roomier(s, t) ==
  /\ t.pcb.rcv_nxt = s.pcb.rcv_nxt /\ s.pcb.rcv_wnd \in Int /\ t.pcb.rcv_wnd \in Int
  /\ s.pcb.rcv_wnd <= t.pcb.rcv_wnd

LEMMA RoomierMore ==
  ASSUME NEW s, NEW t, NEW u, Roomier(s, t), Roomier(t, u)
  PROVE  Roomier(s, u)
  BY DEF Roomier

LEMMA OkFacts ==
  ASSUME NEW s, NEW d, NEW f, Ok(s, d, f)
  PROVE  /\ s \in StateType /\ s.pcb \in PcbType /\ s.app \in AppType /\ s.peer \in PeerType
         /\ s.data \in Seq(Int) /\ s.got_fin \in BOOLEAN /\ s.c \in Surroundings
         /\ d \in Seq(Int) /\ Len(d) \in Nat /\ f \in BOOLEAN
         /\ s.pcb.refused \in RefusedType /\ s.pcb.refused.p \in Seq(Int) /\ s.app.got \in Seq(Int)
         /\ Len(s.app.got) \in Nat /\ Len(s.pcb.refused.p) \in Nat
         /\ s.pcb.rcv_wnd \in 0..Wnd /\ s.pcb.rcv_wnd \in Int /\ s.pcb.rcv_nxt \in Int
         /\ s.pcb.ann_edge \in Int /\ s.pcb.ann_wnd \in Int /\ s.app.unread \in Nat
<1>1. /\ s \in StateType /\ s.pcb \in PcbType /\ s.app \in AppType /\ s.peer \in PeerType
      /\ s.data \in Seq(Int) /\ s.got_fin \in BOOLEAN /\ s.c \in Surroundings
      /\ d \in Seq(Int) /\ f \in BOOLEAN /\ s.pcb.rcv_wnd \in 0..Wnd /\ s.app.unread \in Nat
  BY DEF Ok, StateType, Sound, Edges, Window
<1>2. /\ s.pcb.refused \in RefusedType /\ s.app.got \in Seq(Int) /\ s.pcb.rcv_nxt \in Int /\ s.pcb.rcv_wnd \in Int
      /\ s.pcb.ann_edge \in Int /\ s.pcb.ann_wnd \in Int
  BY <1>1 DEF PcbType, AppType
<1>3. s.pcb.refused.p \in Seq(Int)
  BY <1>2 DEF RefusedType
<1>4. Len(d) \in Nat /\ Len(s.app.got) \in Nat /\ Len(s.pcb.refused.p) \in Nat
  BY <1>1, <1>2, <1>3, LenNat, Zenon
<1> QED
  BY <1>1, <1>2, <1>3, <1>4, Zenon

LEMMA WindowFacts ==
  ASSUME NEW s, NEW d, NEW f, Ok(s, d, f)
  PROVE  /\ Len(d) \in Nat /\ Len(s.pcb.refused.p) \in Nat /\ s.pcb.rcv_wnd \in Nat /\ s.app.unread \in Nat
         /\ Int1(s.pcb.refused.fin) \in Nat /\ Int1(f) \in Nat
         /\ s.pcb.rcv_wnd + s.app.unread + Len(s.pcb.refused.p) + Int1(s.pcb.refused.fin)
              + Len(d) + Int1(f) = Wnd
<1>1. /\ Len(d) \in Nat /\ Len(s.pcb.refused.p) \in Nat /\ s.pcb.rcv_wnd \in Nat /\ s.app.unread \in Nat
  <2>1. /\ Len(d) \in Nat /\ Len(s.pcb.refused.p) \in Nat /\ s.pcb.rcv_wnd \in 0..Wnd
        /\ s.app.unread \in Nat
    BY OkFacts, Zenon
  <2> QED
    BY <2>1, Sizes
<1>2. Int1(s.pcb.refused.fin) \in Nat /\ Int1(f) \in Nat
  BY DEF Int1
<1> QED
  BY <1>1, <1>2 DEF Ok, Sound, Window

LEMMA QueueWider ==
  ASSUME Start, NEW q, NEW lo, NEW hi \in Int, NEW k \in Int, hi <= k, Queue(q, lo, hi)
  PROVE  Queue(q, lo, k)
<1>1. ASSUME NEW i \in 1..Len(q) PROVE To(q[i]) <= k
  <2>1. Good(q[i]) /\ To(q[i]) <= hi
    BY <1>1 DEF Queue
  <2>2. To(q[i]) \in Nat
    BY <2>1, GoodFacts DEF Good
  <2> QED
    BY <2>1, <2>2
<1> QED
  BY <1>1 DEF Queue

\* More window, all else but what is announced as it was.
Widened(p, n) == [p EXCEPT !.rcv_wnd = p.rcv_wnd + n]
Room(p, n) == n \in Nat /\ p.rcv_wnd + n <= Wnd
Proper(p, r) == p \in PcbType /\ Edges(p, r) /\ Queue(p.ooseq, Nxt(p), Nxt(p) + p.rcv_wnd)
Grown(p, n, t) ==
  /\ t.rcv_nxt = p.rcv_nxt /\ t.rcv_wnd = p.rcv_wnd + n /\ t.state = p.state
  /\ t.refused = p.refused

LEMMA EdgesGrow ==
  ASSUME Start, NEW p, NEW r, Proper(p, r), NEW n, Room(p, n), NEW v, v = Widened(p, n),
         NEW t, t = v \/ t = tcp_update_rcv_ann_wnd(v)
  PROVE  Proper(t, r) /\ Grown(p, n, t)
<1> USE DEF Widened
<1>0. p \in PcbType /\ Edges(p, r) /\ n \in Nat /\ p.rcv_wnd + n <= Wnd
  BY DEF Proper, Room
<1>1. PICK x \in Int, w \in Int, a \in Int, e \in Int : x = Nxt(p) /\ w = p.rcv_wnd /\ a = p.ann_wnd /\ e = p.ann_edge - isn
  <2>1. p.rcv_nxt \in Int /\ p.rcv_wnd \in Int /\ p.ann_wnd \in Int /\ p.ann_edge \in Int
    BY <1>0 DEF PcbType
  <2>2. Nxt(p) \in Int /\ p.ann_edge - isn \in Int
    BY <2>1 DEF Nxt, Start
  <2> QED
    BY <2>1, <2>2
<1>2. x \in 0..(N + 1) /\ w \in 0..Wnd /\ a \in 0..w /\ e \in 0..(x + a)
  BY <1>0, <1>1 DEF Edges
<1>3. /\ v \in PcbType /\ v.rcv_nxt = p.rcv_nxt /\ v.rcv_wnd = w + n /\ v.ann_wnd = a /\ v.ann_edge = p.ann_edge
      /\ v.ooseq = p.ooseq /\ v.state = p.state /\ v.refused = p.refused
  BY <1>0, <1>1 DEF PcbType
<1>4. Nxt(v) = x /\ v.ann_edge - isn = e
  BY <1>1, <1>3 DEF Nxt
<1>5. w + n \in 0..Wnd /\ a \in 0..(w + n) /\ e \in 0..(x + (w + n))
  BY <1>0, <1>1, <1>2
<1>6. /\ t \in PcbType /\ t.rcv_nxt = p.rcv_nxt /\ t.rcv_wnd = w + n /\ t.ann_edge = p.ann_edge
      /\ t.ooseq = p.ooseq /\ t.state = p.state /\ t.refused = p.refused
      /\ t.ann_wnd \in 0..(w + n) /\ e <= x + t.ann_wnd
  <2>1. CASE t = v
    BY <1>2, <1>3, <1>5, <2>1
  <2>2. CASE t = tcp_update_rcv_ann_wnd(v)
    <3>1. /\ t \in PcbType /\ t = [v EXCEPT !.ann_wnd = t.ann_wnd]
          /\ t.ann_wnd \in 0..v.rcv_wnd
          /\ v.ann_edge - isn <= Nxt(v) + t.ann_wnd
      BY <1>2, <1>3, <1>4, <1>5, <2>2, AnnouncedFits
    <3>2. /\ t.rcv_nxt = v.rcv_nxt /\ t.rcv_wnd = v.rcv_wnd /\ t.ann_edge = v.ann_edge
          /\ t.ooseq = v.ooseq /\ t.state = v.state /\ t.refused = v.refused
      BY <1>3, <3>1 DEF PcbType
    <3> QED
      BY <1>3, <1>4, <3>1, <3>2
  <2> QED
    BY <2>1, <2>2
<1>7. Nxt(t) = x /\ t.ann_edge - isn = e
  BY <1>1, <1>6 DEF Nxt
<1>8. Edges(t, r)
  <2>1. r.ack \in 0..x /\ r.edge \in 0..e
    BY <1>0, <1>1 DEF Edges
  <2>2. e \in 0..(x + t.ann_wnd)
    BY <1>2, <1>6
  <2> QED
    BY <1>2, <1>5, <1>6, <1>7, <2>1, <2>2 DEF Edges
<1>9. Queue(p.ooseq, x, x + (w + n))
  <2>1. Queue(p.ooseq, x, x + w)
    BY <1>1 DEF Proper
  <2>2. x + w \in Int /\ x + (w + n) \in Int /\ x + w <= x + (w + n)
    BY <1>0
  <2> QED
    BY <2>1, <2>2, QueueWider
<1> QED
  BY <1>1, <1>6, <1>7, <1>8, <1>9 DEF Proper, Grown

\* tcp_recved gives window back, at most what the application holds.
LEMMA RecvedGood ==
  ASSUME Start, NEW s, NEW d, NEW f, Ok(s, d, f), NEW n \in Nat, n <= s.app.unread,
         NEW t, t = tcp_recved(s, n)
  PROVE  /\ Ok(t, d, f) /\ t.data = s.data /\ t.got_fin = s.got_fin /\ t.c = s.c
         /\ t.pcb.refused = s.pcb.refused /\ Roomier(s, t)
<1>1. /\ s \in StateType /\ s.pcb \in PcbType /\ s.app \in AppType /\ s.peer \in PeerType
      /\ s.pcb.rcv_wnd \in Int /\ s.app.unread \in Nat
      /\ Len(d) \in Nat /\ Len(s.pcb.refused.p) \in Nat
  BY OkFacts
<1>w. /\ Len(d) \in Nat /\ Len(s.pcb.refused.p) \in Nat /\ s.pcb.rcv_wnd \in Nat /\ s.app.unread \in Nat
      /\ Int1(s.pcb.refused.fin) \in Nat /\ Int1(f) \in Nat
      /\ s.pcb.rcv_wnd + s.app.unread + Len(s.pcb.refused.p) + Int1(s.pcb.refused.fin)
           + Len(d) + Int1(f) = Wnd
  BY WindowFacts
<1>2. PICK w \in Nat, u \in Nat, b \in Nat, y \in Nat, l \in Nat, z \in Nat :
        /\ w = s.pcb.rcv_wnd /\ u = s.app.unread /\ b = Len(s.pcb.refused.p)
        /\ y = Int1(s.pcb.refused.fin) /\ l = Len(d) /\ z = Int1(f)
  BY <1>w
<1>2a. n <= u
  BY <1>1, <1>2
<1>2c. w + u + b + y + l + z = Wnd
  BY <1>2, <1>w
<1>3. w + n <= Wnd
  BY <1>2a, <1>2c, Sizes
<1>4. Least(w + n, Wnd) = w + n
  BY <1>3, Sizes DEF Least
<1>5. PICK v : v = [s.pcb EXCEPT !.rcv_wnd = s.pcb.rcv_wnd + n]
  OBVIOUS
<1>6. [s.pcb EXCEPT !.rcv_wnd = Least(@ + n, Wnd)] = v
  BY <1>2, <1>4, <1>5
<1>7. PICK p, a : p = tcp_update_rcv_ann_wnd(v) /\ a = [s.app EXCEPT !.unread = @ - n]
  OBVIOUS
<1>8. PICK x : x = [s EXCEPT !.pcb = p, !.app.unread = @ - n]
  OBVIOUS
<1>9. t = x \/ t = tcp_ack_now(x)
  BY <1>6, <1>7, <1>8 DEF tcp_recved
<1>10. /\ p \in PcbType /\ Edges(p, s.peer) /\ Queue(p.ooseq, Nxt(p), Nxt(p) + p.rcv_wnd)
       /\ p.rcv_nxt = s.pcb.rcv_nxt /\ p.rcv_wnd = w + n /\ p.state = s.pcb.state
       /\ p.refused = s.pcb.refused
  <2>1. Edges(s.pcb, s.peer) /\ Queue(s.pcb.ooseq, Nxt(s.pcb), Nxt(s.pcb) + s.pcb.rcv_wnd)
    BY DEF Ok, Sound
  <2> QED
    <3>1. s.pcb.rcv_wnd + n <= Wnd
      BY <1>2, <1>3
    <3>2. /\ p \in PcbType /\ Edges(p, s.peer) /\ Queue(p.ooseq, Nxt(p), Nxt(p) + p.rcv_wnd)
          /\ p.rcv_nxt = s.pcb.rcv_nxt /\ p.rcv_wnd = s.pcb.rcv_wnd + n /\ p.state = s.pcb.state
          /\ p.refused = s.pcb.refused
      <4>1. Proper(s.pcb, s.peer)
        BY <1>1, <2>1 DEF Proper
      <4>2. Room(s.pcb, n) /\ v = Widened(s.pcb, n)
        BY <1>5, <3>1 DEF Room, Widened
      <4>3. p = v \/ p = tcp_update_rcv_ann_wnd(v)
        BY <1>7
      <4>4. Proper(p, s.peer) /\ Grown(s.pcb, n, p)
        BY <4>1, <4>2, <4>3, EdgesGrow
      <4> QED
        BY <4>4 DEF Proper, Grown
    <3> QED
      BY <1>2, <3>2
<1>11. a \in AppType /\ a.got = s.app.got /\ a.eof = s.app.eof /\ a.unread = u - n /\ u - n \in Nat
  <2>1. u - n \in Nat
    BY <1>2a
  <2>2. a = [s.app EXCEPT !.unread = u - n]
    BY <1>1, <1>2, <1>7 DEF AppType
  <2>3. PICK h \in Int : h = u - n
    OBVIOUS
  <2>4. a \in AppType /\ a.got = s.app.got /\ a.eof = s.app.eof /\ a.unread = h
    BY <1>1, <2>2, <2>3 DEF AppType
  <2> QED
    BY <2>1, <2>3, <2>4
<1>12. /\ x \in StateType /\ x.pcb = p /\ x.app = a /\ x.peer = s.peer
       /\ x.data = s.data /\ x.got_fin = s.got_fin /\ x.c = s.c
  BY <1>1, <1>7, <1>8, <1>10, <1>11 DEF StateType
<1>13. Sound(p, a, s.peer, d, f)
  <2>1. Stream(p, a, d, f) /\ Fins(p, a, d, f) /\ d \in Seq(Int) /\ f \in BOOLEAN
    BY <1>10, <1>11 DEF Ok, Sound, Stream, Fins, Nxt
  <2>2. Window(p, a, d, f)
    <3>1. (w + n) + (u - n) + b + y + l + z = Wnd
      BY <1>2c
    <3> QED
      BY <1>2, <1>10, <1>11, <3>1 DEF Window
  <2> QED
    BY <1>1, <1>10, <1>11, <2>1, <2>2 DEF Sound
<1>14. Ok(x, d, f)
  BY <1>12, <1>13 DEF Ok
<1>14a. Roomier(s, x)
  BY <1>2, <1>10, <1>12 DEF Roomier
<1>15. CASE t = x
  BY <1>10, <1>12, <1>14, <1>14a, <1>15
<1>16. CASE t = tcp_ack_now(x)
  <2>1. Ok(t, d, f) /\ Kept(x, t)
    BY <1>14, <1>16, AckNow
  <2>2. Roomier(s, t)
    BY <1>14a, <2>1 DEF Kept, Roomier
  <2> QED
    BY <1>10, <1>12, <2>1, <2>2 DEF Kept
<1> QED
  BY <1>9, <1>15, <1>16

\* The callback takes the data that comes next in the stream.
LEMMA EventRecvGood ==
  ASSUME Start, NEW s, NEW d, NEW f, Ok(s, d, f), ~s.pcb.refused.held, s.app.eof => d = <<>>,
         NEW t, t = EventRecv(s, d)
  PROVE  /\ Ok(t, <<>>, f) /\ t.data = s.data /\ t.got_fin = s.got_fin /\ t.c = s.c
         /\ ~t.pcb.refused.held /\ Roomier(s, t)
<1>1. /\ s \in StateType /\ s.pcb \in PcbType /\ s.app \in AppType /\ s.peer \in PeerType
      /\ s.pcb.rcv_wnd \in Int /\ s.app.unread \in Nat /\ d \in Seq(Int)
      /\ Len(d) \in Nat /\ Len(s.app.got) \in Nat /\ s.app.got \in Seq(Int)
  BY OkFacts
<1>2. PICK a : a = [s.app EXCEPT !.got = @ \o d, !.unread = @ + Len(d)]
  OBVIOUS
<1>3. PICK x : x = [s EXCEPT !.app.got = @ \o d, !.app.unread = @ + Len(d)]
  OBVIOUS
<1>4. t = IF s.c.reads THEN tcp_recved(x, Len(d)) ELSE x
  BY <1>3 DEF EventRecv
<1>5. s.app.got \o d \in Seq(Int) /\ Len(s.app.got \o d) = Len(s.app.got) + Len(d)
  BY <1>1
<1>6. PICK g \in Seq(Int) : g = s.app.got \o d
  BY <1>5
<1>7. a \in AppType /\ a.got = g /\ a.eof = s.app.eof /\ a.unread = s.app.unread + Len(d) /\ a.unread \in Nat
  <2>1. PICK u \in Nat, v \in Nat : u = s.app.unread /\ v = u + Len(d)
    <3>1. s.app.unread + Len(d) \in Nat
      BY <1>1
    <3> QED
      BY <1>1, <3>1
  <2>2. a = [s.app EXCEPT !.got = g, !.unread = v]
    BY <1>1, <1>2, <1>6, <2>1 DEF AppType
  <2>3. v \in Int
    OBVIOUS
  <2>4. a \in AppType /\ a.got = g /\ a.eof = s.app.eof /\ a.unread = v
    BY <1>1, <2>2, <2>3 DEF AppType
  <2> QED
    BY <2>1, <2>4
<1>8. /\ x \in StateType /\ x.pcb = s.pcb /\ x.app = a /\ x.peer = s.peer
      /\ x.data = s.data /\ x.got_fin = s.got_fin /\ x.c = s.c
  BY <1>1, <1>2, <1>3, <1>7 DEF StateType
<1>9. s.pcb.refused = NoRefused /\ s.pcb.refused.p = <<>> /\ Len(s.pcb.refused.p) = 0 /\ ~s.pcb.refused.fin
  BY DEF Ok, Sound, Fins, NoRefused
<1>10. Stream(s.pcb, a, <<>>, f)
  <2>1. /\ s.app.got = Run(0, Len(s.app.got))
        /\ d = Run(Len(s.app.got), Len(d))
        /\ Nxt(s.pcb) = Len(s.app.got) + Len(d) + Int1(s.pcb.state = "CLOSE_WAIT")
    BY <1>1, <1>9 DEF Ok, Sound, Stream
  <2>2. PICK m \in Nat, k \in Nat, l \in Nat : m = Len(s.app.got) /\ k = Len(d) /\ l = m + k
    <3>1. Len(s.app.got) + Len(d) \in Nat
      BY <1>1
    <3> QED
      BY <1>1, <3>1
  <2>3. Run(0, m) \o Run(m, k) = Run(0, l)
    <3>1. PICK o \in Int : o = 0
      OBVIOUS
    <3>2. m \in Int /\ l \in Int /\ m = o + m /\ l = m + k
      BY <2>2, <3>1
    <3>3. Cat(Run(o, m), Run(m, k)) = Run(o, l)
      BY <3>2, RunCat
    <3> QED
      BY <3>1, <3>3 DEF Cat
  <2>4. g = Run(0, l) /\ Len(g) = l
    BY <1>5, <1>6, <2>1, <2>2, <2>3
  <2>5. <<>> = Run(Len(g), 0) /\ <<>> = Run(Len(g) + 0, 0)
    BY <2>4, RunLen
  <2> QED
    <3>1. a.got = Run(0, Len(a.got)) /\ s.pcb.refused.p = Run(Len(a.got), Len(s.pcb.refused.p))
      BY <1>7, <1>9, <2>4, <2>5
    <3>2. <<>> = Run(Len(a.got) + Len(s.pcb.refused.p), Len(<<>>)) /\ Len(<<>>) = 0
      BY <1>7, <1>9, <2>5
    <3>3. Int1(s.pcb.state = "CLOSE_WAIT") \in Nat
      BY DEF Int1
    <3>4. Nxt(s.pcb) = Len(a.got) + Len(s.pcb.refused.p) + Len(<<>>) + Int1(s.pcb.state = "CLOSE_WAIT")
      BY <1>7, <1>9, <2>1, <2>2, <2>4, <3>2, <3>3
    <3> QED
      BY <3>1, <3>2, <3>4 DEF Stream
<1>11. Window(s.pcb, a, <<>>, f)
  BY <1>1, <1>7, <1>9 DEF Ok, Sound, Window, Int1
<1>12. Fins(s.pcb, a, <<>>, f)
  BY <1>7 DEF Ok, Sound, Fins
<1>13. Ok(x, <<>>, f)
  BY <1>7, <1>8, <1>10, <1>11, <1>12 DEF Ok, Sound
<1>14. CASE s.c.reads
  <2>1. PICK n \in Nat : n = Len(d)
    BY <1>1
  <2>2. n <= x.app.unread
    BY <1>1, <1>7, <1>8, <2>1
  <2>3. t = tcp_recved(x, n)
    BY <1>4, <1>14, <2>1
  <2>4. /\ Ok(t, <<>>, f) /\ t.data = x.data /\ t.got_fin = x.got_fin /\ t.c = x.c
        /\ t.pcb.refused = x.pcb.refused /\ Roomier(x, t)
    BY <1>13, <2>2, <2>3, RecvedGood
  <2> QED
    BY <1>8, <2>4 DEF Roomier
<1>15. CASE ~s.c.reads
  BY <1>1, <1>4, <1>8, <1>13, <1>15 DEF Roomier
<1> QED
  BY <1>14, <1>15

\* The application is told of the FIN.
LEMMA EventClosedGood ==
  ASSUME Start, NEW s, Ok(s, <<>>, TRUE), ~s.pcb.refused.held, NEW t, t = EventClosed(s)
  PROVE  Ok(t, <<>>, FALSE) /\ Roomier(s, t)
<1>1. /\ s \in StateType /\ s.pcb \in PcbType /\ s.app \in AppType /\ s.peer \in PeerType
      /\ s.pcb.rcv_wnd \in Int /\ s.app.unread \in Nat
      /\ Len(s.pcb.refused.p) \in Nat
  BY OkFacts
<1>w. /\ Len(<<>>) \in Nat /\ Len(s.pcb.refused.p) \in Nat /\ s.pcb.rcv_wnd \in Nat /\ s.app.unread \in Nat
      /\ Int1(s.pcb.refused.fin) \in Nat /\ Int1(TRUE) \in Nat
      /\ s.pcb.rcv_wnd + s.app.unread + Len(s.pcb.refused.p) + Int1(s.pcb.refused.fin)
           + Len(<<>>) + Int1(TRUE) = Wnd
  BY WindowFacts
<1>2. PICK w \in Nat, u \in Nat, b \in Nat, y \in Nat, l \in Nat, z \in Nat :
        /\ w = s.pcb.rcv_wnd /\ u = s.app.unread /\ b = Len(s.pcb.refused.p)
        /\ y = Int1(s.pcb.refused.fin) /\ l = Len(<<>>) /\ z = Int1(TRUE)
  BY <1>w
<1>2a. s.pcb.refused = NoRefused /\ s.pcb.refused.p = <<>> /\ ~s.pcb.refused.fin
  BY DEF Ok, Sound, Fins, NoRefused
<1>2b. w + u + 1 = Wnd
  <2>1. y = 0 /\ z = 1 /\ b = 0 /\ l = 0
    BY <1>2, <1>2a DEF Int1
  <2>2. w + u + b + y + l + z = Wnd
    BY <1>2, <1>w
  <2> QED
    BY <2>1, <2>2
<1>3. w + 1 <= Wnd
  BY <1>2b, Sizes
<1>4. Least(w + 1, Wnd) = w + 1
  BY <1>3, Sizes DEF Least
<1>5. PICK p, a : p = [s.pcb EXCEPT !.rcv_wnd = s.pcb.rcv_wnd + 1] /\ a = [s.app EXCEPT !.eof = TRUE]
  OBVIOUS
<1>6. t = [s EXCEPT !.pcb = p, !.app = a]
  BY <1>1, <1>2, <1>4, <1>5 DEF EventClosed, StateType
<1>7. /\ p \in PcbType /\ Edges(p, s.peer) /\ Queue(p.ooseq, Nxt(p), Nxt(p) + p.rcv_wnd)
      /\ p.rcv_nxt = s.pcb.rcv_nxt /\ p.rcv_wnd = w + 1 /\ p.state = s.pcb.state
      /\ p.refused = s.pcb.refused
  <2>1. Edges(s.pcb, s.peer) /\ Queue(s.pcb.ooseq, Nxt(s.pcb), Nxt(s.pcb) + s.pcb.rcv_wnd)
    BY DEF Ok, Sound
  <2>2. PICK n \in Nat : n = 1
    OBVIOUS
  <2>3. s.pcb.rcv_wnd + n <= Wnd /\ p = [s.pcb EXCEPT !.rcv_wnd = s.pcb.rcv_wnd + n]
    BY <1>2, <1>3, <1>5, <2>2
  <2>4. /\ p \in PcbType /\ Edges(p, s.peer) /\ Queue(p.ooseq, Nxt(p), Nxt(p) + p.rcv_wnd)
        /\ p.rcv_nxt = s.pcb.rcv_nxt /\ p.rcv_wnd = s.pcb.rcv_wnd + n /\ p.state = s.pcb.state
        /\ p.refused = s.pcb.refused
    <3>1. Proper(s.pcb, s.peer)
      BY <1>1, <2>1 DEF Proper
    <3>2. Room(s.pcb, n)
      BY <2>3 DEF Room
    <3>3. p = Widened(s.pcb, n)
      BY <2>3 DEF Widened
    <3>4. Proper(p, s.peer) /\ Grown(s.pcb, n, p)
      BY <3>1, <3>2, <3>3, EdgesGrow
    <3> QED
      BY <3>4 DEF Proper, Grown
  <2> QED
    BY <1>2, <2>2, <2>4
<1>8. a \in AppType /\ a.got = s.app.got /\ a.eof = TRUE /\ a.unread = s.app.unread
  BY <1>1, <1>5 DEF AppType
<1>9. t \in StateType /\ t.pcb = p /\ t.app = a /\ t.peer = s.peer
  BY <1>1, <1>6, <1>7, <1>8 DEF StateType
<1>11. Stream(p, a, <<>>, FALSE)
  BY <1>7, <1>8 DEF Ok, Sound, Stream, Nxt
<1>12. Window(p, a, <<>>, FALSE)
  BY <1>1, <1>2, <1>2a, <1>2b, <1>7, <1>8 DEF Window, Int1
<1>13. Fins(p, a, <<>>, FALSE)
  BY <1>7, <1>8, <1>2a DEF Ok, Sound, Fins, Nxt
<1>14. Roomier(s, t)
  BY <1>2, <1>7, <1>9 DEF Roomier
<1> QED
  BY <1>1, <1>7, <1>8, <1>9, <1>11, <1>12, <1>13, <1>14 DEF Ok, Sound

\* Refused data is offered again, and the FIN behind it.
LEMMA TakesRefusedGood ==
  ASSUME Start, NEW s, Ok(s, <<>>, FALSE), s.pcb.refused.held, NEW t, t = TakesRefused(s)
  PROVE  /\ Ok(t, <<>>, s.pcb.refused.fin) /\ ~t.pcb.refused.held /\ Roomier(s, t)
         /\ t.data = s.data /\ t.got_fin = s.got_fin /\ t.c = s.c
<1>1. /\ s \in StateType /\ s.pcb \in PcbType /\ s.app \in AppType /\ s.peer \in PeerType
      /\ s.pcb.refused \in RefusedType /\ s.pcb.refused.p \in Seq(Int)
      /\ Len(s.app.got) \in Nat /\ Len(s.pcb.refused.p) \in Nat
  BY OkFacts
<1>2. PICK d, f, x, y : /\ d = s.pcb.refused.p /\ f = s.pcb.refused.fin
                        /\ x = [s EXCEPT !.pcb.refused = NoRefused] /\ y = EventRecv(x, d)
  OBVIOUS
<1>3. t = tcp_output(y)
  BY <1>2 DEF TakesRefused, Given
<1>4. PICK p : p = [s.pcb EXCEPT !.refused = NoRefused]
  OBVIOUS
<1>5. /\ NoRefused \in RefusedType /\ ~NoRefused.held /\ NoRefused.p = <<>> /\ ~NoRefused.fin
      /\ Len(NoRefused.p) = 0
  BY DEF NoRefused, RefusedType
<1>6. /\ p \in PcbType /\ p.refused = NoRefused /\ p.rcv_nxt = s.pcb.rcv_nxt /\ p.rcv_wnd = s.pcb.rcv_wnd
      /\ p.ann_wnd = s.pcb.ann_wnd /\ p.ann_edge = s.pcb.ann_edge
      /\ p.ooseq = s.pcb.ooseq /\ p.state = s.pcb.state
  BY <1>1, <1>4, <1>5 DEF PcbType
<1>7. /\ x \in StateType /\ x.pcb = p /\ x.app = s.app /\ x.peer = s.peer
      /\ x.data = s.data /\ x.got_fin = s.got_fin /\ x.c = s.c
  BY <1>1, <1>2, <1>4, <1>6 DEF StateType
<1>8. d \in Seq(Int) /\ f \in BOOLEAN /\ Len(d) \in Nat
  BY <1>1, <1>2 DEF RefusedType
<1>9. ~s.app.eof
  BY DEF Ok, Sound, Fins
<1>10. Stream(p, s.app, d, f)
  <2>1. /\ s.app.got = Run(0, Len(s.app.got)) /\ d = Run(Len(s.app.got), Len(d))
        /\ Nxt(s.pcb) = Len(s.app.got) + Len(d) + Len(<<>>) + Int1(s.pcb.state = "CLOSE_WAIT")
    BY <1>2 DEF Ok, Sound, Stream
  <2>2. PICK g \in Nat, l \in Nat, i \in Nat : g = Len(s.app.got) /\ l = Len(d) /\ i = Int1(s.pcb.state = "CLOSE_WAIT")
    <3>1. Int1(s.pcb.state = "CLOSE_WAIT") \in Nat
      BY DEF Int1
    <3> QED
      BY <1>1, <1>8, <3>1
  <2>3. <<>> = Run(g, 0)
    BY RunLen
  <2>4. g + 0 = g /\ g + l + 0 + i = g + 0 + l + i
    OBVIOUS
  <2> QED
    BY <1>5, <1>6, <2>1, <2>2, <2>3, <2>4 DEF Stream, Nxt
<1>11. Window(p, s.app, d, f)
  <2>1. /\ Len(<<>>) \in Nat /\ Len(s.pcb.refused.p) \in Nat /\ s.pcb.rcv_wnd \in Nat /\ s.app.unread \in Nat
        /\ Int1(s.pcb.refused.fin) \in Nat /\ Int1(FALSE) \in Nat
        /\ s.pcb.rcv_wnd + s.app.unread + Len(s.pcb.refused.p) + Int1(s.pcb.refused.fin)
             + Len(<<>>) + Int1(FALSE) = Wnd
    BY WindowFacts
  <2>2. PICK w \in Nat, u \in Nat, l \in Nat, z \in Nat :
          w = s.pcb.rcv_wnd /\ u = s.app.unread /\ l = Len(d) /\ z = Int1(f)
    BY <1>2, <2>1
  <2>3. w + u + l + z + 0 + 0 = Wnd
    BY <1>2, <2>1, <2>2 DEF Int1
  <2>4. w + u + 0 + 0 + l + z = Wnd
    BY <2>3
  <2>5. Int1(p.refused.fin) = 0
    BY <1>5, <1>6 DEF Int1
  <2> QED
    BY <1>5, <1>6, <2>2, <2>4, <2>5 DEF Window
<1>12. Fins(p, s.app, d, f)
  BY <1>2, <1>5, <1>6, <1>9 DEF Ok, Sound, Fins, Nxt
<1>13. Ok(x, d, f)
  BY <1>1, <1>6, <1>7, <1>8, <1>10, <1>11, <1>12 DEF Ok, Sound, Edges, Nxt
<1>14. /\ Ok(y, <<>>, f) /\ y.data = x.data /\ y.got_fin = x.got_fin /\ y.c = x.c
       /\ ~y.pcb.refused.held /\ Roomier(x, y)
  <2>1. ~x.pcb.refused.held /\ (x.app.eof => d = <<>>)
    BY <1>5, <1>6, <1>7, <1>9
  <2>2. y = EventRecv(x, d)
    BY <1>2
  <2> QED
    BY <1>13, <2>1, <2>2, EventRecvGood
<1>15. Ok(t, <<>>, f) /\ Kept(y, t)
  BY <1>3, <1>14, OutputGood
<1>16. Roomier(s, t)
  BY <1>6, <1>7, <1>14, <1>15 DEF Kept, Roomier
<1> QED
  BY <1>2, <1>7, <1>14, <1>15, <1>16 DEF Kept

LEMMA RefusedGood ==
  ASSUME Start, NEW s, Ok(s, <<>>, FALSE), s.pcb.refused.held, NEW t, t = tcp_process_refused_data(s)
  PROVE  /\ Ok(t, <<>>, FALSE) /\ t.data = s.data /\ t.got_fin = s.got_fin /\ t.c = s.c
         /\ Roomier(s, t)
<1>1. CASE ~s.c.takes
  <2>1. t = s
    BY <1>1 DEF tcp_process_refused_data
  <2>2. s.pcb.rcv_wnd \in Int
    BY OkFacts
  <2>3. Roomier(s, t)
    BY <2>1, <2>2 DEF Roomier
  <2> QED
    BY <2>1, <2>3
<1>2. CASE s.c.takes
  <2>1. PICK x : x = TakesRefused(s)
    OBVIOUS
  <2>2. /\ Ok(x, <<>>, s.pcb.refused.fin) /\ ~x.pcb.refused.held /\ Roomier(s, x)
        /\ x.data = s.data /\ x.got_fin = s.got_fin /\ x.c = s.c
    BY <2>1, TakesRefusedGood
  <2>3. s.pcb.refused.fin \in BOOLEAN
    BY <2>2 DEF Ok, Sound
  <2>4. CASE s.pcb.refused.fin
    <3>1. Ok(x, <<>>, TRUE)
      BY <2>2, <2>3, <2>4
    <3>2. t = EventClosed(x)
      BY <1>2, <2>1, <2>4 DEF tcp_process_refused_data, Given
    <3>3. t.data = x.data /\ t.got_fin = x.got_fin /\ t.c = x.c
      BY <2>2, <3>2, OkFacts DEF EventClosed, StateType
    <3> QED
      BY <2>2, <3>1, <3>2, <3>3, EventClosedGood, RoomierMore
  <2>5. CASE ~s.pcb.refused.fin
    <3>1. Ok(x, <<>>, FALSE)
      BY <2>2, <2>3, <2>5
    <3> QED
      BY <1>2, <2>1, <2>2, <2>5, <3>1 DEF tcp_process_refused_data
  <2> QED
    BY <2>4, <2>5
<1> QED
  BY <1>1, <1>2

\* What tcp_receive leaves is handed on.
LEMMA GotFinGood ==
  ASSUME NEW s, Ok(s, s.data, s.got_fin), NEW t, t = GotFin(s)
  PROVE  Ok(t, t.data, t.got_fin)
<1>1. CASE s.got_fin
  <2>1. PICK x : x = tcp_ack_now(s)
    OBVIOUS
  <2>2. Ok(x, s.data, s.got_fin) /\ Kept(s, x)
    BY <2>1, AckNow
  <2>3. x.pcb.state = "CLOSE_WAIT" /\ x \in StateType /\ x.pcb \in PcbType
    BY <1>1, <2>2, OkFacts DEF Ok, Sound, Fins, Kept
  <2>4. t = [x EXCEPT !.pcb.state = "CLOSE_WAIT"]
    BY <1>1, <2>1 DEF GotFin
  <2>5. t = x
    BY <2>3, <2>4 DEF StateType, PcbType
  <2> QED
    BY <2>2, <2>5 DEF Kept
<1>2. CASE ~s.got_fin
  BY <1>2 DEF GotFin
<1> QED
  BY <1>1, <1>2

LEMMA OfferedGood ==
  ASSUME Start, NEW s, Ok(s, s.data, s.got_fin), NEW t, t = Offered(s)
  PROVE  Ok(t, <<>>, t.got_fin)
<1>1. CASE s.data = <<>>
  BY <1>1 DEF Offered
<1>2. CASE s.data # <<>>
  <2>1. /\ s \in StateType /\ s.pcb \in PcbType /\ s.app \in AppType /\ s.peer \in PeerType
        /\ s.data \in Seq(Int) /\ s.got_fin \in BOOLEAN /\ Len(s.data) \in Nat
        /\ Len(s.app.got) \in Nat
    BY OkFacts
  <2>2. /\ ~s.pcb.refused.held /\ ~s.app.eof /\ s.pcb.refused = NoRefused
        /\ s.pcb.refused.p = <<>> /\ ~s.pcb.refused.fin
    BY <1>2 DEF Ok, Sound, Fins, NoRefused
  <2>3. CASE s.c.takes
    <3>1. PICK d, f : d = s.data /\ f = s.got_fin
      OBVIOUS
    <3>2. t = EventRecv(s, d) /\ Ok(s, d, f) /\ (s.app.eof => d = <<>>)
      BY <1>2, <2>2, <2>3, <3>1 DEF Offered
    <3>3. /\ Ok(t, <<>>, f) /\ t.got_fin = s.got_fin
      BY <2>2, <3>2, EventRecvGood
    <3> QED
      BY <3>1, <3>3
  <2>4. CASE ~s.c.takes
    <3>1. PICK r, p : r = [held |-> TRUE, p |-> s.data, fin |-> FALSE] /\ p = [s.pcb EXCEPT !.refused = r]
      OBVIOUS
    <3>2. t = [s EXCEPT !.pcb.refused = r]
      BY <1>2, <2>4, <3>1 DEF Offered
    <3>3. r \in RefusedType /\ r.held /\ r.p = s.data /\ ~r.fin /\ r.fin \in BOOLEAN
      BY <2>1, <3>1 DEF RefusedType
    <3>4. /\ p \in PcbType /\ p.refused = r /\ p.rcv_nxt = s.pcb.rcv_nxt /\ p.rcv_wnd = s.pcb.rcv_wnd
          /\ p.ann_wnd = s.pcb.ann_wnd /\ p.ann_edge = s.pcb.ann_edge
          /\ p.ooseq = s.pcb.ooseq /\ p.state = s.pcb.state
      BY <2>1, <3>1, <3>3 DEF PcbType
    <3>5. t \in StateType /\ t.pcb = p /\ t.app = s.app /\ t.peer = s.peer /\ t.got_fin = s.got_fin
      BY <2>1, <3>1, <3>2, <3>4 DEF StateType
    <3>6. Stream(p, s.app, <<>>, s.got_fin)
      <4>1. PICK g \in Nat, l \in Nat, i \in Nat :
              g = Len(s.app.got) /\ l = Len(s.data) /\ i = Int1(s.pcb.state = "CLOSE_WAIT")
        <5>1. Int1(s.pcb.state = "CLOSE_WAIT") \in Nat
          BY DEF Int1
        <5> QED
          BY <2>1, <5>1
      <4>2. /\ s.app.got = Run(0, g) /\ s.data = Run(g + 0, l)
            /\ Nxt(s.pcb) = g + 0 + l + i
        BY <2>2, <4>1 DEF Ok, Sound, Stream
      <4>3. <<>> = Run(g + l, 0)
        BY RunLen
      <4>4. g + 0 = g /\ g + 0 + l + i = g + l + 0 + i
        OBVIOUS
      <4> QED
        BY <3>3, <3>4, <4>1, <4>2, <4>3, <4>4 DEF Stream, Nxt
    <3>7. Window(p, s.app, <<>>, s.got_fin)
      <4>1. /\ Len(s.data) \in Nat /\ Len(s.pcb.refused.p) \in Nat /\ s.pcb.rcv_wnd \in Nat /\ s.app.unread \in Nat
            /\ Int1(s.pcb.refused.fin) \in Nat /\ Int1(s.got_fin) \in Nat
            /\ s.pcb.rcv_wnd + s.app.unread + Len(s.pcb.refused.p) + Int1(s.pcb.refused.fin)
                 + Len(s.data) + Int1(s.got_fin) = Wnd
        BY WindowFacts
      <4>2. PICK w \in Nat, u \in Nat, l \in Nat, z \in Nat :
              w = s.pcb.rcv_wnd /\ u = s.app.unread /\ l = Len(s.data) /\ z = Int1(s.got_fin)
        BY <4>1
      <4>3. Int1(s.pcb.refused.fin) = 0 /\ Len(s.pcb.refused.p) = 0 /\ Int1(p.refused.fin) = 0
        BY <2>2, <3>3, <3>4 DEF Int1
      <4>4. w + u + 0 + 0 + l + z = Wnd
        BY <4>1, <4>2, <4>3
      <4>5. w + u + l + 0 + 0 + z = Wnd
        BY <4>4
      <4> QED
        BY <3>3, <3>4, <4>2, <4>3, <4>5 DEF Window
    <3>8. Fins(p, s.app, <<>>, s.got_fin)
      BY <2>2, <3>3, <3>4 DEF Ok, Sound, Fins, Nxt
    <3> QED
      BY <2>1, <3>4, <3>5, <3>6, <3>7, <3>8 DEF Ok, Sound, Edges, Nxt
  <2> QED
    BY <2>3, <2>4
<1> QED
  BY <1>1, <1>2

LEMMA ClosedGood ==
  ASSUME Start, NEW s, Ok(s, <<>>, s.got_fin), NEW t, t = Closed(s)
  PROVE  Ok(t, <<>>, FALSE)
<1>0. s.got_fin \in BOOLEAN
  BY DEF Ok, Sound
<1>1. CASE ~s.got_fin
  <2>1. s.got_fin = FALSE
    BY <1>0, <1>1
  <2> QED
    BY <1>1, <2>1 DEF Closed
<1>2. CASE s.got_fin /\ ~s.pcb.refused.held
  <2>1. s.got_fin = TRUE
    BY <1>0, <1>2
  <2>2. t = EventClosed(s)
    BY <1>2 DEF Closed
  <2> QED
    BY <1>2, <2>1, <2>2, EventClosedGood
<1>3. CASE s.got_fin /\ s.pcb.refused.held
  <2>0. s.got_fin = TRUE
    BY <1>0, <1>3
  <2>1. /\ s \in StateType /\ s.pcb \in PcbType /\ s.app \in AppType /\ s.peer \in PeerType
        /\ s.pcb.refused \in RefusedType
    BY OkFacts
  <2>2. ~s.pcb.refused.fin /\ ~s.app.eof
    BY <1>3 DEF Ok, Sound, Fins
  <2>3. PICK r, p : r = [s.pcb.refused EXCEPT !.fin = TRUE] /\ p = [s.pcb EXCEPT !.refused = r]
    OBVIOUS
  <2>4. t = [s EXCEPT !.pcb = p]
    BY <1>3, <2>1, <2>3 DEF Closed, StateType, PcbType
  <2>5. r \in RefusedType /\ r.held = s.pcb.refused.held /\ r.p = s.pcb.refused.p /\ r.fin
    BY <2>1, <2>3 DEF RefusedType
  <2>6. /\ p \in PcbType /\ p.refused = r /\ p.rcv_nxt = s.pcb.rcv_nxt /\ p.rcv_wnd = s.pcb.rcv_wnd
        /\ p.ann_wnd = s.pcb.ann_wnd /\ p.ann_edge = s.pcb.ann_edge
        /\ p.ooseq = s.pcb.ooseq /\ p.state = s.pcb.state
    BY <2>1, <2>3, <2>5 DEF PcbType
  <2>7. t \in StateType /\ t.pcb = p /\ t.app = s.app /\ t.peer = s.peer
    BY <2>1, <2>4, <2>6 DEF StateType
  <2>8. Stream(p, s.app, <<>>, FALSE)
    BY <2>5, <2>6 DEF Ok, Sound, Stream, Nxt
  <2>9. Window(p, s.app, <<>>, FALSE)
    <3>1. /\ Len(<<>>) \in Nat /\ Len(s.pcb.refused.p) \in Nat /\ s.pcb.rcv_wnd \in Nat /\ s.app.unread \in Nat
          /\ s.pcb.rcv_wnd + s.app.unread + Len(s.pcb.refused.p) + Int1(s.pcb.refused.fin)
               + Len(<<>>) + Int1(s.got_fin) = Wnd
      BY WindowFacts
    <3>2. PICK w \in Nat, u \in Nat, l \in Nat : w = s.pcb.rcv_wnd /\ u = s.app.unread /\ l = Len(s.pcb.refused.p)
      BY <3>1
    <3>3. /\ Int1(s.pcb.refused.fin) = 0 /\ Int1(s.got_fin) = 1 /\ Int1(p.refused.fin) = 1 /\ Int1(FALSE) = 0
          /\ Len(<<>>) = 0
      BY <2>0, <2>2, <2>5, <2>6 DEF Int1
    <3>4. w + u + l + 0 + 0 + 1 = Wnd
      BY <3>1, <3>2, <3>3
    <3>5. w + u + l + 1 + 0 + 0 = Wnd
      BY <3>4
    <3> QED
      BY <2>5, <2>6, <3>1, <3>2, <3>3, <3>5 DEF Window
  <2>10. Fins(p, s.app, <<>>, FALSE)
    BY <1>3, <2>2, <2>5, <2>6 DEF Ok, Sound, Fins, Nxt
  <2> QED
    BY <2>1, <2>6, <2>7, <2>8, <2>9, <2>10 DEF Ok, Sound, Edges, Nxt
<1> QED
  BY <1>1, <1>2, <1>3

-----------------------------------------------------------------------------
(* tcp_receive *)

\* A segment ends inside the window, or is a probe of one byte from before it.
Fits(p, x) ==
  \/ To(x) <= Nxt(p) + p.rcv_wnd
  \/ From(x) <= Nxt(p) /\ To(x) = From(x) + 1

\* The limits of the window as numbers.
LEMMA OkLimits ==
  ASSUME Start, NEW s, NEW d, NEW f, Ok(s, d, f)
  PROVE  /\ Nxt(s.pcb) \in Nat /\ Nxt(s.pcb) <= N + 1 /\ s.pcb.rcv_nxt = isn + Nxt(s.pcb)
         /\ s.pcb.rcv_wnd \in Nat /\ s.pcb.rcv_wnd <= Wnd
         /\ Queue(s.pcb.ooseq, Nxt(s.pcb), Nxt(s.pcb) + s.pcb.rcv_wnd)
<1>1. s.pcb.rcv_nxt \in Int
  BY OkFacts
<1>2. Nxt(s.pcb) \in 0..(N + 1) /\ s.pcb.rcv_wnd \in 0..Wnd
  BY DEF Ok, Sound, Edges
<1>3. s.pcb.rcv_nxt = isn + Nxt(s.pcb)
  BY <1>1 DEF Nxt, Start
<1> QED
  BY <1>2, <1>3, Sizes DEF Ok, Sound

\* The front of a segment is cut at rcv_nxt.
LEMMA TrimFrontGood ==
  ASSUME Start, NEW p, NEW n \in Nat, p.rcv_nxt = isn + n, n <= N + 1, Nxt(p) = n,
         NEW seg, Good(seg), Fits(p, seg), NEW x, x = TrimFront(p, seg)
  PROVE  Good(x) /\ Fits(p, x)
<1>1. Fair(seg) /\ seg \in SegType /\ seg.p = Run(From(seg), seg.len)
  BY DEF Good, Fair
<1>2. PICK a \in Nat, l \in Nat, k \in Nat : a = From(seg) /\ l = seg.len /\ k = TCPLEN(seg)
  BY <1>1, GoodFacts
<1>3. /\ seg.seq = isn + a /\ k = l + Int1(seg.fin) /\ To(seg) = a + k /\ a + l <= N /\ k > 0
      /\ (seg.fin => a + l = N) /\ seg.fin \in BOOLEAN
  BY <1>1, <1>2, GoodFacts DEF Good
<1>4. TCP_SEQ_BETWEEN(p.rcv_nxt, seg.seq + 1, seg.seq + TCPLEN(seg) - 1) <=> a + 1 <= n /\ n <= a + k - 1
  <2>1. PICK u \in Int, v \in Int, w \in Int : u = isn + n /\ v = isn + a + 1 /\ w = isn + a + k - 1
    <3>1. isn + n \in Int /\ isn + a + 1 \in Int /\ isn + a + k - 1 \in Int
      BY DEF Start
    <3> QED
      BY <3>1
  <2>2. k <= l + 1
    BY <1>3 DEF Int1
  <2>3. TCP_SEQ_LEQ(v, u) <=> v <= u
    BY <1>3, <2>1, SeqOrder, Sizes DEF Start
  <2>4. TCP_SEQ_LEQ(u, w) <=> u <= w
    BY <1>3, <2>1, <2>2, SeqOrder, Sizes DEF Start
  <2>5. p.rcv_nxt = u /\ seg.seq + 1 = v /\ seg.seq + TCPLEN(seg) - 1 = w
    BY <1>2, <1>3, <2>1
  <2> QED
    BY <2>1, <2>3, <2>4, <2>5 DEF TCP_SEQ_BETWEEN, Start
<1>5. CASE ~(a + 1 <= n /\ n <= a + k - 1)
  BY <1>4, <1>5 DEF TrimFront
<1>6. CASE a + 1 <= n /\ n <= a + k - 1
  <2>1. PICK o \in Nat, m \in Nat : o = n - a /\ m = l - o /\ o <= l
    <3>1. n <= a + l
      BY <1>3, <1>6 DEF Int1
    <3>2. n - a \in Nat /\ l - (n - a) \in Nat /\ n - a <= l
      BY <1>6, <3>1
    <3> QED
      BY <3>2
  <2>2. (p.rcv_nxt - seg.seq) % M = o
    <3>1. p.rcv_nxt - seg.seq = o
      BY <1>3, <2>1 DEF Start
    <3>2. o % M = o
      BY <1>3, <2>1, ModSmall, Sizes
    <3> QED
      BY <3>1, <3>2
  <2>3. Len(seg.p) = l /\ seg.p = Run(a, l)
    <3>1. seg.p = Run(a, l)
      BY <1>1, <1>2
    <3>2. Len(Run(a, l)) = l
      BY RunLen
    <3> QED
      BY <3>1, <3>2
  <2>4. SubSeq(seg.p, o + 1, Len(seg.p)) = Run(n, m)
    <3>1. n \in Int /\ n = a + o /\ m = l - o
      BY <2>1
    <3>2. Behind(Run(a, l), o) = Run(n, m)
      BY <2>1, <3>1, RunBehind
    <3> QED
      BY <2>3, <3>2 DEF Behind
  <2>5. x = [seg EXCEPT !.seq = p.rcv_nxt, !.len = l - o, !.p = SubSeq(seg.p, o + 1, Len(seg.p))]
    BY <1>1, <1>2, <1>4, <1>6, <2>2 DEF TrimFront, SegType
  <2>6. x = [seq |-> isn + n, len |-> m, fin |-> seg.fin, p |-> Run(n, m)]
    BY <1>1, <2>1, <2>4, <2>5 DEF SegType
  <2>7. Run(n, m) \in Seq(Int) /\ isn + n \in Int /\ isn + n - isn = n
    BY RunLen DEF Start
  <2>8. x \in SegType /\ From(x) = n /\ x.len = m /\ x.p = Run(n, m) /\ x.fin = seg.fin
    <3>1. PICK q \in Int, r \in Seq(Int), g \in BOOLEAN : q = isn + n /\ r = Run(n, m) /\ g = seg.fin
      BY <1>3, <2>7
    <3>2. x = [seq |-> q, len |-> m, fin |-> g, p |-> r]
      BY <2>6, <3>1
    <3>3. x \in SegType /\ x.seq = q /\ x.len = m /\ x.p = r /\ x.fin = g
      BY <3>2 DEF SegType
    <3>4. From(x) = n
      BY <2>7, <3>1, <3>3 DEF From, Start
    <3> QED
      BY <3>1, <3>3, <3>4
  <2>9. n + m = a + l
    BY <2>1
  <2>10. Fair(x)
    BY <1>3, <2>8, <2>9 DEF Fair
  <2>11. PICK j \in Nat : j = Int1(seg.fin) /\ k = l + j
    BY <1>3 DEF Int1
  <2>12. TCPLEN(x) = m + j
    BY <2>8, <2>11 DEF TCPLEN, Int1
  <2>13. m + j > 0 /\ n + (m + j) = a + k
    BY <1>6, <2>1, <2>11
  <2>14. Good(x) /\ To(x) = To(seg)
    BY <1>3, <2>8, <2>10, <2>12, <2>13 DEF Good, To
  <2>15. To(seg) <= Nxt(p) + p.rcv_wnd
    <3>1. ~(From(seg) <= Nxt(p) /\ To(seg) = From(seg) + 1)
      BY <1>2, <1>3, <1>6
    <3> QED
      BY <3>1 DEF Fits
  <2> QED
    BY <2>14, <2>15 DEF Fits
<1> QED
  BY <1>5, <1>6

\* Where the loop over the segments in line stops.
Begins(q, nxt, i) == IF i = 1 THEN nxt ELSE (q[i - 1].seq + TCPLEN(q[i - 1])) % M

LEMMA InLineStops ==
  ASSUME NEW q, Len(q) \in Nat, NEW nxt, NEW n, n = InLine(q, nxt)
  PROVE  /\ n \in 0..Len(q)
         /\ \A i \in 1..n : q[i].seq = Begins(q, nxt, i)
         /\ n = Len(q) \/ q[n + 1].seq # Begins(q, nxt, n + 1)
<1> DEFINE bad == {i \in 1..Len(q) : q[i].seq # Begins(q, nxt, i)}
<1>1. PICK k \in 0..Len(q) : (\A i \in 1..k : i \notin bad) /\ (k = Len(q) \/ k + 1 \in bad)
  <2>1. PICK l \in Nat : l = Len(q)
    OBVIOUS
  <2> HIDE DEF bad
  <2>2. \E k \in 0..l : (\A i \in 1..k : i \notin bad) /\ (k = l \/ k + 1 \in bad)
    BY LoopStops, ZenonT(30)
  <2> QED
    BY <2>1, <2>2
<1>2. /\ k \in 0..Len(q)
      /\ \A i \in 1..k : q[i].seq = Begins(q, nxt, i)
      /\ k = Len(q) \/ q[k + 1].seq # Begins(q, nxt, k + 1)
  BY <1>1
<1> QED
  BY <1>2 DEF InLine, Begins

\* Segments that follow each other from lo on.
Line(l, lo) ==
  /\ l \in Seq(SegType) /\ Len(l) > 0 /\ From(l[1]) = lo
  /\ \A i \in 1..Len(l) : Good(l[i]) /\ lo <= From(l[i])
  /\ \A i \in 1..Len(l) : i > 1 => To(l[i - 1]) = From(l[i]) /\ ~l[i - 1].fin

\* Their buffers joined are the bytes from lo on.
LEMMA JoinedLine ==
  ASSUME Start, NEW l, NEW lo \in Nat, Line(l, lo), NEW z, z = l[Len(l)]
  PROVE  From(z) + z.len - lo \in Nat /\ Joined(l) = Run(lo, From(z) + z.len - lo)
<1> DEFINE h == [i \in 0..Len(l) |-> IF i = 0 THEN <<>> ELSE Run(lo, From(l[i]) + l[i].len - lo)]
<1>1. Len(l) \in Nat /\ Len(l) > 0 /\ Len(l) \in 1..Len(l)
  BY DEF Line
<1>2. \A i \in 1..Len(l) : /\ Fair(l[i]) /\ From(l[i]) \in Nat /\ l[i].len \in Nat /\ lo <= From(l[i])
                           /\ l[i].p = Run(From(l[i]), l[i].len)
  BY GoodFacts DEF Line, Good, Fair
<1>3. \A i \in 1..Len(l) : From(l[i]) + l[i].len - lo \in Nat
  BY <1>2
<1>4. ASSUME NEW i \in 1..Len(l)
      PROVE  h[i] = h[i - 1] \o l[i].p
  <2>1. PICK f \in Nat, m \in Nat, a \in Nat, b \in Nat :
          f = From(l[i]) /\ m = l[i].len /\ a = f - lo /\ b = f + m - lo
    <3>1. From(l[i]) \in Nat /\ l[i].len \in Nat /\ lo <= From(l[i])
      BY <1>2, <1>4
    <3>2. From(l[i]) - lo \in Nat /\ From(l[i]) + l[i].len - lo \in Nat
      BY <3>1
    <3> QED
      BY <3>1, <3>2
  <2>2. h[i] = Run(lo, b) /\ l[i].p = Run(f, m)
    BY <1>1, <1>2, <1>4, <2>1
  <2>3. h[i - 1] = Run(lo, a)
    <3>1. CASE i = 1
      <4>1. a = 0
        BY <2>1, <3>1 DEF Line
      <4>2. Run(lo, 0) = <<>>
        BY RunLen
      <4> QED
        BY <1>1, <3>1, <4>1, <4>2
    <3>2. CASE i # 1
      <4>1. i - 1 \in 1..Len(l) /\ i > 1
        BY <1>1, <1>4, <3>2
      <4>2. PICK y : y = l[i - 1]
        OBVIOUS
      <4>3. Fair(y) /\ To(y) = f /\ ~y.fin
        BY <1>2, <1>4, <2>1, <4>1, <4>2 DEF Line
      <4>4. To(y) = From(y) + y.len
        BY <4>3, GoodFacts DEF Int1
      <4>5. h[i - 1] = Run(lo, From(y) + y.len - lo)
        BY <1>1, <4>1, <4>2
      <4> QED
        BY <2>1, <4>3, <4>4, <4>5
    <3> QED
      BY <3>1, <3>2
  <2>4. Cat(Run(lo, a), Run(f, m)) = Run(lo, b)
    <3>1. f \in Int /\ b \in Int /\ f = lo + a /\ b = a + m /\ lo \in Int
      <4>1. a = f - lo /\ b = f + m - lo
        BY <2>1
      <4> QED
        BY <4>1
    <3> QED
      BY <3>1, RunCat
  <2> QED
    BY <2>2, <2>3, <2>4 DEF Cat
<1>5. h = [i \in 0..Len(l) |-> IF i = 0 THEN <<>> ELSE h[i - 1] \o l[i].p]
  <2>1. ASSUME NEW i \in 0..Len(l) PROVE h[i] = IF i = 0 THEN <<>> ELSE h[i - 1] \o l[i].p
    <3>1. CASE i = 0
      BY <1>1, <3>1
    <3>2. CASE i # 0
      <4>1. i \in 1..Len(l)
        BY <1>1, <3>2
      <4> HIDE DEF h
      <4> QED
        BY <1>4, <3>2, <4>1
    <3> QED
      BY <3>1, <3>2
  <2>2. h = [i \in 0..Len(l) |-> h[i]]
    OBVIOUS
  <2> HIDE DEF h
  <2> QED
    BY <2>1, <2>2, Zenon
<1>6. PICK c : /\ c = [i \in 0..Len(l) |-> IF i = 0 THEN <<>> ELSE c[i - 1] \o l[i].p]
               /\ Joined(l) = c[Len(l)]
  <2> HIDE DEF h
  <2> QED
    BY <1>5 DEF Joined
<1>7. c[0] = <<>> /\ \A i \in 1..Len(l) : c[i] = c[i - 1] \o l[i].p
  BY <1>1, <1>6
<1>8. h[0] = <<>>
  BY <1>1
<1>9. h[Len(l)] = Run(lo, From(z) + z.len - lo)
  BY <1>1
<1> HIDE DEF h
<1>10. c[Len(l)] = h[Len(l)]
  <2> DEFINE B == {i \in 0..Len(l) : c[i] # h[i]}
  <2>1. B \subseteq Nat
    BY <1>1
  <2>2. CASE B = {}
    <3>1. Len(l) \in 0..Len(l)
      BY <1>1
    <3> QED
      BY <2>2, <3>1
  <2>3. CASE B # {}
    <3>1. PICK i \in B : \A j \in B : i <= j
      <4> HIDE DEF B
      <4> QED
        BY <2>1, <2>3, NatMin
    <3>2. i \in 0..Len(l) /\ c[i] # h[i]
      OBVIOUS
    <3>3. i # 0
      BY <1>7, <1>8, <3>2
    <3>4. i \in 1..Len(l) /\ i - 1 \in 0..Len(l) /\ ~(i <= i - 1)
      BY <1>1, <3>2, <3>3
    <3>5. i - 1 \notin B
      BY <3>1, <3>4
    <3>6. c[i - 1] = h[i - 1]
      BY <3>4, <3>5
    <3> QED
      BY <1>4, <1>7, <3>2, <3>4, <3>6
  <2> QED
    BY <2>2, <2>3
<1> QED
  BY <1>1, <1>3, <1>6, <1>9, <1>10

\* A line of segments from rcv_nxt on is taken over.
LEMMA TakeLineGood ==
  ASSUME Start, NEW s, Ok(s, <<>>, FALSE), s.pcb.state = "ESTABLISHED", ~s.pcb.refused.held,
         NEW n \in Nat, Nxt(s.pcb) = n, NEW w \in Nat, s.pcb.rcv_wnd = w,
         NEW l, Line(l, n), NEW z, z = l[Len(l)], To(z) <= n + w,
         NEW rest, Queue(rest, To(z), n + w), NEW t, t = TakeLine(s, l, rest)
  PROVE  Ok(t, t.data, t.got_fin)
<1>1. /\ s \in StateType /\ s.pcb \in PcbType /\ s.app \in AppType /\ s.peer \in PeerType
      /\ Len(s.app.got) \in Nat
  BY OkFacts
<1>2. n <= N + 1 /\ s.pcb.rcv_nxt = isn + n /\ w <= Wnd
  BY OkLimits
<1>3. Len(l) \in Nat /\ Len(l) \in 1..Len(l) /\ Good(z) /\ Fair(z) /\ n <= From(z)
  BY DEF Line, Good
<1>4. PICK a \in Nat, k \in Nat, j \in Nat, e \in Nat :
        a = From(z) /\ k = z.len /\ j = Int1(z.fin) /\ e = To(z) /\ e = a + k + j /\ TCPLEN(z) = k + j
  <2>1. /\ From(z) \in Nat /\ z.len \in Nat /\ To(z) \in Nat /\ Int1(z.fin) \in Nat
        /\ TCPLEN(z) = z.len + Int1(z.fin) /\ To(z) = From(z) + TCPLEN(z)
    BY <1>3, GoodFacts DEF Int1
  <2>2. To(z) = From(z) + z.len + Int1(z.fin)
    BY <2>1
  <2> QED
    BY <2>1, <2>2
<1>5. /\ z.seq = isn + a /\ e <= N + 1 /\ a + k <= N /\ (z.fin => a + k = N) /\ z.fin \in BOOLEAN
      /\ n <= a /\ e <= n + w
  BY <1>3, <1>4, GoodFacts
<1>5a. /\ e = a + k + j /\ e <= N + 1 /\ a + k <= N /\ n <= a /\ e <= n + w
       /\ n <= N + 1 /\ w <= Wnd
  <2>1. e = a + k + j
    BY <1>4
  <2> QED
    BY <1>2, <1>5, <2>1
<1>6. PICK m \in Nat, v \in Nat, b \in Nat : e = n + m /\ w = v + m /\ a + k = n + b
  <2>1. e - n \in Nat /\ w - (e - n) \in Nat /\ a + k - n \in Nat
    BY <1>5a
  <2>2. e = n + (e - n) /\ w = (w - (e - n)) + (e - n) /\ a + k = n + (a + k - n)
    BY <1>5a
  <2> QED
    BY <2>1, <2>2
<1>7. (z.seq + TCPLEN(z) - s.pcb.rcv_nxt) % M = m
  <2>1. z.seq + TCPLEN(z) - s.pcb.rcv_nxt = m
    <3>1. isn + a + (k + j) - (isn + n) = m
      BY <1>5a, <1>6 DEF Start
    <3>2. TCPLEN(z) = k + j
      BY <1>4
    <3>3. z.seq + TCPLEN(z) - s.pcb.rcv_nxt = isn + a + (k + j) - (isn + n)
      BY <1>2, <1>5, <3>2
    <3> QED
      BY <3>1, <3>3
  <2>2. m % M = m
    BY <1>5a, <1>6, ModSmall, Sizes
  <2> QED
    BY <2>1, <2>2
<1>8. PICK g \in BOOLEAN : g = \E i \in 1..Len(l) : l[i].fin
  OBVIOUS
<1>9. g <=> z.fin
  <2>1. ASSUME NEW i \in 1..Len(l), l[i].fin PROVE i = Len(l)
    <3>1. i < Len(l) => i + 1 \in 1..Len(l) /\ i + 1 > 1 /\ (i + 1) - 1 = i
      BY <1>3
    <3>2. ~(i < Len(l))
      BY <2>1, <3>1 DEF Line
    <3> QED
      BY <1>3, <3>2
  <2> QED
    BY <1>3, <1>8, <2>1
<1>10. PICK d : d = Joined(l) /\ d = Run(n, b)
  <2>1. From(z) + z.len - n = b
    <3>1. a + k - n = b
      BY <1>6
    <3> QED
      BY <1>4, <3>1
  <2>2. Joined(l) = Run(n, From(z) + z.len - n)
    BY JoinedLine
  <2> QED
    BY <2>1, <2>2
<1>11. d \in Seq(Int) /\ Len(d) = b
  BY <1>10, RunLen
<1>12. PICK st : st = IF g THEN "CLOSE_WAIT" ELSE s.pcb.state
  OBVIOUS
<1>13. st \in {"ESTABLISHED", "CLOSE_WAIT"} /\ (st = "CLOSE_WAIT" <=> g)
  BY <1>12
<1>14. PICK p0 : p0 = [s.pcb EXCEPT !.ooseq = rest, !.state = st]
  OBVIOUS
<1>15. rest \in Seq(SegType)
  BY DEF Queue
<1>16. PICK p1 : p1 = [p0 EXCEPT !.rcv_nxt = isn + e, !.rcv_wnd = v]
  OBVIOUS
<1>17. isn + e \in Int /\ v \in Int
  BY DEF Start
<1>18. /\ p1 \in PcbType /\ p1.rcv_nxt = isn + e /\ p1.rcv_wnd = v /\ p1.ann_wnd = s.pcb.ann_wnd
       /\ p1.ann_edge = s.pcb.ann_edge /\ p1.ooseq = rest /\ p1.state = st /\ p1.refused = s.pcb.refused
  BY <1>1, <1>13, <1>14, <1>15, <1>16, <1>17 DEF PcbType
<1>19. PICK p : p = tcp_update_rcv_ann_wnd(p1)
  OBVIOUS
<1>20. Advance(p0, m) = p
  <2>1. p0.rcv_nxt = isn + n /\ p0.rcv_wnd = w
    BY <1>1, <1>2, <1>14 DEF PcbType
  <2>2. (isn + n + m) % M = isn + e
    <3>1. isn + n + m = isn + e
      BY <1>6 DEF Start
    <3>2. e \in 0..(N + Wnd + 1)
      BY <1>5, Sizes
    <3> QED
      BY <3>1, <3>2, Positions
  <2>3. [p0 EXCEPT !.rcv_nxt = (@ + m) % M, !.rcv_wnd = @ - m] = p1
    <3>1. w - m = v
      BY <1>6
    <3>2. (p0.rcv_nxt + m) % M = isn + e /\ p0.rcv_wnd - m = v
      BY <2>1, <2>2, <3>1
    <3> QED
      BY <1>16, <3>2, Zenon
  <2> QED
    BY <1>19, <2>3 DEF Advance
<1>21. PICK x : x = [s EXCEPT !.pcb = p, !.data = d, !.got_fin = g]
  OBVIOUS
<1>22. t = tcp_ack(x)
  BY <1>7, <1>8, <1>10, <1>12, <1>14, <1>20, <1>21 DEF TakeLine
<1>23. PICK y \in Nat, u \in Nat, o \in Nat : y = s.pcb.ann_edge - isn /\ u = s.peer.ack /\ o = s.peer.edge
                                              /\ y <= n + w /\ u <= n /\ o <= y
  <2>1. /\ s.pcb.ann_edge - isn \in 0..(Nxt(s.pcb) + s.pcb.ann_wnd) /\ s.pcb.ann_wnd \in 0..s.pcb.rcv_wnd
        /\ s.peer.ack \in 0..Nxt(s.pcb) /\ s.peer.edge \in 0..(s.pcb.ann_edge - isn)
    BY DEF Ok, Sound, Edges
  <2>2. PICK r \in Nat : r = s.pcb.ann_wnd /\ r <= w
    BY <2>1
  <2>3. s.pcb.ann_edge - isn \in 0..(n + r) /\ s.peer.ack \in 0..n
    BY <2>1, <2>2
  <2>4. PICK y \in Nat : y = s.pcb.ann_edge - isn /\ y <= n + w
    BY <2>2, <2>3
  <2>5. s.peer.edge \in 0..y
    BY <2>1, <2>4
  <2> QED
    BY <2>3, <2>4, <2>5
<1>24. Nxt(p1) = e
  BY <1>18 DEF Nxt, Start
<1>25. e + v = n + w
  BY <1>6
<1>26. /\ p \in PcbType /\ p = [p1 EXCEPT !.ann_wnd = p.ann_wnd]
       /\ p.ann_wnd \in 0..p1.rcv_wnd
       /\ p1.ann_edge - isn <= Nxt(p1) + p.ann_wnd
  <2>1. Nxt(p1) \in 0..(N + 1) /\ p1.rcv_wnd \in 0..Wnd /\ p1.ann_edge - isn \in 0..(Nxt(p1) + p1.rcv_wnd)
    <3>1. e \in 0..(N + 1) /\ v \in 0..Wnd
      BY <1>5a, <1>6, Sizes
    <3>2. y \in 0..(e + v)
      <4>1. y <= n + w
        BY <1>23
      <4> QED
        BY <1>25, <4>1
    <3>3. p1.ann_edge - isn = y
      BY <1>18, <1>23
    <3> QED
      BY <1>18, <1>24, <3>1, <3>2, <3>3
  <2> QED
    BY <1>18, <1>19, <2>1, AnnouncedFits
<1>27. /\ p.rcv_nxt = isn + e /\ p.rcv_wnd = v /\ p.ann_edge = s.pcb.ann_edge /\ p.ooseq = rest
       /\ p.state = st /\ p.refused = s.pcb.refused /\ Nxt(p) = e
  <2>1. /\ p.rcv_nxt = p1.rcv_nxt /\ p.rcv_wnd = p1.rcv_wnd /\ p.ann_edge = p1.ann_edge /\ p.ooseq = p1.ooseq
        /\ p.state = p1.state /\ p.refused = p1.refused
    BY <1>18, <1>26 DEF PcbType
  <2> QED
    BY <1>18, <1>24, <2>1 DEF Nxt
<1>28. /\ x \in StateType /\ x.pcb = p /\ x.app = s.app /\ x.peer = s.peer /\ x.data = d /\ x.got_fin = g
  BY <1>1, <1>11, <1>21, <1>26 DEF StateType
<1>29. Edges(p, s.peer)
  <2>1. PICK r \in Nat : r = p.ann_wnd /\ r <= v /\ y <= e + r
    <3>1. p.ann_wnd \in 0..v
      BY <1>18, <1>26
    <3>2. y <= e + p.ann_wnd
      BY <1>18, <1>23, <1>24, <1>26
    <3> QED
      BY <3>1, <3>2
  <2>2. e \in 0..(N + 1) /\ v \in 0..Wnd /\ r \in 0..v /\ y \in 0..(e + r) /\ u \in 0..e /\ o \in 0..y
    <3>1. y <= n + w /\ u <= n /\ o <= y
      BY <1>23
    <3>2. r <= v /\ y <= e + r
      BY <2>1
    <3> QED
      <4>1. e = n + m /\ w = v + m
        BY <1>6
      <4>2. e <= N + 1 /\ n <= N + 1 /\ w <= Wnd
        BY <1>5a
      <4>3. e \in 0..(N + 1) /\ v \in 0..Wnd
        BY <4>1, <4>2, Sizes
      <4>4. r \in 0..v /\ y \in 0..(e + r) /\ o \in 0..y
        BY <3>1, <3>2
      <4>5. u \in 0..e
        BY <3>1, <4>1
      <4> QED
        BY <4>3, <4>4, <4>5
  <2> QED
    BY <1>23, <1>27, <2>1, <2>2 DEF Edges
<1>30. s.pcb.refused = NoRefused /\ s.pcb.refused.p = <<>> /\ ~s.pcb.refused.fin /\ ~s.app.eof
  BY DEF Ok, Sound, Fins, NoRefused
<1>31. n = Len(s.app.got)
  <2>1. n = Len(s.app.got) + Len(s.pcb.refused.p) + Len(<<>>) + Int1(FALSE)
    BY DEF Ok, Sound, Stream
  <2>2. Len(s.pcb.refused.p) = 0 /\ Len(<<>>) = 0 /\ Int1(FALSE) = 0
    BY <1>30 DEF Int1
  <2>3. n = Len(s.app.got) + 0 + 0 + 0
    BY <2>1, <2>2
  <2> QED
    BY <1>1, <2>3
<1>32. Stream(p, s.app, d, g)
  <2>1. s.app.got = Run(0, Len(s.app.got)) /\ s.pcb.refused.p = Run(Len(s.app.got), Len(s.pcb.refused.p))
    BY DEF Ok, Sound, Stream
  <2>2. Int1(st = "CLOSE_WAIT") = j
    BY <1>4, <1>9, <1>13 DEF Int1
  <2>3. n + 0 = n /\ e = n + 0 + b + j
    <3>1. e = a + k + j
      BY <1>5a
    <3>2. a + k = n + b
      BY <1>6
    <3> QED
      BY <3>1, <3>2
  <2>4. Len(s.pcb.refused.p) = 0
    BY <1>30
  <2> QED
    BY <1>10, <1>11, <1>27, <1>31, <2>1, <2>2, <2>3, <2>4 DEF Stream
<1>33. Window(p, s.app, d, g)
  <2>1. /\ Len(<<>>) \in Nat /\ Len(s.pcb.refused.p) \in Nat /\ s.pcb.rcv_wnd \in Nat /\ s.app.unread \in Nat
        /\ s.pcb.rcv_wnd + s.app.unread + Len(s.pcb.refused.p) + Int1(s.pcb.refused.fin)
             + Len(<<>>) + Int1(FALSE) = Wnd
    BY WindowFacts
  <2>2. PICK i \in Nat : i = s.app.unread
    BY <2>1
  <2>3. Len(<<>>) = 0 /\ Len(s.pcb.refused.p) = 0 /\ Int1(s.pcb.refused.fin) = 0 /\ Int1(FALSE) = 0
    BY <1>30 DEF Int1
  <2>4. w + i + 0 + 0 + 0 + 0 = Wnd
    BY <2>1, <2>2, <2>3
  <2>5. Int1(g) = j
    BY <1>4, <1>9 DEF Int1
  <2>6. v + i + 0 + 0 + b + j = Wnd
    BY <1>5a, <1>6, <2>4
  <2> QED
    BY <1>11, <1>27, <2>2, <2>3, <2>5, <2>6 DEF Window
<1>34. Fins(p, s.app, d, g)
  <2>1. z.fin => e = N + 1
    BY <1>4, <1>5 DEF Int1
  <2> QED
    BY <1>9, <1>13, <1>27, <1>30, <2>1 DEF Fins
<1>35. Queue(p.ooseq, Nxt(p), Nxt(p) + p.rcv_wnd)
  BY <1>4, <1>25, <1>27
<1>36. Ok(x, d, g)
  BY <1>1, <1>11, <1>26, <1>28, <1>29, <1>32, <1>33, <1>34, <1>35 DEF Ok, Sound
<1>37. Ok(t, d, g) /\ Kept(x, t)
  BY <1>22, <1>36, AckSoon
<1> QED
  BY <1>28, <1>37 DEF Kept

\* The segment at rcv_nxt and those of the queue that continue it.
LEMMA TakeWithGood ==
  ASSUME Start, NEW s, Ok(s, <<>>, FALSE), s.pcb.state = "ESTABLISHED", ~s.pcb.refused.held,
         NEW n \in Nat, Nxt(s.pcb) = n, NEW w \in Nat, s.pcb.rcv_wnd = w,
         NEW a, Good(a.seg), From(a.seg) = n, To(a.seg) <= n + w, Queue(a.rest, n, n + w),
         \A i \in 1..Len(a.rest) : To(a.seg) <= From(a.rest[i]) /\ ~a.seg.fin,
         NEW t, t = TakeWith(s, a)
  PROVE  Ok(t, t.data, t.got_fin)
<1>1. PICK x, q : x = a.seg /\ q = a.rest
  OBVIOUS
<1>2. /\ Good(x) /\ Fair(x) /\ From(x) = n /\ To(x) <= n + w /\ Queue(q, n, n + w)
      /\ \A i \in 1..Len(q) : To(x) <= From(q[i]) /\ ~x.fin
  BY <1>1 DEF Good
<1>3. /\ q \in Seq(SegType) /\ Len(q) \in Nat /\ \A i \in 1..Len(q) : Good(q[i]) /\ Fair(q[i])
      /\ x \in SegType
  BY <1>2 DEF Queue, Good, Fair
<1>4. PICK nx, k : nx = (x.seq + TCPLEN(x)) % M /\ k = InLine(q, nx)
  OBVIOUS
<1>5. PICK l, rest : l = Cat(<<x>>, Upto(q, k)) /\ rest = Behind(q, k)
  OBVIOUS
<1>6. t = TakeLine(s, l, rest)
  <2>1. t = TakeLine(s, <<x>> \o SubSeq(q, 1, k), Behind(q, k))
    BY <1>1, <1>4, ZenonT(30) DEF TakeWith, Given
  <2> QED
    BY <1>5, <2>1 DEF Cat, Upto
<1>7. /\ k \in 0..Len(q)
      /\ \A i \in 1..k : q[i].seq = Begins(q, nx, i)
      /\ k = Len(q) \/ q[k + 1].seq # Begins(q, nx, k + 1)
  BY <1>3, <1>4, InLineStops
<1>8. \A y : Fair(y) => (y.seq + TCPLEN(y)) % M = isn + To(y) /\ y.seq = isn + From(y) /\ To(y) \in Nat /\ From(y) \in Nat
  <2> SUFFICES ASSUME NEW y, Fair(y)
               PROVE  (y.seq + TCPLEN(y)) % M = isn + To(y) /\ y.seq = isn + From(y) /\ To(y) \in Nat /\ From(y) \in Nat
    OBVIOUS
  <2>1. PICK f \in Nat, j \in Nat, e \in Nat : f = From(y) /\ j = TCPLEN(y) /\ e = To(y) /\ e = f + j
    BY GoodFacts
  <2>2. y.seq = isn + f /\ e <= N + 1
    BY <2>1, GoodFacts
  <2>3. e = f + j
    BY <2>1
  <2>4. isn + f + j = isn + e
    BY <2>3 DEF Start
  <2>5. e \in 0..(N + Wnd + 1)
    BY <2>2, Sizes
  <2>6. (isn + f + j) % M = isn + e
    BY <2>4, <2>5, Positions
  <2> QED
    BY <2>1, <2>2, <2>6
<1>9. Begins(q, nx, 1) = isn + To(x)
  BY <1>2, <1>4, <1>8 DEF Begins
<1>10. ASSUME NEW i \in 1..Len(q) PROVE Begins(q, nx, i + 1) = isn + To(q[i])
  <2>1. i + 1 # 1 /\ (i + 1) - 1 = i /\ Fair(q[i])
    BY <1>3, <1>10
  <2> QED
    BY <1>8, <2>1 DEF Begins
<1>11. /\ Len(l) = k + 1 /\ l \in Seq(SegType) /\ l[1] = x
       /\ \A i \in 2..(k + 1) : l[i] = q[i - 1] /\ i - 1 \in 1..k /\ i - 1 \in 1..Len(q)
  <2>1. PICK f : f = Upto(q, k)
    OBVIOUS
  <2>2. f \in Seq(SegType) /\ Len(f) = k /\ \A i \in 1..k : f[i] = q[i]
    <3>1. PICK m \in 0..Len(q) : m = k
      BY <1>7
    <3>2. Queue(f, n, n + w) /\ Len(f) = m /\ \A i \in 1..Len(f) : f[i] = q[i] /\ i \in 1..Len(q)
      BY <1>2, <2>1, <3>1, QueueFront
    <3> QED
      BY <3>1, <3>2 DEF Queue
  <2>3. l = <<x>> \o f
    BY <1>5, <2>1 DEF Cat
  <2>4. k \in Nat
    BY <1>3, <1>7
  <2>5. Len(l) = k + 1 /\ l \in Seq(SegType) /\ l[1] = x
    BY <1>3, <2>2, <2>3, <2>4
  <2>6. ASSUME NEW i \in 2..(k + 1) PROVE l[i] = q[i - 1] /\ i - 1 \in 1..k /\ i - 1 \in 1..Len(q)
    <3>1. i - 1 \in 1..k /\ i - 1 \in 1..Len(q)
      BY <1>3, <1>7, <2>4, <2>6
    <3>2. l[i] = f[i - 1]
      BY <1>3, <2>2, <2>3, <2>4, <2>6
    <3> QED
      BY <2>2, <3>1, <3>2
  <2> QED
    BY <2>5, <2>6
<1>12. k \in Nat
  BY <1>3, <1>7
<1>13. PICK z : z = l[Len(l)]
  OBVIOUS
<1>14. z = IF k = 0 THEN x ELSE q[k]
  <2>1. CASE k = 0
    BY <1>11, <1>13, <2>1
  <2>2. CASE k # 0
    <3>1. k + 1 \in 2..(k + 1) /\ (k + 1) - 1 = k
      BY <1>12, <2>2
    <3> QED
      BY <1>11, <1>13, <2>2, <3>1
  <2> QED
    BY <2>1, <2>2
<1>15. Fair(z) /\ To(z) <= n + w /\ Begins(q, nx, k + 1) = isn + To(z)
  <2>1. CASE k = 0
    BY <1>2, <1>9, <1>14, <2>1
  <2>2. CASE k # 0
    <3>1. k \in 1..Len(q)
      BY <1>3, <1>7, <2>2
    <3> QED
      BY <1>2, <1>3, <1>10, <1>14, <2>2, <3>1 DEF Queue
  <2> QED
    BY <2>1, <2>2
<1>16. Line(l, n)
  <2>1. \A i \in 1..Len(l) : Good(l[i]) /\ n <= From(l[i])
    <3> SUFFICES ASSUME NEW i \in 1..Len(l) PROVE Good(l[i]) /\ n <= From(l[i])
      OBVIOUS
    <3>1. CASE i = 1
      BY <1>2, <1>11, <3>1
    <3>2. CASE i # 1
      <4>1. i \in 2..(k + 1)
        BY <1>11, <1>12, <3>2
      <4>2. i - 1 \in 1..Len(q) /\ l[i] = q[i - 1]
        BY <1>11, <4>1
      <4>3. Good(q[i - 1]) /\ n < From(q[i - 1])
        BY <1>2, <4>2 DEF Queue
      <4>4. From(q[i - 1]) \in Nat
        BY <1>3, <1>8, <4>2
      <4> QED
        BY <4>2, <4>3, <4>4
    <3> QED
      BY <3>1, <3>2
  <2>2. \A i \in 1..Len(l) : i > 1 => To(l[i - 1]) = From(l[i]) /\ ~l[i - 1].fin
    <3> SUFFICES ASSUME NEW i \in 1..Len(l), i > 1 PROVE To(l[i - 1]) = From(l[i]) /\ ~l[i - 1].fin
      OBVIOUS
    <3>1. i \in 2..(k + 1)
      BY <1>11, <1>12
    <3>2. i - 1 \in 1..Len(q) /\ i - 1 \in 1..k /\ l[i] = q[i - 1]
      BY <1>11, <3>1
    <3>3. PICK y : y = q[i - 1]
      OBVIOUS
    <3>4. Fair(y) /\ y.seq = Begins(q, nx, i - 1) /\ y.seq = isn + From(y) /\ From(y) \in Nat
      BY <1>3, <1>7, <1>8, <3>2, <3>3
    <3>5. CASE i = 2
      <4>1. l[i - 1] = x /\ i - 1 = 1
        BY <1>11, <3>5
      <4>2. isn + From(y) = isn + To(x) /\ To(x) \in Nat
        BY <1>2, <1>8, <1>9, <3>4, <4>1
      <4>3. To(x) = From(y)
        BY <3>4, <4>2 DEF Start
      <4> QED
        BY <1>2, <3>2, <3>3, <4>1, <4>3
    <3>6. CASE i # 2
      <4>1. i - 1 \in 2..(k + 1) /\ (i - 1) - 1 \in 1..Len(q) /\ (i - 1) - 1 < i - 1 /\ ((i - 1) - 1) + 1 = i - 1
        BY <1>3, <1>12, <3>1, <3>2, <3>6
      <4>2. l[i - 1] = q[(i - 1) - 1]
        BY <1>11, <4>1
      <4>3. PICK v : v = q[(i - 1) - 1]
        OBVIOUS
      <4>4. isn + From(y) = isn + To(v) /\ To(v) \in Nat
        BY <1>3, <1>8, <1>10, <3>4, <4>1, <4>3
      <4>5. To(v) = From(y)
        BY <3>4, <4>4 DEF Start
      <4>6. ~v.fin
        BY <1>2, <3>2, <4>1, <4>3 DEF Queue
      <4> QED
        BY <3>2, <3>3, <4>2, <4>3, <4>5, <4>6
    <3> QED
      BY <3>5, <3>6
  <2>3. Len(l) > 0
    BY <1>11, <1>12
  <2> QED
    BY <1>2, <1>11, <2>1, <2>2, <2>3 DEF Line
<1>17. Queue(rest, To(z), n + w)
  <2>1. PICK m \in 0..Len(q) : m = k
    BY <1>7
  <2>2. /\ Queue(rest, n, n + w) /\ Len(rest) = Len(q) - m
        /\ \A i \in 1..Len(rest) : rest[i] = q[m + i] /\ m + i \in 1..Len(q)
    BY <1>2, <1>5, <2>1, QueueBehind
  <2>3. ASSUME NEW i \in 1..Len(rest) PROVE To(z) < From(rest[i])
    <3>1. k + 1 \in 1..Len(q) /\ k + i \in 1..Len(q) /\ rest[i] = q[k + i] /\ k # Len(q) /\ i \in Nat /\ i > 0
      BY <1>3, <1>7, <1>12, <2>1, <2>2, <2>3
    <3>2. PICK y : y = q[k + 1]
      OBVIOUS
    <3>3. Fair(y) /\ From(y) \in Nat /\ y.seq = isn + From(y) /\ To(z) \in Nat
      BY <1>3, <1>8, <1>15, <3>1, <3>2
    <3>4. To(z) <= From(y)
      <4>1. CASE k = 0
        BY <1>2, <1>14, <3>1, <3>2, <4>1
      <4>2. CASE k # 0
        <5>1. k \in 1..Len(q) /\ k < k + 1
          BY <1>3, <1>7, <1>12, <4>2
        <5> QED
          BY <1>2, <1>14, <3>1, <3>2, <4>2, <5>1 DEF Queue
      <4> QED
        BY <4>1, <4>2
    <3>5. To(z) # From(y)
      BY <1>7, <1>15, <3>1, <3>2, <3>3
    <3>6. To(z) < From(y)
      BY <3>3, <3>4, <3>5
    <3>7. CASE i = 1
      BY <3>1, <3>2, <3>6, <3>7
    <3>8. CASE i # 1
      <4>1. k + 1 < k + i
        BY <1>12, <3>1, <3>8
      <4>2. From(q[k + 1]) < From(q[k + i])
        BY <1>2, <3>1, <4>1, QueueSorted
      <4>3. From(q[k + i]) \in Nat
        BY <1>3, <1>8, <3>1
      <4> QED
        BY <3>1, <3>2, <3>3, <3>6, <4>2, <4>3
    <3> QED
      BY <3>7, <3>8
  <2> QED
    BY <2>2, <2>3 DEF Queue
<1> QED
  BY <1>6, <1>13, <1>15, <1>16, <1>17, TakeLineGood

\* A segment at rcv_nxt that ends inside the window.
LEMMA InSequenceGood ==
  ASSUME Start, NEW s, Ok(s, <<>>, FALSE), s.pcb.state = "ESTABLISHED", ~s.pcb.refused.held,
         NEW n \in Nat, Nxt(s.pcb) = n, NEW w \in Nat, s.pcb.rcv_wnd = w,
         NEW x, Good(x), From(x) = n, To(x) <= n + w, NEW t, t = InSequence(s, x)
  PROVE  Ok(t, t.data, t.got_fin)
<1>1. PICK a : a = IF x.fin THEN [seg |-> x, rest |-> <<>>] ELSE Absorb(x, s.pcb.ooseq)
  OBVIOUS
<1>2. t = TakeWith(s, a)
  <2>1. t = Given(IF x.fin THEN [seg |-> x, rest |-> <<>>] ELSE Absorb(x, s.pcb.ooseq), LAMBDA b : TakeWith(s, b))
    BY DEF InSequence
  <2>2. t = Given(a, LAMBDA b : TakeWith(s, b))
    BY <1>1, <2>1
  <2> QED
    BY <2>2, ZenonT(30) DEF Given
<1>3. Queue(s.pcb.ooseq, n, n + w)
  BY OkLimits
<1>4. /\ Good(a.seg) /\ a.seg.seq = x.seq /\ To(a.seg) <= n + w /\ Queue(a.rest, n, n + w)
      /\ \A i \in 1..Len(a.rest) : To(a.seg) <= From(a.rest[i]) /\ ~a.seg.fin
  <2>1. CASE x.fin
    <3>1. a.seg = x /\ a.rest = <<>>
      BY <1>1, <2>1
    <3>2. Len(a.rest) = 0 /\ Queue(a.rest, n, n + w)
      BY <3>1, QueueEmpty
    <3> QED
      BY <3>1, <3>2
  <2>2. CASE ~x.fin
    <3>1. PICK q, h : q = s.pcb.ooseq /\ h = n + w
      OBVIOUS
    <3>2. a = Absorb(x, q)
      BY <1>1, <2>2, <3>1
    <3>3. Queue(q, n, h) /\ h \in Int /\ To(x) <= h
      BY <1>3, <3>1
    <3>4. \A i \in 1..Len(q) : From(x) < From(q[i]) \/ From(q[i]) + q[i].len <= From(x) + x.len
      BY <3>3 DEF Queue
    <3>5. /\ Good(a.seg) /\ a.seg.seq = x.seq /\ To(a.seg) <= h /\ Queue(a.rest, n, h)
          /\ \A i \in 1..Len(a.rest) : To(a.seg) <= From(a.rest[i]) /\ ~a.seg.fin
      BY <2>2, <3>2, <3>3, <3>4, AbsorbGood
    <3> QED
      BY <3>1, <3>5
  <2> QED
    BY <2>1, <2>2
<1>5. From(a.seg) = n
  BY <1>4 DEF From
<1> QED
  BY <1>2, <1>4, <1>5, TakeWithGood

\* Only the queue changes.
WithQueue(s, q) == [s EXCEPT !.pcb.ooseq = q]
InWindow(q, p) == Queue(q, Nxt(p), Nxt(p) + p.rcv_wnd)
SameInput(s, t) == t.data = s.data /\ t.got_fin = s.got_fin

LEMMA QueueReplaced ==
  ASSUME NEW s, NEW d, NEW f, Ok(s, d, f), NEW q, InWindow(q, s.pcb),
         NEW t, t = WithQueue(s, q)
  PROVE  Ok(t, d, f) /\ SameInput(s, t)
<1>1. s \in StateType /\ s.pcb \in PcbType
  BY DEF Ok, StateType
<1>2. PICK p : p = [s.pcb EXCEPT !.ooseq = q]
  OBVIOUS
<1>3. q \in Seq(SegType)
  BY DEF Queue, InWindow
<1>4. /\ p \in PcbType /\ p.rcv_nxt = s.pcb.rcv_nxt /\ p.rcv_wnd = s.pcb.rcv_wnd
      /\ p.ann_wnd = s.pcb.ann_wnd /\ p.ann_edge = s.pcb.ann_edge
      /\ p.ooseq = q /\ p.state = s.pcb.state /\ p.refused = s.pcb.refused
  BY <1>1, <1>2, <1>3 DEF PcbType
<1>5. /\ t \in StateType /\ t.pcb = p /\ t.app = s.app /\ t.peer = s.peer
      /\ t.data = s.data /\ t.got_fin = s.got_fin
  BY <1>1, <1>2, <1>4 DEF StateType, WithQueue
<1>6. Sound(p, s.app, s.peer, d, f)
  BY <1>4 DEF Ok, Sound, Edges, Stream, Window, Fins, Nxt, InWindow
<1> QED
  BY <1>5, <1>6 DEF Ok, SameInput

LEMMA ReceiveCutGood ==
  ASSUME Start, NEW s, Ok(s, <<>>, FALSE), s.data = <<>>, s.got_fin = FALSE,
         s.pcb.state = "ESTABLISHED", ~s.pcb.refused.held,
         NEW x, Good(x), Fits(s.pcb, x), NEW t, t = ReceiveCut(s, x)
  PROVE  Ok(t, t.data, t.got_fin)
<1>1. PICK n \in Nat, w \in Nat : Nxt(s.pcb) = n /\ s.pcb.rcv_wnd = w
  BY OkLimits
<1>2. /\ n <= N + 1 /\ s.pcb.rcv_nxt = isn + n /\ w <= Wnd /\ Queue(s.pcb.ooseq, n, n + w)
  BY <1>1, OkLimits
<1>3. PICK f \in Nat, e \in Nat : From(x) = f /\ To(x) = e
  BY GoodFacts DEF Good
<1>4. x.seq = isn + f /\ f <= N
  <2>1. x.seq = isn + From(x) /\ From(x) + x.len <= N /\ x.len \in Nat
    BY GoodFacts DEF Good
  <2> QED
    BY <1>3, <2>1, Sizes
<1>5. TCP_SEQ_BETWEEN(x.seq, s.pcb.rcv_nxt, s.pcb.rcv_nxt + s.pcb.rcv_wnd - 1) <=> n <= f /\ f <= n + w - 1
  <2>1. PICK u \in Int, v \in Int, z \in Int : isn + f = u /\ isn + n = v /\ isn + n + w - 1 = z
    <3>1. isn + f \in Int /\ isn + n \in Int /\ isn + n + w - 1 \in Int
      BY DEF Start
    <3> QED
      BY <3>1
  <2>2. TCP_SEQ_LEQ(v, u) <=> v <= u
    BY <1>2, <1>4, <2>1, SeqOrder, Sizes DEF Start
  <2>3. TCP_SEQ_LEQ(u, z) <=> u <= z
    BY <1>2, <1>4, <2>1, SeqOrder, Sizes DEF Start
  <2>4. x.seq = u /\ s.pcb.rcv_nxt = v /\ s.pcb.rcv_nxt + s.pcb.rcv_wnd - 1 = z
    BY <1>1, <1>2, <1>4, <2>1
  <2> QED
    BY <2>1, <2>2, <2>3, <2>4 DEF TCP_SEQ_BETWEEN, Start
<1>6. CASE ~(n <= f /\ f <= n + w - 1)
  <2>1. PICK y : y = IF TCP_SEQ_LT(x.seq, s.pcb.rcv_nxt) THEN tcp_ack_now(s) ELSE s
    OBVIOUS
  <2>2. t = tcp_send_empty_ack(y)
    BY <1>5, <1>6, <2>1 DEF ReceiveCut
  <2>3. Ok(y, <<>>, FALSE) /\ Kept(s, y)
    <3>1. Kept(s, s)
      BY DEF Kept
    <3> QED
      BY <2>1, <3>1, AckNow
  <2>4. Ok(t, <<>>, FALSE) /\ Kept(y, t)
    BY <2>2, <2>3, AckSent
  <2> QED
    BY <2>3, <2>4 DEF Kept
<1>7. CASE n <= f /\ f <= n + w - 1
  <2>1. e <= n + w
    BY <1>1, <1>3, <1>7 DEF Fits
  <2>2. CASE x.seq = s.pcb.rcv_nxt
    <3>1. f = n
      BY <1>2, <1>4, <2>2 DEF Start
    <3>2. PICK j \in Nat : TCPLEN(x) = j /\ e = f + j
      <4>1. TCPLEN(x) \in Nat /\ To(x) = From(x) + TCPLEN(x)
        BY GoodFacts DEF Good
      <4> QED
        BY <1>3, <4>1
    <3>3. j <= w
      BY <2>1, <3>1, <3>2
    <3>4. TrimToWindow(s.pcb, x) = x
      BY <1>1, <3>2, <3>3 DEF TrimToWindow
    <3>5. t = InSequence(s, x)
      <4>1. t = Given(TrimToWindow(s.pcb, x), LAMBDA y : InSequence(s, y))
        BY <1>5, <1>7, <2>2 DEF ReceiveCut
      <4> QED
        BY <3>4, <4>1, ZenonT(30) DEF Given
    <3> QED
      BY <1>1, <1>3, <2>1, <3>1, <3>5, InSequenceGood
  <2>3. CASE x.seq # s.pcb.rcv_nxt
    <3>1. n < f
      BY <1>2, <1>4, <1>7, <2>3
    <3>2. PICK y, r, q, p : /\ y = tcp_send_empty_ack(s) /\ r = QueueOoseq(s.pcb, x) /\ q = s.pcb.ooseq /\ p = s.pcb
      OBVIOUS
    <3>3. t = WithQueue(y, r)
      BY <1>5, <1>7, <2>3, <3>2 DEF ReceiveCut, WithQueue
    <3>4. PICK h \in Nat : h = n + w
      OBVIOUS
    <3>5. Queue(r, n, h)
      <4>1. /\ q = p.ooseq /\ r = QueueOoseq(p, x) /\ p.rcv_nxt = isn + n /\ p.rcv_wnd = w
            /\ From(x) = f /\ To(x) = e /\ Queue(q, n, n + w)
        BY <1>1, <1>2, <1>3, <3>2
      <4>2. w = h - n /\ h <= N + Wnd + 1 /\ e <= h
        BY <1>2, <2>1, <3>4, Sizes
      <4>3. p.rcv_wnd = h - n /\ Queue(q, n, h) /\ n < From(x) /\ To(x) <= h
        BY <3>1, <3>4, <4>1, <4>2
      <4> QED
        BY <4>1, <4>2, <4>3, QueueOoseqGood
    <3>6. Ok(y, <<>>, FALSE) /\ Kept(s, y)
      BY <3>2, AckSent
    <3>7. InWindow(r, y.pcb)
      <4>1. Nxt(y.pcb) = n /\ y.pcb.rcv_wnd = w
        BY <1>1, <3>6 DEF Kept, Nxt
      <4> QED
        BY <3>4, <3>5, <4>1 DEF InWindow
    <3>8. Ok(t, <<>>, FALSE) /\ SameInput(y, t)
      BY <3>3, <3>6, <3>7, QueueReplaced
    <3> QED
      BY <3>6, <3>8 DEF Kept, SameInput
  <2> QED
    BY <2>2, <2>3
<1> QED
  BY <1>6, <1>7

LEMMA ReceiveGood ==
  ASSUME Start, NEW s, Ok(s, <<>>, FALSE), s.data = <<>>, s.got_fin = FALSE,
         NEW seg, Fair(seg), Fits(s.pcb, seg), TCPLEN(seg) > 0 => ~s.pcb.refused.held,
         NEW t, t = tcp_receive(s, seg)
  PROVE  Ok(t, t.data, t.got_fin)
<1>1. CASE TCPLEN(seg) > 0 /\ s.pcb.state = "ESTABLISHED"
  <2>1. PICK x : x = TrimFront(s.pcb, seg)
    OBVIOUS
  <2>2. t = ReceiveCut(s, x)
    <3>1. t = Given(TrimFront(s.pcb, seg), LAMBDA y : ReceiveCut(s, y))
      BY <1>1 DEF tcp_receive
    <3> QED
      BY <2>1, <3>1, ZenonT(30) DEF Given
  <2>3. PICK n \in Nat : Nxt(s.pcb) = n
    BY OkLimits
  <2>3a. PICK p : p = s.pcb
    OBVIOUS
  <2>4. p.rcv_nxt = isn + n /\ n <= N + 1 /\ Nxt(p) = n
    BY <2>3, <2>3a, OkLimits
  <2>5. Good(seg)
    BY <1>1 DEF Good
  <2>6. Fits(p, seg) /\ x = TrimFront(p, seg)
    BY <2>1, <2>3a
  <2>7. Good(x) /\ Fits(p, x)
    BY <2>4, <2>5, <2>6, TrimFrontGood
  <2>8. Fits(s.pcb, x)
    BY <2>3a, <2>7
  <2> QED
    BY <1>1, <2>2, <2>7, <2>8, ReceiveCutGood
<1>2. CASE ~(TCPLEN(seg) > 0 /\ s.pcb.state = "ESTABLISHED")
  <2>1. t = s \/ t = tcp_ack_now(s)
    BY <1>2 DEF tcp_receive
  <2>2. Ok(t, <<>>, FALSE) /\ Kept(s, t)
    <3>1. Kept(s, s)
      BY DEF Kept
    <3> QED
      BY <2>1, <3>1, AckNow
  <2> QED
    BY <2>2 DEF Kept
<1> QED
  BY <1>1, <1>2

-----------------------------------------------------------------------------
(* tcp_input and the actions *)

LEMMA DeliverGood ==
  ASSUME Start, NEW s, Ok(s, <<>>, FALSE), s.data = <<>>, s.got_fin = FALSE,
         NEW seg, Fair(seg), Fits(s.pcb, seg), TCPLEN(seg) > 0 => ~s.pcb.refused.held,
         NEW t, t = Deliver(s, seg)
  PROVE  Ok(t, <<>>, FALSE)
<1>1. PICK a : a = tcp_receive(s, seg)
  OBVIOUS
<1>2. PICK b : b = GotFin(a)
  OBVIOUS
<1>3. PICK e : e = Offered(b)
  OBVIOUS
<1>4. PICK g : g = Closed(e)
  OBVIOUS
<1>5. t = tcp_output(g)
  BY <1>1, <1>2, <1>3, <1>4 DEF Deliver, Given
<1>6. Ok(a, a.data, a.got_fin)
  BY <1>1, ReceiveGood
<1>7. Ok(b, b.data, b.got_fin)
  BY <1>2, <1>6, GotFinGood
<1>8. Ok(e, <<>>, e.got_fin)
  BY <1>3, <1>7, OfferedGood
<1>9. Ok(g, <<>>, FALSE)
  BY <1>4, <1>8, ClosedGood
<1> QED
  BY <1>5, <1>9, OutputGood

LEMMA InputGood ==
  ASSUME Start, NEW s, Ok(s, <<>>, FALSE), s.data = <<>>, s.got_fin = FALSE,
         NEW seg, Fair(seg), Fits(s.pcb, seg), NEW t, t = tcp_input(s, seg)
  PROVE  Ok(t, <<>>, FALSE)
<1>1. PICK y : y = IF s.pcb.refused.held THEN tcp_process_refused_data(s) ELSE s
  OBVIOUS
<1>2. t = DeliverUnlessHeld(y, seg)
  <2>1. t = Given(IF s.pcb.refused.held THEN tcp_process_refused_data(s) ELSE s, LAMBDA u : DeliverUnlessHeld(u, seg))
    BY DEF tcp_input
  <2>2. t = Given(y, LAMBDA u : DeliverUnlessHeld(u, seg))
    BY <1>1, <2>1
  <2> QED
    BY <2>2, ZenonT(30) DEF Given
<1>3. Ok(y, <<>>, FALSE) /\ y.data = <<>> /\ y.got_fin = FALSE /\ Roomier(s, y)
  <2>1. CASE s.pcb.refused.held
    <3>1. y = tcp_process_refused_data(s)
      BY <1>1, <2>1
    <3>2. Ok(y, <<>>, FALSE) /\ y.data = s.data /\ y.got_fin = s.got_fin /\ Roomier(s, y)
      BY <2>1, <3>1, RefusedGood
    <3> QED
      BY <3>2
  <2>2. CASE ~s.pcb.refused.held
    <3>1. s.pcb.rcv_wnd \in Int
      BY OkFacts
    <3>2. Roomier(s, s)
      BY <3>1 DEF Roomier
    <3> QED
      BY <1>1, <2>2, <3>2
  <2> QED
    BY <2>1, <2>2
<1>4. Fits(y.pcb, seg)
  <2>1. PICK n \in Nat, w \in Nat, v \in Nat : Nxt(s.pcb) = n /\ s.pcb.rcv_wnd = w /\ y.pcb.rcv_wnd = v
    <3>1. Nxt(s.pcb) \in Nat /\ s.pcb.rcv_wnd \in Nat /\ y.pcb.rcv_wnd \in Nat
      BY <1>3, OkLimits
    <3> QED
      BY <3>1
  <2>2. Nxt(y.pcb) = n /\ w <= v
    BY <1>3, <2>1 DEF Roomier, Nxt
  <2>3. PICK e \in Nat : To(seg) = e
    BY GoodFacts
  <2>4. e <= n + w => e <= n + v
    BY <2>2
  <2> QED
    BY <2>1, <2>2, <2>3, <2>4 DEF Fits
<1>5. CASE y.pcb.refused.held /\ TCPLEN(seg) > 0
  BY <1>2, <1>3, <1>5 DEF DeliverUnlessHeld
<1>6. CASE ~(y.pcb.refused.held /\ TCPLEN(seg) > 0)
  <2>1. t = Deliver(y, seg)
    BY <1>2, <1>6 DEF DeliverUnlessHeld
  <2> QED
    BY <1>3, <1>4, <1>6, <2>1, DeliverGood
<1> QED
  BY <1>5, <1>6

\* The state between two events.
LEMMA HereGood ==
  ASSUME IInv, NEW c \in Surroundings, NEW s, s = Here(c)
  PROVE  /\ Ok(s, <<>>, FALSE) /\ s.data = <<>> /\ s.got_fin = FALSE /\ s.c = c
         /\ s.pcb = pcb /\ s.app = app /\ s.peer = peer
<1>1. Sound(pcb, app, peer, <<>>, FALSE) /\ pcb \in PcbType /\ app \in AppType /\ peer \in PeerType
  BY DEF IInv, Sound
<1>2. s = [pcb |-> pcb, app |-> app, peer |-> peer, data |-> <<>>, got_fin |-> FALSE, c |-> c]
  BY DEF Here
<1>3. <<>> \in Seq(Int)
  OBVIOUS
<1>4. s \in StateType
  BY <1>1, <1>2, <1>3 DEF StateType
<1>5. /\ s.data = <<>> /\ s.got_fin = FALSE /\ s.c = c
      /\ s.pcb = pcb /\ s.app = app /\ s.peer = peer
  BY <1>2
<1>6. Ok(s, <<>>, FALSE)
  BY <1>1, <1>4, <1>5 DEF Ok
<1> QED
  BY <1>5, <1>6

\* What an event leaves is the next state.
LEMMA BecomeGood ==
  ASSUME isn \in Isns, NEW t, Ok(t, <<>>, FALSE),
         pcb' = t.pcb, app' = t.app, peer' = t.peer, isn' = isn
  PROVE  IInv'
<1>1. Sound(t.pcb, t.app, t.peer, <<>>, FALSE)
  BY DEF Ok
<1>2. PICK p, a, r : p = t.pcb /\ a = t.app /\ r = t.peer
  OBVIOUS
<1>3. Sound(p, a, r, <<>>, FALSE)
  BY <1>1, <1>2
<1>4. \A q, lo, hi : Queue(q, lo, hi) <=> Queue(q, lo, hi)'
  BY DEF Queue, Good, Fair, From, To
<1>5. Sound(p, a, r, <<>>, FALSE)'
  BY <1>3, <1>4 DEF Sound, Edges, Stream, Window, Fins, Nxt
<1> QED
  BY <1>2, <1>5 DEF IInv

LEMMA ArriveKeeps ==
  ASSUME Start, IInv, NEW x \in Sendable, NEW c \in Surroundings, Arrive(x, c)
  PROVE  IInv'
<1>1. PICK s, seg : s = Here(c) /\ seg = Segment(x.pos, x.len, x.fin) /\ Become(tcp_input(s, seg))
  BY DEF Arrive
<1>2. /\ Ok(s, <<>>, FALSE) /\ s.data = <<>> /\ s.got_fin = FALSE
      /\ s.pcb = pcb /\ s.app = app /\ s.peer = peer
  BY <1>1, HereGood
<1>3. PICK o \in Nat, l \in Nat, f \in BOOLEAN : x.pos = o /\ x.len = l /\ x.fin = f
  BY Sizes DEF Sendable
<1>4. PICK j \in Nat : j = Int1(f) /\ j = IF f THEN 1 ELSE 0
  BY DEF Int1
<1>5. /\ o + l <= N /\ (f => o + l = N) /\ o <= N
      /\ \/ o + l + j <= peer.edge
         \/ o = peer.ack /\ o + l + j = o + 1
  BY <1>3, <1>4, Sizes DEF Sendable
<1>6. Fair(seg) /\ From(seg) = o /\ To(seg) = o + l + j
  <2>1. SeqNo(o) = isn + o
    BY <1>5, Positions, Sizes
  <2>2. seg = [seq |-> isn + o, len |-> l, fin |-> f, p |-> Run(o, l)]
    BY <1>1, <1>3, <2>1 DEF Segment, Run
  <2>3. Run(o, l) \in Seq(Int) /\ isn + o \in Int /\ isn + o - isn = o
    BY RunLen DEF Start
  <2>4. PICK q \in Int, r \in Seq(Int) : q = isn + o /\ r = Run(o, l)
    BY <2>3
  <2>5. seg = [seq |-> q, len |-> l, fin |-> f, p |-> r]
    BY <2>2, <2>4
  <2>6. seg \in SegType /\ seg.seq = q /\ seg.len = l /\ seg.fin = f /\ seg.p = r
    BY <2>5 DEF SegType
  <2>7. From(seg) = o
    BY <2>3, <2>4, <2>6 DEF From, Start
  <2>8. Fair(seg)
    BY <1>5, <2>4, <2>6, <2>7 DEF Fair
  <2>9. TCPLEN(seg) = l + j
    BY <1>4, <2>6 DEF TCPLEN
  <2>10. o + (l + j) = o + l + j
    OBVIOUS
  <2> QED
    BY <2>7, <2>8, <2>9, <2>10 DEF To
<1>7. Fits(s.pcb, seg)
  <2>1. /\ Nxt(pcb) \in 0..(N + 1) /\ pcb.rcv_wnd \in 0..Wnd /\ pcb.ann_wnd \in 0..pcb.rcv_wnd
        /\ pcb.ann_edge - isn \in 0..(Nxt(pcb) + pcb.ann_wnd)
        /\ peer.ack \in 0..Nxt(pcb) /\ peer.edge \in 0..(pcb.ann_edge - isn)
    BY DEF IInv, Sound, Edges
  <2>2. PICK n \in Nat, w \in Nat, v \in Nat, e \in Nat :
          Nxt(pcb) = n /\ pcb.rcv_wnd = w /\ pcb.ann_wnd = v /\ pcb.ann_edge - isn = e
    BY <2>1, Sizes
  <2>3. v <= w /\ e <= n + v /\ peer.ack \in 0..n /\ peer.edge \in 0..e
    BY <2>1, <2>2
  <2>4. o + l + j <= n + w \/ (o <= n /\ o + l + j = o + 1)
    BY <1>5, <2>3
  <2> QED
    BY <1>2, <1>6, <2>2, <2>4 DEF Fits
<1>8. PICK t : t = tcp_input(s, seg) /\ pcb' = t.pcb /\ app' = t.app /\ peer' = t.peer /\ isn' = isn
  BY <1>1 DEF Become
<1>9. Ok(t, <<>>, FALSE)
  BY <1>2, <1>6, <1>7, <1>8, InputGood
<1>10. isn \in Isns
  BY DEF IInv
<1> QED
  BY <1>8, <1>9, <1>10, BecomeGood

LEMMA RecvedKeeps ==
  ASSUME Start, IInv, NEW n, NEW c \in Surroundings, Recved(n, c)
  PROVE  IInv'
<1>1. PICK s, x : s = Here(c) /\ x = tcp_recved(s, n)
  OBVIOUS
<1>2. Ok(s, <<>>, FALSE) /\ s.app = app
  BY <1>1, HereGood
<1>3. s.app.unread \in Nat
  BY <1>2, OkFacts
<1>4. PICK k \in Nat : k = n /\ k <= s.app.unread
  BY <1>2, <1>3 DEF Recved
<1>5. x = tcp_recved(s, k)
  BY <1>1, <1>4
<1>6. Ok(x, <<>>, FALSE)
  BY <1>2, <1>4, <1>5, RecvedGood
<1>7. PICK t : t = tcp_output(x) /\ pcb' = t.pcb /\ app' = t.app /\ peer' = t.peer /\ isn' = isn
  BY <1>1 DEF Recved, Become
<1>8. Ok(t, <<>>, FALSE)
  BY <1>6, <1>7, OutputGood
<1>9. isn \in Isns
  BY DEF IInv
<1> QED
  BY <1>7, <1>8, <1>9, BecomeGood

LEMMA FastKeeps ==
  ASSUME Start, IInv, NEW c \in Surroundings, tcp_fasttmr(c)
  PROVE  IInv'
<1>1. PICK h : h = Here(c)
  OBVIOUS
<1>2. PICK s : s = IF pcb.ack_delay THEN tcp_send_empty_ack(h) ELSE h
  OBVIOUS
<1>3. PICK t : /\ t = IF pcb.refused.held THEN tcp_process_refused_data(s) ELSE s
               /\ pcb' = t.pcb /\ app' = t.app /\ peer' = t.peer /\ isn' = isn
  BY <1>1, <1>2 DEF tcp_fasttmr, Become
<1>4. Ok(h, <<>>, FALSE) /\ h.pcb = pcb
  BY <1>1, HereGood
<1>5. Ok(s, <<>>, FALSE) /\ s.pcb.refused = pcb.refused
  <2>1. CASE pcb.ack_delay
    <3>1. Ok(s, <<>>, FALSE) /\ Kept(h, s)
      BY <1>2, <1>4, <2>1, AckSent
    <3> QED
      BY <1>4, <3>1 DEF Kept
  <2>2. CASE ~pcb.ack_delay
    BY <1>2, <1>4, <2>2
  <2> QED
    BY <2>1, <2>2
<1>6. Ok(t, <<>>, FALSE)
  <2>1. CASE pcb.refused.held
    <3>1. s.pcb.refused.held /\ t = tcp_process_refused_data(s)
      BY <1>3, <1>5, <2>1
    <3> QED
      BY <1>5, <3>1, RefusedGood
  <2>2. CASE ~pcb.refused.held
    BY <1>3, <1>5, <2>2
  <2> QED
    BY <2>1, <2>2
<1>7. isn \in Isns
  BY DEF IInv
<1> QED
  BY <1>3, <1>6, <1>7, BecomeGood

LEMMA SlowKeeps ==
  ASSUME IInv, tcp_slowtmr_ooseq
  PROVE  IInv'
<1>1. PICK c : c = [lost |-> TRUE, takes |-> TRUE, reads |-> TRUE]
  OBVIOUS
<1>2. c \in Surroundings
  BY <1>1 DEF Surroundings
<1>3. PICK s : s = Here(c)
  OBVIOUS
<1>4. Ok(s, <<>>, FALSE) /\ s.pcb = pcb /\ s.app = app /\ s.peer = peer
  BY <1>2, <1>3, HereGood
<1>5. PICK q : q = <<>>
  OBVIOUS
<1>6. InWindow(q, s.pcb)
  BY <1>5, QueueEmpty DEF InWindow
<1>7. PICK t : t = WithQueue(s, q)
  OBVIOUS
<1>8. Ok(t, <<>>, FALSE)
  BY <1>4, <1>6, <1>7, QueueReplaced
<1>9. s \in StateType
  BY <1>4 DEF Ok
<1>10. t.pcb = [pcb EXCEPT !.ooseq = <<>>] /\ t.app = app /\ t.peer = peer
  BY <1>4, <1>5, <1>7, <1>9 DEF WithQueue, StateType
<1>11. pcb' = [pcb EXCEPT !.ooseq = <<>>] /\ app' = app /\ peer' = peer /\ isn' = isn
  BY DEF tcp_slowtmr_ooseq, Become, Here
<1>12. isn \in Isns
  BY DEF IInv
<1> QED
  BY <1>8, <1>10, <1>11, <1>12, BecomeGood

-----------------------------------------------------------------------------
(* The inductive invariant, and what follows from it *)

LEMMA InitHolds ==
  ASSUME NoWrap, RecvInit
  PROVE  IInv
<1>1. isn \in Isns /\ Start
  BY StartHolds DEF RecvInit
<1>2. SeqNo(Wnd) = isn + Wnd
  BY <1>1, Positions, Sizes
<1>3. isn \in Int /\ isn + Wnd \in Int
  BY <1>1, Sizes DEF Start
<1>4. /\ NoRefused \in RefusedType /\ ~NoRefused.held /\ NoRefused.p = <<>> /\ ~NoRefused.fin
      /\ Len(NoRefused.p) = 0
  BY DEF NoRefused, RefusedType
<1>5. pcb = [rcv_nxt |-> isn, rcv_wnd |-> Wnd, ann_wnd |-> Wnd, ann_edge |-> isn + Wnd,
             ooseq |-> <<>>, state |-> "ESTABLISHED", ack_delay |-> FALSE,
             ack_now |-> FALSE, refused |-> NoRefused]
  BY <1>2 DEF RecvInit
<1>6. /\ pcb.rcv_nxt = isn /\ pcb.rcv_wnd = Wnd /\ pcb.ann_wnd = Wnd /\ pcb.ann_edge = isn + Wnd
      /\ pcb.ooseq = <<>> /\ pcb.state = "ESTABLISHED" /\ pcb.refused = NoRefused
  BY <1>5
<1>7. pcb \in PcbType
  <2>1. <<>> \in Seq(SegType) /\ Wnd \in Int
    BY Sizes
  <2> QED
    BY <1>3, <1>4, <1>5, <2>1 DEF PcbType
<1>8. app \in AppType /\ app.got = <<>> /\ app.unread = 0 /\ app.eof = FALSE
  <2>1. <<>> \in Seq(Int)
    OBVIOUS
  <2> QED
    BY <2>1 DEF RecvInit, AppType
<1>9. peer \in PeerType /\ peer.ack = 0 /\ peer.edge = Wnd
  BY Sizes DEF RecvInit, PeerType
<1>10. Nxt(pcb) = 0 /\ pcb.ann_edge - isn = Wnd
  BY <1>3, <1>6, Sizes DEF Nxt
<1>11. Edges(pcb, peer)
  BY <1>6, <1>9, <1>10, Sizes DEF Edges
<1>12. Stream(pcb, app, <<>>, FALSE)
  <2>1. <<>> = Run(0, 0)
    BY RunLen
  <2>2. Len(<<>>) = 0 /\ Int1(pcb.state = "CLOSE_WAIT") = 0 /\ 0 + 0 = 0
    BY <1>6 DEF Int1
  <2> QED
    BY <1>4, <1>6, <1>8, <1>10, <2>1, <2>2 DEF Stream
<1>13. Window(pcb, app, <<>>, FALSE)
  BY <1>4, <1>6, <1>8, Sizes DEF Window, Int1
<1>14. Fins(pcb, app, <<>>, FALSE)
  BY <1>4, <1>6, <1>8 DEF Fins
<1>15. Queue(pcb.ooseq, Nxt(pcb), Nxt(pcb) + pcb.rcv_wnd)
  BY <1>6, QueueEmpty
<1>16. <<>> \in Seq(Int) /\ FALSE \in BOOLEAN
  OBVIOUS
<1>17. Sound(pcb, app, peer, <<>>, FALSE)
  BY <1>7, <1>8, <1>9, <1>11, <1>12, <1>13, <1>14, <1>15, <1>16 DEF Sound
<1> QED
  BY <1>1, <1>17 DEF IInv

LEMMA StepKeeps ==
  ASSUME NoWrap, IInv, [RecvNext]_rvars
  PROVE  IInv'
<1>1. isn \in Isns /\ Start
  BY StartHolds DEF IInv
<1>2. ASSUME NEW x \in Sendable, NEW c \in Surroundings, Arrive(x, c) PROVE IInv'
  BY <1>1, <1>2, ArriveKeeps
<1>3. ASSUME NEW n \in 1..(Wnd + 1), NEW c \in Surroundings, Recved(n, c) PROVE IInv'
  BY <1>1, <1>3, RecvedKeeps
<1>4. ASSUME NEW c \in Surroundings, tcp_fasttmr(c) PROVE IInv'
  BY <1>1, <1>4, FastKeeps
<1>5. CASE tcp_slowtmr_ooseq
  BY <1>5, SlowKeeps
<1>6. CASE UNCHANGED rvars
  <2>1. pcb' = pcb /\ app' = app /\ peer' = peer /\ isn' = isn
    BY <1>6 DEF rvars
  <2>2. PICK c : c = [lost |-> TRUE, takes |-> TRUE, reads |-> TRUE]
    OBVIOUS
  <2>3. c \in Surroundings
    BY <2>2 DEF Surroundings
  <2>4. PICK s : s = Here(c)
    OBVIOUS
  <2>5. Ok(s, <<>>, FALSE) /\ s.pcb = pcb /\ s.app = app /\ s.peer = peer
    BY <2>3, <2>4, HereGood
  <2> QED
    BY <1>1, <2>1, <2>5, BecomeGood
<1> QED
  BY <1>2, <1>3, <1>4, <1>5, <1>6 DEF RecvNext

\* The numbers of a state between two events.
LEMMA Numbers ==
  ASSUME NoWrap, IInv
  PROVE  /\ Start /\ pcb \in PcbType /\ app \in AppType /\ peer \in PeerType
         /\ Nxt(pcb) \in 0..(N + 1) /\ pcb.rcv_wnd \in 0..Wnd /\ pcb.ann_wnd \in 0..pcb.rcv_wnd
         /\ pcb.ann_edge - isn \in 0..(Nxt(pcb) + pcb.ann_wnd)
         /\ peer.ack \in 0..Nxt(pcb) /\ peer.edge \in 0..(pcb.ann_edge - isn)
         /\ pcb.rcv_nxt \in Int /\ pcb.ann_edge \in Int
         /\ app.got \in Seq(Int) /\ pcb.refused.p \in Seq(Int) /\ app.unread \in Nat
         /\ Len(app.got) \in Nat /\ Len(pcb.refused.p) \in Nat
         /\ app.got = Run(0, Len(app.got)) /\ pcb.refused.p = Run(Len(app.got), Len(pcb.refused.p))
         /\ Nxt(pcb) = Len(app.got) + Len(pcb.refused.p) + Int1(pcb.state = "CLOSE_WAIT")
         /\ pcb.rcv_wnd + app.unread + Len(pcb.refused.p) + Int1(pcb.refused.fin) = Wnd
<1>1. Start
  BY StartHolds DEF IInv
<1>2. /\ pcb \in PcbType /\ app \in AppType /\ peer \in PeerType
      /\ Edges(pcb, peer) /\ Stream(pcb, app, <<>>, FALSE) /\ Window(pcb, app, <<>>, FALSE)
  BY DEF IInv, Sound
<1>3. /\ pcb.rcv_nxt \in Int /\ pcb.ann_edge \in Int /\ app.got \in Seq(Int)
      /\ pcb.refused \in RefusedType /\ pcb.rcv_wnd \in Int /\ app.unread \in Nat
  BY <1>2 DEF PcbType, AppType, Window
<1>4. pcb.refused.p \in Seq(Int)
  BY <1>3 DEF RefusedType
<1>5. Len(app.got) \in Nat /\ Len(pcb.refused.p) \in Nat
  BY <1>3, <1>4
<1>6. PICK g \in Nat, b \in Nat, i \in Nat, w \in Int, u \in Nat, y \in Nat :
        /\ Len(app.got) = g /\ Len(pcb.refused.p) = b /\ Int1(pcb.state = "CLOSE_WAIT") = i
        /\ pcb.rcv_wnd = w /\ app.unread = u /\ Int1(pcb.refused.fin) = y
  <2>1. Int1(pcb.state = "CLOSE_WAIT") \in Nat /\ Int1(pcb.refused.fin) \in Nat
    BY DEF Int1
  <2> QED
    BY <1>3, <1>5, <2>1
<1>7. Len(<<>>) = 0 /\ Int1(FALSE) = 0
  BY DEF Int1
<1>8. Nxt(pcb) = g + b + 0 + i /\ w + u + b + y + 0 + 0 = Wnd
  BY <1>2, <1>6, <1>7 DEF Stream, Window
<1>9. Nxt(pcb) = g + b + i /\ w + u + b + y = Wnd
  BY <1>8
<1> QED
  BY <1>1, <1>2, <1>3, <1>4, <1>5, <1>6, <1>9 DEF Edges, Stream

\* The same as offsets in the stream.
LEMMA Offsets ==
  ASSUME NoWrap, IInv
  PROVE  \E x \in Nat, w \in Nat, a \in Nat, e \in Nat :
           /\ Nxt(pcb) = x /\ pcb.rcv_wnd = w /\ pcb.ann_wnd = a
           /\ pcb.rcv_nxt = isn + x /\ pcb.ann_edge = isn + e
           /\ PosOf(pcb.rcv_nxt) = x /\ PosOf(pcb.ann_edge) = e
           /\ x <= N + 1 /\ w <= Wnd /\ a <= w /\ e <= x + a
           /\ peer.ack \in 0..x /\ peer.edge \in 0..e
<1>1. /\ pcb.rcv_nxt \in Int /\ pcb.ann_edge \in Int /\ pcb.rcv_wnd \in Int
      /\ pcb.ann_wnd \in Int /\ isn \in Nat
  BY Numbers DEF PcbType, Start
<1>2. PICK x \in Int, w \in Int, a \in Int, e \in Int :
        /\ pcb.rcv_nxt - isn = x /\ pcb.rcv_wnd = w /\ pcb.ann_wnd = a /\ pcb.ann_edge - isn = e
  BY <1>1
<1>3. /\ x \in 0..(N + 1) /\ w \in 0..Wnd /\ a \in 0..w /\ e \in 0..(x + a)
      /\ peer.ack \in 0..x /\ peer.edge \in 0..e
  BY Numbers, <1>2 DEF Nxt
<1>4. pcb.rcv_nxt = isn + x /\ pcb.ann_edge = isn + e
  BY <1>1, <1>2
<1>5. /\ x \in Nat /\ w \in Nat /\ a \in Nat /\ e \in Nat
      /\ x <= N + 1 /\ w <= Wnd /\ a <= w /\ e <= x + a
      /\ x \in 0..(N + Wnd + 1) /\ e \in 0..(N + Wnd + 1)
  BY <1>3, Sizes
<1>6. PosOf(isn + x) = x /\ PosOf(isn + e) = e
  BY <1>5, Numbers, Positions
<1>7. PosOf(pcb.rcv_nxt) = x /\ PosOf(pcb.ann_edge) = e
  BY <1>4, <1>6
<1>8. Nxt(pcb) = x
  BY <1>2 DEF Nxt
<1> QED
  BY <1>2, <1>3, <1>4, <1>5, <1>7, <1>8

-----------------------------------------------------------------------------
(* The theorems *)

LEMMA Inductive == ASSUME NoWrap PROVE RecvSpec => []IInv
<1>1. RecvInit => IInv
  BY InitHolds
<1>2. IInv /\ [RecvNext]_rvars => IInv'
  BY StepKeeps
<1> QED
  BY <1>1, <1>2, PTL DEF RecvSpec

\* Every field keeps its range, however the window, the timers and the
\* callbacks move it: rcv_wnd and rcv_ann_wnd stay within TCP_WND.
THEOREM RecvTypeCorrect == ASSUME NoWrap PROVE RecvSpec => []RecvTypeOK
<1>1. IInv => RecvTypeOK
  <2> SUFFICES ASSUME IInv PROVE RecvTypeOK
    OBVIOUS
  <2>1. PICK x \in Nat, w \in Nat, a \in Nat, e \in Nat :
          /\ Nxt(pcb) = x /\ pcb.rcv_wnd = w /\ pcb.ann_wnd = a
          /\ pcb.rcv_nxt = isn + x /\ pcb.ann_edge = isn + e
          /\ PosOf(pcb.rcv_nxt) = x /\ PosOf(pcb.ann_edge) = e
          /\ x <= N + 1 /\ w <= Wnd /\ a <= w /\ e <= x + a
          /\ peer.ack \in 0..x /\ peer.edge \in 0..e
    BY Offsets
  <2>2. isn \in Nat /\ isn + N + Wnd + 1 < M
    BY Numbers DEF Start
  <2>3. pcb.rcv_nxt \in 0..(M - 1) /\ pcb.ann_edge \in 0..(M - 1)
    <3>1. isn + x \in 0..(M - 1) /\ isn + e \in 0..(M - 1)
      BY <2>1, <2>2, Sizes
    <3> QED
      BY <2>1, <3>1
  <2>4. w \in 0..Wnd /\ a \in 0..Wnd /\ peer.ack \in 0..(N + 1) /\ peer.edge \in 0..(N + 1 + Wnd)
    BY <2>1, Sizes
  <2>5. pcb.state \in {"ESTABLISHED", "CLOSE_WAIT"}
    BY Numbers DEF PcbType
  <2>6. PICK g \in Nat, b \in Nat, i \in Nat, u \in Nat, y \in Nat :
          /\ Len(app.got) = g /\ Len(pcb.refused.p) = b /\ Int1(pcb.state = "CLOSE_WAIT") = i
          /\ app.unread = u /\ Int1(pcb.refused.fin) = y
    <3>1. Int1(pcb.state = "CLOSE_WAIT") \in Nat /\ Int1(pcb.refused.fin) \in Nat
      BY DEF Int1
    <3> QED
      BY <3>1, Numbers
  <2>7. x = g + b + i /\ w + u + b + y = Wnd
    BY Numbers, <2>1, <2>6
  <2>8. u \in 0..Wnd /\ g <= N + 1
    BY <2>1, <2>7, Sizes
  <2>9. app.got \in Seq(0..N)
    <3>1. app.got = Run(0, g)
      BY Numbers, <2>6
    <3> QED
      BY <3>1, <2>8, Sizes DEF Run
  <2> QED
    BY <2>1, <2>3, <2>4, <2>5, <2>6, <2>8, <2>9 DEF RecvTypeOK
<1> QED
  BY <1>1, Inductive, PTL

\* What is acknowledged to the peer is what the application has been handed
\* or what is held for it, every byte once and in order, and the end of the
\* stream is reported behind its last byte.
THEOREM DeliveredInOrder == ASSUME NoWrap PROVE RecvSpec => []InOrder
<1>1. IInv => InOrder
  <2> SUFFICES ASSUME IInv PROVE InOrder
    OBVIOUS
  <2>1. PICK x \in Nat, w \in Nat, a \in Nat, e \in Nat :
          /\ Nxt(pcb) = x /\ pcb.rcv_wnd = w /\ pcb.ann_wnd = a
          /\ pcb.rcv_nxt = isn + x /\ pcb.ann_edge = isn + e
          /\ PosOf(pcb.rcv_nxt) = x /\ PosOf(pcb.ann_edge) = e
          /\ x <= N + 1 /\ w <= Wnd /\ a <= w /\ e <= x + a
          /\ peer.ack \in 0..x /\ peer.edge \in 0..e
    BY Offsets
  <2>3. Fins(pcb, app, <<>>, FALSE)
    BY DEF IInv, Sound
  <2>4. PICK g \in Nat, b \in Nat : Len(app.got) = g /\ Len(pcb.refused.p) = b
    BY Numbers
  <2>5. Cat(app.got, pcb.refused.p) = Run(0, g + b)
    <3>1. app.got = Run(0, g) /\ pcb.refused.p = Run(g, b)
      BY <2>4, Numbers
    <3>2. Cat(Run(0, g), Run(g, b)) = Run(0, g + b)
      BY RunCat
    <3> QED
      BY <3>1, <3>2
  <2>6. Len(Cat(app.got, pcb.refused.p)) = g + b
        /\ \A i \in 1..(g + b) : Cat(app.got, pcb.refused.p)[i] = i - 1
    <3>1. Len(Run(0, g + b)) = g + b /\ \A i \in 1..(g + b) : Run(0, g + b)[i] = 0 + i - 1
      BY RunLen
    <3> QED
      BY <2>5, <3>1
  <2>7. x = g + b + (IF app.eof \/ pcb.refused.fin THEN 1 ELSE 0)
    BY <2>1, <2>3, <2>4, Numbers DEF Fins, Int1
  <2>8. app.eof => g = N
    <3> SUFFICES ASSUME app.eof PROVE g = N
      OBVIOUS
    <3>1. Nxt(pcb) = N + 1 /\ pcb.refused = NoRefused
      BY <2>3 DEF Fins
    <3>2. b = 0
      BY <2>4, <3>1 DEF NoRefused
    <3>3. x = N + 1 /\ x = g + b + 1
      BY <2>1, <2>7, <3>1
    <3> QED
      BY <3>2, <3>3, Sizes
  <2> QED
    BY <2>1, <2>4, <2>6, <2>7, <2>8 DEF InOrder, Cat
<1> QED
  BY <1>1, Inductive, PTL

\* The out-of-sequence queue of tcp_receive stays sorted and free of
\* overlaps, beyond rcv_nxt and inside the window, with a FIN only at its
\* end, whatever the segments that are inserted, cut, taken over or dropped.
THEOREM OoseqSound == ASSUME NoWrap PROVE RecvSpec => []OoseqShape
<1>1. IInv => OoseqShape
  <2> SUFFICES ASSUME IInv PROVE OoseqShape
    OBVIOUS
  <2>1. PICK x \in Nat, w \in Nat, a \in Nat, e \in Nat :
          /\ Nxt(pcb) = x /\ pcb.rcv_wnd = w /\ pcb.ann_wnd = a
          /\ pcb.rcv_nxt = isn + x /\ pcb.ann_edge = isn + e
          /\ PosOf(pcb.rcv_nxt) = x /\ PosOf(pcb.ann_edge) = e
          /\ x <= N + 1 /\ w <= Wnd /\ a <= w /\ e <= x + a
          /\ peer.ack \in 0..x /\ peer.edge \in 0..e
    BY Offsets
  <2>3. PICK q : q = pcb.ooseq
    OBVIOUS
  <2>4. Queue(q, x, x + w)
    BY <2>1, <2>3 DEF IInv, Sound
  <2>5. Len(q) \in Nat
    BY <2>4 DEF Queue
  <2>6. ASSUME NEW i \in 1..Len(q)
        PROVE  /\ Fair(q[i]) /\ PosOf(q[i].seq) = From(q[i]) /\ From(q[i]) \in Nat
               /\ To(q[i]) = From(q[i]) + TCPLEN(q[i]) /\ x < From(q[i]) /\ To(q[i]) <= x + w
               /\ q[i].p = [j \in 1..q[i].len |-> From(q[i]) + j - 1]
               /\ (q[i].fin => To(q[i]) = N + 1)
    <3>1. Fair(q[i]) /\ x < From(q[i]) /\ To(q[i]) <= x + w
      BY <2>4 DEF Queue, Good
    <3>2. /\ q[i].seq = isn + From(q[i]) /\ From(q[i]) \in Nat /\ q[i].len \in Nat
          /\ From(q[i]) + q[i].len <= N /\ To(q[i]) = From(q[i]) + TCPLEN(q[i])
          /\ TCPLEN(q[i]) = q[i].len + Int1(q[i].fin) /\ (q[i].fin => From(q[i]) + q[i].len = N)
      BY <3>1, Numbers, GoodFacts
    <3>3. From(q[i]) \in 0..(N + Wnd + 1)
      BY <3>2, Sizes
    <3>4. PosOf(q[i].seq) = From(q[i])
      BY <3>2, <3>3, Numbers, Positions
    <3>5. q[i].fin => To(q[i]) = N + 1
      <4> SUFFICES ASSUME q[i].fin PROVE To(q[i]) = N + 1
        OBVIOUS
      <4>1. Int1(q[i].fin) = 1
        BY DEF Int1
      <4>2. PICK b \in Nat, l \in Nat : From(q[i]) = b /\ q[i].len = l
        BY <3>2
      <4>3. To(q[i]) = b + (l + 1) /\ b + l = N
        BY <3>2, <4>1, <4>2
      <4> QED
        BY <4>3, Sizes
    <3>6. q[i].p = [j \in 1..q[i].len |-> From(q[i]) + j - 1]
      BY <3>1 DEF Fair, Run
    <3> QED
      BY <3>1, <3>2, <3>4, <3>5, <3>6
  <2>7. ASSUME NEW i \in 1..Len(q), i < Len(q)
        PROVE  To(q[i]) <= From(q[i + 1]) /\ ~q[i].fin /\ PosOf(q[i + 1].seq) = From(q[i + 1])
    <3>1. i + 1 \in 1..Len(q) /\ i < i + 1
      BY <2>5, <2>7
    <3> QED
      BY <2>4, <2>6, <3>1 DEF Queue
  <2>8. ASSUME NEW i \in 1..Len(q)
        PROVE  /\ q[i].p = [j \in 1..q[i].len |-> PosOf(q[i].seq) + j - 1]
               /\ PosOf(pcb.rcv_nxt) < PosOf(q[i].seq)
               /\ PosOf(q[i].seq) + TCPLEN(q[i]) <= PosOf(pcb.rcv_nxt) + pcb.rcv_wnd
               /\ (i < Len(q) => /\ PosOf(q[i].seq) + TCPLEN(q[i]) <= PosOf(q[i + 1].seq)
                                 /\ ~q[i].fin)
               /\ (q[i].fin => PosOf(q[i].seq) + TCPLEN(q[i]) = N + 1)
    BY <2>1, <2>6, <2>7
  <2> QED
    BY <2>3, <2>8 DEF OoseqShape
<1> QED
  BY <1>1, Inductive, PTL

\* No byte of the receive window is lost: what rcv_wnd lacks is unread, or
\* held for the application, and tcp_recved gives it back.
THEOREM RecvWindowKept == ASSUME NoWrap PROVE RecvSpec => []RecvWindowAccounted
<1>1. IInv => RecvWindowAccounted
  BY Numbers DEF RecvWindowAccounted, Int1
<1> QED
  BY <1>1, Inductive, PTL

\* tcp_update_rcv_ann_wnd never takes back an edge that has been announced,
\* and never announces more than is free.
THEOREM EdgeNeverBack == ASSUME NoWrap PROVE RecvSpec => []EdgeKept
<1>1. IInv => EdgeKept
  <2> SUFFICES ASSUME IInv PROVE EdgeKept
    OBVIOUS
  <2>1. PICK x \in Nat, w \in Nat, a \in Nat, e \in Nat :
          /\ Nxt(pcb) = x /\ pcb.rcv_wnd = w /\ pcb.ann_wnd = a
          /\ pcb.rcv_nxt = isn + x /\ pcb.ann_edge = isn + e
          /\ PosOf(pcb.rcv_nxt) = x /\ PosOf(pcb.ann_edge) = e
          /\ x <= N + 1 /\ w <= Wnd /\ a <= w /\ e <= x + a
          /\ peer.ack \in 0..x /\ peer.edge \in 0..e
    BY Offsets
  <2>2. isn \in Nat
    BY Numbers DEF Start
  <2>4. TCP_SEQ_LEQ(isn + e, isn + x + a)
    <3>1. PICK l \in Int, r \in Int : l = isn + e /\ r = isn + x + a
      BY <2>1, <2>2
    <3>2. l <= r /\ l - r <= N + Wnd + Wnd + 1 /\ r - l <= N + Wnd + Wnd + 1
      BY <2>1, <2>2, <3>1, Sizes
    <3>3. TCP_SEQ_LEQ(l, r)
      BY <3>2, SeqOrder
    <3> QED
      BY <3>1, <3>3
  <2>5. a <= w /\ peer.edge <= e
    BY <2>1, Sizes
  <2> QED
    BY <2>1, <2>4, <2>5 DEF EdgeKept
<1> QED
  BY <1>1, Inductive, PTL
=============================================================================
