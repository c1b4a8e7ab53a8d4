------------------------- MODULE NetworkSpaceProofs --------------------------
(***************************************************************************)
(* Proofs about NetworkSpace, for every address width.  That the list is   *)
(* disjoint holds for any networks; that it routes what the longest prefix *)
(* says, for the networks that FewExceptions admits.                       *)
(***************************************************************************)
EXTENDS NetworkSpace, WellFoundedInduction, TLAPS

\* Every non-empty set of naturals has a least element.
LEMMA NatMin ==
    ASSUME NEW T, T \subseteq Nat, T # {}
    PROVE  \E x \in T : \A y \in T : x <= y
<1> DEFINE R == {p \in Nat \X Nat : p[1] < p[2]}
<1>1. IsWellFoundedOn(R, Nat)
  BY NatLessThanWellFounded DEF OpToRel
<1> HIDE DEF R
<1>2. PICK x \in T : \A y \in T : ~(<<y, x>> \in R)
  BY <1>1, WFMin
<1>3. \A y \in T : ~(y < x)
  BY <1>2 DEF R
<1> QED
  BY <1>3

-----------------------------------------------------------------------------
(* The powers of two *)

\* g lists the powers of two up to n
Powers(n, g) ==
    /\ g \in [0..n -> Nat \ {0}]
    /\ g[0] = 1
    /\ \A i \in 1..n : g[i] = 2 * g[i - 1]

\* There is such a list for every n.
LEMMA PowersExist == \A n \in Nat : \E g : Powers(n, g)
<1> DEFINE T == {n \in Nat : ~\E g : Powers(n, g)}
<1> SUFFICES ASSUME T # {} PROVE FALSE
  OBVIOUS
<1>1. PICK n \in T : \A m \in T : n <= m
  <2>1. T \subseteq Nat
    OBVIOUS
  <2> HIDE DEF T
  <2> QED
    BY <2>1, NatMin
<1>2. n # 0
  <2>1. Powers(0, [i \in 0..0 |-> 1])
    BY DEF Powers
  <2> QED
    BY <2>1
<1>3. PICK g : Powers(n - 1, g)
  BY <1>1, <1>2
<1> DEFINE h == [i \in 0..n |-> IF i = n THEN 2 * g[n - 1] ELSE g[i]]
<1>4. Powers(n, h)
  <2>1. h \in [0..n -> Nat \ {0}]
    BY <1>2, <1>3 DEF Powers
  <2>2. h[0] = 1
    BY <1>2, <1>3 DEF Powers
  <2>3. \A i \in 1..n : h[i] = 2 * h[i - 1]
    BY <1>2, <1>3 DEF Powers
  <2> QED
    BY <2>1, <2>2, <2>3 DEF Powers
<1> QED
  BY <1>1, <1>4

\* Two such lists agree as far as both go.
LEMMA PowersAgree ==
    ASSUME NEW n \in Nat, NEW m \in Nat, NEW g, NEW h, Powers(n, g), Powers(m, h)
    PROVE  \A i \in 0..n : i <= m => g[i] = h[i]
<1> DEFINE T == {i \in 0..n : i <= m /\ g[i] # h[i]}
<1> SUFFICES ASSUME T # {} PROVE FALSE
  OBVIOUS
<1>1. PICK i \in T : \A j \in T : i <= j
  <2>1. T \subseteq Nat
    OBVIOUS
  <2> HIDE DEF T
  <2> QED
    BY <2>1, NatMin
<1>2. i # 0
  BY DEF Powers
<1>3. g[i - 1] = h[i - 1]
  BY <1>1, <1>2
<1> QED
  BY <1>2, <1>3 DEF Powers

\* The recursive definition has a solution, and so PowerOfTwo is one.
LEMMA PowerOfTwoDef ==
    PowerOfTwo = [n \in Nat |-> IF n = 0 THEN 1 ELSE 2 * PowerOfTwo[n - 1]]
<1> DEFINE list(n) == CHOOSE g : Powers(n, g)
           f == [n \in Nat |-> list(n)[n]]
<1>1. \A n \in Nat : Powers(n, list(n))
  BY PowersExist
<1> HIDE DEF list
<1>2. f[0] = 1
  BY <1>1 DEF Powers
<1>3. ASSUME NEW n \in Nat, n # 0 PROVE f[n] = 2 * f[n - 1]
  <2>1. f[n] = 2 * list(n)[n - 1]
    BY <1>1, <1>3 DEF Powers
  <2>2. list(n)[n - 1] = list(n - 1)[n - 1]
    BY <1>1, <1>3, PowersAgree
  <2> QED
    BY <1>3, <2>1, <2>2
<1>4. f = [n \in Nat |-> IF n = 0 THEN 1 ELSE 2 * f[n - 1]]
  BY <1>2, <1>3
<1> QED
  BY <1>4 DEF PowerOfTwo

\* Every network has an address.
LEMMA PowerPositive == \A n \in Nat : PowerOfTwo[n] \in Nat \ {0}
<1> DEFINE T == {n \in Nat : PowerOfTwo[n] \notin Nat \ {0}}
<1> SUFFICES ASSUME T # {} PROVE FALSE
  OBVIOUS
<1>1. PICK n \in T : \A m \in T : n <= m
  <2>1. T \subseteq Nat
    OBVIOUS
  <2> HIDE DEF T
  <2> QED
    BY <2>1, NatMin
<1>2. n # 0
  BY PowerOfTwoDef
<1>3. PowerOfTwo[n - 1] \in Nat \ {0} /\ PowerOfTwo[n] = 2 * PowerOfTwo[n - 1]
  BY <1>1, <1>2, PowerOfTwoDef
<1> QED
  BY <1>3

-----------------------------------------------------------------------------
(* The list is disjoint *)

\* What any network of the queue is, also one that splitting has made longer
\* than an address
Prefix == [first : Nat, networkMask : Nat, included : BOOLEAN]

LEMMA SizePositive == \A len \in Nat : Size(len) \in Nat \ {0}
  BY PowerPositive, WidthAssumption DEF Size

\* A network that was added is one.
LEMMA NetworkIsPrefix == Network \subseteq Prefix
  BY PowerPositive, WidthAssumption DEF Network, Prefix, Addresses

\* So are the halves of one, and both start at its first address or later.
LEMMA HalfIsPrefix ==
    ASSUME NEW n \in Prefix, NEW i \in {0, 1}
    PROVE  Half(n, i) \in Prefix /\ n.first <= Half(n, i).first /\ Half(n, 0).first = n.first
<1>1. Size(n.networkMask + 1) \in Nat \ {0}
  BY SizePositive DEF Prefix
<1> QED
  BY <1>1 DEF Half, Prefix

QueueInv ==
    /\ mIpAddresses \subseteq Network
    /\ BagToSet(networks) \subseteq Prefix
    /\ ipsDone \subseteq Prefix
    /\ phase \in {"adding", "looping", "done"}
    /\ phase = "looping" => currentNet \in Prefix

\* While the loop runs everything finished lies before the network in hand,
\* and everything in the queue starts at its first address or later.
Ordered ==
    phase = "looping" =>
        /\ \A m \in ipsDone : getLastAddress(m) < currentNet.first
        /\ \A n \in BagToSet(networks) : currentNet.first <= n.first

IInv == QueueInv /\ Ordered /\ Disjoint

\* Taking one element out of the queue leaves the others.
LEMMA RestOfQueue ==
    ASSUME NEW n
    PROVE  BagToSet(networks (-) SetToBag({n})) \subseteq BagToSet(networks)
  BY DEF BagToSet, SetToBag, (-)

\* Putting one in adds only that.
LEMMA QueueAdd ==
    ASSUME NEW bag, NEW n
    PROVE  /\ BagToSet(bag (+) SetToBag({n})) = BagToSet(bag) \cup {n}
           /\ BagToSet(AddNew(bag, n)) \subseteq BagToSet(bag) \cup {n}
<1>1. BagToSet(bag (+) SetToBag({n})) = BagToSet(bag) \cup {n}
  BY DEF BagToSet, SetToBag, (+)
<1> QED
  BY <1>1 DEF AddNew

\* The network in hand may join the finished ones: all of them lie before it.
LEMMA DoneGrows ==
    ASSUME IInv, phase = "looping", ipsDone' = TreeAdd(ipsDone, currentNet)
    PROVE  /\ Disjoint'
           /\ ipsDone' \subseteq Prefix
           /\ \A m \in ipsDone' : getLastAddress(m) <= getLastAddress(currentNet)
<1>1. ipsDone' \subseteq ipsDone \cup {currentNet}
  BY DEF TreeAdd
<1>2. \A n \in Prefix : getLastAddress(n) \in Nat /\ n.first \in Nat /\ n.first <= getLastAddress(n)
  BY SizePositive DEF getLastAddress, Prefix
<1>3. Disjoint'
  BY <1>1, <1>2 DEF IInv, QueueInv, Ordered, Disjoint
<1>4. ipsDone' \subseteq Prefix
  BY <1>1 DEF IInv, QueueInv
<1>5. \A m \in ipsDone' : getLastAddress(m) <= getLastAddress(currentNet)
  BY <1>1, <1>2 DEF IInv, QueueInv, Ordered
<1> QED
  BY <1>3, <1>4, <1>5

\* One round of the loop keeps the order.
LEMMA LoopKeeps ==
    ASSUME IInv, loop
    PROVE  IInv'
<1> USE DEF IInv, QueueInv
<1>1. PICK nextNet \in Least :
        LET rest == networks (-) SetToBag({nextNet})
        IN  \/ noOverlap(nextNet, rest) \/ forgetCurrent(nextNet, rest)
            \/ splitNext(nextNet, rest) \/ ignoreNext(nextNet, rest)
            \/ splitCurrent(nextNet, rest)
  BY DEF loop
<1>2. phase = "looping" /\ UNCHANGED <<mIpAddresses, phase>>
  BY DEF loop
<1> DEFINE rest == networks (-) SetToBag({nextNet})
<1>3. /\ nextNet \in Prefix /\ currentNet.first <= nextNet.first
      /\ BagToSet(rest) \subseteq BagToSet(networks)
      /\ \A n \in BagToSet(networks) : nextNet.first <= n.first
  <2>1. nextNet \in BagToSet(networks) /\ \A n \in BagToSet(networks) : ~Before(n, nextNet)
    BY DEF Least
  <2>2. nextNet \in Prefix /\ currentNet.first <= nextNet.first
    BY <1>2, <2>1 DEF Ordered
  <2>3. \A n \in BagToSet(networks) : nextNet.first <= n.first
    BY <2>1, <2>2 DEF Before, Prefix
  <2>4. BagToSet(rest) \subseteq BagToSet(networks)
    BY RestOfQueue
  <2> QED
    BY <2>2, <2>3, <2>4
<1> HIDE DEF rest
<1>4. CASE noOverlap(nextNet, rest)
  <2>1. /\ getLastAddress(currentNet) < nextNet.first
        /\ ipsDone' = TreeAdd(ipsDone, currentNet)
        /\ currentNet' = nextNet
        /\ networks' = rest
    BY <1>4 DEF noOverlap, NoOverlap
  <2>2. \A n \in Prefix : getLastAddress(n) \in Nat /\ n.first \in Nat
    BY SizePositive DEF getLastAddress, Prefix
  <2>3. Ordered'
    BY <1>2, <1>3, <2>1, <2>2, DoneGrows DEF Ordered
  <2> QED
    BY <1>2, <1>3, <2>1, <2>3, DoneGrows
<1>5. CASE forgetCurrent(nextNet, rest)
  BY <1>2, <1>3, <1>5 DEF forgetCurrent, SameBase, Ordered, Disjoint
<1>6. CASE ignoreNext(nextNet, rest)
  BY <1>2, <1>3, <1>6 DEF ignoreNext, Ordered, Disjoint
<1>7. CASE splitNext(nextNet, rest)
  <2>1. BagToSet(networks') \subseteq BagToSet(rest) \cup {Half(nextNet, 0), Half(nextNet, 1)}
    <3> DEFINE upper == AddNew(rest, Half(nextNet, 1))
    <3>1. networks' = upper \/ networks' = AddNew(upper, Half(nextNet, 0))
      BY <1>7 DEF splitNext
    <3>2. BagToSet(upper) \subseteq BagToSet(rest) \cup {Half(nextNet, 1)}
      BY QueueAdd
    <3> HIDE DEF upper
    <3>3. BagToSet(AddNew(upper, Half(nextNet, 0))) \subseteq BagToSet(upper) \cup {Half(nextNet, 0)}
      BY QueueAdd
    <3> QED
      BY <3>1, <3>2, <3>3
  <2>2. \A i \in {0, 1} : Half(nextNet, i) \in Prefix /\ nextNet.first <= Half(nextNet, i).first
    BY <1>3, HalfIsPrefix
  <2>3. UNCHANGED <<currentNet, ipsDone>>
    BY <1>7 DEF splitNext
  <2>4. \A n \in BagToSet(networks') : n \in Prefix /\ currentNet.first <= n.first
    BY <1>2, <1>3, <2>1, <2>2 DEF Ordered, Prefix
  <2> QED
    BY <1>2, <2>3, <2>4 DEF Ordered, Disjoint
<1>8. CASE splitCurrent(nextNet, rest)
  <2>1. BagToSet(networks') \subseteq BagToSet(rest) \cup {Half(currentNet, 1), nextNet}
    <3> DEFINE upper == rest (+) SetToBag({Half(currentNet, 1)})
    <3>1. networks' = rest (+) SetToBag({nextNet}) \/ networks' = upper (+) SetToBag({nextNet})
      BY <1>8 DEF splitCurrent
    <3>2. /\ BagToSet(upper) = BagToSet(rest) \cup {Half(currentNet, 1)}
          /\ BagToSet(rest (+) SetToBag({nextNet})) = BagToSet(rest) \cup {nextNet}
      BY QueueAdd
    <3> HIDE DEF upper
    <3>3. BagToSet(upper (+) SetToBag({nextNet})) = BagToSet(upper) \cup {nextNet}
      BY QueueAdd
    <3> QED
      BY <3>1, <3>2, <3>3
  <2>2. /\ \A i \in {0, 1} : Half(currentNet, i) \in Prefix /\ currentNet.first <= Half(currentNet, i).first
        /\ Half(currentNet, 0).first = currentNet.first
    BY <1>2, HalfIsPrefix
  <2>3. currentNet' = Half(currentNet, 0) /\ ipsDone' = ipsDone
    BY <1>8 DEF splitCurrent
  <2>4. \A n \in BagToSet(networks') : n \in Prefix /\ currentNet.first <= n.first
    BY <1>2, <1>3, <2>1, <2>2 DEF Ordered
  <2> QED
    BY <1>2, <2>2, <2>3, <2>4 DEF Ordered, Disjoint
<1> QED
  BY <1>1, <1>4, <1>5, <1>6, <1>7, <1>8 DEF rest

\* A collection that is not empty has an element to begin with.
LEMMA FirstExists ==
    ASSUME NEW nets, nets \subseteq Network, nets # {}
    PROVE  \E n \in nets : \A m \in nets : ~Before(m, n)
<1> DEFINE T == {n.first : n \in nets}
<1>1. T \subseteq Nat /\ T # {}
  BY NetworkIsPrefix DEF Prefix
<1>2. PICK x \in T : \A y \in T : x <= y
  <2> HIDE DEF T
  <2> QED
    BY <1>1, NatMin
<1> DEFINE U == {Width - n.networkMask : n \in {m \in nets : m.first = x}}
<1>3. U \subseteq Nat /\ U # {}
  BY WidthAssumption DEF Network
<1>4. PICK u \in U : \A v \in U : u <= v
  <2> HIDE DEF U
  <2> QED
    BY <1>3, NatMin
<1>5. PICK n \in nets : n.first = x /\ u = Width - n.networkMask
  OBVIOUS
<1>6. ASSUME NEW m \in nets PROVE ~Before(m, n)
  <2>1. x <= m.first
    BY <1>2
  <2>2. m.first = x => u <= Width - m.networkMask
    BY <1>4
  <2>3. m \in Prefix /\ n \in Prefix
    BY NetworkIsPrefix
  <2> QED
    BY <1>5, <2>1, <2>2, <2>3, WidthAssumption DEF Before, Prefix
<1> QED
  BY <1>6

\* The loop starts with the first network in hand.
LEMMA GenerateKeeps ==
    ASSUME IInv, generateIPList
    PROVE  IInv'
<1>1. CASE mIpAddresses = {}
  BY <1>1 DEF generateIPList, IInv, QueueInv, Ordered, Disjoint
<1>2. CASE mIpAddresses # {}
  <2>1. /\ phase' = "looping" /\ ipsDone' = {} /\ mIpAddresses' = mIpAddresses
        /\ currentNet' = CHOOSE n \in mIpAddresses : \A m \in mIpAddresses : ~Before(m, n)
        /\ networks' = SetToBag(mIpAddresses \ {currentNet'})
    BY <1>2 DEF generateIPList
  <2>2. mIpAddresses \subseteq Network
    BY DEF IInv, QueueInv
  <2>3. currentNet' \in mIpAddresses /\ \A m \in mIpAddresses : ~Before(m, currentNet')
    BY <1>2, <2>1, <2>2, FirstExists
  <2>4. BagToSet(networks') \subseteq mIpAddresses
    BY <2>1 DEF BagToSet, SetToBag
  <2>5. \A n \in BagToSet(networks') : currentNet'.first <= n.first
    BY <2>2, <2>3, <2>4, NetworkIsPrefix DEF Before, Prefix
  <2> QED
    BY <2>1, <2>2, <2>3, <2>4, <2>5, NetworkIsPrefix DEF IInv, QueueInv, Ordered, Disjoint
<1> QED
  BY <1>1, <1>2

\* Whatever networks are added, even those whose splitting goes wrong, the list
\* that generateIPList hands over never routes an address twice.
THEOREM RoutesDisjoint == Spec => []Disjoint
<1>1. Init => IInv
  BY DEF Init, IInv, QueueInv, Ordered, Disjoint, EmptyBag, SetToBag, BagToSet
<1>2. IInv /\ [Next]_vars => IInv'
  <2> SUFFICES ASSUME IInv, [Next]_vars PROVE IInv'
    OBVIOUS
  <2>1. ASSUME NEW n \in Network, addIP(n) PROVE IInv'
    BY <2>1 DEF addIP, TreeAdd, IInv, QueueInv, Ordered, Disjoint
  <2>2. CASE lastNet
    BY <2>2, DoneGrows DEF lastNet, IInv, QueueInv, Ordered
  <2>3. CASE clear
    BY <2>3 DEF clear, IInv, QueueInv, Ordered, Disjoint
  <2>4. CASE UNCHANGED vars
    BY <2>4 DEF vars, IInv, QueueInv, Ordered, Disjoint
  <2> QED
    BY <2>1, <2>2, <2>3, <2>4, GenerateKeeps, LoopKeeps DEF Next
<1>3. IInv => Disjoint
  BY DEF IInv
<1> QED
  BY <1>1, <1>2, <1>3, PTL DEF Spec

-----------------------------------------------------------------------------
(* Networks are nested or apart *)

\* What a network is, field by field.
LEMMA NetFacts ==
    ASSUME NEW n \in Network
    PROVE  /\ n.first \in Nat /\ n.networkMask \in Nat /\ n.networkMask <= Width
           /\ n.included \in BOOLEAN /\ Size(n.networkMask) \in Nat \ {0}
           /\ getLastAddress(n) = n.first + Size(n.networkMask) - 1
           /\ getLastAddress(n) \in Nat /\ n.first <= getLastAddress(n)
           /\ n.first % Size(n.networkMask) = 0
           /\ n.first \in Addresses
<1>1. n.first \in Addresses /\ n.networkMask \in 0..Width /\ n.included \in BOOLEAN
      /\ n.first % Size(n.networkMask) = 0
  BY DEF Network
<1>2. n.first \in Nat /\ n.networkMask \in Nat /\ n.networkMask <= Width
  BY <1>1, WidthAssumption, PowerPositive DEF Addresses
<1>3. Size(n.networkMask) \in Nat \ {0}
  BY <1>2, SizePositive
<1> QED
  BY <1>1, <1>2, <1>3 DEF getLastAddress

\* Networks with the same fields are the same.
LEMMA NetEqual ==
    ASSUME NEW n \in Network, NEW m \in Network,
           n.first = m.first, n.networkMask = m.networkMask, n.included = m.included
    PROVE  n = m
  BY DEF Network

\* Every network is two of the next smaller size, a single address is one.
LEMMA SizeHalves ==
    /\ Size(Width) = 1
    /\ Size(0) = PowerOfTwo[Width]
    /\ \A k \in Nat : k < Width => Size(k) = 2 * Size(k + 1)
<1>1. PowerOfTwo[0] = 1
  BY PowerOfTwoDef
<1>2. \A i \in Nat : i # 0 => PowerOfTwo[i] = 2 * PowerOfTwo[i - 1]
  BY PowerOfTwoDef
<1>3. ASSUME NEW k \in Nat, k < Width PROVE Size(k) = 2 * Size(k + 1)
  <2>1. Width - k \in Nat /\ Width - k # 0 /\ Width - k - 1 = Width - (k + 1)
    BY <1>3, WidthAssumption
  <2>2. Size(k) = 2 * PowerOfTwo[Width - (k + 1)]
    BY <1>2, <1>3, <2>1 DEF Size
  <2>3. CASE k + 1 < Width
    BY <2>2, <2>3 DEF Size
  <2>4. CASE ~(k + 1 < Width)
    <3>1. Width - (k + 1) = 0
      BY <1>3, <2>4, WidthAssumption
    <3> QED
      BY <1>1, <2>2, <2>4, <3>1 DEF Size
  <2> QED
    BY <2>3, <2>4
<1>4. Size(0) = PowerOfTwo[Width]
  <2>1. CASE Width = 0
    BY <1>1, <2>1 DEF Size
  <2>2. CASE Width # 0
    BY <2>2, WidthAssumption DEF Size
  <2> QED
    BY <2>1, <2>2
<1> QED
  BY <1>3, <1>4, WidthAssumption DEF Size

\* A larger network is a multiple of a smaller one.
LEMMA SizeDivides ==
    ASSUME NEW j \in Nat, NEW k \in Nat, j <= k, k <= Width
    PROVE  \E c \in Nat \ {0} : Size(j) = c * Size(k)
<1> DEFINE T == {d \in 0..k : ~\E c \in Nat \ {0} : Size(k - d) = c * Size(k)}
<1> SUFFICES ASSUME T # {} PROVE FALSE
  <2>1. k - j \in 0..k /\ k - (k - j) = j
    OBVIOUS
  <2> QED
    BY <2>1
<1>1. PICK d \in T : \A e \in T : d <= e
  <2>1. T \subseteq Nat
    OBVIOUS
  <2> HIDE DEF T
  <2> QED
    BY <2>1, NatMin
<1>2. Size(k) \in Nat \ {0}
  BY SizePositive
<1>3. d # 0
  <2>1. k - 0 = k /\ 1 \in Nat \ {0} /\ Size(k) = 1 * Size(k)
    BY <1>2
  <2> QED
    BY <2>1
<1>4. d \in Nat /\ d - 1 \in 0..k /\ ~(d <= d - 1)
  BY <1>1, <1>3
<1>5. PICK c \in Nat \ {0} : Size(k - (d - 1)) = c * Size(k)
  BY <1>1, <1>4
<1>6. Size(k - d) = 2 * Size(k - (d - 1))
  <2>1. k - d \in Nat /\ k - d < Width /\ (k - d) + 1 = k - (d - 1)
    BY <1>1, <1>4, WidthAssumption
  <2> QED
    BY <2>1, SizeHalves
<1>7. 2 * c \in Nat \ {0} /\ Size(k - d) = (2 * c) * Size(k)
  BY <1>2, <1>5, <1>6
<1> QED
  BY <1>1, <1>7

\* What a first address without bits beyond its mask is.
LEMMA Multiple ==
    ASSUME NEW S \in Nat \ {0}, NEW x \in Nat, x % S = 0
    PROVE  x \div S \in Nat /\ x = (x \div S) * S
  OBVIOUS

\* And what has none.
LEMMA MultipleOf ==
    ASSUME NEW S \in Nat \ {0}, NEW x \in Nat, NEW k \in Nat, x = k * S
    PROVE  x % S = 0
  OBVIOUS

\* Arithmetic on multiples of S.
LEMMA MultipleOrder ==
    ASSUME NEW S \in Nat \ {0}, NEW p \in Int, NEW q \in Int
    PROVE  /\ p * S < q * S => p < q
           /\ p <= q => p * S <= q * S
  OBVIOUS

\* Two networks with a common address are nested.
LEMMA Nested ==
    ASSUME NEW n \in Network, NEW m \in Network, m.networkMask <= n.networkMask,
           NEW a \in Int, Covers(n, a), Covers(m, a)
    PROVE  m.first <= n.first /\ getLastAddress(n) <= getLastAddress(m)
<1> DEFINE S == Size(n.networkMask)
           L == Size(m.networkMask)
           j == n.first \div S
           i == m.first \div L
<1>1. /\ n.first \in Nat /\ m.first \in Nat /\ S \in Nat \ {0} /\ L \in Nat \ {0}
      /\ getLastAddress(n) = n.first + S - 1 /\ getLastAddress(m) = m.first + L - 1
      /\ n.first % S = 0 /\ m.first % L = 0
      /\ n.networkMask \in Nat /\ m.networkMask \in Nat /\ n.networkMask <= Width
  BY NetFacts
<1>2. PICK c \in Nat \ {0} : L = c * S
  BY <1>1, SizeDivides
<1>3. j \in Nat /\ n.first = j * S /\ i \in Nat /\ m.first = i * L
  BY <1>1, Multiple
<1>4. n.first <= a /\ a <= n.first + S - 1 /\ m.first <= a /\ a <= m.first + L - 1
  BY <1>1 DEF Covers
<1> HIDE DEF S, L, i, j
<1>5. m.first = (i * c) * S /\ m.first + L = (i * c + c) * S /\ n.first + S = (j + 1) * S
      /\ i * c \in Nat
  BY <1>1, <1>2, <1>3
<1>6. PICK r \in Nat : r = i * c
  BY <1>5
<1>7. r * S < (j + 1) * S /\ j * S < (r + c) * S
  BY <1>1, <1>3, <1>4, <1>5, <1>6
<1>8. r < j + 1 /\ j < r + c
  BY <1>1, <1>2, <1>3, <1>7, MultipleOrder
<1>9. r <= j /\ j + 1 <= r + c
  BY <1>2, <1>3, <1>8
<1>10. r * S <= j * S /\ (j + 1) * S <= (r + c) * S
  BY <1>1, <1>2, <1>3, <1>9, MultipleOrder
<1> QED
  BY <1>1, <1>3, <1>5, <1>6, <1>10

\* A longer prefix is a smaller network.
LEMMA SizeSmaller ==
    ASSUME NEW j \in Nat, NEW k \in Nat, j < k, k <= Width
    PROVE  Size(k) < Size(j)
<1>1. Size(j) = 2 * Size(j + 1) /\ j + 1 \in Nat /\ j + 1 <= k
  BY SizeHalves, WidthAssumption
<1>2. PICK c \in Nat \ {0} : Size(j + 1) = c * Size(k)
  BY <1>1, SizeDivides
<1>3. Size(k) \in Nat \ {0}
  BY SizePositive
<1>4. 1 * Size(k) <= c * Size(k) /\ 1 * Size(k) = Size(k)
  BY <1>2, <1>3, MultipleOrder
<1> QED
  BY <1>1, <1>2, <1>3, <1>4

\* The halves of a network are networks, and together they are the whole.
LEMMA Halves ==
    ASSUME NEW n \in Network, n.networkMask < Width
    PROVE  /\ \A i \in {0, 1} : Half(n, i) \in Network
           /\ \A i \in {0, 1} : Half(n, i).networkMask = n.networkMask + 1
           /\ \A i \in {0, 1} : Half(n, i).included = n.included
           /\ Half(n, 0).first = n.first
           /\ Half(n, 1).first = getLastAddress(Half(n, 0)) + 1
           /\ getLastAddress(Half(n, 1)) = getLastAddress(n)
           /\ n.first < Half(n, 1).first
<1> DEFINE S == Size(n.networkMask + 1)
<1>1. /\ n.first \in Nat /\ n.networkMask \in Nat /\ n.included \in BOOLEAN
      /\ n.networkMask + 1 \in 0..Width
      /\ n.first % Size(n.networkMask) = 0
      /\ n.first + Size(n.networkMask) - 1 = getLastAddress(n)
      /\ Size(n.networkMask) \in Nat \ {0}
  BY NetFacts, WidthAssumption
<1>2. S \in Nat \ {0} /\ Size(n.networkMask) = 2 * S
  BY <1>1, SizePositive, SizeHalves
<1> HIDE DEF S
<1>3. PICK k \in Nat : n.first = k * (2 * S)
  BY <1>1, <1>2, Multiple
<1>4. PICK x \in Nat : x = n.first + S
  BY <1>1, <1>2
<1>5. n.first % S = 0 /\ x % S = 0
  <2>1. n.first = (2 * k) * S /\ x = (2 * k + 1) * S /\ 2 * k \in Nat /\ 2 * k + 1 \in Nat
    BY <1>2, <1>3, <1>4
  <2> QED
    BY <1>1, <1>2, <1>4, <2>1, MultipleOf
<1>6. x < PowerOfTwo[Width]
  <2>1. PICK c \in Nat \ {0} : Size(0) = c * Size(n.networkMask)
    BY <1>1, SizeDivides, WidthAssumption
  <2>2. c * (2 * S) = PowerOfTwo[Width] /\ n.first < PowerOfTwo[Width]
    BY <1>2, <2>1, SizeHalves, NetFacts, PowerPositive, WidthAssumption DEF Addresses
  <2>3. k * (2 * S) < c * (2 * S)
    BY <1>3, <2>2
  <2>4. PICK D \in Nat \ {0} : D = 2 * S
    BY <1>2
  <2>5. k < c
    BY <2>3, <2>4, MultipleOrder
  <2>6. (k + 1) * D <= c * D
    BY <2>4, <2>5, MultipleOrder
  <2>7. (k + 1) * D = k * D + D
    BY <2>4
  <2> QED
    BY <1>2, <1>3, <1>4, <2>2, <2>4, <2>6, <2>7
<1>7. Half(n, 0) = [first |-> n.first, networkMask |-> n.networkMask + 1, included |-> n.included]
  BY <1>1, <1>2 DEF Half, S
<1>8. Half(n, 1) = [first |-> x, networkMask |-> n.networkMask + 1, included |-> n.included]
  BY <1>1, <1>2, <1>4 DEF Half, S
<1>9. n.first \in Addresses /\ x \in Addresses
  BY <1>4, <1>6, NetFacts, PowerPositive, WidthAssumption DEF Addresses
<1>10. Half(n, 0) \in Network /\ Half(n, 1) \in Network
  BY <1>1, <1>5, <1>7, <1>8, <1>9 DEF Network, S
<1>11. getLastAddress(Half(n, 0)) = n.first + S - 1 /\ getLastAddress(Half(n, 1)) = x + S - 1
  BY <1>7, <1>8 DEF getLastAddress, S
<1>12. \A i \in {0, 1} : Half(n, i).networkMask = n.networkMask + 1
                         /\ Half(n, i).included = n.included
  BY <1>7, <1>8
<1>13. Half(n, 0).first = n.first /\ Half(n, 1).first = x
  BY <1>7, <1>8
<1> QED
  BY <1>1, <1>2, <1>4, <1>10, <1>11, <1>12, <1>13

\* Which of the halves covers an address of the network.
LEMMA HalvesCover ==
    ASSUME NEW n \in Network, n.networkMask < Width, NEW a \in Nat
    PROVE  Covers(n, a) <=> Covers(Half(n, 0), a) \/ Covers(Half(n, 1), a)
<1>1. /\ Half(n, 0) \in Network /\ Half(n, 1) \in Network
      /\ Half(n, 0).first = n.first
      /\ Half(n, 1).first = getLastAddress(Half(n, 0)) + 1
      /\ getLastAddress(Half(n, 1)) = getLastAddress(n)
  BY Halves
<1>2. /\ getLastAddress(Half(n, 0)) \in Nat /\ getLastAddress(n) \in Nat /\ n.first \in Nat
      /\ Half(n, 0).first <= getLastAddress(Half(n, 0))
      /\ Half(n, 1).first <= getLastAddress(Half(n, 1))
  BY <1>1, NetFacts
<1> QED
  BY <1>1, <1>2 DEF Covers

-----------------------------------------------------------------------------
(* Families of networks and what they route *)

Unique(nets) == \A n \in nets, m \in nets : equals(n, m) => n = m
Good(nets) == nets \subseteq Network /\ Unique(nets) /\ FewExceptions(nets)

Longest(nets, a, n) ==
    /\ n \in nets /\ Covers(n, a)
    /\ \A m \in nets : Covers(m, a) => m.networkMask <= n.networkMask

RoutedIn(nets, a) == \E n \in nets : Longest(nets, a, n) /\ n.included

\* The input's routes are what Routed says.
LEMMA RoutedIsRoutedIn ==
    ASSUME NEW a
    PROVE  Routed(a) <=> RoutedIn(mIpAddresses, a)
  BY DEF Routed, Match, RoutedIn, Longest

\* An address that is covered has a longest match.
LEMMA LongestExists ==
    ASSUME NEW nets, nets \subseteq Network, NEW a, NEW n \in nets, Covers(n, a)
    PROVE  \E m \in nets : Longest(nets, a, m) /\ n.networkMask <= m.networkMask
<1> DEFINE T == {Width - m.networkMask : m \in {k \in nets : Covers(k, a)}}
<1>1. \A m \in nets : Width - m.networkMask \in Nat /\ m.networkMask \in Nat
  BY NetFacts, WidthAssumption
<1>2. T \subseteq Nat /\ T # {}
  BY <1>1
<1>3. PICK x \in T : \A y \in T : x <= y
  <2> HIDE DEF T
  <2> QED
    BY <1>2, NatMin
<1>4. PICK m \in nets : Covers(m, a) /\ x = Width - m.networkMask
  OBVIOUS
<1>5. \A k \in nets : Covers(k, a) => k.networkMask <= m.networkMask
  <2> SUFFICES ASSUME NEW k \in nets, Covers(k, a) PROVE k.networkMask <= m.networkMask
    OBVIOUS
  <2>1. Width - m.networkMask <= Width - k.networkMask
    BY <1>3, <1>4
  <2> QED
    BY <1>1, <2>1, WidthAssumption
<1> QED
  BY <1>4, <1>5 DEF Longest

\* Networks of one size with a common address have the same prefix.
LEMMA SameSize ==
    ASSUME NEW n \in Network, NEW m \in Network, NEW a \in Int, Covers(n, a), Covers(m, a),
           n.networkMask = m.networkMask
    PROVE  n.first = m.first /\ equals(n, m)
<1>1. n.networkMask <= m.networkMask /\ m.networkMask <= n.networkMask
  BY NetFacts
<1>2. n.first <= m.first /\ m.first <= n.first
  BY <1>1, Nested
<1> QED
  BY <1>2, NetFacts DEF equals

\* It lies strictly inside the larger one.
LEMMA SmallerInside ==
    ASSUME NEW n \in Network, NEW m \in Network, NEW a \in Int, Covers(n, a), Covers(m, a),
           m.networkMask < n.networkMask
    PROVE  Inside(n, m)
<1>1. m.networkMask <= n.networkMask
  BY NetFacts
<1> QED
  BY <1>1, Nested DEF Inside

\* Two families route an address alike if one has a longest match of the same
\* type for every longest match of the other, and covers nothing more.
LEMMA SameRoutes ==
    ASSUME NEW F, NEW G, F \subseteq Network, G \subseteq Network, Unique(G), NEW a \in Int,
           \A n \in F : Longest(F, a, n) =>
               \E m \in G : Longest(G, a, m) /\ m.included = n.included,
           \A m \in G : Covers(m, a) => \E n \in F : Covers(n, a)
    PROVE  RoutedIn(F, a) <=> RoutedIn(G, a)
<1>1. RoutedIn(F, a) => RoutedIn(G, a)
  BY DEF RoutedIn
<1>2. ASSUME RoutedIn(G, a) PROVE RoutedIn(F, a)
  <2>1. PICK m \in G : Longest(G, a, m) /\ m.included
    BY <1>2 DEF RoutedIn
  <2>2. PICK n \in F : Longest(F, a, n)
    <3>1. PICK k \in F : Covers(k, a)
      BY <2>1 DEF Longest
    <3> QED
      BY <3>1, LongestExists
  <2>3. PICK k \in G : Longest(G, a, k) /\ k.included = n.included
    BY <2>2
  <2>4. k.networkMask = m.networkMask /\ Covers(k, a) /\ Covers(m, a)
    <3>1. /\ Covers(k, a) /\ Covers(m, a)
          /\ k.networkMask <= m.networkMask /\ m.networkMask <= k.networkMask
      BY <2>1, <2>3 DEF Longest
    <3>2. k.networkMask \in Nat /\ m.networkMask \in Nat
      BY NetFacts
    <3> QED
      BY <3>1, <3>2
  <2>5. k = m
    BY <2>4, SameSize DEF Unique
  <2> QED
    BY <2>1, <2>2, <2>3, <2>5 DEF RoutedIn
<1> QED
  BY <1>1, <1>2

\* A part of a good family is good.
LEMMA FewShrinks ==
    ASSUME NEW F, NEW G, FewExceptions(F), Exceptions(G) \subseteq Exceptions(F)
    PROVE  FewExceptions(G)
  BY DEF FewExceptions

LEMMA GoodPart ==
    ASSUME NEW F, NEW G, Good(F), G \subseteq F
    PROVE  Good(G)
<1>1. Exceptions(G) \subseteq Exceptions(F)
  BY DEF Exceptions
<1>2. FewExceptions(G)
  BY <1>1, FewShrinks DEF Good
<1> QED
  BY <1>2 DEF Good, Unique

\* Two exceptions have the same size.
LEMMA NoChain ==
    ASSUME NEW F, Good(F), NEW n \in Exceptions(F), NEW m \in Exceptions(F)
    PROVE  n.networkMask = m.networkMask
  BY DEF Good, FewExceptions

\* G is F after the network s was split: s may go, its halves may come, and G
\* has networks with their prefixes.
SplitOf(F, G, s) ==
    /\ F \subseteq Network /\ Unique(F) /\ G \subseteq Network /\ Unique(G)
    /\ s \in F /\ s.networkMask < Width
    /\ F \ {s} \subseteq G /\ G \subseteq F \cup {Half(s, 0), Half(s, 1)}
    /\ \E m \in G : equals(Half(s, 0), m)
    /\ \E m \in G : equals(Half(s, 1), m)

\* A network with the same prefix covers the same addresses.
LEMMA EqualCovers ==
    ASSUME NEW n, NEW m, NEW a, equals(n, m)
    PROVE  Covers(n, a) <=> Covers(m, a)
  BY DEF equals, Covers, getLastAddress

\* Splitting changes no route.
LEMMA SplitRoutes ==
    ASSUME NEW F, NEW G, NEW s, SplitOf(F, G, s), NEW a \in Nat
    PROVE  RoutedIn(F, a) <=> RoutedIn(G, a)
<1>1. /\ F \subseteq Network /\ Unique(F) /\ G \subseteq Network /\ Unique(G)
      /\ s \in F /\ s \in Network /\ s.networkMask < Width
      /\ F \ {s} \subseteq G /\ G \subseteq F \cup {Half(s, 0), Half(s, 1)}
  BY DEF SplitOf
<1>2. Covers(s, a) <=> Covers(Half(s, 0), a) \/ Covers(Half(s, 1), a)
  BY <1>1, HalvesCover
<1>3. \A m \in G : m \notin F => /\ m.networkMask = s.networkMask + 1
                                 /\ m.included = s.included
                                 /\ Covers(m, a) => Covers(s, a)
  BY <1>1, <1>2, Halves
<1>4. \A m \in G : Covers(m, a) => \E n \in F : Covers(n, a)
  BY <1>1, <1>3
<1>5. ASSUME NEW n \in F, Longest(F, a, n)
      PROVE  \E m \in G : Longest(G, a, m) /\ m.included = n.included
  <2>0. Covers(n, a) /\ (\A m \in F : Covers(m, a) => m.networkMask <= n.networkMask)
        /\ \A m \in Network : m.networkMask \in Nat
    BY <1>5, NetFacts DEF Longest
  <2>1. CASE n # s
    <3>1. ASSUME NEW m \in G, Covers(m, a) PROVE m.networkMask <= n.networkMask
      <4>1. CASE m \in F
        BY <2>0, <3>1, <4>1
      <4>2. CASE m \notin F
        <5>1. Covers(s, a) /\ m.networkMask = s.networkMask + 1
          BY <1>3, <3>1, <4>2
        <5>2. s.networkMask <= n.networkMask
          BY <1>1, <2>0, <5>1
        <5>3. s.networkMask # n.networkMask
          <6> SUFFICES ASSUME n.networkMask = s.networkMask PROVE FALSE
            OBVIOUS
          <6>1. n \in Network /\ s \in Network /\ a \in Int
            BY <1>1
          <6>2. equals(n, s)
            BY <2>0, <5>1, <6>1, SameSize
          <6> QED
            BY <1>1, <2>1, <6>2 DEF Unique
        <5> QED
          BY <1>1, <2>0, <5>1, <5>2, <5>3
      <4> QED
        BY <4>1, <4>2
    <3>2. n \in G
      BY <1>1, <2>1
    <3> QED
      BY <2>0, <3>1, <3>2 DEF Longest
  <2>2. CASE n = s
    <3>1. PICK h \in G : Covers(h, a) /\ h.networkMask = s.networkMask + 1
      <4>1. PICK h0 \in G : equals(Half(s, 0), h0)
        BY DEF SplitOf
      <4>2. PICK h1 \in G : equals(Half(s, 1), h1)
        BY DEF SplitOf
      <4>3. h0.networkMask = s.networkMask + 1 /\ h1.networkMask = s.networkMask + 1
        BY <1>1, <4>1, <4>2, Halves DEF equals
      <4>4. Covers(h0, a) \/ Covers(h1, a)
        BY <1>2, <2>0, <2>2, <4>1, <4>2, EqualCovers
      <4> QED
        BY <4>3, <4>4
    <3>2. PICK m \in G : Longest(G, a, m) /\ h.networkMask <= m.networkMask
      BY <1>1, <3>1, LongestExists
    <3>3. m \notin F
      <4>1. Covers(m, a)
        BY <3>2 DEF Longest
      <4>2. m \in F => m.networkMask <= s.networkMask
        BY <2>0, <2>2, <4>1
      <4>3. m.networkMask \in Nat /\ s.networkMask \in Nat
        BY <1>1, <2>0
      <4> QED
        BY <3>1, <3>2, <4>2, <4>3
    <3> QED
      BY <1>3, <2>2, <3>2, <3>3
  <2> QED
    BY <2>1, <2>2
<1>6. a \in Int
  OBVIOUS
<1> QED
  BY <1>1, <1>4, <1>5, <1>6, SameRoutes

\* Nor does it make an exception, unless a half lies inside a network of the
\* other type.
LEMMA SplitFew ==
    ASSUME NEW F, NEW G, NEW s, SplitOf(F, G, s), FewExceptions(F),
           \A i \in {0, 1}, m \in F : Inside(Half(s, i), m) => m.included = s.included
    PROVE  FewExceptions(G)
<1>1. /\ F \subseteq Network /\ G \subseteq Network
      /\ s \in F /\ s \in Network /\ s.networkMask < Width
      /\ G \subseteq F \cup {Half(s, 0), Half(s, 1)}
  BY DEF SplitOf
<1>2. \A i \in {0, 1} : /\ Half(s, i).included = s.included
                        /\ Half(s, i).networkMask = s.networkMask + 1
                        /\ s.first <= Half(s, i).first
                        /\ getLastAddress(Half(s, i)) <= getLastAddress(s)
  <2>1. /\ Half(s, 0) \in Network /\ Half(s, 1) \in Network
        /\ Half(s, 0).first = s.first
        /\ Half(s, 1).first = getLastAddress(Half(s, 0)) + 1
        /\ getLastAddress(Half(s, 1)) = getLastAddress(s)
        /\ s.first < Half(s, 1).first
        /\ \A i \in {0, 1} : Half(s, i).networkMask = s.networkMask + 1
        /\ \A i \in {0, 1} : Half(s, i).included = s.included
    BY <1>1, Halves
  <2>2. /\ s.first \in Nat /\ getLastAddress(s) \in Nat
        /\ getLastAddress(Half(s, 0)) \in Nat
        /\ Half(s, 1).first <= getLastAddress(Half(s, 1))
    BY <1>1, <2>1, NetFacts
  <2> QED
    BY <2>1, <2>2
<1>3. ASSUME NEW n \in G, NEW m \in G, Inside(n, m), n.included # m.included
      PROVE  n \in Exceptions(F)
  <2>1. n \in F
    BY <1>1, <1>2, <1>3
  <2>2. CASE m \in F
    BY <1>3, <2>1, <2>2 DEF Exceptions
  <2>3. CASE m \notin F
    <3>1. PICK i \in {0, 1} : m = Half(s, i)
      BY <1>1, <2>3
    <3>2. n \in Network /\ m \in Network
      BY <1>1
    <3>3. /\ n.first \in Nat /\ m.first \in Nat /\ s.first \in Nat
          /\ getLastAddress(n) \in Nat /\ getLastAddress(m) \in Nat /\ getLastAddress(s) \in Nat
          /\ n.networkMask \in Nat /\ s.networkMask \in Nat
      BY <1>1, <3>2, NetFacts
    <3>4. Inside(n, s)
      BY <1>2, <1>3, <3>1, <3>3 DEF Inside
    <3> QED
      BY <1>1, <1>2, <1>3, <2>1, <3>1, <3>4 DEF Exceptions
  <2> QED
    BY <2>2, <2>3
<1>4. Exceptions(G) \subseteq Exceptions(F)
  BY <1>3 DEF Exceptions
<1> QED
  BY <1>4, FewShrinks

-----------------------------------------------------------------------------
(* The branches of the loop, for a queue Q, the network c in hand and s polled *)

Polled(Q, c, s) ==
    /\ Good(Q \cup {c}) /\ s \in Q
    /\ \A n \in Q : ~Before(n, c)
    /\ \A n \in Q : ~Before(n, s)

\* If s does not lie behind c, either they start together and s is at least as
\* large, or s lies strictly inside c, and so behind its first address.
LEMMA Overlaps ==
    ASSUME NEW Q, NEW c, NEW s, Polled(Q, c, s), ~(getLastAddress(c) < s.first)
    PROVE  \/ c.first = s.first /\ s.networkMask <= c.networkMask
           \/ /\ c.first < s.first /\ Inside(s, c)
              /\ \A n \in Q : c.first < n.first
<1>1. /\ c \in Network /\ s \in Network
      /\ ~Before(s, c) /\ \A n \in Q : n \in Network /\ ~Before(n, s)
  BY DEF Polled, Good
<1>2. /\ c.first \in Nat /\ s.first \in Nat /\ c.networkMask \in Nat /\ s.networkMask \in Nat
      /\ getLastAddress(c) \in Nat /\ getLastAddress(s) \in Nat
      /\ s.first <= getLastAddress(s)
      /\ \A n \in Q : n.first \in Nat
  BY <1>1, NetFacts
<1>3. c.first <= s.first /\ \A n \in Q : s.first <= n.first
  BY <1>1, <1>2 DEF Before
<1>4. s.first \in Int /\ Covers(c, s.first) /\ Covers(s, s.first)
  BY <1>2, <1>3 DEF Covers
<1>5. CASE c.first = s.first
  BY <1>1, <1>2, <1>5 DEF Before
<1>6. CASE c.first # s.first
  <2>1. s.networkMask <= c.networkMask => s.first <= c.first
    BY <1>1, <1>4, Nested
  <2>2. c.networkMask < s.networkMask
    BY <1>2, <1>3, <1>6, <2>1
  <2> QED
    BY <1>1, <1>2, <1>3, <1>4, <1>6, <2>2, SmallerInside
<1> QED
  BY <1>5, <1>6

\* A network may be forgotten for a larger one of its type that starts where it
\* does and comes first in the queue.
LEMMA ForgetRoutes ==
    ASSUME NEW Q, NEW c, NEW s, Polled(Q, c, s), c.first = s.first,
           s.networkMask <= c.networkMask, c.included = s.included, NEW a \in Nat
    PROVE  RoutedIn(Q \cup {c}, a) <=> RoutedIn(Q, a)
<1> DEFINE F == Q \cup {c}
<1>1. /\ F \subseteq Network /\ Q \subseteq Network /\ Unique(Q) /\ Unique(F)
      /\ c \in Network /\ s \in Network /\ s \in Q /\ a \in Int
      /\ \A n \in Q : ~Before(n, s) /\ ~Before(n, c)
  BY DEF Polled, Good, Unique
<1>2. ASSUME NEW n \in F, Longest(F, a, n)
      PROVE  \E m \in Q : Longest(Q, a, m) /\ m.included = n.included
  <2>1. CASE n \in Q
    BY <1>2, <2>1 DEF Longest
  <2>2. CASE n = c
    <3>1. Covers(c, a) /\ \A m \in Q : Covers(m, a) => m.networkMask <= c.networkMask
      BY <1>2, <2>2 DEF Longest
    <3>2. Covers(s, a)
      <4>1. c.first \in Int /\ Covers(c, c.first) /\ Covers(s, c.first)
        BY <1>1, NetFacts DEF Covers
      <4>2. getLastAddress(c) <= getLastAddress(s)
        BY <1>1, <4>1, Nested
      <4>3. getLastAddress(c) \in Nat /\ getLastAddress(s) \in Nat
        BY <1>1, NetFacts
      <4> QED
        BY <3>1, <4>2, <4>3 DEF Covers
    <3>3. PICK m \in Q : Longest(Q, a, m) /\ s.networkMask <= m.networkMask
      BY <1>1, <3>2, LongestExists
    <3>4. Covers(m, a) /\ m.networkMask <= c.networkMask /\ m \in Network
      BY <1>1, <3>1, <3>3 DEF Longest
    <3>5. m.first <= c.first
      BY <1>1, <3>1, <3>4, Nested
    <3>6. /\ m.first \in Nat /\ m.networkMask \in Nat /\ s.first \in Nat
          /\ s.networkMask \in Nat
      BY <1>1, <3>4, NetFacts
    <3>7. ~Before(m, s)
      BY <1>1
    <3>8. m.first = s.first /\ m.networkMask = s.networkMask
      BY <3>3, <3>5, <3>6, <3>7 DEF Before
    <3>9. m = s
      BY <1>1, <3>8 DEF Unique, equals
    <3> QED
      BY <2>2, <3>3, <3>9
  <2> QED
    BY <2>1, <2>2
<1>3. \A m \in Q : Covers(m, a) => \E n \in F : Covers(n, a)
  OBVIOUS
<1> HIDE DEF F
<1>4. RoutedIn(F, a) <=> RoutedIn(Q, a)
  BY <1>1, <1>2, <1>3, SameRoutes
<1> QED
  BY <1>4 DEF F

\* A network inside one of its type may be ignored: what lies between them and
\* is of the other type would be an exception, and so would the ignored one.
LEMMA IgnoreRoutes ==
    ASSUME NEW F, NEW G, NEW c \in G, NEW s \in F, Good(F), G \subseteq F, F \ {s} \subseteq G,
           Inside(s, c), c.included = s.included, NEW a \in Nat
    PROVE  RoutedIn(F, a) <=> RoutedIn(G, a)
<1>1. /\ F \subseteq Network /\ G \subseteq Network /\ Unique(G) /\ Unique(F)
      /\ c \in F /\ c \in Network /\ s \in Network /\ a \in Int
      /\ \A m \in F : m.networkMask \in Nat /\ m.included \in BOOLEAN
  BY NetFacts DEF Good, Unique
<1>2. ASSUME NEW n \in F, Longest(F, a, n)
      PROVE  \E m \in G : Longest(G, a, m) /\ m.included = n.included
  <2>1. CASE n \in G
    BY <1>2, <2>1 DEF Longest
  <2>2. CASE n \notin G
    <3>1. n = s
      BY <2>2
    <3>2. Covers(s, a) /\ \A m \in F : Covers(m, a) => m.networkMask <= s.networkMask
      BY <1>2, <3>1 DEF Longest
    <3>3. Covers(c, a)
      <4>1. /\ s.first \in Nat /\ c.first \in Nat
            /\ getLastAddress(c) \in Nat /\ getLastAddress(s) \in Nat
        BY <1>1, NetFacts
      <4> QED
        BY <3>2, <4>1 DEF Covers, Inside
    <3>4. PICK m \in G : Longest(G, a, m) /\ c.networkMask <= m.networkMask
      BY <1>1, <3>3, LongestExists
    <3>5. m.included = s.included
      <4> SUFFICES ASSUME m.included # s.included PROVE FALSE
        OBVIOUS
      <4>1. m \in F /\ m \in Network /\ Covers(m, a) /\ m.networkMask <= s.networkMask
        BY <1>1, <3>2, <3>4 DEF Longest
      <4>2. m.networkMask # c.networkMask
        BY <1>1, <3>3, <4>1, SameSize DEF Unique
      <4>3. m.networkMask # s.networkMask
        BY <1>1, <3>1, <3>2, <4>1, <2>2, SameSize DEF Unique
      <4>4. c.networkMask < m.networkMask /\ m.networkMask < s.networkMask
        BY <1>1, <3>4, <4>1, <4>2, <4>3
      <4>5. Inside(m, c) /\ Inside(s, m)
        BY <1>1, <3>2, <3>3, <4>1, <4>4, SmallerInside
      <4>6. m \in Exceptions(F) /\ s \in Exceptions(F)
        BY <1>1, <4>1, <4>5 DEF Exceptions
      <4> QED
        BY <4>3, <4>6, NoChain
    <3> QED
      BY <3>1, <3>4, <3>5
  <2> QED
    BY <2>1, <2>2
<1>3. \A m \in G : Covers(m, a) => \E n \in F : Covers(n, a)
  OBVIOUS
<1> QED
  BY <1>1, <1>2, <1>3, SameRoutes

\* The queue after s was split: without a lower half that is the network in hand.
Requeued(R, c, s) ==
    IF getLastAddress(Half(s, 0)) = getLastAddress(c)
    THEN TreeAdd(R, Half(s, 1))
    ELSE TreeAdd(TreeAdd(R, Half(s, 1)), Half(s, 0))

\* Splitting the polled network, which is larger than the one in hand and of the
\* other type: the one in hand is an exception, so the other is not.
LEMMA SplitNextGood ==
    ASSUME NEW Q, NEW c, NEW s, Polled(Q, c, s), c.first = s.first,
           s.networkMask <= c.networkMask, c.included # s.included,
           NEW R, R \subseteq Q, Q \ {s} \subseteq R, NEW P, P = Requeued(R, c, s)
    PROVE  /\ SplitOf(Q \cup {c}, P \cup {c}, s)
           /\ Good(P \cup {c})
           /\ \A n \in P : ~Before(n, c)
<1> DEFINE F == Q \cup {c}
           G == P \cup {c}
           H0 == Half(s, 0)
           H1 == Half(s, 1)
<1>1. /\ F \subseteq Network /\ Unique(F) /\ Good(F) /\ FewExceptions(F)
      /\ c \in Network /\ s \in Network /\ s \in Q /\ c \in F /\ s \in F
      /\ \A n \in Q : ~Before(n, s) /\ ~Before(n, c)
  BY DEF Polled, Good
<1>2. /\ c.first \in Nat /\ s.first \in Nat /\ c.networkMask \in Nat /\ s.networkMask \in Nat
      /\ c.networkMask <= Width /\ Width \in Nat
      /\ c.first \in Int /\ Covers(c, c.first) /\ Covers(s, c.first)
  BY <1>1, NetFacts, WidthAssumption DEF Covers
<1>3. s.networkMask < c.networkMask /\ s.networkMask < Width
  <2>1. s.networkMask # c.networkMask
    BY <1>1, <1>2 DEF Unique, equals
  <2> QED
    BY <1>2, <2>1
<1>4. Inside(c, s) /\ c \in Exceptions(F)
  <2>1. Inside(c, s)
    BY <1>1, <1>2, <1>3, SmallerInside
  <2> QED
    BY <1>1, <2>1 DEF Exceptions
<1>5. /\ H0 \in Network /\ H1 \in Network
      /\ H0.networkMask = s.networkMask + 1 /\ H1.networkMask = s.networkMask + 1
      /\ H0.included = s.included /\ H1.included = s.included
      /\ H0.first = s.first /\ s.first < H1.first
      /\ H1.first \in Nat
      /\ Covers(s, H0.first) /\ Covers(s, H1.first) /\ Covers(H0, H0.first) /\ Covers(H1, H1.first)
  <2>1. /\ H0 \in Network /\ H1 \in Network
        /\ H0.networkMask = s.networkMask + 1 /\ H1.networkMask = s.networkMask + 1
        /\ H0.included = s.included /\ H1.included = s.included
        /\ H0.first = s.first /\ s.first < H1.first
    BY <1>1, <1>3, Halves
  <2>2. /\ H0.first \in Nat /\ H1.first \in Nat
        /\ H0.first <= getLastAddress(H0) /\ H1.first <= getLastAddress(H1)
    BY <2>1, NetFacts
  <2>3. Covers(H0, H0.first) /\ Covers(H1, H1.first)
    BY <2>2 DEF Covers
  <2> QED
    BY <1>1, <1>3, <2>1, <2>2, <2>3, HalvesCover
<1> HIDE DEF H0, H1
<1>6. /\ G \subseteq Network /\ G \subseteq F \cup {H0, H1} /\ F \ {s} \subseteq G
      /\ P \subseteq R \cup {H0, H1} /\ R \subseteq P
  BY <1>1, <1>5 DEF Requeued, TreeAdd, H0, H1
<1>7. \E m \in G : equals(H1, m)
  BY DEF Requeued, TreeAdd, equals, H0, H1
<1>8. \E m \in G : equals(H0, m)
  <2>1. CASE getLastAddress(H0) = getLastAddress(c)
    <3>1. Size(H0.networkMask) = Size(c.networkMask)
      <4>1. /\ getLastAddress(H0) = H0.first + Size(H0.networkMask) - 1
            /\ getLastAddress(c) = c.first + Size(c.networkMask) - 1
            /\ Size(H0.networkMask) \in Nat /\ Size(c.networkMask) \in Nat
        BY <1>1, <1>5, NetFacts
      <4>2. H0.first = c.first
        BY <1>5
      <4>3. c.first + Size(H0.networkMask) - 1 = c.first + Size(c.networkMask) - 1
        BY <2>1, <4>1, <4>2
      <4>4. c.first \in Nat
        BY <1>2
      <4> HIDE DEF H0
      <4> QED
        BY <4>1, <4>3, <4>4
    <3>2. s.networkMask + 1 \in Nat /\ s.networkMask + 1 <= c.networkMask
      BY <1>2, <1>3
    <3>3. s.networkMask + 1 < c.networkMask => Size(c.networkMask) < Size(s.networkMask + 1)
      BY <1>2, <3>2, SizeSmaller
    <3>4. Size(c.networkMask) \in Nat
      BY <1>2, SizePositive
    <3>5. H0.networkMask = c.networkMask
      BY <1>2, <1>5, <3>1, <3>2, <3>3, <3>4
    <3> QED
      BY <1>5, <3>5 DEF equals
  <2>2. CASE getLastAddress(H0) # getLastAddress(c)
    BY <2>2 DEF Requeued, TreeAdd, equals, H0, H1
  <2> QED
    BY <2>1, <2>2
<1>9. Unique(G)
  <2>1. \A m \in {H1}, n \in {c, H0} : ~equals(m, n) /\ ~equals(n, m)
    BY <1>2, <1>5 DEF equals
  <2>2. getLastAddress(H0) # getLastAddress(c) => ~equals(H0, c) /\ ~equals(c, H0)
    BY DEF equals, getLastAddress
  <2>3. Unique(TreeAdd(R, H1) \cup {c})
    BY <1>1, <2>1 DEF Unique, TreeAdd, equals
  <2>4. CASE getLastAddress(H0) = getLastAddress(c)
    BY <2>3, <2>4 DEF Requeued, H0, H1
  <2>5. CASE getLastAddress(H0) # getLastAddress(c)
    <3>1. G = TreeAdd(TreeAdd(R, H1), H0) \cup {c}
      BY <2>5 DEF Requeued, H0, H1
    <3> DEFINE U == TreeAdd(R, H1)
    <3>2. G = U \cup {c} \/ (G = U \cup {c} \cup {H0} /\ \A m \in U : ~equals(H0, m))
      BY <3>1 DEF TreeAdd
    <3>3. Unique(U \cup {c})
      BY <2>3
    <3> HIDE DEF U, G
    <3> QED
      BY <2>2, <2>5, <3>2, <3>3 DEF Unique, equals
  <2> QED
    BY <2>4, <2>5
<1>10. SplitOf(F, G, s)
  BY <1>1, <1>3, <1>6, <1>7, <1>8, <1>9 DEF SplitOf, H0, H1
<1>11. ASSUME NEW i \in {0, 1}, NEW m \in F, Inside(Half(s, i), m), m.included # s.included
       PROVE  FALSE
  <2>1. PICK H \in {H0, H1} : H = Half(s, i)
    BY DEF H0, H1
  <2>2. Inside(H, m) /\ H \in Network /\ H.networkMask = s.networkMask + 1
        /\ Covers(s, H.first) /\ Covers(H, H.first) /\ H.first \in Int /\ m \in Network
    BY <1>1, <1>2, <1>5, <1>11, <2>1
  <2>3. /\ m.networkMask \in Nat /\ m.first \in Nat /\ getLastAddress(H) \in Nat
        /\ getLastAddress(m) \in Nat /\ H.first \in Nat /\ H.first <= getLastAddress(H)
    BY <2>2, NetFacts
  <2>4. Covers(m, H.first) /\ m.networkMask <= s.networkMask
    BY <1>2, <2>2, <2>3 DEF Covers, Inside
  <2>5. m.networkMask # s.networkMask
    BY <1>1, <1>11, <2>2, <2>4, SameSize DEF Unique
  <2>6. m.networkMask < s.networkMask
    BY <1>2, <2>3, <2>4, <2>5
  <2>7. Inside(s, m)
    BY <1>1, <2>2, <2>4, <2>6, SmallerInside
  <2>8. s \in Exceptions(F)
    BY <1>1, <1>11, <2>7 DEF Exceptions
  <2>9. s.networkMask = c.networkMask
    BY <1>1, <1>4, <2>8, NoChain
  <2> QED
    BY <1>2, <1>3, <2>9
<1>12. \A i \in {0, 1}, m \in F : Inside(Half(s, i), m) => m.included = s.included
  BY <1>11
<1> HIDE DEF F, G
<1>13. FewExceptions(G)
  BY <1>1, <1>10, <1>12, SplitFew
<1>14. Good(G)
  BY <1>6, <1>9, <1>13 DEF Good
<1>15. ASSUME NEW n \in P PROVE ~Before(n, c)
  <2>1. CASE n \in R
    BY <1>1, <2>1
  <2>2. CASE n = H0
    BY <1>2, <1>3, <1>5, <2>2 DEF Before
  <2>3. CASE n = H1
    BY <1>2, <1>5, <2>3 DEF Before
  <2> QED
    BY <1>6, <2>1, <2>2, <2>3
<1> QED
  BY <1>10, <1>14, <1>15 DEF F, G

\* Splitting the network in hand around a polled one of the other type: the
\* polled one is an exception, and no other network inside has another size.
LEMMA SplitCurrentGood ==
    ASSUME NEW Q, NEW c, NEW s, Polled(Q, c, s), Inside(s, c),
           \A n \in Q : c.first < n.first, c.included # s.included, NEW P,
           P = IF c.networkMask + 1 = s.networkMask THEN Q ELSE Q \cup {Half(c, 1)}
    PROVE  /\ SplitOf(Q \cup {c}, P \cup {Half(c, 0)}, c)
           /\ Good(P \cup {Half(c, 0)})
           /\ \A n \in P : ~Before(n, Half(c, 0))
<1> DEFINE F == Q \cup {c}
           H0 == Half(c, 0)
           H1 == Half(c, 1)
           G == P \cup {H0}
<1>1. /\ F \subseteq Network /\ Unique(F) /\ Good(F) /\ FewExceptions(F)
      /\ c \in Network /\ s \in Network /\ s \in Q /\ c \in F /\ s \in F
  BY DEF Polled, Good
<1>2. /\ c.first \in Nat /\ s.first \in Nat /\ c.networkMask \in Nat /\ s.networkMask \in Nat
      /\ s.networkMask <= Width /\ Width \in Nat
      /\ c.networkMask < s.networkMask /\ c.networkMask < Width
      /\ getLastAddress(c) \in Nat /\ getLastAddress(s) \in Nat /\ s.first <= getLastAddress(s)
  BY <1>1, NetFacts, WidthAssumption DEF Inside
<1>3. s \in Exceptions(F)
  BY <1>1 DEF Exceptions
<1>4. /\ H0 \in Network /\ H1 \in Network
      /\ H0.networkMask = c.networkMask + 1 /\ H1.networkMask = c.networkMask + 1
      /\ H0.included = c.included /\ H1.included = c.included
      /\ H0.first = c.first /\ c.first < H1.first
      /\ H1.first \in Nat
      /\ Covers(c, H0.first) /\ Covers(c, H1.first) /\ Covers(H0, H0.first) /\ Covers(H1, H1.first)
  <2>1. /\ H0 \in Network /\ H1 \in Network
        /\ H0.networkMask = c.networkMask + 1 /\ H1.networkMask = c.networkMask + 1
        /\ H0.included = c.included /\ H1.included = c.included
        /\ H0.first = c.first /\ c.first < H1.first
    BY <1>1, <1>2, Halves
  <2>2. /\ H0.first \in Nat /\ H1.first \in Nat
        /\ H0.first <= getLastAddress(H0) /\ H1.first <= getLastAddress(H1)
    BY <2>1, NetFacts
  <2>3. Covers(H0, H0.first) /\ Covers(H1, H1.first)
    BY <2>2 DEF Covers
  <2> QED
    BY <1>1, <1>2, <2>1, <2>2, <2>3, HalvesCover
<1> HIDE DEF H0, H1
<1>5. P \subseteq Q \cup {H1} /\ Q \subseteq P
  BY DEF H1
<1>6. /\ G \subseteq Network /\ G \subseteq F \cup {H0, H1} /\ F \ {c} \subseteq G
  BY <1>1, <1>4, <1>5
<1>7. \E m \in G : equals(H1, m)
  <2>1. CASE c.networkMask + 1 = s.networkMask
    <3>1. Covers(c, s.first) /\ Covers(s, s.first)
      BY <1>2 DEF Covers, Inside
    <3>2. Covers(H0, s.first) \/ Covers(H1, s.first)
      BY <1>1, <1>2, <3>1, HalvesCover DEF H0, H1
    <3>3. s.first \in Int
      BY <1>2
    <3>4. Covers(H0, s.first) => H0.first = s.first
      BY <1>1, <1>4, <2>1, <3>1, <3>3, SameSize
    <3>5. Covers(H1, s.first)
      BY <1>1, <1>2, <1>4, <3>2, <3>4
    <3>6. equals(H1, s)
      BY <1>1, <1>4, <2>1, <3>1, <3>3, <3>5, SameSize
    <3> QED
      BY <1>1, <1>5, <3>6
  <2>2. CASE c.networkMask + 1 # s.networkMask
    BY <2>2 DEF equals, H1
  <2> QED
    BY <2>1, <2>2
<1>8. Unique(G)
  <2>1. ASSUME NEW n \in P PROVE ~equals(n, H0) /\ ~equals(H0, n)
    BY <1>1, <1>2, <1>4, <1>5, <2>1, NetFacts DEF equals
  <2>2. ASSUME NEW n \in Q, n.networkMask = H1.networkMask, n.first = H1.first, H1 \in P PROVE n = H1
    <3>1. n \in F /\ n \in Network
      BY <1>1
    <3>2. CASE n.included = c.included
      BY <1>4, <2>2, <3>1, <3>2, NetEqual
    <3>3. CASE n.included # c.included /\ c.networkMask + 1 = s.networkMask
      BY <1>1, <2>2, <3>3 DEF Unique, equals
    <3>4. CASE n.included # c.included /\ c.networkMask + 1 # s.networkMask
      <4>1. Covers(n, H1.first)
        BY <1>4, <2>2 DEF Covers, getLastAddress
      <4>2. c.networkMask < n.networkMask /\ H1.first \in Int
        BY <1>2, <1>4, <2>2
      <4>3. Inside(n, c)
        BY <1>1, <1>4, <3>1, <4>1, <4>2, SmallerInside
      <4>4. n \in Exceptions(F)
        BY <1>1, <3>1, <3>4, <4>3 DEF Exceptions
      <4>5. n.networkMask = s.networkMask
        BY <1>1, <1>3, <4>4, NoChain
      <4> QED
        BY <1>4, <2>2, <3>4, <4>5
    <3> QED
      BY <3>2, <3>3, <3>4
  <2>3. Unique(P)
    BY <1>1, <1>5, <2>2 DEF Unique, equals
  <2> HIDE DEF F
  <2> QED
    BY <2>1, <2>3 DEF Unique
<1>9. SplitOf(F, G, c)
  <2>1. \E m \in G : equals(H0, m)
    BY DEF equals
  <2> QED
    BY <1>1, <1>2, <1>6, <1>7, <1>8, <2>1 DEF SplitOf, H0, H1
<1>10. ASSUME NEW i \in {0, 1}, NEW m \in F, Inside(Half(c, i), m), m.included # c.included
       PROVE  FALSE
  <2>1. PICK H \in {H0, H1} : H = Half(c, i)
    BY DEF H0, H1
  <2>2. /\ Inside(H, m) /\ H \in Network /\ H.networkMask = c.networkMask + 1
        /\ Covers(c, H.first) /\ Covers(H, H.first) /\ H.first \in Int /\ m \in Network
        /\ m \in Q
    BY <1>1, <1>2, <1>4, <1>10, <2>1
  <2>3. /\ m.networkMask \in Nat /\ m.first \in Nat /\ getLastAddress(H) \in Nat
        /\ getLastAddress(m) \in Nat /\ H.first \in Nat /\ H.first <= getLastAddress(H)
    BY <2>2, NetFacts
  <2>4. Covers(m, H.first) /\ m.networkMask <= c.networkMask
    BY <1>2, <2>2, <2>3 DEF Covers, Inside
  <2>5. m.first <= c.first
    BY <1>1, <2>2, <2>4, Nested
  <2>6. c.first < m.first
    BY <2>2
  <2> QED
    BY <1>2, <2>3, <2>5, <2>6
<1>11. \A i \in {0, 1}, m \in F : Inside(Half(c, i), m) => m.included = c.included
  BY <1>10
<1>12. \A n \in P : ~Before(n, H0)
  <2>1. \A n \in Q : n.first \in Nat
    BY <1>1, NetFacts
  <2> QED
    BY <1>2, <1>4, <1>5, <2>1 DEF Before
<1> HIDE DEF F, G
<1>13. FewExceptions(G)
  BY <1>1, <1>9, <1>11, SplitFew
<1>14. Good(G)
  BY <1>6, <1>8, <1>13 DEF Good
<1> QED
  BY <1>9, <1>12, <1>14 DEF F, G, H0

-----------------------------------------------------------------------------
(* The queue as a set *)

\* Polling takes nothing but the polled network away, a copy of which may stay.
LEMMA PolledQueue ==
    ASSUME NEW bag, IsABag(bag), NEW n \in BagToSet(bag), NEW rest,
           rest = bag (-) SetToBag({n})
    PROVE  /\ IsABag(rest)
           /\ BagToSet(rest) \subseteq BagToSet(bag)
           /\ BagToSet(bag) \ {n} \subseteq BagToSet(rest)
<1>1. \A e \in DOMAIN bag : bag[e] \in Nat /\ bag[e] > 0
  BY DEF IsABag
<1> DEFINE b == [e \in DOMAIN bag |-> IF e \in DOMAIN SetToBag({n}) THEN bag[e] - SetToBag({n})[e] ELSE bag[e]]
<1>2. rest = [e \in {d \in DOMAIN b : b[d] > 0} |-> b[e]]
  BY DEF (-)
<1>3. DOMAIN SetToBag({n}) = {n} /\ SetToBag({n})[n] = 1 /\ DOMAIN b = DOMAIN bag
  BY DEF SetToBag
<1>4. \A e \in DOMAIN bag : b[e] = IF e = n THEN bag[e] - 1 ELSE bag[e]
  BY <1>3
<1> HIDE DEF b
<1>5. \A e \in DOMAIN b : b[e] \in Nat
  BY <1>1, <1>3, <1>4
<1>6. IsABag(rest)
  BY <1>2, <1>5 DEF IsABag
<1>7. \A e \in DOMAIN bag : e # n => b[e] > 0
  BY <1>1, <1>4
<1> QED
  BY <1>2, <1>3, <1>6, <1>7 DEF BagToSet

\* What an insertion leaves in the queue.
LEMMA Inserted ==
    ASSUME NEW bag, IsABag(bag), NEW n
    PROVE  /\ IsABag(bag (+) SetToBag({n}))
           /\ BagToSet(bag (+) SetToBag({n})) = BagToSet(bag) \cup {n}
<1>1. \A e \in DOMAIN bag : bag[e] \in Nat /\ bag[e] > 0
  BY DEF IsABag
<1>2. DOMAIN SetToBag({n}) = {n} /\ SetToBag({n})[n] = 1
  BY DEF SetToBag
<1>3. bag (+) SetToBag({n}) =
        [e \in (DOMAIN bag) \cup {n} |->
            (IF e \in DOMAIN bag THEN bag[e] ELSE 0) + (IF e \in {n} THEN SetToBag({n})[e] ELSE 0)]
  BY <1>2 DEF (+)
<1>4. IsABag(bag (+) SetToBag({n}))
  BY <1>1, <1>2, <1>3 DEF IsABag
<1> QED
  BY <1>4, QueueAdd

\* What an insertion unless contained leaves there.
LEMMA InsertedNew ==
    ASSUME NEW bag, IsABag(bag), NEW n
    PROVE  /\ IsABag(AddNew(bag, n))
           /\ BagToSet(AddNew(bag, n)) = TreeAdd(BagToSet(bag), n)
  BY Inserted DEF AddNew, Contains, TreeAdd

-----------------------------------------------------------------------------
(* The loop keeps the routes *)

Queue == BagToSet(networks)
Family == Queue \cup {currentNet}
DoneRoutes(a) == \E n \in getPositiveIPList : Covers(n, a)

\* The networks of the loop route what is not finished as the input does, and
\* the finished ones the rest.
LoopInv ==
    /\ Good(Family)
    /\ \A n \in Queue : ~Before(n, currentNet)
    /\ \A a \in Addresses : currentNet.first <= a => (RoutedIn(Family, a) <=> Routed(a))
    /\ \A a \in Addresses : a < currentNet.first => (DoneRoutes(a) <=> Routed(a))

RouteInv ==
    /\ IInv
    /\ IsABag(networks) /\ ipsDone \subseteq Network
    /\ Good(mIpAddresses)
    /\ phase # "looping" => networks = EmptyBag /\ currentNet = Null
    /\ phase = "looping" => LoopInv
    /\ LongestPrefixWins

\* The network in hand is finished: it routes the addresses before the queue.
LEMMA FinishedRoutes ==
    ASSUME RouteInv, phase = "looping", ipsDone' = TreeAdd(ipsDone, currentNet),
           NEW a \in Addresses, \A n \in Queue : a < n.first
    PROVE  DoneRoutes(a)' <=> Routed(a)
<1>1. /\ LoopInv /\ currentNet \in Network /\ Queue \subseteq Network
      /\ ipsDone \subseteq Network
  BY DEF RouteInv, LoopInv, Good, Family
<1>2. /\ currentNet.first \in Nat /\ getLastAddress(currentNet) \in Nat /\ a \in Nat
      /\ \A n \in ipsDone : getLastAddress(n) \in Nat /\ n.first \in Nat
                            /\ n.first <= getLastAddress(n)
                            /\ getLastAddress(n) < currentNet.first
      /\ \A n \in Queue : n.first \in Nat
  BY <1>1, NetFacts, PowerPositive, WidthAssumption DEF Addresses, RouteInv, IInv, Ordered
<1>3. ipsDone' = ipsDone \cup {currentNet}
  <2>1. \A n \in ipsDone : ~equals(currentNet, n)
    BY <1>2 DEF equals
  <2> QED
    BY <2>1 DEF TreeAdd
<1>4. DoneRoutes(a)' <=> DoneRoutes(a) \/ (currentNet.included /\ Covers(currentNet, a))
  BY <1>3 DEF DoneRoutes, getPositiveIPList
<1>5. CASE a < currentNet.first
  <2>1. ~Covers(currentNet, a)
    BY <1>2, <1>5 DEF Covers
  <2> QED
    BY <1>1, <1>4, <1>5, <2>1 DEF LoopInv
<1>6. CASE currentNet.first <= a
  <2>1. ~DoneRoutes(a)
    BY <1>2, <1>6 DEF DoneRoutes, getPositiveIPList, Covers
  <2>2. \A n \in Queue : ~Covers(n, a)
    BY <1>2 DEF Covers
  <2>3. RoutedIn(Family, a) <=> currentNet.included /\ Covers(currentNet, a)
    <3>1. \A n \in Family : Longest(Family, a, n) => n = currentNet /\ Covers(n, a)
      BY <2>2 DEF Longest, Family
    <3>2. Covers(currentNet, a) => Longest(Family, a, currentNet)
      <4>1. currentNet.networkMask <= currentNet.networkMask
        BY <1>1, NetFacts
      <4> QED
        BY <2>2, <4>1 DEF Longest, Family
    <3>3. currentNet \in Family
      BY DEF Family
    <3> QED
      BY <3>1, <3>2, <3>3 DEF RoutedIn
  <2> QED
    BY <1>1, <1>4, <1>6, <2>1, <2>3 DEF LoopInv
<1> QED
  BY <1>2, <1>5, <1>6

\* Behind the network in hand the queue alone decides.
LEMMA BehindRoutes ==
    ASSUME NEW Q, NEW c, Good(Q \cup {c}), NEW a \in Nat, getLastAddress(c) < a
    PROVE  RoutedIn(Q \cup {c}, a) <=> RoutedIn(Q, a)
<1>1. ~Covers(c, a)
  <2>1. getLastAddress(c) \in Nat
    BY NetFacts DEF Good
  <2> QED
    BY <2>1 DEF Covers
<1>2. \A n : Longest(Q \cup {c}, a, n) <=> Longest(Q, a, n)
  BY <1>1 DEF Longest
<1> QED
  BY <1>1, <1>2 DEF RoutedIn, Longest

\* What a round that finishes nothing has to keep.
LEMMA LoopInvKept ==
    ASSUME RouteInv, phase = "looping", UNCHANGED <<mIpAddresses, phase, ipsDone>>, IInv',
           IsABag(networks'), Good(Family'), \A n \in Queue' : ~Before(n, currentNet'),
           currentNet'.first = currentNet.first,
           \A a \in Nat : RoutedIn(Family, a) <=> RoutedIn(Family', a)
    PROVE  RouteInv'
<1>1. LoopInv /\ phase' = "looping" /\ \A a : Routed(a)' <=> Routed(a)
  BY DEF RouteInv, Routed, Match
<1>2. \A a : DoneRoutes(a)' <=> DoneRoutes(a)
  BY DEF DoneRoutes, getPositiveIPList
<1>3. \A a \in Addresses : a \in Nat
  BY PowerPositive, WidthAssumption DEF Addresses
<1>4. \A a : RoutedIn(Family, a)' <=> RoutedIn(Family', a)
  BY DEF RoutedIn, Longest
<1>5. LoopInv'
  BY <1>1, <1>2, <1>3, <1>4 DEF LoopInv
<1> QED
  BY <1>1, <1>5 DEF RouteInv, LongestPrefixWins

\* What holds of the network that the loop polls.
LEMMA PolledFacts ==
    ASSUME RouteInv, phase = "looping", NEW nextNet \in Least
    PROVE  Polled(Queue, currentNet, nextNet)
  BY DEF RouteInv, LoopInv, Polled, Least, Queue, Family

\* One round of the loop.
LEMMA RouteLoopKeeps ==
    ASSUME RouteInv, loop
    PROVE  RouteInv'
<1>1. PICK nextNet \in Least :
        LET rest == networks (-) SetToBag({nextNet})
        IN  \/ noOverlap(nextNet, rest) \/ forgetCurrent(nextNet, rest)
            \/ splitNext(nextNet, rest) \/ ignoreNext(nextNet, rest)
            \/ splitCurrent(nextNet, rest)
  BY DEF loop
<1>2. phase = "looping" /\ UNCHANGED <<mIpAddresses, phase>>
  BY DEF loop
<1>3. IInv'
  BY LoopKeeps DEF RouteInv
<1>4. PICK rest : rest = networks (-) SetToBag({nextNet})
  OBVIOUS
<1>5. Polled(Queue, currentNet, nextNet)
  BY <1>2, PolledFacts
<1>6. /\ nextNet \in Queue /\ IsABag(networks) /\ Good(Family) /\ Family = Queue \cup {currentNet}
      /\ \A n \in Queue : ~Before(n, nextNet)
  BY <1>5 DEF RouteInv, Polled, Family
<1>7. /\ IsABag(rest) /\ BagToSet(rest) \subseteq Queue /\ Queue \ {nextNet} \subseteq BagToSet(rest)
  BY <1>4, <1>6, PolledQueue DEF Queue
<1>8. \A a \in Addresses : a \in Nat
  BY PowerPositive, WidthAssumption DEF Addresses
<1>9. LoopInv
  BY <1>2 DEF RouteInv
<1>10. ~NoOverlap(nextNet) =>
         \/ SameBase(nextNet) /\ currentNet.first = nextNet.first
            /\ nextNet.networkMask <= currentNet.networkMask
         \/ /\ ~SameBase(nextNet) /\ Inside(nextNet, currentNet)
            /\ \A n \in Queue : currentNet.first < n.first
  <2>1. /\ currentNet \in Network /\ nextNet \in Network
    BY <1>6 DEF Good
  <2>2. /\ currentNet.first \in Nat /\ nextNet.first \in Nat
        /\ currentNet.networkMask \in Nat /\ nextNet.networkMask \in Nat
    BY <2>1, NetFacts
  <2> QED
    BY <1>5, <2>2, Overlaps DEF NoOverlap, SameBase
<1>11. CASE noOverlap(nextNet, rest)
  <2>1. /\ getLastAddress(currentNet) < nextNet.first
        /\ ipsDone' = TreeAdd(ipsDone, currentNet)
        /\ currentNet' = nextNet
        /\ networks' = rest
    BY <1>11 DEF noOverlap, NoOverlap
  <2>2. Family' = Queue /\ Queue' \subseteq Queue
    BY <1>6, <1>7, <2>1 DEF Family, Queue
  <2>3. Good(Queue)
    BY <1>6, GoodPart
  <2>4. /\ currentNet \in Network /\ nextNet \in Network /\ \A n \in Queue : n \in Network
    BY <1>6 DEF Good
  <2>5. /\ getLastAddress(currentNet) \in Nat /\ nextNet.first \in Nat
        /\ \A n \in Queue : n.first \in Nat
    BY <2>4, NetFacts
  <2>6. \A n \in Queue : nextNet.first <= n.first
    BY <1>6, <2>5 DEF Before
  <2>7. ASSUME NEW a \in Addresses, nextNet.first <= a
        PROVE  RoutedIn(Queue, a) <=> Routed(a)
    <3>1. a \in Nat /\ getLastAddress(currentNet) < a
      BY <1>8, <2>1, <2>5, <2>7
    <3>2. RoutedIn(Family, a) <=> RoutedIn(Queue, a)
      BY <1>6, <3>1, BehindRoutes
    <3>3. currentNet.first <= a
      <4>1. currentNet.first \in Nat /\ currentNet.first <= getLastAddress(currentNet)
        BY <2>4, NetFacts
      <4> QED
        BY <2>5, <3>1, <4>1
    <3> QED
      BY <1>9, <3>2, <3>3 DEF LoopInv
  <2>8. ASSUME NEW a \in Addresses, a < nextNet.first
        PROVE  DoneRoutes(a)' <=> Routed(a)
    <3>1. \A n \in Queue : a < n.first
      BY <1>8, <2>5, <2>6, <2>8
    <3> QED
      BY <1>2, <2>1, <3>1, FinishedRoutes
  <2>9. \A a : (Routed(a)' <=> Routed(a)) /\ (RoutedIn(Family, a)' <=> RoutedIn(Queue, a))
    BY <1>2, <2>2 DEF Routed, Match, RoutedIn, Longest
  <2>10. LoopInv'
    BY <1>6, <2>1, <2>2, <2>3, <2>7, <2>8, <2>9 DEF LoopInv
  <2>11. ipsDone' \subseteq Network
    BY <2>1, <2>4 DEF TreeAdd, RouteInv
  <2> QED
    BY <1>2, <1>3, <1>7, <2>1, <2>10, <2>11 DEF RouteInv, LongestPrefixWins
<1>12. CASE forgetCurrent(nextNet, rest)
  <2>1. /\ ~NoOverlap(nextNet) /\ SameBase(nextNet) /\ currentNet.included = nextNet.included
        /\ currentNet' = nextNet /\ networks' = rest /\ ipsDone' = ipsDone
    BY <1>12 DEF forgetCurrent
  <2>2. currentNet.first = nextNet.first /\ nextNet.networkMask <= currentNet.networkMask
    BY <1>10, <2>1
  <2>3. Family' = Queue /\ Queue' \subseteq Queue
    BY <1>6, <1>7, <2>1 DEF Family, Queue
  <2>4. Good(Queue)
    BY <1>6, GoodPart
  <2>5. \A a \in Nat : RoutedIn(Family, a) <=> RoutedIn(Family', a)
    BY <1>5, <1>6, <2>1, <2>2, <2>3, ForgetRoutes
  <2> QED
    BY <1>2, <1>3, <1>6, <1>7, <2>1, <2>2, <2>3, <2>4, <2>5, LoopInvKept
<1>13. CASE ignoreNext(nextNet, rest)
  <2>1. /\ ~NoOverlap(nextNet) /\ ~SameBase(nextNet) /\ currentNet.included = nextNet.included
        /\ currentNet' = currentNet /\ networks' = rest /\ ipsDone' = ipsDone
    BY <1>13 DEF ignoreNext
  <2>2. Inside(nextNet, currentNet)
    BY <1>10, <2>1
  <2>3. /\ Family' \subseteq Family /\ Family \ {nextNet} \subseteq Family'
        /\ Queue' \subseteq Queue /\ currentNet \in Family' /\ nextNet \in Family
    BY <1>6, <1>7, <2>1 DEF Family, Queue
  <2>4. Good(Family')
    BY <1>6, <2>3, GoodPart
  <2>5. \A a \in Nat : RoutedIn(Family, a) <=> RoutedIn(Family', a)
    BY <1>6, <2>1, <2>2, <2>3, IgnoreRoutes
  <2>6. \A n \in Queue : ~Before(n, currentNet)
    BY <1>9 DEF LoopInv
  <2> QED
    BY <1>2, <1>3, <1>7, <2>1, <2>3, <2>4, <2>5, <2>6, LoopInvKept
<1>14. CASE splitNext(nextNet, rest)
  <2>1. /\ ~NoOverlap(nextNet) /\ SameBase(nextNet) /\ currentNet.included # nextNet.included
        /\ currentNet' = currentNet /\ ipsDone' = ipsDone
    BY <1>14 DEF splitNext
  <2>2. currentNet.first = nextNet.first /\ nextNet.networkMask <= currentNet.networkMask
    BY <1>10, <2>1
  <2>3. IsABag(networks') /\ Queue' = Requeued(BagToSet(rest), currentNet, nextNet)
    <3>1. PICK upper : upper = AddNew(rest, Half(nextNet, 1))
      OBVIOUS
    <3>2. networks' = IF getLastAddress(Half(nextNet, 0)) = getLastAddress(currentNet)
                      THEN upper ELSE AddNew(upper, Half(nextNet, 0))
      BY <1>14, <3>1 DEF splitNext
    <3>3. IsABag(upper) /\ BagToSet(upper) = TreeAdd(BagToSet(rest), Half(nextNet, 1))
      BY <1>7, <3>1, InsertedNew
    <3>4. /\ IsABag(AddNew(upper, Half(nextNet, 0)))
          /\ BagToSet(AddNew(upper, Half(nextNet, 0))) = TreeAdd(BagToSet(upper), Half(nextNet, 0))
      BY <3>3, InsertedNew
    <3> QED
      BY <3>2, <3>3, <3>4 DEF Requeued, Queue
  <2>4. /\ SplitOf(Family, Queue' \cup {currentNet}, nextNet)
        /\ Good(Queue' \cup {currentNet})
        /\ \A n \in Queue' : ~Before(n, currentNet)
    BY <1>5, <1>6, <1>7, <2>1, <2>2, <2>3, SplitNextGood
  <2>5. Family' = Queue' \cup {currentNet}
    BY <2>1 DEF Family
  <2>6. \A a \in Nat : RoutedIn(Family, a) <=> RoutedIn(Family', a)
    BY <2>4, <2>5, SplitRoutes
  <2> QED
    BY <1>2, <1>3, <2>1, <2>3, <2>4, <2>5, <2>6, LoopInvKept
<1>15. CASE splitCurrent(nextNet, rest)
  <2>1. /\ ~NoOverlap(nextNet) /\ ~SameBase(nextNet) /\ currentNet.included # nextNet.included
        /\ currentNet' = Half(currentNet, 0) /\ ipsDone' = ipsDone
    BY <1>15 DEF splitCurrent
  <2>2. Inside(nextNet, currentNet) /\ \A n \in Queue : currentNet.first < n.first
    BY <1>10, <2>1
  <2>3. /\ IsABag(networks')
        /\ Queue' = IF currentNet.networkMask + 1 = nextNet.networkMask
                    THEN Queue ELSE Queue \cup {Half(currentNet, 1)}
    <3>1. PICK upper : upper = rest (+) SetToBag({Half(currentNet, 1)})
      OBVIOUS
    <3>2. networks' = IF currentNet.networkMask + 1 = nextNet.networkMask
                      THEN rest (+) SetToBag({nextNet}) ELSE upper (+) SetToBag({nextNet})
      BY <1>15, <3>1 DEF splitCurrent
    <3>3. IsABag(upper) /\ BagToSet(upper) = BagToSet(rest) \cup {Half(currentNet, 1)}
      BY <1>7, <3>1, Inserted
    <3>4. /\ IsABag(upper (+) SetToBag({nextNet})) /\ IsABag(rest (+) SetToBag({nextNet}))
          /\ BagToSet(upper (+) SetToBag({nextNet})) = BagToSet(upper) \cup {nextNet}
          /\ BagToSet(rest (+) SetToBag({nextNet})) = BagToSet(rest) \cup {nextNet}
      BY <1>7, <3>3, Inserted
    <3> QED
      BY <1>6, <1>7, <3>2, <3>3, <3>4 DEF Queue
  <2>4. /\ SplitOf(Family, Queue' \cup {Half(currentNet, 0)}, currentNet)
        /\ Good(Queue' \cup {Half(currentNet, 0)})
        /\ \A n \in Queue' : ~Before(n, Half(currentNet, 0))
    BY <1>5, <1>6, <2>1, <2>2, <2>3, SplitCurrentGood
  <2>5. Family' = Queue' \cup {Half(currentNet, 0)}
    BY <2>1 DEF Family
  <2>6. \A a \in Nat : RoutedIn(Family, a) <=> RoutedIn(Family', a)
    BY <2>4, <2>5, SplitRoutes
  <2>7. currentNet'.first = currentNet.first
    <3>1. currentNet \in Prefix
      BY <1>2 DEF RouteInv, IInv, QueueInv
    <3> QED
      BY <2>1, <3>1, HalfIsPrefix
  <2> QED
    BY <1>2, <1>3, <2>1, <2>3, <2>4, <2>5, <2>6, <2>7, LoopInvKept
<1> QED
  BY <1>1, <1>4, <1>11, <1>12, <1>13, <1>14, <1>15

\* The loop starts with the input.
LEMMA RouteGenerateKeeps ==
    ASSUME RouteInv, generateIPList
    PROVE  RouteInv'
<1>1. IInv'
  BY GenerateKeeps DEF RouteInv
<1>2. CASE mIpAddresses = {}
  <2>1. /\ phase' = "done" /\ ipsDone' = {} /\ mIpAddresses' = {} /\ phase = "adding"
        /\ UNCHANGED <<networks, currentNet>> /\ mIpAddresses' = mIpAddresses
    BY <1>2 DEF generateIPList
  <2>2. LongestPrefixWins'
    BY <2>1 DEF LongestPrefixWins, getPositiveIPList, Routed, Match
  <2> QED
    BY <1>1, <2>1, <2>2 DEF RouteInv
<1>3. CASE mIpAddresses # {}
  <2>1. /\ phase' = "looping" /\ ipsDone' = {} /\ mIpAddresses' = mIpAddresses
        /\ currentNet' = CHOOSE n \in mIpAddresses : \A m \in mIpAddresses : ~Before(m, n)
        /\ networks' = SetToBag(mIpAddresses \ {currentNet'})
    BY <1>3 DEF generateIPList
  <2>2. Good(mIpAddresses) /\ mIpAddresses \subseteq Network
    BY DEF RouteInv, Good
  <2>3. currentNet' \in mIpAddresses /\ \A m \in mIpAddresses : ~Before(m, currentNet')
    BY <1>3, <2>1, <2>2, FirstExists
  <2>4. IsABag(networks') /\ BagToSet(networks') = mIpAddresses \ {currentNet'}
    BY <2>1 DEF IsABag, BagToSet, SetToBag
  <2>5. Family' = mIpAddresses /\ Queue' \subseteq mIpAddresses
    BY <2>3, <2>4 DEF Family, Queue
  <2>6. \A a : (Routed(a)' <=> RoutedIn(mIpAddresses, a))
               /\ (RoutedIn(Family, a)' <=> RoutedIn(mIpAddresses, a))
    BY <2>1, <2>5, RoutedIsRoutedIn DEF Routed, Match, RoutedIn, Longest
  <2>7. ASSUME NEW a \in Addresses, a < currentNet'.first PROVE ~Routed(a)' /\ ~DoneRoutes(a)'
    <3>1. ASSUME NEW n \in mIpAddresses PROVE ~Covers(n, a)
      <4>1. n.first \in Nat /\ currentNet'.first \in Nat /\ a \in Nat
        BY <2>2, <2>3, NetFacts, PowerPositive, WidthAssumption DEF Addresses
      <4>2. currentNet'.first <= n.first
        BY <2>3, <4>1 DEF Before
      <4> QED
        BY <2>7, <4>1, <4>2 DEF Covers
    <3> QED
      BY <2>1, <2>6, <3>1 DEF RoutedIn, Longest, DoneRoutes, getPositiveIPList
  <2>8. LoopInv'
    BY <2>2, <2>3, <2>5, <2>6, <2>7 DEF LoopInv
  <2> QED
    BY <1>1, <2>1, <2>2, <2>4, <2>8 DEF RouteInv, LongestPrefixWins
<1> QED
  BY <1>2, <1>3

\* The last network of the loop completes the list.
LEMMA RouteLastKeeps ==
    ASSUME RouteInv, lastNet, IInv'
    PROVE  RouteInv'
<1>1. /\ phase = "looping" /\ networks = EmptyBag /\ phase' = "done"
      /\ ipsDone' = TreeAdd(ipsDone, currentNet) /\ currentNet' = Null
      /\ UNCHANGED <<mIpAddresses, networks>>
  BY DEF lastNet
<1>2. Queue = {}
  BY <1>1 DEF Queue, EmptyBag, SetToBag, BagToSet
<1>3. \A a \in Addresses : DoneRoutes(a)' <=> Routed(a)
  BY <1>1, <1>2, FinishedRoutes
<1>4. \A a : Routed(a)' <=> Routed(a)
  BY <1>1 DEF Routed, Match
<1>5. LongestPrefixWins'
  BY <1>3, <1>4 DEF LongestPrefixWins, DoneRoutes
<1>6. currentNet \in Network
  BY <1>1 DEF RouteInv, LoopInv, Good, Family
<1> QED
  BY <1>1, <1>5, <1>6 DEF RouteInv, TreeAdd

\* The inductive step of the theorems below.
LEMMA RoutesKept ==
    ASSUME ~AnyNets
    PROVE  Spec => []RouteInv
<1>1. Init => RouteInv
  <2> SUFFICES ASSUME Init PROVE RouteInv
    OBVIOUS
  <2>1. IInv
    BY DEF Init, IInv, QueueInv, Ordered, Disjoint, EmptyBag, SetToBag, BagToSet
  <2>2. IsABag(networks)
    BY DEF Init, EmptyBag, SetToBag, IsABag
  <2>3. Good(mIpAddresses)
    BY DEF Init, Good, Unique, FewExceptions, Exceptions
  <2> QED
    BY <2>1, <2>2, <2>3 DEF Init, RouteInv, LongestPrefixWins
<1>2. RouteInv /\ [Next]_vars => RouteInv'
  <2> SUFFICES ASSUME RouteInv, [Next]_vars PROVE RouteInv'
    OBVIOUS
  <2>1. ASSUME NEW n \in Network, addIP(n) PROVE RouteInv'
    <3>1. /\ phase = "adding" /\ mIpAddresses' = TreeAdd(mIpAddresses, n)
          /\ FewExceptions(mIpAddresses')
          /\ UNCHANGED <<networks, currentNet, ipsDone, phase>>
      BY <2>1 DEF addIP
    <3>2. Good(mIpAddresses')
      BY <3>1 DEF RouteInv, Good, Unique, TreeAdd, equals
    <3>3. IInv'
      BY <3>1 DEF TreeAdd, RouteInv, IInv, QueueInv, Ordered, Disjoint
    <3> QED
      BY <3>1, <3>2, <3>3 DEF RouteInv, LongestPrefixWins
  <2>2. CASE lastNet
    <3>1. IInv'
      BY <2>2, DoneGrows DEF lastNet, RouteInv, IInv, QueueInv, Ordered
    <3> QED
      BY <2>2, <3>1, RouteLastKeeps
  <2>3. CASE clear
    <3>1. IInv' /\ Good(mIpAddresses')
      BY <2>3 DEF clear, RouteInv, IInv, QueueInv, Ordered, Disjoint, Good, Unique,
                  FewExceptions, Exceptions
    <3> QED
      BY <2>3, <3>1 DEF clear, RouteInv, LongestPrefixWins
  <2>4. CASE UNCHANGED vars
    BY <2>4 DEF vars, RouteInv, IInv, QueueInv, Ordered, Disjoint, LoopInv, Family, Queue,
                DoneRoutes, getPositiveIPList, Routed, Match, LongestPrefixWins
  <2> QED
    BY <2>1, <2>2, <2>3, <2>4, RouteGenerateKeeps, RouteLoopKeeps DEF Next
<1> QED
  BY <1>1, <1>2, PTL DEF Spec

\* The queue and the list hold well-formed networks: split never makes one with
\* bits beyond its mask or longer than an address.  (It can for networks that
\* are nested in other ways.)
THEOREM TypeCorrect ==
    ASSUME ~AnyNets
    PROVE  Spec => []TypeOK
<1>1. RouteInv => TypeOK
  BY DEF RouteInv, TypeOK, IInv, QueueInv, LoopInv, Good, Family, Queue, EmptyBag, SetToBag, BagToSet
<1> QED
  BY <1>1, RoutesKept, PTL

\* The list sends an address through the VPN exactly if the longest matching
\* network of the input is an included one, for every address width.
THEOREM LongestPrefixDecides ==
    ASSUME ~AnyNets
    PROVE  Spec => []LongestPrefixWins
<1>1. RouteInv => LongestPrefixWins
  BY DEF RouteInv
<1> QED
  BY <1>1, RoutesKept, PTL

\* The assertions in the branch that splits or ignores hold.
THEOREM AssertionsHold ==
    ASSUME ~AnyNets
    PROVE  Spec => []LoopAssertions
<1>1. ASSUME RouteInv, phase = "looping", NEW nextNet \in Least,
             ~NoOverlap(nextNet), ~SameBase(nextNet)
      PROVE  /\ currentNet.networkMask < nextNet.networkMask
             /\ nextNet.first > currentNet.first
             /\ getLastAddress(currentNet) >= getLastAddress(nextNet)
  <2>1. Polled(Queue, currentNet, nextNet)
    BY <1>1, PolledFacts
  <2>2. currentNet \in Network /\ nextNet \in Network
    BY <2>1 DEF Polled, Good
  <2>3. /\ currentNet.first \in Nat /\ nextNet.first \in Nat
        /\ currentNet.networkMask \in Nat /\ nextNet.networkMask \in Nat
        /\ getLastAddress(currentNet) \in Nat /\ getLastAddress(nextNet) \in Nat
    BY <2>2, NetFacts
  <2>4. currentNet.first < nextNet.first /\ Inside(nextNet, currentNet)
    BY <1>1, <2>1, <2>3, Overlaps DEF NoOverlap, SameBase
  <2> QED
    BY <2>3, <2>4 DEF Inside
<1>2. RouteInv => LoopAssertions
  BY <1>1 DEF LoopAssertions
<1> QED
  BY <1>2, RoutesKept, PTL
=============================================================================
