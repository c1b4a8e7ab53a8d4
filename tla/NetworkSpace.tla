---------------------------- MODULE NetworkSpace ----------------------------
(***************************************************************************)
(* The route calculation of the OpenVPN service.  NetworkSpace collects    *)
(* included and excluded networks; generateIPList turns them into disjoint *)
(* networks, one step of its loop per action; getPositiveIPList hands the  *)
(* included ones to VpnService.Builder.                                    *)
(*                                                                         *)
(* A network is its first address, its prefix length and its type.  The    *)
(* address width (32 or 128 in the code) is a constant.                    *)
(***************************************************************************)
EXTENDS Integers, FiniteSets, Bags

CONSTANTS
    Width,         \* address bits
    MaxNets,       \* bound on the networks added
    AnyNets        \* TRUE: any networks; FALSE: see FewExceptions

ASSUME WidthAssumption == Width \in Nat /\ MaxNets \in Nat
ASSUME AnyNetsAssumption == AnyNets \in BOOLEAN

VARIABLES
    mIpAddresses,  \* TreeSet of the networks added
    networks,      \* PriorityQueue of generateIPList, a bag
    currentNet,    \* network in hand, or Null
    ipsDone,       \* TreeSet of finished networks
    phase          \* "adding", "looping" or "done"

vars == <<mIpAddresses, networks, currentNet, ipsDone, phase>>

\* 2^n, in a form that can be reasoned about
PowerOfTwo[n \in Nat] == IF n = 0 THEN 1 ELSE 2 * PowerOfTwo[n - 1]

Addresses == 0..(PowerOfTwo[Width] - 1)
Null == [first |-> -1, networkMask |-> -1, included |-> FALSE]
Size(len) == IF len < Width THEN PowerOfTwo[Width - len] ELSE 1

Network ==
    {n \in [first : Addresses, networkMask : 0..Width, included : BOOLEAN] :
        n.first % Size(n.networkMask) = 0}

getLastAddress(n) == n.first + Size(n.networkMask) - 1
equals(n, m) == n.networkMask = m.networkMask /\ n.first = m.first

\* n lies inside the larger network m
Inside(n, m) ==
    /\ m.networkMask < n.networkMask
    /\ m.first <= n.first /\ getLastAddress(n) <= getLastAddress(m)

\* networks that lie inside one of the other type
Exceptions(nets) ==
    {n \in nets : \E m \in nets : Inside(n, m) /\ n.included # m.included}

\* a default route with single addresses (VPN servers) or one network taken out
FewExceptions(nets) ==
    \A n \in Exceptions(nets) : n.networkMask = Width \/ Exceptions(nets) = {n}

\* mutant: the larger of two networks with the same base comes first
Before_LargerFirst(n, m) ==
    \/ n.first < m.first
    \/ n.first = m.first /\ n.networkMask < m.networkMask

\* compareTo(n, m) < 0: by first address, then the smaller network first
Before(n, m) ==
    \/ n.first < m.first
    \/ n.first = m.first /\ n.networkMask > m.networkMask

\* TreeSet.add: an element that compares equal stays, whatever its type
TreeAdd(set, n) == IF \E m \in set : equals(n, m) THEN set ELSE set \cup {n}

\* PriorityQueue.poll: any of the least elements
Least == {n \in BagToSet(networks) : \A m \in BagToSet(networks) : ~Before(m, n)}

\* mutant: the second half starts on the last address of the first
Half_NoAddOne(n, i) ==
    [first |-> n.first + i * (Size(n.networkMask + 1) - 1),
     networkMask |-> n.networkMask + 1, included |-> n.included]

\* split()[i]
Half(n, i) ==
    [first |-> n.first + i * Size(n.networkMask + 1),
     networkMask |-> n.networkMask + 1, included |-> n.included]
Contains(bag, n) == \E m \in BagToSet(bag) : equals(n, m)
AddNew(bag, n) == IF Contains(bag, n) THEN bag ELSE bag (+) SetToBag({n})

\* The queue and the results hold well-formed networks: split never makes one
\* whose base has bits beyond its mask.
TypeOK ==
    /\ mIpAddresses \subseteq Network
    /\ IsABag(networks) /\ BagToSet(networks) \subseteq Network
    /\ currentNet \in Network \cup {Null}
    /\ ipsDone \subseteq Network
    /\ phase \in {"adding", "looping", "done"}

Init ==
    /\ mIpAddresses = {}
    /\ networks = EmptyBag
    /\ currentNet = Null
    /\ ipsDone = {}
    /\ phase = "adding"

-----------------------------------------------------------------------------
addIP(n) ==
    /\ phase = "adding" /\ Cardinality(mIpAddresses) < MaxNets
    /\ mIpAddresses' = TreeAdd(mIpAddresses, n)
    /\ AnyNets \/ FewExceptions(mIpAddresses')
    /\ UNCHANGED <<networks, currentNet, ipsDone, phase>>

generateIPList ==
    /\ phase = "adding"
    /\ IF mIpAddresses = {}
       THEN phase' = "done" /\ UNCHANGED <<networks, currentNet>>
       ELSE /\ phase' = "looping"
            /\ currentNet' = CHOOSE n \in mIpAddresses :
                                \A m \in mIpAddresses : ~Before(m, n)
            /\ networks' = SetToBag(mIpAddresses \ {currentNet'})
    /\ ipsDone' = {}
    /\ UNCHANGED mIpAddresses

\* mutant: a network that only touches the next one counts as disjoint
NoOverlap_Touching(nextNet) == getLastAddress(currentNet) <= nextNet.first

\* the loop's tests, for the network nextNet just polled
NoOverlap(nextNet) == getLastAddress(currentNet) < nextNet.first
SameBase(nextNet) ==
    /\ currentNet.first = nextNet.first
    /\ currentNet.networkMask >= nextNet.networkMask

lastNet ==
    /\ phase = "looping" /\ networks = EmptyBag
    /\ ipsDone' = TreeAdd(ipsDone, currentNet)
    /\ currentNet' = Null
    /\ phase' = "done"
    /\ UNCHANGED <<mIpAddresses, networks>>

noOverlap(nextNet, rest) ==
    /\ NoOverlap(nextNet)
    /\ ipsDone' = TreeAdd(ipsDone, currentNet)
    /\ currentNet' = nextNet
    /\ networks' = rest

forgetCurrent(nextNet, rest) ==
    /\ ~NoOverlap(nextNet) /\ SameBase(nextNet)
    /\ currentNet.included = nextNet.included
    /\ currentNet' = nextNet
    /\ networks' = rest
    /\ UNCHANGED ipsDone

\* mutant: the lower half is left out in every case
splitNext_NoLower(nextNet, rest) ==
    /\ ~NoOverlap(nextNet) /\ SameBase(nextNet)
    /\ currentNet.included # nextNet.included
    /\ networks' = AddNew(rest, Half(nextNet, 1))
    /\ UNCHANGED <<currentNet, ipsDone>>

splitNext(nextNet, rest) ==
    /\ ~NoOverlap(nextNet) /\ SameBase(nextNet)
    /\ currentNet.included # nextNet.included
    /\ LET upper == AddNew(rest, Half(nextNet, 1))
       IN  networks' = IF getLastAddress(Half(nextNet, 0)) = getLastAddress(currentNet)
                       THEN upper ELSE AddNew(upper, Half(nextNet, 0))
    /\ UNCHANGED <<currentNet, ipsDone>>

\* mutant: the ignored network goes back into the queue
ignoreNext_PutBack(nextNet, rest) ==
    /\ ~NoOverlap(nextNet) /\ ~SameBase(nextNet)
    /\ currentNet.included = nextNet.included
    /\ networks' = rest (+) SetToBag({nextNet})
    /\ UNCHANGED <<currentNet, ipsDone>>

ignoreNext(nextNet, rest) ==
    /\ ~NoOverlap(nextNet) /\ ~SameBase(nextNet)
    /\ currentNet.included = nextNet.included
    /\ networks' = rest
    /\ UNCHANGED <<currentNet, ipsDone>>

splitCurrent(nextNet, rest) ==
    /\ ~NoOverlap(nextNet) /\ ~SameBase(nextNet)
    /\ currentNet.included # nextNet.included
    /\ networks' = IF currentNet.networkMask + 1 = nextNet.networkMask
                   THEN rest (+) SetToBag({nextNet})
                   ELSE rest (+) SetToBag({Half(currentNet, 1)}) (+) SetToBag({nextNet})
    /\ currentNet' = Half(currentNet, 0)
    /\ UNCHANGED ipsDone

loop ==
    /\ phase = "looping"
    /\ \E nextNet \in Least :
         LET rest == networks (-) SetToBag({nextNet})
         IN  \/ noOverlap(nextNet, rest) \/ forgetCurrent(nextNet, rest)
             \/ splitNext(nextNet, rest) \/ ignoreNext(nextNet, rest)
             \/ splitCurrent(nextNet, rest)
    /\ UNCHANGED <<mIpAddresses, phase>>

\* openTun: the list is used, the collection cleared
clear ==
    /\ phase = "done"
    /\ mIpAddresses' = {}
    /\ phase' = "adding"
    /\ ipsDone' = {}
    /\ UNCHANGED <<networks, currentNet>>

Next ==
    \/ \E n \in Network : addIP(n)
    \/ generateIPList \/ lastNet \/ loop \/ clear

Spec == Init /\ [][Next]_vars

\* the loop runs on one thread without waiting
FairSpec == Spec /\ WF_vars(lastNet \/ loop)

-----------------------------------------------------------------------------
(* Properties *)

Covers(n, a) == n.first <= a /\ a <= getLastAddress(n)

\* the longest matching prefix decides, as in a routing table
Match(a) == {n \in mIpAddresses : Covers(n, a)}
Routed(a) ==
    \E n \in Match(a) :
        /\ n.included
        /\ \A m \in Match(a) : m.networkMask <= n.networkMask

getPositiveIPList == {n \in ipsDone : n.included}

\* The routes given to the builder send an address through the VPN exactly if
\* the longest matching network of the input is an included one.
LongestPrefixWins ==
    phase = "done" =>
        \A a \in Addresses : (\E n \in getPositiveIPList : Covers(n, a)) <=> Routed(a)

\* The list never holds overlapping networks: no address is routed twice.
Disjoint ==
    \A n \in ipsDone, m \in ipsDone :
        n # m => getLastAddress(n) < m.first \/ getLastAddress(m) < n.first

\* The assertions of the branch that splits or ignores (DEBUG builds).
LoopAssertions ==
    phase = "looping" =>
        \A nextNet \in Least :
            ~NoOverlap(nextNet) /\ ~SameBase(nextNet) =>
                /\ currentNet.networkMask < nextNet.networkMask
                /\ nextNet.first > currentNet.first
                /\ getLastAddress(currentNet) >= getLastAddress(nextNet)

\* The loop ends: splitting never goes on for ever.
Terminates == phase = "looping" ~> phase = "done"
=============================================================================
