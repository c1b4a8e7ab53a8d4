----------------------------- MODULE RelayProofs -----------------------------
(* That a relay loses nothing, for every size of its buffers. *)
EXTENDS Relay, TLAPS

Inv == TypeOK /\ Delivered /\ Over

\* Before the first connection nothing is owed.
LEMMA InitInv == ASSUME Init PROVE Inv
<1>1. TypeOK
  BY DEF Init, TypeOK
<1>2. toServer <= fromDevice /\ toDevice <= fromServer
  BY DEF Init
<1>3. Over /\ toServer = fromDevice /\ toDevice = fromServer
  BY Zenon DEF Init, Over
<1> QED
  BY <1>1, <1>2, <1>3 DEF Inv, Delivered

\* A new connection starts its counts afresh.
LEMMA AcceptInv == ASSUME Inv, Accept PROVE Inv'
  BY DEF Accept, Carry, Ends, Inv, TypeOK, Delivered, Over, Live

\* A step ends a side only when its debt is paid or its peer has gone.
LEMMA StepInv == ASSUME Inv, Step PROVE Inv'
<1>1. TypeOK'
  BY DEF Step, Carry, Ends, TypeOK
<1>2. Over'
  <2>1. ASSUME ~serverOpen', ~serverGone' PROVE ~deviceOpen'
    <3>1. CASE serverOpen
      BY <2>1, <3>1 DEF Step, Ends
    <3>2. CASE ~serverOpen
      <4>1. ~serverGone
        BY <2>1 DEF Step
      <4> QED
        BY <3>2, <4>1 DEF Step, Ends, Inv, Over
    <3> QED
      BY <3>1, <3>2
  <2>2. ASSUME ~deviceOpen', ~deviceGone' PROVE ~serverOpen'
    <3>1. CASE deviceOpen
      BY <2>2, <3>1 DEF Step, Ends
    <3>2. CASE ~deviceOpen
      <4>1. ~deviceGone
        BY <2>2 DEF Step
      <4> QED
        BY <3>2, <4>1 DEF Step, Ends, Inv, Over
    <3> QED
      BY <3>1, <3>2
  <2> QED
    BY <2>1, <2>2 DEF Over
<1>3. Delivered'
  <2>1. toServer' <= fromDevice' /\ toDevice' <= fromServer'
    BY DEF Step, Carry
  <2>2. ASSUME ~serverOpen', ~serverGone' PROVE toServer' = fromDevice'
    <3>1. CASE serverOpen
      BY <2>2, <3>1 DEF Step, Ends
    <3>2. CASE ~serverOpen
      <4>1. ~serverGone
        BY <2>2 DEF Step
      <4>2. ~deviceOpen /\ toServer = fromDevice
        BY <3>2, <4>1 DEF Inv, Over, Delivered
      <4> QED
        BY <3>2, <4>2 DEF Step
    <3> QED
      BY <3>1, <3>2
  <2>3. ASSUME ~deviceOpen', ~deviceGone' PROVE toDevice' = fromServer'
    <3>1. CASE deviceOpen
      BY <2>3, <3>1 DEF Step, Ends
    <3>2. CASE ~deviceOpen
      <4>1. ~deviceGone
        BY <2>3 DEF Step
      <4>2. ~serverOpen /\ toDevice = fromServer
        BY <3>2, <4>1 DEF Inv, Over, Delivered
      <4> QED
        BY <3>2, <4>2 DEF Step
    <3> QED
      BY <3>1, <3>2
  <2> QED
    BY <2>1, <2>2, <2>3 DEF Delivered
<1> QED
  BY <1>1, <1>2, <1>3 DEF Inv

(* A connection that ends without its server failing has handed the server   *)
(* every byte the device sent, and one that ends without the device going    *)
(* away has had every byte of the server confirmed: what tun2socks, which    *)
(* implements Relay (run tun2socks), owes the two peers.                     *)
THEOREM RelayDelivers == Spec => []Delivered
<1>1. Inv /\ [Next]_vars => Inv'
  <2> SUFFICES ASSUME Inv, [Next]_vars PROVE Inv'
    OBVIOUS
  <2>1. CASE UNCHANGED vars
    BY <2>1 DEF Inv, TypeOK, Delivered, Over, vars
  <2> QED
    BY AcceptInv, StepInv, <2>1 DEF Next
<1>2. Inv => Delivered
  BY DEF Inv
<1> QED
  BY InitInv, <1>1, <1>2, PTL DEF Spec
=============================================================================
