-------------------------------- MODULE Relay --------------------------------
(***************************************************************************)
(* What tun2socks promises for one TCP connection, without lwIP, buffers   *)
(* or callbacks: it carries bytes both ways in order and ends a side only  *)
(* when that side's peer has gone, or when the other side's peer has gone  *)
(* and everything that peer had sent has been handed over.                 *)
(*                                                                         *)
(* A handler of the program may do several of these things at once, so a   *)
(* step is a relation between the counts before and after it.              *)
(***************************************************************************)
EXTENDS Naturals

CONSTANTS UpMax,     \* bytes held for the SOCKS server: client->buf
          DownMax    \* bytes held for the device: the receive buffer and the send queue

VARIABLES
  deviceOpen, serverOpen,   \* the relay still holds that side's connection
  deviceGone, serverGone,   \* that side's peer has closed, reset or failed, or lwIP refused to send to it
  fromDevice, toServer,     \* bytes taken from the device, handed to the server
  fromServer, toDevice      \* bytes taken from the server, confirmed by the device

vars == <<deviceOpen, serverOpen, deviceGone, serverGone,
          fromDevice, toServer, fromServer, toDevice>>

Live == deviceOpen \/ serverOpen

Init == /\ deviceOpen = FALSE /\ serverOpen = FALSE
        /\ deviceGone = FALSE /\ serverGone = FALSE
        /\ fromDevice = 0 /\ toServer = 0 /\ fromServer = 0 /\ toDevice = 0

\* The counts after a step that started with these: nothing is invented, and
\* what is held stays within the buffers while there is a side to hand it to.
Carry(fd, ts, fs, td) ==
  /\ fromDevice' \in Nat /\ toServer' \in Nat /\ fromServer' \in Nat /\ toDevice' \in Nat
  /\ fd <= fromDevice' /\ ts <= toServer' /\ toServer' <= fromDevice'
  /\ fs <= fromServer' /\ td <= toDevice' /\ toDevice' <= fromServer'
  /\ serverOpen' => fromDevice' - toServer' <= UpMax
  /\ deviceOpen' => fromServer' - toDevice' <= DownMax

\* A side that was open may end only with its peer gone, or with the other
\* side ended and everything that side brought handed over.
Ends(deviceWas, serverWas) ==
  /\ deviceOpen' \in BOOLEAN /\ serverOpen' \in BOOLEAN
  /\ deviceGone' \in BOOLEAN /\ serverGone' \in BOOLEAN
  /\ deviceOpen' => deviceWas
  /\ serverOpen' => serverWas
  /\ deviceWas /\ ~deviceOpen' =>
       deviceGone' \/ (serverGone' /\ ~serverOpen' /\ toDevice' = fromServer')
  /\ serverWas /\ ~serverOpen' =>
       serverGone' \/ (deviceGone' /\ ~deviceOpen' /\ toServer' = fromDevice')

\* A new connection of the device.
Accept == /\ ~Live
          /\ Carry(0, 0, 0, 0)
          /\ Ends(TRUE, TRUE)

Step == /\ Live
        /\ Carry(fromDevice, toServer, fromServer, toDevice)
        /\ Ends(deviceOpen, serverOpen)
        /\ deviceGone => deviceGone'
        /\ serverGone => serverGone'
        /\ ~deviceOpen => UNCHANGED <<fromDevice, toDevice>>
        /\ ~serverOpen => UNCHANGED <<fromServer, toServer>>

Next == Accept \/ Step

Spec == Init /\ [][Next]_vars

\* The counts are numbers and the sides open or not.
TypeOK ==
  /\ deviceOpen \in BOOLEAN /\ serverOpen \in BOOLEAN
  /\ deviceGone \in BOOLEAN /\ serverGone \in BOOLEAN
  /\ fromDevice \in Nat /\ toServer \in Nat /\ fromServer \in Nat /\ toDevice \in Nat

\* A connection that ended on its own account lost nothing: if the server did
\* not fail, it was handed all that the device sent, and the other way round.
Delivered ==
  /\ toServer <= fromDevice /\ toDevice <= fromServer
  /\ ~serverOpen /\ ~serverGone => toServer = fromDevice
  /\ ~deviceOpen /\ ~deviceGone => toDevice = fromServer

\* Once the server's side is over without a failure of the server, so is the
\* device's, and the other way round: no later bytes can go astray.
Over == /\ ~serverOpen /\ ~serverGone => ~deviceOpen
        /\ ~deviceOpen /\ ~deviceGone => ~serverOpen
=============================================================================
