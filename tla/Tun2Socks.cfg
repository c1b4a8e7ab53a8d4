SPECIFICATION Spec
CONSTANTS
  Wnd = 2
  SndBuf = 3
  RecvBuf = 2
  Methods = {"none", "password"}
  MaxUp = 3
  MaxDown = 4
  Stale = FALSE
INVARIANT TypeOK
INVARIANT WindowAccounted
INVARIANT SendAccounted
INVARIANT NoDangling
INVARIANT NestingSafe
INVARIANT NeverStuck
PROPERTY RelaySpec
PROPERTY Reaped
