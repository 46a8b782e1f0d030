CONSTANTS
  p1 = p1
  p2 = p2
  p3 = p3
  Procs <- Three
  Cmds = {"start", "stop", "restart"}
  Polls = 2
  Clients = {"c"}
  Stems <- ThreeStems
  Misnamed = {"odd"}
  K <- KOf
  OUT <- OutOf
  Mts = {1, 17, 256}
  Cap <- Caps
  WarmFiles <- OneFile
  LoadResults = {"ok", "tensor"}
  RunResults = {TRUE, FALSE}
  MaxMt = 65536
SYMMETRY Alike
CHECK_DEADLOCK FALSE
SPECIFICATION DaemonsSpec
INVARIANTS DaemonIsAlone StopIsEffective StreamIsFramed CacheIsSound
PROPERTIES RefusalIsJustified TilesAreClean
