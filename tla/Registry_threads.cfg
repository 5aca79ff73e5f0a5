SPECIFICATION Spec
CONSTANTS
  t1 = t1
  t2 = t2
  w1 = w1
  x1 = x1
  x2 = x2
  r1 = r1
  n1 = n1
  n2 = n2
  Tcp = {t1}
  Ws = {w1}
  Proxy = {x1, x2}
  Api = {a1}
  RemoteId = {r1}
  ProxyId <- OneRemote
  Node = {n1, n2}
  PeerOf <- OnePeer
  Self = Self
  Nil = Nil
  Torn = Torn
  None = None
  LeaveId = {r1}
  MaxCalls = 1
INVARIANT TypeOK
INVARIANT DisconnectedOnce
INVARIANT LeaveMeansGone
PROPERTY LifecycleSpec
SYMMETRY AlikeProxies
CHECK_DEADLOCK FALSE
