SPECIFICATION FairSpec
CONSTANTS
  t1 = t1
  t2 = t2
  w1 = w1
  x1 = x1
  x2 = x2
  r1 = r1
  n1 = n1
  n2 = n2
  Tcp = {t1}
  Ws = {w1}
  Proxy = {}
  Api = {a1}
  RemoteId = {r1}
  ProxyId <- OneRemote
  Node = {n1, n2}
  PeerOf <- OnePeer
  Self = Self
  Nil = Nil
  Torn = Torn
  None = None
  LeaveId = {r1}
  MaxCalls = 1
PROPERTY DoomedSessionsGo
PROPERTY RemovedSessionsEnd
CHECK_DEADLOCK FALSE
