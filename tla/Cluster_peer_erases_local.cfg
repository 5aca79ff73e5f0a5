SPECIFICATION Spec
CONSTANTS
  hub = hub
  a = a
  b = b
  l1 = l1
  l2 = l2
  w1 = w1
  w2 = w2
  Node = {hub, a}
  Link = {l1}
  Opener <- FromA
  Acceptor <- ToH
  Ws = {w1}
  Home <- Homes
  Nil = Nil
  Callers = {a}
  MaxCalls = 1
  MaxFailures = 0
INVARIANT LocalSessionRegistered
CHECK_DEADLOCK FALSE
