SPECIFICATION FairSpec
CONSTANTS
  hub = hub
  a = a
  b = b
  l1 = l1
  l2 = l2
  w1 = w1
  w2 = w2
  Node = {hub, a, b}
  Link = {l1, l2}
  Opener <- Star
  Acceptor <- ToH
  Ws = {w1}
  Home <- Homes
  Nil = Nil
  Callers = {}
  MaxCalls = 0
  MaxFailures = 1
INVARIANT NoNamedGhosts
INVARIANT JoinTakesEffect
PROPERTY ClosedSessionsGo
CHECK_DEADLOCK FALSE
