------------------------- MODULE MCSessionRegistry -------------------------
(* Small instances of SessionRegistry for TLC.                             *)
EXTENDS SessionRegistry

CONSTANTS t1, t2, w1, x1, x2, r1, n1, n2

\* All links lead to one peer.
OnePeer  == [t \in Tcp |-> n1]

\* Every proxy is built for the one remote websocket session.
OneRemote == [x \in Proxy |-> r1]

\* The proxies, and the links to the one peer, are alike.
AlikeProxies == Permutations({x1, x2})
AlikeLinks   == Permutations({t1, t2})
=============================================================================
