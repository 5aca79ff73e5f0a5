--------------------------- MODULE ClusterPresence ---------------------------
(***************************************************************************)
(* How the nodes of a cluster learn of each other's websocket sessions: a  *)
(* node broadcasts join and leave frames over its TCP links, and a node    *)
(* that receives a join registers a proxy for the remote session.          *)
(*                                                                         *)
(* A node's registry is the sequence of its entries in the order in which  *)
(* broadcast_to_nodes iterates, that of the hashed index by_id.  What      *)
(* SessionRegistry takes apart, the critical sections of one node, is one  *)
(* step here; what is interleaved is the nodes and the frames between them.*)
(***************************************************************************)
EXTENDS Naturals, FiniteSets, SequencesExt

CONSTANTS
  Node,        \* nodes
  Link,        \* TCP connections that may come up
  Opener,      \* the node that opens each link with state::connect
  Acceptor,    \* the node whose listener accepts it
  Ws,          \* websocket clients' sessions
  Home,        \* the node each of them is accepted by
  Nil,         \* nil_uuid()
  Callers,     \* the nodes whose application calls disconnect(_all)
  MaxCalls,    \* BOUND: calls of disconnect and disconnect_all, all nodes
  MaxFailures  \* BOUND: links that break and nodes that crash

ASSUME ConstantsAssumption ==
  /\ Opener \in [Link -> Node] /\ Acceptor \in [Link -> Node]
  /\ \A l \in Link : Opener[l] # Acceptor[l]
  /\ Home \in [Ws -> Node]
  /\ Nil \notin Node
  /\ Callers \subseteq Node
  /\ MaxCalls \in Nat /\ MaxFailures \in Nat

Ends(l)    == {Opener[l], Acceptor[l]}
Peer(n, l) == IF n = Opener[l] THEN Acceptor[l] ELSE Opener[l]
Entry      == ({"tcp"} \X Link) \union ({"ws"} \X Ws)
Frame      == ({"identify", "identified"} \X Node) \union ({"join", "leave"} \X Ws)

VARIABLES
  reg,        \* state::sessions_ of each node, in the order of by_id
  known,      \* known[n][l]: node_id_ of n's session on link l
  owner,      \* owner[n][w]: node_id_ of the proxy n holds for w
  chan,       \* chan[n][l]: the frames on their way to n over l
  connected,  \* links whose opener has registered its session
  greeted,    \* links on which the opener has sent identify and started to read
  accepted,   \* links whose acceptor has registered its session
  broken,     \* links that broke, or that one of the ends closed
  client,     \* each websocket session: "new", "handshake", "open", "closed"
  purge,      \* per node: the entries disconnect(_all) still has to remove
  crashed,    \* nodes that are gone
  told,       \* history: <<w, l, k>>, w's join was sent over l, then known as k
  lost,       \* history: <<n, m>>, n has lost a link to m
  calls,
  failures

vars == <<reg, known, owner, chan, connected, greeted, accepted, broken, client,
          purge, crashed, told, lost, calls, failures>>

links   == <<connected, greeted, accepted>>
budgets == <<calls, failures>>

Registered(n, e) == e \in ToSet(reg[n])

\* A registry after an insertion.  A new entry stands next to those it shares a
\* bucket with, wherever they are, and a rehash deals all buckets anew: with
\* random ids, any order may come out.
Inserted(r, e) ==
  LET q == Append(r, e)
  IN  {[i \in DOMAIN q |-> q[p[i]]] : p \in Bijection(DOMAIN q, DOMAIN q)}

Insert(n, e) == \E q \in Inserted(reg[n], e) : reg' = [reg EXCEPT ![n] = q]

\* A registry after the erase of an entry, or as it is.
Without(r, e) == IF e \in ToSet(r) THEN RemoveAt(r, CHOOSE i \in DOMAIN r : r[i] = e)
                 ELSE r

Init ==
  /\ reg = [n \in Node |-> <<>>]
  /\ known = [n \in Node |-> [l \in Link |-> Nil]]
  /\ owner = [n \in Node |-> [w \in Ws |-> Nil]]
  /\ chan = [n \in Node |-> [l \in Link |-> <<>>]]
  /\ connected = {} /\ greeted = {} /\ accepted = {} /\ broken = {}
  /\ client = [w \in Ws |-> "new"]
  /\ purge = [n \in Node |-> {}]
  /\ crashed = {}
  /\ told = {} /\ lost = {}
  /\ calls = 0 /\ failures = 0

-----------------------------------------------------------------------------
(* Sending.                                                                *)

\* broadcast_to_nodes: the first TCP session of each distinct node_id_ value.
Targets(n, r) ==
  {l \in Link : \E i \in DOMAIN r :
     /\ r[i] = <<"tcp", l>>
     /\ \A j \in 1..(i - 1) : r[j][1] = "tcp" => known[n][r[j][2]] # known[n][l]}

\* The channels after n has sent frame f over the links in L; what is sent
\* over a broken link is lost.
Sent(n, L, f) ==
  [m \in Node |-> [l \in Link |->
     IF l \in L \ broken /\ m = Peer(n, l)
       THEN Append(chan[m][l], f) ELSE chan[m][l]]]

-----------------------------------------------------------------------------
(* Links come up.                                                          *)

\* state::connect registers the session before it sends anything on it.
connect(l) ==
  /\ l \notin connected
  /\ Ends(l) \intersect crashed = {}
  /\ connected' = connected \union {l}
  /\ Insert(Opener[l], <<"tcp", l>>)
  /\ UNCHANGED <<known, owner, chan, greeted, accepted, broken, client, purge,
                 crashed, told, lost, budgets>>

\* ... then it sends its identify request and starts to read.
greet(l) ==
  /\ l \in connected \ greeted
  /\ Opener[l] \notin crashed
  /\ greeted' = greeted \union {l}
  /\ chan' = Sent(Opener[l], {l}, <<"identify", Opener[l]>>)
  /\ UNCHANGED <<reg, known, owner, connected, accepted, broken, client, purge,
                 crashed, told, lost, budgets>>

\* tcp_listener::do_accept.
accept(l) ==
  /\ l \in connected \ accepted
  /\ Acceptor[l] \notin crashed
  /\ accepted' = accepted \union {l}
  /\ Insert(Acceptor[l], <<"tcp", l>>)
  /\ UNCHANGED <<known, owner, chan, connected, greeted, broken, client, purge,
                 crashed, told, lost, budgets>>

-----------------------------------------------------------------------------
(* A node handles the next frame of a link.                                *)

Reads(n, l) == /\ n \in Ends(l) \ crashed
               /\ Registered(n, <<"tcp", l>>)
               /\ n = Opener[l] => l \in greeted
               /\ chan[n][l] # <<>>

Consume(n, l) == chan' = [chan EXCEPT ![n][l] = Tail(@)]

\* identify handler, request: learn the peer, answer with one's own id.
receive_identify(n, l) ==
  /\ Reads(n, l) /\ Head(chan[n][l])[1] = "identify"
  /\ known' = [known EXCEPT ![n][l] = Head(chan[n][l])[2]]
  /\ chan' = [Sent(n, {l}, <<"identified", n>>) EXCEPT ![n][l] = Tail(@)]
  /\ UNCHANGED <<reg, owner, links, broken, client, purge, crashed, told, lost,
                 budgets>>

\* identify handler, response.
receive_identified(n, l) ==
  /\ Reads(n, l) /\ Head(chan[n][l])[1] = "identified"
  /\ known' = [known EXCEPT ![n][l] = Head(chan[n][l])[2]]
  /\ Consume(n, l)
  /\ UNCHANGED <<reg, owner, links, broken, client, purge, crashed, told, lost,
                 budgets>>

\* Faulty variants: a join registers a proxy each time it comes; it is dropped
\* when the link's peer is not identified yet.
Joins_Again(n, l, w) == TRUE
Joins_Identified(n, l, w) == ~Registered(n, <<"ws", w>>) /\ known[n][l] # Nil

\* join handler: no session with that id is registered.
Joins(n, l, w) == ~Registered(n, <<"ws", w>>)

\* The proxy is owned by whoever the link is known to lead to.
receive_join(n, l) ==
  /\ Reads(n, l) /\ Head(chan[n][l])[1] = "join"
  /\ LET w == Head(chan[n][l])[2]
     IN  IF Joins(n, l, w)
           THEN /\ Insert(n, <<"ws", w>>)
                /\ owner' = [owner EXCEPT ![n][w] = known[n][l]]
           ELSE UNCHANGED <<reg, owner>>
  /\ Consume(n, l)
  /\ UNCHANGED <<known, links, broken, client, purge, crashed, told, lost, budgets>>

\* Faulty variant: the answer is sent and the proxy kept.
Erased_Not(n, w) == reg[n]

\* leave handler: erase whatever has the id, the node's own session included.
Erased(n, w) == Without(reg[n], <<"ws", w>>)

receive_leave(n, l) ==
  /\ Reads(n, l) /\ Head(chan[n][l])[1] = "leave"
  /\ reg' = [reg EXCEPT ![n] = Erased(n, Head(chan[n][l])[2])]
  /\ Consume(n, l)
  /\ UNCHANGED <<known, owner, links, broken, client, purge, crashed, told, lost,
                 budgets>>

-----------------------------------------------------------------------------
(* Websocket clients.                                                      *)

\* websocket_listener::do_accept registers the session, then accepts it.
accept_client(w) ==
  /\ client[w] = "new" /\ Home[w] \notin crashed
  /\ client' = [client EXCEPT ![w] = "handshake"]
  /\ Insert(Home[w], <<"ws", w>>)
  /\ UNCHANGED <<known, owner, chan, links, broken, purge, crashed, told, lost,
                 budgets>>

\* websocket_session::on_accept without error: broadcast the join.
on_accept(w) ==
  LET h == Home[w]
      T == Targets(h, reg[h])
  IN  /\ client[w] = "handshake" /\ h \notin crashed
      /\ client' = [client EXCEPT ![w] = "open"]
      /\ chan' = Sent(h, T, <<"join", w>>)
      /\ told' = told \union {<<w, l, known[h][l]>> : l \in T \ broken}
      /\ UNCHANGED <<reg, known, owner, links, broken, purge, crashed, lost, budgets>>

\* The handshake or the stream fails, or the client leaves: remove_session, and
\* if the session was still registered, websocket_session::disconnect.
close_client(w) ==
  LET h == Home[w]
      r == Without(reg[h], <<"ws", w>>)
  IN  /\ client[w] \in {"handshake", "open"} /\ h \notin crashed
      /\ client' = [client EXCEPT ![w] = "closed"]
      /\ reg' = [reg EXCEPT ![h] = r]
      /\ chan' = IF Registered(h, <<"ws", w>>)
                   THEN Sent(h, Targets(h, r), <<"leave", w>>) ELSE chan
      /\ UNCHANGED <<known, owner, links, broken, purge, crashed, told, lost, budgets>>

-----------------------------------------------------------------------------
(* node::disconnect and node::disconnect_all.                              *)

Call(n) == /\ n \in Callers \ crashed
           /\ purge[n] = {}
           /\ calls < MaxCalls
           /\ calls' = calls + 1

disconnect_all(n) ==
  /\ Call(n)
  /\ purge' = [purge EXCEPT ![n] = ToSet(reg[n])]
  /\ UNCHANGED <<reg, known, owner, chan, links, broken, client, crashed, told,
                 lost, failures>>

\* The node_id_ of n's session for an entry.
NodeId(n, e) == IF e[1] = "tcp" THEN known[n][e[2]]
                ELSE IF Home[e[2]] = n THEN n ELSE owner[n][e[2]]

\* Faulty variant: ids are collected as if they were sessions.
Found_Ids(n, k) == {{e[2] : e \in ToSet(reg[n])}}

\* What equal_range(k) finds in by_node_id: nothing, or a group of sessions of
\* which the one in front has the id k now; the others, and whether the group is
\* found, depend on what the ids were (SessionRegistry!ByNodeId has it exactly).
Found(n, k) ==
  {S \in SUBSET ToSet(reg[n]) : S # {} => \E e \in S : NodeId(n, e) = k}

disconnect(n, k) ==
  /\ Call(n)
  /\ \E S \in Found(n, k) : purge' = [purge EXCEPT ![n] = S]
  /\ UNCHANGED <<reg, known, owner, chan, links, broken, client, crashed, told,
                 lost, failures>>

\* remove_session for one of the entries, in any order (that of an index).  A TCP
\* session closes its socket; a websocket session, proxy or not, broadcasts a
\* leave.
purge_next(n, e) ==
  LET r == Without(reg[n], e)
  IN  /\ n \notin crashed
      /\ e \in purge[n]
      /\ purge' = [purge EXCEPT ![n] = @ \ {e}]
      /\ reg' = [reg EXCEPT ![n] = r]
      /\ \/ /\ ~Registered(n, e)
            /\ UNCHANGED <<chan, broken, client, lost>>
         \/ /\ Registered(n, e) /\ e[1] = "tcp"
            /\ broken' = broken \union {e[2]}
            /\ chan' = [chan EXCEPT ![n][e[2]] = <<>>]
            /\ lost' = lost \union {<<n, Peer(n, e[2])>>}
            /\ UNCHANGED client
         \/ /\ Registered(n, e) /\ e[1] = "ws"
            /\ chan' = Sent(n, Targets(n, r), <<"leave", e[2]>>)
            /\ client' = IF Home[e[2]] = n /\ client[e[2]] = "open"
                           THEN [client EXCEPT ![e[2]] = "closed"] ELSE client
            /\ UNCHANGED <<broken, lost>>
      /\ UNCHANGED <<known, owner, links, crashed, told, budgets>>

-----------------------------------------------------------------------------
(* Failures.                                                               *)

Fail == failures < MaxFailures /\ failures' = failures + 1

\* A connection breaks; its ends learn of it one by one.
break(l) ==
  /\ l \in connected \ broken
  /\ Fail
  /\ broken' = broken \union {l}
  /\ UNCHANGED <<reg, known, owner, chan, links, client, purge, crashed, told,
                 lost, calls>>

\* tcp_session: the read or the write fails, remove_session; frames that had
\* not been read by then are lost.
on_error(n, l) ==
  /\ n \in Ends(l) \ crashed
  /\ l \in broken
  /\ Registered(n, <<"tcp", l>>)
  /\ reg' = [reg EXCEPT ![n] = Without(@, <<"tcp", l>>)]
  /\ chan' = [chan EXCEPT ![n][l] = <<>>]
  /\ lost' = lost \union {<<n, Peer(n, l)>>}
  /\ UNCHANGED <<known, owner, links, broken, client, purge, crashed, told, budgets>>

\* A process dies: its links break, its clients are gone, nobody says leave.
crash(n) ==
  /\ n \notin crashed
  /\ Fail
  /\ crashed' = crashed \union {n}
  /\ broken' = broken \union {l \in connected : n \in Ends(l)}
  /\ client' = [w \in Ws |-> IF Home[w] = n THEN "closed" ELSE client[w]]
  /\ UNCHANGED <<reg, known, owner, chan, links, purge, told, lost, calls>>

receive(n, l) == \/ receive_identify(n, l)
                 \/ receive_identified(n, l)
                 \/ receive_join(n, l)
                 \/ receive_leave(n, l)

Next ==
  \/ \E l \in Link : connect(l) \/ greet(l) \/ accept(l) \/ break(l)
  \/ \E n \in Node, l \in Link : receive(n, l) \/ on_error(n, l)
  \/ \E w \in Ws : accept_client(w) \/ on_accept(w) \/ close_client(w)
  \/ \E n \in Node : \/ disconnect_all(n)
                     \/ \E k \in Node : disconnect(n, k)
                     \/ \E e \in purge[n] : purge_next(n, e)
                     \/ crash(n)

Spec == Init /\ [][Next]_vars

(***************************************************************************)
(* Fairness: every node goes on handling frames and noticing broken links, *)
(* and threads inside connect, the accept loop and disconnect(_all) go on. *)
(***************************************************************************)
Fairness ==
  /\ \A l \in Link : WF_vars(greet(l)) /\ WF_vars(accept(l))
  /\ \A n \in Node : WF_vars(\E e \in purge[n] : purge_next(n, e))
  /\ \A n \in Node, l \in Link : WF_vars(receive(n, l)) /\ WF_vars(on_error(n, l))

FairSpec == Spec /\ Fairness

-----------------------------------------------------------------------------
(* Properties.                                                             *)

TypeOK ==
  /\ reg \in [Node -> Seq(Entry)]
  /\ purge \in [Node -> SUBSET Entry]
  /\ chan \in [Node -> [Link -> Seq(Frame)]]
  /\ known \in [Node -> [Link -> Node \union {Nil}]]
  /\ owner \in [Node -> [Ws -> Node \union {Nil}]]
  /\ connected \subseteq Link /\ greeted \subseteq connected
  /\ accepted \subseteq connected /\ broken \subseteq connected
  /\ client \in [Ws -> {"new", "handshake", "open", "closed"}]
  /\ crashed \subseteq Node
  /\ told \subseteq Ws \X Link \X (Node \union {Nil})
  /\ lost \subseteq Node \X Node
  /\ calls \in 0..MaxCalls /\ failures \in 0..MaxFailures

\* n cannot tell any more what the node m does: a link between them is gone.
Severed(n, m) == \/ <<n, m>> \in lost
                 \/ \E l \in broken : Ends(l) = {n, m}

OnItsWay(n, f) == \E l \in Link : f \in ToSet(chan[n][l])

\* The join of w was sent over l,
ToldOver(w, l) == \E k \in Node \union {Nil} : <<w, l, k>> \in told

\* ... and to n over a link that was known to lead there.
ToldAs(n, w) == \E l \in Link : <<w, l, n>> \in told

\* A node that was sent a session's join over an identified link, and holds the
\* proxy when the session is closed, has the leave coming, unless a link to the
\* session's node has failed: the leave's broadcast finds that link again, in
\* whatever order it iterates (broadcast_to_nodes, the leave handler).
NoNamedGhosts ==
  \A n \in Node \ crashed, w \in Ws :
    ToldAs(n, w) /\ Registered(n, <<"ws", w>>) /\ client[w] = "closed" =>
      OnItsWay(n, <<"leave", w>>) \/ Severed(n, Home[w])

\* A node that was sent the join of a session that is still open holds a proxy
\* for it, or is about to, unless the link has failed meanwhile.
JoinTakesEffect ==
  \A w \in Ws, l \in Link :
    ToldOver(w, l) /\ client[w] = "open" =>
    LET n == Peer(Home[w], l)
    IN  \/ Registered(n, <<"ws", w>>)
        \/ OnItsWay(n, <<"join", w>>)
        \/ Severed(n, Home[w]) \/ n \in crashed

\* No node's registry holds a session twice, or a session of its own as proxy:
\* an id is registered at most once, however many links its join came over.
NoDuplicates == \A n \in Node : IsInjective(reg[n])

\* state.hpp:79, sessions_ holds "all currently active network sessions".
LocalSessionRegistered ==
  \A w \in Ws : client[w] = "open" => Registered(Home[w], <<"ws", w>>)

\* The end of a session reaches every node that was sent its join over an
\* identified link, and stays so, unless the node is cut off from its home.
ClosedSessionsGo ==
  \A n \in Node, w \in Ws :
    (client[w] = "closed" /\ ToldAs(n, w))
      ~> [](n \in crashed \/ Severed(n, Home[w]) \/ ~Registered(n, <<"ws", w>>))

=============================================================================
