---------------------------- MODULE PeerDiscovery ----------------------------
(***************************************************************************)
(* How nodes come to be linked: node::run and stop, node::connect, the     *)
(* identify handler, which opens further links back to a node that asked   *)
(* for several, and the discovery handler, which lists a node's peers to   *)
(* one that asks and has the latter connect to those it does not know.     *)
(*                                                                         *)
(* A link is one TCP connection; its "out" session is the object of the    *)
(* node that opened it, its "in" session that of the node that accepted it.*)
(* One frame goes each way: the identify request, with a discovery request *)
(* behind it when the link asks for one, and the answers to both.          *)
(***************************************************************************)
EXTENDS Naturals, FiniteSets, SequencesExt

CONSTANTS
  Node,     \* nodes, all on one host; a node stands for its id and its port
  Call,     \* calls of node::connect, each made at most once
  From, To, \* who makes each of them, and to whom
  Count,    \* connections_per_node_ at that moment
  Fixed,    \* nodes whose port is configured and not chosen by run()
  Early,    \* nodes that run from the beginning
  Multi,    \* nodes with threads_ > 1, whose strands run in parallel
  Mortal,   \* BOUND: nodes that may stop
  Nil       \* nil_uuid()

\* Hosts: "" is what a session has before identify, "local" the "127.0.0.1" that
\* state::connect announces; "nul" and "junk" are what a list may be misread as.
NoPort  == "0"
Host    == {"", "local", "nul", "junk"}
Address == Host \X (Node \union {NoPort})
Blank   == <<"", NoPort>>

ASSUME ConstantsAssumption ==
  /\ From \in [Call -> Node] /\ To \in [Call -> Node]
  /\ \A c \in Call : From[c] # To[c]
  /\ Count \in [Call -> Nat]
  /\ Fixed \subseteq Node /\ Early \subseteq Node
  /\ Multi \subseteq Node /\ Mortal \subseteq Node
  /\ Nil \notin Node /\ NoPort \notin Node

Side  == {"out", "in"}
Cause == {"call", "back", "found"}
Stage == {"queued", "sent", "named", "asked", "addressed", "reading", "answered",
          "dialling", "connecting", "done"}

VARIABLES
  status,    \* per node: "made", "running", "stopped" (by stop), "exited"
  called,    \* calls made
  link,      \* the links opened, in that order, with the state of their exchange
  sessions   \* per node: state::sessions_, in insertion order

vars == <<status, called, link, sessions>>

\* A link: who opened it to whom, why (back and found: for which earlier link),
\* what its request says; how far the exchange is, whether the "in" session
\* exists, how many connections back are posted, the list the discovery handler
\* has written (then: what the one that asked has left to dial) and its position.
Link == [from : Node, to : Node, cause : Cause, parent : Nat, asks : BOOLEAN,
         count : Nat, named : BOOLEAN,
         stage : Stage, accepted : BOOLEAN, owed : Nat, list : Seq(Address),
         cursor : Nat]

Links == DOMAIN link

Init ==
  /\ status = [n \in Node |-> IF n \in Early THEN "running" ELSE "made"]
  /\ called = {}
  /\ link = <<>>
  /\ sessions = [n \in Node |-> <<>>]

-----------------------------------------------------------------------------
(* What a session object holds.                                            *)

\* session::get_node_id: the "in" session learns it from the request, the "out"
\* session from the answer.
NodeId(s) ==
  LET l == link[s[1]]
  IN  IF s[2] = "in"
        THEN IF l.stage \in {"queued", "sent"} THEN Nil ELSE l.from
        ELSE IF l.stage \in {"dialling", "connecting", "done"} THEN l.to ELSE Nil

\* get_host and get_port: only an identify request carries them, so an "out"
\* session never has any.
PortOf(l) == IF link[l].named THEN link[l].from ELSE NoPort

AddressOf(s) ==
  IF s[2] = "out" \/ link[s[1]].stage \in {"queued", "sent", "named"}
    THEN Blank ELSE <<"local", PortOf(s[1])>>

\* What another thread may read: set_port comes before set_host.
Readings(s) ==
  {AddressOf(s)} \union
    IF s[2] = "in" /\ link[s[1]].stage = "named" THEN {<<"", PortOf(s[1])>>} ELSE {}

\* What the reader of a list makes of it (MCPeerDiscovery, CodecAgrees): the
\* hosts stand behind all ports and sizes, so the first entry with a host is
\* read right only at the end of the list.  Otherwise its host is taken from
\* what comes next, and the rest does not fit any more.
Heard(addresses) ==
  LET hosted == {i \in DOMAIN addresses : addresses[i][1] # ""}
      first  == CHOOSE i \in hosted : \A j \in hosted : i <= j
      wrong  == IF addresses[first + 1][2] = NoPort THEN "nul" ELSE "junk"
  IN  IF hosted = {} \/ first = Len(addresses) THEN addresses
      ELSE Append(SubSeq(addresses, 1, first - 1), <<wrong, addresses[first][2]>>)

-----------------------------------------------------------------------------
(* Threads and locks.                                                      *)

\* A handler of n is under way that is divided into steps here.
Busy(n) == \E l \in Links :
  \/ link[l].to = n /\ link[l].stage \in {"named", "asked", "addressed", "reading"}
  \/ link[l].from = n /\ link[l].stage \in {"dialling", "connecting"}

\* A thread of n may take up another handler.
Free(n) == status[n] = "running" /\ (n \in Multi \/ ~Busy(n))

\* The discovery handler holds sessions_mutex_, shared, until its list is complete.
Locked(n) == \E l \in Links :
  link[l].to = n /\ link[l].asks /\ link[l].stage \in {"addressed", "reading"}

Registered(n, s) == s \in ToSet(sessions[n])

\* A registry after the erase of a session that it holds.
Without(r, s) == RemoveAt(r, CHOOSE i \in DOMAIN r : r[i] = s)

\* A frame that was sent before its sender ended is still read; then the read
\* fails.
Broken(l) == "exited" \in {status[link[l].from], status[link[l].to]}

-----------------------------------------------------------------------------
(* Nodes.                                                                  *)

\* node::run opens the listeners, which sets tcp_port_, and starts the threads.
run(n) ==
  /\ status[n] = "made"
  /\ status' = [status EXCEPT ![n] = "running"]
  /\ UNCHANGED <<called, link, sessions>>

\* node::stop or a signal: no further handler runs.  The acceptor stays open, so
\* that other nodes still connect to this one.
stop(n) ==
  /\ n \in Mortal
  /\ status[n] = "running"
  /\ status' = [status EXCEPT ![n] = "stopped"]
  /\ UNCHANGED <<called, link, sessions>>

\* run has joined its threads and returned, and the process ends.
exit(n) ==
  /\ status[n] = "stopped"
  /\ ~Busy(n)
  /\ status' = [status EXCEPT ![n] = "exited"]
  /\ UNCHANGED <<called, link, sessions>>

-----------------------------------------------------------------------------
(* state::connect.                                                         *)

\* The host resolves and somebody listens on the port: an empty host, or one that
\* starts with a NUL byte, resolves to the loopback interface.
Reaches(address) ==
  /\ address[1] # "junk"
  /\ address[2] \in Node
  /\ status[address[2]] \in {"running", "stopped"}

\* tcp_port_: configured, or that of the listener, which run() constructs.
HasPort(n) == n \in Fixed \/ status[n] # "made"

\* n connects to an address, unless it is not reached: the session is registered
\* and the frame with its requests is posted, the identify request announcing
\* tcp_port_.  ls is the links after the other effects of the step.
connect(n, address, cause, parent, asks, count, ls) ==
  IF Reaches(address)
    THEN /\ ~Locked(n)
         /\ link' = Append(ls,
              [from |-> n, to |-> address[2], cause |-> cause, parent |-> parent,
               asks |-> asks, count |-> count,
               named |-> HasPort(n),
               stage |-> "queued", accepted |-> FALSE, owed |-> 0,
               list |-> <<>>, cursor |-> 1])
         /\ sessions' = [sessions EXCEPT ![n] = Append(@, <<Len(ls) + 1, "out">>)]
    ELSE link' = ls /\ UNCHANGED sessions

\* node::connect asks for discovery and for connections_per_node_ connections.
node_connect(c) ==
  /\ c \notin called
  /\ status[From[c]] # "exited"
  /\ called' = called \union {c}
  /\ connect(From[c], <<"local", To[c]>>, "call", 0, TRUE, Count[c], link)
  /\ UNCHANGED status

\* on_send and the write, on a thread of the node's io_context.
write(l) ==
  /\ link[l].stage = "queued"
  /\ Free(link[l].from)
  /\ link' = [link EXCEPT ![l].stage = "sent"]
  /\ UNCHANGED <<status, called, sessions>>

\* tcp_listener::do_accept.
do_accept(l) ==
  LET n == link[l].to
  IN  /\ ~link[l].accepted
      /\ Free(n) /\ ~Locked(n)
      /\ link' = [link EXCEPT ![l].accepted = TRUE]
      /\ sessions' = [sessions EXCEPT ![n] = Append(@, <<l, "in">>)]
      /\ UNCHANGED <<status, called>>

-----------------------------------------------------------------------------
(* The identify handler, for a request.                                    *)

set_node_id(l) ==
  /\ link[l].stage = "sent"
  /\ Free(link[l].to) /\ Registered(link[l].to, <<l, "in">>)
  /\ link' = [link EXCEPT ![l].stage = "named"]
  /\ UNCHANGED <<status, called, sessions>>

\* Connections the handler posts: one less than asked for, if it has a port.
Wanted(l) == IF link[l].named /\ link[l].count > 1 THEN link[l].count - 1 ELSE 0

\* set_port and set_host, the answer, and the connections back; the frame's
\* discovery request is handled next, if there is one.
set_address(l) ==
  /\ link[l].stage = "named"
  /\ link' = [link EXCEPT ![l].stage = IF link[l].asks THEN "asked" ELSE "answered",
                          ![l].owed = Wanted(l)]
  /\ UNCHANGED <<status, called, sessions>>

\* Faulty variant: each of the posted functions posts the next.
connect_back_Reposted(l) ==
  LET n == link[l].to
  IN  /\ link[l].stage \in {"asked", "addressed", "reading", "answered", "done"}
      /\ Free(n)
      /\ connect(n, <<"local", link[l].from>>, "back", l, FALSE, 0,
                 [link EXCEPT ![l].owed = @ - 1])
      /\ UNCHANGED <<status, called>>

\* Faulty variant: the connections back ask for as many in turn.
connect_back_Asking(l) ==
  LET n == link[l].to
  IN  /\ link[l].owed > 0
      /\ Free(n)
      /\ connect(n, <<"local", link[l].from>>, "back", l, FALSE, link[l].count,
                 [link EXCEPT ![l].owed = @ - 1])
      /\ UNCHANGED <<status, called>>

\* One of the posted functions: a single connection, without discovery.
connect_back(l) ==
  LET n == link[l].to
  IN  /\ link[l].owed > 0
      /\ Free(n)
      /\ connect(n, <<"local", link[l].from>>, "back", l, FALSE, 0,
                 [link EXCEPT ![l].owed = @ - 1])
      /\ UNCHANGED <<status, called>>

-----------------------------------------------------------------------------
(* The discovery handler, for a request.                                   *)

\* Faulty variant: only this node is left out.
Listed_Requester(l, s) == NodeId(s) # link[l].to

\* The filter: not the node that asks, not this node.
Listed(l, s) == NodeId(s) \notin {link[l].from, link[l].to}

\* The handler takes sessions_mutex_.  What was posted at the end of the identify
\* handler may have registered sessions before that.
lock(l) ==
  /\ link[l].stage = "asked"
  /\ link' = [link EXCEPT ![l].stage = "addressed"]
  /\ UNCHANGED <<status, called, sessions>>

\* The next session is looked at: its node_id_ ...
filter(l) ==
  LET n == link[l].to
  IN  /\ link[l].asks /\ link[l].stage = "addressed"
      /\ link[l].cursor <= Len(sessions[n])
      /\ link' = IF Listed(l, sessions[n][link[l].cursor])
                    THEN [link EXCEPT ![l].stage = "reading"]
                    ELSE [link EXCEPT ![l].cursor = @ + 1]
      /\ UNCHANGED <<status, called, sessions>>

\* ... then its host and port.
emplace(l) ==
  /\ link[l].stage = "reading"
  /\ \E address \in Readings(sessions[link[l].to][link[l].cursor]) :
       link' = [link EXCEPT ![l].stage = "addressed", ![l].cursor = @ + 1,
                            ![l].list = Append(@, address)]
  /\ UNCHANGED <<status, called, sessions>>

\* The list is complete and the answers are sent.
respond(l) ==
  /\ link[l].asks /\ link[l].stage = "addressed"
  /\ link[l].cursor > Len(sessions[link[l].to])
  /\ link' = [link EXCEPT ![l].stage = "answered"]
  /\ UNCHANGED <<status, called, sessions>>

-----------------------------------------------------------------------------
(* The handlers for the answers.                                           *)

\* What is left to dial decides whether the handler goes on.
Dialling(rest) == IF rest = <<>> THEN "done" ELSE "dialling"

\* identify, response; then discovery, response.
receive(l) ==
  /\ link[l].stage = "answered"
  /\ Free(link[l].from) /\ Registered(link[l].from, <<l, "out">>)
  /\ link' = [link EXCEPT ![l].stage = Dialling(Heard(link[l].list)),
                          ![l].list = Heard(@)]
  /\ UNCHANGED <<status, called, sessions>>

\* Faulty variant: the host alone is compared.
Known_Host(n, address) == \E s \in ToSet(sessions[n]) : AddressOf(s)[1] = address[1]

\* A registered session has this host and port.
Known(n, address) == \E s \in ToSet(sessions[n]) : AddressOf(s) = address

\* Faulty variant: nobody looks.
check_Never(l) ==
  /\ link[l].stage = "dialling"
  /\ link' = [link EXCEPT ![l].stage = "connecting"]
  /\ UNCHANGED <<status, called, sessions>>

\* Faulty variant: the position in the list is not advanced past a known peer.
check_Stuck(l) ==
  /\ link[l].stage = "dialling"
  /\ link' = IF Known(link[l].from, Head(link[l].list))
                THEN link
                ELSE [link EXCEPT ![l].stage = "connecting"]
  /\ UNCHANGED <<status, called, sessions>>

\* Look for the next address among the sessions, under the shared lock ...
check(l) ==
  /\ link[l].stage = "dialling"
  /\ link' = IF Known(link[l].from, Head(link[l].list))
                THEN [link EXCEPT ![l].stage = Dialling(Tail(link[l].list)),
                                  ![l].list = Tail(@)]
                ELSE [link EXCEPT ![l].stage = "connecting"]
  /\ UNCHANGED <<status, called, sessions>>

\* ... and connect to it when it is unknown, without asking for discovery.
dial(l) ==
  /\ link[l].stage = "connecting"
  /\ connect(link[l].from, Head(link[l].list), "found", l, FALSE, 0,
             [link EXCEPT ![l].stage = Dialling(Tail(link[l].list)),
                          ![l].list = Tail(@)])
  /\ UNCHANGED <<status, called>>

-----------------------------------------------------------------------------

\* Stages in which one side's strand is within its handler.
Handling == [in |-> {"named", "asked", "addressed", "reading"},
             out |-> {"dialling", "connecting"}]

\* tcp_session: the read fails once the other end is gone and what it had sent is
\* read; remove_session.
on_error(n, l, side) ==
  /\ n = IF side = "in" THEN link[l].to ELSE link[l].from
  /\ Broken(l)
  /\ Registered(n, <<l, side>>)
  /\ link[l].stage \notin Handling[side]
  /\ Free(n) /\ ~Locked(n)
  /\ sessions' = [sessions EXCEPT ![n] = Without(@, <<l, side>>)]
  /\ UNCHANGED <<status, called, link>>

handle(l) == \/ write(l) \/ do_accept(l)
             \/ set_node_id(l) \/ set_address(l) \/ connect_back(l)
             \/ lock(l) \/ filter(l) \/ emplace(l) \/ respond(l)
             \/ receive(l) \/ check(l) \/ dial(l)

Next ==
  \/ \E n \in Node : run(n) \/ stop(n) \/ exit(n)
  \/ \E c \in Call : node_connect(c)
  \/ \E l \in Links : handle(l) \/ \E n \in Node, side \in Side : on_error(n, l, side)

Spec == Init /\ [][Next]_vars

\* Some thread goes on with some handler as long as there is one to go on with.
FairSpec == Spec /\ WF_vars(\E l \in Links : handle(l))

-----------------------------------------------------------------------------
(* Properties.                                                             *)

TypeOK ==
  /\ status \in [Node -> {"made", "running", "stopped", "exited"}]
  /\ called \subseteq Call
  /\ link \in Seq(Link)
  /\ sessions \in [Node -> Seq(Links \X Side)]

Opened(l, cause) == {k \in Links : link[k].parent = l /\ link[k].cause = cause}

\* A connection that a handler opens leads to no further ones, and a request for
\* k connections to k of them: connect(..., false, 0) in the identify handler,
\* "avoiding chained discovery loops" in the discovery handler.
NoCascade ==
  \A l \in Links :
    /\ link[l].cause # "call" =>
         link[l].parent \in Links /\ link[link[l].parent].cause = "call"
    /\ Cardinality(Opened(l, "back")) + link[l].owed <=
         IF link[l].count = 0 THEN 0 ELSE link[l].count - 1

\* Two nodes are linked, whichever opened the link.
Linked(m, n) == \E l \in Links : {link[l].from, link[l].to} = {m, n}

\* Two nodes that have connected to one node, have announced a port and have
\* handled its answers are linked: whichever identified itself last was told of
\* the other, or told the other (discovery handlers, state::connect).
Mesh ==
  \A k, l \in Links :
    LET m == link[k].from
        n == link[l].from
    IN  /\ m # n
        /\ link[k].to = link[l].to /\ link[k].asks /\ link[l].asks
        /\ link[k].named /\ link[l].named
        /\ link[k].stage = "done" /\ link[l].stage = "done"
        /\ status[m] = "running" /\ status[n] = "running"
        => Linked(m, n)

\* discovery.hpp, "filter out the node originating the request": a node connects
\* to itself only when it has opened two links to a node with several threads,
\* whose discovery handler sees no node id yet on the one that does not ask, and
\* its address a moment later.
NoSelfLink ==
  \A l \in Links : link[l].from = link[l].to =>
    /\ link[l].cause = "found"
    /\ LET asked == link[link[l].parent].to
       IN  /\ asked \in Multi
           /\ \E j, k \in Links : j # k /\ {link[j].from, link[k].from} = {link[l].from}
                                        /\ {link[j].to, link[k].to} = {asked}

\* A node with one thread does not connect to a peer that has linked to it and
\* said its address, although the check and the connection are two steps.
KnownNotDialled ==
  [][\A l \in Links :
       dial(l) /\ Reaches(Head(link[l].list)) /\ link[l].from \notin Multi =>
         ~Known(link[l].from, Head(link[l].list))]_vars

Settled(l) == \/ link[l].stage = "done" /\ link[l].owed = 0
              \/ {status[link[l].from], status[link[l].to]} # {"running"}

\* Every exchange ends: requests are answered and answers worked off, whoever
\* stops meanwhile; the handlers do not keep each other busy, nor wait for each
\* other's threads and lock.
Settles == []<>(\A l \in Links : Settled(l))

=============================================================================
