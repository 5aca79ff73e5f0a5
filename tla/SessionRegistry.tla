--------------------------- MODULE SessionRegistry ---------------------------
(***************************************************************************)
(* One node's session registry: aurum::state::sessions_, the shared mutex  *)
(* that guards it, and every thread that reads or changes it.              *)
(*                                                                         *)
(* An actor is a strand (one per TCP or websocket session; Asio runs the   *)
(* handlers of one strand one after the other, and different strands in    *)
(* parallel) or a thread of the application that calls node::disconnect    *)
(* or node::disconnect_all.  An action is one critical section of          *)
(* sessions_mutex_, or one effect outside of it: remove_session erases     *)
(* under the lock and calls disconnect() after it; broadcast_to_nodes      *)
(* collects its targets under the lock and posts to each one after it.     *)
(* Every other actor may run between two such steps.                       *)
(***************************************************************************)
EXTENDS Naturals, FiniteSets, SequencesExt

CONSTANTS
  Tcp,        \* tcp_session objects, accepted or opened by connect
  Ws,         \* websocket_session objects accepted from local clients
  Proxy,      \* websocket_session objects the join handler can build
  Api,        \* application threads that call node::disconnect(_all)
  RemoteId,   \* ids of websocket sessions that live on other nodes
  ProxyId,    \* the id each Proxy object is built with
  Node,       \* ids of the other nodes
  PeerOf,     \* the node at the other end of each TCP session
  Self,       \* state::get_node_id()
  Nil,        \* nil_uuid(), the node_id_ of a session nobody has identified
  Torn,       \* a node_id_ of which only one half has been written
  None,       \* "no object", "no frame"
  LeaveId,    \* the ids that leave requests from the peers may name
  MaxCalls    \* BOUND: calls each application thread makes

Strand == Tcp \union Ws
Actor  == Strand \union Api
Object == Strand \union Proxy

ASSUME ConstantsAssumption ==
  /\ Tcp \intersect Ws = {}
  /\ Tcp \intersect Proxy = {}
  /\ Ws \intersect Proxy = {}
  /\ Api \intersect Strand = {}
  /\ RemoteId \intersect Strand = {}
  /\ ProxyId \in [Proxy -> RemoteId]
  /\ PeerOf \in [Tcp -> Node]
  /\ Self \notin Node
  /\ {Nil, Torn} \intersect (Node \union {Self}) = {}
  /\ Nil # Torn
  /\ None \notin Object /\ None \notin {"join", "leave"} \X (Strand \union RemoteId)
  /\ LeaveId \subseteq Strand \union RemoteId
  /\ MaxCalls \in Nat

Id     == Strand \union RemoteId
Key    == Node \union {Self, Nil, Torn}
Frame  == [op : {"join", "leave"}, id : Id, key : Key]
Stage  == {"unused", "handshake", "open", "failed", "closed"}
Chain  == {"start", "accept", "read", "write"}

VARIABLES
  sessions,    \* state::sessions_ : the registered objects
  born,        \* the objects constructed so far
  node_id,     \* session::node_id_ of each object
  by_node_id,  \* the groups of the index by_node_id
  stream,      \* the socket or websocket stream under each strand's session
  chains,      \* its asynchronous operations still to complete
  late,        \* TCP sessions closed with a frame's completion already queued
  doomed,      \* per actor: the ids it still passes to remove_session
  closing,     \* per actor: the object it erased and must disconnect
  announcing,  \* per actor: the <<op, id>> it is about to broadcast
  posting,     \* per actor: the <<session, frame>> pairs it still sends
  outbox,      \* per TCP session: the join and leave frames sent, in order
  disconnects, \* per object: how often disconnect() has run
  calls        \* per application thread: calls made

vars == <<sessions, born, node_id, by_node_id, stream, chains, late, doomed,
          closing, announcing, posting, outbox, disconnects, calls>>

work     == <<doomed, closing, announcing, posting>>
sockets  == <<stream, chains, late>>
registry == <<sessions, born, node_id, by_node_id>>
history  == <<outbox, disconnects, calls>>

-----------------------------------------------------------------------------
(* What the registry's own operations compute.                             *)

\* session::get_id
SessionId(s) == IF s \in Proxy THEN ProxyId[s] ELSE s

\* The unique index by_id: the registered objects whose id is i.
ById(i) == {s \in sessions : SessionId(s) = i}

(***************************************************************************)
(* The index by_node_id, a Boost hashed_non_unique index.  Objects inserted *)
(* with equal keys form a group, which stays together in the bucket of the *)
(* key it was opened with.  set_node_id changes node_id_ in place and not  *)
(* through modify(), so the index never learns of it.  A lookup looks      *)
(* through the bucket of k, compares k with the node_id_ that the front of *)
(* each group has now, and takes the whole of the first group that fits.   *)
(* Two keys may share a bucket, and an insertion may rehash: each group    *)
(* moves to the bucket of the node_id_ that its last object has now.       *)
(***************************************************************************)
Group == [key : Key, members : Seq(Object) \ {<<>>}]

\* The groups of G a lookup of k may take, if they are in the bucket of k.
Fits(G, k) == {g \in G : node_id[Head(g.members)] = k}

\* One of them is in the bucket of k for certain.
Surely(G, k) == \E g \in Fits(G, k) : g.key = k

\* equal_range(k): each set of objects it may return.
ByNodeId(k) ==
  {ToSet(g.members) : g \in Fits(by_node_id, k)}
    \union {S \in {{}} : ~Surely(by_node_id, k)}

\* The insertion of s under k: it goes to the front of a group that fits, or
\* it opens a group of its own.
Filings(G, s, k) ==
  {(G \ {g}) \union {[g EXCEPT !.members = <<s>> \o @]} : g \in Fits(G, k)}
    \union {H \in {G \union {[key |-> k, members |-> <<s>>]}} : ~Surely(G, k)}

Rehashed == {[g EXCEPT !.key = node_id[Last(g.members)]] : g \in by_node_id}

\* What by_node_id may be after sessions_.insert; when by_id refuses the object,
\* no other index is touched.
Filed(s, k) ==
  IF ById(SessionId(s)) = {}
    THEN Filings(by_node_id, s, k) \union Filings(Rehashed, s, k)
    ELSE {by_node_id}

\* by_node_id after the erase of s.
Unfiled(s) ==
  LET in == {g \in by_node_id : s \in ToSet(g.members)}
  IN  (by_node_id \ in) \union
      {[g EXCEPT !.members = RemoveAt(@, CHOOSE i \in DOMAIN @ : @[i] = s)] :
         g \in {h \in in : h.members # <<s>>}}

\* sessions_.insert: hashed_unique by_id refuses an id it already holds.
Insert(s) == IF ById(SessionId(s)) = {} THEN sessions \union {s} ELSE sessions

\* Faulty variant: remove_session finds the session and forgets to erase it.
Erase_Nothing(s) == sessions

\* The erase in remove_session.
Erase(s) == sessions \ {s}

\* broadcast_to_nodes: the sessions it looks at.
Reachable == Tcp \intersect sessions

\* broadcast_to_nodes keeps the first session it meets of every distinct
\* node_id_ value; the order of the iteration is the container's.
TargetSets ==
  {T \in SUBSET Reachable :
     /\ \A t \in Reachable : \E u \in T : node_id[u] = node_id[t]
     /\ \A u, v \in T : node_id[u] = node_id[v] => u = v}

\* An actor with nothing left to do in the handler or call it is in.
Idle(a) == /\ doomed[a] = {}
           /\ closing[a] = None
           /\ announcing[a] = None
           /\ posting[a] = {}

\* A strand takes its next completion only when its handler has returned;
\* the identify handler has not while node_id_ is half written.
Ready(s) == Idle(s) /\ node_id[s] # Torn

Init ==
  /\ sessions = {}
  /\ born = {}
  /\ node_id = [s \in Object |-> Nil]
  /\ by_node_id = {}
  /\ stream = [s \in Strand |-> "unused"]
  /\ chains = [s \in Strand |-> {}]
  /\ late = {}
  /\ doomed = [a \in Actor |-> {}]
  /\ closing = [a \in Actor |-> None]
  /\ announcing = [a \in Actor |-> None]
  /\ posting = [a \in Actor |-> {}]
  /\ outbox = [t \in Tcp |-> <<>>]
  /\ disconnects = [s \in Object |-> 0]
  /\ calls = [a \in Api |-> 0]

-----------------------------------------------------------------------------
(* Sessions come up.                                                       *)

\* tcp_listener::do_accept and state::connect: a connected socket becomes a
\* tcp_session, which is registered before it starts to read.
add_tcp_session(t) ==
  /\ t \notin born
  /\ born' = born \union {t}
  /\ sessions' = Insert(t)
  /\ by_node_id' \in Filed(t, Nil)
  /\ stream' = [stream EXCEPT ![t] = "open"]
  /\ chains' = [chains EXCEPT ![t] = {"start"}]
  /\ UNCHANGED <<node_id, late, work, history>>

\* tcp_session::start: the read chain begins; writes may begin from now on.
start(t) ==
  /\ "start" \in chains[t]
  /\ chains' = [chains EXCEPT ![t] = {"read", "write"}]
  /\ UNCHANGED <<registry, stream, late, work, history>>

\* Faulty variant: reading does not wait for the handshake and on_accept.
add_websocket_session_ReadsAtOnce(w) ==
  /\ w \notin born
  /\ born' = born \union {w}
  /\ node_id' = [node_id EXCEPT ![w] = Self]
  /\ sessions' = Insert(w)
  /\ by_node_id' \in Filed(w, Self)
  /\ stream' = [stream EXCEPT ![w] = "handshake"]
  /\ chains' = [chains EXCEPT ![w] = {"accept", "read"}]
  /\ UNCHANGED <<late, work, history>>

\* websocket_listener::do_accept, with the async_accept that start posts.
add_websocket_session(w) ==
  /\ w \notin born
  /\ born' = born \union {w}
  /\ node_id' = [node_id EXCEPT ![w] = Self]
  /\ sessions' = Insert(w)
  /\ by_node_id' \in Filed(w, Self)
  /\ stream' = [stream EXCEPT ![w] = "handshake"]
  /\ chains' = [chains EXCEPT ![w] = {"accept"}]
  /\ UNCHANGED <<late, work, history>>

\* The websocket handshake ends inside the library, before on_accept runs.
handshake(w) ==
  /\ stream[w] = "handshake"
  /\ \E result \in {"open", "failed"} :
       stream' = [stream EXCEPT ![w] = result]
  /\ UNCHANGED <<registry, chains, late, work, history>>

\* on_accept: success broadcasts the join, then starts reading; failure
\* removes the session.  An accept that succeeded reports success even if
\* the stream has been closed by another thread meanwhile.
on_accept(w) ==
  /\ Ready(w)
  /\ "accept" \in chains[w]
  /\ stream[w] # "handshake"
  /\ IF stream[w] = "failed"
       THEN /\ doomed' = [doomed EXCEPT ![w] = {w}]
            /\ chains' = [chains EXCEPT ![w] = {}]
            /\ UNCHANGED announcing
       ELSE /\ announcing' = [announcing EXCEPT ![w] = <<"join", w>>]
            /\ chains' = [chains EXCEPT ![w] = {"read", "write"}]
            /\ UNCHANGED doomed
  /\ UNCHANGED <<registry, stream, late, closing, posting, history>>

-----------------------------------------------------------------------------
(* Completions of a session's strand.                                      *)

\* A frame is delivered while the socket is open, or when its completion was
\* already queued at the moment another thread closed the socket.
Delivers(t) == /\ Ready(t)
               /\ "read" \in chains[t]
               /\ stream[t] = "open" \/ t \in late

\* identify handler: set_node_id copies 16 bytes, two words, without any
\* lock.  (A repeated identify writes the same bytes again.)
identify_begin(t) ==
  /\ Delivers(t)
  /\ node_id[t] = Nil
  /\ node_id' = [node_id EXCEPT ![t] = Torn]
  /\ late' = late \ {t}
  /\ UNCHANGED <<sessions, born, by_node_id, stream, chains, work, history>>

identify_end(t) ==
  /\ node_id[t] = Torn
  /\ node_id' = [node_id EXCEPT ![t] = PeerOf[t]]
  /\ UNCHANGED <<sessions, born, by_node_id, sockets, work, history>>

\* join handler: a proxy is built with the id in the payload and the node_id_
\* of the link it came on, and registered unless that id is taken already.
join(t, x) ==
  /\ Delivers(t)
  /\ x \notin born
  /\ born' = born \union {x}
  /\ node_id' = [node_id EXCEPT ![x] = node_id[t]]
  /\ sessions' = Insert(x)
  /\ by_node_id' \in Filed(x, node_id[t])
  /\ late' = late \ {t}
  /\ UNCHANGED <<stream, chains, work, history>>

\* leave handler: whatever object has the id is erased, and not disconnected,
\* be it a proxy, a local websocket session or a TCP session.
leave(t, i) ==
  /\ Delivers(t)
  /\ \/ /\ ById(i) = {}
        /\ UNCHANGED <<sessions, by_node_id>>
     \/ \E s \in ById(i) :
          /\ sessions' = sessions \ {s}
          /\ by_node_id' = Unfiled(s)
  /\ late' = late \ {t}
  /\ UNCHANGED <<born, node_id, stream, chains, work, history>>

\* Any other frame: ping, discovery, whoami, responses.
other_frame(t) ==
  /\ Delivers(t)
  /\ late' = late \ {t}
  /\ UNCHANGED <<registry, stream, chains, work, history>>

\* A read or a write of session s completes with an error: the chain ends and
\* its handler calls remove_session with the session's own id.
io_error(s, c) ==
  /\ Ready(s)
  /\ c \in chains[s] \intersect {"read", "write"}
  /\ c = "read" => s \notin late
  /\ chains' = [chains EXCEPT ![s] = @ \ {c}]
  /\ doomed' = [doomed EXCEPT ![s] = {SessionId(s)}]
  /\ stream' = IF s \in Ws THEN [stream EXCEPT ![s] = "closed"] ELSE stream
  /\ UNCHANGED <<registry, late, closing, announcing, posting, history>>

-----------------------------------------------------------------------------
(* The calls of the application.                                           *)

\* Faulty variant: objects are collected, not ids.
Ids_Objects(S) == S

\* Only the ids of the objects that were found leave the lock.
Ids(S) == {SessionId(s) : s \in S}

\* state::disconnect, its first critical section: collect the matching ids.
disconnect(a, k) ==
  /\ Idle(a)
  /\ calls[a] < MaxCalls
  /\ calls' = [calls EXCEPT ![a] = @ + 1]
  /\ \E S \in ByNodeId(k) : doomed' = [doomed EXCEPT ![a] = Ids(S)]
  /\ UNCHANGED <<registry, sockets, closing, announcing, posting, outbox,
                 disconnects>>

\* state::disconnect_all, its first critical section.
disconnect_all(a) ==
  /\ Idle(a)
  /\ calls[a] < MaxCalls
  /\ calls' = [calls EXCEPT ![a] = @ + 1]
  /\ doomed' = [doomed EXCEPT ![a] = Ids(sessions)]
  /\ UNCHANGED <<registry, sockets, closing, announcing, posting, outbox,
                 disconnects>>

-----------------------------------------------------------------------------
(* What both the strands and the application threads execute.              *)

\* Faulty variant: what was collected is disconnected, found or not.
remove_session_Unchecked(a) ==
  /\ closing[a] = None /\ announcing[a] = None /\ posting[a] = {}
  /\ \E s \in born :
       /\ SessionId(s) \in doomed[a]
       /\ doomed' = [doomed EXCEPT ![a] = @ \ {SessionId(s)}]
       /\ sessions' = Erase(s)
       /\ by_node_id' = Unfiled(s)
       /\ closing' = [closing EXCEPT ![a] = s]
  /\ UNCHANGED <<born, node_id, sockets, announcing, posting, history>>

\* remove_session, under the lock: find the id, erase the object.
remove_session(a) ==
  /\ closing[a] = None /\ announcing[a] = None /\ posting[a] = {}
  /\ \E i \in doomed[a] :
       /\ doomed' = [doomed EXCEPT ![a] = @ \ {i}]
       /\ \/ /\ ById(i) = {}
             /\ UNCHANGED <<sessions, by_node_id, closing>>
          \/ \E s \in ById(i) :
               /\ sessions' = Erase(s)
               /\ by_node_id' = Unfiled(s)
               /\ closing' = [closing EXCEPT ![a] = s]
  /\ UNCHANGED <<born, node_id, sockets, announcing, posting, history>>

\* Faulty variant: disconnect() does not close.
Closed_Never(s) == stream[s]

\* An open stream is closed; one in its handshake is not open yet.
Closed(s) == IF stream[s] = "open" THEN "closed" ELSE stream[s]

\* tcp_session::disconnect, after the lock.  The completion of one read may
\* have been queued on the strand already: then it still succeeds.
disconnect_tcp(a) ==
  \E t \in Tcp :
    /\ closing[a] = t
    /\ closing' = [closing EXCEPT ![a] = None]
    /\ stream' = [stream EXCEPT ![t] = Closed(t)]
    /\ late' \in {late, IF "read" \in chains[t] THEN late \union {t} ELSE late}
    /\ disconnects' = [disconnects EXCEPT ![t] = @ + 1]
    /\ UNCHANGED <<registry, chains, doomed, announcing, posting, outbox, calls>>

\* Faulty variant: no leave when the stream is closed already.
LeaveOf_IfOpen(s) ==
  IF s \in Ws /\ stream[s] # "open" THEN None ELSE <<"leave", SessionId(s)>>

\* The frame websocket_session::disconnect broadcasts.
LeaveOf(s) == <<"leave", SessionId(s)>>

\* websocket_session::disconnect, after the lock: it broadcasts a leave in any
\* case, for a proxy (whose stream was never open) as for a local session.
disconnect_websocket(a) ==
  \E s \in Ws \union Proxy :
    /\ closing[a] = s
    /\ closing' = [closing EXCEPT ![a] = None]
    /\ stream' = IF s \in Ws THEN [stream EXCEPT ![s] = Closed(s)] ELSE stream
    /\ disconnects' = [disconnects EXCEPT ![s] = @ + 1]
    /\ announcing' = [announcing EXCEPT ![a] = LeaveOf(s)]
    /\ UNCHANGED <<registry, chains, late, doomed, posting, outbox, calls>>

\* broadcast_to_nodes, under the shared lock: collect the targets.  The key
\* a target was collected under is recorded with the frame, for properties.
broadcast_to_nodes(a) ==
  /\ announcing[a] # None
  /\ announcing' = [announcing EXCEPT ![a] = None]
  /\ \E T \in TargetSets :
       posting' = [posting EXCEPT ![a] =
         {<<t, [op |-> announcing[a][1], id |-> announcing[a][2],
                key |-> node_id[t]]>> : t \in T}]
  /\ UNCHANGED <<registry, sockets, doomed, closing, history>>

\* broadcast_to_nodes, after the lock: send posts the message on the strand of
\* each target in turn.
send(a) ==
  /\ \E p \in posting[a] :
       /\ posting' = [posting EXCEPT ![a] = @ \ {p}]
       /\ outbox' = [outbox EXCEPT ![p[1]] = Append(@, p[2])]
  /\ UNCHANGED <<registry, sockets, doomed, closing, announcing, disconnects,
                 calls>>

Step(a) == \/ remove_session(a)
           \/ disconnect_tcp(a)
           \/ disconnect_websocket(a)
           \/ broadcast_to_nodes(a)
           \/ send(a)

Next ==
  \/ \E t \in Tcp : \/ add_tcp_session(t)
                    \/ start(t)
                    \/ identify_begin(t)
                    \/ identify_end(t)
                    \/ other_frame(t)
                    \/ \E x \in Proxy : join(t, x)
                    \/ \E i \in LeaveId : leave(t, i)
  \/ \E w \in Ws : \/ add_websocket_session(w)
                   \/ handshake(w)
                   \/ on_accept(w)
  \/ \E s \in Strand, c \in {"read", "write"} : io_error(s, c)
  \/ \E a \in Api : \/ disconnect_all(a)
                    \/ \E k \in Node \union {Self} : disconnect(a, k)
  \/ \E a \in Actor : Step(a)

(***************************************************************************)
(* Fairness.  The io_context runs what is ready: a handler or call under   *)
(* way goes on, start's post runs, a completed accept reaches on_accept, a *)
(* half-done copy is finished, and the operations pending on a closed      *)
(* stream complete.  Nothing is assumed of the peers and clients.  So a    *)
(* call of disconnect() on an open websocket need never return: ws_.close  *)
(* waits for the client's closing frame, without a timeout.                *)
(***************************************************************************)
InClose(a) == \E w \in Ws : closing[a] = w /\ stream[w] = "open"

Fairness ==
  /\ \A a \in Actor : WF_vars(~InClose(a) /\ Step(a))
  /\ \A t \in Tcp : /\ WF_vars(start(t))
                    /\ WF_vars(identify_end(t))
                    /\ WF_vars(t \in late /\ other_frame(t))
  /\ \A w \in Ws : WF_vars(on_accept(w))
  /\ \A s \in Strand, c \in {"read", "write"} :
       WF_vars(stream[s] = "closed" /\ io_error(s, c))

Spec == Init /\ [][Next]_vars
FairSpec == Spec /\ Fairness

-----------------------------------------------------------------------------
(* Types and safety.                                                       *)

\* Every variable stays within its type.
TypeOK ==
  /\ sessions \subseteq born
  /\ born \subseteq Object
  /\ node_id \in [Object -> Key]
  /\ by_node_id \subseteq Group
  /\ stream \in [Strand -> Stage]
  /\ chains \in [Strand -> SUBSET Chain]
  /\ late \subseteq Tcp
  /\ doomed \in [Actor -> SUBSET Id]
  /\ closing \in [Actor -> Object \union {None}]
  /\ announcing \in [Actor -> ({"join", "leave"} \X Id) \union {None}]
  /\ posting \in [Actor -> SUBSET (Tcp \X Frame)]
  /\ outbox \in [Tcp -> Seq(Frame)]
  /\ disconnects \in [Object -> Nat]
  /\ calls \in [Api -> Nat]

\* The read chain, the write chain, application threads and the leave handler
\* all remove sessions; still disconnect() never runs on a session that is
\* registered, and never twice on one session (remove_session).
DisconnectedOnce ==
  \A s \in Object : /\ disconnects[s] <= 1
                    /\ s \in sessions => disconnects[s] = 0

Carries(t, op, i) == \E n \in DOMAIN outbox[t] :
                       outbox[t][n].op = op /\ outbox[t][n].id = i

\* No link carries the leave of a local websocket session that is still
\* registered: the erase comes before the broadcast (remove_session).
LeaveMeansGone ==
  \A w \in Ws, t \in Tcp : Carries(t, "leave", w) => w \notin sessions

\* Without a concurrent node::disconnect, no link carries the leave of a local
\* session ahead of its join: both broadcasts run on the session's own strand.
JoinBeforeLeave ==
  \A w \in Ws, t \in Tcp : \A m, n \in DOMAIN outbox[t] :
    /\ outbox[t][m].id = w /\ outbox[t][m].op = "leave"
    /\ outbox[t][n].id = w /\ outbox[t][n].op = "join"
    => n < m

\* Without a concurrent node::disconnect: once the strand of a disconnected
\* local session is done, every peer that was sent its join over a link that
\* is still registered, and was identified when the join was broadcast, has
\* been sent its leave over one of its links.
JoinedPeersHearLeave ==
  \A w \in Ws : disconnects[w] > 0 /\ Idle(w) =>
    \A t \in Tcp \intersect sessions :
      (\E n \in DOMAIN outbox[t] :
         outbox[t][n] = [op |-> "join", id |-> w, key |-> PeerOf[t]])
      => \E u \in Tcp : PeerOf[u] = PeerOf[t] /\ Carries(u, "leave", w)

-----------------------------------------------------------------------------
(* The abstract life of a session object (SessionLifecycle).               *)

life == [s \in Object |-> IF s \in sessions THEN "registered"
                          ELSE IF s \in born THEN "detached" ELSE "new"]

Lifecycle == INSTANCE SessionLifecycle
               WITH IdOf <- [s \in Object |-> SessionId(s)]

\* Whatever the threads do, each session object is registered at most once,
\* under an id of its own, and disconnected at most once, after its erase
\* (add_session, remove_session, the join and leave handlers).
LifecycleSpec == Lifecycle!Spec

-----------------------------------------------------------------------------
(* Liveness.                                                               *)

\* A session some thread has set out to remove does leave the registry, also
\* when another thread removes it first, unless that thread hangs in ws_.close
\* for good, on another session (remove_session, websocket_session::disconnect).
DoomedSessionsGo ==
  \A s \in Object, a \in Actor :
    (s \in sessions /\ SessionId(s) \in doomed[a])
      ~> (s \notin sessions \/ []InClose(a))

\* A TCP session that remove_session has taken closes its socket and ends both
\* its chains, which releases the object (tcp_session::disconnect, on_write).
RemovedSessionsEnd ==
  \A t \in Tcp, a \in Actor :
    (closing[a] = t) ~> (stream[t] = "closed" /\ chains[t] = {})

-----------------------------------------------------------------------------
(* What comments in the code say and the code does not do.                 *)

\* state.hpp:165, state::disconnect "terminates an active network connection
\* linked against a specific remote node identifier".
DisconnectReachesPeer ==
  [][\A a \in Api, k \in Node :
       disconnect(a, k) =>
         \A t \in Tcp \intersect sessions : node_id[t] = k => t \in doomed'[a]]_vars

=============================================================================
