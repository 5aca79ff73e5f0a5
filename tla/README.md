# Aurum in TLA+

Aurum is a C++ server: every process is a *node* that accepts TCP connections
from other nodes (and from TCP clients) and websocket connections from clients,
and keeps the nodes of a cluster aware of each other and of each other's
websocket sessions. This directory holds TLA+ models of it, their TLC
configurations and machine-checked theorems about them. Line numbers refer to
`src/src/aurum/` (implementation) and `src/include/aurum/` (headers).

## The system

| part | source | state | operations |
|---|---|---|---|
| session registry (`state`) | `state.cpp`, `session_container.hpp` | `sessions_`, a multi-index set under the shared mutex `sessions_mutex_`; round-robin counters | `add_session`, `remove_session`, `connect`, `disconnect`, `disconnect_all`, `broadcast_to_nodes`, `send_to_node` |
| TCP session | `tcp_session.cpp` | socket, strand, write queue, the peer's node id, host and port | `start`, read chain, `send`, write chain, `disconnect` |
| websocket session | `websocket_session.cpp` | stream, strand, write queue | `start`, `on_accept`, read chain, `send`, write chain, `disconnect` |
| handlers | `handlers/*.hpp` | none of their own | identify, discovery, join, leave, ping, whoami, non_implemented |
| session kernel | `session_kernel.cpp` | none | takes a frame apart, calls the handlers, builds the answer |
| frame builder | `protocol/frame_builder.cpp` | queued payloads | `add_*`, `get_data`, `flush` |
| listeners | `tcp_listener.cpp`, `websocket_listener.cpp` | acceptor | accept loop |
| node | `node.cpp`, `main.cpp` | io_context, threads, state | `run`, `stop`, `connect`, `disconnect`, `disconnect_all` |
| test clients, benchmarks | `tcp_client.cpp`, `websocket_client.cpp`, `benchmark/` | a blocking socket | connect, send, read |

How the parts interact. A listener or `state::connect` makes a session and
registers it; the session's read chain hands each frame to the kernel, the
kernel calls one handler per payload, and handlers read and change the registry
and add answers, which go back over the session. A websocket session that
completes its handshake broadcasts a *join* over the node's TCP links; a node
that receives it registers a *proxy*, a websocket session object without a
connection, under the same id. `websocket_session::disconnect`, which runs when a
session has been removed from the registry, broadcasts the *leave*.

What is hard about it:

* **Threads.** Handlers of one session run on its strand, one after the other;
  different sessions, and application threads in `node::disconnect(_all)`, run at
  the same time. Every operation on the registry is several critical sections
  with effects between and after them (`state.cpp:129-149`, `:222-265`, `:271-300`).
* **Keys that change in place.** `tcp_session::set_node_id` (`tcp_session.cpp:173`)
  changes what the indexes `by_node_id` and `by_node_and_type` were built from.
* **Several removers.** Read chain, write chain, leave handler and application
  threads all remove a session; `disconnect()` must happen once, after the erase.
* **Ordering between nodes.** Joins and leaves go over whichever link the
  broadcast picks; links come up, are identified and fail meanwhile.
* **Failure.** A broken link or a crashed node sends no leave; a stopped node still
  accepts connections and answers none.
* **Check and act.** Discovery looks a peer up under the lock and connects after it;
  it reads a session's id, host and port one by one while its strand sets them.
* **Handlers that block.** `state::connect` resolves and connects on the handler's
  thread, and discovery holds `sessions_mutex_` for the length of a list.
* **Bytes.** Lengths are 16 bits wide, frames come from outside, and both ends of
  a link handle each other's answers.

What makes each part correct: what leaves the registry is disconnected at most once,
and never while it can be found; a session writes one message at a time, in
order, and nothing after a failure; a cluster has no ghosts (proxies of sessions
that are gone) where its links are identified, and a join takes effect; the kernel stays within the frame and
hands on what the builder wrote; nodes that connect to one node become linked to
each other, with no connection to themselves, none to a peer they know, and no
cascade of connections.

## Modules

| module | models | correspondence |
|---|---|---|
| `SessionRegistry` | registry, listeners, handlers and sessions of one node | one action per critical section of `sessions_mutex_` or effect after it; per actor, `doomed`, `closing`, `announcing`, `posting` are the locals of `disconnect`, `remove_session` and `broadcast_to_nodes` |
| `SessionLifecycle` | what the registry promises a session object | new, registered, detached; and how often disconnected, which is a variable of both modules |
| `TcpSession` | one session: queue, strand, chains, socket | one action per handler (a strand's handlers do not overlap), plus completions in the library |
| `OrderedPipe` | what sending promises | accepted messages leave in order, whole, until one is cut |
| `ClusterPresence` | all nodes, links, frames, failures | one action per handler; a registry is a sequence in the order of iteration |
| `PeerDiscovery` | how nodes come to be linked: `run`, `stop`, `connect`, the identify handler's connections back, the discovery handlers | one action per step between which another thread can run: `set_address` ends the identify handler, `lock` takes the mutex for the list, `filter` reads a session's id, `emplace` its address, `check` looks for a known peer, `dial` connects; a link's record carries its exchange, the list and the position in it, which are the handlers' locals |
| `FrameCodec` | `get_data` and the kernel's reads | operators on byte sequences |
| `RequestBuilder` | the payloads of requests, and what the identify handler reads of its own | one operator per `add_*`; `MCPeerDiscovery` checks `read_identify` against `add_identify` (`IdentifyAgrees`) |
| `SessionKernel` | `session_kernel::handle` | one action per turn of its loop |
| `Conversation` | two kernels that handle each other's answers | adds `reply` |
| `DiscoveryCodec` | `add_discovery` and the loop that reads it, byte by byte | operators; `MCPeerDiscovery` checks `PeerDiscovery!Heard` against them for every list of up to three entries (`CodecAgrees`) |
| `SequenceLemmas` | lemmas about `Append`, `Tail`, `RemoveAt` and `FlattenSeq`, and induction | |
| `SessionRegistryProofs`, `TcpSessionProofs`, `SessionKernelProofs`, `PeerDiscoveryProofs` | theorems about the module they are named after; the third also about `Conversation` | |
| `ClusterPresenceProofs`, `ClusterDeliveryProofs`, `ClusterGhostProofs` | theorems about `ClusterPresence`: types and ids; joins; leaves | |
| `MC*` | constants for TLC | |

`ClusterPresence` takes up where `SessionRegistry` stops: what is interleaved
inside one node there is one step here, and what is a history of sent frames
there (`outbox`) is a channel here. `PeerDiscovery` has the same registries, and in
them TCP sessions only: it leaves presence out and takes in hosts, ports and who
dials whom, which `ClusterPresence` replaces by links that come up at any time.

### What is abstracted

* *`by_node_id`.* A Boost hashed index knows nothing of a key that changes in place.
  `SessionRegistry` has its groups: objects inserted with equal keys stay together, in
  the bucket their group was opened in, and a lookup compares the present key of the
  one in front and takes the whole group. Which keys share a bucket depends on a hash,
  so every choice is open: a group whose front fits may be found or not, unless it
  is in the key's own bucket; and any insertion may rehash, which moves a group to the
  bucket of its last object's present key (`Fits`, `Filings`, `Rehashed`). Of the
  groups that fit, a lookup takes any one. `ClusterPresence!Found` is coarser: any set
  of sessions of which one has the id, or none.
* *Iteration order.* `broadcast_to_nodes` iterates the index `by_id`, whose order is that
  of buckets and changes when it is rehashed. `ClusterPresence` lets every insertion
  arrange the registry anew in any order, `SessionRegistry` takes any first session
  of each node id. `PeerDiscovery` lists a registry in the order of insertion: the
  order of a list decides which addresses are misread, and no property counts on it
  (`MeshOfTwo` is about lists with one address).
* *Torn ids.* Sixteen bytes are two stores; between them a reader sees `Torn`.
* *Writing errors.* In `SessionRegistry` an operation of an open session may fail at
  any time, also when no write is pending; `TcpSession` is exact about it.
* *`late`.* A read that has completed before another thread closes the socket is
  handled after it.
* *Closing.* `socket_.close()` on another thread than the socket's handlers
  (`tcp_session.cpp:221`) is formally a race on the socket object; it is modelled
  as closing at one moment. `ws_.close` takes effect in the step in which it
  returns, and need never return (`InClose`).
* *No answers.* A frame that gets none is answered with a vector of no bytes
  (`session_kernel.cpp:170-173`), which the session sends: nothing reaches the other
  end, and `reply` leaves it out.
* *Checksum.* One bit: a frame too short to have one counts as having a bad one.
  No claim is made about what CRC-16 detects. *Ids* in frames are one value that
  stands for its bytes.
* Answers to identify, join and leave carry nothing the receiver keeps except the
  node id (`identified`); the other answers are left out of `ClusterPresence`.
* A second link to a node, asked for by `connections_per_node`, is a link like any
  other in `ClusterPresence`. A node that drops several sessions (`purge`) does so in
  any order.
* *One host.* In `PeerDiscovery` all nodes run on one host, and a port stands for its
  node; `Heard` says what a list is misread as, up to what its properties tell
  apart. It takes the low byte of a port not to be zero.
* *What is listed.* Websocket sessions and proxies have blank addresses, which are
  dialled to no effect; `PeerDiscovery` leaves them out. An answer is read by the
  strand of the session that asked, so that one link has one exchange.
* A `std::string` host that is read while its session's strand sets it is read as
  the old or the new value.

## What TLC checks

| run | instance | result |
|---|---|---|
| `Registry_threads` | 1 TCP link, 1 websocket session, 2 proxies of one remote id (interchangeable: symmetry), leaves that name this id or the link's own, 1 application thread with one call; 1.8 million states | types, `disconnect()` at most once and after the erase, no leave before its erase, and the whole implements `SessionLifecycle` |
| `Registry_presence` | 2 links to one peer (interchangeable: symmetry), 1 websocket session, 1 proxy, leaves for both ids, no application thread; 2.2 million states | each link carries the join before the leave; a peer identified when it was sent the join is sent the leave |
| `Registry_liveness` | 1 link, 1 websocket session, 1 thread; 31 thousand states | doomed sessions go, unless their thread hangs in `ws_.close` on another one; removed TCP sessions end |
| `Session_queue` | 2 senders with 2 messages each, 1 received frame with an answer | one write at a time, nothing after an error, `OrderedPipe`, no lost wake-up, removed sessions end |
| `Cluster_presence` | 3 nodes, two linked to the third, 1 client, 1 failure, registries in any order; 47 thousand states | no proxy of a closed session without its leave, where the join's link was identified (`NoNamedGhosts`); joins take effect; closed sessions go |
| `Cluster_calls` | 2 nodes, a link from each side, 1 client, 1 call at either; 302 thousand states | types, no id registered twice |
| `Discovery_cluster` | 3 nodes, of which two call `connect` to the third, one of them before or after it runs and for two connections; the third has several threads and may stop and end at any moment; 808 thousand states | types, connections made by handlers lead to no others (`NoCascade`), the two get linked (`Mesh`), nobody to itself (`NoSelfLink`), no known peer is dialled by a node with one thread (`KnownNotDialled`), every exchange between running nodes ends (`Settles`) |
| `Kernel_frames` | every batch of one or two of the requests nodes and clients build, answers, and payloads of other sizes; one of the greatest length; every truncation and byte change of a sample frame; a bad checksum | no read beyond the frame, frames arrive as built, answers are not answered, exchanges end |

Four more runs end in the counterexamples of "Where the code and its description
differ".

Why these bounds suffice: the hazards of the registry need two actors for one
object and a third that broadcasts; two proxies are what it takes for two joins of
one id to meet; one call collects any number of ids. The symmetries are sound: the
two proxies have one id and the two links one peer, nothing else names them, and the
runs that use them check no liveness. The hazards of a queue are
at its change from empty to one and from one to two messages, with a sender at
each moment of a completion. Presence is a matter between a node and one link of
its peer; the third node makes a broadcast have two targets, and one failure
cuts off any of them. Discovery needs two nodes that ask and one that is asked;
its several threads and the second connection make the lists it writes overlap
with the sessions they name. A third that asks makes lists of two entries, which
are misread (`Discovery_lost`). Two payloads are needed for one to be refused after the
other was handled. `Base = 8` and `IdSize = 1` make 64 the limit that is 65536 in
the code; op codes still fit a byte.

`CHECK_DEADLOCK FALSE` stands in all of them because these systems may stop: all
sessions are closed, all nodes linked, or the calls, messages and failures of the
bounds used up.

The faulty variants next to some definitions (`Erase_Nothing`, `Joins_Identified`,
...) are plausible mistakes at that place. No specification uses them; put in
place of the definition they follow, each makes TLC report the property it is
about, which shows that the property is able to fail.

### Fairness

The io_context runs every handler that is ready, a thread inside a call goes on,
and operations pending on a closed socket complete: weak fairness of these actions
(`SessionRegistry!Fairness`, `TcpSession!Handlers`, `ClusterPresence!Fairness`). In
`PeerDiscovery` it is one weak fairness, of there being any step of a handler at all:
`Settles` follows from the handlers coming to an end, not from an order in which
threads are served. No fairness is assumed of clients, of links coming up, of
frames being sent or of failures; nor of `ws_.close` (`websocket_session.cpp:153`), which
waits on the calling thread for the client's closing frame, without a timeout: an
actor inside it (`InClose`) may stay there for ever, and `DoomedSessionsGo` says what is
left standing then. One assumption goes beyond the scheduler and is named where it
stands: `TcpSession!Transfer`, a write on an open connection completes, as it does while
the peer keeps reading.

## Where the code and its description differ

Each has a run in which TLC finds the behaviour.

* `Registry_disconnect_misses_peer`: `state::disconnect(node)` does not find the TCP
  session of that node, which stays in the group and the bucket of the nil id it was
  inserted with (`state.cpp:232`), against `state.hpp:165`.
* `Cluster_peer_erases_local`: a node whose application calls `disconnect_all` drops its
  proxy of another node's session and sends a leave for it (`websocket_session.cpp:156`),
  and that node erases its own open session (`leave.hpp:52`), against `state.hpp:79`. The
  session then runs on unregistered.
* `Cluster_two_links_ghost`: with two links opened to one node, a broadcast counts a
  link that is not identified yet as a node of its own (`state.cpp:289`); a join is
  sent over both, the leave, once both are identified, over one, and the node may handle
  join, leave, join. It then holds the proxy of a session that is gone.
* `Discovery_lost`: `add_discovery` writes the hosts after all ports and sizes, and
  the handler reads them interleaved (`frame_builder.cpp:541`, `discovery.hpp:98`); a
  list in which a node with a host stands before another is read wrongly. Of three nodes that
  connect to one, the third is never linked to the others. `tests/connections_per_node_test.cc`
  counts on it: with the list read right its third node would have more sessions.

Not findings, but limits the properties state or leave out:

* Links that are not identified count as one node, whoever is at their ends: of two such
  nodes one is told a join, whichever the index has first, and the leave may go to the
  other when the index is rearranged in between. `NoNamedGhosts` therefore speaks of joins
  that were sent over identified links; over the others a ghost may stay, even with
  one link per node.
* Since a lookup in `by_node_id` takes a whole group, `disconnect(k)` may take sessions
  along that have another id by now, when the one in front of their group has `k` and the
  buckets are such that it is found (`ByNodeId`).
* A leave that names the id of a TCP session erases it from the registry and closes
  nothing (`leave.hpp:52`): the link goes on and is told nothing any more.
* A broadcast collects its targets under the lock and sends after it. When the only
  link chosen for a node is removed and closed in between, the node misses the frame;
  `JoinedPeersHearLeave` says that the leave was sent, not that it arrives.
* While `ws_.close` waits for a silent client, the thread that called `disconnect_all` removes
  nothing else.

* A lost link or crash leaves proxies behind for ever (`Severed`). A link that comes up
  after a join is told nothing of the sessions that exist already.
* A payload of 2^16 bytes or more is sent with its length cut (`Fits`). What the first
  payloads of a refused frame did stays done.
* `disconnect_all` during a websocket handshake finds the stream not open, unregisters
  the session and closes nothing (`websocket_session.cpp:151`); the handshake then
  completes, the join follows the leave, and the session runs on unregistered. This
  is why `JoinBeforeLeave` and `JoinedPeersHearLeave` are stated without application
  threads.
* A session that a node opened never learns its peer's host and port, as only the
  identify request carries them. A later discovery thus dials the same peer again:
  `KnownNotDialled` speaks of peers that have said their address.
* A node with two links to a node with several threads may be listed to itself, over
  the link that is not identified yet, and then connects to itself (the exception in
  `NoSelfLink`).
* `connect` before `run` announces port 0; such a node is found by nobody (`Mesh` asks
  for `named`).
* A misread host that begins with a zero byte (`"nul"`) is resolved like an empty one,
  to the loopback interface, and its port is right; the check for known peers compares
  the hosts, does not find it, and the peer is dialled whether it is known or not.

## What is proved

For all values of the constants, with the assumptions named in the modules
(`ConstantsAssumption`: the kinds of objects are disjoint, ids and node ids
distinct, bounds natural numbers; `CodecAssumption`; `KernelAssumption`;
`ConversationAssumption`: what is built into a frame are payloads, fewer than 2^16, as
`get_data` throws for more).

* **`SessionRegistryProofs`**: `TypeCorrect`, `DisconnectedOnceHolds`, `LeaveMeansGoneHolds`,
  `ImplementsLifecycle`. All hold whatever a lookup in `by_node_id` finds. `DisconnectedOnce` is not inductive: a
  thread that has erased a session has not disconnected it yet. `Ownership` says who
  still has the right to: a session in some `closing` is out of the registry, in one
  `closing` only and not disconnected. `LeaveMeansGone` needs the trail of a leave from
  `closing` through `announcing` and `posting` to `outbox` (`LeaveTrail`), and that a
  session once out of the registry does not come back (`born`).
* **`TcpSessionProofs`**: `TypeCorrect`, `OneWriteAtATimeHolds`, `NoWriteAfterErrorHolds`,
  `ImplementsPipe`. `Discipline` relates the writes in progress to the queue: at most one,
  that of the front, and once the connection is cut either its failure is pending or
  none is in progress while the queue stays non-empty, so that no later write starts.
  `Order` says that what was sent is what was written, queued and posted, in that
  order, so that the message a write delivers is the next the pipe owes.
* **`SessionKernelProofs`**: `TypeCorrect`, `InBoundsHolds`, for arbitrary frames; the
  strengthening is `Cursor`: while payloads are handled, the offset is within the
  frame, which makes the unsigned subtraction of each check a natural number.
  For frames that `get_data` builds, and the answers they set off: `RoundTripHolds`,
  `NoAnswerToAnswerHolds`, `InBoundsOfAnswers`. `Layout` says where each payload stands
  in the frame, and `Laid` that `get_data` writes it so, with the number of payloads and
  their lengths before it (`Flattened`, about `FlattenSeq`, and `Halves`, about 16-bit
  numbers). `Reads` then takes the kernel through the frame: what it has handled are
  the first payloads of the batch, and its offset is where the next one starts.
  `Replies` adds that answers have the type of a response, which no handler answers,
  and are no more than the requests, so that they are again a batch that can be built.
* Also in `SessionRegistryProofs`, for `Api = {}`: `JoinBeforeLeaveHolds` and
  `JoinedPeersHearLeaveHolds`. Without application threads every strand removes,
  disconnects and announces its own session only, one thing at a time
  (`OwnBusiness`); a session is silent until its handshake is over, and while its join
  is under way it has neither been disconnected nor said its leave (`Phases`). The
  leave reaches whom the join reached because a link that was identified stays so
  (`Addressed`), and the leave's broadcast then takes that link or one with the same
  id (`Farewell`).
* **`ClusterPresenceProofs`**: `TypeCorrect`, `NoDuplicatesHolds`, with calls of
  `disconnect` too. `Membership` adds that a registry holds no link before it
  came up at that node, and that there is neither a proxy nor a join of a client that
  is still to come.
* **`ClusterDeliveryProofs`**: `JoinTakesEffectHolds`: `Spec => [](calls = 0 =>
  JoinTakesEffect)`. `Told` says where joins and leaves can come from: frames about a
  client are its own node's, over links it was told of, and nobody holds a proxy of a
  client that never joined. The condition is needed: `Cluster_peer_erases_local`
  shows what a call does.
* **`ClusterGhostProofs`**: `NoNamedGhostsHolds`, for `OneLink`, at most one link between
  two nodes, and again `calls = 0`. A link is known by its peer's id or none (`Named`),
  and one that had the peer's when a join was sent over it keeps it (`ToldNames`). With
  one link it is then the only one with that id, so that the leave's broadcast takes
  it whatever the order of iteration (`LeaveFollowsJoin`). No leave overtakes its join
  (`JoinFirst`), and a client that is closed is, for each node told of it over such a
  link, a leave on its way or over (`Over`). The condition `OneLink` is needed:
  `Cluster_two_links_ghost`.
* **`PeerDiscoveryProofs`**: `TypeCorrect`, `NoCascadeHolds`, `KnownNotDialledHolds`, for any
  nodes, calls and lists. Types need `Exchanges`: the position in a registry stays
  within it because no session is erased while the list is made under the lock.
  `Callers` and `Debts` say that only a call's request asks for anything, and that what a
  link owes and what was opened for it stay within what was asked. That the address
  stays unknown between check and connection (`Unseen`) rests on `OneHandler` and
  `Owners`: with one thread, the handler that would set an address waits for the one
  that dials.
* Also in `PeerDiscoveryProofs`, from an account of what a step does to the lists and the
  registries (`Follows`, `Registers`): `NoSelfLinkHolds`. An address on a list is that of
  a node linked to the one that lists it, and one's own only over a second link, to a
  node with several threads (`Vouches`); for the session being looked at is, when it is
  the caller's own by now, not the one that asks (`Overtaken`).
* `MeshOfTwo`: `ASSUME Leaf, Pairs PROVE Spec => []Mesh`, for any number of nodes that
  are connected to, each by at most two (`Pairs`), none of which connects itself
  (`Leaf`). `Met` is the invariant: once both requests have been read, one of the two
  handlers has yet to take the lock or has the other's session still before it, or its
  caller has been told, or they are linked. It holds because the request read last finds the other session
  registered (`Present`), a list made under the lock loses none (`HereKept`), the one
  address on it is read right or with a host that leads to the same place
  (`Lone`, `HeardLone`), and who is told connects or is linked already (`Dealt`). Both
  conditions are needed. `Discovery_lost` shows what three callers do. A node that has
  two callers and itself asks a third node for two connections gets one back; its list
  has two addresses then, and TLC finds `Mesh` violated.

Only model-checked: every liveness property (fairness and `ENABLED` are out of the
prover's reach), and that `Heard` is what the bytes of a list are read as
(`CodecAgrees`, for lists of up to three entries).

## What is not modelled

* `send_to_node` and its round robin: nothing in the repository calls it, and by its
  index (`state.cpp:313`) it would find no identified TCP session, as
  `Registry_disconnect_misses_peer` shows of `disconnect`.
* The websocket session's write queue. It is the code of the TCP session's without
  `bind_executor`: the accepted socket's executor is a strand already
  (`websocket_listener.cpp:50`), so its handlers do not overlap either, and it has
  fewer senders, its own kernel being the only one. A model of it would be `TcpSession`
  again.
* `~node`, and the references that the state's sessions and the sessions' state hold
  on each other; `tcp_listener` and `websocket_listener` retry an accept that fails at
  once, which changes nothing.
* Option parsing and `main` (I/O), test clients and benchmarks, which are blocking
  programs of a few calls; what clients can send is an input of the models.
* The frame builder's own mutex, `flush`, `reserve` and byte counter (every builder in
  the server is a local variable), the bytes of answers other
  than discovery's, and logging.
