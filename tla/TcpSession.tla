----------------------------- MODULE TcpSession -----------------------------
(***************************************************************************)
(* One tcp_session: its write queue, its read chain and its socket.        *)
(*                                                                         *)
(* Any thread may call send(), which only posts on_send to the session's   *)
(* strand; completions of reads and writes run on the same strand.  A      *)
(* handler is one action, as handlers of one strand never overlap.  Posts  *)
(* of on_send keep their order; how they interleave with completions is    *)
(* left open.  Another thread may unregister the session and close the     *)
(* socket at any moment: disconnect() does not go through the strand.      *)
(***************************************************************************)
EXTENDS Naturals, Sequences, FiniteSets

CONSTANTS
  Sender,      \* threads that call send(): broadcasts, state::connect
  Kernel,      \* the session's own read handler, which sends responses
  MaxSends,    \* BOUND: messages each sender sends
  MaxFrames    \* BOUND: frames the peer sends

ASSUME ConstantsAssumption ==
  /\ Kernel \notin Sender
  /\ MaxSends \in Nat
  /\ MaxFrames \in Nat

Message == (Sender \X (1..MaxSends)) \union ({Kernel} \X (1..MaxFrames))
Status  == {"active", "ok", "error"}

VARIABLES
  posted,      \* the on_send handlers waiting on the strand
  queue,       \* queue_
  writes,      \* async_write operations whose handler has not run, with status
  read,        \* the read chain: "none", "pending", "frame", "error", "ended"
  socket,      \* "open" or "closed"
  registered,  \* the session is in state::sessions_
  closer,      \* a thread has unregistered it and is about to close the socket
  wire,        \* the messages written whole
  cut,         \* a message was written in part
  sent,        \* history: the messages in the order send() posted them
  calls,       \* messages each sender has sent
  frames       \* frames received

vars == <<posted, queue, writes, read, socket, registered, closer, wire, cut,
          sent, calls, frames>>

link == <<socket, registered, closer>>

Init ==
  /\ posted = <<>> /\ queue = <<>> /\ writes = {}
  /\ read = "none"
  /\ socket = "open" /\ registered = TRUE /\ closer = FALSE
  /\ wire = <<>> /\ cut = FALSE
  /\ sent = <<>>
  /\ calls = [p \in Sender |-> 0]
  /\ frames = 0

-----------------------------------------------------------------------------
(* Writing.                                                                *)

\* send: post to the strand; may be called from any thread.
Post(m) == /\ posted' = Append(posted, m)
           /\ sent' = Append(sent, m)

send(p) ==
  /\ calls[p] < MaxSends
  /\ calls' = [calls EXCEPT ![p] = @ + 1]
  /\ Post(<<p, calls[p] + 1>>)
  /\ UNCHANGED <<queue, writes, read, link, wire, cut, frames>>

\* Faulty variants: every message starts a write of its own; the write is
\* given the queue and not its front.
StartedBy_Always(q) == {<<q[Len(q)], "active">>}
StartedBy_Whole(q) == IF Len(q) > 1 THEN {} ELSE {<<q, "active">>}

\* on_send after push_back: a write starts only when the queue was empty.
StartedBy(q) == IF Len(q) > 1 THEN {} ELSE {<<Head(q), "active">>}

on_send ==
  /\ posted # <<>>
  /\ posted' = Tail(posted)
  /\ queue' = Append(queue, Head(posted))
  /\ writes' = writes \union StartedBy(queue')
  /\ UNCHANGED <<read, link, wire, cut, sent, calls, frames>>

\* The message has been handed to the peer's side whole.
written(w) ==
  /\ w \in writes /\ w[2] = "active"
  /\ socket = "open"
  /\ writes' = (writes \ {w}) \union {<<w[1], "ok">>}
  /\ wire' = Append(wire, w[1])
  /\ UNCHANGED <<posted, queue, read, link, cut, sent, calls, frames>>

\* The connection breaks, or the socket is closed, under a write; some of the
\* message may have left.
write_failed(w) ==
  /\ w \in writes /\ w[2] = "active"
  /\ writes' = (writes \ {w}) \union {<<w[1], "error">>}
  /\ cut' \in {cut, TRUE}
  /\ UNCHANGED <<posted, queue, read, link, wire, sent, calls, frames>>

\* Faulty variant: the next write is left to the next on_send.
NextWrite_Forgotten(q) == {}

\* on_write without error, after the erase: write what is left, in order.
NextWrite(q) == IF q # <<>> THEN {<<Head(q), "active">>} ELSE {}

on_write_ok(w) ==
  /\ w \in writes /\ w[2] = "ok"
  /\ queue' = Tail(queue)
  /\ writes' = (writes \ {w}) \union NextWrite(queue')
  /\ UNCHANGED <<posted, read, link, wire, cut, sent, calls, frames>>

\* Faulty variant: the session is unregistered and its socket left open.
RemoveSession_LeavesOpen ==
  /\ registered' = FALSE
  /\ UNCHANGED <<socket, closer>>

\* state::remove_session called from a handler of the session.
RemoveSession ==
  /\ registered' = FALSE
  /\ socket' = IF registered THEN "closed" ELSE socket
  /\ UNCHANGED closer

\* Faulty variant: the failed message is dropped and the next one written.
on_write_error_Continues(w) ==
  /\ w \in writes /\ w[2] = "error"
  /\ queue' = Tail(queue)
  /\ writes' = (writes \ {w}) \union NextWrite(queue')
  /\ UNCHANGED <<posted, read, link, wire, cut, sent, calls, frames>>

\* on_write with an error: the message stays at the front of the queue.
on_write_error(w) ==
  /\ w \in writes /\ w[2] = "error"
  /\ writes' = writes \ {w}
  /\ RemoveSession
  /\ UNCHANGED <<posted, queue, read, wire, cut, sent, calls, frames>>

-----------------------------------------------------------------------------
(* Reading.                                                                *)

\* start: the read chain begins (state::connect sends before it starts).
start ==
  /\ read = "none"
  /\ read' = "pending"
  /\ UNCHANGED <<posted, queue, writes, link, wire, cut, sent, calls, frames>>

\* The header and the body of a frame have arrived.
receive ==
  /\ read = "pending" /\ socket = "open" /\ frames < MaxFrames
  /\ read' = "frame"
  /\ frames' = frames + 1
  /\ UNCHANGED <<posted, queue, writes, link, wire, cut, sent, calls>>

\* The peer closes, the connection breaks, or the socket is closed here.
receive_failed ==
  /\ read = "pending"
  /\ read' = "error"
  /\ UNCHANGED <<posted, queue, writes, link, wire, cut, sent, calls, frames>>

\* read_body's completion: the kernel may answer; then the next header is read.
on_frame ==
  /\ read = "frame"
  /\ read' = "pending"
  /\ \/ Post(<<Kernel, frames>>)
     \/ UNCHANGED <<posted, sent>>
  /\ UNCHANGED <<queue, writes, link, wire, cut, calls, frames>>

on_read_error ==
  /\ read = "error"
  /\ read' = "ended"
  /\ RemoveSession
  /\ UNCHANGED <<posted, queue, writes, wire, cut, sent, calls, frames>>

-----------------------------------------------------------------------------
(* Another thread: remove_session, in its two steps.                       *)

remove_session ==
  /\ registered
  /\ registered' = FALSE
  /\ closer' = TRUE
  /\ UNCHANGED <<posted, queue, writes, read, socket, wire, cut, sent, calls,
                 frames>>

disconnect ==
  /\ closer
  /\ closer' = FALSE
  /\ socket' = "closed"
  /\ UNCHANGED <<posted, queue, writes, read, registered, wire, cut, sent,
                 calls, frames>>

Next ==
  \/ \E p \in Sender : send(p)
  \/ on_send
  \/ \E w \in writes : \/ written(w)
                      \/ write_failed(w)
                      \/ on_write_ok(w)
                      \/ on_write_error(w)
  \/ start \/ receive \/ receive_failed \/ on_frame \/ on_read_error
  \/ remove_session \/ disconnect

Completed == \E w \in writes : on_write_ok(w) \/ on_write_error(w)

(***************************************************************************)
(* The io_context runs every handler that is ready, operations on a closed *)
(* socket complete, and a thread inside remove_session goes on.  Transfer  *)
(* is the network and the peer: that a write on an open socket completes,  *)
(* one way or the other, holds when the peer keeps reading.                *)
(***************************************************************************)
Handlers ==
  /\ WF_vars(on_send)
  /\ WF_vars(Completed)
  /\ WF_vars(on_frame)
  /\ WF_vars(on_read_error)
  /\ WF_vars(socket = "closed" /\ receive_failed)
  /\ WF_vars(socket = "closed" /\ \E w \in writes : write_failed(w))
  /\ WF_vars(disconnect)

Transfer == WF_vars(\E w \in writes : written(w))

Spec == Init /\ [][Next]_vars
FairSpec == Spec /\ Handlers /\ Transfer

-----------------------------------------------------------------------------
(* Properties.                                                             *)

TypeOK ==
  /\ posted \in Seq(Message)
  /\ queue \in Seq(Message)
  /\ writes \subseteq Message \X Status
  /\ read \in {"none", "pending", "frame", "error", "ended"}
  /\ socket \in {"open", "closed"}
  /\ registered \in BOOLEAN
  /\ closer \in BOOLEAN
  /\ wire \in Seq(Message)
  /\ cut \in BOOLEAN
  /\ sent \in Seq(Message)
  /\ calls \in [Sender -> 0..MaxSends]
  /\ frames \in 0..MaxFrames

\* async_write must not be called while another one is in progress, whatever
\* threads send and whatever completes meanwhile; and the one in progress is
\* always that of the front of the queue (tcp_session::on_send, on_write).
OneWriteAtATime ==
  \A v, w \in writes : v = w /\ queue # <<>> /\ w[1] = Head(queue)

\* After a failed write, no other write is ever started on the session, so
\* no peer reads the rest of the queue in the middle of a cut message.
NoWriteAfterError ==
  (cut \/ \E w \in writes : w[2] = "error") =>
    \A w \in writes : w[2] = "error"

Pipe == INSTANCE OrderedPipe

\* Senders of any thread and the write chain together implement an ordered
\* pipe (tcp_session::send, on_send, on_write).
PipeSpec == Pipe!Spec

\* No wake-up is lost: while the session lasts, what was sent gets written.
SentIsWritten ==
  \A m \in Message :
    (\E i \in DOMAIN sent : sent[i] = m)
      ~> ((\E i \in DOMAIN wire : wire[i] = m) \/ cut \/ socket = "closed" \/
           \E w \in writes : w[2] = "error")

\* A session that has been removed ends every operation it has pending, so
\* that the last reference to it goes.
RemovedSessionEnds ==
  (~registered) ~> (socket = "closed" /\ writes = {} /\ posted = <<>>
                     /\ read \in {"none", "ended"})

=============================================================================
