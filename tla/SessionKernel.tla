---------------------------- MODULE SessionKernel ----------------------------
(***************************************************************************)
(* session_kernel::handle, step by step, on the frames a session reads one *)
(* after the other.  Handlers run inside the loop: when a later part of    *)
(* the frame is refused, what the earlier ones did stays done.  Of a       *)
(* handler's work, the answer it adds to the response builder is kept.     *)
(***************************************************************************)
EXTENDS FrameCodec

CONSTANTS
  Frames,     \* the frames a peer may send
  AnswerSize  \* sizes a discovery answer may have

ASSUME KernelAssumption ==
  /\ Frames \subseteq Frame
  /\ AnswerSize \subseteq Nat

Kind == {"tcp", "websocket"}

VARIABLES
  pc,         \* "idle", "frame", "requests", "dropped", "done"
  kind,       \* session->get_type()
  frame,
  offset,     \* _offset
  lengths,    \* _requests_lengths
  handled,    \* history: the payloads whose handler has been called
  answers,    \* the response builder's buffers_
  extent      \* history: the bytes from the start up to the last one read

vars == <<pc, kind, frame, offset, lengths, handled, answers, extent>>

Size == Len(frame.data)

Init ==
  /\ pc = "idle" /\ kind \in Kind
  /\ frame = [data |-> <<>>, crc |-> FALSE]
  /\ offset = 0 /\ lengths = <<>>
  /\ handled = <<>> /\ answers = <<>>
  /\ extent = 0

\* read_body, on_read: a frame goes to the kernel.
Take(f) ==
  /\ pc' = "frame" /\ frame' = f
  /\ offset' = 0 /\ extent' = 0
  /\ lengths' = <<>> /\ handled' = <<>> /\ answers' = <<>>
  /\ UNCHANGED kind

receive == /\ pc \in {"idle", "dropped", "done"}
           /\ \E f \in Frames : Take(f)

Drop == /\ pc' = "dropped"
        /\ UNCHANGED <<kind, frame, offset, lengths, handled, answers, extent>>

\* No request is looked at when the checksum or the table of lengths is bad.
read_lengths ==
  LET n == U16(frame.data, 0)
  IN  /\ pc = "frame"
      /\ IF ~frame.crc \/ Size < 2 THEN Drop
         ELSE IF Size - 2 < 2 * n
           THEN /\ pc' = "dropped"
                /\ extent' = 2
                /\ UNCHANGED <<kind, frame, offset, lengths, handled, answers>>
           ELSE /\ pc' = "requests"
                /\ lengths' = [i \in 1..n |-> U16(frame.data, 2 * i)]
                /\ offset' = 2 + 2 * n
                /\ extent' = offset'
                /\ UNCHANGED <<kind, frame, handled, answers>>

\* Faulty variants: the length is not compared with what is left; the answer
\* to an answer.
InFrame_Unchecked(len) == HeadSize <= len
Answered_Always(op, type, size) == TRUE

\* The next payload lies within the frame and has its fixed part.
InFrame(len) == len <= Size - offset /\ HeadSize <= len

\* The handlers that answer a payload of this op code and type.
Answered(op, type, size) ==
  \/ op \in {identify, join, leave} /\ kind = "tcp" /\ size >= IdSize
       /\ IF op = identify THEN type = request ELSE type # response
  \/ op = discovery /\ type = request
  \/ op \notin {identify, join, leave, discovery} /\ type # response

\* The sizes of the body of an answer.
BodySizes(op) == CASE op = identify -> {IdSize}
                   [] op = whoami -> {2 * IdSize + 1}
                   [] op \in {join, leave} -> {8}
                   [] op = discovery -> AnswerSize
                   [] OTHER -> {1}

\* add_non_implemented answers under an op code of its own.
AnswerOp(op) == IF op \in 1..6 THEN op ELSE op_non_implemented

\* One turn of the loop: the handler of the next payload is called.
handle_request ==
  LET len  == lengths[Len(handled) + 1]
      body == len - HeadSize
      op   == At(frame.data, offset)
      type == At(frame.data, offset + 1)
      id   == At(frame.data, offset + 2)
  IN  /\ pc = "requests" /\ Len(handled) < Len(lengths)
      /\ IF ~InFrame(len) THEN Drop
         ELSE /\ handled' = Append(handled,
                   [op |-> op, type |-> type, id |-> id,
                    body |-> [i \in 1..body |-> At(frame.data, offset + HeadSize + i - 1)]])
              /\ \/ /\ Answered(op, type, body)
                    /\ \E s \in BodySizes(op) :
                         answers' = Append(answers,
                           [op |-> AnswerOp(op), type |-> response, id |-> id,
                            body |-> [i \in 1..s |-> 0]])
                 \/ ~Answered(op, type, body) /\ UNCHANGED answers
              /\ offset' = offset + len
              /\ extent' = offset + len
              /\ UNCHANGED <<pc, kind, frame, lengths>>

\* All are handled: the answers go back in one frame, in order.
finish ==
  /\ pc = "requests" /\ Len(handled) = Len(lengths)
  /\ pc' = "done"
  /\ UNCHANGED <<kind, frame, offset, lengths, handled, answers, extent>>

Handle == read_lengths \/ handle_request \/ finish

Next == receive \/ Handle

Spec == Init /\ [][Next]_vars

-----------------------------------------------------------------------------
(* Properties.                                                             *)

TypeOK ==
  /\ pc \in {"idle", "frame", "requests", "dropped", "done"}
  /\ kind \in Kind
  /\ frame \in Frame
  /\ offset \in Nat /\ extent \in Nat
  /\ lengths \in Seq(Nat)
  /\ handled \in Seq(Payload) /\ answers \in Seq(Payload)

\* Whatever a frame with a good checksum contains, the kernel reads no byte
\* beyond its end (the checks of session_kernel::handle on unsigned sizes).
InBounds == extent <= Size
=============================================================================
