---------------------------- MODULE Conversation ----------------------------
(***************************************************************************)
(* What one frame sets off on a session.  Both ends of a TCP link run the  *)
(* same kernel, so the answers to a frame are a frame the other end's      *)
(* kernel handles in turn; the end of a websocket is a client, which only  *)
(* receives.                                                               *)
(***************************************************************************)
EXTENDS SessionKernel

CONSTANT Batches   \* payloads that are built into one frame

\* get_data throws for more than 65535 payloads.
ASSUME ConversationAssumption ==
  \A ps \in Batches : ps \in Seq(Payload) /\ Len(ps) < Base * Base /\ Sealed(ps) \in Frames

VARIABLES
  batch,      \* history: what the frame was built from, <<>> for foreign ones
  answering   \* the frame answers another one

cvars == <<vars, batch, answering>>

CInit == Init /\ batch = <<>> /\ answering = FALSE

begin ==
  /\ pc = "idle"
  /\ receive
  /\ batch' = IF \E ps \in Batches : Sealed(ps) = frame'
                THEN CHOOSE ps \in Batches : Sealed(ps) = frame' ELSE <<>>
  /\ UNCHANGED answering

\* read_body: the answers are sent and the other end of the link reads them.  When
\* there are none, the kernel returns an empty vector and not a null pointer: it is
\* sent too, as no byte at all, and the other end reads nothing.
reply ==
  /\ pc = "done" /\ kind = "tcp" /\ answers # <<>>
  /\ Take(Sealed(answers))
  /\ batch' = answers
  /\ answering' = TRUE

CNext == begin \/ (Handle /\ UNCHANGED <<batch, answering>>) \/ reply

CSpec == CInit /\ [][CNext]_cvars /\ WF_cvars(Handle /\ UNCHANGED <<batch, answering>>)
               /\ WF_cvars(reply)

-----------------------------------------------------------------------------
(* Properties.                                                             *)

\* What the frame builder writes (get_data), the kernel of the other end hands
\* to the handlers as it was, payload by payload, if all lengths fit 16 bits.
RoundTrip ==
  batch # <<>> /\ Fits(batch) =>
    pc # "dropped" /\ (pc = "done" => handled = batch)

\* Two kernels do not go on answering each other: no handler answers an answer
\* (the checks of the message type in handlers/*.hpp).
NoAnswerToAnswer ==
  answering /\ Fits(batch) => answers = <<>>

\* The exchange a frame sets off comes to an end, whatever the frame.
ConversationEnds ==
  (pc = "frame") ~> (\/ pc = "dropped"
                     \/ pc = "done" /\ (kind = "websocket" \/ answers = <<>>))
=============================================================================
