-------------------------- MODULE TcpSessionProofs --------------------------
(***************************************************************************)
(* Theorems about TcpSession, for any senders and any number of messages.  *)
(***************************************************************************)
EXTENDS TcpSession, TLAPS

(***************************************************************************)
(* The write queue's discipline.  OneWriteAtATime is inductive together    *)
(* with Stuck: a cut message is either about to be reported to on_write or *)
(* sits at the front of a queue nobody writes any more.  (A frame being    *)
(* handled has been counted: its answer is a message.)                     *)
(***************************************************************************)
Discipline ==
  /\ OneWriteAtATime
  /\ read = "frame" => frames > 0
  /\ cut => (\E w \in writes : w[2] = "error") \/ (writes = {} /\ queue # <<>>)

\* What has been posted and not yet written is the rest of what was sent.
Settled == IF \E w \in writes : w[2] = "ok" THEN Len(wire) - 1 ELSE Len(wire)

Order ==
  /\ Settled \in Nat
  /\ Len(sent) = Settled + Len(queue) + Len(posted)
  /\ \A i \in 1..Len(queue) : queue[i] = sent[Settled + i]
  /\ \A i \in 1..Len(posted) : posted[i] = sent[Settled + Len(queue) + i]

-----------------------------------------------------------------------------
LEMMA TypeInit == Init => TypeOK
<1> SUFFICES ASSUME Init PROVE TypeOK
  OBVIOUS
<1>1. calls \in [Sender -> 0..MaxSends]
  BY ConstantsAssumption DEF Init
<1>2. frames \in 0..MaxFrames
  BY ConstantsAssumption DEF Init
<1>3. <<>> \in Seq(Message)
  OBVIOUS
<1>4. QED
  BY <1>1, <1>2, <1>3 DEF Init, TypeOK

\* A message a write was started for is replaced by its next status.
LEMMA StatusType ==
  ASSUME NEW W \in SUBSET (Message \X Status), NEW w \in W, NEW st \in Status
  PROVE  (W \ {w}) \union {<<w[1], st>>} \subseteq Message \X Status
OBVIOUS

LEMMA TypeStep ==
  ASSUME TypeOK, Discipline, [Next]_vars
  PROVE  TypeOK'
<1> USE ConstantsAssumption DEF TypeOK, link
<1>1. ASSUME NEW p \in Sender, send(p) PROVE TypeOK'
  <2>1. <<p, calls[p] + 1>> \in Message
    BY <1>1 DEF send, Message
  <2>2. calls' \in [Sender -> 0..MaxSends]
    BY <1>1 DEF send
  <2>3. QED
    BY <1>1, <2>1, <2>2 DEF send, Post
<1>2. ASSUME on_send PROVE TypeOK'
  <2>1. Head(posted) \in Message /\ posted' \in Seq(Message) /\ queue' \in Seq(Message)
    BY <1>2 DEF on_send
  <2>2. queue' # <<>> /\ Head(queue') \in Message
    BY <1>2, <2>1 DEF on_send
  <2>3. StartedBy(queue') \subseteq Message \X Status
    BY <2>2 DEF StartedBy, Status
  <2>4. QED
    BY <1>2, <2>1, <2>3 DEF on_send
<1>3. ASSUME NEW w \in writes, written(w) PROVE TypeOK'
  <2>1. w[1] \in Message /\ writes' \subseteq Message \X Status
    BY <1>3, StatusType DEF written, Status
  <2>2. wire' \in Seq(Message)
    BY <1>3, <2>1 DEF written
  <2>3. QED
    BY <1>3, <2>1, <2>2 DEF written
<1>4. ASSUME NEW w \in writes, write_failed(w) PROVE TypeOK'
  <2>1. writes' \subseteq Message \X Status
    BY <1>4, StatusType DEF write_failed, Status
  <2>2. cut' \in BOOLEAN
    BY <1>4 DEF write_failed
  <2>3. QED
    BY <1>4, <2>1, <2>2 DEF write_failed
<1>5. ASSUME NEW w \in writes, on_write_ok(w) PROVE TypeOK'
  <2>1. queue # <<>>
    BY DEF Discipline, OneWriteAtATime
  <2>2. queue' \in Seq(Message)
    BY <1>5, <2>1 DEF on_write_ok
  <2>3. NextWrite(queue') \subseteq Message \X Status
    BY <2>2 DEF NextWrite, Status
  <2>4. QED
    BY <1>5, <2>2, <2>3 DEF on_write_ok
<1>6. ASSUME NEW w \in writes, on_write_error(w) PROVE TypeOK'
  BY <1>6 DEF on_write_error, RemoveSession
<1>7. ASSUME start \/ receive_failed PROVE TypeOK'
  BY <1>7 DEF start, receive_failed
<1>8. ASSUME receive PROVE TypeOK'
  BY <1>8 DEF receive
<1>9. ASSUME on_frame PROVE TypeOK'
  <2>1. CASE UNCHANGED <<posted, sent>>
    BY <1>9, <2>1 DEF on_frame
  <2>2. CASE Post(<<Kernel, frames>>) /\ frames > 0
    <3>1. <<Kernel, frames>> \in Message
      BY <2>2 DEF Message
    <3>2. QED
      BY <1>9, <2>2, <3>1 DEF on_frame, Post
  <2>3. QED
    BY <1>9, <2>1, <2>2 DEF on_frame, Discipline
<1>10. ASSUME on_read_error PROVE TypeOK'
  BY <1>10 DEF on_read_error, RemoveSession
<1>11. ASSUME remove_session \/ disconnect PROVE TypeOK'
  BY <1>11 DEF remove_session, disconnect
<1>12. CASE UNCHANGED vars
  BY <1>12 DEF vars
<1>13. QED
  BY <1>1, <1>2, <1>3, <1>4, <1>5, <1>6, <1>7, <1>8, <1>9, <1>10, <1>11, <1>12
     DEF Next

-----------------------------------------------------------------------------
LEMMA DisciplineInit == Init => Discipline
BY DEF Init, Discipline, OneWriteAtATime

LEMMA DisciplineStep ==
  ASSUME TypeOK, Discipline, [Next]_vars
  PROVE  Discipline'
<1> USE DEF TypeOK, link, OneWriteAtATime
<1>1. ASSUME NEW p \in Sender, send(p) PROVE Discipline'
  BY <1>1 DEF send, Discipline
<1>2. ASSUME on_send PROVE Discipline'
  <2>1. queue' = Append(queue, Head(posted)) /\ Head(posted) \in Message
    BY <1>2 DEF on_send
  <2>2. CASE queue = <<>>
    <3>1. writes = {} /\ ~cut
      BY <2>2 DEF Discipline
    <3>2. Len(queue') = 1 /\ queue' # <<>>
      BY <2>1, <2>2
    <3>3. writes' = {<<Head(queue'), "active">>}
      BY <1>2, <3>1, <3>2 DEF on_send, StartedBy
    <3>4. \A v, x \in writes' : v = x /\ queue' # <<>> /\ x[1] = Head(queue')
      BY <3>2, <3>3
    <3>5. ~cut' /\ read' = read /\ frames' = frames
      BY <1>2, <3>1 DEF on_send
    <3>6. QED
      BY <3>4, <3>5 DEF Discipline
  <2>3. CASE queue # <<>>
    <3>1. Len(queue') > 1 /\ queue' # <<>> /\ Head(queue') = Head(queue)
      BY <2>1, <2>3
    <3>2. writes' = writes
      BY <1>2, <3>1 DEF on_send, StartedBy
    <3>3. QED
      BY <1>2, <2>3, <3>1, <3>2 DEF on_send, Discipline
  <2>4. QED
    BY <2>2, <2>3
<1>3. ASSUME NEW w \in writes, written(w) PROVE Discipline'
  <2>1. writes = {w} /\ ~cut /\ queue # <<>> /\ w[1] = Head(queue)
    BY <1>3 DEF written, Discipline
  <2>2. writes' = {<<w[1], "ok">>}
    BY <1>3, <2>1 DEF written
  <2>3. ~cut' /\ queue' = queue /\ read' = read /\ frames' = frames
    BY <1>3, <2>1 DEF written
  <2>4. \A v, x \in writes' : v = x /\ queue' # <<>> /\ x[1] = Head(queue')
    BY <2>1, <2>2, <2>3
  <2>5. QED
    BY <2>3, <2>4 DEF Discipline
<1>4. ASSUME NEW w \in writes, write_failed(w) PROVE Discipline'
  <2>1. writes = {w} /\ queue # <<>> /\ w[1] = Head(queue)
    BY DEF Discipline
  <2>2. writes' = {<<w[1], "error">>}
    BY <1>4, <2>1 DEF write_failed
  <2>3. QED
    BY <1>4, <2>1, <2>2 DEF write_failed, Discipline
<1>5. ASSUME NEW w \in writes, on_write_ok(w) PROVE Discipline'
  <2>1. writes = {w} /\ ~cut
    BY <1>5 DEF on_write_ok, Discipline
  <2>2. writes' = NextWrite(queue')
    BY <1>5, <2>1 DEF on_write_ok
  <2>3. \A v, x \in writes' : v = x /\ queue' # <<>> /\ x[1] = Head(queue')
    BY <2>2 DEF NextWrite
  <2>4. QED
    BY <1>5, <2>1, <2>3 DEF on_write_ok, Discipline
<1>6. ASSUME NEW w \in writes, on_write_error(w) PROVE Discipline'
  <2>1. writes = {w} /\ queue # <<>>
    BY DEF Discipline
  <2>2. QED
    BY <1>6, <2>1 DEF on_write_error, Discipline
<1>7. ASSUME start \/ receive \/ receive_failed \/ on_frame \/ on_read_error
      PROVE  Discipline'
  BY <1>7 DEF start, receive, receive_failed, on_frame, on_read_error, Discipline
<1>8. ASSUME remove_session \/ disconnect PROVE Discipline'
  BY <1>8 DEF remove_session, disconnect, Discipline
<1>9. CASE UNCHANGED vars
  BY <1>9 DEF vars, Discipline
<1>10. QED
  BY <1>1, <1>2, <1>3, <1>4, <1>5, <1>6, <1>7, <1>8, <1>9 DEF Next

-----------------------------------------------------------------------------
LEMMA OrderInit == Init => Order
BY DEF Init, Order, Settled

\* send and a frame's answer append one message to what was sent and posted.
LEMMA PostStep ==
  ASSUME TypeOK, Order, NEW m \in Message, Post(m), UNCHANGED <<queue, writes, wire>>
  PROVE  Order'
<1>1. Settled' = Settled
  BY DEF Settled
<1>2. /\ Len(sent') = Len(sent) + 1 /\ Len(posted') = Len(posted) + 1
      /\ \A i \in 1..Len(sent) : sent'[i] = sent[i]
      /\ \A i \in 1..Len(posted) : posted'[i] = posted[i]
      /\ sent'[Len(sent) + 1] = m /\ posted'[Len(posted) + 1] = m
  BY DEF Post, TypeOK
<1>3. Len(queue) \in Nat /\ Len(posted) \in Nat /\ Len(sent) \in Nat
  BY DEF TypeOK
<1>4. \A i \in 1..Len(queue) : queue[i] = sent'[Settled + i]
  BY <1>2, <1>3 DEF Order
<1>5. \A i \in 1..Len(posted') : posted'[i] = sent'[Settled + Len(queue) + i]
  BY <1>2, <1>3 DEF Order
<1>6. QED
  BY <1>1, <1>2, <1>3, <1>4, <1>5 DEF Order

LEMMA OrderStep ==
  ASSUME TypeOK, Discipline, Order, [Next]_vars
  PROVE  Order'
<1> USE DEF link
<1>0. Len(queue) \in Nat /\ Len(posted) \in Nat /\ Len(wire) \in Nat
  BY DEF TypeOK
<1>1. ASSUME NEW p \in Sender, send(p) PROVE Order'
  <2>1. <<p, calls[p] + 1>> \in Message
    BY <1>1, ConstantsAssumption DEF send, Message, TypeOK
  <2>2. QED
    BY <1>1, <2>1, PostStep DEF send
<1>2. ASSUME on_send PROVE Order'
  <2>1. /\ Len(queue') = Len(queue) + 1 /\ Len(posted') = Len(posted) - 1
        /\ Len(posted) >= 1
        /\ \A i \in 1..Len(queue) : queue'[i] = queue[i]
        /\ queue'[Len(queue) + 1] = posted[1]
        /\ \A i \in 1..Len(posted') : posted'[i] = posted[i + 1]
    BY <1>2 DEF on_send, TypeOK
  <2>2. Settled' = Settled
    BY <1>2 DEF on_send, StartedBy, Settled
  <2>3. sent' = sent
    BY <1>2 DEF on_send
  <2>4. \A i \in 1..Len(queue') : queue'[i] = sent[Settled + i]
    <3>1. posted[1] = sent[Settled + Len(queue) + 1]
      BY <1>0, <2>1 DEF Order
    <3>2. ASSUME NEW i \in 1..Len(queue') PROVE queue'[i] = sent[Settled + i]
      <4>1. CASE i = Len(queue) + 1
        BY <1>0, <2>1, <3>1, <4>1 DEF Order
      <4>2. CASE i \in 1..Len(queue)
        BY <2>1, <4>2 DEF Order
      <4>3. QED
        BY <1>0, <2>1, <4>1, <4>2
    <3>3. QED
      BY <3>2
  <2>5. \A i \in 1..Len(posted') : posted'[i] = sent[Settled + Len(queue') + i]
    BY <1>0, <2>1 DEF Order
  <2>6. QED
    <3>1. Settled \in Nat /\ Len(sent) = Settled + Len(queue) + Len(posted)
      BY DEF Order
    <3>2. Len(sent') = Settled' + Len(queue') + Len(posted')
      BY <1>0, <2>1, <2>2, <2>3, <3>1
    <3>3. QED
      BY <2>2, <2>3, <2>4, <2>5, <3>1, <3>2 DEF Order
<1>3. ASSUME NEW w \in writes, written(w) PROVE Order'
  <2>1. writes = {w} /\ w[2] = "active"
    BY <1>3 DEF written, Discipline, OneWriteAtATime
  <2>2. writes' = {<<w[1], "ok">>} /\ Len(wire') = Len(wire) + 1
    BY <1>3, <2>1 DEF written, TypeOK
  <2>3. Settled' = Settled
    BY <1>0, <2>1, <2>2 DEF Settled
  <2>4. QED
    BY <1>3, <2>3 DEF written, Order
<1>4. ASSUME NEW w \in writes, write_failed(w) PROVE Order'
  <2>1. writes = {w} /\ w[2] = "active" /\ writes' = {<<w[1], "error">>}
    BY <1>4 DEF write_failed, Discipline, OneWriteAtATime
  <2>2. Settled' = Settled
    BY <1>4, <2>1 DEF write_failed, Settled
  <2>3. QED
    BY <1>4, <2>2 DEF write_failed, Order
<1>5. ASSUME NEW w \in writes, on_write_ok(w) PROVE Order'
  <2>1. writes = {w} /\ w[2] = "ok" /\ queue # <<>>
    BY <1>5 DEF on_write_ok, Discipline, OneWriteAtATime
  <2>2. \A v \in writes' : v[2] # "ok"
    BY <1>5, <2>1 DEF on_write_ok, NextWrite
  <2>3. Settled' = Settled + 1
    BY <1>0, <1>5, <2>1, <2>2 DEF on_write_ok, Settled
  <2>4. /\ Len(queue') = Len(queue) - 1 /\ Len(queue) >= 1
        /\ \A i \in 1..Len(queue') : queue'[i] = queue[i + 1]
    BY <1>5, <2>1 DEF on_write_ok, TypeOK
  <2>5. sent' = sent /\ posted' = posted
    BY <1>5 DEF on_write_ok
  <2>6. Settled \in Nat /\ Settled' \in Nat
    BY <2>3 DEF Order
  <2>7. Len(sent') = Settled' + Len(queue') + Len(posted')
    BY <1>0, <2>3, <2>4, <2>5, <2>6 DEF Order
  <2>8. \A i \in 1..Len(queue') : queue'[i] = sent'[Settled' + i]
    <3>1. ASSUME NEW i \in 1..Len(queue') PROVE queue'[i] = sent'[Settled' + i]
      <4>1. i + 1 \in 1..Len(queue) /\ Settled + (i + 1) = Settled' + i
        BY <1>0, <2>3, <2>4, <2>6
      <4>2. queue[i + 1] = sent[Settled + (i + 1)]
        BY <4>1 DEF Order
      <4>3. QED
        BY <2>4, <2>5, <4>1, <4>2
    <3>2. QED
      BY <3>1
  <2>9. \A i \in 1..Len(posted') : posted'[i] = sent'[Settled' + Len(queue') + i]
    BY <1>0, <2>3, <2>4, <2>5, <2>6 DEF Order
  <2>10. QED
    BY <2>6, <2>7, <2>8, <2>9 DEF Order
<1>6. ASSUME NEW w \in writes, on_write_error(w) PROVE Order'
  <2>1. w[2] = "error" /\ writes = {w} /\ writes' = {}
    BY <1>6 DEF on_write_error, Discipline, OneWriteAtATime
  <2>2. Settled' = Settled
    BY <1>6, <2>1 DEF on_write_error, Settled
  <2>3. QED
    BY <1>6, <2>2 DEF on_write_error, Order
<1>7. ASSUME on_frame PROVE Order'
  <2>1. CASE UNCHANGED <<posted, sent>>
    BY <1>7, <2>1 DEF on_frame, Order, Settled
  <2>2. CASE Post(<<Kernel, frames>>)
    <3>1. <<Kernel, frames>> \in Message
      BY <1>7, ConstantsAssumption DEF on_frame, Discipline, TypeOK, Message
    <3>2. QED
      BY <1>7, <2>2, <3>1, PostStep DEF on_frame
  <2>3. QED
    BY <1>7, <2>1, <2>2 DEF on_frame
<1>8. ASSUME start \/ receive \/ receive_failed \/ on_read_error PROVE Order'
  BY <1>8 DEF start, receive, receive_failed, on_read_error, Order, Settled
<1>9. ASSUME remove_session \/ disconnect PROVE Order'
  BY <1>9 DEF remove_session, disconnect, Order, Settled
<1>10. CASE UNCHANGED vars
  BY <1>10 DEF vars, Order, Settled
<1>11. QED
  BY <1>1, <1>2, <1>3, <1>4, <1>5, <1>6, <1>7, <1>8, <1>9, <1>10 DEF Next

-----------------------------------------------------------------------------
LEMMA SessionInvariant == Spec => [](TypeOK /\ Discipline /\ Order)
<1>1. Init => TypeOK /\ Discipline /\ Order
  BY TypeInit, DisciplineInit, OrderInit
<1>2. TypeOK /\ Discipline /\ Order /\ [Next]_vars => (TypeOK /\ Discipline /\ Order)'
  BY TypeStep, DisciplineStep, OrderStep
<1>3. QED
  BY <1>1, <1>2, PTL DEF Spec

\* Every variable of the session stays within its type.
THEOREM TypeCorrect == Spec => []TypeOK
  BY SessionInvariant, PTL

\* A session never has two writes outstanding, and the one it has is that of
\* the front of its queue, whatever threads send (tcp_session::on_send).
THEOREM OneWriteAtATimeHolds == Spec => []OneWriteAtATime
<1>1. Discipline => OneWriteAtATime
  BY DEF Discipline
<1>2. QED
  BY <1>1, SessionInvariant, PTL

\* Once a write has failed no other write is started (tcp_session::on_write
\* leaves the failed message at the front and returns).
THEOREM NoWriteAfterErrorHolds == Spec => []NoWriteAfterError
<1>1. Discipline => NoWriteAfterError
  BY DEF Discipline, OneWriteAtATime, NoWriteAfterError
<1>2. QED
  BY <1>1, SessionInvariant, PTL

LEMMA PipeStep ==
  ASSUME TypeOK, Discipline, Order, [Next]_vars
  PROVE  [Pipe!Next]_(Pipe!vars)
<1> USE DEF link, Pipe!vars
<1>1. ASSUME NEW m \in Message, Post(m), UNCHANGED <<wire, cut>> PROVE Pipe!Next
  BY <1>1 DEF Post, Pipe!Next, Pipe!Accept
<1>2. ASSUME NEW p \in Sender, send(p) PROVE Pipe!Next
  <2>1. <<p, calls[p] + 1>> \in Message
    BY <1>2, ConstantsAssumption DEF send, Message, TypeOK
  <2>2. QED
    BY <1>1, <1>2, <2>1 DEF send
<1>3. ASSUME NEW w \in writes, written(w) PROVE Pipe!Deliver
  <2>1. /\ writes = {w} /\ w[2] = "active" /\ ~cut
        /\ queue # <<>> /\ w[1] = Head(queue)
    BY <1>3 DEF written, Discipline, OneWriteAtATime
  <2>2. Settled = Len(wire)
    BY <2>1 DEF Settled
  <2>3. Len(queue) >= 1 /\ Head(queue) = queue[1] /\ Len(posted) \in Nat
    BY <2>1 DEF TypeOK
  <2>4. queue[1] = sent[Len(wire) + 1]
    BY <2>2, <2>3 DEF Order
  <2>5. Len(sent) = Len(wire) + Len(queue) + Len(posted)
    BY <2>2 DEF Order
  <2>6. Len(wire) < Len(sent)
    BY <2>3, <2>5 DEF TypeOK
  <2>7. QED
    BY <1>3, <2>1, <2>3, <2>4, <2>6 DEF written, Pipe!Deliver
<1>4. ASSUME NEW w \in writes, write_failed(w)
      PROVE  Pipe!Cut \/ UNCHANGED Pipe!vars
  BY <1>4 DEF write_failed, Pipe!Cut
<1>5. ASSUME on_frame PROVE Pipe!Next \/ UNCHANGED Pipe!vars
  <2>1. CASE UNCHANGED <<posted, sent>>
    BY <1>5, <2>1 DEF on_frame
  <2>2. CASE Post(<<Kernel, frames>>)
    <3>1. <<Kernel, frames>> \in Message
      BY <1>5, ConstantsAssumption DEF on_frame, Discipline, TypeOK, Message
    <3>2. QED
      BY <1>1, <1>5, <2>2, <3>1 DEF on_frame
  <2>3. QED
    BY <1>5, <2>1, <2>2 DEF on_frame
<1>6. ASSUME on_send \/ \E w \in writes : on_write_ok(w) \/ on_write_error(w)
      PROVE  UNCHANGED Pipe!vars
  BY <1>6 DEF on_send, on_write_ok, on_write_error
<1>7. ASSUME start \/ receive \/ receive_failed \/ on_read_error
      PROVE  UNCHANGED Pipe!vars
  BY <1>7 DEF start, receive, receive_failed, on_read_error
<1>8. ASSUME remove_session \/ disconnect PROVE UNCHANGED Pipe!vars
  BY <1>8 DEF remove_session, disconnect
<1>9. CASE UNCHANGED vars
  BY <1>9 DEF vars
<1>10. QED
  BY <1>2, <1>3, <1>4, <1>5, <1>6, <1>7, <1>8, <1>9 DEF Next, Pipe!Next

\* Any number of sending threads, the strand and the write chain implement an
\* ordered pipe: what leaves is what was sent, in the order it was sent, and
\* nothing follows a cut message.
THEOREM ImplementsPipe == Spec => PipeSpec
<1>1. Init => Pipe!Init
  BY DEF Init, Pipe!Init
<1>2. TypeOK /\ Discipline /\ Order /\ [Next]_vars => [Pipe!Next]_(Pipe!vars)
  BY PipeStep
<1>3. QED
  BY <1>1, <1>2, SessionInvariant, PTL DEF Spec, PipeSpec, Pipe!Spec
=============================================================================
