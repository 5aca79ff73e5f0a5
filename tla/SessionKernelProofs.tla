-------------------------- MODULE SessionKernelProofs --------------------------
(***************************************************************************)
(* For every size of a byte and of an id, and every set of frames and of   *)
(* batches: the types hold, the kernel stays within the frame and hands on *)
(* what was built, and answers are not answered.                           *)
(***************************************************************************)
EXTENDS Conversation, SequenceLemmas

\* Where the next payload starts, there is still frame, or its end.
Cursor == pc = "requests" => offset <= Size

Inv == TypeOK /\ InBounds /\ Cursor

LEMMA ByteFacts == /\ Byte \subseteq Nat /\ 0..6 \subseteq Byte
                   /\ HeadSize \in Nat /\ IdSize \in Nat
  BY CodecAssumption DEF Byte, HeadSize

LEMMA AtByte ==
  ASSUME NEW s \in Seq(Byte), NEW o \in Nat
  PROVE  At(s, o) \in Byte
  BY ByteFacts DEF At

LEMMA U16Nat ==
  ASSUME NEW s \in Seq(Byte), NEW o \in Nat
  PROVE  U16(s, o) \in Nat
<1>1. At(s, o) \in Nat /\ At(s, o + 1) \in Nat
  <2>1. o + 1 \in Nat
    OBVIOUS
  <2>2. QED
    BY <2>1, AtByte, ByteFacts
<1>2. Base \in Nat
  BY CodecAssumption
<1>3. QED
  BY <1>1, <1>2 DEF U16

LEMMA TakeTyped ==
  ASSUME TypeOK, NEW f \in Frame, Take(f)
  PROVE  Inv'
<1>1. Len(f.data) \in Nat
  BY DEF Frame
<1>2. QED
  BY <1>1 DEF TypeOK, Inv, InBounds, Cursor, Size, Take

\* Reading the table of lengths checks it against the end of the frame.
LEMMA LengthsStep ==
  ASSUME Inv, read_lengths
  PROVE  Inv'
<1> DEFINE n == U16(frame.data, 0)
<1>1. frame.data \in Seq(Byte) /\ Size \in Nat /\ n \in Nat
  <2>1. frame.data \in Seq(Byte)
    BY DEF Inv, TypeOK, Frame
  <2>2. n \in Nat
    BY <2>1, U16Nat
  <2>3. QED
    BY <2>1, <2>2 DEF Size
<1>2. CASE Drop
  BY <1>2 DEF Drop, Inv, TypeOK, InBounds, Cursor, Size
<1>3. CASE /\ ~(~frame.crc \/ Size < 2) /\ Size - 2 < 2 * n
           /\ pc' = "dropped" /\ extent' = 2
           /\ UNCHANGED <<kind, frame, offset, lengths, handled, answers>>
  BY <1>1, <1>3 DEF Inv, TypeOK, InBounds, Cursor, Size
<1>4. CASE /\ ~(~frame.crc \/ Size < 2) /\ ~(Size - 2 < 2 * n)
           /\ pc' = "requests"
           /\ lengths' = [i \in 1..n |-> U16(frame.data, 2 * i)]
           /\ offset' = 2 + 2 * n /\ extent' = offset'
           /\ UNCHANGED <<kind, frame, handled, answers>>
  <2>1. offset' \in Nat /\ offset' <= Size
    BY <1>1, <1>4
  <2>2. \A i \in 1..n : U16(frame.data, 2 * i) \in Nat
    BY <1>1, U16Nat
  <2>3. lengths' \in Seq(Nat)
    BY <1>1, <1>4, <2>2
  <2>4. QED
    BY <1>4, <2>1, <2>3 DEF Inv, TypeOK, InBounds, Cursor, Size
<1>5. QED
  BY <1>2, <1>3, <1>4 DEF read_lengths

\* The answers are payloads of sizes the handlers write.
LEMMA AnswerTyped ==
  ASSUME NEW op \in Byte, NEW id \in Byte, NEW s \in BodySizes(op)
  PROVE  [op |-> AnswerOp(op), type |-> response, id |-> id,
          body |-> [i \in 1..s |-> 0]] \in Payload
<1>1. s \in Nat
  BY ByteFacts, KernelAssumption DEF BodySizes
<1>2. [i \in 1..s |-> 0] \in Seq(Byte)
  BY <1>1, ByteFacts
<1>3. AnswerOp(op) \in Byte /\ response \in Byte
  BY ByteFacts DEF AnswerOp, op_non_implemented, response
<1>4. QED
  BY <1>2, <1>3 DEF Payload

\* A turn of the loop moves the cursor by a length that was checked.
LEMMA RequestStep ==
  ASSUME Inv, handle_request
  PROVE  Inv'
<1> DEFINE len  == lengths[Len(handled) + 1]
           body == len - HeadSize
           op   == At(frame.data, offset)
           type == At(frame.data, offset + 1)
           id   == At(frame.data, offset + 2)
           row  == [i \in 1..body |-> At(frame.data, offset + HeadSize + i - 1)]
           p    == [op |-> op, type |-> type, id |-> id, body |-> row]
<1>1. /\ frame.data \in Seq(Byte) /\ Size \in Nat /\ offset \in Nat
      /\ offset <= Size
  <2>1. frame.data \in Seq(Byte)
    BY DEF Inv, TypeOK, Frame
  <2>2. QED
    BY <2>1 DEF Inv, TypeOK, Cursor, Size, handle_request
<1>2. len \in Nat
  BY DEF handle_request, Inv, TypeOK
<1>3. CASE Drop
  BY <1>3 DEF Drop, Inv, TypeOK, InBounds, Cursor, Size
<1>4. CASE ~Drop
  <2>1. InFrame(len)
    BY <1>4 DEF handle_request
  <2>2. len <= Size - offset /\ body \in Nat
    BY <1>1, <1>2, <2>1, ByteFacts DEF InFrame
  <2>3. op \in Byte /\ type \in Byte /\ id \in Byte
    BY <1>1, AtByte
  <2>4. \A i \in 1..body : At(frame.data, offset + HeadSize + i - 1) \in Byte
    BY <1>1, <2>2, AtByte, ByteFacts
  <2>5. row \in Seq(Byte)
    BY <2>2, <2>4
  <2>6. handled' = Append(handled, p)
    BY <2>1 DEF handle_request
  <2>7. handled' \in Seq(Payload)
    BY <2>3, <2>5, <2>6 DEF Inv, TypeOK, Payload
  <2>8. answers' \in Seq(Payload)
    <3>1. CASE UNCHANGED answers
      BY <3>1 DEF Inv, TypeOK
    <3>2. ASSUME NEW s \in BodySizes(op),
                 answers' = Append(answers,
                   [op |-> AnswerOp(op), type |-> response, id |-> id,
                    body |-> [i \in 1..s |-> 0]])
          PROVE  answers' \in Seq(Payload)
      <4> DEFINE a == [op |-> AnswerOp(op), type |-> response, id |-> id,
                       body |-> [i \in 1..s |-> 0]]
      <4>1. a \in Payload
        BY <2>3, AnswerTyped
      <4>2. answers \in Seq(Payload)
        BY DEF Inv, TypeOK
      <4>3. answers' = Append(answers, a)
        BY <3>2
      <4> HIDE DEF a
      <4>4. QED
        BY <4>1, <4>2, <4>3
    <3>3. QED
      BY <2>1, <3>1, <3>2 DEF handle_request
  <2>9. offset' = offset + len /\ extent' = offset + len
        /\ UNCHANGED <<pc, kind, frame, lengths>>
    BY <2>1 DEF handle_request
  <2>10. Size' = Size /\ offset' \in Nat /\ offset' <= Size /\ extent' = offset'
    BY <1>1, <1>2, <2>2, <2>9 DEF Size
  <2>11. TypeOK'
    BY <2>7, <2>8, <2>9, <2>10 DEF Inv, TypeOK
  <2>12. QED
    BY <2>10, <2>11 DEF Inv, InBounds, Cursor
<1>5. QED
  BY <1>3, <1>4

LEMMA KernelInvariant == Spec => []Inv
<1>1. Init => Inv
  <2>1. <<>> \in Seq(Byte) /\ <<>> \in Seq(Nat) /\ <<>> \in Seq(Payload)
    OBVIOUS
  <2>2. QED
    BY <2>1 DEF Init, Inv, TypeOK, InBounds, Cursor, Size, Frame
<1>2. Inv /\ [Next]_vars => Inv'
  <2> SUFFICES ASSUME Inv, [Next]_vars PROVE Inv'
    OBVIOUS
  <2>1. CASE receive
    BY <2>1, TakeTyped, KernelAssumption DEF receive, Inv
  <2>2. CASE read_lengths
    BY <2>2, LengthsStep
  <2>3. CASE handle_request
    BY <2>3, RequestStep
  <2>4. CASE finish
    BY <2>4 DEF finish, Inv, TypeOK, InBounds, Cursor, Size
  <2>5. CASE UNCHANGED vars
    BY <2>5 DEF vars, Inv, TypeOK, InBounds, Cursor, Size
  <2>6. QED
    BY <2>1, <2>2, <2>3, <2>4, <2>5 DEF Next, Handle
<1>3. QED
  BY <1>1, <1>2, PTL DEF Spec

\* Every variable of session_kernel::handle stays within its type.
THEOREM TypeCorrect == Spec => []TypeOK
<1>1. Inv => TypeOK
  BY DEF Inv
<1>2. QED
  BY <1>1, KernelInvariant, PTL

\* session_kernel::handle reads no byte beyond the end of a frame, whatever
\* bytes the frame consists of.
THEOREM InBoundsHolds == Spec => []InBounds
<1>1. Inv => InBounds
  BY DEF Inv
<1>2. QED
  BY <1>1, KernelInvariant, PTL

-----------------------------------------------------------------------------
(* What get_data writes.                                                   *)

LEMMA Halves ==
  ASSUME NEW n \in Nat
  PROVE  /\ LE16(n) \in Seq(Byte) /\ Len(LE16(n)) = 2
         /\ n < Base * Base => LE16(n)[1] + Base * LE16(n)[2] = n
<1>1. Base \in Nat \ {0}
  BY CodecAssumption
<1>2. \A m \in Nat : m % Base \in Byte
  BY <1>1 DEF Byte
<1>3. n \div Base \in Nat /\ n = Base * (n \div Base) + (n % Base)
  BY <1>1
<1>4. n % Base \in Byte /\ (n \div Base) % Base \in Byte
  BY <1>2, <1>3
<1>5. ASSUME n < Base * Base PROVE (n \div Base) % Base = n \div Base
  <2>1. n \div Base < Base
    BY <1>1, <1>5
  <2> QED
    BY <1>1, <1>3, <2>1
<1>6. Byte \subseteq Nat
  BY ByteFacts
<1>7. ASSUME n < Base * Base
      PROVE  (n % Base) + Base * ((n \div Base) % Base) = n
  <2>1. PICK low \in Nat, high \in Nat : low = n % Base /\ high = n \div Base
    BY <1>3, <1>4, <1>6
  <2>2. n = Base * high + low /\ (n \div Base) % Base = high
    BY <1>3, <1>5, <1>7, <2>1
  <2>3. low + Base * high = n
    BY <1>1, <2>1, <2>2
  <2> QED
    BY <2>1, <2>2, <2>3
<1>8. LE16(n) = <<n % Base, (n \div Base) % Base>>
  BY DEF LE16
<1>9. LE16(n) \in Seq(Byte) /\ Len(LE16(n)) = 2
  BY <1>4, <1>8
<1>10. LE16(n)[1] = n % Base /\ LE16(n)[2] = (n \div Base) % Base
  BY <1>8
<1> QED
  BY <1>7, <1>9, <1>10

LEMMA BytesOf ==
  ASSUME NEW p \in Payload
  PROVE  /\ Bytes(p) \in Seq(Byte) /\ Len(Bytes(p)) = HeadSize + Len(p.body)
         /\ Len(p.body) \in Nat /\ p.body \in Seq(Byte)
         /\ Bytes(p)[1] = p.op /\ Bytes(p)[2] = p.type /\ Bytes(p)[3] = p.id
         /\ \A i \in 1..Len(p.body) : Bytes(p)[HeadSize + i] = p.body[i]
<1>1. PICK head \in Seq(Byte), id \in Seq(Byte), body \in Seq(Byte) :
        /\ head = <<p.op, p.type>> /\ id = [i \in 1..IdSize |-> p.id] /\ body = p.body
  <2>1. p.op \in Byte /\ p.type \in Byte /\ p.id \in Byte /\ p.body \in Seq(Byte)
    BY DEF Payload
  <2>2. <<p.op, p.type>> \in Seq(Byte)
    BY <2>1
  <2>3. [i \in 1..IdSize |-> p.id] \in Seq(Byte)
    BY <2>1, ByteFacts
  <2> QED
    BY <2>1, <2>2, <2>3
<1>2. /\ Len(head) = 2 /\ head[1] = p.op /\ head[2] = p.type
      /\ Len(id) = IdSize /\ IdSize \in Nat \ {0} /\ \A i \in 1..IdSize : id[i] = p.id
      /\ Len(body) \in Nat
  BY <1>1, CodecAssumption
<1>3. PICK front : front = head \o id
  OBVIOUS
<1>4. /\ front \in Seq(Byte) /\ Len(front) = 2 + IdSize
      /\ \A i \in 1..(2 + IdSize) : front[i] = IF i <= 2 THEN head[i] ELSE id[i - 2]
  <2>1. /\ head \o id \in Seq(Byte) /\ Len(head \o id) = Len(head) + Len(id)
        /\ \A i \in 1..(Len(head) + Len(id)) :
             (head \o id)[i] = IF i <= Len(head) THEN head[i] ELSE id[i - Len(head)]
    BY ConcatProperties
  <2>2. Len(head) = 2 /\ Len(id) = IdSize
    BY <1>2
  <2> QED
    BY <1>3, <2>1, <2>2
<1>5. /\ front[1] = p.op /\ front[2] = p.type /\ front[3] = p.id
  <2>1. 1 \in 1..(2 + IdSize) /\ 2 \in 1..(2 + IdSize) /\ 3 \in 1..(2 + IdSize) /\ 1 \in 1..IdSize
    BY <1>2
  <2> QED
    BY <1>2, <1>4, <2>1
<1>6. Bytes(p) = front \o body
  <2>1. PICK first, second, third :
          first = <<p.op, p.type>> /\ second = [i \in 1..IdSize |-> p.id] /\ third = p.body
    OBVIOUS
  <2> QED
    BY <1>1, <1>3, <2>1 DEF Bytes
<1>7. /\ front \o body \in Seq(Byte) /\ Len(front \o body) = (2 + IdSize) + Len(body)
      /\ \A i \in 1..((2 + IdSize) + Len(body)) :
           (front \o body)[i] = IF i <= 2 + IdSize THEN front[i] ELSE body[i - (2 + IdSize)]
  <2>1. /\ front \o body \in Seq(Byte) /\ Len(front \o body) = Len(front) + Len(body)
        /\ \A i \in 1..(Len(front) + Len(body)) :
             (front \o body)[i] = IF i <= Len(front) THEN front[i] ELSE body[i - Len(front)]
    BY <1>4, ConcatProperties
  <2>2. Len(front) = 2 + IdSize
    BY <1>4
  <2> QED
    BY <2>1, <2>2
<1>8. (front \o body)[1] = p.op /\ (front \o body)[2] = p.type /\ (front \o body)[3] = p.id
  BY <1>2, <1>5, <1>7
<1>9. ASSUME NEW i \in 1..Len(body)
      PROVE  (front \o body)[(2 + IdSize) + i] = body[i]
  <2>1. /\ (2 + IdSize) + i \in 1..((2 + IdSize) + Len(body))
        /\ ~((2 + IdSize) + i <= 2 + IdSize) /\ ((2 + IdSize) + i) - (2 + IdSize) = i
    BY <1>2
  <2> QED
    BY <1>7, <2>1
<1> QED
  BY <1>1, <1>2, <1>6, <1>7, <1>8, <1>9 DEF HeadSize

\* The table of lengths, and where the payloads stand behind it.
Table(ps) == [i \in DOMAIN ps |-> LE16(Len(Bytes(ps[i])))]
Written(ps) == [i \in DOMAIN ps |-> Bytes(ps[i])]

Layout(ps, d, at) ==
  /\ at \in [1..(Len(ps) + 1) -> Nat] /\ at[1] = 2 + 2 * Len(ps)
  /\ \A i \in 1..Len(ps) :
       /\ at[i + 1] = at[i] + Len(Bytes(ps[i]))
       /\ at[i + 1] <= Len(d)
       /\ \A j \in 1..Len(Bytes(ps[i])) : d[at[i] + j] = Bytes(ps[i])[j]

LEMMA TableShape ==
  ASSUME NEW ps \in Seq(Payload), ps # <<>>
  PROVE  /\ FlattenSeq(Table(ps)) \in Seq(Byte)
         /\ Len(FlattenSeq(Table(ps))) = 2 * Len(ps)
         /\ \A i \in 1..Len(ps) : \A j \in 1..2 :
              FlattenSeq(Table(ps))[2 * (i - 1) + j] = LE16(Len(Bytes(ps[i])))[j]
<1>1. PICK n \in Nat \ {0} : n = Len(ps) /\ DOMAIN ps = 1..n
  OBVIOUS
<1>2. ASSUME NEW i \in 1..n
      PROVE  /\ LE16(Len(Bytes(ps[i]))) \in Seq(Byte) /\ Len(LE16(Len(Bytes(ps[i])))) = 2
             /\ Table(ps)[i] = LE16(Len(Bytes(ps[i])))
  <2>1. ps[i] \in Payload
    BY <1>1
  <2>2. Len(Bytes(ps[i])) \in Nat
    BY <2>1, BytesOf, ByteFacts
  <2> QED
    BY <1>1, <2>2, Halves DEF Table
<1>3. PICK table \in [1..n -> Seq(Byte)] : table = Table(ps)
  BY <1>1, <1>2 DEF Table
<1>4. PICK flat : flat = FlattenSeq(table)
  OBVIOUS
<1>5. flat \in Seq(Byte) /\ \E at : Places(at, table, n, 0, flat)
  BY <1>4, Flattened
<1>6. PICK at \in [1..(n + 1) -> Nat] :
        /\ at[1] = 0 /\ at[n + 1] = Len(flat)
        /\ \A i \in 1..n : /\ at[i + 1] = at[i] + Len(table[i])
                          /\ at[i + 1] <= Len(flat)
                          /\ \A j \in 1..Len(table[i]) : flat[at[i] + j] = table[i][j]
  BY <1>5 DEF Places
<1>7. \A i \in 1..n : Len(table[i]) = 2
  BY <1>2, <1>3
<1> DEFINE P == {m \in 1..(n + 1) : at[m] = 2 * (m - 1)}
<1>8. 1..(n + 1) \subseteq P
  <2>1. 1 \in P
    BY <1>6
  <2>2. ASSUME NEW m \in 1..((n + 1) - 1), m \in P PROVE m + 1 \in P
    <3>1. m \in 1..n /\ m + 1 \in 1..(n + 1)
      OBVIOUS
    <3>2. at[m + 1] = at[m] + 2 /\ at[m] = 2 * (m - 1)
      BY <1>6, <1>7, <2>2, <3>1
    <3> QED
      BY <3>1, <3>2
  <2>3. P \in SUBSET Nat /\ n + 1 \in Nat
    OBVIOUS
  <2>4. PICK k \in Nat : k = n + 1
    BY <2>3
  <2> HIDE DEF P
  <2>5. \A m \in 1..(k - 1) : m \in P => m + 1 \in P
    BY <2>2, <2>4
  <2>6. 1..k \subseteq P
    BY <2>1, <2>3, <2>5, Reaching
  <2> QED
    BY <2>4, <2>6
<1>9. \A i \in 1..(n + 1) : at[i] = 2 * (i - 1)
  BY <1>8
<1>10. Len(flat) = 2 * n
  <2>1. n + 1 \in 1..(n + 1)
    OBVIOUS
  <2> QED
    BY <1>6, <1>9, <2>1
<1>11. \A i \in 1..n : \A j \in 1..2 : flat[2 * (i - 1) + j] = LE16(Len(Bytes(ps[i])))[j]
  <2> SUFFICES ASSUME NEW i \in 1..n, NEW j \in 1..2
               PROVE  flat[2 * (i - 1) + j] = LE16(Len(Bytes(ps[i])))[j]
    OBVIOUS
  <2>1. i \in 1..(n + 1)
    OBVIOUS
  <2>2. at[i] = 2 * (i - 1) /\ flat[at[i] + j] = table[i][j]
    BY <1>6, <1>7, <1>9, <2>1
  <2> QED
    BY <1>2, <1>3, <2>2
<1> QED
  BY <1>1, <1>3, <1>4, <1>5, <1>10, <1>11

\* The bytes of a frame: the number of payloads, the table, the payloads.
LEMMA Laid ==
  ASSUME NEW ps \in Seq(Payload), ps # <<>>
  PROVE  /\ get_data(ps) \in Seq(Byte) /\ Len(get_data(ps)) >= 2 + 2 * Len(ps)
         /\ \E at : Layout(ps, get_data(ps), at)
         /\ \A j \in 1..2 : get_data(ps)[j] = LE16(Len(ps))[j]
         /\ \A i \in 1..Len(ps) : \A j \in 1..2 :
              get_data(ps)[2 * i + j] = LE16(Len(Bytes(ps[i])))[j]
<1>1. PICK n \in Nat \ {0} : n = Len(ps) /\ DOMAIN ps = 1..n
  OBVIOUS
<1>2. PICK b \in [1..n -> Seq(Byte)] : b = Written(ps) /\ \A i \in 1..n : b[i] = Bytes(ps[i])
  <2>1. \A i \in 1..n : Bytes(ps[i]) \in Seq(Byte)
    BY <1>1, BytesOf
  <2>2. Written(ps) = [i \in 1..n |-> Bytes(ps[i])]
    BY <1>1 DEF Written
  <2>3. [i \in 1..n |-> Bytes(ps[i])] \in [1..n -> Seq(Byte)]
    BY <2>1
  <2> QED
    BY <2>2, <2>3
<1>3. PICK table, body : table = FlattenSeq(Table(ps)) /\ body = FlattenSeq(b)
  OBVIOUS
<1>4. body \in Seq(Byte) /\ \E off : Places(off, b, n, 0, body)
  BY <1>3, Flattened
<1>5. Len(body) \in Nat
  BY <1>4
<1>6. /\ table \in Seq(Byte) /\ Len(table) = 2 * n
      /\ \A i \in 1..n : \A j \in 1..2 : table[2 * (i - 1) + j] = LE16(Len(Bytes(ps[i])))[j]
  BY <1>1, <1>3, TableShape
<1>7. PICK count \in Seq(Byte) : count = LE16(Len(ps)) /\ Len(count) = 2
  BY <1>1, Halves
<1>8. PICK data : data = get_data(ps)
  OBVIOUS
<1>9. data = (count \o table) \o body
  <2>1. Table(ps) = [i \in DOMAIN b |-> LE16(Len(b[i]))]
    BY <1>1, <1>2 DEF Table
  <2>2. get_data(ps) = (LE16(Len(ps)) \o FlattenSeq([i \in DOMAIN b |-> LE16(Len(b[i]))]))
                         \o FlattenSeq(b)
    BY <1>2 DEF get_data, Written
  <2> QED
    BY <1>3, <1>7, <1>8, <2>1, <2>2
<1>10. PICK front : front = count \o table
  OBVIOUS
<1>11. /\ front \in Seq(Byte) /\ Len(front) = 2 + 2 * n
       /\ \A j \in 1..(2 + 2 * n) : front[j] = IF j <= 2 THEN count[j] ELSE table[j - 2]
  <2>1. /\ count \o table \in Seq(Byte) /\ Len(count \o table) = Len(count) + Len(table)
        /\ \A j \in 1..(Len(count) + Len(table)) :
             (count \o table)[j] = IF j <= Len(count) THEN count[j] ELSE table[j - Len(count)]
    BY <1>6, ConcatProperties
  <2> QED
    BY <1>6, <1>7, <1>10, <2>1
<1>12. /\ data \in Seq(Byte) /\ Len(data) = (2 + 2 * n) + Len(body) /\ Len(body) \in Nat
       /\ \A j \in 1..((2 + 2 * n) + Len(body)) :
            data[j] = IF j <= 2 + 2 * n THEN front[j] ELSE body[j - (2 + 2 * n)]
  <2>1. /\ front \o body \in Seq(Byte) /\ Len(front \o body) = Len(front) + Len(body)
        /\ \A j \in 1..(Len(front) + Len(body)) :
             (front \o body)[j] = IF j <= Len(front) THEN front[j] ELSE body[j - Len(front)]
    BY <1>4, <1>11, ConcatProperties
  <2>2. data = front \o body /\ Len(front) = 2 + 2 * n /\ Len(body) \in Nat
    BY <1>4, <1>9, <1>10, <1>11
  <2> QED
    BY <2>1, <2>2
<1>13. \A j \in 1..2 : data[j] = count[j]
  <2>1. \A j \in 1..2 : /\ j \in 1..(2 + 2 * n) /\ j \in 1..((2 + 2 * n) + Len(body))
                       /\ j <= 2 /\ j <= 2 + 2 * n
    BY <1>1, <1>5
  <2> QED
    BY <1>11, <1>12, <2>1
<1>14. \A i \in 1..n : \A j \in 1..2 : data[2 * i + j] = table[2 * (i - 1) + j]
  <2> SUFFICES ASSUME NEW i \in 1..n, NEW j \in 1..2
               PROVE  data[2 * i + j] = table[2 * (i - 1) + j]
    OBVIOUS
  <2>1. /\ 2 * i + j \in 1..(2 + 2 * n) /\ 2 * i + j \in 1..((2 + 2 * n) + Len(body))
        /\ 2 * i + j <= 2 + 2 * n /\ ~(2 * i + j <= 2)
        /\ (2 * i + j) - 2 = 2 * (i - 1) + j
    BY <1>1, <1>5
  <2> QED
    BY <1>11, <1>12, <2>1
<1>15. PICK at : Places(at, b, n, Len(front), data)
  <2>1. data = front \o body
    BY <1>9, <1>10
  <2> QED
    BY <1>4, <1>11, <2>1, Behind
<1>16. Layout(ps, data, at)
  <2>1. /\ at \in [1..(n + 1) -> Nat] /\ at[1] = 2 + 2 * n
        /\ \A i \in 1..n : /\ at[i + 1] = at[i] + Len(b[i]) /\ at[i + 1] <= Len(data)
                          /\ \A j \in 1..Len(b[i]) : data[at[i] + j] = b[i][j]
    BY <1>11, <1>15 DEF Places
  <2>2. \A i \in 1..n : /\ at[i + 1] = at[i] + Len(Bytes(ps[i]))
                       /\ at[i + 1] <= Len(data)
                       /\ \A j \in 1..Len(Bytes(ps[i])) : data[at[i] + j] = Bytes(ps[i])[j]
    <3> SUFFICES ASSUME NEW i \in 1..n
                 PROVE  /\ at[i + 1] = at[i] + Len(Bytes(ps[i]))
                        /\ at[i + 1] <= Len(data)
                        /\ \A j \in 1..Len(Bytes(ps[i])) : data[at[i] + j] = Bytes(ps[i])[j]
      OBVIOUS
    <3>1. b[i] = Bytes(ps[i])
      BY <1>2
    <3> QED
      BY <2>1, <3>1
  <2> QED
    BY <1>1, <2>1, <2>2 DEF Layout
<1> QED
  BY <1>1, <1>6, <1>7, <1>8, <1>12, <1>13, <1>14, <1>16

-----------------------------------------------------------------------------
(* What the kernel reads back.                                             *)

LEMMA AtIndex ==
  ASSUME NEW d \in Seq(Byte), NEW o \in Nat, o < Len(d)
  PROVE  At(d, o) = d[o + 1]
BY DEF At

LEMMA TableRead ==
  ASSUME NEW ps \in Seq(Payload), ps # <<>>, Len(ps) < Base * Base
  PROVE  /\ U16(get_data(ps), 0) = Len(ps)
         /\ Fits(ps) => \A i \in 1..Len(ps) :
                           U16(get_data(ps), 2 * i) = Len(Bytes(ps[i]))
<1>1. PICK d \in Seq(Byte) : d = get_data(ps)
  BY Laid
<1>2. PICK n \in Nat \ {0} : n = Len(ps) /\ DOMAIN ps = 1..n
  OBVIOUS
<1>3. /\ Len(d) >= 2 + 2 * n /\ Len(d) \in Nat
      /\ \A j \in 1..2 : d[j] = LE16(n)[j]
      /\ \A i \in 1..n : \A j \in 1..2 : d[2 * i + j] = LE16(Len(Bytes(ps[i])))[j]
  <2>1. /\ Len(get_data(ps)) >= 2 + 2 * Len(ps)
        /\ \A j \in 1..2 : get_data(ps)[j] = LE16(Len(ps))[j]
        /\ \A i \in 1..Len(ps) : \A j \in 1..2 :
             get_data(ps)[2 * i + j] = LE16(Len(Bytes(ps[i])))[j]
    BY Laid
  <2> QED
    BY <1>1, <1>2, <2>1
<1>4. U16(d, 0) = n
  <2>1. At(d, 0) = d[1] /\ At(d, 0 + 1) = d[2]
    BY <1>2, <1>3, AtIndex
  <2>2. d[1] = LE16(n)[1] /\ d[2] = LE16(n)[2]
    BY <1>3
  <2> QED
    BY <1>2, <2>1, <2>2, Halves DEF U16
<1>5. ASSUME Fits(ps), NEW i \in 1..n PROVE U16(d, 2 * i) = Len(Bytes(ps[i]))
  <2>1. 2 * i \in Nat /\ 2 * i + 1 \in Nat /\ 2 * i < Len(d) /\ 2 * i + 1 < Len(d)
    BY <1>2, <1>3
  <2>2. At(d, 2 * i) = d[2 * i + 1] /\ At(d, 2 * i + 1) = d[(2 * i + 1) + 1]
    BY <2>1, AtIndex
  <2>3. (2 * i + 1) + 1 = 2 * i + 2
    OBVIOUS
  <2>4. PICK len : len = Len(Bytes(ps[i]))
    OBVIOUS
  <2>5. len \in Nat /\ len < Base * Base
    <3>1. ps[i] \in Payload
      BY <1>2
    <3>2. len \in Nat
      BY <2>4, <3>1, BytesOf, ByteFacts
    <3> QED
      BY <1>2, <1>5, <2>4, <3>2 DEF Fits
  <2>6. d[2 * i + 1] = LE16(len)[1] /\ d[2 * i + 2] = LE16(len)[2]
    BY <1>3, <2>4
  <2> QED
    BY <2>2, <2>3, <2>4, <2>5, <2>6, Halves DEF U16
<1> QED
  BY <1>1, <1>2, <1>4, <1>5

\* A payload is read as it was written, and ends where the next one starts.
LEMMA PayloadRead ==
  ASSUME NEW ps \in Seq(Payload), NEW d \in Seq(Byte), NEW at, Layout(ps, d, at),
         NEW i \in 1..Len(ps), NEW len, len = Len(Bytes(ps[i]))
  PROVE  /\ at[i] \in Nat /\ at[i + 1] = at[i] + len
         /\ HeadSize <= len /\ len <= Len(d) - at[i] /\ len - HeadSize \in Nat
         /\ At(d, at[i]) = ps[i].op /\ At(d, at[i] + 1) = ps[i].type
         /\ At(d, at[i] + 2) = ps[i].id
         /\ [k \in 1..(len - HeadSize) |-> At(d, at[i] + HeadSize + k - 1)] = ps[i].body
<1>1. PICK p \in Payload : p = ps[i]
  OBVIOUS
<1>2. PICK o \in Nat : o = at[i]
  <2>1. i \in 1..(Len(ps) + 1)
    OBVIOUS
  <2> QED
    BY <2>1 DEF Layout
<1>3. /\ len = HeadSize + Len(p.body) /\ Len(p.body) \in Nat /\ p.body \in Seq(Byte)
      /\ Bytes(p)[1] = p.op /\ Bytes(p)[2] = p.type /\ Bytes(p)[3] = p.id
      /\ \A k \in 1..Len(p.body) : Bytes(p)[HeadSize + k] = p.body[k]
  BY <1>1, BytesOf
<1>4. HeadSize \in Nat /\ HeadSize >= 3
  BY CodecAssumption DEF HeadSize
<1>5. /\ at[i + 1] = o + len /\ at[i + 1] <= Len(d)
      /\ \A j \in 1..len : d[o + j] = Bytes(p)[j]
  BY <1>1, <1>2 DEF Layout
<1>6. len \in Nat /\ Len(d) \in Nat /\ o + len <= Len(d) /\ len - HeadSize = Len(p.body)
  BY <1>3, <1>4, <1>5
<1>7. ASSUME NEW j \in 1..len PROVE At(d, o + j - 1) = Bytes(p)[j]
  <2>1. o + j - 1 \in Nat /\ o + j - 1 < Len(d) /\ (o + j - 1) + 1 = o + j
    BY <1>6
  <2> QED
    BY <1>5, <2>1, AtIndex
<1>8. At(d, o) = p.op /\ At(d, o + 1) = p.type /\ At(d, o + 2) = p.id
  <2>1. /\ 1 \in 1..len /\ 2 \in 1..len /\ 3 \in 1..len
        /\ o + 1 - 1 = o /\ o + 2 - 1 = o + 1 /\ o + 3 - 1 = o + 2
    BY <1>3, <1>4
  <2> QED
    BY <1>3, <1>7, <2>1
<1>9. ASSUME NEW k \in 1..Len(p.body) PROVE At(d, o + HeadSize + k - 1) = p.body[k]
  <2>1. HeadSize + k \in 1..len /\ o + (HeadSize + k) - 1 = o + HeadSize + k - 1
    BY <1>3, <1>4
  <2> QED
    BY <1>3, <1>7, <2>1
<1>10. [k \in 1..(len - HeadSize) |-> At(d, o + HeadSize + k - 1)] = p.body
  <2>1. p.body = [k \in 1..Len(p.body) |-> p.body[k]]
    BY <1>3
  <2> QED
    BY <1>6, <1>9, <2>1
<1> QED
  <2>1. /\ at[i] \in Nat /\ at[i + 1] = at[i] + len
        /\ HeadSize <= len /\ len <= Len(d) - at[i] /\ len - HeadSize \in Nat
    <3>1. HeadSize <= len /\ len - HeadSize \in Nat
      BY <1>3, <1>4
    <3>2. len <= Len(d) - o
      BY <1>6
    <3> QED
      BY <1>2, <1>5, <3>1, <3>2
  <2>2. At(d, at[i]) = ps[i].op /\ At(d, at[i] + 1) = ps[i].type /\ At(d, at[i] + 2) = ps[i].id
    BY <1>1, <1>2, <1>8
  <2>3. [k \in 1..(len - HeadSize) |-> At(d, at[i] + HeadSize + k - 1)] = ps[i].body
    BY <1>1, <1>2, <1>10
  <2> QED
    BY <2>1, <2>2, <2>3

LEMMA U16Bound ==
  ASSUME NEW d \in Seq(Byte), NEW o \in Nat
  PROVE  U16(d, o) \in Nat /\ U16(d, o) < Base * Base
<1>1. PICK a \in 0..(Base - 1), b \in 0..(Base - 1) : a = At(d, o) /\ b = At(d, o + 1)
  BY AtByte DEF Byte
<1>2. Base \in Nat
  BY CodecAssumption
<1>3. Base * b <= Base * (Base - 1)
  BY <1>2
<1>4. a + Base * b < Base * Base
  BY <1>2, <1>3
<1> QED
  BY <1>1, <1>4, U16Nat DEF U16

-----------------------------------------------------------------------------
(* What was written is read back, and answers are not answered.            *)

\* The kernel has come as far in the frame as in the batch it was built from.
Reads ==
  batch # <<>> =>
    /\ batch \in Seq(Payload) /\ Len(batch) < Base * Base
    /\ frame = Sealed(batch)
    /\ Fits(batch) =>
         /\ pc # "dropped"
         /\ pc \in {"requests", "done"} =>
              /\ Len(lengths) = Len(batch) /\ Len(handled) <= Len(batch)
              /\ \A i \in 1..Len(batch) : lengths[i] = Len(Bytes(batch[i]))
              /\ \A i \in 1..Len(handled) : handled[i] = batch[i]
         /\ pc = "requests" =>
              \E at : Layout(batch, frame.data, at) /\ offset = at[Len(handled) + 1]
         /\ pc = "done" => Len(handled) = Len(batch)

\* Answers have the type of a response, and there are no more than requests; a
\* batch of answers gets none.
Replies ==
  /\ \A i \in DOMAIN answers : answers[i].type = response
  /\ Len(answers) <= Len(handled) /\ Len(handled) <= Len(lengths)
  /\ Len(lengths) < Base * Base
  /\ pc = "frame" => handled = <<>> /\ answers = <<>>
  /\ pc = "idle" => batch = <<>> /\ ~answering
  /\ answering => /\ kind = "tcp" /\ batch # <<>>
                  /\ \A i \in DOMAIN batch : batch[i].type = response
                  /\ Fits(batch) => answers = <<>>

CInv == Inv /\ Reads /\ Replies

\* A batch is taken up.
LEMMA TakesUp ==
  ASSUME CInv, NEW f \in Frame, Take(f),
         batch' # <<>> => /\ batch' \in Seq(Payload) /\ Len(batch') < Base * Base
                          /\ f = Sealed(batch'),
         answering' => /\ kind = "tcp" /\ batch' # <<>>
                       /\ \A i \in DOMAIN batch' : batch'[i].type = response
  PROVE  CInv'
<1>1. Inv'
  BY TakeTyped DEF CInv, Inv
<1>2. Reads'
  BY DEF Reads, Take
<1>3. Base * Base > 0
  BY CodecAssumption
<1>4. Replies'
  BY <1>3 DEF Replies, Take
<1> QED
  BY <1>1, <1>2, <1>4 DEF CInv

LEMMA Begins ==
  ASSUME CInv, begin
  PROVE  CInv'
<1>1. PICK f \in Frames : Take(f)
  BY DEF begin, receive
<1>2. f \in Frame /\ f = frame'
  BY <1>1, KernelAssumption DEF Take
<1>3. ~answering /\ answering' = answering
  BY DEF begin, CInv, Replies
<1>4. ASSUME batch' # <<>>
      PROVE  batch' \in Seq(Payload) /\ Len(batch') < Base * Base /\ f = Sealed(batch')
  <2>1. batch' = IF \E ps \in Batches : Sealed(ps) = frame'
                   THEN CHOOSE ps \in Batches : Sealed(ps) = frame' ELSE <<>>
    BY DEF begin
  <2>2. batch' \in Batches /\ Sealed(batch') = frame'
    BY <1>4, <2>1
  <2> QED
    BY <1>2, <2>2, ConversationAssumption
<1> QED
  BY <1>1, <1>2, <1>3, <1>4, TakesUp

LEMMA RepliesStep ==
  ASSUME CInv, reply
  PROVE  CInv'
<1>1. /\ Take(Sealed(answers)) /\ batch' = answers /\ answering' = TRUE
      /\ kind = "tcp" /\ answers # <<>>
  BY DEF reply
<1>2. /\ answers \in Seq(Payload) /\ handled \in Seq(Payload) /\ lengths \in Seq(Nat)
      /\ Base * Base \in Nat
  BY CodecAssumption DEF CInv, Inv, TypeOK
<1>3. Len(answers) < Base * Base
  BY <1>2 DEF CInv, Replies
<1>4. Sealed(answers) \in Frame
  BY <1>1, <1>2, Laid DEF Sealed, Frame
<1>5. \A i \in DOMAIN answers : answers[i].type = response
  BY DEF CInv, Replies
<1> QED
  BY <1>1, <1>2, <1>3, <1>4, <1>5, TakesUp

LEMMA LengthsRead ==
  ASSUME CInv, read_lengths, UNCHANGED <<batch, answering>>
  PROVE  CInv'
<1> DEFINE n == U16(frame.data, 0)
<1>1. Inv'
  BY LengthsStep DEF CInv
<1>2. /\ pc = "frame" /\ handled = <<>> /\ answers = <<>> /\ frame.data \in Seq(Byte)
      /\ n \in Nat /\ n < Base * Base
  <2>1. frame.data \in Seq(Byte)
    BY DEF CInv, Inv, TypeOK, Frame
  <2> QED
    BY <2>1, U16Bound DEF CInv, Replies, read_lengths
<1>3. UNCHANGED <<kind, frame, handled, answers>> /\ pc' \in {"dropped", "requests"}
  BY DEF read_lengths, Drop
<1>4. Len(lengths') < Base * Base /\ Len(lengths') \in Nat
  <2>1. lengths' = lengths \/ lengths' = [i \in 1..n |-> U16(frame.data, 2 * i)]
    BY DEF read_lengths, Drop
  <2>2. lengths' = [i \in 1..n |-> U16(frame.data, 2 * i)] => Len(lengths') = n
    BY <1>2
  <2>3. lengths \in Seq(Nat) /\ Len(lengths) < Base * Base
    BY DEF CInv, Inv, TypeOK, Replies
  <2> QED
    BY <1>2, <2>1, <2>2, <2>3
<1>5. Replies'
  <2>1. Len(handled') = 0 /\ Len(answers') = 0
    BY <1>2, <1>3
  <2> QED
    BY <1>2, <1>3, <1>4, <2>1 DEF CInv, Replies
<1>6. ASSUME batch # <<>>, Fits(batch)
      PROVE  /\ pc' = "requests" /\ Len(lengths') = Len(batch)
             /\ \A i \in 1..Len(batch) : lengths'[i] = Len(Bytes(batch[i]))
             /\ \E at : Layout(batch, frame.data, at) /\ offset' = at[1]
  <2>1. /\ batch \in Seq(Payload) /\ Len(batch) < Base * Base /\ frame.crc
        /\ frame.data = get_data(batch)
    BY <1>6 DEF CInv, Reads, Sealed
  <2>2. /\ n = Len(batch) /\ Size >= 2 + 2 * Len(batch) /\ Size \in Nat
        /\ \A i \in 1..Len(batch) : U16(frame.data, 2 * i) = Len(Bytes(batch[i]))
        /\ \E at : Layout(batch, frame.data, at)
    <3>1. Size \in Nat
      BY <1>2 DEF Size
    <3>2. Size >= 2 + 2 * Len(batch) /\ \E at : Layout(batch, frame.data, at)
      BY <1>6, <2>1, Laid DEF Size
    <3> QED
      BY <1>6, <2>1, <3>1, <3>2, TableRead
  <2>3. ~(~frame.crc \/ Size < 2) /\ ~(Size - 2 < 2 * n)
    BY <1>2, <2>1, <2>2
  <2>4. /\ pc' = "requests" /\ lengths' = [i \in 1..n |-> U16(frame.data, 2 * i)]
        /\ offset' = 2 + 2 * n
    BY <2>3 DEF read_lengths
  <2>5. Len(lengths') = Len(batch)
    BY <1>2, <2>2, <2>4
  <2>6. \A i \in 1..Len(batch) : lengths'[i] = Len(Bytes(batch[i]))
    BY <2>2, <2>4
  <2>7. \E at : Layout(batch, frame.data, at) /\ offset' = at[1]
    BY <2>2, <2>4 DEF Layout
  <2> QED
    BY <2>4, <2>5, <2>6, <2>7
<1>7. Reads'
  <2> SUFFICES ASSUME batch # <<>> PROVE Reads'
    BY DEF Reads
  <2>1. batch \in Seq(Payload) /\ Len(batch) < Base * Base /\ frame' = Sealed(batch)
    BY <1>3 DEF CInv, Reads
  <2>2. Len(handled') = 0 /\ Len(batch) \in Nat /\ 0 <= Len(batch) /\ 0 + 1 = 1
    BY <1>2, <1>3, <2>1
  <2> QED
    BY <1>3, <1>6, <2>1, <2>2 DEF Reads
<1> QED
  BY <1>1, <1>5, <1>7 DEF CInv

LEMMA Unanswered ==
  ASSUME kind = "tcp", NEW op, NEW size
  PROVE  ~Answered(op, response, size)
BY DEF Answered, request, response, identify, join, leave, discovery

\* A turn of the loop on a batch: its next payload is handled.
LEMMA TurnRead ==
  ASSUME CInv, handle_request, batch # <<>>, Fits(batch)
  PROVE  LET i == Len(handled) + 1
         IN  /\ i \in 1..Len(batch) /\ pc' = "requests"
             /\ handled' = Append(handled, batch[i])
             /\ \E at : Layout(batch, frame.data, at) /\ offset' = at[i + 1]
             /\ kind = "tcp" /\ batch[i].type = response => answers' = answers
<1>1. PICK i : i = Len(handled) + 1
  OBVIOUS
<1>2. /\ batch \in Seq(Payload) /\ Len(lengths) = Len(batch) /\ pc = "requests"
      /\ \A j \in 1..Len(batch) : lengths[j] = Len(Bytes(batch[j]))
      /\ frame.data \in Seq(Byte) /\ handled \in Seq(Payload)
      /\ Len(handled) < Len(lengths)
  BY DEF CInv, Inv, TypeOK, Frame, Reads, handle_request
<1>3. i \in 1..Len(batch) /\ lengths[i] = Len(Bytes(batch[i]))
  BY <1>1, <1>2
<1>4. PICK at : Layout(batch, frame.data, at) /\ offset = at[i]
  BY <1>1, <1>2 DEF CInv, Reads
<1>5. PICK len : len = lengths[i]
  OBVIOUS
<1>6. PICK p \in Payload : p = batch[i]
  BY <1>2, <1>3
<1>7. /\ offset \in Nat /\ at[i + 1] = offset + len
      /\ HeadSize <= len /\ len <= Size - offset /\ len - HeadSize \in Nat
      /\ At(frame.data, offset) = p.op /\ At(frame.data, offset + 1) = p.type
      /\ At(frame.data, offset + 2) = p.id
      /\ [k \in 1..(len - HeadSize) |-> At(frame.data, offset + HeadSize + k - 1)] = p.body
  BY <1>2, <1>3, <1>4, <1>5, <1>6, PayloadRead DEF Size
<1>8. InFrame(len)
  BY <1>7 DEF InFrame
<1>9. p = [op |-> p.op, type |-> p.type, id |-> p.id, body |-> p.body]
  BY DEF Payload
<1>10. /\ handled' = Append(handled, p)
       /\ offset' = offset + len /\ pc' = pc
       /\ \/ Answered(p.op, p.type, len - HeadSize)
          \/ answers' = answers
  BY <1>1, <1>5, <1>7, <1>8, <1>9 DEF handle_request
<1>11. kind = "tcp" /\ p.type = response => answers' = answers
  BY <1>10, Unanswered
<1>12. \E a : Layout(batch, frame.data, a) /\ offset' = a[i + 1]
  BY <1>4, <1>7, <1>10
<1> QED
  BY <1>1, <1>2, <1>3, <1>6, <1>10, <1>11, <1>12

LEMMA RequestRead ==
  ASSUME CInv, handle_request, UNCHANGED <<batch, answering>>
  PROVE  CInv'
<1>1. Inv'
  BY RequestStep DEF CInv
<1>2. /\ UNCHANGED <<kind, frame, lengths>> /\ pc = "requests" /\ pc' \in {"requests", "dropped"}
      /\ handled \in Seq(Payload) /\ answers \in Seq(Payload) /\ lengths \in Seq(Nat)
      /\ Len(handled) < Len(lengths)
  BY DEF CInv, Inv, TypeOK, handle_request, Drop
<1>3. \/ handled' = handled /\ answers' = answers
      \/ /\ \E p : handled' = Append(handled, p)
         /\ answers' = answers \/ \E a : a.type = response /\ answers' = Append(answers, a)
  <2>1. CASE Drop
    BY <2>1 DEF Drop
  <2>2. CASE ~Drop
    <3>1. \E p : handled' = Append(handled, p)
      BY <2>2 DEF handle_request
    <3>2. answers' = answers \/ \E a : a.type = response /\ answers' = Append(answers, a)
      <4>1. PICK op, id :
              op = At(frame.data, offset) /\ id = At(frame.data, offset + 2)
        OBVIOUS
      <4>2. \/ answers' = answers
            \/ \E s \in BodySizes(op) :
                 answers' = Append(answers, [op |-> AnswerOp(op), type |-> response,
                                             id |-> id, body |-> [i \in 1..s |-> 0]])
        BY <2>2, <4>1 DEF handle_request
      <4>3. \A x, y, z : [op |-> x, type |-> response, id |-> y, body |-> z].type = response
        OBVIOUS
      <4> QED
        BY <4>2, <4>3
    <3> QED
      BY <3>1, <3>2
  <2> QED
    BY <2>1, <2>2
<1>4. /\ \A i \in DOMAIN answers' : answers'[i].type = response
      /\ Len(answers') <= Len(handled') /\ Len(handled') <= Len(lengths)
  <2>1. /\ \A i \in DOMAIN answers : answers[i].type = response
        /\ Len(answers) <= Len(handled)
    BY DEF CInv, Replies
  <2>2. /\ Len(answers') \in {Len(answers), Len(answers) + 1}
        /\ Len(answers') = Len(answers) + 1 => Len(handled') = Len(handled) + 1
        /\ Len(handled') \in {Len(handled), Len(handled) + 1}
    BY <1>2, <1>3
  <2>3. \A i \in DOMAIN answers' : answers'[i].type = response
    <3>1. CASE answers' = answers
      BY <2>1, <3>1
    <3>2. ASSUME NEW a, a.type = response, answers' = Append(answers, a)
          PROVE  \A i \in DOMAIN answers' : answers'[i].type = response
      <4>1. PICK n \in Nat : n = Len(answers) /\ DOMAIN answers = 1..n
        BY <1>2
      <4>2. /\ DOMAIN answers' = 1..(n + 1) /\ answers'[n + 1] = a
            /\ \A i \in 1..n : answers'[i] = answers[i]
        BY <1>2, <3>2, <4>1
      <4>3. \A i \in 1..(n + 1) : i \in 1..n \/ i = n + 1
        BY <4>1
      <4> QED
        BY <2>1, <3>2, <4>1, <4>2, <4>3
    <3> QED
      BY <1>3, <3>1, <3>2
  <2> QED
    BY <1>2, <2>1, <2>2, <2>3
<1>5. Replies'
  <2>1. ASSUME answering, Fits(batch) PROVE answers' = <<>>
    <3>1. /\ kind = "tcp" /\ batch # <<>> /\ answers = <<>>
          /\ \A i \in DOMAIN batch : batch[i].type = response
      BY <2>1 DEF CInv, Replies
    <3>2. batch \in Seq(Payload)
      BY <3>1 DEF CInv, Reads
    <3> QED
      BY <2>1, <3>1, <3>2, TurnRead
  <2> QED
    BY <1>2, <1>4, <2>1 DEF CInv, Replies
<1>6. Reads'
  <2> SUFFICES ASSUME batch # <<>> PROVE Reads'
    BY DEF Reads
  <2>1. batch \in Seq(Payload) /\ Len(batch) < Base * Base /\ frame' = Sealed(batch)
    BY <1>2 DEF CInv, Reads
  <2>2. ASSUME Fits(batch)
        PROVE  /\ pc' = "requests" /\ Len(lengths') = Len(batch) /\ Len(handled') <= Len(batch)
               /\ \A i \in 1..Len(batch) : lengths'[i] = Len(Bytes(batch[i]))
               /\ \A i \in 1..Len(handled') : handled'[i] = batch[i]
               /\ \E at : Layout(batch, frame.data, at) /\ offset' = at[Len(handled') + 1]
    <3>1. PICK i : i = Len(handled) + 1
      OBVIOUS
    <3>2. /\ i \in 1..Len(batch) /\ pc' = "requests" /\ handled' = Append(handled, batch[i])
          /\ \E at : Layout(batch, frame.data, at) /\ offset' = at[i + 1]
      BY <2>2, <3>1, TurnRead
    <3>3. /\ Len(lengths) = Len(batch)
          /\ \A j \in 1..Len(batch) : lengths[j] = Len(Bytes(batch[j]))
          /\ \A j \in 1..Len(handled) : handled[j] = batch[j]
      BY <1>2, <2>2 DEF CInv, Reads
    <3>4. Len(handled') = i /\ \A j \in 1..i : handled'[j] = batch[j]
      BY <1>2, <3>1, <3>2, <3>3
    <3> QED
      BY <1>2, <3>2, <3>3, <3>4
  <2> QED
    BY <1>2, <2>1, <2>2 DEF Reads
<1> QED
  BY <1>1, <1>5, <1>6 DEF CInv

LEMMA Finishes ==
  ASSUME CInv, finish, UNCHANGED <<batch, answering>>
  PROVE  CInv'
<1>1. /\ pc = "requests" /\ pc' = "done" /\ Len(handled) = Len(lengths)
      /\ UNCHANGED <<kind, frame, offset, lengths, handled, answers, extent>>
  BY DEF finish
<1>2. Inv'
  BY <1>1 DEF CInv, Inv, TypeOK, InBounds, Cursor, Size
<1>3. Reads'
  BY <1>1 DEF CInv, Reads
<1>4. Replies'
  BY <1>1 DEF CInv, Replies
<1> QED
  BY <1>2, <1>3, <1>4 DEF CInv

LEMMA ConversationInvariant == CSpec => []CInv
<1>1. CInit => CInv
  <2>1. CInit => Inv
    <3>1. <<>> \in Seq(Byte) /\ <<>> \in Seq(Nat) /\ <<>> \in Seq(Payload)
      OBVIOUS
    <3> QED
      BY <3>1 DEF CInit, Init, Inv, TypeOK, InBounds, Cursor, Size, Frame
  <2>2. Base * Base > 0
    BY CodecAssumption
  <2>3. CInit => Reads /\ Replies
    BY <2>2 DEF CInit, Init, Reads, Replies
  <2> QED
    BY <2>1, <2>3 DEF CInv
<1>2. CInv /\ [CNext]_cvars => CInv'
  <2> SUFFICES ASSUME CInv, [CNext]_cvars PROVE CInv'
    OBVIOUS
  <2>1. CASE begin
    BY <2>1, Begins
  <2>2. CASE Handle /\ UNCHANGED <<batch, answering>>
    BY <2>2, LengthsRead, RequestRead, Finishes DEF Handle
  <2>3. CASE reply
    BY <2>3, RepliesStep
  <2>4. CASE UNCHANGED cvars
    BY <2>4 DEF cvars, vars, CInv, Inv, TypeOK, InBounds, Cursor, Size, Reads, Replies
  <2> QED
    BY <2>1, <2>2, <2>3, <2>4 DEF CNext
<1> QED
  BY <1>1, <1>2, PTL DEF CSpec

\* The kernel of the other end hands every batch that get_data can build, of payloads
\* of any op code, type and size below 2^16, to the handlers as it was (RoundTrip).
THEOREM RoundTripHolds == CSpec => []RoundTrip
<1>1. CInv => RoundTrip
  <2> SUFFICES ASSUME CInv, batch # <<>>, Fits(batch)
               PROVE  pc # "dropped" /\ (pc = "done" => handled = batch)
    BY DEF RoundTrip
  <2>1. pc # "dropped"
    BY DEF CInv, Reads
  <2>2. ASSUME pc = "done" PROVE handled = batch
    <3>1. handled \in Seq(Payload) /\ batch \in Seq(Payload)
      BY DEF CInv, Inv, TypeOK, Reads
    <3>2. Len(handled) = Len(batch) /\ \A i \in 1..Len(handled) : handled[i] = batch[i]
      BY <2>2 DEF CInv, Reads
    <3> QED
      BY <3>1, <3>2, SeqEqual
  <2> QED
    BY <2>1, <2>2
<1> QED
  BY <1>1, ConversationInvariant, PTL

\* No kernel answers the answers of another, however many and whatever requests
\* they answer (NoAnswerToAnswer).
THEOREM NoAnswerToAnswerHolds == CSpec => []NoAnswerToAnswer
<1>1. CInv => NoAnswerToAnswer
  BY DEF CInv, Replies, NoAnswerToAnswer
<1> QED
  BY <1>1, ConversationInvariant, PTL

\* It reads no byte beyond the end of an answer either (InBounds).
THEOREM InBoundsOfAnswers == CSpec => []InBounds
<1>1. CInv => InBounds
  BY DEF CInv, Inv
<1> QED
  BY <1>1, ConversationInvariant, PTL
================================================================================
