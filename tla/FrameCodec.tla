----------------------------- MODULE FrameCodec -----------------------------
(***************************************************************************)
(* Frames as bytes: what base_builder::get_data writes and the reads with  *)
(* which session_kernel::handle takes a frame apart.  The four bytes of    *)
(* length before a TCP frame belong to the session that reads them; the    *)
(* checksum behind it is one bit here, whether it fits.                    *)
(***************************************************************************)
EXTENDS Naturals, SequencesExt

CONSTANTS
  Base,       \* values of a byte; 256 in the code
  IdSize      \* bytes of a uuid; 16 in the code

ASSUME CodecAssumption ==
  /\ Base \in Nat \ (0..6)     \* the op codes fit
  /\ IdSize \in Nat \ {0}

Byte == 0..(Base - 1)

\* message_type and op_code.
request  == 0
response == 1

op_non_implemented == 0
ping == 1   identify == 2   discovery == 3   join == 4   leave == 5   whoami == 6

\* A payload: op code, type, transaction id, and what the handler is given.
Payload == [op : Byte, type : Byte, id : Byte, body : Seq(Byte)]

HeadSize == 2 + IdSize

\* Faulty variant: the upper byte is whatever remains.
LE16_Whole(n) == <<n % Base, n \div Base>>

\* A 16-bit integer, the lower byte first; more than 16 bits are cut off.
LE16(n) == <<n % Base, (n \div Base) % Base>>

\* The byte at offset o (from 0); beyond the end, whatever is there.
At(s, o) == IF o + 1 \in DOMAIN s THEN s[o + 1] ELSE 0

\* Faulty variant: the bytes are read as they come.
U16_BigEndian(s, o) == Base * At(s, o) + At(s, o + 1)

U16(s, o) == At(s, o) + Base * At(s, o + 1)

\* How every payload is written: an id stands for its IdSize bytes.
Bytes(p) == <<p.op, p.type>> \o [i \in 1..IdSize |-> p.id] \o p.body

\* get_data: the number of payloads, their lengths, the payloads.
get_data(ps) ==
  LET b == [i \in DOMAIN ps |-> Bytes(ps[i])]
  IN  IF ps = <<>> THEN <<>>
      ELSE LE16(Len(ps))
             \o FlattenSeq([i \in DOMAIN b |-> LE16(Len(b[i]))])
             \o FlattenSeq(b)

Frame == [data : Seq(Byte), crc : BOOLEAN]

\* What is sent for a batch of payloads.
Sealed(ps) == [data |-> get_data(ps), crc |-> TRUE]

\* Every length fits into its 16 bits.
Fits(ps) == \A i \in DOMAIN ps : Len(Bytes(ps[i])) < Base * Base
=============================================================================
