---------------------------- MODULE MCConversation ----------------------------
(* Small instances of Conversation for TLC.                                *)
EXTENDS Conversation, RequestBuilder

P(op, type, size) == [op |-> op, type |-> type, id |-> 7 - op,
                      body |-> [i \in 1..size |-> 2]]

\* The requests a node and a client send, ...
Requests == {add_ping(6), request_discovery(4), add_whoami(1), add_join(2, 3),
             add_leave(2, 2), add_identify(1, 2, 5, 3, <<2, 2>>), add_identify(1, 0, 5, 0, <<>>)}

\* ... answers, and payloads of another size or op code than these.
Payloads == Requests \union {P(op, type, size) : op \in {ping, identify, discovery, join, 7},
                                                type \in {request, response},
                                                size \in {0, IdSize}}

\* One and two payloads of every sort, and one of the greatest length.
SmallBatches == {<<p>> : p \in Payloads}
                  \union {<<p, q>> : p \in Payloads, q \in Payloads}
                  \union {<<P(whoami, request, Base * Base - 1 - HeadSize),
                            P(leave, request, IdSize)>>}

\* Frames no builder writes: cut short, or with one byte changed, under a good
\* checksum; or under a bad one.
Sample == get_data(<<P(ping, request, 0), P(whoami, request, 1)>>)
Cut    == {SubSeq(Sample, 1, n) : n \in 0..(Len(Sample) - 1)}
Changed == {[Sample EXCEPT ![i] = b] : i \in DOMAIN Sample, b \in Byte}

SmallFrames == {Sealed(ps) : ps \in SmallBatches}
                 \union [data : Cut \union Changed, crc : {TRUE}]
                 \union {[data |-> Sample, crc |-> FALSE]}
=============================================================================
