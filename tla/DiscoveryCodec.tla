--------------------------- MODULE DiscoveryCodec ---------------------------
(***************************************************************************)
(* The list of nodes in a discovery answer: what add_discovery writes, and *)
(* what the discovery handler of the node that asked reads.                *)
(***************************************************************************)
EXTENDS FrameCodec

LE32(n) == LE16(n) \o LE16(n \div (Base * Base))

\* add_discovery: the number of nodes, a port and a size for each, then hosts.
add_discovery(ns) ==
  LE32(Len(ns))
    \o FlattenSeq([i \in DOMAIN ns |-> LE16(ns[i].port) \o LE16(Len(ns[i].host))])
    \o FlattenSeq([i \in DOMAIN ns |-> ns[i].host])

U32(s, o) == U16(s, o) + Base * Base * U16(s, o + 2)

\* The handler's loop: a port, a size and a host, until the count or the
\* payload is used up; it calls state::connect for each (unless connected).
read_nodes(payload) ==
  LET size == Len(payload)
      count == IF size < 4 THEN 0 ELSE U32(payload, 0)
      from[k \in 0..count, o \in 4..(size + 4)] ==
        LET host == U16(payload, o + 2)
        IN  IF k = count \/ o + 4 > size \/ o + 4 + host > size THEN <<>>
            ELSE <<[host |-> SubSeq(payload, o + 5, o + 4 + host),
                    port |-> U16(payload, o)]>>
                 \o from[k + 1, o + 4 + host]
  IN  from[0, 4]

=============================================================================
