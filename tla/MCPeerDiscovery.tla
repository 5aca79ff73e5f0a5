--------------------------- MODULE MCPeerDiscovery ---------------------------
(* Small instances of PeerDiscovery for TLC.                               *)
EXTENDS PeerDiscovery

CONSTANTS hub, na, nb, nc, ca, cb, cc

\* na, nb and nc connect to hub.
FromLeaf == [call \in Call |-> CASE call = ca -> na [] call = cb -> nb [] OTHER -> nc]
ToHub    == [call \in Call |-> hub]
Single   == [call \in Call |-> 1]

\* nb asks for two connections.
Double   == [call \in Call |-> IF call = cb THEN 2 ELSE 1]

(***************************************************************************)
(* Heard against the codec, for every list of up to three entries: a host  *)
(* of nine bytes, like "127.0.0.1", and bytes no size in a list reaches.   *)
(***************************************************************************)
Codec == INSTANCE DiscoveryCodec WITH Base <- 8, IdSize <- 1

Bytes   == [i \in 1..9 |-> 7]
Number  == [p \in Node \union {NoPort} |-> CASE p = NoPort -> 0 [] p = na -> 1
                                             [] p = nb -> 2 [] OTHER -> 3]
Written == {"", "local"} \X {NoPort, na, nb}
Encode(address) == [host |-> IF address[1] = "" THEN <<>> ELSE Bytes,
                    port |-> Number[address[2]]]
Decode(node) == <<IF node.host = <<>> THEN ""
                  ELSE IF node.host = Bytes THEN "local"
                  ELSE IF Head(node.host) = 0 THEN "nul" ELSE "junk",
                  CHOOSE p \in {NoPort, na, nb} : Number[p] = node.port>>

ASSUME CodecAgrees ==
  \A addresses \in UNION {[1..n -> Written] : n \in 0..3} :
    LET read == Codec!read_nodes(Codec!add_discovery([i \in DOMAIN addresses |->
                                                        Encode(addresses[i])]))
    IN  [i \in DOMAIN read |-> Decode(read[i])] = Heard(addresses)

\* An identify request says the id, the number of connections, the port, announced
\* or not, and the host that state::connect gives it.
Builder == INSTANCE RequestBuilder WITH Base <- 8, IdSize <- 1

ASSUME IdentifyAgrees ==
  \A n \in 1..3, connections \in 0..2 : \A port \in {0, n} :
    Builder!read_identify(Builder!add_identify(n, connections, 1, port, Bytes).body)
      = [node_id |-> n, connections |-> connections, port |-> port, host |-> Bytes]
=============================================================================
