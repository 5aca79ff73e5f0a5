--------------------------- MODULE RequestBuilder ---------------------------
(***************************************************************************)
(* The payloads of requests: what each function of request_builder writes, *)
(* and what the identify handler reads of the only one with a structure.   *)
(***************************************************************************)
EXTENDS FrameCodec

LOCAL Request(op, id, body) == [op |-> op, type |-> request, id |-> id, body |-> body]

\* The bytes of a uuid that is not a transaction's.
LOCAL Uuid(n) == [i \in 1..IdSize |-> n]

add_ping(id)   == Request(ping, id, <<>>)
add_whoami(id) == Request(whoami, id, <<>>)

add_join(websocket_id, id)  == Request(join, id, Uuid(websocket_id))
add_leave(websocket_id, id) == Request(leave, id, Uuid(websocket_id))

\* A discovery request; that of the response builder is in DiscoveryCodec.
request_discovery(id) == Request(discovery, id, <<>>)

\* The port and the host come last, unless both are missing.
add_identify(node_id, connections, id, port, host) ==
  Request(identify, id,
    Uuid(node_id) \o LE16(connections)
      \o IF port # 0 \/ host # <<>> THEN LE16(port) \o host ELSE <<>>)

\* The identify handler, of a request with a whole id: without port and host it
\* leaves those of the session alone and posts no connections.
read_identify(payload) ==
  LET whole == Len(payload) >= IdSize + 4
  IN  [node_id     |-> At(payload, 0),
       connections |-> IF whole THEN U16(payload, IdSize) ELSE 0,
       port        |-> IF whole THEN U16(payload, IdSize + 2) ELSE 0,
       host        |-> IF whole THEN SubSeq(payload, IdSize + 5, Len(payload)) ELSE <<>>]
=============================================================================
