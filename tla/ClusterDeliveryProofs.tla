------------------------ MODULE ClusterDeliveryProofs ------------------------
(***************************************************************************)
(* Joins and leaves arrive: what ClusterPresence promises as long as       *)
(* nobody calls disconnect or disconnect_all, for any nodes, links,        *)
(* clients and failures.                                                   *)
(***************************************************************************)
EXTENDS ClusterPresenceProofs

-----------------------------------------------------------------------------
(* The strengthening for joins.                                            *)

\* A join was sent over a link that its node had registered, and by a client
\* whose handshake was over.
ToldLinks ==
  \A w \in Ws, l \in Link : ToldOver(w, l) =>
    /\ Home[w] \in Ends(l) /\ client[w] \in {"open", "closed"}
    /\ l \in connected /\ (Home[w] = Acceptor[l] => l \in accepted)
    /\ Registered(Home[w], <<"tcp", l>>) \/ l \in broken

\* Frames about a client are its own node's.
FramesTold ==
  \A n \in Node, l \in Link, w \in Ws :
    /\ In(<<"join", w>>, n, l) => ToldOver(w, l) /\ n = Peer(Home[w], l)
    /\ In(<<"leave", w>>, n, l) => client[w] = "closed"

HomeHolds ==
  \A w \in Ws : client[w] \in {"handshake", "open"} => Registered(Home[w], <<"ws", w>>)

Told == /\ \A n \in Node : purge[n] = {}
        /\ ToldLinks /\ FramesTold /\ HomeHolds

\* What a step may do to keep it.
LEMMA ToldFrom ==
  ASSUME Told, UNCHANGED purge, connected \subseteq connected',
         \A w \in Ws, l \in Link : ToldOver(w, l) => ToldOver(w, l)',
         accepted \subseteq accepted', broken \subseteq broken',
         \A w \in Ws : /\ client[w] \in {"open", "closed"} => client'[w] \in {"open", "closed"}
                       /\ client[w] = "closed" => client'[w] = "closed",
         \A w \in Ws, l \in Link : ToldOver(w, l)' =>
           \/ ToldOver(w, l)
           \/ /\ Home[w] \in Ends(l) /\ client'[w] = "open"
              /\ l \in connected' /\ (Home[w] = Acceptor[l] => l \in accepted')
              /\ Registered(Home[w], <<"tcp", l>>)',
         \A n \in Node, l \in Link : Registered(n, <<"tcp", l>>) =>
           Registered(n, <<"tcp", l>>)' \/ l \in broken',
         \A n \in Node, l \in Link, w \in Ws : In(<<"join", w>>, n, l)' =>
           In(<<"join", w>>, n, l) \/ (ToldOver(w, l)' /\ n = Peer(Home[w], l)),
         \A n \in Node, l \in Link, w \in Ws : In(<<"leave", w>>, n, l)' =>
           In(<<"leave", w>>, n, l) \/ client'[w] = "closed",
         HomeHolds'
  PROVE  Told'
<1> USE DEF Told
<1>1. ToldLinks'
  <2> SUFFICES ASSUME NEW w \in Ws, NEW l \in Link, ToldOver(w, l)'
               PROVE  /\ Home[w] \in Ends(l) /\ client'[w] \in {"open", "closed"}
                      /\ l \in connected' /\ (Home[w] = Acceptor[l] => l \in accepted')
                      /\ Registered(Home[w], <<"tcp", l>>)' \/ l \in broken'
    BY DEF ToldLinks, Ends
  <2>1. CASE ToldOver(w, l)
    <3>1. Home[w] \in Node
      BY ConstantsAssumption
    <3>2. QED
      BY <2>1, <3>1 DEF ToldLinks
  <2>2. CASE ~ToldOver(w, l)
    BY <2>2
  <2>3. QED
    BY <2>1, <2>2
<1>2. FramesTold'
  <2> SUFFICES ASSUME NEW n \in Node, NEW l \in Link, NEW w \in Ws
               PROVE  /\ In(<<"join", w>>, n, l)' => ToldOver(w, l)' /\ n = Peer(Home[w], l)
                      /\ In(<<"leave", w>>, n, l)' => client'[w] = "closed"
    BY DEF FramesTold, Peer
  <2>1. QED
    BY DEF FramesTold
<1>3. QED
  BY <1>1, <1>2

\* disconnect and disconnect_all are counted, and once nobody has called them
\* there is nothing to purge.
LEMMA QuietStep ==
  ASSUME TypeOK, calls' = 0, [Next]_vars
  PROVE  /\ calls = 0
         /\ \A n \in Node : ~disconnect_all(n) /\ \A k \in Node : ~disconnect(n, k)
<1>1. calls \in Nat
  BY ConstantsAssumption DEF TypeOK
<1>2. \A n \in Node : ~disconnect_all(n) /\ \A k \in Node : ~disconnect(n, k)
  BY <1>1 DEF disconnect_all, disconnect, Call
<1>3. calls' = calls
  BY <1>2 DEF Next, vars, budgets, receive, connect, greet, accept, break, receive_identify,
     receive_identified, receive_join, receive_leave, on_error, accept_client, on_accept,
     close_client, purge_next, crash
<1>4. QED
  BY <1>2, <1>3

\* What the history says after a broadcast.
LEMMA ToldByAccept ==
  ASSUME TypeOK, NEW w \in Ws, on_accept(w)
  PROVE  \A v \in Ws, l \in Link :
           LET new == v = w /\ l \in Targets(Home[w], reg[Home[w]]) \ broken
           IN  /\ \A k : <<v, l, k>> \in told' <=>
                     <<v, l, k>> \in told \/ (new /\ k = known[Home[w]][l])
               /\ ToldOver(v, l)' <=> ToldOver(v, l) \/ new
<1> SUFFICES ASSUME NEW v \in Ws, NEW l \in Link
             PROVE  LET new == v = w /\ l \in Targets(Home[w], reg[Home[w]]) \ broken
                    IN  /\ \A k : <<v, l, k>> \in told' <=>
                              <<v, l, k>> \in told \/ (new /\ k = known[Home[w]][l])
                        /\ ToldOver(v, l)' <=> ToldOver(v, l) \/ new
  OBVIOUS
<1> DEFINE new == v = w /\ l \in Targets(Home[w], reg[Home[w]]) \ broken
<1>1. \A k : <<v, l, k>> \in told' <=>
        <<v, l, k>> \in told \/ (new /\ k = known[Home[w]][l])
  BY DEF on_accept
<1>2. known[Home[w]][l] \in Node \union {Nil}
  BY ConstantsAssumption DEF TypeOK
<1>3. ToldOver(v, l)' <=> ToldOver(v, l) \/ new
  BY <1>1, <1>2 DEF ToldOver
<1>4. QED
  BY <1>1, <1>3

LEMMA ToldInit == Init => Told
<1> SUFFICES ASSUME Init PROVE Told
  OBVIOUS
<1>1. \A n \in Node : reg[n] = <<>> /\ purge[n] = {} /\ \A l \in Link : chan[n][l] = <<>>
  BY DEF Init
<1>2. ToSet(<<>>) = {}
  BY DEF ToSet
<1>3. told = {} /\ \A w \in Ws : client[w] = "new"
  BY DEF Init
<1>4. QED
  BY <1>1, <1>2, <1>3 DEF Told, ToldLinks, ToldOver, FramesTold, HomeHolds, Registered, In

LEMMA ToldStep ==
  ASSUME TypeOK, Membership, Told, calls' = 0, [Next]_vars
  PROVE  Told'
<1> USE ConstantsAssumption DEF links, budgets
<1>a. NoDuplicates /\ HomeHolds
  BY DEF Membership, Told
<1>b. /\ \A w \in Ws : <<"join", w>> \in Frame /\ <<"leave", w>> \in Frame
      /\ \A n \in Node : <<"identify", n>> \in Frame /\ <<"identified", n>> \in Frame
      /\ \A l \in Link : <<"tcp", l>> \in Entry
      /\ \A w \in Ws : <<"ws", w>> \in Entry /\ Home[w] \in Node
  BY DEF Frame, Entry
<1>c. \A l \in Link : Opener[l] \in Node /\ Acceptor[l] \in Node /\ Opener[l] # Acceptor[l]
  OBVIOUS
<1>d. ASSUME UNCHANGED reg
      PROVE  \A m \in Node : \A g : Registered(m, g)' <=> Registered(m, g)
  BY <1>d DEF Registered
<1>e. ASSUME UNCHANGED chan
      PROVE  \A m \in Node, k \in Link : \A g : In(g, m, k)' <=> In(g, m, k)
  BY <1>e DEF In
<1>t. ASSUME UNCHANGED told
      PROVE  \A w \in Ws, l \in Link : ToldOver(w, l)' <=> ToldOver(w, l)
  BY <1>t DEF ToldOver
<1>f. ASSUME \A w \in Ws : client'[w] \in {"handshake", "open"} => client[w] \in {"handshake", "open"},
             \A w \in Ws : client'[w] \in {"handshake", "open"} /\ Registered(Home[w], <<"ws", w>>) =>
               Registered(Home[w], <<"ws", w>>)'
      PROVE  HomeHolds'
  <2> SUFFICES ASSUME NEW w \in Ws, client'[w] \in {"handshake", "open"}
               PROVE  Registered(Home[w], <<"ws", w>>)'
    BY DEF HomeHolds
  <2>1. QED
    BY <1>f, <1>a DEF HomeHolds
<1>1. ASSUME NEW l \in Link, connect(l) PROVE Told'
  <2>1. ~Registered(Opener[l], <<"tcp", l>>)
    BY <1>1, <1>c DEF connect, Membership, TypeOK
  <2>2. \A m \in Node : \A g :
          Registered(m, g)' <=> Registered(m, g) \/ (m = Opener[l] /\ g = <<"tcp", l>>)
    BY <1>1, <1>a, <1>b, <1>c, <2>1, RegisterEntry DEF connect
  <2>3. HomeHolds'
    BY <1>1, <1>b, <1>f, <2>2 DEF connect
  <2>4. QED
    BY <1>1, <2>2, <2>3, <1>e, <1>t, ToldFrom DEF connect
<1>2. ASSUME NEW l \in Link, greet(l) PROVE Told'
  <2>1. \A m \in Node, k \in Link : \A g :
          In(g, m, k)' <=> In(g, m, k) \/ (g = <<"identify", Opener[l]>>
                                           /\ k \in {l} \ broken /\ m = Peer(Opener[l], k))
    <3>1. Opener[l] \in Node /\ <<"identify", Opener[l]>> \in Frame
      BY <1>b, <1>c
    <3>2. chan' = Sent(Opener[l], {l}, <<"identify", Opener[l]>>)
      BY <1>2 DEF greet
    <3>3. QED
      BY <3>1, <3>2, SendFrame
  <2>2. HomeHolds'
    BY <1>2, <1>b, <1>d, <1>f DEF greet
  <2>3. QED
    BY <1>2, <1>d, <2>1, <2>2, <1>t, ToldFrom DEF greet
<1>3. ASSUME NEW l \in Link, accept(l) PROVE Told'
  <2>1. ~Registered(Acceptor[l], <<"tcp", l>>)
    BY <1>3, <1>c DEF accept, Membership
  <2>2. \A m \in Node : \A g :
          Registered(m, g)' <=> Registered(m, g) \/ (m = Acceptor[l] /\ g = <<"tcp", l>>)
    BY <1>3, <1>a, <1>b, <1>c, <2>1, RegisterEntry DEF accept
  <2>3. HomeHolds'
    BY <1>3, <1>b, <1>f, <2>2 DEF accept
  <2>4. QED
    BY <1>3, <2>2, <2>3, <1>e, <1>t, ToldFrom DEF accept
<1>4. ASSUME NEW l \in Link, break(l) PROVE Told'
  <2>1. HomeHolds'
    BY <1>4, <1>b, <1>d, <1>f DEF break
  <2>2. QED
    BY <1>4, <1>d, <1>e, <2>1, <1>t, ToldFrom DEF break
<1>5. ASSUME NEW n \in Node, NEW l \in Link, receive_identify(n, l) PROVE Told'
  <2>1. \A m \in Node, k \in Link : \A w \in Ws :
          /\ In(<<"join", w>>, m, k)' => In(<<"join", w>>, m, k)
          /\ In(<<"leave", w>>, m, k)' => In(<<"leave", w>>, m, k)
    BY <1>5, AnswerFrame
  <2>2. HomeHolds'
    BY <1>5, <1>b, <1>d, <1>f DEF receive_identify
  <2>3. QED
    BY <1>5, <1>d, <2>1, <2>2, <1>t, ToldFrom DEF receive_identify
<1>6. ASSUME NEW n \in Node, NEW l \in Link, receive_identified(n, l) PROVE Told'
  <2>1. \A m \in Node, k \in Link : \A g : In(g, m, k)' => In(g, m, k)
    BY <1>6, ConsumeFrames DEF receive_identified
  <2>2. HomeHolds'
    BY <1>6, <1>b, <1>d, <1>f DEF receive_identified
  <2>3. QED
    BY <1>6, <1>d, <2>1, <2>2, <1>t, ToldFrom DEF receive_identified
<1>7. ASSUME NEW n \in Node, NEW l \in Link, receive_join(n, l) PROVE Told'
  <2>1. /\ \A m \in Node, k \in Link : \A g : In(g, m, k)' => In(g, m, k)
        /\ In(Head(chan[n][l]), n, l) /\ Head(chan[n][l]) \in Frame
    BY <1>7, ConsumeFrames DEF receive_join
  <2>2. PICK w \in Ws : Head(chan[n][l]) = <<"join", w>>
    BY <1>7, <2>1 DEF receive_join, Frame
  <2>3. \A m \in Node : \A g :
          /\ Registered(m, g) => Registered(m, g)'
          /\ Registered(m, g)' => Registered(m, g) \/ (m = n /\ g = <<"ws", w>>)
    <3>1. CASE Joins(n, l, w)
      <4>1. Insert(n, <<"ws", w>>) /\ ~Registered(n, <<"ws", w>>)
        BY <1>7, <2>2, <3>1 DEF receive_join, Joins
      <4>2. QED
        BY <4>1, <1>a, <1>b, RegisterEntry
    <3>2. CASE ~Joins(n, l, w)
      <4>1. UNCHANGED reg
        BY <1>7, <2>2, <3>2 DEF receive_join
      <4>2. QED
        BY <4>1, <1>d
    <3>3. QED
      BY <3>1, <3>2
  <2>4. HomeHolds'
    BY <1>7, <1>b, <1>f, <2>3 DEF receive_join
  <2>5. QED
    BY <1>7, <2>1, <2>2, <2>3, <2>4, <1>t, ToldFrom DEF receive_join
<1>8. ASSUME NEW n \in Node, NEW l \in Link, receive_leave(n, l) PROVE Told'
  <2>1. /\ \A m \in Node, k \in Link : \A g : In(g, m, k)' => In(g, m, k)
        /\ In(Head(chan[n][l]), n, l) /\ Head(chan[n][l]) \in Frame
    BY <1>8, ConsumeFrames DEF receive_leave
  <2>2. PICK w \in Ws : Head(chan[n][l]) = <<"leave", w>>
    BY <1>8, <2>1 DEF receive_leave, Frame
  <2>3. client[w] = "closed"
    <3>1. In(<<"leave", w>>, n, l)
      BY <2>1, <2>2
    <3>2. QED
      BY <3>1 DEF Told, FramesTold
  <2>4. \A m \in Node : \A g :
          Registered(m, g)' <=> Registered(m, g) /\ ~(m = n /\ g = <<"ws", w>>)
    <3>1. reg' = [reg EXCEPT ![n] = Without(@, <<"ws", w>>)]
      <4>1. reg' = [reg EXCEPT ![n] = Erased(n, Head(chan[n][l])[2])]
        BY <1>8 DEF receive_leave
      <4>2. Head(chan[n][l])[2] = w
        BY <2>2
      <4>3. QED
        BY <4>1, <4>2 DEF Erased
    <3>2. QED
      BY <3>1, <1>a, EraseEntry
  <2>5. HomeHolds'
    BY <1>8, <1>b, <1>f, <2>3, <2>4 DEF receive_leave
  <2>6. QED
    BY <1>8, <2>1, <2>4, <2>5, <1>t, ToldFrom DEF receive_leave
<1>9. ASSUME NEW n \in Node, NEW l \in Link, on_error(n, l) PROVE Told'
  <2>1. \A m \in Node, k \in Link : \A g : In(g, m, k)' => In(g, m, k)
    BY <1>9, ClearFrames DEF on_error
  <2>2. \A m \in Node : \A g :
          Registered(m, g)' <=> Registered(m, g) /\ ~(m = n /\ g = <<"tcp", l>>)
    BY <1>9, <1>a, EraseEntry DEF on_error
  <2>3. HomeHolds'
    BY <1>9, <1>b, <1>f, <2>2 DEF on_error
  <2>4. QED
    BY <1>9, <2>1, <2>2, <2>3, <1>t, ToldFrom DEF on_error
<1>10. ASSUME NEW w \in Ws, accept_client(w) PROVE Told'
  <2>1. ~Registered(Home[w], <<"ws", w>>)
    BY <1>10 DEF accept_client, Membership
  <2>2. \A m \in Node : \A g :
          Registered(m, g)' <=> Registered(m, g) \/ (m = Home[w] /\ g = <<"ws", w>>)
    BY <1>10, <1>a, <1>b, <2>1, RegisterEntry DEF accept_client
  <2>3. \A v \in Ws : client'[v] = IF v = w THEN "handshake" ELSE client[v]
    BY <1>10 DEF accept_client, TypeOK
  <2>4. HomeHolds'
    BY <1>a, <1>b, <2>2, <2>3 DEF HomeHolds
  <2>5. client[w] = "new" /\ UNCHANGED <<purge, told, connected, accepted, broken, chan>>
    BY <1>10 DEF accept_client
  <2>6. QED
    BY <2>2, <2>3, <2>4, <2>5, <1>e, <1>t, ToldFrom
<1>11. ASSUME NEW w \in Ws, on_accept(w) PROVE Told'
  <2>1. /\ client[w] = "handshake" /\ UNCHANGED <<purge, connected, accepted, broken, reg>>
        /\ \A v \in Ws : client'[v] = IF v = w THEN "open" ELSE client[v]
    BY <1>11 DEF on_accept, TypeOK
  <2>2. PICK T : T = Targets(Home[w], reg[Home[w]])
    OBVIOUS
  <2>3. chan' = Sent(Home[w], T, <<"join", w>>)
    BY <1>11, <2>2 DEF on_accept
  <2>4. \A l \in T : l \in Link /\ Registered(Home[w], <<"tcp", l>>)
    BY <2>2, <1>b, TargetLinks DEF Registered, TypeOK
  <2>5. \A l \in T : /\ Home[w] \in Ends(l) /\ l \in connected
                     /\ Home[w] = Acceptor[l] => l \in accepted
    <3> TAKE l \in T
    <3>1. l \in Link /\ Registered(Home[w], <<"tcp", l>>) /\ Home[w] \in Node
      BY <2>4, <1>b
    <3>2. \/ Home[w] = Opener[l] /\ l \in connected
          \/ Home[w] = Acceptor[l] /\ l \in accepted
      BY <3>1 DEF Membership
    <3>3. accepted \subseteq connected
      BY DEF TypeOK
    <3>4. QED
      BY <3>1, <3>2, <3>3, <1>c DEF Ends
  <2>6. \A m \in Node, k \in Link : \A g :
          In(g, m, k)' <=>
            In(g, m, k) \/ (g = <<"join", w>> /\ k \in T \ broken /\ m = Peer(Home[w], k))
    <3>1. Home[w] \in Node /\ <<"join", w>> \in Frame
      BY <1>b
    <3>2. chan' = Sent(Home[w], T, <<"join", w>>)
      BY <2>3
    <3>3. QED
      BY <3>1, <3>2, SendFrame
  <2>7. HomeHolds'
    BY <1>b, <1>d, <1>f, <2>1
  <2>8. \A v \in Ws, l \in Link :
          ToldOver(v, l)' <=> ToldOver(v, l) \/ (v = w /\ l \in T \ broken)
    BY <1>11, <2>2, ToldByAccept
  <2>9. QED
    BY <1>d, <2>1, <2>4, <2>5, <2>6, <2>7, <2>8, ToldFrom
<1>12. ASSUME NEW w \in Ws, close_client(w) PROVE Told'
  <2>1. /\ client[w] \in {"handshake", "open"}
        /\ UNCHANGED <<purge, told, connected, accepted, broken>>
        /\ \A v \in Ws : client'[v] = IF v = w THEN "closed" ELSE client[v]
    BY <1>12 DEF close_client, TypeOK
  <2>2. \A m \in Node : \A g :
          Registered(m, g)' <=> Registered(m, g) /\ ~(m = Home[w] /\ g = <<"ws", w>>)
    BY <1>12, <1>a, <1>b, EraseEntry DEF close_client
  <2>3. \A m \in Node, k \in Link : \A g : In(g, m, k)' => In(g, m, k) \/ g = <<"leave", w>>
    <3>1. Home[w] \in Node /\ <<"leave", w>> \in Frame
      BY <1>b
    <3>2. \/ UNCHANGED chan
          \/ chan' = Sent(Home[w], Targets(Home[w], Without(reg[Home[w]], <<"ws", w>>)),
                          <<"leave", w>>)
      BY <1>12 DEF close_client
    <3>3. QED
      BY <3>1, <3>2, <1>e, SendFrame
  <2>4. HomeHolds'
    BY <1>b, <1>f, <2>1, <2>2
  <2>5. QED
    BY <2>1, <2>2, <2>3, <2>4, <1>t, ToldFrom
<1>13. ASSUME NEW n \in Node, crash(n) PROVE Told'
  <2>1. /\ UNCHANGED <<purge, told, connected, accepted, reg, chan>> /\ broken \subseteq broken'
        /\ \A w \in Ws : client'[w] = IF Home[w] = n THEN "closed" ELSE client[w]
    BY <1>13 DEF crash
  <2>2. HomeHolds'
    BY <1>b, <1>d, <1>f, <2>1
  <2>3. QED
    BY <1>d, <1>e, <2>1, <2>2, <1>t, ToldFrom
<1>14. CASE UNCHANGED vars
  <2>1. HomeHolds'
    BY <1>14, <1>b, <1>d, <1>f DEF vars
  <2>2. QED
    BY <1>14, <1>d, <1>e, <2>1, <1>t, ToldFrom DEF vars
<1>15. \A n \in Node : purge[n] = {}
  BY DEF Told
<1>16. QED
  BY <1>1, <1>2, <1>3, <1>4, <1>5, <1>6, <1>7, <1>8, <1>9, <1>10, <1>11, <1>12, <1>13, <1>14,
     <1>15, QuietStep DEF Next, receive

-----------------------------------------------------------------------------
(* Joins.                                                                  *)

\* What a step may do to keep JoinTakesEffect: drop a frame only on a broken link,
\* and a proxy only for a client that has closed.
LEMMA JoinFrom ==
  ASSUME ToldLinks, FramesTold, JoinTakesEffect,
         lost \subseteq lost', broken \subseteq broken', crashed \subseteq crashed',
         \A w \in Ws, l \in Link : ToldOver(w, l)' /\ client'[w] = "open" =>
           \/ ToldOver(w, l) /\ client[w] = "open"
           \/ In(<<"join", w>>, Peer(Home[w], l), l)',
         \A n \in Node, w \in Ws : Registered(n, <<"ws", w>>) /\ client'[w] = "open" =>
           Registered(n, <<"ws", w>>)',
         \A n \in Node, l \in Link, w \in Ws : In(<<"join", w>>, n, l) =>
           In(<<"join", w>>, n, l)' \/ Registered(n, <<"ws", w>>)' \/ l \in broken'
  PROVE  JoinTakesEffect'
<1> SUFFICES ASSUME NEW w \in Ws, NEW l \in Link, ToldOver(w, l)', client'[w] = "open",
                    NEW n, n = Peer(Home[w], l)
             PROVE  \/ Registered(n, <<"ws", w>>)'
                    \/ \E k \in Link : In(<<"join", w>>, n, k)'
                    \/ <<n, Home[w]>> \in lost'
                    \/ \E k \in broken' : Ends(k) = {n, Home[w]}
                    \/ n \in crashed'
  BY DEF JoinTakesEffect, OnItsWay, Severed, In, Peer, Ends
<1>1. CASE In(<<"join", w>>, Peer(Home[w], l), l)'
  BY <1>1
<1>2. CASE ToldOver(w, l) /\ client[w] = "open"
  <2>1. Home[w] \in Ends(l) /\ n \in Node
    BY <1>2, PeerFacts DEF ToldLinks
  <2>2. \/ Registered(n, <<"ws", w>>) \/ \E k \in Link : In(<<"join", w>>, n, k)
        \/ <<n, Home[w]>> \in lost \/ (\E k \in broken : Ends(k) = {n, Home[w]})
        \/ n \in crashed
    BY <1>2 DEF JoinTakesEffect, OnItsWay, Severed, In
  <2>3. CASE \E k \in Link : In(<<"join", w>>, n, k)
    <3>1. PICK k \in Link : In(<<"join", w>>, n, k)
      BY <2>3
    <3>2. ToldOver(w, k) /\ n = Peer(Home[w], k)
      BY <2>1, <3>1 DEF FramesTold
    <3>3. Ends(k) = {n, Home[w]}
      <4>1. Home[w] \in Ends(k)
        BY <3>2 DEF ToldLinks
      <4>2. Ends(k) = {Home[w], Peer(Home[w], k)}
        BY <4>1, PeerFacts
      <4>3. QED
        BY <3>2, <4>2
    <3>4. QED
      BY <2>1, <3>1, <3>3
  <2>4. QED
    BY <1>2, <2>1, <2>2, <2>3
<1>3. QED
  BY <1>1, <1>2

LEMMA JoinStep ==
  ASSUME TypeOK, Membership, Told, JoinTakesEffect, calls' = 0, [Next]_vars
  PROVE  JoinTakesEffect'
<1> USE ConstantsAssumption DEF links, budgets
<1>a. NoDuplicates /\ ToldLinks /\ FramesTold
  BY DEF Membership, Told
<1>b. /\ \A w \in Ws : <<"join", w>> \in Frame /\ <<"leave", w>> \in Frame
      /\ \A n \in Node : <<"identify", n>> \in Frame /\ <<"identified", n>> \in Frame
      /\ \A l \in Link : <<"tcp", l>> \in Entry
      /\ \A w \in Ws : <<"ws", w>> \in Entry /\ Home[w] \in Node
  BY DEF Frame, Entry
<1>d. ASSUME UNCHANGED reg
      PROVE  \A m \in Node : \A g : Registered(m, g)' <=> Registered(m, g)
  BY <1>d DEF Registered
<1>e. ASSUME UNCHANGED chan
      PROVE  \A m \in Node, k \in Link : \A g : In(g, m, k)' <=> In(g, m, k)
  BY <1>e DEF In
<1>t. ASSUME UNCHANGED told
      PROVE  \A w \in Ws, l \in Link : ToldOver(w, l)' <=> ToldOver(w, l)
  BY <1>t DEF ToldOver
<1>1. ASSUME NEW l \in Link, NEW n \in Node, Insert(n, <<"tcp", l>>)
      PROVE  \A m \in Node : \A g : Registered(m, g) => Registered(m, g)'
  <2>1. PICK q \in Inserted(reg[n], <<"tcp", l>>) : reg' = [reg EXCEPT ![n] = q]
    BY <1>1 DEF Insert
  <2>2. ToSet(q) = ToSet(reg[n]) \union {<<"tcp", l>>}
    <3>1. reg[n] \in Seq(Entry)
      BY DEF TypeOK
    <3>2. QED
      BY <3>1, <2>1, <1>b, InsertedShape
  <2>3. \A m \in Node : reg'[m] = IF m = n THEN q ELSE reg[m]
    BY <2>1 DEF TypeOK
  <2>4. QED
    BY <2>2, <2>3 DEF Registered
<1>2. ASSUME NEW l \in Link, connect(l) PROVE JoinTakesEffect'
  <2>1. \A m \in Node : \A g : Registered(m, g) => Registered(m, g)'
    BY <1>1, <1>2 DEF connect
  <2>2. QED
    BY <1>2, <1>a, <1>e, <2>1, <1>t, JoinFrom DEF connect
<1>3. ASSUME NEW l \in Link, greet(l) PROVE JoinTakesEffect'
  <2>1. \A m \in Node, k \in Link : \A g : In(g, m, k) => In(g, m, k)'
    <3>1. Opener[l] \in Node /\ <<"identify", Opener[l]>> \in Frame
      BY <1>b
    <3>2. chan' = Sent(Opener[l], {l}, <<"identify", Opener[l]>>)
      BY <1>3 DEF greet
    <3>3. QED
      BY <3>1, <3>2, SendFrame
  <2>2. QED
    BY <1>3, <1>a, <1>d, <2>1, <1>t, JoinFrom DEF greet
<1>4. ASSUME NEW l \in Link, accept(l) PROVE JoinTakesEffect'
  <2>1. \A m \in Node : \A g : Registered(m, g) => Registered(m, g)'
    BY <1>1, <1>4 DEF accept
  <2>2. QED
    BY <1>4, <1>a, <1>e, <2>1, <1>t, JoinFrom DEF accept
<1>5. ASSUME NEW l \in Link, break(l) PROVE JoinTakesEffect'
  BY <1>5, <1>a, <1>d, <1>e, <1>t, JoinFrom DEF break
<1>6. ASSUME NEW n \in Node, NEW l \in Link, receive_identify(n, l) PROVE JoinTakesEffect'
  <2>1. Head(chan[n][l])[1] = "identify"
    BY <1>6 DEF receive_identify
  <2>2. \A m \in Node, k \in Link : \A w \in Ws :
          In(<<"join", w>>, m, k) => In(<<"join", w>>, m, k)'
    BY <1>6, <2>1, AnswerFrame
  <2>3. QED
    BY <1>6, <1>a, <1>d, <2>2, <1>t, JoinFrom DEF receive_identify
<1>7. ASSUME NEW n \in Node, NEW l \in Link, receive_identified(n, l) PROVE JoinTakesEffect'
  <2>1. Head(chan[n][l])[1] = "identified"
    BY <1>7 DEF receive_identified
  <2>2. \A m \in Node, k \in Link : \A w \in Ws :
          In(<<"join", w>>, m, k) => In(<<"join", w>>, m, k)'
    BY <1>7, <2>1, ConsumeFrames DEF receive_identified
  <2>3. QED
    BY <1>7, <1>a, <1>d, <2>2, <1>t, JoinFrom DEF receive_identified
<1>8. ASSUME NEW n \in Node, NEW l \in Link, receive_join(n, l) PROVE JoinTakesEffect'
  <2>1. /\ \A m \in Node, k \in Link : \A g : In(g, m, k) =>
             In(g, m, k)' \/ (m = n /\ k = l /\ g = Head(chan[n][l]))
        /\ Head(chan[n][l]) \in Frame
    BY <1>8, ConsumeFrames DEF receive_join
  <2>2. PICK w \in Ws : Head(chan[n][l]) = <<"join", w>>
    BY <1>8, <2>1 DEF receive_join, Frame
  <2>3. /\ \A m \in Node : \A g : Registered(m, g) => Registered(m, g)'
        /\ Registered(n, <<"ws", w>>)'
    <3>1. CASE Joins(n, l, w)
      <4>1. Insert(n, <<"ws", w>>) /\ ~Registered(n, <<"ws", w>>)
        BY <1>8, <2>2, <3>1 DEF receive_join, Joins
      <4>2. QED
        BY <4>1, <1>a, <1>b, RegisterEntry
    <3>2. CASE ~Joins(n, l, w)
      <4>1. UNCHANGED reg
        BY <1>8, <2>2, <3>2 DEF receive_join
      <4>2. QED
        BY <4>1, <1>d, <3>2 DEF Joins
    <3>3. QED
      BY <3>1, <3>2
  <2>4. \A v \in Ws : <<"join", v>> = <<"join", w>> => v = w
    OBVIOUS
  <2>5. QED
    BY <1>8, <1>a, <2>1, <2>2, <2>3, <2>4, <1>t, JoinFrom DEF receive_join
<1>9. ASSUME NEW n \in Node, NEW l \in Link, receive_leave(n, l) PROVE JoinTakesEffect'
  <2>1. /\ \A m \in Node, k \in Link : \A g : In(g, m, k) =>
             In(g, m, k)' \/ (m = n /\ k = l /\ g = Head(chan[n][l]))
        /\ In(Head(chan[n][l]), n, l) /\ Head(chan[n][l]) \in Frame
    BY <1>9, ConsumeFrames DEF receive_leave
  <2>2. PICK w \in Ws : Head(chan[n][l]) = <<"leave", w>>
    BY <1>9, <2>1 DEF receive_leave, Frame
  <2>3. client[w] = "closed"
    <3>1. In(<<"leave", w>>, n, l)
      BY <2>1, <2>2
    <3>2. QED
      BY <3>1, <1>a DEF FramesTold
  <2>4. reg' = [reg EXCEPT ![n] = Without(@, <<"ws", w>>)]
    <3>1. reg' = [reg EXCEPT ![n] = Erased(n, Head(chan[n][l])[2])]
      BY <1>9 DEF receive_leave
    <3>2. Head(chan[n][l])[2] = w
      BY <2>2
    <3>3. QED
      BY <3>1, <3>2 DEF Erased
  <2>5. \A m \in Node, v \in Ws : Registered(m, <<"ws", v>>) /\ v # w =>
          Registered(m, <<"ws", v>>)'
    <3>1. \A m \in Node : \A g :
            Registered(m, g)' <=> Registered(m, g) /\ ~(m = n /\ g = <<"ws", w>>)
      BY <2>4, <1>a, EraseEntry
    <3>2. QED
      BY <3>1
  <2>6. \A m \in Node, k \in Link, v \in Ws : In(<<"join", v>>, m, k) => In(<<"join", v>>, m, k)'
    BY <2>1, <2>2
  <2>7. UNCHANGED <<client, told, lost, broken, crashed>>
    BY <1>9 DEF receive_leave
  <2>8. QED
    BY <1>a, <2>3, <2>5, <2>6, <2>7, <1>t, JoinFrom
<1>10. ASSUME NEW n \in Node, NEW l \in Link, on_error(n, l) PROVE JoinTakesEffect'
  <2>1. \A m \in Node, k \in Link : \A g : In(g, m, k) => In(g, m, k)' \/ k = l
    BY <1>10, ClearFrames DEF on_error
  <2>2. \A m \in Node, v \in Ws : Registered(m, <<"ws", v>>) => Registered(m, <<"ws", v>>)'
    <3>1. \A m \in Node : \A g :
            Registered(m, g)' <=> Registered(m, g) /\ ~(m = n /\ g = <<"tcp", l>>)
      BY <1>10, <1>a, EraseEntry DEF on_error
    <3>2. QED
      BY <3>1
  <2>3. l \in broken /\ UNCHANGED <<client, told, broken, crashed>> /\ lost \subseteq lost'
    BY <1>10 DEF on_error
  <2>4. QED
    BY <1>a, <2>1, <2>2, <2>3, <1>t, JoinFrom
<1>11. ASSUME NEW w \in Ws, accept_client(w) PROVE JoinTakesEffect'
  <2>1. ~Registered(Home[w], <<"ws", w>>)
    BY <1>11 DEF accept_client, Membership
  <2>2. \A m \in Node : \A g : Registered(m, g) => Registered(m, g)'
    BY <1>11, <1>a, <1>b, <2>1, RegisterEntry DEF accept_client
  <2>3. \A v \in Ws : client'[v] = "open" => client[v] = "open"
    BY <1>11 DEF accept_client, TypeOK
  <2>4. UNCHANGED <<told, broken, crashed, lost, chan>>
    BY <1>11 DEF accept_client
  <2>5. QED
    BY <1>a, <1>e, <2>2, <2>3, <2>4, <1>t, JoinFrom
<1>12. ASSUME NEW w \in Ws, on_accept(w) PROVE JoinTakesEffect'
  <2>1. /\ client[w] = "handshake" /\ UNCHANGED <<reg, broken, crashed, lost>>
        /\ \A v \in Ws : client'[v] = IF v = w THEN "open" ELSE client[v]
    BY <1>12 DEF on_accept, TypeOK
  <2>2. PICK T : T = Targets(Home[w], reg[Home[w]])
    OBVIOUS
  <2>3. chan' = Sent(Home[w], T, <<"join", w>>)
    BY <1>12, <2>2 DEF on_accept
  <2>4. \A m \in Node, k \in Link : \A g :
          In(g, m, k)' <=>
            In(g, m, k) \/ (g = <<"join", w>> /\ k \in T \ broken /\ m = Peer(Home[w], k))
    <3>1. Home[w] \in Node /\ <<"join", w>> \in Frame
      BY <1>b
    <3>2. chan' = Sent(Home[w], T, <<"join", w>>)
      BY <2>3
    <3>3. QED
      BY <3>1, <3>2, SendFrame
  <2>5. \A v \in Ws, l \in Link : Peer(Home[v], l) \in Node
    BY <1>b DEF Peer
  <2>6. \A l \in Link : ToldOver(w, l) => client[w] \in {"open", "closed"}
    BY <1>a DEF ToldLinks
  <2>7. \A v \in Ws, l \in Link : ToldOver(v, l)' =>
          \/ ToldOver(v, l) /\ v # w
          \/ v = w /\ l \in T \ broken
    <3>1. \A v \in Ws, l \in Link :
            ToldOver(v, l)' <=> ToldOver(v, l) \/ (v = w /\ l \in T \ broken)
      BY <1>12, <2>2, ToldByAccept
    <3>2. QED
      BY <2>1, <2>6, <3>1
  <2>8. \A v \in Ws, l \in Link : ToldOver(v, l)' /\ client'[v] = "open" =>
          \/ ToldOver(v, l) /\ client[v] = "open"
          \/ In(<<"join", v>>, Peer(Home[v], l), l)'
    BY <2>1, <2>4, <2>5, <2>7
  <2>9. QED
    BY <1>a, <1>d, <2>1, <2>4, <2>8, <1>t, JoinFrom
<1>13. ASSUME NEW w \in Ws, close_client(w) PROVE JoinTakesEffect'
  <2>1. /\ UNCHANGED <<told, broken, crashed, lost>>
        /\ \A v \in Ws : client'[v] = IF v = w THEN "closed" ELSE client[v]
    BY <1>13 DEF close_client, TypeOK
  <2>2. \A m \in Node, v \in Ws : Registered(m, <<"ws", v>>) /\ v # w =>
          Registered(m, <<"ws", v>>)'
    <3>1. \A m \in Node : \A g :
            Registered(m, g)' <=> Registered(m, g) /\ ~(m = Home[w] /\ g = <<"ws", w>>)
      BY <1>13, <1>a, <1>b, EraseEntry DEF close_client
    <3>2. QED
      BY <3>1
  <2>3. \A m \in Node, k \in Link : \A g : In(g, m, k) => In(g, m, k)'
    <3>1. Home[w] \in Node /\ <<"leave", w>> \in Frame
      BY <1>b
    <3>2. \/ UNCHANGED chan
          \/ chan' = Sent(Home[w], Targets(Home[w], Without(reg[Home[w]], <<"ws", w>>)),
                          <<"leave", w>>)
      BY <1>13 DEF close_client
    <3>3. QED
      BY <3>1, <3>2, <1>e, SendFrame
  <2>4. QED
    BY <1>a, <2>1, <2>2, <2>3, <1>t, JoinFrom
<1>14. ASSUME NEW n \in Node, crash(n) PROVE JoinTakesEffect'
  <2>1. /\ UNCHANGED <<told, lost, reg, chan>> /\ broken \subseteq broken'
        /\ crashed \subseteq crashed'
        /\ \A w \in Ws : client'[w] = "open" => client[w] = "open"
    BY <1>14 DEF crash
  <2>2. QED
    BY <1>a, <1>d, <1>e, <2>1, <1>t, JoinFrom
<1>15. CASE UNCHANGED vars
  BY <1>15, <1>a, <1>d, <1>e, <1>t, JoinFrom DEF vars
<1>16. \A n \in Node : purge[n] = {}
  BY DEF Told
<1>17. QED
  BY <1>2, <1>3, <1>4, <1>5, <1>6, <1>7, <1>8, <1>9, <1>10, <1>11, <1>12, <1>13, <1>14, <1>15,
     <1>16, QuietStep DEF Next, receive

LEMMA DeliveryInvariant == Spec => [](calls = 0 => Told /\ JoinTakesEffect)
<1> DEFINE I == calls = 0 => Told /\ JoinTakesEffect
<1>1. Init => I
  <2>1. Init => JoinTakesEffect
    BY DEF Init, JoinTakesEffect
  <2>2. QED
    BY <2>1, ToldInit
<1>2. TypeOK /\ Membership /\ I /\ [Next]_vars => I'
  BY QuietStep, ToldStep, JoinStep
<1>3. QED
  BY <1>1, <1>2, Invariant, PTL DEF Spec

\* A node that was sent the join of a client that is still open has its proxy, or
\* is about to, unless a link between the two has failed or it has crashed: for
\* any number of nodes, links, clients and failures, until somebody calls
\* disconnect (JoinTakesEffect, websocket_session::on_accept and the join handler).
THEOREM JoinTakesEffectHolds == Spec => [](calls = 0 => JoinTakesEffect)
BY DeliveryInvariant, PTL
=============================================================================
