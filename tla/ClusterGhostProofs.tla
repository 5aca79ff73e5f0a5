------------------------- MODULE ClusterGhostProofs -------------------------
(***************************************************************************)
(* No ghosts: what ClusterPresence promises of leaves as long as nobody    *)
(* calls disconnect or disconnect_all and no two nodes have two links, for *)
(* any nodes, links, clients and failures, and any order of the registries.*)
(***************************************************************************)
EXTENDS ClusterDeliveryProofs

-----------------------------------------------------------------------------
(* Order in a sequence.                                                    *)

Before(s, x, y) == \E i, j \in DOMAIN s : i < j /\ s[i] = x /\ s[j] = y

LEMMA BeforeAppend ==
  ASSUME NEW S, NEW s \in Seq(S), NEW e, NEW x, NEW y, Before(Append(s, e), x, y)
  PROVE  Before(s, x, y) \/ (y = e /\ x \in ToSet(s))
<1>1. /\ DOMAIN Append(s, e) = 1..(Len(s) + 1) /\ DOMAIN s = 1..Len(s) /\ Len(s) \in Nat
      /\ \A i \in 1..Len(s) : Append(s, e)[i] = s[i]
      /\ Append(s, e)[Len(s) + 1] = e
  OBVIOUS
<1>2. PICK i \in 1..(Len(s) + 1), j \in 1..(Len(s) + 1) :
        i < j /\ Append(s, e)[i] = x /\ Append(s, e)[j] = y
  BY <1>1 DEF Before
<1>3. i \in DOMAIN s /\ s[i] = x
  BY <1>1, <1>2
<1>4. x \in ToSet(s)
  BY <1>3 DEF ToSet
<1>5. CASE j = Len(s) + 1
  BY <1>1, <1>2, <1>4, <1>5
<1>6. CASE j # Len(s) + 1
  <2>1. j \in DOMAIN s /\ s[j] = y
    BY <1>1, <1>2, <1>6
  <2>2. QED
    BY <1>2, <1>3, <2>1 DEF Before
<1>7. QED
  BY <1>5, <1>6

LEMMA BeforeTail ==
  ASSUME NEW S, NEW s \in Seq(S), s # <<>>, NEW x, NEW y
  PROVE  /\ Before(Tail(s), x, y) => Before(s, x, y)
         /\ x = Head(s) /\ y # x /\ y \in ToSet(s) => Before(s, x, y)
<1>1. DOMAIN s = 1..Len(s) /\ Len(s) \in Nat \ {0} /\ Head(s) = s[1]
  OBVIOUS
<1>2. DOMAIN Tail(s) = 1..(Len(s) - 1)
  OBVIOUS
<1>3. \A i \in DOMAIN Tail(s) : Tail(s)[i] = s[i + 1]
  OBVIOUS
<1>4. ASSUME Before(Tail(s), x, y) PROVE Before(s, x, y)
  <2>1. PICK i \in DOMAIN Tail(s), j \in DOMAIN Tail(s) :
          i < j /\ Tail(s)[i] = x /\ Tail(s)[j] = y
    BY <1>4 DEF Before
  <2>2. i + 1 \in DOMAIN s /\ j + 1 \in DOMAIN s /\ i + 1 < j + 1
    BY <1>1, <1>2, <2>1
  <2>3. s[i + 1] = x /\ s[j + 1] = y
    BY <1>3, <2>1
  <2>4. QED
    BY <2>2, <2>3 DEF Before
<1>5. ASSUME x = Head(s), y # x, y \in ToSet(s) PROVE Before(s, x, y)
  <2>1. PICK j \in DOMAIN s : s[j] = y
    BY <1>5 DEF ToSet
  <2>2. 1 \in DOMAIN s /\ 1 < j
    BY <1>1, <1>5, <2>1
  <2>3. QED
    BY <1>1, <1>5, <2>1, <2>2 DEF Before
<1>6. QED
  BY <1>4, <1>5

-----------------------------------------------------------------------------
(* Order in a channel.                                                     *)

LEMMA OrderSent ==
  ASSUME TypeOK, NEW n \in Node, NEW L, NEW f \in Frame, chan' = Sent(n, L, f),
         NEW m \in Node, NEW l \in Link, NEW x, NEW y, Before(chan'[m][l], x, y)
  PROVE  Before(chan[m][l], x, y) \/ (y = f /\ In(x, m, l))
<1>1. chan[m][l] \in Seq(Frame)
  BY DEF TypeOK
<1>2. chan'[m][l] = Append(chan[m][l], f) \/ chan'[m][l] = chan[m][l]
  <2>1. Sent(n, L, f)[m][l] = IF l \in L \ broken /\ m = Peer(n, l)
                                THEN Append(chan[m][l], f) ELSE chan[m][l]
    BY SentFrames
  <2>2. QED
    BY <2>1
<1>3. CASE chan'[m][l] = Append(chan[m][l], f)
  <2>1. Before(Append(chan[m][l], f), x, y)
    BY <1>3
  <2>2. QED
    BY <1>1, <2>1, BeforeAppend DEF In
<1>4. CASE chan'[m][l] = chan[m][l]
  BY <1>4
<1>5. QED
  BY <1>2, <1>3, <1>4

LEMMA OrderConsume ==
  ASSUME TypeOK, NEW n \in Node, NEW l \in Link, Reads(n, l), Consume(n, l),
         NEW m \in Node, NEW k \in Link, NEW x, NEW y, Before(chan'[m][k], x, y)
  PROVE  Before(chan[m][k], x, y)
<1>1. chan[n][l] \in Seq(Frame) /\ chan[n][l] # <<>>
  BY DEF TypeOK, Reads
<1>2. chan'[m][k] = IF m = n /\ k = l THEN Tail(chan[n][l]) ELSE chan[m][k]
  BY ConsumeFrames
<1>3. QED
  BY <1>1, <1>2, BeforeTail

LEMMA OrderAnswer ==
  ASSUME TypeOK, NEW n \in Node, NEW l \in Link, receive_identify(n, l),
         NEW m \in Node, NEW k \in Link, NEW x, NEW y, Before(chan'[m][k], x, y)
  PROVE  Before(chan[m][k], x, y) \/ y = <<"identified", n>>
<1>1. chan[n][l] \in Seq(Frame) /\ chan[n][l] # <<>> /\ chan[m][k] \in Seq(Frame)
  BY DEF TypeOK, Reads, receive_identify
<1>2. \/ m = n /\ k = l /\ chan'[m][k] = Tail(chan[n][l])
      \/ chan'[m][k] = Append(chan[m][k], <<"identified", n>>)
      \/ chan'[m][k] = chan[m][k]
  BY AnswerFrame
<1>3. CASE m = n /\ k = l /\ chan'[m][k] = Tail(chan[n][l])
  <2>1. Before(Tail(chan[n][l]), x, y)
    BY <1>3
  <2>2. QED
    BY <1>1, <1>3, <2>1, BeforeTail
<1>4. CASE chan'[m][k] = Append(chan[m][k], <<"identified", n>>)
  <2>1. Before(Append(chan[m][k], <<"identified", n>>), x, y)
    BY <1>4
  <2>2. QED
    BY <1>1, <2>1, BeforeAppend
<1>5. CASE chan'[m][k] = chan[m][k]
  BY <1>5
<1>6. QED
  BY <1>2, <1>3, <1>4, <1>5

LEMMA OrderClear ==
  ASSUME TypeOK, NEW n \in Node, NEW l \in Link, chan' = [chan EXCEPT ![n][l] = <<>>],
         NEW m \in Node, NEW k \in Link, NEW x, NEW y, Before(chan'[m][k], x, y)
  PROVE  Before(chan[m][k], x, y)
<1>1. chan'[m][k] = IF m = n /\ k = l THEN <<>> ELSE chan[m][k]
  BY DEF TypeOK
<1>2. ~Before(<<>>, x, y)
  BY DEF Before
<1>3. QED
  BY <1>1, <1>2

-----------------------------------------------------------------------------
(* The strengthening for leaves.                                           *)

\* A link is known by no other id than its peer's.
Named ==
  /\ \A n \in Node, l \in Link, m \in Node :
       In(<<"identify", m>>, n, l) \/ In(<<"identified", m>>, n, l) => m = Peer(n, l)
  /\ \A n \in Node, l \in Link : known[n][l] \in {Nil, Peer(n, l)}

\* A link that was known to lead to n when a join was sent still is, and does.
ToldNames ==
  \A w \in Ws, l \in Link, n \in Node : <<w, l, n>> \in told =>
    n = Peer(Home[w], l) /\ known[Home[w]][l] = n

\* No leave overtakes the join it ends.
JoinFirst ==
  \A n \in Node, l \in Link, w \in Ws : ~Before(chan[n][l], <<"leave", w>>, <<"join", w>>)

\* A client is over for a node that was told of it over a link with its name: the leave is on its way, or
\* there is neither a proxy nor a join left.
IsOver(n, w, l) == \/ In(<<"leave", w>>, n, l)
                   \/ ~Registered(n, <<"ws", w>>) /\ ~In(<<"join", w>>, n, l)

Over ==
  \A n \in Node, w \in Ws, l \in Link :
    /\ <<w, l, n>> \in told /\ client[w] = "closed"
    /\ ~Severed(n, Home[w])
    => IsOver(n, w, l)

\* No two links lead to the same node.
OneLink == \A k, l \in Link : Ends(k) = Ends(l) => k = l

\* A step gives a link no other name than its peer's.
NamesStay == \A n \in Node, l \in Link : known'[n][l] \in {known[n][l], Peer(n, l)}

LEMMA NamedFrom ==
  ASSUME Named, NamesStay,
         \A n \in Node, l \in Link, m \in Node :
           /\ In(<<"identify", m>>, n, l)' => In(<<"identify", m>>, n, l) \/ m = Peer(n, l)
           /\ In(<<"identified", m>>, n, l)' => In(<<"identified", m>>, n, l) \/ m = Peer(n, l)
  PROVE  Named' /\ NamesStay
<1>1. ASSUME NEW n \in Node, NEW l \in Link
      PROVE  /\ known'[n][l] \in {Nil, Peer(n, l)}
             /\ \A m \in Node : In(<<"identify", m>>, n, l)' => m = Peer(n, l)
             /\ \A m \in Node : In(<<"identified", m>>, n, l)' => m = Peer(n, l)
  BY DEF Named, NamesStay
<1>2. QED
  BY <1>1 DEF Named, Peer

LEMMA NamedStep ==
  ASSUME TypeOK, Named, [Next]_vars
  PROVE  Named' /\ NamesStay
<1> USE ConstantsAssumption DEF links, budgets
<1>b. /\ \A w \in Ws : <<"join", w>> \in Frame /\ <<"leave", w>> \in Frame
      /\ \A n \in Node : <<"identify", n>> \in Frame /\ <<"identified", n>> \in Frame
      /\ \A w \in Ws : Home[w] \in Node
  BY DEF Frame
<1>e. ASSUME UNCHANGED chan
      PROVE  \A m \in Node, k \in Link : \A g : In(g, m, k)' <=> In(g, m, k)
  BY <1>e DEF In
<1>k. ASSUME UNCHANGED known PROVE NamesStay
  BY <1>k DEF NamesStay
<1>1. ASSUME UNCHANGED known, UNCHANGED chan PROVE Named' /\ NamesStay
  BY <1>1, <1>e, <1>k, NamedFrom
<1>2. ASSUME UNCHANGED known, NEW n \in Node, NEW L, NEW w \in Ws,
             NEW f \in {<<"join", w>>, <<"leave", w>>}, chan' = Sent(n, L, f)
      PROVE  Named' /\ NamesStay
  <2>1. \A m \in Node, l \in Link : \A g : In(g, m, l)' => In(g, m, l) \/ g = f
    <3>1. f \in Frame
      BY <1>b
    <3>2. QED
      BY <1>2, <3>1, SendFrame
  <2>2. QED
    BY <1>2, <1>k, <2>1, NamedFrom
<1>3. ASSUME NEW l \in Link, greet(l) PROVE Named' /\ NamesStay
  <2>1. /\ Opener[l] \in Node /\ <<"identify", Opener[l]>> \in Frame
        /\ Opener[l] = Peer(Peer(Opener[l], l), l)
    BY <1>b DEF Peer
  <2>2. chan' = Sent(Opener[l], {l}, <<"identify", Opener[l]>>) /\ UNCHANGED known
    BY <1>3 DEF greet
  <2>3. \A m \in Node, k \in Link : \A g : In(g, m, k)' <=>
          In(g, m, k) \/ ( /\ g = <<"identify", Opener[l]>>
                          /\ k \in {l} \ broken /\ m = Peer(Opener[l], k))
    BY <2>1, <2>2, SendFrame
  <2>4. QED
    BY <1>k, <2>1, <2>2, <2>3, NamedFrom
<1>4. ASSUME NEW n \in Node, NEW l \in Link, receive_identify(n, l) PROVE Named' /\ NamesStay
  <2>1. /\ n \in Ends(l) /\ In(Head(chan[n][l]), n, l) /\ Head(chan[n][l]) \in Frame
        /\ \A m \in Node, k \in Link : \A g : In(g, m, k)' =>
             In(g, m, k) \/ (k = l /\ m = Peer(n, l) /\ g = <<"identified", n>>)
    BY <1>4, AnswerFrame
  <2>2. PICK p \in Node : Head(chan[n][l]) = <<"identify", p>>
    BY <1>4, <2>1 DEF receive_identify, Frame
  <2>3. p = Peer(n, l) /\ n = Peer(Peer(n, l), l)
    <3>1. In(<<"identify", p>>, n, l)
      BY <2>1, <2>2
    <3>2. QED
      BY <2>1, <3>1, PeerFacts DEF Named
  <2>4. NamesStay
    <3>1. known' = [known EXCEPT ![n][l] = Peer(n, l)]
      <4>1. known' = [known EXCEPT ![n][l] = Head(chan[n][l])[2]]
        BY <1>4 DEF receive_identify
      <4>2. Head(chan[n][l])[2] = Peer(n, l)
        BY <2>2, <2>3
      <4>3. QED
        BY <4>1, <4>2
    <3>2. QED
      BY <3>1 DEF TypeOK, NamesStay
  <2>5. QED
    BY <2>1, <2>3, <2>4, NamedFrom
<1>5. ASSUME NEW n \in Node, NEW l \in Link, Reads(n, l), Consume(n, l)
      PROVE  /\ \A m \in Node, k \in Link : \A g : In(g, m, k)' => In(g, m, k)
             /\ In(Head(chan[n][l]), n, l) /\ Head(chan[n][l]) \in Frame
  BY <1>5, ConsumeFrames
<1>6. ASSUME NEW n \in Node, NEW l \in Link, receive_identified(n, l) PROVE Named' /\ NamesStay
  <2>1. /\ \A m \in Node, k \in Link : \A g : In(g, m, k)' => In(g, m, k)
        /\ In(Head(chan[n][l]), n, l) /\ Head(chan[n][l]) \in Frame
    BY <1>5, <1>6 DEF receive_identified
  <2>2. PICK p \in Node : Head(chan[n][l]) = <<"identified", p>>
    BY <1>6, <2>1 DEF receive_identified, Frame
  <2>3. p = Peer(n, l)
    <3>1. In(<<"identified", p>>, n, l)
      BY <2>1, <2>2
    <3>2. QED
      BY <3>1 DEF Named
  <2>4. NamesStay
    <3>1. known' = [known EXCEPT ![n][l] = Peer(n, l)]
      <4>1. known' = [known EXCEPT ![n][l] = Head(chan[n][l])[2]]
        BY <1>6 DEF receive_identified
      <4>2. Head(chan[n][l])[2] = Peer(n, l)
        BY <2>2, <2>3
      <4>3. QED
        BY <4>1, <4>2
    <3>2. QED
      BY <3>1 DEF TypeOK, NamesStay
  <2>5. QED
    BY <2>1, <2>4, NamedFrom
<1>7. ASSUME NEW n \in Node, NEW l \in Link, receive_join(n, l) \/ receive_leave(n, l)
      PROVE  Named' /\ NamesStay
  <2>1. \A m \in Node, k \in Link : \A g : In(g, m, k)' => In(g, m, k)
    BY <1>5, <1>7 DEF receive_join, receive_leave
  <2>2. UNCHANGED known
    BY <1>7 DEF receive_join, receive_leave
  <2>3. QED
    BY <1>k, <2>1, <2>2, NamedFrom
<1>8. ASSUME NEW n \in Node, NEW l \in Link, chan' = [chan EXCEPT ![n][l] = <<>>],
             UNCHANGED known
      PROVE  Named' /\ NamesStay
  <2>1. \A m \in Node, k \in Link : \A g : In(g, m, k)' => In(g, m, k)
    BY <1>8, ClearFrames
  <2>2. QED
    BY <1>8, <1>k, <2>1, NamedFrom
<1>9. ASSUME NEW l \in Link, connect(l) \/ accept(l) \/ break(l) PROVE Named' /\ NamesStay
  BY <1>1, <1>9 DEF connect, accept, break
<1>10. ASSUME NEW n \in Node, NEW l \in Link, on_error(n, l) PROVE Named' /\ NamesStay
  BY <1>8, <1>10 DEF on_error
<1>11. ASSUME NEW w \in Ws, accept_client(w) PROVE Named' /\ NamesStay
  BY <1>1, <1>11 DEF accept_client
<1>12. ASSUME NEW w \in Ws, on_accept(w) PROVE Named' /\ NamesStay
  <2>1. chan' = Sent(Home[w], Targets(Home[w], reg[Home[w]]), <<"join", w>>) /\ UNCHANGED known
    BY <1>12 DEF on_accept
  <2>2. QED
    BY <1>2, <1>b, <2>1
<1>13. ASSUME NEW w \in Ws, close_client(w) PROVE Named' /\ NamesStay
  <2>1. /\ UNCHANGED known
        /\ \/ UNCHANGED chan
           \/ chan' = Sent(Home[w], Targets(Home[w], Without(reg[Home[w]], <<"ws", w>>)),
                           <<"leave", w>>)
    BY <1>13 DEF close_client
  <2>2. QED
    BY <1>1, <1>2, <1>b, <2>1
<1>14. ASSUME NEW n \in Node, disconnect_all(n) \/ (\E k \in Node : disconnect(n, k)) \/ crash(n)
       PROVE  Named' /\ NamesStay
  BY <1>1, <1>14 DEF disconnect_all, disconnect, crash
<1>15. ASSUME NEW n \in Node, NEW e \in purge[n], purge_next(n, e) PROVE Named' /\ NamesStay
  <2>1. e \in Entry /\ UNCHANGED known
    BY <1>15 DEF TypeOK, purge_next
  <2>2. CASE UNCHANGED chan
    BY <1>1, <2>1, <2>2
  <2>3. CASE e[1] = "tcp" /\ chan' = [chan EXCEPT ![n][e[2]] = <<>>]
    <3>1. e[2] \in Link
      BY <2>1, <2>3 DEF Entry
    <3>2. QED
      BY <1>8, <2>1, <2>3, <3>1
  <2>4. CASE e[1] = "ws" /\ chan' = Sent(n, Targets(n, Without(reg[n], e)), <<"leave", e[2]>>)
    <3>1. e[2] \in Ws
      BY <2>1, <2>4 DEF Entry
    <3>2. QED
      BY <1>2, <2>1, <2>4, <3>1
  <2>5. QED
    BY <1>15, <2>2, <2>3, <2>4 DEF purge_next
<1>16. CASE UNCHANGED vars
  BY <1>1, <1>16 DEF vars
<1>17. QED
  BY <1>3, <1>4, <1>6, <1>7, <1>9, <1>10, <1>11, <1>12, <1>13, <1>14, <1>15, <1>16
     DEF Next, receive

LEMMA JoinFirstFrom ==
  ASSUME JoinFirst,
         \A n \in Node, l \in Link, w \in Ws :
           Before(chan'[n][l], <<"leave", w>>, <<"join", w>>) =>
             Before(chan[n][l], <<"leave", w>>, <<"join", w>>)
  PROVE  JoinFirst'
<1>1. \A n \in Node, l \in Link, w \in Ws : ~Before(chan'[n][l], <<"leave", w>>, <<"join", w>>)
  BY DEF JoinFirst
<1>2. QED
  BY <1>1 DEF JoinFirst, Before

LEMMA JoinFirstStep ==
  ASSUME TypeOK, Told, JoinFirst, [Next]_vars, calls' = 0
  PROVE  JoinFirst'
<1> USE ConstantsAssumption DEF links, budgets
<1>b. /\ \A w \in Ws : <<"join", w>> \in Frame /\ <<"leave", w>> \in Frame
      /\ \A n \in Node : <<"identify", n>> \in Frame /\ <<"identified", n>> \in Frame
      /\ \A w \in Ws : Home[w] \in Node
  BY DEF Frame
<1>1. ASSUME UNCHANGED chan PROVE JoinFirst'
  BY <1>1, JoinFirstFrom
<1>2. ASSUME NEW n \in Node, NEW L, NEW f \in Frame, chan' = Sent(n, L, f),
             \A w \in Ws : f = <<"join", w>> =>
               \A m \in Node, l \in Link : ~In(<<"leave", w>>, m, l)
      PROVE  JoinFirst'
  <2>1. \A m \in Node, l \in Link, w \in Ws :
          Before(chan'[m][l], <<"leave", w>>, <<"join", w>>) =>
            Before(chan[m][l], <<"leave", w>>, <<"join", w>>)
    <3> TAKE m \in Node, l \in Link, w \in Ws
    <3> HAVE Before(chan'[m][l], <<"leave", w>>, <<"join", w>>)
    <3>1. \/ Before(chan[m][l], <<"leave", w>>, <<"join", w>>)
          \/ <<"join", w>> = f /\ In(<<"leave", w>>, m, l)
      BY <1>2, OrderSent
    <3>2. QED
      BY <1>2, <3>1
  <2>2. QED
    BY <2>1, JoinFirstFrom
<1>3. ASSUME NEW l \in Link, greet(l) PROVE JoinFirst'
  <2>1. /\ Opener[l] \in Node /\ <<"identify", Opener[l]>> \in Frame
        /\ \A w \in Ws : <<"identify", Opener[l]>> # <<"join", w>>
    BY <1>b
  <2>2. chan' = Sent(Opener[l], {l}, <<"identify", Opener[l]>>)
    BY <1>3 DEF greet
  <2>3. QED
    BY <1>2, <2>1, <2>2
<1>4. ASSUME NEW n \in Node, NEW l \in Link, receive_identify(n, l) PROVE JoinFirst'
  <2>1. \A m \in Node, k \in Link, w \in Ws :
          Before(chan'[m][k], <<"leave", w>>, <<"join", w>>) =>
            Before(chan[m][k], <<"leave", w>>, <<"join", w>>)
    <3> TAKE m \in Node, k \in Link, w \in Ws
    <3> HAVE Before(chan'[m][k], <<"leave", w>>, <<"join", w>>)
    <3>1. \/ Before(chan[m][k], <<"leave", w>>, <<"join", w>>)
          \/ <<"join", w>> = <<"identified", n>>
      BY <1>4, OrderAnswer
    <3>2. QED
      BY <3>1
  <2>2. QED
    BY <2>1, JoinFirstFrom
<1>5. ASSUME NEW n \in Node, NEW l \in Link, Reads(n, l), Consume(n, l) PROVE JoinFirst'
  <2>1. \A m \in Node, k \in Link, w \in Ws :
          Before(chan'[m][k], <<"leave", w>>, <<"join", w>>) =>
            Before(chan[m][k], <<"leave", w>>, <<"join", w>>)
    BY <1>5, OrderConsume
  <2>2. QED
    BY <2>1, JoinFirstFrom
<1>6. ASSUME NEW n \in Node, NEW l \in Link,
             \/ receive_identified(n, l) \/ receive_join(n, l) \/ receive_leave(n, l)
      PROVE  JoinFirst'
  BY <1>5, <1>6 DEF receive_identified, receive_join, receive_leave
<1>7. ASSUME NEW n \in Node, NEW l \in Link, on_error(n, l) PROVE JoinFirst'
  <2>1. chan' = [chan EXCEPT ![n][l] = <<>>]
    BY <1>7 DEF on_error
  <2>2. \A m \in Node, k \in Link, w \in Ws :
          Before(chan'[m][k], <<"leave", w>>, <<"join", w>>) =>
            Before(chan[m][k], <<"leave", w>>, <<"join", w>>)
    BY <2>1, OrderClear
  <2>3. QED
    BY <2>2, JoinFirstFrom
<1>8. ASSUME NEW l \in Link, connect(l) \/ accept(l) \/ break(l) PROVE JoinFirst'
  BY <1>1, <1>8 DEF connect, accept, break
<1>9. ASSUME NEW w \in Ws, accept_client(w) PROVE JoinFirst'
  BY <1>1, <1>9 DEF accept_client
<1>10. ASSUME NEW w \in Ws, on_accept(w) PROVE JoinFirst'
  <2>1. /\ chan' = Sent(Home[w], Targets(Home[w], reg[Home[w]]), <<"join", w>>)
        /\ client[w] # "closed"
    BY <1>10 DEF on_accept
  <2>2. \A v \in Ws : <<"join", w>> = <<"join", v>> =>
          \A m \in Node, l \in Link : ~In(<<"leave", v>>, m, l)
    BY <2>1 DEF Told, FramesTold
  <2>3. Home[w] \in Node /\ <<"join", w>> \in Frame
    BY <1>b
  <2>4. QED
    BY <1>2, <2>1, <2>2, <2>3
<1>11. ASSUME NEW w \in Ws, close_client(w) PROVE JoinFirst'
  <2>1. \/ UNCHANGED chan
        \/ chan' = Sent(Home[w], Targets(Home[w], Without(reg[Home[w]], <<"ws", w>>)),
                        <<"leave", w>>)
    BY <1>11 DEF close_client
  <2>2. \A v \in Ws : <<"leave", w>> # <<"join", v>>
    OBVIOUS
  <2>3. Home[w] \in Node /\ <<"leave", w>> \in Frame
    BY <1>b
  <2>4. QED
    BY <1>1, <1>2, <2>1, <2>2, <2>3
<1>12. ASSUME NEW n \in Node, crash(n) PROVE JoinFirst'
  BY <1>1, <1>12 DEF crash
<1>13. CASE UNCHANGED vars
  BY <1>1, <1>13 DEF vars
<1>14. \A n \in Node : purge[n] = {}
  BY DEF Told
<1>15. QED
  BY <1>3, <1>4, <1>6, <1>7, <1>8, <1>9, <1>10, <1>11, <1>12, <1>13, <1>14, QuietStep
     DEF Next, receive

LEMMA ToldNamesStep ==
  ASSUME TypeOK, Membership, Told, Named, NamesStay, ToldNames, [Next]_vars, calls' = 0
  PROVE  ToldNames'
<1>a. \A w \in Ws : Home[w] \in Node
  BY ConstantsAssumption
<1>1. ASSUME NEW w \in Ws, NEW l \in Link, NEW n \in Node, <<w, l, n>> \in told
      PROVE  n = Peer(Home[w], l) /\ known'[Home[w]][l] = n
  BY <1>1, <1>a DEF ToldNames, NamesStay
<1>2. ASSUME UNCHANGED told PROVE ToldNames'
  BY <1>1, <1>2 DEF ToldNames, Peer
<1>3. ASSUME NEW v \in Ws, on_accept(v) PROVE ToldNames'
  <2>1. UNCHANGED known
    BY <1>3 DEF on_accept
  <2>2. ASSUME NEW w \in Ws, NEW l \in Link, NEW n \in Node, <<w, l, n>> \in told',
               <<w, l, n>> \notin told
        PROVE  n = Peer(Home[w], l) /\ known[Home[w]][l] = n
    <3>1. known[Home[w]][l] = n
      BY <1>3, <2>2, ToldByAccept
    <3>2. n # Nil /\ known[Home[w]][l] \in {Nil, Peer(Home[w], l)}
      BY <1>a, ConstantsAssumption DEF Named
    <3>3. QED
      BY <3>1, <3>2
  <2>3. QED
    BY <1>1, <2>1, <2>2 DEF ToldNames, Peer
<1>4. \A n \in Node : purge[n] = {}
  BY DEF Told
<1>5. (\E v \in Ws : on_accept(v)) \/ UNCHANGED told
  BY <1>4, QuietStep DEF Next, vars, receive, connect, greet, accept, break,
     receive_identify, receive_identified, receive_join, receive_leave, on_error,
     accept_client, close_client, crash
<1>6. QED
  BY <1>2, <1>3, <1>5

\* What a step may do to keep Over.
LEMMA OverFrom ==
  ASSUME ToldLinks, ToldNames, Over, lost \subseteq lost', broken \subseteq broken',
         \A w \in Ws, l \in Link, n \in Node :
           <<w, l, n>> \in told' /\ client'[w] = "closed" =>
             /\ <<w, l, n>> \in told
             /\ \/ client[w] = "closed" \/ l \in broken'
                \/ In(<<"leave", w>>, n, l)',
         \A n \in Node, w \in Ws, l \in Link :
           /\ <<w, l, n>> \in told /\ client[w] = "closed" /\ n = Peer(Home[w], l)
           /\ l \notin broken' /\ IsOver(n, w, l)
           => \/ In(<<"leave", w>>, n, l)'
              \/ ~Registered(n, <<"ws", w>>)' /\ ~In(<<"join", w>>, n, l)'
  PROVE  Over'
<1>1. ASSUME NEW n \in Node, NEW w \in Ws, NEW l \in Link,
             <<w, l, n>> \in told', client'[w] = "closed",
             <<n, Home[w]>> \notin lost', \A k \in broken' : Ends(k) # {n, Home[w]}
      PROVE  \/ In(<<"leave", w>>, n, l)'
             \/ ~Registered(n, <<"ws", w>>)' /\ ~In(<<"join", w>>, n, l)'
  <2>1. <<w, l, n>> \in told
    BY <1>1
  <2>2. Ends(l) = {n, Home[w]} /\ n = Peer(Home[w], l)
    <3>1. Home[w] \in Ends(l)
      BY <2>1 DEF ToldLinks, ToldOver
    <3>2. n = Peer(Home[w], l)
      BY <2>1 DEF ToldNames
    <3>3. QED
      BY <3>1, <3>2, PeerFacts
  <2>3. l \notin broken'
    BY <1>1, <2>2
  <2>4. CASE client[w] = "closed"
    <3>1. ~Severed(n, Home[w])
      BY <1>1 DEF Severed
    <3>2. IsOver(n, w, l)
      BY <2>1, <2>4, <3>1 DEF Over
    <3>3. QED
      BY <2>1, <2>2, <2>3, <2>4, <3>2
  <2>5. CASE client[w] # "closed"
    BY <1>1, <2>3, <2>5
  <2>6. QED
    BY <2>4, <2>5
<1>2. QED
  BY <1>1 DEF Over, IsOver, Severed, Ends

\* A client that closes sends its leave over every link its join was sent over by
\* name: no other link of its node has that name, so broadcast_to_nodes meets no
\* other first, in whatever order it iterates.
LEMMA LeaveFollowsJoin ==
  ASSUME TypeOK, Membership, Told, Named, OneLink, ToldNames, NEW w \in Ws, NEW l \in Link,
         NEW n \in Node, <<w, l, n>> \in told, l \notin broken
  PROVE  l \in Targets(Home[w], Without(reg[Home[w]], <<"ws", w>>))
<1>1. PICK h \in Node : h = Home[w]
  BY ConstantsAssumption
<1>2. PICK r : r = Without(reg[h], <<"ws", w>>)
  OBVIOUS
<1>3. reg[h] \in Seq(Entry) /\ IsInjective(reg[h])
  BY DEF TypeOK, Membership, NoDuplicates
<1>4. r \in Seq(Entry) /\ IsInjective(r) /\ ToSet(r) = ToSet(reg[h]) \ {<<"ws", w>>}
  BY <1>2, <1>3, WithoutSet
<1>5. ToldOver(w, l)
  BY DEF ToldOver
<1>6. h \in Ends(l) /\ <<"tcp", l>> \in ToSet(r)
  <2>1. Registered(h, <<"tcp", l>>) /\ h \in Ends(l)
    BY <1>1, <1>5 DEF Told, ToldLinks
  <2>2. QED
    BY <1>4, <2>1 DEF Registered
<1>7. PICK i \in DOMAIN r : r[i] = <<"tcp", l>>
  BY <1>6 DEF ToSet
<1>8. known[h][l] = n /\ n = Peer(h, l) /\ n # Nil
  BY <1>1, ConstantsAssumption DEF ToldNames
<1>9. ASSUME NEW j \in 1..(i - 1), r[j][1] = "tcp"
      PROVE  known[h][r[j][2]] # known[h][l]
  <2>1. i \in Nat /\ j \in DOMAIN r /\ j # i /\ r[j] \in Entry
    <3>1. DOMAIN r = 1..Len(r) /\ Len(r) \in Nat /\ \A x \in DOMAIN r : r[x] \in Entry
      BY <1>4
    <3>2. QED
      BY <3>1
  <2>2. PICK k \in Link : r[j] = <<"tcp", k>>
    BY <1>9, <2>1 DEF Entry
  <2>3. k # l
    BY <1>4, <1>7, <2>1, <2>2 DEF IsInjective
  <2>4. Registered(h, <<"tcp", k>>)
    BY <1>4, <2>1, <2>2 DEF Registered, ToSet
  <2>5. h \in Ends(k)
    BY <2>4 DEF Membership, Ends
  <2>6. Peer(h, k) # Peer(h, l)
    <3>1. Ends(k) = {h, Peer(h, k)} /\ Ends(l) = {h, Peer(h, l)}
      BY <1>6, <2>5, PeerFacts
    <3>2. QED
      BY <2>3, <3>1 DEF OneLink
  <2>7. known[h][k] \in {Nil, Peer(h, k)}
    BY DEF Named
  <2>8. QED
    BY <1>8, <2>2, <2>6, <2>7
<1>10. QED
  BY <1>1, <1>2, <1>7, <1>9 DEF Targets

LEMMA OverStep ==
  ASSUME TypeOK, Membership, Told, Named, OneLink, ToldNames, JoinFirst, Over, [Next]_vars,
         calls' = 0
  PROVE  Over'
<1> USE ConstantsAssumption DEF links, budgets
<1>a. NoDuplicates /\ ToldLinks /\ FramesTold /\ HomeHolds
  BY DEF Membership, Told
<1>b. /\ \A w \in Ws : <<"join", w>> \in Frame /\ <<"leave", w>> \in Frame
      /\ \A n \in Node : <<"identify", n>> \in Frame /\ <<"identified", n>> \in Frame
      /\ \A l \in Link : <<"tcp", l>> \in Entry
      /\ \A w \in Ws : <<"ws", w>> \in Entry /\ Home[w] \in Node
  BY DEF Frame, Entry
<1>c. \A l \in Link : Opener[l] \in Node /\ Acceptor[l] \in Node /\ Opener[l] # Acceptor[l]
  OBVIOUS
<1>d. ASSUME UNCHANGED reg
      PROVE  \A m \in Node : \A g : Registered(m, g)' <=> Registered(m, g)
  BY <1>d DEF Registered
<1>e. ASSUME UNCHANGED chan
      PROVE  \A m \in Node, k \in Link : \A g : In(g, m, k)' <=> In(g, m, k)
  BY <1>e DEF In
\* Steps that leave a client and what is known of it alone.
<1>f. ASSUME lost \subseteq lost', broken \subseteq broken', UNCHANGED <<told, client>>,
             \A n \in Node, w \in Ws :
               client[w] = "closed" /\ Registered(n, <<"ws", w>>)' => Registered(n, <<"ws", w>>),
             \A n \in Node, w \in Ws, l \in Link :
               l \notin broken' => /\ In(<<"leave", w>>, n, l) => In(<<"leave", w>>, n, l)'
                                   /\ In(<<"join", w>>, n, l)' => In(<<"join", w>>, n, l)
      PROVE  Over'
  <2>1. \A w \in Ws, l \in Link, n \in Node :
          <<w, l, n>> \in told' /\ client'[w] = "closed" =>
            <<w, l, n>> \in told /\ client[w] = "closed"
    BY <1>f
  <2>2. \A n \in Node, w \in Ws, l \in Link :
          client[w] = "closed" /\ l \notin broken' /\ IsOver(n, w, l) =>
            \/ In(<<"leave", w>>, n, l)'
            \/ ~Registered(n, <<"ws", w>>)' /\ ~In(<<"join", w>>, n, l)'
    <3> TAKE n \in Node, w \in Ws, l \in Link
    <3> HAVE client[w] = "closed" /\ l \notin broken' /\ IsOver(n, w, l)
    <3>1. CASE In(<<"leave", w>>, n, l)
      BY <1>f, <3>1
    <3>2. CASE ~Registered(n, <<"ws", w>>) /\ ~In(<<"join", w>>, n, l)
      BY <1>f, <3>2
    <3>3. QED
      BY <3>1, <3>2 DEF IsOver
  <2>3. QED
    BY <1>a, <1>f, <2>1, <2>2, OverFrom
<1>1. ASSUME NEW l \in Link, connect(l) PROVE Over'
  <2>1. ~Registered(Opener[l], <<"tcp", l>>)
    BY <1>1, <1>c DEF connect, Membership, TypeOK
  <2>2. \A m \in Node : \A g :
          Registered(m, g)' <=> Registered(m, g) \/ (m = Opener[l] /\ g = <<"tcp", l>>)
    BY <1>1, <1>a, <1>b, <1>c, <2>1, RegisterEntry DEF connect
  <2>3. QED
    BY <1>1, <1>e, <1>f, <2>2 DEF connect
<1>2. ASSUME NEW l \in Link, greet(l) PROVE Over'
  <2>1. \A m \in Node, k \in Link : \A g : In(g, m, k)' <=>
          In(g, m, k) \/ ( /\ g = <<"identify", Opener[l]>>
                          /\ k \in {l} \ broken /\ m = Peer(Opener[l], k))
    <3>1. Opener[l] \in Node /\ <<"identify", Opener[l]>> \in Frame
      BY <1>b, <1>c
    <3>2. chan' = Sent(Opener[l], {l}, <<"identify", Opener[l]>>)
      BY <1>2 DEF greet
    <3>3. QED
      BY <3>1, <3>2, SendFrame
  <2>2. QED
    BY <1>2, <1>d, <1>f, <2>1 DEF greet
<1>3. ASSUME NEW l \in Link, accept(l) PROVE Over'
  <2>1. ~Registered(Acceptor[l], <<"tcp", l>>)
    BY <1>3, <1>c DEF accept, Membership
  <2>2. \A m \in Node : \A g :
          Registered(m, g)' <=> Registered(m, g) \/ (m = Acceptor[l] /\ g = <<"tcp", l>>)
    BY <1>3, <1>a, <1>b, <1>c, <2>1, RegisterEntry DEF accept
  <2>3. QED
    BY <1>3, <1>e, <1>f, <2>2 DEF accept
<1>4. ASSUME NEW l \in Link, break(l) PROVE Over'
  BY <1>4, <1>d, <1>e, <1>f DEF break
<1>5. ASSUME NEW n \in Node, NEW l \in Link, receive_identify(n, l) PROVE Over'
  <2>1. Head(chan[n][l])[1] = "identify"
    BY <1>5 DEF receive_identify
  <2>2. \A m \in Node, k \in Link, w \in Ws :
          /\ In(<<"leave", w>>, m, k) => In(<<"leave", w>>, m, k)'
          /\ In(<<"join", w>>, m, k)' => In(<<"join", w>>, m, k)
    BY <1>5, <2>1, AnswerFrame
  <2>3. QED
    BY <1>5, <1>d, <1>f, <2>2 DEF receive_identify
<1>6. ASSUME NEW n \in Node, NEW l \in Link, Reads(n, l), Consume(n, l)
      PROVE  /\ \A m \in Node, k \in Link : \A g : In(g, m, k)' => In(g, m, k)
             /\ \A m \in Node, k \in Link : \A g : In(g, m, k) =>
                  In(g, m, k)' \/ (m = n /\ k = l /\ g = Head(chan[n][l]))
             /\ In(Head(chan[n][l]), n, l) /\ Head(chan[n][l]) \in Frame
  BY <1>6, ConsumeFrames
<1>7. ASSUME NEW n \in Node, NEW l \in Link, receive_identified(n, l) PROVE Over'
  <2>1. Head(chan[n][l])[1] = "identified"
    BY <1>7 DEF receive_identified
  <2>2. \A m \in Node, k \in Link, w \in Ws :
          /\ In(<<"leave", w>>, m, k) => In(<<"leave", w>>, m, k)'
          /\ In(<<"join", w>>, m, k)' => In(<<"join", w>>, m, k)
    BY <1>6, <1>7, <2>1 DEF receive_identified
  <2>3. QED
    BY <1>7, <1>d, <1>f, <2>2 DEF receive_identified
<1>8. ASSUME NEW n \in Node, NEW c \in Link, receive_join(n, c) PROVE Over'
  <2>1. /\ \A m \in Node, k \in Link : \A g : In(g, m, k)' => In(g, m, k)
        /\ \A m \in Node, k \in Link : \A g : In(g, m, k) =>
             In(g, m, k)' \/ (m = n /\ k = c /\ g = Head(chan[n][c]))
        /\ In(Head(chan[n][c]), n, c) /\ Head(chan[n][c]) \in Frame
    BY <1>6, <1>8 DEF receive_join
  <2>2. PICK v \in Ws : Head(chan[n][c]) = <<"join", v>>
    BY <1>8, <2>1 DEF receive_join, Frame
  <2>3. In(<<"join", v>>, n, c)
    BY <2>1, <2>2
  <2>4. ToldOver(v, c) /\ n = Peer(Home[v], c)
    BY <2>3, <1>a DEF FramesTold
  <2>5. \A m \in Node : \A g : Registered(m, g)' => Registered(m, g) \/ (m = n /\ g = <<"ws", v>>)
    <3>1. CASE Joins(n, c, v)
      <4>1. Insert(n, <<"ws", v>>) /\ ~Registered(n, <<"ws", v>>)
        BY <1>8, <2>2, <3>1 DEF receive_join, Joins
      <4>2. QED
        BY <4>1, <1>a, <1>b, RegisterEntry
    <3>2. CASE ~Joins(n, c, v)
      <4>1. UNCHANGED reg
        BY <1>8, <2>2, <3>2 DEF receive_join
      <4>2. QED
        BY <4>1, <1>d
    <3>3. QED
      BY <3>1, <3>2
  <2>6. \A m \in Node, w \in Ws, l \in Link :
          In(<<"leave", w>>, m, l) => In(<<"leave", w>>, m, l)'
    BY <2>1, <2>2
  <2>7. ASSUME NEW m \in Node, NEW w \in Ws, NEW l \in Link,
               <<w, l, m>> \in told, m = Peer(Home[w], l), IsOver(m, w, l)
        PROVE  \/ In(<<"leave", w>>, m, l)'
               \/ ~Registered(m, <<"ws", w>>)' /\ ~In(<<"join", w>>, m, l)'
    <3>1. CASE In(<<"leave", w>>, m, l)
      BY <2>6, <3>1
    <3>2. CASE ~In(<<"leave", w>>, m, l)
      <4>1. ~Registered(m, <<"ws", w>>) /\ ~In(<<"join", w>>, m, l)
        BY <2>7, <3>2 DEF IsOver
      <4>2. ~(m = n /\ w = v)
        <5> SUFFICES ASSUME m = n, w = v PROVE FALSE
          OBVIOUS
        <5>1. Home[w] \in Ends(l) /\ Home[w] \in Ends(c)
          BY <2>4, <2>7, <1>a DEF ToldLinks, ToldOver
        <5>2. Ends(l) = {Home[w], n} /\ Ends(c) = {Home[w], n}
          <6>1. Peer(Home[w], l) = n /\ Peer(Home[w], c) = n
            BY <2>4, <2>7
          <6>2. /\ Ends(l) = {Home[w], Peer(Home[w], l)}
                /\ Ends(c) = {Home[w], Peer(Home[w], c)}
            BY <5>1, PeerFacts
          <6>3. QED
            BY <6>1, <6>2
        <5>3. l = c
          BY <5>2 DEF OneLink
        <5>4. QED
          BY <2>3, <4>1, <5>3
      <4>3. ~Registered(m, <<"ws", w>>)'
        BY <2>5, <4>1, <4>2
      <4>4. QED
        BY <2>1, <4>1, <4>3
    <3>3. QED
      BY <3>1, <3>2
  <2>8. UNCHANGED <<told, client, lost, broken>>
    BY <1>8 DEF receive_join
  <2>9. QED
    BY <1>a, <2>7, <2>8, OverFrom
<1>9. ASSUME NEW n \in Node, NEW c \in Link, receive_leave(n, c) PROVE Over'
  <2>1. /\ \A m \in Node, k \in Link : \A g : In(g, m, k)' => In(g, m, k)
        /\ \A m \in Node, k \in Link : \A g : In(g, m, k) =>
             In(g, m, k)' \/ (m = n /\ k = c /\ g = Head(chan[n][c]))
        /\ In(Head(chan[n][c]), n, c) /\ Head(chan[n][c]) \in Frame
    BY <1>6, <1>9 DEF receive_leave
  <2>2. PICK v \in Ws : Head(chan[n][c]) = <<"leave", v>>
    BY <1>9, <2>1 DEF receive_leave, Frame
  <2>3. reg' = [reg EXCEPT ![n] = Without(@, <<"ws", v>>)]
    <3>1. reg' = [reg EXCEPT ![n] = Erased(n, Head(chan[n][c])[2])]
      BY <1>9 DEF receive_leave
    <3>2. Head(chan[n][c])[2] = v
      BY <2>2
    <3>3. QED
      BY <3>1, <3>2 DEF Erased
  <2>4. \A m \in Node : \A g :
          Registered(m, g)' <=> Registered(m, g) /\ ~(m = n /\ g = <<"ws", v>>)
    BY <2>3, <1>a, EraseEntry
  <2>5. ~In(<<"join", v>>, n, c)
    <3>1. ~Before(chan[n][c], <<"leave", v>>, <<"join", v>>)
      BY DEF JoinFirst
    <3>2. chan[n][c] \in Seq(Frame) /\ chan[n][c] # <<>>
      BY <1>9 DEF TypeOK, receive_leave, Reads
    <3>3. <<"join", v>> # <<"leave", v>>
      OBVIOUS
    <3>4. QED
      BY <2>2, <3>1, <3>2, <3>3, BeforeTail DEF In
  <2>6. ASSUME NEW m \in Node, NEW w \in Ws, NEW l \in Link, IsOver(m, w, l)
        PROVE  \/ In(<<"leave", w>>, m, l)'
               \/ ~Registered(m, <<"ws", w>>)' /\ ~In(<<"join", w>>, m, l)'
    <3>1. CASE m = n /\ l = c /\ w = v
      <4>1. ~Registered(n, <<"ws", v>>)' /\ ~In(<<"join", v>>, n, c)'
        BY <2>1, <2>4, <2>5
      <4>2. QED
        BY <3>1, <4>1
    <3>2. CASE ~(m = n /\ l = c /\ w = v)
      <4>1. In(<<"leave", w>>, m, l) => In(<<"leave", w>>, m, l)'
        BY <2>1, <2>2, <3>2
      <4>2. QED
        BY <2>1, <2>4, <2>6, <4>1 DEF IsOver
    <3>3. QED
      BY <3>1, <3>2
  <2>7. UNCHANGED <<told, client, lost, broken>>
    BY <1>9 DEF receive_leave
  <2>8. QED
    BY <1>a, <2>6, <2>7, OverFrom
<1>10. ASSUME NEW n \in Node, NEW l \in Link, on_error(n, l) PROVE Over'
  <2>1. \A m \in Node, k \in Link : \A g :
          (In(g, m, k)' => In(g, m, k)) /\ (k # l /\ In(g, m, k) => In(g, m, k)')
    BY <1>10, ClearFrames DEF on_error
  <2>2. \A m \in Node : \A g : Registered(m, g)' => Registered(m, g)
    BY <1>10, <1>a, EraseEntry DEF on_error
  <2>3. l \in broken /\ UNCHANGED <<client, told, broken>> /\ lost \subseteq lost'
    BY <1>10 DEF on_error
  <2>4. QED
    BY <1>f, <2>1, <2>2, <2>3
<1>11. ASSUME NEW v \in Ws, accept_client(v) PROVE Over'
  <2>1. ~Registered(Home[v], <<"ws", v>>)
    BY <1>11 DEF accept_client, Membership
  <2>2. \A m \in Node : \A g :
          Registered(m, g)' => Registered(m, g) \/ g = <<"ws", v>>
    BY <1>11, <1>a, <1>b, <2>1, RegisterEntry DEF accept_client
  <2>3. client[v] = "new" /\ UNCHANGED <<told, broken, lost, chan>>
    BY <1>11 DEF accept_client
  <2>4. \A w \in Ws : client'[w] = "closed" => client[w] = "closed"
    BY <1>11 DEF accept_client, TypeOK
  <2>5. \A m \in Node, w \in Ws : client[w] = "closed" /\ Registered(m, <<"ws", w>>)' =>
          Registered(m, <<"ws", w>>)
    BY <2>2, <2>3
  <2>6. QED
    BY <1>a, <1>e, <2>3, <2>4, <2>5, OverFrom DEF IsOver
<1>12. ASSUME NEW v \in Ws, on_accept(v) PROVE Over'
  <2>1. /\ client[v] = "handshake" /\ UNCHANGED <<reg, broken, lost>>
        /\ \A w \in Ws : client'[w] = IF w = v THEN "open" ELSE client[w]
    BY <1>12 DEF on_accept, TypeOK
  <2>2. PICK T : T = Targets(Home[v], reg[Home[v]])
    OBVIOUS
  <2>3. chan' = Sent(Home[v], T, <<"join", v>>)
    BY <1>12, <2>2 DEF on_accept
  <2>4. \A m \in Node, k \in Link : \A g :
          In(g, m, k)' <=>
            In(g, m, k) \/ (g = <<"join", v>> /\ k \in T \ broken /\ m = Peer(Home[v], k))
    <3>1. Home[v] \in Node /\ <<"join", v>> \in Frame
      BY <1>b
    <3>2. chan' = Sent(Home[v], T, <<"join", v>>)
      BY <2>3
    <3>3. QED
      BY <3>1, <3>2, SendFrame
  <2>5. \A m \in Node, w \in Ws, l \in Link :
          /\ In(<<"leave", w>>, m, l) => In(<<"leave", w>>, m, l)'
          /\ client[w] = "closed" /\ In(<<"join", w>>, m, l)' => In(<<"join", w>>, m, l)
    BY <2>1, <2>4
  <2>6. \A w \in Ws, l \in Link, n \in Node :
          <<w, l, n>> \in told' /\ client'[w] = "closed" =>
            <<w, l, n>> \in told /\ client[w] = "closed"
    BY <1>12, <2>1, ToldByAccept
  <2>7. QED
    BY <1>a, <1>d, <2>1, <2>5, <2>6, OverFrom DEF IsOver
<1>13. ASSUME NEW v \in Ws, close_client(v) PROVE Over'
  <2>1. /\ client[v] \in {"handshake", "open"} /\ UNCHANGED <<told, broken, lost>>
        /\ \A w \in Ws : client'[w] = IF w = v THEN "closed" ELSE client[w]
    BY <1>13 DEF close_client, TypeOK
  <2>2. PICK T : T = Targets(Home[v], Without(reg[Home[v]], <<"ws", v>>))
    OBVIOUS
  <2>3. chan' = Sent(Home[v], T, <<"leave", v>>)
    BY <1>13, <1>a, <2>1, <2>2 DEF close_client, HomeHolds
  <2>4. \A m \in Node, k \in Link : \A g :
          In(g, m, k)' <=>
            In(g, m, k) \/ (g = <<"leave", v>> /\ k \in T \ broken /\ m = Peer(Home[v], k))
    <3>1. Home[v] \in Node /\ <<"leave", v>> \in Frame
      BY <1>b
    <3>2. QED
      BY <2>3, <3>1, SendFrame
  <2>5. \A l \in Link, n \in Node : <<v, l, n>> \in told /\ l \notin broken =>
          In(<<"leave", v>>, n, l)'
    <3> TAKE l \in Link, n \in Node
    <3> HAVE <<v, l, n>> \in told /\ l \notin broken
    <3>1. l \in T
      BY <2>2, LeaveFollowsJoin
    <3>2. n = Peer(Home[v], l)
      BY DEF ToldNames
    <3>3. QED
      BY <2>4, <3>1, <3>2
  <2>6. \A m \in Node : \A g : Registered(m, g)' => Registered(m, g)
    BY <1>13, <1>a, <1>b, EraseEntry DEF close_client
  <2>7. \A m \in Node, w \in Ws, l \in Link :
          /\ In(<<"leave", w>>, m, l) => In(<<"leave", w>>, m, l)'
          /\ In(<<"join", w>>, m, l)' => In(<<"join", w>>, m, l)
    BY <2>4
  <2>8. \A w \in Ws, l \in Link, n \in Node :
          <<w, l, n>> \in told' /\ client'[w] = "closed" =>
            /\ <<w, l, n>> \in told
            /\ \/ client[w] = "closed" \/ l \in broken'
               \/ In(<<"leave", w>>, n, l)'
    BY <2>1, <2>5
  <2>9. QED
    BY <1>a, <2>1, <2>6, <2>7, <2>8, OverFrom DEF IsOver
<1>14. ASSUME NEW n \in Node, crash(n) PROVE Over'
  <2>1. /\ UNCHANGED <<told, lost, reg, chan>>
        /\ broken' = broken \union {l \in connected : n \in Ends(l)}
        /\ \A w \in Ws : client'[w] = IF Home[w] = n THEN "closed" ELSE client[w]
    BY <1>14 DEF crash
  <2>2. \A w \in Ws, l \in Link, m \in Node :
          <<w, l, m>> \in told /\ Home[w] = n => l \in broken'
    BY <2>1, <1>a DEF ToldLinks, ToldOver
  <2>3. \A w \in Ws, l \in Link, m \in Node :
          <<w, l, m>> \in told' /\ client'[w] = "closed" =>
            <<w, l, m>> \in told /\ (client[w] = "closed" \/ l \in broken')
    BY <2>1, <2>2
  <2>4. QED
    BY <1>a, <1>d, <1>e, <2>1, <2>3, OverFrom DEF IsOver
<1>15. CASE UNCHANGED vars
  BY <1>15, <1>d, <1>e, <1>f DEF vars
<1>16. \A n \in Node : purge[n] = {}
  BY DEF Told
<1>17. QED
  BY <1>1, <1>2, <1>3, <1>4, <1>5, <1>7, <1>8, <1>9, <1>10, <1>11, <1>12, <1>13, <1>14, <1>15,
     <1>16, QuietStep DEF Next, receive

LEMMA GhostInvariant ==
  ASSUME OneLink
  PROVE  Spec => [](Named /\ (calls = 0 => Told /\ ToldNames /\ JoinFirst /\ Over))
<1> DEFINE I == Named /\ (calls = 0 => Told /\ ToldNames /\ JoinFirst /\ Over)
<1>1. Init => I
  <2> SUFFICES ASSUME Init PROVE I
    OBVIOUS
  <2>1. /\ \A n \in Node, l \in Link : chan[n][l] = <<>> /\ known[n][l] = Nil
        /\ told = {}
    BY DEF Init
  <2>2. ToSet(<<>>) = {} /\ \A x, y : ~Before(<<>>, x, y)
    BY DEF ToSet, Before
  <2>3. Named
    BY <2>1, <2>2 DEF Named, In
  <2>4. ToldNames /\ JoinFirst /\ Over
    BY <2>1, <2>2 DEF ToldNames, JoinFirst, Over
  <2>5. QED
    BY <2>3, <2>4, ToldInit
<1>2. TypeOK /\ Membership /\ I /\ [Next]_vars => I'
  BY QuietStep, NamedStep, ToldStep, ToldNamesStep, JoinFirstStep, OverStep
<1>3. QED
  BY <1>1, <1>2, Invariant, PTL DEF Spec

\* A node that was sent a client's join over an identified link, and holds the proxy
\* when the client has closed, has the leave on its way, unless a link between the
\* two has failed: for any number of nodes, links, clients and failures and any order
\* of the hashed registries, until somebody calls disconnect and as long as no two
\* nodes have two links (NoNamedGhosts, websocket_session::disconnect, the
\* broadcasts and the leave handler).
THEOREM NoNamedGhostsHolds ==
  ASSUME OneLink
  PROVE  Spec => [](calls = 0 => NoNamedGhosts)
<1>1. Over => NoNamedGhosts
  <2> SUFFICES ASSUME Over, NEW n \in Node, NEW w \in Ws, ToldAs(n, w),
                      Registered(n, <<"ws", w>>), client[w] = "closed", ~Severed(n, Home[w])
               PROVE  OnItsWay(n, <<"leave", w>>)
    BY DEF NoNamedGhosts
  <2>1. PICK l \in Link : <<w, l, n>> \in told
    BY DEF ToldAs
  <2>2. In(<<"leave", w>>, n, l)
    BY <2>1 DEF Over, IsOver
  <2>3. QED
    BY <2>2 DEF In, OnItsWay
<1>2. QED
  BY <1>1, GhostInvariant, PTL
=============================================================================
