----------------------- MODULE ClusterPresenceProofs -----------------------
(***************************************************************************)
(* Theorems about ClusterPresence, for any nodes, links and clients.       *)
(***************************************************************************)
EXTENDS ClusterPresence, SequenceLemmas

-----------------------------------------------------------------------------
(* Registries as sequences.                                                *)

\* A registry after an insertion holds what it held and the new entry, in some order.
LEMMA InsertedShape ==
  ASSUME NEW S, NEW r \in Seq(S), NEW e \in S, NEW q \in Inserted(r, e)
  PROVE  /\ q \in Seq(S)
         /\ ToSet(q) = ToSet(r) \union {e}
         /\ IsInjective(r) /\ e \notin ToSet(r) => IsInjective(q)
<1>1. PICK a : a = Append(r, e)
  OBVIOUS
<1>2. PICK N \in Nat : N = Len(r) + 1
  OBVIOUS
<1>3. /\ a \in Seq(S) /\ Len(a) = N /\ DOMAIN a = 1..N /\ DOMAIN r = 1..(N - 1)
      /\ ToSet(a) = ToSet(r) \union {e}
      /\ a[N] = e /\ \A i \in 1..(N - 1) : a[i] = r[i]
  BY <1>1, <1>2, AppendSet
<1>4. PICK p \in Bijection(DOMAIN a, DOMAIN a) : q = [i \in DOMAIN a |-> a[p[i]]]
  BY <1>1 DEF Inserted
<1>5. /\ p \in [1..N -> 1..N]
      /\ \A i, j \in 1..N : p[i] = p[j] => i = j
      /\ \A j \in 1..N : \E i \in 1..N : p[i] = j
  BY <1>3, <1>4 DEF Bijection, Injection, Surjection, IsInjective
<1>6. q = [i \in 1..N |-> a[p[i]]]
  BY <1>3, <1>4
<1>7. \A i \in 1..N : a[i] \in S
  BY <1>3
<1>8. q \in Seq(S) /\ DOMAIN q = 1..N
  <2>1. \A i \in 1..N : a[p[i]] \in S
    BY <1>5, <1>7
  <2>2. q \in [1..N -> S]
    BY <1>6, <2>1
  <2>3. QED
    BY <1>2, <2>2, SeqDef
<1>9. ToSet(q) = ToSet(a)
  <2>1. \A i \in 1..N : q[i] = a[p[i]] /\ p[i] \in 1..N
    BY <1>5, <1>6
  <2>2. ASSUME NEW j \in 1..N PROVE \E i \in 1..N : q[i] = a[j]
    <3>1. PICK i \in 1..N : p[i] = j
      BY <1>5
    <3>2. q[i] = a[j]
      BY <2>1, <3>1
    <3>3. QED
      BY <3>2
  <2>3. ToSet(q) = {q[i] : i \in 1..N} /\ ToSet(a) = {a[i] : i \in 1..N}
    BY <1>3, <1>8 DEF ToSet
  <2>4. ASSUME NEW x PROVE x \in ToSet(q) <=> x \in ToSet(a)
    <3>1. ASSUME x \in ToSet(q) PROVE x \in ToSet(a)
      <4>1. PICK i \in 1..N : x = q[i]
        BY <2>3, <3>1
      <4>2. p[i] \in 1..N /\ x = a[p[i]]
        BY <2>1, <4>1
      <4>3. QED
        BY <2>3, <4>2
    <3>2. ASSUME x \in ToSet(a) PROVE x \in ToSet(q)
      <4>1. PICK j \in 1..N : x = a[j]
        BY <2>3, <3>2
      <4>2. PICK i \in 1..N : q[i] = a[j]
        BY <2>2
      <4>3. QED
        BY <2>3, <4>1, <4>2
    <3>3. QED
      BY <3>1, <3>2
  <2>5. QED
    BY <2>4
<1>10. ASSUME IsInjective(r), e \notin ToSet(r)
       PROVE  IsInjective(q)
  <2>1. \A i, j \in 1..(N - 1) : r[i] = r[j] => i = j
    BY <1>3, <1>10 DEF IsInjective
  <2>2. \A i \in 1..(N - 1) : r[i] # e
    BY <1>3, <1>10 DEF ToSet
  <2>3. \A i \in 1..N : i = N \/ i \in 1..(N - 1)
    OBVIOUS
  <2>4. \A i, j \in 1..N : a[i] = a[j] => i = j
    BY <1>3, <2>1, <2>2, <2>3
  <2>5. \A i, j \in 1..N : q[i] = q[j] => i = j
    BY <1>5, <1>6, <2>4
  <2>6. QED
    BY <1>8, <2>5 DEF IsInjective
<1>11. QED
  BY <1>3, <1>8, <1>9, <1>10

\* Where the entries of a registry are after an erase.
LEMMA WithoutShape ==
  ASSUME NEW S, NEW r \in Seq(S), NEW e
  PROVE  /\ Without(r, e) \in Seq(S)
         /\ e \notin ToSet(r) => Without(r, e) = r
         /\ e \in ToSet(r) => \E p \in DOMAIN r :
              /\ r[p] = e
              /\ Len(Without(r, e)) = Len(r) - 1
              /\ \A i \in 1..(Len(r) - 1) :
                   Without(r, e)[i] = IF i < p THEN r[i] ELSE r[i + 1]
<1>1. CASE e \notin ToSet(r)
  BY <1>1 DEF Without
<1>2. CASE e \in ToSet(r)
  <2>1. PICK p : p = CHOOSE i \in DOMAIN r : r[i] = e
    OBVIOUS
  <2>2. p \in DOMAIN r /\ r[p] = e
    BY <1>2, <2>1 DEF ToSet
  <2>3. Without(r, e) = RemoveAt(r, p)
    BY <1>2, <2>1 DEF Without
  <2>4. QED
    BY <1>2, <2>2, <2>3, RemoveAtShape
<1>3. QED
  BY <1>1, <1>2

\* An erase takes one entry out and no other.
LEMMA WithoutSet ==
  ASSUME NEW S, NEW r \in Seq(S), NEW e, IsInjective(r)
  PROVE  /\ Without(r, e) \in Seq(S)
         /\ IsInjective(Without(r, e))
         /\ ToSet(Without(r, e)) = ToSet(r) \ {e}
<1>1. CASE e \notin ToSet(r)
  BY <1>1, WithoutShape
<1>2. CASE e \in ToSet(r)
  <2>1. PICK q : q = Without(r, e)
    OBVIOUS
  <2>2. PICK p \in DOMAIN r :
          /\ r[p] = e
          /\ Len(q) = Len(r) - 1
          /\ \A i \in 1..(Len(r) - 1) : q[i] = IF i < p THEN r[i] ELSE r[i + 1]
    BY <1>2, <2>1, WithoutShape
  <2>3. q \in Seq(S) /\ DOMAIN q = 1..(Len(r) - 1) /\ DOMAIN r = 1..Len(r) /\ Len(r) \in Nat
    BY <2>1, <2>2, WithoutShape
  <2>4. \A i, j \in DOMAIN r : r[i] = r[j] => i = j
    BY DEF IsInjective
  <2>5. IsInjective(q)
    <3> SUFFICES ASSUME NEW i \in DOMAIN q, NEW j \in DOMAIN q, q[i] = q[j]
                 PROVE  i = j
      BY DEF IsInjective
    <3>1. i + 1 \in DOMAIN r /\ j + 1 \in DOMAIN r /\ i \in DOMAIN r /\ j \in DOMAIN r
      BY <2>3
    <3>2. QED
      BY <3>1, <2>2, <2>3, <2>4
  <2>6. ToSet(q) = ToSet(r) \ {e}
    <3>1. ASSUME NEW i \in DOMAIN q PROVE q[i] \in ToSet(r) /\ q[i] # e
      <4>1. i + 1 \in DOMAIN r /\ i \in DOMAIN r
        BY <2>3
      <4>2. QED
        BY <4>1, <2>2, <2>3, <2>4 DEF ToSet
    <3>2. ASSUME NEW k \in DOMAIN r, r[k] # e PROVE r[k] \in ToSet(q)
      <4>1. k # p
        BY <3>2, <2>2
      <4>2. CASE k < p
        <5>1. k \in DOMAIN q /\ q[k] = r[k]
          BY <4>2, <2>2, <2>3
        <5>2. QED
          BY <5>1 DEF ToSet
      <4>3. CASE k > p
        <5>1. k - 1 \in DOMAIN q /\ q[k - 1] = r[k]
          BY <4>3, <2>2, <2>3
        <5>2. QED
          BY <5>1 DEF ToSet
      <4>4. QED
        BY <4>1, <4>2, <4>3, <2>3
    <3>3. QED
      BY <3>1, <3>2 DEF ToSet
  <2>7. QED
    BY <2>1, <2>3, <2>5, <2>6
<1>3. QED
  BY <1>1, <1>2

-----------------------------------------------------------------------------
(* Links and channels.                                                     *)

\* Frame f is on its way to n over l.
In(f, n, l) == f \in ToSet(chan[n][l])

LEMMA PeerFacts ==
  ASSUME NEW l \in Link, NEW n \in Ends(l)
  PROVE  /\ n \in Node /\ Peer(n, l) \in Node
         /\ Peer(n, l) # n /\ Peer(Peer(n, l), l) = n
         /\ Ends(l) = {n, Peer(n, l)}
BY ConstantsAssumption DEF Ends, Peer

\* What a channel holds after a frame was sent.
LEMMA SentFrames ==
  ASSUME TypeOK, NEW n \in Node, NEW L, NEW f \in Frame
  PROVE  /\ Sent(n, L, f) \in [Node -> [Link -> Seq(Frame)]]
         /\ \A m \in Node, l \in Link :
              Sent(n, L, f)[m][l] = IF l \in L \ broken /\ m = Peer(n, l)
                                      THEN Append(chan[m][l], f) ELSE chan[m][l]
<1>1. \A m \in Node, l \in Link : chan[m][l] \in Seq(Frame)
  BY DEF TypeOK
<1>2. \A m \in Node, l \in Link :
        Sent(n, L, f)[m][l] = IF l \in L \ broken /\ m = Peer(n, l)
                                THEN Append(chan[m][l], f) ELSE chan[m][l]
  BY DEF Sent
<1>3. \A m \in Node, l \in Link : Sent(n, L, f)[m][l] \in Seq(Frame)
  <2> TAKE m \in Node, l \in Link
  <2>1. CASE l \in L \ broken /\ m = Peer(n, l)
    <3>1. Append(chan[m][l], f) \in Seq(Frame)
      BY <1>1
    <3>2. QED
      BY <1>2, <2>1, <3>1
  <2>2. CASE ~(l \in L \ broken /\ m = Peer(n, l))
    BY <1>1, <1>2, <2>2
  <2>3. QED
    BY <2>1, <2>2
<1>4. Sent(n, L, f) \in [Node -> [Link -> Seq(Frame)]]
  BY <1>3 DEF Sent
<1>5. QED
  BY <1>2, <1>4

LEMMA SendFrame ==
  ASSUME TypeOK, NEW n \in Node, NEW L, NEW f \in Frame, chan' = Sent(n, L, f)
  PROVE  \A m \in Node, l \in Link : \A g :
           In(g, m, l)' <=> In(g, m, l) \/ (g = f /\ l \in L \ broken /\ m = Peer(n, l))
<1> SUFFICES ASSUME NEW m \in Node, NEW l \in Link, NEW g
             PROVE  g \in ToSet(chan'[m][l]) <=>
                      \/ g \in ToSet(chan[m][l])
                      \/ g = f /\ l \in L \ broken /\ m = Peer(n, l)
  BY DEF In
<1>1. chan'[m][l] = IF l \in L \ broken /\ m = Peer(n, l)
                      THEN Append(chan[m][l], f) ELSE chan[m][l]
  BY SentFrames
<1>2. ToSet(Append(chan[m][l], f)) = ToSet(chan[m][l]) \union {f}
  <2>1. chan[m][l] \in Seq(Frame)
    BY DEF TypeOK
  <2>2. QED
    BY <2>1, AppendSet
<1>3. CASE l \in L \ broken /\ m = Peer(n, l)
  BY <1>1, <1>2, <1>3
<1>4. CASE ~(l \in L \ broken /\ m = Peer(n, l))
  BY <1>1, <1>4
<1>5. QED
  BY <1>3, <1>4

\* What the channels hold after a frame was taken from one of them.
LEMMA ConsumeFrames ==
  ASSUME TypeOK, NEW n \in Node, NEW l \in Link, Reads(n, l), Consume(n, l)
  PROVE  /\ chan' \in [Node -> [Link -> Seq(Frame)]]
         /\ \A m \in Node, k \in Link :
              chan'[m][k] = IF m = n /\ k = l THEN Tail(chan[n][l]) ELSE chan[m][k]
         /\ \A m \in Node, k \in Link : \A f : In(f, m, k)' => In(f, m, k)
         /\ \A m \in Node, k \in Link : \A f : In(f, m, k) =>
              In(f, m, k)' \/ (m = n /\ k = l /\ f = Head(chan[n][l]))
         /\ In(Head(chan[n][l]), n, l) /\ Head(chan[n][l]) \in Frame
<1>1. chan[n][l] \in Seq(Frame) /\ chan[n][l] # <<>>
  BY DEF TypeOK, Reads
<1>2. Tail(chan[n][l]) \in Seq(Frame) /\ Head(chan[n][l]) \in Frame
  BY <1>1
<1>3. \A m \in Node, k \in Link :
        chan'[m][k] = IF m = n /\ k = l THEN Tail(chan[n][l]) ELSE chan[m][k]
  BY DEF Consume, TypeOK
<1>4. chan' \in [Node -> [Link -> Seq(Frame)]]
  BY <1>2 DEF Consume, TypeOK
<1>5. /\ Head(chan[n][l]) \in ToSet(chan[n][l])
      /\ ToSet(chan[n][l]) = {Head(chan[n][l])} \union ToSet(Tail(chan[n][l]))
  BY <1>1, TailSet
<1>6. \A m \in Node, k \in Link : \A f :
        f \in ToSet(chan[m][k]) <=>
          f \in ToSet(chan'[m][k]) \/ (m = n /\ k = l /\ f = Head(chan[n][l]))
  BY <1>3, <1>5
<1>7. QED
  BY <1>2, <1>3, <1>4, <1>5, <1>6 DEF In

\* What registries hold: an entry once, a link that its node has registered, and
\* no session that has not been accepted by its own node.
Membership ==
  /\ NoDuplicates
  /\ \A n \in Node, l \in Link : Registered(n, <<"tcp", l>>) =>
       \/ n = Opener[l] /\ l \in connected
       \/ n = Acceptor[l] /\ l \in accepted
  /\ \A n \in Node, w \in Ws : Registered(n, <<"ws", w>>) => client[w] # "new"
  /\ \A n \in Node, l \in Link, w \in Ws : In(<<"join", w>>, n, l) => client[w] # "new"

\* ... or all of a channel was dropped,
LEMMA ClearFrames ==
  ASSUME TypeOK, NEW n \in Node, NEW l \in Link, chan' = [chan EXCEPT ![n][l] = <<>>]
  PROVE  \A m \in Node, k \in Link : \A f :
           In(f, m, k)' <=> In(f, m, k) /\ ~(m = n /\ k = l)
<1>1. \A m \in Node, k \in Link : chan'[m][k] = IF m = n /\ k = l THEN <<>> ELSE chan[m][k]
  BY DEF TypeOK
<1>2. ToSet(<<>>) = {}
  BY DEF ToSet
<1>3. QED
  BY <1>1, <1>2 DEF In

\* ... or a request was taken and answered.
LEMMA AnswerFrame ==
  ASSUME TypeOK, NEW n \in Node, NEW l \in Link, receive_identify(n, l)
  PROVE  /\ n \in Ends(l)
         /\ \A m \in Node, k \in Link :
              /\ m = n /\ k = l => chan'[m][k] = Tail(chan[n][l])
              /\ k = l /\ m = Peer(n, l) /\ l \notin broken =>
                   chan'[m][k] = Append(chan[m][k], <<"identified", n>>)
              /\ ~(m = n /\ k = l) /\ ~(k = l /\ m = Peer(n, l) /\ l \notin broken) =>
                   chan'[m][k] = chan[m][k]
         /\ \A m \in Node, k \in Link : \A f : In(f, m, k)' =>
              In(f, m, k) \/ (k = l /\ m = Peer(n, l) /\ f = <<"identified", n>>)
         /\ \A m \in Node, k \in Link : \A f : In(f, m, k) =>
              In(f, m, k)' \/ (m = n /\ k = l /\ f = Head(chan[n][l]))
         /\ In(Head(chan[n][l]), n, l) /\ Head(chan[n][l]) \in Frame
<1>1. <<"identified", n>> \in Frame
  BY DEF Frame
<1>2. n \in Ends(l) /\ n # Peer(n, l)
  BY PeerFacts DEF receive_identify, Reads
<1>3. /\ Sent(n, {l}, <<"identified", n>>) \in [Node -> [Link -> Seq(Frame)]]
      /\ \A m \in Node, k \in Link :
           Sent(n, {l}, <<"identified", n>>)[m][k] =
             IF k \in {l} \ broken /\ m = Peer(n, k)
               THEN Append(chan[m][k], <<"identified", n>>) ELSE chan[m][k]
  BY <1>1, SentFrames
<1>4. PICK c \in [Node -> [Link -> Seq(Frame)]] : c = Sent(n, {l}, <<"identified", n>>)
  BY <1>3
<1>5. chan' = [c EXCEPT ![n][l] = Tail(@)]
  BY <1>4 DEF receive_identify
<1>6. c[n][l] = chan[n][l]
  BY <1>2, <1>3, <1>4
<1>7. ASSUME NEW m \in Node, NEW k \in Link
      PROVE  /\ m = n /\ k = l => chan'[m][k] = Tail(chan[n][l])
             /\ k = l /\ m = Peer(n, l) /\ l \notin broken =>
                  chan'[m][k] = Append(chan[m][k], <<"identified", n>>)
             /\ ~(m = n /\ k = l) /\ ~(k = l /\ m = Peer(n, l) /\ l \notin broken) =>
                  chan'[m][k] = chan[m][k]
  <2>1. chan'[m][k] = IF m = n /\ k = l THEN Tail(chan[n][l]) ELSE c[m][k]
    BY <1>5, <1>6
  <2>2. c[m][k] = IF k \in {l} \ broken /\ m = Peer(n, k)
                    THEN Append(chan[m][k], <<"identified", n>>) ELSE chan[m][k]
    BY <1>3, <1>4
  <2>3. QED
    BY <1>2, <2>1, <2>2
<1>8. chan[n][l] \in Seq(Frame) /\ chan[n][l] # <<>> /\ Head(chan[n][l]) \in Frame
  BY DEF TypeOK, receive_identify, Reads
<1>9. /\ Head(chan[n][l]) \in ToSet(chan[n][l])
      /\ ToSet(chan[n][l]) = {Head(chan[n][l])} \union ToSet(Tail(chan[n][l]))
  BY <1>8, TailSet
<1>10. \A m \in Node, k \in Link :
         ToSet(Append(chan[m][k], <<"identified", n>>)) =
           ToSet(chan[m][k]) \union {<<"identified", n>>}
  <2> TAKE m \in Node, k \in Link
  <2>1. chan[m][k] \in Seq(Frame)
    BY DEF TypeOK
  <2>2. QED
    BY <2>1, AppendSet
<1>11. ASSUME NEW m \in Node, NEW k \in Link, NEW f
       PROVE  /\ In(f, m, k)' =>
                   In(f, m, k) \/ (k = l /\ m = Peer(n, l) /\ f = <<"identified", n>>)
              /\ In(f, m, k) =>
                   In(f, m, k)' \/ (m = n /\ k = l /\ f = Head(chan[n][l]))
  <2>1. CASE m = n /\ k = l
    BY <1>7, <1>9, <2>1 DEF In
  <2>2. CASE k = l /\ m = Peer(n, l) /\ l \notin broken
    <3>1. chan'[m][k] = Append(chan[m][k], <<"identified", n>>) /\ m # n
      BY <1>2, <1>7, <2>2
    <3>2. ToSet(chan'[m][k]) = ToSet(chan[m][k]) \union {<<"identified", n>>}
      BY <1>10, <3>1
    <3>3. QED
      BY <2>2, <3>2 DEF In
  <2>3. CASE ~(m = n /\ k = l) /\ ~(k = l /\ m = Peer(n, l) /\ l \notin broken)
    BY <1>7, <2>3 DEF In
  <2>4. QED
    BY <2>1, <2>2, <2>3
<1>12. QED
  BY <1>2, <1>7, <1>8, <1>9, <1>11 DEF In

LEMMA TargetLinks ==
  ASSUME TypeOK, NEW n \in Node, NEW r \in Seq(Entry), NEW l \in Targets(n, r)
  PROVE  l \in Link /\ <<"tcp", l>> \in ToSet(r)
BY DEF Targets, ToSet

-----------------------------------------------------------------------------
(* Types.                                                                  *)

LEMMA TypeInit == Init => TypeOK
<1> SUFFICES ASSUME Init PROVE TypeOK
  OBVIOUS
<1>1. reg \in [Node -> Seq(Entry)] /\ chan \in [Node -> [Link -> Seq(Frame)]]
  BY DEF Init
<1>2. QED
  BY <1>1, ConstantsAssumption DEF Init, TypeOK

LEMMA TypeStep ==
  ASSUME TypeOK, Membership, [Next]_vars
  PROVE  TypeOK'
<1> USE ConstantsAssumption DEF TypeOK, links, budgets
<1>a. \A n \in Node : reg[n] \in Seq(Entry)
  OBVIOUS
<1>b. \A n \in Node : \A e : Without(reg[n], e) \in Seq(Entry)
  BY <1>a, WithoutShape
<1>c. \A n \in Node, e \in Entry : Insert(n, e) => reg' \in [Node -> Seq(Entry)]
  <2> SUFFICES ASSUME NEW n \in Node, NEW e \in Entry, Insert(n, e)
               PROVE  reg' \in [Node -> Seq(Entry)]
    OBVIOUS
  <2>1. PICK q \in Inserted(reg[n], e) : reg' = [reg EXCEPT ![n] = q]
    BY DEF Insert
  <2>2. q \in Seq(Entry)
    BY <2>1, <1>a, InsertedShape
  <2>3. QED
    BY <2>1, <2>2
<1>d. \A l \in Link : Opener[l] \in Node /\ Acceptor[l] \in Node /\ Ends(l) \subseteq Node
  BY DEF Ends
<1>e. \A n \in Node : \A e \in ToSet(reg[n]) : e \in Entry
  BY <1>a DEF ToSet
<1>f. /\ \A w \in Ws : <<"join", w>> \in Frame /\ <<"leave", w>> \in Frame
      /\ \A n \in Node : <<"identify", n>> \in Frame /\ <<"identified", n>> \in Frame
      /\ \A l \in Link : <<"tcp", l>> \in Entry
      /\ \A w \in Ws : <<"ws", w>> \in Entry
  BY DEF Frame, Entry
<1>g. \A f \in Frame : /\ f[1] \in {"identify", "identified"} => f[2] \in Node
                       /\ f[1] \in {"join", "leave"} => f[2] \in Ws
  BY DEF Frame
<1>1. ASSUME NEW l \in Link, connect(l) PROVE TypeOK'
  BY <1>1, <1>c, <1>d, <1>f DEF connect
<1>2. ASSUME NEW l \in Link, greet(l) PROVE TypeOK'
  <2>1. chan' \in [Node -> [Link -> Seq(Frame)]]
    BY <1>2, <1>d, <1>f, SentFrames DEF greet
  <2>2. QED
    BY <1>2, <2>1 DEF greet
<1>3. ASSUME NEW l \in Link, accept(l) PROVE TypeOK'
  BY <1>3, <1>c, <1>d, <1>f DEF accept
<1>4. ASSUME NEW l \in Link, break(l) PROVE TypeOK'
  <2>1. broken' \subseteq connected /\ failures' \in 0..MaxFailures
    BY <1>4 DEF break, Fail
  <2>2. QED
    BY <1>4, <2>1 DEF break
<1>5. ASSUME NEW n \in Node, NEW l \in Link, receive_identify(n, l) PROVE TypeOK'
  <2>1. Sent(n, {l}, <<"identified", n>>) \in [Node -> [Link -> Seq(Frame)]]
    BY <1>f, SentFrames
  <2>2. n # Peer(n, l)
    BY <1>5, PeerFacts DEF receive_identify, Reads
  <2>3. Sent(n, {l}, <<"identified", n>>)[n][l] = chan[n][l]
    BY <2>2 DEF Sent
  <2>4. chan[n][l] # <<>> /\ chan[n][l] \in Seq(Frame)
    BY <1>5 DEF receive_identify, Reads
  <2>5. Tail(chan[n][l]) \in Seq(Frame) /\ Head(chan[n][l]) \in Frame
    BY <2>4
  <2>6. chan' \in [Node -> [Link -> Seq(Frame)]]
    BY <1>5, <2>1, <2>3, <2>5 DEF receive_identify
  <2>7. known' \in [Node -> [Link -> Node \union {Nil}]]
    BY <1>5, <2>5, <1>g DEF receive_identify
  <2>8. QED
    BY <1>5, <2>6, <2>7 DEF receive_identify
<1>6. ASSUME NEW n \in Node, NEW l \in Link, receive_identified(n, l) PROVE TypeOK'
  <2>1. chan' \in [Node -> [Link -> Seq(Frame)]] /\ Head(chan[n][l]) \in Frame
    BY <1>6, ConsumeFrames DEF receive_identified
  <2>2. known' \in [Node -> [Link -> Node \union {Nil}]]
    BY <1>6, <2>1, <1>g DEF receive_identified
  <2>3. QED
    BY <1>6, <2>1, <2>2 DEF receive_identified
<1>7. ASSUME NEW n \in Node, NEW l \in Link, receive_join(n, l) PROVE TypeOK'
  <2>1. chan' \in [Node -> [Link -> Seq(Frame)]] /\ Head(chan[n][l]) \in Frame
    BY <1>7, ConsumeFrames DEF receive_join
  <2>2. Head(chan[n][l])[2] \in Ws
    BY <1>7, <2>1, <1>g DEF receive_join
  <2>3. CASE Joins(n, l, Head(chan[n][l])[2])
    <3>1. PICK v \in Ws : v = Head(chan[n][l])[2]
      BY <2>2
    <3>2. Insert(n, <<"ws", v>>) /\ owner' = [owner EXCEPT ![n][v] = known[n][l]]
      BY <1>7, <2>3, <3>1 DEF receive_join
    <3>3. known[n][l] \in Node \union {Nil}
      OBVIOUS
    <3>4. reg' \in [Node -> Seq(Entry)] /\ owner' \in [Node -> [Ws -> Node \union {Nil}]]
      BY <3>2, <3>3, <1>c, <1>f
    <3>5. QED
      BY <1>7, <2>1, <3>4 DEF receive_join
  <2>4. CASE ~Joins(n, l, Head(chan[n][l])[2])
    BY <1>7, <2>1, <2>4 DEF receive_join
  <2>5. QED
    BY <2>3, <2>4
<1>8. ASSUME NEW n \in Node, NEW l \in Link, receive_leave(n, l) PROVE TypeOK'
  <2>1. chan' \in [Node -> [Link -> Seq(Frame)]]
    BY <1>8, ConsumeFrames DEF receive_leave
  <2>2. reg' \in [Node -> Seq(Entry)]
    BY <1>8, <1>b DEF receive_leave, Erased
  <2>3. QED
    BY <1>8, <2>1, <2>2 DEF receive_leave
<1>9. ASSUME NEW n \in Node, NEW l \in Link, on_error(n, l) PROVE TypeOK'
  <2>1. reg' \in [Node -> Seq(Entry)]
    BY <1>9, <1>b DEF on_error
  <2>2. chan' \in [Node -> [Link -> Seq(Frame)]]
    BY <1>9 DEF on_error
  <2>3. Peer(n, l) \in Node
    BY <1>9, PeerFacts DEF on_error
  <2>4. lost' \subseteq Node \X Node
    BY <1>9, <2>3 DEF on_error
  <2>5. QED
    BY <1>9, <2>1, <2>2, <2>4 DEF on_error
<1>10. ASSUME NEW w \in Ws, accept_client(w) PROVE TypeOK'
  BY <1>10, <1>c, <1>f DEF accept_client
<1>11. ASSUME NEW w \in Ws, on_accept(w) PROVE TypeOK'
  <2>1. chan' \in [Node -> [Link -> Seq(Frame)]]
    BY <1>11, <1>f, SentFrames DEF on_accept
  <2>2. told' \subseteq Ws \X Link \X (Node \union {Nil})
    <3>1. Home[w] \in Node /\ Targets(Home[w], reg[Home[w]]) \subseteq Link
      BY DEF Targets
    <3>2. \A l \in Targets(Home[w], reg[Home[w]]) :
            <<w, l, known[Home[w]][l]>> \in Ws \X Link \X (Node \union {Nil})
      BY <3>1
    <3>3. told \subseteq Ws \X Link \X (Node \union {Nil})
      OBVIOUS
    <3>4. QED
      BY <1>11, <3>2, <3>3 DEF on_accept
  <2>3. QED
    BY <1>11, <2>1, <2>2 DEF on_accept
<1>12. ASSUME NEW w \in Ws, close_client(w) PROVE TypeOK'
  <2>1. chan' \in [Node -> [Link -> Seq(Frame)]]
    BY <1>12, <1>f, SentFrames DEF close_client
  <2>2. reg' \in [Node -> Seq(Entry)]
    BY <1>12, <1>b DEF close_client
  <2>3. QED
    BY <1>12, <2>1, <2>2 DEF close_client
<1>13. ASSUME NEW n \in Node, disconnect_all(n) PROVE TypeOK'
  BY <1>13, <1>e DEF disconnect_all, Call
<1>14. ASSUME NEW n \in Node, NEW k \in Node, disconnect(n, k) PROVE TypeOK'
  BY <1>14, <1>e DEF disconnect, Call, Found
<1>15. ASSUME NEW n \in Node, NEW e \in purge[n], purge_next(n, e) PROVE TypeOK'
  <2>1. reg' \in [Node -> Seq(Entry)]
    BY <1>15, <1>b DEF purge_next
  <2>2. purge' \in [Node -> SUBSET Entry]
    BY <1>15 DEF purge_next
  <2>3. UNCHANGED <<known, owner, connected, greeted, accepted, crashed, told, calls, failures>>
    BY <1>15 DEF purge_next
  <2>4. e \in Entry /\ (e[1] = "tcp" => e[2] \in Link) /\ (e[1] = "ws" => e[2] \in Ws)
    BY DEF Entry
  <2>5. CASE ~Registered(n, e)
    BY <1>15, <2>1, <2>2, <2>3, <2>5 DEF purge_next
  <2>6. CASE Registered(n, e) /\ e[1] = "tcp"
    <3>1. e = <<"tcp", e[2]>> /\ e[2] \in Link
      BY <2>4, <2>6 DEF Entry
    <3>2. e[2] \in connected /\ n \in Ends(e[2])
      BY <2>6, <3>1 DEF Membership, Ends
    <3>3. broken' = broken \union {e[2]} /\ lost' = lost \union {<<n, Peer(n, e[2])>>}
      BY <1>15, <2>6 DEF purge_next
    <3>4. broken' \subseteq connected /\ lost' \subseteq Node \X Node
      BY <3>1, <3>2, <3>3, PeerFacts
    <3>5. chan' = [chan EXCEPT ![n][e[2]] = <<>>] /\ client' = client
      BY <1>15, <2>6 DEF purge_next
    <3>6. chan' \in [Node -> [Link -> Seq(Frame)]]
      BY <3>1, <3>5
    <3>7. QED
      BY <2>1, <2>2, <2>3, <3>4, <3>5, <3>6
  <2>7. CASE Registered(n, e) /\ e[1] = "ws"
    <3>1. chan' \in [Node -> [Link -> Seq(Frame)]]
      <4>1. chan' = Sent(n, Targets(n, Without(reg[n], e)), <<"leave", e[2]>>)
        BY <1>15, <2>7 DEF purge_next
      <4>2. <<"leave", e[2]>> \in Frame
        BY <2>4, <2>7, <1>f
      <4>3. QED
        BY <4>1, <4>2, SentFrames
    <3>2. client' \in [Ws -> {"new", "handshake", "open", "closed"}]
      BY <1>15, <2>4, <2>7 DEF purge_next
    <3>3. UNCHANGED <<broken, lost>>
      BY <1>15, <2>7 DEF purge_next
    <3>4. QED
      BY <2>1, <2>2, <2>3, <3>1, <3>2, <3>3
  <2>8. QED
    BY <2>4, <2>5, <2>6, <2>7 DEF Entry
<1>16. ASSUME NEW n \in Node, crash(n) PROVE TypeOK'
  BY <1>16 DEF crash, Fail
<1>17. CASE UNCHANGED vars
  BY <1>17 DEF vars
<1>18. QED
  BY <1>1, <1>2, <1>3, <1>4, <1>5, <1>6, <1>7, <1>8, <1>9, <1>10, <1>11, <1>12, <1>13,
     <1>14, <1>15, <1>16, <1>17 DEF Next, receive

-----------------------------------------------------------------------------
(* Registries.                                                             *)

\* A registry that gets an entry it does not hold.
LEMMA RegisterEntry ==
  ASSUME TypeOK, NoDuplicates, NEW n \in Node, NEW e \in Entry, ~Registered(n, e),
         Insert(n, e)
  PROVE  /\ NoDuplicates'
         /\ \A m \in Node : \A g :
              Registered(m, g)' <=> Registered(m, g) \/ (m = n /\ g = e)
<1>1. reg[n] \in Seq(Entry) /\ IsInjective(reg[n]) /\ e \notin ToSet(reg[n])
  BY DEF TypeOK, NoDuplicates, Registered
<1>2. PICK q \in Inserted(reg[n], e) : reg' = [reg EXCEPT ![n] = q]
  BY DEF Insert
<1>3. ToSet(q) = ToSet(reg[n]) \union {e} /\ IsInjective(q)
  BY <1>1, <1>2, InsertedShape
<1>4. \A m \in Node : reg'[m] = IF m = n THEN q ELSE reg[m]
  BY <1>2 DEF TypeOK
<1>5. NoDuplicates'
  BY <1>3, <1>4 DEF NoDuplicates
<1>6. QED
  BY <1>3, <1>4, <1>5 DEF Registered

\* A registry that an entry is erased from.
LEMMA EraseEntry ==
  ASSUME TypeOK, NoDuplicates, NEW n \in Node, NEW e,
         reg' = [reg EXCEPT ![n] = Without(@, e)]
  PROVE  /\ NoDuplicates'
         /\ \A m \in Node : \A g :
              Registered(m, g)' <=> Registered(m, g) /\ ~(m = n /\ g = e)
<1>1. reg[n] \in Seq(Entry) /\ IsInjective(reg[n])
  BY DEF TypeOK, NoDuplicates
<1>2. \A m \in Node : reg'[m] = IF m = n THEN Without(reg[n], e) ELSE reg[m]
  BY DEF TypeOK
<1>3. IsInjective(Without(reg[n], e)) /\ ToSet(Without(reg[n], e)) = ToSet(reg[n]) \ {e}
  BY <1>1, WithoutSet
<1>4. NoDuplicates'
  BY <1>2, <1>3 DEF NoDuplicates
<1>5. QED
  BY <1>2, <1>3, <1>4 DEF Registered

\* What a step may do to keep Membership.
LEMMA MembershipFrom ==
  ASSUME Membership, NoDuplicates',
         connected \subseteq connected', accepted \subseteq accepted',
         \A w \in Ws : client'[w] = "new" => client[w] = "new",
         \A n \in Node, l \in Link : Registered(n, <<"tcp", l>>)' =>
            \/ Registered(n, <<"tcp", l>>)
            \/ n = Opener[l] /\ l \in connected'
            \/ n = Acceptor[l] /\ l \in accepted',
         \A n \in Node, w \in Ws : Registered(n, <<"ws", w>>)' =>
            Registered(n, <<"ws", w>>) \/ client'[w] # "new",
         \A n \in Node, l \in Link, w \in Ws : In(<<"join", w>>, n, l)' =>
            In(<<"join", w>>, n, l) \/ client'[w] # "new"
  PROVE  Membership'
BY DEF Membership

LEMMA MembershipInit == Init => Membership
<1> SUFFICES ASSUME Init PROVE Membership
  OBVIOUS
<1>1. \A n \in Node : reg[n] = <<>> /\ \A l \in Link : chan[n][l] = <<>>
  BY DEF Init
<1>2. ToSet(<<>>) = {} /\ IsInjective(<<>>)
  BY DEF ToSet, IsInjective
<1>3. QED
  BY <1>1, <1>2 DEF Membership, NoDuplicates, Registered, In

LEMMA MembershipStep ==
  ASSUME TypeOK, TypeOK', Membership, [Next]_vars
  PROVE  Membership'
<1> USE ConstantsAssumption DEF links, budgets
<1>a. NoDuplicates
  BY DEF Membership
<1>b. /\ \A w \in Ws : <<"join", w>> \in Frame /\ <<"leave", w>> \in Frame
      /\ \A n \in Node : <<"identify", n>> \in Frame /\ <<"identified", n>> \in Frame
      /\ \A l \in Link : <<"tcp", l>> \in Entry
      /\ \A w \in Ws : <<"ws", w>> \in Entry
  BY DEF Frame, Entry
<1>c. \A l \in Link : Opener[l] \in Node /\ Acceptor[l] \in Node /\ Opener[l] # Acceptor[l]
  OBVIOUS
<1>d. ASSUME UNCHANGED reg
      PROVE  NoDuplicates' /\ \A m \in Node : \A g : Registered(m, g)' <=> Registered(m, g)
  <2>1. NoDuplicates'
    BY <1>a, <1>d DEF NoDuplicates
  <2>2. \A m \in Node : \A g : Registered(m, g)' <=> Registered(m, g)
    BY <1>d DEF Registered
  <2>3. QED
    BY <2>1, <2>2
<1>e. ASSUME UNCHANGED chan
      PROVE  \A m \in Node, k \in Link : \A g : In(g, m, k)' <=> In(g, m, k)
  BY <1>e DEF In
<1>1. ASSUME NEW l \in Link, connect(l) PROVE Membership'
  <2>1. ~Registered(Opener[l], <<"tcp", l>>)
    BY <1>1, <1>c DEF connect, Membership, TypeOK
  <2>2. /\ NoDuplicates'
        /\ \A m \in Node : \A g :
             Registered(m, g)' <=> Registered(m, g) \/ (m = Opener[l] /\ g = <<"tcp", l>>)
    BY <1>1, <1>a, <1>b, <1>c, <2>1, RegisterEntry DEF connect
  <2>3. QED
    BY <1>1, <2>2, <1>e, MembershipFrom DEF connect
<1>2. ASSUME NEW l \in Link, greet(l) PROVE Membership'
  <2>1. \A m \in Node, k \in Link : \A w \in Ws :
          In(<<"join", w>>, m, k)' => In(<<"join", w>>, m, k)
    <3>1. Opener[l] \in Node /\ <<"identify", Opener[l]>> \in Frame
      BY <1>b, <1>c
    <3>2. chan' = Sent(Opener[l], {l}, <<"identify", Opener[l]>>)
      BY <1>2 DEF greet
    <3>3. QED
      BY <3>1, <3>2, SendFrame
  <2>2. QED
    BY <1>2, <1>d, <2>1, <1>e, MembershipFrom DEF greet
<1>3. ASSUME NEW l \in Link, accept(l) PROVE Membership'
  <2>1. ~Registered(Acceptor[l], <<"tcp", l>>)
    BY <1>3, <1>c DEF accept, Membership
  <2>2. /\ NoDuplicates'
        /\ \A m \in Node : \A g :
             Registered(m, g)' <=> Registered(m, g) \/ (m = Acceptor[l] /\ g = <<"tcp", l>>)
    BY <1>3, <1>a, <1>b, <1>c, <2>1, RegisterEntry DEF accept
  <2>3. QED
    BY <1>3, <2>2, <1>e, MembershipFrom DEF accept
<1>4. ASSUME NEW l \in Link, break(l) PROVE Membership'
  BY <1>4, <1>d, <1>e, MembershipFrom DEF break
<1>5. ASSUME NEW n \in Node, NEW l \in Link, receive_identify(n, l) PROVE Membership'
  <2>5. \A m \in Node, k \in Link : \A w \in Ws :
          In(<<"join", w>>, m, k)' => In(<<"join", w>>, m, k)
    BY <1>5, AnswerFrame
  <2>6. QED
    BY <1>5, <1>d, <2>5, <1>e, MembershipFrom DEF receive_identify
<1>6. ASSUME NEW n \in Node, NEW l \in Link, receive_identified(n, l) PROVE Membership'
  <2>1. \A m \in Node, k \in Link : \A g : In(g, m, k)' => In(g, m, k)
    BY <1>6, ConsumeFrames DEF receive_identified
  <2>2. QED
    BY <1>6, <1>d, <2>1, <1>e, MembershipFrom DEF receive_identified
<1>7. ASSUME NEW n \in Node, NEW l \in Link, receive_join(n, l) PROVE Membership'
  <2>1. /\ \A m \in Node, k \in Link : \A g : In(g, m, k)' => In(g, m, k)
        /\ In(Head(chan[n][l]), n, l) /\ Head(chan[n][l]) \in Frame
    BY <1>7, ConsumeFrames DEF receive_join
  <2>2. PICK w \in Ws : Head(chan[n][l]) = <<"join", w>>
    BY <1>7, <2>1 DEF receive_join, Frame
  <2>3. client[w] # "new"
    BY <2>1, <2>2 DEF Membership
  <2>4. CASE Joins(n, l, w)
    <3>1. Insert(n, <<"ws", w>>) /\ ~Registered(n, <<"ws", w>>)
      BY <1>7, <2>2, <2>4 DEF receive_join, Joins
    <3>2. /\ NoDuplicates'
          /\ \A m \in Node : \A g :
               Registered(m, g)' <=> Registered(m, g) \/ (m = n /\ g = <<"ws", w>>)
      BY <3>1, <1>a, <1>b, RegisterEntry
    <3>3. QED
      BY <1>7, <2>1, <2>3, <3>2, <1>e, MembershipFrom DEF receive_join
  <2>5. CASE ~Joins(n, l, w)
    <3>1. UNCHANGED reg
      BY <1>7, <2>2, <2>5 DEF receive_join
    <3>2. QED
      BY <1>7, <1>d, <2>1, <3>1, <1>e, MembershipFrom DEF receive_join
  <2>6. QED
    BY <2>4, <2>5
<1>8. ASSUME NEW n \in Node, NEW l \in Link, receive_leave(n, l) PROVE Membership'
  <2>1. \A m \in Node, k \in Link : \A g : In(g, m, k)' => In(g, m, k)
    BY <1>8, ConsumeFrames DEF receive_leave
  <2>2. NoDuplicates' /\ \A m \in Node : \A g : Registered(m, g)' => Registered(m, g)
    BY <1>8, <1>a, EraseEntry DEF receive_leave, Erased
  <2>3. QED
    BY <1>8, <2>1, <2>2, <1>e, MembershipFrom DEF receive_leave
<1>9. ASSUME NEW n \in Node, NEW l \in Link, on_error(n, l) PROVE Membership'
  <2>1. \A m \in Node, k \in Link : \A g : In(g, m, k)' => In(g, m, k)
    BY <1>9, ClearFrames DEF on_error
  <2>2. NoDuplicates' /\ \A m \in Node : \A g : Registered(m, g)' => Registered(m, g)
    BY <1>9, <1>a, EraseEntry DEF on_error
  <2>3. QED
    BY <1>9, <2>1, <2>2, <1>e, MembershipFrom DEF on_error
<1>10. ASSUME NEW w \in Ws, accept_client(w) PROVE Membership'
  <2>1. ~Registered(Home[w], <<"ws", w>>)
    BY <1>10 DEF accept_client, Membership
  <2>2. /\ NoDuplicates'
        /\ \A m \in Node : \A g :
             Registered(m, g)' <=> Registered(m, g) \/ (m = Home[w] /\ g = <<"ws", w>>)
    BY <1>10, <1>a, <1>b, <2>1, RegisterEntry DEF accept_client
  <2>3. client' = [client EXCEPT ![w] = "handshake"] /\ client'[w] = "handshake"
    BY <1>10 DEF accept_client, TypeOK
  <2>4. QED
    BY <1>10, <2>2, <2>3, <1>e, MembershipFrom DEF accept_client
<1>11. ASSUME NEW w \in Ws, on_accept(w) PROVE Membership'
  <2>1. client' = [client EXCEPT ![w] = "open"] /\ client'[w] = "open"
    BY <1>11 DEF on_accept, TypeOK
  <2>2. \A m \in Node, k \in Link : \A g : In(g, m, k)' => In(g, m, k) \/ g = <<"join", w>>
    <3>1. Home[w] \in Node /\ <<"join", w>> \in Frame
      BY <1>b
    <3>2. chan' = Sent(Home[w], Targets(Home[w], reg[Home[w]]), <<"join", w>>)
      BY <1>11 DEF on_accept
    <3>3. QED
      BY <3>1, <3>2, SendFrame
  <2>3. QED
    BY <1>11, <1>d, <2>1, <2>2, <1>e, MembershipFrom DEF on_accept
<1>12. ASSUME NEW w \in Ws, close_client(w) PROVE Membership'
  <2>1. NoDuplicates' /\ \A m \in Node : \A g : Registered(m, g)' => Registered(m, g)
    BY <1>12, <1>a, EraseEntry DEF close_client
  <2>2. \A m \in Node, k \in Link : \A g : In(g, m, k)' => In(g, m, k) \/ g = <<"leave", w>>
    <3>1. Home[w] \in Node /\ <<"leave", w>> \in Frame
      BY <1>b
    <3>2. \/ UNCHANGED chan
          \/ chan' = Sent(Home[w], Targets(Home[w], Without(reg[Home[w]], <<"ws", w>>)),
                          <<"leave", w>>)
      BY <1>12 DEF close_client
    <3>3. QED
      BY <3>1, <3>2, <1>e, SendFrame
  <2>3. client' = [client EXCEPT ![w] = "closed"] /\ client'[w] = "closed"
    BY <1>12 DEF close_client, TypeOK
  <2>4. QED
    BY <1>12, <2>1, <2>2, <2>3, <1>e, MembershipFrom DEF close_client
<1>13. ASSUME NEW n \in Node, disconnect_all(n) PROVE Membership'
  BY <1>13, <1>d, <1>e, MembershipFrom DEF disconnect_all
<1>14. ASSUME NEW n \in Node, NEW k \in Node, disconnect(n, k) PROVE Membership'
  BY <1>14, <1>d, <1>e, MembershipFrom DEF disconnect
<1>15. ASSUME NEW n \in Node, NEW e \in purge[n], purge_next(n, e) PROVE Membership'
  <2>1. NoDuplicates' /\ \A m \in Node : \A g : Registered(m, g)' => Registered(m, g)
    BY <1>15, <1>a, EraseEntry DEF purge_next
  <2>2. e \in Entry /\ UNCHANGED <<connected, accepted>>
    BY <1>15 DEF TypeOK, purge_next
  <2>3. \A m \in Node, k \in Link : \A w \in Ws :
          In(<<"join", w>>, m, k)' => In(<<"join", w>>, m, k)
    <3>1. CASE UNCHANGED chan
      BY <3>1, <1>e
    <3>2. CASE e[1] = "tcp" /\ chan' = [chan EXCEPT ![n][e[2]] = <<>>]
      BY <2>2, <3>2, ClearFrames DEF Entry
    <3>3. CASE e[1] = "ws" /\ chan' = Sent(n, Targets(n, Without(reg[n], e)), <<"leave", e[2]>>)
      <4>1. <<"leave", e[2]>> \in Frame
        BY <2>2, <3>3, <1>b DEF Entry
      <4>2. QED
        BY <3>3, <4>1, SendFrame
    <3>4. QED
      BY <1>15, <3>1, <3>2, <3>3 DEF purge_next
  <2>4. \A w \in Ws : client'[w] = "new" => client[w] = "new"
    <3>1. client' = client \/ client' = [client EXCEPT ![e[2]] = "closed"]
      BY <1>15 DEF purge_next
    <3>2. client \in [Ws -> {"new", "handshake", "open", "closed"}]
      BY DEF TypeOK
    <3>3. QED
      BY <3>1, <3>2
  <2>5. QED
    BY <2>1, <2>2, <2>3, <2>4, MembershipFrom
<1>16. ASSUME NEW n \in Node, crash(n) PROVE Membership'
  BY <1>16, <1>d, <1>e, MembershipFrom DEF crash, Registered, TypeOK
<1>17. CASE UNCHANGED vars
  BY <1>17, <1>d, <1>e, MembershipFrom DEF vars
<1>18. QED
  BY <1>1, <1>2, <1>3, <1>4, <1>5, <1>6, <1>7, <1>8, <1>9, <1>10, <1>11, <1>12, <1>13,
     <1>14, <1>15, <1>16, <1>17 DEF Next, receive

LEMMA Invariant == Spec => [](TypeOK /\ Membership)
<1>1. Init => TypeOK /\ Membership
  BY TypeInit, MembershipInit
<1>2. TypeOK /\ Membership /\ [Next]_vars => (TypeOK /\ Membership)'
  BY TypeStep, MembershipStep
<1>3. QED
  BY <1>1, <1>2, PTL DEF Spec

\* Every variable of the cluster stays within its type, for any nodes, links,
\* clients, failures and calls (TypeOK, all handlers).
THEOREM TypeCorrect == Spec => []TypeOK
BY Invariant, PTL

\* No node registers a session twice or one of its own as a proxy, over however
\* many links joins come (NoDuplicates, the join handler and state::add_session).
THEOREM NoDuplicatesHolds == Spec => []NoDuplicates
<1>1. Membership => NoDuplicates
  BY DEF Membership
<1>2. QED
  BY Invariant, <1>1, PTL
=============================================================================
