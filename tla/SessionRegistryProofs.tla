----------------------- MODULE SessionRegistryProofs -----------------------
(***************************************************************************)
(* Theorems about SessionRegistry, for any number of sessions, proxies,    *)
(* application threads and calls.                                          *)
(***************************************************************************)
EXTENDS SessionRegistry, SequenceLemmas, TLAPS

\* The constants' sets are disjoint where the proofs need it, and the ids of
\* all objects are ids.
LEMMA IdFacts ==
  /\ \A s \in Object : SessionId(s) \in Id
  /\ \A s \in Strand : SessionId(s) = s
  /\ LeaveId \subseteq Id
  /\ Strand \subseteq Id
BY ConstantsAssumption DEF SessionId, Id, Object, Strand

\* Nothing is inserted but the object offered, nothing erased but the one found.
LEMMA RegistryFacts ==
  ASSUME NEW s
  PROVE  /\ Insert(s) \subseteq sessions \union {s}
         /\ sessions \subseteq Insert(s)
         /\ Erase(s) = sessions \ {s}
BY DEF Insert, Erase

\* Changing one value of a function keeps its type.
LEMMA UpdateType ==
  ASSUME NEW D, NEW R, NEW f \in [D -> R], NEW x, NEW v \in R
  PROVE  [f EXCEPT ![x] = v] \in [D -> R]
OBVIOUS

-----------------------------------------------------------------------------
(* The index by_node_id keeps its type.                                    *)

LEMMA FilingsType ==
  ASSUME NEW G \in SUBSET Group, NEW s \in Object, NEW k \in Key,
         NEW H \in Filings(G, s, k)
  PROVE  H \subseteq Group
<1>1. ASSUME NEW g \in G PROVE [g EXCEPT !.members = <<s>> \o @] \in Group
  <2>1. g.members \in Seq(Object) /\ g.key \in Key
    BY DEF Group
  <2>2. <<s>> \o g.members \in Seq(Object) /\ <<s>> \o g.members # <<>>
    <3>1. <<s>> \in Seq(Object) /\ Len(<<s>>) = 1
      OBVIOUS
    <3>2. /\ <<s>> \o g.members \in Seq(Object)
          /\ Len(<<s>> \o g.members) = 1 + Len(g.members)
      BY <2>1, <3>1, ConcatProperties
    <3>3. QED
      BY <2>1, <3>2
  <2>3. QED
    BY <2>1, <2>2 DEF Group
<1>2. [key |-> k, members |-> <<s>>] \in Group
  BY DEF Group
<1>3. CASE \E g \in Fits(G, k) :
             H = (G \ {g}) \union {[g EXCEPT !.members = <<s>> \o @]}
  BY <1>1, <1>3 DEF Fits
<1>4. CASE H = G \union {[key |-> k, members |-> <<s>>]}
  BY <1>2, <1>4
<1>5. QED
  BY <1>3, <1>4 DEF Filings

LEMMA FiledType ==
  ASSUME by_node_id \subseteq Group, node_id \in [Object -> Key],
         NEW s \in Object, NEW k \in Key, NEW H \in Filed(s, k)
  PROVE  H \subseteq Group
<1>1. Rehashed \subseteq Group
  <2> SUFFICES ASSUME NEW g \in by_node_id
               PROVE  [g EXCEPT !.key = node_id[Last(g.members)]] \in Group
    BY DEF Rehashed
  <2>1. g.members \in Seq(Object) /\ g.members # <<>>
    BY DEF Group
  <2>2. Last(g.members) \in Object
    BY <2>1 DEF Last
  <2>3. QED
    BY <2>2 DEF Group
<1>2. \/ H = by_node_id
      \/ H \in Filings(by_node_id, s, k)
      \/ H \in Filings(Rehashed, s, k)
  BY DEF Filed
<1>3. QED
  BY <1>1, <1>2, FilingsType

LEMMA UnfiledType ==
  ASSUME by_node_id \subseteq Group, NEW s
  PROVE  Unfiled(s) \subseteq Group
<1> DEFINE less(q) == RemoveAt(q, CHOOSE i \in DOMAIN q : q[i] = s)
<1>1. ASSUME NEW g \in by_node_id, s \in ToSet(g.members), g.members # <<s>>
      PROVE  [g EXCEPT !.members = less(@)] \in Group
  <2>1. g.members \in Seq(Object) /\ g.key \in Key
    BY DEF Group
  <2>2. PICK p \in DOMAIN g.members :
          p = (CHOOSE i \in DOMAIN g.members : g.members[i] = s) /\ g.members[p] = s
    BY <1>1 DEF ToSet
  <2>3. Len(g.members) \in Nat /\ Len(g.members) > 1
    BY <1>1, <2>1, <2>2, NotAlone
  <2>4. /\ RemoveAt(g.members, p) \in Seq(Object)
        /\ Len(RemoveAt(g.members, p)) = Len(g.members) - 1
    BY <2>1, <2>2, RemoveAtShape
  <2>5. less(g.members) \in Seq(Object) /\ less(g.members) # <<>>
    BY <2>1, <2>2, <2>3, <2>4
  <2> HIDE DEF less
  <2>6. QED
    BY <2>1, <2>5 DEF Group
<1>2. QED
  BY <1>1 DEF Unfiled

LEMMA FoundType ==
  ASSUME by_node_id \subseteq Group, NEW k, NEW S \in ByNodeId(k)
  PROVE  S \subseteq Object
<1>1. S = {} \/ \E g \in by_node_id : S = ToSet(g.members)
  BY DEF ByNodeId, Fits
<1>2. QED
  BY <1>1 DEF Group, ToSet

-----------------------------------------------------------------------------
(* Type correctness.                                                       *)

LEMMA TypeInit == Init => TypeOK
BY ConstantsAssumption DEF Init, TypeOK, Key, Stage, Frame, Object, Strand, Actor

LEMMA TypeStep == TypeOK /\ [Next]_vars => TypeOK'
<1> SUFFICES ASSUME TypeOK, [Next]_vars PROVE TypeOK'
  OBVIOUS
<1> USE ConstantsAssumption, IdFacts, RegistryFacts
        DEF registry, sockets, work, history, Key, Strand, Actor, Object
<1>1. ASSUME NEW t \in Tcp, add_tcp_session(t) PROVE TypeOK'
  <2>1. by_node_id' \subseteq Group
    BY <1>1, FiledType DEF TypeOK, add_tcp_session
  <2>2. QED
    BY <1>1, <2>1 DEF TypeOK, add_tcp_session, Stage, Chain
<1>2. ASSUME NEW t \in Tcp, start(t) PROVE TypeOK'
  BY <1>2 DEF TypeOK, start, Chain
<1>3. ASSUME NEW t \in Tcp, identify_begin(t) PROVE TypeOK'
  BY <1>3 DEF TypeOK, identify_begin
<1>4. ASSUME NEW t \in Tcp, identify_end(t) PROVE TypeOK'
  BY <1>4 DEF TypeOK, identify_end
<1>5. ASSUME NEW t \in Tcp, other_frame(t) PROVE TypeOK'
  BY <1>5 DEF TypeOK, other_frame
<1>6. ASSUME NEW t \in Tcp, NEW x \in Proxy, join(t, x) PROVE TypeOK'
  <2>1. by_node_id' \subseteq Group
    BY <1>6, FiledType DEF TypeOK, join
  <2>2. QED
    BY <1>6, <2>1 DEF TypeOK, join
<1>7. ASSUME NEW t \in Tcp, NEW i \in LeaveId, leave(t, i) PROVE TypeOK'
  <2>1. by_node_id' \subseteq Group
    BY <1>7, UnfiledType DEF TypeOK, leave
  <2>2. sessions' \subseteq born
    BY <1>7 DEF TypeOK, leave
  <2>3. QED
    BY <1>7, <2>1, <2>2 DEF TypeOK, leave
<1>8. ASSUME NEW w \in Ws, add_websocket_session(w) PROVE TypeOK'
  <2>1. by_node_id' \subseteq Group
    BY <1>8, FiledType DEF TypeOK, add_websocket_session
  <2>2. QED
    BY <1>8, <2>1 DEF TypeOK, add_websocket_session, Stage, Chain
<1>9. ASSUME NEW w \in Ws, handshake(w) PROVE TypeOK'
  BY <1>9 DEF TypeOK, handshake, Stage
<1>10. ASSUME NEW w \in Ws, on_accept(w) PROVE TypeOK'
  <2>1. {w} \in SUBSET Id /\ {"read", "write"} \in SUBSET Chain
    BY DEF Id, Chain
  <2>2. <<"join", w>> \in ({"join", "leave"} \X Id) \union {None}
    BY DEF Id
  <2>3. /\ chains' = [chains EXCEPT ![w] = {}] \/
            chains' = [chains EXCEPT ![w] = {"read", "write"}]
        /\ doomed' = [doomed EXCEPT ![w] = {w}] \/ doomed' = doomed
        /\ announcing' = [announcing EXCEPT ![w] = <<"join", w>>] \/
            announcing' = announcing
    BY <1>10 DEF on_accept
  <2>4. chains' \in [Strand -> SUBSET Chain]
    <3>1. /\ [chains EXCEPT ![w] = {}] \in [Strand -> SUBSET Chain]
          /\ [chains EXCEPT ![w] = {"read", "write"}] \in [Strand -> SUBSET Chain]
      BY <2>1, UpdateType DEF TypeOK
    <3>2. QED
      BY <2>3, <3>1
  <2>5. doomed' \in [Actor -> SUBSET Id]
    <3>1. [doomed EXCEPT ![w] = {w}] \in [Actor -> SUBSET Id]
      BY <2>1, UpdateType DEF TypeOK
    <3>2. QED
      BY <2>3, <3>1 DEF TypeOK
  <2>6. announcing' \in [Actor -> ({"join", "leave"} \X Id) \union {None}]
    <3>1. [announcing EXCEPT ![w] = <<"join", w>>]
            \in [Actor -> ({"join", "leave"} \X Id) \union {None}]
      BY <2>2, UpdateType DEF TypeOK
    <3>2. QED
      BY <2>3, <3>1 DEF TypeOK
  <2>7. QED
    BY <1>10, <2>4, <2>5, <2>6 DEF TypeOK, on_accept
<1>11. ASSUME NEW s \in Strand, NEW c \in {"read", "write"}, io_error(s, c) PROVE TypeOK'
  <2>1. s \in Actor /\ SessionId(s) \in Id
    OBVIOUS
  <2>2. doomed' \in [Actor -> SUBSET Id]
    BY <1>11, <2>1 DEF TypeOK, io_error
  <2>3. chains' \in [Strand -> SUBSET Chain]
    BY <1>11 DEF TypeOK, io_error
  <2>4. stream' \in [Strand -> Stage]
    BY <1>11 DEF TypeOK, io_error, Stage
  <2>5. QED
    BY <1>11, <2>2, <2>3, <2>4 DEF TypeOK, io_error
<1>12. ASSUME NEW a \in Api, disconnect_all(a) PROVE TypeOK'
  BY <1>12 DEF TypeOK, disconnect_all, Ids
<1>13. ASSUME NEW a \in Api, NEW k \in Node \union {Self}, disconnect(a, k) PROVE TypeOK'
  <2>1. PICK S \in ByNodeId(k) : doomed' = [doomed EXCEPT ![a] = Ids(S)]
    BY <1>13 DEF disconnect
  <2>2. Ids(S) \in SUBSET Id
    BY FoundType DEF Ids, TypeOK
  <2>3. QED
    BY <1>13, <2>1, <2>2 DEF TypeOK, disconnect
<1>14. ASSUME NEW a \in Actor, remove_session(a) PROVE TypeOK'
  <2>1. PICK i \in doomed[a] :
          /\ doomed' = [doomed EXCEPT ![a] = @ \ {i}]
          /\ \/ UNCHANGED <<sessions, closing>>
             \/ \E s \in ById(i) : /\ sessions' = Erase(s)
                                   /\ closing' = [closing EXCEPT ![a] = s]
    BY <1>14 DEF remove_session
  <2>2. doomed' \in [Actor -> SUBSET Id]
    BY <2>1 DEF TypeOK
  <2>3. /\ sessions' \subseteq born
        /\ closing' \in [Actor -> Object \union {None}]
    <3>1. ASSUME NEW s \in ById(i), sessions' = Erase(s),
                 closing' = [closing EXCEPT ![a] = s]
          PROVE  /\ sessions' \subseteq born
                 /\ closing' \in [Actor -> Object \union {None}]
      BY <3>1 DEF TypeOK, ById
    <3>2. CASE UNCHANGED <<sessions, closing>>
      BY <3>2 DEF TypeOK
    <3>3. QED
      BY <2>1, <3>1, <3>2
  <2>4. by_node_id' \subseteq Group
    BY <1>14, UnfiledType DEF TypeOK, remove_session
  <2>5. QED
    BY <1>14, <2>2, <2>3, <2>4 DEF TypeOK, remove_session
<1>15. ASSUME NEW a \in Actor, disconnect_tcp(a) PROVE TypeOK'
  BY <1>15 DEF TypeOK, disconnect_tcp, Stage, Closed
<1>16. ASSUME NEW a \in Actor, disconnect_websocket(a) PROVE TypeOK'
  BY <1>16 DEF TypeOK, disconnect_websocket, LeaveOf, Stage, Closed
<1>17. ASSUME NEW a \in Actor, broadcast_to_nodes(a) PROVE TypeOK'
  <2> DEFINE frame(t) == [op |-> announcing[a][1], id |-> announcing[a][2],
                          key |-> node_id[t]]
  <2>1. PICK T \in TargetSets :
          posting' = [posting EXCEPT ![a] = {<<t, frame(t)>> : t \in T}]
    BY <1>17 DEF broadcast_to_nodes
  <2>2. T \subseteq Tcp
    BY DEF TargetSets, Reachable
  <2>3. announcing[a] \in {"join", "leave"} \X Id
    BY <1>17 DEF TypeOK, broadcast_to_nodes
  <2>4. \A t \in Tcp : node_id[t] \in Key
    BY DEF TypeOK
  <2>5. \A t \in T : frame(t) \in Frame
    BY <2>2, <2>3, <2>4 DEF Frame
  <2>6. {<<t, frame(t)>> : t \in T} \in SUBSET (Tcp \X Frame)
    BY <2>2, <2>5
  <2>7. posting' \in [Actor -> SUBSET (Tcp \X Frame)]
    BY <2>1, <2>6 DEF TypeOK
  <2>8. announcing' \in [Actor -> ({"join", "leave"} \X Id) \union {None}]
    BY <1>17 DEF TypeOK, broadcast_to_nodes
  <2>9. QED
    BY <1>17, <2>7, <2>8 DEF TypeOK, broadcast_to_nodes
<1>18. ASSUME NEW a \in Actor, send(a) PROVE TypeOK'
  BY <1>18 DEF TypeOK, send
<1>19. CASE UNCHANGED vars
  BY <1>19 DEF TypeOK, vars
<1>20. QED
  BY <1>1, <1>2, <1>3, <1>4, <1>5, <1>6, <1>7, <1>8, <1>9, <1>10, <1>11, <1>12, <1>13, <1>14, <1>15, <1>16, <1>17, <1>18, <1>19 DEF Next, Step

\* Every behaviour of the registry stays within the types, whatever the number
\* of sessions and threads.
THEOREM TypeCorrect == Spec => []TypeOK
<1>1. TypeOK /\ [Next]_vars => TypeOK'
  BY TypeStep
<1>2. QED
  BY <1>1, TypeInit, PTL DEF Spec

-----------------------------------------------------------------------------
(***************************************************************************)
(* Ownership.  DisconnectedOnce is not inductive: it needs to know that an *)
(* erased object belongs to one actor, the one that erased it, until that  *)
(* actor has run disconnect() on it.                                       *)
(***************************************************************************)
Ownership ==
  /\ \A s \in Object : s \in sessions \/ s \notin born => disconnects[s] = 0
  /\ \A s \in Object : disconnects[s] <= 1
  /\ \A a \in Actor : closing[a] # None =>
       closing[a] \in born \ sessions /\ disconnects[closing[a]] = 0
  /\ \A a, b \in Actor : closing[a] # None /\ closing[a] = closing[b] => a = b

(* What a step does to the part of the state Ownership speaks of.          *)
Quiet == UNCHANGED <<sessions, born, closing, disconnects>>

Offered(s) == /\ s \notin born
              /\ born' = born \union {s}
              /\ sessions' = Insert(s)
              /\ UNCHANGED <<closing, disconnects>>

Forgotten(s) == /\ s \in sessions
                /\ sessions' = sessions \ {s}
                /\ UNCHANGED <<born, closing, disconnects>>

Taken(a, s) == /\ s \in sessions
               /\ closing[a] = None
               /\ sessions' = sessions \ {s}
               /\ closing' = [closing EXCEPT ![a] = s]
               /\ UNCHANGED <<born, disconnects>>

Disposed(a, s) == /\ closing[a] = s
                  /\ closing' = [closing EXCEPT ![a] = None]
                  /\ disconnects' = [disconnects EXCEPT ![s] = @ + 1]
                  /\ UNCHANGED <<sessions, born>>

\* Every step of every actor is one of those.
LEMMA StepShape ==
  ASSUME TypeOK, [Next]_vars
  PROVE  \/ Quiet
         \/ \E s \in Object : Offered(s)
         \/ \E s \in Object : Forgotten(s)
         \/ \E a \in Actor, s \in Object : Taken(a, s)
         \/ \E a \in Actor, s \in Object : Disposed(a, s)
<1> DEFINE Goal == \/ Quiet
                   \/ \E s \in Object : Offered(s)
                   \/ \E s \in Object : Forgotten(s)
                   \/ \E a \in Actor, s \in Object : Taken(a, s)
                   \/ \E a \in Actor, s \in Object : Disposed(a, s)
<1> USE DEF registry, sockets, work, history, Quiet
<1>1. ASSUME NEW t \in Tcp, add_tcp_session(t) PROVE Goal
  BY <1>1 DEF add_tcp_session, Offered, Object, Strand
<1>2. ASSUME NEW t \in Tcp,
             start(t) \/ identify_begin(t) \/ identify_end(t) \/ other_frame(t)
      PROVE  Goal
  BY <1>2 DEF start, identify_begin, identify_end, other_frame
<1>3. ASSUME NEW t \in Tcp, NEW x \in Proxy, join(t, x) PROVE Goal
  BY <1>3 DEF join, Offered, Object
<1>4. ASSUME NEW t \in Tcp, NEW i \in LeaveId, leave(t, i) PROVE Goal
  BY <1>4 DEF leave, Forgotten, ById, TypeOK
<1>5. ASSUME NEW w \in Ws, add_websocket_session(w) PROVE Goal
  BY <1>5 DEF add_websocket_session, Offered, Object, Strand
<1>6. ASSUME NEW w \in Ws, handshake(w) \/ on_accept(w) PROVE Goal
  BY <1>6 DEF handshake, on_accept
<1>7. ASSUME NEW s \in Strand, NEW c \in {"read", "write"}, io_error(s, c)
      PROVE  Goal
  BY <1>7 DEF io_error
<1>8. ASSUME NEW a \in Api,
             disconnect_all(a) \/ \E k \in Node \union {Self} : disconnect(a, k)
      PROVE  Goal
  BY <1>8 DEF disconnect_all, disconnect
<1>9. ASSUME NEW a \in Actor, remove_session(a) PROVE Goal
  <2>1. CASE UNCHANGED <<sessions, closing>>
    BY <1>9, <2>1 DEF remove_session
  <2>2. ASSUME NEW i, NEW s \in ById(i), sessions' = Erase(s),
               closing' = [closing EXCEPT ![a] = s]
        PROVE  Goal
    <3>1. s \in sessions /\ s \in Object
      BY DEF ById, TypeOK
    <3>2. Taken(a, s)
      BY <1>9, <2>2, <3>1 DEF remove_session, Taken, Erase
    <3>3. QED
      BY <3>1, <3>2
  <2>3. QED
    BY <1>9, <2>1, <2>2 DEF remove_session
<1>10. ASSUME NEW a \in Actor, disconnect_tcp(a) PROVE Goal
  BY <1>10 DEF disconnect_tcp, Disposed, Object, Strand
<1>11. ASSUME NEW a \in Actor, disconnect_websocket(a) PROVE Goal
  BY <1>11 DEF disconnect_websocket, Disposed, Object, Strand
<1>12. ASSUME NEW a \in Actor, broadcast_to_nodes(a) \/ send(a) PROVE Goal
  BY <1>12 DEF broadcast_to_nodes, send
<1>13. CASE UNCHANGED vars
  BY <1>13 DEF vars
<1>14. Goal
  BY <1>1, <1>2, <1>3, <1>4, <1>5, <1>6, <1>7, <1>8, <1>9, <1>10, <1>11, <1>12,
     <1>13 DEF Next, Step
<1>15. QED
  BY <1>14

LEMMA OwnershipInit == Init => Ownership
BY ConstantsAssumption DEF Init, Ownership, Actor, Object

LEMMA OwnershipStep ==
  ASSUME TypeOK, Ownership, [Next]_vars
  PROVE  Ownership'
<1> USE DEF TypeOK
<1>0. None \notin Object
  BY ConstantsAssumption
<1>1. CASE Quiet
  BY <1>1 DEF Quiet, Ownership
<1>2. ASSUME NEW s \in Object, Offered(s) PROVE Ownership'
  <2>1. \A a \in Actor : closing[a] # None =>
          closing[a] \in born' \ sessions' /\ disconnects[closing[a]] = 0
    BY <1>2 DEF Offered, Insert, Ownership
  <2>2. QED
    BY <1>2, <2>1 DEF Offered, Insert, Ownership
<1>3. ASSUME NEW s \in Object, Forgotten(s) PROVE Ownership'
  BY <1>3 DEF Forgotten, Ownership
<1>4. ASSUME NEW a \in Actor, NEW s \in Object, Taken(a, s) PROVE Ownership'
  <2>1. \A b \in Actor : b # a => closing[b] # s
    BY <1>0, <1>4 DEF Taken, Ownership
  <2>2. \A b \in Actor : closing'[b] = IF b = a THEN s ELSE closing[b]
    BY <1>4 DEF Taken
  <2>3. QED
    BY <1>0, <1>4, <2>1, <2>2 DEF Taken, Ownership
<1>5. ASSUME NEW a \in Actor, NEW s \in Object, Disposed(a, s) PROVE Ownership'
  <2>1. s \in born \ sessions /\ disconnects[s] = 0
    BY <1>0, <1>5 DEF Disposed, Ownership
  <2>2. \A b \in Actor : closing'[b] # None => closing'[b] # s /\ closing'[b] = closing[b]
    BY <1>0, <1>5 DEF Disposed, Ownership
  <2>3. \A u \in Object : disconnects'[u] = IF u = s THEN 1 ELSE disconnects[u]
    BY <1>5, <2>1 DEF Disposed
  <2>4. QED
    BY <1>0, <1>5, <2>1, <2>2, <2>3 DEF Disposed, Ownership
<1>6. QED
  BY <1>1, <1>2, <1>3, <1>4, <1>5, StepShape

LEMMA OwnershipInvariant == Spec => [](TypeOK /\ Ownership)
<1>1. Init => TypeOK /\ Ownership
  BY TypeInit, OwnershipInit
<1>2. TypeOK /\ Ownership /\ [Next]_vars => (TypeOK /\ Ownership)'
  BY TypeStep, OwnershipStep
<1>3. QED
  BY <1>1, <1>2, PTL DEF Spec

\* However many chains, handlers and threads call remove_session, disconnect()
\* runs at most once on a session, and never while it is registered.
THEOREM DisconnectedOnceHolds == Spec => []DisconnectedOnce
<1>1. Ownership => DisconnectedOnce
  BY DEF Ownership, DisconnectedOnce
<1>2. QED
  BY <1>1, OwnershipInvariant, PTL

-----------------------------------------------------------------------------
(* The registry implements SessionLifecycle.                               *)

LEMMA LifecycleInit == Init => Lifecycle!Init
BY DEF Init, Lifecycle!Init, life

LEMMA LifecycleStep ==
  ASSUME TypeOK, Ownership, [Next]_vars
  PROVE  [Lifecycle!Next]_<<life, disconnects>>
<1> USE DEF TypeOK
<1>0. None \notin Object
  BY ConstantsAssumption
<1>1. CASE Quiet
  BY <1>1 DEF Quiet, life
<1>2. ASSUME NEW s \in Object, Offered(s) PROVE Lifecycle!Offer(s)
  <2>1. life[s] = "new"
    BY <1>2 DEF Offered, life
  <2>2. (\E u \in Object : life[u] = "registered"
                         /\ [v \in Object |-> SessionId(v)][u]
                              = [v \in Object |-> SessionId(v)][s])
        <=> ById(SessionId(s)) # {}
    BY <1>2 DEF Offered, ById, life
  <2>3. s \notin sessions
    BY <1>2 DEF Offered
  <2>4. life' = [life EXCEPT ![s] = IF ById(SessionId(s)) # {} THEN "detached"
                                    ELSE "registered"]
    <3>1. CASE ById(SessionId(s)) = {}
      BY <1>2, <2>3, <3>1 DEF Offered, Insert, life
    <3>2. CASE ById(SessionId(s)) # {}
      BY <1>2, <2>3, <3>2 DEF Offered, Insert, life
    <3>3. QED
      BY <3>1, <3>2
  <2>5. QED
    BY <1>2, <2>1, <2>2, <2>4 DEF Lifecycle!Offer, Offered
<1>3. ASSUME NEW s \in Object, Forgotten(s) PROVE Lifecycle!Detach(s)
  BY <1>3 DEF Forgotten, Lifecycle!Detach, life
<1>4. ASSUME NEW a \in Actor, NEW s \in Object, Taken(a, s)
      PROVE  Lifecycle!Detach(s)
  BY <1>4 DEF Taken, Lifecycle!Detach, life
<1>5. ASSUME NEW a \in Actor, NEW s \in Object, Disposed(a, s)
      PROVE  Lifecycle!Disconnect(s)
  <2>1. s \in born \ sessions /\ disconnects[s] = 0
    BY <1>0, <1>5 DEF Disposed, Ownership
  <2>2. disconnects' = [disconnects EXCEPT ![s] = 1]
    BY <1>5, <2>1 DEF Disposed
  <2>3. life[s] = "detached" /\ life' = life
    BY <1>5, <2>1 DEF Disposed, life
  <2>4. QED
    BY <2>1, <2>2, <2>3 DEF Lifecycle!Disconnect
<1>6. QED
  BY <1>1, <1>2, <1>3, <1>4, <1>5, StepShape DEF Lifecycle!Next, Quiet

\* Every behaviour of the registry, whatever its threads do, is a behaviour of
\* the abstract life of its session objects: in particular no step runs
\* disconnect() on an object a second time, or before its erase.
THEOREM ImplementsLifecycle == Spec => LifecycleSpec
<1>1. Init => Lifecycle!Init
  BY LifecycleInit
<1>2. TypeOK /\ Ownership /\ [Next]_vars => [Lifecycle!Next]_<<life, disconnects>>
  BY LifecycleStep
<1>3. QED
  BY <1>1, <1>2, OwnershipInvariant, PTL
     DEF Spec, LifecycleSpec, Lifecycle!Spec, Lifecycle!vars

-----------------------------------------------------------------------------
(***************************************************************************)
(* A leave follows its session's erase.  The trail of a leave is: the      *)
(* frame an actor is about to broadcast, the frames it still has to send,  *)
(* the frames in the outboxes.  Anywhere on it, the session is gone.       *)
(***************************************************************************)
Gone(i) == i \in Ws => i \in born \ sessions

LeaveTrail ==
  /\ \A a \in Actor :
       announcing[a] # None /\ announcing[a][1] = "leave" => Gone(announcing[a][2])
  /\ \A a \in Actor : \A p \in posting[a] : p[2].op = "leave" => Gone(p[2].id)
  /\ \A t \in Tcp : \A n \in DOMAIN outbox[t] :
       outbox[t][n].op = "leave" => Gone(outbox[t][n].id)

\* What is gone stays gone: nothing is inserted but objects just constructed.
LEMMA GoneStable ==
  ASSUME TypeOK, [Next]_vars, NEW i, Gone(i)
  PROVE  Gone(i)'
<1>1. CASE Quiet
  BY <1>1 DEF Quiet, Gone
<1>2. ASSUME NEW s \in Object, Offered(s) PROVE Gone(i)'
  BY <1>2 DEF Offered, Insert, Gone
<1>3. ASSUME NEW s \in Object, Forgotten(s) PROVE Gone(i)'
  BY <1>3 DEF Forgotten, Gone
<1>4. ASSUME NEW a \in Actor, NEW s \in Object, Taken(a, s) PROVE Gone(i)'
  BY <1>4 DEF Taken, Gone
<1>5. ASSUME NEW a \in Actor, NEW s \in Object, Disposed(a, s) PROVE Gone(i)'
  BY <1>5 DEF Disposed, Gone
<1>6. QED
  BY <1>1, <1>2, <1>3, <1>4, <1>5, StepShape

LEMMA LeaveTrailInit == Init => LeaveTrail
BY DEF Init, LeaveTrail

\* An action that touches neither announcing, posting nor outbox.
LEMMA LeaveTrailFrame ==
  ASSUME TypeOK, LeaveTrail, [Next]_vars, UNCHANGED <<announcing, posting, outbox>>
  PROVE  LeaveTrail'
BY GoneStable DEF LeaveTrail

LEMMA LeaveTrailStep ==
  ASSUME TypeOK, Ownership, LeaveTrail, [Next]_vars
  PROVE  LeaveTrail'
<1> USE DEF registry, sockets, work, history
<1>1. ASSUME NEW w \in Ws, on_accept(w) PROVE LeaveTrail'
  <2>1. UNCHANGED <<posting, outbox>>
    BY <1>1 DEF on_accept
  <2>2. announcing' = announcing \/ announcing' = [announcing EXCEPT ![w] = <<"join", w>>]
    BY <1>1 DEF on_accept
  <2>3. \A a \in Actor : \/ announcing'[a] = announcing[a]
                        \/ announcing'[a][1] = "join"
    BY <2>2 DEF TypeOK
  <2>4. QED
    BY <2>1, <2>3, GoneStable DEF LeaveTrail
<1>2. ASSUME NEW a \in Actor, disconnect_websocket(a) PROVE LeaveTrail'
  <2>1. PICK s \in Ws \union Proxy :
          /\ closing[a] = s
          /\ announcing' = [announcing EXCEPT ![a] = <<"leave", SessionId(s)>>]
    BY <1>2 DEF disconnect_websocket, LeaveOf
  <2>2. s \in born \ sessions
    BY <2>1, ConstantsAssumption DEF Ownership, Object, Strand
  <2>3. Gone(SessionId(s))
    BY <2>2, ConstantsAssumption DEF Gone, SessionId, Strand
  <2>4. UNCHANGED <<posting, outbox>>
    BY <1>2 DEF disconnect_websocket
  <2>5. \A b \in Actor : \/ announcing'[b] = announcing[b]
                        \/ announcing'[b] = <<"leave", SessionId(s)>>
    BY <2>1 DEF TypeOK
  <2>6. QED
    BY <2>3, <2>4, <2>5, GoneStable DEF LeaveTrail
<1>3. ASSUME NEW a \in Actor, broadcast_to_nodes(a) PROVE LeaveTrail'
  <2>1. PICK T \in TargetSets : posting' = [posting EXCEPT ![a] =
          {<<t, [op |-> announcing[a][1], id |-> announcing[a][2],
                 key |-> node_id[t]]>> : t \in T}]
    BY <1>3 DEF broadcast_to_nodes
  <2>2. \A p \in posting'[a] : p[2].op = announcing[a][1] /\ p[2].id = announcing[a][2]
    BY <2>1 DEF TypeOK
  <2>3. \A b \in Actor : b # a => posting'[b] = posting[b]
    BY <2>1 DEF TypeOK
  <2>4. announcing[a] # None /\ announcing' = [announcing EXCEPT ![a] = None]
    BY <1>3 DEF broadcast_to_nodes
  <2>5. \A b \in Actor : announcing'[b] = IF b = a THEN None ELSE announcing[b]
    BY <2>4 DEF TypeOK
  <2>6. outbox' = outbox
    BY <1>3 DEF broadcast_to_nodes
  <2>7. QED
    BY <2>2, <2>3, <2>4, <2>5, <2>6, GoneStable DEF LeaveTrail
<1>4. ASSUME NEW a \in Actor, send(a) PROVE LeaveTrail'
  <2>1. PICK p \in posting[a] :
          /\ posting' = [posting EXCEPT ![a] = @ \ {p}]
          /\ outbox' = [outbox EXCEPT ![p[1]] = Append(@, p[2])]
    BY <1>4 DEF send
  <2>2. p[1] \in Tcp /\ p[2] \in Frame
    BY DEF TypeOK
  <2>3. \A b \in Actor : posting'[b] \subseteq posting[b]
    BY <2>1 DEF TypeOK
  <2>4. \A t \in Tcp : \A n \in DOMAIN outbox'[t] :
          \/ n \in DOMAIN outbox[t] /\ outbox'[t][n] = outbox[t][n]
          \/ outbox'[t][n] = p[2]
    <3>1. ASSUME NEW t \in Tcp, NEW n \in DOMAIN Append(outbox[t], p[2])
          PROVE  \/ n \in DOMAIN outbox[t]
                      /\ Append(outbox[t], p[2])[n] = outbox[t][n]
                 \/ Append(outbox[t], p[2])[n] = p[2]
      BY <2>2, outbox[t] \in Seq(Frame) DEF TypeOK
    <3>2. \A t \in Tcp : outbox'[t] = outbox[t] \/ outbox'[t] = Append(outbox[t], p[2])
      BY <2>1 DEF TypeOK
    <3>3. QED
      BY <3>1, <3>2
  <2>5. announcing' = announcing
    BY <1>4 DEF send
  <2>6. QED
    BY <2>3, <2>4, <2>5, GoneStable DEF LeaveTrail
<1>5. ASSUME UNCHANGED <<announcing, posting, outbox>> PROVE LeaveTrail'
  BY <1>5, LeaveTrailFrame
<1>6. QED
  BY <1>1, <1>2, <1>3, <1>4, <1>5
     DEF Next, Step, vars, add_tcp_session, start, add_websocket_session,
         handshake, identify_begin, identify_end, other_frame, join, leave,
         io_error, disconnect, disconnect_all, remove_session, disconnect_tcp

\* No link is ever sent the leave of a local websocket session that is still
\* registered, whatever threads race to remove it (state::remove_session,
\* websocket_session::disconnect).
THEOREM LeaveMeansGoneHolds == Spec => []LeaveMeansGone
<1>1. Init => LeaveTrail
  BY LeaveTrailInit
<1>2. TypeOK /\ Ownership /\ LeaveTrail /\ [Next]_vars => LeaveTrail'
  BY LeaveTrailStep
<1>3. LeaveTrail => LeaveMeansGone
  BY DEF LeaveTrail, LeaveMeansGone, Carries, Gone
<1>4. QED
  BY <1>1, <1>2, <1>3, OwnershipInvariant, PTL DEF Spec

-----------------------------------------------------------------------------
(***************************************************************************)
(* Without application threads.  Then every strand removes, disconnects    *)
(* and announces its own session only, one thing at a time.                *)
(***************************************************************************)
OwnBusiness ==
  \A a \in Actor :
    /\ doomed[a] \subseteq {a}
    /\ closing[a] \in {None, a}
    /\ announcing[a] # None =>
         announcing[a][2] = a /\ closing[a] = None /\ posting[a] = {}
    /\ \A p \in posting[a] : p[2].id = a
    /\ posting[a] # {} => closing[a] = None

LEMMA OwnBusinessInit == Init => OwnBusiness
BY DEF Init, OwnBusiness

LEMMA OwnBusinessStep ==
  ASSUME Api = {}, TypeOK, OwnBusiness, [Next]_vars
  PROVE  OwnBusiness'
<1> USE DEF registry, sockets, work, history
<1>1. ASSUME NEW w \in Ws, on_accept(w) PROVE OwnBusiness'
  <2>1. w \in Actor
    BY DEF Actor, Strand
  <2>2. /\ doomed' = [doomed EXCEPT ![w] = {w}] \/ doomed' = doomed
        /\ announcing' = [announcing EXCEPT ![w] = <<"join", w>>] \/
            announcing' = announcing
    BY <1>1 DEF on_accept
  <2>3. \A a \in Actor : doomed'[a] \subseteq doomed[a] \union {a}
    BY <2>1, <2>2 DEF TypeOK
  <2>4. \A a \in Actor :
          announcing'[a] = announcing[a] \/ (a = w /\ announcing'[a] = <<"join", a>>)
    BY <2>1, <2>2 DEF TypeOK
  <2>5. Idle(w) /\ UNCHANGED <<closing, posting>>
    BY <1>1 DEF on_accept, Ready
  <2>6. QED
    BY <2>1, <2>3, <2>4, <2>5 DEF OwnBusiness, Idle
<1>2. ASSUME NEW s \in Strand, NEW c \in {"read", "write"}, io_error(s, c)
      PROVE  OwnBusiness'
  <2>1. \A a \in Actor : doomed'[a] \subseteq doomed[a] \union {a}
    BY <1>2, IdFacts DEF io_error, TypeOK, Actor
  <2>2. QED
    BY <1>2, <2>1 DEF io_error, OwnBusiness
<1>3. ASSUME NEW a \in Actor, remove_session(a) PROVE OwnBusiness'
  <2>1. PICK i \in doomed[a] :
          /\ doomed' = [doomed EXCEPT ![a] = @ \ {i}]
          /\ \/ UNCHANGED closing
             \/ \E s \in ById(i) : closing' = [closing EXCEPT ![a] = s]
    BY <1>3 DEF remove_session
  <2>2. i = a /\ a \in Strand
    BY DEF OwnBusiness, Actor
  <2>3. \A s \in ById(i) : s = a
    BY <2>2, ConstantsAssumption DEF ById, SessionId, TypeOK, Object
  <2>4. /\ closing' = closing \/ closing' = [closing EXCEPT ![a] = a]
        /\ \A b \in Actor : doomed'[b] \subseteq doomed[b]
    BY <2>1, <2>3 DEF TypeOK
  <2>5. /\ announcing[a] = None /\ posting[a] = {}
        /\ UNCHANGED <<announcing, posting>>
    BY <1>3 DEF remove_session
  <2>6. \A b \in Actor : closing'[b] = closing[b] \/ (b = a /\ closing'[b] = a)
    BY <2>4 DEF TypeOK
  <2>7. QED
    BY <2>4, <2>5, <2>6 DEF OwnBusiness
<1>4. ASSUME NEW a \in Actor, disconnect_tcp(a) PROVE OwnBusiness'
  <2>1. \A b \in Actor : closing'[b] \in {None, closing[b]}
    BY <1>4 DEF disconnect_tcp, TypeOK
  <2>2. QED
    BY <1>4, <2>1 DEF disconnect_tcp, OwnBusiness
<1>5. ASSUME NEW a \in Actor, disconnect_websocket(a) PROVE OwnBusiness'
  <2>1. PICK s \in Ws \union Proxy :
          /\ closing[a] = s
          /\ closing' = [closing EXCEPT ![a] = None]
          /\ announcing' = [announcing EXCEPT ![a] = <<"leave", SessionId(s)>>]
    BY <1>5 DEF disconnect_websocket, LeaveOf
  <2>2. s # None /\ s = a /\ SessionId(s) = a
    BY <2>1, IdFacts, ConstantsAssumption DEF OwnBusiness, Object, Strand, Actor
  <2>3. UNCHANGED <<doomed, posting>>
    BY <1>5 DEF disconnect_websocket
  <2>4. posting[a] = {}
    BY <2>1, <2>2 DEF OwnBusiness
  <2>5. \A b \in Actor :
          /\ closing'[b] = IF b = a THEN None ELSE closing[b]
          /\ announcing'[b] = IF b = a THEN <<"leave", a>> ELSE announcing[b]
    BY <2>1, <2>2 DEF TypeOK
  <2>6. QED
    BY <2>3, <2>4, <2>5 DEF OwnBusiness
<1>6. ASSUME NEW a \in Actor, broadcast_to_nodes(a) PROVE OwnBusiness'
  <2>1. PICK T \in TargetSets : posting' = [posting EXCEPT ![a] =
          {<<t, [op |-> announcing[a][1], id |-> announcing[a][2],
                 key |-> node_id[t]]>> : t \in T}]
    BY <1>6 DEF broadcast_to_nodes
  <2>2. \A p \in posting'[a] : p[2].id = announcing[a][2]
    BY <2>1 DEF TypeOK
  <2>3. \A b \in Actor : b # a => posting'[b] = posting[b]
    BY <2>1 DEF TypeOK
  <2>4. \A b \in Actor : announcing'[b] = IF b = a THEN None ELSE announcing[b]
    BY <1>6 DEF broadcast_to_nodes, TypeOK
  <2>5. announcing[a] # None /\ UNCHANGED <<doomed, closing>>
    BY <1>6 DEF broadcast_to_nodes
  <2>6. QED
    BY <2>2, <2>3, <2>4, <2>5 DEF OwnBusiness
<1>7. ASSUME NEW a \in Actor, send(a) PROVE OwnBusiness'
  <2>1. \A b \in Actor : posting'[b] \subseteq posting[b]
    BY <1>7 DEF send, TypeOK
  <2>2. UNCHANGED <<doomed, closing, announcing>>
    BY <1>7 DEF send
  <2>3. QED
    BY <2>1, <2>2 DEF OwnBusiness
<1>8. ASSUME UNCHANGED work PROVE OwnBusiness'
  BY <1>8 DEF OwnBusiness
<1>9. QED
  BY <1>1, <1>2, <1>3, <1>4, <1>5, <1>6, <1>7, <1>8
     DEF Next, Step, vars, add_tcp_session, start, add_websocket_session,
         handshake, identify_begin, identify_end, other_frame, join, leave

\* What an append to an outbox adds.
LEMMA Appended ==
  ASSUME NEW q \in Seq(Frame), NEW f \in Frame
  PROVE  /\ \A n \in DOMAIN Append(q, f) :
              \/ n \in DOMAIN q /\ Append(q, f)[n] = q[n] /\ n < Len(q) + 1
              \/ n = Len(q) + 1 /\ Append(q, f)[n] = f
         /\ \A n \in DOMAIN q : n \in DOMAIN Append(q, f) /\ Append(q, f)[n] = q[n]
         /\ Len(q) + 1 \in DOMAIN Append(q, f) /\ Append(q, f)[Len(q) + 1] = f
OBVIOUS

\* A send takes one frame from what is posted to the end of one outbox.
Sends(a, p) ==
  /\ p[1] \in Tcp /\ p[2] \in Frame
  /\ \A b \in Actor : posting'[b] = IF b = a THEN posting[a] \ {p} ELSE posting[b]
  /\ \A t \in Tcp : outbox'[t] = IF t = p[1] THEN Append(outbox[t], p[2]) ELSE outbox[t]
  /\ \A t \in Tcp : \A n \in DOMAIN outbox'[t] :
       \/ /\ n \in DOMAIN outbox[t] /\ n < Len(outbox[t]) + 1
          /\ outbox'[t][n] = outbox[t][n]
       \/ t = p[1] /\ n = Len(outbox[t]) + 1 /\ outbox'[t][n] = p[2]
  /\ \A t \in Tcp : \A n \in DOMAIN outbox[t] :
       n \in DOMAIN outbox'[t] /\ outbox'[t][n] = outbox[t][n]
  /\ \E n \in DOMAIN outbox'[p[1]] : outbox'[p[1]][n] = p[2]

LEMMA SendShape ==
  ASSUME TypeOK, NEW a \in Actor, send(a)
  PROVE  \E p \in posting[a] : Sends(a, p)
<1>1. PICK p \in posting[a] :
        /\ posting' = [posting EXCEPT ![a] = @ \ {p}]
        /\ outbox' = [outbox EXCEPT ![p[1]] = Append(@, p[2])]
  BY DEF send
<1>2. p \in Tcp \X Frame
  BY DEF TypeOK
<1>3. p[1] \in Tcp /\ p[2] \in Frame
  BY <1>2
<1>4. \A b \in Actor : posting'[b] = IF b = a THEN posting[a] \ {p} ELSE posting[b]
  BY <1>1 DEF TypeOK
<1>5. \A t \in Tcp : /\ outbox[t] \in Seq(Frame)
                     /\ outbox'[t] = IF t = p[1] THEN Append(outbox[t], p[2])
                                     ELSE outbox[t]
  BY <1>1 DEF TypeOK
<1> DEFINE q == outbox[p[1]]
<1>6. /\ \A n \in DOMAIN Append(q, p[2]) :
           \/ n \in DOMAIN q /\ Append(q, p[2])[n] = q[n] /\ n < Len(q) + 1
           \/ n = Len(q) + 1 /\ Append(q, p[2])[n] = p[2]
      /\ \A n \in DOMAIN q : n \in DOMAIN Append(q, p[2]) /\ Append(q, p[2])[n] = q[n]
      /\ Len(q) + 1 \in DOMAIN Append(q, p[2]) /\ Append(q, p[2])[Len(q) + 1] = p[2]
  BY <1>3, <1>5, Appended
<1>7. outbox'[p[1]] = Append(q, p[2])
  BY <1>3, <1>5
<1> HIDE DEF q
<1>8. ASSUME NEW t \in Tcp
      PROVE  /\ \A n \in DOMAIN outbox'[t] :
                  \/ /\ n \in DOMAIN outbox[t] /\ n < Len(outbox[t]) + 1
                     /\ outbox'[t][n] = outbox[t][n]
                  \/ t = p[1] /\ n = Len(outbox[t]) + 1 /\ outbox'[t][n] = p[2]
             /\ \A n \in DOMAIN outbox[t] :
                  n \in DOMAIN outbox'[t] /\ outbox'[t][n] = outbox[t][n]
  <2>1. CASE t = p[1]
    BY <1>6, <1>7, <2>1, Zenon DEF q
  <2>2. CASE t # p[1]
    BY <1>5, <2>2
  <2>3. QED
    BY <2>1, <2>2
<1>9. \E n \in DOMAIN outbox'[p[1]] : outbox'[p[1]][n] = p[2]
  BY <1>6, <1>7, Zenon
<1>10. Sends(a, p)
  BY <1>3, <1>4, <1>5, <1>8, <1>9 DEF Sends
<1>11. QED
  BY <1>10

\* What a step of others leaves of a local websocket session and its strand.
Untouched(w) ==
  /\ w \in born' <=> w \in born
  /\ chains'[w] = chains[w]
  /\ disconnects'[w] = disconnects[w]
  /\ doomed'[w] = doomed[w] /\ closing'[w] = closing[w]
  /\ announcing'[w] = announcing[w] /\ posting'[w] = posting[w]
  /\ \A t \in Tcp : \/ outbox'[t] = outbox[t]
                    \/ \E f \in Frame : f.id # w /\ outbox'[t] = Append(outbox[t], f)

Touches(w) ==
  \/ add_websocket_session(w) \/ on_accept(w) \/ Step(w)
  \/ \E c \in {"read", "write"} : io_error(w, c)

LEMMA StrandShape ==
  ASSUME Api = {}, TypeOK, OwnBusiness, [Next]_vars, NEW w \in Ws
  PROVE  Untouched(w) \/ Touches(w)
<1> USE ConstantsAssumption
        DEF registry, sockets, work, history, Untouched, Actor, Strand, Object
<1>1. ASSUME NEW t \in Tcp, add_tcp_session(t) PROVE Untouched(w)
  BY <1>1 DEF add_tcp_session, TypeOK
<1>2. ASSUME NEW t \in Tcp,
             start(t) \/ identify_begin(t) \/ identify_end(t) \/ other_frame(t)
      PROVE  Untouched(w)
  BY <1>2 DEF start, identify_begin, identify_end, other_frame, TypeOK
<1>3. ASSUME NEW t \in Tcp, NEW x \in Proxy, join(t, x) PROVE Untouched(w)
  BY <1>3 DEF join
<1>4. ASSUME NEW t \in Tcp, NEW i \in LeaveId, leave(t, i) PROVE Untouched(w)
  BY <1>4 DEF leave
<1>5. ASSUME NEW v \in Ws, v # w, add_websocket_session(v) PROVE Untouched(w)
  BY <1>5 DEF add_websocket_session, TypeOK
<1>6. ASSUME NEW v \in Ws, handshake(v) PROVE Untouched(w)
  BY <1>6 DEF handshake
<1>7. ASSUME NEW v \in Ws, v # w, on_accept(v) PROVE Untouched(w)
  BY <1>7 DEF on_accept, TypeOK
<1>8. ASSUME NEW s \in Strand, s # w, NEW c \in {"read", "write"}, io_error(s, c)
      PROVE  Untouched(w)
  BY <1>8 DEF io_error, TypeOK
<1>9. ASSUME NEW a \in Actor, a # w, remove_session(a) PROVE Untouched(w)
  BY <1>9 DEF remove_session, TypeOK
<1>10. ASSUME NEW a \in Actor, a # w, disconnect_tcp(a) PROVE Untouched(w)
  BY <1>10 DEF disconnect_tcp, TypeOK
<1>11. ASSUME NEW a \in Actor, a # w, disconnect_websocket(a) PROVE Untouched(w)
  <2>1. closing[a] # w
    BY <1>11 DEF OwnBusiness
  <2>2. disconnects'[w] = disconnects[w]
    BY <1>11, <2>1 DEF disconnect_websocket, TypeOK
  <2>3. QED
    BY <1>11, <2>2 DEF disconnect_websocket, TypeOK
<1>12. ASSUME NEW a \in Actor, a # w, broadcast_to_nodes(a) PROVE Untouched(w)
  BY <1>12 DEF broadcast_to_nodes, TypeOK
<1>13. ASSUME NEW a \in Actor, a # w, send(a) PROVE Untouched(w)
  <2>1. PICK p \in posting[a] : Sends(a, p)
    BY <1>13, SendShape
  <2>2. p[2].id # w
    BY <1>13 DEF OwnBusiness
  <2>3. UNCHANGED <<born, chains, disconnects, doomed, closing, announcing>>
    BY <1>13 DEF send
  <2>4. posting'[w] = posting[w]
    BY <1>13, <2>1 DEF Sends
  <2>5. \A t \in Tcp : \/ outbox'[t] = outbox[t]
                      \/ \E f \in Frame : f.id # w /\ outbox'[t] = Append(outbox[t], f)
    <3>1. /\ p[2] \in Frame
          /\ \A t \in Tcp : outbox'[t] = IF t = p[1] THEN Append(outbox[t], p[2])
                                         ELSE outbox[t]
      BY <2>1, Zenon DEF Sends
    <3>2. QED
      BY <2>2, <3>1, Zenon
  <2>6. QED
    BY <2>3, <2>4, <2>5
<1>14. CASE UNCHANGED vars
  BY <1>14 DEF vars
<1>15. QED
  BY <1>1, <1>2, <1>3, <1>4, <1>5, <1>6, <1>7, <1>8, <1>9, <1>10, <1>11, <1>12,
     <1>13, <1>14 DEF Next, Step, Touches

\* A session says nothing before its handshake is complete, then joins, and only
\* then may be disconnected and leave.
Silent(w) == \A t \in Tcp : \A n \in DOMAIN outbox[t] : outbox[t][n].id # w

Joining(w) == \/ announcing[w] = <<"join", w>>
              \/ \E p \in posting[w] : p[2].op = "join"

Phases(w) ==
  /\ w \notin born => chains[w] = {}
  /\ "accept" \in chains[w] => chains[w] = {"accept"}
  /\ w \notin born \/ "accept" \in chains[w] =>
       Idle(w) /\ Silent(w) /\ disconnects[w] = 0
  /\ Joining(w) => /\ disconnects[w] = 0
                   /\ \A p \in posting[w] : p[2].op = "join"
                   /\ \A t \in Tcp : ~Carries(t, "leave", w)

InOrder(w) ==
  \A t \in Tcp : \A m, n \in DOMAIN outbox[t] :
    /\ outbox[t][m].id = w /\ outbox[t][m].op = "leave"
    /\ outbox[t][n].id = w /\ outbox[t][n].op = "join"
    => n < m

LEMMA PhasesInit == ASSUME NEW w \in Ws PROVE Init => Phases(w) /\ InOrder(w)
BY ConstantsAssumption
   DEF Init, Phases, InOrder, Joining, Idle, Silent, Carries, Actor, Strand, Object

LEMMA PhasesUntouched ==
  ASSUME TypeOK, NEW w \in Ws, Phases(w), InOrder(w), Untouched(w)
  PROVE  (Phases(w) /\ InOrder(w))'
<1>1. \A t \in Tcp : \A n \in DOMAIN outbox'[t] :
        \/ n \in DOMAIN outbox[t] /\ outbox'[t][n] = outbox[t][n]
        \/ outbox'[t][n].id # w
  <2>1. ASSUME NEW t \in Tcp, NEW f \in Frame, f.id # w,
               outbox'[t] = Append(outbox[t], f), NEW n \in DOMAIN outbox'[t]
        PROVE  \/ n \in DOMAIN outbox[t] /\ outbox'[t][n] = outbox[t][n]
               \/ outbox'[t][n].id # w
    BY <2>1, outbox[t] \in Seq(Frame), Appended DEF TypeOK
  <2>2. QED
    BY <2>1 DEF Untouched
<1>2. /\ Silent(w) => Silent(w)'
      /\ \A t \in Tcp : ~Carries(t, "leave", w) => ~Carries(t, "leave", w)'
      /\ InOrder(w)'
  BY <1>1 DEF Silent, Carries, InOrder
<1>3. Idle(w)' = Idle(w) /\ Joining(w)' = Joining(w)
  BY DEF Untouched, Idle, Joining
<1>4. QED
  BY <1>2, <1>3 DEF Phases, Untouched

LEMMA PhasesStep ==
  ASSUME Api = {}, TypeOK, Ownership, OwnBusiness, [Next]_vars,
         NEW w \in Ws, Phases(w), InOrder(w)
  PROVE  (Phases(w) /\ InOrder(w))'
<1> USE DEF registry, sockets, work, history
<1>0. w \in Actor /\ w \in Object /\ w \in Strand
  BY DEF Actor, Object, Strand
<1>1. CASE add_websocket_session(w)
  <2>1. /\ w \notin born /\ born' = born \union {w}
        /\ chains' = [chains EXCEPT ![w] = {"accept"}]
        /\ UNCHANGED <<work, history>>
    BY <1>1 DEF add_websocket_session
  <2>2. chains'[w] = {"accept"}
    BY <1>0, <2>1 DEF TypeOK
  <2>3. QED
    BY <2>1, <2>2 DEF Phases, InOrder, Joining, Idle, Silent, Carries
<1>2. CASE on_accept(w)
  <2>1. "accept" \in chains[w] /\ UNCHANGED <<born, closing, posting, history>>
    BY <1>2 DEF on_accept
  <2>2. Idle(w) /\ Silent(w) /\ disconnects[w] = 0 /\ w \in born
    BY <2>1 DEF Phases
  <2>3. "accept" \notin chains'[w]
    <3>1. \/ chains' = [chains EXCEPT ![w] = {}]
          \/ chains' = [chains EXCEPT ![w] = {"read", "write"}]
      BY <1>2 DEF on_accept
    <3>2. chains \in [Strand -> SUBSET Chain]
      BY DEF TypeOK
    <3>3. chains'[w] = {} \/ chains'[w] = {"read", "write"}
      BY <1>0, <3>1, <3>2
    <3>4. QED
      BY <3>3
  <2>4. QED
    BY <2>1, <2>2, <2>3 DEF Phases, InOrder, Silent, Carries, Idle
<1>3. ASSUME NEW c \in {"read", "write"}, io_error(w, c)
      PROVE  (Phases(w) /\ InOrder(w))'
  <2>1. c \in chains[w] /\ UNCHANGED <<born, closing, announcing, posting, history>>
    BY <1>3 DEF io_error
  <2>2. "accept" \notin chains[w] /\ w \in born
    BY <2>1 DEF Phases
  <2>3. chains'[w] \subseteq chains[w]
    BY <1>0, <1>3 DEF io_error, TypeOK
  <2>4. QED
    BY <2>1, <2>2, <2>3 DEF Phases, InOrder, Joining, Carries
<1>4. CASE remove_session(w)
  <2>1. doomed[w] # {} /\ UNCHANGED <<born, chains, announcing, posting, history>>
    BY <1>4 DEF remove_session
  <2>2. ~(w \notin born \/ "accept" \in chains[w])
    BY <2>1 DEF Phases, Idle
  <2>3. QED
    BY <2>1, <2>2 DEF Phases, InOrder, Joining, Carries
<1>5. CASE disconnect_tcp(w)
  BY <1>5, ConstantsAssumption DEF disconnect_tcp, OwnBusiness, Actor, Strand, Object
<1>6. CASE disconnect_websocket(w)
  <2>1. PICK s \in Ws \union Proxy :
          /\ closing[w] = s
          /\ announcing' = [announcing EXCEPT ![w] = <<"leave", SessionId(s)>>]
    BY <1>6 DEF disconnect_websocket, LeaveOf
  <2>2. closing[w] # None
    BY <2>1, ConstantsAssumption DEF Object, Strand
  <2>3. posting[w] = {} /\ ~(w \notin born \/ "accept" \in chains[w])
    BY <1>0, <2>2 DEF OwnBusiness, Phases, Idle
  <2>4. UNCHANGED <<born, chains, posting, outbox>>
    BY <1>6 DEF disconnect_websocket
  <2>5. ~Joining(w)'
    BY <1>0, <2>1, <2>3, <2>4 DEF Joining, TypeOK
  <2>6. QED
    BY <2>3, <2>4, <2>5 DEF Phases, InOrder
<1>7. CASE broadcast_to_nodes(w)
  <2>1. PICK T \in TargetSets : posting' = [posting EXCEPT ![w] =
          {<<t, [op |-> announcing[w][1], id |-> announcing[w][2],
                 key |-> node_id[t]]>> : t \in T}]
    BY <1>7 DEF broadcast_to_nodes
  <2>2. \A p \in posting'[w] : p[2].op = announcing[w][1]
    BY <1>0, <2>1 DEF TypeOK
  <2>3. announcing[w] # None /\ UNCHANGED <<born, chains, outbox, disconnects>>
    BY <1>7 DEF broadcast_to_nodes
  <2>4. announcing'[w] = None
    BY <1>0, <1>7 DEF broadcast_to_nodes, TypeOK
  <2>5. announcing[w][2] = w /\ ~(w \notin born \/ "accept" \in chains[w])
    BY <1>0, <2>3 DEF OwnBusiness, Phases, Idle
  <2>6. announcing[w] = <<announcing[w][1], w>>
    BY <1>0, <2>3, <2>5 DEF TypeOK
  <2>7. ASSUME Joining(w)' PROVE Joining(w) /\ announcing[w][1] = "join"
    <3>1. None # <<"join", w>>
      BY ConstantsAssumption, <1>0
    <3>2. announcing[w][1] = "join"
      BY <2>2, <2>4, <2>7, <3>1 DEF Joining
    <3>3. QED
      BY <2>6, <3>2 DEF Joining
  <2>8. QED
    BY <2>2, <2>3, <2>5, <2>7 DEF Phases, InOrder, Carries
<1>8. CASE send(w)
  <2>1. PICK p \in posting[w] : Sends(w, p)
    BY <1>0, <1>8, SendShape
  <2>2. UNCHANGED <<born, chains, doomed, closing, announcing, disconnects>>
    BY <1>8 DEF send
  <2>3. ~(w \notin born \/ "accept" \in chains[w])
    BY DEF Phases, Idle
  <2>4. Joining(w)' => Joining(w)
    BY <1>0, <2>1, <2>2 DEF Joining, Sends
  <2>5. CASE p[2].op = "join"
    <3>1. \A t \in Tcp : ~Carries(t, "leave", w)
      BY <2>5 DEF Phases, Joining
    <3>2. \A t \in Tcp : ~Carries(t, "leave", w)'
      BY <2>1, <2>5, <3>1 DEF Carries, Sends
    <3>3. posting'[w] \subseteq posting[w]
      BY <1>0, <2>1 DEF Sends
    <3>4. QED
      BY <2>2, <2>3, <2>4, <3>2, <3>3 DEF Phases, InOrder, Carries
  <2>6. CASE p[2].op # "join"
    <3>1. ~Joining(w)
      BY <2>6 DEF Phases
    <3>2. InOrder(w)'
      <4>1. SUFFICES ASSUME NEW t \in Tcp,
                            NEW m \in DOMAIN outbox'[t], NEW n \in DOMAIN outbox'[t],
                            outbox'[t][m].id = w, outbox'[t][m].op = "leave",
                            outbox'[t][n].id = w, outbox'[t][n].op = "join"
                     PROVE  n < m
        BY DEF InOrder
      <4>2. n \in DOMAIN outbox[t] /\ outbox'[t][n] = outbox[t][n] /\ n < Len(outbox[t]) + 1
        BY <2>1, <2>6, <4>1 DEF Sends
      <4>3. CASE m \in DOMAIN outbox[t] /\ outbox'[t][m] = outbox[t][m]
        BY <4>1, <4>2, <4>3 DEF InOrder
      <4>4. CASE m = Len(outbox[t]) + 1
        BY <4>2, <4>4
      <4>5. QED
        BY <2>1, <4>3, <4>4 DEF Sends
    <3>3. QED
      BY <2>2, <2>3, <2>4, <3>1, <3>2 DEF Phases
  <2>7. QED
    BY <2>5, <2>6
<1>9. CASE Untouched(w)
  BY <1>9, PhasesUntouched
<1>10. QED
  BY <1>1, <1>2, <1>3, <1>4, <1>5, <1>6, <1>7, <1>8, <1>9, StrandShape
     DEF Touches, Step

Speech == OwnBusiness /\ \A w \in Ws : Phases(w) /\ InOrder(w)

LEMMA SpeechInvariant ==
  ASSUME Api = {}
  PROVE  Spec => [](TypeOK /\ Ownership /\ Speech)
<1>1. Init => Speech
  BY OwnBusinessInit, PhasesInit DEF Speech
<1>2. ASSUME TypeOK, Ownership, Speech, [Next]_vars PROVE Speech'
  BY <1>2, OwnBusinessStep, PhasesStep DEF Speech
<1>3. TypeOK /\ Ownership /\ Speech /\ [Next]_vars => Speech'
  BY <1>2
<1>4. QED
  BY <1>1, <1>3, OwnershipInvariant, PTL DEF Spec

\* Without application threads, no link carries the leave of a local session
\* ahead of its join, however its handshake, its failures, leave frames from
\* peers and the broadcasts of others interleave (websocket_session::on_accept,
\* disconnect, state::broadcast_to_nodes).
THEOREM JoinBeforeLeaveHolds == ASSUME Api = {} PROVE Spec => []JoinBeforeLeave
<1>1. Speech => JoinBeforeLeave
  BY DEF Speech, InOrder, JoinBeforeLeave
<1>2. QED
  BY <1>1, SpeechInvariant, PTL

-----------------------------------------------------------------------------
(***************************************************************************)
(* The leave reaches the peers that the join reached.  A frame is keyed by *)
(* the node_id_ its link had when the broadcast chose it; once that is the *)
(* peer's it stays so, and the leave's broadcast finds the same link, or   *)
(* another one to that peer, as long as the link is registered.            *)
(***************************************************************************)
Keyed(t, f) == f.key = PeerOf[t] => node_id[t] = PeerOf[t]

Addressed ==
  /\ \A t \in Tcp : node_id[t] \in {Nil, Torn, PeerOf[t]}
  /\ \A t \in Tcp : \A n \in DOMAIN outbox[t] : t \in born /\ Keyed(t, outbox[t][n])
  /\ \A a \in Actor : \A p \in posting[a] : p[1] \in born /\ Keyed(p[1], p[2])

\* The peer of t was identified when it was sent the join of w.
HeardJoin(t, w) ==
  \E n \in DOMAIN outbox[t] :
    outbox[t][n] = [op |-> "join", id |-> w, key |-> PeerOf[t]]

\* A leave of w is sent over t, or will be.
LeaveComes(t, w) == \/ Carries(t, "leave", w)
                    \/ \E p \in posting[w] : p[1] = t /\ p[2].op = "leave"

Farewell(w) ==
  disconnects[w] > 0 /\ announcing[w] # <<"leave", w>> =>
    \A t \in Tcp \intersect sessions :
      HeardJoin(t, w) => \E u \in Tcp : PeerOf[u] = PeerOf[t] /\ LeaveComes(u, w)

LEMMA AddressedInit == Init => Addressed
BY ConstantsAssumption DEF Init, Addressed, Actor, Object, Strand

\* A link that is identified stays so.
LEMMA NodeIdStep ==
  ASSUME TypeOK, Addressed, [Next]_vars, NEW t \in Tcp
  PROVE  /\ node_id'[t] \in {Nil, Torn, PeerOf[t]}
         /\ node_id[t] = PeerOf[t] => node_id'[t] = PeerOf[t]
         /\ t \in born => t \in born'
<1> USE ConstantsAssumption
        DEF registry, sockets, work, history, Actor, Strand, Object, Addressed
<1>1. ASSUME NEW x \in Tcp, identify_begin(x) \/ identify_end(x)
      PROVE  /\ node_id'[t] \in {Nil, Torn, PeerOf[t]}
             /\ node_id[t] = PeerOf[t] => node_id'[t] = PeerOf[t]
             /\ born' = born
  BY <1>1 DEF identify_begin, identify_end, TypeOK
<1>2. ASSUME NEW x \in Tcp, NEW y \in Proxy, join(x, y)
      PROVE  node_id'[t] = node_id[t] /\ born \subseteq born'
  BY <1>2 DEF join, TypeOK
<1>3. ASSUME NEW w \in Ws, add_websocket_session(w)
      PROVE  node_id'[t] = node_id[t] /\ born \subseteq born'
  BY <1>3 DEF add_websocket_session, TypeOK
<1>4. ASSUME UNCHANGED node_id, born \subseteq born'
      PROVE  /\ node_id'[t] \in {Nil, Torn, PeerOf[t]}
             /\ node_id[t] = PeerOf[t] => node_id'[t] = PeerOf[t]
             /\ t \in born => t \in born'
  BY <1>4
<1>5. QED
  BY <1>1, <1>2, <1>3, <1>4
     DEF Next, Step, vars, add_tcp_session, start, handshake, on_accept, other_frame,
         leave, io_error, disconnect, disconnect_all, remove_session,
         disconnect_tcp, disconnect_websocket, broadcast_to_nodes, send

LEMMA AddressedStep ==
  ASSUME TypeOK, Addressed, [Next]_vars
  PROVE  Addressed'
<1> USE DEF registry, sockets, work, history
<1>0. \A t \in Tcp, f \in Frame : t \in born /\ Keyed(t, f) => t \in born' /\ Keyed(t, f)'
  BY NodeIdStep DEF Keyed
<1>1. ASSUME NEW a \in Actor, broadcast_to_nodes(a) PROVE Addressed'
  <2>1. PICK T \in TargetSets : posting' = [posting EXCEPT ![a] =
          {<<t, [op |-> announcing[a][1], id |-> announcing[a][2],
                 key |-> node_id[t]]>> : t \in T}]
    BY <1>1 DEF broadcast_to_nodes
  <2>2. T \subseteq Tcp \intersect born
    BY DEF TargetSets, Reachable, TypeOK
  <2>3. UNCHANGED <<born, node_id, outbox>>
    BY <1>1 DEF broadcast_to_nodes
  <2>4. \A p \in posting'[a] : p[1] \in born /\ Keyed(p[1], p[2])
    BY <2>1, <2>2 DEF TypeOK, Keyed
  <2>5. \A b \in Actor : b # a => posting'[b] = posting[b]
    BY <2>1 DEF TypeOK
  <2>6. QED
    BY <2>3, <2>4, <2>5 DEF Addressed, Keyed
<1>2. ASSUME NEW a \in Actor, send(a) PROVE Addressed'
  <2>1. PICK p \in posting[a] : Sends(a, p)
    BY <1>2, SendShape
  <2>2. UNCHANGED <<born, node_id>>
    BY <1>2 DEF send
  <2>3. p[1] \in born /\ Keyed(p[1], p[2])
    BY DEF Addressed
  <2>4. \A t \in Tcp : \A n \in DOMAIN outbox'[t] : t \in born /\ Keyed(t, outbox'[t][n])
    BY <2>1, <2>3 DEF Addressed, Sends
  <2>5. \A b \in Actor : posting'[b] \subseteq posting[b]
    BY <2>1 DEF Sends
  <2>6. QED
    BY <2>2, <2>4, <2>5 DEF Addressed, Keyed
<1>3. ASSUME UNCHANGED <<posting, outbox>> PROVE Addressed'
  <2>1. \A t \in Tcp : \A n \in DOMAIN outbox[t] : outbox[t][n] \in Frame
    BY DEF TypeOK
  <2>2. \A a \in Actor : \A p \in posting[a] : p[1] \in Tcp /\ p[2] \in Frame
    BY DEF TypeOK
  <2>3. QED
    BY <1>0, <1>3, <2>1, <2>2, NodeIdStep DEF Addressed
<1>4. QED
  BY <1>1, <1>2, <1>3
     DEF Next, Step, vars, add_tcp_session, start, add_websocket_session, handshake,
         on_accept, identify_begin, identify_end, other_frame, join, leave, io_error,
         disconnect, disconnect_all, remove_session, disconnect_tcp,
         disconnect_websocket

LEMMA FarewellInit == ASSUME NEW w \in Ws PROVE Init => Farewell(w)
BY DEF Init, Farewell, Object, Strand

\* A step that is neither the disconnect nor the leave's broadcast.
LEMMA FarewellKept ==
  ASSUME TypeOK, Addressed, [Next]_vars, NEW w \in Ws, Farewell(w),
         disconnects'[w] = disconnects[w], announcing'[w] = announcing[w],
         \A t \in Tcp : HeardJoin(t, w)' => HeardJoin(t, w),
         \A u \in Tcp : LeaveComes(u, w) => LeaveComes(u, w)'
  PROVE  Farewell(w)'
<1>1. \A t \in Tcp : t \in sessions' => t \in sessions \/ t \notin born
  BY StepShape, RegistryFacts DEF Quiet, Offered, Forgotten, Taken, Disposed
<1>2. \A t \in Tcp : HeardJoin(t, w) => t \in born
  BY DEF HeardJoin, Addressed
<1>3. QED
  BY <1>1, <1>2 DEF Farewell

\* The broadcast finds each link that heard the join, or one to the same peer.
LEMMA FarewellBroadcast ==
  ASSUME TypeOK, OwnBusiness, Addressed, NEW w \in Ws, Phases(w),
         broadcast_to_nodes(w)
  PROVE  Farewell(w)'
<1>0. w \in Actor
  BY DEF Actor, Strand
<1>1. PICK T \in TargetSets : posting' = [posting EXCEPT ![w] =
        {<<t, [op |-> announcing[w][1], id |-> announcing[w][2],
               key |-> node_id[t]]>> : t \in T}]
  BY DEF broadcast_to_nodes
<1>2. announcing[w] # None
      /\ UNCHANGED <<sessions, born, node_id, outbox, disconnects>>
  BY DEF broadcast_to_nodes, registry, history
<1>3. announcing[w] = <<announcing[w][1], w>> /\ announcing[w][1] \in {"join", "leave"}
  BY <1>0, <1>2 DEF OwnBusiness, TypeOK
<1>4. SUFFICES ASSUME disconnects[w] > 0,
                      NEW t \in Tcp \intersect sessions, HeardJoin(t, w)
               PROVE  \E u \in Tcp : PeerOf[u] = PeerOf[t] /\ LeaveComes(u, w)'
  BY <1>2 DEF Farewell, HeardJoin
<1>5. announcing[w][1] = "leave"
  <2>1. announcing[w] # <<"join", w>>
    BY <1>4 DEF Phases, Joining
  <2>2. QED
    BY <1>3, <2>1
<1>6. node_id[t] = PeerOf[t]
  BY <1>4 DEF HeardJoin, Addressed, Keyed
<1>7. PICK u \in T : node_id[u] = node_id[t]
  BY <1>4 DEF TargetSets, Reachable
<1>8. u \in Tcp
  BY DEF TargetSets, Reachable
<1>9. PeerOf[u] = PeerOf[t]
  <2>1. PeerOf[t] \in Node /\ node_id[u] \in {Nil, Torn, PeerOf[u]}
    BY <1>8, ConstantsAssumption DEF Addressed
  <2>2. QED
    BY <1>6, <1>7, <2>1, ConstantsAssumption
<1>10. \E p \in posting'[w] : p[1] = u /\ p[2].op = "leave"
  <2> DEFINE f == [op |-> announcing[w][1], id |-> announcing[w][2], key |-> node_id[u]]
  <2>1. <<u, f>> \in posting'[w]
    BY <1>0, <1>1 DEF TypeOK
  <2>2. <<u, f>>[1] = u /\ <<u, f>>[2].op = "leave"
    BY <1>5
  <2>3. QED
    BY <2>1, <2>2
<1>11. QED
  BY <1>8, <1>9, <1>10 DEF LeaveComes

LEMMA FarewellStep ==
  ASSUME Api = {}, TypeOK, Ownership, Speech, Addressed, [Next]_vars,
         NEW w \in Ws, Farewell(w)
  PROVE  Farewell(w)'
<1> USE DEF registry, sockets, work, history
<1>0. /\ w \in Actor /\ w \in Object /\ w \in Strand
      /\ OwnBusiness /\ Phases(w)
  BY DEF Actor, Object, Strand, Speech
<1>1. CASE add_websocket_session(w) \/ on_accept(w)
  <2>1. disconnects[w] = 0 /\ disconnects' = disconnects
    BY <1>0, <1>1 DEF add_websocket_session, on_accept, Phases
  <2>2. QED
    BY <2>1 DEF Farewell
<1>2. ASSUME UNCHANGED <<announcing, posting, outbox, disconnects>>
      PROVE  Farewell(w)'
  BY <1>2, FarewellKept DEF HeardJoin, LeaveComes, Carries
<1>3. CASE disconnect_tcp(w)
  BY <1>0, <1>3, ConstantsAssumption DEF disconnect_tcp, OwnBusiness, Actor, Strand, Object
<1>4. CASE disconnect_websocket(w)
  <2>1. PICK s \in Ws \union Proxy :
          /\ closing[w] = s
          /\ announcing' = [announcing EXCEPT ![w] = <<"leave", SessionId(s)>>]
    BY <1>4 DEF disconnect_websocket, LeaveOf
  <2>2. SessionId(s) = w
    BY <1>0, <2>1, IdFacts, ConstantsAssumption DEF OwnBusiness, Object, Strand
  <2>3. announcing'[w] = <<"leave", w>>
    BY <1>0, <2>1, <2>2 DEF TypeOK
  <2>4. QED
    BY <2>3 DEF Farewell
<1>5. CASE broadcast_to_nodes(w)
  BY <1>0, <1>5, FarewellBroadcast
<1>6. CASE send(w)
  <2>1. PICK p \in posting[w] : Sends(w, p)
    BY <1>0, <1>6, SendShape
  <2>2. UNCHANGED <<announcing, disconnects>>
    BY <1>6 DEF send
  <2>3. CASE p[2].op = "join"
    <3>1. disconnects[w] = 0
      BY <1>0, <2>3 DEF Phases, Joining
    <3>2. QED
      BY <2>2, <3>1 DEF Farewell
  <2>4. CASE p[2].op # "join"
    <3>1. \A t \in Tcp : HeardJoin(t, w)' => HeardJoin(t, w)
      BY <2>1, <2>4 DEF HeardJoin, Sends
    <3>2. p[2].id = w
      BY <1>0 DEF OwnBusiness
    <3>3. \A u \in Tcp : LeaveComes(u, w) => LeaveComes(u, w)'
      <4>1. ASSUME NEW u \in Tcp, Carries(u, "leave", w) PROVE Carries(u, "leave", w)'
        BY <2>1, <4>1 DEF Carries, Sends
      <4>2. ASSUME NEW u \in Tcp, NEW r \in posting[w], r[1] = u, r[2].op = "leave"
            PROVE  LeaveComes(u, w)'
        <5>1. CASE r = p
          BY <2>1, <3>2, <4>2, <5>1 DEF Sends, LeaveComes, Carries
        <5>2. CASE r # p
          BY <1>0, <2>1, <4>2, <5>2 DEF Sends, LeaveComes
        <5>3. QED
          BY <5>1, <5>2
      <4>3. QED
        BY <4>1, <4>2 DEF LeaveComes
    <3>4. QED
      BY <2>2, <3>1, <3>3, FarewellKept
  <2>5. QED
    BY <2>3, <2>4
<1>7. CASE Untouched(w)
  <2>1. \A t \in Tcp : HeardJoin(t, w)' => HeardJoin(t, w)
    <3>1. ASSUME NEW t \in Tcp, NEW f \in Frame, f.id # w,
                 outbox'[t] = Append(outbox[t], f), HeardJoin(t, w)'
          PROVE  HeardJoin(t, w)
      BY <3>1, outbox[t] \in Seq(Frame), Appended DEF TypeOK, HeardJoin
    <3>2. QED
      BY <1>7, <3>1 DEF Untouched, HeardJoin
  <2>2. \A t \in Tcp : Carries(t, "leave", w) => Carries(t, "leave", w)'
    <3>1. ASSUME NEW t \in Tcp, NEW f \in Frame,
                 outbox'[t] = Append(outbox[t], f), Carries(t, "leave", w)
          PROVE  Carries(t, "leave", w)'
      BY <3>1, outbox[t] \in Seq(Frame), Appended DEF TypeOK, Carries
    <3>2. QED
      BY <1>7, <3>1 DEF Untouched, Carries
  <2>3. QED
    BY <1>7, <2>1, <2>2, FarewellKept DEF Untouched, LeaveComes
<1>8. QED
  BY <1>1, <1>2, <1>3, <1>4, <1>5, <1>6, <1>7, <1>0, StrandShape
     DEF Touches, Step, io_error, remove_session

\* Without application threads, a peer that was identified when it was sent the
\* join of a session, over a link that lasts, is sent the leave, over that link or
\* another (state::broadcast_to_nodes, handlers/identify.hpp).
THEOREM JoinedPeersHearLeaveHolds ==
  ASSUME Api = {}
  PROVE  Spec => []JoinedPeersHearLeave
<1> DEFINE Heard == \A w \in Ws : Farewell(w)
<1>1. Init => Addressed /\ Heard
  BY AddressedInit, FarewellInit
<1>2. TypeOK /\ Addressed /\ [Next]_vars => Addressed'
  BY AddressedStep
<1>3. TypeOK /\ Ownership /\ Speech /\ Addressed /\ Heard /\ [Next]_vars => Heard'
  BY FarewellStep
<1>4. Heard => JoinedPeersHearLeave
  <2>1. SUFFICES ASSUME Heard, NEW w \in Ws, disconnects[w] > 0, Idle(w),
                        NEW t \in Tcp \intersect sessions, HeardJoin(t, w)
                 PROVE  \E u \in Tcp : PeerOf[u] = PeerOf[t] /\ Carries(u, "leave", w)
    BY DEF JoinedPeersHearLeave, HeardJoin
  <2>2. None # <<"leave", w>>
    BY ConstantsAssumption DEF Strand
  <2>3. announcing[w] # <<"leave", w>> /\ posting[w] = {}
    BY <2>1, <2>2 DEF Idle
  <2>4. QED
    BY <2>1, <2>3 DEF Farewell, LeaveComes
<1> HIDE DEF Heard
<1>5. QED
  BY <1>1, <1>2, <1>3, <1>4, SpeechInvariant, PTL DEF Spec
=============================================================================
