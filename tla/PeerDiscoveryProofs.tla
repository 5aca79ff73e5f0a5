------------------------ MODULE PeerDiscoveryProofs ------------------------
(***************************************************************************)
(* Theorems about PeerDiscovery, for any nodes and any calls of connect.   *)
(***************************************************************************)
EXTENDS PeerDiscovery, SequenceLemmas, FiniteSetTheorems

-----------------------------------------------------------------------------
(* Types.                                                                  *)

LEMMA Blanks == Blank \in Address
BY DEF Blank, Address, Host

LEMMA HeardType ==
  ASSUME NEW list \in Seq(Address)
  PROVE  Heard(list) \in Seq(Address) /\ (list = <<>> => Heard(list) = <<>>)
<1> DEFINE hosted == {i \in DOMAIN list : list[i][1] # ""}
           first  == CHOOSE i \in hosted : \A j \in hosted : i <= j
<1>0. DOMAIN list = 1..Len(list) /\ Len(list) \in Nat
  OBVIOUS
<1>1. Heard(list) = IF hosted = {} \/ first = Len(list) THEN list
        ELSE Append(SubSeq(list, 1, first - 1),
                    <<IF list[first + 1][2] = NoPort THEN "nul" ELSE "junk",
                      list[first][2]>>)
  BY DEF Heard
<1>2. hosted \in SUBSET Nat /\ hosted \subseteq DOMAIN list
  <2>1. hosted \subseteq DOMAIN list
    OBVIOUS
  <2>2. DOMAIN list \subseteq Nat
    BY <1>0
  <2> HIDE DEF hosted
  <2> QED
    BY <2>1, <2>2
<1>3. hosted # {} => \E i \in hosted : \A j \in hosted : i <= j
  BY <1>2, Smallest
<1>4. hosted # {} => first \in hosted
  BY <1>3
<1> HIDE DEF hosted, first
<1>5. CASE hosted = {} \/ first = Len(list)
  BY <1>1, <1>5
<1>6. CASE ~(hosted = {} \/ first = Len(list))
  <2>1. first \in 1..Len(list)
    BY <1>0, <1>6, <1>2, <1>4
  <2>2. PICK wrong \in Host :
          Heard(list) = Append(SubSeq(list, 1, first - 1), <<wrong, list[first][2]>>)
    BY <1>1, <1>6 DEF Host
  <2>3. <<wrong, list[first][2]>> \in Address
    BY <2>1 DEF Address
  <2>4. SubSeq(list, 1, first - 1) \in Seq(Address)
    BY <2>1
  <2>5. list # <<>>
    BY <2>1
  <2> QED
    BY <2>2, <2>3, <2>4, <2>5
<1> QED
  BY <1>5, <1>6

\* What an exchange never changes in a link's record.
Kept(r, s) ==
  /\ r.from = s.from /\ r.to = s.to
  /\ r.cause = s.cause /\ r.parent = s.parent
  /\ r.asks = s.asks /\ r.count = s.count /\ r.named = s.named

\* A link's position and list fit its stage; size is that of the registry listed.
Sound(r, size) ==
  /\ r.cursor >= 1
  /\ r.stage = "reading" => r.cursor <= size
  /\ r.stage \in {"asked", "addressed", "reading"} => r.asks
  /\ r.stage \in {"dialling", "connecting"} => r.list # <<>>
  /\ ~r.asks => r.list = <<>>

Exchanges == \A l \in Links : Sound(link[l], Len(sessions[link[l].to]))

\* The "in" session has not handled the request; one side's strand handles it.
Unread == {"queued", "sent", "named"}
Asked  == {"named", "asked", "addressed", "reading"}
Caller == {"dialling", "connecting"}

\* How a step may move the exchange of link l on, from link[l] to r: who has to
\* be free for it, when connections back are posted, and when an address is
\* dialled.
Goes(l, r) ==
  /\ Kept(r, link[l])
  /\ Sound(r, Len(sessions[link[l].to]))
  /\ r.stage \in Unread => link[l].stage \in Unread
  /\ link[l].stage \in Unread /\ r.stage \notin Unread => link[l].stage = "named"
  /\ \/ r.owed = link[l].owed
     \/ link[l].stage = "named" /\ r.stage \notin Unread /\ r.owed = Wanted(l)
  /\ r.stage \in Asked => link[l].stage \in Asked \/ Free(link[l].to)
  /\ r.stage \in Caller => link[l].stage \in Caller \/ Free(link[l].from)
  /\ r.stage = "connecting" =>
       /\ link[l].stage = "dialling" /\ r.list = link[l].list
       /\ ~Known(link[l].from, Head(link[l].list))

LEMMA Indices ==
  ASSUME TypeOK
  PROVE  /\ Links = 1..Len(link) /\ Len(link) \in Nat
         /\ \A l \in Links : link[l] \in Link
BY DEF TypeOK, Links

\* One record of a sequence of links replaced.
LEMMA Replaced ==
  ASSUME NEW ls \in Seq(Link), NEW l \in DOMAIN ls, NEW r \in Link
  PROVE  LET new == [ls EXCEPT ![l] = r]
         IN  /\ new \in Seq(Link) /\ Len(new) = Len(ls) /\ DOMAIN new = DOMAIN ls
             /\ new[l] = r
             /\ \A k \in DOMAIN ls \ {l} : new[k] = ls[k]
OBVIOUS

\* A handler moves its link on and leaves the registries alone.
Turn(l, r) ==
  /\ r \in Link /\ Goes(l, r)
  /\ link' = [link EXCEPT ![l] = r]
  /\ UNCHANGED <<status, called, sessions>>

LEMMA Turned ==
  ASSUME TypeOK, Exchanges, NEW l \in Links, NEW r, Turn(l, r)
  PROVE  TypeOK' /\ Exchanges'
<1>1. /\ link' \in Seq(Link) /\ Links' = Links
      /\ link'[l] = r
      /\ \A k \in Links \ {l} : link'[k] = link[k]
  BY Replaced DEF TypeOK, Links, Turn
<1>2. TypeOK'
  BY <1>1 DEF TypeOK, Turn
<1>3. ASSUME NEW k \in Links PROVE Sound(link'[k], Len(sessions[link'[k].to]))
  <2>1. CASE k = l
    BY <2>1, <1>1 DEF Kept, Turn, Goes
  <2>2. CASE k # l
    BY <2>2, <1>1 DEF Exchanges
  <2> QED
    BY <2>1, <2>2
<1> QED
  BY <1>1, <1>2, <1>3 DEF Exchanges, Turn

\* A new link: its record, and the session of the node that opens it.
Fresh(n, to, cause, parent, asks, count) ==
  [from |-> n, to |-> to, cause |-> cause, parent |-> parent,
   asks |-> asks, count |-> count, named |-> HasPort(n),
   stage |-> "queued", accepted |-> FALSE, owed |-> 0,
   list |-> <<>>, cursor |-> 1]

Opens(n, r) ==
  /\ Links' = Links \union {Len(link) + 1}
  /\ link'[Len(link) + 1] = r
  /\ sessions' = [sessions EXCEPT ![n] = Append(@, <<Len(link) + 1, "out">>)]

\* The links are those of ls, and perhaps one more; no registry is shorter.
Grows(ls) ==
  /\ link' \in Seq(Link) /\ Links \subseteq Links'
  /\ \A k \in Links : link'[k] = ls[k]
  /\ sessions' \in [Node -> Seq(Links' \X Side)]
  /\ \A m \in Node : Len(sessions'[m]) >= Len(sessions[m])

\* A node tries to connect; ls are the links before the new one.
LEMMA Connected ==
  ASSUME TypeOK, NEW n \in Node, NEW address, NEW cause \in Cause, NEW parent \in Nat,
         NEW asks \in BOOLEAN, NEW count \in Nat, NEW ls \in Seq(Link),
         Len(ls) = Len(link), connect(n, address, cause, parent, asks, count, ls)
  PROVE  /\ Grows(ls)
         /\ \/ Links' = Links /\ sessions' = sessions
            \/ /\ address[2] \in Node
               /\ Opens(n, Fresh(n, address[2], cause, parent, asks, count))
<1>1. Links = 1..Len(link) /\ Len(link) \in Nat /\ DOMAIN ls = Links
  BY Indices
<1>2. CASE ~Reaches(address)
  <2>1. link' = ls /\ sessions' = sessions
    BY <1>2 DEF connect
  <2>2. Links' = Links
    BY <2>1, <1>1 DEF Links
  <2> QED
    BY <2>1, <2>2 DEF TypeOK, Grows
<1>3. CASE Reaches(address)
  <2> DEFINE new == Len(link) + 1
             r   == Fresh(n, address[2], cause, parent, asks, count)
  <2>1. address[2] \in Node
    BY <1>3 DEF Reaches
  <2>2. r \in Link
    BY <2>1 DEF Link, Stage, HasPort, Fresh
  <2>3. link' = Append(ls, r)
    BY <1>3 DEF connect, Fresh
  <2>4. sessions' = [sessions EXCEPT ![n] = Append(@, <<new, "out">>)]
    BY <1>3 DEF connect
  <2> HIDE DEF r
  <2>5. /\ link' \in Seq(Link) /\ DOMAIN link' = 1..(Len(link) + 1)
        /\ link'[new] = r /\ \A k \in Links : link'[k] = ls[k]
    BY <2>2, <2>3, <1>1
  <2>6. Links' = Links \union {new} /\ new \notin Links /\ new \in Nat
    BY <2>5, <1>1 DEF Links
  <2>7. \A m \in Node : sessions[m] \in Seq(Links' \X Side)
    BY <2>6 DEF TypeOK
  <2>8. Append(sessions[n], <<new, "out">>) \in Seq(Links' \X Side)
    BY <2>6, <2>7 DEF Side
  <2>9. sessions' \in [Node -> Seq(Links' \X Side)]
    BY <2>4, <2>7, <2>8 DEF TypeOK
  <2>10. \A m \in Node : Len(sessions'[m]) >= Len(sessions[m])
    BY <2>4, <2>7, <2>8 DEF TypeOK
  <2> QED
    BY <2>1, <2>4, <2>5, <2>6, <2>9, <2>10 DEF r, Opens, Grows
<1> QED
  BY <1>2, <1>3

LEMMA NewLink ==
  ASSUME TypeOK
  PROVE  Len(link) + 1 \notin Links /\ Len(link) + 1 \in Nat
BY Indices

-----------------------------------------------------------------------------
(* The actions that only move one exchange on.                             *)

LEMMA Writes ==
  ASSUME TypeOK, Exchanges, NEW l \in Links, write(l) \/ set_node_id(l) \/ lock(l) \/ respond(l)
  PROVE  \E r : Turn(l, r)
<1>1. link[l] \in Link /\ Sound(link[l], Len(sessions[link[l].to]))
  BY Indices DEF Exchanges
<1>2. CASE write(l)
  <2> DEFINE r == [link[l] EXCEPT !.stage = "sent"]
  <2>1. r \in Link /\ r.stage = "sent" /\ r.owed = link[l].owed /\ r.list = link[l].list
        /\ r.cursor = link[l].cursor /\ Kept(r, link[l])
    BY <1>1 DEF Link, Stage, Kept
  <2>2. link' = [link EXCEPT ![l] = r] /\ UNCHANGED <<status, called, sessions>>
    BY <1>2 DEF write
  <2>3. link[l].stage = "queued"
    BY <1>2 DEF write
  <2> HIDE DEF r
  <2>4. Goes(l, r)
    BY <1>1, <2>1, <2>3 DEF Goes, Sound, Unread, Asked, Caller, Kept
  <2> QED
    BY <2>1, <2>2, <2>4 DEF Turn
<1>3. CASE set_node_id(l)
  <2> DEFINE r == [link[l] EXCEPT !.stage = "named"]
  <2>1. r \in Link /\ r.stage = "named" /\ r.owed = link[l].owed /\ r.list = link[l].list
        /\ r.cursor = link[l].cursor /\ Kept(r, link[l])
    BY <1>1 DEF Link, Stage, Kept
  <2>2. link' = [link EXCEPT ![l] = r] /\ UNCHANGED <<status, called, sessions>>
    BY <1>3 DEF set_node_id
  <2>3. link[l].stage = "sent" /\ Free(link[l].to)
    BY <1>3 DEF set_node_id
  <2> HIDE DEF r
  <2>4. Goes(l, r)
    BY <1>1, <2>1, <2>3 DEF Goes, Sound, Unread, Asked, Caller, Kept
  <2> QED
    BY <2>1, <2>2, <2>4 DEF Turn
<1>4. CASE respond(l)
  <2> DEFINE r == [link[l] EXCEPT !.stage = "answered"]
  <2>1. r \in Link /\ r.stage = "answered" /\ r.owed = link[l].owed /\ r.list = link[l].list
        /\ r.cursor = link[l].cursor /\ Kept(r, link[l])
    BY <1>1 DEF Link, Stage, Kept
  <2>2. link' = [link EXCEPT ![l] = r] /\ UNCHANGED <<status, called, sessions>>
    BY <1>4 DEF respond
  <2>3. link[l].stage = "addressed"
    BY <1>4 DEF respond
  <2> HIDE DEF r
  <2>4. Goes(l, r)
    BY <1>1, <2>1, <2>3 DEF Goes, Sound, Unread, Asked, Caller, Kept
  <2> QED
    BY <2>1, <2>2, <2>4 DEF Turn
<1>5. CASE lock(l)
  <2> DEFINE r == [link[l] EXCEPT !.stage = "addressed"]
  <2>1. r \in Link /\ r.stage = "addressed" /\ r.owed = link[l].owed /\ r.list = link[l].list
        /\ r.cursor = link[l].cursor /\ Kept(r, link[l])
    BY <1>1 DEF Link, Stage, Kept
  <2>2. link' = [link EXCEPT ![l] = r] /\ UNCHANGED <<status, called, sessions>>
    BY <1>5 DEF lock
  <2>3. link[l].stage = "asked"
    BY <1>5 DEF lock
  <2> HIDE DEF r
  <2>4. Goes(l, r)
    BY <1>1, <2>1, <2>3 DEF Goes, Sound, Unread, Asked, Caller, Kept
  <2> QED
    BY <2>1, <2>2, <2>4 DEF Turn
<1> QED
  BY <1>2, <1>3, <1>4, <1>5

LEMMA Addresses ==
  ASSUME TypeOK, Exchanges, NEW l \in Links, set_address(l)
  PROVE  \E r : Turn(l, r)
<1> DEFINE r == [link[l] EXCEPT !.stage = IF link[l].asks THEN "asked" ELSE "answered",
                                !.owed = Wanted(l)]
<1>1. link[l] \in Link /\ Sound(link[l], Len(sessions[link[l].to]))
  BY Indices DEF Exchanges
<1>2. Wanted(l) \in Nat
  BY <1>1 DEF Wanted, Link
<1>3. /\ r \in Link /\ r.stage = IF link[l].asks THEN "asked" ELSE "answered"
      /\ r.owed = Wanted(l) /\ r.list = link[l].list
      /\ r.cursor = link[l].cursor /\ Kept(r, link[l])
  BY <1>1, <1>2 DEF Link, Stage, Kept
<1>4. link' = [link EXCEPT ![l] = r] /\ UNCHANGED <<status, called, sessions>>
  BY DEF set_address
<1>5. link[l].stage = "named"
  BY DEF set_address
<1> HIDE DEF r
<1>6. Goes(l, r)
  BY <1>1, <1>3, <1>5 DEF Goes, Sound, Unread, Asked, Caller, Kept
<1> QED
  BY <1>3, <1>4, <1>6 DEF Turn

LEMMA Filters ==
  ASSUME TypeOK, Exchanges, NEW l \in Links, filter(l)
  PROVE  \E r : Turn(l, r)
<1> DEFINE r == IF Listed(l, sessions[link[l].to][link[l].cursor])
                  THEN [link[l] EXCEPT !.stage = "reading"]
                  ELSE [link[l] EXCEPT !.cursor = @ + 1]
<1>1. link[l] \in Link /\ Sound(link[l], Len(sessions[link[l].to]))
  BY Indices DEF Exchanges
<1>2. /\ r \in Link /\ r.stage \in {"addressed", "reading"}
      /\ r.owed = link[l].owed /\ r.list = link[l].list /\ Kept(r, link[l])
      /\ r.cursor \in {link[l].cursor, link[l].cursor + 1}
      /\ r.stage = "reading" => r.cursor = link[l].cursor
  <2>1. link[l].stage = "addressed" /\ link[l].cursor + 1 \in Nat
    BY <1>1 DEF Link, filter
  <2>2. CASE Listed(l, sessions[link[l].to][link[l].cursor])
    <3>1. r = [link[l] EXCEPT !.stage = "reading"]
      BY <2>2
    <3> HIDE DEF r
    <3> QED
      BY <1>1, <2>1, <3>1 DEF Link, Stage, Kept
  <2>3. CASE ~Listed(l, sessions[link[l].to][link[l].cursor])
    <3>1. r = [link[l] EXCEPT !.cursor = @ + 1]
      BY <2>3
    <3> HIDE DEF r
    <3> QED
      BY <1>1, <2>1, <3>1 DEF Link, Stage, Kept
  <2> QED
    BY <2>2, <2>3
<1>3. link' = [link EXCEPT ![l] = r] /\ UNCHANGED <<status, called, sessions>>
  BY DEF filter
<1>4. /\ link[l].stage = "addressed" /\ link[l].asks
      /\ link[l].cursor <= Len(sessions[link[l].to])
  BY DEF filter
<1> HIDE DEF r
<1>5. r.cursor >= 1
  BY <1>1, <1>2 DEF Sound, Link
<1>6. Goes(l, r)
  BY <1>1, <1>2, <1>4, <1>5 DEF Goes, Sound, Unread, Asked, Caller, Kept
<1> QED
  BY <1>2, <1>3, <1>6 DEF Turn

LEMMA AddressType ==
  ASSUME TypeOK, NEW s \in Links \X Side
  PROVE  AddressOf(s) \in Address /\ Readings(s) \subseteq Address
<1>1. link[s[1]].from \in Node
  BY Indices DEF Link
<1>2. PortOf(s[1]) \in Node \union {NoPort}
  BY <1>1 DEF PortOf
<1>3. <<"local", PortOf(s[1])>> \in Address /\ <<"", PortOf(s[1])>> \in Address
  BY <1>2 DEF Address, Host
<1> QED
  BY <1>3, Blanks DEF AddressOf, Readings

LEMMA Emplaces ==
  ASSUME TypeOK, Exchanges, NEW l \in Links, emplace(l)
  PROVE  \E r : Turn(l, r)
<1>1. /\ link[l] \in Link /\ link[l].to \in Node
      /\ Sound(link[l], Len(sessions[link[l].to]))
  BY Indices DEF Exchanges, Link
<1>2. link[l].stage = "reading"
  BY DEF emplace
<1>3. sessions[link[l].to][link[l].cursor] \in Links \X Side
  <2>1. sessions[link[l].to] \in Seq(Links \X Side)
    BY <1>1 DEF TypeOK
  <2>2. link[l].cursor \in 1..Len(sessions[link[l].to])
    BY <1>1, <1>2, <2>1 DEF Sound, Link
  <2> QED
    BY <2>1, <2>2
<1>4. PICK address \in Address :
        link' = [link EXCEPT ![l].stage = "addressed", ![l].cursor = @ + 1,
                             ![l].list = Append(@, address)]
  BY <1>3, AddressType DEF emplace
<1> DEFINE r == [link[l] EXCEPT !.stage = "addressed", !.cursor = @ + 1,
                                !.list = Append(@, address)]
<1>5. Append(link[l].list, address) \in Seq(Address) /\ link[l].cursor + 1 \in Nat
  BY <1>1 DEF Link
<1>6. /\ r \in Link /\ r.stage = "addressed"
      /\ r.owed = link[l].owed /\ Kept(r, link[l])
      /\ r.cursor = link[l].cursor + 1
  BY <1>1, <1>5 DEF Link, Stage, Kept
<1>7. link' = [link EXCEPT ![l] = r] /\ UNCHANGED <<status, called, sessions>>
  BY <1>4 DEF emplace
<1> HIDE DEF r
<1>8. r.cursor >= 1
  BY <1>1, <1>6 DEF Sound, Link
<1>9. Goes(l, r)
  BY <1>1, <1>2, <1>6, <1>8 DEF Goes, Sound, Unread, Asked, Caller, Kept
<1> QED
  BY <1>6, <1>7, <1>9 DEF Turn

LEMMA Receives ==
  ASSUME TypeOK, Exchanges, NEW l \in Links, receive(l)
  PROVE  \E r : Turn(l, r)
<1> DEFINE heard == Heard(link[l].list)
           r == [link[l] EXCEPT !.stage = Dialling(heard), !.list = heard]
<1>1. link[l] \in Link /\ Sound(link[l], Len(sessions[link[l].to]))
  BY Indices DEF Exchanges
<1>2. heard \in Seq(Address) /\ (link[l].list = <<>> => heard = <<>>)
  BY <1>1, HeardType DEF Link
<1>3. link' = [link EXCEPT ![l] = r] /\ UNCHANGED <<status, called, sessions>>
  BY DEF receive
<1>4. link[l].stage = "answered" /\ Free(link[l].from)
  BY DEF receive
<1> HIDE DEF heard
<1>5. /\ r \in Link /\ r.stage = Dialling(heard) /\ r.list = heard
      /\ r.owed = link[l].owed /\ Kept(r, link[l])
      /\ r.cursor = link[l].cursor
  BY <1>1, <1>2 DEF Link, Stage, Kept, Dialling
<1> HIDE DEF r
<1>6. Goes(l, r)
  BY <1>1, <1>2, <1>4, <1>5 DEF Goes, Sound, Unread, Asked, Caller, Kept, Dialling
<1> QED
  BY <1>3, <1>5, <1>6 DEF Turn

\* What is left of a list once its first address is dealt with.
LEMMA Advances ==
  ASSUME TypeOK, Exchanges, NEW l \in Links, link[l].stage \in Caller
  PROVE  LET r == [link[l] EXCEPT !.stage = Dialling(Tail(link[l].list)),
                                  !.list = Tail(@)]
         IN  r \in Link /\ Goes(l, r)
<1> DEFINE rest == Tail(link[l].list)
           r == [link[l] EXCEPT !.stage = Dialling(rest), !.list = rest]
<1>1. link[l] \in Link /\ Sound(link[l], Len(sessions[link[l].to]))
  BY Indices DEF Exchanges
<1>2. rest \in Seq(Address) /\ link[l].list # <<>>
  BY <1>1 DEF Link, Sound, Caller
<1> HIDE DEF rest
<1>3. /\ r \in Link /\ r.stage = Dialling(rest) /\ r.list = rest
      /\ r.owed = link[l].owed /\ Kept(r, link[l])
      /\ r.cursor = link[l].cursor
  BY <1>1, <1>2 DEF Link, Stage, Kept, Dialling
<1> HIDE DEF r
<1>4. Goes(l, r)
  BY <1>1, <1>2, <1>3 DEF Goes, Sound, Unread, Asked, Caller, Kept, Dialling
<1>5. r = [link[l] EXCEPT !.stage = Dialling(Tail(link[l].list)), !.list = Tail(@)]
  BY DEF r, rest
<1> QED
  BY <1>3, <1>4, <1>5

LEMMA Checks ==
  ASSUME TypeOK, Exchanges, NEW l \in Links, check(l)
  PROVE  \E r : Turn(l, r)
<1>1. link[l] \in Link /\ Sound(link[l], Len(sessions[link[l].to]))
  BY Indices DEF Exchanges
<1>2. link[l].stage = "dialling" /\ UNCHANGED <<status, called, sessions>>
  BY DEF check
<1>3. CASE Known(link[l].from, Head(link[l].list))
  <2> DEFINE r == [link[l] EXCEPT !.stage = Dialling(Tail(link[l].list)), !.list = Tail(@)]
  <2>1. r \in Link /\ Goes(l, r)
    BY <1>2, Advances DEF Caller
  <2>2. link' = [link EXCEPT ![l] = r]
    BY <1>3 DEF check
  <2> QED
    BY <2>1, <2>2, <1>2 DEF Turn
<1>4. CASE ~Known(link[l].from, Head(link[l].list))
  <2> DEFINE r == [link[l] EXCEPT !.stage = "connecting"]
  <2>1. r \in Link /\ r.stage = "connecting" /\ r.owed = link[l].owed
        /\ r.list = link[l].list /\ r.cursor = link[l].cursor /\ Kept(r, link[l])
    BY <1>1 DEF Link, Stage, Kept
  <2>2. link' = [link EXCEPT ![l] = r]
    BY <1>4 DEF check
  <2> HIDE DEF r
  <2>3. Goes(l, r)
    BY <1>1, <1>2, <1>4, <2>1 DEF Goes, Sound, Unread, Asked, Caller, Kept
  <2> QED
    BY <2>1, <2>2, <2>3, <1>2 DEF Turn
<1> QED
  BY <1>3, <1>4

-----------------------------------------------------------------------------
(* The actions that change a registry.                                     *)

\* The first address of a list is dealt with.
PassedOn(l, r) ==
  /\ r.list = Tail(link[l].list) /\ r.stage = Dialling(Tail(link[l].list))
  /\ r.cursor = link[l].cursor /\ r.accepted = link[l].accepted

LEMMA Dials ==
  ASSUME TypeOK, Exchanges, NEW l \in Links, dial(l)
  PROVE  /\ link[l].stage = "connecting" /\ link[l].asks
         /\ UNCHANGED <<status, called>>
         /\ \E r \in Link :
              /\ Goes(l, r) /\ r.owed = link[l].owed /\ r.stage \in {"dialling", "done"}
              /\ PassedOn(l, r)
              /\ connect(link[l].from, Head(link[l].list), "found", l, FALSE, 0,
                         [link EXCEPT ![l] = r])
<1> DEFINE r == [link[l] EXCEPT !.stage = Dialling(Tail(link[l].list)), !.list = Tail(@)]
<1>1. link[l] \in Link /\ Sound(link[l], Len(sessions[link[l].to]))
  BY Indices DEF Exchanges
<1>2. link[l].stage = "connecting" /\ UNCHANGED <<status, called>>
  BY DEF dial
<1>3. r \in Link /\ Goes(l, r)
  BY <1>2, Advances DEF Caller
<1>4. r.owed = link[l].owed /\ r.stage \in {"dialling", "done"} /\ PassedOn(l, r)
  BY <1>1 DEF Link, Dialling, PassedOn
<1>5. connect(link[l].from, Head(link[l].list), "found", l, FALSE, 0,
              [link EXCEPT ![l] = r])
  BY DEF dial
<1> QED
  BY <1>1, <1>2, <1>3, <1>4, <1>5 DEF Sound

\* A connection back: the new record differs in owed alone.
LEMMA Backs ==
  ASSUME TypeOK, Exchanges, NEW l \in Links, connect_back(l)
  PROVE  /\ link[l].owed > 0
         /\ UNCHANGED <<status, called>>
         /\ \E r \in Link :
              /\ Kept(r, link[l]) /\ Sound(r, Len(sessions[link[l].to]))
              /\ r.owed = link[l].owed - 1
              /\ r.stage = link[l].stage /\ r.list = link[l].list
              /\ r.cursor = link[l].cursor /\ r.accepted = link[l].accepted
              /\ connect(link[l].to, <<"local", link[l].from>>, "back", l, FALSE, 0,
                         [link EXCEPT ![l] = r])
<1> DEFINE r == [link[l] EXCEPT !.owed = @ - 1]
<1>1. link[l] \in Link /\ Sound(link[l], Len(sessions[link[l].to]))
  BY Indices DEF Exchanges
<1>2. link[l].owed > 0 /\ link[l].owed - 1 \in Nat /\ UNCHANGED <<status, called>>
  BY <1>1 DEF connect_back, Link
<1>3. /\ r \in Link /\ Kept(r, link[l]) /\ r.owed = link[l].owed - 1
      /\ r.stage = link[l].stage /\ r.list = link[l].list
      /\ r.cursor = link[l].cursor /\ r.accepted = link[l].accepted
  BY <1>1, <1>2 DEF Link, Kept
<1>4. connect(link[l].to, <<"local", link[l].from>>, "back", l, FALSE, 0,
              [link EXCEPT ![l] = r])
  BY DEF connect_back
<1> HIDE DEF r
<1>5. Sound(r, Len(sessions[link[l].to]))
  BY <1>1, <1>3 DEF Sound, Kept
<1> QED
  BY <1>2, <1>3, <1>4, <1>5

LEMMA ConnectedExchanges ==
  ASSUME TypeOK, Exchanges, NEW n \in Node, NEW address, NEW cause \in Cause,
         NEW parent \in Nat, NEW asks \in BOOLEAN, NEW count \in Nat,
         NEW ls \in Seq(Link), Len(ls) = Len(link),
         \A k \in Links : Kept(ls[k], link[k])
                          /\ Sound(ls[k], Len(sessions[link[k].to])),
         connect(n, address, cause, parent, asks, count, ls),
         status' = status, called' \subseteq Call
  PROVE  TypeOK' /\ Exchanges'
<1>1. /\ link' \in Seq(Link) /\ Links \subseteq Links'
      /\ \A k \in Links : link'[k] = ls[k]
      /\ sessions' \in [Node -> Seq(Links' \X Side)]
      /\ \A m \in Node : Len(sessions'[m]) >= Len(sessions[m])
  <2>1. Grows(ls)
    BY Connected
  <2> QED
    BY <2>1 DEF Grows
<1>2. TypeOK'
  BY <1>1 DEF TypeOK
<1>3. ASSUME NEW k \in Links PROVE Sound(link'[k], Len(sessions'[link'[k].to]))
  <2>1. link[k].to \in Node
    BY Indices DEF Link
  <2>2. link'[k].to = link[k].to
    BY <1>1 DEF Kept
  <2>3. /\ Len(sessions'[link[k].to]) \in Nat /\ Len(sessions[link[k].to]) \in Nat
        /\ Len(sessions'[link[k].to]) >= Len(sessions[link[k].to])
    BY <1>1, <2>1 DEF TypeOK
  <2>4. link'[k].cursor \in Nat
    <3>1. link'[k] \in Link
      BY <1>1 DEF Links
    <3> QED
      BY <3>1 DEF Link
  <2>5. Sound(link'[k], Len(sessions[link[k].to]))
    BY <1>1
  <2> HIDE DEF Links
  <2>6. PICK c, few, many : /\ c = link'[k].cursor /\ few = Len(sessions[link[k].to])
                            /\ many = Len(sessions'[link[k].to])
    OBVIOUS
  <2>7. c \in Nat /\ few \in Nat /\ many \in Nat /\ (c <= few => c <= many)
    BY <2>3, <2>4, <2>6
  <2> QED
    BY <2>2, <2>5, <2>6, <2>7 DEF Sound
<1>4. ASSUME NEW k \in Links' \ Links PROVE Sound(link'[k], Len(sessions'[link'[k].to]))
  <2>1. Opens(n, Fresh(n, address[2], cause, parent, asks, count))
    BY <1>4, Connected
  <2>2. link'[k] = Fresh(n, address[2], cause, parent, asks, count)
    BY <1>4, <2>1 DEF Opens
  <2> QED
    BY <2>2 DEF Sound, Fresh
<1> QED
  BY <1>2, <1>3, <1>4 DEF Exchanges

\* The session of an accepted connection.
LEMMA Accepts ==
  ASSUME TypeOK, Exchanges, NEW l \in Links, do_accept(l)
  PROVE  /\ \E r \in Link :
              /\ r = [link[l] EXCEPT !.accepted = TRUE]
              /\ link' = [link EXCEPT ![l] = r]
              /\ Kept(r, link[l]) /\ Sound(r, Len(sessions[link[l].to]))
              /\ r.stage = link[l].stage /\ r.owed = link[l].owed /\ r.list = link[l].list
         /\ sessions' = [sessions EXCEPT ![link[l].to] = Append(@, <<l, "in">>)]
         /\ UNCHANGED <<status, called>>
<1> DEFINE r == [link[l] EXCEPT !.accepted = TRUE]
<1>1. link[l] \in Link /\ Sound(link[l], Len(sessions[link[l].to]))
  BY Indices DEF Exchanges
<1>2. /\ r \in Link /\ Kept(r, link[l]) /\ r.owed = link[l].owed
      /\ r.stage = link[l].stage /\ r.list = link[l].list /\ r.cursor = link[l].cursor
  BY <1>1 DEF Link, Kept
<1>3. link' = [link EXCEPT ![l] = r]
  BY DEF do_accept
<1>4. /\ sessions' = [sessions EXCEPT ![link[l].to] = Append(@, <<l, "in">>)]
      /\ UNCHANGED <<status, called>>
  BY DEF do_accept
<1>5. Kept(r, link[l]) /\ Sound(r, Len(sessions[link[l].to]))
  <2> HIDE DEF r
  <2> QED
    BY <1>1, <1>2 DEF Sound, Kept
<1> QED
  BY <1>2, <1>3, <1>4, <1>5

LEMMA AcceptedExchanges ==
  ASSUME TypeOK, Exchanges, NEW l \in Links, do_accept(l)
  PROVE  TypeOK' /\ Exchanges'
<1>1. PICK r \in Link :
        /\ link' = [link EXCEPT ![l] = r]
        /\ Kept(r, link[l]) /\ Sound(r, Len(sessions[link[l].to]))
  BY Accepts
<1>2. /\ link' \in Seq(Link) /\ Links' = Links
      /\ link'[l] = r
      /\ \A k \in Links \ {l} : link'[k] = link[k]
  BY <1>1, Replaced DEF TypeOK, Links
<1>3. /\ sessions' = [sessions EXCEPT ![link[l].to] = Append(@, <<l, "in">>)]
      /\ UNCHANGED <<status, called>>
  BY Accepts
<1>4. \A k \in Links : link[k].to \in Node /\ link[k].cursor \in Nat
  BY Indices DEF Link
<1>5. Append(sessions[link[l].to], <<l, "in">>) \in Seq(Links \X Side)
  BY <1>4 DEF TypeOK, Side
<1>6. sessions' \in [Node -> Seq(Links \X Side)]
  BY <1>3, <1>5 DEF TypeOK
<1>7. TypeOK'
  BY <1>2, <1>3, <1>6 DEF TypeOK
<1>8. \A n \in Node : /\ Len(sessions[n]) \in Nat /\ Len(sessions'[n]) \in Nat
                      /\ Len(sessions'[n]) >= Len(sessions[n])
  BY <1>3, <1>4, <1>5, <1>6 DEF TypeOK
<1>9. ASSUME NEW k \in Links PROVE Sound(link'[k], Len(sessions'[link'[k].to]))
  <2>1. Sound(link'[k], Len(sessions[link[k].to])) /\ link'[k].to = link[k].to
    BY <1>1, <1>2 DEF Exchanges, Kept
  <2>2. link'[k].cursor \in Nat
    <3>1. link'[k] \in Link
      BY <1>2 DEF Links
    <3> QED
      BY <3>1 DEF Link
  <2>3. link[k].to \in Node
    BY <1>4
  <2> QED
    BY <1>8, <2>1, <2>2, <2>3 DEF Sound
<1> QED
  BY <1>2, <1>7, <1>9 DEF Exchanges

\* An erase finds its session and leaves the registry's other entries.
LEMMA Erases ==
  ASSUME TypeOK, NEW n \in Node, NEW l \in Links, NEW side \in Side, on_error(n, l, side)
  PROVE  /\ ~Locked(n)
         /\ UNCHANGED <<status, called, link>>
         /\ sessions' \in [Node -> Seq(Links \X Side)]
         /\ \A m \in Node \ {n} : sessions'[m] = sessions[m]
         /\ \A m \in Node : ToSet(sessions'[m]) \subseteq ToSet(sessions[m])
<1> DEFINE old == sessions[n]
           p   == CHOOSE i \in DOMAIN old : old[i] = <<l, side>>
<1>1. /\ ~Locked(n) /\ UNCHANGED <<status, called, link>>
      /\ sessions' = [sessions EXCEPT ![n] = Without(@, <<l, side>>)]
      /\ <<l, side>> \in ToSet(old)
  BY DEF on_error, Registered
<1>2. old \in Seq(Links \X Side) /\ DOMAIN old = 1..Len(old) /\ Len(old) \in Nat
  BY DEF TypeOK
<1>3. p \in DOMAIN old
  BY <1>1 DEF ToSet
<1>4. Without(old, <<l, side>>) = RemoveAt(old, p)
  BY DEF Without
<1> HIDE DEF p
<1>5. /\ RemoveAt(old, p) \in Seq(Links \X Side)
      /\ Len(RemoveAt(old, p)) = Len(old) - 1
      /\ \A i \in 1..(Len(old) - 1) : RemoveAt(old, p)[i] \in {old[i], old[i + 1]}
  BY <1>2, <1>3, RemoveAtShape
<1>6. ToSet(RemoveAt(old, p)) \subseteq ToSet(old)
  <2>1. DOMAIN RemoveAt(old, p) = 1..(Len(old) - 1)
    BY <1>5
  <2>2. \A i \in 1..(Len(old) - 1) : i \in DOMAIN old /\ i + 1 \in DOMAIN old
    BY <1>2
  <2> QED
    BY <1>5, <2>1, <2>2 DEF ToSet
<1>7. sessions' = [sessions EXCEPT ![n] = RemoveAt(old, p)]
  BY <1>1, <1>4
<1>8. sessions' \in [Node -> Seq(Links \X Side)]
  BY <1>5, <1>7 DEF TypeOK
<1>9. \A m \in Node \ {n} : sessions'[m] = sessions[m]
  BY <1>7 DEF TypeOK
<1>10. sessions'[n] = RemoveAt(old, p)
  BY <1>7 DEF TypeOK
<1> QED
  BY <1>1, <1>6, <1>8, <1>9, <1>10

LEMMA ErasedExchanges ==
  ASSUME TypeOK, Exchanges,
         NEW n \in Node, NEW l \in Links, NEW side \in Side, on_error(n, l, side)
  PROVE  TypeOK' /\ Exchanges'
<1>1. /\ ~Locked(n) /\ UNCHANGED <<status, called, link>>
      /\ sessions' \in [Node -> Seq(Links \X Side)]
      /\ \A m \in Node \ {n} : sessions'[m] = sessions[m]
  BY Erases
<1>2. Links' = Links
  BY <1>1 DEF Links
<1>3. TypeOK'
  BY <1>1, <1>2 DEF TypeOK
<1>4. ASSUME NEW k \in Links PROVE Sound(link[k], Len(sessions'[link[k].to]))
  <2>1. Sound(link[k], Len(sessions[link[k].to]))
    BY DEF Exchanges
  <2>2. link[k].to \in Node
    BY Indices DEF Link
  <2>3. CASE link[k].to = n
    <3>1. link[k].stage # "reading"
      BY <1>1, <2>1, <2>3 DEF Locked, Sound
    <3> QED
      BY <2>1, <3>1 DEF Sound
  <2>4. CASE link[k].to # n
    BY <1>1, <2>1, <2>2, <2>4
  <2> QED
    BY <2>3, <2>4
<1> QED
  BY <1>1, <1>2, <1>3, <1>4 DEF Exchanges

-----------------------------------------------------------------------------
(* Steps.                                                                  *)

LEMMA Steps ==
  ASSUME TypeOK, Exchanges, [Next]_vars
  PROVE  \/ /\ UNCHANGED <<called, link, sessions>>
            /\ status' \in [Node -> {"made", "running", "stopped", "exited"}]
         \/ \E l \in Links : \E r : Turn(l, r)
         \/ \E l \in Links : do_accept(l) \/ connect_back(l) \/ dial(l)
         \/ \E c \in Call : node_connect(c)
         \/ \E n \in Node, l \in Links, side \in Side : on_error(n, l, side)
<1>1. CASE UNCHANGED vars
  BY <1>1 DEF vars, TypeOK
<1>2. CASE \E n \in Node : run(n) \/ stop(n) \/ exit(n)
  BY <1>2 DEF run, stop, exit, TypeOK
<1>3. CASE \E l \in Links : handle(l)
  BY <1>3, Writes, Addresses, Filters, Emplaces, Receives, Checks DEF handle
<1> QED
  BY <1>1, <1>2, <1>3 DEF Next

LEMMA CallTypes ==
  ASSUME TypeOK, NEW c \in Call, node_connect(c)
  PROVE  /\ From[c] \in Node /\ Count[c] \in Nat
         /\ link \in Seq(Link)
         /\ connect(From[c], <<"local", To[c]>>, "call", 0, TRUE, Count[c], link)
         /\ status' = status /\ called' \subseteq Call
BY ConstantsAssumption DEF node_connect, TypeOK

\* A connection back, or one to a listed address: link l is left with r.
Opening(l, r, n, address, cause) ==
  /\ [link EXCEPT ![l] = r] \in Seq(Link)
  /\ Len([link EXCEPT ![l] = r]) = Len(link)
  /\ [link EXCEPT ![l] = r][l] = r
  /\ \A k \in Links \ {l} : [link EXCEPT ![l] = r][k] = link[k]
  /\ Kept(r, link[l]) /\ Sound(r, Len(sessions[link[l].to]))
  /\ connect(n, address, cause, l, FALSE, 0, [link EXCEPT ![l] = r])
  /\ \/ /\ cause = "back" /\ n = link[l].to /\ link[l].owed > 0
        /\ address = <<"local", link[l].from>>
        /\ r.owed = link[l].owed - 1
        /\ r.stage = link[l].stage /\ r.list = link[l].list
        /\ r.cursor = link[l].cursor /\ r.accepted = link[l].accepted
     \/ /\ cause = "found" /\ n = link[l].from /\ link[l].asks
        /\ address = Head(link[l].list)
        /\ r.owed = link[l].owed /\ PassedOn(l, r)
        /\ link[l].stage = "connecting" /\ r.stage \in {"dialling", "done"}
  /\ UNCHANGED <<status, called>>

LEMMA Openings ==
  ASSUME TypeOK, Exchanges, NEW l \in Links, connect_back(l) \/ dial(l)
  PROVE  \E r \in Link, n \in Node : \E address, cause : Opening(l, r, n, address, cause)
<1>1. link[l].from \in Node /\ link[l].to \in Node
  BY Indices DEF Link
<1>2. CASE connect_back(l)
  <2>1. PICK r \in Link :
          /\ Kept(r, link[l]) /\ Sound(r, Len(sessions[link[l].to]))
          /\ r.owed = link[l].owed - 1
          /\ r.stage = link[l].stage /\ r.list = link[l].list
          /\ r.cursor = link[l].cursor /\ r.accepted = link[l].accepted
          /\ connect(link[l].to, <<"local", link[l].from>>, "back", l, FALSE, 0,
                     [link EXCEPT ![l] = r])
    BY <1>2, Backs
  <2>2. link[l].owed > 0 /\ UNCHANGED <<status, called>>
    BY <1>2, Backs
  <2>3. /\ [link EXCEPT ![l] = r] \in Seq(Link)
        /\ Len([link EXCEPT ![l] = r]) = Len(link)
        /\ [link EXCEPT ![l] = r][l] = r
        /\ \A k \in Links \ {l} : [link EXCEPT ![l] = r][k] = link[k]
    BY Replaced DEF TypeOK, Links
  <2>4. Opening(l, r, link[l].to, <<"local", link[l].from>>, "back")
    BY <2>1, <2>2, <2>3 DEF Opening
  <2> QED
    BY <1>1, <2>4
<1>3. CASE dial(l)
  <2>1. PICK r \in Link :
          /\ Goes(l, r) /\ r.owed = link[l].owed /\ r.stage \in {"dialling", "done"}
          /\ PassedOn(l, r)
          /\ connect(link[l].from, Head(link[l].list), "found", l, FALSE, 0,
                     [link EXCEPT ![l] = r])
    BY <1>3, Dials
  <2>2. /\ link[l].stage = "connecting" /\ link[l].asks
        /\ UNCHANGED <<status, called>>
    BY <1>3, Dials
  <2>3. /\ [link EXCEPT ![l] = r] \in Seq(Link)
        /\ Len([link EXCEPT ![l] = r]) = Len(link)
        /\ [link EXCEPT ![l] = r][l] = r
        /\ \A k \in Links \ {l} : [link EXCEPT ![l] = r][k] = link[k]
    BY Replaced DEF TypeOK, Links
  <2>4. Kept(r, link[l]) /\ Sound(r, Len(sessions[link[l].to]))
    BY <2>1 DEF Goes
  <2>5. Opening(l, r, link[l].from, Head(link[l].list), "found")
    BY <2>1, <2>2, <2>3, <2>4 DEF Opening
  <2> QED
    BY <1>1, <2>5
<1> QED
  BY <1>2, <1>3

LEMMA Typing == Spec => [](TypeOK /\ Exchanges)
<1>1. Init => TypeOK /\ Exchanges
  BY DEF Init, TypeOK, Exchanges, Links
<1>2. TypeOK /\ Exchanges /\ [Next]_vars => TypeOK' /\ Exchanges'
  <2> SUFFICES ASSUME TypeOK, Exchanges, [Next]_vars PROVE TypeOK' /\ Exchanges'
    OBVIOUS
  <2>1. CASE /\ UNCHANGED <<called, link, sessions>>
             /\ status' \in [Node -> {"made", "running", "stopped", "exited"}]
    BY <2>1 DEF TypeOK, Exchanges, Sound, Links
  <2>2. CASE \E l \in Links : \E r : Turn(l, r)
    BY <2>2, Turned
  <2>3. CASE \E l \in Links : do_accept(l)
    BY <2>3, AcceptedExchanges
  <2>4. CASE \E l \in Links : connect_back(l) \/ dial(l)
    <3>1. PICK l \in Links : connect_back(l) \/ dial(l)
      BY <2>4
    <3>0. PICK r \in Link, n \in Node : \E address, cause : Opening(l, r, n, address, cause)
      BY <3>1, Openings
    <3>2. PICK address, cause : Opening(l, r, n, address, cause)
      BY <3>0
    <3>3. PICK ls \in Seq(Link) : ls = [link EXCEPT ![l] = r]
      BY <3>2 DEF Opening
    <3>4. \A k \in Links : Kept(ls[k], link[k]) /\ Sound(ls[k], Len(sessions[link[k].to]))
      BY <3>2, <3>3 DEF Exchanges, Kept, Opening
    <3>5. /\ Len(ls) = Len(link) /\ connect(n, address, cause, l, FALSE, 0, ls)
          /\ cause \in Cause /\ status' = status /\ called' \subseteq Call
      BY <3>2, <3>3 DEF Cause, TypeOK, Opening
    <3>6. l \in Nat
      BY Indices
    <3> QED
      BY <3>4, <3>5, <3>6, ConnectedExchanges
  <2>5. CASE \E c \in Call : node_connect(c)
    <3>1. PICK c \in Call : node_connect(c)
      BY <2>5
    <3>2. \A k \in Links : Kept(link[k], link[k]) /\ Sound(link[k], Len(sessions[link[k].to]))
      BY DEF Kept, Exchanges
    <3> QED
      BY <3>1, <3>2, CallTypes, ConnectedExchanges DEF Cause
  <2>6. CASE \E n \in Node, l \in Links, side \in Side : on_error(n, l, side)
    BY <2>6, ErasedExchanges
  <2> QED
    BY <2>1, <2>2, <2>3, <2>4, <2>5, <2>6, Steps
<1> QED
  BY <1>1, <1>2, PTL DEF Spec

\* No run, however many nodes connect and stop, leaves the types (TypeOK).
THEOREM TypeCorrect == Spec => []TypeOK
BY Typing, PTL

-----------------------------------------------------------------------------
(* No cascades.                                                            *)

\* Only a call of node::connect asks for discovery or further connections.
Callers ==
  \A l \in Links : link[l].cause # "call" =>
    /\ link[l].parent \in Links /\ link[link[l].parent].cause = "call"
    /\ link[l].count = 0 /\ ~link[l].asks

BacksOf(l) == Opened(l, "back")

\* No connection back before the request is read, then as many as asked for.
Debts ==
  \A l \in Links :
    /\ link[l].stage \in Unread => link[l].owed = 0 /\ BacksOf(l) = {}
    /\ Cardinality(BacksOf(l)) + link[l].owed <=
         IF link[l].count = 0 THEN 0 ELSE link[l].count - 1

LEMMA FiniteBacks ==
  ASSUME TypeOK, NEW l \in Links
  PROVE  /\ IsFiniteSet(BacksOf(l)) /\ Cardinality(BacksOf(l)) \in Nat
         /\ BacksOf(l) \subseteq Links
<1>1. IsFiniteSet(Links)
  BY Indices, FS_Interval
<1>2. BacksOf(l) \subseteq Links
  BY DEF BacksOf, Opened
<1> QED
  BY <1>1, <1>2, FS_Subset, FS_CardinalityType

LEMMA SameBacks ==
  ASSUME TypeOK, Links' = Links, \A k \in Links : Kept(link'[k], link[k]), NEW l \in Links
  PROVE  BacksOf(l)' = BacksOf(l)
BY DEF BacksOf, Opened, Kept

\* The exchange of one link goes on; no link is opened.
LEMMA CascadeTurned ==
  ASSUME TypeOK, Callers, Debts, Links' = Links,
         NEW l \in Links, \A k \in Links \ {l} : link'[k] = link[k],
         Kept(link'[l], link[l]),
         link'[l].stage \in Unread => link[l].stage \in Unread,
         \/ link'[l].owed = link[l].owed
         \/ link[l].stage = "named" /\ link'[l].stage \notin Unread
            /\ link'[l].owed = Wanted(l)
  PROVE  Callers' /\ Debts'
<1>1. \A k \in Links : Kept(link'[k], link[k])
  BY DEF Kept
<1>2. Callers'
  BY <1>1 DEF Callers, Kept
<1>3. ASSUME NEW k \in Links
      PROVE  /\ link'[k].stage \in Unread => link'[k].owed = 0 /\ BacksOf(k)' = {}
             /\ Cardinality(BacksOf(k)') + link'[k].owed <=
                  IF link'[k].count = 0 THEN 0 ELSE link'[k].count - 1
  <2>1. BacksOf(k)' = BacksOf(k)
    BY <1>1, SameBacks
  <2>2. link'[k].count = link[k].count
    BY <1>1 DEF Kept
  <2>3. CASE link'[k].owed = link[k].owed
    <3>1. link'[k].stage \in Unread => link[k].stage \in Unread
      OBVIOUS
    <3> QED
      BY <2>1, <2>2, <2>3, <3>1 DEF Debts
  <2>4. CASE link'[k].owed # link[k].owed
    <3>1. /\ k = l /\ link[l].stage = "named" /\ link'[l].stage \notin Unread
          /\ link'[l].owed = Wanted(l)
      BY <2>4
    <3>2. BacksOf(k)' = {} /\ Cardinality({}) = 0
      BY <2>1, <3>1, FS_EmptySet DEF Debts, Unread
    <3>3. link[k].count \in Nat
      BY Indices DEF Link
    <3>4. Wanted(l) <= IF link[l].count = 0 THEN 0 ELSE link[l].count - 1
      BY <3>1, <3>3 DEF Wanted
    <3>5. Wanted(l) \in Nat
      BY <3>1, <3>3 DEF Wanted
    <3> QED
      BY <2>2, <3>1, <3>2, <3>4, <3>5
  <2> QED
    BY <2>3, <2>4
<1> QED
  BY <1>2, <1>3 DEF Debts

\* A link is opened for a call, or by a handler for a call's link.
Caused(cause, parent, asks, count) ==
  \/ cause = "call"
  \/ /\ cause \in {"back", "found"} /\ parent \in Links
     /\ link[parent].cause = "call" /\ count = 0 /\ ~asks

\* A connection back is taken from what its parent owes.
Paid(ls, cause, parent) ==
  \A k \in Links :
    /\ Kept(ls[k], link[k])
    /\ ls[k].stage \in Unread => link[k].stage \in Unread
    /\ IF cause = "back" /\ parent = k
         THEN /\ link[k].owed > 0 /\ ls[k].owed = link[k].owed - 1
              /\ ls[k].stage = link[k].stage
         ELSE ls[k].owed = link[k].owed

LEMMA CascadeOpened ==
  ASSUME TypeOK, Callers, Debts, NEW ls, NEW n, NEW to, NEW cause, NEW parent,
         NEW asks, NEW count \in Nat, \A k \in Links : link'[k] = ls[k],
         Opens(n, Fresh(n, to, cause, parent, asks, count)),
         Caused(cause, parent, asks, count), Paid(ls, cause, parent)
  PROVE  Callers' /\ Debts'
<1>0. PICK new : new = Len(link) + 1
  OBVIOUS
<1>1. new \notin Links /\ Links' = Links \union {new}
  BY <1>0, NewLink DEF Opens
<1>2. /\ link'[new].cause = cause /\ link'[new].parent = parent
      /\ link'[new].asks = asks /\ link'[new].count = count
      /\ link'[new].owed = 0
  BY <1>0 DEF Opens, Fresh
<1>3. \A k \in Links : Kept(link'[k], link[k])
  BY DEF Paid
<1>4. Callers'
  BY <1>1, <1>2, <1>3 DEF Callers, Kept, Caused
<1>5. ASSUME NEW k \in Links
      PROVE  BacksOf(k)' = IF cause = "back" /\ parent = k
                              THEN BacksOf(k) \union {new} ELSE BacksOf(k)
  BY <1>1, <1>2, <1>3 DEF BacksOf, Opened, Kept
<1>6. BacksOf(new)' = {}
  <2>1. ASSUME NEW k \in Links PROVE ~(link'[k].parent = new /\ link'[k].cause = "back")
    BY <1>1, <1>3 DEF Callers, Kept
  <2>2. ~(link'[new].parent = new /\ link'[new].cause = "back")
    BY <1>1, <1>2 DEF Caused
  <2> QED
    BY <1>1, <2>1, <2>2 DEF BacksOf, Opened
<1>7. ASSUME NEW k \in Links
      PROVE  /\ link'[k].stage \in Unread => link'[k].owed = 0 /\ BacksOf(k)' = {}
             /\ Cardinality(BacksOf(k)') + link'[k].owed <=
                  IF link'[k].count = 0 THEN 0 ELSE link'[k].count - 1
  <2>1. link'[k].count = link[k].count /\ link'[k] = ls[k] /\ link[k].owed \in Nat
    BY <1>3, Indices DEF Kept, Link
  <2>2. CASE cause = "back" /\ parent = k
    <3>1. /\ link[k].owed > 0 /\ link'[k].owed = link[k].owed - 1
          /\ link'[k].stage = link[k].stage
      BY <2>1, <2>2 DEF Paid
    <3>2. link[k].stage \notin Unread
      BY <2>1, <3>1 DEF Debts
    <3>3. BacksOf(k)' = BacksOf(k) \union {new} /\ new \notin BacksOf(k)
      BY <1>1, <1>5, <2>2, FiniteBacks
    <3>4. /\ Cardinality(BacksOf(k)') = Cardinality(BacksOf(k)) + 1
          /\ Cardinality(BacksOf(k)) \in Nat
      BY <3>3, FiniteBacks, FS_AddElement
    <3> QED
      BY <2>1, <3>1, <3>2, <3>4 DEF Debts
  <2>3. CASE ~(cause = "back" /\ parent = k)
    <3>1. BacksOf(k)' = BacksOf(k) /\ link'[k].owed = link[k].owed
      BY <1>5, <2>1, <2>3 DEF Paid
    <3>2. link'[k].stage \in Unread => link[k].stage \in Unread
      BY <2>1 DEF Paid
    <3> QED
      BY <2>1, <3>1, <3>2 DEF Debts
  <2> QED
    BY <2>2, <2>3
<1>8. /\ link'[new].stage \in Unread => link'[new].owed = 0 /\ BacksOf(new)' = {}
      /\ Cardinality(BacksOf(new)') + link'[new].owed <=
           IF link'[new].count = 0 THEN 0 ELSE link'[new].count - 1
  <2>1. Cardinality(BacksOf(new)') = 0
    BY <1>6, FS_EmptySet
  <2> QED
    BY <1>2, <1>6, <2>1
<1>9. Debts'
  <2> SUFFICES ASSUME NEW k \in Links'
               PROVE  /\ link'[k].stage \in Unread => link'[k].owed = 0 /\ BacksOf(k)' = {}
                      /\ Cardinality(BacksOf(k)') + link'[k].owed <=
                           IF link'[k].count = 0 THEN 0 ELSE link'[k].count - 1
    BY DEF Debts
  <2> QED
    BY <1>1, <1>7, <1>8
<1> QED
  BY <1>4, <1>9

LEMMA Cascades == Spec => [](Callers /\ Debts)
<1>1. Init => Callers /\ Debts
  BY DEF Init, Callers, Debts, Links
<1>2. TypeOK /\ Exchanges /\ Callers /\ Debts /\ [Next]_vars => Callers' /\ Debts'
  <2> SUFFICES ASSUME TypeOK, Exchanges, Callers, Debts, [Next]_vars
               PROVE  Callers' /\ Debts'
    OBVIOUS
  <2>1. CASE UNCHANGED link
    BY <2>1 DEF Callers, Debts, BacksOf, Opened, Links
  <2>2. CASE \E l \in Links : \E r : Turn(l, r)
    <3>0. PICK l \in Links : \E r : Turn(l, r)
      BY <2>2
    <3>1. PICK r : Turn(l, r)
      BY <3>0
    <3>2. /\ Links' = Links /\ link'[l] = r
          /\ \A k \in Links \ {l} : link'[k] = link[k]
      BY <3>1, Replaced DEF TypeOK, Links, Turn
    <3> QED
      BY <3>1, <3>2, CascadeTurned DEF Turn, Goes
  <2>3. CASE \E l \in Links : do_accept(l)
    <3>1. PICK l \in Links : do_accept(l)
      BY <2>3
    <3>2. PICK r \in Link :
            /\ link' = [link EXCEPT ![l] = r]
            /\ Kept(r, link[l]) /\ r.stage = link[l].stage /\ r.owed = link[l].owed
      BY <3>1, Accepts
    <3>3. /\ Links' = Links /\ link'[l] = r
          /\ \A k \in Links \ {l} : link'[k] = link[k]
      BY <3>2, Replaced DEF TypeOK, Links
    <3> QED
      BY <3>2, <3>3, CascadeTurned
  <2>4. CASE \E l \in Links : connect_back(l) \/ dial(l)
    <3>1. PICK l \in Links : connect_back(l) \/ dial(l)
      BY <2>4
    <3>0. PICK r \in Link, n \in Node : \E address, cause : Opening(l, r, n, address, cause)
      BY <3>1, Openings
    <3>2. PICK address, cause : Opening(l, r, n, address, cause)
      BY <3>0
    <3>3. PICK ls \in Seq(Link) : ls = [link EXCEPT ![l] = r]
      BY <3>2 DEF Opening
    <3>4. /\ Len(ls) = Len(link) /\ connect(n, address, cause, l, FALSE, 0, ls)
          /\ cause \in Cause /\ status' = status
      BY <3>2, <3>3 DEF Cause, Opening
    <3>5. /\ ls[l] = r /\ \A k \in Links \ {l} : ls[k] = link[k]
          /\ Kept(r, link[l])
      BY <3>2, <3>3 DEF Opening
    <3>6. \A k \in Links : Kept(ls[k], link[k])
      BY <3>5 DEF Kept
    <3>7. \/ /\ cause = "back" /\ link[l].owed > 0
             /\ r.owed = link[l].owed - 1 /\ r.stage = link[l].stage
          \/ /\ cause = "found" /\ link[l].asks
             /\ r.owed = link[l].owed
             /\ link[l].stage = "connecting" /\ r.stage \in {"dialling", "done"}
      BY <3>2 DEF Opening
    <3>8. link[l].cause = "call"
      <4>1. CASE link[l].asks
        BY <4>1 DEF Callers
      <4>2. CASE link[l].owed > 0
        <5>1. Cardinality(BacksOf(l)) \in Nat /\ link[l].owed \in Nat /\ link[l].count \in Nat
          BY FiniteBacks, Indices DEF Link
        <5>2. link[l].count # 0
          BY <4>2, <5>1 DEF Debts
        <5> QED
          BY <5>2 DEF Callers
      <4> QED
        BY <3>7, <4>1, <4>2
    <3>9. Grows(ls) /\ \/ Links' = Links
                       \/ Opens(n, Fresh(n, address[2], cause, l, FALSE, 0))
      <4>1. l \in Nat
        BY Indices
      <4> QED
        BY <3>4, <4>1, Connected
    <3>10. CASE Opens(n, Fresh(n, address[2], cause, l, FALSE, 0))
      <4>1. \A k \in Links : link'[k] = ls[k]
        BY <3>9 DEF Grows
      <4>2. Paid(ls, cause, l)
        BY <3>5, <3>6, <3>7 DEF Unread, Paid
      <4>3. Caused(cause, l, FALSE, 0)
        BY <3>7, <3>8 DEF Caused
      <4> QED
        BY <3>10, <4>1, <4>2, <4>3, CascadeOpened
    <3>11. CASE Links' = Links
      \* Nobody is reached: a connection back that was owed is not made up for.
      <4>1. \A k \in Links : link'[k] = ls[k]
        BY <3>9 DEF Grows
      <4>2. CASE cause = "found"
        <5>1. /\ link'[l] = r /\ \A k \in Links \ {l} : link'[k] = link[k]
              /\ Kept(r, link[l]) /\ r.owed = link[l].owed
              /\ r.stage \notin Unread
          BY <3>5, <3>7, <4>1, <4>2 DEF Unread
        <5> QED
          BY <3>11, <5>1, CascadeTurned
      <4>3. CASE cause = "back"
        <5>1. \A k \in Links : Kept(link'[k], link[k])
          BY <3>6, <4>1
        <5>2. Callers'
          BY <3>11, <5>1 DEF Callers, Kept
        <5>3. ASSUME NEW k \in Links
              PROVE  /\ link'[k].stage \in Unread => link'[k].owed = 0 /\ BacksOf(k)' = {}
                     /\ Cardinality(BacksOf(k)') + link'[k].owed <=
                          IF link'[k].count = 0 THEN 0 ELSE link'[k].count - 1
          <6>1. BacksOf(k)' = BacksOf(k)
            BY <3>11, <5>1, SameBacks
          <6>2. /\ link'[k].count = link[k].count /\ link[k].count \in Nat
                /\ link[k].owed \in Nat /\ Cardinality(BacksOf(k)) \in Nat
            BY <5>1, Indices, FiniteBacks DEF Kept, Link
          <6>3. /\ link'[k].stage = link[k].stage
                /\ \/ link'[k].owed = link[k].owed
                   \/ link[k].owed > 0 /\ link'[k].owed = link[k].owed - 1
            BY <3>5, <3>7, <4>1, <4>3
          <6>4. /\ link[k].stage \in Unread => link[k].owed = 0 /\ BacksOf(k) = {}
                /\ Cardinality(BacksOf(k)) + link[k].owed <=
                     IF link[k].count = 0 THEN 0 ELSE link[k].count - 1
            BY DEF Debts
          <6> HIDE DEF Unread
          <6> QED
            BY <6>1, <6>2, <6>3, <6>4
        <5> QED
          BY <3>11, <5>2, <5>3 DEF Debts
      <4> QED
        BY <3>7, <4>2, <4>3
    <3> QED
      BY <3>9, <3>10, <3>11
  <2>5. CASE \E c \in Call : node_connect(c)
    <3>1. PICK c \in Call : node_connect(c)
      BY <2>5
    <3>2. /\ From[c] \in Node /\ Count[c] \in Nat /\ link \in Seq(Link)
          /\ connect(From[c], <<"local", To[c]>>, "call", 0, TRUE, Count[c], link)
      BY <3>1, CallTypes
    <3>3. /\ Grows(link)
          /\ \/ Links' = Links
             \/ Opens(From[c], Fresh(From[c], <<"local", To[c]>>[2], "call", 0, TRUE, Count[c]))
      BY <3>2, Connected DEF Cause
    <3>4. \A k \in Links : link'[k] = link[k] /\ Kept(link[k], link[k])
      BY <3>3 DEF Grows, Kept
    <3>5. CASE Opens(From[c], Fresh(From[c], <<"local", To[c]>>[2], "call", 0, TRUE, Count[c]))
      <4>1. Paid(link, "call", 0) /\ Caused("call", 0, TRUE, Count[c])
        BY <3>4 DEF Paid, Caused
      <4> QED
        BY <3>2, <3>4, <3>5, <4>1, CascadeOpened
    <3>6. CASE Links' = Links
      <4>1. CASE Links = {}
        BY <3>6, <4>1 DEF Callers, Debts
      <4>2. CASE Links # {}
        BY <3>4, <3>6, <4>2, CascadeTurned
      <4> QED
        BY <4>1, <4>2
    <3> QED
      BY <3>3, <3>5, <3>6
  <2>6. CASE \E n \in Node, l \in Links, side \in Side : on_error(n, l, side)
    <3>1. UNCHANGED link
      BY <2>6, Erases
    <3> QED
      BY <2>1, <3>1
  <2> QED
    BY <2>1, <2>2, <2>3, <2>4, <2>5, <2>6, Steps
<1> QED
  BY <1>1, <1>2, Typing, PTL DEF Spec

\* However many nodes there are and whatever lists they hear, a connection that a
\* handler opens is for a call's request and asks for nothing itself, and a
\* request for k connections leads to at most k (NoCascade).
THEOREM NoCascadeHolds == Spec => []NoCascade
<1>1. Callers /\ Debts => NoCascade
  BY DEF Callers, Debts, BacksOf, NoCascade
<1> QED
  BY Cascades, <1>1, PTL

-----------------------------------------------------------------------------
(* No known peer is dialled.                                               *)

\* Node n's strand for link l is within a handler.
Works(n, l) ==
  \/ link[l].to = n /\ link[l].stage \in Asked
  \/ link[l].from = n /\ link[l].stage \in Caller

OneHandler ==
  \A n \in Node \ Multi : \A k, l \in Links : Works(n, k) /\ Works(n, l) => k = l

Owners ==
  \A n \in Node : \A s \in ToSet(sessions[n]) :
    s[2] = "in" => link[s[1]].to = n

\* Between the check and the connection the address stays unknown.
Unseen ==
  \A l \in Links, n \in Node \ Multi : \A address :
    /\ link[l].stage = "connecting" /\ link[l].from = n
    /\ Head(link[l].list) = address /\ address[2] \in Node
    => ~Known(n, address)

LEMMA Idle ==
  ASSUME NEW n \in Node \ Multi, Free(n), NEW l \in Links
  PROVE  ~Works(n, l)
BY DEF Free, Busy, Works, Asked, Caller

LEMMA SessionTypes ==
  ASSUME TypeOK, NEW n \in Node
  PROVE  ToSet(sessions[n]) \subseteq Links \X Side
<1>1. sessions[n] \in Seq(Links \X Side)
  BY DEF TypeOK
<1>2. DOMAIN sessions[n] = 1..Len(sessions[n])
  BY <1>1
<1>3. \A i \in DOMAIN sessions[n] : sessions[n][i] \in Links \X Side
  BY <1>1, <1>2
<1> QED
  BY <1>3 DEF ToSet

LEMMA SameAddress ==
  ASSUME NEW s, Kept(link'[s[1]], link[s[1]]),
         link'[s[1]].stage \in Unread <=> link[s[1]].stage \in Unread
  PROVE  AddressOf(s)' = AddressOf(s)
BY DEF AddressOf, PortOf, Kept, Unread

LEMMA NoOutAddress ==
  ASSUME NEW s, s[2] = "out"
  PROVE  AddressOf(s)[2] \notin Node /\ AddressOf(s)'[2] \notin Node
BY ConstantsAssumption DEF AddressOf, Blank

\* No session of n comes to have the address of a node by this step.
NoNews(n) ==
  \A s \in ToSet(sessions'[n]) :
    AddressOf(s)'[2] \in Node => s \in ToSet(sessions[n]) /\ AddressOf(s)' = AddressOf(s)

LEMMA StillUnseen ==
  ASSUME NEW n, NEW address, address[2] \in Node, ~Known(n, address), NoNews(n)
  PROVE  ~Known(n, address)'
BY DEF Known, NoNews

LEMMA UnseenTurned ==
  ASSUME TypeOK, OneHandler, Owners, Unseen, NEW l \in Links, NEW r, Turn(l, r)
  PROVE  OneHandler' /\ Owners' /\ Unseen'
<1>1. /\ Links' = Links /\ link'[l] = r /\ sessions' = sessions
      /\ \A k \in Links \ {l} : link'[k] = link[k]
  BY Replaced DEF TypeOK, Links, Turn
<1>2. Kept(r, link[l])
  BY DEF Turn, Goes
<1>3. OneHandler'
  <2> SUFFICES ASSUME NEW n \in Node \ Multi, NEW j \in Links, NEW k \in Links,
                      Works(n, j)', Works(n, k)'
               PROVE  j = k
    BY <1>1 DEF OneHandler
  <2>1. \A i \in Links \ {l} : Works(n, i)' => Works(n, i)
    BY <1>1 DEF Works
  <2>2. Works(n, l)' => Works(n, l) \/ Free(n)
    BY <1>1, <1>2 DEF Works, Turn, Goes, Kept
  <2>3. CASE Free(n)
    BY <2>1, <2>3, Idle
  <2>4. CASE ~Free(n)
    BY <2>1, <2>2, <2>4 DEF OneHandler
  <2> QED
    BY <2>3, <2>4
<1>4. Owners'
  <2> SUFFICES ASSUME NEW n \in Node, NEW s \in ToSet(sessions[n]), s[2] = "in"
               PROVE  link'[s[1]].to = n
    BY <1>1 DEF Owners
  <2>1. link[s[1]].to = n /\ s[1] \in Links
    BY SessionTypes DEF Owners
  <2> QED
    BY <1>1, <1>2, <2>1 DEF Kept
<1>5. ASSUME NEW x \in Links, NEW n \in Node \ Multi, NEW address,
             link'[x].stage = "connecting", link'[x].from = n,
             Head(link'[x].list) = address, address[2] \in Node
      PROVE  ~Known(n, address)'
  <2>1. link[x].from = n /\ Head(link[x].list) = address
    BY <1>1, <1>2, <1>5 DEF Turn, Goes, Kept
  <2>2. ~Known(n, address)
    <3>1. CASE x = l
      BY <1>1, <1>5, <2>1, <3>1 DEF Turn, Goes
    <3>2. CASE x # l
      BY <1>1, <1>5, <2>1, <3>2 DEF Unseen
    <3> QED
      BY <3>1, <3>2
  <2>3. NoNews(n)
    <3> SUFFICES ASSUME NEW s \in ToSet(sessions[n]), AddressOf(s)'[2] \in Node
                 PROVE  AddressOf(s)' = AddressOf(s)
      BY <1>1 DEF NoNews
    <3>1. s \in Links \X Side /\ s[2] = "in"
      BY SessionTypes, NoOutAddress DEF Side
    <3>2. link[s[1]].to = n
      BY <3>1 DEF Owners
    <3>3. CASE link'[s[1]].stage \in Unread <=> link[s[1]].stage \in Unread
      <4>1. Kept(link'[s[1]], link[s[1]])
        BY <1>1, <1>2, <3>1 DEF Kept
      <4> QED
        BY <3>3, <4>1, SameAddress
    <3>4. CASE ~(link'[s[1]].stage \in Unread <=> link[s[1]].stage \in Unread)
      <4>1. s[1] = l /\ link[l].stage = "named"
        BY <1>1, <3>1, <3>4 DEF Turn, Goes
      <4>2. Works(n, l)
        BY <3>2, <4>1 DEF Works, Asked
      <4>3. x # l
        BY <1>1, <1>5, <4>1 DEF Turn, Goes
      <4>4. Works(n, x)
        BY <1>1, <1>5, <2>1, <4>3 DEF Works, Caller
      <4> QED
        BY <4>2, <4>3, <4>4 DEF OneHandler
    <3> QED
      BY <3>3, <3>4
  <2> QED
    BY <1>5, <2>2, <2>3, StillUnseen
<1>6. Unseen'
  BY <1>1, <1>5 DEF Unseen
<1> QED
  BY <1>3, <1>4, <1>6

\* ls says of no exchange that it is read, begun or taken up.
Quiet(ls) ==
  \A k \in Links :
    /\ Kept(ls[k], link[k])
    /\ ls[k].stage \in Unread <=> link[k].stage \in Unread
    /\ ls[k].stage \in Asked => link[k].stage \in Asked
    /\ ls[k].stage \in Caller => link[k].stage \in Caller
    /\ ls[k].stage = "connecting" =>
         link[k].stage = "connecting" /\ ls[k].list = link[k].list

\* A session is added to the registry of m, for a new link or for one accepted.
LEMMA UnseenQuiet ==
  ASSUME TypeOK, OneHandler, Owners, Unseen, NEW ls, Quiet(ls),
         Links \subseteq Links', \A k \in Links : link'[k] = ls[k],
         \A k \in Links' \ Links : link'[k].stage = "queued",
         NEW m \in Node, NEW new,
         \A n \in Node : ToSet(sessions'[n]) \subseteq
           ToSet(sessions[n]) \union IF n = m THEN {new} ELSE {},
         \/ new[2] = "out"
         \/ new[2] = "in" /\ new[1] \in Links /\ link[new[1]].to = m /\ Free(m)
  PROVE  OneHandler' /\ Owners' /\ Unseen'
<1>1. \A k \in Links : Kept(link'[k], link[k])
  BY DEF Quiet
<1>2. OneHandler'
  <2> SUFFICES ASSUME NEW n \in Node \ Multi, NEW j \in Links', NEW k \in Links',
                      Works(n, j)', Works(n, k)'
               PROVE  j = k
    BY DEF OneHandler
  <2>1. \A i \in Links' : Works(n, i)' => i \in Links /\ Works(n, i)
    BY DEF Works, Quiet, Kept, Asked, Caller
  <2> QED
    BY <2>1 DEF OneHandler
<1>3. Owners'
  <2> SUFFICES ASSUME NEW n \in Node, NEW s \in ToSet(sessions'[n]), s[2] = "in"
               PROVE  link'[s[1]].to = n
    BY DEF Owners
  <2>1. s[1] \in Links /\ link[s[1]].to = n
    <3>1. CASE s \in ToSet(sessions[n])
      BY <3>1, SessionTypes DEF Owners
    <3>2. CASE n = m /\ s = new
      BY <3>2
    <3> QED
      BY <3>1, <3>2
  <2> QED
    BY <1>1, <2>1 DEF Kept
<1>4. ASSUME NEW x \in Links', NEW n \in Node \ Multi, NEW address,
             link'[x].stage = "connecting", link'[x].from = n,
             Head(link'[x].list) = address, address[2] \in Node
      PROVE  ~Known(n, address)'
  <2>1. /\ x \in Links /\ link[x].stage = "connecting" /\ link[x].from = n
        /\ Head(link[x].list) = address
    BY <1>4 DEF Quiet, Kept
  <2>2. ~Known(n, address)
    BY <1>4, <2>1 DEF Unseen
  <2>3. NoNews(n)
    <3> SUFFICES ASSUME NEW s \in ToSet(sessions'[n]), AddressOf(s)'[2] \in Node
                 PROVE  s \in ToSet(sessions[n]) /\ AddressOf(s)' = AddressOf(s)
      BY DEF NoNews
    <3>1. s[2] # "out"
      BY NoOutAddress
    <3>2. s \in ToSet(sessions[n])
      <4>1. CASE n = m /\ s = new
        <5>1. Free(n)
          BY <3>1, <4>1
        <5>2. ~Works(n, x)
          BY <2>1, <5>1, Idle
        <5> QED
          BY <2>1, <5>2 DEF Works, Caller
      <4> QED
        BY <4>1
    <3>3. s[1] \in Links
      BY <3>2, SessionTypes
    <3>4. link'[s[1]].stage \in Unread <=> link[s[1]].stage \in Unread
      BY <3>3 DEF Quiet
    <3> QED
      BY <1>1, <3>2, <3>3, <3>4, SameAddress
  <2> QED
    BY <1>4, <2>2, <2>3, StillUnseen
<1>5. Unseen'
  BY <1>4 DEF Unseen
<1> QED
  BY <1>2, <1>3, <1>5

\* What a registry holds after a session is appended.
LEMMA Appended ==
  ASSUME TypeOK, NEW m \in Node, NEW new,
         sessions' = [sessions EXCEPT ![m] = Append(@, new)]
  PROVE  \A n \in Node : ToSet(sessions'[n]) \subseteq
           ToSet(sessions[n]) \union IF n = m THEN {new} ELSE {}
<1> SUFFICES ASSUME NEW n \in Node
             PROVE  ToSet(sessions'[n]) \subseteq
                      ToSet(sessions[n]) \union IF n = m THEN {new} ELSE {}
  OBVIOUS
<1>1. CASE n = m
  <2>1. sessions'[n] = Append(sessions[n], new) /\ sessions[n] \in Seq(Links \X Side)
    BY <1>1 DEF TypeOK
  <2>2. ToSet(Append(sessions[n], new)) = ToSet(sessions[n]) \union {new}
    BY <2>1, AppendSet
  <2> QED
    BY <1>1, <2>1, <2>2
<1>2. CASE n # m
  BY <1>2 DEF TypeOK
<1> QED
  BY <1>1, <1>2

\* A node tries to connect.
LEMMA UnseenConnected ==
  ASSUME TypeOK, OneHandler, Owners, Unseen, NEW n \in Node, NEW address,
         NEW cause \in Cause, NEW parent \in Nat, NEW asks \in BOOLEAN,
         NEW count \in Nat, NEW ls \in Seq(Link), Len(ls) = Len(link), Quiet(ls),
         connect(n, address, cause, parent, asks, count, ls)
  PROVE  OneHandler' /\ Owners' /\ Unseen'
<1> DEFINE r == Fresh(n, address[2], cause, parent, asks, count)
<1>1. Grows(ls) /\ ((Links' = Links /\ sessions' = sessions) \/ Opens(n, r))
  BY Connected
<1>2. PICK new : new = <<Len(link) + 1, "out">>
  OBVIOUS
<1>3. \A k \in Links' \ Links : link'[k].stage = "queued"
  BY <1>1 DEF Opens, Fresh
<1> HIDE DEF r
<1>4. \A m \in Node : ToSet(sessions'[m]) \subseteq
        ToSet(sessions[m]) \union IF m = n THEN {new} ELSE {}
  <2>1. CASE sessions' = sessions
    BY <2>1
  <2>2. CASE Opens(n, r)
    <3>1. sessions' = [sessions EXCEPT ![n] = Append(@, new)]
      BY <1>2, <2>2 DEF Opens
    <3> QED
      BY <3>1, Appended
  <2> QED
    BY <1>1, <2>1, <2>2
<1>5. Links \subseteq Links' /\ \A k \in Links : link'[k] = ls[k]
  BY <1>1 DEF Grows
<1>6. new[2] = "out"
  BY <1>2
<1> QED
  BY <1>3, <1>4, <1>5, <1>6, UnseenQuiet

LEMMA Announcements == Spec => [](OneHandler /\ Owners /\ Unseen)
<1>1. Init => OneHandler /\ Owners /\ Unseen
  BY DEF Init, OneHandler, Owners, Unseen, Links, ToSet
<1>2. TypeOK /\ Exchanges /\ OneHandler /\ Owners /\ Unseen /\ [Next]_vars
        => OneHandler' /\ Owners' /\ Unseen'
  <2> SUFFICES ASSUME TypeOK, Exchanges, OneHandler, Owners, Unseen, [Next]_vars
               PROVE  OneHandler' /\ Owners' /\ Unseen'
    OBVIOUS
  <2>1. CASE UNCHANGED <<link, sessions>>
    BY <2>1 DEF OneHandler, Owners, Unseen, Works, Known, AddressOf, PortOf, Links
  <2>2. CASE \E l \in Links : \E r : Turn(l, r)
    BY <2>2, UnseenTurned
  <2>3. CASE \E l \in Links : do_accept(l)
    <3>1. PICK l \in Links : do_accept(l)
      BY <2>3
    <3>2. PICK r \in Link :
            /\ link' = [link EXCEPT ![l] = r]
            /\ Kept(r, link[l]) /\ r.stage = link[l].stage /\ r.list = link[l].list
      BY <3>1, Accepts
    <3>3. /\ Links' = Links /\ link'[l] = r
          /\ \A k \in Links \ {l} : link'[k] = link[k]
      BY <3>2, Replaced DEF TypeOK, Links
    <3>4. PICK ls : ls = link'
      OBVIOUS
    <3>5. Quiet(ls)
      BY <3>2, <3>3, <3>4 DEF Quiet, Kept
    <3>6. PICK m \in Node : m = link[l].to
      BY Indices DEF Link
    <3>7. PICK new : new = <<l, "in">>
      OBVIOUS
    <3>8. \A n \in Node : ToSet(sessions'[n]) \subseteq
            ToSet(sessions[n]) \union IF n = m THEN {new} ELSE {}
      BY <3>1, <3>6, <3>7, Accepts, Appended
    <3>9. /\ new[2] = "in" /\ new[1] \in Links /\ link[new[1]].to = m /\ Free(m)
      BY <3>1, <3>6, <3>7 DEF do_accept
    <3> QED
      BY <3>3, <3>4, <3>5, <3>8, <3>9, UnseenQuiet
  <2>4. CASE \E l \in Links : connect_back(l) \/ dial(l)
    <3>1. PICK l \in Links : connect_back(l) \/ dial(l)
      BY <2>4
    <3>0. PICK r \in Link, n \in Node : \E address, cause : Opening(l, r, n, address, cause)
      BY <3>1, Openings
    <3>2. PICK address, cause : Opening(l, r, n, address, cause)
      BY <3>0
    <3>3. PICK ls \in Seq(Link) : ls = [link EXCEPT ![l] = r]
      BY <3>2 DEF Opening
    <3>4. /\ Len(ls) = Len(link) /\ connect(n, address, cause, l, FALSE, 0, ls)
          /\ cause \in Cause
      BY <3>2, <3>3 DEF Cause, Opening
    <3>5. /\ ls[l] = r /\ \A k \in Links \ {l} : ls[k] = link[k]
          /\ Kept(r, link[l])
      BY <3>2, <3>3 DEF Opening
    <3>6. \/ r.stage = link[l].stage /\ r.list = link[l].list
          \/ link[l].stage = "connecting" /\ r.stage \in {"dialling", "done"}
      BY <3>2 DEF Opening
    <3>7. Quiet(ls)
      BY <3>5, <3>6 DEF Quiet, Kept, Unread, Asked, Caller
    <3>8. l \in Nat
      BY Indices
    <3> QED
      BY <3>4, <3>7, <3>8, UnseenConnected
  <2>5. CASE \E c \in Call : node_connect(c)
    <3>1. PICK c \in Call : node_connect(c)
      BY <2>5
    <3>2. Quiet(link)
      BY DEF Quiet, Kept
    <3> QED
      BY <3>1, <3>2, CallTypes, UnseenConnected DEF Cause
  <2>6. CASE \E n \in Node, l \in Links, side \in Side : on_error(n, l, side)
    <3>1. /\ UNCHANGED link /\ Links' = Links
          /\ \A m \in Node : ToSet(sessions'[m]) \subseteq ToSet(sessions[m])
      BY <2>6, Erases DEF Links
    <3>2. OneHandler' /\ Owners'
      BY <3>1 DEF OneHandler, Owners, Works
    <3>3. \A m \in Node : NoNews(m)
      BY <3>1 DEF NoNews, AddressOf, PortOf
    <3>4. Unseen'
      BY <3>1, <3>3, StillUnseen DEF Unseen
    <3> QED
      BY <3>2, <3>4
  <2> QED
    BY <2>1, <2>2, <2>3, <2>4, <2>5, <2>6, Steps
<1> QED
  BY <1>1, <1>2, Typing, PTL DEF Spec

\* A node with one thread never connects to a peer that has said its address,
\* however the check and the connection are interleaved with what other nodes do
\* (KnownNotDialled): what could announce the address waits for the handler.
THEOREM KnownNotDialledHolds == Spec => KnownNotDialled
<1>1. TypeOK /\ Unseen =>
        [\A l \in Links :
           dial(l) /\ Reaches(Head(link[l].list)) /\ link[l].from \notin Multi =>
             ~Known(link[l].from, Head(link[l].list))]_vars
  BY Indices DEF Unseen, dial, Reaches, Link
<1> QED
  BY <1>1, Typing, Announcements, PTL DEF KnownNotDialled

-----------------------------------------------------------------------------
(* What a step does to the lists and the registries, in full.              *)

Still(l) ==
  /\ link'[l].stage = link[l].stage
  /\ link'[l].list = link[l].list /\ link'[l].cursor = link[l].cursor

\* The request is sent and read, its sender's address noted, and the lock taken.
Asks(l) ==
  /\ link'[l].list = link[l].list /\ link'[l].cursor = link[l].cursor
  /\ \/ /\ link[l].stage = "queued" /\ link'[l].stage = "sent"
        /\ status[link[l].from] = "running"
     \/ /\ link[l].stage = "sent" /\ link'[l].stage = "named"
        /\ Free(link[l].to) /\ Registered(link[l].to, <<l, "in">>)
     \/ /\ link[l].stage = "named"
        /\ link'[l].stage = IF link[l].asks THEN "asked" ELSE "answered"
     \/ link[l].stage = "asked" /\ link'[l].stage = "addressed"

\* The session the discovery handler is at, and its turn: taken, passed over,
\* added to the list; or the list is complete.
Here(l) == sessions[link[l].to][link[l].cursor]

Takes(l) ==
  /\ link[l].stage = "addressed" /\ link'[l].stage = "reading"
  /\ link[l].cursor <= Len(sessions[link[l].to]) /\ Listed(l, Here(l))
  /\ link'[l].list = link[l].list /\ link'[l].cursor = link[l].cursor

Skips(l) ==
  /\ link[l].stage = "addressed" /\ link'[l].stage = "addressed"
  /\ link[l].cursor <= Len(sessions[link[l].to]) /\ ~Listed(l, Here(l))
  /\ link'[l].list = link[l].list /\ link'[l].cursor = link[l].cursor + 1

Adds(l) ==
  /\ link[l].stage = "reading" /\ link'[l].stage = "addressed"
  /\ link'[l].cursor = link[l].cursor + 1
  /\ \E address \in Readings(Here(l)) : link'[l].list = Append(link[l].list, address)

Completes(l) ==
  /\ link[l].stage = "addressed" /\ link'[l].stage = "answered"
  /\ link[l].cursor > Len(sessions[link[l].to])
  /\ link'[l].list = link[l].list /\ link'[l].cursor = link[l].cursor

\* The one that asked reads the list and works it off.
Hears(l) ==
  /\ link[l].stage = "answered" /\ link'[l].stage = Dialling(Heard(link[l].list))
  /\ link'[l].list = Heard(link[l].list) /\ link'[l].cursor = link[l].cursor

Decides(l) ==
  /\ link[l].stage = "dialling" /\ link'[l].stage = "connecting"
  /\ link'[l].list = link[l].list /\ link'[l].cursor = link[l].cursor

WorksOff(l) ==
  LET address == Head(link[l].list)
  IN  /\ link[l].stage \in Caller /\ link'[l].stage = Dialling(Tail(link[l].list))
      /\ link'[l].list = Tail(link[l].list) /\ link'[l].cursor = link[l].cursor
      /\ \/ Known(link[l].from, address)
         \/ Reaches(address) =>
              \E k \in Links' : link'[k].from = link[l].from /\ link'[k].to = address[2]

Moves(l) == \/ Asks(l)
            \/ Takes(l) \/ Skips(l) \/ Adds(l) \/ Completes(l)
            \/ Hears(l) \/ Decides(l) \/ WorksOff(l)

LEMMA Moved ==
  ASSUME TypeOK, Exchanges, NEW l \in Links,
         \/ write(l) \/ set_node_id(l) \/ set_address(l) \/ lock(l) \/ filter(l)
         \/ emplace(l) \/ respond(l) \/ receive(l) \/ check(l)
  PROVE  /\ Moves(l)
         /\ UNCHANGED <<status, called, sessions>> /\ Links' = Links
         /\ \A k \in Links \ {l} : link'[k] = link[k]
         /\ Kept(link'[l], link[l]) /\ link'[l].accepted = link[l].accepted
<1>0. link \in Seq(Link) /\ link[l] \in Link /\ link[l].cursor \in Nat
  BY Indices DEF TypeOK, Link
<1>1. PICK r : Turn(l, r)
  <2>1. \E r : Turn(l, r)
    BY Writes, Addresses, Filters, Emplaces, Receives, Checks
  <2> QED
    BY <2>1
<1>2. /\ UNCHANGED <<status, called, sessions>> /\ Links' = Links
      /\ \A k \in Links \ {l} : link'[k] = link[k]
      /\ Kept(link'[l], link[l])
  BY <1>0, <1>1, Replaced DEF Turn, Goes, Links
<1>3. CASE write(l)
  <2>1. link' = [link EXCEPT ![l].stage = "sent"] /\ link[l].stage = "queued"
        /\ status[link[l].from] = "running"
    BY <1>3 DEF write, Free
  <2>2. link'[l] = [link[l] EXCEPT !.stage = "sent"]
    BY <2>1, <1>0 DEF Links
  <2>3. Asks(l) /\ link'[l].accepted = link[l].accepted
    BY <1>0, <2>1, <2>2 DEF Asks, Link
  <2> QED
    BY <1>2, <2>3 DEF Moves
<1>4. CASE set_node_id(l)
  <2>1. link' = [link EXCEPT ![l].stage = "named"] /\ link[l].stage = "sent"
        /\ Free(link[l].to) /\ Registered(link[l].to, <<l, "in">>)
    BY <1>4 DEF set_node_id
  <2>2. link'[l] = [link[l] EXCEPT !.stage = "named"]
    BY <2>1, <1>0 DEF Links
  <2>3. Asks(l) /\ link'[l].accepted = link[l].accepted
    BY <1>0, <2>1, <2>2 DEF Asks, Link
  <2> QED
    BY <1>2, <2>3 DEF Moves
<1>5. CASE set_address(l)
  <2>1. link' = [link EXCEPT ![l].stage = IF link[l].asks THEN "asked" ELSE "answered",
                             ![l].owed = Wanted(l)]
        /\ link[l].stage = "named"
    BY <1>5 DEF set_address
  <2>0. PICK stage, owed : /\ stage = IF link[l].asks THEN "asked" ELSE "answered"
                           /\ owed = Wanted(l)
    OBVIOUS
  <2>2. link'[l] = [link[l] EXCEPT !.stage = stage, !.owed = owed]
    BY <2>0, <2>1, <1>0 DEF Links
  <2>3. /\ link'[l].stage = stage /\ link'[l].accepted = link[l].accepted
        /\ link'[l].list = link[l].list /\ link'[l].cursor = link[l].cursor
    BY <1>0, <2>2 DEF Link
  <2>4. Asks(l)
    BY <2>0, <2>1, <2>3 DEF Asks
  <2> QED
    BY <1>2, <2>3, <2>4 DEF Moves
<1>6. CASE filter(l)
  <2>1. link[l].stage = "addressed" /\ link[l].cursor <= Len(sessions[link[l].to])
    BY <1>6 DEF filter
  <2>2. CASE Listed(l, Here(l))
    <3>1. link' = [link EXCEPT ![l].stage = "reading"]
      BY <1>6, <2>2 DEF filter, Here
    <3>2. link'[l] = [link[l] EXCEPT !.stage = "reading"]
      BY <3>1, <1>0 DEF Links
    <3>3. Takes(l) /\ link'[l].accepted = link[l].accepted
      BY <1>0, <2>1, <2>2, <3>2 DEF Takes, Link
    <3> QED
      BY <1>2, <3>3 DEF Moves
  <2>3. CASE ~Listed(l, Here(l))
    <3>1. link' = [link EXCEPT ![l].cursor = @ + 1]
      BY <1>6, <2>3 DEF filter, Here
    <3>2. link'[l] = [link[l] EXCEPT !.cursor = @ + 1]
      BY <3>1, <1>0 DEF Links
    <3>3. Skips(l) /\ link'[l].accepted = link[l].accepted
      BY <1>0, <2>1, <2>3, <3>2 DEF Skips, Link
    <3> QED
      BY <1>2, <3>3 DEF Moves
  <2> QED
    BY <2>2, <2>3
<1>7. CASE emplace(l)
  <2>1. link[l].stage = "reading"
    BY <1>7 DEF emplace
  <2>2. PICK address \in Readings(Here(l)) :
          link' = [link EXCEPT ![l].stage = "addressed", ![l].cursor = @ + 1,
                               ![l].list = Append(@, address)]
    BY <1>7 DEF emplace, Here
  <2>3. link'[l] = [link[l] EXCEPT !.stage = "addressed", !.cursor = @ + 1,
                                   !.list = Append(@, address)]
    BY <2>2, <1>0 DEF Links
  <2>4. PICK list, cursor : list = Append(link[l].list, address) /\ cursor = link[l].cursor + 1
    OBVIOUS
  <2>5. link'[l] = [link[l] EXCEPT !.stage = "addressed", !.cursor = cursor, !.list = list]
    BY <2>3, <2>4
  <2>6. /\ link'[l].stage = "addressed" /\ link'[l].accepted = link[l].accepted
        /\ link'[l].list = list /\ link'[l].cursor = cursor
    BY <1>0, <2>5 DEF Link
  <2>7. Adds(l)
    BY <2>1, <2>2, <2>4, <2>6 DEF Adds
  <2> QED
    BY <1>2, <2>6, <2>7 DEF Moves
<1>8. CASE respond(l)
  <2>1. link' = [link EXCEPT ![l].stage = "answered"] /\ link[l].stage = "addressed"
        /\ link[l].cursor > Len(sessions[link[l].to])
    BY <1>8 DEF respond
  <2>2. link'[l] = [link[l] EXCEPT !.stage = "answered"]
    BY <2>1, <1>0 DEF Links
  <2>3. Completes(l) /\ link'[l].accepted = link[l].accepted
    BY <1>0, <2>1, <2>2 DEF Completes, Link
  <2> QED
    BY <1>2, <2>3 DEF Moves
<1>9. CASE receive(l)
  <2>1. link' = [link EXCEPT ![l].stage = Dialling(Heard(link[l].list)),
                             ![l].list = Heard(@)]
        /\ link[l].stage = "answered"
    BY <1>9 DEF receive
  <2>2. PICK list, stage : list = Heard(link[l].list) /\ stage = Dialling(list)
    OBVIOUS
  <2>3. link'[l] = [link[l] EXCEPT !.stage = stage, !.list = list]
    BY <2>1, <2>2, <1>0 DEF Links
  <2>4. /\ link'[l].stage = stage /\ link'[l].accepted = link[l].accepted
        /\ link'[l].list = list /\ link'[l].cursor = link[l].cursor
    BY <1>0, <2>3 DEF Link
  <2>5. Hears(l)
    BY <2>1, <2>2, <2>4 DEF Hears
  <2> QED
    BY <1>2, <2>4, <2>5 DEF Moves
<1>10. CASE check(l)
  <2>1. link[l].stage = "dialling"
    BY <1>10 DEF check
  <2>2. CASE Known(link[l].from, Head(link[l].list))
    <3>1. link' = [link EXCEPT ![l].stage = Dialling(Tail(link[l].list)),
                               ![l].list = Tail(@)]
      BY <1>10, <2>2 DEF check
    <3>2. link'[l] = [link[l] EXCEPT !.stage = Dialling(Tail(link[l].list)),
                                     !.list = Tail(@)]
      BY <3>1, <1>0 DEF Links
    <3>3. WorksOff(l) /\ link'[l].accepted = link[l].accepted
      BY <1>0, <2>1, <2>2, <3>2 DEF WorksOff, Caller, Link
    <3> QED
      BY <1>2, <3>3 DEF Moves
  <2>3. CASE ~Known(link[l].from, Head(link[l].list))
    <3>1. link' = [link EXCEPT ![l].stage = "connecting"]
      BY <1>10, <2>3 DEF check
    <3>2. link'[l] = [link[l] EXCEPT !.stage = "connecting"]
      BY <3>1, <1>0 DEF Links
    <3>3. Decides(l) /\ link'[l].accepted = link[l].accepted
      BY <1>0, <2>1, <2>3, <3>2 DEF Decides, Link
    <3> QED
      BY <1>2, <3>3 DEF Moves
  <2> QED
    BY <2>2, <2>3
<1>11. CASE lock(l)
  <2>1. link' = [link EXCEPT ![l].stage = "addressed"] /\ link[l].stage = "asked"
    BY <1>11 DEF lock
  <2>2. link'[l] = [link[l] EXCEPT !.stage = "addressed"]
    BY <2>1, <1>0 DEF Links
  <2>3. Asks(l) /\ link'[l].accepted = link[l].accepted
    BY <1>0, <2>1, <2>2 DEF Asks, Link
  <2> QED
    BY <1>2, <2>3 DEF Moves
<1> QED
  BY <1>3, <1>4, <1>5, <1>6, <1>7, <1>8, <1>9, <1>10, <1>11

\* A link that this step opens: for a call, as a connection back, or to an
\* address that was listed.
Begun(k) ==
  LET new == link'[k]
      old == link[new.parent]
  IN  /\ new.stage = "queued" /\ new.list = <<>> /\ new.cursor = 1
      /\ \/ /\ new.cause = "call"
            /\ \E c \in Call \ called : /\ new.from = From[c] /\ new.to = To[c]
                                        /\ called' = called \union {c}
         \/ /\ new.cause = "back" /\ new.parent \in Links /\ old.owed > 0
            /\ new.from = old.to /\ new.to = old.from
         \/ /\ new.cause = "found" /\ new.parent \in Links /\ old.stage = "connecting"
            /\ new.from = old.from /\ new.to = Head(old.list)[2]

\* At most one exchange moves on, at most one link is opened.
Follows ==
  /\ Links \subseteq Links' /\ called \subseteq called'
  /\ \A k \in Links : Kept(link'[k], link[k])
  /\ \E l : \A k \in Links : Still(k) \/ (k = l /\ Moves(k))
  /\ \A k \in Links' \ Links : Begun(k)
  /\ \A j, k \in Links' \ Links : j = k

\* A session enters the registry of n, that of a link n opens or one it accepts,
\* or leaves it, when the link is broken.
Enters(n) ==
  \E s : /\ sessions'[n] = Append(sessions[n], s)
         /\ \/ s[2] = "out"
            \/ /\ s[2] = "in" /\ s[1] \in Links /\ link[s[1]].to = n
               /\ ~link[s[1]].accepted /\ link'[s[1]].accepted

Leaves(n) ==
  \E p \in DOMAIN sessions[n] :
    /\ sessions'[n] = RemoveAt(sessions[n], p)
    /\ ~Locked(n) /\ status[n] = "running" /\ Broken(sessions[n][p][1])

Registers ==
  /\ \A n \in Node : sessions'[n] = sessions[n] \/ Enters(n) \/ Leaves(n)
  /\ \A k \in Links : link[k].accepted => link'[k].accepted

\* Nobody starts twice or comes back.
Ages == \A n \in Node : /\ status[n] = "exited" => status'[n] = "exited"
                        /\ status'[n] = "made" => status[n] = "made"

\* n has tried to connect to an address; ls is the links but for a new one.
Tries(n, address, cause, parent, ls) ==
  /\ Links \subseteq Links'
  /\ \A k \in Links : link'[k] = ls[k] /\ Kept(link'[k], link[k])
  /\ \A j, k \in Links' \ Links : j = k
  /\ \A k \in Links' \ Links :
       /\ link'[k].stage = "queued" /\ link'[k].list = <<>> /\ link'[k].cursor = 1
       /\ link'[k].cause = cause /\ link'[k].parent = parent
       /\ link'[k].from = n /\ link'[k].to = address[2]
  /\ Registers
  /\ Reaches(address) => \E k \in Links' : link'[k].from = n /\ link'[k].to = address[2]

LEMMA Tried ==
  ASSUME TypeOK, NEW n \in Node, NEW address, NEW cause \in Cause, NEW parent \in Nat,
         NEW asks \in BOOLEAN, NEW count \in Nat, NEW ls \in Seq(Link),
         Len(ls) = Len(link), connect(n, address, cause, parent, asks, count, ls),
         \A k \in Links : Kept(ls[k], link[k]) /\ ls[k].accepted = link[k].accepted
  PROVE  Tries(n, address, cause, parent, ls)
<1> DEFINE r == Fresh(n, address[2], cause, parent, asks, count)
<1>1. Grows(ls) /\ ((Links' = Links /\ sessions' = sessions) \/ Opens(n, r))
  BY Connected
<1>2. /\ Links \subseteq Links'
      /\ \A k \in Links : link'[k] = ls[k] /\ Kept(link'[k], link[k])
  BY <1>1 DEF Grows
<1>3. CASE Reaches(address)
  <2>1. link' = Append(ls, r) /\ sessions' = [sessions EXCEPT ![n] = Append(@, <<Len(link) + 1, "out">>)]
    BY <1>3 DEF connect, Fresh
  <2>2. DOMAIN link' = DOMAIN link \union {Len(link) + 1} /\ link'[Len(link) + 1] = r
    BY <2>1, Indices DEF Links
  <2> HIDE DEF r
  <2>3. \A k \in Links' \ Links : k = Len(link) + 1 /\ link'[k] = r
    BY <2>2 DEF Links
  <2>4. r.from = n /\ r.to = address[2]
    BY DEF r, Fresh
  <2>5. \A m \in Node : sessions'[m] = sessions[m] \/ Enters(m)
    <3>1. sessions'[n] = Append(sessions[n], <<Len(link) + 1, "out">>)
          /\ \A m \in Node \ {n} : sessions'[m] = sessions[m]
      BY <2>1 DEF TypeOK
    <3>2. Enters(n)
      BY <3>1 DEF Enters
    <3> QED
      BY <3>1, <3>2
  <2>6. Registers
    BY <1>2, <2>5 DEF Registers
  <2> QED
    BY <1>2, <2>2, <2>3, <2>4, <2>6 DEF r, Links, Fresh, Tries
<1>4. CASE ~Reaches(address)
  <2>1. link' = ls /\ sessions' = sessions
    BY <1>4 DEF connect
  <2>2. Links' = Links
    BY <2>1, Indices DEF Links
  <2>3. Registers
    BY <1>2, <2>1 DEF Registers
  <2> QED
    BY <1>2, <1>4, <2>2, <2>3 DEF Tries
<1> QED
  BY <1>3, <1>4

LEMMA Followed ==
  ASSUME TypeOK, Exchanges, [Next]_vars
  PROVE  Follows /\ Registers /\ Ages
<1>1. CASE UNCHANGED <<called, link, sessions>>
  <2>1. Follows /\ Registers
    BY <1>1 DEF Follows, Registers, Still, Kept, Links
  <2>2. Ages
    BY <1>1 DEF Next, vars, run, stop, exit, Ages, TypeOK, node_connect, handle, write, do_accept, set_node_id,
       set_address, connect_back, lock, filter, emplace, respond, receive, check, dial, on_error
  <2> QED
    BY <2>1, <2>2
<1>2. ASSUME NEW l \in Links,
             \/ write(l) \/ set_node_id(l) \/ set_address(l) \/ lock(l) \/ filter(l)
             \/ emplace(l) \/ respond(l) \/ receive(l) \/ check(l)
      PROVE  Follows /\ Registers /\ Ages
  <2>1. /\ Moves(l)
        /\ UNCHANGED <<status, called, sessions>> /\ Links' = Links
        /\ \A k \in Links \ {l} : link'[k] = link[k]
        /\ Kept(link'[l], link[l]) /\ link'[l].accepted = link[l].accepted
    BY <1>2, Moved
  <2> HIDE DEF Moves
  <2>2. \A k \in Links : Still(k) \/ (k = l /\ Moves(k))
    BY <2>1 DEF Still
  <2>3. \A k \in Links : Kept(link'[k], link[k])
    BY <2>1 DEF Kept
  <2>4. Follows
    BY <2>1, <2>2, <2>3 DEF Follows
  <2>5. Registers /\ Ages
    BY <2>1 DEF Registers, Ages
  <2> QED
    BY <2>4, <2>5
<1>3. ASSUME NEW l \in Links, do_accept(l)
      PROVE  Follows /\ Registers /\ Ages
  <2>1. PICK r \in Link :
          /\ r = [link[l] EXCEPT !.accepted = TRUE]
          /\ link' = [link EXCEPT ![l] = r]
          /\ Kept(r, link[l])
    BY <1>3, Accepts
  <2>2. /\ sessions' = [sessions EXCEPT ![link[l].to] = Append(@, <<l, "in">>)]
        /\ UNCHANGED <<status, called>> /\ ~link[l].accepted
    BY <1>3, Accepts DEF do_accept
  <2>3. /\ Links' = Links /\ link'[l] = r
        /\ \A k \in Links \ {l} : link'[k] = link[k]
    BY <2>1, Replaced DEF TypeOK, Links
  <2>4. /\ link'[l].accepted /\ link'[l].stage = link[l].stage
        /\ link'[l].list = link[l].list /\ link'[l].cursor = link[l].cursor
    <3>1. link[l] \in Link
      BY Indices
    <3> QED
      BY <2>1, <2>3, <3>1 DEF Link
  <2>5. \A k \in Links : Still(k) /\ Kept(link'[k], link[k])
    BY <2>1, <2>3, <2>4 DEF Still, Kept
  <2>6. Follows
    BY <2>2, <2>3, <2>5 DEF Follows
  <2>7. \A n \in Node : sessions'[n] = sessions[n] \/ Enters(n)
    <3>1. sessions'[link[l].to] = Append(sessions[link[l].to], <<l, "in">>)
          /\ \A m \in Node \ {link[l].to} : sessions'[m] = sessions[m]
      BY <2>2, Indices DEF TypeOK, Link
    <3>2. Enters(link[l].to)
      <4>1. PICK s : s = <<l, "in">>
        OBVIOUS
      <4>2. s[1] = l /\ s[2] = "in"
        BY <4>1
      <4>3. sessions'[link[l].to] = Append(sessions[link[l].to], s)
        BY <3>1, <4>1
      <4> QED
        BY <2>2, <2>4, <4>2, <4>3 DEF Enters
    <3> QED
      BY <3>1, <3>2
  <2>8. Registers
    BY <2>3, <2>4, <2>7 DEF Registers
  <2> QED
    BY <2>2, <2>6, <2>8 DEF Ages
<1>4. ASSUME NEW l \in Links, connect_back(l) \/ dial(l)
      PROVE  Follows /\ Registers /\ Ages
  <2>0. PICK r \in Link, n \in Node : \E address, cause : Opening(l, r, n, address, cause)
    BY <1>4, Openings
  <2>1. PICK address, cause : Opening(l, r, n, address, cause)
    BY <2>0
  <2>2. PICK ls \in Seq(Link) : ls = [link EXCEPT ![l] = r]
    BY <2>1 DEF Opening
  <2>3. /\ Len(ls) = Len(link) /\ connect(n, address, cause, l, FALSE, 0, ls)
        /\ ls[l] = r /\ \A k \in Links \ {l} : ls[k] = link[k]
        /\ Kept(r, link[l]) /\ UNCHANGED <<status, called>> /\ cause \in Cause
    BY <2>1, <2>2 DEF Opening, Cause
  <2>4. \/ /\ cause = "back" /\ n = link[l].to /\ link[l].owed > 0
           /\ address = <<"local", link[l].from>>
           /\ r.stage = link[l].stage /\ r.list = link[l].list
           /\ r.cursor = link[l].cursor /\ r.accepted = link[l].accepted
        \/ /\ cause = "found" /\ n = link[l].from
           /\ address = Head(link[l].list)
           /\ PassedOn(l, r) /\ link[l].stage = "connecting"
    BY <2>1 DEF Opening
  <2>5. \A k \in Links : Kept(ls[k], link[k]) /\ ls[k].accepted = link[k].accepted
    BY <2>3, <2>4 DEF PassedOn, Kept
  <2>6. l \in Nat
    BY Indices
  <2>7. Tries(n, address, cause, l, ls)
    BY <2>3, <2>5, <2>6, Tried
  <2>8. \A k \in Links \ {l} : Still(k)
    BY <2>3, <2>7 DEF Still, Tries
  <2>9. Still(l) \/ Moves(l)
    <3>1. CASE cause = "back"
      BY <3>1, <2>3, <2>4, <2>7 DEF Still, Tries
    <3>2. CASE cause = "found"
      <4>1. WorksOff(l)
        BY <3>2, <2>3, <2>4, <2>7 DEF WorksOff, PassedOn, Caller, Tries
      <4> QED
        BY <4>1 DEF Moves
    <3> QED
      BY <2>4, <3>1, <3>2
  <2> HIDE DEF Moves
  <2>10. ASSUME NEW k \in Links' \ Links PROVE Begun(k)
    BY <2>4, <2>7 DEF Begun, Tries
  <2>11. \A k \in Links : Still(k) \/ (k = l /\ Moves(k))
    BY <2>8, <2>9
  <2>12. Follows
    BY <2>3, <2>7, <2>10, <2>11 DEF Follows, Tries
  <2> QED
    BY <2>3, <2>7, <2>12 DEF Ages, Tries
<1>5. ASSUME NEW c \in Call, node_connect(c)
      PROVE  Follows /\ Registers /\ Ages
  <2>1. /\ From[c] \in Node /\ Count[c] \in Nat /\ link \in Seq(Link)
        /\ connect(From[c], <<"local", To[c]>>, "call", 0, TRUE, Count[c], link)
        /\ status' = status /\ called' = called \union {c} /\ c \notin called
    BY <1>5, CallTypes DEF node_connect
  <2>2. \A k \in Links : Kept(link[k], link[k]) /\ link[k].accepted = link[k].accepted
    BY DEF Kept
  <2>3. Tries(From[c], <<"local", To[c]>>, "call", 0, link)
    BY <2>1, <2>2, Tried DEF Cause
  <2>4. \A k \in Links : Still(k)
    BY <2>3 DEF Still, Tries
  <2>5. \A k \in Links' \ Links : Begun(k)
    BY <2>1, <2>3 DEF Begun, Tries
  <2>6. Follows
    BY <2>1, <2>3, <2>4, <2>5 DEF Follows, Tries
  <2> QED
    BY <2>1, <2>3, <2>6 DEF Ages, Tries
<1>6. ASSUME NEW n \in Node, NEW l \in Links, NEW side \in Side, on_error(n, l, side)
      PROVE  Follows /\ Registers /\ Ages
  <2>1. UNCHANGED <<status, called, link>>
    BY <1>6 DEF on_error
  <2>2. Follows /\ Ages
    BY <2>1 DEF Follows, Still, Kept, Links, Ages
  <2>3. /\ sessions' = [sessions EXCEPT ![n] = Without(@, <<l, side>>)]
        /\ <<l, side>> \in ToSet(sessions[n]) /\ Broken(l) /\ ~Locked(n)
        /\ status[n] = "running"
    BY <1>6 DEF on_error, Registered, Free
  <2>4. PICK p \in DOMAIN sessions[n] :
          Without(sessions[n], <<l, side>>) = RemoveAt(sessions[n], p)
          /\ sessions[n][p] = <<l, side>>
    <3> DEFINE p == CHOOSE i \in DOMAIN sessions[n] : sessions[n][i] = <<l, side>>
    <3>1. p \in DOMAIN sessions[n] /\ sessions[n][p] = <<l, side>>
      BY <2>3 DEF ToSet
    <3> QED
      BY <3>1 DEF Without
  <2>5. Leaves(n) /\ \A m \in Node \ {n} : sessions'[m] = sessions[m]
    BY <2>3, <2>4 DEF Leaves, TypeOK
  <2>6. Registers
    BY <2>1, <2>5 DEF Registers
  <2> QED
    BY <2>2, <2>6
<1>7. CASE \E n \in Node : run(n) \/ stop(n) \/ exit(n)
  BY <1>1, <1>7 DEF run, stop, exit
<1>8. CASE UNCHANGED vars
  BY <1>1, <1>8 DEF vars
<1> QED
  BY <1>2, <1>3, <1>4, <1>5, <1>6, <1>7, <1>8 DEF Next, handle

-----------------------------------------------------------------------------
(* Who connects to itself.                                                 *)

\* What a list is misread as: the same, or what comes before the first host and
\* one address with a wrong one.
LEMMA HeardCases ==
  ASSUME NEW list \in Seq(Address)
  PROVE  \/ /\ Heard(list) = list
            /\ \A i, j \in DOMAIN list : list[i][1] # "" /\ i < j => list[j][1] = ""
         \/ \E first \in 1..(Len(list) - 1) :
              /\ list[first][1] # "" /\ \A i \in 1..(first - 1) : list[i][1] = ""
              /\ Heard(list) = Append(SubSeq(list, 1, first - 1),
                   <<IF list[first + 1][2] = NoPort THEN "nul" ELSE "junk", list[first][2]>>)
<1> DEFINE hosted == {i \in DOMAIN list : list[i][1] # ""}
           first  == CHOOSE i \in hosted : \A j \in hosted : i <= j
<1>0. DOMAIN list = 1..Len(list) /\ Len(list) \in Nat
  OBVIOUS
<1>1. Heard(list) = IF hosted = {} \/ first = Len(list) THEN list
        ELSE Append(SubSeq(list, 1, first - 1),
                    <<IF list[first + 1][2] = NoPort THEN "nul" ELSE "junk",
                      list[first][2]>>)
  BY DEF Heard
<1>2. \A i \in DOMAIN list : list[i][1] # "" <=> i \in hosted
  OBVIOUS
<1>3. hosted \in SUBSET Nat /\ hosted \subseteq DOMAIN list
  <2>1. hosted \subseteq DOMAIN list
    OBVIOUS
  <2>2. DOMAIN list \subseteq Nat
    BY <1>0
  <2> HIDE DEF hosted
  <2> QED
    BY <2>1, <2>2
<1>4. hosted # {} => first \in hosted /\ \A j \in hosted : first <= j
  <2>1. hosted # {} => \E i \in hosted : \A j \in hosted : i <= j
    BY <1>3, Smallest
  <2> QED
    BY <2>1
<1> HIDE DEF hosted, first
<1>5. CASE hosted = {}
  BY <1>1, <1>2, <1>5
<1>6. CASE hosted # {} /\ first = Len(list)
  <2>1. \A i \in DOMAIN list : list[i][1] # "" => i >= Len(list)
    BY <1>0, <1>2, <1>3, <1>4, <1>6
  <2>2. ASSUME NEW i \in DOMAIN list, NEW j \in DOMAIN list, list[i][1] # "", i < j
        PROVE  list[j][1] = ""
    <3>1. i >= Len(list)
      BY <2>1, <2>2, Zenon
    <3>2. \A n \in Nat : \A x, y \in 1..n : ~(x < y /\ x >= n)
      OBVIOUS
    <3>3. i < j
      BY <2>2, Zenon
    <3>4. i \in 1..Len(list) /\ j \in 1..Len(list)
      BY <1>0, Zenon
    <3> QED
      BY <1>0, <3>1, <3>2, <3>3, <3>4, Zenon
  <2>3. Heard(list) = list
    BY <1>1, <1>6
  <2> QED
    BY <2>2, <2>3
<1>7. CASE hosted # {} /\ first # Len(list)
  <2>0. first \in 1..Len(list) /\ first \in hosted
    BY <1>0, <1>3, <1>4, <1>7
  <2>1. first \in 1..(Len(list) - 1) /\ list[first][1] # ""
    <3>1. first \in 1..(Len(list) - 1)
      <4>1. \A n \in Nat : \A i \in 1..n : i # n => i \in 1..(n - 1)
        OBVIOUS
      <4>2. Len(list) \in Nat /\ first \in 1..Len(list) /\ first # Len(list)
        BY <1>0, <1>7, <2>0
      <4> QED
        BY <4>1, <4>2
    <3> QED
      BY <1>0, <1>2, <2>0, <3>1
  <2>2. ASSUME NEW i \in 1..(first - 1) PROVE list[i][1] = ""
    <3>1. i \in DOMAIN list /\ ~(first <= i)
      BY <1>0, <2>0
    <3> QED
      BY <1>2, <1>4, <1>7, <3>1
  <2> QED
    BY <1>1, <1>7, <2>1, <2>2
<1> QED
  BY <1>5, <1>6, <1>7

LEMMA HeardPorts ==
  ASSUME NEW list \in Seq(Address), NEW a \in ToSet(Heard(list))
  PROVE  \E b \in ToSet(list) : b[2] = a[2]
<1>1. CASE Heard(list) = list
  BY <1>1
<1>2. CASE \E first \in 1..(Len(list) - 1) :
             Heard(list) = Append(SubSeq(list, 1, first - 1),
               <<IF list[first + 1][2] = NoPort THEN "nul" ELSE "junk", list[first][2]>>)
  <2>1. PICK first \in 1..(Len(list) - 1) :
          Heard(list) = Append(SubSeq(list, 1, first - 1),
            <<IF list[first + 1][2] = NoPort THEN "nul" ELSE "junk", list[first][2]>>)
    BY <1>2
  <2>2. PICK wrong :
          Heard(list) = Append(SubSeq(list, 1, first - 1), <<wrong, list[first][2]>>)
    BY <2>1
  <2>3. DOMAIN list = 1..Len(list) /\ Len(list) \in Nat /\ first \in DOMAIN list
    BY <2>1
  <2>4. PICK front : front = SubSeq(list, 1, first - 1)
    OBVIOUS
  <2>8. /\ front \in Seq(Address) /\ DOMAIN front = 1..(first - 1)
        /\ \A i \in 1..(first - 1) : front[i] = list[i]
    BY <2>3, <2>4
  <2>5. ToSet(Heard(list)) = ToSet(front) \union {<<wrong, list[first][2]>>}
    BY <2>2, <2>4, <2>8, AppendSet
  <2>6. ToSet(front) \subseteq ToSet(list)
    BY <2>3, <2>8 DEF ToSet
  <2>7. list[first] \in ToSet(list)
    BY <2>3 DEF ToSet
  <2> QED
    BY <2>5, <2>6, <2>7
<1> QED
  BY <1>1, <1>2, HeardCases

\* Whose port l has been told was told by a link of its own to the same node; if
\* it is that of the node that asks, by another one, to a node with threads.
Vouched(l, port) ==
  \E j \in Links : /\ link[j].to = link[l].to /\ link[j].from = port
                   /\ port = link[l].from => j # l /\ link[l].to \in Multi

Vouches ==
  \A l \in Links : \A address \in ToSet(link[l].list) :
    address[2] \in Node => Vouched(l, address[2])

\* A session that is listed, though it has since named the node that asks.
Overtaken ==
  \A l \in Links :
    /\ link[l].stage = "reading" /\ Here(l)[2] = "in"
    /\ link[Here(l)[1]].stage \notin {"queued", "sent"}
    /\ link[Here(l)[1]].from = link[l].from
    => Here(l)[1] # l /\ link[l].to \in Multi

Selves ==
  \A l \in Links : \A n \in Node : link[l].from = n /\ link[l].to = n =>
    /\ link[l].cause = "found"
    /\ \E p \in Links : link[l].parent = p /\ link[p].from = n /\ Vouched(p, n)

\* The session a discovery handler is at stays where it is.
LEMMA HereKept ==
  ASSUME TypeOK, Exchanges, Follows, Registers, NEW l \in Links,
         link[l].stage \in {"addressed", "reading"}, NEW i \in DOMAIN sessions[link[l].to]
  PROVE  /\ i \in DOMAIN sessions'[link[l].to]
         /\ sessions'[link[l].to][i] = sessions[link[l].to][i]
<1>1. PICK n \in Node : n = link[l].to
  BY Indices DEF Link
<1>2. Locked(n)
  <2>1. link[l].asks
    BY DEF Exchanges, Sound
  <2> QED
    BY <1>1, <2>1 DEF Locked
<1>3. sessions[n] \in Seq(Links \X Side)
  BY DEF TypeOK
<1>4. CASE sessions'[n] = sessions[n]
  BY <1>1, <1>4
<1>5. CASE Enters(n)
  <2>1. PICK s : sessions'[n] = Append(sessions[n], s)
    BY <1>5 DEF Enters
  <2> QED
    BY <1>1, <1>3, <2>1
<1> QED
  BY <1>2, <1>4, <1>5 DEF Registers, Leaves

\* Here(l) is a session of the node that l asks.
LEMMA HereTyped ==
  ASSUME TypeOK, Exchanges, Owners, NEW l \in Links,
         \/ link[l].stage = "reading"
         \/ link[l].cursor <= Len(sessions[link[l].to])
  PROVE  /\ link[l].cursor \in DOMAIN sessions[link[l].to]
         /\ Here(l) \in Links \X Side
         /\ Here(l)[2] = "in" => link[Here(l)[1]].to = link[l].to
<1>1. /\ link[l] \in Link /\ link[l].to \in Node
      /\ Sound(link[l], Len(sessions[link[l].to]))
  BY Indices DEF Exchanges, Link
<1>2. sessions[link[l].to] \in Seq(Links \X Side)
  BY <1>1 DEF TypeOK
<1>3. link[l].cursor \in DOMAIN sessions[link[l].to]
  BY <1>1, <1>2 DEF Sound, Link
<1>4. Here(l) \in ToSet(sessions[link[l].to])
  BY <1>3 DEF Here, ToSet
<1> QED
  BY <1>1, <1>3, <1>4, SessionTypes DEF Owners

LEMMA VouchesKept ==
  ASSUME TypeOK, Exchanges, Owners, Vouches, Overtaken, Follows
  PROVE  Vouches'
<1>1. ASSUME NEW l \in Links, NEW port, Vouched(l, port)
      PROVE  Vouched(l, port)'
  BY <1>1 DEF Vouched, Follows, Kept
<1> SUFFICES ASSUME NEW l \in Links', NEW address \in ToSet(link'[l].list),
                    address[2] \in Node
             PROVE  Vouched(l, address[2])'
  BY DEF Vouches
<1>2. l \in Links
  <2>1. ToSet(<<>>) = {}
    BY DEF ToSet
  <2> QED
    BY <2>1 DEF Follows, Begun
<1>3. link[l].list \in Seq(Address) /\ Sound(link[l], Len(sessions[link[l].to]))
  BY <1>2, Indices DEF Link, Exchanges
<1>4. CASE \E b \in ToSet(link[l].list) : b[2] = address[2]
  BY <1>1, <1>2, <1>4 DEF Vouches
<1>5. CASE Adds(l)
  <2>1. PICK a \in Readings(Here(l)) : link'[l].list = Append(link[l].list, a)
    BY <1>5 DEF Adds
  <2>2. CASE address # a
    <3>1. address \in ToSet(link[l].list)
      BY <1>3, <2>1, <2>2, AppendSet
    <3> QED
      BY <1>4, <3>1
  <2>3. CASE address = a
    <3>1. link[l].stage = "reading"
      BY <1>5 DEF Adds
    <3>2. /\ Here(l) \in Links \X Side
          /\ Here(l)[2] = "in" => link[Here(l)[1]].to = link[l].to
      BY <1>2, <3>1, HereTyped
    <3>3. address[2] # NoPort
      BY ConstantsAssumption
    <3>4. /\ Here(l)[2] = "in" /\ address[2] = PortOf(Here(l)[1])
          /\ link[Here(l)[1]].stage \notin {"queued", "sent"}
      <4>1. Blank[2] = NoPort
        BY DEF Blank
      <4>2. CASE address = AddressOf(Here(l))
        <5>1. ~(\/ Here(l)[2] = "out"
                \/ link[Here(l)[1]].stage \in {"queued", "sent", "named"})
          BY <3>3, <4>1, <4>2 DEF AddressOf
        <5>2. address = <<"local", PortOf(Here(l)[1])>>
          BY <4>2, <5>1 DEF AddressOf
        <5> QED
          BY <3>2, <5>1, <5>2 DEF Side
      <4>3. CASE /\ Here(l)[2] = "in" /\ link[Here(l)[1]].stage = "named"
                 /\ address = <<"", PortOf(Here(l)[1])>>
        BY <4>3
      <4> QED
        BY <2>1, <2>3, <4>2, <4>3 DEF Readings
    <3>5. address[2] = link[Here(l)[1]].from
      BY <3>3, <3>4 DEF PortOf
    <3>6. Vouched(l, address[2])
      BY <1>2, <3>1, <3>2, <3>4, <3>5 DEF Overtaken, Vouched
    <3> QED
      BY <1>1, <1>2, <3>6
  <2> QED
    BY <2>2, <2>3
<1>6. CASE Hears(l)
  BY <1>3, <1>4, <1>6, HeardPorts DEF Hears
<1>7. CASE WorksOff(l)
  <2>1. link[l].list # <<>>
    BY <1>3, <1>7 DEF WorksOff, Sound, Caller
  <2>2. ToSet(Tail(link[l].list)) \subseteq ToSet(link[l].list)
    BY <1>3, <2>1, TailSet
  <2> QED
    BY <1>4, <1>7, <2>2 DEF WorksOff
<1>8. CASE Still(l) \/ Asks(l) \/ Takes(l) \/ Skips(l) \/ Completes(l) \/ Decides(l)
  BY <1>4, <1>8 DEF Still, Asks, Takes, Skips, Completes, Decides
<1> QED
  BY <1>2, <1>5, <1>6, <1>7, <1>8 DEF Follows, Moves

LEMMA OvertakenKept ==
  ASSUME TypeOK, Exchanges, Owners, Overtaken, Follows, Registers
  PROVE  Overtaken'
<1> SUFFICES ASSUME NEW l \in Links', link'[l].stage = "reading", Here(l)'[2] = "in",
                    link'[Here(l)'[1]].stage \notin {"queued", "sent"},
                    link'[Here(l)'[1]].from = link'[l].from
             PROVE  Here(l)'[1] # l /\ link'[l].to \in Multi
  BY DEF Overtaken
<1>1. l \in Links
  BY DEF Follows, Begun
<1>2. Takes(l) \/ (Still(l) /\ link[l].stage = "reading")
  <2>1. Still(l) \/ Moves(l)
    BY <1>1 DEF Follows
  <2> QED
    BY <2>1 DEF Moves, Still, Asks, Skips, Adds, Completes, Hears, Decides, WorksOff, Dialling
<1>3. /\ link'[l].cursor = link[l].cursor /\ link'[l].to = link[l].to
      /\ link'[l].from = link[l].from
      /\ link[l].stage \in {"addressed", "reading"}
      /\ link[l].stage = "reading" \/ link[l].cursor <= Len(sessions[link[l].to])
  BY <1>1, <1>2 DEF Takes, Still, Follows, Kept
<1>4. /\ link[l].cursor \in DOMAIN sessions[link[l].to]
      /\ Here(l) \in Links \X Side
      /\ Here(l)[2] = "in" => link[Here(l)[1]].to = link[l].to
  BY <1>1, <1>3, HereTyped
<1>5. Here(l)' = Here(l)
  BY <1>1, <1>3, <1>4, HereKept DEF Here
<1>6. PICK j \in Links : j = Here(l)[1] /\ link'[j].from = link[j].from
  BY <1>4 DEF Follows, Kept
<1>7. Here(l)[2] = "in" /\ link[j].from = link[l].from /\ link[j].to = link[l].to
  BY <1>3, <1>4, <1>5, <1>6
<1>8. CASE link[j].stage \in {"queued", "sent"}
  <2>1. Asks(j) /\ link[j].stage = "sent" /\ Free(link[l].to)
    <3>1. Moves(j)
      BY <1>5, <1>6, <1>8 DEF Follows, Still
    <3> QED
      BY <3>1, <1>5, <1>6, <1>7, <1>8
         DEF Moves, Asks, Takes, Skips, Adds, Completes, Hears, Decides, WorksOff, Caller
  <2>2. ~Takes(l) /\ l # j
    <3>1. l # j
      BY <1>3, <2>1
    <3>2. ~Still(j)
      BY <1>5, <1>6, <1>8 DEF Still
    <3>3. Still(l)
      BY <1>1, <3>1, <3>2 DEF Follows
    <3> QED
      BY <3>1, <3>3 DEF Still, Takes
  <2>3. link[l].stage = "reading"
    BY <1>2, <2>2
  <2>4. Busy(link[l].to)
    BY <1>1, <2>3 DEF Busy
  <2> QED
    BY <1>3, <1>5, <1>6, <2>1, <2>2, <2>4 DEF Free
<1>9. CASE link[j].stage \notin {"queued", "sent"}
  <2>1. ~Takes(l)
    <3>1. NodeId(Here(l)) = link[l].from
      BY <1>6, <1>7, <1>9 DEF NodeId
    <3> QED
      BY <3>1 DEF Takes, Listed
  <2> QED
    BY <1>1, <1>2, <1>3, <1>5, <1>6, <1>7, <1>9, <2>1 DEF Overtaken
<1> QED
  BY <1>8, <1>9

LEMMA SelvesKept ==
  ASSUME TypeOK, Exchanges, Callers, Debts, Vouches, Selves, Follows
  PROVE  Selves'
<1>1. ASSUME NEW l \in Links, NEW port, Vouched(l, port)
      PROVE  Vouched(l, port)'
  BY <1>1 DEF Vouched, Follows, Kept
<1> SUFFICES ASSUME NEW l \in Links', NEW n \in Node, link'[l].from = n, link'[l].to = n
             PROVE  /\ link'[l].cause = "found"
                    /\ \E p \in Links' : /\ link'[l].parent = p /\ link'[p].from = n
                                         /\ Vouched(p, n)'
  BY DEF Selves
<1>2. \A p \in Links : p \in Links' /\ link'[p].from = link[p].from
  BY DEF Follows, Kept
<1>3. CASE l \in Links
  <2>1. Kept(link'[l], link[l])
    BY <1>3 DEF Follows
  <2>2. /\ link[l].cause = "found"
        /\ \E p \in Links : link[l].parent = p /\ link[p].from = n /\ Vouched(p, n)
    BY <1>3, <2>1 DEF Selves, Kept
  <2> QED
    BY <1>1, <1>2, <2>1, <2>2 DEF Kept
<1>4. CASE l \notin Links
  <2>1. Begun(l)
    BY <1>4 DEF Follows
  <2>2. link'[l].cause # "call"
    BY <2>1, ConstantsAssumption DEF Begun
  <2>3. PICK p \in Links : p = link'[l].parent
    BY <2>1, <2>2 DEF Begun
  <2>4. ~(link[p].owed > 0 /\ link[p].from = n /\ link[p].to = n)
    <3> SUFFICES ASSUME link[p].owed > 0, link[p].from = n, link[p].to = n PROVE FALSE
      OBVIOUS
    <3>1. link[p].cause = "found"
      BY DEF Selves
    <3>2. link[p].count = 0
      BY <3>1 DEF Callers
    <3>3. Cardinality(BacksOf(p)) \in Nat /\ link[p].owed \in Nat
      BY FiniteBacks, Indices DEF Link
    <3> QED
      BY <3>2, <3>3 DEF Debts
  <2>5. /\ link'[l].cause = "found" /\ link[p].stage = "connecting"
        /\ link[p].from = n /\ Head(link[p].list)[2] = n
    BY <2>1, <2>2, <2>3, <2>4 DEF Begun
  <2>6. Head(link[p].list) \in ToSet(link[p].list)
    <3>1. link[p].list \in Seq(Address) /\ link[p].list # <<>>
      BY <2>5, Indices DEF Link, Exchanges, Sound
    <3> QED
      BY <3>1, TailSet
  <2>7. Vouched(p, n)
    BY <2>5, <2>6 DEF Vouches
  <2> QED
    BY <1>1, <1>2, <2>3, <2>5, <2>7
<1> QED
  BY <1>3, <1>4

LEMMA Strangers == Spec => [](Vouches /\ Overtaken /\ Selves)
<1>1. Init => Vouches /\ Overtaken /\ Selves
  BY DEF Init, Vouches, Overtaken, Selves, Links
<1>2. /\ TypeOK /\ Exchanges /\ Callers /\ Debts /\ Owners
      /\ Vouches /\ Overtaken /\ Selves /\ [Next]_vars
      => Vouches' /\ Overtaken' /\ Selves'
  BY Followed, VouchesKept, OvertakenKept, SelvesKept
<1> QED
  BY <1>1, <1>2, Typing, Cascades, Announcements, PTL DEF Spec

\* However many nodes list each other, however slowly they fill in what they list:
\* a node is told to connect to itself only by a node with several threads, to
\* which it has opened two links (NoSelfLink).
THEOREM NoSelfLinkHolds == Spec => []NoSelfLink
<1>1. TypeOK /\ Selves => NoSelfLink
  <2> SUFFICES ASSUME TypeOK, Selves, NEW l \in Links, link[l].from = link[l].to
               PROVE  /\ link[l].cause = "found"
                      /\ link[link[l].parent].to \in Multi
                      /\ \E j, k \in Links :
                           /\ j # k /\ {link[j].from, link[k].from} = {link[l].from}
                           /\ {link[j].to, link[k].to} = {link[link[l].parent].to}
    BY DEF NoSelfLink
  <2>1. link[l].from \in Node
    BY Indices DEF Link
  <2>2. PICK p \in Links :
          link[l].parent = p /\ link[p].from = link[l].from /\ Vouched(p, link[l].from)
    BY <2>1 DEF Selves
  <2> QED
    BY <2>1, <2>2 DEF Selves, Vouched
<1> QED
  BY <1>1, Typing, Strangers, PTL

-----------------------------------------------------------------------------
(* Who is linked in the end.                                               *)

\* No node that connects is connected to; at most two connect to one node.
Leaf  == \A b, c \in Call : From[b] # To[c]
Pairs == \A b, c, d \in Call : To[b] = To[c] /\ To[c] = To[d] => b = c \/ c = d \/ b = d

Called(n) == \E c \in Call : To[c] = n

\* Nobody but its callers links to a node that is called, each once for a call.
Stars ==
  /\ \A l \in Links : Called(link[l].to) => link[l].cause = "call"
  /\ \A l \in Links : link[l].cause = "call" =>
       \E c \in called : link[l].from = From[c] /\ link[l].to = To[c]
  /\ \A k, l \in Links :
       k # l /\ link[k].cause = "call" /\ link[l].cause = "call" /\ link[k].to = link[l].to
       => \E b, c \in called : b # c /\ To[b] = link[k].to /\ To[c] = link[k].to
  /\ \A j, k, l \in Links :
       /\ link[j].cause = "call" /\ link[k].cause = "call" /\ link[l].cause = "call"
       /\ link[j].to = link[k].to /\ link[k].to = link[l].to
       => j = k \/ k = l \/ j = l

\* Only a node that has run has sent anything.
Sent == \A l \in Links : link[l].stage # "queued" => status[link[l].from] # "made"

\* The session of an accepted connection is registered once, ...
Once ==
  \A n \in Node : \A i, j \in DOMAIN sessions[n] :
    sessions[n][i][2] = "in" =>
      /\ link[sessions[n][i][1]].accepted
      /\ sessions[n][i] = sessions[n][j] => i = j

\* ... and stays registered while the one that opened it is there.
Present ==
  \A l \in Links :
    link[l].stage \notin {"queued", "sent"} /\ status[link[l].from] # "exited"
    => <<l, "in">> \in ToSet(sessions[link[l].to])

\* Nothing is listed before the lock is taken, or left when all is worked off.
Empty ==
  \A l \in Links : /\ link[l].stage \in Unread \union {"asked"} =>
                         link[l].cursor = 1 /\ link[l].list = <<>>
                   /\ link[l].stage = "done" => link[l].list = <<>>

\* A list that is made says at most one address: that of the other caller.
Lone ==
  \A k \in Links : link[k].asks /\ link[k].stage \in {"addressed", "reading", "answered"} =>
    \A i \in DOMAIN link[k].list : link[k].list[i] # Blank =>
      /\ \A j \in DOMAIN link[k].list : link[k].list[j] # Blank => i = j
      /\ link[k].stage # "answered" =>
           \E p \in DOMAIN sessions[link[k].to] :
             /\ p < link[k].cursor
             /\ sessions[link[k].to][p][2] = "in" /\ sessions[link[k].to][p][1] # k

\* Two links of different callers, whose sessions get a port, to the same node.
Peers(k, l) ==
  /\ link[k].asks /\ link[l].asks /\ link[k].named /\ link[l].named
  /\ link[k].to = link[l].to /\ link[k].from # link[l].from

\* The handler of k's request has yet to take the lock, or has the session of l
\* before it; it has listed it, or the callers are linked already.
Before(k, l) ==
  /\ link[k].stage \in {"addressed", "reading"}
  /\ \E i \in DOMAIN sessions[link[k].to] :
       i >= link[k].cursor /\ sessions[link[k].to][i] = <<l, "in">>

Awaits(k, l) == link[k].stage = "asked" \/ Before(k, l)

Says(l, address) == address \in {<<"local", link[l].from>>, <<"nul", link[l].from>>}

Joined(k, l) == Linked(link[k].from, link[l].from)

Knows(k, l) ==
  \/ Joined(k, l)
  \/ \E address \in ToSet(link[k].list) : Says(l, address)

Alive(l) == status[link[l].from] # "exited"

\* Whichever request was read last, its handler finds the other caller's session.
Met ==
  \A k, l \in Links :
    Peers(k, l) /\ link[k].stage \notin Unread /\ link[l].stage \notin Unread
    /\ Alive(k) /\ Alive(l)
    => Awaits(k, l) \/ Awaits(l, k) \/ Knows(k, l) \/ Knows(l, k)

LEMMA Owing ==
  ASSUME TypeOK, Callers, Debts, NEW l \in Links, link[l].owed > 0 \/ link[l].asks
  PROVE  link[l].cause = "call"
<1>1. CASE link[l].owed > 0
  <2>1. Cardinality(BacksOf(l)) \in Nat /\ link[l].owed \in Nat /\ link[l].count \in Nat
    BY FiniteBacks, Indices DEF Link
  <2>2. link[l].count # 0
    BY <1>1, <2>1 DEF Debts
  <2> QED
    BY <2>2 DEF Callers
<1>2. CASE link[l].asks
  BY <1>2 DEF Callers
<1> QED
  BY <1>1, <1>2

LEMMA StarsKept ==
  ASSUME Leaf, Pairs, TypeOK, TypeOK', Exchanges, Callers, Debts, Vouches, Stars, Follows
  PROVE  Stars'
<1>1. \A l \in Links : l \in Links' /\ Kept(link'[l], link[l])
  BY DEF Follows
<1>2. ASSUME NEW l \in Links' \ Links, Called(link'[l].to)
      PROVE  link'[l].cause = "call"
  <2>1. Begun(l) /\ link'[l].to \in Node
    <3>1. link'[l] \in Link
      BY DEF TypeOK, Links
    <3> QED
      BY <3>1 DEF Follows, Link
  <2> SUFFICES ASSUME link'[l].cause # "call" PROVE FALSE
    OBVIOUS
  <2>2. PICK p \in Links : p = link'[l].parent
    BY <2>1 DEF Begun
  <2>3. CASE link[p].owed > 0 /\ link'[l].to = link[p].from
    <3>1. \E c \in called : link[p].from = From[c]
      BY <2>3, Owing DEF Stars
    <3> QED
      BY <1>2, <2>3, <3>1 DEF Leaf, Called, TypeOK
  <2>4. CASE link[p].stage = "connecting" /\ link'[l].to = Head(link[p].list)[2]
    <3>1. link[p].list \in Seq(Address) /\ link[p].list # <<>> /\ link[p].asks
      <4>1. link[p].list \in Seq(Address)
        BY Indices DEF Link
      <4>2. Sound(link[p], Len(sessions[link[p].to]))
        BY DEF Exchanges
      <4> QED
        BY <2>4, <4>1, <4>2 DEF Sound
    <3>2. Head(link[p].list) \in ToSet(link[p].list)
      BY <3>1, TailSet
    <3>3. PICK j \in Links : link[j].to = link[p].to /\ link[j].from = link'[l].to
      BY <2>1, <2>4, <3>2 DEF Vouches, Vouched
    <3>4. \E c \in called : link[p].to = To[c]
      BY <3>1, Owing DEF Stars
    <3>5. link[j].cause = "call"
      BY <3>3, <3>4 DEF Stars, Called, TypeOK
    <3>6. \E c \in called : link[j].from = From[c]
      BY <3>5 DEF Stars
    <3> QED
      BY <1>2, <3>3, <3>6 DEF Leaf, Called, TypeOK
  <2> QED
    BY <2>1, <2>2, <2>3, <2>4 DEF Begun
<1>3. ASSUME NEW l \in Links' \ Links, link'[l].cause = "call"
      PROVE  \E c \in Call \ called : /\ link'[l].from = From[c] /\ link'[l].to = To[c]
                                      /\ called' = called \union {c}
  BY <1>3 DEF Follows, Begun
<1>4. \A k, l \in Links' \ Links : k = l
  BY DEF Follows
<1>5. \A l \in Links' : Called(link'[l].to) => link'[l].cause = "call"
  BY <1>1, <1>2 DEF Stars, Kept
<1>6. \A l \in Links' : link'[l].cause = "call" =>
        \E c \in called' : link'[l].from = From[c] /\ link'[l].to = To[c]
  BY <1>1, <1>3 DEF Stars, Kept, Follows
<1>7. ASSUME NEW k \in Links', NEW l \in Links, k # l,
             link'[k].cause = "call", link'[l].cause = "call", link'[k].to = link'[l].to
      PROVE  \E b, c \in called' : b # c /\ To[b] = link'[k].to /\ To[c] = link'[k].to
  <2>1. CASE k \in Links
    BY <1>1, <1>7, <2>1 DEF Stars, Kept, Follows
  <2>2. CASE k \notin Links
    <3>1. PICK c \in Call \ called : link'[k].to = To[c] /\ called' = called \union {c}
      BY <1>3, <1>7, <2>2
    <3>2. PICK b \in called : link[l].to = To[b]
      BY <1>1, <1>7 DEF Stars, Kept
    <3> QED
      BY <1>1, <1>7, <3>1, <3>2 DEF Kept
  <2> QED
    BY <2>1, <2>2
<1>8. ASSUME NEW k \in Links', NEW l \in Links', k # l,
             link'[k].cause = "call", link'[l].cause = "call", link'[k].to = link'[l].to
      PROVE  \E b, c \in called' : b # c /\ To[b] = link'[k].to /\ To[c] = link'[k].to
  <2>1. k \in Links \/ l \in Links
    BY <1>4, <1>8
  <2> QED
    BY <1>7, <1>8, <2>1
<1>9. ASSUME NEW j \in Links', NEW k \in Links, NEW l \in Links, j # k, k # l, j # l,
             link'[j].cause = "call", link'[k].cause = "call", link'[l].cause = "call",
             link'[j].to = link'[k].to, link'[k].to = link'[l].to
      PROVE  FALSE
  <2>1. CASE j \in Links
    BY <1>1, <1>9, <2>1 DEF Stars, Kept
  <2>2. CASE j \notin Links
    <3>1. PICK d \in Call \ called : link'[j].to = To[d]
      BY <1>3, <1>9, <2>2
    <3>2. PICK b, c \in called : b # c /\ To[b] = link[k].to /\ To[c] = link[k].to
      BY <1>1, <1>9 DEF Stars, Kept
    <3> QED
      BY <1>1, <1>9, <3>1, <3>2 DEF Pairs, Kept, TypeOK
  <2> QED
    BY <2>1, <2>2
<1>10. ASSUME NEW j \in Links', NEW k \in Links', NEW l \in Links',
              link'[j].cause = "call", link'[k].cause = "call", link'[l].cause = "call",
              link'[j].to = link'[k].to, link'[k].to = link'[l].to
       PROVE  j = k \/ k = l \/ j = l
  <2> SUFFICES ASSUME j # k, k # l, j # l PROVE FALSE
    OBVIOUS
  <2>1. CASE k \in Links /\ l \in Links
    BY <1>9, <1>10, <2>1
  <2>2. CASE j \in Links /\ l \in Links
    BY <1>9, <1>10, <2>2
  <2>3. CASE j \in Links /\ k \in Links
    BY <1>9, <1>10, <2>3
  <2> QED
    BY <1>4, <2>1, <2>2, <2>3
<1> QED
  BY <1>5, <1>6, <1>8, <1>10 DEF Stars

LEMMA SentKept ==
  ASSUME TypeOK, Sent, Follows, Ages
  PROVE  Sent'
<1> SUFFICES ASSUME NEW l \in Links', link'[l].stage # "queued"
             PROVE  status'[link'[l].from] # "made"
  BY DEF Sent
<1>1. l \in Links
  BY DEF Follows, Begun
<1>2. link'[l].from = link[l].from /\ link[l].from \in Node
  BY <1>1, Indices DEF Follows, Kept, Link
<1>3. CASE link[l].stage # "queued"
  BY <1>1, <1>2, <1>3 DEF Sent, Ages
<1>4. CASE link[l].stage = "queued"
  <2>1. Asks(l)
    BY <1>1, <1>4 DEF Follows, Moves, Still, Takes, Skips, Adds, Completes, Hears,
                      Decides, WorksOff, Caller
  <2> QED
    BY <1>2, <1>4, <2>1 DEF Asks, Ages
<1> QED
  BY <1>3, <1>4

LEMMA EmptyKept ==
  ASSUME TypeOK, Empty, Follows
  PROVE  Empty'
<1> SUFFICES ASSUME NEW l \in Links'
             PROVE  /\ link'[l].stage \in Unread \union {"asked"} =>
                         link'[l].cursor = 1 /\ link'[l].list = <<>>
                    /\ link'[l].stage = "done" => link'[l].list = <<>>
  BY DEF Empty
<1>1. CASE l \notin Links
  BY <1>1 DEF Follows, Begun
<1>2. CASE l \in Links
  <2>1. /\ link[l].stage \in Unread \union {"asked"} =>
             link[l].cursor = 1 /\ link[l].list = <<>>
        /\ link[l].stage = "done" => link[l].list = <<>>
    BY <1>2 DEF Empty
  <2>2. Still(l) \/ Moves(l)
    BY <1>2 DEF Follows
  <2>3. CASE Still(l) \/ Asks(l)
    BY <2>1, <2>3 DEF Still, Asks, Unread
  <2>4. CASE ~Still(l) /\ ~Asks(l)
    BY <2>2, <2>4 DEF Moves, Takes, Skips, Adds, Completes, Hears, Decides, WorksOff,
                      Dialling, Unread
  <2> QED
    BY <2>3, <2>4
<1> QED
  BY <1>1, <1>2

LEMMA OnceKept ==
  ASSUME TypeOK, Once, Follows, Registers
  PROVE  Once'
<1> SUFFICES ASSUME NEW n \in Node, NEW i \in DOMAIN sessions'[n], NEW j \in DOMAIN sessions'[n],
                    sessions'[n][i][2] = "in"
             PROVE  /\ link'[sessions'[n][i][1]].accepted
                    /\ sessions'[n][i] = sessions'[n][j] => i = j
  BY DEF Once
<1>1. sessions[n] \in Seq(Links \X Side)
  BY DEF TypeOK
<1>2. \A p, q \in DOMAIN sessions[n] : sessions[n][p][2] = "in" =>
        /\ link[sessions[n][p][1]].accepted /\ link'[sessions[n][p][1]].accepted
        /\ sessions[n][p] = sessions[n][q] => p = q
  BY <1>1 DEF Once, Registers
<1>3. CASE sessions'[n] = sessions[n]
  BY <1>2, <1>3
<1>4. CASE Enters(n)
  <2>1. PICK s : /\ sessions'[n] = Append(sessions[n], s)
                 /\ s[2] = "in" => ~link[s[1]].accepted /\ link'[s[1]].accepted
    BY <1>4 DEF Enters
  <2>2. PICK size \in Nat : size = Len(sessions[n]) /\ DOMAIN sessions[n] = 1..size
    BY <1>1
  <2>3. /\ DOMAIN sessions'[n] = 1..(size + 1) /\ sessions'[n][size + 1] = s
        /\ \A p \in 1..size : sessions'[n][p] = sessions[n][p]
    BY <1>1, <2>1, <2>2
  <2>4. \A p \in DOMAIN sessions'[n] : p \in DOMAIN sessions[n] \/ p = size + 1
    BY <2>2, <2>3
  <2>5. \A p \in DOMAIN sessions[n] : sessions'[n][p] = sessions[n][p]
    BY <2>2, <2>3
  <2>6. \A p \in DOMAIN sessions[n] : sessions[n][p] # s \/ s[2] # "in"
    BY <1>2, <2>1
  <2>7. CASE i \in DOMAIN sessions[n] /\ j \in DOMAIN sessions[n]
    BY <1>2, <2>5, <2>7
  <2>8. CASE i = size + 1 /\ j = size + 1
    BY <2>1, <2>3, <2>8
  <2>9. CASE i \in DOMAIN sessions[n] /\ j = size + 1
    BY <1>2, <2>3, <2>5, <2>6, <2>9
  <2>10. CASE i = size + 1 /\ j \in DOMAIN sessions[n]
    BY <2>1, <2>3, <2>5, <2>6, <2>10
  <2> QED
    BY <2>4, <2>7, <2>8, <2>9, <2>10
<1>5. CASE Leaves(n)
  <2>1. PICK p \in DOMAIN sessions[n] : sessions'[n] = RemoveAt(sessions[n], p)
    BY <1>5 DEF Leaves
  <2>2. PICK size \in Nat : size = Len(sessions[n]) /\ DOMAIN sessions[n] = 1..size
    BY <1>1
  <2>3. /\ DOMAIN sessions'[n] = 1..(size - 1)
        /\ \A q \in 1..(size - 1) :
             sessions'[n][q] = IF q < p THEN sessions[n][q] ELSE sessions[n][q + 1]
    <3>1. PICK rest : rest = RemoveAt(sessions[n], p)
      OBVIOUS
    <3>2. /\ rest \in Seq(Links \X Side) /\ Len(rest) = Len(sessions[n]) - 1
          /\ \A q \in 1..(Len(sessions[n]) - 1) :
               rest[q] = IF q < p THEN sessions[n][q] ELSE sessions[n][q + 1]
      BY <1>1, <3>1, RemoveAtShape
    <3>3. DOMAIN rest = 1..Len(rest)
      BY <3>2
    <3>4. sessions'[n] = rest /\ Len(rest) = size - 1
      BY <2>1, <2>2, <3>1, <3>2
    <3> QED
      BY <2>2, <3>2, <3>3, <3>4
  <2> DEFINE old(q) == IF q < p THEN q ELSE q + 1
  <2>4. /\ \A q \in DOMAIN sessions'[n] : old(q) \in DOMAIN sessions[n]
        /\ \A q, r \in DOMAIN sessions'[n] : old(q) = old(r) => q = r
    BY <2>2, <2>3
  <2>5. \A q \in DOMAIN sessions'[n] : sessions'[n][q] = sessions[n][old(q)]
    BY <2>3
  <2> HIDE DEF old
  <2> QED
    BY <1>2, <2>4, <2>5
<1> QED
  BY <1>3, <1>4, <1>5 DEF Registers

\* A session that is not erased for its link being broken is still there.
LEMMA Remains ==
  ASSUME TypeOK, Registers, NEW n \in Node, NEW s \in ToSet(sessions[n]),
         status[n] # "running" \/ ~Broken(s[1])
  PROVE  s \in ToSet(sessions'[n])
<1>1. sessions[n] \in Seq(Links \X Side)
  BY DEF TypeOK
<1>2. CASE Enters(n)
  <2>1. PICK t : sessions'[n] = Append(sessions[n], t)
    BY <1>2 DEF Enters
  <2> QED
    BY <1>1, <2>1, AppendSet
<1>3. CASE Leaves(n)
  <2>1. PICK p \in DOMAIN sessions[n] :
          /\ sessions'[n] = RemoveAt(sessions[n], p)
          /\ status[n] = "running" /\ Broken(sessions[n][p][1])
    BY <1>3 DEF Leaves
  <2>2. PICK size \in Nat : size = Len(sessions[n]) /\ DOMAIN sessions[n] = 1..size
    BY <1>1
  <2>3. /\ DOMAIN sessions'[n] = 1..(size - 1)
        /\ \A q \in 1..(size - 1) :
             sessions'[n][q] = IF q < p THEN sessions[n][q] ELSE sessions[n][q + 1]
    <3>1. PICK rest : rest = RemoveAt(sessions[n], p)
      OBVIOUS
    <3>2. /\ rest \in Seq(Links \X Side) /\ Len(rest) = Len(sessions[n]) - 1
          /\ \A q \in 1..(Len(sessions[n]) - 1) :
               rest[q] = IF q < p THEN sessions[n][q] ELSE sessions[n][q + 1]
      BY <1>1, <3>1, RemoveAtShape
    <3>3. DOMAIN rest = 1..Len(rest)
      BY <3>2
    <3>4. sessions'[n] = rest /\ Len(rest) = size - 1
      BY <2>1, <2>2, <3>1, <3>2
    <3> QED
      BY <2>2, <3>2, <3>3, <3>4
  <2>4. PICK q \in DOMAIN sessions[n] : sessions[n][q] = s
    BY DEF ToSet
  <2>5. q # p
    BY <2>1, <2>4
  <2>6. CASE q < p
    <3>1. q \in DOMAIN sessions'[n] /\ sessions'[n][q] = s
      BY <2>2, <2>3, <2>4, <2>6
    <3> QED
      BY <3>1 DEF ToSet
  <2>7. CASE ~(q < p)
    <3>1. q - 1 \in 1..(size - 1) /\ ~(q - 1 < p) /\ (q - 1) + 1 = q
      BY <2>2, <2>5, <2>7
    <3>2. q - 1 \in DOMAIN sessions'[n] /\ sessions'[n][q - 1] = s
      BY <2>3, <2>4, <3>1
    <3> QED
      BY <3>2 DEF ToSet
  <2> QED
    BY <2>6, <2>7
<1> QED
  BY <1>2, <1>3 DEF Registers

LEMMA PresentKept ==
  ASSUME TypeOK, Present, Follows, Registers, Ages
  PROVE  Present'
<1> SUFFICES ASSUME NEW l \in Links', link'[l].stage \notin {"queued", "sent"},
                    status'[link'[l].from] # "exited"
             PROVE  <<l, "in">> \in ToSet(sessions'[link'[l].to])
  BY DEF Present
<1>1. l \in Links
  BY DEF Follows, Begun
<1>2. /\ link'[l].from = link[l].from /\ link'[l].to = link[l].to
      /\ link[l].from \in Node /\ link[l].to \in Node
  BY <1>1, Indices DEF Follows, Kept, Link
<1>3. status[link[l].from] # "exited"
  BY <1>2 DEF Ages
<1>4. <<l, "in">> \in ToSet(sessions[link[l].to])
  <2>1. CASE link[l].stage \notin {"queued", "sent"}
    BY <1>1, <1>3, <2>1 DEF Present
  <2>2. CASE link[l].stage \in {"queued", "sent"}
    <3>1. Asks(l)
      BY <1>1, <2>2 DEF Follows, Moves, Still, Takes, Skips, Adds, Completes, Hears,
                        Decides, WorksOff, Caller
    <3> QED
      BY <2>2, <3>1 DEF Asks, Registered
  <2> QED
    BY <2>1, <2>2
<1>5. status[link[l].to] # "running" \/ ~Broken(l)
  BY <1>3 DEF Broken
<1>6. <<l, "in">>[1] = l
  OBVIOUS
<1> QED
  BY <1>2, <1>4, <1>5, <1>6, Remains

\* The "in" sessions of a node that l asks, other than l's, are one.
LEMMA OneOther ==
  ASSUME TypeOK, Callers, Debts, Owners, Stars, NEW l \in Links, link[l].asks,
         NEW i \in DOMAIN sessions[link[l].to], NEW j \in DOMAIN sessions[link[l].to],
         sessions[link[l].to][i][2] = "in", sessions[link[l].to][i][1] # l,
         sessions[link[l].to][j][2] = "in", sessions[link[l].to][j][1] # l
  PROVE  sessions[link[l].to][i] = sessions[link[l].to][j]
<1>1. PICK n \in Node : n = link[l].to
  BY Indices DEF Link
<1>2. link[l].cause = "call" /\ Called(n)
  BY <1>1, Owing DEF Stars, Called, TypeOK
<1>3. sessions[n] \in Seq(Links \X Side)
  BY DEF TypeOK
<1>4. ASSUME NEW p \in DOMAIN sessions[n], sessions[n][p][2] = "in"
      PROVE  /\ sessions[n][p] = <<sessions[n][p][1], "in">> /\ sessions[n][p][1] \in Links
             /\ link[sessions[n][p][1]].to = n /\ link[sessions[n][p][1]].cause = "call"
  <2>1. sessions[n][p] \in Links \X Side
    BY <1>3
  <2>2. sessions[n][p] \in ToSet(sessions[n])
    BY DEF ToSet
  <2> QED
    BY <1>2, <1>4, <2>1, <2>2 DEF Owners, Stars
<1>5. sessions[n][i][1] = sessions[n][j][1]
  BY <1>1, <1>2, <1>4 DEF Stars
<1> QED
  BY <1>1, <1>4, <1>5

LEMMA LoneKept ==
  ASSUME TypeOK, Exchanges, Callers, Debts, Owners, Overtaken, Stars, Once, Empty, Lone,
         Follows, Registers
  PROVE  Lone'
<1> SUFFICES ASSUME NEW k \in Links', link'[k].asks,
                    link'[k].stage \in {"addressed", "reading", "answered"},
                    NEW i \in DOMAIN link'[k].list, link'[k].list[i] # Blank
             PROVE  /\ \A j \in DOMAIN link'[k].list : link'[k].list[j] # Blank => i = j
                    /\ link'[k].stage # "answered" =>
                         \E p \in DOMAIN sessions'[link'[k].to] :
                           /\ p < link'[k].cursor
                           /\ sessions'[link'[k].to][p][2] = "in"
                           /\ sessions'[link'[k].to][p][1] # k
  BY DEF Lone
<1>1. k \in Links
  BY DEF Follows, Begun
<1>2. /\ link'[k].to = link[k].to /\ link[k].asks
      /\ link[k].list \in Seq(Address) /\ link[k].cursor \in Nat
      /\ sessions[link[k].to] \in Seq(Links \X Side)
  BY <1>1, Indices DEF Follows, Kept, Link, TypeOK
<1> DEFINE Passed(c) == \E p \in DOMAIN sessions[link[k].to] :
             /\ p < c /\ sessions[link[k].to][p][2] = "in" /\ sessions[link[k].to][p][1] # k
<1>3. ASSUME NEW c, Passed(c), link[k].stage \in {"addressed", "reading"}
      PROVE  \E p \in DOMAIN sessions'[link[k].to] :
               /\ p < c /\ sessions'[link[k].to][p][2] = "in"
               /\ sessions'[link[k].to][p][1] # k
  BY <1>1, <1>3, HereKept
<1>4. ASSUME NEW h \in DOMAIN link[k].list, link[k].list[h] # Blank,
             link[k].stage \in {"addressed", "reading", "answered"}
      PROVE  /\ \A j \in DOMAIN link[k].list : link[k].list[j] # Blank => h = j
             /\ link[k].stage # "answered" => Passed(link[k].cursor)
  BY <1>1, <1>2, <1>4 DEF Lone
<1> HIDE DEF Passed
<1>5. CASE Adds(k)
  <2>1. PICK a \in Readings(Here(k)) : link'[k].list = Append(link[k].list, a)
    BY <1>5 DEF Adds
  <2>2. link[k].stage = "reading" /\ link'[k].cursor = link[k].cursor + 1
    BY <1>5 DEF Adds
  <2>3. PICK size \in Nat : size = Len(link[k].list) /\ DOMAIN link[k].list = 1..size
    BY <1>2
  <2>4. /\ DOMAIN link'[k].list = 1..(size + 1) /\ link'[k].list[size + 1] = a
        /\ \A j \in 1..size : link'[k].list[j] = link[k].list[j]
    BY <1>2, <2>1, <2>3
  <2>5. /\ link[k].cursor \in DOMAIN sessions[link[k].to]
        /\ Here(k) \in Links \X Side
    BY <1>1, <2>2, HereTyped
  <2>6. a # Blank => Here(k)[2] = "in" /\ Here(k)[1] # k
    <3> SUFFICES ASSUME a # Blank PROVE Here(k)[2] = "in" /\ Here(k)[1] # k
      OBVIOUS
    <3>1. Here(k)[2] = "in" /\ link[Here(k)[1]].stage \notin {"queued", "sent"}
      BY <2>1, <2>5 DEF Readings, AddressOf, Side
    <3>2. Here(k)[1] # k
      BY <1>1, <2>2, <3>1 DEF Overtaken
    <3> QED
      BY <3>1, <3>2
  <2>7. a # Blank => \A j \in 1..size : link[k].list[j] = Blank
    <3> SUFFICES ASSUME a # Blank, NEW j \in 1..size, link[k].list[j] # Blank
                 PROVE  FALSE
      OBVIOUS
    <3>1. Passed(link[k].cursor)
      BY <1>4, <2>2, <2>3
    <3>2. PICK p \in DOMAIN sessions[link[k].to] :
            /\ p < link[k].cursor
            /\ sessions[link[k].to][p][2] = "in" /\ sessions[link[k].to][p][1] # k
      BY <3>1 DEF Passed
    <3>3. sessions[link[k].to][p] = sessions[link[k].to][link[k].cursor]
      BY <1>1, <1>2, <2>5, <2>6, <3>2, OneOther DEF Here
    <3>4. p = link[k].cursor
      <4>1. link[k].to \in Node
        BY <1>1, Indices DEF Link
      <4> QED
        BY <2>5, <3>2, <3>3, <4>1 DEF Once
    <3> QED
      BY <1>2, <3>2, <3>4
  <2>8. Passed(link'[k].cursor)
    <3>1. CASE a # Blank
      <4>1. link[k].cursor < link'[k].cursor
        BY <1>2, <2>2
      <4> QED
        BY <2>5, <2>6, <3>1, <4>1 DEF Passed, Here
    <3>2. CASE a = Blank
      <4>1. i \in 1..size /\ link[k].list[i] # Blank
        <5>1. i \in 1..size \/ i = size + 1
          BY <2>4
        <5> QED
          BY <2>4, <3>2, <5>1
      <4>2. Passed(link[k].cursor)
        BY <1>4, <2>2, <2>3, <4>1
      <4>3. \A p \in DOMAIN sessions[link[k].to] :
              p < link[k].cursor => p < link'[k].cursor
        BY <1>2, <2>2
      <4> QED
        BY <4>2, <4>3 DEF Passed
    <3> QED
      BY <3>1, <3>2
  <2>9. ASSUME NEW j \in DOMAIN link'[k].list, link'[k].list[j] # Blank
        PROVE  i = j
    <3>1. (i \in 1..size \/ i = size + 1) /\ (j \in 1..size \/ j = size + 1)
      BY <2>4
    <3>2. CASE a # Blank
      BY <2>4, <2>7, <2>9, <3>1, <3>2
    <3>3. CASE a = Blank
      <4>1. i \in 1..size /\ j \in 1..size
        BY <2>4, <2>9, <3>1, <3>3
      <4> QED
        BY <1>4, <2>2, <2>3, <2>4, <2>9, <4>1
    <3> QED
      BY <3>2, <3>3
  <2> QED
    BY <1>2, <1>3, <2>2, <2>8, <2>9
<1>6. CASE Asks(k)
  <2>1. link[k].list = <<>>
    BY <1>1, <1>6 DEF Asks, Empty, Unread
  <2> QED
    BY <1>6, <2>1 DEF Asks
<1>7. CASE Still(k) \/ Takes(k) \/ Completes(k) \/ Skips(k)
  <2>1. /\ link'[k].list = link[k].list
        /\ link[k].stage \in {"addressed", "reading", "answered"}
        /\ link'[k].cursor \in {link[k].cursor, link[k].cursor + 1}
        /\ link'[k].stage # "answered" => link[k].stage # "answered"
    BY <1>7 DEF Still, Takes, Completes, Skips
  <2>2. /\ \A j \in DOMAIN link[k].list : link[k].list[j] # Blank => i = j
        /\ link[k].stage # "answered" => Passed(link[k].cursor)
    BY <1>4, <2>1
  <2>3. \A p \in DOMAIN sessions[link[k].to] :
          p < link[k].cursor => p < link'[k].cursor
    BY <1>2, <2>1
  <2>4. link[k].stage # "answered" => Passed(link'[k].cursor)
    BY <2>2, <2>3 DEF Passed
  <2> QED
    BY <1>2, <1>3, <2>1, <2>2, <2>4
<1>8. CASE Hears(k) \/ Decides(k) \/ WorksOff(k)
  BY <1>8 DEF Hears, Decides, WorksOff, Dialling
<1> QED
  BY <1>1, <1>5, <1>6, <1>7, <1>8 DEF Follows, Moves

LEMMA PeersStay ==
  ASSUME Follows, NEW k \in Links, NEW l \in Links
  PROVE  /\ Peers(k, l)' <=> Peers(k, l)
         /\ Joined(k, l) => Joined(k, l)'
<1>1. /\ Kept(link'[k], link[k]) /\ Kept(link'[l], link[l])
      /\ \A j \in Links : j \in Links' /\ Kept(link'[j], link[j])
  BY DEF Follows
<1>2. Peers(k, l)' <=> Peers(k, l)
  BY <1>1 DEF Peers, Kept
<1>3. Joined(k, l) => Joined(k, l)'
  BY <1>1 DEF Joined, Linked, Kept
<1> QED
  BY <1>2, <1>3

\* While the session of l is before k's handler, it stays there until it is listed.
LEMMA BeforeKept ==
  ASSUME TypeOK, Exchanges, Callers, Debts, Stars, Follows, Registers,
         NEW k \in Links, NEW l \in Links, Peers(k, l), link[l].stage \notin Unread,
         Before(k, l)
  PROVE  Before(k, l)' \/ Knows(k, l)'
<1>1. PICK i \in DOMAIN sessions[link[k].to] :
        i >= link[k].cursor /\ sessions[link[k].to][i] = <<l, "in">>
  BY DEF Before
<1>2. link[k].stage \in {"addressed", "reading"}
  BY DEF Before
<1>3. /\ i \in Nat /\ i <= Len(sessions[link[k].to]) /\ Len(sessions[link[k].to]) \in Nat
      /\ link[k].cursor \in Nat /\ link[k].list \in Seq(Address)
  <2>1. link[k].to \in Node /\ link[k].cursor \in Nat /\ link[k].list \in Seq(Address)
    BY Indices DEF Link
  <2>2. sessions[link[k].to] \in Seq(Links \X Side)
    BY <2>1 DEF TypeOK
  <2>3. /\ DOMAIN sessions[link[k].to] = 1..Len(sessions[link[k].to])
        /\ Len(sessions[link[k].to]) \in Nat
    BY <2>2
  <2> QED
    BY <2>1, <2>3
<1>4. /\ link'[k].to = link[k].to /\ link'[k].from = link[k].from
      /\ link'[l].from = link[l].from
  BY DEF Follows, Kept
<1>5. i \in DOMAIN sessions'[link[k].to] /\ sessions'[link[k].to][i] = <<l, "in">>
  BY <1>1, <1>2, HereKept
<1>6. i = link[k].cursor => Here(k) = <<l, "in">>
  BY <1>1 DEF Here
<1>7. CASE Still(k) \/ Takes(k)
  BY <1>1, <1>2, <1>4, <1>5, <1>7 DEF Still, Takes, Before
<1>8. CASE Skips(k)
  <2>1. i # link[k].cursor
    <3> SUFFICES ASSUME i = link[k].cursor PROVE FALSE
      OBVIOUS
    <3>1. NodeId(<<l, "in">>) = link[l].from
      BY DEF NodeId, Unread
    <3>2. link[l].from # link[l].to
      <4>1. PICK c \in called : link[l].from = From[c] /\ link[l].to = To[c]
        BY Owing DEF Peers, Stars
      <4> QED
        BY <4>1, ConstantsAssumption DEF TypeOK
    <3> QED
      BY <1>6, <1>8, <3>1, <3>2 DEF Skips, Listed, Peers
  <2>2. i >= link'[k].cursor
    BY <1>1, <1>3, <1>8, <2>1 DEF Skips
  <2> QED
    BY <1>4, <1>5, <1>8, <2>2 DEF Skips, Before
<1>9. CASE Adds(k)
  <2>1. CASE i = link[k].cursor
    <3>1. <<l, "in">>[1] = l /\ <<l, "in">>[2] = "in"
      OBVIOUS
    <3>2. Readings(<<l, "in">>) = {<<"local", link[l].from>>}
      BY <3>1 DEF Readings, AddressOf, PortOf, Peers, Unread
    <3>3. link'[k].list = Append(link[k].list, <<"local", link[l].from>>)
      BY <1>6, <1>9, <2>1, <3>2 DEF Adds
    <3>4. <<"local", link[l].from>> \in ToSet(link'[k].list)
      BY <1>3, <3>3, AppendSet
    <3> QED
      BY <1>4, <3>4 DEF Knows, Says
  <2>2. CASE i # link[k].cursor
    <3>1. i >= link'[k].cursor
      BY <1>1, <1>3, <1>9, <2>2 DEF Adds
    <3> QED
      BY <1>4, <1>5, <1>9, <3>1 DEF Adds, Before
  <2> QED
    BY <2>1, <2>2
<1>10. ~Completes(k)
  BY <1>1, <1>3 DEF Completes
<1>11. ~(Asks(k) \/ Hears(k) \/ Decides(k) \/ WorksOff(k))
  BY <1>2 DEF Asks, Hears, Decides, WorksOff, Caller
<1>12. Still(k) \/ Moves(k)
  BY DEF Follows
<1> QED
  BY <1>7, <1>8, <1>9, <1>10, <1>11, <1>12 DEF Moves

\* So it is while the lock is not taken, since it is registered then.
LEMMA AwaitsKept ==
  ASSUME TypeOK, TypeOK', Exchanges, Callers, Debts, Stars, Empty, Present', Follows,
         Registers, NEW k \in Links, NEW l \in Links, Peers(k, l),
         link[l].stage \notin Unread, link'[l].stage \notin Unread, Alive(l)', Awaits(k, l)
  PROVE  Awaits(k, l)' \/ Knows(k, l)'
<1>1. CASE Before(k, l)
  BY <1>1, BeforeKept DEF Awaits
<1>2. CASE link[k].stage = "asked" /\ Still(k)
  BY <1>2 DEF Still, Awaits
<1>3. CASE link[k].stage = "asked" /\ ~Still(k)
  <2>1. link'[k].stage = "addressed" /\ link'[k].cursor = link[k].cursor
    <3>1. Moves(k)
      BY <1>3 DEF Follows
    <3> QED
      BY <1>3, <3>1 DEF Moves, Asks, Takes, Skips, Adds, Completes, Hears, Decides, WorksOff,
                        Caller
  <2>2. link'[k].cursor = 1
    BY <1>3, <2>1 DEF Empty
  <2>3. link'[k].to = link'[l].to /\ l \in Links'
    BY DEF Peers, Follows, Kept
  <2>4. <<l, "in">> \in ToSet(sessions'[link'[l].to])
    <3>1. link'[l].stage \notin {"queued", "sent"} /\ status'[link'[l].from] # "exited"
      BY DEF Alive, Unread
    <3> QED
      BY <2>3, <3>1 DEF Present
  <2>5. PICK i \in DOMAIN sessions'[link'[k].to] : sessions'[link'[k].to][i] = <<l, "in">>
    BY <2>3, <2>4 DEF ToSet
  <2>6. i >= 1
    <3>1. link'[k].to \in Node
      <4>1. link'[l] \in Link
        BY <2>3 DEF TypeOK, Links
      <4> QED
        BY <2>3, <4>1 DEF Link
    <3>2. sessions'[link'[k].to] \in Seq(Links' \X Side)
      BY <3>1 DEF TypeOK
    <3>3. DOMAIN sessions'[link'[k].to] = 1..Len(sessions'[link'[k].to])
      BY <3>2
    <3> QED
      BY <2>5, <3>3
  <2> QED
    BY <2>1, <2>2, <2>5, <2>6 DEF Before, Awaits
<1> QED
  BY <1>1, <1>2, <1>3 DEF Awaits

\* The one address of a list is read as what it is, or with a host that starts
\* with a NUL byte.
LEMMA HeardLone ==
  ASSUME NEW list \in Seq(Address), NEW l, NEW address \in ToSet(list), Says(l, address),
         \A i, j \in DOMAIN list : list[i] # Blank /\ list[j] # Blank => i = j
  PROVE  \E b \in ToSet(Heard(list)) : Says(l, b)
<1>1. CASE Heard(list) = list
  BY <1>1
<1>2. CASE \E first \in 1..(Len(list) - 1) :
             /\ list[first][1] # ""
             /\ Heard(list) = Append(SubSeq(list, 1, first - 1),
                  <<IF list[first + 1][2] = NoPort THEN "nul" ELSE "junk", list[first][2]>>)
  <2>1. PICK first \in 1..(Len(list) - 1) :
          /\ list[first][1] # ""
          /\ Heard(list) = Append(SubSeq(list, 1, first - 1),
               <<IF list[first + 1][2] = NoPort THEN "nul" ELSE "junk", list[first][2]>>)
    BY <1>2
  <2>2. /\ DOMAIN list = 1..Len(list) /\ Len(list) \in Nat
        /\ first \in DOMAIN list /\ first + 1 \in DOMAIN list /\ first + 1 # first
    <3>1. DOMAIN list = 1..Len(list) /\ Len(list) \in Nat
      OBVIOUS
    <3>2. \A n \in Nat : \A i \in 1..(n - 1) : i \in 1..n /\ i + 1 \in 1..n /\ i + 1 # i
      OBVIOUS
    <3> QED
      BY <3>1, <3>2
  <2>3. list[first] # Blank
    <3>1. list[first][1] # "" /\ Blank[1] = ""
      BY <2>1, Zenon DEF Blank
    <3> QED
      BY <3>1, Zenon
  <2>4. list[first + 1] = Blank
    BY <2>2, <2>3, Zenon
  <2>5. Heard(list) = Append(SubSeq(list, 1, first - 1), <<"nul", list[first][2]>>)
    <3>1. list[first + 1][2] = NoPort
      <4>1. Blank[2] = NoPort
        BY DEF Blank
      <4> QED
        BY <2>4, <4>1, Zenon
    <3> QED
      BY <2>1, <3>1, Zenon
  <2>6. list[first] = address
    <3>1. address # Blank
      <4>1. address[1] \in {"local", "nul"}
        BY DEF Says
      <4>2. Blank[1] = ""
        BY DEF Blank
      <4> QED
        BY <4>1, <4>2
    <3>2. PICK i \in DOMAIN list : list[i] = address
      BY Zenon DEF ToSet
    <3> QED
      BY <2>2, <2>3, <3>1, <3>2, Zenon
  <2>7. PICK front : front = SubSeq(list, 1, first - 1)
    OBVIOUS
  <2>8. front \in Seq(Address)
    <3>1. first \in Nat /\ first - 1 \in Int /\ first - 1 <= Len(list)
      BY <2>2
    <3>2. \A q \in Seq(Address) : \A m \in Int : m <= Len(q) => SubSeq(q, 1, m) \in Seq(Address)
      OBVIOUS
    <3> QED
      BY <2>7, <3>1, <3>2
  <2>9. <<"nul", list[first][2]>> \in ToSet(Heard(list))
    <3>1. PICK one : one = <<"nul", list[first][2]>>
      OBVIOUS
    <3>2. one \in ToSet(Append(front, one))
      BY <2>8, AppendSet
    <3> QED
      BY <2>5, <2>7, <3>1, <3>2, Zenon
  <2>10. Says(l, <<"nul", list[first][2]>>)
    BY <2>6 DEF Says
  <2> QED
    BY <2>9, <2>10
<1> QED
  BY <1>1, <1>2, HeardCases

\* A caller whose address is listed is linked once the address is dealt with.
LEMMA Dealt ==
  ASSUME TypeOK, Owners, Sent, Follows, NEW k \in Links, NEW l \in Links,
         link[l].stage \notin Unread, Alive(l), link[k].list # <<>>,
         Says(l, Head(link[k].list)), WorksOff(k)
  PROVE  Joined(k, l)'
<1>1. PICK address : address = Head(link[k].list)
  OBVIOUS
<1>2. /\ link[k].from \in Node /\ link[l].from \in Node
      /\ link'[k].from = link[k].from /\ link'[l].from = link[l].from
  BY Indices DEF Link, Follows, Kept
<1>3. address[2] = link[l].from /\ address[1] \in {"local", "nul"}
  BY <1>1 DEF Says
<1>4. CASE Known(link[k].from, address)
  <2>1. PICK s \in ToSet(sessions[link[k].from]) : AddressOf(s) = address
    BY <1>4 DEF Known
  <2>2. s \in Links \X Side /\ s[2] = "in"
    BY <1>2, <1>3, <2>1, SessionTypes, NoOutAddress DEF Side
  <2>3. link[s[1]].to = link[k].from
    BY <1>2, <2>1, <2>2 DEF Owners
  <2>4. link[s[1]].from = link[l].from
    <3>1. link[l].from # NoPort
      BY <1>2, ConstantsAssumption
    <3>2. address[2] = PortOf(s[1])
      BY <1>3, <2>1, <3>1 DEF AddressOf, Blank
    <3> QED
      BY <1>3, <3>1, <3>2 DEF PortOf
  <2>5. s[1] \in Links' /\ link'[s[1]].from = link[l].from /\ link'[s[1]].to = link[k].from
    BY <2>2, <2>3, <2>4 DEF Follows, Kept
  <2> QED
    BY <1>2, <2>5 DEF Joined, Linked
<1>5. CASE ~Known(link[k].from, address)
  <2>1. Reaches(address)
    <3>1. status[link[l].from] \in {"running", "stopped"}
      <4>1. status[link[l].from] \in {"made", "running", "stopped", "exited"}
        BY <1>2 DEF TypeOK
      <4>2. status[link[l].from] # "made"
        BY DEF Sent, Unread
      <4> QED
        BY <4>1, <4>2 DEF Alive
    <3> QED
      BY <1>2, <1>3, <3>1 DEF Reaches
  <2>2. \E j \in Links' : link'[j].from = link[k].from /\ link'[j].to = link[l].from
    BY <1>1, <1>3, <1>5, <2>1 DEF WorksOff
  <2> QED
    BY <1>2, <2>2 DEF Joined, Linked
<1> QED
  BY <1>4, <1>5

LEMMA KnowsKept ==
  ASSUME TypeOK, Exchanges, Owners, Sent, Lone, Follows, NEW k \in Links, NEW l \in Links,
         Peers(k, l), link[l].stage \notin Unread, Alive(l), Knows(k, l)
  PROVE  Knows(k, l)'
<1>1. CASE Joined(k, l)
  BY <1>1, PeersStay DEF Knows
<1>2. CASE \E address \in ToSet(link[k].list) : Says(l, address)
  <2>1. PICK address \in ToSet(link[k].list) : Says(l, address)
    BY <1>2
  <2>2. link[k].list \in Seq(Address) /\ Sound(link[k], Len(sessions[link[k].to]))
    BY Indices DEF Link, Exchanges
  <2>3. ASSUME NEW a, Says(l, a) PROVE Says(l, a)'
    BY <2>3 DEF Says, Follows, Kept
  <2>4. CASE address \in ToSet(link'[k].list)
    BY <2>1, <2>3, <2>4 DEF Knows
  <2>5. CASE Adds(k)
    <3>1. PICK a : link'[k].list = Append(link[k].list, a)
      BY <2>5 DEF Adds
    <3> QED
      BY <2>2, <2>4, <3>1, AppendSet
  <2>6. CASE Hears(k)
    <3>1. \A i, j \in DOMAIN link[k].list :
            link[k].list[i] # Blank /\ link[k].list[j] # Blank => i = j
      BY <2>6 DEF Lone, Hears, Peers
    <3>2. PICK b \in ToSet(Heard(link[k].list)) : Says(l, b)
      BY <2>1, <2>2, <3>1, HeardLone
    <3> QED
      BY <2>3, <2>6, <3>2 DEF Hears, Knows
  <2>7. CASE WorksOff(k)
    <3>1. link[k].list # <<>>
      BY <2>2, <2>7 DEF WorksOff, Sound, Caller
    <3>2. ToSet(link[k].list) = {Head(link[k].list)} \union ToSet(Tail(link[k].list))
      BY <2>2, <3>1, TailSet
    <3>3. CASE address = Head(link[k].list)
      BY <2>1, <2>7, <3>1, <3>3, Dealt DEF Knows
    <3>4. CASE address \in ToSet(Tail(link[k].list))
      BY <2>4, <2>7, <3>4 DEF WorksOff
    <3> QED
      BY <3>2, <3>3, <3>4
  <2>8. CASE Still(k) \/ Asks(k) \/ Takes(k) \/ Skips(k) \/ Completes(k) \/ Decides(k)
    BY <2>4, <2>8 DEF Still, Asks, Takes, Skips, Completes, Decides
  <2> QED
    BY <2>5, <2>6, <2>7, <2>8 DEF Follows, Moves
<1> QED
  BY <1>1, <1>2 DEF Knows

\* The request that is read last has its handler take the lock afterwards.
LEMMA Begins ==
  ASSUME Follows, NEW k \in Links, NEW l \in Links, Peers(k, l),
         link[k].stage \in Unread, link'[k].stage \notin Unread
  PROVE  Awaits(k, l)'
<1>1. Asks(k)
  <2>1. Moves(k)
    BY DEF Follows, Still
  <2> QED
    BY <2>1 DEF Unread, Moves, Takes, Skips, Adds, Completes, Hears, Decides, WorksOff, Caller
<1> QED
  BY <1>1 DEF Asks, Peers, Unread, Awaits

LEMMA MetKept ==
  ASSUME TypeOK, TypeOK', Exchanges, Callers, Debts, Owners, Stars, Sent, Present', Empty,
         Lone, Met, Follows, Registers, Ages
  PROVE  Met'
<1> SUFFICES ASSUME NEW k \in Links', NEW l \in Links', Peers(k, l)',
                    link'[k].stage \notin Unread, link'[l].stage \notin Unread,
                    Alive(k)', Alive(l)'
             PROVE  (Awaits(k, l) \/ Awaits(l, k) \/ Knows(k, l) \/ Knows(l, k))'
  BY DEF Met
<1>1. k \in Links /\ l \in Links
  BY DEF Follows, Begun, Unread
<1>2. Peers(k, l) /\ Peers(l, k)
  <2>1. Peers(k, l)
    BY <1>1, PeersStay
  <2> QED
    BY <2>1 DEF Peers
<1>3. Alive(k) /\ Alive(l)
  <2>1. ASSUME NEW j \in Links, Alive(j)' PROVE Alive(j)
    <3>1. link'[j].from = link[j].from /\ link[j].from \in Node
      BY Indices DEF Follows, Kept, Link
    <3> QED
      BY <2>1, <3>1 DEF Alive, Ages
  <2> QED
    BY <1>1, <2>1
<1>4. CASE link[k].stage \notin Unread /\ link[l].stage \notin Unread
  <2>1. Awaits(k, l) \/ Awaits(l, k) \/ Knows(k, l) \/ Knows(l, k)
    BY <1>1, <1>2, <1>3, <1>4 DEF Met
  <2>2. CASE Awaits(k, l)
    BY <1>1, <1>2, <1>4, <2>2, AwaitsKept
  <2>3. CASE Awaits(l, k)
    BY <1>1, <1>2, <1>4, <2>3, AwaitsKept
  <2>4. CASE Knows(k, l)
    BY <1>1, <1>2, <1>3, <1>4, <2>4, KnowsKept
  <2>5. CASE Knows(l, k)
    BY <1>1, <1>2, <1>3, <1>4, <2>5, KnowsKept
  <2> QED
    BY <2>1, <2>2, <2>3, <2>4, <2>5
<1>5. CASE link[k].stage \in Unread
  BY <1>1, <1>2, <1>5, Begins
<1>6. CASE link[l].stage \in Unread
  BY <1>1, <1>2, <1>6, Begins
<1> QED
  BY <1>4, <1>5, <1>6

LEMMA Meetings ==
  ASSUME Leaf, Pairs
  PROVE  Spec => [](Stars /\ Sent /\ Once /\ Present /\ Empty /\ Lone /\ Met)
<1>1. Init => Stars /\ Sent /\ Once /\ Present /\ Empty /\ Lone /\ Met
  BY DEF Init, Stars, Sent, Once, Present, Empty, Lone, Met, Links
<1>2. /\ TypeOK /\ TypeOK' /\ Exchanges /\ Callers /\ Debts /\ Owners
      /\ Vouches /\ Overtaken
      /\ Stars /\ Sent /\ Once /\ Present /\ Empty /\ Lone /\ Met /\ [Next]_vars
      => (Stars /\ Sent /\ Once /\ Present /\ Empty /\ Lone /\ Met)'
  <2> SUFFICES ASSUME TypeOK, TypeOK', Exchanges, Callers, Debts, Owners,
                      Vouches, Overtaken, Stars, Sent, Once, Present, Empty, Lone, Met,
                      [Next]_vars
               PROVE  (Stars /\ Sent /\ Once /\ Present /\ Empty /\ Lone /\ Met)'
    OBVIOUS
  <2>1. Follows /\ Registers /\ Ages
    BY Followed
  <2>2. Stars'
    BY <2>1, StarsKept
  <2>3. Sent' /\ Once' /\ Empty'
    BY <2>1, SentKept, OnceKept, EmptyKept
  <2>4. Present'
    BY <2>1, PresentKept
  <2>5. Lone'
    BY <2>1, LoneKept
  <2>6. Met'
    BY <2>1, <2>4, MetKept
  <2> QED
    BY <2>2, <2>3, <2>4, <2>5, <2>6
<1> QED
  BY <1>1, <1>2, Typing, Cascades, Announcements, Strangers, PTL DEF Spec

\* When no node both connects and is connected to, and no more than two connect to
\* one node, the two find each other, in whatever order their requests are read and
\* whoever stops (Mesh).
THEOREM MeshOfTwo ==
  ASSUME Leaf, Pairs
  PROVE  Spec => []Mesh
<1>1. Empty /\ Met => Mesh
  <2> SUFFICES ASSUME Empty, Met, NEW k \in Links, NEW l \in Links,
                      link[k].from # link[l].from, link[k].to = link[l].to,
                      link[k].asks, link[l].asks, link[k].named, link[l].named,
                      link[k].stage = "done", link[l].stage = "done",
                      status[link[k].from] = "running", status[link[l].from] = "running"
               PROVE  Linked(link[k].from, link[l].from)
    BY DEF Mesh
  <2>1. Awaits(k, l) \/ Awaits(l, k) \/ Knows(k, l) \/ Knows(l, k)
    BY DEF Met, Peers, Unread, Alive
  <2>2. ~Awaits(k, l) /\ ~Awaits(l, k)
    BY DEF Awaits, Before
  <2>3. ToSet(link[k].list) = {} /\ ToSet(link[l].list) = {}
    BY DEF Empty, ToSet
  <2>4. Joined(k, l) \/ Joined(l, k)
    BY <2>1, <2>2, <2>3 DEF Knows
  <2> QED
    BY <2>4 DEF Joined, Linked
<1> QED
  BY <1>1, Meetings, PTL

=============================================================================
