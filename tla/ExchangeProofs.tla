---------------------------- MODULE ExchangeProofs ----------------------------
(***************************************************************************)
(* Proofs that the cache holds under a key what the key names, and that    *)
(* clients get answers to what they asked for, for any number of clients,  *)
(* requests, hosts and urls and places in the cache.                       *)
(***************************************************************************)
EXTENDS Exchange, SequenceTheorems, TLAPS

\* The condition under which the key of an intercepted connection is that
\* of the response which completes on it.
Polite ==
  \A c \in Intercepted :
    c \in Patient /\ \A ask \in Asks[c] : ask.method = "GET"

-----------------------------------------------------------------------------
(* The invariant.                                                          *)

\* Clients ask what they may ask.
AskedOK ==
  /\ asked \in [Clients -> Seq(Ask)]
  /\ \A c \in Clients : \A i \in 1 .. Len(asked[c]) : asked[c][i] \in Asks[c]

\* A server that has c's i-th request, and no other, has its key or none.
Serves(s, i) ==
  LET to == asked[s.client][i]
  IN  /\ s.queue = <<i>> /\ i \in 1 .. Len(asked[s.client])
      /\ s.key # NULL => to.method = "GET" /\ KeyOf(to) = s.key

Idle(s) == s.queue = <<>> /\ s.part = 0

Entry == [client : Clients, queue : Seq(Nat), key : Keys \cup {NULL},
          part : {0, 1}]

ServerOK(s) ==
  /\ s \in Entry
  /\ Idle(s) \/ \E i \in Nat : Serves(s, i)

ServersOK == \A s \in servers : ServerOK(s)

\* What is cached was asked for by GET and has this key.
Named(key, to) == to \in Ask /\ to.method = "GET" /\ KeyOf(to) = key

StoreOK == \A key \in DOMAIN store : Named(key, store[key].val.to)

KeysInv == AskedOK /\ ServersOK /\ StoreOK

-----------------------------------------------------------------------------
(* The parts.                                                              *)

\* A new request goes behind the others, which stay what they are.
LEMMA AskedGrows ==
  ASSUME AskedOK, NEW c \in Clients, NEW ask, Request(c, ask)
  PROVE  /\ AskedOK'
         /\ \A d \in Clients :
              /\ Len(asked[d]) \in Nat /\ Len(asked'[d]) \in Nat
              /\ \A i \in 1 .. Len(asked[d]) :
                   i \in 1 .. Len(asked'[d]) /\ asked'[d][i] = asked[d][i]
         /\ Number(c) \in 1 .. Len(asked'[c])
         /\ asked'[c][Number(c)] = ask /\ ask \in Asks[c]
<1>1. /\ ask \in Asks[c] /\ ask \in Ask
      /\ asked' = [asked EXCEPT ![c] = Append(@, ask)]
  BY DEF Request, Ask
<1>2. \A d \in Clients : asked[d] \in Seq(Ask) /\ Len(asked[d]) \in Nat
  BY LenProperties DEF AskedOK
<1> DEFINE new == Append(asked[c], ask)
<1>3. /\ new \in Seq(Ask) /\ Len(new) = Len(asked[c]) + 1
      /\ \A i \in 1 .. Len(asked[c]) : new[i] = asked[c][i]
      /\ new[Len(asked[c]) + 1] = ask
  BY <1>1, <1>2, AppendProperties
<1>4. /\ asked' \in [Clients -> Seq(Ask)]
      /\ asked'[c] = new
      /\ \A d \in Clients : d # c => asked'[d] = asked[d]
  BY <1>1, <1>3 DEF AskedOK
<1> HIDE DEF new
<1>5. \A d \in Clients :
        /\ Len(asked[d]) \in Nat /\ Len(asked'[d]) \in Nat
        /\ \A i \in 1 .. Len(asked[d]) :
             i \in 1 .. Len(asked'[d]) /\ asked'[d][i] = asked[d][i]
  BY <1>2, <1>3, <1>4
<1>6. Number(c) \in 1 .. Len(asked'[c]) /\ asked'[c][Number(c)] = ask
  BY <1>2, <1>3, <1>4 DEF Number
<1>7. \A d \in Clients :
        \A i \in 1 .. Len(asked'[d]) : asked'[d][i] \in Asks[d]
  <2> SUFFICES ASSUME NEW d \in Clients, NEW i \in 1 .. Len(asked'[d])
               PROVE  asked'[d][i] \in Asks[d]
    OBVIOUS
  <2>1. CASE d # c
    BY <2>1, <1>4 DEF AskedOK
  <2>2. CASE d = c /\ i <= Len(asked[c])
    BY <2>2, <1>2, <1>3, <1>4 DEF AskedOK
  <2>3. CASE d = c /\ i = Len(asked[c]) + 1
    BY <2>3, <1>1, <1>3, <1>4
  <2> QED
    BY <2>1, <2>2, <2>3, <1>2, <1>3, <1>4
<1> QED
  BY <1>1, <1>4, <1>5, <1>6, <1>7 DEF AskedOK

\* A server's requests stay its own when another comes.
LEMMA ServersStay ==
  ASSUME AskedOK, NEW c \in Clients, NEW ask, Request(c, ask),
         NEW s, ServerOK(s)
  PROVE  ServerOK(s)'
<1>1. CASE Idle(s)
  BY <1>1 DEF ServerOK, Idle
<1>2. CASE \E i \in Nat : Serves(s, i)
  <2>1. PICK i \in Nat : Serves(s, i)
    BY <1>2
  <2>2. s.client \in Clients
    BY DEF ServerOK, Entry
  <2>3. Serves(s, i)'
    BY <2>1, <2>2, AskedGrows DEF Serves
  <2> QED
    BY <2>3 DEF ServerOK
<1> QED
  BY <1>1, <1>2 DEF ServerOK

\* Reading the cache, or the time, puts nothing into it.
LEMMA ReadKeepsStore ==
  ASSUME StoreOK, NEW k, Cache!Miss(k) \/ Cache!Hit(k) \/ Cache!Tick
  PROVE  StoreOK'
<1>1. CASE Cache!Miss(k)
  BY <1>1 DEF StoreOK, Cache!Miss, Cache!Keep
<1>2. CASE Cache!Hit(k) \/ Cache!Tick
  BY <1>2 DEF StoreOK, Cache!Hit, Cache!Tick
<1> QED
  BY <1>1, <1>2

\* A put stores a response under the key it is given.
LEMMA PutKeepsStore ==
  ASSUME StoreOK, NEW k, NEW v, NEW m, Cache!Put(k, v, m), Named(k, v.to)
  PROVE  StoreOK'
<1>1. PICK K \in SUBSET DOMAIN store :
        store' = [x \in K \cup {k} |->
                   IF x = k THEN [val |-> v, creation_time |-> now,
                                  max_age |-> m]
                   ELSE store[x]]
  BY Zenon DEF Cache!Put
<1>2. \A x \in DOMAIN store' :
        \/ x = k /\ store'[x].val = v
        \/ x \in DOMAIN store /\ store'[x] = store[x]
  BY <1>1
<1>3. \A key, to : Named(key, to) <=> Named(key, to)'
  BY DEF Named
<1> QED
  BY <1>2, <1>3 DEF StoreOK

-----------------------------------------------------------------------------
(* The steps.                                                              *)

\* At the start there are idle servers only, and nothing in the cache.
LEMMA StartKeys == Init => KeysInv
<1> SUFFICES ASSUME Init
             PROVE  KeysInv
  OBVIOUS
<1>1. AskedOK
  BY EmptySeq DEF Init, AskedOK
<1>2. ServersOK
  <2>1. \A c \in Clients : ServerOK(NewServer(c, <<>>, NULL))
    BY EmptySeq DEF ServerOK, Idle, NewServer, Entry
  <2> QED
    BY <2>1, ExchangeAssumption DEF Init, ServersOK
<1>3. StoreOK
  BY DEF Init, StoreOK, Cache!Init
<1> QED
  BY <1>1, <1>2, <1>3 DEF KeysInv

\* After a miss the servers are those there were, one of them perhaps with
\* the new request and its key, or a new one with them.
LEMMA ForwardKeeps ==
  ASSUME Polite, KeysInv, NEW c \in Clients, NEW ask, Request(c, ask),
         ask.method = "GET", ForwardMiss(c, ask)
  PROVE  ServersOK'
<1> DEFINE key == KeyOf(ask)
<1>1. \A s \in servers : ServerOK(s)'
  BY ServersStay DEF KeysInv, ServersOK
<1>2. PICK n \in Nat : /\ n = Number(c) /\ n \in 1 .. Len(asked'[c])
                       /\ asked'[c][n] = ask
  BY AskedGrows DEF KeysInv
<1>3. key \in Keys /\ <<n>> \in Seq(Nat)
  BY AskedGrows DEF Keys, Ask, KeysInv
<1>4. \A new \in Entry :
        new.client = c /\ new.queue = <<n>> /\ new.key = key => ServerOK(new)'
  <2> SUFFICES ASSUME NEW new \in Entry,
                      new.client = c, new.queue = <<n>>, new.key = key
               PROVE  ServerOK(new)'
    OBVIOUS
  <2>1. Serves(new, n)'
    BY <1>2 DEF Serves
  <2> QED
    BY <2>1 DEF ServerOK, Entry, Keys, KeyOf
<1>5. CASE c \notin Intercepted
  <2>1. CASE servers' = servers \cup {NewServer(c, <<n>>, key)}
    <3> DEFINE new == NewServer(c, <<n>>, key)
    <3>1. new \in Entry /\ new.client = c /\ new.queue = <<n>> /\ new.key = key
      BY <1>3 DEF NewServer, Entry
    <3> HIDE DEF new
    <3>2. ServerOK(new)'
      BY <1>4, <3>1
    <3> QED
      BY <1>1, <2>1, <3>2 DEF ServersOK, new
  <2>2. CASE servers' = servers
    BY <1>1, <2>2 DEF ServersOK
  <2> QED
    BY <1>2, <1>5, <2>1, <2>2 DEF ForwardMiss, ForwardPlain
<1>6. CASE c \in Intercepted
  <2>1. PICK s \in servers :
          /\ s.client = c
          /\ servers' = (servers \ {s})
               \cup {[s EXCEPT !.queue = Append(@, n), !.key = key]}
    BY <1>2, <1>6 DEF ForwardMiss, ForwardIntercepted, ServersOf, KeyAfterMiss
  <2>2. Outstanding(c) = {}
    BY <1>6 DEF Polite, Request
  <2>3. s.queue = <<>>
    <3>1. ServerOK(s)
      BY DEF KeysInv, ServersOK
    <3>2. SUFFICES ASSUME NEW i \in Nat, Serves(s, i)
                   PROVE  FALSE
      BY <3>1 DEF ServerOK, Idle
    <3>3. i \in ToSet(s.queue)
      BY <3>2 DEF Serves, ToSet
    <3>4. i \in Outstanding(c)
      BY <2>1, <3>3 DEF Outstanding, ServersOf
    <3> QED
      BY <2>2, <3>4
  <2>4. Append(s.queue, n) = <<n>>
    BY <2>3
  <2>5. s \in Entry
    BY DEF KeysInv, ServersOK, ServerOK
  <2> DEFINE new == [s EXCEPT !.queue = <<n>>, !.key = key]
  <2>6. new \in Entry /\ new.client = c /\ new.queue = <<n>> /\ new.key = key
    <3>1. key \in Keys \cup {NULL}
      BY <1>3
    <3> HIDE DEF key
    <3>2. /\ new \in Entry /\ new.client = s.client
          /\ new.queue = <<n>> /\ new.key = key
      BY <1>3, <2>5, <3>1 DEF Entry
    <3> QED
      BY <2>1, <3>2
  <2>7. [s EXCEPT !.queue = Append(@, n), !.key = key] = new
    BY <2>4, Zenon
  <2> HIDE DEF new
  <2>8. ServerOK(new)'
    BY <1>4, <2>6
  <2> QED
    BY <1>1, <2>1, <2>7, <2>8 DEF ServersOK
<1> QED
  BY <1>5, <1>6

\* A miss forwards the request together with its key.
LEMMA KeysMiss ==
  ASSUME Polite, KeysInv, NEW c \in Clients, NEW ask, Miss(c, ask)
  PROVE  KeysInv'
<1>1. Request(c, ask) /\ ask.method = "GET" /\ ForwardMiss(c, ask)
  BY DEF Miss
<1>2. AskedOK'
  BY <1>1, AskedGrows DEF KeysInv
<1>3. ServersOK'
  BY <1>1, ForwardKeeps
<1>4. StoreOK'
  BY ReadKeepsStore DEF Miss, KeysInv
<1> QED
  BY <1>2, <1>3, <1>4 DEF KeysInv

\* A hit forwards nothing, and may end servers.
LEMMA KeysHit ==
  ASSUME KeysInv, NEW c \in Clients, NEW ask, Hit(c, ask)
  PROVE  KeysInv'
<1>1. Request(c, ask) /\ servers' \subseteq servers
  BY DEF Hit, AfterHit, Disconnect
<1>2. AskedOK'
  BY <1>1, AskedGrows DEF KeysInv
<1>3. ServersOK'
  BY <1>1, ServersStay DEF KeysInv, ServersOK
<1>4. StoreOK'
  BY ReadKeepsStore DEF Hit, KeysInv
<1> QED
  BY <1>2, <1>3, <1>4 DEF KeysInv

\* What is not a GET goes to a server without a key, from plain clients only.
LEMMA KeysOther ==
  ASSUME Polite, KeysInv, NEW c \in Clients, NEW ask, Other(c, ask)
  PROVE  KeysInv'
<1>1. Request(c, ask) /\ ask.method # "GET" /\ store' = store
  BY DEF Other, cache
<1>2. c \notin Intercepted /\ ForwardPlain(c, NULL)
  BY <1>1 DEF Other, Polite, Request
<1>3. AskedOK'
  BY <1>1, AskedGrows DEF KeysInv
<1>4. \A s \in servers : ServerOK(s)'
  BY <1>1, ServersStay DEF KeysInv, ServersOK
<1>5. PICK n \in Nat : n = Number(c) /\ n \in 1 .. Len(asked'[c])
  BY <1>1, AskedGrows DEF KeysInv
<1> DEFINE new == NewServer(c, <<n>>, NULL)
<1>6. ServerOK(new)'
  <2>1. Serves(new, n)'
    BY <1>5 DEF Serves, NewServer
  <2> QED
    BY <2>1 DEF ServerOK, NewServer, Entry
<1>7. ServersOK'
  <2>1. servers' \subseteq servers \cup {new}
    BY <1>2, <1>5 DEF ForwardPlain
  <2> QED
    BY <1>4, <1>6, <2>1 DEF ServersOK
<1>8. StoreOK'
  BY <1>1 DEF KeysInv, StoreOK, Named
<1> QED
  BY <1>3, <1>7, <1>8 DEF KeysInv

\* Nothing asked: the requests of servers that stay are what they were.
LEMMA KeysFewer ==
  ASSUME KeysInv, asked' = asked, StoreOK',
         \A s \in servers' : s \in servers \/ ServerOK(s)'
  PROVE  KeysInv'
<1>1. AskedOK'
  BY DEF KeysInv, AskedOK
<1>2. \A s \in servers : ServerOK(s)'
  BY DEF KeysInv, ServersOK, ServerOK, Serves, Idle
<1> QED
  BY <1>1, <1>2 DEF KeysInv, ServersOK

\* The beginning of a response leaves its server the request and the key.
LEMMA KeysBegins ==
  ASSUME KeysInv, NEW s \in servers, ResponseBegins(s)
  PROVE  KeysInv'
<1>1. /\ s.queue # <<>> /\ asked' = asked /\ store' = store
      /\ servers' = (servers \ {s}) \cup {[s EXCEPT !.part = 1]}
  BY DEF ResponseBegins, cache
<1>2. PICK i \in Nat : Serves(s, i)
  BY <1>1 DEF KeysInv, ServersOK, ServerOK, Idle
<1>3. s \in Entry /\ s.client \in Clients
  BY DEF KeysInv, ServersOK, ServerOK, Entry
<1> DEFINE new == [s EXCEPT !.part = 1]
<1>4. new = [client |-> s.client, queue |-> s.queue, key |-> s.key,
             part |-> 1]
  BY <1>3 DEF Entry
<1> HIDE DEF new
<1>5. Serves(new, i)'
  BY <1>1, <1>2, <1>4 DEF Serves
<1>6. ServerOK(new)'
  BY <1>3, <1>4, <1>5 DEF ServerOK, Entry
<1>7. StoreOK'
  BY <1>1 DEF KeysInv, StoreOK, Named
<1> QED
  BY <1>1, <1>6, <1>7, KeysFewer DEF new

\* The response that completes is that to the one request its server has,
\* whose key the server still has.
LEMMA KeysEnds ==
  ASSUME KeysInv, NEW s \in servers, ResponseEnds(s)
  PROVE  KeysInv'
<1>1. s.part = 1 /\ asked' = asked /\ CachePut(s) /\ AfterResponse(s)
  BY DEF ResponseEnds
<1>2. PICK i \in Nat : Serves(s, i)
  BY <1>1 DEF KeysInv, ServersOK, ServerOK, Idle
<1>3. s \in Entry /\ s.client \in Clients
  BY DEF KeysInv, ServersOK, ServerOK, Entry
<1>4. Head(s.queue) = i /\ Tail(s.queue) = <<>>
  BY <1>2 DEF Serves
<1>5. StoreOK'
  <2>1. CASE UNCHANGED cache
    BY <2>1 DEF KeysInv, StoreOK, Named, cache
  <2>2. CASE s.key # NULL /\ \E empty \in BOOLEAN, max_age \in MaxAges :
               Cache!Put(s.key, [to |-> asked[s.client][i],
                                 empty |-> empty], max_age)
    <3>1. PICK empty \in BOOLEAN, max_age \in MaxAges :
            Cache!Put(s.key, [to |-> asked[s.client][i], empty |-> empty],
                      max_age)
      BY <2>2
    <3>2. Named(s.key, asked[s.client][i])
      BY <1>2, <1>3, <2>2 DEF Named, Serves, KeysInv, AskedOK, Ask
    <3> QED
      BY <3>1, <3>2, PutKeepsStore DEF KeysInv
  <2> QED
    BY <1>1, <1>4, <2>1, <2>2 DEF CachePut
<1>6. \A t \in servers' : t \in servers \/ ServerOK(t)'
  <2> DEFINE new == [s EXCEPT !.queue = Tail(@), !.part = 0]
  <2>1. new \in Entry /\ new.queue = <<>> /\ new.part = 0
    <3>1. [s EXCEPT !.queue = <<>>, !.part = 0] = new
      BY <1>4, Zenon
    <3> HIDE DEF new
    <3>2. LET none == [s EXCEPT !.queue = <<>>, !.part = 0]
          IN  none \in Entry /\ none.queue = <<>> /\ none.part = 0
      BY <1>3, EmptySeq DEF Entry
    <3> QED
      BY <3>1, <3>2, Zenon
  <2>2. servers' \subseteq servers \cup {new}
    BY <1>1 DEF AfterResponse
  <2> HIDE DEF new
  <2>3. ServerOK(new)'
    BY <1>3, <2>1 DEF ServerOK, Idle, Entry
  <2> QED
    BY <2>2, <2>3
<1> QED
  BY <1>1, <1>5, <1>6, KeysFewer

\* Every step of polite clients keeps the keys.
LEMMA KeysStep == ASSUME Polite PROVE KeysInv /\ [Next]_vars => KeysInv'
<1> SUFFICES ASSUME KeysInv, [Next]_vars
             PROVE  KeysInv'
  OBVIOUS
<1>1. CASE \E c \in Clients, ask \in Ask : Miss(c, ask)
  BY <1>1, KeysMiss
<1>2. CASE \E c \in Clients, ask \in Ask : Hit(c, ask)
  BY <1>2, KeysHit
<1>3. CASE \E c \in Clients, ask \in Ask : Other(c, ask)
  BY <1>3, KeysOther
<1>4. CASE \E s \in servers : ResponseBegins(s)
  BY <1>4, KeysBegins
<1>5. CASE \E s \in servers : ResponseEnds(s)
  BY <1>5, KeysEnds
<1>6. CASE \/ \E s \in servers : ServerCloses(s)
           \/ \E c \in Clients : ClientLeaves(c)
           \/ Finished \/ UNCHANGED vars
  <2>1. asked' = asked /\ store' = store /\ servers' \subseteq servers
    BY <1>6 DEF ServerCloses, ClientLeaves, Disconnect, Finished, vars, cache
  <2>2. StoreOK'
    BY <2>1 DEF KeysInv, StoreOK, Named
  <2> QED
    BY <2>1, <2>2, KeysFewer
<1>7. CASE Tick
  <2>1. asked' = asked /\ servers' = servers /\ Cache!Tick
    BY <1>7 DEF Tick
  <2>2. StoreOK'
    BY <2>1, ReadKeepsStore DEF KeysInv
  <2> QED
    BY <2>1, <2>2, KeysFewer
<1> QED
  BY <1>1, <1>2, <1>3, <1>4, <1>5, <1>6, <1>7 DEF Next

\* As long as intercepted clients wait for their answers and ask by GET only,
\* a response is cached under the key of the request it answers, although
\* handle_server_response reads the key long after it was written.
THEOREM KeysAreOwn ==
  ASSUME Polite
  PROVE  Spec => []OwnKey
<1>1. KeysInv => OwnKey
  BY DEF KeysInv, StoreOK, Named, OwnKey
<1> QED
  BY <1>1, StartKeys, KeysStep, PTL DEF Spec

-----------------------------------------------------------------------------
(* What the clients are sent.                                              *)

Line == [request : Nat, part : Parts, to : Ask]

\* Every part of a response in w answers the request of a that it names.
Answers(line, a) ==
  /\ line.request \in 1 .. Len(a)
  /\ line.to = a[line.request] \/ SameGet(line.to, a[line.request])

Matches(w, a) ==
  w \in Seq(Line) /\ \A j \in 1 .. Len(w) : Answers(w[j], a)

WrittenOK ==
  /\ written \in [Clients -> Seq(Line)]
  /\ \A c \in Clients : Matches(written[c], asked[c])

AnswersInv == KeysInv /\ WrittenOK

\* Written one behind the other, matching parts match.
LEMMA MatchesBoth ==
  ASSUME NEW a, NEW v, NEW w, Matches(v, a), Matches(w, a)
  PROVE  Matches(v \o w, a)
<1>1. v \in Seq(Line) /\ w \in Seq(Line) /\ Len(v) \in Nat /\ Len(w) \in Nat
  BY LenProperties DEF Matches
<1>2. /\ v \o w \in Seq(Line) /\ Len(v \o w) = Len(v) + Len(w)
      /\ \A i \in 1 .. Len(v) + Len(w) :
           (v \o w)[i] = IF i <= Len(v) THEN v[i] ELSE w[i - Len(v)]
  BY <1>1, ConcatProperties
<1> SUFFICES ASSUME NEW j \in 1 .. Len(v \o w)
             PROVE  Answers((v \o w)[j], a)
  BY <1>2 DEF Matches
<1>3. CASE j <= Len(v)
  BY <1>1, <1>2, <1>3 DEF Matches
<1>4. CASE ~(j <= Len(v))
  <2>1. j - Len(v) \in 1 .. Len(w)
    BY <1>1, <1>2, <1>4
  <2> QED
    BY <1>1, <1>2, <1>4, <2>1 DEF Matches
<1> QED
  BY <1>3, <1>4

\* What matches what has been asked still does when more is asked.
LEMMA MatchesMore ==
  ASSUME NEW a, NEW b, NEW w, Matches(w, a),
         \A i \in 1 .. Len(a) : i \in 1 .. Len(b) /\ b[i] = a[i]
  PROVE  Matches(w, b)
BY DEF Matches, Answers

\* A request changes nothing in the answers to those before it.
LEMMA WrittenStays ==
  ASSUME AnswersInv, NEW c \in Clients, NEW ask, Request(c, ask)
  PROVE  \A d \in Clients : Matches(written[d], asked'[d])
<1> SUFFICES ASSUME NEW d \in Clients
             PROVE  Matches(written[d], asked'[d])
  OBVIOUS
<1>1. \A i \in 1 .. Len(asked[d]) :
        i \in 1 .. Len(asked'[d]) /\ asked'[d][i] = asked[d][i]
  BY AskedGrows DEF AnswersInv, KeysInv
<1> QED
  BY <1>1, MatchesMore DEF AnswersInv, WrittenOK

\* handle_get_request writes what was put under the key of the request: a
\* response to a GET of the same url from the same host.
LEMMA HitAnswers ==
  ASSUME AnswersInv, NEW c \in Clients, NEW ask, Hit(c, ask)
  PROVE  WrittenOK'
<1> DEFINE key == KeyOf(ask)
<1>1. /\ Request(c, ask) /\ ask.method = "GET"
      /\ key \in DOMAIN store /\ reply'.val = store[key].val
      /\ written' = [written EXCEPT ![c] =
           @ \o [p \in Parts |-> Part(Number(c), p, reply'.val.to)]]
  BY DEF Hit, Cache!Hit, WriteHit
<1>2. /\ ask \in Asks[c] /\ ask \in Ask
      /\ Number(c) \in 1 .. Len(asked'[c]) /\ Number(c) \in Nat
      /\ asked'[c][Number(c)] = ask
  BY <1>1, AskedGrows DEF AnswersInv, KeysInv, Ask
<1> DEFINE to == store[key].val.to
<1>3. to \in Ask /\ SameGet(to, ask)
  BY <1>1 DEF AnswersInv, KeysInv, StoreOK, Named, SameGet, KeyOf
<1> DEFINE new == [p \in Parts |-> Part(Number(c), p, to)]
<1>4. Matches(new, asked'[c])
  <2>1. Parts = 1 .. 2
    BY DEF Parts
  <2>2. \A p \in Parts : new[p] \in Line /\ new[p].request = Number(c)
                         /\ new[p].to = to
    BY <1>2, <1>3 DEF Part, Line
  <2>3. new \in Seq(Line) /\ Len(new) = 2
    BY <2>1, <2>2
  <2> HIDE DEF new
  <2> QED
    BY <1>2, <1>3, <2>1, <2>2, <2>3 DEF Matches, Answers
<1>5. \A d \in Clients : Matches(written[d], asked'[d])
  BY <1>1, WrittenStays
<1> HIDE DEF new
<1>6. Matches(written[c] \o new, asked'[c])
  BY <1>4, <1>5, MatchesBoth
<1>7. /\ written' \in [Clients -> Seq(Line)]
      /\ written'[c] = written[c] \o new
      /\ \A d \in Clients : d # c => written'[d] = written[d]
  <2>1. written' = [written EXCEPT ![c] = written[c] \o new]
    BY <1>1 DEF new
  <2>2. written[c] \o new \in Seq(Line)
    BY <1>6 DEF Matches
  <2> QED
    BY <2>1, <2>2 DEF AnswersInv, WrittenOK
<1> QED
  BY <1>5, <1>6, <1>7 DEF WrittenOK

\* fast_forward passes on a part of the response to the request its server
\* was opened or used for.
LEMMA ForwardAnswers ==
  ASSUME AnswersInv, NEW s \in servers, s.queue # <<>> \/ s.part = 1,
         NEW p \in Parts, FastForward(s, p), asked' = asked
  PROVE  WrittenOK'
<1>1. PICK i \in Nat : Serves(s, i)
  BY DEF AnswersInv, KeysInv, ServersOK, ServerOK, Idle
<1>2. s.client \in Clients
  BY DEF AnswersInv, KeysInv, ServersOK, ServerOK, Entry
<1> DEFINE c == s.client
           line == Part(i, p, asked[c][i])
<1>3. Head(s.queue) = i /\ i \in 1 .. Len(asked[c])
  BY <1>1 DEF Serves
<1>4. asked[c][i] \in Ask
  BY <1>2, <1>3, ElementOfSeq DEF AnswersInv, KeysInv, AskedOK
<1>5. written' = [written EXCEPT ![c] = Append(@, line)]
  BY <1>3 DEF FastForward
<1>6. line \in Line /\ line.request = i /\ line.to = asked[c][i]
  BY <1>4 DEF Part, Line
<1> HIDE DEF line, c
<1>7. /\ written[c] \in Seq(Line) /\ Matches(written[c], asked[c])
      /\ Len(written[c]) \in Nat
  BY <1>2, LenProperties DEF AnswersInv, WrittenOK, c
<1>8. /\ Append(written[c], line) \in Seq(Line)
      /\ Len(Append(written[c], line)) = Len(written[c]) + 1
      /\ \A j \in 1 .. Len(written[c]) :
           Append(written[c], line)[j] = written[c][j]
      /\ Append(written[c], line)[Len(written[c]) + 1] = line
  BY <1>6, <1>7, AppendProperties
<1>9. Matches(Append(written[c], line), asked[c])
  <2> SUFFICES ASSUME NEW j \in 1 .. Len(written[c]) + 1
               PROVE  Answers(Append(written[c], line)[j], asked[c])
    BY <1>8 DEF Matches
  <2>1. CASE j \in 1 .. Len(written[c])
    BY <1>7, <1>8, <2>1 DEF Matches
  <2>2. CASE j = Len(written[c]) + 1
    BY <1>3, <1>6, <1>8, <2>2 DEF Answers
  <2> QED
    BY <1>7, <2>1, <2>2
<1>10. /\ written' \in [Clients -> Seq(Line)]
       /\ written'[c] = Append(written[c], line)
       /\ \A d \in Clients : d # c => written'[d] = written[d]
  BY <1>2, <1>5, <1>8 DEF AnswersInv, WrittenOK, c
<1> QED
  BY <1>9, <1>10 DEF AnswersInv, WrittenOK

\* At the start nothing has been written.
LEMMA StartAnswers == Init => AnswersInv
<1>1. \A a : Matches(<<>>, a)
  BY EmptySeq DEF Matches
<1>2. Init => WrittenOK
  BY <1>1, EmptySeq DEF Init, WrittenOK
<1> QED
  BY <1>2, StartKeys DEF AnswersInv

\* Every step keeps the answers, if the clients are polite.
LEMMA AnswersStep ==
  ASSUME Polite
  PROVE  AnswersInv /\ [Next]_vars => AnswersInv'
<1> SUFFICES ASSUME AnswersInv, [Next]_vars
             PROVE  AnswersInv'
  OBVIOUS
<1>1. KeysInv'
  BY KeysStep DEF AnswersInv
<1>2. CASE \E c \in Clients, ask \in Ask : Miss(c, ask) \/ Other(c, ask)
  <2>1. PICK c \in Clients, ask \in Ask :
          Request(c, ask) /\ written' = written
    BY <1>2 DEF Miss, Other
  <2>2. WrittenOK'
    BY <2>1, WrittenStays DEF AnswersInv, WrittenOK
  <2> QED
    BY <1>1, <2>2 DEF AnswersInv
<1>3. CASE \E c \in Clients, ask \in Ask : Hit(c, ask)
  BY <1>1, <1>3, HitAnswers DEF AnswersInv
<1>4. CASE \E s \in servers : ResponseBegins(s) \/ ResponseEnds(s)
  <2>1. PICK s \in servers, p \in Parts :
          /\ s.queue # <<>> \/ s.part = 1
          /\ FastForward(s, p) /\ asked' = asked
    BY <1>4 DEF ResponseBegins, ResponseEnds, Parts
  <2> QED
    BY <1>1, <2>1, ForwardAnswers DEF AnswersInv
<1>5. CASE \/ \E s \in servers : ServerCloses(s)
           \/ \E c \in Clients : ClientLeaves(c)
           \/ Tick \/ Finished \/ UNCHANGED vars
  <2>1. asked' = asked /\ written' = written
    BY <1>5 DEF ServerCloses, ClientLeaves, Tick, Finished, vars
  <2> QED
    BY <1>1, <2>1 DEF AnswersInv, WrittenOK
<1> QED
  BY <1>2, <1>3, <1>4, <1>5 DEF Next

\* Under the same condition whatever is written to a client, from a server or
\* from the cache, was sent in answer to its request or to a GET of the same
\* url from the same host.
THEOREM AnswersAreOwn ==
  ASSUME Polite
  PROVE  Spec => []AnswersMatch
<1>1. AnswersInv => AnswersMatch
  <2> SUFFICES ASSUME AnswersInv, NEW c \in Clients,
                      NEW j \in DOMAIN written[c]
               PROVE  LET ask == asked[c][written[c][j].request]
                          to == written[c][j].to
                      IN  to = ask \/ SameGet(to, ask)
    BY DEF AnswersMatch
  <2>1. written[c] \in Seq(Line) /\ Matches(written[c], asked[c])
    BY DEF AnswersInv, WrittenOK
  <2>2. j \in 1 .. Len(written[c])
    BY <2>1, LenProperties
  <2> QED
    BY <2>1, <2>2 DEF Matches, Answers
<1> QED
  BY <1>1, StartAnswers, AnswersStep, PTL DEF Spec

\* Without interception both hold whatever clients ask for and however they
\* pipeline it, although a key has no port in it unless the url has: every
\* server of a plain client has one request and the key of that request.
THEOREM PlainAnswersAreOwn ==
  ASSUME Intercepted = {}
  PROVE  Spec => [](OwnKey /\ AnswersMatch)
<1>1. Polite
  BY DEF Polite
<1> QED
  BY <1>1, KeysAreOwn, AnswersAreOwn, PTL
=============================================================================
