----------------------------- MODULE AnswersProofs -----------------------------
(***************************************************************************)
(* Proofs that no request is answered twice or forgotten, and that a       *)
(* client which waits for each answer gets whole answers in the order of   *)
(* its requests, for any number of clients, requests, urls and places in   *)
(* the cache.  Nothing is asked of what the keys name.                     *)
(***************************************************************************)
EXTENDS ExchangeProofs

-----------------------------------------------------------------------------
(* The invariant.                                                          *)

\* Requests are numbered from 1.
NumbersOf(c) == 1 .. Len(asked[c])

\* A server has different requests of its client, which is connected; what
\* has begun answers one of them.  A plain server has exactly one.
Serving(s) ==
  /\ s \in Entry /\ s.client \in up
  /\ \A j \in 1 .. Len(s.queue) : s.queue[j] \in NumbersOf(s.client)
  /\ \A j, k \in 1 .. Len(s.queue) : s.queue[j] = s.queue[k] => j = k
  /\ s.part = 1 => s.queue # <<>>
  /\ s.client \notin Intercepted => Len(s.queue) = 1

\* What is written names a request that was made, and so does what is lost.
Numbered(c) ==
  /\ Len(asked[c]) <= MaxRequests
  /\ written[c] \in Seq(Line)
  /\ \A j \in 1 .. Len(written[c]) : written[c][j].request \in NumbersOf(c)
  /\ lost[c] \subseteq NumbersOf(c)

\* Every value in the cache is a response to some request.
Held == \A key \in DOMAIN store : store[key].val \in Vals

\* The types, of servers and of what is written.
Shape ==
  /\ up \subseteq Clients /\ AskedOK
  /\ written \in [Clients -> Seq(Line)]
  /\ lost \in [Clients -> SUBSET Nat]
  /\ \A s \in servers : Serving(s)
  /\ \A c \in Clients : Numbered(c)
  /\ Held

\* Request i of c is with a server, answered, or lost.
InPlace(c, i) ==
  Placed(i, PlacesIn(written[c], i, 1), PlacesIn(written[c], i, 2), lost[c],
         With(c, i))

InPlaces == \A c \in Clients : \A i \in NumbersOf(c) : InPlace(c, i)

\* What is known of every request in every state.
PlaceInv == Shape /\ InPlaces

-----------------------------------------------------------------------------
(* How a request changes its place.                                        *)

\* What is with a server when that goes is lost.
LEMMA GoesAway ==
  ASSUME NEW i, NEW begun, NEW ended, NEW gone, NEW with,
         Placed(i, begun, ended, gone, with),
         NEW more, i \in more <=> i \in gone \/ with # {}
  PROVE  Placed(i, begun, ended, more, {})
BY DEF Placed

\* It stays what it is when other requests are lost.
LEMMA StaysAway ==
  ASSUME NEW i, NEW begun, NEW ended, NEW gone, NEW with,
         Placed(i, begun, ended, gone, with),
         NEW more, i \in more <=> i \in gone
  PROVE  Placed(i, begun, ended, more, with)
BY DEF Placed

\* It stays with a server that is answering the same, as far as it goes.
LEMMA StaysWith ==
  ASSUME NEW i, NEW begun, NEW ended, NEW gone, NEW s, NEW t,
         Placed(i, begun, ended, gone, {s}),
         (t.part = 1 /\ Head(t.queue) = i) <=> (s.part = 1 /\ Head(s.queue) = i)
  PROVE  Placed(i, begun, ended, gone, {t})
BY DEF Placed

\* It is with the server that it has been forwarded to.
LEMMA ComesTo ==
  ASSUME NEW i, NEW gone, i \notin gone, NEW s,
         ~(s.part = 1 /\ Head(s.queue) = i)
  PROVE  Placed(i, {}, {}, gone, {s})
BY DEF Placed

\* The beginning of its answer is the first thing written for it.
LEMMA Begins ==
  ASSUME NEW i, NEW begun, NEW ended, NEW gone, NEW s, NEW t,
         Placed(i, begun, ended, gone, {s}),
         s.part = 0, t.part = 1, Head(t.queue) = i, NEW m
  PROVE  Placed(i, begun \cup {m}, ended, gone, {t})
BY DEF Placed

\* The end of its answer is the last thing written for it.
LEMMA Ends ==
  ASSUME NEW i, NEW begun, NEW ended, NEW gone, NEW s,
         Placed(i, begun, ended, gone, {s}),
         s.part = 1, Head(s.queue) = i, NEW m, \A j \in begun : j < m
  PROVE  Placed(i, begun, ended \cup {m}, gone, {})
<1>1. begun # {} /\ ended = {} /\ i \notin gone
  BY DEF Placed
<1> QED
  BY <1>1 DEF Placed

\* Requests of plain clients that cannot be forwarded are lost.
LEMMA NeverComes ==
  ASSUME NEW i, NEW gone, i \in gone
  PROVE  Placed(i, {}, {}, gone, {})
BY DEF Placed

\* A hit is answered at once.
LEMMA AnsweredAtOnce ==
  ASSUME NEW i, NEW gone, i \notin gone, NEW m \in Nat
  PROVE  Placed(i, {m + 1}, {m + 2}, gone, {})
BY DEF Placed

-----------------------------------------------------------------------------
(* What the parts of a step change.                                        *)

\* A written line is at one place more; the others are where they were.
LEMMA LineAdded ==
  ASSUME NEW w \in Seq(Line), NEW line \in Line
  PROVE  LET m == Len(w) + 1
             new == Append(w, line)
         IN  /\ Len(w) \in Nat /\ new \in Seq(Line)
             /\ Len(new) = m /\ new[m] = line
             /\ \A j \in 1 .. Len(w) : new[j] = w[j]
             /\ \A i, p : PlacesIn(new, i, p) = PlacesIn(w, i, p) \cup
                  IF line.request = i /\ line.part = p THEN {m} ELSE {}
<1> DEFINE m == Len(w) + 1
           new == Append(w, line)
<1>1. /\ new \in Seq(Line) /\ Len(new) = m /\ new[m] = line
      /\ \A j \in 1 .. Len(w) : new[j] = w[j]
      /\ Len(w) \in Nat /\ DOMAIN w = 1 .. Len(w)
      /\ DOMAIN new = 1 .. Len(new)
  BY AppendProperties, LenProperties
<1> HIDE DEF new
<1>2. ASSUME NEW i, NEW p
      PROVE  PlacesIn(new, i, p) = PlacesIn(w, i, p) \cup
               IF line.request = i /\ line.part = p THEN {m} ELSE {}
  <2>1. 1 .. m = 1 .. Len(w) \cup {m}
    BY <1>1
  <2> QED
    BY <1>1, <2>1 DEF PlacesIn
<1> QED
  BY <1>1, <1>2 DEF new

\* Nothing is written for a request that has not been made.
LEMMA NothingWritten ==
  ASSUME NEW c \in Clients, Numbered(c),
         NEW i, i \notin NumbersOf(c), NEW p
  PROVE  PlacesIn(written[c], i, p) = {}
<1>1. DOMAIN written[c] = 1 .. Len(written[c])
  BY LenProperties DEF Numbered
<1> QED
  BY <1>1 DEF PlacesIn, Numbered

\* No server has it.
LEMMA NobodyHas ==
  ASSUME \A s \in servers : Serving(s),
         NEW c \in Clients, NEW i, i \notin NumbersOf(c)
  PROVE  With(c, i) = {}
<1> SUFFICES ASSUME NEW s \in servers, s.client = c, i \in ToSet(s.queue)
             PROVE  FALSE
  BY DEF With, ServersOf
<1>1. s.queue \in Seq(Nat)
  BY DEF Serving, Entry
<1>2. PICK j \in 1 .. Len(s.queue) : s.queue[j] = i
  BY <1>1, LenProperties DEF ToSet
<1> QED
  BY <1>2 DEF Serving

\* A server in the place of another.
LEMMA Exchanged ==
  ASSUME NEW s \in servers, NEW t, t.client = s.client,
         servers' = (servers \ {s}) \cup {t}, NEW c, NEW i
  PROVE  With(c, i)' = (With(c, i) \ {s}) \cup
           IF t.client = c /\ i \in ToSet(t.queue) THEN {t} ELSE {}
BY DEF With, ServersOf

\* A server more.
LEMMA Added ==
  ASSUME NEW t, servers' = servers \cup {t}, NEW c, NEW i
  PROVE  With(c, i)' = With(c, i) \cup
           IF t.client = c /\ i \in ToSet(t.queue) THEN {t} ELSE {}
BY DEF With, ServersOf

\* A server less.
LEMMA Removed ==
  ASSUME NEW s \in servers, servers' = servers \ {s}, NEW c, NEW i
  PROVE  With(c, i)' = With(c, i) \ {s}
BY DEF With, ServersOf

\* What goes with disconnect_client was with the client's servers.
LEMMA LeavesNothing ==
  ASSUME lost \in [Clients -> SUBSET Nat],
         NEW c \in Clients, Disconnect(c), NEW d \in Clients, NEW i
  PROVE  /\ With(d, i)' = IF d = c THEN {} ELSE With(d, i)
         /\ i \in lost'[d] <=> i \in lost[d] \/ (d = c /\ With(c, i) # {})
<1>1. servers' = servers \ ServersOf(c)
      /\ lost' = [lost EXCEPT ![c] = @ \cup Outstanding(c)]
  BY DEF Disconnect, Loses
<1>2. With(d, i)' = IF d = c THEN {} ELSE With(d, i)
  BY <1>1 DEF With, ServersOf
<1>3. i \in Outstanding(c) <=> With(c, i) # {}
  BY DEF Outstanding, With, ServersOf
<1>4. lost'[d] = IF d = c THEN lost[d] \cup Outstanding(c) ELSE lost[d]
  BY <1>1
<1> QED
  BY <1>2, <1>3, <1>4

\* What is lost, is.
LEMMA LostGrows ==
  ASSUME lost \in [Clients -> SUBSET Nat],
         NEW c \in Clients, NEW R \in SUBSET Nat, Loses(c, R)
  PROVE  /\ lost' \in [Clients -> SUBSET Nat]
         /\ \A d \in Clients :
              lost'[d] = IF d = c THEN lost[d] \cup R ELSE lost[d]
BY DEF Loses

\* A new request has the next number.
LEMMA NumbersGrow ==
  ASSUME AskedOK, NEW c \in Clients, NEW ask, Request(c, ask)
  PROVE  /\ AskedOK'
         /\ Number(c) \in Nat /\ Number(c) \notin NumbersOf(c)
         /\ Len(asked'[c]) = Number(c) /\ Number(c) <= MaxRequests
         /\ \A d \in Clients :
              /\ NumbersOf(d) \subseteq Nat
              /\ NumbersOf(d)' =
                   NumbersOf(d) \cup IF d = c THEN {Number(c)} ELSE {}
              /\ d # c => Len(asked'[d]) = Len(asked[d])
<1>1. AskedOK'
  BY AskedGrows
<1>2. \A d \in Clients : asked[d] \in Seq(Ask) /\ Len(asked[d]) \in Nat
  BY LenProperties DEF AskedOK
<1>3. ask \in Ask /\ asked' = [asked EXCEPT ![c] = Append(@, ask)]
      /\ Len(asked[c]) < MaxRequests
  BY DEF Request, Ask
<1>4. Len(Append(asked[c], ask)) = Len(asked[c]) + 1
  BY <1>2, <1>3, AppendProperties
<1>5. \A d \in Clients :
        Len(asked'[d]) = IF d = c THEN Len(asked[c]) + 1 ELSE Len(asked[d])
  <2>1. \A d \in Clients :
          asked'[d] = IF d = c THEN Append(asked[c], ask) ELSE asked[d]
    BY <1>3 DEF AskedOK
  <2> QED
    BY <1>4, <2>1
<1>6. MaxRequests \in Nat
  BY ExchangeAssumption
<1> QED
  BY <1>1, <1>2, <1>3, <1>5, <1>6 DEF Number, NumbersOf

\* A server goes on having requests of its client when one more is made.
LEMMA ServingMore ==
  ASSUME NEW s, Serving(s), s.client \in up',
         NumbersOf(s.client) \subseteq NumbersOf(s.client)'
  PROVE  Serving(s)'
BY DEF Serving

\* What is written and lost names requests that were made also when more are.
LEMMA NumberedMore ==
  ASSUME NEW d \in Clients, Numbered(d),
         NumbersOf(d) \subseteq NumbersOf(d)', Len(asked'[d]) <= MaxRequests,
         written'[d] = written[d], lost'[d] \subseteq NumbersOf(d)'
  PROVE  Numbered(d)'
BY DEF Numbered

\* Reading the cache changes no value.
LEMMA ReadHolds ==
  ASSUME Held, NEW k, Cache!Miss(k) \/ Cache!Hit(k) \/ Cache!Tick
  PROVE  Held'
<1>1. CASE Cache!Miss(k)
  BY <1>1 DEF Held, Cache!Miss, Cache!Keep
<1>2. CASE Cache!Hit(k) \/ Cache!Tick
  BY <1>2 DEF Held, Cache!Hit, Cache!Tick
<1> QED
  BY <1>1, <1>2

\* A put changes one.
LEMMA PutHolds ==
  ASSUME Held, NEW k, NEW v \in Vals, NEW m, Cache!Put(k, v, m)
  PROVE  Held'
<1>1. PICK K \in SUBSET DOMAIN store :
        store' = [x \in K \cup {k} |->
                   IF x = k THEN [val |-> v, creation_time |-> now,
                                  max_age |-> m]
                   ELSE store[x]]
  BY Zenon DEF Cache!Put
<1>2. \A x \in DOMAIN store' :
        \/ x = k /\ store'[x].val = v
        \/ x \in DOMAIN store /\ store'[x] = store[x]
  BY <1>1
<1> QED
  BY <1>2 DEF Held

-----------------------------------------------------------------------------
(* The steps.                                                              *)

\* At the start nothing has been asked.
LEMMA StartPlaces == Init => PlaceInv
<1> SUFFICES ASSUME Init
             PROVE  PlaceInv
  OBVIOUS
<1>1. \A c \in Clients : NumbersOf(c) = {}
  BY DEF Init, NumbersOf
<1>2. AskedOK /\ ServersOK
  BY StartKeys DEF KeysInv
<1>3. \A s \in servers : Serving(s)
  <2>1. \A s \in servers : /\ s.client \in Intercepted
                           /\ s.queue = <<>> /\ s.part = 0
    BY DEF Init, NewServer
  <2>2. \A s \in servers : s \in Entry /\ s.client \in up
    BY <1>2, <2>1 DEF ServersOK, ServerOK, Entry, Init
  <2> QED
    BY <2>1, <2>2 DEF Serving
<1>4. \A c \in Clients : Numbered(c)
  BY <1>1, EmptySeq, ExchangeAssumption DEF Init, Numbered
<1>5. Held
  BY DEF Init, Held, Cache!Init
<1>6. /\ up \subseteq Clients /\ written \in [Clients -> Seq(Line)]
      /\ lost \in [Clients -> SUBSET Nat]
  BY EmptySeq DEF Init
<1> QED
  BY <1>1, <1>2, <1>3, <1>4, <1>5, <1>6 DEF PlaceInv, Shape, InPlaces

\* A request that has just been made is nowhere yet.
LEMMA NewIsNowhere ==
  ASSUME PlaceInv, NEW c \in Clients, NEW ask, Request(c, ask), NEW p
  PROVE  /\ PlacesIn(written[c], Number(c), p) = {}
         /\ Number(c) \notin lost[c] /\ With(c, Number(c)) = {}
<1>1. Number(c) \notin NumbersOf(c)
  BY NumbersGrow DEF PlaceInv, Shape
<1>2. Numbered(c)
  BY DEF PlaceInv, Shape
<1> QED
  BY <1>1, <1>2, NothingWritten, NobodyHas DEF PlaceInv, Shape, Numbered

\* The shape after a request that is not answered at once.
LEMMA ForwardedShape ==
  ASSUME PlaceInv, NEW c \in Clients, NEW ask, Request(c, ask),
         up' = up, written' = written, Held',
         lost' = lost \/ Loses(c, {Number(c)}),
         \A s \in servers' : s \in servers \/ Serving(s)'
  PROVE  Shape'
<1>1. Shape
  BY DEF PlaceInv
<1>2. /\ AskedOK' /\ Number(c) \in Nat
      /\ Len(asked'[c]) = Number(c) /\ Number(c) <= MaxRequests
      /\ \A d \in Clients :
           /\ NumbersOf(d)' =
                NumbersOf(d) \cup IF d = c THEN {Number(c)} ELSE {}
           /\ d # c => Len(asked'[d]) = Len(asked[d])
  BY <1>1, NumbersGrow DEF Shape
<1>3. /\ lost' \in [Clients -> SUBSET Nat]
      /\ \A d \in Clients :
           lost'[d] \subseteq lost[d] \cup IF d = c THEN {Number(c)} ELSE {}
  BY <1>1, <1>2, LostGrows DEF Shape
<1>4. \A s \in servers' : Serving(s)'
  <2> SUFFICES ASSUME NEW s \in servers
               PROVE  Serving(s)'
    OBVIOUS
  <2>1. Serving(s) /\ s.client \in Clients
    BY <1>1 DEF Shape, Serving, Entry
  <2>2. s.client \in up'
    BY <2>1 DEF Serving
  <2> QED
    BY <1>2, <2>1, <2>2, ServingMore
<1>5. \A d \in Clients : Numbered(d)'
  <2> SUFFICES ASSUME NEW d \in Clients
               PROVE  Numbered(d)'
    OBVIOUS
  <2>1. Numbered(d)
    BY <1>1 DEF Shape
  <2>2. Len(asked'[d]) <= MaxRequests
    BY <1>2, <2>1 DEF Numbered
  <2>3. lost'[d] \subseteq NumbersOf(d)'
    BY <1>2, <1>3, <2>1 DEF Numbered
  <2> QED
    BY <1>2, <2>1, <2>2, <2>3, NumberedMore
<1> QED
  BY <1>1, <1>2, <1>3, <1>4, <1>5 DEF Shape

\* A plain request is with its own server, or lost.
LEMMA PlainPlaces ==
  ASSUME PlaceInv, NEW c \in Clients \ Intercepted, NEW ask, Request(c, ask),
         NEW key \in Keys \cup {NULL}, ForwardPlain(c, key),
         up' = up, written' = written, Held'
  PROVE  PlaceInv'
<1>1. PICK n \in Nat : n = Number(c)
  BY NumbersGrow DEF PlaceInv, Shape
<1> DEFINE new == NewServer(c, <<n>>, key)
<1>2. Shape /\ InPlaces /\ c \in up
  BY DEF PlaceInv, Request
<1>3. /\ n \in Nat /\ n \notin NumbersOf(c)
      /\ \A d \in Clients :
           /\ NumbersOf(d) \subseteq Nat
           /\ NumbersOf(d)' = NumbersOf(d) \cup IF d = c THEN {n} ELSE {}
  BY <1>1, <1>2, NumbersGrow DEF Shape
<1>4. \/ servers' = servers \cup {new} /\ lost' = lost
      \/ Loses(c, {n}) /\ servers' = servers
  BY <1>1 DEF ForwardPlain
<1>5. /\ Len(<<n>>) = 1 /\ <<n>>[1] = n /\ Head(<<n>>) = n /\ <<n>> # <<>>
      /\ ToSet(<<n>>) = {n} /\ <<n>> \in Seq(Nat)
  BY <1>3 DEF ToSet
<1>6. /\ new \in Entry /\ new.client = c /\ new.queue = <<n>>
      /\ new.part = 0
  BY <1>5 DEF NewServer, Entry
<1> HIDE DEF new
<1>7. Serving(new)'
  <2>1. /\ new \in Entry /\ new.client \in up' /\ n \in NumbersOf(c)'
        /\ Len(new.queue) = 1 /\ new.queue[1] = n
    BY <1>2, <1>3, <1>5, <1>6
  <2> QED
    BY <1>6, <2>1 DEF Serving, Entry, Keys, KeyOf
<1>8. Shape'
  <2>1. \A s \in servers' : s \in servers \/ Serving(s)'
    BY <1>4, <1>7
  <2> QED
    BY <1>1, <1>4, <2>1, ForwardedShape
<1>9. ASSUME NEW d \in Clients, NEW i \in NumbersOf(d)'
      PROVE  InPlace(d, i)'
  <2>1. \A p : PlacesIn(written[d], i, p)' = PlacesIn(written[d], i, p)
    BY DEF PlacesIn
  <2>2. CASE d = c /\ i = n
    <3>1. /\ \A p : PlacesIn(written[d], i, p) = {}
          /\ i \notin lost[d] /\ With(d, i) = {}
      BY <1>1, <2>2, NewIsNowhere
    <3>2. CASE servers' = servers \cup {new} /\ lost' = lost
      <4>1. With(d, i)' = {new}
        BY <1>5, <1>6, <2>2, <3>1, <3>2, Added
      <4>2. Placed(i, {}, {}, lost'[d], {new})
        BY <1>6, <3>1, <3>2, ComesTo
      <4> QED
        BY <2>1, <3>1, <4>1, <4>2 DEF InPlace
    <3>3. CASE Loses(c, {n}) /\ servers' = servers
      <4>1. With(d, i)' = {}
        BY <3>1, <3>3 DEF With, ServersOf
      <4>2. i \in lost'[d]
        <5>1. {n} \in SUBSET Nat
          OBVIOUS
        <5>2. lost'[c] = lost[c] \cup {n}
          BY <1>2, <3>3, <5>1, LostGrows DEF Shape
        <5> QED
          BY <2>2, <5>2
      <4>3. Placed(i, {}, {}, lost'[d], {})
        BY <4>2, NeverComes
      <4> QED
        BY <2>1, <3>1, <4>1, <4>3 DEF InPlace
    <3> QED
      BY <1>4, <3>2, <3>3
  <2>3. CASE ~(d = c /\ i = n)
    <3>1. i \in NumbersOf(d) /\ InPlace(d, i)
      BY <1>2, <1>3, <2>3 DEF InPlaces
    <3>2. With(d, i)' = With(d, i)
      <4>1. CASE servers' = servers
        BY <4>1 DEF With, ServersOf
      <4>2. CASE servers' = servers \cup {new}
        <5>1. With(d, i)' = With(d, i) \cup
                IF new.client = d /\ i \in ToSet(new.queue) THEN {new} ELSE {}
          BY <4>2, Added
        <5> QED
          BY <1>5, <1>6, <2>3, <5>1
      <4> QED
        BY <1>4, <4>1, <4>2
    <3>3. i \in lost'[d] <=> i \in lost[d]
      BY <1>2, <1>3, <1>4, <2>3, LostGrows DEF Shape
    <3> QED
      BY <2>1, <3>1, <3>2, <3>3, StaysAway DEF InPlace
  <2> QED
    BY <2>2, <2>3
<1> QED
  BY <1>8, <1>9 DEF PlaceInv, InPlaces

\* An intercepted request is with the server of its client, behind the others.
LEMMA InterceptedPlaces ==
  ASSUME PlaceInv, NEW c \in Clients, NEW ask, Request(c, ask),
         NEW key \in Keys \cup {NULL}, NEW s \in ServersOf(c),
         c \in Intercepted, ForwardIntercepted(s, key),
         up' = up, written' = written, Held'
  PROVE  PlaceInv'
<1>1. PICK n \in Nat : n = Number(c)
  BY NumbersGrow DEF PlaceInv, Shape
<1> DEFINE t == [s EXCEPT !.queue = Append(@, n), !.key = key]
<1>2. Shape /\ InPlaces /\ s \in servers /\ s.client = c /\ Serving(s)
  BY DEF PlaceInv, Shape, ServersOf
<1>3. /\ n \in Nat /\ n \notin NumbersOf(c)
      /\ \A d \in Clients :
           /\ NumbersOf(d) \subseteq Nat
           /\ NumbersOf(d)' = NumbersOf(d) \cup IF d = c THEN {n} ELSE {}
  BY <1>1, <1>2, NumbersGrow DEF Shape
<1>4. servers' = (servers \ {s}) \cup {t} /\ lost' = lost
  BY <1>1, <1>2 DEF ForwardIntercepted
<1>5. s \in Entry /\ s.queue \in Seq(Nat)
  BY <1>2 DEF Serving, Entry
<1>6. /\ Append(s.queue, n) \in Seq(Nat)
      /\ Append(s.queue, n) # <<>>
      /\ Len(s.queue) \in Nat
      /\ Len(Append(s.queue, n)) = Len(s.queue) + 1
      /\ \A j \in 1 .. Len(s.queue) : Append(s.queue, n)[j] = s.queue[j]
      /\ Append(s.queue, n)[Len(s.queue) + 1] = n
      /\ Head(Append(s.queue, n)) =
           IF s.queue = <<>> THEN n ELSE Head(s.queue)
      /\ DOMAIN s.queue = 1 .. Len(s.queue)
      /\ DOMAIN Append(s.queue, n) = 1 .. Len(Append(s.queue, n))
  <2> DEFINE q == s.queue
  <2> HIDE DEF q
  <2>1. q \in Seq(Nat)
    BY <1>5 DEF q
  <2>2. /\ Append(q, n) \in Seq(Nat) /\ Append(q, n) # <<>>
        /\ Len(Append(q, n)) = Len(q) + 1
        /\ \A j \in 1 .. Len(q) : Append(q, n)[j] = q[j]
        /\ Append(q, n)[Len(q) + 1] = n
    BY <2>1, AppendProperties
  <2>3. Head(Append(q, n)) = IF q = <<>> THEN n ELSE Head(q)
    BY <2>1, HeadTailAppend
  <2>4. Len(q) \in Nat /\ DOMAIN q = 1 .. Len(q)
    BY <2>1, LenProperties
  <2>5. DOMAIN Append(q, n) = 1 .. Len(Append(q, n))
    BY <2>2, LenProperties
  <2> QED
    BY <2>2, <2>3, <2>4, <2>5 DEF q
<1>7. /\ t \in Entry /\ t.client = c /\ t.queue = Append(s.queue, n)
      /\ t.part = s.part
  <2> DEFINE q == Append(s.queue, n)
  <2>1. q \in Seq(Nat)
    BY <1>6
  <2> HIDE DEF q
  <2>2. LET u == [s EXCEPT !.queue = q, !.key = key]
        IN  u \in Entry /\ u.client = s.client /\ u.queue = q /\ u.part = s.part
    <3> HIDE DEF Keys
    <3> QED
      BY <1>5, <2>1 DEF Entry
  <2>3. t = [s EXCEPT !.queue = q, !.key = key]
    BY Zenon DEF q
  <2> HIDE DEF t
  <2> QED
    BY <1>2, <2>2, <2>3 DEF q
<1>8. ToSet(t.queue) = ToSet(s.queue) \cup {n}
  <2>1. 1 .. Len(s.queue) + 1 = 1 .. Len(s.queue) \cup {Len(s.queue) + 1}
    BY <1>6
  <2> HIDE DEF t
  <2> QED
    BY <1>6, <1>7, <2>1 DEF ToSet
<1> HIDE DEF t
<1>9. Serving(t)'
  <2> DEFINE q == s.queue
             r == t.queue
  <2>1. \A j \in 1 .. Len(q) : q[j] \in NumbersOf(c) /\ q[j] # n
    BY <1>2, <1>3 DEF Serving
  <2>2. \A j, k \in 1 .. Len(q) : q[j] = q[k] => j = k
    BY <1>2 DEF Serving
  <2>3. /\ Len(q) \in Nat /\ Len(r) = Len(q) + 1
        /\ \A j \in 1 .. Len(q) : r[j] = q[j]
        /\ r[Len(q) + 1] = n
    BY <1>6, <1>7
  <2> HIDE DEF q, r
  <2>4. \A j \in 1 .. Len(r) : j \in 1 .. Len(q) \/ j = Len(q) + 1
    BY <2>3
  <2>5. \A j \in 1 .. Len(r) : r[j] \in NumbersOf(c)'
    BY <1>3, <2>1, <2>3, <2>4
  <2>6. \A j, k \in 1 .. Len(r) : r[j] = r[k] => j = k
    BY <2>1, <2>2, <2>3, <2>4
  <2>7. t \in Entry /\ t.client \in up' /\ t.queue # <<>>
    BY <1>2, <1>6, <1>7 DEF Serving
  <2> QED
    BY <1>7, <2>5, <2>6, <2>7 DEF Serving, Entry, Keys, KeyOf, r
<1>10. Shape'
  <2>1. \A u \in servers' : u \in servers \/ Serving(u)'
    BY <1>4, <1>9
  <2> QED
    BY <1>4, <2>1, ForwardedShape
<1>11. ASSUME NEW d \in Clients, NEW i \in NumbersOf(d)'
       PROVE  InPlace(d, i)'
  <2>1. /\ \A p : PlacesIn(written[d], i, p)' = PlacesIn(written[d], i, p)
        /\ lost'[d] = lost[d]
    BY <1>4 DEF PlacesIn
  <2>2. With(d, i)' = (With(d, i) \ {s}) \cup
          IF d = c /\ i \in ToSet(s.queue) \cup {n} THEN {t} ELSE {}
    <3>1. With(d, i)' = (With(d, i) \ {s}) \cup
            IF t.client = d /\ i \in ToSet(t.queue) THEN {t} ELSE {}
      <4>1. /\ s \in servers /\ t.client = s.client
            /\ servers' = (servers \ {s}) \cup {t}
        BY <1>2, <1>4, <1>7
      <4> QED
        BY ONLY <4>1, Exchanged
    <3> QED
      BY <1>7, <1>8, <3>1
  <2>3. CASE d = c /\ i = n
    <3>1. /\ \A p : PlacesIn(written[d], i, p) = {}
          /\ i \notin lost[d] /\ With(d, i) = {}
      BY <1>1, <2>3, NewIsNowhere
    <3>2. With(d, i)' = {t}
      BY <2>2, <2>3, <3>1
    <3>3. ~(t.part = 1 /\ Head(t.queue) = i)
      <4>1. ASSUME s.part = 1
            PROVE  Head(t.queue) \in NumbersOf(c)
        <5>1. s.queue # <<>>
          BY <1>2, <4>1 DEF Serving
        <5>2. Head(t.queue) = s.queue[1] /\ 1 \in 1 .. Len(s.queue)
          BY <1>5, <1>6, <1>7, <5>1, EmptySeq
        <5> QED
          BY <1>2, <5>2 DEF Serving
      <4> QED
        BY <1>3, <1>7, <2>3, <4>1
    <3>4. Placed(i, {}, {}, lost[d], {t})
      BY <3>1, <3>3, ComesTo
    <3> QED
      BY <2>1, <3>1, <3>2, <3>4 DEF InPlace
  <2>4. CASE ~(d = c /\ i = n)
    <3>1. i \in NumbersOf(d) /\ InPlace(d, i)
      BY <1>2, <1>3, <2>4 DEF InPlaces
    <3>2. CASE s \in With(d, i)
      <4>1. With(d, i) = {s} /\ d = c /\ i \in ToSet(s.queue)
        BY <1>2, <3>1, <3>2 DEF InPlace, Placed, With, ServersOf
      <4>2. With(d, i)' = {t}
        BY <2>2, <4>1
      <4>3. t.part = s.part /\ Head(t.queue) = Head(s.queue)
        <5>1. s.queue # <<>>
          BY <1>6, <4>1 DEF ToSet
        <5> QED
          BY <1>6, <1>7, <5>1
      <4>4. Placed(i, PlacesIn(written[d], i, 1), PlacesIn(written[d], i, 2),
                   lost[d], {t})
        BY <3>1, <4>1, <4>3, StaysWith DEF InPlace
      <4> QED
        BY <2>1, <4>2, <4>4 DEF InPlace
    <3>3. CASE s \notin With(d, i)
      <4>1. With(d, i)' = With(d, i)
        BY <1>2, <2>2, <2>4, <3>3 DEF With, ServersOf
      <4> QED
        BY <2>1, <3>1, <4>1 DEF InPlace
    <3> QED
      BY <3>2, <3>3
  <2> QED
    BY <2>3, <2>4
<1> QED
  BY <1>10, <1>11 DEF PlaceInv, InPlaces

\* A client that leaves takes its servers with it, and with them what they
\* had; or nothing changes.
LEMMA Leaving ==
  ASSUME Shape, NEW c \in Clients,
         Disconnect(c) \/ UNCHANGED <<up, servers, lost>>
  PROVE  /\ up' \subseteq up /\ servers' \subseteq servers
         /\ \A s \in servers' : s.client \in up'
         /\ lost' \in [Clients -> SUBSET Nat]
         /\ \A d \in Clients : lost'[d] \subseteq NumbersOf(d)
         /\ \A d \in Clients : \A i :
              \/ With(d, i)' = With(d, i) /\ (i \in lost'[d] <=> i \in lost[d])
              \/ /\ With(d, i)' = {}
                 /\ i \in lost'[d] <=> i \in lost[d] \/ With(d, i) # {}
<1>1. \A d \in Clients : lost[d] \subseteq NumbersOf(d)
  BY DEF Shape, Numbered
<1>2. CASE UNCHANGED <<up, servers, lost>>
  BY <1>1, <1>2 DEF Shape, Serving, With, ServersOf
<1>3. CASE Disconnect(c)
  <2>1. ASSUME NEW s \in servers
        PROVE  ToSet(s.queue) \subseteq NumbersOf(s.client)
    <3>1. Serving(s) /\ s.queue \in Seq(Nat)
      BY DEF Shape, Serving, Entry
    <3>2. DOMAIN s.queue = 1 .. Len(s.queue)
      BY <3>1, LenProperties
    <3> QED
      BY <3>1, <3>2 DEF Serving, ToSet
  <2>2. NumbersOf(c) \subseteq Nat /\ Outstanding(c) \subseteq NumbersOf(c)
    <3>1. NumbersOf(c) \subseteq Nat
      BY DEF NumbersOf
    <3> QED
      BY <2>1, <3>1 DEF Outstanding, ServersOf
  <2>3. /\ lost' \in [Clients -> SUBSET Nat]
        /\ \A d \in Clients :
             lost'[d] = IF d = c THEN lost[d] \cup Outstanding(c) ELSE lost[d]
    <3>1. Loses(c, Outstanding(c)) /\ Outstanding(c) \in SUBSET Nat
      BY <1>3, <2>2 DEF Disconnect
    <3> QED
      BY <3>1, LostGrows DEF Shape
  <2>4. /\ up' \subseteq up /\ servers' \subseteq servers
        /\ \A s \in servers' : s.client \in up'
    BY <1>3 DEF Disconnect, ServersOf, Shape, Serving
  <2>5. \A d \in Clients : \A i :
          /\ With(d, i)' = IF d = c THEN {} ELSE With(d, i)
          /\ i \in lost'[d] <=> i \in lost[d] \/ (d = c /\ With(c, i) # {})
    BY <1>3, LeavesNothing DEF Shape
  <2>6. \A d \in Clients : \A i :
          \/ With(d, i)' = With(d, i) /\ (i \in lost'[d] <=> i \in lost[d])
          \/ /\ With(d, i)' = {}
             /\ i \in lost'[d] <=> i \in lost[d] \/ With(d, i) # {}
    BY <2>5
  <2>7. \A d \in Clients : lost'[d] \subseteq NumbersOf(d)
    BY <1>1, <2>2, <2>3
  <2> QED
    BY <2>3, <2>4, <2>6, <2>7
<1> QED
  BY <1>2, <1>3

\* The requests that were there before stay in their places, or are lost.
LEMMA LeavingKeeps ==
  ASSUME PlaceInv, NEW c \in Clients,
         Disconnect(c) \/ UNCHANGED <<up, servers, lost>>,
         NEW d \in Clients, NEW i \in NumbersOf(d)
  PROVE  Placed(i, PlacesIn(written[d], i, 1), PlacesIn(written[d], i, 2),
                lost'[d], With(d, i)')
<1>1. InPlace(d, i) /\ Shape
  BY DEF PlaceInv, InPlaces
<1>2. \/ With(d, i)' = With(d, i) /\ (i \in lost'[d] <=> i \in lost[d])
      \/ /\ With(d, i)' = {}
         /\ i \in lost'[d] <=> i \in lost[d] \/ With(d, i) # {}
  BY <1>1, Leaving
<1>3. CASE With(d, i)' = With(d, i) /\ (i \in lost'[d] <=> i \in lost[d])
  BY <1>1, <1>3, StaysAway DEF InPlace
<1>4. CASE /\ With(d, i)' = {}
           /\ i \in lost'[d] <=> i \in lost[d] \/ With(d, i) # {}
  BY <1>1, <1>4, GoesAway DEF InPlace
<1> QED
  BY <1>2, <1>3, <1>4

\* Nothing is asked and nothing written; a client may leave.
LEMMA LeavingPlaces ==
  ASSUME PlaceInv, NEW c \in Clients,
         Disconnect(c) \/ UNCHANGED <<up, servers, lost>>,
         asked' = asked, written' = written, Held'
  PROVE  PlaceInv'
<1>1. Shape
  BY DEF PlaceInv
<1>2. /\ up' \subseteq up /\ servers' \subseteq servers
      /\ \A s \in servers' : s.client \in up'
      /\ lost' \in [Clients -> SUBSET Nat]
      /\ \A d \in Clients : lost'[d] \subseteq NumbersOf(d)
  BY <1>1, Leaving
<1>3. \A d : NumbersOf(d)' = NumbersOf(d)
  BY DEF NumbersOf
<1>4. Shape'
  <2>1. \A s \in servers' : Serving(s)'
    BY <1>1, <1>2, <1>3, ServingMore DEF Shape
  <2>2. \A d \in Clients : Numbered(d)'
    BY <1>1, <1>2, <1>3 DEF Shape, Numbered
  <2> QED
    BY <1>1, <1>2, <2>1, <2>2 DEF Shape, AskedOK
<1>5. \A d \in Clients : \A i \in NumbersOf(d)' : InPlace(d, i)'
  BY <1>3, LeavingKeeps DEF InPlace
<1> QED
  BY <1>4, <1>5 DEF PlaceInv, InPlaces

\* A server goes, and the requests it has are lost.
LEMMA ServerGoes ==
  ASSUME PlaceInv, NEW s \in servers, servers' = servers \ {s},
         Loses(s.client, ToSet(s.queue)),
         up' = up, asked' = asked, written' = written, Held'
  PROVE  PlaceInv'
<1>1. Shape /\ Serving(s) /\ s.queue \in Seq(Nat) /\ s.client \in Clients
  BY DEF PlaceInv, Shape, Serving, Entry
<1>2. \A d : NumbersOf(d)' = NumbersOf(d)
  BY DEF NumbersOf
<1>3. /\ ToSet(s.queue) \subseteq NumbersOf(s.client)
      /\ ToSet(s.queue) \in SUBSET Nat
  <2>1. DOMAIN s.queue = 1 .. Len(s.queue)
    BY <1>1, LenProperties
  <2> QED
    BY <1>1, <2>1 DEF Serving, ToSet, NumbersOf
<1>4. /\ lost' \in [Clients -> SUBSET Nat]
      /\ \A d \in Clients :
           lost'[d] = lost[d] \cup IF d = s.client THEN ToSet(s.queue) ELSE {}
  BY <1>1, <1>3, LostGrows DEF Shape
<1>5. Shape'
  <2>1. \A t \in servers' : Serving(t)'
    BY <1>1, <1>2, ServingMore DEF Shape, Serving
  <2>2. \A d \in Clients : Numbered(d)'
    BY <1>1, <1>2, <1>3, <1>4 DEF Shape, Numbered
  <2> QED
    BY <1>1, <1>4, <2>1, <2>2 DEF Shape, AskedOK
<1>6. ASSUME NEW d \in Clients, NEW i \in NumbersOf(d)
      PROVE  InPlace(d, i)'
  <2>1. /\ \A p : PlacesIn(written[d], i, p)' = PlacesIn(written[d], i, p)
        /\ InPlace(d, i)
    BY DEF PlacesIn, PlaceInv, InPlaces
  <2>2. With(d, i)' = With(d, i) \ {s}
    BY Removed
  <2>3. CASE s \in With(d, i)
    <3>1. d = s.client /\ i \in ToSet(s.queue) /\ With(d, i) = {s}
      BY <2>1, <2>3 DEF With, ServersOf, InPlace, Placed
    <3>2. With(d, i)' = {} /\ i \in lost'[d]
      BY <1>4, <2>2, <3>1
    <3> QED
      BY <2>1, <3>1, <3>2, GoesAway DEF InPlace
  <2>4. CASE s \notin With(d, i)
    <3>1. ~(d = s.client /\ i \in ToSet(s.queue))
      BY <2>4 DEF With, ServersOf
    <3>2. With(d, i)' = With(d, i) /\ (i \in lost'[d] <=> i \in lost[d])
      BY <1>4, <2>2, <2>4, <3>1
    <3> QED
      BY <2>1, <3>2, StaysAway DEF InPlace
  <2> QED
    BY <2>3, <2>4
<1> QED
  BY <1>2, <1>5, <1>6 DEF PlaceInv, InPlaces

\* Both parts of an answer are written one behind the other.
LEMMA BothAdded ==
  ASSUME NEW w \in Seq(Line), NEW n \in Nat, NEW to \in Ask
  PROVE  LET m == Len(w)
             new == w \o [p \in Parts |-> Part(n, p, to)]
         IN  /\ m \in Nat /\ new \in Seq(Line) /\ Len(new) = m + 2
             /\ \A j \in 1 .. m : new[j] = w[j]
             /\ new[m + 1] = Part(n, 1, to) /\ new[m + 2] = Part(n, 2, to)
             /\ \A i : PlacesIn(new, i, 1) = PlacesIn(w, i, 1) \cup
                         IF i = n THEN {m + 1} ELSE {}
             /\ \A i : PlacesIn(new, i, 2) = PlacesIn(w, i, 2) \cup
                         IF i = n THEN {m + 2} ELSE {}
<1> DEFINE a == Part(n, 1, to)
           b == Part(n, 2, to)
           v == Append(w, a)
           u == Append(v, b)
<1>1. /\ a \in Line /\ a.request = n /\ a.part = 1
      /\ b \in Line /\ b.request = n /\ b.part = 2
  BY DEF Part, Line, Parts
<1>2. w \o [p \in Parts |-> Part(n, p, to)] = u
  <2>1. [p \in Parts |-> Part(n, p, to)] = <<a, b>>
    BY DEF Parts
  <2> HIDE DEF a, b
  <2>2. v = w \o <<a>> /\ v \in Seq(Line)
    BY <1>1, AppendIsConcat, AppendProperties
  <2>3. u = v \o <<b>>
    <3> HIDE DEF v
    <3> QED
      BY <1>1, <2>2, AppendIsConcat
  <2>4. <<a>> \in Seq(Line) /\ <<b>> \in Seq(Line) /\ <<a>> \o <<b>> = <<a, b>>
    <3>1. <<a>> \in Seq(Line) /\ <<b>> \in Seq(Line)
      BY <1>1
    <3>2. Append(<<a>>, b) = <<a>> \o <<b>>
      BY <1>1, <3>1, AppendIsConcat
    <3>3. Append(<<a>>, b) = <<a, b>>
      <4> DEFINE x == Append(<<a>>, b)
                 y == <<a, b>>
      <4>1. Len(<<a>>) = 1 /\ <<a>>[1] = a
        OBVIOUS
      <4>2. x \in Seq(Line) /\ Len(x) = 2 /\ x[1] = a /\ x[2] = b
        BY <1>1, <3>1, <4>1, AppendProperties
      <4>3. y \in Seq(Line) /\ Len(y) = 2 /\ y[1] = a /\ y[2] = b
        BY <1>1
      <4> HIDE DEF x, y
      <4>4. \A i \in 1 .. Len(x) : x[i] = y[i]
        BY <4>2, <4>3
      <4> QED
        BY <4>2, <4>3, <4>4, SeqEqual DEF x, y
    <3> QED
      BY <3>1, <3>2, <3>3
  <2>5. (w \o <<a>>) \o <<b>> = w \o (<<a>> \o <<b>>)
    BY <2>4, ConcatAssociative
  <2> QED
    BY <2>1, <2>2, <2>4, <2>5, <2>3
<1> HIDE DEF a, b
<1>3. /\ Len(w) \in Nat /\ v \in Seq(Line)
      /\ Len(v) = Len(w) + 1 /\ v[Len(w) + 1] = a
      /\ \A j \in 1 .. Len(w) : v[j] = w[j]
      /\ \A i, p : PlacesIn(v, i, p) = PlacesIn(w, i, p) \cup
           IF a.request = i /\ a.part = p THEN {Len(w) + 1} ELSE {}
  BY <1>1, LineAdded
<1> HIDE DEF v
<1>4. /\ u \in Seq(Line)
      /\ Len(u) = Len(v) + 1 /\ u[Len(v) + 1] = b
      /\ \A j \in 1 .. Len(v) : u[j] = v[j]
      /\ \A i, p : PlacesIn(u, i, p) = PlacesIn(v, i, p) \cup
           IF b.request = i /\ b.part = p THEN {Len(v) + 1} ELSE {}
  BY <1>1, <1>3, LineAdded
<1> HIDE DEF u
<1>5. /\ Len(u) = Len(w) + 2
      /\ \A j \in 1 .. Len(w) : u[j] = w[j]
      /\ u[Len(w) + 1] = a /\ u[Len(w) + 2] = b
  BY <1>3, <1>4
<1>6. ASSUME NEW i
      PROVE  /\ PlacesIn(u, i, 1) = PlacesIn(w, i, 1) \cup
                  IF i = n THEN {Len(w) + 1} ELSE {}
             /\ PlacesIn(u, i, 2) = PlacesIn(w, i, 2) \cup
                  IF i = n THEN {Len(w) + 2} ELSE {}
  <2>1. /\ PlacesIn(v, i, 1) = PlacesIn(w, i, 1) \cup
             IF i = n THEN {Len(w) + 1} ELSE {}
        /\ PlacesIn(v, i, 2) = PlacesIn(w, i, 2)
    <3>1. /\ PlacesIn(v, i, 1) = PlacesIn(w, i, 1) \cup
               IF a.request = i /\ a.part = 1 THEN {Len(w) + 1} ELSE {}
          /\ PlacesIn(v, i, 2) = PlacesIn(w, i, 2) \cup
               IF a.request = i /\ a.part = 2 THEN {Len(w) + 1} ELSE {}
      BY <1>3, Zenon
    <3> QED
      BY <1>1, <3>1
  <2>2. /\ PlacesIn(u, i, 1) = PlacesIn(v, i, 1)
        /\ PlacesIn(u, i, 2) = PlacesIn(v, i, 2) \cup
             IF i = n THEN {Len(v) + 1} ELSE {}
    <3>1. /\ PlacesIn(u, i, 1) = PlacesIn(v, i, 1) \cup
               IF b.request = i /\ b.part = 1 THEN {Len(v) + 1} ELSE {}
          /\ PlacesIn(u, i, 2) = PlacesIn(v, i, 2) \cup
               IF b.request = i /\ b.part = 2 THEN {Len(v) + 1} ELSE {}
      BY <1>4, Zenon
    <3> QED
      BY <1>1, <3>1
  <2>3. Len(v) + 1 = Len(w) + 2
    BY <1>3
  <2> QED
    BY <2>1, <2>2, <2>3
<1> QED
  BY <1>2, <1>3, <1>4, <1>5, <1>6 DEF a, b

\* What a hit writes are both parts of what was cached.
LEMMA HitWrites ==
  ASSUME Shape, NEW c \in Clients, NEW ask, Hit(c, ask)
  PROVE  \E to \in Ask :
           written' = [written EXCEPT ![c] =
                         @ \o [p \in Parts |-> Part(Number(c), p, to)]]
<1> DEFINE key == KeyOf(ask)
<1>1. key \in DOMAIN store /\ reply'.val = store[key].val
  BY DEF Hit, Cache!Hit
<1>2. reply'.val.to \in Ask
  BY <1>1 DEF Shape, Held, Vals
<1> QED
  BY <1>2 DEF Hit, WriteHit

\* A hit writes a whole answer to a request that is nowhere yet.
LEMMA HitPlaces ==
  ASSUME PlaceInv, NEW c \in Clients, NEW ask, Hit(c, ask)
  PROVE  PlaceInv'
<1>1. Shape /\ Request(c, ask)
  BY DEF PlaceInv, Hit
<1>2. PICK n \in Nat : n = Number(c)
  BY <1>1, NumbersGrow DEF Shape
<1>3. /\ AskedOK' /\ n \notin NumbersOf(c)
      /\ Len(asked'[c]) = n /\ n <= MaxRequests
      /\ \A d \in Clients :
           /\ NumbersOf(d)' = NumbersOf(d) \cup IF d = c THEN {n} ELSE {}
           /\ d # c => Len(asked'[d]) = Len(asked[d])
  BY <1>1, <1>2, NumbersGrow DEF Shape
<1>4. Disconnect(c) \/ UNCHANGED <<up, servers, lost>>
  BY DEF Hit, AfterHit
<1>5. /\ up' \subseteq up /\ servers' \subseteq servers
      /\ \A s \in servers' : s.client \in up'
      /\ lost' \in [Clients -> SUBSET Nat]
      /\ \A d \in Clients : lost'[d] \subseteq NumbersOf(d)
      /\ With(c, n)' = With(c, n) \/ With(c, n)' = {}
  BY <1>1, <1>4, Leaving
<1>6. PICK to \in Ask :
        written' = [written EXCEPT ![c] =
                      @ \o [p \in Parts |-> Part(n, p, to)]]
  <2>1. \E to \in Ask :
          written' = [written EXCEPT ![c] =
                        @ \o [p \in Parts |-> Part(Number(c), p, to)]]
    BY <1>1, HitWrites
  <2> QED
    BY <1>2, <2>1
<1> DEFINE w == written[c]
           m == Len(w)
           new == w \o [p \in Parts |-> Part(n, p, to)]
<1>7. w \in Seq(Line)
  BY <1>1 DEF Shape
<1>8. /\ m \in Nat /\ new \in Seq(Line) /\ Len(new) = m + 2
      /\ \A j \in 1 .. m : new[j] = w[j]
      /\ new[m + 1].request = n /\ new[m + 2].request = n
      /\ \A i : PlacesIn(new, i, 1) = PlacesIn(w, i, 1) \cup
                  IF i = n THEN {m + 1} ELSE {}
      /\ \A i : PlacesIn(new, i, 2) = PlacesIn(w, i, 2) \cup
                  IF i = n THEN {m + 2} ELSE {}
  <2>1. /\ m \in Nat /\ new \in Seq(Line) /\ Len(new) = m + 2
        /\ \A j \in 1 .. m : new[j] = w[j]
        /\ new[m + 1] = Part(n, 1, to) /\ new[m + 2] = Part(n, 2, to)
        /\ \A i : PlacesIn(new, i, 1) = PlacesIn(w, i, 1) \cup
                    IF i = n THEN {m + 1} ELSE {}
        /\ \A i : PlacesIn(new, i, 2) = PlacesIn(w, i, 2) \cup
                    IF i = n THEN {m + 2} ELSE {}
    BY <1>7, BothAdded
  <2> HIDE DEF w, new
  <2> QED
    BY <2>1 DEF Part
<1>9. /\ written' \in [Clients -> Seq(Line)]
      /\ \A d \in Clients : written'[d] = IF d = c THEN new ELSE written[d]
  <2>1. written' = [written EXCEPT ![c] = new]
    BY <1>6
  <2> HIDE DEF new
  <2> QED
    BY <1>1, <1>8, <2>1 DEF Shape
<1> HIDE DEF new
<1>10. Shape'
  <2>1. \A s \in servers' : Serving(s)'
    <3> SUFFICES ASSUME NEW s \in servers'
                 PROVE  Serving(s)'
      OBVIOUS
    <3>1. Serving(s) /\ s.client \in up' /\ s.client \in Clients
      BY <1>1, <1>5 DEF Shape, Serving, Entry
    <3> QED
      BY <1>3, <3>1, ServingMore
  <2>2. ASSUME NEW d \in Clients
        PROVE  Numbered(d)'
    <3>1. Numbered(d) /\ lost'[d] \subseteq NumbersOf(d)'
      BY <1>1, <1>3, <1>5 DEF Shape
    <3>2. CASE d # c
      <4>1. /\ Len(asked'[d]) <= MaxRequests
            /\ written'[d] = written[d]
            /\ NumbersOf(d) \subseteq NumbersOf(d)'
        BY <1>3, <1>9, <3>1, <3>2 DEF Numbered
      <4> QED
        BY <3>1, <4>1, NumberedMore
    <3>3. CASE d = c
      <4>1. \A j \in 1 .. m + 2 : new[j].request \in NumbersOf(c)'
        <5> SUFFICES ASSUME NEW j \in 1 .. m + 2
                     PROVE  new[j].request \in NumbersOf(c)'
          OBVIOUS
        <5>1. j \in 1 .. m \/ j = m + 1 \/ j = m + 2
          BY <1>8
        <5>2. ASSUME j \in 1 .. m
              PROVE  new[j].request \in NumbersOf(c)
          BY <1>8, <3>1, <3>3, <5>2 DEF Numbered
        <5> QED
          BY <1>3, <1>8, <5>1, <5>2
      <4> QED
        BY <1>3, <1>8, <1>9, <3>1, <3>3, <4>1 DEF Numbered
    <3> QED
      BY <3>2, <3>3
  <2>3. Held'
    BY <1>1, ReadHolds DEF Shape, Hit
  <2> QED
    BY <1>1, <1>3, <1>5, <1>9, <2>1, <2>2, <2>3 DEF Shape
<1>11. ASSUME NEW d \in Clients, NEW i \in NumbersOf(d)'
       PROVE  InPlace(d, i)'
  <2>1. CASE d = c /\ i = n
    <3>1. /\ PlacesIn(w, n, 1) = {} /\ PlacesIn(w, n, 2) = {}
          /\ With(c, n) = {}
      BY <1>1, <1>2, NewIsNowhere
    <3>2. /\ PlacesIn(new, n, 1) = {m + 1} /\ PlacesIn(new, n, 2) = {m + 2}
          /\ With(c, n)' = {} /\ n \notin lost'[c] /\ written'[c] = new
      BY <1>3, <1>5, <1>8, <1>9, <3>1
    <3>3. Placed(n, {m + 1}, {m + 2}, lost'[c], {})
      BY <1>8, <3>2, AnsweredAtOnce
    <3> QED
      BY <2>1, <3>2, <3>3 DEF InPlace
  <2>2. CASE ~(d = c /\ i = n)
    <3>1. i \in NumbersOf(d)
      BY <1>3, <2>2
    <3>2. Placed(i, PlacesIn(written[d], i, 1), PlacesIn(written[d], i, 2),
                 lost'[d], With(d, i)')
      BY <1>4, <3>1, LeavingKeeps
    <3>3. /\ PlacesIn(written'[d], i, 1) = PlacesIn(written[d], i, 1)
          /\ PlacesIn(written'[d], i, 2) = PlacesIn(written[d], i, 2)
      BY <1>8, <1>9, <2>2
    <3> QED
      BY <3>2, <3>3 DEF InPlace
  <2> QED
    BY <2>1, <2>2
<1> QED
  BY <1>10, <1>11 DEF PlaceInv, InPlaces

\* The requests a server has are those in its queue.
LEMMA QueueHas ==
  ASSUME NEW s, s.queue \in Seq(Nat), s.queue # <<>>,
         \A j, k \in 1 .. Len(s.queue) : s.queue[j] = s.queue[k] => j = k
  PROVE  /\ Head(s.queue) \in ToSet(s.queue)
         /\ Head(s.queue) = s.queue[1] /\ 1 \in 1 .. Len(s.queue)
         /\ Tail(s.queue) \in Seq(Nat)
         /\ Len(Tail(s.queue)) = Len(s.queue) - 1
         /\ \A j \in 1 .. Len(Tail(s.queue)) : Tail(s.queue)[j] = s.queue[j + 1]
         /\ ToSet(Tail(s.queue)) = ToSet(s.queue) \ {Head(s.queue)}
<1> DEFINE q == s.queue
           r == Tail(q)
<1>1. Len(q) \in Nat \ {0} /\ DOMAIN q = 1 .. Len(q)
  BY EmptySeq, LenProperties
<1>2. /\ r \in Seq(Nat) /\ Len(r) = Len(q) - 1
      /\ \A j \in 1 .. Len(r) : r[j] = q[j + 1]
  BY HeadTailProperties
<1>3. DOMAIN r = 1 .. Len(r)
  BY <1>2, LenProperties
<1>4. Head(q) = q[1]
  OBVIOUS
<1>5. \A j, k \in 1 .. Len(q) : q[j] = q[k] => j = k
  OBVIOUS
<1> HIDE DEF q, r
<1>6. ToSet(r) = ToSet(q) \ {Head(q)}
  <2>1. ASSUME NEW x \in ToSet(r)
        PROVE  x \in ToSet(q) \ {Head(q)}
    <3>1. PICK j \in 1 .. Len(r) : x = r[j]
      BY <1>3, <2>1 DEF ToSet
    <3>2. /\ x = q[j + 1] /\ j + 1 \in 1 .. Len(q)
          /\ j + 1 # 1 /\ 1 \in 1 .. Len(q)
      <4>1. j + 1 \in 1 .. Len(q) /\ j + 1 # 1 /\ 1 \in 1 .. Len(q)
        BY <1>1, <1>2, <3>1
      <4> QED
        BY <1>2, <3>1, <4>1
    <3> QED
      BY <1>1, <1>4, <1>5, <3>2 DEF ToSet
  <2>2. ASSUME NEW x \in ToSet(q), x # Head(q)
        PROVE  x \in ToSet(r)
    <3>1. PICK j \in 1 .. Len(q) : x = q[j]
      BY <1>1, <2>2 DEF ToSet
    <3>2. j # 1
      BY <1>4, <2>2, <3>1
    <3>3. j - 1 \in 1 .. Len(r) /\ (j - 1) + 1 = j
      BY <1>1, <1>2, <3>1, <3>2
    <3>4. x = r[j - 1]
      BY <1>2, <3>1, <3>3
    <3> QED
      BY <1>3, <3>3, <3>4 DEF ToSet
  <2>3. Head(q) \notin ToSet(r)
    BY <2>1
  <2> QED
    BY <2>1, <2>2, <2>3
<1>7. Head(q) \in ToSet(q) /\ 1 \in 1 .. Len(q)
  <2>1. 1 \in 1 .. Len(q)
    BY <1>1
  <2> QED
    BY <1>1, <1>4, <2>1 DEF ToSet
<1> QED
  BY <1>2, <1>4, <1>6, <1>7 DEF q, r

\* Part p of the answer to c's i-th request is written at m, the next place.
Wrote(c, i, p, m) ==
  /\ c \in Clients /\ i \in NumbersOf(c)
  /\ written' \in [Clients -> Seq(Line)]
  /\ \A d \in Clients : d # c => written'[d] = written[d]
  /\ m \in Nat /\ Len(written[c]) \in Nat
  /\ m = Len(written[c]) + 1 /\ Len(written'[c]) = m
  /\ written'[c][m].request = i /\ written'[c][m].part = p
  /\ \A j \in 1 .. Len(written[c]) : written'[c][j] = written[c][j]
  /\ \A k, q : \A j \in PlacesIn(written[c], k, q) : j < m
  /\ PlacesIn(written'[c], i, p) = PlacesIn(written[c], i, p) \cup {m}
  /\ \A k, q : k # i \/ q # p =>
       PlacesIn(written'[c], k, q) = PlacesIn(written[c], k, q)

\* What fast_forward writes is for the first request its server has.
LEMMA ForwardWrites ==
  ASSUME Shape, NEW s \in servers, s.queue # <<>>, NEW p \in Parts,
         FastForward(s, p)
  PROVE  /\ Wrote(s.client, Head(s.queue), p, Len(written[s.client]) + 1)
         /\ Head(s.queue) \in ToSet(s.queue)
<1>1. PICK c, i, m :
        c = s.client /\ i = Head(s.queue) /\ m = Len(written[c]) + 1
  OBVIOUS
<1>2. c \in Clients
  BY <1>1 DEF Shape, Serving, Entry
<1>3. Serving(s) /\ s.queue \in Seq(Nat)
  BY DEF Shape, Serving, Entry
<1>4. i \in ToSet(s.queue) /\ i = s.queue[1] /\ 1 \in 1 .. Len(s.queue)
  BY <1>1, <1>3, QueueHas DEF Serving
<1>5. i \in NumbersOf(c) /\ i \in Nat
  BY <1>1, <1>3, <1>4 DEF Serving, NumbersOf
<1>6. asked[c][i] \in Ask
  BY <1>2, <1>5, ElementOfSeq DEF Shape, AskedOK, NumbersOf
<1> DEFINE line == Part(i, p, asked[c][i])
           w == written[c]
<1>7. line \in Line /\ line.request = i /\ line.part = p
  BY <1>5, <1>6 DEF Part, Line
<1>8. /\ w \in Seq(Line) /\ DOMAIN w = 1 .. Len(w) /\ Len(w) \in Nat
      /\ m = Len(w) + 1
  BY <1>1, <1>2, LenProperties DEF Shape
<1>9. written' = [written EXCEPT ![c] = Append(w, line)]
  BY <1>1 DEF FastForward
<1> HIDE DEF line
<1>10. /\ Append(w, line) \in Seq(Line)
      /\ Len(Append(w, line)) = m /\ Append(w, line)[m] = line
      /\ \A j \in 1 .. Len(w) : Append(w, line)[j] = w[j]
  BY <1>7, <1>8, LineAdded
<1>11. \A k, q : PlacesIn(Append(w, line), k, q) =
         PlacesIn(w, k, q) \cup IF line.request = k /\ line.part = q
                                THEN {m} ELSE {}
  BY <1>7, <1>8, LineAdded
<1>12. /\ PlacesIn(Append(w, line), i, p) = PlacesIn(w, i, p) \cup {m}
       /\ \A k, q : k # i \/ q # p =>
            PlacesIn(Append(w, line), k, q) = PlacesIn(w, k, q)
  <2>1. PlacesIn(Append(w, line), i, p) = PlacesIn(w, i, p) \cup {m}
    BY <1>7, <1>11
  <2>2. ASSUME NEW k, NEW q, k # i \/ q # p
        PROVE  PlacesIn(Append(w, line), k, q) = PlacesIn(w, k, q)
    <3>1. ~(line.request = k /\ line.part = q)
      BY <1>7, <2>2
    <3>2. PlacesIn(Append(w, line), k, q) = PlacesIn(w, k, q) \cup {}
      BY <1>11, <3>1, Zenon
    <3> QED
      BY <3>2
  <2> QED
    BY <2>1, <2>2
<1>13. \A k, q : \A j \in PlacesIn(w, k, q) : j < m
  BY <1>8 DEF PlacesIn
<1>14. /\ written' \in [Clients -> Seq(Line)]
       /\ written'[c] = Append(w, line)
       /\ \A d \in Clients : d # c => written'[d] = written[d]
  BY <1>2, <1>9, <1>10 DEF Shape
<1>15. m \in Nat
  BY <1>8
<1> HIDE DEF w
<1>16. /\ written'[c][m].request = i /\ written'[c][m].part = p
       /\ \A j \in 1 .. Len(w) : written'[c][j] = w[j]
       /\ Len(written'[c]) = m
       /\ PlacesIn(written'[c], i, p) = PlacesIn(w, i, p) \cup {m}
       /\ \A k, q : k # i \/ q # p =>
            PlacesIn(written'[c], k, q) = PlacesIn(w, k, q)
  BY <1>7, <1>10, <1>12, <1>14
<1>17. Wrote(c, i, p, m)
  BY <1>2, <1>5, <1>8, <1>13, <1>14, <1>15, <1>16 DEF w, Wrote
<1> QED
  BY <1>1, <1>4, <1>17

\* The shape after a response has been read in part or in whole.
LEMMA ResponseShape ==
  ASSUME Shape, NEW s \in servers, s.queue # <<>>, NEW p \in Parts,
         FastForward(s, p), asked' = asked, up' = up, lost' = lost, Held',
         \A t \in servers' : t \in servers \/ Serving(t)
  PROVE  Shape'
<1>1. PICK c, i, m :
        c = s.client /\ i = Head(s.queue) /\ m = Len(written[c]) + 1
  OBVIOUS
<1>2. Wrote(c, i, p, m)
  BY <1>1, ForwardWrites
<1>3. /\ c \in Clients /\ i \in NumbersOf(c)
      /\ written' \in [Clients -> Seq(Line)]
      /\ \A d \in Clients : d # c => written'[d] = written[d]
      /\ m \in Nat /\ Len(written'[c]) = m /\ m = Len(written[c]) + 1
      /\ written'[c][m].request = i
      /\ \A j \in 1 .. Len(written[c]) : written'[c][j] = written[c][j]
  BY <1>2 DEF Wrote
<1>4. \A d : NumbersOf(d)' = NumbersOf(d)
  BY DEF NumbersOf
<1>5. \A t \in servers' : Serving(t)'
  BY <1>4 DEF Shape, Serving
<1>6. ASSUME NEW d \in Clients
      PROVE  Numbered(d)'
  <2>1. Numbered(d) /\ Len(written[d]) \in Nat
    BY LenProperties DEF Shape, Numbered
  <2>2. \A j \in 1 .. Len(written'[d]) :
          written'[d][j].request \in NumbersOf(d)
    <3>1. CASE d # c
      BY <1>3, <2>1, <3>1 DEF Numbered
    <3>2. CASE d = c
      <4> SUFFICES ASSUME NEW j \in 1 .. m
                   PROVE  written'[c][j].request \in NumbersOf(c)
        BY <1>3, <3>2
      <4>1. j = m \/ j \in 1 .. Len(written[c])
        BY <1>3, <2>1, <3>2
      <4>2. CASE j = m
        BY <1>3, <4>2
      <4>3. CASE j \in 1 .. Len(written[c])
        BY <1>3, <2>1, <3>2, <4>3 DEF Numbered
      <4> QED
        BY <4>1, <4>2, <4>3
    <3> QED
      BY <3>1, <3>2
  <2> QED
    BY <1>3, <1>4, <2>1, <2>2 DEF Numbered
<1> QED
  BY <1>3, <1>5, <1>6 DEF Shape, AskedOK

\* The beginning of a response is written, and its server knows.
LEMMA BeginsPlaces ==
  ASSUME PlaceInv, NEW s \in servers, ResponseBegins(s)
  PROVE  PlaceInv'
<1>1. Shape /\ Serving(s) /\ s \in Entry /\ s.client \in Clients
  BY DEF PlaceInv, Shape, Serving, Entry
<1> DEFINE t == [s EXCEPT !.part = 1]
<1>2. /\ s.queue # <<>> /\ s.part = 0 /\ FastForward(s, 1)
      /\ servers' = (servers \ {s}) \cup {t}
      /\ up' = up /\ asked' = asked /\ lost' = lost /\ store' = store
  BY DEF ResponseBegins, cache
<1>3. /\ t \in Entry /\ t.client = s.client /\ t.queue = s.queue
      /\ t.part = 1
  BY <1>1 DEF Entry
<1> HIDE DEF t
<1>4. Serving(t)
  BY <1>1, <1>2, <1>3 DEF Serving
<1>5. Shape'
  <2>1. 1 \in Parts /\ Held'
    BY <1>1, <1>2 DEF Parts, Shape, Held
  <2>2. \A u \in servers' : u \in servers \/ Serving(u)
    BY <1>2, <1>4
  <2> QED
    BY <1>1, <1>2, <2>1, <2>2, ResponseShape
<1>6. PICK c, n, m :
        c = s.client /\ n = Head(s.queue) /\ m = Len(written[c]) + 1
  OBVIOUS
<1>7. /\ c = s.client /\ n = Head(s.queue) /\ n \in ToSet(s.queue)
      /\ \A d \in Clients : d # c => written'[d] = written[d]
      /\ \A k : PlacesIn(written'[c], k, 1) =
           PlacesIn(written[c], k, 1) \cup IF n = k THEN {m} ELSE {}
      /\ \A k : PlacesIn(written'[c], k, 2) = PlacesIn(written[c], k, 2)
  <2>1. PICK p \in Parts : p = 1
    BY DEF Parts
  <2>2. FastForward(s, p)
    BY <1>2, <2>1
  <2>3. /\ n \in ToSet(s.queue)
        /\ \A d \in Clients : d # c => written'[d] = written[d]
        /\ PlacesIn(written'[c], n, p) = PlacesIn(written[c], n, p) \cup {m}
        /\ \A k, q : k # n \/ q # p =>
             PlacesIn(written'[c], k, q) = PlacesIn(written[c], k, q)
    <3>1. Wrote(c, n, p, m) /\ n \in ToSet(s.queue)
      BY <1>1, <1>2, <1>6, <2>2, ForwardWrites
    <3> QED
      BY <3>1 DEF Wrote
  <2>4. ASSUME NEW k
        PROVE  /\ PlacesIn(written'[c], k, 1) =
                    PlacesIn(written[c], k, 1) \cup IF n = k THEN {m} ELSE {}
               /\ PlacesIn(written'[c], k, 2) = PlacesIn(written[c], k, 2)
    <3>1. 1 = p /\ 2 # p
      BY <2>1
    <3>2. PlacesIn(written'[c], k, 2) = PlacesIn(written[c], k, 2)
      BY <2>3, <3>1, Zenon
    <3>3. CASE k = n
      BY <2>3, <3>1, <3>2, <3>3, Zenon
    <3>4. CASE k # n
      <4>1. PlacesIn(written'[c], k, 1) = PlacesIn(written[c], k, 1)
        BY <2>3, <3>4, Zenon
      <4> QED
        BY <3>2, <3>4, <4>1
    <3> QED
      BY <3>3, <3>4
  <2> QED
    BY <1>6, <2>3, <2>4
<1>8. ASSUME NEW d \in Clients, NEW i \in NumbersOf(d)
      PROVE  InPlace(d, i)'
  <2>1. InPlace(d, i) /\ lost'[d] = lost[d]
    BY <1>2 DEF PlaceInv, InPlaces
  <2>2. With(d, i)' = (With(d, i) \ {s}) \cup
          IF d = c /\ i \in ToSet(s.queue) THEN {t} ELSE {}
    <3>1. With(d, i)' = (With(d, i) \ {s}) \cup
            IF t.client = d /\ i \in ToSet(t.queue) THEN {t} ELSE {}
      <4>1. /\ s \in servers /\ t.client = s.client
            /\ servers' = (servers \ {s}) \cup {t}
        BY <1>2, <1>3
      <4> QED
        BY ONLY <4>1, Exchanged
    <3> QED
      BY <1>3, <1>7, <3>1
  <2>3. PlacesIn(written'[d], i, 2) = PlacesIn(written[d], i, 2)
    BY <1>7
  <2>4. PlacesIn(written'[d], i, 1) = PlacesIn(written[d], i, 1)
          \cup IF d = c /\ i = n THEN {m} ELSE {}
    BY <1>7
  <2>5. CASE s \in With(d, i)
    <3>1. With(d, i) = {s} /\ d = c /\ i \in ToSet(s.queue)
      BY <1>7, <2>1, <2>5 DEF InPlace, Placed, With, ServersOf
    <3>2. With(d, i)' = {t}
      BY <2>2, <3>1
    <3>3. CASE i = n
      <4>1. Placed(i, PlacesIn(written[d], i, 1) \cup {m},
                   PlacesIn(written[d], i, 2), lost[d], {t})
        <5>1. /\ Placed(i, PlacesIn(written[d], i, 1),
                        PlacesIn(written[d], i, 2), lost[d], {s})
              /\ s.part = 0 /\ t.part = 1 /\ Head(t.queue) = i
          BY <1>2, <1>3, <1>7, <2>1, <3>1, <3>3 DEF InPlace
        <5> QED
          BY ONLY <5>1, Begins
      <4> QED
        BY <2>1, <2>3, <2>4, <3>1, <3>2, <3>3, <4>1 DEF InPlace
    <3>4. CASE i # n
      <4>1. Placed(i, PlacesIn(written[d], i, 1),
                   PlacesIn(written[d], i, 2), lost[d], {t})
        <5>1. /\ Placed(i, PlacesIn(written[d], i, 1),
                        PlacesIn(written[d], i, 2), lost[d], {s})
              /\ Head(s.queue) # i /\ Head(t.queue) # i
          BY <1>2, <1>3, <1>7, <2>1, <3>1, <3>4 DEF InPlace
        <5> QED
          BY ONLY <5>1, StaysWith
      <4> QED
        BY <2>1, <2>3, <2>4, <3>2, <3>4, <4>1 DEF InPlace
    <3> QED
      BY <3>3, <3>4
  <2>6. CASE s \notin With(d, i)
    <3>1. ~(d = c /\ i \in ToSet(s.queue))
      BY <1>7, <2>6 DEF With, ServersOf
    <3>2. With(d, i)' = With(d, i) /\ ~(d = c /\ i = n)
      BY <1>7, <2>2, <2>6, <3>1
    <3> QED
      BY <2>1, <2>3, <2>4, <3>2 DEF InPlace
  <2> QED
    BY <2>5, <2>6
<1>9. \A d : NumbersOf(d)' = NumbersOf(d)
  BY <1>2 DEF NumbersOf
<1> QED
  BY <1>5, <1>8, <1>9 DEF PlaceInv, InPlaces

\* The end of a response is written, and its server is done with it.
LEMMA EndsPlaces ==
  ASSUME PlaceInv, NEW s \in servers, ResponseEnds(s)
  PROVE  PlaceInv'
<1>1. PICK c, n, m :
        c = s.client /\ n = Head(s.queue) /\ m = Len(written[c]) + 1
  OBVIOUS
<1>2. /\ Shape /\ Serving(s) /\ s \in Entry /\ c \in Clients
      /\ s.queue \in Seq(Nat) /\ s.queue # <<>>
      /\ s.part = 1
  BY <1>1 DEF PlaceInv, Shape, Serving, Entry, ResponseEnds
<1>3. PICK p \in Parts : p = 2
  BY DEF Parts
<1>4. /\ FastForward(s, p) /\ CachePut(s) /\ AfterResponse(s)
      /\ up' = up /\ asked' = asked /\ lost' = lost
  BY <1>3 DEF ResponseEnds
<1>5. Wrote(c, n, p, m) /\ n \in ToSet(s.queue)
  BY <1>1, <1>2, <1>4, ForwardWrites
<1>6. /\ n \in NumbersOf(c)
      /\ \A d \in Clients : d # c => written'[d] = written[d]
      /\ \A j \in PlacesIn(written[c], n, 1) : j < m
      /\ PlacesIn(written'[c], n, 2) = PlacesIn(written[c], n, 2) \cup {m}
      /\ \A k : k # n =>
           PlacesIn(written'[c], k, 2) = PlacesIn(written[c], k, 2)
      /\ \A k : PlacesIn(written'[c], k, 1) = PlacesIn(written[c], k, 1)
  <2>1. p = 2 /\ 1 # p
    BY <1>3
  <2> QED
    BY <1>5, <2>1, Zenon DEF Wrote
<1> DEFINE q == s.queue
           t == [s EXCEPT !.queue = Tail(@), !.part = 0]
<1>7. /\ n = q[1] /\ Tail(q) \in Seq(Nat)
      /\ Len(Tail(q)) = Len(q) - 1 /\ Len(q) \in Nat
      /\ \A j \in 1 .. Len(Tail(q)) : Tail(q)[j] = q[j + 1]
      /\ ToSet(Tail(q)) = ToSet(q) \ {n}
  <2>1. \A j, k \in 1 .. Len(q) : q[j] = q[k] => j = k
    BY <1>2 DEF Serving
  <2> QED
    BY <1>1, <1>2, <2>1, QueueHas, LenProperties
<1>8. t \in Entry /\ t.client = c /\ t.queue = Tail(q) /\ t.part = 0
  <2> DEFINE r == Tail(q)
  <2>1. r \in Seq(Nat)
    BY <1>7
  <2> HIDE DEF r
  <2>2. LET u == [s EXCEPT !.queue = r, !.part = 0]
        IN  u \in Entry /\ u.client = s.client /\ u.queue = r /\ u.part = 0
    <3> HIDE DEF Keys
    <3> QED
      BY <1>2, <2>1 DEF Entry
  <2>3. t = [s EXCEPT !.queue = r, !.part = 0]
    BY Zenon DEF r
  <2> HIDE DEF t
  <2> QED
    BY <1>1, <2>2, <2>3 DEF r
<1>9. servers' = (servers \ {s}) \cup IF c \in Intercepted THEN {t} ELSE {}
  BY <1>1, <1>4 DEF AfterResponse
<1> HIDE DEF t
<1>10. c \in Intercepted => Serving(t)
  <2> SUFFICES ASSUME c \in Intercepted
               PROVE  Serving(t)
    OBVIOUS
  <2>1. /\ \A j \in 1 .. Len(q) : q[j] \in NumbersOf(c)
        /\ \A j, k \in 1 .. Len(q) : q[j] = q[k] => j = k
        /\ c \in up
    BY <1>1, <1>2 DEF Serving
  <2> DEFINE r == Tail(q)
  <2>2. /\ Len(r) = Len(q) - 1 /\ Len(q) \in Nat
        /\ \A j \in 1 .. Len(r) : r[j] = q[j + 1]
    BY <1>7
  <2> HIDE DEF q, r
  <2>3. \A j \in 1 .. Len(r) : j + 1 \in 1 .. Len(q)
    BY <2>2
  <2>4. \A j \in 1 .. Len(r) : r[j] \in NumbersOf(c)
    BY <2>1, <2>2, <2>3
  <2>5. \A j, k \in 1 .. Len(r) : r[j] = r[k] => j = k
    <3> SUFFICES ASSUME NEW j \in 1 .. Len(r), NEW k \in 1 .. Len(r),
                        r[j] = r[k]
                 PROVE  j = k
      OBVIOUS
    <3>1. q[j + 1] = q[k + 1]
      BY <2>2
    <3>2. j + 1 = k + 1
      BY <2>1, <2>3, <3>1
    <3>3. j \in Int /\ k \in Int
      OBVIOUS
    <3> QED
      BY <3>2, <3>3
  <2> QED
    BY <1>8, <2>1, <2>4, <2>5 DEF Serving, r
<1>11. Held'
  <2>1. asked[c][n] \in Ask
    BY <1>2, <1>6, ElementOfSeq DEF Shape, AskedOK, NumbersOf
  <2>2. \A empty \in BOOLEAN : [to |-> asked[c][n], empty |-> empty] \in Vals
    BY <2>1 DEF Vals
  <2>3. CASE UNCHANGED cache
    BY <1>2, <2>3 DEF Shape, Held, cache
  <2>4. CASE ~UNCHANGED cache
    <3>1. PICK empty \in BOOLEAN, max_age \in MaxAges :
            Cache!Put(s.key, [to |-> asked[c][n], empty |-> empty], max_age)
      BY <1>1, <1>4, <2>4 DEF CachePut
    <3>2. [to |-> asked[c][n], empty |-> empty] \in Vals
      BY <2>2
    <3> QED
      BY <1>2, <3>1, <3>2, PutHolds DEF Shape
  <2> QED
    BY <2>3, <2>4
<1>12. Shape'
  <2>1. \A u \in servers' : u \in servers \/ Serving(u)
    BY <1>9, <1>10
  <2> QED
    BY <1>2, <1>4, <1>11, <2>1, ResponseShape
<1>13. ASSUME NEW d \in Clients, NEW i \in NumbersOf(d)
       PROVE  InPlace(d, i)'
  <2>1. InPlace(d, i) /\ lost'[d] = lost[d]
    BY <1>4 DEF PlaceInv, InPlaces
  <2>2. With(d, i)' = (With(d, i) \ {s}) \cup
          IF d = c /\ i \in ToSet(q) \ {n} THEN {t} ELSE {}
    <3>1. CASE c \in Intercepted
      <4>1. With(d, i)' = (With(d, i) \ {s}) \cup
              IF t.client = d /\ i \in ToSet(t.queue) THEN {t} ELSE {}
        <5>1. /\ s \in servers /\ t.client = s.client
              /\ servers' = (servers \ {s}) \cup {t}
          BY <1>1, <1>8, <1>9, <3>1
        <5> QED
          BY ONLY <5>1, Exchanged
      <4> QED
        BY <1>7, <1>8, <4>1
    <3>2. CASE c \notin Intercepted
      <4>1. Len(q) = 1 /\ DOMAIN q = 1 .. Len(q)
        BY <1>1, <1>2, <3>2, LenProperties DEF Serving
      <4>2. ToSet(q) \ {n} = {}
        BY <1>7, <4>1 DEF ToSet
      <4>3. servers' = servers \ {s}
        BY <1>9, <3>2
      <4>4. With(d, i)' = With(d, i) \ {s}
        BY <4>3, Removed
      <4> QED
        BY <4>2, <4>4
    <3> QED
      BY <3>1, <3>2
  <2>3. /\ PlacesIn(written'[d], i, 1) = PlacesIn(written[d], i, 1)
        /\ ~(d = c /\ i = n) =>
             PlacesIn(written'[d], i, 2) = PlacesIn(written[d], i, 2)
    BY <1>6
  <2>4. CASE s \in With(d, i)
    <3>1. With(d, i) = {s} /\ d = c /\ i \in ToSet(q)
      BY <1>1, <2>1, <2>4 DEF InPlace, Placed, With, ServersOf
    <3>2. CASE i = n
      <4>1. With(d, i)' = {}
        BY <2>2, <3>1, <3>2
      <4>2. /\ Placed(i, PlacesIn(written[d], i, 1),
                      PlacesIn(written[d], i, 2), lost[d], {s})
            /\ s.part = 1 /\ Head(s.queue) = i
            /\ \A j \in PlacesIn(written[d], i, 1) : j < m
        BY <1>1, <1>2, <1>6, <2>1, <3>1, <3>2 DEF InPlace
      <4>3. Placed(i, PlacesIn(written[d], i, 1),
                   PlacesIn(written[d], i, 2) \cup {m}, lost[d], {})
        BY ONLY <4>2, Ends
      <4> QED
        BY <1>6, <2>1, <2>3, <3>1, <3>2, <4>1, <4>3 DEF InPlace
    <3>3. CASE i # n
      <4>1. With(d, i)' = {t}
        BY <2>2, <3>1, <3>3
      <4>2. /\ Placed(i, PlacesIn(written[d], i, 1),
                      PlacesIn(written[d], i, 2), lost[d], {s})
            /\ Head(s.queue) # i /\ t.part # 1
        BY <1>1, <1>8, <2>1, <3>1, <3>3 DEF InPlace
      <4>3. Placed(i, PlacesIn(written[d], i, 1),
                   PlacesIn(written[d], i, 2), lost[d], {t})
        BY ONLY <4>2, StaysWith
      <4> QED
        BY <2>1, <2>3, <3>3, <4>1, <4>3 DEF InPlace
    <3> QED
      BY <3>2, <3>3
  <2>5. CASE s \notin With(d, i)
    <3>1. ~(d = c /\ i \in ToSet(q))
      BY <1>1, <2>5 DEF With, ServersOf
    <3>2. With(d, i)' = With(d, i) /\ ~(d = c /\ i = n)
      BY <1>5, <2>2, <2>5, <3>1
    <3> QED
      BY <2>1, <2>3, <3>2 DEF InPlace
  <2> QED
    BY <2>4, <2>5
<1>14. \A d : NumbersOf(d)' = NumbersOf(d)
  BY <1>4 DEF NumbersOf
<1> QED
  BY <1>12, <1>13, <1>14 DEF PlaceInv, InPlaces

\* Every step keeps the requests in their places.
LEMMA PlacesStep == PlaceInv /\ [Next]_vars => PlaceInv'
<1> SUFFICES ASSUME PlaceInv, [Next]_vars
             PROVE  PlaceInv'
  OBVIOUS
<1>1. CASE \E c \in Clients, ask \in Ask : Miss(c, ask)
  <2>1. PICK c \in Clients, ask \in Ask : Miss(c, ask)
    BY <1>1
  <2>2. PICK key : key = KeyOf(ask)
    OBVIOUS
  <2>3. Request(c, ask) /\ up' = up /\ written' = written /\ Held'
    BY <2>1, ReadHolds DEF Miss, PlaceInv, Shape
  <2>4. key \in Keys \cup {NULL}
    BY <2>2 DEF Keys
  <2>5. \/ c \notin Intercepted /\ ForwardPlain(c, key)
        \/ \E s \in ServersOf(c) :
             c \in Intercepted /\ ForwardIntercepted(s, key)
    BY <2>1, <2>2 DEF Miss, ForwardMiss, KeyAfterMiss
  <2> QED
    BY <2>3, <2>4, <2>5, PlainPlaces, InterceptedPlaces
<1>2. CASE \E c \in Clients, ask \in Ask : Other(c, ask)
  <2>1. PICK c \in Clients, ask \in Ask : Other(c, ask)
    BY <1>2
  <2>2. Request(c, ask) /\ up' = up /\ written' = written /\ Held'
    BY <2>1 DEF Other, PlaceInv, Shape, Held, cache
  <2>3. CASE c \notin Intercepted /\ ForwardPlain(c, NULL)
    BY <2>2, <2>3, PlainPlaces
  <2>4. CASE \E s \in ServersOf(c) :
               c \in Intercepted /\ ForwardIntercepted(s, s.key)
    <3>1. PICK s \in ServersOf(c), key \in Keys \cup {NULL} :
            c \in Intercepted /\ ForwardIntercepted(s, key)
      BY <2>4 DEF PlaceInv, Shape, Serving, Entry, ServersOf
    <3> QED
      BY <2>2, <3>1, InterceptedPlaces
  <2> QED
    BY <2>1, <2>3, <2>4 DEF Other
<1>3. CASE \E c \in Clients, ask \in Ask : Hit(c, ask)
  BY <1>3, HitPlaces
<1>4. CASE \E s \in servers : ResponseBegins(s)
  BY <1>4, BeginsPlaces
<1>5. CASE \E s \in servers : ResponseEnds(s)
  BY <1>5, EndsPlaces
<1>6. CASE \E s \in servers : ServerCloses(s)
  <2>1. PICK s \in servers : ServerCloses(s)
    BY <1>6
  <2>2. asked' = asked /\ written' = written /\ Held'
    BY <2>1 DEF ServerCloses, PlaceInv, Shape, Held, cache
  <2> QED
    BY <2>1, <2>2, ServerGoes DEF ServerCloses
<1>7. CASE \E c \in Clients : ClientLeaves(c)
  <2>1. PICK c \in Clients : ClientLeaves(c)
    BY <1>7
  <2>2. asked' = asked /\ written' = written /\ Held'
    BY <2>1 DEF ClientLeaves, PlaceInv, Shape, Held, cache
  <2> QED
    BY <2>1, <2>2, LeavingPlaces DEF ClientLeaves
<1>8. CASE Tick \/ Finished \/ UNCHANGED vars
  <2>1. UNCHANGED <<up, servers, lost>> /\ asked' = asked /\ written' = written
    BY <1>8 DEF Tick, Finished, vars
  <2>2. Held'
    <3>1. CASE Tick
      BY <3>1, ReadHolds DEF Tick, PlaceInv, Shape
    <3>2. CASE Finished \/ UNCHANGED vars
      BY <3>2 DEF Finished, vars, PlaceInv, Shape, Held
    <3> QED
      BY <1>8, <3>1, <3>2
  <2>3. CASE Clients # {}
    BY <2>1, <2>2, <2>3, LeavingPlaces
  <2>4. CASE Clients = {}
    BY <2>1, <2>2, <2>4 DEF PlaceInv, Shape, InPlaces, AskedOK, Serving, Entry
  <2> QED
    BY <2>3, <2>4
<1> QED
  BY <1>1, <1>2, <1>3, <1>4, <1>5, <1>6, <1>7, <1>8 DEF Next

\* The sets and functions of the model have the types they should have.
THEOREM TypeCorrect == Spec => []TypeOK
<1>1. PlaceInv => TypeOK
  <2> SUFFICES ASSUME PlaceInv
               PROVE  TypeOK
    OBVIOUS
  <2>1. MaxRequests \in Nat /\ Shape
    BY ExchangeAssumption DEF PlaceInv
  <2>2. \A c \in Clients : NumbersOf(c) \subseteq 1 .. MaxRequests
    <3>1. \A c \in Clients : Len(asked[c]) \in Nat
      BY <2>1, LenProperties DEF Shape, AskedOK
    <3> QED
      BY <2>1, <3>1 DEF Shape, Numbered, NumbersOf
  <2>3. ASSUME NEW s \in servers
        PROVE  /\ s.client \in up /\ s.queue \in Seq(1 .. MaxRequests)
               /\ s.key \in Keys \cup {NULL} /\ s.part \in {0, 1}
    <3>1. Serving(s) /\ s.client \in Clients
      BY <2>1 DEF Shape, Serving, Entry
    <3>2. s.queue \in [1 .. Len(s.queue) -> 1 .. MaxRequests]
      <4>1. s.queue \in [1 .. Len(s.queue) -> Nat]
        BY <3>1, LenProperties DEF Serving, Entry
      <4>2. \A j \in 1 .. Len(s.queue) : s.queue[j] \in 1 .. MaxRequests
        BY <2>2, <3>1 DEF Serving
      <4> QED
        BY <4>1, <4>2
    <3>3. Len(s.queue) \in Nat
      BY <3>1, LenProperties DEF Serving, Entry
    <3>4. s.queue \in Seq(1 .. MaxRequests)
      BY <3>2, <3>3, SeqDef
    <3> QED
      BY <3>1, <3>4 DEF Serving, Entry
  <2> DEFINE Written == [request : 1 .. MaxRequests, part : Parts, to : Ask]
  <2>4. ASSUME NEW c \in Clients
        PROVE  written[c] \in Seq(Written)
    <3>1. Numbered(c) /\ written[c] \in Seq(Line)
      BY <2>1 DEF Shape, Numbered
    <3>2. /\ written[c] \in [1 .. Len(written[c]) -> Line]
          /\ Len(written[c]) \in Nat
      BY <3>1, LenProperties
    <3>3. \A j \in 1 .. Len(written[c]) : written[c][j] \in Written
      <4> SUFFICES ASSUME NEW j \in 1 .. Len(written[c])
                   PROVE  written[c][j] \in Written
        OBVIOUS
      <4>1. written[c][j] \in Line /\ written[c][j].request \in 1 .. MaxRequests
        BY <2>2, <3>1, <3>2 DEF Numbered
      <4> QED
        BY <4>1 DEF Line
    <3> HIDE DEF Written
    <3>4. written[c] \in [1 .. Len(written[c]) -> Written]
      BY <3>2, <3>3
    <3> QED
      BY <3>2, <3>4, SeqDef
  <2>5. written \in [Clients -> Seq(Written)]
    <3> HIDE DEF Written
    <3> QED
      BY <2>1, <2>4 DEF Shape
  <2>6. lost \in [Clients -> SUBSET (1 .. MaxRequests)]
    BY <2>1, <2>2 DEF Shape, Numbered
  <2> QED
    BY <2>1, <2>3, <2>5, <2>6 DEF TypeOK, Shape, AskedOK
<1> QED
  BY <1>1, StartPlaces, PlacesStep, PTL DEF Spec

\* However requests are pipelined and connections end, a request is with one
\* server, answered once, or lost: fast_forward never answers one twice, and
\* disconnect_client and a server that closes lose what they have, no more.
THEOREM NoneTwice == Spec => []OnePlace
<1>1. PlaceInv => OnePlace
  <2> SUFFICES ASSUME PlaceInv, NEW c \in Clients, NEW i \in DOMAIN asked[c]
               PROVE  InPlace(c, i)
    BY DEF OnePlace, InPlace
  <2>1. DOMAIN asked[c] = NumbersOf(c)
    BY LenProperties DEF PlaceInv, Shape, AskedOK, NumbersOf
  <2> QED
    BY <2>1 DEF PlaceInv, InPlaces
<1> QED
  BY <1>1, StartPlaces, PlacesStep, PTL DEF Spec

-----------------------------------------------------------------------------
(* One answer after the other.                                             *)

\* The lines of w are those of whole answers in the order of the requests, up
\* to the one that is being written.
InOrder(w) ==
  \A j \in 1 .. Len(w) :
    w[j].part = 2 - (j % 2) /\ w[j].request = (j + 1) \div 2

\* The number of lines that a client's requests amount to: two for each one
\* that is answered, part of an answer for the one that is with a server.
Amounts(c) ==
  LET requests == Len(asked[c])
      lines == Len(written[c])
  IN  /\ Outstanding(c) = {} /\ lost[c] = {} => lines = 2 * requests
      /\ \A s \in ServersOf(c) : s.queue # <<>> =>
           s.queue = <<requests>> /\ lines = 2 * (requests - 1) + s.part

\* A client that waits has its answers one by one.
OneByOne(c) == InOrder(written[c]) /\ Amounts(c)

\* The invariant for the clients that wait.
OrderInv == PlaceInv /\ \A c \in Patient : OneByOne(c)

\* Lines that follow keep the order.
LEMMA OrderGrows ==
  ASSUME NEW w, NEW v, Len(w) \in Nat, Len(v) \in Nat, InOrder(w),
         \A j \in 1 .. Len(w) : v[j] = w[j],
         \A j \in Len(w) + 1 .. Len(v) :
           v[j].part = 2 - (j % 2) /\ v[j].request = (j + 1) \div 2
  PROVE  InOrder(v)
<1> SUFFICES ASSUME NEW j \in 1 .. Len(v)
             PROVE  v[j].part = 2 - (j % 2) /\ v[j].request = (j + 1) \div 2
  BY DEF InOrder
<1>1. CASE j <= Len(w)
  BY <1>1 DEF InOrder
<1>2. CASE ~(j <= Len(w))
  <2>1. j \in Len(w) + 1 .. Len(v)
    BY <1>2
  <2> QED
    BY <2>1
<1> QED
  BY <1>1, <1>2

\* The lines of the n-th answer are the lines 2n-1 and 2n.
LEMMA LinesOf ==
  ASSUME NEW n \in Nat
  PROVE  /\ 2 - ((2 * n - 1) % 2) = 1 /\ ((2 * n - 1) + 1) \div 2 = n
         /\ 2 - ((2 * n) % 2) = 2 /\ (2 * n + 1) \div 2 = n
OBVIOUS

\* A client is as it was when nothing happens to what is its own.
LEMMA Untouched ==
  ASSUME NEW c \in Clients, OneByOne(c), asked'[c] = asked[c],
         written'[c] = written[c], lost'[c] = lost[c],
         ServersOf(c)' = ServersOf(c)
  PROVE  OneByOne(c)'
<1>1. Outstanding(c)' = Outstanding(c)
  BY DEF Outstanding
<1> QED
  BY <1>1 DEF OneByOne, Amounts

\* The client that waits has nothing with a server when it asks.
LEMMA NothingWaits ==
  ASSUME Shape, NEW c \in Clients, Outstanding(c) = {}
  PROVE  \A s \in ServersOf(c) : s.queue = <<>> /\ s.part = 0
<1> SUFFICES ASSUME NEW s \in servers, s.client = c
             PROVE  s.queue = <<>> /\ s.part = 0
  BY DEF ServersOf
<1>1. Serving(s) /\ s.queue \in Seq(Nat)
  BY DEF Shape, Serving, Entry
<1>2. s.queue = <<>>
  <2> SUFFICES ASSUME s.queue # <<>>
               PROVE  FALSE
    OBVIOUS
  <2>1. Head(s.queue) \in ToSet(s.queue)
    BY <1>1, QueueHas DEF Serving
  <2> QED
    BY <2>1 DEF Outstanding, ServersOf
<1> QED
  BY <1>1, <1>2 DEF Serving, Entry

\* The client that waits has one server at most that has anything.
LEMMA OneWaits ==
  ASSUME OrderInv, NEW c \in Patient, NEW s \in ServersOf(c), s.queue # <<>>
  PROVE  /\ Len(asked[c]) \in NumbersOf(c) /\ Len(asked[c]) \in Nat
         /\ s.queue = <<Len(asked[c])>> /\ Head(s.queue) = Len(asked[c])
         /\ Len(written[c]) = 2 * (Len(asked[c]) - 1) + s.part
         /\ \A t \in ServersOf(c) : t.queue # <<>> => t = s
<1>1. c \in Clients /\ OneByOne(c) /\ Shape /\ Serving(s) /\ s \in servers
  BY ExchangeAssumption DEF OrderInv, PlaceInv, Shape, ServersOf
<1>2. PICK n : n = Len(asked[c])
  OBVIOUS
<1>3. n \in Nat
  BY <1>1, <1>2, LenProperties DEF Shape, AskedOK
<1>4. \A t \in ServersOf(c) : t.queue # <<>> =>
        t.queue = <<n>> /\ Len(written[c]) = 2 * (n - 1) + t.part
  BY <1>1, <1>2 DEF OneByOne, Amounts
<1>5. Len(<<n>>) = 1 /\ <<n>>[1] = n /\ ToSet(<<n>>) = {n}
  BY DEF ToSet
<1>6. n \in NumbersOf(c)
  <2>1. s.queue[1] \in NumbersOf(s.client)
    BY <1>1, <1>4, <1>5 DEF Serving
  <2> QED
    BY <1>4, <1>5, <2>1 DEF ServersOf
<1>7. ASSUME NEW t \in ServersOf(c), t.queue # <<>>
      PROVE  t = s
  <2>1. s \in With(c, n) /\ t \in With(c, n)
    BY <1>4, <1>5, <1>7 DEF With
  <2>2. InPlace(c, n)
    BY <1>1, <1>6 DEF OrderInv, PlaceInv, InPlaces
  <2> QED
    BY <2>1, <2>2 DEF InPlace, Placed
<1> QED
  BY <1>2, <1>3, <1>4, <1>6, <1>7

\* A client that leaves leaves nothing but what is lost.
LEMMA OrderLeaving ==
  ASSUME OrderInv, NEW d \in Clients,
         Disconnect(d) \/ UNCHANGED <<up, servers, lost>>,
         NEW c \in Patient, asked'[c] = asked[c], written'[c] = written[c]
  PROVE  OneByOne(c)'
<1>1. c \in Clients /\ OneByOne(c) /\ Shape
  BY ExchangeAssumption DEF OrderInv, PlaceInv
<1>2. CASE UNCHANGED <<up, servers, lost>>
  <2>1. ServersOf(c)' = ServersOf(c)
    BY <1>2 DEF ServersOf
  <2> QED
    BY <1>1, <1>2, <2>1, Untouched
<1>3. CASE Disconnect(d)
  <2>1. /\ servers' = servers \ ServersOf(d)
        /\ lost' = [lost EXCEPT ![d] = @ \cup Outstanding(d)]
    BY <1>3 DEF Disconnect, Loses
  <2>2. CASE c # d
    <3>1. ServersOf(c)' = ServersOf(c)
      BY <2>1, <2>2 DEF ServersOf
    <3>2. lost'[c] = lost[c]
      BY <2>1, <2>2
    <3> QED
      BY <1>1, <3>1, <3>2, Untouched
  <2>3. CASE c = d
    <3>1. ServersOf(c)' = {}
      BY <2>1, <2>3 DEF ServersOf
    <3>2. lost'[c] = lost[c] \cup Outstanding(c)
      BY <1>1, <2>1, <2>3 DEF Shape
    <3>3. lost'[c] = {} => Outstanding(c) = {} /\ lost[c] = {}
      BY <3>2
    <3> QED
      BY <1>1, <3>1, <3>3 DEF OneByOne, Amounts
  <2> QED
    BY <2>2, <2>3
<1> QED
  BY <1>2, <1>3

\* The client that asks has its request with one server, or has lost it.
LEMMA OrderAsked ==
  ASSUME OrderInv, NEW c \in Patient, NEW ask, Request(c, ask),
         written' = written,
         \/ \E s \in servers' :
              /\ s.client = c /\ s.queue = <<Number(c)>> /\ s.part = 0
              /\ \A t \in servers' : t.client = c => t = s \/ t \in servers
         \/ servers' = servers /\ lost'[c] # {}
  PROVE  OneByOne(c)'
<1>1. c \in Clients /\ Shape /\ OneByOne(c)
  BY ExchangeAssumption DEF OrderInv, PlaceInv
<1>2. Outstanding(c) = {} /\ lost[c] = {}
  BY DEF Request
<1>3. \A s \in ServersOf(c) : s.queue = <<>>
  BY <1>1, <1>2, NothingWaits
<1>4. PICK n \in Nat : n = Number(c) /\ Len(asked'[c]) = n
  BY <1>1, NumbersGrow DEF Shape
<1>5. Len(written[c]) = 2 * (n - 1)
  <2>1. Len(asked[c]) \in Nat
    BY <1>1, LenProperties DEF Shape, AskedOK
  <2> QED
    BY <1>1, <1>2, <1>4, <2>1 DEF OneByOne, Amounts, Number
<1>6. CASE \E s \in servers' :
             /\ s.client = c /\ s.queue = <<Number(c)>> /\ s.part = 0
             /\ \A t \in servers' : t.client = c => t = s \/ t \in servers
  <2>1. PICK s \in servers' :
          /\ s.client = c /\ s.queue = <<n>> /\ s.part = 0
          /\ \A t \in servers' : t.client = c => t = s \/ t \in servers
    BY <1>4, <1>6
  <2>2. \A t \in ServersOf(c)' : t.queue # <<>> =>
          t.queue = <<n>> /\ t.part = 0
    BY <1>3, <2>1 DEF ServersOf
  <2>3. Outstanding(c)' # {}
    <3>1. n \in ToSet(s.queue)
      BY <2>1 DEF ToSet
    <3> QED
      BY <2>1, <3>1 DEF Outstanding, ServersOf
  <2>4. 2 * (n - 1) = 2 * (n - 1) + 0
    OBVIOUS
  <2> QED
    BY <1>1, <1>4, <1>5, <2>2, <2>3, <2>4 DEF OneByOne, Amounts
<1>7. CASE servers' = servers /\ lost'[c] # {}
  <2>1. \A s \in ServersOf(c)' : s.queue = <<>>
    BY <1>3, <1>7 DEF ServersOf
  <2> QED
    BY <1>1, <1>7, <2>1 DEF OneByOne, Amounts
<1> QED
  BY <1>6, <1>7

\* Others ask without touching what is the client's.
LEMMA OrderPlain ==
  ASSUME OrderInv, NEW d \in Clients \ Intercepted, NEW ask, Request(d, ask),
         NEW key, ForwardPlain(d, key), written' = written, NEW c \in Patient
  PROVE  OneByOne(c)'
<1>1. c \in Clients /\ Shape /\ OneByOne(c)
  BY ExchangeAssumption DEF OrderInv, PlaceInv
<1>2. PICK n \in Nat : n = Number(d)
  BY <1>1, NumbersGrow DEF Shape
<1> DEFINE new == NewServer(d, <<n>>, key)
<1>3. \/ servers' = servers \cup {new} /\ lost' = lost
      \/ /\ servers' = servers
         /\ \A e \in Clients :
              lost'[e] = IF e = d THEN lost[d] \cup {n} ELSE lost[e]
  <2>1. {n} \in SUBSET Nat
    OBVIOUS
  <2> QED
    BY <1>1, <1>2, <2>1, LostGrows DEF ForwardPlain, Shape
<1>4. new.client = d /\ new.queue = <<n>> /\ new.part = 0
  BY DEF NewServer
<1> HIDE DEF new
<1>5. CASE c # d
  <2>1. asked'[c] = asked[c]
    BY <1>1, <1>5 DEF Request
  <2>2. ServersOf(c)' = ServersOf(c)
    BY <1>3, <1>4, <1>5 DEF ServersOf
  <2>3. lost'[c] = lost[c]
    BY <1>1, <1>3, <1>5
  <2> QED
    BY <1>1, <2>1, <2>2, <2>3, Untouched
<1>6. CASE c = d
  <2>1. \/ \E s \in servers' :
             /\ s.client = c /\ s.queue = <<Number(c)>> /\ s.part = 0
             /\ \A t \in servers' : t.client = c => t = s \/ t \in servers
        \/ servers' = servers /\ lost'[c] # {}
    BY <1>1, <1>2, <1>3, <1>4, <1>6
  <2> QED
    BY <1>6, <2>1, OrderAsked
<1> QED
  BY <1>5, <1>6

\* The same on intercepted connections.
LEMMA OrderIntercepted ==
  ASSUME OrderInv, NEW d \in Clients, NEW ask, Request(d, ask),
         NEW key, NEW s \in ServersOf(d), ForwardIntercepted(s, key),
         written' = written, NEW c \in Patient
  PROVE  OneByOne(c)'
<1>1. /\ c \in Clients /\ Shape /\ OneByOne(c)
      /\ s \in servers /\ s.client = d /\ s \in Entry
  BY ExchangeAssumption DEF OrderInv, PlaceInv, Shape, Serving, ServersOf
<1>2. PICK n \in Nat : n = Number(d)
  BY <1>1, NumbersGrow DEF Shape
<1> DEFINE q == Append(s.queue, n)
           t == [s EXCEPT !.queue = Append(@, n), !.key = key]
<1>3. servers' = (servers \ {s}) \cup {t} /\ lost' = lost
  BY <1>1, <1>2 DEF ForwardIntercepted
<1>4. t.client = d /\ t.queue = q /\ t.part = s.part
  <2> HIDE DEF q
  <2>1. LET u == [s EXCEPT !.queue = q, !.key = key]
        IN  u.client = s.client /\ u.queue = q /\ u.part = s.part
    BY <1>1 DEF Entry
  <2>2. t = [s EXCEPT !.queue = q, !.key = key]
    BY Zenon DEF q
  <2> HIDE DEF t
  <2> QED
    BY <1>1, <2>1, <2>2
<1> HIDE DEF t
<1>5. CASE c # d
  <2>1. asked'[c] = asked[c] /\ lost'[c] = lost[c]
    BY <1>1, <1>3, <1>5 DEF Request
  <2>2. ServersOf(c)' = ServersOf(c)
    BY <1>1, <1>3, <1>4, <1>5 DEF ServersOf
  <2> QED
    BY <1>1, <2>1, <2>2, Untouched
<1>6. CASE c = d
  <2>1. Outstanding(c) = {}
    BY <1>6 DEF Request
  <2>2. s.queue = <<>> /\ s.part = 0
    BY <1>1, <1>6, <2>1, NothingWaits
  <2>3. q = <<n>>
    BY <2>2
  <2>4. \E u \in servers' :
             /\ u.client = c /\ u.queue = <<Number(c)>> /\ u.part = 0
             /\ \A v \in servers' : v.client = c => v = u \/ v \in servers
    <3>1. /\ t \in servers' /\ t.client = c
          /\ t.queue = <<Number(c)>> /\ t.part = 0
      BY <1>2, <1>3, <1>4, <1>6, <2>2, <2>3
    <3>2. \A v \in servers' : v = t \/ v \in servers
      BY <1>3
    <3> QED
      BY <3>1, <3>2
  <2> QED
    BY <1>6, <2>4, OrderAsked
<1> QED
  BY <1>5, <1>6

\* A hit is a whole answer behind the others.
LEMMA OrderHit ==
  ASSUME OrderInv, NEW d \in Clients, NEW ask, Hit(d, ask), NEW c \in Patient
  PROVE  OneByOne(c)'
<1>1. c \in Clients /\ Shape /\ OneByOne(c) /\ Request(d, ask)
  BY ExchangeAssumption DEF OrderInv, PlaceInv, Hit
<1>2. Disconnect(d) \/ UNCHANGED <<up, servers, lost>>
  BY DEF Hit, AfterHit
<1>3. CASE c # d
  <2>1. asked'[c] = asked[c] /\ written'[c] = written[c]
    BY <1>1, <1>3 DEF Request, Hit, WriteHit
  <2> QED
    BY <1>2, <2>1, OrderLeaving
<1>4. CASE c = d
  <2>1. Outstanding(c) = {} /\ lost[c] = {}
    BY <1>1, <1>4 DEF Request
  <2>2. \A s \in ServersOf(c)' : s.queue = <<>>
    <3>1. servers' \subseteq servers
      BY <1>2 DEF Disconnect
    <3> QED
      BY <1>1, <2>1, <3>1, NothingWaits DEF ServersOf
  <2>3. PICK n \in Nat : /\ n = Number(c) /\ Len(asked'[c]) = n
                         /\ Len(asked[c]) = n - 1 /\ Len(asked[c]) \in Nat
    <3>1. Number(c) \in Nat /\ Len(asked'[c]) = Number(c)
      BY <1>1, <1>4, NumbersGrow DEF Shape
    <3>2. Len(asked[c]) \in Nat
      BY <1>1, LenProperties DEF Shape, AskedOK
    <3> QED
      BY <3>1, <3>2 DEF Number
  <2> DEFINE w == written[c]
             m == Len(w)
  <2>4. w \in Seq(Line) /\ m = 2 * (n - 1)
    BY <1>1, <2>1, <2>3 DEF Shape, OneByOne, Amounts
  <2>5. PICK to \in Ask :
          written'[c] = w \o [p \in Parts |-> Part(n, p, to)]
    <3>1. \E to \in Ask :
            written' = [written EXCEPT ![c] =
                          @ \o [p \in Parts |-> Part(Number(c), p, to)]]
      BY <1>1, <1>4, HitWrites
    <3>2. written \in [Clients -> Seq(Line)]
      BY <1>1 DEF Shape
    <3> QED
      BY <1>1, <2>3, <3>1, <3>2
  <2> DEFINE new == w \o [p \in Parts |-> Part(n, p, to)]
  <2>6. /\ m \in Nat /\ Len(new) = m + 2
        /\ \A j \in 1 .. m : new[j] = w[j]
        /\ new[m + 1].part = 1 /\ new[m + 1].request = n
        /\ new[m + 2].part = 2 /\ new[m + 2].request = n
    <3>1. /\ m \in Nat /\ Len(new) = m + 2
          /\ \A j \in 1 .. m : new[j] = w[j]
          /\ new[m + 1] = Part(n, 1, to) /\ new[m + 2] = Part(n, 2, to)
      <4>1. /\ m \in Nat /\ new \in Seq(Line) /\ Len(new) = m + 2
            /\ \A j \in 1 .. m : new[j] = w[j]
            /\ new[m + 1] = Part(n, 1, to) /\ new[m + 2] = Part(n, 2, to)
            /\ \A i : PlacesIn(new, i, 1) = PlacesIn(w, i, 1) \cup
                        IF i = n THEN {m + 1} ELSE {}
            /\ \A i : PlacesIn(new, i, 2) = PlacesIn(w, i, 2) \cup
                        IF i = n THEN {m + 2} ELSE {}
        <5>1. w \in Seq(Line)
          BY <2>4
        <5> QED
          BY <5>1, BothAdded
      <4> QED
        BY <4>1
    <3> HIDE DEF new, w
    <3> QED
      BY <3>1 DEF Part
  <2> HIDE DEF new, w
  <2>7. /\ 2 - ((m + 1) % 2) = 1 /\ ((m + 1) + 1) \div 2 = n
        /\ 2 - ((m + 2) % 2) = 2 /\ ((m + 2) + 1) \div 2 = n
    <3>1. m + 1 = 2 * n - 1 /\ m + 2 = 2 * n
      BY <2>3, <2>4, <2>6
    <3> QED
      BY <3>1, LinesOf
  <2>8. \A j \in m + 1 .. Len(new) :
          new[j].part = 2 - (j % 2) /\ new[j].request = (j + 1) \div 2
    <3> SUFFICES ASSUME NEW j \in m + 1 .. Len(new)
                 PROVE  new[j].part = 2 - (j % 2)
                        /\ new[j].request = (j + 1) \div 2
      OBVIOUS
    <3>1. j = m + 1 \/ j = m + 2
      BY <2>6
    <3> QED
      BY <2>6, <2>7, <3>1
  <2>9. InOrder(new)
    <3>1. InOrder(w)
      BY <1>1 DEF OneByOne, w
    <3>2. Len(new) \in Nat
      BY <2>6
    <3> QED
      BY <2>6, <2>8, <3>1, <3>2, OrderGrows
  <2>10. Len(new) = 2 * n
    BY <2>3, <2>4, <2>6
  <2>11. written'[c] = new
    BY <2>5 DEF new, w
  <2> QED
    BY <2>2, <2>3, <2>9, <2>10, <2>11 DEF OneByOne, Amounts
<1> QED
  BY <1>3, <1>4

\* The line that is written next keeps the order if it is the next one.
LEMMA NextInOrder ==
  ASSUME NEW c, NEW n, NEW p, NEW m, Wrote(c, n, p, m), InOrder(written[c]),
         p = 2 - (m % 2), n = (m + 1) \div 2
  PROVE  InOrder(written'[c])
<1>1. /\ Len(written[c]) \in Nat /\ Len(written'[c]) = m /\ m \in Nat
      /\ m = Len(written[c]) + 1
      /\ \A j \in 1 .. Len(written[c]) : written'[c][j] = written[c][j]
      /\ written'[c][m].request = n /\ written'[c][m].part = p
  BY DEF Wrote
<1>2. \A j \in Len(written[c]) + 1 .. Len(written'[c]) :
        written'[c][j].part = 2 - (j % 2)
        /\ written'[c][j].request = (j + 1) \div 2
  <2>1. \A j \in Len(written[c]) + 1 .. Len(written'[c]) : j = m
    BY <1>1
  <2> QED
    BY <1>1, <2>1
<1> QED
  BY <1>1, <1>2, OrderGrows

\* The beginning of the answer follows the answers before it.
LEMMA OrderBegins ==
  ASSUME OrderInv, NEW s \in servers, ResponseBegins(s), NEW c \in Patient
  PROVE  OneByOne(c)'
<1>1. /\ c \in Clients /\ Shape /\ OneByOne(c)
      /\ s.client \in Clients /\ s \in Entry
  BY ExchangeAssumption DEF OrderInv, PlaceInv, Shape, Serving, Entry
<1> DEFINE t == [s EXCEPT !.part = 1]
<1>2. /\ s.queue # <<>> /\ s.part = 0 /\ FastForward(s, 1)
      /\ servers' = (servers \ {s}) \cup {t}
      /\ asked' = asked /\ lost' = lost
  BY DEF ResponseBegins
<1>3. t.client = s.client /\ t.queue = s.queue /\ t.part = 1
  BY <1>1 DEF Entry
<1> HIDE DEF t
<1>4. CASE c # s.client
  <2>1. written'[c] = written[c]
    BY <1>1, <1>2, <1>4 DEF FastForward
  <2>2. ServersOf(c)' = ServersOf(c)
    BY <1>2, <1>3, <1>4 DEF ServersOf
  <2> QED
    BY <1>1, <1>2, <2>1, <2>2, Untouched
<1>5. CASE c = s.client
  <2>1. PICK p \in Parts : p = 1
    BY DEF Parts
  <2>2. PICK n, m :
          n = Len(asked[c]) /\ m = Len(written[c]) + 1 /\ p = 1
    BY <2>1
  <2>3. s \in ServersOf(c)
    BY <1>5 DEF ServersOf
  <2>4. /\ n \in Nat /\ s.queue = <<n>> /\ Head(s.queue) = n
        /\ Len(written[c]) = 2 * (n - 1) + s.part
        /\ \A u \in ServersOf(c) : u.queue # <<>> => u = s
    BY <1>2, <2>2, <2>3, OneWaits
  <2>5. FastForward(s, p)
    BY <1>2, <2>2
  <2>6. Wrote(c, n, p, m)
    BY <1>1, <1>2, <1>5, <2>2, <2>4, <2>5, ForwardWrites
  <2>7. m = 2 * n - 1
    BY <1>2, <2>2, <2>4
  <2>8. InOrder(written'[c])
    <3>1. InOrder(written[c])
      BY <1>1 DEF OneByOne
    <3>2. p = 2 - (m % 2) /\ n = (m + 1) \div 2
      BY <2>2, <2>4, <2>7, LinesOf
    <3> QED
      BY <2>6, <3>1, <3>2, NextInOrder
  <2>9. \A u \in ServersOf(c)' : u.queue # <<>> => u = t
    BY <1>2, <2>4 DEF ServersOf
  <2>10. Outstanding(c)' # {}
    <3>1. n \in ToSet(t.queue)
      BY <1>3, <2>4 DEF ToSet
    <3>2. t \in ServersOf(c)'
      BY <1>2, <1>3, <1>5 DEF ServersOf
    <3> QED
      BY <3>1, <3>2 DEF Outstanding
  <2>11. Len(written'[c]) = 2 * (n - 1) + 1
    BY <2>4, <2>6, <2>7 DEF Wrote
  <2> QED
    BY <1>2, <1>3, <2>2, <2>4, <2>8, <2>9, <2>10, <2>11 DEF OneByOne, Amounts
<1> QED
  BY <1>4, <1>5

\* The end of the answer follows its beginning.
LEMMA OrderEnds ==
  ASSUME OrderInv, NEW s \in servers, ResponseEnds(s), NEW c \in Patient
  PROVE  OneByOne(c)'
<1>1. /\ c \in Clients /\ Shape /\ OneByOne(c) /\ Serving(s)
      /\ s.client \in Clients /\ s \in Entry
  BY ExchangeAssumption DEF OrderInv, PlaceInv, Shape, Serving, Entry
<1> DEFINE t == [s EXCEPT !.queue = Tail(@), !.part = 0]
<1>2. /\ s.queue # <<>> /\ s.part = 1 /\ FastForward(s, 2)
      /\ servers' = (servers \ {s}) \cup
           IF s.client \in Intercepted THEN {t} ELSE {}
      /\ asked' = asked /\ lost' = lost
  BY <1>1 DEF ResponseEnds, AfterResponse, Serving
<1>3. t.client = s.client /\ t.queue = Tail(s.queue)
  BY <1>1 DEF Entry
<1> HIDE DEF t
<1>4. CASE c # s.client
  <2>1. written'[c] = written[c]
    BY <1>1, <1>2, <1>4 DEF FastForward
  <2>2. ServersOf(c)' = ServersOf(c)
    BY <1>2, <1>3, <1>4 DEF ServersOf
  <2> QED
    BY <1>1, <1>2, <2>1, <2>2, Untouched
<1>5. CASE c = s.client
  <2>1. PICK p \in Parts : p = 2
    BY DEF Parts
  <2>2. PICK n, m :
          n = Len(asked[c]) /\ m = Len(written[c]) + 1 /\ p = 2
    BY <2>1
  <2>3. s \in ServersOf(c)
    BY <1>5 DEF ServersOf
  <2>4. /\ n \in Nat /\ s.queue = <<n>> /\ Head(s.queue) = n
        /\ Len(written[c]) = 2 * (n - 1) + s.part
        /\ \A u \in ServersOf(c) : u.queue # <<>> => u = s
    BY <1>2, <2>2, <2>3, OneWaits
  <2>5. FastForward(s, p)
    BY <1>2, <2>2
  <2>6. Wrote(c, n, p, m)
    BY <1>1, <1>2, <1>5, <2>2, <2>4, <2>5, ForwardWrites
  <2>7. m = 2 * n
    BY <1>2, <2>2, <2>4
  <2>8. InOrder(written'[c])
    <3>1. InOrder(written[c])
      BY <1>1 DEF OneByOne
    <3>2. p = 2 - (m % 2) /\ n = (m + 1) \div 2
      BY <2>2, <2>4, <2>7, LinesOf
    <3> QED
      BY <2>6, <3>1, <3>2, NextInOrder
  <2>9. t.queue = <<>>
    BY <1>3, <2>4
  <2>10. \A u \in ServersOf(c)' : u.queue = <<>>
    BY <1>2, <2>4, <2>9 DEF ServersOf
  <2>11. Len(written'[c]) = 2 * n
    BY <2>6, <2>7 DEF Wrote
  <2> QED
    BY <1>2, <2>2, <2>8, <2>10, <2>11 DEF OneByOne, Amounts
<1> QED
  BY <1>4, <1>5

\* A server that goes loses the requests it has.
LEMMA OrderCloses ==
  ASSUME OrderInv, NEW s \in servers, servers' = servers \ {s},
         Loses(s.client, ToSet(s.queue)),
         asked' = asked, written' = written, NEW c \in Patient
  PROVE  OneByOne(c)'
<1>1. /\ c \in Clients /\ Shape /\ OneByOne(c) /\ Serving(s)
      /\ s.queue \in Seq(Nat)
  BY ExchangeAssumption DEF OrderInv, PlaceInv, Shape, Serving, Entry
<1>2. lost' = [lost EXCEPT ![s.client] = @ \cup ToSet(s.queue)]
  BY DEF Loses
<1>3. CASE c # s.client
  <2>1. ServersOf(c)' = ServersOf(c)
    BY <1>3 DEF ServersOf
  <2>2. lost'[c] = lost[c]
    BY <1>2, <1>3
  <2> QED
    BY <1>1, <2>1, <2>2, Untouched
<1>4. CASE c = s.client
  <2>1. lost'[c] = lost[c] \cup ToSet(s.queue)
    BY <1>1, <1>2, <1>4 DEF Shape
  <2>2. Outstanding(c) = Outstanding(c)' \cup ToSet(s.queue)
    BY <1>4 DEF Outstanding, ServersOf
  <2>3. \A u \in ServersOf(c)' : u \in ServersOf(c)
    BY DEF ServersOf
  <2> QED
    BY <1>1, <2>1, <2>2, <2>3 DEF OneByOne, Amounts
<1> QED
  BY <1>3, <1>4

\* At the start nothing has been written.
LEMMA StartOrder == Init => OrderInv
<1> SUFFICES ASSUME Init, NEW c \in Patient
             PROVE  OneByOne(c)
  BY StartPlaces DEF OrderInv
<1>1. c \in Clients /\ asked[c] = <<>> /\ written[c] = <<>>
  BY ExchangeAssumption DEF Init
<1>2. Len(<<>>) = 0
  OBVIOUS
<1>3. \A s \in servers : s.queue = <<>>
  BY DEF Init, NewServer
<1> QED
  BY <1>1, <1>2, <1>3 DEF OneByOne, InOrder, Amounts, ServersOf

\* Every step keeps the order.
LEMMA OrderStep == OrderInv /\ [Next]_vars => OrderInv'
<1> SUFFICES ASSUME OrderInv, [Next]_vars, NEW c \in Patient
             PROVE  OneByOne(c)'
  BY PlacesStep DEF OrderInv
<1>1. Shape /\ c \in Clients
  BY ExchangeAssumption DEF OrderInv, PlaceInv
<1>2. CASE \E d \in Clients, ask \in Ask : Miss(d, ask) \/ Other(d, ask)
  <2>1. PICK d \in Clients, ask \in Ask : Miss(d, ask) \/ Other(d, ask)
    BY <1>2
  <2>2. Request(d, ask) /\ written' = written
    BY <2>1 DEF Miss, Other
  <2>3. \E key :
          \/ d \notin Intercepted /\ ForwardPlain(d, key)
          \/ \E s \in ServersOf(d) : ForwardIntercepted(s, key)
    BY <2>1 DEF Miss, Other, ForwardMiss
  <2> QED
    BY <2>2, <2>3, OrderPlain, OrderIntercepted
<1>3. CASE \E d \in Clients, ask \in Ask : Hit(d, ask)
  BY <1>3, OrderHit
<1>4. CASE \E s \in servers : ResponseBegins(s)
  BY <1>4, OrderBegins
<1>5. CASE \E s \in servers : ResponseEnds(s)
  BY <1>5, OrderEnds
<1>6. CASE \E s \in servers : ServerCloses(s)
  <2>1. PICK s \in servers : ServerCloses(s)
    BY <1>6
  <2> QED
    BY <2>1, OrderCloses DEF ServerCloses
<1>7. CASE \E d \in Clients : ClientLeaves(d)
  <2>1. PICK d \in Clients : ClientLeaves(d)
    BY <1>7
  <2>2. asked' = asked /\ written' = written /\ Disconnect(d)
    BY <2>1 DEF ClientLeaves
  <2> QED
    BY <2>2, OrderLeaving
<1>8. CASE Tick \/ Finished \/ UNCHANGED vars
  <2>1. UNCHANGED <<up, servers, lost>> /\ asked' = asked /\ written' = written
    BY <1>8 DEF Tick, Finished, vars
  <2> QED
    BY <1>1, <2>1, OrderLeaving
<1> QED
  BY <1>2, <1>3, <1>4, <1>5, <1>6, <1>7, <1>8 DEF Next

\* A client that waits for each answer gets the parts of the answers one by
\* one, in the order of its requests, from servers and cache in any mixture.
THEOREM InTurn == Spec => []PatientInOrder
<1>1. OrderInv => PatientInOrder
  <2> SUFFICES ASSUME OrderInv, NEW c \in Patient, NEW j \in DOMAIN written[c]
               PROVE  /\ written[c][j].part = 2 - (j % 2)
                      /\ written[c][j].request = (j + 1) \div 2
    BY DEF PatientInOrder
  <2>1. c \in Clients /\ InOrder(written[c]) /\ written[c] \in Seq(Line)
    BY ExchangeAssumption DEF OrderInv, OneByOne, PlaceInv, Shape
  <2>2. j \in 1 .. Len(written[c])
    BY <2>1, LenProperties
  <2> QED
    BY <2>1, <2>2 DEF InOrder
<1> QED
  BY <1>1, StartOrder, OrderStep, PTL DEF Spec
=============================================================================
