------------------------------- MODULE Exchange -------------------------------
(***************************************************************************)
(* Requests, responses and cache keys: handle_get_request,                 *)
(* handle_other_request, fast_forward and handle_server_response over the  *)
(* server entries of the socket table and the cache.  Descriptors are the  *)
(* business of Proxy and bytes that of Framing; the cache is its           *)
(* abstraction Store.                                                      *)
(*                                                                         *)
(* A plain client has one server for each request that is forwarded.  An   *)
(* intercepted client has had its CONNECT: it has one server for all.      *)
(***************************************************************************)
EXTENDS Integers, SequencesExt

CONSTANTS
  Clients,
  Intercepted,  \* the clients whose connection is intercepted
  Patient,      \* the clients that wait for an answer before they go on
  Asks,         \* what each client may ask for: method, hostname, port and
                \* url, the url as the client writes it
  Capacity,     \* of the cache
  MaxAges,      \* the max-age a response may come with
  MaxRequests,  \* bound: the requests of one client
  MaxTime,      \* bound: seconds the model runs for
  NULL

ASSUME ExchangeAssumption ==
  /\ Intercepted \subseteq Clients /\ Patient \subseteq Clients
  /\ MaxRequests \in Nat /\ MaxTime \in Nat

VARIABLES
  up,       \* the connected clients
  asked,    \* asked[c]: the requests c has sent
  servers,  \* the server entries: client, requests forwarded and not yet
            \* answered, key, and the parts read of the response
  written,  \* written[c]: the parts of responses written to c
  lost,     \* history: requests that will get no answer, or no whole one
  store, now, reply  \* the cache

vars == <<up, asked, servers, written, lost, store, now, reply>>

cache == <<store, now, reply>>

Ask == UNION {Asks[c] : c \in Clients}

\* Fault: the url is left out of the key.
KeyOf_HostOnly(ask) == <<ask.host>>

\* hostname + url.  The port is not in it, unless the client wrote it into
\* the url.
KeyOf(ask) == <<ask.host, ask.url>>

Keys == {KeyOf(ask) : ask \in Ask}

Vals == [to : Ask, empty : BOOLEAN]

Cache == INSTANCE Store WITH Keys <- Keys, Vals <- Vals

ClockRuns == now' \in {now, now + 1} /\ now' <= MaxTime

\* A response has two parts, its beginning and its end.
Parts == {1, 2}

Part(i, p, to) == [request |-> i, part |-> p, to |-> to]

ServersOf(c) == {s \in servers : s.client = c}

\* What c has asked for and not got: still with a server.
Outstanding(c) == UNION {ToSet(s.queue) : s \in ServersOf(c)}

NewServer(c, queue, key) ==
  [client |-> c, queue |-> queue, key |-> key, part |-> 0]

-----------------------------------------------------------------------------
Init ==
  /\ up = Clients
  /\ asked = [c \in Clients |-> <<>>]
  /\ servers = {NewServer(c, <<>>, NULL) : c \in Intercepted}
  /\ written = [c \in Clients |-> <<>>]
  /\ lost = [c \in Clients |-> {}]
  /\ Cache!Init /\ now = 0

\* A complete request has been read from c and this is its round of the
\* loop in handle_client_request.  Once the server of an intercepted client
\* is gone so is the client's SSL object, and no request can be read from it.
Request(c, ask) ==
  /\ c \in up /\ Len(asked[c]) < MaxRequests
  /\ c \in Intercepted => ServersOf(c) # {}
  /\ c \in Patient => Outstanding(c) = {} /\ lost[c] = {}
  /\ ask \in Asks[c]
  /\ asked' = [asked EXCEPT ![c] = Append(@, ask)]

Number(c) == Len(asked[c]) + 1

Loses(c, requests) == lost' = [lost EXCEPT ![c] = @ \cup requests]

\* A plain request is forwarded on a new connection, if there is one.
ForwardPlain(c, key) ==
  \/ /\ servers' = servers \cup {NewServer(c, <<Number(c)>>, key)}
     /\ UNCHANGED lost
  \/ Loses(c, {Number(c)}) /\ UNCHANGED servers

\* An intercepted one on the connection its client has.
ForwardIntercepted(s, key) ==
  /\ servers' = (servers \ {s})
       \cup {[s EXCEPT !.queue = Append(@, Number(s.client)), !.key = key]}
  /\ UNCHANGED lost

\* Fault: a server that has a key keeps it.
KeyAfterMiss_First(s, key) == IF s.key = NULL THEN key ELSE s.key

\* The key an intercepted server has after a miss.
KeyAfterMiss(s, key) == key

\* handle_get_request when the cache has no answer.
ForwardMiss(c, ask) ==
  LET key == KeyOf(ask)
  IN  \/ c \notin Intercepted /\ ForwardPlain(c, key)
      \/ \E s \in ServersOf(c) :
           c \in Intercepted /\ ForwardIntercepted(s, KeyAfterMiss(s, key))

Miss(c, ask) ==
  /\ Request(c, ask) /\ ask.method = "GET"
  /\ ClockRuns /\ Cache!Miss(KeyOf(ask))
  /\ ForwardMiss(c, ask)
  /\ UNCHANGED <<up, written>>

\* Fault: the servers of a client stay.
Disconnect_KeepsServers(c) ==
  up' = up \ {c} /\ UNCHANGED servers /\ Loses(c, Outstanding(c))

\* disconnect_client: its servers go with it.
Disconnect(c) ==
  /\ up' = up \ {c}
  /\ servers' = servers \ ServersOf(c)
  /\ Loses(c, Outstanding(c))

WriteHit(c) ==
  written' = [written EXCEPT ![c] =
                @ \o [p \in Parts |-> Part(Number(c), p, reply'.val.to)]]

\* Fault: the request is forwarded although it has been answered.
AfterHit_Forwards(c, ask) == UNCHANGED up /\ ForwardMiss(c, ask)

\* The last write of a hit is that of the body.  It returns 0 when the body
\* is empty, which is taken for a client that is gone.
AfterHit(c, ask) ==
  \/ reply'.val.empty /\ Disconnect(c)
  \/ ~reply'.val.empty /\ UNCHANGED <<up, servers, lost>>

Hit(c, ask) ==
  /\ Request(c, ask) /\ ask.method = "GET"
  /\ ClockRuns /\ Cache!Hit(KeyOf(ask))
  /\ WriteHit(c)
  /\ AfterHit(c, ask)

\* handle_other_request: a plain server gets no key, an intercepted one
\* keeps the key it has.
Other(c, ask) ==
  /\ Request(c, ask) /\ ask.method # "GET"
  /\ \/ c \notin Intercepted /\ ForwardPlain(c, NULL)
     \/ \E s \in ServersOf(c) :
          c \in Intercepted /\ ForwardIntercepted(s, s.key)
  /\ UNCHANGED <<up, written, cache>>

FastForward(s, p) ==
  LET i == Head(s.queue)
  IN  written' = [written EXCEPT ![s.client] =
                    Append(@, Part(i, p, asked[s.client][i]))]

\* The first part of a response is read and passed on; it is incomplete.
ResponseBegins(s) ==
  /\ s.queue # <<>> /\ s.part = 0
  /\ FastForward(s, 1)
  /\ servers' = (servers \ {s}) \cup {[s EXCEPT !.part = 1]}
  /\ UNCHANGED <<up, asked, lost, cache>>

\* handle_server_response disconnects a plain server.
AfterResponse(s) ==
  servers' = (servers \ {s})
    \cup IF s.client \in Intercepted
         THEN {[s EXCEPT !.queue = Tail(@), !.part = 0]} ELSE {}

\* cache_put refuses a response without a key; one that is not 200 OK is not
\* offered to it.
CachePut(s) ==
  LET to == asked[s.client][Head(s.queue)]
  IN  \/ UNCHANGED cache
      \/ /\ s.key # NULL /\ ClockRuns
         /\ \E empty \in BOOLEAN, max_age \in MaxAges :
              Cache!Put(s.key, [to |-> to, empty |-> empty], max_age)

\* The rest of a response is read and passed on; it is complete.
ResponseEnds(s) ==
  /\ s.part = 1
  /\ FastForward(s, 2)
  /\ CachePut(s)
  /\ AfterResponse(s)
  /\ UNCHANGED <<up, asked, lost>>

\* A server closes or fails.  disconnect_server leaves its client in the
\* table, an intercepted one without its SSL object.
ServerCloses(s) ==
  /\ servers' = servers \ {s}
  /\ Loses(s.client, ToSet(s.queue))
  /\ UNCHANGED <<up, asked, written, cache>>

\* A client closes, or a write to it fails.
ClientLeaves(c) ==
  /\ c \in up /\ Disconnect(c)
  /\ UNCHANGED <<asked, written, cache>>

Tick ==
  /\ now' = now + 1 /\ now' <= MaxTime /\ Cache!Tick
  /\ UNCHANGED <<up, asked, servers, written, lost>>

Finished == up = {} /\ UNCHANGED vars

Next ==
  \/ \E c \in Clients, ask \in Ask :
       Miss(c, ask) \/ Hit(c, ask) \/ Other(c, ask)
  \/ \E s \in servers : ResponseBegins(s) \/ ResponseEnds(s) \/ ServerCloses(s)
  \/ \E c \in Clients : ClientLeaves(c)
  \/ Tick \/ Finished

Spec == Init /\ [][Next]_vars

-----------------------------------------------------------------------------
(* Properties.                                                             *)

\* Type correctness.
TypeOK ==
  /\ up \subseteq Clients
  /\ asked \in [Clients -> Seq(Ask)]
  /\ \A s \in servers :
       /\ s.client \in up /\ s.queue \in Seq(1 .. MaxRequests)
       /\ s.key \in Keys \cup {NULL} /\ s.part \in {0, 1}
  /\ written \in [Clients ->
                    Seq([request : 1 .. MaxRequests, part : Parts, to : Ask])]
  /\ lost \in [Clients -> SUBSET (1 .. MaxRequests)]

\* What the cache holds under a key is a response to a GET of what the key
\* names: the key of a server entry is still that of the request whose
\* response completes (handle_server_response reads it long after
\* handle_get_request or connect_server has written it).
OwnKey ==
  \A key \in DOMAIN store :
    LET to == store[key].val.to
    IN  to.method = "GET" /\ KeyOf(to) = key

\* Whether what was sent in answer to one request may answer another: both
\* ask for the same url of the same host by GET, on whatever ports.
SameGet(a, b) ==
  /\ a.method = "GET" /\ b.method = "GET"
  /\ a.host = b.host /\ a.url = b.url

\* Whatever is written to a client in answer to a request was sent in answer
\* to that request or, through the cache, to a GET of the same url from the
\* same host.
AnswersMatch ==
  \A c \in Clients : \A j \in DOMAIN written[c] :
    LET ask == asked[c][written[c][j].request]
        to == written[c][j].to
    IN  to = ask \/ SameGet(to, ask)

\* The places in w at which part p of the answer to request i is written.
PlacesIn(w, i, p) == {j \in DOMAIN w : w[j].request = i /\ w[j].part = p}

\* The servers that have c's i-th request.
With(c, i) == {s \in ServersOf(c) : i \in ToSet(s.queue)}

\* Request i, whose answer's parts are at the places begun and ended, is in
\* exactly one place: answered, among the lost ones, or with one server.
Placed(i, begun, ended, gone, with) ==
  /\ \A j, k \in begun : j = k
  /\ \A j, k \in ended : j = k
  /\ \A k \in ended : \E j \in begun : j < k
  /\ \/ ended # {} /\ i \notin gone /\ with = {}
     \/ ended = {} /\ i \in gone /\ with = {}
     \/ /\ ended = {} /\ i \notin gone
        /\ \E s \in with :
             /\ with = {s}
             /\ begun # {} <=> s.part = 1 /\ Head(s.queue) = i

\* Every request of a client is in exactly one place.  None is answered twice
\* or by two, no answer has its end before its beginning, and what has begun
\* and not ended is at the head of its server's queue, even with pipelined
\* requests whose answers are mixed with each other.
OnePlace ==
  \A c \in Clients : \A i \in DOMAIN asked[c] :
    Placed(i, PlacesIn(written[c], i, 1), PlacesIn(written[c], i, 2), lost[c],
           With(c, i))

\* A client that waits for each answer gets whole answers in the order of
\* its requests, from whichever of servers and cache; one that does not gets
\* them mixed, because plain requests have a server each.
PatientInOrder ==
  \A c \in Patient : \A j \in DOMAIN written[c] :
    /\ written[c][j].part = 2 - (j % 2)
    /\ written[c][j].request = (j + 1) \div 2
=============================================================================
