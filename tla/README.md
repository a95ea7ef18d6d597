# Verification of the HTTP proxy

TLA+ models of the proxy in `src/`, TLC runs over small instances, and TLAPS
proofs, for every size, about its connection core, its cache, its receive
buffers, its requests and their keys, and its idle check.

The program is one thread: `main()` waits in `select()`, then walks over the
descriptors, and each one that is ready is handled to completion with blocking
calls. What makes it hard is not parallelism but *state that outlives what it
describes*: descriptors that are closed and handed out again, pointers kept
across a call that frees, peers that are gone, a ready set from before the
pass, an element updated half.

## 1. The system

| Component | State | Operations | Talks to |
|---|---|---|---|
| Connection core, `proxy.c` | `active_fd_set`, `read_fd_set`, `max_fd`, the kernel's open descriptors, where the pass is | `accept_client`, `connect_server`, `disconnect_client` and `disconnect_server` (mutually recursive), `handle_msg` and the four request and two response handlers, the idle check, `clear_proxy` | the socket table on every step; the cache in `handle_get_request` and `handle_server_response`; the framing in the request loop and `handle_server_response` |
| Socket table, `sock_buf.c` | `sock_buf_arr`: per descriptor the side, `is_forward`, `ssl`, `peer`, receive buffer, `last_input`, `key`, `is_chunked` | add a client or a server, remove, get, field accessors | nobody: a passive table, shared by pointer |
| Response cache, `cache.c` | `the_cache`: a doubly linked list and its size | put, get, clear; inside them update, remove stale, pop back, push front | `time()`, `malloc` |
| Framing, `http_utils.c` | none of its own: the receive buffer and `is_chunked` | first request and first response in a buffer, field parsers | the buffers of the table |
| SSL set-up, `proxy.c` | `ssl_ctx`, the SSL objects in the table | `ssl_connect_server`, `ssl_accept_client` | OpenSSL |
| Start and shutdown | `use_ssl`, the listening socket | `init_proxy`, `INT_handler` | all of the above |
| Logger, tests, benchmarks | none | output, drivers | |

What makes each correct:

* *Connection core.* The four views of the open sockets (active set, table,
  kernel, `max_fd`) agree; a server never outlives the client it was opened
  for; a tunnel ends at both ends; a handler uses no entry it has freed; only
  what `select` reported is read; every pass comes back to `select`; shutdown
  closes everything.
* *Cache.* A get answers with the last response put, and only while it is
  fresh; the size is right and bounded; what is stale is evicted before what is
  fresh; a failed allocation never brings an old answer back.
* *Framing.* A request or response is taken when and only when its last byte is
  there, whatever the packets' boundaries, and no byte of the next is lost.
* *Exchange* (core, table and cache together). A response goes to the client
  that asked and is cached under the key it answers.
* *Waking and idling* (loop, table and OpenSSL together). What has arrived is
  read; a connection is given up because it is quiet, or belongs to one that is.

The hard behaviour, with the line where each bites, is the list `hazards` in
`PROJECT.json`.

## 2. The modules

| Module | Models | Notes |
|---|---|---|
| `SockBuf` | the table of `sock_buf.c` | operators on a table; constants and their assumptions |
| `Proxy` | `proxy.c` over `SockBuf` | the loop as actions, the handlers as operators |
| `Sessions` | what `Proxy` promises in default mode | clients, owners of servers; no descriptors' tables |
| `ProxyProofs`, `CacheProofs`, `WakeupsProofs` | theorems about the module each is named after | TLAPS |
| `FramingProofs`, `MessagesProofs`, `ResponsesProofs` | theorems about `Framing`: bytes, then whole requests, then responses | TLAPS |
| `ExchangeProofs`, `AnswersProofs` | theorems about `Exchange`: keys and what is under them, then where each request is | TLAPS |
| `Cache` | `cache.c` | the list as a sequence, memory that may run out |
| `Store` | what `Cache` promises | a bounded map with expiry |
| `HttpUtils` | `http_utils.c` | operators on texts of words |
| `Framing` | one receive buffer of `sock_buf.c`, cut up by `HttpUtils` after every read | a stream of messages, reads of any size |
| `Exchange` | requests, responses and keys over servers and cache | composes `Store`, which `Cache` implements |
| `Wakeups` | `select`, reads that wait for a record, pending SSL data, the idle check | time, records and parts of them |
| `MCProxy`, `MCCache`, `MCFraming`, `MCExchange`, `MCWakeups` | TLC instances | keys and values, messages, symmetry |

### Proxy

`net` is the connection state: `sock_buf_arr`, `active` (`active_fd_set`),
`max_fd`, and `open`, the descriptors the kernel considers open. `ready` is
`read_fd_set`, `scan` the loop's `fd`, `todo` the number of complete requests in
the buffer of the client being served, `pc` where `main()` is. `fresh` is
history: the descriptors opened since the last `select`; `net.leaked` is too: the
sockets `connect_server` has left open.

Each handler of `proxy.c` is an operator of the same name from a connection
state to the set of states it can leave, one per outcome of its system calls:
`handle_connect_request` is every way `socket`, `gethostbyname`, `connect`, the
table, `SSL_connect`, the reply and `SSL_accept` can succeed or fail. The actions
are the pieces of the loop between which the network can act: `Select`,
`SkipFd`, `AcceptClient`, `HandleUnknown`, the four outcomes of `handle_msg`'s read
(`ReadEnds`, `ReadForward`, `ReadRequests`, `ReadResponse`), one round of the
request loop (`ServeRequest`), the end of that loop (`RequestsDone`, or
`DanglingRequests` when its buffer has been freed), `CheckTimeout`, and
`Interrupt`.

Abstractions, and why they lose nothing the properties see:

* Bytes are reduced to what they decide: a read completes 0 to `MaxPipelined`
  requests of any method; a response is complete or not; a lookup hits or not.
* Time is reduced to "any socket may be idle too long when it is looked at",
  which is more than the clock allows: what is proved holds for every clock.
* The recursion of the two disconnects is unfolded. `disconnect_client`
  removes its own entry before it scans, so each `disconnect_server` it calls
  finds its peer gone, frees no other SSL object, and its own
  `disconnect_client` returns at once. `disconnect_server` on a forwarding
  socket calls `disconnect_client` once, after its own entry is gone.
* `connect_server` allocates the lowest free descriptor, as POSIX demands; that
  is what makes numbers come back quickly.
* A read of freed memory (`DanglingRequests`) and `SSL_write` on a null object
  (`SslWriteToNull`) go on or end the process, either one.
* `Interrupt` happens between steps. The signal inside a handler is not modelled.
* Memory is assumed available to the table's `malloc`s.

### Cache

`the_cache` is `NULL` or the list (front first, without the dummies) with its
counter. A call is one step. The clock is read more than once in a call, so
`now` may move by a second inside it: an element is created at the first
reading, staleness for an eviction and the age of a hit are taken at the
second. A clock that moves between two elements of the same scan, or backwards,
is left out. Where memory is `scarce`, which `Init` chooses, `malloc` and `strdup` may
fail wherever they are called: `cache_update` after freeing the old value, `cache_elem_new` for the
element, its value or (unchecked) its key, `cache_get` for the copy; a later
dereference of `NULL` is `CallCrashes`. `latest` is history: what `cache_put` was
given last for each key. Any order of puts and gets is possible
because any number of requests may be waiting for responses. A put with a null
key (the response to a request that is not a GET, in default mode) returns at
once and is left out. The walk of `cache_remove_all_stale` is a recursive function
over the places of the list (`Kept`), as the code walks it.

### HttpUtils and Framing

A text is a sequence of words: characters where the code looks at characters
(space, colon, CR, LF, digits), and one word for any run of others. `strstr` runs
over the whole text, as in the code: a header line without its colon finds the
next one's. Each function of `http_utils.c` the proxy calls is an operator of its
name; a result of -1 is a `next` of 0. The header loop of
`extract_first_response` steps back by one when a line cannot be parsed and comes
to the same line again, so `HeaderFields` says that it never ends. The chunk walk
is a recursive function. `parse_response_head` has no caller and is left out;
numbers are one word and hexadecimal below ten (`NumeralAssumption`: natural numbers,
0 among them, and no line end). The buffers have no terminating
NUL; that what lies behind them matches nothing is an assumption.

`Framing` is one connection. `stream` is what the other side sends (the messages
are in `MCFraming`; `FramingAssumption` says that they fill its text; a response
carries the places where its header lines and its chunks begin, which only its
format is stated with), `got` how much of it has been read, `sock` the entry's `buf`,
`is_forward` and `is_chunked`, `handed` what has been cut out (`taken` its text alone),
`sent` what `handle_msg` has written to the peer. A read takes any number of words, across
the ends of messages too (`crossed` remembers that). A client's bytes go to
`BufferRequests` and the request loop (`HandleRequest`, `RequestCrashes` for a head
that leaves a null pointer, `RequestsDone`) or, after a CONNECT in default mode, to
`ForwardInput`; a server's go to `BufferResponse` and one `HandleResponse` for each
read.

### Exchange

A request is a method, a host, a port and a url. `KeyOf` is `handle_get_request`'s
hostname + url: a url in origin form has no port in it, so two ports of a host
share its key; one in absolute form has what the client wrote. A plain client has
one server entry for each request that is forwarded, an
intercepted one a single entry for all. An entry has its client, the requests
forwarded on it, the key and the parts of the response read so far; a response
has a beginning and an end, each passed on by `FastForward` as it is read. The
cache is `INSTANCE Store`, the abstraction `Cache` is shown to implement, so a step
of `Exchange` is one of the handlers together with the cache call it makes: `Miss`,
`Hit` (with the disconnect after an empty body), `Other`, `ResponseBegins`,
`ResponseEnds`. `ServerCloses` and `ClientLeaves` stand for every way a connection
ends. A server that goes takes nothing with it but its requests: an intercepted
client stays in the table, as in the code, and the model has no more of its
requests, because its SSL object is freed and nothing it sends makes sense. `written`
is what each client was sent, `lost` the history of requests that get no whole answer.
`PlacesIn` are the lines of `written` for a request, `With` the servers that have it.
Framing is assumed right here (a response ends where it ends), and one read
completes one request: a second in the same read is the next step.

### Wakeups

Sizes are in pieces of `BUF_SIZE` (8192 bytes); a TLS record has at most 16384,
that is two, and none that the proxy sees if it is not application data. `inbox` is
what the kernel holds and `select` sees, `torn` the connections of whose last record
only a part is there, `pending` what OpenSSL has decrypted and not returned, `age` the
seconds since `last_input`. `ClientOf` gives every connection its client, and
`Connected` are the servers of a CONNECT: with `use_ssl` ends of an interception,
otherwise of a tunnel.

`Select` may return with none of these connections ready, for a new client.
`HandleMsg` is a read that returns (`Returns`): of an SSL connection it needs
something pending, a whole record of data, or the end; where it has less, the
only thread waits (`Waiting`), and `SslReadGoesOn` takes records without data on the
way. A read that ends disconnects as `CheckTimeout` does (`Disconnected`): a client with
its servers, a server alone, a tunnel's server with all of its client's. A handler
may, besides, disconnect any of its client's connections and take any time (`Tick`
is always possible). Numbers are not used again here, new connections are not
opened, and the stale peers of interception are left to `Proxy`.

## 3. The runs

| Run | Question | Bounds | Result |
|---|---|---|---|
| `proxy_default` | default mode: types, the four views, ownership, tunnels, refinement of `Sessions`, every pass ends | 4 connections and one descriptor past `FD_SETSIZE`, 2 requests per read | holds, 663,981 states |
| `proxy_ssl` | interception mode: the four views, every pass ends | 3 connections, 2 requests per read | holds, 82,615 states |
| `cache` | counter and answers, with memory to spare and without; with it the list implements `Store` and has one element for each key | 3 keys, 2 places, max-age 0 or 2, 3 seconds | holds, 145,540 states up to symmetry |
| `framing` | no byte lost; requests whole and routed; tunnels start clean; chunked responses whole; others short by two bytes at most; the header loop ends; hits replay | up to 3 requests or 2 responses, every split into reads | holds, 31,307 states |
| `exchange` | answers match requests; each request in one place; keys name what is cached; order for the patient | 2 clients, 2 requests each, 3 ports, urls with and without the port, 2 places, 1 second | holds, 2,167,180 states |
| `wakeups` | arrived input is read, pending data flushed, nothing given up but for a quiet connection, the idle given up | a client with the server of its CONNECT, tunnel or intercepted, and another client; 1 record and the end in each buffer, records of 0 to 2 pieces, timeout 0 | holds, 427,388 states |
| `proxy_dangling` | the request loop's buffer survives its handlers | | violated |
| `proxy_stale_ready` | only what `select` reported is read | | violated |
| `proxy_ssl_pair` | interception: SSL ends are a pair | | violated |
| `cache_lru` | the least recently used element is evicted | as `cache`, max-age 1 or 3 | violated |
| `framing_truncated` | a response taken for complete is complete | as `framing` | violated |
| `exchange_ssl` | interception: a key names what is cached under it | one intercepted client, GET and POST | violated |

*Why the bounds are enough.* The smallest interesting collision of connections
needs two clients, a server of each and one number that is reused: that is four
connections (`proxy_default`), with one more descriptor for the table to refuse. What goes wrong in interception mode
needs three (`proxy_ssl_pair`), which shows that three are
enough to meet stale peers. Two requests in one read are the least for the
loop to go on after a handler has disconnected. In the cache, three keys for two
places make evictions happen with one element fresh and one stale, or both
fresh; max-age 0 is born stale, 2 outlives an update and expires in the run.
In `framing` two
messages are the least for a read to run over an end, and three requests the
least for one read to complete two and begin a third; chunk data that look like
the end of a response, heads with a port, without a Host, without a colon and without any header line are
among the messages, the last one behind a body that is a line end, so that a
truncated response leaves it before the next head. In `exchange` two clients share a cache, two requests of one
client are the least to be pipelined or to hit; the ports of a host share the key of
a path, and two paths tell keys apart. In `wakeups` a record of two pieces leaves one
pending, and the next record is what flushes it; the other client is what a pass
must still get to when the pair goes; and with a timeout of 0, two moments tell
quiet from heard. The theorems below lift the default-mode safety results to every size.

*Mutants.* Beside each definition a run depends on stands a variant with a
plausible mistake (`Drop_KeepsActive`, `PeeredWith_ShortScan`,
`MakeRoom_Early`, ...), marked "Fault"; `PROJECT.json` pairs each property of
a passing run with the variant that breaks it.

*Fairness* (`FairSpec`). The loop is a thread that always takes its next step
(`WF_vars(~Blocked /\ Loop)`), unless the call it is in waits for the other side.
`Blocked` names the calls that may wait for ever: a read of a descriptor opened since
`select`; an `SSL_read`, which wants a whole record of data where `select` reports the
first byte of anything (`proxy.c:1112`); and, while a request is served in
interception mode, `SSL_connect` and `SSL_accept`. A `read` of a plain socket that
`select` has reported in this pass returns, because the connection has input or has
ended. `PassEnds` (the loop is infinitely often back at `select`, or from some
point on stuck in such a call) excepts exactly these cases. That `write`, `SSL_write`,
`gethostbyname` and `connect` return is an assumption: the other side takes what it is
sent or the kernel gives up. Nothing makes clients send, so `Select` is
not fair, nor is the signal. In `Wakeups` the loop is weakly fair, but none of its
steps is possible while `SSL_read` waits; the other side need not send the rest of a
record, so `InputHeard` and `FurtherInputFlushes` except a proxy that waits from some
point on. A `select` with something to
report is weakly fair; `IdleClosed` takes as its premise that passes begin and end for
ever, because an idle proxy closes nothing. The other modules state no fairness.

### What the violations say

1. `proxy_dangling`: a failed write or handshake inside the request loop frees the
   client's entry, and the loop condition reads it (`proxy.c:883`).
2. `proxy_stale_ready`: a number that is closed and then given to a new server, by
   handlers of one pass and ahead of the scan, is read in the same pass although
   nothing was reported of it; the read blocks the proxy (`proxy.c:1240`). Only
   `connect_server` can do it: `accept_client` runs before any handler of the pass has
   closed something, as connections have higher numbers than the listening socket.
3. `proxy_ssl_pair`: the client's `peer` is not reset when its intercepted server
   goes. When the number comes back, the SSL clean-up of `disconnect_server`
   (`proxy.c:369`) and the scan of `disconnect_client` (`proxy.c:427`) hit connections
   of others.
4. `framing_truncated`: the body is measured from the empty line, not from behind it
   (`http_utils.c:599`). A read that ends within the last two bytes makes a
   truncated response, which is cached; without a Content-Length the head alone is
   one. On an intercepted connection the missing bytes come before the next head.
5. `exchange_ssl`: an intercepted server keeps the key of the last GET that missed
   (`proxy.c:697`), and the response to a POST is cached under it.
6. `cache_lru`: `cache.c` calls itself an LRU cache and says that a put evicts the least
   recently used element (`cache.c:393`). A get moves nothing, so what goes is the
   element put longest ago, even if it was returned by the last call.

Other things the code does that the models show and no run is spent on:
`connect_server` does not close its descriptor when the name or the connection
fails (`proxy.c:302`, `proxy.c:318`; `OnlyFailuresLeak` shows that every other open
descriptor is in the active set); the idle check of a quiet client closes its servers while they
send, and of a quiet tunnel's server everything of its client (`proxy.c:1251`); when the
bytes that a truncated response leaves behind are a line
end, the header loop takes the next status line for a header line, and hangs if
that head has no header lines (`http_utils.c:546`); when `cache_update` has no memory the old value is already
freed and `cache_put` goes on to insert a second element of the key, so `UniqueKeys`
and `ImplementsStore` are about memory that is not scarce.

What a property needs besides the code is in its premise: `ChunkedWhole` that no
read has run over the end of a response, `HeadersEnd` that the responses before were
taken as they were sent, neither short nor together with the next, `RequestsWhole` that
no request before has had a body, `TunnelStartsClean` that the client waits for
the answer to its CONNECT and has left no body in the buffer before it, and the run `exchange` that the intercepted client waits
and only GETs. Without these the code does break them. `AnswersMatch` allows what the
documented key (`README.md`: hostname + url) allows: a GET may be answered with what another
port gave for the same hostname and url.

## 4. The proofs

Each theorem holds for every value of the constants that satisfies the named
assumptions of the module it is about.

| Theorem | Statement |
|---|---|
| `TypeCorrect` | `Spec => []TypeOK`, both modes |
| `ViewsAgree` | `Spec => []DescriptorsConsistent`, both modes |
| `DefaultOwned` | default mode: `Spec => []ServersHaveClient` |
| `DefaultTunnels` | default mode: `Spec => []TunnelsPaired` |
| `DefaultImplements` | default mode: `Spec => ImplementsSessions` |
| `LeaksAreFailures` | `Spec => []OnlyFailuresLeak`, both modes |
| `TypeCorrect` (`Cache`) | `Spec => []TypeOK` |
| `Counted` (`Cache`) | `Spec => []SizeCounts` |
| `LatestAnswers` (`Cache`) | `Spec => AnswersLatest` |
| `OneEach` (`Cache`) | `Spec => []UniqueKeys`, which is about memory that is not `scarce` |
| `Refinement` (`Cache`) | `Spec => ImplementsStore`, likewise |
| `NoByteLost` (`Framing`) | `Spec => []NothingLost` |
| `RequestsInOrder` (`Framing`) | `Spec => []RequestsWhole` |
| `CleanTunnels` (`Framing`) | `Spec => []TunnelStartsClean` |
| `HitsAsMisses` (`Framing`) | `Spec => []HitReplays` |
| `HeaderLoopEnds` (`Framing`) | `Spec => []HeadersEnd` |
| `ChunkedAtLastByte` (`Framing`) | `Spec => []ChunkedWhole` |
| `LengthAlmost` (`Framing`) | `Spec => []LengthAlmostWhole` |
| `TypeCorrect` (`Exchange`) | `Spec => []TypeOK` |
| `NoneTwice` (`Exchange`) | `Spec => []OnePlace` |
| `InTurn` (`Exchange`) | `Spec => []PatientInOrder` |
| `KeysAreOwn` (`Exchange`) | if `Polite`: `Spec => []OwnKey` |
| `AnswersAreOwn` (`Exchange`) | if `Polite`: `Spec => []AnswersMatch` |
| `PlainAnswersAreOwn` (`Exchange`) | without interception: `Spec => [](OwnKey /\ AnswersMatch)` |
| `GivesUpQuiet` (`Wakeups`) | `Spec => ClosedOnlyWhenQuiet` |

### The core: `ProxyProofs`

*Assumptions.* The listening socket is in `0 .. 4`, because `max_fd` starts at 4;
`FD_SETSIZE` and the descriptor limit are above 4; an entry is not `NULL`. No
relation between the descriptor limit and `FD_SETSIZE` is assumed.

*Argument.* Handlers are operators on the connection state, so the proof
follows the call graph. `Sound` (typed, consistent, and every open descriptor
accounted for) is kept by `Register`,
`Drop` and `Store`, hence by each disconnect, hence by each handler; then
`Running` (`TypeOK`, `DescriptorsConsistent` and `OnlyFailuresLeak`) is inductive over the actions.
`TypeOK` alone is not: that the scan stays inside the table needs `max_fd` to be
a descriptor below `FD_SETSIZE`.

For default mode `Paired` adds `ServerOwned` and `TunnelPaired`. Each needs the
other: a server is found by `disconnect_client`'s scan because its peer is a
client, and a client's peer must not make the scan mistake it for a server,
which is so because a client has a peer only while it forwards to it
(`PeeredAreServers`). Two more facts complete the invariant `DefaultInv`: the four
views agree, since the scan ends at `max_fd`, and the request loop serves a
client. In interception mode `ServerOwned` is false, because of the stale peers that
`proxy_ssl_pair` shows.

For the refinement the same lemmas say what each handler does to clients and
owners (`Admits`, `Attaches`, `Detaches`, `Leaves`, `Same`). A handler that
connects and then disconnects again collapses to one abstract step or none.

`OnlyFailuresLeak` is proved with the rest: `Sound` counts every open descriptor that is
not active among the leaked ones (`Accounted`), and only `Leak`, in `connect_server`,
adds to these. A leaked socket is never used again, because the kernel gives out
descriptors that are not open.

### The cache: `CacheProofs`

*Assumptions.* The capacity is positive; `NULL` is no key, value, element or cache.

*Argument.* `SizeCounts` and `AnswersLatest` hold wherever memory
fails, and are proved together, since neither is inductive by itself. `Inv` says of a
cache that its counter is the length of its list, at most the capacity, that
nothing in it is from the future (`Past`), and that an
element with a value is the response last put under its key and the first of that
key (`Valued`). The last part is what makes the half-done update harmless: the old
element keeps its place but has lost its value, and whatever is found first is
either the newest or has none. `Lasts` (while memory lasts there is a cache, no key is met twice and
every element has its value and its key) is what `UniqueKeys` and the refinement need,
and it is false where memory is `scarce`: the second element that `cache_put` inserts
after a failed update breaks both. So the invariant has it for memory that is not
(`Lasting`), and the refinement maps a process whose memory is scarce to a `Store` that is
never used (`Promised`): nothing is promised of it.

The lemmas are about the list. `KeptWalks`: what `cache_remove_all_stale` keeps is exactly
what is fresh, in its order. `MadeRoom`: after making room there is a place free, and
either nothing was taken, or all that was stale, or the last element of a list in
which nothing was. What an operation leaves is related to what it was given by a
map of places (`PartOf`), from which order, counts and keys follow at once
(`PartKeeps`). In the refinement a put is `Store`'s put, also when the update moves an
element instead of inserting one.

### Framing: `FramingProofs`, `MessagesProofs` and `ResponsesProofs`

`NoByteLost` assumes only that what is sent is a text. Its invariant adds to
`NothingLost` that nothing is sent by a client's connection before it forwards
(`ForwardsLast`), without which what is buffered after a read would be out of place.
The heart is `CutsInTwo`: what `extract_first_request` takes and what it leaves make
up the buffer, wherever `strstr` has found the empty line.

`MessagesProofs` is about where the messages end. What it assumes of the streams is
in `Framing`, and TLC evaluates it on every stream of `MCFraming`. `FramingAssumption`:
the messages lie in the text one behind the other. `RequestsAssumption`, of a request
without a body: its first empty line is its end; *alone*, it is parsed and routed as
sent, if it can be routed at all; and what a client sends behind a CONNECT is no
request. So what the parser does with one request is evaluated, and what the reads,
the buffer and the loop make of a sequence of them is proved. The key lemma is
`FoundWhole`: at the front of a buffer that holds a part of the stream, `strstr` finds
the end of the next message exactly when all of it has arrived, because an empty line
found earlier would lie in the message itself. `RequestsInv` says what is known of the
buffer at any time: what has been taken is the messages up to the last one extracted
(`TakenWhole`) and each was the one sent (`Matched`), as long as none had a body; at
`select` nothing complete is left (`Emptied`, so that a read that crosses no end
brings at most the rest of one message); behind the request that opened a tunnel there is none
(`NoneBehind`); and no more is read than the next message until a read crosses one
(`NotAhead`), so that the buffer is empty when the CONNECT has been taken from it.

For `HitReplays` the invariant is that the replays of what was handed out, put one
behind the other, are `taken`; with `NothingLost` that is the property. The model
uses the library's `FlattenSeq`, a recursive function, so its value for one text more
is proved first, by a least counterexample.

`ResponsesProofs` is about the header loop and the chunk walk. `ResponsesAssumption`
says what a well-formed response is, by the places in its text: its header lines lead
from one to the next and to its first empty line (`GoodLines`), and a chunked body is
a series of sizes, line ends and as many words of data, with a last chunk of size 0
(`GoodChunks`); otherwise the Content-Length is the length of the body. It says nothing
of the data, which may look like the end of a response, nor of what the functions make
of a *part* of one: that is proved. `FirstStays` and `NotYet` are the reason it can be:
what `strstr` finds in a text it finds at the same place in every text that begins with
it or is its beginning, as soon as all of it is there. So each header line is read in
the buffer as in the response alone (`LineStays`), and by descent over the lines the
loop ends with the response's own fields (`LinesRead`). For the chunks, by descent
over their places: the walk from a chunk gets on to the next one when its data and
both line ends are there and fails when they are not (`DataChunk`), and at the last one
it ends exactly at the response's last byte (`EndChunk`), so that the whole walk
succeeds exactly on the whole response (`ChunksRead`). A recursive function of the
model is a `CHOOSE`; that there is a function that satisfies
the recursion is proved by a least counterexample each time (`TurnsExist`,
`WalkExists`).

`ChunkedTaken` and `LengthTaken` are what this makes of `extract_first_response` at the
front of a response; over the steps the invariant `ResponsesInv` says where the buffer
begins. `TakenFirst`: as long as the responses were taken right, what has been taken ends
where the last of them does. `ChunkedInv`: no more than the next response has been read
until a read crosses an end, and none that is complete waits outside the handler.
`LengthInv`: until the first response is taken the buffer begins with it and the
entry is not marked chunked. The proof showed that `HeadersEnd` with the premise that
no read ran over an end is false: the model now has the premise it needs, and the run
the stream that breaks the other one.

### Requests and answers: `ExchangeProofs` and `AnswersProofs`

`ExchangeProofs` states what `OwnKey` and `AnswersMatch` need of the clients, instead
of bounding them. `Polite`: who is intercepted waits for each answer and asks by GET
only. The run `exchange` satisfies it, `exchange_ssl` does not. Of the keys nothing is
assumed: that two requests have the same one, as at two ports of a host, is what
`AnswersMatch` says of a response that is shared (`SameGet`). The invariant says that a
server has at most one request, whose key it has
or none (`ServerOK`): plain servers by their construction, an intercepted one
because its client waits. So the key `handle_server_response` reads is that of the
request whose response completes, however much later. Without interception `Polite`
asks nothing of anybody (`PlainAnswersAreOwn`).

`AnswersProofs` does not assume it. `PlaceInv` says of each request that it is with
one server, written, or lost, and of each server (`Serving`) that its requests are
different ones of a client that is connected, that a plain server has exactly one,
and that an answer has begun only where there is a request. `OnePlace` lacks these to be
inductive: `fast_forward` writes for the head of the queue without asking which
request it is. `PatientInOrder` needs, besides, for a client that waits, how many lines
its requests amount to (`OneByOne`): two for each that is answered, those that have
come for the one its only busy server has; so the next line is always the right one.

### Waking and idling: `WakeupsProofs`

It needs one fact beside the definitions (`Heeded`): the idle check looks at the
connection that has just been read or skipped, never at one that is reported and
not yet read, and its clock is that of the reads. So the connection the check looks at is
the quiet one `ClosedOnlyWhenQuiet` asks for, and what `Disconnected` closes besides belongs
to it (`GoesWith`).

### What is only model-checked

* Liveness: `PassEnds`, `IdleClosed`, `InputHeard`, `FurtherInputFlushes`.
* That the streams of `MCFraming` satisfy the assumptions: their requests and header
  lines are parsed by TLC, not by a prover. What `RequestsAssumption` asks of one
  request alone is not proved of every request.

*Only refuted:* the properties of the violation runs.

## 5. Plan

Written in this order, most important first; 1 to 7 are there.

1. `SockBuf`, `Proxy`, `Sessions`: the core; proofs in `ProxyProofs`.
2. `Cache`, `Store`.
3. Proofs of the core.
4. `HttpUtils`, `Framing`.
5. `Exchange`, which composes the request and response handlers with `Store`.
6. `Wakeups`.
7. Proofs of `Framing`, `Exchange`, `Wakeups` and `Cache`: with them every safety
   property of the passing runs is proved. Still to come: what of interception
   survives stale peers.
8. `CacheList`: the pointers of the list, one assignment per step; refines the
   sequence of `Cache`.
9. `Shutdown`: the signal between any two assignments of a handler.

## 6. Not modelled

The logger (no state depends on it); `init_listen_sock` and `init_ssl` (a failure
ends the process before the loop); the wording of requests and replies;
`parse_response_head`, which nothing calls; what `strstr` finds behind the end of a
buffer; partial writes other than success or failure, since the code treats a
short write as a success; the signal inside a handler; the pointers of the
cache's list; how long a blocking call may take.
