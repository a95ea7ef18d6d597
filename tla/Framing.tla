------------------------------- MODULE Framing -------------------------------
(***************************************************************************)
(* One connection's receive buffer, from the read in handle_msg to the     *)
(* requests and responses that are cut out of it.  The other side sends a  *)
(* stream of messages and the network hands it over in pieces of any size: *)
(* pieces end inside messages and run over their ends.                     *)
(*                                                                         *)
(* What the handlers do with a request or a response is the business of    *)
(* Proxy and Exchange; here they change nothing but is_forward.            *)
(***************************************************************************)
EXTENDS HttpUtils, SequencesExt

CONSTANTS
  Streams  \* what the other side may send: its side and its messages

(* A stream is a record: is_client, is_ssl, the messages msgs, the whole    *)
(* text, and ends, the places in it where the messages end.  A message has *)
(* text and head, the length up to and with the empty line.  A request has *)
(* method, hostname, port; a response has sane, that it is well formed,    *)
(* chunked, the places lines where its header lines and then the empty     *)
(* line begin, and the places chunks where the chunks of its body begin.   *)

\* The place where message k of a stream ends.
EndOf(s, k) == IF k = 0 THEN 0 ELSE s.ends[k]

\* The messages fill the text, one behind the other.
ASSUME FramingAssumption ==
  \A s \in Streams :
    /\ s.text \in Seq(STRING)
    /\ s.is_client \in BOOLEAN /\ s.is_ssl \in BOOLEAN
    /\ Len(s.msgs) \in Nat /\ DOMAIN s.msgs = 1 .. Len(s.msgs)
    /\ s.ends \in [DOMAIN s.msgs -> Nat]
    /\ \A k \in DOMAIN s.msgs :
         /\ s.msgs[k].text = SubSeq(s.text, EndOf(s, k - 1) + 1, s.ends[k])
         /\ s.ends[k] \in EndOf(s, k - 1) .. Len(s.text)
    /\ Len(s.text) = EndOf(s, Len(s.msgs))

VARIABLES
  stream,   \* the member of Streams this connection carries
  got,      \* how much of it has been read
  sock,     \* buf, is_forward and is_chunked of the table's entry
  handed,   \* the requests or responses extracted so far
  taken,    \* history: their texts, one behind the other
  sent,     \* what handle_msg has written to the peer
  crossed,  \* history: a read has run over the end of a message
  pc

vars == <<stream, got, sock, handed, taken, sent, crossed, pc>>

msgs == stream.msgs

Text == stream.text

End(k) == EndOf(stream, k)

\* How many messages have been read completely.
Complete == Cardinality({k \in DOMAIN msgs : End(k) <= got})

Input(n) == SubSeq(Text, got + 1, got + n)

-----------------------------------------------------------------------------
Init ==
  /\ stream \in Streams
  /\ got = 0 /\ handed = <<>> /\ taken = <<>> /\ sent = <<>> /\ crossed = FALSE
  /\ sock = [buf |-> <<>>, is_forward |-> FALSE, is_chunked |-> FALSE]
  /\ pc = "select"

\* read() or SSL_read() returns n > 0.
Read(n) ==
  /\ pc = "select"
  /\ got + n <= Len(Text)
  /\ got' = got + n
  /\ crossed' = (crossed \/ \E k \in DOMAIN msgs :
                              got < End(k) /\ End(k) < got + n)
  /\ UNCHANGED stream

\* One end of a tunnel.
ForwardInput(n) ==
  /\ sock.is_forward
  /\ Read(n)
  /\ sent' = sent \o Input(n)
  /\ UNCHANGED <<sock, handed, taken, pc>>

sock_buf_buffer(s, input) == [s EXCEPT !.buf = @ \o input]

\* The data is buffered, and on to handle_client_request.
BufferRequests(n) ==
  /\ stream.is_client /\ ~sock.is_forward
  /\ Read(n)
  /\ sock' = sock_buf_buffer(sock, Input(n))
  /\ pc' = "requests"
  /\ UNCHANGED <<handed, taken, sent>>

\* What handle_client_request makes of a request: where it is to go.
Routed(request, is_ssl) ==
  LET head == parse_request_head(request)
      host == parse_host_field(head.host.text)
  IN  [text |-> request, method |-> head.method.text,
       hostname |-> host.hostname,
       port |-> IF host.port >= 0 THEN host.port
                ELSE IF head.method.text = <<"CONNECT">> \/ is_ssl
                     THEN 443 ELSE 80]

\* Without a method or a Host line a NULL pointer is read, and without a url
\* (and with it a version) where the handler uses it.
Routable(request) ==
  LET head == parse_request_head(request)
  IN  /\ head.method.next # 0 /\ head.host.next # 0
      /\ head.method.text \in {<<"GET">>, <<"CONNECT">>} => head.url.next # 0

\* One round of the loop; in default mode a CONNECT makes a tunnel, if the
\* server can be connected.
TakeRequest ==
  /\ pc = "requests"
  /\ LET first == extract_first_request(sock.buf)
         routed == Routed(first.request, stream.is_ssl)
         tunnels == routed.method = <<"CONNECT">> /\ ~stream.is_ssl
     IN  /\ first.n > 0 /\ Routable(first.request)
         /\ handed' = Append(handed, routed)
         /\ taken' = taken \o first.request
         /\ \E connected \in BOOLEAN :
              sock' = [sock EXCEPT !.buf = first.rest,
                                   !.is_forward = @ \/ (tunnels /\ connected)]
  /\ UNCHANGED <<stream, got, sent, crossed>>

\* Fault: one request for each read.
HandleRequest_Once == TakeRequest /\ pc' = "select"

HandleRequest == TakeRequest /\ UNCHANGED pc

\* strcmp of a missing method or strdup of a missing host.
RequestCrashes ==
  /\ pc = "requests"
  /\ LET first == extract_first_request(sock.buf)
     IN  first.n > 0 /\ ~Routable(first.request)
  /\ pc' = "crashed"
  /\ UNCHANGED <<stream, got, sock, handed, taken, sent, crossed>>

RequestsDone ==
  /\ pc = "requests" /\ extract_first_request(sock.buf).n = 0
  /\ pc' = "select"
  /\ UNCHANGED <<stream, got, sock, handed, taken, sent, crossed>>

\* The data is buffered, fast_forward, and on to handle_server_response.
BufferResponse(n) ==
  /\ ~stream.is_client
  /\ Read(n)
  /\ sock' = sock_buf_buffer(sock, Input(n))
  /\ sent' = sent \o Input(n)
  /\ pc' = "response"
  /\ UNCHANGED <<handed, taken>>

\* handle_server_response tries once for each read; after a response it
\* disconnects a plain server and keeps an intercepted one.
HandleResponse ==
  /\ pc = "response"
  /\ LET first == extract_first_response(sock.buf, sock.is_chunked)
     IN  IF first.n = 0
         THEN /\ sock' = [sock EXCEPT !.is_chunked = first.is_chunked]
              /\ pc' = IF first.ends THEN "select" ELSE "hangs"
              /\ UNCHANGED <<handed, taken>>
         ELSE /\ sock' = [sock EXCEPT !.is_chunked = first.is_chunked,
                                      !.buf = <<>>]
              /\ taken' = taken \o sock.buf
              /\ handed' = Append(handed,
                             [text |-> sock.buf, max_age |-> first.max_age,
                              status |-> parse_status_line(sock.buf)])
              /\ pc' = IF stream.is_ssl THEN "select" ELSE "closed"
  /\ UNCHANGED <<stream, got, sent, crossed>>

\* The other side closes, wherever it is in its stream.
PeerCloses ==
  /\ pc = "select"
  /\ pc' = "closed"
  /\ UNCHANGED <<stream, got, sock, handed, taken, sent, crossed>>

Halted == pc \in {"closed", "crashed", "hangs"} /\ UNCHANGED vars

Next ==
  \/ \E n \in 1 .. Len(Text) :
       ForwardInput(n) \/ BufferRequests(n) \/ BufferResponse(n)
  \/ HandleRequest \/ RequestCrashes \/ RequestsDone
  \/ HandleResponse
  \/ PeerCloses \/ Halted

Spec == Init /\ [][Next]_vars

-----------------------------------------------------------------------------
(* Properties.                                                             *)

\* No byte is lost, doubled or moved between the buffer, what is taken out
\* of it and what a tunnel forwards behind it, wherever the reads cut the
\* stream; and the client of a server is sent all that has been read.
NothingLost ==
  LET read == SubSeq(Text, 1, got)
  IN  IF stream.is_client THEN taken \o sock.buf \o sent = read
      ELSE taken \o sock.buf = read /\ sent = read

IsHead(m) == m.head = Len(m.text)

NoBody(k) == \A i \in 1 .. k : IsHead(msgs[i])

AsSent(m) == [text |-> m.text, method |-> <<m.method>>,
              hostname |-> <<m.hostname>>, port |-> m.port]

\* A request without a body has one empty line, at its end, and says where
\* it is to go; what comes behind a CONNECT is no request.
ASSUME RequestsAssumption ==
  \A s \in Streams : \A k \in DOMAIN s.msgs :
    LET m == s.msgs[k]
    IN  s.is_client /\ IsHead(m) =>
          /\ m.head > 3 /\ strstr(m.text, EmptyLine, 1) = m.head - 3
          /\ Routable(m.text) => Routed(m.text, s.is_ssl) = AsSent(m)
          /\ AsSent(m).method = <<"CONNECT">> /\ ~s.is_ssl /\ k < Len(s.msgs) =>
               ~IsHead(s.msgs[k + 1])

\* As long as no request has a body, the requests handled are the requests
\* sent, in order, each routed where its own head says, however many one
\* read completes and wherever it stops; and when the proxy goes back to
\* select, none that is complete is left in the buffer.
RequestsWhole ==
  stream.is_client =>
    /\ \A k \in DOMAIN handed : NoBody(k) => handed[k] = AsSent(msgs[k])
    /\ pc = "select" =>
         \A k \in 1 .. Complete : NoBody(k) => k <= Len(handed)

\* A client that waits for the answer to its CONNECT before it sends more
\* loses nothing to the change from requests to forwarding: the buffer,
\* which is never looked at again, is empty, if no request had a body.
TunnelStartsClean ==
  sock.is_forward /\ ~crossed /\ NoBody(Len(handed)) => sock.buf = <<>>

\* The header lines of a response, each read in the response alone.
FieldsOf(m) ==
  [j \in 1 .. Len(m.lines) - 1 |-> parse_header_line(m.text, m.lines[j])]

\* Every header line has its colon and space, and the lines follow each
\* other from the status line to the first empty line.
GoodLines(m) ==
  LET n == Len(m.lines)
  IN  /\ m.lines \in Seq(Nat \ {0}) /\ n > 0
      /\ m.head \in Nat /\ m.head > 3
      /\ strstr(m.text, EmptyLine, 1) = m.head - 3
      /\ m.lines[1] = strstr(m.text, CRLF, 1) + 2
      /\ m.lines[n] = m.head - 1
      /\ \A j \in 1 .. n - 1 : /\ m.lines[j] < m.head - 1
                               /\ FieldsOf(m)[j].next = m.lines[j + 1]
      /\ m.chunked = NamesChunked(FieldsOf(m))

\* The body is a series of chunks: a size, a line end, as many words of data
\* and another line end; the last has size 0 and no data.
GoodChunks(m) ==
  LET n == Len(m.chunks)
  IN  /\ m.chunks \in Seq(Nat \ {0}) /\ n > 0
      /\ m.chunks[1] = m.head + 1
      /\ \A j \in 1 .. n - 1 :
           LET size == m.chunks[j]
               val == Numeral[m.text[size]]
           IN  /\ m.text[size] \in DOMAIN Numeral /\ val > 0
               /\ HasAt(m.text, CRLF, size + 1)
               /\ HasAt(m.text, CRLF, size + 3 + val)
               /\ m.chunks[j + 1] = size + 5 + val
      /\ Len(m.text) = m.chunks[n] + 4
      /\ HasAt(m.text, <<"0">> \o EmptyLine, m.chunks[n])

ContentLength(fields) == atoi(FieldValue(fields, <<"Content-Length">>))

\* What it means for a response to be well formed.
ASSUME ResponsesAssumption ==
  \A s \in Streams : \A k \in DOMAIN s.msgs :
    LET m == s.msgs[k]
    IN  ~s.is_client =>
          /\ m.sane => GoodLines(m)
          /\ m.chunked => m.sane /\ GoodChunks(m)
          /\ m.sane /\ ~m.chunked =>
               ContentLength(FieldsOf(m)) = Len(m.text) - m.head

\* The responses so far were taken for complete neither early nor late.
TakenRight == \A k \in DOMAIN handed : handed[k].text = msgs[k].text

AllChunked == \A i \in DOMAIN msgs : msgs[i].chunked

\* A chunked response is complete at its last byte, not before, although
\* its data may look like the end, and not after; the same holds for the
\* next ones on a connection, if no read has run over the end of one.
ChunkedWhole ==
  ~stream.is_client /\ AllChunked /\ ~crossed =>
    /\ TakenRight
    /\ pc \in {"select", "closed"} => Len(handed) = Complete

\* The body of a first response with a Content-Length is missed by no more
\* than the two bytes of the line end, and never waited for in vain.
LengthAlmostWhole ==
  ~stream.is_client /\ 1 \in DOMAIN msgs /\ ~msgs[1].chunked /\ msgs[1].sane =>
    /\ handed # <<>> => Len(handed[1].text) >= End(1) - 2
    /\ pc \in {"select", "closed"} /\ got >= End(1) => handed # <<>>

\* The loop over the header lines ends for every head whose lines all have
\* their colon and space, unless a response before it was taken with too
\* little or too much and has cut the next one out of its place.
HeadersEnd ==
  ~stream.is_client /\ (\A i \in DOMAIN msgs : msgs[i].sane) /\ TakenRight =>
    pc # "hangs"

\* What handle_get_request writes for a hit: the head of the response put,
\* its Age line (left out here), an empty line and the body.
Replay(response) ==
  LET cached == parse_body_head(response)
  IN  cached.head \o CRLF \o cached.body

\* The hits to come and the client of the miss get the same: the responses
\* as they will be replayed, and what is still in the buffer, are what
\* fast_forward has written, although the cache is given its copy by another
\* path and cuts it again.
HitReplays ==
  ~stream.is_client =>
    FlattenSeq([k \in DOMAIN handed |-> Replay(handed[k].text)]) \o sock.buf
      = sent

\* What is taken for a response is the whole response: its body is complete.
ResponsesComplete ==
  ~stream.is_client /\ ~stream.is_ssl /\ handed # <<>> =>
    handed[1].text = msgs[1].text
=============================================================================
