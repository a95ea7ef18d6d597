---------------------------- MODULE FramingProofs ----------------------------
(***************************************************************************)
(* Proof that no byte of a stream is lost, doubled or moved on its way     *)
(* through the receive buffer, whatever is sent and however it is cut.     *)
(***************************************************************************)
EXTENDS Framing, SequenceTheorems, WellFoundedInduction, TLAPS

Words == Seq(STRING)

\* Type correctness of what holds text, and of where the handlers are.
TypeInv ==
  /\ stream \in Streams
  /\ got \in 0 .. Len(Text)
  /\ sock \in [buf : Words, is_forward : BOOLEAN, is_chunked : BOOLEAN]
  /\ taken \in Words /\ sent \in Words
  /\ IF stream.is_client THEN pc # "response"
     ELSE pc # "requests" /\ ~sock.is_forward

\* As long as a client's connection forwards nothing, nothing has been sent.
ForwardsLast == stream.is_client /\ ~sock.is_forward => sent = <<>>

Inv == TypeInv /\ ForwardsLast /\ NothingLost

-----------------------------------------------------------------------------
(* Texts.                                                                  *)

\* A part of a text is a text.
LEMMA Parts ==
  ASSUME NEW t \in Words, NEW j \in Nat \ {0}, NEW k \in 0 .. Len(t)
  PROVE  SubSeq(t, j, k) \in Words
<1>1. \A i \in j .. k : t[i] \in STRING
  BY ElementOfSeq, LenProperties DEF Words
<1> QED
  BY <1>1, SubSeqProperties DEF Words

\* Pieces read one behind the other make up a longer prefix.
LEMMA ReadOn ==
  ASSUME NEW t \in Words, NEW g \in 0 .. Len(t), NEW n \in Nat,
         g + n <= Len(t)
  PROVE  /\ SubSeq(t, g + 1, g + n) \in Words
         /\ SubSeq(t, 1, g) \o SubSeq(t, g + 1, g + n) = SubSeq(t, 1, g + n)
<1>1. Len(t) \in Nat
  BY LenProperties DEF Words
<1>2. SubSeq(t, g + 1, g + n) \in Words
  BY <1>1, Parts
<1>3. /\ 1 \in 1 .. Len(t) + 1 /\ g \in 1 - 1 .. Len(t)
      /\ g + n \in g .. Len(t)
  BY <1>1
<1>4. t \in Seq(STRING)
  BY DEF Words
<1>5. SubSeq(t, 1, g) \o SubSeq(t, g + 1, g + n) = SubSeq(t, 1, g + n)
  BY <1>3, <1>4, ConcatAdjacentSubSeq
<1> QED
  BY <1>2, <1>5

\* Concatenation of texts gives a text, and is associative.
LEMMA Concatenation ==
  ASSUME NEW a \in Words, NEW b \in Words, NEW c \in Words
  PROVE  a \o b \in Words /\ (a \o b) \o c = a \o (b \o c)
BY ConcatProperties, ConcatAssociative DEF Words

\* The empty text is a text and adds nothing to another.
LEMMA Empty ==
  ASSUME NEW a \in Words
  PROVE  <<>> \in Words /\ a \o <<>> = a /\ <<>> \o a = a
BY EmptySeq, ConcatEmptySeq DEF Words

\* A text falls into what comes before a place and what comes from it on.
LEMMA Halves ==
  ASSUME NEW t \in Words, NEW k \in 0 .. Len(t)
  PROVE  /\ SubSeq(t, 1, k) \in Words /\ SubSeq(t, k + 1, Len(t)) \in Words
         /\ SubSeq(t, 1, k) \o SubSeq(t, k + 1, Len(t)) = t
<1>1. Len(t) \in Nat
  BY LenProperties DEF Words
<1>2. SubSeq(t, 1, k) \in Words
  BY Parts
<1>3. SubSeq(t, k + 1, Len(t)) \in Words
  BY <1>1, Parts
<1> DEFINE n == Len(t) - k
<1>4. n \in Nat /\ k + n <= Len(t) /\ k + n = Len(t)
  BY <1>1
<1> HIDE DEF n
<1>5. SubSeq(t, 1, k) \o SubSeq(t, k + 1, k + n) = SubSeq(t, 1, k + n)
  BY <1>4, ReadOn
<1>6. SubSeq(t, 1, Len(t)) = t
  BY SubSeqFull DEF Words
<1> QED
  BY <1>2, <1>3, <1>4, <1>5, <1>6

\* A set of places that is not empty has a first one.
LEMMA FirstPlace ==
  ASSUME NEW S \in SUBSET Nat, S # {}
  PROVE  FirstOf(S) \in S
<1>1. PICK m \in S : \A x \in S : <<x, m>> \notin OpToRel(<, Nat)
  BY WFMin, NatLessThanWellFounded
<1>2. \A x \in S : m <= x
  <2> SUFFICES ASSUME NEW x \in S, ~(m <= x)
               PROVE  FALSE
    OBVIOUS
  <2>1. x \in Nat /\ m \in Nat /\ x < m
    OBVIOUS
  <2>2. <<x, m>> \in OpToRel(<, Nat)
    BY <2>1, Zenon DEF OpToRel
  <2> QED
    BY <1>1, <2>2
<1> QED
  BY <1>2 DEF FirstOf, Min

\* strstr finds nothing, or a place that leaves room for the word.
LEMMA StrstrFits ==
  ASSUME NEW t \in Words, NEW w, Len(w) \in Nat, NEW from \in Nat \ {0}
  PROVE  \/ strstr(t, w, from) = 0
         \/ /\ strstr(t, w, from) \in Nat \ {0}
            /\ strstr(t, w, from) + Len(w) - 1 <= Len(t)
<1> DEFINE at == {i \in from .. Len(t) - Len(w) + 1 : OccursAt(t, w, i)}
<1>1. CASE at = {}
  BY <1>1 DEF strstr, FirstOf
<1>2. CASE at # {}
  <2>1. Len(t) \in Nat
    BY LenProperties DEF Words
  <2>2. at \in SUBSET Nat
    BY <2>1
  <2>3. strstr(t, w, from) \in at
    BY <1>2, <2>2, FirstPlace DEF strstr
  <2> QED
    BY <2>1, <2>3
<1> QED
  BY <1>1, <1>2

\* A request is cut off the front of the buffer and the rest is kept.
LEMMA CutsInTwo ==
  ASSUME NEW b \in Words, extract_first_request(b).n > 0
  PROVE  LET first == extract_first_request(b)
         IN  /\ first.request \in Words /\ first.rest \in Words
             /\ first.request \o first.rest = b
<1> DEFINE at == strstr(b, EmptyLine, 1)
<1>1. \E S : CRLF \in Seq(S) /\ Len(CRLF) = 2
  <2>1. CRLF \in Seq({"CR", "LF"}) /\ Len(CRLF) = 2
    BY DEF CRLF
  <2> QED
    BY <2>1, Zenon
<1>2. Len(EmptyLine) = 4
  <2>1. \A S : \A c \in Seq(S) : Len(c \o c) = Len(c) + Len(c)
    BY ConcatProperties
  <2>2. PICK S : CRLF \in Seq(S) /\ Len(CRLF) = 2
    BY <1>1, Zenon
  <2>3. Len(EmptyLine) = Len(CRLF) + Len(CRLF)
    BY <2>1, <2>2, Zenon DEF EmptyLine
  <2> QED
    BY <2>2, <2>3
<1>3. at # 0
  BY DEF extract_first_request
<1>4. at \in Nat \ {0} /\ at + 3 <= Len(b)
  <2>1. Len(EmptyLine) \in Nat /\ 1 \in Nat \ {0}
    BY <1>2
  <2>2. at \in Nat \ {0} /\ at + Len(EmptyLine) - 1 <= Len(b)
    BY <1>3, <2>1, StrstrFits
  <2> QED
    BY <1>2, <2>2
<1> HIDE DEF at
<1>5. at + 3 \in 0 .. Len(b) /\ (at + 3) + 1 = at + 4
  BY <1>4, LenProperties DEF Words
<1>6. /\ SubSeq(b, 1, at + 3) \in Words /\ SubSeq(b, at + 4, Len(b)) \in Words
      /\ SubSeq(b, 1, at + 3) \o SubSeq(b, at + 4, Len(b)) = b
  BY <1>5, Halves
<1> QED
  BY <1>3, <1>6 DEF extract_first_request, at

\* The answer to whether a response is chunked is TRUE or FALSE.
LEMMA ChunkedOrNot ==
  ASSUME NEW b, NEW c \in BOOLEAN
  PROVE  extract_first_response(b, c).is_chunked \in BOOLEAN
<1>1. \A f : NamesChunked(f) \in BOOLEAN
  BY Zenon DEF NamesChunked
<1> QED
  BY <1>1 DEF extract_first_response

-----------------------------------------------------------------------------
(* The steps.                                                              *)

\* Before anything is read nothing can be lost.
LEMMA Start == Init => Inv
<1> SUFFICES ASSUME Init
             PROVE  Inv
  OBVIOUS
<1>1. /\ stream \in Streams /\ Text \in Words
      /\ stream.is_client \in BOOLEAN
  BY FramingAssumption DEF Init, Text, Words
<1>2. got \in 0 .. Len(Text) /\ got = 0
  BY <1>1, LenProperties DEF Init, Words
<1>3. /\ <<>> \in Words /\ <<>> \o <<>> = <<>>
      /\ SubSeq(Text, 1, 0) = <<>>
  BY Empty, EmptySeq, SubSeqEmpty DEF Words
<1>4. TypeInv
  BY <1>1, <1>2, <1>3 DEF TypeInv, Init
<1>5. ForwardsLast
  BY DEF ForwardsLast, Init
<1>6. NothingLost
  BY <1>2, <1>3 DEF NothingLost, Init
<1> QED
  BY <1>4, <1>5, <1>6 DEF Inv

\* What a read adds to what has been read, in the words of the lemmas.
LEMMA ReadMore ==
  ASSUME Inv, NEW n \in 1 .. Len(Text), Read(n)
  PROVE  /\ Text \in Words /\ Text' = Text
         /\ stream \in Streams /\ stream' = stream
         /\ got' \in 0 .. Len(Text)
         /\ Input(n) \in Words
         /\ SubSeq(Text, 1, got) \in Words
         /\ SubSeq(Text, 1, got) \o Input(n) = SubSeq(Text', 1, got')
<1>1. /\ stream \in Streams /\ stream' = stream
      /\ Text \in Words /\ Text' = Text
  BY FramingAssumption DEF Inv, TypeInv, Read, Text, Words
<1>2. Len(Text) \in Nat
  BY <1>1, LenProperties DEF Words
<1>3. /\ got \in 0 .. Len(Text) /\ got' = got + n
      /\ got + n <= Len(Text) /\ n \in Nat
  BY <1>2 DEF Inv, TypeInv, Read
<1>4. /\ Input(n) \in Words
      /\ SubSeq(Text, 1, got) \o Input(n) = SubSeq(Text, 1, got + n)
  BY <1>1, <1>3, ReadOn DEF Input
<1>5. SubSeq(Text, 1, got) \in Words
  BY <1>1, <1>2, <1>3, Parts
<1> QED
  BY <1>1, <1>2, <1>3, <1>4, <1>5

\* One end of a tunnel sends on what it has read.
LEMMA KeepForward ==
  ASSUME Inv, NEW n \in 1 .. Len(Text), ForwardInput(n)
  PROVE  Inv'
<1>1. Read(n) /\ sock.is_forward /\ sent' = sent \o Input(n)
  BY DEF ForwardInput
<1>2. sock' = sock /\ taken' = taken /\ pc' = pc
  BY DEF ForwardInput
<1>3. /\ sock.buf \in Words /\ taken \in Words /\ sent \in Words
      /\ stream.is_client \in BOOLEAN
  BY FramingAssumption DEF Inv, TypeInv
<1>4. stream.is_client
  BY <1>1, <1>3 DEF Inv, TypeInv
<1>5. Input(n) \in Words /\ stream' = stream
  BY <1>1, ReadMore
<1>6. TypeInv'
  <2>1. sent' \in Words
    BY <1>1, <1>3, <1>5, Concatenation
  <2>2. stream' \in Streams /\ got' \in 0 .. Len(Text')
    BY <1>1, ReadMore
  <2> QED
    BY <1>2, <2>1, <2>2, <1>5 DEF Inv, TypeInv
<1>7. ForwardsLast'
  BY <1>1, <1>2 DEF ForwardsLast
<1>8. NothingLost'
  <2>1. taken \o sock.buf \o sent = SubSeq(Text, 1, got)
    BY <1>4 DEF Inv, NothingLost
  <2>2. (taken \o sock.buf) \o (sent \o Input(n))
          = (taken \o sock.buf \o sent) \o Input(n)
    <3>1. taken \o sock.buf \in Words
      BY <1>3, Concatenation
    <3> QED
      BY <1>3, <1>5, <3>1, Concatenation
  <2>3. taken' \o sock'.buf \o sent' = SubSeq(Text', 1, got')
    BY <1>1, <1>2, <2>1, <2>2, ReadMore
  <2> QED
    BY <1>4, <1>5, <2>3 DEF NothingLost
<1> QED
  BY <1>6, <1>7, <1>8 DEF Inv

\* What a client has sent waits in the buffer.
LEMMA KeepBuffer ==
  ASSUME Inv, NEW n \in 1 .. Len(Text), BufferRequests(n)
  PROVE  Inv'
<1>1. /\ Read(n) /\ stream.is_client /\ ~sock.is_forward
      /\ sock' = sock_buf_buffer(sock, Input(n))
      /\ pc' = "requests" /\ taken' = taken /\ sent' = sent
  BY DEF BufferRequests
<1>2. /\ sock \in [buf : Words, is_forward : BOOLEAN, is_chunked : BOOLEAN]
      /\ sock.buf \in Words /\ taken \in Words /\ sent = <<>>
  BY <1>1 DEF Inv, TypeInv, ForwardsLast
<1>3. Input(n) \in Words /\ stream' = stream
  BY <1>1, ReadMore
<1>4. sock.buf \o Input(n) \in Words
  BY <1>2, <1>3, Concatenation
<1>5. /\ sock' \in [buf : Words, is_forward : BOOLEAN, is_chunked : BOOLEAN]
      /\ sock'.buf = sock.buf \o Input(n)
      /\ sock'.is_forward = sock.is_forward
  BY <1>1, <1>2, <1>4 DEF sock_buf_buffer
<1>6. TypeInv'
  <2>1. stream' \in Streams /\ got' \in 0 .. Len(Text')
    BY <1>1, ReadMore
  <2> QED
    BY <1>1, <1>3, <1>5, <2>1 DEF Inv, TypeInv
<1>7. ForwardsLast'
  BY <1>1, <1>2 DEF ForwardsLast
<1>8. NothingLost'
  <2>1. taken \o sock.buf = SubSeq(Text, 1, got)
    <3>1. taken \o sock.buf \o sent = SubSeq(Text, 1, got)
      BY <1>1 DEF Inv, NothingLost
    <3>2. taken \o sock.buf \in Words
      BY <1>2, Concatenation
    <3> QED
      BY <1>2, <3>1, <3>2, Empty
  <2>2. taken' \o sock'.buf = SubSeq(Text', 1, got')
    <3>1. taken \o (sock.buf \o Input(n)) = (taken \o sock.buf) \o Input(n)
      BY <1>2, <1>3, Concatenation
    <3> QED
      BY <1>1, <1>5, <2>1, <3>1, ReadMore
  <2>3. taken' \o sock'.buf \in Words
    BY <1>1, <1>2, <1>4, <1>5, Concatenation
  <2>4. taken' \o sock'.buf \o sent' = SubSeq(Text', 1, got')
    BY <1>1, <1>2, <2>2, <2>3, Empty
  <2> QED
    BY <1>1, <1>3, <2>4 DEF NothingLost
<1> QED
  BY <1>6, <1>7, <1>8 DEF Inv

\* A request taken out of the buffer goes behind those taken before.
LEMMA KeepRequest ==
  ASSUME Inv, HandleRequest
  PROVE  Inv'
<1> DEFINE first == extract_first_request(sock.buf)
           wanted == Routed(first.request, stream.is_ssl).method = <<"CONNECT">>
                       /\ ~stream.is_ssl
<1>0. PICK connected \in BOOLEAN :
        sock' = [sock EXCEPT !.buf = first.rest,
                             !.is_forward = @ \/ (wanted /\ connected)]
  BY DEF HandleRequest, TakeRequest
<1> DEFINE tunnels == wanted /\ connected
<1>1. /\ pc = "requests" /\ pc' = pc /\ first.n > 0
      /\ taken' = taken \o first.request
      /\ sock' = [sock EXCEPT !.buf = first.rest,
                              !.is_forward = @ \/ tunnels]
      /\ stream' = stream /\ got' = got /\ sent' = sent
  BY <1>0 DEF HandleRequest, TakeRequest
<1>2. /\ sock \in [buf : Words, is_forward : BOOLEAN, is_chunked : BOOLEAN]
      /\ sock.buf \in Words /\ taken \in Words /\ sent \in Words
      /\ stream \in Streams /\ got \in 0 .. Len(Text) /\ stream.is_client
  BY <1>1 DEF Inv, TypeInv
<1>3. /\ first.request \in Words /\ first.rest \in Words
      /\ first.request \o first.rest = sock.buf
  BY <1>1, <1>2, CutsInTwo
<1> HIDE DEF first
<1>4. tunnels \in BOOLEAN
  OBVIOUS
<1> HIDE DEF tunnels
<1>5. /\ sock' \in [buf : Words, is_forward : BOOLEAN, is_chunked : BOOLEAN]
      /\ sock'.buf = first.rest
  BY <1>1, <1>2, <1>3, <1>4
<1>6. sock.is_forward => sock'.is_forward
  BY <1>1, <1>2, <1>4
<1>7. TypeInv'
  <2>1. taken' \in Words
    BY <1>1, <1>2, <1>3, Concatenation
  <2>2. Text' = Text
    BY <1>1 DEF Text
  <2> QED
    BY <1>1, <1>2, <1>5, <2>1, <2>2 DEF TypeInv
<1>8. ForwardsLast'
  BY <1>1, <1>6 DEF Inv, ForwardsLast
<1>9. NothingLost'
  <2>1. taken \o sock.buf \o sent = SubSeq(Text, 1, got)
    BY <1>2 DEF Inv, NothingLost
  <2>2. (taken \o first.request) \o first.rest = taken \o sock.buf
    <3>1. (taken \o first.request) \o first.rest
            = taken \o (first.request \o first.rest)
      <4>1. \A a, b, c \in Words : (a \o b) \o c = a \o (b \o c)
        BY Concatenation
      <4>2. /\ taken \in Words
            /\ first.request \in Words /\ first.rest \in Words
        BY <1>2, <1>3
      <4> QED
        BY <4>1, <4>2, Zenon
    <3> QED
      BY <1>3, <3>1
  <2>3. taken' \o sock'.buf \o sent' = SubSeq(Text', 1, got')
    BY <1>1, <1>5, <2>1, <2>2 DEF Text
  <2> QED
    BY <1>1, <1>2, <2>3 DEF NothingLost
<1> QED
  BY <1>7, <1>8, <1>9 DEF Inv

\* What a server has sent waits in the buffer and goes to the client.
LEMMA KeepFastForward ==
  ASSUME Inv, NEW n \in 1 .. Len(Text), BufferResponse(n)
  PROVE  Inv'
<1>1. /\ Read(n) /\ ~stream.is_client
      /\ sock' = sock_buf_buffer(sock, Input(n))
      /\ sent' = sent \o Input(n)
      /\ pc' = "response" /\ taken' = taken
  BY DEF BufferResponse
<1>2. /\ sock \in [buf : Words, is_forward : BOOLEAN, is_chunked : BOOLEAN]
      /\ sock.buf \in Words /\ taken \in Words /\ sent \in Words
      /\ ~sock.is_forward
  BY <1>1 DEF Inv, TypeInv
<1>3. Input(n) \in Words /\ stream' = stream
  BY <1>1, ReadMore
<1>4. sock.buf \o Input(n) \in Words /\ sent' \in Words
  BY <1>1, <1>2, <1>3, Concatenation
<1>5. /\ sock' \in [buf : Words, is_forward : BOOLEAN, is_chunked : BOOLEAN]
      /\ sock'.buf = sock.buf \o Input(n)
      /\ ~sock'.is_forward
  BY <1>1, <1>2, <1>4 DEF sock_buf_buffer
<1>6. TypeInv'
  <2>1. stream' \in Streams /\ got' \in 0 .. Len(Text')
    BY <1>1, ReadMore
  <2> QED
    BY <1>1, <1>2, <1>3, <1>4, <1>5, <2>1 DEF TypeInv
<1>7. ForwardsLast'
  BY <1>1, <1>3 DEF ForwardsLast
<1>8. NothingLost'
  <2>1. taken \o sock.buf = SubSeq(Text, 1, got) /\ sent = SubSeq(Text, 1, got)
    BY <1>1 DEF Inv, NothingLost
  <2>2. taken \o (sock.buf \o Input(n)) = (taken \o sock.buf) \o Input(n)
    BY <1>2, <1>3, Concatenation
  <2>3. /\ taken' \o sock'.buf = SubSeq(Text', 1, got')
        /\ sent' = SubSeq(Text', 1, got')
    BY <1>1, <1>5, <2>1, <2>2, ReadMore
  <2> QED
    BY <1>1, <1>3, <2>3 DEF NothingLost
<1> QED
  BY <1>6, <1>7, <1>8 DEF Inv

\* A response is the whole buffer; one that is not complete stays in it.
LEMMA KeepResponse ==
  ASSUME Inv, HandleResponse
  PROVE  Inv'
<1> DEFINE first == extract_first_response(sock.buf, sock.is_chunked)
<1>1. /\ pc = "response" /\ stream' = stream /\ got' = got /\ sent' = sent
      /\ pc' \in {"select", "closed", "hangs"}
  BY DEF HandleResponse
<1>2. /\ sock \in [buf : Words, is_forward : BOOLEAN, is_chunked : BOOLEAN]
      /\ sock.buf \in Words /\ taken \in Words /\ sent \in Words
      /\ stream \in Streams /\ got \in 0 .. Len(Text) /\ ~stream.is_client
      /\ ~sock.is_forward
  BY <1>1 DEF Inv, TypeInv
<1>3. first.is_chunked \in BOOLEAN
  BY <1>2, ChunkedOrNot
<1>4. \/ /\ sock' = [sock EXCEPT !.is_chunked = first.is_chunked]
         /\ taken' = taken
      \/ /\ sock' = [sock EXCEPT !.is_chunked = first.is_chunked,
                                 !.buf = <<>>]
         /\ taken' = taken \o sock.buf
  BY DEF HandleResponse
<1> HIDE DEF first
<1>5. <<>> \in Words /\ taken \o sock.buf \in Words
  BY <1>2, Concatenation, Empty
<1>6. /\ sock' \in [buf : Words, is_forward : BOOLEAN, is_chunked : BOOLEAN]
      /\ ~sock'.is_forward /\ taken' \in Words
      /\ \/ sock'.buf = sock.buf /\ taken' = taken
         \/ sock'.buf = <<>> /\ taken' = taken \o sock.buf
  BY <1>2, <1>3, <1>4, <1>5
<1>7. taken' \o sock'.buf = taken \o sock.buf
  BY <1>5, <1>6, Empty
<1>8. TypeInv'
  BY <1>1, <1>2, <1>6 DEF TypeInv, Text
<1>9. ForwardsLast'
  BY <1>1, <1>2 DEF ForwardsLast
<1>10. NothingLost'
  BY <1>1, <1>2, <1>7 DEF Inv, NothingLost, Text
<1> QED
  BY <1>8, <1>9, <1>10 DEF Inv

\* The other steps leave what has been read where it is.
LEMMA KeepRest ==
  ASSUME Inv, UNCHANGED <<stream, got, sock, taken, sent>>,
         stream.is_client => pc' # "response",
         ~stream.is_client => pc' # "requests"
  PROVE  Inv'
<1>1. TypeInv'
  BY DEF Inv, TypeInv, Text
<1>2. ForwardsLast' /\ NothingLost'
  BY DEF Inv, ForwardsLast, NothingLost, Text
<1> QED
  BY <1>1, <1>2 DEF Inv

\* Every step keeps the invariant.
LEMMA Step == Inv /\ [Next]_vars => Inv'
<1> SUFFICES ASSUME Inv, [Next]_vars
             PROVE  Inv'
  OBVIOUS
<1>1. CASE \E n \in 1 .. Len(Text) : ForwardInput(n)
  BY <1>1, KeepForward
<1>2. CASE \E n \in 1 .. Len(Text) : BufferRequests(n)
  BY <1>2, KeepBuffer
<1>3. CASE \E n \in 1 .. Len(Text) : BufferResponse(n)
  BY <1>3, KeepFastForward
<1>4. CASE HandleRequest
  BY <1>4, KeepRequest
<1>5. CASE HandleResponse
  BY <1>5, KeepResponse
<1>6. CASE RequestCrashes \/ RequestsDone \/ PeerCloses
  <2>1. /\ UNCHANGED <<stream, got, sock, taken, sent>>
        /\ pc' \in {"crashed", "select", "closed"}
    BY <1>6 DEF RequestCrashes, RequestsDone, PeerCloses
  <2> QED
    BY <2>1, KeepRest
<1>7. CASE Halted \/ UNCHANGED vars
  <2>1. UNCHANGED <<stream, got, sock, taken, sent>> /\ pc' = pc
    BY <1>7 DEF Halted, vars
  <2>2. /\ stream.is_client => pc # "response"
        /\ ~stream.is_client => pc # "requests"
    BY DEF Inv, TypeInv
  <2> QED
    BY <2>1, <2>2, KeepRest
<1> QED
  BY <1>1, <1>2, <1>3, <1>4, <1>5, <1>6, <1>7 DEF Next

\* However the network cuts what a client or a server sends, no byte of it
\* is lost, doubled or moved between read, the buffer, extract_first_request
\* or extract_first_response, and what a tunnel or fast_forward writes.
THEOREM NoByteLost == Spec => []NothingLost
<1>1. Inv => NothingLost
  BY DEF Inv
<1> QED
  BY <1>1, Start, Step, PTL DEF Spec
=============================================================================
