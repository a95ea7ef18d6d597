------------------------------ MODULE HttpUtils ------------------------------
(***************************************************************************)
(* http_utils.c: how the proxy cuts requests and responses out of a        *)
(* receive buffer and what it reads in their heads.                        *)
(*                                                                         *)
(* A text is a sequence of words.  A word is one character where the code  *)
(* looks at characters (space, colon, CR, LF, digits) and stands for any   *)
(* run of others where it does not (a method, a url, a field name).        *)
(* Places in a text count from 1; 0 stands for NULL.  What lies behind the *)
(* last word of a buffer matches nothing the code searches for.            *)
(***************************************************************************)
EXTENDS Integers, Sequences, FiniteSetsExt

CONSTANTS
  Numeral,       \* the words that are numbers (below 10, or one word), to their values
  DefaultMaxAge  \* the max-age of a response that names none

ASSUME NumeralAssumption ==
  /\ "0" \in DOMAIN Numeral /\ Numeral["0"] = 0
  /\ "CR" \notin DOMAIN Numeral /\ "LF" \notin DOMAIN Numeral
  /\ \A word \in DOMAIN Numeral : Numeral[word] \in Nat

CRLF == <<"CR", "LF">>
EmptyLine == CRLF \o CRLF

OccursAt(str, word, i) == SubSeq(str, i, i + Len(word) - 1) = word

HasAt(str, word, i) == i + Len(word) - 1 <= Len(str) /\ OccursAt(str, word, i)

FirstOf(places) == IF places = {} THEN 0 ELSE Min(places)

\* External: the first place of word in str at or after from; 0 if none.
strstr(str, word, from) ==
  FirstOf({i \in from .. Len(str) - Len(word) + 1 : OccursAt(str, word, i)})

atoi(str) ==
  IF str # <<>> /\ str[1] \in DOMAIN Numeral THEN Numeral[str[1]] ELSE 0

\* What comes before the place at, and the place after the delimiter there.
CutAt(str, from, at, n) ==
  IF at = 0 THEN [text |-> <<>>, next |-> 0]
  ELSE [text |-> SubSeq(str, from, at - 1), next |-> at + n]

get_prefix(str, from, delim) ==
  CutAt(str, from, IF from = 0 THEN 0 ELSE strstr(str, delim, from), Len(delim))

-----------------------------------------------------------------------------
(* Heads.  A next of 0 is the result -1 of the source.                     *)

\* Neither search stops at the end of the line.
parse_header_line(str, from) ==
  LET name == get_prefix(str, from, <<":", " ">>)
      value == get_prefix(str, name.next, CRLF)
  IN  [name |-> name.text, value |-> value.text, next |-> value.next]

parse_request_line(str) ==
  LET method == get_prefix(str, 1, <<" ">>)
      url == get_prefix(str, method.next, <<" ">>)
      version == get_prefix(str, url.next, CRLF)
  IN  [method |-> method, url |-> url, next |-> version.next]

\* The value of the first Host line from st on; next is 0 when there is none.
FindHost(request, st) ==
  LET n == Len(request)
      find[i \in 1 .. n + 1] ==
        LET line == parse_header_line(request, i)
        IN  IF i > n \/ line.next = 0 THEN [text |-> <<>>, next |-> 0]
            ELSE IF line.name = <<"Host">>
                 THEN [text |-> line.value, next |-> line.next]
            ELSE find[line.next]
  IN  find[st]

\* After a request line that does not parse, the header lines are looked for
\* from (one character before) the beginning.
parse_request_head(request) ==
  LET line == parse_request_line(request)
  IN  [method |-> line.method, url |-> line.url,
       host |-> FindHost(request, IF line.next = 0 THEN 1 ELSE line.next)]

parse_host_field(host) ==
  LET name == get_prefix(host, 1, <<":">>)
  IN  IF name.next = 0 THEN [hostname |-> host, port |-> -1]
      ELSE [hostname |-> name.text,
            port |-> IF name.next > Len(host) THEN -1
                     ELSE atoi(SubSeq(host, name.next, Len(host)))]

\* The status code; the two other fields have no use.
parse_status_line(str) ==
  LET version == get_prefix(str, 1, <<" ">>)
  IN  atoi(get_prefix(str, version.next, <<" ">>).text)

\* What a Cache-Control value makes of the max-age found so far.
parse_cache_control(value, max_age) ==
  LET at == strstr(value, <<"max-age=">>, 1)
  IN  IF at = 0 \/ at = Len(value) THEN max_age
      ELSE atoi(SubSeq(value, at + 1, Len(value)))

\* Fault: the body starts at the empty line.
parse_body_head_KeepsEmptyLine(text) ==
  LET at == strstr(text, EmptyLine, 1)
  IN  [head |-> SubSeq(text, 1, at + 1),
       body |-> SubSeq(text, at + 2, Len(text))]

\* The head with its last line end, and what is behind the empty line.
parse_body_head(text) ==
  LET at == strstr(text, EmptyLine, 1)
  IN  [head |-> SubSeq(text, 1, at + 1),
       body |-> SubSeq(text, at + 4, Len(text))]

-----------------------------------------------------------------------------
(* extract_first_request.                                                  *)

\* Fault: the terminator's last character stays in the buffer.
extract_first_request_KeepsLast(buf) ==
  LET at == strstr(buf, EmptyLine, 1)
  IN  IF at = 0 THEN [n |-> 0, request |-> <<>>, rest |-> buf]
      ELSE [n |-> 1, request |-> SubSeq(buf, 1, at + 3),
            rest |-> SubSeq(buf, at + 3, Len(buf))]

\* n is the number of requests extracted, 0 or 1.
extract_first_request(buf) ==
  LET at == strstr(buf, EmptyLine, 1)
  IN  IF at = 0 THEN [n |-> 0, request |-> <<>>, rest |-> buf]
      ELSE [n |-> 1, request |-> SubSeq(buf, 1, at + 3),
            rest |-> SubSeq(buf, at + 4, Len(buf))]

-----------------------------------------------------------------------------
(* extract_first_response.                                                 *)

\* The loop over the header lines, from st up to the empty line at end: the
\* fields in order.  A line the parser cannot read moves the loop one
\* character back, from where it comes to the same line again, or leaves the
\* front of the buffer: it never ends.
HeaderFields(buf, st, end) ==
  LET read[i \in 1 .. Len(buf) + 1] ==
        LET line == parse_header_line(buf, i)
        IN  IF i >= end THEN [ends |-> TRUE, fields |-> <<>>]
            ELSE IF line.next = 0 THEN [ends |-> FALSE, fields |-> <<>>]
            ELSE [read[line.next] EXCEPT !.fields = <<line>> \o @]
  IN  read[st]

\* The last value of a field; <<>> if it is not there.
FieldValue(fields, name) ==
  LET at == {i \in DOMAIN fields : fields[i].name = name}
  IN  IF at = {} THEN <<>> ELSE fields[Max(at)].value

\* The max-age after every Cache-Control line.
MaxAgeOf(fields) ==
  LET after[i \in 0 .. Len(fields)] ==
        IF i = 0 THEN DefaultMaxAge
        ELSE IF fields[i].name = <<"Cache-Control">>
             THEN parse_cache_control(fields[i].value, after[i - 1])
        ELSE after[i - 1]
  IN  after[Len(fields)]

NamesChunked(fields) ==
  \E i \in DOMAIN fields : /\ fields[i].name = <<"Transfer-Encoding">>
                           /\ fields[i].value = <<"chunked">>

\* strtol(..., 16): line ends before the number are skipped like any space.
strtol(buf, p) ==
  LET from == {i \in p .. Len(buf) : buf[i] \notin {"CR", "LF"}}
  IN  IF from # {} /\ buf[Min(from)] \in DOMAIN Numeral
      THEN [val |-> Numeral[buf[Min(from)]], end |-> Min(from) + 1]
      ELSE [val |-> 0, end |-> p]

\* Fault: only the last five characters decide.
ChunksComplete_TailOnly(buf, st) == TRUE

\* The walk over the chunks from the place st.
ChunksComplete(buf, st) ==
  LET n == Len(buf)
      walk[p \in 1 .. n + 1] ==
        LET size == strtol(buf, p)
            next == size.end + 2 + size.val
        IN  \/ size.val = 0 /\ SubSeq(buf, size.end, n) = EmptyLine
            \/ /\ HasAt(buf, CRLF, size.end)
               /\ HasAt(buf, CRLF, next)
               /\ walk[next + 2]
  IN  walk[st]

EndsLikeChunked(buf) ==
  Len(buf) < 5 \/ OccursAt(buf, <<"0">> \o EmptyLine, Len(buf) - 4)

\* Fault: the length is compared with all that is in the buffer.
BodyComplete_CountsHead(buf, end, length) == Len(buf) >= length

\* The test of a body with a Content-Length (0 if there is none): it counts
\* from the empty line at end, not from the body behind it.
BodyComplete(buf, end, length) == Len(buf) - (end - 1) >= length

\* Fault: the loop over the header lines runs into the empty line.
HeaderEnd_AfterEmptyLine(at) == at + 4

\* The end of the last header line, where the empty line starts.
HeaderEnd(at) == at + 2

\* n is the number of responses extracted, the whole buffer each time; ends
\* is FALSE when the call never returns.
extract_first_response(buf, is_chunked) ==
  LET at == strstr(buf, EmptyLine, 1)
      end == HeaderEnd(at)
      head == HeaderFields(buf, strstr(buf, CRLF, 1) + 2, end)
      chunked == is_chunked \/ NamesChunked(head.fields)
      length == atoi(FieldValue(head.fields, <<"Content-Length">>))
      complete == IF chunked
                  THEN EndsLikeChunked(buf) /\ ChunksComplete(buf, end + 2)
                  ELSE BodyComplete(buf, end, length)
  IN  IF at = 0
      THEN [n |-> 0, ends |-> TRUE, is_chunked |-> is_chunked,
            max_age |-> DefaultMaxAge]
      ELSE [n |-> IF head.ends /\ complete THEN 1 ELSE 0,
            ends |-> head.ends, is_chunked |-> chunked,
            max_age |-> MaxAgeOf(head.fields)]
=============================================================================
