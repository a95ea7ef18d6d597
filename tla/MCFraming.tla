------------------------------ MODULE MCFraming ------------------------------
(***************************************************************************)
(* Framing for TLC: the messages of a client and of a server, written word *)
(* by word, and the streams made of them.                                  *)
(***************************************************************************)
EXTENDS Framing, TLC

MCNumeral ==
  "0" :> 0 @@ "1" :> 1 @@ "2" :> 2 @@ "3" :> 3 @@ "5" :> 5 @@ "200" :> 200

Field(name, value) == <<name, ":", " ">> \o value \o CRLF

Request(method, fields, hostname, port, body) ==
  LET head == <<method, " ", "url", " ", "HTTP/1.1">> \o CRLF \o fields \o CRLF
  IN  [text |-> head \o body, head |-> Len(head),
       method |-> method, hostname |-> hostname, port |-> port]

Get(ssl) ==
  Request("GET", Field("Host", <<"h">>), "h", IF ssl THEN 443 ELSE 80, <<>>)
GetPort ==
  Request("GET", Field("Accept", <<"any">>) \o Field("Host", <<"i", ":", "3">>),
          "i", 3, <<>>)
Connect == Request("CONNECT", Field("Host", <<"h">>), "h", 443, <<>>)
Post(ssl) ==
  Request("POST", Field("Host", <<"h">>), "h", IF ssl THEN 443 ELSE 80, <<"x">>)
NoHost == Request("GET", <<>>, "none", 80, <<>>)
Data == [text |-> <<"x", "CR", "LF">>, head |-> 0]

\* Where the parts of a text begin that follow what has n words, and where
\* the last one ends.
Places(n, parts) ==
  [k \in 1 .. Len(parts) + 1 |-> n + 1 + Len(FlattenSeq(SubSeq(parts, 1, k - 1)))]

Response(fields, chunked, sane, body, chunks) ==
  LET status == <<"HTTP/1.1", " ", "200", " ", "OK">> \o CRLF
      head == status \o FlattenSeq(fields) \o CRLF
  IN  [text |-> head \o body, head |-> Len(head), sane |-> sane,
       chunked |-> chunked, lines |-> Places(Len(status), fields),
       chunks |-> Places(Len(head), chunks)]

Length(n, body) ==
  Response(<<Field("Content-Length", <<n>>)>>, FALSE, TRUE, body, <<>>)
Aged ==
  Response(<<Field("Cache-Control", <<"max-age=", "5">>),
             Field("Content-Length", <<"1">>)>>, FALSE, TRUE, <<"x">>, <<>>)
Chunked(chunks) ==
  Response(<<Field("Transfer-Encoding", <<"chunked">>)>>, TRUE, TRUE,
           FlattenSeq(chunks) \o <<"0">> \o EmptyLine, chunks)
NoSpace ==
  Response(<<<<"Server", ":", "s">> \o CRLF>>, FALSE, FALSE, <<>>, <<>>)
NoFields == Response(<<>>, FALSE, TRUE, <<>>, <<>>)

ShortChunk == <<"2">> \o CRLF \o <<"x", "y">> \o CRLF
\* Its data are the end of a chunked response.
FakeEnd == <<"5">> \o CRLF \o <<"0">> \o EmptyLine \o CRLF

Some(S, n) == UNION {[1 .. k -> S] : k \in 1 .. n}

TextOf(m, k) == FlattenSeq([i \in 1 .. k |-> m[i].text])

Carries(is_client, is_ssl, S) ==
  {[is_client |-> is_client, is_ssl |-> is_ssl, msgs |-> m,
    text |-> TextOf(m, Len(m)),
    ends |-> [k \in DOMAIN m |-> Len(TextOf(m, k))]] : m \in S}

MCStreams ==
  Carries(TRUE, FALSE, Some({Get(FALSE), GetPort, Post(FALSE), NoHost}, 2))
  \cup Carries(TRUE, FALSE, {<<Get(FALSE), GetPort, Get(FALSE)>>,
                             <<Connect, Data>>, <<GetPort, Connect, Data>>,
                             <<Post(FALSE), Connect, Data>>})
  \cup Carries(TRUE, TRUE, Some({Get(TRUE), GetPort, Post(TRUE)}, 2))
  \cup Carries(FALSE, FALSE,
               Some({Length("0", <<>>), Length("3", <<"x", "y", "z">>), Aged,
                     Chunked(<<ShortChunk>>), Chunked(<<FakeEnd, ShortChunk>>),
                     NoSpace}, 1))
  \cup Carries(FALSE, TRUE,
               Some({Length("2", <<"x", "y">>), Aged,
                     Chunked(<<ShortChunk>>), Chunked(<<FakeEnd>>)}, 2))
  \cup Carries(FALSE, TRUE, {<<Length("2", CRLF), NoFields>>})
=============================================================================
