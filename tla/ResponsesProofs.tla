---------------------------- MODULE ResponsesProofs ----------------------------
(***************************************************************************)
(* Proofs that a chunked response is taken out of the receive buffer at    *)
(* its last byte, that one with a length is missed by two bytes at most,   *)
(* and that the loop over the header lines ends: for every well-formed     *)
(* response, of any number of header lines and chunks, and however the     *)
(* reads cut it.                                                           *)
(***************************************************************************)
EXTENDS MessagesProofs

-----------------------------------------------------------------------------
(* Searching two texts of which one begins the other.                      *)

\* Wherever both have a word it is the same.
Agree(a, b) == \A x \in 1 .. Len(a) : x <= Len(b) => b[x] = a[x]

\* The places of a word in a text, at or after from.
Sites(t, w, from) ==
  {i \in from .. Len(t) - Len(w) + 1 : OccursAt(t, w, i)}

\* strstr finds the first of them.
LEMMA FindsFirst ==
  ASSUME NEW t \in Words, NEW w, Len(w) \in Nat \ {0}, NEW from \in Nat \ {0}
  PROVE  /\ strstr(t, w, from) = FirstOf(Sites(t, w, from))
         /\ Sites(t, w, from) \in SUBSET (Nat \ {0})
         /\ \A i : i \in Sites(t, w, from) <=>
              /\ i \in Nat /\ from <= i /\ i + Len(w) - 1 <= Len(t)
              /\ SubSeq(t, i, i + Len(w) - 1) = w
<1>1. Len(t) \in Nat
  BY LenProperties DEF Words
<1>2. strstr(t, w, from) = FirstOf(Sites(t, w, from))
  BY DEF strstr, Sites
<1>3. \A i : i \in from .. Len(t) - Len(w) + 1 <=>
               i \in Nat /\ from <= i /\ i + Len(w) - 1 <= Len(t)
  BY <1>1
<1>4. \A i : i \in Sites(t, w, from) <=>
               /\ i \in from .. Len(t) - Len(w) + 1
               /\ SubSeq(t, i, i + Len(w) - 1) = w
  BY Zenon DEF Sites, OccursAt
<1>5. \A i : i \in Sites(t, w, from) <=>
               /\ i \in Nat /\ from <= i /\ i + Len(w) - 1 <= Len(t)
               /\ SubSeq(t, i, i + Len(w) - 1) = w
  BY <1>3, <1>4, Zenon
<1>6. Sites(t, w, from) \in SUBSET (Nat \ {0})
  BY <1>5
<1> QED
  BY <1>2, <1>5, <1>6, Zenon

\* What strstr finds is a place of the word, and the first one.
LEMMA Found ==
  ASSUME NEW t \in Words, NEW w, Len(w) \in Nat \ {0}, NEW from \in Nat \ {0},
         strstr(t, w, from) # 0
  PROVE  LET i == strstr(t, w, from)
         IN  /\ i \in Nat \ {0} /\ from <= i /\ i + Len(w) - 1 <= Len(t)
             /\ i \in Sites(t, w, from)
             /\ \A j \in Sites(t, w, from) : i <= j
<1> DEFINE i == strstr(t, w, from)
           S == Sites(t, w, from)
<1>1. i = FirstOf(S) /\ S \in SUBSET (Nat \ {0})
  BY FindsFirst
<1>2. i \in S /\ \A j \in S : i <= j
  <2> HIDE DEF i, S
  <2>1. i # 0
    BY DEF i
  <2> QED
    BY <1>1, <2>1, FirstIsLeast
<1>3. i \in Nat \ {0}
  BY <1>1, <1>2
<1>4. from <= i /\ i + Len(w) - 1 <= Len(t)
  BY <1>2, FindsFirst
<1> QED
  BY <1>2, <1>3, <1>4

\* The texts agree the other way round.
LEMMA AgreeBack ==
  ASSUME NEW a \in Words, NEW b \in Words, Agree(a, b)
  PROVE  Agree(b, a)
<1>1. Len(a) \in Nat /\ Len(b) \in Nat
  BY LenProperties DEF Words
<1> QED
  BY <1>1 DEF Agree

\* They have the same parts as far as both go.
LEMMA AgreedPart ==
  ASSUME NEW a \in Words, NEW b \in Words, Agree(a, b),
         NEW i \in Nat \ {0}, NEW j \in Nat, j <= Len(a), j <= Len(b)
  PROVE  SubSeq(b, i, j) = SubSeq(a, i, j)
<1>1. Len(a) \in Nat /\ Len(b) \in Nat
  BY LenProperties DEF Words
<1>2. \A x \in i .. j : x \in 1 .. Len(a) /\ x <= Len(b)
  BY <1>1
<1>3. \A x \in i .. j : b[x] = a[x]
  BY <1>2 DEF Agree
<1> QED
  BY <1>3, SameParts

\* A word that one of them has, the other has if it goes so far.
LEMMA SiteMoves ==
  ASSUME NEW a \in Words, NEW b \in Words, Agree(a, b),
         NEW w, Len(w) \in Nat \ {0}, NEW from \in Nat \ {0},
         NEW i \in Sites(a, w, from), i + Len(w) - 1 <= Len(b)
  PROVE  i \in Sites(b, w, from)
<1>1. /\ i \in Nat /\ from <= i /\ i + Len(w) - 1 <= Len(a)
      /\ SubSeq(a, i, i + Len(w) - 1) = w
  BY FindsFirst
<1>2. i \in Nat \ {0} /\ i + Len(w) - 1 \in Nat
  BY <1>1
<1>3. SubSeq(b, i, i + Len(w) - 1) = w
  BY <1>1, <1>2, AgreedPart
<1> QED
  BY <1>1, <1>3, FindsFirst

\* What is found in one text is found in the other, at the same place.
LEMMA FirstStays ==
  ASSUME NEW a \in Words, NEW b \in Words, Agree(a, b),
         NEW w, Len(w) \in Nat \ {0}, NEW from \in Nat \ {0},
         strstr(a, w, from) # 0, strstr(a, w, from) + Len(w) - 1 <= Len(b)
  PROVE  strstr(b, w, from) = strstr(a, w, from)
<1>1. PICK i : i = strstr(a, w, from)
  OBVIOUS
<1>2. /\ i \in Nat \ {0} /\ i + Len(w) - 1 <= Len(a) /\ i \in Sites(a, w, from)
      /\ \A j \in Sites(a, w, from) : i <= j
  BY <1>1, Found
<1>3. i \in Sites(b, w, from)
  BY <1>1, <1>2, SiteMoves
<1>4. ASSUME NEW j \in Sites(b, w, from)
      PROVE  i <= j
  <2>1. j \in Nat
    BY FindsFirst
  <2>2. CASE j + Len(w) - 1 <= Len(a)
    <3>1. j \in Sites(a, w, from)
      BY <2>2, AgreeBack, SiteMoves
    <3> QED
      BY <1>2, <3>1
  <2>3. CASE ~(j + Len(w) - 1 <= Len(a))
    <3>1. Len(a) \in Nat
      BY LenProperties DEF Words
    <3> QED
      BY <1>2, <2>1, <2>3, <3>1
  <2> QED
    BY <2>2, <2>3
<1>5. FirstOf(Sites(b, w, from)) = i
  BY <1>3, <1>4, FindsFirst, FirstIsLeast
<1> QED
  BY <1>1, <1>5, FindsFirst

\* And before the other goes so far, it is not.
LEMMA NotYet ==
  ASSUME NEW a \in Words, NEW b \in Words, Agree(a, b),
         NEW w, Len(w) \in Nat \ {0}, NEW from \in Nat \ {0},
         strstr(a, w, from) # 0, Len(b) < strstr(a, w, from) + Len(w) - 1
  PROVE  strstr(b, w, from) = 0
<1>1. PICK i : i = strstr(a, w, from)
  OBVIOUS
<1>2. /\ i \in Nat \ {0} /\ i + Len(w) - 1 <= Len(a)
      /\ \A j \in Sites(a, w, from) : i <= j
  BY <1>1, Found
<1>3. SUFFICES ASSUME strstr(b, w, from) # 0
               PROVE  FALSE
  OBVIOUS
<1>4. PICK j : j = strstr(b, w, from)
  OBVIOUS
<1>5. /\ j \in Nat \ {0} /\ j + Len(w) - 1 <= Len(b)
      /\ j \in Sites(b, w, from)
  BY <1>3, <1>4, Found
<1>6. Len(a) \in Nat /\ Len(b) \in Nat
  BY LenProperties DEF Words
<1>7. j + Len(w) - 1 <= Len(a) /\ j < i
  BY <1>1, <1>2, <1>5, <1>6
<1>8. j \in Sites(a, w, from)
  BY <1>5, <1>7, AgreeBack, SiteMoves
<1> QED
  BY <1>2, <1>5, <1>7, <1>8

-----------------------------------------------------------------------------
(* One header line.                                                        *)

ColonSpace == <<":", " ">>

\* Both words that are searched for have two characters.
LEMMA TwoCharacters ==
  Len(ColonSpace) = 2 /\ Len(CRLF) = 2 /\ Len(EmptyLine) = 4
BY EmptyLineWord DEF ColonSpace

\* What is known of a search for two characters.
LEMMA FoundTwo ==
  ASSUME NEW t \in Words, NEW w, Len(w) = 2, NEW from \in Nat \ {0},
         NEW i, i = strstr(t, w, from), i # 0
  PROVE  i \in Nat \ {0} /\ from <= i /\ i + 1 <= Len(t)
<1>1. Len(w) \in Nat \ {0}
  OBVIOUS
<1>2. i \in Nat \ {0} /\ from <= i /\ i + Len(w) - 1 <= Len(t)
  BY <1>1, Found
<1> QED
  BY <1>2

\* They are found at the same place in the other text.
LEMMA StaysTwo ==
  ASSUME NEW a \in Words, NEW b \in Words, Agree(a, b),
         NEW w, Len(w) = 2, NEW from \in Nat \ {0},
         NEW i, i = strstr(a, w, from), i # 0, i + 1 <= Len(b)
  PROVE  strstr(b, w, from) = i
<1>1. i \in Nat /\ Len(w) \in Nat \ {0}
  BY FoundTwo
<1>2. i + Len(w) - 1 <= Len(b)
  BY <1>1
<1> QED
  BY <1>1, <1>2, FirstStays

\* A line that can be read has a colon and a line end behind it.
LEMMA LineParts ==
  ASSUME NEW t, NEW i, i # 0
  PROVE  LET line == parse_header_line(t, i)
             p == strstr(t, ColonSpace, i)
             q == strstr(t, CRLF, p + 2)
         IN  /\ p = 0 => line.next = 0
             /\ p # 0 /\ p + 2 # 0 /\ q = 0 => line.next = 0
             /\ p # 0 /\ p + 2 # 0 /\ q # 0 =>
                  line = [name |-> SubSeq(t, i, p - 1),
                          value |-> SubSeq(t, p + 2, q - 1), next |-> q + 2]
<1> DEFINE p == strstr(t, ColonSpace, i)
           q == strstr(t, CRLF, p + 2)
           name == get_prefix(t, i, ColonSpace)
           value == get_prefix(t, name.next, CRLF)
<1>1. parse_header_line(t, i) =
        [name |-> name.text, value |-> value.text, next |-> value.next]
  BY DEF parse_header_line, ColonSpace
<1>2. name = CutAt(t, i, p, 2)
  BY TwoCharacters DEF get_prefix
<1>3. value = CutAt(t, name.next,
                    IF name.next = 0 THEN 0 ELSE strstr(t, CRLF, name.next), 2)
  BY TwoCharacters DEF get_prefix
<1> HIDE DEF name, value
<1>4. ASSUME p = 0
      PROVE  value.next = 0
  <2>1. name.next = 0
    BY <1>2, <1>4 DEF CutAt
  <2> QED
    BY <1>3, <2>1 DEF CutAt
<1>5. ASSUME p # 0, p + 2 # 0
      PROVE  /\ q = 0 => value.next = 0
             /\ q # 0 => /\ name.text = SubSeq(t, i, p - 1)
                         /\ value.text = SubSeq(t, p + 2, q - 1)
                         /\ value.next = q + 2
  <2>1. name.next = p + 2 /\ name.text = SubSeq(t, i, p - 1)
    BY <1>2, <1>5 DEF CutAt
  <2>2. value = CutAt(t, p + 2, q, 2)
    BY <1>3, <1>5, <2>1
  <2> QED
    BY <2>1, <2>2 DEF CutAt
<1> HIDE DEF p, q
<1>6. parse_header_line(t, i).next = value.next
  BY <1>1
<1>7. ASSUME p # 0, p + 2 # 0, q # 0
      PROVE  parse_header_line(t, i) =
               [name |-> SubSeq(t, i, p - 1),
                value |-> SubSeq(t, p + 2, q - 1), next |-> q + 2]
  BY <1>1, <1>5, <1>7
<1> QED
  BY <1>4, <1>5, <1>6, <1>7, Zenon DEF p, q

\* The next line begins behind this one, in the text or at its end.
LEMMA LineFits ==
  ASSUME NEW t \in Words, NEW i \in Nat \ {0},
         parse_header_line(t, i).next # 0
  PROVE  LET p == strstr(t, ColonSpace, i)
             q == strstr(t, CRLF, p + 2)
             line == parse_header_line(t, i)
         IN  /\ p \in Nat \ {0} /\ i <= p /\ q \in Nat \ {0} /\ p + 2 <= q
             /\ line = [name |-> SubSeq(t, i, p - 1),
                        value |-> SubSeq(t, p + 2, q - 1), next |-> q + 2]
             /\ line.next = q + 2
             /\ line.next \in Nat /\ i < line.next /\ line.next <= Len(t) + 1
<1>1. PICK p : p = strstr(t, ColonSpace, i)
  OBVIOUS
<1>2. PICK q : q = strstr(t, CRLF, p + 2)
  OBVIOUS
<1>3. p # 0
  BY <1>1, LineParts
<1>4. p \in Nat \ {0} /\ i <= p
  BY <1>1, <1>3, TwoCharacters, FoundTwo
<1>5. p + 2 \in Nat \ {0}
  BY <1>4
<1>6. q # 0
  BY <1>1, <1>2, <1>3, <1>5, LineParts
<1>7. q \in Nat \ {0} /\ p + 2 <= q /\ q + 1 <= Len(t)
  BY <1>2, <1>5, <1>6, TwoCharacters, FoundTwo
<1>8. parse_header_line(t, i) =
        [name |-> SubSeq(t, i, p - 1),
         value |-> SubSeq(t, p + 2, q - 1), next |-> q + 2]
  BY <1>1, <1>2, <1>3, <1>5, <1>6, LineParts
<1>9. parse_header_line(t, i).next = q + 2
  BY <1>8
<1>10. Len(t) \in Nat
  BY LenProperties DEF Words
<1>11. q + 2 \in Nat /\ i < q + 2 /\ q + 2 <= Len(t) + 1
  BY <1>4, <1>7, <1>10
<1> QED
  BY <1>1, <1>2, <1>4, <1>7, <1>8, <1>9, <1>11

\* A line that lies in both texts is read the same in both.
LEMMA LineStays ==
  ASSUME NEW a \in Words, NEW b \in Words, Agree(a, b), NEW i \in Nat \ {0},
         parse_header_line(a, i).next # 0,
         parse_header_line(a, i).next - 1 <= Len(b)
  PROVE  parse_header_line(b, i) = parse_header_line(a, i)
<1>1. PICK p : p = strstr(a, ColonSpace, i)
  OBVIOUS
<1>2. PICK q : q = strstr(a, CRLF, p + 2)
  OBVIOUS
<1>3. /\ p \in Nat \ {0} /\ i <= p /\ q \in Nat \ {0} /\ p + 2 <= q
      /\ parse_header_line(a, i) =
           [name |-> SubSeq(a, i, p - 1),
            value |-> SubSeq(a, p + 2, q - 1), next |-> q + 2]
      /\ parse_header_line(a, i).next = q + 2
      /\ q + 2 <= Len(a) + 1
  BY <1>1, <1>2, LineFits
<1>4. Len(a) \in Nat /\ Len(b) \in Nat
  BY LenProperties DEF Words
<1>5. q + 1 <= Len(b) /\ q + 1 <= Len(a)
  BY <1>3, <1>4
<1>6. strstr(b, ColonSpace, i) = p
  <2>1. p # 0 /\ p + 1 <= Len(b)
    BY <1>3, <1>4, <1>5
  <2> QED
    BY <1>1, <2>1, TwoCharacters, StaysTwo
<1>7. strstr(b, CRLF, p + 2) = q
  <2>1. q # 0 /\ q + 1 <= Len(b) /\ p + 2 \in Nat \ {0}
    BY <1>3, <1>4, <1>5
  <2> QED
    BY <1>2, <2>1, TwoCharacters, StaysTwo
<1>8. p # 0 /\ p + 2 # 0 /\ q # 0 /\ i # 0
  BY <1>3
<1>9. parse_header_line(b, i) =
        [name |-> SubSeq(b, i, p - 1),
         value |-> SubSeq(b, p + 2, q - 1), next |-> q + 2]
  BY <1>6, <1>7, <1>8, LineParts
<1>10. SubSeq(b, i, p - 1) = SubSeq(a, i, p - 1)
  <2>1. p - 1 \in Nat /\ p - 1 <= Len(a) /\ p - 1 <= Len(b)
    BY <1>3, <1>4, <1>5
  <2> QED
    BY <2>1, AgreedPart
<1>11. SubSeq(b, p + 2, q - 1) = SubSeq(a, p + 2, q - 1)
  <2>1. /\ q - 1 \in Nat /\ q - 1 <= Len(a) /\ q - 1 <= Len(b)
        /\ p + 2 \in Nat \ {0}
    BY <1>3, <1>4, <1>5
  <2> QED
    BY <2>1, AgreedPart
<1> QED
  BY <1>3, <1>9, <1>10, <1>11

-----------------------------------------------------------------------------
(* The loop over the header lines.                                         *)

\* One turn of the loop, g being what the later turns give.
Turn(g, b, end, i) ==
  LET line == parse_header_line(b, i)
  IN  IF i >= end THEN [ends |-> TRUE, fields |-> <<>>]
      ELSE IF line.next = 0 THEN [ends |-> FALSE, fields |-> <<>>]
      ELSE [g[line.next] EXCEPT !.fields = <<line>> \o @]

\* Every turn moves on in the buffer, so the loop has a result.
LEMMA TurnsExist ==
  ASSUME NEW b \in Words, NEW end
  PROVE  \E g : g = [i \in 1 .. Len(b) + 1 |-> Turn(g, b, end, i)]
<1> DEFINE n == Len(b)
           Walk(g, k) == g = [i \in k .. n + 1 |-> Turn(g, b, end, i)]
           Open == {d \in Nat \ {0} : d <= n + 2 /\ ~ \E g : Walk(g, n + 3 - d)}
<1>1. n \in Nat
  BY LenProperties DEF Words
<1> HIDE DEF n
<1>2. Open = {}
  <2> SUFFICES ASSUME Open # {}
               PROVE  FALSE
    OBVIOUS
  <2>1. PICK m \in Open : \A d \in Open : m <= d
    <3>1. Open \in SUBSET (Nat \ {0})
      OBVIOUS
    <3> HIDE DEF Open
    <3> QED
      BY <3>1, FirstIsLeast
  <2>2. m \in Nat \ {0} /\ m <= n + 2 /\ ~ \E g : Walk(g, n + 3 - m)
    OBVIOUS
  <2>3. CASE m = 1
    <3> DEFINE none == [i \in {} |-> 0]
    <3>1. n + 3 - m = n + 2 /\ n + 2 .. n + 1 = {}
      BY <1>1, <2>3
    <3>2. Walk(none, n + 2)
      BY <3>1
    <3> HIDE DEF Walk
    <3> QED
      BY <2>2, <3>1, <3>2
  <2>4. CASE m # 1
    <3> DEFINE k == n + 3 - m
    <3>1. /\ m - 1 \in Nat \ {0} /\ m - 1 <= n + 2 /\ ~(m <= m - 1)
          /\ n + 3 - (m - 1) = k + 1 /\ k \in Nat \ {0} /\ k <= n + 1
      BY <1>1, <2>2, <2>4
    <3>2. m - 1 \notin Open
      <4> HIDE DEF Open
      <4> QED
        BY <2>1, <3>1
    <3>3. ~ ~ \E g : Walk(g, n + 3 - (m - 1))
      <4> HIDE DEF Walk
      <4> QED
        BY <3>1, <3>2
    <3> HIDE DEF k
    <3>4. PICK g : Walk(g, k + 1)
      <4> HIDE DEF Walk
      <4> QED
        BY <3>1, <3>3
    <3>5. \A i \in k + 1 .. n + 1 : g[i] = Turn(g, b, end, i)
      <4> HIDE DEF Turn
      <4> QED
        BY <3>4
    <3> DEFINE h == [i \in k .. n + 1 |->
                      IF i = k THEN Turn(g, b, end, k) ELSE g[i]]
    <3>6. ASSUME NEW i \in k .. n + 1
          PROVE  h[i] = Turn(h, b, end, i)
      <4>1. parse_header_line(b, i).next # 0 =>
              h[parse_header_line(b, i).next] = g[parse_header_line(b, i).next]
        <5> SUFFICES ASSUME parse_header_line(b, i).next # 0
                     PROVE  h[parse_header_line(b, i).next]
                              = g[parse_header_line(b, i).next]
          OBVIOUS
        <5>1. PICK j : j = parse_header_line(b, i).next
          OBVIOUS
        <5>2. i \in Nat \ {0}
          BY <3>1
        <5>3. j \in Nat /\ i < j /\ j <= n + 1
          BY <5>1, <5>2, LineFits DEF n
        <5>4. j \in k .. n + 1 /\ j # k
          BY <1>1, <3>1, <5>3
        <5> QED
          BY <5>1, <5>4
      <4> HIDE DEF h
      <4>2. Turn(h, b, end, i) = Turn(g, b, end, i)
        BY <4>1 DEF Turn
      <4>3. h[i] = Turn(g, b, end, i)
        <5>1. i # k => i \in k + 1 .. n + 1
          BY <1>1, <3>1
        <5> HIDE DEF Turn
        <5> QED
          BY <3>5, <5>1 DEF h
      <4> QED
        BY <4>2, <4>3
    <3>7. h = [i \in k .. n + 1 |-> h[i]]
      OBVIOUS
    <3>8. Walk(h, k)
      <4> HIDE DEF h, Turn
      <4> QED
        BY <3>6, <3>7
    <3> HIDE DEF Walk
    <3> QED
      BY <2>2, <3>8 DEF k
  <2> QED
    BY <2>3, <2>4
<1>3. n + 2 \in Nat \ {0} /\ n + 2 <= n + 2 /\ n + 3 - (n + 2) = 1
  BY <1>1
<1>4. \E g : Walk(g, n + 3 - (n + 2))
  <2> HIDE DEF Walk
  <2> QED
    BY <1>2, <1>3
<1>5. \E g : Walk(g, 1)
  <2> HIDE DEF Walk
  <2> QED
    BY <1>3, <1>4
<1> QED
  BY <1>5, Zenon DEF n

\* So the loop gives what its turns give.
LEMMA HeaderTurns ==
  ASSUME NEW b \in Words, NEW end
  PROVE  \E g : /\ \A i \in 1 .. Len(b) + 1 : g[i] = Turn(g, b, end, i)
                /\ \A st : HeaderFields(b, st, end) = g[st]
<1> DEFINE Walk(g) == g = [i \in 1 .. Len(b) + 1 |-> Turn(g, b, end, i)]
<1>1. \E g : Walk(g)
  BY TurnsExist
<1>2. \A st : HeaderFields(b, st, end) = (CHOOSE g : Walk(g))[st]
  BY DEF HeaderFields, Turn
<1> DEFINE g == CHOOSE h : Walk(h)
<1>3. Walk(g)
  BY <1>1
<1>4. \A i \in 1 .. Len(b) + 1 : g[i] = Turn(g, b, end, i)
  <2> HIDE DEF g, Turn
  <2> QED
    BY <1>3
<1>5. \A st : HeaderFields(b, st, end) = g[st]
  BY <1>2
<1> HIDE DEF g
<1> QED
  BY <1>4, <1>5

-----------------------------------------------------------------------------
(* The head of a well-formed response, read in a buffer that begins with   *)
(* it.                                                                     *)

\* Two sequences are the same if they have the same length and members.
LEMMA SameSequence ==
  ASSUME NEW S, NEW a \in Seq(S), NEW R, NEW b \in Seq(R), Len(a) = Len(b),
         \A x \in 1 .. Len(a) : a[x] = b[x]
  PROVE  a = b
<1>1. a = [x \in 1 .. Len(a) |-> a[x]]
  OBVIOUS
<1>2. b = [x \in 1 .. Len(b) |-> b[x]]
  OBVIOUS
<1> QED
  BY <1>1, <1>2

\* The words of a part of a text.
LEMMA PartOf ==
  ASSUME NEW t \in Words, NEW i \in Nat \ {0}, NEW j \in i .. Len(t)
  PROVE  /\ SubSeq(t, i, j) \in Words
         /\ Len(SubSeq(t, i, j)) = j - i + 1
         /\ \A x \in 1 .. j - i + 1 : SubSeq(t, i, j)[x] = t[i + x - 1]
<1>1. Len(t) \in Nat
  BY LenProperties DEF Words
<1>2. \A x \in i .. j : t[x] \in STRING
  <2>1. \A x \in i .. j : x \in 1 .. Len(t)
    BY <1>1
  <2> QED
    BY <2>1, ElementOfSeq DEF Words
<1>3. i \in Int /\ j \in Int /\ i <= j
  BY <1>1
<1> QED
  BY <1>2, <1>3, SubSeqProperties DEF Words

\* The members of two sequences one behind the other.
LEMMA Joined ==
  ASSUME NEW S, NEW a \in Seq(S), NEW b \in Seq(S),
         NEW n \in Nat, Len(a) = n, NEW k \in Nat, Len(b) = k
  PROVE  /\ a \o b \in Seq(S) /\ Len(a \o b) = n + k
         /\ a \o b = [i \in 1 .. n + k |-> IF i <= n THEN a[i] ELSE b[i - n]]
<1>1. PICK c : c = a \o b
  OBVIOUS
<1>2. /\ a \o b \in Seq(S) /\ Len(a \o b) = Len(a) + Len(b)
      /\ \A i \in 1 .. Len(a) + Len(b) : (a \o b)[i] =
           IF i <= Len(a) THEN a[i] ELSE b[i - Len(a)]
  BY ConcatProperties, Zenon
<1>3. /\ c \in Seq(S) /\ Len(c) = n + k
      /\ \A i \in 1 .. n + k : c[i] = IF i <= n THEN a[i] ELSE b[i - n]
  BY <1>1, <1>2, Zenon
<1>4. c = [i \in 1 .. n + k |-> c[i]]
  BY <1>3
<1>5. c = [i \in 1 .. n + k |-> IF i <= n THEN a[i] ELSE b[i - n]]
  BY <1>3, <1>4
<1> QED
  BY <1>1, <1>3, <1>5, Zenon

\* The characters of a line end and of an empty line.
LEMMA LineEndCharacters ==
  /\ CRLF[1] = "CR" /\ CRLF[2] = "LF"
  /\ \A x \in 1 .. 2 : EmptyLine[x] = CRLF[x] /\ EmptyLine[x + 2] = CRLF[x]
<1>1. PICK S : CRLF \in Seq(S) /\ Len(CRLF) = 2
  BY EmptyLineWord
<1>2. \A x \in 1 .. 4 :
        EmptyLine[x] = IF x <= 2 THEN CRLF[x] ELSE CRLF[x - 2]
  <2>1. EmptyLine =
          [x \in 1 .. 2 + 2 |-> IF x <= 2 THEN CRLF[x] ELSE CRLF[x - 2]]
    <3>1. 2 \in Nat
      OBVIOUS
    <3> QED
      BY <1>1, <3>1, Joined DEF EmptyLine
  <2> QED
    BY <2>1
<1>3. CRLF[1] = "CR" /\ CRLF[2] = "LF"
  BY DEF CRLF
<1>4. ASSUME NEW x \in 1 .. 2
      PROVE  EmptyLine[x] = CRLF[x] /\ EmptyLine[x + 2] = CRLF[x]
  <2>1. x \in 1 .. 4 /\ x <= 2 /\ x + 2 \in 1 .. 4 /\ ~(x + 2 <= 2)
    OBVIOUS
  <2>2. (x + 2) - 2 = x
    OBVIOUS
  <2> QED
    BY <1>2, <2>1, <2>2
<1> QED
  BY <1>3, <1>4

\* An empty line is two line ends.
LEMMA TwoLineEnds ==
  ASSUME NEW t \in Words, NEW i \in Nat \ {0}, i + 3 <= Len(t),
         SubSeq(t, i, i + 3) = EmptyLine
  PROVE  SubSeq(t, i, i + 1) = CRLF /\ SubSeq(t, i + 2, i + 3) = CRLF
<1>1. Len(t) \in Nat
  BY LenProperties DEF Words
<1>2. \A x \in 1 .. 4 : EmptyLine[x] = t[i + x - 1]
  <2>1. i + 3 \in i .. Len(t) /\ (i + 3) - i + 1 = 4
    BY <1>1
  <2>2. \A x \in 1 .. (i + 3) - i + 1 : SubSeq(t, i, i + 3)[x] = t[i + x - 1]
    BY <2>1, PartOf, Zenon
  <2> QED
    BY <2>1, <2>2
<1>3. ASSUME NEW k \in {i, i + 2},
             \A x \in 1 .. 2 : t[k + x - 1] = CRLF[x]
      PROVE  SubSeq(t, k, k + 1) = CRLF
  <2>1. k \in Nat \ {0} /\ k + 1 \in k .. Len(t) /\ k + 1 - k + 1 = 2
    BY <1>1
  <2>2. /\ SubSeq(t, k, k + 1) \in Seq(STRING) /\ Len(SubSeq(t, k, k + 1)) = 2
        /\ \A x \in 1 .. 2 : SubSeq(t, k, k + 1)[x] = t[k + x - 1]
    BY <2>1, PartOf DEF Words
  <2> QED
    BY <1>3, <2>2, EmptyLineWord, SameSequence
<1>4. \A x \in 1 .. 2 : t[i + x - 1] = CRLF[x]
  <2>1. \A x \in 1 .. 2 : x \in 1 .. 4
    OBVIOUS
  <2> QED
    BY <1>2, <2>1, LineEndCharacters
<1>5. \A x \in 1 .. 2 : t[(i + 2) + x - 1] = CRLF[x]
  <2>1. \A x \in 1 .. 2 : x + 2 \in 1 .. 4 /\ i + (x + 2) - 1 = (i + 2) + x - 1
    OBVIOUS
  <2> QED
    BY <1>2, <2>1, LineEndCharacters
<1>6. (i + 2) + 1 = i + 3
  OBVIOUS
<1> QED
  BY <1>3, <1>4, <1>5, <1>6

\* Where the parts of the head are.
LEMMA HeadFits ==
  ASSUME NEW m, m.text \in Words, GoodLines(m)
  PROVE  /\ m.head \in Nat /\ 3 < m.head /\ m.head <= Len(m.text)
         /\ Len(m.lines) \in Nat \ {0}
         /\ \A j \in 1 .. Len(m.lines) :
              m.lines[j] \in Nat \ {0} /\ m.lines[j] <= m.head - 1
         /\ strstr(m.text, CRLF, 1) # 0
<1>1. /\ m.head \in Nat /\ 3 < m.head
      /\ m.lines \in Seq(Nat \ {0}) /\ Len(m.lines) > 0
      /\ strstr(m.text, EmptyLine, 1) = m.head - 3
      /\ m.lines[Len(m.lines)] = m.head - 1
      /\ \A j \in 1 .. Len(m.lines) - 1 : m.lines[j] < m.head - 1
  BY DEF GoodLines
<1>2. PICK i : i = m.head - 3
  OBVIOUS
<1>3. i \in Nat \ {0} /\ i + 3 = m.head
  BY <1>1, <1>2
<1>4. /\ EmptyLines(m.text) \in SUBSET (Nat \ {0})
      /\ FirstOf(EmptyLines(m.text)) = i
  BY <1>1, <1>2, FindsEmptyLine
<1>5. i \in EmptyLines(m.text)
  BY <1>3, <1>4, FirstIsLeast
<1>6. i + 3 <= Len(m.text) /\ SubSeq(m.text, i, i + 3) = EmptyLine
  BY <1>5, FindsEmptyLine
<1>7. SubSeq(m.text, i, i + 1) = CRLF
  BY <1>3, <1>6, TwoLineEnds
<1>8. strstr(m.text, CRLF, 1) # 0
  <2>1. Len(m.text) \in Nat
    BY LenProperties DEF Words
  <2>2. Len(CRLF) \in Nat \ {0} /\ 1 \in Nat \ {0} /\ i + Len(CRLF) - 1 = i + 1
    BY <1>3, TwoCharacters
  <2>3. i + 1 <= Len(m.text) /\ 1 <= i
    BY <1>3, <1>6, <2>1
  <2>4. i \in Sites(m.text, CRLF, 1)
    BY <1>3, <1>7, <2>2, <2>3, FindsFirst
  <2>5. /\ strstr(m.text, CRLF, 1) = FirstOf(Sites(m.text, CRLF, 1))
        /\ Sites(m.text, CRLF, 1) \in SUBSET (Nat \ {0})
    BY <2>2, FindsFirst
  <2> QED
    BY <2>4, <2>5, FirstIsLeast
<1>9. Len(m.lines) \in Nat \ {0}
  BY <1>1
<1>10. ASSUME NEW j \in 1 .. Len(m.lines)
       PROVE  m.lines[j] \in Nat \ {0} /\ m.lines[j] <= m.head - 1
  <2>1. m.lines[j] \in Nat \ {0}
    BY <1>1
  <2>2. j = Len(m.lines) \/ j \in 1 .. Len(m.lines) - 1
    BY <1>9
  <2> QED
    BY <1>1, <2>1, <2>2
<1> QED
  BY <1>1, <1>3, <1>6, <1>8, <1>9, <1>10

\* The empty line and the end of the status line are found where they are.
LEMMA HeadHere ==
  ASSUME NEW m, m.text \in Words, GoodLines(m),
         NEW b \in Words, Agree(m.text, b), m.head <= Len(b)
  PROVE  /\ strstr(b, EmptyLine, 1) = m.head - 3
         /\ strstr(b, CRLF, 1) + 2 = m.lines[1]
<1>1. /\ m.head \in Nat /\ 3 < m.head
      /\ Len(m.lines) \in Nat \ {0}
      /\ m.lines[1] \in Nat \ {0} /\ m.lines[1] <= m.head - 1
      /\ strstr(m.text, CRLF, 1) # 0
  BY HeadFits
<1>2. /\ strstr(m.text, EmptyLine, 1) = m.head - 3
      /\ m.lines[1] = strstr(m.text, CRLF, 1) + 2
  BY DEF GoodLines
<1>3. Len(b) \in Nat
  BY LenProperties DEF Words
<1>4. strstr(b, EmptyLine, 1) = strstr(m.text, EmptyLine, 1)
  <2>1. /\ strstr(m.text, EmptyLine, 1) # 0
        /\ strstr(m.text, EmptyLine, 1) + Len(EmptyLine) - 1 <= Len(b)
        /\ Len(EmptyLine) \in Nat \ {0} /\ 1 \in Nat \ {0}
    BY <1>1, <1>2, TwoCharacters
  <2> QED
    BY <2>1, FirstStays
<1>5. strstr(b, CRLF, 1) = strstr(m.text, CRLF, 1)
  <2>1. PICK q : q = strstr(m.text, CRLF, 1)
    OBVIOUS
  <2>2. q \in Nat \ {0}
    BY <1>1, <2>1, TwoCharacters, FoundTwo
  <2>3. q # 0 /\ q + 1 <= Len(b) /\ 1 \in Nat \ {0}
    BY <1>1, <1>2, <1>3, <2>1, <2>2
  <2> QED
    BY <2>1, <2>3, TwoCharacters, StaysTwo
<1> QED
  BY <1>2, <1>4, <1>5

\* One field before the others.
LEMMA FieldBefore ==
  ASSUME NEW f, NEW n \in Nat, NEW j \in 1 .. n
  PROVE  <<f[j]>> \o [i \in 1 .. n - j |-> f[i + j]]
           = [i \in 1 .. n - j + 1 |-> f[i + j - 1]]
<1> DEFINE S == {f[i] : i \in 1 .. n}
           a == <<f[j]>>
           b == [i \in 1 .. n - j |-> f[i + j]]
<1>1. a \in Seq(S) /\ Len(a) = 1 /\ a[1] = f[j]
  OBVIOUS
<1>2. b \in Seq(S) /\ Len(b) = n - j
  <2>1. n - j \in Nat /\ \A i \in 1 .. n - j : i + j \in 1 .. n
    OBVIOUS
  <2> QED
    BY <2>1
<1>3. \A i \in 1 .. n - j : b[i] = f[i + j]
  OBVIOUS
<1> HIDE DEF S, a, b
<1>4. 1 \in Nat /\ n - j \in Nat /\ 1 + (n - j) = n - j + 1
  OBVIOUS
<1>5. a \o b =
        [i \in 1 .. 1 + (n - j) |-> IF i <= 1 THEN a[i] ELSE b[i - 1]]
  <2>1. PICK k : k = n - j
    OBVIOUS
  <2>2. PICK one : one = 1
    OBVIOUS
  <2>3. one \in Nat /\ k \in Nat /\ Len(a) = one /\ Len(b) = k
    BY <1>1, <1>2, <1>4, <2>1, <2>2, Zenon
  <2>4. a \in Seq(S) /\ b \in Seq(S)
    BY <1>1, <1>2, Zenon
  <2>5. /\ a \o b \in Seq(S) /\ Len(a \o b) = one + k
        /\ a \o b =
             [i \in 1 .. one + k |-> IF i <= one THEN a[i] ELSE b[i - one]]
    <3>1. \A x \in Seq(S), y \in Seq(S) : Len(x) = one /\ Len(y) = k =>
           /\ x \o y \in Seq(S) /\ Len(x \o y) = one + k
           /\ x \o y =
             [i \in 1 .. one + k |-> IF i <= one THEN x[i] ELSE y[i - one]]
      BY <2>3, Joined
    <3> QED
      BY <2>3, <2>4, <3>1, Zenon
  <2> QED
    BY <2>1, <2>2, <2>5, Zenon
<1>6. ASSUME NEW i \in 1 .. n - j + 1
      PROVE  (IF i <= 1 THEN a[i] ELSE b[i - 1]) = f[i + j - 1]
  <2>1. CASE i = 1
    BY <1>1, <2>1
  <2>2. CASE i # 1
    <3>1. i - 1 \in 1 .. n - j /\ (i - 1) + j = i + j - 1
      BY <2>2
    <3> QED
      BY <1>3, <2>2, <3>1
  <2> QED
    BY <2>1, <2>2
<1>7. a \o b = [i \in 1 .. n - j + 1 |-> f[i + j - 1]]
  BY <1>4, <1>5, <1>6
<1> QED
  BY <1>7 DEF a, b

\* The loop over the header lines reads the fields of the response.
LEMMA LinesRead ==
  ASSUME NEW m, m.text \in Words, GoodLines(m),
         NEW b \in Words, Agree(m.text, b), m.head <= Len(b)
  PROVE  LET read == HeaderFields(b, m.lines[1], m.head - 1)
         IN  read.ends = TRUE /\ read.fields = FieldsOf(m)
<1> DEFINE n == Len(m.lines)
           end == m.head - 1
           F == FieldsOf(m)
           Rest(j) == [i \in 1 .. n - j |-> F[i + j - 1]]
           Reads(r, j) == /\ DOMAIN r = {"ends", "fields"}
                          /\ r.ends = TRUE /\ r.fields = Rest(j)
<1>1. PICK g : /\ \A i \in 1 .. Len(b) + 1 : g[i] = Turn(g, b, end, i)
               /\ \A st : HeaderFields(b, st, end) = g[st]
  BY HeaderTurns
<1>2. /\ m.head \in Nat /\ 3 < m.head /\ n \in Nat \ {0}
      /\ \A j \in 1 .. n : m.lines[j] \in Nat \ {0} /\ m.lines[j] <= end
  BY HeadFits
<1>3. m.lines[n] = end
  BY DEF GoodLines
<1>4. \A j \in 1 .. n - 1 : m.lines[j] < end /\ F[j].next = m.lines[j + 1]
  BY DEF GoodLines
<1>5. \A j \in 1 .. n - 1 : F[j] = parse_header_line(m.text, m.lines[j])
  BY DEF FieldsOf
<1>6. F = [j \in 1 .. n - 1 |-> F[j]]
  BY DEF FieldsOf
<1>7. Len(b) \in Nat /\ end \in Nat
  BY <1>2, LenProperties DEF Words
<1> HIDE DEF n, end, F
<1>8. \A j \in 1 .. n : m.lines[j] \in 1 .. Len(b) + 1
  BY <1>2, <1>7 DEF end
<1>9. Reads(g[m.lines[n]], n)
  <2>1. g[m.lines[n]] = Turn(g, b, end, m.lines[n])
    BY <1>1, <1>2, <1>8
  <2>2. m.lines[n] >= end
    BY <1>2, <1>3, <1>7
  <2>3. Turn(g, b, end, m.lines[n]) = [ends |-> TRUE, fields |-> <<>>]
    BY <2>2 DEF Turn
  <2>4. Rest(n) = <<>>
    BY <1>2
  <2> QED
    BY <2>1, <2>3, <2>4
<1>10. ASSUME NEW j \in 1 .. n - 1, Reads(g[m.lines[j + 1]], j + 1)
       PROVE  Reads(g[m.lines[j]], j)
  <2>1. j \in 1 .. n /\ j + 1 \in 1 .. n
    BY <1>2
  <2>2. PICK i : i = m.lines[j]
    OBVIOUS
  <2>3. PICK line : line = parse_header_line(m.text, i)
    OBVIOUS
  <2>4. i \in Nat \ {0} /\ i \in 1 .. Len(b) + 1 /\ ~(i >= end)
    BY <1>2, <1>4, <1>7, <1>8, <2>1, <2>2
  <2>5. F[j] = line
    BY <1>5, <2>2, <2>3
  <2>6. line.next = m.lines[j + 1] /\ line.next # 0 /\ line.next - 1 <= Len(b)
    BY <1>2, <1>4, <1>7, <1>8, <2>1, <2>5
  <2>7. parse_header_line(b, i) = line
    BY <2>3, <2>4, <2>6, LineStays
  <2>8. g[i] = Turn(g, b, end, i)
    BY <1>1, <2>4
  <2>9. Turn(g, b, end, i) =
          [g[line.next] EXCEPT !.fields = <<line>> \o @]
    BY <2>4, <2>6, <2>7, Zenon DEF Turn
  <2>10. <<line>> \o Rest(j + 1) = Rest(j)
    <3>1. n - 1 \in Nat
      BY <1>2
    <3>2. <<F[j]>> \o [x \in 1 .. (n - 1) - j |-> F[x + j]]
            = [x \in 1 .. (n - 1) - j + 1 |-> F[x + j - 1]]
      BY <3>1, FieldBefore
    <3>3. Rest(j + 1) = [x \in 1 .. (n - 1) - j |-> F[x + j]]
      <4>1. n - (j + 1) = (n - 1) - j
        BY <1>2
      <4>2. \A x \in 1 .. (n - 1) - j : x + (j + 1) - 1 = x + j
        BY <1>2
      <4> QED
        BY <4>1, <4>2
    <3>4. (n - 1) - j + 1 = n - j
      BY <1>2
    <3> QED
      BY <2>5, <3>2, <3>3, <3>4
  <2> HIDE DEF Rest
  <2>11. PICK r : r = g[m.lines[j + 1]]
    OBVIOUS
  <2>12. g[i] = [r EXCEPT !.fields = <<line>> \o r.fields]
    <3> HIDE DEF Turn
    <3> QED
      BY <2>6, <2>8, <2>9, <2>11, Zenon
  <2>13. /\ r.fields = Rest(j + 1) /\ r.ends = TRUE
         /\ DOMAIN r = {"ends", "fields"}
    BY <1>10, <2>11
  <2>14. g[i] = [r EXCEPT !.fields = Rest(j)]
    BY <2>10, <2>12, <2>13, Zenon
  <2>15. Reads([r EXCEPT !.fields = Rest(j)], j)
    BY <2>13
  <2> HIDE DEF Reads
  <2> QED
    BY <2>2, <2>14, <2>15, Zenon
<1> DEFINE Open == {d \in Nat \ {0} :
                         /\ d <= n
                         /\ ~Reads(g[m.lines[n + 1 - d]], n + 1 - d)}
<1> HIDE DEF Reads
<1>11. Open = {}
  <2> SUFFICES ASSUME Open # {}
               PROVE  FALSE
    OBVIOUS
  <2>1. PICK d \in Open : \A e \in Open : d <= e
    <3>1. Open \in SUBSET (Nat \ {0})
      OBVIOUS
    <3> HIDE DEF Open
    <3> QED
      BY <3>1, FirstIsLeast
  <2>2. /\ d \in Nat \ {0} /\ d <= n
        /\ ~Reads(g[m.lines[n + 1 - d]], n + 1 - d)
    OBVIOUS
  <2>3. PICK j : j = n + 1 - d
    OBVIOUS
  <2>4. CASE d = 1
    <3>1. n + 1 - d = n
      BY <1>2, <2>4
    <3> QED
      BY <1>9, <2>2, <3>1
  <2>5. CASE d # 1
    <3>1. /\ d - 1 \in Nat \ {0} /\ d - 1 <= n /\ ~(d <= d - 1)
          /\ n + 1 - (d - 1) = j + 1 /\ j \in 1 .. n - 1
      BY <1>2, <2>2, <2>3, <2>5
    <3>2. d - 1 \notin Open
      <4> HIDE DEF Open
      <4> QED
        BY <2>1, <3>1
    <3>3. Reads(g[m.lines[j + 1]], j + 1)
      BY <3>1, <3>2
    <3>4. Reads(g[m.lines[j]], j)
      BY <1>10, <3>1, <3>3
    <3> QED
      BY <2>2, <2>3, <3>4
  <2> QED
    BY <2>4, <2>5
<1>12. Reads(g[m.lines[1]], 1)
  <2>1. n \in Nat \ {0} /\ n <= n /\ n + 1 - n = 1
    BY <1>2
  <2>2. ~ ~Reads(g[m.lines[n + 1 - n]], n + 1 - n)
    BY <1>11, <2>1
  <2> QED
    BY <2>1, <2>2
<1>13. Rest(1) = F
  <2>1. \A i \in 1 .. n - 1 : i + 1 - 1 = i
    OBVIOUS
  <2> QED
    BY <1>6, <2>1
<1>14. HeaderFields(b, m.lines[1], end) = g[m.lines[1]]
  BY <1>1, Zenon
<1> HIDE DEF Rest
<1> QED
  BY <1>12, <1>13, <1>14, Zenon DEF end, F, Reads

-----------------------------------------------------------------------------
(* The walk over the chunks.                                               *)

\* The places strtol looks for a number at.
Marks(b, p) == {i \in p .. Len(b) : b[i] \notin {"CR", "LF"}}

\* strtol reads the first word that is no line end, or nothing.
LEMMA StrtolReads ==
  ASSUME NEW b \in Words, NEW p \in Nat \ {0}
  PROVE  /\ strtol(b, p).val \in Nat
         /\ strtol(b, p).end \in Nat /\ p <= strtol(b, p).end
         /\ p \in Marks(b, p) /\ b[p] \in DOMAIN Numeral =>
              strtol(b, p).val = Numeral[b[p]] /\ strtol(b, p).end = p + 1
         /\ Marks(b, p) = {} =>
              strtol(b, p).val = 0 /\ strtol(b, p).end = p
<1>1. Len(b) \in Nat
  BY LenProperties DEF Words
<1>2. Marks(b, p) \in SUBSET (Nat \ {0}) /\ \A i \in Marks(b, p) : p <= i
  BY <1>1 DEF Marks
<1> DEFINE first == Min(Marks(b, p))
<1>3. first = FirstOf(Marks(b, p)) \/ Marks(b, p) = {}
  BY DEF FirstOf
<1>4. Marks(b, p) # {} => first \in Marks(b, p)
  <2> SUFFICES ASSUME Marks(b, p) # {}
               PROVE  first \in Marks(b, p)
    OBVIOUS
  <2> HIDE DEF first
  <2> QED
    BY <1>2, <1>3, FirstIsLeast
<1>5. p \in Marks(b, p) => first = p
  <2> SUFFICES ASSUME p \in Marks(b, p)
               PROVE  first = p
    OBVIOUS
  <2> HIDE DEF first
  <2> QED
    BY <1>2, <1>3, FirstIsLeast
<1>6. strtol(b, p) =
        IF Marks(b, p) # {} /\ b[first] \in DOMAIN Numeral
        THEN [val |-> Numeral[b[first]], end |-> first + 1]
        ELSE [val |-> 0, end |-> p]
  BY DEF strtol, Marks
<1> HIDE DEF first
<1>7. CASE Marks(b, p) # {} /\ b[first] \in DOMAIN Numeral
  <2>1. strtol(b, p).val = Numeral[b[first]] /\ strtol(b, p).end = first + 1
    BY <1>6, <1>7
  <2>2. Numeral[b[first]] \in Nat
    BY <1>7, NumeralAssumption
  <2>3. first \in Nat /\ p <= first
    BY <1>2, <1>4, <1>7
  <2> QED
    BY <1>5, <1>7, <2>1, <2>2, <2>3
<1>8. CASE ~(Marks(b, p) # {} /\ b[first] \in DOMAIN Numeral)
  <2>1. strtol(b, p).val = 0 /\ strtol(b, p).end = p
    BY <1>6, <1>8
  <2>2. p \in Marks(b, p) => b[p] \notin DOMAIN Numeral
    BY <1>5, <1>8
  <2> QED
    BY <2>1, <2>2
<1> QED
  BY <1>7, <1>8

\* One step of the walk, w being what the later steps give.
ChunkStep(w, b, p) ==
  LET n == Len(b)
      size == strtol(b, p)
      next == size.end + 2 + size.val
  IN  \/ size.val = 0 /\ SubSeq(b, size.end, n) = EmptyLine
      \/ /\ HasAt(b, CRLF, size.end)
         /\ HasAt(b, CRLF, next)
         /\ w[next + 2]

\* A step goes on behind a line end in the buffer.
LEMMA StepFits ==
  ASSUME NEW b \in Words, NEW p \in Nat \ {0},
         NEW next, next = strtol(b, p).end + 2 + strtol(b, p).val,
         HasAt(b, CRLF, next)
  PROVE  next + 2 \in Nat /\ p < next + 2 /\ next + 2 <= Len(b) + 1
<1>1. Len(b) \in Nat
  BY LenProperties DEF Words
<1>2. next + Len(CRLF) - 1 <= Len(b)
  BY DEF HasAt
<1>3. next + 2 - 1 <= Len(b)
  BY <1>2, TwoCharacters, Zenon
<1>4. next \in Nat /\ p <= next
  BY StrtolReads
<1> QED
  BY <1>1, <1>3, <1>4

\* Every step moves on in the buffer, so the walk has a result.
LEMMA WalkExists ==
  ASSUME NEW b \in Words
  PROVE  \E g : g = [i \in 1 .. Len(b) + 1 |-> ChunkStep(g, b, i)]
<1> DEFINE n == Len(b)
           Walk(g, k) == g = [i \in k .. n + 1 |-> ChunkStep(g, b, i)]
           Open == {d \in Nat \ {0} : d <= n + 2 /\ ~ \E g : Walk(g, n + 3 - d)}
<1>1. n \in Nat
  BY LenProperties DEF Words
<1> HIDE DEF n
<1>2. Open = {}
  <2> SUFFICES ASSUME Open # {}
               PROVE  FALSE
    OBVIOUS
  <2>1. PICK m \in Open : \A d \in Open : m <= d
    <3>1. Open \in SUBSET (Nat \ {0})
      OBVIOUS
    <3> HIDE DEF Open
    <3> QED
      BY <3>1, FirstIsLeast
  <2>2. m \in Nat \ {0} /\ m <= n + 2 /\ ~ \E g : Walk(g, n + 3 - m)
    OBVIOUS
  <2>3. CASE m = 1
    <3> DEFINE none == [i \in {} |-> 0]
    <3>1. n + 3 - m = n + 2 /\ n + 2 .. n + 1 = {}
      BY <1>1, <2>3
    <3>2. Walk(none, n + 2)
      BY <3>1
    <3> HIDE DEF Walk
    <3> QED
      BY <2>2, <3>1, <3>2
  <2>4. CASE m # 1
    <3> DEFINE k == n + 3 - m
    <3>1. /\ m - 1 \in Nat \ {0} /\ m - 1 <= n + 2 /\ ~(m <= m - 1)
          /\ n + 3 - (m - 1) = k + 1 /\ k \in Nat \ {0} /\ k <= n + 1
      BY <1>1, <2>2, <2>4
    <3>2. m - 1 \notin Open
      <4> HIDE DEF Open
      <4> QED
        BY <2>1, <3>1
    <3>3. ~ ~ \E g : Walk(g, n + 3 - (m - 1))
      <4> HIDE DEF Walk
      <4> QED
        BY <3>1, <3>2
    <3> HIDE DEF k
    <3>4. PICK g : Walk(g, k + 1)
      <4> HIDE DEF Walk
      <4> QED
        BY <3>1, <3>3
    <3>5. \A i \in k + 1 .. n + 1 : g[i] = ChunkStep(g, b, i)
      <4> HIDE DEF ChunkStep
      <4> QED
        BY <3>4
    <3> DEFINE h == [i \in k .. n + 1 |->
                      IF i = k THEN ChunkStep(g, b, k) ELSE g[i]]
    <3>6. ASSUME NEW i \in k .. n + 1
          PROVE  h[i] = ChunkStep(h, b, i)
      <4>1. PICK next : next = strtol(b, i).end + 2 + strtol(b, i).val
        OBVIOUS
      <4>2. HasAt(b, CRLF, next) => h[next + 2] = g[next + 2]
        <5> SUFFICES ASSUME HasAt(b, CRLF, next)
                     PROVE  h[next + 2] = g[next + 2]
          OBVIOUS
        <5>1. i \in Nat \ {0}
          BY <3>1
        <5>2. next + 2 \in Nat /\ i < next + 2 /\ next + 2 <= n + 1
          BY <4>1, <5>1, StepFits DEF n
        <5>3. next + 2 \in k .. n + 1 /\ next + 2 # k
          BY <1>1, <3>1, <5>2
        <5> QED
          BY <5>3
      <4> HIDE DEF h
      <4>3. ChunkStep(h, b, i) = ChunkStep(g, b, i)
        BY <4>1, <4>2, Zenon DEF ChunkStep
      <4>4. h[i] = ChunkStep(g, b, i)
        <5>1. i # k => i \in k + 1 .. n + 1
          BY <1>1, <3>1
        <5> HIDE DEF ChunkStep
        <5> QED
          BY <3>5, <5>1 DEF h
      <4> QED
        BY <4>4, <4>3, Zenon
    <3>7. h = [i \in k .. n + 1 |-> h[i]]
      OBVIOUS
    <3>8. Walk(h, k)
      <4> HIDE DEF h, ChunkStep
      <4> QED
        BY <3>6, <3>7
    <3> HIDE DEF Walk
    <3> QED
      BY <2>2, <3>8 DEF k
  <2> QED
    BY <2>3, <2>4
<1>3. n + 2 \in Nat \ {0} /\ n + 2 <= n + 2 /\ n + 3 - (n + 2) = 1
  BY <1>1
<1>4. \E g : Walk(g, n + 3 - (n + 2))
  <2> HIDE DEF Walk
  <2> QED
    BY <1>2, <1>3
<1>5. \E g : Walk(g, 1)
  <2> HIDE DEF Walk
  <2> QED
    BY <1>3, <1>4
<1> QED
  BY <1>5, Zenon DEF n

\* So the walk gives what its steps give.
LEMMA WalkSteps ==
  ASSUME NEW b \in Words
  PROVE  \E w : /\ \A p \in 1 .. Len(b) + 1 : w[p] = ChunkStep(w, b, p)
                /\ \A st : ChunksComplete(b, st) = w[st]
<1> DEFINE Walk(w) == w = [p \in 1 .. Len(b) + 1 |-> ChunkStep(w, b, p)]
<1>1. \E w : Walk(w)
  BY WalkExists
<1>2. \A st : ChunksComplete(b, st) = (CHOOSE w : Walk(w))[st]
  BY DEF ChunksComplete, ChunkStep
<1> DEFINE w == CHOOSE h : Walk(h)
<1>3. Walk(w)
  BY <1>1
<1>4. \A p \in 1 .. Len(b) + 1 : w[p] = ChunkStep(w, b, p)
  <2> HIDE DEF w, ChunkStep
  <2> QED
    BY <1>3
<1>5. \A st : ChunksComplete(b, st) = w[st]
  BY <1>2
<1> HIDE DEF w
<1> QED
  BY <1>4, <1>5

\* A line end of one text is one of the other, if it goes so far.
LEMMA LineEndStays ==
  ASSUME NEW t \in Words, NEW b \in Words, Agree(t, b),
         NEW i \in Nat \ {0}, HasAt(t, CRLF, i)
  PROVE  HasAt(b, CRLF, i) <=> i + 1 <= Len(b)
<1>1. Len(t) \in Nat /\ Len(b) \in Nat
  BY LenProperties DEF Words
<1>2. i + Len(CRLF) - 1 = i + 1
  BY TwoCharacters
<1>3. i + 1 <= Len(t) /\ SubSeq(t, i, i + 1) = CRLF
  BY <1>2, Zenon DEF HasAt, OccursAt
<1>4. HasAt(b, CRLF, i) <=> i + 1 <= Len(b) /\ SubSeq(b, i, i + 1) = CRLF
  BY <1>2, Zenon DEF HasAt, OccursAt
<1>5. ASSUME i + 1 <= Len(b)
      PROVE  SubSeq(b, i, i + 1) = CRLF
  <2>1. i + 1 \in Nat
    OBVIOUS
  <2>2. SubSeq(b, i, i + 1) = SubSeq(t, i, i + 1)
    BY <1>3, <1>5, <2>1, AgreedPart
  <2> QED
    BY <1>3, <2>2
<1> QED
  BY <1>4, <1>5, Zenon

\* The size of a chunk, once it is in the buffer.
LEMMA SizeReads ==
  ASSUME NEW t \in Words, NEW b \in Words, Agree(t, b),
         NEW p \in Nat \ {0}, p <= Len(t), t[p] \in DOMAIN Numeral
  PROVE  /\ p <= Len(b) =>
              strtol(b, p).val = Numeral[t[p]] /\ strtol(b, p).end = p + 1
         /\ p = Len(b) + 1 => strtol(b, p).val = 0 /\ strtol(b, p).end = p
<1>1. Len(t) \in Nat /\ Len(b) \in Nat
  BY LenProperties DEF Words
<1>2. ASSUME p <= Len(b)
      PROVE  strtol(b, p).val = Numeral[t[p]] /\ strtol(b, p).end = p + 1
  <2>1. b[p] = t[p]
    BY <1>1, <1>2 DEF Agree
  <2>2. b[p] \notin {"CR", "LF"}
    BY <2>1, NumeralAssumption
  <2>3. p \in p .. Len(b)
    BY <1>1, <1>2
  <2>4. p \in Marks(b, p)
    BY <2>2, <2>3 DEF Marks
  <2> QED
    BY <2>1, <2>4, StrtolReads
<1>3. ASSUME p = Len(b) + 1
      PROVE  strtol(b, p).val = 0 /\ strtol(b, p).end = p
  <2>1. p .. Len(b) = {}
    BY <1>1, <1>3
  <2>2. Marks(b, p) = {}
    BY <2>1 DEF Marks
  <2> QED
    BY <2>2, StrtolReads
<1> QED
  BY <1>2, <1>3

\* Nothing is no empty line.
LEMMA NoEmptyLine ==
  ASSUME NEW b \in Words, NEW i \in Nat \ {0}, Len(b) < i + 3
  PROVE  SubSeq(b, i, Len(b)) # EmptyLine
<1>1. Len(b) \in Nat
  BY LenProperties DEF Words
<1>2. CASE i <= Len(b)
  <2>1. i \in Nat \ {0} /\ Len(b) \in i .. Len(b)
    BY <1>1, <1>2
  <2>2. Len(SubSeq(b, i, Len(b))) = Len(b) - i + 1
    BY <2>1, PartOf
  <2>3. Len(b) - i + 1 # 4
    BY <1>1
  <2> QED
    BY <2>2, <2>3, TwoCharacters
<1>3. CASE Len(b) < i
  <2>1. SubSeq(b, i, Len(b)) = <<>>
    BY <1>1, <1>3, SubSeqEmpty
  <2>2. Len(<<>>) # 4
    OBVIOUS
  <2> QED
    BY <2>1, <2>2, TwoCharacters
<1> QED
  BY <1>1, <1>2, <1>3

\* A chunk with data: the walk goes on behind it once it is whole.
LEMMA DataChunk ==
  ASSUME NEW t \in Words, NEW b \in Words, Agree(t, b), NEW w,
         NEW p \in Nat \ {0}, p <= Len(t), p <= Len(b) + 1,
         t[p] \in DOMAIN Numeral, NEW val, val = Numeral[t[p]], val > 0,
         HasAt(t, CRLF, p + 1), HasAt(t, CRLF, p + 3 + val)
  PROVE  ChunkStep(w, b, p) <=> p + 4 + val <= Len(b) /\ w[p + 5 + val]
<1>1. Len(b) \in Nat /\ val \in Nat \ {0}
  BY NumeralAssumption, LenProperties DEF Words
<1>2. CASE p <= Len(b)
  <2>1. strtol(b, p).val = val /\ strtol(b, p).end = p + 1
    BY <1>2, SizeReads
  <2>2. PICK next : next = p + 1 + 2 + val
    OBVIOUS
  <2>3. val # 0
    BY <1>1
  <2>4. ChunkStep(w, b, p) <=>
          /\ HasAt(b, CRLF, p + 1) /\ HasAt(b, CRLF, next) /\ w[next + 2]
    BY <2>1, <2>2, <2>3, Zenon DEF ChunkStep
  <2>5. next = p + 3 + val /\ next \in Nat \ {0} /\ next + 2 = p + 5 + val
    BY <1>1, <2>2
  <2>6. HasAt(b, CRLF, p + 1) <=> p + 1 + 1 <= Len(b)
    BY LineEndStays
  <2>7. HasAt(b, CRLF, next) <=> next + 1 <= Len(b)
    BY <2>5, LineEndStays
  <2>8. next + 1 <= Len(b) <=> p + 4 + val <= Len(b)
    BY <1>1, <2>5
  <2>9. next + 1 <= Len(b) => p + 1 + 1 <= Len(b)
    BY <1>1, <2>5
  <2> QED
    BY <2>4, <2>5, <2>6, <2>7, <2>8, <2>9, Zenon
<1>3. CASE p = Len(b) + 1
  <2>1. strtol(b, p).val = 0 /\ strtol(b, p).end = p
    BY <1>3, SizeReads
  <2>2. SubSeq(b, p, Len(b)) # EmptyLine
    <3>1. Len(b) < p + 3
      BY <1>1, <1>3
    <3> QED
      BY <3>1, NoEmptyLine, Zenon
  <2>3. ~HasAt(b, CRLF, p)
    <3>1. p + Len(CRLF) - 1 = p + 1 /\ ~(p + 1 <= Len(b))
      BY <1>1, <1>3, TwoCharacters
    <3> QED
      BY <3>1, Zenon DEF HasAt
  <2>4. ~ChunkStep(w, b, p)
    BY <2>1, <2>2, <2>3, Zenon DEF ChunkStep
  <2>5. ~(p + 4 + val <= Len(b))
    BY <1>1, <1>3
  <2> QED
    BY <2>4, <2>5, Zenon
<1> QED
  BY <1>1, <1>2, <1>3

\* The last chunk has its size and an empty line.
LEMMA LastWords ==
  ASSUME NEW t \in Words, NEW p \in Nat \ {0}, HasAt(t, <<"0">> \o EmptyLine, p)
  PROVE  /\ p + 4 <= Len(t) /\ t[p] = "0"
         /\ SubSeq(t, p + 1, p + 4) = EmptyLine
         /\ HasAt(t, CRLF, p + 1) /\ HasAt(t, CRLF, p + 3)
<1>1. Len(t) \in Nat
  BY LenProperties DEF Words
<1>2. PICK S : EmptyLine \in Seq(S) /\ Len(EmptyLine) = 4
  BY EmptyLineWord
<1> DEFINE R == S \cup {"0"}
           zero == <<"0">>
<1>3. zero \in Seq(R) /\ Len(zero) = 1 /\ zero[1] = "0"
  OBVIOUS
<1>4. EmptyLine \in Seq(R)
  BY <1>2
<1> HIDE DEF zero, R
<1>5. /\ Len(zero \o EmptyLine) = 5
      /\ zero \o EmptyLine =
           [i \in 1 .. 5 |-> IF i <= 1 THEN zero[i] ELSE EmptyLine[i - 1]]
  <2>1. PICK n : n = 1
    OBVIOUS
  <2>2. PICK k : k = 4
    OBVIOUS
  <2>3. n \in Nat /\ k \in Nat /\ n + k = 5
    BY <2>1, <2>2
  <2>4. \A x \in Seq(R), y \in Seq(R) : Len(x) = n /\ Len(y) = k =>
          /\ Len(x \o y) = n + k
          /\ x \o y = [i \in 1 .. n + k |-> IF i <= n THEN x[i] ELSE y[i - n]]
    BY <2>3, Joined
  <2> QED
    <3>1. /\ Len(zero \o EmptyLine) = n + k
          /\ zero \o EmptyLine =
               [i \in 1 .. n + k |->
                  IF i <= n THEN zero[i] ELSE EmptyLine[i - n]]
      BY <1>2, <1>3, <1>4, <2>1, <2>2, <2>4, Zenon
    <3>2. Len(zero \o EmptyLine) = 5
      BY <2>3, <3>1, Zenon
    <3> QED
      BY <2>1, <2>3, <3>1, <3>2, Zenon
<1>6. p + 4 <= Len(t) /\ SubSeq(t, p, p + 4) = zero \o EmptyLine
  <2>1. HasAt(t, zero \o EmptyLine, p)
    BY DEF zero
  <2>2. p + 5 - 1 = p + 4
    OBVIOUS
  <2> QED
    BY <1>5, <2>1, <2>2, Zenon DEF HasAt, OccursAt
<1>7. \A x \in 1 .. 5 :
        t[p + x - 1] = IF x <= 1 THEN zero[x] ELSE EmptyLine[x - 1]
  <2>1. p + 4 \in p .. Len(t) /\ (p + 4) - p + 1 = 5
    BY <1>1, <1>6
  <2>2. \A x \in 1 .. (p + 4) - p + 1 : SubSeq(t, p, p + 4)[x] = t[p + x - 1]
    BY <2>1, PartOf, Zenon
  <2>3. PICK c : c = zero \o EmptyLine
    OBVIOUS
  <2>4. \A x \in 1 .. 5 : c[x] = t[p + x - 1]
    BY <1>6, <2>1, <2>2, <2>3, Zenon
  <2>5. c = [i \in 1 .. 5 |-> IF i <= 1 THEN zero[i] ELSE EmptyLine[i - 1]]
    BY <1>5, <2>3, Zenon
  <2> QED
    BY <2>4, <2>5
<1>8. t[p] = "0"
  BY <1>3, <1>7
<1>9. SubSeq(t, p + 1, p + 4) = EmptyLine
  <2>1. /\ p + 1 \in Nat \ {0} /\ p + 4 \in p + 1 .. Len(t)
        /\ (p + 4) - (p + 1) + 1 = 4
    BY <1>1, <1>6
  <2>2. /\ SubSeq(t, p + 1, p + 4) \in Words
        /\ Len(SubSeq(t, p + 1, p + 4)) = 4
        /\ \A x \in 1 .. (p + 4) - (p + 1) + 1 :
             SubSeq(t, p + 1, p + 4)[x] = t[p + 1 + x - 1]
    BY <2>1, PartOf
  <2>3. \A x \in 1 .. 4 : t[p + 1 + x - 1] = EmptyLine[x]
    <3>1. \A x \in 1 .. 4 : /\ x + 1 \in 1 .. 5 /\ ~(x + 1 <= 1)
                            /\ (x + 1) - 1 = x
                            /\ p + (x + 1) - 1 = p + 1 + x - 1
      OBVIOUS
    <3> QED
      BY <1>7, <3>1
  <2>4. PICK q : q = SubSeq(t, p + 1, p + 4)
    OBVIOUS
  <2>5. q \in Seq(STRING) /\ Len(q) = 4 /\ \A x \in 1 .. 4 : q[x] = EmptyLine[x]
    BY <2>1, <2>2, <2>3, <2>4 DEF Words
  <2>6. q = EmptyLine
    BY <1>2, <2>5, SameSequence
  <2> QED
    BY <2>4, <2>6
<1>10. SubSeq(t, p + 1, p + 2) = CRLF /\ SubSeq(t, p + 3, p + 4) = CRLF
  <2>1. /\ p + 1 \in Nat \ {0} /\ (p + 1) + 3 = p + 4 /\ (p + 1) + 1 = p + 2
        /\ (p + 1) + 2 = p + 3
    OBVIOUS
  <2>2. p + 1 \in Nat \ {0} /\ (p + 1) + 3 <= Len(t)
    BY <1>6, <2>1
  <2>3. SubSeq(t, p + 1, (p + 1) + 3) = EmptyLine
    BY <1>9, <2>1, Zenon
  <2> QED
    BY <2>1, <2>2, <2>3, TwoLineEnds
<1>11. HasAt(t, CRLF, p + 1) /\ HasAt(t, CRLF, p + 3)
  <2>1. /\ p + 1 + 2 - 1 = p + 2 /\ p + 3 + 2 - 1 = p + 4 /\ p + 2 <= Len(t)
    BY <1>1, <1>6
  <2> QED
    BY <1>6, <1>10, <2>1, TwoCharacters, Zenon DEF HasAt, OccursAt
<1> QED
  BY <1>6, <1>8, <1>9, <1>11

\* The walk ends at the last chunk when that is whole.
LEMMA EndChunk ==
  ASSUME NEW t \in Words, NEW b \in Words, Agree(t, b), NEW w,
         NEW p \in Nat \ {0}, HasAt(t, <<"0">> \o EmptyLine, p),
         Len(t) = p + 4, p <= Len(b) + 1, Len(b) <= Len(t)
  PROVE  ChunkStep(w, b, p) <=> Len(b) = Len(t)
<1>1. Len(t) \in Nat /\ Len(b) \in Nat
  BY LenProperties DEF Words
<1>2. /\ p <= Len(t) /\ t[p] = "0" /\ SubSeq(t, p + 1, p + 4) = EmptyLine
      /\ HasAt(t, CRLF, p + 3)
  BY <1>1, LastWords
<1>3. t[p] \in DOMAIN Numeral /\ Numeral[t[p]] = 0
  BY <1>2, NumeralAssumption
<1>4. CASE Len(b) = Len(t)
  <2>1. strtol(b, p).val = 0 /\ strtol(b, p).end = p + 1
    BY <1>1, <1>2, <1>3, <1>4, SizeReads
  <2>2. SubSeq(b, p + 1, Len(b)) = EmptyLine
    <3>1. p + 1 \in Nat \ {0} /\ p + 4 \in Nat /\ Len(b) = p + 4
      BY <1>4
    <3>2. SubSeq(b, p + 1, p + 4) = SubSeq(t, p + 1, p + 4)
      BY <1>4, <3>1, AgreedPart
    <3> QED
      BY <1>2, <3>1, <3>2, Zenon
  <2>3. ChunkStep(w, b, p)
    BY <2>1, <2>2, Zenon DEF ChunkStep
  <2> QED
    BY <1>4, <2>3, Zenon
<1>5. CASE Len(b) # Len(t) /\ p <= Len(b)
  <2>1. strtol(b, p).val = 0 /\ strtol(b, p).end = p + 1
    BY <1>2, <1>3, <1>5, SizeReads
  <2>2. SubSeq(b, p + 1, Len(b)) # EmptyLine
    <3>1. p + 1 \in Nat \ {0} /\ Len(b) < (p + 1) + 3
      BY <1>1, <1>5
    <3> QED
      BY <3>1, NoEmptyLine, Zenon
  <2>3. ~HasAt(b, CRLF, p + 3)
    BY <1>1, <1>2, <1>5, LineEndStays
  <2>4. p + 1 + 2 + 0 = p + 3
    OBVIOUS
  <2>5. ~ChunkStep(w, b, p)
    BY <2>1, <2>2, <2>3, <2>4, Zenon DEF ChunkStep
  <2> QED
    BY <1>5, <2>5, Zenon
<1>6. CASE p = Len(b) + 1
  <2>1. strtol(b, p).val = 0 /\ strtol(b, p).end = p
    BY <1>2, <1>3, <1>6, SizeReads
  <2>2. SubSeq(b, p, Len(b)) # EmptyLine
    <3>1. Len(b) < p + 3
      BY <1>1, <1>6
    <3> QED
      BY <3>1, NoEmptyLine, Zenon
  <2>3. ~HasAt(b, CRLF, p)
    <3>1. p + Len(CRLF) - 1 = p + 1 /\ ~(p + 1 <= Len(b))
      BY <1>1, <1>6, TwoCharacters
    <3> QED
      BY <3>1, Zenon DEF HasAt
  <2>4. ~ChunkStep(w, b, p)
    BY <2>1, <2>2, <2>3, Zenon DEF ChunkStep
  <2>5. Len(b) # Len(t)
    BY <1>1, <1>6
  <2> QED
    BY <2>4, <2>5, Zenon
<1> QED
  BY <1>1, <1>4, <1>5, <1>6

\* The walk over the chunks of a well-formed response gets to the end when
\* the whole response is in the buffer, and not before.
LEMMA ChunksRead ==
  ASSUME NEW m, m.text \in Words, m.head \in Nat, GoodChunks(m),
         NEW b \in Words, Agree(m.text, b),
         Len(b) <= Len(m.text), m.head <= Len(b)
  PROVE  ChunksComplete(b, m.head + 1) <=> Len(b) = Len(m.text)
<1> DEFINE n == Len(m.chunks)
           t == m.text
<1>1. PICK w : /\ \A p \in 1 .. Len(b) + 1 : w[p] = ChunkStep(w, b, p)
               /\ \A st : ChunksComplete(b, st) = w[st]
  BY WalkSteps
<1>2. /\ m.chunks \in Seq(Nat \ {0}) /\ n > 0
      /\ m.chunks[1] = m.head + 1
      /\ Len(t) = m.chunks[n] + 4
      /\ HasAt(t, <<"0">> \o EmptyLine, m.chunks[n])
  BY DEF GoodChunks
<1>3. ASSUME NEW j \in 1 .. n - 1, NEW p, p = m.chunks[j],
             NEW val, val = Numeral[t[p]]
      PROVE  /\ t[p] \in DOMAIN Numeral /\ val > 0
             /\ HasAt(t, CRLF, p + 1) /\ HasAt(t, CRLF, p + 3 + val)
             /\ m.chunks[j + 1] = p + 5 + val
  BY <1>3, Zenon DEF GoodChunks
<1>4. n \in Nat \ {0} /\ \A j \in 1 .. n : m.chunks[j] \in Nat \ {0}
  BY <1>2
<1>5. Len(t) \in Nat /\ Len(b) \in Nat
  BY LenProperties DEF Words
<1> DEFINE Whole(j) == /\ m.chunks[j] <= Len(t)
                       /\ m.chunks[j] <= Len(b) + 1 =>
                            (w[m.chunks[j]] <=> Len(b) = Len(t))
<1> HIDE DEF n, t
<1>6. t \in Words /\ Agree(t, b) /\ Len(b) <= Len(t)
  BY DEF t
<1>7. Whole(n)
  <2>1. PICK p : p = m.chunks[n]
    OBVIOUS
  <2>2. p \in Nat \ {0} /\ Len(t) = p + 4
    BY <1>2, <1>4, <2>1
  <2>3. ASSUME p <= Len(b) + 1
        PROVE  w[p] <=> Len(b) = Len(t)
    <3>1. p \in 1 .. Len(b) + 1
      BY <1>5, <2>2, <2>3
    <3>2. w[p] = ChunkStep(w, b, p)
      BY <1>1, <3>1
    <3>3. ChunkStep(w, b, p) <=> Len(b) = Len(t)
      BY <1>2, <1>6, <2>1, <2>2, <2>3, EndChunk
    <3> QED
      BY <3>2, <3>3, Zenon
  <2>4. p <= Len(t)
    BY <2>2
  <2> QED
    BY <2>1, <2>3, <2>4, Zenon
<1>8. ASSUME NEW j \in 1 .. n - 1, Whole(j + 1)
      PROVE  Whole(j)
  <2>1. PICK p : p = m.chunks[j]
    OBVIOUS
  <2>2. PICK val : val = Numeral[t[p]]
    OBVIOUS
  <2>3. /\ t[p] \in DOMAIN Numeral /\ val > 0
        /\ HasAt(t, CRLF, p + 1) /\ HasAt(t, CRLF, p + 3 + val)
        /\ m.chunks[j + 1] = p + 5 + val
    BY <1>3, <2>1, <2>2
  <2>4. val \in Nat
    BY <2>2, <2>3, NumeralAssumption
  <2>5. p \in Nat \ {0}
    BY <1>4, <2>1
  <2>6. p + 5 + val <= Len(t)
    BY <1>8, <2>3, Zenon
  <2>7. p + 5 + val <= Len(b) + 1 => (w[p + 5 + val] <=> Len(b) = Len(t))
    BY <1>8, <2>3, Zenon
  <2>8. p <= Len(t)
    BY <1>5, <2>4, <2>5, <2>6
  <2>9. ASSUME p <= Len(b) + 1
        PROVE  w[p] <=> Len(b) = Len(t)
    <3>1. p \in 1 .. Len(b) + 1
      BY <1>5, <2>5, <2>9
    <3>2. w[p] = ChunkStep(w, b, p)
      BY <1>1, <3>1
    <3>3. ChunkStep(w, b, p) <=> p + 4 + val <= Len(b) /\ w[p + 5 + val]
      BY <1>6, <2>2, <2>3, <2>5, <2>8, <2>9, DataChunk
    <3>4. p + 4 + val <= Len(b) <=> p + 5 + val <= Len(b) + 1
      BY <1>5, <2>4, <2>5
    <3>5. Len(b) = Len(t) => p + 5 + val <= Len(b) + 1
      BY <1>5, <2>4, <2>5, <2>6
    <3> QED
      BY <2>7, <3>2, <3>3, <3>4, <3>5, Zenon
  <2> QED
    BY <2>1, <2>8, <2>9, Zenon
<1> DEFINE Open == {d \in Nat \ {0} : d <= n /\ ~Whole(n + 1 - d)}
<1> HIDE DEF Whole
<1>9. Open = {}
  <2> SUFFICES ASSUME Open # {}
               PROVE  FALSE
    OBVIOUS
  <2>1. PICK d \in Open : \A e \in Open : d <= e
    <3>1. Open \in SUBSET (Nat \ {0})
      OBVIOUS
    <3> HIDE DEF Open
    <3> QED
      BY <3>1, FirstIsLeast
  <2>2. d \in Nat \ {0} /\ d <= n /\ ~Whole(n + 1 - d)
    OBVIOUS
  <2>3. PICK j : j = n + 1 - d
    OBVIOUS
  <2>4. CASE d = 1
    <3>1. n + 1 - d = n
      BY <1>4, <2>4
    <3> QED
      BY <1>7, <2>2, <3>1
  <2>5. CASE d # 1
    <3>1. /\ d - 1 \in Nat \ {0} /\ d - 1 <= n /\ ~(d <= d - 1)
          /\ n + 1 - (d - 1) = j + 1 /\ j \in 1 .. n - 1
      BY <1>4, <2>2, <2>3, <2>5
    <3>2. d - 1 \notin Open
      <4> HIDE DEF Open
      <4> QED
        BY <2>1, <3>1
    <3>3. Whole(j + 1)
      BY <3>1, <3>2
    <3>4. Whole(j)
      BY <1>8, <3>1, <3>3
    <3> QED
      BY <2>2, <2>3, <3>4
  <2> QED
    BY <2>4, <2>5
<1>10. Whole(1)
  <2>1. n \in Nat \ {0} /\ n <= n /\ n + 1 - n = 1
    BY <1>4
  <2>2. ~ ~Whole(n + 1 - n)
    BY <1>9, <2>1
  <2> QED
    BY <2>1, <2>2
<1>11. m.head + 1 <= Len(b) + 1
  BY <1>5
<1>12. w[m.head + 1] <=> Len(b) = Len(t)
  BY <1>2, <1>10, <1>11, Zenon DEF Whole
<1>13. ChunksComplete(b, m.head + 1) = w[m.head + 1]
  BY <1>1, Zenon
<1> QED
  BY <1>12, <1>13, Zenon DEF t

\* A whole chunked response looks like one.
LEMMA WholeLooksChunked ==
  ASSUME NEW m, m.text \in Words, GoodChunks(m),
         NEW b \in Words, Agree(m.text, b), Len(b) = Len(m.text)
  PROVE  EndsLikeChunked(b)
<1>1. Len(b) \in Nat
  BY LenProperties DEF Words
<1>2. PICK p : p = m.chunks[Len(m.chunks)]
  OBVIOUS
<1>3. /\ m.chunks \in Seq(Nat \ {0}) /\ Len(m.chunks) > 0
      /\ Len(m.text) = p + 4 /\ HasAt(m.text, <<"0">> \o EmptyLine, p)
  BY <1>2 DEF GoodChunks
<1>4. p \in Nat \ {0}
  BY <1>2, <1>3
<1>5. b = m.text
  <2>1. \A x \in 1 .. Len(b) : b[x] = m.text[x]
    BY <1>1 DEF Agree
  <2> QED
    BY <2>1, SameSequence DEF Words
<1>6. Len(b) - 4 = p
  BY <1>3, <1>4
<1> QED
  BY <1>3, <1>5, <1>6, Zenon DEF EndsLikeChunked, HasAt

-----------------------------------------------------------------------------
(* What is taken out of a buffer that begins as a well-formed response.    *)

\* What extract_first_response finds there.
LEMMA ResponseRead ==
  ASSUME NEW m, m.text \in Words, GoodLines(m),
         NEW b \in Words, Agree(m.text, b), NEW c \in BOOLEAN
  PROVE  LET first == extract_first_response(b, c)
         IN  /\ first.ends = TRUE
             /\ Len(b) < m.head => first.n = 0 /\ first.is_chunked = c
             /\ m.head <= Len(b) =>
                  /\ first.is_chunked = (c \/ m.chunked)
                  /\ c \/ m.chunked =>
                       first.n = IF /\ EndsLikeChunked(b)
                                    /\ ChunksComplete(b, m.head + 1)
                                 THEN 1 ELSE 0
                  /\ ~(c \/ m.chunked) =>
                       first.n = IF BodyComplete(b, m.head - 1,
                                                 ContentLength(FieldsOf(m)))
                                 THEN 1 ELSE 0
<1> DEFINE first == extract_first_response(b, c)
           at == strstr(b, EmptyLine, 1)
           end == HeaderEnd(at)
           head == HeaderFields(b, strstr(b, CRLF, 1) + 2, end)
           chunked == c \/ NamesChunked(head.fields)
           length == atoi(FieldValue(head.fields, <<"Content-Length">>))
           complete == IF chunked
                       THEN EndsLikeChunked(b) /\ ChunksComplete(b, end + 2)
                       ELSE BodyComplete(b, end, length)
<1>1. /\ m.head \in Nat /\ 3 < m.head /\ m.head <= Len(m.text)
      /\ strstr(m.text, EmptyLine, 1) = m.head - 3
  BY HeadFits DEF GoodLines
<1>2. first =
        IF at = 0
        THEN [n |-> 0, ends |-> TRUE, is_chunked |-> c,
              max_age |-> DefaultMaxAge]
        ELSE [n |-> IF head.ends /\ complete THEN 1 ELSE 0,
              ends |-> head.ends, is_chunked |-> chunked,
              max_age |-> MaxAgeOf(head.fields)]
  BY Zenon DEF extract_first_response
<1>3. Len(b) \in Nat
  BY LenProperties DEF Words
<1>4. CASE Len(b) < m.head
  <2>1. /\ strstr(m.text, EmptyLine, 1) # 0
        /\ Len(b) < strstr(m.text, EmptyLine, 1) + Len(EmptyLine) - 1
        /\ Len(EmptyLine) \in Nat \ {0} /\ 1 \in Nat \ {0}
    BY <1>1, <1>4, TwoCharacters
  <2>2. at = 0
    BY <2>1, NotYet
  <2> HIDE DEF head, complete, chunked, at, first
  <2>3. first = [n |-> 0, ends |-> TRUE, is_chunked |-> c,
                 max_age |-> DefaultMaxAge]
    BY <1>2, <2>2, Zenon
  <2>4. first.ends = TRUE /\ first.n = 0 /\ first.is_chunked = c
    BY <2>3
  <2>5. ~(m.head <= Len(b))
    BY <1>1, <1>3, <1>4
  <2> QED
    BY <2>4, <2>5, Zenon DEF first
<1>5. CASE m.head <= Len(b)
  <2>1. at = m.head - 3 /\ strstr(b, CRLF, 1) + 2 = m.lines[1]
    BY <1>5, HeadHere
  <2>2. end = m.head - 1 /\ at # 0 /\ end + 2 = m.head + 1
    BY <1>1, <2>1 DEF HeaderEnd
  <2> HIDE DEF at, end
  <2>3. head = HeaderFields(b, m.lines[1], m.head - 1)
    BY <2>1, <2>2, Zenon
  <2>4. head.ends = TRUE /\ head.fields = FieldsOf(m)
    BY <1>5, <2>3, LinesRead, Zenon
  <2> HIDE DEF head
  <2>5. NamesChunked(head.fields) = m.chunked
    BY <2>4, Zenon DEF GoodLines
  <2>6. length = ContentLength(FieldsOf(m))
    BY <2>4, Zenon DEF ContentLength
  <2> HIDE DEF length
  <2>7. first =
        [n |-> IF head.ends /\ complete THEN 1 ELSE 0,
         ends |-> head.ends, is_chunked |-> chunked,
         max_age |-> MaxAgeOf(head.fields)]
    BY <1>2, <2>2, Zenon
  <2> HIDE DEF first
  <2>8. /\ first.ends = head.ends /\ first.is_chunked = chunked
        /\ first.n = IF head.ends /\ complete THEN 1 ELSE 0
    <3> HIDE DEF chunked, complete
    <3> QED
      BY <2>7
  <2>9. chunked = (c \/ m.chunked)
    BY <2>5, Zenon
  <2> HIDE DEF chunked
  <2>10. first.ends = TRUE /\ first.is_chunked = (c \/ m.chunked)
    BY <2>4, <2>8, <2>9, Zenon
  <2>11. first.n = IF complete THEN 1 ELSE 0
    <3>1. head.ends
      BY <2>4, Zenon
    <3> HIDE DEF complete
    <3> QED
      BY <2>8, <3>1, Zenon
  <2>12. ASSUME c \/ m.chunked
         PROVE  first.n = IF /\ EndsLikeChunked(b)
                             /\ ChunksComplete(b, m.head + 1)
                          THEN 1 ELSE 0
    <3>1. chunked
      BY <2>9, <2>12, Zenon
    <3> QED
      BY <2>2, <2>11, <3>1, Zenon
  <2>13. ASSUME ~(c \/ m.chunked)
         PROVE  first.n = IF BodyComplete(b, m.head - 1,
                                          ContentLength(FieldsOf(m)))
                          THEN 1 ELSE 0
    <3>1. ~chunked
      BY <2>9, <2>13, Zenon
    <3> QED
      BY <2>2, <2>6, <2>11, <3>1, Zenon
  <2>14. ~(Len(b) < m.head)
    BY <1>1, <1>3, <1>5
  <2> QED
    BY <2>10, <2>12, <2>13, <2>14 DEF first
<1>6. Len(b) < m.head \/ m.head <= Len(b)
  BY <1>1, <1>3
<1> HIDE DEF first
<1> QED
  BY <1>4, <1>5, <1>6, Zenon

\* A chunked response is taken at its last byte.
LEMMA ChunkedTaken ==
  ASSUME NEW m, m.text \in Words, GoodLines(m), GoodChunks(m), m.chunked,
         NEW b \in Words, Agree(m.text, b), Len(b) <= Len(m.text),
         NEW c \in BOOLEAN
  PROVE  extract_first_response(b, c).n = 0 <=> Len(b) # Len(m.text)
<1>1. m.head \in Nat /\ m.head <= Len(m.text) /\ Len(m.text) \in Nat
  BY HeadFits, LenProperties DEF Words
<1>2. Len(b) \in Nat
  BY LenProperties DEF Words
<1>3. CASE Len(b) < m.head
  <2>1. extract_first_response(b, c).n = 0
    BY <1>3, ResponseRead, Zenon
  <2>2. Len(b) # Len(m.text)
    BY <1>1, <1>2, <1>3
  <2> QED
    BY <2>1, <2>2
<1>4. CASE m.head <= Len(b)
  <2>1. extract_first_response(b, c).n =
          IF EndsLikeChunked(b) /\ ChunksComplete(b, m.head + 1) THEN 1 ELSE 0
    BY <1>4, ResponseRead, Zenon
  <2>2. ChunksComplete(b, m.head + 1) <=> Len(b) = Len(m.text)
    BY <1>1, <1>4, ChunksRead
  <2>3. Len(b) = Len(m.text) => EndsLikeChunked(b)
    BY WholeLooksChunked
  <2>4. extract_first_response(b, c).n = IF Len(b) = Len(m.text) THEN 1 ELSE 0
    BY <2>1, <2>2, <2>3, Zenon
  <2> QED
    BY <2>4
<1> QED
  BY <1>1, <1>2, <1>3, <1>4

\* One with a length is taken at its last two bytes or behind, and leaves the
\* entry as it was.
LEMMA LengthTaken ==
  ASSUME NEW m, m.text \in Words, GoodLines(m), ~m.chunked,
         ContentLength(FieldsOf(m)) = Len(m.text) - m.head,
         NEW b \in Words, Agree(m.text, b)
  PROVE  /\ extract_first_response(b, FALSE).is_chunked = FALSE
         /\ extract_first_response(b, FALSE).n = 0 <=>
              ~(m.head <= Len(b) /\ Len(m.text) <= Len(b) + 2)
<1>1. m.head \in Nat /\ m.head <= Len(m.text) /\ Len(m.text) \in Nat
  BY HeadFits, LenProperties DEF Words
<1>2. Len(b) \in Nat
  BY LenProperties DEF Words
<1>3. FALSE \in BOOLEAN
  OBVIOUS
<1>4. CASE Len(b) < m.head
  <2>1. /\ extract_first_response(b, FALSE).n = 0
        /\ extract_first_response(b, FALSE).is_chunked = FALSE
    BY <1>3, <1>4, ResponseRead, Zenon
  <2>2. ~(m.head <= Len(b))
    BY <1>1, <1>2, <1>4
  <2> QED
    BY <2>1, <2>2, Zenon
<1>5. CASE m.head <= Len(b)
  <2>1. ~(FALSE \/ m.chunked)
    BY Zenon
  <2>2. extract_first_response(b, FALSE).n =
          IF BodyComplete(b, m.head - 1, ContentLength(FieldsOf(m)))
          THEN 1 ELSE 0
    BY <1>3, <1>5, <2>1, ResponseRead, Zenon
  <2>3. extract_first_response(b, FALSE).is_chunked = (FALSE \/ m.chunked)
    BY <1>3, <1>5, ResponseRead, Zenon
  <2>4. BodyComplete(b, m.head - 1, ContentLength(FieldsOf(m))) <=>
          Len(m.text) <= Len(b) + 2
    BY <1>1, <1>2 DEF BodyComplete
  <2>5. extract_first_response(b, FALSE).n =
          IF Len(m.text) <= Len(b) + 2 THEN 1 ELSE 0
    <3>1. CASE Len(m.text) <= Len(b) + 2
      BY <2>2, <2>4, <3>1, Zenon
    <3>2. CASE ~(Len(m.text) <= Len(b) + 2)
      BY <2>2, <2>4, <3>2, Zenon
    <3> QED
      BY <3>1, <3>2, Zenon
  <2>6. extract_first_response(b, FALSE).n = 0 <=> ~(Len(m.text) <= Len(b) + 2)
    <3>1. 1 # 0
      OBVIOUS
    <3> QED
      BY <2>5, <3>1, Zenon
  <2>7. (FALSE \/ m.chunked) = FALSE
    BY <2>1
  <2>8. extract_first_response(b, FALSE).is_chunked = FALSE
    BY <2>3, <2>7, Zenon
  <2> QED
    BY <1>5, <2>6, <2>8
<1>6. Len(b) < m.head \/ m.head <= Len(b)
  BY <1>1, <1>2
<1> QED
  BY <1>4, <1>5, <1>6, Zenon

-----------------------------------------------------------------------------
(* The responses of a server.                                              *)

\* As long as they were taken right, they are the first messages, and what
\* has been taken out ends where the last of them does.
TakenFirst ==
  TakenRight => Len(handed) <= Len(msgs) /\ Len(taken) = End(Len(handed))

\* Of chunked responses no more has been read than the next one, until a
\* read runs over its end, and outside of the handler none waits that is
\* complete.
ChunkedInv ==
  AllChunked /\ ~crossed =>
    /\ TakenRight
    /\ Len(handed) < Len(msgs) => got <= End(Len(handed) + 1)
    /\ pc \in {"select", "closed"} =>
         \A k \in 1 .. Len(msgs) : End(k) <= got => k <= Len(handed)

\* A first response with a length is in the buffer from its beginning, the
\* entry is not marked chunked, and it is taken before all of it is there or
\* at the latest then.
LengthInv ==
  1 \in DOMAIN msgs /\ ~msgs[1].chunked /\ msgs[1].sane =>
    /\ handed = <<>> => ~sock.is_chunked /\ taken = <<>>
    /\ handed # <<>> => Len(handed[1].text) >= End(1) - 2
    /\ pc \in {"select", "closed"} /\ got >= End(1) => handed # <<>>

\* What is known of a server's buffer in every state.
ResponsesInv ==
  ~stream.is_client => TakenFirst /\ HeadersEnd /\ ChunkedInv /\ LengthInv

\* In a server's buffer is what has been read and not taken out.
LEMMA ServerBuffer ==
  ASSUME Inv, ~stream.is_client
  PROVE  /\ stream \in Streams
         /\ sock.buf \in Words /\ sock.is_chunked \in BOOLEAN
         /\ taken \in Words /\ Len(taken) \in Nat /\ Len(sock.buf) \in Nat
         /\ got \in Nat /\ got <= Len(Text)
         /\ Len(taken) + Len(sock.buf) = got
         /\ \A x \in 1 .. Len(sock.buf) : sock.buf[x] = Text[Len(taken) + x]
<1>1. /\ stream \in Streams /\ taken \in Words /\ sock.buf \in Words
      /\ sock.is_chunked \in BOOLEAN
      /\ Text \in Words /\ got \in 0 .. Len(Text)
  BY FramingAssumption DEF Inv, TypeInv, Text, Words
<1> DEFINE none == <<>>
<1>2. none \in Words /\ Len(none) = 0
  BY EmptySeq DEF Words
<1> HIDE DEF none
<1>3. taken \o sock.buf = SubSeq(Text, 1, got)
  BY DEF Inv, NothingLost
<1>4. (taken \o sock.buf) \o none = taken \o sock.buf
  <2>1. taken \o sock.buf \in Words
    BY <1>1, <1>2, Concatenation
  <2> QED
    BY <2>1, Empty DEF none
<1>5. (taken \o sock.buf) \o none = SubSeq(Text, 1, got)
  BY <1>3, <1>4, Zenon
<1>6. /\ Len(taken) \in Nat /\ Len(sock.buf) \in Nat
      /\ got \in Nat /\ got <= Len(Text)
      /\ Len(taken) + Len(sock.buf) + Len(none) = got
  BY <1>1, <1>2, <1>5, MiddlePart
<1>7. \A x \in 1 .. Len(sock.buf) : sock.buf[x] = Text[Len(taken) + x]
  <2>1. \A b \in Words : (taken \o b) \o none = SubSeq(Text, 1, got) =>
          \A x \in 1 .. Len(b) : b[x] = Text[Len(taken) + x]
    BY <1>1, <1>2, MiddlePart
  <2> QED
    BY <1>1, <1>5, <2>1, Zenon
<1>8. Len(taken) + Len(sock.buf) = got
  BY <1>2, <1>6
<1> QED
  BY <1>1, <1>6, <1>7, <1>8, Zenon

\* No response is taken out of an empty buffer.
LEMMA NoResponseInEmpty ==
  ASSUME NEW b \in Words, Len(b) = 0, NEW c \in BOOLEAN
  PROVE  LET first == extract_first_response(b, c)
         IN  first.n = 0 /\ first.ends = TRUE
<1>1. EmptyLines(b) = {}
  BY FindsEmptyLine
<1>2. strstr(b, EmptyLine, 1) = 0
  BY <1>1, FindsEmptyLine DEF FirstOf
<1>3. extract_first_response(b, c) =
        [n |-> 0, ends |-> TRUE, is_chunked |-> c, max_age |-> DefaultMaxAge]
  BY <1>2, Zenon DEF extract_first_response
<1> QED
  BY <1>3

\* What is known of message k of a server, as the other side writes it.
LEMMA ResponseFormat ==
  ASSUME stream \in Streams, ~stream.is_client, NEW k \in 1 .. Len(msgs)
  PROVE  LET m == msgs[k]
         IN  /\ End(k - 1) \in Nat /\ End(k) \in Nat
             /\ m.text \in Words /\ Len(m.text) = End(k) - End(k - 1)
             /\ m.sane => GoodLines(m)
             /\ m.chunked => m.sane /\ GoodChunks(m)
             /\ m.sane /\ ~m.chunked =>
                  ContentLength(FieldsOf(m)) = Len(m.text) - m.head
<1>1. DOMAIN msgs = 1 .. Len(msgs)
  BY Ends DEF msgs
<1>2. /\ End(k - 1) \in Nat /\ End(k) \in Nat
      /\ msgs[k].text \in Words /\ Len(msgs[k].text) = End(k) - End(k - 1)
  BY Laid DEF msgs, End
<1>3. /\ msgs[k].sane => GoodLines(msgs[k])
      /\ msgs[k].chunked => msgs[k].sane /\ GoodChunks(msgs[k])
      /\ msgs[k].sane /\ ~msgs[k].chunked =>
           ContentLength(FieldsOf(msgs[k])) = Len(msgs[k].text) - msgs[k].head
  BY <1>1, ResponsesAssumption, Zenon DEF msgs
<1> QED
  BY <1>2, <1>3, Zenon

\* The buffer begins as the next message when the others were taken whole.
LEMMA NextResponse ==
  ASSUME Inv, ~stream.is_client, NEW k \in Nat, k < Len(msgs),
         Len(taken) = End(k)
  PROVE  /\ k + 1 \in 1 .. Len(msgs)
         /\ End(k) \in Nat /\ End(k + 1) \in Nat
         /\ msgs[k + 1].text \in Words
         /\ Len(msgs[k + 1].text) = End(k + 1) - End(k)
         /\ Agree(msgs[k + 1].text, sock.buf)
         /\ Len(sock.buf) = got - End(k)
<1>1. stream \in Streams
  BY ServerBuffer
<1>2. Len(msgs) \in Nat
  BY <1>1, Ends DEF msgs
<1>3. k + 1 \in 1 .. Len(msgs) /\ (k + 1) - 1 = k
  BY <1>2
<1>4. PICK a : a = msgs[k + 1].text
  OBVIOUS
<1>5. /\ End(k) \in Nat /\ End(k + 1) \in Nat
      /\ a \in Words /\ Len(a) = End(k + 1) - End(k)
      /\ \A x \in 1 .. Len(a) : a[x] = Text[End(k) + x]
  <2>1. \A i \in 1 .. Len(stream.msgs) :
          /\ EndOf(stream, i - 1) \in Nat /\ EndOf(stream, i) \in Nat
          /\ stream.msgs[i].text \in Words
          /\ Len(stream.msgs[i].text) = EndOf(stream, i) - EndOf(stream, i - 1)
          /\ \A x \in 1 .. Len(stream.msgs[i].text) :
               stream.msgs[i].text[x] = stream.text[EndOf(stream, i - 1) + x]
    BY <1>1, Laid
  <2> QED
    BY <1>3, <1>4, <2>1 DEF msgs, End, Text
<1>6. PICK b : b = sock.buf
  OBVIOUS
<1>7. /\ Len(b) \in Nat /\ got \in Nat /\ End(k) + Len(b) = got
      /\ \A x \in 1 .. Len(b) : b[x] = Text[End(k) + x]
  BY <1>6, ServerBuffer
<1>8. Agree(a, b)
  <2>1. Len(a) \in Nat
    BY <1>5
  <2> QED
    BY <1>5, <1>7, <2>1 DEF Agree
<1>9. Len(b) = got - End(k)
  BY <1>5, <1>7
<1> QED
  BY <1>3, <1>4, <1>5, <1>6, <1>8, <1>9, Zenon

\* What handle_server_response does.
LEMMA Handling ==
  ASSUME Inv, Sequence(handed), HandleResponse
  PROVE  LET first == extract_first_response(sock.buf, sock.is_chunked)
             h == Len(handed)
         IN  /\ ~stream.is_client /\ pc = "response"
             /\ UNCHANGED <<stream, got, crossed>>
             /\ first.n = 0 =>
                  /\ handed' = handed /\ taken' = taken
                  /\ sock'.is_chunked = first.is_chunked
                  /\ pc' = IF first.ends THEN "select" ELSE "hangs"
             /\ first.n # 0 =>
                  /\ Len(handed') = h + 1 /\ DOMAIN handed' = 1 .. h + 1
                  /\ \A k \in 1 .. h : handed'[k] = handed[k]
                  /\ handed'[h + 1].text = sock.buf
                  /\ taken' = taken \o sock.buf
                  /\ pc' \in {"select", "closed"}
<1> DEFINE first == extract_first_response(sock.buf, sock.is_chunked)
           e == [text |-> sock.buf, max_age |-> first.max_age,
                 status |-> parse_status_line(sock.buf)]
<1>1. /\ pc = "response" /\ UNCHANGED <<stream, got, crossed>>
      /\ IF first.n = 0
         THEN /\ sock' = [sock EXCEPT !.is_chunked = first.is_chunked]
              /\ pc' = IF first.ends THEN "select" ELSE "hangs"
              /\ UNCHANGED <<handed, taken>>
         ELSE /\ taken' = taken \o sock.buf
              /\ handed' = Append(handed, e)
              /\ pc' = IF stream.is_ssl THEN "select" ELSE "closed"
  BY DEF HandleResponse
<1>2. e.text = sock.buf
  OBVIOUS
<1>3. ~stream.is_client
  BY <1>1 DEF Inv, TypeInv
<1> HIDE DEF first, e
<1>4. ASSUME first.n = 0
      PROVE  /\ handed' = handed /\ taken' = taken
             /\ sock'.is_chunked = first.is_chunked
             /\ pc' = IF first.ends THEN "select" ELSE "hangs"
  <2>1. /\ handed' = handed /\ taken' = taken
        /\ pc' = IF first.ends THEN "select" ELSE "hangs"
        /\ sock' = [sock EXCEPT !.is_chunked = first.is_chunked]
    BY <1>1, <1>4, Zenon
  <2>2. sock \in [buf : Words, is_forward : BOOLEAN, is_chunked : BOOLEAN]
    BY DEF Inv, TypeInv
  <2>3. sock'.is_chunked = first.is_chunked
    BY <2>1, <2>2
  <2> QED
    BY <2>1, <2>3, Zenon
<1>5. ASSUME first.n # 0
      PROVE  /\ Len(handed') = Len(handed) + 1
             /\ DOMAIN handed' = 1 .. Len(handed) + 1
             /\ \A k \in 1 .. Len(handed) : handed'[k] = handed[k]
             /\ handed'[Len(handed) + 1].text = sock.buf
             /\ taken' = taken \o sock.buf
             /\ pc' \in {"select", "closed"}
  <2>1. /\ taken' = taken \o sock.buf /\ handed' = Append(handed, e)
        /\ pc' = IF stream.is_ssl THEN "select" ELSE "closed"
    BY <1>1, <1>5, Zenon
  <2>2. pc' \in {"select", "closed"}
    BY <2>1
  <2>3. /\ Len(handed') = Len(handed) + 1
        /\ DOMAIN handed' = 1 .. Len(handed) + 1
        /\ \A k \in 1 .. Len(handed) : handed'[k] = handed[k]
        /\ handed'[Len(handed) + 1] = e
    BY <2>1, OneMore
  <2> QED
    BY <1>2, <2>1, <2>2, <2>3, Zenon
<1> QED
  BY <1>1, <1>3, <1>4, <1>5, Zenon DEF first

\* After the last message the buffer is empty.
LEMMA BehindTaken ==
  ASSUME Inv, Sequence(handed), ~stream.is_client, TakenFirst, TakenRight
  PROVE  LET h == Len(handed)
             first == extract_first_response(sock.buf, sock.is_chunked)
         IN  /\ h \in Nat /\ DOMAIN handed = 1 .. h
             /\ Len(msgs) \in Nat /\ DOMAIN msgs = 1 .. Len(msgs)
             /\ h <= Len(msgs) /\ Len(taken) = End(h)
             /\ ~(h < Len(msgs)) => first.n = 0 /\ first.ends = TRUE
<1>1. PICK h : h = Len(handed)
  OBVIOUS
<1>2. h \in Nat /\ DOMAIN handed = 1 .. h
  BY <1>1, OneMore
<1>3. h <= Len(msgs) /\ Len(taken) = End(h)
  BY <1>1 DEF TakenFirst
<1>4. /\ stream \in Streams /\ sock.buf \in Words /\ sock.is_chunked \in BOOLEAN
      /\ Len(taken) \in Nat /\ Len(sock.buf) \in Nat
      /\ got \in Nat /\ got <= Len(Text) /\ Len(taken) + Len(sock.buf) = got
  BY ServerBuffer
<1>5. /\ Len(msgs) \in Nat /\ DOMAIN msgs = 1 .. Len(msgs)
      /\ End(Len(msgs)) = Len(Text)
  BY <1>4, Ends DEF msgs, End, Text
<1>6. ASSUME ~(h < Len(msgs))
      PROVE  /\ extract_first_response(sock.buf, sock.is_chunked).n = 0
             /\ extract_first_response(sock.buf, sock.is_chunked).ends = TRUE
  <2>1. h = Len(msgs)
    <3>1. Len(msgs) \in Nat /\ h \in Nat /\ h <= Len(msgs) /\ ~(h < Len(msgs))
      BY <1>2, <1>3, <1>5, <1>6, Zenon
    <3> QED
      BY <3>1
  <2>2. Len(taken) = Len(Text)
    BY <1>3, <1>5, <2>1, Zenon
  <2>3. Len(sock.buf) = 0
    BY <1>4, <2>2
  <2> QED
    BY <1>4, <2>3, NoResponseInEmpty, Zenon
<1> QED
  BY <1>1, <1>2, <1>3, <1>5, <1>6, Zenon

\* One response more that was taken right was the next message.
LEMMA TakenFirstHandled ==
  ASSUME Inv, Sequence(handed), TakenFirst, HandleResponse
  PROVE  TakenFirst'
<1> SUFFICES ASSUME TakenRight'
             PROVE  /\ Len(handed') <= Len(msgs')
                    /\ Len(taken') = EndOf(stream', Len(handed'))
  BY DEF TakenFirst, End
<1> DEFINE first == extract_first_response(sock.buf, sock.is_chunked)
<1>1. PICK h : h = Len(handed)
  OBVIOUS
<1>2. /\ ~stream.is_client /\ stream' = stream
      /\ first.n = 0 => handed' = handed /\ taken' = taken
      /\ first.n # 0 =>
           /\ Len(handed') = h + 1 /\ DOMAIN handed' = 1 .. h + 1
           /\ \A k \in 1 .. h : handed'[k] = handed[k]
           /\ handed'[h + 1].text = sock.buf
           /\ taken' = taken \o sock.buf
  BY <1>1, Handling, Zenon
<1>3. msgs' = msgs /\ \A k : End(k)' = End(k)
  BY <1>2, SameMessages
<1>4. h \in Nat /\ DOMAIN handed = 1 .. h
  BY <1>1, OneMore
<1> HIDE DEF first
<1>5. CASE first.n = 0
  <2>1. handed' = handed /\ taken' = taken
    BY <1>2, <1>5, Zenon
  <2>2. TakenRight
    BY <1>3, <2>1 DEF TakenRight
  <2>3. Len(handed) <= Len(msgs) /\ Len(taken) = End(Len(handed))
    BY <2>2 DEF TakenFirst
  <2>4. EndOf(stream', Len(handed')) = End(Len(handed))
    BY <1>2, <2>1 DEF End
  <2> QED
    BY <1>3, <2>1, <2>3, <2>4
<1>6. CASE first.n # 0
  <2>1. /\ Len(handed') = h + 1 /\ DOMAIN handed' = 1 .. h + 1
        /\ \A k \in 1 .. h : handed'[k] = handed[k]
        /\ handed'[h + 1].text = sock.buf
        /\ taken' = taken \o sock.buf
    BY <1>2, <1>6, Zenon
  <2>2. \A k \in 1 .. h + 1 : handed'[k].text = msgs[k].text
    BY <1>3, <2>1 DEF TakenRight
  <2>3. TakenRight
    <3>1. \A k \in 1 .. h : k \in 1 .. h + 1
      BY <1>4
    <3> QED
      BY <1>4, <2>1, <2>2, <3>1 DEF TakenRight
  <2>4. h < Len(msgs) /\ Len(taken) = End(h) /\ Len(msgs) \in Nat
    BY <1>1, <1>2, <1>6, <2>3, BehindTaken, Zenon DEF first
  <2>5. /\ h + 1 \in 1 .. Len(msgs) /\ End(h) \in Nat /\ End(h + 1) \in Nat
        /\ Len(msgs[h + 1].text) = End(h + 1) - End(h)
    BY <1>2, <1>4, <2>4, NextResponse, Zenon
  <2>6. sock.buf = msgs[h + 1].text
    <3>1. h + 1 \in 1 .. h + 1
      BY <1>4
    <3> QED
      BY <2>1, <2>2, <3>1, Zenon
  <2>7. Len(taken \o sock.buf) = Len(taken) + Len(sock.buf)
    <3>1. taken \in Words /\ sock.buf \in Words
      BY <1>2, ServerBuffer
    <3> QED
      BY <3>1, ConcatProperties DEF Words
  <2>8. Len(sock.buf) = End(h + 1) - End(h)
    BY <2>5, <2>6, Zenon
  <2>9. Len(taken') = End(h + 1)
    <3>1. Len(taken') = Len(taken) + Len(sock.buf)
      BY <2>1, <2>7, Zenon
    <3> QED
      BY <2>4, <2>5, <2>8, <3>1
  <2>10. EndOf(stream', Len(handed')) = End(h + 1)
    BY <1>2, <2>1 DEF End
  <2>11. h + 1 <= Len(msgs)
    BY <2>5
  <2> QED
    BY <1>3, <2>1, <2>9, <2>10, <2>11, Zenon
<1> QED
  BY <1>5, <1>6

\* The loop over the header lines of the next message ends.
LEMMA HeadersEndHandled ==
  ASSUME Inv, Sequence(handed), TakenFirst, HandleResponse
  PROVE  HeadersEnd'
<1> SUFFICES ASSUME (\A i \in DOMAIN msgs : msgs[i].sane)', TakenRight',
                    pc' = "hangs"
             PROVE  FALSE
  BY DEF HeadersEnd
<1> DEFINE first == extract_first_response(sock.buf, sock.is_chunked)
<1>1. PICK h : h = Len(handed)
  OBVIOUS
<1>2. /\ ~stream.is_client /\ stream' = stream
      /\ first.n = 0 =>
           /\ handed' = handed
           /\ pc' = IF first.ends THEN "select" ELSE "hangs"
      /\ first.n # 0 => pc' \in {"select", "closed"}
  BY Handling, Zenon
<1>3. msgs' = msgs
  BY <1>2, SameMessages
<1> HIDE DEF first
<1>4. first.n = 0
  BY <1>2
<1>5. first.ends # TRUE
  BY <1>2, <1>4
<1>6. TakenRight
  BY <1>2, <1>3, <1>4 DEF TakenRight
<1>7. /\ h \in Nat /\ h < Len(msgs) /\ Len(taken) = End(h)
      /\ DOMAIN msgs = 1 .. Len(msgs)
  BY <1>1, <1>2, <1>5, <1>6, BehindTaken, Zenon DEF first
<1>8. /\ h + 1 \in 1 .. Len(msgs) /\ msgs[h + 1].text \in Words
      /\ Agree(msgs[h + 1].text, sock.buf)
  BY <1>2, <1>7, NextResponse, Zenon
<1>9. stream \in Streams /\ sock.buf \in Words /\ sock.is_chunked \in BOOLEAN
  BY <1>2, ServerBuffer
<1>10. GoodLines(msgs[h + 1])
  <2>1. msgs[h + 1].sane
    BY <1>3, <1>7, <1>8
  <2> QED
    BY <1>2, <1>8, <1>9, <2>1, ResponseFormat, Zenon
<1>11. first.ends = TRUE
  BY <1>8, <1>9, <1>10, ResponseRead, Zenon DEF first
<1> QED
  BY <1>5, <1>11

\* A read that runs over no end gets no further than the next one.
LEMMA ChunkedBuffer ==
  ASSUME Inv, Sequence(handed), TakenFirst, ChunkedInv,
         NEW n \in 1 .. Len(Text), BufferResponse(n)
  PROVE  ChunkedInv'
<1>1. /\ ~stream.is_client /\ pc = "select" /\ pc' = "response"
      /\ stream' = stream /\ handed' = handed /\ got' = got + n
      /\ crossed' = (crossed \/ \E k \in DOMAIN msgs :
                                   got < End(k) /\ End(k) < got + n)
  BY DEF BufferResponse, Read
<1>2. /\ msgs' = msgs /\ \A k : End(k)' = End(k)
  BY <1>1, SameMessages
<1> SUFFICES ASSUME AllChunked', ~crossed'
             PROVE  /\ TakenRight'
                    /\ Len(handed) < Len(msgs) =>
                         got + n <= EndOf(stream, Len(handed) + 1)
  <2>1. pc' \notin {"select", "closed"}
    BY <1>1
  <2> QED
    BY <1>1, <1>2, <2>1 DEF ChunkedInv, End
<1>3. AllChunked /\ ~crossed
  BY <1>1, <1>2, Zenon DEF AllChunked
<1>4. /\ TakenRight
      /\ \A k \in 1 .. Len(msgs) : End(k) <= got => k <= Len(handed)
  BY <1>1, <1>3 DEF ChunkedInv
<1>5. TakenRight'
  BY <1>1, <1>2, <1>4 DEF TakenRight
<1>6. ASSUME Len(handed) < Len(msgs)
      PROVE  got + n <= End(Len(handed) + 1)
  <2>1. PICK h : h = Len(handed)
    OBVIOUS
  <2>2. h \in Nat /\ DOMAIN msgs = 1 .. Len(msgs) /\ Len(taken) = End(h)
    BY <1>1, <1>4, <2>1, BehindTaken, Zenon
  <2>3. h < Len(msgs)
    BY <1>6, <2>1
  <2>4. h + 1 \in 1 .. Len(msgs) /\ End(h + 1) \in Nat
    BY <1>1, <2>2, <2>3, NextResponse, Zenon
  <2>5. got \in Nat /\ n \in Nat
    BY <1>1, ServerBuffer
  <2>6. ~(End(h + 1) <= got)
    <3>1. ~(h + 1 <= h)
      BY <2>2
    <3> QED
      BY <1>4, <2>1, <2>4, <3>1
  <2>7. ~(got < End(h + 1) /\ End(h + 1) < got + n)
    BY <1>1, <2>2, <2>4
  <2>8. got + n <= End(h + 1)
    BY <2>4, <2>5, <2>6, <2>7
  <2> QED
    BY <2>1, <2>8, Zenon
<1> QED
  BY <1>5, <1>6, Zenon DEF End

\* Further messages end further on.
LEMMA EndsBehind ==
  ASSUME stream \in Streams, ~stream.is_client, AllChunked,
         NEW h \in Nat, NEW k \in Nat, h < k, k <= Len(msgs)
  PROVE  End(h) \in Nat /\ End(k) \in Nat /\ End(h) < End(k)
<1>1. /\ Len(msgs) \in Nat /\ DOMAIN msgs = 1 .. Len(msgs)
      /\ \A i \in 0 .. Len(msgs) : End(i) \in Nat
  BY Ends DEF msgs, End
<1>2. k \in 1 .. Len(msgs) /\ k - 1 \in 0 .. Len(msgs) /\ h \in 0 .. Len(msgs)
      /\ k \in 0 .. Len(msgs) /\ k - 1 \in h .. Len(msgs)
  BY <1>1
<1>3. /\ msgs[k].text \in Words /\ Len(msgs[k].text) = End(k) - End(k - 1)
      /\ GoodLines(msgs[k])
  <2>1. msgs[k].chunked
    BY <1>1, <1>2 DEF AllChunked
  <2> QED
    BY <1>2, <2>1, ResponseFormat, Zenon
<1>4. Len(msgs[k].text) \in Nat /\ 3 < Len(msgs[k].text)
  <2>1. /\ msgs[k].head \in Nat /\ 3 < msgs[k].head
        /\ msgs[k].head <= Len(msgs[k].text)
    BY <1>3, HeadFits
  <2>2. Len(msgs[k].text) \in Nat
    BY <1>3, LenProperties DEF Words
  <2> QED
    BY <2>1, <2>2
<1>5. End(h) <= End(k - 1)
  BY <1>2, EndsRise DEF msgs, End
<1>6. End(h) \in Nat /\ End(k) \in Nat /\ End(k - 1) \in Nat
  BY <1>1, <1>2
<1> QED
  BY <1>3, <1>4, <1>5, <1>6

\* A chunked response is taken when it is there, and as it is.
LEMMA ChunkedHandled ==
  ASSUME Inv, Sequence(handed), TakenFirst, ChunkedInv, HandleResponse
  PROVE  ChunkedInv'
<1> DEFINE first == extract_first_response(sock.buf, sock.is_chunked)
<1>1. PICK h : h = Len(handed)
  OBVIOUS
<1>2. /\ ~stream.is_client /\ stream' = stream /\ got' = got
      /\ crossed' = crossed
      /\ first.n = 0 => handed' = handed
      /\ first.n # 0 =>
           /\ Len(handed') = h + 1 /\ DOMAIN handed' = 1 .. h + 1
           /\ \A k \in 1 .. h : handed'[k] = handed[k]
           /\ handed'[h + 1].text = sock.buf
  BY <1>1, Handling, Zenon
<1>3. msgs' = msgs /\ \A k : End(k)' = End(k)
  BY <1>2, SameMessages
<1> SUFFICES ASSUME AllChunked, ~crossed
             PROVE  /\ TakenRight'
                    /\ Len(handed') < Len(msgs) =>
                         got <= EndOf(stream, Len(handed') + 1)
                    /\ \A k \in 1 .. Len(msgs) :
                         End(k) <= got => k <= Len(handed')
  BY <1>2, <1>3, Zenon DEF ChunkedInv, AllChunked, End
<1>4. TakenRight /\ (h < Len(msgs) => got <= End(h + 1))
  BY <1>1 DEF ChunkedInv
<1>5. /\ h \in Nat /\ DOMAIN handed = 1 .. h
      /\ Len(msgs) \in Nat /\ DOMAIN msgs = 1 .. Len(msgs)
      /\ h <= Len(msgs) /\ Len(taken) = End(h)
      /\ ~(h < Len(msgs)) => first.n = 0
  BY <1>1, <1>2, <1>4, BehindTaken, Zenon
<1>6. /\ stream \in Streams /\ sock.buf \in Words /\ sock.is_chunked \in BOOLEAN
      /\ got \in Nat /\ Len(sock.buf) \in Nat
  BY <1>2, ServerBuffer
<1>7. ASSUME NEW i \in Nat, NEW k \in Nat, i < k, k <= Len(msgs)
      PROVE  End(i) \in Nat /\ End(k) \in Nat /\ End(i) < End(k)
  BY <1>2, <1>6, <1>7, EndsBehind
<1> HIDE DEF first
<1>8. CASE ~(h < Len(msgs))
  <2>1. handed' = handed
    BY <1>2, <1>5, <1>8, Zenon
  <2>2. TakenRight'
    BY <1>3, <1>4, <2>1 DEF TakenRight
  <2>3. \A k \in 1 .. Len(msgs) : k <= h
    BY <1>5, <1>8
  <2> QED
    BY <1>1, <1>8, <2>1, <2>2, <2>3
<1>9. CASE h < Len(msgs)
  <2>1. PICK m : m = msgs[h + 1]
    OBVIOUS
  <2>2. /\ h + 1 \in 1 .. Len(msgs)
        /\ End(h) \in Nat /\ End(h + 1) \in Nat
        /\ m.text \in Words /\ Len(m.text) = End(h + 1) - End(h)
        /\ Agree(m.text, sock.buf) /\ Len(sock.buf) = got - End(h)
    BY <1>2, <1>5, <1>9, <2>1, NextResponse, Zenon
  <2>3. m.chunked
    BY <1>5, <2>1, <2>2 DEF AllChunked
  <2>4. GoodLines(m) /\ GoodChunks(m)
    BY <1>2, <1>6, <2>1, <2>2, <2>3, ResponseFormat, Zenon
  <2>5. got <= End(h + 1)
    BY <1>4, <1>9
  <2>6. Len(sock.buf) <= Len(m.text)
    BY <1>6, <2>2, <2>5
  <2>7. first.n = 0 <=> Len(sock.buf) # Len(m.text)
    BY <1>6, <2>2, <2>3, <2>4, <2>6, ChunkedTaken, Zenon DEF first
  <2>8. Len(sock.buf) = Len(m.text) <=> got = End(h + 1)
    BY <1>6, <2>2
  <2>9. CASE got # End(h + 1)
    <3>1. handed' = handed
      BY <1>2, <2>7, <2>8, <2>9, Zenon
    <3>2. TakenRight'
      BY <1>3, <1>4, <3>1 DEF TakenRight
    <3>3. got < End(h + 1)
      BY <1>6, <2>2, <2>5, <2>9
    <3>4. ASSUME NEW k \in 1 .. Len(msgs), End(k) <= got
          PROVE  k <= h
      <4> SUFFICES ASSUME ~(k <= h)
                   PROVE  FALSE
        OBVIOUS
      <4>1. \/ k = h + 1
            \/ h + 1 \in Nat /\ k \in Nat /\ h + 1 < k /\ k <= Len(msgs)
        BY <1>5
      <4>2. CASE k = h + 1
        BY <1>6, <2>2, <3>3, <3>4, <4>2
      <4>3. CASE h + 1 \in Nat /\ k \in Nat /\ h + 1 < k /\ k <= Len(msgs)
        <5>1. End(h + 1) \in Nat /\ End(k) \in Nat /\ End(h + 1) < End(k)
          BY <1>7, <4>3
        <5> QED
          BY <1>6, <3>3, <3>4, <5>1
      <4> QED
        BY <4>1, <4>2, <4>3
    <3>5. EndOf(stream, Len(handed') + 1) = End(h + 1)
      BY <1>1, <3>1 DEF End
    <3> QED
      BY <1>1, <2>5, <3>1, <3>2, <3>4, <3>5
  <2>10. CASE got = End(h + 1)
    <3>1. /\ Len(handed') = h + 1 /\ DOMAIN handed' = 1 .. h + 1
          /\ \A k \in 1 .. h : handed'[k] = handed[k]
          /\ handed'[h + 1].text = sock.buf
      BY <1>2, <2>7, <2>8, <2>10, Zenon
    <3>2. sock.buf = m.text
      <4>1. Len(sock.buf) = Len(m.text)
        BY <2>8, <2>10
      <4>2. \A x \in 1 .. Len(sock.buf) : sock.buf[x] = m.text[x]
        BY <1>6, <2>2, <4>1 DEF Agree
      <4> QED
        BY <1>6, <2>2, <4>1, <4>2, SameSequence DEF Words
    <3>3. TakenRight'
      <4>1. \A k \in 1 .. h + 1 : k \in 1 .. h \/ k = h + 1
        BY <1>5
      <4>2. \A k \in 1 .. h : handed[k].text = msgs[k].text
        BY <1>4, <1>5 DEF TakenRight
      <4>3. \A k \in 1 .. h + 1 : handed'[k].text = msgs[k].text
        BY <2>1, <3>1, <3>2, <4>1, <4>2, Zenon
      <4> QED
        BY <1>3, <3>1, <4>3 DEF TakenRight
    <3>4. ASSUME h + 1 < Len(msgs)
          PROVE  got <= End((h + 1) + 1)
      <4>1. h + 1 \in Nat /\ h + 1 + 1 \in Nat /\ h + 1 < h + 1 + 1
            /\ h + 1 + 1 <= Len(msgs)
        BY <1>5, <3>4
      <4>2. End(h + 1) \in Nat /\ End(h + 1 + 1) \in Nat
            /\ End(h + 1) < End(h + 1 + 1)
        BY <1>7, <4>1
      <4> QED
        BY <2>10, <4>2
    <3>5. ASSUME NEW k \in 1 .. Len(msgs), End(k) <= got
          PROVE  k <= h + 1
      <4> SUFFICES ASSUME ~(k <= h + 1)
                   PROVE  FALSE
        OBVIOUS
      <4>1. h + 1 \in Nat /\ k \in Nat /\ h + 1 < k /\ k <= Len(msgs)
        BY <1>5
      <4>2. End(h + 1) \in Nat /\ End(k) \in Nat /\ End(h + 1) < End(k)
        BY <1>7, <4>1
      <4> QED
        BY <1>6, <2>10, <3>5, <4>2
    <3>6. EndOf(stream, Len(handed') + 1) = End((h + 1) + 1)
      BY <3>1, Zenon DEF End
    <3> QED
      BY <3>1, <3>3, <3>4, <3>5, <3>6
  <2> QED
    BY <2>9, <2>10
<1> QED
  BY <1>8, <1>9

\* A response with a length is taken at its last two bytes or behind.
LEMMA LengthHandled ==
  ASSUME Inv, Sequence(handed), LengthInv, HandleResponse
  PROVE  LengthInv'
<1> DEFINE first == extract_first_response(sock.buf, sock.is_chunked)
<1>1. PICK h : h = Len(handed)
  OBVIOUS
<1>2. /\ ~stream.is_client /\ stream' = stream /\ got' = got
      /\ first.n = 0 => /\ handed' = handed /\ taken' = taken
                        /\ sock'.is_chunked = first.is_chunked
      /\ first.n # 0 =>
           /\ Len(handed') = h + 1
           /\ \A k \in 1 .. h : handed'[k] = handed[k]
           /\ handed'[h + 1].text = sock.buf
  BY <1>1, Handling, Zenon
<1>3. msgs' = msgs /\ \A k : End(k)' = End(k)
  BY <1>2, SameMessages
<1> SUFFICES ASSUME 1 \in DOMAIN msgs, ~msgs[1].chunked, msgs[1].sane
             PROVE  /\ handed' = <<>> => ~sock'.is_chunked /\ taken' = <<>>
                    /\ handed' # <<>> => Len(handed'[1].text) >= End(1) - 2
                    /\ got >= End(1) => handed' # <<>>
  BY <1>2, <1>3, Zenon DEF LengthInv
<1>4. /\ handed = <<>> => ~sock.is_chunked /\ taken = <<>>
      /\ handed # <<>> => Len(handed[1].text) >= End(1) - 2
  BY DEF LengthInv
<1>5. /\ stream \in Streams /\ sock.buf \in Words /\ sock.is_chunked \in BOOLEAN
      /\ got \in Nat /\ Len(sock.buf) \in Nat
  BY <1>2, ServerBuffer
<1>6. /\ Len(msgs) \in Nat /\ DOMAIN msgs = 1 .. Len(msgs) /\ End(0) = 0
  BY <1>5, Ends DEF msgs, End
<1>7. h \in Nat
  BY <1>1, OneMore
<1> HIDE DEF first
<1>8. first.n # 0 => handed' # <<>>
  <2>1. Len(<<>>) = 0 /\ h + 1 # 0
    BY <1>7
  <2> QED
    BY <1>2, <2>1, Zenon
<1>9. CASE handed # <<>>
  <2>1. h # 0
    <3>1. PICK S : handed \in Seq(S)
      BY DEF Sequence
    <3> QED
      BY <1>1, <1>9, <3>1, EmptySeq
  <2>2. 1 \in 1 .. h
    BY <1>7, <2>1
  <2>3. handed'[1] = handed[1] /\ handed' # <<>>
    BY <1>2, <1>8, <1>9, <2>2, Zenon
  <2> QED
    BY <1>4, <1>9, <2>3, Zenon
<1>10. CASE handed = <<>>
  <2>1. PICK m : m = msgs[1]
    OBVIOUS
  <2>2. /\ 0 \in Nat /\ 0 < Len(msgs) /\ 0 + 1 = 1 /\ h = 0
        /\ sock.is_chunked = FALSE /\ Len(taken) = End(0)
    <3>1. Len(taken) = 0 /\ Len(handed) = 0 /\ ~sock.is_chunked
      BY <1>4, <1>10, EmptySeq
    <3>2. sock.is_chunked = FALSE
      BY <1>5, <3>1
    <3> QED
      BY <1>1, <1>6, <3>1, <3>2
  <2>3. /\ End(1) \in Nat /\ m.text \in Words
        /\ Len(m.text) = End(1) - End(0)
        /\ Agree(m.text, sock.buf) /\ Len(sock.buf) = got - End(0)
    BY <1>2, <2>1, <2>2, NextResponse, Zenon
  <2>4. GoodLines(m) /\ ContentLength(FieldsOf(m)) = Len(m.text) - m.head
    BY <1>2, <1>5, <1>6, <2>1, ResponseFormat, Zenon
  <2>5. /\ first.is_chunked = FALSE
        /\ first.n = 0 <=>
             ~(m.head <= Len(sock.buf) /\ Len(m.text) <= Len(sock.buf) + 2)
    BY <1>5, <2>1, <2>2, <2>3, <2>4, LengthTaken, Zenon DEF first
  <2>6. m.head \in Nat /\ m.head <= Len(m.text)
    BY <2>3, <2>4, HeadFits
  <2>7. Len(m.text) = End(1) /\ Len(sock.buf) = got
    BY <1>5, <1>6, <2>3
  <2>8. CASE first.n = 0
    <3>1. handed' = <<>> /\ taken' = <<>> /\ ~sock'.is_chunked
      BY <1>2, <1>4, <1>10, <2>5, <2>8, Zenon
    <3>2. ~(got >= End(1))
      BY <1>5, <2>3, <2>5, <2>6, <2>7, <2>8
    <3> QED
      BY <3>1, <3>2, Zenon
  <2>9. CASE first.n # 0
    <3>1. handed' # <<>> /\ handed'[1].text = sock.buf
      BY <1>2, <1>8, <2>2, <2>9, Zenon
    <3>2. Len(sock.buf) >= End(1) - 2
      BY <1>5, <2>3, <2>5, <2>7, <2>9
    <3> QED
      BY <3>1, <3>2, Zenon
  <2> QED
    BY <2>8, <2>9
<1> QED
  BY <1>9, <1>10

-----------------------------------------------------------------------------
(* Every step.                                                             *)

\* A read says nothing of what was taken, and ends in the handler.
LEMMA ResponsesRead ==
  ASSUME Inv, Sequence(handed), ResponsesInv,
         NEW n \in 1 .. Len(Text), BufferResponse(n)
  PROVE  ResponsesInv'
<1>1. /\ ~stream.is_client /\ pc' = "response"
      /\ stream' = stream /\ handed' = handed /\ taken' = taken
      /\ sock' = sock_buf_buffer(sock, Input(n))
  BY DEF BufferResponse, Read
<1>2. msgs' = msgs /\ \A k : End(k)' = End(k)
  BY <1>1, SameMessages
<1>3. TakenFirst /\ ChunkedInv /\ LengthInv
  BY <1>1 DEF ResponsesInv
<1>4. TakenFirst'
  BY <1>1, <1>2, <1>3 DEF TakenFirst, TakenRight, End
<1>5. HeadersEnd'
  BY <1>1 DEF HeadersEnd
<1>6. ChunkedInv'
  BY <1>3, ChunkedBuffer
<1>7. sock'.is_chunked = sock.is_chunked
  <2>1. sock \in [buf : Words, is_forward : BOOLEAN, is_chunked : BOOLEAN]
    BY DEF Inv, TypeInv
  <2> QED
    BY <1>1, <2>1 DEF sock_buf_buffer
<1>8. LengthInv'
  BY <1>1, <1>2, <1>3, <1>7 DEF LengthInv
<1> QED
  BY <1>4, <1>5, <1>6, <1>8 DEF ResponsesInv

\* The handler keeps what is said of the responses.
LEMMA ResponsesTaken ==
  ASSUME Inv, Sequence(handed), ResponsesInv, HandleResponse
  PROVE  ResponsesInv'
<1>1. ~stream.is_client /\ TakenFirst /\ ChunkedInv /\ LengthInv
  BY Handling, Zenon DEF ResponsesInv
<1>2. TakenFirst' /\ HeadersEnd' /\ ChunkedInv' /\ LengthInv'
  BY <1>1, TakenFirstHandled, HeadersEndHandled, ChunkedHandled, LengthHandled
<1> QED
  BY <1>2 DEF ResponsesInv

\* So does every other step.
LEMMA ResponsesRest ==
  ASSUME ResponsesInv, UNCHANGED <<stream, handed, taken, got, sock, crossed>>,
         pc' = pc \/ (pc = "select" /\ pc' = "closed")
  PROVE  ResponsesInv'
<1>1. msgs' = msgs /\ \A k : End(k)' = End(k)
  BY SameMessages
<1>2. /\ pc' = "hangs" => pc = "hangs"
      /\ pc' \in {"select", "closed"} => pc \in {"select", "closed"}
  OBVIOUS
<1> SUFFICES ASSUME ~stream.is_client
             PROVE  TakenFirst' /\ HeadersEnd' /\ ChunkedInv' /\ LengthInv'
  BY DEF ResponsesInv
<1>3. TakenFirst /\ HeadersEnd /\ ChunkedInv /\ LengthInv
  BY DEF ResponsesInv
<1>4. TakenRight' <=> TakenRight
  BY <1>1 DEF TakenRight
<1>5. TakenFirst'
  BY <1>1, <1>3, <1>4 DEF TakenFirst, End
<1>6. HeadersEnd'
  BY <1>1, <1>2, <1>3, <1>4 DEF HeadersEnd
<1>7. ChunkedInv'
  BY <1>1, <1>2, <1>3, <1>4 DEF ChunkedInv, AllChunked, End
<1>8. LengthInv'
  BY <1>1, <1>2, <1>3 DEF LengthInv, End
<1> QED
  BY <1>5, <1>6, <1>7, <1>8

\* Every step keeps what is said of the responses.
LEMMA ResponsesStep ==
  Inv /\ RequestsInv /\ ResponsesInv /\ [Next]_vars => ResponsesInv'
<1> SUFFICES ASSUME Inv, RequestsInv, ResponsesInv, [Next]_vars
             PROVE  ResponsesInv'
  OBVIOUS
<1>1. Sequence(handed)
  BY DEF RequestsInv
<1>2. CASE HandleResponse
  BY <1>1, <1>2, ResponsesTaken
<1>3. CASE \E n \in 1 .. Len(Text) : BufferResponse(n)
  BY <1>1, <1>3, ResponsesRead
<1>4. CASE PeerCloses \/ Halted \/ UNCHANGED vars
  <2>1. /\ UNCHANGED <<stream, handed, taken, got, sock, crossed>>
        /\ pc' = pc \/ (pc = "select" /\ pc' = "closed")
    BY <1>4 DEF PeerCloses, Halted, vars
  <2> QED
    BY <2>1, ResponsesRest
<1>5. CASE \/ \E n \in 1 .. Len(Text) : ForwardInput(n) \/ BufferRequests(n)
           \/ HandleRequest \/ RequestCrashes \/ RequestsDone
  <2>1. stream.is_client /\ stream' = stream
    <3>1. sock.is_forward \/ pc = "requests" => stream.is_client
      BY DEF Inv, TypeInv
    <3> QED
      BY <1>5, <3>1 DEF ForwardInput, BufferRequests, Read, HandleRequest,
         TakeRequest, RequestCrashes, RequestsDone
  <2> QED
    BY <2>1 DEF ResponsesInv
<1> QED
  BY <1>2, <1>3, <1>4, <1>5 DEF Next

\* It holds at the start.
LEMMA ResponsesStart == Init => ResponsesInv
<1> SUFFICES ASSUME Init, ~stream.is_client
             PROVE  TakenFirst /\ HeadersEnd /\ ChunkedInv /\ LengthInv
  BY DEF ResponsesInv
<1>1. /\ stream \in Streams /\ got = 0 /\ handed = <<>> /\ taken = <<>>
      /\ sock.is_chunked = FALSE /\ pc = "select"
  BY DEF Init
<1>2. /\ Len(msgs) \in Nat /\ DOMAIN msgs = 1 .. Len(msgs) /\ End(0) = 0
      /\ \A k \in 0 .. Len(msgs) : End(k) \in Nat
  BY <1>1, Ends DEF msgs, End
<1>3. Len(handed) = 0 /\ Len(taken) = 0 /\ DOMAIN handed = {}
  BY <1>1
<1>4. TakenRight /\ TakenFirst /\ HeadersEnd
  BY <1>1, <1>2, <1>3 DEF TakenRight, TakenFirst, HeadersEnd
<1>5. ChunkedInv
  <2> SUFFICES ASSUME AllChunked
               PROVE  /\ 0 < Len(msgs) => 0 <= End(0 + 1)
                      /\ \A k \in 1 .. Len(msgs) : ~(End(k) <= 0)
    BY <1>1, <1>3, <1>4 DEF ChunkedInv
  <2>1. ASSUME NEW k \in 1 .. Len(msgs)
        PROVE  0 < End(k) /\ End(k) \in Nat
    <3>1. 0 \in Nat /\ k \in Nat /\ 0 < k /\ k <= Len(msgs)
      BY <1>2
    <3> QED
      BY <1>1, <1>2, <3>1, EndsBehind
  <2> QED
    BY <1>2, <2>1
<1>6. LengthInv
  <2> SUFFICES ASSUME 1 \in DOMAIN msgs, msgs[1].sane
               PROVE  ~(got >= End(1))
    BY <1>1 DEF LengthInv
  <2>1. 1 \in 1 .. Len(msgs) /\ 1 - 1 = 0
    BY <1>2
  <2>2. /\ msgs[1].text \in Words /\ GoodLines(msgs[1])
        /\ End(1) \in Nat /\ Len(msgs[1].text) = End(1) - End(1 - 1)
    BY <1>1, <2>1, ResponseFormat, Zenon
  <2>3. 3 < Len(msgs[1].text)
    <3>1. /\ msgs[1].head \in Nat /\ 3 < msgs[1].head
          /\ msgs[1].head <= Len(msgs[1].text)
      BY <2>2, HeadFits
    <3>2. Len(msgs[1].text) \in Nat
      BY <2>2, LenProperties DEF Words
    <3> QED
      BY <3>1, <3>2
  <2> QED
    BY <1>1, <1>2, <2>1, <2>2, <2>3
<1> QED
  BY <1>4, <1>5, <1>6

\* The invariant holds of every behaviour.
LEMMA ResponsesInvariant == Spec => [](Inv /\ RequestsInv /\ ResponsesInv)
<1>1. Init => Inv /\ RequestsInv /\ ResponsesInv
  BY Start, RequestsStart, ResponsesStart
<1>2. Inv /\ RequestsInv /\ ResponsesInv /\ [Next]_vars =>
        (Inv /\ RequestsInv /\ ResponsesInv)'
  BY Step, RequestsStep, ResponsesStep
<1> QED
  BY <1>1, <1>2, PTL DEF Spec

\* For every series of well-formed responses, however the reads cut it, the
\* loop over the header lines in extract_first_response ends, unless a
\* response before was cut off or run together with the next.
THEOREM HeaderLoopEnds == Spec => []HeadersEnd
<1>1. ResponsesInv => HeadersEnd
  BY DEF ResponsesInv, HeadersEnd
<1> QED
  BY <1>1, ResponsesInvariant, PTL

\* For every series of well-formed chunked responses, with any number of
\* chunks and any data in them, however it is cut: if no read runs over the
\* end of a response, each is taken at its last byte and as it was sent, and
\* none that is complete waits when the proxy goes back to select.
THEOREM ChunkedAtLastByte == Spec => []ChunkedWhole
<1>1. Inv /\ RequestsInv /\ ResponsesInv => ChunkedWhole
  <2> SUFFICES ASSUME Inv, RequestsInv, ResponsesInv,
                      ~stream.is_client, AllChunked, ~crossed
               PROVE  /\ TakenRight
                      /\ pc \in {"select", "closed"} => Len(handed) = Complete
    BY DEF ChunkedWhole
  <2>1. /\ Sequence(handed) /\ TakenFirst /\ TakenRight
        /\ pc \in {"select", "closed"} =>
             \A k \in 1 .. Len(msgs) : End(k) <= got => k <= Len(handed)
    BY DEF RequestsInv, ResponsesInv, ChunkedInv
  <2> SUFFICES ASSUME pc \in {"select", "closed"}
               PROVE  Len(handed) = Complete
    BY <2>1
  <2>2. PICK h : h = Len(handed)
    OBVIOUS
  <2>3. /\ h \in Nat /\ h <= Len(msgs) /\ Len(taken) = End(h)
        /\ Len(msgs) \in Nat /\ DOMAIN msgs = 1 .. Len(msgs)
    BY <2>1, <2>2, BehindTaken, Zenon
  <2>4. /\ stream \in Streams /\ got \in Nat /\ Len(taken) \in Nat
        /\ Len(sock.buf) \in Nat /\ Len(taken) + Len(sock.buf) = got
    BY ServerBuffer
  <2>5. \A k \in 0 .. Len(msgs) : End(k) \in Nat
    BY <2>4, Ends DEF msgs, End
  <2>6. ASSUME NEW k \in 1 .. h
        PROVE  End(k) <= got
    <3>1. k \in 0 .. Len(msgs) /\ h \in k .. Len(msgs) /\ h \in 0 .. Len(msgs)
      BY <2>3
    <3>2. End(k) <= End(h)
      BY <2>4, <3>1, EndsRise DEF msgs, End
    <3> QED
      BY <2>3, <2>4, <2>5, <3>1, <3>2
  <2>7. {k \in DOMAIN msgs : End(k) <= got} = 1 .. h
    BY <2>1, <2>2, <2>3, <2>6
  <2>8. Cardinality(1 .. h) = h
    <3>1. 1 \in Int /\ h \in Int /\ (IF 1 > h THEN 0 ELSE h - 1 + 1) = h
      BY <2>3
    <3> QED
      BY <2>3, <3>1, FS_Interval
  <2> QED
    BY <2>2, <2>7, <2>8, Zenon DEF Complete
<1> QED
  BY <1>1, ResponsesInvariant, PTL

\* For every first response with a Content-Length, however the reads cut it:
\* what is taken for it is short by two bytes at most, and it is taken when
\* all of it has been read.
THEOREM LengthAlmost == Spec => []LengthAlmostWhole
<1>1. ResponsesInv => LengthAlmostWhole
  BY DEF ResponsesInv, LengthInv, LengthAlmostWhole
<1> QED
  BY <1>1, ResponsesInvariant, PTL
=============================================================================
