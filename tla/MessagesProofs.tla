---------------------------- MODULE MessagesProofs ----------------------------
(***************************************************************************)
(* Proofs that the requests of a client come out of the receive buffer as  *)
(* they were sent, that a tunnel starts with an empty buffer, and that a   *)
(* cached response is replayed as it came, however the reads cut a stream. *)
(***************************************************************************)
EXTENDS FramingProofs, FiniteSetTheorems

-----------------------------------------------------------------------------
(* Where a text is searched and cut.                                       *)

\* The empty line is a text of four characters.
LEMMA EmptyLineWord ==
  \E S : /\ CRLF \in Seq(S) /\ Len(CRLF) = 2
         /\ EmptyLine \in Seq(S) /\ Len(EmptyLine) = 4
<1>1. \E S : CRLF \in Seq(S) /\ Len(CRLF) = 2
  <2>1. CRLF \in Seq({"CR", "LF"}) /\ Len(CRLF) = 2
    BY DEF CRLF
  <2> QED
    BY <2>1, Zenon
<1>2. PICK S : CRLF \in Seq(S) /\ Len(CRLF) = 2
  BY <1>1
<1>3. EmptyLine \in Seq(S) /\ Len(EmptyLine) = Len(CRLF) + Len(CRLF)
  BY <1>2, ConcatProperties DEF EmptyLine
<1>4. Len(EmptyLine) = 4
  BY <1>2, <1>3
<1> QED
  BY <1>2, <1>3, <1>4, Zenon

\* The first place is one of the places, and before all others.
LEMMA FirstIsLeast ==
  ASSUME NEW S \in SUBSET (Nat \ {0})
  PROVE  /\ FirstOf(S) = 0 => S = {}
         /\ FirstOf(S) # 0 => FirstOf(S) \in S
         /\ \A x \in S : FirstOf(S) <= x
         /\ \A x \in S : (\A y \in S : x <= y) => FirstOf(S) = x
<1>1. CASE S = {}
  BY <1>1 DEF FirstOf
<1>2. CASE S # {}
  <2>1. S \in SUBSET Nat
    OBVIOUS
  <2>2. PICK m \in S : \A x \in S : <<x, m>> \notin OpToRel(<, Nat)
    BY <1>2, <2>1, WFMin, NatLessThanWellFounded
  <2>3. \A x \in S : m <= x
    <3> SUFFICES ASSUME NEW x \in S, ~(m <= x)
                 PROVE  FALSE
      OBVIOUS
    <3>1. x \in Nat /\ m \in Nat /\ x < m
      OBVIOUS
    <3>2. <<x, m>> \in OpToRel(<, Nat)
      BY <3>1, Zenon DEF OpToRel
    <3> QED
      BY <2>2, <3>2
  <2>4. FirstOf(S) \in S /\ \A x \in S : FirstOf(S) <= x
    BY <1>2, <2>3 DEF FirstOf, Min
  <2>5. \A x, y \in S : x <= y /\ y <= x => x = y
    OBVIOUS
  <2> QED
    BY <2>4, <2>5
<1> QED
  BY <1>1, <1>2

\* The places of the empty line in a text.
EmptyLines(t) == {i \in 1 .. Len(t) - 3 : OccursAt(t, EmptyLine, i)}

\* strstr finds the first of them.
LEMMA FindsEmptyLine ==
  ASSUME NEW t \in Words
  PROVE  /\ strstr(t, EmptyLine, 1) = FirstOf(EmptyLines(t))
         /\ EmptyLines(t) \in SUBSET (Nat \ {0})
         /\ \A i : i \in EmptyLines(t) <=>
              /\ i \in Nat \ {0} /\ i + 3 <= Len(t)
              /\ SubSeq(t, i, i + 3) = EmptyLine
<1>1. Len(t) \in Nat
  BY LenProperties DEF Words
<1>2. Len(EmptyLine) = 4
  BY EmptyLineWord
<1>3. Len(t) - Len(EmptyLine) + 1 = Len(t) - 3
  BY <1>1, <1>2
<1>4. strstr(t, EmptyLine, 1) = FirstOf(EmptyLines(t))
  BY <1>3 DEF strstr, EmptyLines
<1>5. \A i \in Int : i + Len(EmptyLine) - 1 = i + 3
  BY <1>2
<1>6. \A i \in Int : OccursAt(t, EmptyLine, i) <=>
                       SubSeq(t, i, i + 3) = EmptyLine
  BY <1>5 DEF OccursAt
<1>7. \A i : i \in 1 .. Len(t) - 3 <=> i \in Nat \ {0} /\ i + 3 <= Len(t)
  BY <1>1
<1>8. \A i : i \in EmptyLines(t) <=>
               i \in 1 .. Len(t) - 3 /\ OccursAt(t, EmptyLine, i)
  BY DEF EmptyLines
<1>9. \A i : i \in EmptyLines(t) => i \in Nat \ {0}
  BY <1>7, <1>8
<1>10. EmptyLines(t) \in SUBSET (Nat \ {0})
  BY <1>9
<1>11. \A i : i \in Nat \ {0} => i \in Int
  OBVIOUS
<1>12. \A i : i \in EmptyLines(t) <=>
               /\ i \in Nat \ {0} /\ i + 3 <= Len(t)
               /\ SubSeq(t, i, i + 3) = EmptyLine
  BY <1>6, <1>7, <1>8, <1>11, Zenon
<1> QED
  BY <1>4, <1>10, <1>12, Zenon

\* Where two texts agree, so do their parts.
LEMMA SameParts ==
  ASSUME NEW a \in Words, NEW b \in Words,
         NEW i \in Nat \ {0}, NEW j \in Nat, j <= Len(a), j <= Len(b),
         \A x \in i .. j : a[x] = b[x]
  PROVE  SubSeq(a, i, j) = SubSeq(b, i, j)
<1>1. Len(a) \in Nat /\ Len(b) \in Nat
  BY LenProperties DEF Words
<1>2. \A x \in i .. j : a[x] \in STRING /\ b[x] \in STRING
  BY <1>1, ElementOfSeq DEF Words
<1> DEFINE c == SubSeq(a, i, j)
           d == SubSeq(b, i, j)
           n == IF i <= j THEN j - i + 1 ELSE 0
<1>3. /\ c \in Seq(STRING) /\ Len(c) = n
      /\ \A x \in 1 .. j - i + 1 : c[x] = a[i + x - 1]
  BY <1>2, SubSeqProperties
<1>4. /\ d \in Seq(STRING) /\ Len(d) = n
      /\ \A x \in 1 .. j - i + 1 : d[x] = b[i + x - 1]
  BY <1>2, SubSeqProperties
<1> HIDE DEF c, d
<1>5. \A x \in 1 .. n : x \in 1 .. j - i + 1 /\ i + x - 1 \in i .. j
  OBVIOUS
<1>6. \A x \in 1 .. n : c[x] = d[x]
  BY <1>3, <1>4, <1>5
<1>7. c = d
  BY <1>3, <1>4, <1>6, SeqEqual
<1> QED
  BY <1>7 DEF c, d

\* A message is found at the front of a buffer as soon as all of it is there,
\* and not before.
LEMMA FoundWhole ==
  ASSUME NEW a \in Words, NEW b \in Words,
         Len(a) > 3, strstr(a, EmptyLine, 1) = Len(a) - 3,
         \A x \in 1 .. Len(a) : x <= Len(b) => b[x] = a[x]
  PROVE  /\ extract_first_request(b).n > 0 <=> Len(a) <= Len(b)
         /\ Len(a) <= Len(b) => extract_first_request(b).request = a
<1> DEFINE L == Len(a)
           at == strstr(b, EmptyLine, 1)
<1>1. L \in Nat /\ Len(b) \in Nat
  BY LenProperties DEF Words
<1>2. /\ L - 3 \in EmptyLines(a)
      /\ \A i \in EmptyLines(a) : L - 3 <= i
  <2>1. strstr(a, EmptyLine, 1) # 0
    BY <1>1
  <2> QED
    BY <2>1, FindsEmptyLine, FirstIsLeast
<1>3. \A i : i \in EmptyLines(b) /\ i + 3 <= L => i \in EmptyLines(a)
  <2> SUFFICES ASSUME NEW i, i \in EmptyLines(b), i + 3 <= L
               PROVE  i \in EmptyLines(a)
    OBVIOUS
  <2>1. /\ i \in Nat \ {0} /\ i + 3 <= Len(b)
        /\ SubSeq(b, i, i + 3) = EmptyLine
    BY FindsEmptyLine
  <2>2. \A x \in i .. i + 3 : a[x] = b[x]
    BY <1>1, <2>1
  <2>3. SubSeq(a, i, i + 3) = SubSeq(b, i, i + 3)
    <3>1. i + 3 \in Nat
      BY <2>1
    <3> QED
      BY <2>1, <2>2, <3>1, SameParts
  <2> QED
    BY <2>1, <2>3, FindsEmptyLine
<1>4. \A i \in EmptyLines(b) : L - 3 <= i
  <2>1. \A i \in EmptyLines(b) : i \in Nat
    BY FindsEmptyLine
  <2>2. \A i \in EmptyLines(b) : i + 3 <= L => L - 3 <= i
    BY <1>2, <1>3
  <2> QED
    BY <1>1, <2>1, <2>2
<1>5. CASE Len(b) < L
  <2>1. \A i \in EmptyLines(b) : i \in Nat /\ i + 3 <= Len(b)
    BY FindsEmptyLine
  <2>2. EmptyLines(b) = {}
    BY <1>1, <1>4, <1>5, <2>1
  <2>3. at = 0
    BY <2>2, FindsEmptyLine DEF FirstOf
  <2> QED
    BY <1>1, <1>5, <2>3 DEF extract_first_request
<1>6. CASE L <= Len(b)
  <2>1. \A x \in 1 .. L : b[x] = a[x]
    BY <1>1, <1>6
  <2>2. SubSeq(b, L - 3, L) = SubSeq(a, L - 3, L)
    <3>1. L - 3 \in Nat \ {0} /\ \A x \in L - 3 .. L : b[x] = a[x]
      BY <1>1, <2>1
    <3> QED
      BY <1>1, <1>6, <3>1, SameParts
  <2>3. L - 3 \in EmptyLines(b)
    <3>1. /\ L - 3 \in Nat \ {0} /\ (L - 3) + 3 = L
          /\ (L - 3) + 3 <= Len(b)
      BY <1>1, <1>6
    <3>2. SubSeq(a, L - 3, L) = EmptyLine
      BY <1>2, <3>1, FindsEmptyLine
    <3> QED
      BY <2>2, <3>1, <3>2, FindsEmptyLine
  <2>4. at = L - 3
    BY <1>4, <2>3, FindsEmptyLine, FirstIsLeast
  <2>5. at # 0 /\ at + 3 = L
    BY <1>1, <2>4
  <2>6. SubSeq(b, 1, L) = SubSeq(a, 1, L)
    BY <1>1, <1>6, <2>1, SameParts
  <2>7. SubSeq(a, 1, L) = a
    BY SubSeqFull DEF Words
  <2> HIDE DEF at
  <2>8. extract_first_request(b).n = 1
    BY <2>5 DEF extract_first_request, at
  <2>9. extract_first_request(b).request = SubSeq(b, 1, at + 3)
    BY <2>5 DEF extract_first_request, at
  <2> QED
    BY <1>6, <2>5, <2>6, <2>7, <2>8, <2>9
<1> QED
  BY <1>1, <1>5, <1>6

-----------------------------------------------------------------------------
(* How the messages lie in a stream.                                       *)

\* A message is the part of the stream between the end of the one before it
\* and its own.
LEMMA Laid ==
  ASSUME NEW s \in Streams, NEW k \in 1 .. Len(s.msgs)
  PROVE  LET e == EndOf(s, k - 1)
             a == s.msgs[k].text
         IN  /\ e \in Nat /\ EndOf(s, k) \in Nat
             /\ e <= EndOf(s, k) /\ EndOf(s, k) <= Len(s.text)
             /\ a \in Words /\ Len(a) = EndOf(s, k) - e
             /\ \A x \in 1 .. Len(a) : a[x] = s.text[e + x]
<1> DEFINE e == EndOf(s, k - 1)
           f == s.ends[k]
           a == s.msgs[k].text
<1>1. /\ s.text \in Words /\ Len(s.text) \in Nat
      /\ Len(s.msgs) \in Nat /\ DOMAIN s.msgs = 1 .. Len(s.msgs)
  BY FramingAssumption, LenProperties DEF Words
<1>2. a = SubSeq(s.text, e + 1, f) /\ f \in e .. Len(s.text)
  BY <1>1, FramingAssumption
<1>3. EndOf(s, k) = f
  BY <1>1 DEF EndOf
<1>4. e \in Nat
  <2>1. s.ends \in [1 .. Len(s.msgs) -> Nat]
    BY <1>1, FramingAssumption
  <2>2. k - 1 # 0 => k - 1 \in 1 .. Len(s.msgs)
    BY <1>1
  <2> QED
    BY <2>1, <2>2 DEF EndOf
<1> HIDE DEF e, f, a
<1>5. f \in Nat /\ e <= f /\ f <= Len(s.text)
  BY <1>1, <1>2, <1>4
<1>6. \A x \in e + 1 .. f : s.text[x] \in STRING
  BY <1>1, <1>4, <1>5, ElementOfSeq DEF Words
<1>7. /\ a \in Words /\ Len(a) = IF e + 1 <= f THEN f - (e + 1) + 1 ELSE 0
      /\ \A x \in 1 .. f - (e + 1) + 1 : a[x] = s.text[(e + 1) + x - 1]
  BY <1>2, <1>4, <1>5, <1>6, SubSeqProperties DEF Words
<1>8. Len(a) = f - e
  BY <1>4, <1>5, <1>7
<1>9. \A x \in 1 .. Len(a) : a[x] = s.text[e + x]
  <2>1. \A x \in 1 .. Len(a) : /\ x \in 1 .. f - (e + 1) + 1
                               /\ (e + 1) + x - 1 = e + x
    BY <1>4, <1>5, <1>8
  <2> QED
    BY <1>7, <2>1
<1> QED
  BY <1>3, <1>4, <1>5, <1>7, <1>8, <1>9 DEF e, f, a

\* The messages of a stream are numbered, and their ends are places in it.
LEMMA Ends ==
  ASSUME NEW s \in Streams
  PROVE  /\ Len(s.msgs) \in Nat /\ DOMAIN s.msgs = 1 .. Len(s.msgs)
         /\ EndOf(s, 0) = 0 /\ EndOf(s, Len(s.msgs)) = Len(s.text)
         /\ \A k \in 0 .. Len(s.msgs) : EndOf(s, k) \in Nat
<1>1. /\ Len(s.msgs) \in Nat /\ DOMAIN s.msgs = 1 .. Len(s.msgs)
      /\ s.ends \in [1 .. Len(s.msgs) -> Nat]
      /\ Len(s.text) = EndOf(s, Len(s.msgs))
  BY FramingAssumption
<1>2. \A k \in 0 .. Len(s.msgs) : EndOf(s, k) \in Nat
  BY <1>1 DEF EndOf
<1>3. EndOf(s, 0) = 0
  BY DEF EndOf
<1> QED
  BY <1>1, <1>2, <1>3

\* A later message does not end before an earlier one.
LEMMA EndsRise ==
  ASSUME NEW s \in Streams,
         NEW j \in 0 .. Len(s.msgs), NEW k \in j .. Len(s.msgs)
  PROVE  EndOf(s, j) <= EndOf(s, k)
<1> DEFINE n == Len(s.msgs)
           Falls == {d \in Nat \ {0} : j + d <= n
                                         /\ ~(EndOf(s, j) <= EndOf(s, j + d))}
<1>1. n \in Nat /\ \A i \in 0 .. n : EndOf(s, i) \in Nat
  BY Ends
<1>2. \A i \in 1 .. n : EndOf(s, i - 1) <= EndOf(s, i)
  BY Laid
<1> HIDE DEF n
<1>3. Falls = {}
  <2> SUFFICES ASSUME Falls # {}
               PROVE  FALSE
    OBVIOUS
  <2>1. Falls \in SUBSET (Nat \ {0})
    OBVIOUS
  <2>2. PICK m \in Falls : \A d \in Falls : m <= d
    <3> HIDE DEF Falls
    <3> QED
      BY <2>1, FirstIsLeast
  <2>3. /\ m \in Nat \ {0} /\ j + m <= n
        /\ ~(EndOf(s, j) <= EndOf(s, j + m))
    OBVIOUS
  <2>4. EndOf(s, j) <= EndOf(s, j + (m - 1))
    <3>1. CASE m = 1
      <4>1. j + (m - 1) = j
        BY <3>1
      <4> QED
        BY <1>1, <4>1
    <3>2. CASE m # 1
      <4>1. m - 1 \notin Falls
        <5>1. ~(m <= m - 1)
          BY <2>3
        <5> HIDE DEF Falls
        <5> QED
          BY <2>2, <5>1
      <4>2. m - 1 \in Nat \ {0} /\ j + (m - 1) <= n
        BY <1>1, <2>3, <3>2
      <4> QED
        BY <4>1, <4>2
    <3> QED
      BY <3>1, <3>2
  <2>5. EndOf(s, j + (m - 1)) <= EndOf(s, j + m)
    <3>1. j + m \in 1 .. n /\ (j + m) - 1 = j + (m - 1)
      BY <1>1, <2>3
    <3> QED
      BY <1>2, <3>1
  <2>6. /\ EndOf(s, j) \in Nat /\ EndOf(s, j + m) \in Nat
        /\ EndOf(s, j + (m - 1)) \in Nat
    <3>1. j \in 0 .. n /\ j + m \in 0 .. n /\ j + (m - 1) \in 0 .. n
      BY <1>1, <2>3 DEF n
    <3> QED
      BY <1>1, <3>1
  <2> QED
    BY <2>3, <2>4, <2>5, <2>6
<1>4. k - j \in Nat /\ j + (k - j) = k /\ k <= n
  BY <1>1 DEF n
<1>5. CASE k = j
  BY <1>1, <1>5 DEF n
<1>6. CASE k # j
  <2>1. k - j \in Nat \ {0}
    BY <1>4, <1>6 DEF n
  <2>2. k - j \notin Falls
    BY <1>3, Zenon
  <2>3. EndOf(s, j) <= EndOf(s, j + (k - j))
    BY <1>4, <2>1, <2>2
  <2> QED
    BY <1>4, <2>3
<1> QED
  BY <1>5, <1>6

\* The messages that have been read completely are the first ones.
LEMMA CompleteAreFirst ==
  ASSUME stream \in Streams, got \in Nat, NEW k \in 1 .. Complete
  PROVE  k <= Len(msgs) /\ End(k) <= got
<1> DEFINE n == Len(msgs)
           S == {i \in DOMAIN msgs : End(i) <= got}
<1>1. /\ n \in Nat /\ DOMAIN msgs = 1 .. n
      /\ \A i \in 0 .. n : End(i) \in Nat
  BY Ends DEF msgs, End
<1>2. \A i, j \in 1 .. n : i <= j => End(i) <= End(j)
  BY <1>1, EndsRise DEF msgs, End
<1>3. Complete = Cardinality(S)
  BY DEF Complete
<1> HIDE DEF n
<1>4. IsFiniteSet(S) /\ Cardinality(S) <= n /\ Cardinality(S) \in Nat
  <2>1. S \in SUBSET (1 .. n)
    BY <1>1
  <2>2. IsFiniteSet(1 .. n) /\ Cardinality(1 .. n) = n
    BY <1>1, FS_Interval
  <2> HIDE DEF S
  <2> QED
    BY <2>1, <2>2, FS_Subset, FS_CardinalityType
<1>5. k \in 1 .. n
  <2> HIDE DEF S
  <2> QED
    BY <1>1, <1>3, <1>4
<1>6. k \in S
  <2> SUFFICES ASSUME k \notin S
               PROVE  FALSE
    OBVIOUS
  <2>1. S \in SUBSET (1 .. k - 1)
    BY <1>1, <1>2, <1>5
  <2>2. IsFiniteSet(1 .. k - 1) /\ Cardinality(1 .. k - 1) = k - 1
    BY <1>5, FS_Interval
  <2> HIDE DEF S
  <2>3. Cardinality(S) <= k - 1
    BY <2>1, <2>2, FS_Subset
  <2>4. k <= Cardinality(S)
    BY <1>3, <1>4
  <2> QED
    BY <1>4, <1>5, <2>3, <2>4
<1> QED
  BY <1>1, <1>5, <1>6 DEF n

-----------------------------------------------------------------------------
(* Requests.                                                               *)

\* What has been taken out is the messages up to the one extracted last, as
\* long as none of them had a body.
TakenWhole ==
  NoBody(Len(handed)) =>
    Len(handed) <= Len(msgs) /\ Len(taken) = End(Len(handed))

\* Each request extracted is the one sent.
Matched ==
  \A k \in DOMAIN handed :
    NoBody(k) => k <= Len(msgs) /\ handed[k] = AsSent(msgs[k])

\* Before select every complete request has been extracted.
Emptied ==
  pc = "select" =>
    \A k \in 1 .. Len(msgs) : NoBody(k) /\ End(k) <= got => k <= Len(handed)

\* Behind the request that opened a tunnel there is none.
NoneBehind ==
  sock.is_forward => \A k \in 1 .. Len(msgs) : NoBody(k) => k <= Len(handed)

\* No more has been read than the next request, until a read runs over it.
NotAhead ==
  ~crossed /\ ~sock.is_forward /\ Len(handed) < Len(msgs)
  /\ NoBody(Len(handed) + 1)
    => got <= End(Len(handed) + 1)

\* The type of handed that the proofs need.
Sequence(h) == \E S : h \in Seq(S)

\* What is known of a client's buffer in every state.
RequestsInv ==
  /\ Sequence(handed)
  /\ stream.is_client =>
       /\ TakenWhole /\ Matched /\ Emptied /\ NoneBehind /\ NotAhead
       /\ TunnelStartsClean

\* One more request.
LEMMA OneMore ==
  ASSUME NEW h, Sequence(h), NEW e
  PROVE  /\ Sequence(Append(h, e))
         /\ Len(h) \in Nat /\ Len(Append(h, e)) = Len(h) + 1
         /\ DOMAIN h = 1 .. Len(h)
         /\ DOMAIN Append(h, e) = 1 .. Len(h) + 1
         /\ \A k \in 1 .. Len(h) : Append(h, e)[k] = h[k]
         /\ Append(h, e)[Len(h) + 1] = e
<1>1. PICK S : h \in Seq(S)
  BY DEF Sequence
<1>2. h \in Seq(S \cup {e})
  BY <1>1, SeqMonotonic
<1>3. /\ Append(h, e) \in Seq(S \cup {e})
      /\ Len(Append(h, e)) = Len(h) + 1
      /\ \A k \in 1 .. Len(h) : Append(h, e)[k] = h[k]
      /\ Append(h, e)[Len(h) + 1] = e
  BY <1>2, AppendProperties
<1>4. /\ Len(h) \in Nat /\ DOMAIN h = 1 .. Len(h)
      /\ DOMAIN Append(h, e) = 1 .. Len(Append(h, e))
  BY <1>2, <1>3, LenProperties
<1>5. Sequence(Append(h, e))
  BY <1>3, Zenon DEF Sequence
<1> QED
  BY <1>3, <1>4, <1>5

\* Bodies behind a message do not count for it.
LEMMA NoBodyBefore ==
  ASSUME NEW k \in Nat, NEW j \in 0 .. k, NoBody(k)
  PROVE  NoBody(j) /\ (k # 0 => IsHead(msgs[k]))
BY DEF NoBody

\* The middle one of three texts that make up what has been read.
LEMMA MiddlePart ==
  ASSUME NEW t \in Words, NEW g \in 0 .. Len(t),
         NEW a \in Words, NEW b \in Words, NEW c \in Words,
         a \o b \o c = SubSeq(t, 1, g)
  PROVE  /\ Len(a) \in Nat /\ Len(b) \in Nat /\ Len(c) \in Nat
         /\ g \in Nat /\ g <= Len(t) /\ Len(t) \in Nat
         /\ Len(a) + Len(b) + Len(c) = g
         /\ \A x \in 1 .. Len(b) : b[x] = t[Len(a) + x]
<1>1. Len(t) \in Nat /\ Len(a) \in Nat /\ Len(b) \in Nat /\ Len(c) \in Nat
  BY LenProperties DEF Words
<1> DEFINE d == a \o b
<1>2. /\ d \in Words /\ Len(d) = Len(a) + Len(b)
      /\ \A x \in 1 .. Len(a) + Len(b) :
           d[x] = IF x <= Len(a) THEN a[x] ELSE b[x - Len(a)]
  BY ConcatProperties DEF Words
<1>3. d \o c = SubSeq(t, 1, g)
  OBVIOUS
<1> HIDE DEF d
<1>4. /\ Len(d \o c) = Len(d) + Len(c)
      /\ \A x \in 1 .. Len(d) + Len(c) :
           (d \o c)[x] = IF x <= Len(d) THEN d[x] ELSE c[x - Len(d)]
  BY <1>2, ConcatProperties DEF Words
<1>5. /\ Len(SubSeq(t, 1, g)) = g
      /\ \A x \in 1 .. g : SubSeq(t, 1, g)[x] = t[x]
  <2>1. \A x \in 1 .. g : t[x] \in STRING
    BY <1>1, ElementOfSeq DEF Words
  <2>2. /\ Len(SubSeq(t, 1, g)) = IF 1 <= g THEN g - 1 + 1 ELSE 0
        /\ \A x \in 1 .. g - 1 + 1 : SubSeq(t, 1, g)[x] = t[1 + x - 1]
    BY <1>1, <2>1, SubSeqProperties
  <2> QED
    BY <1>1, <2>2
<1>6. Len(a) + Len(b) + Len(c) = g
  BY <1>2, <1>3, <1>4, <1>5
<1>7. ASSUME NEW x \in 1 .. Len(b)
      PROVE  b[x] = t[Len(a) + x]
  <2> DEFINE y == Len(a) + x
  <2>1. /\ y \in 1 .. Len(a) + Len(b) /\ y \in 1 .. g
        /\ ~(y <= Len(a)) /\ y - Len(a) = x
        /\ y \in 1 .. Len(d) + Len(c) /\ y <= Len(d)
    BY <1>1, <1>2, <1>6
  <2> HIDE DEF y
  <2>2. d[y] = b[x]
    BY <1>2, <2>1
  <2>3. (d \o c)[y] = d[y]
    BY <1>4, <2>1
  <2>4. (d \o c)[y] = t[y]
    BY <1>3, <1>5, <2>1
  <2> QED
    BY <2>2, <2>3, <2>4 DEF y
<1> QED
  BY <1>1, <1>6, <1>7

\* The buffer is what has been read behind what was taken.
LEMMA BufferBehind ==
  ASSUME Inv, stream.is_client
  PROVE  /\ Len(taken) \in Nat /\ Len(sock.buf) \in Nat /\ Len(sent) \in Nat
         /\ got \in Nat /\ got <= Len(Text)
         /\ Len(taken) + Len(sock.buf) + Len(sent) = got
         /\ \A x \in 1 .. Len(sock.buf) : sock.buf[x] = Text[Len(taken) + x]
<1>1. /\ taken \in Words /\ sock.buf \in Words /\ sent \in Words
      /\ Text \in Words /\ got \in 0 .. Len(Text)
  BY FramingAssumption DEF Inv, TypeInv, Text, Words
<1>2. taken \o sock.buf \o sent = SubSeq(Text, 1, got)
  BY DEF Inv, NothingLost
<1>3. /\ Len(taken) \in Nat /\ Len(sock.buf) \in Nat /\ Len(sent) \in Nat
      /\ got \in Nat /\ got <= Len(Text)
      /\ Len(taken) + Len(sock.buf) + Len(sent) = got
  BY <1>1, <1>2, MiddlePart
<1>4. \A x \in 1 .. Len(sock.buf) : sock.buf[x] = Text[Len(taken) + x]
  <2>1. \A b \in Words : taken \o b \o sent = SubSeq(Text, 1, got) =>
          \A x \in 1 .. Len(b) : b[x] = Text[Len(taken) + x]
    BY <1>1, MiddlePart
  <2> QED
    BY <1>1, <1>2, <2>1, Zenon
<1> QED
  BY <1>3, <1>4, Zenon

\* No request is taken out of an empty buffer.
LEMMA NothingInEmpty ==
  ASSUME NEW b \in Words, Len(b) = 0
  PROVE  extract_first_request(b).n = 0
<1>1. EmptyLines(b) = {}
  BY FindsEmptyLine
<1>2. strstr(b, EmptyLine, 1) = 0
  BY <1>1, FindsEmptyLine DEF FirstOf
<1> QED
  BY <1>2 DEF extract_first_request

\* The next message, if it has no body, is extracted as soon as it is there.
LEMMA NextRequest ==
  ASSUME Inv, stream.is_client, sent = <<>>,
         NEW k \in Nat, k < Len(msgs), IsHead(msgs[k + 1]),
         Len(taken) = End(k)
  PROVE  LET first == extract_first_request(sock.buf)
         IN  /\ first.n > 0 <=> End(k + 1) <= got
             /\ first.n > 0 =>
                  /\ first.request = msgs[k + 1].text
                  /\ first.request \in Words
                  /\ Len(first.request) = End(k + 1) - End(k)
<1> DEFINE a == msgs[k + 1].text
           b == sock.buf
<1>1. stream \in Streams /\ b \in Words
  BY DEF Inv, TypeInv
<1>2. Len(msgs) \in Nat /\ DOMAIN msgs = 1 .. Len(msgs)
  BY <1>1, Ends DEF msgs
<1>3. k + 1 \in 1 .. Len(msgs) /\ (k + 1) - 1 = k
  BY <1>2
<1>4. /\ End(k) \in Nat /\ End(k + 1) \in Nat
      /\ a \in Words /\ Len(a) = End(k + 1) - End(k)
      /\ \A x \in 1 .. Len(a) : a[x] = Text[End(k) + x]
  <2>1. \A i \in 1 .. Len(stream.msgs) :
          /\ EndOf(stream, i - 1) \in Nat /\ EndOf(stream, i) \in Nat
          /\ stream.msgs[i].text \in Words
          /\ Len(stream.msgs[i].text) = EndOf(stream, i) - EndOf(stream, i - 1)
          /\ \A x \in 1 .. Len(stream.msgs[i].text) :
               stream.msgs[i].text[x] = stream.text[EndOf(stream, i - 1) + x]
    BY <1>1, Laid
  <2> QED
    BY <1>3, <2>1 DEF msgs, End, Text
<1>5. Len(a) > 3 /\ strstr(a, EmptyLine, 1) = Len(a) - 3
  BY <1>1, <1>2, <1>3, RequestsAssumption DEF msgs, IsHead
<1>6. /\ Len(b) \in Nat /\ got \in Nat /\ End(k) + Len(b) = got
      /\ \A x \in 1 .. Len(b) : b[x] = Text[End(k) + x]
  <2>1. Len(sent) = 0
    BY EmptySeq
  <2> QED
    BY <2>1, BufferBehind
<1> HIDE DEF a, b
<1>7. Len(a) \in Nat
  BY <1>4, LenProperties DEF Words
<1>8. \A x \in 1 .. Len(a) : x <= Len(b) => b[x] = a[x]
  BY <1>4, <1>6
<1>9. /\ extract_first_request(b).n > 0 <=> Len(a) <= Len(b)
      /\ Len(a) <= Len(b) => extract_first_request(b).request = a
  BY <1>1, <1>4, <1>5, <1>8, FoundWhole
<1>10. Len(a) <= Len(b) <=> End(k + 1) <= got
  BY <1>4, <1>6
<1>11. extract_first_request(b).n > 0 =>
         /\ extract_first_request(b).request = a
         /\ extract_first_request(b).request \in Words
         /\ Len(extract_first_request(b).request) = End(k + 1) - End(k)
  BY <1>4, <1>9
<1>12. extract_first_request(b).n > 0 <=> End(k + 1) <= got
  BY <1>9, <1>10, Zenon
<1> QED
  BY <1>11, <1>12, Zenon DEF a, b

\* What is said of the messages of a stream does not change.
LEMMA SameMessages ==
  ASSUME stream' = stream
  PROVE  /\ msgs' = msgs /\ Text' = Text
         /\ \A k : NoBody(k)' <=> NoBody(k)
         /\ \A k : End(k)' = End(k)
BY DEF msgs, Text, NoBody, End

\* Before anything is read no request is extracted.
LEMMA RequestsStart == Init => RequestsInv
<1> SUFFICES ASSUME Init
             PROVE  RequestsInv
  OBVIOUS
<1>1. /\ stream \in Streams /\ handed = <<>> /\ taken = <<>> /\ got = 0
      /\ sock.is_forward = FALSE /\ sock.buf = <<>>
  BY DEF Init
<1>2. /\ Len(msgs) \in Nat /\ End(0) = 0
      /\ \A k \in 0 .. Len(msgs) : End(k) \in Nat
  BY <1>1, Ends DEF msgs, End
<1>3. Len(handed) = 0 /\ DOMAIN handed = {} /\ Len(taken) = 0
  BY <1>1, EmptySeq
<1>4. Sequence(handed)
  <2>1. handed \in Seq({})
    BY <1>1, EmptySeq
  <2> QED
    BY <2>1 DEF Sequence
<1>5. TakenWhole
  BY <1>2, <1>3 DEF TakenWhole
<1>6. Matched
  BY <1>3 DEF Matched
<1>7. stream.is_client => Emptied
  <2> SUFFICES ASSUME stream.is_client,
                      NEW k \in 1 .. Len(msgs), NoBody(k), End(k) <= got
               PROVE  FALSE
    BY DEF Emptied
  <2>1. IsHead(msgs[k])
    BY <1>2, NoBodyBefore
  <2>2. Len(msgs[k].text) > 3
    BY <1>1, <1>2, <2>1, RequestsAssumption, Ends DEF msgs, IsHead
  <2>3. /\ End(k - 1) \in Nat /\ End(k) \in Nat
        /\ Len(msgs[k].text) = End(k) - End(k - 1)
    BY <1>1, Laid DEF msgs, End
  <2> QED
    BY <1>1, <2>2, <2>3
<1>8. NoneBehind /\ TunnelStartsClean
  BY <1>1 DEF NoneBehind, TunnelStartsClean
<1>9. NotAhead
  BY <1>1, <1>2, <1>3 DEF NotAhead
<1> QED
  BY <1>4, <1>5, <1>6, <1>7, <1>8, <1>9 DEF RequestsInv

\* A step that extracts nothing keeps what it says of the requests.
LEMMA RequestsKept ==
  ASSUME RequestsInv, UNCHANGED <<stream, handed, taken>>,
         sock'.is_forward = sock.is_forward,
         stream.is_client => Emptied' /\ NotAhead' /\ TunnelStartsClean'
  PROVE  RequestsInv'
<1>1. /\ msgs' = msgs
      /\ \A k : NoBody(k)' <=> NoBody(k)
      /\ \A k : End(k)' = End(k)
  BY SameMessages
<1>2. stream.is_client => TakenWhole' /\ Matched' /\ NoneBehind'
  BY <1>1 DEF RequestsInv, TakenWhole, Matched, NoneBehind
<1> QED
  BY <1>2 DEF RequestsInv, Sequence

\* A tunnel extracts nothing.
LEMMA RequestsForward ==
  ASSUME Inv, RequestsInv, NEW n \in 1 .. Len(Text), ForwardInput(n)
  PROVE  RequestsInv'
<1>1. /\ sock.is_forward /\ sock' = sock
      /\ UNCHANGED <<stream, handed, taken, pc>>
      /\ ~crossed' => ~crossed
  BY DEF ForwardInput, Read
<1>2. /\ msgs' = msgs
      /\ \A k : NoBody(k)' <=> NoBody(k)
      /\ \A k : End(k)' = End(k)
  BY <1>1, SameMessages
<1>3. stream.is_client => Emptied'
  BY <1>1, <1>2 DEF RequestsInv, NoneBehind, Emptied
<1>4. NotAhead'
  BY <1>1 DEF NotAhead
<1>5. stream.is_client => TunnelStartsClean'
  BY <1>1, <1>2 DEF RequestsInv, TunnelStartsClean
<1> QED
  BY <1>1, <1>3, <1>4, <1>5, RequestsKept

\* What is read goes behind what waits; of the next request, no more.
LEMMA RequestsBuffer ==
  ASSUME Inv, RequestsInv, NEW n \in 1 .. Len(Text), BufferRequests(n)
  PROVE  RequestsInv'
<1>1. /\ stream.is_client /\ ~sock.is_forward
      /\ sock' = sock_buf_buffer(sock, Input(n))
      /\ pc = "select" /\ pc' = "requests" /\ got' = got + n
      /\ UNCHANGED <<stream, handed, taken>>
  BY DEF BufferRequests, Read
<1>2. crossed' = (crossed \/ \E k \in DOMAIN msgs :
                              got < End(k) /\ End(k) < got + n)
  BY DEF BufferRequests, Read
<1>3. /\ msgs' = msgs
      /\ \A k : NoBody(k)' <=> NoBody(k)
      /\ \A k : End(k)' = End(k)
  BY <1>1, SameMessages
<1>4. sock'.is_forward = sock.is_forward
  BY <1>1 DEF sock_buf_buffer, Inv, TypeInv
<1>5. Emptied'
  BY <1>1 DEF Emptied
<1>6. NotAhead'
  <2> SUFFICES ASSUME ~crossed', Len(handed) < Len(msgs),
                      NoBody(Len(handed) + 1)
               PROVE  got + n <= End(Len(handed) + 1)
    BY <1>1, <1>3 DEF NotAhead
  <2>1. PICK k : k = Len(handed) + 1
    OBVIOUS
  <2>2. /\ Len(msgs) \in Nat /\ DOMAIN msgs = 1 .. Len(msgs)
        /\ \A i \in 0 .. Len(msgs) : End(i) \in Nat
    BY Ends DEF msgs, End, Inv, TypeInv
  <2>3. Len(handed) \in Nat /\ Len(Text) \in Nat /\ got \in Nat
    BY BufferBehind, <1>1, OneMore, FramingAssumption, LenProperties
       DEF RequestsInv, Inv, TypeInv, Text
  <2>4. k \in DOMAIN msgs /\ End(k) \in Nat /\ ~(k <= Len(handed))
    BY <2>1, <2>2, <2>3
  <2>5. ~(End(k) <= got)
    BY <1>1, <2>1, <2>2, <2>4 DEF RequestsInv, Emptied
  <2>6. ~(End(k) < got + n)
    <3>1. got < End(k)
      BY <2>3, <2>4, <2>5
    <3>2. ~ \E i \in DOMAIN msgs : got < End(i) /\ End(i) < got + n
      BY <1>2, Zenon
    <3> QED
      BY <2>4, <3>1, <3>2, Zenon
  <2>7. n \in Nat
    BY <2>3
  <2> QED
    BY <2>1, <2>3, <2>4, <2>6, <2>7
<1>7. TunnelStartsClean'
  BY <1>1, <1>4 DEF TunnelStartsClean
<1> QED
  BY <1>1, <1>4, <1>5, <1>6, <1>7, RequestsKept

\* When nothing more is extracted, nothing that is complete is left.
LEMMA RequestsFinished ==
  ASSUME Inv, RequestsInv, RequestsDone
  PROVE  RequestsInv'
<1>1. /\ pc = "requests" /\ pc' = "select"
      /\ extract_first_request(sock.buf).n = 0
      /\ UNCHANGED <<stream, got, sock, handed, taken, sent, crossed>>
  BY DEF RequestsDone
<1>2. stream.is_client /\ stream \in Streams
  BY <1>1 DEF Inv, TypeInv
<1>3. /\ msgs' = msgs
      /\ \A k : NoBody(k)' <=> NoBody(k)
      /\ \A k : End(k)' = End(k)
  BY <1>1, SameMessages
<1>4. Emptied'
  <2> SUFFICES ASSUME NEW k \in 1 .. Len(msgs), NoBody(k), End(k) <= got,
                      ~(k <= Len(handed))
               PROVE  FALSE
    BY <1>1, <1>3 DEF Emptied
  <2>1. PICK h : h = Len(handed)
    OBVIOUS
  <2>2. /\ Len(msgs) \in Nat /\ h \in Nat
        /\ \A i \in 0 .. Len(msgs) : End(i) \in Nat
    BY <1>2, <2>1, Ends, OneMore DEF msgs, End, RequestsInv
  <2>3. /\ h < Len(msgs) /\ h \in 0 .. k /\ h + 1 \in 0 .. k /\ k \in Nat
        /\ h + 1 \in 0 .. Len(msgs) /\ k \in h + 1 .. Len(msgs)
    BY <2>1, <2>2
  <2>4. NoBody(h) /\ NoBody(h + 1)
    BY <2>3, NoBodyBefore
  <2>5. IsHead(msgs[h + 1])
    <3>1. h + 1 \in Nat /\ h + 1 \in 0 .. h + 1 /\ h + 1 # 0
      BY <2>2
    <3> QED
      BY <2>4, <3>1, NoBodyBefore
  <2>6. Len(taken) = End(h)
    BY <1>2, <2>1, <2>4 DEF RequestsInv, TakenWhole
  <2>7. ~sock.is_forward
    BY <1>2, <2>1 DEF RequestsInv, NoneBehind
  <2>8. sent = <<>>
    BY <1>2, <2>7 DEF Inv, ForwardsLast
  <2>9. End(h + 1) <= End(k)
    <3>1. EndOf(stream, h + 1) <= EndOf(stream, k)
      BY <1>2, <2>3, EndsRise DEF msgs
    <3> QED
      BY <3>1 DEF End
  <2>10. End(h + 1) <= got
    <3>1. End(h + 1) \in Nat /\ End(k) \in Nat /\ got \in Nat
      BY <1>2, <2>2, <2>3, BufferBehind
    <3> QED
      BY <2>9, <3>1
  <2>11. extract_first_request(sock.buf).n > 0
    BY <1>2, <2>2, <2>3, <2>5, <2>6, <2>8, <2>10, NextRequest
  <2> QED
    BY <1>1, <2>11
<1>5. NotAhead' /\ TunnelStartsClean'
  BY <1>1, <1>2, <1>3 DEF RequestsInv, NotAhead, TunnelStartsClean
<1> QED
  BY <1>1, <1>4, <1>5, RequestsKept

\* A request is extracted as it was sent.
LEMMA RequestsHandled ==
  ASSUME Inv, Inv', RequestsInv, HandleRequest
  PROVE  RequestsInv'
<1> DEFINE first == extract_first_request(sock.buf)
           routed == Routed(first.request, stream.is_ssl)
           wanted == routed.method = <<"CONNECT">> /\ ~stream.is_ssl
<1>0. PICK connected \in BOOLEAN :
        sock' = [sock EXCEPT !.buf = first.rest,
                             !.is_forward = @ \/ (wanted /\ connected)]
  BY DEF HandleRequest, TakeRequest
<1> DEFINE tunnels == wanted /\ connected
<1>1. /\ pc = "requests" /\ pc' = "requests" /\ first.n > 0
      /\ Routable(first.request)
      /\ handed' = Append(handed, routed)
      /\ taken' = taken \o first.request
      /\ sock' = [sock EXCEPT !.buf = first.rest,
                              !.is_forward = @ \/ tunnels]
      /\ UNCHANGED <<stream, got, sent, crossed>>
  BY <1>0 DEF HandleRequest, TakeRequest
<1>2. stream.is_client /\ stream \in Streams
  BY <1>1 DEF Inv, TypeInv
<1>3. /\ msgs' = msgs /\ Text' = Text
      /\ \A k : NoBody(k)' <=> NoBody(k)
      /\ \A k : End(k)' = End(k)
  BY <1>1, SameMessages
<1>4. sock'.is_forward <=> sock.is_forward \/ tunnels
  <2> HIDE DEF first, tunnels
  <2>1. sock \in [buf : Words, is_forward : BOOLEAN, is_chunked : BOOLEAN]
    BY DEF Inv, TypeInv
  <2> QED
    BY <1>1, <2>1
<1> HIDE DEF first
<1>5. PICK h : h = Len(handed)
  OBVIOUS
<1>6. /\ h \in Nat /\ Sequence(handed') /\ Len(handed') = h + 1
      /\ DOMAIN handed = 1 .. h /\ DOMAIN handed' = 1 .. h + 1
      /\ \A k \in 1 .. h : handed'[k] = handed[k]
      /\ handed'[h + 1] = routed
  BY <1>1, <1>5, OneMore DEF RequestsInv
<1>7. /\ Len(msgs) \in Nat /\ DOMAIN msgs = 1 .. Len(msgs)
      /\ End(Len(msgs)) = Len(Text)
      /\ \A k \in 0 .. Len(msgs) : End(k) \in Nat
  BY <1>2, Ends DEF msgs, End, Text
<1>8. Emptied'
  BY <1>1 DEF Emptied
<1>9. \A k \in Nat : NoBody(k) /\ k > h + 1 =>
                       /\ NoBody(h + 1) /\ NoBody(h + 2)
                       /\ IsHead(msgs[h + 2])
  <2> SUFFICES ASSUME NEW k \in Nat, NoBody(k), k > h + 1
               PROVE  NoBody(h + 1) /\ NoBody(h + 2) /\ IsHead(msgs[h + 2])
    OBVIOUS
  <2>1. /\ h + 1 \in 0 .. k /\ h + 2 \in 0 .. k
        /\ h + 2 \in Nat /\ h + 2 \in 0 .. h + 2 /\ h + 2 # 0
    BY <1>6
  <2>2. NoBody(h + 1) /\ NoBody(h + 2)
    BY <2>1, NoBodyBefore
  <2> QED
    BY <2>1, <2>2, NoBodyBefore
<1>10. CASE ~NoBody(h + 1)
  <2>1. TakenWhole' /\ TunnelStartsClean'
    BY <1>3, <1>6, <1>10 DEF TakenWhole, TunnelStartsClean
  <2>2. Matched'
    <3>1. \A k \in 1 .. h + 1 : NoBody(k) => k \in 1 .. h
      BY <1>6, <1>10
    <3> QED
      BY <1>2, <1>3, <1>6, <3>1 DEF RequestsInv, Matched
  <2>3. NoneBehind'
    <3>1. \A k \in 1 .. Len(msgs) : NoBody(k) => k <= h + 1
      BY <1>6, <1>7, <1>9, <1>10
    <3> QED
      BY <1>3, <1>6, <3>1 DEF NoneBehind
  <2>4. NotAhead'
    <3>1. ~NoBody(h + 2)
      BY <1>6, <1>9, <1>10
    <3>2. (h + 1) + 1 = h + 2
      BY <1>6
    <3> QED
      BY <1>3, <1>6, <3>1, <3>2 DEF NotAhead
  <2> QED
    BY <1>6, <1>8, <2>1, <2>2, <2>3, <2>4 DEF RequestsInv
<1>11. CASE NoBody(h + 1)
  <2>1. NoBody(h) /\ IsHead(msgs[h + 1])
    <3>1. /\ h + 1 \in Nat /\ h \in 0 .. h + 1 /\ h + 1 \in 0 .. h + 1
          /\ h + 1 # 0
      BY <1>6
    <3> QED
      BY <1>11, <3>1, NoBodyBefore
  <2>2. h <= Len(msgs) /\ Len(taken) = End(h)
    BY <1>2, <1>5, <2>1 DEF RequestsInv, TakenWhole
  <2>3. /\ Len(sock.buf) \in Nat /\ Len(taken) \in Nat /\ Len(sent) \in Nat
        /\ got \in Nat /\ got <= Len(Text) /\ sock.buf \in Words
        /\ Len(taken) + Len(sock.buf) + Len(sent) = got
    BY <1>2, BufferBehind DEF Inv, TypeInv
  <2>4. h < Len(msgs)
    <3>1. h # Len(msgs)
      <4> SUFFICES ASSUME h = Len(msgs)
                   PROVE  FALSE
        OBVIOUS
      <4>1. Len(taken) = Len(Text)
        BY <1>7, <2>2
      <4>2. Len(sock.buf) = 0
        BY <2>3, <4>1
      <4> QED
        BY <1>1, <2>3, <4>2, NothingInEmpty DEF first
    <3>2. h \in Nat /\ Len(msgs) \in Nat
      BY <1>6, <1>7
    <3> QED
      BY <2>2, <3>1, <3>2
  <2>5. /\ h + 1 \in 1 .. Len(msgs) /\ h + 1 \in DOMAIN msgs
        /\ h \in 0 .. Len(msgs)
    BY <1>6, <1>7, <2>4
  <2>6. ~sock.is_forward
    <3>1. ~(h + 1 <= h)
      BY <1>6
    <3> QED
      BY <1>2, <1>5, <1>11, <2>5, <3>1 DEF RequestsInv, NoneBehind
  <2>7. sent = <<>>
    BY <1>2, <2>6 DEF Inv, ForwardsLast
  <2>8. /\ End(h + 1) <= got /\ first.request = msgs[h + 1].text
        /\ first.request \in Words
        /\ Len(first.request) = End(h + 1) - End(h)
    BY <1>1, <1>2, <1>6, <2>1, <2>2, <2>4, <2>7, NextRequest DEF first
  <2>9. routed = AsSent(msgs[h + 1])
    <3>1. Routable(msgs[h + 1].text)
      BY <1>1, <2>8
    <3>2. Routed(msgs[h + 1].text, stream.is_ssl) = AsSent(msgs[h + 1])
      BY <1>2, <2>1, <2>5, <3>1, RequestsAssumption DEF msgs
    <3> QED
      BY <2>8, <3>2
  <2>10. End(h) \in Nat /\ End(h + 1) \in Nat
    BY <1>7, <2>5
  <2>11. taken' \in Words /\ Len(taken') = End(h + 1)
    <3>1. taken \in Words
      BY DEF Inv, TypeInv
    <3>2. /\ taken \o first.request \in Words
          /\ Len(taken \o first.request) = Len(taken) + Len(first.request)
      BY <2>8, <3>1, ConcatProperties DEF Words
    <3> QED
      BY <1>1, <2>2, <2>8, <2>10, <3>2
  <2>12. TakenWhole'
    BY <1>3, <1>6, <2>5, <2>11 DEF TakenWhole
  <2>13. Matched'
    <3>1. \A k \in 1 .. h + 1 : k \in 1 .. h \/ k = h + 1
      BY <1>6
    <3>2. \A k \in 1 .. h : NoBody(k) =>
             k <= Len(msgs) /\ handed'[k] = AsSent(msgs[k])
      BY <1>2, <1>6 DEF RequestsInv, Matched
    <3>3. h + 1 <= Len(msgs) /\ handed'[h + 1] = AsSent(msgs[h + 1])
      BY <1>6, <2>5, <2>9
    <3>4. \A m : AsSent(m)' = AsSent(m)
      BY DEF AsSent
    <3> QED
      BY <1>3, <1>6, <3>1, <3>2, <3>3 DEF Matched
  <2>14. NoneBehind'
    <3> SUFFICES ASSUME sock'.is_forward,
                        NEW k \in 1 .. Len(msgs), NoBody(k), k > h + 1
                 PROVE  FALSE
      <4>1. \A k \in 1 .. Len(msgs) : k > h + 1 \/ k <= h + 1
        BY <1>6, <1>7
      <4> QED
        BY <1>3, <1>6, <4>1 DEF NoneBehind
    <3>1. AsSent(msgs[h + 1]).method = <<"CONNECT">> /\ ~stream.is_ssl
      BY <1>4, <2>6, <2>9
    <3>2. IsHead(msgs[h + 2]) /\ h + 1 < Len(msgs)
      BY <1>6, <1>7, <1>9
    <3>3. (h + 1) + 1 = h + 2
      BY <1>6
    <3>4. ~IsHead(msgs[(h + 1) + 1])
      BY <1>2, <2>1, <2>5, <3>1, <3>2, RequestsAssumption DEF msgs
    <3> QED
      BY <3>2, <3>3, <3>4
  <2>15. ~crossed => got <= End(h + 1)
    BY <1>2, <1>5, <1>11, <2>4, <2>6 DEF RequestsInv, NotAhead
  <2>16. NotAhead'
    <3> SUFFICES ASSUME ~crossed, h + 1 < Len(msgs)
                 PROVE  got <= End((h + 1) + 1)
      BY <1>1, <1>3, <1>6 DEF NotAhead
    <3>1. (h + 1) + 1 \in 0 .. Len(msgs) /\ (h + 1) + 1 \in h + 1 .. Len(msgs)
      BY <1>6, <1>7
    <3>2. End(h + 1) <= End((h + 1) + 1)
      BY <1>2, <2>5, <3>1, EndsRise DEF msgs, End
    <3> QED
      BY <1>7, <2>3, <2>5, <2>15, <3>1, <3>2
  <2>17. TunnelStartsClean'
    <3> SUFFICES ASSUME ~crossed
                 PROVE  sock'.buf = <<>>
      BY <1>1 DEF TunnelStartsClean
    <3>1. /\ taken' \in Words /\ sock'.buf \in Words /\ sent' \in Words
          /\ Text' \in Words /\ got' \in 0 .. Len(Text')
      BY FramingAssumption DEF Inv, TypeInv, Text, Words
    <3>2. taken' \o sock'.buf \o sent' = SubSeq(Text', 1, got')
      BY <1>1, <1>2 DEF Inv, NothingLost
    <3>3. /\ Len(taken') + Len(sock'.buf) + Len(sent') = got'
          /\ Len(sock'.buf) \in Nat /\ Len(sent') \in Nat
      BY <3>1, <3>2, MiddlePart
    <3>4. Len(sock'.buf) = 0
      BY <1>1, <2>3, <2>10, <2>11, <2>15, <3>3
    <3> QED
      BY <3>1, <3>4, EmptySeq DEF Words
  <2> QED
    BY <1>6, <1>8, <2>12, <2>13, <2>14, <2>16, <2>17 DEF RequestsInv
<1> QED
  BY <1>10, <1>11

\* A response taken out is one more, and the rest says nothing of requests.
LEMMA ResponsesHandled ==
  ASSUME Inv, RequestsInv, HandleResponse
  PROVE  RequestsInv'
<1>1. ~stream.is_client /\ stream' = stream
  BY DEF HandleResponse, Inv, TypeInv
<1>2. \/ handed' = handed
      \/ handed' = Append(handed,
                     [text |-> sock.buf,
                      max_age |-> extract_first_response(sock.buf,
                                    sock.is_chunked).max_age,
                      status |-> parse_status_line(sock.buf)])
  BY DEF HandleResponse
<1>3. Sequence(handed')
  <2>1. Sequence(handed)
    BY DEF RequestsInv
  <2>2. \A e : Sequence(Append(handed, e))
    BY <2>1, OneMore
  <2> QED
    BY <1>2, <2>1, <2>2, Zenon
<1> QED
  BY <1>1, <1>3 DEF RequestsInv

\* The other steps neither read nor extract.
LEMMA RequestsRest ==
  ASSUME RequestsInv, UNCHANGED <<stream, handed, taken, got, sock, crossed>>,
         pc' = "select" => pc = "select"
  PROVE  RequestsInv'
<1>1. /\ msgs' = msgs
      /\ \A k : NoBody(k)' <=> NoBody(k)
      /\ \A k : End(k)' = End(k)
  BY SameMessages
<1>2. stream.is_client => Emptied' /\ NotAhead' /\ TunnelStartsClean'
  BY <1>1 DEF RequestsInv, Emptied, NotAhead, TunnelStartsClean
<1> QED
  BY <1>2, RequestsKept

\* Every step keeps what is said of the requests.
LEMMA RequestsStep ==
  Inv /\ Inv' /\ RequestsInv /\ [Next]_vars => RequestsInv'
<1> SUFFICES ASSUME Inv, Inv', RequestsInv, [Next]_vars
             PROVE  RequestsInv'
  OBVIOUS
<1>1. CASE \E n \in 1 .. Len(Text) : ForwardInput(n)
  BY <1>1, RequestsForward
<1>2. CASE \E n \in 1 .. Len(Text) : BufferRequests(n)
  BY <1>2, RequestsBuffer
<1>3. CASE \E n \in 1 .. Len(Text) : BufferResponse(n)
  <2>1. ~stream.is_client /\ stream' = stream /\ handed' = handed
    BY <1>3 DEF BufferResponse, Read
  <2> QED
    BY <2>1 DEF RequestsInv, Sequence
<1>4. CASE HandleRequest
  BY <1>4, RequestsHandled
<1>5. CASE RequestsDone
  BY <1>5, RequestsFinished
<1>6. CASE HandleResponse
  BY <1>6, ResponsesHandled
<1>7. CASE RequestCrashes \/ PeerCloses \/ Halted \/ UNCHANGED vars
  <2>1. /\ UNCHANGED <<stream, handed, taken, got, sock, crossed>>
        /\ pc' = "select" => pc = "select"
    BY <1>7 DEF RequestCrashes, PeerCloses, Halted, vars
  <2> QED
    BY <2>1, RequestsRest
<1> QED
  BY <1>1, <1>2, <1>3, <1>4, <1>5, <1>6, <1>7 DEF Next

\* The invariant holds of every behaviour.
LEMMA RequestsInvariant == Spec => [](Inv /\ RequestsInv)
<1>1. Init => Inv /\ RequestsInv
  BY Start, RequestsStart
<1>2. Inv /\ RequestsInv /\ [Next]_vars => (Inv /\ RequestsInv)'
  BY Step, RequestsStep
<1> QED
  BY <1>1, <1>2, PTL DEF Spec

\* Whatever a client sends and however the network cuts it: as long as no
\* request has a body, handle_client_request handles the requests sent, each
\* once, in order, routed where its own head says, and goes back to select
\* only when none that is complete is left.
THEOREM RequestsInOrder == Spec => []RequestsWhole
<1>1. Inv /\ RequestsInv => RequestsWhole
  <2> SUFFICES ASSUME Inv, RequestsInv, stream.is_client
               PROVE  /\ \A k \in DOMAIN handed :
                           NoBody(k) => handed[k] = AsSent(msgs[k])
                      /\ pc = "select" =>
                           \A k \in 1 .. Complete :
                             NoBody(k) => k <= Len(handed)
    BY DEF RequestsWhole
  <2>1. stream \in Streams /\ got \in Nat
    BY BufferBehind DEF Inv, TypeInv
  <2>2. \A k \in 1 .. Complete : k <= Len(msgs) /\ End(k) <= got
    BY <2>1, CompleteAreFirst
  <2>3. \A k \in 1 .. Complete : k \in 1 .. Len(msgs)
    <3>1. Len(msgs) \in Nat
      BY <2>1, Ends DEF msgs
    <3> QED
      BY <2>2, <3>1
  <2> QED
    BY <2>2, <2>3 DEF RequestsInv, Matched, Emptied
<1> QED
  BY <1>1, RequestsInvariant, PTL

\* A client that sends nothing behind its CONNECT before the answer loses
\* nothing to the tunnel: handle_client_request leaves an empty buffer when
\* it sets is_forward, and nothing is put into it afterwards.
THEOREM CleanTunnels == Spec => []TunnelStartsClean
<1>1. Inv /\ RequestsInv => TunnelStartsClean
  BY DEF Inv, TypeInv, RequestsInv, TunnelStartsClean
<1> QED
  BY <1>1, RequestsInvariant, PTL

-----------------------------------------------------------------------------
(* Responses: what a hit is sent is what the client of the miss was sent.  *)

\* Texts that begin alike and are as long there go on alike.
LEMMA SameRest ==
  ASSUME NEW S, NEW a \in Seq(S), NEW b \in Seq(S),
         NEW c \in Seq(S), NEW d \in Seq(S),
         a \o b = c \o d, Len(a) = Len(c), Len(b) = Len(d)
  PROVE  b = d
<1>1. /\ Len(a) \in Nat /\ Len(b) \in Nat
      /\ \A i \in 1 .. Len(a) + Len(b) :
           (a \o b)[i] = IF i <= Len(a) THEN a[i] ELSE b[i - Len(a)]
  BY ConcatProperties, LenProperties
<1>2. \A i \in 1 .. Len(c) + Len(d) :
        (c \o d)[i] = IF i <= Len(c) THEN c[i] ELSE d[i - Len(c)]
  BY ConcatProperties
<1>3. ASSUME NEW i \in 1 .. Len(b)
      PROVE  b[i] = d[i]
  <2> DEFINE j == Len(a) + i
  <2>1. j \in 1 .. Len(a) + Len(b) /\ ~(j <= Len(a)) /\ j - Len(a) = i
    BY <1>1
  <2> HIDE DEF j
  <2>2. (a \o b)[j] = b[i] /\ (c \o d)[j] = d[i]
    BY <1>1, <1>2, <2>1
  <2> QED
    BY <2>2
<1> QED
  BY <1>3, SeqEqual

\* Cut at its empty line and put together again, a response is the same.
LEMMA ReplaysWhole ==
  ASSUME NEW t \in Words, strstr(t, EmptyLine, 1) # 0
  PROVE  Replay(t) = t
<1>1. PICK at : at = strstr(t, EmptyLine, 1)
  OBVIOUS
<1>2. /\ at \in Nat \ {0} /\ at + 3 <= Len(t) /\ Len(t) \in Nat
      /\ SubSeq(t, at, at + 3) = EmptyLine
  <2>1. at \in EmptyLines(t)
    BY <1>1, FindsEmptyLine, FirstIsLeast
  <2> QED
    BY <2>1, FindsEmptyLine, LenProperties DEF Words
<1> DEFINE u == SubSeq(t, at, at + 1)
           v == SubSeq(t, at + 2, at + 3)
           head == SubSeq(t, 1, at + 1)
           body == SubSeq(t, at + 4, Len(t))
<1>3. u \in Words /\ v \in Words /\ head \in Words /\ body \in Words
  <2>1. /\ at \in Nat \ {0} /\ at + 2 \in Nat \ {0} /\ at + 4 \in Nat \ {0}
        /\ at + 1 \in 0 .. Len(t) /\ at + 3 \in 0 .. Len(t)
        /\ Len(t) \in 0 .. Len(t) /\ 1 \in Nat \ {0}
    BY <1>2
  <2> QED
    BY <2>1, Parts
<1>4. Len(u) = 2 /\ Len(v) = 2
  <2>1. \A i \in at .. at + 3 : t[i] \in STRING
    BY <1>2, ElementOfSeq DEF Words
  <2>2. /\ at \in Int /\ at + 1 \in Int /\ at + 2 \in Int /\ at + 3 \in Int
        /\ \A i \in at .. at + 1 : t[i] \in STRING
        /\ \A i \in at + 2 .. at + 3 : t[i] \in STRING
    BY <1>2, <2>1
  <2>3. /\ Len(u) = IF at <= at + 1 THEN (at + 1) - at + 1 ELSE 0
        /\ Len(v) = IF at + 2 <= at + 3 THEN (at + 3) - (at + 2) + 1 ELSE 0
    BY <2>2, SubSeqProperties
  <2> QED
    BY <1>2, <2>3
<1>5. u \o v = SubSeq(t, at, at + 3)
  <2>1. /\ at \in 1 .. Len(t) + 1 /\ at + 1 \in at - 1 .. Len(t)
        /\ at + 3 \in at + 1 .. Len(t) /\ (at + 1) + 1 = at + 2
    BY <1>2
  <2> QED
    BY <2>1, ConcatAdjacentSubSeq DEF Words
<1>6. v = CRLF
  <2>1. PICK S : CRLF \in Seq(S) /\ Len(CRLF) = 2
    BY EmptyLineWord
  <2>2. /\ CRLF \in Seq(S \cup STRING) /\ u \in Seq(S \cup STRING)
        /\ v \in Seq(S \cup STRING)
    <3>1. /\ Seq(S) \subseteq Seq(S \cup STRING)
          /\ Words \subseteq Seq(S \cup STRING)
      BY SeqMonotonic DEF Words
    <3> HIDE DEF u, v
    <3> QED
      BY <1>3, <2>1, <3>1
  <2>3. u \o v = CRLF \o CRLF
    BY <1>2, <1>5 DEF EmptyLine
  <2> HIDE DEF u, v
  <2> QED
    BY <1>4, <2>1, <2>2, <2>3, SameRest
<1>7. head \o v = SubSeq(t, 1, at + 3)
  <2>1. /\ 1 \in 1 .. Len(t) + 1 /\ at + 1 \in 1 - 1 .. Len(t)
        /\ at + 3 \in at + 1 .. Len(t) /\ (at + 1) + 1 = at + 2
    BY <1>2
  <2> QED
    BY <2>1, ConcatAdjacentSubSeq DEF Words
<1>8. SubSeq(t, 1, at + 3) \o body = t
  <2>1. at + 3 \in 0 .. Len(t) /\ (at + 3) + 1 = at + 4
    BY <1>2
  <2> QED
    BY <2>1, Halves
<1>9. Replay(t) = head \o CRLF \o body
  BY <1>1 DEF Replay, parse_body_head
<1> QED
  BY <1>6, <1>7, <1>8, <1>9

\* The function FlattenSeq walks with, up to the place n.
Flattens(g, r, n) ==
  g = [i \in 1 .. n |-> IF i = 1 THEN r[i] ELSE g[i - 1] \o r[i]]

\* There is one, however many texts there are.
LEMMA FlattenExists ==
  ASSUME NEW r, NEW n \in Nat
  PROVE  \E g : Flattens(g, r, n)
<1> DEFINE Body(g, i) == IF i = 1 THEN r[i] ELSE g[i - 1] \o r[i]
           Open == {m \in Nat \ {0} : ~ \E g : Flattens(g, r, m)}
<1>1. Open = {}
  <2> SUFFICES ASSUME Open # {}
               PROVE  FALSE
    OBVIOUS
  <2>1. PICK m \in Open : \A d \in Open : m <= d
    <3>1. Open \in SUBSET (Nat \ {0})
      OBVIOUS
    <3> HIDE DEF Open
    <3> QED
      BY <3>1, FirstIsLeast
  <2>2. m \in Nat \ {0} /\ ~ \E g : Flattens(g, r, m)
    OBVIOUS
  <2>3. PICK g : Flattens(g, r, m - 1)
    <3>1. CASE m = 1
      <4>1. Flattens([i \in 1 .. 0 |-> r[i]], r, 0)
        BY DEF Flattens
      <4>2. m - 1 = 0
        BY <3>1
      <4> QED
        BY <4>1, <4>2, Zenon
    <3>2. CASE m # 1
      <4>1. m - 1 \in Nat \ {0} /\ ~(m <= m - 1)
        BY <2>2, <3>2
      <4>2. m - 1 \notin Open
        <5> HIDE DEF Open
        <5> QED
          BY <2>1, <4>1
      <4> QED
        BY <4>1, <4>2
    <3> QED
      BY <3>1, <3>2
  <2>4. \A i \in 1 .. m - 1 : g[i] = Body(g, i)
    <3>1. g = [i \in 1 .. m - 1 |-> Body(g, i)]
      BY <2>3 DEF Flattens
    <3> HIDE DEF Body
    <3> QED
      BY <3>1
  <2> DEFINE h == [i \in 1 .. m |-> IF i = m THEN Body(g, m) ELSE g[i]]
  <2>5. ASSUME NEW i \in 1 .. m
        PROVE  h[i] = Body(h, i)
    <3>1. i # 1 => i - 1 \in 1 .. m /\ i - 1 # m /\ h[i - 1] = g[i - 1]
      BY <2>2
    <3>2. Body(h, i) = Body(g, i)
      BY <3>1
    <3>3. i # m => i \in 1 .. m - 1
      BY <2>2
    <3>4. i # m => g[i] = Body(g, i)
      <4> HIDE DEF Body
      <4> QED
        BY <2>4, <3>3
    <3> QED
      BY <3>2, <3>4
  <2>6. h = [i \in 1 .. m |-> Body(h, i)]
    <3>1. h = [i \in 1 .. m |-> h[i]]
      OBVIOUS
    <3> HIDE DEF h, Body
    <3> QED
      BY <2>5, <3>1
  <2>7. Flattens(h, r, m)
    BY <2>6, Zenon DEF Flattens
  <2> QED
    BY <2>2, <2>7, Zenon
<1>2. CASE n = 0
  <2>1. Flattens([i \in 1 .. 0 |-> r[i]], r, 0)
    BY DEF Flattens
  <2> QED
    BY <1>2, <2>1, Zenon
<1>3. CASE n # 0
  BY <1>1, <1>3
<1> QED
  BY <1>2, <1>3

\* FlattenSeq is the last place of such a function.
LEMMA FlattenLast ==
  ASSUME NEW r, Len(r) \in Nat \ {0}
  PROVE  \E g : Flattens(g, r, Len(r)) /\ FlattenSeq(r) = g[Len(r)]
<1> DEFINE g == CHOOSE f : Flattens(f, r, Len(r))
<1>1. Flattens(g, r, Len(r))
  BY FlattenExists
<1>2. FlattenSeq(r) = g[Len(r)]
  BY DEF FlattenSeq, Flattens
<1> HIDE DEF g
<1> QED
  BY <1>1, <1>2

\* Two walks over texts that agree up to n agree up to n.
LEMMA FlattenAgree ==
  ASSUME NEW r, NEW q, NEW n \in Nat, NEW m \in Nat, n <= m,
         NEW g, Flattens(g, r, n), NEW h, Flattens(h, q, m),
         \A i \in 1 .. n : r[i] = q[i] /\ r[i] \in Words
  PROVE  \A i \in 1 .. n : g[i] = h[i] /\ g[i] \in Words
<1> DEFINE Open == {i \in Nat \ {0} :
                      i <= n /\ ~(g[i] = h[i] /\ g[i] \in Words)}
<1>1. \A i \in 1 .. n :
        g[i] = IF i = 1 THEN r[i] ELSE g[i - 1] \o r[i]
  BY DEF Flattens
<1>2. \A i \in 1 .. m :
        h[i] = IF i = 1 THEN q[i] ELSE h[i - 1] \o q[i]
  BY DEF Flattens
<1>3. Open = {}
  <2> SUFFICES ASSUME Open # {}
               PROVE  FALSE
    OBVIOUS
  <2>1. PICK k \in Open : \A d \in Open : k <= d
    <3>1. Open \in SUBSET (Nat \ {0})
      OBVIOUS
    <3> HIDE DEF Open
    <3> QED
      BY <3>1, FirstIsLeast
  <2>2. /\ k \in Nat \ {0} /\ k <= n /\ k \in 1 .. n /\ k \in 1 .. m
        /\ ~(g[k] = h[k] /\ g[k] \in Words)
    OBVIOUS
  <2>3. k # 1
    BY <1>1, <1>2, <2>2
  <2>4. g[k - 1] = h[k - 1] /\ g[k - 1] \in Words
    <3>1. k - 1 \in Nat \ {0} /\ k - 1 <= n /\ ~(k <= k - 1)
      BY <2>2, <2>3
    <3>2. k - 1 \notin Open
      <4> HIDE DEF Open
      <4> QED
        BY <2>1, <3>1
    <3> QED
      BY <3>1, <3>2
  <2>5. g[k] = g[k - 1] \o r[k] /\ h[k] = h[k - 1] \o q[k]
    BY <1>1, <1>2, <2>2, <2>3
  <2>6. g[k] = h[k]
    BY <2>2, <2>4, <2>5
  <2>7. g[k] \in Words
    BY <2>2, <2>4, <2>5, Concatenation
  <2> QED
    BY <2>2, <2>6, <2>7
<1>4. \A i \in 1 .. n : i \in Nat \ {0} /\ i <= n /\ i \notin Open
  BY <1>3
<1> QED
  BY <1>4

\* One more text goes behind what the others make up.
LEMMA FlattenAppend ==
  ASSUME NEW r \in Seq(Words), NEW e \in Words
  PROVE  /\ FlattenSeq(r) \in Words
         /\ FlattenSeq(Append(r, e)) = FlattenSeq(r) \o e
<1> DEFINE n == Len(r)
           q == Append(r, e)
<1>1. /\ n \in Nat /\ q \in Seq(Words) /\ Len(q) = n + 1
      /\ \A i \in 1 .. n : q[i] = r[i] /\ r[i] \in Words
      /\ q[n + 1] = e
  BY AppendProperties, LenProperties, ElementOfSeq
<1> HIDE DEF n, q
<1>2. PICK h : Flattens(h, q, n + 1) /\ FlattenSeq(q) = h[n + 1]
  <2>1. Len(q) \in Nat \ {0}
    BY <1>1
  <2> QED
    BY <1>1, <2>1, FlattenLast
<1>3. h[n + 1] = IF n + 1 = 1 THEN q[n + 1] ELSE h[(n + 1) - 1] \o q[n + 1]
  <2>1. n + 1 \in 1 .. n + 1
    BY <1>1
  <2>2. \A i \in 1 .. n + 1 : h[i] = IF i = 1 THEN q[i] ELSE h[i - 1] \o q[i]
    BY <1>2 DEF Flattens
  <2> QED
    BY <2>1, <2>2, Zenon
<1>4. CASE n = 0
  <2>1. r = <<>>
    BY <1>4, EmptySeq DEF n
  <2>2. FlattenSeq(r) = <<>>
    BY <1>4, <2>1 DEF FlattenSeq, n
  <2>3. FlattenSeq(q) = e
    BY <1>1, <1>2, <1>3, <1>4
  <2> QED
    BY <2>2, <2>3, Empty DEF q
<1>5. CASE n # 0
  <2>1. PICK g : Flattens(g, r, n) /\ FlattenSeq(r) = g[n]
    <3>1. Len(r) \in Nat \ {0}
      BY <1>1, <1>5 DEF n
    <3> QED
      BY <3>1, FlattenLast DEF n
  <2>2. g[n] = h[n] /\ g[n] \in Words
    <3>1. n + 1 \in Nat /\ n <= n + 1 /\ n \in 1 .. n
      BY <1>1, <1>5
    <3>2. \A i \in 1 .. n : r[i] = q[i] /\ r[i] \in Words
      BY <1>1
    <3>3. \A i \in 1 .. n : g[i] = h[i] /\ g[i] \in Words
      BY <1>1, <1>2, <2>1, <3>1, <3>2, FlattenAgree
    <3> QED
      BY <3>1, <3>3
  <2>3. h[n + 1] = h[n] \o e
    <3>1. n + 1 # 1 /\ (n + 1) - 1 = n
      BY <1>1, <1>5
    <3> QED
      BY <1>1, <1>3, <3>1
  <2> QED
    BY <1>2, <2>1, <2>2, <2>3 DEF q
<1> QED
  BY <1>4, <1>5

\* The responses as a hit is sent them.
Replays(h) == [k \in DOMAIN h |-> Replay(h[k].text)]

\* Put together, they are what has been taken out of the buffer.
ReplaysInv ==
  ~stream.is_client =>
    Replays(handed) \in Seq(Words) /\ FlattenSeq(Replays(handed)) = taken

\* One more response is one more text that is replayed.
LEMMA ReplaysAppend ==
  ASSUME NEW h, Sequence(h), Replays(h) \in Seq(Words),
         NEW e, Replay(e.text) \in Words
  PROVE  Replays(Append(h, e)) = Append(Replays(h), Replay(e.text))
<1> DEFINE n == Len(h)
           a == Replays(Append(h, e))
           b == Append(Replays(h), Replay(e.text))
<1>1. /\ n \in Nat /\ DOMAIN h = 1 .. n
      /\ DOMAIN Append(h, e) = 1 .. n + 1
      /\ \A k \in 1 .. n : Append(h, e)[k] = h[k]
      /\ Append(h, e)[n + 1] = e
  BY OneMore
<1> HIDE DEF n
<1>2. Len(Replays(h)) = n /\ \A k \in 1 .. n : Replays(h)[k] = Replay(h[k].text)
  <2>1. DOMAIN Replays(h) = 1 .. n
    BY <1>1 DEF Replays
  <2>2. \A k \in 1 .. n : Replays(h)[k] = Replay(h[k].text)
    BY <1>1 DEF Replays
  <2>3. Len(Replays(h)) \in Nat /\ DOMAIN Replays(h) = 1 .. Len(Replays(h))
    BY LenProperties
  <2> QED
    BY <1>1, <2>1, <2>2, <2>3
<1>3. /\ b \in Seq(Words) /\ Len(b) = n + 1
      /\ \A k \in 1 .. n : b[k] = Replays(h)[k]
      /\ b[n + 1] = Replay(e.text)
  BY <1>2, AppendProperties
<1>4. b = [k \in 1 .. n + 1 |-> b[k]]
  <2>1. b \in [1 .. Len(b) -> Words]
    BY <1>3, LenProperties
  <2> HIDE DEF b
  <2> QED
    BY <1>3, <2>1
<1>5. a = [k \in 1 .. n + 1 |-> Replay(Append(h, e)[k].text)]
  BY <1>1 DEF Replays
<1>6. \A k \in 1 .. n + 1 : b[k] = Replay(Append(h, e)[k].text)
  <2>1. \A k \in 1 .. n + 1 : k \in 1 .. n \/ k = n + 1
    BY <1>1
  <2> HIDE DEF b
  <2> QED
    BY <1>1, <1>2, <1>3, <2>1
<1> HIDE DEF a, b
<1>7. a = b
  BY <1>4, <1>5, <1>6
<1> QED
  BY <1>7 DEF a, b

\* Before anything is read there is nothing to replay.
LEMMA ReplaysStart == Init => ReplaysInv
<1> SUFFICES ASSUME Init
             PROVE  ReplaysInv
  OBVIOUS
<1>1. handed = <<>> /\ taken = <<>>
  BY DEF Init
<1>2. Replays(handed) = <<>>
  BY <1>1 DEF Replays
<1>3. FlattenSeq(<<>>) = <<>> /\ <<>> \in Seq(Words)
  BY EmptySeq DEF FlattenSeq
<1> QED
  BY <1>1, <1>2, <1>3 DEF ReplaysInv

\* handle_server_response takes the whole buffer, and it has an empty line.
LEMMA ReplaysHandled ==
  ASSUME Inv, RequestsInv, ReplaysInv, HandleResponse
  PROVE  ReplaysInv'
<1> DEFINE first == extract_first_response(sock.buf, sock.is_chunked)
           e == [text |-> sock.buf, max_age |-> first.max_age,
                 status |-> parse_status_line(sock.buf)]
<1>1. /\ ~stream.is_client /\ stream' = stream
      /\ Sequence(handed) /\ sock.buf \in Words
      /\ Replays(handed) \in Seq(Words)
      /\ FlattenSeq(Replays(handed)) = taken
  BY DEF HandleResponse, Inv, TypeInv, RequestsInv, ReplaysInv
<1>2. \/ handed' = handed /\ taken' = taken
      \/ /\ first.n # 0
         /\ handed' = Append(handed, e) /\ taken' = taken \o sock.buf
  BY DEF HandleResponse
<1>3. first.n # 0 => strstr(sock.buf, EmptyLine, 1) # 0
  BY DEF extract_first_response
<1>4. e.text = sock.buf
  OBVIOUS
<1> HIDE DEF first, e
<1>5. CASE handed' = handed /\ taken' = taken
  BY <1>1, <1>5 DEF ReplaysInv
<1>6. CASE /\ first.n # 0
           /\ handed' = Append(handed, e) /\ taken' = taken \o sock.buf
  <2>1. Replay(e.text) = sock.buf
    BY <1>1, <1>3, <1>4, <1>6, ReplaysWhole
  <2>2. Replays(handed') = Append(Replays(handed), sock.buf)
    BY <1>1, <1>6, <2>1, ReplaysAppend
  <2>3. Replays(handed') \in Seq(Words)
    BY <1>1, <2>2, AppendProperties
  <2>4. FlattenSeq(Replays(handed')) = taken'
    BY <1>1, <1>6, <2>2, FlattenAppend
  <2> QED
    BY <2>3, <2>4 DEF ReplaysInv
<1> QED
  BY <1>2, <1>5, <1>6

\* The other steps take nothing out of a server's buffer.
LEMMA ReplaysStep ==
  Inv /\ RequestsInv /\ ReplaysInv /\ [Next]_vars => ReplaysInv'
<1> SUFFICES ASSUME Inv, RequestsInv, ReplaysInv, [Next]_vars
             PROVE  ReplaysInv'
  OBVIOUS
<1>1. CASE HandleResponse
  BY <1>1, ReplaysHandled
<1>2. CASE HandleRequest
  BY <1>2 DEF HandleRequest, TakeRequest, Inv, TypeInv, ReplaysInv
<1>3. CASE UNCHANGED <<stream, handed, taken>>
  BY <1>3 DEF ReplaysInv
<1>4. CASE \E n \in 1 .. Len(Text) :
             ForwardInput(n) \/ BufferRequests(n) \/ BufferResponse(n)
  BY <1>3, <1>4 DEF ForwardInput, BufferRequests, BufferResponse, Read
<1>5. CASE RequestCrashes \/ RequestsDone \/ PeerCloses \/ Halted
  BY <1>3, <1>5 DEF RequestCrashes, RequestsDone, PeerCloses, Halted, vars
<1>6. CASE UNCHANGED vars
  BY <1>3, <1>6 DEF vars
<1> QED
  BY <1>1, <1>2, <1>4, <1>5, <1>6 DEF Next

\* Whatever a server sends and however it is cut, what parse_body_head makes
\* of the responses put into the cache is, put together again by
\* handle_get_request, what fast_forward has sent to the client of the miss.
THEOREM HitsAsMisses == Spec => []HitReplays
<1>1. Inv /\ ReplaysInv => HitReplays
  BY DEF Inv, NothingLost, ReplaysInv, Replays, HitReplays
<1>2. Init => ReplaysInv
  BY ReplaysStart
<1>3. Inv /\ RequestsInv /\ ReplaysInv /\ [Next]_vars => ReplaysInv'
  BY ReplaysStep
<1> QED
  BY <1>1, <1>2, <1>3, RequestsInvariant, PTL DEF Spec
=============================================================================
