------------------------------ MODULE CacheProofs ------------------------------
(***************************************************************************)
(* Proofs about the response cache: that its list and its counter keep     *)
(* their shape whatever malloc does, and that while memory lasts the list  *)
(* is the bounded store of Store.tla, for every capacity and every set of  *)
(* keys, responses and ages.                                               *)
(***************************************************************************)
EXTENDS Cache, SequenceTheorems, FiniteSetTheorems, WellFoundedInduction,
        TLAPS

Lists == Seq(Elem)

-----------------------------------------------------------------------------
(* The walk of cache_remove_all_stale.                                     *)

\* Numbers that are not none have a least one.
LEMMA LeastNumber ==
  ASSUME NEW S \in SUBSET Nat, S # {}
  PROVE  \E m \in S : \A n \in S : m <= n
<1>1. PICK m \in S : \A n \in S : <<n, m>> \notin OpToRel(<, Nat)
  BY WFMin, NatLessThanWellFounded
<1>2. ASSUME NEW n \in S
      PROVE  m <= n
  <2> SUFFICES ASSUME ~(m <= n)
               PROVE  FALSE
    OBVIOUS
  <2>1. n \in Nat /\ m \in Nat /\ n < m
    OBVIOUS
  <2>2. <<n, m>> \in OpToRel(<, Nat)
    BY <2>1, Zenon DEF OpToRel
  <2> QED
    BY <1>1, <2>2
<1> QED
  BY <1>2

\* One place of the walk follows from the place before it.
LEMMA KeptStep ==
  ASSUME NEW list \in Lists, NEW t
  PROVE  Kept(list, t) =
           [n \in 0 .. Len(list) |->
              IF n = 0 THEN <<>>
              ELSE IF cache_elem_is_stale(list[n], t)
                   THEN Kept(list, t)[n - 1]
              ELSE Append(Kept(list, t)[n - 1], list[n])]
<1> DEFINE Body(g, n) ==
             IF n = 0 THEN <<>>
             ELSE IF cache_elem_is_stale(list[n], t) THEN g[n - 1]
             ELSE Append(g[n - 1], list[n])
           Walk(g, N) == g = [n \in 0 .. N |-> Body(g, n)]
           Open == {N \in Nat : ~ \E g : Walk(g, N)}
<1>1. Len(list) \in Nat
  BY LenProperties DEF Lists
<1>2. Open = {}
  <2> SUFFICES ASSUME Open # {}
               PROVE  FALSE
    OBVIOUS
  <2>1. PICK m \in Open : \A n \in Open : m <= n
    <3>1. Open \in SUBSET Nat
      OBVIOUS
    <3> HIDE DEF Open
    <3> QED
      BY <3>1, LeastNumber
  <2>2. m \in Nat /\ ~ \E g : Walk(g, m)
    OBVIOUS
  <2>3. CASE m = 0
    <3>1. Walk([n \in 0 .. 0 |-> <<>>], 0)
      OBVIOUS
    <3> QED
      BY <2>2, <2>3, <3>1
  <2>4. CASE m # 0
    <3>1. m - 1 \in Nat /\ m - 1 \notin Open
      <4>1. m - 1 \in Nat /\ ~ (m <= m - 1)
        BY <2>2, <2>4
      <4> HIDE DEF Open
      <4> QED
        BY <2>1, <4>1
    <3>2. PICK g : Walk(g, m - 1)
      BY <3>1
    <3>3. \A n \in 0 .. m - 1 : g[n] = Body(g, n)
      <4> HIDE DEF Body
      <4> QED
        BY <3>2
    <3> DEFINE h == [n \in 0 .. m |-> IF n = m THEN Body(g, m) ELSE g[n]]
    <3>4. Walk(h, m)
      <4>1. ASSUME NEW n \in 0 .. m
            PROVE  h[n] = Body(h, n)
        <5>1. n # 0 => n - 1 \in 0 .. m /\ n - 1 # m /\ h[n - 1] = g[n - 1]
          BY <2>2
        <5>2. Body(h, n) = Body(g, n)
          BY <5>1
        <5>3. n # m => n \in 0 .. m - 1
          BY <2>2
        <5>4. n # m => g[n] = Body(g, n)
          <6> HIDE DEF Body
          <6> QED
            BY <3>3, <5>3
        <5> QED
          BY <5>2, <5>4
      <4>2. h = [n \in 0 .. m |-> h[n]]
        OBVIOUS
      <4> HIDE DEF h, Body
      <4> QED
        BY <4>1, <4>2
    <3> QED
      BY <2>2, <3>4
  <2> QED
    BY <2>3, <2>4
<1>3. \E g : Walk(g, Len(list))
  BY <1>1, <1>2
<1>4. Kept(list, t) = CHOOSE g : Walk(g, Len(list))
  BY DEF Kept
<1>5. Walk(Kept(list, t), Len(list))
  BY <1>3, <1>4
<1> QED
  BY <1>5

\* new is what is left of old when some elements are taken out: place tells
\* where each element was.
Places(place, new, old) ==
  /\ place \in [1 .. Len(new) -> 1 .. Len(old)]
  /\ \A i, j \in 1 .. Len(new) : i < j => place[i] < place[j]
  /\ \A i \in 1 .. Len(new) : new[i] = old[place[i]]

PartOf(new, old) == \E place : Places(place, new, old)

Fresh(elem, t) == ~cache_elem_is_stale(elem, t)

\* What the walk has kept of the first n elements.
Walked(kept, list, n, t) ==
  /\ kept \in Lists /\ Len(kept) <= n
  /\ \E place \in [1 .. Len(kept) -> 1 .. n] :
       /\ \A i, j \in 1 .. Len(kept) : i < j => place[i] < place[j]
       /\ \A i \in 1 .. Len(kept) :
            kept[i] = list[place[i]] /\ Fresh(list[place[i]], t)
       /\ \A j \in 1 .. n :
            Fresh(list[j], t) => \E i \in 1 .. Len(kept) : place[i] = j
  /\ (\A j \in 1 .. n : Fresh(list[j], t)) =>
       /\ Len(kept) = n
       /\ \A i \in 1 .. n : kept[i] = list[i]
  /\ (\E j \in 1 .. n : ~Fresh(list[j], t)) => Len(kept) < n

\* An element that is stale is left out.
LEMMA WalkedStale ==
  ASSUME NEW list \in Lists, NEW t, NEW n \in 1 .. Len(list),
         NEW kept, Walked(kept, list, n - 1, t), ~Fresh(list[n], t)
  PROVE  Walked(kept, list, n, t)
<1>1. Len(list) \in Nat /\ n \in Nat /\ n - 1 \in Nat
  BY LenProperties DEF Lists
<1>2. kept \in Lists /\ Len(kept) \in Nat /\ Len(kept) <= n - 1
  BY LenProperties DEF Lists, Walked
<1>3. Len(kept) < n /\ n \in 1 .. n
  BY <1>1, <1>2
<1>4. PICK place \in [1 .. Len(kept) -> 1 .. n - 1] :
        /\ \A i, j \in 1 .. Len(kept) : i < j => place[i] < place[j]
        /\ \A i \in 1 .. Len(kept) :
             kept[i] = list[place[i]] /\ Fresh(list[place[i]], t)
        /\ \A j \in 1 .. n - 1 :
             Fresh(list[j], t) => \E i \in 1 .. Len(kept) : place[i] = j
  BY DEF Walked
<1>5. place \in [1 .. Len(kept) -> 1 .. n]
  BY <1>1, <1>4
<1>6. ASSUME NEW j \in 1 .. n, Fresh(list[j], t)
      PROVE  \E i \in 1 .. Len(kept) : place[i] = j
  <2>1. j # n
    BY <1>6
  <2>2. j \in 1 .. n - 1
    BY <1>1, <2>1
  <2> QED
    BY <1>4, <1>6, <2>2
<1> QED
  BY <1>2, <1>3, <1>4, <1>5, <1>6 DEF Walked

\* An element that is not is put behind the ones kept before it.
LEMMA WalkedFresh ==
  ASSUME NEW list \in Lists, NEW t, NEW n \in 1 .. Len(list),
         NEW kept, Walked(kept, list, n - 1, t), Fresh(list[n], t)
  PROVE  Walked(Append(kept, list[n]), list, n, t)
<1> DEFINE new == Append(kept, list[n])
<1>1. Len(list) \in Nat /\ n \in Nat /\ n - 1 \in Nat
  BY LenProperties DEF Lists
<1>2. kept \in Lists /\ Len(kept) \in Nat /\ Len(kept) <= n - 1
  BY LenProperties DEF Lists, Walked
<1>3. /\ new \in Lists /\ Len(new) = Len(kept) + 1
      /\ \A i \in 1 .. Len(kept) : new[i] = kept[i]
      /\ new[Len(kept) + 1] = list[n]
  <2>1. list[n] \in Elem
    BY ElementOfSeq DEF Lists
  <2> QED
    BY <1>2, <2>1, AppendProperties DEF Lists
<1> HIDE DEF new
<1>4. PICK place \in [1 .. Len(kept) -> 1 .. n - 1] :
        /\ \A i, j \in 1 .. Len(kept) : i < j => place[i] < place[j]
        /\ \A i \in 1 .. Len(kept) :
             kept[i] = list[place[i]] /\ Fresh(list[place[i]], t)
        /\ \A j \in 1 .. n - 1 :
             Fresh(list[j], t) => \E i \in 1 .. Len(kept) : place[i] = j
  BY DEF Walked
<1> DEFINE at == [i \in 1 .. Len(new) |-> IF i = Len(new) THEN n ELSE place[i]]
<1>5. /\ at \in [1 .. Len(new) -> 1 .. n]
      /\ at[Len(new)] = n
      /\ \A i \in 1 .. Len(kept) :
           i \in 1 .. Len(new) /\ at[i] = place[i] /\ place[i] \in 1 .. n - 1
  <2>1. Len(new) \in 1 .. Len(new) /\ n \in 1 .. n
    BY <1>1, <1>2, <1>3
  <2>2. \A i \in 1 .. Len(new) : i # Len(new) => i \in 1 .. Len(kept)
    BY <1>2, <1>3
  <2>3. \A i \in 1 .. Len(kept) :
          /\ i \in 1 .. Len(new) /\ i # Len(new)
          /\ place[i] \in 1 .. n - 1 /\ place[i] \in 1 .. n
    BY <1>1, <1>2, <1>3, <1>4
  <2>4. at \in [1 .. Len(new) -> 1 .. n]
    BY <2>1, <2>2, <2>3
  <2> QED
    BY <2>1, <2>3, <2>4
<1> HIDE DEF at
<1>6. \A i \in 1 .. Len(new) : i = Len(new) \/ i \in 1 .. Len(kept)
  BY <1>2, <1>3
<1>7. ASSUME NEW i \in 1 .. Len(new), NEW j \in 1 .. Len(new), i < j
      PROVE  at[i] < at[j]
  <2>1. i \in 1 .. Len(kept)
    BY <1>2, <1>3, <1>7
  <2>2. CASE j = Len(new)
    BY <1>1, <1>5, <2>1, <2>2
  <2>3. CASE j \in 1 .. Len(kept)
    BY <1>4, <1>5, <1>7, <2>1, <2>3
  <2> QED
    BY <1>6, <2>2, <2>3
<1>8. ASSUME NEW i \in 1 .. Len(new)
      PROVE  new[i] = list[at[i]] /\ Fresh(list[at[i]], t)
  BY <1>3, <1>4, <1>5, <1>6
<1>9. ASSUME NEW j \in 1 .. n, Fresh(list[j], t)
      PROVE  \E i \in 1 .. Len(new) : at[i] = j
  <2>1. CASE j = n
    BY <1>2, <1>3, <1>5, <2>1
  <2>2. CASE j \in 1 .. n - 1
    BY <1>4, <1>5, <1>9, <2>2
  <2> QED
    BY <1>1, <2>1, <2>2
<1>10. ASSUME \A j \in 1 .. n : Fresh(list[j], t)
       PROVE  Len(new) = n /\ \A i \in 1 .. n : new[i] = list[i]
  <2>1. Len(kept) = n - 1 /\ \A i \in 1 .. n - 1 : kept[i] = list[i]
    BY <1>1, <1>10 DEF Walked
  <2> QED
    BY <1>1, <1>3, <2>1
<1>11. ASSUME \E j \in 1 .. n : ~Fresh(list[j], t)
       PROVE  Len(new) < n
  <2>1. \E j \in 1 .. n - 1 : ~Fresh(list[j], t)
    BY <1>1, <1>11
  <2>2. Len(kept) < n - 1
    BY <2>1 DEF Walked
  <2> QED
    BY <1>1, <1>2, <1>3, <2>2
<1>12. Len(new) <= n
  BY <1>1, <1>2, <1>3
<1> QED
  BY <1>3, <1>5, <1>7, <1>8, <1>9, <1>10, <1>11, <1>12 DEF Walked, new

\* The walk keeps exactly what is fresh, in its order.
LEMMA KeptWalks ==
  ASSUME NEW list \in Lists, NEW t, NEW N \in 0 .. Len(list)
  PROVE  Walked(Kept(list, t)[N], list, N, t)
<1> DEFINE kept == Kept(list, t)
           Open == {n \in 0 .. Len(list) : ~Walked(kept[n], list, n, t)}
<1>1. Len(list) \in Nat
  BY LenProperties DEF Lists
<1>2. /\ kept[0] = <<>>
      /\ \A n \in 1 .. Len(list) :
           kept[n] = IF Fresh(list[n], t) THEN Append(kept[n - 1], list[n])
                     ELSE kept[n - 1]
  <2>1. kept = [n \in 0 .. Len(list) |->
              IF n = 0 THEN <<>>
              ELSE IF cache_elem_is_stale(list[n], t) THEN kept[n - 1]
              ELSE Append(kept[n - 1], list[n])]
    BY KeptStep
  <2> HIDE DEF kept
  <2>2. kept[0] = <<>>
    BY <1>1, <2>1
  <2>3. ASSUME NEW n \in 1 .. Len(list)
        PROVE  kept[n] = IF Fresh(list[n], t)
                         THEN Append(kept[n - 1], list[n]) ELSE kept[n - 1]
    <3>1. n \in 0 .. Len(list) /\ n # 0
      BY <1>1
    <3>2. kept[n] = IF n = 0 THEN <<>>
              ELSE IF cache_elem_is_stale(list[n], t) THEN kept[n - 1]
              ELSE Append(kept[n - 1], list[n])
      BY <2>1, <3>1, Zenon
    <3> QED
      BY <3>1, <3>2, Zenon DEF Fresh
  <2> QED
    BY <2>2, <2>3
<1> HIDE DEF kept
<1>3. Open = {}
  <2> SUFFICES ASSUME Open # {}
               PROVE  FALSE
    OBVIOUS
  <2>1. PICK m \in Open : \A n \in Open : m <= n
    <3>1. Open \in SUBSET Nat
      BY <1>1
    <3> HIDE DEF Open
    <3> QED
      BY <3>1, LeastNumber
  <2>2. m \in 0 .. Len(list) /\ ~Walked(kept[m], list, m, t)
    OBVIOUS
  <2>3. CASE m = 0
    <3>1. kept[0] \in Lists /\ Len(kept[0]) = 0
      BY <1>2, EmptySeq DEF Lists
    <3>2. 1 .. 0 = {}
      OBVIOUS
    <3>3. [i \in {} |-> i] \in [1 .. Len(kept[0]) -> 1 .. 0]
      BY <3>1, <3>2
    <3>4. 1 .. Len(kept[0]) = {} /\ Len(kept[0]) <= 0
      BY <3>1, <3>2
    <3>5. Walked(kept[0], list, 0, t)
      BY <3>1, <3>2, <3>3, <3>4 DEF Walked
    <3> QED
      BY <2>2, <2>3, <3>5
  <2>4. CASE m # 0
    <3>1. m \in 1 .. Len(list) /\ m - 1 \in 0 .. Len(list) /\ ~(m <= m - 1)
      BY <1>1, <2>2, <2>4
    <3>2. m - 1 \notin Open
      <4> HIDE DEF Open
      <4> QED
        BY <2>1, <3>1
    <3>3. Walked(kept[m - 1], list, m - 1, t)
      BY <3>1, <3>2
    <3>4. Walked(kept[m], list, m, t)
      BY <1>2, <3>1, <3>3, WalkedStale, WalkedFresh
    <3> QED
      BY <2>2, <3>4
  <2> QED
    BY <2>3, <2>4
<1> QED
  BY <1>3 DEF kept

-----------------------------------------------------------------------------
(* The operations on lists.                                                *)

\* A list has a length, and elements up to it.
LEMMA ListShape ==
  ASSUME NEW list \in Lists
  PROVE  /\ Len(list) \in Nat /\ DOMAIN list = 1 .. Len(list)
         /\ \A i \in 1 .. Len(list) : list[i] \in Elem
BY ElementOfSeq, LenProperties DEF Lists

\* What an element says of time is a number.
LEMMA ElemTimes ==
  ASSUME NEW elem \in Elem
  PROVE  elem.creation_time \in Int /\ elem.max_age \in Int
<1>1. elem.creation_time \in 0 .. MaxTime /\ elem.max_age \in MaxAges
  BY DEF Elem
<1>2. elem.max_age \in Int
  BY <1>1, CacheAssumption, Zenon
<1>3. \A n \in 0 .. MaxTime : n \in Int
  BY CacheAssumption
<1> QED
  BY <1>1, <1>2, <1>3, Zenon

\* cache_force_get_elem finds the first element of a key, if there is one.
LEMMA Lookup ==
  ASSUME NEW c \in Caches, NEW key
  PROVE  \/ /\ cache_force_get_elem(c, key) = 0
            /\ \A j \in 1 .. Len(c.list) : c.list[j].key # key
         \/ \E i \in 1 .. Len(c.list) :
              /\ cache_force_get_elem(c, key) = i
              /\ c.list[i].key = key
              /\ \A j \in 1 .. Len(c.list) : c.list[j].key = key => i <= j
<1> DEFINE at == {i \in 1 .. Len(c.list) : c.list[i].key = key}
<1>1. Len(c.list) \in Nat
  BY ListShape DEF Caches, Lists
<1>2. cache_force_get_elem(c, key) = IF at # {} THEN Min(at) ELSE 0
  BY DEF cache_force_get_elem, SelectInSeq
<1>3. CASE at = {}
  BY <1>2, <1>3
<1>4. CASE at # {}
  <2>1. at \in SUBSET Nat
    BY <1>1
  <2>2. \E m \in at : \A n \in at : m <= n
    <3> HIDE DEF at
    <3> QED
      BY <1>4, <2>1, LeastNumber
  <2>3. Min(at) \in at /\ \A n \in at : Min(at) <= n
    <3> HIDE DEF at
    <3> QED
      BY <2>2 DEF Min
  <2>4. cache_force_get_elem(c, key) = Min(at)
    BY <1>2, <1>4
  <2>5. Min(at) \in 1 .. Len(c.list) /\ c.list[Min(at)].key = key
    BY <2>3
  <2>6. \A j \in 1 .. Len(c.list) : c.list[j].key = key => Min(at) <= j
    BY <2>3
  <2> QED
    BY <2>4, <2>5, <2>6
<1> QED
  BY <1>3, <1>4

\* Pushing to the front moves every element back by one place.
LEMMA Pushed ==
  ASSUME NEW e \in Elem, NEW list \in Lists
  PROVE  /\ <<e>> \o list \in Lists
         /\ Len(<<e>> \o list) = Len(list) + 1
         /\ (<<e>> \o list)[1] = e
         /\ \A i \in 1 .. Len(list) + 1 :
              \/ i = 1
              \/ i - 1 \in 1 .. Len(list) /\ (<<e>> \o list)[i] = list[i - 1]
         /\ \A i \in 1 .. Len(list) : (<<e>> \o list)[i + 1] = list[i]
<1>1. Len(list) \in Nat
  BY ListShape
<1>2. <<e>> \in Seq(Elem) /\ Len(<<e>>) = 1 /\ <<e>>[1] = e
  OBVIOUS
<1> DEFINE f == <<e>>
           new == f \o list
<1> HIDE DEF f
<1>3. /\ new \in Seq(Elem)
      /\ Len(new) = Len(f) + Len(list)
      /\ \A i \in 1 .. Len(f) + Len(list) :
           new[i] = IF i <= Len(f) THEN f[i] ELSE list[i - Len(f)]
  BY <1>2, ConcatProperties DEF Lists, f
<1>4. f \in Seq(Elem) /\ Len(f) = 1 /\ f[1] = e
  BY <1>2 DEF f
<1>5. \A i \in 1 .. Len(list) + 1 :
         new[i] = IF i <= 1 THEN f[i] ELSE list[i - 1]
  BY <1>1, <1>3, <1>4
<1> HIDE DEF new
<1>6. new \in Lists /\ Len(new) = Len(list) + 1
  BY <1>1, <1>3, <1>4 DEF Lists
<1>7. new[1] = e
  BY <1>1, <1>4, <1>5
<1>8. \A i \in 1 .. Len(list) + 1 :
        \/ i = 1
        \/ i - 1 \in 1 .. Len(list) /\ new[i] = list[i - 1]
  BY <1>1, <1>5
<1>9. \A i \in 1 .. Len(list) : new[i + 1] = list[i]
  <2> TAKE i \in 1 .. Len(list)
  <2>1. i + 1 \in 1 .. Len(list) + 1 /\ i + 1 # 1 /\ i + 1 - 1 = i
    BY <1>1
  <2> QED
    BY <1>8, <2>1
<1> QED
  BY <1>6, <1>7, <1>8, <1>9 DEF new, f

\* Taking one element out leaves the others in order.
LEMMA Removed ==
  ASSUME NEW list \in Lists, NEW i \in 1 .. Len(list)
  PROVE  /\ RemoveAt(list, i) \in Lists
         /\ Len(RemoveAt(list, i)) = Len(list) - 1
         /\ PartOf(RemoveAt(list, i), list)
         /\ \A j \in 1 .. Len(list) - 1 :
              RemoveAt(list, i)[j] = IF j < i THEN list[j] ELSE list[j + 1]
<1>1. Len(list) \in Nat /\ i \in Nat
  BY ListShape
<1> DEFINE a == SubSeq(list, 1, i - 1)
           b == SubSeq(list, i + 1, Len(list))
           new == RemoveAt(list, i)
           place == [j \in 1 .. Len(new) |-> IF j < i THEN j ELSE j + 1]
<1>2. /\ a \in Seq(Elem) /\ Len(a) = i - 1
      /\ \A j \in 1 .. i - 1 : a[j] = list[j]
  <2>1. \A j \in 1 .. i - 1 : list[j] \in Elem
    BY <1>1, ListShape
  <2>2. i - 1 \in Int /\ 1 \in Int
    BY <1>1
  <2>3. /\ a \in Seq(Elem)
        /\ Len(a) = IF 1 <= i - 1 THEN i - 1 - 1 + 1 ELSE 0
        /\ \A j \in 1 .. i - 1 - 1 + 1 : a[j] = list[1 + j - 1]
    BY <2>1, <2>2, SubSeqProperties
  <2> HIDE DEF a
  <2> QED
    BY <1>1, <2>3
<1>3. /\ b \in Seq(Elem) /\ Len(b) = Len(list) - i
      /\ \A j \in 1 .. Len(list) - i : b[j] = list[i + j]
  <2>1. \A j \in i + 1 .. Len(list) : list[j] \in Elem
    BY <1>1, ListShape
  <2>2. i + 1 \in Int /\ Len(list) \in Int
    BY <1>1
  <2>3. /\ b \in Seq(Elem)
        /\ Len(b) = IF i + 1 <= Len(list) THEN Len(list) - (i + 1) + 1 ELSE 0
        /\ \A j \in 1 .. Len(list) - (i + 1) + 1 : b[j] = list[i + 1 + j - 1]
    BY <2>1, <2>2, SubSeqProperties
  <2> HIDE DEF b
  <2> QED
    BY <1>1, <2>3
<1>4. new = a \o b
  BY DEF RemoveAt
<1> HIDE DEF a, b, new
<1>5. /\ new \in Lists
      /\ Len(new) = Len(a) + Len(b)
      /\ \A j \in 1 .. Len(a) + Len(b) :
           new[j] = IF j <= Len(a) THEN a[j] ELSE b[j - Len(a)]
  BY <1>2, <1>3, <1>4, ConcatProperties DEF Lists
<1>6. Len(new) = Len(list) - 1
  BY <1>1, <1>2, <1>3, <1>5
<1>7. \A j \in 1 .. Len(list) - 1 :
        new[j] = IF j < i THEN list[j] ELSE list[j + 1]
  <2> TAKE j \in 1 .. Len(list) - 1
  <2>1. CASE j < i
    BY <1>1, <1>2, <1>3, <1>5, <2>1
  <2>2. CASE ~(j < i)
    <3>1. j - (i - 1) \in 1 .. Len(list) - i /\ i + (j - (i - 1)) = j + 1
      BY <1>1, <2>2
    <3>2. new[j] = b[j - (i - 1)]
      BY <1>1, <1>2, <1>3, <1>5, <2>2
    <3> QED
      BY <1>3, <2>2, <3>1, <3>2
  <2> QED
    BY <2>1, <2>2
<1>8. Places(place, new, list)
  <2>1. \A j \in 1 .. Len(new) : j \in 1 .. Len(list) /\ j + 1 \in 1 .. Len(list)
    BY <1>1, <1>6
  <2>2. place \in [1 .. Len(new) -> 1 .. Len(list)]
    BY <2>1
  <2>3. \A j, k \in 1 .. Len(new) : j < k => place[j] < place[k]
    BY <1>1, <1>6
  <2>4. \A j \in 1 .. Len(new) : new[j] = list[place[j]]
    BY <1>6, <1>7
  <2> HIDE DEF place
  <2> QED
    BY <2>2, <2>3, <2>4 DEF Places
<1> QED
  BY <1>5, <1>6, <1>7, <1>8 DEF PartOf, new

\* So does taking the last one.
LEMMA Popped ==
  ASSUME NEW list \in Lists, Len(list) > 0
  PROVE  /\ Front(list) \in Lists
         /\ Len(Front(list)) = Len(list) - 1
         /\ PartOf(Front(list), list)
         /\ \A j \in 1 .. Len(list) - 1 : Front(list)[j] = list[j]
<1>1. Len(list) \in Nat /\ Len(list) > 0
  BY ListShape
<1> DEFINE new == Front(list)
           place == [j \in 1 .. Len(new) |-> j]
<1>2. /\ new \in Lists /\ Len(new) = Len(list) - 1
      /\ \A j \in 1 .. Len(list) - 1 : new[j] = list[j]
  <2>1. \A j \in 1 .. Len(list) - 1 : list[j] \in Elem
    BY <1>1, ListShape
  <2>2. Len(list) - 1 \in Int /\ 1 \in Int
    BY <1>1
  <2>3. new = SubSeq(list, 1, Len(list) - 1)
    BY DEF Front
  <2> HIDE DEF new
  <2>4. /\ new \in Seq(Elem)
        /\ Len(new) = IF 1 <= Len(list) - 1 THEN Len(list) - 1 - 1 + 1 ELSE 0
        /\ \A j \in 1 .. Len(list) - 1 - 1 + 1 : new[j] = list[1 + j - 1]
    BY <2>1, <2>2, <2>3, SubSeqProperties
  <2>5. Len(new) = Len(list) - 1
    <3> DEFINE m == Len(list)
    <3>1. m \in Nat /\ m > 0
      BY <1>1
    <3>2. Len(new) = IF 1 <= m - 1 THEN m - 1 - 1 + 1 ELSE 0
      BY <2>4
    <3> HIDE DEF m
    <3>3. Len(new) = m - 1
      BY <3>1, <3>2
    <3> QED
      BY <3>3 DEF m
  <2>6. \A j \in 1 .. Len(list) - 1 : new[j] = list[j]
    <3> TAKE j \in 1 .. Len(list) - 1
    <3>1. j \in 1 .. Len(list) - 1 - 1 + 1 /\ 1 + j - 1 = j
      BY <1>1
    <3> QED
      BY <2>4, <3>1
  <2> QED
    BY <2>4, <2>5, <2>6 DEF Lists
<1> HIDE DEF new
<1>3. Places(place, new, list)
  BY <1>1, <1>2 DEF Places
<1> QED
  BY <1>2, <1>3 DEF PartOf, new

\* And taking out all that is stale: the list is the same if nothing is.
LEMMA Refreshed ==
  ASSUME NEW c \in Caches, NEW t
  PROVE  LET new == cache_remove_all_stale(c, t)
         IN  /\ new \in Caches
             /\ new.size = c.size - (Len(c.list) - Len(new.list))
             /\ \E place :
                  /\ Places(place, new.list, c.list)
                  /\ \A i \in 1 .. Len(new.list) : Fresh(c.list[place[i]], t)
                  /\ \A j \in 1 .. Len(c.list) :
                       Fresh(c.list[j], t) =>
                         \E i \in 1 .. Len(new.list) : place[i] = j
             /\ (\A j \in 1 .. Len(c.list) : Fresh(c.list[j], t)) => new = c
             /\ (\E j \in 1 .. Len(c.list) : ~Fresh(c.list[j], t)) =>
                  Len(new.list) < Len(c.list)
<1> DEFINE list == c.list
           kept == Kept(list, t)[Len(list)]
           new == cache_remove_all_stale(c, t)
<1>1. list \in Lists /\ c.size \in Int /\ Len(list) \in Nat
      /\ Len(list) \in 0 .. Len(list)
  BY ListShape DEF Caches, Lists
<1>2. Walked(kept, list, Len(list), t)
  BY <1>1, KeptWalks
<1>3. new = [list |-> kept, size |-> c.size - (Len(list) - Len(kept))]
  BY DEF cache_remove_all_stale
<1> HIDE DEF kept, new
<1>4. kept \in Lists /\ Len(kept) \in Nat
  BY <1>2, ListShape DEF Walked
<1>5. new.list = kept /\ new.size = c.size - (Len(list) - Len(kept))
  BY <1>3
<1>6. new \in Caches
  BY <1>1, <1>3, <1>4 DEF Caches, Lists
<1>7. \E place :
        /\ Places(place, kept, list)
        /\ \A i \in 1 .. Len(kept) : Fresh(list[place[i]], t)
        /\ \A j \in 1 .. Len(list) :
             Fresh(list[j], t) => \E i \in 1 .. Len(kept) : place[i] = j
  BY <1>2 DEF Walked, Places
<1>8. ASSUME \A j \in 1 .. Len(list) : Fresh(list[j], t)
      PROVE  new = c
  <2>1. Len(kept) = Len(list) /\ \A i \in 1 .. Len(list) : kept[i] = list[i]
    BY <1>2, <1>8 DEF Walked
  <2>2. kept = list
    BY <1>1, <1>4, <2>1, SeqEqual DEF Lists
  <2>3. new.list = c.list /\ new.size = c.size
    BY <1>1, <1>5, <2>2
  <2> HIDE DEF list
  <2> QED
    BY <1>6, <2>3 DEF Caches
<1>9. (\E j \in 1 .. Len(list) : ~Fresh(list[j], t)) => Len(kept) < Len(list)
  BY <1>2 DEF Walked
<1> QED
  BY <1>5, <1>6, <1>7, <1>8, <1>9 DEF new

\* Making room leaves part of the list, with a place free.  A list that is
\* not full is left alone; of a full one, all that is stale goes, or the last
\* element if nothing is.
LEMMA MadeRoom ==
  ASSUME NEW c \in Caches, NEW t, c.size = Len(c.list), c.size <= Capacity
  PROVE  LET room == MakeRoom(c, t)
         IN  /\ room \in Caches /\ room.size = Len(room.list)
             /\ room.size < Capacity
             /\ PartOf(room.list, c.list)
             /\ \/ c.size # Capacity /\ room = c
                \/ /\ c.size = Capacity
                   /\ \A j \in 1 .. Len(c.list) : Fresh(c.list[j], t)
                   /\ room.list = Front(c.list)
                \/ /\ c.size = Capacity
                   /\ \E j \in 1 .. Len(c.list) : ~Fresh(c.list[j], t)
                   /\ room = cache_remove_all_stale(c, t)
<1> DEFINE fresh == cache_remove_all_stale(c, t)
           room == MakeRoom(c, t)
<1>1. /\ c.list \in Lists /\ c.size \in Int /\ Len(c.list) \in Nat
      /\ Capacity \in Nat \ {0}
  BY ListShape, CacheAssumption DEF Caches, Lists
<1>2. /\ fresh \in Caches
      /\ fresh.size = c.size - (Len(c.list) - Len(fresh.list))
      /\ \E place : Places(place, fresh.list, c.list)
      /\ (\A j \in 1 .. Len(c.list) : Fresh(c.list[j], t)) => fresh = c
      /\ (\E j \in 1 .. Len(c.list) : ~Fresh(c.list[j], t)) =>
           Len(fresh.list) < Len(c.list)
  BY Refreshed
<1>3. room = IF c.size # Capacity THEN c
             ELSE IF fresh = c THEN cache_pop_back(c) ELSE fresh
  BY DEF MakeRoom
<1> HIDE DEF fresh, room
<1>4. CASE c.size # Capacity
  <2> DEFINE same == [i \in 1 .. Len(c.list) |-> i]
  <2>1. Places(same, c.list, c.list)
    BY <1>1 DEF Places
  <2>2. c.size < Capacity /\ room = c
    BY <1>1, <1>3, <1>4
  <2> QED
    BY <1>1, <1>4, <2>1, <2>2 DEF PartOf, room
<1>5. CASE c.size = Capacity /\ \A j \in 1 .. Len(c.list) : Fresh(c.list[j], t)
  <2>1. room = [list |-> Front(c.list), size |-> c.size - 1]
    BY <1>1, <1>2, <1>3, <1>5 DEF cache_pop_back
  <2>2. Len(c.list) > 0
    BY <1>1, <1>5
  <2>3. /\ Front(c.list) \in Lists
        /\ Len(Front(c.list)) = Len(c.list) - 1
        /\ PartOf(Front(c.list), c.list)
    BY <1>1, <2>2, Popped
  <2>4. room.list = Front(c.list) /\ room.size = c.size - 1
    BY <2>1
  <2>5. room \in Caches
    BY <1>1, <2>1, <2>3 DEF Caches, Lists
  <2>6. room.size = Len(room.list) /\ room.size < Capacity
    BY <1>1, <1>5, <2>3, <2>4
  <2> QED
    BY <1>5, <2>3, <2>4, <2>5, <2>6 DEF room
<1>6. CASE c.size = Capacity /\ \E j \in 1 .. Len(c.list) : ~Fresh(c.list[j], t)
  <2>1. Len(fresh.list) < Len(c.list)
    BY <1>2, <1>6
  <2>2. fresh # c /\ room = fresh
    <3>1. fresh # c
      BY <1>1, <2>1
    <3> QED
      BY <1>3, <1>6, <3>1, Zenon
  <2>3. fresh.list \in Lists /\ Len(fresh.list) \in Nat
    BY <1>2, ListShape DEF Caches, Lists
  <2>4. room.size = Len(room.list) /\ room.size < Capacity
    BY <1>1, <1>2, <1>6, <2>1, <2>2, <2>3
  <2> QED
    BY <1>2, <1>6, <2>2, <2>4 DEF PartOf, room, fresh
<1> QED
  BY <1>4, <1>5, <1>6

-----------------------------------------------------------------------------
(* What the list keeps to.                                                 *)

\* Nothing is from the future.
Past(list, t) == \A i \in 1 .. Len(list) : list[i].creation_time <= t

\* An element that has a value is the response last put under its key, and
\* the first of that key.
Valued(list, given) ==
  \A i \in 1 .. Len(list) :
    list[i].key # NULL /\ list[i].val # NULL =>
      /\ list[i] = given[list[i].key]
      /\ \A j \in 1 .. Len(list) : list[j].key = list[i].key => i <= j

Distinct(list) ==
  \A i, j \in 1 .. Len(list) : list[i].key = list[j].key => i = j

\* No malloc has failed for an element of the list.
Whole(list) ==
  \A i \in 1 .. Len(list) : list[i].key # NULL /\ list[i].val # NULL

\* A part of a list keeps to all of it.
LEMMA PartKeeps ==
  ASSUME NEW old \in Lists, NEW new \in Lists, PartOf(new, old),
         NEW t, NEW given
  PROVE  /\ Past(old, t) => Past(new, t)
         /\ Valued(old, given) => Valued(new, given)
         /\ Distinct(old) => Distinct(new)
         /\ Whole(old) => Whole(new)
<1>1. PICK place : Places(place, new, old)
  BY DEF PartOf
<1>2. \A i \in 1 .. Len(new) : place[i] \in 1 .. Len(old) /\ new[i] = old[place[i]]
  BY <1>1 DEF Places
<1>3. \A i, j \in 1 .. Len(new) : i < j => place[i] < place[j]
  BY <1>1 DEF Places
<1>4. Len(new) \in Nat /\ Len(old) \in Nat
  BY ListShape
<1>5. \A i, j \in 1 .. Len(new) : place[i] <= place[j] => i <= j
  <2> TAKE i, j \in 1 .. Len(new)
  <2>1. place[i] \in Nat /\ place[j] \in Nat /\ i \in Nat /\ j \in Nat
    BY <1>2, <1>4
  <2>2. j < i => place[j] < place[i]
    BY <1>3
  <2> QED
    BY <2>1, <2>2
<1>6. Past(old, t) => Past(new, t)
  BY <1>2, <1>3 DEF Past
<1>7. ASSUME Valued(old, given)
      PROVE  Valued(new, given)
  <2> SUFFICES ASSUME NEW i \in 1 .. Len(new),
                      new[i].key # NULL, new[i].val # NULL
               PROVE  /\ new[i] = given[new[i].key]
                      /\ \A j \in 1 .. Len(new) :
                           new[j].key = new[i].key => i <= j
    BY DEF Valued
  <2>1. /\ old[place[i]] = given[old[place[i]].key]
        /\ \A j \in 1 .. Len(old) :
             old[j].key = old[place[i]].key => place[i] <= j
    BY <1>2, <1>7 DEF Valued
  <2> QED
    BY <1>2, <1>5, <2>1
<1>8. ASSUME Distinct(old)
      PROVE  Distinct(new)
  <2> SUFFICES ASSUME NEW i \in 1 .. Len(new), NEW j \in 1 .. Len(new),
                      new[i].key = new[j].key
               PROVE  i = j
    BY DEF Distinct
  <2>1. place[i] = place[j]
    BY <1>2, <1>8 DEF Distinct
  <2>2. place[i] \in Nat /\ place[j] \in Nat /\ i \in Nat /\ j \in Nat
    BY <1>2, <1>4
  <2>3. i <= j /\ j <= i
    BY <1>5, <2>1, <2>2
  <2> QED
    BY <2>2, <2>3
<1>9. Whole(old) => Whole(new)
  BY <1>2 DEF Whole
<1> QED
  BY <1>6, <1>7, <1>8, <1>9

\* A new element in front is not from the future, and the only one of its key
\* that has a value.
LEMMA PushKeeps ==
  ASSUME NEW list \in Lists, NEW new \in Elem, NEW t \in Int, NEW given,
         new.creation_time = t
  PROVE  LET pushed == <<new>> \o list
         IN  /\ Past(list, t) => Past(pushed, t)
             /\ (/\ Valued(list, given)
                 /\ new.key = NULL \/ new = given[new.key]
                 /\ \A j \in 1 .. Len(list) :
                      list[j].key = new.key => 
                        list[j].key = NULL \/ list[j].val = NULL) =>
                  Valued(pushed, given)
             /\ (/\ Distinct(list)
                 /\ \A j \in 1 .. Len(list) : list[j].key # new.key) =>
                  Distinct(pushed)
             /\ Whole(list) /\ new.key # NULL /\ new.val # NULL => Whole(pushed)
<1> DEFINE pushed == <<new>> \o list
<1>1. Len(list) \in Nat
  BY ListShape
<1>2. /\ Len(pushed) = Len(list) + 1 /\ pushed[1] = new
      /\ \A i \in 1 .. Len(list) + 1 :
           \/ i = 1
           \/ i - 1 \in 1 .. Len(list) /\ pushed[i] = list[i - 1]
  BY Pushed
<1> HIDE DEF pushed
<1>4. \A i \in 1 .. Len(pushed) :
        \/ i = 1 /\ pushed[i] = new
        \/ i - 1 \in 1 .. Len(list) /\ pushed[i] = list[i - 1]
  BY <1>2
<1>5. ASSUME Past(list, t)
      PROVE  Past(pushed, t)
  BY <1>4, <1>5 DEF Past
<1>6. ASSUME Valued(list, given), new.key = NULL \/ new = given[new.key],
             \A j \in 1 .. Len(list) :
               list[j].key = new.key => list[j].key = NULL \/ list[j].val = NULL
      PROVE  Valued(pushed, given)
  <2> SUFFICES ASSUME NEW i \in 1 .. Len(pushed),
                      pushed[i].key # NULL, pushed[i].val # NULL
               PROVE  /\ pushed[i] = given[pushed[i].key]
                      /\ \A j \in 1 .. Len(pushed) :
                           pushed[j].key = pushed[i].key => i <= j
    BY DEF Valued
  <2>1. CASE i = 1
    BY <1>1, <1>2, <1>4, <1>6, <2>1
  <2>2. CASE i # 1
    <3>1. i - 1 \in 1 .. Len(list) /\ pushed[i] = list[i - 1]
      BY <1>4, <2>2
    <3>2. /\ pushed[i] = given[pushed[i].key]
          /\ \A j \in 1 .. Len(list) : list[j].key = pushed[i].key => i - 1 <= j
      BY <1>6, <3>1 DEF Valued
    <3>3. ASSUME NEW j \in 1 .. Len(pushed), pushed[j].key = pushed[i].key
          PROVE  i <= j
      <4>1. j # 1
        BY <1>2, <1>6, <3>1, <3>3
      <4>2. j - 1 \in 1 .. Len(list) /\ pushed[j] = list[j - 1]
        BY <1>4, <4>1
      <4>3. i - 1 <= j - 1
        BY <3>2, <3>3, <4>2
      <4> QED
        BY <1>1, <1>2, <4>3
    <3> QED
      BY <3>2, <3>3
  <2> QED
    BY <2>1, <2>2
<1>7. ASSUME Distinct(list), \A j \in 1 .. Len(list) : list[j].key # new.key
      PROVE  Distinct(pushed)
  <2> SUFFICES ASSUME NEW i \in 1 .. Len(pushed), NEW j \in 1 .. Len(pushed),
                      pushed[i].key = pushed[j].key
               PROVE  i = j
    BY DEF Distinct
  <2>1. CASE i = 1 \/ j = 1
    BY <1>4, <1>7, <2>1
  <2>2. CASE i # 1 /\ j # 1
    <3>1. i - 1 = j - 1
      BY <1>4, <1>7, <2>2 DEF Distinct
    <3> QED
      BY <1>1, <1>2, <3>1
  <2> QED
    BY <2>1, <2>2
<1>8. Whole(list) /\ new.key # NULL /\ new.val # NULL => Whole(pushed)
  BY <1>4 DEF Whole
<1> QED
  BY <1>5, <1>6, <1>7, <1>8 DEF pushed

\* An element whose value was freed and could not be replaced.
Blanked(list, i) == [list EXCEPT ![i].val = NULL]

\* Such an element keeps its place and stands for nothing.
LEMMA BlankKeeps ==
  ASSUME NEW list \in Lists, NEW i \in 1 .. Len(list), NEW t, NEW given
  PROVE  LET new == Blanked(list, i)
         IN  /\ new \in Lists /\ Len(new) = Len(list)
             /\ new[i].key = list[i].key /\ new[i].val = NULL
             /\ \A j \in 1 .. Len(list) : j # i => new[j] = list[j]
             /\ Past(list, t) => Past(new, t)
             /\ Valued(list, given) => Valued(new, given)
<1> DEFINE e == [list[i] EXCEPT !.val = NULL]
           new == Blanked(list, i)
<1>1. list[i] \in Elem
  BY ListShape
<1>2. /\ e \in Elem /\ e.key = list[i].key /\ e.val = NULL
      /\ e.creation_time = list[i].creation_time
  BY <1>1 DEF Elem
<1>3. new = [list EXCEPT ![i] = e]
  BY DEF Blanked
<1> HIDE DEF e, new
<1>4. /\ new \in Lists /\ Len(new) = Len(list)
      /\ \A j \in 1 .. Len(list) : new[j] = IF j = i THEN e ELSE list[j]
  BY <1>2, <1>3, ExceptSeq DEF Lists
<1>5. \A j \in 1 .. Len(list) :
        /\ new[j].key = list[j].key
        /\ new[j].creation_time = list[j].creation_time
        /\ new[j].val # NULL => new[j] = list[j]
  BY <1>2, <1>4
<1>6. Past(list, t) => Past(new, t)
  BY <1>4, <1>5 DEF Past
<1>7. Valued(list, given) => Valued(new, given)
  BY <1>4, <1>5 DEF Valued
<1> QED
  BY <1>2, <1>4, <1>6, <1>7 DEF new

-----------------------------------------------------------------------------
(* What cache_put leaves behind.                                           *)

\* A cache that holds together.
Sound(c, t, given) ==
  /\ c \in Caches /\ c.size = Len(c.list) /\ c.size <= Capacity
  /\ Past(c.list, t) /\ Valued(c.list, given)

\* Whole caches, in which a key is met once.
Single(c) == Distinct(c.list) /\ Whole(c.list)

\* The list has no value for this key, or nothing at all.
Valueless(list, key) ==
  \A j \in 1 .. Len(list) : list[j].key = key => list[j].val = NULL

Absent(list, key) == \A j \in 1 .. Len(list) : list[j].key # key

Renewed(given, elem) == [given EXCEPT ![elem.key] = elem]

\* The cache before a put, as it is seen by what the put is given.
LEMMA OtherKeys ==
  ASSUME NEW list \in Lists, NEW given, NEW elem \in Elem, elem.key \in Keys,
         given \in [Keys -> Elem \cup {NULL}],
         Valued(list, given), Valueless(list, elem.key)
  PROVE  Valued(list, Renewed(given, elem))
<1> DEFINE next == Renewed(given, elem)
<1>1. \A key \in Keys : key # elem.key => next[key] = given[key]
  BY DEF Renewed
<1> HIDE DEF next
<1>2. \A i \in 1 .. Len(list) : list[i].key # NULL => list[i].key \in Keys
  BY ListShape DEF Elem
<1>3. ASSUME NEW i \in 1 .. Len(list), list[i].key # NULL, list[i].val # NULL
      PROVE  next[list[i].key] = given[list[i].key]
  BY <1>1, <1>2, <1>3 DEF Valueless
<1>4. Valued(list, next)
  BY <1>3 DEF Valued
<1> QED
  BY <1>4 DEF next

\* cache_update moves the new element to the front, or, when there is no
\* memory, leaves the old one without its value.
LEMMA Updated ==
  ASSUME NEW c, NEW t \in Int, NEW given \in [Keys -> Elem \cup {NULL}],
         Sound(c, t, given),
         NEW elem \in Elem, elem.key \in Keys, elem.creation_time = t,
         NEW update \in Updates(c, elem.key, elem)
  PROVE  /\ update.n \in {0, 1}
         /\ Sound(update.cache, t, Renewed(given, elem))
         /\ update.n = 0 => Valueless(update.cache.list, elem.key)
         /\ Single(c) /\ ~scarce /\ elem.val # NULL =>
              /\ Single(update.cache)
              /\ update.n = 0 => Absent(update.cache.list, elem.key)
<1> DEFINE next == Renewed(given, elem)
           list == c.list
<1>1. /\ c \in Caches /\ list \in Lists /\ Len(list) \in Nat
      /\ c.size = Len(list) /\ c.size <= Capacity
      /\ Past(list, t) /\ Valued(list, given)
  BY ListShape DEF Sound, Caches, Lists
<1>2. next[elem.key] = elem /\ elem.key # NULL
  BY CacheAssumption DEF Renewed
<1>3. CASE cache_force_get_elem(c, elem.key) = 0
  <2>1. \A j \in 1 .. Len(list) : list[j].key # elem.key
    BY <1>1, <1>3, Lookup
  <2>2. update = [cache |-> c, n |-> 0]
    BY <1>3 DEF Updates
  <2>3. update.cache = c /\ update.n = 0
    BY <2>2
  <2>4. Valueless(list, elem.key) /\ Absent(list, elem.key)
    BY <2>1 DEF Valueless, Absent
  <2>5. Valued(list, next)
    BY <1>1, <2>4, OtherKeys
  <2> HIDE DEF next
  <2>6. Sound(update.cache, t, next)
    BY <1>1, <2>3, <2>5 DEF Sound
  <2> QED
    BY <2>3, <2>4, <2>6 DEF next
<1>4. CASE cache_force_get_elem(c, elem.key) # 0
  <2>1. PICK i \in 1 .. Len(list) :
          /\ cache_force_get_elem(c, elem.key) = i
          /\ list[i].key = elem.key
          /\ \A j \in 1 .. Len(list) : list[j].key = elem.key => i <= j
    BY <1>1, <1>4, Lookup
  <2> DEFINE rest == RemoveAt(list, i)
  <2>2. \/ update = [cache |-> [c EXCEPT !.list = <<elem>> \o rest], n |-> 1]
        \/ /\ scarce
           /\ update = [cache |-> [c EXCEPT !.list[i].val = NULL], n |-> 0]
    BY <1>4, <2>1 DEF Updates, cache_update
  <2>3. CASE update = [cache |-> [c EXCEPT !.list = <<elem>> \o rest], n |-> 1]
    <3>1. /\ rest \in Lists /\ Len(rest) = Len(list) - 1
          /\ PartOf(rest, list)
          /\ \A j \in 1 .. Len(list) - 1 :
               rest[j] = IF j < i THEN list[j] ELSE list[j + 1]
      BY <1>1, Removed
    <3> HIDE DEF rest
    <3>2. ASSUME NEW j \in 1 .. Len(rest)
          PROVE  \E k \in 1 .. Len(list) : k # i /\ rest[j] = list[k]
      BY <1>1, <3>1
    <3>3. Past(rest, t) /\ Valued(rest, given)
      BY <1>1, <3>1, PartKeeps
    <3>4. Distinct(list) => Distinct(rest)
      BY <1>1, <3>1, PartKeeps
    <3>5. Whole(list) => Whole(rest)
      BY <1>1, <3>1, PartKeeps
    <3>6. \A j \in 1 .. Len(rest) :
            rest[j].key = elem.key => rest[j].val = NULL
      <4> SUFFICES ASSUME NEW j \in 1 .. Len(rest), rest[j].key = elem.key,
                          rest[j].val # NULL
                   PROVE  FALSE
        OBVIOUS
      <4>1. PICK k \in 1 .. Len(list) : k # i /\ rest[j] = list[k]
        BY <3>2
      <4>2. k <= i /\ i <= k
        BY <1>1, <1>2, <2>1, <4>1 DEF Valued
      <4> QED
        BY <1>1, <4>1, <4>2
    <3>7. Valued(rest, next)
      BY <3>1, <3>3, <3>6, OtherKeys DEF Valueless
    <3> DEFINE new == <<elem>> \o rest
    <3>8. new \in Lists /\ Len(new) = Len(list)
      BY <1>1, <3>1, Pushed
    <3> HIDE DEF next
    <3>9. Past(new, t) /\ Valued(new, next)
      BY <1>2, <3>1, <3>3, <3>6, <3>7, PushKeeps
    <3>10. Distinct(list) => Distinct(new)
      <4> SUFFICES ASSUME Distinct(list)
                   PROVE  Distinct(new)
        OBVIOUS
      <4>1. \A j \in 1 .. Len(rest) : rest[j].key # elem.key
        BY <2>1, <3>2 DEF Distinct
      <4> QED
        BY <3>1, <3>4, <4>1, PushKeeps
    <3>11. Whole(list) /\ elem.val # NULL => Whole(new)
      BY <1>2, <3>1, <3>5, PushKeeps
    <3> HIDE DEF new
    <3>12. update.n = 1 /\ update.cache = [c EXCEPT !.list = new]
      BY <2>3 DEF new
    <3>13. /\ update.cache.list = new /\ update.cache.size = c.size
           /\ update.cache \in Caches
      BY <1>1, <3>8, <3>12 DEF Caches, Lists
    <3>14. Sound(update.cache, t, next)
      BY <1>1, <3>8, <3>9, <3>13 DEF Sound
    <3> QED
      BY <3>10, <3>11, <3>12, <3>13, <3>14 DEF Single, next
  <2>4. CASE /\ scarce
             /\ update = [cache |-> [c EXCEPT !.list[i].val = NULL], n |-> 0]
    <3> DEFINE new == Blanked(list, i)
    <3>1. /\ new \in Lists /\ Len(new) = Len(list)
          /\ new[i].key = list[i].key /\ new[i].val = NULL
          /\ \A j \in 1 .. Len(list) : j # i => new[j] = list[j]
          /\ Past(new, t) /\ Valued(new, given)
      BY <1>1, BlankKeeps
    <3>2. update.n = 0 /\ update.cache = [c EXCEPT !.list = new]
      BY <1>1, <2>4 DEF Blanked, Caches
    <3> HIDE DEF new
    <3>3. /\ update.cache.list = new /\ update.cache.size = c.size
          /\ update.cache \in Caches
      BY <1>1, <3>1, <3>2 DEF Caches, Lists
    <3>4. \A j \in 1 .. Len(new) : new[j].key = elem.key => new[j].val = NULL
      <4> SUFFICES ASSUME NEW j \in 1 .. Len(new), new[j].key = elem.key,
                          new[j].val # NULL
                   PROVE  FALSE
        OBVIOUS
      <4>1. j <= i /\ i <= j
        BY <1>2, <2>1, <3>1 DEF Valued
      <4> QED
        BY <1>1, <3>1, <4>1
    <3>5. Valued(new, next)
      BY <3>1, <3>4, OtherKeys DEF Valueless
    <3> HIDE DEF next
    <3>6. Sound(update.cache, t, next)
      BY <1>1, <3>1, <3>3, <3>5 DEF Sound
    <3> QED
      BY <2>4, <3>2, <3>3, <3>4, <3>6 DEF next, Valueless
  <2> QED
    BY <2>2, <2>3, <2>4
<1> QED
  BY <1>3, <1>4

\* What follows a failed update is room made and a new element in front, as
\* far as it could be allocated.
LEMMA Inserted ==
  ASSUME NEW c, NEW t \in Int, NEW later, NEW given, Sound(c, t, given),
         NEW elem \in Elem, elem.key \in Keys, elem.creation_time = t,
         given[elem.key] = elem, Valueless(c.list, elem.key),
         NEW out \in Insert(c, elem, later)
  PROVE  /\ Sound(out, t, given)
         /\ (/\ Single(c) /\ ~scarce /\ elem.val # NULL
             /\ Absent(c.list, elem.key)) => Single(out)
<1> DEFINE room == MakeRoom(c, later)
           list == room.list
           noKey == [elem EXCEPT !.key = NULL]
<1>1. /\ c \in Caches /\ c.list \in Lists /\ Len(c.list) \in Nat
      /\ c.size = Len(c.list) /\ c.size <= Capacity
      /\ Past(c.list, t) /\ Valued(c.list, given)
  BY ListShape DEF Sound, Caches, Lists
<1>2. /\ room \in Caches /\ room.size = Len(list) /\ room.size < Capacity
      /\ PartOf(list, c.list)
  BY <1>1, MadeRoom
<1>3. PICK new \in cache_elem_new(elem) : out = cache_force_push_front(room, new)
  BY DEF Insert
<1> HIDE DEF room
<1>4. list \in Lists /\ Len(list) \in Nat /\ Capacity \in Nat
  BY <1>2, ListShape, CacheAssumption DEF Caches, Lists
<1>5. /\ Past(list, t) /\ Valued(list, given)
      /\ Distinct(c.list) => Distinct(list)
      /\ Whole(c.list) => Whole(list)
  BY <1>1, <1>2, <1>4, PartKeeps
<1>6. \A j \in 1 .. Len(list) :
        \E k \in 1 .. Len(c.list) : list[j] = c.list[k]
  BY <1>2 DEF PartOf, Places
<1>7. \A j \in 1 .. Len(list) : list[j].key = elem.key => list[j].val = NULL
  BY <1>6 DEF Valueless
<1>8. \/ new = elem
      \/ scarce /\ new \in {NULL, noKey}
  BY <1>3 DEF cache_elem_new
<1>9. CASE new = NULL
  <2>1. out = room /\ scarce
    BY <1>3, <1>8, <1>9, CacheAssumption DEF cache_force_push_front
  <2> QED
    BY <1>2, <1>4, <1>5, <2>1 DEF Sound
<1>10. CASE new # NULL
  <2>1. /\ new \in Elem /\ new.creation_time = t
        /\ new.key = NULL \/ new = given[new.key]
        /\ new.key \in {elem.key, NULL}
    <3>1. CASE new = elem
      BY <3>1
    <3>2. CASE new = noKey
      <4>1. /\ noKey \in Elem /\ noKey.key = NULL
            /\ noKey.creation_time = elem.creation_time
        BY DEF Elem
      <4> HIDE DEF noKey
      <4> QED
        BY <3>2, <4>1
    <3> QED
      BY <1>8, <1>10, <3>1, <3>2
  <2> HIDE DEF noKey
  <2> DEFINE pushed == <<new>> \o list
  <2>2. pushed \in Lists /\ Len(pushed) = Len(list) + 1
    BY <1>4, <2>1, Pushed
  <2>3. \A j \in 1 .. Len(list) :
          list[j].key = new.key => list[j].key = NULL \/ list[j].val = NULL
    BY <1>7, <2>1
  <2>4. Past(pushed, t) /\ Valued(pushed, given)
    BY <1>4, <1>5, <2>1, <2>3, PushKeeps
  <2>5. out = [list |-> pushed, size |-> room.size + 1]
    BY <1>3, <1>10 DEF cache_force_push_front
  <2>6. ASSUME Single(c), ~scarce, elem.val # NULL,
               Absent(c.list, elem.key)
        PROVE  Single(out)
    <3>1. new = elem /\ elem.key # NULL
      BY <1>8, <2>6, CacheAssumption
    <3>2. \A j \in 1 .. Len(list) : list[j].key # new.key
      BY <1>6, <2>6, <3>1 DEF Absent
    <3>3. Distinct(pushed)
      BY <1>4, <1>5, <2>1, <2>6, <3>2, PushKeeps DEF Single
    <3>4. Whole(pushed)
      BY <1>4, <1>5, <2>1, <2>6, <3>1, PushKeeps DEF Single
    <3> HIDE DEF pushed
    <3> QED
      BY <2>5, <3>3, <3>4 DEF Single
  <2> HIDE DEF pushed
  <2>7. out.list = pushed /\ out.size = room.size + 1
    BY <2>5
  <2>8. out \in Caches /\ out.size = Len(out.list) /\ out.size <= Capacity
    BY <1>2, <1>4, <2>2, <2>5, <2>7 DEF Caches, Lists
  <2> QED
    BY <2>4, <2>6, <2>7, <2>8 DEF Sound
<1> QED
  BY <1>9, <1>10

-----------------------------------------------------------------------------
(* The invariant, with memory or without.                                  *)

Inv == TypeOK /\ (the_cache # NULL => Sound(the_cache, now, latest))

\* While memory lasts, there is a cache, and every element in it is whole.
Lasts ==
  /\ Running => the_cache # NULL
  /\ the_cache # NULL => Single(the_cache)

\* What init_proxy sets up.
LEMMA InitInv ==
  ASSUME Init
  PROVE  Inv /\ (~scarce => Lasts)
<1>1. /\ <<>> \in Seq(Elem) /\ Len(<<>>) = 0 /\ 1 .. 0 = {}
  BY EmptySeq
<1> DEFINE none == [list |-> <<>>, size |-> 0]
<1>2. /\ none \in Caches /\ none.list = <<>> /\ none.size = 0
  BY <1>1 DEF Caches
<1>3. 0 <= Capacity /\ 0 \in 0 .. MaxTime
  BY CacheAssumption
<1>4. the_cache \in {none} \cup IF scarce THEN {NULL} ELSE {}
  BY DEF Init
<1> HIDE DEF none
<1>5. none # NULL
  BY <1>2, CacheAssumption
<1>6. \A given : Sound(none, 0, given) /\ Single(none)
  BY <1>1, <1>2, <1>3 DEF Sound, Single, Past, Valued, Distinct, Whole
<1>7. TypeOK
  <2>1. the_cache = NULL \/ the_cache \in Caches
    BY <1>2, <1>4
  <2>2. reply \in Reply
    BY DEF Init, Reply
  <2>3. /\ now \in 0 .. MaxTime /\ latest \in [Keys -> Elem \cup {NULL}]
        /\ scarce \in BOOLEAN
    BY <1>3 DEF Init
  <2> QED
    BY <2>1, <2>2, <2>3 DEF TypeOK
<1> QED
  BY <1>4, <1>5, <1>6, <1>7 DEF Inv, Lasts, Init

\* The clock moves on.
LEMMA Later ==
  ASSUME Inv, ClockRuns
  PROVE  /\ now \in Int /\ now' \in 0 .. MaxTime /\ now <= now'
         /\ \A list \in Lists : Past(list, now) => Past(list, now')
<1>1. now \in 0 .. MaxTime /\ now' \in {now, now + 1} /\ now' <= MaxTime
  BY DEF Inv, TypeOK, ClockRuns
<1>2. now \in Int /\ now' \in 0 .. MaxTime /\ now <= now'
  BY <1>1, CacheAssumption
<1>3. ASSUME NEW list \in Lists, Past(list, now)
      PROVE  Past(list, now')
  <2>1. \A i \in 1 .. Len(list) : list[i].creation_time \in Int
    BY ListShape, CacheAssumption DEF Elem
  <2> QED
    BY <1>2, <1>3, <2>1 DEF Past
<1> QED
  BY <1>2, <1>3

\* An element that was never lacking memory.
LEMMA NewTyped ==
  ASSUME Inv, NEW key \in Keys, NEW val \in Vals, NEW max_age \in MaxAges
  PROVE  LET elem == NewElem(key, val, max_age)
         IN  /\ elem \in Elem /\ elem.key = key /\ elem.val = val
             /\ elem.creation_time = now /\ elem.max_age = max_age
             /\ elem.key # NULL /\ elem.val # NULL
BY CacheAssumption DEF Inv, TypeOK, NewElem, Elem

\* A put keeps the cache sound, whatever memory there is.
LEMMA PutInv ==
  ASSUME Inv, scarce' = scarce, NEW key \in Keys, NEW elem \in Elem,
         elem.key = key, elem.val # NULL, elem.creation_time = now,
         cache_put(key, elem)
  PROVE  Inv' /\ (~scarce /\ Lasts => Lasts')
<1>1. /\ the_cache # NULL /\ ClockRuns
      /\ latest' = [latest EXCEPT ![key] = elem]
      /\ reply' = [op |-> "put", key |-> key, n |-> 1]
  BY DEF cache_put, Given
<1>2. PICK update \in Updates(the_cache, key, elem) :
        the_cache' \in IF update.n > 0 THEN {update.cache}
                       ELSE Insert(update.cache, elem, now')
  BY DEF cache_put
<1>3. /\ Sound(the_cache, now, latest) /\ now \in Int
      /\ latest \in [Keys -> Elem \cup {NULL}]
  BY <1>1, Later DEF Inv, TypeOK
<1>4. /\ elem.key \in Keys
      /\ latest' = Renewed(latest, elem)
      /\ update \in Updates(the_cache, elem.key, elem)
  BY <1>1, <1>2 DEF Renewed
<1>5. /\ update.n \in {0, 1}
      /\ Sound(update.cache, now, latest')
      /\ update.n = 0 => Valueless(update.cache.list, elem.key)
      /\ Single(the_cache) /\ ~scarce =>
           /\ Single(update.cache)
           /\ update.n = 0 => Absent(update.cache.list, elem.key)
  BY <1>3, <1>4, Updated
<1>6. ASSUME update.n = 0
      PROVE  /\ Sound(the_cache', now, latest')
             /\ (/\ Single(update.cache) /\ ~scarce
                 /\ Absent(update.cache.list, elem.key)) => Single(the_cache')
  <2>1. the_cache' \in Insert(update.cache, elem, now')
    BY <1>2, <1>6
  <2>2. latest'[elem.key] = elem
    BY <1>3, <1>4 DEF Renewed
  <2> QED
    BY <1>3, <1>5, <1>6, <1>4, <2>1, <2>2, Inserted
<1>7. ASSUME update.n = 1
      PROVE  the_cache' = update.cache
  BY <1>2, <1>7
<1>8. Sound(the_cache', now, latest')
  BY <1>5, <1>6, <1>7
<1>9. ~scarce /\ Single(the_cache) => Single(the_cache')
  <2>1. CASE update.n = 1
    BY <1>5, <1>7, <2>1
  <2>2. CASE update.n = 0
    BY <1>5, <1>6, <2>2
  <2> QED
    BY <1>5, <2>1, <2>2
<1>10. Sound(the_cache', now', latest')
  <2>1. the_cache'.list \in Lists
    BY <1>8 DEF Sound, Caches, Lists
  <2> QED
    BY <1>1, <1>8, <2>1, Later DEF Sound
<1>11. TypeOK'
  <2>1. the_cache' \in Caches
    BY <1>10 DEF Sound
  <2>2. reply' \in Reply
    BY <1>1 DEF Reply
  <2>3. latest' \in [Keys -> Elem \cup {NULL}]
    BY <1>1, <1>3
  <2> QED
    BY <1>1, <2>1, <2>2, <2>3, Later DEF Inv, TypeOK
<1>12. the_cache' # NULL
  BY <1>10, CacheAssumption DEF Sound
<1> QED
  BY <1>1, <1>10, <1>11, <1>12, <1>9 DEF Inv, Lasts

\* With no cache, a put changes nothing but what was put last.
LEMMA NowhereInv ==
  ASSUME Inv, scarce' = scarce, NEW key \in Keys, NEW elem \in Elem, PutNowhere(key, elem)
  PROVE  Inv' /\ (~scarce /\ Lasts => Lasts')
<1>1. /\ Running /\ the_cache = NULL /\ the_cache' = NULL /\ ClockRuns
      /\ latest' = [latest EXCEPT ![key] = elem]
      /\ reply' = [op |-> "put", key |-> key, n |-> 0]
  BY DEF PutNowhere, Given
<1>2. reply' \in Reply
  BY <1>1 DEF Reply
<1>3. latest' \in [Keys -> Elem \cup {NULL}]
  BY <1>1 DEF Inv, TypeOK
<1> QED
  BY <1>1, <1>2, <1>3, Later DEF Inv, TypeOK, Lasts

\* A cache stays sound while the clock runs.
LEMMA StaysSound ==
  ASSUME Inv, ClockRuns, the_cache # NULL
  PROVE  Sound(the_cache, now', latest)
BY Later DEF Inv, Sound, Caches, Lists

\* A get that finds nothing, or something stale.
LEMMA MissInv ==
  ASSUME Inv, scarce' = scarce, NEW key \in Keys, GetMiss(key)
  PROVE  Inv' /\ (~scarce /\ Lasts => Lasts')
<1>1. /\ ClockRuns /\ latest' = latest /\ Running
      /\ reply' = [op |-> "get", key |-> key, n |-> 0]
  BY DEF GetMiss
<1>2. reply' \in Reply
  BY <1>1 DEF Reply
<1>3. CASE the_cache' = the_cache
  <2>1. TypeOK'
    BY <1>1, <1>2, <1>3, Later DEF Inv, TypeOK
  <2>2. the_cache' # NULL => Sound(the_cache', now', latest')
    BY <1>1, <1>3, StaysSound
  <2> QED
    BY <1>1, <1>3, <2>1, <2>2 DEF Inv, Lasts
<1>4. CASE /\ the_cache # NULL
           /\ LET i == cache_force_get_elem(the_cache, key)
              IN  i # 0 /\ the_cache' = cache_force_remove_elem(the_cache, i)
  <2> DEFINE list == the_cache.list
  <2>1. /\ Sound(the_cache, now', latest)
        /\ the_cache \in Caches /\ list \in Lists /\ Len(list) \in Nat
    BY <1>1, <1>4, StaysSound, ListShape DEF Sound, Caches, Lists
  <2>2. PICK i \in 1 .. Len(list) :
          the_cache' = cache_force_remove_elem(the_cache, i)
    BY <1>4, <2>1, Lookup
  <2> DEFINE rest == RemoveAt(list, i)
  <2>3. the_cache' = [list |-> rest, size |-> the_cache.size - 1]
    BY <2>2 DEF cache_force_remove_elem
  <2>4. /\ rest \in Lists /\ Len(rest) = Len(list) - 1
        /\ PartOf(rest, list)
    BY <2>1, Removed
  <2> HIDE DEF rest
  <2>5. Past(rest, now') /\ Valued(rest, latest)
    BY <2>1, <2>4, PartKeeps DEF Sound
  <2>6. Single(the_cache) => Distinct(rest) /\ Whole(rest)
    BY <2>1, <2>4, PartKeeps DEF Single
  <2>7. /\ the_cache'.list = rest /\ the_cache'.size = the_cache.size - 1
        /\ the_cache' \in Caches
    BY <2>1, <2>3, <2>4 DEF Caches, Lists
  <2>8. Sound(the_cache', now', latest')
    BY <1>1, <2>1, <2>4, <2>5, <2>7, CacheAssumption DEF Sound
  <2>9. the_cache' # NULL
    BY <2>7, CacheAssumption
  <2>10. Single(the_cache) => Single(the_cache')
    BY <2>6, <2>7 DEF Single
  <2>11. TypeOK'
    BY <1>1, <1>2, <2>7, Later DEF Inv, TypeOK
  <2> QED
    BY <1>1, <1>4, <2>8, <2>9, <2>10, <2>11 DEF Inv, Lasts
<1> QED
  BY <1>3, <1>4 DEF GetMiss

\* A get that answers: what it answers with is what was put last.
LEMMA HitFinds ==
  ASSUME Inv, NEW key \in Keys, GetHit(key)
  PROVE  /\ the_cache # NULL
         /\ \E i \in 1 .. Len(the_cache.list) :
              LET elem == the_cache.list[i]
              IN  /\ cache_force_get_elem(the_cache, key) = i
                  /\ elem \in Elem /\ elem = latest[key] /\ elem # NULL
                  /\ elem.key = key /\ elem.val # NULL
                  /\ elem.creation_time <= now
                  /\ ~cache_elem_is_stale(elem, now)
                  /\ reply' = [op |-> "get", key |-> key, n |-> 1,
                               val |-> elem.val,
                               age |-> cache_elem_age(elem, now')]
<1>1. /\ the_cache # NULL /\ the_cache \in Caches
      /\ the_cache.list \in Lists
      /\ Past(the_cache.list, now) /\ Valued(the_cache.list, latest)
  BY DEF GetHit, Inv, Sound, Caches, Lists
<1>2. cache_force_get_elem(the_cache, key) # 0
  BY DEF GetHit
<1>3. PICK i \in 1 .. Len(the_cache.list) :
        /\ cache_force_get_elem(the_cache, key) = i
        /\ the_cache.list[i].key = key
  BY <1>1, <1>2, Lookup
<1> DEFINE elem == the_cache.list[i]
<1>4. /\ ~cache_elem_is_stale(elem, now) /\ elem.val # NULL
      /\ reply' = [op |-> "get", key |-> key, n |-> 1, val |-> elem.val,
                   age |-> cache_elem_age(elem, now')]
  BY <1>3 DEF GetHit
<1>5. elem \in Elem /\ elem.creation_time <= now
  BY <1>1, ListShape DEF Past
<1>6. elem # NULL /\ elem = latest[key]
  BY <1>1, <1>3, <1>4, <1>5, CacheAssumption DEF Valued
<1> QED
  BY <1>1, <1>3, <1>4, <1>5, <1>6

\* A get that answers changes nothing.
LEMMA HitInv ==
  ASSUME Inv, scarce' = scarce, NEW key \in Keys, GetHit(key)
  PROVE  Inv' /\ (~scarce /\ Lasts => Lasts')
<1>1. /\ ClockRuns /\ latest' = latest /\ the_cache' = the_cache /\ Running
  BY DEF GetHit
<1>2. PICK elem \in Elem :
        /\ elem.val # NULL /\ elem.creation_time <= now
        /\ reply' = [op |-> "get", key |-> key, n |-> 1, val |-> elem.val,
                     age |-> cache_elem_age(elem, now')]
  BY HitFinds
<1>3. reply' \in Reply
  <2>1. elem.val \in Vals /\ elem.creation_time \in 0 .. MaxTime
    BY <1>2 DEF Elem
  <2>2. cache_elem_age(elem, now') \in 0 .. MaxTime
    BY <1>1, <1>2, <2>1, Later, CacheAssumption DEF cache_elem_age
  <2> DEFINE age == cache_elem_age(elem, now')
  <2> HIDE DEF age
  <2>3. reply' = [op |-> "get", key |-> key, n |-> 1, val |-> elem.val,
                  age |-> age] /\ age \in 0 .. MaxTime
    BY <1>2, <2>2 DEF age
  <2> QED
    BY <2>1, <2>3 DEF Reply
<1>4. TypeOK'
  BY <1>1, <1>3, Later DEF Inv, TypeOK
<1>5. the_cache' # NULL => Sound(the_cache', now', latest')
  BY <1>1, StaysSound
<1> QED
  BY <1>1, <1>4, <1>5 DEF Inv, Lasts

\* The calls that end the process, the clock, and what is over.
LEMMA OtherInv ==
  ASSUME Inv, scarce' = scarce, Fail \/ cache_clear \/ Tick \/ Halted \/ UNCHANGED vars
  PROVE  Inv' /\ (~scarce /\ Lasts => Lasts')
<1>1. ASSUME NEW key \in Keys, CallCrashes(key)
      PROVE  Inv' /\ (~scarce /\ Lasts => Lasts')
  <2>1. /\ ClockRuns /\ latest' = latest /\ the_cache' = the_cache
        /\ reply' = [op |-> "crash"] /\ the_cache # NULL
    BY <1>1 DEF CallCrashes
  <2>2. reply' \in Reply
    BY <2>1 DEF Reply
  <2>3. TypeOK'
    BY <2>1, <2>2, Later DEF Inv, TypeOK
  <2>4. the_cache' # NULL => Sound(the_cache', now', latest')
    BY <2>1, StaysSound
  <2> QED
    BY <2>1, <2>3, <2>4 DEF Inv, Lasts
<1>2. CASE cache_clear
  <2>1. /\ the_cache' = NULL /\ reply' = [op |-> "exit"]
        /\ now' = now /\ latest' = latest
    BY <1>2 DEF cache_clear
  <2>2. reply' \in Reply
    BY <2>1 DEF Reply
  <2>3. ~Running'
    BY <2>1 DEF Running
  <2> QED
    BY <2>1, <2>2, <2>3 DEF Inv, TypeOK, Lasts
<1>3. CASE Tick
  <2>1. /\ ClockRuns /\ latest' = latest /\ the_cache' = the_cache
        /\ reply' = reply
    BY <1>3, CacheAssumption DEF Tick, ClockRuns, Inv, TypeOK
  <2>2. TypeOK'
    BY <2>1, Later DEF Inv, TypeOK
  <2>3. the_cache' # NULL => Sound(the_cache', now', latest')
    BY <2>1, StaysSound
  <2> QED
    BY <2>1, <2>2, <2>3 DEF Inv, Lasts, Running
<1>4. CASE UNCHANGED vars
  <2>1. /\ the_cache' = the_cache /\ now' = now /\ reply' = reply
        /\ latest' = latest
    BY <1>4 DEF vars
  <2> QED
    BY <2>1 DEF Inv, TypeOK, Lasts, Running
<1> QED
  BY <1>1, <1>2, <1>3, <1>4 DEF Fail, Halted

\* Every step keeps the invariant.
LEMMA StepInv ==
  ASSUME Inv, [Next]_vars
  PROVE  Inv' /\ (~scarce /\ Lasts => Lasts') /\ scarce' = scarce
<1>0. scarce' = scarce
  BY DEF Next, vars
<1>1. ASSUME NEW key \in Keys, NEW val \in Vals, NEW max_age \in MaxAges,
             LET elem == NewElem(key, val, max_age)
             IN  cache_put(key, elem) \/ PutNowhere(key, elem)
      PROVE  Inv' /\ (~scarce /\ Lasts => Lasts')
  <2>1. PICK elem \in Elem :
          /\ elem.key = key /\ elem.val # NULL /\ elem.creation_time = now
          /\ cache_put(key, elem) \/ PutNowhere(key, elem)
    BY <1>1, NewTyped
  <2> QED
    BY <1>0, <2>1, PutInv, NowhereInv
<1>2. ASSUME NEW key \in Keys, GetMiss(key) \/ GetHit(key)
      PROVE  Inv' /\ (~scarce /\ Lasts => Lasts')
  BY <1>0, <1>2, MissInv, HitInv
<1> QED
  BY <1>0, <1>1, <1>2, OtherInv DEF Next, Put, Get

-----------------------------------------------------------------------------
(* What the invariant gives.                                               *)

\* The invariant holds in every state, with memory or without.
THEOREM Invariance == Spec => []Inv
<1>1. Init => Inv
  BY InitInv
<1>2. Inv /\ [Next]_vars => Inv'
  BY StepInv
<1> QED
  BY <1>1, <1>2, PTL DEF Spec

\* Type correctness, for every capacity and whatever malloc does.
THEOREM TypeCorrect == Spec => []TypeOK
<1>1. Inv => TypeOK
  BY DEF Inv
<1> QED
  BY <1>1, Invariance, PTL

\* The counter that cache_put compares with the capacity counts the list and
\* never passes it, whatever malloc does.
THEOREM Counted == Spec => []SizeCounts
<1>1. Inv => SizeCounts
  BY DEF Inv, Sound, SizeCounts
<1> QED
  BY <1>1, Invariance, PTL

\* A get that answers gives the response put last under its key, and within
\* its max-age, even when memory ran out in an earlier put.
THEOREM LatestAnswers == Spec => AnswersLatest
<1>1. ASSUME Inv, NEW key \in Keys, GetHit(key)
      PROVE  /\ latest[key] # NULL /\ reply'.val = latest[key].val
             /\ ~cache_elem_is_stale(latest[key], now)
  BY <1>1, HitFinds
<1>2. Inv => [\A key \in Keys :
                GetHit(key) =>
                  /\ latest[key] # NULL /\ reply'.val = latest[key].val
                  /\ ~cache_elem_is_stale(latest[key], now)]_vars
  BY <1>1
<1> QED
  BY <1>2, Invariance, PTL DEF AnswersLatest

\* While memory lasts, every key has one element, and the cache is there.
THEOREM Lasting == Spec => [](Inv /\ (~scarce => Lasts))
<1>1. Init => Inv /\ (~scarce => Lasts)
  BY InitInv
<1>2. (Inv /\ (~scarce => Lasts)) /\ [Next]_vars => (Inv /\ (~scarce => Lasts))'
  BY StepInv
<1> QED
  BY <1>1, <1>2, PTL DEF Spec

\* No key has two elements, while memory lasts.  (It may when memory fails:
\* an element whose value could not be replaced stays behind the new one.)
THEOREM OneEach == Spec => []UniqueKeys
<1>1. Inv /\ (~scarce => Lasts) => UniqueKeys
  <2> SUFFICES ASSUME Inv, Lasts, the_cache # NULL
               PROVE  UniqueKeys
    BY DEF UniqueKeys
  <2>1. the_cache.list \in Lists /\ Distinct(the_cache.list)
    BY DEF Inv, Lasts, Sound, Single, Caches, Lists
  <2>2. DOMAIN the_cache.list = 1 .. Len(the_cache.list)
    BY <2>1, ListShape
  <2> QED
    BY <2>1, <2>2 DEF UniqueKeys, Distinct
<1> QED
  BY <1>1, Lasting, PTL

-----------------------------------------------------------------------------
(* The store the list stands for.                                          *)

KeysOf(list) == {list[i].key : i \in 1 .. Len(list)}

Entry(elem) ==
  [val |-> elem.val, creation_time |-> elem.creation_time,
   max_age |-> elem.max_age]

StoreOf(c) ==
  [k \in {elem.key : elem \in Range(c.list)} |->
     Entry(c.list[cache_force_get_elem(c, k)])]

\* The store has the keys of the list, and under each what its element says.
LEMMA StoreShape ==
  ASSUME NEW c \in Caches, Distinct(c.list)
  PROVE  /\ DOMAIN StoreOf(c) = KeysOf(c.list)
         /\ StoreOf(c) = [k \in KeysOf(c.list) |-> StoreOf(c)[k]]
         /\ \A i \in 1 .. Len(c.list) :
              StoreOf(c)[c.list[i].key] = Entry(c.list[i])
<1> DEFINE list == c.list
<1>1. list \in Seq(Elem)
  BY DEF Caches
<1>2. Range(list) = {list[i] : i \in 1 .. Len(list)}
  BY <1>1, RangeEquality
<1>3. {elem.key : elem \in Range(list)} = KeysOf(list)
  BY <1>2 DEF KeysOf
<1>4. StoreOf(c) = [k \in KeysOf(list) |->
                      Entry(list[cache_force_get_elem(c, k)])]
  BY <1>3, Zenon DEF StoreOf
<1>5. ASSUME NEW i \in 1 .. Len(list)
      PROVE  StoreOf(c)[list[i].key] = Entry(list[i])
  <2>1. PICK j \in 1 .. Len(list) :
          cache_force_get_elem(c, list[i].key) = j /\ list[j].key = list[i].key
    BY Lookup
  <2>2. j = i
    BY <2>1 DEF Distinct
  <2>3. list[i].key \in KeysOf(list)
    BY DEF KeysOf
  <2>4. StoreOf(c)[list[i].key] =
          Entry(list[cache_force_get_elem(c, list[i].key)])
    BY <1>4, <2>3, Zenon
  <2> QED
    BY <2>1, <2>2, <2>4, Zenon
<1>6. DOMAIN StoreOf(c) = KeysOf(list)
  BY <1>4, Zenon
<1>7. StoreOf(c) = [k \in KeysOf(list) |-> StoreOf(c)[k]]
  BY <1>4
<1> QED
  BY <1>5, <1>6, <1>7

\* Part of a list stands for part of the store.
LEMMA PartStore ==
  ASSUME NEW old \in Caches, NEW new \in Caches,
         PartOf(new.list, old.list), Distinct(old.list), Distinct(new.list)
  PROVE  /\ KeysOf(new.list) \subseteq KeysOf(old.list)
         /\ \A k \in KeysOf(new.list) : StoreOf(new)[k] = StoreOf(old)[k]
<1>1. \A i \in 1 .. Len(new.list) :
        \E j \in 1 .. Len(old.list) : new.list[i] = old.list[j]
  BY DEF PartOf, Places
<1>2. KeysOf(new.list) \subseteq KeysOf(old.list)
  BY <1>1 DEF KeysOf
<1>3. ASSUME NEW k \in KeysOf(new.list)
      PROVE  StoreOf(new)[k] = StoreOf(old)[k]
  <2>1. PICK i \in 1 .. Len(new.list) : k = new.list[i].key
    BY DEF KeysOf
  <2>2. PICK j \in 1 .. Len(old.list) : new.list[i] = old.list[j]
    BY <1>1
  <2>3. StoreOf(new)[k] = Entry(new.list[i])
    BY <2>1, StoreShape
  <2>4. StoreOf(old)[k] = Entry(old.list[j])
    BY <2>1, <2>2, StoreShape
  <2> QED
    BY <2>2, <2>3, <2>4
<1> QED
  BY <1>2, <1>3

\* Taking out the element of a key takes out that key.
LEMMA RemovedKeys ==
  ASSUME NEW list \in Lists, Distinct(list), NEW i \in 1 .. Len(list)
  PROVE  KeysOf(RemoveAt(list, i)) = KeysOf(list) \ {list[i].key}
<1> DEFINE rest == RemoveAt(list, i)
           key == list[i].key
<1>1. /\ Len(rest) = Len(list) - 1
      /\ \A j \in 1 .. Len(list) - 1 :
           rest[j] = IF j < i THEN list[j] ELSE list[j + 1]
  BY Removed
<1> HIDE DEF rest
<1>2. Len(list) \in Nat
  BY ListShape
<1>3. ASSUME NEW k \in KeysOf(rest)
      PROVE  k \in KeysOf(list) /\ k # key
  <2>1. PICK j \in 1 .. Len(rest) : k = rest[j].key
    BY DEF KeysOf
  <2>2. PICK m \in 1 .. Len(list) : m # i /\ rest[j] = list[m]
    BY <1>1, <1>2
  <2> QED
    BY <2>1, <2>2 DEF KeysOf, Distinct
<1>4. ASSUME NEW k \in KeysOf(list), k # key
      PROVE  k \in KeysOf(rest)
  <2>1. PICK m \in 1 .. Len(list) : k = list[m].key
    BY DEF KeysOf
  <2>2. m # i
    BY <1>4, <2>1
  <2>3. CASE m < i
    <3>1. m \in 1 .. Len(rest) /\ rest[m] = list[m]
      BY <1>1, <1>2, <2>3
    <3> QED
      BY <2>1, <3>1 DEF KeysOf
  <2>4. CASE m > i
    <3>1. m - 1 \in 1 .. Len(list) - 1 /\ ~(m - 1 < i) /\ m - 1 + 1 = m
      BY <1>2, <2>4
    <3>2. m - 1 \in 1 .. Len(rest) /\ rest[m - 1] = list[m]
      BY <1>1, <3>1
    <3> QED
      BY <2>1, <3>2 DEF KeysOf
  <2> QED
    BY <1>2, <2>2, <2>3, <2>4
<1> QED
  BY <1>3, <1>4 DEF rest

\* A new element in front is a new key in the store.
LEMMA PushStore ==
  ASSUME NEW c \in Caches, NEW new \in Caches, NEW elem \in Elem,
         new.list = <<elem>> \o c.list,
         Distinct(c.list), Distinct(new.list)
  PROVE  /\ KeysOf(new.list) = KeysOf(c.list) \cup {elem.key}
         /\ StoreOf(new)[elem.key] = Entry(elem)
         /\ \A x \in KeysOf(c.list) : StoreOf(new)[x] = StoreOf(c)[x]
<1> DEFINE key == elem.key
           D == KeysOf(c.list) \cup {key}
<1>1. c.list \in Lists /\ Len(c.list) \in Nat
  BY ListShape DEF Caches, Lists
<1>2. /\ Len(new.list) = Len(c.list) + 1 /\ new.list[1] = elem
      /\ \A i \in 1 .. Len(c.list) + 1 :
           \/ i = 1
           \/ i - 1 \in 1 .. Len(c.list) /\ new.list[i] = c.list[i - 1]
      /\ \A i \in 1 .. Len(c.list) : new.list[i + 1] = c.list[i]
  BY <1>1, Pushed
<1>3. 1 \in 1 .. Len(new.list)
  BY <1>1, <1>2
<1>4. KeysOf(new.list) = D
  <2>1. ASSUME NEW k \in KeysOf(new.list)
        PROVE  k \in D
    <3>1. PICK i \in 1 .. Len(new.list) : k = new.list[i].key
      BY DEF KeysOf
    <3> QED
      BY <1>2, <3>1 DEF KeysOf
  <2>2. ASSUME NEW k \in KeysOf(c.list)
        PROVE  k \in KeysOf(new.list)
    <3>1. PICK i \in 1 .. Len(c.list) : k = c.list[i].key
      BY DEF KeysOf
    <3>2. i + 1 \in 1 .. Len(new.list) /\ new.list[i + 1] = c.list[i]
      BY <1>1, <1>2
    <3> QED
      BY <3>1, <3>2 DEF KeysOf
  <2>3. key \in KeysOf(new.list)
    BY <1>2, <1>3 DEF KeysOf
  <2> QED
    BY <2>1, <2>2, <2>3
<1>5. StoreOf(new)[key] = Entry(elem)
  BY <1>2, <1>3, StoreShape
<1>6. ASSUME NEW x \in KeysOf(c.list)
      PROVE  StoreOf(new)[x] = StoreOf(c)[x]
  <2>1. PICK i \in 1 .. Len(c.list) : x = c.list[i].key
    BY DEF KeysOf
  <2>2. i + 1 \in 1 .. Len(new.list) /\ new.list[i + 1] = c.list[i]
    BY <1>1, <1>2
  <2>3. StoreOf(new)[x] = Entry(new.list[i + 1])
    BY <2>1, <2>2, StoreShape
  <2>4. StoreOf(c)[x] = Entry(c.list[i])
    BY <2>1, StoreShape
  <2> QED
    BY <2>2, <2>3, <2>4
<1> QED
  BY <1>4, <1>5, <1>6

\* A list in which each key is met once has as many keys as elements.
LEMMA KeysCounted ==
  ASSUME NEW list \in Lists, Distinct(list)
  PROVE  Cardinality(KeysOf(list)) = Len(list)
<1>1. Len(list) \in Nat
  BY ListShape
<1> DEFINE S == 1 .. Len(list)
           f == [i \in S |-> list[i].key]
<1>2. IsFiniteSet(S) /\ Cardinality(S) = Len(list)
  BY <1>1, FS_Interval
<1>3. f \in [S -> KeysOf(list)] /\ \A k \in KeysOf(list) : \E i \in S : f[i] = k
  BY DEF KeysOf
<1>4. \A i, j \in S : f[i] = f[j] => i = j
  BY DEF Distinct
<1> HIDE DEF f, S
<1>5. f \in Bijection(S, KeysOf(list))
  BY <1>3, <1>4 DEF Bijection, Injection, Surjection, IsInjective
<1>6. ExistsBijection(S, KeysOf(list))
  BY <1>5 DEF ExistsBijection
<1> QED
  BY <1>2, <1>6, FS_Bijection

-----------------------------------------------------------------------------
(* While memory lasts, every step is a step of the store.                  *)

\* The store as it is where memory lasts.
Steady == INSTANCE Store WITH store <- Stored

\* The cache, seen by what it stands for.
LEMMA StoredIs ==
  /\ the_cache # NULL => Stored = StoreOf(the_cache)
  /\ the_cache' # NULL => Stored' = StoreOf(the_cache')
BY DEF Stored, StoreOf, Entry

\* A put with memory: the element is moved to the front, or a new one pushed
\* once there is room.
LEMMA PutShape ==
  ASSUME ~scarce, Inv, Lasts, NEW key \in Keys, NEW elem \in Elem,
         elem.key = key, elem.val # NULL, elem.creation_time = now,
         cache_put(key, elem)
  PROVE  \/ \E i \in 1 .. Len(the_cache.list) :
              /\ the_cache.list[i].key = key
              /\ the_cache'.list = <<elem>> \o RemoveAt(the_cache.list, i)
         \/ /\ Absent(the_cache.list, key)
            /\ the_cache'.list = <<elem>> \o MakeRoom(the_cache, now').list
<1>1. /\ the_cache # NULL /\ the_cache \in Caches
      /\ the_cache.list \in Lists /\ the_cache.size \in Int
  BY DEF cache_put, Inv, Sound, Caches, Lists
<1>2. PICK update \in Updates(the_cache, key, elem) :
        the_cache' \in IF update.n > 0 THEN {update.cache}
                       ELSE Insert(update.cache, elem, now')
  BY DEF cache_put
<1>3. CASE cache_force_get_elem(the_cache, key) = 0
  <2>1. Absent(the_cache.list, key)
    BY <1>1, <1>3, Lookup DEF Absent
  <2>2. update = [cache |-> the_cache, n |-> 0]
    BY <1>3 DEF Updates
  <2>3. the_cache' \in Insert(the_cache, elem, now')
    BY <1>2, <2>2
  <2>4. the_cache' = cache_force_push_front(MakeRoom(the_cache, now'), elem)
    BY <2>3 DEF Insert, cache_elem_new
  <2>5. elem # NULL
    BY CacheAssumption
  <2>6. the_cache'.list = <<elem>> \o MakeRoom(the_cache, now').list
    BY <2>4, <2>5 DEF cache_force_push_front
  <2> QED
    BY <2>1, <2>6
<1>4. CASE cache_force_get_elem(the_cache, key) # 0
  <2>1. PICK i \in 1 .. Len(the_cache.list) :
          /\ cache_force_get_elem(the_cache, key) = i
          /\ the_cache.list[i].key = key
    BY <1>1, <1>4, Lookup
  <2> DEFINE new == <<elem>> \o RemoveAt(the_cache.list, i)
  <2>2. update = [cache |-> [the_cache EXCEPT !.list = new], n |-> 1]
    BY <1>4, <2>1 DEF Updates, cache_update
  <2> HIDE DEF new
  <2>3. the_cache' = [the_cache EXCEPT !.list = new]
    BY <1>2, <2>2
  <2>4. the_cache'.list = new
    BY <1>1, <2>3 DEF Caches
  <2> QED
    BY <2>1, <2>4 DEF new
<1> QED
  BY <1>3, <1>4

\* Which keys make room at time t: none if there is a place, all that are
\* stale, or the last if none is.
LEMMA RoomIsMade ==
  ASSUME NEW c \in Caches, NEW t \in Int,
         c.size = Len(c.list), c.size <= Capacity, Distinct(c.list),
         the_cache = c, the_cache # NULL
  PROVE  \E out \in Steady!Evictions(t) :
           KeysOf(MakeRoom(c, t).list) = KeysOf(c.list) \ out
<1> DEFINE list == c.list
           room == MakeRoom(c, t)
           stale == {k \in DOMAIN Stored : ~Steady!Fresh(k, t)}
<1>1. list \in Lists /\ Len(list) \in Nat /\ Capacity \in Nat \ {0}
  BY ListShape, CacheAssumption DEF Caches, Lists
<1>2. DOMAIN Stored = KeysOf(list)
  BY StoredIs, StoreShape
<1>3. ASSUME NEW i \in 1 .. Len(list)
      PROVE  Steady!Fresh(list[i].key, t) <=> Fresh(list[i], t)
  <2>1. list[i] \in Elem
    BY <1>1, ListShape
  <2>2. Stored[list[i].key] = Entry(list[i])
    BY StoredIs, StoreShape
  <2>3. list[i].creation_time \in Int /\ list[i].max_age \in Int
    BY <2>1, ElemTimes
  <2>4. /\ Stored[list[i].key].creation_time = list[i].creation_time
        /\ Stored[list[i].key].max_age = list[i].max_age
    BY <2>2 DEF Entry
  <2> QED
    BY <2>3, <2>4
       DEF Steady!Fresh, Fresh, cache_elem_is_stale, cache_elem_age
<1>4. Cardinality(DOMAIN Stored) = Len(list)
  BY <1>1, <1>2, KeysCounted
<1>5. Steady!Cardinality(DOMAIN Stored) = Cardinality(DOMAIN Stored)
  BY DEF Steady!Cardinality, Cardinality, Steady!IsFiniteSet, IsFiniteSet
<1>6. Steady!Evictions(t) =
        IF Len(list) < Capacity THEN {{}}
        ELSE IF stale # {} THEN {stale} ELSE {{k} : k \in DOMAIN Stored}
  <2>1. Steady!Evictions(t) =
          IF Cardinality(DOMAIN Stored) < Capacity THEN {{}}
          ELSE IF stale # {} THEN {stale} ELSE {{k} : k \in DOMAIN Stored}
    BY <1>5, Zenon DEF Steady!Evictions
  <2> QED
    BY <1>4, <2>1, Zenon
<1>7. /\ room \in Caches
      /\ \/ c.size # Capacity /\ room = c
         \/ /\ c.size = Capacity
            /\ \A j \in 1 .. Len(list) : Fresh(list[j], t)
            /\ room.list = Front(list)
         \/ /\ c.size = Capacity
            /\ \E j \in 1 .. Len(list) : ~Fresh(list[j], t)
            /\ room = cache_remove_all_stale(c, t)
  BY MadeRoom
<1> HIDE DEF room, stale
<1>8. CASE c.size # Capacity /\ room = c
  <2>1. Len(list) < Capacity
    BY <1>1, <1>8
  <2>2. {} \in Steady!Evictions(t)
    BY <1>6, <2>1
  <2> QED
    BY <1>8, <2>2 DEF room
<1>9. CASE /\ c.size = Capacity
           /\ \A j \in 1 .. Len(list) : Fresh(list[j], t)
           /\ room.list = Front(list)
  <2> DEFINE last == list[Len(list)].key
  <2>1. Len(list) > 0 /\ Len(list) \in 1 .. Len(list) /\ ~(Len(list) < Capacity)
    BY <1>1, <1>9
  <2>2. stale = {}
    BY <1>2, <1>3, <1>9 DEF stale, KeysOf
  <2>3. last \in DOMAIN Stored
    BY <1>2, <2>1 DEF KeysOf
  <2>4. {last} \in Steady!Evictions(t)
    BY <1>6, <2>1, <2>2, <2>3
  <2>5. /\ Len(room.list) = Len(list) - 1
        /\ \A j \in 1 .. Len(list) - 1 : room.list[j] = list[j]
    BY <1>1, <1>9, <2>1, Popped
  <2>6. ASSUME NEW k \in KeysOf(room.list)
        PROVE  k \in KeysOf(list) /\ k # last
    <3>1. PICK i \in 1 .. Len(room.list) : k = room.list[i].key
      BY DEF KeysOf
    <3>2. i \in 1 .. Len(list) /\ i # Len(list) /\ room.list[i] = list[i]
      BY <1>1, <2>5
    <3> QED
      BY <2>1, <3>1, <3>2 DEF KeysOf, Distinct
  <2>7. ASSUME NEW k \in KeysOf(list), k # last
        PROVE  k \in KeysOf(room.list)
    <3>1. PICK i \in 1 .. Len(list) : k = list[i].key
      BY DEF KeysOf
    <3>2. i # Len(list)
      BY <2>7, <3>1
    <3>3. i \in 1 .. Len(room.list) /\ room.list[i] = list[i]
      BY <1>1, <2>5, <3>2
    <3> QED
      BY <3>1, <3>3 DEF KeysOf
  <2> HIDE DEF last
  <2>8. KeysOf(room.list) = KeysOf(list) \ {last}
    BY <2>6, <2>7
  <2> QED
    BY <2>4, <2>8 DEF room
<1>10. CASE /\ c.size = Capacity
           /\ \E j \in 1 .. Len(list) : ~Fresh(list[j], t)
           /\ room = cache_remove_all_stale(c, t)
  <2> DEFINE fresh == cache_remove_all_stale(c, t)
  <2>1. \E place :
          /\ Places(place, fresh.list, list)
          /\ \A i \in 1 .. Len(fresh.list) : Fresh(list[place[i]], t)
          /\ \A j \in 1 .. Len(list) :
               Fresh(list[j], t) =>
                 \E i \in 1 .. Len(fresh.list) : place[i] = j
    BY Refreshed
  <2> HIDE DEF fresh
  <2>2. PICK place :
          /\ Places(place, room.list, list)
          /\ \A i \in 1 .. Len(room.list) : Fresh(list[place[i]], t)
          /\ \A j \in 1 .. Len(list) :
               Fresh(list[j], t) =>
                 \E i \in 1 .. Len(room.list) : place[i] = j
    <3>1. room = fresh
      BY <1>10 DEF fresh
    <3> QED
      BY <2>1, <3>1
  <2>3. \A i \in 1 .. Len(room.list) :
          place[i] \in 1 .. Len(list) /\ room.list[i] = list[place[i]]
    BY <2>2 DEF Places
  <2>4. ASSUME NEW i \in 1 .. Len(list)
        PROVE  list[i].key \in stale <=> ~Fresh(list[i], t)
    <3>1. list[i].key \in DOMAIN Stored
      BY <1>2 DEF KeysOf
    <3> QED
      BY <1>3, <3>1 DEF stale
  <2>5. stale # {}
    BY <1>10, <2>4
  <2>6. stale \in Steady!Evictions(t)
    BY <1>1, <1>6, <1>10, <2>5
  <2>7. ASSUME NEW k \in KeysOf(room.list)
        PROVE  k \in KeysOf(list) \ stale
    <3>1. PICK i \in 1 .. Len(room.list) : k = room.list[i].key
      BY DEF KeysOf
    <3> QED
      BY <2>2, <2>3, <2>4, <3>1 DEF KeysOf
  <2>8. ASSUME NEW k \in KeysOf(list) \ stale
        PROVE  k \in KeysOf(room.list)
    <3>1. PICK j \in 1 .. Len(list) : k = list[j].key
      BY DEF KeysOf
    <3>2. PICK i \in 1 .. Len(room.list) : place[i] = j
      BY <2>2, <2>4, <3>1
    <3> QED
      BY <2>3, <3>1, <3>2 DEF KeysOf
  <2>9. KeysOf(room.list) = KeysOf(list) \ stale
    BY <2>7, <2>8
  <2> QED
    BY <2>6, <2>9 DEF room
<1> QED
  BY <1>7, <1>8, <1>9, <1>10

\* A put is a put of the store.
LEMMA PutStores ==
  ASSUME ~scarce, scarce' = scarce, Inv, Lasts,
         NEW key \in Keys, NEW val \in Vals, NEW max_age \in MaxAges,
         cache_put(key, NewElem(key, val, max_age))
  PROVE  Steady!Put(key, val, max_age)
<1>1. PICK elem : elem = NewElem(key, val, max_age)
  OBVIOUS
<1>2. /\ elem \in Elem /\ elem.key = key /\ elem.val = val /\ elem.val # NULL
      /\ elem.creation_time = now /\ elem.max_age = max_age
  BY <1>1, NewTyped
<1>3. cache_put(key, elem)
  BY <1>1
<1>4. PICK c : c = the_cache
  OBVIOUS
<1>5. PICK next : next = the_cache'
  OBVIOUS
<1>6. /\ the_cache # NULL /\ c \in Caches /\ c.list \in Lists
      /\ c.size = Len(c.list) /\ c.size <= Capacity /\ Distinct(c.list)
  BY <1>3, <1>4 DEF cache_put, Inv, Lasts, Sound, Single, Caches, Lists
<1>7. Inv' /\ Lasts'
  BY <1>2, <1>3, PutInv
<1>8. /\ ClockRuns /\ reply' = [op |-> "put", key |-> key, n |-> 1]
      /\ reply'.op = "put"
  BY <1>3 DEF cache_put, Given
<1>9. Running'
  BY <1>8 DEF Running
<1>10. /\ the_cache' # NULL /\ next \in Caches /\ next.list \in Lists
       /\ Distinct(next.list)
  BY <1>5, <1>7, <1>9 DEF Inv, Lasts, Sound, Single, Caches, Lists
<1>11. /\ Stored = StoreOf(c) /\ DOMAIN Stored = KeysOf(c.list)
       /\ Stored' = StoreOf(next)
  BY <1>4, <1>5, <1>6, <1>10, StoredIs, StoreShape
<1>12. /\ now \in Int /\ now' \in Int /\ now' >= now
  BY <1>8, Later
<1> DEFINE new == [val |-> val, creation_time |-> now, max_age |-> max_age]
<1>13. Entry(elem) = new
  BY <1>2 DEF Entry
<1>14. \E out \in IF key \in DOMAIN Stored THEN {{}}
                  ELSE Steady!Evictions(now'),
          part \in Caches :
         /\ next.list = <<elem>> \o part.list
         /\ PartOf(part.list, c.list)
         /\ KeysOf(part.list) \cup {key} = (DOMAIN Stored \ out) \cup {key}
  <2>1. CASE \E i \in 1 .. Len(c.list) :
               /\ c.list[i].key = key
               /\ next.list = <<elem>> \o RemoveAt(c.list, i)
    <3>1. PICK i \in 1 .. Len(c.list) :
            /\ c.list[i].key = key
            /\ next.list = <<elem>> \o RemoveAt(c.list, i)
      BY <2>1
    <3> DEFINE rest == RemoveAt(c.list, i)
               part == [list |-> rest, size |-> 0]
    <3>2. /\ rest \in Lists /\ Len(rest) = Len(c.list) - 1
          /\ PartOf(rest, c.list)
      BY <1>6, Removed
    <3>3. key \in DOMAIN Stored
      BY <1>11, <3>1 DEF KeysOf
    <3>4. next.list = <<elem>> \o rest
      BY <3>1
    <3> HIDE DEF rest
    <3>5. part \in Caches /\ part.list = rest
      BY <3>2 DEF Caches, Lists
    <3>6. KeysOf(rest) = KeysOf(c.list) \ {key} /\ key \in KeysOf(c.list)
      BY <1>6, <1>11, <3>1, <3>3, RemovedKeys DEF rest
    <3>7. KeysOf(rest) \cup {key} = (DOMAIN Stored \ {}) \cup {key}
      BY <1>11, <3>6
    <3> HIDE DEF part
    <3> QED
      BY <3>2, <3>3, <3>4, <3>5, <3>7
  <2>2. CASE /\ Absent(c.list, key)
             /\ next.list = <<elem>> \o MakeRoom(c, now').list
    <3> DEFINE room == MakeRoom(c, now')
    <3>1. room \in Caches /\ PartOf(room.list, c.list)
      BY <1>6, MadeRoom
    <3>2. \E out \in Steady!Evictions(now') :
            KeysOf(room.list) = KeysOf(c.list) \ out
      BY <1>4, <1>6, <1>12, RoomIsMade
    <3>3. key \notin DOMAIN Stored
      BY <1>11, <2>2 DEF Absent, KeysOf
    <3> HIDE DEF room
    <3> QED
      BY <1>11, <2>2, <3>1, <3>2, <3>3 DEF room
  <2> QED
    BY <1>2, <1>3, <1>4, <1>5, <2>1, <2>2, PutShape
<1>15. PICK out \in IF key \in DOMAIN Stored THEN {{}}
                    ELSE Steady!Evictions(now'),
            part \in Caches :
         /\ next.list = <<elem>> \o part.list
         /\ PartOf(part.list, c.list)
         /\ KeysOf(part.list) \cup {key} = (DOMAIN Stored \ out) \cup {key}
  BY <1>14
<1>16. Distinct(part.list)
  BY <1>6, <1>15, PartKeeps DEF Caches, Lists
<1> DEFINE D == (DOMAIN Stored \ out) \cup {key}
<1>17. Stored' = [x \in D |-> IF x = key THEN new ELSE Stored[x]]
  <2>1. /\ KeysOf(next.list) = D
        /\ StoreOf(next)[key] = Entry(elem)
        /\ \A x \in KeysOf(part.list) : StoreOf(next)[x] = StoreOf(part)[x]
    BY <1>2, <1>10, <1>15, <1>16, PushStore
  <2>2. \A x \in D : x # key => StoreOf(part)[x] = Stored[x]
    BY <1>6, <1>11, <1>15, <1>16, PartStore
  <2>3. \A x \in D : x # key => x \in KeysOf(part.list)
    BY <1>15
  <2> HIDE DEF D, new
  <2>4. \A x \in D : StoreOf(next)[x] = IF x = key THEN new ELSE Stored[x]
    BY <1>13, <2>1, <2>2, <2>3
  <2>5. Stored' = [x \in D |-> StoreOf(next)[x]]
    BY <1>10, <1>11, <2>1, StoreShape
  <2> QED
    BY <2>4, <2>5
<1> QED
  BY <1>8, <1>12, <1>15, <1>17 DEF Steady!Put

\* A get that finds nothing, or something stale, is a miss of the store.
LEMMA MissStores ==
  ASSUME ~scarce, scarce' = scarce, Inv, Lasts, NEW key \in Keys, GetMiss(key)
  PROVE  Steady!Miss(key)
<1>1. PICK c : c = the_cache
  OBVIOUS
<1>2. PICK next : next = the_cache'
  OBVIOUS
<1>3. /\ ClockRuns /\ Running
      /\ reply' = [op |-> "get", key |-> key, n |-> 0] /\ reply'.op = "get"
  BY DEF GetMiss
<1>4. now \in Int /\ now' \in Int /\ now' >= now
  BY <1>3, Later
<1>5. /\ the_cache # NULL /\ c \in Caches /\ c.list \in Lists
      /\ Distinct(c.list)
  BY <1>1, <1>3 DEF Inv, Lasts, Sound, Single, Caches, Lists
<1>6. Inv' /\ Lasts' /\ Running'
  BY <1>3, MissInv DEF Running
<1>7. the_cache' # NULL /\ next \in Caches /\ Distinct(next.list)
  BY <1>2, <1>6 DEF Inv, Lasts, Sound, Single
<1>8. /\ Stored = StoreOf(c) /\ DOMAIN Stored = KeysOf(c.list)
      /\ Stored' = StoreOf(next)
      /\ StoreOf(next) = [k \in KeysOf(next.list) |-> StoreOf(next)[k]]
      /\ Stored = [k \in DOMAIN Stored |-> Stored[k]]
  BY <1>1, <1>2, <1>5, <1>7, StoredIs, StoreShape
<1>9. CASE cache_force_get_elem(c, key) = 0
  <2>1. next = c
    BY <1>1, <1>2, <1>5, <1>9 DEF GetMiss
  <2>2. key \notin DOMAIN Stored
    BY <1>5, <1>8, <1>9, Lookup DEF KeysOf
  <2>3. Stored' = Stored /\ DOMAIN Stored \ {key} = DOMAIN Stored
    BY <1>8, <2>1, <2>2
  <2>4. Stored' = Steady!Keep(DOMAIN Stored \ {key})
    BY <1>8, <2>3 DEF Steady!Keep
  <2> QED
    BY <1>3, <1>4, <2>2, <2>4 DEF Steady!Miss
<1>10. CASE cache_force_get_elem(c, key) # 0
  <2>1. PICK i \in 1 .. Len(c.list) :
          cache_force_get_elem(c, key) = i /\ c.list[i].key = key
    BY <1>5, <1>10, Lookup
  <2>2. /\ cache_elem_is_stale(c.list[i], now)
        /\ next = cache_force_remove_elem(c, i)
    BY <1>1, <1>2, <1>5, <1>10, <2>1 DEF GetMiss
  <2>3. next.list = RemoveAt(c.list, i)
    BY <2>2 DEF cache_force_remove_elem
  <2> DEFINE rest == RemoveAt(c.list, i)
  <2>4. /\ rest \in Lists /\ Len(rest) = Len(c.list) - 1
        /\ PartOf(rest, c.list)
        /\ \A j \in 1 .. Len(c.list) - 1 :
             rest[j] = IF j < i THEN c.list[j] ELSE c.list[j + 1]
    BY <1>5, Removed
  <2>5. KeysOf(rest) = KeysOf(c.list) \ {key}
    BY <1>5, <2>1, RemovedKeys
  <2> HIDE DEF rest
  <2>6. ~Steady!Fresh(key, now)
    <3>1. Stored[key] = Entry(c.list[i])
      BY <1>5, <1>8, <2>1, StoreShape
    <3>2. /\ Stored[key].creation_time = c.list[i].creation_time
          /\ Stored[key].max_age = c.list[i].max_age
      BY <3>1 DEF Entry
    <3>3. c.list[i].creation_time \in Int /\ c.list[i].max_age \in Int
      BY <1>5, ListShape, ElemTimes
    <3> QED
      BY <1>4, <2>2, <3>2, <3>3
         DEF Steady!Fresh, cache_elem_is_stale, cache_elem_age
  <2>7. \A k \in KeysOf(rest) : StoreOf(next)[k] = Stored[k]
    BY <1>5, <1>7, <1>8, <2>3, <2>4, PartStore DEF rest
  <2>8. /\ Stored' = [k \in KeysOf(rest) |-> StoreOf(next)[k]]
        /\ KeysOf(rest) = DOMAIN Stored \ {key}
    BY <1>8, <2>3, <2>5 DEF rest
  <2>9. Stored' = [k \in KeysOf(rest) |-> Stored[k]]
    BY <2>7, <2>8
  <2>10. Stored' = Steady!Keep(DOMAIN Stored \ {key})
    BY <2>8, <2>9 DEF Steady!Keep
  <2> QED
    BY <1>3, <1>4, <2>6, <2>10 DEF Steady!Miss
<1> QED
  BY <1>9, <1>10

\* A get that answers is a hit of the store.
LEMMA HitStores ==
  ASSUME ~scarce, scarce' = scarce, Inv, Lasts, NEW key \in Keys, GetHit(key)
  PROVE  Steady!Hit(key)
<1>1. PICK c : c = the_cache
  OBVIOUS
<1>2. the_cache # NULL /\ ClockRuns /\ the_cache' = the_cache
  BY DEF GetHit
<1>3. /\ c \in Caches /\ c.list \in Lists /\ Distinct(c.list)
  BY <1>1, <1>2 DEF Inv, Lasts, Sound, Single, Caches, Lists
<1>4. PICK i \in 1 .. Len(c.list) :
        /\ c.list[i] \in Elem /\ c.list[i].key = key
        /\ ~cache_elem_is_stale(c.list[i], now)
        /\ reply' = [op |-> "get", key |-> key, n |-> 1,
                     val |-> c.list[i].val,
                     age |-> cache_elem_age(c.list[i], now')]
  BY <1>1, HitFinds
<1>5. now \in Int /\ now' \in Int /\ now' >= now
  BY <1>2, Later
<1>6. /\ Stored = StoreOf(c) /\ DOMAIN Stored = KeysOf(c.list)
      /\ Stored[key] = Entry(c.list[i])
  BY <1>1, <1>2, <1>3, <1>4, StoredIs, StoreShape
<1>7. /\ Stored[key].creation_time = c.list[i].creation_time
      /\ Stored[key].max_age = c.list[i].max_age
      /\ Stored[key].val = c.list[i].val
  BY <1>6 DEF Entry
<1>8. c.list[i].creation_time \in Int /\ c.list[i].max_age \in Int
  BY <1>4, ElemTimes
<1>9. Steady!Fresh(key, now)
  BY <1>4, <1>5, <1>7, <1>8
     DEF Steady!Fresh, cache_elem_is_stale, cache_elem_age
<1>10. key \in DOMAIN Stored
  BY <1>4, <1>6 DEF KeysOf
<1>11. Stored' = Stored
  BY <1>2 DEF Stored
<1>12. reply' = [op |-> "get", key |-> key, n |-> 1, val |-> Stored[key].val,
                 age |-> now' - Stored[key].creation_time]
  BY <1>4, <1>7 DEF cache_elem_age
<1> QED
  BY <1>5, <1>9, <1>10, <1>11, <1>12 DEF Steady!Hit

\* While memory lasts, no call dereferences NULL.
LEMMA NoCrash ==
  ASSUME ~scarce, Inv, Lasts, NEW key \in Keys
  PROVE  ~CallCrashes(key)
<1> SUFFICES ASSUME CallCrashes(key)
             PROVE  FALSE
  OBVIOUS
<1>1. /\ the_cache # NULL /\ the_cache \in Caches
      /\ the_cache.list \in Lists /\ Whole(the_cache.list)
  BY DEF CallCrashes, Inv, Lasts, Sound, Single, Caches, Lists
<1>2. DOMAIN the_cache.list = 1 .. Len(the_cache.list)
  BY <1>1, ListShape
<1>3. ~LookupCrashes(the_cache, key)
  BY <1>1, <1>2 DEF LookupCrashes, Whole
<1>4. LET i == cache_force_get_elem(the_cache, key)
      IN  i # 0 /\ the_cache.list[i].val = NULL
  BY <1>3 DEF CallCrashes
<1>5. PICK i \in 1 .. Len(the_cache.list) : the_cache.list[i].val = NULL
  BY <1>1, <1>4, Lookup
<1> QED
  BY <1>1, <1>5 DEF Whole

\* Every step is a step of the store, or none that it sees.
LEMMA StepStores ==
  ASSUME ~scarce, Inv, Lasts, [Next]_vars
  PROVE  [Steady!Next]_(Steady!vars)
<1>0. scarce' = scarce
  BY StepInv
<1>1. ASSUME NEW key \in Keys, NEW val \in Vals, NEW max_age \in MaxAges,
             LET elem == NewElem(key, val, max_age)
             IN  cache_put(key, elem) \/ PutNowhere(key, elem)
      PROVE  Steady!Next
  <2>1. ~PutNowhere(key, NewElem(key, val, max_age))
    BY DEF PutNowhere, Lasts
  <2>2. Steady!Put(key, val, max_age)
    BY <1>0, <1>1, <2>1, PutStores
  <2> QED
    BY <2>2 DEF Steady!Next
<1>2. ASSUME NEW key \in Keys, GetMiss(key) \/ GetHit(key)
      PROVE  Steady!Next
  BY <1>0, <1>2, MissStores, HitStores DEF Steady!Next
<1>3. CASE cache_clear
  <2>1. /\ the_cache' = NULL /\ reply' = [op |-> "exit"] /\ now' = now
    BY <1>3 DEF cache_clear
  <2>2. Stored' = [k \in {} |-> k]
    BY <2>1 DEF Stored
  <2>3. Stored' = Steady!Keep({})
    BY <2>2 DEF Steady!Keep
  <2> QED
    BY <2>1, <2>3 DEF Steady!Next, Steady!Close
<1>4. CASE Tick
  <2>1. now \in Int /\ now' = now + 1 /\ the_cache' = the_cache
        /\ reply' = reply
    BY <1>4, CacheAssumption DEF Tick, Inv, TypeOK
  <2>2. Stored' = Stored
    BY <2>1 DEF Stored
  <2> QED
    BY <2>1, <2>2 DEF Steady!Next, Steady!Tick
<1>5. CASE UNCHANGED vars
  <2>1. the_cache' = the_cache /\ now' = now /\ reply' = reply
    BY <1>5 DEF vars
  <2>2. Stored' = Stored
    BY <2>1 DEF Stored
  <2> QED
    BY <2>1, <2>2 DEF Steady!vars
<1>6. ~Fail
  BY NoCrash DEF Fail
<1> QED
  BY <1>1, <1>2, <1>3, <1>4, <1>5, <1>6 DEF Next, Put, Get, Halted

\* Where memory lasts, the store the cache promises to be is the steady one.
LEMMA SteadyStep ==
  ASSUME ~scarce, scarce' = scarce, [Steady!Next]_(Steady!vars)
  PROVE  [Abstract!Next]_(Abstract!vars)
<1>1. /\ Promised.store = Stored /\ Promised'.store = Stored'
      /\ Promised.now = now /\ Promised'.now = now'
      /\ Promised.reply = reply /\ Promised'.reply = reply'
  BY DEF Promised
<1>2. \A k, t : Abstract!Fresh(k, t) <=> Steady!Fresh(k, t)
  BY <1>1 DEF Abstract!Fresh, Steady!Fresh
<1>3. \A K : Abstract!Keep(K) = Steady!Keep(K)
  BY <1>1 DEF Abstract!Keep, Steady!Keep
<1>4. \A t : Abstract!Evictions(t) = Steady!Evictions(t)
  <2>1. \A S : Abstract!Cardinality(S) = Steady!Cardinality(S)
    BY DEF Abstract!Cardinality, Steady!Cardinality,
           Abstract!IsFiniteSet, Steady!IsFiniteSet
  <2> QED
    BY <1>1, <1>2, <2>1 DEF Abstract!Evictions, Steady!Evictions
<1>5. \A k, v, m : Steady!Put(k, v, m) => Abstract!Put(k, v, m)
  BY <1>1, <1>4 DEF Abstract!Put, Steady!Put
<1>6. \A k : Steady!Hit(k) => Abstract!Hit(k)
  BY <1>1, <1>2 DEF Abstract!Hit, Steady!Hit
<1>7. \A k : Steady!Miss(k) => Abstract!Miss(k)
  BY <1>1, <1>2, <1>3 DEF Abstract!Miss, Steady!Miss
<1>8. Steady!Tick => Abstract!Tick
  BY <1>1 DEF Abstract!Tick, Steady!Tick
<1>9. Steady!Close => Abstract!Close
  BY <1>1, <1>3 DEF Abstract!Close, Steady!Close
<1>10. UNCHANGED Steady!vars => UNCHANGED Abstract!vars
  BY <1>1 DEF Abstract!vars, Steady!vars
<1> QED
  BY <1>5, <1>6, <1>7, <1>8, <1>9, <1>10 DEF Abstract!Next, Steady!Next

\* An empty cache is an empty store.
LEMMA EmptyStore ==
  ASSUME Init, ~scarce
  PROVE  Stored = [k \in {} |-> k]
<1> DEFINE none == [list |-> <<>>, size |-> 0]
<1>1. the_cache = none /\ the_cache # NULL /\ the_cache \in Caches
  <2>1. the_cache = none
    BY DEF Init
  <2>2. the_cache # NULL
    BY InitInv DEF Lasts, Running, Init
  <2> QED
    BY <2>1, <2>2, InitInv DEF Inv, TypeOK
<1>2. Distinct(the_cache.list) /\ KeysOf(the_cache.list) = {}
  BY <1>1 DEF Distinct, KeysOf
<1>3. PICK c : c = the_cache
  OBVIOUS
<1>4. Stored = [k \in {} |-> StoreOf(c)[k]]
  BY <1>1, <1>2, <1>3, StoredIs, StoreShape
<1> QED
  BY <1>4

\* While memory lasts, the cache is the bounded store of Store.tla.
THEOREM Refinement == Spec => ImplementsStore
<1>1. Init => Abstract!Init
  <2> SUFFICES ASSUME Init
               PROVE  Abstract!Init
    OBVIOUS
  <2>1. CASE scarce
    BY <2>1 DEF Abstract!Init, Promised
  <2>2. CASE ~scarce
    BY <2>2, EmptyStore DEF Abstract!Init, Promised, Init
  <2> QED
    BY <2>1, <2>2
<1>2. /\ Inv /\ (~scarce => Lasts)
      /\ [Next]_vars
      => [Abstract!Next]_(Abstract!vars)
  <2> SUFFICES ASSUME Inv, ~scarce => Lasts, [Next]_vars
               PROVE  [Abstract!Next]_(Abstract!vars)
    OBVIOUS
  <2>1. scarce' = scarce
    BY StepInv
  <2>2. CASE scarce
    BY <2>1, <2>2 DEF Abstract!vars, Promised
  <2>3. CASE ~scarce
    BY <2>1, <2>3, StepStores, SteadyStep
  <2> QED
    BY <2>2, <2>3 DEF Inv, TypeOK
<1> QED
  BY <1>1, <1>2, Lasting, PTL DEF Spec, ImplementsStore, Abstract!Spec
=============================================================================
