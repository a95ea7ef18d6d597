-------------------------------- MODULE Cache --------------------------------
(***************************************************************************)
(* cache.c: the bounded response cache that handle_get_request reads and   *)
(* handle_server_response fills.  the_cache is a list of elements, front   *)
(* first (the doubly linked list between the two dummies), and the counter *)
(* the code keeps beside it.                                               *)
(*                                                                         *)
(* A call is one step: the program is one thread.  It reads the clock more *)
(* than once, so a second may pass inside a call.  Where memory is scarce,  *)
(* malloc and strdup may return NULL wherever the code calls them.         *)
(***************************************************************************)
EXTENDS Integers, SequencesExt

CONSTANTS
  Keys,         \* what requests ask for: hostname + url
  Vals,         \* responses
  MaxAges,      \* the max-age a response may come with
  Capacity,     \* capacity, CACHE_SIZE
  MaxTime,      \* bound: seconds the model runs for
  NULL

\* cache_elem and cache, with what a pointer may be NULL in.
Elem ==
  [key : Keys \cup {NULL}, val : Vals \cup {NULL},
   creation_time : 0 .. MaxTime, max_age : MaxAges]

Caches == [list : Seq(Elem), size : Int]

ASSUME CacheAssumption ==
  /\ Capacity \in Nat \ {0}
  /\ MaxAges \subseteq Int
  /\ MaxTime \in Nat
  /\ NULL \notin Keys \cup Vals
  /\ NULL \notin Elem /\ NULL \notin Caches

VARIABLES
  the_cache,  \* NULL, or the list and its size
  now,        \* time(NULL)
  reply,      \* what the last call returned, or how it ended the process
  latest,     \* history: the last response given to cache_put for each key
  scarce      \* whether the process runs where memory can run out

vars == <<the_cache, now, reply, latest, scarce>>

Running == reply.op \notin {"crash", "exit"}

-----------------------------------------------------------------------------
(* The operations.  A c is a value of the_cache other than NULL.           *)

\* Fault: the difference taken the wrong way round.
cache_elem_age_Swapped(elem, t) == elem.creation_time - t

cache_elem_age(elem, t) == t - elem.creation_time

\* Fault: an element lives for one second more.
cache_elem_is_stale_Late(elem, t) == cache_elem_age(elem, t) > elem.max_age

cache_elem_is_stale(elem, t) == cache_elem_age(elem, t) >= elem.max_age

\* Fault: the search ends before the last element.
cache_force_get_elem_SkipsLast(c, key) ==
  SelectInSeq(Front(c.list), LAMBDA elem : elem.key = key)

\* The place of the first element of this key; 0 if there is none.
cache_force_get_elem(c, key) ==
  SelectInSeq(c.list, LAMBDA elem : elem.key = key)

\* strcmp on the key of an element whose strdup failed, before a match.
LookupCrashes(c, key) ==
  LET i == cache_force_get_elem(c, key)
  IN  \E j \in DOMAIN c.list :
        c.list[j].key = NULL /\ (i = 0 \/ j < i)

\* Fault: the size is not counted down.
cache_force_remove_elem_Uncounted(c, i) == [c EXCEPT !.list = RemoveAt(@, i)]

cache_force_remove_elem(c, i) ==
  [list |-> RemoveAt(c.list, i), size |-> c.size - 1]

\* What the walk along the list has kept before each place it comes to.
Kept(list, t) ==
  LET kept[n \in 0 .. Len(list)] ==
        IF n = 0 THEN <<>>
        ELSE IF cache_elem_is_stale(list[n], t) THEN kept[n - 1]
        ELSE Append(kept[n - 1], list[n])
  IN  kept

cache_remove_all_stale(c, t) ==
  LET kept == Kept(c.list, t)[Len(c.list)]
  IN  [list |-> kept, size |-> c.size - (Len(c.list) - Len(kept))]

cache_pop_back(c) ==
  IF c.size <= 0 THEN c ELSE [list |-> Front(c.list), size |-> c.size - 1]

\* Fault: an element that could not be allocated is counted.
cache_force_push_front_CountsNull(c, elem) ==
  [list |-> IF elem = NULL THEN c.list ELSE <<elem>> \o c.list,
   size |-> c.size + 1]

cache_force_push_front(c, elem) ==
  IF elem = NULL THEN c
  ELSE [list |-> <<elem>> \o c.list, size |-> c.size + 1]

\* Fault: the old value is kept when there is no memory for the new one.
cache_update_KeepsOld(c, i, elem) ==
  {[cache |-> [c EXCEPT !.list = <<elem>> \o RemoveAt(@, i)], n |-> 1]}
  \cup IF scarce THEN {[cache |-> c, n |-> 0]} ELSE {}

\* cache_update of the element at place i.  When malloc fails its old value
\* is already freed, and val_len and creation_time are not changed.
cache_update(c, i, elem) ==
  {[cache |-> [c EXCEPT !.list = <<elem>> \o RemoveAt(@, i)], n |-> 1]}
  \cup IF scarce
       THEN {[cache |-> [c EXCEPT !.list[i].val = NULL], n |-> 0]} ELSE {}

\* cache_elem_new: strdup of the key is not checked.
cache_elem_new(elem) ==
  {elem} \cup IF scarce THEN {NULL, [elem EXCEPT !.key = NULL]} ELSE {}

\* Fault: an element is thrown out for a new one before the cache is full.
MakeRoom_Early(c, t) ==
  LET fresh == cache_remove_all_stale(c, t)
  IN  IF c.size < Capacity - 1 THEN c
      ELSE IF fresh = c THEN cache_pop_back(c) ELSE fresh

\* The part of cache_put that makes room for a new element.
MakeRoom(c, t) ==
  LET fresh == cache_remove_all_stale(c, t)
  IN  IF c.size # Capacity THEN c
      ELSE IF fresh = c THEN cache_pop_back(c) ELSE fresh

\* What cache_put leaves behind.
Insert(c, elem, t) ==
  {cache_force_push_front(MakeRoom(c, t), new) : new \in cache_elem_new(elem)}

Updates(c, key, elem) ==
  LET i == cache_force_get_elem(c, key)
  IN  IF i = 0 THEN {[cache |-> c, n |-> 0]} ELSE cache_update(c, i, elem)

-----------------------------------------------------------------------------
\* init_proxy ignores the result of cache_init: without memory the proxy
\* runs with no cache.
Init ==
  /\ scarce \in BOOLEAN
  /\ the_cache \in {[list |-> <<>>, size |-> 0]}
                     \cup IF scarce THEN {NULL} ELSE {}
  /\ now = 0
  /\ reply = [op |-> "none"]
  /\ latest = [key \in Keys |-> NULL]

\* A second may pass while a call runs.
ClockRuns == now' \in {now, now + 1} /\ now' <= MaxTime

\* What cache_put is given, whether or not memory lets it keep it.
Given(key, elem) ==
  /\ latest' = [latest EXCEPT ![key] = elem]
  /\ ClockRuns

NewElem(key, val, max_age) ==
  [key |-> key, val |-> val, creation_time |-> now, max_age |-> max_age]

\* cache_put with no cache.
PutNowhere(key, elem) ==
  /\ Running /\ the_cache = NULL /\ Given(key, elem)
  /\ reply' = [op |-> "put", key |-> key, n |-> 0]
  /\ UNCHANGED the_cache

\* Once the arguments are valid, cache_put says 1 whatever happened.
cache_put(key, elem) ==
  /\ Running /\ the_cache # NULL /\ ~LookupCrashes(the_cache, key)
  /\ Given(key, elem)
  /\ \E update \in Updates(the_cache, key, elem) :
       the_cache' \in IF update.n > 0 THEN {update.cache}
                      ELSE Insert(update.cache, elem, now')
  /\ reply' = [op |-> "put", key |-> key, n |-> 1]

\* cache_get finds nothing, or something stale, which it removes.
GetMiss(key) ==
  /\ Running /\ ClockRuns
  /\ \/ the_cache = NULL /\ UNCHANGED the_cache
     \/ /\ the_cache # NULL /\ ~LookupCrashes(the_cache, key)
        /\ LET i == cache_force_get_elem(the_cache, key)
           IN  \/ i = 0 /\ UNCHANGED the_cache
               \/ /\ i # 0 /\ cache_elem_is_stale(the_cache.list[i], now)
                  /\ the_cache' = cache_force_remove_elem(the_cache, i)
  /\ reply' = [op |-> "get", key |-> key, n |-> 0]
  /\ UNCHANGED latest

\* cache_get copies a fresh value out, and reads the clock again for its age.
GetHit(key) ==
  /\ Running /\ the_cache # NULL /\ ~LookupCrashes(the_cache, key)
  /\ ClockRuns
  /\ LET i == cache_force_get_elem(the_cache, key)
     IN  /\ i # 0 /\ ~cache_elem_is_stale(the_cache.list[i], now)
         /\ the_cache.list[i].val # NULL
         /\ reply' = [op |-> "get", key |-> key, n |-> 1,
                      val |-> the_cache.list[i].val,
                      age |-> cache_elem_age(the_cache.list[i], now')]
  /\ UNCHANGED <<the_cache, latest>>

\* The calls that memory running out turns into a NULL dereference: strcmp
\* on an element without a key, memcpy from an element without a value or to
\* a copy that could not be allocated.
CallCrashes(key) ==
  /\ Running /\ the_cache # NULL
  /\ \/ LookupCrashes(the_cache, key)
     \/ LET i == cache_force_get_elem(the_cache, key)
        IN  /\ i # 0 /\ ~cache_elem_is_stale(the_cache.list[i], now)
            /\ the_cache.list[i].val = NULL \/ scarce
  /\ reply' = [op |-> "crash"] /\ ClockRuns
  /\ UNCHANGED <<the_cache, latest>>

\* clear_proxy, on the way out of the process.
cache_clear ==
  /\ Running
  /\ the_cache' = NULL /\ reply' = [op |-> "exit"]
  /\ UNCHANGED <<now, latest>>

Tick ==
  /\ Running /\ now < MaxTime
  /\ now' = now + 1 /\ UNCHANGED <<the_cache, reply, latest>>

Halted == ~Running /\ UNCHANGED vars

Put ==
  \E key \in Keys, val \in Vals, max_age \in MaxAges :
    LET elem == NewElem(key, val, max_age)
    IN  cache_put(key, elem) \/ PutNowhere(key, elem)

Get == \E key \in Keys : GetMiss(key) \/ GetHit(key)

Fail == \E key \in Keys : CallCrashes(key)

Next ==
  /\ Put \/ Get \/ Fail \/ cache_clear \/ Tick \/ Halted
  /\ UNCHANGED scarce

Spec == Init /\ [][Next]_vars

-----------------------------------------------------------------------------
(* Properties.                                                             *)

Reply ==
  [op : {"none", "crash", "exit"}]
  \cup [op : {"get", "put"}, key : Keys, n : {0, 1}]
  \cup [op : {"get"}, key : Keys, n : {1}, val : Vals, age : 0 .. MaxTime]

\* Type correctness.
TypeOK ==
  /\ the_cache = NULL \/ the_cache \in Caches
  /\ now \in 0 .. MaxTime
  /\ reply \in Reply
  /\ latest \in [Keys -> Elem \cup {NULL}]
  /\ scarce \in BOOLEAN

\* The counter cache_put compares with the capacity is the length of the
\* list, through every update, stale removal and eviction, and it never
\* passes the capacity: the equality test of cache_put would then never make
\* room again and the cache would grow without end.
SizeCounts ==
  the_cache # NULL =>
    the_cache.size = Len(the_cache.list) /\ the_cache.size <= Capacity

\* While memory lasts no key has two elements: cache_put updates the element
\* it finds.
UniqueKeys ==
  ~scarce /\ the_cache # NULL =>
    \A i, j \in DOMAIN the_cache.list :
      the_cache.list[i].key = the_cache.list[j].key => i = j

\* The map the list stands for.
Stored ==
  IF the_cache = NULL THEN [k \in {} |-> k]
  ELSE [k \in {elem.key : elem \in Range(the_cache.list)} |->
          LET elem == the_cache.list[cache_force_get_elem(the_cache, k)]
          IN  [val |-> elem.val, creation_time |-> elem.creation_time,
               max_age |-> elem.max_age]]

\* Nothing is promised of a process that may run out of memory: its store
\* stays empty and unused.
Promised ==
  IF scarce THEN [store |-> [k \in {} |-> k], now |-> 0,
                  reply |-> [op |-> "none"]]
  ELSE [store |-> Stored, now |-> now, reply |-> reply]

Abstract ==
  INSTANCE Store WITH
    store <- Promised.store, now <- Promised.now, reply <- Promised.reply

\* While memory lasts, the cache is the store it promises to be: gets answer
\* with the last response put and only while it is fresh, and a put evicts
\* no more than it must.
ImplementsStore == Abstract!Spec

\* Even when memory runs out anywhere in cache_update or cache_elem_new, a
\* get that answers gives the response last put under its key, not one that
\* put was meant to replace, and within its max-age.
AnswersLatest ==
  [][\A key \in Keys :
       GetHit(key) =>
         /\ latest[key] # NULL /\ reply'.val = latest[key].val
         /\ ~cache_elem_is_stale(latest[key], now)]_vars

\* "If no stale element, remove the least recently used element": where there
\* is room for two and memory lasts, a response that cache_get has just
\* returned and that is still fresh is not what the next cache_put, of another
\* key, throws out.
EvictsLeastRecentlyUsed ==
  [][\A key \in Keys :
       LET i == cache_force_get_elem(the_cache, key)
       IN  /\ Capacity > 1 /\ ~scarce
           /\ reply.op = "get" /\ reply.n = 1 /\ reply.key = key
           /\ reply'.op = "put" /\ reply'.key # key
           /\ ~cache_elem_is_stale(the_cache.list[i], now')
           => cache_force_get_elem(the_cache', key) # 0]_vars
=============================================================================
