-------------------------------- MODULE Store --------------------------------
(***************************************************************************)
(* What the response cache promises to the handlers of the proxy, without  *)
(* its list: a bounded map from keys to responses.  A get answers with the *)
(* response put last under that key, as long as it is fresh; nothing but a *)
(* put changes a response; and a put takes room from other keys only when  *)
(* the store is full, from stale ones before a fresh one, and never more   *)
(* than one fresh one.                                                     *)
(***************************************************************************)
EXTENDS Integers, FiniteSets

CONSTANTS Keys, Vals, MaxAges, Capacity

VARIABLES
  store,  \* a function from some of the keys to what was put under them
  now,    \* time, in seconds
  reply   \* what the last call returned

vars == <<store, now, reply>>

Fresh(k, t) == t - store[k].creation_time < store[k].max_age

Keep(K) == [k \in K |-> store[k]]

Init == store = [k \in {} |-> k] /\ reply = [op |-> "none"]

\* The keys that may make room for a new one at time t.
Evictions(t) ==
  LET stale == {k \in DOMAIN store : ~Fresh(k, t)}
  IN  IF Cardinality(DOMAIN store) < Capacity THEN {{}}
      ELSE IF stale # {} THEN {stale}
      ELSE {{k} : k \in DOMAIN store}

Put(k, v, m) ==
  LET new == [val |-> v, creation_time |-> now, max_age |-> m]
  IN  /\ now' >= now
      /\ \E out \in IF k \in DOMAIN store THEN {{}} ELSE Evictions(now') :
           LET K == DOMAIN store \ out
           IN  store' = [x \in K \cup {k} |-> IF x = k THEN new ELSE store[x]]
      /\ reply' = [op |-> "put", key |-> k, n |-> 1]

\* A hit is judged by the time at the start of the call; the age it reports
\* is read later.
Hit(k) ==
  /\ k \in DOMAIN store /\ Fresh(k, now)
  /\ store' = store /\ now' >= now
  /\ reply' = [op |-> "get", key |-> k, n |-> 1, val |-> store[k].val,
               age |-> now' - store[k].creation_time]

\* A miss drops the key if it is stale.
Miss(k) ==
  /\ k \in DOMAIN store => ~Fresh(k, now)
  /\ store' = Keep(DOMAIN store \ {k}) /\ now' >= now
  /\ reply' = [op |-> "get", key |-> k, n |-> 0]

Tick == now' > now /\ UNCHANGED <<store, reply>>

\* The proxy shuts down.
Close == store' = Keep({}) /\ reply' = [op |-> "exit"] /\ UNCHANGED now

Next ==
  \/ \E k \in Keys : Hit(k) \/ Miss(k)
  \/ \E k \in Keys, v \in Vals, m \in MaxAges : Put(k, v, m)
  \/ Tick \/ Close

Spec == Init /\ [][Next]_vars
=============================================================================
