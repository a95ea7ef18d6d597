---------------------------- MODULE WakeupsProofs ----------------------------
(***************************************************************************)
(* Proof that Wakeups gives up connections for no other reason than that   *)
(* one has been quiet, for any number of connections, any timeout and any  *)
(* length of record, in default mode and in interception mode.             *)
(***************************************************************************)
EXTENDS Wakeups, TLAPS

\* What the property rests on: the clock of the idle check is that of the
\* reads, and the connection being checked has been read if select had
\* reported it.
Heeded ==
  /\ live \subseteq Conns
  /\ age = quiet
  /\ pc = "check" /\ scan \in ready \cap live => scan \in heard

\* At the start nothing has been reported.
LEMMA InitHeeded == Init => Heeded
BY DEF Init, Heeded

\* Every step keeps it: a read is noted in both clocks, and the scan moves
\* on to a connection that has yet to be read or skipped.
LEMMA NextHeeded == Heeded /\ [Next]_vars => Heeded'
<1> SUFFICES ASSUME Heeded, [Next]_vars PROVE Heeded'
  OBVIOUS
<1> USE DEF Heeded
<1>1. CASE Select
  BY <1>1 DEF Select
<1>2. CASE SslReadGoesOn
  BY <1>2 DEF SslReadGoesOn
<1>3. CASE HandleMsg
  BY <1>3 DEF HandleMsg, Close, sock_buf_update_input_time
<1>4. CASE SkipFd
  BY <1>4 DEF SkipFd, AtMsg
<1>5. CASE CheckTimeout
  BY <1>5 DEF CheckTimeout, NextFd, Close
<1>6. CASE Tick
  BY <1>6 DEF Tick
<1>7. CASE \E c \in Conns : Arrive(c) \/ ArriveRest(c) \/ ArriveEnd(c)
  BY <1>7 DEF Arrive, ArriveRest, ArriveEnd
<1>8. CASE UNCHANGED vars
  BY <1>8 DEF vars
<1> QED
  BY <1>1, <1>2, <1>3, <1>4, <1>5, <1>6, <1>7, <1>8 DEF Next, Loop

\* Whoever is disconnected is among those that go.
LEMMA GoesItself == \A s \in Conns : s \in Disconnected(s)
BY DEF Disconnected, disconnect_server, disconnect_client

\* Who goes with another: a server with its client, or with another end of
\* the client's tunnel.
LEMMA GoesWith ==
  ASSUME NEW s, NEW c \in Disconnected(s)
  PROVE  \/ s \in {c, ClientOf[c]}
         \/ s \in Connected /\ ~use_ssl /\ ClientOf[c] = ClientOf[s]
BY DEF Disconnected, disconnect_server, disconnect_client

\* One idle check closes the connection it looks at with those that go with
\* it, or none.
LEMMA CheckHeeds ==
  ASSUME Heeded, CheckTimeout, NEW c \in live \ live'
  PROVE  \E d \in live \ live' :
           /\ \/ d \in {c, ClientOf[c]}
              \/ d \in Connected /\ ~use_ssl /\ ClientOf[c] = ClientOf[d]
           /\ quiet[d] > Timeout /\ (d \in ready => d \in heard)
<1>1. IsTimeout(scan) /\ live' = live \ Disconnected(scan)
  BY DEF CheckTimeout, Close
<1>2. scan \in live \ live'
  BY <1>1, GoesItself DEF IsTimeout, Heeded
<1>3. quiet[scan] > Timeout /\ (scan \in ready => scan \in heard)
  BY <1>1 DEF CheckTimeout, IsTimeout, Heeded
<1>4. \/ scan \in {c, ClientOf[c]}
      \/ scan \in Connected /\ ~use_ssl /\ ClientOf[c] = ClientOf[scan]
  BY <1>1, GoesWith
<1> QED
  BY <1>2, <1>3, <1>4

\* A connection given up as idle has been quiet for longer than TIMEOUT, and
\* was read first if select had reported it, or it goes with one of which
\* this holds (main, sock_buf_is_timeout, disconnect_client,
\* disconnect_server).
THEOREM GivesUpQuiet == Spec => ClosedOnlyWhenQuiet
<1>1. Heeded => (CheckTimeout =>
        \A c \in live \ live' : \E d \in live \ live' :
          /\ \/ d \in {c, ClientOf[c]}
             \/ d \in Connected /\ ~use_ssl /\ ClientOf[c] = ClientOf[d]
          /\ quiet[d] > Timeout /\ (d \in ready => d \in heard))
  BY CheckHeeds
<1>2. Init /\ [][Next]_vars => []Heeded
  BY InitHeeded, NextHeeded, PTL
<1> QED
  BY <1>1, <1>2, PTL DEF Spec, ClosedOnlyWhenQuiet
=============================================================================
