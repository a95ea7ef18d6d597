------------------------------- MODULE Wakeups -------------------------------
(***************************************************************************)
(* When main()'s loop reads a connection and when it gives one up: select, *)
(* which sees what the kernel holds; SSL_read, which waits until there is  *)
(* a record for it, takes it from the kernel and may keep a part of it;    *)
(* and the idle check, which runs only after select has returned.          *)
(*                                                                         *)
(* Sizes are counted in pieces of BUF_SIZE bytes: a TLS record has one or  *)
(* two, or none if it is not application data.  What the handlers do with  *)
(* what is read is left out, except that they may disconnect the           *)
(* connections they deal with.  A write that waits is not modelled.        *)
(***************************************************************************)
EXTENDS Integers, SequencesExt

CONSTANTS
  MaxFd,      \* max_fd; the connections are 1 .. MaxFd
  ClientOf,   \* the client of each connection, its own for a client
  Connected,  \* the servers that were asked for by CONNECT
  MaxRecord,  \* pieces in the longest record
  Timeout,    \* TIMEOUT
  MaxInbox    \* bound: records in a socket's receive buffer

Conns == 1 .. MaxFd

ASSUME WakeupsAssumption ==
  /\ MaxFd \in Nat \ {0} /\ MaxRecord \in Nat \ {0} /\ Timeout \in Nat
  /\ MaxInbox \in Nat \ {0}
  /\ ClientOf \in [Conns -> Conns]
  /\ \A c \in Conns : ClientOf[ClientOf[c]] = ClientOf[c]
  /\ Connected \subseteq {c \in Conns : ClientOf[c] # c}

VARIABLES
  use_ssl,  \* whether the proxy intercepts
  live,     \* the connections in active_fd_set and in the table
  ssl,      \* those with an SSL object
  inbox,    \* what the kernel holds: the sizes of records, and the end
  torn,     \* the connections whose last record is not there entirely
  pending,  \* what OpenSSL has decrypted and not returned yet
  age,      \* seconds since last_input, as far as Timeout + 1
  quiet,    \* history: seconds since the last read that returned something
  ready,    \* read_fd_set
  heard,    \* history: the connections read in this pass
  scan, pc

vars == <<use_ssl, live, ssl, inbox, torn, pending, age, quiet, ready, heard,
          scan, pc>>

End == -1

\* The sizes of what the other side may send.  A plain stream is cut into
\* pieces by the reads, not by its sender.
Sizes(c) == IF c \in ssl THEN 0 .. MaxRecord ELSE {1}

Readable == {c \in live : inbox[c] # <<>>}

-----------------------------------------------------------------------------
Init ==
  /\ use_ssl \in BOOLEAN
  /\ live = Conns
  /\ ssl = IF use_ssl THEN Connected \cup {ClientOf[s] : s \in Connected}
           ELSE {}
  /\ inbox = [c \in Conns |-> <<>>] /\ torn = {}
  /\ pending = [c \in Conns |-> 0]
  /\ age = [c \in Conns |-> 0] /\ quiet = age
  /\ ready = {} /\ heard = {} /\ scan = 1 /\ pc = "select"

\* The other side sends something, of a TLS record perhaps a part only.
Arrive(c) ==
  /\ c \in live \ torn /\ Len(inbox[c]) < MaxInbox
  /\ inbox[c] # <<>> => Last(inbox[c]) # End
  /\ \E size \in Sizes(c) : inbox' = [inbox EXCEPT ![c] = Append(@, size)]
  /\ torn' \in {torn} \cup IF c \in ssl THEN {torn \cup {c}} ELSE {}
  /\ UNCHANGED <<use_ssl, live, ssl, pending, age, quiet, ready, heard, scan,
                 pc>>

\* The rest of a record arrives.
ArriveRest(c) ==
  /\ c \in live \cap torn /\ torn' = torn \ {c}
  /\ UNCHANGED <<use_ssl, live, ssl, inbox, pending, age, quiet, ready, heard,
                 scan, pc>>

\* The other side closes.  The part of a record is worth nothing then.
ArriveEnd(c) ==
  /\ c \in live
  /\ inbox[c] # <<>> => Last(inbox[c]) # End
  /\ inbox' = [inbox EXCEPT ![c] =
                 Append(IF c \in torn THEN Front(@) ELSE @, End)]
  /\ torn' = torn \ {c}
  /\ UNCHANGED <<use_ssl, live, ssl, pending, age, quiet, ready, heard, scan,
                 pc>>

Later(t) == IF t > Timeout THEN t ELSE t + 1

Tick ==
  /\ age' = [c \in Conns |-> IF c \in live THEN Later(age[c]) ELSE age[c]]
  /\ quiet' = [c \in Conns |-> IF c \in live THEN Later(quiet[c]) ELSE quiet[c]]
  /\ UNCHANGED <<use_ssl, live, ssl, inbox, torn, pending, ready, heard, scan,
                 pc>>

\* Fault: what OpenSSL holds is thought to need no report.
Reported_NoPending(S) == {c \in S : pending[c] = 0}

\* Of the readable sockets, those select reports: all.
Reported(S) == S

\* select returns for one of these connections, or for a new client.
Select ==
  /\ pc = "select"
  /\ ready' = Reported(Readable)
  /\ heard' = {} /\ scan' = 1 /\ pc' = "read"
  /\ UNCHANGED <<use_ssl, live, ssl, inbox, torn, pending, age, quiet>>

-----------------------------------------------------------------------------
(* Disconnecting.                                                          *)

\* What goes when a client does: it and its servers.
disconnect_client(c) == {d \in Conns : ClientOf[d] = c}

\* What goes when a server does: it alone, or all of its client's if it is
\* one end of a tunnel.
disconnect_server(s) ==
  IF s \in Connected /\ ~use_ssl THEN disconnect_client(ClientOf[s]) ELSE {s}

Disconnected(c) ==
  IF ClientOf[c] = c THEN disconnect_client(c) ELSE disconnect_server(c)

\* The connections of C are closed; box and kept are what the kernel and
\* OpenSSL have for the others.  With the SSL object of a server goes that of
\* its client, and what was pending in it.
Close(C, box, kept) ==
  /\ live' = live \ C
  /\ ssl' = ssl \ (C \cup {ClientOf[s] : s \in C \cap ssl})
  /\ inbox' = [c \in Conns |-> IF c \in C THEN <<>> ELSE box[c]]
  /\ pending' = [c \in Conns |-> IF c \in ssl' THEN kept[c] ELSE 0]
  /\ torn' = torn \cap ssl'

-----------------------------------------------------------------------------
(* The loop.                                                               *)

\* Whether a read of c returns: one of a plain socket that was reported does;
\* SSL_read needs something pending, a whole record of data, or the end.
Returns(c) ==
  \/ pending[c] > 0
  \/ /\ inbox[c] # <<>>
     /\ c \in ssl => Head(inbox[c]) # 0 /\ (c \in torn => Len(inbox[c]) > 1)

\* Whether the scan is at a connection to be read.
AtMsg == pc = "read" /\ scan \in ready \cap live

\* SSL_read, still waiting for data, takes a record of another kind.
SslReadGoesOn ==
  /\ AtMsg /\ scan \in ssl /\ pending[scan] = 0
  /\ inbox[scan] # <<>> /\ Head(inbox[scan]) = 0
  /\ scan \in torn => Len(inbox[scan]) > 1
  /\ inbox' = [inbox EXCEPT ![scan] = Tail(@)]
  /\ UNCHANGED <<use_ssl, live, ssl, torn, pending, age, quiet, ready, heard,
                 scan, pc>>

\* The read that returns: n pieces, and what it leaves in OpenSSL and in the
\* kernel.  What is pending is returned before the kernel is asked.
Taken(c) ==
  LET next == Head(inbox[c])
      rest == Tail(inbox[c])
  IN  IF pending[c] > 0
      THEN [n |-> 1, pending |-> pending[c] - 1, inbox |-> inbox[c]]
      ELSE IF next = End THEN [n |-> 0, pending |-> 0, inbox |-> rest]
      ELSE IF c \in ssl THEN [n |-> 1, pending |-> next - 1, inbox |-> rest]
      ELSE [n |-> 1, pending |-> 0,
            inbox |-> IF next > 1 THEN <<next - 1>> \o rest ELSE rest]

\* Fault: the time of the last input is left as it was.
sock_buf_update_input_time_Never(c) == UNCHANGED age

sock_buf_update_input_time(c) == age' = [age EXCEPT ![c] = 0]

\* handle_msg: read or SSL_read, sock_buf_update_input_time, the handler,
\* which may disconnect its client and any of its client's servers.
HandleMsg ==
  /\ AtMsg /\ Returns(scan)
  /\ LET taken == Taken(scan)
         box == [inbox EXCEPT ![scan] = taken.inbox]
         kept == [pending EXCEPT ![scan] = taken.pending]
     IN  \/ /\ taken.n = 0 /\ Close(Disconnected(scan), box, kept)
            /\ UNCHANGED <<age, quiet>>
         \/ /\ taken.n > 0
            /\ sock_buf_update_input_time(scan)
            /\ quiet' = [quiet EXCEPT ![scan] = 0]
            /\ \E D \in SUBSET disconnect_client(ClientOf[scan]) :
                 Close(UNION {Disconnected(d) : d \in D}, box, kept)
  /\ heard' = heard \cup {scan}
  /\ pc' = "check"
  /\ UNCHANGED <<use_ssl, ready, scan>>

SkipFd ==
  /\ pc = "read" /\ ~AtMsg
  /\ pc' = "check"
  /\ UNCHANGED <<use_ssl, live, ssl, inbox, torn, pending, age, quiet, ready,
                 heard, scan>>

\* Fault: the scan stops before max_fd.
NextFd_StopsEarly ==
  IF scan < MaxFd - 1 THEN scan' = scan + 1 /\ pc' = "read"
  ELSE scan' = 1 /\ pc' = "select"

NextFd ==
  IF scan < MaxFd THEN scan' = scan + 1 /\ pc' = "read"
  ELSE scan' = 1 /\ pc' = "select"

\* Fault: connections are checked only when they are read.
IsTimeout_Reported(c) == c \in ready /\ age[c] > Timeout

\* sock_buf_is_timeout.
IsTimeout(c) == c \in live /\ age[c] > Timeout

CheckTimeout ==
  /\ pc = "check"
  /\ Close(IF IsTimeout(scan) THEN Disconnected(scan) ELSE {}, inbox, pending)
  /\ NextFd
  /\ UNCHANGED <<use_ssl, age, quiet, ready, heard>>

Loop == SslReadGoesOn \/ HandleMsg \/ SkipFd \/ CheckTimeout

Next ==
  \/ Select \/ Loop \/ Tick
  \/ \E c \in Conns : Arrive(c) \/ ArriveRest(c) \/ ArriveEnd(c)

\* The thread takes its next step, if it is not waiting in SSL_read; select
\* returns if something is readable.
Spec ==
  /\ Init /\ [][Next]_vars
  /\ WF_vars(Loop) /\ WF_vars(Readable # {} /\ Select)
-----------------------------------------------------------------------------
(* Properties.                                                             *)

\* The only thread is in an SSL_read that has nothing to return.
Waiting == AtMsg /\ ~Returns(scan)

\* What the idle check closes has been quiet for longer than TIMEOUT, on the
\* clock of its reads, or goes with its client or with the tunnel's other end
\* that has; and if select had reported the quiet one in this pass it was read
\* first, so that of it only input that has come since can be lost.
ClosedOnlyWhenQuiet ==
  [][CheckTimeout =>
       \A c \in live \ live' : \E d \in live \ live' :
         /\ \/ d \in {c, ClientOf[c]}
            \/ d \in Connected /\ ~use_ssl /\ ClientOf[c] = ClientOf[d]
         /\ quiet[d] > Timeout /\ (d \in ready => d \in heard)]_vars

\* Input that has arrived is read in the end, if its connection lasts,
\* however the others are closed in between: unless SSL_read waits for the
\* rest of one record, or for data, for ever.
InputHeard ==
  \/ <>[]Waiting
  \/ \A c \in Conns : inbox[c] # <<>> ~> (c \in heard \/ c \notin live)

\* What OpenSSL keeps of a long record is not seen by select and stays until
\* more input comes; but then it is returned before that input, or dropped
\* with its SSL object, unless the proxy waits for another connection for ever.
FurtherInputFlushes ==
  \/ <>[]Waiting
  \/ \A c \in Conns :
       (pending[c] > 0 /\ inbox[c] # <<>>) ~> (pending[c] = 0 \/ c \notin live)

\* As long as passes begin and end, a connection that stays idle is given up,
\* although it is not the one that woke select.
IdleClosed ==
  []<>(pc = "select") /\ []<>(pc = "read") =>
    \A c \in Conns :
      (c \in live /\ age[c] > Timeout) ~> (c \notin live \/ age[c] = 0)
=============================================================================
