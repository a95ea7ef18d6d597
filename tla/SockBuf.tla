------------------------------ MODULE SockBuf ------------------------------
(***************************************************************************)
(* sock_buf.c: the table of connections, indexed by descriptor, that every *)
(* handler of the proxy reads and changes.  A table is a function from     *)
(* descriptors to entries; the operations of the source are operators on   *)
(* it.  An entry keeps what decides the proxy's control: its side, whether *)
(* it is one end of a tunnel, whether it has an SSL object, and its peer.  *)
(***************************************************************************)
EXTENDS Integers, FiniteSets

CONSTANTS
  ListenSock,   \* the descriptor of the listening socket
  FdSetSize,    \* FD_SETSIZE: the length of sock_buf_arr and of the fd_sets
  OpenMax,      \* the kernel hands out descriptors below this number
  NULL          \* no entry

\* max_fd starts at 4, so the listening socket must not lie above it: select
\* would never look at it.
ASSUME DescriptorAssumption ==
  /\ ListenSock \in 0 .. 4
  /\ FdSetSize \in Nat /\ 4 < FdSetSize
  /\ OpenMax \in Nat /\ 4 < OpenMax

\* Descriptors a socket can have; those below ListenSock (the standard
\* streams and whatever the process inherited) never carry one.
Fd == ListenSock .. OpenMax - 1

NoPeer == -1

Entry ==
  [is_client : BOOLEAN, is_forward : BOOLEAN, ssl : BOOLEAN,
   peer : Fd \cup {NoPeer}]

ASSUME NullAssumption == NULL \notin Entry

Table == [Fd -> Entry \cup {NULL}]

EmptyTable == [fd \in Fd |-> NULL]

Entries(arr) == {fd \in Fd : arr[fd] # NULL}

-----------------------------------------------------------------------------
\* Fault: the bound of the table taken as inclusive.
is_valid_fd_Inclusive(fd) == fd \in Fd /\ fd <= FdSetSize

is_valid_fd(fd) == fd \in Fd /\ fd < FdSetSize

sock_buf_get(arr, fd) == IF is_valid_fd(fd) THEN arr[fd] ELSE NULL

\* What sock_buf_add_client and sock_buf_add_server store.
ClientBuf ==
  [is_client |-> TRUE, is_forward |-> FALSE, ssl |-> FALSE, peer |-> NoPeer]

ServerBuf(client) ==
  [is_client |-> FALSE, is_forward |-> FALSE, ssl |-> FALSE, peer |-> client]

\* When they succeed, memory being available.
CanAddClient(arr, fd) == is_valid_fd(fd) /\ arr[fd] = NULL

CanAddServer(arr, fd, client) ==
  CanAddClient(arr, fd) /\ sock_buf_get(arr, client) # NULL

\* sock_buf_rm of every descriptor of D.
sock_buf_rm(arr, D) == [fd \in Fd |-> IF fd \in D THEN NULL ELSE arr[fd]]
=============================================================================
