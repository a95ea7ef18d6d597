------------------------------ MODULE Sessions ------------------------------
(***************************************************************************)
(* What the connection core of the proxy promises, without descriptors'    *)
(* tables, active sets or handlers: clients come and go, a server          *)
(* connection is opened on behalf of one connected client, is owned by     *)
(* that client for as long as it lasts, and never outlives it.             *)
(*                                                                         *)
(* One step changes one client, together with the servers it owns, or one  *)
(* server.  Proxy in default mode implements this specification.           *)
(***************************************************************************)
CONSTANT Fd  \* descriptors

VARIABLES
  clients,  \* the connected clients
  owner     \* owner[s]: the client that server connection s was opened for

vars == <<clients, owner>>

Servers == DOMAIN owner

Keep(S) == [s \in S |-> owner[s]]

Init == clients = {} /\ owner = [s \in {} |-> s]

\* A client is accepted on a descriptor nothing else uses.
Admit(c) ==
  /\ c \notin clients \cup Servers
  /\ clients' = clients \cup {c}
  /\ owner' = owner

\* A server connection is opened for a connected client.
Attach(c, s) ==
  /\ c \in clients /\ s \notin clients \cup Servers
  /\ owner' = [x \in Servers \cup {s} |-> IF x = s THEN c ELSE owner[x]]
  /\ clients' = clients

\* One server connection ends.
Detach(s) ==
  /\ s \in Servers
  /\ owner' = Keep(Servers \ {s})
  /\ clients' = clients

\* A client leaves, and with it every server connection it owns, no other.
Leave(c) ==
  /\ c \in clients
  /\ clients' = clients \ {c}
  /\ owner' = Keep({s \in Servers : owner[s] # c})

Shutdown == clients' = {} /\ owner' = Keep({})

Next ==
  \/ \E c \in Fd : Admit(c) \/ Leave(c) \/ Detach(c)
  \/ \E c, s \in Fd : Attach(c, s)
  \/ Shutdown

Spec == Init /\ [][Next]_vars
=============================================================================
