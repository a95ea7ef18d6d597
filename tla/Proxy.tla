------------------------------- MODULE Proxy -------------------------------
(***************************************************************************)
(* The connection core of the proxy: main()'s select loop of proxy.c and   *)
(* the socket table of sock_buf.c that every handler reads and changes.    *)
(*                                                                         *)
(* The program is one thread.  One iteration of the loop over the          *)
(* descriptors is split into the steps between which the network may       *)
(* change what the next call returns: the dispatch of one descriptor, one  *)
(* round of the request loop in handle_client_request, and the idle check. *)
(* A handler is an operator from the connection state to the set of        *)
(* states it may leave behind, one for each outcome of the system calls    *)
(* it makes (read, write, socket, connect, SSL_connect, SSL_accept).       *)
(***************************************************************************)
EXTENDS SockBuf

CONSTANTS
  UseSsl,       \* use_ssl: TRUE in SSL interception mode
  MaxPipelined  \* bound: complete requests one read can leave in a buffer

ASSUME ProxyAssumption == UseSsl \in BOOLEAN /\ MaxPipelined \in Nat

VARIABLES
  net,    \* the socket table, the active set, max_fd, the open descriptors
          \* and, as history, those a failed connect_server has left open
  ready,  \* read_fd_set as select() filled it for this pass
  fresh,  \* history: descriptors opened since that select()
  pc,     \* where main() is
  scan,   \* fd, the descriptor the pass has reached
  todo    \* complete requests left in the buffer of the client being served

vars == <<net, ready, fresh, pc, scan, todo>>

Pc == {"select", "dispatch", "requests", "timeout", "crashed", "stopped"}

-----------------------------------------------------------------------------
(* proxy.c: connecting and disconnecting.  An s is a value of net.         *)

Conn(s, fd) == sock_buf_get(s.sock_buf_arr, fd)

Clients(s) ==
  {fd \in Entries(s.sock_buf_arr) : s.sock_buf_arr[fd].is_client}

Servers(s) ==
  {fd \in Entries(s.sock_buf_arr) : ~s.sock_buf_arr[fd].is_client}

\* Assignments through the pointer sock_buf_get returned for fd.
Store(s, fd, buf) == [s EXCEPT !.sock_buf_arr[fd] = buf]

\* sock_buf_add_*, the update of max_fd and FD_SET after a success.
Register(s, fd, buf) ==
  [sock_buf_arr |-> [s.sock_buf_arr EXCEPT ![fd] = buf],
   active |-> s.active \cup {fd},
   max_fd |-> IF fd > s.max_fd THEN fd ELSE s.max_fd,
   open |-> s.open \cup {fd},
   leaked |-> s.leaked]

\* Fault: FD_CLR is forgotten.
Drop_KeepsActive(s, D) ==
  [s EXCEPT !.sock_buf_arr = sock_buf_rm(@, D), !.open = @ \ D]

\* close, FD_CLR and sock_buf_rm of every descriptor of D.
Drop(s, D) ==
  [s EXCEPT
     !.sock_buf_arr = sock_buf_rm(@, D),
     !.active = @ \ D,
     !.open = @ \ D]

\* Fault: the scan for peers stops one descriptor early.
PeeredWith_ShortScan(s, fd) ==
  {i \in Fd : /\ i < s.max_fd
              /\ s.sock_buf_arr[i] # NULL
              /\ s.sock_buf_arr[i].peer = fd}

\* The descriptors disconnect_client(fd) hands to disconnect_server: every
\* entry, of a client or of a server, whose peer field is fd.
PeeredWith(s, fd) ==
  {i \in Fd : /\ i <= s.max_fd
              /\ s.sock_buf_arr[i] # NULL
              /\ s.sock_buf_arr[i].peer = fd}

\* disconnect_server(i) for these i finds its peer fd already removed, so it
\* frees no other SSL object and its own disconnect_client(fd) returns at
\* once: the mutual recursion ends after one level.
disconnect_client(s, fd) ==
  IF Conn(s, fd) = NULL THEN s
  ELSE Drop(s, {fd} \cup PeeredWith(s, fd))

ClearSsl(s, fd) ==
  IF Conn(s, fd) = NULL THEN s
  ELSE Store(s, fd, [s.sock_buf_arr[fd] EXCEPT !.ssl = FALSE])

\* Fault: the other end of a tunnel is left connected.
disconnect_server_KeepsPeer(s, fd) ==
  IF Conn(s, fd) = NULL THEN s
  ELSE LET buf == s.sock_buf_arr[fd]
       IN  Drop(IF buf.ssl THEN ClearSsl(s, buf.peer) ELSE s, {fd})

disconnect_server(s, fd) ==
  IF Conn(s, fd) = NULL THEN s
  ELSE LET buf == s.sock_buf_arr[fd]
           rest == Drop(IF buf.ssl THEN ClearSsl(s, buf.peer) ELSE s, {fd})
       IN  IF buf.is_forward THEN disconnect_client(rest, buf.peer) ELSE rest

\* External: the kernel returns the lowest descriptor that is not open, and
\* none when every one below its limit is.
LowestFree(s) ==
  {fd \in Fd \ s.open : \A other \in Fd \ s.open : fd <= other}

\* The socket has no name to connect to, or does not connect: connect_server
\* returns without closing it.
Leak(s, fd) == [s EXCEPT !.open = @ \cup {fd}, !.leaked = @ \cup {fd}]

\* Fault: a socket the table refuses is not closed.
connect_server_RefusedOpen(s, client) ==
  {[net |-> s, sock |-> -1]}
  \cup {[net |-> Leak(s, fd), sock |-> -1] : fd \in LowestFree(s)}
  \cup {IF CanAddServer(s.sock_buf_arr, fd, client)
        THEN [net |-> Register(s, fd, ServerBuf(client)), sock |-> fd]
        ELSE [net |-> [s EXCEPT !.open = @ \cup {fd}], sock |-> -1] :
          fd \in LowestFree(s)}

\* connect_server: the state it leaves and the socket it returns.  There is
\* no socket; the socket leaks; or it is connected, and closed again when the
\* table refuses it.
connect_server(s, client) ==
  {[net |-> s, sock |-> -1]}
  \cup {[net |-> Leak(s, fd), sock |-> -1] : fd \in LowestFree(s)}
  \cup {IF CanAddServer(s.sock_buf_arr, fd, client)
        THEN [net |-> Register(s, fd, ServerBuf(client)), sock |-> fd]
        ELSE [net |-> s, sock |-> -1] :
          fd \in LowestFree(s)}

-----------------------------------------------------------------------------
(* proxy.c: the request handlers.                                          *)

\* The end of handle_get_request (a cache miss) and handle_other_request:
\* find or connect the server, then write the request to it.
ForwardRequest(s, client) ==
  LET buf == s.sock_buf_arr[client]
  IN  IF buf.ssl
      THEN {s, disconnect_server(s, buf.peer)}
      ELSE UNION {IF r.sock < 0 THEN {r.net}
                  ELSE {r.net, disconnect_server(r.net, r.sock)} :
                    r \in connect_server(s, client)}

\* A hit writes the cached response; a failed or empty last write ends with
\* disconnect_client.
handle_get_request(s, client) ==
  {s, disconnect_client(s, client)} \cup ForwardRequest(s, client)

handle_other_request(s, client) == ForwardRequest(s, client)

\* handle_connect_request sets up the two-way forwarding.
Join(s, client, server) ==
  LET clientEnd == [s.sock_buf_arr[client] EXCEPT !.peer = server,
                                                  !.is_forward = TRUE]
      serverEnd == [s.sock_buf_arr[server] EXCEPT !.peer = client,
                                                  !.is_forward = TRUE]
  IN  Store(Store(s, client, clientEnd), server, serverEnd)

\* The rest of handle_connect_request in default mode: the forwarding pair,
\* then the reply, whose failure disconnects the client.
SetupTunnel(s, client, server) ==
  LET paired == Join(s, client, server)
  IN  {paired, disconnect_client(paired, client)}

\* The rest in interception mode: SSL_connect, the reply, ssl_accept_client.
\* A failed reply disconnects the client, and ssl_accept_client then finds
\* no socket; a failed SSL_accept disconnects it as well.
SetupInterception(s, client, server) ==
  LET serverEnd == [s.sock_buf_arr[server] EXCEPT !.ssl = TRUE,
                                                  !.peer = client]
      clientEnd == [s.sock_buf_arr[client] EXCEPT !.ssl = TRUE,
                                                  !.peer = server]
      connected == Store(s, server, serverEnd)
  IN  {disconnect_server(s, server),
       disconnect_client(connected, client),
       Store(connected, client, clientEnd)}

handle_connect_request(s, client) ==
  UNION {IF r.sock < 0 THEN {r.net}
         ELSE IF UseSsl THEN SetupInterception(r.net, client, r.sock)
         ELSE SetupTunnel(r.net, client, r.sock) :
           r \in connect_server(s, client)}

-----------------------------------------------------------------------------
(* proxy.c: the response handlers.                                         *)

\* A failed write to the client disconnects it, and with it this server.
fast_forward(s, server) ==
  LET buf == s.sock_buf_arr[server]
      client == Conn(s, buf.peer)
  IN  IF buf.ssl /\ (client = NULL \/ ~client.ssl) THEN {s}
      ELSE {s, disconnect_client(s, buf.peer)}

\* An incomplete response changes nothing here; a complete one ends a plain
\* server connection and leaves an intercepted one open.
handle_server_response(s, server) ==
  IF Conn(s, server) = NULL THEN {s}
  ELSE IF s.sock_buf_arr[server].ssl THEN {s}
  ELSE {s, disconnect_server(s, server)}

-----------------------------------------------------------------------------
Init ==
  /\ net = [sock_buf_arr |-> EmptyTable,
            active |-> {ListenSock},
            max_fd |-> 4,
            open |-> {ListenSock},
            leaked |-> {}]
  /\ ready = {} /\ fresh = {}
  /\ pc = "select" /\ scan = ListenSock /\ todo = 0

Disconnect(s, fd) ==
  IF s.sock_buf_arr[fd].is_client THEN disconnect_client(s, fd)
  ELSE disconnect_server(s, fd)

Become(s) ==
  /\ net' = s
  /\ fresh' = fresh \cup (s.open \ net.open)

\* select() reports a nonempty set of the active sockets up to max_fd.
Select ==
  /\ pc = "select"
  /\ ready' \in SUBSET {fd \in net.active : fd <= net.max_fd} \ {{}}
  /\ fresh' = {} /\ scan' = ListenSock /\ pc' = "dispatch"
  /\ UNCHANGED <<net, todo>>

\* Fault: the pass runs one descriptor past max_fd.
NextFd_PastEnd ==
  IF scan <= net'.max_fd
  THEN /\ scan' = scan + 1 /\ pc' = "dispatch"
       /\ UNCHANGED <<ready, todo>>
  ELSE /\ scan' = ListenSock /\ pc' = "select" /\ ready' = {}
       /\ UNCHANGED todo

\* Fault: the pass starts again when a connection has been closed.
NextFd_Restarts ==
  IF scan < net'.max_fd
  THEN /\ scan' = IF net'.active # net.active THEN ListenSock ELSE scan + 1
       /\ pc' = "dispatch"
       /\ UNCHANGED <<ready, todo>>
  ELSE /\ scan' = ListenSock /\ pc' = "select" /\ ready' = {}
       /\ UNCHANGED todo

\* The end of one iteration of the loop over the descriptors, and what the
\* next select() overwrites at the end of the pass.
NextFd ==
  IF scan < net'.max_fd
  THEN /\ scan' = scan + 1 /\ pc' = "dispatch"
       /\ UNCHANGED <<ready, todo>>
  ELSE /\ scan' = ListenSock /\ pc' = "select" /\ ready' = {}
       /\ UNCHANGED todo

SkipFd ==
  /\ pc = "dispatch" /\ scan \notin ready
  /\ pc' = "timeout"
  /\ UNCHANGED <<net, ready, fresh, scan, todo>>

\* accept_client, also when accept() fails or the table refuses the socket.
AcceptClient ==
  /\ pc = "dispatch" /\ scan \in ready /\ scan = ListenSock
  /\ \/ Become(net)
     \/ \E fd \in LowestFree(net) :
          Become(IF CanAddClient(net.sock_buf_arr, fd)
                 THEN Register(net, fd, ClientBuf) ELSE net)
  /\ pc' = "timeout"
  /\ UNCHANGED <<ready, scan, todo>>

\* handle_msg on a descriptor whose connection an earlier handler of this
\* pass has closed.
HandleUnknown ==
  /\ pc = "dispatch" /\ scan \in ready /\ scan # ListenSock
  /\ Conn(net, scan) = NULL
  /\ pc' = "timeout"
  /\ UNCHANGED <<net, ready, fresh, scan, todo>>

HandleMsg(fd) ==
  /\ pc = "dispatch" /\ fd = scan /\ fd \in ready /\ fd # ListenSock
  /\ Conn(net, fd) # NULL
  /\ UNCHANGED <<ready, scan>>

\* handle_msg: the read fails or finds the end of the stream.
ReadEnds(fd) ==
  /\ HandleMsg(fd)
  /\ Become(Disconnect(net, fd))
  /\ pc' = "timeout" /\ UNCHANGED todo

\* handle_msg on one end of a tunnel: the data goes to the peer; a failed
\* write disconnects the peer.
ReadForward(fd) ==
  /\ HandleMsg(fd)
  /\ LET buf == net.sock_buf_arr[fd]
     IN  /\ buf.is_forward
         /\ \/ Become(net)
            \/ Become(IF buf.is_client THEN disconnect_server(net, buf.peer)
                      ELSE disconnect_client(net, buf.peer))
  /\ pc' = "timeout" /\ UNCHANGED todo

\* handle_msg on a client: the data is buffered and handle_client_request
\* starts on the requests it completes.
ReadRequests(fd) ==
  /\ HandleMsg(fd)
  /\ net.sock_buf_arr[fd].is_client /\ ~net.sock_buf_arr[fd].is_forward
  /\ todo' \in 0 .. MaxPipelined
  /\ pc' = "requests"
  /\ UNCHANGED <<net, fresh>>

\* handle_msg on a server: fast_forward, then handle_server_response.
ReadResponse(fd) ==
  /\ HandleMsg(fd)
  /\ ~net.sock_buf_arr[fd].is_client /\ ~net.sock_buf_arr[fd].is_forward
  /\ \E sent \in fast_forward(net, fd) :
       \E s \in handle_server_response(sent, fd) : Become(s)
  /\ pc' = "timeout" /\ UNCHANGED todo

\* Fault: the request stays in the buffer after it is extracted.
ServeRequest_Again ==
  /\ pc = "requests" /\ Conn(net, scan) # NULL /\ todo > 0
  /\ \E s \in handle_get_request(net, scan)
              \cup handle_connect_request(net, scan)
              \cup handle_other_request(net, scan) : Become(s)
  /\ UNCHANGED <<ready, pc, scan, todo>>

\* One round of the loop in handle_client_request.
ServeRequest ==
  /\ pc = "requests" /\ Conn(net, scan) # NULL /\ todo > 0
  /\ \E s \in handle_get_request(net, scan)
              \cup handle_connect_request(net, scan)
              \cup handle_other_request(net, scan) : Become(s)
  /\ todo' = todo - 1
  /\ UNCHANGED <<ready, pc, scan>>

\* handle_get_request and handle_other_request hand the server's SSL object
\* to SSL_write; when the server has none, the library crashes or reports a
\* failure, which ForwardRequest covers.
SslWriteToNull ==
  /\ pc = "requests" /\ Conn(net, scan) # NULL /\ todo > 0
  /\ LET client == net.sock_buf_arr[scan]
         server == Conn(net, client.peer)
     IN  client.ssl /\ server # NULL /\ ~server.ssl
  /\ pc' = "crashed"
  /\ UNCHANGED <<net, ready, fresh, scan, todo>>

RequestsDone ==
  /\ pc = "requests" /\ Conn(net, scan) # NULL /\ todo = 0
  /\ pc' = "timeout"
  /\ UNCHANGED <<net, ready, fresh, scan, todo>>

\* The loop condition reads sock_buf->buf after a handler of the loop has
\* freed sock_buf: what is found there ends the loop or kills the process.
DanglingRequests ==
  /\ pc = "requests" /\ Conn(net, scan) = NULL
  /\ pc' \in {"timeout", "crashed"}
  /\ todo' = 0
  /\ UNCHANGED <<net, ready, fresh, scan>>

\* The idle check after each descriptor.  Any socket may have been idle for
\* longer than TIMEOUT by the time the loop looks at it.
CheckTimeout ==
  /\ pc = "timeout"
  /\ \/ Become(net)
     \/ /\ Conn(net, scan) # NULL
        /\ Become(Disconnect(net, scan))
  /\ NextFd

\* INT_handler: clear_proxy frees the table and closes the active sockets.
Interrupt ==
  /\ pc \notin {"crashed", "stopped"}
  /\ net' = [net EXCEPT !.sock_buf_arr = EmptyTable,
                        !.active = {},
                        !.open = @ \ net.active]
  /\ pc' = "stopped" /\ scan' = ListenSock
  /\ ready' = {} /\ fresh' = {} /\ todo' = 0

Halted == pc \in {"crashed", "stopped"} /\ UNCHANGED vars

Read(fd) ==
  \/ ReadEnds(fd) \/ ReadForward(fd) \/ ReadRequests(fd) \/ ReadResponse(fd)

Loop ==
  \/ SkipFd \/ AcceptClient \/ HandleUnknown \/ CheckTimeout
  \/ ServeRequest \/ SslWriteToNull \/ RequestsDone \/ DanglingRequests

Next == Select \/ Loop \/ (\E fd \in Fd : Read(fd)) \/ Interrupt \/ Halted

Spec == Init /\ [][Next]_vars

\* The thread is in a call that may wait for the other side for ever: the
\* read of a descriptor that select() has not reported for this connection,
\* an SSL_read, which wants a whole record with data in it where select()
\* reports the first byte of any, or, serving a request that may be a CONNECT
\* in interception mode, SSL_connect or SSL_accept.
Blocked ==
  /\ Conn(net, scan) # NULL
  /\ \/ /\ pc = "dispatch" /\ scan \in ready
        /\ scan \in fresh \/ net.sock_buf_arr[scan].ssl
     \/ pc = "requests" /\ todo > 0 /\ UseSsl

\* Other steps of the loop are always taken: a read of a plain socket that
\* select() has reported returns, and connect and a write are assumed to,
\* that is, the other side takes what it is sent or goes away.  Nothing makes
\* the network produce input, so Select is not fair.
FairSpec ==
  /\ Spec
  /\ WF_vars(~Blocked /\ Loop)
  /\ \A fd \in Fd : WF_vars(~Blocked /\ Read(fd))

-----------------------------------------------------------------------------
(* Properties.                                                             *)

Net ==
  [sock_buf_arr : Table, active : SUBSET Fd, max_fd : Fd, open : SUBSET Fd,
   leaked : SUBSET Fd]

\* Type correctness; the scan stays inside the table and the fd_sets.
TypeOK ==
  /\ net \in Net
  /\ ready \subseteq Fd /\ fresh \subseteq Fd
  /\ pc \in Pc /\ todo \in 0 .. MaxPipelined
  /\ scan \in Fd /\ scan < FdSetSize

\* The active set holds exactly the listening socket and the sockets in the
\* table; all of them are open, and max_fd, which bounds both select() and
\* the scan for a client's servers, covers them and stays below FD_SETSIZE.
Consistent(s) ==
  /\ s.active = Entries(s.sock_buf_arr) \cup {ListenSock}
  /\ s.sock_buf_arr[ListenSock] = NULL
  /\ s.active \subseteq s.open
  /\ \A fd \in s.active : fd <= s.max_fd
  /\ s.max_fd < FdSetSize

\* While the proxy runs, its four views of the open sockets agree.  Were one
\* closed but still active, select() would fail and main() would exit
\* (proxy.c, "select" is fatal); were one past max_fd, its input would never
\* be seen and its servers would be missed by disconnect_client.
DescriptorsConsistent == pc # "stopped" => Consistent(net)

\* A client's peer is unset, or the other end of its tunnel.
TunnelPaired(s) ==
  \A fd \in Entries(s.sock_buf_arr) :
    LET buf == s.sock_buf_arr[fd] IN
      /\ buf.is_client => (buf.is_forward <=> buf.peer # NoPeer)
      /\ buf.is_forward =>
           /\ buf.peer \in Entries(s.sock_buf_arr)
           /\ LET peer == s.sock_buf_arr[buf.peer] IN
                /\ peer.is_forward
                /\ peer.is_client <=> ~buf.is_client
                /\ buf.is_client => peer.peer = fd

\* In default mode the two ends of a tunnel set up by CONNECT live and die
\* together: bytes read from one (handle_msg) always have a live peer to go
\* to, never a descriptor that has been closed and given to another.
TunnelsPaired == TunnelPaired(net)

\* Every server's peer is a connected client.
ServerOwned(s) ==
  \A fd \in Servers(s) : s.sock_buf_arr[fd].peer \in Clients(s)

\* In default mode no server connection outlives the client it was opened
\* for (disconnect_client), so fast_forward never writes a response to a
\* descriptor that is closed or belongs to somebody else.
ServersHaveClient == ServerOwned(net)

\* In interception mode a client that speaks SSL has a live server that
\* does too and is peered with it: handle_get_request and
\* handle_other_request give that server's SSL object to SSL_write without
\* looking, and disconnect_server must take both objects down together.  A
\* peer field left from an earlier connection makes it take the wrong one.
InterceptionPaired ==
  \A fd \in Clients(net) :
    LET buf == net.sock_buf_arr[fd] IN
      buf.ssl => /\ buf.peer \in Servers(net)
                 /\ net.sock_buf_arr[buf.peer].ssl
                 /\ net.sock_buf_arr[buf.peer].peer = fd

\* Every pass over the descriptors comes back to select(), whatever the
\* handlers close and open on the way, unless the thread ends up waiting for
\* ever, and doing nothing more, in one of the calls that Blocked names.
PassEnds ==
  \/ []<>(pc \in {"select", "crashed", "stopped"})
  \/ <>[]Blocked /\ <>[][FALSE]_vars

\* The owner of each server is its peer.
Owner(s) == [v \in Servers(s) |-> s.sock_buf_arr[v].peer]

Abstract ==
  INSTANCE Sessions WITH clients <- Clients(net), owner <- Owner(net)

\* In default mode every step of the proxy is a step of Sessions: it admits
\* or loses one client with its own servers, or opens or loses one server.
ImplementsSessions == Abstract!Spec

\* sock_buf, which the loop condition in handle_client_request dereferences,
\* is still the client's entry: nothing the loop calls has freed it.
RequestLoopKeepsBuffer == pc = "requests" => Conn(net, scan) # NULL

\* An open socket is in the active set or is one that connect_server left
\* behind when the name or the connection failed.  So every other path that
\* does not put a socket into the set, or takes one out, closes it: the
\* refusals of accept_client and connect_server, the disconnects, and
\* clear_proxy, after which only the leaked ones are open.
OnlyFailuresLeak == net.open \ net.active = net.leaked

\* A connection that main() is about to read is one select() reported: its
\* descriptor has not been closed and opened again for it since.
ReadsOnlyReported ==
  pc = "dispatch" /\ scan \in ready /\ Conn(net, scan) # NULL
    => scan \notin fresh
=============================================================================
