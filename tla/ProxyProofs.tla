----------------------------- MODULE ProxyProofs -----------------------------
(***************************************************************************)
(* Proofs about the connection core, for every number of descriptors,      *)
(* every table length and every amount of pipelining.                      *)
(*                                                                         *)
(* The handlers are operators on the connection state, so the proof has    *)
(* one lemma per operator, in the order proxy.c builds them: each takes a  *)
(* sound state to sound states.  The theorems then go through the actions  *)
(* once.                                                                   *)
(***************************************************************************)
EXTENDS Proxy, TLAPS

-----------------------------------------------------------------------------
(* Facts about the constants and the table.                                *)

\* The numbers that the code writes out are descriptors, or none.
LEMMA Descriptors ==
  /\ ListenSock \in Fd /\ 4 \in Fd /\ Fd \subseteq Nat
  /\ NoPeer \notin Fd /\ -1 \notin Fd
BY DescriptorAssumption DEF Fd, NoPeer

\* Descriptors are numbers.
LEMMA FdNat == \A fd \in Fd : fd \in Nat
BY Descriptors

\* An entry is not a null pointer.
LEMMA EntryNotNull == \A e \in Entry : e # NULL
BY NullAssumption

\* What is open and not active is what connect_server has leaked.
Accounted(s) == s.open \ s.active = s.leaked

\* A state whose four views of the open sockets are typed and agree, and
\* account for each of them.
Sound(s) == s \in Net /\ Consistent(s) /\ Accounted(s)

\* What sock_buf_get finds is the entry of a descriptor in range.
LEMMA ConnIsEntry ==
  ASSUME NEW s \in Net, NEW fd, Conn(s, fd) # NULL
  PROVE  /\ fd \in Fd /\ fd < FdSetSize
         /\ fd \in Entries(s.sock_buf_arr)
         /\ Conn(s, fd) = s.sock_buf_arr[fd]
         /\ s.sock_buf_arr[fd] \in Entry
BY DEF Net, Table, Conn, sock_buf_get, is_valid_fd, Entries

\* In a sound state an entry is found by sock_buf_get.
LEMMA EntryIsConn ==
  ASSUME NEW s, Sound(s), NEW fd \in Entries(s.sock_buf_arr)
  PROVE  /\ Conn(s, fd) = s.sock_buf_arr[fd] /\ Conn(s, fd) # NULL
         /\ s.sock_buf_arr[fd] \in Entry
         /\ fd \in Fd /\ fd <= s.max_fd /\ fd # ListenSock
<1>1. fd \in s.active /\ fd <= s.max_fd /\ s.max_fd < FdSetSize /\ fd \in Fd
  BY DEF Sound, Consistent, Entries
<1>2. fd < FdSetSize
  <2>1. s.max_fd \in Nat /\ fd \in Nat /\ FdSetSize \in Nat
    BY <1>1, FdNat, DescriptorAssumption DEF Sound, Net
  <2> QED
    BY <1>1, <2>1
<1> QED
  BY <1>1, <1>2
     DEF Sound, Consistent, Net, Table, Conn, sock_buf_get, is_valid_fd,
         Entries

-----------------------------------------------------------------------------
(* Each operator keeps a sound state sound.                                *)

\* A new entry in a free place keeps the state sound.
LEMMA RegisterSound ==
  ASSUME NEW s, Sound(s), NEW fd \in Fd, NEW buf \in Entry,
         CanAddClient(s.sock_buf_arr, fd), fd # ListenSock, fd \notin s.open
  PROVE  Sound(Register(s, fd, buf))
<1> DEFINE t == Register(s, fd, buf)
<1>1. t \in Net
  BY DEF Sound, Net, Table, Register
<1>2. Entries(t.sock_buf_arr) = Entries(s.sock_buf_arr) \cup {fd}
  BY EntryNotNull DEF Sound, Net, Table, Register, Entries
<1>3. /\ t.active = s.active \cup {fd} /\ t.open = s.open \cup {fd}
      /\ t.max_fd = IF fd > s.max_fd THEN fd ELSE s.max_fd
      /\ t.sock_buf_arr[ListenSock] = s.sock_buf_arr[ListenSock]
  BY Descriptors DEF Register, Sound, Net, Table
<1>4. fd < FdSetSize /\ fd \in Nat /\ s.max_fd \in Nat
  BY FdNat DEF CanAddClient, is_valid_fd, Sound, Net
<1>5. \A i \in s.active : i \in Nat /\ i <= s.max_fd
  BY FdNat DEF Sound, Consistent, Net
<1>6. \A i \in t.active : i <= t.max_fd
  BY <1>3, <1>4, <1>5
<1>7. t.max_fd < FdSetSize
  BY <1>3, <1>4 DEF Sound, Consistent
<1>8. Consistent(t)
  BY <1>2, <1>3, <1>6, <1>7 DEF Sound, Consistent
<1>9. Accounted(t)
  <2>1. t.leaked = s.leaked
    BY DEF Register
  <2> QED
    BY <1>3, <2>1 DEF Sound, Accounted
<1> QED
  BY <1>1, <1>8, <1>9 DEF Sound

\* So does taking descriptors out of all the views at once.
LEMMA DropSound ==
  ASSUME NEW s, Sound(s), NEW D \in SUBSET Entries(s.sock_buf_arr)
  PROVE  /\ Sound(Drop(s, D))
         /\ Entries(Drop(s, D).sock_buf_arr) = Entries(s.sock_buf_arr) \ D
         /\ \A fd \in Entries(s.sock_buf_arr) \ D :
              Drop(s, D).sock_buf_arr[fd] = s.sock_buf_arr[fd]
<1> DEFINE t == Drop(s, D)
<1>1. t \in Net
  BY DEF Sound, Net, Table, Drop, sock_buf_rm
<1>2. t.sock_buf_arr
        = [fd \in Fd |-> IF fd \in D THEN NULL ELSE s.sock_buf_arr[fd]]
  BY DEF Sound, Net, Drop, sock_buf_rm
<1>3. Entries(t.sock_buf_arr) = Entries(s.sock_buf_arr) \ D
  BY <1>2 DEF Entries
<1>4. /\ t.active = s.active \ D /\ t.open = s.open \ D
      /\ t.max_fd = s.max_fd /\ t.leaked = s.leaked
  BY DEF Sound, Net, Drop
<1>5. Consistent(t)
  BY <1>2, <1>3, <1>4, Descriptors DEF Sound, Net, Consistent, Entries
<1>6. Accounted(t)
  <2>1. D \subseteq s.active
    BY DEF Sound, Consistent
  <2> QED
    BY <1>4, <2>1 DEF Sound, Accounted
<1> QED
  BY <1>1, <1>2, <1>3, <1>5, <1>6 DEF Sound, Entries

\* Overwriting an entry with another keeps a state sound.
LEMMA StoreSound ==
  ASSUME NEW s, Sound(s), NEW i \in Entries(s.sock_buf_arr),
         NEW buf \in Entry
  PROVE  LET t == Store(s, i, buf) IN
           /\ Sound(t)
           /\ t.sock_buf_arr = [s.sock_buf_arr EXCEPT ![i] = buf]
           /\ Entries(t.sock_buf_arr) = Entries(s.sock_buf_arr)
<1> DEFINE t == Store(s, i, buf)
<1>1. i \in Fd /\ i # ListenSock
  BY EntryIsConn
<1>2. /\ t.sock_buf_arr = [s.sock_buf_arr EXCEPT ![i] = buf]
      /\ t.active = s.active /\ t.max_fd = s.max_fd /\ t.open = s.open
      /\ t.leaked = s.leaked /\ t \in Net
  BY <1>1 DEF Store, Sound, Net, Table
<1>3. Entries(t.sock_buf_arr) = Entries(s.sock_buf_arr)
  BY <1>1, <1>2, EntryNotNull DEF Sound, Net, Table, Entries
<1>4. t.sock_buf_arr[ListenSock] = s.sock_buf_arr[ListenSock]
  BY <1>1, <1>2, Descriptors DEF Sound, Net, Table
<1>5. Consistent(t)
  BY <1>2, <1>3, <1>4 DEF Sound, Consistent
<1>6. Accounted(t)
  BY <1>2 DEF Sound, Accounted
<1> QED
  BY <1>2, <1>3, <1>5, <1>6 DEF Sound

\* What the scan of disconnect_client finds is connected.
LEMMA PeeredEntries ==
  ASSUME NEW s, NEW fd
  PROVE  PeeredWith(s, fd) \subseteq Entries(s.sock_buf_arr)
BY DEF PeeredWith, Entries

\* disconnect_client keeps the state sound, stale peers or not.
LEMMA DisconnectClientSound ==
  ASSUME NEW s, Sound(s), NEW fd
  PROVE  Sound(disconnect_client(s, fd))
<1>1. CASE Conn(s, fd) = NULL
  BY <1>1 DEF disconnect_client
<1>2. CASE Conn(s, fd) # NULL
  <2>1. {fd} \cup PeeredWith(s, fd) \in SUBSET Entries(s.sock_buf_arr)
    BY <1>2, ConnIsEntry, PeeredEntries DEF Sound
  <2> QED
    BY <1>2, <2>1, DropSound DEF disconnect_client
<1> QED
  BY <1>1, <1>2

\* Freeing the peer's SSL object does, whoever has its number.
LEMMA ClearSslSound ==
  ASSUME NEW s, Sound(s), NEW fd
  PROVE  /\ Sound(ClearSsl(s, fd))
         /\ Entries(ClearSsl(s, fd).sock_buf_arr) = Entries(s.sock_buf_arr)
<1>1. CASE Conn(s, fd) = NULL
  BY <1>1 DEF ClearSsl
<1>2. CASE Conn(s, fd) # NULL
  <2>1. fd \in Entries(s.sock_buf_arr) /\ s.sock_buf_arr[fd] \in Entry
    BY <1>2, ConnIsEntry DEF Sound
  <2>2. [s.sock_buf_arr[fd] EXCEPT !.ssl = FALSE] \in Entry
    BY <2>1 DEF Entry
  <2> QED
    BY <1>2, <2>1, <2>2, StoreSound DEF ClearSsl
<1> QED
  BY <1>1, <1>2

\* disconnect_server keeps the state sound.
LEMMA DisconnectServerSound ==
  ASSUME NEW s, Sound(s), NEW fd
  PROVE  Sound(disconnect_server(s, fd))
<1>1. CASE Conn(s, fd) = NULL
  BY <1>1 DEF disconnect_server
<1>2. CASE Conn(s, fd) # NULL
  <2> DEFINE buf == s.sock_buf_arr[fd]
             cleared == IF buf.ssl THEN ClearSsl(s, buf.peer) ELSE s
             rest == Drop(cleared, {fd})
  <2>1. fd \in Entries(s.sock_buf_arr)
    BY <1>2, ConnIsEntry DEF Sound
  <2>2. Sound(cleared) /\ fd \in Entries(cleared.sock_buf_arr)
    BY <2>1, ClearSslSound
  <2>3. Sound(rest)
    BY <2>2, DropSound
  <2>4. Sound(disconnect_client(rest, buf.peer))
    BY <2>3, DisconnectClientSound
  <2> QED
    BY <1>2, <2>3, <2>4 DEF disconnect_server
<1> QED
  BY <1>1, <1>2

\* A socket that leaks is accounted for.
LEMMA LeakSound ==
  ASSUME NEW s, Sound(s), NEW fd \in LowestFree(s)
  PROVE  Sound(Leak(s, fd)) /\ Leak(s, fd).sock_buf_arr = s.sock_buf_arr
<1> DEFINE t == Leak(s, fd)
<1>1. fd \in Fd /\ fd \notin s.open
  BY DEF LowestFree
<1>2. /\ t \in Net /\ t.sock_buf_arr = s.sock_buf_arr
      /\ t.active = s.active /\ t.max_fd = s.max_fd
      /\ t.open = s.open \cup {fd} /\ t.leaked = s.leaked \cup {fd}
  BY <1>1 DEF Leak, Sound, Net
<1>3. Consistent(t)
  BY <1>2 DEF Sound, Consistent
<1>4. Accounted(t)
  BY <1>1, <1>2 DEF Sound, Consistent, Accounted
<1> QED
  BY <1>2, <1>3, <1>4 DEF Sound

\* connect_server leaves a sound state, and a new server of the client when
\* it returns a socket.
LEMMA ConnectServerSound ==
  ASSUME NEW s, Sound(s), NEW client, NEW r \in connect_server(s, client)
  PROVE  /\ Sound(r.net)
         /\ \/ r.sock = -1 /\ r.net.sock_buf_arr = s.sock_buf_arr
            \/ /\ r.sock \in Fd \ Entries(s.sock_buf_arr)
               /\ Conn(s, client) # NULL
               /\ client \in Entries(s.sock_buf_arr)
               /\ CanAddClient(s.sock_buf_arr, r.sock)
               /\ r.sock # ListenSock /\ r.sock \notin s.open
               /\ r.net = Register(s, r.sock, ServerBuf(client))
<1>1. CASE r = [net |-> s, sock |-> -1]
  BY <1>1
<1>2. CASE \E fd \in LowestFree(s) : r = [net |-> Leak(s, fd), sock |-> -1]
  BY <1>2, LeakSound
<1>3. CASE \E fd \in LowestFree(s) :
             r = IF CanAddServer(s.sock_buf_arr, fd, client)
                 THEN [net |-> Register(s, fd, ServerBuf(client)),
                       sock |-> fd]
                 ELSE [net |-> s, sock |-> -1]
  <2>1. PICK fd \in LowestFree(s) :
          r = IF CanAddServer(s.sock_buf_arr, fd, client)
              THEN [net |-> Register(s, fd, ServerBuf(client)), sock |-> fd]
              ELSE [net |-> s, sock |-> -1]
    BY <1>3
  <2>2. CASE ~CanAddServer(s.sock_buf_arr, fd, client)
    BY <2>1, <2>2
  <2>3. CASE CanAddServer(s.sock_buf_arr, fd, client)
    <3>1. fd \in Fd /\ fd \notin s.open
      BY DEF LowestFree
    <3>2. CanAddClient(s.sock_buf_arr, fd) /\ Conn(s, client) # NULL
      BY <2>3 DEF CanAddServer, Conn
    <3>3. client \in Entries(s.sock_buf_arr) /\ client \in Fd
      BY <3>2, ConnIsEntry DEF Sound
    <3>4. ServerBuf(client) \in Entry
      BY <3>3 DEF ServerBuf, Entry
    <3>5. fd # ListenSock /\ fd \notin Entries(s.sock_buf_arr)
      BY <3>1, <3>2 DEF Sound, Consistent, CanAddClient, Entries
    <3>6. r.net = Register(s, fd, ServerBuf(client)) /\ r.sock = fd
      BY <2>1, <2>3
    <3>7. Sound(r.net)
      BY <3>1, <3>2, <3>4, <3>5, <3>6, RegisterSound
    <3> QED
      BY <3>1, <3>2, <3>3, <3>5, <3>6, <3>7
  <2> QED
    BY <2>2, <2>3
<1> QED
  BY <1>1, <1>2, <1>3 DEF connect_server

\* Forwarding a request keeps the state sound.
LEMMA ForwardRequestSound ==
  ASSUME NEW s, Sound(s), NEW client, NEW t \in ForwardRequest(s, client)
  PROVE  Sound(t)
<1>1. CASE s.sock_buf_arr[client].ssl
  BY <1>1, DisconnectServerSound DEF ForwardRequest
<1>2. CASE ~s.sock_buf_arr[client].ssl
  <2>1. PICK r \in connect_server(s, client) :
          t \in IF r.sock < 0 THEN {r.net}
                ELSE {r.net, disconnect_server(r.net, r.sock)}
    BY <1>2 DEF ForwardRequest
  <2>2. Sound(r.net)
    BY ConnectServerSound
  <2> QED
    BY <2>1, <2>2, DisconnectServerSound
<1> QED
  BY <1>1, <1>2

\* Pairing a client with the server of its tunnel does.
LEMMA JoinSound ==
  ASSUME NEW s, Sound(s), NEW client \in Entries(s.sock_buf_arr),
         NEW server \in Entries(s.sock_buf_arr)
  PROVE  Sound(Join(s, client, server))
<1> DEFINE clientEnd == [s.sock_buf_arr[client] EXCEPT !.peer = server,
                                                       !.is_forward = TRUE]
           serverEnd == [s.sock_buf_arr[server] EXCEPT !.peer = client,
                                                       !.is_forward = TRUE]
           half == Store(s, client, clientEnd)
<1>1. /\ s.sock_buf_arr[client] \in Entry /\ s.sock_buf_arr[server] \in Entry
      /\ client \in Fd /\ server \in Fd
  BY EntryIsConn
<1>2. clientEnd \in Entry /\ serverEnd \in Entry
  BY <1>1 DEF Entry
<1>3. Sound(half) /\ Entries(half.sock_buf_arr) = Entries(s.sock_buf_arr)
  BY <1>2, StoreSound
<1>4. Sound(Store(half, server, serverEnd))
  BY <1>2, <1>3, StoreSound
<1> QED
  BY <1>4 DEF Join

\* Setting up a tunnel does, if the reply is written or not.
LEMMA SetupTunnelSound ==
  ASSUME NEW s, Sound(s), NEW client \in Entries(s.sock_buf_arr),
         NEW server \in Entries(s.sock_buf_arr),
         NEW t \in SetupTunnel(s, client, server)
  PROVE  Sound(t)
<1> DEFINE paired == Join(s, client, server)
<1>1. Sound(paired) /\ Sound(disconnect_client(paired, client))
  BY JoinSound, DisconnectClientSound
<1> QED
  BY <1>1 DEF SetupTunnel

\* Setting up an interception does, whichever handshake fails.
LEMMA SetupInterceptionSound ==
  ASSUME NEW s, Sound(s), NEW client \in Entries(s.sock_buf_arr),
         NEW server \in Entries(s.sock_buf_arr),
         NEW t \in SetupInterception(s, client, server)
  PROVE  Sound(t)
<1> DEFINE serverEnd == [s.sock_buf_arr[server] EXCEPT !.ssl = TRUE,
                                                       !.peer = client]
           clientEnd == [s.sock_buf_arr[client] EXCEPT !.ssl = TRUE,
                                                       !.peer = server]
           connected == Store(s, server, serverEnd)
<1>1. /\ s.sock_buf_arr[client] \in Entry /\ s.sock_buf_arr[server] \in Entry
      /\ client \in Fd /\ server \in Fd
  BY EntryIsConn
<1>2. clientEnd \in Entry /\ serverEnd \in Entry
  BY <1>1 DEF Entry
<1>3. /\ Sound(connected)
      /\ Entries(connected.sock_buf_arr) = Entries(s.sock_buf_arr)
  BY <1>2, StoreSound
<1>4. Sound(Store(connected, client, clientEnd))
  BY <1>2, <1>3, StoreSound
<1>5. Sound(disconnect_client(connected, client))
  BY <1>3, DisconnectClientSound
<1>6. Sound(disconnect_server(s, server))
  BY DisconnectServerSound
<1> QED
  BY <1>4, <1>5, <1>6 DEF SetupInterception

\* After a connect that succeeds both ends are in the table.
LEMMA ConnectedEntries ==
  ASSUME NEW s, Sound(s), NEW client, NEW r \in connect_server(s, client),
         ~(r.sock < 0)
  PROVE  /\ Sound(r.net)
         /\ r.sock \in Entries(r.net.sock_buf_arr)
         /\ client \in Entries(r.net.sock_buf_arr)
<1>1. r.sock # -1
  OBVIOUS
<1>2. /\ Sound(r.net) /\ r.sock \in Fd /\ client \in Entries(s.sock_buf_arr)
      /\ r.net = Register(s, r.sock, ServerBuf(client))
  BY <1>1, ConnectServerSound
<1>3. r.sock \in Entries(r.net.sock_buf_arr)
  <2>1. ServerBuf(client) \in Entry
    BY <1>2 DEF ServerBuf, Entry, Entries
  <2>2. ServerBuf(client) # NULL
    BY <2>1, EntryNotNull
  <2>3. r.net.sock_buf_arr[r.sock] = ServerBuf(client)
    BY <1>2 DEF Register, Sound, Net, Table
  <2> QED
    BY <1>2, <2>2, <2>3 DEF Entries
<1>4. client \in Entries(r.net.sock_buf_arr)
  BY <1>2, <1>3 DEF Register, Entries, Sound, Net, Table
<1> QED
  BY <1>2, <1>3, <1>4

\* A CONNECT keeps the state sound in both modes.
LEMMA ConnectRequestSound ==
  ASSUME NEW s, Sound(s), NEW client,
         NEW t \in handle_connect_request(s, client)
  PROVE  Sound(t)
<1>1. PICK r \in connect_server(s, client) :
        t \in IF r.sock < 0 THEN {r.net}
              ELSE IF UseSsl THEN SetupInterception(r.net, client, r.sock)
              ELSE SetupTunnel(r.net, client, r.sock)
  BY DEF handle_connect_request
<1>2. CASE r.sock < 0
  BY <1>1, <1>2, ConnectServerSound
<1>3. CASE ~(r.sock < 0)
  BY <1>1, <1>3, ConnectedEntries, SetupTunnelSound, SetupInterceptionSound
<1> QED
  BY <1>2, <1>3

\* Every request handler does.
LEMMA RequestsSound ==
  ASSUME NEW s, Sound(s), NEW client,
         NEW t \in handle_get_request(s, client)
                    \cup handle_connect_request(s, client)
                    \cup handle_other_request(s, client)
  PROVE  Sound(t)
BY ForwardRequestSound, ConnectRequestSound, DisconnectClientSound
   DEF handle_get_request, handle_other_request

\* So do fast_forward and the response handler.
LEMMA ResponseSound ==
  ASSUME NEW s, Sound(s), NEW server,
         NEW sent \in fast_forward(s, server),
         NEW t \in handle_server_response(sent, server)
  PROVE  Sound(t)
<1>1. Sound(sent)
  BY DisconnectClientSound DEF fast_forward
<1> QED
  BY <1>1, DisconnectServerSound DEF handle_server_response

\* So does the disconnect of either side.
LEMMA DisconnectSound ==
  ASSUME NEW s, Sound(s), NEW fd
  PROVE  Sound(Disconnect(s, fd))
BY DisconnectClientSound, DisconnectServerSound DEF Disconnect

-----------------------------------------------------------------------------
(* Type correctness, and the agreement of the four views.                  *)

\* What every step keeps: the types, and a sound state while the proxy runs.
\* max_fd covers the descriptor the pass has reached, so the pass stays
\* inside the table; the requests loop only counts down.
Running == TypeOK /\ DescriptorsConsistent /\ OnlyFailuresLeak

\* The scan goes on inside the table or back to select.
LEMMA NextFdTypes ==
  ASSUME Running, NextFd, net' \in Net, net'.max_fd < FdSetSize
  PROVE  /\ scan' \in Fd /\ scan' < FdSetSize /\ ready' \subseteq Fd /\ pc' \in Pc \ {"stopped"}
         /\ todo' = todo
<1>1. CASE scan < net'.max_fd
  <2>1. scan \in Nat /\ net'.max_fd \in Fd /\ net'.max_fd \in Nat
    BY FdNat DEF Running, TypeOK, Net
  <2>2. scan + 1 \in Fd /\ scan + 1 < FdSetSize
    BY <1>1, <2>1, DescriptorAssumption DEF Running, TypeOK, Fd
  <2> QED
    BY <1>1, <2>2 DEF NextFd, Running, TypeOK, Pc
<1>2. CASE ~(scan < net'.max_fd)
  <2>1. ListenSock < FdSetSize
    BY DescriptorAssumption
  <2> QED
    BY <1>2, <2>1, Descriptors DEF NextFd, Pc
<1> QED
  BY <1>1, <1>2

\* A handler that leaves a sound state leaves a typed one.
LEMMA BecomeTypes ==
  ASSUME TypeOK, NEW s, Sound(s), Become(s)
  PROVE  /\ net' = s /\ net' \in Net /\ Consistent(net')
         /\ OnlyFailuresLeak' /\ fresh' \subseteq Fd
BY DEF TypeOK, Become, Sound, Accounted, OnlyFailuresLeak, Net

\* init_proxy sets up a state in which the invariant holds.
LEMMA InitRunning == Init => Running
<1> SUFFICES ASSUME Init PROVE Running
  OBVIOUS
<1>1. EmptyTable \in Table /\ Entries(EmptyTable) = {}
  BY DEF EmptyTable, Table, Entries
<1>2. net \in Net
  BY <1>1, Descriptors DEF Init, Net
<1>3. TypeOK
  BY <1>2, Descriptors, DescriptorAssumption, ProxyAssumption
     DEF Init, TypeOK, Pc
<1>4. ListenSock <= 4 /\ 4 < FdSetSize
  BY DescriptorAssumption
<1>5. Consistent(net)
  BY <1>1, <1>4, Descriptors DEF Init, Consistent, EmptyTable
<1>6. OnlyFailuresLeak
  BY DEF Init, OnlyFailuresLeak
<1> QED
  BY <1>3, <1>5, <1>6 DEF Running, DescriptorsConsistent

\* Every step of main() keeps it.
LEMMA StepRunning == Running /\ [Next]_vars => Running'
<1> SUFFICES ASSUME Running, [Next]_vars PROVE Running'
  OBVIOUS
<1> USE DEF Running
<1>0. pc # "stopped" => Sound(net)
  BY DEF TypeOK, DescriptorsConsistent, OnlyFailuresLeak, Sound, Accounted
<1>a. ASSUME NEW s, Sound(s), Become(s), scan' = scan, ready' = ready,
             todo' \in 0 .. MaxPipelined, pc' \in Pc
      PROVE  Running'
  BY <1>a, BecomeTypes DEF TypeOK, DescriptorsConsistent
<1>b. ASSUME UNCHANGED net, pc # "stopped", ready' \subseteq Fd,
             fresh' \subseteq Fd, scan' \in Fd, scan' < FdSetSize,
             todo' \in 0 .. MaxPipelined, pc' \in Pc
      PROVE  Running'
  BY <1>b DEF TypeOK, DescriptorsConsistent, OnlyFailuresLeak
<1>1. CASE Select
  BY <1>1, <1>b, Descriptors, DescriptorAssumption
     DEF Select, TypeOK, Pc, Net
<1>2. CASE SkipFd
  BY <1>2, <1>b DEF SkipFd, TypeOK, Pc
<1>3. CASE AcceptClient
  <2>1. Sound(net) /\ pc' \in Pc
    BY <1>0, <1>3 DEF AcceptClient, Pc
  <2>2. CASE Become(net)
    BY <1>3, <1>a, <2>1, <2>2 DEF AcceptClient, TypeOK
  <2>3. CASE \E fd \in LowestFree(net) :
               Become(IF CanAddClient(net.sock_buf_arr, fd)
                      THEN Register(net, fd, ClientBuf) ELSE net)
    <3>1. PICK fd \in LowestFree(net) :
            Become(IF CanAddClient(net.sock_buf_arr, fd)
                   THEN Register(net, fd, ClientBuf) ELSE net)
      BY <2>3
    <3>2. fd \in Fd /\ fd # ListenSock /\ fd \notin net.open
      BY <2>1 DEF LowestFree, Sound, Consistent
    <3>3. ClientBuf \in Entry
      BY DEF ClientBuf, Entry
    <3>4. CanAddClient(net.sock_buf_arr, fd)
            => Sound(Register(net, fd, ClientBuf))
      BY <2>1, <3>2, <3>3, RegisterSound
    <3> QED
      BY <1>3, <1>a, <2>1, <3>1, <3>4 DEF AcceptClient, TypeOK
  <2> QED
    BY <1>3, <2>2, <2>3 DEF AcceptClient
<1>4. CASE HandleUnknown
  BY <1>4, <1>b DEF HandleUnknown, TypeOK, Pc
<1>5. CASE CheckTimeout
  <2>1. Sound(net) /\ NextFd
    BY <1>0, <1>5 DEF CheckTimeout
  <2>2. PICK s : Sound(s) /\ Become(s)
    BY <1>5, <2>1, DisconnectSound DEF CheckTimeout
  <2>3. /\ net' \in Net /\ Consistent(net') /\ OnlyFailuresLeak'
        /\ fresh' \subseteq Fd
    BY <2>2, BecomeTypes
  <2>4. /\ scan' \in Fd /\ scan' < FdSetSize
        /\ ready' \subseteq Fd /\ pc' \in Pc /\ todo' = todo
    BY <2>1, <2>3, NextFdTypes DEF Consistent
  <2> QED
    BY <2>3, <2>4 DEF TypeOK, DescriptorsConsistent
<1>6. CASE ServeRequest
  <2>1. Sound(net)
    BY <1>0, <1>6 DEF ServeRequest
  <2>2. PICK s \in handle_get_request(net, scan)
                     \cup handle_connect_request(net, scan)
                     \cup handle_other_request(net, scan) : Become(s)
    BY <1>6 DEF ServeRequest
  <2>3. Sound(s)
    BY <2>1, RequestsSound
  <2>4. todo' \in 0 .. MaxPipelined
    BY <1>6, ProxyAssumption DEF ServeRequest, TypeOK
  <2> QED
    BY <1>6, <1>a, <2>2, <2>3, <2>4 DEF ServeRequest, TypeOK, Pc
<1>7. CASE SslWriteToNull
  BY <1>7, <1>b DEF SslWriteToNull, TypeOK, Pc
<1>8. CASE RequestsDone
  BY <1>8, <1>b DEF RequestsDone, TypeOK, Pc
<1>9. CASE DanglingRequests
  BY <1>9, <1>b, ProxyAssumption DEF DanglingRequests, TypeOK, Pc
<1>10. ASSUME NEW fd \in Fd, Read(fd) PROVE Running'
  <2>0. HandleMsg(fd)
    BY <1>10 DEF Read, ReadEnds, ReadForward, ReadRequests, ReadResponse
  <2>1. Sound(net) /\ ready' = ready /\ scan' = scan
    BY <1>0, <2>0 DEF HandleMsg
  <2>2. CASE ReadEnds(fd)
    BY <1>a, <2>1, <2>2, DisconnectSound DEF ReadEnds, TypeOK, Pc
  <2>3. CASE ReadForward(fd)
    <3>1. PICK s : Sound(s) /\ Become(s)
      BY <2>1, <2>3, DisconnectClientSound, DisconnectServerSound
         DEF ReadForward
    <3> QED
      BY <1>a, <2>1, <2>3, <3>1 DEF ReadForward, TypeOK, Pc
  <2>4. CASE ReadRequests(fd)
    BY <1>b, <2>1, <2>0, <2>4 DEF ReadRequests, HandleMsg, TypeOK, Pc
  <2>5. CASE ReadResponse(fd)
    <3>1. PICK s : Sound(s) /\ Become(s)
      BY <2>1, <2>5, ResponseSound DEF ReadResponse
    <3> QED
      BY <1>a, <2>1, <2>5, <3>1 DEF ReadResponse, TypeOK, Pc
  <2> QED
    BY <1>10, <2>2, <2>3, <2>4, <2>5 DEF Read
<1>11. CASE Interrupt
  <2>1. net' \in Net
    BY <1>11 DEF Interrupt, TypeOK, Net, Table, EmptyTable
  <2>2. /\ net'.open = net.open \ net.active /\ net'.active = {}
        /\ net'.leaked = net.leaked
    BY <1>11 DEF Interrupt, TypeOK, Net
  <2>3. OnlyFailuresLeak'
    BY <2>2 DEF OnlyFailuresLeak
  <2> QED
    BY <1>11, <2>1, <2>3, Descriptors, DescriptorAssumption, ProxyAssumption
       DEF Interrupt, TypeOK, DescriptorsConsistent, Pc
<1>12. CASE UNCHANGED vars
  BY <1>12 DEF vars, TypeOK, DescriptorsConsistent, OnlyFailuresLeak
<1> QED
  BY <1>1, <1>2, <1>3, <1>4, <1>5, <1>6, <1>7, <1>8, <1>9, <1>10, <1>11,
     <1>12 DEF Next, Loop, Halted

\* Every reachable state is well typed.
THEOREM TypeCorrect == Spec => []TypeOK
<1>1. Running => TypeOK
  BY DEF Running
<1> QED
  BY <1>1, InitRunning, StepRunning, PTL DEF Spec

\* While the proxy runs, in either mode and however many connections it has,
\* the active set, the table, the open descriptors and max_fd agree, so
\* select() never sees a closed descriptor and no connection lies past the
\* bounds of the scans.
THEOREM ViewsAgree == Spec => []DescriptorsConsistent
<1>1. Running => DescriptorsConsistent
  BY DEF Running
<1> QED
  BY <1>1, InitRunning, StepRunning, PTL DEF Spec

\* In both modes, whichever handlers fail and wherever the table refuses a
\* socket, what connect_server leaves open when a name or a connection fails
\* is all that leaks: any other open socket is in the active set, from which
\* the disconnects and clear_proxy close it.
THEOREM LeaksAreFailures == Spec => []OnlyFailuresLeak
<1>1. Running => OnlyFailuresLeak
  BY DEF Running
<1> QED
  BY <1>1, InitRunning, StepRunning, PTL DEF Spec

-----------------------------------------------------------------------------
(* Default mode: no server without its client, no half of a tunnel.        *)

Paired(s) == Sound(s) /\ ServerOwned(s) /\ TunnelPaired(s)

\* Closing descriptors nobody who stays is peered with keeps the pairing.
LEMMA DropPaired ==
  ASSUME NEW s, Paired(s), NEW D \in SUBSET Entries(s.sock_buf_arr),
         \A i \in Entries(s.sock_buf_arr) \ D : s.sock_buf_arr[i].peer \notin D
  PROVE  Paired(Drop(s, D))
<1> DEFINE t == Drop(s, D)
<1>1. /\ Sound(t) /\ Entries(t.sock_buf_arr) = Entries(s.sock_buf_arr) \ D
      /\ \A i \in Entries(s.sock_buf_arr) \ D :
           t.sock_buf_arr[i] = s.sock_buf_arr[i]
  BY DropSound DEF Paired
<1> HIDE DEF t
<1>2. ServerOwned(t)
  BY <1>1 DEF Paired, ServerOwned, Clients, Servers
<1>3. TunnelPaired(t)
  BY <1>1 DEF Paired, TunnelPaired
<1> QED
  BY <1>1, <1>2, <1>3 DEF Paired, t

\* A change that keeps the side, the tunnel flag and the peer of every entry
\* keeps the pairing.
LEMMA SamePairing ==
  ASSUME NEW s, Paired(s), NEW t, Sound(t),
         Entries(t.sock_buf_arr) = Entries(s.sock_buf_arr),
         \A i \in Entries(s.sock_buf_arr) :
           /\ t.sock_buf_arr[i].is_client = s.sock_buf_arr[i].is_client
           /\ t.sock_buf_arr[i].is_forward = s.sock_buf_arr[i].is_forward
           /\ t.sock_buf_arr[i].peer = s.sock_buf_arr[i].peer
  PROVE  Paired(t)
<1>1. ServerOwned(t)
  BY DEF Paired, ServerOwned, Clients, Servers
<1>2. TunnelPaired(t)
  BY DEF Paired, TunnelPaired
<1> QED
  BY <1>1, <1>2 DEF Paired

\* disconnect_client of a client takes exactly the servers it owns along.
LEMMA PeeredAreServers ==
  ASSUME NEW s, Paired(s), NEW c \in Clients(s)
  PROVE  PeeredWith(s, c)
           = {v \in Entries(s.sock_buf_arr) :
                ~s.sock_buf_arr[v].is_client /\ s.sock_buf_arr[v].peer = c}
<1>1. \A i \in Entries(s.sock_buf_arr) : i \in Fd /\ i <= s.max_fd
  BY EntryIsConn DEF Paired
<1>2. c # NoPeer
  BY <1>1, Descriptors DEF Clients
<1>3. ASSUME NEW i \in Entries(s.sock_buf_arr), s.sock_buf_arr[i].is_client
      PROVE  s.sock_buf_arr[i].peer # c
  <2>1. s.sock_buf_arr[i] \in Entry /\ s.sock_buf_arr[c] \in Entry
    BY EntryIsConn DEF Paired, Clients
  <2> QED
    BY <1>2, <1>3, <2>1 DEF Paired, TunnelPaired, Clients, Entry
<1> QED
  BY <1>1, <1>3 DEF PeeredWith, Entries

\* disconnect_client takes a client's servers and tunnel with it.
LEMMA DisconnectClientPaired ==
  ASSUME NEW s, Paired(s), NEW c, c \in Clients(s) \/ Conn(s, c) = NULL
  PROVE  Paired(disconnect_client(s, c))
<1>1. CASE Conn(s, c) = NULL
  BY <1>1 DEF disconnect_client
<1>2. CASE Conn(s, c) # NULL
  <2> DEFINE D == {c} \cup PeeredWith(s, c)
  <2>1. c \in Clients(s)
    BY <1>2
  <2>2. D \in SUBSET Entries(s.sock_buf_arr)
    BY <2>1, PeeredEntries DEF Clients
  <2>3. PeeredWith(s, c)
          = {v \in Entries(s.sock_buf_arr) :
               ~s.sock_buf_arr[v].is_client /\ s.sock_buf_arr[v].peer = c}
    BY <2>1, PeeredAreServers
  <2>4. \A i \in Entries(s.sock_buf_arr) : s.sock_buf_arr[i] \in Entry
    BY EntryIsConn DEF Paired
  <2>5. ASSUME NEW i \in Entries(s.sock_buf_arr) \ D
        PROVE  s.sock_buf_arr[i].peer \notin D
    <3>1. CASE ~s.sock_buf_arr[i].is_client
      BY <2>3, <2>5, <3>1 DEF Paired, ServerOwned, Clients, Servers
    <3>2. CASE s.sock_buf_arr[i].is_client
      <4>1. CASE s.sock_buf_arr[i].is_forward
        BY <2>1, <2>3, <2>4, <2>5, <3>2, <4>1
           DEF Paired, TunnelPaired, Clients, Entry
      <4>2. CASE ~s.sock_buf_arr[i].is_forward
        <5>1. s.sock_buf_arr[i].peer = NoPeer
          BY <3>2, <4>2 DEF Paired, TunnelPaired
        <5> QED
          BY <5>1, <2>2, Descriptors DEF Entries
      <4> QED
        BY <4>1, <4>2
    <3> QED
      BY <3>1, <3>2
  <2> HIDE DEF D
  <2>6. \A i \in Entries(s.sock_buf_arr) \ D :
          s.sock_buf_arr[i].peer \notin D
    BY <2>5
  <2>7. Paired(Drop(s, D))
    BY <2>2, <2>6, DropPaired
  <2> QED
    BY <1>2, <2>7 DEF disconnect_client, D
<1> QED
  BY <1>1, <1>2

\* Freeing an SSL object pairs and parts nobody.
LEMMA ClearSslPaired ==
  ASSUME NEW s, Paired(s), NEW fd
  PROVE  /\ Paired(ClearSsl(s, fd))
         /\ Entries(ClearSsl(s, fd).sock_buf_arr) = Entries(s.sock_buf_arr)
         /\ \A i \in Entries(s.sock_buf_arr) :
              LET buf == ClearSsl(s, fd).sock_buf_arr[i] IN
                /\ buf.is_client = s.sock_buf_arr[i].is_client
                /\ buf.is_forward = s.sock_buf_arr[i].is_forward
                /\ buf.peer = s.sock_buf_arr[i].peer
<1> DEFINE t == ClearSsl(s, fd)
<1>1. Sound(t) /\ Entries(t.sock_buf_arr) = Entries(s.sock_buf_arr)
  BY ClearSslSound DEF Paired
<1>2. ASSUME NEW i \in Entries(s.sock_buf_arr)
      PROVE  /\ t.sock_buf_arr[i].is_client = s.sock_buf_arr[i].is_client
             /\ t.sock_buf_arr[i].is_forward = s.sock_buf_arr[i].is_forward
             /\ t.sock_buf_arr[i].peer = s.sock_buf_arr[i].peer
  <2>1. CASE Conn(s, fd) = NULL
    BY <2>1 DEF ClearSsl
  <2>2. CASE Conn(s, fd) # NULL
    <3> DEFINE buf == [s.sock_buf_arr[fd] EXCEPT !.ssl = FALSE]
    <3>1. /\ fd \in Entries(s.sock_buf_arr) /\ s.sock_buf_arr[fd] \in Entry
          /\ s.sock_buf_arr \in Table
      BY <2>2, ConnIsEntry DEF Paired, Sound, Net
    <3>2. /\ buf \in Entry /\ buf.peer = s.sock_buf_arr[fd].peer
          /\ buf.is_client = s.sock_buf_arr[fd].is_client
          /\ buf.is_forward = s.sock_buf_arr[fd].is_forward
      BY <3>1 DEF Entry
    <3>3. t = Store(s, fd, buf)
      BY <2>2 DEF ClearSsl
    <3> HIDE DEF buf, t
    <3>4. t.sock_buf_arr = [s.sock_buf_arr EXCEPT ![fd] = buf]
      BY <3>1, <3>2, <3>3, StoreSound DEF Paired
    <3> QED
      BY <3>1, <3>2, <3>4 DEF Table, Entries
  <2> QED
    BY <2>1, <2>2
<1> HIDE DEF t
<1>3. Paired(t)
  BY <1>1, <1>2, SamePairing
<1> QED
  BY <1>1, <1>2, <1>3 DEF t

\* Closing one end of a tunnel from the server's side closes what closing it
\* from the client's side would.
LEMMA ForwardingServerLeaves ==
  ASSUME NEW s, Paired(s), NEW v \in Servers(s), s.sock_buf_arr[v].is_forward
  PROVE  LET c == s.sock_buf_arr[v].peer
             cleared == IF s.sock_buf_arr[v].ssl THEN ClearSsl(s, c) ELSE s
         IN  /\ c \in Clients(cleared) /\ Paired(cleared)
             /\ disconnect_server(s, v) = disconnect_client(cleared, c)
<1> DEFINE c == s.sock_buf_arr[v].peer
           u == IF s.sock_buf_arr[v].ssl THEN ClearSsl(s, c) ELSE s
           rest == Drop(u, {v})
<1>1. /\ Paired(u) /\ Entries(u.sock_buf_arr) = Entries(s.sock_buf_arr)
      /\ \A i \in Entries(s.sock_buf_arr) :
           /\ u.sock_buf_arr[i].is_client = s.sock_buf_arr[i].is_client
           /\ u.sock_buf_arr[i].is_forward = s.sock_buf_arr[i].is_forward
           /\ u.sock_buf_arr[i].peer = s.sock_buf_arr[i].peer
  BY ClearSslPaired
<1>2. c \in Entries(s.sock_buf_arr) /\ s.sock_buf_arr[c].is_client
  BY DEF Paired, ServerOwned, Clients, Servers
<1>3. /\ v \in Entries(u.sock_buf_arr) /\ u.sock_buf_arr[v].peer = c
      /\ v # c /\ c \in Clients(u)
  BY <1>1, <1>2 DEF Servers, Clients
<1> DEFINE D == {c} \cup PeeredWith(u, c)
<1> HIDE DEF u
<1>4. v \in PeeredWith(u, c)
  <2>1. v \in Fd /\ v <= u.max_fd
    BY <1>1, <1>3, EntryIsConn DEF Paired
  <2> QED
    BY <1>3, <2>1 DEF PeeredWith, Entries
<1>5. /\ Sound(rest)
      /\ Entries(rest.sock_buf_arr) = Entries(u.sock_buf_arr) \ {v}
      /\ \A i \in Entries(u.sock_buf_arr) \ {v} :
           rest.sock_buf_arr[i] = u.sock_buf_arr[i]
  BY <1>1, <1>3, DropSound DEF Paired
<1>6. rest.max_fd = u.max_fd
  BY <1>1 DEF Paired, Sound, Net, Drop
<1>7. PeeredWith(rest, c) = PeeredWith(u, c) \ {v}
  BY <1>5, <1>6 DEF PeeredWith, Entries
<1>8. Conn(rest, c) # NULL
  BY <1>3, <1>5, EntryIsConn DEF Clients
<1>9. Drop(rest, {c} \cup PeeredWith(rest, c)) = Drop(u, D)
  <2> DEFINE E == {c} \cup PeeredWith(rest, c)
  <2>1. {v} \cup E = D
    BY <1>4, <1>7
  <2>2. u \in Net
    BY <1>1 DEF Paired, Sound
  <2>3. Drop(Drop(u, {v}), E) = Drop(u, {v} \cup E)
    <3> HIDE DEF E
    <3>1. sock_buf_rm(sock_buf_rm(u.sock_buf_arr, {v}), E)
            = sock_buf_rm(u.sock_buf_arr, {v} \cup E)
      BY DEF sock_buf_rm
    <3>2. (u.active \ {v}) \ E = u.active \ ({v} \cup E)
      OBVIOUS
    <3>3. (u.open \ {v}) \ E = u.open \ ({v} \cup E)
      OBVIOUS
    <3> QED
      BY <2>2, <3>1, <3>2, <3>3 DEF Drop, Net
  <2> QED
    BY <2>1, <2>3
<1>10. disconnect_client(rest, c) = disconnect_client(u, c)
  <2>1. Conn(u, c) # NULL
    BY <1>1, <1>3, EntryIsConn DEF Clients, Paired
  <2> QED
    BY <1>8, <1>9, <2>1 DEF disconnect_client
<1>11. disconnect_server(s, v) = disconnect_client(rest, c)
  <2>1. Conn(s, v) # NULL
    BY EntryIsConn DEF Paired, Servers
  <2> QED
    BY <2>1 DEF disconnect_server, u
<1> QED
  BY <1>1, <1>3, <1>10, <1>11 DEF u

\* disconnect_server leaves no half of a tunnel.
LEMMA DisconnectServerPaired ==
  ASSUME NEW s, Paired(s), NEW v, v \in Servers(s) \/ Conn(s, v) = NULL
  PROVE  Paired(disconnect_server(s, v))
<1>1. CASE Conn(s, v) = NULL
  BY <1>1 DEF disconnect_server
<1>2. CASE Conn(s, v) # NULL /\ s.sock_buf_arr[v].is_forward
  BY <1>2, ForwardingServerLeaves, DisconnectClientPaired
<1>3. CASE Conn(s, v) # NULL /\ ~s.sock_buf_arr[v].is_forward
  <2> DEFINE c == s.sock_buf_arr[v].peer
             u == IF s.sock_buf_arr[v].ssl THEN ClearSsl(s, c) ELSE s
  <2>1. /\ Paired(u) /\ Entries(u.sock_buf_arr) = Entries(s.sock_buf_arr)
        /\ \A i \in Entries(s.sock_buf_arr) :
             /\ u.sock_buf_arr[i].is_client = s.sock_buf_arr[i].is_client
             /\ u.sock_buf_arr[i].is_forward = s.sock_buf_arr[i].is_forward
             /\ u.sock_buf_arr[i].peer = s.sock_buf_arr[i].peer
    BY ClearSslPaired
  <2>2. disconnect_server(s, v) = Drop(u, {v})
    BY <1>3 DEF disconnect_server
  <2> HIDE DEF u
  <2>3. /\ v \in Entries(u.sock_buf_arr) /\ ~u.sock_buf_arr[v].is_client
        /\ ~u.sock_buf_arr[v].is_forward
    BY <1>3, <2>1 DEF Servers
  <2>4. v # NoPeer
    BY <2>3, Descriptors DEF Entries
  <2>5. \A i \in Entries(u.sock_buf_arr) : u.sock_buf_arr[i] \in Entry
    BY <2>1, EntryIsConn DEF Paired
  <2>6. \A i \in Entries(u.sock_buf_arr) \ {v} :
          u.sock_buf_arr[i].peer \notin {v}
    BY <2>1, <2>3, <2>4, <2>5
       DEF Paired, ServerOwned, Clients, Servers, TunnelPaired, Entry
  <2> QED
    BY <2>1, <2>2, <2>3, <2>6, DropPaired
<1> QED
  BY <1>1, <1>2, <1>3

\* A new entry that is a client, or a server of a connected client.
LEMMA RegisterPaired ==
  ASSUME NEW s, Paired(s), NEW fd \in Fd, NEW buf \in Entry,
         CanAddClient(s.sock_buf_arr, fd), fd # ListenSock, fd \notin s.open,
         \/ buf = ClientBuf
         \/ \E c \in Clients(s) : buf = ServerBuf(c)
  PROVE  LET t == Register(s, fd, buf) IN
           /\ Paired(t)
           /\ Entries(t.sock_buf_arr) = Entries(s.sock_buf_arr) \cup {fd}
           /\ t.sock_buf_arr[fd] = buf
           /\ \A i \in Entries(s.sock_buf_arr) :
                i # fd /\ t.sock_buf_arr[i] = s.sock_buf_arr[i]
<1> DEFINE t == Register(s, fd, buf)
<1>1. Sound(t)
  BY RegisterSound DEF Paired
<1>2. t.sock_buf_arr = [s.sock_buf_arr EXCEPT ![fd] = buf]
  BY DEF Register
<1>3. s.sock_buf_arr \in Table /\ buf # NULL
  BY EntryNotNull DEF Paired, Sound, Net
<1>4. /\ Entries(t.sock_buf_arr) = Entries(s.sock_buf_arr) \cup {fd}
      /\ t.sock_buf_arr[fd] = buf
      /\ \A i \in Entries(s.sock_buf_arr) :
           i # fd /\ t.sock_buf_arr[i] = s.sock_buf_arr[i]
  BY <1>2, <1>3 DEF Entries, Table, CanAddClient
<1> HIDE DEF t
<1>5. ServerOwned(t)
  <2>1. CASE buf = ClientBuf
    BY <1>4, <2>1 DEF Paired, ServerOwned, Clients, Servers, ClientBuf
  <2>2. CASE \E c \in Clients(s) : buf = ServerBuf(c)
    BY <1>4, <2>2 DEF Paired, ServerOwned, Clients, Servers, ServerBuf
  <2> QED
    BY <2>1, <2>2
<1>6. TunnelPaired(t)
  <2>1. /\ ~buf.is_forward
        /\ buf.is_client => buf.peer = NoPeer
    BY DEF ClientBuf, ServerBuf
  <2> QED
    BY <1>4, <2>1 DEF Paired, TunnelPaired
<1> QED
  BY <1>1, <1>4, <1>5, <1>6 DEF Paired, t

\* The state connect_server leaves is paired; the socket it returns is a new
\* server of the client that is not part of a tunnel yet.
LEMMA ConnectServerPaired ==
  ASSUME NEW s, Paired(s), NEW c \in Clients(s),
         NEW r \in connect_server(s, c)
  PROVE  /\ Paired(r.net) /\ c \in Clients(r.net)
         /\ \/ r.sock = -1 /\ r.net.sock_buf_arr = s.sock_buf_arr
            \/ /\ r.sock \in Fd \ Entries(s.sock_buf_arr)
               /\ Entries(r.net.sock_buf_arr)
                    = Entries(s.sock_buf_arr) \cup {r.sock}
               /\ r.net.sock_buf_arr[r.sock] = ServerBuf(c)
               /\ \A i \in Entries(s.sock_buf_arr) :
                    r.net.sock_buf_arr[i] = s.sock_buf_arr[i]
<1>1. Sound(s)
  BY DEF Paired
<1>2. CASE r.sock = -1 /\ r.net.sock_buf_arr = s.sock_buf_arr
  <2>1. Sound(r.net)
    BY <1>1, ConnectServerSound
  <2>2. Paired(r.net)
    BY <1>2, <2>1, SamePairing
  <2>3. c \in Clients(r.net)
    BY <1>2 DEF Clients
  <2> QED
    BY <1>2, <2>2, <2>3
<1>3. CASE /\ r.sock \in Fd \ Entries(s.sock_buf_arr)
           /\ CanAddClient(s.sock_buf_arr, r.sock) /\ r.sock # ListenSock
           /\ r.sock \notin s.open
           /\ r.net = Register(s, r.sock, ServerBuf(c))
  <2>1. ServerBuf(c) \in Entry
    BY DEF ServerBuf, Entry, Clients, Entries
  <2>2. /\ Paired(r.net)
        /\ Entries(r.net.sock_buf_arr)
             = Entries(s.sock_buf_arr) \cup {r.sock}
        /\ r.net.sock_buf_arr[r.sock] = ServerBuf(c)
        /\ \A i \in Entries(s.sock_buf_arr) :
             r.net.sock_buf_arr[i] = s.sock_buf_arr[i]
    <3> DEFINE fd == r.sock
               buf == ServerBuf(c)
    <3>1. /\ fd \in Fd /\ fd # ListenSock /\ CanAddClient(s.sock_buf_arr, fd)
          /\ buf \in Entry /\ \E x \in Clients(s) : buf = ServerBuf(x)
          /\ fd \notin s.open /\ r.net = Register(s, fd, buf)
      BY <1>3, <2>1
    <3> HIDE DEF fd, buf
    <3>2. /\ Paired(Register(s, fd, buf))
          /\ Entries(Register(s, fd, buf).sock_buf_arr)
               = Entries(s.sock_buf_arr) \cup {fd}
          /\ Register(s, fd, buf).sock_buf_arr[fd] = buf
          /\ \A i \in Entries(s.sock_buf_arr) :
               Register(s, fd, buf).sock_buf_arr[i] = s.sock_buf_arr[i]
      BY <3>1, RegisterPaired
    <3> QED
      BY <3>1, <3>2 DEF fd, buf
  <2> QED
    BY <1>3, <2>2 DEF Clients
<1> QED
  BY <1>1, <1>2, <1>3, ConnectServerSound

\* Joining a client and one of its servers that is in no tunnel.
LEMMA JoinPaired ==
  ASSUME NEW s, Paired(s), NEW c \in Clients(s), NEW v \in Servers(s),
         s.sock_buf_arr[v].peer = c, ~s.sock_buf_arr[v].is_forward
  PROVE  /\ Paired(Join(s, c, v))
         /\ Clients(Join(s, c, v)) = Clients(s)
         /\ Servers(Join(s, c, v)) = Servers(s)
         /\ \A i \in Servers(s) :
              Join(s, c, v).sock_buf_arr[i].peer = s.sock_buf_arr[i].peer
<1> DEFINE clientEnd == [s.sock_buf_arr[c] EXCEPT !.peer = v,
                                                  !.is_forward = TRUE]
           serverEnd == [s.sock_buf_arr[v] EXCEPT !.peer = c,
                                                  !.is_forward = TRUE]
           half == Store(s, c, clientEnd)
           t == Store(half, v, serverEnd)
<1>1. /\ c \in Fd /\ v \in Fd /\ c # v /\ s.sock_buf_arr \in Table
      /\ s.sock_buf_arr[c] \in Entry /\ s.sock_buf_arr[v] \in Entry
      /\ \A i \in Entries(s.sock_buf_arr) : i \in Fd
      /\ c # NoPeer /\ v # NoPeer
  BY EntryIsConn, Descriptors DEF Paired, Clients, Servers, Sound, Net
<1>2. /\ clientEnd \in Entry /\ clientEnd.is_client /\ clientEnd.is_forward
      /\ clientEnd.peer = v
  BY <1>1 DEF Entry, Clients
<1>3. /\ serverEnd \in Entry /\ ~serverEnd.is_client /\ serverEnd.is_forward
      /\ serverEnd.peer = c
  BY <1>1 DEF Entry, Servers
<1> HIDE DEF clientEnd, serverEnd
<1>4. /\ Sound(half) /\ Entries(half.sock_buf_arr) = Entries(s.sock_buf_arr)
      /\ half.sock_buf_arr = [s.sock_buf_arr EXCEPT ![c] = clientEnd]
  BY <1>2, StoreSound DEF Paired, Clients
<1> HIDE DEF half
<1>5. /\ Sound(t) /\ Entries(t.sock_buf_arr) = Entries(s.sock_buf_arr)
      /\ t.sock_buf_arr = [half.sock_buf_arr EXCEPT ![v] = serverEnd]
  BY <1>3, <1>4, StoreSound DEF Servers
<1>6. /\ t.sock_buf_arr[c] = clientEnd /\ t.sock_buf_arr[v] = serverEnd
      /\ \A i \in Entries(s.sock_buf_arr) \ {c, v} :
           t.sock_buf_arr[i] = s.sock_buf_arr[i]
  BY <1>1, <1>4, <1>5 DEF Table
<1> HIDE DEF t
<1>7. c \in Entries(s.sock_buf_arr) /\ v \in Entries(s.sock_buf_arr)
  BY DEF Clients, Servers
<1>8. ServerOwned(t)
  <2> SUFFICES ASSUME NEW i \in Entries(s.sock_buf_arr),
                      ~t.sock_buf_arr[i].is_client
               PROVE  /\ t.sock_buf_arr[i].peer \in Entries(s.sock_buf_arr)
                      /\ t.sock_buf_arr[t.sock_buf_arr[i].peer].is_client
    BY <1>5 DEF ServerOwned, Clients, Servers
  <2>1. CASE i = v
    BY <1>2, <1>3, <1>6, <1>7, <2>1
  <2>2. CASE i # v
    <3>1. i # c /\ t.sock_buf_arr[i] = s.sock_buf_arr[i]
      BY <1>2, <1>6, <2>2
    <3>2. /\ s.sock_buf_arr[i].peer \in Entries(s.sock_buf_arr)
          /\ s.sock_buf_arr[s.sock_buf_arr[i].peer].is_client
      BY <3>1 DEF Paired, ServerOwned, Clients, Servers
    <3>3. s.sock_buf_arr[i].peer # v
      BY <3>2 DEF Servers
    <3> QED
      BY <1>2, <1>6, <3>1, <3>2, <3>3
  <2> QED
    BY <2>1, <2>2
<1>9. TunnelPaired(t)
  <2> SUFFICES ASSUME NEW i \in Entries(s.sock_buf_arr)
               PROVE  LET buf == t.sock_buf_arr[i] IN
                 /\ buf.is_client => (buf.is_forward <=> buf.peer # NoPeer)
                 /\ buf.is_forward =>
                      /\ buf.peer \in Entries(s.sock_buf_arr)
                      /\ LET peer == t.sock_buf_arr[buf.peer] IN
                           /\ peer.is_forward
                           /\ peer.is_client <=> ~buf.is_client
                           /\ buf.is_client => peer.peer = i
    BY <1>5 DEF TunnelPaired
  <2>1. CASE i = c
    BY <1>1, <1>2, <1>3, <1>6, <1>7, <2>1
  <2>2. CASE i = v
    BY <1>1, <1>2, <1>3, <1>6, <1>7, <2>2
  <2>3. CASE i \notin {c, v}
    <3>1. t.sock_buf_arr[i] = s.sock_buf_arr[i]
      BY <1>6, <2>3
    <3>2. CASE ~s.sock_buf_arr[i].is_forward
      BY <3>1, <3>2 DEF Paired, TunnelPaired
    <3>3. CASE s.sock_buf_arr[i].is_forward
      <4> DEFINE p == s.sock_buf_arr[i].peer
      <4>1. /\ p \in Entries(s.sock_buf_arr) /\ s.sock_buf_arr[p].is_forward
            /\ s.sock_buf_arr[p].is_client <=> ~s.sock_buf_arr[i].is_client
            /\ s.sock_buf_arr[i].is_client => s.sock_buf_arr[p].peer = i
            /\ s.sock_buf_arr[i].is_client => p # NoPeer
        BY <3>3 DEF Paired, TunnelPaired
      <4>2. p # v
        BY <4>1
      <4>3. CASE p = c
        BY <1>1, <1>2, <3>1, <3>3, <4>1, <4>3, <1>6 DEF Clients
      <4>4. CASE p # c
        <5>1. t.sock_buf_arr[p] = s.sock_buf_arr[p]
          BY <1>6, <4>1, <4>2, <4>4
        <5> QED
          BY <3>1, <3>3, <4>1, <5>1
      <4> QED
        BY <4>3, <4>4
    <3> QED
      BY <3>2, <3>3
  <2> QED
    BY <2>1, <2>2, <2>3
<1>10. Clients(t) = Clients(s) /\ Servers(t) = Servers(s)
  BY <1>2, <1>3, <1>5, <1>6 DEF Clients, Servers
<1>11. \A i \in Servers(s) : t.sock_buf_arr[i].peer = s.sock_buf_arr[i].peer
  BY <1>3, <1>6 DEF Clients, Servers
<1>12. Paired(t)
  BY <1>5, <1>8, <1>9 DEF Paired
<1>13. t = Join(s, c, v)
  BY DEF t, half, clientEnd, serverEnd, Join
<1> QED
  BY <1>10, <1>11, <1>12, <1>13

-----------------------------------------------------------------------------
(* Default mode: each handler is at most one step of Sessions.             *)

\* t has the clients C and the servers V, those it shares with s having
\* kept their client.
Changes(s, t, C, V) ==
  /\ Clients(t) = C /\ Servers(t) = V
  /\ \A v \in V \cap Servers(s) :
       t.sock_buf_arr[v].peer = s.sock_buf_arr[v].peer

Same(s, t) == Changes(s, t, Clients(s), Servers(s))

Admits(s, t, c) ==
  /\ c \in Fd \ Entries(s.sock_buf_arr)
  /\ Changes(s, t, Clients(s) \cup {c}, Servers(s))

Attaches(s, t, c, v) ==
  /\ c \in Clients(s) /\ v \in Fd \ Entries(s.sock_buf_arr)
  /\ Changes(s, t, Clients(s), Servers(s) \cup {v})
  /\ t.sock_buf_arr[v].peer = c

Detaches(s, t, v) ==
  v \in Servers(s) /\ Changes(s, t, Clients(s), Servers(s) \ {v})

Leaves(s, t, c) ==
  /\ c \in Clients(s)
  /\ Changes(s, t, Clients(s) \ {c},
             {v \in Servers(s) : s.sock_buf_arr[v].peer # c})

SessionStep(s, t) ==
  \/ Same(s, t)
  \/ \E c \in Fd : Admits(s, t, c) \/ Leaves(s, t, c) \/ Detaches(s, t, c)
  \/ \E c, v \in Fd : Attaches(s, t, c, v)

\* A state that stays the same is a step of no consequence.
LEMMA SameStep ==
  ASSUME NEW s PROVE Same(s, s) /\ SessionStep(s, s)
BY DEF Same, Changes, SessionStep

\* An entry is a client's or a server's.
LEMMA Sides ==
  ASSUME NEW s
  PROVE  /\ Clients(s) \cup Servers(s) = Entries(s.sock_buf_arr)
         /\ Clients(s) \cap Servers(s) = {}
         /\ Entries(s.sock_buf_arr) \subseteq Fd
BY DEF Clients, Servers, Entries

\* disconnect_client takes out one client and exactly its servers.
LEMMA DisconnectClientLeaves ==
  ASSUME NEW s, Paired(s), NEW c \in Clients(s)
  PROVE  Leaves(s, disconnect_client(s, c), c)
<1> DEFINE D == {c} \cup PeeredWith(s, c)
<1>1. Conn(s, c) # NULL
  BY Sides, EntryIsConn DEF Paired
<1>2. PeeredWith(s, c) = {v \in Servers(s) : s.sock_buf_arr[v].peer = c}
  BY PeeredAreServers DEF Servers
<1>3. D \in SUBSET Entries(s.sock_buf_arr)
  BY Sides, PeeredEntries
<1>4. disconnect_client(s, c) = Drop(s, D)
  BY <1>1 DEF disconnect_client
<1> HIDE DEF D
<1>5. /\ Entries(Drop(s, D).sock_buf_arr) = Entries(s.sock_buf_arr) \ D
      /\ \A i \in Entries(s.sock_buf_arr) \ D :
           Drop(s, D).sock_buf_arr[i] = s.sock_buf_arr[i]
  BY <1>3, DropSound DEF Paired
<1>6. Clients(Drop(s, D)) = Clients(s) \ {c}
  BY <1>2, <1>5 DEF Clients, Servers, D
<1>7. Servers(Drop(s, D)) = {v \in Servers(s) : s.sock_buf_arr[v].peer # c}
  BY <1>2, <1>5 DEF Clients, Servers, D
<1>8. \A v \in Servers(s) :
        s.sock_buf_arr[v].peer # c
          => Drop(s, D).sock_buf_arr[v] = s.sock_buf_arr[v]
  BY <1>2, <1>5 DEF Clients, Servers, D
<1> QED
  BY <1>4, <1>6, <1>7, <1>8 DEF Leaves, Changes

\* Freeing an SSL object changes nobody's side or peer.
LEMMA ClearSslSame ==
  ASSUME NEW s, Paired(s), NEW fd
  PROVE  Same(s, ClearSsl(s, fd))
<1> DEFINE t == ClearSsl(s, fd)
<1>1. /\ Entries(t.sock_buf_arr) = Entries(s.sock_buf_arr)
      /\ \A i \in Entries(s.sock_buf_arr) :
           /\ t.sock_buf_arr[i].is_client = s.sock_buf_arr[i].is_client
           /\ t.sock_buf_arr[i].peer = s.sock_buf_arr[i].peer
  BY ClearSslPaired
<1> HIDE DEF t
<1>2. Same(s, t)
  BY <1>1 DEF Same, Changes, Clients, Servers
<1> QED
  BY <1>2 DEF t

\* Closing a server ends it, and its client too when they form a tunnel.
LEMMA DisconnectServerStep ==
  ASSUME NEW s, Paired(s), NEW v \in Servers(s)
  PROVE  LET t == disconnect_server(s, v)
             c == s.sock_buf_arr[v].peer
         IN  IF s.sock_buf_arr[v].is_forward THEN Leaves(s, t, c)
             ELSE Detaches(s, t, v)
<1> DEFINE c == s.sock_buf_arr[v].peer
           u == IF s.sock_buf_arr[v].ssl THEN ClearSsl(s, c) ELSE s
           t == disconnect_server(s, v)
<1>1. Paired(u) /\ Same(s, u)
  BY ClearSslPaired, ClearSslSame, SameStep
<1>2. CASE s.sock_buf_arr[v].is_forward
  <2>1. c \in Clients(u) /\ t = disconnect_client(u, c)
    BY <1>2, ForwardingServerLeaves
  <2> HIDE DEF u, t
  <2>2. Leaves(u, t, c)
    BY <1>1, <2>1, DisconnectClientLeaves
  <2>3. Leaves(s, t, c)
    BY <1>1, <2>2 DEF Leaves, Same, Changes
  <2> QED
    BY <1>2, <2>3 DEF t
<1>3. CASE ~s.sock_buf_arr[v].is_forward
  <2>1. Conn(s, v) # NULL
    BY Sides, EntryIsConn DEF Paired
  <2>2. t = Drop(u, {v})
    BY <1>3, <2>1 DEF disconnect_server
  <2> HIDE DEF u, t
  <2>3. v \in Servers(u) /\ {v} \in SUBSET Entries(u.sock_buf_arr)
    BY <1>1, Sides DEF Same, Changes
  <2>4. /\ Entries(t.sock_buf_arr) = Entries(u.sock_buf_arr) \ {v}
        /\ \A i \in Entries(u.sock_buf_arr) \ {v} :
             t.sock_buf_arr[i] = u.sock_buf_arr[i]
    BY <1>1, <2>2, <2>3, DropSound DEF Paired
  <2>5. Detaches(u, t, v)
    BY <2>3, <2>4 DEF Detaches, Changes, Clients, Servers
  <2>6. Detaches(s, t, v)
    BY <1>1, <2>5 DEF Detaches, Same, Changes
  <2> QED
    BY <1>3, <2>6 DEF t
<1> QED
  BY <1>2, <1>3

\* The same, as a step of Sessions.
LEMMA DisconnectStep ==
  ASSUME NEW s, Paired(s), NEW fd
  PROVE  /\ fd \in Clients(s) \/ Conn(s, fd) = NULL
              => SessionStep(s, disconnect_client(s, fd))
         /\ fd \in Servers(s) \/ Conn(s, fd) = NULL
              => SessionStep(s, disconnect_server(s, fd))
<1>1. CASE Conn(s, fd) = NULL
  <2>1. fd \notin Clients(s) /\ fd \notin Servers(s)
    BY <1>1, Sides, EntryIsConn DEF Paired
  <2> QED
    BY <1>1, <2>1, SameStep DEF disconnect_client, disconnect_server
<1>2. CASE fd \in Clients(s)
  BY <1>2, DisconnectClientLeaves, Sides, EntryIsConn DEF SessionStep, Paired
<1>3. CASE fd \in Servers(s)
  <2>1. s.sock_buf_arr[fd].peer \in Fd
    BY <1>3, Sides DEF Paired, ServerOwned
  <2> QED
    BY <1>3, <2>1, DisconnectServerStep, Sides, EntryIsConn
       DEF SessionStep, Paired
<1> QED
  BY <1>1, <1>2, <1>3

\* The peer of a client is a server, or has gone.
LEMMA ClientPeer ==
  ASSUME NEW s, Paired(s), NEW c \in Clients(s)
  PROVE  LET p == s.sock_buf_arr[c].peer IN
           p \in Servers(s) \/ Conn(s, p) = NULL
<1> DEFINE p == s.sock_buf_arr[c].peer
<1>1. CASE s.sock_buf_arr[c].is_forward
  BY <1>1 DEF Paired, TunnelPaired, Clients, Servers
<1>2. CASE ~s.sock_buf_arr[c].is_forward
  <2>1. p = NoPeer
    BY <1>2 DEF Paired, TunnelPaired, Clients
  <2> QED
    BY <2>1, Descriptors DEF Conn, sock_buf_get, is_valid_fd
<1> QED
  BY <1>1, <1>2

\* What connect_server does to the sessions.
LEMMA ConnectServerStep ==
  ASSUME NEW s, Paired(s), NEW c \in Clients(s),
         NEW r \in connect_server(s, c)
  PROVE  /\ r.sock < 0 => r.sock = -1 /\ Same(s, r.net)
         /\ ~(r.sock < 0) =>
              /\ Attaches(s, r.net, c, r.sock)
              /\ r.sock \in Servers(r.net)
              /\ ~r.net.sock_buf_arr[r.sock].is_forward
              /\ r.net.sock_buf_arr[r.sock].peer = c
<1>1. CASE r.sock = -1 /\ r.net.sock_buf_arr = s.sock_buf_arr
  BY <1>1 DEF Same, Changes, Clients, Servers
<1>2. CASE /\ r.sock \in Fd \ Entries(s.sock_buf_arr)
           /\ Entries(r.net.sock_buf_arr)
                = Entries(s.sock_buf_arr) \cup {r.sock}
           /\ r.net.sock_buf_arr[r.sock] = ServerBuf(c)
           /\ \A i \in Entries(s.sock_buf_arr) :
                r.net.sock_buf_arr[i] = s.sock_buf_arr[i]
  <2>1. ~(r.sock < 0)
    BY <1>2, FdNat
  <2>2. /\ ~ServerBuf(c).is_client /\ ~ServerBuf(c).is_forward
        /\ ServerBuf(c).peer = c
    BY DEF ServerBuf
  <2>3. Clients(r.net) = Clients(s)
    BY <1>2, <2>2 DEF Clients
  <2>4. Servers(r.net) = Servers(s) \cup {r.sock}
    BY <1>2, <2>2 DEF Servers
  <2> QED
    BY <1>2, <2>1, <2>2, <2>3, <2>4, Sides DEF Attaches, Changes
<1> QED
  BY <1>1, <1>2, ConnectServerPaired

\* Forwarding a request is one step of Sessions, or none.
LEMMA ForwardRequestStep ==
  ASSUME NEW s, Paired(s), NEW c \in Clients(s),
         NEW t \in ForwardRequest(s, c)
  PROVE  Paired(t) /\ SessionStep(s, t)
<1>1. CASE s.sock_buf_arr[c].ssl
  <2>1. t = s \/ t = disconnect_server(s, s.sock_buf_arr[c].peer)
    BY <1>1 DEF ForwardRequest
  <2> QED
    BY <2>1, ClientPeer, SameStep, DisconnectStep, DisconnectServerPaired
<1>2. CASE ~s.sock_buf_arr[c].ssl
  <2>1. PICK r \in connect_server(s, c) :
          t \in IF r.sock < 0 THEN {r.net}
                ELSE {r.net, disconnect_server(r.net, r.sock)}
    BY <1>2 DEF ForwardRequest
  <2>2. Paired(r.net)
    BY ConnectServerPaired
  <2>3. CASE r.sock < 0
    BY <2>1, <2>2, <2>3, ConnectServerStep DEF SessionStep
  <2>4. CASE ~(r.sock < 0)
    <3>1. /\ Attaches(s, r.net, c, r.sock) /\ r.sock \in Servers(r.net)
          /\ ~r.net.sock_buf_arr[r.sock].is_forward
      BY <2>4, ConnectServerStep
    <3>2. c \in Fd /\ r.sock \in Fd
      BY <3>1, Sides
    <3>3. CASE t = r.net
      BY <2>2, <3>1, <3>2, <3>3 DEF SessionStep
    <3>4. CASE t = disconnect_server(r.net, r.sock)
      <4>1. Paired(t)
        BY <2>2, <3>1, <3>4, DisconnectServerPaired
      <4>2. Detaches(r.net, t, r.sock)
        BY <2>2, <3>1, <3>4, DisconnectServerStep
      <4>3. Same(s, t)
        BY <3>1, <4>2, Sides DEF Attaches, Detaches, Same, Changes
      <4> QED
        BY <4>1, <4>3 DEF SessionStep
    <3> QED
      BY <2>1, <2>4, <3>3, <3>4
  <2> QED
    BY <2>3, <2>4
<1> QED
  BY <1>1, <1>2

\* The tunnel's set-up changes no session, unless the reply fails and the
\* client leaves.
LEMMA SetupTunnelStep ==
  ASSUME NEW s, Paired(s), NEW c \in Clients(s), NEW v \in Servers(s),
         s.sock_buf_arr[v].peer = c, ~s.sock_buf_arr[v].is_forward,
         NEW t \in SetupTunnel(s, c, v)
  PROVE  Paired(t) /\ (Same(s, t) \/ Leaves(s, t, c))
<1> DEFINE q == Join(s, c, v)
<1>1. Paired(q) /\ c \in Clients(q) /\ Same(s, q)
  BY JoinPaired DEF Same, Changes
<1>2. t = q \/ t = disconnect_client(q, c)
  BY DEF SetupTunnel
<1> HIDE DEF q
<1>3. CASE t = disconnect_client(q, c)
  <2>1. Paired(t) /\ Leaves(q, t, c)
    BY <1>1, <1>3, DisconnectClientPaired, DisconnectClientLeaves
  <2> QED
    BY <1>1, <2>1 DEF Leaves, Same, Changes
<1> QED
  BY <1>1, <1>2, <1>3

\* So is a CONNECT in default mode.
LEMMA ConnectRequestStep ==
  ASSUME UseSsl = FALSE, NEW s, Paired(s), NEW c \in Clients(s),
         NEW t \in handle_connect_request(s, c)
  PROVE  Paired(t) /\ SessionStep(s, t)
<1>1. PICK r \in connect_server(s, c) :
        t \in IF r.sock < 0 THEN {r.net} ELSE SetupTunnel(r.net, c, r.sock)
  BY DEF handle_connect_request
<1> DEFINE n == r.net
           v == r.sock
<1>2. Paired(n) /\ c \in Clients(n)
  BY ConnectServerPaired
<1>3. CASE v < 0
  BY <1>1, <1>2, <1>3, ConnectServerStep DEF SessionStep
<1>4. CASE ~(v < 0)
  <2>1. /\ Attaches(s, n, c, v) /\ v \in Servers(n)
        /\ ~n.sock_buf_arr[v].is_forward /\ n.sock_buf_arr[v].peer = c
    BY <1>4, ConnectServerStep
  <2>2. t \in SetupTunnel(n, c, v)
    BY <1>1, <1>4
  <2> HIDE DEF n, v
  <2>3. Paired(t) /\ (Same(n, t) \/ Leaves(n, t, c))
    BY <1>2, <2>1, <2>2, SetupTunnelStep
  <2>4. CASE Same(n, t)
    <3>1. Attaches(s, t, c, v)
      BY <2>1, <2>4 DEF Attaches, Same, Changes
    <3> QED
      BY <2>3, <3>1, Sides DEF SessionStep, Attaches
  <2>5. CASE Leaves(n, t, c)
    <3>1. Leaves(s, t, c)
      BY <2>1, <2>5, Sides DEF Leaves, Attaches, Changes
    <3> QED
      BY <2>3, <3>1, Sides DEF SessionStep
  <2> QED
    BY <2>3, <2>4, <2>5
<1> QED
  BY <1>3, <1>4

\* Serving one request.
LEMMA RequestsStep ==
  ASSUME UseSsl = FALSE, NEW s, Paired(s), NEW c \in Clients(s),
         NEW t \in handle_get_request(s, c)
                    \cup handle_connect_request(s, c)
                    \cup handle_other_request(s, c)
  PROVE  Paired(t) /\ SessionStep(s, t)
<1>1. CASE t \in handle_connect_request(s, c)
  BY <1>1, ConnectRequestStep
<1>2. CASE t \in ForwardRequest(s, c)
  BY <1>2, ForwardRequestStep
<1>3. CASE t = s
  BY <1>3, SameStep
<1>4. CASE t = disconnect_client(s, c)
  BY <1>4, DisconnectStep, DisconnectClientPaired
<1> QED
  BY <1>1, <1>2, <1>3, <1>4 DEF handle_get_request, handle_other_request

\* A response: either the write fails and the client leaves, or the server
\* may go.
LEMMA ResponseStep ==
  ASSUME NEW s, Paired(s), NEW v \in Servers(s),
         NEW sent \in fast_forward(s, v),
         NEW t \in handle_server_response(sent, v)
  PROVE  Paired(t) /\ SessionStep(s, t)
<1> DEFINE c == s.sock_buf_arr[v].peer
<1>1. c \in Clients(s)
  BY DEF Paired, ServerOwned
<1>2. sent = s \/ sent = disconnect_client(s, c)
  BY DEF fast_forward
<1>3. CASE sent = s
  <2>1. t = s \/ t = disconnect_server(s, v)
    BY <1>3 DEF handle_server_response
  <2> QED
    BY <2>1, SameStep, DisconnectStep, DisconnectServerPaired
<1>4. CASE sent = disconnect_client(s, c)
  <2>1. Paired(sent) /\ Leaves(s, sent, c)
    BY <1>1, <1>4, DisconnectClientPaired, DisconnectClientLeaves
  <2>2. v \notin Entries(sent.sock_buf_arr)
    BY <2>1, Sides DEF Leaves, Changes
  <2>3. Conn(sent, v) = NULL
    BY <2>1, <2>2, ConnIsEntry DEF Paired, Sound
  <2>4. t = sent
    BY <2>3 DEF handle_server_response
  <2> QED
    BY <1>1, <2>1, <2>4, Sides DEF SessionStep
<1> QED
  BY <1>2, <1>3, <1>4

\* So is the disconnect of either side.
LEMMA DisconnectEitherStep ==
  ASSUME NEW s, Paired(s), NEW fd \in Entries(s.sock_buf_arr)
  PROVE  Paired(Disconnect(s, fd)) /\ SessionStep(s, Disconnect(s, fd))
<1>1. CASE fd \in Clients(s)
  BY <1>1, DisconnectStep, DisconnectClientPaired DEF Disconnect, Clients
<1>2. CASE fd \in Servers(s)
  BY <1>2, DisconnectStep, DisconnectServerPaired DEF Disconnect, Servers
<1> QED
  BY <1>1, <1>2, Sides

-----------------------------------------------------------------------------
(* Default mode: the invariant and the refinement.                         *)

\* The inductive invariant: the requests of the request loop are a client's,
\* so its handlers are only ever called for one.
DefaultInv ==
  /\ Running /\ ServerOwned(net) /\ TunnelPaired(net)
  /\ pc = "requests" /\ Conn(net, scan) # NULL => scan \in Clients(net)

\* Without connections there is nothing to pair.
LEMMA EmptyPaired ==
  ASSUME NEW s, s.sock_buf_arr = EmptyTable
  PROVE  /\ ServerOwned(s) /\ TunnelPaired(s)
         /\ Clients(s) = {} /\ Servers(s) = {}
<1>1. Entries(s.sock_buf_arr) = {}
  BY DEF Entries, EmptyTable
<1> QED
  BY <1>1 DEF ServerOwned, TunnelPaired, Clients, Servers

\* The default-mode invariant holds at the start.
LEMMA InitDefault == Init => DefaultInv
<1> SUFFICES ASSUME Init PROVE DefaultInv
  OBVIOUS
<1>1. net.sock_buf_arr = EmptyTable
  BY DEF Init
<1> QED
  BY <1>1, EmptyPaired, InitRunning DEF Init, DefaultInv

\* No step turns a client's descriptor into a server's.
LEMMA StaysClient ==
  ASSUME NEW s, NEW t, SessionStep(s, t), NEW c \in Clients(s), Sound(t),
         Conn(t, c) # NULL
  PROVE  c \in Clients(t)
<1>1. c \in Entries(t.sock_buf_arr)
  BY ConnIsEntry DEF Sound
<1>2. c \notin Servers(t)
  BY Sides DEF SessionStep, Same, Admits, Attaches, Detaches, Leaves, Changes
<1> QED
  BY <1>1, <1>2, Sides

\* Every step in default mode keeps it.
LEMMA DefaultStep ==
  ASSUME UseSsl = FALSE, DefaultInv, [Next]_vars
  PROVE  /\ DefaultInv'
         /\ \/ SessionStep(net, net')
            \/ Clients(net') = {} /\ Servers(net') = {}
<1>0. Running'
  BY StepRunning DEF DefaultInv
<1>p. pc # "stopped" => Paired(net)
  BY DEF DefaultInv, Running, TypeOK, DescriptorsConsistent, OnlyFailuresLeak,
         Paired, Sound, Accounted
<1>a. ASSUME NEW s, Paired(s), SessionStep(net, s), Become(s),
             pc' # "requests"
      PROVE  /\ DefaultInv' /\ SessionStep(net, net')
  BY <1>0, <1>a DEF DefaultInv, Become, Paired
<1>b. ASSUME UNCHANGED net, pc' # "requests"
      PROVE  DefaultInv' /\ SessionStep(net, net')
  BY <1>0, <1>b, SameStep DEF DefaultInv
<1>1. CASE Select
  BY <1>1, <1>b DEF Select
<1>2. CASE SkipFd
  BY <1>2, <1>b DEF SkipFd
<1>3. CASE AcceptClient
  <2>1. Paired(net)
    BY <1>3, <1>p DEF AcceptClient
  <2>2. CASE Become(net)
    BY <1>3, <1>a, <2>1, <2>2, SameStep DEF AcceptClient
  <2>3. CASE \E fd \in LowestFree(net) :
               Become(IF CanAddClient(net.sock_buf_arr, fd)
                      THEN Register(net, fd, ClientBuf) ELSE net)
    <3>1. PICK fd \in LowestFree(net) :
            Become(IF CanAddClient(net.sock_buf_arr, fd)
                   THEN Register(net, fd, ClientBuf) ELSE net)
      BY <2>3
    <3>2. CASE ~CanAddClient(net.sock_buf_arr, fd)
      BY <1>3, <1>a, <2>1, <3>1, <3>2, SameStep DEF AcceptClient
    <3>3. CASE CanAddClient(net.sock_buf_arr, fd)
      <4> DEFINE t == Register(net, fd, ClientBuf)
      <4>1. /\ fd \in Fd /\ fd # ListenSock /\ fd \notin net.open
            /\ ClientBuf \in Entry
        BY <2>1 DEF LowestFree, Paired, Sound, Consistent, ClientBuf, Entry
      <4>2. /\ Paired(t)
            /\ Entries(t.sock_buf_arr) = Entries(net.sock_buf_arr) \cup {fd}
            /\ t.sock_buf_arr[fd] = ClientBuf
            /\ \A i \in Entries(net.sock_buf_arr) :
                 i # fd /\ t.sock_buf_arr[i] = net.sock_buf_arr[i]
        BY <2>1, <3>3, <4>1, RegisterPaired
      <4>3. Become(t)
        BY <3>1, <3>3
      <4> HIDE DEF t
      <4>4. ClientBuf.is_client
        BY DEF ClientBuf
      <4>5. Clients(t) = Clients(net) \cup {fd} /\ Servers(t) = Servers(net)
        BY <4>2, <4>4 DEF Clients, Servers
      <4>6. \A v \in Servers(net) :
              t.sock_buf_arr[v].peer = net.sock_buf_arr[v].peer
        BY <4>2 DEF Servers
      <4>7. fd \notin Entries(net.sock_buf_arr)
        BY <4>2
      <4>8. SessionStep(net, t)
        BY <4>1, <4>5, <4>6, <4>7 DEF SessionStep, Admits, Changes
      <4> QED
        BY <1>3, <1>a, <4>2, <4>3, <4>8 DEF AcceptClient
    <3> QED
      BY <3>2, <3>3
  <2> QED
    BY <1>3, <2>2, <2>3 DEF AcceptClient
<1>4. CASE HandleUnknown
  BY <1>4, <1>b DEF HandleUnknown
<1>5. CASE CheckTimeout
  <2>1. Paired(net) /\ pc' # "requests"
    BY <1>5, <1>p DEF CheckTimeout, NextFd
  <2>2. CASE Become(net)
    BY <1>a, <2>1, <2>2, SameStep
  <2>3. CASE Conn(net, scan) # NULL /\ Become(Disconnect(net, scan))
    <3>1. scan \in Entries(net.sock_buf_arr)
      BY <2>1, <2>3, ConnIsEntry DEF Paired, Sound
    <3> QED
      BY <1>a, <2>1, <2>3, <3>1, DisconnectEitherStep
  <2> QED
    BY <1>5, <2>2, <2>3 DEF CheckTimeout
<1>6. CASE ServeRequest
  <2>1. Paired(net) /\ scan \in Clients(net) /\ scan' = scan
    BY <1>6, <1>p DEF ServeRequest, DefaultInv
  <2>2. PICK s \in handle_get_request(net, scan)
                     \cup handle_connect_request(net, scan)
                     \cup handle_other_request(net, scan) : Become(s)
    BY <1>6 DEF ServeRequest
  <2>3. Paired(s) /\ SessionStep(net, s)
    BY <2>1, RequestsStep
  <2>4. net' = s
    BY <2>2 DEF Become
  <2>5. Conn(s, scan) # NULL => scan \in Clients(s)
    BY <2>1, <2>3, StaysClient DEF Paired
  <2> QED
    BY <1>0, <2>1, <2>3, <2>4, <2>5 DEF DefaultInv, Paired
<1>7. CASE SslWriteToNull
  BY <1>7, <1>b DEF SslWriteToNull
<1>8. CASE RequestsDone
  BY <1>8, <1>b DEF RequestsDone
<1>9. CASE DanglingRequests
  BY <1>9, <1>b DEF DanglingRequests
<1>10. ASSUME NEW fd \in Fd, Read(fd)
       PROVE  DefaultInv' /\ SessionStep(net, net')
  <2> DEFINE buf == net.sock_buf_arr[fd]
  <2>0. HandleMsg(fd)
    BY <1>10 DEF Read, ReadEnds, ReadForward, ReadRequests, ReadResponse
  <2>1. Paired(net) /\ fd = scan /\ Conn(net, fd) # NULL
    BY <1>p, <2>0 DEF HandleMsg
  <2>2. fd \in Entries(net.sock_buf_arr)
    BY <2>1, ConnIsEntry DEF Paired, Sound
  <2>3. CASE ReadEnds(fd)
    BY <1>a, <2>1, <2>2, <2>3, DisconnectEitherStep DEF ReadEnds
  <2>4. CASE ReadForward(fd)
    <3>1. /\ buf.is_client => buf.peer \in Servers(net)
          /\ ~buf.is_client => buf.peer \in Clients(net)
      BY <2>1, <2>2, <2>4
         DEF ReadForward, Paired, ServerOwned, TunnelPaired, Clients, Servers
    <3>2. PICK s : /\ Become(s)
                   /\ s = net \/ s = IF buf.is_client
                                     THEN disconnect_server(net, buf.peer)
                                     ELSE disconnect_client(net, buf.peer)
      BY <2>4 DEF ReadForward
    <3>3. Paired(s) /\ SessionStep(net, s)
      BY <2>1, <3>1, <3>2, SameStep, DisconnectStep,
         DisconnectServerPaired, DisconnectClientPaired
    <3> QED
      BY <1>a, <2>4, <3>2, <3>3 DEF ReadForward
  <2>5. CASE ReadRequests(fd)
    <3>1. net' = net /\ scan' = scan /\ fd \in Clients(net)
      BY <2>0, <2>2, <2>5 DEF ReadRequests, HandleMsg, Clients
    <3> QED
      BY <1>0, <2>1, <3>1, SameStep DEF DefaultInv
  <2>6. CASE ReadResponse(fd)
    <3>1. fd \in Servers(net)
      BY <2>2, <2>6 DEF ReadResponse, Servers
    <3>2. PICK s : Become(s) /\ Paired(s) /\ SessionStep(net, s)
      BY <2>1, <2>6, <3>1, ResponseStep DEF ReadResponse
    <3> QED
      BY <1>a, <2>6, <3>2 DEF ReadResponse
  <2> QED
    BY <1>10, <2>3, <2>4, <2>5, <2>6 DEF Read
<1>11. CASE Interrupt
  <2>1. net'.sock_buf_arr = EmptyTable /\ pc' # "requests"
    BY <1>11 DEF Interrupt, DefaultInv, Running, TypeOK, Net
  <2> QED
    BY <1>0, <2>1, EmptyPaired DEF DefaultInv
<1>12. CASE UNCHANGED vars
  BY <1>0, <1>12, SameStep DEF vars, DefaultInv
<1> QED
  BY <1>1, <1>2, <1>3, <1>4, <1>5, <1>6, <1>7, <1>8, <1>9, <1>10, <1>11,
     <1>12 DEF Next, Loop, Halted

\* So it holds in every state.
LEMMA DefaultHolds ==
  ASSUME UseSsl = FALSE
  PROVE  Spec => []DefaultInv
<1>1. DefaultInv /\ [Next]_vars => DefaultInv'
  BY DefaultStep
<1> QED
  BY <1>1, InitDefault, PTL DEF Spec

\* In default mode, whatever the network does and however many clients there
\* are, every server connection belongs to a connected client:
\* disconnect_client's scan over the peers misses none, and no other handler
\* leaves one behind.
THEOREM DefaultOwned ==
  ASSUME UseSsl = FALSE
  PROVE  Spec => []ServersHaveClient
<1>1. DefaultInv => ServersHaveClient
  BY DEF DefaultInv, ServersHaveClient
<1> QED
  BY <1>1, DefaultHolds, PTL

\* In default mode a forwarding server always has a connected, forwarding
\* client, and that client and the server it forwards to are each other's
\* peers: disconnect_server and disconnect_client take them down in one step,
\* wherever the failure was seen.
THEOREM DefaultTunnels ==
  ASSUME UseSsl = FALSE
  PROVE  Spec => []TunnelsPaired
<1>1. DefaultInv => TunnelsPaired
  BY DEF DefaultInv, TunnelsPaired
<1> QED
  BY <1>1, DefaultHolds, PTL

-----------------------------------------------------------------------------
(* Default mode: the proxy implements Sessions.                            *)

\* The initial state is one of Sessions.
LEMMA InitSessions == Init => Abstract!Init
<1> SUFFICES ASSUME Init PROVE Abstract!Init
  OBVIOUS
<1>1. Clients(net) = {} /\ Servers(net) = {}
  BY EmptyPaired DEF Init
<1> QED
  BY <1>1 DEF Abstract!Init, Owner

\* When a step keeps the peers of the servers that stay, the owners it leaves
\* are the old ones restricted to those servers.
LEMMA KeepsOwners ==
  ASSUME NEW s, NEW t, NEW C, NEW V \in SUBSET Servers(s),
         Changes(s, t, C, V)
  PROVE  Owner(t) = [v \in V |-> Owner(s)[v]]
BY DEF Changes, Owner

\* What the handlers do to clients and owners is a step of Sessions, or none.
LEMMA StepSessions ==
  ASSUME \/ SessionStep(net, net')
         \/ Clients(net') = {} /\ Servers(net') = {}
  PROVE  [Abstract!Next]_Abstract!vars
<1> DEFINE t == net'
<1>0. /\ DOMAIN Owner(net) = Servers(net)
      /\ Owner(net)' = Owner(t) /\ Clients(net)' = Clients(t)
      /\ \A v \in Servers(net) : Owner(net)[v] = net.sock_buf_arr[v].peer
  BY DEF Owner, Clients, Servers, Entries
<1>1. Abstract!Servers = Servers(net)
  BY <1>0 DEF Abstract!Servers
<1> HIDE DEF t
<1>2. CASE Same(net, t)
  <2>1. Owner(t) = [v \in Servers(net) |-> Owner(net)[v]]
    BY <1>2, KeepsOwners DEF Same
  <2>2. Owner(t) = Owner(net)
    BY <2>1 DEF Owner
  <2> QED
    BY <1>0, <1>2, <2>2 DEF Same, Changes, Abstract!vars
<1>3. ASSUME NEW c \in Fd, Admits(net, t, c) PROVE Abstract!Next
  <2>1. Owner(t) = [v \in Servers(net) |-> Owner(net)[v]]
    BY <1>3, KeepsOwners DEF Admits
  <2>2. Owner(t) = Owner(net)
    BY <2>1 DEF Owner
  <2>3. Abstract!Admit(c)
    BY <1>0, <1>1, <1>3, <2>2, Sides DEF Admits, Changes, Abstract!Admit
  <2> QED
    BY <2>3 DEF Abstract!Next
<1>4. ASSUME NEW c \in Fd, Leaves(net, t, c) PROVE Abstract!Next
  <2> DEFINE V == {v \in Servers(net) : net.sock_buf_arr[v].peer # c}
  <2>1. Owner(t) = [v \in V |-> Owner(net)[v]]
    BY <1>4, KeepsOwners DEF Leaves
  <2>2. V = {v \in Servers(net) : Owner(net)[v] # c}
    BY <1>0
  <2>3. Abstract!Leave(c)
    BY <1>0, <1>1, <1>4, <2>1, <2>2
       DEF Leaves, Changes, Abstract!Leave, Abstract!Keep
  <2> QED
    BY <2>3 DEF Abstract!Next
<1>5. ASSUME NEW v \in Fd, Detaches(net, t, v) PROVE Abstract!Next
  <2>1. Owner(t) = [x \in Servers(net) \ {v} |-> Owner(net)[x]]
    BY <1>5, KeepsOwners DEF Detaches
  <2>2. Abstract!Detach(v)
    BY <1>0, <1>1, <1>5, <2>1
       DEF Detaches, Changes, Abstract!Detach, Abstract!Keep
  <2> QED
    BY <2>2 DEF Abstract!Next
<1>6. ASSUME NEW c \in Fd, NEW v \in Fd, Attaches(net, t, c, v)
      PROVE  Abstract!Next
  <2>1. Owner(t) = [x \in Servers(net) \cup {v} |->
                      IF x = v THEN c ELSE Owner(net)[x]]
    <3>1. Servers(t) = Servers(net) \cup {v} /\ t.sock_buf_arr[v].peer = c
      BY <1>6 DEF Attaches, Changes
    <3>2. \A x \in Servers(net) :
            t.sock_buf_arr[x].peer = net.sock_buf_arr[x].peer
      BY <1>6 DEF Attaches, Changes
    <3> QED
      BY <1>0, <3>1, <3>2 DEF Owner
  <2>2. Abstract!Attach(c, v)
    BY <1>0, <1>1, <1>6, <2>1, Sides DEF Attaches, Changes, Abstract!Attach
  <2> QED
    BY <2>2 DEF Abstract!Next
<1>7. CASE Clients(t) = {} /\ Servers(t) = {}
  <2>1. Owner(t) = [v \in {} |-> Owner(net)[v]]
    BY <1>7 DEF Owner
  <2>2. Abstract!Shutdown
    BY <1>0, <1>7, <2>1 DEF Abstract!Shutdown, Abstract!Keep
  <2> QED
    BY <2>2 DEF Abstract!Next
<1>8. SessionStep(net, t) \/ (Clients(t) = {} /\ Servers(t) = {})
  BY DEF t
<1> QED
  BY <1>2, <1>3, <1>4, <1>5, <1>6, <1>7, <1>8 DEF SessionStep

\* In default mode the proxy implements Sessions for every number of
\* descriptors: each step, whatever handler it runs, admits one client, or
\* loses one with exactly its own servers, or opens or loses one server, or
\* shuts everything down.
THEOREM DefaultImplements ==
  ASSUME UseSsl = FALSE
  PROVE  Spec => ImplementsSessions
<1>1. DefaultInv /\ [Next]_vars => [Abstract!Next]_Abstract!vars
  BY DefaultStep, StepSessions
<1>2. Spec => []DefaultInv
  BY DefaultHolds
<1> QED
  BY <1>1, <1>2, InitSessions, PTL
     DEF Spec, ImplementsSessions, Abstract!Spec
=============================================================================
