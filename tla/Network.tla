------------------------------ MODULE Network ------------------------------
(***************************************************************************)
(* The connections of the servers and clients, from the start of the       *)
(* processes to the start of the experiment.  A server listens, connects   *)
(* to the servers with smaller ids, and waits until it has a connection to *)
(* every peer and to num_clients clients.  The initial leader then chooses *)
(* the time at which the experiment starts and sends it to its peers and   *)
(* clients; the other servers relay it to theirs.                          *)
(* A connection is a pair <<connector, acceptor>>.  A TCP connection is    *)
(* there for the connector before the acceptor has read the handshake, and *)
(* what the acceptor's codec has read behind the handshake is dropped with *)
(* the codec.  A connection that breaks is not made again.                 *)
(***************************************************************************)
EXTENDS Integers, Sequences, FiniteSets

CONSTANTS
  Servers,        \* ids of the servers
  Clients,
  Home,           \* Home[c]: the server that client c connects to
  InitialLeader,  \* initial_leader of the cluster configuration
  MaxBreaks       \* bound on the connections that break

ASSUME NetworkAssumption ==
  /\ Servers \subseteq Nat \ {0} /\ IsFiniteSet(Servers)
  /\ IsFiniteSet(Clients) /\ Clients \cap Servers = {}
  /\ Home \in [Clients -> Servers]
  /\ InitialLeader \in Servers
  /\ MaxBreaks \in Nat

Processes == Servers \cup Clients
ClientsOf(s) == {c \in Clients : Home[c] = s}
num_clients(s) == Cardinality(ClientsOf(s))
Connections == Processes \X Servers

VARIABLES
  boot,      \* boot[s]: "off", "connecting", "establishing" or "running"
  link,      \* link[x, s]: "none", "open", "registered" or "broken"
  arrived,   \* arrived[s]: the other ends in the channel of new connections
  peer_connections,    \* peer_connections[s]: peers s can send to
  client_connections,  \* client_connections[s]: client ids to clients
  max_client_id,
  client_id, \* client_id[c]: the id its server has given to c
  promised,  \* promised[s]: s has promised its own ballot
  wire,      \* wire[x, y]: what x has sent to y and y has not handled
  swallowed, \* pairs <<x, y>> on which messages went with the handshake
  breaks     \* number of connections that broke

netVars == <<boot, link, arrived, peer_connections, client_connections,
             max_client_id, client_id, promised, wire, swallowed, breaks>>

slots == <<peer_connections, client_connections>>
ids == <<max_client_id, client_id>>
faults == <<swallowed, breaks>>

StartSignal == <<"StartSignal", 0>>

NetInit ==
  /\ boot = [s \in Servers |-> "off"]
  /\ link = [l \in Connections |-> "none"]
  /\ arrived = [s \in Servers |-> {}]
  /\ peer_connections = [s \in Servers |-> {}]
  /\ client_connections = [s \in Servers |-> <<>>]
  /\ max_client_id = [s \in Servers |-> 0]
  /\ client_id = [c \in Clients |-> 0]
  /\ promised = [s \in Servers |-> FALSE]
  /\ wire = [p \in Processes \X Processes |-> <<>>]
  /\ swallowed = {} /\ breaks = 0

-----------------------------------------------------------------------------
(* Setting up connections.                                                 *)

\* Network::new: the listener and the connectors are spawned.
Boot(s) ==
  /\ boot[s] = "off"
  /\ boot' = [boot EXCEPT ![s] = "connecting"]
  /\ UNCHANGED <<link, arrived, slots, ids, promised, wire, faults>>

\* The listener is aborted once all connections are there.
Listening(s) == boot[s] = "connecting"

\* Mutant: a server connects to all of its peers.
PeersToConnectToAll(s) == Servers \ {s}
\* The filter of spawn_peer_connectors.
PeersToConnectTo(s) == {p \in Servers : p < s}

\* A connector of server x succeeds, sends the handshake and hands the
\* connection over.
ConnectPeer(x, s) ==
  /\ boot[x] # "off" /\ s \in PeersToConnectTo(x) /\ Listening(s)
  /\ link[<<x, s>>] = "none"
  /\ link' = [link EXCEPT ![<<x, s>>] = "open"]
  /\ arrived' = [arrived EXCEPT ![x] = @ \cup {s}]
  /\ UNCHANGED <<boot, slots, ids, promised, wire, faults>>

\* get_server_connection of client c, which returns with its first connection.
\* (A standalone proxy as a client connects again when its connection breaks,
\* and would be given a second id: not modelled.)
ConnectClient(c) ==
  /\ Listening(Home[c])
  /\ link[<<c, Home[c]>>] = "none"
  /\ link' = [link EXCEPT ![<<c, Home[c]>>] = "open"]
  /\ UNCHANGED <<boot, arrived, slots, ids, promised, wire, faults>>

\* Mutant: the id is taken before max_client_id is incremented.
NextClientIdOld(s) == max_client_id[s]
\* The id of the next client, assigned under the lock of max_client_id.
NextClientId(s) == max_client_id[s] + 1

\* handle_incoming_connection: the handshake is read, the first k messages
\* behind it are lost, a client gets its id and the actors of the connection
\* are started.
Register(x, s) ==
  /\ link[<<x, s>>] = "open"
  /\ link' = [link EXCEPT ![<<x, s>>] = "registered"]
  /\ arrived' = [arrived EXCEPT ![s] = @ \cup {x}]
  /\ IF x \in Clients
     THEN /\ max_client_id' = [max_client_id EXCEPT ![s] = @ + 1]
          /\ client_id' = [client_id EXCEPT ![x] = NextClientId(s)]
     ELSE UNCHANGED ids
  /\ \E k \in 0 .. Len(wire[<<x, s>>]) :
       /\ wire' = [wire EXCEPT ![<<x, s>>] = SubSeq(@, k + 1, Len(@))]
       /\ swallowed' = swallowed \cup (IF k = 0 THEN {} ELSE {<<x, s>>})
  /\ UNCHANGED <<boot, slots, promised, breaks>>

\* A turn of the loop of initialize_connections, which ends when every slot
\* of a peer is taken and enough clients are connected.
AddConnection(s) ==
  /\ boot[s] = "connecting"
  /\ \E new \in arrived[s] :
       /\ arrived' = [arrived EXCEPT ![s] = @ \ {new}]
       /\ peer_connections' = [peer_connections EXCEPT ![s] =
            IF new \in Servers THEN @ \cup {new} ELSE @]
       /\ client_connections' = [client_connections EXCEPT ![s] =
            IF new \in Clients
            THEN [i \in DOMAIN @ \cup {client_id[new]} |->
                    IF i = client_id[new] THEN new ELSE @[i]]
            ELSE @]
  /\ boot' = [boot EXCEPT ![s] =
       IF /\ Cardinality(DOMAIN client_connections'[s]) >= num_clients(s)
          /\ peer_connections'[s] = Servers \ {s}
       THEN "establishing" ELSE @]
  /\ UNCHANGED <<link, ids, promised, wire, faults>>

-----------------------------------------------------------------------------
(* Using connections.                                                      *)

\* The connections between x and y that the actors still serve.
Up(x, y) ==
  \E l \in {<<x, y>>, <<y, x>>} \cap Connections :
    link[l] \in {"open", "registered"}

\* y reads from x: a connector at once, an acceptor after the handshake.
Reads(y, x) ==
  \/ y \in Servers /\ link[<<x, y>>] \in {"registered", "broken"}
  \/ x \in Servers /\ link[<<y, x>>] # "none"

\* send_to_cluster and send_to_client: the writer of a broken connection
\* drops the message, and once it has ended the slot is emptied.
Send(x, to, m) ==
  wire' = [p \in DOMAIN wire |->
             IF p[1] = x /\ p[2] \in to /\ Up(x, p[2])
             THEN Append(wire[p], m) ELSE wire[p]]

EmptySlots(s, to) ==
  \E dead \in SUBSET {y \in to : ~Up(s, y)} :
    /\ peer_connections' = [peer_connections EXCEPT ![s] = @ \ dead]
    /\ client_connections' = [client_connections EXCEPT ![s] =
         [i \in {j \in DOMAIN @ : @[j] \notin dead} |-> @[i]]]

\* The message that y handles next leaves the connection.
Taken(x, y) == [wire EXCEPT ![<<x, y>>] = Tail(@)]

\* The clients that send_client_start_signals addresses: ids 1 to num_clients.
ClientsToStart(s) ==
  {client_connections[s][i] :
     i \in DOMAIN client_connections[s] \cap (1 .. num_clients(s))}

\* leader_takeover_interval: the first tick takes the leadership, the next
\* one finds it taken and sends the start signals.
TakeoverTick(s) ==
  /\ s = InitialLeader /\ boot[s] = "establishing"
  /\ IF promised[s]
     THEN LET to == peer_connections[s] \cup ClientsToStart(s)
          IN /\ boot' = [boot EXCEPT ![s] = "running"]
             /\ Send(s, to, StartSignal)
             /\ EmptySlots(s, to)
             /\ UNCHANGED promised
     ELSE /\ promised' = [promised EXCEPT ![s] = TRUE]
          /\ UNCHANGED <<boot, slots, wire>>
  /\ UNCHANGED <<link, arrived, ids, faults>>

\* handle_cluster_messages for LeaderStartSignal: relayed to the clients.
HandleStartSignal(x, s) ==
  /\ boot[s] \in {"establishing", "running"}
  /\ wire[<<x, s>>] # <<>> /\ Head(wire[<<x, s>>]) = StartSignal /\ Reads(s, x)
  /\ boot' = [boot EXCEPT ![s] = "running"]
  /\ wire' = [p \in DOMAIN wire |->
               IF p[1] = s /\ p[2] \in ClientsToStart(s) /\ Up(s, p[2])
               THEN Append(wire[p], StartSignal) ELSE Taken(x, s)[p]]
  /\ EmptySlots(s, ClientsToStart(s))
  /\ UNCHANGED <<link, arrived, ids, promised, faults>>

\* The connection <<x, s>> ends, and with it its readers and writers.  A part
\* of what was on it has been read and waits in the channels.
Disconnect(x, s) ==
  /\ link' = [link EXCEPT ![<<x, s>>] = "broken"]
  /\ \E i \in 0 .. Len(wire[<<x, s>>]), j \in 0 .. Len(wire[<<s, x>>]) :
       /\ link[<<x, s>>] = "open" => i = 0
       /\ wire' = [wire EXCEPT ![<<x, s>>] = SubSeq(@, 1, i),
                               ![<<s, x>>] = SubSeq(@, 1, j)]

Break(x, s) ==
  /\ breaks < MaxBreaks
  /\ link[<<x, s>>] \in {"open", "registered"}
  /\ Disconnect(x, s)
  /\ breaks' = breaks + 1
  /\ UNCHANGED <<boot, arrived, slots, ids, promised, swallowed>>

-----------------------------------------------------------------------------
(* Properties.                                                             *)

\* The ids that send_client_start_signals counts through are those of the
\* clients: once the server has left initialize_connections every client of
\* it has an id of 1 .. num_clients and no two have the same.
ClientsNumbered ==
  \A s \in Servers : boot[s] = "establishing" =>
    {c \in ClientsOf(s) : Up(c, s)} \subseteq ClientsToStart(s)

\* No connection comes in after initialize_connections has returned and
\* dropped the channel of new connections: the task that handed it over
\* would panic, and two servers would serve different connections.
NoLateConnection ==
  \A s \in Servers : boot[s] \in {"establishing", "running"} =>
    /\ arrived[s] = {}
    /\ \A x \in Processes : link[<<x, s>>] # "open"

=============================================================================
