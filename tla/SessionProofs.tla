----------------------------- MODULE SessionProofs -----------------------------
(***************************************************************************)
(* Connections and clients, for any number of servers and clients, any     *)
(* order of connections and any number of connections that break.          *)
(***************************************************************************)
EXTENDS Session, FiniteSetTheorems, TLAPS

-----------------------------------------------------------------------------
\* The inductive invariant of the connections.

Made == {"registered", "broken"}   \* the states of a link after its handshake

NetTypes ==
  /\ boot \in [Servers -> {"off", "connecting", "establishing", "running"}]
  /\ link \in [Connections -> {"none", "open"} \cup Made]
  /\ arrived \in [Servers -> SUBSET Processes]
  /\ peer_connections \in [Servers -> SUBSET Servers]
  /\ DOMAIN client_connections = Servers
  /\ max_client_id \in [Servers -> Nat]
  /\ client_id \in [Clients -> Nat]

\* Who connects to whom: a client to its home, a server to smaller ids.
Connects(x, s) == (x \in Clients /\ Home[x] = s) \/ (x \in Servers /\ s < x)
LinksProper == \A x \in Processes, s \in Servers : link[<<x, s>>] # "none" => Connects(x, s)

\* The ids of the clients of a server are 1 .. max_client_id, each given once
\* and to a client whose handshake has been read.
IdsGivenOnce ==
  \A s \in Servers :
    /\ \A c \in ClientsOf(s) : /\ client_id[c] <= max_client_id[s]
                               /\ client_id[c] > 0 => link[<<c, s>>] \in Made
    /\ \A c, d \in ClientsOf(s) :
         client_id[c] = client_id[d] /\ client_id[c] > 0 => c = d
    /\ \A k \in 1 .. max_client_id[s] : \E c \in ClientsOf(s) : client_id[c] = k

\* A process that server s knows of, in the channel or in a slot.
KnownPeer(s, x) ==
  (x < s /\ link[<<s, x>>] # "none") \/ (s < x /\ link[<<x, s>>] \in Made)
KnownClient(s, c) == Home[c] = s /\ client_id[c] > 0

\* What is in the channel of new connections is not in a slot yet.
SlotsMatch ==
  \A s \in Servers :
    /\ \A x \in arrived[s] : IF x \in Servers THEN KnownPeer(s, x) ELSE KnownClient(s, x)
    /\ \A x \in peer_connections[s] : KnownPeer(s, x) /\ x \notin arrived[s]
    /\ \A i \in DOMAIN client_connections[s] :
         /\ client_connections[s][i] \in Clients
         /\ KnownClient(s, client_connections[s][i])
         /\ client_id[client_connections[s][i]] = i
         /\ client_connections[s][i] \notin arrived[s]

\* A server that has left initialize_connections has connected to every peer
\* with a smaller id.
ConnectorsDone ==
  \A s \in Servers : boot[s] \in {"establishing", "running"} =>
    \A x \in Servers : x < s => link[<<s, x>>] # "none"

NetInv == /\ NetTypes /\ LinksProper /\ IdsGivenOnce /\ SlotsMatch
          /\ ConnectorsDone /\ NoLateConnection /\ ClientsNumbered

\* A client has one connection, to its home.
LEMMA ClientUp ==
  ASSUME NEW s \in Servers, NEW c \in Clients
  PROVE  /\ Up(c, s) <=> link[<<c, s>>] \in {"open", "registered"}
         /\ Up(s, c) <=> link[<<c, s>>] \in {"open", "registered"}
         /\ Up(c, s)' <=> link'[<<c, s>>] \in {"open", "registered"}
<1>1. c \notin Servers /\ <<s, c>> \notin Connections /\ <<c, s>> \in Connections
  BY NetworkAssumption DEF Connections, Processes
<1> QED
  BY <1>1 DEF Up

\* The moment when initialize_connections returns.  Every slot is taken, so
\* that nobody is left in the channel or on the way, and as many ids have been
\* given as there are clients.
LEMMA AllConnected ==
  ASSUME NetTypes', LinksProper', IdsGivenOnce', SlotsMatch', NEW s \in Servers,
         Cardinality(DOMAIN client_connections'[s]) >= num_clients(s),
         peer_connections'[s] = Servers \ {s}
  PROVE  /\ arrived'[s] = {}
         /\ \A x \in Processes : link'[<<x, s>>] # "open"
         /\ \A x \in Servers : x < s => link'[<<s, x>>] # "none"
         /\ ClientsOf(s) \subseteq ClientsToStart(s)'
<1> DEFINE D == DOMAIN client_connections'[s]
           f == [i \in D |-> client_connections'[s][i]]
<1>0. /\ client_id' \in [Clients -> Nat] /\ max_client_id'[s] \in Nat
      /\ arrived'[s] \subseteq Processes /\ Servers \subseteq Nat
  BY NetworkAssumption DEF NetTypes
<1>00. /\ \A c \in ClientsOf(s) : client_id'[c] \in Nat /\ client_id'[c] <= max_client_id'[s]
       /\ \A x \in Servers : (x < s => ~(s < x) /\ x # s) /\ (s < x => ~(x < s) /\ x # s)
  <2>1. \A c \in ClientsOf(s) : client_id'[c] <= max_client_id'[s]
    BY Zenon DEF IdsGivenOnce
  <2>2. \A x \in Servers : (x < s => ~(s < x) /\ x # s) /\ (s < x => ~(x < s) /\ x # s)
    BY <1>0
  <2> QED
    BY <1>0, <2>1, <2>2 DEF ClientsOf
<1>1. \A i \in D : /\ f[i] \in ClientsOf(s) /\ client_id'[f[i]] = i /\ i > 0
                   /\ f[i] \notin arrived'[s] /\ client_id'[f[i]] \in Nat
  BY <1>0 DEF SlotsMatch, KnownClient, ClientsOf
<1>2. IsFiniteSet(ClientsOf(s))
  BY NetworkAssumption, FS_Subset DEF ClientsOf
<1>3. f \in Injection(D, ClientsOf(s))
  BY <1>1 DEF Injection, IsInjective
<1>4. f \in Surjection(D, ClientsOf(s)) /\ IsFiniteSet(D)
  <2>1. IsFiniteSet(D) /\ Cardinality(D) <= num_clients(s)
    BY <1>2, <1>3, FS_Injection DEF num_clients
  <2>2. Cardinality(D) \in Nat /\ num_clients(s) \in Nat
    BY <1>2, <2>1, FS_CardinalityType DEF num_clients
  <2>3. Cardinality(D) = Cardinality(ClientsOf(s))
    BY <2>1, <2>2 DEF num_clients
  <2> QED
    BY <1>2, <1>3, <2>1, <2>3, FS_Injection
<1>5. \A c \in ClientsOf(s) : \E i \in D : f[i] = c
  BY <1>4 DEF Surjection
<1> HIDE DEF f, D
<1>6. max_client_id'[s] <= num_clients(s)
  <2> DEFINE given == {c \in ClientsOf(s) : client_id'[c] > 0}
             g == [c \in given |-> client_id'[c]]
  <2>1. \A c \in given : client_id'[c] \in 1 .. max_client_id'[s]
    BY <1>0, <1>00
  <2>2. \A k \in 1 .. max_client_id'[s] : \E c \in given : g[c] = k
    BY <1>0 DEF IdsGivenOnce
  <2>3. g \in Surjection(given, 1 .. max_client_id'[s])
    BY <2>1, <2>2 DEF Surjection
  <2>4. given \in SUBSET ClientsOf(s)
    OBVIOUS
  <2> HIDE DEF given
  <2>5. IsFiniteSet(given) /\ Cardinality(given) <= num_clients(s)
    BY <1>2, <2>4, FS_Subset DEF num_clients
  <2>6. Cardinality(1 .. max_client_id'[s]) <= Cardinality(given)
    BY <2>3, <2>5, FS_Surjection
  <2>7. Cardinality(1 .. max_client_id'[s]) = max_client_id'[s]
    BY <1>0, FS_Interval
  <2>8. Cardinality(given) \in Nat /\ num_clients(s) \in Nat
    BY <1>2, <2>5, FS_CardinalityType DEF num_clients
  <2> QED
    BY <1>0, <2>5, <2>6, <2>7, <2>8
<1>7. ClientsOf(s) \subseteq ClientsToStart(s)'
  <2> SUFFICES ASSUME NEW c \in ClientsOf(s) PROVE c \in ClientsToStart(s)'
    OBVIOUS
  <2>1. PICK i \in D : f[i] = c
    BY <1>5
  <2>2. i \in 1 .. num_clients(s)
    <3>1. i = client_id'[c] /\ i > 0 /\ i \in Nat /\ i <= max_client_id'[s]
      BY <1>00, <1>1, <2>1
    <3>2. num_clients(s) \in Nat
      BY <1>2, FS_CardinalityType DEF num_clients
    <3> QED
      BY <1>0, <1>6, <3>1, <3>2
  <2> QED
    BY <2>1, <2>2 DEF ClientsToStart, f, D
<1>8. arrived'[s] = {}
  <2> SUFFICES ASSUME NEW x \in arrived'[s] PROVE FALSE
    OBVIOUS
  <2>1. CASE x \in Servers
    <3>1. x # s
      BY <1>00, <2>1, Zenon DEF SlotsMatch, KnownPeer
    <3> QED
      BY <2>1, <3>1 DEF SlotsMatch
  <2>2. CASE x \notin Servers
    <3>1. x \in ClientsOf(s)
      BY <1>0, <2>2 DEF SlotsMatch, KnownClient, ClientsOf, Processes
    <3> QED
      BY <1>1, <1>5, <3>1
  <2> QED
    BY <2>1, <2>2
<1>9. \A x \in Servers : x # s => KnownPeer(s, x)'
  BY DEF SlotsMatch
<1>10. ASSUME NEW x \in Processes PROVE link'[<<x, s>>] # "open"
  <2>1. CASE x \in Clients /\ Home[x] = s
    <3>1. link'[<<x, s>>] \in Made
      BY <1>0, <1>1, <1>5, <2>1 DEF IdsGivenOnce, ClientsOf
    <3> QED
      BY <3>1 DEF Made
  <2>2. CASE x \in Servers /\ s < x
    BY <1>00, <1>9, <2>2, Zenon DEF KnownPeer, Made
  <2> QED
    BY <2>1, <2>2 DEF LinksProper, Connects
<1>11. \A x \in Servers : x < s => link'[<<s, x>>] # "none"
  BY <1>00, <1>9, Zenon DEF KnownPeer
<1> QED
  BY <1>7, <1>8, <1>10, <1>11

-----------------------------------------------------------------------------
\* The invariant of the connections is inductive.

\* Emptying slots: only those of processes that are gone.
SlotsOnlyEmptied ==
  /\ peer_connections' \in [Servers -> SUBSET Servers]
  /\ \A t \in Servers : peer_connections'[t] \subseteq peer_connections[t]
  /\ DOMAIN client_connections' = Servers
  /\ \A t \in Servers :
       /\ DOMAIN client_connections'[t] \subseteq DOMAIN client_connections[t]
       /\ \A i \in DOMAIN client_connections'[t] :
            client_connections'[t][i] = client_connections[t][i]
       /\ \A i \in DOMAIN client_connections[t] \ DOMAIN client_connections'[t] :
            ~Up(t, client_connections[t][i])

\* Emptying slots touches only those of connections that are down.
LEMMA SlotsShrink ==
  ASSUME NetTypes, NEW s \in Servers, NEW to, EmptySlots(s, to)
  PROVE  SlotsOnlyEmptied
<1>1. PICK dead \in SUBSET {y \in to : ~Up(s, y)} :
        /\ peer_connections' = [peer_connections EXCEPT ![s] = @ \ dead]
        /\ client_connections' = [client_connections EXCEPT ![s] =
             [i \in {j \in DOMAIN @ : @[j] \notin dead} |-> @[i]]]
  BY DEF EmptySlots
<1>2. /\ peer_connections \in [Servers -> SUBSET Servers]
      /\ DOMAIN client_connections = Servers
  BY DEF NetTypes
<1>3. /\ DOMAIN client_connections' = Servers
      /\ \A t \in Servers \ {s} : client_connections'[t] = client_connections[t]
      /\ client_connections'[s] =
           [i \in {j \in DOMAIN client_connections[s] : client_connections[s][j] \notin dead}
              |-> client_connections[s][i]]
  BY <1>1, <1>2
<1>4. \A y \in dead : ~Up(s, y)
  BY <1>1
<1> QED
  BY <1>1, <1>2, <1>3, <1>4 DEF SlotsOnlyEmptied

\* Steps that only break links, empty slots and move a server on from
\* establish_initial_leader.
Breaking ==
  /\ UNCHANGED <<arrived, ids>>
  /\ boot' \in [Servers -> {"off", "connecting", "establishing", "running"}]
  /\ \A s \in Servers :
       /\ boot'[s] \in {"establishing", "running"} => boot[s] \in {"establishing", "running"}
       /\ boot'[s] = "establishing" => boot[s] = "establishing"
  /\ link' \in [Connections -> {"none", "open"} \cup Made]
  /\ \A x \in Processes, s \in Servers :
       \/ link'[<<x, s>>] = link[<<x, s>>]
       \/ link'[<<x, s>>] = "broken" /\ Connects(x, s)
  /\ \/ UNCHANGED slots
     \/ \E s \in Servers : \E to : EmptySlots(s, to)

\* A step that only breaks links and empties slots keeps the invariant.
LEMMA BreakingKeeps ==
  ASSUME NetInv, Breaking
  PROVE  NetInv'
<1> USE DEF NetInv
<1>1. SlotsOnlyEmptied
  <2>1. CASE UNCHANGED slots
    BY <2>1 DEF NetTypes, slots, SlotsOnlyEmptied
  <2>2. ASSUME NEW s \in Servers, NEW to, EmptySlots(s, to) PROVE SlotsOnlyEmptied
    BY <2>2, SlotsShrink
  <2> QED
    BY <2>1, <2>2 DEF Breaking
<1>2. arrived' = arrived /\ max_client_id' = max_client_id /\ client_id' = client_id
  BY DEF Breaking, ids
<1>3. \A x \in Processes, s \in Servers :
        /\ link[<<x, s>>] # "none" => link'[<<x, s>>] # "none"
        /\ link[<<x, s>>] \in Made => link'[<<x, s>>] \in Made
        /\ link'[<<x, s>>] \in {"open", "registered"} => link'[<<x, s>>] = link[<<x, s>>]
        /\ link'[<<x, s>>] # "none" => link[<<x, s>>] # "none" \/ Connects(x, s)
  BY DEF Breaking, Made
<1>4. Servers \subseteq Processes /\ \A s \in Servers : ClientsOf(s) \subseteq Processes
  BY DEF Processes, ClientsOf
<1>5. NetTypes'
  BY <1>1, <1>2 DEF NetTypes, Breaking, SlotsOnlyEmptied
<1>6. LinksProper'
  BY <1>3, Zenon DEF LinksProper, Connects
<1>7. IdsGivenOnce'
  BY <1>2, <1>3, <1>4, Zenon DEF IdsGivenOnce
<1>8. SlotsMatch'
  <2>1. \A s, x \in Servers : KnownPeer(s, x) => KnownPeer(s, x)'
    BY <1>3, <1>4, Zenon DEF KnownPeer
  <2>2. \A s \in Servers : \A x : KnownClient(s, x) => KnownClient(s, x)'
    BY <1>2 DEF KnownClient
  <2>3. \A s \in Servers : peer_connections[s] \subseteq Servers
    BY DEF NetTypes
  <2>4. \A s \in Servers : \A x \in arrived'[s] :
          IF x \in Servers THEN KnownPeer(s, x)' ELSE KnownClient(s, x)'
    BY <1>2, <2>1, <2>2, Zenon DEF SlotsMatch
  <2>5. \A s \in Servers : \A x \in peer_connections'[s] : KnownPeer(s, x)' /\ x \notin arrived'[s]
    BY <1>1, <1>2, <2>1, <2>3, Zenon DEF SlotsMatch, SlotsOnlyEmptied
  <2>6. ASSUME NEW s \in Servers, NEW i \in DOMAIN client_connections'[s]
        PROVE  /\ client_connections'[s][i] \in Clients
               /\ Home[client_connections'[s][i]] = s
               /\ client_id'[client_connections'[s][i]] > 0
               /\ client_id'[client_connections'[s][i]] = i
               /\ client_connections'[s][i] \notin arrived'[s]
    <3>1. i \in DOMAIN client_connections[s] /\ client_connections'[s][i] = client_connections[s][i]
      BY <1>1 DEF SlotsOnlyEmptied
    <3>2. /\ client_connections[s][i] \in Clients /\ Home[client_connections[s][i]] = s
          /\ client_id[client_connections[s][i]] > 0
          /\ client_id[client_connections[s][i]] = i
          /\ client_connections[s][i] \notin arrived[s]
      BY <3>1 DEF SlotsMatch, KnownClient
    <3> QED
      BY <1>2, <3>1, <3>2
  <2> QED
    BY <2>4, <2>5, <2>6, Zenon DEF SlotsMatch, KnownClient
<1>9. ConnectorsDone'
  BY <1>3, <1>4, Zenon DEF ConnectorsDone, Breaking
<1>10. NoLateConnection'
  BY <1>2, <1>3, Zenon DEF NoLateConnection, Breaking
<1>11. ClientsNumbered'
  <2> SUFFICES ASSUME NEW s \in Servers, boot'[s] = "establishing",
                      NEW c \in ClientsOf(s), Up(c, s)'
               PROVE  c \in ClientsToStart(s)'
    BY DEF ClientsNumbered
  <2>1. c \in Clients /\ boot[s] = "establishing"
    BY DEF ClientsOf, Breaking
  <2>2. Up(c, s) /\ Up(s, c)
    BY <1>3, <1>4, <2>1, ClientUp
  <2>3. PICK i \in DOMAIN client_connections[s] \cap (1 .. num_clients(s)) :
          client_connections[s][i] = c
    BY <2>1, <2>2 DEF ClientsNumbered, ClientsToStart
  <2>4. i \in DOMAIN client_connections'[s] /\ client_connections'[s][i] = c
    BY <1>1, <2>2, <2>3 DEF SlotsOnlyEmptied
  <2> QED
    BY <2>3, <2>4 DEF ClientsToStart
<1> QED
  BY <1>5, <1>6, <1>7, <1>8, <1>9, <1>10, <1>11

\* The connectors.
LEMMA ConnectPeerKeeps ==
  ASSUME NetInv, NEW x \in Servers, NEW s \in Servers, ConnectPeer(x, s)
  PROVE  NetInv'
<1> USE DEF NetInv
<1>0. /\ boot \in [Servers -> {"off", "connecting", "establishing", "running"}]
      /\ link \in [Connections -> {"none", "open"} \cup Made]
      /\ arrived \in [Servers -> SUBSET Processes]
      /\ \A t \in Servers : peer_connections[t] \subseteq Servers
  BY DEF NetTypes
<1>1. /\ Servers \subseteq Processes /\ Clients \subseteq Processes
      /\ Clients \cap Servers = {} /\ <<x, s>> \in Connections
  BY NetworkAssumption DEF Processes, Connections
<1>2. s < x /\ ~(x < s) /\ x # s
  BY NetworkAssumption DEF ConnectPeer, PeersToConnectTo
<1>3. /\ boot[s] = "connecting" /\ link[<<x, s>>] = "none"
      /\ link' = [link EXCEPT ![<<x, s>>] = "open"]
      /\ arrived' = [arrived EXCEPT ![x] = @ \cup {s}]
      /\ UNCHANGED <<boot, peer_connections, client_connections, max_client_id, client_id>>
  BY DEF ConnectPeer, Listening, slots, ids
<1>4. \A y \in Processes, t \in Servers :
        link'[<<y, t>>] = IF y = x /\ t = s THEN "open" ELSE link[<<y, t>>]
  BY <1>0, <1>1, <1>3 DEF Connections
<1>5. \A t \in Servers : arrived'[t] = IF t = x THEN arrived[t] \cup {s} ELSE arrived[t]
  BY <1>0, <1>3
<1>6. boot[x] \notin {"establishing", "running"}
  BY <1>2, <1>3, Zenon DEF ConnectorsDone
<1>7. \A y \in Processes, t \in Servers :
        /\ link[<<y, t>>] # "none" => link'[<<y, t>>] # "none"
        /\ link[<<y, t>>] \in Made => link'[<<y, t>>] \in Made
  BY <1>3, <1>4 DEF Made
<1>8. \A c \in Clients, t \in Servers : link'[<<c, t>>] = link[<<c, t>>]
  BY <1>1, <1>4
<1>9. NetTypes'
  <2>1. link' \in [Connections -> {"none", "open"} \cup Made]
    BY <1>0, <1>3
  <2>2. arrived' \in [Servers -> SUBSET Processes]
    BY <1>0, <1>1, <1>3
  <2> QED
    BY <1>3, <2>1, <2>2 DEF NetTypes
<1>10. LinksProper'
  <2>1. \A y \in Processes, t \in Servers :
          link'[<<y, t>>] # "none" => link[<<y, t>>] # "none" \/ (y = x /\ t = s)
    BY <1>4
  <2> QED
    BY <1>2, <2>1, Zenon DEF LinksProper, Connects
<1>11. IdsGivenOnce'
  <2>1. \A t \in Servers : ClientsOf(t) \subseteq Processes
    BY <1>1 DEF ClientsOf
  <2>2. max_client_id' = max_client_id /\ client_id' = client_id
    BY <1>3
  <2> QED
    BY <1>7, <2>1, <2>2, Zenon DEF IdsGivenOnce
<1>12. SlotsMatch'
  <2>1. \A t, y \in Servers : KnownPeer(t, y) => KnownPeer(t, y)'
    BY <1>1, <1>7, Zenon DEF KnownPeer
  <2>2. KnownPeer(x, s)'
    BY <1>1, <1>2, <1>4 DEF KnownPeer
  <2>3. s \notin peer_connections[x]
    BY <1>2, <1>3, Zenon DEF SlotsMatch, KnownPeer
  <2>4. \A t \in Servers : \A y \in arrived'[t] :
          IF y \in Servers THEN KnownPeer(t, y)' ELSE KnownClient(t, y)'
    BY <1>3, <1>5, <2>1, <2>2 DEF SlotsMatch, KnownClient
  <2>5. \A t \in Servers : \A y \in peer_connections'[t] : KnownPeer(t, y)' /\ y \notin arrived'[t]
    BY <1>0, <1>3, <1>5, <2>1, <2>3 DEF SlotsMatch
  <2>6. ASSUME NEW t \in Servers, NEW i \in DOMAIN client_connections'[t]
        PROVE  /\ client_connections'[t][i] \in Clients
               /\ Home[client_connections'[t][i]] = t
               /\ client_id'[client_connections'[t][i]] > 0
               /\ client_id'[client_connections'[t][i]] = i
               /\ client_connections'[t][i] \notin arrived'[t]
    <3>1. /\ client_connections[t][i] \in Clients /\ Home[client_connections[t][i]] = t
          /\ client_id[client_connections[t][i]] > 0
          /\ client_id[client_connections[t][i]] = i
          /\ client_connections[t][i] \notin arrived[t]
      BY <1>3 DEF SlotsMatch, KnownClient
    <3>2. client_connections[t][i] # s
      BY <1>1, <3>1
    <3> QED
      BY <1>3, <1>5, <3>1, <3>2
  <2> QED
    BY <2>4, <2>5, <2>6, Zenon DEF SlotsMatch, KnownClient
<1>13. ConnectorsDone'
  BY <1>1, <1>3, <1>7, Zenon DEF ConnectorsDone
<1>14. NoLateConnection'
  BY <1>3, <1>4, <1>5, <1>6 DEF NoLateConnection
<1>15. ClientsNumbered'
  <2>1. \A c \in Clients, t \in Servers : Up(c, t)' <=> Up(c, t)
    BY <1>8, ClientUp
  <2> QED
    BY <1>3, <2>1 DEF ClientsNumbered, ClientsToStart, ClientsOf
<1> QED
  BY <1>9, <1>10, <1>11, <1>12, <1>13, <1>14, <1>15

\* A client that connects is numbered above every client of its server.
LEMMA ConnectClientKeeps ==
  ASSUME NetInv, NEW c \in Clients, ConnectClient(c)
  PROVE  NetInv'
<1> DEFINE s == Home[c]
<1> USE DEF NetInv
<1>0. /\ boot \in [Servers -> {"off", "connecting", "establishing", "running"}]
      /\ link \in [Connections -> {"none", "open"} \cup Made]
      /\ \A t \in Servers : peer_connections[t] \subseteq Servers
  BY DEF NetTypes
<1>1. /\ Servers \subseteq Processes /\ Clients \subseteq Processes
      /\ Clients \cap Servers = {} /\ <<c, s>> \in Connections /\ s \in Servers
  BY NetworkAssumption DEF Processes, Connections
<1>3. /\ boot[s] = "connecting" /\ link[<<c, s>>] = "none"
      /\ link' = [link EXCEPT ![<<c, s>>] = "open"]
      /\ UNCHANGED <<boot, arrived, peer_connections, client_connections, max_client_id, client_id>>
  BY DEF ConnectClient, Listening, slots, ids
<1> HIDE DEF s
<1>4. \A y \in Processes, t \in Servers :
        link'[<<y, t>>] = IF y = c /\ t = s THEN "open" ELSE link[<<y, t>>]
  BY <1>0, <1>1, <1>3 DEF Connections
<1>7. \A y \in Processes, t \in Servers :
        /\ link[<<y, t>>] # "none" => link'[<<y, t>>] # "none"
        /\ link[<<y, t>>] \in Made => link'[<<y, t>>] \in Made
  BY <1>3, <1>4 DEF Made
<1>9. NetTypes'
  <2>1. link' \in [Connections -> {"none", "open"} \cup Made]
    BY <1>0, <1>3
  <2> QED
    BY <1>3, <2>1 DEF NetTypes
<1>10. LinksProper'
  <2>1. \A y \in Processes, t \in Servers :
          link'[<<y, t>>] # "none" => link[<<y, t>>] # "none" \/ (y = c /\ t = s)
    BY <1>4
  <2> QED
    BY <2>1, Zenon DEF LinksProper, Connects, s
<1>11. IdsGivenOnce'
  <2>1. \A t \in Servers : ClientsOf(t) \subseteq Processes
    BY <1>1 DEF ClientsOf
  <2>2. max_client_id' = max_client_id /\ client_id' = client_id
    BY <1>3
  <2> QED
    BY <1>7, <2>1, <2>2, Zenon DEF IdsGivenOnce
<1>12. SlotsMatch'
  <2>1. \A t, y \in Servers : KnownPeer(t, y) => KnownPeer(t, y)'
    BY <1>1, <1>7, Zenon DEF KnownPeer
  <2>2. \A t \in Servers : \A y \in arrived'[t] :
          IF y \in Servers THEN KnownPeer(t, y)' ELSE KnownClient(t, y)'
    BY <1>3, <2>1 DEF SlotsMatch, KnownClient
  <2>3. \A t \in Servers : \A y \in peer_connections'[t] : KnownPeer(t, y)' /\ y \notin arrived'[t]
    BY <1>0, <1>3, <2>1 DEF SlotsMatch
  <2> QED
    BY <1>3, <2>2, <2>3, Zenon DEF SlotsMatch, KnownClient
<1>13. ConnectorsDone'
  BY <1>1, <1>3, <1>7, Zenon DEF ConnectorsDone
<1>14. NoLateConnection'
  BY <1>3, <1>4 DEF NoLateConnection
<1>15. ClientsNumbered'
  <2>1. \A d \in Clients, t \in Servers : t # s => (Up(d, t)' <=> Up(d, t))
    <3>1. \A d \in Clients, t \in Servers : t # s => link'[<<d, t>>] = link[<<d, t>>]
      BY <1>1, <1>4
    <3> QED
      BY <3>1, ClientUp
  <2> QED
    BY <1>3, <2>1 DEF ClientsNumbered, ClientsToStart, ClientsOf
<1> QED
  BY <1>9, <1>10, <1>11, <1>12, <1>13, <1>14, <1>15

\* The handshake has been read: a client gets the next id, and what arrives in
\* the channel has not been there before.
LEMMA RegisterKeeps ==
  ASSUME NetInv, NEW x \in Processes, NEW s \in Servers, Register(x, s)
  PROVE  NetInv'
<1> USE DEF NetInv
<1>0. /\ boot \in [Servers -> {"off", "connecting", "establishing", "running"}]
      /\ link \in [Connections -> {"none", "open"} \cup Made]
      /\ arrived \in [Servers -> SUBSET Processes]
      /\ \A t \in Servers : peer_connections[t] \subseteq Servers
      /\ max_client_id \in [Servers -> Nat] /\ client_id \in [Clients -> Nat]
  BY DEF NetTypes
<1>1. /\ Servers \subseteq Processes /\ Clients \subseteq Processes
      /\ Clients \cap Servers = {} /\ <<x, s>> \in Connections
      /\ Processes = Servers \cup Clients
  BY NetworkAssumption DEF Processes, Connections
<1>2. \A t, y \in Servers : y < t => ~(t < y)
  BY NetworkAssumption
<1>3. /\ link[<<x, s>>] = "open"
      /\ link' = [link EXCEPT ![<<x, s>>] = "registered"]
      /\ arrived' = [arrived EXCEPT ![s] = @ \cup {x}]
      /\ UNCHANGED <<boot, peer_connections, client_connections>>
  BY DEF Register, slots
<1>4. \A y \in Processes, t \in Servers :
        link'[<<y, t>>] = IF y = x /\ t = s THEN "registered" ELSE link[<<y, t>>]
  BY <1>0, <1>1, <1>3 DEF Connections
<1>5. \A t \in Servers : arrived'[t] = IF t = s THEN arrived[t] \cup {x} ELSE arrived[t]
  BY <1>0, <1>3
<1>6. boot[s] \notin {"establishing", "running"} /\ Connects(x, s)
  BY <1>3 DEF NoLateConnection, LinksProper
<1>7. \A y \in Processes, t \in Servers :
        /\ link[<<y, t>>] # "none" => link'[<<y, t>>] # "none"
        /\ link[<<y, t>>] \in Made => link'[<<y, t>>] \in Made
        /\ link'[<<y, t>>] # "none" => link[<<y, t>>] # "none"
  <2> SUFFICES ASSUME NEW y \in Processes, NEW t \in Servers
               PROVE  /\ link[<<y, t>>] # "none" => link'[<<y, t>>] # "none"
                      /\ link[<<y, t>>] \in Made => link'[<<y, t>>] \in Made
                      /\ link'[<<y, t>>] # "none" => link[<<y, t>>] # "none"
    OBVIOUS
  <2>1. CASE y = x /\ t = s
    BY <1>3, <1>4, <2>1 DEF Made
  <2>2. CASE ~(y = x /\ t = s)
    BY <1>4, <2>2
  <2> QED
    BY <2>1, <2>2
<1>8. \A t \in Servers : ClientsOf(t) \subseteq Clients /\ ClientsOf(t) \subseteq Processes
  BY <1>1 DEF ClientsOf
<1>9. LinksProper' /\ ConnectorsDone' /\ NoLateConnection'
  <2>1. LinksProper'
    BY <1>7, Zenon DEF LinksProper, Connects
  <2>2. ConnectorsDone'
    BY <1>1, <1>3, <1>7, Zenon DEF ConnectorsDone
  <2>3. NoLateConnection'
    BY <1>3, <1>4, <1>5, <1>6 DEF NoLateConnection
  <2> QED
    BY <2>1, <2>2, <2>3
<1>10. ClientsNumbered'
  <2>1. \A c \in Clients, t \in Servers : t # s => (Up(c, t)' <=> Up(c, t))
    <3>1. \A c \in Clients, t \in Servers : t # s => link'[<<c, t>>] = link[<<c, t>>]
      BY <1>1, <1>4
    <3> QED
      BY <3>1, ClientUp
  <2> QED
    BY <1>3, <1>6, <2>1 DEF ClientsNumbered, ClientsToStart, ClientsOf
<1>11. /\ link' \in [Connections -> {"none", "open"} \cup Made]
       /\ arrived' \in [Servers -> SUBSET Processes]
  BY <1>0, <1>3 DEF Made
<1>12. \A t, y \in Servers : KnownPeer(t, y) => KnownPeer(t, y)'
  BY <1>1, <1>7, Zenon DEF KnownPeer
<1>13. \A t \in Servers : \A y \in peer_connections'[t] : KnownPeer(t, y)' /\ y \notin arrived'[t]
  <2>1. x \notin peer_connections[s]
    <3>1. CASE x \in Clients
      BY <1>0, <1>1, <3>1
    <3>2. CASE x \in Servers /\ s < x
      <4>1. ~KnownPeer(s, x)
        BY <1>2, <1>3, <3>2, Zenon DEF KnownPeer, Made
      <4> QED
        BY <4>1 DEF SlotsMatch
    <3> QED
      BY <1>6, <3>1, <3>2 DEF Connects
  <2> QED
    BY <1>0, <1>3, <1>5, <1>12, <2>1 DEF SlotsMatch
<1>14. CASE x \in Servers
  <2>1. UNCHANGED <<max_client_id, client_id>> /\ s < x
    BY <1>1, <1>6, <1>14 DEF Register, ids, Connects
  <2>2. NetTypes'
    BY <1>3, <1>11, <2>1 DEF NetTypes
  <2>3. IdsGivenOnce'
    BY <1>7, <1>8, <2>1, Zenon DEF IdsGivenOnce
  <2>4. KnownPeer(s, x)'
    BY <1>4, <2>1, Zenon DEF KnownPeer, Made
  <2>5. \A t \in Servers : \A y \in arrived'[t] :
          IF y \in Servers THEN KnownPeer(t, y)' ELSE KnownClient(t, y)'
    <3> SUFFICES ASSUME NEW t \in Servers, NEW y \in arrived'[t]
                 PROVE  IF y \in Servers THEN KnownPeer(t, y)' ELSE KnownClient(t, y)'
      OBVIOUS
    <3>1. CASE y = x /\ t = s
      BY <1>14, <2>4, <3>1
    <3>2. CASE y \in arrived[t]
      BY <1>12, <2>1, <3>2 DEF SlotsMatch, KnownClient
    <3> QED
      BY <1>5, <3>1, <3>2
  <2>6. ASSUME NEW t \in Servers, NEW i \in DOMAIN client_connections'[t]
        PROVE  /\ client_connections'[t][i] \in Clients
               /\ Home[client_connections'[t][i]] = t
               /\ client_id'[client_connections'[t][i]] > 0
               /\ client_id'[client_connections'[t][i]] = i
               /\ client_connections'[t][i] \notin arrived'[t]
    <3>1. /\ client_connections[t][i] \in Clients /\ Home[client_connections[t][i]] = t
          /\ client_id[client_connections[t][i]] > 0
          /\ client_id[client_connections[t][i]] = i
          /\ client_connections[t][i] \notin arrived[t]
      BY <1>3 DEF SlotsMatch, KnownClient
    <3>2. client_connections[t][i] # x
      BY <1>1, <1>14, <3>1
    <3> QED
      BY <1>3, <1>5, <2>1, <3>1, <3>2
  <2>7. SlotsMatch'
    BY <1>13, <2>5, <2>6, Zenon DEF SlotsMatch, KnownClient
  <2> QED
    BY <1>9, <1>10, <2>2, <2>3, <2>7
<1>15. CASE x \in Clients
  <2>1. /\ max_client_id' = [max_client_id EXCEPT ![s] = @ + 1]
        /\ client_id' = [client_id EXCEPT ![x] = max_client_id[s] + 1]
    BY <1>15 DEF Register, NextClientId
  <2>2. Home[x] = s /\ x \in ClientsOf(s) /\ x \notin Servers
    BY <1>1, <1>6, <1>15 DEF Connects, ClientsOf
  <2>3. /\ \A t \in Servers : \A c \in ClientsOf(t) : client_id[c] <= max_client_id[t]
        /\ \A t \in Servers : \A c \in ClientsOf(t) : client_id[c] > 0 => link[<<c, t>>] \in Made
        /\ \A t \in Servers : \A c, d \in ClientsOf(t) :
             client_id[c] = client_id[d] /\ client_id[c] > 0 => c = d
        /\ \A t \in Servers : \A k \in 1 .. max_client_id[t] : \E c \in ClientsOf(t) : client_id[c] = k
    BY Zenon DEF IdsGivenOnce
  <2>4. ~(client_id[x] > 0)
    BY <1>3, <2>2, <2>3, Zenon DEF Made
  <2>5. /\ max_client_id'[s] = max_client_id[s] + 1 /\ max_client_id[s] \in Nat
        /\ client_id'[x] = max_client_id[s] + 1
        /\ \A t \in Servers \ {s} : max_client_id'[t] = max_client_id[t]
        /\ \A c \in Clients \ {x} : client_id'[c] = client_id[c] /\ client_id[c] \in Nat
        /\ \A t \in Servers : max_client_id[t] \in Nat /\ max_client_id'[t] \in Nat
    BY <1>0, <1>15, <2>1
  <2>6. NetTypes'
    <3>1. max_client_id' \in [Servers -> Nat] /\ client_id' \in [Clients -> Nat]
      BY <1>0, <2>1, <2>5
    <3> QED
      BY <1>3, <1>11, <3>1 DEF NetTypes
  <2>7. IdsGivenOnce'
    <3> SUFFICES ASSUME NEW t \in Servers
                 PROVE  /\ \A c \in ClientsOf(t) : client_id'[c] <= max_client_id'[t]
                        /\ \A c \in ClientsOf(t) : client_id'[c] > 0 => link'[<<c, t>>] \in Made
                        /\ \A c, d \in ClientsOf(t) :
                             client_id'[c] = client_id'[d] /\ client_id'[c] > 0 => c = d
                        /\ \A k \in 1 .. max_client_id'[t] : \E c \in ClientsOf(t) : client_id'[c] = k
      BY Zenon DEF IdsGivenOnce
    <3>1. \A c \in ClientsOf(t) : client_id'[c] > 0 => link'[<<c, t>>] \in Made
      <4>1. link'[<<x, s>>] \in Made
        BY <1>4 DEF Made
      <4>2. x \in ClientsOf(t) => t = s
        BY <2>2 DEF ClientsOf
      <4> QED
        BY <1>7, <1>8, <2>3, <2>5, <4>1, <4>2, Zenon
    <3>2. CASE t # s
      <4>1. \A c \in ClientsOf(t) : c \in Clients \ {x}
        BY <1>8, <2>2, <3>2 DEF ClientsOf
      <4> QED
        BY <2>3, <2>5, <3>1, <3>2, <4>1
    <3>3. CASE t = s
      <4>1. \A c \in ClientsOf(s) \ {x} :
              /\ client_id'[c] = client_id[c] /\ client_id[c] \in Nat
              /\ client_id[c] <= max_client_id[s]
        BY <1>8, <2>3, <2>5
      <4>2. \A c \in ClientsOf(s) : client_id'[c] <= max_client_id'[s]
        BY <2>5, <4>1
      <4>3. \A c, d \in ClientsOf(s) :
              client_id'[c] = client_id'[d] /\ client_id'[c] > 0 => c = d
        <5> SUFFICES ASSUME NEW c \in ClientsOf(s), NEW d \in ClientsOf(s),
                            client_id'[c] = client_id'[d], client_id'[c] > 0
                     PROVE  c = d
          OBVIOUS
        <5>1. CASE c # x /\ d # x
          BY <2>3, <4>1, <5>1
        <5>2. CASE c = x \/ d = x
          BY <2>5, <4>1, <5>2
        <5> QED
          BY <5>1, <5>2
      <4>4. \A k \in 1 .. max_client_id'[s] : \E c \in ClientsOf(s) : client_id'[c] = k
        <5> SUFFICES ASSUME NEW k \in 1 .. max_client_id'[s]
                     PROVE  \E c \in ClientsOf(s) : client_id'[c] = k
          OBVIOUS
        <5>1. CASE k = max_client_id[s] + 1
          BY <2>2, <2>5, <5>1
        <5>2. CASE k # max_client_id[s] + 1
          <6>1. k \in 1 .. max_client_id[s] /\ k > 0
            BY <2>5, <5>2
          <6>2. PICK c \in ClientsOf(s) : client_id[c] = k
            BY <2>3, <6>1
          <6>3. c # x
            BY <2>4, <6>1, <6>2
          <6> QED
            BY <4>1, <6>2, <6>3
        <5> QED
          BY <5>1, <5>2
      <4> QED
        BY <3>1, <3>3, <4>2, <4>3, <4>4
    <3> QED
      BY <3>2, <3>3
  <2>8. client_id'[x] > 0
    BY <2>5
  <2>9. \A t \in Servers : \A y \in arrived'[t] :
          IF y \in Servers THEN KnownPeer(t, y)' ELSE KnownClient(t, y)'
    <3> SUFFICES ASSUME NEW t \in Servers, NEW y \in arrived'[t]
                 PROVE  IF y \in Servers THEN KnownPeer(t, y)' ELSE KnownClient(t, y)'
      OBVIOUS
    <3>1. CASE y = x /\ t = s
      BY <2>2, <2>8, <3>1 DEF KnownClient
    <3>2. CASE y \in arrived[t]
      <4>1. CASE y \in Servers
        BY <1>12, <3>2, <4>1 DEF SlotsMatch
      <4>2. CASE y \notin Servers
        <5>1. y \in Clients /\ Home[y] = t /\ client_id[y] > 0
          BY <1>0, <1>1, <3>2, <4>2 DEF SlotsMatch, KnownClient
        <5>2. client_id'[y] > 0
          BY <2>5, <2>8, <5>1
        <5> QED
          BY <4>2, <5>1, <5>2 DEF KnownClient
      <4> QED
        BY <4>1, <4>2
    <3> QED
      BY <1>5, <3>1, <3>2
  <2>10. ASSUME NEW t \in Servers, NEW i \in DOMAIN client_connections'[t]
        PROVE  /\ client_connections'[t][i] \in Clients
               /\ Home[client_connections'[t][i]] = t
               /\ client_id'[client_connections'[t][i]] > 0
               /\ client_id'[client_connections'[t][i]] = i
               /\ client_connections'[t][i] \notin arrived'[t]
    <3>1. /\ client_connections[t][i] \in Clients /\ Home[client_connections[t][i]] = t
          /\ client_id[client_connections[t][i]] > 0
          /\ client_id[client_connections[t][i]] = i
          /\ client_connections[t][i] \notin arrived[t]
      BY <1>3 DEF SlotsMatch, KnownClient
    <3>2. client_connections[t][i] # x
      BY <2>4, <3>1
    <3> QED
      BY <1>3, <1>5, <2>5, <3>1, <3>2
  <2>11. SlotsMatch'
    BY <1>13, <2>9, <2>10, Zenon DEF SlotsMatch, KnownClient
  <2> QED
    BY <1>9, <1>10, <2>6, <2>7, <2>11
<1> QED
  BY <1>1, <1>14, <1>15

\* A turn of initialize_connections, possibly the last one.
LEMMA AddConnectionKeeps ==
  ASSUME NetInv, NEW s \in Servers, AddConnection(s)
  PROVE  NetInv'
<1> USE DEF NetInv
<1>0. /\ boot \in [Servers -> {"off", "connecting", "establishing", "running"}]
      /\ arrived \in [Servers -> SUBSET Processes]
      /\ peer_connections \in [Servers -> SUBSET Servers]
      /\ DOMAIN client_connections = Servers
  BY DEF NetTypes
<1>1. Clients \cap Servers = {} /\ Processes = Servers \cup Clients
  BY NetworkAssumption DEF Processes
<1>2. /\ boot[s] = "connecting"
      /\ UNCHANGED <<link, max_client_id, client_id>>
  BY DEF AddConnection, ids
<1>3. PICK new \in arrived[s] :
        /\ arrived' = [arrived EXCEPT ![s] = @ \ {new}]
        /\ peer_connections' = [peer_connections EXCEPT ![s] =
             IF new \in Servers THEN @ \cup {new} ELSE @]
        /\ client_connections' = [client_connections EXCEPT ![s] =
             IF new \in Clients
             THEN [i \in DOMAIN @ \cup {client_id[new]} |->
                     IF i = client_id[new] THEN new ELSE @[i]]
             ELSE @]
  BY DEF AddConnection
<1> DEFINE Full == /\ Cardinality(DOMAIN client_connections'[s]) >= num_clients(s)
                   /\ peer_connections'[s] = Servers \ {s}
<1>4. /\ boot' = [boot EXCEPT ![s] = IF Full THEN "establishing" ELSE @]
  BY DEF AddConnection
<1> HIDE DEF Full
<1>5. /\ arrived'[s] = arrived[s] \ {new} /\ new \in Processes
      /\ \A t \in Servers \ {s} : /\ arrived'[t] = arrived[t]
                                  /\ peer_connections'[t] = peer_connections[t]
                                  /\ client_connections'[t] = client_connections[t]
                                  /\ boot'[t] = boot[t]
      /\ DOMAIN client_connections' = Servers
      /\ peer_connections'[s] =
           (IF new \in Servers THEN peer_connections[s] \cup {new} ELSE peer_connections[s])
      /\ boot'[s] = (IF Full THEN "establishing" ELSE "connecting")
  BY <1>0, <1>2, <1>3, <1>4
<1>6. IF new \in Clients
      THEN /\ DOMAIN client_connections'[s] = DOMAIN client_connections[s] \cup {client_id[new]}
           /\ client_connections'[s][client_id[new]] = new
           /\ \A i \in DOMAIN client_connections[s] \ {client_id[new]} :
                client_connections'[s][i] = client_connections[s][i]
      ELSE client_connections'[s] = client_connections[s]
  BY <1>0, <1>3
<1>7. NetTypes'
  <2>1. /\ boot' \in [Servers -> {"off", "connecting", "establishing", "running"}]
        /\ arrived' \in [Servers -> SUBSET Processes]
        /\ peer_connections' \in [Servers -> SUBSET Servers]
    BY <1>0, <1>3, <1>4
  <2> QED
    BY <1>2, <1>5, <2>1 DEF NetTypes
<1>8. LinksProper'
  BY <1>2, Zenon DEF LinksProper, Connects
<1>9. IdsGivenOnce'
  BY <1>2, Zenon DEF IdsGivenOnce
<1>10. SlotsMatch'
  <2>1. \A t \in Servers : \A y : /\ KnownPeer(t, y) => KnownPeer(t, y)'
                                  /\ KnownClient(t, y) => KnownClient(t, y)'
    BY <1>2 DEF KnownPeer, KnownClient
  <2>2. \A t \in Servers : arrived'[t] \subseteq arrived[t]
    BY <1>5
  <2>3. \A t \in Servers : \A y \in arrived'[t] :
          IF y \in Servers THEN KnownPeer(t, y)' ELSE KnownClient(t, y)'
    BY <2>1, <2>2, Zenon DEF SlotsMatch
  <2>4. \A t \in Servers : \A y \in peer_connections'[t] : KnownPeer(t, y)' /\ y \notin arrived'[t]
    <3> SUFFICES ASSUME NEW t \in Servers, NEW y \in peer_connections'[t]
                 PROVE  KnownPeer(t, y)' /\ y \notin arrived'[t]
      OBVIOUS
    <3>1. CASE y \in peer_connections[t]
      BY <2>1, <2>2, <3>1 DEF SlotsMatch
    <3>2. CASE t = s /\ y = new /\ new \in Servers
      BY <1>5, <2>1, <3>2 DEF SlotsMatch
    <3> QED
      BY <1>5, <3>1, <3>2
  <2>5. ASSUME NEW t \in Servers, NEW i \in DOMAIN client_connections'[t]
        PROVE  /\ client_connections'[t][i] \in Clients
               /\ Home[client_connections'[t][i]] = t
               /\ client_id'[client_connections'[t][i]] > 0
               /\ client_id'[client_connections'[t][i]] = i
               /\ client_connections'[t][i] \notin arrived'[t]
    <3>1. CASE i \in DOMAIN client_connections[t] /\ client_connections'[t][i] = client_connections[t][i]
      <4>1. /\ client_connections[t][i] \in Clients /\ Home[client_connections[t][i]] = t
            /\ client_id[client_connections[t][i]] > 0
            /\ client_id[client_connections[t][i]] = i
            /\ client_connections[t][i] \notin arrived[t]
        BY <3>1 DEF SlotsMatch, KnownClient
      <4> QED
        BY <1>2, <2>2, <3>1, <4>1
    <3>2. CASE t = s /\ new \in Clients /\ i = client_id[new] /\ client_connections'[t][i] = new
      <4>1. Home[new] = s /\ client_id[new] > 0
        BY <1>1, <1>3, <3>2 DEF SlotsMatch, KnownClient
      <4> QED
        BY <1>2, <1>5, <3>2, <4>1
    <3> QED
      BY <1>5, <1>6, <3>1, <3>2
  <2> QED
    BY <2>3, <2>4, <2>5, Zenon DEF SlotsMatch, KnownClient
<1>11. CASE ~Full
  <2>1. boot' = boot
    BY <1>0, <1>2, <1>4, <1>11
  <2>2. ConnectorsDone'
    BY <1>2, <2>1 DEF ConnectorsDone
  <2>3. \A t \in Servers : boot[t] \in {"establishing", "running"} => t # s
    BY <1>2
  <2>4. NoLateConnection'
    BY <1>2, <1>5, <2>1, <2>3 DEF NoLateConnection
  <2>5. ClientsNumbered'
    <3>1. \A c, t : Up(c, t)' <=> Up(c, t)
      BY <1>2 DEF Up
    <3> QED
      BY <1>5, <2>1, <2>3, <3>1 DEF ClientsNumbered, ClientsToStart
  <2> QED
    BY <1>7, <1>8, <1>9, <1>10, <2>2, <2>4, <2>5
<1>12. CASE Full
  <2>1. /\ arrived'[s] = {}
        /\ \A x \in Processes : link'[<<x, s>>] # "open"
        /\ \A x \in Servers : x < s => link'[<<s, x>>] # "none"
        /\ ClientsOf(s) \subseteq ClientsToStart(s)'
    BY <1>7, <1>8, <1>9, <1>10, <1>12, AllConnected DEF Full
  <2>2. ConnectorsDone'
    BY <1>2, <1>5, <2>1, Zenon DEF ConnectorsDone
  <2>3. NoLateConnection'
    BY <1>2, <1>5, <2>1 DEF NoLateConnection
  <2>4. ClientsNumbered'
    <3>1. \A c, t : Up(c, t)' <=> Up(c, t)
      BY <1>2 DEF Up
    <3>2. \A t \in Servers \ {s} : boot'[t] = boot[t] /\ ClientsToStart(t)' = ClientsToStart(t)
      BY <1>5 DEF ClientsToStart
    <3> QED
      BY <2>1, <3>1, <3>2 DEF ClientsNumbered
  <2> QED
    BY <1>7, <1>8, <1>9, <1>10, <2>2, <2>3, <2>4
<1> QED
  BY <1>11, <1>12

\* Every step of the servers, the clients and the network keeps the invariant.
LEMMA NetInvNext ==
  ASSUME NetInv, [Next]_vars
  PROVE  NetInv'
<1>0. /\ boot \in [Servers -> {"off", "connecting", "establishing", "running"}]
      /\ link \in [Connections -> {"none", "open"} \cup Made]
      /\ Clients \subseteq Processes /\ Servers \subseteq Processes
      /\ \A c \in Clients : Home[c] \in Servers
  BY NetworkAssumption DEF NetInv, NetTypes, Processes
<1>1. ASSUME UNCHANGED <<boot, link, arrived, slots, ids>> PROVE NetInv'
  <2>1. Breaking
    BY <1>0, <1>1 DEF Breaking
  <2> QED
    BY <2>1, BreakingKeeps
<1>2. ASSUME NEW x \in Processes, NEW s \in Servers, Connects(x, s),
             link' = [link EXCEPT ![<<x, s>>] = "broken"],
             UNCHANGED <<boot, arrived, slots, ids>>
      PROVE  NetInv'
  <2>1. link' \in [Connections -> {"none", "open"} \cup Made]
    BY <1>0, <1>2 DEF Made
  <2>2. \A y \in Processes, t \in Servers :
          link'[<<y, t>>] = IF y = x /\ t = s THEN "broken" ELSE link[<<y, t>>]
    BY <1>0, <1>2 DEF Connections
  <2>3. \A y \in Processes, t \in Servers :
          link'[<<y, t>>] = link[<<y, t>>] \/ (link'[<<y, t>>] = "broken" /\ Connects(y, t))
    BY <1>2, <2>2
  <2>4. Breaking
    BY <1>0, <1>2, <2>1, <2>3, Zenon DEF Breaking
  <2> QED
    BY <2>4, BreakingKeeps
<1>3. ASSUME NEW s \in Servers, NEW to, EmptySlots(s, to), UNCHANGED <<link, arrived, ids>>,
             \/ UNCHANGED boot
             \/ /\ boot[s] \in {"establishing", "running"}
                /\ boot' = [boot EXCEPT ![s] = "running"]
      PROVE  NetInv'
  <2>1. /\ boot' \in [Servers -> {"off", "connecting", "establishing", "running"}]
        /\ \A t \in Servers :
             /\ boot'[t] \in {"establishing", "running"} => boot[t] \in {"establishing", "running"}
             /\ boot'[t] = "establishing" => boot[t] = "establishing"
    BY <1>0, <1>3
  <2>2. Breaking
    BY <1>0, <1>3, <2>1 DEF Breaking
  <2> QED
    BY <2>2, BreakingKeeps
<1>4. ASSUME NEW s \in Servers, NetStep(s) PROVE NetInv'
  <2>1. ASSUME Boot(s) PROVE NetInv'
    <3>1. /\ boot' \in [Servers -> {"off", "connecting", "establishing", "running"}]
          /\ \A t \in Servers :
               /\ boot'[t] \in {"establishing", "running"} => boot[t] \in {"establishing", "running"}
               /\ boot'[t] = "establishing" => boot[t] = "establishing"
      BY <1>0, <2>1 DEF Boot
    <3>2. Breaking
      BY <1>0, <2>1, <3>1 DEF Breaking, Boot
    <3> QED
      BY <3>2, BreakingKeeps
  <2>2. ASSUME TakeoverTick(s) PROVE NetInv'
    <3>1. CASE promised[s]
      <4>1. /\ EmptySlots(s, peer_connections[s] \cup ClientsToStart(s))
            /\ boot[s] = "establishing" /\ boot' = [boot EXCEPT ![s] = "running"]
            /\ UNCHANGED <<link, arrived, ids>>
        BY <2>2, <3>1 DEF TakeoverTick
      <4> QED
        BY <1>3, <4>1
    <3>2. CASE ~promised[s]
      BY <1>1, <2>2, <3>2 DEF TakeoverTick
    <3> QED
      BY <3>1, <3>2
  <2>3. ASSUME NEW x \in Servers, HandleStartSignal(x, s) PROVE NetInv'
    BY <1>3, <2>3 DEF HandleStartSignal
  <2> QED
    BY <1>4, <2>1, <2>2, <2>3, AddConnectionKeeps, ConnectPeerKeeps, RegisterKeeps DEF NetStep
<1>5. ASSUME NEW l \in Connections, Break(l[1], l[2]) PROVE NetInv'
  <2>1. l[1] \in Processes /\ l[2] \in Servers
    BY DEF Connections
  <2>2. Connects(l[1], l[2])
    BY <1>5, <2>1 DEF Break, NetInv, LinksProper
  <2> QED
    BY <1>2, <1>5, <2>1, <2>2 DEF Break, Disconnect
<1>6. ASSUME NEW c \in Clients, ClientStep(c) \/ Request(c) \/ HandleRequest(c)
      PROVE  NetInv'
  <2>1. Home[c] \in Servers /\ c \in Processes /\ Connects(c, Home[c])
    BY <1>0 DEF Connects
  <2>2. ASSUME Connect(c) PROVE NetInv'
    BY <2>2, ConnectClientKeeps DEF Connect
  <2>3. ASSUME HandleServerMessage(c) PROVE NetInv'
    <3>1. UNCHANGED <<boot, arrived, slots, ids>>
      BY <2>3 DEF HandleServerMessage
    <3>2. link' = link \/ link' = [link EXCEPT ![<<c, Home[c]>>] = "broken"]
      <4>1. \/ link' = [link EXCEPT ![<<c, Home[c]>>] = "broken"]
            \/ link' = [link EXCEPT ![<<c, Home[c]>>] = @]
        BY <2>3 DEF HandleServerMessage
      <4> QED
        BY <1>0, <4>1
    <3> QED
      BY <1>1, <1>2, <2>1, <3>1, <3>2
  <2>4. ASSUME LastInterval(c) PROVE NetInv'
    <3>1. UNCHANGED <<boot, arrived, slots, ids>>
      BY <2>4 DEF LastInterval
    <3>2. link' = link \/ link' = [link EXCEPT ![<<c, Home[c]>>] = "broken"]
      BY <2>4 DEF LastInterval, Disconnect
    <3> QED
      BY <1>1, <1>2, <2>1, <3>1, <3>2
  <2>5. ASSUME Start(c) \/ HandleRequest(c) \/ NextInterval(c) \/ Request(c) \/ SendRequest(c)
        PROVE  NetInv'
    <3>1. UNCHANGED <<boot, link, arrived, slots, ids>>
      BY <2>5 DEF Start, HandleRequest, NextInterval, Request, SendRequest, netVars, slots, ids
    <3> QED
      BY <1>1, <3>1
  <2> QED
    BY <1>6, <2>2, <2>3, <2>4, <2>5 DEF ClientStep
<1>7. ASSUME NEW s \in Servers, Respond(s) PROVE NetInv'
  <2>1. UNCHANGED <<boot, link, arrived, ids>> /\ \E to : EmptySlots(s, to)
    BY <1>7 DEF Respond
  <2> QED
    BY <1>3, <2>1
<1>8. CASE UNCHANGED vars
  BY <1>1, <1>8 DEF vars, netVars, slots, ids
<1> QED
  BY <1>4, <1>5, <1>6, <1>7, <1>8 DEF Next

\* What the network holds of connections is true in every state.
LEMMA NetInvAlways == Spec => []NetInv
<1>1. Init => NetInv
  <2> SUFFICES ASSUME NetInit PROVE NetInv
    BY DEF Init
  <2>1. /\ \A s \in Servers : boot[s] = "off" /\ arrived[s] = {} /\ peer_connections[s] = {}
        /\ \A s \in Servers : client_connections[s] = <<>> /\ max_client_id[s] = 0
        /\ \A x \in Processes, s \in Servers : link[<<x, s>>] = "none"
        /\ \A c \in Clients : client_id[c] = 0
    BY DEF NetInit, Connections
  <2>2. NetTypes
    BY DEF NetInit, NetTypes
  <2>3. LinksProper /\ ConnectorsDone /\ NoLateConnection /\ ClientsNumbered
    BY <2>1 DEF LinksProper, ConnectorsDone, NoLateConnection, ClientsNumbered
  <2>4. IdsGivenOnce
    <3>1. \A s \in Servers : \A c \in ClientsOf(s) : client_id[c] = 0
      BY <2>1 DEF ClientsOf
    <3>2. \A s \in Servers : 1 .. max_client_id[s] = {}
      BY <2>1
    <3>3. ~(0 > 0) /\ 0 <= 0
      OBVIOUS
    <3> QED
      BY <2>1, <3>1, <3>2, <3>3, Zenon DEF IdsGivenOnce
  <2>5. SlotsMatch
    <3>1. \A s \in Servers : DOMAIN client_connections[s] = {}
      BY <2>1
    <3> QED
      BY <2>1, <3>1 DEF SlotsMatch
  <2> QED
    BY <2>2, <2>3, <2>4, <2>5 DEF NetInv
<1>2. NetInv /\ [Next]_vars => NetInv'
  BY NetInvNext
<1> QED
  BY <1>1, <1>2, PTL DEF Spec

\* No connection comes in once initialize_connections has returned, whatever
\* connections break while they are made (initialize_connections,
\* handle_incoming_connection).
THEOREM ChannelDrained == Spec => []NoLateConnection
<1>1. NetInv => NoLateConnection
  BY DEF NetInv
<1> QED
  BY <1>1, NetInvAlways, PTL

\* The ids 1 .. num_clients that send_client_start_signals counts through are
\* those of the clients that are connected.
THEOREM EveryClientNumbered == Spec => []ClientsNumbered
<1>1. NetInv => ClientsNumbered
  BY DEF NetInv
<1> QED
  BY <1>1, NetInvAlways, PTL

================================================================================
