-------------------------------- MODULE Proxy --------------------------------
(***************************************************************************)
(* The standalone proxy (src/proxy) between the clients and the servers.   *)
(* It multicasts every command, collects the acknowledgements under the    *)
(* hash of the history they carry, and once a quorum that includes a       *)
(* leader has acknowledged one history it multicasts a Confirm, answers a  *)
(* client and forgets the hash.                                            *)
(*                                                                         *)
(* Each client connection has a handler task and each server an actor      *)
(* task; they share the table of counts (locked per operation, so that the *)
(* Get and the Put of one acknowledgement are two steps) and bounded       *)
(* channels.  The servers are what ReplicaLogs promises: they order the    *)
(* commands they receive in any order and acknowledge each index once.  A  *)
(* command is the pair (id, kv_cmd), all that a server receives and hashes.*)
(* The StartSignal that servers send before the first command only passes  *)
(* through and is left out; so is the time before the actors have connected*)
(* (the servers do not start without them).                                *)
(***************************************************************************)
EXTENDS Naturals, Sequences, FiniteSets, Bags, SequencesExt

CONSTANTS
  N,               \* the number of nodes in the proxy's configuration
  FaultTolerance,  \* ProxyConfig.fault_tolerance
  Leaders,         \* the nodes that execute speculatively
  ServOrder,       \* the iteration order of the serv_set map
  ChanCap,         \* NETWORK_BATCH_SIZE, the capacity of a channel
  NumClients,      \* bound: the clients that connect
  Script,          \* bound: the commands that each client sends, in order
  MaxBreaks,       \* bound: server connections that break
  None             \* Rust's None

Servers == 0 .. N - 1              \* positions in config.nodes
Clients == 1 .. NumClients         \* connection ids, in order of arrival
Cmds    == UNION {ToSet(Script[c]) : c \in Clients}
Hists   == Seq(Cmds)               \* a hash stands for the history it hashes

\* Proxy::new
quorum == N - FaultTolerance

ASSUME NodesAssumption  == N \in Nat \ {0} /\ Leaders \subseteq 0 .. N - 1
ASSUME QuorumAssumption == FaultTolerance \in Nat /\ 2 * FaultTolerance < N
ASSUME OrderAssumption  == ServOrder \in Seq(0 .. N - 1) /\ Len(ServOrder) > 0
ASSUME ScriptAssumption == /\ NumClients \in Nat /\ ChanCap \in Nat /\ MaxBreaks \in Nat
                           /\ \A c \in 1 .. NumClients : Script[c] \in Seq(ToSet(Script[c]))
ASSUME NoneAssumption   == None \notin [cmd : Cmds, hash : Hists, spec : BOOLEAN, idx : Nat]

VARIABLES
  accepted,   \* connections accepted so far (counter in run)
  read,       \* commands each handler has read from its client
  hpc,        \* where each client handler stands
  hpos,       \* the server of ServOrder that its fan-out loop sends to next
  hmsg,       \* the message that it fans out
  hack,       \* the acknowledgement that it processes
  hget,       \* what the table held for that hash when it looked
  db,         \* Database.db: hash -> count and leader speculation
  chan,       \* the channels from the handlers to the server actors
  acksTo,     \* the channels from the server actors to the handlers
  hand,       \* the acknowledgement an actor is blocked on, its channel full
  link,       \* the connection of each actor to its server
  breaks,     \* connections broken so far
  tasks,      \* on each server, the bag of spawned tasks that have not run
  log,        \* on each server, the log
  unsent,     \* on each server, acknowledgements on their way to the proxy
  decided,    \* on each server, decided_idx
  counted,    \* history: whose acknowledgement of which hash was counted
  confirmed,  \* history: which handler has confirmed which history
  answered    \* the acknowledgements each client has received

handlerVars == <<accepted, read, hpc, hpos, hmsg, hack, hget>>
serverVars  == <<tasks, log, unsent, decided>>
actorVars   == <<acksTo, hand, link, breaks>>
historyVars == <<counted, confirmed, answered>>
vars        == <<handlerVars, db, chan, actorVars, serverVars, historyVars>>

-----------------------------------------------------------------------------
\* Messages to a server: ClientMessage::Append and ClientMessage::Ack.
Msgs == [kind : {"append", "confirm"}, cmd : Cmds, idx : Nat]

\* ServerMessage::Ack; spec tells whether it carries the leader's speculation.
Acks  == [cmd : Cmds, hash : Hists, spec : BOOLEAN, idx : Nat]
Tally == [count : Nat, spec : BOOLEAN]

TypeOK ==
  /\ accepted \in Nat
  /\ read \in [Clients -> Nat]
  /\ hpc \in [Clients -> {"off", "registering", "idle", "fanout", "put", "confirm",
                          "reply", "delete", "gone"}]
  /\ hpos \in [Clients -> 1 .. Len(ServOrder)]
  /\ hmsg \in [Clients -> Msgs \cup {None}]
  /\ hack \in [Clients -> Acks \cup {None}]
  /\ hget \in [Clients -> Tally]
  /\ db \in [DOMAIN db -> Tally] /\ DOMAIN db \subseteq Hists
  /\ chan \in [Servers -> Seq(Msgs)]
  /\ acksTo \in [Servers -> Seq(Acks)]
  /\ hand \in [Servers -> Acks \cup {None}]
  /\ link \in [Servers -> {"up", "down", "lost"}]
  /\ breaks \in Nat
  /\ DOMAIN tasks = Servers
  /\ \A s \in Servers : IsABag(tasks[s]) /\ BagToSet(tasks[s]) \subseteq Msgs
  /\ log \in [Servers -> Hists]
  /\ unsent \in [Servers -> SUBSET Acks]
  /\ decided \in [Servers -> Nat]
  /\ counted \subseteq Servers \X Hists
  /\ confirmed \subseteq Clients \X Hists
  /\ answered \in [Clients -> SUBSET Acks]

NoTally == [count |-> 0, spec |-> FALSE]

Init ==
  /\ accepted = 0
  /\ read = [c \in Clients |-> 0]
  /\ hpc = [c \in Clients |-> "off"]
  /\ hpos = [c \in Clients |-> 1]
  /\ hmsg = [c \in Clients |-> None]
  /\ hack = [c \in Clients |-> None]
  /\ hget = [c \in Clients |-> NoTally]
  /\ db = [h \in {} |-> NoTally]
  /\ chan = [s \in Servers |-> <<>>]
  /\ acksTo = [s \in Servers |-> <<>>]
  /\ hand = [s \in Servers |-> None]
  /\ link = [s \in Servers |-> "up"]
  /\ breaks = 0
  /\ tasks = [s \in Servers |-> EmptyBag]
  /\ log = [s \in Servers |-> <<>>]
  /\ unsent = [s \in Servers |-> {}]
  /\ decided = [s \in Servers |-> 0]
  /\ counted = {}
  /\ confirmed = {}
  /\ answered = [c \in Clients |-> {}]

-----------------------------------------------------------------------------
\* The table of counts (proxy/database.rs).

\* Mutant: an unknown hash yields None.
GetTallyNone(h) == IF h \in DOMAIN db THEN db[h] ELSE None
\* PRCommand::Get; an unknown hash counts from zero.
GetTally(h) == IF h \in DOMAIN db THEN db[h] ELSE NoTally

\* PRCommand::Put
PutTally(h, t) == db' = [x \in DOMAIN db \cup {h} |-> IF x = h THEN t ELSE db[x]]

\* PRCommand::Delete
DeleteTally(h) == db' = [x \in DOMAIN db \ {h} |-> db[x]]

-----------------------------------------------------------------------------
\* run: connection number c takes the receiver of node c; there is no receiver
\* N, so that connection panics and takes the whole proxy down.

Up == accepted < N

Accept ==
  LET c == accepted + 1
  IN  /\ Up /\ c \in Clients
      /\ accepted' = c
      /\ hpc' = IF c \in Servers THEN [hpc EXCEPT ![c] = "registering"]
                ELSE [d \in Clients |-> "gone"]
      /\ UNCHANGED <<read, hpos, hmsg, hack, hget, db, chan, actorVars, serverVars,
                     historyVars>>

-----------------------------------------------------------------------------
\* handle_client_requests: the task of one client connection.

\* The registration arrives; an error or an unexpected message is only logged.
\* Until then the handler takes no acknowledgement.
Register(c) ==
  /\ hpc[c] = "registering"
  /\ hpc' = [hpc EXCEPT ![c] = "idle"]
  /\ UNCHANGED <<accepted, read, hpos, hmsg, hack, hget, db, chan, actorVars, serverVars,
                 historyVars>>

\* A command of the client: start to fan it out.
ReadCommand(c) ==
  /\ hpc[c] = "idle" /\ read[c] < Len(Script[c])
  /\ read' = [read EXCEPT ![c] = @ + 1]
  /\ hpc' = [hpc EXCEPT ![c] = "fanout"]
  /\ hmsg' = [hmsg EXCEPT ![c] =
                [kind |-> "append", cmd |-> Script[c][read[c] + 1], idx |-> 0]]
  /\ UNCHANGED <<accepted, hpos, hack, hget, db, chan, actorVars, serverVars, historyVars>>

\* The stage after a complete fan-out.
AfterFanout(pc) == IF pc = "fanout" THEN "idle" ELSE "reply"

\* One send of either fan-out loop; it waits while the channel is full.
FanoutStep(c) ==
  LET s == ServOrder[hpos[c]]
  IN  /\ hpc[c] \in {"fanout", "confirm"}
      /\ Len(chan[s]) < ChanCap
      /\ chan' = [chan EXCEPT ![s] = Append(@, hmsg[c])]
      /\ \/ /\ hpos[c] < Len(ServOrder)
            /\ hpos' = [hpos EXCEPT ![c] = @ + 1]
            /\ UNCHANGED <<hpc, hmsg>>
         \/ /\ hpos[c] = Len(ServOrder)
            /\ hpos' = [hpos EXCEPT ![c] = 1]
            /\ hmsg' = [hmsg EXCEPT ![c] = None]
            /\ hpc' = [hpc EXCEPT ![c] = AfterFanout(@)]
      /\ UNCHANGED <<accepted, read, hack, hget, db, actorVars, serverVars, historyVars>>

\* An acknowledgement of server c: Get its hash.
TakeAck(c) ==
  LET a == Head(acksTo[c])
  IN  /\ hpc[c] = "idle" /\ acksTo[c] # <<>>
      /\ acksTo' = [acksTo EXCEPT ![c] = Tail(@)]
      /\ hack' = [hack EXCEPT ![c] = a]
      /\ hget' = [hget EXCEPT ![c] = GetTally(a.hash)]
      /\ hpc' = [hpc EXCEPT ![c] = "put"]
      /\ UNCHANGED <<accepted, read, hpos, hmsg, db, chan, hand, link, breaks, serverVars,
                     historyVars>>

\* Mutant: the leader's acknowledgement counts double.
NewTallyLeaderTwice(t, a) ==
  [count |-> t.count + (IF a.spec THEN 2 ELSE 1), spec |-> t.spec \/ a.spec]
\* The count and the speculation after one more acknowledgement.
NewTally(t, a) == [count |-> t.count + 1, spec |-> t.spec \/ a.spec]

\* Mutant: one acknowledgement too few.
QuorumReachedEarly(t) == t.count + 1 >= quorum /\ t.spec
\* Mutant: confirm on the first acknowledgement, from whichever server.
QuorumReachedFirst(t) == t.count >= 1
\* The test that decides whether to confirm.
QuorumReached(t) == t.count >= quorum /\ t.spec

\* Put what was computed from the earlier Get, and confirm on a quorum.
PutAck(c) ==
  LET a == hack[c]
      t == NewTally(hget[c], a)
  IN  /\ hpc[c] = "put"
      /\ PutTally(a.hash, t)
      /\ counted' = counted \cup {<<c, a.hash>>}
      /\ \/ /\ QuorumReached(t)
            /\ hpc' = [hpc EXCEPT ![c] = "confirm"]
            /\ hmsg' = [hmsg EXCEPT ![c] =
                          [kind |-> "confirm", cmd |-> a.cmd, idx |-> a.idx]]
            /\ confirmed' = confirmed \cup {<<c, a.hash>>}
            /\ UNCHANGED hack
         \/ /\ ~QuorumReached(t)
            /\ hpc' = [hpc EXCEPT ![c] = "idle"]
            /\ hack' = [hack EXCEPT ![c] = None]
            /\ UNCHANGED <<hmsg, confirmed>>
      /\ UNCHANGED <<accepted, read, hpos, hget, chan, actorVars, serverVars, answered>>

\* Answer the client at the other end of this handler's connection; a failed
\* write ends the handler before it deletes the hash.
Reply(c) ==
  /\ hpc[c] = "reply"
  /\ \/ /\ answered' = [answered EXCEPT ![c] = @ \cup {hack[c]}]
        /\ hpc' = [hpc EXCEPT ![c] = "delete"]
     \/ /\ hpc' = [hpc EXCEPT ![c] = "gone"]
        /\ UNCHANGED answered
  /\ UNCHANGED <<accepted, read, hpos, hmsg, hack, hget, db, chan, actorVars, serverVars,
                 counted, confirmed>>

\* Delete the hash.
DeleteHash(c) ==
  /\ hpc[c] = "delete"
  /\ DeleteTally(hack[c].hash)
  /\ hpc' = [hpc EXCEPT ![c] = "idle"]
  /\ hack' = [hack EXCEPT ![c] = None]
  /\ UNCHANGED <<accepted, read, hpos, hmsg, hget, chan, actorVars, serverVars, historyVars>>

\* The client has closed its connection: the handler ends, and with it the
\* receiver of server c's acknowledgements.
ClientGone(c) ==
  /\ hpc[c] = "idle"
  /\ hpc' = [hpc EXCEPT ![c] = "gone"]
  /\ UNCHANGED <<accepted, read, hpos, hmsg, hack, hget, db, chan, actorVars, serverVars,
                 historyVars>>

Handler(c) ==
  \/ ReadCommand(c) \/ FanoutStep(c) \/ TakeAck(c) \/ PutAck(c) \/ Reply(c) \/ DeleteHash(c)

-----------------------------------------------------------------------------
\* server_actor: the task that owns the connection to server s.  The servers
\* stop listening once they have started, so a lost connection stays lost.

Receiverless(s) == s \in Clients /\ hpc[s] = "gone"

\* server_receiver.recv and a successful write: the server handles the message,
\* which spawns one task (handle_client_messages).
ActorForward(s) ==
  /\ Up /\ link[s] = "up" /\ hand[s] = None /\ chan[s] # <<>>
  /\ chan' = [chan EXCEPT ![s] = Tail(@)]
  /\ tasks' = [tasks EXCEPT ![s] = @ (+) SetToBag({Head(chan[s])})]
  /\ UNCHANGED <<handlerVars, db, actorVars, log, unsent, decided, historyVars>>

\* A write to a dead connection: the message is lost, and the actor notices
\* then or at a later write.
ActorWriteFails(s) ==
  /\ Up /\ link[s] = "down" /\ hand[s] = None /\ chan[s] # <<>>
  /\ chan' = [chan EXCEPT ![s] = Tail(@)]
  /\ \E l \in {"down", "lost"} : link' = [link EXCEPT ![s] = l]
  /\ UNCHANGED <<handlerVars, db, acksTo, hand, breaks, serverVars, historyVars>>

\* A read error on a dead connection ends the actor's loop as well; after a
\* plain end of the stream the reading branch only stays disabled.
ActorReadFails(s) ==
  /\ Up /\ link[s] = "down" /\ hand[s] = None
  /\ link' = [link EXCEPT ![s] = "lost"]
  /\ UNCHANGED <<handlerVars, db, chan, acksTo, hand, breaks, serverVars, historyVars>>

\* An acknowledgement arrives: pass it on, drop it when the handler has ended,
\* or block on the full channel.
ActorReceive(s, a) ==
  /\ Up /\ link[s] = "up" /\ hand[s] = None
  /\ unsent' = [unsent EXCEPT ![s] = @ \ {a}]
  /\ \/ /\ Receiverless(s)
        /\ UNCHANGED <<acksTo, hand>>
     \/ /\ ~Receiverless(s) /\ Len(acksTo[s]) < ChanCap
        /\ acksTo' = [acksTo EXCEPT ![s] = Append(@, a)]
        /\ UNCHANGED hand
     \/ /\ ~Receiverless(s) /\ Len(acksTo[s]) >= ChanCap
        /\ hand' = [hand EXCEPT ![s] = a]
        /\ UNCHANGED acksTo
  /\ UNCHANGED <<handlerVars, db, chan, link, breaks, tasks, log, decided,
                 historyVars>>

\* The blocked send completes: there is room again, or no receiver any more.
ActorUnblock(s) ==
  /\ Up /\ hand[s] # None
  /\ hand' = [hand EXCEPT ![s] = None]
  /\ \/ /\ Receiverless(s)
        /\ UNCHANGED acksTo
     \/ /\ ~Receiverless(s) /\ Len(acksTo[s]) < ChanCap
        /\ acksTo' = [acksTo EXCEPT ![s] = Append(@, hand[s])]
  /\ UNCHANGED <<handlerVars, db, chan, link, breaks, serverVars, historyVars>>

Actor(s) ==
  \/ ActorForward(s) \/ ActorWriteFails(s) \/ ActorUnblock(s)
  \/ \E a \in unsent[s] : ActorReceive(s, a)

\* The server stops or its connection breaks.
LinkBreaks(s) ==
  /\ breaks < MaxBreaks /\ link[s] = "up"
  /\ breaks' = breaks + 1
  /\ link' = [link EXCEPT ![s] = "down"]
  /\ UNCHANGED <<handlerVars, db, chan, acksTo, hand, serverVars, historyVars>>

-----------------------------------------------------------------------------
\* The servers, as ReplicaLogs promises: spawned tasks run in any order.

\* handle_new_proposal: the command is ordered next and acknowledged.
ServerAppend(s, m) ==
  /\ m.kind = "append"
  /\ tasks' = [tasks EXCEPT ![s] = @ (-) SetToBag({m})]
  /\ log' = [log EXCEPT ![s] = Append(@, m.cmd)]
  /\ unsent' = [unsent EXCEPT ![s] = @ \cup
       {[cmd |-> m.cmd, hash |-> Append(log[s], m.cmd), spec |-> s \in Leaders,
         idx |-> Len(log[s]) + 1]}]
  /\ UNCHANGED <<handlerVars, db, chan, actorVars, decided, historyVars>>

\* handle_execution: a confirmation sets the decided index, whatever it was.
ServerDecide(s, m) ==
  /\ m.kind = "confirm"
  /\ tasks' = [tasks EXCEPT ![s] = @ (-) SetToBag({m})]
  /\ decided' = [decided EXCEPT ![s] = m.idx]
  /\ UNCHANGED <<handlerVars, db, chan, actorVars, log, unsent, historyVars>>

Server(s) == \E m \in BagToSet(tasks[s]) : ServerAppend(s, m) \/ ServerDecide(s, m)

-----------------------------------------------------------------------------
Next ==
  \/ Accept
  \/ \E c \in Clients : Register(c) \/ Handler(c) \/ ClientGone(c)
  \/ \E s \in Servers : Actor(s) \/ ActorReadFails(s) \/ LinkBreaks(s) \/ Server(s)

Spec == Init /\ [][Next]_vars

\* Fairness: tokio runs every ready task of the proxy and of the servers.
\* Nothing obliges a client to connect or to register, or a dead connection to
\* report an error.
Fairness ==
  /\ \A c \in Clients : WF_vars(Handler(c))
  /\ \A s \in Servers : WF_vars(Actor(s)) /\ WF_vars(Server(s))

FairSpec == Spec /\ Fairness

-----------------------------------------------------------------------------
\* Properties.

ConfirmedHists == {e[2] : e \in confirmed}

\* A history is confirmed only if a quorum of servers has exactly that history
\* as a prefix of its log, a leader among them; counts that race, are lost or
\* start again after a deletion never pretend to a quorum.
ConfirmNeedsQuorum ==
  \A h \in ConfirmedHists :
    LET holders == {s \in Servers : IsPrefix(h, log[s])}
    IN  Cardinality(holders) >= quorum /\ holders \cap Leaders # {}

\* The fast path fixes one order: of two confirmed histories, one extends the
\* other, whatever order the servers received the commands in.
ConfirmedAgree ==
  \A g, h \in ConfirmedHists : IsPrefix(g, h) \/ IsPrefix(h, g)

\* "Ensure we do not send confirm twice": one confirmation per history.
ConfirmOnce ==
  \A e, f \in confirmed : e[2] = f[2] => e = f

\* The answer to a command goes to a client that sent the command.
ReplyToSender ==
  \A c \in Clients : \A a \in answered[c] : a.cmd \in ToSet(Script[c])

\* What two servers hold as decided is one order: the logs agree up to the
\* smaller decided index.
DecidedAgree ==
  \A r, s \in Servers : \A k \in 1 .. Len(log[r]) :
    (k <= decided[r] /\ k <= decided[s] /\ k <= Len(log[s])) => log[r][k] = log[s][k]

\* "Implement multicast to all connected servers once the client sends a
\* message": a handler that starts to multicast reaches every server's channel.
\* The first connection takes the receiver of node 1, so nobody ever takes the
\* acknowledgements of node 0: its actor blocks on them and stops reading the
\* commands; and while the handler waits on a full channel it takes no
\* acknowledgements of node 1 either, so that both actors and it wait for ever.
MulticastCompletes ==
  \A c \in Clients :
    (hpc[c] \in {"fanout", "confirm"}) ~> (hpc[c] \notin {"fanout", "confirm"})

\* When all clients are connected and every server, and so a quorum with its
\* leader, has ordered the same command first, that history is eventually
\* confirmed, unless a client leaves.
QuorumConfirms ==
  \A h \in {<<x>> : x \in Cmds} :
    (accepted = NumClients /\ \A s \in Servers : log[s] # <<>> /\ IsPrefix(h, log[s]))
      ~> (h \in ConfirmedHists \/ \E c \in Clients : hpc[c] = "gone")

=============================================================================
