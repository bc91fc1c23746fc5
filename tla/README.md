# A verification project for omnipaxos-kv

omnipaxos-kv is a replicated key-value store whose OmniPaxos core has been
reworked into a deadline-ordered fast path in the style of Nezha: a proxy
multicasts each command to all servers, every server orders the commands by the
deadline its synchronised clock gives them, and the proxy confirms a command
once a quorum that includes a leader reports the same hash of its history. This
directory holds TLA+ models of that system, TLC configurations for small
instances, and TLAPS proofs that hold for every instance.

Paths below are relative to the repository: `P/` is
`crates/custom-paxos/omnipaxos/src/`, `K/` is `src/` (the three binaries), `ST/`
is `crates/custom-paxos/omnipaxos_storage/src/`.

## 1. Inventory

| Component | State | Operations | Interacts with |
|---|---|---|---|
| Clock (`P/clock.rs`) | logical time, registered deadlines, drift and uncertainty | tick, new_deadline, add_deadline, resync with a master | notifies the waiter of the buffers; its time stamps every command |
| Buffers (`P/buffers.rs`) | early heap, late map, notifiers, last released deadline | insert, the waiter loop, free_from_late | called by the task of each command and by NewDeadline messages |
| Sequence Paxos (`P/sequence_paxos/`) | role, leader state, outgoing queues | append → handle_new_proposal, handle_execution, handle_new_deadline, handle_leader, handle_resync_* | spawns one tokio task per command or confirmation |
| Ballot leader election (`P/ballot_leader_election.rs`) | ballot, leader, happy, heartbeat round and replies | hb_timeout, handle_request, handle_reply | heartbeats between servers; reports a ballot to handle_leader |
| OmniPaxos facade (`P/omni_paxos.rs`, `P/util.rs`, `P/messages.rs`) | logical election clock | tick, append, read, try_become_leader | the server's only entry point |
| Storage (`P/storage/`, `ST/memory_storage.rs`, `ST/persistent_storage.rs`) | log, hash of the history, decided and compacted index, batch, cache of them | append, read, promise, decide, trim, snapshot, stop sign, log synchronisation, reload after a restart | shared by all tasks of a server under one lock; two back-ends behind one trait |
| UniCache (`P/unicache/`) | encoder and decoder cache, next code | try_encode, decode, clone | the storage of leader and followers, behind a cargo feature |
| Server (`K/server/server.rs`, `K/server/database.rs`) | key-value map, private command ids, applied index | main loop, establish_initial_leader, handling of client and cluster messages, application of decided entries | network actors, OmniPaxos |
| Server network (`K/server/network.rs`) | connections to peers and clients | listen, connect, handshake, number the clients, send, receive | one reader and one writer task per connection |
| Proxy (`K/proxy/`) | table hash → count and speculative result, channels, connections | accept, multicast, count, confirm, answer | clients on one side, all servers on the other |
| Client (`K/client/`) | request schedule, one row per request | connect, wait for the start signal, send, record the answers, end | a server, or the proxy in its place |

What is hard in this code:

* **Interleaving.** Each command is a task of its own; insert, notification,
  append and acknowledgement of different commands interleave at every await,
  with the waiter, the clock and the message handlers.
* **Split critical sections.** The proxy reads and writes a count under two
  locks; the deletion of a confirmed hash comes several awaits after the test.
* **Time.** Deadlines are compared with the last released one, with clocks that
  drift and that a resynchronisation may set back.
* **Failure.** Links break and never come back (servers stop listening once they
  run), clients leave, a connection too many panics the proxy's accept loop.
* **Back-pressure.** Bounded channels run in both directions between the
  handlers and actors of the proxy.
* **Start-up.** Processes start in any order, connections arrive from two
  sides, and what was read behind a handshake is dropped with the handshake's
  codec.
* **Repetition.** A command is executed up to three times, and the index that
  says what is decided is set by tasks without an order.
* **Two copies of one thing.** A cache and its back-end, two back-ends, an
  encoder and its decoders, the clock of a server and that of node 1: each pair
  is kept in step by code on both sides.
* **Several leaders.** The prepare and accept phases of Paxos are gone; an
  election makes a server a leader at once and nothing makes it a follower again.

What makes the parts correct:

* a replica neither loses nor duplicates a command between its buffers, its log
  only grows, and what an acknowledgement says about the log stays true;
* a leader releases commands in deadline order and acknowledges every one;
* a history is confirmed only if a quorum with a leader really holds it, and
  confirmed histories extend one another;
* ballots only grow, nobody follows a ballot that does not exist, nobody takes
  over without need, and a connected quorum gets a leader;
* a server applies every decided entry, and what it executes more often does not
  show in the database;
* the storage reads back what was appended, on either back-end, after any
  compaction and restart, as long as nothing beyond the log is compacted;
* a decoder turns every code into the value that was encoded;
* the clock does not run ahead of what node 1 has shown by more than its own
  drift and half a round trip, and its lock is always given back;
* everyone who is connected starts, and a client that has started ends.

`PROJECT.json` lists every component, the ones not modelled too, and the hazards
by source line.

## 2. Modules

    ReplicaLogs   <--refines--  Replica        what a replica promises / its code
         ^ relied on by
       Proxy  <--  MCProxy                     proxy, its tasks, abstract servers
    Election  <--  MCElection                  heartbeats, ballots, roles
    Execution                                  speculated, confirmed, decided commands
    ClockSync                                  the exchange behind Replica!Resync
    Storage                                    cache, memory and RocksDB back-end
    UniCache                                   encoder, decoders, LRU and LFU
    Network  <--  Session  <--  MCSession      connections and start-up / clients

    ReplicaProofs, ProxyProofs                 theorems on Replica and on Proxy
    ElectionProofs, SessionProofs              theorems on Election, on Network and Session
    ExecutionProofs, ClockSyncProofs           theorems on Execution and ClockSync
    UniCacheProofs, StorageProofs              theorems on UniCache and on Storage

### Replica

One server is a clock, a buffer with its waiter, and one task per command; the
module has a set of servers that exchange NewDeadline messages. Every section
that the code runs under one lock is one action:

| Action | Code |
|---|---|
| `Propose` | append_to_log and the synchronous part of handle_new_proposal |
| `Insert` | the task's first step, Buffers::insert; a leader re-stamps a late command and tells the peers, a follower parks it |
| `WaiterPop`, `AddDeadline`, `WaiterNotify` | one round of Buffers::waiter, split where it releases the lock |
| `Tick`, `Resync` | Clock::tick_fn with drift (`Steps`), and a resynchronisation |
| `HandleNewDeadline` | handle_new_deadline, free_from_late |
| `AppendEntry`, `PushAck` | the rest of the task: append and read index and hash under the storage lock, push the Ack under the queue's lock |
| `BecomeLeader` | handle_leader, whenever the election says so |

The hash of a history is the history itself: a collision of the 64-bit hash is
left out. A resynchronisation may set the clock to any value up to `MaxTime`, which covers
whatever the exchange with the master computes.

### ReplicaLogs

The promise of a replica: a log that only grows, contains every command that
reached it at most once and in any order, and one truthful acknowledgement per
index. `Replica!ImplementsReplicaLogs` is the refinement; `Proxy` relies on the
promise and on nothing else of a server.

### Proxy

One handler task per client and one actor task per server, with the shared
table, the bounded channels, and the servers of `ReplicaLogs` reduced to their
log, the bag of spawned tasks and the acknowledgements under way. `TakeAck` and
`PutAck` are the two lock sections of one count; `FanoutStep` is a single
`send().await` and blocks on a full channel; `Reply` may fail and ends the
handler; `ActorReceive` and `ActorUnblock` model the blocking send of the actor.
A handler waits for the registration of its client (`Register`) before it takes
anything else; an actor notices a broken link by a write or by a read
(`ActorReadFails`), whichever comes first.
Connection `c` reads the acknowledgements of node `c`, as in the code, so that
node 0 is never heard and connection `N` takes the proxy down (`Accept`).
`counted` and `confirmed` are history variables.

### Election

Ballots, heartbeat rounds, happiness and takeover of every server, the role
they give to Sequence Paxos, and establish_initial_leader. Messages are a set;
one that is never handled is lost, one handled after its round is late. `Break`
cuts any set of links once. `Timely` states the assumption under which the
election is designed: a round of one second is long enough for its messages and
the servers tick at the same rate. With `Timely = FALSE` nothing is assumed.

### Execution

One server, leader or follower, with arbitrary commands. `Propose` executes a
command at a leader (speculation), `Confirm` at a follower, `ApplyDecided` at
both. `SetDecidedIdx` is the spawned task of a confirmation: it runs at any time
and sets the decided index to whatever the confirmation said. The main loop
looks at the index (`ReadDecidedIdx`) and reads the suffix (`ApplyDecided`) under
two locks, between which it may change; an index that has gone back, or lies
beyond the log, makes the `unwrap` panic. `disorder` remembers that the index
did one of the two; `Proxy` shows that it can.

### ClockSync

One server and node 1, each with a clock of its own. `Pass` is a millisecond of
the operating system's time (`now`), by which round trips are measured. A tick of
either clock is longer or shorter by `Drift`; ticks that were missed while the
clock was locked are made up (`owed`), and every `sync_freq` ticks a sync task is
spawned. A task of the server sends a request (`Request`), takes any answer from
the shared channel (`Receive`) and sets the clock (`Resync`), three steps that
other tasks interleave with. Node 1 resynchronises with itself in the same way: it
reads its clock under one lock (`ReadOwn`) and writes it back, plus half of the
time that took, under another, so that ticks in between are lost and its clock
goes back. Requests and answers are lost or late, and the sender of an answer
holds the lock of the clock while the channel is full (`HandleAnswer`,
`SendCompletes`). Three history variables state the accuracy: `peak` is the
latest time node 1's clock has shown, `bound` half of the round trip of the
server's last resynchronisation, `ticks` the server's ticks since.

### Storage

One server with its InternalStorage on both back-ends. The operators carry the
names of the functions; `mem_` and `db_` are the back-ends, and the actions
perform one operation on both. A back-end is a record: a vector with the index of
its first element, or the keys of a column family with `next_log_key`;
`write_compaction` is the batch of operations that write_atomically performs for a
trim or a snapshot. Subtraction wraps as a `usize` of `Width` bits does.
`Append_`, `Flush` and `Promise` (the two lock sections of handle_leader, with
`electing` between them), `Decide` and `Restart` are what the server does; `Trim`,
`TakeSnapshot` and `SetStopsign` are functions of the library that nothing calls in
this commit, and are called here at any time. `Decide` is handle_execution: it sets
the decided index to anything, beyond the log too. A compaction up to such an index
empties the log and lets its indices run ahead of its entries; `overrun` remembers
that this has happened, and the properties are stated until then. `Restart` forgets
the cache, opens the database and stores the promise it finds, as
SequencePaxos::with does. A snapshot is the sequence of the entries that went into
it.

### UniCache

The caches of one field at the leader and at two followers, with either policy.
The `lru` crate is external: a sequence of pairs in the order of use. LFUCache is
translated: values, counts and a queue per count. A clone of an LRUniCache keeps
the order; of an LFUniCache, every value is set once in the order of a HashMap.

### Network and Session

`Network` is the start of the servers. A connection exists for its connector
before its acceptor has read the handshake; `Register` reads it, drops up to all
of what was sent behind it and numbers a client; `AddConnection` is one turn of
initialize_connections; `TakeoverTick` is the initial leader's timer, which
sends the start signals once its own ballot is promised. `Break` ends any
connection; a part of what was on it is still delivered. A message to a broken
connection is dropped, and sooner or later its slot is emptied. `Session` adds
the clients: `Start`, `Request`, `HandleServerMessage` and the two cases of
the interval timer are the arms of the client's loop. `SendRequest` is the await on
the writer's channel inside the arm of a request: while it waits for room the
client does nothing else. `HandleRequest` is the server's reader, which makes an
acknowledgement and a response due; `Respond` sends them in any order, every
acknowledgement to client 1 and a response to the client of the command. A client
takes both for responses. A client is the client program, which connects once; a
standalone proxy that connects again is not modelled.

## 3. Runs

| Run | Instance | Shows |
|---|---|---|
| `replicas` | leader + follower, 2 commands each | commands have one home, notifiers in step, acknowledgements true, no duplicates, refinement of ReplicaLogs |
| `leader` | 1 leader, 2 commands, uneven ticks, 1 resynchronisation, fair | release order without resynchronisation; every command acknowledged in any case |
| `proxy_agreement` | 3 servers, 2 clients, 2 commands, channels of 1 | confirmed histories are held by a quorum with a leader and extend one another |
| `proxy_faults` | 3 servers, 3 connections (one too many), 1 command, 1 broken link | the same quorum when messages are lost, a link breaks, clients leave and the proxy goes down |
| `election` | 3 servers, timely rounds, any set of links breaks | no needless takeover; a quorum-connected leader within 4 rounds |
| `election_late` | 2 servers, no timing assumption | ballots only grow, no leader, promise or message names a ballot its owner has not had, no peer counted twice |
| `execution` | 3 arbitrary commands on one key, leader or follower, fair | no decided entry is skipped and nothing panics while the index grows within the log; repeated execution leaves the database of the log; what is decided gets applied |
| `clock_sync` | node 1 and a server, 2 sync tasks each, channel of 1, drift of half a tick, fair | never far ahead of node 1; no more answers than takers; the lock is given back |
| `storage` | 1 server, 3 entries, batches of 2, 1 ballot, 1 restart, 4-bit indices | until a compaction goes beyond the log: back-ends agree, a restart recovers all but the batch, reads return the history, compaction loses nothing |
| `unicache` | 3 values, caches of 2, 6 fields, 1 late follower, 1 that joins | every code is decoded to its value, decoders mirror the encoder, LFU can always evict |
| `session` | 2 servers, 2 clients of server 1, initial leader 2, 1 broken connection, 2 intervals, 2 requests of client 1, room for 1, fair | clients are numbered, no late connection, all start, started clients end |
| `decided_diverge` (violation) | 3 servers, 2 commands | decided_idx covers entries that servers order differently |

The run marked violation checks a statement of a document of the repository;
`PROJECT.json` quotes it under `findings`.

**Bounds.** Two commands are the least that can be ordered differently, be late
after one another, or share a deadline, and two servers the least for a
re-deadline message; three servers are the least with a quorum that is neither
one nor all. With a channel capacity of 1 the two commands of `proxy_agreement`
fill every channel of the proxy, and an actor waits with an acknowledgement in
its hand; the one command of `proxy_faults` does not. The clock passes `MaxTime`
only while a deadline is pending. Seven rounds leave four after a break in the
third. The election needs four: with three, TLC finds an execution in which no
connected server leads yet. Three commands on one key let a repeated command
overwrite a later one. Two sync tasks are the least that can swap answers, and a
time of one step gives each clock two ticks, each of which spawns a task, with a
round trip of none or one step. Three entries with batches of two leave one in
the batch, and indices of up to four are decided, so also one beyond the log;
four bits wrap well above the longest log. Caches of two with three values
evict, and six fields raise a count twice and evict after it. A higher-numbered
initial leader is the only one whose start signal can be lost behind its
handshake, so `session` takes that case; the second request of client 1 waits
until the first has left the channel. Where the bound on rounds, commands or
time ends a behaviour, or the clients have ended, deadlock checking is off.

**Fairness.** Weak fairness on the tasks and waiter of every server, on the
ticks of its clock and on the handling of messages (`Replica`), and on the
handlers, actors and server tasks (`Proxy`, for the statements of section 5):
tokio runs every task that is ready, the clock is an interval timer, and TCP
delivers what was sent on a working connection. No fairness is assumed of
clients, failures, resynchronisations or role changes. `Execution` adds weak
fairness on the tasks that set the decided index and on the main loop, which
heartbeats of the peers keep turning; `ClockSync` on the tasks that take
answers, and none on the network; `Session` on starting the processes, on
connecting (retried every second), on handshakes and messages, on servers
reading what clients send and on interval timers, and none on making requests,
on acknowledgements, responses or breaks. The client's loop gets to its interval
timer although the other arms come first, because requests are further apart
than turns of the loop.

## 4. Proofs

All theorems hold for any number of servers, clients and commands and for all
bounds, under the named assumptions of the modules: constants are naturals or
sets of the right kind, sets of servers and clients are finite, and

* `Proxy`: `2 * FaultTolerance < N`, as in the deployment files (the proxy does
  not check its configuration);
* `Election`: the initial leader is a server and a read quorum is no larger than
  the cluster, which ClusterConfig::validate checks;
* `Network`: clients and servers have different names, and the initial leader is
  a server;
* `ClockSync`: the drift is at most one tick per tick;
* `UniCache`: caches hold at least one value, and no follower is called leader;
* `Storage`: positions that fit a `usize`
  (`MaxEntries + 2 < 2^Width`), and `None` is not a number, a snapshot or a stop
  sign.

| Theorem | States |
|---|---|
| `ReplicaTypeCorrect`, `ProxyTypeCorrect`, `ElectionTypes` | type correctness |
| `BuffersSound` | `WaitingHasOneHome` and `NotifiersInSync` |
| `LeaderReleasesInOrder` | `EarlyNotBeforeReleased` |
| `AcksDescribeLogs`, `LoggedOnce` | `AckDescribesLog`, `AppendedOnce` |
| `ReplicasKeepPromise` | `ImplementsReplicaLogs`, the refinement |
| `ConfirmedByQuorum` | `ConfirmNeedsQuorum` |
| `ConfirmedHistoriesAgree` | `ConfirmedAgree` |
| `LeadersAreReal`, `PeersCountOnce` | `FollowsRealBallot`, `HeardOnce` |
| `BallotsGrow` | the action property `BallotsOnlyGrow` |
| `NoTakeoverWhileLinked` | `NoNeedlessTakeover` |
| `DecidedApplied` | `NoDecidedSkipped` |
| `DatabasesConverge` | `DatabaseConverges` |
| `ClockNeverFarAhead` | `NeverFarAhead` |
| `EveryAnswerAwaited` | `AnswersAwaited` |
| `ChannelDrained`, `EveryClientNumbered` | `NoLateConnection`, `ClientsNumbered` |
| `CodesTurnBack`, `CachesMirror` | `DecodesExactly`, `DecoderMirrorsEncoder` |
| `LeastFrequencyExact` | `EvictsLeastFrequent` |
| `BackendsSame`, `RestartLosesOnlyBatch` | `BackendsAgree`, `RestartRecovers` |
| `ReadsExact`, `SnapshotsCover` | `ReadsHistory`, `SnapshotCovers` |

**Buffers.** `BufferInv` adds to the two properties that ids from `next_id` on
are unused (`Fresh`); without it `Propose` could meet a command that is already
in a buffer.

**Release order.** `ReleaseInv` says that an initial leader stays one, has no
late commands and has spawned all its tasks as a leader, and, while no clock was
set back, that no deadline it has given or released exceeds `now + Delay`. So a re-stamped
late command gets a deadline that is late enough. A follower has no such bound:
its buffer takes deadlines of another clock, which is why the property is about
leaders.

**Logs.** `LogInv` ties the log to the tasks: the commands in the log are those
whose task has appended, each reply describes a prefix of the log and each
acknowledgement repeats the reply of its task. Truth, uniqueness and the
refinement follow; the refinement maps a command to proposed once its task exists.

**Quorum.** `PendingInv` says that an acknowledgement on its way is true and is
in one place only (on the wire, in the channel, in the actor's hand or in the
handler's), and that what was counted is not on its way any more; so every
server is counted at most once per history. `CountInv` then bounds every count,
in the table or read by a handler, by the number of servers counted (`Voters`):
lost updates and counts that restart after a deletion only make a count
smaller. A count that reaches the quorum is therefore backed by a quorum of logs.
Agreement follows: two quorums intersect because `2f < N`, and two prefixes of
the log of a common server are comparable (`PrefixesComparable`).

**Ballots.** `FollowsRealBallot` says of leaders, promises and replies, on their
way or kept, that they name a ballot its owner has had. `BallotInv` adds what
keeps it: a server's own ballot carries its pid and is never above the leader it
follows (`OwnBallots`), replies and leaders name real ballots (`RepliesReal`,
`LeadersReal`), and the candidates of update_leader have a largest one
(`HasLargest`, by adding one candidate at a time), without which the CHOOSE of
the maximum would say nothing. `BallotsOnlyGrow`, about ballot, leader and
promise, is read off this invariant. For `HeardOnce`, `AskedOnce` follows a
request into its answer: a peer that has still to be asked has not answered, and
one that has answered has done so once.

**No needless takeover.** `Calm` describes an undisturbed election: everyone has
its initial ballot, follows an initial ballot and is happy, every reply says so,
and every pair has its request or its answer of the current round under way or
kept. With timely messages a round ends only when all its requests are answered,
so a server then has heard all the others, and a ballot that is at least that of
the leader is among them; hence nobody is unhappy and check_takeover starts no
takeover. `CalmUntilBreak` holds up to the first broken link.

**Applying.** `NoDecidedSkipped` says nothing about the index read under the
first lock. `ApplyInv` orders the four indices, applied < read <= decided <= end
of the log, as long as no task has broken the order; so the suffix read under
the second lock reaches at least as far as `current_decided_idx` will say.

**Repeated execution.** A leader's database runs ahead of the decided log and a
follower's may fall back behind a command it has confirmed. `ConvergeInv` says
how far: a key has the value that the commands up to the last applied position
leave (`Contents`, a recursive function of the position), unless it is `Dirty`,
written by a command that was executed ahead of its turn and will be executed
again. When everything has been applied no key is dirty.

**Clock.** `NeverFarAhead` alone is not inductive: a resynchronisation uses an
answer that has come a long way, and node 1 may have set its own clock back since.
`SyncInv` compares with the latest time node 1 has shown: an answer in the network,
in the hand of its sender and in the channel (`AnswersShown`), and one a task has
taken, at node 1 and at the server (`TasksShown`), names no later time. Which task
takes which answer does not matter for this side of the error. For the other side
there is no such bound: a task may take an answer as old as it likes and set the
clock far back. `AnswersAwaited` compares a sum of the answers on the
network with the number of waiting tasks; the lemmas on that sum (a change at
one point changes it by as much) are proved first.

**Connections.** `NetInv` says of every process that a server knows
of, in the channel of new connections or in a slot, that it has a connection
which its handshake made known (`SlotsMatch`), that the ids of a server's
clients are 1 to `max_client_id`, each given once (`IdsGivenOnce`), and that
whoever leaves initialize_connections has connected to all smaller peers
(`ConnectorsDone`). So the loop ends only when nobody can arrive any more.

**Encoder and decoder.** Between a code and its decoding the encoder moves on, so
comparing the two caches of the moment proves nothing. `ReplayInv` says that for
every aligned follower there is a sequence of encoder states, one per message
still in its inbox: the decoder mirrors the first, each message is what
try_encode sent between two neighbours, and the last is the encoder of now. One
lemma (`OneStep`) shows that decoding keeps the mirror and returns the field;
it is proved per policy, from the lists of the LRU and from the values, counts
and queues of the LFU. `GoodLfu` says why `min_frequency` is exact: the bins
hold exactly the keys with their count, each once, and none is in a lower bin.

**Storage.** None of the four properties is inductive: they compare answers, and
a wrong key that no answer shows yet would spoil a later one. `StorageInv` says
all of it, until a compaction goes beyond the log: what a back-end holds is the
image of the cache, the history and the snapshot (`ImagesHeld`). The vector is the
history behind the compacted index, the keys of the column family are the same
entries by position with `next_log_key` behind the last one, and the cache repeats
every other value, where a value that was never written may be missing (`Held`).
One lemma per operation of the back-ends shows that it turns images into images
(`EntriesAppended`, `CompactionWritten`) or what it reads from one (`EntriesRead`,
`SuffixRead`); no difference of positions wraps, because the entries of a history
are distinct and so bounded in number (`Fits`, `SubFits`, `AddFits`). `Valid` says
of a cache that only the stop sign is accepted behind the history and that
compacted positions lie within it; it says nothing of the decided index, which a
confirmation sets to anything. `Covers` adds that only compacted positions are
forgotten, so that a snapshot grows by exactly the positions that the log gives up,
in order (`SnapshotCoversMore`: the rank of a kept position is its place in the
snapshot).

**Instead of induction.** The provers cannot use an induction theorem, whose
parameter is an operator. Facts about recursive functions and sums over data are
therefore proved by least counterexample: `LeastNatural` says that a nonempty
set of naturals has a least element; the set of positions where a claim fails is
such a set, and the recursion at its least element refutes it. The proofs on
`Storage` need none of this, because its operators are functions of positions and
cardinalities.

Only model-checked:

* the liveness properties (fairness and ENABLED are out of TLAPS's reach) and
  the violation;
* `Election!ElectedAfterBreak`, a quorum-connected leader within four rounds of
  a break: an argument about which ballots have met in which round, whose
  invariant has a case for every round, of which TLC explores all on three servers.

## 5. Where code and expectation part

`decided_diverge` is kept as a run. The following are disagreements of the same
kind that the models exhibit; the statement is defined in the module, and TLC
finds the counterexample on the instance named.

| Statement | Instance | What happens |
|---|---|---|
| `Replica!EveryReplicaAcknowledges` | `FairSpec`, leader and follower, 2 commands, `MaxTime` 0 | a command late at the follower only is parked for ever (`P/buffers.rs` 156): a NewDeadline is sent only for commands late at the leader, and names the leader's private id |
| `Proxy!ConfirmOnce` | 5 servers, 4 clients, 1 command | the hash is deleted after the confirmations went out (`K/proxy/proxy.rs` 135 "Ensure we do not send confirm twice."), so a further acknowledgement confirms again |
| `Proxy!ReplyToSender` | 3 servers, 2 clients, 1 command | the answer goes to the client whose handler completed the quorum (`K/proxy/proxy.rs` 131) |
| `Proxy!QuorumConfirms` | `FairSpec`, 3 servers, 2 clients | two handlers read the same count (`K/proxy/proxy.rs` 113); a history held by all is never confirmed |
| `Proxy!MulticastCompletes` | `FairSpec`, 2 servers, 1 client, 4 commands, channels of 1 | both actors wait for room for an acknowledgement and forward no command (`K/proxy/proxy.rs` 188), the handler waits for room for a command and takes no acknowledgement: a multicast stops half way ("Implement multicast to all connected servers once the client sends a message.", line 21) |
| `Election!LeaderHearsQuorum` | as `election` | a server without a single heartbeat becomes or stays leader (`P/sequence_paxos/leader.rs` 38), against `P/ballot_leader_election.rs` 92, "heartbeats are needed to become and remain the leader" |
| `ClockSync!UncertaintyCovers` | as `clock_sync` | the counter behind get_uncertainty is reset when a sync task is spawned (`P/clock.rs` 113), not when the clock is set, and half a round trip counts as zero, against `P/clock.rs` 49, "how many millis the manufacturer (in this case us) can guarantee of error bound" |
| `Storage!EntriesOrNothing` | as `storage` | PersistentStorage answers a range that begins in the compacted part with as many entries from behind it (`ST/persistent_storage.rs` 344), against `P/storage/mod.rs` 164, "an empty Vector should be returned" |
| `Session!LatencyOfRequests` | as `session` | new_response resizes the rows to the id of the response (`K/client/data_collection.rs` 40): the rows of later requests are dropped and their responses meet a row without a request time; acknowledgements count as responses, and client 1 gets those of every command (`K/server/server.rs` 227). `build_scripts/CLOCK_BENCHMARK_README.md` 15 takes the "mean client request → response time" from these rows |

Properties that hold only with a condition say so in their name or their first
conjunct, and the condition is a fact about the code: `disorder` (the decided
index is not monotone), `resyncs` (a clock that was set back gives deadlines
before released ones), `overrun` (nothing keeps the decided index within the
log, and a compaction up to it loses the end of the log), `Aligned` (a clone of
an LFUniCache starts all counts again, and such a follower does decode wrong
values) and `swallowed` (a start signal lost behind a handshake, impossible with
the `initial_leader = 1` of the deployment files). A client ends with its last
interval whether or not its responses have come: run_finished compares the
number of requests with itself.

## 6. Not modelled

* Functions without a caller in this commit. try_trim, try_snapshot and
  set_stopsign, and the codecs and caches of UniCache (decode_entries,
  get_unicache, set_unicache), are modelled as the library offers them;
  sync_log, create_log_sync, create_diff_snapshot, append_on_prefix,
  reconfiguration as a protocol and `reconnected` are not modelled.
* PersistentStorage lacks history_hash, which the trait requires, so that it does
  not compile against this commit and the fast path cannot run on it; `Storage`
  compares everything else.
* A standalone proxy whose actor connects and registers again at a server
  (`K/proxy/proxy.rs` 158), to which the server may give a further client id.
* Serialisation of a cache of UniCache, after which an LRU has as many places as it
  had elements, and codes that overflow their type: capacities are taken to fit it.
* Addresses and DNS, back-pressure of the server's channels, and a frame cut
  by the end of a connection (`Network!Break` loses it whole); the server
  network's shutdown, which is dead code.
* An empty list of intervals, with which a client ends at once; the files that
  client and server write.
* Serialisation, configuration files, logging, the terminal UI, and the derive
  macro; `K/server/proxy.rs`, which no module declares.

## 7. Plan

1. A composition of `Execution` with `Proxy`, in which the order of the
   confirmations comes from the proxy instead of being any.
2. A proxy in `Network`, which registers at every server and again after a break.
3. An invariant for `Election!ElectedAfterBreak`.
