------------------------------- MODULE Replica -------------------------------
(***************************************************************************)
(* The replica side of the deadline-ordered fast path, for a set of        *)
(* servers that exchange NewDeadline messages.  A server stamps a command  *)
(* with a deadline of its own clock (server.rs, append_to_log), spawns a   *)
(* task for it (follower.rs, handle_new_proposal), and the task hands the  *)
(* command to the deadline buffers (buffers.rs), waits to be notified,     *)
(* appends the command to the log under the storage lock and pushes an     *)
(* acknowledgement that carries the hash of the whole log.                 *)
(*                                                                         *)
(* The concurrency is that of the code: every task of a server, its waiter *)
(* loop, its clock and its message handlers interleave; what one of them   *)
(* does under one lock is one action.  A command is its private_id; the    *)
(* hash of a history is the history itself, so a collision of the 64-bit   *)
(* hash is left out.                                                       *)
(***************************************************************************)
EXTENDS Naturals, Sequences, FiniteSets, SequencesExt

CONSTANTS
  Servers,        \* the server ids
  InitialLeaders, \* the servers whose role is Leader when commands arrive
  Delay,          \* the 20 ms that Clock::new_deadline adds, in clock units
  Steps,          \* what one tick may add to a clock: 1 ms + drift, 1 ms - drift
  MaxReq,         \* bound: commands that reach one server
  MaxTime,        \* bound: a clock passes it only while a deadline is pending
  MaxResyncs,     \* bound: resynchronisations, over all clocks
  None            \* Rust's None

ASSUME ServersAssumption == InitialLeaders \subseteq Servers
ASSUME ClockAssumption   == Delay \in Nat /\ Steps \subseteq Nat
ASSUME BoundAssumption   == MaxReq \in Nat /\ MaxTime \in Nat /\ MaxResyncs \in Nat
ASSUME NoneAssumption    == None \notin Nat

Ids  == 0 .. MaxReq - 1     \* private_command_id counts up from 0
Time == Nat

VARIABLES
  role,          \* Role of sequence_paxos
  next_id,       \* private_command_id of the server
  pc,            \* where the task of handle_new_proposal stands, per command
  im_leader,     \* the role captured when the command was proposed
  deadline,      \* Command.deadline
  reply,         \* accepted_idx and hash, read by the task under the lock
  log,           \* MemoryStorage.log
  acks,          \* outgoing_clients, in the order the tasks push
  early,         \* Buffers.early, the heap ordered by deadline
  late,          \* Buffers.late
  notifiers,     \* Buffers.notifiers
  last_released, \* Buffers.last_released_deadline
  waiter,        \* the command the waiter loop holds, and its oneshot sender
  now,           \* ClockState.logical_time
  resyncs,       \* resynchronisations so far
  outgoing       \* NewDeadline messages between servers, not yet handled

paxosVars  == <<role, next_id, pc, im_leader, reply, log, acks>>
bufferVars == <<early, late, notifiers, last_released, waiter, deadline>>
clockVars  == <<now, resyncs>>
vars       == <<paxosVars, bufferVars, clockVars, outgoing>>

-----------------------------------------------------------------------------
\* The values of the variables.

\* "popped": a command left the heap; "armed": its deadline is registered with
\* the clock; "fired": the clock has notified the loop.
WaiterIdle == [pc |-> "idle", id |-> 0, sender |-> FALSE]
Waiters    == [pc : {"idle"}, id : {0}, sender : {FALSE}] \cup
              [pc : {"popped", "armed", "fired"}, id : Ids, sender : BOOLEAN]

\* A task: not spawned, spawned, inserted and waiting, notified with the
\* command, appended, acknowledgement pushed.
Stages  == {"none", "insert", "await", "append", "push", "done"}
Replies == [idx : Nat, hash : Seq(Ids)]
Acks    == [id : Ids, hash : Seq(Ids), spec : BOOLEAN, idx : Nat]
NoReply == [idx |-> 0, hash |-> <<>>]

NewDeadlineMsgs == [from : Servers, to : Servers, id : Ids, deadline : Time]

TypeOK ==
  /\ role \in [Servers -> {"Follower", "Leader"}]
  /\ next_id \in [Servers -> 0 .. MaxReq]
  /\ pc \in [Servers -> [Ids -> Stages]]
  /\ im_leader \in [Servers -> [Ids -> BOOLEAN]]
  /\ deadline \in [Servers -> [Ids -> Time]]
  /\ reply \in [Servers -> [Ids -> Replies]]
  /\ log \in [Servers -> Seq(Ids)]
  /\ acks \in [Servers -> Seq(Acks)]
  /\ early \in [Servers -> SUBSET Ids]
  /\ late \in [Servers -> SUBSET Ids]
  /\ notifiers \in [Servers -> SUBSET Ids]
  /\ last_released \in [Servers -> Time \cup {None}]
  /\ waiter \in [Servers -> Waiters]
  /\ now \in [Servers -> Time]
  /\ resyncs \in Nat
  /\ outgoing \in SUBSET NewDeadlineMsgs

Init ==
  /\ role = [s \in Servers |-> IF s \in InitialLeaders THEN "Leader" ELSE "Follower"]
  /\ next_id = [s \in Servers |-> 0]
  /\ pc = [s \in Servers |-> [i \in Ids |-> "none"]]
  /\ im_leader = [s \in Servers |-> [i \in Ids |-> FALSE]]
  /\ deadline = [s \in Servers |-> [i \in Ids |-> 0]]
  /\ reply = [s \in Servers |-> [i \in Ids |-> NoReply]]
  /\ log = [s \in Servers |-> <<>>]
  /\ acks = [s \in Servers |-> <<>>]
  /\ early = [s \in Servers |-> {}]
  /\ late = [s \in Servers |-> {}]
  /\ notifiers = [s \in Servers |-> {}]
  /\ last_released = [s \in Servers |-> None]
  /\ waiter = [s \in Servers |-> WaiterIdle]
  /\ now = [s \in Servers |-> 0]
  /\ resyncs = 0
  /\ outgoing = {}

-----------------------------------------------------------------------------
\* The clock (clock.rs).

\* Clock::new_deadline of server s.
new_deadline(s) == now[s] + Delay

\* process_deadlines: the clock holds at most the deadline of the command in
\* the waiter's hands, and fires it once it lies strictly in the past.
process_deadlines(s, t) ==
  waiter' = IF waiter[s].pc = "armed" /\ deadline[s][waiter[s].id] < t
            THEN [waiter EXCEPT ![s].pc = "fired"]
            ELSE waiter

\* tick_fn: one tick adds a step, then looks at the deadlines.  Past MaxTime
\* the clock only runs to fire a deadline, which keeps the model finite.
Tick(s) ==
  /\ now[s] < MaxTime \/ waiter[s].pc = "armed"
  /\ \E d \in Steps :
       /\ now' = [now EXCEPT ![s] = @ + d]
       /\ process_deadlines(s, now[s] + d)
  /\ UNCHANGED <<paxosVars, early, late, notifiers, last_released, deadline,
                 resyncs, outgoing>>

\* resync: the corrected time of the master overwrites the clock, backwards
\* as well as forwards, and no deadline is looked at.
Resync(s) ==
  /\ resyncs < MaxResyncs
  /\ \E t \in 0 .. MaxTime : now' = [now EXCEPT ![s] = t]
  /\ resyncs' = resyncs + 1
  /\ UNCHANGED <<paxosVars, bufferVars, outgoing>>

-----------------------------------------------------------------------------
\* The deadline buffers (buffers.rs).

\* insert's test: a command is late unless its deadline is later than the
\* deadline of the last command that left the early buffer.
eligible(s, i) ==
  last_released[s] # None => deadline[s][i] > last_released[s]

\* Mutant: the late command keeps its deadline.
InsertKeepsDeadline(s, i) ==
  /\ early' = [early EXCEPT ![s] = @ \cup {i}]
  /\ UNCHANGED <<late, deadline, outgoing>>
\* Mutant: a leader parks a late command, as a follower does.
InsertParked(s, i) ==
  /\ late' = [late EXCEPT ![s] = @ \cup {i}]
  /\ UNCHANGED <<early, deadline, outgoing>>
\* Buffers::insert on a leader: a late command gets a new deadline from the
\* leader's clock, and the peers are told (handle_new_proposal, the loop over
\* the peers).
InsertRedeadlined(s, i) ==
  /\ deadline' = [deadline EXCEPT ![s][i] = new_deadline(s)]
  /\ early' = [early EXCEPT ![s] = @ \cup {i}]
  /\ outgoing' = outgoing \cup
       [from : {s}, to : Servers \ {s}, id : {i}, deadline : {new_deadline(s)}]
  /\ UNCHANGED late

\* Buffers::insert, the first thing the spawned task does.
Insert(s, i) ==
  /\ pc[s][i] = "insert"
  /\ pc' = [pc EXCEPT ![s][i] = "await"]
  /\ notifiers' = [notifiers EXCEPT ![s] = @ \cup {i}]
  /\ \/ /\ eligible(s, i)
        /\ early' = [early EXCEPT ![s] = @ \cup {i}]
        /\ UNCHANGED <<late, deadline, outgoing>>
     \/ /\ ~eligible(s, i) /\ im_leader[s][i]
        /\ InsertRedeadlined(s, i)
     \/ /\ ~eligible(s, i) /\ ~im_leader[s][i]
        /\ late' = [late EXCEPT ![s] = @ \cup {i}]
        /\ UNCHANGED <<early, deadline, outgoing>>
  /\ UNCHANGED <<role, next_id, im_leader, reply, log, acks, last_released,
                 waiter, clockVars>>

\* Mutant: the notifier is looked up but stays in the map.
TakeNotifierKept(s, i) == notifiers[s]
\* The map of notifiers after waiter has taken the one of i.
TakeNotifier(s, i) == notifiers[s] \ {i}

\* waiter, under the lock of the buffers: pop a command with the least deadline
\* as soon as there is one, long before the deadline.  Equal deadlines leave
\* the heap in either order.
WaiterPop(s) ==
  /\ waiter[s].pc = "idle"
  /\ \E i \in early[s] :
       /\ \A j \in early[s] : deadline[s][i] <= deadline[s][j]
       /\ early' = [early EXCEPT ![s] = @ \ {i}]
       /\ last_released' = [last_released EXCEPT ![s] = deadline[s][i]]
       /\ notifiers' = [notifiers EXCEPT ![s] = TakeNotifier(s, i)]
       /\ waiter' = [waiter EXCEPT ![s] =
                       [pc |-> "popped", id |-> i, sender |-> i \in notifiers[s]]]
  /\ UNCHANGED <<paxosVars, late, deadline, clockVars, outgoing>>

\* add_deadline, under the lock of the clock: register the deadline.
AddDeadline(s) ==
  /\ waiter[s].pc = "popped"
  /\ waiter' = [waiter EXCEPT ![s].pc = "armed"]
  /\ UNCHANGED <<paxosVars, early, late, notifiers, last_released, deadline,
                 clockVars, outgoing>>

\* Mutant: the released command stays in the waiter's hands.
AfterNotifyStale(s) == [waiter[s] EXCEPT !.pc = "idle"]
\* The waiter goes back to the head of its loop with empty hands.
AfterNotify(s) == WaiterIdle

\* waiter, after the await: the deadline has passed, send the command to its task.
WaiterNotify(s) ==
  /\ waiter[s].pc = "fired"
  /\ pc' = IF waiter[s].sender
           THEN [pc EXCEPT ![s][waiter[s].id] = "append"] ELSE pc
  /\ waiter' = [waiter EXCEPT ![s] = AfterNotify(s)]
  /\ UNCHANGED <<role, next_id, im_leader, reply, log, acks, early, late,
                 notifiers, last_released, deadline, clockVars, outgoing>>

\* Mutant: free_from_late copies the command instead of removing it.
LateWithoutNothing(s, i) == late[s]
\* The late buffer after the removal of i.
LateWithout(s, i) == late[s] \ {i}

\* handle_new_deadline and free_from_late: the leader's private_id is looked up
\* among this server's late commands; no match, no effect.
HandleNewDeadline(m) ==
  LET s == m.to
      i == m.id
  IN  /\ outgoing' = outgoing \ {m}
      /\ \/ /\ i \in late[s]
            /\ late' = [late EXCEPT ![s] = LateWithout(s, i)]
            /\ early' = [early EXCEPT ![s] = @ \cup {i}]
            /\ deadline' = [deadline EXCEPT ![s][i] = m.deadline]
         \/ /\ i \notin late[s]
            /\ UNCHANGED <<late, early, deadline>>
      /\ UNCHANGED <<paxosVars, notifiers, last_released, waiter, clockVars>>

-----------------------------------------------------------------------------
\* Proposals, the log and the acknowledgements (server.rs, follower.rs).

\* append_to_log and handle_new_proposal: stamp the command and spawn its task.
\* A leader executes the command on its database here, before it is ordered.
Propose(s) ==
  LET i == next_id[s]
  IN  /\ next_id[s] < MaxReq
      /\ next_id' = [next_id EXCEPT ![s] = @ + 1]
      /\ deadline' = [deadline EXCEPT ![s][i] = new_deadline(s)]
      /\ im_leader' = [im_leader EXCEPT ![s][i] = (role[s] = "Leader")]
      /\ pc' = [pc EXCEPT ![s][i] = "insert"]
      /\ UNCHANGED <<role, reply, log, acks, early, late, notifiers,
                     last_released, waiter, clockVars, outgoing>>

\* Mutant: the entry goes in twice.
AppendedTwice(s, i) == log[s] \o <<i, i>>
\* Mutant: the entry goes to the front of the log.
AppendedFirst(s, i) == <<i>> \o log[s]
\* append_entries_and_get_accepted_idx with a batch size of 1.
Appended(s, i) == Append(log[s], i)

\* The notified task, under the storage lock: append the command, read the
\* accepted index and the hash of the log.
AppendEntry(s, i) ==
  /\ pc[s][i] = "append"
  /\ pc' = [pc EXCEPT ![s][i] = "push"]
  /\ log' = [log EXCEPT ![s] = Appended(s, i)]
  /\ reply' = [reply EXCEPT ![s][i] =
                 [idx |-> Len(Appended(s, i)), hash |-> Appended(s, i)]]
  /\ UNCHANGED <<role, next_id, im_leader, acks, bufferVars, clockVars, outgoing>>

\* Mutant: the hash is that of the log when the acknowledgement is pushed.
AckLateHash(s, i) ==
  [id |-> i, hash |-> log[s], spec |-> im_leader[s][i], idx |-> reply[s][i].idx]
\* PaxosMsg::Ack of command i.
Ack(s, i) ==
  [id |-> i, hash |-> reply[s][i].hash, spec |-> im_leader[s][i], idx |-> reply[s][i].idx]

\* The task, under the lock of outgoing_clients, pushes its acknowledgement.
PushAck(s, i) ==
  /\ pc[s][i] = "push"
  /\ pc' = [pc EXCEPT ![s][i] = "done"]
  /\ acks' = [acks EXCEPT ![s] = Append(@, Ack(s, i))]
  /\ UNCHANGED <<role, next_id, im_leader, reply, log, bufferVars, clockVars, outgoing>>

\* handle_leader with a ballot of its own: the only role change the leader
\* election ever asks for.
BecomeLeader(s) ==
  /\ role[s] = "Follower"
  /\ role' = [role EXCEPT ![s] = "Leader"]
  /\ UNCHANGED <<next_id, pc, im_leader, reply, log, acks, bufferVars, clockVars, outgoing>>

-----------------------------------------------------------------------------
Task(s, i) == Insert(s, i) \/ AppendEntry(s, i) \/ PushAck(s, i)
Waiter(s)  == WaiterPop(s) \/ AddDeadline(s) \/ WaiterNotify(s)

Next ==
  \/ \E s \in Servers :
       \/ Tick(s) \/ Resync(s)
       \/ Waiter(s)
       \/ Propose(s) \/ BecomeLeader(s)
       \/ \E i \in Ids : Task(s, i)
  \/ \E m \in outgoing : HandleNewDeadline(m)

Spec == Init /\ [][Next]_vars

\* Fairness: tokio runs every spawned task that is ready, the interval timer
\* keeps ticking the clock, and a message that was sent is handled.
Fairness ==
  /\ \A s \in Servers : /\ WF_vars(Tick(s)) /\ WF_vars(Waiter(s))
                         /\ \A i \in Ids : WF_vars(Task(s, i))
  /\ WF_vars(\E m \in outgoing : HandleNewDeadline(m))

FairSpec == Spec /\ Fairness

-----------------------------------------------------------------------------
\* Properties.

\* The command the waiter loop of s holds, if any.
Held(s) == IF waiter[s].pc = "idle" THEN {} ELSE {waiter[s].id}

OneHome(s) ==
  /\ {i \in Ids : pc[s][i] = "await"} = early[s] \cup late[s] \cup Held(s)
  /\ early[s] \cap late[s] = {}
  /\ (early[s] \cup late[s]) \cap Held(s) = {}

\* Every waiting task has its command in exactly one place: the early buffer,
\* the late buffer or the hands of the waiter (insert, waiter and
\* free_from_late neither lose nor duplicate a command).
WaitingHasOneHome == \A s \in Servers : OneHome(s)

InSync(s) ==
  /\ notifiers[s] = early[s] \cup late[s]
  /\ waiter[s].pc # "idle" => waiter[s].sender

\* The waiter never finds the notifier of a popped command missing, so its
\* warning "Notifiers and early buffer are not synchronized." (buffers.rs) is
\* unreachable, and no notifier outlives its command.
NotifiersInSync == \A s \in Servers : InSync(s)

\* What an acknowledgement says is true of the log for ever: the command sits
\* at accepted_idx, the hash is that of the log up to there, and the flag says
\* whether the command was executed speculatively (handle_new_proposal).
AckDescribesLog ==
  \A s \in Servers : \A k \in 1 .. Len(acks[s]) :
    LET a == acks[s][k]
    IN  /\ a.idx \in 1 .. Len(log[s]) /\ log[s][a.idx] = a.id
        /\ Len(a.hash) = a.idx /\ IsPrefix(a.hash, log[s])
        /\ a.spec = im_leader[s][a.id]

\* No command is appended twice and no index is acknowledged twice, although
\* tasks append and push in any order.
AppendedOnce ==
  \A s \in Servers :
    /\ IsInjective(log[s])
    /\ \A j, k \in 1 .. Len(acks[s]) : acks[s][j].idx = acks[s][k].idx => j = k

\* The early buffer of a leader never holds a deadline before one already
\* released, so commands leave it in deadline order, as long as no clock has
\* been resynchronised: a late command's new deadline is late enough (insert).  A
\* follower, whose buffer takes deadlines of the leader's clock
\* (free_from_late), has no such guarantee.
EarlyNotBeforeReleased ==
  resyncs = 0 =>
    \A s \in InitialLeaders : \A i \in early[s] :
      last_released[s] # None => deadline[s][i] >= last_released[s]

\* Every command that reaches a leader is eventually acknowledged, whatever
\* its task, the waiter and a late insertion do.
LeaderAcknowledges ==
  \A s \in Servers : \A i \in Ids :
    (pc[s][i] = "insert" /\ im_leader[s][i]) ~> (pc[s][i] = "done")

\* Once every server has received all the commands, every server eventually
\* acknowledges all of them: the followers keep up with the leader.
EveryReplicaAcknowledges ==
  (\A s \in Servers : next_id[s] = MaxReq)
    ~> (\A s \in Servers : \A i \in Ids : pc[s][i] = "done")

\* The refinement mapping to the promise of ReplicaLogs: the commands that have
\* a task, and the acknowledgements without the speculation flag.
Proposed == [s \in Servers |-> {i \in Ids : pc[s][i] # "none"}]
Sent     == [s \in Servers |->
              {[id |-> a.id, hash |-> a.hash, idx |-> a.idx] : a \in ToSet(acks[s])}]

Promise == INSTANCE ReplicaLogs WITH
  Commands <- Ids, proposed <- Proposed, entries <- log, sent <- Sent

\* The replicas keep the promise of ReplicaLogs: buffers, waiters, tasks and
\* clocks implement append-only logs with truthful, unique acknowledgements.
ImplementsReplicaLogs == Promise!Spec

=============================================================================
