----------------------------- MODULE ClockSync -----------------------------
(***************************************************************************)
(* How a server keeps its clock close to that of node 1.  Every sync_freq  *)
(* ticks a task asks node 1 for the time, waits for an answer on a channel *)
(* that all tasks share, and sets the clock to the answer plus half of the *)
(* round trip it has measured.  Requests and answers carry no identifier,  *)
(* travel through spawned tasks in any order and may be lost.  The task    *)
(* that puts an answer into the channel holds the lock of the clock while  *)
(* it waits for room.                                                      *)
(* Node 1 runs the same clock: it drifts as well, and its own sync tasks   *)
(* read its time under one lock and write it back, plus half of the time   *)
(* that took, under another, so that ticks in between are lost.  Round     *)
(* trips are measured by the operating system's time, not by these clocks. *)
(***************************************************************************)
EXTENDS Integers, Sequences, FiniteSets

CONSTANTS
  Step,        \* a tick of 1 ms, in units of the model
  Drift,       \* a tick moves a clock by Step - Drift or Step + Drift
  MasterFreq,  \* sync_freq of node 1, in ticks (each node has its own)
  ServerFreq,  \* sync_freq of the server
  Capacity,    \* of the channel of answers (100 in the code)
  MaxTime,     \* bound on the time
  MaxReading,  \* bound on the times that node 1 answers with
  MaxTasks,    \* bound on the sync tasks of a node
  None

ASSUME ClockSyncAssumption ==
  /\ Step \in Nat /\ Drift \in 0 .. Step
  /\ MasterFreq \in Nat \ {0} /\ ServerFreq \in Nat \ {0}
  /\ Capacity \in Nat \ {0}
  /\ MaxTime \in Nat /\ MaxReading \in Nat /\ MaxTasks \in Nat

Tasks    == 1 .. MaxTasks
Readings == 0 .. MaxReading

Master == 1
Server == 2
Nodes  == {Master, Server}

VARIABLES
  now,           \* SystemTime::now, the same at both nodes
  owed,          \* owed[n]: ticks that tick_fn of node n has still to do
  logical_time,  \* logical_time[n]: the clock of node n
  counter,       \* counter[n]: ticks since a sync task was spawned, or resync
  uncertainty,   \* uncertainty[n], set to zero by resync
  task,          \* task[n][k] = [stage, t0, t1, leader_time] of sync task k
  requests,      \* number of SyncReq on their way to node 1
  answers,       \* bag of SyncAnswer on their way: readings to numbers
  channel,       \* answers in the channel of the server, oldest first
  holder,        \* answer whose sender holds the server's lock, or None
  peak,          \* the latest time node 1's clock has shown (auxiliary)
  bound, ticks   \* half of the round trip of the server's last resync, and
                 \* its ticks since (auxiliary)

vars == <<now, owed, logical_time, counter, uncertainty, task, requests,
          answers, channel, holder, peak, bound, ticks>>

exchange == <<requests, answers, channel, holder>>
clocks   == <<now, owed, logical_time, counter, uncertainty>>
history  == <<peak, bound, ticks>>

-----------------------------------------------------------------------------

Idle == [stage |-> "idle", t0 |-> 0, t1 |-> 0, leader_time |-> 0]

Stage(n, s) == {k \in Tasks : task[n][k].stage = s}

sync_freq(n) == IF n = Master THEN MasterFreq ELSE ServerFreq

\* Only the server's lock is ever held across an await.
LockFree(n) == n = Server => holder = None

\* The clocks start with the system's time; the first tick of an interval is
\* immediate.  The program gives each clock its drift as first uncertainty.
Init ==
  /\ now = 0
  /\ owed = [n \in Nodes |-> 1]
  /\ logical_time = [n \in Nodes |-> 0]
  /\ counter = [n \in Nodes |-> 0]
  /\ uncertainty = [n \in Nodes |-> Drift]
  /\ task = [n \in Nodes |-> [k \in Tasks |-> Idle]]
  /\ requests = 0 /\ answers = [t \in Readings |-> 0]
  /\ channel = <<>> /\ holder = None
  /\ peak = 0 /\ bound = 0 /\ ticks = 0

\* A millisecond passes.  An interval of tick_fn catches up on the ticks that
\* it missed, while the lock was held or the runtime was busy.
Pass ==
  /\ now + Step <= MaxTime
  /\ now' = now + Step
  /\ owed' = [n \in Nodes |-> owed[n] + 1]
  /\ UNCHANGED <<logical_time, counter, uncertainty, task, exchange, history>>

\* The highest of the times node 1's clock shows.
Seen(time) == IF time[Master] > peak THEN time[Master] ELSE peak

\* tick_fn: the clock advances by more or less than a millisecond, and every
\* sync_freq ticks a sync task is spawned.
Tick(n, drifted) ==
  /\ owed[n] > 0 /\ LockFree(n)
  /\ owed' = [owed EXCEPT ![n] = @ - 1]
  /\ logical_time' = [logical_time EXCEPT ![n] = @ + drifted]
  /\ peak' = Seen(logical_time')
  /\ ticks' = IF n = Server THEN ticks + 1 ELSE ticks
  /\ IF counter[n] + 1 >= sync_freq(n)
     THEN /\ counter' = [counter EXCEPT ![n] = 0]
          /\ \E k \in Stage(n, "idle") :
               /\ \A j \in Stage(n, "idle") : k <= j
               /\ task' = [task EXCEPT ![n][k] = [Idle EXCEPT !.stage = "spawned"]]
     ELSE counter' = [counter EXCEPT ![n] = @ + 1] /\ UNCHANGED task
  /\ UNCHANGED <<now, uncertainty, exchange, bound>>

\* Mutant: the request is sent a second time in case the first one is lost.
AskedTwice == requests + 2
\* One SyncReq, to node 1.
Asked == requests + 1

\* sync_with_master up to the request, which node 1 does not send.
Request(n, k) ==
  /\ k \in Stage(n, "spawned") /\ LockFree(n)
  /\ task' = [task EXCEPT ![n][k] = [@ EXCEPT !.stage = "waiting", !.t0 = now]]
  /\ requests' = IF n = Server THEN Asked ELSE requests
  /\ UNCHANGED <<clocks, answers, channel, holder, history>>

\* handle_resync_request at node 1.
Answer ==
  /\ requests > 0 /\ logical_time[Master] \in Readings
  /\ requests' = requests - 1
  /\ answers' = [answers EXCEPT ![logical_time[Master]] = @ + 1]
  /\ UNCHANGED <<clocks, task, channel, holder, history>>

LoseRequest ==
  /\ requests > 0
  /\ requests' = requests - 1
  /\ UNCHANGED <<clocks, task, answers, channel, holder, history>>

LoseAnswer(t) ==
  /\ answers[t] > 0
  /\ answers' = [answers EXCEPT ![t] = @ - 1]
  /\ UNCHANGED <<clocks, task, requests, channel, holder, history>>

\* handle_resync_answer: the lock, then the channel; without room there the
\* lock stays held.
HandleAnswer(t) ==
  /\ answers[t] > 0 /\ LockFree(Server)
  /\ answers' = [answers EXCEPT ![t] = @ - 1]
  /\ IF Len(channel) < Capacity
     THEN channel' = Append(channel, t) /\ UNCHANGED holder
     ELSE holder' = t /\ UNCHANGED channel
  /\ UNCHANGED <<clocks, task, requests, history>>

SendCompletes ==
  /\ ~LockFree(Server) /\ Len(channel) < Capacity
  /\ channel' = Append(channel, holder)
  /\ holder' = None
  /\ UNCHANGED <<clocks, task, requests, answers, history>>

\* recv: the tasks get the lock of the receiver in any order.
Receive(k) ==
  /\ k \in Stage(Server, "waiting") /\ channel # <<>>
  /\ task' = [task EXCEPT ![Server][k] =
                [@ EXCEPT !.stage = "answered", !.t1 = now,
                          !.leader_time = Head(channel)]]
  /\ channel' = Tail(channel)
  /\ UNCHANGED <<clocks, requests, answers, holder, history>>

\* A sync task of node 1 reads node 1's own clock, under its lock.
ReadOwn(k) ==
  /\ k \in Stage(Master, "waiting")
  /\ task' = [task EXCEPT ![Master][k] =
                [@ EXCEPT !.stage = "answered", !.t1 = now,
                          !.leader_time = logical_time[Master]]]
  /\ UNCHANGED <<clocks, exchange, history>>

rtt(n, k) == task[n][k].t1 - task[n][k].t0

\* Mutant: the whole round trip is added.
correctedFull(n, k) == task[n][k].leader_time + rtt(n, k)
\* The end of sync_with_master.
corrected(n, k) == task[n][k].leader_time + rtt(n, k) \div 2

\* resync.  The task is over; its slot can be used again.
Resync(n, k) ==
  /\ k \in Stage(n, "answered") /\ LockFree(n)
  /\ logical_time' = [logical_time EXCEPT ![n] = corrected(n, k)]
  /\ peak' = Seen(logical_time')
  /\ counter' = [counter EXCEPT ![n] = 0]
  /\ uncertainty' = [uncertainty EXCEPT ![n] = 0]
  /\ bound' = IF n = Server THEN rtt(n, k) \div 2 ELSE bound
  /\ ticks' = IF n = Server THEN 0 ELSE ticks
  /\ task' = [task EXCEPT ![n][k] = Idle]
  /\ UNCHANGED <<now, owed, exchange>>

Next ==
  \/ Pass
  \/ \E n \in Nodes, drifted \in {Step - Drift, Step + Drift} : Tick(n, drifted)
  \/ \E n \in Nodes, k \in Tasks : Request(n, k) \/ Resync(n, k)
  \/ \E k \in Tasks : Receive(k) \/ ReadOwn(k)
  \/ Answer \/ LoseRequest
  \/ \E t \in Readings : LoseAnswer(t) \/ HandleAnswer(t)
  \/ SendCompletes

Spec == Init /\ [][Next]_vars

\* The runtime keeps running tasks that are ready.  Nothing is assumed of
\* the network.
FairSpec ==
  /\ Spec
  /\ WF_vars(SendCompletes)
  /\ \A k \in Tasks : WF_vars(Receive(k)) /\ WF_vars(Resync(Server, k))

-----------------------------------------------------------------------------
(* Properties.                                                             *)

\* Whatever answer a task gets hold of, its own, an earlier or a later one,
\* and although node 1's clock drifts and is set back by node 1 itself: the
\* clock of the server is never further ahead of the latest time that node 1
\* has shown than half of the measured round trip and its own ticks since.
NeverFarAhead ==
  logical_time[Server] <= peak + bound + (Step + Drift) * ticks

\* No more answers arrive than there are tasks to take them: the channel
\* cannot fill up with answers that nobody waits for, which would leave the
\* lock of the clock held for ever.
InFlight == requests + Len(channel) + (IF LockFree(Server) THEN 0 ELSE 1)

SumAnswers[t \in Readings] ==
  answers[t] + (IF t = 0 THEN 0 ELSE SumAnswers[t - 1])

AnswersAwaited ==
  InFlight + SumAnswers[MaxReading] <= Cardinality(Stage(Server, "waiting"))

\* The lock of the clock, without which neither ticks nor deadlines are
\* processed, is always given back.
LockReleased == (holder # None) ~> (holder = None)

\* get_uncertainty: the error that a node claims for its clock.
get_uncertainty(n) == uncertainty[n] + counter[n] * Drift

\* The comment on the clock: the uncertainty is a guaranteed bound on the
\* error, zero right after a resync and raised by the worst drift every tick.
\* Read in favour of the code: between ticks, and with what node 1 claims for
\* its own clock added.
UncertaintyCovers ==
  LET error   == logical_time[Server] - logical_time[Master]
      claimed == get_uncertainty(Server) + get_uncertainty(Master)
  IN (\A n \in Nodes : owed[n] = 0) => error <= claimed /\ -error <= claimed

=============================================================================
