-------------------------- MODULE ClockSyncProofs --------------------------
(***************************************************************************)
(* The clock of a server is never far ahead of what node 1's has shown,    *)
(* for every drift, frequency and channel capacity and any number of sync  *)
(* tasks.  An answer carries no identifier and node 1's clock may be set   *)
(* back, but whichever task takes an answer, it names a time that node 1   *)
(* has shown; this is the invariant that the proof carries along the way   *)
(* of an answer through network, lock and channel.                         *)
(***************************************************************************)
EXTENDS ClockSync, FiniteSetTheorems, WellFoundedInduction, TLAPS

\* Every set of naturals that is not empty has a least element.
LEMMA LeastNatural ==
  ASSUME NEW T \in SUBSET Nat, T # {}
  PROVE  \E n \in T : \A m \in T : n <= m
<1> DEFINE R == OpToRel(<, Nat)
<1>1. IsWellFoundedOn(R, Nat)
  BY NatLessThanWellFounded
<1>2. R = {p \in Nat \X Nat : p[1] < p[2]}
  BY DEF OpToRel
<1> HIDE DEF R
<1>3. PICK n \in T : \A m \in T : ~(<<m, n>> \in R)
  BY <1>1, WFMin
<1>4. ASSUME NEW m \in T PROVE n <= m
  <2>1. n \in Nat /\ m \in Nat /\ ~(<<m, n>> \in R)
    BY <1>3
  <2> QED
    BY <1>2, <2>1
<1> QED
  BY <1>4

TaskRecords ==
  [stage : {"idle", "spawned", "waiting", "answered"},
   t0 : Nat, t1 : Nat, leader_time : Nat]

SyncTypes ==
  /\ now \in Nat /\ logical_time \in [Nodes -> Nat]
  /\ peak \in Nat /\ bound \in Nat /\ ticks \in Nat
  /\ task \in [Nodes -> [Tasks -> TaskRecords]]
  /\ answers \in [Readings -> Nat] /\ channel \in Seq(Nat)

\* Every answer, wherever it is, names a time that node 1 has shown.
AnswersShown ==
  /\ logical_time[Master] <= peak
  /\ \A t \in Readings : answers[t] > 0 => t <= peak
  /\ \A i \in 1 .. Len(channel) : channel[i] <= peak
  /\ holder # None => holder \in Nat /\ holder <= peak

\* What a task has measured and received.
Measured(r, time, top) ==
  /\ r.stage = "waiting" => r.t0 <= time
  /\ r.stage = "answered" => r.t0 <= r.t1 /\ r.leader_time <= top

TasksShown == \A n \in Nodes : \A k \in Tasks : Measured(task[n][k], now, peak)

SyncInv == SyncTypes /\ AnswersShown /\ TasksShown /\ NeverFarAhead

\* The products that the steps change, in terms of the old ones.
LEMMA Products ==
  ASSUME NEW a \in Nat, NEW b \in Nat
  PROVE  a * b \in Nat /\ a * (b + 1) = a * b + a /\ a * 0 = 0
  OBVIOUS

\* The constants are numbers.
LEMMA ConstantTypes ==
  /\ Step \in Nat /\ Drift \in Nat /\ Drift <= Step /\ Step + Drift \in Nat
  /\ MaxReading \in Nat /\ Readings \subseteq Nat
  /\ Master \in Nodes /\ Server \in Nodes /\ Master # Server
  BY ClockSyncAssumption DEF Readings, Nodes, Master, Server

\* All clocks start at zero, without requests and answers.
LEMMA InitSync == Init => SyncInv
<1> SUFFICES ASSUME Init PROVE SyncInv
  OBVIOUS
<1> USE ConstantTypes
<1>1. SyncTypes
  BY DEF Init, SyncTypes, Idle, TaskRecords
<1>2. AnswersShown
  BY DEF Init, AnswersShown
<1>3. TasksShown
  BY DEF Init, TasksShown, Measured, Idle
<1>4. NeverFarAhead
  <2>1. (Step + Drift) * 0 = 0
    BY Products
  <2> QED
    BY <2>1 DEF Init, NeverFarAhead
<1> QED
  BY <1>1, <1>2, <1>3, <1>4 DEF SyncInv

\* Task k of node n changes to r.
Put(n, k, r) == [task EXCEPT ![n][k] = r]

\* Task k of node n changes to r, and what is known of the tasks stays known.
LEMMA TaskStep ==
  ASSUME SyncInv, NEW n \in Nodes, NEW k \in Tasks, NEW r \in TaskRecords,
         task' = Put(n, k, r), now' \in Nat, peak' \in Nat,
         now' >= now, peak' >= peak, Measured(r, now', peak')
  PROVE  task' \in [Nodes -> [Tasks -> TaskRecords]] /\ TasksShown'
<1>1. task \in [Nodes -> [Tasks -> TaskRecords]] /\ TasksShown
      /\ now \in Nat /\ peak \in Nat
  BY DEF SyncInv, SyncTypes
<1>2. task' \in [Nodes -> [Tasks -> TaskRecords]]
  BY <1>1 DEF Put
<1>3. ASSUME NEW m \in Nodes, NEW j \in Tasks PROVE Measured(task[m][j], now, peak)'
  <2>1. CASE m = n /\ j = k
    <3>1. task'[m][j] = r
      BY <1>1, <2>1 DEF Put
    <3> QED
      BY <3>1 DEF Measured
  <2>2. CASE ~(m = n /\ j = k)
    <3>1. task'[m][j] = task[m][j] /\ task[m][j] \in TaskRecords
      BY <1>1, <2>2 DEF Put
    <3>2. Measured(task[m][j], now, peak)
      BY <1>1 DEF TasksShown
    <3>3. task[m][j].t0 \in Nat /\ task[m][j].leader_time \in Nat
      BY <3>1 DEF TaskRecords
    <3> QED
      BY <1>1, <3>1, <3>2, <3>3 DEF Measured
  <2> QED
    BY <2>1, <2>2
<1> QED
  BY <1>2, <1>3 DEF TasksShown

\* The tasks stay as they are.
LEMMA TasksSame ==
  ASSUME SyncInv, UNCHANGED task, now' \in Nat, peak' \in Nat,
         now' >= now, peak' >= peak
  PROVE  task' \in [Nodes -> [Tasks -> TaskRecords]] /\ TasksShown'
<1>1. task \in [Nodes -> [Tasks -> TaskRecords]] /\ TasksShown
      /\ now \in Nat /\ peak \in Nat
  BY DEF SyncInv, SyncTypes
<1>2. ASSUME NEW m \in Nodes, NEW j \in Tasks PROVE Measured(task[m][j], now, peak)'
  <2>1. /\ Measured(task[m][j], now, peak) /\ task[m][j] \in TaskRecords
    BY <1>1 DEF TasksShown
  <2>2. task[m][j].t0 \in Nat /\ task[m][j].leader_time \in Nat
    BY <2>1 DEF TaskRecords
  <2> QED
    BY <1>1, <2>1, <2>2 DEF Measured
<1> QED
  BY <1>1, <1>2 DEF TasksShown

\* The answers stay where they are, and node 1 has shown no less.
LEMMA AnswersSame ==
  ASSUME SyncInv, UNCHANGED <<answers, channel, holder>>,
         peak' \in Nat, peak' >= peak, logical_time'[Master] <= peak'
  PROVE  AnswersShown'
<1>1. /\ peak \in Nat /\ channel \in Seq(Nat) /\ Readings \subseteq Nat
      /\ AnswersShown
  BY ConstantTypes DEF SyncInv, SyncTypes
<1>2. \A i \in 1 .. Len(channel) : channel[i] \in Nat
  BY <1>1
<1> QED
  BY <1>1, <1>2 DEF AnswersShown

\* Every step keeps the invariant.
LEMMA NextSync == SyncInv /\ [Next]_vars => SyncInv'
<1> SUFFICES ASSUME SyncInv, [Next]_vars PROVE SyncInv'
  OBVIOUS
<1> USE ConstantTypes
<1>0. /\ now \in Nat /\ logical_time \in [Nodes -> Nat]
      /\ peak \in Nat /\ bound \in Nat /\ ticks \in Nat
      /\ task \in [Nodes -> [Tasks -> TaskRecords]]
      /\ answers \in [Readings -> Nat] /\ channel \in Seq(Nat)
      /\ AnswersShown /\ TasksShown /\ NeverFarAhead
      /\ logical_time[Master] \in Nat /\ logical_time[Server] \in Nat
      /\ logical_time[Master] <= peak
  BY DEF SyncInv, SyncTypes, AnswersShown
<1>1. (Step + Drift) * ticks \in Nat
  BY <1>0, Products
\* The clocks are left alone.
<1>2. ASSUME UNCHANGED <<now, logical_time, peak, bound, ticks>>,
             answers' \in [Readings -> Nat], channel' \in Seq(Nat),
             task' \in [Nodes -> [Tasks -> TaskRecords]],
             AnswersShown', TasksShown'
      PROVE  SyncInv'
  BY <1>0, <1>2 DEF SyncInv, SyncTypes, NeverFarAhead
\* Time passes and both nodes owe a tick more.
<1>3. ASSUME Pass PROVE SyncInv'
  <2>1. /\ now' = now + Step
        /\ UNCHANGED <<logical_time, task, answers, channel, holder, peak, bound,
                       ticks>>
    BY <1>3 DEF Pass, exchange, history
  <2>2. now' \in Nat /\ now' >= now
    BY <1>0, <2>1
  <2>3. task' \in [Nodes -> [Tasks -> TaskRecords]] /\ TasksShown'
    BY <1>0, <2>1, <2>2, TasksSame
  <2>4. AnswersShown'
    BY <1>0, <2>1, AnswersSame
  <2> QED
    BY <1>0, <2>1, <2>2, <2>3, <2>4 DEF SyncInv, SyncTypes, NeverFarAhead
\* A tick of either node moves its clock by at most Step + Drift.
<1>4. ASSUME NEW n \in Nodes, NEW drifted \in {Step - Drift, Step + Drift},
             Tick(n, drifted)
      PROVE  SyncInv'
  <2>1. /\ logical_time' = [logical_time EXCEPT ![n] = @ + drifted]
        /\ peak' = Seen(logical_time')
        /\ ticks' = IF n = Server THEN ticks + 1 ELSE ticks
        /\ UNCHANGED <<now, answers, channel, holder, bound>>
    BY <1>4 DEF Tick, exchange
  <2>2. drifted \in Nat /\ drifted <= Step + Drift
    OBVIOUS
  <2>3. /\ logical_time' \in [Nodes -> Nat]
        /\ logical_time'[n] = logical_time[n] + drifted
        /\ \A m \in Nodes : m # n => logical_time'[m] = logical_time[m]
    BY <1>0, <2>1, <2>2
  <2>4. peak' \in Nat /\ peak' >= peak /\ logical_time'[Master] <= peak'
    <3>1. logical_time'[Master] \in Nat
      BY <2>3
    <3> QED
      BY <1>0, <2>1, <3>1 DEF Seen
  <2>5. task' \in [Nodes -> [Tasks -> TaskRecords]] /\ TasksShown'
    <3>1. CASE UNCHANGED task
      BY <1>0, <2>1, <2>4, <3>1, TasksSame
    <3>2. CASE \E k \in Tasks :
                 task' = [task EXCEPT ![n][k] = [Idle EXCEPT !.stage = "spawned"]]
      <4> DEFINE r == [Idle EXCEPT !.stage = "spawned"]
      <4>1. PICK k \in Tasks : task' = Put(n, k, r)
        BY <3>2 DEF Put
      <4>2. r \in TaskRecords /\ r.stage = "spawned"
        BY DEF Idle, TaskRecords
      <4> HIDE DEF r
      <4>3. Measured(r, now', peak')
        BY <4>2 DEF Measured
      <4> QED
        <5>1. now' \in Nat /\ now' >= now
          BY <1>0, <2>1
        <5> QED
          BY <2>4, <4>1, <4>2, <4>3, <5>1, TaskStep
    <3>3. CASE counter[n] + 1 >= sync_freq(n)
      BY <1>4, <3>2, <3>3 DEF Tick, Stage
    <3>4. CASE ~(counter[n] + 1 >= sync_freq(n))
      BY <1>4, <3>1, <3>4 DEF Tick
    <3> QED
      BY <3>3, <3>4
  <2>6. AnswersShown'
    BY <1>0, <2>1, <2>4, AnswersSame
  <2>7. NeverFarAhead' /\ ticks' \in Nat
    <3>1. CASE n = Server
      <4>1. ticks' = ticks + 1
        BY <2>1, <3>1
      <4>2. (Step + Drift) * ticks' = (Step + Drift) * ticks + (Step + Drift)
        BY <1>0, <4>1, Products
      <4> DEFINE since  == (Step + Drift) * ticks
                 since2 == (Step + Drift) * ticks'
      <4>3. since \in Nat /\ since2 = since + (Step + Drift)
            /\ logical_time[Server] <= peak + bound + since
        BY <1>0, <1>1, <4>2 DEF NeverFarAhead
      <4>4. logical_time'[Server] = logical_time[Server] + drifted
        BY <2>3, <3>1
      <4> HIDE DEF since, since2
      <4>5. logical_time'[Server] <= peak' + bound' + since2
        BY <1>0, <2>1, <2>2, <2>4, <4>3, <4>4
      <4> QED
        BY <1>0, <4>1, <4>5 DEF NeverFarAhead, since2
    <3>2. CASE n # Server
      <4>1. ticks' = ticks /\ bound' = bound
            /\ logical_time'[Server] = logical_time[Server]
        BY <2>1, <2>3, <3>2
      <4> QED
        BY <1>0, <1>1, <2>4, <4>1 DEF NeverFarAhead
    <3> QED
      BY <3>1, <3>2
  <2> QED
    BY <1>0, <2>1, <2>3, <2>4, <2>5, <2>6, <2>7 DEF SyncInv, SyncTypes
\* A task remembers when it asks for the time.
<1>5. ASSUME NEW n \in Nodes, NEW k \in Tasks, Request(n, k) PROVE SyncInv'
  <2> DEFINE r == [task[n][k] EXCEPT !.stage = "waiting", !.t0 = now]
  <2>1. /\ task' = Put(n, k, r)
        /\ UNCHANGED <<now, logical_time, answers, channel, holder, peak, bound,
                       ticks>>
    BY <1>5 DEF Request, clocks, history, Put
  <2>2. r \in TaskRecords /\ r.stage = "waiting" /\ r.t0 = now
    <3>1. task[n][k] \in TaskRecords
      BY <1>0
    <3> QED
      BY <1>0, <3>1 DEF TaskRecords
  <2> HIDE DEF r
  <2>3. Measured(r, now', peak')
    BY <1>0, <2>1, <2>2 DEF Measured
  <2>4. task' \in [Nodes -> [Tasks -> TaskRecords]] /\ TasksShown'
    BY <1>0, <2>1, <2>2, <2>3, TaskStep
  <2>5. AnswersShown'
    BY <1>0, <2>1, AnswersSame
  <2> QED
    BY <1>0, <1>2, <2>1, <2>4, <2>5
\* Node 1 answers with the time it shows.
<1>6. ASSUME Answer PROVE SyncInv'
  <2>1. /\ answers' = [answers EXCEPT ![logical_time[Master]] = @ + 1]
        /\ logical_time[Master] \in Readings
        /\ UNCHANGED <<now, logical_time, task, channel, holder, peak, bound,
                       ticks>>
    BY <1>6 DEF Answer, clocks, history
  <2>2. answers' \in [Readings -> Nat]
    BY <1>0, <2>1
  <2>3. AnswersShown'
    BY <1>0, <2>1 DEF AnswersShown
  <2>4. TasksShown'
    BY <1>0, <2>1, TasksSame
  <2> QED
    BY <1>0, <1>2, <2>1, <2>2, <2>3, <2>4
\* An answer leaves the network, to the channel, to its sender's hand or to
\* nowhere.
<1>7. ASSUME NEW t \in Readings, LoseAnswer(t) \/ HandleAnswer(t)
      PROVE  SyncInv'
  <2>1. /\ answers[t] > 0 /\ answers' = [answers EXCEPT ![t] = @ - 1]
        /\ UNCHANGED <<now, logical_time, task, peak, bound, ticks>>
        /\ \/ UNCHANGED <<channel, holder>>
           \/ channel' = Append(channel, t) /\ UNCHANGED holder
           \/ holder' = t /\ UNCHANGED channel
    BY <1>7 DEF LoseAnswer, HandleAnswer, clocks, history
  <2>2. t \in Nat /\ t <= peak
    BY <1>0, <2>1 DEF AnswersShown
  <2>3. answers' \in [Readings -> Nat]
    <3>1. answers[t] - 1 \in Nat
      BY <1>0, <2>1
    <3> QED
      BY <1>0, <2>1, <3>1
  <2>4. channel' \in Seq(Nat)
    <3>1. Append(channel, t) \in Seq(Nat)
      BY <1>0, <2>2
    <3> QED
      BY <1>0, <2>1, <3>1
  <2>5. \A u \in Readings : answers'[u] > 0 => u <= peak
    BY <1>0, <2>1 DEF AnswersShown
  <2>6. \A i \in 1 .. Len(channel') : channel'[i] <= peak
    <3>0. \A i \in 1 .. Len(channel) : channel[i] <= peak
      BY <1>0 DEF AnswersShown
    <3>1. \A i \in 1 .. Len(Append(channel, t)) : Append(channel, t)[i] <= peak
      <4>1. channel \in Seq(Nat)
        BY <1>0
      <4> QED
        BY <2>2, <3>0, <4>1
    <3> QED
      BY <1>0, <2>1, <3>1 DEF AnswersShown
  <2>7. AnswersShown'
    BY <1>0, <2>1, <2>2, <2>5, <2>6 DEF AnswersShown
  <2>8. TasksShown'
    BY <1>0, <2>1, TasksSame
  <2> QED
    BY <1>0, <1>2, <2>1, <2>3, <2>4, <2>7, <2>8
\* The sender of an answer finds room in the channel.
<1>8. ASSUME SendCompletes PROVE SyncInv'
  <2>1. /\ holder # None /\ channel' = Append(channel, holder) /\ holder' = None
        /\ UNCHANGED <<now, logical_time, task, answers, peak, bound, ticks>>
    BY <1>8 DEF SendCompletes, LockFree, clocks, history
  <2>2. holder \in Nat /\ holder <= peak
    BY <1>0, <2>1 DEF AnswersShown
  <2>3. channel' \in Seq(Nat)
    BY <1>0, <2>1, <2>2
  <2>4. \A i \in 1 .. Len(channel') : channel'[i] <= peak
    <3>1. \A i \in 1 .. Len(channel) : channel[i] <= peak
      BY <1>0 DEF AnswersShown
    <3>2. \A i \in 1 .. Len(Append(channel, holder)) :
            Append(channel, holder)[i] <= peak
      BY <1>0, <2>2, <3>1
    <3> QED
      BY <2>1, <3>2
  <2>5. AnswersShown'
    BY <1>0, <2>1, <2>4 DEF AnswersShown
  <2>6. TasksShown'
    BY <1>0, <2>1, TasksSame
  <2> QED
    BY <1>0, <1>2, <2>1, <2>3, <2>5, <2>6
\* A task takes the oldest answer, whosever it is.
<1>9. ASSUME NEW k \in Tasks, Receive(k) PROVE SyncInv'
  <2> DEFINE r == [task[Server][k] EXCEPT !.stage = "answered", !.t1 = now,
                                          !.leader_time = Head(channel)]
  <2>1. /\ channel # <<>> /\ channel' = Tail(channel)
        /\ task' = Put(Server, k, r)
        /\ task[Server][k].stage = "waiting"
        /\ UNCHANGED <<now, logical_time, answers, holder, peak, bound, ticks>>
    BY <1>9 DEF Receive, Stage, clocks, history, Put
  <2>2. Head(channel) \in Nat /\ Head(channel) <= peak
    <3>1. 1 \in 1 .. Len(channel) /\ Head(channel) = channel[1]
      BY <1>0, <2>1
    <3> QED
      BY <1>0, <3>1 DEF AnswersShown
  <2>3. /\ r \in TaskRecords /\ r.stage = "answered" /\ r.t1 = now
        /\ r.t0 = task[Server][k].t0 /\ r.leader_time = Head(channel)
    <3>1. task[Server][k] \in TaskRecords
      BY <1>0
    <3> QED
      BY <1>0, <2>2, <3>1 DEF TaskRecords
  <2> HIDE DEF r
  <2>4. Measured(r, now', peak')
    <3>1. task[Server][k].t0 <= now
      BY <1>0, <2>1 DEF TasksShown, Measured
    <3> QED
      BY <2>1, <2>2, <2>3, <3>1 DEF Measured
  <2>5. task' \in [Nodes -> [Tasks -> TaskRecords]] /\ TasksShown'
    BY <1>0, <2>1, <2>3, <2>4, TaskStep
  <2>6. channel' \in Seq(Nat) /\ \A i \in 1 .. Len(channel') : channel'[i] <= peak
    BY <1>0, <2>1 DEF AnswersShown
  <2>7. AnswersShown'
    BY <1>0, <2>1, <2>6 DEF AnswersShown
  <2> QED
    BY <1>0, <1>2, <2>1, <2>5, <2>6, <2>7
\* A task of node 1 reads node 1's clock.
<1>10. ASSUME NEW k \in Tasks, ReadOwn(k) PROVE SyncInv'
  <2> DEFINE r == [task[Master][k] EXCEPT !.stage = "answered", !.t1 = now,
                                          !.leader_time = logical_time[Master]]
  <2>1. /\ task' = Put(Master, k, r)
        /\ task[Master][k].stage = "waiting"
        /\ UNCHANGED <<now, logical_time, answers, channel, holder, peak, bound,
                       ticks>>
    BY <1>10 DEF ReadOwn, Stage, clocks, history, exchange, Put
  <2>2. /\ r \in TaskRecords /\ r.stage = "answered" /\ r.t1 = now
        /\ r.t0 = task[Master][k].t0 /\ r.leader_time = logical_time[Master]
    <3>1. task[Master][k] \in TaskRecords
      BY <1>0
    <3> QED
      BY <1>0, <3>1 DEF TaskRecords
  <2> HIDE DEF r
  <2>3. Measured(r, now', peak')
    <3>1. task[Master][k].t0 <= now
      BY <1>0, <2>1 DEF TasksShown, Measured
    <3> QED
      BY <1>0, <2>1, <2>2, <3>1 DEF Measured
  <2>4. task' \in [Nodes -> [Tasks -> TaskRecords]] /\ TasksShown'
    BY <1>0, <2>1, <2>2, <2>3, TaskStep
  <2>5. AnswersShown'
    BY <1>0, <2>1, AnswersSame
  <2> QED
    BY <1>0, <1>2, <2>1, <2>4, <2>5
\* A clock is set, to a time that node 1 has shown plus half of a round trip.
<1>11. ASSUME NEW n \in Nodes, NEW k \in Tasks, Resync(n, k) PROVE SyncInv'
  <2>1. /\ task[n][k].stage = "answered" /\ task' = Put(n, k, Idle)
        /\ logical_time' = [logical_time EXCEPT ![n] = corrected(n, k)]
        /\ peak' = Seen(logical_time')
        /\ bound' = IF n = Server THEN rtt(n, k) \div 2 ELSE bound
        /\ ticks' = IF n = Server THEN 0 ELSE ticks
        /\ UNCHANGED <<now, answers, channel, holder>>
    BY <1>11 DEF Resync, Stage, exchange, Put
  <2>2. /\ task[n][k].leader_time \in Nat /\ task[n][k].leader_time <= peak
        /\ rtt(n, k) \in Nat
    <3>1. task[n][k] \in TaskRecords /\ Measured(task[n][k], now, peak)
      BY <1>0 DEF TasksShown
    <3>2. /\ task[n][k].t0 \in Nat /\ task[n][k].t1 \in Nat
          /\ task[n][k].leader_time \in Nat
      BY <3>1 DEF TaskRecords
    <3> QED
      BY <2>1, <3>1, <3>2 DEF Measured, rtt
  <2>3. rtt(n, k) \div 2 \in Nat
    BY <2>2
  <2>4. /\ corrected(n, k) \in Nat
        /\ corrected(n, k) <= peak + rtt(n, k) \div 2
    BY <1>0, <2>2, <2>3 DEF corrected
  <2>5. /\ logical_time' \in [Nodes -> Nat] /\ logical_time'[n] = corrected(n, k)
        /\ \A m \in Nodes : m # n => logical_time'[m] = logical_time[m]
    BY <1>0, <2>1, <2>4
  <2>6. peak' \in Nat /\ peak' >= peak /\ logical_time'[Master] <= peak'
    <3>1. logical_time'[Master] \in Nat
      BY <2>5
    <3> QED
      BY <1>0, <2>1, <3>1 DEF Seen
  <2>7. task' \in [Nodes -> [Tasks -> TaskRecords]] /\ TasksShown'
    <3>1. Idle \in TaskRecords /\ Measured(Idle, now', peak')
      BY DEF Idle, TaskRecords, Measured
    <3>2. /\ now' \in Nat /\ now' >= now /\ peak' \in Nat /\ peak' >= peak
          /\ task' = Put(n, k, Idle)
      BY <1>0, <2>1, <2>6
    <3> QED
      BY <3>1, <3>2, TaskStep
  <2>8. AnswersShown'
    BY <1>0, <2>1, <2>6, AnswersSame
  <2>9. NeverFarAhead' /\ ticks' \in Nat /\ bound' \in Nat
    <3>1. CASE n = Server
      <4>1. ticks' = 0 /\ bound' = rtt(n, k) \div 2
            /\ logical_time'[Server] = corrected(n, k)
        BY <2>1, <2>5, <3>1
      <4>2. (Step + Drift) * ticks' = 0
        BY <4>1, Products
      <4> QED
        BY <1>0, <2>3, <2>4, <2>6, <4>1, <4>2 DEF NeverFarAhead
    <3>2. CASE n # Server
      <4>1. ticks' = ticks /\ bound' = bound
            /\ logical_time'[Server] = logical_time[Server]
        BY <2>1, <2>5, <3>2
      <4> QED
        BY <1>0, <1>1, <2>6, <4>1 DEF NeverFarAhead
    <3> QED
      BY <3>1, <3>2
  <2> QED
    BY <1>0, <2>1, <2>5, <2>6, <2>7, <2>8, <2>9 DEF SyncInv, SyncTypes
<1>12. ASSUME UNCHANGED <<now, logical_time, task, answers, channel, holder, peak,
                          bound, ticks>>
       PROVE  SyncInv'
  <2>1. AnswersShown'
    BY <1>0, <1>12, AnswersSame
  <2>2. TasksShown'
    BY <1>0, <1>12, TasksSame
  <2> QED
    BY <1>0, <1>2, <1>12, <2>1, <2>2
<1>13. CASE LoseRequest
  BY <1>12, <1>13 DEF LoseRequest, clocks, history
<1>14. CASE UNCHANGED vars
  BY <1>12, <1>14 DEF vars
<1> QED
  BY <1>3, <1>4, <1>5, <1>6, <1>7, <1>8, <1>9, <1>10, <1>11, <1>13, <1>14 DEF Next

\* NeverFarAhead, for any number of tasks and messages, whatever is lost, late
\* or taken by another task, and however node 1's own clock drifts and is set
\* back: sync_with_master sets the clock ahead of what node 1 has shown by at
\* most half of the round trip it has measured.
THEOREM ClockNeverFarAhead == Spec => []NeverFarAhead
<1>1. SyncInv => NeverFarAhead
  BY DEF SyncInv
<1> QED
  BY <1>1, InitSync, NextSync, PTL DEF Spec

-----------------------------------------------------------------------------
\* Sums over the answers on their way.

\* A set of times has a least element.
LEMMA LeastTime ==
  ASSUME NEW T \in SUBSET (0 .. MaxReading), T # {}
  PROVE  \E n \in T : /\ n \in 0 .. MaxReading /\ n \in Nat /\ MaxReading \in Nat
                      /\ n # 0 => n - 1 \in 0 .. MaxReading /\ n - 1 \notin T
<1>1. MaxReading \in Nat /\ T \in SUBSET Nat
  BY ClockSyncAssumption
<1>2. PICK n \in T : \A m \in T : n <= m
  BY <1>1, LeastNatural
<1>3. n \in Nat /\ n \in 0 .. MaxReading
  BY <1>1
<1> QED
  BY <1>1, <1>2, <1>3

\* s[t] is the sum of a[0] to a[t].
SumsOf(a, s) ==
  s = [t \in 0 .. MaxReading |-> a[t] + (IF t = 0 THEN 0 ELSE s[t - 1])]

\* The sums exist: the least t up to which they did not could be added.
LEMMA SumsExist ==
  ASSUME NEW a \in [0 .. MaxReading -> Nat]
  PROVE  \E s : SumsOf(a, s)
<1> DEFINE Upto(n, s) == s = [t \in 0 .. n |-> a[t] + (IF t = 0 THEN 0 ELSE s[t - 1])]
           Bad == {n \in Nat : ~\E s : Upto(n, s)}
<1>1. \E s : Upto(0, s)
  <2> DEFINE s == [t \in 0 .. 0 |-> a[0]]
  <2>0. a[0] \in Nat
    BY ClockSyncAssumption
  <2>1. Upto(0, s)
    BY <2>0
  <2> QED
    BY <2>1
<1>2. ASSUME NEW n \in Nat, \E s : Upto(n, s) PROVE \E s : Upto(n + 1, s)
  <2> PICK s : Upto(n, s)
    BY <1>2
  <2> DEFINE r == [t \in 0 .. n + 1 |-> IF t <= n THEN s[t] ELSE a[t] + s[n]]
  <2>1. ASSUME NEW t \in 0 .. n + 1
        PROVE  r[t] = a[t] + (IF t = 0 THEN 0 ELSE r[t - 1])
    <3>1. CASE t = n + 1
      BY <3>1
    <3>2. CASE t \in 0 .. n
      <4>1. r[t] = s[t] /\ s[t] = a[t] + (IF t = 0 THEN 0 ELSE s[t - 1])
        BY <3>2
      <4>2. t # 0 => r[t - 1] = s[t - 1]
        BY <3>2
      <4> QED
        BY <4>1, <4>2
    <3> QED
      BY <3>1, <3>2
  <2>2. r = [t \in 0 .. n + 1 |-> r[t]]
    OBVIOUS
  <2>3. Upto(n + 1, r)
    <3> HIDE DEF r
    <3> QED
      BY <2>1, <2>2, Zenon
  <2> QED
    BY <2>3
<1> HIDE DEF Upto
<1>3. Bad = {}
  <2> SUFFICES ASSUME Bad # {} PROVE FALSE
    OBVIOUS
  <2>1. PICK n \in Bad : \A m \in Bad : n <= m
    BY LeastNatural
  <2>2. n # 0 /\ n \in Nat
    BY <1>1
  <2>3. n - 1 \in Nat /\ n - 1 \notin Bad
    BY <2>1, <2>2
  <2> QED
    BY <1>2, <2>1, <2>2, <2>3
<1> QED
  BY <1>3, ClockSyncAssumption DEF SumsOf, Upto

\* What a sum is made of.
LEMMA SumsStep ==
  ASSUME NEW a \in [0 .. MaxReading -> Nat], NEW s, SumsOf(a, s)
  PROVE  /\ \A t \in 0 .. MaxReading : /\ t = 0 => s[t] = a[t]
                                       /\ t # 0 => s[t] = a[t] + s[t - 1]
         /\ \A t \in 0 .. MaxReading : s[t] \in Nat
<1>1. \A t \in 0 .. MaxReading : s[t] = a[t] + (IF t = 0 THEN 0 ELSE s[t - 1])
  BY Zenon DEF SumsOf
<1>2. \A t \in 0 .. MaxReading : /\ t = 0 => s[t] = a[t]
                                 /\ t # 0 => s[t] = a[t] + s[t - 1]
  BY <1>1
<1> DEFINE Bad == {t \in 0 .. MaxReading : s[t] \notin Nat}
<1>3. Bad = {}
  <2> SUFFICES ASSUME Bad # {} PROVE FALSE
    OBVIOUS
  <2>1. PICK n \in Bad : /\ n \in 0 .. MaxReading /\ n \in Nat /\ MaxReading \in Nat
                         /\ n # 0 => n - 1 \in 0 .. MaxReading /\ n - 1 \notin Bad
    <3>1. Bad \in SUBSET (0 .. MaxReading)
      OBVIOUS
    <3> HIDE DEF Bad
    <3> QED
      BY <3>1, LeastTime
  <2>2. n \in 0 .. MaxReading /\ a[n] \in Nat /\ s[n] \notin Nat
    OBVIOUS
  <2>3. n # 0
    BY <1>2, <2>2
  <2>4. n - 1 \in 0 .. MaxReading /\ s[n - 1] \in Nat
    BY <2>1, <2>2, <2>3
  <2> QED
    BY <1>2, <2>2, <2>3, <2>4
<1> QED
  BY <1>2, <1>3

\* b is a with d added at u.
AddedAt(a, b, u, d) ==
  /\ a \in [0 .. MaxReading -> Nat] /\ b \in [0 .. MaxReading -> Nat]
  /\ u \in 0 .. MaxReading /\ d \in Int
  /\ b[u] = a[u] + d
  /\ \A t \in 0 .. MaxReading : t # u => b[t] = a[t]

\* Sums of functions that differ in one place.
LEMMA SumsChange ==
  ASSUME NEW a, NEW b, NEW u, NEW d, AddedAt(a, b, u, d),
         NEW s, NEW r, SumsOf(a, s), SumsOf(b, r)
  PROVE  r[MaxReading] = s[MaxReading] + d
<1>0. /\ a \in [0 .. MaxReading -> Nat] /\ b \in [0 .. MaxReading -> Nat]
      /\ u \in 0 .. MaxReading /\ d \in Int /\ b[u] = a[u] + d
      /\ \A t \in 0 .. MaxReading : t # u => b[t] = a[t]
  BY DEF AddedAt
<1> USE <1>0
<1> DEFINE Bad == {t \in 0 .. MaxReading : r[t] # s[t] + (IF t < u THEN 0 ELSE d)}
<1>1. Bad = {}
  <2> SUFFICES ASSUME Bad # {} PROVE FALSE
    OBVIOUS
  <2>1. PICK n \in Bad : /\ n \in 0 .. MaxReading /\ n \in Nat /\ MaxReading \in Nat
                         /\ n # 0 => n - 1 \in 0 .. MaxReading /\ n - 1 \notin Bad
    <3>1. Bad \in SUBSET (0 .. MaxReading)
      OBVIOUS
    <3> HIDE DEF Bad
    <3> QED
      BY <3>1, LeastTime
  <2>2. /\ n \in 0 .. MaxReading /\ r[n] \in Nat /\ s[n] \in Nat /\ a[n] \in Nat /\ b[n] \in Nat
        /\ n = 0 => r[n] = b[n] /\ s[n] = a[n]
        /\ n # 0 => r[n] = b[n] + r[n - 1] /\ s[n] = a[n] + s[n - 1]
    BY SumsStep
  <2>3. n # 0
    <3>1. CASE n = 0 /\ u = 0
      BY <2>2, <3>1
    <3>2. CASE n = 0 /\ u # 0
      BY <2>2, <3>2
    <3> QED
      BY <3>1, <3>2
  <2>4. /\ n - 1 \in 0 .. MaxReading /\ r[n - 1] = s[n - 1] + (IF n - 1 < u THEN 0 ELSE d)
    BY <2>1, <2>2, <2>3
  <2>5. r[n - 1] \in Nat /\ s[n - 1] \in Nat
    BY <2>4, SumsStep
  <2>6. r[n] # s[n] + (IF n < u THEN 0 ELSE d)
    OBVIOUS
  <2>7. n \in Nat /\ u \in Nat
    OBVIOUS
  <2> HIDE DEF Bad
  <2>8. CASE n = u
    BY <2>2, <2>3, <2>4, <2>5, <2>6, <2>7, <2>8
  <2>9. CASE n # u
    <3>1. b[n] = a[n]
      BY <2>2, <2>9
    <3>2. n - 1 < u <=> n < u
      BY <2>7, <2>9
    <3> QED
      BY <2>2, <2>3, <2>4, <2>5, <2>6, <3>1, <3>2
  <2> QED
    BY <2>8, <2>9
<1>2. MaxReading \in 0 .. MaxReading /\ ~(MaxReading < u)
  BY ClockSyncAssumption
<1> QED
  BY <1>1, <1>2

\* No summand is larger than the sum, and a sum of zeros is zero.
LEMMA SumsBound ==
  ASSUME NEW a \in [0 .. MaxReading -> Nat], NEW s, SumsOf(a, s)
  PROVE  /\ \A u \in 0 .. MaxReading : a[u] <= s[MaxReading]
         /\ (\A u \in 0 .. MaxReading : a[u] = 0) => s[MaxReading] = 0
         /\ s[MaxReading] \in Nat
<1>0. MaxReading \in 0 .. MaxReading /\ MaxReading \in Nat
  BY ClockSyncAssumption
<1>1. ASSUME NEW u \in 0 .. MaxReading PROVE a[u] <= s[MaxReading]
  <2> DEFINE Bad == {t \in 0 .. MaxReading : u <= t /\ ~(a[u] <= s[t])}
  <2>1. Bad = {}
    <3> SUFFICES ASSUME Bad # {} PROVE FALSE
      OBVIOUS
    <3>1. PICK n \in Bad : /\ n \in 0 .. MaxReading /\ n \in Nat /\ MaxReading \in Nat
                           /\ n # 0 => n - 1 \in 0 .. MaxReading /\ n - 1 \notin Bad
      <4>1. Bad \in SUBSET (0 .. MaxReading)
        OBVIOUS
      <4> HIDE DEF Bad
      <4> QED
        BY <4>1, LeastTime
    <3>2. /\ n \in 0 .. MaxReading /\ s[n] \in Nat /\ a[n] \in Nat /\ a[u] \in Nat
          /\ n = 0 => s[n] = a[n]
          /\ n # 0 => s[n] = a[n] + s[n - 1]
          /\ u <= n /\ ~(a[u] <= s[n]) /\ u \in Nat
      <4>1. u <= n /\ ~(a[u] <= s[n]) /\ u \in Nat /\ a[u] \in Nat
        BY <1>0
      <4> HIDE DEF Bad
      <4> QED
        BY <3>1, <4>1, SumsStep
    <3>3. n # 0 /\ n # u
      <4>1. n # 0 => n - 1 \in 0 .. MaxReading
        BY <3>1
      <4>2. n # 0 => s[n - 1] \in Nat
        BY <4>1, SumsStep
      <4> QED
        BY <3>2, <4>2
    <3>4. n - 1 \in 0 .. MaxReading /\ u <= n - 1 /\ n - 1 \notin Bad
      BY <3>1, <3>2, <3>3
    <3>5. s[n - 1] \in Nat /\ a[u] <= s[n - 1]
      BY <3>4, SumsStep
    <3> HIDE DEF Bad
    <3> QED
      BY <3>2, <3>3, <3>5
  <2> QED
    BY <1>0, <2>1
<1>2. ASSUME \A u \in 0 .. MaxReading : a[u] = 0 PROVE s[MaxReading] = 0
  <2> DEFINE Bad == {t \in 0 .. MaxReading : s[t] # 0}
  <2>1. Bad = {}
    <3> SUFFICES ASSUME Bad # {} PROVE FALSE
      OBVIOUS
    <3>1. PICK n \in Bad : /\ n \in 0 .. MaxReading /\ n \in Nat /\ MaxReading \in Nat
                           /\ n # 0 => n - 1 \in 0 .. MaxReading /\ n - 1 \notin Bad
      <4>1. Bad \in SUBSET (0 .. MaxReading)
        OBVIOUS
      <4> HIDE DEF Bad
      <4> QED
        BY <4>1, LeastTime
    <3>2. /\ n \in 0 .. MaxReading /\ a[n] = 0 /\ s[n] # 0
          /\ n = 0 => s[n] = a[n]
          /\ n # 0 => s[n] = a[n] + s[n - 1]
      BY <1>2, SumsStep
    <3>3. n # 0
      BY <3>2
    <3>4. n - 1 \in 0 .. MaxReading /\ s[n - 1] = 0
      BY <3>1, <3>2, <3>3
    <3> HIDE DEF Bad
    <3> QED
      BY <3>2, <3>3, <3>4
  <2> QED
    BY <1>0, <2>1
<1> QED
  BY <1>0, <1>1, <1>2, SumsStep

\* The sums of the answers on their way.
LEMMA AnswerSums ==
  /\ answers \in [0 .. MaxReading -> Nat] => SumsOf(answers, SumAnswers)
  /\ answers' \in [0 .. MaxReading -> Nat] => SumsOf(answers', SumAnswers')
<1>1. ASSUME answers \in [0 .. MaxReading -> Nat] PROVE SumsOf(answers, SumAnswers)
  <2>1. SumAnswers = CHOOSE s : SumsOf(answers, s)
    BY DEF SumAnswers, SumsOf, Readings
  <2> QED
    BY <1>1, <2>1, SumsExist
<1>2. ASSUME answers' \in [0 .. MaxReading -> Nat] PROVE SumsOf(answers', SumAnswers')
  <2>1. SumAnswers' = CHOOSE s : SumsOf(answers', s)
    BY DEF SumAnswers, SumsOf, Readings
  <2> QED
    BY <1>2, <2>1, SumsExist
<1> QED
  BY <1>1, <1>2

-----------------------------------------------------------------------------
\* The answers and the tasks that wait for them.

\* How many tasks wait, when one of them moves on.
LEMMA WaitingCount ==
  ASSUME NEW k \in Tasks, NEW r, task \in [Nodes -> [Tasks -> TaskRecords]],
         task' = [task EXCEPT ![Server][k] = r]
  PROVE  LET n == Cardinality(Stage(Server, "waiting"))
             m == Cardinality(Stage(Server, "waiting")')
         IN /\ n \in Nat /\ m \in Nat
            /\ task[Server][k].stage # "waiting" /\ r.stage = "waiting" => m = n + 1
            /\ task[Server][k].stage = "waiting" /\ r.stage # "waiting" => m = n - 1
            /\ task[Server][k].stage # "waiting" /\ r.stage # "waiting" =>
                 Stage(Server, "waiting")' = Stage(Server, "waiting")
<1> DEFINE W == Stage(Server, "waiting")
           V == Stage(Server, "waiting")'
<1>1. /\ W = {j \in Tasks : task[Server][j].stage = "waiting"}
      /\ V = {j \in Tasks : task'[Server][j].stage = "waiting"}
  BY DEF Stage
<1>2. /\ task'[Server][k] = r
      /\ \A j \in Tasks : j # k => task'[Server][j] = task[Server][j]
  BY ConstantTypes
<1>3. IsFiniteSet(W) /\ IsFiniteSet(V)
  <2>1. IsFiniteSet(Tasks)
    BY ClockSyncAssumption, FS_Interval DEF Tasks
  <2> QED
    BY <1>1, <2>1, FS_Subset
<1> HIDE DEF W, V
<1>4. Cardinality(W) \in Nat /\ Cardinality(V) \in Nat
  BY <1>3, FS_CardinalityType
<1>5. ASSUME task[Server][k].stage # "waiting", r.stage = "waiting" PROVE Cardinality(V) = Cardinality(W) + 1
  <2>1. k \notin W /\ V = W \cup {k}
    BY <1>1, <1>2, <1>5
  <2> QED
    BY <1>3, <2>1, FS_AddElement
<1>6. ASSUME task[Server][k].stage = "waiting", r.stage # "waiting" PROVE Cardinality(V) = Cardinality(W) - 1
  <2>1. k \in W /\ V = W \ {k}
    BY <1>1, <1>2, <1>6
  <2> QED
    BY <1>3, <2>1, FS_RemoveElement
<1>7. ASSUME task[Server][k].stage # "waiting", r.stage # "waiting" PROVE V = W
  BY <1>1, <1>2, <1>7
<1> QED
  BY <1>4, <1>5, <1>6, <1>7 DEF W, V

\* The counts that a step leaves alone or changes by one.
AwaitInv == requests \in Nat /\ AnswersAwaited

\* Requests and answers are never more than the tasks that wait.
LEMMA NextAwait == SyncInv /\ AwaitInv /\ [Next]_vars => AwaitInv'
<1> SUFFICES ASSUME SyncInv, AwaitInv, [Next]_vars PROVE AwaitInv'
  OBVIOUS
<1> DEFINE sum == SumAnswers[MaxReading]
           held == IF LockFree(Server) THEN 0 ELSE 1
           waiting == Cardinality(Stage(Server, "waiting"))
<1>0. /\ requests \in Nat /\ channel \in Seq(Nat) /\ Len(channel) \in Nat
      /\ task \in [Nodes -> [Tasks -> TaskRecords]]
      /\ answers \in [0 .. MaxReading -> Nat]
  BY DEF SyncInv, SyncTypes, AwaitInv, Readings
<1>1. sum \in Nat
  BY <1>0, AnswerSums, SumsBound
<1>2. held \in {0, 1} /\ held' \in {0, 1}
  BY DEF LockFree
<1>3. /\ waiting \in Nat
      /\ requests + Len(channel) + held + sum <= waiting
  <2>1. IsFiniteSet(Tasks)
    BY ClockSyncAssumption, FS_Interval DEF Tasks
  <2>2. IsFiniteSet(Stage(Server, "waiting"))
    BY <2>1, FS_Subset DEF Stage
  <2> QED
    BY <2>2, FS_CardinalityType DEF AwaitInv, AnswersAwaited, InFlight
<1>4. ASSUME NEW u \in 0 .. MaxReading, NEW d \in Int, answers' \in [0 .. MaxReading -> Nat],
             answers'[u] = answers[u] + d,
             \A t \in 0 .. MaxReading : t # u => answers'[t] = answers[t]
      PROVE  sum' = sum + d /\ sum' \in Nat
  <2>1. SumsOf(answers, SumAnswers) /\ SumsOf(answers', SumAnswers')
    BY <1>0, <1>4, AnswerSums
  <2>3. SumAnswers'[MaxReading] = SumAnswers[MaxReading] + d
    <3>1. AddedAt(answers, answers', u, d)
      BY <1>0, <1>4 DEF AddedAt
    <3> QED
      BY <2>1, <3>1, SumsChange
  <2>4. SumAnswers'[MaxReading] \in Nat
    BY <1>4, <2>1, SumsBound
  <2> QED
    BY <2>3, <2>4
<1>5. UNCHANGED answers => sum' = sum
  BY DEF SumAnswers
<1>6. ASSUME \/ UNCHANGED task
             \/ \E k \in Tasks : \E r : task' = [task EXCEPT ![Master][k] = r]
      PROVE  waiting' = waiting
  <2>1. task'[Server] = task[Server]
    BY <1>0, <1>6, ConstantTypes
  <2> QED
    BY <2>1 DEF Stage
<1>7. UNCHANGED holder => held' = held
  BY DEF LockFree
\* What is left to show, in numbers.
<1>8. ASSUME requests' \in Nat, sum' \in Nat, Len(channel') \in Nat, waiting' \in Nat,
             requests' + Len(channel') + held' + sum' <= waiting'
      PROVE  AwaitInv'
  BY <1>8 DEF AwaitInv, AnswersAwaited, InFlight
<1> HIDE DEF sum, held, waiting
<1>9. ASSUME UNCHANGED <<requests, answers, channel, holder>>, waiting' = waiting PROVE AwaitInv'
  BY <1>0, <1>1, <1>2, <1>3, <1>5, <1>7, <1>8, <1>9
<1>10. ASSUME Pass PROVE AwaitInv'
  BY <1>6, <1>9, <1>10 DEF Pass, exchange
<1>11. ASSUME NEW n \in Nodes, NEW drifted \in {Step - Drift, Step + Drift},
              Tick(n, drifted)
       PROVE  AwaitInv'
  <2> DEFINE r == [Idle EXCEPT !.stage = "spawned"]
  <2>1. UNCHANGED <<requests, answers, channel, holder>>
    BY <1>11 DEF Tick, exchange
  <2>2. \/ UNCHANGED task
        \/ \E k \in Tasks : /\ task[n][k].stage = "idle"
                            /\ task' = [task EXCEPT ![n][k] = r]
    <3>1. CASE counter[n] + 1 >= sync_freq(n)
      BY <1>11, <3>1 DEF Tick, Stage
    <3>2. CASE ~(counter[n] + 1 >= sync_freq(n))
      BY <1>11, <3>2 DEF Tick
    <3> QED BY <3>1, <3>2
  <2>3. r.stage # "waiting"
    BY DEF Idle
  <2> HIDE DEF r
  <2>4. waiting' = waiting
    <3>1. ASSUME NEW k \in Tasks, task[n][k].stage = "idle", n = Server,
                 task' = [task EXCEPT ![n][k] = r]
          PROVE  waiting' = waiting
      <4>1. Stage(Server, "waiting")' = Stage(Server, "waiting")
        BY <1>0, <2>3, <3>1, WaitingCount
      <4> QED
        BY <4>1 DEF waiting
    <3>2. n = Master \/ n = Server
      BY DEF Nodes
    <3> QED
      BY <1>6, <2>2, <3>1, <3>2
  <2> QED
    BY <1>9, <2>1, <2>4
<1>12. ASSUME NEW n \in Nodes, NEW k \in Tasks, Request(n, k) PROVE AwaitInv'
  <2> DEFINE r == [task[n][k] EXCEPT !.stage = "waiting", !.t0 = now]
  <2>1. /\ task' = [task EXCEPT ![n][k] = r] /\ task[n][k].stage = "spawned"
        /\ requests' = IF n = Server THEN requests + 1 ELSE requests
        /\ UNCHANGED <<answers, channel, holder>>
    BY <1>12 DEF Request, Stage, Asked
  <2>2. r.stage = "waiting"
    <3>1. task[n][k] \in TaskRecords
      BY <1>0
    <3> QED
      BY <3>1 DEF TaskRecords
  <2> HIDE DEF r
  <2>3. CASE n = Server
    <3>1. waiting' = waiting + 1
      BY <1>0, <2>1, <2>2, <2>3, WaitingCount DEF waiting
    <3> QED
      BY <1>0, <1>1, <1>2, <1>3, <1>5, <1>7, <1>8, <2>1, <2>3, <3>1
  <2>4. CASE n = Master
    <3>1. requests' = requests
      BY <2>1, <2>4, ConstantTypes
    <3> QED
      BY <1>6, <1>9, <2>1, <2>4, <3>1
  <2> QED
    BY <2>3, <2>4 DEF Nodes
<1>13. ASSUME Answer PROVE AwaitInv'
  <2>1. /\ requests > 0 /\ requests' = requests - 1 /\ UNCHANGED <<task, channel, holder>>
        /\ answers' = [answers EXCEPT ![logical_time[Master]] = @ + 1]
        /\ logical_time[Master] \in 0 .. MaxReading
    BY <1>13 DEF Answer, Readings
  <2>2. answers' \in [0 .. MaxReading -> Nat]
    BY <1>0, <2>1
  <2>3. sum' = sum + 1
    <3> DEFINE u == logical_time[Master]
    <3>1. /\ answers'[u] = answers[u] + 1
          /\ \A t \in 0 .. MaxReading : t # u => answers'[t] = answers[t]
      BY <1>0, <2>1
    <3> QED
      BY <1>0, <1>4, <2>1, <2>2, <3>1
  <2> QED
    BY <1>0, <1>1, <1>2, <1>3, <1>6, <1>7, <1>8, <2>1, <2>3
<1>14. ASSUME LoseRequest PROVE AwaitInv'
  <2>1. /\ requests > 0 /\ requests' = requests - 1 /\ UNCHANGED <<task, answers, channel, holder>>
    BY <1>14 DEF LoseRequest
  <2> QED
    BY <1>0, <1>1, <1>2, <1>3, <1>5, <1>6, <1>7, <1>8, <2>1
<1>15. ASSUME NEW t \in Readings, LoseAnswer(t) \/ HandleAnswer(t) PROVE AwaitInv'
  <2>1. /\ answers[t] > 0 /\ answers' = [answers EXCEPT ![t] = @ - 1]
        /\ UNCHANGED <<requests, task>>
        /\ \/ UNCHANGED <<channel, holder>>
           \/ channel' = Append(channel, t) /\ UNCHANGED holder
           \/ LockFree(Server) /\ UNCHANGED channel
    BY <1>15 DEF LoseAnswer, HandleAnswer
  <2>2. /\ answers[t] \in Nat /\ answers[t] - 1 \in Nat
        /\ t \in Nat /\ t \in 0 .. MaxReading
    BY <1>0, <2>1, ConstantTypes DEF Readings
  <2>3. answers' \in [0 .. MaxReading -> Nat]
    BY <1>0, <2>1, <2>2
  <2>4. sum' = sum + (-1) /\ sum' \in Nat
    <3>1. answers'[t] = answers[t] + (-1) /\ \A u \in 0 .. MaxReading : u # t => answers'[u] = answers[u]
      BY <1>0, <2>1, <2>2
    <3>2. -1 \in Int
      OBVIOUS
    <3> QED
      BY <1>4, <2>2, <2>3, <3>1, <3>2
  <2>5. Len(channel') + held' <= Len(channel) + held + 1 /\ Len(channel') \in Nat
    <3>1. CASE UNCHANGED <<channel, holder>>
      BY <1>0, <1>2, <1>7, <3>1
    <3>2. CASE channel' = Append(channel, t) /\ UNCHANGED holder
      <4>1. Len(channel') = Len(channel) + 1
        BY <1>0, <2>2, <3>2
      <4> QED
        BY <1>0, <1>2, <1>7, <3>2, <4>1
    <3>3. CASE LockFree(Server) /\ UNCHANGED channel
      <4>1. held = 0
        BY <3>3 DEF held
      <4> QED
        BY <1>0, <1>2, <3>3, <4>1
    <3> QED
      BY <2>1, <3>1, <3>2, <3>3
  <2> QED
    BY <1>0, <1>1, <1>2, <1>3, <1>6, <1>8, <2>1, <2>4, <2>5
<1>16. ASSUME SendCompletes PROVE AwaitInv'
  <2>1. /\ ~LockFree(Server) /\ channel' = Append(channel, holder) /\ holder' = None
        /\ UNCHANGED <<requests, answers, task>>
    BY <1>16 DEF SendCompletes
  <2>2. held = 1 /\ held' = 0
    BY <2>1 DEF held, LockFree
  <2>3. holder \in Nat
    BY <2>1 DEF SyncInv, AnswersShown, LockFree
  <2>4. Len(channel') = Len(channel) + 1
    BY <1>0, <2>1, <2>3
  <2> QED
    BY <1>0, <1>1, <1>3, <1>5, <1>6, <1>8, <2>1, <2>2, <2>4
<1>17. ASSUME NEW k \in Tasks, Receive(k) PROVE AwaitInv'
  <2> DEFINE r == [task[Server][k] EXCEPT !.stage = "answered", !.t1 = now, !.leader_time = Head(channel)]
  <2>1. /\ task' = [task EXCEPT ![Server][k] = r] /\ task[Server][k].stage = "waiting"
        /\ channel # <<>> /\ channel' = Tail(channel) /\ UNCHANGED <<requests, answers, holder>>
    BY <1>17 DEF Receive, Stage
  <2>2. r.stage = "answered"
    <3>1. task[Server][k] \in TaskRecords
      BY <1>0, ConstantTypes
    <3> QED
      BY <3>1 DEF TaskRecords
  <2> HIDE DEF r
  <2>3. waiting' = waiting - 1 /\ waiting' \in Nat
    BY <1>0, <2>1, <2>2, WaitingCount DEF waiting
  <2>4. Len(channel') = Len(channel) - 1 /\ Len(channel') \in Nat
    BY <1>0, <2>1
  <2> QED
    BY <1>0, <1>1, <1>2, <1>3, <1>5, <1>7, <1>8, <2>1, <2>3, <2>4
<1>18. ASSUME NEW n \in Nodes, NEW k \in Tasks, Resync(n, k) PROVE AwaitInv'
  <2>1. /\ task' = [task EXCEPT ![n][k] = Idle] /\ task[n][k].stage = "answered"
        /\ UNCHANGED <<requests, answers, channel, holder>>
    BY <1>18 DEF Resync, Stage, exchange
  <2>2. CASE n = Server
    <3>1. Idle.stage # "waiting"
      BY DEF Idle
    <3>2. Stage(Server, "waiting")' = Stage(Server, "waiting")
      BY <1>0, <2>1, <2>2, <3>1, WaitingCount
    <3>3. waiting' = waiting
      BY <3>2 DEF waiting
    <3> QED
      BY <1>9, <2>1, <3>3
  <2>3. CASE n = Master
    BY <1>6, <1>9, <2>1, <2>3
  <2> QED
    BY <2>2, <2>3 DEF Nodes
<1>20. ASSUME NEW k \in Tasks, ReadOwn(k) PROVE AwaitInv'
  <2>1. /\ \E r : task' = [task EXCEPT ![Master][k] = r]
        /\ UNCHANGED <<requests, answers, channel, holder>>
    BY <1>20 DEF ReadOwn, exchange
  <2> QED
    BY <1>6, <1>9, <2>1
<1>19. CASE UNCHANGED vars
  BY <1>6, <1>9, <1>19 DEF vars
<1> QED
  BY <1>10, <1>11, <1>12, <1>13, <1>14, <1>15, <1>16, <1>17, <1>18, <1>19, <1>20
     DEF Next

\* Nothing is asked and nobody waits at the start.
LEMMA InitAwait == Init => AwaitInv
<1> SUFFICES ASSUME Init PROVE AwaitInv
  OBVIOUS
<1>1. answers \in [0 .. MaxReading -> Nat] /\ \A t \in 0 .. MaxReading : answers[t] = 0
  BY DEF Init, Readings
<1>2. SumAnswers[MaxReading] = 0
  BY <1>1, AnswerSums, SumsBound
<1>3. InFlight = 0
  BY DEF Init, InFlight, LockFree
<1>4. Cardinality(Stage(Server, "waiting")) = 0
  <2>1. Stage(Server, "waiting") = {}
    BY ConstantTypes DEF Init, Stage, Idle
  <2> QED
    BY <2>1, FS_EmptySet
<1> QED
  BY <1>2, <1>3, <1>4 DEF AwaitInv, AnswersAwaited, Init

\* No more answers come than there are tasks to take them, whatever is lost or
\* late (handle_resync_answer waits for room in the channel with the lock of
\* the clock in its hand).
THEOREM EveryAnswerAwaited == Spec => []AnswersAwaited
<1>1. AwaitInv => AnswersAwaited
  BY DEF AwaitInv
<1> QED
  BY <1>1, InitSync, NextSync, InitAwait, NextAwait, PTL DEF Spec

=============================================================================
