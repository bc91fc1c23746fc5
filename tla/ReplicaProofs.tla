---------------------------- MODULE ReplicaProofs ----------------------------
(***************************************************************************)
(* Proofs about Replica, for every number of servers and commands and      *)
(* every behaviour of the clocks.                                          *)
(***************************************************************************)
EXTENDS Replica, TLAPS

\* Sequences are equal when they agree position by position.
LEMMA SameSequence ==
  ASSUME NEW S, NEW s \in Seq(S), NEW t \in Seq(S), Len(s) = Len(t),
         \A k \in 1 .. Len(s) : s[k] = t[k]
  PROVE  s = t
  OBVIOUS

\* A sequence that agrees with the first k elements of another is that prefix.
LEMMA SameAsPrefix ==
  ASSUME NEW S, NEW s \in Seq(S), NEW t \in Seq(S), NEW k \in 1 .. Len(t),
         Len(s) = k, \A x \in 1 .. k : s[x] = t[x]
  PROVE  s = SubSeq(t, 1, k)
<1>1. /\ SubSeq(t, 1, k) \in Seq(S) /\ Len(SubSeq(t, 1, k)) = k
      /\ \A x \in 1 .. k : SubSeq(t, 1, k)[x] = t[x]
  OBVIOUS
<1> QED BY <1>1, SameSequence

\* A prefix agrees with the whole sequence position by position.
LEMMA PrefixPointwise ==
  ASSUME NEW S, NEW s \in Seq(S), NEW t \in Seq(S)
  PROVE  IsPrefix(s, t) <=> Len(s) <= Len(t) /\ \A k \in 1 .. Len(s) : s[k] = t[k]
<1>1. CASE Len(s) <= Len(t)
  <2>1. /\ SubSeq(s, 1, Len(s)) \in Seq(S) /\ Len(SubSeq(s, 1, Len(s))) = Len(s)
        /\ \A k \in 1 .. Len(s) : SubSeq(s, 1, Len(s))[k] = s[k]
    OBVIOUS
  <2>2. /\ SubSeq(t, 1, Len(s)) \in Seq(S) /\ Len(SubSeq(t, 1, Len(s))) = Len(s)
        /\ \A k \in 1 .. Len(s) : SubSeq(t, 1, Len(s))[k] = t[k]
    BY <1>1
  <2>3. SubSeq(s, 1, Len(s)) = SubSeq(t, 1, Len(s))
          <=> \A k \in 1 .. Len(s) : SubSeq(s, 1, Len(s))[k] = SubSeq(t, 1, Len(s))[k]
    BY <2>1, <2>2
  <2> QED BY <1>1, <2>1, <2>2, <2>3 DEF IsPrefix
<1>2. CASE ~(Len(s) <= Len(t))
  BY <1>2 DEF IsPrefix
<1> QED BY <1>1, <1>2

Assumptions ==
  /\ InitialLeaders \subseteq Servers
  /\ Delay \in Nat /\ Steps \subseteq Nat
  /\ MaxReq \in Nat /\ MaxTime \in Nat /\ MaxResyncs \in Nat
  /\ None \notin Nat

\* The named assumptions of Replica, gathered for the steps below.
LEMMA AssumptionsHold == Assumptions
  BY ServersAssumption, ClockAssumption, BoundAssumption, NoneAssumption DEF Assumptions

\* The initial state has its types.
LEMMA InitType == Init => TypeOK
  BY AssumptionsHold DEF Init, TypeOK, Assumptions, Ids, Time, WaiterIdle, Waiters, Stages,
     Replies, Acks, NoReply, NewDeadlineMsgs

\* Every step keeps the types.
LEMMA NextType == TypeOK /\ [Next]_vars => TypeOK'
<1> USE AssumptionsHold DEF Assumptions, Time
<1> SUFFICES ASSUME TypeOK, [Next]_vars PROVE TypeOK'
  OBVIOUS
<1>b. /\ early \in [Servers -> SUBSET Ids] /\ late \in [Servers -> SUBSET Ids]
      /\ deadline \in [Servers -> [Ids -> Nat]]
  BY DEF TypeOK
<1>1. CASE UNCHANGED vars
  BY <1>1 DEF TypeOK, vars, paxosVars, bufferVars, clockVars
<1>2. ASSUME NEW s \in Servers, Tick(s) PROVE TypeOK'
  <2> PICK d \in Steps : now' = [now EXCEPT ![s] = @ + d] /\ process_deadlines(s, now[s] + d)
    BY <1>2 DEF Tick
  <2>1. now' \in [Servers -> Nat]
    BY DEF TypeOK
  <2>2. waiter[s].pc = "armed" => [waiter[s] EXCEPT !.pc = "fired"] \in Waiters
    BY DEF TypeOK, Waiters
  <2>3. waiter' \in [Servers -> Waiters]
    BY <2>2 DEF TypeOK, process_deadlines
  <2> QED
    BY <1>2, <2>1, <2>3 DEF TypeOK, Tick, paxosVars
<1>3. ASSUME NEW s \in Servers, Resync(s) PROVE TypeOK'
  BY <1>3 DEF TypeOK, Resync, paxosVars, bufferVars
<1>4. ASSUME NEW s \in Servers, WaiterPop(s) PROVE TypeOK'
  <2> PICK i \in early[s] :
         /\ early' = [early EXCEPT ![s] = @ \ {i}]
         /\ last_released' = [last_released EXCEPT ![s] = deadline[s][i]]
         /\ notifiers' = [notifiers EXCEPT ![s] = TakeNotifier(s, i)]
         /\ waiter' = [waiter EXCEPT ![s] =
                         [pc |-> "popped", id |-> i, sender |-> i \in notifiers[s]]]
    BY <1>4 DEF WaiterPop
  <2>1. i \in Ids /\ deadline[s][i] \in Nat
    BY DEF TypeOK
  <2>2. [pc |-> "popped", id |-> i, sender |-> i \in notifiers[s]] \in Waiters
    <3>1. \A b \in BOOLEAN : [pc |-> "popped", id |-> i, sender |-> b] \in Waiters
      BY <2>1 DEF Waiters
    <3>2. (i \in notifiers[s]) \in BOOLEAN
      OBVIOUS
    <3> QED BY <3>1, <3>2, Zenon
  <2>3. waiter' \in [Servers -> Waiters]
    BY <2>2 DEF TypeOK
  <2>4. notifiers' \in [Servers -> SUBSET Ids] /\ early' \in [Servers -> SUBSET Ids]
    BY DEF TypeOK, TakeNotifier
  <2>5. last_released' \in [Servers -> Nat \cup {None}]
    BY <2>1 DEF TypeOK
  <2> QED
    BY <1>4, <2>3, <2>4, <2>5 DEF TypeOK, WaiterPop, paxosVars, clockVars
<1>5. ASSUME NEW s \in Servers, WaiterNotify(s) PROVE TypeOK'
  BY <1>5 DEF TypeOK, WaiterNotify, AfterNotify, WaiterIdle, clockVars, Waiters, Stages
<1>6. ASSUME NEW s \in Servers, Propose(s) PROVE TypeOK'
  <2>1. next_id[s] \in Ids /\ next_id' \in [Servers -> 0 .. MaxReq]
    BY <1>6 DEF TypeOK, Propose, Ids
  <2>2. new_deadline(s) \in Nat
    BY DEF TypeOK, new_deadline
  <2>3. deadline' \in [Servers -> [Ids -> Nat]]
    BY <1>6, <2>1, <2>2 DEF TypeOK, Propose
  <2>4. im_leader' \in [Servers -> [Ids -> BOOLEAN]]
    BY <1>6, <2>1 DEF TypeOK, Propose
  <2>5. pc' \in [Servers -> [Ids -> Stages]]
    BY <1>6, <2>1 DEF TypeOK, Propose, Stages
  <2> QED
    BY <1>6, <2>1, <2>3, <2>4, <2>5 DEF TypeOK, Propose, clockVars
<1>7. ASSUME NEW s \in Servers, BecomeLeader(s) PROVE TypeOK'
  BY <1>7 DEF TypeOK, BecomeLeader, bufferVars, clockVars
<1>8. ASSUME NEW s \in Servers, NEW i \in Ids, Insert(s, i) PROVE TypeOK'
  <2>1. pc' \in [Servers -> [Ids -> Stages]] /\ notifiers' \in [Servers -> SUBSET Ids]
    BY <1>8 DEF TypeOK, Insert, Stages
  <2>2. new_deadline(s) \in Nat
    BY DEF TypeOK, new_deadline
  <2>3. \/ early' = [early EXCEPT ![s] = @ \cup {i}] /\ UNCHANGED late
        \/ late' = [late EXCEPT ![s] = @ \cup {i}] /\ UNCHANGED early
    BY <1>8 DEF Insert, InsertRedeadlined
  <2>7. early' \in [Servers -> SUBSET Ids] /\ late' \in [Servers -> SUBSET Ids]
    <3>1. early \in [Servers -> SUBSET Ids] /\ late \in [Servers -> SUBSET Ids]
      BY DEF TypeOK
    <3>2. CASE early' = [early EXCEPT ![s] = @ \cup {i}] /\ UNCHANGED late
      BY <3>1, <3>2
    <3>3. CASE late' = [late EXCEPT ![s] = @ \cup {i}] /\ UNCHANGED early
      BY <3>1, <3>3
    <3> QED
      BY <2>3, <3>2, <3>3
  <2>8. UNCHANGED deadline \/ deadline' = [deadline EXCEPT ![s][i] = new_deadline(s)]
    BY <1>8 DEF Insert, InsertRedeadlined
  <2>4. deadline' \in [Servers -> [Ids -> Nat]]
    <3>1. CASE UNCHANGED deadline
      BY <1>b, <3>1
    <3>2. CASE deadline' = [deadline EXCEPT ![s][i] = new_deadline(s)]
      BY <1>b, <2>2, <3>2
    <3> QED BY <2>8, <3>1, <3>2
  <2>5. [from : {s}, to : Servers \ {s}, id : {i}, deadline : {new_deadline(s)}]
          \subseteq NewDeadlineMsgs
    BY <2>2 DEF NewDeadlineMsgs
  <2>6. outgoing' \in SUBSET NewDeadlineMsgs
    BY <1>8, <2>5 DEF TypeOK, Insert, InsertRedeadlined
  <2> QED
    BY <1>8, <2>1, <2>4, <2>6, <2>7 DEF TypeOK, Insert, clockVars
<1>9. ASSUME NEW s \in Servers, NEW i \in Ids, AppendEntry(s, i) PROVE TypeOK'
  BY <1>9 DEF TypeOK, AppendEntry, Appended, bufferVars, clockVars, Stages, Replies
<1>10. ASSUME NEW s \in Servers, NEW i \in Ids, PushAck(s, i) PROVE TypeOK'
  <2>1. Ack(s, i) \in Acks
    BY DEF TypeOK, Ack, Acks, Replies
  <2>2. acks' \in [Servers -> Seq(Acks)]
    BY <1>10, <2>1 DEF TypeOK, PushAck
  <2>3. pc' \in [Servers -> [Ids -> Stages]]
    BY <1>10 DEF TypeOK, PushAck, Stages
  <2> QED
    BY <1>10, <2>2, <2>3 DEF TypeOK, PushAck, bufferVars, clockVars
<1>11. ASSUME NEW m \in outgoing, HandleNewDeadline(m) PROVE TypeOK'
  <2>1. m.to \in Servers /\ m.id \in Ids /\ m.deadline \in Nat
    BY DEF TypeOK, NewDeadlineMsgs
  <2>4. \/ /\ late' = [late EXCEPT ![m.to] = late[m.to] \ {m.id}]
           /\ early' = [early EXCEPT ![m.to] = @ \cup {m.id}]
           /\ deadline' = [deadline EXCEPT ![m.to][m.id] = m.deadline]
        \/ UNCHANGED <<late, early, deadline>>
    BY <1>11, Zenon DEF HandleNewDeadline, LateWithout
  <2>2. early' \in [Servers -> SUBSET Ids] /\ late' \in [Servers -> SUBSET Ids]
    <3>1. CASE UNCHANGED <<late, early>>
      BY <1>b, <3>1
    <3>2. CASE /\ late' = [late EXCEPT ![m.to] = late[m.to] \ {m.id}]
               /\ early' = [early EXCEPT ![m.to] = @ \cup {m.id}]
      BY <1>b, <2>1, <3>2
    <3> QED BY <2>4, <3>1, <3>2
  <2>3. deadline' \in [Servers -> [Ids -> Nat]]
    <3>1. CASE UNCHANGED deadline
      BY <1>b, <3>1
    <3>2. CASE deadline' = [deadline EXCEPT ![m.to][m.id] = m.deadline]
      BY <1>b, <2>1, <3>2
    <3> QED BY <2>4, <3>1, <3>2
  <2> QED
    BY <1>11, <2>2, <2>3 DEF TypeOK, HandleNewDeadline, paxosVars, clockVars
<1>12. ASSUME NEW s \in Servers, AddDeadline(s) PROVE TypeOK'
  <2>1. [waiter[s] EXCEPT !.pc = "armed"] \in Waiters
    BY <1>12 DEF TypeOK, AddDeadline, Waiters
  <2>2. waiter' \in [Servers -> Waiters]
    BY <1>12, <2>1 DEF TypeOK, AddDeadline
  <2> QED
    BY <1>12, <2>2 DEF TypeOK, AddDeadline, paxosVars, clockVars
<1>13. QED
  BY <1>1, <1>2, <1>3, <1>4, <1>5, <1>6, <1>7, <1>8, <1>9, <1>10, <1>11, <1>12
     DEF Next, Waiter, Task

\* The variables of the replicas keep their types.
THEOREM ReplicaTypeCorrect == Spec => []TypeOK
  BY InitType, NextType, PTL DEF Spec

-----------------------------------------------------------------------------
(***************************************************************************)
(* The buffers.  That a waiting command has one home is inductive only     *)
(* together with the notifiers (a command whose notifier is gone would be  *)
(* popped and dropped) and with the fact that the next private id has no   *)
(* task yet.                                                               *)
(***************************************************************************)
Fresh(s) == \A i \in Ids : i >= next_id[s] => pc[s][i] = "none"

BufferInvAt(s) == Fresh(s) /\ OneHome(s) /\ InSync(s)

BufferInv == \A s \in Servers : BufferInvAt(s)

\* Nothing waits at the start.
LEMMA InitBuffer == Init => BufferInv
  BY AssumptionsHold DEF Init, BufferInv, BufferInvAt, Fresh, OneHome, InSync, Held,
     WaiterIdle, Assumptions, Ids

\* What one server's buffers satisfy depends on that server's state only.
LEMMA BufferFrame ==
  ASSUME TypeOK, NEW r \in Servers, BufferInvAt(r),
         pc'[r] = pc[r], early'[r] = early[r], late'[r] = late[r], waiter'[r] = waiter[r],
         notifiers'[r] = notifiers[r], next_id'[r] = next_id[r]
  PROVE  BufferInvAt(r)'
  BY DEF BufferInvAt, Fresh, OneHome, InSync, Held

\* Every step keeps the buffers sound.
LEMMA NextBuffer == TypeOK /\ BufferInv /\ [Next]_vars => BufferInv'
<1> USE AssumptionsHold DEF Assumptions
<1> SUFFICES ASSUME TypeOK, BufferInv, [Next]_vars, NEW r \in Servers PROVE BufferInvAt(r)'
  BY DEF BufferInv
<1>a. BufferInvAt(r)
  BY DEF BufferInv
<1>t. /\ pc \in [Servers -> [Ids -> Stages]] /\ next_id \in [Servers -> 0 .. MaxReq]
      /\ early \in [Servers -> SUBSET Ids] /\ late \in [Servers -> SUBSET Ids]
      /\ notifiers \in [Servers -> SUBSET Ids] /\ waiter \in [Servers -> Waiters]
  BY DEF TypeOK
<1>1. CASE UNCHANGED vars
  BY <1>1, <1>a, BufferFrame DEF vars, paxosVars, bufferVars
<1>2. ASSUME NEW s \in Servers, Tick(s) \/ AddDeadline(s) PROVE BufferInvAt(r)'
  <2>1. PICK stage \in {"armed", "fired"} :
          \/ waiter' = waiter
          \/ waiter' = [waiter EXCEPT ![s].pc = stage] /\ waiter[s].pc # "idle"
    BY <1>2 DEF Tick, process_deadlines, AddDeadline
  <2>2. UNCHANGED <<pc, early, late, notifiers, next_id>>
    BY <1>2 DEF Tick, AddDeadline, paxosVars
  <2>3. Held(r)' = Held(r) /\ (waiter'[r].pc # "idle" => waiter[r].pc # "idle")
        /\ waiter'[r].sender = waiter[r].sender
    <3>1. CASE waiter'[r] = waiter[r]
      BY <3>1 DEF Held
    <3>2. CASE waiter'[r] = [waiter[r] EXCEPT !.pc = stage] /\ waiter[r].pc # "idle"
      <4>1. waiter[r] \in [pc : {"popped", "armed", "fired"}, id : Ids, sender : BOOLEAN]
        BY <1>t, <3>2 DEF Waiters
      <4>2. /\ waiter'[r].pc = stage /\ waiter'[r].id = waiter[r].id
            /\ waiter'[r].sender = waiter[r].sender
        BY <3>2, <4>1
      <4> QED BY <3>2, <4>2 DEF Held
    <3> QED BY <1>t, <2>1, <3>1, <3>2
  <2> QED
    BY <1>a, <2>2, <2>3 DEF BufferInvAt, Fresh, OneHome, InSync
<1>3. ASSUME NEW s \in Servers, Resync(s) PROVE BufferInvAt(r)'
  BY <1>3, <1>a, BufferFrame DEF Resync, paxosVars, bufferVars
<1>4. ASSUME NEW s \in Servers, WaiterPop(s) PROVE BufferInvAt(r)'
  <2> PICK i \in early[s] :
         /\ early' = [early EXCEPT ![s] = @ \ {i}]
         /\ notifiers' = [notifiers EXCEPT ![s] = @ \ {i}]
         /\ waiter' = [waiter EXCEPT ![s] =
                         [pc |-> "popped", id |-> i, sender |-> i \in notifiers[s]]]
    BY <1>4 DEF WaiterPop, TakeNotifier
  <2>1. UNCHANGED <<pc, late, next_id>> /\ waiter[s].pc = "idle"
    BY <1>4 DEF WaiterPop, paxosVars
  <2>2. CASE r # s
    BY <1>t, <1>a, <2>1, <2>2, BufferFrame
  <2>3. CASE r = s
    <3>1. early'[r] = early[r] \ {i} /\ notifiers'[r] = notifiers[r] \ {i} /\ Held(r)' = {i}
          /\ waiter'[r].sender = (i \in notifiers[r])
      <4>1. waiter'[r] = [pc |-> "popped", id |-> i, sender |-> i \in notifiers[s]]
        BY <1>t, <2>3
      <4>2. waiter'[r].pc = "popped" /\ waiter'[r].id = i
            /\ waiter'[r].sender = (i \in notifiers[r])
        BY <2>3, <4>1
      <4>3. early'[r] = early[r] \ {i} /\ notifiers'[r] = notifiers[r] \ {i}
        BY <1>t, <2>3
      <4> QED BY <4>2, <4>3 DEF Held
    <3>2. Held(r) = {}
      BY <2>1, <2>3 DEF Held
    <3>3. i \in early[r] /\ i \in notifiers[r]
      BY <1>a, <2>3 DEF BufferInvAt, InSync
    <3>4. late'[r] = late[r] /\ pc'[r] = pc[r] /\ next_id'[r] = next_id[r]
      BY <2>1
    <3>5. Fresh(r)'
      BY <1>a, <3>4 DEF BufferInvAt, Fresh
    <3>6. OneHome(r)'
      BY <1>a, <3>1, <3>2, <3>3, <3>4 DEF BufferInvAt, OneHome
    <3>7. notifiers'[r] = early'[r] \cup late'[r]
      BY <1>a, <3>1, <3>3, <3>4 DEF BufferInvAt, OneHome, InSync
    <3>8. InSync(r)'
      BY <3>1, <3>3, <3>7 DEF InSync
    <3> QED BY <3>5, <3>6, <3>8 DEF BufferInvAt
  <2> QED BY <2>2, <2>3
<1>5. ASSUME NEW s \in Servers, WaiterNotify(s) PROVE BufferInvAt(r)'
  <2>1. UNCHANGED <<early, late, notifiers, next_id>>
    BY <1>5 DEF WaiterNotify
  <2>2. waiter' = [waiter EXCEPT ![s] = WaiterIdle] /\ waiter[s].pc = "fired"
    BY <1>5 DEF WaiterNotify, AfterNotify
  <2>3. CASE r # s
    <3>1. pc'[r] = pc[r] /\ waiter'[r] = waiter[r]
      BY <1>5, <1>t, <2>2, <2>3 DEF WaiterNotify
    <3> QED BY <1>a, <2>1, <3>1, BufferFrame
  <2>4. CASE r = s
    <3>1. waiter[r].sender /\ Held(r) = {waiter[r].id} /\ waiter[r].id \in Ids
      BY <1>a, <1>t, <2>2, <2>4 DEF BufferInvAt, InSync, Held, Waiters
    <3>2. pc' = [pc EXCEPT ![r][waiter[r].id] = "append"]
      BY <1>5, <2>4, <3>1 DEF WaiterNotify
    <3>3. \A i \in Ids : pc'[r][i] = IF i = waiter[r].id THEN "append" ELSE pc[r][i]
      BY <1>t, <3>1, <3>2
    <3>4. Held(r)' = {} /\ waiter'[r].pc = "idle"
      BY <1>t, <2>2, <2>4 DEF Held, WaiterIdle
    <3>5. Fresh(r)'
      <4>1. pc[r][waiter[r].id] = "await"
        BY <1>a, <3>1 DEF BufferInvAt, OneHome
      <4> QED BY <1>a, <2>1, <3>3, <4>1 DEF BufferInvAt, Fresh
    <3>6. OneHome(r)'
      BY <1>a, <2>1, <3>1, <3>3, <3>4 DEF BufferInvAt, OneHome
    <3>7. InSync(r)'
      BY <1>a, <2>1, <3>4 DEF BufferInvAt, InSync
    <3> QED BY <3>5, <3>6, <3>7 DEF BufferInvAt
  <2> QED BY <2>3, <2>4
<1>6. ASSUME NEW s \in Servers, Propose(s) PROVE BufferInvAt(r)'
  <2>1. UNCHANGED <<early, late, notifiers, waiter>>
    BY <1>6 DEF Propose
  <2>2. /\ next_id' = [next_id EXCEPT ![s] = @ + 1] /\ next_id[s] \in Ids
        /\ pc' = [pc EXCEPT ![s][next_id[s]] = "insert"]
    BY <1>6, <1>t DEF Propose, Ids
  <2>3. CASE r # s
    BY <1>t, <1>a, <2>1, <2>2, <2>3, BufferFrame
  <2>4. CASE r = s
    <3>1. \A i \in Ids : pc'[r][i] = IF i = next_id[r] THEN "insert" ELSE pc[r][i]
      BY <1>t, <2>2, <2>4
    <3>2. next_id'[r] = next_id[r] + 1
      BY <1>t, <2>2, <2>4
    <3>3. pc[r][next_id[r]] = "none"
      BY <1>a, <1>t, <2>2, <2>4 DEF BufferInvAt, Fresh, Ids
    <3>4. Fresh(r)'
      BY <1>a, <1>t, <3>1, <3>2 DEF BufferInvAt, Fresh, Ids
    <3>5. {i \in Ids : pc'[r][i] = "await"} = {i \in Ids : pc[r][i] = "await"}
      BY <3>1, <3>3
    <3>6. Held(r)' = Held(r)
      BY <2>1 DEF Held
    <3>7. OneHome(r)'
      BY <1>a, <2>1, <3>5, <3>6 DEF BufferInvAt, OneHome
    <3> QED BY <1>a, <2>1, <3>4, <3>7 DEF BufferInvAt, InSync
  <2> QED BY <2>3, <2>4
<1>7. ASSUME NEW s \in Servers, BecomeLeader(s) PROVE BufferInvAt(r)'
  BY <1>7, <1>a, BufferFrame DEF BecomeLeader, bufferVars
<1>8. ASSUME NEW s \in Servers, NEW i \in Ids, Insert(s, i) PROVE BufferInvAt(r)'
  <2>1. /\ pc[s][i] = "insert" /\ pc' = [pc EXCEPT ![s][i] = "await"]
        /\ notifiers' = [notifiers EXCEPT ![s] = @ \cup {i}]
        /\ UNCHANGED <<waiter, next_id>>
    BY <1>8 DEF Insert
  <2>2. \/ early' = [early EXCEPT ![s] = @ \cup {i}] /\ UNCHANGED late
        \/ late' = [late EXCEPT ![s] = @ \cup {i}] /\ UNCHANGED early
    BY <1>8 DEF Insert, InsertRedeadlined
  <2>3. CASE r # s
    <3>1. early'[r] = early[r] /\ late'[r] = late[r]
      BY <1>t, <2>2, <2>3
    <3>2. pc'[r] = pc[r] /\ notifiers'[r] = notifiers[r]
      BY <1>t, <2>1, <2>3
    <3> QED BY <1>a, <2>1, <3>1, <3>2, BufferFrame
  <2>4. CASE r = s
    <3>1. \A j \in Ids : pc'[r][j] = IF j = i THEN "await" ELSE pc[r][j]
      BY <1>t, <2>1, <2>4
    <3>2. notifiers'[r] = notifiers[r] \cup {i} /\ Held(r)' = Held(r)
      BY <1>t, <2>1, <2>4 DEF Held
    <3>3. \/ early'[r] = early[r] \cup {i} /\ late'[r] = late[r]
          \/ late'[r] = late[r] \cup {i} /\ early'[r] = early[r]
      BY <1>t, <2>2, <2>4
    <3>4. i \notin early[r] \cup late[r] \cup Held(r)
      BY <1>a, <2>1, <2>4 DEF BufferInvAt, OneHome
    <3>5. Fresh(r)'
      BY <1>a, <2>1, <2>4, <3>1 DEF BufferInvAt, Fresh
    <3>6. {j \in Ids : pc'[r][j] = "await"} = {j \in Ids : pc[r][j] = "await"} \cup {i}
      BY <3>1
    <3>7. OneHome(r)'
      BY <1>a, <3>2, <3>3, <3>4, <3>6 DEF BufferInvAt, OneHome
    <3>8. InSync(r)'
      BY <1>a, <2>1, <3>2, <3>3 DEF BufferInvAt, InSync
    <3> QED BY <3>5, <3>7, <3>8 DEF BufferInvAt
  <2> QED BY <2>3, <2>4
<1>9. ASSUME NEW s \in Servers, NEW i \in Ids, AppendEntry(s, i) \/ PushAck(s, i)
      PROVE  BufferInvAt(r)'
  <2>1. UNCHANGED <<early, late, notifiers, waiter, next_id>>
    BY <1>9 DEF AppendEntry, PushAck, bufferVars
  <2>2. PICK stage \in Stages \ {"none", "await"} :
          pc' = [pc EXCEPT ![s][i] = stage] /\ pc[s][i] \notin {"none", "await"}
    BY <1>9 DEF AppendEntry, PushAck, Stages
  <2>3. CASE r # s
    BY <1>t, <1>a, <2>1, <2>2, <2>3, BufferFrame
  <2>4. CASE r = s
    <3>1. \A j \in Ids : pc'[r][j] = IF j = i THEN stage ELSE pc[r][j]
      BY <1>t, <2>2, <2>4
    <3>2. {j \in Ids : pc'[r][j] = "await"} = {j \in Ids : pc[r][j] = "await"}
      BY <2>2, <2>4, <3>1
    <3>3. Fresh(r)'
      BY <1>a, <2>1, <2>2, <2>4, <3>1 DEF BufferInvAt, Fresh
    <3>4. Held(r)' = Held(r)
      BY <2>1 DEF Held
    <3> QED BY <1>a, <2>1, <3>2, <3>3, <3>4 DEF BufferInvAt, OneHome, InSync
  <2> QED BY <2>3, <2>4
<1>11. ASSUME NEW m \in outgoing, HandleNewDeadline(m) PROVE BufferInvAt(r)'
  <2>1. m.to \in Servers /\ m.id \in Ids
    BY DEF TypeOK, NewDeadlineMsgs
  <2>2. UNCHANGED <<pc, notifiers, waiter, next_id>>
    BY <1>11, Zenon DEF HandleNewDeadline, paxosVars
  <2>3. \/ /\ m.id \in late[m.to]
           /\ late' = [late EXCEPT ![m.to] = late[m.to] \ {m.id}]
           /\ early' = [early EXCEPT ![m.to] = @ \cup {m.id}]
        \/ UNCHANGED <<late, early>>
    BY <1>11, Zenon DEF HandleNewDeadline, LateWithout
  <2>4. \/ early'[r] = early[r] /\ late'[r] = late[r]
        \/ /\ m.id \in late[r]
           /\ late'[r] = late[r] \ {m.id} /\ early'[r] = early[r] \cup {m.id}
    BY <1>t, <2>1, <2>3
  <2>5. Held(r)' = Held(r)
    BY <2>2 DEF Held
  <2> QED BY <1>a, <2>2, <2>4, <2>5 DEF BufferInvAt, Fresh, OneHome, InSync
<1>12. QED
  BY <1>1, <1>2, <1>3, <1>4, <1>5, <1>6, <1>7, <1>8, <1>9, <1>11 DEF Next, Waiter, Task

\* No command is lost or duplicated between the buffers, and the waiter always
\* finds the notifier of the command it releases.
THEOREM BuffersSound == Spec => [](WaitingHasOneHome /\ NotifiersInSync)
<1>1. Init => TypeOK /\ BufferInv
  BY InitType, InitBuffer
<1>2. TypeOK /\ BufferInv /\ [Next]_vars => (TypeOK /\ BufferInv)'
  BY NextType, NextBuffer
<1>3. BufferInv => WaitingHasOneHome /\ NotifiersInSync
  BY DEF BufferInv, BufferInvAt, WaitingHasOneHome, NotifiersInSync
<1> QED
  BY <1>1, <1>2, <1>3, PTL DEF Spec

-----------------------------------------------------------------------------
(***************************************************************************)
(* The order in which a leader releases.  While its clock has not been set *)
(* back, no deadline it has handed out lies beyond what the clock would    *)
(* hand out now, so a late command's new deadline is late enough; and a    *)
(* leader has no late commands, so no other clock's deadline gets in.      *)
(***************************************************************************)
LeaderInvAt(s) ==
  /\ role[s] = "Leader" /\ late[s] = {}
  /\ \A i \in Ids : pc[s][i] # "none" => im_leader[s][i]

ReleaseInvAt(s) ==
  /\ \A i \in Ids : deadline[s][i] <= now[s] + Delay
  /\ last_released[s] # None => last_released[s] <= now[s] + Delay
  /\ \A i \in early[s] : last_released[s] # None => deadline[s][i] >= last_released[s]

ReleaseInv == \A s \in InitialLeaders : LeaderInvAt(s) /\ (resyncs = 0 => ReleaseInvAt(s))

\* The leaders start with empty buffers.
LEMMA InitRelease == Init => ReleaseInv
  BY AssumptionsHold DEF Init, ReleaseInv, LeaderInvAt, ReleaseInvAt, Assumptions

\* Every step keeps the order of release.
LEMMA NextRelease == TypeOK /\ BufferInv /\ ReleaseInv /\ [Next]_vars => ReleaseInv'
<1> USE AssumptionsHold DEF Assumptions
<1> SUFFICES ASSUME TypeOK, BufferInv, ReleaseInv, [Next]_vars, NEW r \in InitialLeaders
             PROVE  LeaderInvAt(r)' /\ (resyncs' = 0 => ReleaseInvAt(r)')
  BY DEF ReleaseInv
<1>r. r \in Servers
  OBVIOUS
<1>a. LeaderInvAt(r) /\ (resyncs = 0 => ReleaseInvAt(r)) /\ BufferInvAt(r)
  BY <1>r DEF ReleaseInv, BufferInv
<1>t. /\ pc \in [Servers -> [Ids -> Stages]] /\ next_id \in [Servers -> 0 .. MaxReq]
      /\ early \in [Servers -> SUBSET Ids] /\ late \in [Servers -> SUBSET Ids]
      /\ deadline \in [Servers -> [Ids -> Nat]] /\ im_leader \in [Servers -> [Ids -> BOOLEAN]]
      /\ now \in [Servers -> Nat] /\ last_released \in [Servers -> Nat \cup {None}]
      /\ resyncs \in Nat /\ role \in [Servers -> {"Follower", "Leader"}]
  BY DEF TypeOK, Time
<1>1. CASE UNCHANGED vars
  BY <1>1, <1>a DEF vars, paxosVars, bufferVars, clockVars, LeaderInvAt, ReleaseInvAt
<1>2. ASSUME NEW s \in Servers, Tick(s)
      PROVE  LeaderInvAt(r)' /\ (resyncs' = 0 => ReleaseInvAt(r)')
  <2>1. UNCHANGED <<role, pc, im_leader, early, late, last_released, deadline, resyncs>>
    BY <1>2 DEF Tick, paxosVars
  <2>2. now'[r] \in Nat /\ now'[r] >= now[r]
    <3> PICK d \in Steps : now' = [now EXCEPT ![s] = @ + d]
      BY <1>2 DEF Tick
    <3> QED BY <1>r, <1>t
  <2>3. LeaderInvAt(r)'
    BY <1>a, <2>1 DEF LeaderInvAt
  <2>4. ASSUME resyncs = 0 PROVE ReleaseInvAt(r)'
    <3>1. \A i \in Ids : deadline[r][i] <= now'[r] + Delay
      BY <1>a, <1>r, <1>t, <2>2, <2>4 DEF ReleaseInvAt
    <3>2. last_released[r] # None => last_released[r] <= now'[r] + Delay
      BY <1>a, <1>r, <1>t, <2>2, <2>4 DEF ReleaseInvAt
    <3> QED BY <1>a, <2>1, <2>4, <3>1, <3>2 DEF ReleaseInvAt
  <2> QED BY <2>1, <2>3, <2>4
<1>3. ASSUME NEW s \in Servers, Resync(s)
      PROVE  LeaderInvAt(r)' /\ (resyncs' = 0 => ReleaseInvAt(r)')
  <2>1. UNCHANGED <<role, pc, im_leader, late>> /\ resyncs' # 0
    BY <1>3, <1>t DEF Resync, paxosVars, bufferVars
  <2> QED BY <1>a, <2>1 DEF LeaderInvAt
<1>4. ASSUME NEW s \in Servers, WaiterPop(s)
      PROVE  LeaderInvAt(r)' /\ (resyncs' = 0 => ReleaseInvAt(r)')
  <2>1. UNCHANGED <<role, pc, im_leader, late, deadline, now, resyncs>>
    BY <1>4 DEF WaiterPop, paxosVars, clockVars
  <2>2. PICK i \in early[s] :
          /\ \A j \in early[s] : deadline[s][i] <= deadline[s][j]
          /\ early' = [early EXCEPT ![s] = @ \ {i}]
          /\ last_released' = [last_released EXCEPT ![s] = deadline[s][i]]
    BY <1>4 DEF WaiterPop
  <2>3. LeaderInvAt(r)'
    BY <1>a, <2>1 DEF LeaderInvAt
  <2>4. ASSUME resyncs = 0 PROVE ReleaseInvAt(r)'
    <3>1. CASE r # s
      <4>1. early'[r] = early[r] /\ last_released'[r] = last_released[r]
        BY <1>r, <1>t, <2>2, <3>1
      <4> QED BY <1>a, <2>1, <2>4, <4>1 DEF ReleaseInvAt
    <3>2. CASE r = s
      <4>1. early'[r] = early[r] \ {i} /\ last_released'[r] = deadline[r][i] /\ i \in Ids
        BY <1>r, <1>t, <2>2, <3>2
      <4>2. \A j \in early[r] : deadline[r][j] >= deadline[r][i]
        BY <1>r, <1>t, <2>2, <3>2
      <4>3. \A j \in Ids : deadline[r][j] <= now[r] + Delay
        BY <1>a, <2>4 DEF ReleaseInvAt
      <4> QED BY <2>1, <4>1, <4>2, <4>3 DEF ReleaseInvAt
    <3> QED BY <3>1, <3>2
  <2> QED BY <2>1, <2>3, <2>4
<1>5. ASSUME NEW s \in Servers, AddDeadline(s)
      PROVE  LeaderInvAt(r)' /\ (resyncs' = 0 => ReleaseInvAt(r)')
  BY <1>5, <1>a DEF AddDeadline, paxosVars, clockVars, LeaderInvAt, ReleaseInvAt
<1>6. ASSUME NEW s \in Servers, WaiterNotify(s)
      PROVE  LeaderInvAt(r)' /\ (resyncs' = 0 => ReleaseInvAt(r)')
  <2>1. UNCHANGED <<role, im_leader, early, late, last_released, deadline, now, resyncs>>
    BY <1>6 DEF WaiterNotify, clockVars
  <2>2. ASSUME NEW i \in Ids, pc'[r][i] # "none" PROVE im_leader[r][i]
    <3>1. CASE pc'[r][i] = pc[r][i]
      BY <1>a, <2>2, <3>1 DEF LeaderInvAt
    <3>2. CASE r = s /\ i = waiter[s].id
      <4>1. waiter[s].id \in Held(s)
        BY <1>6 DEF WaiterNotify, Held
      <4>2. pc[r][i] = "await"
        BY <1>a, <3>2, <4>1 DEF BufferInvAt, OneHome
      <4> QED BY <1>a, <4>2 DEF LeaderInvAt
    <3>3. CASE ~(r = s /\ i = waiter[s].id)
      <4>1. pc'[r][i] = pc[r][i]
        BY <1>6, <1>r, <1>t, <3>3 DEF WaiterNotify
      <4> QED BY <3>1, <4>1
    <3> QED BY <3>2, <3>3
  <2>3. LeaderInvAt(r)'
    BY <1>a, <2>1, <2>2 DEF LeaderInvAt
  <2>4. ASSUME resyncs = 0 PROVE ReleaseInvAt(r)'
    BY <1>a, <2>1, <2>4 DEF ReleaseInvAt
  <2> QED BY <2>1, <2>3, <2>4
<1>7. ASSUME NEW s \in Servers, Propose(s)
      PROVE  LeaderInvAt(r)' /\ (resyncs' = 0 => ReleaseInvAt(r)')
  <2> DEFINE n == next_id[s]
  <2>1. /\ UNCHANGED <<role, early, late, last_released, now, resyncs>> /\ n \in Ids
        /\ deadline' = [deadline EXCEPT ![s][n] = now[s] + Delay]
        /\ im_leader' = [im_leader EXCEPT ![s][n] = (role[s] = "Leader")]
        /\ pc' = [pc EXCEPT ![s][n] = "insert"]
    BY <1>7, <1>t DEF Propose, new_deadline, clockVars, Ids
  <2>2. CASE r # s
    <3>1. deadline'[r] = deadline[r] /\ im_leader'[r] = im_leader[r] /\ pc'[r] = pc[r]
      BY <1>r, <1>t, <2>1, <2>2
    <3>2. LeaderInvAt(r)'
      BY <1>a, <2>1, <3>1 DEF LeaderInvAt
    <3>3. ASSUME resyncs = 0 PROVE ReleaseInvAt(r)'
      BY <1>a, <2>1, <3>1, <3>3 DEF ReleaseInvAt
    <3> QED BY <2>1, <3>2, <3>3
  <2>3. CASE r = s
    <3>1. /\ \A i \in Ids : deadline'[r][i] = IF i = n THEN now[r] + Delay ELSE deadline[r][i]
          /\ \A i \in Ids : pc'[r][i] = IF i = n THEN "insert" ELSE pc[r][i]
          /\ \A i \in Ids : i # n => im_leader'[r][i] = im_leader[r][i]
      BY <1>r, <1>t, <2>1, <2>3
    <3>2. im_leader'[r][n] = (role[r] = "Leader")
      BY <1>r, <1>t, <2>1, <2>3
    <3>3. LeaderInvAt(r)'
      <4>1. role[r] = "Leader"
        BY <1>a DEF LeaderInvAt
      <4> QED BY <1>a, <2>1, <3>1, <3>2, <4>1 DEF LeaderInvAt
    <3>4. n \notin early[r]
      <4>1. pc[r][n] = "none"
        BY <1>a, <1>t, <2>1, <2>3 DEF BufferInvAt, Fresh, Ids
      <4> QED BY <1>a, <2>1, <4>1 DEF BufferInvAt, OneHome
    <3>5. ASSUME resyncs = 0 PROVE ReleaseInvAt(r)'
      <4>1. \A i \in Ids : deadline'[r][i] <= now[r] + Delay
        BY <1>a, <1>r, <1>t, <3>1, <3>5 DEF ReleaseInvAt
      <4>2. \A i \in early[r] : deadline'[r][i] = deadline[r][i]
        BY <1>r, <1>t, <3>1, <3>4
      <4> QED BY <1>a, <2>1, <3>5, <4>1, <4>2 DEF ReleaseInvAt
    <3> QED BY <2>1, <3>3, <3>5
  <2> QED BY <2>2, <2>3
<1>8. ASSUME NEW s \in Servers, BecomeLeader(s)
      PROVE  LeaderInvAt(r)' /\ (resyncs' = 0 => ReleaseInvAt(r)')
  <2>1. UNCHANGED <<pc, im_leader, early, late, last_released, deadline, now, resyncs>>
    BY <1>8 DEF BecomeLeader, bufferVars, clockVars
  <2>2. role'[r] = "Leader"
    BY <1>8, <1>a, <1>r, <1>t DEF BecomeLeader, LeaderInvAt
  <2> QED BY <1>a, <2>1, <2>2 DEF LeaderInvAt, ReleaseInvAt
<1>9. ASSUME NEW s \in Servers, NEW i \in Ids, Insert(s, i)
      PROVE  LeaderInvAt(r)' /\ (resyncs' = 0 => ReleaseInvAt(r)')
  <2>1. /\ UNCHANGED <<role, im_leader, last_released, now, resyncs>> /\ pc[s][i] = "insert"
        /\ pc' = [pc EXCEPT ![s][i] = "await"]
    BY <1>9 DEF Insert, clockVars
  <2>2. CASE r # s
    <3>1. early'[r] = early[r] /\ late'[r] = late[r]
      BY <1>9, <1>r, <1>t, <2>2 DEF Insert, InsertRedeadlined
    <3>2. deadline'[r] = deadline[r]
      <4>1. UNCHANGED deadline \/ deadline' = [deadline EXCEPT ![s][i] = new_deadline(s)]
        BY <1>9 DEF Insert, InsertRedeadlined
      <4> QED BY <1>r, <1>t, <2>2, <4>1
    <3>3. pc'[r] = pc[r]
      BY <1>r, <1>t, <2>1, <2>2
    <3>4. LeaderInvAt(r)'
      BY <1>a, <2>1, <3>1, <3>3 DEF LeaderInvAt
    <3>5. ASSUME resyncs = 0 PROVE ReleaseInvAt(r)'
      BY <1>a, <2>1, <3>1, <3>2, <3>5 DEF ReleaseInvAt
    <3> QED BY <2>1, <3>4, <3>5
  <2>3. CASE r = s
    <3>1. im_leader[r][i]
      BY <1>a, <2>1, <2>3 DEF LeaderInvAt
    <3>2. \/ eligible(r, i) /\ UNCHANGED deadline
          \/ deadline' = [deadline EXCEPT ![r][i] = now[r] + Delay]
      BY <1>9, <2>3, <3>1 DEF Insert, InsertRedeadlined, new_deadline
    <3>3. early' = [early EXCEPT ![r] = @ \cup {i}] /\ UNCHANGED late
      BY <1>9, <2>3, <3>1 DEF Insert, InsertRedeadlined
    <3>4. early'[r] = early[r] \cup {i}
      BY <1>r, <1>t, <3>3
    <3>5. LeaderInvAt(r)'
      <4>1. \A j \in Ids : pc'[r][j] # "none" => pc[r][j] # "none"
        BY <1>r, <1>t, <2>1, <2>3
      <4> QED BY <1>a, <2>1, <3>3, <4>1 DEF LeaderInvAt
    <3>6. i \notin early[r]
      BY <1>a, <2>1, <2>3 DEF BufferInvAt, OneHome
    <3>7. ASSUME resyncs = 0 PROVE ReleaseInvAt(r)'
      <4>1. ReleaseInvAt(r)
        BY <1>a, <3>7
      <4>2. CASE eligible(r, i) /\ UNCHANGED deadline
        <5>1. last_released[r] # None => deadline[r][i] >= last_released[r]
          BY <1>r, <1>t, <4>2 DEF eligible
        <5> QED BY <2>1, <3>4, <4>1, <4>2, <5>1 DEF ReleaseInvAt
      <4>3. CASE deadline' = [deadline EXCEPT ![r][i] = now[r] + Delay]
        <5>1. \A j \in Ids : deadline'[r][j] = IF j = i THEN now[r] + Delay ELSE deadline[r][j]
          BY <1>r, <1>t, <4>3
        <5>2. \A j \in Ids : deadline'[r][j] <= now[r] + Delay
          <6>1. now[r] + Delay \in Nat /\ \A j \in Ids : deadline[r][j] <= now[r] + Delay
            BY <1>r, <1>t, <4>1 DEF ReleaseInvAt
          <6> QED BY <5>1, <6>1
        <5>3. \A j \in early[r] : deadline'[r][j] = deadline[r][j]
          BY <1>r, <1>t, <3>6, <5>1
        <5>4. last_released[r] # None => deadline'[r][i] >= last_released[r]
          BY <1>r, <1>t, <4>1, <5>1 DEF ReleaseInvAt
        <5> QED BY <2>1, <3>4, <4>1, <5>2, <5>3, <5>4 DEF ReleaseInvAt
      <4> QED BY <3>2, <4>2, <4>3
    <3> QED BY <2>1, <3>5, <3>7
  <2> QED BY <2>2, <2>3
<1>10. ASSUME NEW s \in Servers, NEW i \in Ids, AppendEntry(s, i) \/ PushAck(s, i)
       PROVE  LeaderInvAt(r)' /\ (resyncs' = 0 => ReleaseInvAt(r)')
  <2>1. /\ UNCHANGED <<role, im_leader, early, late, last_released, deadline, now, resyncs>>
        /\ pc[s][i] # "none"
    BY <1>10 DEF AppendEntry, PushAck, bufferVars, clockVars
  <2>2. PICK stage \in Stages : pc' = [pc EXCEPT ![s][i] = stage]
    BY <1>10 DEF AppendEntry, PushAck, Stages
  <2>3. \A j \in Ids : pc'[r][j] # "none" => pc[r][j] # "none"
    BY <1>r, <1>t, <2>1, <2>2
  <2>4. LeaderInvAt(r)'
    BY <1>a, <2>1, <2>3 DEF LeaderInvAt
  <2>5. ASSUME resyncs = 0 PROVE ReleaseInvAt(r)'
    BY <1>a, <2>1, <2>5 DEF ReleaseInvAt
  <2> QED BY <2>1, <2>4, <2>5
<1>11. ASSUME NEW m \in outgoing, HandleNewDeadline(m)
       PROVE  LeaderInvAt(r)' /\ (resyncs' = 0 => ReleaseInvAt(r)')
  <2>1. m.to \in Servers /\ m.id \in Ids
    BY DEF TypeOK, NewDeadlineMsgs
  <2>2. UNCHANGED <<role, pc, im_leader, last_released, now, resyncs>>
    BY <1>11, Zenon DEF HandleNewDeadline, paxosVars, clockVars
  <2>3. \/ /\ m.id \in late[m.to]
           /\ late' = [late EXCEPT ![m.to] = late[m.to] \ {m.id}]
           /\ early' = [early EXCEPT ![m.to] = @ \cup {m.id}]
           /\ deadline' = [deadline EXCEPT ![m.to][m.id] = m.deadline]
        \/ UNCHANGED <<late, early, deadline>>
    BY <1>11, Zenon DEF HandleNewDeadline, LateWithout
  <2>4. late[r] = {}
    BY <1>a DEF LeaderInvAt
  <2>5. early'[r] = early[r] /\ late'[r] = late[r] /\ deadline'[r] = deadline[r]
    <3>1. CASE UNCHANGED <<late, early, deadline>>
      BY <3>1
    <3>2. CASE ~UNCHANGED <<late, early, deadline>>
      <4>1. m.to # r
        BY <2>3, <2>4, <3>2
      <4> QED BY <1>r, <1>t, <2>1, <2>3, <3>2, <4>1
    <3> QED BY <3>1, <3>2
  <2>6. LeaderInvAt(r)'
    BY <1>a, <2>2, <2>5 DEF LeaderInvAt
  <2>7. ASSUME resyncs = 0 PROVE ReleaseInvAt(r)'
    BY <1>a, <2>2, <2>5, <2>7 DEF ReleaseInvAt
  <2> QED BY <2>2, <2>6, <2>7
<1> QED
  BY <1>1, <1>2, <1>3, <1>4, <1>5, <1>6, <1>7, <1>8, <1>9, <1>10, <1>11 DEF Next, Waiter, Task

\* Until a clock is set back, a leader's early buffer never holds a deadline
\* before one already released, whatever the ticks and insertions do.
THEOREM LeaderReleasesInOrder == Spec => []EarlyNotBeforeReleased
<1>1. Init => TypeOK /\ BufferInv /\ ReleaseInv
  BY InitType, InitBuffer, InitRelease
<1>2. TypeOK /\ BufferInv /\ ReleaseInv /\ [Next]_vars => (TypeOK /\ BufferInv /\ ReleaseInv)'
  BY NextType, NextBuffer, NextRelease
<1>3. ReleaseInv => EarlyNotBeforeReleased
  BY DEF ReleaseInv, ReleaseInvAt, EarlyNotBeforeReleased
<1> QED BY <1>1, <1>2, <1>3, PTL DEF Spec

-----------------------------------------------------------------------------
(***************************************************************************)
(* The log and the acknowledgements of a replica.  What an acknowledgement *)
(* says becomes true when the task appends under the storage lock and must *)
(* survive every other task that appends before the acknowledgement is     *)
(* pushed; the invariant therefore follows each task from its append on.   *)
(***************************************************************************)

\* The tasks that have appended their command.
Logged(s, i) == pc[s][i] \in {"push", "done"}

\* The log holds the commands of exactly those tasks, each once.
LogOfTasks(s) ==
  /\ \A i \in Ids : Logged(s, i) <=> \E k \in 1 .. Len(log[s]) : log[s][k] = i
  /\ \A j, k \in 1 .. Len(log[s]) : log[s][j] = log[s][k] => j = k

\* What a task has read under the lock is still true of the log.
ReplyTrue(s) ==
  \A i \in Ids : Logged(s, i) =>
    /\ reply[s][i].idx \in 1 .. Len(log[s]) /\ log[s][reply[s][i].idx] = i
    /\ Len(reply[s][i].hash) = reply[s][i].idx
    /\ \A k \in 1 .. reply[s][i].idx : reply[s][i].hash[k] = log[s][k]

\* Acknowledgements come from finished tasks, one from each.
AcksOfTasks(s) ==
  /\ \A k \in 1 .. Len(acks[s]) :
       pc[s][acks[s][k].id] = "done" /\ acks[s][k] = Ack(s, acks[s][k].id)
  /\ \A j, k \in 1 .. Len(acks[s]) : acks[s][j].id = acks[s][k].id => j = k

LogInvAt(s) == LogOfTasks(s) /\ ReplyTrue(s) /\ AcksOfTasks(s)

LogInv == \A s \in Servers : LogInvAt(s)

\* The logs are empty at the start.
LEMMA InitLog == Init => LogInv
  BY DEF Init, LogInv, LogInvAt, LogOfTasks, ReplyTrue, AcksOfTasks, Logged

\* The types of what a pushed acknowledgement carries.
LEMMA AckTypes ==
  ASSUME acks \in [Servers -> Seq(Acks)], NEW s \in Servers
  PROVE  \A k \in 1 .. Len(acks[s]) : acks[s][k].id \in Ids /\ acks[s][k].hash \in Seq(Ids)
<1>1. acks[s] \in Seq(Acks)
  OBVIOUS
<1>2. \A k \in 1 .. Len(acks[s]) : acks[s][k] \in Acks
  BY <1>1
<1>3. \A a \in Acks : a.id \in Ids /\ a.hash \in Seq(Ids)
  BY DEF Acks
<1> QED BY <1>2, <1>3

\* A step that appends nothing, acknowledges nothing and leaves the tasks that
\* have appended alone keeps the invariant.
LEMMA LogFrame ==
  ASSUME TypeOK, NEW r \in Servers, LogInvAt(r),
         log'[r] = log[r], reply'[r] = reply[r], acks'[r] = acks[r],
         \A i \in Ids : Logged(r, i) \/ Logged(r, i)' =>
                          pc'[r][i] = pc[r][i] /\ im_leader'[r][i] = im_leader[r][i]
  PROVE  LogInvAt(r)'
<1>1. \A i \in Ids : Logged(r, i)' <=> Logged(r, i)
  BY DEF Logged
<1>2. LogOfTasks(r)'
  BY <1>1 DEF LogInvAt, LogOfTasks
<1>3. ReplyTrue(r)'
  BY <1>1 DEF LogInvAt, ReplyTrue
<1>4. AcksOfTasks(r)'
  <2>1. \A k \in 1 .. Len(acks[r]) : acks[r][k].id \in Ids
    BY AckTypes DEF TypeOK
  <2>2. ASSUME NEW k \in 1 .. Len(acks[r])
        PROVE  pc'[r][acks[r][k].id] = "done" /\ acks[r][k] = Ack(r, acks[r][k].id)'
    <3>1. pc[r][acks[r][k].id] = "done" /\ acks[r][k] = Ack(r, acks[r][k].id)
      BY DEF LogInvAt, AcksOfTasks
    <3>2. /\ pc'[r][acks[r][k].id] = "done"
          /\ im_leader'[r][acks[r][k].id] = im_leader[r][acks[r][k].id]
      BY <2>1, <3>1 DEF Logged
    <3> QED BY <3>1, <3>2 DEF Ack
  <2> QED BY <2>2 DEF LogInvAt, AcksOfTasks
<1> QED BY <1>2, <1>3, <1>4 DEF LogInvAt

\* Every step keeps the logs and acknowledgements sound.
LEMMA NextLog == TypeOK /\ BufferInv /\ LogInv /\ [Next]_vars => LogInv'
<1> SUFFICES ASSUME TypeOK, BufferInv, LogInv, [Next]_vars, NEW r \in Servers
             PROVE  LogInvAt(r)'
  BY DEF LogInv
<1>a. LogInvAt(r) /\ BufferInvAt(r)
  BY DEF LogInv, BufferInv
<1>t. /\ pc \in [Servers -> [Ids -> Stages]] /\ im_leader \in [Servers -> [Ids -> BOOLEAN]]
      /\ reply \in [Servers -> [Ids -> Replies]] /\ log \in [Servers -> Seq(Ids)]
      /\ acks \in [Servers -> Seq(Acks)]
  BY DEF TypeOK
<1>1. CASE UNCHANGED vars
  BY <1>1, <1>a, LogFrame DEF vars, paxosVars
<1>2. ASSUME NEW s \in Servers, Tick(s) \/ AddDeadline(s) \/ Resync(s) \/ WaiterPop(s)
      PROVE  LogInvAt(r)'
  <2>1. UNCHANGED <<pc, im_leader, reply, log, acks>>
    BY <1>2 DEF Tick, AddDeadline, Resync, WaiterPop, paxosVars
  <2> QED BY <1>a, <2>1, LogFrame
<1>3. ASSUME NEW s \in Servers, WaiterNotify(s) PROVE LogInvAt(r)'
  <2>1. UNCHANGED <<im_leader, reply, log, acks>>
    BY <1>3 DEF WaiterNotify
  <2>2. ASSUME NEW i \in Ids, Logged(r, i) \/ Logged(r, i)' PROVE pc'[r][i] = pc[r][i]
    <3>1. CASE r = s /\ i = waiter[s].id
      <4>1. waiter[s].id \in Held(s)
        BY <1>3 DEF WaiterNotify, Held
      <4>2. pc[s][i] = "await"
        BY <1>a, <3>1, <4>1 DEF BufferInvAt, OneHome
      <4>3. pc'[s][i] \in {"append", "await"}
        BY <1>3, <1>t, <3>1, <4>2 DEF WaiterNotify
      <4> QED BY <2>2, <3>1, <4>2, <4>3 DEF Logged
    <3>2. CASE ~(r = s /\ i = waiter[s].id)
      BY <1>3, <1>t, <3>2 DEF WaiterNotify
    <3> QED BY <3>1, <3>2
  <2> QED BY <1>a, <2>1, <2>2, LogFrame
<1>4. ASSUME NEW s \in Servers, Propose(s) PROVE LogInvAt(r)'
  <2>1. UNCHANGED <<reply, log, acks>>
    BY <1>4 DEF Propose
  <2>2. ASSUME NEW i \in Ids, Logged(r, i) \/ Logged(r, i)'
        PROVE  pc'[r][i] = pc[r][i] /\ im_leader'[r][i] = im_leader[r][i]
    <3>1. CASE r = s /\ i = next_id[s]
      <4>1. pc[s][i] = "none"
        BY <1>a, <3>1, AssumptionsHold DEF BufferInvAt, Fresh, TypeOK, Assumptions, Ids
      <4>2. pc'[s][i] = "insert"
        BY <1>4, <1>t, <3>1 DEF Propose
      <4> QED BY <2>2, <3>1, <4>1, <4>2 DEF Logged
    <3>2. CASE ~(r = s /\ i = next_id[s])
      BY <1>4, <1>t, <3>2 DEF Propose
    <3> QED BY <3>1, <3>2
  <2> QED BY <1>a, <2>1, <2>2, LogFrame
<1>5. ASSUME NEW s \in Servers, BecomeLeader(s) PROVE LogInvAt(r)'
  BY <1>5, <1>a, LogFrame DEF BecomeLeader
<1>6. ASSUME NEW s \in Servers, NEW j \in Ids, Insert(s, j) PROVE LogInvAt(r)'
  <2>1. UNCHANGED <<im_leader, reply, log, acks>> /\ pc[s][j] = "insert"
        /\ pc' = [pc EXCEPT ![s][j] = "await"]
    BY <1>6 DEF Insert
  <2>2. \A i \in Ids : Logged(r, i) \/ Logged(r, i)' => pc'[r][i] = pc[r][i]
    BY <1>t, <2>1 DEF Logged
  <2> QED BY <1>a, <2>1, <2>2, LogFrame
<1>7. ASSUME NEW s \in Servers, NEW j \in Ids, AppendEntry(s, j) PROVE LogInvAt(r)'
  <2>1. /\ UNCHANGED <<im_leader, acks>> /\ pc[s][j] = "append"
        /\ pc' = [pc EXCEPT ![s][j] = "push"]
        /\ log' = [log EXCEPT ![s] = Append(log[s], j)]
        /\ reply' = [reply EXCEPT ![s][j] =
                       [idx |-> Len(Append(log[s], j)), hash |-> Append(log[s], j)]]
    BY <1>7 DEF AppendEntry, Appended
  <2>2. CASE r # s
    BY <1>a, <1>t, <2>1, <2>2, LogFrame
  <2>3. CASE r = s
    <3> DEFINE L == log[r]
               n == Len(log[r])
    <3>1. /\ \A i \in Ids : pc'[r][i] = IF i = j THEN "push" ELSE pc[r][i]
          /\ \A i \in Ids : i # j => reply'[r][i] = reply[r][i]
          /\ reply'[r][j] = [idx |-> Len(Append(L, j)), hash |-> Append(L, j)]
          /\ log'[r] = Append(L, j)
      BY <1>t, <2>1, <2>3
    <3>2. /\ L \in Seq(Ids) /\ n \in Nat /\ Len(log'[r]) = n + 1 /\ log'[r][n + 1] = j
          /\ \A k \in 1 .. n : log'[r][k] = L[k]
      BY <1>t, <3>1
    <3>3. \A k \in 1 .. n : L[k] # j
      BY <1>a, <2>1, <2>3 DEF LogInvAt, LogOfTasks, Logged
    <3>4. \A i \in Ids : Logged(r, i)' <=> i = j \/ Logged(r, i)
      BY <3>1 DEF Logged
    <3>5. LogOfTasks(r)'
      <4>1. ASSUME NEW i \in Ids
            PROVE  Logged(r, i)' <=> \E k \in 1 .. Len(log'[r]) : log'[r][k] = i
        <5>1. (\E k \in 1 .. n + 1 : log'[r][k] = i) <=> i = j \/ \E k \in 1 .. n : L[k] = i
          BY <3>2
        <5>2. Logged(r, i) <=> \E k \in 1 .. n : L[k] = i
          BY <1>a DEF LogInvAt, LogOfTasks
        <5> QED BY <3>2, <3>4, <5>1, <5>2
      <4>2. ASSUME NEW a \in 1 .. n + 1, NEW b \in 1 .. n + 1, log'[r][a] = log'[r][b]
            PROVE  a = b
        <5>1. CASE a \in 1 .. n /\ b \in 1 .. n
          BY <1>a, <3>2, <4>2, <5>1 DEF LogInvAt, LogOfTasks
        <5>2. CASE a = n + 1 \/ b = n + 1
          BY <3>2, <3>3, <4>2, <5>2
        <5> QED BY <3>2, <5>1, <5>2
      <4> QED BY <3>2, <4>1, <4>2 DEF LogOfTasks
    <3>6. ReplyTrue(r)'
      <4>1. ASSUME NEW i \in Ids, Logged(r, i)'
            PROVE  /\ reply'[r][i].idx \in 1 .. n + 1 /\ log'[r][reply'[r][i].idx] = i
                   /\ Len(reply'[r][i].hash) = reply'[r][i].idx
                   /\ \A k \in 1 .. reply'[r][i].idx : reply'[r][i].hash[k] = log'[r][k]
        <5>1. CASE i = j
          BY <3>1, <3>2, <5>1
        <5>2. CASE i # j
          <6>1. Logged(r, i) /\ reply'[r][i] = reply[r][i]
            BY <3>1, <3>4, <4>1, <5>2
          <6>2. /\ reply[r][i].idx \in 1 .. n /\ L[reply[r][i].idx] = i
                /\ Len(reply[r][i].hash) = reply[r][i].idx
                /\ \A k \in 1 .. reply[r][i].idx : reply[r][i].hash[k] = L[k]
            BY <1>a, <6>1 DEF LogInvAt, ReplyTrue
          <6> QED BY <3>2, <6>1, <6>2
        <5> QED BY <5>1, <5>2
      <4> QED BY <3>2, <4>1 DEF ReplyTrue
    <3>7. AcksOfTasks(r)'
      <4>1. ASSUME NEW k \in 1 .. Len(acks[r])
            PROVE  pc'[r][acks[r][k].id] = "done" /\ acks[r][k] = Ack(r, acks[r][k].id)'
        <5>1. pc[r][acks[r][k].id] = "done" /\ acks[r][k] = Ack(r, acks[r][k].id)
          BY <1>a DEF LogInvAt, AcksOfTasks
        <5>2. acks[r][k].id \in Ids
          BY <1>t, AckTypes
        <5>3. acks[r][k].id # j
          BY <2>1, <2>3, <5>1
        <5>4. pc'[r][acks[r][k].id] = "done" /\ reply'[r][acks[r][k].id] = reply[r][acks[r][k].id]
          BY <3>1, <5>1, <5>2, <5>3
        <5> QED BY <2>1, <5>1, <5>4 DEF Ack
      <4>2. acks'[r] = acks[r]
        BY <2>1
      <4> QED BY <1>a, <4>1, <4>2 DEF LogInvAt, AcksOfTasks
    <3> QED BY <3>5, <3>6, <3>7 DEF LogInvAt
  <2> QED BY <2>2, <2>3
<1>8. ASSUME NEW s \in Servers, NEW j \in Ids, PushAck(s, j) PROVE LogInvAt(r)'
  <2>1. /\ UNCHANGED <<im_leader, reply, log>> /\ pc[s][j] = "push"
        /\ pc' = [pc EXCEPT ![s][j] = "done"]
        /\ acks' = [acks EXCEPT ![s] = Append(acks[s], Ack(s, j))]
    BY <1>8 DEF PushAck
  <2>2. CASE r # s
    BY <1>a, <1>t, <2>1, <2>2, LogFrame
  <2>3. CASE r = s
    <3> DEFINE n == Len(acks[r])
    <3>1. \A i \in Ids : pc'[r][i] = IF i = j THEN "done" ELSE pc[r][i]
      BY <1>t, <2>1, <2>3
    <3>2. \A i \in Ids : Logged(r, i)' <=> Logged(r, i)
      BY <2>1, <2>3, <3>1 DEF Logged
    <3>3. LogOfTasks(r)'
      BY <1>a, <2>1, <3>2 DEF LogInvAt, LogOfTasks
    <3>4. ReplyTrue(r)'
      BY <1>a, <2>1, <3>2 DEF LogInvAt, ReplyTrue
    <3>5. Ack(r, j) \in Acks /\ Ack(r, j).id = j
      BY <1>t DEF Ack, Acks, Replies
    <3>6. /\ n \in Nat /\ Len(acks'[r]) = n + 1 /\ acks'[r][n + 1] = Ack(r, j)
          /\ \A k \in 1 .. n : acks'[r][k] = acks[r][k]
      BY <1>t, <2>1, <2>3, <3>5
    <3>7. \A k \in 1 .. n : acks[r][k].id \in Ids /\ acks[r][k].id # j
      <4>1. \A k \in 1 .. n : acks[r][k].id \in Ids
        BY <1>t, AckTypes
      <4>2. \A k \in 1 .. n : pc[r][acks[r][k].id] = "done"
        BY <1>a DEF LogInvAt, AcksOfTasks
      <4> QED BY <2>1, <2>3, <4>1, <4>2
    <3>8. \A i \in Ids : Ack(r, i)' = Ack(r, i)
      BY <2>1 DEF Ack
    <3>9. AcksOfTasks(r)'
      <4>1. ASSUME NEW k \in 1 .. n + 1
            PROVE  (pc[r][acks[r][k].id] = "done" /\ acks[r][k] = Ack(r, acks[r][k].id))'
        <5>1. CASE k = n + 1
          <6>1. acks'[r][k].id = j /\ acks'[r][k] = Ack(r, j)'
            BY <3>5, <3>6, <3>8, <5>1
          <6> QED BY <3>1, <6>1
        <5>2. CASE k \in 1 .. n
          <6>1. pc[r][acks[r][k].id] = "done" /\ acks[r][k] = Ack(r, acks[r][k].id)
            BY <1>a, <5>2 DEF LogInvAt, AcksOfTasks
          <6>2. acks'[r][k] = acks[r][k] /\ acks[r][k].id \in Ids
            BY <3>6, <3>7, <5>2
          <6>3. Ack(r, acks[r][k].id)' = Ack(r, acks[r][k].id)
            BY <2>1, <6>2 DEF Ack
          <6> QED BY <3>1, <3>7, <5>2, <6>1, <6>2, <6>3
        <5> QED BY <3>6, <5>1, <5>2
      <4>2. ASSUME NEW a \in 1 .. n + 1, NEW b \in 1 .. n + 1, acks'[r][a].id = acks'[r][b].id
            PROVE  a = b
        <5>1. CASE a \in 1 .. n /\ b \in 1 .. n
          BY <1>a, <3>6, <4>2, <5>1 DEF LogInvAt, AcksOfTasks
        <5>2. CASE a = n + 1 \/ b = n + 1
          BY <3>5, <3>6, <3>7, <4>2, <5>2
        <5> QED BY <3>6, <5>1, <5>2
      <4> QED BY <3>6, <4>1, <4>2 DEF AcksOfTasks
    <3> QED BY <3>3, <3>4, <3>9 DEF LogInvAt
  <2> QED BY <2>2, <2>3
<1>9. ASSUME NEW m \in outgoing, HandleNewDeadline(m) PROVE LogInvAt(r)'
  <2>1. UNCHANGED <<pc, im_leader, reply, log, acks>>
    BY <1>9, Zenon DEF HandleNewDeadline, paxosVars
  <2> QED BY <1>a, <2>1, LogFrame
<1> QED
  BY <1>1, <1>2, <1>3, <1>4, <1>5, <1>6, <1>7, <1>8, <1>9 DEF Next, Waiter, Task

\* The strengthened invariant holds in every reachable state.
LEMMA LogInvariant == Spec => [](TypeOK /\ BufferInv /\ LogInv)
<1>1. Init => TypeOK /\ BufferInv /\ LogInv
  BY InitType, InitBuffer, InitLog
<1>2. TypeOK /\ BufferInv /\ LogInv /\ [Next]_vars => (TypeOK /\ BufferInv /\ LogInv)'
  BY NextType, NextBuffer, NextLog
<1> QED BY <1>1, <1>2, PTL DEF Spec

\* Every acknowledgement ever pushed stays true of the log: command, index,
\* hash of the history up to the index, and the speculation flag.
THEOREM AcksDescribeLogs == Spec => []AckDescribesLog
<1>1. TypeOK /\ LogInv => AckDescribesLog
  <2> SUFFICES ASSUME TypeOK, LogInv, NEW s \in Servers, NEW k \in 1 .. Len(acks[s])
               PROVE  LET a == acks[s][k]
                      IN  /\ a.idx \in 1 .. Len(log[s]) /\ log[s][a.idx] = a.id
                          /\ Len(a.hash) = a.idx /\ IsPrefix(a.hash, log[s])
                          /\ a.spec = im_leader[s][a.id]
    BY DEF AckDescribesLog
  <2> DEFINE a == acks[s][k]
  <2>1. LogInvAt(s)
    BY DEF LogInv
  <2>2. a \in Acks /\ log[s] \in Seq(Ids)
    BY DEF TypeOK
  <2>3. a.id \in Ids /\ a.hash \in Seq(Ids)
    BY <2>2 DEF Acks
  <2>4. pc[s][a.id] = "done" /\ a = Ack(s, a.id)
    BY <2>1 DEF LogInvAt, AcksOfTasks
  <2>5. a.hash = reply[s][a.id].hash /\ a.idx = reply[s][a.id].idx
        /\ a.spec = im_leader[s][a.id]
    BY <2>4 DEF Ack
  <2>6. /\ a.idx \in 1 .. Len(log[s]) /\ log[s][a.idx] = a.id /\ Len(a.hash) = a.idx
        /\ \A i \in 1 .. a.idx : a.hash[i] = log[s][i]
    BY <2>1, <2>3, <2>4, <2>5 DEF LogInvAt, ReplyTrue, Logged
  <2>7. IsPrefix(a.hash, log[s])
    <3>1. Len(a.hash) <= Len(log[s]) /\ \A i \in 1 .. Len(a.hash) : a.hash[i] = log[s][i]
      BY <2>2, <2>6
    <3> QED BY <2>2, <2>3, <3>1, PrefixPointwise
  <2> QED BY <2>5, <2>6, <2>7
<1> QED BY <1>1, LogInvariant, PTL

\* No command enters a log twice and no index is acknowledged twice.
THEOREM LoggedOnce == Spec => []AppendedOnce
<1>1. TypeOK /\ LogInv => AppendedOnce
  <2> SUFFICES ASSUME TypeOK, LogInv, NEW s \in Servers
               PROVE  /\ IsInjective(log[s])
                      /\ \A j, k \in 1 .. Len(acks[s]) : acks[s][j].idx = acks[s][k].idx => j = k
    BY DEF AppendedOnce
  <2>1. LogInvAt(s)
    BY DEF LogInv
  <2>2. IsInjective(log[s])
    <3>1. DOMAIN log[s] = 1 .. Len(log[s])
      BY DEF TypeOK
    <3> QED BY <2>1, <3>1 DEF LogInvAt, LogOfTasks, IsInjective
  <2>3. ASSUME NEW j \in 1 .. Len(acks[s]), NEW k \in 1 .. Len(acks[s]),
               acks[s][j].idx = acks[s][k].idx
        PROVE  j = k
    <3>1. ASSUME NEW x \in 1 .. Len(acks[s])
          PROVE  log[s][acks[s][x].idx] = acks[s][x].id
      <4>1. acks[s][x].id \in Ids
        BY AckTypes DEF TypeOK
      <4>2. pc[s][acks[s][x].id] = "done" /\ acks[s][x] = Ack(s, acks[s][x].id)
        BY <2>1 DEF LogInvAt, AcksOfTasks
      <4>3. acks[s][x].idx = reply[s][acks[s][x].id].idx
        BY <4>2 DEF Ack
      <4> QED BY <2>1, <4>1, <4>2, <4>3 DEF LogInvAt, ReplyTrue, Logged
    <3>2. acks[s][j].id = acks[s][k].id
      BY <2>3, <3>1
    <3> QED BY <2>1, <3>2 DEF LogInvAt, AcksOfTasks
  <2> QED BY <2>2, <2>3
<1> QED BY <1>1, LogInvariant, PTL

-----------------------------------------------------------------------------
(* The replicas implement ReplicaLogs.                                      *)

\* A step that appends and pushes nothing maps to a stutter or a proposal.
LEMMA MappedFrame ==
  ASSUME TypeOK, acks' = acks, log' = log,
         \A s \in Servers, i \in Ids : (pc[s][i] # "none") <=> (pc'[s][i] # "none")
  PROVE  UNCHANGED Promise!vars
<1>1. Proposed' = Proposed
  BY DEF Proposed
<1>2. Sent' = Sent
  BY DEF Sent
<1> QED BY <1>1, <1>2 DEF Promise!vars

\* The initial state maps to the initial state of the promise.
LEMMA MappedInit == Init => Promise!Init
<1> SUFFICES ASSUME Init PROVE Promise!Init
  OBVIOUS
<1>1. Proposed = [s \in Servers |-> {}]
  BY DEF Init, Proposed
<1>2. Sent = [s \in Servers |-> {}]
  <2>1. \A s \in Servers : ToSet(acks[s]) = {}
    BY DEF Init, ToSet
  <2> QED BY <2>1 DEF Sent
<1> QED BY <1>1, <1>2 DEF Init, Promise!Init

\* Every step maps to a step of the promise or to a stutter.
LEMMA MappedNext ==
  TypeOK /\ BufferInv /\ LogInv /\ [Next]_vars => [Promise!Next]_(Promise!vars)
<1> SUFFICES ASSUME TypeOK, BufferInv, LogInv, [Next]_vars
             PROVE  [Promise!Next]_(Promise!vars)
  OBVIOUS
<1>t. /\ pc \in [Servers -> [Ids -> Stages]] /\ log \in [Servers -> Seq(Ids)]
      /\ acks \in [Servers -> Seq(Acks)] /\ next_id \in [Servers -> 0 .. MaxReq]
      /\ reply \in [Servers -> [Ids -> Replies]] /\ im_leader \in [Servers -> [Ids -> BOOLEAN]]
  BY DEF TypeOK
<1>1. CASE UNCHANGED vars
  BY <1>1, MappedFrame DEF vars, paxosVars
<1>2. ASSUME NEW s \in Servers,
             Tick(s) \/ AddDeadline(s) \/ Resync(s) \/ WaiterPop(s) \/ BecomeLeader(s)
      PROVE  UNCHANGED Promise!vars
  <2>1. UNCHANGED <<pc, log, acks>>
    BY <1>2 DEF Tick, AddDeadline, Resync, WaiterPop, BecomeLeader, paxosVars
  <2> QED BY <2>1, MappedFrame
<1>3. ASSUME NEW s \in Servers, WaiterNotify(s) PROVE UNCHANGED Promise!vars
  <2>1. UNCHANGED <<log, acks>>
    BY <1>3 DEF WaiterNotify
  <2>2. waiter[s].id \in Held(s) /\ pc[s][waiter[s].id] = "await"
    <3>1. waiter[s].id \in Held(s)
      BY <1>3 DEF WaiterNotify, Held
    <3> QED BY <3>1 DEF BufferInv, BufferInvAt, OneHome
  <2>3. pc' = pc \/ pc' = [pc EXCEPT ![s][waiter[s].id] = "append"]
    BY <1>3 DEF WaiterNotify
  <2>4. \A r \in Servers, i \in Ids : (pc[r][i] # "none") <=> (pc'[r][i] # "none")
    <3>1. CASE pc' = pc
      BY <3>1
    <3>2. CASE pc' = [pc EXCEPT ![s][waiter[s].id] = "append"]
      BY <1>t, <2>2, <3>2
    <3> QED BY <2>3, <3>1, <3>2
  <2> QED BY <2>1, <2>4, MappedFrame
<1>4. ASSUME NEW s \in Servers, Propose(s) PROVE Promise!Next
  <2> DEFINE i == next_id[s]
  <2>1. UNCHANGED <<log, acks>> /\ i \in Ids /\ pc' = [pc EXCEPT ![s][i] = "insert"]
    BY <1>4, <1>t, AssumptionsHold DEF Propose, Ids, Assumptions
  <2>2. pc[s][i] = "none"
    BY <2>1, <1>t, AssumptionsHold DEF BufferInv, BufferInvAt, Fresh, Ids, Assumptions
  <2>3. i \notin Proposed[s]
    BY <2>2 DEF Proposed
  <2>4. Proposed' = [Proposed EXCEPT ![s] = @ \cup {i}]
    BY <1>t, <2>1 DEF Proposed
  <2>5. Sent' = Sent
    BY <2>1 DEF Sent
  <2>6. Promise!Propose(s, i)
    BY <2>1, <2>3, <2>4, <2>5 DEF Promise!Propose
  <2> QED BY <2>1, <2>6 DEF Promise!Next
<1>5. ASSUME NEW s \in Servers, NEW i \in Ids, Insert(s, i) PROVE UNCHANGED Promise!vars
  <2>1. UNCHANGED <<log, acks>> /\ pc[s][i] = "insert" /\ pc' = [pc EXCEPT ![s][i] = "await"]
    BY <1>5 DEF Insert
  <2>2. \A r \in Servers, j \in Ids : (pc[r][j] # "none") <=> (pc'[r][j] # "none")
    BY <1>t, <2>1
  <2> QED BY <2>1, <2>2, MappedFrame
<1>6. ASSUME NEW s \in Servers, NEW i \in Ids, AppendEntry(s, i) PROVE Promise!Next
  <2>1. /\ acks' = acks /\ pc[s][i] = "append" /\ pc' = [pc EXCEPT ![s][i] = "push"]
        /\ log' = [log EXCEPT ![s] = Append(@, i)]
    BY <1>6, <1>t DEF AppendEntry, Appended
  <2>2. i \in Proposed[s] \ ToSet(log[s])
    <3>1. i \in Proposed[s]
      BY <2>1 DEF Proposed
    <3>2. \A k \in 1 .. Len(log[s]) : log[s][k] # i
      BY <2>1 DEF LogInv, LogInvAt, LogOfTasks, Logged
    <3>3. DOMAIN log[s] = 1 .. Len(log[s])
      BY <1>t
    <3> QED BY <3>1, <3>2, <3>3 DEF ToSet
  <2>3. Proposed' = Proposed
    <3>1. \A r \in Servers, j \in Ids : (pc[r][j] # "none") <=> (pc'[r][j] # "none")
      BY <1>t, <2>1
    <3> QED BY <3>1 DEF Proposed
  <2>4. Sent' = Sent
    BY <2>1 DEF Sent
  <2>5. Promise!Order(s, i)
    BY <2>1, <2>2, <2>3, <2>4 DEF Promise!Order, Promise!ToSet, ToSet
  <2> QED BY <2>5 DEF Promise!Next
<1>7. ASSUME NEW s \in Servers, NEW i \in Ids, PushAck(s, i) PROVE Promise!Next
  <2> DEFINE k == reply[s][i].idx
             ack == [id |-> log[s][k], hash |-> SubSeq(log[s], 1, k), idx |-> k]
  <2>1. /\ log' = log /\ pc[s][i] = "push" /\ pc' = [pc EXCEPT ![s][i] = "done"]
        /\ acks' = [acks EXCEPT ![s] = Append(acks[s], Ack(s, i))]
    BY <1>7 DEF PushAck
  <2>2. LogInvAt(s)
    BY DEF LogInv
  <2>3. /\ k \in 1 .. Len(log[s]) /\ log[s][k] = i /\ Len(reply[s][i].hash) = k
        /\ \A x \in 1 .. k : reply[s][i].hash[x] = log[s][x]
    BY <2>1, <2>2 DEF LogInvAt, ReplyTrue, Logged
  <2>4. reply[s][i].hash = SubSeq(log[s], 1, k)
    <3>1. reply[s][i].hash \in Seq(Ids) /\ log[s] \in Seq(Ids)
      BY <1>t DEF Replies
    <3> HIDE DEF k
    <3> QED BY <2>3, <3>1, SameAsPrefix
  <2>5. [id |-> Ack(s, i).id, hash |-> Ack(s, i).hash, idx |-> Ack(s, i).idx] = ack
    BY <2>3, <2>4 DEF Ack
  <2>6. \A a \in Sent[s] : a.idx # k
    <3>1. SUFFICES ASSUME NEW a \in ToSet(acks[s]) PROVE a.idx # k
      BY DEF Sent
    <3>2. PICK x \in 1 .. Len(acks[s]) : a = acks[s][x]
      BY <1>t DEF ToSet
    <3>3. a.id \in Ids
      BY <1>t, <3>2, AckTypes
    <3>4. pc[s][a.id] = "done" /\ a = Ack(s, a.id)
      BY <2>2, <3>2 DEF LogInvAt, AcksOfTasks
    <3>5. a.idx = reply[s][a.id].idx /\ log[s][a.idx] = a.id
      <4>1. a.idx = reply[s][a.id].idx
        BY <3>4 DEF Ack
      <4> QED BY <2>2, <3>3, <3>4, <4>1 DEF LogInvAt, ReplyTrue, Logged
    <3> QED BY <2>1, <2>3, <3>4, <3>5
  <2>7. Sent' = [Sent EXCEPT ![s] = @ \cup {ack}]
    <3>1. Ack(s, i) \in Acks
      BY <1>t DEF Ack, Acks, Replies
    <3>2. ToSet(Append(acks[s], Ack(s, i))) = ToSet(acks[s]) \cup {Ack(s, i)}
      <4>1. acks[s] \in Seq(Acks)
        BY <1>t
      <4>2. \A q \in Seq(Acks), x \in Acks : ToSet(Append(q, x)) = ToSet(q) \cup {x}
        <5> SUFFICES ASSUME NEW q \in Seq(Acks), NEW x \in Acks
                     PROVE  ToSet(Append(q, x)) = ToSet(q) \cup {x}
          OBVIOUS
        <5>1. /\ DOMAIN Append(q, x) = 1 .. Len(q) + 1 /\ DOMAIN q = 1 .. Len(q)
              /\ Len(q) \in Nat /\ Append(q, x)[Len(q) + 1] = x
              /\ \A y \in 1 .. Len(q) : Append(q, x)[y] = q[y]
          OBVIOUS
        <5> QED BY <5>1 DEF ToSet
      <4> QED BY <3>1, <4>1, <4>2
    <3>3. \A r \in Servers : acks'[r] = IF r = s THEN Append(acks[s], Ack(s, i)) ELSE acks[r]
      BY <1>t, <2>1
    <3>4. Sent'[s] = Sent[s] \cup {ack}
      <4>1. Sent'[s] = {[id |-> a.id, hash |-> a.hash, idx |-> a.idx] :
                          a \in ToSet(acks[s]) \cup {Ack(s, i)}}
        BY <3>2, <3>3 DEF Sent
      <4> QED BY <4>1, <2>5 DEF Sent
    <3>5. \A r \in Servers : r # s => Sent'[r] = Sent[r]
      BY <3>3 DEF Sent
    <3> QED BY <3>4, <3>5 DEF Sent
  <2>8. Proposed' = Proposed
    <3>1. \A r \in Servers, j \in Ids : (pc[r][j] # "none") <=> (pc'[r][j] # "none")
      BY <1>t, <2>1
    <3> QED BY <3>1 DEF Proposed
  <2>9. Promise!Acknowledge(s, k)
    BY <2>1, <2>6, <2>7, <2>8 DEF Promise!Acknowledge
  <2> QED BY <2>3, <2>9 DEF Promise!Next
<1>8. ASSUME NEW m \in outgoing, HandleNewDeadline(m) PROVE UNCHANGED Promise!vars
  <2>1. UNCHANGED <<pc, log, acks>>
    BY <1>8, Zenon DEF HandleNewDeadline, paxosVars
  <2> QED BY <2>1, MappedFrame
<1> QED
  BY <1>1, <1>2, <1>3, <1>4, <1>5, <1>6, <1>7, <1>8 DEF Next, Waiter, Task

\* The replicas with their clocks, buffers, waiters and tasks implement the
\* promise of ReplicaLogs, for any number of servers and commands.
THEOREM ReplicasKeepPromise == Spec => ImplementsReplicaLogs
  BY MappedInit, MappedNext, LogInvariant, PTL DEF Spec, ImplementsReplicaLogs, Promise!Spec

=============================================================================
