-------------------------- MODULE ExecutionProofs --------------------------
(***************************************************************************)
(* A server applies every decided entry, for any number of commands.  The  *)
(* argument follows the decided index through the two locks of             *)
(* handle_decided_entries: the suffix is read up to the index of the       *)
(* second lock, current_decided_idx becomes the one of the first, and as   *)
(* long as the index only grows within the log the second is the larger.   *)
(***************************************************************************)
EXTENDS Execution, WellFoundedInduction, TLAPS

\* Every set of naturals that is not empty has a least element.
LEMMA LeastNatural ==
  ASSUME NEW T \in SUBSET Nat, T # {}
  PROVE  \E n \in T : \A m \in T : n <= m
<1> DEFINE R == OpToRel(<, Nat)
<1>1. IsWellFoundedOn(R, Nat)
  BY NatLessThanWellFounded
<1>2. R = {p \in Nat \X Nat : p[1] < p[2]}
  BY DEF OpToRel
<1> HIDE DEF R
<1>3. PICK n \in T : \A m \in T : ~(<<m, n>> \in R)
  BY <1>1, WFMin
<1>4. ASSUME NEW m \in T PROVE n <= m
  <2>1. n \in Nat /\ m \in Nat /\ ~(<<m, n>> \in R)
    BY <1>3
  <2> QED
    BY <1>2, <2>1
<1> QED
  BY <1>4

\* The types of what the decided index is compared with.
IndexTypes ==
  /\ log \in Seq(Cmds) /\ applied \in Seq(Nat) /\ tasks \subseteq Cmds
  /\ decided_idx \in Nat /\ current_decided_idx \in Nat
  /\ new_decided_idx \in Nat

\* The indices are ordered: applied, read under the first lock, decided, end
\* of the log.
IndicesOrdered ==
  /\ current_decided_idx <= decided_idx /\ decided_idx <= Len(log)
  /\ new_decided_idx # 0 =>
       current_decided_idx < new_decided_idx /\ new_decided_idx <= decided_idx

\* Every position up to current_decided_idx has been applied.
AllApplied ==
  \A p \in 1 .. current_decided_idx :
    \E k \in 1 .. Len(applied) : applied[k] = p

ApplyInv ==
  /\ IndexTypes
  /\ ~disorder => IndicesOrdered /\ AllApplied /\ ~panicked

\* The server starts with an empty log and nothing decided.
LEMMA InitApply == Init => ApplyInv
  BY DEF Init, ApplyInv, IndexTypes, IndicesOrdered, AllApplied, Cmds

\* A step that leaves the main loop and the decided index alone and at most
\* lets the log grow keeps the invariant.
LEMMA ApplyFrame ==
  ASSUME ApplyInv, UNCHANGED loopVars, decided_idx' = decided_idx,
         disorder' = disorder, log' \in Seq(Cmds), Len(log') >= Len(log),
         tasks' \subseteq Cmds
  PROVE  ApplyInv'
<1>1. /\ current_decided_idx' = current_decided_idx /\ applied' = applied
      /\ new_decided_idx' = new_decided_idx /\ panicked' = panicked
  BY DEF loopVars
<1>2. IndexTypes'
  BY <1>1 DEF ApplyInv, IndexTypes
<1>3. ASSUME ~disorder PROVE IndicesOrdered' /\ AllApplied' /\ ~panicked'
  <2>1. IndicesOrdered /\ AllApplied /\ ~panicked
    BY <1>3 DEF ApplyInv
  <2>2. IndicesOrdered'
    BY <1>1, <2>1 DEF ApplyInv, IndexTypes, IndicesOrdered
  <2>3. AllApplied'
    BY <1>1, <2>1 DEF AllApplied
  <2> QED BY <1>1, <2>1, <2>2, <2>3
<1> QED BY <1>2, <1>3 DEF ApplyInv

\* The positions that the second lock reads follow the applied ones up to the
\* decided index.
LEMMA NewPositionsRange ==
  ASSUME IndexTypes, current_decided_idx < decided_idx
  PROVE  /\ NewPositions \in Seq(Nat)
         /\ Len(NewPositions) = decided_idx - current_decided_idx
         /\ \A i \in 1 .. (decided_idx - current_decided_idx) :
              NewPositions[i] = current_decided_idx + i
<1> DEFINE n == decided_idx - current_decided_idx
<1>1. n \in Nat
  BY DEF IndexTypes
<1>2. NewPositions = [i \in 1 .. n |-> current_decided_idx + i]
  BY DEF NewPositions
<1>3. \A i \in 1 .. n : current_decided_idx + i \in Nat
  BY <1>1 DEF IndexTypes
<1> HIDE DEF n
<1>4. NewPositions \in Seq(Nat) /\ Len(NewPositions) = n
  BY <1>1, <1>2, <1>3
<1>5. \A i \in 1 .. n : NewPositions[i] = current_decided_idx + i
  BY <1>2
<1> QED BY <1>4, <1>5 DEF n

\* Where the elements of a concatenation come from.
LEMMA ConcatParts ==
  ASSUME NEW s \in Seq(Nat), NEW t \in Seq(Nat)
  PROVE  /\ Len(s \o t) = Len(s) + Len(t)
         /\ \A j \in 1 .. Len(s) : (s \o t)[j] = s[j]
         /\ \A j \in 1 .. Len(t) : (s \o t)[Len(s) + j] = t[j]
  OBVIOUS

\* Every step of the server keeps the invariant.
LEMMA NextApply == ApplyInv /\ [Next]_vars => ApplyInv'
<1> SUFFICES ASSUME ApplyInv, [Next]_vars PROVE ApplyInv'
  OBVIOUS
<1>0. log \in Seq(Cmds) /\ tasks \subseteq Cmds /\ Len(log) \in Nat
  BY DEF ApplyInv, IndexTypes
<1>1. ASSUME NEW c \in Cmds, Propose(c) PROVE ApplyInv'
  BY <1>0, <1>1, ApplyFrame DEF Propose
<1>2. ASSUME NEW c \in Cmds, AppendEntry(c) PROVE ApplyInv'
  <2>1. log' \in Seq(Cmds) /\ Len(log') = Len(log) + 1
    BY <1>0, <1>2 DEF AppendEntry
  <2>2. UNCHANGED <<loopVars, decided_idx, disorder, tasks>>
    BY <1>2 DEF AppendEntry
  <2> QED BY <1>0, <2>1, <2>2, ApplyFrame
<1>3. ASSUME NEW c \in Cmds, Confirm(c) PROVE ApplyInv'
  BY <1>0, <1>3, ApplyFrame DEF Confirm
\* A task sets the decided index; unless it goes back or beyond the log, the
\* order of the indices is kept.
<1>4. ASSUME NEW idx \in Cmds, SetDecidedIdx(idx) PROVE ApplyInv'
  <2> USE <1>4
  <2> USE DEF SetDecidedIdx, loopVars
  <2>1. idx \in Nat
    BY ExecutionAssumption DEF Cmds
  <2>2. IndexTypes'
    BY <2>1 DEF ApplyInv, IndexTypes
  <2>3. ASSUME ~disorder' PROVE IndicesOrdered' /\ AllApplied' /\ ~panicked'
    <3>0. ~(disorder \/ idx < decided_idx \/ idx > Len(log))
      BY <2>3, Zenon
    <3>1. ~disorder /\ idx >= decided_idx /\ idx <= Len(log)
      <4>1. Len(log) \in Nat /\ decided_idx \in Nat
        BY DEF ApplyInv, IndexTypes
      <4>2. ~disorder /\ ~(idx < decided_idx) /\ ~(idx > Len(log))
        BY <3>0, Zenon
      <4>3. idx >= decided_idx /\ idx <= Len(log)
        BY <2>1, <4>1, <4>2, SMT
      <4> QED BY <4>2, <4>3
    <3>2. IndicesOrdered /\ AllApplied /\ ~panicked
      BY <3>1 DEF ApplyInv
    <3>3. IndicesOrdered'
      BY <2>1, <3>1, <3>2 DEF ApplyInv, IndexTypes, IndicesOrdered
    <3>4. AllApplied'
      BY <3>2 DEF AllApplied
    <3> QED BY <3>2, <3>3, <3>4
  <2> QED BY <2>2, <2>3 DEF ApplyInv
\* The first lock.
<1>5. ASSUME ReadDecidedIdx PROVE ApplyInv'
  <2> USE <1>5
  <2> USE DEF ReadDecidedIdx
  <2>1. IndexTypes'
    BY DEF ApplyInv, IndexTypes
  <2>2. ASSUME ~disorder PROVE IndicesOrdered' /\ AllApplied' /\ ~panicked'
    BY <2>2 DEF ApplyInv, IndexTypes, IndicesOrdered, AllApplied, HasNewDecided
  <2> QED BY <2>1, <2>2 DEF ApplyInv
\* The second lock: with ordered indices the suffix is there, and the positions
\* up to the index of the first lock are applied.
<1>6. ASSUME ApplyDecided PROVE ApplyInv'
  <2> USE <1>6
  <2>1. CASE ~DecidedSuffixIsSome
    <3>1. IndexTypes'
      BY <2>1 DEF ApplyInv, IndexTypes, ApplyDecided
    <3>2. disorder /\ disorder' = disorder
      BY <2>1 DEF ApplyInv, IndexTypes, IndicesOrdered, ApplyDecided,
                  DecidedSuffixIsSome
    <3> QED BY <3>1, <3>2 DEF ApplyInv
  <2>2. CASE DecidedSuffixIsSome
    <3> DEFINE n == decided_idx - current_decided_idx
    <3>1. /\ applied' = applied \o NewPositions
          /\ current_decided_idx' = new_decided_idx /\ new_decided_idx' = 0
          /\ UNCHANGED <<log, tasks, decided_idx, disorder, panicked>>
      BY <2>2 DEF ApplyDecided
    <3>2. /\ NewPositions \in Seq(Nat) /\ Len(NewPositions) = n
          /\ \A i \in 1 .. n : NewPositions[i] = current_decided_idx + i
      BY <2>2, NewPositionsRange DEF ApplyInv, DecidedSuffixIsSome
    <3>3. IndexTypes'
      BY <3>1, <3>2 DEF ApplyInv, IndexTypes
    <3>4. ASSUME ~disorder' PROVE IndicesOrdered' /\ AllApplied' /\ ~panicked'
      <4>1. IndicesOrdered /\ AllApplied /\ ~panicked
        BY <3>1, <3>4 DEF ApplyInv
      <4>2. new_decided_idx # 0
        BY DEF ApplyDecided
      <4>3. IndicesOrdered'
        BY <3>1, <4>1, <4>2 DEF ApplyInv, IndexTypes, IndicesOrdered
      <4>4. ASSUME NEW p \in 1 .. new_decided_idx
            PROVE  \E k \in 1 .. Len(applied') : applied'[k] = p
        <5> USE DEF ApplyInv, IndexTypes, IndicesOrdered
        <5>0. applied \in Seq(Nat)
          OBVIOUS
        <5>1. /\ Len(applied') = Len(applied) + n
              /\ \A j \in 1 .. Len(applied) : applied'[j] = applied[j]
              /\ \A j \in 1 .. n : applied'[Len(applied) + j] = NewPositions[j]
          BY <3>1, <3>2, <5>0, ConcatParts
        <5>2. CASE p <= current_decided_idx
          <6>1. PICK k \in 1 .. Len(applied) : applied[k] = p
            BY <4>1, <5>2 DEF AllApplied
          <6>2. applied'[k] = p /\ k \in 1 .. Len(applied')
            BY <3>2, <5>0, <5>1, <6>1
          <6> QED BY <6>2
        <5>3. CASE p > current_decided_idx
          <6> DEFINE i == p - current_decided_idx
                     k == Len(applied) + i
          <6>1. i \in 1 .. n
            BY <4>1, <4>2, <5>3
          <6>2. k \in 1 .. Len(applied') /\ applied'[k] = NewPositions[i]
            BY <3>2, <5>0, <5>1, <6>1
          <6>3. NewPositions[i] = p
            BY <3>2, <6>1
          <6> QED BY <6>2, <6>3
        <5> QED BY <5>2, <5>3
      <4>5. AllApplied'
        BY <3>1, <4>4 DEF AllApplied
      <4> QED BY <3>1, <4>1, <4>3, <4>5
    <3> QED BY <3>3, <3>4 DEF ApplyInv
  <2> QED BY <2>1, <2>2
<1>7. CASE UNCHANGED vars
  BY <1>0, <1>7, ApplyFrame DEF vars, loopVars
<1> QED BY <1>1, <1>2, <1>3, <1>4, <1>5, <1>6, <1>7 DEF Next

\* NoDecidedSkipped, for any number of commands: the unwrap of
\* handle_decided_entries does not fail and every entry up to
\* current_decided_idx has been executed and answered, unless a confirmation
\* has set the decided index back or beyond the log.
THEOREM DecidedApplied == Spec => []NoDecidedSkipped
<1>1. ASSUME ApplyInv PROVE NoDecidedSkipped
  <2>1. DOMAIN applied = 1 .. Len(applied)
    BY <1>1 DEF ApplyInv, IndexTypes
  <2>2. ASSUME AllApplied, NEW p \in 1 .. current_decided_idx
        PROVE  p \in Range(applied)
    BY <2>1, <2>2, Zenon DEF AllApplied, Range
  <2> QED BY <1>1, <2>2, Zenon DEF ApplyInv, NoDecidedSkipped
<1> QED BY <1>1, InitApply, NextApply, PTL DEF Spec


-----------------------------------------------------------------------------
\* What a list of commands leaves in the database.

Databases == [Keys -> Values \cup {None}]

Writes(c, k) == kv_cmd[c].op # "Get" /\ kv_cmd[c].key = k

\* One command: the key it writes gets its value (None for a Delete), the
\* others keep theirs.
LEMMA CommandWrites ==
  ASSUME kv_cmd \in [Cmds -> KVCommands], NEW c \in Cmds, NEW d \in Databases
  PROVE  /\ handle_command(d, c) \in Databases
         /\ \A k \in Keys : /\ Writes(c, k) => handle_command(d, c)[k] = kv_cmd[c].value
                            /\ ~Writes(c, k) => handle_command(d, c)[k] = d[k]
<1> DEFINE v == kv_cmd[c]
<1>1. \/ v.op = "Put" /\ v.key \in Keys /\ v.value \in Values
      \/ v.op = "Delete" /\ v.key \in Keys /\ v.value = None
      \/ v.op = "Get"
  <2>1. v \in KVCommands
    OBVIOUS
  <2> HIDE DEF v
  <2> QED
    BY <2>1 DEF KVCommands
<1>2. /\ v.op = "Put" => handle_command(d, c) = [d EXCEPT ![v.key] = v.value]
      /\ v.op = "Delete" => handle_command(d, c) = [d EXCEPT ![v.key] = None]
      /\ v.op = "Get" => handle_command(d, c) = d
  BY DEF handle_command
<1>3. \A k : Writes(c, k) <=> v.op # "Get" /\ v.key = k
  BY DEF Writes
<1> HIDE DEF v
<1>4. CASE v.op = "Put"
  BY <1>1, <1>2, <1>3, <1>4 DEF Databases, v
<1>5. CASE v.op = "Delete"
  BY <1>1, <1>2, <1>3, <1>5 DEF Databases, v
<1>6. CASE v.op = "Get"
  BY <1>2, <1>3, <1>6
<1> QED
  BY <1>1, <1>4, <1>5, <1>6

\* f[n] is the database after the first n commands.
Runs(d, cmds, f) ==
  f = [n \in 0 .. Len(cmds) |->
         IF n = 0 THEN d ELSE handle_command(f[n - 1], cmds[n])]

\* A list of commands can be executed to its end, and ExecuteAll does it.
LEMMA Executed ==
  ASSUME kv_cmd \in [Cmds -> KVCommands], NEW d \in Databases, NEW cmds \in Seq(Cmds)
  PROVE  \E f : /\ f[0] = d
                /\ \A n \in 1 .. Len(cmds) : f[n] = handle_command(f[n - 1], cmds[n])
                /\ \A n \in 0 .. Len(cmds) : f[n] \in Databases
                /\ f[Len(cmds)] = ExecuteAll(d, cmds)
<1>0. Len(cmds) \in Nat /\ \A n \in 1 .. Len(cmds) : cmds[n] \in Cmds
  OBVIOUS
<1> DEFINE Upto(m, f) == f = [n \in 0 .. m |->
                                IF n = 0 THEN d ELSE handle_command(f[n - 1], cmds[n])]
           Bad == {m \in Nat : ~\E f : Upto(m, f)}
<1>1. \E f : Upto(0, f)
  <2> DEFINE f == [n \in 0 .. 0 |-> d]
  <2>1. Upto(0, f)
    OBVIOUS
  <2> QED
    BY <2>1
<1>2. ASSUME NEW m \in Nat, \E f : Upto(m, f) PROVE \E f : Upto(m + 1, f)
  <2> PICK f : Upto(m, f)
    BY <1>2
  <2> DEFINE g == [n \in 0 .. m + 1 |-> IF n <= m THEN f[n] ELSE handle_command(f[m], cmds[n])]
  <2>1. ASSUME NEW n \in 0 .. m + 1
        PROVE  g[n] = IF n = 0 THEN d ELSE handle_command(g[n - 1], cmds[n])
    <3>1. CASE n = m + 1
      BY <3>1
    <3>2. CASE n \in 0 .. m
      <4>1. g[n] = f[n] /\ f[n] = IF n = 0 THEN d ELSE handle_command(f[n - 1], cmds[n])
        BY <3>2
      <4>2. n # 0 => g[n - 1] = f[n - 1]
        BY <3>2
      <4> QED
        BY <4>1, <4>2
    <3> QED
      BY <3>1, <3>2
  <2>2. g = [n \in 0 .. m + 1 |-> g[n]]
    OBVIOUS
  <2>3. Upto(m + 1, g)
    <3> HIDE DEF g
    <3> QED
      BY <2>1, <2>2, Zenon
  <2> QED
    BY <2>3
<1> HIDE DEF Upto
<1>3. Bad = {}
  <2> SUFFICES ASSUME Bad # {} PROVE FALSE
    OBVIOUS
  <2>1. PICK n \in Bad : \A m \in Bad : n <= m
    BY LeastNatural
  <2>2. n # 0 /\ n \in Nat
    BY <1>1
  <2>3. n - 1 \in Nat /\ n - 1 \notin Bad
    BY <2>1, <2>2
  <2> QED
    BY <1>2, <2>1, <2>2, <2>3
<1>4. \E f : Runs(d, cmds, f)
  BY <1>0, <1>3 DEF Runs, Upto
<1> DEFINE f == CHOOSE f : Runs(d, cmds, f)
<1>5. Runs(d, cmds, f)
  BY <1>4
<1>6. f[Len(cmds)] = ExecuteAll(d, cmds)
  BY DEF ExecuteAll, Runs
<1> HIDE DEF f
<1>7. /\ f[0] = d
      /\ \A n \in 1 .. Len(cmds) : f[n] = handle_command(f[n - 1], cmds[n])
  <2>1. \A n \in 0 .. Len(cmds) : f[n] = IF n = 0 THEN d ELSE handle_command(f[n - 1], cmds[n])
    BY <1>5, Zenon DEF Runs
  <2> QED
    BY <1>0, <2>1
<1> DEFINE Untyped == {n \in 0 .. Len(cmds) : f[n] \notin Databases}
<1>8. Untyped = {}
  <2> SUFFICES ASSUME Untyped # {} PROVE FALSE
    OBVIOUS
  <2>0. Untyped \in SUBSET Nat
    BY <1>0
  <2>1. PICK n \in Untyped : \A m \in Untyped : n <= m
    BY <2>0, LeastNatural
  <2>2. n \in 1 .. Len(cmds) /\ n - 1 \in 0 .. Len(cmds)
    BY <1>0, <1>7
  <2>3. f[n - 1] \in Databases
    BY <2>1, <2>2
  <2>4. f[n] \in Databases
    BY <1>0, <1>7, <2>2, <2>3, CommandWrites
  <2> QED
    BY <2>4
<1> QED
  BY <1>6, <1>7, <1>8

\* Contents[n]: the database after the commands 1 .. n, in order and each once.
Contents ==
  CHOOSE f : /\ f[0] = EmptyDatabase
             /\ \A n \in 1 .. NumCmds : f[n] = handle_command(f[n - 1], n)
             /\ \A n \in 0 .. NumCmds : f[n] \in Databases

\* What Contents is made of.
LEMMA ContentsStep ==
  ASSUME kv_cmd \in [Cmds -> KVCommands]
  PROVE  /\ Contents[0] = EmptyDatabase
         /\ \A n \in 1 .. NumCmds : Contents[n] = handle_command(Contents[n - 1], n)
         /\ \A n \in 0 .. NumCmds : Contents[n] \in Databases
<1> DEFINE cmds == [i \in 1 .. NumCmds |-> i]
<1>1. cmds \in Seq(Cmds) /\ Len(cmds) = NumCmds /\ \A n \in 1 .. NumCmds : cmds[n] = n
  BY ExecutionAssumption DEF Cmds
<1>2. EmptyDatabase \in Databases
  BY DEF EmptyDatabase, Databases
<1> HIDE DEF cmds
<1>3. PICK f : /\ f[0] = EmptyDatabase
               /\ \A n \in 1 .. Len(cmds) : f[n] = handle_command(f[n - 1], cmds[n])
               /\ \A n \in 0 .. Len(cmds) : f[n] \in Databases
  BY <1>1, <1>2, Executed
<1>4. /\ f[0] = EmptyDatabase
      /\ \A n \in 1 .. NumCmds : f[n] = handle_command(f[n - 1], n)
      /\ \A n \in 0 .. NumCmds : f[n] \in Databases
  BY <1>1, <1>3
<1> QED
  BY <1>4, Zenon DEF Contents

\* A key that no command from a + 1 to b writes keeps its value.
LEMMA NotWritten ==
  ASSUME kv_cmd \in [Cmds -> KVCommands], NEW k \in Keys,
         NEW a \in 0 .. NumCmds, NEW b \in a .. NumCmds,
         \A p \in a + 1 .. b : ~Writes(p, k)
  PROVE  Contents[b][k] = Contents[a][k]
<1> DEFINE Bad == {n \in a .. b : Contents[n][k] # Contents[a][k]}
<1>0. NumCmds \in Nat /\ a \in Nat /\ b \in Nat /\ b <= NumCmds /\ a <= b
  BY ExecutionAssumption
<1>1. Bad = {}
  <2> SUFFICES ASSUME Bad # {} PROVE FALSE
    OBVIOUS
  <2>0. Bad \in SUBSET Nat
    BY <1>0
  <2>1. PICK n \in Bad : \A m \in Bad : n <= m
    BY <2>0, LeastNatural
  <2>2. n \in a .. b /\ n # a /\ Contents[n][k] # Contents[a][k]
    OBVIOUS
  <2>3. n - 1 \in a .. b /\ n - 1 \notin Bad /\ n \in a + 1 .. b /\ n \in 1 .. NumCmds
        /\ n - 1 \in 0 .. NumCmds
    BY <1>0, <2>1, <2>2
  <2>4. Contents[n - 1][k] = Contents[a][k]
    BY <2>3
  <2>5. /\ Contents[n] = handle_command(Contents[n - 1], n) /\ Contents[n - 1] \in Databases
    BY <2>3, ContentsStep
  <2>6. n \in Cmds /\ ~Writes(n, k)
    BY <2>3 DEF Cmds
  <2>7. Contents[n][k] = Contents[n - 1][k]
    BY <2>5, <2>6, CommandWrites
  <2> QED
    BY <2>2, <2>4, <2>7
<1> QED
  BY <1>0, <1>1

\* Commands a + 1 to b, executed in order on any database: a key has the value
\* that it has after the commands 1 .. b, or none of them writes it.
LEMMA SuffixWrites ==
  ASSUME kv_cmd \in [Cmds -> KVCommands], NEW d \in Databases,
         NEW a \in 0 .. NumCmds, NEW b \in a .. NumCmds,
         NEW cmds \in Seq(Cmds), Len(cmds) = b - a, \A i \in 1 .. b - a : cmds[i] = a + i,
         NEW k \in Keys
  PROVE  /\ ExecuteAll(d, cmds) \in Databases
         /\ \/ ExecuteAll(d, cmds)[k] = Contents[b][k]
            \/ ExecuteAll(d, cmds)[k] = d[k] /\ \A p \in a + 1 .. b : ~Writes(p, k)
<1>0. NumCmds \in Nat /\ a \in Nat /\ b \in Nat /\ b <= NumCmds /\ a <= b /\ b - a \in Nat
  BY ExecutionAssumption
<1>1. PICK f : /\ f[0] = d
               /\ \A n \in 1 .. Len(cmds) : f[n] = handle_command(f[n - 1], cmds[n])
               /\ \A n \in 0 .. Len(cmds) : f[n] \in Databases
               /\ f[Len(cmds)] = ExecuteAll(d, cmds)
  BY Executed
<1>2. /\ f[0] = d /\ f[b - a] = ExecuteAll(d, cmds)
      /\ \A n \in 1 .. b - a : f[n] = handle_command(f[n - 1], a + n)
      /\ \A n \in 0 .. b - a : f[n] \in Databases
  BY <1>1
<1> DEFINE Good(n) == \/ f[n][k] = Contents[a + n][k]
                      \/ f[n][k] = d[k] /\ \A p \in a + 1 .. a + n : ~Writes(p, k)
           Bad == {n \in 0 .. b - a : ~Good(n)}
<1>3. Good(0)
  BY <1>0, <1>2
<1>4. ASSUME NEW n \in 1 .. b - a, Good(n - 1) PROVE Good(n)
  <2>1. /\ a + n \in Cmds /\ a + n \in 1 .. NumCmds /\ n - 1 \in 0 .. b - a
        /\ (a + n) - 1 = a + (n - 1) /\ a + (n - 1) \in 0 .. NumCmds
    BY <1>0 DEF Cmds
  <2>2. /\ f[n] = handle_command(f[n - 1], a + n) /\ f[n - 1] \in Databases
    BY <1>2, <2>1
  <2>3. /\ Contents[a + n] = handle_command(Contents[a + (n - 1)], a + n)
        /\ Contents[a + (n - 1)] \in Databases
    BY <2>1, ContentsStep
  <2>4. CASE Writes(a + n, k)
    BY <2>1, <2>2, <2>3, <2>4, CommandWrites
  <2>5. CASE ~Writes(a + n, k)
    <3>1. f[n][k] = f[n - 1][k] /\ Contents[a + n][k] = Contents[a + (n - 1)][k]
      BY <2>1, <2>2, <2>3, <2>5, CommandWrites
    <3>2. \A p \in a + 1 .. a + n : p \in a + 1 .. a + (n - 1) \/ p = a + n
      BY <1>0
    <3> QED
      BY <1>4, <2>5, <3>1, <3>2
  <2> QED
    BY <2>4, <2>5
<1> HIDE DEF Good
<1>5. Bad = {}
  <2> SUFFICES ASSUME Bad # {} PROVE FALSE
    OBVIOUS
  <2>0. Bad \in SUBSET Nat
    BY <1>0
  <2>1. PICK n \in Bad : \A m \in Bad : n <= m
    BY <2>0, LeastNatural
  <2>2. n \in 1 .. b - a /\ ~Good(n) /\ n - 1 \in 0 .. b - a /\ n - 1 \notin Bad
    BY <1>0, <1>3, <2>1
  <2> QED
    BY <1>4, <2>2
<1>6. Good(b - a) /\ a + (b - a) = b /\ b - a \in 0 .. b - a
  BY <1>0, <1>5
<1> QED
  BY <1>2, <1>6 DEF Good

-----------------------------------------------------------------------------
\* The invariant behind DatabaseConverges.

\* The last position that was executed from the decided log.
LastApplied == IF applied = <<>> THEN 0 ELSE applied[Len(applied)]

\* A command that was executed ahead of its turn will have its turn yet, or
\* its task will set the decided index back.
Dirty(k) ==
  \E c \in Cmds :
    /\ Writes(c, k)
    /\ \/ role = "Leader" /\ c \in proposed /\ c > LastApplied
       \/ role = "Follower" /\ c \in confirmed /\ (c > LastApplied \/ c \in tasks)

CommandTypes ==
  /\ role \in {"Leader", "Follower"} /\ kv_cmd \in [Cmds -> KVCommands]
  /\ db \in Databases
  /\ tasks \subseteq confirmed
  /\ \A i \in 1 .. Len(log) : log[i] \in proposed
  /\ decided_idx # 0 => decided_idx \in confirmed \ tasks

\* Apart from such commands the database is that of the commands up to the
\* last position executed.
Settled ==
  /\ LastApplied \in Nat
  /\ current_decided_idx <= LastApplied /\ LastApplied <= decided_idx
  /\ \A k \in Keys : Dirty(k) \/ db[k] = Contents[LastApplied][k]

ConvergeInv == CommandTypes /\ (~disorder /\ InOrder => Settled)

\* A log in the confirmed order is as long as its last command's number.
LEMMA OrderedLog ==
  ASSUME log \in Seq(Cmds), InOrder
  PROVE  /\ Len(log) <= NumCmds
         /\ \A i \in 1 .. Len(log) : log[i] = i
<1>1. DOMAIN log = 1 .. Len(log) /\ Len(log) \in Nat /\ NumCmds \in Nat
  BY ExecutionAssumption
<1>2. \A i \in 1 .. Len(log) : log[i] = i
  BY <1>1 DEF InOrder
<1>3. Len(log) # 0 => log[Len(log)] \in Cmds
  BY <1>1
<1> QED
  BY <1>1, <1>2, <1>3 DEF Cmds

\* Every step keeps the invariant.
LEMMA NextConverge == ApplyInv /\ ConvergeInv /\ [Next]_vars => ConvergeInv'
<1> SUFFICES ASSUME ApplyInv, ConvergeInv, [Next]_vars PROVE ConvergeInv'
  OBVIOUS
<1>0. /\ log \in Seq(Cmds) /\ applied \in Seq(Nat) /\ tasks \subseteq Cmds
      /\ decided_idx \in Nat /\ current_decided_idx \in Nat /\ new_decided_idx \in Nat
      /\ Len(log) \in Nat /\ Cmds \subseteq Nat /\ NumCmds \in Nat
  BY ExecutionAssumption DEF ApplyInv, IndexTypes, Cmds
<1>1. /\ role \in {"Leader", "Follower"} /\ kv_cmd \in [Cmds -> KVCommands]
      /\ db \in Databases /\ tasks \subseteq confirmed
      /\ \A i \in 1 .. Len(log) : log[i] \in proposed
      /\ decided_idx # 0 => decided_idx \in confirmed \ tasks
  BY DEF ConvergeInv, CommandTypes
<1>2. kv_cmd' = kv_cmd /\ role' = role
  BY DEF Next, Propose, AppendEntry, Confirm, SetDecidedIdx, ReadDecidedIdx, ApplyDecided, vars
<1>3. Contents' = Contents /\ \A c, k : Writes(c, k)' <=> Writes(c, k)
  BY <1>2 DEF Contents, Writes, handle_command, EmptyDatabase, Databases
<1>4. ASSUME UNCHANGED applied PROVE LastApplied' = LastApplied
  BY <1>4 DEF LastApplied
<1>5. ASSUME NEW c \in Cmds, Propose(c) PROVE ConvergeInv'
  <2>1. /\ c \notin proposed /\ proposed' = proposed \cup {c}
        /\ db' = IF role = "Leader" THEN handle_command(db, c) ELSE db
        /\ UNCHANGED <<log, decided_idx, confirmed, tasks, current_decided_idx, applied, disorder>>
    BY <1>5 DEF Propose, loopVars
  <2>2. CommandTypes'
    BY <1>1, <1>2, <1>5, <2>1, CommandWrites DEF CommandTypes
  <2>3. ASSUME ~disorder', InOrder' PROVE Settled'
    <3>1. ~disorder /\ InOrder
      BY <2>1, <2>3 DEF InOrder
    <3>2. Settled /\ IndicesOrdered
      BY <3>1 DEF ConvergeInv, ApplyInv
    <3>3. LastApplied' = LastApplied
      BY <1>4, <2>1
    <3>4. c > LastApplied
      <4>1. \A i \in 1 .. Len(log) : log[i] = i
        BY <1>0, <3>1, OrderedLog
      <4>2. c \notin 1 .. Len(log)
        BY <1>1, <2>1, <4>1
      <4>3. LastApplied <= Len(log) /\ LastApplied \in Nat
        BY <1>0, <3>2 DEF Settled, IndicesOrdered
      <4> QED
        BY <1>0, <4>2, <4>3 DEF Cmds
    <3>5. ASSUME NEW k \in Keys PROVE Dirty(k)' \/ db'[k] = Contents'[LastApplied'][k]
      <4>1. Dirty(k) => Dirty(k)'
        BY <1>2, <1>3, <2>1, <3>3 DEF Dirty
      <4>2. CASE role = "Leader" /\ Writes(c, k)
        <5>1. Dirty(k)'
          BY <1>2, <1>3, <2>1, <3>3, <3>4, <4>2 DEF Dirty
        <5> QED
          BY <5>1
      <4>3. CASE ~(role = "Leader" /\ Writes(c, k))
        <5>1. db'[k] = db[k]
          BY <1>1, <2>1, <4>3, CommandWrites
        <5> QED
          BY <1>3, <3>2, <3>3, <4>1, <5>1 DEF Settled
      <4> QED
        BY <4>2, <4>3
    <3> QED
      BY <2>1, <3>2, <3>3, <3>5 DEF Settled
  <2> QED
    BY <2>2, <2>3 DEF ConvergeInv
<1>6. ASSUME NEW c \in Cmds, AppendEntry(c) PROVE ConvergeInv'
  <2>1. /\ c \in proposed /\ log' = Append(log, c)
        /\ UNCHANGED <<proposed, decided_idx, confirmed, tasks, current_decided_idx, applied, db, disorder>>
    BY <1>6 DEF AppendEntry, loopVars
  <2>2. Len(log') = Len(log) + 1 /\ log'[Len(log) + 1] = c /\ \A i \in 1 .. Len(log) : log'[i] = log[i]
    BY <1>0, <2>1
  <2>3. CommandTypes'
    <3>1. \A i \in 1 .. Len(log') : log'[i] \in proposed'
      BY <1>0, <1>1, <2>1, <2>2
    <3> QED
      BY <1>1, <1>2, <2>1, <3>1 DEF CommandTypes
  <2>4. InOrder' => InOrder
    <3> SUFFICES ASSUME InOrder' PROVE InOrder
      OBVIOUS
    <3>1. DOMAIN log' = 1 .. Len(log) + 1
      BY <1>0, <2>1
    <3>2. \A i \in 1 .. Len(log) + 1 : log'[i] = i
      BY <3>1 DEF InOrder
    <3>3. \A i \in 1 .. Len(log) : log[i] = i
      BY <1>0, <2>2, <3>2
    <3>4. log = [i \in DOMAIN log |-> log[i]] /\ DOMAIN log = 1 .. Len(log)
      BY <1>0
    <3> QED
      BY <3>3, <3>4 DEF InOrder
  <2>5. Settled => Settled'
    BY <1>2, <1>3, <1>4, <2>1 DEF Settled, Dirty
  <2> QED
    BY <2>1, <2>3, <2>4, <2>5 DEF ConvergeInv
<1>7. ASSUME NEW c \in Cmds, Confirm(c) PROVE ConvergeInv'
  <2>1. /\ c \notin confirmed /\ confirmed' = confirmed \cup {c} /\ tasks' = tasks \cup {c}
        /\ db' = IF role = "Follower" THEN handle_command(db, c) ELSE db
        /\ UNCHANGED <<proposed, log, decided_idx, current_decided_idx, applied, disorder>>
    BY <1>7 DEF Confirm, loopVars
  <2>2. CommandTypes'
    BY <1>1, <1>2, <1>7, <2>1, CommandWrites DEF CommandTypes
  <2>3. ASSUME ~disorder', InOrder' PROVE Settled'
    <3>1. ~disorder /\ InOrder
      BY <2>1, <2>3 DEF InOrder
    <3>2. Settled
      BY <3>1 DEF ConvergeInv
    <3>3. LastApplied' = LastApplied
      BY <1>4, <2>1
    <3>4. ASSUME NEW k \in Keys PROVE Dirty(k)' \/ db'[k] = Contents'[LastApplied'][k]
      <4>1. Dirty(k) => Dirty(k)'
        BY <1>2, <1>3, <2>1, <3>3 DEF Dirty
      <4>2. CASE role = "Follower" /\ Writes(c, k)
        <5>1. Dirty(k)'
          BY <1>2, <1>3, <2>1, <3>3, <4>2 DEF Dirty
        <5> QED
          BY <5>1
      <4>3. CASE ~(role = "Follower" /\ Writes(c, k))
        <5>1. db'[k] = db[k]
          BY <1>1, <2>1, <4>3, CommandWrites
        <5> QED
          BY <1>3, <3>2, <3>3, <4>1, <5>1 DEF Settled
      <4> QED
        BY <4>2, <4>3
    <3> QED
      BY <2>1, <3>2, <3>3, <3>4 DEF Settled
  <2> QED
    BY <2>2, <2>3 DEF ConvergeInv
\* The task of the last position executed has run; the one that runs now is
\* for a later one, or the index goes back.
<1>8. ASSUME NEW idx \in Cmds, SetDecidedIdx(idx) PROVE ConvergeInv'
  <2>1. /\ idx \in tasks /\ tasks' = tasks \ {idx} /\ decided_idx' = idx
        /\ disorder' = (disorder \/ idx < decided_idx \/ idx > Len(log))
        /\ UNCHANGED <<proposed, log, confirmed, current_decided_idx, applied, db>>
    BY <1>8 DEF SetDecidedIdx, loopVars
  <2>2. CommandTypes'
    BY <1>1, <1>2, <2>1 DEF CommandTypes
  <2>3. ASSUME ~disorder', InOrder' PROVE Settled'
    <3>0. ~disorder /\ ~(idx < decided_idx)
      BY <2>1, <2>3, Zenon
    <3>1. ~disorder /\ InOrder
      BY <2>1, <2>3, <3>0 DEF InOrder
    <3>2. Settled
      BY <3>1 DEF ConvergeInv
    <3>3. LastApplied' = LastApplied
      BY <1>4, <2>1
    <3>4. idx \in Nat /\ idx > decided_idx
      <4>1. idx # decided_idx /\ idx \in Nat
        BY <1>0, <1>1, <2>1 DEF Cmds
      <4> QED
        BY <1>0, <3>0, <4>1
    <3>5. LastApplied \in Nat /\ idx > LastApplied /\ LastApplied <= decided_idx'
      BY <1>0, <2>1, <3>2, <3>4 DEF Settled
    <3>6. ASSUME NEW k \in Keys, Dirty(k) PROVE Dirty(k)'
      BY <1>2, <1>3, <2>1, <3>3, <3>5, <3>6 DEF Dirty
    <3> QED
      BY <1>3, <2>1, <3>2, <3>3, <3>5, <3>6 DEF Settled
  <2> QED
    BY <2>2, <2>3 DEF ConvergeInv
<1>9. ASSUME ReadDecidedIdx PROVE ConvergeInv'
  <2>1. UNCHANGED <<proposed, log, decided_idx, confirmed, tasks, current_decided_idx, applied, db, disorder>>
    BY <1>9 DEF ReadDecidedIdx
  <2>2. CommandTypes'
    BY <1>1, <1>2, <2>1 DEF CommandTypes
  <2>3. Settled => Settled'
    BY <1>2, <1>3, <1>4, <2>1 DEF Settled, Dirty
  <2> QED
    BY <2>1, <2>2, <2>3 DEF ConvergeInv, InOrder
\* Every position up to the decided index is executed, in order.
<1>10. ASSUME ApplyDecided PROVE ConvergeInv'
  <2>1. CASE ~DecidedSuffixIsSome
    <3>1. UNCHANGED <<proposed, log, decided_idx, confirmed, tasks, current_decided_idx, applied, db, disorder>>
      BY <1>10, <2>1 DEF ApplyDecided
    <3>2. CommandTypes'
      BY <1>1, <1>2, <3>1 DEF CommandTypes
    <3>3. Settled => Settled'
      BY <1>2, <1>3, <1>4, <3>1 DEF Settled, Dirty
    <3> QED
      BY <3>1, <3>2, <3>3 DEF ConvergeInv, InOrder
  <2>2. CASE DecidedSuffixIsSome
    <3> DEFINE n == decided_idx - current_decided_idx
               cmds == [i \in DOMAIN NewPositions |-> log[NewPositions[i]]]
    <3>1. /\ db' = ExecuteAll(db, cmds) /\ applied' = applied \o NewPositions
          /\ current_decided_idx' = new_decided_idx /\ new_decided_idx # 0
          /\ UNCHANGED <<proposed, log, decided_idx, confirmed, tasks, disorder>>
      BY <1>10, <2>2 DEF ApplyDecided, UpdateDatabase
    <3>2. /\ NewPositions \in Seq(Nat) /\ Len(NewPositions) = n
          /\ \A i \in 1 .. n : NewPositions[i] = current_decided_idx + i
          /\ current_decided_idx < decided_idx /\ decided_idx <= Len(log)
      BY <2>2, NewPositionsRange DEF ApplyInv, DecidedSuffixIsSome
    <3>3. n \in Nat /\ n > 0 /\ DOMAIN NewPositions = 1 .. n
      BY <1>0, <3>2
    <3>4. /\ cmds \in Seq(Cmds) /\ Len(cmds) = n
          /\ \A i \in 1 .. n : cmds[i] = log[current_decided_idx + i]
      <4>1. cmds = [i \in 1 .. n |-> log[NewPositions[i]]]
        BY <3>3
      <4>2. \A i \in 1 .. n : /\ NewPositions[i] = current_decided_idx + i
                              /\ current_decided_idx + i \in 1 .. Len(log)
        BY <1>0, <3>2, <3>3
      <4>3. \A i \in 1 .. n : log[NewPositions[i]] \in Cmds
        BY <1>0, <4>2
      <4> HIDE DEF cmds, n
      <4>4. cmds \in Seq(Cmds) /\ Len(cmds) = n
        BY <3>3, <4>1, <4>3
      <4> QED
        BY <4>1, <4>2, <4>4
    <3>5. LastApplied' = decided_idx
      <4>0. applied \in Seq(Nat) /\ Len(applied) \in Nat
        BY DEF ApplyInv, IndexTypes
      <4> HIDE DEF n
      <4>1. applied' # <<>> /\ Len(applied') = Len(applied) + n /\ applied'[Len(applied) + n] = NewPositions[n]
        <5>1. /\ Len(applied \o NewPositions) = Len(applied) + Len(NewPositions)
              /\ \A j \in 1 .. Len(NewPositions) : (applied \o NewPositions)[Len(applied) + j] = NewPositions[j]
          BY <3>2, <4>0, ConcatParts
        <5>2. n \in 1 .. Len(NewPositions)
          BY <3>2, <3>3
        <5>3. Len(applied') = Len(applied) + n /\ applied'[Len(applied) + n] = NewPositions[n]
          BY <3>1, <3>2, <5>1, <5>2
        <5> QED
          BY <3>3, <4>0, <5>3
      <4>2. NewPositions[n] = current_decided_idx + n /\ current_decided_idx + n = decided_idx
        BY <1>0, <3>2, <3>3 DEF n
      <4> QED
        BY <4>1, <4>2 DEF LastApplied
    <3> HIDE DEF cmds, n
    <3>6. CommandTypes'
      <4>1. PICK f : f[Len(cmds)] = ExecuteAll(db, cmds) /\ \A m \in 0 .. Len(cmds) : f[m] \in Databases
        BY <1>1, <3>4, Executed
      <4>2. db' \in Databases
        BY <3>1, <3>3, <3>4, <4>1
      <4> QED
        BY <1>1, <1>2, <3>1, <4>2 DEF CommandTypes
    <3>7. ASSUME ~disorder', InOrder' PROVE Settled'
      <4>1. ~disorder /\ InOrder
        BY <3>1, <3>7 DEF InOrder
      <4>2. Settled /\ IndicesOrdered
        BY <4>1 DEF ConvergeInv, ApplyInv
      <4>3. Len(log) <= NumCmds /\ \A i \in 1 .. Len(log) : log[i] = i
        BY <1>0, <4>1, OrderedLog
      <4>4. /\ current_decided_idx \in 0 .. NumCmds /\ decided_idx \in current_decided_idx .. NumCmds
            /\ LastApplied \in 0 .. NumCmds /\ decided_idx \in LastApplied .. NumCmds
            /\ current_decided_idx <= LastApplied /\ new_decided_idx <= decided_idx
        BY <1>0, <3>1, <3>2, <4>2, <4>3 DEF Settled, IndicesOrdered
      <4>5. \A i \in 1 .. n : cmds[i] = current_decided_idx + i
        <5>1. \A i \in 1 .. n : current_decided_idx + i \in 1 .. Len(log)
          BY <1>0, <3>2, <3>3 DEF n
        <5> QED
          BY <3>4, <4>3, <5>1
      <4>6. ASSUME NEW k \in Keys PROVE Dirty(k)' \/ db'[k] = Contents'[LastApplied'][k]
        <5>1. \/ db'[k] = Contents[decided_idx][k]
              \/ db'[k] = db[k] /\ \A p \in current_decided_idx + 1 .. decided_idx : ~Writes(p, k)
          <6>1. /\ Len(cmds) = decided_idx - current_decided_idx
                /\ \A i \in 1 .. decided_idx - current_decided_idx : cmds[i] = current_decided_idx + i
            BY <3>4, <4>5 DEF n
          <6>2. /\ kv_cmd \in [Cmds -> KVCommands] /\ db \in Databases /\ cmds \in Seq(Cmds)
                /\ current_decided_idx \in 0 .. NumCmds /\ decided_idx \in current_decided_idx .. NumCmds
            BY <1>1, <3>4, <4>4
          <6>3. \/ ExecuteAll(db, cmds)[k] = Contents[decided_idx][k]
                \/ /\ ExecuteAll(db, cmds)[k] = db[k]
                   /\ \A p \in current_decided_idx + 1 .. decided_idx : ~Writes(p, k)
            BY <6>1, <6>2, SuffixWrites
          <6> QED
            BY <3>1, <6>3
        <5>2. CASE db'[k] = Contents[decided_idx][k]
          BY <1>3, <3>5, <5>2
        <5>3. CASE db'[k] = db[k] /\ \A p \in current_decided_idx + 1 .. decided_idx : ~Writes(p, k)
          <6>1. CASE db[k] = Contents[LastApplied][k]
            <7>1. \A p \in LastApplied + 1 .. decided_idx : ~Writes(p, k)
              BY <1>0, <4>4, <5>3
            <7>2. Contents[decided_idx][k] = Contents[LastApplied][k]
              BY <1>1, <4>4, <7>1, NotWritten
            <7> QED
              BY <1>3, <3>5, <5>3, <6>1, <7>2
          <6>2. CASE Dirty(k)
            <7>1. PICK c \in Cmds :
                    /\ Writes(c, k)
                    /\ \/ role = "Leader" /\ c \in proposed /\ c > LastApplied
                       \/ role = "Follower" /\ c \in confirmed /\ (c > LastApplied \/ c \in tasks)
              BY <6>2 DEF Dirty
            <7>2. c \notin current_decided_idx + 1 .. decided_idx /\ c \in Nat
              BY <1>0, <5>3, <7>1
            <7>3. c > LastApplied => c > decided_idx
              BY <1>0, <4>4, <7>2
            <7>4. Dirty(k)'
              BY <1>2, <1>3, <3>1, <3>5, <7>1, <7>3 DEF Dirty
            <7> QED
              BY <7>4
          <6> QED
            BY <4>2, <6>1, <6>2 DEF Settled
        <5> QED
          BY <5>1, <5>2, <5>3
      <4>7. LastApplied' \in Nat /\ current_decided_idx' <= LastApplied' /\ LastApplied' <= decided_idx'
        BY <1>0, <3>1, <3>5, <4>4
      <4> QED
        BY <4>6, <4>7 DEF Settled
    <3> QED
      BY <3>6, <3>7 DEF ConvergeInv
  <2> QED
    BY <2>1, <2>2
<1>11. CASE UNCHANGED vars
  <2>1. UNCHANGED <<proposed, log, decided_idx, confirmed, tasks, current_decided_idx, applied, db, disorder>>
    BY <1>11 DEF vars
  <2>2. CommandTypes'
    BY <1>1, <1>2, <2>1 DEF CommandTypes
  <2>3. Settled => Settled'
    BY <1>2, <1>3, <1>4, <2>1 DEF Settled, Dirty
  <2> QED
    BY <2>1, <2>2, <2>3 DEF ConvergeInv, InOrder
<1> QED
  BY <1>5, <1>6, <1>7, <1>8, <1>9, <1>10, <1>11 DEF Next

\* DatabaseConverges, for any number of commands, keys and values: speculation
\* at the leader, execution on confirmation at a follower and positions that
\* handle_decided_entries executes twice leave nothing behind.
THEOREM DatabasesConverge == Spec => []DatabaseConverges
<1>1. Init => ConvergeInv
  <2> SUFFICES ASSUME Init PROVE ConvergeInv
    OBVIOUS
  <2>1. CommandTypes
    BY DEF Init, CommandTypes, EmptyDatabase, Databases
  <2>2. LastApplied = 0
    BY DEF Init, LastApplied
  <2>3. Contents[0] = EmptyDatabase
    BY <2>1, ContentsStep DEF CommandTypes
  <2>4. Settled
    BY <2>2, <2>3 DEF Init, Settled
  <2> QED
    BY <2>1, <2>4 DEF ConvergeInv
<1>2. ASSUME ApplyInv, ConvergeInv PROVE DatabaseConverges
  <2> SUFFICES ASSUME ~disorder, InOrder, tasks = {}, proposed = Range(log),
                      confirmed \subseteq Range(log), current_decided_idx = Len(log)
               PROVE  db = ExecuteAll(EmptyDatabase, log)
    BY DEF DatabaseConverges
  <2>0. /\ log \in Seq(Cmds) /\ decided_idx \in Nat /\ Len(log) \in Nat /\ NumCmds \in Nat
        /\ Cmds \subseteq Nat
    BY <1>2, ExecutionAssumption DEF ApplyInv, IndexTypes, Cmds
  <2>1. kv_cmd \in [Cmds -> KVCommands] /\ db \in Databases
    BY <1>2 DEF ConvergeInv, CommandTypes
  <2>2. Settled /\ IndicesOrdered
    BY <1>2 DEF ConvergeInv, ApplyInv
  <2>3. LastApplied = Len(log)
    BY <2>0, <2>2 DEF Settled, IndicesOrdered
  <2>4. Len(log) <= NumCmds /\ \A i \in 1 .. Len(log) : log[i] = i
    BY <2>0, OrderedLog
  <2>5. Range(log) \subseteq 1 .. Len(log)
    <3>1. DOMAIN log = 1 .. Len(log)
      BY <2>0
    <3>2. ASSUME NEW x \in Range(log) PROVE x \in 1 .. Len(log)
      <4>1. PICK i \in 1 .. Len(log) : x = log[i]
        BY <3>1, <3>2, Zenon DEF Range
      <4> QED
        BY <2>4, <4>1
    <3> QED
      BY <3>2
  <2>6. ASSUME NEW k \in Keys PROVE ~Dirty(k)
    <3> SUFFICES ASSUME NEW c \in Cmds, c \in proposed \/ c \in confirmed, c > LastApplied
                 PROVE  FALSE
      BY DEF Dirty
    <3> QED
      BY <2>0, <2>3, <2>5
  <2>7. /\ Len(log) \in 0 .. NumCmds /\ 0 \in 0 .. NumCmds
        /\ \A i \in 1 .. Len(log) - 0 : log[i] = 0 + i
        /\ Len(log) \in 0 .. NumCmds /\ Len(log) = Len(log) - 0
    BY <2>0, <2>4
  <2>8. EmptyDatabase \in Databases
    BY DEF EmptyDatabase, Databases
  <2>9. ASSUME NEW k \in Keys PROVE db[k] = ExecuteAll(EmptyDatabase, log)[k]
    <3>1. db[k] = Contents[Len(log)][k]
      BY <2>2, <2>3, <2>6 DEF Settled
    <3>2. \/ ExecuteAll(EmptyDatabase, log)[k] = Contents[Len(log)][k]
          \/ /\ ExecuteAll(EmptyDatabase, log)[k] = EmptyDatabase[k]
             /\ \A p \in 0 + 1 .. Len(log) : ~Writes(p, k)
      BY <2>0, <2>1, <2>7, <2>8, SuffixWrites
    <3>3. ASSUME \A p \in 0 + 1 .. Len(log) : ~Writes(p, k)
          PROVE  Contents[Len(log)][k] = EmptyDatabase[k]
      <4>1. Contents[Len(log)][k] = Contents[0][k]
        BY <2>1, <2>7, <3>3, NotWritten
      <4> QED
        BY <2>1, <4>1, ContentsStep
    <3> QED
      BY <3>1, <3>2, <3>3
  <2>10. ExecuteAll(EmptyDatabase, log) \in Databases
    <3>1. PICK f : /\ f[Len(log)] = ExecuteAll(EmptyDatabase, log)
                   /\ \A m \in 0 .. Len(log) : f[m] \in Databases
      BY <2>0, <2>1, <2>8, Executed
    <3> QED
      BY <2>0, <3>1
  <2> QED
    BY <2>1, <2>9, <2>10 DEF Databases
<1> QED
  BY <1>1, <1>2, InitApply, NextApply, NextConverge, PTL DEF Spec

=============================================================================
