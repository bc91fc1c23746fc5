----------------------------- MODULE Execution -----------------------------
(***************************************************************************)
(* How one server executes commands on its key-value database.  A command  *)
(* is executed up to three times: by the leader when it is proposed        *)
(* (speculation), by a follower when the proxy confirms it, and by every   *)
(* server when the decided part of the log is applied.  The decided index  *)
(* is set by tasks that run at any time and in any order; the main loop    *)
(* reads it twice under separate locks.                                    *)
(* The commands are numbered in the order that the proxy confirms; the     *)
(* leader's log has this order, a follower's may have another.             *)
(***************************************************************************)
EXTENDS Integers, Sequences, SequencesExt

CONSTANTS
  NumCmds,     \* bound on the commands
  Keys, Values,
  None

ASSUME ExecutionAssumption == NumCmds \in Nat /\ None \notin Values

Cmds == 1 .. NumCmds

\* KVCommand.
KVCommands ==
  [op : {"Put"}, key : Keys, value : Values] \cup
  [op : {"Delete", "Get"}, key : Keys, value : {None}]

VARIABLES
  role,         \* "Leader" or "Follower" of Sequence Paxos
  kv_cmd,       \* kv_cmd[c]: what command c does
  proposed,     \* commands handed to append_to_log
  log,          \* the log of InternalStorage
  decided_idx,  \* its decided index
  confirmed,    \* confirmed[c]: Confirm(c, c) was handled
  tasks,        \* indices of the spawned set_decided_idx tasks
  current_decided_idx,
  new_decided_idx,      \* local of handle_decided_entries; 0: not running
  db,           \* the database
  applied,      \* log positions executed and answered from the decided log
  panicked,     \* the main loop is dead
  disorder      \* decided_idx once went back or beyond the log (auxiliary)

vars == <<role, kv_cmd, proposed, log, decided_idx, confirmed, tasks,
          current_decided_idx, new_decided_idx, db, applied, panicked,
          disorder>>

loopVars == <<current_decided_idx, new_decided_idx, applied, panicked>>

-----------------------------------------------------------------------------

\* Database::handle_command; a Get changes nothing.
handle_command(d, c) ==
  CASE kv_cmd[c].op = "Put"    -> [d EXCEPT ![kv_cmd[c].key] = kv_cmd[c].value]
    [] kv_cmd[c].op = "Delete" -> [d EXCEPT ![kv_cmd[c].key] = None]
    [] kv_cmd[c].op = "Get"    -> d

EmptyDatabase == [k \in Keys |-> None]

\* The commands of a list, one after the other.
ExecuteAll(d, cmds) ==
  LET after[n \in 0 .. Len(cmds)] ==
        IF n = 0 THEN d ELSE handle_command(after[n - 1], cmds[n])
  IN after[Len(cmds)]

Init ==
  /\ role \in {"Leader", "Follower"}
  /\ kv_cmd \in [Cmds -> KVCommands]
  /\ proposed = {} /\ log = <<>> /\ decided_idx = 0
  /\ confirmed = {} /\ tasks = {}
  /\ current_decided_idx = 0 /\ new_decided_idx = 0
  /\ db = EmptyDatabase /\ applied = <<>>
  /\ panicked = FALSE /\ disorder = FALSE

MainLoopFree == ~panicked /\ new_decided_idx = 0

\* append_to_log and handle_new_proposal: a leader speculates at once, the
\* entry is appended by a task of its own.
Propose(c) ==
  /\ MainLoopFree /\ c \notin proposed
  /\ proposed' = proposed \cup {c}
  /\ db' = IF role = "Leader" THEN handle_command(db, c) ELSE db
  /\ UNCHANGED <<role, kv_cmd, log, decided_idx, confirmed, tasks, loopVars,
                 disorder>>

\* The task of a proposal appends its entry (Replica has the details).
AppendEntry(c) ==
  /\ c \in proposed \ Range(log)
  /\ role = "Leader" => c = Len(log) + 1
  /\ log' = Append(log, c)
  /\ UNCHANGED <<role, kv_cmd, proposed, decided_idx, confirmed, tasks,
                 loopVars, db, disorder>>

\* handle_execution for ClientMessage::Ack(c, c).  The leader has what is
\* confirmed in its log.  Commands are numbered as they are confirmed, so the
\* index of the confirmed history is the command; confirmations come in any
\* order, each once.
Confirm(c) ==
  /\ MainLoopFree /\ c \notin confirmed
  /\ role = "Leader" => c <= Len(log)
  /\ confirmed' = confirmed \cup {c}
  /\ db' = IF role = "Follower" THEN handle_command(db, c) ELSE db
  /\ tasks' = tasks \cup {c}
  /\ UNCHANGED <<role, kv_cmd, proposed, log, decided_idx, loopVars, disorder>>

\* The spawned task of handle_execution.
SetDecidedIdx(idx) ==
  /\ idx \in tasks
  /\ tasks' = tasks \ {idx}
  /\ decided_idx' = idx
  /\ disorder' = (disorder \/ idx < decided_idx \/ idx > Len(log))
  /\ UNCHANGED <<role, kv_cmd, proposed, log, confirmed, loopVars, db>>

\* Mutant: the last decided entry waits for the next one.
HasNewDecidedLate == current_decided_idx + 1 < decided_idx
\* The condition of handle_decided_entries.
HasNewDecided == current_decided_idx < decided_idx

\* handle_decided_entries, on every message of a peer: the first lock.
ReadDecidedIdx ==
  /\ MainLoopFree
  /\ HasNewDecided
  /\ new_decided_idx' = decided_idx
  /\ UNCHANGED <<role, kv_cmd, proposed, log, decided_idx, confirmed, tasks,
                 current_decided_idx, db, applied, panicked, disorder>>

\* read_decided_suffix(current_decided_idx), the decided index read anew.
\* None: nothing new is decided, or the index is beyond the log.
DecidedSuffixIsSome ==
  current_decided_idx < decided_idx /\ decided_idx <= Len(log)

\* Mutant: the suffix starts behind the entry after the last one applied.
NewPositionsSkip ==
  [i \in 1 .. (decided_idx - current_decided_idx - 1) |->
     current_decided_idx + 1 + i]
\* The positions of the decided suffix.
NewPositions ==
  [i \in 1 .. (decided_idx - current_decided_idx) |-> current_decided_idx + i]

\* Mutant: the leader relies on its speculation.
UpdateDatabaseFollower(cmds) ==
  IF role = "Leader" THEN db ELSE ExecuteAll(db, cmds)
\* update_database_and_respond: every command once more, in log order.
UpdateDatabase(cmds) == ExecuteAll(db, cmds)

\* The second lock, then the unwrap and update_database_and_respond.
ApplyDecided ==
  /\ new_decided_idx # 0 /\ ~panicked
  /\ IF DecidedSuffixIsSome
     THEN /\ db' = UpdateDatabase([i \in DOMAIN NewPositions |->
                                  log[NewPositions[i]]])
          /\ applied' = applied \o NewPositions
          /\ current_decided_idx' = new_decided_idx
          /\ new_decided_idx' = 0
          /\ UNCHANGED panicked
     ELSE /\ panicked' = TRUE
          /\ UNCHANGED <<db, applied, current_decided_idx, new_decided_idx>>
  /\ UNCHANGED <<role, kv_cmd, proposed, log, decided_idx, confirmed, tasks,
                 disorder>>

Next ==
  \/ \E c \in Cmds : Propose(c) \/ AppendEntry(c) \/ Confirm(c)
  \/ \E idx \in Cmds : SetDecidedIdx(idx)
  \/ ReadDecidedIdx
  \/ ApplyDecided

Spec == Init /\ [][Next]_vars

\* Spawned tasks run, and messages of the peers keep coming: heartbeats are
\* sent in every round of the election, whether there are commands or not.
\* A server that has lost all of its peers applies nothing.
FairSpec ==
  /\ Spec
  /\ \A idx \in Cmds : WF_vars(SetDecidedIdx(idx))
  /\ WF_vars(ReadDecidedIdx)
  /\ WF_vars(ApplyDecided)

-----------------------------------------------------------------------------
(* Properties.                                                             *)

\* The unwrap in handle_decided_entries never fails, and no decided command
\* is left out, as long as the tasks keep the decided index from going back
\* and within the log: whatever happens between the two locks, every
\* position up to current_decided_idx has been executed and answered.
NoDecidedSkipped ==
  ~disorder =>
    /\ ~panicked
    /\ 1 .. current_decided_idx \subseteq Range(applied)

\* A server that holds the confirmed order and has applied all of its log
\* has the database of a server that executes every command of the log once
\* and in order, in spite of speculation, of execution on confirmation and
\* of positions that are executed twice.
InOrder == log = [i \in DOMAIN log |-> i]

DatabaseConverges ==
  (~disorder /\ InOrder /\ new_decided_idx = 0
     /\ tasks = {} /\ proposed = Range(log) /\ confirmed \subseteq Range(log)
     /\ current_decided_idx = Len(log))
  => db = ExecuteAll(EmptyDatabase, log)

\* What is decided is applied in the end, although only messages of peers,
\* and not the confirmations themselves, make the server look at the index:
\* no entry needs a later confirmation to be noticed.
DecidedGetsApplied ==
  \A n \in Cmds :
    decided_idx = n ~> (current_decided_idx >= n \/ disorder)

=============================================================================
