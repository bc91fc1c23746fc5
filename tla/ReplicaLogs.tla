----------------------------- MODULE ReplicaLogs -----------------------------
(***************************************************************************)
(* What the replicas promise to the proxy, whatever their clocks, buffers  *)
(* and tasks do: each has a log that only grows, in which every command    *)
(* that reached it appears at most once and in any order, and sends one    *)
(* acknowledgement per command, which names the command, its index and     *)
(* the history up to that index.                                           *)
(***************************************************************************)
EXTENDS Naturals, Sequences, SequencesExt

CONSTANTS
  Servers,    \* the replicas
  Commands    \* the commands that may reach a replica

VARIABLES
  proposed,   \* the commands that have reached each replica
  entries,    \* the logs
  sent        \* the acknowledgements each replica has sent

vars == <<proposed, entries, sent>>

Init ==
  /\ proposed = [s \in Servers |-> {}]
  /\ entries = [s \in Servers |-> <<>>]
  /\ sent = [s \in Servers |-> {}]

\* A command reaches replica s.
Propose(s, c) ==
  /\ c \notin proposed[s]
  /\ proposed' = [proposed EXCEPT ![s] = @ \cup {c}]
  /\ UNCHANGED <<entries, sent>>

\* Replica s orders a command that it has not ordered before.
Order(s, c) ==
  /\ c \in proposed[s] \ ToSet(entries[s])
  /\ entries' = [entries EXCEPT ![s] = Append(@, c)]
  /\ UNCHANGED <<proposed, sent>>

\* Replica s acknowledges index k of its log, which it has not done before.
Acknowledge(s, k) ==
  /\ \A a \in sent[s] : a.idx # k
  /\ sent' = [sent EXCEPT ![s] = @ \cup
       {[id |-> entries[s][k], hash |-> SubSeq(entries[s], 1, k), idx |-> k]}]
  /\ UNCHANGED <<proposed, entries>>

Next ==
  \E s \in Servers :
    \/ \E c \in Commands : Propose(s, c) \/ Order(s, c)
    \/ \E k \in 1 .. Len(entries[s]) : Acknowledge(s, k)

Spec == Init /\ [][Next]_vars
=============================================================================
