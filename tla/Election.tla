------------------------------- MODULE Election -------------------------------
(***************************************************************************)
(* Leader election: the ballots and heartbeat rounds of                    *)
(* ballot_leader_election.rs, the role they give to Sequence Paxos         *)
(* (leader.rs, handle_leader) and the start-up of the server that forces   *)
(* an initial leader (server.rs, establish_initial_leader).                *)
(*                                                                         *)
(* Messages travel over links that may break and, since the servers stop   *)
(* listening once they have started, never come back.  A message that is   *)
(* not handled is a message that is lost or late; Timely says that a round *)
(* of one second is long enough for the messages of the round.  All        *)
(* servers share one configuration id, which is therefore left out of the  *)
(* ballots, and the phase of Sequence Paxos never becomes Accept, so that  *)
(* the quorum of an election is always the prepare quorum.                 *)
(***************************************************************************)
EXTENDS Naturals, FiniteSets

CONSTANTS
  Nodes,          \* the pids of the servers
  InitialLeader,  \* ClusterConfig.initial_leader
  Priority,       \* leader_priority of each server
  ReadQuorum,     \* the size of a prepare quorum
  Timely,         \* whether the messages of a round arrive within the round
  Breakages,      \* the sets of links that may break together
  MaxRound,       \* bound: heartbeat rounds
  Settling        \* rounds within which an election must be over

ASSUME NodesAssumption ==
  Nodes \subseteq Nat \ {0} /\ IsFiniteSet(Nodes) /\ InitialLeader \in Nodes
\* ClusterConfig::validate: a read quorum is no larger than the cluster.
ASSUME BallotAssumption ==
  /\ Priority \in [Nodes -> Nat]
  /\ ReadQuorum \in Nat /\ ReadQuorum <= Cardinality(Nodes)
ASSUME BoundAssumption  == MaxRound \in Nat /\ Timely \in BOOLEAN

VARIABLES
  ballot,      \* current_ballot
  leader,      \* BallotLeaderElection.leader
  happy,       \* happy
  round,       \* hb_round
  replies,     \* heartbeat_replies
  role,        \* Role of Sequence Paxos
  promise,     \* the promise in the storage
  n_leader,    \* LeaderState.n_leader
  started,     \* whether the server has left establish_initial_leader
  net,         \* messages on their way
  links,       \* the links that work
  brokenAt     \* history: the latest round when links broke; 0 while all work

bleVars   == <<ballot, leader, happy, round, replies>>
paxosVars == <<role, promise, n_leader>>
linkVars  == <<links, brokenAt>>
vars      == <<bleVars, paxosVars, started, net, linkVars>>

-----------------------------------------------------------------------------
\* Ballots and messages.

Ballots       == [n : Nat, priority : Nat, pid : Nat]
DefaultBallot == [n |-> 0, priority |-> 0, pid |-> 0]

\* Ord for Ballot
Less(a, b) ==
  \/ a.n < b.n
  \/ a.n = b.n /\ a.priority < b.priority
  \/ a.n = b.n /\ a.priority = b.priority /\ a.pid < b.pid
AtMost(a, b) == a = b \/ Less(a, b)

Requests == [kind : {"request"}, from : Nodes, to : Nodes, round : Nat]
Replies  == [kind : {"reply"}, from : Nodes, to : Nodes, round : Nat,
             ballot : Ballots, leader : Ballots, happy : BOOLEAN]
Starts   == [kind : {"start"}, from : Nodes, to : Nodes]

AllLinks == {l \in SUBSET Nodes : Cardinality(l) = 2}

\* What reaches the network: a message to an unconnected peer is dropped.
Sendable(ms) == {m \in ms : {m.from, m.to} \in links}

\* new_hb_round: a request to every peer.
HbRequests(s, r) == [kind : {"request"}, from : {s}, to : Nodes \ {s}, round : {r}]

TypeOK ==
  /\ ballot \in [Nodes -> Ballots]
  /\ leader \in [Nodes -> Ballots]
  /\ happy \in [Nodes -> BOOLEAN]
  /\ round \in [Nodes -> Nat] /\ DOMAIN replies = Nodes
  /\ \A s \in Nodes : replies[s] \subseteq {m \in Replies : m.to = s /\ m.round = round[s]}
  /\ role \in [Nodes -> {"Follower", "Leader"}]
  /\ promise \in [Nodes -> Ballots]
  /\ n_leader \in [Nodes -> Ballots]
  /\ started \in [Nodes -> BOOLEAN]
  /\ net \subseteq Requests \cup Replies \cup Starts
  /\ links \subseteq AllLinks
  /\ brokenAt \in Nat

\* BallotLeaderElection::with on an empty storage: everyone starts as its own
\* leader, with round 1 under way.
InitialBallot(s) == [n |-> 1, priority |-> Priority[s], pid |-> s]

Init ==
  /\ ballot = [s \in Nodes |-> InitialBallot(s)]
  /\ leader = [s \in Nodes |-> InitialBallot(s)]
  /\ happy = [s \in Nodes |-> TRUE]
  /\ round = [s \in Nodes |-> 1]
  /\ replies = [s \in Nodes |-> {}]
  /\ role = [s \in Nodes |-> "Follower"]
  /\ promise = [s \in Nodes |-> DefaultBallot]
  /\ n_leader = [s \in Nodes |-> DefaultBallot]
  /\ started = [s \in Nodes |-> FALSE]
  /\ net = UNION {HbRequests(s, 1) : s \in Nodes}
  /\ links = AllLinks
  /\ brokenAt = 0

-----------------------------------------------------------------------------
\* SequencePaxos::handle_leader: only a ballot above the promise counts, and
\* only one of this server's own makes it a leader.
handle_leader(s, n) ==
  LET new == ~AtMost(n, n_leader[s]) /\ ~AtMost(n, promise[s])
      own == new /\ n.pid = s
  IN  /\ role' = [role EXCEPT ![s] = IF own THEN "Leader" ELSE IF new THEN "Follower" ELSE @]
      /\ promise' = [promise EXCEPT ![s] = IF own THEN n ELSE @]
      /\ n_leader' = [n_leader EXCEPT ![s] = IF own THEN n ELSE @]

\* establish_initial_leader on the initial leader: try_become_leader until it
\* finds itself the leader, then tell the others to start.
TryBecomeLeader(s) ==
  /\ s = InitialLeader /\ ~started[s]
  /\ promise[s].pid # s
  /\ handle_leader(s, [ballot[s] EXCEPT !.n = promise[s].n + 1])
  /\ UNCHANGED <<bleVars, started, net, linkVars>>

SendStartSignals(s) ==
  /\ s = InitialLeader /\ ~started[s]
  /\ promise[s].pid = s
  /\ started' = [started EXCEPT ![s] = TRUE]
  /\ net' = net \cup Sendable([kind : {"start"}, from : {s}, to : Nodes \ {s}])
  /\ UNCHANGED <<bleVars, paxosVars, linkVars>>

\* LeaderStartSignal ends establish_initial_leader on the other servers.
HandleStart(m) ==
  /\ m.kind = "start"
  /\ net' = net \ {m}
  /\ started' = [started EXCEPT ![m.to] = TRUE]
  /\ UNCHANGED <<bleVars, paxosVars, linkVars>>

-----------------------------------------------------------------------------
\* The parts of hb_timeout on server s, with the leader l it has by then.

\* Mutant: the largest ballot of this round, even if it is smaller.
update_leaderLatest(s) ==
  LET seen == {r.ballot : r \in replies[s]}
  IN  IF seen = {} THEN leader[s] ELSE CHOOSE b \in seen : \A c \in seen : AtMost(c, b)
\* update_leader: the largest ballot heard of in this round, if it is larger.
update_leader(s) ==
  LET seen == {r.ballot : r \in replies[s]} \cup {leader[s]}
  IN  CHOOSE b \in seen : \A c \in seen : AtMost(c, b)

\* Mutant: a strict majority is asked for twice.
is_prepare_quorumStrict(k) == k > ReadQuorum
\* Quorum::is_prepare_quorum
is_prepare_quorum(k) == k >= ReadQuorum

\* Mutant: only servers that still follow a smaller ballot are counted.
PotentialFollowersStrict(s) == {r \in replies[s] : Less(r.leader, ballot[s])}
\* Who may follow this server.
PotentialFollowers(s) == {r \in replies[s] : AtMost(r.leader, ballot[s])}

\* update_happiness
update_happiness(s, l) ==
  IF l = ballot[s]
  THEN \/ is_prepare_quorum(Cardinality(PotentialFollowers(s)) + 1)
       \/ \E r \in replies[s] : Less(ballot[s], r.leader) /\ r.happy
  ELSE \E r \in replies[s] : r.ballot = l /\ r.happy

\* check_takeover: nobody this server hears of is happy, and it hears of a quorum.
check_takeover(s, h) ==
  /\ ~h
  /\ \A r \in replies[s] : ~r.happy
  /\ is_prepare_quorum(Cardinality(replies[s]) + 1)

\* Mutant: the ballot of the leader is raised, with the leader's pid.
TakeoverBallotLeaders(s, l) == [l EXCEPT !.n = @ + 1]
\* The ballot with which a server takes over.
TakeoverBallot(s, l) == [ballot[s] EXCEPT !.n = l.n + 1]

\* What hb_timeout reports: this server's ballot when it is its own leader.
Elected(s, b, l) == IF l = b THEN {b} ELSE {}

\* Every answer to the requests of this round is in.
RoundComplete(s) ==
  {m \in net : /\ m.kind # "start" /\ m.round = round[s]
               /\ s = (IF m.kind = "request" THEN m.from ELSE m.to)} = {}

\* The servers tick once a second, so no one is a round ahead of the others.
InStep(s) == \A r \in Nodes : round[s] <= round[r]

\* tick, election_timeout and hb_timeout of server s.
HbTimeout(s) ==
  LET l1 == update_leader(s)
      h1 == update_happiness(s, l1)
      t  == check_takeover(s, h1)
      b2 == IF t THEN TakeoverBallot(s, l1) ELSE ballot[s]
      l2 == IF t THEN b2 ELSE l1
      p  == Less(l2, promise[s])
      l3 == IF p THEN promise[s] ELSE l2
      b3 == IF p /\ promise[s].pid = s THEN promise[s] ELSE b2
  IN  /\ started[s] /\ round[s] < MaxRound
      /\ Timely => RoundComplete(s) /\ InStep(s)
      /\ leader' = [leader EXCEPT ![s] = l3]
      /\ ballot' = [ballot EXCEPT ![s] = b3]
      /\ happy' = [happy EXCEPT ![s] = h1 \/ t \/ p]
      /\ round' = [round EXCEPT ![s] = @ + 1]
      /\ replies' = [replies EXCEPT ![s] = {}]
      /\ net' = net \cup Sendable(HbRequests(s, round[s] + 1))
      /\ \/ Elected(s, b3, l3) = {} /\ UNCHANGED paxosVars
         \/ \E n \in Elected(s, b3, l3) : handle_leader(s, n)
      /\ UNCHANGED <<started, linkVars>>

-----------------------------------------------------------------------------
\* handle_request: answer with what this server thinks now.
HandleRequest(m) ==
  LET s == m.to
  IN  /\ m.kind = "request"
      /\ net' = (net \ {m}) \cup Sendable(
           {[kind |-> "reply", from |-> s, to |-> m.from, round |-> m.round,
             ballot |-> ballot[s], leader |-> leader[s], happy |-> happy[s]]})
      /\ UNCHANGED <<bleVars, paxosVars, started, linkVars>>

\* Mutant: a reply of any round counts.
InRoundAny(m) == TRUE
\* A reply counts only in the round of its request.
InRound(m) == m.round = round[m.to]

\* handle_reply
HandleReply(m) ==
  /\ m.kind = "reply"
  /\ net' = net \ {m}
  /\ replies' = IF InRound(m) THEN [replies EXCEPT ![m.to] = @ \cup {m}] ELSE replies
  /\ UNCHANGED <<ballot, leader, happy, round, paxosVars, started, linkVars>>

\* Links break for good, with what they carry; a server that stops is one that
\* has lost all its links.
Break(broken) ==
  /\ brokenAt = 0 /\ \A s \in Nodes : started[s]
  /\ links' = links \ broken
  /\ net' = {m \in net : {m.from, m.to} \notin broken}
  /\ \E s \in Nodes : /\ \A r \in Nodes : round[r] <= round[s]
                      /\ brokenAt' = round[s]
  /\ UNCHANGED <<bleVars, paxosVars, started>>

-----------------------------------------------------------------------------
Next ==
  \/ \E s \in Nodes : TryBecomeLeader(s) \/ SendStartSignals(s) \/ HbTimeout(s)
  \/ \E m \in net : HandleStart(m) \/ HandleRequest(m) \/ HandleReply(m)
  \/ \E broken \in Breakages : Break(broken)

Spec == Init /\ [][Next]_vars

-----------------------------------------------------------------------------
\* Properties.

\* Neither a server's ballot nor the leader that it follows nor its promise
\* ever falls back to a smaller ballot, whatever replies are late, lost or out
\* of date (update_leader, check_takeover, hb_timeout, handle_leader).
BallotsOnlyGrow ==
  [][\A s \in Nodes : /\ AtMost(ballot[s], ballot'[s])
                      /\ AtMost(leader[s], leader'[s])
                      /\ AtMost(promise[s], promise'[s])]_vars

\* A ballot that its owner has got to.
Real(b) == b.pid \in Nodes /\ AtMost(b, ballot[b.pid])

\* A reply names its sender's ballot and a leader, and both are real.
Reported(m) == m.ballot.pid = m.from /\ Real(m.ballot) /\ Real(m.leader)

\* Whoever a server follows has got that far itself: no leader and no reply,
\* late or not, names a ballot that its owner has not had, and a server
\* promises no ballot but its own (update_leader, hb_timeout, handle_request,
\* handle_leader).
FollowsRealBallot ==
  /\ \A s \in Nodes : /\ Real(leader[s])
                      /\ promise[s] = DefaultBallot \/ promise[s].pid = s
                      /\ \A m \in replies[s] : Reported(m)
  /\ \A m \in net : m.kind = "reply" => Reported(m)

\* Whoever is counted towards a quorum is counted once (handle_reply): at most
\* one reply of a peer is kept in a round.
HeardOnce ==
  \A s \in Nodes : \A m, n \in replies[s] : m.from = n.from => m = n

\* While all links work and messages are timely nobody takes over, although
\* every server starts as its own leader: no needless elections.
NoNeedlessTakeover ==
  Timely /\ brokenAt = 0 => \A s \in Nodes : ballot[s].n = 1

\* A server connected to a quorum, itself included.
QuorumConnected(s) == Cardinality({r \in Nodes : {r, s} \in links}) + 1 >= ReadQuorum

\* "guaranteed progress with one quorum-connected server": Settling rounds after
\* links broke, some quorum-connected server, if there is one, is a leader that
\* knows it.
ElectedAfterBreak ==
  (/\ Timely /\ brokenAt > 0 /\ \A s \in Nodes : round[s] >= brokenAt + Settling
   /\ \E s \in Nodes : QuorumConnected(s))
    => \E s \in Nodes : QuorumConnected(s) /\ role[s] = "Leader" /\ leader[s] = promise[s]

\* "The number of replicas inside the cluster whose heartbeats are needed to
\* become and remain the leader": who is a leader after the end of a round has
\* heard from a quorum in that round.
LeaderHearsQuorum ==
  [][\A s \in Nodes : round'[s] # round[s] /\ role'[s] = "Leader"
       => Cardinality(replies[s]) + 1 >= ReadQuorum]_vars

=============================================================================
