---------------------------- MODULE ElectionProofs ----------------------------
(***************************************************************************)
(* Leader election, for any number of servers, any priorities and          *)
(* messages that are lost, late and out of order.                          *)
(***************************************************************************)
EXTENDS Election, FiniteSetTheorems, TLAPS

-----------------------------------------------------------------------------
\* The derived order of Ballot is total.

\* Any two ballots compare, one way only, and the order is transitive.
LEMMA BallotOrder ==
  \A a, b, c \in Ballots :
    /\ AtMost(a, a)
    /\ AtMost(a, b) \/ Less(b, a)
    /\ Less(a, b) => AtMost(a, b) /\ ~AtMost(b, a)
    /\ AtMost(a, b) /\ AtMost(b, c) => AtMost(a, c)
<1> SUFFICES ASSUME NEW a \in Ballots, NEW b \in Ballots, NEW c \in Ballots
             PROVE  /\ AtMost(a, a)
                    /\ AtMost(a, b) \/ Less(b, a)
                    /\ Less(a, b) => AtMost(a, b) /\ ~AtMost(b, a)
                    /\ AtMost(a, b) /\ AtMost(b, c) => AtMost(a, c)
  OBVIOUS
<1>1. \A x, y \in Ballots :
        (x.n = y.n /\ x.priority = y.priority /\ x.pid = y.pid) => x = y
  BY DEF Ballots
<1>2. \A x \in {a, b, c} : x.n \in Nat /\ x.priority \in Nat /\ x.pid \in Nat
  BY DEF Ballots
<1>3. AtMost(a, b) \/ Less(b, a)
  BY <1>1, <1>2 DEF AtMost, Less
<1>4. Less(a, b) => AtMost(a, b) /\ ~AtMost(b, a)
  BY <1>2 DEF AtMost, Less
<1>5. AtMost(a, b) /\ AtMost(b, c) => AtMost(a, c)
  BY <1>2 DEF AtMost, Less
<1> QED
  BY <1>3, <1>4, <1>5 DEF AtMost

-----------------------------------------------------------------------------
\* The inductive invariant.

\* A server's own ballot carries its pid and is never above the leader that it
\* follows; what it promises is a ballot of its own.
OwnBallots ==
  \A s \in Nodes :
    /\ ballot[s].pid = s
    /\ AtMost(ballot[s], leader[s])
    /\ promise[s] = DefaultBallot \/ promise[s].pid = s

\* What a server follows and what a reply names are ballots that exist.
LeadersReal == \A s \in Nodes : Real(leader[s])
RepliesReal ==
  /\ \A m \in net : m.kind = "reply" => Reported(m)
  /\ \A s \in Nodes : \A m \in replies[s] : Reported(m)

\* The candidates of update_leader, one of which is the largest.
Seen(s) == {r.ballot : r \in replies[s]} \cup {leader[s]}
HasLargest == \A s \in Nodes : \E b \in Seen(s) : \A c \in Seen(s) : AtMost(c, b)

BallotInv == TypeOK /\ OwnBallots /\ RepliesReal /\ HasLargest /\ LeadersReal

\* What hb_timeout does to the ballots: they only grow, and the leader is the
\* server itself or one that it has heard of.
LEMMA HbTimeoutFacts ==
  ASSUME BallotInv, NEW s \in Nodes, HbTimeout(s)
  PROVE  /\ leader'[s] \in Ballots /\ ballot'[s] \in Ballots
         /\ leader' = [leader EXCEPT ![s] = leader'[s]]
         /\ ballot' = [ballot EXCEPT ![s] = ballot'[s]]
         /\ ballot'[s].pid = s
         /\ AtMost(ballot[s], ballot'[s]) /\ AtMost(ballot'[s], leader'[s])
         /\ AtMost(leader[s], leader'[s])
         /\ leader'[s] = ballot'[s] \/ leader'[s] \in Seen(s)
         /\ UNCHANGED paxosVars \/ handle_leader(s, ballot'[s])
<1> DEFINE l1 == update_leader(s)
           h1 == update_happiness(s, l1)
           t  == check_takeover(s, h1)
           b2 == IF t THEN TakeoverBallot(s, l1) ELSE ballot[s]
           l2 == IF t THEN b2 ELSE l1
           p  == Less(l2, promise[s])
           l3 == IF p THEN promise[s] ELSE l2
           b3 == IF p /\ promise[s].pid = s THEN promise[s] ELSE b2
<1>1. /\ leader' = [leader EXCEPT ![s] = l3]
      /\ ballot' = [ballot EXCEPT ![s] = b3]
      /\ \/ Elected(s, b3, l3) = {} /\ UNCHANGED paxosVars
         \/ \E n \in Elected(s, b3, l3) : handle_leader(s, n)
  BY DEF HbTimeout
<1>2. /\ ballot[s] \in Ballots /\ leader[s] \in Ballots /\ promise[s] \in Ballots
      /\ DOMAIN leader = Nodes /\ DOMAIN ballot = Nodes
      /\ \A r \in replies[s] : r.ballot \in Ballots
  BY DEF BallotInv, TypeOK, Replies
<1>3. l1 \in Seen(s) /\ AtMost(leader[s], l1)
  <2>1. PICK b \in Seen(s) : \A c \in Seen(s) : AtMost(c, b)
    BY DEF BallotInv, HasLargest
  <2>2. l1 = CHOOSE x \in Seen(s) : \A c \in Seen(s) : AtMost(c, x)
    BY DEF update_leader, Seen
  <2>3. l1 \in Seen(s) /\ \A c \in Seen(s) : AtMost(c, l1)
    BY <2>1, <2>2
  <2> QED
    BY <2>3 DEF Seen
<1>4. l1 \in Ballots
  BY <1>2, <1>3 DEF Seen
<1> HIDE DEF l1
<1>5. /\ b2 \in Ballots /\ b2.pid = s
      /\ AtMost(l1, l2) /\ AtMost(ballot[s], b2) /\ AtMost(b2, l2)
      /\ l2 \in Ballots /\ (l2 = b2 \/ l2 \in Seen(s))
  <2>1. ballot[s].pid = s /\ AtMost(ballot[s], leader[s])
    BY DEF BallotInv, OwnBallots
  <2>2. AtMost(ballot[s], l1)
    BY <1>2, <1>3, <1>4, <2>1, BallotOrder
  <2>3. CASE t
    <3> DEFINE b == [ballot[s] EXCEPT !.n = l1.n + 1]
    <3>1. b2 = b /\ l2 = b
      BY <2>3 DEF TakeoverBallot
    <3>2. b \in Ballots /\ b.pid = s /\ b.n = l1.n + 1 /\ l1.n \in Nat
      BY <1>2, <1>4, <2>1 DEF Ballots
    <3>3. Less(l1, b)
      BY <3>2 DEF Less
    <3> HIDE DEF b
    <3>4. AtMost(l1, b) /\ AtMost(ballot[s], b) /\ AtMost(b, b)
      BY <1>2, <1>4, <2>2, <3>2, <3>3, BallotOrder
    <3> QED
      BY <3>1, <3>2, <3>4
  <2>4. CASE ~t
    <3>1. b2 = ballot[s] /\ l2 = l1
      BY <2>4
    <3> QED
      BY <1>2, <1>3, <1>4, <2>1, <2>2, <3>1, BallotOrder
  <2> QED
    BY <2>3, <2>4
<1> HIDE DEF t, b2, l2
<1>6. /\ l3 \in Ballots /\ b3 \in Ballots /\ b3.pid = s
      /\ AtMost(l2, l3) /\ AtMost(b2, b3) /\ AtMost(b3, l3)
      /\ l3 = b3 \/ l3 \in Seen(s)
  <2>1. CASE p
    <3>1. l2.n \in Nat /\ l2.priority \in Nat /\ l2.pid \in Nat
      BY <1>5 DEF Ballots
    <3>2. promise[s] # DefaultBallot
      BY <2>1, <3>1 DEF Less, DefaultBallot
    <3>3. promise[s].pid = s
      BY <3>2 DEF BallotInv, OwnBallots
    <3>4. l3 = promise[s] /\ b3 = promise[s]
      BY <2>1, <3>3
    <3> QED
      BY <1>2, <1>5, <2>1, <3>3, <3>4, BallotOrder
  <2>2. CASE ~p
    BY <1>5, <2>2, BallotOrder
  <2> QED
    BY <2>1, <2>2
<1>7. AtMost(leader[s], l3) /\ AtMost(ballot[s], b3)
  BY <1>2, <1>3, <1>4, <1>5, <1>6, BallotOrder
<1> HIDE DEF l3, b3
<1>8. leader'[s] = l3 /\ ballot'[s] = b3
  BY <1>1, <1>2
<1>9. UNCHANGED paxosVars \/ handle_leader(s, b3)
  BY <1>1 DEF Elected
<1> QED
  BY <1>1, <1>6, <1>7, <1>8, <1>9

-----------------------------------------------------------------------------
\* What handle_leader does with a ballot of the server's own: the promise only
\* grows.
LEMMA HandleLeaderOwn ==
  ASSUME TypeOK, OwnBallots, NEW s \in Nodes, NEW n \in Ballots, n.pid = s,
         handle_leader(s, n)
  PROVE  /\ role' \in [Nodes -> {"Follower", "Leader"}]
         /\ promise' \in [Nodes -> Ballots] /\ n_leader' \in [Nodes -> Ballots]
         /\ \A t \in Nodes : \/ promise'[t] = promise[t]
                             \/ promise'[t].pid = t /\ AtMost(promise[t], promise'[t])
         /\ \A t \in Nodes : AtMost(promise[t], promise'[t])
 <1> DEFINE new == ~AtMost(n, n_leader[s]) /\ ~AtMost(n, promise[s])
<1>1. /\ role' = [role EXCEPT ![s] = IF new THEN "Leader" ELSE @]
      /\ promise' = [promise EXCEPT ![s] = IF new THEN n ELSE @]
      /\ n_leader' = [n_leader EXCEPT ![s] = IF new THEN n ELSE @]
  <2>1. CASE new
    BY <2>1 DEF handle_leader
  <2>2. CASE ~new
    BY <2>2 DEF handle_leader
  <2> QED
    BY <2>1, <2>2
<1>2. /\ role \in [Nodes -> {"Follower", "Leader"}]
      /\ promise \in [Nodes -> Ballots] /\ n_leader \in [Nodes -> Ballots]
  BY DEF TypeOK
<1>3. new => AtMost(promise[s], n)
  BY <1>2, BallotOrder
<1> HIDE DEF new
<1>4. \A t \in Nodes : AtMost(promise[t], promise[t])
  BY <1>2, BallotOrder
<1>5. promise'[s] = (IF new THEN n ELSE promise[s]) /\ \A t \in Nodes \ {s} : promise'[t] = promise[t]
  BY <1>1, <1>2
<1> QED
  BY <1>1, <1>2, <1>3, <1>4, <1>5

\* The invariant is inductive, and no step takes a ballot, a leader or a promise
\* back.
LEMMA BallotInvNext ==
  ASSUME BallotInv, [Next]_vars
  PROVE  /\ BallotInv'
         /\ \A s \in Nodes : /\ AtMost(ballot[s], ballot'[s])
                             /\ AtMost(leader[s], leader'[s])
                             /\ AtMost(promise[s], promise'[s])
<1> DEFINE Grows == \A s \in Nodes : /\ AtMost(ballot[s], ballot'[s])
                                     /\ AtMost(leader[s], leader'[s])
                                     /\ AtMost(promise[s], promise'[s])
<1> USE DEF BallotInv
<1>0. /\ ballot \in [Nodes -> Ballots] /\ leader \in [Nodes -> Ballots]
      /\ promise \in [Nodes -> Ballots] /\ n_leader \in [Nodes -> Ballots]
      /\ happy \in [Nodes -> BOOLEAN] /\ round \in [Nodes -> Nat]
      /\ started \in [Nodes -> BOOLEAN] /\ net \subseteq Requests \cup Replies \cup Starts
  BY DEF TypeOK
<1>00. /\ \A s \in Nodes : AtMost(ballot[s], ballot[s])
       /\ \A s \in Nodes : AtMost(leader[s], leader[s])
       /\ \A s \in Nodes : AtMost(promise[s], promise[s])
  BY <1>0, BallotOrder
<1>1. ASSUME NEW s \in Nodes, TryBecomeLeader(s) PROVE BallotInv' /\ Grows
  <2> USE <1>1
  <2> DEFINE n == [ballot[s] EXCEPT !.n = promise[s].n + 1]
  <2>1. n \in Ballots /\ n.pid = s
    <3>1. ballot[s] \in Ballots /\ promise[s].n \in Nat /\ ballot[s].pid = s
      BY <1>0 DEF OwnBallots, Ballots
    <3> QED
      BY <3>1 DEF Ballots
  <2>2. handle_leader(s, n) /\ UNCHANGED <<bleVars, started, net, linkVars>>
    BY DEF TryBecomeLeader
  <2> HIDE DEF n
  <2>3. /\ role' \in [Nodes -> {"Follower", "Leader"}]
        /\ promise' \in [Nodes -> Ballots] /\ n_leader' \in [Nodes -> Ballots]
        /\ \A t \in Nodes : promise'[t] = promise[t] \/ promise'[t].pid = t
        /\ \A t \in Nodes : AtMost(promise[t], promise'[t])
    BY <2>1, <2>2, HandleLeaderOwn
  <2>4. TypeOK'
    BY <2>2, <2>3 DEF TypeOK, bleVars, linkVars
  <2>5. OwnBallots'
    BY <2>2, <2>3 DEF OwnBallots, bleVars
  <2>6. RepliesReal' /\ HasLargest' /\ LeadersReal'
    BY <2>2 DEF RepliesReal, Reported, Real, HasLargest, Seen, LeadersReal, bleVars
  <2> QED
    BY <2>2, <2>3, <2>4, <2>5, <2>6, <1>00 DEF bleVars
<1>2. ASSUME NEW s \in Nodes, SendStartSignals(s) PROVE BallotInv' /\ Grows
  <2> USE <1>2
  <2>1. /\ UNCHANGED <<bleVars, paxosVars, linkVars>>
        /\ started' = [started EXCEPT ![s] = TRUE]
        /\ \A m \in net' : m \in net \/ m \in Starts
    BY DEF SendStartSignals, Sendable, Starts
  <2>2. TypeOK'
    BY <2>1 DEF TypeOK, bleVars, paxosVars, linkVars
  <2>3. RepliesReal'
    BY <2>1 DEF RepliesReal, Reported, Real, bleVars, Starts
  <2>4. OwnBallots' /\ HasLargest' /\ LeadersReal'
    BY <2>1 DEF OwnBallots, HasLargest, Seen, LeadersReal, Real, bleVars, paxosVars
  <2> QED
    BY <2>1, <2>2, <2>3, <2>4, <1>00 DEF bleVars, paxosVars
<1>3. ASSUME NEW s \in Nodes, HbTimeout(s) PROVE BallotInv' /\ Grows
  <2> USE <1>3
  <2>1. /\ leader'[s] \in Ballots /\ ballot'[s] \in Ballots
        /\ leader' = [leader EXCEPT ![s] = leader'[s]]
        /\ ballot' = [ballot EXCEPT ![s] = ballot'[s]]
        /\ ballot'[s].pid = s
        /\ AtMost(ballot[s], ballot'[s]) /\ AtMost(ballot'[s], leader'[s])
        /\ AtMost(leader[s], leader'[s])
        /\ leader'[s] = ballot'[s] \/ leader'[s] \in Seen(s)
        /\ UNCHANGED paxosVars \/ handle_leader(s, ballot'[s])
    BY HbTimeoutFacts
  <2>2. /\ happy' \in [Nodes -> BOOLEAN]
        /\ round' = [round EXCEPT ![s] = @ + 1]
        /\ replies' = [replies EXCEPT ![s] = {}]
        /\ net' = net \cup Sendable(HbRequests(s, round[s] + 1))
        /\ UNCHANGED <<started, linkVars>>
    <3>1. \E v \in BOOLEAN : happy' = [happy EXCEPT ![s] = v]
      BY DEF HbTimeout, update_happiness, check_takeover
    <3> QED
      BY <1>0, <3>1 DEF HbTimeout
  <2>3. /\ role' \in [Nodes -> {"Follower", "Leader"}]
        /\ promise' \in [Nodes -> Ballots] /\ n_leader' \in [Nodes -> Ballots]
        /\ \A t \in Nodes : promise'[t] = promise[t] \/ promise'[t].pid = t
        /\ \A t \in Nodes : AtMost(promise[t], promise'[t])
    <3>1. CASE UNCHANGED paxosVars
      BY <3>1, <1>00 DEF TypeOK, paxosVars
    <3>2. CASE handle_leader(s, ballot'[s])
      BY <2>1, <3>2, HandleLeaderOwn
    <3> QED
      BY <2>1, <3>1, <3>2
  <2>4. /\ ballot' \in [Nodes -> Ballots] /\ leader' \in [Nodes -> Ballots]
        /\ \A t \in Nodes \ {s} : ballot'[t] = ballot[t] /\ leader'[t] = leader[t]
        /\ \A t \in Nodes : AtMost(ballot[t], ballot'[t]) /\ AtMost(leader[t], leader'[t])
    BY <1>0, <2>1, BallotOrder
  <2>5. /\ \A t \in Nodes \ {s} : replies'[t] = replies[t] /\ round'[t] = round[t]
        /\ replies'[s] = {} /\ DOMAIN replies' = Nodes /\ round' \in [Nodes -> Nat]
    BY <1>0, <2>2 DEF TypeOK
  <2>6. \A m \in net' : m \in net \/ m \in Requests
    BY <1>0, <2>2 DEF Sendable, HbRequests, Requests
  <2>7. TypeOK'
    <3>1. \A t \in Nodes : replies'[t] \subseteq {m \in Replies : m.to = t /\ m.round = round'[t]}
      BY <2>5 DEF TypeOK
    <3>2. links' \subseteq AllLinks /\ brokenAt' \in Nat /\ started' \in [Nodes -> BOOLEAN]
      BY <2>2 DEF TypeOK, linkVars
    <3>3. net' \subseteq Requests \cup Replies \cup Starts
      BY <1>0, <2>6
    <3> QED
      BY <2>2, <2>3, <2>4, <2>5, <3>1, <3>2, <3>3 DEF TypeOK
  <2>8. OwnBallots'
    BY <2>1, <2>3, <2>4 DEF OwnBallots
  <2>9. RepliesReal'
    <3>0. ASSUME NEW b \in Ballots, Real(b) PROVE Real(b)'
      BY <1>0, <2>4, <3>0, BallotOrder DEF Real
    <3>1. ASSUME NEW m \in Replies, Reported(m) PROVE Reported(m)'
      BY <3>0, <3>1 DEF Reported, Replies
    <3>2. \A m \in net' : m.kind = "reply" => m \in net /\ m \in Replies
      BY <1>0, <2>6 DEF Requests, Starts
    <3>3. \A t \in Nodes : \A m \in replies'[t] : m \in replies[t] /\ m \in Replies
      BY <2>5 DEF TypeOK
    <3> QED
      BY <3>1, <3>2, <3>3 DEF RepliesReal
  <2>10. HasLargest'
    <3> SUFFICES ASSUME NEW t \in Nodes
                 PROVE  \E b \in Seen(t)' : \A c \in Seen(t)' : AtMost(c, b)
      BY DEF HasLargest
    <3>1. CASE t = s
      BY <2>1, <2>5, <3>1, BallotOrder DEF Seen
    <3>2. CASE t # s
      BY <2>4, <2>5, <3>2 DEF HasLargest, Seen
    <3> QED
      BY <3>1, <3>2
  <2>11. LeadersReal'
    <3>2. \A b \in Seen(s) : b \in Ballots /\ Real(b)
      BY <1>0 DEF Seen, LeadersReal, RepliesReal, Reported, TypeOK, Replies
    <3>3. Real(leader[s])'
      <4>1. CASE leader'[s] \in Seen(s)
        <5> DEFINE b == leader'[s]
        <5>1. b \in Ballots /\ b.pid \in Nodes /\ AtMost(b, ballot[b.pid])
          BY <3>2, <4>1 DEF Real
        <5>2. /\ ballot[b.pid] \in Ballots /\ ballot'[b.pid] \in Ballots
              /\ AtMost(ballot[b.pid], ballot'[b.pid])
          BY <1>0, <2>4, <5>1
        <5> HIDE DEF b
        <5>3. AtMost(b, ballot'[b.pid])
          BY <5>1, <5>2, BallotOrder
        <5> QED
          BY <5>1, <5>3 DEF Real, b
      <4>2. CASE leader'[s] = ballot'[s]
        BY <2>1, <4>2, BallotOrder DEF Real
      <4> QED
        BY <2>1, <4>1, <4>2
    <3>4. \A t \in Nodes \ {s} : Real(leader[t])'
      <4>1. ASSUME NEW t \in Nodes \ {s} PROVE Real(leader[t])'
        <5>1. leader[t] \in Ballots /\ Real(leader[t]) /\ leader'[t] = leader[t]
          BY <1>0, <2>4 DEF LeadersReal
        <5>2. AtMost(ballot[leader[t].pid], ballot'[leader[t].pid])
              /\ ballot[leader[t].pid] \in Ballots /\ ballot'[leader[t].pid] \in Ballots
          BY <1>0, <2>4, <5>1 DEF Real
        <5> QED
          BY <5>1, <5>2, BallotOrder DEF Real
      <4> QED
        BY <4>1
    <3> QED
      BY <3>3, <3>4 DEF LeadersReal
  <2> QED
    BY <2>3, <2>4, <2>7, <2>8, <2>9, <2>10, <2>11
<1>4. ASSUME NEW m \in net, HandleStart(m) PROVE BallotInv' /\ Grows
  <2> USE <1>4
  <2>1. /\ UNCHANGED <<bleVars, paxosVars, linkVars>>
        /\ started' = [started EXCEPT ![m.to] = TRUE]
        /\ net' \subseteq net
    BY DEF HandleStart
  <2>2. TypeOK'
    BY <2>1 DEF TypeOK, bleVars, paxosVars, linkVars
  <2>3. RepliesReal' /\ OwnBallots' /\ HasLargest' /\ LeadersReal'
    BY <2>1 DEF RepliesReal, Reported, Real, OwnBallots, HasLargest, Seen, LeadersReal, bleVars,
           paxosVars
  <2> QED
    BY <2>1, <2>2, <2>3, <1>00 DEF bleVars, paxosVars
<1>5. ASSUME NEW m \in net, HandleRequest(m) PROVE BallotInv' /\ Grows
  <2> USE <1>5
  <2> DEFINE a == [kind |-> "reply", from |-> m.to, to |-> m.from, round |-> m.round,
                   ballot |-> ballot[m.to], leader |-> leader[m.to], happy |-> happy[m.to]]
  <2>1. m \in Requests
    BY <1>0 DEF HandleRequest, Replies, Starts
  <2>2. a \in Replies /\ Reported(a)
    BY <1>0, <2>1, BallotOrder DEF Requests, Replies, Reported, Real, OwnBallots, LeadersReal
  <2>3. \A x \in net' : x \in net \/ x = a
    BY DEF HandleRequest, Sendable
  <2>4. UNCHANGED <<bleVars, paxosVars, started, linkVars>>
    BY DEF HandleRequest
  <2> HIDE DEF a
  <2>5. net' \subseteq Requests \cup Replies \cup Starts
    BY <1>0, <2>2, <2>3
  <2>6. TypeOK'
    BY <2>4, <2>5 DEF TypeOK, bleVars, paxosVars, linkVars
  <2>7. RepliesReal'
    BY <2>2, <2>3, <2>4 DEF RepliesReal, Reported, Real, bleVars
  <2>8. OwnBallots' /\ HasLargest' /\ LeadersReal'
    BY <2>4 DEF OwnBallots, HasLargest, Seen, LeadersReal, Real, bleVars, paxosVars
  <2> QED
    BY <2>4, <2>6, <2>7, <2>8, <1>00 DEF bleVars, paxosVars
<1>6. ASSUME NEW m \in net, HandleReply(m) PROVE BallotInv' /\ Grows
  <2> USE <1>6
  <2>1. m \in Replies /\ Reported(m)
    BY <1>0 DEF HandleReply, Requests, Starts, RepliesReal
  <2>2. /\ net' \subseteq net
        /\ replies' = IF InRound(m) THEN [replies EXCEPT ![m.to] = @ \cup {m}] ELSE replies
        /\ UNCHANGED <<ballot, leader, happy, round, paxosVars, started, linkVars>>
    BY DEF HandleReply
  <2>3. /\ DOMAIN replies' = Nodes
        /\ \A t \in Nodes : \/ replies'[t] = replies[t]
                            \/ t = m.to /\ m.round = round[t] /\ replies'[t] = replies[t] \cup {m}
    BY <2>1, <2>2 DEF TypeOK, InRound
  <2>4. TypeOK'
    <3>1. \A t \in Nodes : replies'[t] \subseteq {x \in Replies : x.to = t /\ x.round = round'[t]}
      BY <2>1, <2>2, <2>3 DEF TypeOK
    <3> QED
      BY <2>2, <2>3, <3>1 DEF TypeOK, paxosVars, linkVars
  <2>5. RepliesReal'
    BY <2>1, <2>2, <2>3 DEF RepliesReal, Reported, Real
  <2>6. OwnBallots' /\ LeadersReal'
    BY <2>2 DEF OwnBallots, LeadersReal, Real, paxosVars
  <2>7. HasLargest'
    <3> SUFFICES ASSUME NEW t \in Nodes
                 PROVE  \E b \in Seen(t)' : \A c \in Seen(t)' : AtMost(c, b)
      BY DEF HasLargest
    <3>1. PICK b \in Seen(t) : \A c \in Seen(t) : AtMost(c, b)
      BY DEF HasLargest
    <3>2. \A c \in Seen(t) : c \in Ballots
      BY <1>0 DEF Seen, TypeOK, Replies
    <3>3. m.ballot \in Ballots
      BY <2>1 DEF Replies
    <3>4. CASE replies'[t] = replies[t]
      BY <2>2, <3>1, <3>4 DEF Seen
    <3>5. CASE replies'[t] = replies[t] \cup {m}
      <4>1. Seen(t)' = Seen(t) \cup {m.ballot}
        BY <2>2, <3>5 DEF Seen
      <4>2. CASE AtMost(m.ballot, b)
        BY <3>1, <4>1, <4>2
      <4>3. CASE Less(b, m.ballot)
        BY <3>1, <3>2, <3>3, <4>1, <4>3, BallotOrder
      <4> QED
        BY <3>2, <3>3, <4>2, <4>3, BallotOrder
    <3> QED
      BY <2>3, <3>4, <3>5
  <2> QED
    BY <2>2, <2>4, <2>5, <2>6, <2>7, <1>00 DEF paxosVars
<1>7. ASSUME NEW broken \in Breakages, Break(broken) PROVE BallotInv' /\ Grows
  <2> USE <1>7
  <2>1. UNCHANGED <<bleVars, paxosVars, started>> /\ net' \subseteq net
    BY DEF Break
  <2>2. links' \subseteq AllLinks /\ brokenAt' \in Nat
    BY <1>0 DEF Break, TypeOK
  <2>3. TypeOK'
    BY <2>1, <2>2 DEF TypeOK, bleVars, paxosVars
  <2>4. RepliesReal' /\ OwnBallots' /\ HasLargest' /\ LeadersReal'
    BY <2>1 DEF RepliesReal, Reported, Real, OwnBallots, HasLargest, Seen, LeadersReal, bleVars,
           paxosVars
  <2> QED
    BY <2>1, <2>3, <2>4, <1>00 DEF bleVars, paxosVars
<1>8. CASE UNCHANGED vars
  <2>1. UNCHANGED <<bleVars, paxosVars, started, net, linkVars>>
    BY <1>8 DEF vars
  <2>2. TypeOK'
    BY <2>1 DEF TypeOK, bleVars, paxosVars, linkVars
  <2>3. RepliesReal' /\ OwnBallots' /\ HasLargest' /\ LeadersReal'
    BY <2>1 DEF RepliesReal, Reported, Real, OwnBallots, HasLargest, Seen, LeadersReal, bleVars,
           paxosVars
  <2> QED
    BY <2>1, <2>2, <2>3, <1>00 DEF bleVars, paxosVars
<1> QED
  BY <1>1, <1>2, <1>3, <1>4, <1>5, <1>6, <1>7, <1>8 DEF Next

\* What is true of ballots is true in every state.
LEMMA BallotInvAlways == Spec => []BallotInv
<1>1. Init => BallotInv
  <2> SUFFICES ASSUME Init PROVE BallotInv
    OBVIOUS
  <2>1. \A s \in Nodes : InitialBallot(s) \in Ballots /\ InitialBallot(s).pid = s
    BY NodesAssumption, BallotAssumption DEF InitialBallot, Ballots
  <2>2. DefaultBallot \in Ballots
    BY DEF DefaultBallot, Ballots
  <2>3. net \subseteq Requests
    BY DEF Init, HbRequests, Requests
  <2>4. TypeOK
    BY <2>1, <2>2, <2>3 DEF Init, TypeOK
  <2>5. /\ \A s \in Nodes : ballot[s] = InitialBallot(s) /\ leader[s] = InitialBallot(s)
        /\ \A s \in Nodes : promise[s] = DefaultBallot /\ replies[s] = {}
    BY DEF Init
  <2>6. OwnBallots /\ LeadersReal /\ HasLargest
    BY <2>1, <2>5, BallotOrder DEF OwnBallots, LeadersReal, Real, HasLargest, Seen
  <2>7. RepliesReal
    BY <2>3, <2>5 DEF RepliesReal, Requests
  <2> QED
    BY <2>4, <2>6, <2>7 DEF BallotInv
<1>2. BallotInv /\ [Next]_vars => BallotInv'
  BY BallotInvNext
<1> QED
  BY <1>1, <1>2, PTL DEF Spec

\* The state of every server is well typed, and a reply kept by a server is one
\* to the request of its current round (handle_reply, new_hb_round).
THEOREM ElectionTypes == Spec => []TypeOK
<1>1. BallotInv => TypeOK
  BY DEF BallotInv
<1> QED
  BY <1>1, BallotInvAlways, PTL

\* Nobody follows or is told of a ballot that its owner has not had, whatever
\* replies are lost or late and whoever takes over, and nobody promises another
\* server's ballot (update_leader, hb_timeout, handle_request, handle_leader).
THEOREM LeadersAreReal == Spec => []FollowsRealBallot
<1>1. BallotInv => FollowsRealBallot
  BY DEF BallotInv, FollowsRealBallot, OwnBallots, RepliesReal, LeadersReal
<1> QED
  BY <1>1, BallotInvAlways, PTL

\* The ballot, the leader and the promise of a server never fall back
\* (update_leader, check_takeover, hb_timeout, handle_leader).
THEOREM BallotsGrow == Spec => BallotsOnlyGrow
<1>1. BallotInv /\ [Next]_vars =>
        [\A s \in Nodes : /\ AtMost(ballot[s], ballot'[s])
                          /\ AtMost(leader[s], leader'[s])
                          /\ AtMost(promise[s], promise'[s])]_vars
  BY BallotInvNext
<1> QED
  BY <1>1, BallotInvAlways, PTL DEF Spec, BallotsOnlyGrow

-----------------------------------------------------------------------------
\* Every request of a round is answered at most once.

\* The replies to s that are on their way or have been kept.
Answers(s) == {m \in net : m.kind = "reply" /\ m.to = s} \cup replies[s]

\* No request or answer is of a later round than its server's; a peer that has
\* still to be asked has not answered, and one that has answered has done so
\* once.
AskedOnce ==
  \A s \in Nodes :
    /\ \A m \in net : m.kind = "request" /\ m.from = s =>
         /\ m.round <= round[s] /\ m.to # s
         /\ \A a \in Answers(s) : a.from # m.to \/ a.round # m.round
    /\ \A a \in Answers(s) : a.round <= round[s] /\ a.from # s
    /\ \A a, b \in Answers(s) : a.from = b.from /\ a.round = b.round => a = b

\* A peer answers a request once and hb_timeout empties what it counts, so no
\* answer of a round is there twice.
LEMMA AskedOnceNext ==
  ASSUME TypeOK, TypeOK', AskedOnce, [Next]_vars
  PROVE  AskedOnce'
<1>0. /\ round \in [Nodes -> Nat] /\ net \subseteq Requests \cup Replies \cup Starts
      /\ \A s \in Nodes : replies[s] \subseteq {m \in Replies : m.to = s /\ m.round = round[s]}
      /\ DOMAIN replies = Nodes
  BY DEF TypeOK
<1>1. ASSUME UNCHANGED <<round, replies>>,
             \A m \in net' : m \in net \/ m.kind = "start"
      PROVE  AskedOnce'
  BY <1>1 DEF AskedOnce, Answers
<1>2. ASSUME NEW s \in Nodes, HbTimeout(s) PROVE AskedOnce'
  <2> USE <1>2
  <2>1. /\ round' = [round EXCEPT ![s] = @ + 1]
        /\ replies' = [replies EXCEPT ![s] = {}]
        /\ net' = net \cup Sendable(HbRequests(s, round[s] + 1))
    BY DEF HbTimeout
  <2>2. /\ round'[s] = round[s] + 1 /\ replies'[s] = {}
        /\ \A t \in Nodes \ {s} : round'[t] = round[t] /\ replies'[t] = replies[t]
    BY <1>0, <2>1
  <2>3. \A m \in net' : \/ m \in net
                        \/ /\ m.kind = "request" /\ m.from = s /\ m.to # s
                           /\ m.round = round[s] + 1
    BY <2>1 DEF Sendable, HbRequests
  <2>4. \A t \in Nodes : Answers(t)' \subseteq Answers(t)
    BY <2>2, <2>3 DEF Answers
  <2>5. \A t \in Nodes : round[t] \in Nat /\ round'[t] \in Nat /\ round[t] <= round'[t]
    BY <1>0, <2>2
  <2>6. \A t \in Nodes : \A a \in Answers(t) : a.round \in Nat
    BY <1>0 DEF Answers, Replies, Requests, Starts
  <2>7. \A m \in net : m.kind = "request" => m.round \in Nat
    BY <1>0 DEF Replies, Requests, Starts
  <2> SUFFICES ASSUME NEW t \in Nodes
               PROVE  /\ \A m \in net' : m.kind = "request" /\ m.from = t =>
                           /\ m.round <= round'[t] /\ m.to # t
                           /\ \A a \in Answers(t)' : a.from # m.to \/ a.round # m.round
                      /\ \A a \in Answers(t)' : a.round <= round'[t] /\ a.from # t
                      /\ \A a, b \in Answers(t)' : a.from = b.from /\ a.round = b.round => a = b
    BY DEF AskedOnce
  <2>8. \A a \in Answers(t)' : a.round <= round[t] /\ a.round <= round'[t] /\ a.from # t
    BY <2>4, <2>5, <2>6 DEF AskedOnce
  <2>9. \A a, b \in Answers(t)' : a.from = b.from /\ a.round = b.round => a = b
    BY <2>4 DEF AskedOnce
  <2>10. ASSUME NEW m \in net', m.kind = "request", m.from = t
         PROVE  /\ m.round <= round'[t] /\ m.to # t
                /\ \A a \in Answers(t)' : a.from # m.to \/ a.round # m.round
    <3>1. CASE m \in net
      BY <2>4, <2>5, <2>7, <2>10, <3>1 DEF AskedOnce
    <3>2. CASE m \notin net
      BY <2>2, <2>3, <2>5, <2>6, <2>8, <2>4, <2>10, <3>2
    <3> QED
      BY <3>1, <3>2
  <2> QED
    BY <2>8, <2>9, <2>10
<1>3. ASSUME NEW m \in net, HandleRequest(m) PROVE AskedOnce'
  <2> USE <1>3
  <2> DEFINE a == [kind |-> "reply", from |-> m.to, to |-> m.from, round |-> m.round,
                   ballot |-> ballot[m.to], leader |-> leader[m.to], happy |-> happy[m.to]]
  <2>1. m \in Requests /\ m.kind = "request"
    BY <1>0 DEF HandleRequest, Replies, Starts
  <2>2. UNCHANGED <<round, replies>>
    BY DEF HandleRequest, bleVars
  <2>3. \A x \in net' : x \in net \ {m} \/ x = a
    BY DEF HandleRequest, Sendable
  <2>4. a.kind = "reply" /\ a.from = m.to /\ a.to = m.from /\ a.round = m.round
    OBVIOUS
  <2> HIDE DEF a
  <2>5. \A x \in net : x.kind = "request" => x \in Requests
    BY <1>0 DEF Replies, Starts
  <2>6. \A x, y \in Requests : x.from = y.from /\ x.to = y.to /\ x.round = y.round => x = y
    BY DEF Requests
  <2> SUFFICES ASSUME NEW t \in Nodes
               PROVE  /\ \A x \in net' : x.kind = "request" /\ x.from = t =>
                           /\ x.round <= round[t] /\ x.to # t
                           /\ \A b \in Answers(t)' : b.from # x.to \/ b.round # x.round
                      /\ \A b \in Answers(t)' : b.round <= round[t] /\ b.from # t
                      /\ \A b, c \in Answers(t)' : b.from = c.from /\ b.round = c.round => b = c
    BY <2>2 DEF AskedOnce
  <2>7. \A b \in Answers(t)' : b \in Answers(t) \/ (b = a /\ t = m.from)
    BY <2>2, <2>3, <2>4 DEF Answers
  <2>8. t = m.from => /\ m.round <= round[t] /\ m.to # t
                      /\ \A b \in Answers(t) : b.from # m.to \/ b.round # m.round
    BY <2>1 DEF AskedOnce
  <2>9. \A b \in Answers(t)' : b.round <= round[t] /\ b.from # t
    BY <2>4, <2>7, <2>8 DEF AskedOnce
  <2>10. \A b, c \in Answers(t)' : b.from = c.from /\ b.round = c.round => b = c
    BY <2>4, <2>7, <2>8 DEF AskedOnce
  <2>11. ASSUME NEW x \in net', x.kind = "request", x.from = t
         PROVE  /\ x.round <= round[t] /\ x.to # t
                /\ \A b \in Answers(t)' : b.from # x.to \/ b.round # x.round
    <3>1. x \in net /\ x # m
      BY <2>3, <2>4, <2>11
    <3>2. t = m.from => x.to # m.to \/ x.round # m.round
      BY <2>1, <2>5, <2>6, <2>11, <3>1
    <3> QED
      BY <2>4, <2>7, <2>11, <3>1, <3>2 DEF AskedOnce
  <2> QED
    BY <2>9, <2>10, <2>11
<1>4. ASSUME NEW m \in net, HandleReply(m) PROVE AskedOnce'
  <2> USE <1>4
  <2>1. m \in Replies /\ m.kind = "reply"
    BY <1>0 DEF HandleReply, Requests, Starts
  <2>2. net' = net \ {m} /\ round' = round
    BY DEF HandleReply
  <2>3. \A t \in Nodes : \/ replies'[t] = replies[t]
                         \/ t = m.to /\ replies'[t] = replies[t] \cup {m}
    BY <1>0, <2>1 DEF HandleReply
  <2>4. \A t \in Nodes : Answers(t)' \subseteq Answers(t)
    BY <2>1, <2>2, <2>3 DEF Answers
  <2> QED
    BY <2>2, <2>4 DEF AskedOnce
<1>5. ASSUME NEW s \in Nodes, TryBecomeLeader(s) PROVE AskedOnce'
  BY <1>1, <1>5 DEF TryBecomeLeader, bleVars
<1>6. ASSUME NEW s \in Nodes, SendStartSignals(s) PROVE AskedOnce'
  <2>1. \A m \in net' : m \in net \/ m.kind = "start"
    BY <1>6 DEF SendStartSignals, Sendable
  <2> QED
    BY <1>1, <1>6, <2>1 DEF SendStartSignals, bleVars
<1>7. ASSUME NEW m \in net, HandleStart(m) PROVE AskedOnce'
  BY <1>1, <1>7 DEF HandleStart, bleVars
<1>8. ASSUME NEW broken \in Breakages, Break(broken) PROVE AskedOnce'
  BY <1>1, <1>8 DEF Break, bleVars
<1>9. CASE UNCHANGED vars
  BY <1>1, <1>9 DEF vars, bleVars
<1> QED
  BY <1>2, <1>3, <1>4, <1>5, <1>6, <1>7, <1>8, <1>9 DEF Next

\* No answer of a round is ever there twice.
LEMMA AskedOnceAlways == Spec => []AskedOnce
<1>1. Init => AskedOnce
  <2> SUFFICES ASSUME Init PROVE AskedOnce
    OBVIOUS
  <2>1. \A m \in net : m.kind = "request" /\ m.round = 1 /\ m.to # m.from
    BY DEF Init, HbRequests
  <2>2. \A s \in Nodes : round[s] = 1 /\ Answers(s) = {}
    BY <2>1 DEF Init, Answers
  <2> QED
    BY <2>1, <2>2 DEF AskedOnce
<1>2. BallotInv /\ BallotInv' /\ AskedOnce /\ [Next]_vars => AskedOnce'
  BY AskedOnceNext DEF BallotInv
<1> QED
  BY <1>1, <1>2, BallotInvAlways, PTL DEF Spec

\* No peer is counted twice towards a quorum in one round, however its answers
\* are delayed (handle_request, handle_reply).
THEOREM PeersCountOnce == Spec => []HeardOnce
<1>1. TypeOK /\ AskedOnce => HeardOnce
  BY DEF TypeOK, AskedOnce, Answers, HeardOnce
<1>2. BallotInv => TypeOK
  BY DEF BallotInv
<1> QED
  BY <1>1, <1>2, BallotInvAlways, AskedOnceAlways, PTL

-----------------------------------------------------------------------------
\* No needless elections.

Initials == {InitialBallot(s) : s \in Nodes}

\* What is so while all links work and messages are timely: everyone is happy
\* with one of the ballots that the servers started with, and says so, and no
\* request or answer of the current rounds gets lost.
Quiet(m) == m.ballot = InitialBallot(m.from) /\ m.leader \in Initials /\ m.happy
Asked(s, p) == \E m \in net : /\ m.kind = "request" /\ m.from = s /\ m.to = p
                              /\ m.round = round[s]
Answered(s, p) == \E a \in Answers(s) : a.from = p /\ a.round = round[s]
Calm ==
  /\ links = AllLinks
  /\ \A s \in Nodes : /\ ballot[s] = InitialBallot(s) /\ leader[s] \in Initials
                      /\ happy[s] /\ round[s] > 0
                      /\ promise[s] \in {DefaultBallot, InitialBallot(s)}
                      /\ \A a \in Answers(s) : Quiet(a)
  /\ \A s \in Nodes : \A p \in Nodes \ {s} : Asked(s, p) \/ Answered(s, p)
CalmUntilBreak == Timely /\ brokenAt = 0 => Calm

\* Any two servers are linked to begin with.
LEMMA LinkedPairs ==
  \A s \in Nodes : \A p \in Nodes \ {s} : {s, p} \in AllLinks
<1> SUFFICES ASSUME NEW s \in Nodes, NEW p \in Nodes \ {s} PROVE {s, p} \in AllLinks
  OBVIOUS
<1>1. IsFiniteSet({s}) /\ Cardinality({s}) = 1
  BY FS_Singleton
<1>2. Cardinality({s} \cup {p}) = 2
  BY <1>1, FS_AddElement
<1>3. {s} \cup {p} = {s, p}
  OBVIOUS
<1> QED
  BY <1>2, <1>3 DEF AllLinks

\* A server that has heard of everyone, everyone being happy with a ballot of
\* the start, stays happy with the largest of them and does not take over.
LEMMA HbTimeoutCalm ==
  ASSUME BallotInv, AskedOnce, Calm, Timely, NEW s \in Nodes, HbTimeout(s)
  PROVE  /\ ballot' = ballot /\ happy' = happy
         /\ leader' = [leader EXCEPT ![s] = leader'[s]] /\ leader'[s] \in Initials
         /\ \A t \in Nodes : promise'[t] \in {DefaultBallot, InitialBallot(t)}
<1> DEFINE l1 == update_leader(s)
           h1 == update_happiness(s, l1)
           t1 == check_takeover(s, h1)
           b2 == IF t1 THEN TakeoverBallot(s, l1) ELSE ballot[s]
           l2 == IF t1 THEN b2 ELSE l1
           p1 == Less(l2, promise[s])
           l3 == IF p1 THEN promise[s] ELSE l2
           b3 == IF p1 /\ promise[s].pid = s THEN promise[s] ELSE b2
<1>0. /\ ballot \in [Nodes -> Ballots] /\ leader \in [Nodes -> Ballots]
      /\ promise \in [Nodes -> Ballots] /\ happy \in [Nodes -> BOOLEAN]
      /\ \A r \in replies[s] : r \in Replies /\ r.to = s /\ r.round = round[s]
  BY DEF BallotInv, TypeOK
<1>1. /\ leader' = [leader EXCEPT ![s] = l3]
      /\ ballot' = [ballot EXCEPT ![s] = b3]
      /\ happy' = [happy EXCEPT ![s] = h1 \/ t1 \/ p1]
      /\ \/ Elected(s, b3, l3) = {} /\ UNCHANGED paxosVars
         \/ \E n \in Elected(s, b3, l3) : handle_leader(s, n)
      /\ RoundComplete(s)
  BY DEF HbTimeout
<1>2. \A p \in Nodes \ {s} : \E r \in replies[s] : r.from = p
  <2> SUFFICES ASSUME NEW p \in Nodes \ {s} PROVE \E r \in replies[s] : r.from = p
    OBVIOUS
  <2>1. ~Asked(s, p)
    BY <1>1 DEF RoundComplete, Asked
  <2>2. Answered(s, p)
    BY <2>1 DEF Calm
  <2>3. PICK a \in Answers(s) : a.from = p /\ a.round = round[s]
    BY <2>2 DEF Answered
  <2>4. a \in replies[s]
    BY <1>1, <2>3 DEF RoundComplete, Answers
  <2> QED
    BY <2>3, <2>4
<1>3. \A r \in replies[s] : /\ r.ballot = InitialBallot(r.from) /\ r.leader \in Initials
                            /\ r.happy /\ r.from \in Nodes \ {s}
  BY <1>0 DEF Calm, Quiet, Answers, AskedOnce, Replies
<1>4. l1 \in Seen(s) /\ \A c \in Seen(s) : AtMost(c, l1)
  <2>1. PICK b \in Seen(s) : \A c \in Seen(s) : AtMost(c, b)
    BY DEF BallotInv, HasLargest
  <2>2. l1 = CHOOSE x \in Seen(s) : \A c \in Seen(s) : AtMost(c, x)
    BY DEF update_leader, Seen
  <2> QED
    BY <2>1, <2>2
<1> HIDE DEF l1
<1>5. l1 \in Initials
  BY <1>3, <1>4 DEF Seen, Calm, Initials
<1>6. h1
  <2>1. CASE l1 = ballot[s]
    <3>1. \A r \in replies[s] : AtMost(r.leader, ballot[s])
      <4> SUFFICES ASSUME NEW r \in replies[s] PROVE AtMost(r.leader, l1)
        BY <2>1
      <4>1. PICK q \in Nodes : r.leader = InitialBallot(q)
        BY <1>3 DEF Initials
      <4>2. CASE q = s
        BY <2>1, <4>1, <4>2 DEF Calm, AtMost
      <4>3. CASE q # s
        <5>1. PICK m \in replies[s] : m.from = q
          BY <1>2, <4>3
        <5>2. m.ballot \in Seen(s) /\ m.ballot = r.leader
          BY <1>3, <4>1, <5>1 DEF Seen
        <5> QED
          BY <1>4, <5>2
      <4> QED
        BY <4>2, <4>3
    <3>2. PotentialFollowers(s) = replies[s]
      BY <3>1 DEF PotentialFollowers
    <3>3. /\ IsFiniteSet(replies[s])
          /\ Cardinality(Nodes \ {s}) <= Cardinality(replies[s])
      <4> DEFINE f == [r \in replies[s] |-> r.from]
      <4>1. f \in Injection(replies[s], Nodes)
        <5>1. \A a, b \in replies[s] : a.from = b.from => a = b
          BY <1>0 DEF AskedOnce, Answers
        <5> QED
          BY <1>3, <5>1 DEF Injection, IsInjective
      <4>2. IsFiniteSet(replies[s])
        BY <4>1, FS_Injection, NodesAssumption
      <4>3. f \in Surjection(replies[s], Nodes \ {s})
        BY <1>2, <1>3 DEF Surjection
      <4> QED
        BY <4>2, <4>3, FS_Surjection
    <3>4. /\ Cardinality(Nodes \ {s}) = Cardinality(Nodes) - 1
          /\ Cardinality(Nodes) \in Nat /\ Cardinality(replies[s]) \in Nat
      BY <3>3, FS_RemoveElement, FS_CardinalityType, NodesAssumption
    <3>5. is_prepare_quorum(Cardinality(PotentialFollowers(s)) + 1)
      BY <3>2, <3>3, <3>4, BallotAssumption DEF is_prepare_quorum
    <3> QED
      BY <2>1, <3>5 DEF update_happiness
  <2>2. CASE l1 # ballot[s]
    <3>1. PICK q \in Nodes : l1 = InitialBallot(q)
      BY <1>5 DEF Initials
    <3>2. q # s
      BY <2>2, <3>1 DEF Calm
    <3>3. PICK m \in replies[s] : m.from = q
      BY <1>2, <3>2
    <3>4. m.ballot = l1 /\ m.happy
      BY <1>3, <3>1, <3>3
    <3> QED
      BY <2>2, <3>4 DEF update_happiness
  <2> QED
    BY <2>1, <2>2
<1>7. ~t1
  BY <1>6 DEF check_takeover
<1> HIDE DEF h1, t1
<1>8. b2 = ballot[s] /\ l2 = l1
  BY <1>7
<1>9. promise[s] \in {DefaultBallot, InitialBallot(s)} /\ ballot[s] = InitialBallot(s)
  BY DEF Calm
<1> HIDE DEF b2, l2
<1>10. l3 \in Initials /\ b3 = ballot[s]
  <2>1. CASE p1
    <3>1. l2 \in Ballots
      BY <1>5, <1>8, <1>0 DEF Initials, Calm
    <3>2. l2.n \in Nat /\ l2.priority \in Nat /\ l2.pid \in Nat
      BY <3>1 DEF Ballots
    <3>3. promise[s] # DefaultBallot
      BY <2>1, <3>2 DEF Less, DefaultBallot
    <3> QED
      BY <1>8, <1>9, <2>1, <3>3 DEF Initials
  <2>2. CASE ~p1
    BY <1>5, <1>8, <2>2
  <2> QED
    BY <2>1, <2>2
<1> HIDE DEF l3, b3, p1
<1>11. /\ ballot' = ballot /\ leader'[s] = l3
  BY <1>0, <1>1, <1>10
<1>12. happy' = happy
  <2>1. happy[s] = TRUE
    BY <1>0 DEF Calm
  <2>2. happy' = [happy EXCEPT ![s] = TRUE]
    BY <1>1, <1>6
  <2> QED
    BY <1>0, <2>1, <2>2
<1>13. \A t \in Nodes : promise'[t] \in {DefaultBallot, InitialBallot(t)}
  <2>1. UNCHANGED paxosVars \/ handle_leader(s, ballot[s])
    BY <1>1, <1>10 DEF Elected
  <2>2. promise' = promise \/ \E v \in {ballot[s], promise[s]} : promise' = [promise EXCEPT ![s] = v]
    BY <2>1 DEF paxosVars, handle_leader
  <2> QED
    BY <1>0, <1>9, <2>2 DEF Calm
<1> QED
  BY <1>1, <1>10, <1>11, <1>12, <1>13

\* Until a link breaks, no step of an execution without delays disturbs the
\* first leader.
LEMMA CalmNext ==
  ASSUME BallotInv, AskedOnce, CalmUntilBreak, [Next]_vars
  PROVE  CalmUntilBreak'
<1> SUFFICES ASSUME Timely, brokenAt' = 0 PROVE Calm'
  BY DEF CalmUntilBreak
<1>0. /\ ballot \in [Nodes -> Ballots] /\ leader \in [Nodes -> Ballots]
      /\ promise \in [Nodes -> Ballots] /\ round \in [Nodes -> Nat]
      /\ net \subseteq Requests \cup Replies \cup Starts /\ DOMAIN replies = Nodes
      /\ brokenAt \in Nat
  BY DEF BallotInv, TypeOK
<1>1. ASSUME brokenAt = 0, UNCHANGED <<bleVars, links>>,
             \A s \in Nodes : promise'[s] \in {DefaultBallot, InitialBallot(s)},
             \A m : m.kind # "start" => (m \in net' <=> m \in net)
      PROVE  Calm'
  <2> USE <1>1
  <2>1. Calm
    BY DEF CalmUntilBreak
  <2>2. UNCHANGED <<ballot, leader, happy, round, replies>>
    BY DEF bleVars
  <2>3. \A s \in Nodes : Answers(s)' = Answers(s)
    BY <2>2 DEF Answers
  <2>4. \A s, p \in Nodes : (Asked(s, p) => Asked(s, p)') /\ (Answered(s, p) => Answered(s, p)')
    BY <2>2, <2>3 DEF Asked, Answered
  <2> QED
    BY <2>1, <2>2, <2>3, <2>4 DEF Calm, Quiet
<1>2. ASSUME NEW s \in Nodes, TryBecomeLeader(s) PROVE Calm'
  <2> USE <1>2
  <2> DEFINE n == [ballot[s] EXCEPT !.n = promise[s].n + 1]
  <2>1. UNCHANGED <<bleVars, net, linkVars>> /\ handle_leader(s, n) /\ promise[s].pid # s
    BY DEF TryBecomeLeader
  <2>2. brokenAt = 0 /\ Calm
    BY <2>1 DEF CalmUntilBreak, linkVars
  <2>3. promise[s] = DefaultBallot
    <3>1. InitialBallot(s).pid = s
      BY DEF InitialBallot
    <3> QED
      BY <2>1, <2>2, <3>1 DEF Calm
  <2>4. n = InitialBallot(s)
    BY <2>2, <2>3 DEF Calm, InitialBallot, DefaultBallot
  <2> HIDE DEF n
  <2>5. \E v \in {n, promise[s]} : promise' = [promise EXCEPT ![s] = v]
    BY <2>1 DEF handle_leader
  <2>6. \A t \in Nodes : promise'[t] \in {DefaultBallot, InitialBallot(t)}
    BY <1>0, <2>2, <2>4, <2>5 DEF Calm
  <2> QED
    BY <1>1, <2>1, <2>2, <2>6 DEF linkVars
<1>3. ASSUME NEW s \in Nodes, SendStartSignals(s) PROVE Calm'
  <2>1. \A m : m.kind # "start" => (m \in net' <=> m \in net)
    BY <1>3 DEF SendStartSignals, Sendable
  <2>2. brokenAt = 0 /\ promise' = promise /\ UNCHANGED <<bleVars, links>>
    BY <1>3 DEF SendStartSignals, linkVars, paxosVars
  <2> QED
    BY <1>1, <2>1, <2>2 DEF CalmUntilBreak, Calm
<1>4. ASSUME NEW m \in net, HandleStart(m) PROVE Calm'
  <2>1. \A x : x.kind # "start" => (x \in net' <=> x \in net)
    BY <1>4 DEF HandleStart
  <2>2. brokenAt = 0 /\ promise' = promise /\ UNCHANGED <<bleVars, links>>
    BY <1>4 DEF HandleStart, linkVars, paxosVars
  <2> QED
    BY <1>1, <2>1, <2>2 DEF CalmUntilBreak, Calm
<1>5. ASSUME NEW s \in Nodes, HbTimeout(s) PROVE Calm'
  <2> USE <1>5
  <2>1. /\ round' = [round EXCEPT ![s] = @ + 1]
        /\ replies' = [replies EXCEPT ![s] = {}]
        /\ net' = net \cup Sendable(HbRequests(s, round[s] + 1))
        /\ UNCHANGED linkVars
    BY DEF HbTimeout
  <2>2. Calm /\ links' = AllLinks
    BY <2>1 DEF CalmUntilBreak, linkVars, Calm
  <2>3. /\ ballot' = ballot /\ happy' = happy
        /\ leader' = [leader EXCEPT ![s] = leader'[s]] /\ leader'[s] \in Initials
        /\ \A t \in Nodes : promise'[t] \in {DefaultBallot, InitialBallot(t)}
    BY <2>2, HbTimeoutCalm
  <2>4. /\ round'[s] = round[s] + 1 /\ replies'[s] = {}
        /\ \A t \in Nodes \ {s} : round'[t] = round[t] /\ replies'[t] = replies[t]
        /\ \A t \in Nodes : leader'[t] \in Initials /\ round'[t] > 0
    BY <1>0, <2>1, <2>2, <2>3 DEF Calm
  <2>5. \A t \in Nodes : Answers(t)' \subseteq Answers(t)
    BY <2>1, <2>4 DEF Answers, Sendable, HbRequests
  <2>6. \A t \in Nodes \ {s} : \A p \in Nodes \ {t} : Asked(t, p)' \/ Answered(t, p)'
    <3>1. \A t \in Nodes \ {s} : Answers(t) \subseteq Answers(t)'
      BY <2>1, <2>4 DEF Answers
    <3>2. \A t \in Nodes \ {s} : \A p \in Nodes \ {t} : Asked(t, p) \/ Answered(t, p)
      BY <2>2 DEF Calm
    <3> QED
      BY <2>1, <2>4, <3>1, <3>2 DEF Asked, Answered
  <2>7. \A p \in Nodes \ {s} : Asked(s, p)'
    <3> SUFFICES ASSUME NEW p \in Nodes \ {s} PROVE Asked(s, p)'
      OBVIOUS
    <3> DEFINE m == [kind |-> "request", from |-> s, to |-> p, round |-> round[s] + 1]
    <3>1. m \in HbRequests(s, round[s] + 1) /\ {m.from, m.to} \in links
      BY <2>2, LinkedPairs DEF HbRequests, Calm
    <3>2. m \in net'
      BY <2>1, <3>1 DEF Sendable
    <3> QED
      BY <2>4, <3>2 DEF Asked
  <2>8. \A t \in Nodes : \A a \in Answers(t)' : Quiet(a)
    BY <2>2, <2>5 DEF Calm
  <2> QED
    BY <2>2, <2>3, <2>4, <2>6, <2>7, <2>8 DEF Calm, Quiet
<1>6. ASSUME NEW m \in net, HandleRequest(m) PROVE Calm'
  <2> USE <1>6
  <2> DEFINE a == [kind |-> "reply", from |-> m.to, to |-> m.from, round |-> m.round,
                   ballot |-> ballot[m.to], leader |-> leader[m.to], happy |-> happy[m.to]]
  <2>1. m \in Requests /\ m.kind = "request" /\ m.from \in Nodes /\ m.to \in Nodes
    BY <1>0 DEF HandleRequest, Replies, Starts, Requests
  <2>2. /\ UNCHANGED <<ballot, leader, happy, round, replies, promise, links>>
        /\ brokenAt = 0 /\ Calm
    BY DEF HandleRequest, bleVars, linkVars, paxosVars, CalmUntilBreak
  <2>3. m.to # m.from
    BY <2>1 DEF AskedOnce
  <2>4. {a.from, a.to} \in links /\ Quiet(a)
    BY <2>1, <2>2, <2>3, LinkedPairs DEF Calm, Quiet
  <2>5. net' = (net \ {m}) \cup {a}
    BY <2>4 DEF HandleRequest, Sendable
  <2>6. a.kind = "reply" /\ a.from = m.to /\ a.to = m.from /\ a.round = m.round
    OBVIOUS
  <2> HIDE DEF a
  <2>7. \A t \in Nodes : /\ Answers(t) \subseteq Answers(t)'
                         /\ \A b \in Answers(t)' : b \in Answers(t) \/ b = a
    BY <2>1, <2>2, <2>5, <2>6 DEF Answers
  <2>8. a \in Answers(m.from)'
    BY <2>5, <2>6 DEF Answers
  <2>9. ASSUME NEW t \in Nodes, NEW p \in Nodes \ {t} PROVE Asked(t, p)' \/ Answered(t, p)'
    <3>1. CASE Answered(t, p)
      BY <2>2, <2>7, <3>1 DEF Answered
    <3>2. CASE Asked(t, p)
      <4>1. PICK x \in net : /\ x.kind = "request" /\ x.from = t /\ x.to = p
                             /\ x.round = round[t]
        BY <3>2 DEF Asked
      <4>2. CASE x = m
        BY <2>2, <2>6, <2>8, <4>1, <4>2 DEF Answered
      <4>3. CASE x # m
        BY <2>2, <2>5, <4>1, <4>3 DEF Asked
      <4> QED
        BY <4>2, <4>3
    <3> QED
      BY <2>2, <3>1, <3>2 DEF Calm
  <2>10. \A t \in Nodes : \A b \in Answers(t)' : Quiet(b)
    BY <2>2, <2>4, <2>7 DEF Calm
  <2> QED
    BY <2>2, <2>9, <2>10 DEF Calm, Quiet
<1>7. ASSUME NEW m \in net, HandleReply(m) PROVE Calm'
  <2> USE <1>7
  <2>1. m \in Replies /\ m.kind = "reply"
    BY <1>0 DEF HandleReply, Requests, Starts
  <2>2. /\ UNCHANGED <<ballot, leader, happy, round, promise, links>>
        /\ brokenAt = 0 /\ Calm
    BY DEF HandleReply, linkVars, paxosVars, CalmUntilBreak
  <2>3. /\ net' = net \ {m}
        /\ \A t \in Nodes : replies'[t] = IF t = m.to /\ m.round = round[t]
                                          THEN replies[t] \cup {m} ELSE replies[t]
    BY <1>0, <2>1 DEF HandleReply, InRound
  <2>4. \A t \in Nodes : /\ Answers(t)' \subseteq Answers(t)
                         /\ \A a \in Answers(t) : a.round = round[t] => a \in Answers(t)'
    BY <2>1, <2>3 DEF Answers
  <2>5. \A t, p \in Nodes : (Asked(t, p) => Asked(t, p)') /\ (Answered(t, p) => Answered(t, p)')
    BY <2>1, <2>2, <2>3, <2>4 DEF Asked, Answered
  <2> QED
    BY <2>2, <2>4, <2>5 DEF Calm, Quiet
<1>8. ASSUME NEW broken \in Breakages, Break(broken) PROVE Calm'
  <2>1. brokenAt = 0 /\ \E s \in Nodes : brokenAt' = round[s]
    BY <1>8 DEF Break
  <2> QED
    BY <1>0, <2>1 DEF CalmUntilBreak, Calm
<1>9. CASE UNCHANGED vars
  <2>1. UNCHANGED <<bleVars, paxosVars, net, linkVars>>
    BY <1>9 DEF vars
  <2>2. brokenAt = 0 /\ promise' = promise /\ net' = net /\ UNCHANGED <<bleVars, links>>
    BY <2>1 DEF linkVars, paxosVars
  <2> QED
    BY <1>1, <2>2 DEF CalmUntilBreak, Calm
<1> QED
  BY <1>2, <1>3, <1>4, <1>5, <1>6, <1>7, <1>8, <1>9 DEF Next

\* As long as all links work and messages are timely nobody takes over, however
\* many servers start as their own leaders (update_leader, update_happiness,
\* check_takeover).
THEOREM NoTakeoverWhileLinked == Spec => []NoNeedlessTakeover
<1>1. Init => CalmUntilBreak
  <2> SUFFICES ASSUME Init PROVE Calm
    BY DEF CalmUntilBreak
  <2>1. \A s \in Nodes : /\ ballot[s] = InitialBallot(s) /\ leader[s] = InitialBallot(s)
                         /\ happy[s] /\ round[s] = 1 /\ promise[s] = DefaultBallot
                         /\ replies[s] = {}
    BY DEF Init
  <2>2. \A m \in net : m.kind = "request"
    BY DEF Init, HbRequests
  <2>3. \A s \in Nodes : Answers(s) = {}
    BY <2>1, <2>2 DEF Answers
  <2>4. ASSUME NEW s \in Nodes, NEW p \in Nodes \ {s} PROVE Asked(s, p)
    <3> DEFINE m == [kind |-> "request", from |-> s, to |-> p, round |-> 1]
    <3>1. m \in HbRequests(s, 1)
      BY DEF HbRequests
    <3>2. m \in net
      BY <3>1 DEF Init
    <3> QED
      BY <2>1, <3>2 DEF Asked
  <2>5. links = AllLinks
    BY DEF Init
  <2> QED
    BY <2>1, <2>3, <2>4, <2>5 DEF Calm, Initials
<1>2. BallotInv /\ AskedOnce /\ CalmUntilBreak /\ [Next]_vars => CalmUntilBreak'
  BY CalmNext
<1>3. CalmUntilBreak => NoNeedlessTakeover
  <2>1. \A s \in Nodes : InitialBallot(s).n = 1
    BY DEF InitialBallot
  <2> QED
    BY <2>1 DEF CalmUntilBreak, Calm, NoNeedlessTakeover
<1> QED
  BY <1>1, <1>2, <1>3, BallotInvAlways, AskedOnceAlways, PTL DEF Spec

=============================================================================
