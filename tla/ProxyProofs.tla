----------------------------- MODULE ProxyProofs -----------------------------
(***************************************************************************)
(* Proofs about Proxy: for any number of nodes, clients and commands, any  *)
(* channel capacity and any scheduling, a confirmed history is held by a   *)
(* quorum with a leader in it, and confirmed histories extend each other.  *)
(***************************************************************************)
EXTENDS Proxy, FiniteSetTheorems, TLAPS

\* A prefix agrees with the whole sequence position by position.
LEMMA PrefixPointwise ==
  ASSUME NEW S, NEW s \in Seq(S), NEW t \in Seq(S)
  PROVE  IsPrefix(s, t) <=> Len(s) <= Len(t) /\ \A k \in 1 .. Len(s) : s[k] = t[k]
<1>1. CASE Len(s) <= Len(t)
  <2>1. /\ SubSeq(s, 1, Len(s)) \in Seq(S) /\ Len(SubSeq(s, 1, Len(s))) = Len(s)
        /\ \A k \in 1 .. Len(s) : SubSeq(s, 1, Len(s))[k] = s[k]
    OBVIOUS
  <2>2. /\ SubSeq(t, 1, Len(s)) \in Seq(S) /\ Len(SubSeq(t, 1, Len(s))) = Len(s)
        /\ \A k \in 1 .. Len(s) : SubSeq(t, 1, Len(s))[k] = t[k]
    BY <1>1
  <2>3. SubSeq(s, 1, Len(s)) = SubSeq(t, 1, Len(s))
          <=> \A k \in 1 .. Len(s) : SubSeq(s, 1, Len(s))[k] = SubSeq(t, 1, Len(s))[k]
    BY <2>1, <2>2
  <2> QED BY <1>1, <2>1, <2>2, <2>3 DEF IsPrefix
<1>2. CASE ~(Len(s) <= Len(t))
  BY <1>2 DEF IsPrefix
<1> QED BY <1>1, <1>2

\* Every sequence is a prefix of itself.
LEMMA PrefixReflexive ==
  ASSUME NEW S, NEW s \in Seq(S)
  PROVE  IsPrefix(s, s)
  BY PrefixPointwise

\* A prefix stays one when the sequence grows at its end.
LEMMA PrefixAppend ==
  ASSUME NEW S, NEW s \in Seq(S), NEW t \in Seq(S), NEW x \in S, IsPrefix(s, t)
  PROVE  IsPrefix(s, Append(t, x))
<1>1. Len(s) <= Len(t) /\ \A k \in 1 .. Len(s) : s[k] = t[k]
  BY PrefixPointwise
<1>2. /\ Append(t, x) \in Seq(S) /\ Len(Append(t, x)) = Len(t) + 1
      /\ \A k \in 1 .. Len(t) : Append(t, x)[k] = t[k]
  OBVIOUS
<1>3. Len(s) \in Nat /\ Len(t) \in Nat
  OBVIOUS
<1>4. Len(s) <= Len(Append(t, x)) /\ \A k \in 1 .. Len(s) : s[k] = Append(t, x)[k]
  BY <1>1, <1>2, <1>3
<1> QED BY <1>2, <1>4, PrefixPointwise

\* Of two prefixes of one sequence, one is a prefix of the other.
LEMMA PrefixesComparable ==
  ASSUME NEW S, NEW s \in Seq(S), NEW t \in Seq(S), NEW u \in Seq(S),
         IsPrefix(s, u), IsPrefix(t, u)
  PROVE  IsPrefix(s, t) \/ IsPrefix(t, s)
<1>1. /\ Len(s) <= Len(u) /\ \A k \in 1 .. Len(s) : s[k] = u[k]
      /\ Len(t) <= Len(u) /\ \A k \in 1 .. Len(t) : t[k] = u[k]
  BY PrefixPointwise
<1>2. Len(s) \in Nat /\ Len(t) \in Nat
  OBVIOUS
<1>3. CASE Len(s) <= Len(t)
  <2>1. \A k \in 1 .. Len(s) : s[k] = t[k]
    BY <1>1, <1>2, <1>3
  <2> QED BY <1>3, <2>1, PrefixPointwise
<1>4. CASE Len(t) <= Len(s)
  <2>1. \A k \in 1 .. Len(t) : t[k] = s[k]
    BY <1>1, <1>2, <1>4
  <2> QED BY <1>4, <2>1, PrefixPointwise
<1> QED BY <1>2, <1>3, <1>4

\* One more spawned task.
LEMMA BagAdd ==
  ASSUME NEW S, NEW B, IsABag(B), BagToSet(B) \subseteq S, NEW x \in S
  PROVE  IsABag(B (+) SetToBag({x})) /\ BagToSet(B (+) SetToBag({x})) \subseteq S
  BY DEF IsABag, BagToSet, SetToBag, (+)

\* One task fewer.
LEMMA BagRemove ==
  ASSUME NEW S, NEW B, IsABag(B), BagToSet(B) \subseteq S, NEW x \in S
  PROVE  IsABag(B (-) SetToBag({x})) /\ BagToSet(B (-) SetToBag({x})) \subseteq S
  BY DEF IsABag, BagToSet, SetToBag, (-)

\* The named assumptions of Proxy that its types rest on, and a command of the
\* script is a command.
LEMMA ProxyAssumptions ==
  /\ N \in Nat \ {0} /\ FaultTolerance \in Nat /\ 2 * FaultTolerance < N
  /\ ServOrder \in Seq(Servers) /\ Len(ServOrder) \in Nat \ {0}
  /\ \A c \in Clients : Script[c] \in Seq(Cmds)
  /\ None \notin Acks
<1>1. ASSUME NEW c \in Clients PROVE Script[c] \in Seq(Cmds)
  <2>1. Script[c] \in Seq(ToSet(Script[c]))
    BY ScriptAssumption DEF Clients
  <2>2. ToSet(Script[c]) \subseteq Cmds
    BY DEF Cmds
  <2> QED BY <2>1, <2>2
<1>2. ServOrder \in Seq(Servers) /\ Len(ServOrder) \in Nat \ {0}
  BY OrderAssumption DEF Servers
<1> QED
  BY <1>1, <1>2, NodesAssumption, QuorumAssumption, NoneAssumption DEF Acks

\* What a handler carries at each stage, and that a running handler has the
\* receiver of a server.
StageInv ==
  \A c \in Clients :
    /\ hpc[c] \notin {"off", "gone"} => c \in Servers
    /\ hpc[c] \in {"fanout", "confirm"} => hmsg[c] \in Msgs
    /\ hpc[c] \in {"put", "confirm", "reply", "delete"} => hack[c] \in Acks

TypeInv == TypeOK /\ StageInv

\* The initial state has its types.
LEMMA InitTypes == Init => TypeInv
<1> SUFFICES ASSUME Init PROVE TypeOK /\ StageInv
  BY DEF TypeInv
<1>1. IsABag(EmptyBag) /\ BagToSet(EmptyBag) = {}
  BY DEF IsABag, EmptyBag, SetToBag, BagToSet
<1>2. NoTally \in Tally
  BY DEF NoTally, Tally
<1>3. db \in [DOMAIN db -> Tally] /\ DOMAIN db \subseteq Hists
  BY DEF Init
<1>4. 1 \in 1 .. Len(ServOrder)
  BY ProxyAssumptions
<1>5. TypeOK
  BY <1>1, <1>2, <1>3, <1>4, Z3 DEF Init, TypeOK, Hists
<1>6. StageInv
  BY DEF Init, StageInv
<1> QED BY <1>5, <1>6

\* Every step keeps the types.
LEMMA NextTypes == TypeInv /\ [Next]_vars => TypeInv'
<1> SUFFICES ASSUME TypeOK, StageInv, [Next]_vars PROVE TypeOK' /\ StageInv'
  BY DEF TypeInv
<1>t. /\ hpc \in [Clients -> {"off", "registering", "idle", "fanout", "put", "confirm",
                               "reply", "delete", "gone"}]
      /\ hpos \in [Clients -> 1 .. Len(ServOrder)]
      /\ hmsg \in [Clients -> Msgs \cup {None}] /\ hack \in [Clients -> Acks \cup {None}]
      /\ hget \in [Clients -> Tally] /\ read \in [Clients -> Nat] /\ accepted \in Nat
      /\ chan \in [Servers -> Seq(Msgs)] /\ acksTo \in [Servers -> Seq(Acks)]
      /\ hand \in [Servers -> Acks \cup {None}] /\ unsent \in [Servers -> SUBSET Acks]
      /\ log \in [Servers -> Seq(Cmds)]
      /\ db \in [DOMAIN db -> Tally] /\ DOMAIN db \subseteq Hists
  BY DEF TypeOK, Hists
<1>s. \A c \in Clients :
        /\ hpc[c] \notin {"off", "gone"} => c \in Servers
        /\ hpc[c] \in {"fanout", "confirm"} => hmsg[c] \in Msgs
        /\ hpc[c] \in {"put", "confirm", "reply", "delete"} => hack[c] \in Acks
  BY DEF StageInv
<1>1. CASE UNCHANGED vars
  BY <1>1 DEF TypeOK, StageInv, vars, handlerVars, serverVars, actorVars, historyVars
<1>2. CASE Accept
  <2>1. accepted' \in Nat
    BY <1>2, <1>t DEF Accept
  <2>2. /\ hpc' \in [Clients -> {"off", "registering", "idle", "fanout", "put", "confirm",
                                 "reply", "delete", "gone"}]
        /\ \A c \in Clients : \/ hpc'[c] = hpc[c]
                              \/ hpc'[c] = "gone"
                              \/ hpc'[c] = "registering" /\ c \in Servers
    BY <1>2, <1>t DEF Accept
  <2>3. StageInv'
    BY <1>2, <1>s, <2>2 DEF Accept, StageInv
  <2> QED
    BY <1>2, <2>1, <2>2, <2>3 DEF Accept, TypeOK, actorVars, serverVars, historyVars
<1>3. ASSUME NEW c \in Clients, ReadCommand(c) PROVE TypeOK' /\ StageInv'
  <2> DEFINE m == [kind |-> "append", cmd |-> Script[c][read[c] + 1], idx |-> 0]
  <2>1. m \in Msgs
    <3>1. Script[c][read[c] + 1] \in Cmds
      <4>1. Script[c] \in Seq(Cmds) /\ read[c] \in Nat /\ read[c] < Len(Script[c])
        BY <1>3, <1>t, ProxyAssumptions DEF ReadCommand
      <4>2. read[c] + 1 \in 1 .. Len(Script[c])
        BY <4>1
      <4> QED BY <4>1, <4>2
    <3> QED BY <3>1 DEF Msgs
  <2>2. /\ read' = [read EXCEPT ![c] = @ + 1] /\ hpc' = [hpc EXCEPT ![c] = "fanout"]
        /\ hmsg' = [hmsg EXCEPT ![c] = m] /\ hpc[c] = "idle"
    BY <1>3 DEF ReadCommand
  <2> HIDE DEF m
  <2>3. /\ read' \in [Clients -> Nat] /\ hmsg' \in [Clients -> Msgs \cup {None}]
        /\ hpc' \in [Clients -> {"off", "registering", "idle", "fanout", "put", "confirm",
                                 "reply", "delete", "gone"}]
    BY <1>t, <2>1, <2>2
  <2>4. StageInv'
    BY <1>3, <1>t, <1>s, <2>1, <2>2 DEF ReadCommand, StageInv
  <2> QED
    BY <1>3, <2>3, <2>4 DEF ReadCommand, TypeOK, actorVars, serverVars, historyVars
<1>4. ASSUME NEW c \in Clients, FanoutStep(c) PROVE TypeOK' /\ StageInv'
  <2> DEFINE s == ServOrder[hpos[c]]
  <2>1. s \in Servers /\ hmsg[c] \in Msgs /\ hpc[c] \in {"fanout", "confirm"}
    BY <1>4, <1>t, <1>s, ProxyAssumptions DEF FanoutStep
  <2>2. chan' = [chan EXCEPT ![s] = Append(@, hmsg[c])]
    BY <1>4 DEF FanoutStep
  <2>3. chan' \in [Servers -> Seq(Msgs)]
    BY <1>t, <2>1, <2>2
  <2>4. \/ hpos' = [hpos EXCEPT ![c] = @ + 1] /\ hpos[c] < Len(ServOrder) /\ UNCHANGED <<hpc, hmsg>>
        \/ /\ hpos' = [hpos EXCEPT ![c] = 1] /\ hmsg' = [hmsg EXCEPT ![c] = None]
           /\ hpc' = [hpc EXCEPT ![c] = AfterFanout(@)]
    BY <1>4 DEF FanoutStep
  <2>5. hpos' \in [Clients -> 1 .. Len(ServOrder)]
    <3>1. CASE hpos' = [hpos EXCEPT ![c] = @ + 1] /\ hpos[c] < Len(ServOrder)
      <4>1. hpos[c] + 1 \in 1 .. Len(ServOrder)
        <5>1. Len(ServOrder) \in Nat /\ hpos[c] \in 1 .. Len(ServOrder)
          BY <1>t, ProxyAssumptions
        <5> QED BY <3>1, <5>1
      <4> QED BY <1>t, <3>1, <4>1
    <3>2. CASE hpos' = [hpos EXCEPT ![c] = 1]
      BY <1>t, <3>2, ProxyAssumptions
    <3> QED BY <2>4, <3>1, <3>2
  <2>6. AfterFanout(hpc[c]) \in {"idle", "reply"} /\ (AfterFanout(hpc[c]) = "reply" => hpc[c] = "confirm")
    BY <2>1 DEF AfterFanout
  <2>7. /\ hmsg' \in [Clients -> Msgs \cup {None}]
        /\ hpc' \in [Clients -> {"off", "registering", "idle", "fanout", "put", "confirm",
                                 "reply", "delete", "gone"}]
    BY <1>t, <2>4, <2>6
  <2>8. hack' = hack
    BY <1>4 DEF FanoutStep
  <2>9. StageInv'
    BY <1>t, <1>s, <2>1, <2>4, <2>6, <2>8 DEF StageInv
  <2> QED
    BY <1>4, <2>3, <2>5, <2>7, <2>9 DEF FanoutStep, TypeOK, actorVars, serverVars, historyVars
<1>5. ASSUME NEW c \in Clients, TakeAck(c) PROVE TypeOK' /\ StageInv'
  <2> DEFINE a == Head(acksTo[c])
  <2>1. c \in Servers /\ hpc[c] = "idle" /\ acksTo[c] # <<>>
    BY <1>5, <1>s DEF TakeAck
  <2>2. a \in Acks /\ Tail(acksTo[c]) \in Seq(Acks)
    BY <1>t, <2>1
  <2>3. GetTally(a.hash) \in Tally
    BY <1>t DEF GetTally, NoTally, Tally
  <2>4. /\ acksTo' = [acksTo EXCEPT ![c] = Tail(@)] /\ hack' = [hack EXCEPT ![c] = a]
        /\ hget' = [hget EXCEPT ![c] = GetTally(a.hash)] /\ hpc' = [hpc EXCEPT ![c] = "put"]
        /\ hmsg' = hmsg
    BY <1>5 DEF TakeAck
  <2> HIDE DEF a
  <2>5. /\ acksTo' \in [Servers -> Seq(Acks)] /\ hack' \in [Clients -> Acks \cup {None}]
        /\ hget' \in [Clients -> Tally]
        /\ hpc' \in [Clients -> {"off", "registering", "idle", "fanout", "put", "confirm",
                                 "reply", "delete", "gone"}]
    BY <1>t, <2>1, <2>2, <2>3, <2>4
  <2>6. StageInv'
    BY <1>t, <1>s, <2>1, <2>2, <2>4 DEF StageInv
  <2> QED
    BY <1>5, <2>5, <2>6 DEF TakeAck, TypeOK, serverVars, historyVars
<1>6. ASSUME NEW c \in Clients, PutAck(c) PROVE TypeOK' /\ StageInv'
  <2> DEFINE a == hack[c]
             t == NewTally(hget[c], a)
             m == [kind |-> "confirm", cmd |-> a.cmd, idx |-> a.idx]
  <2>1. c \in Servers /\ hpc[c] = "put" /\ a \in Acks
    BY <1>6, <1>s DEF PutAck
  <2>2. a.hash \in Hists /\ m \in Msgs
    BY <2>1 DEF Acks, Msgs
  <2>3. t \in Tally
    <3>1. hget[c].count + 1 \in Nat /\ (hget[c].spec \/ a.spec) \in BOOLEAN
      BY <1>t, <2>1 DEF Tally, Acks
    <3> QED BY <3>1, Zenon DEF NewTally, Tally
  <2>4. /\ db' = [x \in DOMAIN db \cup {a.hash} |-> IF x = a.hash THEN t ELSE db[x]]
        /\ counted' = counted \cup {<<c, a.hash>>}
    BY <1>6 DEF PutAck, PutTally
  <2>5. \/ /\ hpc' = [hpc EXCEPT ![c] = "confirm"] /\ hmsg' = [hmsg EXCEPT ![c] = m]
           /\ confirmed' = confirmed \cup {<<c, a.hash>>} /\ UNCHANGED hack
        \/ /\ hpc' = [hpc EXCEPT ![c] = "idle"] /\ hack' = [hack EXCEPT ![c] = None]
           /\ UNCHANGED <<hmsg, confirmed>>
    BY <1>6 DEF PutAck
  <2> HIDE DEF a, t, m
  <2>6. db' \in [DOMAIN db' -> Tally] /\ DOMAIN db' \subseteq Hists
    BY <1>t, <2>2, <2>3, <2>4
  <2>7. counted' \subseteq Servers \X Hists /\ confirmed' \subseteq Clients \X Hists
    BY <2>1, <2>2, <2>4, <2>5 DEF TypeOK
  <2>8. /\ hmsg' \in [Clients -> Msgs \cup {None}] /\ hack' \in [Clients -> Acks \cup {None}]
        /\ hpc' \in [Clients -> {"off", "registering", "idle", "fanout", "put", "confirm",
                                 "reply", "delete", "gone"}]
    BY <1>t, <2>2, <2>5
  <2>9. StageInv'
    <3>1. hack[c] \in Acks /\ c \in Servers
      BY <2>1 DEF a
    <3>2. CASE /\ hpc' = [hpc EXCEPT ![c] = "confirm"] /\ hmsg' = [hmsg EXCEPT ![c] = m]
               /\ UNCHANGED hack
      BY <1>t, <1>s, <2>2, <3>1, <3>2 DEF StageInv
    <3>3. CASE /\ hpc' = [hpc EXCEPT ![c] = "idle"] /\ hack' = [hack EXCEPT ![c] = None]
               /\ UNCHANGED hmsg
      BY <1>t, <1>s, <3>1, <3>3 DEF StageInv
    <3> QED BY <2>5, <3>2, <3>3
  <2> QED
    BY <1>6, <2>6, <2>7, <2>8, <2>9 DEF PutAck, TypeOK, actorVars, serverVars
<1>7. ASSUME NEW c \in Clients, Reply(c) PROVE TypeOK' /\ StageInv'
  <2>1. hack[c] \in Acks /\ hpc[c] = "reply"
    BY <1>7, <1>s DEF Reply
  <2>2. answered' \in [Clients -> SUBSET Acks]
    <3>1. answered' = answered \/ answered' = [answered EXCEPT ![c] = @ \cup {hack[c]}]
      BY <1>7 DEF Reply
    <3>2. answered \in [Clients -> SUBSET Acks]
      BY DEF TypeOK
    <3> QED BY <2>1, <3>1, <3>2
  <2>3. hpc' = [hpc EXCEPT ![c] = "delete"] \/ hpc' = [hpc EXCEPT ![c] = "gone"]
    BY <1>7 DEF Reply
  <2>4. hpc' \in [Clients -> {"off", "registering", "idle", "fanout", "put", "confirm",
                              "reply", "delete", "gone"}]
    BY <1>t, <2>3
  <2>5. StageInv'
    BY <1>7, <1>t, <1>s, <2>1, <2>3 DEF Reply, StageInv
  <2> QED
    BY <1>7, <2>2, <2>4, <2>5 DEF Reply, TypeOK, actorVars, serverVars
<1>8. ASSUME NEW c \in Clients, DeleteHash(c) PROVE TypeOK' /\ StageInv'
  <2>1. /\ db' = [x \in DOMAIN db \ {hack[c].hash} |-> db[x]] /\ hpc[c] = "delete"
        /\ hpc' = [hpc EXCEPT ![c] = "idle"] /\ hack' = [hack EXCEPT ![c] = None]
        /\ hmsg' = hmsg
    BY <1>8 DEF DeleteHash, DeleteTally
  <2>2. db' \in [DOMAIN db' -> Tally] /\ DOMAIN db' \subseteq Hists
    BY <1>t, <2>1
  <2>3. /\ hack' \in [Clients -> Acks \cup {None}]
        /\ hpc' \in [Clients -> {"off", "registering", "idle", "fanout", "put", "confirm",
                                 "reply", "delete", "gone"}]
    BY <1>t, <2>1
  <2>4. StageInv'
    BY <1>t, <1>s, <2>1 DEF StageInv
  <2> QED
    BY <1>8, <2>2, <2>3, <2>4 DEF DeleteHash, TypeOK, actorVars, serverVars, historyVars
<1>9. ASSUME NEW c \in Clients, ClientGone(c) \/ Register(c) PROVE TypeOK' /\ StageInv'
  BY <1>9 DEF ClientGone, Register, TypeOK, StageInv, actorVars, serverVars, historyVars
<1>10. ASSUME NEW s \in Servers, ActorForward(s) PROVE TypeOK' /\ StageInv'
  <2> DEFINE m == Head(chan[s])
  <2>1. m \in Msgs /\ Tail(chan[s]) \in Seq(Msgs)
    BY <1>10, <1>t DEF ActorForward
  <2>2. chan' \in [Servers -> Seq(Msgs)]
    BY <1>10, <1>t, <2>1 DEF ActorForward
  <2>3. tasks' = [tasks EXCEPT ![s] = tasks[s] (+) SetToBag({m})]
    BY <1>10 DEF ActorForward
  <2>4. /\ DOMAIN tasks = Servers
        /\ \A r \in Servers : IsABag(tasks[r]) /\ BagToSet(tasks[r]) \subseteq Msgs
    BY DEF TypeOK
  <2> HIDE DEF m
  <2>5. /\ DOMAIN tasks' = Servers /\ tasks'[s] = tasks[s] (+) SetToBag({m})
        /\ \A r \in Servers : r # s => tasks'[r] = tasks[r]
    BY <2>3, <2>4
  <2>6. IsABag(tasks'[s]) /\ BagToSet(tasks'[s]) \subseteq Msgs
    <3>1. m \in Msgs /\ IsABag(tasks[s]) /\ BagToSet(tasks[s]) \subseteq Msgs
      BY <2>1, <2>4
    <3>2. /\ IsABag(tasks[s] (+) SetToBag({m}))
          /\ BagToSet(tasks[s] (+) SetToBag({m})) \subseteq Msgs
      BY <3>1, BagAdd
    <3> QED BY <2>5, <3>2
  <2>7. \A r \in Servers : IsABag(tasks'[r]) /\ BagToSet(tasks'[r]) \subseteq Msgs
    BY <2>4, <2>5, <2>6
  <2> QED
    BY <1>10, <2>2, <2>5, <2>7
       DEF ActorForward, TypeOK, StageInv, handlerVars, actorVars, historyVars
<1>11. ASSUME NEW s \in Servers, ActorWriteFails(s) PROVE TypeOK' /\ StageInv'
  <2>1. chan' \in [Servers -> Seq(Msgs)]
    BY <1>11, <1>t DEF ActorWriteFails
  <2>2. link' \in [Servers -> {"up", "down", "lost"}]
    BY <1>11 DEF ActorWriteFails, TypeOK
  <2> QED
    BY <1>11, <2>1, <2>2 DEF ActorWriteFails, TypeOK, StageInv, handlerVars, serverVars, historyVars
<1>12. ASSUME NEW s \in Servers, NEW a \in unsent[s], ActorReceive(s, a) PROVE TypeOK' /\ StageInv'
  <2>1. a \in Acks /\ unsent' \in [Servers -> SUBSET Acks]
    BY <1>12, <1>t DEF ActorReceive
  <2>2. acksTo' = acksTo \/ acksTo' = [acksTo EXCEPT ![s] = Append(acksTo[s], a)]
    BY <1>12 DEF ActorReceive
  <2>3. acksTo' \in [Servers -> Seq(Acks)]
    <3>1. Append(acksTo[s], a) \in Seq(Acks)
      BY <1>t, <2>1
    <3> QED BY <1>t, <2>2, <3>1
  <2>4. hand' \in [Servers -> Acks \cup {None}]
    BY <1>12, <1>t, <2>1 DEF ActorReceive
  <2> QED
    BY <1>12, <2>1, <2>3, <2>4 DEF ActorReceive, TypeOK, StageInv, handlerVars, historyVars
<1>13. ASSUME NEW s \in Servers, ActorUnblock(s) PROVE TypeOK' /\ StageInv'
  <2>1. hand[s] \in Acks /\ hand' \in [Servers -> Acks \cup {None}]
    BY <1>13, <1>t DEF ActorUnblock
  <2>2. acksTo' = acksTo \/ acksTo' = [acksTo EXCEPT ![s] = Append(acksTo[s], hand[s])]
    BY <1>13 DEF ActorUnblock
  <2>3. acksTo' \in [Servers -> Seq(Acks)]
    <3>1. Append(acksTo[s], hand[s]) \in Seq(Acks)
      BY <1>t, <2>1
    <3> QED BY <1>t, <2>2, <3>1
  <2> QED
    BY <1>13, <2>1, <2>3 DEF ActorUnblock, TypeOK, StageInv, handlerVars, serverVars, historyVars
<1>14. ASSUME NEW s \in Servers, LinkBreaks(s) \/ ActorReadFails(s)
       PROVE  TypeOK' /\ StageInv'
  <2>1. CASE LinkBreaks(s)
    BY <2>1 DEF LinkBreaks, TypeOK, StageInv, handlerVars, serverVars, historyVars
  <2>2. CASE ActorReadFails(s)
    BY <2>2 DEF ActorReadFails, TypeOK, StageInv, handlerVars, serverVars, historyVars
  <2> QED BY <1>14, <2>1, <2>2
<1>15. ASSUME NEW s \in Servers, NEW m \in BagToSet(tasks[s]),
              ServerAppend(s, m) \/ ServerDecide(s, m)
       PROVE  TypeOK' /\ StageInv'
  <2>1. m \in Msgs /\ DOMAIN tasks = Servers
        /\ \A r \in Servers : IsABag(tasks[r]) /\ BagToSet(tasks[r]) \subseteq Msgs
    BY DEF TypeOK
  <2>2. tasks' = [tasks EXCEPT ![s] = tasks[s] (-) SetToBag({m})]
    BY <1>15 DEF ServerAppend, ServerDecide
  <2>3. /\ DOMAIN tasks' = Servers /\ tasks'[s] = tasks[s] (-) SetToBag({m})
        /\ \A r \in Servers : r # s => tasks'[r] = tasks[r]
    BY <2>1, <2>2
  <2>4. IsABag(tasks'[s]) /\ BagToSet(tasks'[s]) \subseteq Msgs
    BY <2>1, <2>3, BagRemove
  <2>5. \A r \in Servers : IsABag(tasks'[r]) /\ BagToSet(tasks'[r]) \subseteq Msgs
    BY <2>1, <2>3, <2>4
  <2>6. m.cmd \in Cmds /\ m.idx \in Nat
    BY <2>1 DEF Msgs
  <2>7. CASE ServerAppend(s, m)
    <3>1. log' = [log EXCEPT ![s] = Append(@, m.cmd)]
      BY <2>7 DEF ServerAppend
    <3>2. log' \in [Servers -> Seq(Cmds)]
      BY <1>t, <2>6, <3>1
    <3>3. [cmd |-> m.cmd, hash |-> Append(log[s], m.cmd), spec |-> s \in Leaders,
           idx |-> Len(log[s]) + 1] \in Acks
      <4>1. Append(log[s], m.cmd) \in Hists /\ Len(log[s]) + 1 \in Nat
        BY <1>t, <2>6 DEF Hists
      <4>2. (s \in Leaders) \in BOOLEAN
        OBVIOUS
      <4> QED BY <2>6, <4>1, <4>2, Zenon DEF Acks
    <3>4. unsent' \in [Servers -> SUBSET Acks]
      BY <1>t, <2>7, <3>3 DEF ServerAppend
    <3> QED
      BY <2>3, <2>5, <2>7, <3>2, <3>4
         DEF ServerAppend, TypeOK, StageInv, handlerVars, actorVars, historyVars, Hists
  <2>8. CASE ServerDecide(s, m)
    <3>1. decided' \in [Servers -> Nat]
      BY <2>6, <2>8 DEF ServerDecide, TypeOK
    <3> QED
      BY <2>3, <2>5, <2>8, <3>1
         DEF ServerDecide, TypeOK, StageInv, handlerVars, actorVars, historyVars
  <2> QED BY <1>15, <2>7, <2>8
<1> QED
  BY <1>1, <1>2, <1>3, <1>4, <1>5, <1>6, <1>7, <1>8, <1>9, <1>10, <1>11, <1>12, <1>13,
     <1>14, <1>15 DEF Next, Handler, Actor, Server

\* The variables of the proxy keep their types.
THEOREM ProxyTypeCorrect == Spec => []TypeOK
<1>1. TypeInv => TypeOK
  BY DEF TypeInv
<1> QED BY <1>1, InitTypes, NextTypes, PTL DEF Spec

-----------------------------------------------------------------------------
(***************************************************************************)
(* The quorum argument.  An acknowledgement of a server is, at any time,   *)
(* in one place: on its way, in the channel, in the actor's hand or being  *)
(* counted.  It is therefore counted at most once, so that a count, which  *)
(* may be lost or start again from zero, never exceeds the servers that    *)
(* were counted for its hash; and what was counted stays a prefix of the   *)
(* server's log, because logs only grow.                                   *)
(***************************************************************************)

\* The acknowledgements of server s in each place.
Queued(s)  == {acksTo[s][k] : k \in 1 .. Len(acksTo[s])}
Blocked(s) == {hand[s]} \ {None}
Taken(s)   == {hack[c] : c \in {d \in Clients : d = s /\ hpc[d] = "put"}}
Pending(s) == unsent[s] \cup Queued(s) \cup Blocked(s) \cup Taken(s)

\* A pending acknowledgement is true and not counted yet; its hash tells it
\* from the others.
PendingSound(s) ==
  /\ \A a \in Pending(s) :
       /\ a \in Acks /\ IsPrefix(a.hash, log[s]) /\ a.spec = (s \in Leaders)
       /\ <<s, a.hash>> \notin counted
  /\ \A a, b \in Pending(s) : a.hash = b.hash => a = b

\* It is in one place, and once.
PendingOnce(s) ==
  /\ unsent[s] \cap Queued(s) = {} /\ unsent[s] \cap Blocked(s) = {}
  /\ unsent[s] \cap Taken(s) = {} /\ Queued(s) \cap Blocked(s) = {}
  /\ Queued(s) \cap Taken(s) = {} /\ Blocked(s) \cap Taken(s) = {}
  /\ \A j, k \in 1 .. Len(acksTo[s]) : acksTo[s][j] = acksTo[s][k] => j = k

CountedSound == \A e \in counted : IsPrefix(e[2], log[e[1]])

PendingInv == CountedSound /\ \A s \in Servers : PendingSound(s) /\ PendingOnce(s)

\* Who was counted for h.
Voters(h) == {s \in Servers : <<s, h>> \in counted}

Backed(t, h) ==
  t.count <= Cardinality(Voters(h)) /\ (t.spec => Voters(h) \cap Leaders # {})

\* The table and what a handler has read from it claim no more than the votes;
\* a confirmed history has a quorum of them.
CountInv ==
  /\ \A h \in DOMAIN db : Backed(db[h], h)
  /\ \A c \in Clients : hpc[c] = "put" => Backed(hget[c], hack[c].hash)
  /\ \A e \in confirmed : /\ Cardinality(Voters(e[2])) >= quorum
                          /\ Voters(e[2]) \cap Leaders # {}

-----------------------------------------------------------------------------
\* No acknowledgement exists at the start.
LEMMA InitPending == Init => PendingInv /\ CountInv
<1> SUFFICES ASSUME Init PROVE PendingInv /\ CountInv
  OBVIOUS
<1>1. \A s \in Servers : Queued(s) = {} /\ Blocked(s) = {} /\ Taken(s) = {} /\ unsent[s] = {}
  BY DEF Init, Queued, Blocked, Taken
<1>2. PendingInv
  BY <1>1 DEF Init, PendingInv, CountedSound, PendingSound, PendingOnce, Pending
<1>3. CountInv
  BY DEF Init, CountInv
<1> QED BY <1>2, <1>3

\* What is pending at one server depends on that server only, and a handler
\* may let go of what it has taken.
LEMMA PendingFrame ==
  ASSUME NEW r \in Servers, PendingSound(r), PendingOnce(r), log'[r] = log[r],
         unsent'[r] = unsent[r], acksTo'[r] = acksTo[r], hand'[r] = hand[r],
         \A c \in Clients : c = r /\ hpc'[c] = "put" => hpc[c] = "put" /\ hack'[c] = hack[c],
         \A h : <<r, h>> \in counted' => <<r, h>> \in counted
  PROVE  PendingSound(r)' /\ PendingOnce(r)'
<1>1. Queued(r)' = Queued(r) /\ Blocked(r)' = Blocked(r)
  BY DEF Queued, Blocked
<1>2. Taken(r)' \subseteq Taken(r)
  BY DEF Taken
<1>3. Pending(r)' \subseteq Pending(r)
  BY <1>1, <1>2 DEF Pending
<1>4. PendingSound(r)'
  BY <1>3 DEF PendingSound
<1>5. PendingOnce(r)'
  BY <1>1, <1>2 DEF PendingOnce
<1> QED BY <1>4, <1>5

\* Taking an acknowledgement away, or moving it, keeps what is pending true.
LEMMA PendingShrinks ==
  ASSUME NEW r \in Servers, PendingSound(r), log'[r] = log[r], counted' = counted,
         Pending(r)' \subseteq Pending(r)
  PROVE  PendingSound(r)'
  BY DEF PendingSound

\* What a handler has taken.
LEMMA TakenValue ==
  ASSUME NEW c \in Clients
  PROVE  Taken(c) = IF hpc[c] = "put" THEN {hack[c]} ELSE {}
  BY DEF Taken

\* A sequence without repetitions, one longer.
LEMMA QueueAppend ==
  ASSUME NEW S, NEW q \in Seq(S), NEW x \in S,
         \A j, k \in 1 .. Len(q) : q[j] = q[k] => j = k,
         x \notin {q[k] : k \in 1 .. Len(q)}
  PROVE  LET p == Append(q, x)
         IN  /\ {p[k] : k \in 1 .. Len(p)} = {q[k] : k \in 1 .. Len(q)} \cup {x}
             /\ \A j, k \in 1 .. Len(p) : p[j] = p[k] => j = k
<1> DEFINE p == Append(q, x)
<1>1. /\ Len(q) \in Nat /\ Len(p) = Len(q) + 1 /\ p[Len(q) + 1] = x
      /\ \A k \in 1 .. Len(q) : p[k] = q[k]
  OBVIOUS
<1> HIDE DEF p
<1>2. {p[k] : k \in 1 .. Len(p)} = {q[k] : k \in 1 .. Len(q)} \cup {x}
  BY <1>1
<1>3. \A j, k \in 1 .. Len(p) : p[j] = p[k] => j = k
  BY <1>1
<1> QED BY <1>2, <1>3 DEF p

\* A sequence without repetitions, without its head.
LEMMA QueueTail ==
  ASSUME NEW S, NEW q \in Seq(S), q # <<>>,
         \A j, k \in 1 .. Len(q) : q[j] = q[k] => j = k
  PROVE  LET p == Tail(q)
         IN  /\ {p[k] : k \in 1 .. Len(p)} = {q[k] : k \in 1 .. Len(q)} \ {Head(q)}
             /\ Head(q) \in {q[k] : k \in 1 .. Len(q)}
             /\ \A j, k \in 1 .. Len(p) : p[j] = p[k] => j = k
<1> DEFINE p == Tail(q)
<1>1. /\ Len(q) \in Nat \ {0} /\ Len(p) = Len(q) - 1 /\ Head(q) = q[1]
      /\ \A k \in 1 .. Len(p) : p[k] = q[k + 1]
  OBVIOUS
<1> HIDE DEF p
<1>2. \A k \in 1 .. Len(p) : k + 1 \in 1 .. Len(q) /\ k + 1 # 1
  BY <1>1
<1>3. \A k \in 1 .. Len(q) : k # 1 => k - 1 \in 1 .. Len(p) /\ p[k - 1] = q[k]
  BY <1>1
<1>4. 1 \in 1 .. Len(q)
  BY <1>1
<1>5. {p[k] : k \in 1 .. Len(p)} = {q[k] : k \in 1 .. Len(q)} \ {q[1]}
  <2>1. ASSUME NEW k \in 1 .. Len(p)
        PROVE  p[k] \in {q[j] : j \in 1 .. Len(q)} \ {q[1]}
    BY <1>1, <1>2, <1>4
  <2>2. ASSUME NEW k \in 1 .. Len(q), q[k] # q[1] PROVE q[k] \in {p[j] : j \in 1 .. Len(p)}
    BY <1>3, <2>2
  <2> QED BY <2>1, <2>2
<1>6. \A j, k \in 1 .. Len(p) : p[j] = p[k] => j = k
  BY <1>1, <1>2
<1> QED BY <1>1, <1>4, <1>5, <1>6 DEF p

-----------------------------------------------------------------------------
\* Every step keeps acknowledgements true, uncounted and in one place.
LEMMA NextPending == TypeInv /\ PendingInv /\ [Next]_vars => PendingInv'
<1> SUFFICES ASSUME TypeOK, StageInv, PendingInv, [Next]_vars PROVE PendingInv'
  BY DEF TypeInv
<1>t. /\ hpc \in [Clients -> {"off", "registering", "idle", "fanout", "put", "confirm",
                               "reply", "delete", "gone"}]
      /\ hack \in [Clients -> Acks \cup {None}]
      /\ acksTo \in [Servers -> Seq(Acks)] /\ counted \subseteq Servers \X Hists
      /\ hand \in [Servers -> Acks \cup {None}] /\ unsent \in [Servers -> SUBSET Acks]
      /\ log \in [Servers -> Hists]
  BY DEF TypeOK
<1>p. CountedSound /\ \A s \in Servers : PendingSound(s) /\ PendingOnce(s)
  BY DEF PendingInv
<1>f. ASSUME UNCHANGED <<log, unsent, acksTo, hand, counted>>,
             \A c \in Clients : hpc'[c] = "put" => hpc[c] = "put" /\ hack'[c] = hack[c]
      PROVE  PendingInv'
  <2>1. \A s \in Servers : PendingSound(s)' /\ PendingOnce(s)'
    BY <1>f, <1>p, PendingFrame
  <2>2. CountedSound'
    BY <1>f, <1>p DEF CountedSound
  <2> QED BY <2>1, <2>2 DEF PendingInv
<1>1. CASE UNCHANGED vars
  BY <1>1, <1>f DEF vars, handlerVars, actorVars, serverVars, historyVars
<1>2. CASE Accept
  <2>1. UNCHANGED <<log, unsent, acksTo, hand, counted, hack>>
    BY <1>2 DEF Accept, actorVars, serverVars, historyVars
  <2>2. \A c \in Clients : hpc'[c] = "put" => hpc[c] = "put"
    BY <1>2, <1>t DEF Accept
  <2> QED BY <1>f, <2>1, <2>2
<1>3. ASSUME NEW c \in Clients,
             ReadCommand(c) \/ FanoutStep(c) \/ Reply(c) \/ DeleteHash(c)
             \/ ClientGone(c) \/ Register(c)
      PROVE  PendingInv'
  <2>1. UNCHANGED <<log, unsent, acksTo, hand, counted>>
    BY <1>3 DEF ReadCommand, FanoutStep, Reply, DeleteHash, ClientGone, Register, actorVars, serverVars,
                historyVars
  <2>2. /\ \A d \in Clients : d # c => hack'[d] = hack[d] /\ hpc'[d] = hpc[d]
        /\ hpc'[c] # "put"
    <3>1. CASE ReadCommand(c)
      BY <1>t, <3>1 DEF ReadCommand
    <3>2. CASE FanoutStep(c)
      BY <1>t, <3>2 DEF FanoutStep, AfterFanout
    <3>3. CASE Reply(c)
      BY <1>t, <3>3 DEF Reply
    <3>4. CASE DeleteHash(c)
      BY <1>t, <3>4 DEF DeleteHash
    <3>5. CASE ClientGone(c)
      BY <1>t, <3>5 DEF ClientGone
    <3>6. CASE Register(c)
      BY <1>t, <3>6 DEF Register
    <3> QED BY <1>3, <3>1, <3>2, <3>3, <3>4, <3>5, <3>6
  <2> QED BY <1>f, <2>1, <2>2
<1>4. ASSUME NEW c \in Clients, TakeAck(c) PROVE PendingInv'
  <2>1. /\ UNCHANGED <<log, unsent, hand, counted>> /\ hpc[c] = "idle" /\ acksTo[c] # <<>>
        /\ acksTo' = [acksTo EXCEPT ![c] = Tail(@)]
        /\ hack' = [hack EXCEPT ![c] = Head(acksTo[c])] /\ hpc' = [hpc EXCEPT ![c] = "put"]
    BY <1>4 DEF TakeAck, serverVars, historyVars
  <2>2. c \in Servers
    BY <2>1 DEF StageInv
  <2>3. ASSUME NEW s \in Servers, s # c PROVE PendingSound(s)' /\ PendingOnce(s)'
    BY <1>p, <1>t, <2>1, <2>3, PendingFrame
  <2>4. /\ Queued(c)' = Queued(c) \ {Head(acksTo[c])} /\ Head(acksTo[c]) \in Queued(c)
        /\ \A j, k \in 1 .. Len(acksTo'[c]) : acksTo'[c][j] = acksTo'[c][k] => j = k
    <3>1. acksTo[c] \in Seq(Acks) /\ acksTo'[c] = Tail(acksTo[c])
      BY <1>t, <2>1, <2>2
    <3>2. \A j, k \in 1 .. Len(acksTo[c]) : acksTo[c][j] = acksTo[c][k] => j = k
      BY <1>p, <2>2 DEF PendingOnce
    <3>3. LET q == Tail(acksTo[c])
          IN  /\ {q[k] : k \in 1 .. Len(q)}
                   = {acksTo[c][k] : k \in 1 .. Len(acksTo[c])} \ {Head(acksTo[c])}
              /\ Head(acksTo[c]) \in {acksTo[c][k] : k \in 1 .. Len(acksTo[c])}
              /\ \A j, k \in 1 .. Len(q) : q[j] = q[k] => j = k
      <4>1. acksTo[c] # <<>>
        BY <2>1
      <4> QED BY <3>1, <3>2, <4>1, QueueTail
    <3> QED BY <3>1, <3>3 DEF Queued
  <2>5. Taken(c) = {} /\ Taken(c)' = {Head(acksTo[c])}
    BY <1>t, <2>1 DEF Taken
  <2>6. Blocked(c)' = Blocked(c) /\ unsent'[c] = unsent[c]
    BY <2>1 DEF Blocked
  <2>7. PendingSound(c)'
    <3>1. Pending(c)' \subseteq Pending(c)
      BY <2>4, <2>5, <2>6 DEF Pending
    <3> QED BY <1>p, <2>1, <2>2, <3>1, PendingShrinks
  <2>8. PendingOnce(c)'
    BY <1>p, <2>2, <2>4, <2>5, <2>6 DEF PendingOnce
  <2>9. CountedSound'
    BY <1>p, <2>1 DEF CountedSound
  <2> QED BY <2>3, <2>7, <2>8, <2>9 DEF PendingInv
<1>5. ASSUME NEW c \in Clients, PutAck(c) PROVE PendingInv'
  <2>1. /\ UNCHANGED <<log, unsent, hand, acksTo>> /\ hpc[c] = "put"
        /\ counted' = counted \cup {<<c, hack[c].hash>>}
    BY <1>5 DEF PutAck, serverVars, actorVars
  <2>2. /\ hpc'[c] # "put"
        /\ \A d \in Clients : d # c => hack'[d] = hack[d] /\ hpc'[d] = hpc[d]
    BY <1>5, <1>t DEF PutAck
  <2>3. c \in Servers /\ hack[c] \in Acks
    BY <2>1 DEF StageInv
  <2>4. ASSUME NEW s \in Servers, s # c PROVE PendingSound(s)' /\ PendingOnce(s)'
    BY <1>p, <2>1, <2>2, <2>4, PendingFrame
  <2>5. Taken(c) = {hack[c]} /\ Taken(c)' = {}
    BY <2>1, <2>2 DEF Taken
  <2>6. Queued(c)' = Queued(c) /\ Blocked(c)' = Blocked(c) /\ unsent'[c] = unsent[c]
    BY <2>1 DEF Blocked, Queued
  <2>7. PendingSound(c)'
    <3>1. Pending(c)' = unsent[c] \cup Queued(c) \cup Blocked(c)
      BY <2>5, <2>6 DEF Pending
    <3>2. Pending(c)' \subseteq Pending(c) /\ hack[c] \in Pending(c) /\ hack[c] \notin Pending(c)'
      BY <1>p, <2>3, <2>5, <3>1 DEF PendingOnce, Pending
    <3>3. \A a \in Pending(c)' : a.hash # hack[c].hash
      BY <1>p, <2>3, <3>2 DEF PendingSound
    <3>4. \A a \in Pending(c)' : <<c, a.hash>> \notin counted'
      BY <1>p, <2>1, <2>3, <3>2, <3>3 DEF PendingSound
    <3> QED BY <1>p, <2>1, <2>3, <3>2, <3>4 DEF PendingSound
  <2>8. PendingOnce(c)'
    BY <1>p, <2>1, <2>3, <2>5, <2>6 DEF PendingOnce
  <2>9. CountedSound'
    <3>1. IsPrefix(hack[c].hash, log[c])
      BY <1>p, <2>3, <2>5 DEF PendingSound, Pending
    <3> QED BY <1>p, <2>1, <3>1 DEF CountedSound
  <2> QED BY <2>4, <2>7, <2>8, <2>9 DEF PendingInv
<1>6. ASSUME NEW s \in Servers, ActorForward(s) \/ ActorWriteFails(s) \/ LinkBreaks(s)
                               \/ ActorReadFails(s)
      PROVE  PendingInv'
  <2>1. UNCHANGED <<log, unsent, acksTo, hand, counted, hack, hpc>>
    BY <1>6 DEF ActorForward, ActorWriteFails, LinkBreaks, ActorReadFails, handlerVars, actorVars,
                serverVars, historyVars
  <2> QED BY <1>f, <2>1
<1>7. ASSUME NEW s \in Servers, NEW a \in unsent[s], ActorReceive(s, a) PROVE PendingInv'
  <2>1. UNCHANGED <<log, counted, hack, hpc>> /\ unsent' = [unsent EXCEPT ![s] = @ \ {a}]
        /\ hand[s] = None
    BY <1>7 DEF ActorReceive, handlerVars, historyVars
  <2>2. \/ UNCHANGED <<acksTo, hand>>
        \/ acksTo' = [acksTo EXCEPT ![s] = Append(@, a)] /\ UNCHANGED hand
        \/ hand' = [hand EXCEPT ![s] = a] /\ UNCHANGED acksTo
    BY <1>7 DEF ActorReceive
  <2>3. a \in Acks /\ a # None
    BY <1>t, ProxyAssumptions
  <2>4. ASSUME NEW r \in Servers, r # s PROVE PendingSound(r)' /\ PendingOnce(r)'
    <3>1. unsent'[r] = unsent[r] /\ acksTo'[r] = acksTo[r] /\ hand'[r] = hand[r]
      BY <1>t, <2>1, <2>2, <2>4
    <3> QED BY <1>p, <2>1, <3>1, PendingFrame
  <2>5. unsent'[s] = unsent[s] \ {a} /\ Taken(s)' = Taken(s) /\ Blocked(s) = {}
    BY <1>t, <2>1 DEF Taken, Blocked
  <2>6. \/ Queued(s)' = Queued(s) /\ Blocked(s)' = {}
        \/ Queued(s)' = Queued(s) \cup {a} /\ Blocked(s)' = {}
        \/ Queued(s)' = Queued(s) /\ Blocked(s)' = {a}
    <3>1. CASE UNCHANGED <<acksTo, hand>>
      BY <2>5, <3>1 DEF Queued, Blocked
    <3>2. CASE acksTo' = [acksTo EXCEPT ![s] = Append(@, a)] /\ UNCHANGED hand
      <4>1. acksTo[s] \in Seq(Acks) /\ acksTo'[s] = Append(acksTo[s], a)
        BY <1>t, <3>2
      <4>2. a \notin Queued(s) /\ \A j, k \in 1 .. Len(acksTo[s]) : acksTo[s][j] = acksTo[s][k] => j = k
        BY <1>p DEF PendingOnce
      <4>3. Queued(s)' = Queued(s) \cup {a}
        BY <2>3, <4>1, <4>2, QueueAppend DEF Queued
      <4> QED BY <2>5, <3>2, <4>3 DEF Blocked
    <3>3. CASE hand' = [hand EXCEPT ![s] = a] /\ UNCHANGED acksTo
      <4>1. hand'[s] = a
        BY <1>t, <3>3
      <4> QED BY <2>3, <3>3, <4>1 DEF Queued, Blocked
    <3> QED BY <2>2, <3>1, <3>2, <3>3
  <2>7. \A j, k \in 1 .. Len(acksTo'[s]) : acksTo'[s][j] = acksTo'[s][k] => j = k
    <3>1. a \notin Queued(s) /\ \A j, k \in 1 .. Len(acksTo[s]) : acksTo[s][j] = acksTo[s][k] => j = k
      BY <1>p DEF PendingOnce
    <3>2. acksTo[s] \in Seq(Acks)
      BY <1>t
    <3>3. acksTo'[s] = acksTo[s] \/ acksTo'[s] = Append(acksTo[s], a)
      BY <1>t, <2>2
    <3>4. CASE acksTo'[s] = acksTo[s]
      BY <3>1, <3>4
    <3>5. CASE acksTo'[s] = Append(acksTo[s], a)
      BY <2>3, <3>1, <3>2, <3>5, QueueAppend DEF Queued
    <3> QED BY <3>3, <3>4, <3>5
  <2>8. PendingSound(s)'
    <3>1. Pending(s)' \subseteq Pending(s)
      BY <2>5, <2>6 DEF Pending
    <3> QED BY <1>p, <2>1, <3>1, PendingShrinks
  <2>9. PendingOnce(s)'
    <3>1. a \notin Queued(s) /\ a \notin Taken(s)
      BY <1>p DEF PendingOnce
    <3> QED BY <1>p, <2>5, <2>6, <2>7, <3>1 DEF PendingOnce
  <2>10. CountedSound'
    BY <1>p, <2>1 DEF CountedSound
  <2> QED BY <2>4, <2>8, <2>9, <2>10 DEF PendingInv
<1>8. ASSUME NEW s \in Servers, ActorUnblock(s) PROVE PendingInv'
  <2> DEFINE a == hand[s]
  <2>1. UNCHANGED <<log, counted, hack, hpc, unsent>> /\ a # None
        /\ hand' = [hand EXCEPT ![s] = None]
    BY <1>8 DEF ActorUnblock, handlerVars, historyVars, serverVars
  <2>2. UNCHANGED acksTo \/ acksTo' = [acksTo EXCEPT ![s] = Append(@, a)]
    BY <1>8 DEF ActorUnblock
  <2>3. a \in Acks /\ Blocked(s) = {a}
    BY <1>t, <2>1 DEF Blocked
  <2>4. ASSUME NEW r \in Servers, r # s PROVE PendingSound(r)' /\ PendingOnce(r)'
    <3>1. acksTo'[r] = acksTo[r] /\ hand'[r] = hand[r]
      BY <1>t, <2>1, <2>2, <2>4
    <3> QED BY <1>p, <2>1, <3>1, PendingFrame
  <2>5. unsent'[s] = unsent[s] /\ Taken(s)' = Taken(s) /\ Blocked(s)' = {}
    BY <1>t, <2>1 DEF Taken, Blocked
  <2> HIDE DEF a
  <2>6. /\ Queued(s)' = Queued(s) \/ Queued(s)' = Queued(s) \cup {a}
        /\ \A j, k \in 1 .. Len(acksTo'[s]) : acksTo'[s][j] = acksTo'[s][k] => j = k
    <3>1. a \notin Queued(s) /\ \A j, k \in 1 .. Len(acksTo[s]) : acksTo[s][j] = acksTo[s][k] => j = k
      BY <1>p, <2>3 DEF PendingOnce
    <3>2. acksTo[s] \in Seq(Acks)
      BY <1>t
    <3>3. acksTo'[s] = acksTo[s] \/ acksTo'[s] = Append(acksTo[s], a)
      BY <1>t, <2>2
    <3>4. CASE acksTo'[s] = acksTo[s]
      BY <3>1, <3>4 DEF Queued
    <3>5. CASE acksTo'[s] = Append(acksTo[s], a)
      BY <2>3, <3>1, <3>2, <3>5, QueueAppend DEF Queued
    <3> QED BY <3>3, <3>4, <3>5
  <2>7. PendingSound(s)'
    <3>1. Pending(s)' \subseteq Pending(s)
      BY <2>3, <2>5, <2>6 DEF Pending
    <3> QED BY <1>p, <2>1, <3>1, PendingShrinks
  <2>8. PendingOnce(s)'
    BY <1>p, <2>3, <2>5, <2>6 DEF PendingOnce
  <2>9. CountedSound'
    BY <1>p, <2>1 DEF CountedSound
  <2> QED BY <2>4, <2>7, <2>8, <2>9 DEF PendingInv
<1>9. ASSUME NEW s \in Servers, NEW m \in BagToSet(tasks[s]), ServerAppend(s, m) PROVE PendingInv'
  <2> DEFINE x == [cmd |-> m.cmd, hash |-> Append(log[s], m.cmd), spec |-> s \in Leaders,
                   idx |-> Len(log[s]) + 1]
  <2>1. /\ UNCHANGED <<counted, hack, hpc, hand, acksTo>>
        /\ log' = [log EXCEPT ![s] = Append(@, m.cmd)]
        /\ unsent' = [unsent EXCEPT ![s] = @ \cup {x}]
    BY <1>9 DEF ServerAppend, handlerVars, actorVars, historyVars
  <2>2. m \in Msgs /\ m.cmd \in Cmds
    BY DEF TypeOK, Msgs
  <2>3. x \in Acks /\ x.hash = Append(log[s], m.cmd) /\ x.spec = (s \in Leaders)
    <3>1. Append(log[s], m.cmd) \in Hists /\ Len(log[s]) + 1 \in Nat
      BY <1>t, <2>2 DEF Hists
    <3>2. (s \in Leaders) \in BOOLEAN
      OBVIOUS
    <3>3. x \in Acks
      BY <2>2, <3>1, <3>2, Zenon DEF Acks
    <3> QED BY <3>3
  <2> HIDE DEF x
  <2>4. ASSUME NEW r \in Servers, r # s PROVE PendingSound(r)' /\ PendingOnce(r)'
    <3>1. log'[r] = log[r] /\ unsent'[r] = unsent[r]
      BY <1>t, <2>1, <2>4
    <3> QED BY <1>p, <2>1, <3>1, PendingFrame
  <2>5. /\ unsent'[s] = unsent[s] \cup {x} /\ Taken(s)' = Taken(s) /\ Blocked(s)' = Blocked(s)
        /\ Queued(s)' = Queued(s) /\ log'[s] = Append(log[s], m.cmd)
    BY <1>t, <2>1 DEF Taken, Blocked, Queued
  <2>6. Pending(s)' = Pending(s) \cup {x}
    BY <2>5 DEF Pending
  <2>7. \A h \in Hists : IsPrefix(h, log[s]) => IsPrefix(h, log'[s]) /\ h # x.hash
    <3> SUFFICES ASSUME NEW h \in Hists, IsPrefix(h, log[s])
                 PROVE  IsPrefix(h, log'[s]) /\ h # x.hash
      OBVIOUS
    <3>1. h \in Seq(Cmds) /\ log[s] \in Seq(Cmds)
      BY <1>t DEF Hists
    <3>2. IsPrefix(h, log'[s])
      BY <2>2, <2>5, <3>1, PrefixAppend
    <3>3. Len(h) <= Len(log[s])
      BY DEF IsPrefix
    <3>4. Len(x.hash) = Len(log[s]) + 1 /\ Len(h) \in Nat /\ Len(log[s]) \in Nat
      BY <2>2, <2>3, <3>1
    <3> QED BY <3>2, <3>3, <3>4
  <2>8. \A a \in Pending(s) : a \in Acks /\ a.hash \in Hists /\ IsPrefix(a.hash, log[s])
    BY <1>p DEF PendingSound, Acks
  <2>9. \A e \in counted : e[2] \in Hists /\ IsPrefix(e[2], log[e[1]])
    BY <1>p, <1>t DEF CountedSound
  <2>10. PendingSound(s)'
    <3>1. ASSUME NEW a \in Pending(s) \cup {x}
          PROVE  /\ a \in Acks /\ IsPrefix(a.hash, log'[s]) /\ a.spec = (s \in Leaders)
                 /\ <<s, a.hash>> \notin counted
      <4>1. CASE a \in Pending(s)
        BY <1>p, <2>7, <2>8, <4>1 DEF PendingSound
      <4>2. CASE a = x
        <5>1. IsPrefix(x.hash, log'[s])
          <6>1. log'[s] \in Seq(Cmds) /\ x.hash = log'[s]
            BY <1>t, <2>2, <2>3, <2>5 DEF Hists
          <6> QED BY <6>1, PrefixReflexive
        <5>2. <<s, x.hash>> \notin counted
          BY <2>7, <2>9
        <5> QED BY <2>3, <4>2, <5>1, <5>2
      <4> QED BY <4>1, <4>2
    <3>2. ASSUME NEW a \in Pending(s) \cup {x}, NEW b \in Pending(s) \cup {x}, a.hash = b.hash
          PROVE  a = b
      BY <1>p, <2>7, <2>8, <3>2 DEF PendingSound
    <3> QED BY <2>1, <2>6, <3>1, <3>2 DEF PendingSound
  <2>11. PendingOnce(s)'
    <3>1. x \notin Pending(s)
      BY <2>7, <2>8
    <3>2. x \notin Queued(s) /\ x \notin Blocked(s) /\ x \notin Taken(s)
      BY <3>1 DEF Pending
    <3> QED BY <1>p, <2>1, <2>5, <3>2 DEF PendingOnce
  <2>12. CountedSound'
    <3>1. ASSUME NEW e \in counted PROVE IsPrefix(e[2], log'[e[1]])
      <4>1. CASE e[1] = s
        BY <2>7, <2>9, <4>1
      <4>2. CASE e[1] # s
        <5>1. log'[e[1]] = log[e[1]]
          BY <1>t, <2>1, <4>2
        <5> QED BY <2>9, <5>1
      <4> QED BY <4>1, <4>2
    <3> QED BY <2>1, <3>1 DEF CountedSound
  <2> QED BY <2>4, <2>10, <2>11, <2>12 DEF PendingInv
<1>10. ASSUME NEW s \in Servers, NEW m \in BagToSet(tasks[s]), ServerDecide(s, m)
       PROVE  PendingInv'
  <2>1. UNCHANGED <<log, unsent, acksTo, hand, counted, hack, hpc>>
    BY <1>10 DEF ServerDecide, handlerVars, actorVars, historyVars
  <2> QED BY <1>f, <2>1
<1> QED
  BY <1>1, <1>2, <1>3, <1>4, <1>5, <1>6, <1>7, <1>8, <1>9, <1>10
     DEF Next, Handler, Actor, Server

-----------------------------------------------------------------------------
\* The voters are finitely many servers.
LEMMA VotersFinite ==
  ASSUME NEW h
  PROVE  /\ IsFiniteSet(Voters(h)) /\ Cardinality(Voters(h)) \in Nat
         /\ IsFiniteSet(Voters(h)') /\ Cardinality(Voters(h)') \in Nat
<1>1. IsFiniteSet(Servers)
  BY ProxyAssumptions, FS_Interval DEF Servers
<1>2. Voters(h) \in SUBSET Servers /\ Voters(h)' \in SUBSET Servers
  BY DEF Voters
<1>3. IsFiniteSet(Voters(h)) /\ IsFiniteSet(Voters(h)')
  BY <1>1, <1>2, FS_Subset
<1> QED BY <1>3, FS_CardinalityType

\* More votes back what fewer votes did.
LEMMA BackedGrows ==
  ASSUME NEW h, NEW t \in Tally, Backed(t, h), Voters(h) \subseteq Voters(h)'
  PROVE  /\ t.count <= Cardinality(Voters(h)')
         /\ t.spec => Voters(h)' \cap Leaders # {}
<1>1. Cardinality(Voters(h)) <= Cardinality(Voters(h)')
  BY VotersFinite, FS_Subset
<1>2. t.count \in Nat /\ t.count <= Cardinality(Voters(h))
  BY DEF Tally, Backed
<1>3. t.count <= Cardinality(Voters(h)')
  BY <1>1, <1>2, VotersFinite
<1>4. t.spec => Voters(h)' \cap Leaders # {}
  BY DEF Backed
<1> QED BY <1>3, <1>4

\* Every step keeps the counts backed by votes.
LEMMA NextCount == TypeInv /\ PendingInv /\ CountInv /\ [Next]_vars => CountInv'
<1> SUFFICES ASSUME TypeOK, StageInv, PendingInv, CountInv, [Next]_vars PROVE CountInv'
  BY DEF TypeInv
<1>t. /\ hpc \in [Clients -> {"off", "registering", "idle", "fanout", "put", "confirm",
                               "reply", "delete", "gone"}]
      /\ hack \in [Clients -> Acks \cup {None}] /\ hget \in [Clients -> Tally]
      /\ acksTo \in [Servers -> Seq(Acks)]
      /\ db \in [DOMAIN db -> Tally] /\ DOMAIN db \subseteq Hists
  BY DEF TypeOK
<1>c. /\ \A h \in DOMAIN db : Backed(db[h], h)
      /\ \A c \in Clients : hpc[c] = "put" => Backed(hget[c], hack[c].hash)
      /\ \A e \in confirmed : /\ Cardinality(Voters(e[2])) >= quorum
                              /\ Voters(e[2]) \cap Leaders # {}
  BY DEF CountInv
<1>f. ASSUME UNCHANGED <<counted, confirmed>>,
             \A h \in DOMAIN db' : h \in DOMAIN db /\ db'[h] = db[h],
             \A c \in Clients : hpc'[c] = "put" =>
               hpc[c] = "put" /\ hack'[c] = hack[c] /\ hget'[c] = hget[c]
      PROVE  CountInv'
  <2>1. \A h : Voters(h)' = Voters(h)
    BY <1>f DEF Voters
  <2>2. \A h \in DOMAIN db' : Backed(db[h], h)' 
    BY <1>c, <1>f, <2>1 DEF Backed
  <2>3. \A c \in Clients : hpc'[c] = "put" => Backed(hget[c], hack[c].hash)'
    BY <1>c, <1>f, <2>1 DEF Backed
  <2> QED BY <1>c, <1>f, <2>1, <2>2, <2>3 DEF CountInv
<1>1. CASE UNCHANGED vars
  BY <1>1, <1>f DEF vars, handlerVars, historyVars
<1>2. CASE Accept
  <2>1. UNCHANGED <<counted, confirmed, db, hack, hget>>
    BY <1>2 DEF Accept, historyVars
  <2>2. \A c \in Clients : hpc'[c] = "put" => hpc[c] = "put"
    BY <1>2, <1>t DEF Accept
  <2> QED BY <1>f, <2>1, <2>2
<1>3. ASSUME NEW c \in Clients,
             ReadCommand(c) \/ FanoutStep(c) \/ Reply(c) \/ DeleteHash(c)
             \/ ClientGone(c) \/ Register(c)
      PROVE  CountInv'
  <2>1. UNCHANGED <<counted, confirmed, hget>>
    BY <1>3 DEF ReadCommand, FanoutStep, Reply, DeleteHash, ClientGone, Register, historyVars
  <2>2. \A h \in DOMAIN db' : h \in DOMAIN db /\ db'[h] = db[h]
    BY <1>3 DEF ReadCommand, FanoutStep, Reply, DeleteHash, DeleteTally, ClientGone, Register
  <2>3. /\ \A d \in Clients : d # c => hack'[d] = hack[d] /\ hpc'[d] = hpc[d]
        /\ hpc'[c] # "put"
    <3>1. CASE ReadCommand(c)
      BY <1>t, <3>1 DEF ReadCommand
    <3>2. CASE FanoutStep(c)
      BY <1>t, <3>2 DEF FanoutStep, AfterFanout
    <3>3. CASE Reply(c)
      BY <1>t, <3>3 DEF Reply
    <3>4. CASE DeleteHash(c)
      BY <1>t, <3>4 DEF DeleteHash
    <3>5. CASE ClientGone(c)
      BY <1>t, <3>5 DEF ClientGone
    <3>6. CASE Register(c)
      BY <1>t, <3>6 DEF Register
    <3> QED BY <1>3, <3>1, <3>2, <3>3, <3>4, <3>5, <3>6
  <2> QED BY <1>f, <2>1, <2>2, <2>3
<1>4. ASSUME NEW c \in Clients, TakeAck(c) PROVE CountInv'
  <2> DEFINE a == Head(acksTo[c])
  <2>1. /\ UNCHANGED <<counted, confirmed, db>> /\ hpc' = [hpc EXCEPT ![c] = "put"]
        /\ hack' = [hack EXCEPT ![c] = a] /\ hget' = [hget EXCEPT ![c] = GetTally(a.hash)]
    BY <1>4 DEF TakeAck, historyVars
  <2> HIDE DEF a
  <2>2. \A h : Voters(h)' = Voters(h)
    BY <2>1 DEF Voters
  <2>3. Backed(GetTally(a.hash), a.hash)
    <3>1. CASE a.hash \in DOMAIN db
      BY <1>c, <3>1 DEF GetTally
    <3>2. CASE a.hash \notin DOMAIN db
      BY <3>2, VotersFinite DEF GetTally, NoTally, Backed
    <3> QED BY <3>1, <3>2
  <2>4. ASSUME NEW d \in Clients, hpc'[d] = "put" PROVE Backed(hget[d], hack[d].hash)'
    <3>1. CASE d = c
      <4>1. hget'[d] = GetTally(a.hash) /\ hack'[d] = a
        BY <1>t, <2>1, <3>1
      <4> QED BY <2>2, <2>3, <4>1 DEF Backed
    <3>2. CASE d # c
      <4>1. hget'[d] = hget[d] /\ hack'[d] = hack[d] /\ hpc[d] = "put"
        BY <1>t, <2>1, <2>4, <3>2
      <4> QED BY <1>c, <2>2, <4>1 DEF Backed
    <3> QED BY <3>1, <3>2
  <2>5. \A h \in DOMAIN db' : Backed(db[h], h)'
    BY <1>c, <2>1, <2>2 DEF Backed
  <2> QED BY <1>c, <2>1, <2>2, <2>4, <2>5 DEF CountInv
<1>5. ASSUME NEW c \in Clients, PutAck(c) PROVE CountInv'
  <2> DEFINE a == hack[c]
             t == NewTally(hget[c], a)
  <2>1. /\ hpc[c] = "put" /\ counted' = counted \cup {<<c, a.hash>>} /\ hget' = hget
        /\ db' = [x \in DOMAIN db \cup {a.hash} |-> IF x = a.hash THEN t ELSE db[x]]
    BY <1>5 DEF PutAck, PutTally
  <2>2. /\ hpc'[c] # "put"
        /\ \A d \in Clients : d # c => hack'[d] = hack[d] /\ hpc'[d] = hpc[d]
    BY <1>5, <1>t DEF PutAck
  <2>3. \/ QuorumReached(t) /\ confirmed' = confirmed \cup {<<c, a.hash>>}
        \/ confirmed' = confirmed
    BY <1>5 DEF PutAck
  <2>4. c \in Servers /\ a \in Acks /\ <<c, a.hash>> \notin counted /\ a.spec = (c \in Leaders)
    <3>1. c \in Servers /\ a \in Acks
      BY <2>1 DEF StageInv
    <3>2. a \in Pending(c)
      BY <2>1 DEF Pending, Taken
    <3> QED BY <3>1, <3>2 DEF PendingInv, PendingSound
  <2>5. t.count = hget[c].count + 1 /\ t.spec = (hget[c].spec \/ a.spec)
    BY DEF NewTally
  <2>g. PICK g : g = a.hash
    OBVIOUS
  <2>6. Backed(hget[c], g) /\ hget[c] \in Tally
    BY <1>c, <1>t, <2>1, <2>g
  <2> HIDE DEF a, t
  <2>7. Voters(g)' = Voters(g) \cup {c} /\ c \notin Voters(g)
    BY <2>1, <2>4, <2>g DEF Voters
  <2>8. \A h : Voters(h) \subseteq Voters(h)'
    BY <2>1 DEF Voters
  <2>9. Cardinality(Voters(g)') = Cardinality(Voters(g)) + 1
    BY <2>7, VotersFinite, FS_AddElement
  <2>10. t.count <= Cardinality(Voters(g)') /\ (t.spec => Voters(g)' \cap Leaders # {})
    <3>1. hget[c].count \in Nat /\ hget[c].count <= Cardinality(Voters(g))
      BY <2>6 DEF Backed, Tally
    <3>2. t.count <= Cardinality(Voters(g)')
      BY <2>5, <2>9, <3>1, VotersFinite
    <3>3. t.spec => Voters(g)' \cap Leaders # {}
      <4>1. CASE hget[c].spec
        BY <2>6, <2>8, <4>1 DEF Backed
      <4>2. CASE a.spec
        BY <2>4, <2>7, <4>2
      <4> QED BY <2>5, <4>1, <4>2
    <3> QED BY <3>2, <3>3
  <2>11. ASSUME NEW h \in DOMAIN db' PROVE Backed(db[h], h)'
    <3>1. CASE h = g
      <4>1. db'[h] = t
        BY <2>1, <2>g, <3>1
      <4> QED BY <2>10, <3>1, <4>1 DEF Backed
    <3>2. CASE h # g
      <4>1. h \in DOMAIN db /\ db'[h] = db[h] /\ db[h] \in Tally
        BY <1>t, <2>1, <2>g, <3>2
      <4>2. Backed(db[h], h)
        BY <1>c, <4>1
      <4> QED BY <2>8, <4>1, <4>2, BackedGrows DEF Backed
    <3> QED BY <3>1, <3>2
  <2>12. ASSUME NEW d \in Clients, hpc'[d] = "put" PROVE Backed(hget[d], hack[d].hash)'
    <3>1. hack'[d] = hack[d] /\ hpc[d] = "put" /\ hget'[d] = hget[d] /\ hget[d] \in Tally
      BY <1>t, <2>1, <2>2, <2>12
    <3>2. Backed(hget[d], hack[d].hash)
      BY <1>c, <3>1
    <3> QED BY <2>8, <3>1, <3>2, BackedGrows DEF Backed
  <2>13. ASSUME NEW e \in confirmed'
         PROVE  Cardinality(Voters(e[2])') >= quorum /\ Voters(e[2])' \cap Leaders # {}
    <3>q. quorum \in Nat
      BY ProxyAssumptions DEF quorum
    <3>1. CASE e \in confirmed
      <4>1. Cardinality(Voters(e[2])) >= quorum /\ Voters(e[2]) \cap Leaders # {}
        BY <1>c, <3>1
      <4>2. Cardinality(Voters(e[2])) <= Cardinality(Voters(e[2])')
        BY <2>8, VotersFinite, FS_Subset
      <4>3. Cardinality(Voters(e[2])') >= quorum
        BY <3>q, <4>1, <4>2, VotersFinite
      <4> QED BY <2>8, <4>1, <4>3
    <3>2. CASE e \notin confirmed
      <4>1. QuorumReached(t) /\ e[2] = g
        BY <2>3, <2>13, <2>g, <3>2
      <4>2. t.count >= quorum /\ t.spec
        BY <4>1 DEF QuorumReached
      <4>3. t.count \in Nat
        BY <2>5, <2>6 DEF Tally
      <4>4. Cardinality(Voters(g)') >= quorum
        BY <2>10, <3>q, <4>2, <4>3, VotersFinite
      <4> QED BY <2>10, <4>1, <4>2, <4>4
    <3> QED BY <3>1, <3>2
  <2> QED BY <2>11, <2>12, <2>13 DEF CountInv
<1>6. ASSUME NEW s \in Servers,
             \/ ActorForward(s) \/ ActorWriteFails(s) \/ LinkBreaks(s) \/ ActorUnblock(s)
             \/ ActorReadFails(s)
             \/ \E a \in unsent[s] : ActorReceive(s, a)
             \/ Server(s)
      PROVE  CountInv'
  <2>1. UNCHANGED <<counted, confirmed, db, hack, hget, hpc>>
    BY <1>6 DEF ActorForward, ActorWriteFails, LinkBreaks, ActorReadFails, ActorUnblock, ActorReceive,
                Server, ServerAppend, ServerDecide, handlerVars, historyVars
  <2> QED BY <1>f, <2>1
<1> QED
  BY <1>1, <1>2, <1>3, <1>4, <1>5, <1>6 DEF Next, Handler, Actor

\* The strengthened invariant holds in every reachable state.
LEMMA QuorumInvariant == Spec => [](TypeInv /\ PendingInv /\ CountInv)
<1>1. Init => TypeInv /\ PendingInv /\ CountInv
  BY InitTypes, InitPending
<1>2. TypeInv /\ PendingInv /\ CountInv /\ [Next]_vars => (TypeInv /\ PendingInv /\ CountInv)'
  BY NextTypes, NextPending, NextCount
<1> QED BY <1>1, <1>2, PTL DEF Spec

\* A history is confirmed only if a quorum, a leader in it, holds it: racing
\* and lost updates, deletions and lost messages never invent a vote.
THEOREM ConfirmedByQuorum == Spec => []ConfirmNeedsQuorum
<1>1. TypeInv /\ PendingInv /\ CountInv => ConfirmNeedsQuorum
  <2> SUFFICES ASSUME TypeInv, PendingInv, CountInv, NEW h \in ConfirmedHists
               PROVE  LET holders == {s \in Servers : IsPrefix(h, log[s])}
                      IN  Cardinality(holders) >= quorum /\ holders \cap Leaders # {}
    BY DEF ConfirmNeedsQuorum
  <2> DEFINE holders == {s \in Servers : IsPrefix(h, log[s])}
  <2>1. Cardinality(Voters(h)) >= quorum /\ Voters(h) \cap Leaders # {}
    BY DEF ConfirmedHists, CountInv
  <2>2. Voters(h) \subseteq holders
    BY DEF PendingInv, CountedSound, Voters
  <2>3. IsFiniteSet(holders)
    <3>1. IsFiniteSet(Servers)
      BY ProxyAssumptions, FS_Interval DEF Servers
    <3> QED BY <3>1, FS_Subset
  <2>4. Cardinality(Voters(h)) <= Cardinality(holders) /\ Cardinality(holders) \in Nat
    BY <2>2, <2>3, FS_Subset, FS_CardinalityType
  <2>5. quorum \in Nat
    BY ProxyAssumptions DEF quorum
  <2>6. Cardinality(holders) >= quorum
    BY <2>1, <2>4, <2>5, VotersFinite
  <2> QED BY <2>1, <2>2, <2>6
<1> QED BY <1>1, QuorumInvariant, PTL

\* Two quorums share a server, and two histories that one log extends are
\* comparable: the fast path never confirms diverging histories.
THEOREM ConfirmedHistoriesAgree == Spec => []ConfirmedAgree
<1>1. TypeInv /\ ConfirmNeedsQuorum => ConfirmedAgree
  <2> SUFFICES ASSUME TypeInv, ConfirmNeedsQuorum, NEW g \in ConfirmedHists,
                      NEW h \in ConfirmedHists
               PROVE  IsPrefix(g, h) \/ IsPrefix(h, g)
    BY DEF ConfirmedAgree
  <2> DEFINE G == {s \in Servers : IsPrefix(g, log[s])}
             H == {s \in Servers : IsPrefix(h, log[s])}
  <2>1. Cardinality(G) >= quorum /\ Cardinality(H) >= quorum
    BY DEF ConfirmNeedsQuorum
  <2>2. IsFiniteSet(Servers) /\ Cardinality(Servers) = N
    BY ProxyAssumptions, FS_Interval DEF Servers
  <2>3. G \in SUBSET Servers /\ H \in SUBSET Servers
    OBVIOUS
  <2>4. PICK s \in Servers : s \in G /\ s \in H
    <3> HIDE DEF G, H
    <3>1. IsFiniteSet(G) /\ IsFiniteSet(H) /\ G \cup H \in SUBSET Servers
      BY <2>2, <2>3, FS_Subset
    <3>2. Cardinality(G \cup H) = Cardinality(G) + Cardinality(H) - Cardinality(G \cap H)
      BY <3>1, FS_Union
    <3>3. Cardinality(G \cup H) <= N
      BY <2>2, <3>1, FS_Subset
    <3>4. IsFiniteSet(G \cap H) /\ IsFiniteSet(G \cup H)
      BY <2>2, <2>3, <3>1, FS_Subset, FS_Union
    <3>5. /\ Cardinality(G) \in Nat /\ Cardinality(H) \in Nat
          /\ Cardinality(G \cap H) \in Nat /\ Cardinality(G \cup H) \in Nat
      BY <3>1, <3>4, FS_CardinalityType
    <3>6. Cardinality(G \cap H) # 0
      BY <2>1, <3>2, <3>3, <3>5, ProxyAssumptions DEF quorum
    <3>7. G \cap H # {}
      BY <3>6, FS_EmptySet
    <3> QED BY <2>3, <3>7
  <2>5. g \in Seq(Cmds) /\ h \in Seq(Cmds) /\ log[s] \in Seq(Cmds)
    BY DEF TypeInv, TypeOK, ConfirmedHists, Hists
  <2> QED BY <2>4, <2>5, PrefixesComparable
<1> QED BY <1>1, ConfirmedByQuorum, QuorumInvariant, PTL

=============================================================================
