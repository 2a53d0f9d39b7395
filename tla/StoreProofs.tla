---------------------------- MODULE StoreProofs ----------------------------
(***************************************************************************)
(* One Put at a time, in a reliable environment (calls may fail, hooks may *)
(* refuse, databases may fail, at any point): the protocol implements the  *)
(* replicated store.                                                       *)
(***************************************************************************)
EXTENDS SequentialProofs

USE DEF Coordinator, Followers, Nodes, TWO_PHASE, THREE_PHASE, coordVars,
        followerVars, envVars

Inv == TypeOK /\ CallsMatch /\ SequentialInv

\* The variables the invariant speaks of besides pc, follower, reply and net.
dataVars == <<height, nodeCache, db>>

\* Heights are numbers.
LEMMA HeightTypes ==
  ASSUME Inv
  PROVE  height[0] \in Nat /\ \A f \in Followers : height[f] \in Nat
<1>1. height \in [Nodes -> Nat]
  BY DEF Inv, TypeOK
<1>2. 0 \in Nodes /\ Followers \subseteq Nodes
  BY ConstantsAssumption
<1> QED
  BY <1>1, <1>2

\* There is a first follower.
LEMMA FirstFollower == 1 \in Followers
BY ConstantsAssumption

\* There is at most one request: the call the running Put waits for.
LEMMA OneRequest ==
  ASSUME Inv, NEW r \in net
  PROVE  /\ net = {r} /\ r.live /\ r.index = height[0]
         /\ r.put \in Puts /\ r.to \in Followers /\ r \in Request
         /\ pc[r.put] \in Waiting /\ pc[r.put] \in Active
         /\ r.kind = KindAt(pc[r.put])
         /\ r.to = follower[r.put] /\ reply[r.put] = NoReply
         /\ \A q \in Puts : q # r.put => pc[q] \notin Active
<1>1. \A s \in net : s \in Request /\ s.put \in Puts /\ s.to \in Followers
  BY RequestTypes DEF Inv, TypeOK
<1>2. \A s \in net : /\ s.live /\ s.index = height[0] /\ pc[s.put] \in Active
                     /\ pc[s.put] \in Waiting
                     /\ s.kind = KindAt(pc[s.put])
                     /\ s.to = follower[s.put] /\ reply[s.put] = NoReply
  BY DEF Inv, SequentialInv, CallsCurrent, CallsMatch, Active
<1>3. \A p, q \in Puts : pc[p] \in Active /\ pc[q] \in Active => p = q
  BY DEF Inv, SequentialInv, OneActive
<1>4. \A s \in net : s.put = r.put
  BY <1>1, <1>2, <1>3
<1>5. \A s \in net : s = r
  BY <1>2, <1>4 DEF Inv, CallsMatch
<1> QED
  BY <1>1, <1>2, <1>3, <1>5

\* A running Put that waits for no answer: no request at all.
LEMMA NoRequest ==
  ASSUME Inv, NEW p \in Puts, pc[p] \in Active,
         pc[p] \notin Waiting \/ reply[p] # NoReply
  PROVE  net = {}
<1> SUFFICES ASSUME NEW r \in net PROVE FALSE
  OBVIOUS
<1>1. r.put = p
  BY OneRequest
<1> QED
  BY <1>1, OneRequest

\* db.Put changes one key of one node.
LEMMA DBPutStores ==
  ASSUME TypeOK, NEW n \in Nodes, NEW p \in Puts, db' = DBPut(n, p)
  PROVE  /\ KeyOf[p] \in Keys
         /\ db'[n][KeyOf[p]] = p
         /\ \A m \in Nodes : m # n => db'[m] = db[m]
         /\ \A k \in Keys : k # KeyOf[p] => db'[n][k] = db[n][k]
<1>1. KeyOf[p] \in Keys
  BY ConstantsAssumption
<1>2. db' = [db EXCEPT ![n] = [db[n] EXCEPT ![KeyOf[p]] = p]]
  BY DEF DBPut
<1>3. db \in [Nodes -> [Keys -> Puts \cup {None}]]
  BY DEF TypeOK
<1> QED
  BY <1>1, <1>2, <1>3

(***************************************************************************)
(* Steps of Put                                                            *)
(***************************************************************************)

\* The parts that only depend on heights, caches, databases and requests.
LEMMA SameRest ==
  ASSUME Inv, UNCHANGED <<height, nodeCache, net, ctxDone>>
  PROVE  CallsCurrent' /\ HeightsFall' /\ HandlersRight'
BY DEF Inv, SequentialInv, CallsCurrent, HeightsFall, HandlersRight, Prepared, CacheHas

\* A Put begins.
LEMMA PutBeginPhases ==
  ASSUME Inv, NEW p \in Puts, PutBegin(p)
  PROVE  CallsCurrent' /\ HeightsFall' /\ HandlersRight' /\ Phases(p)'
<1>1. CallsCurrent' /\ HeightsFall' /\ HandlersRight'
  BY SameRest DEF PutBegin
<1>2. pc[p]' = "propose" /\ follower[p]' = 1
  BY DEF PutBegin, Goto, Inv, TypeOK, SequentialInv, OneActive
<1> QED
  BY <1>1, <1>2 DEF Phases, ProposePhase, PrecommitPhase, CommitPhase

\* Put makes a call: the only request, at the current height.
LEMMA CallPhases ==
  ASSUME Inv, NEW p \in Puts, NEW kind \in {"propose", "precommit", "commit"},
         NEW label \in Waiting, pc[p] \in Active, pc[p] \notin Waiting,
         Call(p, kind), Goto(p, label),
         UNCHANGED <<height, nodeCache, db, follower, msg, ctxDone>>
  PROVE  /\ CallsCurrent' /\ HeightsFall' /\ HandlersRight'
         /\ reply[p]' = NoReply /\ pc[p]' = label
<1> DEFINE m == [put |-> p, to |-> follower[p], kind |-> kind,
                 index |-> height[Coordinator], stage |-> "sent",
                 vote |-> "none", entry |-> None, live |-> TRUE]
<1>1. net = {} /\ ctxDone = {}
  BY NoRequest DEF Inv, SequentialInv, CallsCurrent
<1>2. net' = {m} /\ reply[p]' = NoReply /\ pc[p]' = label
  BY <1>1 DEF Call, Goto, Inv, TypeOK
<1>3. m.live /\ m.index = height[0] /\ m.stage = "sent"
  OBVIOUS
<1> HIDE DEF m
<1>4. CallsCurrent' /\ HandlersRight'
  BY <1>1, <1>2, <1>3 DEF CallsCurrent, HandlersRight
<1>5. HeightsFall'
  BY DEF Inv, SequentialInv, HeightsFall
<1> QED
  BY <1>2, <1>4, <1>5

\* Put sends a proposal.
LEMMA CallProposePhases ==
  ASSUME Inv, NEW p \in Puts, CallPropose(p)
  PROVE  CallsCurrent' /\ HeightsFall' /\ HandlersRight' /\ Phases(p)'
<1>1. /\ CallsCurrent' /\ HeightsFall' /\ HandlersRight'
      /\ reply[p]' = NoReply /\ pc[p]' = "proposing" /\ pc[p] = "propose"
  BY CallPhases DEF CallPropose, Active, Waiting
<1>2. UNCHANGED <<height, nodeCache, db, follower>> /\ height[0] \in Nat
  BY ConstantsAssumption DEF CallPropose, Inv, TypeOK
<1>3. \A e \in Followers : e < follower[p] => Voted(e, p) /\ Prepared(Coordinator, p)
  BY <1>1 DEF Inv, SequentialInv, Phases, ProposePhase
<1> QED
  BY <1>1, <1>2, <1>3 DEF Phases, ProposePhase, PrecommitPhase, CommitPhase, NoReply,
     Voted, Prepared

\* The answer to a proposal.
LEMMA ProposeReturnPhases ==
  ASSUME Inv, NEW p \in Puts, ProposeReturn(p)
  PROVE  CallsCurrent' /\ HeightsFall' /\ HandlersRight' /\ Phases(p)'
<1>1. CallsCurrent' /\ HeightsFall' /\ HandlersRight'
  BY SameRest DEF ProposeReturn
<1>2. UNCHANGED <<height, nodeCache, db, follower, reply>> /\ pc[p] = "proposing"
  BY DEF ProposeReturn
<1>3. pc[p]' = IF reply[p].index > height[0] THEN "raise"
               ELSE IF reply[p].type = "ACK" THEN "voted" ELSE "propose"
  BY DEF ProposeReturn, ProposeAgain, Goto, Inv, TypeOK
<1>4. ProposePhase(p)
  BY DEF Inv, SequentialInv, Phases
<1>5. ProposePhase(p)'
  BY <1>2, <1>3, <1>4 DEF ProposePhase, Voted, Prepared
<1> QED
  BY <1>1, <1>3, <1>5 DEF Phases, PrecommitPhase, CommitPhase

\* Only the first follower raises the coordinator's height: once one follower
\* has voted, none that comes after it is ahead.
LEMMA RaiseHeightPhases ==
  ASSUME Inv, NEW p \in Puts, RaiseHeight(p)
  PROVE  CallsCurrent' /\ HeightsFall' /\ HandlersRight' /\ Phases(p)'
<1>0. /\ pc[p] = "raise" /\ ProposePhase(p) /\ HeightsFall
      /\ height \in [Nodes -> Nat] /\ follower[p] \in Followers /\ N \in Nat \ {0}
  BY ConstantsAssumption
     DEF RaiseHeight, Inv, TypeOK, SequentialInv, Phases
<1>1. reply[p].type = "NACK" /\ reply[p].index = height[follower[p]]
      /\ reply[p].index > height[0]
  BY <1>0 DEF ProposePhase
<1>2. follower[p] = 1
  <2> SUFFICES ASSUME 1 < follower[p] PROVE FALSE
    BY <1>0
  <2>1. height[1] <= height[0]
    BY <1>0 DEF ProposePhase, Voted
  <2>2. height[follower[p]] <= height[1]
    BY <1>0 DEF HeightsFall
  <2> QED
    BY <1>0, <1>1, <2>1, <2>2
<1>3. /\ height' = [height EXCEPT ![0] = height[1]]
      /\ pc[p]' = "propose" /\ follower[p]' = 1
  BY <1>0, <1>1, <1>2 DEF RaiseHeight, ProposeAgain, Goto, Inv, TypeOK
<1>4. net = {} /\ net' = {} /\ ctxDone' = ctxDone
  BY <1>0, NoRequest DEF RaiseHeight, Active, Waiting
<1>5. HeightsFall'
  <2>1. /\ 1 \in Followers /\ height[1] \in Nat /\ height[0]' = height[1]
        /\ \A f \in Followers : height[f]' = height[f] /\ height[f] \in Nat
    BY <1>0, <1>3
  <2>2. \A f \in Followers : f = 1 \/ 1 < f
    BY <1>0
  <2>3. \A f \in Followers : height[f] <= height[1]
    BY <1>0, <2>1, <2>2 DEF HeightsFall
  <2> QED
    BY <1>0, <2>1, <2>3 DEF HeightsFall
<1>6. CallsCurrent' /\ HandlersRight'
  BY <1>4 DEF CallsCurrent, HandlersRight, Inv, SequentialInv
<1> QED
  BY <1>3, <1>5, <1>6 DEF Phases, ProposePhase, PrecommitPhase, CommitPhase

\* A follower has voted.
LEMMA ProposeAckedPhases ==
  ASSUME Inv, NEW p \in Puts, ProposeAcked(p)
  PROVE  CallsCurrent' /\ HeightsFall' /\ HandlersRight' /\ Phases(p)'
<1>0. /\ pc[p] = "voted" /\ ProposePhase(p) /\ follower[p] \in Followers
      /\ N \in Nat \ {0} /\ UNCHANGED <<height, net, ctxDone>>
      /\ DOMAIN nodeCache = Nodes /\ p \in DOMAIN pc /\ p \in DOMAIN follower
  BY ConstantsAssumption DEF ProposeAcked, Inv, TypeOK, SequentialInv, Phases
<1>1. net = {} /\ net' = {}
  BY <1>0, NoRequest DEF Active, Waiting
<1>2. CallsCurrent' /\ HandlersRight'
  BY <1>0, <1>1 DEF CallsCurrent, HandlersRight, Inv, SequentialInv
<1>3. HeightsFall'
  BY <1>0 DEF Inv, SequentialInv, HeightsFall
<1>4. nodeCache' = [nodeCache EXCEPT ![0] = CacheSet(nodeCache[0], height[0], p)]
  BY DEF ProposeAcked
<1>5. Prepared(0, p)'
  BY <1>0, <1>4 DEF Prepared, CacheHas, CacheSet
<1>6. \A e \in Followers : e <= follower[p] => Voted(e, p)
  BY <1>0 DEF ProposePhase
<1>7. \A e \in Followers : nodeCache[e]' = nodeCache[e]
  BY <1>0, <1>4
<1>8. \A e \in Followers : e <= follower[p] => Voted(e, p)'
  BY <1>0, <1>6, <1>7 DEF Voted, Prepared
<1>9. CASE follower[p] < N
  <2>1. pc[p]' = "propose" /\ follower[p]' = follower[p] + 1
    BY <1>0, <1>9 DEF ProposeAcked, NextFollower, Goto
  <2>2. \A e \in Followers : e < follower[p]' => e <= follower[p]
    BY <1>0, <2>1
  <2> QED
    BY <1>2, <1>3, <1>5, <1>8, <2>1, <2>2
       DEF Phases, ProposePhase, PrecommitPhase, CommitPhase
<1>10. CASE ~(follower[p] < N)
  <2>1. pc[p]' = "precommit"
    BY <1>0, <1>10 DEF ProposeAcked, NextFollower, Goto
  <2>2. \A e \in Followers : Voted(e, p)'
    BY <1>0, <1>8, <1>10
  <2> QED
    BY <1>2, <1>3, <1>5, <2>1, <2>2
       DEF Phases, ProposePhase, PrecommitPhase, CommitPhase
<1> QED
  BY <1>9, <1>10

\* Put sends a precommit.
LEMMA CallPrecommitPhases ==
  ASSUME Inv, NEW p \in Puts, CallPrecommit(p)
  PROVE  CallsCurrent' /\ HeightsFall' /\ HandlersRight' /\ Phases(p)'
<1>1. /\ CallsCurrent' /\ HeightsFall' /\ HandlersRight'
      /\ reply[p]' = NoReply /\ pc[p]' = "precommitting" /\ pc[p] = "precommit"
  BY CallPhases DEF CallPrecommit, Active, Waiting
<1>2. UNCHANGED <<height, nodeCache, db, follower>>
  BY DEF CallPrecommit
<1>3. Prepared(Coordinator, p) /\ \A f \in Followers : Voted(f, p)
  BY <1>1 DEF Inv, SequentialInv, Phases, PrecommitPhase
<1> QED
  BY <1>1, <1>2, <1>3 DEF Phases, ProposePhase, PrecommitPhase, CommitPhase,
     Voted, Prepared

\* The answer to a precommit.
LEMMA PrecommitReturnPhases ==
  ASSUME Inv, NEW p \in Puts, PrecommitReturn(p)
  PROVE  CallsCurrent' /\ HeightsFall' /\ HandlersRight' /\ Phases(p)'
<1>1. CallsCurrent' /\ HeightsFall' /\ HandlersRight'
  BY SameRest DEF PrecommitReturn
<1>2. UNCHANGED <<height, nodeCache, db>> /\ pc[p] = "precommitting"
  BY DEF PrecommitReturn
<1>3. Prepared(Coordinator, p) /\ \A f \in Followers : Voted(f, p)
  BY <1>2 DEF Inv, SequentialInv, Phases, PrecommitPhase
<1>4. \/ pc[p]' \in {"done", "precommit"}
      \/ pc[p]' = "persist" /\ follower[p]' = 1
  BY DEF PrecommitReturn, Return, NextFollower, Goto, Inv, TypeOK
<1> QED
  BY <1>1, <1>2, <1>3, <1>4 DEF Phases, ProposePhase, PrecommitPhase, CommitPhase,
     Voted, Prepared

\* Put finds its own entry in the coordinator's cache.
LEMMA PersistLookupPhases ==
  ASSUME Inv, NEW p \in Puts, PersistLookup(p)
  PROVE  CallsCurrent' /\ HeightsFall' /\ HandlersRight' /\ Phases(p)'
<1>1. CallsCurrent' /\ HeightsFall' /\ HandlersRight'
  BY SameRest DEF PersistLookup
<1>2. /\ UNCHANGED <<height, nodeCache, db, follower>> /\ pc[p] = "persist"
      /\ pc[p]' = "save" /\ msg[p]' = nodeCache[0][height[0]]
  BY DEF PersistLookup, Goto, Inv, TypeOK
<1>3. /\ Prepared(Coordinator, p) /\ \A f \in Followers : Voted(f, p)
      /\ follower[p] = 1
  BY <1>2 DEF Inv, SequentialInv, Phases, PrecommitPhase
<1> QED
  BY <1>1, <1>2, <1>3 DEF Phases, ProposePhase, PrecommitPhase, CommitPhase,
     Voted, Prepared

\* Put gives up: it is no longer running.
LEMMA GiveUpPhases ==
  ASSUME Inv, NEW p \in Puts, PersistMissing(p) \/ PersistFails(p)
  PROVE  CallsCurrent' /\ HeightsFall' /\ HandlersRight' /\ Phases(p)'
<1>1. CallsCurrent' /\ HeightsFall' /\ HandlersRight'
  BY SameRest DEF PersistMissing, PersistFails
<1>2. pc[p]' = "done"
  BY DEF PersistMissing, PersistFails, Return, Goto, Inv, TypeOK
<1> QED
  BY <1>1, <1>2 DEF Phases, ProposePhase, PrecommitPhase, CommitPhase

\* Put persists the entry: the decision.
LEMMA PersistStorePhases ==
  ASSUME Inv, NEW p \in Puts, PersistStore(p)
  PROVE  CallsCurrent' /\ HeightsFall' /\ HandlersRight' /\ Phases(p)'
<1>1. CallsCurrent' /\ HeightsFall' /\ HandlersRight'
  BY SameRest DEF PersistStore
<1>2. /\ UNCHANGED <<height, nodeCache, follower, reply>> /\ pc[p] = "save"
      /\ pc[p]' = "commit" /\ db' = DBPut(0, msg[p])
  BY DEF PersistStore, Goto, Inv, TypeOK
<1>3. /\ \A f \in Followers : Voted(f, p)
      /\ follower[p] = 1 /\ msg[p] = p
  BY <1>2 DEF Inv, SequentialInv, Phases, PrecommitPhase
<1>4. db[0]'[KeyOf[p]] = p
  BY <1>2, <1>3, ConstantsAssumption, DBPutStores DEF Inv
<1>5. \A f \in Followers : Voted(f, p)' /\ ~Committed(f, p)'
  BY <1>2, <1>3 DEF Voted, Prepared, Committed
<1> QED
  BY <1>1, <1>2, <1>4, <1>5, FirstFollower
     DEF Phases, ProposePhase, PrecommitPhase, CommitPhase

\* Put sends a commit.
LEMMA CallCommitPhases ==
  ASSUME Inv, NEW p \in Puts, CallCommit(p)
  PROVE  CallsCurrent' /\ HeightsFall' /\ HandlersRight' /\ Phases(p)'
<1>1. /\ CallsCurrent' /\ HeightsFall' /\ HandlersRight'
      /\ reply[p]' = NoReply /\ pc[p]' = "committing" /\ pc[p] = "commit"
  BY CallPhases DEF CallCommit, Active, Waiting
<1>2. UNCHANGED <<height, nodeCache, db, follower>>
  BY DEF CallCommit
<1>3. CommitPhase(p)
  BY DEF Inv, SequentialInv, Phases
<1>4. \A f \in Followers : /\ Committed(f, p)' <=> Committed(f, p)
                           /\ Pending(f, p)' <=> Pending(f, p)
                           /\ Voted(f, p)' <=> Voted(f, p)
  BY <1>1, <1>2 DEF Committed, Pending, Voted, Prepared, NoReply
<1> QED
  BY <1>1, <1>2, <1>3, <1>4, FirstFollower
     DEF Phases, ProposePhase, PrecommitPhase, CommitPhase

\* The answer to a commit: after the last one every node has the value.
LEMMA CommitReturnPhases ==
  ASSUME Inv, NEW p \in Puts, CommitReturn(p)
  PROVE  CallsCurrent' /\ HeightsFall' /\ HandlersRight' /\ Phases(p)'
<1>1. CallsCurrent' /\ HeightsFall' /\ HandlersRight'
  BY SameRest DEF CommitReturn
<1>2. /\ UNCHANGED <<height, nodeCache, db, reply>> /\ pc[p] = "committing"
      /\ reply[p] # NoReply /\ follower[p] \in Followers /\ N \in Nat \ {0}
      /\ p \in DOMAIN pc /\ p \in DOMAIN follower /\ CommitPhase(p)
  BY ConstantsAssumption
     DEF CommitReturn, Inv, TypeOK, SequentialInv, Phases
<1>3. CASE reply[p].type # "ACK"
  <2>1. pc[p]' = "done"
    BY <1>2, <1>3 DEF CommitReturn, Return, Goto
  <2> QED
    BY <1>1, <2>1 DEF Phases, ProposePhase, PrecommitPhase, CommitPhase
<1>4. CASE reply[p].type = "ACK" /\ follower[p] < N
  <2>1. pc[p]' = "commit" /\ follower[p]' = follower[p] + 1
    BY <1>2, <1>4 DEF CommitReturn, NextFollower, Goto
  <2>2. \A f \in Followers : /\ Committed(f, p)' => Committed(f, p)
                             /\ Pending(f, p)' => Pending(f, p)
                             /\ Voted(f, p)' <=> Voted(f, p)
    BY <1>2, <1>4, <2>1 DEF Committed, Pending, Voted, Prepared
  <2> QED
    BY <1>1, <1>2, <2>1, <2>2, FirstFollower
       DEF Phases, ProposePhase, PrecommitPhase, CommitPhase
<1>5. CASE reply[p].type = "ACK" /\ ~(follower[p] < N)
  <2>1. pc[p]' = "finish"
    BY <1>2, <1>5 DEF CommitReturn, NextFollower, Goto
  <2>2. \A f \in Followers : Committed(f, p)
    BY <1>2, <1>5 DEF Committed
  <2>3. \A n \in Nodes : db[n][KeyOf[p]] = p
    BY <1>2, <2>2 DEF CommitPhase
  <2>4. height[0] < height[1]
    BY <1>2, <2>2 DEF CommitPhase
  <2> QED
    BY <1>1, <1>2, <2>1, <2>3, <2>4 DEF Phases, ProposePhase, PrecommitPhase, CommitPhase
<1> QED
  BY <1>3, <1>4, <1>5

\* The height goes up by one.
LEMMA IncreaseHeightPhases ==
  ASSUME Inv, NEW p \in Puts, IncreaseHeight(p)
  PROVE  CallsCurrent' /\ HeightsFall' /\ HandlersRight' /\ Phases(p)'
<1>1. /\ height' = [height EXCEPT ![0] = height[0] + 1] /\ pc[p] = "finish"
      /\ height \in [Nodes -> Nat] /\ N \in Nat \ {0}
      /\ UNCHANGED <<ctxDone, net, db>> /\ pc[p]' = "check"
  BY ConstantsAssumption DEF IncreaseHeight, Goto, Inv, TypeOK
<1>2. net = {}
  BY <1>1, NoRequest DEF Active, Waiting
<1>3. \A n \in Nodes : db[n][KeyOf[p]] = p
  BY <1>1 DEF Inv, SequentialInv, Phases, CommitPhase
<1>4. CallsCurrent' /\ HandlersRight'
  BY <1>1, <1>2 DEF CallsCurrent, HandlersRight, Inv, SequentialInv
<1>5. HeightsFall'
  <2>1. HeightsFall /\ height[0] < height[1]
    BY <1>1 DEF Inv, SequentialInv, Phases, CommitPhase
  <2>2. /\ height[0]' = height[0] + 1 /\ height[0] \in Nat
        /\ \A f \in Followers : height[f]' = height[f] /\ height[f] \in Nat
    BY <1>1
  <2> QED
    BY <1>1, <2>1, <2>2 DEF HeightsFall
<1> QED
  BY <1>1, <1>3, <1>4, <1>5 DEF Phases, ProposePhase, PrecommitPhase, CommitPhase

\* Put acknowledges, or the monitor panics.
LEMMA FinishPhases ==
  ASSUME Inv, NEW p \in Puts, Finish(p) \/ Panic(p)
  PROVE  CallsCurrent' /\ HeightsFall' /\ HandlersRight' /\ Phases(p)'
<1>1. pc[p] = "check" /\ UNCHANGED <<height, ctxDone>>
  BY DEF Finish, Panic
<1>2. net = {}
  BY <1>1, NoRequest DEF Active, Waiting
<1>3. net' = {} /\ pc[p]' = "done"
  <2>1. CASE Finish(p)
    BY <1>2, <2>1 DEF Finish, Return, Goto, Inv, TypeOK
  <2>2. CASE Panic(p)
    BY <1>1, <1>2, <2>2 DEF Panic, Die, Active, Waiting
  <2> QED
    BY <2>1, <2>2
<1>4. CallsCurrent' /\ HeightsFall' /\ HandlersRight'
  BY <1>3, <1>1, <1>2 DEF CallsCurrent, HeightsFall, HandlersRight, Inv, SequentialInv
<1> QED
  BY <1>3, <1>4 DEF Phases, ProposePhase, PrecommitPhase, CommitPhase

\* The steps of Put, together.
LEMMA PutInv ==
  ASSUME Inv, Sequential, NEW p \in Puts, PutBegin(p) \/ PutStep(p)
  PROVE  SequentialInv'
<1>1. OneActive' /\ \A q \in Puts : q # p => Phases(q)'
  BY PutOthers DEF Inv, SequentialInv
<1>2. CallsCurrent' /\ HeightsFall' /\ HandlersRight' /\ Phases(p)'
  BY PutBeginPhases, CallProposePhases, ProposeReturnPhases, RaiseHeightPhases,
     ProposeAckedPhases, CallPrecommitPhases, PrecommitReturnPhases,
     PersistLookupPhases, GiveUpPhases, PersistStorePhases, CallCommitPhases,
     CommitReturnPhases, IncreaseHeightPhases, FinishPhases DEF PutStep
<1> QED
  BY <1>1, <1>2 DEF SequentialInv

\* The monitor panics, or a Put finds no coordinator.
LEMMA CrashInv ==
  ASSUME Inv, NEW p \in Puts, Panic(p) \/ PutRefused(p)
  PROVE  SequentialInv'
<1>1. CASE Panic(p)
  <2>1. OneActive' /\ \A q \in Puts : Phases(q)'
    BY <1>1, DieIdle DEF Panic, Inv, SequentialInv
  <2> QED
    BY <1>1, <2>1, FinishPhases DEF SequentialInv
<1>2. CASE PutRefused(p)
  <2>1. /\ OneActive' /\ pc[p]' \notin Active
        /\ \A q \in Puts : q # p => pc[q]' = pc[q]
    BY <1>2, RefusedIdle DEF Inv, SequentialInv
  <2>2. UNCHANGED <<height, nodeCache, db, net, ctxDone, follower, msg, reply>>
    BY <1>2 DEF PutRefused, Return
  <2>3. ASSUME NEW q \in Puts, q # p PROVE Phases(q)'
    BY <2>1, <2>2, <2>3 DEF Inv, SequentialInv, Phases, ProposePhase, PrecommitPhase,
       CommitPhase, Committed, Pending, Voted, Prepared
  <2> QED
    BY <2>1, <2>2, <2>3, SameRest, IdlePhases DEF SequentialInv
<1> QED
  BY <1>1, <1>2

(***************************************************************************)
(* Steps of the handlers and of the environment                            *)
(***************************************************************************)

\* An answer arrives, or is lost: only what the running Put knows changes.
LEMMA AnswerPhases ==
  ASSUME Inv, NEW p \in Puts, pc[p] \in Waiting, NEW rep, reply[p]' = rep,
         UNCHANGED <<pc, follower, msg, height, nodeCache, db>>,
         pc[p] = "proposing" /\ rep.type = "ACK" =>
           Voted(follower[p], p) /\ rep.index = height[0],
         pc[p] = "proposing" /\ rep.index > height[0] =>
           rep.type = "NACK" /\ rep.index = height[follower[p]],
         pc[p] = "committing" => rep # NoReply /\ rep.type # "ACK"
  PROVE  Phases(p)'
<1>1. Phases(p)
  BY DEF Inv, SequentialInv
<1>2. \A f \in Followers : Voted(f, p)' <=> Voted(f, p)
  BY DEF Voted, Prepared
<1>3. Prepared(0, p)' <=> Prepared(0, p)
  BY DEF Prepared
<1>4. follower[p] \in Followers
  BY DEF Inv, TypeOK
<1>5. ProposePhase(p)'
  BY <1>1, <1>2, <1>3, <1>4 DEF Phases, ProposePhase, Waiting
<1>6. PrecommitPhase(p)'
  BY <1>1, <1>2, <1>3 DEF Phases, PrecommitPhase
<1>7. CommitPhase(p)'
  <2>1. CASE pc[p] = "committing"
    <3>1. \A f \in Followers : /\ Committed(f, p)' => Committed(f, p)
                               /\ Pending(f, p)' => Pending(f, p)
      BY <2>1 DEF Committed, Pending
    <3> QED
      BY <1>1, <1>2, <2>1, <3>1, FirstFollower DEF Phases, CommitPhase
  <2>2. CASE pc[p] # "committing"
    BY <2>2 DEF CommitPhase, Waiting
  <2> QED
    BY <2>1, <2>2
<1> QED
  BY <1>5, <1>6, <1>7 DEF Phases

\* Nothing but the stage of the request changes.
LEMMA ContinuePhases ==
  ASSUME Inv, UNCHANGED <<pc, follower, msg, height, nodeCache, db, reply>>
  PROVE  \A p \in Puts : Phases(p)'
<1>1. \A p \in Puts : Phases(p)
  BY DEF Inv, SequentialInv
<1> QED
  BY <1>1 DEF Phases, ProposePhase, PrecommitPhase, CommitPhase, Committed, Pending,
     Voted, Prepared

\* After an answer there is no request; the rest of the invariant follows.
LEMMA AnswerRest ==
  ASSUME Inv, NEW r \in net, NEW rep, Answer(r, rep), UNCHANGED <<pc, follower, ctxDone>>
  PROVE  /\ OneActive' /\ CallsCurrent' /\ HandlersRight' /\ reply[r.put]' = rep
         /\ \A q \in Puts : q # r.put => Phases(q)'
<1>1. net' = {} /\ reply[r.put]' = rep
  BY OneRequest DEF Answer, Inv, TypeOK
<1>2. OneActive' /\ CallsCurrent' /\ HandlersRight'
  BY <1>1 DEF Inv, SequentialInv, OneActive, CallsCurrent, HandlersRight
<1>3. \A q \in Puts : q # r.put => pc[q]' \notin Active
  BY OneRequest
<1> QED
  BY <1>1, <1>2, <1>3, IdlePhases

\* While the handler goes on there is one request, with a new stage.
LEMMA ContinueRest ==
  ASSUME Inv, NEW r \in net, NEW r2, Continue(r, r2), UNCHANGED <<pc, follower, ctxDone, height>>,
         r2.live, r2.index = height[0],
         (r2.kind = "propose" /\ r2.stage = "stored" /\ r2.vote = "ACK"
            => Prepared(r2.to, r2.put)'),
         r2.stage = "found" => r2.entry = r2.put /\ r2.kind = "commit"
  PROVE  OneActive' /\ CallsCurrent' /\ HandlersRight' /\ HeightsFall'
<1>1. net' = {r2}
  BY OneRequest DEF Continue
<1>2. OneActive' /\ HeightsFall'
  BY DEF Inv, SequentialInv, OneActive, HeightsFall
<1>3. CallsCurrent'
  BY <1>1 DEF Inv, SequentialInv, CallsCurrent
<1>4. HandlersRight'
  BY <1>1 DEF HandlersRight
<1> QED
  BY <1>2, <1>3, <1>4

\* The label at which a Put waits for each kind of call.
LEMMA WaitLabels ==
  ASSUME NEW l \in Waiting
  PROVE  /\ KindAt(l) = "propose" => l = "proposing"
         /\ KindAt(l) = "precommit" => l = "precommitting"
         /\ KindAt(l) = "commit" => l = "committing"
<1>1. /\ KindAt("proposing") = "propose" /\ KindAt("committing") = "commit"
      /\ KindAt("precommitting") = "precommit"
  BY DEF KindAt
<1> QED
  BY <1>1 DEF Waiting

\* A call fails without effect on heights, caches and databases.
LEMMA FailedInv ==
  ASSUME Inv, NEW r \in net, NEW rep, Answer(r, rep),
         rep = Failed \/ (r.kind = "precommit" /\ rep = Ack(0)),
         UNCHANGED <<pc, follower, msg, ctxDone, height, nodeCache, db>>
  PROVE  SequentialInv'
<1>1. /\ OneActive' /\ CallsCurrent' /\ HandlersRight' /\ reply[r.put]' = rep
      /\ \A q \in Puts : q # r.put => Phases(q)'
  BY AnswerRest
<1>2. HeightsFall'
  BY DEF Inv, SequentialInv, HeightsFall
<1>3. Phases(r.put)'
  <2>1. r.put \in Puts /\ pc[r.put] \in Waiting /\ r.kind = KindAt(pc[r.put])
        /\ height[0] \in Nat
    BY HeightTypes, OneRequest
  <2>2. r.kind = "precommit" => pc[r.put] = "precommitting"
    BY <2>1, WaitLabels
  <2>3. Failed.type = "failed" /\ Failed.index = 0 /\ Failed # NoReply
    BY DEF Failed, NoReply
  <2>4. /\ pc[r.put] = "proposing" => rep.type # "ACK" /\ ~(rep.index > height[0])
        /\ pc[r.put] = "committing" => rep # NoReply /\ rep.type # "ACK"
    BY <2>1, <2>2, <2>3
  <2> QED
    BY <1>1, <2>1, <2>4, AnswerPhases
<1> QED
  BY <1>1, <1>2, <1>3 DEF SequentialInv

\* The steps of the handlers, one by one.
LEMMA ProposeResetInv ==
  ASSUME Inv, NEW r \in net, ProposeReset(r)
  PROVE  SequentialInv'
<1> DEFINE r2 == [r EXCEPT !.stage = "reset"]
<1>1. r2.live /\ r2.index = height[0] /\ r2.stage = "reset"
  BY OneRequest DEF Request
<1>2. Continue(r, r2)
  BY DEF ProposeReset
<1> HIDE DEF r2
<1>3. UNCHANGED <<pc, follower, msg, ctxDone, height, nodeCache, db, reply>>
  BY DEF ProposeReset, Continue
<1>4. OneActive' /\ CallsCurrent' /\ HandlersRight' /\ HeightsFall'
  BY <1>1, <1>2, <1>3, ContinueRest
<1> QED
  BY <1>3, <1>4, ContinuePhases DEF SequentialInv

\* A commit has arrived.
LEMMA CommitNoteInv ==
  ASSUME Inv, NEW r \in net, CommitNote(r)
  PROVE  SequentialInv'
<1> DEFINE r2 == [r EXCEPT !.stage = "noted"]
<1>1. r2.live /\ r2.index = height[0] /\ r2.stage = "noted"
  BY OneRequest DEF Request
<1>2. Continue(r, r2)
  BY DEF CommitNote
<1> HIDE DEF r2
<1>3. UNCHANGED <<pc, follower, msg, ctxDone, height, nodeCache, db, reply>>
  BY DEF CommitNote, Continue
<1>4. OneActive' /\ CallsCurrent' /\ HandlersRight' /\ HeightsFall'
  BY <1>1, <1>2, <1>3, ContinueRest
<1> QED
  BY <1>3, <1>4, ContinuePhases DEF SequentialInv

\* A commit finds nothing in the cache.
LEMMA CommitMissingInv ==
  ASSUME Inv, NEW r \in net, CommitMissing(r)
  PROVE  SequentialInv'
<1> DEFINE r2 == [r EXCEPT !.stage = "missing"]
<1>1. r2.live /\ r2.index = height[0] /\ r2.stage = "missing"
  BY OneRequest DEF Request
<1>2. Continue(r, r2)
  BY DEF CommitMissing
<1> HIDE DEF r2
<1>3. UNCHANGED <<pc, follower, msg, ctxDone, height, nodeCache, db, reply>>
  BY DEF CommitMissing, Continue
<1>4. OneActive' /\ CallsCurrent' /\ HandlersRight' /\ HeightsFall'
  BY <1>1, <1>2, <1>3, ContinueRest
<1> QED
  BY <1>3, <1>4, ContinuePhases DEF SequentialInv

\* A commit finds the entry of its own Put.
LEMMA CommitLookupInv ==
  ASSUME Inv, NEW r \in net, CommitLookup(r)
  PROVE  SequentialInv'
<1>0. /\ r.put \in Puts /\ r.to \in Followers /\ r.index = height[0] /\ r.live
      /\ r.to = follower[r.put] /\ reply[r.put] = NoReply /\ r.kind = "commit"
      /\ pc[r.put] = "committing" /\ r \in Request
  BY OneRequest, WaitLabels DEF CommitLookup
<1>1. Pending(r.to, r.put)
  BY <1>0 DEF Pending
<1>2. nodeCache[r.to][r.index] = r.put
  BY <1>0, <1>1 DEF Inv, SequentialInv, Phases, CommitPhase, Voted, Prepared
<1> DEFINE r2 == [r EXCEPT !.stage = "found", !.entry = nodeCache[r.to][r.index]]
<1>3. /\ r2.live /\ r2.index = height[0] /\ r2.entry = r2.put
      /\ r2.kind = "commit"
  BY <1>0, <1>2 DEF Request
<1>4. Continue(r, r2)
  BY DEF CommitLookup
<1> HIDE DEF r2
<1>5. UNCHANGED <<pc, follower, msg, ctxDone, height, nodeCache, db, reply>>
  BY DEF CommitLookup, Continue
<1>6. OneActive' /\ CallsCurrent' /\ HandlersRight' /\ HeightsFall'
  BY <1>3, <1>4, <1>5, ContinueRest
<1> QED
  BY <1>5, <1>6, ContinuePhases DEF SequentialInv

\* A proposal is cached.
LEMMA ProposeStoreInv ==
  ASSUME Inv, NEW r \in net, ProposeStore(r)
  PROVE  SequentialInv'
<1>0. /\ r.put \in Puts /\ r.to \in Followers /\ r.index = height[0] /\ r.live
      /\ r.to = follower[r.put] /\ reply[r.put] = NoReply
      /\ pc[r.put] = "proposing" /\ r \in Request
      /\ \A q \in Puts : q # r.put => pc[q] \notin Active
  BY OneRequest, WaitLabels DEF ProposeStore
<1>1. PICK ok \in ProposeVerdicts :
        /\ nodeCache' = IF ok THEN [nodeCache EXCEPT ![r.to] =
                                      CacheSet(@, r.index, r.put)]
                              ELSE nodeCache
        /\ Continue(r, [r EXCEPT !.stage = "stored",
                                 !.vote = IF ok THEN "ACK" ELSE "NACK"])
  BY DEF ProposeStore
<1> DEFINE r2 == [r EXCEPT !.stage = "stored",
                           !.vote = IF ok THEN "ACK" ELSE "NACK"]
<1>2. /\ r2.live /\ r2.index = height[0] /\ r2.to = r.to /\ r2.put = r.put
      /\ r2.stage = "stored" /\ r2.vote = IF ok THEN "ACK" ELSE "NACK"
  BY <1>0 DEF Request
<1>3. Continue(r, r2)
  BY <1>1
<1> HIDE DEF r2
<1>4. UNCHANGED <<pc, follower, msg, ctxDone, height, db, reply>>
  BY <1>1 DEF ProposeStore, Continue
<1>5. DOMAIN nodeCache = Nodes /\ r.to \in Nodes /\ r.to # 0
  BY <1>0 DEF Inv, TypeOK
<1>6. ok => Prepared(r.to, r.put)'
  BY <1>0, <1>1, <1>4, <1>5 DEF Prepared, CacheHas, CacheSet
<1>7. OneActive' /\ CallsCurrent' /\ HandlersRight' /\ HeightsFall'
  <2>1. r2.vote = "ACK" => Prepared(r2.to, r2.put)'
    BY <1>2, <1>6
  <2> QED
    BY <1>2, <1>3, <1>4, <2>1, ContinueRest
<1>8. \A n \in Nodes : n # r.to => nodeCache[n]' = nodeCache[n]
  BY <1>1, <1>5
<1>9. Phases(r.put)'
  <2>1. ProposePhase(r.put)
    BY <1>0 DEF Inv, SequentialInv, Phases
  <2>2. \A e \in Followers : e < follower[r.put] =>
          Voted(e, r.put) /\ Prepared(Coordinator, r.put)
    BY <1>0, <2>1 DEF ProposePhase
  <2>3. \A e \in Followers : e < follower[r.put] =>
          Voted(e, r.put)' /\ Prepared(Coordinator, r.put)'
    <3>1. \A e \in Followers : e < follower[r.put] => nodeCache[e]' = nodeCache[e]
      BY <1>0, <1>8, ConstantsAssumption
    <3>2. nodeCache[0]' = nodeCache[0]
      BY <1>5, <1>8, ConstantsAssumption
    <3> QED
      BY <1>4, <2>2, <3>1, <3>2 DEF Voted, Prepared
  <2>4. height[0] \in Nat
    BY HeightTypes
  <2> QED
    BY <1>0, <1>4, <2>3, <2>4
       DEF Phases, ProposePhase, PrecommitPhase, CommitPhase, NoReply
<1>10. \A q \in Puts : q # r.put => Phases(q)'
  BY <1>0, <1>4, IdlePhases
<1> QED
  BY <1>7, <1>9, <1>10 DEF SequentialInv

\* A proposal is answered: ACK only by a follower that is not ahead.
LEMMA ProposeAnswerInv ==
  ASSUME Inv, NEW r \in net, ProposeAnswer(r)
  PROVE  SequentialInv'
<1>0. /\ r.put \in Puts /\ r.to \in Followers /\ r.index = height[0]
      /\ r.to = follower[r.put] /\ pc[r.put] = "proposing" /\ pc[r.put] \in Waiting
      /\ r.kind = "propose" /\ r.stage = "stored"
  BY OneRequest, WaitLabels DEF ProposeAnswer
<1> DEFINE rep == IF height[r.to] > r.index THEN Nack(height[r.to])
                                            ELSE [type |-> r.vote, index |-> r.index]
<1>1. Answer(r, rep) /\ UNCHANGED <<pc, follower, msg, ctxDone, height, nodeCache, db>>
  BY DEF ProposeAnswer
<1>2. height[r.to] \in Nat /\ height[0] \in Nat
  BY <1>0, HeightTypes
<1>3. rep.type = "ACK" => r.vote = "ACK" /\ ~(height[r.to] > r.index) /\ rep.index = height[0]
  BY <1>0 DEF Nack
<1>4. rep.index > height[0] => rep.type = "NACK" /\ rep.index = height[r.to]
  BY <1>0, <1>2 DEF Nack
<1> HIDE DEF rep
<1>5. rep.type = "ACK" => Voted(r.to, r.put)
  BY <1>0, <1>2, <1>3 DEF Inv, SequentialInv, HandlersRight, Voted
<1>6. /\ OneActive' /\ CallsCurrent' /\ HandlersRight' /\ reply[r.put]' = rep
      /\ \A q \in Puts : q # r.put => Phases(q)'
  BY <1>1, AnswerRest
<1>7. HeightsFall'
  BY <1>1 DEF Inv, SequentialInv, HeightsFall
<1>8. Phases(r.put)'
  BY <1>0, <1>1, <1>3, <1>4, <1>5, <1>6, AnswerPhases
<1> QED
  BY <1>6, <1>7, <1>8 DEF SequentialInv

\* A commit is refused, or finds nothing: the entry is forgotten.
LEMMA CommitRefusedInv ==
  ASSUME Inv, NEW r \in net, CommitRefused(r) \/ CommitForget(r)
  PROVE  SequentialInv'
<1>0. /\ r.put \in Puts /\ r.to \in Followers /\ r.to = follower[r.put]
      /\ pc[r.put] = "committing"
  BY OneRequest, WaitLabels DEF CommitRefused, CommitForget
<1> DEFINE rep == IF CommitRefused(r) THEN Nack(0) ELSE Failed
<1>1. /\ Answer(r, rep) /\ UNCHANGED <<pc, follower, msg, ctxDone, height, db>>
      /\ nodeCache' = [nodeCache EXCEPT ![r.to] = CacheDelete(nodeCache[r.to], r.index)]
  BY DEF CommitRefused, CommitForget
<1>2. /\ OneActive' /\ CallsCurrent' /\ HandlersRight' /\ reply[r.put]' = rep
      /\ \A q \in Puts : q # r.put => Phases(q)'
  BY <1>1, AnswerRest
<1>3. HeightsFall'
  BY <1>1 DEF Inv, SequentialInv, HeightsFall
<1>4. rep.type # "ACK" /\ rep # NoReply
  BY DEF Nack, Failed, NoReply
<1> HIDE DEF rep
<1>5. \A f \in Followers : f # r.to => nodeCache[f]' = nodeCache[f]
  BY <1>0, <1>1 DEF Inv, TypeOK
<1>6. \A f \in Followers :
        /\ Committed(f, r.put)' => Committed(f, r.put)
        /\ Pending(f, r.put)' => Pending(f, r.put) /\ f # r.to
  BY <1>0, <1>1, <1>2, <1>4 DEF Committed, Pending
<1>7. \A f \in Followers : f # r.to /\ Voted(f, r.put) => Voted(f, r.put)'
  BY <1>1, <1>5 DEF Voted, Prepared
<1>8. CommitPhase(r.put)
  BY <1>0 DEF Inv, SequentialInv, Phases
<1>9. Phases(r.put)'
  BY <1>0, <1>1, <1>6, <1>7, <1>8, FirstFollower
     DEF Phases, ProposePhase, PrecommitPhase, CommitPhase
<1> QED
  BY <1>2, <1>3, <1>9 DEF SequentialInv

\* What a commit does on a follower: it writes the value the coordinator has
\* persisted.
LEMMA CommitStoreEffect ==
  ASSUME Inv, NEW r \in net, CommitStore(r)
  PROVE  /\ r.put \in Puts /\ r.to \in Followers /\ r.to = follower[r.put]
         /\ pc[r.put] = "committing" /\ reply[r.put] = NoReply
         /\ r.entry = r.put /\ db' = DBPut(r.to, r.put)
         /\ db[0][KeyOf[r.put]] = r.put
         /\ CommitPhase(r.put)
<1>1. /\ r.put \in Puts /\ r.to \in Followers /\ r.to = follower[r.put]
      /\ pc[r.put] = "committing" /\ reply[r.put] = NoReply
  BY OneRequest, WaitLabels DEF CommitStore
<1>2. r.entry = r.put
  BY DEF CommitStore, Inv, SequentialInv, HandlersRight
<1>3. CommitPhase(r.put)
  BY <1>1 DEF Inv, SequentialInv, Phases
<1>4. db[0][KeyOf[r.put]] = r.put
  BY <1>1, <1>3 DEF CommitPhase
<1> QED
  BY <1>1, <1>2, <1>3, <1>4 DEF CommitStore

\* A commit is done: the follower is one ahead of those that wait for theirs.
LEMMA CommitStoreInv ==
  ASSUME Inv, NEW r \in net, CommitStore(r)
  PROVE  SequentialInv'
<1> DEFINE p == r.put
           f == r.to
<1>0. /\ p \in Puts /\ f \in Followers /\ f = follower[p] /\ pc[p] = "committing"
      /\ reply[p] = NoReply /\ db' = DBPut(f, p) /\ db[0][KeyOf[p]] = p
      /\ CommitPhase(p) /\ f \in Nodes /\ 0 \in Nodes /\ f # 0
  BY CommitStoreEffect, ConstantsAssumption
<1>1. /\ Answer(r, Ack(0)) /\ UNCHANGED <<pc, follower, msg, ctxDone, nodeCache>>
      /\ height' = [height EXCEPT ![f] = height[f] + 1]
  BY DEF CommitStore
<1>2. /\ OneActive' /\ CallsCurrent' /\ HandlersRight' /\ reply[p]' = Ack(0)
      /\ \A q \in Puts : q # p => Phases(q)'
  BY <1>1, AnswerRest
<1>3. Ack(0).type = "ACK" /\ Ack(0) # NoReply
  BY DEF Ack, NoReply
<1>4. /\ db[f]'[KeyOf[p]] = p
      /\ \A m \in Nodes : m # f => db[m]' = db[m]
  BY <1>0, DBPutStores DEF Inv
<1> HIDE DEF p, f
<1>5. /\ height \in [Nodes -> Nat] /\ height[f]' = height[f] + 1
      /\ \A n \in Nodes : n # f => height[n]' = height[n]
      /\ \A n \in Nodes : height[n] \in Nat
  BY <1>0, <1>1 DEF Inv, TypeOK
<1>6. \A e \in Followers : /\ Committed(e, p) <=> e < f
                           /\ Pending(e, p) <=> e >= f
                           /\ Committed(e, p)' <=> e <= f
                           /\ Pending(e, p)' <=> e > f
  BY <1>0, <1>1, <1>2, <1>3 DEF Committed, Pending, NoReply
<1>7. Voted(f, p) /\ \A e \in Followers : e < f => \A g \in Followers : g >= f => height[g] < height[e]
  BY <1>0, <1>6 DEF CommitPhase
<1>8. HeightsFall /\ Followers \subseteq Nodes
  BY DEF Inv, SequentialInv
<1>9. HeightsFall'
  <2>1. ASSUME NEW e \in Followers, NEW g \in Followers, e < g
        PROVE  height[g]' <= height[e]'
    <3>0. height[g] <= height[e] /\ height[g] \in Nat /\ height[e] \in Nat
      BY <1>5, <1>8, <2>1 DEF HeightsFall
    <3>1. CASE g = f
      <4>1. height[g] < height[e] /\ e # f
        BY <1>0, <1>7, <2>1, <3>1
      <4> QED
        BY <1>5, <1>8, <3>0, <3>1, <4>1
    <3>2. CASE g # f
      BY <1>5, <1>8, <3>0, <3>2
    <3> QED
      BY <3>1, <3>2
  <2>2. height[0]' <= height[1]'
    <3>1. 1 \in Followers /\ height[0] <= height[1] /\ height[0]' = height[0]
      BY <1>0, <1>5, <1>8, ConstantsAssumption DEF HeightsFall
    <3>2. 1 \in Nodes /\ height[1] \in Nat /\ height[0] \in Nat
      BY <1>0, <1>5, <1>8, <3>1
    <3>3. CASE f = 1
      BY <1>5, <3>1, <3>2, <3>3
    <3>4. CASE f # 1
      BY <1>5, <3>1, <3>2, <3>4
    <3> QED
      BY <3>3, <3>4
  <2> QED
    BY <2>1, <2>2 DEF HeightsFall
<1>10. Phases(p)'
  <2>1. pc[p]' = "committing" /\ db[0]'[KeyOf[p]] = p
    BY <1>0, <1>1, <1>4
  <2>2. \A e \in Followers : e <= f => db[e]'[KeyOf[p]] = p
    BY <1>0, <1>4, <1>6, <1>8 DEF CommitPhase
  <2>3. \A e \in Followers : e > f => Voted(e, p)'
    <3>1. \A e \in Followers : e > f => Voted(e, p)
      BY <1>0, <1>6 DEF CommitPhase
    <3> QED
      BY <1>0, <1>1, <1>5, <1>8, <3>1 DEF Voted, Prepared
  <2>4. ASSUME NEW e \in Followers, NEW g \in Followers, e <= f, g > f
        PROVE  height[g]' < height[e]'
    <3>1. height[g]' = height[g] /\ height[g] \in Nat /\ height[e] \in Nat /\ height[f] \in Nat
      BY <1>0, <1>5, <1>8, <2>4
    <3>2. CASE e = f
      <4>1. height[g] <= height[f]
        BY <1>0, <1>8, <2>4 DEF HeightsFall
      <4> QED
        BY <1>5, <3>1, <3>2, <4>1
    <3>3. CASE e # f
      <4>1. height[g] < height[e]
        BY <1>0, <1>7, <2>4, <3>3
      <4> QED
        BY <1>5, <1>8, <3>1, <3>3, <4>1
    <3> QED
      BY <3>2, <3>3
  <2>5. height[0]' < height[1]'
    <3>1. /\ 1 \in Followers /\ height[0]' = height[0] /\ f >= 1
          /\ height[0] \in Nat /\ height[1] \in Nat /\ height[0] <= height[1]
      BY <1>0, <1>5, <1>8, ConstantsAssumption DEF HeightsFall
    <3>2. CASE f = 1
      BY <1>5, <3>1, <3>2
    <3>3. CASE f # 1
      <4>1. height[0] < height[1]
        BY <1>0, <1>6, <3>1, <3>3 DEF CommitPhase
      <4> QED
        BY <1>5, <1>8, <3>1, <3>3, <4>1
    <3> QED
      BY <3>2, <3>3
  <2> QED
    BY <1>6, <2>1, <2>2, <2>3, <2>4, <2>5
       DEF Phases, ProposePhase, PrecommitPhase, CommitPhase
<1> QED
  BY <1>2, <1>9, <1>10 DEF SequentialInv

\* The steps of the handlers, together.
LEMMA HandleInv ==
  ASSUME Inv, NEW r \in net, Handle(r)
  PROVE  SequentialInv'
<1>1. CASE PrecommitHandle(r)
  BY <1>1, FailedInv DEF PrecommitHandle
<1>2. CASE CommitStoreFails(r)
  BY <1>2, FailedInv DEF CommitStoreFails
<1> QED
  BY <1>1, <1>2, ProposeResetInv, ProposeStoreInv, ProposeAnswerInv,
     CommitNoteInv, CommitLookupInv, CommitMissingInv, CommitRefusedInv, CommitStoreInv DEF Handle

\* In a reliable environment calls fail, and the coordinator may be stopped and
\* started again; that is all.
LEMMA EnvironmentInv ==
  ASSUME Inv, Reliable, (\E t \in timers : Autocommit(t)) \/ Environment
  PROVE  SequentialInv'
<1>0. ctxDone = {} /\ restarts \in Nat /\ MaxRestarts = 0
      /\ "late" \notin Faults /\ "ctx" \notin Faults
  BY DEF Inv, SequentialInv, CallsCurrent, TypeOK, Reliable
<1>1. ASSUME NEW t \in timers, Autocommit(t) PROVE SequentialInv'
  <2>1. UNCHANGED <<pc, follower, msg, ctxDone, height, nodeCache, db, reply, net>>
    BY <1>1 DEF Autocommit
  <2>2. OneActive'
    BY <2>1 DEF Inv, SequentialInv, OneActive
  <2> QED
    BY <2>1, <2>2, SameRest, ContinuePhases DEF SequentialInv
<1>2. ASSUME NEW r \in net, LoseRequest(r) PROVE SequentialInv'
  BY <1>2, FailedInv DEF LoseRequest
<1>3. ASSUME NEW p \in Puts, LoseReply(p) PROVE SequentialInv'
  <2>1. /\ UNCHANGED <<pc, follower, msg, ctxDone, height, nodeCache, db, net>>
        /\ pc[p] \in Waiting /\ reply[p]' = Failed
    BY <1>3 DEF LoseReply, Inv, TypeOK
  <2>2. OneActive'
    BY <2>1 DEF Inv, SequentialInv, OneActive
  <2>3. Failed.type = "failed" /\ Failed.index = 0 /\ Failed # NoReply
    BY DEF Failed, NoReply
  <2>4. height[0] \in Nat
    BY HeightTypes
  <2>5. Phases(p)'
    BY <2>1, <2>3, <2>4, AnswerPhases
  <2>6. \A q \in Puts : q # p => pc[q]' \notin Active
    BY <2>1 DEF Inv, SequentialInv, OneActive, Active
  <2> QED
    BY <2>1, <2>2, <2>5, <2>6, SameRest, IdlePhases DEF SequentialInv
<1>4. ASSUME NEW r \in net, Abandon(r) PROVE FALSE
  BY <1>0, <1>4 DEF Abandon
<1>5. ASSUME NEW p \in Puts, CtxEnds(p) PROVE FALSE
  BY <1>0, <1>5 DEF CtxEnds
<1>6. ASSUME StopCoordinator \/ RestartCoordinator \/ \E f \in Followers : RestartFollower(f) PROVE FALSE
  BY <1>0, <1>6 DEF StopCoordinator, RestartCoordinator, RestartFollower
<1>7. CASE Stop
  <2>1. UNCHANGED <<pc, follower, msg, ctxDone, height, nodeCache, db, reply, net>>
    BY <1>7 DEF Stop
  <2>2. OneActive'
    BY <2>1 DEF Inv, SequentialInv, OneActive
  <2> QED
    BY <2>1, <2>2, SameRest, ContinuePhases DEF SequentialInv
<1>8. CASE StartAgain
  <2>1. /\ UNCHANGED <<pc, follower, net, ctxDone>>
        /\ height' = [height EXCEPT ![0] = 0]
        /\ \A p \in Puts : pc[p] \notin Active
    BY <1>8 DEF StartAgain
  <2>2. net = {}
    BY <2>1, OneRequest
  <2>3. OneActive' /\ CallsCurrent' /\ HandlersRight'
    BY <2>1, <2>2 DEF Inv, SequentialInv, OneActive, CallsCurrent, HandlersRight
  <2>4. HeightsFall'
    <3>1. height \in [Nodes -> Nat] /\ 0 \in Nodes /\ 1 \in Followers
      BY ConstantsAssumption DEF Inv, TypeOK
    <3>2. /\ height[0]' = 0
          /\ \A f \in Followers : height[f]' = height[f] /\ height[f] \in Nat
      BY <2>1, <3>1
    <3> QED
      BY <3>1, <3>2 DEF Inv, SequentialInv, HeightsFall
  <2>5. \A p \in Puts : Phases(p)'
    BY <2>1, IdlePhases
  <2> QED
    BY <2>3, <2>4, <2>5 DEF SequentialInv
<1> QED
  BY <1>1, <1>2, <1>3, <1>4, <1>5, <1>6, <1>7, <1>8 DEF Environment

\* The inductive step.
LEMMA NextInv ==
  ASSUME Sequential, Reliable, Inv, [Next]_vars
  PROVE  Inv'
<1>1. TypeOK' /\ CallsMatch'
  BY NextTypeOK, NextCallsMatch DEF Inv
<1>2. CASE UNCHANGED vars \/ Terminated
  <2>1. UNCHANGED <<pc, follower, msg, ctxDone, height, nodeCache, db, reply, net>>
    BY <1>2 DEF Terminated, vars
  <2>2. OneActive'
    BY <2>1 DEF Inv, SequentialInv, OneActive
  <2> QED
    BY <1>1, <2>1, <2>2, SameRest, ContinuePhases DEF Inv, SequentialInv
<1>3. CASE Next /\ ~Terminated
  BY <1>1, <1>3, PutInv, CrashInv, HandleInv, EnvironmentInv DEF Next, Inv
<1> QED
  BY <1>2, <1>3

\* The invariant holds initially.
LEMMA InitInv == Init => Inv
<1> SUFFICES ASSUME Init PROVE Inv
  OBVIOUS
<1>1. TypeOK /\ CallsMatch
  BY InitTypeOK DEF Init, CallsMatch
<1>2. /\ \A p \in Puts : pc[p] = "idle" /\ follower[p] = 1
      /\ \A n \in Nodes : height[n] = 0
      /\ net = {} /\ ctxDone = {}
  BY DEF Init
<1>3. OneActive /\ CallsCurrent /\ HandlersRight
  BY <1>2 DEF OneActive, CallsCurrent, HandlersRight, Active, Waiting
<1>4. HeightsFall
  BY <1>2, ConstantsAssumption DEF HeightsFall
<1>5. \A p \in Puts : Phases(p)
  BY <1>2 DEF Phases, ProposePhase, PrecommitPhase, CommitPhase
<1> QED
  BY <1>1, <1>3, <1>4, <1>5 DEF Inv, SequentialInv

(***************************************************************************)
(* The theorems                                                            *)
(***************************************************************************)

\* The invariant of the sequential runs holds for any number of followers and
\* of Puts.
THEOREM SequentialCorrect ==
  Sequential /\ Reliable => (Spec => []SequentialInv)
<1> SUFFICES ASSUME Sequential, Reliable PROVE Spec => []SequentialInv
  OBVIOUS
<1>1. Inv /\ [Next]_vars => Inv'
  BY NextInv
<1>2. Inv => SequentialInv
  BY DEF Inv
<1> QED
  BY <1>1, <1>2, InitInv, PTL DEF Spec

\* A Put that has the commit acknowledgements of all followers, and is about to
\* return ACK, is in the database of every node.
THEOREM AcknowledgedIsStored ==
  Sequential /\ Reliable => (Spec => []AckStored)
<1> SUFFICES ASSUME Sequential, Reliable PROVE Spec => []AckStored
  OBVIOUS
<1>1. SequentialInv => AckStored
  BY DEF SequentialInv, Phases, CommitPhase, AckStored
<1> QED
  BY <1>1, SequentialCorrect, PTL

\* Which steps write to a database, and what.
LEMMA DBStep ==
  ASSUME Inv, Reliable, [Next]_vars
  PROVE  \/ db' = db
         \/ \E p \in Puts : pc[p] = "save" /\ db' = DBPut(0, p)
         \/ \E p \in Puts, f \in Followers :
              /\ db' = DBPut(f, p) /\ db[0][KeyOf[p]] = p
<1>1. ASSUME NEW p \in Puts, PersistStore(p)
      PROVE  pc[p] = "save" /\ db' = DBPut(0, p)
  BY <1>1 DEF PersistStore, Inv, SequentialInv, Phases, PrecommitPhase
<1>2. ASSUME NEW r \in net, CommitStore(r)
      PROVE  r.put \in Puts /\ r.to \in Followers /\ db' = DBPut(r.to, r.put)
             /\ db[0][KeyOf[r.put]] = r.put
  BY <1>2, CommitStoreEffect
<1>3. CASE \/ \E p \in Puts : \/ (PutBegin(p) \/ PutStep(p)) /\ ~PersistStore(p)
                             \/ PutRefused(p) \/ Panic(p)
           \/ \E r \in net : Handle(r) /\ ~CommitStore(r)
           \/ \E t \in timers : Autocommit(t)
           \/ Environment \/ Terminated \/ UNCHANGED vars
  BY <1>3 DEF PutBegin, PutStep, CallPropose, ProposeReturn, RaiseHeight,
     ProposeAcked, CallPrecommit, PrecommitReturn, PersistLookup, PersistMissing,
     PersistFails, CallCommit, CommitReturn, IncreaseHeight, Finish, PutRefused, Panic,
     Handle, ProposeReset, ProposeStore, ProposeAnswer, PrecommitHandle,
     CommitNote, CommitLookup, CommitMissing, CommitForget, CommitRefused, CommitStoreFails,
     Environment, LoseRequest, Abandon, Autocommit, LoseReply, CtxEnds,
     RestartFollower, StopCoordinator, RestartCoordinator, Stop, StartAgain, Terminated, vars
<1> QED
  BY <1>1, <1>2, <1>3 DEF Next

\* A follower's database never changes to anything but what the coordinator has
\* persisted.
THEOREM FollowersOnlyFollow ==
  Sequential /\ Reliable => (Spec => FollowersFollow)
<1> SUFFICES ASSUME Sequential, Reliable PROVE Spec => FollowersFollow
  OBVIOUS
<1>1. Inv /\ [Next]_vars => Inv'
  BY NextInv
<1>2. Inv /\ [Next]_vars =>
        [\A f \in Followers, k \in Keys :
           db'[f][k] # db[f][k] => db'[f][k] = db[Coordinator][k]]_vars
  <2> SUFFICES ASSUME Inv, [Next]_vars, NEW f \in Followers, NEW k \in Keys,
                      db'[f][k] # db[f][k]
               PROVE  db'[f][k] = db[Coordinator][k]
    OBVIOUS
  <2>0. f \in Nodes /\ 0 \in Nodes /\ f # 0 /\ Followers \subseteq Nodes
    BY ConstantsAssumption
  <2>1. CASE \E p \in Puts : pc[p] = "save" /\ db' = DBPut(0, p)
    BY <2>0, <2>1, DBPutStores DEF Inv
  <2>2. ASSUME NEW p \in Puts, NEW g \in Followers,
               db' = DBPut(g, p), db[0][KeyOf[p]] = p
        PROVE  db'[f][k] = db[Coordinator][k]
    <3>1. f = g
      BY <2>0, <2>2, DBPutStores DEF Inv
    <3>2. k = KeyOf[p]
      BY <2>0, <2>2, <3>1, DBPutStores DEF Inv
    <3> QED
      BY <2>0, <2>2, <3>1, <3>2, DBPutStores DEF Inv
  <2> QED
    BY <2>1, <2>2, DBStep
<1> QED
  BY <1>1, <1>2, InitInv, PTL DEF Spec, FollowersFollow

(***************************************************************************)
(* The caches                                                              *)
(***************************************************************************)

\* What a step does to the caches: the coordinator or a follower adds an entry
\* under the coordinator's height, drops one, or starts with an empty cache.
LEMMA CacheStep ==
  ASSUME Inv, Reliable, [Next]_vars
  PROVE  \/ nodeCache' = nodeCache
         \/ \E n \in Nodes, p \in Puts :
              nodeCache' = [nodeCache EXCEPT ![n] = CacheSet(nodeCache[n], height[0], p)]
         \/ \E n \in Nodes, i \in Nat :
              nodeCache' = [nodeCache EXCEPT ![n] = CacheDelete(nodeCache[n], i)]
         \/ nodeCache' = [nodeCache EXCEPT ![0] = EmptyCache]
<1>0. 0 \in Nodes /\ Followers \subseteq Nodes /\ restarts \in Nat /\ MaxRestarts = 0
  BY ConstantsAssumption DEF Inv, TypeOK, Reliable
<1>1. ASSUME NEW p \in Puts, ProposeAcked(p)
      PROVE  nodeCache' = [nodeCache EXCEPT ![0] = CacheSet(nodeCache[0], height[0], p)]
  BY <1>1 DEF ProposeAcked
<1>2. ASSUME NEW r \in net, ProposeStore(r)
      PROVE  \/ nodeCache' = nodeCache
             \/ nodeCache' = [nodeCache EXCEPT ![r.to] =
                                CacheSet(nodeCache[r.to], height[0], r.put)]
  BY <1>2, OneRequest DEF ProposeStore
<1>3. ASSUME NEW r \in net, CommitForget(r) \/ CommitRefused(r)
      PROVE  /\ r.index \in Nat
             /\ nodeCache' = [nodeCache EXCEPT ![r.to] =
                                CacheDelete(nodeCache[r.to], r.index)]
  BY <1>3, OneRequest, HeightTypes DEF CommitForget, CommitRefused
<1>4. CASE StartAgain
  BY <1>4 DEF StartAgain
<1>5. ~StopCoordinator /\ ~RestartCoordinator /\ \A f \in Followers : ~RestartFollower(f)
  BY <1>0 DEF StopCoordinator, RestartCoordinator, RestartFollower
<1>6. CASE \/ \E p \in Puts : \/ (PutBegin(p) \/ PutStep(p)) /\ ~ProposeAcked(p)
                             \/ PutRefused(p) \/ Panic(p)
           \/ \E r \in net : Handle(r) /\ ~ProposeStore(r) /\ ~CommitForget(r)
                             /\ ~CommitRefused(r)
           \/ \E t \in timers : Autocommit(t)
           \/ Environment /\ ~StartAgain
           \/ Terminated \/ UNCHANGED vars
  BY <1>5, <1>6 DEF PutBegin, PutStep, CallPropose, ProposeReturn, RaiseHeight,
     CallPrecommit, PrecommitReturn, PersistLookup, PersistMissing, PersistStore,
     PersistFails, CallCommit, CommitReturn, IncreaseHeight, Finish, PutRefused, Panic,
     Handle, ProposeReset, ProposeAnswer, PrecommitHandle,
     CommitNote, CommitLookup, CommitMissing, CommitStore, CommitStoreFails,
     Environment, LoseRequest, Abandon, Autocommit, LoseReply, CtxEnds, Stop,
     Terminated, vars
<1>7. \A r \in net : r.to \in Followers /\ r.put \in Puts
  BY OneRequest
<1> QED
  BY <1>0, <1>1, <1>2, <1>3, <1>4, <1>6, <1>7 DEF Next

\* The first follower's height never falls.
LEMMA FirstHeightStep ==
  ASSUME Inv, Reliable, [Next]_vars
  PROVE  height[1] \in Nat /\ height[1]' \in Nat /\ height[1] <= height[1]'
<1>0. /\ height \in [Nodes -> Nat] /\ 1 \in Nodes /\ 1 # 0 /\ restarts \in Nat
      /\ MaxRestarts = 0
  BY ConstantsAssumption DEF Inv, TypeOK, Reliable
<1>1. ~StopCoordinator /\ ~RestartCoordinator /\ \A f \in Followers : ~RestartFollower(f)
  BY <1>0 DEF StopCoordinator, RestartCoordinator, RestartFollower
<1>2. \/ height' = height
      \/ \E i : height' = [height EXCEPT ![0] = i]
      \/ \E f \in Followers : height' = [height EXCEPT ![f] = height[f] + 1]
  <2>1. ASSUME NEW r \in net, CommitStore(r)
        PROVE  r.to \in Followers /\ height' = [height EXCEPT ![r.to] = height[r.to] + 1]
    BY <2>1, OneRequest DEF CommitStore
  <2>2. CASE \/ \E p \in Puts : RaiseHeight(p) \/ IncreaseHeight(p)
             \/ StartAgain
    BY <2>2 DEF RaiseHeight, IncreaseHeight, StartAgain
  <2>3. CASE \/ \E p \in Puts : \/ PutBegin(p)
                                \/ PutRefused(p) \/ Panic(p)
                                \/ PutStep(p) /\ ~RaiseHeight(p) /\ ~IncreaseHeight(p)
             \/ \E r \in net : Handle(r) /\ ~CommitStore(r)
             \/ \E t \in timers : Autocommit(t)
             \/ Environment /\ ~StartAgain
             \/ Terminated \/ UNCHANGED vars
    BY <1>1, <2>3 DEF PutBegin, PutStep, CallPropose, ProposeReturn, ProposeAcked,
       CallPrecommit, PrecommitReturn, PersistLookup, PersistMissing, PersistStore,
       PersistFails, CallCommit, CommitReturn, Finish, PutRefused, Panic,
       Handle, ProposeReset, ProposeStore, ProposeAnswer, PrecommitHandle, CommitNote,
       CommitLookup, CommitMissing, CommitForget, CommitRefused, CommitStoreFails,
       Environment, LoseRequest, Abandon, Autocommit, LoseReply, CtxEnds, Stop,
       Terminated, vars
  <2> QED
    BY <2>1, <2>2, <2>3 DEF Next
<1>3. ASSUME NEW f \in Followers, height' = [height EXCEPT ![f] = height[f] + 1]
      PROVE  height[1]' = height[1] \/ height[1]' = height[1] + 1
  BY <1>0, <1>3
<1>4. height[1]' = height[1] \/ height[1]' = height[1] + 1
  BY <1>0, <1>2, <1>3
<1> QED
  BY <1>0, <1>4

\* No node ever caches an entry for a round to come: on every node there is at
\* most one entry for each round the first follower has finished, and one more.
THEOREM CachesBounded ==
  Sequential /\ Reliable => (Spec => []CacheBound)
<1> SUFFICES ASSUME Sequential, Reliable PROVE Spec => []CacheBound
  OBVIOUS
<1>1. Init => CacheBound
  BY DEF Init, CacheBound, EmptyCache
<1>2. Inv /\ [Next]_vars => Inv'
  BY NextInv
<1>3. Inv /\ CacheBound /\ [Next]_vars => CacheBound'
  <2> SUFFICES ASSUME Inv, CacheBound, [Next]_vars, NEW n \in Nodes,
                      NEW i \in DOMAIN nodeCache[n]'
               PROVE  i \in 0..height[1]'
    BY DEF CacheBound
  <2>1. /\ height[1] \in Nat /\ height[1]' \in Nat /\ height[1] <= height[1]'
        /\ height[0] \in Nat /\ height[0] <= height[1] /\ DOMAIN nodeCache = Nodes
        /\ 0 \in Nodes
    BY FirstHeightStep, HeightTypes, ConstantsAssumption
       DEF Inv, SequentialInv, HeightsFall, TypeOK
  <2>2. i \in DOMAIN nodeCache[n] \/ i = height[0]
    <3>1. CASE nodeCache' = nodeCache
      BY <3>1
    <3>2. ASSUME NEW m \in Nodes, NEW p \in Puts,
                 nodeCache' = [nodeCache EXCEPT ![m] = CacheSet(nodeCache[m], height[0], p)]
          PROVE  i \in DOMAIN nodeCache[n] \/ i = height[0]
      BY <2>1, <3>2 DEF CacheSet
    <3>3. ASSUME NEW m \in Nodes, NEW j \in Nat,
                 nodeCache' = [nodeCache EXCEPT ![m] = CacheDelete(nodeCache[m], j)]
          PROVE  i \in DOMAIN nodeCache[n]
      BY <2>1, <3>3 DEF CacheDelete
    <3>4. ASSUME nodeCache' = [nodeCache EXCEPT ![0] = EmptyCache]
          PROVE  i \in DOMAIN nodeCache[n]
      BY <2>1, <3>4 DEF EmptyCache
    <3> QED
      BY <3>1, <3>2, <3>3, <3>4, CacheStep
  <2>3. DOMAIN nodeCache[n] \subseteq 0..height[1]
    BY DEF CacheBound
  <2> QED
    BY <2>1, <2>2, <2>3
<1> QED
  BY <1>1, <1>2, <1>3, InitInv, PTL DEF Spec

(***************************************************************************)
(* The refinement                                                          *)
(***************************************************************************)

\* The phase of a Put, by label and result.
LEMMA PhaseValues ==
  ASSUME NEW p \in Puts
  PROVE  /\ pc[p] = "done" /\ result[p] = "ACK" => PhaseOf(p) = "acked"
         /\ pc[p] = "done" /\ result[p] # "ACK" => PhaseOf(p) = "failed"
         /\ pc[p] \in {"commit", "committing", "finish", "check"} => PhaseOf(p) = "decided"
         /\ pc[p] \notin {"commit", "committing", "finish", "check", "done"} =>
              PhaseOf(p) = "open"
BY DEF PhaseOf

\* A step that touches the label and the result of one Put changes its phase only.
LEMMA PhaseChange ==
  ASSUME NEW p \in Puts,
         \A q \in Puts : q # p => pc[q]' = pc[q] /\ result[q]' = result[q]
  PROVE  StorePhase' = [StorePhase EXCEPT ![p] = PhaseOf(p)']
<1>1. \A q \in Puts : q # p => PhaseOf(q)' = PhaseOf(q)
  BY DEF PhaseOf
<1> QED
  BY <1>1 DEF StorePhase

\* The phases and the databases do not move.
LEMMA SamePhases ==
  ASSUME UNCHANGED <<pc, result, db>>
  PROVE  UNCHANGED <<db, StorePhase>>
<1>1. \A q \in Puts : PhaseOf(q)' = PhaseOf(q)
  BY DEF PhaseOf
<1> QED
  BY <1>1 DEF StorePhase

\* A Put that ends without an acknowledgement is a failure of the store.
LEMMA FailStep ==
  ASSUME TypeOK, NoEarlyResult, NEW p \in Puts, pc[p] # "done",
         NEW x \in {"NACK", "error"}, Return(p, x), UNCHANGED db
  PROVE  Store!Fail(p)
<1>1. /\ pc[p]' = "done" /\ result[p]' = x
      /\ \A q \in Puts : q # p => pc[q]' = pc[q] /\ result[q]' = result[q]
  BY DEF Return, Goto, TypeOK
<1>2. PhaseOf(p)' = "failed"
  BY <1>1, PhaseValues DEF PhaseOf
<1>3. StorePhase' = [StorePhase EXCEPT ![p] = "failed"]
  BY <1>1, <1>2, PhaseChange
<1>4. StorePhase[p] \in {"open", "decided"}
  BY PhaseValues DEF NoEarlyResult, StorePhase
<1> QED
  BY <1>3, <1>4 DEF Store!Fail

\* A step of Put that decides nothing and does not end it.
LEMMA QuietStep ==
  ASSUME TypeOK, NoEarlyResult, NEW p \in Puts, NEW label,
         Goto(p, label), UNCHANGED <<db, result>>, pc[p] # "done", label # "done",
         pc[p] \in {"commit", "committing", "finish", "check"}
           <=> label \in {"commit", "committing", "finish", "check"}
  PROVE  UNCHANGED <<db, StorePhase>>
<1>1. pc[p]' = label /\ \A q \in Puts : q # p => pc[q]' = pc[q] /\ result[q]' = result[q]
  BY DEF Goto, TypeOK
<1>2. PhaseOf(p)' = PhaseOf(p)
  BY <1>1 DEF PhaseOf, NoEarlyResult
<1>3. StorePhase' = [StorePhase EXCEPT ![p] = PhaseOf(p)]
  BY <1>1, <1>2, PhaseChange
<1> QED
  BY <1>3 DEF StorePhase

\* What every step of Put is to the abstract store.
LEMMA PutRefines ==
  ASSUME Inv, NoEarlyResult, NEW p \in Puts, PutBegin(p) \/ PutStep(p) \/ PutRefused(p)
  PROVE  Store!Next \/ UNCHANGED <<db, StorePhase>>
<1>0. TypeOK /\ 0 \in Nodes
  BY ConstantsAssumption DEF Inv
<1>1. CASE PersistStore(p)
  <2>1. /\ pc[p] = "save" /\ msg[p] = p /\ db' = DBPut(0, msg[p]) /\ result' = result
        /\ Goto(p, "commit")
    BY <1>1 DEF PersistStore, Inv, SequentialInv, Phases, PrecommitPhase
  <2>2. pc[p]' = "commit" /\ \A q \in Puts : q # p => pc[q]' = pc[q]
    BY <1>0, <2>1 DEF Goto, TypeOK
  <2>3. result[p] = "none" /\ \A q \in Puts : pc[q] # "done" => result[q] = "none"
    BY <2>1 DEF NoEarlyResult
  <2>4. PhaseOf(p) = "open" /\ PhaseOf(p)' = "decided"
    BY <2>1, <2>2, <2>3, PhaseValues DEF PhaseOf
  <2>5. \A q \in Puts : PhaseOf(q) # "decided"
    <3> SUFFICES ASSUME NEW q \in Puts, q # p PROVE PhaseOf(q) # "decided"
      BY <2>4
    <3>1. pc[q] \notin Active
      BY <2>1 DEF Inv, SequentialInv, OneActive, Active
    <3> QED
      BY <3>1, PhaseValues DEF Active, Waiting
  <2>6. StorePhase' = [StorePhase EXCEPT ![p] = "decided"]
    BY <2>1, <2>2, <2>4, PhaseChange
  <2>7. Store!Decide(p)
    BY <2>1, <2>4, <2>5, <2>6 DEF Store!Decide, DBPut, StorePhase
  <2> QED
    BY <2>7 DEF Store!Next
<1>2. CASE Finish(p)
  <2>1. db' = db /\ pc[p] = "check" /\ Return(p, "ACK")
    BY <1>2 DEF Finish
  <2>2. /\ pc[p]' = "done" /\ result[p]' = "ACK"
        /\ \A q \in Puts : q # p => pc[q]' = pc[q] /\ result[q]' = result[q]
    BY <1>0, <2>1 DEF Return, Goto, TypeOK
  <2>3. \A n \in Nodes : db[n][KeyOf[p]] = p
    BY <2>1 DEF Inv, SequentialInv, Phases, CommitPhase
  <2>4. PhaseOf(p) = "decided" /\ PhaseOf(p)' = "acked"
    BY <2>1, <2>2, PhaseValues DEF NoEarlyResult, PhaseOf
  <2>5. StorePhase' = [StorePhase EXCEPT ![p] = "acked"]
    BY <2>2, <2>4, PhaseChange
  <2>6. Store!Acknowledge(p)
    BY <2>1, <2>3, <2>4, <2>5 DEF Store!Acknowledge, StorePhase
  <2> QED
    BY <2>6 DEF Store!Next
<1>3. ASSUME NEW x \in {"NACK", "error"}, Return(p, x), UNCHANGED db, pc[p] # "done"
      PROVE  Store!Next
  BY <1>0, <1>3, FailStep DEF Store!Next
<1>4. CASE PutRefused(p) \/ PersistMissing(p) \/ PersistFails(p)
  BY <1>3, <1>4 DEF PutRefused, PersistMissing, PersistFails
<1>5. ASSUME NEW label, Goto(p, label), UNCHANGED <<db, result>>, pc[p] # "done",
             label # "done", pc[p] \in {"commit", "committing", "finish", "check"}
               <=> label \in {"commit", "committing", "finish", "check"}
      PROVE  UNCHANGED <<db, StorePhase>>
  BY <1>0, <1>5, QuietStep
<1>6. CASE PrecommitReturn(p)
  <2>1. \/ \E x \in {"NACK", "error"} : Return(p, x)
        \/ \E label \in {"precommit", "persist"} : Goto(p, label) /\ result' = result
    BY <1>6 DEF PrecommitReturn, NextFollower
  <2> QED
    BY <1>3, <1>5, <1>6, <2>1 DEF PrecommitReturn
<1>7. CASE CommitReturn(p)
  <2>1. \/ \E x \in {"NACK", "error"} : Return(p, x)
        \/ \E label \in {"commit", "finish"} : Goto(p, label) /\ result' = result
    BY <1>7 DEF CommitReturn, NextFollower
  <2> QED
    BY <1>3, <1>5, <1>7, <2>1 DEF CommitReturn
<1>8. CASE \/ PutBegin(p) \/ CallPropose(p) \/ CallPrecommit(p) \/ CallCommit(p)
           \/ PersistLookup(p) \/ IncreaseHeight(p)
  BY <1>5, <1>8 DEF PutBegin, CallPropose, CallPrecommit, CallCommit, PersistLookup,
     IncreaseHeight
<1>9. CASE ProposeReturn(p) \/ RaiseHeight(p) \/ ProposeAcked(p)
  BY <1>5, <1>9 DEF ProposeReturn, RaiseHeight, ProposeAcked, ProposeAgain, NextFollower
<1> QED
  BY <1>1, <1>2, <1>4, <1>6, <1>7, <1>8, <1>9 DEF PutStep

\* The detailed protocol implements the abstract store: persisting is the
\* decision, a follower's commit is learning it, the acknowledgement comes when
\* every copy agrees, and a Put that ends in any other way has failed for good.
THEOREM ImplementsReplicatedStore ==
  Sequential /\ Reliable => (Spec => ImplementsStore)
<1> SUFFICES ASSUME Sequential, Reliable PROVE Spec => ImplementsStore
  OBVIOUS
<1>1. Init => Store!Init
  <2> SUFFICES ASSUME Init PROVE Store!Init
    OBVIOUS
  <2>1. \A q \in Puts : PhaseOf(q) = "open"
    BY PhaseValues DEF Init
  <2> QED
    BY <2>1 DEF Init, Store!Init, StorePhase
<1>2. Inv /\ [Next]_vars => Inv'
  BY NextInv
<1>3. Inv /\ NoEarlyResult /\ [Next]_vars => [Store!Next]_<<db, StorePhase>>
  <2> SUFFICES ASSUME Inv, NoEarlyResult, [Next]_vars
               PROVE  Store!Next \/ UNCHANGED <<db, StorePhase>>
    OBVIOUS
  <2>0. 0 \in Nodes /\ Followers \subseteq Nodes /\ TypeOK
    BY ConstantsAssumption DEF Inv
  <2>1. ASSUME NEW p \in Puts, PutBegin(p) \/ PutStep(p) \/ PutRefused(p)
        PROVE  Store!Next \/ UNCHANGED <<db, StorePhase>>
    BY <2>1, PutRefines
  <2>2. ASSUME NEW r \in net, CommitStore(r) PROVE Store!Learn(r.to, r.put)
    <3>1. /\ r.put \in Puts /\ pc[r.put] = "committing" /\ db' = DBPut(r.to, r.put)
          /\ UNCHANGED <<pc, result>>
      BY <2>2, CommitStoreEffect DEF CommitStore
    <3>2. PhaseOf(r.put) = "decided"
      BY <3>1, PhaseValues DEF NoEarlyResult
    <3>3. \A q \in Puts : PhaseOf(q)' = PhaseOf(q)
      BY <3>1 DEF PhaseOf
    <3> QED
      BY <3>1, <3>2, <3>3 DEF Store!Learn, DBPut, StorePhase
  <2>3. ASSUME NEW p \in Puts, Panic(p) PROVE Store!Fail(p)
    <3>1. /\ pc[p] = "check" /\ db' = db
          /\ pc' = [q \in Puts |-> IF pc[q] \in Active THEN "done" ELSE pc[q]]
          /\ result' = [q \in Puts |-> IF pc[q] \in Active THEN "error" ELSE result[q]]
      BY <2>3 DEF Panic, Die
    <3>2. \A q \in Puts : q # p => pc[q] \notin Active
      BY <3>1 DEF Inv, SequentialInv, OneActive, Active
    <3>3. /\ pc[p]' = "done" /\ result[p]' = "error"
          /\ \A q \in Puts : q # p => pc[q]' = pc[q] /\ result[q]' = result[q]
      BY <3>1, <3>2 DEF Active
    <3>4. PhaseOf(p) = "decided" /\ PhaseOf(p)' = "failed"
      BY <3>1, <3>3, PhaseValues DEF NoEarlyResult, PhaseOf
    <3>5. StorePhase' = [StorePhase EXCEPT ![p] = "failed"]
      BY <3>3, <3>4, PhaseChange
    <3> QED
      BY <3>1, <3>4, <3>5 DEF Store!Fail, StorePhase
  <2>4. CASE \/ \E r \in net : Handle(r) /\ ~CommitStore(r)
             \/ \E t \in timers : Autocommit(t)
             \/ Environment \/ Terminated \/ UNCHANGED vars
    <3>1. ~StopCoordinator /\ ~RestartCoordinator
      BY <2>0 DEF StopCoordinator, RestartCoordinator, Reliable, TypeOK
    <3>2. UNCHANGED <<pc, result, db>>
      BY <2>4, <3>1 DEF Handle, ProposeReset, ProposeStore, ProposeAnswer,
         PrecommitHandle, CommitNote, CommitLookup, CommitMissing,
         CommitForget, CommitRefused, CommitStoreFails, Environment,
         LoseRequest, Abandon, Autocommit, LoseReply, CtxEnds,
         RestartFollower, Stop, StartAgain, Terminated, vars
    <3> QED
      BY <3>2, SamePhases
  <2>5. \A r \in net : r.put \in Puts /\ r.to \in Nodes
    BY <2>0, OneRequest
  <2> QED
    BY <2>1, <2>2, <2>3, <2>4, <2>5 DEF Next, Store!Next
<1> QED
  BY <1>1, <1>2, <1>3, InitInv, ResultOnlyAtTheEnd, PTL
     DEF Spec, ImplementsStore, Store!Spec

=============================================================================
