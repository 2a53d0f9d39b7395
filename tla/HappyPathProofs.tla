--------------------------- MODULE HappyPathProofs ---------------------------
(***************************************************************************)
(* Nothing goes wrong and clients send one Put at a time: every Put is     *)
(* acknowledged, all nodes agree between two Puts, and the commit of a Put *)
(* cancels the timers of its precommit.                                    *)
(***************************************************************************)
EXTENDS StoreProofs, ConcurrentProofs

USE DEF Coordinator, Followers, Nodes, TWO_PHASE, THREE_PHASE, coordVars,
        followerVars, envVars

\* The environment of TestHappyPath: no faults, the default hooks, and a monitor
\* that knows the number of followers or does not crash.
NothingGoesWrong ==
  /\ Sequential
  /\ Faults = {} /\ MaxRestarts = 0
  /\ ProposeVerdicts = {TRUE} /\ CommitVerdicts = {TRUE}
  /\ N = 2 \/ ~Crash

\* The Puts that the coordinator's height counts: those that were acknowledged,
\* and the one that is about to be.
Counted == {p \in Puts : result[p] = "ACK" \/ pc[p] = "check"}

\* Follower f has committed the Put p that is running, or has still to do so.
HasIt(f, p) ==
  \/ pc[p] = "finish"
  \/ pc[p] \in {"commit", "committing"} /\ Committed(f, p)
LacksIt(f, p) == pc[p] \in {"commit", "committing"} /\ ~Committed(f, p)

\* Every answer is an acknowledgement, and the coordinator counts them.
AllAcked ==
  /\ process = "up"
  /\ \A p \in Puts : pc[p] = "done" => result[p] = "ACK"
  /\ IsFiniteSet(Counted) /\ Cardinality(Counted) = height[Coordinator]
  /\ \A p \in Puts : /\ pc[p] # "raise"
                     /\ pc[p] \in Waiting => reply[p] = NoReply \/ reply[p].type = "ACK"
  /\ \A r \in net : /\ r.stage = "stored" => r.vote = "ACK"
                    /\ r.stage # "missing"

\* A follower is one ahead of the coordinator from its commit until all have
\* committed, and level with it at any other time; its database differs at most in
\* the key that it has still to commit.
InStep ==
  \A f \in Followers :
    /\ (\E p \in Puts : HasIt(f, p)) => height[f] = height[Coordinator] + 1
    /\ (\A p \in Puts : ~HasIt(f, p)) => height[f] = height[Coordinator]
    /\ \A k \in Keys :
         \/ db[f][k] = db[Coordinator][k]
         \/ \E p \in Puts : LacksIt(f, p) /\ k = KeyOf[p]

Happy == AllAcked /\ InStep

\* Labels at which the timers of a Put may be armed and have to be.
Armed == {"precommit", "precommitting", "persist", "save", "commit", "committing",
          "finish"}

\* A timer belongs to a Put that all followers have committed and is cancelled, or
\* to the running one, under the current height; and a follower that has committed, or is about
\* to, has noted the current height.
TimersInStep ==
  /\ timers # {} => FollowerCommitType = THREE_PHASE
  /\ \A t \in timers :
       \/ /\ pc[t.put] \in {"check", "done"} /\ t.index < height[Coordinator]
          /\ t.index \in cancelCommitOnHeight[t.to]
       \/ pc[t.put] \in Armed /\ t.index = height[Coordinator]
  /\ FollowerCommitType = THREE_PHASE =>
       /\ \A f \in Followers : height[f] # height[Coordinator] =>
            height[Coordinator] \in cancelCommitOnHeight[f]
       /\ \A r \in net : r.kind = "commit" /\ r.stage # "sent" =>
            height[Coordinator] \in cancelCommitOnHeight[r.to]

(***************************************************************************)
(* The steps that are left                                                 *)
(***************************************************************************)

\* The steps of Put that can happen when nothing goes wrong.
HappyPut(p) ==
  \/ PutBegin(p)
  \/ CallPropose(p)   \/ ProposeReturn(p)   \/ ProposeAcked(p)
  \/ CallPrecommit(p) \/ PrecommitReturn(p) \/ PersistLookup(p)
  \/ PersistStore(p)  \/ CallCommit(p)      \/ CommitReturn(p)
  \/ IncreaseHeight(p) \/ Finish(p)

\* The steps of the handlers that can.
HappyHandle(r) ==
  \/ ProposeReset(r)  \/ ProposeStore(r)    \/ ProposeAnswer(r)
  \/ PrecommitHandle(r)
  \/ CommitNote(r)    \/ CommitLookup(r)    \/ CommitStore(r)

\* A commit finds the entry: the follower has voted for it.
LEMMA CommitFinds ==
  ASSUME Inv, NEW r \in net, r.kind = "commit"
  PROVE  CacheHas(nodeCache[r.to], r.index)
<1>1. /\ r.put \in Puts /\ r.to \in Followers /\ r.to = follower[r.put]
      /\ pc[r.put] = "committing" /\ reply[r.put] = NoReply /\ r.index = height[0]
  BY OneRequest, WaitLabels
<1>2. Pending(r.to, r.put) /\ CommitPhase(r.put)
  BY <1>1 DEF Pending, Inv, SequentialInv, Phases
<1> QED
  BY <1>1, <1>2 DEF CommitPhase, Voted, Prepared

\* Nothing else can happen.
LEMMA HappyActions ==
  ASSUME NothingGoesWrong, Inv, AllAcked, MonitorSilent', [Next]_vars
  PROVE  \/ \E p \in Puts : HappyPut(p)
         \/ \E r \in net : HappyHandle(r)
         \/ \E t \in timers : Autocommit(t)
         \/ UNCHANGED vars
<1>1. ASSUME NEW p \in Puts, PutRefused(p) \/ Panic(p) \/ LoseReply(p) \/ CtxEnds(p)
      PROVE  FALSE
  BY <1>1 DEF NothingGoesWrong, AllAcked, PutRefused, Panic, MonitorSilent, LoseReply,
     CtxEnds
<1>2. ASSUME NEW p \in Puts, RaiseHeight(p) \/ PersistMissing(p) \/ PersistFails(p)
      PROVE  FALSE
  <2>1. pc[p] = "persist" => CacheHas(nodeCache[0], height[0])
    BY DEF Inv, SequentialInv, Phases, PrecommitPhase, Prepared
  <2> QED
    BY <1>2, <2>1 DEF NothingGoesWrong, AllAcked, RaiseHeight, PersistMissing, PersistFails
<1>3. ASSUME NEW r \in net, LoseRequest(r) \/ Abandon(r)
      PROVE  FALSE
  <2>1. ctxDone = {}
    BY DEF Inv, SequentialInv, CallsCurrent
  <2> QED
    BY <1>3, <2>1 DEF NothingGoesWrong, LoseRequest, Abandon
<1>4. ASSUME NEW r \in net,
             CommitMissing(r) \/ CommitForget(r) \/ CommitRefused(r) \/ CommitStoreFails(r)
      PROVE  FALSE
  <2>1. r.kind = "commit" => CacheHas(nodeCache[r.to], r.index)
    BY CommitFinds
  <2>2. r.stage # "missing"
    BY DEF AllAcked
  <2> QED
    BY <1>4, <2>1, <2>2 DEF NothingGoesWrong, CommitMissing, CommitForget, CommitRefused,
       CommitStoreFails
<1>5. ~StopCoordinator /\ ~RestartCoordinator /\ \A f \in Followers : ~RestartFollower(f)
  <2>1. restarts \in Nat /\ MaxRestarts = 0
    BY DEF Inv, TypeOK, NothingGoesWrong
  <2> QED
    BY <2>1 DEF StopCoordinator, RestartCoordinator, RestartFollower
<1>6. ~Stop /\ ~StartAgain
  BY DEF Stop, StartAgain, NothingGoesWrong, AllAcked
<1>7. Terminated => UNCHANGED vars
  BY DEF Terminated
<1>8. ASSUME NEW p \in Puts, PutStep(p) PROVE HappyPut(p)
  BY <1>2, <1>8 DEF PutStep, HappyPut
<1>9. ASSUME NEW r \in net, Handle(r) PROVE HappyHandle(r)
  BY <1>4, <1>9 DEF Handle, HappyHandle
<1>10. ~Environment
  BY <1>1, <1>3, <1>5, <1>6 DEF Environment
<1>11. ASSUME NEW p \in Puts, PutBegin(p) PROVE HappyPut(p)
  BY <1>11 DEF HappyPut
<1> QED
  BY <1>1, <1>7, <1>8, <1>9, <1>10, <1>11 DEF Next

(***************************************************************************)
(* What a step may keep                                                    *)
(***************************************************************************)

\* No Put but the one that is running has commits to do, or to its name.
LEMMA OnlyTheRunning ==
  ASSUME NEW f \in Followers, NEW q \in Puts
  PROVE  /\ pc[q] \notin {"commit", "committing", "finish"} =>
              ~HasIt(f, q) /\ ~LacksIt(f, q)
         /\ pc[q]' \notin {"commit", "committing", "finish"} =>
              ~HasIt(f, q)' /\ ~LacksIt(f, q)'
         /\ pc[q] \notin Active => ~HasIt(f, q) /\ ~LacksIt(f, q)
         /\ pc[q]' \notin Active => ~HasIt(f, q)' /\ ~LacksIt(f, q)'
BY DEF HasIt, LacksIt, Active, Waiting

\* A step that moves no height and no database keeps the followers in step if it
\* moves no commit either.
LEMMA StillInStep ==
  ASSUME InStep, UNCHANGED <<height, db>>,
         \A f \in Followers, q \in Puts : /\ HasIt(f, q)' <=> HasIt(f, q)
                                          /\ LacksIt(f, q)' <=> LacksIt(f, q)
  PROVE  InStep'
BY DEF InStep

\* A step that ends no Put and gets no answer but an acknowledgement.
LEMMA StillAcked ==
  ASSUME AllAcked, UNCHANGED <<result, process>>, height[0]' = height[0],
         \A q \in Puts : /\ pc[q]' = "done" => pc[q] = "done"
                         /\ pc[q]' = "check" <=> pc[q] = "check"
                         /\ pc[q]' # "raise"
                         /\ pc[q]' \in Waiting =>
                              reply[q]' = NoReply \/ reply[q]'.type = "ACK",
         \A r \in net' : /\ r.stage = "stored" => r.vote = "ACK"
                         /\ r.stage # "missing"
  PROVE  AllAcked'
<1>1. Counted' = Counted
  BY DEF Counted
<1> QED
  BY <1>1 DEF AllAcked

\* The Puts that a step of Put p does not belong to.
LEMMA OthersOut ==
  ASSUME Inv, Sequential, NEW p \in Puts, HappyPut(p)
  PROVE  \A q \in Puts \ {p} :
           /\ pc[q]' = pc[q] /\ follower[q]' = follower[q]
           /\ result[q]' = result[q] /\ reply[q]' = reply[q]
           /\ pc[q] \notin Active
           /\ \A f \in Followers : ~HasIt(f, q) /\ ~LacksIt(f, q)
                                   /\ ~HasIt(f, q)' /\ ~LacksIt(f, q)'
<1>1. PutBegin(p) \/ PutStep(p)
  BY DEF HappyPut, PutStep
<1>2. \A q \in Puts \ {p} :
        /\ pc'[q] = pc[q] /\ follower'[q] = follower[q]
        /\ result'[q] = result[q] /\ reply'[q] = reply[q]
  BY <1>1, OthersUntouched DEF Inv
<1>3. \A q \in Puts : q # p => pc[q]' \notin Active
  BY <1>1, PutOthers DEF Inv, SequentialInv
<1> QED
  BY <1>2, <1>3, OnlyTheRunning

(***************************************************************************)
(* The steps of Put                                                        *)
(***************************************************************************)

\* Up to the decision, a Put changes no database, no height and no commit.
LEMMA BeforeDecision ==
  ASSUME Inv, Sequential, Happy, NEW p \in Puts, HappyPut(p),
         pc[p] \in {"idle", "propose", "voted", "precommit", "persist"}
                   \cup {"proposing", "precommitting"},
         pc[p]' \in {"propose", "voted", "precommit", "persist", "save"}
                   \cup {"proposing", "precommitting"},
         UNCHANGED <<height, db, result, process>>,
         pc[p]' \in Waiting => reply[p]' = NoReply,
         \A r \in net' : r \in net \/ r.stage = "sent"
  PROVE  Happy'
<1>1. \A f \in Followers, q \in Puts : /\ HasIt(f, q)' <=> HasIt(f, q)
                                       /\ LacksIt(f, q)' <=> LacksIt(f, q)
  <2>1. \A f \in Followers : /\ ~HasIt(f, p) /\ ~LacksIt(f, p)
                             /\ ~HasIt(f, p)' /\ ~LacksIt(f, p)'
    BY OnlyTheRunning
  <2> QED
    BY <2>1, OthersOut
<1>2. InStep'
  BY <1>1, StillInStep DEF Happy
<1>3. ASSUME NEW q \in Puts
      PROVE  /\ pc[q]' = "done" => pc[q] = "done"
             /\ pc[q]' = "check" <=> pc[q] = "check"
             /\ pc[q]' # "raise"
             /\ pc[q]' \in Waiting =>
                              reply[q]' = NoReply \/ reply[q]'.type = "ACK"
  BY OthersOut DEF Happy, AllAcked
<1>4. \A r \in net' : /\ r.stage = "stored" => r.vote = "ACK"
                      /\ r.stage # "missing"
  BY DEF Happy, AllAcked
<1>5. AllAcked'
  BY <1>3, <1>4, StillAcked DEF Happy
<1> QED
  BY <1>2, <1>5 DEF Happy

\* A call: one new request, which nobody has seen, and no answer yet.
LEMMA HappyCall ==
  ASSUME Inv, NEW p \in Puts, NEW kind \in {"propose", "precommit", "commit"},
         Call(p, kind)
  PROVE  /\ reply[p]' = NoReply
         /\ \A r \in net' : r \in net \/ r.stage = "sent"
<1>1. ctxDone = {}
  BY DEF Inv, SequentialInv, CallsCurrent
<1> QED
  BY <1>1 DEF Call, Inv, TypeOK, NoReply

\* The steps before the decision.
LEMMA HappyEarly ==
  ASSUME Inv, NothingGoesWrong, Happy, NEW p \in Puts, HappyPut(p),
         \/ PutBegin(p) \/ CallPropose(p) \/ ProposeReturn(p) \/ ProposeAcked(p)
         \/ CallPrecommit(p) \/ PrecommitReturn(p) \/ PersistLookup(p)
  PROVE  Happy'
<1>0. Sequential /\ pc \in [Puts -> Active \cup {"idle", "done"}]
  BY DEF NothingGoesWrong, Inv, TypeOK
<1>1. CASE PutBegin(p)
  <2>1. /\ pc[p] = "idle" /\ pc[p]' = "propose" /\ net' = net
        /\ UNCHANGED <<height, db, result, process>>
    BY <1>0, <1>1 DEF PutBegin, Goto
  <2> QED
    BY <1>0, <2>1, BeforeDecision DEF Waiting
<1>2. CASE CallPropose(p)
  <2>1. /\ pc[p] = "propose" /\ pc[p]' = "proposing" /\ Call(p, "propose")
        /\ UNCHANGED <<height, db, result, process>>
    BY <1>0, <1>2 DEF CallPropose, Goto
  <2> QED
    BY <1>0, <2>1, HappyCall, BeforeDecision
<1>3. CASE CallPrecommit(p)
  <2>1. /\ pc[p] = "precommit" /\ pc[p]' = "precommitting" /\ Call(p, "precommit")
        /\ UNCHANGED <<height, db, result, process>>
    BY <1>0, <1>3 DEF CallPrecommit, Goto
  <2> QED
    BY <1>0, <2>1, HappyCall, BeforeDecision
<1>4. CASE ProposeReturn(p)
  <2>1. /\ pc[p] = "proposing" /\ net' = net /\ reply[p] # NoReply
        /\ UNCHANGED <<height, db, result, process>>
        /\ pc[p]' = IF reply[p].index > height[0] THEN "raise" ELSE ProposeAgain(p)
    BY <1>0, <1>4 DEF ProposeReturn, Goto
  <2>2. reply[p].type = "ACK" /\ ProposePhase(p) /\ height[0] \in Nat
    BY <2>1, HeightTypes DEF Happy, AllAcked, Waiting, Inv, SequentialInv, Phases
  <2>3. reply[p].index = height[0]
    BY <2>1, <2>2 DEF ProposePhase
  <2>4. ~(reply[p].index > height[0])
    BY <2>2, <2>3
  <2>5. pc[p]' \in {"voted", "propose"}
    BY <2>1, <2>4 DEF ProposeAgain
  <2> QED
    BY <1>0, <2>1, <2>5, BeforeDecision DEF Waiting
<1>5. CASE ProposeAcked(p)
  <2>1. /\ pc[p] = "voted" /\ pc[p]' \in {"propose", "precommit"} /\ net' = net
        /\ UNCHANGED <<height, db, result, process>>
    BY <1>0, <1>5 DEF ProposeAcked, NextFollower, Goto
  <2> QED
    BY <1>0, <2>1, BeforeDecision DEF Waiting
<1>6. CASE PrecommitReturn(p)
  <2>1. /\ pc[p] = "precommitting" /\ net' = net /\ reply[p] # NoReply
        /\ UNCHANGED <<height, db, process>>
    BY <1>6 DEF PrecommitReturn
  <2>2. reply[p].type = "ACK"
    BY <2>1 DEF Happy, AllAcked, Waiting
  <2>3. result' = result /\ pc[p]' \in {"precommit", "persist"}
    BY <1>0, <1>6, <2>2 DEF PrecommitReturn, NextFollower, Goto
  <2> QED
    BY <1>0, <2>1, <2>3, BeforeDecision DEF Waiting
<1>7. CASE PersistLookup(p)
  <2>1. /\ pc[p] = "persist" /\ pc[p]' = "save" /\ net' = net
        /\ UNCHANGED <<height, db, result, process>>
    BY <1>0, <1>7 DEF PersistLookup, Goto
  <2> QED
    BY <1>0, <2>1, BeforeDecision DEF Waiting
<1> QED
  BY <1>1, <1>2, <1>3, <1>4, <1>5, <1>6, <1>7

\* The decision: from now on every follower lacks the value.
LEMMA HappyPersist ==
  ASSUME Inv, NothingGoesWrong, Happy, NEW p \in Puts, PersistStore(p)
  PROVE  Happy'
<1>0. /\ Sequential /\ HappyPut(p) /\ TypeOK /\ 0 \in Nodes /\ Followers \subseteq Nodes
      /\ pc \in [Puts -> Active \cup {"idle", "done"}]
  BY ConstantsAssumption DEF NothingGoesWrong, Inv, TypeOK, HappyPut
<1>1. /\ pc[p] = "save" /\ pc[p]' = "commit" /\ follower[p]' = 1 /\ msg[p] = p
      /\ db' = DBPut(0, p) /\ UNCHANGED <<height, result, process, net>>
  BY <1>0 DEF PersistStore, Goto, Inv, SequentialInv, Phases, PrecommitPhase
<1>2. \A f \in Followers : ~HasIt(f, p) /\ ~HasIt(f, p)' /\ LacksIt(f, p)'
                           /\ ~LacksIt(f, p)
  <2>1. \A f \in Followers : ~(f < 1)
    BY ConstantsAssumption
  <2> QED
    BY <1>1, <2>1 DEF HasIt, LacksIt, Committed
<1>3. /\ \A k \in Keys : k # KeyOf[p] => db[0]'[k] = db[0][k]
      /\ \A f \in Followers : db[f]' = db[f]
  BY <1>0, <1>1, DBPutStores
<1>4. \A f \in Followers, q \in Puts : ~HasIt(f, q) /\ ~HasIt(f, q)' /\ ~LacksIt(f, q)
  BY <1>0, <1>2, OthersOut
<1>5. InStep'
  <2> SUFFICES ASSUME NEW f \in Followers
               PROVE  /\ height[f]' = height[0]'
                      /\ \A k \in Keys : db[f]'[k] = db[0]'[k] \/ k = KeyOf[p]
    BY <1>2, <1>4 DEF InStep
  <2>1. height[f] = height[0] /\ \A k \in Keys : db[f][k] = db[0][k]
    BY <1>4 DEF Happy, InStep
  <2> QED
    BY <1>1, <1>3, <2>1
<1>6. AllAcked'
  <2>1. \A q \in Puts : /\ pc[q]' = "done" => pc[q] = "done"
                        /\ pc[q]' = "check" <=> pc[q] = "check"
                        /\ pc[q]' # "raise"
                        /\ pc[q]' \in Waiting =>
                             reply[q]' = NoReply \/ reply[q]'.type = "ACK"
    BY <1>0, <1>1, OthersOut DEF Happy, AllAcked, Waiting
  <2> QED
    BY <1>1, <2>1, StillAcked DEF Happy, AllAcked
<1> QED
  BY <1>5, <1>6 DEF Happy

\* The calls of the commit phase and their answers: who has committed and who has
\* not is the same before and after.
LEMMA HappyCommitLoop ==
  ASSUME Inv, NothingGoesWrong, Happy, NEW p \in Puts, CallCommit(p) \/ CommitReturn(p)
  PROVE  Happy'
<1>0. /\ Sequential /\ HappyPut(p) /\ N \in Nat
      /\ pc \in [Puts -> Active \cup {"idle", "done"}]
      /\ follower \in [Puts -> 1..N]
  BY ConstantsAssumption DEF NothingGoesWrong, Inv, TypeOK, HappyPut
<1>1. CASE CallCommit(p)
  <2>1. /\ pc[p] = "commit" /\ pc[p]' = "committing" /\ reply[p]' = NoReply
        /\ NoReply.type # "ACK"
        /\ UNCHANGED <<height, db, result, process, follower>>
        /\ \A r \in net' : r \in net \/ r.stage = "sent"
    BY <1>0, <1>1, HappyCall DEF CallCommit, Goto, NoReply
  <2>2. \A f \in Followers : (HasIt(f, p)' <=> HasIt(f, p))
                             /\ (LacksIt(f, p)' <=> LacksIt(f, p))
    BY <2>1 DEF HasIt, LacksIt, Committed
  <2>3. InStep'
    BY <1>0, <2>1, <2>2, OthersOut, StillInStep DEF Happy
  <2>4. \A q \in Puts : /\ pc[q]' = "done" => pc[q] = "done"
                        /\ pc[q]' = "check" <=> pc[q] = "check"
                        /\ pc[q]' # "raise"
                        /\ pc[q]' \in Waiting =>
                             reply[q]' = NoReply \/ reply[q]'.type = "ACK"
    BY <1>0, <2>1, OthersOut DEF Happy, AllAcked
  <2>5. AllAcked'
    BY <2>1, <2>4, StillAcked DEF Happy, AllAcked
  <2> QED
    BY <2>3, <2>5 DEF Happy
<1>2. CASE CommitReturn(p)
  <2>1. /\ pc[p] = "committing" /\ net' = net /\ reply[p] # NoReply /\ reply' = reply
        /\ UNCHANGED <<height, db, process>>
    BY <1>2 DEF CommitReturn
  <2>2. reply[p].type = "ACK"
    BY <2>1 DEF Happy, AllAcked, Waiting
  <2>3. NextFollower(p, "commit", "finish")
    BY <1>2, <2>2 DEF CommitReturn
  <2>4. \/ /\ follower[p] < N /\ pc[p]' = "commit" /\ follower[p]' = follower[p] + 1
           /\ result' = result
        \/ follower[p] = N /\ pc[p]' = "finish" /\ result' = result
    BY <1>0, <2>3 DEF NextFollower, Goto
  <2>5. \A f \in Followers : (HasIt(f, p)' <=> HasIt(f, p))
                             /\ (LacksIt(f, p)' <=> LacksIt(f, p))
    <3>1. \A f \in Followers : Committed(f, p) <=> f <= follower[p]
      BY <1>0, <2>1, <2>2 DEF Committed
    <3>2. CASE follower[p] < N /\ pc[p]' = "commit" /\ follower[p]' = follower[p] + 1
      <4>1. \A f \in Followers : Committed(f, p)' <=> f <= follower[p]
        BY <1>0, <3>2 DEF Committed
      <4> QED
        BY <2>1, <3>1, <3>2, <4>1 DEF HasIt, LacksIt
    <3>3. CASE follower[p] = N /\ pc[p]' = "finish"
      <4>1. \A f \in Followers : Committed(f, p)
        BY <1>0, <3>1, <3>3
      <4> QED
        BY <2>1, <3>3, <4>1 DEF HasIt, LacksIt
    <3> QED
      BY <2>4, <3>2, <3>3
  <2>6. InStep'
    BY <1>0, <2>1, <2>5, OthersOut, StillInStep DEF Happy
  <2>7. \A q \in Puts : /\ pc[q]' = "done" => pc[q] = "done"
                        /\ pc[q]' = "check" <=> pc[q] = "check"
                        /\ pc[q]' # "raise"
                        /\ pc[q]' \in Waiting =>
                             reply[q]' = NoReply \/ reply[q]'.type = "ACK"
    BY <1>0, <2>1, <2>4, OthersOut DEF Happy, AllAcked, Waiting
  <2>8. AllAcked'
    BY <2>1, <2>4, <2>7, StillAcked DEF Happy, AllAcked
  <2> QED
    BY <2>6, <2>8 DEF Happy
<1> QED
  BY <1>1, <1>2

\* The coordinator catches up with its followers.
LEMMA HappyIncrease ==
  ASSUME Inv, NoEarlyResult, NothingGoesWrong, Happy, NEW p \in Puts, IncreaseHeight(p)
  PROVE  Happy'
<1>0. /\ Sequential /\ HappyPut(p) /\ 0 \in Nodes /\ Followers \subseteq Nodes
      /\ pc \in [Puts -> Active \cup {"idle", "done"}]
      /\ height \in [Nodes -> Nat]
  BY ConstantsAssumption DEF NothingGoesWrong, Inv, TypeOK, HappyPut
<1>1. /\ pc[p] = "finish" /\ pc[p]' = "check"
      /\ height' = [height EXCEPT ![0] = height[0] + 1]
      /\ UNCHANGED <<db, process, net, result>>
  BY <1>0 DEF IncreaseHeight, Goto
<1>2. \A f \in Followers : HasIt(f, p) /\ ~LacksIt(f, p) /\ ~HasIt(f, p)' /\ ~LacksIt(f, p)'
  BY <1>1, OnlyTheRunning DEF HasIt, LacksIt
<1>3. /\ height[0]' = height[0] + 1 /\ height[0] \in Nat
      /\ \A f \in Followers : height[f]' = height[f]
  BY <1>0, <1>1
<1>4. InStep'
  <2> SUFFICES ASSUME NEW f \in Followers
               PROVE  height[f]' = height[0]' /\ \A k \in Keys : db[f]'[k] = db[0]'[k]
    BY <1>0, <1>2, OthersOut DEF InStep
  <2>1. height[f] = height[0] + 1 /\ \A k \in Keys : db[f][k] = db[0][k]
    BY <1>0, <1>2, OthersOut DEF Happy, InStep
  <2> QED
    BY <1>1, <1>3, <2>1
<1>5. p \notin Counted
  BY <1>1 DEF NoEarlyResult, Counted
<1>6. Counted' = Counted \cup {p}
  BY <1>0, <1>1, OthersOut DEF Counted
<1>7. IsFiniteSet(Counted') /\ Cardinality(Counted') = height[0]'
  BY <1>3, <1>5, <1>6, FS_AddElement DEF Happy, AllAcked
<1>8. \A q \in Puts : /\ pc[q]' = "done" => result[q]' = "ACK"
                      /\ pc[q]' # "raise"
                      /\ pc[q]' \in Waiting =>
                           reply[q]' = NoReply \/ reply[q]'.type = "ACK"
  BY <1>0, <1>1, OthersOut DEF Happy, AllAcked, Waiting
<1>9. AllAcked'
  BY <1>1, <1>7, <1>8 DEF Happy, AllAcked
<1> QED
  BY <1>4, <1>9 DEF Happy

\* The acknowledgement: the Put is counted already.
LEMMA HappyFinish ==
  ASSUME Inv, NothingGoesWrong, Happy, NEW p \in Puts, Finish(p)
  PROVE  Happy'
<1>0. /\ Sequential /\ HappyPut(p)
      /\ pc \in [Puts -> Active \cup {"idle", "done"}]
      /\ result \in [Puts -> {"none", "ACK", "NACK", "error"}]
  BY DEF NothingGoesWrong, Inv, TypeOK, HappyPut
<1>1. /\ pc[p] = "check" /\ pc[p]' = "done" /\ result[p]' = "ACK"
      /\ UNCHANGED <<height, db, process, net>>
  BY <1>0 DEF Finish, Return, Goto
<1>2. \A f \in Followers, q \in Puts : /\ HasIt(f, q)' <=> HasIt(f, q)
                                       /\ LacksIt(f, q)' <=> LacksIt(f, q)
  <2>1. \A f \in Followers : /\ ~HasIt(f, p) /\ ~LacksIt(f, p)
                             /\ ~HasIt(f, p)' /\ ~LacksIt(f, p)'
    BY <1>1, OnlyTheRunning
  <2> QED
    BY <1>0, <2>1, OthersOut
<1>3. InStep'
  BY <1>1, <1>2, StillInStep DEF Happy
<1>4. Counted' = Counted
  BY <1>0, <1>1, OthersOut DEF Counted
<1>5. \A q \in Puts : /\ pc[q]' = "done" => result[q]' = "ACK"
                      /\ pc[q]' # "raise"
                      /\ pc[q]' \in Waiting =>
                           reply[q]' = NoReply \/ reply[q]'.type = "ACK"
  BY <1>0, <1>1, OthersOut DEF Happy, AllAcked, Waiting
<1>6. AllAcked'
  BY <1>1, <1>4, <1>5 DEF Happy, AllAcked
<1> QED
  BY <1>3, <1>6 DEF Happy

(***************************************************************************)
(* The steps of the handlers                                               *)
(***************************************************************************)

\* A handler's step that answers nothing, or answers a proposal or a precommit
\* with an acknowledgement, changes neither heights nor databases nor commits.
LEMMA HappyQuiet ==
  ASSUME Inv, Happy, NEW r \in net,
         UNCHANGED <<height, db, pc, follower, result, process>>,
         \/ reply' = reply
         \/ /\ r.kind \in {"propose", "precommit"}
            /\ \E rep : reply' = [reply EXCEPT ![r.put] = rep] /\ rep.type = "ACK",
         \A s \in net' : \/ s \in net
                         \/ s.stage # "missing" /\ (s.stage = "stored" => s.vote = "ACK")
  PROVE  Happy'
<1>0. r.put \in Puts /\ reply \in [Puts -> Reply]
  BY OneRequest DEF Inv, TypeOK
<1>1. \A q \in Puts : \/ reply[q]' = reply[q]
                      \/ reply[q]'.type = "ACK" /\ pc[q] # "committing"
  <2>1. CASE reply' = reply
    BY <2>1
  <2>2. ASSUME r.kind \in {"propose", "precommit"},
               NEW rep, reply' = [reply EXCEPT ![r.put] = rep], rep.type = "ACK"
        PROVE  \A q \in Puts : \/ reply[q]' = reply[q]
                               \/ reply[q]'.type = "ACK" /\ pc[q] # "committing"
    <3>1. pc[r.put] # "committing"
      BY <2>2, OneRequest DEF KindAt
    <3> QED
      BY <1>0, <2>2, <3>1
  <2> QED
    BY <2>1, <2>2
<1>2. \A f \in Followers, q \in Puts : Committed(f, q)' <=> Committed(f, q)
  BY <1>1 DEF Committed
<1>3. \A f \in Followers, q \in Puts : /\ HasIt(f, q)' <=> HasIt(f, q)
                                       /\ LacksIt(f, q)' <=> LacksIt(f, q)
  BY <1>2 DEF HasIt, LacksIt
<1>4. InStep'
  BY <1>3, StillInStep DEF Happy
<1>5. \A q \in Puts : /\ pc[q]' = "done" => pc[q] = "done"
                      /\ pc[q]' = "check" <=> pc[q] = "check"
                      /\ pc[q]' # "raise"
                      /\ pc[q]' \in Waiting =>
                           reply[q]' = NoReply \/ reply[q]'.type = "ACK"
  BY <1>1 DEF Happy, AllAcked
<1>6. AllAcked'
  BY <1>5, StillAcked DEF Happy, AllAcked
<1> QED
  BY <1>4, <1>6 DEF Happy

\* While a proposal is handled no follower is ahead.
LEMMA ProposalIsLevel ==
  ASSUME Inv, Happy, NEW r \in net, r.kind = "propose"
  PROVE  height[r.to] = height[0]
<1>1. /\ r.to \in Followers /\ r.put \in Puts /\ pc[r.put] = "proposing"
      /\ \A q \in Puts : q # r.put => pc[q] \notin Active
  BY OneRequest, WaitLabels
<1>2. \A q \in Puts : ~HasIt(r.to, q)
  BY <1>1, OnlyTheRunning
<1> QED
  BY <1>1, <1>2 DEF Happy, InStep

\* All handlers but the one that commits.
LEMMA HappyHandlers ==
  ASSUME Inv, NothingGoesWrong, Happy, NEW r \in net, HappyHandle(r), ~CommitStore(r)
  PROVE  Happy'
<1>0. /\ r \in Request /\ r.live /\ r.index = height[0] /\ height[0] \in Nat
      /\ r.put \in Puts /\ reply \in [Puts -> Reply]
  BY OneRequest, HeightTypes DEF Inv, TypeOK
<1>1. CASE ProposeReset(r) \/ CommitNote(r) \/ CommitLookup(r)
  <2>1. PICK s : /\ net' = (net \ {r}) \cup {s} /\ reply' = reply
                 /\ s.stage \in {"reset", "noted", "found"}
    <3>1. /\ [r EXCEPT !.stage = "reset"].stage = "reset"
          /\ [r EXCEPT !.stage = "noted"].stage = "noted"
          /\ [r EXCEPT !.stage = "found", !.entry = nodeCache[r.to][r.index]].stage = "found"
      BY <1>0 DEF Request
    <3>2. CASE ProposeReset(r)
      BY <3>1, <3>2 DEF ProposeReset, Continue
    <3>3. CASE CommitNote(r)
      BY <3>1, <3>3 DEF CommitNote, Continue
    <3>4. CASE CommitLookup(r)
      BY <3>1, <3>4 DEF CommitLookup, Continue
    <3> QED
      BY <1>1, <3>2, <3>3, <3>4
  <2>2. UNCHANGED <<height, db, pc, follower, result, process>>
    BY <1>1 DEF ProposeReset, CommitNote, CommitLookup
  <2> QED
    BY <2>1, <2>2, HappyQuiet
<1>2. CASE ProposeStore(r)
  <2>1. /\ Continue(r, [r EXCEPT !.stage = "stored", !.vote = "ACK"])
        /\ UNCHANGED <<height, db, pc, follower, result, process>>
    BY <1>2 DEF ProposeStore, NothingGoesWrong
  <2>2. /\ [r EXCEPT !.stage = "stored", !.vote = "ACK"].stage = "stored"
        /\ [r EXCEPT !.stage = "stored", !.vote = "ACK"].vote = "ACK"
    BY <1>0 DEF Request
  <2>3. \A s \in net' : \/ s \in net
                        \/ s.stage # "missing" /\ (s.stage = "stored" => s.vote = "ACK")
    BY <2>1, <2>2 DEF Continue
  <2>4. reply' = reply
    BY <2>1 DEF Continue
  <2> QED
    BY <2>1, <2>3, <2>4, HappyQuiet
<1>3. CASE ProposeAnswer(r)
  <2>1. height[r.to] = height[0] /\ r.kind = "propose" /\ r.vote = "ACK"
    BY <1>3, ProposalIsLevel DEF ProposeAnswer, Happy, AllAcked
  <2>2. /\ Answer(r, [type |-> r.vote, index |-> r.index])
        /\ UNCHANGED <<height, db, pc, follower, result, process>>
    BY <1>0, <1>3, <2>1 DEF ProposeAnswer
  <2>3. /\ reply' = [reply EXCEPT ![r.put] = [type |-> r.vote, index |-> r.index]]
        /\ net' \subseteq net
    BY <1>0, <2>2 DEF Answer
  <2>4. [type |-> r.vote, index |-> r.index].type = "ACK"
    BY <2>1
  <2> QED
    BY <2>1, <2>2, <2>3, <2>4, HappyQuiet
<1>4. CASE PrecommitHandle(r)
  <2>1. /\ Answer(r, Ack(0)) /\ r.kind = "precommit" /\ Ack(0).type = "ACK"
        /\ UNCHANGED <<height, db, pc, follower, result, process>>
    BY <1>4 DEF PrecommitHandle, Ack
  <2>2. reply' = [reply EXCEPT ![r.put] = Ack(0)] /\ net' \subseteq net
    BY <1>0, <2>1 DEF Answer
  <2> QED
    BY <2>1, <2>2, HappyQuiet
<1> QED
  BY <1>1, <1>2, <1>3, <1>4 DEF HappyHandle

\* A follower commits: it is one ahead from now on, and has the value.
LEMMA HappyCommit ==
  ASSUME Inv, NothingGoesWrong, Happy, NEW r \in net, CommitStore(r)
  PROVE  Happy'
<1> DEFINE p == r.put
           f == r.to
<1>0. /\ p \in Puts /\ f \in Followers /\ f = follower[p] /\ pc[p] = "committing"
      /\ reply[p] = NoReply /\ db' = DBPut(f, p) /\ db[0][KeyOf[p]] = p
      /\ f \in Nodes /\ 0 \in Nodes /\ f # 0 /\ TypeOK /\ Followers \subseteq Nodes
  BY CommitStoreEffect, ConstantsAssumption DEF Inv
<1>1. /\ UNCHANGED <<pc, follower, result, process>> /\ net' = net \ {r}
      /\ height' = [height EXCEPT ![f] = height[f] + 1]
      /\ reply' = [reply EXCEPT ![p] = Ack(0)]
  BY OneRequest DEF CommitStore, Answer
<1>2. Ack(0).type = "ACK" /\ NoReply.type # "ACK"
  BY DEF Ack, NoReply
<1>3. \A q \in Puts : q # p => pc[q] \notin Active
  BY OneRequest
<1> HIDE DEF p, f
<1>4. reply[p]' = Ack(0) /\ \A q \in Puts : q # p => reply[q]' = reply[q]
  BY <1>0, <1>1 DEF TypeOK
<1>5. /\ height[f]' = height[f] + 1 /\ height[0]' = height[0]
      /\ \A e \in Followers : e # f => height[e]' = height[e]
  BY <1>0, <1>1 DEF TypeOK
<1>6. /\ db[f]'[KeyOf[p]] = p /\ db[0]' = db[0]
      /\ \A e \in Followers : e # f => db[e]' = db[e]
      /\ \A k \in Keys : k # KeyOf[p] => db[f]'[k] = db[f][k]
  BY <1>0, DBPutStores
<1>7. /\ HasIt(f, p)' /\ ~LacksIt(f, p)' /\ ~HasIt(f, p)
      /\ \A e \in Followers : e # f => /\ HasIt(e, p)' <=> HasIt(e, p)
                                       /\ LacksIt(e, p)' <=> LacksIt(e, p)
  BY <1>0, <1>1, <1>2, <1>4 DEF HasIt, LacksIt, Committed
<1>8. \A e \in Followers, q \in Puts : q # p => /\ ~HasIt(e, q)' /\ ~HasIt(e, q)
                                                /\ ~LacksIt(e, q)' /\ ~LacksIt(e, q)
  BY <1>1, <1>3, OnlyTheRunning
<1>9. InStep'
  <2>1. ASSUME NEW e \in Followers, e # f
        PROVE  /\ (\E q \in Puts : HasIt(e, q)') => height[e]' = height[0]' + 1
               /\ (\A q \in Puts : ~HasIt(e, q)') => height[e]' = height[0]'
               /\ \A k \in Keys : \/ db[e]'[k] = db[0]'[k]
                                  \/ \E q \in Puts : LacksIt(e, q)' /\ k = KeyOf[q]
    BY <1>5, <1>6, <1>7, <1>8, <2>1 DEF Happy, InStep
  <2>2. height[f]' = height[0]' + 1
    BY <1>0, <1>5, <1>7, <1>8 DEF Happy, InStep
  <2>3. ASSUME NEW k \in Keys PROVE db[f]'[k] = db[0]'[k]
    <3>1. CASE k = KeyOf[p]
      BY <1>0, <1>6, <3>1
    <3>2. CASE k # KeyOf[p]
      BY <1>0, <1>6, <1>8, <3>2 DEF Happy, InStep
    <3> QED
      BY <3>1, <3>2
  <2> QED
    BY <1>0, <1>7, <2>1, <2>2, <2>3 DEF InStep
<1>10. AllAcked'
  <2>1. \A q \in Puts : /\ pc[q]' = "done" => pc[q] = "done"
                        /\ pc[q]' = "check" <=> pc[q] = "check"
                        /\ pc[q]' # "raise"
                        /\ pc[q]' \in Waiting =>
                             reply[q]' = NoReply \/ reply[q]'.type = "ACK"
    BY <1>1, <1>2, <1>4 DEF Happy, AllAcked
  <2> QED
    BY <1>1, <1>5, <2>1, StillAcked DEF Happy, AllAcked
<1> QED
  BY <1>9, <1>10 DEF Happy

\* The inductive step.
LEMMA HappyNext ==
  ASSUME NothingGoesWrong, Inv, NoEarlyResult, Happy, MonitorSilent', [Next]_vars
  PROVE  Happy'
<1>1. ASSUME NEW p \in Puts, HappyPut(p) PROVE Happy'
  BY <1>1, HappyEarly, HappyPersist, HappyCommitLoop, HappyIncrease, HappyFinish
     DEF HappyPut
<1>2. ASSUME NEW r \in net, HappyHandle(r) PROVE Happy'
  BY <1>2, HappyHandlers, HappyCommit
<1>3. CASE (\E t \in timers : Autocommit(t)) \/ UNCHANGED vars
  <2>1. UNCHANGED <<height, db, pc, follower, result, process, reply, net>>
    BY <1>3 DEF Autocommit, vars
  <2>2. InStep'
    <3>1. \A f \in Followers, q \in Puts : /\ HasIt(f, q)' <=> HasIt(f, q)
                                           /\ LacksIt(f, q)' <=> LacksIt(f, q)
      BY <2>1 DEF HasIt, LacksIt, Committed
    <3> QED
      BY <2>1, <3>1, StillInStep DEF Happy
  <2>3. AllAcked'
    BY <2>1, StillAcked DEF Happy, AllAcked
  <2> QED
    BY <2>2, <2>3 DEF Happy
<1>4. AllAcked
  BY DEF Happy
<1> QED
  BY <1>1, <1>2, <1>3, <1>4, HappyActions

\* Between two Puts there is nothing to commit.
LEMMA HappyAtRest == Happy => HappyPath
<1> SUFFICES ASSUME Happy PROVE HappyPath
  OBVIOUS
<1>1. \A p \in Puts : pc[p] = "done" => result[p] = "ACK"
  BY DEF Happy, AllAcked
<1>2. ASSUME \A p \in Puts : pc[p] \notin Active, NEW n \in Nodes
      PROVE  height[n] = Cardinality({p \in Puts : result[p] = "ACK"}) /\ \A k \in Keys : db[n][k] = db[0][k]
  <2>0. Counted = {p \in Puts : result[p] = "ACK"}
    BY <1>2 DEF Counted, Active
  <2>1. CASE n = 0
    BY <2>0, <2>1 DEF Happy, AllAcked
  <2>2. CASE n # 0
    <3>1. n \in Followers
      BY <2>2, ConstantsAssumption
    <3>2. \A p \in Puts : ~HasIt(n, p) /\ ~LacksIt(n, p)
      BY <1>2, <3>1, OnlyTheRunning
    <3> QED
      BY <2>0, <3>1, <3>2 DEF Happy, AllAcked, InStep
  <2> QED
    BY <2>1, <2>2
<1> QED
  BY <1>1, <1>2 DEF HappyPath, NodeInfo, Get

\* The invariant holds initially.
LEMMA HappyInit == Init => Happy
<1> SUFFICES ASSUME Init PROVE Happy
  OBVIOUS
<1>1. Counted = {} /\ 0 \in Nodes /\ Followers \subseteq Nodes
  BY ConstantsAssumption DEF Init, Counted
<1>2. AllAcked
  BY <1>1, FS_EmptySet DEF Init, AllAcked, Waiting
<1>3. \A f \in Followers, p \in Puts : ~HasIt(f, p)
  BY DEF Init, HasIt
<1>4. InStep
  BY <1>1, <1>3 DEF Init, InStep
<1> QED
  BY <1>2, <1>4 DEF Happy

\* What TestHappyPath asserts, for any number of followers (two, if the monitor
\* may crash the coordinator) and any number of Puts: with no faults and hooks
\* that accept, every Put that has returned was acknowledged, and between two Puts
\* all nodes hold the same values and report the number of Puts as their height.
THEOREM HappyPathHolds == NothingGoesWrong => (Spec => []HappyPath)
<1> SUFFICES ASSUME NothingGoesWrong PROVE Spec => []HappyPath
  OBVIOUS
<1>0. Sequential /\ Reliable
  BY DEF NothingGoesWrong, Reliable
<1>1. Inv /\ [Next]_vars => Inv'
  BY <1>0, NextInv
<1>2. Inv /\ NoEarlyResult /\ Happy /\ MonitorSilent' /\ [Next]_vars => Happy'
  BY HappyNext
<1> QED
  BY <1>1, <1>2, InitInv, HappyInit, HappyAtRest, ResultOnlyAtTheEnd,
     MonitorNeverPanics, PTL DEF Spec

(***************************************************************************)
(* The timers                                                              *)
(***************************************************************************)

\* A follower that handles a commit is level with the coordinator.
LEMMA CommitIsLevel ==
  ASSUME Inv, Happy, NEW r \in net, r.kind = "commit"
  PROVE  height[r.to] = height[0]
<1>1. /\ r.to \in Followers /\ r.put \in Puts /\ pc[r.put] = "committing"
      /\ r.to = follower[r.put] /\ reply[r.put] = NoReply
      /\ \A q \in Puts : q # r.put => pc[q] \notin Active
  BY OneRequest, WaitLabels
<1>2. r.to \in Int /\ ~Committed(r.to, r.put)
  BY <1>1 DEF Committed, NoReply
<1>3. \A q \in Puts : ~HasIt(r.to, q)
  BY <1>1, <1>2, OnlyTheRunning DEF HasIt
<1> QED
  BY <1>1, <1>3 DEF Happy, InStep

\* A timer is armed on a follower, by a Put.
LEMMA TimerTypes ==
  ASSUME Inv, NEW t \in timers
  PROVE  t.to \in Followers /\ t.put \in Puts /\ t.index \in Nat
BY DEF Inv, TypeOK, Timer

\* Once its timers may be armed, a Put that goes on stays where they may be, and
\* once all have committed it only returns.
LEMMA ArmedStays ==
  ASSUME Inv, Happy, NEW p \in Puts, HappyPut(p), ~IncreaseHeight(p)
  PROVE  /\ pc[p] \in Armed => pc[p]' \in Armed
         /\ pc[p] = "check" => pc[p]' = "done"
<1>0. pc \in [Puts -> Active \cup {"idle", "done"}]
  BY DEF Inv, TypeOK
<1>1. CASE PrecommitReturn(p) \/ CommitReturn(p)
  <2>1. reply[p].type = "ACK"
    BY <1>1 DEF PrecommitReturn, CommitReturn, Happy, AllAcked, Waiting
  <2> QED
    BY <1>0, <1>1, <2>1 DEF PrecommitReturn, CommitReturn, NextFollower, Goto, Armed
<1>2. CASE CallPrecommit(p) \/ PersistLookup(p) \/ PersistStore(p) \/ CallCommit(p)
  BY <1>0, <1>2 DEF CallPrecommit, PersistLookup, PersistStore, CallCommit, Goto, Armed
<1>3. CASE PutBegin(p) \/ CallPropose(p) \/ ProposeReturn(p) \/ ProposeAcked(p)
  BY <1>3 DEF PutBegin, CallPropose, ProposeReturn, ProposeAcked, Armed
<1>4. CASE Finish(p)
  BY <1>0, <1>4 DEF Finish, Return, Goto, Armed
<1> QED
  BY <1>1, <1>2, <1>3, <1>4 DEF HappyPut

\* The coordinator arms nothing and notes nothing.
LEMMA PutLeavesTimers ==
  ASSUME Inv, NEW p \in Puts, HappyPut(p), ~IncreaseHeight(p)
  PROVE  /\ UNCHANGED <<height, timers, cancelCommitOnHeight>> /\ pc[p] # "done"
         /\ \A r \in net' : r \in net \/ r.stage = "sent"
<1>1. CASE CallPropose(p) \/ CallPrecommit(p) \/ CallCommit(p)
  <2>1. \E kind \in {"propose", "precommit", "commit"} : Call(p, kind)
    BY <1>1 DEF CallPropose, CallPrecommit, CallCommit
  <2>2. \A r \in net' : r \in net \/ r.stage = "sent"
    BY <2>1, HappyCall
  <2> QED
    BY <1>1, <2>2 DEF CallPropose, CallPrecommit, CallCommit
<1>2. CASE \/ PutBegin(p) \/ ProposeReturn(p) \/ ProposeAcked(p) \/ PrecommitReturn(p)
           \/ PersistLookup(p) \/ PersistStore(p) \/ CommitReturn(p) \/ Finish(p)
  BY <1>2 DEF PutBegin, ProposeReturn, ProposeAcked, PrecommitReturn, PersistLookup,
     PersistStore, CommitReturn, Finish
<1> QED
  BY <1>1, <1>2 DEF HappyPut

\* A step of Put that does not increase the height.
LEMMA PutTimers ==
  ASSUME Inv, NothingGoesWrong, Happy, TimersInStep, NEW p \in Puts, HappyPut(p), ~IncreaseHeight(p)
  PROVE  TimersInStep'
<1>1. /\ UNCHANGED <<height, timers, cancelCommitOnHeight>> /\ pc[p] # "done"
      /\ \A r \in net' : r \in net \/ r.stage = "sent"
  BY PutLeavesTimers
<1>2. ASSUME NEW t \in timers
      PROVE  \/ /\ pc[t.put]' \in {"check", "done"} /\ t.index < height[0]
                /\ t.index \in cancelCommitOnHeight[t.to]
             \/ pc[t.put]' \in Armed /\ t.index = height[0]
  <2>1. CASE t.put = p
    BY <1>1, <2>1, ArmedStays DEF TimersInStep
  <2>2. CASE t.put # p
    <3>1. pc[t.put]' = pc[t.put]
      BY <2>2, TimerTypes, OthersOut DEF NothingGoesWrong
    <3> QED
      BY <3>1 DEF TimersInStep
  <2> QED
    BY <2>1, <2>2
<1> QED
  BY <1>1, <1>2 DEF TimersInStep

\* The increase of the height: every follower has noted the one that is now past.
LEMMA IncreaseTimers ==
  ASSUME Inv, NothingGoesWrong, Happy, TimersInStep, NEW p \in Puts, IncreaseHeight(p)
  PROVE  TimersInStep'
<1>0. /\ Sequential /\ HappyPut(p) /\ 0 \in Nodes /\ Followers \subseteq Nodes
      /\ pc \in [Puts -> Active \cup {"idle", "done"}]
      /\ height \in [Nodes -> Nat]
  BY ConstantsAssumption DEF NothingGoesWrong, Inv, TypeOK, HappyPut
<1>1. /\ pc[p] = "finish" /\ pc[p]' = "check"
      /\ height' = [height EXCEPT ![0] = height[0] + 1]
      /\ UNCHANGED <<timers, cancelCommitOnHeight, net>>
  BY <1>0 DEF IncreaseHeight, Goto
<1>2. /\ height[0]' = height[0] + 1 /\ height[0] \in Nat
      /\ \A f \in Followers : height[f]' = height[0] + 1 /\ height[f] # height[0]
  <2>1. \A f \in Followers : height[f] = height[0] + 1
    BY <1>1 DEF Happy, InStep, HasIt
  <2> QED
    BY <1>0, <1>1, <2>1
<1>3. net' = {}
  BY <1>1, NoRequest DEF Active, Waiting
<1>4. ASSUME NEW t \in timers
      PROVE  /\ pc[t.put]' \in {"check", "done"} /\ t.index < height[0]'
             /\ t.index \in cancelCommitOnHeight[t.to]
  <2>0. t.to \in Followers /\ t.put \in Puts /\ t.index \in Nat
    BY TimerTypes
  <2>1. CASE pc[t.put] \in {"check", "done"}
    <3>1. t.index < height[0] /\ t.index \in cancelCommitOnHeight[t.to]
      BY <2>1 DEF TimersInStep, Armed
    <3>2. pc[t.put]' \in {"check", "done"}
      BY <1>0, <1>1, <2>0, <2>1, OthersOut
    <3> QED
      BY <1>2, <2>0, <3>1, <3>2
  <2>2. CASE pc[t.put] \notin {"check", "done"}
    <3>1. pc[t.put] \in Armed /\ t.index = height[0]
      BY <2>2 DEF TimersInStep
    <3>2. t.put = p
      BY <1>0, <2>0, <3>1, OthersOut DEF Armed, Active, Waiting
    <3>3. height[0] \in cancelCommitOnHeight[t.to]
      BY <1>2, <2>0 DEF TimersInStep
    <3> QED
      BY <1>1, <1>2, <3>1, <3>2, <3>3
  <2> QED
    BY <2>1, <2>2
<1> QED
  BY <1>1, <1>2, <1>3, <1>4 DEF TimersInStep

\* The handlers.
LEMMA HandleTimers ==
  ASSUME Inv, Happy, TimersInStep, NEW r \in net, HappyHandle(r)
  PROVE  TimersInStep'
<1>0. /\ r \in Request /\ r.live /\ r.index = height[0] /\ height[0] \in Nat
      /\ r.put \in Puts /\ r.to \in Followers /\ net = {r}
      /\ cancelCommitOnHeight \in [Followers -> SUBSET Nat]
      /\ height \in [Nodes -> Nat]
  BY OneRequest, HeightTypes DEF Inv, TypeOK
<1>1. CASE ProposeReset(r)
  <2>1. /\ UNCHANGED <<pc, height, timers>> /\ r.kind = "propose"
        /\ cancelCommitOnHeight' = [cancelCommitOnHeight EXCEPT ![r.to] =
                                      cancelCommitOnHeight[r.to] \ {height[0]}]
        /\ net' = {[r EXCEPT !.stage = "reset"]}
    BY <1>0, <1>1 DEF ProposeReset, Continue
  <2>2. height[r.to] = height[0]
    BY <2>1, ProposalIsLevel
  <2>3. \A s \in net' : s.kind = "propose"
    BY <1>0, <2>1 DEF Request
  <2>4. \A f \in Followers : height[f] # height[0] =>
          cancelCommitOnHeight[f]' = cancelCommitOnHeight[f]
    BY <1>0, <2>1, <2>2
  <2>5. ASSUME NEW t \in timers, t.index < height[0],
               t.index \in cancelCommitOnHeight[t.to]
        PROVE  t.index \in cancelCommitOnHeight[t.to]'
    BY <1>0, <2>1, <2>5, TimerTypes
  <2> QED
    BY <2>1, <2>3, <2>4, <2>5 DEF TimersInStep
<1>2. CASE ProposeStore(r) \/ ProposeAnswer(r)
  <2>1. UNCHANGED <<pc, height, timers, cancelCommitOnHeight>> /\ r.kind = "propose"
    BY <1>2 DEF ProposeStore, ProposeAnswer
  <2>2. CASE ProposeAnswer(r)
    <3>1. net' = {}
      BY <1>0, <2>2 DEF ProposeAnswer, Answer
    <3> QED
      BY <2>1, <3>1 DEF TimersInStep
  <2>3. CASE ProposeStore(r)
    <3>1. PICK v : net' = {[r EXCEPT !.stage = "stored", !.vote = v]}
      BY <1>0, <2>3 DEF ProposeStore, Continue
    <3>2. \A s \in net' : s.kind = "propose"
      BY <1>0, <2>1, <3>1 DEF Request
    <3> QED
      BY <2>1, <3>2 DEF TimersInStep
  <2> QED
    BY <1>2, <2>2, <2>3
<1>3. CASE PrecommitHandle(r)
  <2> DEFINE u == [to |-> r.to, index |-> height[0], put |-> r.put]
  <2>1. /\ UNCHANGED <<pc, height, cancelCommitOnHeight>> /\ net' = {}
        /\ timers' = IF FollowerCommitType = "three-phase" THEN timers \cup {u} ELSE timers
    BY <1>0, <1>3 DEF PrecommitHandle, Answer
  <2>2. u.put = r.put /\ u.index = height[0] /\ pc[r.put] \in Armed
    BY <1>3, OneRequest, WaitLabels DEF PrecommitHandle, Armed
  <2> HIDE DEF u
  <2> QED
    BY <2>1, <2>2 DEF TimersInStep
<1>4. CASE CommitNote(r)
  <2>0. height[r.to] = height[0]
    BY <1>4, CommitIsLevel DEF CommitNote
  <2>1. /\ UNCHANGED <<pc, height, timers>> /\ net' = {[r EXCEPT !.stage = "noted"]}
        /\ cancelCommitOnHeight' =
             IF FollowerCommitType = "three-phase"
               THEN [cancelCommitOnHeight EXCEPT ![r.to] =
                       cancelCommitOnHeight[r.to] \cup {height[0]}]
               ELSE cancelCommitOnHeight
    BY <1>0, <1>4, <2>0 DEF CommitNote, Continue
  <2>2. /\ \A f \in Followers : cancelCommitOnHeight[f] \subseteq cancelCommitOnHeight[f]'
        /\ FollowerCommitType = "three-phase" => height[0] \in cancelCommitOnHeight[r.to]'
    BY <1>0, <2>1
  <2>3. \A s \in net' : s.to = r.to
    BY <1>0, <2>1 DEF Request
  <2>4. \A t \in timers : t.to \in Followers
    BY TimerTypes
  <2> QED
    BY <2>1, <2>2, <2>3, <2>4 DEF TimersInStep
<1>5. CASE CommitLookup(r)
  <2>1. /\ UNCHANGED <<pc, height, timers, cancelCommitOnHeight>>
        /\ net' = {[r EXCEPT !.stage = "found", !.entry = nodeCache[r.to][r.index]]}
        /\ r.kind = "commit" /\ r.stage # "sent"
    BY <1>0, <1>5 DEF CommitLookup, Continue
  <2>2. \A s \in net' : s.to = r.to
    BY <1>0, <2>1 DEF Request
  <2> QED
    BY <2>1, <2>2 DEF TimersInStep
<1>6. CASE CommitStore(r)
  <2>1. /\ UNCHANGED <<pc, timers, cancelCommitOnHeight>> /\ net' = {}
        /\ height' = [height EXCEPT ![r.to] = height[r.to] + 1]
        /\ r.kind = "commit" /\ r.stage # "sent"
    BY <1>0, <1>6 DEF CommitStore, Answer
  <2>2. height[0]' = height[0] /\ \A f \in Followers : f # r.to => height[f]' = height[f]
    BY <1>0, <2>1, ConstantsAssumption
  <2>3. FollowerCommitType = "three-phase" => height[0] \in cancelCommitOnHeight[r.to]
    BY <2>1 DEF TimersInStep
  <2> QED
    BY <2>1, <2>2, <2>3 DEF TimersInStep
<1> QED
  BY <1>1, <1>2, <1>3, <1>4, <1>5, <1>6 DEF HappyHandle

\* The inductive step.
LEMMA TimersNext ==
  ASSUME NothingGoesWrong, Inv, Happy, TimersInStep, MonitorSilent', [Next]_vars
  PROVE  TimersInStep'
<1>1. ASSUME NEW p \in Puts, HappyPut(p) PROVE TimersInStep'
  BY <1>1, PutTimers, IncreaseTimers
<1>2. ASSUME NEW r \in net, HappyHandle(r) PROVE TimersInStep'
  BY <1>2, HandleTimers
<1>3. CASE (\E t \in timers : Autocommit(t)) \/ UNCHANGED vars
  <2>1. UNCHANGED <<height, pc, net, cancelCommitOnHeight>> /\ timers' \subseteq timers
    BY <1>3 DEF Autocommit, vars
  <2> QED
    BY <2>1 DEF TimersInStep
<1>4. AllAcked
  BY DEF Happy
<1> QED
  BY <1>1, <1>2, <1>3, <1>4, HappyActions

\* In three-phase mode, with nothing going wrong, no follower ever gives up on a
\* Put that was acknowledged: the Commit of the Put has noted progress under the
\* index of every timer its Precommit had armed, and nothing takes the note back
\* - though Propose clears one flag for every round, and Commit notes the height
\* of the follower, not the index it was sent.
THEOREM AckedTimersCancelled == NothingGoesWrong => (Spec => []AckCancelsTimers)
<1> SUFFICES ASSUME NothingGoesWrong PROVE Spec => []AckCancelsTimers
  OBVIOUS
<1>0. Sequential /\ Reliable
  BY DEF NothingGoesWrong, Reliable
<1>1. Inv /\ [Next]_vars => Inv'
  BY <1>0, NextInv
<1>2. Inv /\ NoEarlyResult /\ Happy /\ MonitorSilent' /\ [Next]_vars => Happy'
  BY HappyNext
<1>3. Inv /\ Happy /\ TimersInStep /\ MonitorSilent' /\ [Next]_vars => TimersInStep'
  BY TimersNext
<1>4. Init => TimersInStep
  BY ConstantsAssumption DEF Init, TimersInStep
<1>5. Inv /\ NoEarlyResult /\ TimersInStep => AckCancelsTimers
  <2> SUFFICES ASSUME Inv, NoEarlyResult, TimersInStep, NEW t \in timers,
                      result[t.put] = "ACK"
               PROVE  t.index \in cancelCommitOnHeight[t.to]
    BY DEF AckCancelsTimers, WouldAutocommit
  <2>1. pc[t.put] = "done"
    BY TimerTypes DEF NoEarlyResult
  <2> QED
    BY <2>1 DEF TimersInStep, Armed
<1> QED
  BY <1>1, <1>2, <1>3, <1>4, <1>5, InitInv, HappyInit, ResultOnlyAtTheEnd,
     MonitorNeverPanics, PTL DEF Spec

=============================================================================
