-------------------------- MODULE ConcurrentProofs --------------------------
(***************************************************************************)
(* Proofs for Puts that run concurrently, however many, in an environment  *)
(* where everything but a restart may happen: calls fail, handlers run     *)
(* after their callers have given up, contexts end, writes fail, and the   *)
(* coordinator is stopped by a signal or by its monitor.                   *)
(*                                                                         *)
(* The commits of a follower are counted by its height.  To an             *)
(* acknowledged Put belongs a commit of its own at every follower, because *)
(* the answer that it went by was the answer to its own call (CallsMatch). *)
(***************************************************************************)
EXTENDS CommitterProofs, FiniteSetTheorems

USE DEF Coordinator, Followers, Nodes, coordVars, followerVars, envVars

\* Put p has the acknowledgement of its commit at follower f.
HasCommitted(p, f) ==
  \/ result[p] = "ACK"
  \/ pc[p] \in {"finish", "check"}
  \/ pc[p] \in {"commit", "committing"} /\ f < follower[p]
  \/ pc[p] = "committing" /\ f = follower[p] /\ reply[p].type = "ACK"

CommitsAt(f) == {p \in Puts : HasCommitted(p, f)}

\* The loop of the commit phase starts at the first follower.
PersistAtFirst == \A p \in Puts : pc[p] \in {"persist", "save"} => follower[p] = 1

\* The inductive invariant, together with TypeOK and CallsMatch.
CommitsCounted ==
  /\ PersistAtFirst
  /\ \A f \in Followers : /\ IsFiniteSet(CommitsAt(f))
                          /\ Cardinality(CommitsAt(f)) <= height[f]

\* The same for one Put at one follower: nothing was counted that was not before.
NoneAdded(p) == \A f \in Followers : HasCommitted(p, f)' => HasCommitted(p, f)

\* Fewer commits need no greater height, and one more needs one more.
LEMMA CountBounds ==
  ASSUME NEW A, NEW B, NEW x, NEW h \in Nat, IsFiniteSet(A), Cardinality(A) <= h
  PROVE  /\ B \subseteq A => IsFiniteSet(B) /\ Cardinality(B) <= h
         /\ B \subseteq A \cup {x} => IsFiniteSet(B) /\ Cardinality(B) <= h + 1
<1>1. ASSUME NEW C, IsFiniteSet(C), B \subseteq C
      PROVE  IsFiniteSet(B) /\ Cardinality(B) <= Cardinality(C)
  BY <1>1, FS_Subset
<1>2. /\ IsFiniteSet(A \cup {x})
      /\ Cardinality(A \cup {x}) = Cardinality(A) \/ Cardinality(A \cup {x}) = Cardinality(A) + 1
  BY FS_AddElement
<1>3. Cardinality(A) \in Nat /\ Cardinality(A \cup {x}) \in Nat
  BY <1>2, FS_CardinalityType
<1>4. B \subseteq A => IsFiniteSet(B) /\ Cardinality(B) <= h
  <2> SUFFICES ASSUME B \subseteq A PROVE IsFiniteSet(B) /\ Cardinality(B) <= h
    OBVIOUS
  <2>1. IsFiniteSet(B) /\ Cardinality(B) <= Cardinality(A) /\ Cardinality(B) \in Nat
    BY <1>1, FS_CardinalityType
  <2> QED BY <2>1, <1>3
<1>5. B \subseteq A \cup {x} => IsFiniteSet(B) /\ Cardinality(B) <= h + 1
  <2> SUFFICES ASSUME B \subseteq A \cup {x} PROVE IsFiniteSet(B) /\ Cardinality(B) <= h + 1
    OBVIOUS
  <2>1. IsFiniteSet(B) /\ Cardinality(B) <= Cardinality(A \cup {x}) /\ Cardinality(B) \in Nat
    BY <1>1, <1>2, FS_CardinalityType
  <2> QED BY <2>1, <1>2, <1>3
<1> QED BY <1>4, <1>5

\* The step of a Put leaves the other Puts alone.
LEMMA OthersUntouched ==
  ASSUME TypeOK, NEW p \in Puts, PutBegin(p) \/ PutStep(p) \/ PutRefused(p)
  PROVE  \A q \in Puts \ {p} :
           /\ pc'[q] = pc[q] /\ follower'[q] = follower[q]
           /\ result'[q] = result[q] /\ reply'[q] = reply[q]
<1>1. \A q \in Puts \ {p} : pc'[q] = pc[q]
  BY DEF TypeOK, PutBegin, PutRefused, PutStep, CallPropose, ProposeReturn, RaiseHeight,
     ProposeAcked, CallPrecommit, PrecommitReturn, PersistLookup, PersistMissing,
     PersistStore, PersistFails, CallCommit, CommitReturn, IncreaseHeight, Finish,
     NextFollower, Return, Goto
<1>2. \A q \in Puts \ {p} : follower'[q] = follower[q]
  BY DEF TypeOK, PutBegin, PutRefused, PutStep, CallPropose, ProposeReturn, RaiseHeight,
     ProposeAcked, CallPrecommit, PrecommitReturn, PersistLookup, PersistMissing,
     PersistStore, PersistFails, CallCommit, CommitReturn, IncreaseHeight, Finish,
     NextFollower, Return
<1>3. \A q \in Puts \ {p} : result'[q] = result[q]
  BY DEF TypeOK, PutBegin, PutRefused, PutStep, CallPropose, ProposeReturn, RaiseHeight,
     ProposeAcked, CallPrecommit, PrecommitReturn, PersistLookup, PersistMissing,
     PersistStore, PersistFails, CallCommit, CommitReturn, IncreaseHeight, Finish,
     NextFollower, Return
<1>4. \A q \in Puts \ {p} : reply'[q] = reply[q]
  <2>1. reply' = reply \/ \E x : reply' = [reply EXCEPT ![p] = x]
    BY DEF TypeOK, PutBegin, PutRefused, PutStep, CallPropose, ProposeReturn, RaiseHeight,
     ProposeAcked, CallPrecommit, PrecommitReturn, PersistLookup, PersistMissing,
     PersistStore, PersistFails, CallCommit, CommitReturn, IncreaseHeight, Finish, Call
  <2> QED BY <2>1 DEF TypeOK
<1> QED BY <1>1, <1>2, <1>3, <1>4

\* The Put that takes a step counts nowhere that it did not count before.
LEMMA OwnStepAddsNone ==
  ASSUME TypeOK, CommitsCounted, NEW p \in Puts, PutBegin(p) \/ PutStep(p) \/ PutRefused(p)
  PROVE  NoneAdded(p)
<1> USE DEF NoneAdded, HasCommitted
<1>0. pc[p] \in Labels /\ follower[p] \in 1..N /\ N \in Nat
  BY ConstantsAssumption DEF TypeOK, Labels
<1>1. CASE PutBegin(p) \/ CallPropose(p) \/ ProposeReturn(p) \/ RaiseHeight(p)
             \/ CallPrecommit(p) \/ PersistLookup(p)
  <2>1. result' = result /\ pc'[p] \notin {"commit", "committing", "finish", "check"}
    BY <1>1 DEF TypeOK, PutBegin, CallPropose, ProposeReturn, ProposeAgain, RaiseHeight,
       CallPrecommit, PersistLookup, Goto
  <2> QED BY <2>1
<1>2. CASE ProposeAcked(p)
  <2>1. result' = result /\ pc'[p] \in {"propose", "precommit"}
    BY <1>2 DEF TypeOK, ProposeAcked, NextFollower, Goto
  <2> QED BY <2>1
<1>3. ASSUME NEW r \in {"NACK", "error"}, Return(p, r) PROVE NoneAdded(p)
  BY <1>3 DEF Return, Goto, TypeOK
<1>4. CASE PutRefused(p) \/ PersistMissing(p) \/ PersistFails(p)
  BY <1>3, <1>4 DEF PutRefused, PersistMissing, PersistFails
<1>5. CASE PrecommitReturn(p)
  <2>1. CASE NextFollower(p, "precommit", "persist")
    <3>1. result' = result /\ pc'[p] \in {"precommit", "persist"}
      BY <2>1 DEF TypeOK, NextFollower, Goto
    <3> QED BY <3>1
  <2> QED BY <1>3, <1>5, <2>1 DEF PrecommitReturn
<1>6. CASE PersistStore(p)
  <2>1. result' = result /\ pc'[p] = "commit" /\ follower'[p] = follower[p]
    BY <1>6 DEF TypeOK, PersistStore, Goto
  <2>2. follower[p] = 1
    BY <1>6 DEF PersistStore, CommitsCounted, PersistAtFirst
  <2> QED BY <2>1, <2>2
<1>7. CASE CallCommit(p)
  <2>1. /\ result' = result /\ pc[p] = "commit" /\ pc'[p] = "committing"
        /\ follower'[p] = follower[p]
    BY <1>7 DEF TypeOK, CallCommit, Goto
  <2>2. reply'[p].type # "ACK"
    BY <1>7 DEF TypeOK, CallCommit, Call, NoReply, Failed
  <2> QED BY <2>1, <2>2
<1>8. CASE CommitReturn(p)
  <2>1. CASE reply[p].type = "ACK" /\ NextFollower(p, "commit", "finish")
    <3>1. pc[p] = "committing" /\ result' = result
      BY <1>8, <2>1 DEF CommitReturn, NextFollower
    <3>2. CASE follower[p] < N
      <4>1. pc'[p] = "commit" /\ follower'[p] = follower[p] + 1
        BY <2>1, <3>2 DEF TypeOK, NextFollower, Goto
      <4>2. \A f \in Followers : f < follower[p] + 1 => f < follower[p] \/ f = follower[p]
        BY <1>0
      <4> QED BY <2>1, <3>1, <4>1, <4>2
    <3>3. CASE ~(follower[p] < N)
      <4>1. \A f \in Followers : f < follower[p] \/ f = follower[p]
        BY <1>0, <3>3
      <4> QED BY <2>1, <3>1, <4>1
    <3> QED BY <3>2, <3>3
  <2> QED BY <1>3, <1>8, <2>1 DEF CommitReturn
<1>9. CASE Finish(p)
  BY <1>9 DEF Finish
<1>10. CASE IncreaseHeight(p)
  BY <1>10 DEF IncreaseHeight
<1> QED
  BY <1>1, <1>2, <1>4, <1>5, <1>6, <1>7, <1>8, <1>9, <1>10 DEF PutStep

\* A Put whose place and result stay the same, and whose reply stays or becomes
\* something else than an acknowledgement of a commit, counts nowhere new.
LEMMA SamePlaceAddsNone ==
  ASSUME NEW q \in Puts, pc'[q] = pc[q], follower'[q] = follower[q], result'[q] = result[q],
         reply'[q] = reply[q] \/ reply'[q].type # "ACK" \/ pc[q] # "committing"
  PROVE  NoneAdded(q)
BY DEF NoneAdded, HasCommitted

\* If no Put counts anywhere new and no height of a follower falls, every commit
\* is still counted.
LEMMA StillCounted ==
  ASSUME TypeOK, CommitsCounted, PersistAtFirst', \A q \in Puts : NoneAdded(q),
         \A f \in Followers : height'[f] = height[f]
  PROVE  CommitsCounted'
<1> SUFFICES ASSUME NEW f \in Followers
             PROVE  /\ IsFiniteSet(CommitsAt(f)')
                    /\ Cardinality(CommitsAt(f)') <= height'[f]
  BY DEF CommitsCounted
<1>1. height[f] \in Nat
  BY ConstantsAssumption DEF TypeOK
<1>2. CommitsAt(f)' \subseteq CommitsAt(f)
  BY DEF CommitsAt, NoneAdded
<1>3. IsFiniteSet(CommitsAt(f)) /\ Cardinality(CommitsAt(f)) <= height[f]
  BY DEF CommitsCounted
<1> QED BY <1>1, <1>2, <1>3, CountBounds

\* An answer to a request other than a commit, or one that is not an
\* acknowledgement, adds to nobody's count.
LEMMA AnswerAddsNone ==
  ASSUME TypeOK, CallsMatch, NEW r \in net, NEW rep, Answer(r, rep),
         rep.type # "ACK" \/ r.kind # "commit", UNCHANGED <<pc, follower, result>>
  PROVE  \A q \in Puts : NoneAdded(q)
<1> SUFFICES ASSUME NEW q \in Puts PROVE NoneAdded(q)
  OBVIOUS
<1>1. CASE r.live /\ r.put = q
  <2>1. reply'[q] = rep
    BY <1>1 DEF Answer, TypeOK
  <2>2. r.kind = KindAt(pc[q])
    BY <1>1 DEF CallsMatch
  <2>3. r.kind # "commit" => pc[q] # "committing"
    BY <2>2 DEF KindAt
  <2> QED BY <2>1, <2>3, SamePlaceAddsNone
<1>2. CASE ~(r.live /\ r.put = q)
  <2>1. reply'[q] = reply[q]
    BY <1>2 DEF Answer, TypeOK
  <2> QED BY <2>1, SamePlaceAddsNone
<1> QED BY <1>1, <1>2

\* A handler's commit is the one that its caller, if it still waits, may count,
\* and at this follower only.
LEMMA CommitStoreCounts ==
  ASSUME TypeOK, CallsMatch, CommitsCounted, NEW r \in net, CommitStore(r)
  PROVE  CommitsCounted'
<1>1. UNCHANGED <<pc, follower, result>>
  BY DEF CommitStore
<1>2. r \in Request /\ r.to \in Followers /\ r.put \in Puts
  BY RequestTypes DEF TypeOK
<1>3. height' = [height EXCEPT ![r.to] = height[r.to] + 1]
  BY DEF CommitStore
<1>4. ASSUME NEW q \in Puts, q # r.put PROVE NoneAdded(q)
  <2>1. reply'[q] = reply[q]
    BY <1>4 DEF CommitStore, Answer, TypeOK
  <2> QED BY <1>1, <2>1, SamePlaceAddsNone
<1>5. ASSUME NEW f \in Followers, f # r.to, HasCommitted(r.put, f)'
      PROVE  HasCommitted(r.put, f)
  <2>1. CASE r.live
    <3>1. follower[r.put] = r.to
      BY <2>1 DEF CallsMatch
    <3> QED BY <1>1, <1>5, <3>1 DEF HasCommitted
  <2>2. CASE ~r.live
    <3>1. reply' = reply
      BY <2>2 DEF CommitStore, Answer
    <3> QED BY <1>1, <1>5, <3>1 DEF HasCommitted
  <2> QED BY <2>1, <2>2
<1>6. ASSUME NEW f \in Followers
      PROVE  /\ IsFiniteSet(CommitsAt(f)')
             /\ Cardinality(CommitsAt(f)') <= height'[f]
  <2>1. height[f] \in Nat
    BY ConstantsAssumption DEF TypeOK
  <2>2. IsFiniteSet(CommitsAt(f)) /\ Cardinality(CommitsAt(f)) <= height[f]
    BY DEF CommitsCounted
  <2>3. CASE f = r.to
    <3>1. CommitsAt(f)' \subseteq CommitsAt(f) \cup {r.put}
      BY <1>4 DEF CommitsAt, NoneAdded
    <3>2. height'[f] = height[f] + 1
      BY <1>2, <1>3, <2>3, ConstantsAssumption DEF TypeOK
    <3>3. /\ IsFiniteSet(CommitsAt(f)')
          /\ Cardinality(CommitsAt(f)') <= height[f] + 1
      BY <2>1, <2>2, <3>1, CountBounds
    <3> QED BY <3>2, <3>3
  <2>4. CASE f # r.to
    <3>1. CommitsAt(f)' \subseteq CommitsAt(f)
      BY <1>4, <1>5, <2>4 DEF CommitsAt, NoneAdded
    <3>2. height'[f] = height[f]
      BY <1>2, <1>3, <2>4, ConstantsAssumption DEF TypeOK
    <3> QED BY <2>1, <2>2, <3>1, <3>2, CountBounds
  <2> QED BY <2>3, <2>4
<1>7. PersistAtFirst'
  BY <1>1 DEF CommitsCounted, PersistAtFirst
<1> QED BY <1>6, <1>7 DEF CommitsCounted

\* The other steps of a handler.
LEMMA HandleCounts ==
  ASSUME TypeOK, CallsMatch, CommitsCounted, NEW r \in net, Handle(r)
  PROVE  CommitsCounted'
<1>1. CASE CommitStore(r)
  BY <1>1, CommitStoreCounts
<1>2. CASE \/ ProposeReset(r) \/ ProposeStore(r) \/ CommitNote(r)
           \/ CommitLookup(r) \/ CommitMissing(r)
  <2>1. UNCHANGED <<pc, follower, result, reply, height>>
    BY <1>2 DEF ProposeReset, ProposeStore, CommitNote, CommitLookup, CommitMissing, Continue
  <2>2. \A q \in Puts : NoneAdded(q)
    BY <2>1, SamePlaceAddsNone
  <2>3. PersistAtFirst'
    BY <2>1 DEF CommitsCounted, PersistAtFirst
  <2> QED BY <2>1, <2>2, <2>3, StillCounted
<1>3. CASE \/ ProposeAnswer(r) \/ PrecommitHandle(r) \/ CommitForget(r)
           \/ CommitRefused(r) \/ CommitStoreFails(r)
  <2>1. UNCHANGED <<pc, follower, result, height>>
    BY <1>3 DEF ProposeAnswer, PrecommitHandle, CommitForget, CommitRefused, CommitStoreFails
  <2>2. \E rep : Answer(r, rep) /\ (rep.type # "ACK" \/ r.kind # "commit")
    <3>1. Failed.type # "ACK" /\ Nack(0).type # "ACK"
      BY DEF Failed, Nack
    <3>2. CASE ProposeAnswer(r) \/ PrecommitHandle(r)
      <4>1. r.kind # "commit"
        BY <3>2 DEF ProposeAnswer, PrecommitHandle
      <4>2. \E rep : Answer(r, rep)
        BY <3>2 DEF ProposeAnswer, PrecommitHandle
      <4> QED BY <4>1, <4>2
    <3>3. CASE CommitForget(r) \/ CommitStoreFails(r)
      BY <3>1, <3>3 DEF CommitForget, CommitStoreFails
    <3>4. CASE CommitRefused(r)
      BY <3>1, <3>4 DEF CommitRefused
    <3> QED BY <1>3, <3>2, <3>3, <3>4
  <2>3. \A q \in Puts : NoneAdded(q)
    BY <2>1, <2>2, AnswerAddsNone
  <2>4. PersistAtFirst'
    BY <2>1 DEF CommitsCounted, PersistAtFirst
  <2> QED BY <2>1, <2>3, <2>4, StillCounted
<1> QED BY <1>1, <1>2, <1>3 DEF Handle

\* The steps of the Puts.
LEMMA PutCounts ==
  ASSUME TypeOK, CommitsCounted, NEW p \in Puts, PutBegin(p) \/ PutStep(p) \/ PutRefused(p)
  PROVE  CommitsCounted'
<1>1. \A q \in Puts : NoneAdded(q)
  BY OthersUntouched, OwnStepAddsNone, SamePlaceAddsNone
<1>2. height' = height \/ \E x : height' = [height EXCEPT ![Coordinator] = x]
  BY DEF PutBegin, PutRefused, PutStep, CallPropose, ProposeReturn, RaiseHeight,
     ProposeAcked, CallPrecommit, PrecommitReturn, PersistLookup, PersistMissing,
     PersistStore, PersistFails, CallCommit, CommitReturn, IncreaseHeight, Finish
<1>3. \A f \in Followers : height'[f] = height[f]
  BY <1>2, ConstantsAssumption DEF TypeOK
<1>4. pc'[p] \in {"persist", "save"} => follower'[p] = 1
  <2>1. CASE PrecommitReturn(p)
    BY <2>1 DEF TypeOK, PrecommitReturn, NextFollower, Return, Goto
  <2>2. CASE PersistLookup(p)
    BY <2>2 DEF TypeOK, CommitsCounted, PersistAtFirst, PersistLookup, Goto
  <2>3. CASE ~PrecommitReturn(p) /\ ~PersistLookup(p)
    <3>1. pc'[p] \notin {"persist", "save"}
      BY <2>3 DEF TypeOK, PutBegin, PutRefused, PutStep, CallPropose, ProposeReturn,
         ProposeAgain, RaiseHeight, ProposeAcked, CallPrecommit, PersistMissing,
         PersistStore, PersistFails, CallCommit, CommitReturn, IncreaseHeight, Finish,
         NextFollower, Return, Goto
    <3> QED BY <3>1
  <2> QED BY <2>1, <2>2, <2>3
<1>5. PersistAtFirst'
  BY <1>4, OthersUntouched DEF CommitsCounted, PersistAtFirst
<1> QED BY <1>1, <1>3, <1>5, StillCounted

\* The end of the coordinator's process: the Puts that were running count no more.
LEMMA DieCounts ==
  ASSUME TypeOK, CommitsCounted, Die, \A f \in Followers : height'[f] = height[f]
  PROVE  CommitsCounted'
<1>1. ASSUME NEW q \in Puts PROVE NoneAdded(q)
  BY DEF Die, NoneAdded, HasCommitted, Active, Waiting
<1>2. PersistAtFirst'
  BY DEF Die, CommitsCounted, PersistAtFirst, Active
<1> QED BY <1>1, <1>2, StillCounted

\* The environment, as long as nobody restarts without being told to stop.
LEMMA EnvironmentCounts ==
  ASSUME TypeOK, CallsMatch, CommitsCounted, MaxRestarts = 0,
         (\E t \in timers : Autocommit(t)) \/ Environment
  PROVE  CommitsCounted'
<1>1. CASE \/ \E t \in timers : Autocommit(t)
           \/ \E p \in Puts : CtxEnds(p)
           \/ Stop \/ StartAgain
  <2>1. UNCHANGED <<pc, follower, result, reply>>
    BY <1>1 DEF Autocommit, CtxEnds, Stop, StartAgain
  <2>2. height' = height \/ \E x : height' = [height EXCEPT ![Coordinator] = x]
    BY <1>1 DEF Autocommit, CtxEnds, Stop, StartAgain
  <2>3. \A f \in Followers : height'[f] = height[f]
    BY <2>2, ConstantsAssumption DEF TypeOK
  <2>4. \A q \in Puts : NoneAdded(q)
    BY <2>1, SamePlaceAddsNone
  <2>5. PersistAtFirst'
    BY <2>1 DEF CommitsCounted, PersistAtFirst
  <2> QED BY <2>3, <2>4, <2>5, StillCounted
<1>2. ASSUME NEW p \in Puts, LoseReply(p) PROVE CommitsCounted'
  <2>1. UNCHANGED <<pc, follower, result, height>> /\ reply' = [reply EXCEPT ![p] = Failed]
    BY <1>2 DEF LoseReply
  <2>2. \A q \in Puts : reply'[q] = reply[q] \/ reply'[q].type # "ACK"
    BY <2>1 DEF TypeOK, Failed
  <2>3. \A q \in Puts : NoneAdded(q)
    BY <2>1, <2>2, SamePlaceAddsNone
  <2>4. PersistAtFirst'
    BY <2>1 DEF CommitsCounted, PersistAtFirst
  <2> QED BY <2>1, <2>3, <2>4, StillCounted
<1>3. ASSUME NEW r \in net, LoseRequest(r) \/ Abandon(r) PROVE CommitsCounted'
  <2>1. UNCHANGED <<pc, follower, result, height>>
    BY <1>3 DEF LoseRequest, Abandon
  <2>2. reply' = reply \/ reply' = [reply EXCEPT ![r.put] = Failed]
    BY <1>3 DEF LoseRequest, Abandon, Answer
  <2>3. \A q \in Puts : reply'[q] = reply[q] \/ reply'[q].type # "ACK"
    BY <2>2 DEF TypeOK, Failed
  <2>4. \A q \in Puts : NoneAdded(q)
    BY <2>1, <2>3, SamePlaceAddsNone
  <2>5. PersistAtFirst'
    BY <2>1 DEF CommitsCounted, PersistAtFirst
  <2> QED BY <2>1, <2>4, <2>5, StillCounted
<1>4. ~(restarts < MaxRestarts)
  BY DEF TypeOK
<1> QED
  BY <1>1, <1>2, <1>3, <1>4 DEF Environment, RestartFollower, StopCoordinator,
     RestartCoordinator

\* The inductive step.
LEMMA NextCounts ==
  MaxRestarts = 0 /\ TypeOK /\ CallsMatch /\ CommitsCounted /\ [Next]_vars => CommitsCounted'
<1> SUFFICES ASSUME MaxRestarts = 0, TypeOK, CallsMatch, CommitsCounted, [Next]_vars
             PROVE  CommitsCounted'
  OBVIOUS
<1>1. CASE UNCHANGED vars \/ Terminated
  BY <1>1 DEF vars, Terminated, CommitsCounted, CommitsAt, HasCommitted, PersistAtFirst
<1>2. ASSUME NEW p \in Puts, Panic(p) PROVE CommitsCounted'
  BY <1>2, DieCounts DEF Panic
<1> QED
  BY <1>1, <1>2, PutCounts, HandleCounts, EnvironmentCounts DEF Next

\* At the start nothing is counted.
LEMMA InitCounts == Init => CommitsCounted
<1> SUFFICES ASSUME Init PROVE CommitsCounted
  OBVIOUS
<1>1. ASSUME NEW f \in Followers
      PROVE  IsFiniteSet(CommitsAt(f)) /\ Cardinality(CommitsAt(f)) <= height[f]
  <2>1. CommitsAt(f) = {}
    BY DEF Init, CommitsAt, HasCommitted
  <2>2. height[f] = 0
    BY ConstantsAssumption DEF Init
  <2> QED BY <2>1, <2>2, FS_EmptySet
<1>2. PersistAtFirst
  BY DEF Init, PersistAtFirst
<1> QED BY <1>1, <1>2 DEF CommitsCounted

\* A follower's height is at least the number of acknowledged Puts, for any number
\* of Puts and of followers, however they interleave and whatever fails, as long as
\* no node dies and forgets its height: no Put is acknowledged without a commit of
\* its own at every follower.
THEOREM EveryAckHasItsCommit == Spec => []HeightCountsAcks
<1>1. TypeOK /\ CommitsCounted => HeightCountsAcks
  <2> SUFFICES ASSUME TypeOK, CommitsCounted, NEW f \in Followers
               PROVE  height[f] >= Cardinality({p \in Puts : result[p] = "ACK"})
    BY DEF HeightCountsAcks
  <2> DEFINE acked == {p \in Puts : result[p] = "ACK"}
  <2>1. acked \subseteq CommitsAt(f)
    BY DEF CommitsAt, HasCommitted
  <2>2. IsFiniteSet(CommitsAt(f)) /\ Cardinality(CommitsAt(f)) <= height[f]
    BY DEF CommitsCounted
  <2>3. height[f] \in Nat
    BY ConstantsAssumption DEF TypeOK
  <2> HIDE DEF acked
  <2>4. IsFiniteSet(acked) /\ Cardinality(acked) <= height[f]
    BY <2>1, <2>2, <2>3, CountBounds
  <2>5. Cardinality(acked) \in Nat
    BY <2>4, FS_CardinalityType
  <2> QED BY <2>3, <2>4, <2>5 DEF acked
<1>2. MaxRestarts # 0 => HeightCountsAcks
  BY DEF HeightCountsAcks
<1>3. CASE MaxRestarts = 0
  <2>1. TypeOK /\ CallsMatch /\ CommitsCounted /\ [Next]_vars => CommitsCounted'
    BY <1>3, NextCounts
  <2> QED
    BY <1>1, <2>1, InitCounts, TypeCorrect, AnswersNeverMistaken, PTL DEF Spec
<1>4. CASE MaxRestarts # 0
  <2>1. HeightCountsAcks
    BY <1>2, <1>4
  <2> QED BY <2>1, PTL
<1> QED BY <1>3, <1>4

=============================================================================
