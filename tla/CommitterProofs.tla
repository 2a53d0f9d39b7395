-------------------------- MODULE CommitterProofs --------------------------
(***************************************************************************)
(* What holds in every environment - any number of followers and Puts, any *)
(* faults, any number of restarts: type correctness, and what the other    *)
(* proofs need to know of the calls.                                       *)
(***************************************************************************)
EXTENDS CommitterProperties, TLAPS

USE DEF Coordinator, Followers, Nodes, TWO_PHASE, THREE_PHASE, coordVars,
        followerVars, envVars

\* The messages and the tables that the actions build have their types.
LEMMA MessageTypes ==
  /\ NoReply \in Reply /\ Failed \in Reply
  /\ \A i \in Nat : Ack(i) \in Reply /\ Nack(i) \in Reply
BY DEF NoReply, Failed, Ack, Nack, Reply

\* Updates of a cache keep its type.
LEMMA CacheTypes ==
  ASSUME NEW c, NEW i \in Nat, NEW p \in Puts,
         DOMAIN c \subseteq Nat, \A j \in DOMAIN c : c[j] \in Puts
  PROVE  /\ DOMAIN CacheSet(c, i, p) \subseteq Nat
         /\ \A j \in DOMAIN CacheSet(c, i, p) : CacheSet(c, i, p)[j] \in Puts
         /\ DOMAIN CacheDelete(c, i) \subseteq Nat
         /\ \A j \in DOMAIN CacheDelete(c, i) : CacheDelete(c, i)[j] \in Puts
         /\ DOMAIN EmptyCache = {}
BY DEF CacheSet, CacheDelete, EmptyCache

\* The initial state is well typed.
LEMMA InitTypeOK == Init => TypeOK
BY ConstantsAssumption, MessageTypes
   DEF Init, TypeOK, EmptyCache, NoReply, Reply, EmptyTrace, Trace

\* Captured events keep the type of the trace.
LEMMA TraceTypes ==
  /\ EmptyTrace \in Trace
  /\ \A p \in Puts : TypeOK /\ (CaptureInitial(p) \/ Capture(p)) => monitor' \in Trace
BY DEF EmptyTrace, Trace, TypeOK, CaptureInitial, Capture

\* The places a Put can be at.
Labels == Active \cup {"idle", "done"}

\* The labels the actions of Put jump to.
LEMMA LabelTypes ==
  {"propose", "proposing", "raise", "voted", "precommit", "precommitting",
   "persist", "save", "commit", "committing", "finish", "check", "done", "idle"}
    \subseteq Labels
BY DEF Labels, Active, Waiting

\* What a handler may write into its request.
LEMMA RequestTypes ==
  ASSUME NEW r \in Request
  PROVE  /\ r.put \in Puts /\ r.to \in Followers /\ r.index \in Nat
         /\ r.vote \in {"none", "ACK", "NACK"}
         /\ r.entry \in Puts \cup {None}
         /\ \A g \in {"sent", "reset", "stored", "noted", "found", "missing"} :
              /\ [r EXCEPT !.stage = g] \in Request
              /\ \A v \in {"ACK", "NACK"} :
                   [r EXCEPT !.stage = g, !.vote = v] \in Request
              /\ \A e \in Puts :
                   [r EXCEPT !.stage = g, !.entry = e] \in Request
         /\ [r EXCEPT !.live = FALSE] \in Request
BY DEF Request

\* The pieces the actions of Put are made of keep the types.
LEMMA CallTypes ==
  ASSUME TypeOK, NEW p \in Puts, NEW kind \in {"propose", "precommit", "commit"},
         Call(p, kind)
  PROVE  reply' \in [Puts -> Reply] /\ net' \subseteq Request
<1> DEFINE m == [put |-> p, to |-> follower[p], kind |-> kind,
                 index |-> height[Coordinator], stage |-> "sent",
                 vote |-> "none", entry |-> None, live |-> TRUE]
<1>1. m \in Request
  <2>1. follower[p] \in Followers /\ height[Coordinator] \in Nat
    BY ConstantsAssumption DEF TypeOK
  <2> QED
    BY <2>1 DEF Request
<1>2. net' \subseteq net \cup {m}
  BY DEF Call
<1>3. reply' \in [Puts -> Reply]
  BY MessageTypes DEF Call, TypeOK
<1> QED
  BY <1>1, <1>2, <1>3 DEF TypeOK

\* A jump keeps pc in its type ...
LEMMA GotoTypes ==
  ASSUME TypeOK, NEW p \in Puts, NEW label \in Labels, Goto(p, label)
  PROVE  pc' \in [Puts -> Labels]
BY DEF Goto, TypeOK, Labels

\* ... so does a return ...
LEMMA ReturnTypes ==
  ASSUME TypeOK, NEW p \in Puts, NEW r \in {"ACK", "NACK", "error"}, Return(p, r)
  PROVE  /\ pc' \in [Puts -> Labels]
         /\ result' \in [Puts -> {"none", "ACK", "NACK", "error"}]
         /\ UNCHANGED <<follower, msg>>
BY GotoTypes, LabelTypes DEF Return, TypeOK

\* ... and a turn of the loop, which stays within s.Followers.
LEMMA NextFollowerTypes ==
  ASSUME TypeOK, NEW p \in Puts, NEW again \in Labels, NEW after \in Labels,
         NextFollower(p, again, after)
  PROVE  /\ pc' \in [Puts -> Labels]
         /\ follower' \in [Puts -> Followers]
         /\ UNCHANGED <<msg, result>>
<1>1. CASE follower[p] < N
  <2>1. Goto(p, again)
    BY <1>1 DEF NextFollower
  <2>2. follower' = [follower EXCEPT ![p] = @ + 1] /\ follower[p] + 1 \in Followers
    BY <1>1, ConstantsAssumption DEF NextFollower, TypeOK
  <2> QED
    BY <2>1, <2>2, GotoTypes DEF NextFollower, TypeOK
<1>2. CASE ~(follower[p] < N)
  <2>1. Goto(p, after)
    BY <1>2 DEF NextFollower
  <2>2. follower' = [follower EXCEPT ![p] = 1] /\ 1 \in Followers
    BY <1>2, ConstantsAssumption DEF NextFollower, TypeOK
  <2> QED
    BY <2>1, <2>2, GotoTypes DEF NextFollower, TypeOK
<1> QED
  BY <1>1, <1>2

\* Steps of the coordinator keep the types.
LEMMA PutTypeOK ==
  ASSUME TypeOK, NEW p \in Puts, PutBegin(p) \/ PutStep(p) \/ PutRefused(p)
  PROVE  TypeOK'
<1> USE ConstantsAssumption, LabelTypes DEF TypeOK
<1>0. TypeOK <=> TypeOK /\ pc \in [Puts -> Labels]
  BY DEF Labels
<1>1. CASE PutBegin(p)
  <2>1. pc' \in [Puts -> Labels]
    BY <1>1, GotoTypes DEF PutBegin
  <2>2. monitor' \in Trace
    BY <1>1, TraceTypes DEF PutBegin
  <2> QED
    BY <2>1, <2>2, <1>1 DEF PutBegin, Labels
<1>2. CASE CallPropose(p)
  <2>1. pc' \in [Puts -> Labels]
    BY <1>2, GotoTypes DEF CallPropose
  <2>2. reply' \in [Puts -> Reply] /\ net' \subseteq Request
    BY <1>2, CallTypes DEF CallPropose
  <2>3. monitor' \in Trace
    BY <1>2, TraceTypes DEF CallPropose
  <2> QED
    BY <2>1, <2>2, <2>3, <1>2 DEF CallPropose, Labels
<1>3. CASE ProposeReturn(p)
  <2>1. pc' \in [Puts -> Labels]
    BY <1>3, GotoTypes DEF ProposeReturn, ProposeAgain
  <2> QED
    BY <2>1, <1>3 DEF ProposeReturn, Labels
<1>4. CASE RaiseHeight(p)
  <2>1. pc' \in [Puts -> Labels]
    BY <1>4, GotoTypes DEF RaiseHeight, ProposeAgain
  <2>2. reply[p].index \in Nat
    BY DEF Reply
  <2> QED
    BY <2>1, <2>2, <1>4 DEF RaiseHeight, Labels
<1>5. CASE ProposeAcked(p)
  <2>1. pc' \in [Puts -> Labels] /\ follower' \in [Puts -> Followers]
        /\ UNCHANGED <<msg, result>>
    BY <1>5, NextFollowerTypes DEF ProposeAcked
  <2>2. nodeCache' = [nodeCache EXCEPT ![0] = CacheSet(nodeCache[0], height[0], p)]
    BY <1>5 DEF ProposeAcked
  <2>3. /\ DOMAIN nodeCache' = Nodes
        /\ \A n \in Nodes : /\ DOMAIN nodeCache'[n] \subseteq Nat
                            /\ \A i \in DOMAIN nodeCache'[n] : nodeCache'[n][i] \in Puts
    BY <2>2, CacheTypes
  <2>4. monitor' \in Trace
    BY <1>5, TraceTypes DEF ProposeAcked
  <2> QED
    BY <2>1, <2>3, <2>4, <1>5 DEF ProposeAcked, Labels
<1>6. CASE CallPrecommit(p)
  <2>1. pc' \in [Puts -> Labels]
    BY <1>6, GotoTypes DEF CallPrecommit
  <2>2. reply' \in [Puts -> Reply] /\ net' \subseteq Request
    BY <1>6, CallTypes DEF CallPrecommit
  <2> QED
    BY <2>1, <2>2, <1>6 DEF CallPrecommit, Labels
<1>7. CASE PrecommitReturn(p)
  <2>1. /\ pc' \in [Puts -> Labels] /\ follower' \in [Puts -> Followers]
        /\ msg' = msg /\ result' \in [Puts -> {"none", "ACK", "NACK", "error"}]
    BY <1>7, NextFollowerTypes, ReturnTypes DEF PrecommitReturn
  <2> QED
    BY <2>1, <1>7 DEF PrecommitReturn, Labels
<1>8. CASE PersistLookup(p)
  <2>1. pc' \in [Puts -> Labels]
    BY <1>8, GotoTypes DEF PersistLookup
  <2>2. nodeCache[0][height[0]] \in Puts
    BY <1>8 DEF PersistLookup, CacheHas
  <2> QED
    BY <2>1, <2>2, <1>8 DEF PersistLookup, Labels
<1>9. CASE PersistMissing(p)
  BY <1>9, ReturnTypes DEF PersistMissing, Labels
<1>10. CASE PersistStore(p)
  <2>1. pc' \in [Puts -> Labels]
    BY <1>10, GotoTypes DEF PersistStore
  <2>2. db' \in [Nodes -> [Keys -> Puts \cup {None}]]
    BY <1>10 DEF PersistStore, DBPut
  <2> QED
    BY <2>1, <2>2, <1>10 DEF PersistStore, Labels
<1>11. CASE PersistFails(p)
  BY <1>11, ReturnTypes DEF PersistFails, Labels
<1>12. CASE CallCommit(p)
  <2>1. pc' \in [Puts -> Labels]
    BY <1>12, GotoTypes DEF CallCommit
  <2>2. reply' \in [Puts -> Reply] /\ net' \subseteq Request
    BY <1>12, CallTypes DEF CallCommit
  <2>3. monitor' \in Trace
    BY <1>12, TraceTypes DEF CallCommit
  <2> QED
    BY <2>1, <2>2, <2>3, <1>12 DEF CallCommit, Labels
<1>13. CASE CommitReturn(p)
  <2>1. /\ pc' \in [Puts -> Labels] /\ follower' \in [Puts -> Followers]
        /\ msg' = msg /\ result' \in [Puts -> {"none", "ACK", "NACK", "error"}]
    BY <1>13, NextFollowerTypes, ReturnTypes DEF CommitReturn
  <2>2. monitor' \in Trace
    BY <1>13, TraceTypes DEF CommitReturn
  <2> QED
    BY <2>1, <2>2, <1>13 DEF CommitReturn, Labels
<1>14. CASE Finish(p)
  <2>1. /\ pc' \in [Puts -> Labels] /\ follower' = follower /\ msg' = msg
        /\ result' \in [Puts -> {"none", "ACK", "NACK", "error"}]
    BY <1>14, ReturnTypes DEF Finish
  <2>2. monitor' \in Trace
    BY <1>14, TraceTypes DEF Finish
  <2>3. UNCHANGED <<height, nodeCache, db, cancelCommitOnHeight, timers, reply, net,
                    ctxDone, restarts, process>>
    BY <1>14 DEF Finish
  <2> QED
    BY <2>1, <2>2, <2>3 DEF Labels
<1>15. CASE PutRefused(p)
  BY <1>15, ReturnTypes DEF PutRefused, Labels
<1>16. CASE IncreaseHeight(p)
  <2>1. pc' \in [Puts -> Labels]
    BY <1>16, GotoTypes DEF IncreaseHeight
  <2>2. height' \in [Nodes -> Nat]
    <3>1. height[Coordinator] + 1 \in Nat
      BY DEF Coordinator, Nodes
    <3>2. height' = [height EXCEPT ![Coordinator] = height[Coordinator] + 1]
      BY <1>16 DEF IncreaseHeight
    <3> QED
      BY <3>1, <3>2
  <2> QED
    BY <2>1, <2>2, <1>16 DEF IncreaseHeight, Labels
<1> QED
  BY <1>1, <1>2, <1>3, <1>4, <1>5, <1>6, <1>7, <1>8, <1>9, <1>10, <1>11,
     <1>12, <1>13, <1>14, <1>15, <1>16 DEF PutStep

\* The end of the coordinator's process keeps the types.
LEMMA DieTypes ==
  ASSUME TypeOK, Die
  PROVE  /\ pc' \in [Puts -> Active \cup {"idle", "done"}]
         /\ result' \in [Puts -> {"none", "ACK", "NACK", "error"}]
         /\ net' \subseteq Request
         /\ UNCHANGED <<follower, msg, reply>>
<1>1. net' \subseteq Request
  <2>1. \A r \in net : [r EXCEPT !.live = FALSE] \in Request
    BY RequestTypes DEF TypeOK
  <2>2. net' = {[r EXCEPT !.live = FALSE] : r \in net}
    BY DEF Die
  <2> QED
    BY <2>1, <2>2
<1> QED
  BY <1>1 DEF Die, TypeOK

\* So does a panic of the monitor.
LEMMA PanicTypeOK ==
  ASSUME TypeOK, NEW p \in Puts, Panic(p)
  PROVE  TypeOK'
<1>1. /\ UNCHANGED <<height, nodeCache, db, cancelCommitOnHeight, timers, monitor, ctxDone,
                     restarts>>
      /\ process' \in {"up", "down", "panicked"}
  BY DEF Panic
<1>2. Die
  BY DEF Panic
<1> QED
  BY <1>1, <1>2, DieTypes DEF TypeOK

\* So do the pieces the handlers are made of ...
LEMMA AnswerTypes ==
  ASSUME TypeOK, NEW r \in net, NEW rep \in Reply, Answer(r, rep)
  PROVE  net' \subseteq Request /\ reply' \in [Puts -> Reply]
BY RequestTypes DEF Answer, TypeOK

\* (both outcomes of a handler's step)
LEMMA ContinueTypes ==
  ASSUME TypeOK, NEW r \in net, NEW r2 \in Request, Continue(r, r2)
  PROVE  net' \subseteq Request /\ reply' = reply
BY DEF Continue, TypeOK

\* ... and the handlers themselves.
LEMMA HandleTypeOK ==
  ASSUME TypeOK, NEW r \in net, Handle(r)
  PROVE  TypeOK'
<1> USE ConstantsAssumption, MessageTypes DEF TypeOK
<1>0. /\ r \in Request /\ r.put \in Puts /\ r.to \in Followers
      /\ r.to \in Nodes /\ r.index \in Nat
  <2>1. r \in Request
    OBVIOUS
  <2>2. r.put \in Puts /\ r.to \in Followers /\ r.index \in Nat
    BY <2>1, RequestTypes
  <2>3. Followers \subseteq Nodes
    OBVIOUS
  <2> QED
    BY <2>1, <2>2, <2>3
<1>1. CASE ProposeReset(r)
  <2>1. net' \subseteq Request /\ reply' = reply
    BY <1>0, <1>1, RequestTypes, ContinueTypes DEF ProposeReset
  <2> QED
    BY <2>1, <1>0, <1>1 DEF ProposeReset
<1>2. CASE ProposeStore(r)
  <2>1. net' \subseteq Request /\ reply' = reply
    <3>1. PICK ok \in ProposeVerdicts :
            Continue(r, [r EXCEPT !.stage = "stored",
                                  !.vote = IF ok THEN "ACK" ELSE "NACK"])
      BY <1>2 DEF ProposeStore
    <3>2. [r EXCEPT !.stage = "stored", !.vote = IF ok THEN "ACK" ELSE "NACK"]
            \in Request
      BY <1>0, RequestTypes
    <3> QED
      BY <3>1, <3>2, ContinueTypes
  <2>2. \/ nodeCache' = nodeCache
        \/ nodeCache' = [nodeCache EXCEPT ![r.to] =
                           CacheSet(nodeCache[r.to], r.index, r.put)]
    BY <1>2 DEF ProposeStore
  <2>3. /\ DOMAIN nodeCache' = Nodes
        /\ \A n \in Nodes : /\ DOMAIN nodeCache'[n] \subseteq Nat
                            /\ \A i \in DOMAIN nodeCache'[n] : nodeCache'[n][i] \in Puts
    <3> DEFINE c == CacheSet(nodeCache[r.to], r.index, r.put)
    <3>1. DOMAIN c \subseteq Nat /\ \A i \in DOMAIN c : c[i] \in Puts
      BY <1>0, CacheTypes
    <3> HIDE DEF c
    <3>2. nodeCache' = nodeCache \/ nodeCache' = [nodeCache EXCEPT ![r.to] = c]
      BY <2>2 DEF c
    <3> QED
      BY <1>0, <3>1, <3>2
  <2> QED
    BY <2>1, <2>3, <1>2 DEF ProposeStore
<1>3. CASE ProposeAnswer(r)
  <2> DEFINE rep == IF height[r.to] > r.index THEN Nack(height[r.to])
                                              ELSE [type |-> r.vote, index |-> r.index]
  <2>1. rep \in Reply
    BY <1>0, RequestTypes DEF Reply, Nack
  <2>2. Answer(r, rep)
    BY <1>3 DEF ProposeAnswer
  <2> HIDE DEF rep
  <2>3. net' \subseteq Request /\ reply' \in [Puts -> Reply]
    BY <2>1, <2>2, AnswerTypes
  <2> QED
    BY <2>3, <1>3 DEF ProposeAnswer
<1>4. CASE PrecommitHandle(r)
  <2>1. net' \subseteq Request /\ reply' \in [Puts -> Reply]
    BY <1>4, AnswerTypes DEF PrecommitHandle
  <2>2. timers' \subseteq Timer
    BY <1>0, <1>4 DEF PrecommitHandle, Timer
  <2> QED
    BY <2>1, <2>2, <1>4 DEF PrecommitHandle
<1>5. CASE CommitNote(r)
  <2>1. net' \subseteq Request /\ reply' = reply
    BY <1>0, <1>5, RequestTypes, ContinueTypes DEF CommitNote
  <2> QED
    BY <2>1, <1>0, <1>5 DEF CommitNote
<1>6. CASE CommitLookup(r)
  <2>1. nodeCache[r.to][r.index] \in Puts
    BY <1>0, <1>6 DEF CommitLookup, CacheHas
  <2>2. net' \subseteq Request /\ reply' = reply
    BY <1>0, <1>6, <2>1, RequestTypes, ContinueTypes DEF CommitLookup
  <2> QED
    BY <2>2, <1>6 DEF CommitLookup
<1>7. CASE CommitMissing(r)
  <2>1. net' \subseteq Request /\ reply' = reply
    BY <1>0, <1>7, RequestTypes, ContinueTypes DEF CommitMissing
  <2> QED
    BY <2>1, <1>7 DEF CommitMissing
<1>8. CASE CommitRefused(r)
  <2>1. net' \subseteq Request /\ reply' \in [Puts -> Reply]
    BY <1>8, AnswerTypes DEF CommitRefused
  <2>2. nodeCache' = [nodeCache EXCEPT ![r.to] = CacheDelete(nodeCache[r.to], r.index)]
    BY <1>8 DEF CommitRefused
  <2>3. /\ DOMAIN nodeCache' = Nodes
        /\ \A n \in Nodes : /\ DOMAIN nodeCache'[n] \subseteq Nat
                            /\ \A i \in DOMAIN nodeCache'[n] : nodeCache'[n][i] \in Puts
    BY <1>0, <2>2 DEF CacheDelete
  <2> QED
    BY <2>1, <2>3, <1>8 DEF CommitRefused
<1>11. CASE CommitForget(r)
  <2>1. net' \subseteq Request /\ reply' \in [Puts -> Reply]
    BY <1>11, AnswerTypes DEF CommitForget
  <2>2. nodeCache' = [nodeCache EXCEPT ![r.to] = CacheDelete(nodeCache[r.to], r.index)]
    BY <1>11 DEF CommitForget
  <2>3. /\ DOMAIN nodeCache' = Nodes
        /\ \A n \in Nodes : /\ DOMAIN nodeCache'[n] \subseteq Nat
                            /\ \A i \in DOMAIN nodeCache'[n] : nodeCache'[n][i] \in Puts
    BY <1>0, <2>2 DEF CacheDelete
  <2> QED
    BY <2>1, <2>3, <1>11 DEF CommitForget
<1>9. CASE CommitStore(r)
  <2>1. net' \subseteq Request /\ reply' \in [Puts -> Reply]
    BY <1>9, AnswerTypes DEF CommitStore
  <2>2. db' \in [Nodes -> [Keys -> Puts \cup {None}]]
    BY <1>0, <1>9, RequestTypes DEF CommitStore, DBPut
  <2>3. height' \in [Nodes -> Nat]
    BY <1>0, <1>9 DEF CommitStore
  <2> QED
    BY <2>1, <2>2, <2>3, <1>9 DEF CommitStore
<1>10. CASE CommitStoreFails(r)
  BY <1>10, AnswerTypes DEF CommitStoreFails
<1> QED
  BY <1>1, <1>2, <1>3, <1>4, <1>5, <1>6, <1>7, <1>8, <1>9, <1>10, <1>11
  DEF Handle

\* Timers, faults and restarts keep the types.
LEMMA EnvironmentTypeOK ==
  ASSUME TypeOK, (\E t \in timers : Autocommit(t)) \/ Environment
  PROVE  TypeOK'
<1> USE ConstantsAssumption, MessageTypes DEF TypeOK
<1>1. ASSUME NEW t \in timers, Autocommit(t) PROVE TypeOK'
  BY <1>1 DEF Autocommit
<1>2. ASSUME NEW r \in net, LoseRequest(r) PROVE TypeOK'
  BY <1>2, AnswerTypes DEF LoseRequest
<1>3. ASSUME NEW r \in net, Abandon(r) PROVE TypeOK'
  BY <1>3, RequestTypes DEF Abandon
<1>4. ASSUME NEW p \in Puts, LoseReply(p) PROVE TypeOK'
  BY <1>4 DEF LoseReply
<1>5. ASSUME NEW p \in Puts, CtxEnds(p) PROVE TypeOK'
  BY <1>5 DEF CtxEnds
<1>6. ASSUME NEW f \in Followers, RestartFollower(f) PROVE TypeOK'
  <2>1. reply' \in [Puts -> Reply]
    BY <1>6 DEF RestartFollower
  <2> QED
    BY <1>6, <2>1 DEF RestartFollower, EmptyCache
<1>7. CASE StopCoordinator
  BY <1>7, DieTypes DEF StopCoordinator
<1>8. CASE RestartCoordinator
  BY <1>8, DieTypes, TraceTypes DEF RestartCoordinator, EmptyCache
<1>9. CASE Stop
  BY <1>9 DEF Stop
<1>10. CASE StartAgain
  BY <1>10, TraceTypes DEF StartAgain, EmptyCache
<1> QED
  BY <1>1, <1>2, <1>3, <1>4, <1>5, <1>6, <1>7, <1>8, <1>9, <1>10 DEF Environment

\* The inductive step.
LEMMA NextTypeOK == TypeOK /\ [Next]_vars => TypeOK'
<1> SUFFICES ASSUME TypeOK, [Next]_vars PROVE TypeOK'
  OBVIOUS
<1>1. CASE UNCHANGED vars
  BY <1>1 DEF vars, TypeOK
<1>2. CASE Terminated
  BY <1>2 DEF Terminated, vars, TypeOK
<1> QED
  BY <1>1, <1>2, PutTypeOK, PanicTypeOK, HandleTypeOK, EnvironmentTypeOK DEF Next

\* In every environment the state of the nodes, of the Puts and of the messages
\* keeps its type: in particular no loop of Put runs past the last follower.
THEOREM TypeCorrect == Spec => []TypeOK
BY InitTypeOK, NextTypeOK, PTL DEF Spec

(***************************************************************************)
(* The calls: that Go's calls are synchronous and gRPC tells answers apart *)
(* is how Call, Answer and Abandon were written; the proofs use it in this *)
(* form.                                                                   *)
(***************************************************************************)

\* The kind of call a Put waits for at each waiting label.
KindAt(label) == CASE label = "proposing"     -> "propose"
                   [] label = "precommitting" -> "precommit"
                   [] label = "committing"    -> "commit"

\* A request whose answer still counts is the one its Put waits for.
CallsMatch ==
  \A r \in net : r.live =>
    /\ pc[r.put] \in Waiting
    /\ r.kind = KindAt(pc[r.put])
    /\ r.to = follower[r.put]
    /\ reply[r.put] = NoReply
    /\ \A s \in net : s.live /\ s.put = r.put => s = r

\* A Put that is not waiting, or has its answer, has no live request.
LEMMA NoLiveRequest ==
  ASSUME CallsMatch, NEW p \in Puts, pc[p] \notin Waiting \/ reply[p] # NoReply,
         NEW r \in net, r.live
  PROVE  r.put # p
BY DEF CallsMatch

\* Put p moves on without sending anything: the calls of the others are as before.
LEMMA MoveOn ==
  ASSUME TypeOK, CallsMatch, NEW p \in Puts,
         pc[p] \notin Waiting \/ reply[p] # NoReply,
         NEW label, pc' = [pc EXCEPT ![p] = label],
         NEW k, follower' = [follower EXCEPT ![p] = k],
         UNCHANGED <<reply, net>>
  PROVE  CallsMatch'
<1> SUFFICES ASSUME NEW r \in net, r.live
             PROVE  /\ pc[r.put]' \in Waiting
                    /\ r.kind = KindAt(pc[r.put]')
                    /\ r.to = follower[r.put]'
                    /\ reply[r.put] = NoReply
                    /\ \A s \in net : s.live /\ s.put = r.put => s = r
  BY DEF CallsMatch
<1>1. r.put \in Puts /\ r.put # p
  BY NoLiveRequest, RequestTypes DEF TypeOK
<1>2. pc[r.put]' = pc[r.put] /\ follower[r.put]' = follower[r.put]
  BY <1>1 DEF TypeOK
<1> QED
  BY <1>2 DEF CallsMatch

\* Put p makes a call.
LEMMA MakeCall ==
  ASSUME TypeOK, CallsMatch, NEW p \in Puts, pc[p] \notin Waiting,
         NEW label \in Waiting, NEW kind, kind = KindAt(label),
         Call(p, kind), Goto(p, label), UNCHANGED follower
  PROVE  CallsMatch'
<1> DEFINE m == [put |-> p, to |-> follower[p], kind |-> kind,
                 index |-> height[Coordinator], stage |-> "sent",
                 vote |-> "none", entry |-> None, live |-> TRUE]
<1>1. ASSUME NEW r \in net, r.live PROVE r.put \in Puts /\ r.put # p
  BY <1>1, NoLiveRequest, RequestTypes DEF TypeOK
<1>2. \A q \in Puts : q # p => pc[q]' = pc[q] /\ reply[q]' = reply[q]
  BY DEF Goto, Call, TypeOK
<1>3. CASE p \in ctxDone
  <2>1. net' = net
    BY <1>3 DEF Call
  <2> QED
    BY <1>1, <1>2, <2>1 DEF CallsMatch
<1>4. CASE p \notin ctxDone
  <2>1. net' = net \cup {m} /\ reply[p]' = NoReply /\ pc[p]' = label
    BY <1>4 DEF Call, Goto, TypeOK
  <2>2. m.put = p /\ m.live /\ m.kind = kind /\ m.to = follower[p]
    OBVIOUS
  <2> HIDE DEF m
  <2> QED
    BY <1>1, <1>2, <2>1, <2>2 DEF CallsMatch
<1> QED
  BY <1>3, <1>4

\* Request r is answered, for good or with an error.
LEMMA AnswerCall ==
  ASSUME TypeOK, CallsMatch, NEW r \in net, NEW rep, Answer(r, rep),
         UNCHANGED <<pc, follower>>
  PROVE  CallsMatch'
<1>1. \A s \in net : s.put \in Puts
  BY RequestTypes DEF TypeOK
<1>2. CASE r.live
  <2>1. \A s \in net' : s.live => s.put # r.put
    BY <1>2 DEF Answer, CallsMatch
  <2>2. \A q \in Puts : q # r.put => reply[q]' = reply[q]
    BY <1>1, <1>2 DEF Answer, TypeOK
  <2> QED
    BY <1>1, <2>1, <2>2 DEF Answer, CallsMatch
<1>3. CASE ~r.live
  BY <1>3 DEF Answer, CallsMatch
<1> QED
  BY <1>2, <1>3

\* The handler of r goes on, or r is abandoned.
LEMMA ContinueCall ==
  ASSUME TypeOK, CallsMatch, NEW r \in net, NEW r2, Continue(r, r2),
         r2.put = r.put, r2.kind = r.kind, r2.to = r.to, r2.live = r.live,
         UNCHANGED <<pc, follower>>
  PROVE  CallsMatch'
BY DEF Continue, CallsMatch

\* Steps of the coordinator.
LEMMA PutCallsMatch ==
  ASSUME TypeOK, CallsMatch, NEW p \in Puts, PutBegin(p) \/ PutStep(p) \/ PutRefused(p)
  PROVE  CallsMatch'
<1>1. CASE CallPropose(p)
  <2>1. "propose" = KindAt("proposing") /\ "proposing" \in Waiting
        /\ pc[p] \notin Waiting
    BY <1>1 DEF KindAt, Waiting, CallPropose
  <2> QED
    BY <1>1, <2>1, MakeCall DEF CallPropose
<1>2. CASE CallPrecommit(p)
  <2>1. "precommit" = KindAt("precommitting") /\ "precommitting" \in Waiting
        /\ pc[p] \notin Waiting
    BY <1>2 DEF KindAt, Waiting, CallPrecommit
  <2> QED
    BY <1>2, <2>1, MakeCall DEF CallPrecommit
<1>3. CASE CallCommit(p)
  <2>1. "commit" = KindAt("committing") /\ "committing" \in Waiting
        /\ pc[p] \notin Waiting
    BY <1>3 DEF KindAt, Waiting, CallCommit
  <2> QED
    BY <1>3, <2>1, MakeCall DEF CallCommit
<1>4. CASE ~(CallPropose(p) \/ CallPrecommit(p) \/ CallCommit(p))
  <2>1. pc[p] \notin Waiting \/ reply[p] # NoReply
    BY <1>4 DEF PutBegin, PutRefused, PutStep, ProposeReturn, RaiseHeight, ProposeAcked,
                PrecommitReturn, PersistLookup, PersistMissing, PersistStore,
                PersistFails, CommitReturn, IncreaseHeight, Finish, Waiting
  <2>2. UNCHANGED <<reply, net>>
    BY <1>4 DEF PutBegin, PutRefused, PutStep, ProposeReturn, RaiseHeight, ProposeAcked,
                PrecommitReturn, PersistLookup, PersistMissing, PersistStore,
                PersistFails, CommitReturn, IncreaseHeight, Finish
  <2>3. \E label : Goto(p, label)
    BY <1>4 DEF PutBegin, PutRefused, PutStep, ProposeReturn, RaiseHeight, ProposeAcked,
                PrecommitReturn, PersistLookup, PersistMissing, PersistStore,
                PersistFails, CommitReturn, IncreaseHeight, Finish, Return, NextFollower
  <2>4. \E k : follower' = [follower EXCEPT ![p] = k]
    <3>1. follower = [follower EXCEPT ![p] = follower[p]]
      BY DEF TypeOK
    <3> QED
      BY <1>4, <3>1
         DEF PutBegin, PutRefused, PutStep, ProposeReturn, RaiseHeight, ProposeAcked,
             PrecommitReturn, PersistLookup, PersistMissing, PersistStore,
             PersistFails, CommitReturn, IncreaseHeight, Finish, Return, NextFollower
  <2> QED
    BY <2>1, <2>2, <2>3, <2>4, MoveOn DEF Goto
<1> QED
  BY <1>1, <1>2, <1>3, <1>4

\* The end of the coordinator's process: nobody waits any more.
LEMMA DieCallsMatch ==
  ASSUME TypeOK, Die
  PROVE  CallsMatch'
<1>1. \A s \in net : s \in Request
  BY DEF TypeOK
<1>2. \A s \in net' : ~s.live
  BY <1>1 DEF Die, Request
<1> QED
  BY <1>2 DEF CallsMatch

\* Steps of the handlers.
LEMMA HandleCallsMatch ==
  ASSUME TypeOK, CallsMatch, NEW r \in net, Handle(r)
  PROVE  CallsMatch'
<1>1. UNCHANGED <<pc, follower>>
  BY DEF Handle, ProposeReset, ProposeStore, ProposeAnswer, PrecommitHandle,
         CommitNote, CommitLookup, CommitMissing, CommitForget, CommitRefused,
         CommitStore, CommitStoreFails
<1>2. \/ \E rep : Answer(r, rep)
      \/ \E r2 : Continue(r, r2) /\ r2.put = r.put /\ r2.kind = r.kind
                 /\ r2.to = r.to /\ r2.live = r.live
  <2>1. r \in Request
    BY DEF TypeOK
  <2>2. CASE ProposeReset(r)
    BY <2>1, <2>2 DEF ProposeReset, Request
  <2>3. CASE ProposeStore(r)
    <3>1. PICK ok \in ProposeVerdicts :
            Continue(r, [r EXCEPT !.stage = "stored",
                                  !.vote = IF ok THEN "ACK" ELSE "NACK"])
      BY <2>3 DEF ProposeStore
    <3> DEFINE r2 == [r EXCEPT !.stage = "stored",
                               !.vote = IF ok THEN "ACK" ELSE "NACK"]
    <3>2. r2.put = r.put /\ r2.kind = r.kind /\ r2.to = r.to /\ r2.live = r.live
      BY <2>1 DEF Request
    <3> QED
      BY <3>1, <3>2
  <2>4. CASE CommitNote(r)
    BY <2>1, <2>4 DEF CommitNote, Request
  <2>5. CASE CommitLookup(r)
    <3> DEFINE r2 == [r EXCEPT !.stage = "found",
                               !.entry = nodeCache[r.to][r.index]]
    <3>1. r2.put = r.put /\ r2.kind = r.kind /\ r2.to = r.to /\ r2.live = r.live
      BY <2>1 DEF Request
    <3>2. Continue(r, r2)
      BY <2>5 DEF CommitLookup
    <3> QED
      BY <3>1, <3>2
  <2>6. CASE CommitMissing(r)
    BY <2>1, <2>6 DEF CommitMissing, Request
  <2>7. CASE ProposeAnswer(r) \/ PrecommitHandle(r) \/ CommitForget(r)
             \/ CommitRefused(r) \/ CommitStore(r) \/ CommitStoreFails(r)
    BY <2>7 DEF ProposeAnswer, PrecommitHandle, CommitForget, CommitRefused,
                CommitStore, CommitStoreFails
  <2> QED
    BY <2>2, <2>3, <2>4, <2>5, <2>6, <2>7 DEF Handle
<1> QED
  BY <1>1, <1>2, AnswerCall, ContinueCall

\* Steps of the environment.
LEMMA EnvironmentCallsMatch ==
  ASSUME TypeOK, CallsMatch, (\E t \in timers : Autocommit(t)) \/ Environment
  PROVE  CallsMatch'
<1>0. \A s \in net : s \in Request /\ s.put \in Puts
  BY RequestTypes DEF TypeOK
<1>1. ASSUME NEW t \in timers, Autocommit(t) PROVE CallsMatch'
  BY <1>1 DEF Autocommit, CallsMatch
<1>2. ASSUME NEW r \in net, LoseRequest(r) PROVE CallsMatch'
  BY <1>2, AnswerCall DEF LoseRequest
<1>3. ASSUME NEW r \in net, Abandon(r) PROVE CallsMatch'
  <2> DEFINE z == [r EXCEPT !.live = FALSE]
  <2>1. ~z.live /\ net' = (net \ {r}) \cup {z}
    BY <1>0, <1>3 DEF Abandon, Request
  <2> HIDE DEF z
  <2>2. \A s \in net' : s.live => s \in net /\ s.put # r.put
    BY <2>1, <1>3 DEF Abandon, CallsMatch
  <2>3. \A q \in Puts : q # r.put => reply[q]' = reply[q]
    BY <1>3 DEF Abandon, TypeOK
  <2>4. UNCHANGED <<pc, follower>>
    BY <1>3 DEF Abandon
  <2> QED
    BY <1>0, <2>2, <2>3, <2>4 DEF CallsMatch
<1>4. ASSUME NEW p \in Puts, LoseReply(p) PROVE CallsMatch'
  <2>1. reply[p] # NoReply
    BY <1>4 DEF LoseReply, NoReply
  <2>2. \A s \in net : s.live => s.put # p
    BY <2>1, NoLiveRequest
  <2>3. \A q \in Puts : q # p => reply[q]' = reply[q]
    BY <1>4 DEF LoseReply, TypeOK
  <2> QED
    BY <1>0, <1>4, <2>2, <2>3 DEF LoseReply, CallsMatch
<1>5. ASSUME NEW p \in Puts, CtxEnds(p) PROVE CallsMatch'
  BY <1>5 DEF CtxEnds, CallsMatch
<1>6. ASSUME NEW f \in Followers, RestartFollower(f) PROVE CallsMatch'
  <2>1. net' = {s \in net : s.to # f} /\ UNCHANGED <<pc, follower>>
    BY <1>6 DEF RestartFollower
  <2>2. PICK lost \in SUBSET Puts :
          reply' = [p \in Puts |->
                      IF \/ \E s \in net : s.put = p /\ s.to = f /\ s.live
                         \/ p \in lost /\ reply[p] # NoReply
                        THEN Failed ELSE reply[p]]
    BY <1>6 DEF RestartFollower
  <2>3. ASSUME NEW r \in net, r.live, r.to # f PROVE reply[r.put]' = NoReply
    <3>1. reply[r.put] = NoReply
      BY <2>3 DEF CallsMatch
    <3>2. \A s \in net : s.put = r.put /\ s.live => s.to # f
      BY <2>3 DEF CallsMatch
    <3> QED
      BY <1>0, <2>2, <3>1, <3>2
  <2> QED
    BY <2>1, <2>3 DEF CallsMatch
<1>7. CASE StopCoordinator \/ RestartCoordinator
  BY <1>7, DieCallsMatch DEF StopCoordinator, RestartCoordinator
<1>8. CASE Stop \/ StartAgain
  BY <1>8 DEF Stop, StartAgain, CallsMatch
<1> QED
  BY <1>1, <1>2, <1>3, <1>4, <1>5, <1>6, <1>7, <1>8 DEF Environment

\* The inductive step.
LEMMA NextCallsMatch == TypeOK /\ CallsMatch /\ [Next]_vars => CallsMatch'
<1> SUFFICES ASSUME TypeOK, CallsMatch, [Next]_vars PROVE CallsMatch'
  OBVIOUS
<1>1. CASE UNCHANGED vars \/ Terminated
  BY <1>1 DEF vars, Terminated, CallsMatch
<1>2. ASSUME NEW p \in Puts, Panic(p) PROVE CallsMatch'
  BY <1>2, DieCallsMatch DEF Panic
<1> QED
  BY <1>1, <1>2, PutCallsMatch, HandleCallsMatch, EnvironmentCallsMatch DEF Next

\* It is an invariant, used with the others below.
LEMMA AnswersNeverMistaken == Spec => []CallsMatch
<1>1. Init => CallsMatch
  BY DEF Init, CallsMatch
<1> QED
  BY <1>1, TypeCorrect, NextCallsMatch, PTL DEF Spec

(***************************************************************************)
(* NoEarlyResult                                                           *)
(***************************************************************************)

\* What a step does to the result of a Put: nothing, or it returns.
LEMMA ResultStep ==
  ASSUME TypeOK, [Next]_vars, NEW q \in Puts
  PROVE  /\ pc[q] = "done" => pc[q]' = "done"
         /\ pc[q]' # "done" => result[q]' = result[q]
<1>1. ASSUME NEW p \in Puts, PutBegin(p) \/ PutStep(p) \/ PutRefused(p)
      PROVE  /\ pc[q] = "done" => pc[q]' = "done"
             /\ pc[q]' # "done" => result[q]' = result[q]
  <2>1. pc[p] # "done"
    BY <1>1 DEF PutBegin, PutRefused, PutStep, CallPropose, ProposeReturn, RaiseHeight,
       ProposeAcked, CallPrecommit, PrecommitReturn, PersistLookup, PersistMissing,
       PersistStore, PersistFails, CallCommit, CommitReturn, IncreaseHeight, Finish
  <2>2. \/ \E r : Return(p, r)
        \/ result' = result /\ \E label : Goto(p, label)
    BY <1>1 DEF PutBegin, PutRefused, PutStep, CallPropose, ProposeReturn, RaiseHeight,
       ProposeAcked, CallPrecommit, PrecommitReturn, PersistLookup, PersistMissing,
       PersistStore, PersistFails, CallCommit, CommitReturn, IncreaseHeight, Finish,
       NextFollower
  <2> QED
    BY <2>1, <2>2 DEF Return, Goto, TypeOK
<1>2. CASE StopCoordinator \/ RestartCoordinator \/ \E p \in Puts : Panic(p)
  BY <1>2 DEF StopCoordinator, RestartCoordinator, Panic, Die
<1>3. CASE \/ \E r \in net : Handle(r) \/ LoseRequest(r) \/ Abandon(r)
           \/ \E t \in timers : Autocommit(t)
           \/ \E p \in Puts : LoseReply(p) \/ CtxEnds(p)
           \/ \E f \in Followers : RestartFollower(f)
           \/ Stop \/ StartAgain \/ Terminated \/ UNCHANGED vars
  <2>1. UNCHANGED <<pc, result>>
    BY <1>3 DEF Handle, ProposeReset, ProposeStore, ProposeAnswer, PrecommitHandle,
       CommitNote, CommitLookup, CommitMissing, CommitForget, CommitRefused, CommitStore,
       CommitStoreFails, LoseRequest, Abandon, Autocommit, LoseReply, CtxEnds,
       RestartFollower, Stop, StartAgain, Terminated, vars
  <2> QED
    BY <2>1
<1> QED
  BY <1>1, <1>2, <1>3 DEF Next, Environment

\* A Put that is still running has told its client nothing: only the end of the
\* handler, or of the coordinator's process, gives it a result.
THEOREM ResultOnlyAtTheEnd == Spec => []NoEarlyResult
<1>1. Init => NoEarlyResult
  BY DEF Init, NoEarlyResult
<1>2. TypeOK /\ NoEarlyResult /\ [Next]_vars => NoEarlyResult'
  BY ResultStep DEF NoEarlyResult
<1> QED
  BY <1>1, <1>2, TypeCorrect, PTL DEF Spec

=============================================================================
