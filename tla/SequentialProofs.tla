-------------------------- MODULE SequentialProofs --------------------------
(***************************************************************************)
(* What holds when clients send one Put at a time.                         *)
(***************************************************************************)
EXTENDS CommitterProofs

USE DEF Coordinator, Followers, Nodes, TWO_PHASE, THREE_PHASE, coordVars,
        followerVars, envVars

\* While p runs, the other Puts do not; the invariant says nothing of them.
LEMMA OthersIdle ==
  ASSUME TypeOK, OneActive, NEW p \in Puts,
         pc[p] \in Active \/ \A q \in Puts : pc[q] \notin Active,
         NEW label, label # "idle", Goto(p, label),
         NEW k, follower' = [follower EXCEPT ![p] = k]
  PROVE  /\ OneActive'
         /\ \A q \in Puts : q # p => pc[q]' \notin Active
<1>1. \A q \in Puts : q # p => pc[q]' = pc[q] /\ follower[q]' = follower[q]
  BY DEF Goto, TypeOK
<1>2. pc[p]' = label
  BY DEF Goto, TypeOK
<1>3. \A q \in Puts : q # p => pc[q] \notin Active
  BY DEF OneActive
<1> QED
  BY <1>1, <1>2, <1>3 DEF OneActive

\* The invariant says nothing of a Put that is not running.
LEMMA IdlePhases ==
  ASSUME NEW q \in Puts
  PROVE  /\ pc[q] \notin Active => Phases(q)
         /\ pc[q]' \notin Active => Phases(q)'
BY DEF Phases, ProposePhase, PrecommitPhase, CommitPhase, Active, Waiting

\* Every action of Put is taken by a running Put, moves its pc and at most its
\* own position in the list of followers.
LEMMA PutMoves ==
  ASSUME TypeOK, NEW p \in Puts, Sequential, PutBegin(p) \/ PutStep(p)
  PROVE  /\ pc[p] \in Active \/ \A q \in Puts : pc[q] \notin Active
         /\ \E label : label # "idle" /\ Goto(p, label)
         /\ \E k : follower' = [follower EXCEPT ![p] = k]
<1> USE DEF PutBegin, PutStep, CallPropose, CallPrecommit, CallCommit,
            ProposeReturn, RaiseHeight, ProposeAcked, PrecommitReturn,
            PersistLookup, PersistMissing, PersistStore, PersistFails,
            CommitReturn, IncreaseHeight, Finish
<1>1. pc[p] \in Active \/ \A q \in Puts : pc[q] \notin Active
  BY DEF Sequential, Active, Waiting
<1>2. \E label : label # "idle" /\ Goto(p, label)
  BY DEF Return, NextFollower, ProposeAgain
<1>3. \E k : follower' = [follower EXCEPT ![p] = k]
  <2>1. follower = [follower EXCEPT ![p] = follower[p]]
    BY DEF TypeOK
  <2> QED
    BY <2>1 DEF Return, NextFollower
<1> QED
  BY <1>1, <1>2, <1>3

\* A step of one Put leaves the others out of the game.
LEMMA PutOthers ==
  ASSUME TypeOK, OneActive, NEW p \in Puts, Sequential, PutBegin(p) \/ PutStep(p)
  PROVE  OneActive' /\ \A q \in Puts : q # p => pc[q]' \notin Active /\ Phases(q)'
<1>1. PICK label : label # "idle" /\ Goto(p, label)
  BY PutMoves
<1>2. PICK k : follower' = [follower EXCEPT ![p] = k]
  BY PutMoves
<1> QED
  BY <1>1, <1>2, PutMoves, OthersIdle, IdlePhases

\* When the coordinator's process ends no Put is running.
LEMMA DieIdle ==
  ASSUME TypeOK, OneActive, Die
  PROVE  OneActive' /\ \A q \in Puts : pc[q]' \notin Active /\ Phases(q)'
<1>1. \A p \in Puts : pc[p]' \notin Active /\ (pc[p]' = "idle" => pc[p] = "idle")
  BY DEF Die, Active, Waiting
<1>2. follower' = follower
  BY DEF Die
<1> QED
  BY <1>1, <1>2, IdlePhases DEF OneActive

\* A Put that is refused at the door never runs.
LEMMA RefusedIdle ==
  ASSUME TypeOK, OneActive, NEW p \in Puts, PutRefused(p)
  PROVE  /\ OneActive' /\ pc[p]' \notin Active
         /\ \A q \in Puts : q # p => pc[q]' = pc[q]
<1>1. pc[p]' = "done" /\ follower' = follower
      /\ \A q \in Puts : q # p => pc[q]' = pc[q]
  BY DEF PutRefused, Return, Goto, TypeOK
<1> QED
  BY <1>1 DEF OneActive, Active, Waiting

(***************************************************************************)
(* The coordinator's own entry, in every environment.                      *)
(***************************************************************************)

\* The inductive step.
LEMMA EntryStep ==
  ASSUME Sequential, TypeOK, OneActive, CoordinatorHasEntry, [Next]_vars
  PROVE  OneActive' /\ CoordinatorHasEntry'
<1> DEFINE HasEntry(p) ==
      pc[p] \in {"precommit", "precommitting", "persist"} => Prepared(Coordinator, p)
<1>0. /\ CoordinatorHasEntry <=> \A p \in Puts : HasEntry(p)
      /\ CoordinatorHasEntry' <=> \A p \in Puts : HasEntry(p)'
  BY DEF CoordinatorHasEntry, Prepared
<1>1. ASSUME NEW p \in Puts, PutBegin(p) \/ PutStep(p)
      PROVE  OneActive' /\ CoordinatorHasEntry'
  <2>1. OneActive' /\ \A q \in Puts : q # p => HasEntry(q)'
    BY <1>1, PutOthers DEF Active, Waiting
  <2>2. HasEntry(p)'
    <3>1. CASE ProposeAcked(p)
      <4>1. nodeCache' = [nodeCache EXCEPT ![0] = CacheSet(nodeCache[0], height[0], p)]
            /\ 0 \in DOMAIN nodeCache /\ height[0]' = height[0]
        BY <3>1, ConstantsAssumption DEF ProposeAcked, TypeOK
      <4> QED
        BY <4>1 DEF Prepared, CacheHas, CacheSet
    <3>2. CASE PutBegin(p) \/ CallPropose(p) \/ ProposeReturn(p) \/ RaiseHeight(p)
               \/ PersistLookup(p) \/ PersistMissing(p) \/ PersistStore(p)
               \/ PersistFails(p) \/ CallCommit(p) \/ CommitReturn(p)
               \/ IncreaseHeight(p) \/ Finish(p)
      <4>1. pc[p]' \notin {"precommit", "precommitting", "persist"}
        BY <3>2 DEF PutBegin, CallPropose, ProposeReturn, RaiseHeight, PersistLookup,
             PersistMissing, PersistStore, PersistFails, CallCommit, CommitReturn,
             IncreaseHeight, Finish, Return, Goto, NextFollower, ProposeAgain, TypeOK
      <4> QED
        BY <4>1
    <3>3. CASE CallPrecommit(p) \/ PrecommitReturn(p)
      BY <1>0, <3>3 DEF CallPrecommit, PrecommitReturn, Prepared
    <3> QED
      BY <1>1, <3>1, <3>2, <3>3 DEF PutStep
  <2> QED
    BY <1>0, <2>1, <2>2
<1>2. ASSUME NEW r \in net, Handle(r)
      PROVE  OneActive' /\ CoordinatorHasEntry'
  <2>1. UNCHANGED <<pc, follower>>
    BY <1>2 DEF Handle, ProposeReset, ProposeStore, ProposeAnswer, PrecommitHandle,
       CommitNote, CommitLookup, CommitMissing, CommitForget, CommitRefused, CommitStore,
       CommitStoreFails
  <2>2. r.to \in Followers
    BY RequestTypes DEF TypeOK
  <2>3. r.to # 0 /\ height \in [Nodes -> Nat] /\ DOMAIN nodeCache = Nodes
    BY <2>2 DEF TypeOK
  <2>4. height' = height \/ height' = [height EXCEPT ![r.to] = height[r.to] + 1]
    BY <1>2 DEF Handle, ProposeReset, ProposeStore, ProposeAnswer,
       PrecommitHandle, CommitNote, CommitLookup, CommitMissing, CommitForget,
       CommitRefused, CommitStore, CommitStoreFails
  <2>5. \/ nodeCache' = nodeCache
        \/ \E c : nodeCache' = [nodeCache EXCEPT ![r.to] = c]
    BY <1>2 DEF Handle, ProposeReset, ProposeStore, ProposeAnswer,
       PrecommitHandle, CommitNote, CommitLookup, CommitMissing, CommitForget,
       CommitRefused, CommitStore, CommitStoreFails
  <2>6. height[0]' = height[0] /\ nodeCache[0]' = nodeCache[0]
    <3>1. 0 \in Nodes
      BY ConstantsAssumption
    <3>2. height[0]' = height[0]
      BY <2>3, <2>4, <3>1
    <3>3. nodeCache[0]' = nodeCache[0]
      BY <2>3, <2>5, <3>1
    <3> QED
      BY <3>2, <3>3
  <2> QED
    BY <2>1, <2>6 DEF OneActive, CoordinatorHasEntry
<1>3. CASE (\E t \in timers : Autocommit(t)) \/ (\E r \in net : LoseRequest(r) \/ Abandon(r))
           \/ (\E p \in Puts : LoseReply(p) \/ CtxEnds(p))
           \/ Stop \/ Terminated \/ UNCHANGED vars
  <2>1. UNCHANGED <<pc, follower, height, nodeCache>>
    BY <1>3 DEF Autocommit, LoseRequest, Abandon, LoseReply, CtxEnds, Stop, Terminated, vars
  <2> QED
    BY <2>1 DEF OneActive, CoordinatorHasEntry
<1>4. ASSUME NEW f \in Followers, RestartFollower(f)
      PROVE  OneActive' /\ CoordinatorHasEntry'
  <2>1. UNCHANGED <<pc, follower>>
    BY <1>4 DEF RestartFollower
  <2>2. height[0]' = height[0] /\ nodeCache[0]' = nodeCache[0]
    BY <1>4 DEF RestartFollower, TypeOK
  <2> QED
    BY <2>1, <2>2 DEF OneActive, CoordinatorHasEntry
<1>5. CASE StopCoordinator \/ RestartCoordinator \/ \E p \in Puts : Panic(p)
  <2>1. OneActive' /\ \A q \in Puts : pc[q]' \notin Active
    BY <1>5, DieIdle DEF StopCoordinator, RestartCoordinator, Panic
  <2> QED
    BY <2>1 DEF CoordinatorHasEntry, Active, Waiting
<1>6. ASSUME NEW p \in Puts, PutRefused(p)
      PROVE  OneActive' /\ CoordinatorHasEntry'
  <2>1. UNCHANGED <<height, nodeCache>>
    BY <1>6 DEF PutRefused
  <2> QED
    BY <1>6, <2>1, RefusedIdle DEF CoordinatorHasEntry, Active, Waiting
<1>7. CASE StartAgain
  <2>1. UNCHANGED <<pc, follower>> /\ \A q \in Puts : pc[q] \notin Active
    BY <1>7 DEF StartAgain
  <2> QED
    BY <2>1 DEF OneActive, CoordinatorHasEntry, Active, Waiting
<1> QED
  BY <1>1, <1>2, <1>3, <1>4, <1>5, <1>6, <1>7 DEF Next, Environment

\* When clients send one Put at a time, the coordinator always finds the
\* client's own entry in its cache when the voting is over, whatever faults and
\* restarts there are: the branch "can't to find msg in the coordinator's cache"
\* of Put is never taken and no stale entry is persisted.
THEOREM OwnEntryFound == Sequential => (Spec => []CoordinatorHasEntry)
<1> SUFFICES ASSUME Sequential PROVE Spec => []CoordinatorHasEntry
  OBVIOUS
<1>1. Init => OneActive /\ CoordinatorHasEntry
  BY DEF Init, OneActive, CoordinatorHasEntry, Active, Waiting
<1>2. TypeOK /\ (OneActive /\ CoordinatorHasEntry) /\ [Next]_vars
        => (OneActive /\ CoordinatorHasEntry)'
  BY EntryStep
<1> QED
  BY <1>1, <1>2, TypeCorrect, PTL DEF Spec

(***************************************************************************)
(* The monitor, in every environment.                                      *)
(***************************************************************************)

\* The last captured event is one of the running Put, and none is out of place.
OwnTrace ==
  /\ process # "panicked" /\ monitor.order = "apart"
  /\ \A p \in Puts : pc[p] \in Active => monitor.last = p

\* The inductive step.
LEMMA TraceStep ==
  ASSUME Sequential, N = 2, TypeOK, OneActive, OwnTrace, [Next]_vars
  PROVE  OneActive' /\ OwnTrace'
<1>1. ASSUME NEW p \in Puts, PutBegin(p) \/ PutStep(p)
      PROVE  OneActive' /\ OwnTrace'
  <2>1. OneActive' /\ \A q \in Puts : q # p => pc[q]' \notin Active
    BY <1>1, PutOthers
  <2>2. monitor \in Trace /\ process' # "panicked"
    BY <1>1 DEF TypeOK, OwnTrace, PutBegin, PutStep, CallPropose, CallPrecommit,
       CallCommit, ProposeReturn, RaiseHeight, ProposeAcked, PrecommitReturn,
       PersistLookup, PersistMissing, PersistStore, PersistFails, CommitReturn,
       IncreaseHeight, Finish
  <2>3. CASE PutBegin(p)
    BY <2>1, <2>2, <2>3 DEF PutBegin, CaptureInitial, OwnTrace, Trace
  <2>4. CASE Finish(p)
    <3>1. pc[p]' = "done" /\ monitor' = EmptyTrace
      BY <2>4 DEF Finish, Return, Goto, TypeOK
    <3> QED
      BY <2>1, <2>2, <3>1 DEF OwnTrace, EmptyTrace, Active, Waiting
  <2>5. CASE PutStep(p) /\ ~Finish(p)
    <3>1. pc[p] \in Active
      BY <2>5 DEF PutStep, CallPropose, CallPrecommit, CallCommit, ProposeReturn,
         RaiseHeight, ProposeAcked, PrecommitReturn, PersistLookup, PersistMissing,
         PersistStore, PersistFails, CommitReturn, IncreaseHeight, Active, Waiting
    <3>2. Capture(p) \/ UNCHANGED monitor
      BY <2>5 DEF PutStep, CallPropose, CallPrecommit, CallCommit, ProposeReturn,
         RaiseHeight, ProposeAcked, PrecommitReturn, PersistLookup, PersistMissing,
         PersistStore, PersistFails, CommitReturn, IncreaseHeight
    <3>3. monitor.last = p /\ monitor.order = "apart"
      BY <3>1 DEF OwnTrace
    <3>4. monitor'.last = p /\ monitor'.order = "apart"
      BY <3>2, <3>3 DEF Capture
    <3> QED
      BY <2>1, <2>2, <3>4 DEF OwnTrace
  <2> QED
    BY <1>1, <2>3, <2>4, <2>5
<1>2. CASE \/ \E r \in net : Handle(r) \/ LoseRequest(r) \/ Abandon(r)
           \/ \E t \in timers : Autocommit(t)
           \/ \E p \in Puts : LoseReply(p) \/ CtxEnds(p)
           \/ \E f \in Followers : RestartFollower(f)
           \/ Terminated \/ UNCHANGED vars
  <2>1. UNCHANGED <<pc, follower, monitor, process>>
    BY <1>2 DEF Handle, ProposeReset, ProposeStore, ProposeAnswer, PrecommitHandle,
       CommitNote, CommitLookup, CommitMissing, CommitForget,
       CommitRefused, CommitStore, CommitStoreFails, LoseRequest, Abandon, Autocommit, LoseReply,
       CtxEnds, RestartFollower, Terminated, vars
  <2> QED
    BY <2>1 DEF OneActive, OwnTrace
<1>3. CASE StopCoordinator \/ RestartCoordinator
  <2>1. OneActive' /\ \A q \in Puts : pc[q]' \notin Active
    BY <1>3, DieIdle DEF StopCoordinator, RestartCoordinator
  <2> QED
    BY <1>3, <2>1 DEF StopCoordinator, RestartCoordinator, OwnTrace, EmptyTrace
<1>4. ASSUME NEW p \in Puts, Panic(p) PROVE FALSE
  BY <1>4 DEF Panic, MayReject, OwnTrace
<1>5. ASSUME NEW p \in Puts, PutRefused(p)
      PROVE  OneActive' /\ OwnTrace'
  <2>1. UNCHANGED <<monitor, process>>
    BY <1>5 DEF PutRefused, envVars
  <2> QED
    BY <1>5, <2>1, RefusedIdle DEF OwnTrace
<1>6. CASE Stop
  BY <1>6 DEF Stop, OneActive, OwnTrace
<1>7. CASE StartAgain
  <2>1. /\ UNCHANGED <<pc, follower>> /\ \A q \in Puts : pc[q] \notin Active
        /\ monitor' = EmptyTrace /\ process' = "up"
    BY <1>7 DEF StartAgain
  <2> QED
    BY <2>1 DEF OneActive, OwnTrace, EmptyTrace
<1> QED
  BY <1>1, <1>2, <1>3, <1>4, <1>5, <1>6, <1>7 DEF Next, Environment

\* With two followers and one client at a time the monitor never panics, whatever
\* faults and restarts there are: at every CheckTrace the events of each Put stand
\* together, those of failed Puts included.
THEOREM MonitorNeverPanics == Spec => []MonitorSilent
<1>1. CASE Sequential /\ N = 2
  <2>1. Init => OneActive /\ OwnTrace
    BY DEF Init, OneActive, OwnTrace, EmptyTrace, Active, Waiting
  <2>2. TypeOK /\ (OneActive /\ OwnTrace) /\ [Next]_vars => (OneActive /\ OwnTrace)'
    BY <1>1, TraceStep
  <2>3. OwnTrace => MonitorSilent
    BY DEF OwnTrace, MonitorSilent
  <2> QED
    BY <2>1, <2>2, <2>3, TypeCorrect, PTL DEF Spec
<1>2. CASE ~(Sequential /\ N = 2)
  <2>1. MonitorSilent
    BY <1>2 DEF MonitorSilent
  <2> QED
    BY <2>1, PTL
<1> QED
  BY <1>1, <1>2

=============================================================================
