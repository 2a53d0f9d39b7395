----------------------------- MODULE Committer -----------------------------
(***************************************************************************)
(* The coordinator, its followers and the RPCs between them: package       *)
(* server (server.go, committer.go), peer, cache and db.                   *)
(*                                                                         *)
(* A client's Put runs on the coordinator as a goroutine that walks the    *)
(* list of followers three times - Propose, Precommit, Commit - with one   *)
(* synchronous RPC at a time.  Several Puts may run at once; they share    *)
(* the coordinator's Height and NodeCache.  Every RPC is handled on the    *)
(* follower by a goroutine of its own.                                     *)
(*                                                                         *)
(* Data: the key/value pair of a request is abstracted to the identity of  *)
(* the Put that carries it (values are distinct, keys are KeyOf).  An      *)
(* entry in a cache or a database is therefore a member of Puts.           *)
(*                                                                         *)
(* Atomicity: a step is one access to state that other goroutines share    *)
(* (Height, a cache, a database, the commit-progress map), or several that *)
(* commute with what other goroutines may do in between.                   *)
(***************************************************************************)
EXTENDS Integers, FiniteSets

CONSTANTS
  N,                   \* number of followers; follower i is s.Followers[i-1]
  Puts,                \* the client requests
  Keys, KeyOf,         \* the keys, and the key each Put writes
  None,                \* "no entry"
  FollowerCommitType,  \* Config.CommitType of the followers
  ProposeVerdicts,     \* what the propose hook may return
  CommitVerdicts,      \* what the commit hook may return
  Crash,               \* the variable crash of the monitor; true in the code
  Concurrent,          \* may a client call Put while another Put is running?
  Faults,              \* what may go wrong, a subset of FaultKinds
  MaxRestarts,         \* bound: how many times a node may restart
  MaxLate              \* bound: how many abandoned requests run at a time, besides
                       \* those abandoned because a context has ended

TWO_PHASE   == "two-phase"
THREE_PHASE == "three-phase"

(***************************************************************************)
(* "lose": a request or a reply is lost and the caller gets an error;      *)
(* "late": the caller gets an error but the handler still runs, later;     *)
(* "ctx": the Put's context ends, by its deadline in three-phase mode or   *)
(* because the client went away; "db": a database write fails; "stop": the *)
(* coordinator is stopped by a signal and started again.                   *)
(***************************************************************************)
FaultKinds == {"lose", "late", "ctx", "db", "stop"}

ASSUME ConstantsAssumption ==
  /\ N \in Nat \ {0}
  /\ KeyOf \in [Puts -> Keys]
  /\ None \notin Puts
  /\ FollowerCommitType \in {TWO_PHASE, THREE_PHASE}
  /\ ProposeVerdicts \in SUBSET BOOLEAN
  /\ CommitVerdicts \in SUBSET BOOLEAN
  /\ Crash \in BOOLEAN
  /\ Concurrent \in BOOLEAN
  /\ Faults \subseteq FaultKinds
  /\ MaxRestarts \in Nat
  /\ MaxLate \in Nat

Coordinator == 0
Followers   == 1..N
Nodes       == 0..N

VARIABLES
  height,      \* height[n]: Server.Height of node n
  nodeCache,   \* nodeCache[n]: NodeCache.store of n, a partial map index -> entry
  db,          \* db[n][k]: what BadgerDB of n holds under k; survives restarts
  cancelCommitOnHeight, \* [f]: the indexes that map to true
  timers,      \* the "commit without coordinator" goroutines that wait
  pc,          \* pc[p]: where the goroutine of Put p is
  follower,    \* follower[p]: position of p's loop over s.Followers
  msg,         \* msg[p]: the key, value that p found in the coordinator's cache
  reply,       \* reply[p]: what p's current RPC returned
  result,      \* result[p]: what Put p returned to its client
  monitor,     \* the events the coordinator's Monitor has captured, see below
  net,         \* the requests in flight or being handled
  ctxDone,     \* the Puts whose context has ended
  restarts,    \* number of restarts so far
  process      \* the coordinator's process: "up", "stopping", "down", "panicked"

coordVars    == <<pc, follower, msg, result, monitor>>
followerVars == <<cancelCommitOnHeight, timers>>
envVars      == <<ctxDone, restarts, process>>
vars == <<height, nodeCache, db, cancelCommitOnHeight, timers, pc, follower, msg,
          reply, result, monitor, net, ctxDone, restarts, process>>

(***************************************************************************)
(* Messages                                                                *)
(***************************************************************************)
NoReply == [type |-> "none", index |-> 0]
Failed  == [type |-> "failed", index |-> 0]     \* the call returned an error
Ack(i)  == [type |-> "ACK", index |-> i]
Nack(i) == [type |-> "NACK", index |-> i]

Reply == [type : {"none", "failed", "ACK", "NACK"}, index : Nat]

\* A request keeps the progress of its handler: "sent" (not yet handled),
\* "reset" (Propose: progress flag cleared), "stored" (Propose: entry cached,
\* vote taken), "noted" (Commit: progress flag set), "found" and "missing"
\* (Commit: outcome of the cache lookup).  live: the Put that sent it still
\* waits for the answer.
Request == [put : Puts, to : Followers, kind : {"propose", "precommit", "commit"},
            index : Nat,
            stage : {"sent", "reset", "stored", "noted", "found", "missing"},
            vote : {"none", "ACK", "NACK"}, entry : Puts \cup {None},
            live : BOOLEAN]

Timer == [to : Followers, index : Nat, put : Puts]

\* The monitor checks every captured event against the one before it, so what
\* matters of monitor.events is which Put captured the last one (None: there is
\* no event), and whether any event but the first of a Put was captured right
\* after an event of another Put, or first of all ("mixed").
Trace == [last : Puts \cup {None}, order : {"apart", "mixed"}]
EmptyTrace == [last |-> None, order |-> "apart"]

Waiting == {"proposing", "precommitting", "committing"}
Active  == Waiting \cup {"propose", "raise", "voted", "precommit", "persist",
                         "save", "commit", "finish", "check"}

\* The type invariant.
TypeOK ==
  /\ height \in [Nodes -> Nat]
  /\ DOMAIN nodeCache = Nodes
  /\ \A n \in Nodes : /\ DOMAIN nodeCache[n] \subseteq Nat
                      /\ \A i \in DOMAIN nodeCache[n] : nodeCache[n][i] \in Puts
  /\ db \in [Nodes -> [Keys -> Puts \cup {None}]]
  /\ cancelCommitOnHeight \in [Followers -> SUBSET Nat]
  /\ timers \subseteq Timer
  /\ pc \in [Puts -> Active \cup {"idle", "done"}]
  /\ follower \in [Puts -> Followers]
  /\ msg \in [Puts -> Puts \cup {None}]
  /\ reply \in [Puts -> Reply]
  /\ result \in [Puts -> {"none", "ACK", "NACK", "error"}]
  /\ monitor \in Trace
  /\ net \subseteq Request
  /\ ctxDone \subseteq Puts
  /\ restarts \in Nat
  /\ process \in {"up", "stopping", "down", "panicked"}

(***************************************************************************)
(* cache.go and badger.go                                                  *)
(***************************************************************************)
EmptyCache == [i \in {} |-> None]

CacheSet(c, i, p) == [j \in DOMAIN c \cup {i} |-> IF j = i THEN p ELSE c[j]]

CacheHas(c, i) == i \in DOMAIN c

CacheDelete(c, i) == [j \in DOMAIN c \ {i} |-> c[j]]

DBPut(n, p) == [db EXCEPT ![n][KeyOf[p]] = p]

\* The read-only RPCs Get and NodeInfo.
Get(n, k)   == db[n][k]
NodeInfo(n) == height[n]

\* NewCommitServer on every node, each with an empty database.
Init ==
  /\ height = [n \in Nodes |-> 0]
  /\ nodeCache = [n \in Nodes |-> EmptyCache]
  /\ db = [n \in Nodes |-> [k \in Keys |-> None]]
  /\ cancelCommitOnHeight = [f \in Followers |-> {}]
  /\ timers = {}
  /\ pc = [p \in Puts |-> "idle"]
  /\ follower = [p \in Puts |-> 1]
  /\ msg = [p \in Puts |-> None]
  /\ reply = [p \in Puts |-> NoReply]
  /\ result = [p \in Puts |-> "none"]
  /\ monitor = EmptyTrace
  /\ net = {}
  /\ ctxDone = {}
  /\ restarts = 0
  /\ process = "up"

(***************************************************************************)
(* The run-time monitor (TwoPhaseCommitFull.go), as Put uses it            *)
(***************************************************************************)

\* CaptureState with the event Initial, which is checked by itself ...
CaptureInitial(p) == monitor' = [monitor EXCEPT !.last = p]

\* ... and with any other event.
Capture(p) ==
  monitor' = [last |-> p,
              order |-> IF monitor.last = p THEN monitor.order ELSE "mixed"]

\* CheckTrace accepts the events of one Put after another if there are the two
\* followers it knows of, and never if there are not.  Whether it accepts a
\* mixed trace depends on how often each Put had to repeat its proposals, which
\* is left open here: it may, and it may not.
MayAccept == N = 2
MayReject == N # 2 \/ monitor.order = "mixed"

(***************************************************************************)
(* The coordinator: Server.Put                                             *)
(***************************************************************************)
Goto(p, label) == pc' = [pc EXCEPT ![p] = label]

Return(p, r) == /\ Goto(p, "done")
                /\ result' = [result EXCEPT ![p] = r]
                /\ UNCHANGED <<follower, msg>>

\* Mutant of NextFollower: runs past the end of the list.
NextFollower_PastTheEnd(p, again, after) ==
  /\ IF follower[p] <= N
       THEN /\ Goto(p, again)
            /\ follower' = [follower EXCEPT ![p] = @ + 1]
       ELSE /\ Goto(p, after)
            /\ follower' = [follower EXCEPT ![p] = 1]
  /\ UNCHANGED <<msg, result>>

\* One turn of `for _, follower := range s.Followers': on to the next follower
\* at label `again', or, after the last one, to label `after'.
NextFollower(p, again, after) ==
  /\ IF follower[p] < N
       THEN /\ Goto(p, again)
            /\ follower' = [follower EXCEPT ![p] = @ + 1]
       ELSE /\ Goto(p, after)
            /\ follower' = [follower EXCEPT ![p] = 1]
  /\ UNCHANGED <<msg, result>>

\* Mutant of PutBegin: does not capture the event Initial.
PutBegin_NoInitial(p) ==
  /\ pc[p] = "idle"
  /\ process = "up"
  /\ Concurrent \/ \A q \in Puts : pc[q] \notin Active
  /\ Goto(p, "propose")
  /\ UNCHANGED <<height, nodeCache, db, followerVars, follower, msg, reply, result,
                 monitor, net, envVars>>

\* A client calls Put.
PutBegin(p) ==
  /\ pc[p] = "idle"
  /\ process = "up"
  /\ Concurrent \/ \A q \in Puts : pc[q] \notin Active
  /\ CaptureInitial(p)
  /\ Goto(p, "propose")
  /\ UNCHANGED <<height, nodeCache, db, followerVars, follower, msg, reply, result,
                 net, envVars>>

\* There is no coordinator to call, or it is stopping and takes no new calls.
PutRefused(p) ==
  /\ pc[p] = "idle"
  /\ process # "up"
  /\ Return(p, "error")
  /\ UNCHANGED <<height, nodeCache, db, followerVars, reply, monitor, net, envVars>>

\* The stub of peer.go: hands the request to gRPC, which refuses it at once
\* when the context has ended.  The index is s.Height at the time of the call.
Call(p, kind) ==
  IF p \in ctxDone
    THEN /\ reply' = [reply EXCEPT ![p] = Failed]
         /\ UNCHANGED net
    ELSE /\ reply' = [reply EXCEPT ![p] = NoReply]
         /\ net' = net \cup
              {[put |-> p, to |-> follower[p], kind |-> kind,
                index |-> height[Coordinator], stage |-> "sent",
                vote |-> "none", entry |-> None, live |-> TRUE]}

CallPropose(p) ==
  /\ pc[p] = "propose"
  /\ Capture(p)
  /\ Call(p, "propose")
  /\ Goto(p, "proposing")
  /\ UNCHANGED <<height, nodeCache, db, followerVars, follower, msg, result,
                 envVars>>

\* The condition of the retry loop: an error leaves response nil, and both nil
\* and NACK send the request again.
ProposeAgain(p) == IF reply[p].type = "ACK" THEN "voted" ELSE "propose"

\* The Propose call has returned; `response.Index > s.Height' is evaluated.
ProposeReturn(p) ==
  /\ pc[p] = "proposing"
  /\ reply[p] # NoReply
  /\ Goto(p, IF reply[p].index > height[Coordinator]
               THEN "raise" ELSE ProposeAgain(p))
  /\ UNCHANGED <<height, nodeCache, db, followerVars, follower, msg, reply, result,
                 monitor, net, envVars>>

\* Mutants of RaiseHeight: goes one further than the answer says ...
RaiseHeight_OneTooMuch(p) ==
  /\ pc[p] = "raise"
  /\ height' = [height EXCEPT ![Coordinator] = reply[p].index + 1]
  /\ Goto(p, ProposeAgain(p))
  /\ UNCHANGED <<nodeCache, db, followerVars, follower, msg, reply, result, monitor,
                 net, envVars>>

\* ... or sends again without the new height.
RaiseHeight_Forgotten(p) ==
  /\ pc[p] = "raise"
  /\ Goto(p, ProposeAgain(p))
  /\ UNCHANGED <<height, nodeCache, db, followerVars, follower, msg, reply, result,
                 monitor, net, envVars>>

\* s.Height = response.Index: not atomic with the comparison before it.
RaiseHeight(p) ==
  /\ pc[p] = "raise"
  /\ height' = [height EXCEPT ![Coordinator] = reply[p].index]
  /\ Goto(p, ProposeAgain(p))
  /\ UNCHANGED <<nodeCache, db, followerVars, follower, msg, reply, result, monitor,
                 net, envVars>>

\* Mutant of ProposeAcked: caches the entry for the first follower only.
ProposeAcked_CachesOnce(p) ==
  /\ pc[p] = "voted"
  /\ nodeCache' = IF follower[p] = 1
                    THEN [nodeCache EXCEPT ![Coordinator] =
                            CacheSet(@, height[Coordinator], p)]
                    ELSE nodeCache
  /\ Capture(p)
  /\ NextFollower(p, "propose", "precommit")
  /\ UNCHANGED <<height, db, followerVars, reply, net, envVars>>

\* The follower acknowledged: cache the entry under the current height.
ProposeAcked(p) ==
  /\ pc[p] = "voted"
  /\ nodeCache' = [nodeCache EXCEPT ![Coordinator] =
                     CacheSet(@, height[Coordinator], p)]
  /\ Capture(p)
  /\ NextFollower(p, "propose", "precommit")
  /\ UNCHANGED <<height, db, followerVars, reply, net, envVars>>

\* The precommit loop runs whatever s.Config.CommitType is.
CallPrecommit(p) ==
  /\ pc[p] = "precommit"
  /\ Call(p, "precommit")
  /\ Goto(p, "precommitting")
  /\ UNCHANGED <<height, nodeCache, db, followerVars, follower, msg, result, monitor,
                 envVars>>

\* Mutant of PrecommitReturn: repeats a call that failed, as the proposals do.
PrecommitReturn_Repeats(p) ==
  /\ pc[p] = "precommitting"
  /\ reply[p] # NoReply
  /\ CASE reply[p].type = "failed" -> Goto(p, "precommit") /\ UNCHANGED <<follower, msg, result>>
       [] reply[p].type = "ACK"    -> NextFollower(p, "precommit", "persist")
       [] OTHER                    -> Return(p, "error")
  /\ UNCHANGED <<height, nodeCache, db, followerVars, reply, monitor, net, envVars>>

PrecommitReturn(p) ==
  /\ pc[p] = "precommitting"
  /\ reply[p] # NoReply
  /\ CASE reply[p].type = "failed" -> Return(p, "NACK")
       [] reply[p].type = "ACK"    -> NextFollower(p, "precommit", "persist")
       [] OTHER                    -> Return(p, "error")
  /\ UNCHANGED <<height, nodeCache, db, followerVars, reply, monitor, net, envVars>>

\* Look the entry up in the coordinator's cache ...
PersistLookup(p) ==
  /\ pc[p] = "persist"
  /\ CacheHas(nodeCache[Coordinator], height[Coordinator])
  /\ msg' = [msg EXCEPT ![p] = nodeCache[Coordinator][height[Coordinator]]]
  /\ Goto(p, "save")
  /\ UNCHANGED <<height, nodeCache, db, followerVars, follower, reply, result,
                 monitor, net, envVars>>

\* "can't to find msg in the coordinator's cache"
PersistMissing(p) ==
  /\ pc[p] = "persist"
  /\ ~CacheHas(nodeCache[Coordinator], height[Coordinator])
  /\ Return(p, "error")
  /\ UNCHANGED <<height, nodeCache, db, followerVars, reply, monitor, net, envVars>>

\* Mutant of PersistStore: goes on to the commit phase without writing.
PersistStore_NoWrite(p) ==
  /\ pc[p] = "save"
  /\ Goto(p, "commit")
  /\ UNCHANGED <<height, nodeCache, db, followerVars, follower, msg, reply, result,
                 monitor, net, envVars>>

\* ... and write what was found to the coordinator's database.
PersistStore(p) ==
  /\ pc[p] = "save"
  /\ db' = DBPut(Coordinator, msg[p])
  /\ Goto(p, "commit")
  /\ UNCHANGED <<height, nodeCache, followerVars, follower, msg, reply, result,
                 monitor, net, envVars>>

\* "failed to save msg on coordinator"
PersistFails(p) ==
  /\ pc[p] = "save"
  /\ "db" \in Faults
  /\ Return(p, "error")
  /\ UNCHANGED <<height, nodeCache, db, followerVars, reply, monitor, net, envVars>>

CallCommit(p) ==
  /\ pc[p] = "commit"
  /\ Capture(p)
  /\ Call(p, "commit")
  /\ Goto(p, "committing")
  /\ UNCHANGED <<height, nodeCache, db, followerVars, follower, msg, result,
                 envVars>>

\* Mutant of CommitReturn: looks at the error only, not at the type of the answer.
CommitReturn_NackIsAck(p) ==
  /\ pc[p] = "committing"
  /\ reply[p] # NoReply
  /\ IF reply[p].type = "failed"
       THEN Return(p, "NACK") /\ UNCHANGED monitor
       ELSE NextFollower(p, "commit", "finish") /\ Capture(p)
  /\ UNCHANGED <<height, nodeCache, db, followerVars, reply, net, envVars>>

CommitReturn(p) ==
  /\ pc[p] = "committing"
  /\ reply[p] # NoReply
  /\ CASE reply[p].type = "failed" -> Return(p, "NACK") /\ UNCHANGED monitor
       [] reply[p].type = "ACK"    -> NextFollower(p, "commit", "finish") /\ Capture(p)
       [] OTHER                    -> Return(p, "error") /\ UNCHANGED monitor
  /\ UNCHANGED <<height, nodeCache, db, followerVars, reply, net, envVars>>

\* Every follower committed: increase the height, which other Puts may see ...
IncreaseHeight(p) ==
  /\ pc[p] = "finish"
  /\ height' = [height EXCEPT ![Coordinator] = @ + 1]
  /\ Goto(p, "check")
  /\ UNCHANGED <<nodeCache, db, followerVars, follower, msg, reply, result, monitor,
                 net, envVars>>

\* ... before the trace is checked and reset, and the client gets its answer.
Finish(p) ==
  /\ pc[p] = "check"
  /\ ~Crash \/ MayAccept
  /\ monitor' = EmptyTrace
  /\ Return(p, "ACK")
  /\ UNCHANGED <<height, nodeCache, db, followerVars, reply, net, envVars>>

\* The coordinator's process ends: the running Puts end without an answer; their
\* requests may still be handled.
Die ==
  /\ pc' = [p \in Puts |-> IF pc[p] \in Active THEN "done" ELSE pc[p]]
  /\ result' = [p \in Puts |-> IF pc[p] \in Active THEN "error" ELSE result[p]]
  /\ net' = {[r EXCEPT !.live = FALSE] : r \in net}
  /\ UNCHANGED <<follower, msg, reply>>

\* Or the check fails and panics, in a goroutine of gRPC that nobody recovers.
\* The memory of the dead process is not read before RestartCoordinator.
Panic(p) ==
  /\ pc[p] = "check"
  /\ Crash /\ MayReject
  /\ process' = "panicked"
  /\ Die
  /\ UNCHANGED <<height, nodeCache, db, followerVars, monitor, ctxDone, restarts>>

PutStep(p) ==
  \/ CallPropose(p)   \/ ProposeReturn(p)   \/ RaiseHeight(p)
  \/ ProposeAcked(p)  \/ CallPrecommit(p)   \/ PrecommitReturn(p)
  \/ PersistLookup(p) \/ PersistMissing(p)  \/ PersistStore(p)
  \/ PersistFails(p)  \/ CallCommit(p)      \/ CommitReturn(p)
  \/ IncreaseHeight(p) \/ Finish(p)

(***************************************************************************)
(* The followers: the handlers of server.go and committer.go               *)
(***************************************************************************)

\* The handler of request r returns; the answer matters to a live caller only.
Answer(r, rep) ==
  /\ net' = net \ {r}
  /\ reply' = IF r.live THEN [reply EXCEPT ![r.put] = rep] ELSE reply

Continue(r, r2) ==
  /\ net' = (net \ {r}) \cup {r2}
  /\ UNCHANGED reply

\* Propose first resets the progress flag of the index.
ProposeReset(r) ==
  /\ r.kind = "propose" /\ r.stage = "sent"
  /\ cancelCommitOnHeight' = [cancelCommitOnHeight EXCEPT ![r.to] = @ \ {r.index}]
  /\ Continue(r, [r EXCEPT !.stage = "reset"])
  /\ UNCHANGED <<height, nodeCache, db, timers, coordVars, envVars>>

\* The first half of ProposeHandler: ask the hook, cache the entry if it accepts.
ProposeStore(r) ==
  /\ r.kind = "propose" /\ r.stage = "reset"
  /\ \E ok \in ProposeVerdicts :
       /\ nodeCache' = IF ok THEN [nodeCache EXCEPT ![r.to] =
                                     CacheSet(@, r.index, r.put)]
                             ELSE nodeCache
       /\ Continue(r, [r EXCEPT !.stage = "stored",
                                !.vote = IF ok THEN "ACK" ELSE "NACK"])
  /\ UNCHANGED <<height, db, followerVars, coordVars, envVars>>

\* Mutant of ProposeAnswer: no check of the height.
ProposeAnswer_NoHeightCheck(r) ==
  /\ r.kind = "propose" /\ r.stage = "stored"
  /\ Answer(r, [type |-> r.vote, index |-> r.index])
  /\ UNCHANGED <<height, nodeCache, db, followerVars, coordVars, envVars>>

\* The second half: a follower ahead of the request refuses it, and says where
\* it is.
ProposeAnswer(r) ==
  /\ r.kind = "propose" /\ r.stage = "stored"
  /\ Answer(r, IF height[r.to] > r.index
                 THEN Nack(height[r.to])
                 ELSE [type |-> r.vote, index |-> r.index])
  /\ UNCHANGED <<height, nodeCache, db, followerVars, coordVars, envVars>>

\* Precommit: in three-phase mode, start the goroutine that waits for the
\* commit of this index; acknowledge.
PrecommitHandle(r) ==
  /\ r.kind = "precommit"
  /\ timers' = IF FollowerCommitType = THREE_PHASE
                 THEN timers \cup {[to |-> r.to, index |-> r.index, put |-> r.put]}
                 ELSE timers
  /\ Answer(r, Ack(0))
  /\ UNCHANGED <<height, nodeCache, db, cancelCommitOnHeight, coordVars, envVars>>

\* Mutant of CommitNote: off by one.
CommitNote_NextHeight(r) ==
  /\ r.kind = "commit" /\ r.stage = "sent"
  /\ cancelCommitOnHeight' =
       IF FollowerCommitType = THREE_PHASE
         THEN [cancelCommitOnHeight EXCEPT ![r.to] = @ \cup {height[r.to] + 1}]
         ELSE cancelCommitOnHeight
  /\ Continue(r, [r EXCEPT !.stage = "noted"])
  /\ UNCHANGED <<height, nodeCache, db, timers, coordVars, envVars>>

\* Commit in three-phase mode first notes that the coordinator is alive - under
\* the follower's own height, not under the index of the request.
CommitNote(r) ==
  /\ r.kind = "commit" /\ r.stage = "sent"
  /\ cancelCommitOnHeight' =
       IF FollowerCommitType = THREE_PHASE
         THEN [cancelCommitOnHeight EXCEPT ![r.to] = @ \cup {height[r.to]}]
         ELSE cancelCommitOnHeight
  /\ Continue(r, [r EXCEPT !.stage = "noted"])
  /\ UNCHANGED <<height, nodeCache, db, timers, coordVars, envVars>>

\* CommitHandler: the hook accepts and the cache has an entry.
CommitLookup(r) ==
  /\ r.kind = "commit" /\ r.stage = "noted"
  /\ TRUE \in CommitVerdicts
  /\ CacheHas(nodeCache[r.to], r.index)
  /\ Continue(r, [r EXCEPT !.stage = "found",
                           !.entry = nodeCache[r.to][r.index]])
  /\ UNCHANGED <<height, nodeCache, db, followerVars, coordVars, envVars>>

\* The cache has none: delete the index, and answer with an error, "no value in
\* node cache on the index".
CommitMissing(r) ==
  /\ r.kind = "commit" /\ r.stage = "noted"
  /\ TRUE \in CommitVerdicts
  /\ ~CacheHas(nodeCache[r.to], r.index)
  /\ Continue(r, [r EXCEPT !.stage = "missing"])
  /\ UNCHANGED <<height, nodeCache, db, followerVars, coordVars, envVars>>

CommitForget(r) ==
  /\ r.kind = "commit" /\ r.stage = "missing"
  /\ nodeCache' = [nodeCache EXCEPT ![r.to] = CacheDelete(@, r.index)]
  /\ Answer(r, Failed)
  /\ UNCHANGED <<height, db, followerVars, coordVars, envVars>>

\* The commit hook refuses: forget the entry, answer NACK.
CommitRefused(r) ==
  /\ r.kind = "commit" /\ r.stage = "noted"
  /\ FALSE \in CommitVerdicts
  /\ nodeCache' = [nodeCache EXCEPT ![r.to] = CacheDelete(@, r.index)]
  /\ Answer(r, Nack(0))
  /\ UNCHANGED <<height, db, followerVars, coordVars, envVars>>

\* Mutants of CommitStore: the height only follows the index of the request ...
CommitStore_HeightFromIndex(r) ==
  /\ r.kind = "commit" /\ r.stage = "found"
  /\ db' = DBPut(r.to, r.entry)
  /\ height' = [height EXCEPT ![r.to] = IF @ <= r.index THEN r.index + 1 ELSE @]
  /\ Answer(r, Ack(0))
  /\ UNCHANGED <<nodeCache, followerVars, coordVars, envVars>>

\* ... or does not change.
CommitStore_HeightForgotten(r) ==
  /\ r.kind = "commit" /\ r.stage = "found"
  /\ db' = DBPut(r.to, r.entry)
  /\ Answer(r, Ack(0))
  /\ UNCHANGED <<height, nodeCache, followerVars, coordVars, envVars>>

\* db.Put, then the height, then the acknowledgement.
CommitStore(r) ==
  /\ r.kind = "commit" /\ r.stage = "found"
  /\ db' = DBPut(r.to, r.entry)
  /\ height' = [height EXCEPT ![r.to] = @ + 1]
  /\ Answer(r, Ack(0))
  /\ UNCHANGED <<nodeCache, followerVars, coordVars, envVars>>

CommitStoreFails(r) ==
  /\ r.kind = "commit" /\ r.stage = "found"
  /\ "db" \in Faults
  /\ Answer(r, Failed)
  /\ UNCHANGED <<height, nodeCache, db, followerVars, coordVars, envVars>>

Handle(r) ==
  \/ ProposeReset(r)  \/ ProposeStore(r)   \/ ProposeAnswer(r)
  \/ PrecommitHandle(r)
  \/ CommitNote(r)    \/ CommitLookup(r)   \/ CommitMissing(r)
  \/ CommitForget(r)  \/ CommitRefused(r)  \/ CommitStore(r)
  \/ CommitStoreFails(r)

\* The goroutine of Precommit wakes up.  If no progress was noted it calls
\* s.Commit with metadata for an *outgoing* call; Commit asks for *incoming*
\* metadata, finds none, and returns an error before it touches anything.
Autocommit(t) ==
  /\ timers' = timers \ {t}
  /\ UNCHANGED <<height, nodeCache, db, cancelCommitOnHeight, coordVars, reply,
                 net, envVars>>

\* Does the goroutine of timer t, waking up now, call s.Commit?
WouldAutocommit(t) == t.index \notin cancelCommitOnHeight[t.to]

(***************************************************************************)
(* The environment                                                         *)
(***************************************************************************)

\* A request that no handler has seen is lost; its caller gets an error.
LoseRequest(r) ==
  /\ "lose" \in Faults \/ r.put \in ctxDone
  /\ r.live /\ r.stage = "sent"
  /\ Answer(r, Failed)
  /\ UNCHANGED <<height, nodeCache, db, followerVars, coordVars, envVars>>

\* The answer to a call is lost.
LoseReply(p) ==
  /\ "lose" \in Faults
  /\ pc[p] \in Waiting
  /\ reply[p].type \in {"ACK", "NACK"}
  /\ reply' = [reply EXCEPT ![p] = Failed]
  /\ UNCHANGED <<height, nodeCache, db, followerVars, coordVars, net, envVars>>

\* The caller gets an error while the request is on its way or being handled:
\* the handler goes on.
Abandon(r) ==
  /\ r.live
  /\ \/ "late" \in Faults /\ Cardinality({s \in net : ~s.live}) < MaxLate
     \/ r.put \in ctxDone
  /\ net' = (net \ {r}) \cup {[r EXCEPT !.live = FALSE]}
  /\ reply' = [reply EXCEPT ![r.put] = Failed]
  /\ UNCHANGED <<height, nodeCache, db, followerVars, coordVars, envVars>>

\* The context of Put p ends.  All calls of a Put share one deadline: each
\* context.WithTimeout is derived from the one before.
CtxEnds(p) ==
  /\ "ctx" \in Faults
  /\ pc[p] \in Active /\ p \notin ctxDone
  /\ ctxDone' = ctxDone \cup {p}
  /\ UNCHANGED <<height, nodeCache, db, followerVars, coordVars, reply, net,
                 restarts, process>>

\* A follower dies and comes back with nothing but its database.  The callers
\* of the requests it was handling get an error, and so may the caller of one
\* it had just answered.
RestartFollower(f) ==
  /\ restarts < MaxRestarts
  /\ restarts' = restarts + 1
  /\ height' = [height EXCEPT ![f] = 0]
  /\ nodeCache' = [nodeCache EXCEPT ![f] = EmptyCache]
  /\ cancelCommitOnHeight' = [cancelCommitOnHeight EXCEPT ![f] = {}]
  /\ timers' = {t \in timers : t.to # f}
  /\ net' = {r \in net : r.to # f}
  /\ \E lost \in SUBSET {p \in Puts : pc[p] \in Waiting /\ follower[p] = f} :
       reply' = [p \in Puts |->
                   IF \/ \E r \in net : r.put = p /\ r.to = f /\ r.live
                      \/ p \in lost /\ reply[p] # NoReply
                     THEN Failed ELSE reply[p]]
  /\ UNCHANGED <<db, coordVars, ctxDone, process>>

\* The coordinator dies, and stays down for a while.
StopCoordinator ==
  /\ restarts < MaxRestarts
  /\ process' = "down"
  /\ Die
  /\ UNCHANGED <<height, nodeCache, db, followerVars, monitor, ctxDone, restarts>>

\* It is started again: after such a pause, after a panic, or at once after its
\* death.
RestartCoordinator ==
  /\ restarts < MaxRestarts
  /\ restarts' = restarts + 1
  /\ height' = [height EXCEPT ![Coordinator] = 0]
  /\ nodeCache' = [nodeCache EXCEPT ![Coordinator] = EmptyCache]
  /\ monitor' = EmptyTrace
  /\ process' = "up"
  /\ Die
  /\ UNCHANGED <<db, followerVars, ctxDone>>

\* A signal: main calls Stop, and GracefulStop refuses new calls and waits for
\* those that are running.
Stop ==
  /\ "stop" \in Faults
  /\ process = "up"
  /\ process' = "stopping"
  /\ UNCHANGED <<height, nodeCache, db, followerVars, coordVars, reply, net,
                 ctxDone, restarts>>

\* Mutant of StartAgain: main calls grpc.Server's Stop where it should call
\* GracefulStop, so that the running Puts die with the process.
StartAgain_KillsPuts ==
  /\ process = "stopping"
  /\ height' = [height EXCEPT ![Coordinator] = 0]
  /\ nodeCache' = [nodeCache EXCEPT ![Coordinator] = EmptyCache]
  /\ monitor' = EmptyTrace
  /\ process' = "up"
  /\ Die
  /\ UNCHANGED <<db, followerVars, ctxDone, restarts>>

\* They have all returned, the process has closed its database and ended, and
\* the coordinator is started again: NewCommitServer, with the old database.
StartAgain ==
  /\ process = "stopping"
  /\ \A p \in Puts : pc[p] \notin Active
  /\ height' = [height EXCEPT ![Coordinator] = 0]
  /\ nodeCache' = [nodeCache EXCEPT ![Coordinator] = EmptyCache]
  /\ monitor' = EmptyTrace
  /\ process' = "up"
  /\ UNCHANGED <<db, followerVars, pc, follower, msg, result, reply, net, ctxDone,
                 restarts>>

\* Nothing is left to do.
Terminated ==
  /\ \A p \in Puts : pc[p] = "done"
  /\ net = {} /\ timers = {}
  /\ UNCHANGED vars

Environment ==
  \/ \E r \in net : LoseRequest(r) \/ Abandon(r)
  \/ \E p \in Puts : LoseReply(p) \/ CtxEnds(p)
  \/ \E f \in Followers : RestartFollower(f)
  \/ StopCoordinator \/ RestartCoordinator
  \/ Stop \/ StartAgain

Next ==
  \/ \E p \in Puts : PutBegin(p) \/ PutStep(p) \/ PutRefused(p) \/ Panic(p)
  \/ \E r \in net : Handle(r)
  \/ \E t \in timers : Autocommit(t)
  \/ Environment
  \/ Terminated

Spec == Init /\ [][Next]_vars

============================================================================
