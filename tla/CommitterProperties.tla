------------------------ MODULE CommitterProperties ------------------------
(***************************************************************************)
(* What is claimed of Committer: safety invariants, action properties, the *)
(* fairness of the Go runtime and of gRPC with the liveness properties it  *)
(* gives, and the abstract store the protocol implements.                  *)
(*                                                                         *)
(* Most claims hold in some environments only.  Sequential and Reliable    *)
(* name the two conditions on the constants under which they are proved;   *)
(* the runs that drop a condition show what breaks.                        *)
(***************************************************************************)
EXTENDS Committer

\* Clients wait for the answer to one Put before they send the next.
Sequential == ~Concurrent

\* A failed call has not left a handler running, and nobody dies; the coordinator
\* may be stopped and started again, by a signal.
Reliable == Faults \subseteq {"lose", "db", "stop"} /\ MaxRestarts = 0

(***************************************************************************)
(* Any environment                                                         *)
(***************************************************************************)

\* Without restarts every follower's height counts at least the acknowledged
\* Puts: none is acknowledged before each follower has done a commit for it, and
\* no two of them share one commit, whatever runs concurrently.
HeightCountsAcks ==
  MaxRestarts = 0 =>
    \A f \in Followers :
      height[f] >= Cardinality({p \in Puts : result[p] = "ACK"})

\* A Put has no result before it is done.
NoEarlyResult == \A p \in Puts : pc[p] # "done" => result[p] = "none"

(***************************************************************************)
(* One Put at a time                                                       *)
(***************************************************************************)

\* When the voting is over the coordinator's cache holds the client's own entry
\* under the current height - though followers that are ahead may have raised
\* the height in the middle of the voting, and earlier Puts that failed left
\* their entries behind.
CoordinatorHasEntry ==
  \A p \in Puts : pc[p] \in {"precommit", "precommitting", "persist"} =>
    /\ CacheHas(nodeCache[Coordinator], height[Coordinator])
    /\ nodeCache[Coordinator][height[Coordinator]] = p

\* With two followers the monitor never brings the coordinator down: no Put finds
\* the events of another one among its own, not even those of Puts that failed
\* and left theirs behind.
MonitorSilent == Sequential /\ N = 2 => process # "panicked"

(***************************************************************************)
(* One Put at a time, failed calls leave no handler, nobody dies           *)
(***************************************************************************)

\* When Put p has the commit acknowledgements of all followers - it logs
\* "committed key", increases the height and returns ACK - its value is in the
\* database of every node (peer.go: "The coordinator reaches consensus and all
\* peers commit the value").
AckStored ==
  \A p \in Puts : pc[p] = "finish" =>
    \A n \in Nodes : db[n][KeyOf[p]] = p

\* Nothing deletes a committed entry from a cache, so the caches grow for ever; but
\* on no node do they hold more than one entry for each round that the first
\* follower has finished, and one for the current round: however often proposals
\* are repeated, refused or overtaken, none is left under a height to come.
CacheBound ==
  \A n \in Nodes : DOMAIN nodeCache[n] \subseteq 0..height[1]

\* A follower's database only ever changes to what the coordinator has persisted
\* ("the coordinator got all the answers, so it's time to persist msg and send
\* commit command to followers").
FollowersFollow ==
  [][\A f \in Followers, k \in Keys :
       db'[f][k] # db[f][k] => db'[f][k] = db[Coordinator][k]]_vars

\* What the code knows of Put p as a phase of the abstract store.
PhaseOf(p) ==
  CASE pc[p] = "done" /\ result[p] = "ACK"                   -> "acked"
    [] pc[p] = "done" /\ result[p] # "ACK"                   -> "failed"
    [] pc[p] \in {"commit", "committing", "finish", "check"} -> "decided"
    [] OTHER                                                 -> "open"

StorePhase == [p \in Puts |-> PhaseOf(p)]

Store == INSTANCE ReplicatedStore
           WITH Leader <- Coordinator, store <- db, phase <- StorePhase

\* The protocol implements the replicated store: each Put is decided at most
\* once, by the coordinator's own write, one at a time; followers only ever store
\* the Put that is decided; an acknowledged one is on every node.
ImplementsStore == Store!Spec

(***************************************************************************)
(* The inductive invariant behind these three.  A commit phase that fails  *)
(* half-way leaves the followers at different heights; what saves the next *)
(* Put is that the heights then fall along s.Followers, so the first       *)
(* follower is the one that raises the coordinator's height, before any    *)
(* other follower has voted.                                               *)
(***************************************************************************)

\* At most one Put is running, and one that has not begun starts at the first
\* follower.
OneActive ==
  /\ \A p, q \in Puts : pc[p] \in Active /\ pc[q] \in Active => p = q
  /\ \A p \in Puts : pc[p] = "idle" => follower[p] = 1

\* Every request is the current call of a running Put, at the current height.
CallsCurrent ==
  /\ ctxDone = {}
  /\ \A r \in net : r.live /\ r.index = height[Coordinator]

HeightsFall ==
  /\ \A e, g \in Followers : e < g => height[g] <= height[e]
  /\ height[Coordinator] <= height[1]

\* Node n holds p's entry under the current height.
Prepared(n, p) ==
  /\ CacheHas(nodeCache[n], height[Coordinator])
  /\ nodeCache[n][height[Coordinator]] = p

\* Follower f can vote for the current height, and has p's entry.
Voted(f, p) == Prepared(f, p) /\ height[f] <= height[Coordinator]

ProposePhase(p) ==
  /\ pc[p] \in {"propose", "proposing", "raise", "voted"} =>
       \A e \in Followers : e < follower[p] => Voted(e, p) /\ Prepared(Coordinator, p)
  /\ pc[p] = "proposing" /\ reply[p].type = "ACK" =>
       Voted(follower[p], p) /\ reply[p].index = height[Coordinator]
  /\ pc[p] = "proposing" /\ reply[p].index > height[Coordinator] =>
       reply[p].type = "NACK" /\ reply[p].index = height[follower[p]]
  /\ pc[p] = "raise" =>
       /\ reply[p].type = "NACK" /\ reply[p].index = height[follower[p]]
       /\ reply[p].index > height[Coordinator]
  /\ pc[p] = "voted" => Voted(follower[p], p)

PrecommitPhase(p) ==
  /\ pc[p] \in {"precommit", "precommitting", "persist", "save"} =>
       Prepared(Coordinator, p) /\ \A f \in Followers : Voted(f, p)
  /\ pc[p] \in {"persist", "save"} => follower[p] = 1
  /\ pc[p] = "save" => msg[p] = p

\* Progress of the commit loop: the followers that have answered ACK, and those
\* whose Commit has not been answered.
Committed(f, p) ==
  \/ f < follower[p]
  \/ f = follower[p] /\ pc[p] = "committing" /\ reply[p].type = "ACK"
Pending(f, p) ==
  \/ f > follower[p]
  \/ f = follower[p] /\ ~(pc[p] = "committing" /\ reply[p] # NoReply)

CommitPhase(p) ==
  /\ pc[p] \in {"commit", "committing"} =>
       /\ db[Coordinator][KeyOf[p]] = p
       /\ \A f \in Followers : /\ Committed(f, p) => db[f][KeyOf[p]] = p
                               /\ Pending(f, p) => Voted(f, p)
       /\ \A e, g \in Followers :
            Committed(e, p) /\ Pending(g, p) => height[g] < height[e]
       /\ Committed(1, p) => height[Coordinator] < height[1]
  /\ pc[p] \in {"finish", "check"} => \A n \in Nodes : db[n][KeyOf[p]] = p
  /\ pc[p] = "finish" => height[Coordinator] < height[1]

Phases(p) == ProposePhase(p) /\ PrecommitPhase(p) /\ CommitPhase(p)

\* What a handler has found out about its request.
HandlersRight ==
  \A r \in net :
    /\ r.kind = "propose" /\ r.stage = "stored" /\ r.vote = "ACK" =>
         Prepared(r.to, r.put)
    /\ r.stage = "found" => r.entry = r.put /\ r.kind = "commit"

\* The conjunction, inductive together with TypeOK and the facts about
\* calls in CommitterProofs.
SequentialInv ==
  /\ OneActive
  /\ CallsCurrent
  /\ HeightsFall
  /\ \A p \in Puts : Phases(p)
  /\ HandlersRight

(***************************************************************************)
(* Nothing goes wrong: what TestHappyPath of main_test.go asserts          *)
(***************************************************************************)

\* Every Put that has returned was acknowledged, and between two Puts all nodes,
\* the coordinator included, hold the same values and report the number of
\* acknowledged Puts as their height.
HappyPath ==
  /\ \A p \in Puts : pc[p] = "done" => result[p] = "ACK"
  /\ (\A p \in Puts : pc[p] \notin Active) =>
       \A n \in Nodes :
         /\ NodeInfo(n) = Cardinality({p \in Puts : result[p] = "ACK"})
         /\ \A k \in Keys : Get(n, k) = Get(Coordinator, k)

(***************************************************************************)
(* Three-phase mode                                                        *)
(***************************************************************************)

\* The commit of an acknowledged Put has cancelled every "commit without
\* coordinator" that its precommit had armed.
AckCancelsTimers ==
  \A t \in timers : result[t.put] = "ACK" => ~WouldAutocommit(t)

\* A follower that gives up waiting, and reports "commit without coordinator
\* after timeout", has committed.
AutocommitCommits ==
  [][\A t \in timers \ timers' :
       restarts' = restarts /\ WouldAutocommit(t)
         => height'[t.to] = height[t.to] + 1]_vars

(***************************************************************************)
(* Liveness.  Go runs every goroutine that can run, and gRPC delivers every *)
(* request or reports an error; losses may go on for ever only in the runs *)
(* that say so.                                                            *)
(***************************************************************************)
Fairness ==
  /\ \A p \in Puts : /\ WF_vars(PutBegin(p) \/ PutRefused(p))
                     /\ WF_vars(PutStep(p) \/ Panic(p))
                     /\ WF_vars(\E r \in net : r.put = p /\ Handle(r))
  /\ WF_vars(\E t \in timers : Autocommit(t))

FairSpec == Spec /\ Fairness

\* The network works again some day.
EventuallyReliable ==
  <>[][~\E r \in net : LoseRequest(r)]_vars /\ <>[][~\E p \in Puts : LoseReply(p)]_vars

HealingSpec == FairSpec /\ EventuallyReliable

\* Every Put gets an answer.
EveryPutReturns == \A p \in Puts : <>(pc[p] = "done")

(***************************************************************************)
(* Followers that hang, as PrecommitBlockALL of interceptors.go makes them *)
(* do in Test_3PC_6NODES_ALLFAILURE_ON_PRECOMMIT: no handler is fair, and  *)
(* neither is the network.  What is left is the deadline of Put's context, *)
(* which comes, and ends the call that is waiting.                         *)
(***************************************************************************)
DeadlineFairness ==
  \A p \in Puts : /\ WF_vars(PutStep(p) \/ Panic(p))
                   /\ WF_vars(CtxEnds(p))
                   /\ WF_vars(\E r \in net : /\ r.put = p /\ p \in ctxDone
                                              /\ (LoseRequest(r) \/ Abandon(r)))

DeadlineSpec == Spec /\ DeadlineFairness

\* A Put whose voting is over returns, though followers may hang in any later
\* call: no Precommit and no Commit is repeated.
VotedPutsReturn ==
  \A p \in Puts :
    pc[p] \in {"precommit", "precommitting", "persist", "save", "commit",
              "committing", "finish", "check"} ~> pc[p] = "done"

=============================================================================
