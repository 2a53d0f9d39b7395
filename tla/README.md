# A TLA+ specification of committer

committer is a key/value store in Go: a coordinator takes `Put` requests and
drives two-phase or three-phase commit over a fixed list of followers with
synchronous gRPC calls. This directory models the protocol, model-checks it on
small clusters with TLC, and proves its main properties for clusters of any size
with TLAPS.

## The system

| part | state | operations |
|------|-------|------------|
| coordinator, `Server.Put` (`server/server.go`) | `Height`, `NodeCache`, database, monitor | propose loop with retries, precommit loop, persist, commit loop |
| follower, `Propose`/`Precommit`/`Commit` (`server.go`, `committer.go`) | `Height`, `NodeCache`, database, `cancelCommitOnHeight`, timers | one handler per RPC, a goroutine per precommit that waits for the commit |
| node cache (`cache/cache.go`) | map from height to key/value | `Set`, `Get`, `Delete` |
| database (`db/badger.go`) | map from key to value, persistent | `Put`, `Get` |
| client stubs (`peer/peer.go`, generated code) | none | a call returns a response, or an error and no response |
| run-time monitor (`server/TwoPhaseCommitFull.go`, `refine.go`) | captured events | `CaptureState`, `CheckTrace`, `Reset` |
| hooks (`hooks/`) | none | accept or refuse a proposal, a commit |
| configuration (`config/config.go`, `helpers/`) | role, commit type, list of followers, white list | read once, at the start |
| interceptors (`server/interceptors.go`) | none | refuse a caller, or (for tests) make a follower hang |
| start and stop (`main.go`, `NewCommitServer`, `Run`, `Stop`) | the process | a node starts, is stopped by a signal, or dies |
| example client (`examples/client`) | none | one `Put` after the other |
| tracing, timing, generated messages, scripts | | not modelled, see below |

How they interact: a `Put` is a goroutine on the coordinator that makes one RPC at
a time; each RPC is a goroutine on a follower. All Puts share the coordinator's
height, cache and monitor; all handlers of a follower share its height, cache and
flags. Nothing orders two Puts: no lock is held across a step of the protocol.

What is hard, and what makes each part correct:

* *The height.* It names the round. It is read anew for every request, raised when
  a follower says that it is ahead, increased when a round is over, and it is lost
  in a restart. The coordinator must find its own entry under it, and followers
  must commit the entry they voted for (`CoordinatorHasEntry`, `SequentialInv`).
* *Failure in the middle.* A Put that fails leaves entries in the caches, values in
  some databases and followers at different heights. The next Put must still be
  atomic (`AckStored`, `FollowersFollow`, `ImplementsStore`) and must return
  (`EveryPutReturns`). Repeated proposals must not fill the caches (`CacheBound`).
* *Stopping.* A coordinator that is told to stop waits for its Puts, which have to
  return (`EveryPutReturns`), and starts again below all its followers
  (`SequentialInv`, `AckStored`).
* *Hanging followers*, against which there is only a deadline (`VotedPutsReturn`).
* *Calls that end before their handlers.* A caller that got an error goes on while
  the handler still runs (`CoordinatorHasEntry`, `FollowersFollow`).
* *Concurrent Puts* (`HeightCountsAcks`, `AckStored`).
* *The timers of three-phase mode* (`AckCancelsTimers`, `AutocommitCommits`).
* *The monitor*, which panics when it thinks the protocol was violated
  (`MonitorSilent`, `MonitorAbstraction`).
* *The flags*, which may name a node twice, the node itself or nobody
  (`AckEverywhere`, `OnlyServiceableAcks`), and the order in which the nodes start,
  against which there is only waiting (`ServiceableServes`).

PROJECT.json lists the hazards with the lines where they bite.

## The modules

| module | what it is |
|--------|------------|
| `Committer` | the protocol: coordinator, followers, RPCs, faults, restarts |
| `CommitterProperties` | what is claimed of it, the inductive invariant, fairness |
| `ReplicatedStore` | the abstract store that the protocol implements |
| `TwoPhaseCommitFull` | the checks of the run-time monitor |
| `MonitoredPuts` | the Puts as the monitor sees them, with the real checks |
| `Deployment` | flags, white lists, start order of the nodes and deadlines, and the example client |
| `MCCommitter`, `MCMonitoredPuts` | instances for TLC |
| `CommitterProofs` | proofs that need no assumption on the environment |
| `SequentialProofs` | proofs for one Put at a time, any faults |
| `StoreProofs` | proofs for one Put at a time, no late handlers, no crashes |
| `ConcurrentProofs` | proofs for concurrent Puts, any faults, no crashes |
| `HappyPathProofs` | proofs for one Put at a time when nothing goes wrong |
| `MonitoredPutsProofs` | proof that `Committer`'s summary of the monitor is right |
| `DeploymentProofs` | proofs about the flags |

The definitions whose names contain an underscore followed by words
(`ProposeAnswer_NoHeightCheck`) are mutants: plausible mistakes in the definition
that follows them, used to make sure that the properties would notice. They are
part of no specification.

### Committer

Node 0 is the coordinator, node `i` is `s.Followers[i-1]`. A key/value pair is
abstracted to the Put that carries it; `KeyOf` says which key it writes.

* `height`, `nodeCache`, `db`, `cancelCommitOnHeight`: the fields of `Server` on
  every node (the flags that are true, as a set); `timers`: the goroutines
  started by `Precommit`.
* `pc`, `follower`, `msg`, `reply`, `result`: the goroutine of each Put: its
  place in the code, its position in the current loop, its local variables.
* `net`: the requests in flight and the progress of their handlers. `live` says
  whether the caller still waits.
* `monitor`, `process`: see below. `ctxDone`, `restarts`: the environment.

Steps are as small as the accesses to shared state. An access that is merged with
a neighbour is one that commutes with what others may do in between: reading
`s.Height` together with the cache operation or the request that uses it (both on
the coordinator, within one expression of the code), and in `CommitStore` the
write to the database together with the increment of the height (the database is
not read by the protocol; a crash between the two is a crash after both whose
answer is lost, because a restart resets the height anyway). In `Finish`, the check
of the trace and its reset are one step: an event that another Put captures between
the two is dropped by the reset, unchecked, and the outcome is that of an event
captured just before a check that accepts, which `Finish` allows of every trace when
there are two followers. The increment of the height comes before, in a step of its
own (`IncreaseHeight`), because other Puts may read the new height or capture events
before the check. Likewise `ProposeReturn` and `RaiseHeight` are separate because
another Put may run between the comparison and the assignment.

What is not taken from the intention of the code but from its text:

* the precommit loop runs in two-phase mode too, although the comment above it
  (`server.go:371`) says "precommit phase only for three-phase mode"; the
  followers then only acknowledge;
* the retry loop looks at the response only, so an error sends the proposal again;
* all contexts of a Put are derived from each other, so that all calls share the
  first deadline; it does not end the Put, but makes every later call fail at once;
* `Commit` in three-phase mode sets the flag under the follower's own height;
* the commit without coordinator fails before it changes anything, and logs that it
  has committed.

Faults are chosen by the constant `Faults`: `"lose"` (a request or an answer is
lost), `"late"` (the caller gets an error, the handler goes on), `"ctx"` (the
Put's context ends: deadline or a client that went away), `"db"` (a database write
fails), `"stop"` (a signal stops the coordinator, and it is started again); and by
`MaxRestarts`, for nodes that die. A restarted node has its database and nothing else;
a coordinator may also stay down for a while, and refuses every Put meanwhile.
`process` tells a coordinator that is stopping, in which `GracefulStop` refuses new
calls and waits for the running Puts, from one that is down or has panicked.
A second coordinator that takes over with height 0, as in `main_test.go`, is a
restarted one.

### The monitor

Put captures an event before and after every RPC; at the end `CheckTrace` compares
each event with the one before it, and panics at the first that does not fit
(`crash` is true). `TwoPhaseCommitFull` has all twelve checks, `MonitoredPuts`
produces the events, one capture per step, with followers that answer at will.

`Committer` keeps less: who captured the last event, and whether events of several
Puts are mixed. From that it concludes that the check *may* fail if the trace is
mixed or the number of followers is not two, *must* fail in the latter case, and
*cannot* fail otherwise. Run `MonitoredPuts` checks exactly this against the real
checks (`MonitorAbstraction`), and `MonitoredPutsProofs` proves it. For a mixed trace both outcomes are explored.

Two details of the Go code are outside `MonitoredPuts`. `Append` on a `Seq` may
write into an array that two captured states share, so that a comparison of the
logs of actions may compare a value with itself; the model therefore keeps only
the length of the log, which makes its check weaker than, or equal to, the real
one in every case. And captures of different Puts race on `monitor.events`: an
event can be lost. A lost event leaves a trace that `Committer` treats as mixed.

Put captures seven of the twelve kinds of events: those of the participants are
captured by nobody, that of an abort is captured in a branch that is never reached,
and nothing aborts. The other checks are translated all the same; no run reaches
them. Nothing is claimed of what the checks would establish if everybody captured:
those of the network let any message be delivered, sent or not, and leave the
variables of the parties free, and the Puts rely on it - what they deliver are answers
that no participant was seen to send.

### Deployment

`config.Get` splits the flag `-followers`, so that an empty flag is a list with one
empty address, and adds a node that is not a coordinator to its own list. `Put` runs
on any node. `Deployment` lets the operator choose the role, the commit type and the
list of the node that the example client calls, and the white lists of all, starts the
nodes in any order, and follows the client's Puts, with one step for every RPC. A node that calls
itself raises its height in the middle of the commit loop, so that later places of
the list get an index under which they have nothing: the Put fails, unless the node
itself comes last. A node that is listed twice gains two heights for every Put, and
the next Put catches up with it. That is also the most that a node can gain, which
bounds the heights (`MaxHeight`; that no index is ever larger is part of what is
proved). An address where nobody listens, or a node that does
not admit the caller, keeps the Put proposing for ever; that is how a Put on a
follower with default flags ends, whose list is the empty address and itself.
`Serviceable` says with which flags Puts can succeed. With others none ever does.

With these flags, whether a Put does succeed depends on the commit type. A two-phase
Put waits for its followers as long as it takes. A three-phase Put, the default, has a
deadline (`Deadline`, at any time, or never): a Precommit or a Commit after it fails and
ends the Put with a NACK (`CallFails`), a Propose fails and is repeated for ever, even
if the follower has come up meanwhile. The deadline may also strike between the work of
a handler and its answer (`ProposeUnanswered`, `CommitUnanswered`). A handler that is
later still changes nothing that a Put goes on to use: after the deadline a Put gets no
further, and the client gives up. `ServiceableServes` says that nothing but the deadline
keeps the client from being served.

## The runs

All passing runs together take about four minutes.

| run | instance | checks |
|-----|----------|--------|
| `Sequential2PC` | 2 followers, 3 Puts (two of one key), hooks accept or refuse, losses, failing databases, stops | `SequentialInv`, `AckStored`, `CacheBound`, `FollowersFollow`, `ImplementsStore` |
| `Sequential3PC` | 2 followers, 3 Puts, three-phase, no faults | `HappyPath`, `AckCancelsTimers` |
| `SequentialFaults` | 2 followers, 2 Puts, late handlers, contexts that end, one restart, followers that hang | `CoordinatorHasEntry`, `MonitorSilent`, `VotedPutsReturn` |
| `ConcurrentPuts` | 2 followers, 2 Puts at once, commit hook may refuse, losses that end some day, failing databases, stops, fair | `TypeOK`, `HeightCountsAcks`, `EveryPutReturns` |
| `MonitoredPuts` | 1, 2 or 3 followers, 3 Puts at once, one retry each | `MonitorAbstraction` |
| `Deployment` | 3 nodes, lists of up to 3 addresses, 3 requests, both commit types, fair | `AckEverywhere`, `OnlyServiceableAcks`, `ServiceableServes` |

Why the bounds are enough: two followers are the least that a commit phase can
leave at different heights, and three Puts let one fail half-way, the next meet what
it left behind, and the third meet both. The heights are bounded by the number of
Puts. Three sequential Puts include one that overwrites the value of another. Two
concurrent Puts already show every pair of steps in both orders. `MaxLate = 1` lets
one abandoned handler run besides the current ones and those whose context has
ended. Stops are not counted: the coordinator may be stopped and started any number
of times. Restarts under concurrent Puts are in no run; `TypeOK` is proved with
them. In `Deployment` lists of three show what the monitor does to
any length but two, and three requests let a node that is listed twice get ahead,
be caught up with, and get ahead again.

Fairness: Go runs every goroutine that can run, and gRPC delivers a request, or
reports an error; so every step of a Put, the handler of its current request and
the timers are weakly fair. No fault is fair. Clients are taken to send their Puts
(`PutBegin`), or to be refused by a coordinator that is not there. In
`ConcurrentPuts` losses stop at some unknown time: the retry loop has no other way
to end. A coordinator that is told to stop depends on the same: `GracefulStop` has no
time limit, and would wait for ever behind a Put that keeps proposing. `SequentialFaults` assumes less: no handler and no
network is fair, only the goroutines of the coordinator and its clock (`CtxEnds`,
and gRPC's promise to end a call whose context has ended). In `Deployment` every
node is started some day, the Put and the client go on, and when a deadline comes is
left open.

### Where the code does not do what it says

Five runs are expected to fail; each states what a comment, a document or a test
of the repository says. PROJECT.json quotes the lines.

* `ConcurrentAck`: two Puts propose under one height; the second proposal
  overwrites the first in a follower's cache after the vote, and the follower
  stores the second for the commit of the first. The violation occurs where Put
  logs "committed key", before the monitor looks at the trace - which it may then
  refuse, so that the process dies in place of acknowledging.
* `RestartAck`: the same between a proposal of a dead coordinator and its
  successor, which starts at height 0 again. The new Put has the monitor's trace
  for itself and is acknowledged.
* `DeadlineReturn`: after the deadline every proposal fails at once, and is
  repeated.
* `Autocommit`: the commit without coordinator does not commit.
* `FiveFollowers`: with the five followers of `main_test.go` the monitor panics at
  the end of the first Put. The same holds for the README's example with one
  follower; the Makefile's example has two.

Some relatives of these follow from the same lines and have no run of their own.

* A propose hook that always refuses keeps the loop of `DeadlineReturn` running for
  ever, too: the code that would return "follower not acknowledged msg"
  (`server.go:346-347`) is behind the loop, and unreachable. So is the branch that
  captures an abort (`server.go:319-344`).
* A commit that outlives its deadline stores the entry of the next Put while that is
  still being proposed: `FollowersFollow` fails with `"ctx"` in `Faults`.
* `AckCancelsTimers` needs the absence of faults that `Sequential3PC` has. On a
  follower that missed an earlier commit, `Commit` sets the flag under the
  follower's own height (`server.go:156`) and thereby cancels another timer; and a
  coordinator that was stopped and started again proposes under height 0, which
  clears the flag of the Put that was acknowledged under it.
* `PrecommitBlockCoordinator` (`interceptors.go:60`, "blocks execution of
  coordinator on precommit stage for 10s") blocks nothing: nobody sends a Precommit
  to a coordinator.

## What is proved

The assumptions are those on the constants (`ConstantsAssumption`): at least one
follower, any sets of Puts and keys.

* For every environment (`CommitterProofs`): `TypeCorrect`. Two lemmas that the
  other proofs rest on are there too: `AnswersNeverMistaken` (`CallsMatch`: an answer
  reaches a Put only while it waits for exactly that call, which is how synchronous
  calls over gRPC were modelled) and `ResultOnlyAtTheEnd`.
* For one Put at a time and any faults (`SequentialProofs`): `OwnEntryFound`, from
  the fact that only the running Put touches the coordinator's height and cache,
  and that after every vote, the last one included, it stores its entry under the
  height it has at that moment; `MonitorNeverPanics`, from the fact that the events
  since the last `Initial` are those of the running Put.
* For one Put at a time, without late handlers, ended contexts and crashes, but with
  a coordinator that is stopped and started again (`StoreProofs`):
  `SequentialCorrect`, `AcknowledgedIsStored`, `CachesBounded`,
  `FollowersOnlyFollow` and the refinement `ImplementsReplicatedStore`.

The inductive invariant `SequentialInv` is needed because `AckStored` says nothing
about the votes it rests on. Its core is `HeightsFall`. A commit phase that breaks
off leaves the followers it reached one height above the others. The next Put asks
the first follower first; if anyone is ahead then that one is, and it refuses with
its own height before any other follower has voted for the old one. Therefore all
votes of a Put, and its entry on the coordinator, are under the height at which it
commits (`ProposePhase`, `PrecommitPhase`); the commit phase then raises the
heights from the front of the list, which keeps them falling (`CommitPhase`). The
coordinator is never above the first follower, which is what is left of its height
after it was started again, and why no entry is ever cached above the height of that
follower (`CachesBounded`). With
concurrent Puts, or with a restarted follower, heights need not fall, and
`ConcurrentAck` and `RestartAck` show what happens.

The refinement maps `db` to the copies, and the place of a Put in the code together
with its result to the phase of that Put (`PhaseOf`): `PersistStore` is `Decide`,
`CommitStore` is `Learn`, `Finish` is `Acknowledge`, a Put that returns anything else
fails, and every other step, `IncreaseHeight` included, stutters.

The other theorems have invariants of their own.

* Concurrent Puts (`ConcurrentProofs`): `EveryAckHasItsCommit`. Heights do not fall
  here and caches cannot be relied on; what is left is a count. `CommitsCounted` says
  that the height of a follower is at least the number of Puts that have its commit
  behind them: the acknowledged ones, and those whose commit loop has passed it or
  has its answer. Every answer came with an increase of the height of its own, as a
  Put has one call at a time (`CallsMatch`). Commits of Puts that fail later, or
  whose answers are lost, only make the height larger than the count.
  The theorem is about runs without crashes: a follower that dies loses its height.
* Nothing goes wrong (`HappyPathProofs`, under `NothingGoesWrong`: one Put at a time,
  no faults, hooks that accept, and two followers or a monitor that does not crash):
  `HappyPathHolds` and `AckedTimersCancelled`. The invariant `InStep` puts every
  follower at the coordinator's height, or one above it from its commit of the running
  Put until `IncreaseHeight`, with the databases to match, so that no proposal is ever refused as
  stale; that each handler finds its entry is `SequentialInv`. `TimersInStep` says that the flag
  under which a timer looks is set by the commit of the same Put and is cleared by no
  later proposal, because later proposals have larger indexes.
* The monitor's summary (`MonitoredPutsProofs`): `SummaryIsRight`, for any number of
  interleaved Puts and any number of retries, with one to three followers. `Refines` gives the
  state that a Put captures as a function of its place in its loops. If nobody else
  has captured since, the state before is the Put's own previous one and each check
  can be verified. In a mixed trace nothing is known of the state before; but a check
  of a sent message asks for it to have the same `tmPrepared` as the one after,
  and that alone refutes the first Commit to a single follower and the third Prepare
  of three. Since only an accepted trace is reset, the verdict stays.
* The flags (`DeploymentProofs`): `AckedEverywhere` and `AcksNeedServiceableFlags`,
  for any nodes, any lists, any number of requests, both commit types and deadlines at
  any time. The first Put is special
  (`FirstPut`): it starts with empty caches and all heights 0, and fails unless the
  list has two places and the first is another node. From then on `HeightsInStep`
  keeps the second follower from being ahead of the first, so that the proposals end
  with both at an index that is new to them, and `EntryInStep` says that the entry
  under that index is the one that is committed.

Every safety property that a passing run checks is thus proved for all values of the
constants that its theorem admits. Only model-checked is liveness (`EveryPutReturns`,
`VotedPutsReturn`, `ServiceableServes`), which is beyond the prover.

## What is not modelled

* Tracing and timing, the benchmark and the scripts: nothing in the protocol reads
  what they write. `serverToJson`, `writeToJson`, `CaptureVariable` and `ShowTrace`
  are called by nobody.
* The generated encoding of messages; the fields that the handlers read are fields
  of `Request` and `Reply`.
* `rollback` and `IsRollback`, which no caller sets.
* Two coordinators at work on the same followers at once. Nothing in the code
  foresees it; for a follower it is what two concurrent Puts are.
* Faults together with unusual flags: of those, `Deployment` has the deadline only.
* Heights are natural numbers: 2^64 rounds are out of reach.

## Plan

1. Done: the protocol with its faults, stops and restarts, the monitor, the flags, and
   the proofs above.
2. Then: which of the theorems of `StoreProofs` survive a restarted follower, with an
   invariant weaker than `HeightsFall`; `EveryAckHasItsCommit` for followers that
   restart, with a count that a restart does not lose; and the steps of the liveness
   properties that are safety, such as that `RaiseHeight` never lowers the height of
   a coordinator that serves one Put at a time.
