---------------------------- MODULE MonitoredPuts ----------------------------
(***************************************************************************)
(* Server.Put once more, seen by the run-time monitor: every step is one   *)
(* CaptureState, with the update of gs before it, and the followers are    *)
(* reduced to the answers they may give.  Committer keeps of the monitor   *)
(* only who captured last and whether the traces of several Puts mix; here *)
(* the traces are the real ones, and MonitorAbstraction says that what     *)
(* Committer concludes from its summary is right.                          *)
(***************************************************************************)
EXTENDS TwoPhaseCommitFull

CONSTANTS
  Counts,      \* the numbers of followers to consider
  Puts,        \* the client requests
  Concurrent,  \* may a Put begin while another is running?
  MaxRetries   \* bound: how often a Put repeats a Propose, in all

ASSUME MonitoredAssumption ==
  /\ Counts \subseteq 1..3
  /\ Concurrent \in BOOLEAN
  /\ MaxRetries \in Nat

VARIABLES
  N,         \* number of followers, len(s.Followers)
  pc,        \* pc[p]: where the goroutine of Put p is
  follower,  \* follower[p]: position of p's loop over s.Followers
  retries,   \* retries[p]: how often p has repeated a Propose
  gs,        \* gs[p]: the state that p refines its progress to
  trace,     \* monitor.events
  summary,   \* Committer's summary of the trace (last: nobody, or one Put)
  result,    \* result[p]: what p returned
  process    \* "up", or "down" after a panic

vars == <<N, pc, follower, retries, gs, trace, summary, result, process>>

Active == {"propose", "takePrepare", "proposing", "receivePrepare",
           "precommit", "commit", "takeCommit", "committing",
           "receiveCommit", "finish"}

Init ==
  /\ N \in Counts
  /\ pc = [p \in Puts |-> "idle"]
  /\ follower = [p \in Puts |-> 1]
  /\ retries = [p \in Puts |-> 0]
  /\ gs = [p \in Puts |-> Starting]
  /\ trace = EmptyTrace
  /\ summary = [last |-> {}, order |-> "apart"]
  /\ result = [p \in Puts |-> "none"]
  /\ process = "up"

(***************************************************************************)
(* Steps of Put                                                            *)
(***************************************************************************)

\* Put p gives gs the value `state' and captures it.
Capture(p, typ, arg, state) ==
  /\ gs' = [gs EXCEPT ![p] = state]
  /\ trace' = CaptureState(trace, typ, arg, state)
  /\ summary' = [last |-> {p},
                 order |-> IF typ = "Initial" \/ summary.last = {p}
                             THEN summary.order ELSE "mixed"]

Goto(p, label) == pc' = [pc EXCEPT ![p] = label]

\* The participant that stands for the follower p's loop is at.
RefineParty(p) == <<"r1", "r2", "r3">>[follower[p]]

Begin(p) ==
  /\ pc[p] = "idle"
  /\ Concurrent \/ \A q \in Puts : pc[q] \notin Active
  /\ Capture(p, "Initial", 0, Starting)
  /\ Goto(p, "propose")
  /\ UNCHANGED <<N, follower, retries, result, process>>

\* Before each Propose and each Commit: the message enters the outbox ...
SendMessage(p, label, typ, message, decision, next) ==
  /\ pc[p] = label
  /\ Capture(p, typ, RefineParty(p),
             [Logged(gs[p], "coordinator") EXCEPT
                !.outbox["coordinator"] = <<ToParty(message, RefineParty(p))>>,
                !.tmDecision = decision])
  /\ Goto(p, next)
  /\ UNCHANGED <<N, follower, retries, result, process>>

\* Mutant of TakeMessage: leaves the message in the outbox.
TakeMessage_Leaves(p, label, message, next) ==
  /\ pc[p] = label
  /\ Capture(p, "NetworkTakeMessage", ToParty(message, RefineParty(p)),
             Logged(gs[p], "Network"))
  /\ Goto(p, next)
  /\ UNCHANGED <<N, follower, retries, result, process>>

\* ... and the network takes it.
TakeMessage(p, label, message, next) ==
  /\ pc[p] = label
  /\ Capture(p, "NetworkTakeMessage", ToParty(message, RefineParty(p)),
             [Logged(gs[p], "Network") EXCEPT !.outbox["coordinator"] = <<>>])
  /\ Goto(p, next)
  /\ UNCHANGED <<N, follower, retries, result, process>>

\* After each acknowledgement: the network puts the answer in the inbox.
DeliverMessage(p, label, message, next) ==
  /\ pc[p] = label
  /\ Capture(p, "NetworkDeliverMessage", ToCoordinator(message, RefineParty(p)),
             [Logged(gs[p], "Network") EXCEPT
                !.inbox["coordinator"] = <<ToCoordinator(message, RefineParty(p))>>])
  /\ Goto(p, next)
  /\ UNCHANGED <<N, follower, retries, result, process>>

\* The loop goes on to the next follower, or is over.
NextFollower(p, again, after) ==
  /\ Goto(p, IF follower[p] < N THEN again ELSE after)
  /\ follower' = [follower EXCEPT ![p] = IF @ < N THEN @ + 1 ELSE 1]

\* The coordinator receives it.
ReceivePrepare(p) ==
  /\ pc[p] = "receivePrepare"
  /\ Capture(p, "CReceivePrepare", RefineParty(p),
             [Logged(gs[p], "coordinator") EXCEPT
                !.inbox["coordinator"] = <<>>,
                !.tmPrepared = Append(@, RefineParty(p))])
  /\ NextFollower(p, "propose", "precommit")
  /\ UNCHANGED <<N, retries, result, process>>

ReceiveCommit(p) ==
  /\ pc[p] = "receiveCommit"
  /\ Capture(p, "CReceiveCommit", RefineParty(p),
             [Logged(gs[p], "coordinator") EXCEPT
                !.inbox["coordinator"] = <<>>,
                !.tmCommitted = Append(@, RefineParty(p))])
  /\ NextFollower(p, "commit", "finish")
  /\ UNCHANGED <<N, retries, result, process>>

\* The Propose failed or was refused: the loop sends it again.
Retry(p) ==
  /\ pc[p] = "proposing"
  /\ retries[p] < MaxRetries
  /\ retries' = [retries EXCEPT ![p] = @ + 1]
  /\ Goto(p, "propose")
  /\ UNCHANGED <<N, follower, gs, trace, summary, result, process>>

\* The precommit loop and the coordinator's own database succeed.
Persist(p) ==
  /\ pc[p] = "precommit"
  /\ Goto(p, "commit")
  /\ UNCHANGED <<N, follower, retries, gs, trace, summary, result, process>>

\* A Precommit, the coordinator's cache or database, or a Commit fails: Put
\* returns, and leaves its events to the next one.
GiveUp(p) ==
  /\ pc[p] \in {"precommit", "committing"}
  /\ Goto(p, "done")
  /\ result' = [result EXCEPT ![p] = "error"]
  /\ UNCHANGED <<N, follower, retries, gs, trace, summary, process>>

\* The end of Put: CheckTrace, Reset, acknowledge.
Finish(p) ==
  /\ pc[p] = "finish"
  /\ CheckTrace(trace)
  /\ trace' = EmptyTrace
  /\ summary' = [last |-> {}, order |-> "apart"]
  /\ Goto(p, "done")
  /\ result' = [result EXCEPT ![p] = "ACK"]
  /\ UNCHANGED <<N, follower, retries, gs, process>>

\* Or the check panics, and nobody recovers.
Panic(p) ==
  /\ pc[p] = "finish"
  /\ ~CheckTrace(trace)
  /\ process' = "down"
  /\ UNCHANGED <<N, pc, follower, retries, gs, trace, summary, result>>

PutStep(p) ==
  \/ Begin(p)
  \/ SendMessage(p, "propose", "CSendPrepare", "Prepare", gs[p].tmDecision,
                 "takePrepare")
  \/ TakeMessage(p, "takePrepare", "Prepare", "proposing")
  \/ Retry(p)
  \/ DeliverMessage(p, "proposing", "Prepared", "receivePrepare")
  \/ ReceivePrepare(p)
  \/ Persist(p)
  \/ SendMessage(p, "commit", "CSendCommit", "Commit", "commit", "takeCommit")
  \/ TakeMessage(p, "takeCommit", "Commit", "committing")
  \/ DeliverMessage(p, "committing", "Committed", "receiveCommit")
  \/ ReceiveCommit(p)
  \/ GiveUp(p)
  \/ Finish(p)
  \/ Panic(p)

\* Nothing is left to do.
Terminated ==
  /\ process = "down" \/ \A p \in Puts : pc[p] = "done"
  /\ UNCHANGED vars

Next ==
  \/ process = "up" /\ \E p \in Puts : PutStep(p)
  \/ Terminated

Spec == Init /\ [][Next]_vars

(***************************************************************************)
(* Properties                                                              *)
(***************************************************************************)

\* The coordinator of Committer may reject a trace if it has not two followers
\* or if the trace is mixed, and always rejects it in the first case.
MonitorAbstraction ==
  \A p \in Puts : pc[p] = "finish" =>
    /\ ~CheckTrace(trace) => N # 2 \/ summary.order = "mixed"
    /\ N # 2 => ~CheckTrace(trace)

=============================================================================
