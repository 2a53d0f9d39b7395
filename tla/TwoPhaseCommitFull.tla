------------------------- MODULE TwoPhaseCommitFull -------------------------
(***************************************************************************)
(* The checks of the run-time monitor, server/TwoPhaseCommitFull.go: what  *)
(* CheckTrace asks of each captured state and the one captured before it.  *)
(* A check is a guard on the earlier state, and the later state as an      *)
(* update of the earlier one.                                              *)
(*                                                                         *)
(* Left out of State: inflight, which every check asks to be unchanged and *)
(* which nothing reads.  actions is the length of the log of actions.  The *)
(* contents are not kept because the check cannot be relied on to compare  *)
(* them: its Append writes into the array that this.state.actions may      *)
(* share with prev.state.actions, and so may overwrite what it is about to *)
(* compare.  A rejection below is therefore a rejection by the code,       *)
(* whatever the arrays share.                                              *)
(***************************************************************************)
EXTENDS Integers, Sequences, SequencesExt

\* The resource managers are constants of the generated checks.
RM == {"r1", "r2"}

Parties == RM \union {"coordinator"}

ToParty(type, r) == [type |-> type, msource |-> "coordinator", mdest |-> r]
ToCoordinator(type, r) == [type |-> type, msource |-> r, mdest |-> "coordinator"]

Starting ==
  [who |-> "none", actions |-> 0,
   outbox |-> [a \in Parties |-> <<>>], inbox |-> [a \in Parties |-> <<>>],
   tmPrepared |-> <<>>, tmCommitted |-> <<>>, tmAborted |-> <<>>,
   tmDecision |-> "none", rmState |-> [r \in RM |-> "working"]]

(***************************************************************************)
(* The updates that the checks share.                                      *)
(***************************************************************************)

\* The library's Remove: a loop over the sequence that keeps what differs from
\* the element, so that every copy of it is dropped.
RemoveEach(s, e) ==
  LET kept[i \in 0..Len(s)] ==
        IF i = 0 THEN <<>>
        ELSE IF s[i] = e THEN kept[i - 1] ELSE Append(kept[i - 1], s[i])
  IN kept[Len(s)]

Logged(prev, actor) == [prev EXCEPT !.who = actor, !.actions = @ + 1]

Sent(prev, m) == [prev EXCEPT !.outbox[m.msource] = Append(@, m)]

\* Receive: the message must be there, and is taken out.
Arrived(prev, m) == m \in ToSet(prev.inbox[m.mdest])
Received(prev, m) == [prev EXCEPT !.inbox[m.mdest] = RemoveEach(@, m)]

\* Reply: receive `m' and send `answer'.
Replied(prev, answer, m) == Sent(Received(prev, m), answer)

(***************************************************************************)
(* One operator per kind of event.                                         *)
(***************************************************************************)
CheckInitial(this) == this = Starting

CheckCSendPrepare(r, prev, this) ==
  /\ prev.tmDecision = "none"
  /\ ToSet(prev.tmPrepared) # RM
  /\ this = Sent(Logged(prev, "coordinator"), ToParty("Prepare", r))

CheckPHandlePrepare(r, prev, this) ==
  /\ prev.rmState[r] = "working"
  /\ Arrived(prev, ToParty("Prepare", r))
  /\ \E vote \in {[state |-> "prepared", answer |-> "Prepared"],
                  [state |-> "aborted", answer |-> "Aborted"]} :
       this = [Replied(Logged(prev, r), ToCoordinator(vote.answer, r),
                       ToParty("Prepare", r))
                 EXCEPT !.rmState[r] = vote.state]

CheckCReceivePrepare(r, prev, this) ==
  /\ r \notin ToSet(prev.tmPrepared)
  /\ Arrived(prev, ToCoordinator("Prepared", r))
  /\ this = [Received(Logged(prev, "coordinator"), ToCoordinator("Prepared", r))
               EXCEPT !.tmPrepared = Append(@, r)]

CheckCReceiveAbort(r, prev, this) ==
  /\ Arrived(prev, ToCoordinator("Aborted", r))
  /\ r \notin ToSet(prev.tmAborted)
  /\ this = [Received(Logged(prev, "coordinator"), ToCoordinator("Aborted", r))
               EXCEPT !.tmAborted = Append(@, r)]

CheckCSendCommit(r, prev, this) ==
  /\ ToSet(prev.tmPrepared) = RM
  /\ prev.tmDecision # "abort"
  /\ this = [Sent(Logged(prev, "coordinator"), ToParty("Commit", r))
               EXCEPT !.tmDecision = "commit"]

CheckCSendAbort(r, prev, this) ==
  /\ Len(prev.tmAborted) > 0
  /\ prev.tmDecision # "commit"
  /\ r \notin ToSet(prev.tmAborted)
  /\ this = [Sent(Logged(prev, "coordinator"), ToParty("Abort", r))
               EXCEPT !.tmDecision = "abort"]

CheckPHandleCommit(r, prev, this) ==
  /\ prev.rmState[r] = "prepared"
  /\ Arrived(prev, ToParty("Commit", r))
  /\ this = [Replied(Logged(prev, r), ToCoordinator("Committed", r),
                     ToParty("Commit", r))
               EXCEPT !.rmState[r] = "committed"]

CheckCReceiveCommit(r, prev, this) ==
  /\ Arrived(prev, ToCoordinator("Committed", r))
  /\ r \notin ToSet(prev.tmCommitted)
  /\ this = [Received(Logged(prev, "coordinator"), ToCoordinator("Committed", r))
               EXCEPT !.tmCommitted = Append(@, r)]

CheckPHandleAbort(r, prev, this) ==
  /\ prev.rmState[r] \in {"working", "prepared"}
  /\ Arrived(prev, ToParty("Abort", r))
  /\ this = [Replied(Logged(prev, r), ToCoordinator("Aborted", r),
                     ToParty("Abort", r))
               EXCEPT !.rmState[r] = "aborted"]

\* The two network events say nothing about the tm variables and rmState.
SameToNetwork(this, that) ==
  /\ this.who = that.who
  /\ this.actions = that.actions
  /\ this.outbox = that.outbox
  /\ this.inbox = that.inbox

Taken(prev, m) ==
  [Logged(prev, "Network") EXCEPT !.outbox[m.msource] = RemoveEach(@, m)]
Delivered(prev, m) ==
  [Logged(prev, "Network") EXCEPT !.inbox[m.mdest] = Append(@, m)]

CheckNetworkTakeMessage(m, prev, this) ==
  /\ m \in ToSet(prev.outbox[m.msource])
  /\ SameToNetwork(this, Taken(prev, m))

CheckNetworkDeliverMessage(m, prev, this) ==
  SameToNetwork(this, Delivered(prev, m))

(***************************************************************************)
(* CaptureState and CheckTrace.  A captured event does not change, so the  *)
(* verdict of CheckTrace is built up as the events come in: a trace is the *)
(* last captured state and whether everything up to it would pass.  The    *)
(* first event is compared with itself, an Initial one with nothing.       *)
(***************************************************************************)
EmptyTrace == [last |-> <<>>, verdict |-> "ok"]

CheckEvent(typ, arg, prev, this) ==
  CASE typ = "Initial"               -> CheckInitial(this)
    [] typ = "CSendPrepare"          -> CheckCSendPrepare(arg, prev, this)
    [] typ = "PHandlePrepare"        -> CheckPHandlePrepare(arg, prev, this)
    [] typ = "CReceivePrepare"       -> CheckCReceivePrepare(arg, prev, this)
    [] typ = "CReceiveAbort"         -> CheckCReceiveAbort(arg, prev, this)
    [] typ = "CSendCommit"           -> CheckCSendCommit(arg, prev, this)
    [] typ = "CSendAbort"            -> CheckCSendAbort(arg, prev, this)
    [] typ = "PHandleCommit"         -> CheckPHandleCommit(arg, prev, this)
    [] typ = "CReceiveCommit"        -> CheckCReceiveCommit(arg, prev, this)
    [] typ = "PHandleAbort"          -> CheckPHandleAbort(arg, prev, this)
    [] typ = "NetworkTakeMessage"    -> CheckNetworkTakeMessage(arg, prev, this)
    [] typ = "NetworkDeliverMessage" -> CheckNetworkDeliverMessage(arg, prev, this)

CaptureState(trace, typ, arg, this) ==
  LET prev == IF trace.last = <<>> THEN this ELSE trace.last[1]
  IN [last |-> <<this>>,
      verdict |-> IF trace.verdict = "ok" /\ CheckEvent(typ, arg, prev, this)
                    THEN "ok" ELSE "failed"]

CheckTrace(trace) == trace.verdict = "ok"

=============================================================================
