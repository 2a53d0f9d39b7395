------------------------- MODULE MonitoredPutsProofs -------------------------
(***************************************************************************)
(* Committer decides from the number of followers and from a summary of    *)
(* the captures whether the monitor may reject a trace.  Here the summary  *)
(* is proved right about the traces themselves, for any number of Puts     *)
(* that interleave their captures in any way, and any number of retries.   *)
(*                                                                         *)
(* The states a Put captures are determined by where it is in its loops    *)
(* (Refined).  If its captures are not mixed with another's, every state   *)
(* therefore follows the one before by the rule of its event (Unmixed).    *)
(* With one follower the first Commit, and with three the last Prepare, is *)
(* sent in a state that no earlier state can lead to (Rejected); a         *)
(* rejected trace stays rejected, as only an accepted one is reset.        *)
(***************************************************************************)
EXTENDS MonitoredPuts, TLAPS

(***************************************************************************)
(* The invariant                                                           *)
(***************************************************************************)
Names == {"r1", "r2", "r3"}

Message == [type : {"Prepare", "Prepared", "Commit", "Committed"},
            msource : Names \union {"coordinator"},
            mdest : Names \union {"coordinator"}]

State == [who : {"none", "coordinator", "Network"}, actions : Nat,
          outbox : [Parties -> Seq(Message)], inbox : [Parties -> Seq(Message)],
          tmPrepared : Seq(Names), tmCommitted : Seq(Names), tmAborted : Seq(Names),
          tmDecision : {"none", "commit"}, rmState : [RM -> {"working"}]]

Proposing == {"propose", "takePrepare", "proposing", "receivePrepare"}
Committing == {"commit", "takeCommit", "committing", "receiveCommit"}

TypeOK ==
  /\ N \in 1..3
  /\ pc \in [Puts -> Active \union {"idle", "done"}]
  /\ follower \in [Puts -> 1..3]
  /\ \A p \in Puts : follower[p] <= N
  /\ gs \in [Puts -> State]
  /\ trace \in [last : Seq(State), verdict : {"ok", "failed"}]
  /\ summary \in [last : SUBSET Puts, order : {"apart", "mixed"}]

\* The first n participants.
First(n) == CASE n = 0 -> <<>>
              [] n = 1 -> <<"r1">>
              [] n = 2 -> <<"r1", "r2">>
              [] n = 3 -> <<"r1", "r2", "r3">>

\* What gs holds of a Put that is at `at', at the follower f.
Refines(s, at, f) ==
  /\ s.outbox["coordinator"] =
       CASE at = "takePrepare" -> <<ToParty("Prepare", <<"r1", "r2", "r3">>[f])>>
         [] at = "takeCommit"  -> <<ToParty("Commit", <<"r1", "r2", "r3">>[f])>>
         [] OTHER               -> <<>>
  /\ s.inbox["coordinator"] =
       CASE at = "receivePrepare" ->
              <<ToCoordinator("Prepared", <<"r1", "r2", "r3">>[f])>>
         [] at = "receiveCommit"  ->
              <<ToCoordinator("Committed", <<"r1", "r2", "r3">>[f])>>
         [] OTHER                  -> <<>>
  /\ s.tmPrepared = IF at \in Proposing THEN First(f - 1) ELSE First(N)
  /\ s.tmCommitted = CASE at \in Committing -> First(f - 1)
                       [] at = "finish"     -> First(N)
                       [] OTHER             -> <<>>
  /\ at \in Proposing \union {"precommit"} => s.tmDecision = "none"

\* The refinement that the comments in Put describe, at every one of its steps.
Refined == \A p \in Puts : pc[p] \in Active => Refines(gs[p], pc[p], follower[p])

\* Outside the loops the next one starts at the first follower.
LoopsStart == \A p \in Puts : pc[p] \in {"idle", "precommit", "finish"} => follower[p] = 1

\* Captures that are not mixed make a trace of states that follow each other.
Unmixed ==
  /\ \A p \in Puts : summary.last = {p} => trace.last = <<gs[p]>>
  /\ N = 2 /\ summary.order = "apart" => trace.verdict = "ok"

\* A Put that is at `at', at the follower f, has captured what no trace allows.
RejectsAt(at, f) ==
  \/ N = 1 /\ at \in {"takeCommit", "committing", "receiveCommit", "finish"}
  \/ N = 3 /\ f = 3 /\ at \in {"takePrepare", "proposing", "receivePrepare"}
  \/ N = 3 /\ at \in Committing \union {"precommit", "finish"}

Rejects(p) == RejectsAt(pc[p], follower[p])

Rejected == \A p \in Puts : Rejects(p) => trace.verdict = "failed"

Inv == TypeOK /\ Refined /\ LoopsStart /\ Unmixed /\ Rejected

(***************************************************************************)
(* States                                                                  *)
(***************************************************************************)

\* The participants that come first, one by one.
LEMMA FirstFacts ==
  /\ First(0) = <<>> /\ First(1) = <<"r1">> /\ First(2) = <<"r1", "r2">>
  /\ First(3) = <<"r1", "r2", "r3">>
  /\ \A n \in 0..3 : First(n) \in Seq(Names)
<1>1. /\ First(0) = <<>> /\ First(1) = <<"r1">> /\ First(2) = <<"r1", "r2">>
      /\ First(3) = <<"r1", "r2", "r3">>
  BY DEF First
<1>2. /\ <<>> \in Seq(Names) /\ <<"r1">> \in Seq(Names)
      /\ <<"r1", "r2">> \in Seq(Names) /\ <<"r1", "r2", "r3">> \in Seq(Names)
  BY DEF Names
<1>3. ASSUME NEW n \in 0..3 PROVE First(n) \in Seq(Names)
  <2>1. n = 0 \/ n = 1 \/ n = 2 \/ n = 3
    OBVIOUS
  <2> QED
    BY <1>1, <1>2, <2>1
<1> QED
  BY <1>1, <1>3

\* Appending to the first one and to the first two.
LEMMA AppendFirst ==
  /\ Append(<<"r1">>, "r2") = <<"r1", "r2">>
  /\ Append(<<"r1", "r2">>, "r3") = <<"r1", "r2", "r3">>
<1>1. Append(<<"r1">>, "r2") = <<"r1", "r2">>
  <2> DEFINE a == Append(<<"r1">>, "r2")
             b == <<"r1", "r2">>
  <2>1. a \in Seq(Names) /\ b \in Seq(Names)
    BY DEF Names
  <2>2. Len(a) = 2 /\ Len(b) = 2
    OBVIOUS
  <2>3. a[1] = b[1] /\ a[2] = b[2]
    OBVIOUS
  <2>4. \A i \in 1..2 : a[i] = b[i]
    <3> HIDE DEF a, b
    <3> QED
      BY <2>3
  <2> HIDE DEF a, b
  <2>5. a = b
    BY <2>1, <2>2, <2>4
  <2> QED
    BY <2>5 DEF a, b
<1>2. Append(<<"r1", "r2">>, "r3") = <<"r1", "r2", "r3">>
  <2> DEFINE a == Append(<<"r1", "r2">>, "r3")
             b == <<"r1", "r2", "r3">>
  <2>1. a \in Seq(Names) /\ b \in Seq(Names)
    BY DEF Names
  <2>2. Len(a) = 3 /\ Len(b) = 3
    OBVIOUS
  <2>3. a[1] = b[1] /\ a[2] = b[2] /\ a[3] = b[3]
    OBVIOUS
  <2>4. \A i \in 1..3 : a[i] = b[i]
    <3> HIDE DEF a, b
    <3> QED
      BY <2>3
  <2> HIDE DEF a, b
  <2>5. a = b
    BY <2>1, <2>2, <2>4
  <2> QED
    BY <2>5 DEF a, b
<1> QED
  BY <1>1, <1>2

\* One more participant, and who is among the first.
LEMMA FirstGrows ==
  ASSUME NEW f \in 1..3
  PROVE  /\ <<"r1", "r2", "r3">>[f] \in Names
         /\ Append(First(f - 1), <<"r1", "r2", "r3">>[f]) = First(f)
         /\ <<"r1", "r2", "r3">>[f] \notin ToSet(First(f - 1))
<1>1. CASE f = 1
  <2>1. First(f - 1) = <<>> /\ First(f) = <<"r1">> /\ <<"r1", "r2", "r3">>[f] = "r1"
    BY <1>1, FirstFacts
  <2>2. Append(<<>>, "r1") = <<"r1">>
    OBVIOUS
  <2>3. ToSet(<<>>) = {}
    BY DEF ToSet
  <2>4. "r1" \in Names
    BY DEF Names
  <2> QED
    BY <2>1, <2>2, <2>3, <2>4
<1>2. CASE f = 2
  <2>1. /\ First(f - 1) = <<"r1">> /\ First(f) = <<"r1", "r2">>
        /\ <<"r1", "r2", "r3">>[f] = "r2"
    BY <1>2, FirstFacts
  <2>2. Append(<<"r1">>, "r2") = <<"r1", "r2">>
    BY AppendFirst
  <2>3. ToSet(<<"r1">>) = {"r1"}
    BY DEF ToSet
  <2>4. "r2" \in Names
    BY DEF Names
  <2> QED
    BY <2>1, <2>2, <2>3, <2>4
<1>3. CASE f = 3
  <2>1. /\ First(f - 1) = <<"r1", "r2">> /\ First(f) = <<"r1", "r2", "r3">>
        /\ <<"r1", "r2", "r3">>[f] = "r3"
    BY <1>3, FirstFacts
  <2>2. Append(<<"r1", "r2">>, "r3") = <<"r1", "r2", "r3">>
    BY AppendFirst
  <2>3. ToSet(<<"r1", "r2">>) = {"r1", "r2"}
    BY DEF ToSet
  <2>4. "r3" \in Names
    BY DEF Names
  <2> QED
    BY <2>1, <2>2, <2>3, <2>4
<1> QED
  BY <1>1, <1>2, <1>3

\* Only the first two are all the participants that the checks know.
LEMMA FirstAreAll ==
  /\ ToSet(First(1)) # RM /\ ToSet(First(2)) = RM
  /\ \A f \in 1..2 : ToSet(First(f - 1)) # RM
  /\ \A f \in {3} : ToSet(First(f - 1)) = RM
<1>1. ToSet(First(0)) = {} /\ ToSet(First(1)) = {"r1"} /\ ToSet(First(2)) = {"r1", "r2"}
  BY FirstFacts DEF ToSet
<1>2. ASSUME NEW f \in 1..3
      PROVE  \/ f = 1 /\ First(f - 1) = First(0)
             \/ f = 2 /\ First(f - 1) = First(1)
             \/ f = 3 /\ First(f - 1) = First(2)
  <2>1. CASE f = 1
    BY <2>1
  <2>2. CASE f = 2
    BY <2>2
  <2>3. CASE f = 3
    BY <2>3
  <2> QED
    BY <2>1, <2>2, <2>3
<1>3. ToSet(First(0)) # RM /\ ToSet(First(1)) # RM /\ ToSet(First(2)) = RM
  BY <1>1 DEF RM
<1> QED
  BY <1>2, <1>3

\* A message that is alone in a box leaves it empty.
LEMMA RemoveOnly ==
  ASSUME NEW m
  PROVE  RemoveEach(<<m>>, m) = <<>>
<1> DEFINE s == <<m>>
           Loop(g) == g = [i \in 0..Len(s) |->
                             IF i = 0 THEN <<>>
                             ELSE IF s[i] = m THEN g[i - 1] ELSE Append(g[i - 1], s[i])]
           kept == CHOOSE g : Loop(g)
<1>1. Len(s) = 1 /\ s[1] = m
  OBVIOUS
<1>2. Loop([i \in 0..1 |-> <<>>])
  BY <1>1
<1>3. RemoveEach(s, m) = kept[Len(s)]
  BY DEF RemoveEach
<1>4. Loop(kept)
  <2> HIDE DEF Loop
  <2> QED
    BY <1>2
<1>5. kept[1] = kept[0] /\ kept[0] = <<>>
  <2> HIDE DEF kept
  <2> QED
    BY <1>1, <1>4
<1> HIDE DEF kept
<1> QED
  BY <1>1, <1>3, <1>5

\* A message that enters an empty box is alone in it.
LEMMA AppendEmpty == ASSUME NEW m PROVE Append(<<>>, m) = <<m>>
OBVIOUS

\* The messages of a Put, and where they are kept.
LEMMA MessageFacts ==
  ASSUME NEW r \in Names, NEW type \in {"Prepare", "Prepared", "Commit", "Committed"}
  PROVE  /\ ToParty(type, r) \in Message /\ ToCoordinator(type, r) \in Message
         /\ ToParty(type, r).msource = "coordinator"
         /\ ToCoordinator(type, r).mdest = "coordinator"
BY DEF ToParty, ToCoordinator, Message

\* A log entry changes nothing else.
LEMMA LoggedFacts ==
  ASSUME NEW s \in State, NEW a \in {"coordinator", "Network"}
  PROVE  /\ Logged(s, a) \in State
         /\ Logged(s, a).outbox = s.outbox /\ Logged(s, a).inbox = s.inbox
         /\ Logged(s, a).tmPrepared = s.tmPrepared
         /\ Logged(s, a).tmCommitted = s.tmCommitted
         /\ Logged(s, a).tmDecision = s.tmDecision
<1>1. /\ s.actions \in Nat /\ s.actions + 1 \in Nat
  BY DEF State
<1>2. Logged(s, a) = [s EXCEPT !.who = a, !.actions = s.actions + 1]
  BY DEF Logged
<1>3. [s EXCEPT !.who = a, !.actions = s.actions + 1] \in State
  BY <1>1 DEF State
<1> QED
  BY <1>2, <1>3 DEF State

\* A box that gets new contents.
LEMMA BoxFacts ==
  ASSUME NEW b \in [Parties -> Seq(Message)], NEW c \in Seq(Message)
  PROVE  /\ [b EXCEPT !["coordinator"] = c] \in [Parties -> Seq(Message)]
         /\ [b EXCEPT !["coordinator"] = c]["coordinator"] = c
BY DEF Parties

\* The state at the start.
LEMMA StartingFacts == Starting \in State /\ Starting.outbox["coordinator"] = <<>>
  /\ Starting.inbox["coordinator"] = <<>> /\ Starting.tmPrepared = <<>>
  /\ Starting.tmCommitted = <<>> /\ Starting.tmDecision = "none"
<1>1. <<>> \in Seq(Message) /\ <<>> \in Seq(Names)
  OBVIOUS
<1>2. /\ [a \in Parties |-> <<>>] \in [Parties -> Seq(Message)]
      /\ [a \in Parties |-> <<>>]["coordinator"] = <<>>
  BY <1>1 DEF Parties
<1>3. [r \in RM |-> "working"] \in [RM -> {"working"}]
  OBVIOUS
<1> QED
  BY <1>1, <1>2, <1>3 DEF Starting, State

(***************************************************************************)
(* What a Put captures, and what the checks make of it                     *)
(***************************************************************************)

\* The states that Put refines itself to.
WithSent(s, m, d) ==
  [Logged(s, "coordinator") EXCEPT !.outbox["coordinator"] = <<m>>, !.tmDecision = d]
WithTaken(s) == [Logged(s, "Network") EXCEPT !.outbox["coordinator"] = <<>>]
WithAnswer(s, m) == [Logged(s, "Network") EXCEPT !.inbox["coordinator"] = <<m>>]
WithPrepared(s, r) ==
  [Logged(s, "coordinator") EXCEPT !.inbox["coordinator"] = <<>>,
                                   !.tmPrepared = Append(@, r)]
WithCommitted(s, r) ==
  [Logged(s, "coordinator") EXCEPT !.inbox["coordinator"] = <<>>,
                                   !.tmCommitted = Append(@, r)]

\* A message put into the outbox.
LEMMA SendFacts ==
  ASSUME NEW s \in State, NEW m \in Message, m.msource = "coordinator",
         NEW d \in {"none", "commit"}, NEW t,
         t = WithSent(s, m, d)
  PROVE  /\ t \in State /\ t.outbox["coordinator"] = <<m>> /\ t.inbox = s.inbox
         /\ t.tmPrepared = s.tmPrepared /\ t.tmCommitted = s.tmCommitted
         /\ t.tmDecision = d
         /\ s.outbox["coordinator"] = <<>> =>
              /\ t = [Sent(Logged(s, "coordinator"), m) EXCEPT !.tmDecision = d]
              /\ d = s.tmDecision => t = Sent(Logged(s, "coordinator"), m)
<1> DEFINE l == Logged(s, "coordinator")
           box == [l.outbox EXCEPT !["coordinator"] = <<m>>]
<1>1. /\ l \in State /\ l.outbox = s.outbox /\ l.inbox = s.inbox
      /\ l.tmPrepared = s.tmPrepared /\ l.tmCommitted = s.tmCommitted
      /\ l.tmDecision = s.tmDecision
  BY LoggedFacts
<1> HIDE DEF l
<1>2. t = [l EXCEPT !.outbox = box, !.tmDecision = d]
  BY DEF l, WithSent
<1>3. l.outbox \in [Parties -> Seq(Message)] /\ <<m>> \in Seq(Message)
  BY <1>1 DEF State
<1>4. box \in [Parties -> Seq(Message)] /\ box["coordinator"] = <<m>>
  BY <1>3, BoxFacts
<1>5. s.outbox["coordinator"] = <<>> =>
        /\ t = [Sent(l, m) EXCEPT !.tmDecision = d]
        /\ d = s.tmDecision => t = Sent(l, m)
  <2> SUFFICES ASSUME s.outbox["coordinator"] = <<>>
               PROVE  /\ t = [Sent(l, m) EXCEPT !.tmDecision = d]
                      /\ d = s.tmDecision => t = Sent(l, m)
    OBVIOUS
  <2>1. Append(l.outbox["coordinator"], m) = <<m>>
    BY <1>1, AppendEmpty
  <2>2. Sent(l, m) = [l EXCEPT !.outbox = box]
    BY <2>1 DEF Sent
  <2> HIDE DEF box
  <2>3. t = [Sent(l, m) EXCEPT !.tmDecision = d]
    BY <1>1, <1>2, <2>2 DEF State
  <2>4. d = l.tmDecision => [l EXCEPT !.outbox = box, !.tmDecision = d] = [l EXCEPT !.outbox = box]
    BY <1>1 DEF State
  <2> QED
    BY <1>1, <1>2, <2>2, <2>3, <2>4
<1> HIDE DEF box
<1> QED
  BY <1>1, <1>2, <1>4, <1>5 DEF State, l

\* Whatever the state before, sending leaves tmPrepared alone.
LEMMA SentKeepsPrepared ==
  ASSUME NEW s \in State, NEW m, NEW d
  PROVE  /\ Sent(Logged(s, "coordinator"), m).tmPrepared = s.tmPrepared
         /\ [Sent(Logged(s, "coordinator"), m) EXCEPT !.tmDecision = d].tmPrepared
              = s.tmPrepared
<1> DEFINE l == Logged(s, "coordinator")
<1>1. l \in State /\ l.tmPrepared = s.tmPrepared
  BY LoggedFacts
<1> HIDE DEF l
<1>2. PICK box : Sent(l, m) = [l EXCEPT !.outbox = box]
  BY DEF Sent
<1> QED
  BY <1>1, <1>2 DEF State, l

\* The message taken from the outbox.
LEMMA TakeFacts ==
  ASSUME NEW s \in State, NEW m \in Message, m.msource = "coordinator", NEW t,
         t = WithTaken(s)
  PROVE  /\ t \in State /\ t.outbox["coordinator"] = <<>> /\ t.inbox = s.inbox
         /\ t.tmPrepared = s.tmPrepared /\ t.tmCommitted = s.tmCommitted
         /\ t.tmDecision = s.tmDecision
         /\ s.outbox["coordinator"] = <<m>> => CheckNetworkTakeMessage(m, s, t)
<1> DEFINE l == Logged(s, "Network")
           box == [l.outbox EXCEPT !["coordinator"] = <<>>]
<1>1. /\ l \in State /\ l.outbox = s.outbox /\ l.inbox = s.inbox
      /\ l.tmPrepared = s.tmPrepared /\ l.tmCommitted = s.tmCommitted
      /\ l.tmDecision = s.tmDecision
  BY LoggedFacts
<1> HIDE DEF l
<1>2. t = [l EXCEPT !.outbox = box]
  BY DEF l, WithTaken
<1>3. l.outbox \in [Parties -> Seq(Message)] /\ <<>> \in Seq(Message)
  BY <1>1 DEF State
<1>4. box \in [Parties -> Seq(Message)] /\ box["coordinator"] = <<>>
  BY <1>3, BoxFacts
<1>5. s.outbox["coordinator"] = <<m>> => CheckNetworkTakeMessage(m, s, t)
  <2> SUFFICES ASSUME s.outbox["coordinator"] = <<m>>
               PROVE  CheckNetworkTakeMessage(m, s, t)
    OBVIOUS
  <2>1. RemoveEach(l.outbox["coordinator"], m) = <<>>
    BY <1>1, RemoveOnly
  <2>2. Taken(s, m) = [l EXCEPT !.outbox = box]
    BY <2>1 DEF Taken, l
  <2>3. m \in ToSet(<<m>>)
    BY DEF ToSet
  <2> HIDE DEF box
  <2> QED
    BY <1>2, <2>2, <2>3 DEF CheckNetworkTakeMessage, SameToNetwork
<1> HIDE DEF box
<1> QED
  BY <1>1, <1>2, <1>4, <1>5 DEF State

\* The answer put into the inbox.
LEMMA DeliverFacts ==
  ASSUME NEW s \in State, NEW m \in Message, m.mdest = "coordinator", NEW t,
         t = WithAnswer(s, m)
  PROVE  /\ t \in State /\ t.outbox = s.outbox /\ t.inbox["coordinator"] = <<m>>
         /\ t.tmPrepared = s.tmPrepared /\ t.tmCommitted = s.tmCommitted
         /\ t.tmDecision = s.tmDecision
         /\ s.inbox["coordinator"] = <<>> => CheckNetworkDeliverMessage(m, s, t)
<1> DEFINE l == Logged(s, "Network")
           box == [l.inbox EXCEPT !["coordinator"] = <<m>>]
<1>1. /\ l \in State /\ l.outbox = s.outbox /\ l.inbox = s.inbox
      /\ l.tmPrepared = s.tmPrepared /\ l.tmCommitted = s.tmCommitted
      /\ l.tmDecision = s.tmDecision
  BY LoggedFacts
<1> HIDE DEF l
<1>2. t = [l EXCEPT !.inbox = box]
  BY DEF l, WithAnswer
<1>3. l.inbox \in [Parties -> Seq(Message)] /\ <<m>> \in Seq(Message)
  BY <1>1 DEF State
<1>4. box \in [Parties -> Seq(Message)] /\ box["coordinator"] = <<m>>
  BY <1>3, BoxFacts
<1>5. s.inbox["coordinator"] = <<>> => CheckNetworkDeliverMessage(m, s, t)
  <2> SUFFICES ASSUME s.inbox["coordinator"] = <<>>
               PROVE  CheckNetworkDeliverMessage(m, s, t)
    OBVIOUS
  <2>1. Append(l.inbox["coordinator"], m) = <<m>>
    BY <1>1, AppendEmpty
  <2>2. Delivered(s, m) = [l EXCEPT !.inbox = box]
    BY <2>1 DEF Delivered, l
  <2> HIDE DEF box
  <2> QED
    BY <1>2, <2>2 DEF CheckNetworkDeliverMessage, SameToNetwork
<1> HIDE DEF box
<1> QED
  BY <1>1, <1>2, <1>4, <1>5 DEF State

\* The answer to a Prepare received.
LEMMA ReceivePrepareFacts ==
  ASSUME NEW s \in State, NEW r \in Names, NEW t,
         t = WithPrepared(s, r)
  PROVE  /\ t \in State /\ t.outbox = s.outbox /\ t.inbox["coordinator"] = <<>>
         /\ t.tmPrepared = Append(s.tmPrepared, r) /\ t.tmCommitted = s.tmCommitted
         /\ t.tmDecision = s.tmDecision
         /\ (/\ s.inbox["coordinator"] = <<ToCoordinator("Prepared", r)>>
             /\ r \notin ToSet(s.tmPrepared))
              => CheckCReceivePrepare(r, s, t)
<1> DEFINE l == Logged(s, "coordinator")
           box == [l.inbox EXCEPT !["coordinator"] = <<>>]
           m == ToCoordinator("Prepared", r)
<1>1. /\ l \in State /\ l.outbox = s.outbox /\ l.inbox = s.inbox
      /\ l.tmPrepared = s.tmPrepared /\ l.tmCommitted = s.tmCommitted
      /\ l.tmDecision = s.tmDecision
  BY LoggedFacts
<1> HIDE DEF l
<1>2. t = [l EXCEPT !.inbox = box, !.tmPrepared = Append(l.tmPrepared, r)]
  BY DEF l, WithPrepared
<1>3. l.inbox \in [Parties -> Seq(Message)] /\ <<>> \in Seq(Message)
  BY <1>1 DEF State
<1>4. box \in [Parties -> Seq(Message)] /\ box["coordinator"] = <<>>
  BY <1>3, BoxFacts
<1>5. l.tmPrepared \in Seq(Names) /\ Append(l.tmPrepared, r) \in Seq(Names)
  BY <1>1 DEF State
<1>6. m.mdest = "coordinator"
  BY MessageFacts
<1> HIDE DEF m
<1>7. s.inbox["coordinator"] = <<m>> /\ r \notin ToSet(s.tmPrepared) =>
        CheckCReceivePrepare(r, s, t)
  <2> SUFFICES ASSUME s.inbox["coordinator"] = <<m>>, r \notin ToSet(s.tmPrepared)
               PROVE  CheckCReceivePrepare(r, s, t)
    OBVIOUS
  <2>1. RemoveEach(l.inbox["coordinator"], m) = <<>>
    BY <1>1, RemoveOnly
  <2>2. Received(l, m) = [l EXCEPT !.inbox = box]
    BY <1>6, <2>1 DEF Received
  <2>3. Arrived(s, m)
    BY <1>6 DEF ToSet, Arrived
  <2> HIDE DEF box
  <2>4. t = [Received(l, m) EXCEPT !.tmPrepared = Append(@, r)]
    BY <1>1, <1>2, <2>2 DEF State
  <2> QED
    BY <2>3, <2>4 DEF CheckCReceivePrepare, m, l
<1> HIDE DEF box
<1>8. /\ t \in State /\ t.outbox = s.outbox /\ t.inbox["coordinator"] = <<>>
      /\ t.tmPrepared = Append(s.tmPrepared, r) /\ t.tmCommitted = s.tmCommitted
      /\ t.tmDecision = s.tmDecision
  BY <1>1, <1>2, <1>4, <1>5 DEF State
<1> QED
  BY <1>7, <1>8 DEF m

\* The answer to a Commit received.
LEMMA ReceiveCommitFacts ==
  ASSUME NEW s \in State, NEW r \in Names, NEW t,
         t = WithCommitted(s, r)
  PROVE  /\ t \in State /\ t.outbox = s.outbox /\ t.inbox["coordinator"] = <<>>
         /\ t.tmCommitted = Append(s.tmCommitted, r) /\ t.tmPrepared = s.tmPrepared
         /\ t.tmDecision = s.tmDecision
         /\ (/\ s.inbox["coordinator"] = <<ToCoordinator("Committed", r)>>
             /\ r \notin ToSet(s.tmCommitted))
              => CheckCReceiveCommit(r, s, t)
<1> DEFINE l == Logged(s, "coordinator")
           box == [l.inbox EXCEPT !["coordinator"] = <<>>]
           m == ToCoordinator("Committed", r)
<1>1. /\ l \in State /\ l.outbox = s.outbox /\ l.inbox = s.inbox
      /\ l.tmCommitted = s.tmCommitted /\ l.tmPrepared = s.tmPrepared
      /\ l.tmDecision = s.tmDecision
  BY LoggedFacts
<1> HIDE DEF l
<1>2. t = [l EXCEPT !.inbox = box, !.tmCommitted = Append(l.tmCommitted, r)]
  BY DEF l, WithCommitted
<1>3. l.inbox \in [Parties -> Seq(Message)] /\ <<>> \in Seq(Message)
  BY <1>1 DEF State
<1>4. box \in [Parties -> Seq(Message)] /\ box["coordinator"] = <<>>
  BY <1>3, BoxFacts
<1>5. l.tmCommitted \in Seq(Names) /\ Append(l.tmCommitted, r) \in Seq(Names)
  BY <1>1 DEF State
<1>6. m.mdest = "coordinator"
  BY MessageFacts
<1> HIDE DEF m
<1>7. s.inbox["coordinator"] = <<m>> /\ r \notin ToSet(s.tmCommitted) =>
        CheckCReceiveCommit(r, s, t)
  <2> SUFFICES ASSUME s.inbox["coordinator"] = <<m>>, r \notin ToSet(s.tmCommitted)
               PROVE  CheckCReceiveCommit(r, s, t)
    OBVIOUS
  <2>1. RemoveEach(l.inbox["coordinator"], m) = <<>>
    BY <1>1, RemoveOnly
  <2>2. Received(l, m) = [l EXCEPT !.inbox = box]
    BY <1>6, <2>1 DEF Received
  <2>3. Arrived(s, m)
    BY <1>6 DEF ToSet, Arrived
  <2> HIDE DEF box
  <2>4. t = [Received(l, m) EXCEPT !.tmCommitted = Append(@, r)]
    BY <1>1, <1>2, <2>2 DEF State
  <2> QED
    BY <2>3, <2>4 DEF CheckCReceiveCommit, m, l
<1> HIDE DEF box
<1>8. /\ t \in State /\ t.outbox = s.outbox /\ t.inbox["coordinator"] = <<>>
      /\ t.tmCommitted = Append(s.tmCommitted, r) /\ t.tmPrepared = s.tmPrepared
      /\ t.tmDecision = s.tmDecision
  BY <1>1, <1>2, <1>4, <1>5 DEF State
<1> QED
  BY <1>7, <1>8 DEF m

(***************************************************************************)
(* The steps that capture a state                                          *)
(***************************************************************************)

\* What CaptureState does with an event and what the summary makes of it.
LEMMA CaptureFacts ==
  ASSUME TypeOK, Unmixed, NEW p \in Puts, NEW typ, NEW arg, NEW t \in State,
         Capture(p, typ, arg, t)
  PROVE  /\ gs' \in [Puts -> State] /\ gs'[p] = t
         /\ \A q \in Puts : q # p => gs'[q] = gs[q]
         /\ trace' \in [last : Seq(State), verdict : {"ok", "failed"}]
         /\ trace'.last = <<t>>
         /\ \E prev \in State :
              /\ summary.last = {p} => prev = gs[p]
              /\ trace'.verdict = IF trace.verdict = "ok" /\ CheckEvent(typ, arg, prev, t)
                                    THEN "ok" ELSE "failed"
         /\ summary' \in [last : SUBSET Puts, order : {"apart", "mixed"}]
         /\ summary'.last = {p}
         /\ summary'.order = "apart" =>
              summary.order = "apart" /\ (typ = "Initial" \/ summary.last = {p})
<1>1. /\ gs' = [gs EXCEPT ![p] = t]
      /\ trace' = CaptureState(trace, typ, arg, t)
      /\ summary' = [last |-> {p},
                     order |-> IF typ = "Initial" \/ summary.last = {p}
                                 THEN summary.order ELSE "mixed"]
  BY DEF Capture
<1>2. /\ gs' \in [Puts -> State] /\ gs'[p] = t
      /\ \A q \in Puts : q # p => gs'[q] = gs[q]
  BY <1>1 DEF TypeOK
<1>3. /\ summary' \in [last : SUBSET Puts, order : {"apart", "mixed"}]
      /\ summary'.last = {p}
      /\ summary'.order = "apart" =>
           summary.order = "apart" /\ (typ = "Initial" \/ summary.last = {p})
  BY <1>1 DEF TypeOK
<1> DEFINE prev == IF trace.last = <<>> THEN t ELSE trace.last[1]
<1>4. prev \in State
  <2>1. trace.last \in Seq(State)
    BY DEF TypeOK
  <2> QED
    BY <2>1
<1>5. summary.last = {p} => prev = gs[p]
  <2>1. summary.last = {p} => trace.last = <<gs[p]>>
    BY DEF Unmixed
  <2>2. <<gs[p]>> # <<>> /\ <<gs[p]>>[1] = gs[p]
    OBVIOUS
  <2> QED
    BY <2>1, <2>2
<1>6. trace' = [last |-> <<t>>,
                verdict |-> IF trace.verdict = "ok" /\ CheckEvent(typ, arg, prev, t)
                              THEN "ok" ELSE "failed"]
  BY <1>1 DEF CaptureState
<1> HIDE DEF prev
<1>7. /\ trace' \in [last : Seq(State), verdict : {"ok", "failed"}]
      /\ trace'.last = <<t>>
      /\ trace'.verdict = IF trace.verdict = "ok" /\ CheckEvent(typ, arg, prev, t)
                            THEN "ok" ELSE "failed"
  BY <1>6
<1> QED
  BY <1>2, <1>3, <1>4, <1>5, <1>7

\* A Put that goes on to `at', at the follower f, and captures the state t on the
\* way: what has to be shown of t.
LEMMA StepKeeps ==
  ASSUME Inv, NEW p \in Puts, NEW typ, NEW arg, NEW t \in State,
         Capture(p, typ, arg, t), UNCHANGED N,
         NEW at \in Active, pc' = [pc EXCEPT ![p] = at],
         NEW f \in 1..N, follower' = [follower EXCEPT ![p] = f],
         Refines(t, at, f), at \in {"precommit", "finish"} => f = 1,
         N = 2 => \A prev \in State :
                    typ = "Initial" \/ prev = gs[p] => CheckEvent(typ, arg, prev, t),
         RejectsAt(at, f) =>
           Rejects(p) \/ \A prev \in State : ~CheckEvent(typ, arg, prev, t)
  PROVE  Inv'
<1>1. /\ gs' \in [Puts -> State] /\ gs'[p] = t
      /\ \A q \in Puts : q # p => gs'[q] = gs[q]
      /\ trace' \in [last : Seq(State), verdict : {"ok", "failed"}]
      /\ trace'.last = <<t>>
      /\ summary' \in [last : SUBSET Puts, order : {"apart", "mixed"}]
      /\ summary'.last = {p}
      /\ summary'.order = "apart" =>
           summary.order = "apart" /\ (typ = "Initial" \/ summary.last = {p})
  BY CaptureFacts DEF Inv
<1>2. PICK prev \in State :
        /\ summary.last = {p} => prev = gs[p]
        /\ trace'.verdict = IF trace.verdict = "ok" /\ CheckEvent(typ, arg, prev, t)
                              THEN "ok" ELSE "failed"
  BY CaptureFacts DEF Inv
<1>3. N \in 1..3 /\ N' = N /\ f \in 1..3 /\ f <= N
  BY DEF Inv, TypeOK
<1>4. /\ pc' \in [Puts -> Active \union {"idle", "done"}] /\ pc'[p] = at
      /\ \A q \in Puts : q # p => pc'[q] = pc[q]
  BY DEF Inv, TypeOK
<1>5. /\ follower' \in [Puts -> 1..3] /\ follower'[p] = f
      /\ \A q \in Puts : q # p => follower'[q] = follower[q]
      /\ \A q \in Puts : follower[q] <= N
  BY <1>3 DEF Inv, TypeOK
<1>6. \A q \in Puts : follower'[q] <= N
  BY <1>3, <1>5
<1>7. TypeOK'
  BY <1>1, <1>3, <1>4, <1>5, <1>6 DEF TypeOK
<1>8. Refined'
  <2> SUFFICES ASSUME NEW q \in Puts, pc'[q] \in Active
               PROVE  Refines(gs'[q], pc'[q], follower'[q])
    BY <1>3 DEF Refined, Refines
  <2>1. CASE q = p
    BY <1>1, <1>4, <1>5, <2>1
  <2>2. CASE q # p
    BY <1>1, <1>4, <1>5, <2>2 DEF Inv, Refined
  <2> QED
    BY <2>1, <2>2
<1>9. LoopsStart'
  BY <1>4, <1>5 DEF Inv, LoopsStart, Active
<1>10. Unmixed'
  <2>1. \A q \in Puts : summary'.last = {q} => trace'.last = <<gs'[q]>>
    <3> SUFFICES ASSUME NEW q \in Puts, summary'.last = {q}
                 PROVE  trace'.last = <<gs'[q]>>
      OBVIOUS
    <3>1. q = p
      BY <1>1
    <3> QED
      BY <1>1, <3>1
  <2>2. ASSUME N = 2, summary'.order = "apart" PROVE trace'.verdict = "ok"
    <3>1. trace.verdict = "ok"
      BY <1>1, <2>2 DEF Inv, Unmixed
    <3>2. typ = "Initial" \/ prev = gs[p]
      BY <1>1, <1>2, <2>2
    <3>3. CheckEvent(typ, arg, prev, t)
      BY <2>2, <3>2
    <3> QED
      BY <1>2, <3>1, <3>3
  <2> QED
    BY <1>3, <2>1, <2>2 DEF Unmixed
<1>11. Rejected'
  <2> SUFFICES ASSUME NEW q \in Puts, RejectsAt(pc'[q], follower'[q])
               PROVE  trace'.verdict = "failed"
    BY <1>3 DEF Rejected, Rejects, RejectsAt
  <2>1. CASE Rejects(q)
    <3>1. trace.verdict = "failed"
      BY <2>1 DEF Inv, Rejected
    <3> QED
      BY <1>2, <3>1
  <2>2. CASE ~Rejects(q)
    <3>1. q = p
      BY <1>4, <1>5, <2>2 DEF Rejects
    <3>2. \A x \in State : ~CheckEvent(typ, arg, x, t)
      BY <1>4, <1>5, <2>2, <3>1
    <3> QED
      BY <1>2, <3>2
  <2> QED
    BY <2>1, <2>2
<1> QED
  BY <1>7, <1>8, <1>9, <1>10, <1>11 DEF Inv

\* The check that belongs to each event that Put captures.
LEMMA EventChecks ==
  ASSUME NEW arg, NEW prev, NEW t
  PROVE  /\ CheckEvent("Initial", arg, prev, t) <=> CheckInitial(t)
         /\ CheckEvent("CSendPrepare", arg, prev, t) <=> CheckCSendPrepare(arg, prev, t)
         /\ CheckEvent("CReceivePrepare", arg, prev, t) <=>
              CheckCReceivePrepare(arg, prev, t)
         /\ CheckEvent("CSendCommit", arg, prev, t) <=> CheckCSendCommit(arg, prev, t)
         /\ CheckEvent("CReceiveCommit", arg, prev, t) <=>
              CheckCReceiveCommit(arg, prev, t)
         /\ CheckEvent("NetworkTakeMessage", arg, prev, t) <=>
              CheckNetworkTakeMessage(arg, prev, t)
         /\ CheckEvent("NetworkDeliverMessage", arg, prev, t) <=>
              CheckNetworkDeliverMessage(arg, prev, t)
BY DEF CheckEvent

\* Where a Put is, and the participant that stands for its follower.
LEMMA PutFacts ==
  ASSUME Inv, NEW p \in Puts
  PROVE  /\ N \in 1..3 /\ follower[p] \in 1..N /\ follower[p] \in 1..3
         /\ gs[p] \in State
         /\ RefineParty(p) = <<"r1", "r2", "r3">>[follower[p]]
         /\ RefineParty(p) \in Names
         /\ follower = [follower EXCEPT ![p] = follower[p]]
         /\ pc[p] \in Active => Refines(gs[p], pc[p], follower[p])
<1>1. /\ N \in 1..3 /\ follower[p] \in 1..3 /\ follower[p] <= N /\ gs[p] \in State
      /\ follower = [follower EXCEPT ![p] = follower[p]]
  BY DEF Inv, TypeOK
<1>2. RefineParty(p) = <<"r1", "r2", "r3">>[follower[p]]
  BY DEF RefineParty
<1>3. RefineParty(p) \in Names
  BY <1>1, <1>2, FirstGrows
<1> QED
  BY <1>1, <1>2, <1>3 DEF Inv, Refined

\* The first capture of a Put is right after anything.
LEMMA BeginKeeps ==
  ASSUME Inv, NEW p \in Puts, Begin(p)
  PROVE  Inv'
<1>1. /\ Capture(p, "Initial", 0, Starting) /\ pc' = [pc EXCEPT ![p] = "propose"]
      /\ UNCHANGED <<N, follower>> /\ pc[p] = "idle"
  BY DEF Begin, Goto
<1>2. follower[p] = 1
  BY <1>1 DEF Inv, LoopsStart
<1>3. Refines(Starting, "propose", 1)
  BY StartingFacts, FirstFacts DEF Refines, Proposing, Committing
<1>4. \A prev \in State : CheckEvent("Initial", 0, prev, Starting)
  BY EventChecks DEF CheckInitial
<1>5. ~RejectsAt("propose", 1)
  BY DEF RejectsAt, Committing
<1>6. "propose" \in Active /\ 1 \in 1..N /\ follower' = [follower EXCEPT ![p] = 1]
  BY <1>1, <1>2, PutFacts DEF Active
<1> QED
  BY <1>1, <1>3, <1>4, <1>5, <1>6, StartingFacts, StepKeeps

\* A Prepare is sent: the last of three follows from nothing.
LEMMA SendPrepareKeeps ==
  ASSUME Inv, NEW p \in Puts,
         SendMessage(p, "propose", "CSendPrepare", "Prepare", gs[p].tmDecision,
                     "takePrepare")
  PROVE  Inv'
<1> DEFINE s == gs[p]  f == follower[p]  r == RefineParty(p)
           m == ToParty("Prepare", r)
           t == WithSent(s, m, s.tmDecision)
<1>1. /\ Capture(p, "CSendPrepare", r, t) /\ pc' = [pc EXCEPT ![p] = "takePrepare"]
      /\ UNCHANGED <<N, follower>> /\ pc[p] = "propose"
  BY DEF SendMessage, Goto, WithSent
<1>2. /\ N \in 1..3 /\ f \in 1..N /\ f \in 1..3 /\ s \in State /\ r \in Names
      /\ r = <<"r1", "r2", "r3">>[f] /\ Refines(s, "propose", f)
      /\ follower' = [follower EXCEPT ![p] = f]
  BY <1>1, PutFacts DEF Active
<1>3. /\ s.outbox["coordinator"] = <<>> /\ s.inbox["coordinator"] = <<>>
      /\ s.tmPrepared = First(f - 1) /\ s.tmCommitted = <<>> /\ s.tmDecision = "none"
  BY <1>2 DEF Refines, Proposing, Committing
<1>4. m \in Message /\ m.msource = "coordinator"
  BY <1>2, MessageFacts
<1> HIDE DEF s, f, r
<1>5. /\ t \in State /\ t.outbox["coordinator"] = <<m>> /\ t.inbox = s.inbox
      /\ t.tmPrepared = s.tmPrepared /\ t.tmCommitted = s.tmCommitted
      /\ t.tmDecision = s.tmDecision /\ t = Sent(Logged(s, "coordinator"), m)
  <2> HIDE DEF m
  <2>1. s.tmDecision \in {"none", "commit"}
    BY <1>3
  <2>2. \A d \in {"none", "commit"} :
          /\ WithSent(s, m, d) \in State
          /\ WithSent(s, m, d).outbox["coordinator"] = <<m>>
          /\ WithSent(s, m, d).inbox = s.inbox
          /\ WithSent(s, m, d).tmPrepared = s.tmPrepared
          /\ WithSent(s, m, d).tmCommitted = s.tmCommitted
          /\ WithSent(s, m, d).tmDecision = d
          /\ d = s.tmDecision => WithSent(s, m, d) = Sent(Logged(s, "coordinator"), m)
    BY <1>2, <1>3, <1>4, SendFacts
  <2> QED
    BY <2>1, <2>2, Zenon
<1> HIDE DEF t
<1>6. Refines(t, "takePrepare", f)
  BY <1>2, <1>3, <1>5 DEF Refines, Proposing, Committing
<1>7. N = 2 => CheckEvent("CSendPrepare", r, s, t)
  <2>1. N = 2 => ToSet(s.tmPrepared) # RM
    BY <1>2, <1>3, FirstAreAll
  <2> QED
    BY <1>3, <1>5, <2>1, EventChecks DEF CheckCSendPrepare
<1>8. ASSUME RejectsAt("takePrepare", f), NEW prev \in State
      PROVE  ~CheckEvent("CSendPrepare", r, prev, t)
  <2>1. f = 3
    BY <1>8 DEF RejectsAt, Committing
  <2>2. ToSet(t.tmPrepared) = RM
    BY <1>3, <1>5, <2>1, FirstAreAll
  <2>3. t = Sent(Logged(prev, "coordinator"), m) => t.tmPrepared = prev.tmPrepared
    BY SentKeepsPrepared
  <2>4. CheckEvent("CSendPrepare", r, prev, t) <=> CheckCSendPrepare(r, prev, t)
    BY EventChecks
  <2> QED
    BY <2>2, <2>3, <2>4 DEF CheckCSendPrepare
<1>9. "takePrepare" \in Active
  BY DEF Active
<1>10. N = 2 => \A prev \in State : "CSendPrepare" = "Initial" \/ prev = gs[p] =>
                  CheckEvent("CSendPrepare", r, prev, t)
  BY <1>7 DEF s
<1>11. RejectsAt("takePrepare", f) =>
         Rejects(p) \/ \A prev \in State : ~CheckEvent("CSendPrepare", r, prev, t)
  BY <1>8
<1> QED
  BY <1>1, <1>2, <1>5, <1>6, <1>9, <1>10, <1>11, StepKeeps

\* A Commit is sent: that of a single follower follows from nothing.
LEMMA SendCommitKeeps ==
  ASSUME Inv, NEW p \in Puts,
         SendMessage(p, "commit", "CSendCommit", "Commit", "commit", "takeCommit")
  PROVE  Inv'
<1> DEFINE s == gs[p]  f == follower[p]  r == RefineParty(p)
           m == ToParty("Commit", r)
           t == WithSent(s, m, "commit")
<1>1. /\ Capture(p, "CSendCommit", r, t) /\ pc' = [pc EXCEPT ![p] = "takeCommit"]
      /\ UNCHANGED <<N, follower>> /\ pc[p] = "commit"
  BY DEF SendMessage, Goto, WithSent
<1>2. /\ N \in 1..3 /\ f \in 1..N /\ f \in 1..3 /\ s \in State /\ r \in Names
      /\ r = <<"r1", "r2", "r3">>[f] /\ Refines(s, "commit", f)
      /\ follower' = [follower EXCEPT ![p] = f]
  BY <1>1, PutFacts DEF Active
<1>3. /\ s.outbox["coordinator"] = <<>> /\ s.inbox["coordinator"] = <<>>
      /\ s.tmPrepared = First(N) /\ s.tmCommitted = First(f - 1)
      /\ s.tmDecision # "abort"
  BY <1>2 DEF Refines, Proposing, Committing, State
<1>4. m \in Message /\ m.msource = "coordinator"
  BY <1>2, MessageFacts
<1>5. RejectsAt("takeCommit", f) => N = 1 \/ Rejects(p)
  BY <1>1 DEF RejectsAt, Rejects, Committing
<1> HIDE DEF s, f, r
<1>6. /\ t \in State /\ t.outbox["coordinator"] = <<m>> /\ t.inbox = s.inbox
      /\ t.tmPrepared = s.tmPrepared /\ t.tmCommitted = s.tmCommitted
      /\ t = [Sent(Logged(s, "coordinator"), m) EXCEPT !.tmDecision = "commit"]
  <2> HIDE DEF m
  <2> QED
    BY <1>2, <1>3, <1>4, SendFacts
<1> HIDE DEF t
<1>7. Refines(t, "takeCommit", f)
  BY <1>2, <1>3, <1>6 DEF Refines, Proposing, Committing
<1>8. N = 2 => CheckEvent("CSendCommit", r, s, t)
  <2>1. N = 2 => ToSet(s.tmPrepared) = RM
    BY <1>3, FirstAreAll
  <2> QED
    BY <1>3, <1>6, <2>1, EventChecks DEF CheckCSendCommit
<1>9. ASSUME N = 1, NEW prev \in State
      PROVE  ~CheckEvent("CSendCommit", r, prev, t)
  <2>1. ToSet(t.tmPrepared) # RM
    BY <1>3, <1>6, <1>9, FirstAreAll
  <2>2. t = [Sent(Logged(prev, "coordinator"), m) EXCEPT !.tmDecision = "commit"] =>
          t.tmPrepared = prev.tmPrepared
    BY SentKeepsPrepared
  <2>3. CheckEvent("CSendCommit", r, prev, t) <=> CheckCSendCommit(r, prev, t)
    BY EventChecks
  <2> QED
    BY <2>1, <2>2, <2>3 DEF CheckCSendCommit
<1>10. "takeCommit" \in Active
  BY DEF Active
<1>11. N = 2 => \A prev \in State : "CSendCommit" = "Initial" \/ prev = gs[p] =>
                  CheckEvent("CSendCommit", r, prev, t)
  BY <1>8 DEF s
<1>12. RejectsAt("takeCommit", f) =>
         Rejects(p) \/ \A prev \in State : ~CheckEvent("CSendCommit", r, prev, t)
  BY <1>5, <1>9
<1>13. t \in State /\ "takeCommit" \notin {"precommit", "finish"}
  BY <1>6
<1> QED
  BY <1>1, <1>2, <1>7, <1>10, <1>11, <1>12, <1>13, StepKeeps

\* The network takes a Prepare.
LEMMA TakePrepareKeeps ==
  ASSUME Inv, NEW p \in Puts, TakeMessage(p, "takePrepare", "Prepare", "proposing")
  PROVE  Inv'
<1> DEFINE s == gs[p]  f == follower[p]  r == RefineParty(p)
           m == ToParty("Prepare", r)
           t == WithTaken(s)
<1>1. /\ Capture(p, "NetworkTakeMessage", m, t) /\ pc' = [pc EXCEPT ![p] = "proposing"]
      /\ UNCHANGED <<N, follower>> /\ pc[p] = "takePrepare"
  BY DEF TakeMessage, Goto, WithTaken
<1>2. /\ N \in 1..3 /\ f \in 1..N /\ f \in 1..3 /\ s \in State /\ r \in Names
      /\ r = <<"r1", "r2", "r3">>[f] /\ Refines(s, "takePrepare", f)
      /\ follower' = [follower EXCEPT ![p] = f]
  BY <1>1, PutFacts DEF Active
<1>3. /\ s.outbox["coordinator"] = <<m>> /\ s.inbox["coordinator"] = <<>>
      /\ s.tmPrepared = First(f - 1) /\ s.tmCommitted = <<>> /\ s.tmDecision = "none"
  BY <1>2 DEF Refines, Proposing, Committing
<1>4. m \in Message /\ m.msource = "coordinator"
  BY <1>2, MessageFacts
<1>5. RejectsAt("proposing", f) => Rejects(p)
  BY <1>1 DEF RejectsAt, Rejects, Committing
<1> HIDE DEF s, f, r, m
<1>6. /\ t \in State /\ t.outbox["coordinator"] = <<>> /\ t.inbox = s.inbox
      /\ t.tmPrepared = s.tmPrepared /\ t.tmCommitted = s.tmCommitted
      /\ t.tmDecision = s.tmDecision /\ CheckNetworkTakeMessage(m, s, t)
  BY <1>2, <1>3, <1>4, TakeFacts
<1> HIDE DEF t
<1>7. Refines(t, "proposing", f)
  BY <1>3, <1>6 DEF Refines, Proposing, Committing
<1>8. \A prev \in State : "NetworkTakeMessage" = "Initial" \/ prev = gs[p] =>
        CheckEvent("NetworkTakeMessage", m, prev, t)
  <2>1. CheckEvent("NetworkTakeMessage", m, s, t)
    BY <1>6, EventChecks
  <2> QED
    BY <2>1 DEF s
<1>9. t \in State /\ "proposing" \in Active
  BY <1>6 DEF Active
<1> QED
  BY <1>1, <1>2, <1>5, <1>7, <1>8, <1>9, StepKeeps

\* The network takes a Commit.
LEMMA TakeCommitKeeps ==
  ASSUME Inv, NEW p \in Puts, TakeMessage(p, "takeCommit", "Commit", "committing")
  PROVE  Inv'
<1> DEFINE s == gs[p]  f == follower[p]  r == RefineParty(p)
           m == ToParty("Commit", r)
           t == WithTaken(s)
<1>1. /\ Capture(p, "NetworkTakeMessage", m, t) /\ pc' = [pc EXCEPT ![p] = "committing"]
      /\ UNCHANGED <<N, follower>> /\ pc[p] = "takeCommit"
  BY DEF TakeMessage, Goto, WithTaken
<1>2. /\ N \in 1..3 /\ f \in 1..N /\ f \in 1..3 /\ s \in State /\ r \in Names
      /\ r = <<"r1", "r2", "r3">>[f] /\ Refines(s, "takeCommit", f)
      /\ follower' = [follower EXCEPT ![p] = f]
  BY <1>1, PutFacts DEF Active
<1>3. /\ s.outbox["coordinator"] = <<m>> /\ s.inbox["coordinator"] = <<>>
      /\ s.tmPrepared = First(N) /\ s.tmCommitted = First(f - 1)
  BY <1>2 DEF Refines, Proposing, Committing
<1>4. m \in Message /\ m.msource = "coordinator"
  BY <1>2, MessageFacts
<1>5. RejectsAt("committing", f) => Rejects(p)
  BY <1>1 DEF RejectsAt, Rejects, Committing
<1> HIDE DEF s, f, r, m
<1>6. /\ t \in State /\ t.outbox["coordinator"] = <<>> /\ t.inbox = s.inbox
      /\ t.tmPrepared = s.tmPrepared /\ t.tmCommitted = s.tmCommitted
      /\ t.tmDecision = s.tmDecision /\ CheckNetworkTakeMessage(m, s, t)
  BY <1>2, <1>3, <1>4, TakeFacts
<1> HIDE DEF t
<1>7. Refines(t, "committing", f)
  BY <1>3, <1>6 DEF Refines, Proposing, Committing
<1>8. \A prev \in State : "NetworkTakeMessage" = "Initial" \/ prev = gs[p] =>
        CheckEvent("NetworkTakeMessage", m, prev, t)
  <2>1. CheckEvent("NetworkTakeMessage", m, s, t)
    BY <1>6, EventChecks
  <2> QED
    BY <2>1 DEF s
<1>9. t \in State /\ "committing" \in Active
  BY <1>6 DEF Active
<1> QED
  BY <1>1, <1>2, <1>5, <1>7, <1>8, <1>9, StepKeeps

\* The network delivers the answer to a Prepare.
LEMMA DeliverPreparedKeeps ==
  ASSUME Inv, NEW p \in Puts, DeliverMessage(p, "proposing", "Prepared", "receivePrepare")
  PROVE  Inv'
<1> DEFINE s == gs[p]  f == follower[p]  r == RefineParty(p)
           m == ToCoordinator("Prepared", r)
           t == WithAnswer(s, m)
<1>1. /\ Capture(p, "NetworkDeliverMessage", m, t) /\ pc' = [pc EXCEPT ![p] = "receivePrepare"]
      /\ UNCHANGED <<N, follower>> /\ pc[p] = "proposing"
  BY DEF DeliverMessage, Goto, WithAnswer
<1>2. /\ N \in 1..3 /\ f \in 1..N /\ f \in 1..3 /\ s \in State /\ r \in Names
      /\ r = <<"r1", "r2", "r3">>[f] /\ Refines(s, "proposing", f)
      /\ follower' = [follower EXCEPT ![p] = f]
  BY <1>1, PutFacts DEF Active
<1>3. /\ s.outbox["coordinator"] = <<>> /\ s.inbox["coordinator"] = <<>>
      /\ s.tmPrepared = First(f - 1) /\ s.tmCommitted = <<>> /\ s.tmDecision = "none"
  BY <1>2 DEF Refines, Proposing, Committing
<1>4. m \in Message /\ m.mdest = "coordinator"
  BY <1>2, MessageFacts
<1>5. RejectsAt("receivePrepare", f) => Rejects(p)
  BY <1>1 DEF RejectsAt, Rejects, Committing
<1> HIDE DEF s, f, r
<1>6. /\ t \in State /\ t.outbox = s.outbox /\ t.inbox["coordinator"] = <<m>>
      /\ t.tmPrepared = s.tmPrepared /\ t.tmCommitted = s.tmCommitted
      /\ t.tmDecision = s.tmDecision /\ CheckNetworkDeliverMessage(m, s, t)
  <2> HIDE DEF m
  <2> QED
    BY <1>2, <1>3, <1>4, DeliverFacts
<1> HIDE DEF t
<1>7. Refines(t, "receivePrepare", f)
  BY <1>2, <1>3, <1>6 DEF Refines, Proposing, Committing
<1> HIDE DEF m
<1>8. \A prev \in State : "NetworkDeliverMessage" = "Initial" \/ prev = gs[p] =>
        CheckEvent("NetworkDeliverMessage", m, prev, t)
  <2>1. CheckEvent("NetworkDeliverMessage", m, s, t)
    BY <1>6, EventChecks
  <2> QED
    BY <2>1 DEF s
<1>9. t \in State /\ "receivePrepare" \in Active
  BY <1>6 DEF Active
<1> QED
  BY <1>1, <1>2, <1>5, <1>7, <1>8, <1>9, StepKeeps

\* The network delivers the answer to a Commit.
LEMMA DeliverCommittedKeeps ==
  ASSUME Inv, NEW p \in Puts, DeliverMessage(p, "committing", "Committed", "receiveCommit")
  PROVE  Inv'
<1> DEFINE s == gs[p]  f == follower[p]  r == RefineParty(p)
           m == ToCoordinator("Committed", r)
           t == WithAnswer(s, m)
<1>1. /\ Capture(p, "NetworkDeliverMessage", m, t) /\ pc' = [pc EXCEPT ![p] = "receiveCommit"]
      /\ UNCHANGED <<N, follower>> /\ pc[p] = "committing"
  BY DEF DeliverMessage, Goto, WithAnswer
<1>2. /\ N \in 1..3 /\ f \in 1..N /\ f \in 1..3 /\ s \in State /\ r \in Names
      /\ r = <<"r1", "r2", "r3">>[f] /\ Refines(s, "committing", f)
      /\ follower' = [follower EXCEPT ![p] = f]
  BY <1>1, PutFacts DEF Active
<1>3. /\ s.outbox["coordinator"] = <<>> /\ s.inbox["coordinator"] = <<>>
      /\ s.tmPrepared = First(N) /\ s.tmCommitted = First(f - 1)
  BY <1>2 DEF Refines, Proposing, Committing
<1>4. m \in Message /\ m.mdest = "coordinator"
  BY <1>2, MessageFacts
<1>5. RejectsAt("receiveCommit", f) => Rejects(p)
  BY <1>1 DEF RejectsAt, Rejects, Committing
<1> HIDE DEF s, f, r
<1>6. /\ t \in State /\ t.outbox = s.outbox /\ t.inbox["coordinator"] = <<m>>
      /\ t.tmPrepared = s.tmPrepared /\ t.tmCommitted = s.tmCommitted
      /\ t.tmDecision = s.tmDecision /\ CheckNetworkDeliverMessage(m, s, t)
  <2> HIDE DEF m
  <2> QED
    BY <1>2, <1>3, <1>4, DeliverFacts
<1> HIDE DEF t
<1>7. Refines(t, "receiveCommit", f)
  BY <1>2, <1>3, <1>6 DEF Refines, Proposing, Committing
<1> HIDE DEF m
<1>8. \A prev \in State : "NetworkDeliverMessage" = "Initial" \/ prev = gs[p] =>
        CheckEvent("NetworkDeliverMessage", m, prev, t)
  <2>1. CheckEvent("NetworkDeliverMessage", m, s, t)
    BY <1>6, EventChecks
  <2> QED
    BY <2>1 DEF s
<1>9. t \in State /\ "receiveCommit" \in Active
  BY <1>6 DEF Active
<1> QED
  BY <1>1, <1>2, <1>5, <1>7, <1>8, <1>9, StepKeeps

\* The coordinator receives the answer to a Prepare and goes on to the next
\* follower, or to the next loop.
LEMMA ReceivePrepareKeeps ==
  ASSUME Inv, NEW p \in Puts, ReceivePrepare(p)
  PROVE  Inv'
<1> DEFINE s == gs[p]  f == follower[p]  r == RefineParty(p)
           m == ToCoordinator("Prepared", r)
           t == WithPrepared(s, r)
           at == IF f < N THEN "propose" ELSE "precommit"
           g == IF f < N THEN f + 1 ELSE 1
<1>1. /\ Capture(p, "CReceivePrepare", r, t) /\ pc' = [pc EXCEPT ![p] = at]
      /\ follower' = [follower EXCEPT ![p] = g]
      /\ UNCHANGED N /\ pc[p] = "receivePrepare"
  BY DEF ReceivePrepare, NextFollower, Goto, WithPrepared
<1>2. /\ N \in 1..3 /\ f \in 1..N /\ f \in 1..3 /\ s \in State /\ r \in Names
      /\ r = <<"r1", "r2", "r3">>[f] /\ Refines(s, "receivePrepare", f)
  BY <1>1, PutFacts DEF Active
<1>3. /\ s.outbox["coordinator"] = <<>> /\ s.inbox["coordinator"] = <<m>>
      /\ s.tmPrepared = First(f - 1) /\ s.tmCommitted = <<>> /\ s.tmDecision = "none"
  BY <1>2 DEF Refines, Proposing, Committing
<1>4. r \notin ToSet(s.tmPrepared) /\ Append(s.tmPrepared, r) = First(f)
  BY <1>2, <1>3, FirstGrows
<1>5. RejectsAt(at, g) => Rejects(p)
  BY <1>1, <1>2 DEF RejectsAt, Rejects, Committing
<1>6. \/ f < N /\ at = "propose" /\ g = f + 1 /\ g - 1 = f
      \/ f = N /\ at = "precommit" /\ g = 1
  BY <1>2
<1> HIDE DEF s, f, r, at, g
<1>7. g \in 1..N /\ at \in Active /\ (at \in {"precommit", "finish"} => g = 1)
  BY <1>2, <1>6 DEF Active
<1>8. /\ t \in State /\ t.outbox = s.outbox /\ t.inbox["coordinator"] = <<>>
      /\ t.tmPrepared = Append(s.tmPrepared, r) /\ t.tmCommitted = s.tmCommitted
      /\ t.tmDecision = s.tmDecision /\ CheckCReceivePrepare(r, s, t)
  BY <1>2, <1>3, <1>4, ReceivePrepareFacts
<1> HIDE DEF t, m
<1>9. /\ t.outbox["coordinator"] = <<>> /\ t.inbox["coordinator"] = <<>>
      /\ t.tmPrepared = First(f)
  BY <1>3, <1>4, <1>8
<1>10. Refines(t, at, g)
  <2>1. CASE f < N /\ at = "propose" /\ g = f + 1 /\ g - 1 = f
    BY <1>3, <1>8, <1>9, <2>1 DEF Refines, Proposing, Committing
  <2>2. CASE f = N /\ at = "precommit" /\ g = 1
    BY <1>3, <1>8, <1>9, <2>2 DEF Refines, Proposing, Committing
  <2> QED
    BY <1>6, <2>1, <2>2
<1>11. \A prev \in State : "CReceivePrepare" = "Initial" \/ prev = gs[p] =>
         CheckEvent("CReceivePrepare", r, prev, t)
  <2>1. CheckEvent("CReceivePrepare", r, s, t)
    BY <1>8, EventChecks
  <2> QED
    BY <2>1 DEF s
<1>12. t \in State
  BY <1>8
<1> QED
  BY <1>1, <1>2, <1>5, <1>7, <1>10, <1>11, <1>12, StepKeeps

\* The coordinator receives the answer to a Commit and goes on to the next
\* follower, or to the next loop.
LEMMA ReceiveCommitKeeps ==
  ASSUME Inv, NEW p \in Puts, ReceiveCommit(p)
  PROVE  Inv'
<1> DEFINE s == gs[p]  f == follower[p]  r == RefineParty(p)
           m == ToCoordinator("Committed", r)
           t == WithCommitted(s, r)
           at == IF f < N THEN "commit" ELSE "finish"
           g == IF f < N THEN f + 1 ELSE 1
<1>1. /\ Capture(p, "CReceiveCommit", r, t) /\ pc' = [pc EXCEPT ![p] = at]
      /\ follower' = [follower EXCEPT ![p] = g]
      /\ UNCHANGED N /\ pc[p] = "receiveCommit"
  BY DEF ReceiveCommit, NextFollower, Goto, WithCommitted
<1>2. /\ N \in 1..3 /\ f \in 1..N /\ f \in 1..3 /\ s \in State /\ r \in Names
      /\ r = <<"r1", "r2", "r3">>[f] /\ Refines(s, "receiveCommit", f)
  BY <1>1, PutFacts DEF Active
<1>3. /\ s.outbox["coordinator"] = <<>> /\ s.inbox["coordinator"] = <<m>>
      /\ s.tmPrepared = First(N) /\ s.tmCommitted = First(f - 1)
  BY <1>2 DEF Refines, Proposing, Committing
<1>4. r \notin ToSet(s.tmCommitted) /\ Append(s.tmCommitted, r) = First(f)
  BY <1>2, <1>3, FirstGrows
<1>5. RejectsAt(at, g) => Rejects(p)
  BY <1>1, <1>2 DEF RejectsAt, Rejects, Committing
<1>6. \/ f < N /\ at = "commit" /\ g = f + 1 /\ g - 1 = f
      \/ f = N /\ at = "finish" /\ g = 1
  BY <1>2
<1> HIDE DEF s, f, r, at, g
<1>7. g \in 1..N /\ at \in Active /\ (at \in {"precommit", "finish"} => g = 1)
  BY <1>2, <1>6 DEF Active
<1>8. /\ t \in State /\ t.outbox = s.outbox /\ t.inbox["coordinator"] = <<>>
      /\ t.tmCommitted = Append(s.tmCommitted, r) /\ t.tmPrepared = s.tmPrepared
      /\ t.tmDecision = s.tmDecision /\ CheckCReceiveCommit(r, s, t)
  BY <1>2, <1>3, <1>4, ReceiveCommitFacts
<1> HIDE DEF t, m
<1>9. /\ t.outbox["coordinator"] = <<>> /\ t.inbox["coordinator"] = <<>>
      /\ t.tmCommitted = First(f)
  BY <1>3, <1>4, <1>8
<1>10. Refines(t, at, g)
  <2>1. CASE f < N /\ at = "commit" /\ g = f + 1 /\ g - 1 = f
    BY <1>3, <1>8, <1>9, <2>1 DEF Refines, Proposing, Committing
  <2>2. CASE f = N /\ at = "finish" /\ g = 1
    BY <1>3, <1>8, <1>9, <2>2 DEF Refines, Proposing, Committing
  <2> QED
    BY <1>6, <2>1, <2>2
<1>11. \A prev \in State : "CReceiveCommit" = "Initial" \/ prev = gs[p] =>
         CheckEvent("CReceiveCommit", r, prev, t)
  <2>1. CheckEvent("CReceiveCommit", r, s, t)
    BY <1>8, EventChecks
  <2> QED
    BY <2>1 DEF s
<1>12. t \in State
  BY <1>8
<1> QED
  BY <1>1, <1>2, <1>5, <1>7, <1>10, <1>11, <1>12, StepKeeps

(***************************************************************************)
(* The other steps, and the theorem                                        *)
(***************************************************************************)

\* A Put that moves on without a capture, to a place where its state is right.
LEMMA SilentStepKeeps ==
  ASSUME Inv, NEW p \in Puts, UNCHANGED <<N, follower, gs, trace, summary>>,
         NEW at \in Active \union {"done"}, pc' = [pc EXCEPT ![p] = at],
         at \in Active => Refines(gs[p], at, follower[p]),
         at \notin {"precommit", "finish"},
         RejectsAt(at, follower[p]) => Rejects(p)
  PROVE  Inv'
<1>1. /\ pc' \in [Puts -> Active \union {"idle", "done"}] /\ pc'[p] = at
      /\ \A q \in Puts : q # p => pc'[q] = pc[q]
  BY DEF Inv, TypeOK
<1>2. TypeOK' /\ Unmixed'
  BY <1>1 DEF Inv, TypeOK, Unmixed
<1>3. Refined'
  <2> SUFFICES ASSUME NEW q \in Puts, pc'[q] \in Active
               PROVE  Refines(gs[q], pc'[q], follower[q])
    BY DEF Refined, Refines
  <2> QED
    BY <1>1 DEF Inv, Refined
<1>4. LoopsStart'
  BY <1>1 DEF Inv, LoopsStart, Active
<1>5. Rejected'
  <2> SUFFICES ASSUME NEW q \in Puts, RejectsAt(pc'[q], follower[q])
               PROVE  trace.verdict = "failed"
    BY DEF Rejected, Rejects, RejectsAt
  <2>1. Rejects(q)
    BY <1>1 DEF Rejects
  <2> QED
    BY <2>1 DEF Inv, Rejected
<1> QED
  BY <1>2, <1>3, <1>4, <1>5 DEF Inv

\* The retry of a Propose, the database, and an error.
LEMMA SilentStepsKeep ==
  ASSUME Inv, NEW p \in Puts, Retry(p) \/ Persist(p) \/ GiveUp(p)
  PROVE  Inv'
<1>0. /\ UNCHANGED <<N, follower, gs, trace, summary>>
      /\ pc[p] \in Active => Refines(gs[p], pc[p], follower[p])
  BY PutFacts DEF Retry, Persist, GiveUp
<1>1. CASE Retry(p)
  <2>1. pc[p] = "proposing" /\ pc' = [pc EXCEPT ![p] = "propose"]
    BY <1>1 DEF Retry, Goto
  <2>2. Refines(gs[p], "proposing", follower[p])
    BY <1>0, <2>1 DEF Active
  <2>3. Refines(gs[p], "propose", follower[p])
    BY <2>2 DEF Refines, Proposing, Committing
  <2>4. ~RejectsAt("propose", follower[p]) /\ "propose" \in Active
    BY DEF RejectsAt, Committing, Active
  <2> QED
    BY <1>0, <2>1, <2>3, <2>4, SilentStepKeeps
<1>2. CASE Persist(p)
  <2>1. pc[p] = "precommit" /\ pc' = [pc EXCEPT ![p] = "commit"]
    BY <1>2 DEF Persist, Goto
  <2>2. Refines(gs[p], "precommit", follower[p]) /\ follower[p] = 1
    BY <1>0, <2>1 DEF Active, Inv, LoopsStart
  <2>3. First(follower[p] - 1) = <<>>
    BY <2>2, FirstFacts
  <2>4. Refines(gs[p], "commit", follower[p])
    BY <2>2, <2>3 DEF Refines, Proposing, Committing
  <2>5. RejectsAt("commit", follower[p]) => Rejects(p)
    BY <2>1 DEF RejectsAt, Rejects, Committing
  <2>6. "commit" \in Active
    BY DEF Active
  <2> QED
    BY <1>0, <2>1, <2>4, <2>5, <2>6, SilentStepKeeps
<1>3. CASE GiveUp(p)
  <2>1. pc' = [pc EXCEPT ![p] = "done"]
    BY <1>3 DEF GiveUp, Goto
  <2>2. ~RejectsAt("done", follower[p]) /\ "done" \notin Active
    BY DEF RejectsAt, Committing, Active
  <2> QED
    BY <1>0, <2>1, <2>2, SilentStepKeeps
<1> QED
  BY <1>1, <1>2, <1>3

\* Only an accepted trace is reset, and then no Put has spoilt it.
LEMMA FinishKeeps ==
  ASSUME Inv, NEW p \in Puts, Finish(p)
  PROVE  Inv'
<1>1. /\ trace.verdict = "ok" /\ trace' = EmptyTrace
      /\ summary' = [last |-> {}, order |-> "apart"]
      /\ pc' = [pc EXCEPT ![p] = "done"] /\ UNCHANGED <<N, follower, gs>>
  BY DEF Finish, CheckTrace, Goto
<1>2. /\ pc' \in [Puts -> Active \union {"idle", "done"}] /\ pc'[p] = "done"
      /\ \A q \in Puts : q # p => pc'[q] = pc[q]
  BY <1>1 DEF Inv, TypeOK
<1>3. /\ trace' \in [last : Seq(State), verdict : {"ok", "failed"}]
      /\ trace'.verdict = "ok"
  BY <1>1 DEF EmptyTrace
<1>4. /\ summary' \in [last : SUBSET Puts, order : {"apart", "mixed"}]
      /\ summary'.last = {}
  BY <1>1
<1>5. TypeOK'
  BY <1>1, <1>2, <1>3, <1>4 DEF Inv, TypeOK
<1>6. Unmixed'
  BY <1>3, <1>4 DEF Unmixed
<1>7. Refined'
  <2> SUFFICES ASSUME NEW q \in Puts, pc'[q] \in Active
               PROVE  Refines(gs[q], pc'[q], follower[q])
    BY <1>1 DEF Refined, Refines
  <2>1. q # p
    BY <1>2 DEF Active
  <2> QED
    BY <1>2, <2>1 DEF Inv, Refined
<1>8. LoopsStart'
  BY <1>1, <1>2 DEF Inv, LoopsStart
<1>9. Rejected'
  <2> SUFFICES ASSUME NEW q \in Puts, RejectsAt(pc'[q], follower[q])
               PROVE  FALSE
    BY <1>1 DEF Rejected, Rejects, RejectsAt
  <2>1. q # p
    BY <1>2 DEF RejectsAt, Committing
  <2>2. Rejects(q)
    BY <1>2, <2>1 DEF Rejects
  <2> QED
    BY <1>1, <2>2 DEF Inv, Rejected
<1> QED
  BY <1>5, <1>6, <1>7, <1>8, <1>9 DEF Inv

\* Nothing has been captured at the start.
LEMMA InitInv == Init => Inv
<1> SUFFICES ASSUME Init PROVE Inv
  OBVIOUS
<1>1. N \in 1..3 /\ trace = EmptyTrace /\ summary = [last |-> {}, order |-> "apart"]
  BY MonitoredAssumption DEF Init
<1>2. /\ pc = [p \in Puts |-> "idle"] /\ follower = [p \in Puts |-> 1]
      /\ gs = [p \in Puts |-> Starting]
  BY DEF Init
<1>3. trace \in [last : Seq(State), verdict : {"ok", "failed"}] /\ trace.verdict = "ok"
  BY <1>1 DEF EmptyTrace
<1>4. gs \in [Puts -> State]
  BY <1>2, StartingFacts
<1>5. TypeOK
  BY <1>1, <1>2, <1>3, <1>4 DEF TypeOK
<1>6. \A p \in Puts : pc[p] = "idle" /\ follower[p] = 1
  BY <1>2
<1>7. Refined /\ LoopsStart
  BY <1>6 DEF Refined, LoopsStart, Active
<1>8. Unmixed
  BY <1>1, <1>3 DEF Unmixed
<1>9. Rejected
  BY <1>6 DEF Rejected, Rejects, RejectsAt, Committing
<1> QED
  BY <1>5, <1>7, <1>8, <1>9 DEF Inv

\* Every step keeps the invariant, whoever takes it.
LEMMA StepInv == Inv /\ [Next]_vars => Inv'
<1> SUFFICES ASSUME Inv, [Next]_vars PROVE Inv'
  OBVIOUS
<1>1. ASSUME NEW p \in Puts, PutStep(p) PROVE Inv'
  <2>1. CASE Begin(p)
    BY <2>1, BeginKeeps
  <2>2. CASE SendMessage(p, "propose", "CSendPrepare", "Prepare", gs[p].tmDecision,
                         "takePrepare")
    BY <2>2, SendPrepareKeeps
  <2>3. CASE TakeMessage(p, "takePrepare", "Prepare", "proposing")
    BY <2>3, TakePrepareKeeps
  <2>4. CASE Retry(p) \/ Persist(p) \/ GiveUp(p)
    BY <2>4, SilentStepsKeep
  <2>5. CASE DeliverMessage(p, "proposing", "Prepared", "receivePrepare")
    BY <2>5, DeliverPreparedKeeps
  <2>6. CASE ReceivePrepare(p)
    BY <2>6, ReceivePrepareKeeps
  <2>7. CASE SendMessage(p, "commit", "CSendCommit", "Commit", "commit", "takeCommit")
    BY <2>7, SendCommitKeeps
  <2>8. CASE TakeMessage(p, "takeCommit", "Commit", "committing")
    BY <2>8, TakeCommitKeeps
  <2>9. CASE DeliverMessage(p, "committing", "Committed", "receiveCommit")
    BY <2>9, DeliverCommittedKeeps
  <2>10. CASE ReceiveCommit(p)
    BY <2>10, ReceiveCommitKeeps
  <2>11. CASE Finish(p)
    BY <2>11, FinishKeeps
  <2>12. CASE Panic(p)
    BY <2>12 DEF Panic, Inv, TypeOK, Refined, Refines, LoopsStart, Unmixed, Rejected,
                 Rejects, RejectsAt
  <2> QED
    BY <1>1, <2>1, <2>2, <2>3, <2>4, <2>5, <2>6, <2>7, <2>8, <2>9, <2>10, <2>11, <2>12
    DEF PutStep
<1>2. CASE UNCHANGED vars
  BY <1>2 DEF vars, Inv, TypeOK, Refined, Refines, LoopsStart, Unmixed, Rejected,
              Rejects, RejectsAt
<1> QED
  BY <1>1, <1>2 DEF Next, Terminated

\* At the check, a trace of unmixed captures of two followers is accepted, and a
\* trace of one or of three is not.
LEMMA InvAbstraction == Inv => MonitorAbstraction
<1> SUFFICES ASSUME Inv, NEW p \in Puts, pc[p] = "finish"
             PROVE  /\ ~CheckTrace(trace) => N # 2 \/ summary.order = "mixed"
                    /\ N # 2 => ~CheckTrace(trace)
  BY DEF MonitorAbstraction
<1>1. trace.verdict # "ok" => N # 2 \/ summary.order = "mixed"
  <2>1. summary.order \in {"apart", "mixed"}
    BY DEF Inv, TypeOK
  <2> QED
    BY <2>1 DEF Inv, Unmixed
<1>2. N # 2 => trace.verdict = "failed"
  <2>1. N # 2 => N = 1 \/ N = 3
    BY DEF Inv, TypeOK
  <2>2. N # 2 => RejectsAt("finish", follower[p])
    BY <2>1 DEF RejectsAt
  <2> QED
    BY <2>2 DEF Inv, Rejected, Rejects
<1> QED
  BY <1>1, <1>2 DEF CheckTrace

\* What Committer concludes from its summary of the captures is right about the
\* traces that CaptureState collects and CheckTrace judges, for any number of
\* Puts, interleaved in any way, each with any number of retries, given up
\* anywhere: a Put with two followers panics only if captures of several Puts
\* were mixed, and a Put with one or with three always does.
THEOREM SummaryIsRight == Spec => []MonitorAbstraction
<1>1. Spec => []Inv
  BY InitInv, StepInv, PTL DEF Spec
<1> QED
  BY <1>1, InvAbstraction, PTL

=============================================================================
