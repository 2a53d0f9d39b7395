-------------------------- MODULE DeploymentProofs --------------------------
(***************************************************************************)
(* For any number of nodes, any flags and any number of Puts: with which   *)
(* flags a Put can be acknowledged at all, and where its value then is.    *)
(*                                                                         *)
(* The first Put decides.  It runs at index 0, with empty caches, so a     *)
(* list that begins with the Target itself makes the second Commit ask for *)
(* index 1, where there is nothing.  With a list of two places that does   *)
(* not, the second follower is never ahead of the first, so both vote      *)
(* under one index, and no height outgrows the index.                      *)
(***************************************************************************)
EXTENDS Deployment, TLAPS

\* The types.
TypeOK ==
  /\ role \in {"coordinator", "follower"}
  /\ commitType \in {"two-phase", "three-phase"}
  /\ followers \in Seq(Nodes \union {Nowhere})
  /\ whitelist \in [Nodes -> SUBSET Hosts]
  /\ up \subseteq Nodes
  /\ height \in [Nodes -> Nat]
  /\ cache \in [Nodes -> [0..MaxHeight -> Nat]]
  /\ db \in [Nodes -> SUBSET Nat]
  /\ put \in [phase : {"none", "propose", "precommit", "persist", "commit", "finish"},
              follower : 1..Len(Followers)]
  /\ expired \in BOOLEAN
  /\ acked \in 0..Requests
  /\ client \in {"running", "done", "panicked"}

\* A Put is running only while the client waits for it, and at the first follower
\* outside the loops.
OneClient ==
  /\ put.phase # "none" => client = "running" /\ "client" \in whitelist[Target]
  /\ client = "running" => acked < Requests
  /\ put.phase \in {"persist", "finish"} => put.follower = 1

\* The followers that have answered the Propose of the current Put.
VotersAdmit ==
  \A i \in 1..Len(Followers) :
    put.phase \in {"precommit", "persist", "commit", "finish"}
      \/ (put.phase = "propose" /\ i < put.follower)
    => Followers[i] \in Nodes /\ "server" \in whitelist[Followers[i]]

\* Before the first acknowledgement.
FirstPut ==
  acked = 0 =>
    /\ \A n \in Nodes, i \in 1..MaxHeight : cache[n][i] = 0
    /\ \/ put.phase \in {"propose", "precommit", "persist"}
       \/ put.phase = "commit" /\ put.follower = 1
       \/ put.phase = "none" /\ client = "running"
       => \A n \in Nodes : height[n] = 0
    /\ put.phase = "commit" /\ put.follower > 1 /\ Followers[1] = Target =>
         height[Target] = 1 /\ put.follower = 2
    /\ put.phase = "commit" => height[Target] <= 1
    /\ put.phase = "finish" /\ Followers[1] = Target => Len(Followers) = 1

\* The lists with which a Put may be acknowledged.
TwoPlaces == Len(Followers) = 2 /\ Followers[1] # Target

\* How many commits of the current Put there have been.
Commits == CASE put.phase = "finish" -> 2
             [] put.phase = "commit" -> put.follower - 1
             [] OTHER -> 0

\* With such a list the second follower, unless it is the Target, is never ahead
\* of the first, and no height is larger than two for every Put.
HeightsInStep ==
  TwoPlaces /\ client = "running" =>
    /\ \A n \in Nodes : height[n] <= 2 * acked + Commits
    /\ put.phase # "finish" => height[Target] <= 2 * acked
    /\ put.phase = "finish" => height[Target] <= 2 * acked + 1
    /\ Followers[1] \in Nodes /\ Followers[2] \in Nodes \ {Target} =>
         /\ height[Followers[2]] <= height[Followers[1]]
         /\ Commits = 1 /\ Followers[1] # Followers[2] =>
              height[Followers[2]] < height[Followers[1]]

\* The entry of the current Put is in the caches of those that have voted, under
\* the current index, and then in the databases of those that have committed.
EntryInStep ==
  TwoPlaces =>
    /\ put.phase = "propose" /\ put.follower = 2 =>
         /\ height[Followers[1]] <= Index
         /\ cache[Followers[1]][Index] = Entry /\ cache[Target][Index] = Entry
    /\ put.phase \in {"precommit", "persist", "commit"} =>
         /\ cache[Target][Index] = Entry
         /\ \A i \in 1..2 : cache[Followers[i]][Index] = Entry
    /\ put.phase \in {"commit", "finish"} =>
         /\ Entry \in db[Target]
         /\ \A i \in 1..2 : i <= Commits => Entry \in db[Followers[i]]

\* The inductive invariant.
Inv ==
  /\ TypeOK /\ OneClient /\ VotersAdmit /\ FirstPut
  /\ HeightsInStep /\ EntryInStep
  /\ OnlyServiceableAcks /\ AckEverywhere

(***************************************************************************)
(* Facts about the definitions                                             *)
(***************************************************************************)

\* The Target is a node, and there is room for index 1.
LEMMA TargetFacts ==
  /\ Target \in Nodes /\ Nowhere \notin Nodes
  /\ Requests \in Nat /\ MaxHeight \in Nat /\ 1 <= MaxHeight /\ 0 \in 0..MaxHeight
BY DeploymentAssumption DEF Nodes, MaxHeight

\* A list with the Target added.
LEMMA WithTarget ==
  ASSUME NEW s \in Seq(Nodes \union {Nowhere}), NEW t, t = Append(s, Target)
  PROVE  /\ Len(s) = 1 <=> Len(t) = 2
         /\ Len(s) = 1 => t[1] = s[1] /\ t[2] = Target
<1>1. Len(s) \in Nat /\ Len(t) = Len(s) + 1
  BY TargetFacts
<1>2. \A i \in 1..Len(s) : t[i] = s[i]
  BY TargetFacts
<1>3. t[Len(s) + 1] = Target
  BY TargetFacts
<1>4. ASSUME Len(s) = 1 PROVE t[1] = s[1] /\ t[2] = Target
  <2>1. 1 \in 1..Len(s) /\ Len(s) + 1 = 2
    BY <1>4
  <2> QED
    BY <1>2, <1>3, <2>1, Zenon
<1>5. \A a \in Nat : \A b : b = a + 1 => (a = 1 <=> b = 2)
  OBVIOUS
<1>6. Len(s) = 1 <=> Len(t) = 2
  BY <1>1, <1>5, Zenon
<1> QED
  BY <1>4, <1>6, Zenon

\* The list of followers is never empty.
LEMMA ListFacts ==
  ASSUME followers \in Seq(Nodes \union {Nowhere})
  PROVE  /\ Followers \in Seq(Nodes \union {Nowhere})
         /\ Len(Followers) \in Nat \ {0}
         /\ \A i \in 1..Len(Followers) : Followers[i] \in Nodes \union {Nowhere}
<1>1. Split(followers) \in Seq(Nodes \union {Nowhere}) /\ Len(Split(followers)) \in Nat \ {0}
  <2>1. CASE followers = <<>>
    BY <2>1 DEF Split
  <2>2. CASE followers # <<>>
    BY <2>2 DEF Split
  <2> QED
    BY <2>1, <2>2
<1>2. Append(Split(followers), Target) \in Seq(Nodes \union {Nowhere})
  BY <1>1, TargetFacts
<1>3. Len(Append(Split(followers), Target)) \in Nat \ {0}
  BY <1>1
<1>4. Followers \in {Split(followers), Append(Split(followers), Target)}
  BY DEF Followers
<1>5. Followers \in Seq(Nodes \union {Nowhere}) /\ Len(Followers) \in Nat \ {0}
  BY <1>1, <1>2, <1>3, <1>4
<1> QED
  BY <1>5

\* What is made of the flags does not change as long as they do not.
LEMMA FlagsFixed ==
  ASSUME UNCHANGED flags
  PROVE  /\ Followers' = Followers /\ whitelist' = whitelist /\ role' = role
         /\ followers' = followers /\ commitType' = commitType
         /\ TwoPlaces' <=> TwoPlaces
         /\ Serviceable' <=> Serviceable
<1>1. UNCHANGED <<role, commitType, followers, whitelist>>
  BY DEF flags
<1>2. Followers' = Followers
  BY <1>1 DEF Followers
<1> QED
  BY <1>1, <1>2 DEF TwoPlaces, Serviceable

\* The value of Commits.
LEMMA CommitsValue ==
  /\ put.phase = "finish" => Commits = 2
  /\ put.phase = "commit" => Commits = put.follower - 1
  /\ put.phase \notin {"commit", "finish"} => Commits = 0
  /\ put'.phase = "finish" => Commits' = 2
  /\ put'.phase = "commit" => Commits' = put'.follower - 1
  /\ put'.phase \notin {"commit", "finish"} => Commits' = 0
BY DEF Commits

\* Flags with which Puts succeed make a list of two places.
LEMMA ServiceableList ==
  ASSUME TypeOK, Serviceable
  PROVE  TwoPlaces
<1>0. followers \in Seq(Nodes \union {Nowhere}) /\ role \in {"coordinator", "follower"}
  BY DEF TypeOK
<1>1. CASE role = "follower" /\ ~Includes(followers, Target)
  <2>1. Len(followers) = 1 /\ followers[1] # Target
    BY <1>1 DEF Serviceable
  <2>2. Followers = Append(followers, Target)
    BY <1>0, <1>1, <2>1 DEF Followers, Split
  <2>3. Len(Followers) = 2 /\ Followers[1] = followers[1]
    BY <1>0, <2>1, <2>2, WithTarget
  <2> QED
    BY <2>1, <2>3 DEF TwoPlaces
<1>2. CASE ~(role = "follower" /\ ~Includes(followers, Target))
  <2>1. Len(followers) = 2 /\ followers[1] # Target
    BY <1>2 DEF Serviceable
  <2>2. Followers = followers
    BY <1>0, <1>2, <2>1 DEF Followers, Split
  <2> QED
    BY <2>1, <2>2 DEF TwoPlaces
<1> QED
  BY <1>1, <1>2

\* And the other way round, if all listed are nodes that admit the Target.
LEMMA ListServiceable ==
  ASSUME TypeOK, TwoPlaces, "client" \in whitelist[Target],
         \A i \in 1..2 : Followers[i] \in Nodes /\ "server" \in whitelist[Followers[i]]
  PROVE  Serviceable
<1>0. /\ followers \in Seq(Nodes \union {Nowhere}) /\ role \in {"coordinator", "follower"}
      /\ Len(Followers) = 2 /\ Followers[1] # Target
  BY DEF TypeOK, TwoPlaces
<1>1. followers # <<>>
  <2> SUFFICES ASSUME followers = <<>> PROVE FALSE
    OBVIOUS
  <2>1. Followers[1] = Nowhere
    BY DEF Followers, Split
  <2> QED
    BY <2>1, TargetFacts
<1>2. CASE role = "follower" /\ ~Includes(followers, Target)
  <2>1. Followers = Append(followers, Target)
    BY <1>1, <1>2 DEF Followers, Split
  <2>2. Len(followers) = 1 /\ followers[1] = Followers[1] /\ Followers[2] = Target
    BY <1>0, <2>1, WithTarget
  <2>3. \A i \in DOMAIN followers : followers[i] = Followers[1]
    BY <1>0, <2>2
  <2> QED
    BY <1>0, <1>2, <2>2, <2>3 DEF Serviceable
<1>3. CASE ~(role = "follower" /\ ~Includes(followers, Target))
  <2>1. Followers = followers
    BY <1>0, <1>1, <1>3 DEF Followers, Split
  <2>2. DOMAIN followers = 1..2
    BY <1>0, <2>1
  <2>3. role = "follower" => "server" \in whitelist[Target]
    BY <1>3, <2>1, <2>2 DEF Includes
  <2> QED
    BY <1>0, <1>3, <2>1, <2>2, <2>3 DEF Serviceable
<1> QED
  BY <1>2, <1>3

\* A write to one cache, at one index.
LEMMA CacheWrite ==
  ASSUME NEW c \in [Nodes -> [0..MaxHeight -> Nat]], NEW n \in Nodes,
         NEW i \in 0..MaxHeight, NEW e \in Nat, NEW d, d = [c EXCEPT ![n][i] = e]
  PROVE  /\ d \in [Nodes -> [0..MaxHeight -> Nat]]
         /\ d[n][i] = e
         /\ \A m \in Nodes : m # n => d[m] = c[m]
         /\ \A j \in 0..MaxHeight : j # i => d[n][j] = c[n][j]
<1>1. d = [c EXCEPT ![n] = [c[n] EXCEPT ![i] = e]]
  OBVIOUS
<1>2. c[n] \in [0..MaxHeight -> Nat]
  OBVIOUS
<1>3. [c[n] EXCEPT ![i] = e] \in [0..MaxHeight -> Nat]
  BY <1>2
<1>4. d[n] = [c[n] EXCEPT ![i] = e] /\ \A m \in Nodes : m # n => d[m] = c[m]
  BY <1>1
<1>5. d \in [Nodes -> [0..MaxHeight -> Nat]]
  BY <1>1, <1>3
<1>6. d[n][i] = e /\ \A j \in 0..MaxHeight : j # i => d[n][j] = c[n][j]
  BY <1>2, <1>4
<1> QED
  BY <1>4, <1>5, <1>6

\* One turn of a loop over the followers.
LEMMA TurnEffect ==
  ASSUME TypeOK, NEW after \in {"precommit", "persist", "finish"}, NextFollower(after)
  PROVE  /\ put' \in [phase : {"none", "propose", "precommit", "persist", "commit",
                               "finish"}, follower : 1..Len(Followers)]
         /\ \/ /\ put.follower < Len(Followers)
               /\ put'.phase = put.phase /\ put'.follower = put.follower + 1
            \/ /\ put.follower = Len(Followers)
               /\ put'.phase = after /\ put'.follower = 1
<1>1. /\ put.follower \in 1..Len(Followers) /\ Len(Followers) \in Nat \ {0}
      /\ put \in [phase : {"none", "propose", "precommit", "persist", "commit",
                           "finish"}, follower : 1..Len(Followers)]
  BY ListFacts DEF TypeOK
<1>2. CASE put.follower < Len(Followers)
  BY <1>1, <1>2 DEF NextFollower
<1>3. CASE ~(put.follower < Len(Followers))
  BY <1>1, <1>3 DEF NextFollower
<1> QED
  BY <1>2, <1>3

\* An answer comes from a node that admits the Target.
LEMMA AnswerFacts ==
  ASSUME TypeOK, Answered
  PROVE  /\ Current \in Nodes /\ "server" \in whitelist[Current]
         /\ Current = Followers[put.follower]
         /\ put.follower \in 1..Len(Followers) /\ Len(Followers) \in Nat \ {0}
BY ListFacts DEF TypeOK, Answered, Answers, WhiteListChecker, Current

\* Every index that a Put uses has its place in the caches.
LEMMA IndexInRange ==
  ASSUME Inv, put.phase \in {"propose", "precommit", "persist", "commit"}
  PROVE  height[Target] \in 0..MaxHeight
<1>0. /\ height[Target] \in Nat /\ Requests \in Nat \ {0} /\ acked \in Nat
      /\ acked < Requests /\ put.follower \in 1..Len(Followers) /\ client = "running"
  BY TargetFacts, DeploymentAssumption DEF Inv, TypeOK, OneClient
<1>1. CASE acked = 0
  <2>1. height[Target] <= 1
    BY <1>0, <1>1, TargetFacts DEF Inv, FirstPut
  <2> QED
    BY <1>0, <2>1, TargetFacts
<1>2. CASE acked # 0
  <2>1. TwoPlaces
    BY <1>0, <1>2, ServiceableList DEF Inv, OnlyServiceableAcks
  <2>2. height[Target] <= 2 * acked
    BY <1>0, <2>1 DEF Inv, HeightsInStep
  <2> QED
    BY <1>0, <2>2 DEF MaxHeight
<1> QED
  BY <1>1, <1>2

(***************************************************************************)
(* The steps                                                               *)
(***************************************************************************)

\* The initial states.
LEMMA InitInv == Init => Inv
<1> SUFFICES ASSUME Init PROVE Inv
  OBVIOUS
<1>0. /\ put.phase = "none" /\ put.follower = 1 /\ acked = 0 /\ client = "running"
      /\ \A n \in Nodes : height[n] = 0
  BY DEF Init
<1>1. followers \in Seq(Nodes \union {Nowhere})
  <2>1. PICK m \in 0..MaxList : followers \in [1..m -> Nodes \union {Nowhere}]
    BY DEF Init, SeqOf
  <2> QED
    BY <2>1, DeploymentAssumption
<1>2. Len(Followers) \in Nat \ {0}
  BY <1>1, ListFacts
<1>3. TypeOK
  <2>1. put \in [phase : {"none", "propose", "precommit", "persist", "commit", "finish"},
                 follower : 1..Len(Followers)]
    BY <1>2 DEF Init
  <2>2. cache \in [Nodes -> [0..MaxHeight -> Nat]]
    BY DEF Init
  <2>3. height \in [Nodes -> Nat] /\ db \in [Nodes -> SUBSET Nat]
    BY DEF Init
  <2>4. up \subseteq Nodes /\ acked \in 0..Requests
    BY <1>0, DeploymentAssumption DEF Init
  <2>5. expired \in BOOLEAN
    BY Zenon DEF Init
  <2> QED
    BY <1>0, <1>1, <2>1, <2>2, <2>3, <2>4, <2>5 DEF Init, TypeOK
<1>4. OneClient /\ VotersAdmit
  BY <1>0, DeploymentAssumption DEF OneClient, VotersAdmit
<1>5. FirstPut
  <2>1. \A n \in Nodes, i \in 1..MaxHeight : cache[n][i] = 0
    BY TargetFacts DEF Init
  <2> QED
    BY <1>0, <2>1 DEF FirstPut
<1>6. HeightsInStep
  BY <1>0, CommitsValue, TargetFacts DEF HeightsInStep
<1>7. EntryInStep
  BY <1>0 DEF EntryInStep
<1>8. OnlyServiceableAcks /\ AckEverywhere
  BY <1>0 DEF OnlyServiceableAcks, AckEverywhere
<1> QED
  BY <1>3, <1>4, <1>5, <1>6, <1>7, <1>8 DEF Inv

\* A step that leaves flags, databases and the count of acknowledgements alone,
\* but for additions to databases, breaks no promise.
LEMMA PromisesKept ==
  ASSUME Inv, UNCHANGED <<flags, acked>>, \A n \in Nodes : db[n] \subseteq db'[n]
  PROVE  OnlyServiceableAcks' /\ AckEverywhere'
<1>1. OnlyServiceableAcks'
  BY FlagsFixed DEF Inv, OnlyServiceableAcks
<1>2. AckEverywhere'
  BY FlagsFixed, TargetFacts DEF Inv, AckEverywhere
<1> QED
  BY <1>1, <1>2

\* A step that changes only which nodes run, or that the deadline has passed.
LEMMA StoresUntouchedInv ==
  ASSUME Inv, UNCHANGED <<flags, height, cache, db, put, acked, client>>,
         up' \subseteq Nodes, expired' \in BOOLEAN
  PROVE  Inv'
<1>2. /\ Followers' = Followers /\ (TwoPlaces' <=> TwoPlaces)
      /\ UNCHANGED <<role, commitType, followers, whitelist>>
  BY FlagsFixed
<1>3. TypeOK'
  BY <1>2 DEF Inv, TypeOK
<1>4. OneClient' /\ VotersAdmit' /\ FirstPut'
  BY <1>2 DEF Inv, OneClient, VotersAdmit, FirstPut
<1>5. HeightsInStep' /\ EntryInStep'
  BY <1>2 DEF Inv, HeightsInStep, EntryInStep, Commits, Index, Entry
<1> QED
  BY <1>3, <1>4, <1>5, PromisesKept DEF Inv

\* A node starts, the deadline passes, and what changes nothing.
LEMMA StartInv ==
  ASSUME Inv,
         \/ \E n \in Nodes : Start(n)
         \/ Deadline \/ ProposeFails \/ Terminated \/ UNCHANGED vars
  PROVE  Inv'
<1>0. up \subseteq Nodes /\ expired \in BOOLEAN
  BY DEF Inv, TypeOK
<1>1. ASSUME NEW n \in Nodes, Start(n) PROVE Inv'
  BY <1>0, <1>1, StoresUntouchedInv DEF Start, stores
<1>2. CASE Deadline
  BY <1>0, <1>2, StoresUntouchedInv DEF Deadline, stores
<1>3. CASE ProposeFails \/ Terminated \/ UNCHANGED vars
  <2>1. UNCHANGED <<flags, height, cache, db, up, put, expired, acked, client>>
    BY <1>3 DEF ProposeFails, Terminated, vars, stores
  <2> QED
    BY <1>0, <2>1, StoresUntouchedInv
<1> QED
  BY <1>1, <1>2, <1>3

\* The client sends a Put.
LEMMA ClientPutInv ==
  ASSUME Inv, ClientPut
  PROVE  Inv'
<1>1. /\ UNCHANGED <<flags, height, cache, db, up, acked, client>> /\ client = "running"
      /\ put.phase = "none" /\ put' = [phase |-> "propose", follower |-> 1]
      /\ expired' \in BOOLEAN
      /\ "client" \in whitelist[Target]
  BY DEF ClientPut, stores, Answers, WhiteListChecker
<1>2. /\ Followers' = Followers /\ (TwoPlaces' <=> TwoPlaces)
      /\ UNCHANGED <<role, commitType, followers, whitelist>> /\ Len(Followers) \in Nat \ {0}
  BY <1>1, FlagsFixed, ListFacts DEF Inv, TypeOK
<1>3. put'.phase = "propose" /\ put'.follower = 1
  BY <1>1
<1>4. TypeOK'
  BY <1>1, <1>2 DEF Inv, TypeOK
<1>5. OneClient' /\ VotersAdmit'
  BY <1>1, <1>2, <1>3 DEF Inv, OneClient, VotersAdmit
<1>6. FirstPut'
  BY <1>1, <1>2, <1>3 DEF Inv, FirstPut
<1>7. HeightsInStep'
  <2>1. Commits = 0 /\ Commits' = 0
    BY <1>1, <1>3, CommitsValue
  <2> QED
    BY <1>1, <1>2, <1>3, <2>1 DEF Inv, HeightsInStep
<1>8. EntryInStep'
  BY <1>3 DEF EntryInStep
<1> QED
  BY <1>1, <1>4, <1>5, <1>6, <1>7, <1>8, PromisesKept DEF Inv

\* The client gives up, and nothing is running any more.
LEMMA GivenUpInv ==
  ASSUME Inv, UNCHANGED <<flags, cache, acked>>, up' \subseteq up,
         height' \in [Nodes -> Nat], db' \in [Nodes -> SUBSET Nat],
         \A n \in Nodes : db[n] \subseteq db'[n],
         put' = [put EXCEPT !.phase = "none"], client' = "panicked",
         expired' \in BOOLEAN
  PROVE  Inv'
<1>1. /\ Followers' = Followers /\ (TwoPlaces' <=> TwoPlaces)
      /\ UNCHANGED <<role, commitType, followers, whitelist>>
      /\ Len(Followers) \in Nat \ {0}
  BY FlagsFixed, ListFacts DEF Inv, TypeOK
<1>2. put'.phase = "none" /\ put'.follower = put.follower
  BY DEF Inv, TypeOK
<1>3. TypeOK'
  BY <1>1 DEF Inv, TypeOK
<1>4. OneClient' /\ VotersAdmit' /\ FirstPut' /\ HeightsInStep' /\ EntryInStep'
  <2>1. OneClient' /\ VotersAdmit'
    BY <1>2 DEF OneClient, VotersAdmit
  <2>2. FirstPut'
    BY <1>1, <1>2 DEF Inv, FirstPut
  <2>3. HeightsInStep' /\ EntryInStep'
    BY <1>2 DEF HeightsInStep, EntryInStep
  <2> QED
    BY <2>1, <2>2, <2>3
<1> QED
  BY <1>3, <1>4, PromisesKept DEF Inv

\* A refusal at the door, a commit that finds nothing, a call after the deadline, a
\* panic, and a commit whose answer comes too late.
LEMMA FailInv ==
  ASSUME Inv,
         ClientRefused \/ CommitMissing \/ CallFails \/ Panic \/ CommitUnanswered
  PROVE  Inv'
<1>0. /\ height \in [Nodes -> Nat] /\ db \in [Nodes -> SUBSET Nat]
      /\ expired \in BOOLEAN
  BY DEF Inv, TypeOK
<1>1. CASE ClientRefused
  <2>1. put' = [put EXCEPT !.phase = "none"]
    BY <1>1 DEF ClientRefused, Inv, TypeOK
  <2> QED
    BY <1>0, <1>1, <2>1, GivenUpInv DEF ClientRefused, stores
<1>2. CASE CommitMissing
  BY <1>0, <1>2, GivenUpInv DEF CommitMissing, PutFails, stores
<1>3. CASE Panic
  BY <1>0, <1>3, GivenUpInv DEF Panic, PutFails, stores
<1>4. CASE CallFails
  BY <1>0, <1>4, GivenUpInv DEF CallFails, PutFails, stores
<1>5. CASE CommitUnanswered
  <2>1. Current \in Nodes
    BY <1>5, AnswerFacts DEF CommitUnanswered, Inv
  <2>2. PICK v : v = cache[Current][height[Target]]
    OBVIOUS
  <2>3. v \in Nat
    <3>1. height[Target] \in 0..MaxHeight
      BY <1>5, IndexInRange DEF CommitUnanswered
    <3>2. cache \in [Nodes -> [0..MaxHeight -> Nat]]
      BY DEF Inv, TypeOK
    <3>3. cache[Current] \in [0..MaxHeight -> Nat]
      BY <2>1, <3>2
    <3> QED
      BY <2>2, <3>1, <3>3
  <2>4. /\ UNCHANGED <<flags, cache, up, acked>>
        /\ db' = [db EXCEPT ![Current] = db[Current] \union {v}]
        /\ height' = [height EXCEPT ![Current] = height[Current] + 1]
        /\ put' = [put EXCEPT !.phase = "none"] /\ client' = "panicked"
        /\ expired' = TRUE
    BY <1>5, <2>2 DEF CommitUnanswered, PutFails, Index
  <2>5. height' \in [Nodes -> Nat]
    BY <1>0, <2>1, <2>4
  <2>6. db' \in [Nodes -> SUBSET Nat] /\ \A n \in Nodes : db[n] \subseteq db'[n]
    BY <1>0, <2>1, <2>3, <2>4
  <2> QED
    BY <2>4, <2>5, <2>6, GivenUpInv
<1> QED
  BY <1>1, <1>2, <1>3, <1>4, <1>5

\* A vote that comes too late: the entry is in the cache of the follower.
LEMMA ProposeUnansweredInv ==
  ASSUME Inv, ProposeUnanswered
  PROVE  Inv'
<1> DEFINE h == height[Target]
<1>0. /\ Current \in Nodes /\ put.phase = "propose" /\ h \in 0..MaxHeight
      /\ acked + 1 \in Nat /\ cache \in [Nodes -> [0..MaxHeight -> Nat]]
  <2>1. Current \in Nodes
    BY AnswerFacts DEF ProposeUnanswered, Inv
  <2>2. h \in 0..MaxHeight
    BY IndexInRange DEF ProposeUnanswered
  <2> QED
    BY <2>1, <2>2 DEF ProposeUnanswered, Inv, TypeOK
<1>1. /\ UNCHANGED <<flags, height, db, up, put, acked, client>> /\ expired' = TRUE
      /\ cache' = [cache EXCEPT ![Current][h] = acked + 1]
  BY DEF ProposeUnanswered, Index, Entry
<1> HIDE DEF h
<1>2. /\ Followers' = Followers /\ (TwoPlaces' <=> TwoPlaces)
      /\ UNCHANGED <<role, commitType, followers, whitelist>>
  BY <1>1, FlagsFixed
<1>3. /\ cache' \in [Nodes -> [0..MaxHeight -> Nat]]
      /\ cache'[Current][h] = acked + 1
      /\ \A m \in Nodes : m # Current => cache'[m] = cache[m]
      /\ \A j \in 0..MaxHeight : j # h => cache'[Current][j] = cache[Current][j]
  BY <1>0, <1>1, CacheWrite
<1>4. TypeOK'
  BY <1>1, <1>2, <1>3 DEF Inv, TypeOK
<1>5. OneClient' /\ VotersAdmit'
  BY <1>1, <1>2 DEF Inv, OneClient, VotersAdmit
<1>6. FirstPut'
  <2> SUFFICES ASSUME acked = 0
               PROVE  /\ \A n \in Nodes, i \in 1..MaxHeight : cache'[n][i] = 0
                      /\ \A n \in Nodes : height[n]' = 0
    BY <1>0, <1>1 DEF FirstPut
  <2>1. (\A n \in Nodes : height[n] = 0) /\ h = 0
    BY <1>0, TargetFacts DEF Inv, FirstPut, h
  <2>2. ASSUME NEW n \in Nodes, NEW i \in 1..MaxHeight PROVE cache'[n][i] = cache[n][i]
    <3>1. i \in 0..MaxHeight /\ i # h
      BY <2>1, TargetFacts
    <3> QED
      BY <1>3, <3>1
  <2> QED
    BY <1>1, <2>1, <2>2 DEF Inv, FirstPut
<1>7. HeightsInStep'
  BY <1>1, <1>2 DEF Inv, HeightsInStep, Commits
<1>8. EntryInStep'
  <2>1. \A n \in Nodes : cache[n][h] = acked + 1 => cache'[n][h] = acked + 1
    BY <1>3
  <2>2. Index' = h /\ Index = h /\ Entry' = acked + 1 /\ Entry = acked + 1
    BY <1>1 DEF Index, Entry, h
  <2>3. TwoPlaces /\ put.follower = 2 => Followers[1] \in Nodes
    BY <1>0 DEF Inv, VotersAdmit, TwoPlaces
  <2> QED
    BY <1>0, <1>1, <1>2, <2>1, <2>2, <2>3, TargetFacts DEF Inv, EntryInStep
<1> QED
  BY <1>1, <1>4, <1>5, <1>6, <1>7, <1>8, PromisesKept DEF Inv

\* The Target catches up with a follower that is ahead, which is the first.
LEMMA ProposeStaleInv ==
  ASSUME Inv, ProposeStale
  PROVE  Inv'
<1>0. /\ Current \in Nodes /\ Current = Followers[put.follower]
      /\ put.follower \in 1..Len(Followers) /\ Len(Followers) \in Nat \ {0}
      /\ Target \in Nodes /\ put.phase = "propose" /\ height[Current] > height[Target]
      /\ height \in [Nodes -> Nat] /\ cache \in [Nodes -> [0..MaxHeight -> Nat]]
      /\ client = "running" /\ acked \in Nat
  <2>1. /\ Current \in Nodes /\ Current = Followers[put.follower]
        /\ put.follower \in 1..Len(Followers) /\ Len(Followers) \in Nat \ {0}
    BY AnswerFacts DEF ProposeStale, Inv
  <2> QED
    BY <2>1, TargetFacts DEF ProposeStale, Inv, TypeOK, Index, OneClient
<1>1. /\ UNCHANGED <<flags, db, up, put, expired, acked, client>>
      /\ cache' = [cache EXCEPT ![Current][height[Target]] = acked + 1]
      /\ height' = [height EXCEPT ![Target] = height[Current]]
  BY DEF ProposeStale, Index, Entry
<1>2. /\ Followers' = Followers /\ (TwoPlaces' <=> TwoPlaces)
      /\ UNCHANGED <<role, commitType, followers, whitelist>>
  BY <1>1, FlagsFixed
<1>3. acked # 0 /\ TwoPlaces
  <2>1. acked # 0
    BY <1>0 DEF Inv, FirstPut
  <2> QED
    BY <1>0, <2>1, ServiceableList DEF Inv, OnlyServiceableAcks
<1>4. put.follower = 1 /\ Current # Target
  <2>1. Current # Target
    BY <1>0
  <2>2. Len(Followers) = 2 /\ Followers[1] # Target
    BY <1>3 DEF TwoPlaces
  <2>3. ASSUME put.follower = 2 PROVE FALSE
    <3>1. Followers[1] \in Nodes /\ height[Followers[1]] <= height[Target]
      BY <1>0, <1>3, <2>2, <2>3 DEF Inv, EntryInStep, VotersAdmit, Index
    <3>2. height[Followers[2]] <= height[Followers[1]] /\ Current = Followers[2]
      BY <1>0, <1>3, <2>1, <2>3, <3>1 DEF Inv, HeightsInStep
    <3> QED
      BY <1>0, <3>1, <3>2
  <2> QED
    BY <1>0, <2>1, <2>2, <2>3
<1>5. /\ height' \in [Nodes -> Nat] /\ height[Target]' = height[Current]
      /\ \A n \in Nodes : n # Target => height[n]' = height[n]
  BY <1>0, <1>1
<1>6. TypeOK'
  <2>1. cache' \in [Nodes -> [0..MaxHeight -> Nat]]
    BY <1>0, <1>1, IndexInRange, CacheWrite
  <2> QED
    BY <1>1, <1>2, <1>5, <2>1 DEF Inv, TypeOK
<1>7. OneClient' /\ VotersAdmit' /\ FirstPut'
  BY <1>1, <1>2, <1>3 DEF Inv, OneClient, VotersAdmit, FirstPut
<1>8. HeightsInStep'
  <2>1. Commits = 0 /\ Commits' = 0 /\ Followers[1] # Target
    BY <1>0, <1>1, <1>3, CommitsValue DEF TwoPlaces
  <2>4. HeightsInStep
    BY DEF Inv
  <2>5. \A n \in Nodes : height[n] <= 2 * acked + 0
    BY <1>0, <1>3, <2>1, <2>4 DEF HeightsInStep
  <2>2. \A n \in Nodes : height[n]' <= 2 * acked
    <3>1. height[Current] \in Nat /\ height[Current] <= 2 * acked + 0 /\ 2 * acked \in Nat
      BY <1>0, <2>5
    <3>2. \A n \in Nodes : height[n] \in Nat
      BY <1>0
    <3> QED
      BY <1>5, <2>5, <3>1, <3>2
  <2>3. Followers[1] \in Nodes /\ Followers[2] \in Nodes \ {Target} =>
          height[Followers[2]]' <= height[Followers[1]]'
    <3>1. Followers[1] \in Nodes /\ Followers[2] \in Nodes \ {Target} =>
            height[Followers[2]] <= height[Followers[1]]
      BY <1>0, <1>3, <2>4 DEF HeightsInStep
    <3> QED
      BY <1>2, <1>5, <2>1, <3>1
  <2> QED
    BY <1>0, <1>1, <1>2, <2>1, <2>2, <2>3 DEF HeightsInStep
<1>9. EntryInStep'
  BY <1>0, <1>1, <1>4 DEF EntryInStep
<1> QED
  BY <1>1, <1>6, <1>7, <1>8, <1>9, PromisesKept DEF Inv

\* A vote: the entry is in the caches of the follower and of the Target.
LEMMA ProposeAckedInv ==
  ASSUME Inv, ProposeAcked
  PROVE  Inv'
<1> DEFINE h == height[Target]
<1>0. /\ Current \in Nodes /\ Current = Followers[put.follower]
      /\ "server" \in whitelist[Current]
      /\ put.follower \in 1..Len(Followers) /\ Len(Followers) \in Nat \ {0}
      /\ Target \in Nodes /\ put.phase = "propose" /\ height[Current] <= h
      /\ h \in 0..MaxHeight /\ acked + 1 \in Nat
  <2>1. /\ Current \in Nodes /\ Current = Followers[put.follower]
        /\ "server" \in whitelist[Current]
        /\ put.follower \in 1..Len(Followers) /\ Len(Followers) \in Nat \ {0}
    BY AnswerFacts DEF ProposeAcked, Inv
  <2>2. h \in 0..MaxHeight
    BY IndexInRange DEF ProposeAcked
  <2> QED
    BY <2>1, <2>2, TargetFacts DEF ProposeAcked, Inv, TypeOK, Index
<1>1. /\ UNCHANGED <<flags, height, db, up, expired, acked, client>>
      /\ NextFollower("precommit")
      /\ cache' = [cache EXCEPT ![Current][h] = acked + 1, ![Target][h] = acked + 1]
  BY DEF ProposeAcked, Index, Entry
<1>2. /\ Followers' = Followers /\ (TwoPlaces' <=> TwoPlaces)
      /\ UNCHANGED <<role, commitType, followers, whitelist>>
  BY <1>1, FlagsFixed
<1>3. /\ put' \in [phase : {"none", "propose", "precommit", "persist", "commit",
                            "finish"}, follower : 1..Len(Followers)]
      /\ \/ /\ put.follower < Len(Followers)
            /\ put'.phase = "propose" /\ put'.follower = put.follower + 1
         \/ /\ put.follower = Len(Followers)
            /\ put'.phase = "precommit" /\ put'.follower = 1
  BY <1>0, <1>1, TurnEffect DEF Inv
<1>4. /\ cache' \in [Nodes -> [0..MaxHeight -> Nat]]
      /\ cache'[Current][h] = acked + 1 /\ cache'[Target][h] = acked + 1
      /\ \A n \in Nodes : cache'[n] = cache[n] \/ cache'[n][h] = acked + 1
      /\ \A n \in Nodes, j \in 0..MaxHeight : j # h => cache'[n][j] = cache[n][j]
  <2> HIDE DEF h
  <2>0. PICK c : /\ c = [cache EXCEPT ![Current][h] = acked + 1]
                 /\ cache' = [c EXCEPT ![Target][h] = acked + 1]
    BY <1>1
  <2>1. cache \in [Nodes -> [0..MaxHeight -> Nat]]
    BY DEF Inv, TypeOK
  <2>2. /\ c \in [Nodes -> [0..MaxHeight -> Nat]]
        /\ c[Current][h] = acked + 1
        /\ \A m \in Nodes : m # Current => c[m] = cache[m]
        /\ \A j \in 0..MaxHeight : j # h => c[Current][j] = cache[Current][j]
    BY <1>0, <2>0, <2>1, CacheWrite
  <2>3. /\ cache' \in [Nodes -> [0..MaxHeight -> Nat]]
        /\ cache'[Target][h] = acked + 1
        /\ \A m \in Nodes : m # Target => cache'[m] = c[m]
        /\ \A j \in 0..MaxHeight : j # h => cache'[Target][j] = c[Target][j]
    <3>1. cache' = [c EXCEPT ![Target][h] = acked + 1]
      BY <2>0
    <3>2. c \in [Nodes -> [0..MaxHeight -> Nat]] /\ Target \in Nodes /\ h \in 0..MaxHeight
      BY <1>0, <2>2
    <3> QED
      BY <1>0, <3>1, <3>2, CacheWrite
  <2>4. ASSUME NEW n \in Nodes PROVE cache'[n] = cache[n] \/ cache'[n][h] = acked + 1
    <3>1. c[n] = cache[n] \/ c[n][h] = acked + 1
      BY <2>2
    <3>2. cache'[n] = c[n] \/ cache'[n][h] = acked + 1
      BY <2>3
    <3> QED
      BY <3>1, <3>2
  <2>5. ASSUME NEW n \in Nodes, NEW j \in 0..MaxHeight, j # h
        PROVE  cache'[n][j] = cache[n][j]
    <3>1. c[n][j] = cache[n][j]
      BY <2>2, <2>5
    <3>2. cache'[n][j] = c[n][j]
      BY <2>3, <2>5
    <3> QED
      BY <3>1, <3>2
  <2>6. cache'[Current][h] = acked + 1
    BY <1>0, <2>2, <2>3
  <2> QED
    BY <2>3, <2>4, <2>5, <2>6
<1> HIDE DEF h
<1>5. TypeOK'
  BY <1>1, <1>2, <1>3, <1>4 DEF Inv, TypeOK
<1>6. OneClient'
  BY <1>0, <1>1, <1>2, <1>3 DEF Inv, OneClient
<1>7. VotersAdmit'
  <2> SUFFICES ASSUME NEW i \in 1..Len(Followers),
                      put'.phase = "precommit" \/ i < put'.follower
               PROVE  Followers[i] \in Nodes /\ "server" \in whitelist[Followers[i]]
    BY <1>2, <1>3 DEF VotersAdmit
  <2>1. i < put.follower \/ i = put.follower
    BY <1>0, <1>3
  <2> QED
    BY <1>0, <2>1 DEF Inv, VotersAdmit
<1>8. FirstPut'
  <2> SUFFICES ASSUME acked = 0
               PROVE  /\ \A n \in Nodes, i \in 1..MaxHeight : cache'[n][i] = 0
                      /\ \A n \in Nodes : height[n]' = 0
    BY <1>1, <1>3 DEF FirstPut
  <2>1. (\A n \in Nodes : height[n] = 0) /\ h = 0
    BY <1>0 DEF Inv, FirstPut, h
  <2>2. \A n \in Nodes, i \in 1..MaxHeight : cache'[n][i] = cache[n][i]
    BY <1>4, <2>1, TargetFacts
  <2> QED
    BY <1>1, <2>1, <2>2 DEF Inv, FirstPut
<1>9. HeightsInStep'
  <2>1. Commits = 0 /\ Commits' = 0
    BY <1>0, <1>3, CommitsValue
  <2>2. HeightsInStep
    BY DEF Inv
  <2> QED
    BY <1>0, <1>1, <1>2, <1>3, <2>1, <2>2 DEF HeightsInStep
<1>10. EntryInStep'
  <2> SUFFICES ASSUME TwoPlaces PROVE EntryInStep'
    BY <1>2 DEF EntryInStep
  <2>0. Len(Followers) = 2 /\ h' = h /\ Index' = h /\ Entry' = acked + 1
    BY <1>1 DEF TwoPlaces, h, Index, Entry
  <2>1. CASE put.follower = 1
    BY <1>0, <1>1, <1>2, <1>3, <1>4, <2>0, <2>1 DEF EntryInStep
  <2>2. CASE put.follower = 2
    <3>1. Followers[1] \in Nodes /\ cache[Followers[1]][h] = acked + 1
      BY <1>0, <2>0, <2>2 DEF Inv, EntryInStep, VotersAdmit, Index, Entry, h
    <3>2. cache'[Followers[1]][h] = acked + 1 /\ cache'[Followers[2]][h] = acked + 1
      BY <1>0, <1>4, <2>2, <3>1
    <3>3. \A i \in 1..2 : cache'[Followers[i]][h] = acked + 1
      BY <3>2
    <3>4. put'.phase = "precommit"
      BY <1>3, <2>0, <2>2
    <3> QED
      BY <1>2, <1>4, <2>0, <3>3, <3>4 DEF EntryInStep
  <2> QED
    BY <1>0, <2>0, <2>1, <2>2
<1> QED
  BY <1>1, <1>5, <1>6, <1>7, <1>8, <1>9, <1>10, PromisesKept DEF Inv

\* A precommit.
LEMMA PrecommitInv ==
  ASSUME Inv, Precommit
  PROVE  Inv'
<1>1. /\ UNCHANGED <<flags, height, cache, db, up, expired, acked, client>>
      /\ put.phase = "precommit"
  BY DEF Precommit, stores
<1>2. /\ Followers' = Followers /\ (TwoPlaces' <=> TwoPlaces)
      /\ UNCHANGED <<role, commitType, followers, whitelist>>
  BY <1>1, FlagsFixed
<1>3. /\ put' \in [phase : {"none", "propose", "precommit", "persist", "commit",
                            "finish"}, follower : 1..Len(Followers)]
      /\ \/ put'.phase = "precommit"
         \/ put'.phase = "persist" /\ put'.follower = 1
  BY <1>1, TurnEffect DEF Inv, Precommit
<1>4. TypeOK'
  BY <1>1, <1>2, <1>3 DEF Inv, TypeOK
<1>5. OneClient' /\ VotersAdmit' /\ FirstPut'
  BY <1>1, <1>2, <1>3 DEF Inv, OneClient, VotersAdmit, FirstPut
<1>6. HeightsInStep'
  <2>1. Commits = 0 /\ Commits' = 0
    BY <1>1, <1>3, CommitsValue
  <2> QED
    BY <1>1, <1>2, <1>3, <2>1 DEF Inv, HeightsInStep
<1>7. EntryInStep'
  BY <1>1, <1>2, <1>3 DEF Inv, EntryInStep, Index, Entry
<1> QED
  BY <1>1, <1>4, <1>5, <1>6, <1>7, PromisesKept DEF Inv

\* The Target writes the entry to its own database.
LEMMA PersistInv ==
  ASSUME Inv, Persist
  PROVE  Inv'
<1>0. /\ Target \in Nodes /\ height[Target] \in 0..MaxHeight
      /\ cache[Target][height[Target]] \in Nat /\ db \in [Nodes -> SUBSET Nat]
      /\ acked \in Nat
  BY IndexInRange, TargetFacts DEF Persist, Inv, TypeOK
<1>1. /\ UNCHANGED <<flags, height, cache, up, expired, acked, client>>
      /\ put.phase = "persist" /\ put' = [put EXCEPT !.phase = "commit"]
      /\ db' = [db EXCEPT ![Target] = db[Target] \union {cache[Target][height[Target]]}]
  BY DEF Persist, Index
<1>2. /\ Followers' = Followers /\ (TwoPlaces' <=> TwoPlaces)
      /\ UNCHANGED <<role, commitType, followers, whitelist>>
  BY <1>1, FlagsFixed
<1>3. put'.phase = "commit" /\ put'.follower = 1 /\ put.follower = 1
  BY <1>1 DEF Inv, TypeOK, OneClient
<1>4. /\ db' \in [Nodes -> SUBSET Nat] /\ \A n \in Nodes : db[n] \subseteq db'[n]
      /\ cache[Target][height[Target]] \in db'[Target]
  BY <1>0, <1>1
<1>5. TypeOK'
  BY <1>1, <1>2, <1>4 DEF Inv, TypeOK
<1>6. OneClient' /\ VotersAdmit' /\ FirstPut'
  <2>1. OneClient' /\ VotersAdmit'
    BY <1>1, <1>2, <1>3 DEF Inv, OneClient, VotersAdmit
  <2>2. acked = 0 => \A n \in Nodes : height[n] = 0
    BY <1>1 DEF Inv, FirstPut
  <2>3. FirstPut'
    BY <1>0, <1>1, <1>2, <1>3, <2>2 DEF Inv, FirstPut
  <2> QED
    BY <2>1, <2>3
<1>7. HeightsInStep'
  <2>1. Commits = 0 /\ Commits' = 0
    BY <1>1, <1>3, CommitsValue
  <2> QED
    BY <1>1, <1>2, <1>3, <2>1 DEF Inv, HeightsInStep
<1>8. EntryInStep'
  <2>1. Commits' = 0 /\ \A i \in 1..2 : ~(i <= 0)
    BY <1>3, CommitsValue
  <2>2. TwoPlaces => cache[Target][height[Target]] = acked + 1
    BY <1>1 DEF Inv, EntryInStep, Index, Entry
  <2> QED
    BY <1>1, <1>2, <1>3, <1>4, <2>1, <2>2 DEF Inv, EntryInStep, Index, Entry
<1> QED
  BY <1>1, <1>4, <1>5, <1>6, <1>7, <1>8, PromisesKept DEF Inv

\* A commit: what the follower has under the index goes into its database, and
\* its height goes up - the index, too, if the follower is the Target itself.
LEMMA CommitAckedInv ==
  ASSUME Inv, CommitAcked
  PROVE  Inv'
<1>0. /\ Current \in Nodes /\ Current = Followers[put.follower]
      /\ put.follower \in 1..Len(Followers) /\ Len(Followers) \in Nat \ {0}
  BY AnswerFacts DEF CommitAcked, Inv
<1>1. /\ Target \in Nodes /\ put.phase = "commit" /\ height[Target] \in 0..MaxHeight
      /\ height \in [Nodes -> Nat] /\ db \in [Nodes -> SUBSET Nat] /\ acked \in Nat
      /\ client = "running"
  <2>1. height[Target] \in 0..MaxHeight
    BY IndexInRange DEF CommitAcked
  <2> QED
    BY <2>1, TargetFacts DEF CommitAcked, Inv, TypeOK, OneClient
<1>2. PICK v : v = cache[Current][height[Target]]
  OBVIOUS
<1>3. v # 0 /\ v \in Nat
  BY <1>0, <1>1, <1>2 DEF CommitAcked, Index, Inv, TypeOK
<1>4. /\ UNCHANGED <<flags, cache, up, expired, acked, client>>
      /\ NextFollower("finish")
      /\ db' = [db EXCEPT ![Current] = db[Current] \union {v}]
      /\ height' = [height EXCEPT ![Current] = height[Current] + 1]
  BY <1>2 DEF CommitAcked, Index
<1>5. /\ Followers' = Followers /\ (TwoPlaces' <=> TwoPlaces)
      /\ UNCHANGED <<role, commitType, followers, whitelist>>
  BY <1>4, FlagsFixed
<1>6. /\ put' \in [phase : {"none", "propose", "precommit", "persist", "commit",
                            "finish"}, follower : 1..Len(Followers)]
      /\ \/ /\ put.follower < Len(Followers)
            /\ put'.phase = "commit" /\ put'.follower = put.follower + 1
         \/ /\ put.follower = Len(Followers)
            /\ put'.phase = "finish" /\ put'.follower = 1
  BY <1>1, <1>4, TurnEffect DEF Inv
<1>7. /\ db' \in [Nodes -> SUBSET Nat] /\ v \in db'[Current]
      /\ \A n \in Nodes : db[n] \subseteq db'[n]
  BY <1>0, <1>1, <1>3, <1>4
<1>8. /\ height' \in [Nodes -> Nat] /\ height'[Current] = height[Current] + 1
      /\ \A n \in Nodes : n # Current => height'[n] = height[n]
      /\ \A n \in Nodes : height[n] \in Nat
  BY <1>0, <1>1, <1>4
<1>9. TypeOK'
  BY <1>4, <1>5, <1>6, <1>7, <1>8 DEF Inv, TypeOK
<1>10. OneClient' /\ VotersAdmit'
  BY <1>1, <1>4, <1>5, <1>6 DEF Inv, OneClient, VotersAdmit
<1>11. FirstPut'
  <2> SUFFICES ASSUME acked = 0
               PROVE  /\ put'.phase = "commit" =>
                           /\ height'[Target] <= 1
                           /\ Followers[1] = Target =>
                                height'[Target] = 1 /\ put'.follower = 2
                      /\ put'.phase = "finish" /\ Followers[1] = Target =>
                           Len(Followers) = 1
    <3>1. acked = 0 => \A n \in Nodes, i \in 1..MaxHeight : cache[n][i] = 0
      BY DEF Inv, FirstPut
    <3>2. put'.phase = "commit" => put'.follower # 1
      BY <1>0, <1>6
    <3> QED
      BY <1>4, <1>5, <1>6, <3>1, <3>2 DEF FirstPut
  <2>1. height[Target] = 0
    <3>1. height[Target] <= 1 /\ \A i \in 1..MaxHeight : cache[Current][i] = 0
      BY <1>0, <1>1 DEF Inv, FirstPut
    <3> QED
      BY <1>1, <1>2, <1>3, <3>1, TargetFacts
  <2>2. Followers[1] = Target => put.follower = 1
    BY <1>0, <1>1, <2>1 DEF Inv, FirstPut
  <2>3. height'[Target] <= 1 /\ (Current = Target => height'[Target] = 1)
    BY <1>1, <1>8, <2>1
  <2>4. Followers[1] = Target => Current = Target
    BY <2>2 DEF Current
  <2>5. Followers[1] = Target /\ put'.phase = "commit" => put'.follower = 2
    BY <1>6, <2>2
  <2>6. Followers[1] = Target /\ put'.phase = "finish" => Len(Followers) = 1
    BY <1>6, <2>2
  <2> QED
    BY <2>3, <2>4, <2>5, <2>6
<1>12. TwoPlaces =>
         /\ Len(Followers) = 2 /\ Followers[1] # Target
         /\ \/ /\ put.follower = 1 /\ put'.phase = "commit" /\ put'.follower = 2
               /\ Commits = 0 /\ Commits' = 1 /\ Current = Followers[1]
            \/ /\ put.follower = 2 /\ put'.phase = "finish"
               /\ Commits = 1 /\ Commits' = 2 /\ Current = Followers[2]
  BY <1>0, <1>1, <1>6, CommitsValue DEF TwoPlaces
<1>13. HeightsInStep'
  <2> SUFFICES ASSUME TwoPlaces PROVE HeightsInStep'
    BY <1>5 DEF HeightsInStep
  <2>0. HeightsInStep /\ Followers[1] # Target
    BY <1>12 DEF Inv
  <2>1. \A n \in Nodes : height'[n] <= 2 * acked + Commits'
    <3>1. \A n \in Nodes : height[n] <= 2 * acked + Commits
      BY <1>1, <2>0 DEF HeightsInStep
    <3>2. \A n \in Nodes : height'[n] <= height[n] + 1
      BY <1>8
    <3>3. Commits' = Commits + 1 /\ Commits \in Nat
      BY <1>12
    <3> QED
      BY <1>1, <1>8, <3>1, <3>2, <3>3
  <2>2. height[Target] <= 2 * acked
    BY <1>1, <2>0 DEF HeightsInStep
  <2>3. /\ put'.phase # "finish" => height'[Target] <= 2 * acked
        /\ put'.phase = "finish" => height'[Target] <= 2 * acked + 1
    <3>1. CASE put.follower = 1
      BY <1>1, <1>8, <1>12, <2>0, <2>2, <3>1
    <3>2. CASE put.follower = 2
      <4>1. height'[Target] = height[Target] \/ height'[Target] = height[Target] + 1
        BY <1>1, <1>8
      <4> QED
        BY <1>1, <1>12, <2>2, <3>2, <4>1
    <3> QED
      BY <1>12, <3>1, <3>2
  <2>4. ASSUME Followers[1] \in Nodes, Followers[2] \in Nodes \ {Target}
        PROVE  /\ height'[Followers[2]] <= height'[Followers[1]]
               /\ Commits' = 1 /\ Followers[1] # Followers[2] =>
                    height'[Followers[2]] < height'[Followers[1]]
    <3>1. /\ height[Followers[2]] <= height[Followers[1]]
          /\ Commits = 1 /\ Followers[1] # Followers[2] =>
               height[Followers[2]] < height[Followers[1]]
      BY <1>1, <2>0, <2>4 DEF HeightsInStep
    <3>2. height[Followers[1]] \in Nat /\ height[Followers[2]] \in Nat
      BY <1>8, <2>4
    <3>3. CASE Followers[1] = Followers[2]
      BY <1>8, <2>4, <3>3
    <3>4. CASE Followers[1] # Followers[2] /\ put.follower = 1
      <4>1. /\ height'[Followers[1]] = height[Followers[1]] + 1
            /\ height'[Followers[2]] = height[Followers[2]]
        BY <1>8, <1>12, <2>4, <3>4
      <4> QED
        BY <3>1, <3>2, <4>1
    <3>5. CASE Followers[1] # Followers[2] /\ put.follower = 2
      <4>1. /\ height'[Followers[2]] = height[Followers[2]] + 1
            /\ height'[Followers[1]] = height[Followers[1]]
            /\ Commits = 1 /\ Commits' = 2
        BY <1>8, <1>12, <2>4, <3>5
      <4> QED
        BY <3>1, <3>2, <3>5, <4>1
    <3> QED
      BY <1>12, <3>3, <3>4, <3>5
  <2> QED
    BY <1>4, <1>5, <2>1, <2>3, <2>4 DEF HeightsInStep
<1>14. EntryInStep'
  <2> SUFFICES ASSUME TwoPlaces PROVE EntryInStep'
    BY <1>5 DEF EntryInStep
  <2>1. /\ cache[Target][height[Target]] = acked + 1
        /\ \A i \in 1..2 : cache[Followers[i]][height[Target]] = acked + 1
        /\ acked + 1 \in db[Target]
        /\ \A i \in 1..2 : i <= Commits => acked + 1 \in db[Followers[i]]
    BY <1>1 DEF Inv, EntryInStep, Index, Entry
  <2>2. v = acked + 1 /\ acked + 1 \in db'[Target] /\ acked + 1 \in db'[Current]
    BY <1>0, <1>1, <1>2, <1>7, <1>12, <2>1
  <2>3. CASE put.follower = 1
    <3>1. /\ height'[Target] = height[Target] /\ Commits' = 1 /\ Current = Followers[1]
          /\ put'.phase = "commit"
      BY <1>1, <1>8, <1>12, <2>3
    <3>2. \A i \in 1..2 : i <= Commits' => acked + 1 \in db'[Followers[i]]
      BY <2>2, <3>1
    <3> QED
      BY <1>4, <1>5, <2>1, <2>2, <3>1, <3>2 DEF EntryInStep, Index, Entry
  <2>4. CASE put.follower = 2
    <3>1. put'.phase = "finish" /\ Current = Followers[2] /\ Commits = 1
      BY <1>12, <2>4
    <3>2. Followers[1] \in Nodes
      BY <1>1, <1>12 DEF Inv, VotersAdmit
    <3>3. acked + 1 \in db'[Followers[1]]
      BY <1>7, <2>1, <3>1, <3>2
    <3>4. \A i \in 1..2 : acked + 1 \in db'[Followers[i]]
      BY <2>2, <3>1, <3>3
    <3> QED
      BY <1>4, <1>5, <2>2, <3>1, <3>4 DEF EntryInStep, Entry
  <2> QED
    BY <1>12, <2>3, <2>4
<1> QED
  BY <1>4, <1>7, <1>9, <1>10, <1>11, <1>13, <1>14, PromisesKept DEF Inv

\* An acknowledgement: the list has two places, the first is not the Target's,
\* and all listed have the entry.
LEMMA FinishInv ==
  ASSUME Inv, Finish
  PROVE  Inv'
<1>0. /\ Target \in Nodes /\ put.phase = "finish" /\ Len(Followers) = 2
      /\ height \in [Nodes -> Nat] /\ acked \in Nat /\ acked < Requests
      /\ client = "running" /\ Requests \in Nat
  BY TargetFacts DEF Finish, MonitorAccepts, Inv, TypeOK, OneClient
<1>1. /\ UNCHANGED <<flags, cache, db, up, expired>> /\ acked' = acked + 1
      /\ height' = [height EXCEPT ![Target] = height[Target] + 1]
      /\ put' = [put EXCEPT !.phase = "none"]
      /\ client' = IF acked' = Requests THEN "done" ELSE "running"
  BY DEF Finish
<1>2. /\ Followers' = Followers /\ (TwoPlaces' <=> TwoPlaces)
      /\ (Serviceable' <=> Serviceable)
      /\ UNCHANGED <<role, commitType, followers, whitelist>>
  BY <1>1, FlagsFixed
<1>3. TwoPlaces
  <2>1. CASE acked = 0
    BY <1>0, <2>1 DEF Inv, FirstPut, TwoPlaces
  <2>2. CASE acked # 0
    BY <1>0, <2>2, ServiceableList DEF Inv, OnlyServiceableAcks
  <2> QED
    BY <2>1, <2>2
<1>4. put'.phase = "none" /\ put'.follower = put.follower /\ Commits = 2 /\ Commits' = 0
  <2>1. put'.phase = "none" /\ put'.follower = put.follower
    BY <1>1 DEF Inv, TypeOK
  <2> QED
    BY <1>0, <2>1, CommitsValue
<1>5. /\ height' \in [Nodes -> Nat] /\ height'[Target] = height[Target] + 1
      /\ \A n \in Nodes : n # Target => height'[n] = height[n]
      /\ \A n \in Nodes : height[n] \in Nat
  BY <1>0, <1>1
<1>6. TypeOK'
  <2>1. /\ acked' \in 0..Requests /\ client' \in {"running", "done", "panicked"}
        /\ put' \in [phase : {"none", "propose", "precommit", "persist", "commit",
                              "finish"}, follower : 1..Len(Followers)]
    <3>1. put \in [phase : {"none", "propose", "precommit", "persist", "commit",
                            "finish"}, follower : 1..Len(Followers)]
      BY DEF Inv, TypeOK
    <3>2. put' \in [phase : {"none", "propose", "precommit", "persist", "commit",
                             "finish"}, follower : 1..Len(Followers)]
      BY <1>1, <3>1
    <3>3. acked' \in 0..Requests /\ client' \in {"running", "done", "panicked"}
      BY <1>0, <1>1
    <3> QED
      BY <3>2, <3>3
  <2> QED
    BY <1>1, <1>2, <1>5, <2>1 DEF Inv, TypeOK
<1>7. OneClient' /\ VotersAdmit' /\ EntryInStep'
  BY <1>0, <1>1, <1>4 DEF OneClient, VotersAdmit, EntryInStep
<1>8. FirstPut'
  BY <1>0, <1>1 DEF FirstPut
<1>9. HeightsInStep'
  <2>0. HeightsInStep /\ Followers[1] # Target
    BY <1>3 DEF Inv, TwoPlaces
  <2>1. (\A n \in Nodes : height[n] <= 2 * acked + 2) /\ height[Target] <= 2 * acked + 1
    BY <1>0, <1>3, <1>4, <2>0 DEF HeightsInStep
  <2>2. \A n \in Nodes : height'[n] <= 2 * acked' + 0
    <3>1. 2 * acked \in Nat /\ 2 * acked' + 0 = 2 * acked + 2
      BY <1>0, <1>1
    <3>2. height'[Target] <= 2 * acked + 2
      BY <1>0, <1>5, <2>1, <3>1
    <3>3. \A n \in Nodes : n # Target => height'[n] <= 2 * acked + 2
      BY <1>5, <2>1
    <3> QED
      BY <3>1, <3>2, <3>3
  <2>3. Followers[1] \in Nodes /\ Followers[2] \in Nodes \ {Target} =>
          height'[Followers[2]] <= height'[Followers[1]]
    <3>1. Followers[1] \in Nodes /\ Followers[2] \in Nodes \ {Target} =>
            height[Followers[2]] <= height[Followers[1]]
      BY <1>0, <1>3, <2>0 DEF HeightsInStep
    <3> QED
      BY <1>5, <2>0, <3>1
  <2>4. height'[Target] <= 2 * acked'
    BY <1>0, <1>1, <1>5, <2>1
  <2> QED
    BY <1>2, <1>4, <2>2, <2>3, <2>4 DEF HeightsInStep
<1>10. \A i \in 1..2 : Followers[i] \in Nodes /\ "server" \in whitelist[Followers[i]]
  BY <1>0 DEF Inv, VotersAdmit
<1>11. OnlyServiceableAcks'
  <2>1. "client" \in whitelist[Target]
    BY <1>0 DEF Inv, OneClient
  <2>2. Serviceable
    BY <1>3, <1>10, <2>1, ListServiceable DEF Inv
  <2> QED
    BY <1>2, <2>2 DEF OnlyServiceableAcks
<1>12. AckEverywhere'
  <2> SUFFICES ASSUME NEW n \in {Target} \union (ToSet(Followers) \intersect Nodes),
                      NEW j \in 1..(acked + 1)
               PROVE  j \in db[n]
    BY <1>1, <1>2 DEF AckEverywhere
  <2>1. 1..acked \subseteq db[n]
    BY DEF Inv, AckEverywhere
  <2>2. acked + 1 \in db[n]
    <3>1. /\ acked + 1 \in db[Target]
          /\ \A i \in 1..2 : acked + 1 \in db[Followers[i]]
      BY <1>0, <1>3, <1>4 DEF Inv, EntryInStep, Entry
    <3>2. DOMAIN Followers = 1..2
      BY <1>0, ListFacts DEF Inv, TypeOK
    <3>3. n = Target \/ \E i \in 1..2 : n = Followers[i]
      BY <3>2 DEF ToSet
    <3> QED
      BY <3>1, <3>3
  <2>3. j \in 1..acked \/ j = acked + 1
    BY <1>0
  <2> QED
    BY <2>1, <2>2, <2>3
<1> QED
  BY <1>6, <1>7, <1>8, <1>9, <1>11, <1>12 DEF Inv

\* The inductive step.
LEMMA NextInv ==
  ASSUME Inv, [Next]_vars
  PROVE  Inv'
<1>1. CASE \/ \E n \in Nodes : Start(n)
           \/ Deadline \/ ProposeFails \/ Terminated \/ UNCHANGED vars
  BY <1>1, StartInv
<1>2. CASE ClientPut \/ ClientRefused \/ ProposeUnanswered \/ CommitUnanswered
  BY <1>2, ClientPutInv, FailInv, ProposeUnansweredInv
<1>3. CASE Put /\ ~ProposeFails
  BY <1>3, ProposeAckedInv, ProposeStaleInv, PrecommitInv, PersistInv, CommitAckedInv,
     FailInv, FinishInv DEF Put
<1> QED
  BY <1>1, <1>2, <1>3 DEF Next

(***************************************************************************)
(* The theorems                                                            *)
(***************************************************************************)

\* A Put that the client has seen acknowledged is in the database of the Target
\* and of every node on its list, for any nodes, any flags, any number of Puts,
\* any order of starts and whenever a deadline passes: also if a node is listed twice or the Target lists
\* itself, when the heights of the nodes drift apart.
THEOREM AckedEverywhere == Spec => []AckEverywhere
<1>1. Inv /\ [Next]_vars => Inv'
  BY NextInv
<1>2. Inv => AckEverywhere
  BY DEF Inv
<1> QED
  BY <1>1, <1>2, InitInv, PTL DEF Spec

\* Nothing is ever acknowledged with flags other than the serviceable ones: an
\* address where nobody listens, a white list without the host, the Target in
\* the first place or a list that has not two places stop the first Put.
THEOREM AcksNeedServiceableFlags == Spec => []OnlyServiceableAcks
<1>1. Inv /\ [Next]_vars => Inv'
  BY NextInv
<1>2. Inv => OnlyServiceableAcks
  BY DEF Inv
<1> QED
  BY <1>1, <1>2, InitInv, PTL DEF Spec

=============================================================================
