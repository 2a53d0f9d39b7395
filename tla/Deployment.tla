----------------------------- MODULE Deployment -----------------------------
(***************************************************************************)
(* What the flags of the nodes make of the system.  One node, the Target,  *)
(* is the one that examples/client sends its Puts to.  Its role, its       *)
(* commit type, its list of followers and the white lists of all nodes are *)
(* any the operator may give; the nodes start in any order; the client     *)
(* sends one Put after the other and gives up at the first that is not     *)
(* acknowledged.                                                           *)
(*                                                                         *)
(* Committer has one coordinator with N other nodes, all reachable.  Here  *)
(* the list may name a node twice, name the node itself (config.Get adds   *)
(* every follower to its own list), or an address where nobody listens.    *)
(* An RPC is one step and can fail by the deadline of a three-phase Put    *)
(* only; what else may be lost, and restarts, are Committer's matter.  A   *)
(* Put is known by the number of the request.                              *)
(***************************************************************************)
EXTENDS Integers, Sequences, SequencesExt

CONSTANTS
  Target,    \* the node that the client knows
  Others,    \* the other nodes
  Nowhere,   \* an address where nobody listens; also the empty one
  Requests,  \* how many Puts the client sends
  MaxList    \* bound: the length of the list of followers in the flag

ASSUME DeploymentAssumption ==
  /\ Target \notin Others
  /\ Nowhere \notin Others \union {Target}
  /\ Requests \in Nat \ {0}
  /\ MaxList \in Nat

Nodes == Others \union {Target}

\* Where a call comes from: from the Target, or from the client.
Hosts == {"server", "client"}

\* No Put has a larger index: all but the first need a list with two places, and
\* a node there gains at most two for every Put.
MaxHeight == 2 * Requests

VARIABLES
  role,       \* the flags of the Target: -role, ...
  commitType, \* ... -committype, ...
  followers,  \* ... and -followers, split at the commas
  whitelist,  \* whitelist[n]: the hosts in n's flag -whitelist
  up,         \* the nodes that run
  height,     \* height[n]: n's Height
  cache,      \* cache[n][i]: the Put in n's NodeCache under index i, or 0
  db,         \* db[n]: the Puts whose values are in n's database
  put,        \* where the Target's Put is, and at which follower
  expired,    \* has the deadline of this Put's context passed?
  acked,      \* how many Puts have been acknowledged
  client      \* "running", "done", or "panicked"

flags == <<role, commitType, followers, whitelist>>
stores == <<height, cache, db>>
vars == <<flags, up, stores, put, expired, acked, client>>

(***************************************************************************)
(* Configuration                                                           *)
(***************************************************************************)
Includes(arr, value) == \E i \in DOMAIN arr : arr[i] = value

\* strings.Split gives one empty string for an empty flag.
Split(flag) == IF flag = <<>> THEN <<Nowhere>> ELSE flag

\* Mutant of Followers: a follower is not added to its own list.
Followers_AsGiven == Split(followers)

\* config.Get, and the clients that NewCommitServer makes of it.
Followers ==
  LET followersArray == Split(followers)
  IN IF role # "coordinator" /\ ~Includes(followersArray, Target)
       THEN Append(followersArray, Target) ELSE followersArray

WhiteListChecker(n, host) == host \in whitelist[n]

\* A call from `host' to address n gets to the handler.
Answers(n, host) == n \in up /\ WhiteListChecker(n, host)

Init ==
  /\ role \in {"coordinator", "follower"}
  /\ commitType \in {"two-phase", "three-phase"}
  /\ followers \in SeqOf(Nodes \union {Nowhere}, MaxList)
  /\ whitelist \in [Nodes -> SUBSET Hosts]
  /\ \A n \in Others : "client" \in whitelist[n]  \* who never calls them
  /\ up = {}
  /\ height = [n \in Nodes |-> 0]
  /\ cache = [n \in Nodes |-> [i \in 0..MaxHeight |-> 0]]
  /\ db = [n \in Nodes |-> {}]
  /\ put = [phase |-> "none", follower |-> 1]
  /\ expired = FALSE
  /\ acked = 0
  /\ client = "running"

\* Nobody goes on starting nodes when the client has given up.
Start(n) ==
  /\ n \notin up
  /\ client # "panicked"
  /\ up' = up \union {n}
  /\ UNCHANGED <<flags, stores, put, expired, acked, client>>

(***************************************************************************)
(* The client                                                              *)
(***************************************************************************)
ClientPut ==
  /\ client = "running"
  /\ put.phase = "none"
  /\ Answers(Target, "client")
  /\ put' = [phase |-> "propose", follower |-> 1]
  /\ expired' = FALSE
  /\ UNCHANGED <<flags, up, stores, acked, client>>

\* The Target does not run yet, or does not know the client's host.
ClientRefused ==
  /\ client = "running"
  /\ put.phase = "none"
  /\ ~Answers(Target, "client")
  /\ client' = "panicked"
  /\ UNCHANGED <<flags, up, stores, put, expired, acked>>

\* The Target's Put returns anything but an acknowledgement.
PutFails ==
  /\ put' = [put EXCEPT !.phase = "none"]
  /\ client' = "panicked"
  /\ UNCHANGED acked

(***************************************************************************)
(* The Target's Put                                                        *)
(***************************************************************************)
Current == Followers[put.follower]
Index == height[Target]
Entry == acked + 1

\* The call to the current follower: gRPC refuses it once the deadline has passed.
Answered == ~expired /\ Answers(Current, "server")

NextFollower(after) ==
  put' = IF put.follower < Len(Followers)
           THEN [put EXCEPT !.follower = @ + 1]
           ELSE [phase |-> after, follower |-> 1]

ProposeAcked ==
  /\ put.phase = "propose"
  /\ Answered
  /\ height[Current] <= Index
  /\ cache' = [cache EXCEPT ![Current][Index] = Entry, ![Target][Index] = Entry]
  /\ NextFollower("precommit")
  /\ UNCHANGED <<flags, up, height, db, expired, acked, client>>

\* Mutant of ProposeStale: the Target keeps its own height.
ProposeStale_Forgotten ==
  /\ put.phase = "propose"
  /\ Answered
  /\ height[Current] > Index
  /\ cache' = [cache EXCEPT ![Current][Index] = Entry]
  /\ UNCHANGED <<flags, up, height, db, put, expired, acked, client>>

\* The follower is ahead: it keeps the entry, and the Target takes its height.
ProposeStale ==
  /\ put.phase = "propose"
  /\ Answered
  /\ height[Current] > Index
  /\ cache' = [cache EXCEPT ![Current][Index] = Entry]
  /\ height' = [height EXCEPT ![Target] = height[Current]]
  /\ UNCHANGED <<flags, up, db, put, expired, acked, client>>

\* Nobody listens, or not yet, the follower refuses the Target's host, or the
\* deadline has passed: the loop tries again.
ProposeFails ==
  /\ put.phase = "propose"
  /\ ~Answered
  /\ UNCHANGED vars

\* The deadline passes before the answer to a Propose arrives, but after the
\* follower has kept the entry.
ProposeUnanswered ==
  /\ commitType = "three-phase"
  /\ put.phase = "propose"
  /\ Answered
  /\ cache' = [cache EXCEPT ![Current][Index] = Entry]
  /\ expired' = TRUE
  /\ UNCHANGED <<flags, up, height, db, put, acked, client>>

\* All have answered a Propose by now, so none refuses.
Precommit ==
  /\ put.phase = "precommit"
  /\ Answered
  /\ NextFollower("persist")
  /\ UNCHANGED <<flags, up, stores, expired, acked, client>>

Persist ==
  /\ put.phase = "persist"
  /\ cache[Target][Index] # 0
  /\ db' = [db EXCEPT ![Target] = @ \union {cache[Target][Index]}]
  /\ put' = [put EXCEPT !.phase = "commit"]
  /\ UNCHANGED <<flags, up, height, cache, expired, acked, client>>

\* If the follower is the Target itself this moves Index.
CommitAcked ==
  /\ put.phase = "commit"
  /\ Answered
  /\ cache[Current][Index] # 0
  /\ db' = [db EXCEPT ![Current] = @ \union {cache[Current][Index]}]
  /\ height' = [height EXCEPT ![Current] = @ + 1]
  /\ NextFollower("finish")
  /\ UNCHANGED <<flags, up, cache, expired, acked, client>>

\* Mutant of CommitMissing: an answer is an answer.
CommitMissing_Ignored ==
  /\ put.phase = "commit"
  /\ Answered
  /\ cache[Current][Index] = 0
  /\ NextFollower("finish")
  /\ UNCHANGED <<flags, up, stores, expired, acked, client>>

CommitMissing ==
  /\ put.phase = "commit"
  /\ Answered
  /\ cache[Current][Index] = 0
  /\ PutFails
  /\ UNCHANGED <<flags, up, stores, expired>>

\* The deadline passes before the answer to a Commit arrives, but after the
\* follower has committed.
CommitUnanswered ==
  /\ commitType = "three-phase"
  /\ put.phase = "commit"
  /\ Answered
  /\ cache[Current][Index] # 0
  /\ db' = [db EXCEPT ![Current] = @ \union {cache[Current][Index]}]
  /\ height' = [height EXCEPT ![Current] = @ + 1]
  /\ expired' = TRUE
  /\ PutFails
  /\ UNCHANGED <<flags, up, cache>>

\* A Precommit or a Commit after the deadline: NACK.
CallFails ==
  /\ put.phase \in {"precommit", "commit"}
  /\ expired
  /\ PutFails
  /\ UNCHANGED <<flags, up, stores, expired>>

\* The checks of the monitor know two participants, and only Puts with two
\* followers pass them (MonitoredPuts).
MonitorAccepts == Len(Followers) = 2

Finish ==
  /\ put.phase = "finish"
  /\ MonitorAccepts
  /\ height' = [height EXCEPT ![Target] = @ + 1]
  /\ put' = [put EXCEPT !.phase = "none"]
  /\ acked' = acked + 1
  /\ client' = IF acked' = Requests THEN "done" ELSE "running"
  /\ UNCHANGED <<flags, up, cache, db, expired>>

Panic ==
  /\ put.phase = "finish"
  /\ ~MonitorAccepts
  /\ up' = up \ {Target}
  /\ PutFails
  /\ UNCHANGED <<flags, stores, expired>>

Put ==
  \/ ProposeAcked
  \/ ProposeStale
  \/ ProposeFails
  \/ Precommit
  \/ Persist
  \/ CommitAcked
  \/ CommitMissing
  \/ CallFails
  \/ Finish
  \/ Panic

\* The timeout that a three-phase Put sets before its first Propose runs out: its
\* later calls share the deadline.
Deadline ==
  /\ commitType = "three-phase"
  /\ put.phase # "none"
  /\ ~expired
  /\ expired' = TRUE
  /\ UNCHANGED <<flags, up, stores, put, acked, client>>

Terminated ==
  /\ client \in {"done", "panicked"}
  /\ UNCHANGED vars

Next ==
  \/ \E n \in Nodes : Start(n)
  \/ ClientPut
  \/ ClientRefused
  \/ Put
  \/ Deadline \/ ProposeUnanswered \/ CommitUnanswered
  \/ Terminated

\* Every node is started some day, the client goes on, and so does a handler.  How
\* soon the deadline comes is left open.
Fairness ==
  /\ \A n \in Nodes : WF_vars(Start(n))
  /\ WF_vars(ClientPut)
  /\ WF_vars(Put)

Spec == Init /\ [][Next]_vars /\ Fairness

(***************************************************************************)
(* Properties                                                              *)
(***************************************************************************)

\* A Put that the client has seen acknowledged is in the database of the
\* Target and of every node that its list names, however often, the Target
\* itself included.
AckEverywhere ==
  \A n \in {Target} \union (ToSet(Followers) \intersect Nodes) :
    1..acked \subseteq db[n]

\* The flags with which Puts succeed: all addresses listed belong to nodes that
\* admit the Target, the Target admits the client, and the list, with the Target
\* added to that of a follower, has two places, of which the first is not the
\* Target's.
Serviceable ==
  /\ "client" \in whitelist[Target]
  /\ \A i \in DOMAIN followers :
       followers[i] \in Nodes /\ "server" \in whitelist[followers[i]]
  /\ role = "follower" => "server" \in whitelist[Target]
  /\ Len(followers) = IF role = "follower" /\ ~Includes(followers, Target)
                        THEN 1 ELSE 2
  /\ followers[1] # Target

\* With other flags nothing is ever acknowledged.
OnlyServiceableAcks == acked > 0 => Serviceable

\* With these flags a Put that has begun succeeds, and so do all that follow,
\* once the followers are started: the Target waits for them, and catches up
\* with a node that is ahead because it is listed twice.  A two-phase Put waits
\* as long as it takes; a three-phase one whose deadline passes fails, or, if it
\* was still collecting votes, goes on asking in vain.
ServiceableServes ==
  Serviceable /\ put.phase # "none" ~>
    \/ client = "done"
    \/ /\ commitType = "three-phase" /\ expired
       /\ put.phase = "propose" \/ client = "panicked"

=============================================================================
