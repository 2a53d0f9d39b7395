-------------------------- MODULE ReplicatedStore --------------------------
(***************************************************************************)
(* What the cluster promises to its clients, without the protocol: a       *)
(* key/value store with a copy on every node that serves one Put after     *)
(* another.  The coordinator decides that a Put gives its key a value, the *)
(* followers learn what was decided, and the Put is acknowledged only when *)
(* every copy holds its value (peer.go: "The coordinator reaches consensus *)
(* and all peers commit the value").  A Put may fail at any time before;   *)
(* once it has failed, no copy learns it any more.                         *)
(***************************************************************************)
CONSTANTS Nodes, Leader, Puts, Keys, KeyOf, None

VARIABLES
  store,   \* store[n][k]: the value of key k on node n
  phase    \* phase[p]: "open", "decided", "acked" or "failed"

Init ==
  /\ store = [n \in Nodes |-> [k \in Keys |-> None]]
  /\ phase = [p \in Puts |-> "open"]

\* The coordinator decides Put p, and no other is undecided at that time.
Decide(p) ==
  /\ phase[p] = "open"
  /\ \A q \in Puts : phase[q] # "decided"
  /\ store' = [store EXCEPT ![Leader][KeyOf[p]] = p]
  /\ phase' = [phase EXCEPT ![p] = "decided"]

\* Node n learns the Put that is decided.
Learn(n, p) ==
  /\ phase[p] = "decided"
  /\ store' = [store EXCEPT ![n][KeyOf[p]] = p]
  /\ UNCHANGED phase

Acknowledge(p) ==
  /\ phase[p] = "decided"
  /\ \A n \in Nodes : store[n][KeyOf[p]] = p
  /\ phase' = [phase EXCEPT ![p] = "acked"]
  /\ UNCHANGED store

Fail(p) ==
  /\ phase[p] \in {"open", "decided"}
  /\ phase' = [phase EXCEPT ![p] = "failed"]
  /\ UNCHANGED store

Next ==
  \/ \E p \in Puts : Decide(p) \/ Acknowledge(p) \/ Fail(p)
  \/ \E n \in Nodes, p \in Puts : Learn(n, p)

Spec == Init /\ [][Next]_<<store, phase>>

============================================================================
