----------------------------- MODULE MCCommitter -----------------------------
(***************************************************************************)
(* Instances of Committer for TLC.                                         *)
(***************************************************************************)
EXTENDS CommitterProperties, TLC

CONSTANTS p1, p2, p3, k1, k2

TwoPuts   == {p1, p2}
ThreePuts == {p1, p2, p3}
TwoKeys   == {k1, k2}

\* p1 and p3 write the same key.
TwoPutsKeyOf   == (p1 :> k1) @@ (p2 :> k2)
ThreePutsKeyOf == (p1 :> k1) @@ (p2 :> k2) @@ (p3 :> k1)

==============================================================================
