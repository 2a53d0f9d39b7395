--------------------------- MODULE MCMonitoredPuts ---------------------------
(***************************************************************************)
(* An instance of MonitoredPuts for TLC.  All Puts are alike.              *)
(***************************************************************************)
EXTENDS MonitoredPuts, TLC

PutSymmetry == Permutations(Puts)

==============================================================================
