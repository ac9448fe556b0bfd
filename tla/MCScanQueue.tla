----------------------------- MODULE MCScanQueue -----------------------------
(***************************************************************************)
(* Small instances of ScanQueue for TLC.                                   *)
(***************************************************************************)
EXTENDS ScanQueue, TLC

\* Neither hosts, jobs nor workers are ordered anywhere in the model.
Symmetry ==
  Permutations(Hosts) \cup Permutations(Jobs) \cup Permutations(Workers)
===============================================================================
