---------------------------- MODULE MCObservations ----------------------------
(***************************************************************************)
(* Small instances of Observations for TLC.                                *)
(***************************************************************************)
EXTENDS Observations, TLC

\* Findings and scans are interchangeable.
Symmetry == Permutations(Findings) \cup Permutations(Scans)
===============================================================================
