-------------------------- MODULE MCResponseActions --------------------------
(***************************************************************************)
(* Small instances of ResponseActions for TLC.                             *)
(***************************************************************************)
EXTENDS ResponseActions, TLC

\* Hosts, actions, administrators and workers are interchangeable.
Symmetry ==
  Permutations(Hosts) \cup Permutations(Actions)
    \cup Permutations(Users) \cup Permutations(Workers)
===============================================================================
