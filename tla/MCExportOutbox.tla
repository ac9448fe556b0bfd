---------------------------- MODULE MCExportOutbox ----------------------------
(***************************************************************************)
(* Small instances of ExportOutbox for TLC.                                *)
(***************************************************************************)
EXTENDS ExportOutbox, TLC

\* Workers and observations are interchangeable; the targets are not, since some
\* speak syslog and some cannot be used.
Symmetry == Permutations(Workers) \cup Permutations(Observations)
===============================================================================
