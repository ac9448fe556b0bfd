--------------------------- MODULE MCStoreContract ---------------------------
(***************************************************************************)
(* A small instance of StoreContract for TLC.                              *)
(***************************************************************************)
EXTENDS StoreContract

One == 1..1
Two == 1..2
Three == 1..3

\* Rows a behaviour of a group creates, where the sets above would leave too many.
FewRows == [jobs |-> [scans |-> 0], findings |-> [obs |-> 1, hosts |-> 1],
            exports |-> [obs |-> 1, hosts |-> 1], retention |-> [obs |-> 1, hosts |-> 1]]
=============================================================================
