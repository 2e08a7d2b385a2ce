-------------------------- MODULE MCServiceBilling --------------------------
(* Instances of ServiceBilling for TLC. *)
EXTENDS ServiceBilling, TLC

CONSTANTS u1, l1, r1, r2, t1, t2

OneListing == [l \in {l1} |-> u1]

Symmetry == Permutations(Requests) \cup Permutations(Transfers)
=============================================================================
