------------------------- MODULE MCRequestExecutor -------------------------
(* The requests are all of one customer, the case in which they compete.     *)
EXTENDS RequestExecutor, TLC

MCSlugOf == [r \in Requests |-> "customer"]
MCSymmetry == Permutations(Hosts)
============================================================================
