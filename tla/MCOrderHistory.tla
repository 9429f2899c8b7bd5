--------------------------- MODULE MCOrderHistory ---------------------------
(* Small instances of OrderHistory.  Nothing orders the ids of the orders.   *)
(* Page numbers and sizes come from the client unchecked.                    *)
EXTENDS OrderHistory, TLC

EdgeSizes == {-1, 0, 1, 2}
EdgePages == {0, 1, 2, 3}

Symmetry == Permutations(OrderIds)
=============================================================================
