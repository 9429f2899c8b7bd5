------------------------- MODULE MCCustomerRegistry -------------------------
(* Small instances of CustomerRegistry.  Requests and addresses are          *)
(* interchangeable; the two stores are not, as one is of website 1.          *)
EXTENDS CustomerRegistry, TLC

CONSTANTS de, at
TwoWebsites == de :> 1 @@ at :> 2

Symmetry == Permutations(Requests) \cup Permutations(Emails)
=============================================================================
