------------------------- MODULE MCCustomerAccount -------------------------
(* CustomerAccount on small instances.  Requests are interchangeable, and   *)
(* so are passwords: the handlers only compare them.                        *)
EXTENDS CustomerAccount, TLC

RequestSymmetry == Permutations(Requests)
Symmetry == RequestSymmetry \cup Permutations(Passwords)
=============================================================================
