--------------------------- MODULE MCAddressBook ---------------------------
(* Small instances of AddressBook.  Nothing orders the requests or the       *)
(* customers, so renaming them renames behaviours.                           *)
EXTENDS AddressBook, TLC

Symmetry == Permutations(Requests) \cup Permutations(Customers)
=============================================================================
