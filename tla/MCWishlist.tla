----------------------------- MODULE MCWishlist -----------------------------
(* Small instances of Wishlist.  Requests, customers and products are        *)
(* interchangeable.                                                          *)
EXTENDS Wishlist, TLC

Symmetry ==
  Permutations(Requests) \cup Permutations(Customers) \cup Permutations(Products)
=============================================================================
