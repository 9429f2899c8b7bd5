---------------------------- MODULE MCNewsletter ----------------------------
(* Small instances of Newsletter.  Requests, addresses and stores are        *)
(* interchangeable.                                                          *)
EXTENDS Newsletter, TLC

Symmetry ==
  Permutations(Requests) \cup Permutations(Emails) \cup Permutations(Stores)
=============================================================================
