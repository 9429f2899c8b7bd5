----------------------------- MODULE MCServing -----------------------------
(* Small instances of Serving.                                               *)
EXTENDS Serving
=============================================================================
