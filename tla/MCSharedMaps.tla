---------------------------- MODULE MCSharedMaps ----------------------------
(* Small instances of SharedMaps.                                            *)
EXTENDS SharedMaps
=============================================================================
