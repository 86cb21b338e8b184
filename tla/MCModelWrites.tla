---------------------------- MODULE MCModelWrites ----------------------------
(* Instances of ModelWrites for TLC: see the cfg files. *)
EXTENDS ModelWrites

CONSTANTS a, b, c
=============================================================================
