---------------------------- MODULE MCPublishing ----------------------------
(* Inputs for checking Publishing. *)
EXTENDS Publishing, TLC

CONSTANTS pr1, web

OfWeb == [p \in Production |-> web]
RequestSymmetry == Permutations(Request)
=============================================================================
