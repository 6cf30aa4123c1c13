------------------------------ MODULE MCRescore ------------------------------
(* Constants of Rescore for TLC. *)
EXTENDS Rescore, TLC

CONSTANTS a, b, one, two, v, w

\* The workers are alike.
Alike == Permutations(Workers)
=============================================================================
