------------------------------ MODULE MCAiQuota ------------------------------
(* Small instances of the AI quota gate for TLC.  The symmetry is used by the *)
(* run that checks an invariant only, never by the one that checks liveness. *)
EXTENDS AiQuota, TLC

MCSymmetry == Permutations(Callers) \cup Permutations(Users) \cup Permutations(Keys)
=============================================================================
