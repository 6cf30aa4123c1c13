----------------------------- MODULE MCReminders -----------------------------
(* Reminders with the same code in every worker. *)
EXTENDS Reminders, TLC

Symmetric == Permutations(Workers)
=============================================================================
