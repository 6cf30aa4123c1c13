----------------------------- MODULE MCJobQueue -----------------------------
(***************************************************************************)
(* Instances of JobQueue for TLC.  Job a retries once and may be requeued, *)
(* like instrument_corporate_actions; b runs once and must not be re-run,  *)
(* like retention_prune.                                                   *)
(***************************************************************************)
EXTENDS JobQueue, TLC

CONSTANTS a, b, p, q

OneEach == (a :> 2) @@ (b :> 1)
JustA == a :> 2
SamePrio == [j \in Jobs |-> 100]
UrgentB == [j \in Jobs |-> IF j = b THEN 10 ELSE 100]

=============================================================================
