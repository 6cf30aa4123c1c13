------------------------------ MODULE AiBudget ------------------------------
(***************************************************************************)
(* What the AI quota promises: a day's calls are charged to the caller's   *)
(* allowance and to the shared budget in one step, or not at all, and      *)
(* neither goes past its limit.  AiQuota is shown to implement it.         *)
(***************************************************************************)
EXTENDS Integers

CONSTANTS Users, Keys, Days, UserLimit, GlobalLimit

VARIABLES
    spent,      \* calls charged to a user on a day
    pool        \* calls charged to an API key on a day, whoever made them

Init ==
    /\ spent = [r \in Users \X Days |-> 0]
    /\ pool = [r \in Keys \X Days |-> 0]

Charge(row, counter, limit) ==
    /\ counter[row] < limit
    /\ counter' = [counter EXCEPT ![row] = @ + 1]

ByUser(u, k, d) ==
    /\ Charge(<<u, d>>, spent, UserLimit)
    /\ Charge(<<k, d>>, pool, GlobalLimit)

BySystem(k, d) ==
    /\ Charge(<<k, d>>, pool, GlobalLimit)
    /\ UNCHANGED spent

Next ==
    \E k \in Keys, d \in Days :
        \/ BySystem(k, d)
        \/ \E u \in Users : ByUser(u, k, d)

Spec == Init /\ [][Next]_<<spent, pool>>
=============================================================================
