------------------------------- MODULE AiQuota -------------------------------
(***************************************************************************)
(* The AI quota gate, checkAndConsumeAiCall (src/src/ai/core/quota.ts), for *)
(* one metered model: before every provider call one unit is taken from    *)
(* the counter of the user and from the counter of the API key, in one     *)
(* READ COMMITTED transaction of two guarded updates.  An update locks its *)
(* row until the transaction ends; a second one waits and then re-reads.   *)
(*                                                                         *)
(* Callers are requests and jobs of any number of processes.  The kill     *)
(* switch and the mock provider skip the gate and are not modelled, the    *)
(* token counts that recordAiTokens adds are read by no gate.              *)
(***************************************************************************)
EXTENDS Integers, Sequences

CONSTANTS
    Users, System,      \* who spends: a user, or one of our own jobs
    Keys,               \* API keys; the fingerprint of one is the global scope
    Callers,            \* calls in flight at once
    UserLimit, GlobalLimit,
    MaxDay,             \* bound: quota days
    MaxFaults           \* bound: database calls that fail

Days == 1 .. MaxDay
Scopes == Users \cup Keys

ASSUME QuotaAssumption ==
    /\ UserLimit \in Nat /\ GlobalLimit \in Nat
    /\ MaxDay \in Nat \ {0} /\ MaxFaults \in Nat
    /\ System \notin Users /\ Users \cap Keys = {}

VARIABLES
    calls,      \* ai_usage_counters.call_count, committed: (scope, day) -> number
    made,       \* the rows that exist
    day,        \* the Pacific date
    call,       \* what each caller is doing
    granted,    \* calls allowed so far, per key and day (history)
    faults

vars == <<calls, made, day, call, granted, faults>>

Idle == [pc |-> "idle"]

Limit(s) == IF s \in Users THEN UserLimit ELSE GlobalLimit

\* The counters a call takes a unit from, in the order in which it does.
Orders_Either(a, k) == IF a = System THEN {<<k>>} ELSE {<<a, k>>, <<k, a>>}
Orders(a, k) == IF a = System THEN {<<k>>} ELSE {<<a, k>>}

At(c, pc) == call[c].pc = pc
Row(c, n) == <<call[c].order[n], call[c].day>>
RowsOf(c) == {Row(c, n) : n \in DOMAIN call[c].order}

\* Rows an open transaction has updated.
Holds(c) == IF At(c, "gate") THEN {Row(c, n) : n \in 1 .. (call[c].next - 1)} ELSE {}
RowFree_Ignored(c, r) == TRUE
RowFree(c, r) == \A b \in Callers \ {c} : r \notin Holds(b)

Goto(c, pc) == call' = [call EXCEPT ![c].pc = pc]

\* The decision returned: spend a call, or do not.
Answer(c, allowed) ==
    /\ call' = [call EXCEPT ![c] = Idle]
    /\ granted' = IF allowed
                  THEN [granted EXCEPT ![<<call[c].key, call[c].day>>] = @ + 1]
                  ELSE granted

-----------------------------------------------------------------------------
\* The scopes and the window are fixed when the gate is called; the key is the
\* one configured in the process that calls.
Start(c) ==
    /\ call[c] = Idle
    /\ \E a \in Users \cup {System}, k \in Keys : \E order \in Orders(a, k) :
          call' = [call EXCEPT ![c] = [pc |-> "ensure", order |-> order, key |-> k,
                                       day |-> day, next |-> 1, denied |-> "none"]]
    /\ UNCHANGED <<calls, made, day, granted, faults>>

\* createMany with skipDuplicates, outside the transaction.
Ensured_First(c) == {Row(c, 1)}
Ensured(c) == RowsOf(c)

Ensure(c) ==
    /\ At(c, "ensure")
    /\ made' = made \cup Ensured(c)
    /\ Goto(c, "gate")
    /\ UNCHANGED <<calls, day, granted, faults>>

\* A guarded update finds its row under the limit ...
Room(c) == LET r == Row(c, call[c].next) IN r \in made /\ calls[r] < Limit(r[1])

Take(c) ==
    /\ At(c, "gate") /\ call[c].next <= Len(call[c].order)
    /\ RowFree(c, Row(c, call[c].next))
    /\ Room(c)
    /\ call' = [call EXCEPT ![c].next = @ + 1]
    /\ UNCHANGED <<calls, made, day, granted, faults>>

\* ... or no such row is left: QuotaDenied rolls back what came before.
RolledBack_KeepsFirst(c) ==
    [r \in DOMAIN calls |-> IF r \in Holds(c) THEN calls[r] + 1 ELSE calls[r]]
RolledBack_Refunds(c) ==
    [r \in DOMAIN calls |-> IF r \in Holds(c) THEN calls[r] - 1 ELSE calls[r]]
RolledBack(c) == calls

Deny(c) ==
    /\ At(c, "gate") /\ call[c].next <= Len(call[c].order)
    /\ ~Room(c)
    /\ calls' = RolledBack(c)
    /\ call' = [call EXCEPT ![c].pc = "report",
                  ![c].denied = IF call[c].order[call[c].next] \in Users THEN "user" ELSE "global"]
    /\ UNCHANGED <<made, day, granted, faults>>

Charged(c) == [r \in DOMAIN calls |-> IF r \in Holds(c) THEN calls[r] + 1 ELSE calls[r]]

Commit(c) ==
    /\ At(c, "gate") /\ call[c].next > Len(call[c].order)
    /\ calls' = Charged(c)
    /\ Goto(c, "report")
    /\ UNCHANGED <<made, day, granted, faults>>

\* The counters are read once more to say how much is left, and the decision
\* is returned.
Report(c) ==
    /\ At(c, "report")
    /\ Answer(c, call[c].denied = "none")
    /\ UNCHANGED <<calls, made, day, faults>>

\* A database call throws: fail closed.
OnError_Open == TRUE
OnError == FALSE

Fail(c) ==
    /\ call[c].pc \in {"ensure", "gate", "report"} /\ faults < MaxFaults
    /\ faults' = faults + 1
    /\ Answer(c, OnError)
    /\ UNCHANGED <<calls, made, day>>

\* The commit takes effect and its acknowledgement is lost.
CommitUnheard(c) ==
    /\ At(c, "gate") /\ call[c].next > Len(call[c].order) /\ faults < MaxFaults
    /\ faults' = faults + 1
    /\ calls' = Charged(c)
    /\ Answer(c, OnError)
    /\ UNCHANGED <<made, day>>

Midnight ==
    /\ day < MaxDay
    /\ day' = day + 1
    /\ UNCHANGED <<calls, made, call, granted, faults>>

Init ==
    /\ calls = [r \in Scopes \X Days |-> 0]
    /\ made = {}
    /\ day = 1
    /\ call = [c \in Callers |-> Idle]
    /\ granted = [r \in Keys \X Days |-> 0]
    /\ faults = 0

Next ==
    \/ \E c \in Callers :
          \/ Start(c)
          \/ Ensure(c)
          \/ Take(c)
          \/ Deny(c)
          \/ Commit(c)
          \/ Report(c)
          \/ Fail(c)
          \/ CommitUnheard(c)
    \/ Midnight

Spec == Init /\ [][Next]_vars

\* A call that is under way goes on; a waiting update gets its row in turn
\* (PostgreSQL queues the waiters of a row).
Fairness == \A c \in Callers :
    /\ WF_vars(Ensure(c) \/ Commit(c) \/ Report(c))
    /\ SF_vars(Take(c) \/ Deny(c))

FairSpec == Spec /\ Fairness
-----------------------------------------------------------------------------
(* Properties. *)

Call == [pc : {"ensure", "gate", "report"},
         order : {<<k>> : k \in Keys} \cup (Users \X Keys),
         key : Keys, day : Days, next : 1 .. 3, denied : {"none", "user", "global"}]

\* Types of the counters and of the calls in flight.
TypeOK ==
    /\ calls \in [Scopes \X Days -> Nat]
    /\ made \subseteq Scopes \X Days
    /\ day \in Days
    /\ call \in [Callers -> Call \cup {Idle}]
    /\ granted \in [Keys \X Days -> Nat]
    /\ faults \in Nat

\* "Exactly `limit` callers win, across jobs and a future worker process": no
\* interleaving of guarded updates takes a counter past its limit.
WithinLimits == \A r \in DOMAIN calls : calls[r] <= Limit(r[1])

\* The gate fails closed: whatever the database does, the provider is called at
\* most once per unit charged to the key on that day.
AllowedIsPaid == \A r \in DOMAIN granted : granted[r] <= calls[r]

\* A caller told that its allowance (or the shared budget) is used up is told
\* the truth: that counter is full, not locked by another call, not missing.
DenialsAreDue ==
    \A c \in Callers : At(c, "report") =>
        LET full(S) == \E r \in RowsOf(c) : r[1] \in S /\ calls[r] = Limit(r[1])
        IN  /\ call[c].denied = "user" => full(Users)
            /\ call[c].denied = "global" => full(Keys)

\* The lock order is free of deadlock: every call of the gate gets an answer.
EveryCallAnswers == \A c \in Callers : call[c] # Idle ~> call[c] = Idle

\* All or nothing: every change of the counters is a charge of AiBudget.
Budget == INSTANCE AiBudget WITH
    spent <- [r \in Users \X Days |-> calls[r]],
    pool <- [r \in Keys \X Days |-> calls[r]]
BudgetSpec == Budget!Spec
=============================================================================
