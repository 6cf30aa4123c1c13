---------------------------- MODULE AiQuotaProofs ----------------------------
(***************************************************************************)
(* No interleaving of the quota gate's guarded updates takes a counter     *)
(* past its limit, and the gate implements AiBudget, for every number of   *)
(* users, keys, callers and days and for all limits.                       *)
(*                                                                         *)
(* WithinLimits is not inductive: a commit raises the rows its transaction *)
(* has updated, so it must be known that they still are below their limits *)
(* (Roomy), which another transaction could only spoil by committing to    *)
(* the same row, and the row locks keep it from that (Exclusive).          *)
(***************************************************************************)
EXTENDS AiQuota, FiniteSetTheorems, TLAPS

\* A transaction starts with no update behind it and has at most all of them.
InOrder == \A c \in Callers : call[c] # Idle =>
    /\ call[c].next <= Len(call[c].order) + 1
    /\ At(c, "ensure") => call[c].next = 1

\* No two open transactions have updated the same row.
Exclusive == \A c, d \in Callers : c # d => Holds(c) \cap Holds(d) = {}

\* A row an open transaction has updated has room for it.
Roomy == \A c \in Callers : \A r \in Holds(c) : calls[r] < Limit(r[1])

Inv == TypeOK /\ InOrder /\ Exclusive /\ Roomy /\ WithinLimits
-----------------------------------------------------------------------------
LEMMA LimitType == \A s : Limit(s) \in Nat
  BY QuotaAssumption DEF Limit

\* What a transaction holds are rows of the counter table.
LEMMA HoldsRows ==
  ASSUME TypeOK, InOrder, NEW c \in Callers
  PROVE  Holds(c) \subseteq Scopes \X Days
  <1>1. CASE At(c, "gate")
    <2>1. call[c] \in Call /\ call[c] # Idle
      BY <1>1 DEF TypeOK, At, Idle
    <2>2. call[c].next <= Len(call[c].order) + 1
      BY <2>1 DEF InOrder
    <2>3. ASSUME NEW n \in 1 .. (call[c].next - 1)
          PROVE  Row(c, n) \in Scopes \X Days
      <3>1. call[c].day \in Days
        BY <2>1 DEF Call
      <3>2. CASE call[c].order \in {<<k>> : k \in Keys}
        <4>1. PICK k \in Keys : call[c].order = <<k>>
          BY <3>2
        <4>2. n = 1
          BY <2>1, <2>2, <4>1 DEF Call
        <4> QED BY <3>1, <4>1, <4>2 DEF Row, Scopes
      <3>3. CASE call[c].order \in Users \X Keys
        <4>1. PICK u \in Users, k \in Keys : call[c].order = <<u, k>>
          BY <3>3
        <4>2. n = 1 \/ n = 2
          BY <2>1, <2>2, <4>1 DEF Call
        <4> QED BY <3>1, <4>1, <4>2 DEF Row, Scopes
      <3> QED BY <2>1, <3>2, <3>3 DEF Call
    <2> QED BY <1>1, <2>3 DEF Holds
  <1>2. CASE ~At(c, "gate")
    BY <1>2 DEF Holds
  <1> QED BY <1>1, <1>2

\* A step that charges nothing and updates no further row keeps the counters
\* and the locks in order.
LEMMA NothingTaken ==
  ASSUME Inv, calls' = calls, \A c \in Callers : Holds(c)' \subseteq Holds(c)
  PROVE  Exclusive' /\ Roomy' /\ WithinLimits'
  <1>1. Exclusive'
    <2>1. ASSUME NEW c \in Callers, NEW d \in Callers, c # d
          PROVE  Holds(c)' \cap Holds(d)' = {}
      <3>1. Holds(c) \cap Holds(d) = {}
        BY <2>1 DEF Inv, Exclusive
      <3> QED BY <3>1
    <2> QED BY <2>1 DEF Exclusive
  <1>2. Roomy'
    <2>1. ASSUME NEW c \in Callers, NEW r \in Holds(c)'
          PROVE  calls'[r] < Limit(r[1])
      <3>1. r \in Holds(c)
        OBVIOUS
      <3> QED BY <3>1 DEF Inv, Roomy
    <2> QED BY <2>1 DEF Roomy, Limit
  <1>3. WithinLimits'
    BY DEF Inv, WithinLimits, Limit
  <1> QED BY <1>1, <1>2, <1>3

\* Only the transaction a step is part of can come to hold a row.
LEMMA OthersHold ==
  ASSUME NEW d \in Callers, call'[d] = call[d]
  PROVE  Holds(d)' = Holds(d)
  BY DEF Holds, At, Row

\* A transaction ends: its rows, and no others, are charged and released.
LEMMA Charging ==
  ASSUME Inv, NEW c \in Callers, calls' = Charged(c),
         Holds(c)' = {}, \A d \in Callers \ {c} : Holds(d)' = Holds(d)
  PROVE  /\ calls' \in [Scopes \X Days -> Nat]
         /\ Exclusive' /\ Roomy' /\ WithinLimits'
  <1> USE DEF Inv
  <1>1. calls \in [Scopes \X Days -> Nat]
    BY DEF TypeOK
  <1>2. calls' \in [Scopes \X Days -> Nat]
    BY <1>1 DEF Charged
  <1>3. \A r \in Scopes \X Days :
            calls'[r] = IF r \in Holds(c) THEN calls[r] + 1 ELSE calls[r]
    BY <1>1 DEF Charged
  <1>4. Exclusive'
    BY DEF Exclusive
  <1>5. Roomy'
    <2>1. ASSUME NEW d \in Callers, NEW r \in Holds(d)'
          PROVE  calls'[r] < Limit(r[1])
      <3>1. d # c /\ r \in Holds(d)
        BY <2>1
      <3>2. r \notin Holds(c)
        BY <3>1 DEF Exclusive
      <3>3. r \in Scopes \X Days
        BY <3>1, HoldsRows
      <3>4. calls'[r] = calls[r]
        BY <1>3, <3>2, <3>3
      <3> QED BY <3>1, <3>4 DEF Roomy
    <2> QED BY <2>1 DEF Roomy, Limit
  <1>6. WithinLimits'
    <2>1. ASSUME NEW r \in Scopes \X Days
          PROVE  calls'[r] <= Limit(r[1])
      <3>1. calls[r] \in Nat /\ calls[r] <= Limit(r[1]) /\ Limit(r[1]) \in Nat
        BY <1>1, LimitType DEF WithinLimits
      <3>2. r \in Holds(c) => calls[r] < Limit(r[1])
        BY DEF Roomy
      <3> QED BY <1>3, <3>1, <3>2
    <2> QED BY <1>2, <2>1 DEF WithinLimits, Limit
  <1> QED BY <1>2, <1>4, <1>5, <1>6
-----------------------------------------------------------------------------
\* A call in the gate is a record with an order of one or two rows.
LEMMA InGate ==
  ASSUME TypeOK, InOrder, NEW c \in Callers, call[c] # Idle
  PROVE  /\ call[c] \in Call
         /\ Len(call[c].order) \in {1, 2}
         /\ call[c].next \in 1 .. 3
         /\ call[c].next <= Len(call[c].order) + 1
         /\ At(c, "ensure") => call[c].next = 1
  <1>1. call[c] \in Call /\ call[c].next \in 1 .. 3
    BY DEF TypeOK, Call
  <1>2. CASE call[c].order \in {<<k>> : k \in Keys}
    BY <1>1, <1>2 DEF InOrder
  <1>3. CASE call[c].order \in Users \X Keys
    BY <1>1, <1>3 DEF InOrder
  <1> QED BY <1>1, <1>2, <1>3 DEF Call

LEMMA StartInv ==
  ASSUME Inv, NEW c \in Callers, Start(c)
  PROVE  Inv'
  <1> USE DEF Inv
  <1>0. PICK a \in Users \cup {System}, k \in Keys : \E order \in Orders(a, k) :
          call' = [call EXCEPT ![c] = [pc |-> "ensure", order |-> order, key |-> k,
                                       day |-> day, next |-> 1, denied |-> "none"]]
    BY DEF Start
  <1>1. PICK order \in Orders(a, k) :
          call' = [call EXCEPT ![c] = [pc |-> "ensure", order |-> order, key |-> k,
                                       day |-> day, next |-> 1, denied |-> "none"]]
    BY <1>0
  <1>2. order \in {<<x>> : x \in Keys} \cup (Users \X Keys)
    BY DEF Orders
  <1>3. call'[c] \in Call /\ call'[c].next = 1 /\ call'[c].pc = "ensure"
    BY <1>1, <1>2 DEF TypeOK, Call
  <1>4. \A d \in Callers \ {c} : call'[d] = call[d]
    BY <1>1 DEF TypeOK
  <1>5. TypeOK'
    BY <1>1, <1>3 DEF TypeOK, Start
  <1>6. InOrder'
    <2>1. call'[c].order = order /\ Len(order) \in Nat
      <3>1. call'[c].order = order
        BY <1>1 DEF TypeOK
      <3>2. CASE order \in {<<x>> : x \in Keys}
        BY <3>1, <3>2
      <3>3. CASE order \in Users \X Keys
        BY <3>1, <3>3
      <3> QED BY <1>2, <3>1, <3>2, <3>3
    <2>2. call'[c].next <= Len(call'[c].order) + 1
      BY <1>3, <2>1
    <2> QED BY <1>3, <1>4, <2>2 DEF InOrder, At
  <1>7. \A d \in Callers : Holds(d)' \subseteq Holds(d)
    <2>1. Holds(c)' = {}
      BY <1>3 DEF Holds, At
    <2> QED BY <1>4, <2>1, OthersHold
  <1> QED BY <1>5, <1>6, <1>7, NothingTaken DEF Start

LEMMA EnsureInv ==
  ASSUME Inv, NEW c \in Callers, Ensure(c)
  PROVE  Inv'
  <1> USE DEF Inv
  <1>1. call[c] # Idle /\ call[c].pc = "ensure"
    BY DEF Ensure, At, Idle
  <1>2. call[c] \in Call /\ call[c].next = 1 /\ Len(call[c].order) \in {1, 2}
    BY <1>1, InGate DEF At
  <1>3. /\ call' = [call EXCEPT ![c] = [call[c] EXCEPT !.pc = "gate"]]
        /\ \A d \in Callers \ {c} : call'[d] = call[d]
    BY DEF Ensure, Goto, TypeOK
  <1>4. call'[c] = [call[c] EXCEPT !.pc = "gate"]
    BY <1>3 DEF TypeOK
  <1>5. /\ call'[c] \in Call /\ call'[c].next = 1
        /\ call'[c].order = call[c].order /\ call'[c].pc = "gate"
    BY <1>2, <1>4 DEF Call
  <1>6. RowsOf(c) \subseteq Scopes \X Days
    <2>1. call[c].day \in Days
      BY <1>2 DEF Call
    <2>2. CASE call[c].order \in {<<k>> : k \in Keys}
      BY <2>1, <2>2 DEF RowsOf, Row, Scopes
    <2>3. CASE call[c].order \in Users \X Keys
      BY <2>1, <2>3 DEF RowsOf, Row, Scopes
    <2> QED BY <1>2, <2>2, <2>3 DEF Call
  <1>7. TypeOK'
    BY <1>3, <1>4, <1>5, <1>6 DEF TypeOK, Ensure, Ensured
  <1>8. InOrder'
    BY <1>2, <1>3, <1>5 DEF InOrder, At
  <1>9. \A d \in Callers : Holds(d)' \subseteq Holds(d)
    <2>1. Holds(c)' = {}
      BY <1>5 DEF Holds, At
    <2> QED BY <1>3, <2>1, OthersHold
  <1> QED BY <1>7, <1>8, <1>9, NothingTaken DEF Ensure

LEMMA TakeInv ==
  ASSUME Inv, NEW c \in Callers, Take(c)
  PROVE  Inv'
  <1> USE DEF Inv
  <1> DEFINE r == Row(c, call[c].next)
  <1>1. /\ call[c] # Idle /\ call[c].pc = "gate"
        /\ call[c].next <= Len(call[c].order)
        /\ RowFree(c, r) /\ calls[r] < Limit(r[1]) /\ calls' = calls
    BY DEF Take, At, Idle, Room
  <1>2. /\ call[c] \in Call /\ Len(call[c].order) \in {1, 2}
        /\ call[c].next \in 1 .. 3 /\ call[c].next <= 2
    <2>1. /\ call[c] \in Call /\ Len(call[c].order) \in {1, 2}
          /\ call[c].next \in 1 .. 3
      BY <1>1, InGate
    <2>2. call[c].next <= 2
      <3>1. CASE Len(call[c].order) = 1
        BY <1>1, <2>1, <3>1
      <3>2. CASE Len(call[c].order) = 2
        BY <1>1, <3>2
      <3> QED BY <2>1, <3>1, <3>2
    <2> QED BY <2>1, <2>2
  <1>3. /\ call'[c] = [call[c] EXCEPT !.next = @ + 1]
        /\ \A d \in Callers \ {c} : call'[d] = call[d]
        /\ call' \in [Callers -> Call \cup {Idle}]
    <2>1. call' = [call EXCEPT ![c] = [call[c] EXCEPT !.next = @ + 1]]
      BY DEF Take
    <2>2. call[c].next + 1 \in 1 .. 3
      BY <1>2
    <2>3. [call[c] EXCEPT !.next = @ + 1] \in Call
      BY <1>2, <2>2 DEF Call
    <2> QED BY <2>1, <2>3 DEF TypeOK
  <1>4. /\ call'[c].next = call[c].next + 1 /\ call'[c].order = call[c].order
        /\ call'[c].day = call[c].day /\ call'[c].pc = "gate"
    BY <1>1, <1>2, <1>3 DEF Call
  <1>5. TypeOK'
    BY <1>3 DEF TypeOK, Take
  <1>6. InOrder'
    <2>1. ASSUME NEW d \in Callers, call'[d] # Idle
          PROVE  /\ call'[d].next <= Len(call'[d].order) + 1
                 /\ call'[d].pc = "ensure" => call'[d].next = 1
      <3>1. CASE d = c
        BY <1>1, <1>2, <1>4, <3>1
      <3>2. CASE d # c
        BY <1>3, <2>1, <3>2 DEF InOrder, At
      <3> QED BY <3>1, <3>2
    <2> QED BY <2>1 DEF InOrder, At, Idle
  <1>7. Holds(c)' = Holds(c) \cup {r}
    <2>1. call[c].next \in Nat \ {0}
      BY <1>2 DEF Call
    <2>2. Holds(c) = {Row(c, n) : n \in 1 .. (call[c].next - 1)}
      BY <1>1 DEF Holds, At
    <2>3. Holds(c)' = {Row(c, n)' : n \in 1 .. call[c].next}
      BY <1>4, <2>1 DEF Holds, At
    <2>4. \A n \in 1 .. call[c].next : Row(c, n)' = Row(c, n)
      BY <1>4 DEF Row
    <2>5. 1 .. call[c].next = (1 .. (call[c].next - 1)) \cup {call[c].next}
      BY <2>1
    <2> QED BY <2>2, <2>3, <2>4, <2>5
  <1>8. \A d \in Callers \ {c} : Holds(d)' = Holds(d) /\ r \notin Holds(d)
    BY <1>1, <1>3, OthersHold DEF RowFree
  <1>9. Exclusive'
    <2>1. ASSUME NEW d \in Callers, NEW e \in Callers, d # e
          PROVE  Holds(d)' \cap Holds(e)' = {}
      <3>1. Holds(d) \cap Holds(e) = {}
        BY <2>1 DEF Exclusive
      <3> QED BY <1>7, <1>8, <2>1, <3>1
    <2> QED BY <2>1 DEF Exclusive
  <1>10. Roomy'
    <2>1. ASSUME NEW d \in Callers, NEW q \in Holds(d)'
          PROVE  calls'[q] < Limit(q[1])
      <3>1. q \in Holds(d) \/ q = r
        BY <1>7, <1>8
      <3> QED BY <1>1, <3>1 DEF Roomy
    <2> QED BY <2>1 DEF Roomy, Limit
  <1>11. WithinLimits'
    BY <1>1 DEF WithinLimits, Limit
  <1> QED BY <1>5, <1>6, <1>9, <1>10, <1>11

\* The gate's transaction is over: nothing is held, and the record, if there
\* still is one, is well formed.
LEMMA Released ==
  ASSUME Inv, NEW c \in Callers, NEW x, call' = [call EXCEPT ![c] = x],
         x = Idle \/ (x \in Call /\ x.pc = "report" /\ x.next <= Len(x.order) + 1)
  PROVE  /\ call' \in [Callers -> Call \cup {Idle}]
         /\ InOrder'
         /\ Holds(c)' = {}
         /\ \A d \in Callers \ {c} : Holds(d)' = Holds(d)
  <1>1. call' \in [Callers -> Call \cup {Idle}] /\ call'[c] = x
    BY DEF Inv, TypeOK
  <1>2. \A d \in Callers \ {c} : call'[d] = call[d]
    BY DEF Inv, TypeOK
  <1>3. InOrder'
    BY <1>1, <1>2 DEF Inv, InOrder, At, Idle
  <1>4. Holds(c)' = {}
    BY <1>1 DEF Holds, At, Idle
  <1> QED BY <1>1, <1>2, <1>3, <1>4, OthersHold

\* What a call answers is counted in the history.
LEMMA AnswerType ==
  ASSUME Inv, NEW c \in Callers, call[c] # Idle, NEW a \in BOOLEAN, Answer(c, a)
  PROVE  granted' \in [Keys \X Days -> Nat]
  <1>1. call[c].key \in Keys /\ call[c].day \in Days
    BY DEF Inv, TypeOK, Call
  <1>2. granted \in [Keys \X Days -> Nat]
    BY DEF Inv, TypeOK
  <1>3. CASE a
    <2>1. granted' = [granted EXCEPT ![<<call[c].key, call[c].day>>] = @ + 1]
      BY <1>3 DEF Answer
    <2> QED BY <1>1, <1>2, <2>1
  <1>4. CASE ~a
    BY <1>2, <1>4 DEF Answer
  <1> QED BY <1>3, <1>4

LEMMA DenyInv ==
  ASSUME Inv, NEW c \in Callers, Deny(c)
  PROVE  Inv'
  <1> DEFINE why == IF call[c].order[call[c].next] \in Users THEN "user" ELSE "global"
             x == [call[c] EXCEPT !.pc = "report", !.denied = why]
  <1>1. call[c] # Idle
    BY DEF Deny, At, Idle
  <1>2. call[c] \in Call /\ call[c].next <= Len(call[c].order) + 1
    BY <1>1, InGate DEF Inv
  <1>3. x \in Call /\ x.pc = "report" /\ x.next <= Len(x.order) + 1
    BY <1>2 DEF Call
  <1>4. call' = [call EXCEPT ![c] = x]
    BY DEF Deny
  <1>5. /\ call' \in [Callers -> Call \cup {Idle}] /\ InOrder'
        /\ Holds(c)' = {} /\ \A d \in Callers \ {c} : Holds(d)' = Holds(d)
    <2> HIDE DEF x
    <2> QED BY <1>3, <1>4, Released
  <1>6. calls' = calls /\ UNCHANGED <<made, day, granted, faults>>
    BY DEF Deny, RolledBack
  <1>7. TypeOK'
    BY <1>5, <1>6 DEF Inv, TypeOK
  <1> QED BY <1>5, <1>6, <1>7, NothingTaken DEF Inv

LEMMA CommitInv ==
  ASSUME Inv, NEW c \in Callers, Commit(c)
  PROVE  Inv'
  <1> DEFINE x == [call[c] EXCEPT !.pc = "report"]
  <1>1. call[c] # Idle
    BY DEF Commit, At, Idle
  <1>2. call[c] \in Call /\ call[c].next <= Len(call[c].order) + 1
    BY <1>1, InGate DEF Inv
  <1>3. x \in Call /\ x.pc = "report" /\ x.next <= Len(x.order) + 1
    BY <1>2 DEF Call
  <1>4. call' = [call EXCEPT ![c] = x]
    BY DEF Commit, Goto
  <1>5. /\ call' \in [Callers -> Call \cup {Idle}] /\ InOrder'
        /\ Holds(c)' = {} /\ \A d \in Callers \ {c} : Holds(d)' = Holds(d)
    <2> HIDE DEF x
    <2> QED BY <1>3, <1>4, Released
  <1>6. calls' = Charged(c) /\ UNCHANGED <<made, day, granted, faults>>
    BY DEF Commit
  <1>7. /\ calls' \in [Scopes \X Days -> Nat]
        /\ Exclusive' /\ Roomy' /\ WithinLimits'
    BY <1>5, <1>6, Charging
  <1>8. TypeOK'
    BY <1>5, <1>6, <1>7 DEF Inv, TypeOK
  <1> QED BY <1>5, <1>7, <1>8 DEF Inv

LEMMA ReportInv ==
  ASSUME Inv, NEW c \in Callers, Report(c)
  PROVE  Inv'
  <1>1. call[c] # Idle
    BY DEF Report, At, Idle
  <1>2. granted' \in [Keys \X Days -> Nat]
    BY <1>1, AnswerType DEF Report
  <1>3. /\ call' \in [Callers -> Call \cup {Idle}] /\ InOrder'
        /\ Holds(c)' = {} /\ \A d \in Callers \ {c} : Holds(d)' = Holds(d)
    BY Released DEF Report, Answer
  <1>4. calls' = calls /\ UNCHANGED <<made, day, faults>>
    BY DEF Report
  <1>5. TypeOK'
    BY <1>2, <1>3, <1>4 DEF Inv, TypeOK
  <1> QED BY <1>3, <1>4, <1>5, NothingTaken DEF Inv

LEMMA FailInv ==
  ASSUME Inv, NEW c \in Callers, Fail(c)
  PROVE  Inv'
  <1>1. call[c] # Idle
    BY DEF Fail, Idle
  <1>2. granted' \in [Keys \X Days -> Nat]
    BY <1>1, AnswerType DEF Fail, OnError
  <1>3. /\ call' \in [Callers -> Call \cup {Idle}] /\ InOrder'
        /\ Holds(c)' = {} /\ \A d \in Callers \ {c} : Holds(d)' = Holds(d)
    BY Released DEF Fail, Answer
  <1>4. calls' = calls /\ UNCHANGED <<made, day>> /\ faults' \in Nat
    BY DEF Fail, Inv, TypeOK
  <1>5. TypeOK'
    BY <1>2, <1>3, <1>4 DEF Inv, TypeOK
  <1> QED BY <1>3, <1>4, <1>5, NothingTaken DEF Inv

LEMMA CommitUnheardInv ==
  ASSUME Inv, NEW c \in Callers, CommitUnheard(c)
  PROVE  Inv'
  <1>1. call[c] # Idle
    BY DEF CommitUnheard, At, Idle
  <1>2. granted' \in [Keys \X Days -> Nat]
    BY <1>1, AnswerType DEF CommitUnheard, OnError
  <1>3. /\ call' \in [Callers -> Call \cup {Idle}] /\ InOrder'
        /\ Holds(c)' = {} /\ \A d \in Callers \ {c} : Holds(d)' = Holds(d)
    BY Released DEF CommitUnheard, Answer
  <1>4. calls' = Charged(c) /\ UNCHANGED <<made, day>> /\ faults' \in Nat
    BY DEF CommitUnheard, Inv, TypeOK
  <1>5. /\ calls' \in [Scopes \X Days -> Nat]
        /\ Exclusive' /\ Roomy' /\ WithinLimits'
    BY <1>3, <1>4, Charging
  <1>6. TypeOK'
    BY <1>2, <1>3, <1>4, <1>5 DEF Inv, TypeOK
  <1> QED BY <1>3, <1>5, <1>6 DEF Inv

LEMMA MidnightInv ==
  ASSUME Inv, Midnight
  PROVE  Inv'
  <1>1. day' \in Days
    BY QuotaAssumption DEF Midnight, Inv, TypeOK, Days
  <1>2. TypeOK' /\ InOrder'
    BY <1>1 DEF Midnight, Inv, TypeOK, InOrder, At
  <1>3. \A c \in Callers : Holds(c)' = Holds(c)
    BY OthersHold DEF Midnight
  <1> QED BY <1>2, <1>3, NothingTaken DEF Midnight, Inv
-----------------------------------------------------------------------------
LEMMA InitInv ==
  ASSUME Init
  PROVE  Inv
  <1>1. TypeOK
    BY QuotaAssumption DEF Init, TypeOK, Days
  <1>2. \A c \in Callers : call[c] = Idle /\ Holds(c) = {}
    BY DEF Init, Holds, At, Idle
  <1>3. InOrder /\ Exclusive /\ Roomy
    BY <1>2 DEF InOrder, Exclusive, Roomy
  <1>4. WithinLimits
    BY LimitType DEF Init, WithinLimits
  <1> QED BY <1>1, <1>3, <1>4 DEF Inv

LEMMA StepInv ==
  ASSUME Inv, [Next]_vars
  PROVE  Inv'
  <1>1. CASE UNCHANGED vars
    BY <1>1 DEF Inv, vars, TypeOK, InOrder, At, Exclusive, Roomy, WithinLimits, Holds, Row, Limit
  <1>2. CASE Midnight
    BY <1>2, MidnightInv
  <1>3. ASSUME NEW c \in Callers,
               \/ Start(c) \/ Ensure(c) \/ Take(c) \/ Deny(c)
               \/ Commit(c) \/ Report(c) \/ Fail(c) \/ CommitUnheard(c)
        PROVE  Inv'
    BY <1>3, StartInv, EnsureInv, TakeInv, DenyInv, CommitInv, ReportInv, FailInv,
       CommitUnheardInv
  <1> QED BY <1>1, <1>2, <1>3 DEF Next

LEMMA Invariance == Spec => []Inv
  BY InitInv, StepInv, PTL DEF Spec

\* The tables and the calls in flight keep their types.
THEOREM QuotaTypes == Spec => []TypeOK
  <1>1. Inv => TypeOK
    BY DEF Inv
  <1> QED BY <1>1, Invariance, PTL

\* "Exactly `limit` callers win": no interleaving of any number of callers takes
\* a counter past its limit.
THEOREM NeverOverspent == Spec => []WithinLimits
  <1>1. Inv => WithinLimits
    BY DEF Inv
  <1> QED BY <1>1, Invariance, PTL
-----------------------------------------------------------------------------
\* A transaction that has made all its updates holds the rows of its order.
LEMMA AllHeld ==
  ASSUME Inv, NEW c \in Callers, At(c, "gate"), call[c].next > Len(call[c].order)
  PROVE  \E k \in Keys, d \in Days :
           \/ Holds(c) = {<<k, d>>}
           \/ \E u \in Users : Holds(c) = {<<u, d>>, <<k, d>>}
  <1>1. call[c] # Idle
    BY DEF At, Idle
  <1>2. /\ call[c] \in Call /\ Len(call[c].order) \in Nat
        /\ call[c].next = Len(call[c].order) + 1
    BY <1>1, InGate DEF Inv
  <1>3. Holds(c) = {Row(c, n) : n \in 1 .. Len(call[c].order)}
    BY <1>2 DEF Holds
  <1>4. call[c].day \in Days
    BY <1>2 DEF Call
  <1>5. CASE call[c].order \in {<<k>> : k \in Keys}
    <2>1. PICK k \in Keys : call[c].order = <<k>>
      BY <1>5
    <2>2. Holds(c) = {Row(c, 1)}
      BY <1>3, <2>1
    <2> QED BY <1>4, <2>1, <2>2 DEF Row
  <1>6. CASE call[c].order \in Users \X Keys
    <2>1. PICK u \in Users, k \in Keys : call[c].order = <<u, k>>
      BY <1>6
    <2>2. 1 .. Len(call[c].order) = {1, 2}
      BY <2>1
    <2>3. Holds(c) = {Row(c, 1), Row(c, 2)}
      BY <1>3, <2>2
    <2> QED BY <1>4, <2>1, <2>3 DEF Row
  <1> QED BY <1>2, <1>5, <1>6 DEF Call

\* Committing charges the user and the key, or the key alone, under the limits.
LEMMA CommitIsCharge ==
  ASSUME Inv, NEW c \in Callers, At(c, "gate"), call[c].next > Len(call[c].order),
         calls' = Charged(c)
  PROVE  Budget!Next
  <1> DEFINE spent == [r \in Users \X Days |-> calls[r]]
             pool == [r \in Keys \X Days |-> calls[r]]
  <1>1. calls \in [Scopes \X Days -> Nat]
    BY DEF Inv, TypeOK
  <1>2. \A r \in Scopes \X Days :
            calls'[r] = IF r \in Holds(c) THEN calls[r] + 1 ELSE calls[r]
    BY <1>1 DEF Charged
  <1>3. \A r \in Holds(c) : calls[r] < Limit(r[1])
    BY DEF Inv, Roomy
  <1>4. /\ Users \X Days \subseteq Scopes \X Days
        /\ Keys \X Days \subseteq Scopes \X Days
        /\ \A x \in Keys : x \notin Users
    BY QuotaAssumption DEF Scopes
  <1>5. PICK k \in Keys, d \in Days :
           \/ Holds(c) = {<<k, d>>}
           \/ \E u \in Users : Holds(c) = {<<u, d>>, <<k, d>>}
    BY AllHeld
  <1>6. pool[<<k, d>>] < GlobalLimit /\ pool' = [pool EXCEPT ![<<k, d>>] = @ + 1]
    <2>1. \A r \in Keys \X Days : r \in Holds(c) <=> r = <<k, d>>
      BY <1>4, <1>5
    <2>2. calls[<<k, d>>] < GlobalLimit
      BY <1>3, <1>4, <2>1 DEF Limit
    <2>3. \A r \in Keys \X Days :
              calls'[r] = IF r = <<k, d>> THEN calls[r] + 1 ELSE calls[r]
      BY <1>2, <1>4, <2>1
    <2> QED BY <2>2, <2>3
  <1>7. CASE Holds(c) = {<<k, d>>}
    <2>1. \A r \in Users \X Days : calls'[r] = calls[r]
      BY <1>2, <1>4, <1>7
    <2>2. spent' = spent
      BY <2>1
    <2>3. Budget!BySystem(k, d)
      BY <1>6, <2>2 DEF Budget!BySystem, Budget!Charge
    <2> QED BY <2>3 DEF Budget!Next
  <1>8. ASSUME NEW u \in Users, Holds(c) = {<<u, d>>, <<k, d>>}
        PROVE  Budget!Next
    <2>1. \A r \in Users \X Days : r \in Holds(c) <=> r = <<u, d>>
      BY <1>4, <1>8
    <2>2. calls[<<u, d>>] < UserLimit
      BY <1>3, <1>8 DEF Limit
    <2>3. \A r \in Users \X Days :
              calls'[r] = IF r = <<u, d>> THEN calls[r] + 1 ELSE calls[r]
      BY <1>2, <1>4, <2>1
    <2>4. spent[<<u, d>>] < UserLimit /\ spent' = [spent EXCEPT ![<<u, d>>] = @ + 1]
      BY <2>2, <2>3
    <2>5. Budget!ByUser(u, k, d)
      BY <1>6, <2>4 DEF Budget!ByUser, Budget!Charge
    <2> QED BY <2>5 DEF Budget!Next
  <1> QED BY <1>5, <1>7, <1>8

\* All or nothing: each step of the gate leaves the counters alone or is one
\* charge of AiBudget.
THEOREM QuotaImplementsBudget == Spec => BudgetSpec
  <1>1. Init => Budget!Init
    BY DEF Init, Budget!Init, Scopes
  <1>2. ASSUME Inv, [Next]_vars
        PROVE  [Budget!Next]_<<[r \in Users \X Days |-> calls[r]],
                               [r \in Keys \X Days |-> calls[r]]>>
    <2>1. CASE calls' = calls
      BY <2>1
    <2>2. CASE \E c \in Callers : Commit(c) \/ CommitUnheard(c)
      BY <1>2, <2>2, CommitIsCharge DEF Commit, CommitUnheard
    <2>3. calls' = calls \/ \E c \in Callers : Commit(c) \/ CommitUnheard(c)
      BY <1>2 DEF Next, vars, Start, Ensure, Take, Deny, RolledBack, Report, Fail, Midnight
    <2> QED BY <2>1, <2>2, <2>3
  <1> QED BY <1>1, <1>2, Invariance, PTL DEF Spec, BudgetSpec, Budget!Spec
-----------------------------------------------------------------------------
(* What a call in flight knows of itself, and what it was charged.          *)

\* The key's row comes last; nothing is decided before the gate ends; the rows of
\* an open transaction exist.
Shape == \A c \in Callers : call[c] # Idle =>
    /\ \/ call[c].order = <<call[c].key>>
       \/ \E u \in Users : call[c].order = <<u, call[c].key>>
    /\ call[c].pc \in {"ensure", "gate"} => call[c].denied = "none"
    /\ At(c, "gate") => RowsOf(c) \subseteq made

LEMMA RowsExist ==
  ASSUME TypeOK, Shape, NEW c \in Callers, call[c] # Idle
  PROVE  /\ RowsOf(c) \subseteq Scopes \X Days
         /\ <<call[c].key, call[c].day>> \in RowsOf(c)
         /\ \A n \in 1 .. Len(call[c].order) :
              /\ Row(c, n) \in RowsOf(c)
              /\ call[c].order[n] \in Users \cup Keys
  <1>1. call[c].key \in Keys /\ call[c].day \in Days
    BY DEF TypeOK, Call
  <1>2. CASE call[c].order = <<call[c].key>>
    <2>1. RowsOf(c) = {<<call[c].key, call[c].day>>}
      BY <1>2 DEF RowsOf, Row
    <2> QED BY <1>1, <1>2, <2>1 DEF Row, Scopes
  <1>3. ASSUME NEW u \in Users, call[c].order = <<u, call[c].key>>
        PROVE  /\ RowsOf(c) \subseteq Scopes \X Days
               /\ <<call[c].key, call[c].day>> \in RowsOf(c)
               /\ \A n \in 1 .. Len(call[c].order) :
                    /\ Row(c, n) \in RowsOf(c)
                    /\ call[c].order[n] \in Users \cup Keys
    <2>1. DOMAIN call[c].order = {1, 2} /\ 1 .. Len(call[c].order) = {1, 2}
      BY <1>3
    <2>2. RowsOf(c) = {<<u, call[c].day>>, <<call[c].key, call[c].day>>}
      BY <1>3, <2>1 DEF RowsOf, Row
    <2> QED BY <1>1, <1>3, <2>1, <2>2 DEF Row, Scopes
  <1> QED BY <1>2, <1>3 DEF Shape

LEMMA SameRows ==
  ASSUME NEW c \in Callers, call'[c].order = call[c].order, call'[c].day = call[c].day
  PROVE  RowsOf(c)' = RowsOf(c)
  BY DEF RowsOf, Row

\* How each step moves the call that takes it.
Keeps(c) == /\ call'[c].order = call[c].order /\ call'[c].key = call[c].key
            /\ call'[c].day = call[c].day
Rest(c) == /\ \A d \in Callers \ {c} : call'[d] = call[d]
           /\ made \subseteq made'

LEMMA Moves ==
  ASSUME TypeOK, NEW c \in Callers
  PROVE  /\ Ensure(c) => /\ Keeps(c) /\ Rest(c) /\ call'[c].pc = "gate"
                         /\ call'[c].denied = call[c].denied
         /\ Take(c) => /\ Keeps(c) /\ Rest(c) /\ call'[c].pc = "gate"
                       /\ call'[c].denied = call[c].denied
         /\ Deny(c) => /\ Keeps(c) /\ Rest(c) /\ call'[c].pc = "report"
                       /\ call'[c].denied = IF call[c].order[call[c].next] \in Users
                                            THEN "user" ELSE "global"
         /\ Commit(c) => /\ Keeps(c) /\ Rest(c) /\ call'[c].pc = "report"
                         /\ call'[c].denied = call[c].denied
         /\ Report(c) \/ Fail(c) \/ CommitUnheard(c) => Rest(c) /\ call'[c] = Idle
  <1>0. \A pc : At(c, pc) /\ pc # "idle" => call[c] \in Call
    BY DEF TypeOK, At, Idle
  <1>1. ASSUME NEW x, call' = [call EXCEPT ![c] = x]
        PROVE  call'[c] = x /\ \A d \in Callers \ {c} : call'[d] = call[d]
    BY <1>1 DEF TypeOK
  <1>2. ASSUME Ensure(c)
        PROVE  /\ Keeps(c) /\ Rest(c) /\ call'[c].pc = "gate"
               /\ call'[c].denied = call[c].denied
    <2>1. call' = [call EXCEPT ![c] = [call[c] EXCEPT !.pc = "gate"]] /\ call[c] \in Call
      BY <1>0, <1>2 DEF Ensure, Goto
    <2>2. call'[c] = [call[c] EXCEPT !.pc = "gate"] /\ \A d \in Callers \ {c} : call'[d] = call[d]
      BY <1>1, <2>1
    <2>3. made \subseteq made'
      BY <1>2 DEF Ensure
    <2> QED BY <2>1, <2>2, <2>3 DEF Keeps, Rest, Call
  <1>3. ASSUME Take(c)
        PROVE  /\ Keeps(c) /\ Rest(c) /\ call'[c].pc = "gate"
               /\ call'[c].denied = call[c].denied
    <2>1. /\ call' = [call EXCEPT ![c] = [call[c] EXCEPT !.next = call[c].next + 1]]
          /\ call[c] \in Call /\ call[c].pc = "gate"
      BY <1>0, <1>3 DEF Take, At
    <2>2. call'[c] = [call[c] EXCEPT !.next = call[c].next + 1] /\ \A d \in Callers \ {c} : call'[d] = call[d]
      BY <1>1, <2>1
    <2>3. made \subseteq made'
      BY <1>3 DEF Take
    <2> QED BY <2>1, <2>2, <2>3 DEF Keeps, Rest, Call
  <1>4. ASSUME Deny(c)
        PROVE  /\ Keeps(c) /\ Rest(c) /\ call'[c].pc = "report"
               /\ call'[c].denied = IF call[c].order[call[c].next] \in Users
                                    THEN "user" ELSE "global"
    <2> DEFINE why == IF call[c].order[call[c].next] \in Users THEN "user" ELSE "global"
    <2>1. /\ call' = [call EXCEPT ![c] = [call[c] EXCEPT !.pc = "report", !.denied = why]]
          /\ call[c] \in Call
      BY <1>0, <1>4 DEF Deny
    <2> HIDE DEF why
    <2>2. /\ call'[c] = [call[c] EXCEPT !.pc = "report", !.denied = why]
          /\ \A d \in Callers \ {c} : call'[d] = call[d]
      BY <1>1, <2>1
    <2>3. made \subseteq made'
      BY <1>4 DEF Deny
    <2>4. /\ Keeps(c) /\ Rest(c) /\ call'[c].pc = "report" /\ call'[c].denied = why
      <3> DEFINE x == [call[c] EXCEPT !.pc = "report", !.denied = why]
      <3>1. /\ x.order = call[c].order /\ x.key = call[c].key /\ x.day = call[c].day
            /\ x.pc = "report" /\ x.denied = why
        BY <2>1 DEF Call
      <3>2. call'[c] = x
        BY <2>2
      <3> HIDE DEF x
      <3> QED BY <2>2, <2>3, <3>1, <3>2 DEF Keeps, Rest
    <2> QED BY <2>4 DEF why
  <1>5. ASSUME Commit(c)
        PROVE  /\ Keeps(c) /\ Rest(c) /\ call'[c].pc = "report"
               /\ call'[c].denied = call[c].denied
    <2>1. call' = [call EXCEPT ![c] = [call[c] EXCEPT !.pc = "report"]] /\ call[c] \in Call
      BY <1>0, <1>5 DEF Commit, Goto
    <2>2. call'[c] = [call[c] EXCEPT !.pc = "report"] /\ \A d \in Callers \ {c} : call'[d] = call[d]
      BY <1>1, <2>1
    <2>3. made \subseteq made'
      BY <1>5 DEF Commit
    <2> QED BY <2>1, <2>2, <2>3 DEF Keeps, Rest, Call
  <1>6. ASSUME Report(c) \/ Fail(c) \/ CommitUnheard(c)
        PROVE  Rest(c) /\ call'[c] = Idle
    BY <1>1, <1>6 DEF Rest, Report, Fail, CommitUnheard, Answer
  <1> QED BY <1>2, <1>3, <1>4, <1>5, <1>6

LEMMA StartShape ==
  ASSUME TypeOK, NEW c \in Callers, Start(c)
  PROVE  /\ Rest(c) /\ call'[c].pc = "ensure" /\ call'[c].denied = "none"
         /\ \/ call'[c].order = <<call'[c].key>>
            \/ \E u \in Users : call'[c].order = <<u, call'[c].key>>
  <1>1. PICK a \in Users \cup {System}, k \in Keys : \E order \in Orders(a, k) :
          call' = [call EXCEPT ![c] = [pc |-> "ensure", order |-> order, key |-> k,
                                       day |-> day, next |-> 1, denied |-> "none"]]
    BY DEF Start
  <1>2. PICK order \in Orders(a, k) :
          call' = [call EXCEPT ![c] = [pc |-> "ensure", order |-> order, key |-> k,
                                       day |-> day, next |-> 1, denied |-> "none"]]
    BY <1>1
  <1>3. /\ call'[c] = [pc |-> "ensure", order |-> order, key |-> k,
                       day |-> day, next |-> 1, denied |-> "none"]
        /\ \A d \in Callers \ {c} : call'[d] = call[d]
    BY <1>2 DEF TypeOK
  <1>4. order = <<k>> \/ \E u \in Users : order = <<u, k>>
    BY DEF Orders
  <1> QED BY <1>3, <1>4 DEF Start, Rest

LEMMA ShapeOthers ==
  ASSUME Shape, NEW c \in Callers, Rest(c), NEW d \in Callers \ {c}, call'[d] # Idle
  PROVE  /\ \/ call'[d].order = <<call'[d].key>>
            \/ \E u \in Users : call'[d].order = <<u, call'[d].key>>
         /\ call'[d].pc \in {"ensure", "gate"} => call'[d].denied = "none"
         /\ call'[d].pc = "gate" => RowsOf(d)' \subseteq made'
  <1>1. call'[d] = call[d] /\ RowsOf(d)' = RowsOf(d) /\ made \subseteq made'
    BY SameRows DEF Rest
  <1> QED BY <1>1 DEF Shape, At

LEMMA ShapeStep ==
  ASSUME TypeOK, Shape, [Next]_vars
  PROVE  Shape'
  <1> DEFINE Good(c) ==
        call'[c] # Idle =>
          /\ \/ call'[c].order = <<call'[c].key>>
             \/ \E u \in Users : call'[c].order = <<u, call'[c].key>>
          /\ call'[c].pc \in {"ensure", "gate"} => call'[c].denied = "none"
          /\ call'[c].pc = "gate" => RowsOf(c)' \subseteq made'
  <1>1. ASSUME NEW c \in Callers, Rest(c), Good(c)
        PROVE  Shape'
    BY <1>1, ShapeOthers DEF Shape, At
  <1>2. ASSUME NEW c \in Callers, Start(c)
        PROVE  Shape'
    BY <1>1, <1>2, StartShape
  <1>3. ASSUME NEW c \in Callers, Ensure(c)
        PROVE  Shape'
    <2>1. /\ Keeps(c) /\ Rest(c) /\ call'[c].pc = "gate"
          /\ call'[c].denied = call[c].denied
      BY <1>3, Moves
    <2>2. call[c] # Idle /\ call[c].pc = "ensure"
      BY <1>3 DEF Ensure, At, Idle
    <2>3. RowsOf(c)' \subseteq made'
      BY <1>3, <2>1, SameRows DEF Ensure, Ensured, Keeps
    <2> QED BY <1>1, <2>1, <2>2, <2>3 DEF Shape, Keeps
  <1>4. ASSUME NEW c \in Callers, Take(c)
        PROVE  Shape'
    <2>1. /\ Keeps(c) /\ Rest(c) /\ call'[c].pc = "gate"
          /\ call'[c].denied = call[c].denied
      BY <1>4, Moves
    <2>2. call[c] # Idle /\ call[c].pc = "gate"
      BY <1>4 DEF Take, At, Idle
    <2>3. RowsOf(c)' \subseteq made'
      BY <2>1, <2>2, SameRows DEF Shape, At, Keeps, Rest
    <2> QED BY <1>1, <2>1, <2>2, <2>3 DEF Shape, Keeps
  <1>5. ASSUME NEW c \in Callers, Deny(c) \/ Commit(c)
        PROVE  Shape'
    <2>1. Keeps(c) /\ Rest(c) /\ call'[c].pc = "report"
      BY <1>5, Moves
    <2>2. call[c] # Idle
      BY <1>5 DEF Deny, Commit, At, Idle
    <2> QED BY <1>1, <2>1, <2>2 DEF Shape, Keeps
  <1>6. ASSUME NEW c \in Callers, Report(c) \/ Fail(c) \/ CommitUnheard(c)
        PROVE  Shape'
    BY <1>1, <1>6, Moves
  <1>7. CASE Midnight \/ UNCHANGED vars
    <2>1. call' = call /\ made' = made
      BY <1>7 DEF Midnight, vars
    <2> QED BY <2>1 DEF Shape, At, RowsOf, Row
  <1> QED BY <1>2, <1>3, <1>4, <1>5, <1>6, <1>7 DEF Next

LEMMA CountersGrow ==
  ASSUME Inv, [Next]_vars
  PROVE  \A r \in Scopes \X Days : calls'[r] >= calls[r]
  <1>1. \A r \in Scopes \X Days : calls[r] \in Nat
    BY DEF Inv, TypeOK
  <1>2. calls' = calls \/ \E c \in Callers : calls' = Charged(c)
    BY DEF Next, vars, Start, Ensure, Take, Deny, RolledBack, Commit, Report, Fail,
           CommitUnheard, Midnight
  <1>3. ASSUME NEW c \in Callers, calls' = Charged(c), NEW r \in Scopes \X Days
        PROVE  calls'[r] >= calls[r]
    BY <1>1, <1>3 DEF Charged, Inv, TypeOK
  <1> QED BY <1>1, <1>2, <1>3

\* A full counter stays full: it does not fall and may not rise.
LEMMA FullStays ==
  ASSUME Inv, Inv', [Next]_vars, NEW r \in Scopes \X Days, calls[r] = Limit(r[1])
  PROVE  calls'[r] = Limit(r[1])
  <1>1. calls'[r] \in Nat /\ calls'[r] <= Limit(r[1])
    BY DEF Inv, TypeOK, WithinLimits, Limit
  <1>2. calls'[r] >= calls[r]
    BY CountersGrow
  <1> QED BY <1>1, <1>2, LimitType

LEMMA DueStep ==
  ASSUME Inv, Inv', Shape, DenialsAreDue, [Next]_vars
  PROVE  DenialsAreDue'
  <1> DEFINE Full(c, S) == \E r \in RowsOf(c) : r[1] \in S /\ calls[r] = Limit(r[1])
             Due(c) == /\ call[c].denied = "user" => Full(c, Users)
                       /\ call[c].denied = "global" => Full(c, Keys)
  <1> SUFFICES ASSUME NEW c \in Callers, At(c, "report")'
               PROVE  Due(c)'
    BY DEF DenialsAreDue
  <1>1. call'[c] # Idle /\ call'[c].pc = "report"
    BY DEF At, Idle
  <1>2. CASE call'[c] = call[c]
    <2>1. call[c] # Idle /\ At(c, "report") /\ RowsOf(c)' = RowsOf(c)
      BY <1>1, <1>2, SameRows DEF At
    <2>2. Due(c) /\ RowsOf(c) \subseteq Scopes \X Days
      BY <2>1, RowsExist DEF DenialsAreDue, Inv
    <2>3. \A r \in RowsOf(c) : calls[r] = Limit(r[1]) => calls'[r] = Limit(r[1])
      BY <2>2, FullStays
    <2> QED BY <1>2, <2>1, <2>2, <2>3 DEF Limit
  <1>3. CASE Deny(c)
    <2>1. call[c] # Idle /\ call[c].pc = "gate" /\ call[c].next <= Len(call[c].order)
      BY <1>3 DEF Deny, At, Idle
    <2> DEFINE n == call[c].next
               r == Row(c, n)
    <2>2. n \in 1 .. Len(call[c].order)
      BY <2>1, InGate DEF Inv
    <2>3. /\ r \in RowsOf(c) /\ r \in Scopes \X Days /\ r \in made
          /\ call[c].order[n] \in Users \cup Keys
      BY <2>1, <2>2, RowsExist DEF Shape, At, Inv
    <2>4. r[1] = call[c].order[n]
      BY DEF Row
    <2>5. calls[r] = Limit(r[1])
      <3>1. ~(calls[r] < Limit(r[1]))
        BY <1>3, <2>3 DEF Deny, Room
      <3>2. calls[r] \in Nat /\ calls[r] <= Limit(r[1])
        BY <2>3 DEF Inv, TypeOK, WithinLimits
      <3> QED BY <3>1, <3>2, LimitType
    <2>6. calls' = calls /\ RowsOf(c)' = RowsOf(c)
      <3>1. Keeps(c)
        BY <1>3, Moves DEF Inv
      <3> QED BY <1>3, <3>1, SameRows DEF Keeps, Deny, RolledBack
    <2>7. call'[c].denied = IF call[c].order[n] \in Users THEN "user" ELSE "global"
      BY <1>3, Moves DEF Inv
    <2> HIDE DEF n, r
    <2> QED BY <2>3, <2>4, <2>5, <2>6, <2>7 DEF Limit
  <1>4. CASE Commit(c)
    <2>1. call'[c].denied = call[c].denied
      BY <1>4, Moves DEF Inv
    <2>2. call[c] # Idle /\ call[c].pc = "gate"
      BY <1>4 DEF Commit, At, Idle
    <2> QED BY <2>1, <2>2 DEF Shape
  <1>5. call'[c] = call[c] \/ Deny(c) \/ Commit(c)
    <2>1. ASSUME NEW d \in Callers,
                 \/ Start(d) \/ Ensure(d) \/ Take(d) \/ Deny(d)
                 \/ Commit(d) \/ Report(d) \/ Fail(d) \/ CommitUnheard(d)
          PROVE  call'[c] = call[c] \/ Deny(c) \/ Commit(c)
      <3>1. Rest(d)
        BY <2>1, Moves, StartShape DEF Inv
      <3>2. CASE d # c
        BY <3>1, <3>2 DEF Rest
      <3>3. CASE d = c
        BY <1>1, <2>1, <3>3, Moves, StartShape DEF Inv
      <3> QED BY <3>2, <3>3
    <2>2. CASE Midnight \/ UNCHANGED vars
      BY <2>2 DEF Midnight, vars
    <2> QED BY <2>1, <2>2 DEF Next
  <1> QED BY <1>2, <1>3, <1>4, <1>5

-----------------------------------------------------------------------------
\* The calls that have been charged to a key on a day and not yet been answered.
Owed(r) == {c \in Callers : /\ At(c, "report") /\ call[c].denied = "none"
                            /\ <<call[c].key, call[c].day>> = r}

Covered(r) == /\ IsFiniteSet(Owed(r))
              /\ granted[r] + Cardinality(Owed(r)) <= calls[r]

Paid == \A r \in Keys \X Days : Covered(r)

\* Nobody is granted, nobody is owed more.
LEMMA StillCovered ==
  ASSUME Inv, NEW r \in Keys \X Days, Covered(r), granted'[r] = granted[r],
         Owed(r)' \subseteq Owed(r), calls'[r] >= calls[r], calls'[r] \in Nat
  PROVE  Covered(r)'
  <1>1. /\ IsFiniteSet(Owed(r)') /\ Cardinality(Owed(r)') <= Cardinality(Owed(r))
        /\ Cardinality(Owed(r)') \in Nat /\ Cardinality(Owed(r)) \in Nat
    BY FS_Subset, FS_CardinalityType DEF Covered
  <1>2. granted[r] \in Nat /\ calls[r] \in Nat
    BY DEF Inv, TypeOK, Scopes
  <1> QED BY <1>1, <1>2 DEF Covered

LEMMA OwedOthers ==
  ASSUME NEW c \in Callers, Rest(c), NEW r
  PROVE  Owed(r)' \subseteq Owed(r) \cup {c}
  BY DEF Owed, At, Rest

LEMMA PaidStep ==
  ASSUME Inv, Inv', Shape, Paid, [Next]_vars
  PROVE  Paid'
  <1> SUFFICES ASSUME NEW r \in Keys \X Days PROVE Covered(r)'
    BY DEF Paid
  <1>1. /\ Covered(r) /\ r \in Scopes \X Days /\ calls'[r] >= calls[r]
        /\ calls[r] \in Nat /\ calls'[r] \in Nat /\ granted[r] \in Nat
    BY CountersGrow DEF Paid, Scopes, Inv, TypeOK
  <1>2. CASE Midnight \/ UNCHANGED vars
    <2>1. Owed(r)' = Owed(r) /\ granted' = granted
      BY <1>2 DEF Midnight, vars, Owed, At
    <2> QED BY <1>1, <2>1, StillCovered
  <1>3. ASSUME NEW c \in Callers, Start(c) \/ Ensure(c) \/ Take(c) \/ Deny(c)
        PROVE  Covered(r)'
    <2>1. /\ Rest(c) /\ granted' = granted
          /\ call'[c].pc # "report" \/ call'[c].denied # "none"
      BY <1>3, Moves, StartShape DEF Inv, Start, Ensure, Take, Deny
    <2>2. Owed(r)' \subseteq Owed(r)
      BY <2>1, OwedOthers DEF Owed, At
    <2> QED BY <1>1, <2>1, <2>2, StillCovered
  <1>4. ASSUME NEW c \in Callers, Commit(c)
        PROVE  Covered(r)'
    <2>1. Rest(c) /\ Keeps(c) /\ granted' = granted
      BY <1>4, Moves DEF Inv, Commit
    <2>2. CASE r # <<call[c].key, call[c].day>>
      <3>1. Owed(r)' \subseteq Owed(r)
        BY <2>1, <2>2, OwedOthers DEF Owed, Keeps
      <3> QED BY <1>1, <2>1, <3>1, StillCovered
    <2>3. CASE r = <<call[c].key, call[c].day>>
      <3>1. calls'[r] = calls[r] + 1
        <4>1. /\ call[c] # Idle /\ At(c, "gate")
              /\ call[c].next > Len(call[c].order)
          BY <1>4 DEF Commit, At, Idle
        <4>2. call[c].next - 1 = Len(call[c].order) /\ Len(call[c].order) \in {1, 2}
          BY <4>1, InGate DEF Inv
        <4>3. r \in Holds(c)
          <5>1. r \in RowsOf(c)
            BY <2>3, <4>1, RowsExist DEF Inv
          <5>2. DOMAIN call[c].order = 1 .. Len(call[c].order)
            BY <4>1 DEF Shape
          <5> QED BY <4>1, <4>2, <5>1, <5>2 DEF Holds, RowsOf
        <4> QED BY <1>1, <1>4, <4>3 DEF Commit, Charged, Inv, TypeOK
      <3>2. /\ IsFiniteSet(Owed(r) \cup {c})
            /\ Cardinality(Owed(r) \cup {c}) <= Cardinality(Owed(r)) + 1
            /\ Cardinality(Owed(r)) \in Nat
        <4>1. IsFiniteSet(Owed(r))
          BY <1>1 DEF Covered
        <4>2. Cardinality(Owed(r)) \in Nat
          BY <4>1, FS_CardinalityType
        <4> QED BY <4>1, <4>2, FS_AddElement
      <3>3. /\ IsFiniteSet(Owed(r)') /\ Cardinality(Owed(r)') \in Nat
            /\ Cardinality(Owed(r)') <= Cardinality(Owed(r) \cup {c})
            /\ Cardinality(Owed(r) \cup {c}) \in Nat
        <4>1. Owed(r)' \subseteq Owed(r) \cup {c}
          BY <2>1, OwedOthers
        <4> QED BY <3>2, <4>1, FS_Subset, FS_CardinalityType
      <3> QED BY <1>1, <2>1, <3>1, <3>2, <3>3 DEF Covered
    <2> QED BY <2>2, <2>3
  <1>5. ASSUME NEW c \in Callers, Report(c) \/ Fail(c) \/ CommitUnheard(c)
        PROVE  Covered(r)'
    <2>1. Rest(c) /\ call'[c] = Idle
      BY <1>5, Moves DEF Inv
    <2>2. Owed(r)' \subseteq Owed(r) \ {c}
      BY <2>1, OwedOthers DEF Owed, At, Idle
    <2>3. CASE granted'[r] = granted[r]
      BY <1>1, <2>2, <2>3, StillCovered
    <2>4. CASE granted'[r] # granted[r]
      <3>1. /\ Report(c) /\ call[c].denied = "none"
            /\ granted' = [granted EXCEPT ![<<call[c].key, call[c].day>>] = @ + 1]
        BY <1>5, <2>4 DEF Report, Fail, CommitUnheard, Answer, OnError
      <3>2. granted'[r] = granted[r] + 1 /\ r = <<call[c].key, call[c].day>>
        BY <1>1, <2>4, <3>1 DEF Inv, TypeOK
      <3>3. c \in Owed(r)
        BY <3>1, <3>2 DEF Owed, Report
      <3>4. /\ IsFiniteSet(Owed(r) \ {c})
            /\ Cardinality(Owed(r) \ {c}) = Cardinality(Owed(r)) - 1
            /\ Cardinality(Owed(r)) \in Nat
        <4>1. IsFiniteSet(Owed(r))
          BY <1>1 DEF Covered
        <4> QED BY <3>3, <4>1, FS_RemoveElement, FS_CardinalityType
      <3>5. /\ IsFiniteSet(Owed(r)') /\ Cardinality(Owed(r)') \in Nat
            /\ Cardinality(Owed(r)') <= Cardinality(Owed(r) \ {c})
        BY <2>2, <3>4, FS_Subset, FS_CardinalityType
      <3> QED BY <1>1, <3>2, <3>4, <3>5 DEF Covered
    <2> QED BY <2>3, <2>4
  <1> QED BY <1>2, <1>3, <1>4, <1>5 DEF Next

LEMMA PaidInit ==
  ASSUME Init
  PROVE  Shape /\ DenialsAreDue /\ Paid
  <1>1. \A c \in Callers : call[c] = Idle /\ ~At(c, "report")
    BY DEF Init, At, Idle
  <1>2. Shape /\ DenialsAreDue
    BY <1>1 DEF Shape, DenialsAreDue
  <1>3. ASSUME NEW r \in Keys \X Days
        PROVE  Covered(r)
    <2>1. Owed(r) = {}
      BY <1>1 DEF Owed
    <2>2. granted[r] = 0 /\ calls[r] = 0
      BY DEF Init, Scopes
    <2> QED BY <2>1, <2>2, FS_EmptySet DEF Covered
  <1> QED BY <1>2, <1>3 DEF Paid

LEMMA Accounts == Spec => [](Inv /\ Shape /\ DenialsAreDue /\ Paid)
  <1>1. Init => Inv /\ Shape /\ DenialsAreDue /\ Paid
    BY InitInv, PaidInit
  <1>2. Inv /\ Shape /\ DenialsAreDue /\ Paid /\ [Next]_vars
        => (Inv /\ Shape /\ DenialsAreDue /\ Paid)'
    <2> SUFFICES ASSUME Inv, Shape, DenialsAreDue, Paid, [Next]_vars
                 PROVE  (Inv /\ Shape /\ DenialsAreDue /\ Paid)'
      OBVIOUS
    <2>1. Inv'
      BY StepInv
    <2>2. Shape'
      BY ShapeStep DEF Inv
    <2> QED BY <2>1, <2>2, DueStep, PaidStep
  <1> QED BY <1>1, <1>2, PTL DEF Spec

\* The gate fails closed: whatever the database does, no call is let through that was
\* not charged to its key on its day.
THEOREM GrantsArePaid == Spec => []AllowedIsPaid
  <1>1. Inv /\ Paid => AllowedIsPaid
    <2> SUFFICES ASSUME Inv, Paid, NEW r \in Keys \X Days PROVE granted[r] <= calls[r]
      BY DEF AllowedIsPaid, Inv, TypeOK
    <2>1. /\ granted[r] \in Nat /\ calls[r] \in Nat /\ Covered(r)
      BY DEF Inv, TypeOK, Paid, Scopes
    <2>2. Cardinality(Owed(r)) \in Nat
      BY <2>1, FS_CardinalityType DEF Covered
    <2> QED BY <2>1, <2>2 DEF Covered
  <1> QED BY <1>1, Accounts, PTL

\* A refusal that blames the user's allowance, or the shared one, is never a row that
\* is locked or missing: the counter it blames is full.
THEOREM RefusalsAreDue == Spec => []DenialsAreDue
  BY Accounts, PTL
=============================================================================
