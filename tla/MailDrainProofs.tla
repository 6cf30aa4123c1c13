--------------------------- MODULE MailDrainProofs ---------------------------
(***************************************************************************)
(* What the drain keeps, for any event table, number of workers and days:  *)
(* the types of its variables, the identity of every logged event, and     *)
(* that nobody is mailed the same event twice on one day.                  *)
(*                                                                         *)
(* AlertsProofs and RemindersProofs cite these lemmas for the drain steps  *)
(* of their specifications.                                                *)
(***************************************************************************)
EXTENDS MailDrain, FiniteSetTheorems, TLAPS

DrainTypes ==
  /\ day \in Days
  /\ run \in [Workers -> {"idle", "eval", "drain"}]
  /\ todo \in [Workers -> SUBSET Rows]
  /\ sending \in [Workers -> Rows \cup {NoRow}]
  /\ keys \subseteq Rows \X Days /\ mailed \subseteq Rows \X Days
  /\ mails \in Nat

LogOf(W) == [Rows -> [st : RowStatus, of : Owners, what : W]]

\* The provider still remembers what it mailed today.
KeysKeep ==
  /\ IsFiniteSet(mailed)
  /\ \A m \in mailed : m[2] <= day /\ (m[2] = day => m \in keys)
  /\ MailedOnceADay

\* An event keeps its owner and what it is about, and moves only towards delivery.
Progress(e) ==
  /\ log'[e].of = log[e].of /\ log'[e].what = log[e].what
  /\ \/ log'[e].st = log[e].st
     \/ log[e].st = "recorded" /\ log'[e].st = "delivered"

-----------------------------------------------------------------------------
(* Accepting a mail. *)

LEMMA AcceptTypes ==
  ASSUME DrainTypes, NEW e \in Rows, Accept(e)
  PROVE  keys' \subseteq Rows \X Days /\ mailed' \subseteq Rows \X Days /\ mails' \in Nat
  BY DEF DrainTypes, Accept

\* A mail that goes out is the first of its event today, for an older one would
\* have left a key that is still remembered.
LEMMA AcceptKeeps ==
  ASSUME DrainTypes, KeysKeep, NEW e \in Rows, Accept(e), day' = day
  PROVE  KeysKeep'
  <1>1. CASE Remembered(e)
    BY <1>1 DEF Accept, KeysKeep, MailedOnceADay
  <1>2. CASE ~Remembered(e)
    <2>1. <<e, day>> \notin mailed
      BY <1>2 DEF KeysKeep, Remembered
    <2>2. /\ keys' = keys \cup {<<e, day>>}
          /\ mailed' = mailed \cup {<<e, day>>}
          /\ mails' = mails + 1
      BY <1>2 DEF Accept
    <2>3. IsFiniteSet(mailed') /\ Cardinality(mailed') = Cardinality(mailed) + 1
      BY <2>1, <2>2, FS_AddElement DEF KeysKeep
    <2>4. \A m \in mailed' : m[2] <= day' /\ (m[2] = day' => m \in keys')
      BY <2>2 DEF KeysKeep, DrainTypes, Days
    <2> QED BY <2>2, <2>3, <2>4 DEF KeysKeep, MailedOnceADay
  <1> QED BY <1>1, <1>2

-----------------------------------------------------------------------------
(* The steps of the drain. *)

LEMMA SendTypes ==
  ASSUME DrainTypes, NEW w \in Workers, NEW e \in Rows,
         Send(w, e) \/ SendUnheard(w, e) \/ SendRefused(w, e)
  PROVE  DrainTypes'
  <1>1. /\ day' = day /\ run' = run
        /\ todo' \in [Workers -> SUBSET Rows]
    BY DEF Send, SendUnheard, SendRefused, Sends, DrainTypes
  <1>2. sending' \in [Workers -> Rows \cup {NoRow}]
    BY DEF Send, SendUnheard, SendRefused, DrainTypes
  <1>3. keys' \subseteq Rows \X Days /\ mailed' \subseteq Rows \X Days /\ mails' \in Nat
    BY AcceptTypes DEF Send, SendUnheard, SendRefused, DrainTypes
  <1> QED BY <1>1, <1>2, <1>3 DEF DrainTypes

LEMMA WorkerTypes ==
  ASSUME DrainTypes, NEW w \in Workers,
         DrainStart(w) \/ Flip(w) \/ FlipFails(w) \/ DrainEnd(w) \/ DrainDies(w)
  PROVE  DrainTypes'
  BY DEF DrainTypes, DrainStart, Flip, FlipFails, DrainEnd, DrainDies, Undelivered

\* Whatever the drain does, its variables keep their types.
LEMMA DrainKeepsTypes ==
  ASSUME DrainTypes, DrainNext
  PROVE  DrainTypes'
  <1>1. ASSUME NEW k \in keys, ForgetKey(k) PROVE DrainTypes'
    BY <1>1 DEF DrainTypes, ForgetKey
  <1>2. CASE Midnight
    BY <1>2, DrainAssumption DEF DrainTypes, Midnight, Days
  <1> QED BY <1>1, <1>2, SendTypes, WorkerTypes DEF DrainNext

\* The drain adds no event and removes none.
LEMMA DrainProgress ==
  ASSUME NEW W, log \in LogOf(W), DrainTypes, DrainNext
  PROVE  log' \in LogOf(W) /\ \A e \in Rows : Progress(e)
  <1>1. ASSUME NEW w \in Workers, Flip(w)
        PROVE  log' \in LogOf(W) /\ \A e \in Rows : Progress(e)
    <2>1. CASE log[sending[w]].st = "recorded"
      <3>1. log' = [log EXCEPT ![sending[w]].st = "delivered"]
        BY <1>1, <2>1 DEF Flip
      <3>2. sending[w] \in Rows
        BY <1>1 DEF Flip, DrainTypes
      <3> QED BY <2>1, <3>1, <3>2 DEF LogOf, Progress, RowStatus
    <2>2. CASE log[sending[w]].st # "recorded"
      BY <1>1, <2>2 DEF Flip, Progress
    <2> QED BY <2>1, <2>2
  <1>2. CASE log' = log
    BY <1>2 DEF Progress
  <1> QED BY <1>1, <1>2 DEF DrainNext, DrainStart, FlipFails, DrainEnd, DrainDies,
        Send, SendUnheard, SendRefused, Sends, ForgetKey, Midnight

\* Nobody but the provider touches the keys.
LEMMA KeysStutter ==
  ASSUME KeysKeep, UNCHANGED <<day, keys, mailed, mails>>
  PROVE  KeysKeep'
  BY DEF KeysKeep, MailedOnceADay

LEMMA DrainKeepsKeys ==
  ASSUME DrainTypes, KeysKeep, DrainNext
  PROVE  KeysKeep'
  <1>1. ASSUME NEW w \in Workers, NEW e \in Rows, Send(w, e) \/ SendUnheard(w, e)
        PROVE  KeysKeep'
    BY <1>1, AcceptKeeps DEF Send, SendUnheard, Sends
  <1>2. ASSUME NEW w \in Workers, NEW e \in Rows, SendRefused(w, e)
        PROVE  KeysKeep'
    BY <1>2, KeysStutter DEF SendRefused, Sends
  <1>3. ASSUME NEW w \in Workers,
               DrainStart(w) \/ Flip(w) \/ FlipFails(w) \/ DrainEnd(w) \/ DrainDies(w)
        PROVE  KeysKeep'
    BY <1>3, KeysStutter DEF DrainStart, Flip, FlipFails, DrainEnd, DrainDies
  <1>4. ASSUME NEW k \in keys, ForgetKey(k) PROVE KeysKeep'
    <2>1. \A m \in mailed : m[2] = day => m \in keys'
      BY <1>4 DEF ForgetKey, KeysKeep, DrainTypes, Days
    <2> QED BY <1>4, <2>1 DEF ForgetKey, KeysKeep, MailedOnceADay
  <1>5. CASE Midnight
    <2>1. \A m \in mailed : m[2] <= day' /\ m[2] # day'
      BY <1>5 DEF Midnight, KeysKeep, DrainTypes, Days
    <2> QED BY <1>5, <2>1 DEF Midnight, KeysKeep, MailedOnceADay
  <1> QED BY <1>1, <1>2, <1>3, <1>4, <1>5 DEF DrainNext

LEMMA DrainStarts ==
  ASSUME DrainInit
  PROVE  DrainTypes /\ KeysKeep
  BY DrainAssumption, FS_EmptySet DEF DrainInit, DrainTypes, KeysKeep, MailedOnceADay, Days
=============================================================================
