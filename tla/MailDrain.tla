------------------------------ MODULE MailDrain ------------------------------
(***************************************************************************)
(* The delivery half of a notification pipeline: the log of fired events   *)
(* and the drain that mails what is undelivered, one event at a time,      *)
(* through Resend.  alerts/deliver.ts and reminders/deliver.ts are the     *)
(* same code over two tables; Alerts and Reminders extend this module with *)
(* the evaluation pass that fills the log.                                 *)
(*                                                                         *)
(* Both passes are jobs: the retry, the requeue after a crash and the next *)
(* day's tick are JobQueue's business, and look the same from here: a      *)
(* worker may start a pass whenever it is idle.                            *)
(***************************************************************************)
EXTENDS Integers, FiniteSets

CONSTANTS
  Owners,   \* ids of the alerts (reminders) that own events
  Rows,     \* ids of rows of the event log (bound: events ever fired)
  Workers,  \* worker processes; two of them overlap in a rolling deploy
  NoRow,    \* null
  MaxDay    \* bound: the last day

ASSUME DrainAssumption ==
  Owners # {} /\ NoRow \notin Rows /\ MaxDay \in Nat

VARIABLES
  day,      \* today
  log,      \* the event log
  run,      \* per worker: the pass it runs
  todo,     \* per worker: events the drain read as undelivered, still to send
  sending,  \* per worker: the event whose send succeeded, not yet flipped
  keys,     \* the idempotency keys the provider remembers, with their day
  mailed,   \* history: on which days an event was really mailed
  mails     \* history: how many mails really went out

drainVars == <<run, todo, sending, keys, mailed, mails>>

Days == 0 .. MaxDay

\* A row: not yet used, recorded (delivered = false), delivered, or removed by
\* the cascade.  `what` is what fired: an event date, or a condition.
RowStatus == {"free", "recorded", "delivered", "removed"}

Undelivered == {e \in Rows : log[e].st = "recorded"}

DrainInit ==
  /\ day = 0 /\ keys = {} /\ mailed = {} /\ mails = 0
  /\ run = [w \in Workers |-> "idle"]
  /\ todo = [w \in Workers |-> {}]
  /\ sending = [w \in Workers |-> NoRow]

-----------------------------------------------------------------------------
(* The log. *)

\* The id of the next event row.
Unused == {e \in Rows : log[e].st = "free"}

Record(owner, thing) ==
  LET e == CHOOSE x \in Unused : TRUE
  IN  log' = [log EXCEPT ![e] = [st |-> "recorded", of |-> owner,
                                 what |-> thing]]

\* ON DELETE CASCADE of an alert (a reminder): its events go with it.
Cascaded(owner) ==
  [e \in Rows |-> IF log[e].st \in {"recorded", "delivered"} /\ log[e].of = owner
                  THEN [st |-> "removed", of |-> owner, what |-> log[e].what]
                  ELSE log[e]]

-----------------------------------------------------------------------------
(* The provider. *)

Remembered(e) == \E k \in keys : k[1] = e

\* An accepted send.  The key makes the provider answer a repeat with the
\* first message instead of mailing again, as long as it remembers the key.
Accept_NoKey(e) ==
  /\ keys' = keys
  /\ mailed' = mailed \cup {<<e, day>>}
  /\ mails' = mails + 1
Accept(e) ==
  IF Remembered(e) THEN UNCHANGED <<keys, mailed, mails>>
  ELSE /\ keys' = keys \cup {<<e, day>>}
       /\ mailed' = mailed \cup {<<e, day>>}
       /\ mails' = mails + 1

\* Keys live about a day: one of today is remembered, an older one need not be.
ForgetKey(k) ==
  /\ k \in keys /\ k[2] < day
  /\ keys' = keys \ {k}
  /\ UNCHANGED <<day, log, run, todo, sending, mailed, mails>>

-----------------------------------------------------------------------------
(* The drain. *)

DrainStart(w) ==
  /\ run[w] = "idle"
  /\ run' = [run EXCEPT ![w] = "drain"]
  /\ todo' = [todo EXCEPT ![w] = Undelivered]
  /\ UNCHANGED <<day, log, sending, keys, mailed, mails>>

\* The next event of the batch is handed to the mailer.
Sends(w, e) ==
  /\ run[w] = "drain" /\ sending[w] = NoRow /\ e \in todo[w]
  /\ todo' = [todo EXCEPT ![w] = @ \ {e}]
  /\ UNCHANGED <<day, log, run>>

Send(w, e) ==
  /\ Sends(w, e)
  /\ Accept(e)
  /\ sending' = [sending EXCEPT ![w] = e]

\* The provider took the mail, the answer did not arrive: the catch leaves the
\* event undelivered.
SendUnheard(w, e) ==
  /\ Sends(w, e)
  /\ Accept(e)
  /\ UNCHANGED sending

\* Rendering or sending failed.
SendRefused(w, e) ==
  /\ Sends(w, e)
  /\ UNCHANGED <<sending, keys, mailed, mails>>

\* delivered = true, after a confirmed send.  The update of a row the cascade
\* removed throws inside the same try: counted as failed.
Flip(w) ==
  /\ sending[w] # NoRow
  /\ log' = IF log[sending[w]].st = "recorded"
            THEN [log EXCEPT ![sending[w]].st = "delivered"] ELSE log
  /\ sending' = [sending EXCEPT ![w] = NoRow]
  /\ UNCHANGED <<day, run, todo, keys, mailed, mails>>

FlipFails(w) ==
  /\ sending[w] # NoRow
  /\ sending' = [sending EXCEPT ![w] = NoRow]
  /\ UNCHANGED <<day, log, run, todo, keys, mailed, mails>>

DrainEnd(w) ==
  /\ run[w] = "drain" /\ todo[w] = {} /\ sending[w] = NoRow
  /\ run' = [run EXCEPT ![w] = "idle"]
  /\ UNCHANGED <<day, log, todo, sending, keys, mailed, mails>>

\* The process goes away in the middle of a drain.
DrainDies(w) ==
  /\ run[w] = "drain"
  /\ run' = [run EXCEPT ![w] = "idle"]
  /\ todo' = [todo EXCEPT ![w] = {}]
  /\ sending' = [sending EXCEPT ![w] = NoRow]
  /\ UNCHANGED <<day, log, keys, mailed, mails>>

Midnight ==
  /\ day < MaxDay
  /\ day' = day + 1
  /\ UNCHANGED <<log, run, todo, sending, keys, mailed, mails>>

DrainNext ==
  \/ \E w \in Workers :
       \/ DrainStart(w) \/ Flip(w) \/ FlipFails(w) \/ DrainEnd(w)
       \/ DrainDies(w)
       \/ \E e \in Rows : Send(w, e) \/ SendUnheard(w, e) \/ SendRefused(w, e)
  \/ \E k \in keys : ForgetKey(k)
  \/ Midnight

-----------------------------------------------------------------------------
(* Properties. *)

\* alerts/deliver.ts and mailer.ts: whatever drains overlap, crash between the
\* send and the flip, lose an answer or fail to flip, nobody is mailed the same
\* event twice on one day: every mail that went out is a new (event, day).
MailedOnceADay == mails = Cardinality(mailed)
=============================================================================
