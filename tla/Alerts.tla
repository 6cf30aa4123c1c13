-------------------------------- MODULE Alerts --------------------------------
(***************************************************************************)
(* User alerts: the rules a user keeps (alerts/service.ts and              *)
(* controllers/me/alerts-controller.ts), the daily evaluation pass with    *)
(* its crossing and re-arm machine (alerts/eval-pass.ts, evaluate.ts) and, *)
(* from MailDrain, the drain (alerts/deliver.ts).                          *)
(*                                                                         *)
(* What an alert compares (price, band, findings) is abstracted to a       *)
(* target whose condition holds, does not hold, or cannot be evaluated.    *)
(***************************************************************************)
EXTENDS MailDrain

CONSTANTS
  Targets,    \* what an alert can be set to watch
  MaxEdits,   \* bound: requests of the user
  MaxChanges  \* bound: changes of the readings

ASSUME AlertsAssumption ==
  Targets # {} /\ MaxEdits \in Nat /\ MaxChanges \in Nat

VARIABLES
  alert,    \* the alerts table
  reading,  \* per target: what the computed data say of it
  pass,     \* per worker: what the evaluation pass read
  edits, changes,
  told      \* history: alerts that fired, and neither did a pass see the
            \* condition false since nor the user re-arm them

vars == <<day, log, run, todo, sending, keys, mailed, mails,
          alert, reading, pass, edits, changes, told>>

alertVars == <<alert, reading, pass, edits, changes, told>>

Reading == {"true", "false", "none"}
Rule == [st : {"absent", "here", "deleted"}, active : BOOLEAN, armed : BOOLEAN,
         one : BOOLEAN, target : Targets]

\* What a pass decided for the alerts it read: to fire (one: as one-shots) and
\* to re-arm.
Pass == [fire : SUBSET Owners, one : SUBSET Owners, rearm : SUBSET Owners]
IdlePass == [fire |-> {}, one |-> {}, rearm |-> {}]

Init ==
  /\ DrainInit
  /\ reading \in [Targets -> Reading]
  /\ alert = [a \in Owners |-> [st |-> "absent", active |-> TRUE, armed |-> TRUE,
                                one |-> TRUE, target |-> CHOOSE t \in Targets : TRUE]]
  /\ log = [e \in Rows |-> [st |-> "free", of |-> CHOOSE a \in Owners : TRUE,
                            what |-> "true"]]
  /\ pass = [w \in Workers |-> IdlePass]
  /\ edits = 0 /\ changes = 0 /\ told = {}

-----------------------------------------------------------------------------
(* The data: an end-of-day close, a rescore, a filing.                      *)

NewReading(t, v) ==
  /\ changes < MaxChanges /\ v # reading[t]
  /\ reading' = [reading EXCEPT ![t] = v]
  /\ changes' = changes + 1
  /\ UNCHANGED <<day, log, alert, pass, edits, told>> /\ UNCHANGED drainVars

-----------------------------------------------------------------------------
(* The user.  A PATCH of several fields is the same as one after the other. *)

Create(a, t, one) ==
  /\ alert[a].st = "absent"
  /\ alert' = [alert EXCEPT ![a] = [st |-> "here", active |-> TRUE, armed |-> TRUE,
                                    one |-> one, target |-> t]]
  /\ UNCHANGED <<day, log, reading, pass, edits, changes, told>>
  /\ UNCHANGED drainVars

Edits(a, rule) ==
  /\ alert[a].st = "here" /\ edits < MaxEdits
  /\ alert' = [alert EXCEPT ![a] = rule]
  /\ edits' = edits + 1
  /\ told' = IF rule.armed THEN told \ {a} ELSE told
  /\ UNCHANGED <<day, log, reading, pass, changes>> /\ UNCHANGED drainVars

Pause(a) == Edits(a, [alert[a] EXCEPT !.active = FALSE])
\* Re-activating re-arms.
Activate(a) == Edits(a, [alert[a] EXCEPT !.active = TRUE, !.armed = TRUE])
\* A change of target resets the crossing baseline.
Retarget(a, t) == Edits(a, [alert[a] EXCEPT !.target = t, !.armed = TRUE])
SetRepeat(a, one) == Edits(a, [alert[a] EXCEPT !.one = one])

Delete(a) ==
  /\ alert[a].st = "here"
  /\ alert' = [alert EXCEPT ![a].st = "deleted"]
  /\ log' = Cascaded(a)
  /\ UNCHANGED <<day, reading, pass, edits, changes, told>> /\ UNCHANGED drainVars

-----------------------------------------------------------------------------
(* The evaluation pass. *)

Active(a) == alert[a].st = "here" /\ alert[a].active

\* transition(): fire on the crossing, re-arm when the condition recedes; an
\* alert that cannot be evaluated is skipped, every other case holds.
Crosses_Level(a) == Active(a) /\ reading[alert[a].target] = "true"
Crosses(a) == Active(a) /\ alert[a].armed /\ reading[alert[a].target] = "true"
Recedes(a) == Active(a) /\ ~alert[a].armed /\ reading[alert[a].target] = "false"

\* Active alerts and their readings are read once, before the first write.
EvalStart(w) ==
  LET fire == {a \in Owners : Crosses(a)}
  IN  /\ run[w] = "idle"
      /\ run' = [run EXCEPT ![w] = "eval"]
      /\ pass' = [pass EXCEPT ![w] = [fire |-> fire,
                                      one |-> {a \in fire : alert[a].one},
                                      rearm |-> {a \in Owners : Recedes(a)}]]
      /\ told' = told \ {a \in Owners : reading[alert[a].target] = "false"}
      /\ UNCHANGED <<day, log, todo, sending, keys, mailed, mails,
                     alert, reading, edits, changes>>

\* The flags a fire and a re-arm write, from what the pass read.
Fired_StaysArmed(w, a) == [alert[a] EXCEPT !.active = a \notin pass[w].one]
Fired(w, a) == [alert[a] EXCEPT !.active = a \notin pass[w].one, !.armed = FALSE]
Rearmed_StaysDisarmed(a) == [alert[a] EXCEPT !.active = TRUE]
Rearmed(a) == [alert[a] EXCEPT !.active = TRUE, !.armed = TRUE]

\* alertEvent.create and alert.update in one transaction.
Fire(w, a) ==
  /\ run[w] = "eval" /\ a \in pass[w].fire /\ alert[a].st = "here"
  /\ pass' = [pass EXCEPT ![w].fire = @ \ {a}, ![w].one = @ \ {a}]
  /\ Unused # {} /\ Record(a, "true")
  /\ alert' = [alert EXCEPT ![a] = Fired(w, a)]
  /\ told' = told \cup {a}
  /\ UNCHANGED <<day, run, todo, sending, keys, mailed, mails,
                 reading, edits, changes>>

Rearm(w, a) ==
  /\ run[w] = "eval" /\ a \in pass[w].rearm /\ alert[a].st = "here"
  /\ pass' = [pass EXCEPT ![w].rearm = @ \ {a}]
  /\ alert' = [alert EXCEPT ![a] = Rearmed(a)]
  /\ UNCHANGED <<day, log, run, todo, sending, keys, mailed, mails,
                 reading, edits, changes, told>>

Pending(w) == pass[w].fire \cup pass[w].rearm

EvalStops(w) ==
  /\ run' = [run EXCEPT ![w] = "idle"]
  /\ pass' = [pass EXCEPT ![w] = IdlePass]
  /\ UNCHANGED <<day, log, todo, sending, keys, mailed, mails,
                 alert, reading, edits, changes, told>>

\* The write to a deleted alert throws, and the error ends the pass for every
\* alert behind it.
EvalGone(w, a) ==
  /\ run[w] = "eval" /\ a \in Pending(w) /\ alert[a].st = "deleted"
  /\ EvalStops(w)

EvalEnd(w) == run[w] = "eval" /\ Pending(w) = {} /\ EvalStops(w)
EvalDies(w) == run[w] = "eval" /\ Pending(w) # {} /\ EvalStops(w)

-----------------------------------------------------------------------------

Next ==
  \/ DrainNext /\ UNCHANGED alertVars
  \/ \E t \in Targets, v \in Reading : NewReading(t, v)
  \/ \E a \in Owners :
       \/ Pause(a) \/ Activate(a) \/ Delete(a)
       \/ \E t \in Targets : Retarget(a, t)
       \/ \E one \in BOOLEAN : SetRepeat(a, one)
       \/ \E t \in Targets, one \in BOOLEAN : Create(a, t, one)
  \/ \E w \in Workers :
       \/ EvalStart(w) \/ EvalEnd(w) \/ EvalDies(w)
       \/ \E a \in Owners : Fire(w, a) \/ Rearm(w, a) \/ EvalGone(w, a)

Spec == Init /\ [][Next]_vars

\* The crons come round every day; a pass may die any number of times, but no
\* worker dies in every pass; provider and database do not fail for ever.
Fairness ==
  \A w \in Workers :
    /\ SF_vars(EvalStart(w))
    /\ WF_vars(EvalEnd(w) \/ \E a \in Owners : EvalGone(w, a))
    /\ SF_vars(\E a \in Owners : Fire(w, a) \/ Rearm(w, a))
    /\ SF_vars(DrainStart(w) /\ UNCHANGED alertVars)
    /\ SF_vars(Flip(w) /\ UNCHANGED alertVars)
    /\ WF_vars(DrainEnd(w) /\ UNCHANGED alertVars)
    /\ SF_vars(\E e \in Rows : Send(w, e) /\ UNCHANGED alertVars)

FairSpec == Spec /\ Fairness

-----------------------------------------------------------------------------
(* Properties.  An operator named X_Y is operator X with the mistake Y.     *)

TypeOK ==
  /\ day \in Days
  /\ log \in [Rows -> [st : RowStatus, of : Owners, what : Reading]]
  /\ run \in [Workers -> {"idle", "eval", "drain"}]
  /\ todo \in [Workers -> SUBSET Rows]
  /\ sending \in [Workers -> Rows \cup {NoRow}]
  /\ keys \subseteq Rows \X Days /\ mailed \subseteq Rows \X Days
  /\ mails \in Nat
  /\ alert \in [Owners -> Rule] /\ reading \in [Targets -> Reading]
  /\ pass \in [Workers -> Pass] /\ edits \in Nat /\ changes \in Nat
  /\ told \subseteq Owners

\* With one worker an alert that fired does not fire again until a pass has seen
\* its condition false, or the user has re-armed it: neither a condition that
\* stays true, nor a pass cut short and run again, nor flags a pass decided on
\* before somebody edited the alert, makes a second event of one crossing.
NoRefire ==
  [][\A e \in Rows : log[e].st = "free" /\ log'[e].st = "recorded"
                     => log'[e].of \notin told]_vars

\* The pipeline catches up: whatever passes and drains die half way, fail to send
\* or are aborted by a deleted alert, again and again no alert stands armed over
\* a true condition or disarmed over a false one, and no event is undelivered.
CatchesUp ==
  []<>((\A a \in Owners : ~Crosses(a) /\ ~Recedes(a)) /\ Undelivered = {})
=============================================================================
