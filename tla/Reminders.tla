------------------------------ MODULE Reminders ------------------------------
(***************************************************************************)
(* Event reminders: the reminders a user keeps (reminders/service.ts and   *)
(* controllers/me/reminders-controller.ts), the calendar they are resolved *)
(* against (reminders/resolve.ts, filled by ingestions/corporate-events),  *)
(* the daily evaluation pass (reminders/eval-pass.ts) and, from MailDrain, *)
(* the drain (reminders/deliver.ts).                                       *)
(*                                                                         *)
(* All reminders here watch one (stock, event type): other pairs touch     *)
(* neither its calendar nor its rows.                                      *)
(***************************************************************************)
EXTENDS MailDrain

CONSTANTS
  Leads,  \* daysBefore: how many days ahead to remind (DAYS_BEFORE_OPTIONS)
  Dates,  \* the days the event may be announced for
  NoDate  \* null

ASSUME RemindersAssumption ==
  /\ Leads \subseteq Nat \ {0}
  /\ Dates \subseteq Nat /\ NoDate \notin Nat

VARIABLES
  rem,        \* the event_reminders table
  calendar,   \* the dates of the corporate_events rows of the pair
  announced,  \* the date the company last announced
  pass        \* per worker: what the evaluation pass read

vars == <<day, log, run, todo, sending, keys, mailed, mails,
          rem, calendar, announced, pass>>

remVars == <<rem, calendar, announced, pass>>

-----------------------------------------------------------------------------
(* Resolution and the fire decision. *)

\* resolveNextEvents: the soonest date on or after t among the rows kept.
Upcoming(t) == {d \in calendar : d >= t}
NextEvent(t) ==
  IF Upcoming(t) = {} THEN NoDate
  ELSE CHOOSE d \in Upcoming(t) : \A c \in Upcoming(t) : d <= c

\* reminderFireDecision: inside [eventDate - daysBefore, eventDate).
InWindow_OnTheDot(t, d, lead) == d # NoDate /\ t = d - lead
InWindow(t, d, lead) == d # NoDate /\ d - lead <= t /\ t < d

\* The bulk pre-check and the unique key both look for a row of this reminder
\* and this date.
AlreadyFired_AnyDate(r, d) ==
  \E e \in Rows : log[e].st \in {"recorded", "delivered"} /\ log[e].of = r
AlreadyFired(r, d) ==
  \E e \in Rows : /\ log[e].st \in {"recorded", "delivered"}
                  /\ log[e].of = r /\ log[e].what = d

IdlePass == [date |-> NoDate, today |-> 0, due |-> {}, seen |-> {}]

Init ==
  /\ DrainInit
  /\ log = [e \in Rows |-> [st |-> "free", of |-> CHOOSE r \in Owners : TRUE,
                            what |-> NoDate]]
  /\ rem = [r \in Owners |-> [st |-> "absent", lead |-> 1]]
  /\ calendar = {} /\ announced = NoDate
  /\ pass = [w \in Workers |-> IdlePass]

-----------------------------------------------------------------------------
(* The calendar.  upsertEvents keys on (stock, type, date) and deletes        *)
(* nothing: a moved date is a new row beside the old one.                   *)

Announce(d) ==
  /\ d > day /\ d # announced
  /\ announced' = d
  /\ calendar' = calendar \cup {d}
  /\ UNCHANGED <<day, log, rem, pass>> /\ UNCHANGED drainVars

-----------------------------------------------------------------------------
(* The user.  createReminder reads the row of the unique (user, stock, type) *)
(* and updates or creates it; racing calls end in the same states or in a   *)
(* unique or missing-row error that changes nothing.                        *)

Create(r, lead) ==
  /\ rem[r].st = "absent"
  /\ rem' = [rem EXCEPT ![r] = [st |-> "active", lead |-> lead]]
  /\ UNCHANGED <<day, log, calendar, announced, pass>> /\ UNCHANGED drainVars

\* A repeated create re-affirms: new lead time, active again.
Reaffirm(r, lead) ==
  /\ rem[r].st \in {"active", "paused"}
  /\ rem' = [rem EXCEPT ![r] = [st |-> "active", lead |-> lead]]
  /\ UNCHANGED <<day, log, calendar, announced, pass>> /\ UNCHANGED drainVars

\* PATCH pauses or resumes, and nothing else.
Pause(r) ==
  /\ rem[r].st = "active"
  /\ rem' = [rem EXCEPT ![r].st = "paused"]
  /\ UNCHANGED <<day, log, calendar, announced, pass>> /\ UNCHANGED drainVars

Resume(r) ==
  /\ rem[r].st = "paused"
  /\ rem' = [rem EXCEPT ![r].st = "active"]
  /\ UNCHANGED <<day, log, calendar, announced, pass>> /\ UNCHANGED drainVars

Delete(r) ==
  /\ rem[r].st \in {"active", "paused"}
  /\ rem' = [rem EXCEPT ![r].st = "deleted"]
  /\ log' = Cascaded(r)
  /\ UNCHANGED <<day, calendar, announced, pass>> /\ UNCHANGED drainVars

-----------------------------------------------------------------------------
(* The evaluation pass. *)

\* The three reads of the pass: active reminders, nearest event, rows already
\* fired.  Nothing that could come between them changes what the pass does: a
\* row another pass inserts meanwhile is found by the unique key.
EvalStart(w) ==
  LET next == NextEvent(day)
      active == {r \in Owners : rem[r].st = "active"}
  IN  /\ run[w] = "idle"
      /\ run' = [run EXCEPT ![w] = "eval"]
      /\ pass' = [pass EXCEPT ![w] =
                   [date |-> next, today |-> day,
                    seen |-> {<<r, rem[r].lead>> : r \in active},
                    due |-> {r \in active : InWindow(day, next, rem[r].lead)
                                            /\ ~AlreadyFired(r, next)}]]
      /\ UNCHANGED <<day, log, todo, sending, keys, mailed, mails,
                     rem, calendar, announced>>

Considers(w, r) ==
  /\ run[w] = "eval" /\ r \in pass[w].due
  /\ pass' = [pass EXCEPT ![w].due = @ \ {r}]
  /\ UNCHANGED <<day, todo, sending, keys, mailed, mails,
                 rem, calendar, announced>>

\* The unique (reminder_id, resolved_event_date).
Unique_Absent(r, d) == TRUE
Unique(r, d) == ~AlreadyFired(r, d)

\* The event row and last_fired_at in one transaction.
Fire(w, r) ==
  /\ Considers(w, r)
  /\ rem[r].st # "deleted" /\ Unique(r, pass[w].date)
  /\ Unused # {} /\ Record(r, pass[w].date)
  /\ UNCHANGED run

\* P2002: another pass recorded this occurrence first.
Deduped(w, r) ==
  /\ Considers(w, r)
  /\ rem[r].st # "deleted" /\ ~Unique(r, pass[w].date)
  /\ UNCHANGED <<log, run>>

\* The reminder is gone: the insert violates its foreign key, and the error
\* ends the pass for every reminder behind it.
FireGone(w, r) ==
  /\ run[w] = "eval" /\ r \in pass[w].due /\ rem[r].st = "deleted"
  /\ run' = [run EXCEPT ![w] = "idle"]
  /\ pass' = [pass EXCEPT ![w] = IdlePass]
  /\ UNCHANGED <<day, log, todo, sending, keys, mailed, mails,
                 rem, calendar, announced>>

EvalEnd(w) ==
  /\ run[w] = "eval" /\ pass[w].due = {}
  /\ run' = [run EXCEPT ![w] = "idle"]
  /\ pass' = [pass EXCEPT ![w] = IdlePass]
  /\ UNCHANGED <<day, log, todo, sending, keys, mailed, mails,
                 rem, calendar, announced>>

EvalDies(w) ==
  /\ run[w] = "eval" /\ pass[w].due # {}
  /\ run' = [run EXCEPT ![w] = "idle"]
  /\ pass' = [pass EXCEPT ![w] = IdlePass]
  /\ UNCHANGED <<day, log, todo, sending, keys, mailed, mails,
                 rem, calendar, announced>>

-----------------------------------------------------------------------------

Next ==
  \/ DrainNext /\ UNCHANGED remVars
  \/ \E d \in Dates : Announce(d)
  \/ \E r \in Owners :
       \/ Pause(r) \/ Resume(r) \/ Delete(r)
       \/ \E lead \in Leads : Create(r, lead) \/ Reaffirm(r, lead)
  \/ \E w \in Workers :
       \/ EvalStart(w) \/ EvalEnd(w) \/ EvalDies(w)
       \/ \E r \in Owners : Fire(w, r) \/ Deduped(w, r) \/ FireGone(w, r)

Spec == Init /\ [][Next]_vars

-----------------------------------------------------------------------------
(* Properties.  An operator named X_Y is operator X with the mistake Y.     *)

TypeOK ==
  /\ day \in Days
  /\ log \in [Rows -> [st : RowStatus, of : Owners, what : Dates \cup {NoDate}]]
  /\ run \in [Workers -> {"idle", "eval", "drain"}]
  /\ todo \in [Workers -> SUBSET Rows]
  /\ sending \in [Workers -> Rows \cup {NoRow}]
  /\ keys \subseteq Rows \X Days /\ mailed \subseteq Rows \X Days
  /\ mails \in Nat
  /\ rem \in [Owners -> [st : {"absent", "active", "paused", "deleted"},
                         lead : Nat]]
  /\ calendar \subseteq Dates /\ announced \in Dates \cup {NoDate}
  /\ pass \in [Workers -> [date : Dates \cup {NoDate}, today : Days,
                           due : SUBSET Owners,
                           seen : SUBSET (Owners \X Nat)]]

\* However many passes overlap, are cut short and run again, a reminder fires
\* at most once for an occurrence.
OneRowPerOccurrence ==
  \A e, f \in Rows :
    /\ log[e].st \in {"recorded", "delivered"}
    /\ log[f].st \in {"recorded", "delivered"}
    /\ log[e].of = log[f].of /\ log[e].what = log[f].what
    => e = f

\* A pass that comes to its end leaves no open window unfired: every reminder
\* that was active when it read them, and still exists, has a row for the
\* nearest date if that date is at most the lead time away, whatever it fired
\* for before.
EveryWindowFires ==
  [][\A w \in Workers :
       EvalEnd(w) =>
         \A s \in pass[w].seen :
           LET r == s[1]  lead == s[2]
           IN  \/ pass[w].date = NoDate \/ rem[r].st = "deleted"
               \/ pass[w].date - pass[w].today \notin 1 .. lead
               \/ \E e \in Rows : log[e].st \in {"recorded", "delivered"}
                                 /\ log[e].of = r /\ log[e].what = pass[w].date]_vars

\* resolve.ts: a reminder follows a reschedule, it "never pins to a stale" date.
FollowsReschedule ==
  [][\A w \in Workers, r \in Owners : Fire(w, r) => pass[w].date = announced]_vars
=============================================================================
