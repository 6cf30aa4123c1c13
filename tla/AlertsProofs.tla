----------------------------- MODULE AlertsProofs -----------------------------
(***************************************************************************)
(* With one worker an alert fires once per crossing, for every number of   *)
(* alerts, targets, event rows, edits and days.                            *)
(*                                                                         *)
(* The pass writes flags it decided on earlier, so that an alert that has  *)
(* fired is disarmed is not enough: the decisions a pass still carries     *)
(* must not concern it either (Quiet).                                     *)
(***************************************************************************)
EXTENDS Alerts, MailDrainProofs

AlertTypes ==
  /\ alert \in [Owners -> Rule] /\ reading \in [Targets -> Reading]
  /\ pass \in [Workers -> Pass] /\ edits \in Nat /\ changes \in Nat
  /\ told \subseteq Owners

LEMMA TypesSplit == TypeOK <=> DrainTypes /\ log \in LogOf(Reading) /\ AlertTypes
  BY DEF TypeOK, DrainTypes, LogOf, AlertTypes

LEMMA TypesSplitNext == TypeOK' <=> DrainTypes' /\ log' \in LogOf(Reading) /\ AlertTypes'
  BY DEF TypeOK, DrainTypes, LogOf, AlertTypes

\* An alert that fired is disarmed, and no pass is about to fire or re-arm it.
Quiet ==
  /\ \A a \in told : ~alert[a].armed /\ alert[a].st # "absent"
  /\ \A w \in Workers : /\ pass[w].fire \cap told = {}
                        /\ pass[w].rearm \cap told = {}
                        /\ pass[w].fire \cap pass[w].rearm = {}

\* The fleet outside a deploy.
OneWorker == \A v, w \in Workers : v = w

-----------------------------------------------------------------------------
(* Types. *)

LEMMA InitTypes == Init => TypeOK
  <1> SUFFICES ASSUME Init PROVE TypeOK
    OBVIOUS
  <1>1. DrainTypes
    BY DrainStarts DEF Init
  <1>2. log \in LogOf(Reading)
    BY DrainAssumption DEF Init, LogOf, RowStatus, Reading
  <1>3. (CHOOSE t \in Targets : TRUE) \in Targets
    BY AlertsAssumption
  <1>4. AlertTypes
    BY <1>3 DEF Init, AlertTypes, Rule, Pass, IdlePass
  <1> QED BY <1>1, <1>2, <1>4, TypesSplit

LEMMA CascadeTypes ==
  ASSUME log \in LogOf(Reading), NEW a \in Owners
  PROVE  Cascaded(a) \in LogOf(Reading)
  BY DEF Cascaded, LogOf, RowStatus

\* An edit replaces one rule by another.
LEMMA EditTypes ==
  ASSUME TypeOK, NEW a \in Owners, NEW rule \in Rule, Edits(a, rule)
  PROVE  TypeOK'
  <1>1. DrainTypes' /\ log' = log
    BY TypesSplit DEF DrainTypes, Edits, drainVars
  <1>2. AlertTypes'
    BY TypesSplit DEF AlertTypes, Edits
  <1> QED BY <1>1, <1>2, TypesSplit, TypesSplitNext

\* What the four PATCHes make of a rule.
LEMMA EditedRules ==
  ASSUME TypeOK, NEW a \in Owners
  PROVE  /\ [alert[a] EXCEPT !.active = FALSE] \in Rule
         /\ [alert[a] EXCEPT !.active = TRUE, !.armed = TRUE] \in Rule
         /\ \A t \in Targets : [alert[a] EXCEPT !.target = t, !.armed = TRUE] \in Rule
         /\ \A one \in BOOLEAN : [alert[a] EXCEPT !.one = one] \in Rule
  <1>1. alert[a] \in Rule
    BY TypesSplit DEF AlertTypes
  <1> QED BY <1>1 DEF Rule

LEMMA UserTypes ==
  ASSUME TypeOK, NEW a \in Owners,
         \/ Pause(a) \/ Activate(a) \/ Delete(a)
         \/ \E t \in Targets : Retarget(a, t)
         \/ \E one \in BOOLEAN : SetRepeat(a, one)
         \/ \E t \in Targets, one \in BOOLEAN : Create(a, t, one)
  PROVE  TypeOK'
  <1>1. CASE Pause(a)
    BY <1>1, EditTypes, EditedRules DEF Pause
  <1>2. CASE Activate(a)
    BY <1>2, EditTypes, EditedRules DEF Activate
  <1>3. ASSUME NEW t \in Targets, Retarget(a, t) PROVE TypeOK'
    BY <1>3, EditTypes, EditedRules DEF Retarget
  <1>4. ASSUME NEW one \in BOOLEAN, SetRepeat(a, one) PROVE TypeOK'
    BY <1>4, EditTypes, EditedRules DEF SetRepeat
  <1>5. CASE Delete(a)
    <2>1. DrainTypes' /\ log' \in LogOf(Reading)
      BY <1>5, TypesSplit, CascadeTypes DEF DrainTypes, Delete, drainVars
    <2>2. AlertTypes'
      BY <1>5, TypesSplit DEF AlertTypes, Delete, Rule
    <2> QED BY <2>1, <2>2, TypesSplit, TypesSplitNext
  <1>6. ASSUME NEW t \in Targets, NEW one \in BOOLEAN, Create(a, t, one) PROVE TypeOK'
    <2>1. DrainTypes' /\ log' = log
      BY <1>6, TypesSplit DEF DrainTypes, Create, drainVars
    <2>2. AlertTypes'
      BY <1>6, TypesSplit DEF AlertTypes, Create, Rule
    <2> QED BY <2>1, <2>2, TypesSplit, TypesSplitNext
  <1> QED BY <1>1, <1>2, <1>3, <1>4, <1>5, <1>6

LEMMA ReadingTypes ==
  ASSUME TypeOK, NEW t \in Targets, NEW v \in Reading, NewReading(t, v)
  PROVE  TypeOK'
  <1>1. DrainTypes' /\ log' = log
    BY TypesSplit DEF DrainTypes, NewReading, drainVars
  <1>2. AlertTypes'
    BY TypesSplit DEF AlertTypes, NewReading
  <1> QED BY <1>1, <1>2, TypesSplit, TypesSplitNext

LEMMA EvalStartTypes ==
  ASSUME TypeOK, NEW w \in Workers, EvalStart(w)
  PROVE  TypeOK'
  <1>1. DrainTypes' /\ log' = log
    BY TypesSplit DEF DrainTypes, EvalStart
  <1>2. AlertTypes'
    BY TypesSplit DEF AlertTypes, EvalStart, Pass
  <1> QED BY <1>1, <1>2, TypesSplit, TypesSplitNext

\* The row a fire adds to the log.
LEMMA FireRow ==
  ASSUME TypeOK, NEW w \in Workers, NEW a \in Owners, Fire(w, a)
  PROVE  \E e \in Unused :
           log' = [log EXCEPT ![e] = [st |-> "recorded", of |-> a, what |-> "true"]]
  BY DEF Fire, Record

LEMMA FireTypes ==
  ASSUME TypeOK, NEW w \in Workers, NEW a \in Owners, Fire(w, a)
  PROVE  TypeOK'
  <1>1. DrainTypes'
    BY TypesSplit DEF DrainTypes, Fire
  <1>2. log' \in LogOf(Reading)
    BY TypesSplit, FireRow DEF LogOf, RowStatus, Reading
  <1>3. Fired(w, a) \in Rule
    BY TypesSplit DEF AlertTypes, Fired, Rule
  <1>4. pass' \in [Workers -> Pass]
    BY TypesSplit DEF AlertTypes, Fire, Pass
  <1>5. AlertTypes'
    BY <1>3, <1>4, TypesSplit DEF AlertTypes, Fire
  <1> QED BY <1>1, <1>2, <1>5, TypesSplit, TypesSplitNext

LEMMA RearmTypes ==
  ASSUME TypeOK, NEW w \in Workers, NEW a \in Owners, Rearm(w, a)
  PROVE  TypeOK'
  <1>1. DrainTypes' /\ log' = log
    BY TypesSplit DEF DrainTypes, Rearm
  <1>2. Rearmed(a) \in Rule
    BY TypesSplit DEF AlertTypes, Rearmed, Rule
  <1>3. pass' \in [Workers -> Pass]
    BY TypesSplit DEF AlertTypes, Rearm, Pass
  <1>4. AlertTypes'
    BY <1>2, <1>3, TypesSplit DEF AlertTypes, Rearm
  <1> QED BY <1>1, <1>4, TypesSplit, TypesSplitNext

LEMMA StopTypes ==
  ASSUME TypeOK, NEW w \in Workers, EvalStops(w)
  PROVE  TypeOK'
  <1>1. DrainTypes' /\ log' = log
    BY TypesSplit DEF DrainTypes, EvalStops
  <1>2. AlertTypes'
    BY TypesSplit DEF AlertTypes, EvalStops, IdlePass, Pass
  <1> QED BY <1>1, <1>2, TypesSplit, TypesSplitNext

LEMMA NextTypes == TypeOK /\ [Next]_vars => TypeOK'
  <1> SUFFICES ASSUME TypeOK, [Next]_vars PROVE TypeOK'
    OBVIOUS
  <1>1. CASE DrainNext /\ UNCHANGED alertVars
    <2>1. DrainTypes' /\ log' \in LogOf(Reading)
      BY <1>1, TypesSplit, DrainKeepsTypes, DrainProgress
    <2>2. AlertTypes'
      BY <1>1, TypesSplit DEF AlertTypes, alertVars
    <2> QED BY <2>1, <2>2, TypesSplit, TypesSplitNext
  <1>2. CASE UNCHANGED vars
    BY <1>2 DEF TypeOK, vars
  <1>3. ASSUME NEW w \in Workers,
               EvalEnd(w) \/ EvalDies(w) \/ \E a \in Owners : EvalGone(w, a)
        PROVE  TypeOK'
    BY <1>3, StopTypes DEF EvalEnd, EvalDies, EvalGone
  <1> QED BY <1>1, <1>2, <1>3, UserTypes, ReadingTypes, EvalStartTypes, FireTypes,
        RearmTypes DEF Next

-----------------------------------------------------------------------------
(* Quiet. *)

\* An edit that arms an alert also takes it off the list of those that fired.
LEMMA EditQuiet ==
  ASSUME TypeOK, Quiet, NEW a \in Owners, NEW rule \in Rule, Edits(a, rule),
         rule.armed \/ rule.armed = alert[a].armed, rule.st = alert[a].st
  PROVE  Quiet'
  <1>1. alert' = [alert EXCEPT ![a] = rule] /\ pass' = pass
    BY DEF Edits
  <1>2. told' \subseteq told /\ (rule.armed => a \notin told')
    BY DEF Edits
  <1>3. ASSUME NEW b \in told' PROVE ~alert'[b].armed /\ alert'[b].st # "absent"
    <2>1. b \in told /\ b \in Owners
      BY <1>2 DEF TypeOK
    <2>2. CASE b = a
      BY <1>1, <1>2, <2>1, <2>2 DEF Quiet, TypeOK
    <2>3. CASE b # a
      BY <1>1, <2>1, <2>3 DEF Quiet, TypeOK
    <2> QED BY <2>2, <2>3
  <1> QED BY <1>1, <1>2, <1>3 DEF Quiet

LEMMA UserQuiet ==
  ASSUME TypeOK, Quiet, NEW a \in Owners,
         \/ Pause(a) \/ Activate(a)
         \/ \E t \in Targets : Retarget(a, t)
         \/ \E one \in BOOLEAN : SetRepeat(a, one)
  PROVE  Quiet'
  <1>0. alert[a] \in Rule
    BY DEF TypeOK
  <1>1. CASE Pause(a)
    <2> DEFINE rule == [alert[a] EXCEPT !.active = FALSE]
    <2>1. rule \in Rule /\ rule.armed = alert[a].armed /\ rule.st = alert[a].st
      BY <1>0, EditedRules DEF Rule
    <2> QED BY <1>1, <2>1, EditQuiet DEF Pause
  <1>2. CASE Activate(a)
    <2> DEFINE rule == [alert[a] EXCEPT !.active = TRUE, !.armed = TRUE]
    <2>1. rule \in Rule /\ rule.armed /\ rule.st = alert[a].st
      BY <1>0, EditedRules DEF Rule
    <2> QED BY <1>2, <2>1, EditQuiet DEF Activate
  <1>3. ASSUME NEW t \in Targets, Retarget(a, t) PROVE Quiet'
    <2> DEFINE rule == [alert[a] EXCEPT !.target = t, !.armed = TRUE]
    <2>1. rule \in Rule /\ rule.armed /\ rule.st = alert[a].st
      BY <1>0, EditedRules DEF Rule
    <2> QED BY <1>3, <2>1, EditQuiet DEF Retarget
  <1>4. ASSUME NEW one \in BOOLEAN, SetRepeat(a, one) PROVE Quiet'
    <2> DEFINE rule == [alert[a] EXCEPT !.one = one]
    <2>1. rule \in Rule /\ rule.armed = alert[a].armed /\ rule.st = alert[a].st
      BY <1>0, EditedRules DEF Rule
    <2> QED BY <1>4, <2>1, EditQuiet DEF SetRepeat
  <1> QED BY <1>1, <1>2, <1>3, <1>4

LEMMA CreateDeleteQuiet ==
  ASSUME TypeOK, Quiet, NEW a \in Owners,
         Delete(a) \/ \E t \in Targets, one \in BOOLEAN : Create(a, t, one)
  PROVE  Quiet'
  <1>1. CASE Delete(a)
    BY <1>1 DEF TypeOK, Quiet, Delete, Rule
  <1>2. ASSUME NEW t \in Targets, NEW one \in BOOLEAN, Create(a, t, one) PROVE Quiet'
    BY <1>2 DEF TypeOK, Quiet, Create
  <1> QED BY <1>1, <1>2

\* What a pass decides on is armed over a true condition or disarmed over a
\* false one: in the first case it has not fired, in the second it is forgotten.
LEMMA EvalStartQuiet ==
  ASSUME TypeOK, Quiet, NEW w \in Workers, EvalStart(w)
  PROVE  Quiet'
  <1>1. /\ told' = told \ {a \in Owners : reading[alert[a].target] = "false"}
        /\ alert' = alert
        /\ \A v \in Workers \ {w} : pass'[v] = pass[v]
    BY DEF EvalStart, TypeOK
  <1>2. /\ pass'[w].fire = {a \in Owners : Crosses(a)}
        /\ pass'[w].rearm = {a \in Owners : Recedes(a)}
    BY DEF EvalStart, TypeOK
  <1>3. pass'[w].fire \cap told' = {}
    BY <1>1, <1>2 DEF Quiet, Crosses
  <1>4. pass'[w].rearm \cap told' = {}
    BY <1>1, <1>2 DEF Recedes
  <1>5. pass'[w].fire \cap pass'[w].rearm = {}
    BY <1>2 DEF Crosses, Recedes
  <1> QED BY <1>1, <1>3, <1>4, <1>5 DEF Quiet

\* The one pass there is gives up its decisions on an alert as it fires it.
LEMMA FireQuiet ==
  ASSUME OneWorker, TypeOK, Quiet, NEW w \in Workers, NEW a \in Owners, Fire(w, a)
  PROVE  Quiet'
  <1>1. told' = told \cup {a} /\ alert' = [alert EXCEPT ![a] = Fired(w, a)]
    BY DEF Fire
  <1>2. ~Fired(w, a).armed /\ Fired(w, a).st = "here"
    BY DEF Fired, Fire, TypeOK, Rule
  <1>3. \A b \in told' : ~alert'[b].armed /\ alert'[b].st # "absent"
    BY <1>1, <1>2 DEF Quiet, TypeOK
  <1>4. /\ pass'[w].fire = pass[w].fire \ {a}
        /\ pass'[w].rearm = pass[w].rearm /\ a \in pass[w].fire
    BY DEF Fire, TypeOK, Pass
  <1>5. \A v \in Workers : v = w
    BY DEF OneWorker
  <1> QED BY <1>1, <1>3, <1>4, <1>5 DEF Quiet

LEMMA RearmQuiet ==
  ASSUME TypeOK, Quiet, NEW w \in Workers, NEW a \in Owners, Rearm(w, a)
  PROVE  Quiet'
  <1>1. a \in pass[w].rearm /\ a \notin told /\ told' = told
    BY DEF Rearm, Quiet
  <1>2. \A b \in told : alert'[b] = alert[b]
    BY <1>1 DEF Rearm, TypeOK
  <1>3. /\ pass'[w].fire = pass[w].fire
        /\ pass'[w].rearm = pass[w].rearm \ {a}
        /\ \A v \in Workers \ {w} : pass'[v] = pass[v]
    BY DEF Rearm, TypeOK, Pass
  <1> QED BY <1>1, <1>2, <1>3 DEF Quiet

LEMMA StopQuiet ==
  ASSUME TypeOK, Quiet, NEW w \in Workers, EvalStops(w)
  PROVE  Quiet'
  <1>1. alert' = alert /\ told' = told
    BY DEF EvalStops
  <1>2. \A v \in Workers : pass'[v] = IF v = w THEN IdlePass ELSE pass[v]
    BY DEF EvalStops, TypeOK
  <1> QED BY <1>1, <1>2 DEF Quiet, IdlePass

LEMMA NextQuiet == ASSUME OneWorker PROVE TypeOK /\ Quiet /\ [Next]_vars => Quiet'
  <1> SUFFICES ASSUME TypeOK, Quiet, [Next]_vars PROVE Quiet'
    OBVIOUS
  <1>1. CASE UNCHANGED <<alert, pass, told>>
    BY <1>1 DEF Quiet
  <1>2. ASSUME NEW w \in Workers,
               EvalEnd(w) \/ EvalDies(w) \/ \E a \in Owners : EvalGone(w, a)
        PROVE  Quiet'
    BY <1>2, StopQuiet DEF EvalEnd, EvalDies, EvalGone
  <1> QED BY <1>1, <1>2, UserQuiet, CreateDeleteQuiet, EvalStartQuiet, FireQuiet,
        RearmQuiet DEF Next, vars, alertVars, NewReading

-----------------------------------------------------------------------------
(* New events. *)

\* Only a fire records an event.
LEMMA NewEvents ==
  ASSUME TypeOK, [Next]_vars, NEW e \in Rows,
         log[e].st = "free", log'[e].st = "recorded"
  PROVE  \E w \in Workers, a \in Owners : Fire(w, a)
  <1>1. ~DrainNext
    <2> SUFFICES ASSUME DrainNext PROVE FALSE
      OBVIOUS
    <2>1. Progress(e)
      BY TypesSplit, DrainProgress
    <2> QED BY <2>1 DEF Progress
  <1>2. log' # log
    OBVIOUS
  <1>3. \A a \in Owners : ~Delete(a)
    BY TypesSplit DEF Delete, Cascaded, LogOf
  <1> QED BY <1>1, <1>2, <1>3 DEF Next, vars, NewReading, Create, Edits, Pause, Activate,
        Retarget, SetRepeat, EvalStart, Rearm, EvalStops, EvalEnd, EvalDies, EvalGone

\* and it records one of the alert it fires.
LEMMA FireRecords ==
  ASSUME TypeOK, NEW w \in Workers, NEW a \in Owners, Fire(w, a), NEW e \in Rows,
         log[e].st = "free", log'[e].st = "recorded"
  PROVE  log'[e].of = a
  <1>1. PICK f \in Unused :
          log' = [log EXCEPT ![f] = [st |-> "recorded", of |-> a, what |-> "true"]]
    BY FireRow
  <1>2. f = e
    BY <1>1, TypesSplit DEF LogOf, Unused
  <1> QED BY <1>1, <1>2, TypesSplit DEF LogOf

NoRefireStep ==
  \A e \in Rows : log[e].st = "free" /\ log'[e].st = "recorded" => log'[e].of \notin told

LEMMA StepNoRefire == TypeOK /\ Quiet /\ [Next]_vars => NoRefireStep
  <1> SUFFICES ASSUME TypeOK, Quiet, [Next]_vars, NEW e \in Rows,
                      log[e].st = "free", log'[e].st = "recorded"
               PROVE  log'[e].of \notin told
    BY DEF NoRefireStep
  <1>1. PICK w \in Workers, a \in Owners : Fire(w, a)
    BY NewEvents
  <1>2. log'[e].of = a
    BY <1>1, FireRecords
  <1>3. a \in pass[w].fire
    BY <1>1 DEF Fire
  <1> QED BY <1>2, <1>3 DEF Quiet

LEMMA NextKeepsKeys == TypeOK /\ KeysKeep /\ [Next]_vars => KeysKeep'
  <1> SUFFICES ASSUME TypeOK, KeysKeep, [Next]_vars PROVE KeysKeep'
    OBVIOUS
  <1>1. CASE DrainNext
    BY <1>1, TypesSplit, DrainKeepsKeys
  <1>2. CASE UNCHANGED <<day, keys, mailed, mails>>
    BY <1>2, KeysStutter
  <1> QED BY <1>1, <1>2 DEF Next, vars, drainVars, NewReading, Create, Edits, Pause,
        Activate, Retarget, SetRepeat, Delete, EvalStart, Fire, Rearm, EvalStops,
        EvalEnd, EvalDies, EvalGone

-----------------------------------------------------------------------------

\* Every table, pass and key of the alert pipeline holds what its columns and
\* locals allow.
THEOREM AlertTypesHold == Spec => []TypeOK
  <1> QED BY InitTypes, NextTypes, PTL DEF Spec

\* runAlertsEvalPass on one worker: a crossing makes one event, whatever the user
\* edits and however passes are cut short.
THEOREM FiresOncePerCrossing == ASSUME OneWorker PROVE Spec => NoRefire
  <1>1. Init => Quiet
    BY DEF Init, Quiet, IdlePass
  <1>2. TypeOK /\ Quiet /\ [Next]_vars => [NoRefireStep]_vars
    BY StepNoRefire
  <1>3. NoRefire <=> [][NoRefireStep]_vars
    BY DEF NoRefire, NoRefireStep
  <1> QED BY <1>1, <1>2, <1>3, InitTypes, NextTypes, NextQuiet, PTL DEF Spec

\* runAlertsDeliverPass with the provider's keys: no number of drains mails one
\* event twice on a day.
THEOREM AlertsMailOnceADay == Spec => []MailedOnceADay
  <1>1. Init => KeysKeep
    BY DrainStarts DEF Init
  <1>2. KeysKeep => MailedOnceADay
    BY DEF KeysKeep
  <1> QED BY <1>1, <1>2, InitTypes, NextTypes, NextKeepsKeys, PTL DEF Spec
=============================================================================
