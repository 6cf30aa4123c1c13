--------------------------- MODULE RemindersProofs ---------------------------
(***************************************************************************)
(* A reminder fires at most once for an occurrence, and nobody is mailed   *)
(* one firing twice on a day, for every number of reminders, workers,      *)
(* event rows and days.                                                    *)
(*                                                                         *)
(* The log alone decides: a firing adds a row only past the unique key,    *)
(* and every other step moves rows on without touching what they are       *)
(* about.  A pass that works from stale reads therefore cannot do harm,    *)
(* and the invariant says nothing of `pass` beyond its type.               *)
(***************************************************************************)
EXTENDS Reminders, MailDrainProofs, WellFoundedInduction

What == Dates \cup {NoDate}

ReminderTypes ==
  /\ rem \in [Owners -> [st : {"absent", "active", "paused", "deleted"}, lead : Nat]]
  /\ calendar \subseteq Dates /\ announced \in What
  /\ pass \in [Workers -> [date : What, today : Days, due : SUBSET Owners,
                           seen : SUBSET (Owners \X Nat)]]

LEMMA TypesSplit == TypeOK <=> DrainTypes /\ log \in LogOf(What) /\ ReminderTypes
  BY DEF TypeOK, DrainTypes, LogOf, ReminderTypes, What

LEMMA TypesSplitNext == TypeOK' <=> DrainTypes' /\ log' \in LogOf(What) /\ ReminderTypes'
  BY DEF TypeOK, DrainTypes, LogOf, ReminderTypes, What

-----------------------------------------------------------------------------
(* Types. *)

\* Any dates have a first one.
LEMMA Least ==
  ASSUME NEW T, T \subseteq Nat, T # {}
  PROVE  \E d \in T : \A c \in T : d <= c
  <1> DEFINE R == {ss \in Nat \X Nat : ss[1] < ss[2]}
  <1>1. IsWellFoundedOn(R, Nat)
    BY NatLessThanWellFounded, Zenon DEF OpToRel
  <1>2. \A c, d \in Nat : c < d => <<c, d>> \in R
    OBVIOUS
  <1> HIDE DEF R
  <1>3. PICK d \in T : \A c \in T : <<c, d>> \notin R
    BY <1>1, WFMin
  <1>4. ASSUME NEW c \in T PROVE d <= c
    <2>1. c \in Nat /\ d \in Nat
      OBVIOUS
    <2>2. ~(c < d)
      BY <2>1, <1>2, <1>3
    <2> QED BY <2>1, <2>2
  <1> QED BY <1>4

\* resolveNextEvents returns a date of the calendar, or none.
LEMMA NextEventType ==
  ASSUME calendar \subseteq Dates, NEW t
  PROVE  NextEvent(t) \in What
  <1>1. CASE Upcoming(t) = {}
    BY <1>1 DEF NextEvent, What
  <1>2. CASE Upcoming(t) # {}
    <2>1. Upcoming(t) \subseteq Dates /\ Upcoming(t) \subseteq Nat
      BY RemindersAssumption DEF Upcoming
    <2>2. \E d \in Upcoming(t) : \A c \in Upcoming(t) : d <= c
      BY <1>2, <2>1, Least
    <2> QED BY <1>2, <2>1, <2>2 DEF NextEvent, What
  <1> QED BY <1>1, <1>2

LEMMA InitTypes == Init => TypeOK
  <1> SUFFICES ASSUME Init PROVE TypeOK
    OBVIOUS
  <1>1. DrainTypes
    BY DrainStarts DEF Init
  <1>2. log \in LogOf(What) /\ ReminderTypes
    BY DrainAssumption DEF Init, LogOf, What, RowStatus, ReminderTypes, IdlePass, Days
  <1> QED BY <1>1, <1>2, TypesSplit

\* The log after a new row, and after the cascade of a deletion.
LEMMA RecordTypes ==
  ASSUME log \in LogOf(What), Unused # {}, NEW r \in Owners, NEW d \in What, Record(r, d)
  PROVE  \E e \in Unused :
           log' = [log EXCEPT ![e] = [st |-> "recorded", of |-> r, what |-> d]]
  BY DEF Record

LEMMA CascadeTypes ==
  ASSUME log \in LogOf(What), NEW r \in Owners
  PROVE  Cascaded(r) \in LogOf(What)
  BY DEF Cascaded, LogOf, RowStatus

LEMMA UserTypes ==
  ASSUME TypeOK, NEW r \in Owners,
         \/ Pause(r) \/ Resume(r) \/ Delete(r)
         \/ \E lead \in Leads : Create(r, lead) \/ Reaffirm(r, lead)
  PROVE  TypeOK'
  <1>1. DrainTypes'
    BY TypesSplit DEF DrainTypes, Pause, Resume, Delete, Create, Reaffirm, drainVars
  <1>2. log' \in LogOf(What)
    BY TypesSplit, CascadeTypes DEF Pause, Resume, Delete, Create, Reaffirm
  <1>3. ReminderTypes'
    BY TypesSplit, RemindersAssumption
    DEF ReminderTypes, Pause, Resume, Delete, Create, Reaffirm
  <1> QED BY <1>1, <1>2, <1>3, TypesSplit, TypesSplitNext

LEMMA AnnounceTypes ==
  ASSUME TypeOK, NEW d \in Dates, Announce(d)
  PROVE  TypeOK'
  <1>1. DrainTypes' /\ log' = log
    BY TypesSplit DEF DrainTypes, Announce, drainVars
  <1>2. ReminderTypes'
    BY TypesSplit DEF ReminderTypes, Announce, What
  <1> QED BY <1>1, <1>2, TypesSplit, TypesSplitNext

LEMMA EvalStartTypes ==
  ASSUME TypeOK, NEW w \in Workers, EvalStart(w)
  PROVE  TypeOK'
  <1>1. DrainTypes' /\ log' = log
    BY TypesSplit DEF DrainTypes, EvalStart
  <1>2. NextEvent(day) \in What
    BY TypesSplit, NextEventType DEF ReminderTypes
  <1>3. {<<r, rem[r].lead>> : r \in {r \in Owners : rem[r].st = "active"}}
          \subseteq Owners \X Nat
    BY TypesSplit DEF ReminderTypes
  <1>4. ReminderTypes'
    BY <1>2, <1>3, TypesSplit DEF ReminderTypes, DrainTypes, EvalStart
  <1> QED BY <1>1, <1>4, TypesSplit, TypesSplitNext

LEMMA FireTypes ==
  ASSUME TypeOK, NEW w \in Workers, NEW r \in Owners, Fire(w, r) \/ Deduped(w, r)
  PROVE  TypeOK'
  <1>1. DrainTypes'
    BY TypesSplit DEF DrainTypes, Fire, Deduped, Considers
  <1>2. log' \in LogOf(What)
    <2>1. CASE Fire(w, r)
      <3>1. pass[w].date \in What
        BY TypesSplit DEF ReminderTypes
      <3>2. PICK e \in Unused :
              log' = [log EXCEPT ![e] = [st |-> "recorded", of |-> r, what |-> pass[w].date]]
        BY <2>1, <3>1, TypesSplit, RecordTypes DEF Fire
      <3> QED BY <3>1, <3>2, TypesSplit DEF LogOf, RowStatus
    <2>2. CASE Deduped(w, r)
      BY <2>2, TypesSplit DEF Deduped
    <2> QED BY <2>1, <2>2
  <1>3. ReminderTypes'
    <2>1. Considers(w, r)
      BY DEF Fire, Deduped
    <2> QED BY <2>1, TypesSplit DEF ReminderTypes, Considers
  <1> QED BY <1>1, <1>2, <1>3, TypesSplit, TypesSplitNext

LEMMA EvalStopTypes ==
  ASSUME TypeOK, NEW w \in Workers,
         EvalEnd(w) \/ EvalDies(w) \/ \E r \in Owners : FireGone(w, r)
  PROVE  TypeOK'
  <1>1. DrainTypes' /\ log' = log
    BY TypesSplit DEF DrainTypes, EvalEnd, EvalDies, FireGone
  <1>2. ReminderTypes'
    BY TypesSplit, DrainAssumption
    DEF ReminderTypes, EvalEnd, EvalDies, FireGone, IdlePass, What, Days
  <1> QED BY <1>1, <1>2, TypesSplit, TypesSplitNext

LEMMA NextTypes == TypeOK /\ [Next]_vars => TypeOK'
  <1> SUFFICES ASSUME TypeOK, [Next]_vars PROVE TypeOK'
    OBVIOUS
  <1>1. CASE DrainNext /\ UNCHANGED remVars
    <2>1. DrainTypes' /\ log' \in LogOf(What)
      BY <1>1, TypesSplit, DrainKeepsTypes, DrainProgress
    <2>2. ReminderTypes'
      BY <1>1, TypesSplit DEF ReminderTypes, remVars
    <2> QED BY <2>1, <2>2, TypesSplit, TypesSplitNext
  <1>2. CASE UNCHANGED vars
    BY <1>2 DEF TypeOK, vars
  <1> QED BY <1>1, <1>2, UserTypes, AnnounceTypes, EvalStartTypes, FireTypes,
        EvalStopTypes DEF Next

-----------------------------------------------------------------------------
(* One row per occurrence. *)

\* Rows that keep what they are about and are not new keep the occurrences apart.
LEMMA NoNewRow ==
  ASSUME OneRowPerOccurrence,
         \A e \in Rows : /\ log'[e].of = log[e].of /\ log'[e].what = log[e].what
                         /\ log'[e].st \in {"recorded", "delivered"}
                            => log[e].st \in {"recorded", "delivered"}
  PROVE  OneRowPerOccurrence'
  BY DEF OneRowPerOccurrence

LEMMA FireKeeps ==
  ASSUME TypeOK, OneRowPerOccurrence, NEW w \in Workers, NEW r \in Owners, Fire(w, r)
  PROVE  OneRowPerOccurrence'
  <1>1. log \in LogOf(What) /\ pass[w].date \in What
    BY TypesSplit DEF ReminderTypes
  <1>2. PICK e \in Unused :
          log' = [log EXCEPT ![e] = [st |-> "recorded", of |-> r, what |-> pass[w].date]]
    BY <1>1, RecordTypes DEF Fire
  <1>3. \A f \in Rows : log[f].st \in {"recorded", "delivered"} /\ log[f].of = r
                        => log[f].what # pass[w].date
    BY DEF Fire, Unique, AlreadyFired
  <1>4. \A f \in Rows \ {e} : log'[f] = log[f]
    BY <1>1, <1>2 DEF LogOf
  <1>5. log'[e].of = r /\ log'[e].what = pass[w].date
    BY <1>1, <1>2 DEF LogOf, Unused
  <1> QED BY <1>3, <1>4, <1>5 DEF OneRowPerOccurrence

LEMMA DeleteKeeps ==
  ASSUME TypeOK, OneRowPerOccurrence, NEW r \in Owners, Delete(r)
  PROVE  OneRowPerOccurrence'
  <1>1. \A e \in Rows :
          /\ log'[e].of = log[e].of /\ log'[e].what = log[e].what
          /\ log'[e].st \in {"recorded", "delivered"} => log'[e].st = log[e].st
    BY TypesSplit DEF Delete, Cascaded, LogOf
  <1> QED BY <1>1, NoNewRow

LEMMA NextKeepsRows ==
  TypeOK /\ OneRowPerOccurrence /\ [Next]_vars => OneRowPerOccurrence'
  <1> SUFFICES ASSUME TypeOK, OneRowPerOccurrence, [Next]_vars
               PROVE  OneRowPerOccurrence'
    OBVIOUS
  <1>1. CASE DrainNext
    <2>1. \A e \in Rows : Progress(e)
      BY <1>1, TypesSplit, DrainProgress
    <2> QED BY <2>1, NoNewRow DEF Progress
  <1>2. CASE log' = log
    BY <1>2 DEF OneRowPerOccurrence
  <1>3. ASSUME NEW r \in Owners, Delete(r) PROVE OneRowPerOccurrence'
    BY <1>3, DeleteKeeps
  <1>4. ASSUME NEW w \in Workers, NEW r \in Owners, Fire(w, r) PROVE OneRowPerOccurrence'
    BY <1>4, FireKeeps
  <1> QED BY <1>1, <1>2, <1>3, <1>4 DEF Next, vars, Announce, Pause, Resume, Create,
        Reaffirm, EvalStart, EvalEnd, EvalDies, Deduped, FireGone

-----------------------------------------------------------------------------
(* Mails. *)

LEMMA NextKeepsKeys == TypeOK /\ KeysKeep /\ [Next]_vars => KeysKeep'
  <1> SUFFICES ASSUME TypeOK, KeysKeep, [Next]_vars PROVE KeysKeep'
    OBVIOUS
  <1>1. CASE DrainNext
    BY <1>1, TypesSplit, DrainKeepsKeys
  <1>2. CASE UNCHANGED <<day, keys, mailed, mails>>
    BY <1>2, KeysStutter
  <1> QED BY <1>1, <1>2 DEF Next, vars, drainVars, Announce, Pause, Resume, Delete,
        Create, Reaffirm, EvalStart, EvalEnd, EvalDies, Fire, Deduped, Considers, FireGone

-----------------------------------------------------------------------------

\* Every table, pass and key of the reminder pipeline holds what its columns and
\* locals allow.
THEOREM ReminderTypesHold == Spec => []TypeOK
  <1> QED BY InitTypes, NextTypes, PTL DEF Spec

\* runRemindersEvalPass over the unique (reminder_id, resolved_event_date): no
\* number of overlapping, repeated or interrupted passes fires one occurrence twice.
THEOREM FiresOnce == Spec => []OneRowPerOccurrence
  <1>1. Init => OneRowPerOccurrence
    BY DEF Init, OneRowPerOccurrence
  <1> QED BY <1>1, InitTypes, NextTypes, NextKeepsRows, PTL DEF Spec

\* runRemindersDeliverPass with the provider's keys: no number of drains mails one
\* event twice on a day.
THEOREM MailsOnceADay == Spec => []MailedOnceADay
  <1>1. Init => KeysKeep
    BY DrainStarts DEF Init
  <1>2. KeysKeep => MailedOnceADay
    BY DEF KeysKeep
  <1> QED BY <1>1, <1>2, InitTypes, NextTypes, NextKeepsKeys, PTL DEF Spec
=============================================================================
