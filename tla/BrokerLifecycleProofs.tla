------------------------ MODULE BrokerLifecycleProofs ------------------------
(***************************************************************************)
(* For any number of tabs, sweeps, connections, accounts and OAuth states. *)
(*                                                                         *)
(* First, what overlapping requests cannot do to the broker tables: store  *)
(* two sessions on one state, feed two accounts from one connection,       *)
(* rescue one connection twice.  Four actions matter (Complete, Upsert,    *)
(* Link, RescueCommit); each of the others is Minor: it starts no login,   *)
(* revives no deleted connection and binds no account.                     *)
(*                                                                         *)
(* Then, what requests that do not overlap keep: no account in limbo, no   *)
(* row stranded or counted twice, nothing forgotten that was not meant.    *)
(***************************************************************************)
EXTENDS BrokerLifecycle, FiniteSetTheorems, TLAPS

\* A request that has consumed its OAuth state and not yet stored the session.
Pending(q) == q.pc \in {"expect", "auth", "upsert"} /\ q.s \in States

Calmer(old, new) ==
  /\ Pending(new) => Pending(old) /\ new.s = old.s
  /\ new.pc = "holdings" => \/ new.c \in Conns
                            \/ old.pc = "holdings" /\ new.c = old.c
Shrinks(old, new) == new.st = "live" /\ new.bound # None
                     => old.st = "live" /\ new.bound = old.bound

\* A rescue reads the rows of a connection.
Anchored == \A r \in Slots : req[r].pc = "holdings" => req[r].c \in Conns

Calm == \A r \in Slots : Calmer(req[r], req'[r])
GoneStays == \A c \in Conns : conn[c].st = "gone" => conn'[c].st = "gone"
BindsNone == \A a \in Accts : Shrinks(acct[a], acct'[a])
SpentStays == \A s \in States : auth[s].st = "consumed" => auth'[s].st = "consumed"

Minor == /\ Calm /\ GoneStays /\ BindsNone /\ SpentStays
         /\ UNCHANGED history

ReqOK == req' \in [Slots -> Req] /\ Calm
ConnOK == conn' \in [Conns -> Conn] /\ GoneStays
AcctOK == acct' \in [Accts -> Acct] /\ BindsNone
AuthOK == auth' \in [States -> Auth] /\ SpentStays

LEMMA Assembled ==
  ASSUME TypeOK, ReqOK, ConnOK, AcctOK, AuthOK, UNCHANGED history
  PROVE  TypeOK' /\ Minor
  BY DEF TypeOK, ReqOK, ConnOK, AcctOK, AuthOK, Minor, history

LEMMA ConnSame == TypeOK /\ UNCHANGED conn => ConnOK
  BY DEF TypeOK, ConnOK, GoneStays

LEMMA AcctSame == TypeOK /\ UNCHANGED acct => AcctOK
  BY DEF TypeOK, AcctOK, BindsNone, Shrinks

LEMMA AuthSame == TypeOK /\ UNCHANGED auth => AuthOK
  BY DEF TypeOK, AuthOK, SpentStays

LEMMA ReqSame == TypeOK /\ UNCHANGED req => ReqOK
  BY DEF TypeOK, ReqOK, Calm, Calmer

-----------------------------------------------------------------------------
(* Requests. *)

LEMMA SetReq ==
  ASSUME TypeOK, NEW r \in Slots, NEW q \in Req, Calmer(req[r], q),
         req' = [req EXCEPT ![r] = q]
  PROVE  ReqOK
  BY DEF TypeOK, ReqOK, Calm, Calmer

LEMMA ReqType == ASSUME TypeOK, NEW r \in Slots PROVE req[r] \in Req
  BY DEF TypeOK

LEMMA FinishedType ==
  ASSUME TypeOK, NEW r \in Slots
  PROVE  Finished(r) \in Req /\ Finished(r).pc = "idle"
  <1>1. req[r].due \in SUBSET Conns
    BY ReqType DEF Req
  <1> QED BY <1>1 DEF Finished, Idle, Req, PC

LEMMA DoneReq ==
  ASSUME TypeOK, NEW r \in Slots, Done(r)
  PROVE  ReqOK
  BY FinishedType, SetReq DEF Done, Calmer, Pending

LEMMA GotoReq ==
  ASSUME TypeOK, NEW r \in Slots, NEW pc \in PC, Goto(r, pc),
         pc \notin {"expect", "auth", "upsert", "holdings"}
  PROVE  ReqOK
  <1> DEFINE q == [req[r] EXCEPT !.pc = pc]
  <1>1. q \in Req /\ q.pc = pc
    BY ReqType DEF Req
  <1>2. req' = [req EXCEPT ![r] = q]
    BY DEF Goto
  <1> HIDE DEF q
  <1> QED BY <1>1, <1>2, SetReq DEF Calmer, Pending

\* A request that starts without a state to consume.
LEMMA BeginsReq ==
  ASSUME TypeOK, NEW r \in Slots, NEW q \in Req, q.s = None, Begins(r, q),
         q.pc = "holdings" => q.c \in Conns
  PROVE  ReqOK
  BY SetReq, ConstantsAssumption DEF Begins, Calmer, Pending

\* A step of which the request is all that changes.
LEMMA OnlyReq ==
  ASSUME TypeOK, ReqOK, UNCHANGED <<conn, acct, auth, history>>
  PROVE  TypeOK' /\ Minor
  BY Assembled, ConnSame, AcctSame, AuthSame

\* A login learns which demat it is for, and the request stays of its type.
LEMMA LearnsDemat ==
  ASSUME NEW q \in Req, NEW pc \in PC, NEW d \in Demats \cup {None}
  PROVE  /\ [q EXCEPT !.pc = pc, !.d = d] \in Req
         /\ [q EXCEPT !.pc = pc, !.d = d].s = q.s
         /\ [q EXCEPT !.pc = pc, !.d = d].pc = pc
  BY DEF Req

LEMMA LogsIn ==
  ASSUME NEW q \in Req, NEW pc \in PC, NEW d \in Demats
  PROVE  /\ [q EXCEPT !.pc = pc, !.d = d, !.good = TRUE] \in Req
         /\ [q EXCEPT !.pc = pc, !.d = d, !.good = TRUE].s = q.s
         /\ [q EXCEPT !.pc = pc, !.d = d, !.good = TRUE].pc = pc
  BY DEF Req

LEMMA IntegrateStep ==
  ASSUME TypeOK, NEW r \in Slots, NEW b \in Brokers, Integrate(r, b)
  PROVE  TypeOK' /\ Minor
  <1> DEFINE q == [Idle EXCEPT !.pc = "auth", !.br = b]
  <1>1. q \in Req /\ q.s = None /\ q.pc # "holdings"
    BY DEF Idle, Req, PC
  <1> HIDE DEF q
  <1>2. Begins(r, q) /\ UNCHANGED <<conn, acct, auth, history>>
    BY DEF Integrate, q
  <1> QED BY <1>1, <1>2, BeginsReq, OnlyReq

LEMMA ExpectReadStep ==
  ASSUME TypeOK, NEW r \in Slots, ExpectRead(r)
  PROVE  TypeOK' /\ Minor
  <1>1. CASE Done(r)
    BY <1>1, DoneReq, OnlyReq DEF ExpectRead
  <1>2. CASE ~Done(r)
    <2>1. conn[req[r].c].demat \in Demats \cup {None}
      <3>1. req[r].c \in Conns
        BY <1>2 DEF ExpectRead, LiveConns
      <3> QED BY <3>1 DEF TypeOK, Conn
    <2>2. PICK d \in Demats \cup {None} :
            req' = [req EXCEPT ![r].pc = "auth", ![r].d = d]
      BY <1>2, <2>1 DEF ExpectRead
    <2> DEFINE q == [req[r] EXCEPT !.pc = "auth", !.d = d]
    <2>3. req' = [req EXCEPT ![r] = q]
      BY <2>2
    <2>4. q \in Req /\ q.s = req[r].s /\ q.pc = "auth"
      <3>1. req[r] \in Req /\ "auth" \in PC
        BY ReqType DEF PC
      <3>2. q \in Req
        BY <3>1, LearnsDemat
      <3>3. q.s = req[r].s /\ q.pc = "auth"
        BY <3>1 DEF Req
      <3> QED BY <3>2, <3>3
    <2> HIDE DEF q
    <2>5. Calmer(req[r], q)
      BY <2>4 DEF ExpectRead, At, Calmer, Pending
    <2> QED BY <2>3, <2>4, <2>5, SetReq, OnlyReq DEF ExpectRead
  <1> QED BY <1>1, <1>2

LEMMA AuthenticateStep ==
  ASSUME TypeOK, NEW r \in Slots, Authenticate(r)
  PROVE  TypeOK' /\ Minor
  <1>1. CASE Done(r)
    BY <1>1, DoneReq, OnlyReq DEF Authenticate
  <1>2. CASE ~Done(r)
    <2>1. PICK d \in Demats :
            req' = [req EXCEPT ![r].pc = "upsert", ![r].d = d, ![r].good = TRUE]
      BY <1>2 DEF Authenticate
    <2> DEFINE q == [req[r] EXCEPT !.pc = "upsert", !.d = d, !.good = TRUE]
    <2>2. req' = [req EXCEPT ![r] = q]
      BY <2>1
    <2>3. q \in Req /\ q.s = req[r].s /\ q.pc = "upsert"
      <3>1. req[r] \in Req /\ "upsert" \in PC
        BY ReqType DEF PC
      <3>2. q \in Req
        BY <3>1, LogsIn
      <3>3. q.s = req[r].s /\ q.pc = "upsert"
        BY <3>1 DEF Req
      <3> QED BY <3>2, <3>3
    <2> HIDE DEF q
    <2>4. Calmer(req[r], q)
      BY <2>3 DEF Authenticate, At, Calmer, Pending
    <2> QED BY <2>2, <2>3, <2>4, SetReq, OnlyReq DEF Authenticate
  <1> QED BY <1>1, <1>2

\* The row a sync works on.
LEMMA ReadingType ==
  ASSUME TypeOK, NEW r \in Slots, NEW c \in Conns
  PROVE  /\ Reading(r, c) \in Req
         /\ Reading(r, c).pc \in {"idle", "bound"}
  <1>1. conn[c].demat \in Demats \cup {None} /\ conn[c].good \in BOOLEAN
    BY DEF TypeOK, Conn
  <1>2. ASSUME NEW q \in Req, NEW d \in Demats \cup {None}, NEW g \in BOOLEAN
        PROVE  /\ [q EXCEPT !.pc = "bound", !.c = c, !.d = d, !.good = g] \in Req
               /\ [q EXCEPT !.pc = "bound", !.c = c, !.d = d, !.good = g].pc = "bound"
    BY DEF Req, PC
  <1>3. req[r] \in Req
    BY ReqType
  <1>4. CASE Syncable(c)
    <2> DEFINE q == [req[r] EXCEPT !.pc = "bound", !.c = c, !.d = conn[c].demat,
                                   !.good = conn[c].good]
    <2>1. q \in Req /\ q.pc = "bound"
      BY <1>1, <1>2, <1>3
    <2>2. Reading(r, c) = q
      BY <1>4 DEF Reading
    <2> HIDE DEF q
    <2> QED BY <2>1, <2>2
  <1>5. CASE ~Syncable(c)
    BY <1>5, FinishedType DEF Reading
  <1> QED BY <1>4, <1>5

LEMMA DropsDue ==
  ASSUME NEW q \in Req, NEW c
  PROVE  [q EXCEPT !.due = @ \ {c}] \in Req /\ [q EXCEPT !.due = @ \ {c}].pc = q.pc
  BY DEF Req

LEMMA SetDue ==
  ASSUME NEW q \in Req, NEW D \in SUBSET Conns
  PROVE  [q EXCEPT !.due = D] \in Req /\ [q EXCEPT !.due = D].pc = q.pc
  BY DEF Req

LEMMA SetGot ==
  ASSUME NEW q \in Req, NEW pc \in PC, NEW P \in SUBSET Positions
  PROVE  /\ [q EXCEPT !.pc = pc, !.got = P] \in Req
         /\ [q EXCEPT !.pc = pc, !.got = P].pc = pc
  BY DEF Req

LEMMA SetClean ==
  ASSUME NEW q \in Req, NEW pc \in PC, NEW x \in BOOLEAN
  PROVE  /\ [q EXCEPT !.pc = pc, !.clean = x] \in Req
         /\ [q EXCEPT !.pc = pc, !.clean = x].pc = pc
  BY DEF Req

LEMMA SetMarked ==
  ASSUME NEW q \in Req, NEW pc \in PC, NEW A \in SUBSET Accts
  PROVE  /\ [q EXCEPT !.pc = pc, !.marked = A] \in Req
         /\ [q EXCEPT !.pc = pc, !.marked = A].pc = pc
  BY DEF Req

\* A request takes a record that waits for no session.
LEMMA PutReq ==
  ASSUME TypeOK, NEW r \in Slots, NEW q \in Req,
         q.pc \notin {"expect", "auth", "upsert", "holdings"},
         req' = [req EXCEPT ![r] = q]
  PROVE  ReqOK
  BY SetReq DEF Calmer, Pending

LEMMA SyncReads ==
  ASSUME TypeOK, NEW r \in Slots,
         \/ \E c \in Conns : SyncNow(r, c) \/ SweepNext(r, c)
         \/ SweepSelect(r) \/ SyncBound(r) \/ Fetch(r) \/ SnapDelete(r)
  PROVE  TypeOK' /\ Minor
  <1>0. SUFFICES ReqOK
    <2>1. UNCHANGED <<conn, acct, auth, history>>
      BY DEF SyncNow, SweepNext, SweepSelect, SyncBound, Fetch, SnapDelete
    <2> QED BY <2>1, OnlyReq
  <1>1. ASSUME NEW c \in Conns, SyncNow(r, c)
        PROVE  ReqOK
    BY <1>1, ReadingType, PutReq DEF SyncNow, Begins
  <1>2. ASSUME NEW c \in Conns, SweepNext(r, c)
        PROVE  ReqOK
    <2> DEFINE q == [Reading(r, c) EXCEPT !.due = @ \ {c}]
    <2>1. q \in Req /\ q.pc \in {"idle", "bound"}
      BY ReadingType, DropsDue
    <2>2. req' = [req EXCEPT ![r] = q]
      BY <1>2 DEF SweepNext
    <2> HIDE DEF q
    <2> QED BY <2>1, <2>2, PutReq
  <1>3. CASE SweepSelect(r)
    <2>1. PICK D \in SUBSET Conns : req' = [req EXCEPT ![r].due = D]
      BY <1>3 DEF SweepSelect
    <2> DEFINE q == [req[r] EXCEPT !.due = D]
    <2>2. q \in Req /\ q.pc = "idle"
      BY <1>3, ReqType, SetDue DEF SweepSelect, At
    <2>3. req' = [req EXCEPT ![r] = q]
      BY <2>1
    <2> HIDE DEF q
    <2> QED BY <2>2, <2>3, PutReq
  <1>4. CASE SyncBound(r)
    BY <1>4, DoneReq, GotoReq DEF SyncBound, PC
  <1>5. CASE Fetch(r)
    <2>1. ASSUME NEW P \in SUBSET Positions,
                 req' = [req EXCEPT ![r].pc = "snap", ![r].got = P]
          PROVE  ReqOK
      <3> DEFINE q == [req[r] EXCEPT !.pc = "snap", !.got = P]
      <3>1. q \in Req /\ q.pc = "snap"
        <4>1. req[r] \in Req /\ "snap" \in PC
          BY ReqType DEF PC
        <4> QED BY <4>1, SetGot
      <3>2. req' = [req EXCEPT ![r] = q]
        BY <2>1
      <3> HIDE DEF q
      <3> QED BY <3>1, <3>2, PutReq
    <2> QED BY <1>5, <2>1, DoneReq, GotoReq DEF Fetch, PC
  <1>6. CASE SnapDelete(r)
    <2> DEFINE q == [req[r] EXCEPT !.pc = "commit", !.clean = TRUE]
    <2>1. q \in Req /\ q.pc = "commit"
      <3>1. req[r] \in Req /\ "commit" \in PC
        BY ReqType DEF PC
      <3> QED BY <3>1, SetClean
    <2>2. req' = [req EXCEPT ![r] = q]
      BY <1>6 DEF SnapDelete
    <2> HIDE DEF q
    <2> QED BY <2>1, <2>2, PutReq
  <1> QED BY <1>1, <1>2, <1>3, <1>4, <1>5, <1>6

\* The requests that read and check before they write.
LEMMA Begun ==
  ASSUME TypeOK, NEW r \in Slots, NEW q \in Req, q.s = None, Begins(r, q),
         q.pc = "holdings" => q.c \in Conns, UNCHANGED <<conn, acct, auth, history>>
  PROVE  TypeOK' /\ Minor
  BY BeginsReq, OnlyReq

LEMMA AcctType ==
  ASSUME TypeOK, NEW a \in Accts
  PROVE  /\ acct[a].bound \in Conns \cup {None}
         /\ acct[a].broker \in Brokers \cup {None}
         /\ acct[a].ledger \subseteq Positions
  BY DEF TypeOK, Acct

LEMMA DeactivateStep ==
  ASSUME TypeOK, NEW r \in Slots, NEW c \in Conns, Deactivate(r, c)
  PROVE  TypeOK' /\ Minor
  <1> DEFINE q == [Idle EXCEPT !.pc = "sever", !.c = c]
  <1>1. q \in Req /\ q.s = None /\ q.pc # "holdings"
    BY DEF Idle, Req, PC
  <1>2. Begins(r, q) /\ UNCHANGED <<conn, acct, auth, history>>
    BY DEF Deactivate
  <1> HIDE DEF q
  <1> QED BY <1>1, <1>2, Begun

LEMMA ClearStep ==
  ASSUME TypeOK, NEW r \in Slots, NEW c \in Conns, Clear(r, c)
  PROVE  TypeOK' /\ Minor
  <1> DEFINE q == [Idle EXCEPT !.pc = "mark", !.c = c]
  <1>1. q \in Req /\ q.s = None /\ q.pc # "holdings"
    BY DEF Idle, Req, PC
  <1>2. Begins(r, q) /\ UNCHANGED <<conn, acct, auth, history>>
    BY DEF Clear
  <1> HIDE DEF q
  <1> QED BY <1>1, <1>2, Begun

LEMMA DeleteStep ==
  ASSUME TypeOK, NEW r \in Slots, NEW a \in Accts, Delete(r, a)
  PROVE  TypeOK' /\ Minor
  <1> DEFINE q == [Idle EXCEPT !.pc = "count", !.a = a]
  <1>1. q \in Req /\ q.s = None /\ q.pc # "holdings"
    BY DEF Idle, Req, PC
  <1>2. Begins(r, q) /\ UNCHANGED <<conn, acct, auth, history>>
    BY DEF Delete
  <1> HIDE DEF q
  <1> QED BY <1>1, <1>2, Begun

LEMMA RetagStep ==
  ASSUME TypeOK, NEW r \in Slots, NEW a \in Accts, NEW b \in Brokers, Retag(r, a, b)
  PROVE  TypeOK' /\ Minor
  <1> DEFINE q == [Idle EXCEPT !.pc = "retag", !.a = a, !.br = b]
  <1>1. q \in Req /\ q.s = None /\ q.pc # "holdings"
    BY DEF Idle, Req, PC
  <1>2. Begins(r, q) /\ UNCHANGED <<conn, acct, auth, history>>
    BY DEF Retag
  <1> HIDE DEF q
  <1> QED BY <1>1, <1>2, Begun

LEMMA AddEntryStep ==
  ASSUME TypeOK, NEW r \in Slots, NEW a \in Accts, NEW p \in Positions, AddEntry(r, a, p)
  PROVE  TypeOK' /\ Minor
  <1> DEFINE q == [Idle EXCEPT !.pc = "entry", !.a = a, !.got = {p}]
  <1>1. q \in Req /\ q.s = None /\ q.pc # "holdings"
    BY DEF Idle, Req, PC
  <1>2. Begins(r, q) /\ UNCHANGED <<conn, acct, auth, history>>
    BY DEF AddEntry
  <1> HIDE DEF q
  <1> QED BY <1>1, <1>2, Begun

LEMMA UnlinkStep ==
  ASSUME TypeOK, NEW r \in Slots, NEW a \in Accts, Unlink(r, a)
  PROVE  TypeOK' /\ Minor
  <1>1. PICK c \in Conns \cup {None} : c = acct[a].bound
    BY AcctType
  <1> DEFINE q == [Idle EXCEPT !.pc = "sever", !.c = c]
  <1>2. q \in Req /\ q.s = None /\ q.pc # "holdings"
    BY DEF Idle, Req, PC
  <1>3. Begins(r, q) /\ UNCHANGED <<conn, acct, auth, history>>
    BY <1>1 DEF Unlink
  <1> HIDE DEF q
  <1> QED BY <1>2, <1>3, Begun

LEMMA LinkReadStep ==
  ASSUME TypeOK, NEW r \in Slots, NEW a \in Accts, NEW c \in Conns, LinkRead(r, a, c)
  PROVE  TypeOK' /\ Minor
  <1>1. PICK b \in Brokers \cup {None} : b = acct[a].broker
    BY AcctType
  <1>2. PICK f \in BOOLEAN : f = (acct[a].ledger # {})
    OBVIOUS
  <1> DEFINE q == [Idle EXCEPT !.pc = "claim", !.a = a, !.c = c, !.br = b, !.flag = f]
  <1>3. q \in Req /\ q.s = None /\ q.pc # "holdings"
    BY DEF Idle, Req, PC
  <1>4. Begins(r, q) /\ UNCHANGED <<conn, acct, auth, history>>
    BY <1>1, <1>2 DEF LinkRead
  <1> HIDE DEF q
  <1> QED BY <1>3, <1>4, Begun

LEMMA TransferStep ==
  ASSUME TypeOK, NEW r \in Slots, NEW a \in Accts, NEW b \in Accts,
         NEW P \in SUBSET Positions, NEW flag \in BOOLEAN, Transfer(r, a, b, P, flag)
  PROVE  TypeOK' /\ Minor
  <1> DEFINE q == [Idle EXCEPT !.pc = "move", !.a = a, !.b = b, !.got = P, !.flag = flag]
  <1>1. q \in Req /\ q.s = None /\ q.pc # "holdings"
    BY DEF Idle, Req, PC
  <1>2. Begins(r, q) /\ UNCHANGED <<conn, acct, auth, history>>
    BY DEF Transfer
  <1> HIDE DEF q
  <1> QED BY <1>1, <1>2, Begun

LEMMA RescueStep ==
  ASSUME TypeOK, NEW r \in Slots, NEW a \in Accts, NEW b \in Accts, Rescue(r, a, b)
  PROVE  TypeOK' /\ Minor
  <1>1. PICK c \in Conns : c = acct[a].bound
    BY AcctType DEF Rescue, Rescuable
  <1> DEFINE q == [Idle EXCEPT !.pc = "holdings", !.a = a, !.b = b, !.c = c]
  <1>2. q \in Req /\ q.s = None /\ q.c \in Conns
    BY DEF Idle, Req, PC
  <1>3. Begins(r, q) /\ UNCHANGED <<conn, acct, auth, history>>
    BY <1>1 DEF Rescue
  <1> HIDE DEF q
  <1> QED BY <1>2, <1>3, Begun

\* A check between two statements, a request that dies.
LEMMA ChecksStep ==
  ASSUME TypeOK, Anchored, NEW r \in Slots,
         ClearMark(r) \/ LinkClaim(r) \/ DeleteCount(r) \/ RescueRead(r) \/ Dies(r)
  PROVE  TypeOK' /\ Minor
  <1>0. SUFFICES ReqOK
    <2>1. UNCHANGED <<conn, acct, auth, history>>
      BY DEF ClearMark, LinkClaim, DeleteCount, RescueRead, Dies
    <2> QED BY <2>1, OnlyReq
  <1>1. CASE ClearMark(r)
    <2>1. BoundTo(req[r].c) \in SUBSET Accts
      BY DEF BoundTo, LiveAccts
    <2>2. PICK A \in SUBSET Accts :
            req' = [req EXCEPT ![r].pc = "forget", ![r].marked = A]
      BY <1>1, <2>1 DEF ClearMark
    <2> DEFINE q == [req[r] EXCEPT !.pc = "forget", !.marked = A]
    <2>3. q \in Req /\ q.pc = "forget"
      <3>1. req[r] \in Req /\ "forget" \in PC
        BY ReqType DEF PC
      <3> QED BY <3>1, SetMarked
    <2>4. req' = [req EXCEPT ![r] = q]
      BY <2>2
    <2> HIDE DEF q
    <2> QED BY <2>3, <2>4, PutReq
  <1>2. CASE LinkClaim(r) \/ DeleteCount(r)
    BY <1>2, DoneReq, GotoReq DEF LinkClaim, DeleteCount, PC
  <1>3. CASE RescueRead(r) /\ ~Done(r)
    <2>1. conn[req[r].c].hold \in SUBSET Positions
      BY <1>3 DEF TypeOK, Conn, Anchored, RescueRead, At
    <2>2. PICK P \in SUBSET Positions :
            req' = [req EXCEPT ![r].pc = "rescue", ![r].got = P]
      BY <1>3, <2>1 DEF RescueRead
    <2> DEFINE q == [req[r] EXCEPT !.pc = "rescue", !.got = P]
    <2>3. q \in Req /\ q.pc = "rescue"
      <3>1. req[r] \in Req /\ "rescue" \in PC
        BY ReqType DEF PC
      <3> QED BY <3>1, SetGot
    <2>4. req' = [req EXCEPT ![r] = q]
      BY <2>2
    <2> HIDE DEF q
    <2> QED BY <2>3, <2>4, PutReq
  <1>4. CASE Dies(r)
    <2>1. Idle \in Req /\ Idle.pc = "idle"
      BY DEF Idle, Req, PC
    <2> QED BY <1>4, <2>1, PutReq DEF Dies
  <1> QED BY <1>1, <1>2, <1>3, <1>4, DoneReq

-----------------------------------------------------------------------------
(* Writes that no invariant below is about. *)

LEMMA PutConn ==
  ASSUME TypeOK, NEW c \in Conns, NEW x \in Conn, conn[c].st = "gone" => x.st = "gone",
         conn' = [conn EXCEPT ![c] = x]
  PROVE  ConnOK
  BY DEF TypeOK, ConnOK, GoneStays

LEMMA PutAcct ==
  ASSUME TypeOK, NEW a \in Accts, NEW x \in Acct, Shrinks(acct[a], x),
         acct' = [acct EXCEPT ![a] = x]
  PROVE  AcctOK
  BY DEF TypeOK, AcctOK, BindsNone, Shrinks

States3 == {"manual", "linked_live", "linked_stale"}

LEMMA EditAcct ==
  ASSUME NEW x \in Acct
  PROVE  /\ \A s \in States3 : /\ [x EXCEPT !.state = s] \in Acct
                                /\ Shrinks(x, [x EXCEPT !.state = s])
         /\ [x EXCEPT !.bound = None] \in Acct
         /\ [x EXCEPT !.bound = None].bound = None
         /\ \A P \in SUBSET Positions : /\ [x EXCEPT !.ledger = P] \in Acct
                                        /\ Shrinks(x, [x EXCEPT !.ledger = P])
         /\ \A b \in Brokers \cup {None} : /\ [x EXCEPT !.broker = b] \in Acct
                                           /\ Shrinks(x, [x EXCEPT !.broker = b])
  <1>1. \A s \in States3 : /\ [x EXCEPT !.state = s] \in Acct
                           /\ Shrinks(x, [x EXCEPT !.state = s])
    BY DEF Acct, Shrinks, States3
  <1>2. [x EXCEPT !.bound = None] \in Acct /\ [x EXCEPT !.bound = None].bound = None
    BY DEF Acct
  <1>3. \A P \in SUBSET Positions : /\ [x EXCEPT !.ledger = P] \in Acct
                                    /\ Shrinks(x, [x EXCEPT !.ledger = P])
    BY DEF Acct, Shrinks
  <1>4. \A b \in Brokers \cup {None} : /\ [x EXCEPT !.broker = b] \in Acct
                                       /\ Shrinks(x, [x EXCEPT !.broker = b])
    BY DEF Acct, Shrinks
  <1> QED BY <1>1, <1>2, <1>3, <1>4

LEMMA StatedOK ==
  ASSUME TypeOK, NEW c, NEW s \in States3, acct' = Stated(acct, c, s)
  PROVE  AcctOK
  <1>1. \A a \in Accts : acct'[a] = acct[a] \/ acct'[a] = [acct[a] EXCEPT !.state = s]
    BY DEF Stated
  <1>2. \A a \in Accts : acct[a] \in Acct
    BY DEF TypeOK
  <1>3. ASSUME NEW a \in Accts
        PROVE  acct'[a] \in Acct /\ Shrinks(acct[a], acct'[a])
    <2>1. CASE acct'[a] = acct[a]
      BY <1>2, <2>1 DEF Shrinks
    <2>2. CASE acct'[a] = [acct[a] EXCEPT !.state = s]
      <3>1. acct[a] \in Acct
        BY <1>2
      <3> QED BY <2>2, <3>1, EditAcct
    <2> QED BY <1>1, <2>1, <2>2
  <1>4. acct' = [a \in Accts |-> acct'[a]]
    BY DEF Stated
  <1>5. acct' \in [Accts -> Acct]
    BY <1>3, <1>4
  <1> QED BY <1>3, <1>5 DEF AcctOK, BindsNone

LEMMA RelinkStep ==
  ASSUME TypeOK, NEW r \in Slots, Relink(r)
  PROVE  TypeOK' /\ Minor
  <1>1. \A a \in Accts : \/ acct'[a] = acct[a]
                         \/ acct'[a] = [acct[a] EXCEPT !.state = "linked_live"]
    BY DEF Relink
  <1>2. \A a \in Accts : acct[a] \in Acct
    BY DEF TypeOK
  <1>3. ASSUME NEW a \in Accts
        PROVE  acct'[a] \in Acct /\ Shrinks(acct[a], acct'[a])
    <2>1. CASE acct'[a] = acct[a]
      BY <1>2, <2>1 DEF Shrinks
    <2>2. CASE acct'[a] = [acct[a] EXCEPT !.state = "linked_live"]
      BY <1>2, <2>2, EditAcct DEF States3
    <2> QED BY <1>1, <2>1, <2>2
  <1>4. acct' = [a \in Accts |-> acct'[a]]
    BY DEF Relink
  <1>5. acct' \in [Accts -> Acct]
    BY <1>3, <1>4
  <1>6. AcctOK
    BY <1>3, <1>5 DEF AcctOK, BindsNone
  <1> QED BY <1>6, DoneReq, ConnSame, AuthSame, Assembled DEF Relink

LEMMA EditConn ==
  ASSUME TypeOK, NEW c \in Conns
  PROVE  /\ [conn[c] EXCEPT !.session = "dead"] \in Conn
         /\ [conn[c] EXCEPT !.session = "dead"].st = conn[c].st
         /\ \A e \in BOOLEAN : /\ [conn[c] EXCEPT !.enabled = e] \in Conn
                               /\ [conn[c] EXCEPT !.enabled = e].st = conn[c].st
         /\ [conn[c] EXCEPT !.good = FALSE] \in Conn
         /\ [conn[c] EXCEPT !.good = FALSE].st = conn[c].st
  <1>1. conn[c] \in Conn
    BY DEF TypeOK
  <1>2. /\ [conn[c] EXCEPT !.session = "dead"] \in Conn
        /\ [conn[c] EXCEPT !.session = "dead"].st = conn[c].st
    BY <1>1 DEF Conn
  <1>3. \A e \in BOOLEAN : /\ [conn[c] EXCEPT !.enabled = e] \in Conn
                           /\ [conn[c] EXCEPT !.enabled = e].st = conn[c].st
    BY <1>1 DEF Conn
  <1>4. /\ [conn[c] EXCEPT !.good = FALSE] \in Conn
        /\ [conn[c] EXCEPT !.good = FALSE].st = conn[c].st
    BY <1>1 DEF Conn
  <1> QED BY <1>2, <1>3, <1>4

LEMMA MarkDeadStep ==
  ASSUME TypeOK, NEW r \in Slots, MarkDead(r)
  PROVE  TypeOK' /\ Minor
  <1>1. ConnOK
    <2>1. CASE req[r].c \in LiveConns
      <3>1. PICK c \in Conns : c = req[r].c
        BY <2>1 DEF LiveConns
      <3> DEFINE x == [conn[c] EXCEPT !.session = "dead"]
      <3>2. x \in Conn /\ x.st = conn[c].st
        BY EditConn
      <3>3. conn' = [conn EXCEPT ![c] = x]
        BY <2>1, <3>1 DEF MarkDead
      <3> HIDE DEF x
      <3> QED BY <3>2, <3>3, PutConn
    <2>2. CASE req[r].c \notin LiveConns
      BY <2>2, ConnSame DEF MarkDead
    <2> QED BY <2>1, <2>2
  <1> QED BY <1>1, DoneReq, AcctSame, AuthSame, Assembled DEF MarkDead

LEMMA EnabledStep ==
  ASSUME TypeOK, NEW r \in Slots,
         Sever(r) \/ \E c \in Conns : Activate(r, c)
  PROVE  TypeOK' /\ Minor
  <1>1. ASSUME NEW c \in Conns, NEW e \in BOOLEAN, conn' = [conn EXCEPT ![c].enabled = e]
        PROVE  ConnOK
    <2> DEFINE x == [conn[c] EXCEPT !.enabled = e]
    <2>1. x \in Conn /\ x.st = conn[c].st
      BY EditConn
    <2>2. conn' = [conn EXCEPT ![c] = x]
      BY <1>1
    <2> HIDE DEF x
    <2> QED BY <2>1, <2>2, PutConn
  <1>2. ASSUME NEW c \in Conns, Activate(r, c)
        PROVE  TypeOK' /\ Minor
    <2>1. ConnOK
      BY <1>1, <1>2 DEF Activate
    <2>2. AcctOK
      BY <1>2, StatedOK DEF Activate, States3
    <2> QED BY <1>2, <2>1, <2>2, ReqSame, AuthSame, Assembled DEF Activate
  <1>3. CASE Sever(r) /\ req[r].c \in LiveConns
    <2>1. ConnOK
      BY <1>1, <1>3 DEF Sever, LiveConns
    <2>2. AcctOK
      BY <1>3, StatedOK DEF Sever, Severed, States3
    <2> QED BY <1>3, <2>1, <2>2, DoneReq, AuthSame, Assembled DEF Sever
  <1>4. CASE Sever(r) /\ req[r].c \notin LiveConns
    BY <1>4, ConnSame, AcctSame, DoneReq, AuthSame, Assembled DEF Sever
  <1> QED BY <1>2, <1>3, <1>4


\* A table of accounts that binds none anew.
Fine(A) == A \in [Accts -> Acct] /\ \A a \in Accts : Shrinks(acct[a], A[a])

LEMMA FineAcct == ASSUME Fine(acct') PROVE AcctOK
  BY DEF Fine, AcctOK, BindsNone

LEMMA FineSame == TypeOK => Fine(acct)
  BY DEF Fine, TypeOK, Shrinks

LEMMA FineSet ==
  ASSUME NEW A, Fine(A), NEW a \in Accts, NEW x \in Acct, Shrinks(A[a], x)
  PROVE  Fine([A EXCEPT ![a] = x])
  BY DEF Fine, Shrinks

LEMMA FineSetNull ==
  ASSUME NEW A, Fine(A), NEW c
  PROVE  Fine(SetNull(c, A))
  <1> DEFINE B == SetNull(c, A)
  <1>1. ASSUME NEW a \in Accts
        PROVE  B[a] \in Acct /\ Shrinks(acct[a], B[a])
    <2>1. A[a] \in Acct /\ Shrinks(acct[a], A[a])
      BY DEF Fine
    <2>2. B[a] = A[a] \/ B[a] = [A[a] EXCEPT !.bound = None]
      BY DEF SetNull
    <2>3. CASE B[a] = A[a]
      BY <2>1, <2>3
    <2>4. CASE B[a] = [A[a] EXCEPT !.bound = None]
      <3>1. B[a] \in Acct /\ B[a].bound = None
        BY <2>1, <2>4, EditAcct
      <3> QED BY <3>1 DEF Shrinks
    <2> QED BY <2>2, <2>3, <2>4
  <1>2. B = [a \in Accts |-> B[a]]
    BY DEF SetNull
  <1> HIDE DEF B
  <1>3. Fine(B)
    BY <1>1, <1>2 DEF Fine
  <1> QED BY <1>3 DEF B

LEMMA FineRemove ==
  ASSUME NEW A, Fine(A), NEW a \in Accts
  PROVE  Fine(Remove(a, A))
  <1> DEFINE x == [NoAcct EXCEPT !.st = "gone"]
  <1>1. x \in Acct /\ x.st = "gone"
    BY DEF NoAcct, Acct
  <1>2. Remove(a, A) = [A EXCEPT ![a] = x]
    BY DEF Remove
  <1> HIDE DEF x
  <1>3. Shrinks(A[a], x)
    BY <1>1 DEF Shrinks
  <1>4. Fine([A EXCEPT ![a] = x])
    BY <1>1, <1>3, FineSet
  <1> QED BY <1>2, <1>4

LEMMA FineLedger ==
  ASSUME NEW A, Fine(A), NEW a \in Accts, NEW P \in SUBSET Positions
  PROVE  Fine([A EXCEPT ![a].ledger = P])
  <1>1. A[a] \in Acct
    BY DEF Fine
  <1> DEFINE x == [A[a] EXCEPT !.ledger = P]
  <1>2. x \in Acct /\ Shrinks(A[a], x)
    BY <1>1, EditAcct
  <1>3. [A EXCEPT ![a].ledger = P] = [A EXCEPT ![a] = x]
    OBVIOUS
  <1> HIDE DEF x
  <1> QED BY <1>2, <1>3, FineSet

LEMMA ForgetOK ==
  ASSUME TypeOK, NEW c \in Conns, conn' = Forget(c)
  PROVE  ConnOK /\ conn'[c].st = "gone"
  <1> DEFINE x == [NoConn EXCEPT !.st = "gone"]
  <1>1. x \in Conn /\ x.st = "gone"
    BY DEF NoConn, Conn
  <1>2. conn' = [conn EXCEPT ![c] = x]
    BY DEF Forget
  <1> HIDE DEF x
  <1> QED BY <1>1, <1>2, PutConn DEF TypeOK

LEMMA ClearCommitStep ==
  ASSUME TypeOK, NEW r \in Slots, ClearCommit(r)
  PROVE  TypeOK' /\ Minor
  <1>1. CASE req[r].c \in LiveConns
    <2>1. PICK c \in Conns : c = req[r].c
      BY <1>1 DEF LiveConns
    <2> DEFINE M == req[r].marked
               A == [a \in Accts |-> IF a \in M \cap BoundTo(c)
                                     THEN [acct[a] EXCEPT !.state = "linked_stale"]
                                     ELSE acct[a]]
    <2>2. Fine(A)
      <3>1. ASSUME NEW a \in Accts
            PROVE  A[a] \in Acct /\ Shrinks(acct[a], A[a])
        <4>1. acct[a] \in Acct
          BY DEF TypeOK
        <4>2. CASE A[a] = acct[a]
          BY <4>1, <4>2 DEF Shrinks
        <4>3. CASE A[a] = [acct[a] EXCEPT !.state = "linked_stale"]
          BY <4>1, <4>3, EditAcct DEF States3
        <4> QED BY <4>2, <4>3
      <3> QED BY <3>1 DEF Fine
    <2>3. acct' = SetNull(c, A) /\ conn' = Forget(c)
      BY <1>1, <2>1 DEF ClearCommit, Cleared
    <2> HIDE DEF A
    <2>4. AcctOK
      BY <2>2, <2>3, FineSetNull, FineAcct
    <2>5. ConnOK
      BY <2>3, ForgetOK
    <2> QED BY <2>4, <2>5, DoneReq, AuthSame, Assembled DEF ClearCommit
  <1>2. CASE req[r].c \notin LiveConns
    BY <1>2, ConnSame, AcctSame, DoneReq, AuthSame, Assembled DEF ClearCommit
  <1> QED BY <1>1, <1>2

LEMMA CreateStep ==
  ASSUME TypeOK, NEW r \in Slots, NEW b \in Brokers, Create(r, b)
  PROVE  TypeOK' /\ Minor
  <1> DEFINE x == [NoAcct EXCEPT !.st = "live", !.broker = b]
  <1>1. x \in Acct /\ x.bound = None
    BY DEF NoAcct, Acct
  <1>2. PICK a \in Accts : acct' = [acct EXCEPT ![a] = x]
    BY DEF Create
  <1> HIDE DEF x
  <1>3. AcctOK
    BY <1>1, <1>2, PutAcct DEF Shrinks
  <1> QED BY <1>3, ReqSame, ConnSame, AuthSame, Assembled DEF Create

LEMMA DeleteWriteStep ==
  ASSUME TypeOK, NEW r \in Slots, DeleteWrite(r)
  PROVE  TypeOK' /\ Minor
  <1>1. AcctOK
    <2>1. CASE req[r].a \in LiveAccts
      BY <2>1, FineSame, FineRemove, FineAcct DEF DeleteWrite, LiveAccts
    <2>2. CASE req[r].a \notin LiveAccts
      BY <2>2, AcctSame DEF DeleteWrite
    <2> QED BY <2>1, <2>2
  <1> QED BY <1>1, DoneReq, ConnSame, AuthSame, Assembled DEF DeleteWrite

LEMMA RetagWriteStep ==
  ASSUME TypeOK, NEW r \in Slots, RetagWrite(r)
  PROVE  TypeOK' /\ Minor
  <1>1. AcctOK
    <2>1. CASE req[r].a \in LiveAccts
      <3>1. PICK a \in Accts : a = req[r].a
        BY <2>1 DEF LiveAccts
      <3>2. PICK b \in Brokers \cup {None} : b = req[r].br
        BY ReqType DEF Req
      <3> DEFINE x == [acct[a] EXCEPT !.broker = b]
      <3>3. acct' = [acct EXCEPT ![a] = x]
        BY <2>1, <3>1, <3>2 DEF RetagWrite
      <3>4. acct[a] \in Acct
        BY DEF TypeOK
      <3>5. x \in Acct /\ Shrinks(acct[a], x)
        BY <3>4, EditAcct
      <3> HIDE DEF x
      <3> QED BY <3>3, <3>5, PutAcct
    <2>2. CASE req[r].a \notin LiveAccts
      BY <2>2, AcctSame DEF RetagWrite
    <2> QED BY <2>1, <2>2
  <1> QED BY <1>1, DoneReq, ConnSame, AuthSame, Assembled DEF RetagWrite

LEMMA EntryWriteStep ==
  ASSUME TypeOK, NEW r \in Slots, EntryWrite(r)
  PROVE  TypeOK' /\ Minor
  <1>1. AcctOK
    <2>1. CASE req[r].a \in LiveAccts
      <3>1. PICK a \in Accts : a = req[r].a
        BY <2>1 DEF LiveAccts
      <3>2. acct[a].ledger \cup req[r].got \in SUBSET Positions
        BY AcctType, ReqType DEF Req
      <3>3. acct' = [acct EXCEPT ![a].ledger = acct[a].ledger \cup req[r].got]
        BY <2>1, <3>1 DEF EntryWrite
      <3> QED BY <3>2, <3>3, FineSame, FineLedger, FineAcct
    <2>2. CASE req[r].a \notin LiveAccts
      BY <2>2, AcctSame DEF EntryWrite
    <2> QED BY <2>1, <2>2
  <1> QED BY <1>1, DoneReq, ConnSame, AuthSame, Assembled DEF EntryWrite

LEMMA TransferWriteStep ==
  ASSUME TypeOK, NEW r \in Slots, TransferWrite(r)
  PROVE  TypeOK' /\ Minor
  <1>1. AcctOK
    <2>1. CASE UNCHANGED acct
      BY <2>1, AcctSame
    <2>2. CASE ~UNCHANGED acct
      <3>1. {req[r].a, req[r].b} \subseteq LiveAccts
        BY <2>2 DEF TransferWrite
      <3>2. PICK a \in Accts, b \in Accts : a = req[r].a /\ b = req[r].b
        BY <3>1 DEF LiveAccts
      <3> DEFINE P == req[r].got \cap acct[a].ledger
                 A == [acct EXCEPT ![a].ledger = acct[a].ledger \ P]
                 M == [A EXCEPT ![b].ledger = A[b].ledger \cup P]
      <3>3. P \in SUBSET Positions /\ acct[a].ledger \ P \in SUBSET Positions
        BY AcctType
      <3>4. Fine(A)
        BY <3>3, FineSame, FineLedger
      <3>5. A[b].ledger \cup P \in SUBSET Positions
        <4>1. A[b] \in Acct
          BY <3>4 DEF Fine
        <4> HIDE DEF A
        <4> QED BY <3>3, <4>1 DEF Acct
      <3>6. Fine(M)
        <4> HIDE DEF A, P
        <4> QED BY <3>4, <3>5, FineLedger
      <3>7. Moved(a, b, P) = M
        BY DEF Moved
      <3>8. acct' = Remove(a, M) \/ acct' = M
        BY <2>2, <3>2, <3>7 DEF TransferWrite
      <3> HIDE DEF M
      <3> QED BY <3>6, <3>8, FineRemove, FineAcct
    <2> QED BY <2>1, <2>2
  <1> QED BY <1>1, DoneReq, ConnSame, AuthSame, Assembled DEF TransferWrite

LEMMA SnapCommitStep ==
  ASSUME TypeOK, NEW r \in Slots, SnapCommit(r)
  PROVE  TypeOK' /\ Minor
  <1> DEFINE c == req[r].c
             fits == c \in LiveConns /\ Survivors(r) \cap req[r].got = {}
  <1>1. ConnOK
    <2>1. CASE fits
      <3>1. PICK k \in Conns : k = c
        BY <2>1 DEF LiveConns
      <3>2. conn[k] \in Conn /\ req[r].got \in SUBSET Positions
        BY ReqType DEF TypeOK, Req
      <3>3. PICK P \in SUBSET Positions : P = Survivors(r) \cup req[r].got
        BY <3>1, <3>2 DEF Survivors, Conn
      <3> DEFINE x == [conn[k] EXCEPT !.hold = P, !.session = "live"]
      <3>4. x \in Conn /\ x.st = conn[k].st
        BY <3>2 DEF Conn
      <3>5. conn' = [conn EXCEPT ![k] = x]
        BY <2>1, <3>1, <3>3 DEF SnapCommit, Snapshot
      <3> HIDE DEF x
      <3> QED BY <3>4, <3>5, PutConn
    <2>2. CASE ~fits
      <3>1. conn' = conn
        BY <2>2 DEF SnapCommit
      <3> QED BY <3>1, ConnSame
    <2> QED BY <2>1, <2>2
  <1>2. ReqOK
    <2>1. ASSUME NEW q \in Slots
          PROVE  \/ req'[q] = Finished(r) \/ req'[q] = req[q]
                 \/ req'[q] = [req[q] EXCEPT !.clean = FALSE]
      BY DEF SnapCommit
    <2>2. ASSUME NEW q \in Slots
          PROVE  req'[q] \in Req /\ Calmer(req[q], req'[q])
      <3>1. req[q] \in Req
        BY ReqType
      <3>2. CASE req'[q] = Finished(r)
        BY <3>2, FinishedType DEF Calmer, Pending
      <3>3. CASE req'[q] = req[q]
        BY <3>1, <3>3 DEF Calmer
      <3>4. CASE req'[q] = [req[q] EXCEPT !.clean = FALSE]
        <4>1. /\ req'[q] \in Req /\ req'[q].pc = req[q].pc
              /\ req'[q].s = req[q].s /\ req'[q].c = req[q].c
          BY <3>1, <3>4 DEF Req
        <4> QED BY <4>1 DEF Calmer, Pending
      <3> QED BY <2>1, <3>2, <3>3, <3>4
    <2>3. req' = [q \in Slots |-> req'[q]]
      BY DEF SnapCommit
    <2>4. req' \in [Slots -> Req]
      BY <2>2, <2>3
    <2> QED BY <2>2, <2>4 DEF ReqOK, Calm
  <1> QED BY <1>1, <1>2, AcctSame, AuthSame, Assembled DEF SnapCommit

LEMMA WorldStep ==
  ASSUME TypeOK, World
  PROVE  TypeOK' /\ Minor
  <1>1. ASSUME NEW s \in States, NEW b \in Brokers, Initiate(s, b)
        PROVE  TypeOK' /\ Minor
    <2> DEFINE x == [st |-> "issued", broker |-> b]
    <2>1. x \in Auth
      BY DEF Auth
    <2>2. auth' = [auth EXCEPT ![s] = x] /\ auth[s].st = "free"
      BY <1>1 DEF Initiate
    <2> HIDE DEF x
    <2>3. AuthOK
      BY <2>1, <2>2 DEF AuthOK, SpentStays, TypeOK
    <2> QED BY <1>1, <2>3, ReqSame, ConnSame, AcctSame, Assembled DEF Initiate
  <1>2. ASSUME NEW s \in States, StateExpires(s)
        PROVE  TypeOK' /\ Minor
    <2> DEFINE x == [auth[s] EXCEPT !.st = "expired"]
    <2>1. x \in Auth
      <3>1. auth[s] \in Auth
        BY DEF TypeOK
      <3> QED BY <3>1 DEF Auth
    <2>2. auth' = [auth EXCEPT ![s] = x] /\ auth[s].st = "issued"
      BY <1>2 DEF StateExpires
    <2> HIDE DEF x
    <2>3. AuthOK
      BY <2>1, <2>2 DEF AuthOK, SpentStays, TypeOK
    <2> QED BY <1>2, <2>3, ReqSame, ConnSame, AcctSame, Assembled DEF StateExpires
  <1>3. ASSUME NEW d \in Demats, TokenDies(d)
        PROVE  TypeOK' /\ Minor
    <2>1. ConnOK
      <3>1. ASSUME NEW c \in Conns
            PROVE  conn'[c] \in Conn /\ conn'[c].st = conn[c].st
        <4>1. conn'[c] = conn[c] \/ conn'[c] = [conn[c] EXCEPT !.good = FALSE]
          BY <1>3 DEF TokenDies
        <4>2. conn[c] \in Conn
          BY DEF TypeOK
        <4> QED BY <4>1, <4>2, EditConn
      <3>2. conn' = [c \in Conns |-> conn'[c]]
        BY <1>3 DEF TokenDies
      <3>3. conn' \in [Conns -> Conn]
        BY <3>1, <3>2
      <3> QED BY <3>1, <3>3 DEF ConnOK, GoneStays
    <2>2. ReqOK
      <3>1. ASSUME NEW q \in Slots
            PROVE  req'[q] \in Req /\ Calmer(req[q], req'[q])
        <4>1. req'[q] = req[q] \/ req'[q] = [req[q] EXCEPT !.good = FALSE]
          BY <1>3 DEF TokenDies
        <4>2. req[q] \in Req
          BY ReqType
        <4>3. /\ req'[q] \in Req /\ req'[q].pc = req[q].pc
              /\ req'[q].s = req[q].s /\ req'[q].c = req[q].c
          BY <4>1, <4>2 DEF Req
        <4> QED BY <4>3 DEF Calmer, Pending
      <3>2. req' = [q \in Slots |-> req'[q]]
        BY <1>3 DEF TokenDies
      <3>3. req' \in [Slots -> Req]
        BY <3>1, <3>2
      <3> QED BY <3>1, <3>3 DEF ReqOK, Calm
    <2> QED BY <1>3, <2>1, <2>2, AcctSame, AuthSame, Assembled DEF TokenDies
  <1> QED BY <1>1, <1>2, <1>3 DEF World

-----------------------------------------------------------------------------
(* The four actions the invariants are about. *)

LEMMA CompleteTypes ==
  ASSUME TypeOK, NEW r \in Slots, NEW s \in States, NEW b \in Brokers,
         NEW c \in Conns \cup {None}, Complete(r, s, b, c)
  PROVE  /\ TypeOK' /\ UNCHANGED <<conn, acct, history>>
         /\ \A q \in Slots : q # r => req'[q] = req[q]
         /\ req'[r].s = s /\ req'[r].pc \in {"auth", "expect"}
         /\ auth[s].st = "issued" /\ auth'[s].st = "consumed"
         /\ \A t \in States : t # s => auth'[t] = auth[t]
  <1>1. PICK pc \in {"auth", "expect"} : pc = IF c = None THEN "auth" ELSE "expect"
    OBVIOUS
  <1> DEFINE q == [Idle EXCEPT !.pc = pc, !.s = s, !.br = b, !.c = c]
  <1>2. q \in Req /\ q.s = s /\ q.pc = pc
    BY DEF Idle, Req, PC
  <1>3. req' = [req EXCEPT ![r] = q]
    BY <1>1 DEF Complete, Begins
  <1> HIDE DEF q
  <1> DEFINE x == [auth[s] EXCEPT !.st = "consumed"]
  <1>4. x \in Auth /\ x.st = "consumed"
    <2>1. auth[s] \in Auth
      BY DEF TypeOK
    <2> QED BY <2>1 DEF Auth
  <1>5. auth' = [auth EXCEPT ![s] = x] /\ auth[s].st = "issued"
    BY DEF Complete, Consumable
  <1> HIDE DEF x
  <1>6. UNCHANGED <<conn, acct, history>>
    BY DEF Complete
  <1>7. TypeOK'
    BY <1>2, <1>3, <1>4, <1>5, <1>6 DEF TypeOK, history
  <1> QED BY <1>2, <1>3, <1>4, <1>5, <1>6, <1>7 DEF TypeOK

LEMMA SessionType ==
  ASSUME TypeOK, NEW r \in Slots, NEW c \in Conns
  PROVE  Session(c, r) \in Conn
  <1>1. conn[c] \in Conn /\ req[r] \in Req
    BY DEF TypeOK
  <1>2. req[r].d \in Demats \cup {None} /\ req[r].good \in BOOLEAN
    BY <1>1 DEF Req
  <1> QED BY <1>1, <1>2 DEF Session, Conn

LEMMA UpsertTypes ==
  ASSUME TypeOK, NEW r \in Slots, Upsert(r)
  PROVE  /\ TypeOK' /\ Calm /\ GoneStays
         /\ UNCHANGED <<acct, auth, rescues>>
         /\ req'[r].pc = "relink"
  <1>1. PICK c \in Conns :
          /\ conn[c].st # "gone"
          /\ conn' = [conn EXCEPT ![c] = Session(c, r)]
          /\ req' = [req EXCEPT ![r].pc = "relink", ![r].c = c]
    BY DEF Upsert, Stored, LiveConns
  <1>2. ConnOK
    BY <1>1, SessionType, PutConn
  <1> DEFINE q == [req[r] EXCEPT !.pc = "relink", !.c = c]
  <1>3. q \in Req /\ q.pc = "relink"
    <2>1. req[r] \in Req
      BY ReqType
    <2> QED BY <2>1 DEF Req, PC
  <1>4. req' = [req EXCEPT ![r] = q]
    BY <1>1
  <1> HIDE DEF q
  <1>5. ReqOK
    BY <1>3, <1>4, PutReq
  <1>6. spent' \in [States -> Nat]
    BY DEF Upsert, TypeOK
  <1>7. UNCHANGED <<acct, auth, rescues>>
    BY DEF Upsert
  <1>8. TypeOK'
    BY <1>2, <1>5, <1>6, <1>7 DEF TypeOK, ConnOK, ReqOK
  <1> QED BY <1>2, <1>3, <1>4, <1>5, <1>7, <1>8 DEF ConnOK, ReqOK, TypeOK

\* The unique index: the account that gets the connection is the only one to have it.
LEMMA LinkTypes ==
  ASSUME TypeOK, NEW r \in Slots, Link(r)
  PROVE  /\ TypeOK' /\ Calm /\ UNCHANGED <<conn, auth, history>>
         /\ \/ acct' = acct
            \/ \E a \in Accts : \E c \in Conns :
                 /\ \A b \in Accts : b # a => acct'[b] = acct[b]
                 /\ acct'[a].bound = c /\ BoundTo(c) \subseteq {a}
  <1>1. ReqOK /\ UNCHANGED <<conn, auth, history>>
    BY DoneReq DEF Link
  <1>2. CASE acct' = acct
    BY <1>1, <1>2 DEF TypeOK, ReqOK, history
  <1>3. CASE acct' # acct
    <2>1. PICK a \in Accts, c \in Conns :
            /\ a = req[r].a /\ c = req[r].c /\ BoundTo(c) \subseteq {a}
            /\ acct' = [acct EXCEPT ![a] = Linked(a, r)]
      BY <1>3 DEF Link, UniqueBinding, LiveAccts, LiveConns
    <2>2. Linked(a, r) \in Acct /\ Linked(a, r).bound = c
      <3>1. acct[a] \in Acct
        BY DEF TypeOK
      <3>2. PICK P \in SUBSET Positions : P = IF req[r].flag THEN {} ELSE acct[a].ledger
        BY AcctType
      <3>3. Linked(a, r) = [acct[a] EXCEPT !.bound = c, !.state = "linked_live",
                                           !.ledger = P]
        BY <2>1, <3>2 DEF Linked
      <3> QED BY <3>1, <3>3 DEF Acct
    <2>3. acct' \in [Accts -> Acct]
      BY <2>1, <2>2 DEF TypeOK
    <2>4. TypeOK'
      BY <1>1, <2>3 DEF TypeOK, ReqOK, history
    <2>5. acct'[a].bound = c /\ \A b \in Accts : b # a => acct'[b] = acct[b]
      BY <2>1, <2>2 DEF TypeOK
    <2> QED BY <1>1, <2>1, <2>4, <2>5 DEF ReqOK
  <1> QED BY <1>2, <1>3

LEMMA RescueTypes ==
  ASSUME TypeOK, NEW r \in Slots, RescueCommit(r)
  PROVE  /\ TypeOK' /\ Calm /\ GoneStays /\ BindsNone /\ UNCHANGED <<auth, spent>>
         /\ \/ rescues' = rescues
            \/ \E c \in LiveConns : /\ rescues' = [rescues EXCEPT ![c] = @ + 1]
                                    /\ conn'[c].st = "gone"
  <1>1. ReqOK /\ UNCHANGED <<auth, spent>>
    BY DoneReq DEF RescueCommit
  <1>2. CASE ~Intact(r)
    <2>1. UNCHANGED <<conn, acct, rescues>>
      BY <1>2 DEF RescueCommit
    <2>2. ConnOK /\ AcctOK
      BY <2>1, ConnSame, AcctSame
    <2> QED BY <1>1, <2>1, <2>2 DEF TypeOK, ReqOK, ConnOK, AcctOK
  <1>3. CASE Intact(r)
    <2>1. PICK a \in Accts, b \in Accts, c \in LiveConns :
            a = req[r].a /\ b = req[r].b /\ c = req[r].c
      BY <1>3 DEF Intact, LiveAccts
    <2>2. PICK P \in SUBSET Positions : P = acct[b].ledger \cup req[r].got
      BY AcctType, ReqType DEF Req
    <2> DEFINE paid == [acct EXCEPT ![b].ledger = P]
    <2>3. conn' = Forget(c) /\ acct' = Remove(a, SetNull(c, paid))
      BY <1>3, <2>1, <2>2 DEF RescueCommit, Rescued
    <2>4. Fine(paid)
      BY FineSame, FineLedger
    <2> HIDE DEF paid
    <2>5. AcctOK
      <3>1. Fine(SetNull(c, paid))
        BY <2>4, FineSetNull
      <3> QED BY <2>3, <3>1, FineRemove, FineAcct
    <2>6. ConnOK /\ conn'[c].st = "gone"
      BY <2>1, <2>3, ForgetOK DEF LiveConns
    <2>7. rescues' = [rescues EXCEPT ![c] = @ + 1]
      BY <1>3, <2>1 DEF RescueCommit
    <2>8. rescues' \in [Conns -> Nat]
      BY <2>7 DEF TypeOK, LiveConns
    <2> QED BY <1>1, <2>5, <2>6, <2>7, <2>8 DEF TypeOK, ReqOK, ConnOK, AcctOK
  <1> QED BY <1>2, <1>3

-----------------------------------------------------------------------------
(* The invariant. *)

\* A consumed state has one login under way or one session stored, not both.
LoginsApart ==
  /\ \A r \in Slots : Pending(req[r]) =>
       auth[req[r].s].st = "consumed" /\ spent[req[r].s] = 0
  /\ \A r, q \in Slots :
       Pending(req[r]) /\ Pending(req[q]) /\ req[r].s = req[q].s => r = q

OneEach ==
  \A a, b \in LiveAccts :
    acct[a].bound \in Conns /\ acct[a].bound = acct[b].bound => a = b

IInv == /\ TypeOK /\ Anchored
        /\ StateSpentOnce /\ LoginsApart
        /\ OneEach /\ RescuedOnce

LEMMA CalmAnchored == ASSUME Anchored, Calm PROVE Anchored'
  BY DEF Anchored, Calm, Calmer

LEMMA CalmLogins ==
  ASSUME TypeOK, LoginsApart, Calm, SpentStays,
         \A r \in Slots : Pending(req'[r]) => spent'[req'[r].s] = spent[req'[r].s]
  PROVE  LoginsApart'
  <1>1. \A r \in Slots : Pending(req'[r]) =>
          Pending(req[r]) /\ req'[r].s = req[r].s /\ req[r].s \in States
    BY DEF Calm, Calmer, Pending
  <1>2. ASSUME NEW r \in Slots, Pending(req'[r])
        PROVE  auth'[req'[r].s].st = "consumed" /\ spent'[req'[r].s] = 0
    BY <1>1, <1>2 DEF LoginsApart, SpentStays
  <1>3. ASSUME NEW r \in Slots, NEW q \in Slots, Pending(req'[r]), Pending(req'[q]),
               req'[r].s = req'[q].s
        PROVE  r = q
    <2>1. Pending(req[r]) /\ Pending(req[q]) /\ req[r].s = req[q].s
      BY <1>1, <1>3
    <2> QED BY <2>1 DEF LoginsApart
  <1>4. \A r \in Slots : Pending(req[r])' <=> Pending(req'[r])
    BY DEF Pending
  <1> QED BY <1>2, <1>3, <1>4 DEF LoginsApart

LEMMA ShrinkEach ==
  ASSUME OneEach, BindsNone
  PROVE  OneEach'
  <1> SUFFICES ASSUME NEW a \in LiveAccts', NEW b \in LiveAccts',
                      acct'[a].bound \in Conns, acct'[a].bound = acct'[b].bound
               PROVE  a = b
    BY DEF OneEach
  <1>1. acct'[a].bound # None
    BY ConstantsAssumption
  <1>2. /\ a \in LiveAccts /\ b \in LiveAccts
        /\ acct[a].bound = acct'[a].bound /\ acct[b].bound = acct'[b].bound
    BY <1>1 DEF LiveAccts, BindsNone, Shrinks
  <1> QED BY <1>2 DEF OneEach

LEMMA GoneRescued ==
  ASSUME RescuedOnce, GoneStays, UNCHANGED rescues
  PROVE  RescuedOnce'
  BY DEF RescuedOnce, GoneStays

LEMMA MinorKeeps ==
  ASSUME IInv, TypeOK', Minor
  PROVE  IInv'
  <1>1. Anchored' /\ LoginsApart'
    BY CalmAnchored, CalmLogins DEF IInv, Minor, history
  <1>2. StateSpentOnce'
    BY DEF IInv, Minor, StateSpentOnce, SpentStays, history
  <1>3. OneEach' /\ RescuedOnce'
    BY ShrinkEach, GoneRescued DEF IInv, Minor, history
  <1> QED BY <1>1, <1>2, <1>3 DEF IInv

LEMMA CompleteKeeps ==
  ASSUME IInv, NEW r \in Slots, NEW s \in States, NEW b \in Brokers,
         NEW c \in Conns \cup {None}, Complete(r, s, b, c)
  PROVE  IInv'
  <1>1. /\ TypeOK' /\ UNCHANGED <<conn, acct, spent, rescues>>
        /\ \A q \in Slots : q # r => req'[q] = req[q]
        /\ req'[r].s = s /\ req'[r].pc \in {"auth", "expect"}
        /\ auth[s].st = "issued" /\ auth'[s].st = "consumed"
        /\ \A t \in States : t # s => auth'[t] = auth[t]
    BY CompleteTypes DEF IInv, history
  <1>2. \A q \in Slots : Pending(req[q]) => req[q].s # s
    BY <1>1 DEF IInv, LoginsApart
  <1>3. spent[s] = 0
    BY <1>1 DEF IInv, StateSpentOnce, TypeOK
  <1>4. Anchored'
    BY <1>1 DEF IInv, Anchored
  <1>5. \A t \in States : auth[t].st = "consumed" => auth'[t].st = "consumed"
    BY <1>1
  <1>6. StateSpentOnce'
    BY <1>1, <1>5 DEF IInv, StateSpentOnce
  <1>7. LoginsApart'
    <2>1. ASSUME NEW q \in Slots, Pending(req'[q])
          PROVE  /\ auth'[req'[q].s].st = "consumed" /\ spent'[req'[q].s] = 0
                 /\ q # r => Pending(req[q]) /\ req'[q].s = req[q].s /\ req[q].s # s
      <3>1. CASE q = r
        BY <1>1, <1>3, <3>1
      <3>2. CASE q # r
        <4>1. Pending(req[q]) /\ req'[q] = req[q] /\ req[q].s \in States
          BY <1>1, <2>1, <3>2 DEF Pending
        <4> QED BY <1>1, <1>2, <1>5, <4>1 DEF IInv, LoginsApart
      <3> QED BY <3>1, <3>2
    <2>2. ASSUME NEW q \in Slots, NEW t \in Slots, Pending(req'[q]), Pending(req'[t]),
                 req'[q].s = req'[t].s
          PROVE  q = t
      <3>1. CASE q # r /\ t # r
        BY <2>1, <2>2, <3>1 DEF IInv, LoginsApart
      <3>2. CASE q = r \/ t = r
        BY <1>1, <2>1, <2>2, <3>2
      <3> QED BY <3>1, <3>2
    <2>3. \A q \in Slots : Pending(req[q])' <=> Pending(req'[q])
      BY DEF Pending
    <2> QED BY <2>1, <2>2, <2>3 DEF LoginsApart
  <1>8. OneEach' /\ RescuedOnce'
    BY <1>1 DEF IInv, OneEach, LiveAccts, RescuedOnce
  <1> QED BY <1>1, <1>4, <1>6, <1>7, <1>8 DEF IInv

LEMMA UpsertKeeps ==
  ASSUME IInv, NEW r \in Slots, Upsert(r)
  PROVE  IInv'
  <1>1. /\ TypeOK' /\ Calm /\ GoneStays /\ UNCHANGED <<acct, auth, rescues>>
        /\ req'[r].pc = "relink"
    BY UpsertTypes DEF IInv
  <1>2. /\ req[r].pc = "upsert"
        /\ \A s \in States : spent'[s] = spent[s] + (IF s = req[r].s THEN 1 ELSE 0)
    BY DEF Upsert, At
  <1>3. SpentStays
    BY <1>1 DEF SpentStays
  <1>4. ASSUME NEW q \in Slots, Pending(req'[q])
        PROVE  spent'[req'[q].s] = spent[req'[q].s]
    <2>1. Pending(req[q]) /\ req'[q].s = req[q].s /\ req[q].s \in States
      BY <1>1, <1>4 DEF Calm, Calmer, Pending
    <2>2. q # r
      BY <1>1, <1>4 DEF Pending
    <2>3. req[q].s # req[r].s
      <3>1. SUFFICES ASSUME req[q].s = req[r].s PROVE FALSE
        OBVIOUS
      <3>2. Pending(req[r])
        BY <1>2, <2>1, <3>1 DEF Pending
      <3> QED BY <2>1, <2>2, <3>1, <3>2 DEF IInv, LoginsApart
    <2>4. spent[req[q].s] \in Nat
      BY <2>1 DEF IInv, TypeOK
    <2> QED BY <1>2, <2>1, <2>3, <2>4
  <1>5. Anchored' /\ LoginsApart'
    BY <1>1, <1>3, <1>4, CalmAnchored, CalmLogins DEF IInv
  <1>6. StateSpentOnce'
    <2> SUFFICES ASSUME NEW s \in States
                 PROVE  spent'[s] <= 1 /\ (spent'[s] = 1 => auth'[s].st = "consumed")
      BY DEF StateSpentOnce
    <2>1. spent[s] \in Nat
      BY DEF IInv, TypeOK
    <2>2. CASE s = req[r].s
      <3>1. Pending(req[r])
        BY <1>2, <2>2 DEF Pending
      <3>2. auth[s].st = "consumed" /\ spent[s] = 0
        BY <2>2, <3>1 DEF IInv, LoginsApart
      <3> QED BY <1>1, <1>2, <2>2, <3>2
    <2>3. CASE s # req[r].s
      BY <1>1, <1>2, <2>1, <2>3 DEF IInv, StateSpentOnce
    <2> QED BY <2>2, <2>3
  <1>7. OneEach' /\ RescuedOnce'
    BY <1>1, GoneRescued DEF IInv, OneEach, LiveAccts
  <1> QED BY <1>1, <1>5, <1>6, <1>7 DEF IInv

LEMMA LinkKeeps ==
  ASSUME IInv, NEW r \in Slots, Link(r)
  PROVE  IInv'
  <1>1. TypeOK' /\ Calm /\ UNCHANGED <<conn, auth, spent, rescues>>
    BY LinkTypes DEF IInv, history
  <1>2. Anchored' /\ LoginsApart' /\ StateSpentOnce' /\ RescuedOnce'
    <2>1. SpentStays
      BY <1>1 DEF SpentStays
    <2>2. Anchored' /\ LoginsApart'
      BY <1>1, <2>1, CalmAnchored, CalmLogins DEF IInv
    <2> QED BY <1>1, <2>2 DEF IInv, StateSpentOnce, RescuedOnce
  <1>3. OneEach'
    <2>1. CASE acct' = acct
      BY <2>1 DEF IInv, OneEach, LiveAccts
    <2>2. CASE acct' # acct
      <3>1. PICK a \in Accts, c \in Conns :
              /\ \A b \in Accts : b # a => acct'[b] = acct[b]
              /\ acct'[a].bound = c /\ BoundTo(c) \subseteq {a}
        BY <2>2, LinkTypes DEF IInv
      <3>2. \A b \in LiveAccts' : b # a => b \in LiveAccts /\ acct'[b] = acct[b]
        BY <3>1 DEF LiveAccts
      <3>3. \A b \in LiveAccts' : b # a => acct'[b].bound # c
        BY <3>1, <3>2 DEF BoundTo
      <3> QED BY <3>1, <3>2, <3>3 DEF IInv, OneEach
    <2> QED BY <2>1, <2>2
  <1> QED BY <1>1, <1>2, <1>3 DEF IInv

LEMMA RescueKeeps ==
  ASSUME IInv, NEW r \in Slots, RescueCommit(r)
  PROVE  IInv'
  <1>1. TypeOK' /\ Calm /\ GoneStays /\ BindsNone /\ UNCHANGED <<auth, spent>>
    BY RescueTypes DEF IInv
  <1>2. Anchored' /\ LoginsApart' /\ StateSpentOnce' /\ OneEach'
    <2>1. SpentStays
      BY <1>1 DEF SpentStays
    <2>2. Anchored' /\ LoginsApart' /\ OneEach'
      BY <1>1, <2>1, CalmAnchored, CalmLogins, ShrinkEach DEF IInv
    <2> QED BY <1>1, <2>2 DEF IInv, StateSpentOnce
  <1>3. RescuedOnce'
    <2>1. CASE rescues' = rescues
      BY <1>1, <2>1, GoneRescued DEF IInv
    <2>2. ASSUME NEW c \in LiveConns, rescues' = [rescues EXCEPT ![c] = @ + 1],
                 conn'[c].st = "gone"
          PROVE  RescuedOnce'
      <3>1. c \in Conns /\ rescues[c] = 0
        BY DEF LiveConns, IInv, RescuedOnce, TypeOK
      <3>2. \A k \in Conns : rescues'[k] = IF k = c THEN 1 ELSE rescues[k]
        BY <2>2, <3>1 DEF IInv, TypeOK
      <3> QED BY <1>1, <2>2, <3>2 DEF IInv, RescuedOnce, GoneStays
    <2> QED BY <2>1, <2>2, RescueTypes DEF IInv
  <1> QED BY <1>1, <1>2, <1>3 DEF IInv

LEMMA StutterMinor == TypeOK /\ UNCHANGED vars => TypeOK' /\ Minor
  BY ReqSame, ConnSame, AcctSame, AuthSame, Assembled DEF vars, history

LEMMA NextKeeps ==
  ASSUME IInv, [Next]_vars
  PROVE  IInv'
  <1> USE DEF IInv
  <1>1. ASSUME NEW r \in Slots, ConnectStep(r)
        PROVE  IInv'
    BY <1>1, CompleteKeeps, UpsertKeeps, MinorKeeps, IntegrateStep, ExpectReadStep,
       AuthenticateStep, RelinkStep DEF ConnectStep
  <1>2. ASSUME NEW r \in Slots, SyncStep(r)
        PROVE  IInv'
    BY <1>2, MinorKeeps, SyncReads, MarkDeadStep, SnapCommitStep DEF SyncStep
  <1>3. ASSUME NEW r \in Slots, FeedStep(r)
        PROVE  IInv'
    BY <1>3, MinorKeeps, DeactivateStep, EnabledStep, ClearStep, UnlinkStep, ChecksStep,
       ClearCommitStep DEF FeedStep
  <1>4. ASSUME NEW r \in Slots, AccountStep(r)
        PROVE  IInv'
    BY <1>4, MinorKeeps, LinkKeeps, CreateStep, LinkReadStep, DeleteStep, RetagStep,
       AddEntryStep, ChecksStep, DeleteWriteStep, RetagWriteStep, EntryWriteStep
       DEF AccountStep
  <1>5. ASSUME NEW r \in Slots, MoveStep(r)
        PROVE  IInv'
    <2>1. ASSUME NEW a \in Accts, NEW b \in Accts, NEW flag \in BOOLEAN,
                 NEW P \in {{p} : p \in Positions} \cup {Positions}, Transfer(r, a, b, P, flag)
          PROVE  IInv'
      BY <2>1, TransferStep, MinorKeeps
    <2> QED BY <1>5, <2>1, MinorKeeps, RescueKeeps, RescueStep, TransferWriteStep, ChecksStep
            DEF MoveStep
  <1>6. ASSUME NEW r \in Slots, Dies(r)
        PROVE  IInv'
    BY <1>6, ChecksStep, MinorKeeps
  <1>7. CASE World \/ UNCHANGED vars
    BY <1>7, WorldStep, StutterMinor, MinorKeeps
  <1> QED BY <1>1, <1>2, <1>3, <1>4, <1>5, <1>6, <1>7 DEF Next

LEMMA InitInvariant == Init => IInv
  <1> SUFFICES ASSUME Init PROVE IInv
    OBVIOUS
  <1>1. NoConn \in Conn /\ NoAcct \in Acct /\ [st |-> "free", broker |-> None] \in Auth
    BY DEF NoConn, Conn, NoAcct, Acct, Auth
  <1>2. Idle \in Req /\ Idle.pc = "idle"
    BY DEF Idle, Req, PC
  <1>3. TypeOK
    BY <1>1, <1>2 DEF Init, TypeOK
  <1>4. Anchored /\ LoginsApart
    BY <1>2 DEF Init, Anchored, LoginsApart, Pending
  <1>5. StateSpentOnce /\ RescuedOnce
    BY DEF Init, StateSpentOnce, RescuedOnce
  <1>6. OneEach
    BY DEF Init, OneEach, LiveAccts, NoAcct
  <1> QED BY <1>3, <1>4, <1>5, <1>6 DEF IInv

LEMMA Invariance == Spec => []IInv
  BY InitInvariant, NextKeeps, PTL DEF Spec

-----------------------------------------------------------------------------
(* Theorems. *)

\* Every row and every request in flight keeps its type, whatever requests, syncs
\* and crashes interleave.
THEOREM BrokerTypesHold == Spec => []TypeOK
  <1>1. IInv => TypeOK
    BY DEF IInv
  <1> QED BY <1>1, Invariance, PTL

\* consumeState: one OAuth state stores one session at most, however many tabs,
\* double callbacks and replays reach completeIntegration.
THEOREM OneSessionPerState == Spec => []StateSpentOnce
  <1>1. IInv => StateSpentOnce
    BY DEF IInv
  <1> QED BY <1>1, Invariance, PTL

\* linkAccount and its unique index: a connection feeds one account at most.
THEOREM OneAccountEach == Spec => []OneAccountPerConnection
  <1>1. IInv => OneAccountPerConnection
    <2> SUFFICES ASSUME IInv, NEW c \in LiveConns PROVE Cardinality(BoundTo(c)) <= 1
      BY DEF OneAccountPerConnection
    <2>1. CASE BoundTo(c) = {}
      BY <2>1, FS_EmptySet
    <2>2. CASE BoundTo(c) # {}
      <3>1. PICK a \in BoundTo(c) : TRUE
        BY <2>2
      <3>2. BoundTo(c) = {a}
        BY <3>1 DEF BoundTo, LiveConns, IInv, OneEach
      <3>3. Cardinality({a}) = 1
        BY FS_Singleton
      <3> QED BY <3>2, <3>3
    <2> QED BY <2>1, <2>2
  <1> QED BY <1>1, Invariance, PTL

\* rescueLinkedAccount: of the tabs that rescue one connection, one commits, and the
\* connection's rows are gone with it.
THEOREM OneRescueEach == Spec => []RescuedOnce
  <1>1. IInv => RescuedOnce
    BY DEF IInv
  <1> QED BY <1>1, Invariance, PTL

-----------------------------------------------------------------------------
(***************************************************************************)
(* One request at a time (SerialSpec).  Nothing but the death of a token   *)
(* falls between two steps of a request, so what it has read still holds   *)
(* when it writes.  The invariant says what every request knows at each    *)
(* of its steps (Knows) and what the tables are between them (Tables).     *)
(***************************************************************************)

\* The same requests one after the other: a slot starts, or goes on, only when no
\* other one is in flight.  With a single slot this is Spec.
Alone(r) == \A q \in Slots : q # r => At(q, "idle")

SerialNext ==
  \/ \E r \in Slots :
       /\ Alone(r)
       /\ \/ ConnectStep(r) \/ SyncStep(r) \/ FeedStep(r)
          \/ AccountStep(r) \/ MoveStep(r) \/ Dies(r)
  \/ World

SerialSpec == Init /\ [][SerialNext]_vars

\* A binding makes an account linked.
BoundIsLinked == \A a \in LiveAccts :
                   acct[a].bound # None => acct[a].state # "manual"

\* broker_holdings rows hang on a connection.
RowsAreOwned == \A c \in Conns : conn[c].st # "live" => conn[c].hold = {}

\* persistSession's upsert: one row for each demat.
OneRowEach == \A c, k \in LiveConns : conn[c].demat = conn[k].demat => c = k

Finite == IsFiniteSet(LiveAccts)

ConnRows == RowsAreOwned /\ DeadIsDead /\ OneRowEach
AcctRows == BoundIsLinked /\ NoZombie /\ LinkedIsBrokerOnly /\ Finite

\* What a request knows at each of its steps.
Connecting(r) ==
  /\ At(r, "auth") \/ At(r, "upsert") =>
       (req[r].c # None => /\ req[r].c \in LiveConns
                           /\ conn[req[r].c].demat = req[r].d)
  /\ At(r, "relink") => req[r].c \in Conns

Enabled(c) == c \in LiveConns /\ conn[c].enabled

Syncing(r) ==
  /\ At(r, "bound") \/ At(r, "fetch") =>
       /\ Enabled(req[r].c) /\ req[r].d = conn[req[r].c].demat
       /\ conn[req[r].c].good => req[r].good
  /\ At(r, "snap") \/ At(r, "commit") => Enabled(req[r].c)
  /\ At(r, "fetch") \/ At(r, "snap") \/ At(r, "commit") =>
       BoundTo(req[r].c) # {}
  /\ At(r, "dead") => req[r].c \in LiveConns /\ ~conn[req[r].c].good

Feeding(r) ==
  /\ At(r, "mark") \/ At(r, "forget") => Clearable(req[r].c)
  /\ At(r, "forget") => req[r].marked = BoundTo(req[r].c)

Managing(r) ==
  /\ At(r, "claim") \/ At(r, "link") =>
       Linkable(req[r].a) /\ req[r].flag = (acct[req[r].a].ledger # {})
  /\ At(r, "count") \/ At(r, "delete") => Linkable(req[r].a)
  /\ At(r, "delete") => \E x \in LiveAccts : x # req[r].a
  /\ At(r, "entry") => Writable(req[r].a)

Moving(r) ==
  /\ At(r, "move") =>
       req[r].a # req[r].b /\ Writable(req[r].a) /\ Writable(req[r].b)
  /\ At(r, "holdings") \/ At(r, "rescue") =>
       /\ req[r].a # req[r].b /\ req[r].a \in LiveAccts /\ Writable(req[r].b)
       /\ acct[req[r].a].bound = req[r].c /\ req[r].c \in Conns
  /\ At(r, "rescue") => conn[req[r].c].hold \subseteq req[r].got

Knows(r) == Connecting(r) /\ Syncing(r) /\ Feeding(r) /\ Managing(r) /\ Moving(r)

Tables == ConnRows /\ AcctRows /\ NothingStranded
SerialInv == Tables /\ \A r \in Slots : Knows(r)

-----------------------------------------------------------------------------
\* A slot that is idle, or past its reads, knows nothing it relies on.
LEMMA NothingToKnow ==
  ASSUME NEW r \in Slots, req'[r].pc \in {"idle", "expect", "retag"}
  PROVE  Knows(r)'
  BY DEF Knows, Connecting, Syncing, Feeding, Managing, Moving, At

LEMMA DoneKnows ==
  ASSUME TypeOK, NEW r \in Slots, Done(r)
  PROVE  Knows(r)'
  <1>1. req'[r] = Finished(r)
    BY DEF Done, TypeOK
  <1> QED BY <1>1, FinishedType, NothingToKnow

\* The steps that only move a request on.
LEMMA GotoPc ==
  ASSUME TypeOK, NEW r \in Slots, NEW pc, Goto(r, pc)
  PROVE  req'[r] = [req[r] EXCEPT !.pc = pc]
  BY DEF Goto, TypeOK

LEMMA BeginsWith ==
  ASSUME TypeOK, NEW r \in Slots, NEW q, Begins(r, q)
  PROVE  req'[r] = q
  BY DEF Begins, TypeOK

LEMMA LoginKnows ==
  ASSUME TypeOK, NEW r \in Slots, Knows(r), UNCHANGED <<conn, acct>>,
         \/ \E s \in States, b \in Brokers, c \in Conns \cup {None} :
              Complete(r, s, b, c)
         \/ \E b \in Brokers : Integrate(r, b)
         \/ ExpectRead(r) \/ Authenticate(r)
  PROVE  Knows(r)'
  <1> USE DEF Knows, Connecting, Syncing, Feeding, Managing, Moving, At
  <1>1. ASSUME NEW s \in States, NEW b \in Brokers, NEW c \in Conns \cup {None},
               Complete(r, s, b, c)
        PROVE  Knows(r)'
    <2> DEFINE q == [Idle EXCEPT !.pc = IF c = None THEN "auth" ELSE "expect",
                                 !.s = s, !.br = b, !.c = c]
    <2>1. q.pc = (IF c = None THEN "auth" ELSE "expect") /\ q.c = c
      BY DEF Idle
    <2>2. Begins(r, q)
      BY <1>1 DEF Complete
    <2> HIDE DEF q
    <2> QED BY <2>1, <2>2, BeginsWith
  <1>2. ASSUME NEW b \in Brokers, Integrate(r, b)
        PROVE  Knows(r)'
    <2>1. req'[r].pc = "auth" /\ req'[r].c = None
      BY <1>2, BeginsWith DEF Integrate, Idle
    <2> QED BY <2>1
  <1>3. CASE ExpectRead(r)
    <2>1. CASE Done(r)
      BY <2>1, DoneKnows
    <2>2. CASE ~Done(r)
      <3>1. /\ req[r].c \in LiveConns
            /\ req' = [req EXCEPT ![r].pc = "auth", ![r].d = conn[req[r].c].demat]
        BY <1>3, <2>2 DEF ExpectRead
      <3>2. /\ req'[r].pc = "auth" /\ req'[r].c = req[r].c
            /\ req'[r].d = conn[req[r].c].demat
        BY <3>1 DEF TypeOK, Req
      <3> QED BY <3>1, <3>2 DEF LiveConns
    <2> QED BY <2>1, <2>2
  <1>4. CASE Authenticate(r)
    <2>1. CASE Done(r)
      BY <2>1, DoneKnows
    <2>2. CASE ~Done(r)
      <3>1. PICK d \in Demats :
              /\ SameDemat(r, d)
              /\ req' = [req EXCEPT ![r].pc = "upsert", ![r].d = d, ![r].good = TRUE]
        BY <1>4, <2>2 DEF Authenticate
      <3>2. /\ req'[r].pc = "upsert" /\ req'[r].c = req[r].c
            /\ req'[r].d = d
        BY <3>1 DEF TypeOK, Req
      <3> QED BY <1>4, <3>1, <3>2 DEF LiveConns, SameDemat, Authenticate
    <2> QED BY <2>1, <2>2
  <1> QED BY <1>1, <1>2, <1>3, <1>4

\* syncHoldings: what it read of the row is still in the row.
LEMMA SyncKnows ==
  ASSUME TypeOK, NEW r \in Slots, Knows(r), UNCHANGED <<conn, acct>>,
         \/ \E c \in Conns : SyncNow(r, c) \/ SweepNext(r, c)
         \/ SweepSelect(r) \/ SyncBound(r) \/ Fetch(r) \/ SnapDelete(r)
  PROVE  Knows(r)'
  <1> USE DEF Knows, Connecting, Syncing, Feeding, Managing, Moving, At
  <1>1. ASSUME NEW c \in Conns, NEW q, q.pc = Reading(r, c).pc, q.c = Reading(r, c).c,
               q.d = Reading(r, c).d, q.good = Reading(r, c).good, req'[r] = q
        PROVE  Knows(r)'
    <2>1. CASE Syncable(c)
      <3>1. /\ Reading(r, c).pc = "bound" /\ Reading(r, c).c = c
            /\ Reading(r, c).d = conn[c].demat /\ Reading(r, c).good = conn[c].good
        BY <2>1 DEF Reading, TypeOK, Req
      <3> QED BY <1>1, <2>1, <3>1 DEF Syncable, Enabled, LiveConns
    <2>2. CASE ~Syncable(c)
      BY <1>1, <2>2, FinishedType, NothingToKnow DEF Reading
    <2> QED BY <2>1, <2>2
  <1>2. ASSUME NEW c \in Conns, SyncNow(r, c)
        PROVE  Knows(r)'
    BY <1>1, <1>2, BeginsWith DEF SyncNow
  <1>3. ASSUME NEW c \in Conns, SweepNext(r, c)
        PROVE  Knows(r)'
    <2> DEFINE q == [Reading(r, c) EXCEPT !.due = @ \ {c}]
    <2>1. q.pc = Reading(r, c).pc /\ q.c = Reading(r, c).c
      BY ReadingType DEF Req
    <2>2. q.d = Reading(r, c).d /\ q.good = Reading(r, c).good
      BY ReadingType DEF Req
    <2>3. req'[r] = q
      BY <1>3 DEF SweepNext, TypeOK
    <2> HIDE DEF q
    <2> QED BY <1>1, <2>1, <2>2, <2>3
  <1>4. CASE SweepSelect(r)
    <2>1. req'[r].pc = "idle"
      BY <1>4 DEF SweepSelect, TypeOK, Req
    <2> QED BY <2>1, NothingToKnow
  <1>5. CASE SyncBound(r)
    <2>1. CASE Done(r)
      BY <2>1, DoneKnows
    <2>2. CASE ~Done(r)
      <3>1. BoundTo(req[r].c) # {} /\ req'[r] = [req[r] EXCEPT !.pc = "fetch"]
        BY <1>5, <2>2, GotoPc DEF SyncBound
      <3>2. /\ req'[r].pc = "fetch" /\ req'[r].c = req[r].c
            /\ req'[r].d = req[r].d /\ req'[r].good = req[r].good
        BY <3>1 DEF TypeOK, Req
      <3> QED BY <1>5, <3>1, <3>2 DEF SyncBound, Enabled, LiveConns, BoundTo, LiveAccts
    <2> QED BY <2>1, <2>2
  <1>6. CASE Fetch(r)
    <2>1. CASE Done(r)
      BY <2>1, DoneKnows
    <2>2. ASSUME NEW P \in SUBSET Positions,
                 req' = [req EXCEPT ![r].pc = "snap", ![r].got = P]
          PROVE  Knows(r)'
      <3>1. req'[r].pc = "snap" /\ req'[r].c = req[r].c
        BY <2>2 DEF TypeOK, Req
      <3> QED BY <1>6, <3>1 DEF Fetch, Enabled, LiveConns, BoundTo, LiveAccts
    <2>3. CASE ~req[r].good /\ Goto(r, "dead")
      <3>1. req'[r] = [req[r] EXCEPT !.pc = "dead"]
        BY <2>3, GotoPc
      <3>2. req'[r].pc = "dead" /\ req'[r].c = req[r].c
        BY <3>1 DEF TypeOK, Req
      <3> QED BY <1>6, <2>3, <3>2 DEF Fetch, Enabled, LiveConns
    <2> QED BY <1>6, <2>1, <2>2, <2>3 DEF Fetch
  <1>7. CASE SnapDelete(r)
    <2>1. req'[r].pc = "commit" /\ req'[r].c = req[r].c
      BY <1>7 DEF SnapDelete, TypeOK, Req
    <2>2. Enabled(req[r].c) /\ BoundTo(req[r].c) # {}
      BY <1>7 DEF SnapDelete
    <2> QED BY <2>1, <2>2 DEF SnapDelete, Enabled, LiveConns, BoundTo, LiveAccts
  <1> QED BY <1>2, <1>3, <1>4, <1>5, <1>6, <1>7

\* clearData: the feed is severed and stays so until its rows go.
LEMMA FeedKnows ==
  ASSUME TypeOK, NEW r \in Slots, Knows(r), UNCHANGED <<conn, acct>>,
         \/ \E c \in Conns : Deactivate(r, c) \/ Clear(r, c)
         \/ \E a \in Accts : Unlink(r, a)
         \/ ClearMark(r)
  PROVE  Knows(r)'
  <1> USE DEF Knows, Connecting, Syncing, Feeding, Managing, Moving, At
  <1>1. ASSUME NEW c \in Conns, Begins(r, [Idle EXCEPT !.pc = "sever", !.c = c])
        PROVE  Knows(r)'
    <2>1. req'[r].pc = "sever"
      BY <1>1, BeginsWith DEF Idle
    <2> QED BY <2>1
  <1>2. ASSUME NEW c \in Conns, Clear(r, c)
        PROVE  Knows(r)'
    <2>1. Clearable(c) /\ req'[r].pc = "mark" /\ req'[r].c = c
      BY <1>2, BeginsWith DEF Clear, Idle
    <2> QED BY <2>1 DEF LiveConns, Clearable
  <1>3. ASSUME NEW a \in Accts, Unlink(r, a)
        PROVE  Knows(r)'
    <2>1. acct[a].bound \in Conns
      BY <1>3, AcctType DEF Unlink
    <2> QED BY <1>1, <1>3, <2>1 DEF Unlink
  <1>4. CASE ClearMark(r)
    <2>1. /\ req'[r].pc = "forget" /\ req'[r].c = req[r].c
          /\ req'[r].marked = BoundTo(req[r].c)
      BY <1>4 DEF ClearMark, TypeOK, Req
    <2>2. Clearable(req[r].c)
      BY <1>4 DEF ClearMark
    <2> QED BY <2>1, <2>2 DEF Clearable, LiveConns, BoundTo, LiveAccts
  <1> QED BY <1>1, <1>2, <1>3, <1>4 DEF Deactivate

\* linkAccount, deleteAccount, patchAccount and addTransaction: the account is
\* what the first read found.
LEMMA AccountKnows ==
  ASSUME TypeOK, BoundIsLinked, Finite, NEW r \in Slots, Knows(r),
         UNCHANGED <<conn, acct>>,
         \/ \E a \in Accts, c \in Conns : LinkRead(r, a, c)
         \/ \E a \in Accts : Delete(r, a)
         \/ \E a \in Accts, b \in Brokers : Retag(r, a, b)
         \/ \E a \in Accts, p \in Positions : AddEntry(r, a, p)
         \/ LinkClaim(r) \/ DeleteCount(r)
  PROVE  Knows(r)'
  <1> USE DEF Knows, Connecting, Syncing, Feeding, Managing, Moving, At
  <1>1. ASSUME NEW a \in Accts, NEW c \in Conns, LinkRead(r, a, c)
        PROVE  Knows(r)'
    <2> DEFINE q == [Idle EXCEPT !.pc = "claim", !.a = a, !.c = c,
                                 !.br = acct[a].broker,
                                 !.flag = acct[a].ledger # {}]
    <2>1. /\ q.pc = "claim" /\ q.a = a
          /\ q.flag = (acct[a].ledger # {})
      BY DEF Idle
    <2>2. Begins(r, q) /\ Linkable(a)
      BY <1>1 DEF LinkRead
    <2> HIDE DEF q
    <2>3. req'[r] = q
      BY <2>2, BeginsWith
    <2>4. /\ Linkable(a) /\ req'[r].pc = "claim" /\ req'[r].a = a
          /\ req'[r].flag = (acct[a].ledger # {})
      BY <2>1, <2>2, <2>3
    <2> QED BY <2>4 DEF Linkable, LiveAccts
  <1>2. ASSUME NEW a \in Accts, Delete(r, a)
        PROVE  Knows(r)'
    <2>1. req'[r].pc = "count" /\ req'[r].a = a
      BY <1>2, BeginsWith DEF Delete, Idle
    <2>2. Linkable(a)
      BY <1>2 DEF Delete, Deletable, Linkable, BoundIsLinked
    <2> QED BY <2>1, <2>2 DEF Linkable, LiveAccts
  <1>3. ASSUME NEW a \in Accts, NEW b \in Brokers, Retag(r, a, b)
        PROVE  Knows(r)'
    <2>1. req'[r].pc = "retag"
      BY <1>3, BeginsWith DEF Retag, Idle
    <2> QED BY <2>1, NothingToKnow
  <1>4. ASSUME NEW a \in Accts, NEW p \in Positions, AddEntry(r, a, p)
        PROVE  Knows(r)'
    <2> DEFINE q == [Idle EXCEPT !.pc = "entry", !.a = a, !.got = {p}]
    <2>1. q.pc = "entry" /\ q.a = a
      BY DEF Idle
    <2>2. Begins(r, q) /\ Writable(a)
      BY <1>4 DEF AddEntry
    <2> HIDE DEF q
    <2>3. req'[r] = q
      BY <2>2, BeginsWith
    <2>4. Writable(a) /\ req'[r].pc = "entry" /\ req'[r].a = a
      BY <2>1, <2>2, <2>3
    <2> QED BY <2>4 DEF Writable, LiveAccts
  <1>5. CASE LinkClaim(r)
    <2>1. CASE Done(r)
      BY <2>1, DoneKnows
    <2>2. CASE ~Done(r)
      <3>1. req'[r] = [req[r] EXCEPT !.pc = "link"]
        BY <1>5, <2>2, GotoPc DEF LinkClaim
      <3>2. /\ req'[r].pc = "link" /\ req'[r].a = req[r].a
            /\ req'[r].flag = req[r].flag
        BY <3>1 DEF TypeOK, Req
      <3> QED BY <1>5, <3>2 DEF LinkClaim, Linkable, LiveAccts
    <2> QED BY <2>1, <2>2
  <1>6. CASE DeleteCount(r)
    <2>1. CASE Done(r)
      BY <2>1, DoneKnows
    <2>2. CASE ~Done(r)
      <3>1. Enough /\ req'[r] = [req[r] EXCEPT !.pc = "delete"]
        BY <1>6, <2>2, GotoPc DEF DeleteCount
      <3>2. req'[r].pc = "delete" /\ req'[r].a = req[r].a
        BY <3>1 DEF TypeOK, Req
      <3>3. \E x \in LiveAccts : x # req[r].a
        <4>1. SUFFICES ASSUME LiveAccts \subseteq {req[r].a}
                       PROVE  FALSE
          OBVIOUS
        <4>2. Cardinality({req[r].a}) = 1 /\ IsFiniteSet({req[r].a})
          BY FS_Singleton
        <4>3. Cardinality(LiveAccts) <= 1
          BY <4>1, <4>2, FS_Subset
        <4>4. Cardinality(LiveAccts) \in Nat
          BY FS_CardinalityType DEF Finite
        <4> QED BY <3>1, <4>3, <4>4 DEF Enough
      <3> QED BY <1>6, <3>2, <3>3 DEF DeleteCount, Linkable, LiveAccts
    <2> QED BY <2>1, <2>2
  <1> QED BY <1>1, <1>2, <1>3, <1>4, <1>5, <1>6

\* transfer.ts: the two accounts, and the rows a rescue converts.
LEMMA MoveKnows ==
  ASSUME TypeOK, BoundIsLinked, NEW r \in Slots, Knows(r),
         UNCHANGED <<conn, acct>>,
         \/ \E a, b \in Accts, flag \in BOOLEAN,
               P \in {{p} : p \in Positions} \cup {Positions} :
              Transfer(r, a, b, P, flag)
         \/ \E a, b \in Accts : Rescue(r, a, b)
         \/ RescueRead(r)
  PROVE  Knows(r)'
  <1> USE DEF Knows, Connecting, Syncing, Feeding, Managing, Moving, At
  <1>1. ASSUME NEW a \in Accts, NEW b \in Accts, NEW P, NEW flag \in BOOLEAN,
               Transfer(r, a, b, P, flag)
        PROVE  Knows(r)'
    <2> DEFINE q == [Idle EXCEPT !.pc = "move", !.a = a, !.b = b, !.got = P,
                                 !.flag = flag]
    <2>1. q.pc = "move" /\ q.a = a /\ q.b = b
      BY DEF Idle
    <2>2. Begins(r, q) /\ a # b /\ Writable(a) /\ Writable(b)
      BY <1>1 DEF Transfer
    <2> HIDE DEF q
    <2>3. req'[r] = q
      BY <2>2, BeginsWith
    <2>4. /\ a # b /\ Writable(a) /\ Writable(b)
          /\ req'[r].pc = "move" /\ req'[r].a = a /\ req'[r].b = b
      BY <2>1, <2>2, <2>3
    <2> QED BY <2>4 DEF Writable, LiveAccts
  <1>2. ASSUME NEW a \in Accts, NEW b \in Accts, Rescue(r, a, b)
        PROVE  Knows(r)'
    <2> DEFINE q == [Idle EXCEPT !.pc = "holdings", !.a = a, !.b = b,
                                 !.c = acct[a].bound]
    <2>1. /\ q.pc = "holdings" /\ q.a = a /\ q.b = b
          /\ q.c = acct[a].bound
      BY DEF Idle
    <2>2. Begins(r, q) /\ Rescuable(a, b)
      BY <1>2 DEF Rescue
    <2> HIDE DEF q
    <2>3. req'[r] = q
      BY <2>2, BeginsWith
    <2>4. /\ Rescuable(a, b) /\ req'[r].pc = "holdings" /\ req'[r].a = a
          /\ req'[r].b = b /\ req'[r].c = acct[a].bound
      BY <2>1, <2>2, <2>3
    <2>5. acct[a].bound \in Conns
      BY <2>4, AcctType DEF Rescuable
    <2> QED BY <2>4, <2>5 DEF Rescuable, Writable, LiveAccts
  <1>3. CASE RescueRead(r)
    <2>1. CASE Done(r)
      BY <2>1, DoneKnows
    <2>2. CASE ~Done(r)
      <3> DEFINE P == conn[req[r].c].hold
      <3>1. /\ Convertible(P)
            /\ req' = [req EXCEPT ![r].pc = "rescue", ![r].got = P \ Unmapped]
        BY <1>3, <2>2 DEF RescueRead
      <3>2. /\ req'[r].pc = "rescue" /\ req'[r].a = req[r].a
            /\ req'[r].b = req[r].b /\ req'[r].c = req[r].c
        BY <3>1 DEF TypeOK, Req
      <3>3. req'[r].got = P \ Unmapped
        BY <3>1 DEF TypeOK, Req
      <3>4. P \subseteq req'[r].got
        BY <3>1, <3>3 DEF Convertible
      <3> QED BY <1>3, <3>2, <3>4 DEF RescueRead, Writable, LiveAccts
    <2> QED BY <2>1, <2>2
  <1> QED BY <1>1, <1>2, <1>3

-----------------------------------------------------------------------------
(* What a step may not do, one formula for each action property. *)

KeepsStep == LiveAccts # {} => LiveAccts' # {}

AnchorStep ==
  \A a \in LiveAccts : acct[a].bound # None /\ acct[a].bound # acct'[a].bound
    => acct'[a].st = "gone" \/ conn'[acct[a].bound].st = "gone"

ExactStep ==
  \A r \in Slots : At(r, "upsert") /\ req'[r].pc = "relink" /\ req[r].c # None
    => \A k \in Conns : k # req[r].c => conn'[k] = conn[k]

ForgetsStep ==
  \A c \in LiveConns : conn'[c].st = "gone"
    => \/ ~conn[c].enabled
       \/ \E a \in Accts : conn[c].hold \subseteq acct'[a].ledger

ConvertsStep ==
  \A c \in LiveConns : rescues'[c] # rescues[c]
    => \E a \in Accts : conn[c].hold \subseteq acct'[a].ledger

FrozenStep ==
  \A c \in LiveConns : ~conn[c].enabled /\ conn'[c].st = "live"
    => conn'[c].hold = conn[c].hold

AcctSteps == KeepsStep /\ AnchorStep
ConnSteps == ExactStep /\ ForgetsStep /\ ConvertsStep /\ FrozenStep

Sound == Tables' /\ AcctSteps /\ ConnSteps

LEMMA ConnRowsSame ==
  ASSUME ConnRows, UNCHANGED <<conn, rescues>>
  PROVE  ConnRows' /\ ConnSteps
  BY DEF ConnRows, RowsAreOwned, DeadIsDead, OneRowEach, LiveConns, ConnSteps,
         ExactStep, ForgetsStep, ConvertsStep, FrozenStep

LEMMA AcctRowsSame ==
  ASSUME AcctRows, UNCHANGED acct
  PROVE  AcctRows' /\ AcctSteps
  BY DEF AcctRows, BoundIsLinked, NoZombie, LinkedIsBrokerOnly, Finite, LiveAccts,
         AcctSteps, KeepsStep, AnchorStep

LEMMA ReadsSound ==
  ASSUME Tables, UNCHANGED <<conn, acct, rescues>>
  PROVE  Sound
  BY ConnRowsSame, AcctRowsSame
     DEF Tables, NothingStranded, LiveConns, BoundTo, LiveAccts, Sound

\* A connection keeps an account while no account loses its binding.
LEMMA StillFed ==
  ASSUME NothingStranded, UNCHANGED conn,
         \A a \in LiveAccts : acct[a].bound # None =>
           a \in LiveAccts' /\ acct'[a].bound = acct[a].bound
  PROVE  NothingStranded'
  BY ConstantsAssumption DEF NothingStranded, LiveConns, BoundTo

\* The writes that touch portfolio_accounts alone.
LEMMA AcctSound ==
  ASSUME Tables, UNCHANGED <<conn, rescues>>, AcctRows', KeepsStep,
         \A a \in LiveAccts : acct[a].bound # None =>
           a \in LiveAccts' /\ acct'[a].bound = acct[a].bound
  PROVE  Sound
  BY ConnRowsSame, StillFed DEF Tables, Sound, AcctSteps, AnchorStep

LEMMA RelinkSound ==
  ASSUME TypeOK, Tables, NEW r \in Slots, Knows(r), Relink(r)
  PROVE  Sound
  <1>1. req[r].c \in Conns /\ UNCHANGED <<conn, rescues>>
    BY DEF Relink, Knows, Connecting, history
  <1>2. \A a \in Accts : /\ acct'[a].st = acct[a].st
                         /\ acct'[a].bound = acct[a].bound
                         /\ acct'[a].ledger = acct[a].ledger
                         /\ \/ acct'[a].state = acct[a].state
                            \/ acct[a].bound \in Conns /\ acct'[a].state = "linked_live"
    BY <1>1 DEF Relink, TypeOK, Acct, BoundTo
  <1>3. LiveAccts' = LiveAccts
    BY <1>2 DEF LiveAccts
  <1>4. AcctRows'
    BY <1>2, <1>3, ConstantsAssumption
       DEF Tables, AcctRows, BoundIsLinked, NoZombie, LinkedIsBrokerOnly, Finite, LiveAccts
  <1> QED BY <1>1, <1>2, <1>3, <1>4, AcctSound DEF KeepsStep, LiveAccts

LEMMA CreateSound ==
  ASSUME TypeOK, Tables, NEW r \in Slots, NEW b \in Brokers, Create(r, b)
  PROVE  Sound
  <1>1. PICK a \in Accts :
          /\ acct[a].st = "free" /\ acct'[a].st = "live"
          /\ acct'[a].bound = None /\ acct'[a].state = "manual"
          /\ \A x \in Accts : x # a => acct'[x] = acct[x]
    BY DEF Create, TypeOK, NoAcct
  <1>2. LiveAccts' = LiveAccts \cup {a} /\ a \notin LiveAccts
    BY <1>1 DEF LiveAccts
  <1>3. Finite'
    BY <1>2, FS_AddElement DEF Tables, AcctRows, Finite
  <1>4. AcctRows'
    BY <1>1, <1>2, <1>3
       DEF Tables, AcctRows, BoundIsLinked, NoZombie, LinkedIsBrokerOnly, LiveAccts
  <1>5. \A x \in LiveAccts : x \in LiveAccts' /\ acct'[x] = acct[x]
    BY <1>1, <1>2 DEF LiveAccts
  <1> QED BY <1>2, <1>4, <1>5, AcctSound DEF Create, history, KeepsStep

LEMMA LinkSound ==
  ASSUME TypeOK, Tables, NEW r \in Slots, Knows(r), Link(r)
  PROVE  Sound
  <1>1. CASE acct' = acct
    BY <1>1, ReadsSound DEF Link, history
  <1>2. CASE acct' # acct
    <2> DEFINE a == req[r].a
    <2>1. /\ a \in LiveAccts /\ req[r].c \in LiveConns
          /\ acct' = [acct EXCEPT ![a] = Linked(a, r)]
      BY <1>2 DEF Link
    <2>2. acct[a].bound = None /\ req[r].flag = (acct[a].ledger # {})
      BY DEF Link, Knows, Managing, Linkable
    <2>3. /\ acct'[a].st = "live" /\ acct'[a].bound = req[r].c
          /\ acct'[a].state = "linked_live" /\ acct'[a].ledger = {}
      BY <2>1, <2>2 DEF Linked, LiveAccts, TypeOK, Acct
    <2>4. \A x \in Accts : x # a => acct'[x] = acct[x]
      BY <2>1 DEF TypeOK
    <2>5. req[r].c # None
      BY <2>1, ConstantsAssumption DEF LiveConns
    <2> HIDE DEF a
    <2>6. LiveAccts' = LiveAccts
      BY <2>1, <2>3, <2>4 DEF LiveAccts
    <2>7. AcctRows'
      BY <2>3, <2>4, <2>5, <2>6
         DEF Tables, AcctRows, BoundIsLinked, NoZombie, LinkedIsBrokerOnly, Finite, LiveAccts
    <2>8. \A x \in LiveAccts : acct[x].bound # None => acct'[x].bound = acct[x].bound
      BY <2>2, <2>4 DEF LiveAccts, a
    <2> QED BY <2>6, <2>7, <2>8, AcctSound DEF Link, history, KeepsStep
  <1> QED BY <1>1, <1>2

LEMMA DeleteWriteSound ==
  ASSUME TypeOK, Tables, NEW r \in Slots, Knows(r), DeleteWrite(r)
  PROVE  Sound
  <1> DEFINE a == req[r].a
  <1>1. /\ a \in LiveAccts /\ acct[a].bound = None
        /\ \E x \in LiveAccts : x # a
    BY DEF DeleteWrite, Knows, Managing, Linkable
  <1>2. acct' = Remove(a, acct) /\ UNCHANGED <<conn, rescues>>
    BY <1>1 DEF DeleteWrite, history
  <1> HIDE DEF a
  <1>3. acct'[a].st = "gone" /\ \A x \in Accts : x # a => acct'[x] = acct[x]
    BY <1>1, <1>2 DEF Remove, NoAcct, LiveAccts, TypeOK
  <1>4. LiveAccts' = LiveAccts \ {a}
    BY <1>3 DEF LiveAccts
  <1>5. Finite'
    BY <1>4, FS_Subset DEF Tables, AcctRows, Finite
  <1>6. AcctRows'
    BY <1>3, <1>4, <1>5
       DEF Tables, AcctRows, BoundIsLinked, NoZombie, LinkedIsBrokerOnly, LiveAccts
  <1>7. \A x \in LiveAccts : acct[x].bound # None =>
          x \in LiveAccts' /\ acct'[x].bound = acct[x].bound
    BY <1>1, <1>3, <1>4 DEF LiveAccts
  <1> QED BY <1>1, <1>2, <1>4, <1>6, <1>7, AcctSound DEF KeepsStep

\* An edit of a manual account's rows, or of its broker.
LEMMA LedgerSound ==
  ASSUME Tables, UNCHANGED <<conn, rescues>>,
         \A a \in Accts : /\ acct'[a].st = acct[a].st
                          /\ acct'[a].bound = acct[a].bound
                          /\ acct'[a].state = acct[a].state
                          /\ a \in LiveAccts /\ acct[a].state # "manual" =>
                               acct'[a].ledger = acct[a].ledger
  PROVE  Sound
  <1>1. LiveAccts' = LiveAccts
    BY DEF LiveAccts
  <1>2. AcctRows'
    BY <1>1 DEF Tables, AcctRows, BoundIsLinked, NoZombie, LinkedIsBrokerOnly, Finite, LiveAccts
  <1> QED BY <1>1, <1>2, AcctSound DEF KeepsStep, LiveAccts

LEMMA RetagWriteSound ==
  ASSUME TypeOK, Tables, NEW r \in Slots, RetagWrite(r)
  PROVE  Sound
  <1>1. \A a \in Accts : /\ acct'[a].st = acct[a].st
                         /\ acct'[a].bound = acct[a].bound
                         /\ acct'[a].state = acct[a].state
                         /\ acct'[a].ledger = acct[a].ledger
    BY DEF RetagWrite, TypeOK, Acct
  <1> QED BY <1>1, LedgerSound DEF RetagWrite, history

LEMMA EntryWriteSound ==
  ASSUME TypeOK, Tables, NEW r \in Slots, Knows(r), EntryWrite(r)
  PROVE  Sound
  <1>1. Writable(req[r].a)
    BY DEF EntryWrite, Knows, Managing
  <1>2. \A a \in Accts : /\ acct'[a].st = acct[a].st
                         /\ acct'[a].bound = acct[a].bound
                         /\ acct'[a].state = acct[a].state
                         /\ a # req[r].a => acct'[a].ledger = acct[a].ledger
    BY DEF EntryWrite, TypeOK, Acct
  <1> QED BY <1>1, <1>2, LedgerSound DEF Writable, EntryWrite, history

LEMMA TransferWriteSound ==
  ASSUME TypeOK, Tables, NEW r \in Slots, Knows(r), TransferWrite(r)
  PROVE  Sound
  <1> DEFINE a == req[r].a
             b == req[r].b
             P == req[r].got \cap acct[a].ledger
  <1>1. a # b /\ Writable(a) /\ Writable(b) /\ a \in Accts /\ b \in Accts
    BY DEF TransferWrite, Knows, Moving, Writable, LiveAccts
  <1>2. UNCHANGED <<conn, rescues>>
    BY DEF TransferWrite, history
  <1>3. acct' \in {acct, Moved(a, b, P), Remove(a, Moved(a, b, P))}
    BY DEF TransferWrite
  <1>4. \A x \in Accts : /\ Moved(a, b, P)[x].st = acct[x].st
                         /\ Moved(a, b, P)[x].bound = acct[x].bound
                         /\ Moved(a, b, P)[x].state = acct[x].state
                         /\ x \notin {a, b} => Moved(a, b, P)[x] = acct[x]
    BY DEF Moved, TypeOK, Acct
  <1> DEFINE M == Moved(a, b, P)
  <1> HIDE DEF a, b, M
  <1>5. CASE acct' = acct
    BY <1>2, <1>5, ReadsSound
  <1>6. CASE acct' = M
    BY <1>1, <1>2, <1>4, <1>6, LedgerSound DEF Writable, M
  <1>7. CASE acct' = Remove(a, M)
    <2>1. acct'[a].st = "gone" /\ \A x \in Accts : x # a => acct'[x] = M[x]
      BY <1>1, <1>7 DEF Remove, NoAcct, M, Moved, TypeOK
    <2>2. LiveAccts' = LiveAccts \ {a}
      BY <1>4, <2>1 DEF LiveAccts, M
    <2>3. Finite'
      BY <2>2, FS_Subset DEF Tables, AcctRows, Finite
    <2>4. AcctRows'
      <3>1. \A x \in LiveAccts' : /\ x \in LiveAccts
                                  /\ acct'[x].bound = acct[x].bound
                                  /\ acct'[x].state = acct[x].state
                                  /\ x # b => acct'[x].ledger = acct[x].ledger
        BY <1>4, <2>1, <2>2 DEF M, LiveAccts
      <3>2. acct[b].state = "manual"
        BY <1>1 DEF Writable
      <3> QED BY <2>3, <3>1, <3>2
              DEF Tables, AcctRows, BoundIsLinked, NoZombie, LinkedIsBrokerOnly
    <2>5. acct[a].bound = None
      BY <1>1 DEF Tables, AcctRows, BoundIsLinked, Writable
    <2>6. \A x \in LiveAccts : acct[x].bound # None =>
            x \in LiveAccts' /\ acct'[x].bound = acct[x].bound
      BY <1>4, <2>1, <2>2, <2>5 DEF LiveAccts, M
    <2>7. KeepsStep
      BY <1>1, <2>2 DEF KeepsStep, Writable
    <2> QED BY <1>2, <2>4, <2>6, <2>7, AcctSound
  <1> QED BY <1>3, <1>5, <1>6, <1>7 DEF M

-----------------------------------------------------------------------------
(* The writes that touch broker_connections alone. *)

\* A row that was not live holds nothing, so whoever rows hang on has an account.
LEMMA ConnSound ==
  ASSUME Tables, UNCHANGED acct, ConnRows', ConnSteps,
         \A c \in LiveConns' : conn'[c].hold # {} => BoundTo(c) # {}
  PROVE  Sound
  <1> QED BY AcctRowsSame DEF Tables, Sound, NothingStranded, BoundTo, LiveAccts

LEMMA UpsertSound ==
  ASSUME TypeOK, Tables, NEW r \in Slots, Alone(r), Knows(r), Upsert(r),
         \A q \in Slots : q # r => req'[q] = req[q]
  PROVE  Sound
  <1>1. PICK c \in Conns :
          /\ conn' = [conn EXCEPT ![c] = Session(c, r)]
          /\ \/ c \in LiveConns /\ conn[c].demat = req[r].d
             \/ Stored(req[r].d) = {} /\ conn[c].st = "free"
    BY DEF Upsert, Stored, LiveConns
  <1>2. /\ conn'[c].st = "live" /\ conn'[c].demat = req[r].d
        /\ conn'[c].hold = conn[c].hold
        /\ conn'[c].session = "dead" => ~conn'[c].good
    BY <1>1 DEF Session, TypeOK, Conn
  <1>3. \A k \in Conns : k # c => conn'[k] = conn[k]
    BY <1>1 DEF TypeOK
  <1>4. LiveConns' = LiveConns \cup {c}
    BY <1>2, <1>3 DEF LiveConns
  <1>5. UNCHANGED <<acct, rescues>>
    BY DEF Upsert
  <1>6. ConnRows'
    <2>1. RowsAreOwned' /\ DeadIsDead'
      BY <1>2, <1>3, <1>4 DEF Tables, ConnRows, RowsAreOwned, DeadIsDead, LiveConns
    <2>2. \A k \in LiveConns : conn[k].demat = req[r].d => k = c
      BY <1>1 DEF Tables, ConnRows, OneRowEach, Stored
    <2>3. OneRowEach'
      BY <1>2, <1>3, <1>4, <2>2 DEF Tables, ConnRows, OneRowEach, LiveConns
    <2> QED BY <2>1, <2>3 DEF ConnRows
  <1>7. ExactStep
    <2>1. req[r].c # None => req[r].c = c
      <3>1. SUFFICES ASSUME req[r].c # None PROVE req[r].c = c
        OBVIOUS
      <3>2. req[r].c \in LiveConns /\ conn[req[r].c].demat = req[r].d
        BY <3>1 DEF Upsert, Knows, Connecting
      <3> QED BY <1>1, <3>2 DEF Tables, ConnRows, OneRowEach, Stored
    <2>2. \A q \in Slots : q # r => ~At(q, "upsert")
      BY DEF Alone, At
    <2> QED BY <1>3, <2>1, <2>2 DEF ExactStep
  <1>8. ForgetsStep /\ ConvertsStep /\ FrozenStep
    BY <1>2, <1>3, <1>5 DEF ForgetsStep, ConvertsStep, FrozenStep, LiveConns
  <1>9. \A k \in LiveConns' : conn'[k].hold # {} => BoundTo(k) # {}
    BY <1>1, <1>2, <1>3, <1>4
       DEF Tables, ConnRows, RowsAreOwned, NothingStranded, LiveConns
  <1> QED BY <1>5, <1>6, <1>7, <1>8, <1>9, ConnSound DEF ConnSteps

\* A step that is no login.
LEMMA NoLogin ==
  ASSUME NEW r \in Slots, Alone(r), ~At(r, "upsert")
  PROVE  ExactStep
  BY DEF Alone, At, ExactStep

LEMMA MarkDeadSound ==
  ASSUME TypeOK, Tables, NEW r \in Slots, Alone(r), Knows(r), MarkDead(r)
  PROVE  Sound
  <1>1. req[r].c \in LiveConns /\ ~conn[req[r].c].good
    BY DEF MarkDead, Knows, Syncing
  <1>2. \A k \in Conns : /\ conn'[k].st = conn[k].st /\ conn'[k].hold = conn[k].hold
                         /\ conn'[k].demat = conn[k].demat
                         /\ conn'[k].good = conn[k].good
                         /\ k # req[r].c => conn'[k] = conn[k]
    BY <1>1 DEF MarkDead, TypeOK, Conn
  <1>3. LiveConns' = LiveConns
    BY <1>2 DEF LiveConns
  <1>4. ConnRows'
    BY <1>1, <1>2, <1>3
       DEF Tables, ConnRows, RowsAreOwned, DeadIsDead, OneRowEach, LiveConns
  <1>5. ForgetsStep /\ ConvertsStep /\ FrozenStep
    BY <1>2 DEF MarkDead, history, ForgetsStep, ConvertsStep, FrozenStep, LiveConns
  <1>6. ExactStep
    BY NoLogin DEF MarkDead, At
  <1>7. \A k \in LiveConns' : conn'[k].hold # {} => BoundTo(k) # {}
    BY <1>2, <1>3 DEF Tables, NothingStranded, LiveConns
  <1> QED BY <1>4, <1>5, <1>6, <1>7, ConnSound DEF MarkDead, ConnSteps

LEMMA SnapCommitSound ==
  ASSUME TypeOK, Tables, NEW r \in Slots, Alone(r), Knows(r), SnapCommit(r)
  PROVE  Sound
  <1> DEFINE c == req[r].c
  <1>1. c \in LiveConns /\ conn[c].enabled /\ BoundTo(c) # {}
    BY DEF SnapCommit, Knows, Syncing, Enabled
  <1>2. conn' \in {conn, [conn EXCEPT ![c] = Snapshot(r)]} /\ UNCHANGED <<acct, rescues>>
    BY DEF SnapCommit, history
  <1> HIDE DEF c
  <1>3. CASE conn' = conn
    BY <1>2, <1>3, ReadsSound
  <1>4. CASE conn' = [conn EXCEPT ![c] = Snapshot(r)]
    <2>1. /\ conn'[c].st = "live" /\ conn'[c].session = "live"
          /\ conn'[c].demat = conn[c].demat
      BY <1>1, <1>4 DEF Snapshot, LiveConns, TypeOK, Conn, c
    <2>2. \A k \in Conns : k # c => conn'[k] = conn[k]
      BY <1>1, <1>4 DEF LiveConns, TypeOK
    <2>3. LiveConns' = LiveConns
      BY <1>1, <2>1, <2>2 DEF LiveConns
    <2>4. ConnRows'
      BY <2>1, <2>2, <2>3
         DEF Tables, ConnRows, RowsAreOwned, DeadIsDead, OneRowEach, LiveConns
    <2>5. ForgetsStep /\ ConvertsStep /\ FrozenStep
      BY <1>1, <1>2, <2>1, <2>2 DEF ForgetsStep, ConvertsStep, FrozenStep, LiveConns
    <2>6. ExactStep
      BY NoLogin DEF SnapCommit, At
    <2>7. \A k \in LiveConns' : conn'[k].hold # {} => BoundTo(k) # {}
      BY <1>1, <2>2, <2>3 DEF Tables, NothingStranded, LiveConns
    <2> QED BY <1>2, <2>4, <2>5, <2>6, <2>7, ConnSound DEF ConnSteps
  <1> QED BY <1>2, <1>3, <1>4

-----------------------------------------------------------------------------
(* The writes that touch both tables. *)

\* severBinding and resumeBinding: the switch of a connection and the state of
\* the account bound to it.
LEMMA SwitchSound ==
  ASSUME TypeOK, Tables, NEW r \in Slots, Alone(r), ~At(r, "upsert"),
         NEW c \in LiveConns, NEW on \in BOOLEAN,
         NEW s \in {"linked_live", "linked_stale"},
         conn' = [conn EXCEPT ![c].enabled = on], acct' = Stated(acct, c, s),
         UNCHANGED rescues
  PROVE  Sound
  <1>1. \A k \in Conns : /\ conn'[k].st = conn[k].st
                         /\ conn'[k].hold = conn[k].hold
                         /\ conn'[k].demat = conn[k].demat
                         /\ conn'[k].good = conn[k].good
                         /\ conn'[k].session = conn[k].session
    BY DEF LiveConns, TypeOK, Conn
  <1>2. LiveConns' = LiveConns
    BY <1>1 DEF LiveConns
  <1>3. c # None
    BY ConstantsAssumption DEF LiveConns
  <1>4. \A a \in Accts : /\ acct'[a].st = acct[a].st
                         /\ acct'[a].bound = acct[a].bound
                         /\ acct'[a].ledger = acct[a].ledger
                         /\ \/ acct'[a].state = acct[a].state
                            \/ a \in LiveAccts /\ acct[a].bound = c /\ acct'[a].state = s
    BY DEF Stated, BoundTo, TypeOK, Acct
  <1>5. LiveAccts' = LiveAccts
    BY <1>4 DEF LiveAccts
  <1>6. ConnRows'
    BY <1>1, <1>2 DEF Tables, ConnRows, RowsAreOwned, DeadIsDead, OneRowEach, LiveConns
  <1>7. AcctRows'
    BY <1>3, <1>4, <1>5
       DEF Tables, AcctRows, BoundIsLinked, NoZombie, LinkedIsBrokerOnly, Finite, LiveAccts
  <1>8. NothingStranded'
    BY <1>1, <1>2, <1>4, <1>5
       DEF Tables, NothingStranded, BoundTo, LiveConns, LiveAccts
  <1>9. AcctSteps
    BY <1>4, <1>5 DEF AcctSteps, KeepsStep, AnchorStep, LiveAccts
  <1>10. ForgetsStep /\ ConvertsStep /\ FrozenStep
    BY <1>1 DEF ForgetsStep, ConvertsStep, FrozenStep, LiveConns
  <1> QED BY <1>6, <1>7, <1>8, <1>9, <1>10, NoLogin DEF Sound, Tables, ConnSteps

LEMMA SeverSound ==
  ASSUME TypeOK, Tables, NEW r \in Slots, Alone(r), Sever(r)
  PROVE  Sound
  <1>1. ~At(r, "upsert") /\ UNCHANGED rescues
    BY DEF Sever, At, history
  <1>2. CASE req[r].c \in LiveConns
    BY <1>1, <1>2, SwitchSound DEF Sever, Severed
  <1>3. CASE req[r].c \notin LiveConns
    BY <1>1, <1>3, ReadsSound DEF Sever
  <1> QED BY <1>2, <1>3

LEMMA ActivateSound ==
  ASSUME TypeOK, Tables, NEW r \in Slots, Alone(r), NEW c \in Conns, Activate(r, c)
  PROVE  Sound
  <1>1. ~At(r, "upsert") /\ UNCHANGED rescues
    BY DEF Activate, Free, At, history
  <1> QED BY <1>1, SwitchSound DEF Activate

\* A connection that goes lets its account go.
LEMMA ForgetConn ==
  ASSUME TypeOK, ConnRows, NEW c \in LiveConns, conn' = Forget(c)
  PROVE  /\ ConnRows' /\ FrozenStep /\ LiveConns' = LiveConns \ {c}
         /\ conn'[c].st = "gone" /\ \A k \in Conns : k # c => conn'[k] = conn[k]
  <1>1. conn'[c].st = "gone" /\ conn'[c].hold = {}
    BY DEF Forget, NoConn, LiveConns, TypeOK
  <1>2. \A k \in Conns : k # c => conn'[k] = conn[k]
    BY DEF Forget, TypeOK
  <1>3. LiveConns' = LiveConns \ {c}
    BY <1>1, <1>2 DEF LiveConns
  <1>4. ConnRows'
    BY <1>1, <1>2, <1>3
       DEF ConnRows, RowsAreOwned, DeadIsDead, OneRowEach, LiveConns
  <1>5. FrozenStep
    BY <1>1, <1>2 DEF FrozenStep, LiveConns
  <1> QED BY <1>1, <1>2, <1>3, <1>4, <1>5

LEMMA ClearCommitSound ==
  ASSUME TypeOK, Tables, NEW r \in Slots, Alone(r), Knows(r), ClearCommit(r)
  PROVE  Sound
  <1> DEFINE c == req[r].c
  <1>1. c \in LiveConns /\ ~conn[c].enabled /\ req[r].marked = BoundTo(c)
    BY DEF ClearCommit, Knows, Feeding, Clearable
  <1>2. /\ conn' = Forget(c) /\ acct' = Cleared(c, BoundTo(c))
        /\ UNCHANGED rescues /\ ~At(r, "upsert")
    BY <1>1 DEF ClearCommit, history, At
  <1> HIDE DEF c
  <1>3. /\ ConnRows' /\ FrozenStep /\ LiveConns' = LiveConns \ {c}
        /\ conn'[c].st = "gone" /\ \A k \in Conns : k # c => conn'[k] = conn[k]
    BY <1>1, <1>2, ForgetConn DEF Tables
  <1>4. \A a \in Accts :
          acct'[a] = IF a \in BoundTo(c)
                     THEN [acct[a] EXCEPT !.state = "linked_stale", !.bound = None]
                     ELSE acct[a]
    BY <1>2 DEF Cleared, SetNull, BoundTo, TypeOK, Acct
  <1>5. \A a \in Accts : /\ acct'[a].st = acct[a].st
                         /\ acct'[a].ledger = acct[a].ledger
                         /\ a \in BoundTo(c) => /\ acct'[a].state = "linked_stale"
                                                /\ acct'[a].bound = None
                         /\ a \notin BoundTo(c) => acct'[a] = acct[a]
    BY <1>4 DEF TypeOK, Acct
  <1>6. LiveAccts' = LiveAccts
    BY <1>5 DEF LiveAccts
  <1>7. c # None
    BY <1>1, ConstantsAssumption DEF LiveConns
  <1>8. AcctRows'
    BY <1>5, <1>6, <1>7
       DEF Tables, AcctRows, BoundIsLinked, NoZombie, LinkedIsBrokerOnly, Finite, LiveAccts, BoundTo
  <1>9. NothingStranded'
    BY <1>3, <1>5, <1>6 DEF Tables, NothingStranded, BoundTo, LiveConns, LiveAccts
  <1>10. AcctSteps
    BY <1>3, <1>5, <1>6 DEF AcctSteps, KeepsStep, AnchorStep, LiveAccts, BoundTo
  <1>11. ForgetsStep /\ ConvertsStep
    BY <1>1, <1>2, <1>3 DEF ForgetsStep, ConvertsStep, LiveConns
  <1> QED BY <1>2, <1>3, <1>8, <1>9, <1>10, <1>11, NoLogin DEF Sound, Tables, ConnSteps

LEMMA RescueCommitSound ==
  ASSUME TypeOK, OneEach, Tables, NEW r \in Slots, Alone(r), Knows(r), RescueCommit(r)
  PROVE  Sound
  <1> DEFINE a == req[r].a
             b == req[r].b
             c == req[r].c
  <1>1. /\ a # b /\ a \in LiveAccts /\ Writable(b) /\ acct[a].bound = c
        /\ c \in Conns /\ conn[c].hold \subseteq req[r].got /\ ~At(r, "upsert")
    BY DEF RescueCommit, Knows, Moving, At
  <1>2. CASE ~Intact(r)
    BY <1>2, ReadsSound DEF RescueCommit
  <1>3. CASE Intact(r)
    <2> DEFINE paid == [acct EXCEPT ![b].ledger = @ \cup req[r].got]
    <2>1. /\ c \in LiveConns /\ conn' = Forget(c)
          /\ acct' = Remove(a, SetNull(c, paid))
          /\ rescues' = [rescues EXCEPT ![c] = @ + 1]
      BY <1>3 DEF RescueCommit, Intact, Rescued
    <2>2. \A k \in Conns : k # c => rescues'[k] = rescues[k]
      BY <2>1 DEF TypeOK
    <2>3. \A x \in Accts : /\ paid[x].st = acct[x].st /\ paid[x].bound = acct[x].bound
                           /\ paid[x].state = acct[x].state
                           /\ x # b => paid[x] = acct[x]
      BY DEF TypeOK, Acct
    <2>4. req[r].got \subseteq paid[b].ledger
      BY <1>1 DEF TypeOK, Acct, Writable, LiveAccts
    <2> HIDE DEF a, b, c, paid
    <2>5. \A x \in LiveAccts : acct[x].bound = c => x = a
      BY <1>1 DEF OneEach, LiveAccts
    <2>6. SetNull(c, paid) = [x \in Accts |-> IF x = a THEN [paid[x] EXCEPT !.bound = None]
                                              ELSE paid[x]]
      BY <1>1, <2>3, <2>5 DEF SetNull, LiveAccts
    <2>7. /\ acct'[a].st = "gone"
          /\ \A x \in Accts : x # a => acct'[x] = paid[x]
      BY <1>1, <2>1, <2>6 DEF Remove, NoAcct, LiveAccts
    <2>8. LiveAccts' = LiveAccts \ {a}
      BY <2>3, <2>7 DEF LiveAccts
    <2>9. b \in LiveAccts' /\ conn[c].hold \subseteq acct'[b].ledger /\ b \in Accts
      BY <1>1, <2>4, <2>7, <2>8 DEF Writable, LiveAccts
    <2>10. /\ ConnRows' /\ FrozenStep /\ LiveConns' = LiveConns \ {c}
           /\ conn'[c].st = "gone" /\ \A k \in Conns : k # c => conn'[k] = conn[k]
      BY <2>1, ForgetConn DEF Tables
    <2>11. Finite'
      BY <2>8, FS_Subset DEF Tables, AcctRows, Finite
    <2>12. \A x \in LiveAccts' : /\ x \in LiveAccts /\ x # a
                                 /\ acct'[x].bound = acct[x].bound
                                 /\ acct'[x].state = acct[x].state
                                 /\ x # b => acct'[x].ledger = acct[x].ledger
      BY <2>3, <2>7, <2>8 DEF LiveAccts
    <2>13. AcctRows'
      BY <1>1, <2>11, <2>12
         DEF Writable, Tables, AcctRows, BoundIsLinked, NoZombie, LinkedIsBrokerOnly
    <2>14. NothingStranded'
      <3> SUFFICES ASSUME NEW k \in LiveConns', conn'[k].hold # {}
                   PROVE  BoundTo(k)' # {}
        BY DEF NothingStranded
      <3>1. k \in LiveConns /\ k # c /\ conn'[k] = conn[k]
        BY <2>10 DEF LiveConns
      <3>2. PICK x \in LiveAccts : acct[x].bound = k
        BY <3>1 DEF Tables, NothingStranded, BoundTo
      <3>3. x # a
        BY <1>1, <3>1, <3>2
      <3>4. x \in LiveAccts' /\ acct'[x].bound = k
        BY <2>8, <2>12, <3>2, <3>3
      <3> QED BY <3>4 DEF BoundTo
    <2>15. AcctSteps
      <3>1. KeepsStep
        BY <2>9 DEF KeepsStep
      <3>2. AnchorStep
        BY <2>7, <2>8, <2>12 DEF AnchorStep
      <3> QED BY <3>1, <3>2 DEF AcctSteps
    <2>16. ForgetsStep /\ ConvertsStep
      BY <2>2, <2>9, <2>10 DEF ForgetsStep, ConvertsStep, LiveConns
    <2> QED BY <1>1, <2>10, <2>13, <2>14, <2>15, <2>16, NoLogin DEF Sound, Tables, ConnSteps
  <1> QED BY <1>2, <1>3

-----------------------------------------------------------------------------
(* One step of one request, while the others are idle. *)

OthersSame(r) == \A q \in Slots : q # r => req'[q] = req[q]

LEMMA OnlySlot ==
  ASSUME TypeOK, NEW r \in Slots,
         \/ Done(r) \/ UNCHANGED req \/ \E q : req' = [req EXCEPT ![r] = q]
         \/ \E q : Begins(r, q) \/ Goto(r, q)
  PROVE  OthersSame(r)
  BY DEF OthersSame, Done, Begins, Goto, TypeOK

\* A step of r that leaves the system as its invariant wants it.
Good(r) == Sound /\ Knows(r)' /\ OthersSame(r)

LEMMA ReadGood ==
  ASSUME Tables, NEW r \in Slots, UNCHANGED <<conn, acct, history>>, Knows(r)',
         OthersSame(r)
  PROVE  Good(r)
  BY ReadsSound DEF Good, history

LEMMA WriteGood ==
  ASSUME TypeOK, NEW r \in Slots, Done(r), Sound
  PROVE  Good(r)
  BY DoneKnows, OnlySlot DEF Good

LEMMA ConnectGood ==
  ASSUME TypeOK, Tables, NEW r \in Slots, Alone(r), Knows(r), ConnectStep(r)
  PROVE  Good(r)
  <1>1. ASSUME NEW s \in States, NEW b \in Brokers, NEW c \in Conns \cup {None},
               Complete(r, s, b, c)
        PROVE  Good(r)
    <2>1. UNCHANGED <<conn, acct, history>> /\ \E q : Begins(r, q)
      BY <1>1 DEF Complete
    <2> QED BY <1>1, <2>1, LoginKnows, OnlySlot, ReadGood
  <1>2. ASSUME NEW b \in Brokers, Integrate(r, b)
        PROVE  Good(r)
    <2>1. UNCHANGED <<conn, acct, history>> /\ \E q : Begins(r, q)
      BY <1>2 DEF Integrate
    <2> QED BY <1>2, <2>1, LoginKnows, OnlySlot, ReadGood
  <1>3. CASE ExpectRead(r)
    <2>1. OthersSame(r)
      BY <1>3, OnlySlot DEF ExpectRead, OthersSame
    <2>2. UNCHANGED <<conn, acct, history>>
      BY <1>3 DEF ExpectRead
    <2> QED BY <1>3, <2>1, <2>2, LoginKnows, ReadGood
  <1>4. CASE Authenticate(r)
    <2>1. OthersSame(r)
      BY <1>4, OnlySlot DEF Authenticate, OthersSame
    <2>2. UNCHANGED <<conn, acct, history>>
      BY <1>4 DEF Authenticate
    <2> QED BY <1>4, <2>1, <2>2, LoginKnows, ReadGood
  <1>5. CASE Upsert(r)
    <2>1. PICK c \in Conns : req' = [req EXCEPT ![r].pc = "relink", ![r].c = c]
      BY <1>5 DEF Upsert, Stored, LiveConns
    <2>2. OthersSame(r)
      BY <2>1 DEF OthersSame, TypeOK
    <2>3. req'[r].pc = "relink" /\ req'[r].c = c
      BY <2>1 DEF TypeOK, Req
    <2>4. Knows(r)'
      BY <2>3 DEF Knows, Connecting, Syncing, Feeding, Managing, Moving, At
    <2> QED BY <1>5, <2>2, <2>4, UpsertSound DEF Good, OthersSame
  <1>6. CASE Relink(r)
    BY <1>6, RelinkSound, WriteGood DEF Relink
  <1> QED BY <1>1, <1>2, <1>3, <1>4, <1>5, <1>6 DEF ConnectStep

LEMMA SyncGood ==
  ASSUME TypeOK, Tables, NEW r \in Slots, Alone(r), Knows(r), SyncStep(r)
  PROVE  Good(r)
  <1>1. CASE \/ \E c \in Conns : SyncNow(r, c) \/ SweepNext(r, c)
             \/ SweepSelect(r) \/ SyncBound(r) \/ Fetch(r) \/ SnapDelete(r)
    <2>1. UNCHANGED <<conn, acct, history>>
      BY <1>1 DEF SyncNow, SweepNext, SweepSelect, SyncBound, Fetch, SnapDelete
    <2>2. Knows(r)'
      BY <1>1, <2>1, SyncKnows
    <2>3. OthersSame(r)
      BY <1>1, OnlySlot
         DEF SyncNow, SweepNext, SweepSelect, SyncBound, Fetch, SnapDelete, OthersSame
    <2> QED BY <2>1, <2>2, <2>3, ReadGood
  <1>2. CASE MarkDead(r)
    BY <1>2, MarkDeadSound, WriteGood DEF MarkDead
  <1>3. CASE SnapCommit(r)
    <2>1. req'[r] = Finished(r)
      BY <1>3 DEF SnapCommit
    <2>2. Knows(r)'
      BY <2>1, FinishedType, NothingToKnow
    <2>3. OthersSame(r)
      BY <1>3 DEF SnapCommit, OthersSame, Alone, At
    <2> QED BY <1>3, <2>2, <2>3, SnapCommitSound DEF Good
  <1> QED BY <1>1, <1>2, <1>3 DEF SyncStep

LEMMA FeedGood ==
  ASSUME TypeOK, Tables, NEW r \in Slots, Alone(r), Knows(r), FeedStep(r)
  PROVE  Good(r)
  <1>1. CASE \/ \E c \in Conns : Deactivate(r, c) \/ Clear(r, c)
             \/ \E a \in Accts : Unlink(r, a)
             \/ ClearMark(r)
    <2>1. UNCHANGED <<conn, acct, history>>
      BY <1>1 DEF Deactivate, Clear, Unlink, ClearMark
    <2>2. Knows(r)'
      BY <1>1, <2>1, FeedKnows
    <2>3. OthersSame(r)
      BY <1>1, OnlySlot DEF Deactivate, Clear, Unlink, ClearMark, OthersSame
    <2> QED BY <2>1, <2>2, <2>3, ReadGood
  <1>2. ASSUME NEW c \in Conns, Activate(r, c)
        PROVE  Good(r)
    <2>1. UNCHANGED req /\ req[r].pc = "idle"
      BY <1>2 DEF Activate, Free, At
    <2>2. Knows(r)'
      BY <2>1, NothingToKnow
    <2> QED BY <1>2, <2>1, <2>2, ActivateSound, OnlySlot DEF Good
  <1>3. CASE Sever(r)
    BY <1>3, SeverSound, WriteGood DEF Sever
  <1>4. CASE ClearCommit(r)
    BY <1>4, ClearCommitSound, WriteGood DEF ClearCommit
  <1> QED BY <1>1, <1>2, <1>3, <1>4 DEF FeedStep

LEMMA AccountGood ==
  ASSUME TypeOK, Tables, NEW r \in Slots, Knows(r), AccountStep(r)
  PROVE  Good(r)
  <1>1. CASE \/ \E a \in Accts, c \in Conns : LinkRead(r, a, c)
             \/ \E a \in Accts : Delete(r, a)
             \/ \E a \in Accts, b \in Brokers : Retag(r, a, b)
             \/ \E a \in Accts, p \in Positions : AddEntry(r, a, p)
             \/ LinkClaim(r) \/ DeleteCount(r)
    <2>1. UNCHANGED <<conn, acct, history>>
      BY <1>1 DEF LinkRead, Delete, Retag, AddEntry, LinkClaim, DeleteCount
    <2>2. Knows(r)'
      BY <1>1, <2>1, AccountKnows DEF Tables, AcctRows
    <2>3. OthersSame(r)
      BY <1>1, OnlySlot
         DEF LinkRead, Delete, Retag, AddEntry, LinkClaim, DeleteCount
    <2> QED BY <2>1, <2>2, <2>3, ReadGood
  <1>2. ASSUME NEW b \in Brokers, Create(r, b)
        PROVE  Good(r)
    <2>1. UNCHANGED req /\ req[r].pc = "idle"
      BY <1>2 DEF Create, Free, At
    <2>2. Knows(r)'
      BY <2>1, NothingToKnow
    <2> QED BY <1>2, <2>1, <2>2, CreateSound, OnlySlot DEF Good
  <1>3. CASE Link(r)
    BY <1>3, LinkSound, WriteGood DEF Link
  <1>4. CASE DeleteWrite(r)
    BY <1>4, DeleteWriteSound, WriteGood DEF DeleteWrite
  <1>5. CASE RetagWrite(r)
    BY <1>5, RetagWriteSound, WriteGood DEF RetagWrite
  <1>6. CASE EntryWrite(r)
    BY <1>6, EntryWriteSound, WriteGood DEF EntryWrite
  <1> QED BY <1>1, <1>2, <1>3, <1>4, <1>5, <1>6 DEF AccountStep

LEMMA MoveGood ==
  ASSUME TypeOK, OneEach, Tables, NEW r \in Slots, Alone(r), Knows(r), MoveStep(r)
  PROVE  Good(r)
  <1>1. CASE \/ \E a, b \in Accts, flag \in BOOLEAN,
                   P \in {{p} : p \in Positions} \cup {Positions} :
                  Transfer(r, a, b, P, flag)
             \/ \E a, b \in Accts : Rescue(r, a, b)
             \/ RescueRead(r)
    <2>1. UNCHANGED <<conn, acct, history>>
      BY <1>1 DEF Transfer, Rescue, RescueRead
    <2>2. Knows(r)'
      BY <1>1, <2>1, MoveKnows DEF Tables, AcctRows
    <2>3. OthersSame(r)
      <3>1. CASE RescueRead(r)
        BY <3>1, OnlySlot DEF RescueRead, OthersSame
      <3>2. CASE ~RescueRead(r)
        BY <1>1, <3>2, OnlySlot DEF Transfer, Rescue
      <3> QED BY <3>1, <3>2
    <2> QED BY <2>1, <2>2, <2>3, ReadGood
  <1>2. CASE TransferWrite(r)
    BY <1>2, TransferWriteSound, WriteGood DEF TransferWrite
  <1>3. CASE RescueCommit(r)
    BY <1>3, RescueCommitSound, WriteGood DEF RescueCommit
  <1> QED BY <1>1, <1>2, <1>3 DEF MoveStep

LEMMA DiesGood ==
  ASSUME TypeOK, Tables, NEW r \in Slots, Dies(r)
  PROVE  Good(r)
  <1>1. req'[r].pc = "idle" /\ UNCHANGED <<conn, acct, history>> /\ OthersSame(r)
    BY DEF Dies, Idle, TypeOK, OthersSame
  <1> QED BY <1>1, NothingToKnow, ReadGood

-----------------------------------------------------------------------------
(* The invariant under the next-state relation. *)

\* A token dies in every row and every request that holds it.
LEMMA TokenDiesKeeps ==
  ASSUME TypeOK, SerialInv, NEW d \in Demats, TokenDies(d)
  PROVE  Sound /\ \A r \in Slots : Knows(r)'
  <1>1. \A c \in Conns : /\ conn'[c].st = conn[c].st /\ conn'[c].hold = conn[c].hold
                         /\ conn'[c].demat = conn[c].demat
                         /\ conn'[c].enabled = conn[c].enabled
                         /\ conn'[c].session = conn[c].session
                         /\ conn'[c].good => conn[c].good /\ conn[c].demat # d
    BY DEF TokenDies, TypeOK, Conn
  <1>2. LiveConns' = LiveConns
    BY <1>1 DEF LiveConns
  <1>3. ConnRows'
    BY <1>1, <1>2
       DEF SerialInv, Tables, ConnRows, RowsAreOwned, DeadIsDead, OneRowEach, LiveConns
  <1>4. UNCHANGED <<acct, rescues>>
    BY DEF TokenDies, history
  <1>5. \A r \in Slots : /\ req'[r].pc = req[r].pc /\ req'[r].a = req[r].a
                         /\ req'[r].b = req[r].b /\ req'[r].c = req[r].c
                         /\ req'[r].d = req[r].d /\ req'[r].flag = req[r].flag
                         /\ req'[r].got = req[r].got /\ req'[r].marked = req[r].marked
                         /\ req[r].d # d => req'[r] = req[r]
    BY DEF TokenDies, TypeOK, Req
  <1>6. ConnSteps
    BY <1>1, <1>4, <1>5
       DEF ConnSteps, ExactStep, ForgetsStep, ConvertsStep, FrozenStep, LiveConns, At
  <1>7. Sound
    BY <1>1, <1>2, <1>3, <1>4, <1>6, ConnSound
       DEF SerialInv, Tables, NothingStranded, LiveConns
  <1>8. ASSUME NEW r \in Slots
        PROVE  Knows(r)'
    <2>1. Knows(r)
      BY DEF SerialInv
    <2>2. Connecting(r)'
      BY <1>1, <1>2, <1>5, <2>1 DEF Knows, Connecting, At, LiveConns
    <2>3. Syncing(r)'
      BY <1>1, <1>2, <1>4, <1>5, <2>1
         DEF Knows, Syncing, At, Enabled, BoundTo, LiveConns, LiveAccts
    <2>4. Feeding(r)'
      BY <1>1, <1>2, <1>4, <1>5, <2>1
         DEF Knows, Feeding, At, Clearable, BoundTo, LiveConns, LiveAccts
    <2>5. Managing(r)'
      BY <1>4, <1>5, <2>1 DEF Knows, Managing, At, Linkable, Writable, LiveAccts
    <2>6. Moving(r)'
      BY <1>1, <1>4, <1>5, <2>1 DEF Knows, Moving, At, Writable, LiveAccts
    <2> QED BY <2>2, <2>3, <2>4, <2>5, <2>6 DEF Knows
  <1> QED BY <1>7, <1>8

LEMMA GoodKeeps ==
  ASSUME SerialInv, NEW r \in Slots, Alone(r), Good(r)
  PROVE  SerialInv' /\ AcctSteps /\ ConnSteps
  <1>1. ASSUME NEW q \in Slots, q # r
        PROVE  Knows(q)'
    <2>1. req'[q].pc = "idle"
      BY <1>1 DEF Good, OthersSame, Alone, At
    <2> QED BY <2>1, NothingToKnow
  <1> QED BY <1>1 DEF Good, Sound, SerialInv

LEMMA SerialKeeps ==
  ASSUME IInv, SerialInv, [SerialNext]_vars
  PROVE  SerialInv' /\ AcctSteps /\ ConnSteps
  <1>1. TypeOK /\ OneEach /\ Tables /\ \A r \in Slots : Knows(r)
    BY DEF IInv, SerialInv
  <1>2. ASSUME NEW r \in Slots, Alone(r),
               \/ ConnectStep(r) \/ SyncStep(r) \/ FeedStep(r)
               \/ AccountStep(r) \/ MoveStep(r) \/ Dies(r)
        PROVE  Good(r)
    BY <1>1, <1>2, ConnectGood, SyncGood, FeedGood, AccountGood, MoveGood, DiesGood
  <1>3. CASE UNCHANGED <<conn, acct, req, rescues>>
    <2>1. Sound
      BY <1>1, <1>3, ReadsSound
    <2>2. ASSUME NEW r \in Slots
          PROVE  Knows(r)'
      BY <1>1, <1>3
         DEF Knows, Connecting, Syncing, Feeding, Managing, Moving, At, Enabled,
             Clearable, Linkable, Writable, BoundTo, LiveConns, LiveAccts
    <2> QED BY <2>1, <2>2 DEF Sound, SerialInv
  <1>4. CASE World
    <2>1. CASE \E d \in Demats : TokenDies(d)
      BY <1>1, <2>1, TokenDiesKeeps DEF Sound, SerialInv
    <2>2. CASE ~\E d \in Demats : TokenDies(d)
      BY <1>3, <1>4, <2>2 DEF World, Initiate, StateExpires, history
    <2> QED BY <2>1, <2>2
  <1>5. CASE UNCHANGED vars
    BY <1>3, <1>5 DEF vars
  <1> QED BY <1>2, <1>4, <1>5, GoodKeeps DEF SerialNext

LEMMA SerialInit == Init => SerialInv
  <1> SUFFICES ASSUME Init PROVE SerialInv
    OBVIOUS
  <1>1. LiveConns = {} /\ LiveAccts = {}
    BY DEF Init, LiveConns, LiveAccts, NoConn, NoAcct
  <1>2. Tables
    BY <1>1, FS_EmptySet
       DEF Init, NoConn, Tables, ConnRows, AcctRows, RowsAreOwned, DeadIsDead, OneRowEach,
           BoundIsLinked, NoZombie, LinkedIsBrokerOnly, Finite, NothingStranded
  <1>3. \A r \in Slots : Knows(r)
    BY DEF Init, Idle, Knows, Connecting, Syncing, Feeding, Managing, Moving, At
  <1> QED BY <1>2, <1>3 DEF SerialInv

\* Requests that do not overlap are requests.
LEMMA SerialIsSpec == SerialSpec => Spec
  <1>1. [SerialNext]_vars => [Next]_vars
    BY DEF SerialNext, Next
  <1> QED BY <1>1, PTL DEF SerialSpec, Spec

LEMMA SerialInvariance == SerialSpec => [](IInv /\ SerialInv)
  <1>1. IInv /\ SerialInv /\ [SerialNext]_vars => SerialInv'
    BY SerialKeeps
  <1> QED BY <1>1, SerialInit, SerialIsSpec, Invariance, PTL DEF SerialSpec

-----------------------------------------------------------------------------
(* What one request at a time keeps. *)

\* One request at a time, no account is left linked without a connection: clearData and
\* rescueLinkedAccount drop a binding only with the account's live state (deleteAccount's
\* comment calls the state one the machine cannot produce).
THEOREM SerialNoZombie == SerialSpec => []NoZombie
  <1>1. SerialInv => NoZombie
    BY DEF SerialInv, Tables, AcctRows
  <1> QED BY <1>1, SerialInvariance, PTL

\* linkAccount and resolveWritableAccount: one request at a time, a linked account holds
\* no hand-entered row, so no surface counts a position twice.
THEOREM SerialBrokerOnly == SerialSpec => []LinkedIsBrokerOnly
  <1>1. SerialInv => LinkedIsBrokerOnly
    BY DEF SerialInv, Tables, AcctRows
  <1> QED BY <1>1, SerialInvariance, PTL

\* syncHoldings and deleteAccount's allow-list: one request at a time, synced rows always
\* hang on a connection that an account shows.
THEOREM SerialNothingStranded == SerialSpec => []NothingStranded
  <1>1. SerialInv => NothingStranded
    BY DEF SerialInv, Tables
  <1> QED BY <1>1, SerialInvariance, PTL

\* syncHoldings' markDead and persistSession: one request at a time, a session the sweep
\* skips is one whose stored token the broker refuses.
THEOREM SerialDeadIsDead == SerialSpec => []DeadIsDead
  <1>1. SerialInv => DeadIsDead
    BY DEF SerialInv, Tables, ConnRows
  <1> QED BY <1>1, SerialInvariance, PTL

\* deleteAccount's count, transferAllManualPositions and rescueLinkedAccount: one request
\* at a time, the last account is never deleted.
THEOREM SerialKeepsAnAccount == SerialSpec => KeepsAnAccount
  <1>1. IInv /\ SerialInv /\ [SerialNext]_vars
          => [LiveAccts # {} => LiveAccts' # {}]_acct
    BY SerialKeeps DEF AcctSteps, KeepsStep
  <1> QED BY <1>1, SerialInvariance, PTL DEF SerialSpec, KeepsAnAccount

\* linkAccount, clearData and rescueLinkedAccount: one request at a time, an account
\* changes connection only when the connection it has is deleted, or it is itself.
THEOREM SerialAnchor == SerialSpec => BindingIsAnchor
  <1>1. IInv /\ SerialInv /\ [SerialNext]_vars => [AnchorStep]_vars
    BY SerialKeeps DEF AcctSteps
  <1>2. BindingIsAnchor <=> [][AnchorStep]_vars
    BY PTL DEF BindingIsAnchor, AnchorStep
  <1> QED BY <1>1, <1>2, SerialInvariance, PTL DEF SerialSpec

\* completeIntegration with expectedConnectionId: one request at a time, a reconnect
\* writes the row it named and no other.
THEOREM SerialReconnect == SerialSpec => ReconnectIsExact
  <1>1. IInv /\ SerialInv /\ [SerialNext]_vars => [ExactStep]_vars
    BY SerialKeeps DEF ConnSteps
  <1>2. ReconnectIsExact <=> [][ExactStep]_vars
    BY PTL DEF ReconnectIsExact, ExactStep
  <1> QED BY <1>1, <1>2, SerialInvariance, PTL DEF SerialSpec

\* clearData and rescueLinkedAccount: one request at a time, broker rows vanish only with
\* a severed connection or into a ledger.
THEOREM SerialForgets == SerialSpec => ForgetsDeliberately
  <1>1. IInv /\ SerialInv /\ [SerialNext]_vars => [ForgetsStep]_vars
    BY SerialKeeps DEF ConnSteps
  <1>2. ForgetsDeliberately <=> [][ForgetsStep]_vars
    BY PTL DEF ForgetsDeliberately, ForgetsStep
  <1> QED BY <1>1, <1>2, SerialInvariance, PTL DEF SerialSpec

\* rescueLinkedAccount: one request at a time, every broker row a rescue destroys is in
\* the destination's ledger.
THEOREM SerialRescueKeeps == SerialSpec => RescueKeepsAll
  <1>1. IInv /\ SerialInv /\ [SerialNext]_vars => [ConvertsStep]_vars
    BY SerialKeeps DEF ConnSteps
  <1>2. RescueKeepsAll <=> [][ConvertsStep]_vars
    BY PTL DEF RescueKeepsAll, ConvertsStep
  <1> QED BY <1>1, <1>2, SerialInvariance, PTL DEF SerialSpec

\* severBinding and syncHoldings: one request at a time, no sync writes the rows of a
\* severed connection.
THEOREM SerialFrozen == SerialSpec => FrozenWhileSevered
  <1>1. IInv /\ SerialInv /\ [SerialNext]_vars => [FrozenStep]_vars
    BY SerialKeeps DEF ConnSteps
  <1>2. FrozenWhileSevered <=> [][FrozenStep]_vars
    BY PTL DEF FrozenWhileSevered, FrozenStep
  <1> QED BY <1>1, <1>2, SerialInvariance, PTL DEF SerialSpec
=============================================================================
