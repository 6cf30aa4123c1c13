--------------------------- MODULE BrokerLifecycle ---------------------------
(***************************************************************************)
(* One user's broker connections and portfolio accounts: integrate and     *)
(* reconnect, sync (by hand and by the BROKER_POLL_SYNC sweep), sever,     *)
(* resume, clear, link, rescue, and the account operations they race with  *)
(* (brokers/lifecycle.ts, brokers/security/state-store.ts,                 *)
(* controllers/me/accounts-controller.ts, portfolio/transfer.ts).          *)
(*                                                                         *)
(* A request is a slot that performs one database statement, one database  *)
(* transaction or one broker call per step; between two steps of a request *)
(* the other slots may run.  A request the code refuses changes nothing    *)
(* and is not started.  The transactions run at READ COMMITTED: one whose  *)
(* statements another transaction can fall between is two steps.           *)
(***************************************************************************)
EXTENDS Integers, FiniteSets

CONSTANTS
  Conns,      \* identities of broker_connections rows; bound: rows ever created
  Accts,      \* identities of portfolio_accounts rows; bound likewise
  States,     \* OAuth states; bound: interactive logins begun
  Demats,     \* the user's demat accounts: (broker, brokerAccountRef)
  Brokers,    \* the broker catalogue
  BrokerOf,   \* [Demats -> Brokers]
  OneShot,    \* brokers with a non-interactive adapter (integrate)
  Positions,  \* instruments a demat or a ledger can hold
  Unmapped,   \* those the catalogue has no instrument for
  Http,       \* slots for the user's requests: how many overlap
  Sweeps,     \* slots of the worker that runs BROKER_POLL_SYNC
  None        \* null

ASSUME ConstantsAssumption ==
  /\ BrokerOf \in [Demats -> Brokers] /\ OneShot \subseteq Brokers
  /\ Unmapped \subseteq Positions /\ Http \cap Sweeps = {}
  /\ None \notin Conns \cup Accts \cup States \cup Demats \cup Brokers

VARIABLES
  conn,     \* the broker_connections table with its broker_holdings
  acct,     \* the portfolio_accounts table with its transactions
  auth,     \* the broker_auth_states table
  req,      \* the requests in flight
  spent,    \* history: sessions stored on the strength of each OAuth state
  rescues   \* history: rescues committed from each connection

vars == <<conn, acct, auth, req, spent, rescues>>

Slots == Http \cup Sweeps

-----------------------------------------------------------------------------
(* Tables. *)

\* good: the broker accepts the token in session_blob, whatever session_state
\* says.  hold: the broker_holdings rows, by position.
Conn == [st : {"free", "live", "gone"}, demat : Demats \cup {None},
         enabled : BOOLEAN, session : {"live", "dead"}, good : BOOLEAN,
         hold : SUBSET Positions]

NoConn == [st |-> "free", demat |-> None, enabled |-> FALSE,
           session |-> "dead", good |-> FALSE, hold |-> {}]

\* ledger: the positions the account has transactions on.
Acct == [st : {"free", "live", "gone"}, broker : Brokers \cup {None},
         state : {"manual", "linked_live", "linked_stale"},
         bound : Conns \cup {None}, ledger : SUBSET Positions]

NoAcct == [st |-> "free", broker |-> None, state |-> "manual",
           bound |-> None, ledger |-> {}]

Auth == [st : {"free", "issued", "consumed", "expired"},
         broker : Brokers \cup {None}]

LiveConns == {c \in Conns : conn[c].st = "live"}
LiveAccts == {a \in Accts : acct[a].st = "live"}
BoundTo(c) == {a \in LiveAccts : acct[a].bound = c}
ConnBroker(c) == BrokerOf[conn[c].demat]

\* ON DELETE SET NULL and CASCADE of the schema.
SetNull(c, A) == [a \in Accts |-> IF a \in LiveAccts /\ A[a].bound = c
                                  THEN [A[a] EXCEPT !.bound = None] ELSE A[a]]
Forget(c) == [conn EXCEPT ![c] = [NoConn EXCEPT !.st = "gone"]]
Remove(a, A) == [A EXCEPT ![a] = [NoAcct EXCEPT !.st = "gone"]]

-----------------------------------------------------------------------------
(* Requests. *)

PC == {"idle", "expect", "auth", "upsert", "relink", "bound", "fetch", "dead",
       "snap", "commit", "sever", "mark", "forget", "claim", "link", "count",
       "delete", "retag", "entry", "holdings", "rescue", "move"}

Req == [pc : PC, a : Accts \cup {None}, b : Accts \cup {None},
        c : Conns \cup {None}, d : Demats \cup {None},
        s : States \cup {None}, br : Brokers \cup {None}, flag : BOOLEAN,
        good : BOOLEAN, clean : BOOLEAN, got : SUBSET Positions,
        marked : SUBSET Accts, due : SUBSET Conns]

Idle == [pc |-> "idle", a |-> None, b |-> None, c |-> None, d |-> None,
         s |-> None, br |-> None, flag |-> FALSE, good |-> FALSE,
         clean |-> TRUE, got |-> {}, marked |-> {}, due |-> {}]

\* A sweep goes on with the rest of its worklist, whatever one sync did.
Finished(r) == [Idle EXCEPT !.due = req[r].due]
At(r, pc) == req[r].pc = pc
Free(r) == r \in Http /\ At(r, "idle")
Goto(r, pc) == req' = [req EXCEPT ![r].pc = pc]
Done(r) == req' = [req EXCEPT ![r] = Finished(r)]
Begins(r, q) == Free(r) /\ req' = [req EXCEPT ![r] = q]

history == <<spent, rescues>>

-----------------------------------------------------------------------------
(* Connecting. *)

\* beginIntegration: the state is bound to the user and the broker.
Initiate(s, b) ==
  /\ auth[s].st = "free" /\ b \notin OneShot
  /\ auth' = [auth EXCEPT ![s] = [st |-> "issued", broker |-> b]]
  /\ UNCHANGED <<conn, acct, req, history>>

StateExpires(s) ==
  /\ auth[s].st = "issued"
  /\ auth' = [auth EXCEPT ![s].st = "expired"]
  /\ UNCHANGED <<conn, acct, req, history>>

\* The WHERE of consumeState's updateMany.
Consumable_Replay(s, b) == auth[s].st # "free" /\ auth[s].broker = b
Consumable(s, b) == auth[s].st = "issued" /\ auth[s].broker = b

\* completeIntegration, step 1.  c is expectedConnectionId, None when absent.
Complete(r, s, b, c) ==
  /\ b \notin OneShot /\ Consumable(s, b)
  /\ c \in Conns => conn[c].st # "free"
  /\ auth' = [auth EXCEPT ![s].st = "consumed"]
  /\ Begins(r, [Idle EXCEPT !.pc = IF c = None THEN "auth" ELSE "expect",
                            !.s = s, !.br = b, !.c = c])
  /\ UNCHANGED <<conn, acct, history>>

\* Step 2, the expected connection is resolved before the token exchange.
ExpectRead(r) ==
  LET c == req[r].c IN
  /\ At(r, "expect")
  /\ IF c \in LiveConns /\ ConnBroker(c) = req[r].br
     THEN req' = [req EXCEPT ![r].pc = "auth", ![r].d = conn[c].demat]
     ELSE Done(r)
  /\ UNCHANGED <<conn, acct, auth, history>>

\* integrate, for a broker without a login page.
Integrate(r, b) ==
  /\ b \in OneShot
  /\ Begins(r, [Idle EXCEPT !.pc = "auth", !.br = b])
  /\ UNCHANGED <<conn, acct, auth, history>>

\* Steps 3 and 4: whoever logs in, with the demat guard on a reconnect.
SameDemat_Any(r, d) == TRUE
SameDemat(r, d) == req[r].c = None \/ d = req[r].d

Authenticate(r) ==
  /\ At(r, "auth")
  /\ \/ \E d \in {x \in Demats : BrokerOf[x] = req[r].br} :
          IF SameDemat(r, d)
          THEN req' = [req EXCEPT ![r].pc = "upsert", ![r].d = d,
                                  ![r].good = TRUE]
          ELSE Done(r)
     \/ Done(r)                                   \* the broker rejected it
  /\ UNCHANGED <<conn, acct, auth, history>>

\* persistSession: the upsert keyed on (user, broker, brokerAccountRef).
Session_KeepsState(c, r) == [conn[c] EXCEPT !.st = "live", !.demat = req[r].d,
                                            !.enabled = TRUE,
                                            !.good = req[r].good]
Session(c, r) == [conn[c] EXCEPT !.st = "live", !.demat = req[r].d,
                                 !.enabled = TRUE, !.good = req[r].good,
                                 !.session = IF req[r].good THEN "live"
                                             ELSE "dead"]

Stored(d) == {c \in LiveConns : conn[c].demat = d}

Upsert(r) ==
  /\ At(r, "upsert")
  /\ \E c \in IF Stored(req[r].d) # {} THEN Stored(req[r].d)
              ELSE {x \in Conns : conn[x].st = "free"} :
       /\ conn' = [conn EXCEPT ![c] = Session(c, r)]
       /\ req' = [req EXCEPT ![r].pc = "relink", ![r].c = c]
  /\ spent' = [s \in States |-> spent[s] + (IF s = req[r].s THEN 1 ELSE 0)]
  /\ UNCHANGED <<acct, auth, rescues>>

\* persistSession: the bound account's projection, in a statement of its own.
Relink(r) ==
  LET stale == {a \in BoundTo(req[r].c) : acct[a].state = "linked_stale"} IN
  /\ At(r, "relink")
  /\ acct' = [a \in Accts |-> IF a \in stale
                THEN [acct[a] EXCEPT !.state = "linked_live"] ELSE acct[a]]
  /\ Done(r)
  /\ UNCHANGED <<conn, auth, history>>

-----------------------------------------------------------------------------
(* Syncing. *)

\* handleBrokerPollSync: the worklist.  Which connections are two hours old is
\* left open.
Due(c) == /\ c \in LiveConns /\ conn[c].enabled /\ conn[c].session = "live"
          /\ BoundTo(c) # {}

SweepSelect(w) ==
  /\ w \in Sweeps /\ At(w, "idle") /\ req[w].due = {}
  /\ \E D \in SUBSET {c \in Conns : Due(c)} :
       D # {} /\ req' = [req EXCEPT ![w].due = D]
  /\ UNCHANGED <<conn, acct, auth, history>>

Syncable_Severed(c) == c \in LiveConns
Syncable(c) == c \in LiveConns /\ conn[c].enabled

\* syncHoldings reads the row: the token it will use is the one stored now.
Reading(r, c) ==
  LET read == [req[r] EXCEPT !.pc = "bound", !.c = c, !.d = conn[c].demat,
                             !.good = conn[c].good] IN
  IF Syncable(c) THEN read ELSE Finished(r)

SyncNow(r, c) ==
  /\ Syncable(c)
  /\ Begins(r, Reading(r, c))
  /\ UNCHANGED <<conn, acct, auth, history>>

SweepNext(w, c) ==
  /\ At(w, "idle") /\ c \in req[w].due
  /\ req' = [req EXCEPT ![w] = [Reading(w, c) EXCEPT !.due = @ \ {c}]]
  /\ UNCHANGED <<conn, acct, auth, history>>

SyncBound(r) ==
  /\ At(r, "bound")
  /\ IF BoundTo(req[r].c) # {} THEN Goto(r, "fetch") ELSE Done(r)
  /\ UNCHANGED <<conn, acct, auth, history>>

\* The broker answers with what the demat holds by now, refuses the token, or
\* fails in another way.
Fetch(r) ==
  /\ At(r, "fetch")
  /\ \/ /\ req[r].good
        /\ \E P \in SUBSET Positions :
             req' = [req EXCEPT ![r].pc = "snap", ![r].got = P]
     \/ ~req[r].good /\ Goto(r, "dead")
     \/ Done(r)
  /\ UNCHANGED <<conn, acct, auth, history>>

\* Updates of a row that is gone throw and change nothing.
MarkDead(r) ==
  LET c == req[r].c IN
  /\ At(r, "dead")
  /\ conn' = IF c \in LiveConns THEN [conn EXCEPT ![c].session = "dead"]
             ELSE conn
  /\ Done(r)
  /\ UNCHANGED <<acct, auth, history>>

\* The snapshot transaction deletes the rows it sees ...
SnapDelete(r) ==
  /\ At(r, "snap")
  /\ req' = [req EXCEPT ![r].pc = "commit", ![r].clean = TRUE]
  /\ UNCHANGED <<conn, acct, auth, history>>

\* ... and inserts its own.  Rows that another sync committed in between were
\* not deleted: they stay, or collide on (connection, symbol) and undo it.
Survivors(r) == IF req[r].clean THEN {} ELSE conn[req[r].c].hold

Snapshot(r) == [conn[req[r].c] EXCEPT !.hold = Survivors(r) \cup req[r].got,
                                      !.session = "live"]

SnapCommit(r) ==
  LET c == req[r].c
      fits == c \in LiveConns /\ Survivors(r) \cap req[r].got = {}
      met == {q \in Slots : q # r /\ req[q].pc = "commit" /\ req[q].c = c} IN
  /\ At(r, "commit")
  /\ conn' = IF fits THEN [conn EXCEPT ![c] = Snapshot(r)] ELSE conn
  /\ req' = [q \in Slots |->
               CASE q = r -> Finished(r)
                 [] fits /\ q \in met -> [req[q] EXCEPT !.clean = FALSE]
                 [] OTHER -> req[q]]
  /\ UNCHANGED <<acct, auth, history>>

-----------------------------------------------------------------------------
(* Sever, resume, clear. *)

Stated(A, c, s) == [a \in Accts |-> IF a \in BoundTo(c)
                                    THEN [A[a] EXCEPT !.state = s] ELSE A[a]]

\* requireConn; the transaction follows.
Deactivate(r, c) ==
  /\ c \in LiveConns
  /\ Begins(r, [Idle EXCEPT !.pc = "sever", !.c = c])
  /\ UNCHANGED <<conn, acct, auth, history>>

Unlink(r, a) ==
  /\ a \in LiveAccts /\ acct[a].state # "manual" /\ acct[a].bound # None
  /\ Begins(r, [Idle EXCEPT !.pc = "sever", !.c = acct[a].bound])
  /\ UNCHANGED <<conn, acct, auth, history>>

\* severBinding.
Severed(c) == Stated(acct, c, "linked_stale")

Sever(r) ==
  LET c == req[r].c IN
  /\ At(r, "sever")
  /\ IF c \in LiveConns
     THEN /\ conn' = [conn EXCEPT ![c].enabled = FALSE]
          /\ acct' = Severed(c)
     ELSE UNCHANGED <<conn, acct>>
  /\ Done(r)
  /\ UNCHANGED <<auth, history>>

\* resumeBinding.  Only the existence of the row is read before it.
Activate(r, c) ==
  /\ Free(r) /\ c \in LiveConns
  /\ conn' = [conn EXCEPT ![c].enabled = TRUE]
  /\ acct' = Stated(acct, c, "linked_live")
  /\ UNCHANGED <<auth, req, history>>

\* clearData: the check, then the two statements of its transaction.
Clearable_Any(c) == c \in LiveConns
Clearable(c) == c \in LiveConns /\ ~conn[c].enabled

Clear(r, c) ==
  /\ Clearable(c)
  /\ Begins(r, [Idle EXCEPT !.pc = "mark", !.c = c])
  /\ UNCHANGED <<conn, acct, auth, history>>

ClearMark(r) ==
  /\ At(r, "mark")
  /\ req' = [req EXCEPT ![r].pc = "forget", ![r].marked = BoundTo(req[r].c)]
  /\ UNCHANGED <<conn, acct, auth, history>>

\* The commit: the accounts bound at the first statement go stale, every
\* account bound at the second loses its binding.
Cleared_LeftLive(c, A) == SetNull(c, acct)
Cleared(c, A) ==
  SetNull(c, [a \in Accts |-> IF a \in A \cap BoundTo(c)
                              THEN [acct[a] EXCEPT !.state = "linked_stale"]
                              ELSE acct[a]])

ClearCommit(r) ==
  LET c == req[r].c IN
  /\ At(r, "forget")
  /\ IF c \in LiveConns
     THEN conn' = Forget(c) /\ acct' = Cleared(c, req[r].marked)
     ELSE UNCHANGED <<conn, acct>>
  /\ Done(r)
  /\ UNCHANGED <<auth, history>>

-----------------------------------------------------------------------------
(* Accounts. *)

\* createAccount: born manual, under a broker.
Create(r, b) ==
  /\ Free(r)
  /\ \E a \in Accts :
       /\ acct[a].st = "free"
       /\ acct' = [acct EXCEPT ![a] = [NoAcct EXCEPT !.st = "live",
                                                     !.broker = b]]
  /\ UNCHANGED <<conn, auth, req, history>>

\* linkAccount reads the account (and counts its rows) ...
Linkable_Rebind(a) == a \in LiveAccts
Linkable(a) == a \in LiveAccts /\ acct[a].bound = None

LinkRead(r, a, c) ==
  /\ Linkable(a) /\ conn[c].st # "free"
  /\ Begins(r, [Idle EXCEPT !.pc = "claim", !.a = a, !.c = c,
                            !.br = acct[a].broker,
                            !.flag = acct[a].ledger # {}])
  /\ UNCHANGED <<conn, acct, auth, history>>

\* ... the connection and whether it is bound ...
Joinable(r) == /\ req[r].c \in LiveConns
               /\ ConnBroker(req[r].c) = req[r].br
               /\ BoundTo(req[r].c) = {}

LinkClaim(r) ==
  /\ At(r, "claim")
  /\ IF Joinable(r) THEN Goto(r, "link") ELSE Done(r)
  /\ UNCHANGED <<conn, acct, auth, history>>

\* ... and replaces.  The foreign key and the unique index on
\* broker_connection_id undo the transaction.
UniqueBinding_None(a, c) == TRUE
UniqueBinding(a, c) == BoundTo(c) \subseteq {a}

Linked_KeepsLedger(a, r) == [acct[a] EXCEPT !.bound = req[r].c,
                                            !.state = "linked_live"]
Linked(a, r) == [acct[a] EXCEPT !.bound = req[r].c, !.state = "linked_live",
                                !.ledger = IF req[r].flag THEN {} ELSE @]

Link(r) ==
  LET a == req[r].a  c == req[r].c IN
  /\ At(r, "link")
  /\ acct' = IF a \in LiveAccts /\ c \in LiveConns /\ UniqueBinding(a, c)
             THEN [acct EXCEPT ![a] = Linked(a, r)] ELSE acct
  /\ Done(r)
  /\ UNCHANGED <<conn, auth, history>>

\* deleteAccount: the allow-list, the count, the delete by id.
Deletable_Bound(a) == a \in LiveAccts
Deletable(a) ==
  /\ a \in LiveAccts
  /\ \/ acct[a].state = "manual"
     \/ acct[a].state = "linked_stale" /\ acct[a].bound = None

Delete(r, a) ==
  /\ Deletable(a)
  /\ Begins(r, [Idle EXCEPT !.pc = "count", !.a = a])
  /\ UNCHANGED <<conn, acct, auth, history>>

Enough_OffByOne == Cardinality(LiveAccts) >= 1
Enough == Cardinality(LiveAccts) > 1

DeleteCount(r) ==
  /\ At(r, "count")
  /\ IF Enough THEN Goto(r, "delete") ELSE Done(r)
  /\ UNCHANGED <<conn, acct, auth, history>>

DeleteWrite(r) ==
  /\ At(r, "delete")
  /\ acct' = IF req[r].a \in LiveAccts THEN Remove(req[r].a, acct) ELSE acct
  /\ Done(r)
  /\ UNCHANGED <<conn, auth, history>>

\* patchAccount: retag.
Retaggable(a) == /\ a \in LiveAccts
                 /\ acct[a].state = "manual" /\ acct[a].bound = None

Retag(r, a, b) ==
  /\ Retaggable(a) /\ b # acct[a].broker
  /\ Begins(r, [Idle EXCEPT !.pc = "retag", !.a = a, !.br = b])
  /\ UNCHANGED <<conn, acct, auth, history>>

RetagWrite(r) ==
  LET a == req[r].a IN
  /\ At(r, "retag")
  /\ acct' = IF a \in LiveAccts THEN [acct EXCEPT ![a].broker = req[r].br]
             ELSE acct
  /\ Done(r)
  /\ UNCHANGED <<conn, auth, history>>

\* addTransaction: resolveWritableAccount, then the insert and the replay.
Writable(a) == a \in LiveAccts /\ acct[a].state = "manual"

AddEntry(r, a, p) ==
  /\ Writable(a)
  /\ Begins(r, [Idle EXCEPT !.pc = "entry", !.a = a, !.got = {p}])
  /\ UNCHANGED <<conn, acct, auth, history>>

EntryWrite(r) ==
  LET a == req[r].a IN
  /\ At(r, "entry")
  /\ acct' = IF a \in LiveAccts
             THEN [acct EXCEPT ![a].ledger = @ \cup req[r].got] ELSE acct
  /\ Done(r)
  /\ UNCHANGED <<conn, auth, history>>

-----------------------------------------------------------------------------
(* Moving positions (portfolio/transfer.ts). *)

\* transferManualPosition of P = {p}, transferAllManualPositions of every
\* position; both accounts are read outside the transaction.
Transfer(r, a, b, P, deleteSource) ==
  /\ a # b /\ Writable(a) /\ Writable(b)
  /\ deleteSource => P = Positions
  /\ Begins(r, [Idle EXCEPT !.pc = "move", !.a = a, !.b = b, !.got = P,
                            !.flag = deleteSource])
  /\ UNCHANGED <<conn, acct, auth, history>>

Moved(a, b, P) ==
  [acct EXCEPT ![a].ledger = @ \ P, ![b].ledger = @ \cup P]

\* Nothing to move, or an account that is gone, undoes the transaction.
TransferWrite(r) ==
  LET a == req[r].a  b == req[r].b
      P == req[r].got \cap acct[a].ledger IN
  /\ At(r, "move")
  /\ acct' = IF {a, b} \subseteq LiveAccts /\ P # {}
             THEN IF req[r].flag THEN Remove(a, Moved(a, b, P))
                  ELSE Moved(a, b, P)
             ELSE acct
  /\ Done(r)
  /\ UNCHANGED <<conn, auth, history>>

\* rescueLinkedAccount, from the transfer route or the delete route.
Rescuable(a, b) ==
  /\ a # b /\ {a, b} \subseteq LiveAccts
  /\ acct[a].state # "manual" /\ acct[a].bound # None
  /\ acct[b].state = "manual" /\ acct[a].broker = acct[b].broker

Rescue(r, a, b) ==
  /\ Rescuable(a, b)
  /\ Begins(r, [Idle EXCEPT !.pc = "holdings", !.a = a, !.b = b,
                            !.c = acct[a].bound])
  /\ UNCHANGED <<conn, acct, auth, history>>

\* The broker rows to convert; one the catalogue cannot name refuses them all.
Convertible_Partly(P) == P # {}
Convertible(P) == P # {} /\ P \cap Unmapped = {}

RescueRead(r) ==
  LET P == conn[req[r].c].hold IN
  /\ At(r, "holdings")
  /\ IF Convertible(P)
     THEN req' = [req EXCEPT ![r].pc = "rescue", ![r].got = P \ Unmapped]
     ELSE Done(r)
  /\ UNCHANGED <<conn, acct, auth, history>>

\* The transaction: the synthetic buys, the delete of the connection, the
\* delete of the account.  A row that is gone undoes it.
Intact(r) == /\ {req[r].a, req[r].b} \subseteq LiveAccts
             /\ req[r].c \in LiveConns

Rescued_KeepsConnection(c) == conn
Rescued(c) == Forget(c)

RescueCommit(r) ==
  LET c == req[r].c
      paid == [acct EXCEPT ![req[r].b].ledger = @ \cup req[r].got] IN
  /\ At(r, "rescue")
  /\ IF Intact(r)
     THEN /\ conn' = Rescued(c)
          /\ acct' = Remove(req[r].a, SetNull(c, paid))
          /\ rescues' = [rescues EXCEPT ![c] = @ + 1]
     ELSE UNCHANGED <<conn, acct, rescues>>
  /\ Done(r)
  /\ UNCHANGED <<auth, spent>>

-----------------------------------------------------------------------------
(* The world. *)

\* A token is refused from some moment on, wherever it is held.
TokenDies(d) ==
  /\ conn' = [c \in Conns |-> IF conn[c].demat = d
                THEN [conn[c] EXCEPT !.good = FALSE] ELSE conn[c]]
  /\ req' = [r \in Slots |-> IF req[r].d = d
                THEN [req[r] EXCEPT !.good = FALSE] ELSE req[r]]
  /\ UNCHANGED <<acct, auth, history>>

\* The process dies, or a call fails, between two steps of a request: what is
\* committed stays.
Dies(r) ==
  /\ req[r] # Idle
  /\ req' = [req EXCEPT ![r] = Idle]
  /\ UNCHANGED <<conn, acct, auth, history>>

-----------------------------------------------------------------------------
Init ==
  /\ conn = [c \in Conns |-> NoConn]
  /\ acct = [a \in Accts |-> NoAcct]
  /\ auth = [s \in States |-> [st |-> "free", broker |-> None]]
  /\ req = [r \in Slots |-> Idle]
  /\ spent = [s \in States |-> 0]
  /\ rescues = [c \in Conns |-> 0]

ConnectStep(r) ==
  \/ \E s \in States, b \in Brokers, c \in Conns \cup {None} :
       Complete(r, s, b, c)
  \/ \E b \in Brokers : Integrate(r, b)
  \/ ExpectRead(r) \/ Authenticate(r) \/ Upsert(r) \/ Relink(r)

SyncStep(r) ==
  \/ \E c \in Conns : SyncNow(r, c) \/ SweepNext(r, c)
  \/ SweepSelect(r) \/ SyncBound(r) \/ Fetch(r) \/ MarkDead(r)
  \/ SnapDelete(r) \/ SnapCommit(r)

FeedStep(r) ==
  \/ \E c \in Conns : Deactivate(r, c) \/ Activate(r, c) \/ Clear(r, c)
  \/ \E a \in Accts : Unlink(r, a)
  \/ Sever(r) \/ ClearMark(r) \/ ClearCommit(r)

AccountStep(r) ==
  \/ \E b \in Brokers : Create(r, b)
  \/ \E a \in Accts, c \in Conns : LinkRead(r, a, c)
  \/ \E a \in Accts : Delete(r, a)
  \/ \E a \in Accts, b \in Brokers : Retag(r, a, b)
  \/ \E a \in Accts, p \in Positions : AddEntry(r, a, p)
  \/ LinkClaim(r) \/ Link(r) \/ DeleteCount(r) \/ DeleteWrite(r)
  \/ RetagWrite(r) \/ EntryWrite(r)

MoveStep(r) ==
  \/ \E a, b \in Accts, flag \in BOOLEAN,
        P \in {{p} : p \in Positions} \cup {Positions} :
       Transfer(r, a, b, P, flag)
  \/ \E a, b \in Accts : Rescue(r, a, b)
  \/ TransferWrite(r) \/ RescueRead(r) \/ RescueCommit(r)

World ==
  \/ \E s \in States, b \in Brokers : Initiate(s, b)
  \/ \E s \in States : StateExpires(s)
  \/ \E d \in Demats : TokenDies(d)

Next ==
  \/ \E r \in Slots : \/ ConnectStep(r) \/ SyncStep(r) \/ FeedStep(r)
                      \/ AccountStep(r) \/ MoveStep(r) \/ Dies(r)
  \/ World

Spec == Init /\ [][Next]_vars

-----------------------------------------------------------------------------
(* Properties. *)

\* Every row and request holds what its columns and locals allow.
TypeOK ==
  /\ conn \in [Conns -> Conn] /\ acct \in [Accts -> Acct]
  /\ auth \in [States -> Auth]
  /\ req \in [Slots -> Req]
  /\ spent \in [States -> Nat] /\ rescues \in [Conns -> Nat]

\* One connection feeds at most one account, however many link requests
\* overlap between the check and the write (accounts-controller.ts, linkAccount).
OneAccountPerConnection == \A c \in LiveConns : Cardinality(BoundTo(c)) <= 1

\* One OAuth state stores at most one session, and only if it was issued and
\* not expired: consumeState under replays and double callbacks.
StateSpentOnce ==
  \A s \in States : /\ spent[s] <= 1
                    /\ spent[s] = 1 => auth[s].st = "consumed"

\* A connection is rescued at most once, and its broker rows do not outlive
\* the rescue beside their manual copies (transfer.ts, rescueLinkedAccount).
RescuedOnce ==
  \A c \in Conns : /\ rescues[c] <= 1
                   /\ rescues[c] = 1 => conn[c].st = "gone"

\* "linked_live with a null binding is a state the machine cannot produce"
\* (accounts-controller.ts, deleteAccount): no account is shut out of sync,
\* manual entry, deletion and re-linking at once.
NoZombie == \A a \in LiveAccts :
              acct[a].state = "linked_live" => acct[a].bound # None

\* A linked account never holds hand-entered rows: the union would count a
\* position twice (linkAccount, resolveWritableAccount, transfer.ts).
LinkedIsBrokerOnly == \A a \in LiveAccts :
                        acct[a].state # "manual" => acct[a].ledger = {}

\* Synced rows are always reachable through an account; a connection never
\* keeps rows no surface shows (deleteAccount's allow-list).
NothingStranded == \A c \in LiveConns : conn[c].hold # {} => BoundTo(c) # {}

\* A user who has an account keeps one, whatever is deleted, moved or rescued.
KeepsAnAccount == [][LiveAccts # {} => LiveAccts' # {}]_acct

\* The binding is the anchor: an account changes connection only through the
\* deletion of the connection it has (a sever or a reconnect never moves it).
BindingIsAnchor ==
  [][\A a \in LiveAccts : acct[a].bound # None /\ acct[a].bound # acct'[a].bound
       => acct'[a].st = "gone" \/ conn'[acct[a].bound].st = "gone"]_vars

\* A reconnect touches the connection it named and creates none: a login with
\* another demat writes nothing (completeIntegration, step 4).
ReconnectIsExact ==
  [][\A r \in Slots : At(r, "upsert") /\ req'[r].pc = "relink" /\ req[r].c # None
       => \A k \in Conns : k # req[r].c => conn'[k] = conn[k]]_vars

\* Broker rows vanish with their connection only when it is severed (clear) or
\* when every one of them is in a ledger afterwards (rescue).
ForgetsDeliberately ==
  [][\A c \in LiveConns : conn'[c].st = "gone"
       => \/ ~conn[c].enabled
          \/ \E a \in Accts : conn[c].hold \subseteq acct'[a].ledger]_vars

\* A rescue converts every broker row it destroys.
RescueKeepsAll ==
  [][\A c \in LiveConns : rescues'[c] # rescues[c]
       => \E a \in Accts : conn[c].hold \subseteq acct'[a].ledger]_vars

\* A severed connection's rows are frozen until it is resumed or forgotten.
FrozenWhileSevered ==
  [][\A c \in LiveConns : ~conn[c].enabled /\ conn'[c].st = "live"
       => conn'[c].hold = conn[c].hold]_vars

\* A session is marked dead only when the stored token is dead: the sweep skips
\* a connection so marked.
DeadIsDead == \A c \in LiveConns : conn[c].session = "dead" => ~conn[c].good
=============================================================================
