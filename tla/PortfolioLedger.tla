--------------------------- MODULE PortfolioLedger ---------------------------
(***************************************************************************)
(* The manual ledger of ONE instrument, held in several manual accounts of *)
(* one user (src/src/portfolio/, src/src/controllers/me/).                 *)
(*                                                                         *)
(* A transaction row is a fact the user typed; a holding is a projection:  *)
(* every write replays the (account, instrument) ledger through the FIFO   *)
(* engine and rewrites the holding and its open lots in the same database  *)
(* transaction.  The database runs it at READ COMMITTED, so a request is   *)
(* modelled as two steps: Begin* writes its rows and replays what it then  *)
(* sees (committed rows and its own), Commit makes rows and holding        *)
(* visible at once.  A row written by an open transaction is locked.       *)
(*                                                                         *)
(* The engine's decimals keep 20 digits and round.  Here a quantity, price *)
(* or unit cost is a number of last digits, Unit of them to one, rounded   *)
(* half up where the engine divides or scales by a quotient; an amount of  *)
(* money, quantity times unit cost, is counted in Unit * Unit and exact    *)
(* (that it rounds at its own twentieth digit is left out).                *)
(* The columns of holdings and holding_lots round the result once more;    *)
(* nothing here reads them back, so the tables keep the engine's digits.   *)
(* avgCost is invested / qty and left out.                                 *)
(***************************************************************************)
EXTENDS Integers, Sequences, SequencesExt

CONSTANTS
    Accts,      \* manual accounts of the user
    Slots,      \* requests the server can have open at once
    MaxTxns,    \* bound: transaction rows ever created
    Dates,      \* trade dates
    Unit,       \* last digits to one share or rupee
    Entries     \* what a row may say: [type, qty, price, fees, ratio]

ASSUME LedgerAssumption ==
    /\ MaxTxns \in Nat
    /\ Dates \subseteq Nat /\ Unit \in Nat \ {0}
    /\ \A e \in Entries :
          /\ e.type \in {"buy", "sell", "split", "bonus", "dividend"}
          /\ e.qty \in Nat /\ e.price \in Nat /\ e.fees \in Nat
          /\ e.ratio \in Nat \X (Nat \ {0})
          /\ e.type \in {"buy", "sell"} => e.qty > 0

VARIABLES
    txn,        \* transactions: id -> row; ids are handed out in createdAt order
    holding,    \* holdings with their holding_lots: account -> projection
    req         \* the request each slot is serving

vars == <<txn, holding, req>>

Ids == 1 .. MaxTxns
Free == [st |-> "free"]
Gone == [st |-> "gone"]
Row(a, e, d) == [st |-> "live", acct |-> a, entry |-> e, date |-> d]
Idle == [pc |-> "idle"]
NoHolding == [there |-> FALSE, qty |-> 0, invested |-> 0, realized |-> 0, lots |-> <<>>]

\* The table f written over g.
Over(f, g) == [x \in DOMAIN f \cup DOMAIN g |-> IF x \in DOMAIN f THEN f[x] ELSE g[x]]
Only(i, row) == [j \in {i} |-> row]

Live(T) == {i \in Ids : T[i].st = "live"}
Ledger(T, a) == {i \in Live(T) : T[i].acct = a}
IsAction(e) == e.type \in {"split", "bonus"}
IsTrade(e) == e.type \in {"buy", "sell"}

-----------------------------------------------------------------------------
(* The FIFO engine: a pure function of the rows L it is given. *)

Before(L, i, j) ==
    \/ L[i].date < L[j].date
    \/ L[i].date = L[j].date /\ i < j

OpenQty(lots) == FoldLeft(LAMBDA n, lot : n + lot.qty, 0, lots)
OpenValue(lots) == FoldLeft(LAMBDA n, lot : n + lot.qty * lot.cost, 0, lots)

\* n / d, rounded half up.
RoundDiv(n, d) == (2 * n + d) \div (2 * d)
\* Twice what w times the rounding error of n / d can come to.
SlackOf(n, d, w) == IF n % d = 0 THEN 0 ELSE w

UnitCost_NoFees(e) == e.price
UnitCost(e) == e.price + RoundDiv(e.fees * Unit, e.qty)
Enqueue_Front(lots, lot) == <<lot>> \o lots
Enqueue(lots, lot) == Append(lots, lot)

Buy(s, i, e) ==
    [s EXCEPT !.lots = Enqueue(@, [qty |-> e.qty, cost |-> UnitCost(e), src |-> i]),
              !.slack = @ + SlackOf(e.fees * Unit, e.qty, e.qty)]

\* What a sell takes from one lot while `left` is still to be sold.
Consumed(lot, left) == IF lot.qty <= left THEN lot.qty ELSE left

\* A lot left empty leaves the register.
Consume(price, acc, lot) ==
    LET n == Consumed(lot, acc.left)
    IN  [left |-> acc.left - n,
         gain |-> acc.gain + (price - lot.cost) * n,
         lots |-> IF n = lot.qty THEN acc.lots
                  ELSE Append(acc.lots, [lot EXCEPT !.qty = @ - n])]

Sell(s, e) ==
    IF e.qty > OpenQty(s.lots) THEN [s EXCEPT !.ok = FALSE]
    ELSE LET sold == FoldLeft(LAMBDA acc, lot : Consume(e.price, acc, lot),
                              [left |-> e.qty, gain |-> 0, lots |-> <<>>], s.lots)
         IN  [s EXCEPT !.lots = sold.lots, !.realized = @ + sold.gain - e.fees * Unit]

\* "a:b" is a additional shares for every b held: the lots grow by (a + b) / b.
Factor(e) == RoundDiv((e.ratio[1] + e.ratio[2]) * Unit, e.ratio[2])

Multiplied(lot, e) ==
    [lot EXCEPT !.qty = RoundDiv(@ * Factor(e), Unit), !.cost = RoundDiv(@ * Unit, Factor(e))]

\* Twice what scaling one lot can add to its worth or take from it.
LotSlack(lot, e) ==
    LET scaled == Multiplied(lot, e)
    IN  SlackOf(lot.qty * Factor(e), Unit, scaled.cost)
        + SlackOf(lot.cost * Unit, Factor(e), scaled.qty)

ScaleSlack(lots, e) == FoldLeft(LAMBDA n, lot : n + LotSlack(lot, e), 0, lots)

Scale(s, e) ==
    [s EXCEPT !.lots = [k \in DOMAIN @ |-> Multiplied(@[k], e)],
              !.slack = @ + ScaleSlack(s.lots, e)]

Apply(s, i, e) ==
    IF ~s.ok THEN s
    ELSE CASE e.type = "buy" -> Buy(s, i, e)
           [] e.type = "sell" -> Sell(s, e)
           [] IsAction(e) -> Scale(s, e)
           [] OTHER -> s

\* The engine's state after all rows of L, in ledger order; `slack` is history:
\* twice what the roundings so far can have added to the money or taken from it.
ReplayOf(L) ==
    LET after[S \in SUBSET DOMAIN L] ==
            IF S = {} THEN [ok |-> TRUE, lots |-> <<>>, realized |-> 0, slack |-> 0]
            ELSE LET last == CHOOSE i \in S : \A j \in S \ {i} : Before(L, j, i)
                 IN  Apply(after[S \ {last}], last, L[last].entry)
    IN  after[DOMAIN L]

\* The ledger replayAndMaterialize reads ...
Book(T, a) == [i \in Ledger(T, a) |-> T[i]]

\* ... and the row it upserts with the lots it rewrites.
Materialized(L) ==
    LET r == ReplayOf(L)
    IN  [there |-> TRUE, qty |-> OpenQty(r.lots), invested |-> OpenValue(r.lots),
         realized |-> r.realized, lots |-> r.lots]

\* replayFifo throws an OversellError unless every sell found its shares.
Accepted_Always(L) == TRUE
Accepted(L) == ReplayOf(L).ok

-----------------------------------------------------------------------------
(* Requests. *)

Open(h) == req[h].pc = "open"
Locked(i) == \E h \in Slots : Open(h) /\ i \in DOMAIN req[h].rows

\* Write `rows` inside a transaction and replay account a on what it then sees;
\* `dropped` are the holdings it deletes.  An oversell rolls everything back.
Transact(h, rows, a, dropped) ==
    LET book == Book(Over(rows, txn), a) IN
    /\ \A i \in DOMAIN rows : ~Locked(i)
    /\ req' = [req EXCEPT ![h] =
         IF Accepted(book)
         THEN [pc |-> "open", rows |-> rows,
               book |-> Over(Only(a, Materialized(book)), [b \in dropped |-> NoHolding])]
         ELSE Idle]
    /\ UNCHANGED <<txn, holding>>

Taken == {i \in Ids : txn[i] # Free \/ Locked(i)}

\* POST /me/transactions: create a row, replay, commit.
BeginAdd(h) ==
    /\ req[h] = Idle
    /\ \E id \in Ids \ Taken, a \in Accts, e \in Entries, d \in Dates :
          /\ \A i \in Ids \ Taken : id <= i
          /\ Transact(h, Only(id, Row(a, e, d)), a, {})

\* PATCH and DELETE read the row, and with it its account, before they open
\* their transaction.
ReadForEdit(h) ==
    /\ req[h] = Idle
    /\ \E id \in Live(txn), op \in {"patch", "delete"} :
          req' = [req EXCEPT ![h] = [pc |-> op, id |-> id, acct |-> txn[id].acct]]
    /\ UNCHANGED <<txn, holding>>

Refused(h) ==
    /\ req' = [req EXCEPT ![h] = Idle]
    /\ UNCHANGED <<txn, holding>>

\* PATCH writes the merged fields and the account it read.  A row that went
\* away after the read makes the update, or the delete, throw.
BeginPatch(h) ==
    /\ req[h].pc = "patch"
    /\ IF req[h].id \in Live(txn)
       THEN \E e \in Entries, d \in Dates :
               Transact(h, Only(req[h].id, Row(req[h].acct, e, d)), req[h].acct, {})
       ELSE Refused(h)

BeginDelete(h) ==
    /\ req[h].pc = "delete"
    /\ IF req[h].id \in Live(txn)
       THEN Transact(h, Only(req[h].id, Gone), req[h].acct, {})
       ELSE Refused(h)

\* Source rows that record a market event the destination also records.
Duplicates_None(a, b) == {}
Duplicates(a, b) ==
    {i \in Ledger(txn, a) :
        /\ IsAction(txn[i].entry)
        /\ \E j \in Ledger(txn, b) :
              /\ txn[j].entry.type = txn[i].entry.type
              /\ txn[j].entry.ratio = txn[i].entry.ratio
              /\ txn[j].date = txn[i].date}

\* The holdings a move leaves without a ledger.
Emptied_Kept(a) == {}
Emptied(a) == {a}

\* Move the position from a to b: identical corporate actions are dropped where
\* the destination has a holding, the rest is re-parented, b is replayed and a's
\* holding goes.
BeginTransfer(h) ==
    /\ req[h] = Idle
    /\ \E a \in Accts : \E b \in Accts \ {a} :
          LET dupes == IF holding[b].there THEN Duplicates(a, b) ELSE {}
          IN  /\ Ledger(txn, a) # {}
              /\ Transact(h, [i \in Ledger(txn, a) |->
                                 IF i \in dupes THEN Gone ELSE [txn[i] EXCEPT !.acct = b]],
                          b, Emptied(a))

Commit(h) ==
    /\ Open(h)
    /\ txn' = Over(req[h].rows, txn)
    /\ holding' = Over(req[h].book, holding)
    /\ req' = [req EXCEPT ![h] = Idle]

\* A database error, a timeout or the end of the process before the commit.
Rollback(h) == Open(h) /\ Refused(h)

Init ==
    /\ txn = [i \in Ids |-> Free]
    /\ holding = [a \in Accts |-> NoHolding]
    /\ req = [h \in Slots |-> Idle]

Next ==
    \E h \in Slots :
        \/ BeginAdd(h)
        \/ ReadForEdit(h)
        \/ BeginPatch(h)
        \/ BeginDelete(h)
        \/ BeginTransfer(h)
        \/ Commit(h)
        \/ Rollback(h)

Spec == Init /\ [][Next]_vars
-----------------------------------------------------------------------------
(* Properties. *)

Rows == {Free, Gone} \cup [st : {"live"}, acct : Accts, entry : Entries, date : Dates]

\* A holding is exactly what replaying its committed ledger gives, and every
\* account with rows has one: no write path leaves a projection behind.
HoldingIsReplay ==
    \A a \in Accts :
        IF holding[a].there THEN holding[a] = Materialized(Book(txn, a))
        ELSE Ledger(txn, a) = {}

\* "An OversellError rolls the whole write back, ledger stays consistent": no
\* committed ledger, whatever was corrected, deleted or moved, sells shares it
\* did not hold on that day.
Replayable == \A a \in Accts : ReplayOf(Book(txn, a)).ok

EntrySum(S, f(_)) == FoldSet(LAMBDA i, n : n + f(txn[i].entry), 0, S)
OfType(a, t) == {i \in Ledger(txn, a) : txn[i].entry.type = t}
Outlay(a) == EntrySum(OfType(a, "buy"), LAMBDA e : e.qty * e.price + e.fees * Unit)
Proceeds(a) == EntrySum(OfType(a, "sell"), LAMBDA e : e.qty * e.price - e.fees * Unit)

\* What is still invested less what was realized, less what the buys cost and the
\* sells did not bring, charges included.
Drift(a) == holding[a].invested - holding[a].realized - (Outlay(a) - Proceeds(a))

\* The lot arithmetic makes and loses no money, through every split, bonus and
\* partial lot, but for half a last digit per share where a unit cost was rounded
\* and half a last digit per rupee where a quantity was; none where all divisions
\* of the ledger came out even.
CashIdentity ==
    \A a \in Accts : holding[a].there =>
        LET slack == ReplayOf(Book(txn, a)).slack
        IN  2 * Drift(a) \in -slack .. slack

\* A corporate action that multiplies by a whole number, and by which.
Whole(e) == e.ratio[1] % e.ratio[2] = 0
Times(e) == (e.ratio[1] + e.ratio[2]) \div e.ratio[2]
WholeActions(a) == \A i \in Ledger(txn, a) : IsAction(txn[i].entry) => Whole(txn[i].entry)

\* How many shares of today one share of row i's day has become.
GrownBy(a, i) ==
    FoldSet(LAMBDA j, n : n * Times(txn[j].entry), 1,
            {j \in Ledger(txn, a) : IsAction(txn[j].entry) /\ Before(txn, i, j)})
InTodaysShares(a, S) == FoldSet(LAMBDA i, n : n + txn[i].entry.qty * GrownBy(a, i), 0, S)
BoughtBy(a, i) == InTodaysShares(a, {j \in OfType(a, "buy") : ~Before(txn, i, j)})

\* What FIFO must leave of buy i: of all shares bought up to it, those the sells,
\* oldest first, have not reached.
Remaining(a, i) ==
    LET past == BoughtBy(a, i) - InTodaysShares(a, OfType(a, "sell"))
        own == txn[i].entry.qty * GrownBy(a, i)
    IN  IF past <= 0 THEN 0 ELSE IF past < own THEN past ELSE own

\* The shares still open of the rows in S.
OpenIn(lots, S) == FoldLeft(LAMBDA n, lot : n + (IF lot.src \in S THEN lot.qty ELSE 0), 0, lots)

\* The open lots are the youngest shares: realized profit matched the oldest
\* (header of fifo-engine.ts), corporate actions kept each lot's origin, lots
\* stand in the order they were bought, and no buy is closed while an older one
\* is open.  Where every corporate action multiplies by a whole number (a 1:3
\* bonus rounds the quantities it makes) what is open of each buy is exactly what
\* FIFO must leave of it.
LotsAreYoungest ==
    \A a \in Accts : holding[a].there =>
        LET lots == holding[a].lots
            open == {lots[k].src : k \in DOMAIN lots}
        IN
        /\ \A k \in DOMAIN lots : lots[k].qty > 0 /\ lots[k].src \in OfType(a, "buy")
        /\ \A k, l \in DOMAIN lots : k < l => Before(txn, lots[k].src, lots[l].src)
        /\ \A i, j \in OfType(a, "buy") : Before(txn, i, j) /\ i \in open => j \in open
        /\ WholeActions(a) => \A i \in OfType(a, "buy") : Remaining(a, i) = OpenIn(lots, {i})

Mark(i) == <<txn[i].entry.type, txn[i].entry.ratio, txn[i].date>>
Marks(a) == {Mark(i) : i \in {j \in Ledger(txn, a) : IsAction(txn[j].entry)}}
Once(a) == \A i, j \in Ledger(txn, a) :
    IsAction(txn[i].entry) /\ IsAction(txn[j].entry) /\ Mark(i) = Mark(j) => i = j
QuietActionDays(a, b) == \A i, j \in Ledger(txn, a) \cup Ledger(txn, b) :
    IsAction(txn[i].entry) /\ IsTrade(txn[j].entry) => txn[i].date # txn[j].date

\* The two books tell one story of the market: each records the same events,
\* once, on days without trades; or the destination records nothing at all.
SameMarket(a, b) ==
    \/ Ledger(txn, b) = {}
    \/ Marks(a) = Marks(b) /\ Once(a) /\ Once(b) /\ QuietActionDays(a, b)

Moves(a, b) == holding[a].there /\ ~holding'[a].there /\ holding'[b] # holding[b]

\* R1 of transfer.ts: a move invents no shares and loses none.  Of books whose
\* corporate actions multiply by whole numbers: a merged FIFO queue cuts its lots
\* elsewhere, and scaling by a fraction rounds each piece.
MoveConserves ==
    [][\A a, b \in Accts :
          /\ a # b /\ Moves(a, b) /\ SameMarket(a, b)
          /\ WholeActions(a) /\ WholeActions(b)
          => holding'[b].qty = holding[a].qty + holding[b].qty]_vars
=============================================================================
