------------------------ MODULE PortfolioLedgerProofs ------------------------
(***************************************************************************)
(* For every set of accounts, dates and entries, any number of rows and of *)
(* requests under way: as long as requests that overlap concern different  *)
(* accounts, every holding is the replay of its ledger, no ledger          *)
(* oversells, the money in the books is what the user paid less what the   *)
(* sells brought but for what was rounded, and the open lots are the       *)
(* youngest shares; of books whose splits and bonuses multiply by whole    *)
(* numbers, a move neither makes nor loses shares and every lot has        *)
(* exactly what FIFO must leave of it.                                     *)
(*                                                                         *)
(* The first two hold of any engine that is a function of the rows it is   *)
(* given.  The others are about the engine itself, from the bottom up:     *)
(* what a recursion over sets and a fold over lots compute, what a sell    *)
(* takes from the lots, what one row does to the books, what a replay adds *)
(* up to.  Shares are compared in shares of today: what a row's shares     *)
(* have become through the splits and bonuses after it.                    *)
(***************************************************************************)
EXTENDS PortfolioLedger, FiniteSetTheorems, TLAPS

\* The accounts a request has read or is about to write.
Touched(h) ==
    IF req[h].pc = "open" THEN DOMAIN req[h].book
    ELSE IF req[h].pc \in {"patch", "delete"} THEN {req[h].acct} ELSE {}

\* Requests under way concern different accounts.
Apart == \A h, k \in Slots : h # k => Touched(h) \cap Touched(k) = {}

\* What a pair of tables owes account a.
Faithful(T, H, a) ==
    /\ IF H[a].there THEN H[a] = Materialized(Book(T, a)) ELSE Ledger(T, a) = {}
    /\ Accepted(Book(T, a))
Sound(T, H) == \A a \in Accts : Faithful(T, H, a)

Tables ==
    /\ txn \in [Ids -> Rows]
    /\ DOMAIN holding = Accts
    /\ req = [h \in Slots |-> req[h]]

\* An edit under way knows the account its row is still in, ...
Edits == \A h \in Slots : req[h].pc \in {"patch", "delete"} =>
    /\ req[h].id \in Ids /\ req[h].acct \in Accts
    /\ txn[req[h].id].st # "free"
    /\ req[h].id \in Live(txn) => txn[req[h].id].acct = req[h].acct

\* ... and a transaction with these rows and holdings moves rows in and out of
\* the accounts of its holdings only, and leaves those faithful to their rows.
Fits(T, rows, book) ==
    /\ DOMAIN rows \subseteq Ids /\ DOMAIN book \subseteq Accts
    /\ \A i \in DOMAIN rows :
          /\ rows[i] \in Rows /\ rows[i].st # "free" /\ T[i].st # "gone"
          /\ T[i].st = "live" => T[i].acct \in DOMAIN book
          /\ rows[i].st = "live" => rows[i].acct \in DOMAIN book
    /\ \A x \in DOMAIN book : Faithful(Over(rows, T), book, x)
OpenOnes == \A h \in Slots : Open(h) => Fits(txn, req[h].rows, req[h].book)

\* A row is locked by one transaction.
Locks == \A h, k \in Slots :
    h # k /\ Open(h) /\ Open(k) => DOMAIN req[h].rows \cap DOMAIN req[k].rows = {}

LedgerInv == Tables /\ Sound(txn, holding) /\ Edits /\ OpenOnes /\ Locks

-----------------------------------------------------------------------------
\* An empty ledger replays without an oversell.
LEMMA EmptyReplays == ASSUME NEW L, DOMAIN L = {} PROVE Accepted(L)
<1> DEFINE start == [ok |-> TRUE, lots |-> <<>>, realized |-> 0, slack |-> 0]
           last(S) == CHOOSE i \in S : \A j \in S \ {i} : Before(L, j, i)
           G(f) == [S \in SUBSET DOMAIN L |->
                       IF S = {} THEN start ELSE Apply(f[S \ {last(S)}], last(S), L[last(S)].entry)]
           after == CHOOSE f : f = G(f)
           trivial == [S \in SUBSET DOMAIN L |-> start]
<1>1. SUBSET DOMAIN L = {{}}
  OBVIOUS
<1>2. trivial = G(trivial)
  BY <1>1
<1>3. after = G(after)
  BY <1>2
<1>4. after[DOMAIN L] = start
  BY <1>1, <1>3
<1>5. ReplayOf(L) = after[DOMAIN L]
  BY DEF ReplayOf
<1> QED
  BY <1>4, <1>5 DEF Accepted

\* A book depends on the account's own rows only.
LEMMA SameBook ==
    ASSUME NEW T, NEW U, NEW x,
           Ledger(T, x) = Ledger(U, x),
           \A i \in Ledger(T, x) : T[i] = U[i]
    PROVE  Book(T, x) = Book(U, x)
BY DEF Book

\* Rows that neither leave nor enter an account leave its book alone.
LEMMA OtherBook ==
    ASSUME NEW T, DOMAIN T = Ids, NEW rows, DOMAIN rows \subseteq Ids, NEW x,
           \A i \in DOMAIN rows : /\ ~(T[i].st = "live" /\ T[i].acct = x)
                                  /\ ~(rows[i].st = "live" /\ rows[i].acct = x)
    PROVE  /\ Ledger(Over(rows, T), x) = Ledger(T, x)
           /\ Book(Over(rows, T), x) = Book(T, x)
<1>1. \A i \in Ids : Over(rows, T)[i] = IF i \in DOMAIN rows THEN rows[i] ELSE T[i]
  BY DEF Over
<1>2. Ledger(Over(rows, T), x) = Ledger(T, x)
  BY <1>1 DEF Ledger, Live
<1>3. \A i \in Ledger(T, x) : Over(rows, T)[i] = T[i]
  BY <1>1 DEF Ledger, Live
<1> QED
  BY <1>2, <1>3, SameBook

-----------------------------------------------------------------------------
\* Rows written by a transaction on account a (which may empty the accounts
\* of `dropped`) fit the holdings it writes if the replay of a is accepted.
LEMMA TransactFits ==
    ASSUME Tables,
           NEW a \in Accts, NEW dropped \in SUBSET (Accts \ {a}), NEW rows,
           DOMAIN rows \subseteq Ids,
           \A i \in DOMAIN rows :
              /\ rows[i] \in Rows /\ rows[i].st # "free" /\ txn[i].st # "gone"
              /\ txn[i].st = "live" => txn[i].acct \in dropped \cup {a}
              /\ rows[i].st = "live" => rows[i].acct \in dropped \cup {a},
           \A x \in dropped : Ledger(Over(rows, txn), x) = {},
           NEW book, book = Book(Over(rows, txn), a), Accepted(book),
           NEW hold, hold = Over(Only(a, Materialized(book)), [b \in dropped |-> NoHolding])
    PROVE  Fits(txn, rows, hold) /\ DOMAIN hold = dropped \cup {a}
<1> DEFINE T == Over(rows, txn)
<1>1. /\ DOMAIN hold = dropped \cup {a}
      /\ hold[a] = Materialized(book)
      /\ \A b \in dropped : hold[b] = NoHolding
  BY DEF Over, Only
<1>2. ASSUME NEW x \in DOMAIN hold PROVE Faithful(T, hold, x)
  <2>1. CASE x = a
    <3>1. hold[x] = Materialized(Book(T, a))
      BY <1>1, <2>1
    <3>2. hold[x].there
      BY <3>1 DEF Materialized
    <3> QED
      BY <2>1, <3>1, <3>2 DEF Faithful
  <2>2. CASE x \in dropped
    <3>1. ~hold[x].there
      <4>1. hold[x] = NoHolding
        BY <1>1, <2>2
      <4> QED
        BY <4>1 DEF NoHolding
    <3>2. DOMAIN Book(T, x) = {}
      BY <2>2 DEF Book
    <3> QED
      BY <2>2, <3>1, <3>2, EmptyReplays DEF Faithful
  <2> QED
    BY <1>1, <2>1, <2>2
<1> QED
  BY <1>1, <1>2 DEF Fits

\* The step that opens a transaction: it changes no table, and what it opens
\* fits.
LEMMA TransactKeeps ==
    ASSUME LedgerInv, NEW h \in Slots,
           NEW a \in Accts, NEW dropped \in SUBSET (Accts \ {a}), NEW rows,
           DOMAIN rows \subseteq Ids,
           \A i \in DOMAIN rows :
              /\ rows[i] \in Rows /\ rows[i].st # "free" /\ txn[i].st # "gone"
              /\ txn[i].st = "live" => txn[i].acct \in dropped \cup {a}
              /\ rows[i].st = "live" => rows[i].acct \in dropped \cup {a},
           \A x \in dropped : Ledger(Over(rows, txn), x) = {},
           Transact(h, rows, a, dropped)
    PROVE  LedgerInv'
<1> DEFINE book == Book(Over(rows, txn), a)
           hold == Over(Only(a, Materialized(book)), [b \in dropped |-> NoHolding])
           open == [pc |-> "open", rows |-> rows, book |-> hold]
<1>1. Tables /\ Sound(txn, holding) /\ Edits /\ OpenOnes /\ Locks
  BY DEF LedgerInv
<1>2. Accepted(book) => Fits(txn, rows, hold)
  BY <1>1, TransactFits
<1>3. /\ txn' = txn /\ holding' = holding
      /\ req' = [req EXCEPT ![h] = IF Accepted(book) THEN open ELSE Idle]
      /\ \A i \in DOMAIN rows : ~Locked(i)
  BY DEF Transact
<1> HIDE DEF book, hold, open
<1>4. /\ Tables' /\ Sound(txn', holding')
      /\ req'[h] = IF Accepted(book) THEN open ELSE Idle
      /\ \A k \in Slots \ {h} : req'[k] = req[k]
  <2>1. Tables'
    BY <1>1, <1>3 DEF Tables
  <2>2. Sound(txn', holding')
    BY <1>1, <1>3
  <2>3. /\ req'[h] = IF Accepted(book) THEN open ELSE Idle
        /\ \A k \in Slots \ {h} : req'[k] = req[k]
    BY <1>1, <1>3 DEF Tables
  <2> QED
    BY <2>1, <2>2, <2>3
<1>5. /\ req'[h].pc \in {"open", "idle"}
      /\ req'[h].pc = "open" => req'[h].rows = rows /\ req'[h].book = hold /\ Fits(txn, rows, hold)
  BY <1>2, <1>4 DEF open, Idle
<1>6. Edits'
  BY <1>1, <1>3, <1>4, <1>5 DEF Edits, Live
<1>7. OpenOnes'
  <2> SUFFICES ASSUME NEW k \in Slots, req'[k].pc = "open" PROVE Fits(txn, req'[k].rows, req'[k].book)
    BY <1>3 DEF OpenOnes, Open
  <2>1. CASE k = h
    BY <1>5, <2>1
  <2>2. CASE k # h
    BY <1>1, <1>4, <2>2 DEF OpenOnes, Open
  <2> QED
    BY <2>1, <2>2
<1>8. Locks'
  <2>1. ASSUME NEW k \in Slots, k # h, req[k].pc = "open" PROVE DOMAIN rows \cap DOMAIN req[k].rows = {}
    BY <1>3, <2>1 DEF Locked, Open
  <2> QED
    BY <1>1, <1>4, <1>5, <2>1 DEF Locks, Open
<1> QED
  BY <1>4, <1>6, <1>7, <1>8 DEF LedgerInv

-----------------------------------------------------------------------------
\* The invariant holds before the first request ...
LEMMA InitKeeps == ASSUME Init PROVE LedgerInv
<1>1. Tables
  BY DEF Init, Tables, Rows
<1>2. ASSUME NEW a \in Accts PROVE Faithful(txn, holding, a)
  <2>1. Ledger(txn, a) = {}
    BY DEF Init, Ledger, Live, Free
  <2>2. ~holding[a].there
    BY DEF Init, NoHolding
  <2>3. DOMAIN Book(txn, a) = {}
    BY <2>1 DEF Book
  <2> QED
    BY <2>1, <2>2, <2>3, EmptyReplays DEF Faithful
<1>3. \A h \in Slots : req[h].pc = "idle"
  BY DEF Init, Idle
<1> QED
  BY <1>1, <1>2, <1>3 DEF LedgerInv, Sound, Edits, OpenOnes, Locks, Open

\* ... and every step of a request keeps it.
LEMMA AddKeeps == ASSUME LedgerInv, NEW h \in Slots, BeginAdd(h) PROVE LedgerInv'
<1>1. PICK id \in Ids \ Taken, a \in Accts, e \in Entries, d \in Dates :
        Transact(h, Only(id, Row(a, e, d)), a, {})
  BY DEF BeginAdd
<1> DEFINE rows == Only(id, Row(a, e, d))
<1>2. DOMAIN rows = {id} /\ rows[id] = Row(a, e, d)
  BY DEF Only
<1>3. Row(a, e, d) \in Rows /\ Row(a, e, d).st = "live" /\ Row(a, e, d).acct = a
  BY DEF Row, Rows
<1>4. txn[id].st = "free"
  BY DEF Taken, Free
<1> QED
  BY <1>1, <1>2, <1>3, <1>4, TransactKeeps

\* Reading a row for an edit: the request knows the account it read.
LEMMA ReadKeeps == ASSUME LedgerInv, NEW h \in Slots, ReadForEdit(h) PROVE LedgerInv'
<1>1. PICK id \in Live(txn), op \in {"patch", "delete"} :
        req' = [req EXCEPT ![h] = [pc |-> op, id |-> id, acct |-> txn[id].acct]]
  BY DEF ReadForEdit
<1>2. txn' = txn /\ holding' = holding
  BY DEF ReadForEdit
<1>3. /\ Tables' /\ Sound(txn, holding)'
      /\ req'[h] = [pc |-> op, id |-> id, acct |-> txn[id].acct]
      /\ \A k \in Slots \ {h} : req'[k] = req[k]
  BY <1>1, <1>2 DEF LedgerInv, Tables, Sound, Faithful, Ledger, Live, Book
<1>4. id \in Ids /\ txn[id].acct \in Accts /\ txn[id].st = "live"
  BY DEF Live, LedgerInv, Tables, Rows, Free, Gone
<1>5. Edits'
  BY <1>2, <1>3, <1>4 DEF Edits, LedgerInv, Live
<1>6. OpenOnes' /\ Locks'
  <2>1. \A k \in Slots : req'[k].pc = "open" => k # h /\ req'[k] = req[k]
    BY <1>3
  <2> QED
    BY <1>2, <2>1 DEF OpenOnes, Open, LedgerInv, Locks
<1> QED
  BY <1>3, <1>5, <1>6 DEF LedgerInv

\* A correction keeps the row in its account.
LEMMA PatchKeeps ==
    ASSUME LedgerInv, NEW h \in Slots, BeginPatch(h), req[h].id \in Live(txn)
    PROVE  LedgerInv'
<1> DEFINE id == req[h].id
           a == req[h].acct
<1>1. PICK e \in Entries, d \in Dates : Transact(h, Only(id, Row(a, e, d)), a, {})
  BY DEF BeginPatch
<1> DEFINE rows == Only(id, Row(a, e, d))
<1>2. DOMAIN rows = {id} /\ rows[id] = Row(a, e, d)
  BY DEF Only
<1>3. id \in Ids /\ a \in Accts /\ txn[id].st = "live" /\ txn[id].acct = a
  BY DEF BeginPatch, LedgerInv, Edits, Live
<1>4. Row(a, e, d) \in Rows /\ Row(a, e, d).st = "live" /\ Row(a, e, d).acct = a
  BY <1>3 DEF Row, Rows
<1> QED
  BY <1>1, <1>2, <1>3, <1>4, TransactKeeps

\* A deletion takes a row out of its account.
LEMMA DeleteKeeps ==
    ASSUME LedgerInv, NEW h \in Slots, BeginDelete(h), req[h].id \in Live(txn)
    PROVE  LedgerInv'
<1> DEFINE id == req[h].id
           a == req[h].acct
           rows == Only(id, Gone)
<1>1. Transact(h, rows, a, {})
  BY DEF BeginDelete
<1>2. DOMAIN rows = {id} /\ rows[id] = Gone
  BY DEF Only
<1>3. id \in Ids /\ a \in Accts /\ txn[id].st = "live" /\ txn[id].acct = a
  BY DEF BeginDelete, LedgerInv, Edits, Live
<1>4. Gone \in Rows /\ Gone.st = "gone"
  BY DEF Rows, Gone
<1> QED
  BY <1>1, <1>2, <1>3, <1>4, TransactKeeps

\* A move takes all rows of one account to the other.
LEMMA TransferKeeps == ASSUME LedgerInv, NEW h \in Slots, BeginTransfer(h) PROVE LedgerInv'
<1> DEFINE dupes(a, b) == IF holding[b].there THEN Duplicates(a, b) ELSE {}
           moved(a, b) == [i \in Ledger(txn, a) |->
                             IF i \in dupes(a, b) THEN Gone ELSE [txn[i] EXCEPT !.acct = b]]
<1>1. PICK a \in Accts : \E b \in Accts \ {a} : Transact(h, moved(a, b), b, Emptied(a))
  BY DEF BeginTransfer
<1>2. PICK b \in Accts \ {a} : Transact(h, moved(a, b), b, {a})
  BY <1>1 DEF Emptied
<1> DEFINE rows == moved(a, b)
<1>3. txn \in [Ids -> Rows]
  BY DEF LedgerInv, Tables
<1>4. DOMAIN rows = Ledger(txn, a) /\ Ledger(txn, a) \subseteq Ids
  BY DEF Ledger, Live
<1>5. ASSUME NEW i \in Ledger(txn, a)
      PROVE  /\ txn[i].st = "live" /\ txn[i].acct = a
             /\ rows[i] \in Rows /\ rows[i].st # "free"
             /\ rows[i] = Gone \/ rows[i].acct = b
  <2>1. txn[i] \in [st : {"live"}, acct : Accts, entry : Entries, date : Dates]
    BY <1>3 DEF Ledger, Live, Rows, Free, Gone
  <2>2. /\ [txn[i] EXCEPT !.acct = b] \in [st : {"live"}, acct : Accts, entry : Entries, date : Dates]
        /\ [txn[i] EXCEPT !.acct = b].acct = b /\ [txn[i] EXCEPT !.acct = b].st = "live"
    BY <2>1
  <2>3. rows[i] = Gone \/ rows[i] = [txn[i] EXCEPT !.acct = b]
    OBVIOUS
  <2> QED
    BY <2>2, <2>3 DEF Rows, Ledger, Gone
<1> HIDE DEF moved
<1>6. \A i \in DOMAIN rows :
        /\ rows[i] \in Rows /\ rows[i].st # "free" /\ txn[i].st # "gone"
        /\ txn[i].st = "live" => txn[i].acct \in {a} \cup {b}
        /\ rows[i].st = "live" => rows[i].acct \in {a} \cup {b}
  BY <1>4, <1>5 DEF Gone
<1>7. Ledger(Over(rows, txn), a) = {}
  <2>1. ASSUME NEW i \in Ids, Over(rows, txn)[i].st = "live", Over(rows, txn)[i].acct = a PROVE FALSE
    <3>1. Over(rows, txn)[i] = IF i \in Ledger(txn, a) THEN rows[i] ELSE txn[i]
      BY <1>3, <1>4 DEF Over
    <3>2. CASE i \in Ledger(txn, a)
      BY <1>5, <2>1, <3>1, <3>2 DEF Gone
    <3>3. CASE i \notin Ledger(txn, a)
      BY <2>1, <3>1, <3>3 DEF Ledger, Live
    <3> QED
      BY <3>2, <3>3
  <2> QED
    BY <2>1 DEF Ledger, Live
<1> QED
  BY <1>2, <1>4, <1>6, <1>7, TransactKeeps

\* A commit makes visible what fits, and what the others read is not in it.
LEMMA CommitKeeps == ASSUME Apart, LedgerInv, NEW h \in Slots, Commit(h) PROVE LedgerInv'
<1> DEFINE rows == req[h].rows
           book == req[h].book
           T == Over(rows, txn)
           H == Over(book, holding)
<1>1. txn' = T /\ holding' = H /\ req' = [req EXCEPT ![h] = Idle]
  BY DEF Commit
<1>2. Tables /\ Sound(txn, holding) /\ Edits /\ OpenOnes /\ Locks /\ Fits(txn, rows, book) /\ Open(h)
  BY DEF Commit, LedgerInv, OpenOnes
<1>3. /\ DOMAIN T = Ids /\ DOMAIN H = Accts /\ DOMAIN txn = Ids
      /\ \A i \in Ids : T[i] = IF i \in DOMAIN rows THEN rows[i] ELSE txn[i]
      /\ \A x \in Accts : H[x] = IF x \in DOMAIN book THEN book[x] ELSE holding[x]
  BY <1>2 DEF Over, Tables, Fits
<1>4. /\ req'[h].pc = "idle"
      /\ \A k \in Slots \ {h} : req'[k] = req[k]
      /\ req' = [k \in Slots |-> req'[k]]
  BY <1>1, <1>2 DEF Tables, Idle
<1>5. Tables'
  <2>1. \A i \in Ids : T[i] \in Rows
    BY <1>2, <1>3 DEF Fits, Tables
  <2>2. T = [i \in Ids |-> T[i]]
    BY <1>3 DEF Over
  <2>3. T \in [Ids -> Rows]
    BY <2>1, <2>2
  <2> HIDE DEF T, H
  <2> QED
    BY <1>1, <1>3, <1>4, <2>3 DEF Tables, Rows, Ids, Free, Gone
<1>6. Sound(T, H)
  <2> SUFFICES ASSUME NEW x \in Accts PROVE Faithful(T, H, x)
    BY DEF Sound
  <2>1. CASE x \in DOMAIN book
    <3>1. Faithful(T, book, x) /\ H[x] = book[x]
      BY <1>2, <1>3, <2>1 DEF Fits
    <3> QED
      BY <3>1 DEF Faithful
  <2>2. CASE x \notin DOMAIN book
    <3>1. Faithful(txn, holding, x) /\ H[x] = holding[x]
      BY <1>2, <1>3, <2>2 DEF Sound
    <3>2. Ledger(T, x) = Ledger(txn, x) /\ Book(T, x) = Book(txn, x)
      BY <1>2, <1>3, <2>2, OtherBook DEF Fits
    <3> QED
      BY <3>1, <3>2 DEF Faithful
  <2> QED
    BY <2>1, <2>2
<1>7. ASSUME NEW k \in Slots, k # h PROVE Touched(k) \cap DOMAIN book = {}
  BY <1>2, <1>7 DEF Apart, Touched, Open
<1> HIDE DEF T, H
<1>8. Edits'
  <2> SUFFICES ASSUME NEW k \in Slots, req'[k].pc \in {"patch", "delete"}
               PROVE  /\ req'[k].id \in Ids /\ req'[k].acct \in Accts
                      /\ T[req'[k].id].st # "free"
                      /\ T[req'[k].id].st = "live" => T[req'[k].id].acct = req'[k].acct
    BY <1>1 DEF Edits, Live
  <2>1. k # h /\ req'[k] = req[k]
    BY <1>4
  <2>2. /\ req[k].id \in Ids /\ req[k].acct \in Accts
        /\ txn[req[k].id].st # "free"
        /\ txn[req[k].id].st = "live" => txn[req[k].id].acct = req[k].acct
    BY <1>2, <2>1 DEF Edits, Live
  <2>3. req[k].acct \notin DOMAIN book
    BY <1>7, <2>1 DEF Touched
  <2>4. req[k].id \notin DOMAIN rows
    <3>1. txn[req[k].id].st \in {"free", "gone", "live"}
      BY <1>2, <2>2 DEF Tables, Rows, Free, Gone
    <3> QED
      BY <1>2, <2>2, <2>3, <3>1 DEF Fits
  <2> QED
    BY <1>3, <2>1, <2>2, <2>4
<1>9. OpenOnes'
  <2> SUFFICES ASSUME NEW k \in Slots, req'[k].pc = "open" PROVE Fits(T, req'[k].rows, req'[k].book)
    BY <1>1 DEF OpenOnes, Open
  <2> DEFINE mine == req[k].rows
             kept == req[k].book
  <2>1. k # h /\ req'[k] = req[k]
    BY <1>4
  <2>2. Fits(txn, mine, kept) /\ DOMAIN mine \cap DOMAIN rows = {} /\ DOMAIN kept \cap DOMAIN book = {}
    BY <1>2, <1>7, <2>1 DEF OpenOnes, Open, Locks, Touched
  <2> HIDE DEF mine, kept, rows, book
  <2>3. \A i \in DOMAIN mine : T[i] = txn[i]
    BY <1>3, <2>2 DEF Fits
  <2>4. ASSUME NEW x \in DOMAIN kept PROVE Faithful(Over(mine, T), kept, x)
    <3>1. Faithful(Over(mine, txn), kept, x) /\ x \notin DOMAIN book
      BY <2>2 DEF Fits
    <3>2. \A i \in Ids : /\ Over(mine, T)[i] = IF i \in DOMAIN mine THEN mine[i] ELSE T[i]
                         /\ Over(mine, txn)[i] = IF i \in DOMAIN mine THEN mine[i] ELSE txn[i]
      BY <1>3 DEF Over
    <3>3. \A i \in DOMAIN rows : /\ ~(txn[i].st = "live" /\ txn[i].acct = x)
                                 /\ ~(rows[i].st = "live" /\ rows[i].acct = x)
      BY <1>2, <3>1 DEF Fits
    <3>4. Ledger(Over(mine, T), x) = Ledger(Over(mine, txn), x)
      BY <1>3, <3>2, <3>3 DEF Ledger, Live
    <3>5. \A i \in Ledger(Over(mine, T), x) : Over(mine, T)[i] = Over(mine, txn)[i]
      BY <1>3, <3>2, <3>3 DEF Ledger, Live
    <3>6. Book(Over(mine, T), x) = Book(Over(mine, txn), x)
      BY <3>4, <3>5, SameBook
    <3> QED
      BY <3>1, <3>4, <3>6 DEF Faithful
  <2>5. Fits(T, mine, kept)
    BY <2>2, <2>3, <2>4 DEF Fits
  <2> QED
    BY <2>1, <2>5 DEF mine, kept
<1>10. Locks'
  BY <1>2, <1>4 DEF Locks, Open
<1> QED
  BY <1>1, <1>5, <1>6, <1>8, <1>9, <1>10 DEF LedgerInv, Sound, Faithful

\* An edit whose row is gone and a rollback only close the request.
LEMMA CloseKeeps ==
    ASSUME LedgerInv, NEW h \in Slots,
           req' = [req EXCEPT ![h] = Idle], UNCHANGED <<txn, holding>>
    PROVE  LedgerInv'
<1>1. Tables' /\ req'[h].pc = "idle" /\ \A k \in Slots \ {h} : req'[k] = req[k]
  BY DEF LedgerInv, Tables, Idle
<1>2. Edits'
  BY <1>1 DEF Edits, LedgerInv, Live
<1>3. OpenOnes' /\ Locks'
  <2>1. \A k \in Slots : req'[k].pc = "open" => k # h /\ req'[k] = req[k]
    BY <1>1
  <2> QED
    BY <2>1 DEF OpenOnes, Open, LedgerInv, Locks
<1> QED
  BY <1>1, <1>2, <1>3 DEF LedgerInv, Sound, Faithful

\* So every step does.
LEMMA StepKeeps == ASSUME Apart, LedgerInv, [Next]_vars PROVE LedgerInv'
<1>1. ASSUME NEW h \in Slots, BeginAdd(h) PROVE LedgerInv'
  BY <1>1, AddKeeps
<1>2. ASSUME NEW h \in Slots, ReadForEdit(h) PROVE LedgerInv'
  BY <1>2, ReadKeeps
<1>3. ASSUME NEW h \in Slots, BeginPatch(h) PROVE LedgerInv'
  <2>1. CASE req[h].id \in Live(txn)
    BY <1>3, <2>1, PatchKeeps
  <2>2. CASE req[h].id \notin Live(txn)
    BY <1>3, <2>2, CloseKeeps DEF BeginPatch, Refused
  <2> QED
    BY <2>1, <2>2
<1>4. ASSUME NEW h \in Slots, BeginDelete(h) PROVE LedgerInv'
  <2>1. CASE req[h].id \in Live(txn)
    BY <1>4, <2>1, DeleteKeeps
  <2>2. CASE req[h].id \notin Live(txn)
    BY <1>4, <2>2, CloseKeeps DEF BeginDelete, Refused
  <2> QED
    BY <2>1, <2>2
<1>5. ASSUME NEW h \in Slots, BeginTransfer(h) PROVE LedgerInv'
  BY <1>5, TransferKeeps
<1>6. ASSUME NEW h \in Slots, Commit(h) PROVE LedgerInv'
  BY <1>6, CommitKeeps
<1>7. ASSUME NEW h \in Slots, Rollback(h) PROVE LedgerInv'
  BY <1>7, CloseKeeps DEF Rollback, Refused
<1>8. CASE UNCHANGED vars
  <2>1. txn' = txn /\ holding' = holding /\ req' = req
    BY <1>8 DEF vars
  <2>2. Tables' /\ Sound(txn', holding')
    BY <2>1 DEF LedgerInv, Tables
  <2>3. Edits' /\ Locks'
    BY <2>1 DEF LedgerInv, Edits, Live, Locks, Open
  <2>4. OpenOnes'
    BY <2>1 DEF LedgerInv, OpenOnes, Open
  <2> QED
    BY <2>2, <2>3, <2>4 DEF LedgerInv
<1> QED
  BY <1>1, <1>2, <1>3, <1>4, <1>5, <1>6, <1>7, <1>8 DEF Next

-----------------------------------------------------------------------------
\* While overlapping requests concern different accounts, a holding is exactly
\* what replaying its ledger gives, after any sequence of adds, corrections,
\* deletions, moves, refusals and rollbacks (replayAndMaterialize, movePositionWithinTx).
THEOREM HoldingsAreReplays == Spec /\ []Apart => []HoldingIsReplay
<1>1. LedgerInv => HoldingIsReplay
  BY DEF LedgerInv, Sound, Faithful, HoldingIsReplay
<1>2. Init => LedgerInv
  BY InitKeeps
<1>3. Apart /\ LedgerInv /\ [Next]_vars => LedgerInv'
  BY StepKeeps
<1> QED
  BY <1>1, <1>2, <1>3, PTL DEF Spec

\* While overlapping requests concern different accounts, no ledger ever sells
\* what it did not hold.
THEOREM LedgersReplay == Spec /\ []Apart => []Replayable
<1>1. LedgerInv => Replayable
  BY DEF LedgerInv, Sound, Faithful, Replayable, Accepted
<1>2. Init => LedgerInv
  BY InitKeeps
<1>3. Apart /\ LedgerInv /\ [Next]_vars => LedgerInv'
  BY StepKeeps
<1> QED
  BY <1>1, <1>2, <1>3, PTL DEF Spec

-----------------------------------------------------------------------------
(* Induction over finite sets, and the recursions it justifies. *)

\* What holds of a set once it holds of its proper subsets holds of every
\* subset of a finite set.
LEMMA SetInduction ==
    ASSUME NEW D, IsFiniteSet(D), NEW Good,
           \A S \in SUBSET D : (\A R \in SUBSET S : R # S => R \in Good) => S \in Good
    PROVE  SUBSET D \subseteq Good
<1> DEFINE Less == StrictSubsetOrdering(D)
           Bad == (SUBSET D) \ Good
<1>1. IsWellFoundedOn(Less, SUBSET D)
  BY FS_StrictSubsetOrderingWellFounded, FS_FiniteSubsetsOfFinite
<1> SUFFICES ASSUME Bad # {} PROVE FALSE
  OBVIOUS
<1> HIDE DEF Less
<1>2. PICK S \in Bad : \A R \in Bad : ~(<<R, S>> \in Less)
  <2>1. Bad \subseteq SUBSET D
    OBVIOUS
  <2> HIDE DEF Bad
  <2> QED
    BY <1>1, <2>1, WFMin
<1>3. ASSUME NEW R \in SUBSET S, R # S PROVE R \in Good
  <2>1. <<R, S>> \in Less
    BY <1>3 DEF Less, StrictSubsetOrdering
  <2> QED
    BY <1>2, <2>1
<1> QED
  BY <1>2, <1>3

\* Induction over 0 .. n.
LEMMA UpTo ==
    ASSUME NEW n \in Nat, NEW Good, 0 \in Good,
           \A k \in 0 .. n - 1 : k \in Good => k + 1 \in Good
    PROVE  0 .. n \subseteq Good
<1> DEFINE Less == OpToRel(<, Nat)
           Bad == (0 .. n) \ Good
<1>1. IsWellFoundedOn(Less, Nat)
  BY NatLessThanWellFounded
<1> SUFFICES ASSUME Bad # {} PROVE FALSE
  OBVIOUS
<1>a. Bad \subseteq Nat
  OBVIOUS
<1> HIDE DEF Less
<1>2. PICK k \in Bad : \A j \in Bad : ~(<<j, k>> \in Less)
  <2> HIDE DEF Bad
  <2> QED BY <1>1, <1>a, WFMin
<1>3. k # 0 /\ k - 1 \in 0 .. n - 1
  OBVIOUS
<1>4. <<k - 1, k>> \in Less
  BY <1>3 DEF Less, OpToRel
<1>5. k - 1 \in Good
  BY <1>2, <1>3, <1>4
<1> QED
  BY <1>3, <1>5

\* g is the recursion over the subsets of X.
Recurses(g, X, V, v0, last, step) ==
    /\ g = [S \in SUBSET X |-> g[S]]
    /\ \A S \in SUBSET X : g[S] \in V[S]
    /\ \A S \in SUBSET X : g[S] = IF S = {} THEN v0 ELSE step[S][g[S \ {last[S]}]]

\* Two such recursions give a set they share the same value.
LEMMA RecursionAgrees ==
    ASSUME NEW D, IsFiniteSet(D), NEW V, NEW v0, NEW last, NEW step,
           \A S \in SUBSET D : S # {} => last[S] \in S,
           NEW X \in SUBSET D, NEW Y \in SUBSET D, NEW g, NEW h,
           Recurses(g, X, V, v0, last, step), Recurses(h, Y, V, v0, last, step),
           NEW S \in (SUBSET X) \cap (SUBSET Y)
    PROVE  g[S] = h[S]
<1> DEFINE Good == {R \in SUBSET D : R \subseteq X /\ R \subseteq Y => g[R] = h[R]}
<1>1. ASSUME NEW R \in SUBSET D, \A Q \in SUBSET R : Q # R => Q \in Good PROVE R \in Good
  <2> SUFFICES ASSUME R \subseteq X, R \subseteq Y, R # {} PROVE g[R] = h[R]
    BY DEF Recurses
  <2> DEFINE Q == R \ {last[R]}
  <2>1. Q \in SUBSET R /\ Q # R
    OBVIOUS
  <2>2. g[Q] = h[Q]
    BY <1>1, <2>1
  <2>3. g[R] = step[R][g[Q]] /\ h[R] = step[R][h[Q]]
    BY DEF Recurses
  <2> QED
    BY <2>2, <2>3
<1> HIDE DEF Good
<1>2. SUBSET D \subseteq Good
  BY <1>1, SetInduction
<1> QED
  BY <1>2 DEF Good

\* The recursion exists if every step stays in its range.
LEMMA RecursionExists ==
    ASSUME NEW D, IsFiniteSet(D), NEW V, NEW v0 \in V[{}], NEW last, NEW step,
           \A S \in SUBSET D : S # {} => last[S] \in S,
           \A S \in SUBSET D : S # {} => \A v \in V[S \ {last[S]}] : step[S][v] \in V[S]
    PROVE  \E g : Recurses(g, D, V, v0, last, step)
<1> DEFINE Agrees(g, X) == Recurses(g, X, V, v0, last, step)
           Good == {X \in SUBSET D : \E g : Agrees(g, X)}
<1>1. ASSUME NEW X \in SUBSET D, \A Y \in SUBSET X : Y # X => Y \in Good PROVE X \in Good
  <2> DEFINE part(Y) == CHOOSE g : Agrees(g, Y)
             less(Y) == Y \ {last[Y]}
             g == [Y \in SUBSET X |->
                     IF Y # X THEN part(Y)[Y]
                     ELSE IF X = {} THEN v0 ELSE step[X][part(less(X))[less(X)]]]
  <2>1. ASSUME NEW Y \in SUBSET X, Y # X PROVE Agrees(part(Y), Y)
    BY <1>1, <2>1
  <2>2. ASSUME NEW Y \in SUBSET X, Y # {}
        PROVE  less(Y) \in SUBSET Y /\ less(Y) # X /\ less(Y) # Y /\ g[less(Y)] = part(less(Y))[less(Y)]
    BY <2>2
  <2>3. ASSUME NEW Y \in SUBSET X PROVE g[Y] \in V[Y] /\ g[Y] = IF Y = {} THEN v0 ELSE step[Y][g[less(Y)]]
    <3>1. CASE Y = {} /\ X = {}
      BY <3>1
    <3>2. CASE Y = {} /\ X # {}
      <4>1. Agrees(part(Y), Y)
        BY <2>1, <3>2
      <4>2. part(Y)[Y] = v0
        BY <3>2, <4>1 DEF Recurses
      <4> HIDE DEF part
      <4> QED
        BY <3>2, <4>2
    <3>3. CASE Y # {}
      <4> DEFINE Z == less(Y)
      <4>1. Z \in SUBSET Y /\ Z # X /\ Z # Y /\ g[Z] = part(Z)[Z]
        BY <2>2, <3>3
      <4>2. Agrees(part(Z), Z)
        BY <2>1, <4>1
      <4>3. g[Z] \in V[Z]
        BY <4>1, <4>2 DEF Recurses
      <4>4. CASE Y = X
        <5>1. g[Y] = step[X][part(Z)[Z]]
          BY <3>3, <4>4
        <5> HIDE DEF g, Z
        <5> QED
          BY <5>1, <4>1, <4>3, <4>4, <3>3 DEF Z
      <4>5. CASE Y # X
        <5>1. Agrees(part(Y), Y)
          BY <2>1, <4>5
        <5>2. part(Y)[Y] = step[Y][part(Y)[Z]]
          BY <3>3, <5>1 DEF Recurses
        <5>3. part(Y)[Z] = part(Z)[Z]
          <6>1. Z \in (SUBSET Y) \cap (SUBSET Z) /\ Y \in SUBSET D /\ Z \in SUBSET D
            BY <4>1
          <6> DEFINE p == part(Y)
                     q == part(Z)
          <6>2. Recurses(p, Y, V, v0, last, step) /\ Recurses(q, Z, V, v0, last, step)
            BY <5>1, <4>2
          <6> HIDE DEF Z, part, p, q
          <6>3. p[Z] = q[Z]
            BY <6>1, <6>2, RecursionAgrees
          <6> QED
            BY <6>3 DEF p, q
        <5>4. g[Y] = part(Y)[Y]
          BY <4>5
        <5> HIDE DEF g, Z, part
        <5> QED
          BY <5>2, <5>3, <5>4, <4>1, <4>3, <3>3 DEF Z
      <4> QED
        BY <4>4, <4>5
    <3> QED
      BY <3>1, <3>2, <3>3
  <2>4. DOMAIN g = SUBSET X /\ g = [Y \in SUBSET X |-> g[Y]]
    <3> HIDE DEF part, less
    <3> QED
      OBVIOUS
  <2> HIDE DEF g
  <2>5. Agrees(g, X)
    BY <2>3, <2>4 DEF Recurses
  <2> QED
    BY <2>5
<1> HIDE DEF Good
<1>2. D \in Good
  BY <1>1, SetInduction
<1> QED
  BY <1>2 DEF Good

\* The sequence folds recurse on the largest index left.
LEMMA MaxIsLast ==
    ASSUME NEW n \in Nat
    PROVE  /\ \A s \in SUBSET (1 .. n) : s # {} => Max(s) \in s
           /\ \A k \in 1 .. n : Max(1 .. k) = k
<1> DEFINE D == 1 .. n
<1>1. IsFiniteSet(D)
  BY FS_Interval
<1> DEFINE Good == {s \in SUBSET D : s # {} => \E x \in s : \A y \in s : x >= y}
<1>2. ASSUME NEW s \in SUBSET D, \A r \in SUBSET s : r # s => r \in Good PROVE s \in Good
  <2> SUFFICES ASSUME NEW z \in s PROVE \E x \in s : \A y \in s : x >= y
    OBVIOUS
  <2> DEFINE r == s \ {z}
  <2>0. r \in SUBSET s /\ r # s
    OBVIOUS
  <2>a. r \in Good
    BY <1>2, <2>0
  <2>b. \A x \in s : x \in Int
    OBVIOUS
  <2>1. r \in Good /\ \A x \in s : x \in Int
    BY <2>a, <2>b
  <2>2. CASE r = {}
    <3>1. \A y \in s : z >= y
      BY <2>1, <2>2
    <3> QED
      BY <3>1
  <2>3. CASE r # {}
    <3>1. PICK x \in r : \A y \in r : x >= y
      BY <2>1, <2>3
    <3>2. x \in s /\ x \in Int /\ z \in Int
      BY <2>1
    <3>3. \A y \in s : y = z \/ y \in r
      OBVIOUS
    <3>4. CASE x >= z
      BY <3>1, <3>2, <3>3, <3>4
    <3>5. CASE z >= x
      <4>1. \A y \in s : z >= y
        BY <3>1, <3>2, <3>3, <3>5, <2>1
      <4> QED
        BY <4>1
    <3> QED
      BY <3>2, <3>4, <3>5
  <2> QED
    BY <2>2, <2>3
<1> HIDE DEF Good, D
<1>3. SUBSET D \subseteq Good
  BY <1>1, <1>2, SetInduction
<1>4. \A s \in SUBSET (1 .. n) : s # {} => \E x \in s : \A y \in s : x >= y
  BY <1>3 DEF Good, D
<1>5. ASSUME NEW s \in SUBSET (1 .. n), s # {} PROVE Max(s) \in s /\ \A y \in s : Max(s) >= y
  BY <1>4, <1>5 DEF Max
<1>6. ASSUME NEW k \in 1 .. n PROVE Max(1 .. k) = k
  <2>1. 1 .. k \in SUBSET (1 .. n) /\ 1 .. k # {} /\ k \in 1 .. k
    OBVIOUS
  <2>2. Max(1 .. k) \in 1 .. k /\ Max(1 .. k) >= k
    BY <1>5, <2>1
  <2> QED
    BY <2>2
<1> QED
  BY <1>5, <1>6

\* g is a fold over 1 .. n, from v0, k taking v to step[k][v].
FoldsOver(g, n, V, v0, step) ==
    /\ g \in [SUBSET (1 .. n) -> V]
    /\ \A s \in SUBSET (1 .. n) : g[s] = IF s = {} THEN v0 ELSE step[Max(s)][g[s \ {Max(s)}]]

\* The recursion a fold over a sequence of length n stands for exists.
LEMMA FoldExists ==
    ASSUME NEW n \in Nat, NEW V, NEW v0 \in V, NEW step,
           \A k \in 1 .. n, v \in V : step[k][v] \in V
    PROVE  \E g : FoldsOver(g, n, V, v0, step)
<1> DEFINE D == 1 .. n
           last == [s \in SUBSET D |-> Max(s)]
           steps == [s \in SUBSET D |-> step[Max(s)]]
           range == [s \in SUBSET D |-> V]
<1>1. IsFiniteSet(D)
  BY FS_Interval
<1>2. \A s \in SUBSET D : s # {} => last[s] \in s
  BY MaxIsLast
<1>3. ASSUME NEW s \in SUBSET D, s # {} PROVE \A v \in range[s \ {last[s]}] : steps[s][v] \in range[s]
  <2>1. Max(s) \in 1 .. n
    BY <1>3, MaxIsLast
  <2>2. range[s \ {last[s]}] = V /\ range[s] = V /\ steps[s] = step[Max(s)]
    OBVIOUS
  <2> QED
    BY <2>1, <2>2
<1>4. \A s \in SUBSET D : s # {} => last[s] = Max(s) /\ steps[s] = step[Max(s)]
  OBVIOUS
<1>5. v0 \in range[{}] /\ \A s \in SUBSET D : range[s] = V
  OBVIOUS
<1> HIDE DEF last, steps, range, D
<1>6. PICK g : Recurses(g, D, range, v0, last, steps)
  BY <1>1, <1>2, <1>3, <1>5, RecursionExists
<1>7. g \in [SUBSET D -> V]
  BY <1>5, <1>6 DEF Recurses
<1>8. \A s \in SUBSET D : g[s] = IF s = {} THEN v0 ELSE step[Max(s)][g[s \ {Max(s)}]]
  BY <1>4, <1>6 DEF Recurses
<1> QED
  BY <1>7, <1>8 DEF FoldsOver, D

-----------------------------------------------------------------------------
(* The FIFO engine, from one lot to a whole ledger. *)

\* A lot whose unit cost is in C and whose row is in I.
Lot(C, I) == [qty : Nat \ {0}, cost : C, src : I]

\* f is the recursion a sum over a sequence of length n stands for.
IsSum(f, n, w) ==
    f = [s \in SUBSET (1 .. n) |-> IF s = {} THEN 0 ELSE f[s \ {Max(s)}] + w[Max(s)]]

\* The partial sums of f over 1 .. n.
Sums(f, n, w) ==
    /\ f \in [0 .. n -> Int] /\ f[0] = 0
    /\ \A k \in 1 .. n : f[k] = f[k - 1] + w[k]

\* The recursion has partial sums ...
LEMMA SumSteps ==
    ASSUME NEW n \in Nat, NEW w \in [1 .. n -> Int], NEW after,
           IsSum(after, n, w)
    PROVE  Sums([k \in 0 .. n |-> after[1 .. k]], n, w)
<1>1. after[{}] = 0 /\ 1 .. 0 = {}
  <2>1. {} \in SUBSET (1 .. n)
    OBVIOUS
  <2> QED
    BY <2>1 DEF IsSum
<1>2. ASSUME NEW k \in 1 .. n PROVE after[1 .. k] = after[1 .. (k - 1)] + w[k]
  <2>a. 1 .. k \in SUBSET (1 .. n) /\ k \in 1 .. k
    OBVIOUS
  <2>b. (1 .. k) \ {k} = 1 .. (k - 1)
    OBVIOUS
  <2>1. 1 .. k \in SUBSET (1 .. n) /\ 1 .. k # {} /\ (1 .. k) \ {k} = 1 .. (k - 1)
    BY <2>a, <2>b
  <2>2. Max(1 .. k) = k
    BY MaxIsLast
  <2> QED
    BY <2>1, <2>2 DEF IsSum
<1> DEFINE Good == {k \in 0 .. n : after[1 .. k] \in Int}
<1>3. 0 \in Good
  BY <1>1
<1>4. ASSUME NEW k \in 0 .. n - 1, k \in Good PROVE k + 1 \in Good
  <2>1. k + 1 \in 1 .. n /\ k + 1 \in 0 .. n /\ (k + 1) - 1 = k
    OBVIOUS
  <2>2. after[1 .. (k + 1)] = after[1 .. k] + w[k + 1] /\ w[k + 1] \in Int
    BY <1>2, <2>1
  <2>3. after[1 .. k] \in Int
    BY <1>4
  <2>4. after[1 .. (k + 1)] \in Int
    BY <2>2, <2>3
  <2> QED
    BY <2>1, <2>4
<1> HIDE DEF Good
<1>5. 0 .. n \subseteq Good
  BY <1>3, <1>4, UpTo
<1>6. \A k \in 0 .. n : after[1 .. k] \in Int
  BY <1>5 DEF Good
<1> DEFINE f == [k \in 0 .. n |-> after[1 .. k]]
<1>7. f \in [0 .. n -> Int] /\ f[0] = 0
  <2>1. 0 \in 0 .. n
    OBVIOUS
  <2>2. f[0] = after[1 .. 0]
    BY <2>1
  <2> QED
    BY <1>1, <1>6, <2>2
<1>8. ASSUME NEW k \in 1 .. n PROVE f[k] = f[k - 1] + w[k]
  <2>1. k \in 0 .. n /\ k - 1 \in 0 .. n
    OBVIOUS
  <2>2. f[k] = after[1 .. k] /\ f[k - 1] = after[1 .. (k - 1)]
    BY <2>1
  <2> QED
    BY <1>2, <2>2
<1> QED
  BY <1>7, <1>8 DEF Sums

\* ... and exists.
LEMMA SumExists ==
    ASSUME NEW n \in Nat, NEW w \in [1 .. n -> Int]
    PROVE  \E f : IsSum(f, n, w)
<1> DEFINE step == [k \in 1 .. n |-> [v \in Int |-> v + w[k]]]
<1>1. \A k \in 1 .. n, v \in Int : step[k][v] \in Int /\ step[k][v] = v + w[k]
  OBVIOUS
<1> HIDE DEF step
<1>0. \A k \in 1 .. n, v \in Int : step[k][v] \in Int
  BY <1>1
<1>2. PICK g : FoldsOver(g, n, Int, 0, step)
  <2>1. 0 \in Int
    OBVIOUS
  <2> QED
    BY <1>0, <2>1, FoldExists
<1>3. ASSUME NEW s \in SUBSET (1 .. n), s # {} PROVE g[s] = g[s \ {Max(s)}] + w[Max(s)]
  <2>1. Max(s) \in 1 .. n /\ s \ {Max(s)} \in SUBSET (1 .. n)
    BY <1>3, MaxIsLast
  <2> QED
    BY <1>1, <1>2, <1>3, <2>1 DEF FoldsOver
<1>4. g[{}] = 0 /\ g = [s \in SUBSET (1 .. n) |-> g[s]]
  BY <1>2 DEF FoldsOver
<1>5. IsSum(g, n, w)
  BY <1>3, <1>4 DEF IsSum
<1> QED
  BY <1>5

\* OpenQty is the sum of the lots' shares.
LEMMA OpenQtySteps ==
    ASSUME NEW C \in SUBSET Int, NEW I, NEW lots \in Seq(Lot(C, I))
    PROVE  \E f : Sums(f, Len(lots), [k \in 1 .. Len(lots) |-> lots[k].qty]) /\ OpenQty(lots) = f[Len(lots)]
<1> DEFINE n == Len(lots)
           w == [k \in 1 .. n |-> lots[k].qty]
           G(f) == [s \in SUBSET (1 .. n) |-> IF s = {} THEN 0 ELSE f[s \ {Max(s)}] + w[Max(s)]]
           H(f) == [s \in SUBSET DOMAIN lots |-> IF s = {} THEN 0 ELSE f[s \ {Max(s)}] + lots[Max(s)].qty]
           after == CHOOSE f : f = H(f)
<1>1. n \in Nat /\ DOMAIN lots = 1 .. n /\ w \in [1 .. n -> Int]
  <2>1. n \in Nat /\ DOMAIN lots = 1 .. n /\ \A k \in 1 .. n : lots[k] \in Lot(C, I)
    OBVIOUS
  <2> QED
    BY <2>1 DEF Lot
<1>2. \A s \in SUBSET (1 .. n) : s # {} => w[Max(s)] = lots[Max(s)].qty
  BY <1>1, MaxIsLast
<1>3. \A f : G(f) = H(f)
  BY <1>1, <1>2
<1>4. \E f : f = G(f)
  <2>1. \E f : IsSum(f, n, w)
    <3> HIDE DEF n, w
    <3> QED
      BY <1>1, SumExists
  <2> QED
    BY <2>1 DEF IsSum
<1>5. after = H(after)
  BY <1>3, <1>4
<1>6. OpenQty(lots) = after[DOMAIN lots]
  BY DEF OpenQty, FoldLeft, MapThenFoldSet
<1>7. IsSum(after, n, w)
  BY <1>3, <1>5 DEF IsSum
<1> DEFINE f == [k \in 0 .. n |-> after[1 .. k]]
<1>8. Sums(f, n, w)
  <2> HIDE DEF n, w, after
  <2> QED
    BY <1>1, <1>7, SumSteps
<1>9. f[n] = OpenQty(lots)
  BY <1>1, <1>6
<1> QED
  BY <1>8, <1>9

\* OpenValue is the sum of what the lots cost.
LEMMA OpenValueSteps ==
    ASSUME NEW C \in SUBSET Int, NEW I, NEW lots \in Seq(Lot(C, I))
    PROVE  \E f : Sums(f, Len(lots), [k \in 1 .. Len(lots) |-> lots[k].qty * lots[k].cost]) /\ OpenValue(lots) = f[Len(lots)]
<1> DEFINE n == Len(lots)
           w == [k \in 1 .. n |-> lots[k].qty * lots[k].cost]
           G(f) == [s \in SUBSET (1 .. n) |-> IF s = {} THEN 0 ELSE f[s \ {Max(s)}] + w[Max(s)]]
           H(f) == [s \in SUBSET DOMAIN lots |->
                       IF s = {} THEN 0 ELSE f[s \ {Max(s)}] + lots[Max(s)].qty * lots[Max(s)].cost]
           after == CHOOSE f : f = H(f)
<1>1. n \in Nat /\ DOMAIN lots = 1 .. n /\ w \in [1 .. n -> Int]
  <2>1. n \in Nat /\ DOMAIN lots = 1 .. n /\ \A k \in 1 .. n : lots[k] \in Lot(C, I)
    OBVIOUS
  <2>b. \A k \in 1 .. n : lots[k].qty \in Int /\ lots[k].cost \in C
    BY <2>1 DEF Lot
  <2>a. \A k \in 1 .. n : lots[k].qty \in Int /\ lots[k].cost \in Int
    BY <2>b
  <2>2. \A k \in 1 .. n : lots[k].qty * lots[k].cost \in Int
    BY <2>a
  <2> QED
    BY <2>1, <2>2
<1>2. \A s \in SUBSET (1 .. n) : s # {} => w[Max(s)] = lots[Max(s)].qty * lots[Max(s)].cost
  BY <1>1, MaxIsLast
<1>3. \A f : G(f) = H(f)
  BY <1>1, <1>2
<1>4. \E f : f = G(f)
  <2>1. \E f : IsSum(f, n, w)
    <3> HIDE DEF n, w
    <3> QED
      BY <1>1, SumExists
  <2> QED
    BY <2>1 DEF IsSum
<1>5. after = H(after)
  BY <1>3, <1>4
<1>6. OpenValue(lots) = after[DOMAIN lots]
  BY DEF OpenValue, FoldLeft, MapThenFoldSet
<1>7. IsSum(after, n, w)
  BY <1>3, <1>5 DEF IsSum
<1> DEFINE f == [k \in 0 .. n |-> after[1 .. k]]
<1>8. Sums(f, n, w)
  <2> HIDE DEF n, w, after
  <2> QED
    BY <1>1, <1>7, SumSteps
<1>9. f[n] = OpenValue(lots)
  BY <1>1, <1>6
<1> QED
  BY <1>8, <1>9

\* Sums of the same numbers are the same.
LEMMA SumsAgree ==
    ASSUME NEW n \in Nat, NEW m \in Nat, n <= m, NEW w, NEW v, NEW f, NEW g,
           Sums(f, n, w), Sums(g, m, v), \A k \in 1 .. n : w[k] = v[k]
    PROVE  \A k \in 0 .. n : f[k] = g[k]
<1> DEFINE Good == {k \in 0 .. n : f[k] = g[k]}
<1>1. 0 \in Good
  BY DEF Sums
<1>2. ASSUME NEW k \in 0 .. n - 1, k \in Good PROVE k + 1 \in Good
  <2>1. k + 1 \in 1 .. n /\ k + 1 \in 1 .. m /\ k + 1 \in 0 .. n /\ (k + 1) - 1 = k
    OBVIOUS
  <2>2. f[k + 1] = f[k] + w[k + 1]
    BY <2>1 DEF Sums
  <2>3. g[k + 1] = g[k] + v[k + 1]
    BY <2>1 DEF Sums
  <2> QED
    BY <1>2, <2>1, <2>2, <2>3
<1> HIDE DEF Good
<1>3. 0 .. n \subseteq Good
  BY <1>1, <1>2, UpTo
<1> QED
  BY <1>3 DEF Good

\* An empty register has nothing open ...
LEMMA OpenOfNone == OpenQty(<<>>) = 0 /\ OpenValue(<<>>) = 0
<1>1. <<>> \in Seq(Lot(Int, {})) /\ Len(<<>>) = 0
  OBVIOUS
<1>2. \E f : Sums(f, Len(<<>>), [k \in 1 .. Len(<<>>) |-> <<>>[k].qty]) /\ OpenQty(<<>>) = f[Len(<<>>)]
  BY <1>1, OpenQtySteps
<1>3. \E f : Sums(f, Len(<<>>), [k \in 1 .. Len(<<>>) |-> <<>>[k].qty * <<>>[k].cost]) /\ OpenValue(<<>>) = f[Len(<<>>)]
  BY <1>1, OpenValueSteps
<1> QED
  BY <1>1, <1>2, <1>3 DEF Sums

\* ... and a lot appended adds itself.
LEMMA OpenOfAppend ==
    ASSUME NEW C \in SUBSET Int, NEW I, NEW lots \in Seq(Lot(C, I)), NEW lot \in Lot(C, I)
    PROVE  /\ OpenQty(Append(lots, lot)) = OpenQty(lots) + lot.qty
           /\ OpenValue(Append(lots, lot)) = OpenValue(lots) + lot.qty * lot.cost
<1> DEFINE more == Append(lots, lot)
           n == Len(lots)
<1>1. more \in Seq(Lot(C, I)) /\ n \in Nat /\ Len(more) = n + 1 /\ more[n + 1] = lot
      /\ \A k \in 1 .. n : more[k] = lots[k]
  OBVIOUS
<1>2. n \in 0 .. n /\ n + 1 \in 1 .. n + 1 /\ (n + 1) - 1 = n /\ \A k \in 1 .. n : k \in 1 .. n + 1
  BY <1>1
<1>3. OpenQty(more) = OpenQty(lots) + lot.qty
  <2> DEFINE w == [k \in 1 .. n |-> lots[k].qty]
             v == [k \in 1 .. n + 1 |-> more[k].qty]
  <2>1. PICK f : Sums(f, n, w) /\ OpenQty(lots) = f[n]
    BY OpenQtySteps
  <2>2. PICK g : Sums(g, n + 1, v) /\ OpenQty(more) = g[n + 1]
    BY <1>1, OpenQtySteps
  <2>3. (\A k \in 1 .. n : w[k] = v[k]) /\ v[n + 1] = lot.qty
    BY <1>1, <1>2
  <2> HIDE DEF w, v, more, n
  <2>4. f[n] = g[n]
    BY <1>1, <1>2, <2>1, <2>2, <2>3, SumsAgree
  <2>5. g[n + 1] = g[n] + v[n + 1]
    BY <1>2, <2>2 DEF Sums
  <2> QED
    BY <2>1, <2>2, <2>3, <2>4, <2>5
<1>4. OpenValue(more) = OpenValue(lots) + lot.qty * lot.cost
  <2> DEFINE w == [k \in 1 .. n |-> lots[k].qty * lots[k].cost]
             v == [k \in 1 .. n + 1 |-> more[k].qty * more[k].cost]
  <2>1. PICK f : Sums(f, n, w) /\ OpenValue(lots) = f[n]
    BY OpenValueSteps
  <2>2. PICK g : Sums(g, n + 1, v) /\ OpenValue(more) = g[n + 1]
    BY <1>1, OpenValueSteps
  <2>3. (\A k \in 1 .. n : w[k] = v[k]) /\ v[n + 1] = lot.qty * lot.cost
    BY <1>1, <1>2
  <2> HIDE DEF w, v, more, n
  <2>4. f[n] = g[n]
    BY <1>1, <1>2, <2>1, <2>2, <2>3, SumsAgree
  <2>5. g[n + 1] = g[n] + v[n + 1]
    BY <1>2, <2>2 DEF Sums
  <2> QED
    BY <2>1, <2>2, <2>3, <2>4, <2>5
<1> QED
  BY <1>3, <1>4

\* The products the prover does not distribute on its own.
LEMMA Distribute ==
    \A a, b, c \in Int :
        /\ a * b \in Int /\ a * b = b * a
        /\ a * (b + c) = a * b + a * c
        /\ a * (b - c) = a * b - a * c
        /\ (b + c) * a = b * a + c * a
        /\ (b - c) * a = b * a - c * a
OBVIOUS

\* A sell under way: what is left to sell, the profit so far, the lots kept.
Selling(C, I) == [left : Nat, gain : Int, lots : Seq(Lot(C, I))]

\* The sums are integers.
LEMMA OpenIsInt ==
    ASSUME NEW C \in SUBSET Int, NEW I, NEW lots \in Seq(Lot(C, I))
    PROVE  OpenQty(lots) \in Int /\ OpenValue(lots) \in Int
<1> DEFINE n == Len(lots)
           w == [k \in 1 .. n |-> lots[k].qty]
           v == [k \in 1 .. n |-> lots[k].qty * lots[k].cost]
<1>1. PICK f : Sums(f, n, w) /\ OpenQty(lots) = f[n]
  BY OpenQtySteps
<1>2. PICK g : Sums(g, n, v) /\ OpenValue(lots) = g[n]
  BY OpenValueSteps
<1>3. n \in 0 .. n
  OBVIOUS
<1> HIDE DEF n, w, v
<1> QED
  BY <1>1, <1>2, <1>3 DEF Sums

\* One lot gives n of its shares to a sell that goes from acc to next.
Gives(C, I, price, acc, lot, n, next) ==
    /\ n \in Nat /\ n <= lot.qty /\ n <= acc.left /\ (n = lot.qty \/ n = acc.left)
    /\ next \in Selling(C, I)
    /\ next.left = acc.left - n
    /\ next.gain = acc.gain + price * n - lot.cost * n
    /\ OpenQty(next.lots) = OpenQty(acc.lots) + lot.qty - n
    /\ OpenValue(next.lots) = OpenValue(acc.lots) + lot.qty * lot.cost - lot.cost * n

\* Consume does that with the shares Consumed allows it.
LEMMA ConsumeOnce ==
    ASSUME NEW C \in SUBSET Int, NEW I, NEW price \in Int, NEW acc \in Selling(C, I), NEW lot \in Lot(C, I)
    PROVE  Gives(C, I, price, acc, lot, Consumed(lot, acc.left), Consume(price, acc, lot))
<1> DEFINE n == Consumed(lot, acc.left)
           next == Consume(price, acc, lot)
<1> DEFINE rest == [lot EXCEPT !.qty = @ - n]
           gain == acc.gain + (price - lot.cost) * n
<1>1. /\ acc.left \in Nat /\ acc.gain \in Int /\ acc.lots \in Seq(Lot(C, I))
      /\ lot.qty \in Nat /\ lot.qty > 0 /\ lot.cost \in Int
      /\ lot.cost \in C /\ lot.src \in I
  <2>1. acc.left \in Nat /\ acc.gain \in Int /\ acc.lots \in Seq(Lot(C, I))
    BY DEF Selling
  <2>2. lot.qty \in Nat /\ lot.qty > 0 /\ lot.cost \in C /\ lot.src \in I
    BY DEF Lot
  <2> QED
    BY <2>1, <2>2
<1>2. n \in Nat /\ n <= lot.qty /\ n <= acc.left /\ (n = lot.qty \/ n = acc.left)
  BY <1>1 DEF Consumed
<1> HIDE DEF n
<1>3. next = [left |-> acc.left - n, gain |-> gain,
              lots |-> IF n = lot.qty THEN acc.lots ELSE Append(acc.lots, rest)]
  BY DEF Consume, n
<1> HIDE DEF next
<1>4. price * n \in Int /\ lot.cost * n \in Int /\ lot.qty * lot.cost \in Int
  BY <1>1, <1>2
<1>5. gain \in Int /\ gain = acc.gain + price * n - lot.cost * n
  <2>1. (price - lot.cost) * n = price * n - lot.cost * n
    BY <1>1, <1>2, Distribute
  <2> QED
    BY <1>1, <1>4, <2>1
<1>6. OpenQty(acc.lots) \in Int /\ OpenValue(acc.lots) \in Int
  BY <1>1, OpenIsInt
<1> HIDE DEF gain
<1>7. ASSUME n = lot.qty PROVE Gives(C, I, price, acc, lot, n, next)
  <2>1. next = [left |-> acc.left - n, gain |-> gain, lots |-> acc.lots]
    BY <1>3, <1>7
  <2>2. next \in Selling(C, I)
    BY <1>1, <1>2, <1>5, <2>1 DEF Selling
  <2>3. lot.qty * lot.cost = lot.cost * n
    BY <1>1, <1>7, Distribute
  <2>4. OpenValue(next.lots) = OpenValue(acc.lots) + lot.qty * lot.cost - lot.cost * n
    BY <1>4, <1>6, <2>1, <2>3
  <2>5. OpenQty(next.lots) = OpenQty(acc.lots) + lot.qty - n
    BY <1>1, <1>6, <1>7, <2>1
  <2> QED
    BY <1>2, <1>5, <2>1, <2>2, <2>4, <2>5 DEF Gives
<1>8. ASSUME n # lot.qty PROVE Gives(C, I, price, acc, lot, n, next)
  <2>a. lot.qty - n \in Nat \ {0}
    BY <1>1, <1>2, <1>8
  <2>1. rest \in Lot(C, I) /\ rest.qty = lot.qty - n /\ rest.cost = lot.cost
    BY <2>a DEF Lot
  <2> HIDE DEF rest
  <2>2. next = [left |-> acc.left - n, gain |-> gain, lots |-> Append(acc.lots, rest)]
    BY <1>3, <1>8
  <2>b. Append(acc.lots, rest) \in Seq(Lot(C, I)) /\ acc.left - n \in Nat /\ gain \in Int
    BY <1>1, <1>2, <1>5, <2>1
  <2>3. next \in Selling(C, I)
    BY <2>2, <2>b DEF Selling
  <2>4. /\ OpenQty(next.lots) = OpenQty(acc.lots) + (lot.qty - n)
        /\ OpenValue(next.lots) = OpenValue(acc.lots) + (lot.qty - n) * lot.cost
    BY <1>1, <2>1, <2>2, OpenOfAppend
  <2>5. (lot.qty - n) * lot.cost = lot.qty * lot.cost - lot.cost * n
    BY <1>1, <1>2, Distribute
  <2>6. OpenValue(next.lots) = OpenValue(acc.lots) + lot.qty * lot.cost - lot.cost * n
    BY <1>4, <1>6, <2>4, <2>5
  <2>7. OpenQty(next.lots) = OpenQty(acc.lots) + lot.qty - n
    BY <1>1, <1>2, <1>6, <2>4
  <2> QED
    BY <1>2, <1>5, <2>2, <2>3, <2>6, <2>7 DEF Gives
<1> QED
  BY <1>7, <1>8 DEF n, next

\* What a sell of shares shares comes to.
Sold(lots, price, shares) ==
    FoldLeft(LAMBDA acc, lot : Consume(price, acc, lot), [left |-> shares, gain |-> 0, lots |-> <<>>], lots)

\* The steps of a sell through the lots, oldest first.
SellSteps(C, I, f, lots, price, shares) ==
    /\ f \in [0 .. Len(lots) -> Selling(C, I)]
    /\ f[0] = [left |-> shares, gain |-> 0, lots |-> <<>>]
    /\ \A k \in 1 .. Len(lots) : f[k] = Consume(price, f[k - 1], lots[k])

\* Sold goes through those steps.
LEMMA SellIsSteps ==
    ASSUME NEW C \in SUBSET Int, NEW I, NEW lots \in Seq(Lot(C, I)), NEW price \in Int, NEW shares \in Nat
    PROVE  \E f : /\ SellSteps(C, I, f, lots, price, shares)
                  /\ f[Len(lots)] = Sold(lots, price, shares)
<1> DEFINE n == Len(lots)
           start == [left |-> shares, gain |-> 0, lots |-> <<>>]
           step == [k \in 1 .. n |-> [v \in Selling(C, I) |-> Consume(price, v, lots[k])]]
           H(f) == [s \in SUBSET DOMAIN lots |->
                       IF s = {} THEN start ELSE Consume(price, f[s \ {Max(s)}], lots[Max(s)])]
           after == CHOOSE f : f = H(f)
<1>1. n \in Nat /\ DOMAIN lots = 1 .. n /\ \A k \in 1 .. n : lots[k] \in Lot(C, I)
  OBVIOUS
<1>2. start \in Selling(C, I)
  BY DEF Selling
<1>3. \A k \in 1 .. n, v \in Selling(C, I) : Consume(price, v, lots[k]) \in Selling(C, I)
  BY <1>1, ConsumeOnce DEF Gives
<1>4. \A k \in 1 .. n, v \in Selling(C, I) : step[k][v] = Consume(price, v, lots[k])
  OBVIOUS
<1> HIDE DEF start, step, n
<1>5. \A k \in 1 .. n, v \in Selling(C, I) : step[k][v] \in Selling(C, I)
  BY <1>3, <1>4
<1>6. PICK g : FoldsOver(g, n, Selling(C, I), start, step)
  BY <1>1, <1>2, <1>5, FoldExists
<1>7. g = H(g)
  <2>1. g \in [SUBSET (1 .. n) -> Selling(C, I)]
    BY <1>6 DEF FoldsOver
  <2>2. ASSUME NEW s \in SUBSET (1 .. n), s # {}
        PROVE  g[s] = Consume(price, g[s \ {Max(s)}], lots[Max(s)])
    <3>1. Max(s) \in 1 .. n
      BY <1>1, <2>2, MaxIsLast
    <3>2. g[s \ {Max(s)}] \in Selling(C, I)
      BY <2>1
    <3>3. g[s] = step[Max(s)][g[s \ {Max(s)}]]
      BY <1>6, <2>2 DEF FoldsOver
    <3> QED
      BY <1>4, <3>1, <3>2, <3>3
  <2>3. g[{}] = start
    BY <1>6 DEF FoldsOver
  <2> QED
    BY <1>1, <2>1, <2>2, <2>3
<1>8. after = H(after)
  BY <1>7
<1>9. Sold(lots, price, shares) = after[DOMAIN lots]
  BY DEF Sold, FoldLeft, MapThenFoldSet, start
<1> HIDE DEF after
<1>10. after[{}] = start
  <2>1. {} \in SUBSET DOMAIN lots
    OBVIOUS
  <2> QED
    BY <1>8, <2>1
<1>11. ASSUME NEW k \in 1 .. n PROVE after[1 .. k] = Consume(price, after[1 .. (k - 1)], lots[k])
  <2>1. 1 .. k \in SUBSET (1 .. n) /\ k \in 1 .. k
    BY <1>1
  <2>2. (1 .. k) \ {k} = 1 .. (k - 1)
    BY <1>1
  <2>3. Max(1 .. k) = k
    BY <1>1, MaxIsLast
  <2> QED
    BY <1>1, <1>8, <2>1, <2>2, <2>3
<1> DEFINE Good == {k \in 0 .. n : after[1 .. k] \in Selling(C, I)}
<1>12. 0 \in Good
  BY <1>1, <1>2, <1>10
<1>13. ASSUME NEW k \in 0 .. n - 1, k \in Good PROVE k + 1 \in Good
  <2>1. k + 1 \in 1 .. n /\ k + 1 \in 0 .. n /\ (k + 1) - 1 = k
    BY <1>1
  <2>2. after[1 .. k] \in Selling(C, I)
    BY <1>13
  <2>3. after[1 .. (k + 1)] = Consume(price, after[1 .. k], lots[k + 1])
    BY <1>11, <2>1
  <2> QED
    BY <1>3, <2>1, <2>2, <2>3
<1> HIDE DEF Good
<1>14. 0 .. n \subseteq Good
  BY <1>1, <1>12, <1>13, UpTo
<1> DEFINE f == [k \in 0 .. n |-> after[1 .. k]]
<1>15. f \in [0 .. n -> Selling(C, I)]
  BY <1>14 DEF Good
<1>16. f[0] = start
  BY <1>1, <1>10
<1>17. ASSUME NEW k \in 1 .. n PROVE f[k] = Consume(price, f[k - 1], lots[k])
  <2>1. k \in 0 .. n /\ k - 1 \in 0 .. n
    BY <1>1
  <2> QED
    BY <1>11, <2>1
<1>18. f[n] = after[DOMAIN lots]
  BY <1>1
<1> HIDE DEF f
<1>19. SellSteps(C, I, f, lots, price, shares)
  BY <1>15, <1>16, <1>17 DEF SellSteps, n, start
<1> QED
  BY <1>9, <1>18, <1>19 DEF n, start

\* A sell of no more than is open sells all of it, oldest lots first, and the
\* value that leaves the books is the proceeds less the profit.
LEMMA SellConserves ==
    ASSUME NEW C \in SUBSET Int, NEW I, NEW lots \in Seq(Lot(C, I)), NEW price \in Int, NEW shares \in Nat, shares <= OpenQty(lots),
           NEW sold, sold = Sold(lots, price, shares)
    PROVE  /\ sold \in Selling(C, I)
           /\ OpenQty(sold.lots) = OpenQty(lots) - shares
           /\ OpenValue(sold.lots) = OpenValue(lots) + sold.gain - price * shares
<1> DEFINE n == Len(lots)
<1>1. PICK f : SellSteps(C, I, f, lots, price, shares) /\ f[n] = sold
  BY SellIsSteps
<1>2. PICK q : Sums(q, n, [k \in 1 .. n |-> lots[k].qty]) /\ OpenQty(lots) = q[n]
  BY OpenQtySteps
<1>3. PICK v : Sums(v, n, [k \in 1 .. n |-> lots[k].qty * lots[k].cost]) /\ OpenValue(lots) = v[n]
  BY OpenValueSteps
<1>4. n \in Nat /\ \A k \in 1 .. n : lots[k] \in Lot(C, I)
  OBVIOUS
<1>5. ASSUME NEW k \in 1 .. n
      PROVE  q[k] = q[k - 1] + lots[k].qty /\ v[k] = v[k - 1] + lots[k].qty * lots[k].cost
  BY <1>2, <1>3 DEF Sums
<1>6. q \in [0 .. n -> Int] /\ v \in [0 .. n -> Int] /\ q[0] = 0 /\ v[0] = 0
  BY <1>2, <1>3 DEF Sums
<1>7. /\ f \in [0 .. n -> Selling(C, I)] /\ f[0] = [left |-> shares, gain |-> 0, lots |-> <<>>]
      /\ \A k \in 1 .. n : f[k] = Consume(price, f[k - 1], lots[k])
  BY <1>1 DEF SellSteps
<1> HIDE DEF n
<1> DEFINE Reached(k) ==
             /\ f[k].left = shares - q[k] \/ (f[k].left = 0 /\ shares <= q[k])
             /\ OpenQty(f[k].lots) = q[k] - (shares - f[k].left)
             /\ OpenValue(f[k].lots) = v[k] + f[k].gain - price * (shares - f[k].left)
           Good == {k \in 0 .. n : Reached(k)}
<1>8. 0 \in Good
  <2>1. 0 \in 0 .. n /\ shares - shares = 0 /\ price * 0 = 0
    BY <1>4
  <2> QED
    BY <1>6, <1>7, <2>1, OpenOfNone
<1>9. ASSUME NEW k \in 0 .. n - 1, k \in Good PROVE k + 1 \in Good
  <2> DEFINE lot == lots[k + 1]
             acc == f[k]
             next == f[k + 1]
             m == Consumed(lot, acc.left)
  <2>1. k + 1 \in 1 .. n /\ k + 1 \in 0 .. n /\ (k + 1) - 1 = k /\ k \in 0 .. n
    BY <1>4
  <2>2. acc \in Selling(C, I) /\ lot \in Lot(C, I) /\ next = Consume(price, acc, lot)
    BY <1>4, <1>7, <2>1
  <2>3. /\ q[k + 1] = q[k] + lot.qty /\ v[k + 1] = v[k] + lot.qty * lot.cost
        /\ q[k] \in Int /\ v[k] \in Int
    BY <1>5, <1>6, <2>1
  <2>4. /\ acc.left = shares - q[k] \/ (acc.left = 0 /\ shares <= q[k])
        /\ OpenQty(acc.lots) = q[k] - (shares - acc.left)
        /\ OpenValue(acc.lots) = v[k] + acc.gain - price * (shares - acc.left)
    BY <1>9
  <2>m. m = Consumed(lot, acc.left)
    OBVIOUS
  <2> HIDE DEF m, lot, acc, next
  <2> DEFINE pm == price * m
             cm == lot.cost * m
             qc == lot.qty * lot.cost
             paid == price * (shares - acc.left)
  <2>5. /\ m \in Nat /\ m <= lot.qty /\ m <= acc.left
        /\ m = lot.qty \/ m = acc.left
        /\ next \in Selling(C, I)
        /\ next.left = acc.left - m
        /\ next.gain = acc.gain + pm - cm
        /\ OpenQty(next.lots) = OpenQty(acc.lots) + lot.qty - m
        /\ OpenValue(next.lots) = OpenValue(acc.lots) + qc - cm
    <3>1. Gives(C, I, price, acc, lot, m, next)
      BY <2>2, <2>m, ConsumeOnce
    <3> QED
      BY <3>1 DEF Gives
  <2>a. m \in Nat /\ m <= lot.qty /\ m <= acc.left /\ (m = lot.qty \/ m = acc.left) /\ next.left = acc.left - m
    BY <2>5
  <2>b. q[k + 1] = q[k] + lot.qty /\ q[k] \in Int /\ v[k] \in Int
    BY <2>3
  <2>c. /\ acc.left = shares - q[k] \/ (acc.left = 0 /\ shares <= q[k])
        /\ OpenQty(acc.lots) = q[k] - (shares - acc.left)
    BY <2>4
  <2>6. acc.left \in Nat /\ acc.gain \in Int /\ lot.qty \in Nat /\ lot.cost \in Int
    BY <2>2 DEF Selling, Lot
  <2>7. pm \in Int /\ cm \in Int /\ qc \in Int /\ paid \in Int
    BY <2>a, <2>6
  <2>8. price * (shares - next.left) = paid + pm
    <3>1. shares - next.left = (shares - acc.left) + m /\ shares - acc.left \in Int /\ m \in Int
      BY <2>a, <2>6
    <3> QED
      BY <3>1, Distribute
  <2> HIDE DEF pm, cm, qc, paid
  <2>9. OpenValue(next.lots) = v[k + 1] + next.gain - price * (shares - next.left)
    <3>1. OpenValue(next.lots) = OpenValue(acc.lots) + qc - cm /\ next.gain = acc.gain + pm - cm
      BY <2>5
    <3>2. OpenValue(acc.lots) = v[k] + acc.gain - paid /\ v[k + 1] = v[k] + qc
      BY <2>3, <2>4 DEF paid, qc
    <3>3. OpenValue(next.lots) = (v[k] + qc) + (acc.gain + pm - cm) - (paid + pm)
      BY <2>b, <2>6, <2>7, <3>1, <3>2
    <3> QED
      BY <2>8, <3>1, <3>2, <3>3
  <2>10. OpenQty(next.lots) = q[k + 1] - (shares - next.left)
    <3> DEFINE q0 == q[k]
               q1 == q[k + 1]
    <3>1. OpenQty(next.lots) = OpenQty(acc.lots) + lot.qty - m
      BY <2>5
    <3>2. q1 = q0 + lot.qty /\ q0 \in Int /\ OpenQty(acc.lots) = q0 - (shares - acc.left) /\ next.left = acc.left - m /\ m \in Nat
      BY <2>a, <2>b, <2>c
    <3> DEFINE left == acc.left
               mine == lot.qty
               kept == OpenQty(acc.lots)
    <3>3. left \in Int /\ mine \in Int /\ m \in Int /\ q0 \in Int /\ shares \in Int
      BY <2>6, <3>2
    <3>4. q1 = q0 + mine /\ kept = q0 - (shares - left) /\ next.left = left - m
      BY <3>2
    <3> HIDE DEF q0, q1, left, mine, kept
    <3>5. kept + mine - m = q1 - (shares - (left - m))
      BY <3>3, <3>4
    <3> QED
      BY <3>1, <3>4, <3>5 DEF q1, mine, kept
  <2>11. next.left = shares - q[k + 1] \/ (next.left = 0 /\ shares <= q[k + 1])
    <3> DEFINE q0 == q[k]
               q1 == q[k + 1]
    <3>1. q1 = q0 + lot.qty /\ q0 \in Int /\ (acc.left = shares - q0 \/ (acc.left = 0 /\ shares <= q0))
      BY <2>b, <2>c
    <3> HIDE DEF q0, q1
    <3>2. CASE m = acc.left
      <4>1. next.left = 0 /\ acc.left <= lot.qty
        BY <2>a, <2>6, <3>2
      <4>2. shares <= q1
        BY <2>6, <3>1, <4>1
      <4> QED
        BY <4>1, <4>2 DEF q1
    <3>3. CASE m = lot.qty
      <4>1. next.left = acc.left - lot.qty /\ lot.qty <= acc.left
        BY <2>a, <3>3
      <4>2. next.left = shares - q1 \/ (next.left = 0 /\ shares <= q1)
        BY <2>6, <3>1, <4>1
      <4> QED
        BY <4>2 DEF q1
    <3> QED
      BY <2>a, <3>2, <3>3
  <2> QED
    BY <2>1, <2>9, <2>10, <2>11 DEF next
<1> HIDE DEF Good
<1>10. 0 .. n \subseteq Good
  BY <1>4, <1>8, <1>9, UpTo
<1>11. n \in 0 .. n /\ Reached(n) /\ q[n] \in Int /\ f[n] \in Selling(C, I)
  BY <1>4, <1>6, <1>7, <1>10 DEF Good
<1>12. f[n].left = 0
  BY <1>2, <1>11 DEF Selling
<1>13. shares - f[n].left = shares
  BY <1>12
<1> QED
  BY <1>1, <1>2, <1>3, <1>11, <1>13

-----------------------------------------------------------------------------
\* The engine's state, with lots that cost C and come from I.
State(C, I) == [ok : BOOLEAN, lots : Seq(Lot(C, I)), realized : Int, slack : Nat]

\* What row e adds to the money in the books ...
Worth(e) == IF e.type = "buy" THEN e.qty * e.price + e.fees * Unit
            ELSE IF e.type = "sell" THEN -(e.qty * e.price - e.fees * Unit) ELSE 0
\* ... and what open shares become with it, if it multiplies by a whole number.
SharesAfter(n, e) == IF e.type = "buy" THEN n + e.qty
                     ELSE IF e.type = "sell" THEN n - e.qty
                     ELSE IF IsAction(e) THEN n * Times(e) ELSE n

\* Money x is money y but for twice the slack z.
Near(x, y, z) == -z <= 2 * (x - y) /\ 2 * (x - y) <= z

InBooks(s) == OpenValue(s.lots) - s.realized
WholeRow(e) == IsAction(e) => Whole(e)

\* Replaying e takes state s to t.
Books(s, t, e) ==
    t.ok => /\ s.ok
            /\ Near(InBooks(t), InBooks(s) + Worth(e), t.slack - s.slack)
            /\ WholeRow(e) => OpenQty(t.lots) = SharesAfter(OpenQty(s.lots), e)

\* A sequence over a set is one over a larger set.
LEMMA SeqOfMore ==
    ASSUME NEW A, NEW B, A \subseteq B, NEW s \in Seq(A)
    PROVE  s \in Seq(B)
<1>1. Len(s) \in Nat /\ DOMAIN s = 1 .. Len(s) /\ \A k \in 1 .. Len(s) : s[k] \in B
  OBVIOUS
<1>2. s = [k \in 1 .. Len(s) |-> s[k]]
  OBVIOUS
<1> QED
  BY <1>1, <1>2

\* Division with remainder.
LEMMA Divide ==
    ASSUME NEW a \in Int, NEW b \in Int, b > 0
    PROVE  a = b * (a \div b) + (a % b)
OBVIOUS

\* A common positive factor cancels.
LEMMA Cancel ==
    ASSUME NEW d \in Nat \ {0}, NEW x \in Int, NEW y \in Int, d * x <= d * y
    PROVE  x <= y
<1> SUFFICES ASSUME x >= y + 1 PROVE FALSE
  OBVIOUS
<1>1. x - (y + 1) \in Nat /\ d \in Nat
  OBVIOUS
<1>2. d * (x - (y + 1)) \in Nat
  BY <1>1
<1>3. d * (x - (y + 1)) = d * x - d * (y + 1) /\ d * (y + 1) = d * y + d * 1
  BY Distribute
<1>4. d * x \in Int /\ d * y \in Int /\ d * 1 = d
  BY Distribute
<1> QED
  BY <1>2, <1>3, <1>4

\* The numbers the engine rounds: to the nearest, and not at all if it is one.
LEMMA Rounds ==
    ASSUME NEW n \in Nat, NEW d \in Nat \ {0}
    PROVE  /\ RoundDiv(n, d) \in Nat
           /\ -d <= 2 * (d * RoundDiv(n, d) - n) /\ 2 * (d * RoundDiv(n, d) - n) <= d
           /\ n % d = 0 => d * RoundDiv(n, d) = n
<1> DEFINE r == RoundDiv(n, d)
           top == 2 * n + d
           bot == 2 * d
           m == top % bot
           dr == d * r
<1>1. top \in Nat /\ bot \in Nat \ {0} /\ r = top \div bot
  BY DEF RoundDiv
<1> HIDE DEF top, bot, r
<1>2. r \in Nat /\ m \in 0 .. bot - 1 /\ top = bot * r + m
  BY <1>1, Divide
<1>3. bot * r = 2 * dr /\ dr \in Nat
  BY <1>2 DEF bot
<1> HIDE DEF m, dr
<1>4. 2 * (dr - n) = d - m /\ m >= 0 /\ m < 2 * d /\ m \in Int
  BY <1>2, <1>3 DEF top, bot
<1>5. -d <= 2 * (dr - n) /\ 2 * (dr - n) <= d
  BY <1>3, <1>4
<1>6. ASSUME n % d = 0 PROVE dr = n
  <2> DEFINE k == n \div d
             dk == d * k
  <2>1. k \in Int /\ n = d * k + (n % d)
    BY Divide
  <2>2. dk \in Int
    BY <2>1
  <2> HIDE DEF dk
  <2>3. n = dk
    BY <1>6, <2>1, <2>2 DEF dk
  <2> HIDE DEF k
  <2>4. d * r <= d * k => r <= k
    BY <1>2, <2>1, Cancel
  <2>5. d * k <= d * r => k <= r
    BY <1>2, <2>1, Cancel
  <2>6. CASE r = k
    BY <2>3, <2>6 DEF dk, dr
  <2>7. CASE r >= k + 1
    <3>1. d * (r - (k + 1)) \in Nat
      BY <1>2, <2>1, <2>7
    <3>2. d * (r - (k + 1)) = d * r - d * (k + 1) /\ d * (k + 1) = d * k + d * 1 /\ d * 1 = d
      BY <1>2, <2>1, Distribute
    <3>3. dr - dk >= d
      BY <1>3, <2>2, <3>1, <3>2 DEF dr, dk
    <3> QED
      BY <1>3, <1>5, <2>2, <2>3, <3>3
  <2>8. CASE k >= r + 1
    <3>1. d * (k - (r + 1)) \in Nat
      BY <1>2, <2>1, <2>8
    <3>2. d * (k - (r + 1)) = d * k - d * (r + 1) /\ d * (r + 1) = d * r + d * 1 /\ d * 1 = d
      BY <1>2, <2>1, Distribute
    <3>3. dk - dr >= d
      BY <1>3, <2>2, <3>1, <3>2 DEF dr, dk
    <3> QED
      BY <1>3, <1>5, <2>2, <2>3, <3>3
  <2> QED
    BY <1>2, <2>1, <2>6, <2>7, <2>8
<1> QED
  BY <1>2, <1>5, <1>6 DEF r, dr

\* What is a whole number of times d, or more, rounds to that number, or more.
LEMMA RoundsUp ==
    ASSUME NEW n \in Nat, NEW d \in Nat \ {0}, NEW k \in Nat, d * k <= n
    PROVE  k <= RoundDiv(n, d)
<1> DEFINE r == RoundDiv(n, d)
           dk == d * k
           dr == d * r
<1>1. r \in Nat /\ -d <= 2 * (dr - n) /\ dr \in Int /\ dk \in Int /\ dk <= n
  BY Rounds
<1> HIDE DEF r
<1> SUFFICES ASSUME k >= r + 1 PROVE FALSE
  BY <1>1 DEF r
<1>2. d * (k - (r + 1)) \in Nat
  BY <1>1
<1>3. d * (k - (r + 1)) = d * k - d * (r + 1) /\ d * (r + 1) = d * r + d * 1 /\ d * 1 = d
  BY <1>1, Distribute
<1> HIDE DEF dk, dr
<1>4. dk - dr >= d
  BY <1>1, <1>2, <1>3 DEF dk, dr
<1> QED
  BY <1>1, <1>4

\* The slack of one division.
LEMMA SlackIsNat == ASSUME NEW n, NEW d, NEW w \in Nat PROVE SlackOf(n, d, w) \in Nat
BY DEF SlackOf

\* A corporate action multiplies by at least one, and by Times if that is whole.
LEMMA FactorIsPositive ==
    ASSUME NEW e \in Entries
    PROVE  /\ Factor(e) \in Nat \ {0} /\ Unit <= Factor(e) /\ Times(e) \in Nat \ {0}
           /\ Whole(e) => Factor(e) = Times(e) * Unit
<1> DEFINE r1 == e.ratio[1]
           r2 == e.ratio[2]
           U == Unit
           N == (r1 + r2) * U
<1>1. r1 \in Nat /\ r2 \in Nat \ {0} /\ U \in Nat \ {0}
  BY LedgerAssumption
<1> HIDE DEF r1, r2, U
<1>2. r1 + r2 \in Nat /\ r2 <= r1 + r2 /\ r2 > 0
  BY <1>1
<1>3. (r1 + r2) \div r2 \in Int /\ (r1 + r2) \div r2 >= 1
  BY <1>1, <1>2
<1>4. N = r1 * U + r2 * U /\ r1 * U \in Nat /\ r2 * U \in Nat /\ N \in Nat
  BY <1>1, Distribute
<1>5. r2 * U <= N
  BY <1>4
<1> HIDE DEF N
<1>6. U <= RoundDiv(N, r2) /\ RoundDiv(N, r2) \in Nat
  BY <1>1, <1>4, <1>5, Rounds, RoundsUp
<1>7. ASSUME r1 % r2 = 0 PROVE RoundDiv(N, r2) = ((r1 + r2) \div r2) * U
  <2> DEFINE k == (r1 + r2) \div r2
             x == RoundDiv(N, r2)
  <2>1. (r1 + r2) % r2 = 0
    <3> DEFINE j == r1 \div r2
    <3>1. j \in Int /\ r1 = r2 * j + 0
      BY <1>1, <1>7, Divide
    <3> HIDE DEF j
    <3>2. r1 + r2 = r2 * (j + 1)
      BY <1>1, <3>1
    <3>3. (r2 * (j + 1)) % r2 = 0
      BY <1>1, <3>1
    <3> QED
      BY <3>2, <3>3
  <2>2. k \in Int /\ r1 + r2 = r2 * k + 0
    BY <1>1, <1>2, <2>1, Divide
  <2> HIDE DEF k
  <2>3. N = r2 * (k * U)
    BY <1>1, <2>2 DEF N
  <2>4. k * U \in Int
    BY <1>1, <2>2
  <2> DEFINE z == k * U
  <2>9. N = r2 * z /\ z \in Int
    BY <2>3, <2>4
  <2> HIDE DEF z
  <2>5. N % r2 = 0
    BY <1>1, <2>9
  <2>6. r2 * x = N
    BY <1>1, <1>4, <2>5, Rounds
  <2>7. r2 * x = r2 * z /\ x \in Int /\ z \in Int
    BY <1>6, <2>3, <2>4, <2>6 DEF z
  <2> HIDE DEF x
  <2>8. x <= z /\ z <= x
    BY <1>1, <2>7, Cancel
  <2> QED
    BY <2>7, <2>8 DEF x, z, k
<1> QED
  BY <1>1, <1>3, <1>6, <1>7 DEF Factor, Times, Whole, r1, r2, N, U

\* One division: d times the result is the dividend, but for the slack.
LEMMA RoundSlack ==
    ASSUME NEW n \in Nat, NEW d \in Nat \ {0}
    PROVE  Near(d * RoundDiv(n, d), n, SlackOf(n, d, d))
<1> DEFINE dr == d * RoundDiv(n, d)
<1>0. RoundDiv(n, d) \in Nat /\ dr \in Int
  BY Rounds
<1>1. -d <= 2 * (dr - n) /\ 2 * (dr - n) <= d /\ (n % d = 0 => dr = n)
  BY Rounds
<1> HIDE DEF dr
<1>2. CASE n % d = 0
  BY <1>0, <1>1, <1>2 DEF Near, SlackOf, dr
<1>3. CASE n % d # 0
  BY <1>0, <1>1, <1>3 DEF Near, SlackOf, dr
<1> QED
  BY <1>2, <1>3

\* What q shares at c are worth once their number is multiplied by F / U and
\* their cost divided by it, both rounded.
LEMMA LotDrift ==
    ASSUME NEW q \in Nat, NEW c \in Nat, NEW F \in Nat \ {0}, NEW U \in Nat \ {0},
           NEW Q, Q = RoundDiv(q * F, U), NEW C, C = RoundDiv(c * U, F)
    PROVE  Near(Q * C, q * c, SlackOf(q * F, U, C) + SlackOf(c * U, F, Q))
<1> DEFINE B == q * F
           E == c * U
           A == U * Q
           D == F * C
           r == A - B
           p == D - E
           X == Q * C - q * c
           cr == c * r
           Qp == Q * p
           FQ == F * Q
<1>1. B \in Nat /\ E \in Nat
  OBVIOUS
<1>2. /\ Q \in Nat /\ A \in Int /\ -U <= 2 * r /\ 2 * r <= U /\ (B % U = 0 => r = 0)
      /\ C \in Nat /\ D \in Int /\ -F <= 2 * p /\ 2 * p <= F /\ (E % F = 0 => p = 0)
  <2>1. /\ Q \in Nat /\ -U <= 2 * r /\ 2 * r <= U /\ (B % U = 0 => A = B)
    BY <1>1, Rounds
  <2>2. /\ C \in Nat /\ -F <= 2 * p /\ 2 * p <= F /\ (E % F = 0 => D = E)
    BY <1>1, Rounds
  <2>3. A \in Int /\ D \in Int
    BY <2>1, <2>2
  <2> HIDE DEF A, D, B, E
  <2> QED
    BY <1>1, <2>1, <2>2, <2>3
<1>3. X \in Int /\ r \in Int /\ p \in Int /\ cr \in Int /\ Qp \in Int /\ FQ \in Int
  BY <1>1, <1>2
<1>4. F * X = Qp + cr
  <2>1. F * X = F * (Q * C) - F * (q * c)
    BY <1>2, Distribute
  <2>2. F * (Q * C) = Q * D /\ F * (q * c) = c * B /\ Q * E = c * A
    BY <1>2
  <2>3. Qp = Q * D - Q * E /\ cr = c * A - c * B
    BY <1>1, <1>2, Distribute
  <2>4. Q * D \in Int /\ c * B \in Int /\ c * A \in Int
    BY <1>1, <1>2
  <2> HIDE DEF Qp, cr, X, A, B, D, E
  <2> QED
    BY <2>1, <2>2, <2>3, <2>4
<1>5. /\ -E <= 2 * cr /\ 2 * cr <= E
      /\ -FQ <= 2 * Qp /\ 2 * Qp <= FQ
  <2>1. U - 2 * r \in Nat /\ U + 2 * r \in Nat /\ F - 2 * p \in Nat /\ F + 2 * p \in Nat
    BY <1>2, <1>3
  <2> HIDE DEF r, p
  <2>2. c * (U - 2 * r) \in Nat /\ c * (U + 2 * r) \in Nat /\ Q * (F - 2 * p) \in Nat /\ Q * (F + 2 * p) \in Nat
    BY <1>2, <2>1
  <2>3. /\ c * (U - 2 * r) = c * U - c * (2 * r) /\ c * (U + 2 * r) = c * U + c * (2 * r)
        /\ Q * (F - 2 * p) = Q * F - Q * (2 * p) /\ Q * (F + 2 * p) = Q * F + Q * (2 * p)
    BY <1>2, <1>3, Distribute
  <2>4. c * (2 * r) = 2 * cr /\ Q * (2 * p) = 2 * Qp /\ Q * F = FQ /\ c * U = E
    BY <1>2, <1>3
  <2> HIDE DEF cr, Qp, FQ, E
  <2> QED
    BY <1>1, <1>3, <2>2, <2>3, <2>4
<1>6. F * (2 * X) = 2 * Qp + 2 * cr /\ F * (4 * X) = 4 * Qp + 4 * cr
  <2>1. F * (2 * X) = 2 * (F * X) /\ F * (4 * X) = 4 * (F * X) /\ F * X \in Int
    BY <1>3
  <2> HIDE DEF X, Qp, cr
  <2> QED
    BY <1>3, <1>4, <2>1
<1>7. /\ F * (2 * Q + 2 * C + 1) = 2 * FQ + 2 * D + F
      /\ F * (-(2 * Q + 2 * C + 1)) = -(2 * FQ + 2 * D + F)
      /\ F * (-Q) = -FQ /\ F * (-C) = -D
  <2>1. F * (2 * Q) = 2 * FQ /\ F * (2 * C) = 2 * D /\ F * 1 = F /\ F * (-Q) = -FQ /\ F * (-C) = -D
    BY <1>2
  <2>2. F * (2 * Q + 2 * C + 1) = F * (2 * Q + 2 * C) + F * 1 /\ F * (2 * Q + 2 * C) = F * (2 * Q) + F * (2 * C)
    BY <1>2, Distribute
  <2> DEFINE y == 2 * Q + 2 * C + 1
             Fy == F * y
  <2>3. F * (-y) = -Fy
    <3>1. y \in Int
      BY <1>2
    <3> HIDE DEF y
    <3> QED
      BY <1>2, <3>1
  <2>4. F * (2 * Q + 2 * C + 1) = 2 * FQ + 2 * D + F
    BY <2>1, <2>2
  <2> QED
    BY <2>1, <2>3, <2>4
<1> HIDE DEF r, p, X, cr, Qp, FQ, A, B, D, E
<1>8. E = D - p /\ E \in Nat
  BY <1>1, <1>2 DEF p
<1>9. CASE B % U = 0 /\ E % F = 0
  <2>1. cr = 0 /\ Qp = 0
    BY <1>2, <1>9 DEF cr, Qp
  <2>2. F * X = 0 /\ F * 0 = 0
    BY <1>2, <1>4, <2>1
  <2>a. F * X <= F * 0 /\ F * 0 <= F * X
    BY <2>2
  <2>3. X <= 0 /\ 0 <= X
    BY <1>3, <2>a, Cancel
  <2>4. SlackOf(B, U, C) + SlackOf(E, F, Q) = 0
    BY <1>9 DEF SlackOf
  <2> QED
    BY <1>3, <2>3, <2>4 DEF Near, X, B, E
<1>10. CASE B % U # 0 /\ E % F = 0
  <2>1. Qp = 0 /\ E = D
    BY <1>2, <1>8, <1>10 DEF Qp
  <2>2. F * (2 * X) <= F * C /\ F * (-C) <= F * (2 * X)
    BY <1>2, <1>3, <1>5, <1>6, <1>7, <2>1 DEF D
  <2>3. 2 * X <= C /\ -C <= 2 * X
    BY <1>2, <1>3, <2>2, Cancel
  <2>4. SlackOf(B, U, C) + SlackOf(E, F, Q) = C
    BY <1>2, <1>10 DEF SlackOf
  <2> QED
    BY <1>2, <1>3, <2>3, <2>4 DEF Near, X, B, E
<1>11. CASE B % U = 0 /\ E % F # 0
  <2>1. cr = 0
    BY <1>2, <1>11 DEF cr
  <2>2. F * (2 * X) <= F * Q /\ F * (-Q) <= F * (2 * X)
    BY <1>2, <1>3, <1>5, <1>6, <1>7, <2>1 DEF FQ
  <2>3. 2 * X <= Q /\ -Q <= 2 * X
    BY <1>2, <1>3, <2>2, Cancel
  <2>4. SlackOf(B, U, C) + SlackOf(E, F, Q) = Q
    BY <1>2, <1>11 DEF SlackOf
  <2> QED
    BY <1>2, <1>3, <2>3, <2>4 DEF Near, X, B, E
<1>12. CASE B % U # 0 /\ E % F # 0
  <2>1. 2 * E <= 2 * D + F
    BY <1>2, <1>3, <1>8
  <2>2. /\ F * (4 * X) <= F * (2 * Q + 2 * C + 1)
        /\ F * (-(2 * Q + 2 * C + 1)) <= F * (4 * X)
    BY <1>1, <1>2, <1>3, <1>5, <1>6, <1>7, <2>1
  <2>3. 4 * X <= 2 * Q + 2 * C + 1 /\ -(2 * Q + 2 * C + 1) <= 4 * X
    <3> DEFINE y == 2 * Q + 2 * C + 1
               x == 4 * X
    <3>1. x \in Int /\ y \in Int /\ -y \in Int /\ F * x <= F * y /\ F * (-y) <= F * x
      BY <1>2, <1>3, <2>2
    <3> HIDE DEF x, y
    <3>2. x <= y /\ -y <= x
      BY <3>1, Cancel
    <3> QED
      BY <3>2 DEF x, y
  <2>4. SlackOf(B, U, C) + SlackOf(E, F, Q) = Q + C
    BY <1>2, <1>12 DEF SlackOf
  <2> QED
    BY <1>2, <1>3, <2>3, <2>4 DEF Near, X, B, E
<1> QED
  BY <1>9, <1>10, <1>11, <1>12

\* One lot through a corporate action.
LEMMA OneScaled ==
    ASSUME NEW I, NEW lot \in Lot(Nat, I), NEW e \in Entries, NEW more, more = Multiplied(lot, e)
    PROVE  /\ more \in Lot(Nat, I) /\ more.src = lot.src
           /\ LotSlack(lot, e) \in Nat
           /\ Near(more.qty * more.cost, lot.qty * lot.cost, LotSlack(lot, e))
           /\ Whole(e) => more.qty = lot.qty * Times(e)
<1> DEFINE q == lot.qty
           c == lot.cost
           F == Factor(e)
           U == Unit
           T == Times(e)
           Q == RoundDiv(q * F, U)
           C == RoundDiv(c * U, F)
<1>1. lot = [qty |-> q, cost |-> c, src |-> lot.src] /\ q \in Nat \ {0} /\ c \in Nat /\ lot.src \in I
  BY DEF Lot
<1>2. F \in Nat \ {0} /\ U \in Nat \ {0} /\ U <= F /\ T \in Nat \ {0} /\ (Whole(e) => F = T * U)
  BY FactorIsPositive, LedgerAssumption
<1>3. more = [qty |-> Q, cost |-> C, src |-> lot.src]
  BY <1>1 DEF Multiplied
<1> HIDE DEF q, c, F, U, T
<1>4. q * F \in Nat /\ c * U \in Nat
  BY <1>1, <1>2
<1>5. Q \in Nat /\ C \in Nat
  BY <1>2, <1>4, Rounds
<1>6. 1 <= Q
  <2>1. q * (F - U) \in Nat /\ (q - 1) * U \in Nat
    BY <1>1, <1>2
  <2>2. q * (F - U) = q * F - q * U /\ (q - 1) * U = q * U - 1 * U
    BY <1>1, <1>2, Distribute
  <2>3. q * U \in Int /\ 1 * U = U /\ U * 1 = U
    BY <1>1, <1>2
  <2>4. U * 1 <= q * F
    BY <1>2, <1>4, <2>1, <2>2, <2>3
  <2> QED
    BY <1>2, <1>4, <2>4, RoundsUp
<1>7. ASSUME Whole(e) PROVE Q = q * T
  <2> DEFINE z == q * T
             n == q * F
  <2>1. n = U * z /\ z \in Int
    BY <1>1, <1>2, <1>7
  <2>0. n \in Nat
    BY <1>4
  <2> HIDE DEF z, n
  <2>2. n % U = 0
    BY <1>2, <2>1
  <2>3. U * RoundDiv(n, U) = U * z
    BY <1>2, <2>0, <2>1, <2>2, Rounds
  <2>4. Q <= z /\ z <= Q
    BY <1>2, <1>5, <2>1, <2>3, Cancel DEF n
  <2> QED
    BY <1>5, <2>1, <2>4 DEF z
<1>8. Near(Q * C, q * c, SlackOf(q * F, U, C) + SlackOf(c * U, F, Q))
  BY <1>1, <1>2, LotDrift
<1>9. LotSlack(lot, e) = SlackOf(q * F, U, C) + SlackOf(c * U, F, Q)
  BY <1>3 DEF LotSlack, q, c, F, U
<1>10. SlackOf(q * F, U, C) \in Nat /\ SlackOf(c * U, F, Q) \in Nat
  BY <1>5, SlackIsNat
<1>11. more.qty = Q /\ more.cost = C /\ more.src = lot.src
  BY <1>3
<1> HIDE DEF Q, C
<1>12. LotSlack(lot, e) \in Nat
  BY <1>9, <1>10
<1>13. more \in Lot(Nat, I)
  BY <1>1, <1>3, <1>5, <1>6 DEF Lot
<1> QED
  BY <1>7, <1>8, <1>9, <1>11, <1>12, <1>13 DEF q, c, T

\* ScaleSlack is the sum of the lots' slacks.
LEMMA SlackSteps ==
    ASSUME NEW I, NEW lots \in Seq(Lot(Nat, I)), NEW e \in Entries
    PROVE  \E f : Sums(f, Len(lots), [k \in 1 .. Len(lots) |-> LotSlack(lots[k], e)]) /\ ScaleSlack(lots, e) = f[Len(lots)]
<1> DEFINE n == Len(lots)
           w == [k \in 1 .. n |-> LotSlack(lots[k], e)]
           G(f) == [s \in SUBSET (1 .. n) |-> IF s = {} THEN 0 ELSE f[s \ {Max(s)}] + w[Max(s)]]
           H(f) == [s \in SUBSET DOMAIN lots |->
                       IF s = {} THEN 0 ELSE f[s \ {Max(s)}] + LotSlack(lots[Max(s)], e)]
           after == CHOOSE f : f = H(f)
<1>1. n \in Nat /\ DOMAIN lots = 1 .. n /\ w \in [1 .. n -> Int]
  <2>1. n \in Nat /\ DOMAIN lots = 1 .. n /\ \A k \in 1 .. n : lots[k] \in Lot(Nat, I)
    OBVIOUS
  <2>2. \A k \in 1 .. n : LotSlack(lots[k], e) \in Nat
    BY <2>1, OneScaled
  <2> QED
    BY <2>1, <2>2
<1>2. \A s \in SUBSET (1 .. n) : s # {} => w[Max(s)] = LotSlack(lots[Max(s)], e)
  BY <1>1, MaxIsLast
<1>3. \A f : G(f) = H(f)
  BY <1>1, <1>2
<1>4. \E f : f = G(f)
  <2>1. \E f : IsSum(f, n, w)
    <3> HIDE DEF n, w
    <3> QED
      BY <1>1, SumExists
  <2> QED
    BY <2>1 DEF IsSum
<1>5. after = H(after)
  BY <1>3, <1>4
<1>6. ScaleSlack(lots, e) = after[DOMAIN lots]
  BY DEF ScaleSlack, FoldLeft, MapThenFoldSet
<1>7. IsSum(after, n, w)
  BY <1>3, <1>5 DEF IsSum
<1> DEFINE f == [k \in 0 .. n |-> after[1 .. k]]
<1>8. Sums(f, n, w)
  <2> HIDE DEF n, w, after
  <2> QED
    BY <1>1, <1>7, SumSteps
<1>9. f[n] = ScaleSlack(lots, e)
  BY <1>1, <1>6
<1> QED
  BY <1>8, <1>9

\* State s with other lots and slack.
WithLots(s, x, z) == [s EXCEPT !.lots = x, !.slack = z]

\* Its fields.
LEMMA OtherLots ==
    ASSUME NEW C, NEW I, NEW s \in State(C, I), NEW x, NEW z
    PROVE  WithLots(s, x, z) = [ok |-> s.ok, lots |-> x, realized |-> s.realized, slack |-> z]
<1> DEFINE u == [s EXCEPT !.lots = x]
<1>1. s = [ok |-> s.ok, lots |-> s.lots, realized |-> s.realized, slack |-> s.slack]
  BY DEF State
<1>2. u = [ok |-> s.ok, lots |-> x, realized |-> s.realized, slack |-> s.slack]
  BY <1>1
<1>3. WithLots(s, x, z) = [u EXCEPT !.slack = z]
  BY DEF WithLots
<1> HIDE DEF u
<1> QED
  BY <1>2, <1>3

\* A buy.
LEMMA BuyBooks ==
    ASSUME NEW I, NEW s \in State(Nat, I), s.ok,
           NEW i \in I, NEW e \in Entries, e.type = "buy"
    PROVE  Buy(s, i, e) \in State(Nat, I) /\ Books(s, Buy(s, i, e), e)
<1> DEFINE lot == [qty |-> e.qty, cost |-> UnitCost(e), src |-> i]
           t == Buy(s, i, e)
           n == e.fees * Unit
           q == e.qty
           r == RoundDiv(n, q)
           z == SlackOf(n, q, q)
<1>1. /\ s.lots \in Seq(Lot(Nat, I)) /\ s.realized \in Int /\ s.slack \in Nat
      /\ s = [ok |-> s.ok, lots |-> s.lots, realized |-> s.realized, slack |-> s.slack]
  BY DEF State
<1>2. q \in Nat \ {0} /\ e.price \in Nat /\ n \in Nat
  BY LedgerAssumption
<1>a. e.qty = q /\ e.fees * Unit = n /\ UnitCost(e) = e.price + r
  BY DEF UnitCost
<1>b. t = WithLots(s, Append(s.lots, lot), s.slack + z)
  BY Zenon DEF Buy, Enqueue, WithLots
<1> HIDE DEF n, q
<1>3. r \in Nat /\ z \in Nat /\ Near(q * r, n, z)
  BY <1>2, Rounds, SlackIsNat, RoundSlack
<1> HIDE DEF r, z
<1>c. UnitCost(e) \in Nat
  BY <1>2, <1>3, <1>a
<1>d. lot \in Lot(Nat, I)
  BY <1>2, <1>a, <1>c DEF Lot
<1>4. t = [ok |-> s.ok, lots |-> Append(s.lots, lot), realized |-> s.realized, slack |-> s.slack + z]
  <2> HIDE DEF lot, t
  <2> QED
    BY <1>b, OtherLots
<1>5. t \in State(Nat, I)
  <2> HIDE DEF lot, t
  <2>1. Append(s.lots, lot) \in Seq(Lot(Nat, I))
    BY <1>1, <1>d
  <2> QED
    BY <1>1, <1>3, <1>4, <2>1 DEF State
<1> DEFINE qr == q * r
           qp == q * e.price
<1>6. q * UnitCost(e) = qp + qr /\ qp \in Int /\ qr \in Int
  BY <1>2, <1>3, <1>a, Distribute
<1>7. OpenQty(t.lots) = OpenQty(s.lots) + q /\ OpenValue(t.lots) = OpenValue(s.lots) + q * UnitCost(e)
  BY <1>1, <1>4, <1>a, <1>d, OpenOfAppend
<1>8. OpenValue(s.lots) \in Int /\ OpenQty(s.lots) \in Int
  BY <1>1, OpenIsInt
<1>9. t.realized = s.realized /\ t.slack = s.slack + z
  BY <1>4
<1>e. Worth(e) = qp + n
  BY <1>a DEF Worth
<1> HIDE DEF t, qr, qp
<1>10. Near(InBooks(t), InBooks(s) + Worth(e), t.slack - s.slack)
  <2>1. -z <= 2 * (qr - n) /\ 2 * (qr - n) <= z
    BY <1>3 DEF Near, qr
  <2>2. InBooks(t) - (InBooks(s) + Worth(e)) = qr - n
    BY <1>1, <1>2, <1>6, <1>7, <1>8, <1>9, <1>e DEF InBooks
  <2>3. t.slack - s.slack = z
    BY <1>1, <1>3, <1>9
  <2> QED
    BY <2>1, <2>2, <2>3 DEF Near
<1>11. Books(s, t, e)
  BY <1>7, <1>10, <1>a DEF Books, SharesAfter
<1> QED
  BY <1>5, <1>11 DEF t

\* A sell.
LEMMA SellBooks ==
    ASSUME NEW I, NEW s \in State(Nat, I), s.ok,
           NEW e \in Entries, e.type = "sell"
    PROVE  Sell(s, e) \in State(Nat, I) /\ Books(s, Sell(s, e), e)
<1> DEFINE sold == Sold(s.lots, e.price, e.qty)
           t == Sell(s, e)
           fees == e.fees * Unit
<1>1. /\ s.lots \in Seq(Lot(Nat, I)) /\ s.realized \in Int /\ s.slack \in Nat
      /\ s = [ok |-> s.ok, lots |-> s.lots, realized |-> s.realized, slack |-> s.slack]
  BY DEF State
<1>2. e.qty \in Nat /\ e.price \in Int /\ fees \in Nat
  BY LedgerAssumption
<1>3. OpenValue(s.lots) \in Int /\ OpenQty(s.lots) \in Int
  BY <1>1, OpenIsInt
<1>4. CASE e.qty > OpenQty(s.lots)
  <2>1. t = [ok |-> FALSE, lots |-> s.lots, realized |-> s.realized, slack |-> s.slack]
    BY <1>1, <1>4 DEF Sell, State
  <2> HIDE DEF t
  <2>2. t \in State(Nat, I) /\ Books(s, t, e)
    BY <1>1, <2>1 DEF State, Books
  <2> QED
    BY <2>2 DEF t
<1>5. CASE ~(e.qty > OpenQty(s.lots))
  <2>1. t = [ok |-> s.ok, lots |-> sold.lots, realized |-> s.realized + sold.gain - fees, slack |-> s.slack]
    BY <1>1, <1>5 DEF Sell, Sold, State
  <2>2. e.qty <= OpenQty(s.lots) /\ sold = Sold(s.lots, e.price, e.qty)
    BY <1>2, <1>3, <1>5
  <2>0. fees = e.fees * Unit
    OBVIOUS
  <2> HIDE DEF sold, t, fees
  <2>3. /\ sold \in Selling(Nat, I)
        /\ OpenQty(sold.lots) = OpenQty(s.lots) - e.qty
        /\ OpenValue(sold.lots) = OpenValue(s.lots) + sold.gain - e.price * e.qty
    <3> DEFINE lots == s.lots
               price == e.price
               shares == e.qty
               K == Nat
    <3>1. lots \in Seq(Lot(K, I)) /\ price \in Int /\ shares \in Nat /\ shares <= OpenQty(lots) /\ sold = Sold(lots, price, shares) /\ K \in SUBSET Int
      BY <1>1, <1>2, <2>2
    <3> HIDE DEF lots, price, shares, K
    <3>2. /\ sold \in Selling(K, I)
          /\ OpenQty(sold.lots) = OpenQty(lots) - shares
          /\ OpenValue(sold.lots) = OpenValue(lots) + sold.gain - price * shares
      BY <3>1, SellConserves
    <3> QED
      BY <3>2 DEF lots, price, shares, K
  <2>4. sold.gain \in Int /\ sold.lots \in Seq(Lot(Nat, I))
    BY <2>3 DEF Selling
  <2>5. s.realized + sold.gain - fees \in Int
    BY <1>1, <1>2, <2>4
  <2>6. t \in State(Nat, I)
    BY <1>1, <2>1, <2>4, <2>5 DEF State
  <2>7. e.price * e.qty = e.qty * e.price /\ e.qty * e.price \in Int
    BY <1>2, Distribute
  <2>8. InBooks(t) = InBooks(s) + Worth(e)
    <3> DEFINE paid == e.qty * e.price
    <3>1. Worth(e) = -(paid - fees)
      BY <2>0 DEF Worth
    <3>2. OpenValue(t.lots) = OpenValue(s.lots) + sold.gain - paid /\ paid \in Int
      BY <2>1, <2>3, <2>7
    <3>3. t.realized = s.realized + sold.gain - fees
      BY <2>1
    <3> HIDE DEF paid
    <3> QED
      BY <1>1, <1>2, <1>3, <2>4, <3>1, <3>2, <3>3 DEF InBooks
  <2>9. Near(InBooks(t), InBooks(s) + Worth(e), t.slack - s.slack)
    <3>1. t.slack - s.slack = 0 /\ InBooks(t) \in Int
      <4>1. t.slack = s.slack /\ t.realized \in Int /\ t.lots \in Seq(Lot(Nat, I))
        BY <2>1, <2>6 DEF State
      <4>2. OpenValue(t.lots) \in Int
        BY <4>1, OpenIsInt
      <4> QED
        BY <1>1, <4>1, <4>2 DEF InBooks
    <3> QED
      BY <2>8, <3>1 DEF Near
  <2>10. Books(s, t, e)
    BY <2>1, <2>3, <2>9 DEF Books, SharesAfter
  <2> QED
    BY <2>6, <2>10 DEF t
<1> QED
  BY <1>4, <1>5

\* A split or a bonus.
LEMMA ScaleBooks ==
    ASSUME NEW I, NEW s \in State(Nat, I), s.ok, NEW e \in Entries, IsAction(e)
    PROVE  Scale(s, e) \in State(Nat, I) /\ Books(s, Scale(s, e), e)
<1> DEFINE T == Times(e)
           n == Len(s.lots)
           lots == s.lots
           more == [k \in DOMAIN lots |-> Multiplied(lots[k], e)]
           z == ScaleSlack(lots, e)
           t == Scale(s, e)
<1>1. /\ lots \in Seq(Lot(Nat, I)) /\ s.realized \in Int /\ s.slack \in Nat
      /\ s = [ok |-> s.ok, lots |-> lots, realized |-> s.realized, slack |-> s.slack]
  BY DEF State
<1>2. n \in Nat /\ DOMAIN lots = 1 .. n /\ \A k \in 1 .. n : lots[k] \in Lot(Nat, I)
  BY <1>1
<1>3. T \in Nat \ {0}
  BY FactorIsPositive
<1>4. t = [ok |-> s.ok, lots |-> more, realized |-> s.realized, slack |-> s.slack + z]
  <2>1. t = WithLots(s, more, s.slack + z)
    BY Zenon DEF Scale, WithLots
  <2> HIDE DEF more, t, lots, z
  <2> QED
    BY <2>1, OtherLots
<1>5. ASSUME NEW k \in 1 .. n
      PROVE  /\ more[k] \in Lot(Nat, I) /\ LotSlack(lots[k], e) \in Nat
             /\ Near(more[k].qty * more[k].cost, lots[k].qty * lots[k].cost, LotSlack(lots[k], e))
             /\ Whole(e) => more[k].qty = lots[k].qty * T
  <2>1. more[k] = Multiplied(lots[k], e) /\ lots[k] \in Lot(Nat, I)
    BY <1>2
  <2> HIDE DEF lots, more
  <2> QED
    BY <2>1, OneScaled
<1>6. more \in Seq(Lot(Nat, I)) /\ Len(more) = n
  <2>1. DOMAIN more = 1 .. n /\ more = [k \in 1 .. n |-> more[k]]
    BY <1>2
  <2>2. \A k \in 1 .. n : more[k] \in Lot(Nat, I)
    BY <1>5
  <2> HIDE DEF more
  <2> QED
    BY <1>2, <2>1, <2>2
<1> HIDE DEF T, n, lots, more, t, z
<1>7. OpenQty(lots) \in Int /\ OpenValue(lots) \in Int /\ OpenQty(more) \in Int /\ OpenValue(more) \in Int
  BY <1>1, <1>6, OpenIsInt
<1>a. Nat \in SUBSET Int
  OBVIOUS
<1>8. z \in Nat /\ Near(OpenValue(more), OpenValue(lots), z)
  <2> DEFINE w == [k \in 1 .. n |-> lots[k].qty * lots[k].cost]
             v == [k \in 1 .. n |-> more[k].qty * more[k].cost]
             u == [k \in 1 .. n |-> LotSlack(lots[k], e)]
  <2>1. PICK f : Sums(f, n, w) /\ OpenValue(lots) = f[n]
    BY <1>1, <1>a, OpenValueSteps DEF n, lots
  <2>2. PICK g : Sums(g, n, v) /\ OpenValue(more) = g[n]
    BY <1>6, <1>a, OpenValueSteps
  <2>3. PICK h : Sums(h, n, u) /\ ScaleSlack(lots, e) = h[n]
    BY <1>1, SlackSteps DEF n, lots
  <2>4. ASSUME NEW k \in 1 .. n
        PROVE  w[k] \in Int /\ v[k] \in Int /\ u[k] \in Nat /\ Near(v[k], w[k], u[k])
    <3>1. lots[k] \in Lot(Nat, I) /\ more[k] \in Lot(Nat, I)
      BY <1>2, <1>5
    <3>2. w[k] \in Int /\ v[k] \in Int
      BY <3>1 DEF Lot
    <3> QED
      BY <1>5, <3>2
  <2> HIDE DEF w, v, u
  <2> DEFINE Good == {k \in 0 .. n : h[k] \in Nat /\ Near(g[k], f[k], h[k])}
  <2>5. 0 \in Good
    BY <1>2, <2>1, <2>2, <2>3 DEF Sums, Near
  <2>6. ASSUME NEW k \in 0 .. n - 1, k \in Good PROVE k + 1 \in Good
    <3>1. k + 1 \in 1 .. n /\ k + 1 \in 0 .. n /\ (k + 1) - 1 = k /\ k \in 0 .. n
      BY <1>2
    <3>2. /\ f[k + 1] = f[k] + w[k + 1] /\ g[k + 1] = g[k] + v[k + 1] /\ h[k + 1] = h[k] + u[k + 1]
          /\ f[k] \in Int /\ g[k] \in Int
      BY <2>1, <2>2, <2>3, <3>1 DEF Sums
    <3>3. h[k] \in Nat /\ Near(g[k], f[k], h[k])
      BY <2>6
    <3>4. w[k + 1] \in Int /\ v[k + 1] \in Int /\ u[k + 1] \in Nat /\ Near(v[k + 1], w[k + 1], u[k + 1])
      BY <2>4, <3>1
    <3>5. h[k + 1] \in Nat /\ Near(g[k + 1], f[k + 1], h[k + 1])
      BY <3>2, <3>3, <3>4 DEF Near
    <3> QED
      BY <3>1, <3>5
  <2> HIDE DEF Good
  <2>7. 0 .. n \subseteq Good
    BY <1>2, <2>5, <2>6, UpTo
  <2>8. h[n] \in Nat /\ Near(g[n], f[n], h[n])
    BY <1>2, <2>7 DEF Good
  <2> QED
    BY <2>1, <2>2, <2>3, <2>8 DEF z
<1>9. ASSUME Whole(e) PROVE OpenQty(more) = OpenQty(lots) * T
  <2> DEFINE w == [k \in 1 .. n |-> lots[k].qty]
             v == [k \in 1 .. n |-> more[k].qty]
  <2>1. PICK f : Sums(f, n, w) /\ OpenQty(lots) = f[n]
    BY <1>1, <1>a, OpenQtySteps DEF n, lots
  <2>2. PICK g : Sums(g, n, v) /\ OpenQty(more) = g[n]
    BY <1>6, <1>a, OpenQtySteps
  <2>3. \A k \in 1 .. n : v[k] = w[k] * T /\ w[k] \in Int
    BY <1>2, <1>5, <1>9 DEF Lot
  <2> HIDE DEF w, v
  <2> DEFINE Good == {k \in 0 .. n : g[k] = f[k] * T}
  <2>4. 0 \in Good
    BY <1>2, <1>3, <2>1, <2>2 DEF Sums
  <2>5. ASSUME NEW k \in 0 .. n - 1, k \in Good PROVE k + 1 \in Good
    <3>1. k + 1 \in 1 .. n /\ k + 1 \in 0 .. n /\ (k + 1) - 1 = k /\ k \in 0 .. n
      BY <1>2
    <3>2. f[k + 1] = f[k] + w[k + 1] /\ g[k + 1] = g[k] + v[k + 1] /\ f[k] \in Int
      BY <2>1, <2>2, <3>1 DEF Sums
    <3>3. g[k] = f[k] * T /\ v[k + 1] = w[k + 1] * T /\ w[k + 1] \in Int /\ T \in Int
      BY <1>3, <2>3, <2>5, <3>1
    <3>4. (f[k] + w[k + 1]) * T = f[k] * T + w[k + 1] * T
      BY <3>2, <3>3, Distribute
    <3>5. g[k + 1] = f[k + 1] * T
      BY <3>2, <3>3, <3>4
    <3> QED
      BY <3>1, <3>5
  <2> HIDE DEF Good
  <2>6. 0 .. n \subseteq Good
    BY <1>2, <2>4, <2>5, UpTo
  <2>7. g[n] = f[n] * T
    BY <1>2, <2>6 DEF Good
  <2> QED
    BY <2>1, <2>2, <2>7
<1>10. t \in State(Nat, I)
  BY <1>1, <1>4, <1>6, <1>8 DEF State
<1>11. Worth(e) = 0 /\ SharesAfter(OpenQty(lots), e) = OpenQty(lots) * T /\ (WholeRow(e) => Whole(e))
  BY DEF Worth, SharesAfter, IsAction, WholeRow, T
<1>12. Near(InBooks(t), InBooks(s) + Worth(e), t.slack - s.slack)
  <2>1. InBooks(t) = OpenValue(more) - s.realized /\ InBooks(s) = OpenValue(lots) - s.realized /\ t.slack = s.slack + z
    BY <1>4 DEF InBooks, lots
  <2>2. InBooks(t) - (InBooks(s) + Worth(e)) = OpenValue(more) - OpenValue(lots) /\ t.slack - s.slack = z
    BY <1>1, <1>7, <1>8, <1>11, <2>1
  <2> QED
    BY <1>8, <2>2 DEF Near
<1>13. Books(s, t, e)
  BY <1>1, <1>4, <1>9, <1>11, <1>12 DEF Books, lots
<1> QED
  BY <1>10, <1>13 DEF t

-----------------------------------------------------------------------------
\* A state with fewer sources is one with more.
LEMMA StateOfMore ==
    ASSUME NEW C, NEW I, NEW J, I \subseteq J, NEW s \in State(C, I)
    PROVE  s \in State(C, J)
<1>1. Lot(C, I) \subseteq Lot(C, J)
  BY DEF Lot
<1>2. s.lots \in Seq(Lot(C, I))
  BY DEF State
<1>3. s.lots \in Seq(Lot(C, J))
  <2> DEFINE A == Lot(C, I)
             D == Lot(C, J)
             l == s.lots
  <2>1. A \subseteq D /\ l \in Seq(A)
    BY <1>1, <1>2
  <2> HIDE DEF A, D, l
  <2>2. l \in Seq(D)
    BY <2>1, SeqOfMore
  <2> QED
    BY <2>2 DEF D, l
<1> QED
  BY <1>3 DEF State

\* One more row.
LEMMA ApplyBooks ==
    ASSUME NEW I, NEW J, I \subseteq J,
           NEW s \in State(Nat, I), NEW i, NEW e \in Entries, e.type = "buy" => i \in J
    PROVE  Apply(s, i, e) \in State(Nat, J) /\ Books(s, Apply(s, i, e), e)
<1> DEFINE t == Apply(s, i, e)
<1>1. s \in State(Nat, J)
  <2> DEFINE C == Nat
  <2>1. s \in State(C, I)
    OBVIOUS
  <2> HIDE DEF C
  <2>2. s \in State(C, J)
    BY <2>1, StateOfMore
  <2> QED
    BY <2>2 DEF C
<1>2. CASE ~s.ok
  <2>1. t = s
    BY <1>2 DEF Apply
  <2> QED
    BY <1>1, <1>2, <2>1 DEF Books
<1>3. CASE s.ok /\ e.type = "buy"
  <2>1. t = Buy(s, i, e)
    BY <1>3 DEF Apply, IsAction
  <2> QED
    BY <1>1, <1>3, <2>1, BuyBooks
<1>4. CASE s.ok /\ e.type = "sell"
  <2>1. t = Sell(s, e)
    BY <1>4 DEF Apply, IsAction
  <2> QED
    BY <1>1, <1>4, <2>1, SellBooks
<1>5. CASE s.ok /\ IsAction(e)
  <2>1. t = Scale(s, e)
    BY <1>5 DEF Apply, IsAction
  <2> QED
    BY <1>1, <1>5, <2>1, ScaleBooks
<1>6. CASE s.ok /\ e.type = "dividend"
  <2>1. t = s
    BY <1>6 DEF Apply, IsAction
  <2>2. s.lots \in Seq(Lot(Nat, J)) /\ s.realized \in Int /\ s.slack \in Nat /\ Nat \in SUBSET Int
    BY <1>1 DEF State
  <2>3. OpenValue(s.lots) \in Int
    BY <2>2, OpenIsInt
  <2>4. Worth(e) = 0 /\ SharesAfter(OpenQty(s.lots), e) = OpenQty(s.lots)
    BY <1>6 DEF Worth, SharesAfter, IsAction
  <2>5. Near(InBooks(s), InBooks(s) + Worth(e), s.slack - s.slack)
    BY <2>2, <2>3, <2>4 DEF Near, InBooks
  <2> QED
    BY <1>1, <1>6, <2>1, <2>4, <2>5 DEF Books
<1>7. e.type \in {"buy", "sell", "dividend"} \/ IsAction(e)
  BY LedgerAssumption DEF IsAction
<1> QED
  BY <1>2, <1>3, <1>4, <1>5, <1>6, <1>7

\* Rows the engine can be given.
IsBook(L) ==
    /\ DOMAIN L \in SUBSET Ids
    /\ \A i \in DOMAIN L : L[i].entry \in Entries /\ L[i].date \in Nat

LatestOf(L, S) == CHOOSE i \in S : \A j \in S \ {i} : Before(L, j, i)

\* Before orders the rows of a ledger: any of them have a last one.
LEMMA LastRow ==
    ASSUME NEW L, IsBook(L), NEW T \in SUBSET DOMAIN L, T # {}
    PROVE  LatestOf(L, T) \in T /\ \A j \in T \ {LatestOf(L, T)} : Before(L, j, LatestOf(L, T))
<1> DEFINE D == DOMAIN L
           Good == {S \in SUBSET D : S # {} => \E i \in S : \A j \in S \ {i} : Before(L, j, i)}
<1>1. IsFiniteSet(D)
  <2>1. MaxTxns \in Nat
    BY LedgerAssumption
  <2>2. IsFiniteSet(Ids)
    BY <2>1, FS_Interval DEF Ids
  <2> QED
    BY <2>2, FS_Subset DEF IsBook
<1>2. \A i \in D : i \in Int /\ L[i].date \in Int
  BY LedgerAssumption DEF IsBook, Ids
<1>3. \A i, j \in D : i # j => Before(L, i, j) \/ Before(L, j, i)
  BY <1>2 DEF Before
<1>4. \A i, j, k \in D : Before(L, i, j) /\ Before(L, j, k) => Before(L, i, k)
  BY <1>2 DEF Before
<1> HIDE DEF D
<1>5. ASSUME NEW S \in SUBSET D, \A R \in SUBSET S : R # S => R \in Good PROVE S \in Good
  <2> SUFFICES ASSUME NEW z \in S PROVE \E i \in S : \A j \in S \ {i} : Before(L, j, i)
    OBVIOUS
  <2> DEFINE R == S \ {z}
  <2>1. R \in SUBSET S /\ R # S
    OBVIOUS
  <2>2. R \in Good
    BY <1>5, <2>1
  <2>3. CASE R = {}
    <3>1. \A j \in S \ {z} : Before(L, j, z)
      BY <2>3
    <3> QED
      BY <3>1
  <2>4. CASE R # {}
    <3>1. PICK x \in R : \A j \in R \ {x} : Before(L, j, x)
      BY <2>2, <2>4
    <3>2. x \in S /\ x # z /\ x \in D /\ z \in D
      OBVIOUS
    <3>3. CASE Before(L, z, x)
      <4>1. \A j \in S \ {x} : Before(L, j, x)
        BY <3>1, <3>3
      <4> QED
        BY <3>2, <4>1
    <3>4. CASE Before(L, x, z)
      <4>1. \A j \in S \ {z} : Before(L, j, z)
        BY <1>4, <3>1, <3>2, <3>4
      <4> QED
        BY <4>1
    <3> QED
      BY <1>3, <3>2, <3>3, <3>4
  <2> QED
    BY <2>3, <2>4
<1> HIDE DEF Good
<1>6. SUBSET D \subseteq Good
  BY <1>1, <1>5, SetInduction
<1>7. \E i \in T : \A j \in T \ {i} : Before(L, j, i)
  BY <1>6 DEF Good, D
<1> QED
  BY <1>7 DEF LatestOf

BuysIn(L, S) == {i \in S : L[i].entry.type = "buy"}

\* The books before the first row.
Opening == [ok |-> TRUE, lots |-> <<>>, realized |-> 0, slack |-> 0]

\* f is what the engine makes of every set of rows of L.
Replays(f, L) ==
    \A S \in SUBSET DOMAIN L :
        /\ f[S] \in State(Nat, BuysIn(L, S))
        /\ f[S] = IF S = {} THEN Opening
                  ELSE Apply(f[S \ {LatestOf(L, S)}], LatestOf(L, S), L[LatestOf(L, S)].entry)

\* The rows of a ledger are finitely many.
LEMMA FiniteBook == ASSUME NEW L, IsBook(L) PROVE IsFiniteSet(DOMAIN L)
<1>1. MaxTxns \in Nat
  BY LedgerAssumption
<1>2. IsFiniteSet(Ids)
  BY <1>1, FS_Interval DEF Ids
<1> QED
  BY <1>2, FS_Subset DEF IsBook

\* A replay is what the engine makes of all rows.
LEMMA ReplaySteps ==
    ASSUME NEW L, IsBook(L)
    PROVE  \E f : Replays(f, L) /\ ReplayOf(L) = f[DOMAIN L]
<1> DEFINE D == DOMAIN L
           start == [ok |-> TRUE, lots |-> <<>>, realized |-> 0, slack |-> 0]
           last == [S \in SUBSET D |-> LatestOf(L, S)]
           range == [S \in SUBSET D |-> State(Nat, BuysIn(L, S))]
           step == [S \in SUBSET D |-> [v \in range[S \ {last[S]}] |-> Apply(v, last[S], L[last[S]].entry)]]
           H(f) == [S \in SUBSET D |->
                       IF S = {} THEN start ELSE Apply(f[S \ {LatestOf(L, S)}], LatestOf(L, S), L[LatestOf(L, S)].entry)]
           after == CHOOSE f : f = H(f)
<1>1. IsFiniteSet(D)
  BY FiniteBook
<1>2. start \in range[{}]
  <2>1. <<>> \in Seq(Lot(Nat, {}))
    OBVIOUS
  <2>2. start \in State(Nat, {}) /\ BuysIn(L, {}) = {}
    BY <2>1 DEF State, BuysIn
  <2> QED
    BY <2>2
<1>3. \A S \in SUBSET D : S # {} => last[S] \in S
  BY LastRow
<1>4. \A S \in SUBSET D : range[S] = State(Nat, BuysIn(L, S)) /\ last[S] = LatestOf(L, S)
  OBVIOUS
<1>5. ASSUME NEW S \in SUBSET D, S # {}
      PROVE  \A v \in range[S \ {last[S]}] :
                /\ step[S][v] = Apply(v, last[S], L[last[S]].entry)
                /\ step[S][v] \in range[S]
  <2> SUFFICES ASSUME NEW v \in range[S \ {last[S]}]
               PROVE  /\ step[S][v] = Apply(v, last[S], L[last[S]].entry)
                      /\ step[S][v] \in range[S]
    OBVIOUS
  <2>1. step[S][v] = Apply(v, last[S], L[last[S]].entry)
    OBVIOUS
  <2> DEFINE x == last[S]
             R == S \ {x}
             e == L[x].entry
  <2>2. x \in S /\ x \in D
    BY <1>3, <1>5
  <2>3. e \in Entries
    BY <2>2 DEF IsBook
  <2> HIDE DEF D, x, last
  <2>4. v \in State(Nat, BuysIn(L, R))
    <3>1. v \in range[R] /\ R \in SUBSET D
      BY DEF x
    <3>2. range[R] = State(Nat, BuysIn(L, R))
      BY <1>4, <3>1
    <3> HIDE DEF R, range
    <3> QED
      BY <3>1, <3>2
  <2>5. Apply(v, x, e) \in State(Nat, BuysIn(L, S))
    <3>1. BuysIn(L, R) \subseteq BuysIn(L, S) /\ (e.type = "buy" => x \in BuysIn(L, S))
      BY <2>2 DEF BuysIn
    <3> HIDE DEF R, e
    <3> QED
      BY <2>2, <2>3, <2>4, <3>1, ApplyBooks
  <2>6. range[S] = State(Nat, BuysIn(L, S))
    BY <1>4
  <2> HIDE DEF range, step
  <2> QED
    BY <2>1, <2>5, <2>6 DEF e, x
<1> HIDE DEF D, start, last, range, step
<1>6. \A S \in SUBSET D : S # {} => \A v \in range[S \ {last[S]}] : step[S][v] \in range[S]
  BY <1>5
<1>7. PICK g : Recurses(g, D, range, start, last, step)
  BY <1>1, <1>2, <1>3, <1>6, RecursionExists
<1>8. g = H(g)
  <2>1. ASSUME NEW S \in SUBSET D, S # {}
        PROVE  g[S] = Apply(g[S \ {LatestOf(L, S)}], LatestOf(L, S), L[LatestOf(L, S)].entry)
    <3>1. S \ {last[S]} \in SUBSET D /\ last[S] = LatestOf(L, S)
      BY <1>4
    <3>2. g[S] = step[S][g[S \ {last[S]}]] /\ g[S \ {last[S]}] \in range[S \ {last[S]}]
      BY <1>7, <2>1, <3>1 DEF Recurses
    <3> QED
      BY <1>5, <2>1, <3>1, <3>2
  <2>2. g[{}] = start
    BY <1>7 DEF Recurses
  <2>3. g = [S \in SUBSET D |-> g[S]]
    BY <1>7 DEF Recurses
  <2> QED
    BY <2>1, <2>2, <2>3
<1>9. after = H(after)
  BY <1>8
<1>10. ReplayOf(L) = after[D]
  BY DEF ReplayOf, LatestOf, D, start
<1> HIDE DEF after
<1>11. \A S \in SUBSET D : after[S] = IF S = {} THEN start ELSE Apply(after[S \ {LatestOf(L, S)}], LatestOf(L, S), L[LatestOf(L, S)].entry)
  BY <1>9
<1> DEFINE Good == {S \in SUBSET D : after[S] \in range[S]}
<1>12. ASSUME NEW S \in SUBSET D, \A R \in SUBSET S : R # S => R \in Good PROVE S \in Good
  <2>1. CASE S = {}
    BY <1>2, <1>11, <2>1
  <2>2. CASE S # {}
    <3>1. last[S] \in S /\ last[S] = LatestOf(L, S)
      BY <1>3, <1>4, <2>2
    <3>2. S \ {last[S]} \in SUBSET S /\ S \ {last[S]} # S
      BY <3>1
    <3>3. S \ {last[S]} \in Good
      BY <1>12, <3>2
    <3>4. after[S \ {last[S]}] \in range[S \ {last[S]}]
      BY <3>3
    <3>5. after[S] = Apply(after[S \ {last[S]}], last[S], L[last[S]].entry)
      BY <1>11, <2>2, <3>1
    <3>6. after[S] = step[S][after[S \ {last[S]}]] /\ after[S] \in range[S]
      BY <1>5, <2>2, <3>4, <3>5
    <3> QED
      BY <3>6
  <2> QED
    BY <2>1, <2>2
<1> HIDE DEF Good
<1>13. SUBSET D \subseteq Good
  BY <1>1, <1>12, SetInduction
<1>14. \A S \in SUBSET D : after[S] \in State(Nat, BuysIn(L, S))
  BY <1>4, <1>13 DEF Good
<1>15. Replays(after, L)
  BY <1>11, <1>14 DEF Replays, Opening, D, start
<1> QED
  BY <1>10, <1>15 DEF D

\* What the engine makes of one more row.
LEMMA RowBooks ==
    ASSUME NEW L, IsBook(L), NEW f, Replays(f, L), NEW S \in SUBSET DOMAIN L, S # {},
           NEW x, x = LatestOf(L, S)
    PROVE  /\ x \in S /\ L[x].entry \in Entries
           /\ f[S] = Apply(f[S \ {x}], x, L[x].entry)
           /\ Books(f[S \ {x}], f[S], L[x].entry)
<1> DEFINE R == S \ {x}
           e == L[x].entry
<1>1. x \in S /\ e \in Entries
  BY LastRow DEF IsBook
<1>2. R \in SUBSET DOMAIN L /\ BuysIn(L, R) \subseteq BuysIn(L, S) /\ (e.type = "buy" => x \in BuysIn(L, S))
  BY <1>1 DEF BuysIn
<1>3. f[R] \in State(Nat, BuysIn(L, R))
  BY <1>2 DEF Replays
<1>4. f[S] = Apply(f[R], x, e)
  BY DEF Replays
<1> HIDE DEF R, e
<1>5. Books(f[R], Apply(f[R], x, e), e)
  BY <1>1, <1>2, <1>3, ApplyBooks
<1> QED
  BY <1>1, <1>4, <1>5 DEF R, e

-----------------------------------------------------------------------------
\* g is the sum of w over the subsets of D.
SumsOver(g, D, w) ==
    /\ g \in [SUBSET D -> Int] /\ g[{}] = 0
    /\ \A S \in SUBSET D : \A x \in S : g[S] = g[S \ {x}] + w[x]

Picked(S) == CHOOSE x \in S : TRUE
IsSetSum(g, D, w) == g = [S \in SUBSET D |-> IF S = {} THEN 0 ELSE g[S \ {Picked(S)}] + w[Picked(S)]]

\* Such a sum is an integer ...
LEMMA SetSumIsInt ==
    ASSUME NEW D, IsFiniteSet(D), NEW w \in [D -> Int], NEW g, IsSetSum(g, D, w)
    PROVE  g \in [SUBSET D -> Int]
<1> DEFINE Good == {S \in SUBSET D : g[S] \in Int}
<1>1. /\ g = [S \in SUBSET D |-> g[S]]
      /\ \A S \in SUBSET D : g[S] = IF S = {} THEN 0 ELSE g[S \ {Picked(S)}] + w[Picked(S)]
  BY DEF IsSetSum
<1>2. ASSUME NEW S \in SUBSET D, \A R \in SUBSET S : R # S => R \in Good PROVE S \in Good
  <2>1. CASE S = {}
    <3>1. g[S] = 0
      BY <1>1, <2>1
    <3> QED
      BY <3>1
  <2>2. CASE S # {}
    <3>1. Picked(S) \in S
      BY <2>2 DEF Picked
    <3>2. S \ {Picked(S)} \in SUBSET S /\ S \ {Picked(S)} # S
      BY <3>1
    <3>3. g[S \ {Picked(S)}] \in Int
      BY <1>2, <3>2
    <3>4. w[Picked(S)] \in Int
      BY <3>1
    <3>5. g[S] = g[S \ {Picked(S)}] + w[Picked(S)]
      BY <1>1, <2>2
    <3> QED
      BY <3>3, <3>4, <3>5
  <2> QED
    BY <2>1, <2>2
<1> HIDE DEF Good
<1>3. SUBSET D \subseteq Good
  BY <1>2, SetInduction
<1> QED
  BY <1>1, <1>3 DEF Good

\* A sum over a set does not depend on the order of its terms.
LEMMA AnyOrder ==
    ASSUME NEW D, IsFiniteSet(D), NEW w \in [D -> Int], NEW g, IsSetSum(g, D, w)
    PROVE  SumsOver(g, D, w)
<1> DEFINE Good == {S \in SUBSET D : \A x \in S : g[S] = g[S \ {x}] + w[x]}
<1>0. g \in [SUBSET D -> Int]
  BY SetSumIsInt
<1>1. \A S \in SUBSET D : g[S] \in Int /\ g[S] = IF S = {} THEN 0 ELSE g[S \ {Picked(S)}] + w[Picked(S)]
  BY <1>0 DEF IsSetSum
<1>2. ASSUME NEW S \in SUBSET D, \A R \in SUBSET S : R # S => R \in Good PROVE S \in Good
  <2> SUFFICES ASSUME NEW x \in S PROVE g[S] = g[S \ {x}] + w[x]
    OBVIOUS
  <2> DEFINE y == Picked(S)
  <2>1. y \in S
    BY DEF Picked
  <2>2. S # {} /\ S \ {x} \in SUBSET S /\ S \ {x} # S /\ S \ {y} \in SUBSET S /\ S \ {y} # S
    BY <2>1
  <2>3. g[S] = g[S \ {y}] + w[y]
    BY <1>1, <2>2
  <2> HIDE DEF y
  <2>4. CASE x = y
    BY <2>3, <2>4
  <2>5. CASE x # y
    <3>1. x \in S \ {y} /\ y \in S \ {x}
      BY <2>1, <2>5
    <3> DEFINE T == (S \ {y}) \ {x}
    <3>2. T = (S \ {x}) \ {y} /\ T \in SUBSET D
      OBVIOUS
    <3>3. g[S \ {y}] = g[T] + w[x]
      BY <1>2, <2>2, <3>1
    <3>4. g[S \ {x}] = g[T] + w[y]
      BY <1>2, <2>2, <3>1, <3>2
    <3>5. g[T] \in Int /\ w[x] \in Int /\ w[y] \in Int
      BY <1>1, <2>1, <3>2
    <3> HIDE DEF T
    <3> QED
      BY <2>3, <3>3, <3>4, <3>5
  <2> QED
    BY <2>4, <2>5
<1> HIDE DEF Good
<1>3. SUBSET D \subseteq Good
  BY <1>2, SetInduction
<1> QED
  BY <1>0, <1>1, <1>3 DEF SumsOver, Good

\* ... and it exists.
LEMMA SetSumExists ==
    ASSUME NEW D, IsFiniteSet(D), NEW w \in [D -> Int]
    PROVE  \E g : IsSetSum(g, D, w)
<1> DEFINE last == [S \in SUBSET D |-> Picked(S)]
           V == [S \in SUBSET D |-> Int]
           step == [S \in SUBSET D |-> [v \in Int |-> v + w[last[S]]]]
<1>1. \A S \in SUBSET D : S # {} => last[S] \in S /\ last[S] = Picked(S)
  BY DEF Picked
<1>2. \A S \in SUBSET D : V[S] = Int
  OBVIOUS
<1>3. ASSUME NEW S \in SUBSET D, S # {}
      PROVE  \A v \in Int : step[S][v] = v + w[Picked(S)] /\ v + w[Picked(S)] \in Int
  <2>1. last[S] = Picked(S) /\ Picked(S) \in D
    BY <1>1, <1>3
  <2>2. w[Picked(S)] \in Int
    BY <2>1
  <2>3. \A v \in Int : step[S][v] = v + w[last[S]]
    OBVIOUS
  <2> QED
    BY <2>1, <2>2, <2>3
<1>4. \A S \in SUBSET D : S # {} => \A v \in V[S \ {last[S]}] : step[S][v] \in V[S]
  BY <1>2, <1>3
<1>5. 0 \in V[{}]
  OBVIOUS
<1> HIDE DEF last, V, step
<1>6. PICK g : Recurses(g, D, V, 0, last, step)
  BY <1>1, <1>4, <1>5, RecursionExists
<1>7. \A S \in SUBSET D : g[S] \in Int
  BY <1>2, <1>6 DEF Recurses
<1>8. \A S \in SUBSET D : g[S] = IF S = {} THEN 0 ELSE g[S \ {Picked(S)}] + w[Picked(S)]
  <2>1. \A S \in SUBSET D : S # {} => g[S] = step[S][g[S \ {last[S]}]]
    BY <1>6 DEF Recurses
  <2>2. g[{}] = 0
    BY <1>6 DEF Recurses
  <2>3. ASSUME NEW S \in SUBSET D, S # {} PROVE g[S] = g[S \ {Picked(S)}] + w[Picked(S)]
    <3>1. S \ {Picked(S)} \in SUBSET D
      OBVIOUS
    <3>2. g[S \ {Picked(S)}] \in Int
      BY <1>7, <3>1
    <3> QED
      BY <1>1, <1>3, <2>1, <2>3, <3>2
  <2> QED
    BY <2>2, <2>3
<1>9. g = [S \in SUBSET D |-> g[S]]
  BY <1>6 DEF Recurses
<1> QED
  BY <1>8, <1>9 DEF IsSetSum

\* What the user paid is a sum over the buys ...
LEMMA OutlayIsSum ==
    ASSUME NEW a, NEW w, IsFiniteSet(OfType(a, "buy")), w \in [OfType(a, "buy") -> Int],
           \A i \in OfType(a, "buy") : w[i] = txn[i].entry.qty * txn[i].entry.price + txn[i].entry.fees * Unit
    PROVE  \E g : SumsOver(g, OfType(a, "buy"), w) /\ Outlay(a) = g[OfType(a, "buy")]
<1> DEFINE B == OfType(a, "buy")
           H(f) == [S \in SUBSET B |->
                       IF S = {} THEN 0
                       ELSE f[S \ {CHOOSE x \in S : TRUE}]
                            + (txn[CHOOSE x \in S : TRUE].entry.qty * txn[CHOOSE x \in S : TRUE].entry.price
                               + txn[CHOOSE x \in S : TRUE].entry.fees * Unit)]
           total == CHOOSE f : f = H(f)
<1>1. \E g : IsSetSum(g, B, w)
  BY SetSumExists
<1>2. \A f : H(f) = [S \in SUBSET B |-> IF S = {} THEN 0 ELSE f[S \ {Picked(S)}] + w[Picked(S)]]
  BY DEF Picked
<1>3. Outlay(a) = total[B]
  BY DEF Outlay, EntrySum, FoldSet, MapThenFoldSet
<1> HIDE DEF H
<1>4. total = H(total)
  BY <1>1, <1>2 DEF IsSetSum
<1> HIDE DEF total
<1>5. IsSetSum(total, B, w)
  BY <1>2, <1>4 DEF IsSetSum
<1> QED
  BY <1>3, <1>5, AnyOrder

\* ... and what the sells brought a sum over the sells.
LEMMA ProceedsIsSum ==
    ASSUME NEW a, NEW w, IsFiniteSet(OfType(a, "sell")), w \in [OfType(a, "sell") -> Int],
           \A i \in OfType(a, "sell") : w[i] = txn[i].entry.qty * txn[i].entry.price - txn[i].entry.fees * Unit
    PROVE  \E g : SumsOver(g, OfType(a, "sell"), w) /\ Proceeds(a) = g[OfType(a, "sell")]
<1> DEFINE B == OfType(a, "sell")
           H(f) == [S \in SUBSET B |->
                       IF S = {} THEN 0
                       ELSE f[S \ {CHOOSE x \in S : TRUE}]
                            + (txn[CHOOSE x \in S : TRUE].entry.qty * txn[CHOOSE x \in S : TRUE].entry.price
                               - txn[CHOOSE x \in S : TRUE].entry.fees * Unit)]
           total == CHOOSE f : f = H(f)
<1>1. \E g : IsSetSum(g, B, w)
  BY SetSumExists
<1>2. \A f : H(f) = [S \in SUBSET B |-> IF S = {} THEN 0 ELSE f[S \ {Picked(S)}] + w[Picked(S)]]
  BY DEF Picked
<1>3. Proceeds(a) = total[B]
  BY DEF Proceeds, EntrySum, FoldSet, MapThenFoldSet
<1> HIDE DEF H
<1>4. total = H(total)
  BY <1>1, <1>2 DEF IsSetSum
<1> HIDE DEF total
<1>5. IsSetSum(total, B, w)
  BY <1>2, <1>4 DEF IsSetSum
<1> QED
  BY <1>3, <1>5, AnyOrder

-----------------------------------------------------------------------------
Buys(L) == {i \in DOMAIN L : L[i].entry.type = "buy"}
Sells(L) == {i \in DOMAIN L : L[i].entry.type = "sell"}
Costing(L) == [i \in DOMAIN L |-> Worth(L[i].entry)]
Bringing(L) == [i \in DOMAIN L |-> -Worth(L[i].entry)]

\* The money in the books after any rows of a ledger: what the buys among them
\* cost less what the sells brought, but for what was rounded.
LEMMA ReplayConserves ==
    ASSUME NEW L, IsBook(L), NEW f, Replays(f, L), f[DOMAIN L].ok,
           NEW gb, SumsOver(gb, Buys(L), Costing(L)), NEW gs, SumsOver(gs, Sells(L), Bringing(L))
    PROVE  Near(InBooks(f[DOMAIN L]), gb[Buys(L)] - gs[Sells(L)], f[DOMAIN L].slack)
<1> DEFINE D == DOMAIN L
           B == Buys(L)
           C == Sells(L)
           wb == Costing(L)
           ws == Bringing(L)
           Net(S) == InBooks(f[S])
           Slack(S) == f[S].slack
           Paid(S) == gb[S \cap B] - gs[S \cap C]
           Good == {S \in SUBSET D : f[S].ok => Near(Net(S), Paid(S), Slack(S))}
<1>1. IsFiniteSet(D)
  BY FiniteBook
<1>a. \A S \in SUBSET D : Net(S) \in Int /\ Slack(S) \in Nat
  <2> SUFFICES ASSUME NEW S \in SUBSET D PROVE Net(S) \in Int /\ Slack(S) \in Nat
    OBVIOUS
  <2> DEFINE K == Nat
             I == BuysIn(L, S)
             s == f[S]
  <2>0. K \in SUBSET Int
    OBVIOUS
  <2>1. s \in State(K, I)
    BY DEF Replays
  <2> HIDE DEF K, I, s
  <2>2. s.lots \in Seq(Lot(K, I)) /\ s.realized \in Int /\ s.slack \in Nat
    BY <2>1 DEF State
  <2>3. OpenValue(s.lots) \in Int
    BY <2>0, <2>2, OpenIsInt
  <2> QED
    BY <2>2, <2>3 DEF InBooks, s
<1>2. \A S \in SUBSET D : gb[S \cap B] \in Int /\ gs[S \cap C] \in Int
  BY DEF SumsOver
<1>3. /\ gb[{}] = 0 /\ \A S, T \in SUBSET B : \A x \in S : S \ {x} = T => gb[S] = gb[T] + wb[x]
      /\ gs[{}] = 0 /\ \A S, T \in SUBSET C : \A x \in S : S \ {x} = T => gs[S] = gs[T] + ws[x]
  BY DEF SumsOver
<1>4. /\ \A i \in D : Worth(L[i].entry) \in Int /\ wb[i] = Worth(L[i].entry) /\ ws[i] = -Worth(L[i].entry)
      /\ B = {i \in D : L[i].entry.type = "buy"} /\ C = {i \in D : L[i].entry.type = "sell"}
  <2>1. \A i \in D : L[i].entry \in Entries
    BY DEF IsBook
  <2>2. ASSUME NEW e \in Entries PROVE Worth(e) \in Int
    <3>1. e.qty * e.price \in Int /\ e.fees * Unit \in Int
      BY LedgerAssumption
    <3> QED
      BY <3>1 DEF Worth
  <2> QED
    BY <2>1, <2>2 DEF Buys, Sells, Costing, Bringing
<1> HIDE DEF B, C, wb, ws
<1>5. ASSUME NEW S \in SUBSET D, \A R \in SUBSET S : R # S => R \in Good PROVE S \in Good
  <2> SUFFICES ASSUME f[S].ok PROVE Near(Net(S), Paid(S), Slack(S))
    OBVIOUS
  <2>1. CASE S = {}
    <3>1. f[S] = Opening
      BY <2>1 DEF Replays
    <3>2. Net(S) = 0 /\ Slack(S) = 0
      BY <3>1, OpenOfNone DEF Opening, InBooks
    <3>3. S \cap B = {} /\ S \cap C = {}
      BY <2>1
    <3>4. gb[S \cap B] = 0 /\ gs[S \cap C] = 0
      BY <1>3, <3>3
    <3>5. Paid(S) = 0
      BY <3>4
    <3> QED
      BY <3>2, <3>5 DEF Near
  <2>2. CASE S # {}
    <3> DEFINE x == LatestOf(L, S)
               R == S \ {x}
               e == L[x].entry
    <3>1. x \in S /\ e \in Entries /\ Books(f[R], f[S], e)
      BY <2>2, RowBooks
    <3> HIDE DEF x
    <3>2. R \in SUBSET S /\ R # S /\ R \in SUBSET D /\ x \in D
      BY <3>1
    <3>3. f[R].ok /\ Near(Net(S), Net(R) + Worth(e), Slack(S) - Slack(R))
      BY <3>1 DEF Books
    <3>4. Near(Net(R), Paid(R), Slack(R))
      BY <1>5, <3>2, <3>3
    <3>5. /\ Net(S) \in Int /\ Net(R) \in Int /\ Slack(S) \in Nat /\ Slack(R) \in Nat
          /\ Worth(e) \in Int /\ Paid(R) \in Int
      <4>1. gb[R \cap B] \in Int /\ gs[R \cap C] \in Int
        BY <1>2, <3>2
      <4>2. Worth(e) \in Int
        BY <1>4, <3>2
      <4>3. /\ Net(S) \in Int /\ Net(R) \in Int /\ Slack(S) \in Nat /\ Slack(R) \in Nat
        BY <1>a, <3>2
      <4> HIDE DEF Net, Slack, R
      <4> QED
        BY <4>1, <4>2, <4>3
    <3>6. Paid(S) = Paid(R) + Worth(e)
      <4>1. CASE x \in B
        <5>1. S \cap C = R \cap C /\ x \in S \cap B /\ (S \cap B) \ {x} = R \cap B /\ S \cap B \in SUBSET B
          BY <1>4, <3>1, <4>1
        <5>2. gb[S \cap B] = gb[R \cap B] + wb[x]
          BY <1>3, <5>1
        <5>3. wb[x] = Worth(e) /\ wb[x] \in Int
          BY <1>4, <3>2
        <5>4. gb[R \cap B] \in Int /\ gs[R \cap C] \in Int
          BY <1>2, <3>2
        <5>5. gs[S \cap C] = gs[R \cap C]
          BY <5>1
        <5> HIDE DEF R, e
        <5> QED
          BY <5>2, <5>3, <5>4, <5>5
      <4>2. CASE x \in C
        <5>1. S \cap B = R \cap B /\ x \in S \cap C /\ (S \cap C) \ {x} = R \cap C /\ S \cap C \in SUBSET C
          BY <1>4, <3>1, <4>2
        <5>2. gs[S \cap C] = gs[R \cap C] + ws[x]
          BY <1>3, <5>1
        <5>3. ws[x] = -Worth(e) /\ ws[x] \in Int /\ Worth(e) \in Int
          BY <1>4, <3>2
        <5>4. gb[R \cap B] \in Int /\ gs[R \cap C] \in Int
          BY <1>2, <3>2
        <5>5. gb[S \cap B] = gb[R \cap B]
          BY <5>1
        <5> HIDE DEF R, e
        <5> QED
          BY <5>2, <5>3, <5>4, <5>5
      <4>3. CASE x \notin B \cup C
        <5>1. S \cap B = R \cap B /\ S \cap C = R \cap C
          BY <4>3
        <5>2. e.type # "buy" /\ e.type # "sell"
          BY <1>4, <3>2, <4>3
        <5>3. Worth(e) = 0
          BY <5>2 DEF Worth
        <5>4. gb[R \cap B] \in Int /\ gs[R \cap C] \in Int
          BY <1>2, <3>2
        <5>5. Paid(S) = Paid(R)
          BY <5>1
        <5>6. Paid(R) \in Int
          BY <5>4
        <5> HIDE DEF R, e, Paid
        <5> QED
          BY <5>3, <5>5, <5>6
      <4> QED
        BY <4>1, <4>2, <4>3
    <3> HIDE DEF Net, Paid, Slack, R, e
    <3> QED
      BY <3>3, <3>4, <3>5, <3>6 DEF Near
  <2> QED
    BY <2>1, <2>2
<1> HIDE DEF Good
<1>6. SUBSET D \subseteq Good
  BY <1>1, <1>5, SetInduction
<1>7. D \cap B = B /\ D \cap C = C
  BY <1>4
<1>8. Near(Net(D), Paid(D), Slack(D))
  BY <1>6 DEF Good
<1> QED
  BY <1>7, <1>8 DEF B, C

-----------------------------------------------------------------------------
\* The rows of an account, read from a typed table, are rows for the engine.
LEMMA TableBook ==
    ASSUME NEW T \in [Ids -> Rows], NEW x, NEW L, L = Book(T, x)
    PROVE  IsBook(L) /\ DOMAIN L = Ledger(T, x) /\ \A i \in DOMAIN L : L[i] = T[i]
<1>1. DOMAIN L = Ledger(T, x) /\ \A i \in DOMAIN L : L[i] = T[i]
  BY DEF Book
<1>2. \A i \in Ledger(T, x) : i \in Ids /\ T[i].entry \in Entries /\ T[i].date \in Dates
  BY DEF Ledger, Live, Rows, Free, Gone
<1>3. \A d \in Dates : d \in Nat
  BY LedgerAssumption
<1> QED
  BY <1>1, <1>2, <1>3 DEF IsBook

\* While overlapping requests concern different accounts, money is neither made
\* nor lost by the lot arithmetic, whatever the ratios and charges: what the
\* projection still carries as invested less the profit it booked is what the
\* user paid less what the sells brought, but for half a last digit per share
\* for each unit cost and per rupee for each quantity that buildHoldingFromTxns
\* (fifo-engine.ts) had to round.
THEOREM LedgersBalance == Spec /\ []Apart => []CashIdentity
<1>1. LedgerInv => CashIdentity
  <2> SUFFICES ASSUME LedgerInv, NEW a \in Accts, holding[a].there
               PROVE  LET slack == ReplayOf(Book(txn, a)).slack IN 2 * Drift(a) \in -slack .. slack
    BY DEF CashIdentity
  <2> DEFINE L == Book(txn, a)
             B == OfType(a, "buy")
             C == OfType(a, "sell")
             w == [i \in B |-> txn[i].entry.qty * txn[i].entry.price + txn[i].entry.fees * Unit]
             v == [i \in C |-> txn[i].entry.qty * txn[i].entry.price - txn[i].entry.fees * Unit]
  <2>1. holding[a] = Materialized(L) /\ ReplayOf(L).ok
    BY DEF LedgerInv, Sound, Faithful, Accepted
  <2>2. IsBook(L) /\ DOMAIN L = Ledger(txn, a) /\ \A i \in DOMAIN L : L[i] = txn[i]
    BY TableBook DEF LedgerInv, Tables
  <2>3. PICK f : Replays(f, L) /\ ReplayOf(L) = f[DOMAIN L]
    BY <2>2, ReplaySteps
  <2>4. B = Buys(L) /\ C = Sells(L)
    BY <2>2 DEF OfType, Buys, Sells
  <2>5. IsFiniteSet(B) /\ IsFiniteSet(C)
    <3>1. MaxTxns \in Nat
      BY LedgerAssumption
    <3>2. IsFiniteSet(Ids)
      BY <3>1, FS_Interval DEF Ids
    <3>3. B \subseteq Ids /\ C \subseteq Ids
      BY <2>2, <2>4 DEF IsBook, Buys, Sells
    <3> QED
      BY <3>2, <3>3, FS_Subset
  <2>6. \A i \in DOMAIN L : LET e == txn[i].entry IN
          /\ e.qty * e.price \in Int /\ e.fees * Unit \in Int
          /\ i \in B => Costing(L)[i] = e.qty * e.price + e.fees * Unit
          /\ i \in C => Bringing(L)[i] = e.qty * e.price - e.fees * Unit
    <3> SUFFICES ASSUME NEW i \in DOMAIN L, NEW e, e = L[i].entry
                 PROVE  /\ e.qty * e.price \in Int /\ e.fees * Unit \in Int
                        /\ i \in B => Costing(L)[i] = e.qty * e.price + e.fees * Unit
                        /\ i \in C => Bringing(L)[i] = e.qty * e.price - e.fees * Unit
      BY <2>2
    <3>1. e.qty \in Int /\ e.price \in Int /\ e.fees \in Int /\ Unit \in Int
      BY <2>2, LedgerAssumption DEF IsBook
    <3>2. e.qty * e.price \in Int /\ e.fees * Unit \in Int
      BY <3>1, Distribute
    <3>3. i \in B => e.type = "buy"
      BY <2>4 DEF Buys
    <3>4. i \in C => e.type = "sell"
      BY <2>4 DEF Sells
    <3>5. Costing(L)[i] = Worth(e) /\ Bringing(L)[i] = -Worth(e)
      BY DEF Costing, Bringing
    <3> HIDE DEF L, B, C
    <3> QED
      BY <3>1, <3>2, <3>3, <3>4, <3>5 DEF Worth
  <2>7. B \subseteq DOMAIN L /\ C \subseteq DOMAIN L
    BY <2>4 DEF Buys, Sells
  <2>8. w \in [B -> Int] /\ v \in [C -> Int]
    BY <2>6, <2>7
  <2>9. (\A i \in B : w[i] = Costing(L)[i]) /\ (\A i \in C : v[i] = Bringing(L)[i])
    BY <2>6, <2>7
  <2> HIDE DEF L, B, C, w, v
  <2>10. PICK gb : SumsOver(gb, B, w) /\ Outlay(a) = gb[B]
    BY <2>5, <2>8, OutlayIsSum DEF B, w
  <2>11. PICK gs : SumsOver(gs, C, v) /\ Proceeds(a) = gs[C]
    BY <2>5, <2>8, ProceedsIsSum DEF C, v
  <2>12. SumsOver(gb, Buys(L), Costing(L)) /\ SumsOver(gs, Sells(L), Bringing(L))
    BY <2>4, <2>9, <2>10, <2>11 DEF SumsOver
  <2> DEFINE s == f[DOMAIN L]
  <2>13. Near(InBooks(s), gb[B] - gs[C], s.slack)
    BY <2>1, <2>2, <2>3, <2>4, <2>12, ReplayConserves
  <2>14. s \in State(Nat, BuysIn(L, DOMAIN L))
    BY <2>3 DEF Replays
  <2>15. holding[a].invested = OpenValue(s.lots) /\ holding[a].realized = s.realized
    BY <2>1, <2>3 DEF Materialized
  <2> HIDE DEF s
  <2>16. OpenValue(s.lots) \in Int /\ s.realized \in Int /\ s.slack \in Nat
    <3> DEFINE K == Nat
               I == BuysIn(L, DOMAIN L)
    <3>1. s \in State(K, I) /\ K \in SUBSET Int
      BY <2>14
    <3> HIDE DEF K, I
    <3>2. s.lots \in Seq(Lot(K, I)) /\ s.realized \in Int /\ s.slack \in Nat
      BY <3>1 DEF State
    <3> QED
      BY <3>1, <3>2, OpenIsInt
  <2>17. gb[B] \in Int /\ gs[C] \in Int
    BY <2>10, <2>11 DEF SumsOver
  <2>18. 2 * Drift(a) \in -s.slack .. s.slack
    <3>1. Drift(a) = InBooks(s) - (gb[B] - gs[C])
      BY <2>10, <2>11, <2>15 DEF Drift, InBooks
    <3>2. Drift(a) \in Int
      BY <2>16, <2>17, <3>1 DEF InBooks
    <3> QED
      BY <2>13, <2>16, <3>1, <3>2 DEF Near
  <2> QED
    BY <2>3, <2>18 DEF s, L
<1>2. Init => LedgerInv
  BY InitKeeps
<1>3. Apart /\ LedgerInv /\ [Next]_vars => LedgerInv'
  BY StepKeeps
<1> QED
  BY <1>1, <1>2, <1>3, PTL DEF Spec

-----------------------------------------------------------------------------
(* Shares of today: what a split or a bonus makes of the rows before it. *)

\* g is the product of w over the subsets of D.
ProductsOver(g, D, w) ==
    /\ g \in [SUBSET D -> Int] /\ g[{}] = 1
    /\ \A S \in SUBSET D : \A x \in S : g[S] = g[S \ {x}] * w[x]

IsSetProduct(g, D, w) == g = [S \in SUBSET D |-> IF S = {} THEN 1 ELSE g[S \ {Picked(S)}] * w[Picked(S)]]

\* Such a product is an integer ...
LEMMA SetProductIsInt ==
    ASSUME NEW D, IsFiniteSet(D), NEW w \in [D -> Int], NEW g, IsSetProduct(g, D, w)
    PROVE  g \in [SUBSET D -> Int]
<1> DEFINE Good == {S \in SUBSET D : g[S] \in Int}
<1>1. /\ g = [S \in SUBSET D |-> g[S]]
      /\ \A S \in SUBSET D : g[S] = IF S = {} THEN 1 ELSE g[S \ {Picked(S)}] * w[Picked(S)]
  BY DEF IsSetProduct
<1>2. ASSUME NEW S \in SUBSET D, \A R \in SUBSET S : R # S => R \in Good PROVE S \in Good
  <2>1. CASE S = {}
    <3>1. g[S] = 1
      BY <1>1, <2>1
    <3> QED
      BY <3>1
  <2>2. CASE S # {}
    <3>1. Picked(S) \in S
      BY <2>2 DEF Picked
    <3>2. S \ {Picked(S)} \in SUBSET S /\ S \ {Picked(S)} # S
      BY <3>1
    <3>3. g[S \ {Picked(S)}] \in Int
      BY <1>2, <3>2
    <3>4. w[Picked(S)] \in Int
      BY <3>1
    <3>5. g[S] = g[S \ {Picked(S)}] * w[Picked(S)]
      BY <1>1, <2>2
    <3> QED
      BY <3>3, <3>4, <3>5
  <2> QED
    BY <2>1, <2>2
<1> HIDE DEF Good
<1>3. SUBSET D \subseteq Good
  BY <1>2, SetInduction
<1> QED
  BY <1>1, <1>3 DEF Good

\* A product over a set does not depend on the order of its factors.
LEMMA AnyProductOrder ==
    ASSUME NEW D, IsFiniteSet(D), NEW w \in [D -> Int], NEW g, IsSetProduct(g, D, w)
    PROVE  ProductsOver(g, D, w)
<1> DEFINE Good == {S \in SUBSET D : \A x \in S : g[S] = g[S \ {x}] * w[x]}
<1>0. g \in [SUBSET D -> Int]
  BY SetProductIsInt
<1>1. \A S \in SUBSET D : g[S] \in Int /\ g[S] = IF S = {} THEN 1 ELSE g[S \ {Picked(S)}] * w[Picked(S)]
  BY <1>0 DEF IsSetProduct
<1>2. ASSUME NEW S \in SUBSET D, \A R \in SUBSET S : R # S => R \in Good PROVE S \in Good
  <2> SUFFICES ASSUME NEW x \in S PROVE g[S] = g[S \ {x}] * w[x]
    OBVIOUS
  <2> DEFINE y == Picked(S)
  <2>1. y \in S
    BY DEF Picked
  <2>2. S # {} /\ S \ {x} \in SUBSET S /\ S \ {x} # S /\ S \ {y} \in SUBSET S /\ S \ {y} # S
    BY <2>1
  <2>3. g[S] = g[S \ {y}] * w[y]
    BY <1>1, <2>2
  <2> HIDE DEF y
  <2>4. CASE x = y
    BY <2>3, <2>4
  <2>5. CASE x # y
    <3>1. x \in S \ {y} /\ y \in S \ {x}
      BY <2>1, <2>5
    <3> DEFINE T == (S \ {y}) \ {x}
    <3>2. T = (S \ {x}) \ {y} /\ T \in SUBSET D
      OBVIOUS
    <3>3. g[S \ {y}] = g[T] * w[x]
      BY <1>2, <2>2, <3>1
    <3>4. g[S \ {x}] = g[T] * w[y]
      BY <1>2, <2>2, <3>1, <3>2
    <3>5. g[T] \in Int /\ w[x] \in Int /\ w[y] \in Int
      BY <1>1, <2>1, <3>2
    <3> HIDE DEF T
    <3> QED
      BY <2>3, <3>3, <3>4, <3>5
  <2> QED
    BY <2>4, <2>5
<1> HIDE DEF Good
<1>3. SUBSET D \subseteq Good
  BY <1>2, SetInduction
<1> QED
  BY <1>0, <1>1, <1>3 DEF ProductsOver, Good

\* ... and it exists.
LEMMA SetProductExists ==
    ASSUME NEW D, IsFiniteSet(D), NEW w \in [D -> Int]
    PROVE  \E g : IsSetProduct(g, D, w)
<1> DEFINE last == [S \in SUBSET D |-> Picked(S)]
           V == [S \in SUBSET D |-> Int]
           step == [S \in SUBSET D |-> [v \in Int |-> v * w[last[S]]]]
<1>1. \A S \in SUBSET D : S # {} => last[S] \in S /\ last[S] = Picked(S)
  BY DEF Picked
<1>2. \A S \in SUBSET D : V[S] = Int
  OBVIOUS
<1>3. ASSUME NEW S \in SUBSET D, S # {}
      PROVE  \A v \in Int : step[S][v] = v * w[Picked(S)] /\ v * w[Picked(S)] \in Int
  <2>1. last[S] = Picked(S) /\ Picked(S) \in D
    BY <1>1, <1>3
  <2>2. w[Picked(S)] \in Int
    BY <2>1
  <2>3. \A v \in Int : step[S][v] = v * w[last[S]]
    OBVIOUS
  <2> QED
    BY <2>1, <2>2, <2>3
<1>4. \A S \in SUBSET D : S # {} => \A v \in V[S \ {last[S]}] : step[S][v] \in V[S]
  BY <1>2, <1>3
<1>5. 1 \in V[{}]
  OBVIOUS
<1> HIDE DEF last, V, step
<1>6. PICK g : Recurses(g, D, V, 1, last, step)
  BY <1>1, <1>4, <1>5, RecursionExists
<1>7. \A S \in SUBSET D : g[S] \in Int
  BY <1>2, <1>6 DEF Recurses
<1>8. \A S \in SUBSET D : g[S] = IF S = {} THEN 1 ELSE g[S \ {Picked(S)}] * w[Picked(S)]
  <2>1. \A S \in SUBSET D : S # {} => g[S] = step[S][g[S \ {last[S]}]]
    BY <1>6 DEF Recurses
  <2>2. g[{}] = 1
    BY <1>6 DEF Recurses
  <2>3. ASSUME NEW S \in SUBSET D, S # {} PROVE g[S] = g[S \ {Picked(S)}] * w[Picked(S)]
    <3>1. S \ {Picked(S)} \in SUBSET D
      OBVIOUS
    <3>2. g[S \ {Picked(S)}] \in Int
      BY <1>7, <3>1
    <3> QED
      BY <1>1, <1>3, <2>1, <2>3, <3>2
  <2> QED
    BY <2>2, <2>3
<1>9. g = [S \in SUBSET D |-> g[S]]
  BY <1>6 DEF Recurses
<1> QED
  BY <1>8, <1>9 DEF IsSetProduct

\* Both, for terms that are integers.
LEMMA TotalsExist ==
    ASSUME NEW D, IsFiniteSet(D), NEW w, \A i \in D : w[i] \in Int
    PROVE  (\E g : SumsOver(g, D, w)) /\ (\E g : ProductsOver(g, D, w))
<1> DEFINE v == [i \in D |-> w[i]]
<1>1. v \in [D -> Int] /\ \A i \in D : v[i] = w[i]
  OBVIOUS
<1> HIDE DEF v
<1>2. PICK g : SumsOver(g, D, v)
  BY <1>1, SetSumExists, AnyOrder
<1>3. PICK h : ProductsOver(h, D, v)
  BY <1>1, SetProductExists, AnyProductOrder
<1>4. SumsOver(g, D, w)
  BY <1>1, <1>2 DEF SumsOver
<1>5. ProductsOver(h, D, w)
  BY <1>1, <1>3 DEF ProductsOver
<1> QED
  BY <1>4, <1>5

\* The sum over a union is the sum of the sums.
LEMMA SumOfParts ==
    ASSUME NEW X, IsFiniteSet(X), NEW Y, IsFiniteSet(Y), X \cap Y = {},
           NEW w, \A i \in X \cup Y : w[i] \in Int,
           NEW f, SumsOver(f, X, w), NEW g, SumsOver(g, Y, w), NEW h, SumsOver(h, X \cup Y, w)
    PROVE  h[X \cup Y] = f[X] + g[Y]
<1> DEFINE InX == {S \in SUBSET X : h[S] = f[S]}
           More == {S \in SUBSET Y : h[X \cup S] = f[X] + g[S]}
<1>1. /\ f[{}] = 0 /\ \A S \in SUBSET X : f[S] \in Int /\ \A x \in S : f[S] = f[S \ {x}] + w[x]
      /\ g[{}] = 0 /\ \A S \in SUBSET Y : g[S] \in Int /\ \A x \in S : g[S] = g[S \ {x}] + w[x]
      /\ h[{}] = 0 /\ \A S \in SUBSET (X \cup Y) : h[S] \in Int /\ \A x \in S : h[S] = h[S \ {x}] + w[x]
  BY DEF SumsOver
<1>2. ASSUME NEW S \in SUBSET X, \A R \in SUBSET S : R # S => R \in InX PROVE S \in InX
  <2>1. CASE S = {}
    BY <1>1, <2>1
  <2>2. CASE S # {}
    <3>1. PICK x : x \in S
      BY <2>2
    <3>2. S \ {x} \in InX
      BY <1>2, <3>1
    <3>3. h[S] = h[S \ {x}] + w[x]
      BY <1>1, <3>1
    <3>4. f[S] = f[S \ {x}] + w[x]
      BY <1>1, <3>1
    <3> QED
      BY <3>2, <3>3, <3>4
  <2> QED
    BY <2>1, <2>2
<1>3. ASSUME NEW S \in SUBSET Y, X \in InX, \A R \in SUBSET S : R # S => R \in More PROVE S \in More
  <2>1. CASE S = {}
    <3>1. X \cup S = X
      BY <2>1
    <3>2. h[X] = f[X] /\ f[X] \in Int /\ g[S] = 0
      BY <1>1, <1>3, <2>1
    <3>3. h[X \cup S] = h[X]
      BY <3>1, Zenon
    <3>4. h[X \cup S] = f[X] + g[S]
      BY <3>2, <3>3
    <3> QED
      BY <3>4
  <2>2. CASE S # {}
    <3>1. PICK x : x \in S
      BY <2>2
    <3>2. h[X \cup (S \ {x})] = f[X] + g[S \ {x}]
      BY <1>3, <3>1
    <3> DEFINE T == X \cup S
               R == X \cup (S \ {x})
    <3>3. T \ {x} = R /\ T \in SUBSET (X \cup Y) /\ x \in T
      BY <3>1
    <3> HIDE DEF T, R
    <3>4. h[T] = h[R] + w[x]
      BY <1>1, <3>3
    <3>5. g[S] = g[S \ {x}] + w[x] /\ w[x] \in Int /\ g[S \ {x}] \in Int /\ f[X] \in Int
      BY <1>1, <3>1
    <3>6. h[T] = f[X] + g[S]
      BY <3>2, <3>4, <3>5 DEF R
    <3> QED
      BY <3>6 DEF T
  <2> QED
    BY <2>1, <2>2
<1> HIDE DEF InX, More
<1>4. SUBSET X \subseteq InX
  BY <1>2, SetInduction
<1>5. X \in InX
  BY <1>4
<1>6. SUBSET Y \subseteq More
  BY <1>3, <1>5, SetInduction
<1> QED
  BY <1>6 DEF More

\* Matching factors make the same product.
LEMMA ProductOfImage ==
    ASSUME NEW D, IsFiniteSet(D), NEW E, NEW p \in [D -> E], \A i, j \in D : p[i] = p[j] => i = j,
           NEW u, NEW w, \A i \in D : w[p[i]] = u[i],
           NEW g, ProductsOver(g, D, u), NEW h, ProductsOver(h, E, w), NEW S \in SUBSET D
    PROVE  h[{p[i] : i \in S}] = g[S]
<1> DEFINE Image(T) == {p[i] : i \in T}
           Good == {T \in SUBSET D : h[Image(T)] = g[T]}
<1>1. ASSUME NEW T \in SUBSET D, \A R \in SUBSET T : R # T => R \in Good PROVE T \in Good
  <2>1. CASE T = {}
    <3>1. Image(T) = {}
      BY <2>1
    <3> QED
      BY <2>1, <3>1 DEF ProductsOver
  <2>2. CASE T # {}
    <3>1. PICK x : x \in T
      BY <2>2
    <3>2. Image(T) \ {p[x]} = Image(T \ {x}) /\ Image(T) \in SUBSET E /\ p[x] \in Image(T)
      BY <3>1
    <3>3. h[Image(T \ {x})] = g[T \ {x}]
      BY <1>1, <3>1
    <3> HIDE DEF Image
    <3>4. h[Image(T)] = h[Image(T) \ {p[x]}] * w[p[x]]
      BY <3>2 DEF ProductsOver
    <3>5. g[T] = g[T \ {x}] * u[x] /\ w[p[x]] = u[x]
      BY <3>1 DEF ProductsOver
    <3> QED
      BY <3>2, <3>3, <3>4, <3>5
  <2> QED
    BY <2>1, <2>2
<1> HIDE DEF Good
<1>2. SUBSET D \subseteq Good
  BY <1>1, SetInduction
<1> QED
  BY <1>2 DEF Good

\* The rows of a ledger that are splits and bonuses, those after row i, and
\* what they make of a share.
Actions(L) == {j \in DOMAIN L : IsAction(L[j].entry)}
After(L, i) == {j \in Actions(L) : Before(L, i, j)}
Growth(L) == [j \in DOMAIN L |-> Times(L[j].entry)]
\* All of them multiply by whole numbers.
WholeBook(L) == \A i \in DOMAIN L : WholeRow(L[i].entry)
\* The shares of row i, counted in shares of today.
InToday(L, g) == [i \in DOMAIN L |-> L[i].entry.qty * g[After(L, i)]]

\* The rows of a ledger are totally ordered.
LEMMA RowsAreOrdered ==
    ASSUME NEW L, IsBook(L)
    PROVE  /\ IsFiniteSet(DOMAIN L)
           /\ \A i, j \in DOMAIN L : ~(Before(L, i, j) /\ Before(L, j, i))
<1>1. IsFiniteSet(DOMAIN L)
  BY FiniteBook
<1>2. \A i \in DOMAIN L : i \in Int /\ L[i].date \in Int
  BY LedgerAssumption DEF IsBook, Ids
<1> QED
  BY <1>1, <1>2 DEF Before

\* Growth and shares of today are numbers.
LEMMA TodayIsInt ==
    ASSUME NEW L, IsBook(L), NEW g, ProductsOver(g, Actions(L), Growth(L))
    PROVE  /\ \A S \in SUBSET Actions(L) : g[S] \in Int
           /\ \A j \in DOMAIN L : Growth(L)[j] \in Int /\ Growth(L)[j] = Times(L[j].entry)
           /\ \A i \in DOMAIN L : /\ InToday(L, g)[i] \in Int /\ L[i].entry.qty \in Int
                                  /\ InToday(L, g)[i] = L[i].entry.qty * g[After(L, i)]
<1>1. \A S \in SUBSET Actions(L) : g[S] \in Int
  BY DEF ProductsOver
<1>2. \A j \in DOMAIN L : Growth(L)[j] \in Int /\ Growth(L)[j] = Times(L[j].entry)
  BY FactorIsPositive DEF Growth, IsBook
<1>3. \A i \in DOMAIN L : L[i].entry.qty \in Int
  BY LedgerAssumption DEF IsBook
<1>4. \A i \in DOMAIN L : g[After(L, i)] \in Int
  BY <1>1 DEF After
<1>5. \A i \in DOMAIN L : L[i].entry.qty * g[After(L, i)] \in Int
  BY <1>3, <1>4, Distribute
<1> QED
  BY <1>1, <1>2, <1>3, <1>5 DEF InToday

\* What is open on the way is a number.
LEMMA ReplayIsInt ==
    ASSUME NEW L, IsBook(L), NEW f, Replays(f, L), NEW S \in SUBSET DOMAIN L
    PROVE  OpenQty(f[S].lots) \in Int
<1> DEFINE K == Nat
           I == BuysIn(L, S)
<1>1. f[S].lots \in Seq(Lot(K, I))
  BY DEF Replays, State
<1>2. K \in SUBSET Int
  OBVIOUS
<1> HIDE DEF K, I
<1> QED
  BY <1>1, <1>2, OpenIsInt

\* The rows up to some point of the ledger.
Prefix(L, S) == \A i \in S, j \in DOMAIN L \ S : Before(L, i, j)

\* The last of them: what it adds to the trades or takes from the splits and
\* bonuses still to come.
LEMMA PrefixStep ==
    ASSUME NEW L, IsBook(L), NEW S \in SUBSET DOMAIN L, S # {}, Prefix(L, S),
           NEW x, x = LatestOf(L, S), NEW R, R = S \ {x}
    PROVE  /\ x \in S /\ Prefix(L, R) /\ \A j \in R : Before(L, j, x)
           /\ x \in Actions(L) => /\ S \cap Buys(L) = R \cap Buys(L) /\ S \cap Sells(L) = R \cap Sells(L)
                                 /\ (Actions(L) \ R) \ {x} = Actions(L) \ S /\ x \in Actions(L) \ R
           /\ x \notin Actions(L) => Actions(L) \ R = Actions(L) \ S /\ After(L, x) = Actions(L) \ S
<1> DEFINE D == DOMAIN L
           A == Actions(L)
           B == Buys(L)
           C == Sells(L)
<1>1. \A i, j \in D : ~(Before(L, i, j) /\ Before(L, j, i))
  BY RowsAreOrdered
<1>2. /\ A \subseteq D /\ A \cap B = {} /\ A \cap C = {}
      /\ A = {i \in D : IsAction(L[i].entry)}
  BY DEF Actions, Buys, Sells, IsAction
<1>3. x \in S /\ \A j \in R : Before(L, j, x)
  BY LastRow
<1>4. After(L, x) = {j \in A : Before(L, x, j)}
  BY DEF After
<1>5. S \in SUBSET D /\ x \in D /\ \A i \in S, j \in D \ S : Before(L, i, j)
  BY <1>3 DEF Prefix
<1> HIDE DEF D, A, B, C
<1>6. Prefix(L, R)
  BY <1>3, <1>5 DEF Prefix, D
<1>7. x \in A => /\ S \cap B = R \cap B /\ S \cap C = R \cap C
                 /\ (A \ R) \ {x} = A \ S /\ x \in A \ R
  BY <1>2, <1>3
<1>8. ASSUME x \notin A PROVE A \ R = A \ S /\ After(L, x) = A \ S
  <2>1. ASSUME NEW j \in A PROVE Before(L, x, j) <=> j \notin S
    <3>1. j \in D /\ j # x
      BY <1>2, <1>8
    <3> QED
      BY <1>1, <1>3, <1>5, <3>1
  <2>2. A \ R = A \ S
    BY <1>8
  <2> QED
    BY <1>4, <2>1, <2>2
<1> QED
  BY <1>3, <1>6, <1>7, <1>8 DEF A, B, C

\* What is open after the rows up to some point, in shares of today, is what
\* was bought by then less what was sold.
LEMMA PrefixCounts ==
    ASSUME NEW L, IsBook(L), WholeBook(L), NEW f, Replays(f, L),
           NEW g, ProductsOver(g, Actions(L), Growth(L)),
           NEW b, SumsOver(b, Buys(L), InToday(L, g)), NEW s, SumsOver(s, Sells(L), InToday(L, g)),
           NEW U \in SUBSET DOMAIN L, Prefix(L, U), f[U].ok
    PROVE  OpenQty(f[U].lots) * g[Actions(L) \ U] = b[U \cap Buys(L)] - s[U \cap Sells(L)]
<1> DEFINE D == DOMAIN L
           A == Actions(L)
           B == Buys(L)
           C == Sells(L)
           w == InToday(L, g)
           Qty(S) == OpenQty(f[S].lots)
           Net(S) == b[S \cap B] - s[S \cap C]
           Good == {S \in SUBSET D : Prefix(L, S) /\ f[S].ok => Qty(S) * g[A \ S] = Net(S)}
<1>1. IsFiniteSet(D) /\ \A i, j \in D : ~(Before(L, i, j) /\ Before(L, j, i))
  BY RowsAreOrdered
<1>2. /\ A = {i \in D : IsAction(L[i].entry)} /\ B = {i \in D : L[i].entry.type = "buy"}
      /\ C = {i \in D : L[i].entry.type = "sell"}
      /\ A \cap B = {} /\ A \cap C = {} /\ B \cap C = {}
  BY DEF Actions, Buys, Sells, IsAction
<1>3. /\ \A S \in SUBSET D : b[S \cap B] \in Int /\ s[S \cap C] \in Int /\ g[A \ S] \in Int
      /\ b[{}] = 0 /\ \A S, T \in SUBSET B : \A x \in S : S \ {x} = T => b[S] = b[T] + w[x]
      /\ s[{}] = 0 /\ \A S, T \in SUBSET C : \A x \in S : S \ {x} = T => s[S] = s[T] + w[x]
      /\ g[{}] = 1 /\ \A S, T \in SUBSET A : \A x \in S : S \ {x} = T => g[S] = g[T] * Growth(L)[x]
  BY DEF SumsOver, ProductsOver
<1>4. \A i \in D : /\ w[i] \in Int /\ L[i].entry.qty \in Int /\ w[i] = L[i].entry.qty * g[After(L, i)]
                   /\ Growth(L)[i] = Times(L[i].entry) /\ Growth(L)[i] \in Int
  BY TodayIsInt
<1>5. \A S \in SUBSET D : Qty(S) \in Int
  BY ReplayIsInt
<1> HIDE DEF A, B, C, w, D
<1>6. ASSUME NEW S \in SUBSET D, \A R \in SUBSET S : R # S => R \in Good PROVE S \in Good
  <2> SUFFICES ASSUME Prefix(L, S), f[S].ok PROVE Qty(S) * g[A \ S] = Net(S)
    OBVIOUS
  <2>1. CASE S = {}
    <3>1. f[S] = Opening
      BY <2>1 DEF Replays
    <3>2. Qty(S) = 0
      BY <3>1, OpenOfNone DEF Opening
    <3>3. b[S \cap B] = 0 /\ s[S \cap C] = 0
      <4>1. S \cap B = {} /\ S \cap C = {}
        BY <2>1
      <4> QED
        BY <1>3, <4>1
    <3>4. g[A \ S] \in Int
      BY <1>3
    <3> QED
      BY <3>2, <3>3, <3>4
  <2>2. CASE S # {}
    <3> DEFINE x == LatestOf(L, S)
               R == S \ {x}
               e == L[x].entry
    <3>1. x \in S /\ e \in Entries /\ Books(f[R], f[S], e) /\ WholeRow(e)
      BY <2>2, RowBooks DEF D, WholeBook
    <3>2. /\ Prefix(L, R)
          /\ x \in A => /\ S \cap B = R \cap B /\ S \cap C = R \cap C
                        /\ (A \ R) \ {x} = A \ S /\ x \in A \ R
          /\ x \notin A => A \ R = A \ S /\ After(L, x) = A \ S
      BY <2>2, PrefixStep DEF A, B, C, D
    <3> HIDE DEF x
    <3>3. R \in SUBSET S /\ R # S /\ R \in SUBSET D /\ x \in D
      BY <3>1
    <3>4. Prefix(L, R)
      BY <3>2
    <3>5. f[R].ok /\ Qty(S) = SharesAfter(Qty(R), e)
      BY <3>1 DEF Books
    <3>6. Qty(R) * g[A \ R] = Net(R)
      BY <1>6, <3>3, <3>4, <3>5
    <3>7. /\ b[R \cap B] \in Int /\ s[R \cap C] \in Int /\ g[A \ R] \in Int /\ g[A \ S] \in Int
          /\ e.qty \in Int /\ Times(e) \in Int /\ Growth(L)[x] = Times(e)
      BY <1>3, <1>4, <3>3
    <3>8. Qty(R) \in Int
      BY <1>5, <3>3
    <3>9. x \in A => /\ IsAction(e) /\ e.type # "buy" /\ e.type # "sell" /\ S \cap B = R \cap B /\ S \cap C = R \cap C
                     /\ (A \ R) \ {x} = A \ S /\ x \in A \ R /\ A \ R \in SUBSET A /\ A \ S \in SUBSET A
      BY <1>2, <3>2 DEF IsAction
    <3>10. x \notin A => A \ R = A \ S /\ ~IsAction(e) /\ After(L, x) = A \ S
      BY <1>2, <3>2, <3>3
    <3>11. CASE x \in A
      <4>1. g[A \ R] = g[A \ S] * Times(e)
        BY <1>3, <3>7, <3>9, <3>11
      <4>2. Qty(S) = Qty(R) * Times(e)
        BY <3>5, <3>9, <3>11 DEF SharesAfter
      <4>3. Net(S) = Net(R)
        BY <3>9, <3>11
      <4> QED
        BY <3>6, <3>7, <3>8, <4>1, <4>2, <4>3
    <3>12. CASE x \in B
      <4>1. /\ x \notin A /\ e.type = "buy" /\ S \cap C = R \cap C
            /\ (S \cap B) \ {x} = R \cap B /\ x \in S \cap B /\ S \cap B \in SUBSET B /\ R \cap B \in SUBSET B
        BY <1>2, <3>1, <3>12
      <4>2. b[S \cap B] = b[R \cap B] + w[x]
        BY <1>3, <4>1
      <4>3. w[x] = e.qty * g[A \ S] /\ g[A \ R] = g[A \ S]
        BY <1>4, <3>3, <3>10, <4>1
      <4>4. Qty(S) = Qty(R) + e.qty
        BY <3>5, <4>1 DEF SharesAfter
      <4>5. s[S \cap C] = s[R \cap C]
        BY <4>1
      <4> DEFINE p == g[A \ S]
                 q == Qty(R)
                 bought == b[R \cap B]
                 brought == s[R \cap C]
      <4>6. q * p = bought - brought /\ q \in Int /\ p \in Int /\ bought \in Int /\ brought \in Int /\ e.qty \in Int
        BY <3>6, <3>7, <3>8, <4>3
      <4>7. b[S \cap B] = bought + e.qty * p
        BY <4>2, <4>3
      <4> HIDE DEF p, q, bought, brought, e
      <4>8. (q + e.qty) * p = q * p + e.qty * p /\ e.qty * p \in Int /\ q * p \in Int
        BY <4>6, Distribute
      <4>9. (q + e.qty) * p = (bought + e.qty * p) - brought
        BY <4>6, <4>8
      <4> QED
        BY <4>4, <4>5, <4>7, <4>9 DEF p, q, brought
    <3>13. CASE x \in C
      <4>1. /\ x \notin A /\ e.type = "sell" /\ S \cap B = R \cap B
            /\ (S \cap C) \ {x} = R \cap C /\ x \in S \cap C /\ S \cap C \in SUBSET C /\ R \cap C \in SUBSET C
        BY <1>2, <3>1, <3>13
      <4>2. s[S \cap C] = s[R \cap C] + w[x]
        BY <1>3, <4>1
      <4>3. w[x] = e.qty * g[A \ S] /\ g[A \ R] = g[A \ S]
        BY <1>4, <3>3, <3>10, <4>1
      <4>4. Qty(S) = Qty(R) - e.qty
        BY <3>5, <4>1 DEF SharesAfter
      <4>5. b[S \cap B] = b[R \cap B]
        BY <4>1
      <4> DEFINE p == g[A \ S]
                 q == Qty(R)
                 bought == b[R \cap B]
                 brought == s[R \cap C]
      <4>6. q * p = bought - brought /\ q \in Int /\ p \in Int /\ bought \in Int /\ brought \in Int /\ e.qty \in Int
        BY <3>6, <3>7, <3>8, <4>3
      <4>7. s[S \cap C] = brought + e.qty * p
        BY <4>2, <4>3
      <4> HIDE DEF p, q, bought, brought, e
      <4>8. (q - e.qty) * p = q * p - e.qty * p /\ e.qty * p \in Int /\ q * p \in Int
        BY <4>6, Distribute
      <4>9. (q - e.qty) * p = bought - (brought + e.qty * p)
        BY <4>6, <4>8
      <4> QED
        BY <4>4, <4>5, <4>7, <4>9 DEF p, q, bought
    <3>14. CASE x \notin A \cup B \cup C
      <4>1. S \cap B = R \cap B /\ S \cap C = R \cap C
        BY <3>14
      <4>2. e.type # "buy" /\ e.type # "sell"
        BY <1>2, <3>3, <3>14
      <4>3. Qty(S) = Qty(R)
        BY <3>5, <3>10, <3>14, <4>2 DEF SharesAfter
      <4>4. g[A \ R] = g[A \ S]
        BY <3>10, <3>14
      <4>5. Net(S) = Net(R)
        BY <4>1
      <4> QED
        BY <3>6, <4>3, <4>4, <4>5
    <3> QED
      BY <3>11, <3>12, <3>13, <3>14
  <2> QED
    BY <2>1, <2>2
<1> HIDE DEF Good
<1>7. SUBSET D \subseteq Good
  BY <1>1, <1>6, SetInduction
<1> QED
  BY <1>7 DEF Good, A, B, C, D

\* At the end, all of them.
LEMMA ReplayCounts ==
    ASSUME NEW L, IsBook(L), WholeBook(L), NEW f, Replays(f, L), f[DOMAIN L].ok,
           NEW g, ProductsOver(g, Actions(L), Growth(L)),
           NEW b, SumsOver(b, Buys(L), InToday(L, g)), NEW s, SumsOver(s, Sells(L), InToday(L, g))
    PROVE  OpenQty(f[DOMAIN L].lots) = b[Buys(L)] - s[Sells(L)]
<1> DEFINE D == DOMAIN L
<1>1. Prefix(L, D)
  BY DEF Prefix
<1>2. OpenQty(f[D].lots) * g[Actions(L) \ D] = b[D \cap Buys(L)] - s[D \cap Sells(L)]
  BY <1>1, PrefixCounts
<1>3. Actions(L) \ D = {} /\ D \cap Buys(L) = Buys(L) /\ D \cap Sells(L) = Sells(L)
  BY DEF Actions, Buys, Sells
<1>4. g[Actions(L) \ D] = 1
  BY <1>3 DEF ProductsOver
<1>5. OpenQty(f[D].lots) \in Int
  BY ReplayIsInt
<1>6. OpenQty(f[D].lots) * 1 = OpenQty(f[D].lots)
  BY <1>5
<1> QED
  BY <1>2, <1>3, <1>4, <1>6

\* p pairs the actions of L with actions of M that do the same to the trades of L.
Counterpart(L, M, p) ==
    /\ p \in [Actions(L) -> Actions(M)]
    /\ \A i, j \in Actions(L) : p[i] = p[j] => i = j
    /\ \A j \in Actions(L) : Times(M[p[j]].entry) = Times(L[j].entry)
    /\ \A i \in Buys(L) \cup Sells(L) :
          /\ i \in DOMAIN M /\ M[i].entry = L[i].entry
          /\ After(M, i) = {p[j] : j \in After(L, i)}

\* A trade counts the same number of today's shares in both.
LEMMA SameToday ==
    ASSUME NEW L, IsBook(L), NEW M, IsBook(M), NEW p, Counterpart(L, M, p),
           NEW g, ProductsOver(g, Actions(L), Growth(L)),
           NEW h, ProductsOver(h, Actions(M), Growth(M)),
           NEW i \in Buys(L) \cup Sells(L)
    PROVE  InToday(M, h)[i] = InToday(L, g)[i] /\ InToday(L, g)[i] \in Int
<1>1. IsFiniteSet(Actions(L))
  <2>1. IsFiniteSet(DOMAIN L) /\ Actions(L) \subseteq DOMAIN L
    BY RowsAreOrdered DEF Actions
  <2> QED
    BY <2>1, FS_Subset
<1>2. \A j \in Actions(L) : Growth(M)[p[j]] = Growth(L)[j]
  BY DEF Counterpart, Growth, Actions
<1>3. After(L, i) \in SUBSET Actions(L)
  BY DEF After
<1>4. p \in [Actions(L) -> Actions(M)] /\ \A k, j \in Actions(L) : p[k] = p[j] => k = j
  BY DEF Counterpart
<1>5. h[{p[j] : j \in After(L, i)}] = g[After(L, i)]
  BY <1>1, <1>2, <1>3, <1>4, ProductOfImage
<1>6. i \in DOMAIN L /\ i \in DOMAIN M /\ M[i].entry = L[i].entry /\ After(M, i) = {p[j] : j \in After(L, i)}
  BY DEF Counterpart, Buys, Sells
<1>7. h[After(M, i)] = g[After(L, i)]
  BY <1>5, <1>6
<1>8. InToday(L, g)[i] = L[i].entry.qty * g[After(L, i)] /\ InToday(L, g)[i] \in Int
  BY <1>6, TodayIsInt
<1>9. InToday(M, h)[i] = M[i].entry.qty * h[After(M, i)]
  BY <1>6, TodayIsInt
<1> QED
  BY <1>6, <1>7, <1>8, <1>9

\* What an accepted ledger has open, as sums.
LEMMA ReplayTotals ==
    ASSUME NEW L, IsBook(L), WholeBook(L), ReplayOf(L).ok, NEW g, ProductsOver(g, Actions(L), Growth(L))
    PROVE  \E b, s : /\ SumsOver(b, Buys(L), InToday(L, g)) /\ SumsOver(s, Sells(L), InToday(L, g))
                     /\ OpenQty(ReplayOf(L).lots) = b[Buys(L)] - s[Sells(L)]
                     /\ b[Buys(L)] \in Int /\ s[Sells(L)] \in Int
<1>1. IsFiniteSet(Buys(L)) /\ IsFiniteSet(Sells(L)) /\ Buys(L) \subseteq DOMAIN L /\ Sells(L) \subseteq DOMAIN L
  <2>1. IsFiniteSet(DOMAIN L) /\ Buys(L) \subseteq DOMAIN L /\ Sells(L) \subseteq DOMAIN L
    BY RowsAreOrdered DEF Buys, Sells
  <2> QED
    BY <2>1, FS_Subset
<1>2. \A i \in DOMAIN L : InToday(L, g)[i] \in Int
  BY TodayIsInt
<1>3. PICK b : SumsOver(b, Buys(L), InToday(L, g))
  BY <1>1, <1>2, TotalsExist
<1>4. PICK s : SumsOver(s, Sells(L), InToday(L, g))
  BY <1>1, <1>2, TotalsExist
<1>5. PICK f : Replays(f, L) /\ ReplayOf(L) = f[DOMAIN L]
  BY ReplaySteps
<1>6. OpenQty(ReplayOf(L).lots) = b[Buys(L)] - s[Sells(L)]
  BY <1>3, <1>4, <1>5, ReplayCounts
<1>7. b[Buys(L)] \in Int /\ s[Sells(L)] \in Int
  BY <1>3, <1>4 DEF SumsOver
<1> QED
  BY <1>3, <1>4, <1>6, <1>7

\* A ledger that has the trades of two others, under the same actions, has open
\* what the two have open.
LEMMA MergeAdds ==
    ASSUME NEW K, IsBook(K), WholeBook(K), ReplayOf(K).ok,
           NEW L, IsBook(L), WholeBook(L), ReplayOf(L).ok,
           NEW M, IsBook(M), WholeBook(M), ReplayOf(M).ok, DOMAIN K \cap DOMAIN L = {},
           Buys(M) = Buys(K) \cup Buys(L), Sells(M) = Sells(K) \cup Sells(L),
           NEW p, Counterpart(K, M, p), NEW q, Counterpart(L, M, q)
    PROVE  OpenQty(ReplayOf(M).lots) = OpenQty(ReplayOf(K).lots) + OpenQty(ReplayOf(L).lots)
<1>1. ASSUME NEW N, IsBook(N) PROVE \E g : ProductsOver(g, Actions(N), Growth(N))
  <2>1. IsFiniteSet(DOMAIN N) /\ Actions(N) \subseteq DOMAIN N
    BY <1>1, RowsAreOrdered DEF Actions
  <2>2. IsFiniteSet(Actions(N))
    BY <2>1, FS_Subset
  <2>3. \A j \in Actions(N) : Growth(N)[j] \in Int
    BY <1>1, FactorIsPositive DEF Growth, IsBook, Actions
  <2> QED
    BY <2>2, <2>3, TotalsExist
<1>2. PICK gk : ProductsOver(gk, Actions(K), Growth(K))
  BY <1>1
<1>3. PICK gl : ProductsOver(gl, Actions(L), Growth(L))
  BY <1>1
<1>4. PICK gm : ProductsOver(gm, Actions(M), Growth(M))
  BY <1>1
<1>5. PICK bk, sk : /\ SumsOver(bk, Buys(K), InToday(K, gk)) /\ SumsOver(sk, Sells(K), InToday(K, gk))
                    /\ OpenQty(ReplayOf(K).lots) = bk[Buys(K)] - sk[Sells(K)]
                    /\ bk[Buys(K)] \in Int /\ sk[Sells(K)] \in Int
  BY <1>2, ReplayTotals
<1>6. PICK bl, sl : /\ SumsOver(bl, Buys(L), InToday(L, gl)) /\ SumsOver(sl, Sells(L), InToday(L, gl))
                    /\ OpenQty(ReplayOf(L).lots) = bl[Buys(L)] - sl[Sells(L)]
                    /\ bl[Buys(L)] \in Int /\ sl[Sells(L)] \in Int
  BY <1>3, ReplayTotals
<1>7. PICK bm, sm : /\ SumsOver(bm, Buys(M), InToday(M, gm)) /\ SumsOver(sm, Sells(M), InToday(M, gm))
                    /\ OpenQty(ReplayOf(M).lots) = bm[Buys(M)] - sm[Sells(M)]
  BY <1>4, ReplayTotals
<1>8. /\ IsFiniteSet(Buys(K)) /\ IsFiniteSet(Sells(K)) /\ IsFiniteSet(Buys(L)) /\ IsFiniteSet(Sells(L))
      /\ Buys(K) \cap Buys(L) = {} /\ Sells(K) \cap Sells(L) = {}
  <2>1. /\ IsFiniteSet(DOMAIN K) /\ Buys(K) \subseteq DOMAIN K /\ Sells(K) \subseteq DOMAIN K
        /\ IsFiniteSet(DOMAIN L) /\ Buys(L) \subseteq DOMAIN L /\ Sells(L) \subseteq DOMAIN L
    BY RowsAreOrdered DEF Buys, Sells
  <2> QED
    BY <2>1, FS_Subset
<1>9. \A i \in Buys(K) \cup Sells(K) : InToday(M, gm)[i] = InToday(K, gk)[i] /\ InToday(K, gk)[i] \in Int
  BY <1>2, <1>4, SameToday
<1>10. \A i \in Buys(L) \cup Sells(L) : InToday(M, gm)[i] = InToday(L, gl)[i] /\ InToday(L, gl)[i] \in Int
  BY <1>3, <1>4, SameToday
<1>11. bm[Buys(K) \cup Buys(L)] = bk[Buys(K)] + bl[Buys(L)]
  <2>1. SumsOver(bm, Buys(K) \cup Buys(L), InToday(M, gm))
    BY <1>7
  <2>2. /\ \A i \in Buys(K) : InToday(M, gm)[i] = InToday(K, gk)[i] /\ InToday(K, gk)[i] \in Int
        /\ \A i \in Buys(L) : InToday(M, gm)[i] = InToday(L, gl)[i] /\ InToday(L, gl)[i] \in Int
    BY <1>9, <1>10
  <2>3. SumsOver(bk, Buys(K), InToday(M, gm))
    <3>1. SumsOver(bk, Buys(K), InToday(K, gk))
      BY <1>5
    <3> QED
      BY <2>2, <3>1 DEF SumsOver
  <2>4. SumsOver(bl, Buys(L), InToday(M, gm))
    <3>1. SumsOver(bl, Buys(L), InToday(L, gl))
      BY <1>6
    <3> QED
      BY <2>2, <3>1 DEF SumsOver
  <2>5. \A i \in Buys(K) \cup Buys(L) : InToday(M, gm)[i] \in Int
    BY <2>2
  <2> QED
    BY <1>8, <2>1, <2>3, <2>4, <2>5, SumOfParts
<1>12. sm[Sells(K) \cup Sells(L)] = sk[Sells(K)] + sl[Sells(L)]
  <2>1. SumsOver(sm, Sells(K) \cup Sells(L), InToday(M, gm))
    BY <1>7
  <2>2. /\ \A i \in Sells(K) : InToday(M, gm)[i] = InToday(K, gk)[i] /\ InToday(K, gk)[i] \in Int
        /\ \A i \in Sells(L) : InToday(M, gm)[i] = InToday(L, gl)[i] /\ InToday(L, gl)[i] \in Int
    BY <1>9, <1>10
  <2>3. SumsOver(sk, Sells(K), InToday(M, gm))
    <3>1. SumsOver(sk, Sells(K), InToday(K, gk))
      BY <1>5
    <3> QED
      BY <2>2, <3>1 DEF SumsOver
  <2>4. SumsOver(sl, Sells(L), InToday(M, gm))
    <3>1. SumsOver(sl, Sells(L), InToday(L, gl))
      BY <1>6
    <3> QED
      BY <2>2, <3>1 DEF SumsOver
  <2>5. \A i \in Sells(K) \cup Sells(L) : InToday(M, gm)[i] \in Int
    BY <2>2
  <2> QED
    BY <1>8, <2>1, <2>3, <2>4, <2>5, SumOfParts
<1> QED
  BY <1>5, <1>6, <1>7, <1>11, <1>12

-----------------------------------------------------------------------------
\* The rows a move from a to b writes.
Dropped(a, b) == IF holding[b].there THEN Duplicates(a, b) ELSE {}
Moved(a, b) ==
    [i \in Ledger(txn, a) |-> IF i \in Dropped(a, b) THEN Gone ELSE [txn[i] EXCEPT !.acct = b]]

\* What it makes of the table.
LEMMA MovedTable ==
    ASSUME txn \in [Ids -> Rows], NEW a \in Accts, NEW b \in Accts \ {a},
           NEW T, T = Over(Moved(a, b), txn)
    PROVE  /\ T \in [Ids -> Rows]
           /\ \A i \in Dropped(a, b) : i \in Ledger(txn, a) /\ IsAction(txn[i].entry)
           /\ Ledger(T, b) = (Ledger(txn, a) \ Dropped(a, b)) \cup Ledger(txn, b)
           /\ \A i \in Ledger(T, b) : T[i].entry = txn[i].entry /\ T[i].date = txn[i].date
<1> DEFINE rows == Moved(a, b)
           dupes == Dropped(a, b)
<1>1. dupes \subseteq Ledger(txn, a) /\ \A i \in dupes : IsAction(txn[i].entry)
  BY DEF Duplicates, Dropped
<1>2. DOMAIN rows = Ledger(txn, a) /\ Ledger(txn, a) \subseteq Ids
  BY DEF Moved, Ledger, Live
<1>3. ASSUME NEW i \in Ledger(txn, a)
      PROVE  /\ rows[i] \in Rows
             /\ i \in dupes => rows[i].st = "gone"
             /\ i \notin dupes => /\ rows[i].st = "live" /\ rows[i].acct = b
                                  /\ rows[i].entry = txn[i].entry /\ rows[i].date = txn[i].date
  <2> DEFINE moved == [txn[i] EXCEPT !.acct = b]
  <2>1. txn[i] \in [st : {"live"}, acct : Accts, entry : Entries, date : Dates]
    BY DEF Ledger, Live, Rows, Free, Gone
  <2>2. /\ moved \in [st : {"live"}, acct : Accts, entry : Entries, date : Dates]
        /\ moved.acct = b /\ moved.st = "live" /\ moved.entry = txn[i].entry /\ moved.date = txn[i].date
    BY <2>1
  <2>3. rows[i] = IF i \in dupes THEN Gone ELSE moved
    BY DEF Moved
  <2> HIDE DEF moved, rows
  <2>4. Gone \in Rows /\ Gone.st = "gone" /\ moved \in Rows
    BY <2>2 DEF Rows, Gone
  <2> QED
    BY <2>2, <2>3, <2>4
<1> HIDE DEF rows, dupes
<1>4. /\ DOMAIN T = Ids
      /\ \A i \in Ids : T[i] = IF i \in Ledger(txn, a) THEN rows[i] ELSE txn[i]
      /\ T = [i \in Ids |-> T[i]]
  BY <1>2 DEF Over, rows
<1>5. T \in [Ids -> Rows]
  <2>1. \A i \in Ids : T[i] \in Rows
    BY <1>3, <1>4
  <2> QED
    BY <1>4, <2>1
<1>6. ASSUME NEW i \in Ids
      PROVE  i \in Ledger(T, b) <=> i \in Ledger(txn, a) \ dupes \/ i \in Ledger(txn, b)
  <2>1. /\ i \in Ledger(T, b) <=> T[i].st = "live" /\ T[i].acct = b
        /\ i \in Ledger(txn, b) <=> txn[i].st = "live" /\ txn[i].acct = b
        /\ i \in Ledger(txn, a) <=> txn[i].st = "live" /\ txn[i].acct = a
    BY DEF Ledger, Live
  <2>2. CASE i \in Ledger(txn, a)
    BY <1>3, <1>4, <2>1, <2>2
  <2>3. CASE i \notin Ledger(txn, a)
    BY <1>4, <2>1, <2>3
  <2> QED
    BY <2>2, <2>3
<1>7. \A i \in Ledger(T, b) : T[i].entry = txn[i].entry /\ T[i].date = txn[i].date
  <2>1. ASSUME NEW i \in Ledger(T, b) PROVE T[i].entry = txn[i].entry /\ T[i].date = txn[i].date
    <3>1. i \in Ids
      BY DEF Ledger, Live
    <3>2. CASE i \in Ledger(txn, a)
      <4>1. i \notin dupes
        BY <1>3, <1>4, <2>1, <3>1, <3>2 DEF Ledger, Live
      <4> QED
        BY <1>3, <1>4, <3>1, <3>2, <4>1
    <3>3. CASE i \notin Ledger(txn, a)
      BY <1>4, <3>1, <3>3
    <3> QED
      BY <3>2, <3>3
  <2> QED
    BY <2>1
<1>8. \A x : Ledger(T, x) \subseteq Ids /\ Ledger(txn, x) \subseteq Ids
  BY DEF Ledger, Live
<1>9. Ledger(T, b) = (Ledger(txn, a) \ dupes) \cup Ledger(txn, b)
  BY <1>6, <1>8
<1> QED
  BY <1>1, <1>5, <1>7, <1>9 DEF dupes

\* A book, as far as the engine's order and the kinds of rows go, is its part of
\* the table.
LEMMA BookOf ==
    ASSUME NEW N, \A i \in DOMAIN N : N[i].entry = txn[i].entry /\ N[i].date = txn[i].date
    PROVE  /\ Actions(N) = {i \in DOMAIN N : IsAction(txn[i].entry)}
           /\ Buys(N) = {i \in DOMAIN N : txn[i].entry.type = "buy"}
           /\ Sells(N) = {i \in DOMAIN N : txn[i].entry.type = "sell"}
           /\ \A i \in DOMAIN N : After(N, i) = {j \in Actions(N) : Before(txn, i, j)}
<1>1. \A i, j \in DOMAIN N : Before(N, i, j) <=> Before(txn, i, j)
  BY DEF Before
<1>2. Actions(N) \subseteq DOMAIN N
  BY DEF Actions
<1> QED
  BY <1>1, <1>2 DEF Actions, Buys, Sells, After

\* A move between books that tell one story of the market moves every share.
LEMMA MoveMerges ==
    ASSUME LedgerInv, NEW a \in Accts, NEW b \in Accts \ {a}, SameMarket(a, b),
           WholeActions(a), WholeActions(b),
           NEW M, M = Book(Over(Moved(a, b), txn), b), Accepted(M)
    PROVE  OpenQty(ReplayOf(M).lots)
             = OpenQty(ReplayOf(Book(txn, a)).lots) + OpenQty(ReplayOf(Book(txn, b)).lots)
<1> DEFINE dupes == Dropped(a, b)
           T == Over(Moved(a, b), txn)
           K == Book(txn, a)
           L == Book(txn, b)
<1>1. txn \in [Ids -> Rows] /\ Sound(txn, holding)
  BY DEF LedgerInv, Tables
<1>2. /\ T \in [Ids -> Rows]
      /\ \A i \in dupes : i \in Ledger(txn, a) /\ IsAction(txn[i].entry)
      /\ Ledger(T, b) = (Ledger(txn, a) \ dupes) \cup Ledger(txn, b)
      /\ \A i \in Ledger(T, b) : T[i].entry = txn[i].entry /\ T[i].date = txn[i].date
  BY <1>1, MovedTable
<1>3. IsBook(K) /\ DOMAIN K = Ledger(txn, a) /\ \A i \in DOMAIN K : K[i] = txn[i]
  BY <1>1, TableBook
<1>4. IsBook(L) /\ DOMAIN L = Ledger(txn, b) /\ \A i \in DOMAIN L : L[i] = txn[i]
  BY <1>1, TableBook
<1>5. IsBook(M) /\ DOMAIN M = Ledger(T, b) /\ \A i \in DOMAIN M : M[i] = T[i]
  <2>1. M = Book(T, b) /\ T \in [Ids -> Rows]
    BY <1>2
  <2> HIDE DEF T
  <2> QED
    BY <2>1, TableBook
<1>6. ReplayOf(K).ok /\ ReplayOf(L).ok /\ ReplayOf(M).ok
  BY <1>1 DEF Sound, Faithful, Accepted
<1>7. DOMAIN K \cap DOMAIN L = {}
  BY <1>3, <1>4 DEF Ledger
<1>8. holding[b].there \/ DOMAIN L = {}
  BY <1>1, <1>4 DEF Sound, Faithful
<1>9. dupes = {i \in DOMAIN K : /\ IsAction(txn[i].entry)
                               /\ \E j \in DOMAIN L : Mark(j) = Mark(i)}
  BY <1>3, <1>4, <1>8 DEF Dropped, Duplicates, Mark
<1> HIDE DEF dupes, T, K, L
<1>10. DOMAIN M = (DOMAIN K \ dupes) \cup DOMAIN L /\ \A i \in dupes : IsAction(txn[i].entry)
  BY <1>2, <1>3, <1>4, <1>5
<1>11. /\ \A i \in DOMAIN K : K[i].entry = txn[i].entry /\ K[i].date = txn[i].date
       /\ \A i \in DOMAIN L : L[i].entry = txn[i].entry /\ L[i].date = txn[i].date
       /\ \A i \in DOMAIN M : M[i].entry = txn[i].entry /\ M[i].date = txn[i].date
  BY <1>2, <1>3, <1>4, <1>5
<1>12. /\ Actions(K) = {i \in DOMAIN K : IsAction(txn[i].entry)}
       /\ Buys(K) = {i \in DOMAIN K : txn[i].entry.type = "buy"}
       /\ Sells(K) = {i \in DOMAIN K : txn[i].entry.type = "sell"}
       /\ \A i \in DOMAIN K : After(K, i) = {j \in Actions(K) : Before(txn, i, j)}
  BY <1>11, BookOf
<1>13. /\ Actions(L) = {i \in DOMAIN L : IsAction(txn[i].entry)}
       /\ Buys(L) = {i \in DOMAIN L : txn[i].entry.type = "buy"}
       /\ Sells(L) = {i \in DOMAIN L : txn[i].entry.type = "sell"}
       /\ \A i \in DOMAIN L : After(L, i) = {j \in Actions(L) : Before(txn, i, j)}
  BY <1>11, BookOf
<1>14. /\ Actions(M) = {i \in DOMAIN M : IsAction(txn[i].entry)}
       /\ Buys(M) = {i \in DOMAIN M : txn[i].entry.type = "buy"}
       /\ Sells(M) = {i \in DOMAIN M : txn[i].entry.type = "sell"}
       /\ \A i \in DOMAIN M : After(M, i) = {j \in Actions(M) : Before(txn, i, j)}
  BY <1>11, BookOf
<1>15. Buys(M) = Buys(K) \cup Buys(L) /\ Sells(M) = Sells(K) \cup Sells(L)
  <2>1. \A i \in dupes : txn[i].entry.type # "buy" /\ txn[i].entry.type # "sell"
    BY <1>10 DEF IsAction
  <2> QED
    BY <1>10, <1>12, <1>13, <1>14, <2>1
<1>16. /\ \A i \in Buys(K) \cup Sells(K) : i \in DOMAIN K /\ i \in DOMAIN M /\ M[i].entry = K[i].entry
       /\ \A i \in Buys(L) \cup Sells(L) : i \in DOMAIN L /\ i \in DOMAIN M /\ M[i].entry = L[i].entry
  BY <1>11, <1>12, <1>13, <1>14, <1>15
<1>17. \E p, q : Counterpart(K, M, p) /\ Counterpart(L, M, q)
  <2>1. CASE DOMAIN L = {}
    <3> DEFINE p == [j \in Actions(K) |-> j]
    <3>1. DOMAIN M = DOMAIN K
      BY <1>9, <1>10, <2>1
    <3>2. Actions(M) = Actions(K)
      BY <1>12, <1>14, <3>1
    <3>3. \A i \in Buys(K) \cup Sells(K) : After(M, i) = {p[j] : j \in After(K, i)}
      <4>1. \A S \in SUBSET Actions(K) : {p[j] : j \in S} = S
        OBVIOUS
      <4>2. ASSUME NEW i \in Buys(K) \cup Sells(K)
            PROVE  After(M, i) = After(K, i) /\ After(K, i) \in SUBSET Actions(K)
        <5>1. i \in DOMAIN K /\ i \in DOMAIN M
          BY <1>16
        <5>2. After(K, i) = {j \in Actions(K) : Before(txn, i, j)}
          BY <1>12, <5>1
        <5>3. After(M, i) = {j \in Actions(M) : Before(txn, i, j)}
          BY <1>14, <5>1
        <5> QED
          BY <5>2, <5>3, <3>2
      <4> HIDE DEF p
      <4> QED
        BY <4>1, <4>2
    <3>4. Counterpart(K, M, p)
      BY <1>11, <1>12, <1>16, <3>1, <3>2, <3>3 DEF Counterpart
    <3>5. Actions(L) = {} /\ Buys(L) = {} /\ Sells(L) = {}
      BY <1>13, <2>1
    <3>6. Counterpart(L, M, [j \in Actions(L) |-> j])
      BY <3>5 DEF Counterpart
    <3> QED
      BY <3>4, <3>6
  <2>2. CASE DOMAIN L # {}
    <3> DEFINE q == [j \in Actions(L) |-> j]
               p == [j \in Actions(K) |-> CHOOSE k \in Actions(L) : Mark(k) = Mark(j)]
    <3>1. Marks(a) = Marks(b) /\ Once(a) /\ Once(b) /\ QuietActionDays(a, b)
      BY <1>4, <2>2 DEF SameMarket
    <3>2. /\ \A j \in Actions(K) : \E k \in Actions(L) : Mark(k) = Mark(j)
          /\ \A k \in Actions(L) : \E j \in Actions(K) : Mark(k) = Mark(j)
      <4>1. Marks(a) = {Mark(i) : i \in Actions(K)} /\ Marks(b) = {Mark(i) : i \in Actions(L)}
        BY <1>3, <1>4, <1>12, <1>13 DEF Marks
      <4>2. {Mark(i) : i \in Actions(K)} = {Mark(i) : i \in Actions(L)}
        BY <3>1, <4>1
      <4>3. ASSUME NEW j \in Actions(K) PROVE \E k \in Actions(L) : Mark(k) = Mark(j)
        <5>1. Mark(j) \in {Mark(i) : i \in Actions(L)}
          BY <4>2
        <5> QED
          BY <5>1
      <4>4. ASSUME NEW k \in Actions(L) PROVE \E j \in Actions(K) : Mark(k) = Mark(j)
        <5>1. Mark(k) \in {Mark(i) : i \in Actions(K)}
          BY <4>2
        <5> QED
          BY <5>1
      <4> QED
        BY <4>3, <4>4
    <3>3. /\ \A i, j \in Actions(K) : Mark(i) = Mark(j) => i = j
          /\ \A i, j \in Actions(L) : Mark(i) = Mark(j) => i = j
      BY <1>3, <1>4, <1>12, <1>13, <3>1 DEF Once
    <3>4. dupes = Actions(K)
      <4>1. \A j \in Actions(K) : \E k \in DOMAIN L : Mark(k) = Mark(j)
        BY <1>13, <3>2
      <4> QED
        BY <1>9, <1>12, <4>1
    <3>5. Actions(M) = Actions(L)
      BY <1>10, <1>12, <1>13, <1>14, <3>4
    <3>6. \A j \in Actions(K) : p[j] \in Actions(L) /\ Mark(p[j]) = Mark(j)
      BY <3>2
    <3>7. \A i, j \in Actions(K) : p[i] = p[j] => i = j
      BY <3>3, <3>6
    <3>8. \A i \in Buys(L) \cup Sells(L) : After(M, i) = {q[j] : j \in After(L, i)}
      <4>1. \A S \in SUBSET Actions(L) : {q[j] : j \in S} = S
        OBVIOUS
      <4>2. ASSUME NEW i \in Buys(L) \cup Sells(L)
            PROVE  After(M, i) = After(L, i) /\ After(L, i) \in SUBSET Actions(L)
        <5>1. i \in DOMAIN L /\ i \in DOMAIN M
          BY <1>16
        <5>2. After(L, i) = {j \in Actions(L) : Before(txn, i, j)}
          BY <1>13, <5>1
        <5>3. After(M, i) = {j \in Actions(M) : Before(txn, i, j)}
          BY <1>14, <5>1
        <5> QED
          BY <5>2, <5>3, <3>5
      <4> HIDE DEF q
      <4> QED
        BY <4>1, <4>2
    <3>9. Counterpart(L, M, q)
      <4>1. /\ q \in [Actions(L) -> Actions(M)] /\ \A i, j \in Actions(L) : q[i] = q[j] => i = j
            /\ \A j \in Actions(L) : q[j] = j /\ j \in DOMAIN M /\ j \in DOMAIN L
        BY <1>13, <1>14, <3>5
      <4> HIDE DEF q
      <4> QED
        BY <1>11, <1>16, <3>8, <4>1 DEF Counterpart
    <3>10. p \in [Actions(K) -> Actions(L)]
      BY <3>2
    <3> HIDE DEF p, q
    <3>11. ASSUME NEW i \in Buys(K) \cup Sells(K) PROVE After(M, i) = {p[j] : j \in After(K, i)}
      <4>1. i \in DOMAIN K /\ i \in DOMAIN M /\ IsTrade(txn[i].entry)
        BY <1>12, <1>16 DEF IsTrade
      <4>2. \A j \in Actions(K) \cup Actions(L) : txn[j].date # txn[i].date
        BY <1>3, <1>4, <1>12, <1>13, <3>1, <4>1 DEF QuietActionDays
      <4>3. \A j \in Actions(K) : txn[p[j]].date = txn[j].date
        BY <3>6 DEF Mark
      <4>4. \A j \in Actions(K) : Before(txn, i, p[j]) <=> Before(txn, i, j)
        BY <3>6, <4>2, <4>3 DEF Before
      <4>5. \A k \in Actions(L) : \E j \in Actions(K) : k = p[j]
        BY <3>2, <3>3, <3>6
      <4>6. /\ After(M, i) = {k \in Actions(L) : Before(txn, i, k)}
            /\ After(K, i) = {j \in Actions(K) : Before(txn, i, j)}
        BY <1>12, <1>14, <3>5, <4>1
      <4> QED
        BY <3>6, <4>4, <4>5, <4>6
    <3>12. Counterpart(K, M, p)
      <4>1. \A j \in Actions(K) : Times(M[p[j]].entry) = Times(K[j].entry)
        <5>1. ASSUME NEW j \in Actions(K) PROVE Times(M[p[j]].entry) = Times(K[j].entry)
          <6>1. txn[p[j]].entry.ratio = txn[j].entry.ratio
            BY <3>6 DEF Mark
          <6>2. M[p[j]].entry = txn[p[j]].entry /\ K[j].entry = txn[j].entry
            BY <1>11, <1>12, <1>14, <3>5, <3>6
          <6> QED
            BY <6>1, <6>2 DEF Times
        <5> QED
          BY <5>1
      <4>2. p \in [Actions(K) -> Actions(M)]
        BY <3>5, <3>10
      <4> QED
        BY <1>16, <3>7, <3>11, <4>1, <4>2 DEF Counterpart
    <3> QED
      BY <3>9, <3>12
  <2> QED
    BY <2>1, <2>2
<1>18. PICK p, q : Counterpart(K, M, p) /\ Counterpart(L, M, q)
  BY <1>17
<1>20. WholeBook(K) /\ WholeBook(L) /\ WholeBook(M)
  <2>1. /\ \A i \in DOMAIN K : WholeRow(txn[i].entry)
        /\ \A i \in DOMAIN L : WholeRow(txn[i].entry)
    BY <1>3, <1>4 DEF WholeActions, WholeRow
  <2>2. \A i \in DOMAIN M : WholeRow(txn[i].entry)
    BY <1>10, <2>1
  <2> QED
    BY <1>11, <2>1, <2>2 DEF WholeBook
<1>19. OpenQty(ReplayOf(M).lots) = OpenQty(ReplayOf(K).lots) + OpenQty(ReplayOf(L).lots)
  BY <1>3, <1>4, <1>5, <1>6, <1>7, <1>15, <1>18, <1>20, MergeAdds
<1> QED
  BY <1>19 DEF K, L

-----------------------------------------------------------------------------
(* Moves: what a transaction that empties an account has written. *)

\* An account without a holding has none of its numbers either, ...
Empties(H) == \A x \in DOMAIN H : H[x].there \/ H[x] = NoHolding

\* ... and a transaction that leaves one account without its holding has moved
\* that account's rows, as the tables still are, to the other one it writes.
MovesRows(rows, book) ==
    \A x \in DOMAIN book : ~book[x].there =>
        \E c \in Accts \ {x} : DOMAIN book = {x, c} /\ book[c].there /\ rows = Moved(x, c)
OpenMoves == \A h \in Slots : Open(h) => Empties(req[h].book) /\ MovesRows(req[h].rows, req[h].book)

MoveInv == LedgerInv /\ Empties(holding) /\ OpenMoves

\* A step that changes no table opens, if anything, a transaction of that kind.
LEMMA TransactMoves ==
    ASSUME MoveInv, NEW h \in Slots, NEW a \in Accts, NEW dropped, NEW rows,
           dropped = {} \/ (\E x \in Accts \ {a} : dropped = {x} /\ rows = Moved(x, a)),
           Transact(h, rows, a, dropped)
    PROVE  Empties(holding)' /\ OpenMoves'
<1> DEFINE book == Book(Over(rows, txn), a)
           hold == Over(Only(a, Materialized(book)), [b \in dropped |-> NoHolding])
           open == [pc |-> "open", rows |-> rows, book |-> hold]
<1>1. req = [k \in Slots |-> req[k]] /\ OpenMoves /\ Empties(holding)
  BY DEF MoveInv, LedgerInv, Tables
<1>2. /\ txn' = txn /\ holding' = holding
      /\ req' = [req EXCEPT ![h] = IF Accepted(book) THEN open ELSE Idle]
  BY DEF Transact
<1>3. /\ DOMAIN hold = dropped \cup {a}
      /\ hold[a] = Materialized(book)
      /\ \A b \in dropped : b # a /\ hold[b] = NoHolding
  BY DEF Over, Only
<1>4. hold[a].there /\ NoHolding.there = FALSE
  BY <1>3 DEF Materialized, NoHolding
<1> HIDE DEF hold, book
<1>5. /\ open.pc = "open" /\ open.rows = rows /\ open.book = hold /\ Idle.pc = "idle"
  BY DEF Idle
<1> HIDE DEF open
<1>6. Empties(hold) /\ MovesRows(rows, hold)
  <2>1. Empties(hold)
    BY <1>3, <1>4 DEF Empties
  <2>2. ASSUME NEW x \in DOMAIN hold, ~hold[x].there
        PROVE  \E c \in Accts \ {x} : DOMAIN hold = {x, c} /\ hold[c].there /\ rows = Moved(x, c)
    <3>1. x \in dropped /\ x # a
      BY <1>3, <1>4, <2>2
    <3>2. dropped = {x} /\ rows = Moved(x, a)
      BY <3>1
    <3>3. a \in Accts \ {x} /\ DOMAIN hold = {x, a}
      BY <1>3, <3>1, <3>2
    <3> QED
      BY <1>4, <3>2, <3>3
  <2> QED
    BY <2>1, <2>2 DEF MovesRows
<1>7. /\ req'[h] = IF Accepted(book) THEN open ELSE Idle
      /\ \A k \in Slots \ {h} : req'[k] = req[k]
  BY <1>1, <1>2
<1>8. ASSUME NEW k \in Slots, req'[k].pc = "open"
      PROVE  Empties(req'[k].book) /\ MovesRows(req'[k].rows, req'[k].book)
  <2>1. CASE k = h
    BY <1>5, <1>6, <1>7, <1>8, <2>1
  <2>2. CASE k # h
    <3>1. req'[k] = req[k]
      BY <1>7, <2>2
    <3> QED
      BY <1>1, <1>8, <3>1 DEF OpenMoves, Open
  <2> QED
    BY <2>1, <2>2
<1>9. \A x, c : Moved(x, c)' = Moved(x, c)
  BY <1>2 DEF Moved, Dropped, Duplicates, Ledger, Live
<1>10. \A k \in Slots : MovesRows(req[k].rows, req[k].book)' <=> MovesRows(req'[k].rows, req'[k].book)
  BY <1>9 DEF MovesRows
<1>11. OpenMoves'
  BY <1>8, <1>10 DEF OpenMoves, Open, Empties
<1> QED
  BY <1>1, <1>2, <1>11 DEF Empties

\* A step that changes no table and opens no transaction leaves the open ones
\* as they were.
LEMMA OtherMoves ==
    ASSUME MoveInv, UNCHANGED <<txn, holding>>,
           \A k \in Slots : req'[k].pc = "open" => req'[k] = req[k]
    PROVE  Empties(holding)' /\ OpenMoves'
<1>1. \A x, c : Moved(x, c)' = Moved(x, c)
  BY DEF Moved, Dropped, Duplicates, Ledger, Live
<1>2. ASSUME NEW k \in Slots, Open(k)' PROVE Empties(req[k].book)' /\ MovesRows(req[k].rows, req[k].book)'
  <2>1. req'[k] = req[k] /\ Open(k)
    BY <1>2 DEF Open
  <2>2. Empties(req[k].book) /\ MovesRows(req[k].rows, req[k].book)
    BY <2>1 DEF MoveInv, OpenMoves
  <2> QED
    BY <1>1, <2>1, <2>2 DEF Empties, MovesRows
<1> QED
  BY <1>2 DEF MoveInv, OpenMoves, Empties

\* A commit does not touch what another account's move has read.
LEMMA MovedStays ==
    ASSUME LedgerInv, NEW h \in Slots, Commit(h),
           NEW x \in Accts, x \notin DOMAIN req[h].book,
           NEW c \in Accts, c \notin DOMAIN req[h].book
    PROVE  Moved(x, c)' = Moved(x, c)
<1> DEFINE rows == req[h].rows
           book == req[h].book
<1>1. txn' = Over(rows, txn) /\ holding' = Over(book, holding)
  BY DEF Commit
<1>2. txn \in [Ids -> Rows] /\ DOMAIN holding = Accts /\ Fits(txn, rows, book)
  BY DEF Commit, LedgerInv, Tables, OpenOnes
<1>3. /\ \A i \in Ids : txn'[i] = IF i \in DOMAIN rows THEN rows[i] ELSE txn[i]
      /\ holding'[c] = holding[c]
  BY <1>1, <1>2 DEF Over, Fits
<1>4. ASSUME NEW y \in {x, c}
      PROVE  /\ Ledger(txn', y) = Ledger(txn, y)
             /\ \A i \in Ledger(txn, y) : txn'[i] = txn[i]
  <2>1. \A i \in DOMAIN rows : /\ ~(txn[i].st = "live" /\ txn[i].acct = y)
                               /\ ~(rows[i].st = "live" /\ rows[i].acct = y)
    BY <1>2 DEF Fits
  <2>2. DOMAIN txn = Ids /\ DOMAIN rows \subseteq Ids
    BY <1>2 DEF Fits
  <2>3. Ledger(Over(rows, txn), y) = Ledger(txn, y)
    BY <2>1, <2>2, OtherBook
  <2>4. \A i \in Ledger(txn, y) : i \in Ids /\ i \notin DOMAIN rows
    BY <2>1 DEF Ledger, Live
  <2> QED
    BY <1>1, <1>3, <2>3, <2>4
<1> HIDE DEF rows, book
<1>5. Dropped(x, c)' = Dropped(x, c)
  <2>1. Duplicates(x, c)' = Duplicates(x, c)
    BY <1>4 DEF Duplicates
  <2> QED
    BY <1>3, <2>1 DEF Dropped
<1>6. Ledger(txn, x)' = Ledger(txn, x) /\ \A i \in Ledger(txn, x) : txn'[i] = txn[i]
  BY <1>4
<1> QED
  BY <1>5, <1>6 DEF Moved

\* A commit leaves the other moves under way as they were.
LEMMA CommitMoves ==
    ASSUME Apart, MoveInv, NEW h \in Slots, Commit(h)
    PROVE  Empties(holding)' /\ OpenMoves'
<1> DEFINE book == req[h].book
<1>1. /\ LedgerInv /\ Empties(holding) /\ OpenMoves /\ Open(h)
      /\ req = [k \in Slots |-> req[k]] /\ DOMAIN holding = Accts /\ DOMAIN book \subseteq Accts
  BY DEF MoveInv, Commit, LedgerInv, Tables, OpenOnes, Fits
<1>2. holding' = Over(book, holding) /\ req' = [req EXCEPT ![h] = Idle]
  BY DEF Commit
<1>3. Empties(holding)'
  <2>1. Empties(book)
    BY <1>1 DEF OpenMoves
  <2>2. \A x \in DOMAIN holding' : /\ x \in DOMAIN book => holding'[x] = book[x]
                                   /\ x \notin DOMAIN book => x \in DOMAIN holding /\ holding'[x] = holding[x]
    BY <1>2 DEF Over
  <2> HIDE DEF book
  <2> QED
    BY <1>1, <2>1, <2>2 DEF Empties
<1>4. ASSUME NEW k \in Slots, Open(k)'
      PROVE  Empties(req[k].book)' /\ MovesRows(req[k].rows, req[k].book)'
  <2>1. k # h /\ req'[k] = req[k] /\ Open(k)
    BY <1>1, <1>2, <1>4 DEF Open, Idle
  <2>2. Empties(req[k].book) /\ MovesRows(req[k].rows, req[k].book)
    BY <1>1, <2>1 DEF OpenMoves
  <2>3. DOMAIN req[k].book \cap DOMAIN book = {} /\ DOMAIN req[k].book \subseteq Accts
    BY <1>1, <2>1 DEF Apart, Touched, Open, LedgerInv, OpenOnes, Fits
  <2>4. ASSUME NEW x \in DOMAIN req[k].book, NEW c \in DOMAIN req[k].book PROVE Moved(x, c)' = Moved(x, c)
    BY <1>1, <2>3, MovedStays
  <2>5. Empties(req[k].book)'
    BY <2>1, <2>2 DEF Empties
  <2>6. ASSUME NEW x \in DOMAIN req[k].book, ~req[k].book[x].there
        PROVE  \E c \in Accts \ {x} : DOMAIN req[k].book = {x, c} /\ req[k].book[c].there
                                      /\ req[k].rows = Moved(x, c)'
    <3>1. PICK c \in Accts \ {x} : DOMAIN req[k].book = {x, c} /\ req[k].book[c].there
                                   /\ req[k].rows = Moved(x, c)
      BY <2>2, <2>6 DEF MovesRows
    <3>2. Moved(x, c)' = Moved(x, c)
      BY <2>4, <3>1
    <3> QED
      BY <3>1, <3>2
  <2> QED
    BY <2>1, <2>5, <2>6 DEF MovesRows
<1> QED
  BY <1>3, <1>4 DEF OpenMoves

\* Every step keeps what moves rely on ...
LEMMA MoveStep == ASSUME Apart, MoveInv, [Next]_vars PROVE MoveInv'
<1>1. LedgerInv'
  BY StepKeeps DEF MoveInv
<1>2. req = [k \in Slots |-> req[k]]
  BY DEF MoveInv, LedgerInv, Tables
<1>3. ASSUME NEW h \in Slots, req' = [req EXCEPT ![h] = Idle], UNCHANGED <<txn, holding>>
      PROVE  Empties(holding)' /\ OpenMoves'
  BY <1>2, <1>3, OtherMoves DEF Idle
<1>4. ASSUME NEW h \in Slots, BeginAdd(h) PROVE Empties(holding)' /\ OpenMoves'
  BY <1>4, TransactMoves DEF BeginAdd
<1>5. ASSUME NEW h \in Slots, ReadForEdit(h) PROVE Empties(holding)' /\ OpenMoves'
  <2>1. PICK id \in Live(txn), op \in {"patch", "delete"} :
          req' = [req EXCEPT ![h] = [pc |-> op, id |-> id, acct |-> txn[id].acct]]
    BY <1>5 DEF ReadForEdit
  <2>2. UNCHANGED <<txn, holding>>
    BY <1>5 DEF ReadForEdit
  <2>3. \A k \in Slots : req'[k].pc = "open" => req'[k] = req[k]
    BY <1>2, <2>1
  <2> QED
    BY <2>2, <2>3, OtherMoves
<1>6. ASSUME NEW h \in Slots, BeginPatch(h) PROVE Empties(holding)' /\ OpenMoves'
  <2>1. CASE req[h].id \in Live(txn)
    <3>1. req[h].acct \in Accts
      BY <1>6 DEF BeginPatch, MoveInv, LedgerInv, Edits
    <3> QED
      BY <1>6, <2>1, <3>1, TransactMoves DEF BeginPatch
  <2>2. CASE req[h].id \notin Live(txn)
    BY <1>3, <1>6, <2>2 DEF BeginPatch, Refused
  <2> QED
    BY <2>1, <2>2
<1>7. ASSUME NEW h \in Slots, BeginDelete(h) PROVE Empties(holding)' /\ OpenMoves'
  <2>1. CASE req[h].id \in Live(txn)
    <3>1. req[h].acct \in Accts
      BY <1>7 DEF BeginDelete, MoveInv, LedgerInv, Edits
    <3> QED
      BY <1>7, <2>1, <3>1, TransactMoves DEF BeginDelete
  <2>2. CASE req[h].id \notin Live(txn)
    BY <1>3, <1>7, <2>2 DEF BeginDelete, Refused
  <2> QED
    BY <2>1, <2>2
<1>8. ASSUME NEW h \in Slots, BeginTransfer(h) PROVE Empties(holding)' /\ OpenMoves'
  <2>1. PICK a \in Accts : \E b \in Accts \ {a} : Transact(h, Moved(a, b), b, Emptied(a))
    BY <1>8 DEF BeginTransfer, Moved, Dropped
  <2>2. PICK b \in Accts \ {a} : Transact(h, Moved(a, b), b, {a})
    BY <2>1 DEF Emptied
  <2>3. a \in Accts \ {b}
    OBVIOUS
  <2> QED
    BY <2>2, <2>3, TransactMoves
<1>9. ASSUME NEW h \in Slots, Commit(h) PROVE Empties(holding)' /\ OpenMoves'
  BY <1>9, CommitMoves
<1>10. ASSUME NEW h \in Slots, Rollback(h) PROVE Empties(holding)' /\ OpenMoves'
  BY <1>3, <1>10 DEF Rollback, Refused
<1>11. ASSUME UNCHANGED vars PROVE Empties(holding)' /\ OpenMoves'
  <2>1. txn' = txn /\ holding' = holding /\ req' = req
    BY <1>11 DEF vars
  <2> QED
    BY <2>1, OtherMoves
<1>12. Empties(holding)' /\ OpenMoves'
  BY <1>4, <1>5, <1>6, <1>7, <1>8, <1>9, <1>10, <1>11 DEF Next
<1> QED
  BY <1>1, <1>12 DEF MoveInv

\* ... and it holds before the first request.
LEMMA MoveInit == ASSUME Init PROVE MoveInv
<1>1. \A h \in Slots : req[h].pc = "idle"
  BY DEF Init, Idle
<1>2. \A a \in DOMAIN holding : holding[a] = NoHolding
  BY DEF Init
<1> QED
  BY <1>1, <1>2, InitKeeps DEF MoveInv, Empties, OpenMoves, Open

\* An account without a holding has no shares.
LEMMA NothingOpen == ASSUME NEW L, DOMAIN L = {} PROVE OpenQty(ReplayOf(L).lots) = 0
<1>1. IsBook(L)
  BY DEF IsBook
<1>2. PICK f : Replays(f, L) /\ ReplayOf(L) = f[DOMAIN L]
  BY <1>1, ReplaySteps
<1>3. f[DOMAIN L] = Opening
  BY <1>2 DEF Replays
<1>4. ReplayOf(L).lots = <<>>
  BY <1>2, <1>3 DEF Opening
<1> QED
  BY <1>4, OpenOfNone

\* The step that makes a move visible adds the shares up.
LEMMA CommitConserves ==
    ASSUME MoveInv, NEW h \in Slots, Commit(h), NEW a \in Accts, NEW b \in Accts,
           a # b, Moves(a, b), SameMarket(a, b), WholeActions(a), WholeActions(b)
    PROVE  holding'[b].qty = holding[a].qty + holding[b].qty
<1> DEFINE book == req[h].book
           M == Book(Over(Moved(a, b), txn), b)
<1>1. /\ LedgerInv /\ Empties(holding) /\ Empties(book) /\ MovesRows(req[h].rows, book)
      /\ DOMAIN holding = Accts /\ Sound(txn, holding) /\ Fits(txn, req[h].rows, book)
  BY DEF MoveInv, Commit, LedgerInv, Tables, OpenOnes, OpenMoves
<1>2. \A x \in Accts : holding'[x] = IF x \in DOMAIN book THEN book[x] ELSE holding[x]
  <2>1. holding' = Over(book, holding)
    BY DEF Commit
  <2> QED
    BY <1>1, <2>1 DEF Over
<1>3. holding[a].there /\ ~holding'[a].there /\ holding'[b] # holding[b]
  BY DEF Moves
<1> HIDE DEF book
<1>4. a \in DOMAIN book /\ ~book[a].there /\ b \in DOMAIN book /\ holding'[b] = book[b]
  BY <1>2, <1>3
<1>5. book[b].there /\ req[h].rows = Moved(a, b)
  BY <1>1, <1>4 DEF MovesRows
<1>6. book[b] = Materialized(M) /\ Accepted(M)
  BY <1>1, <1>4, <1>5 DEF Fits, Faithful
<1>7. OpenQty(ReplayOf(M).lots)
        = OpenQty(ReplayOf(Book(txn, a)).lots) + OpenQty(ReplayOf(Book(txn, b)).lots)
  <2>1. b \in Accts \ {a}
    OBVIOUS
  <2> QED
    BY <1>1, <1>6, <2>1, MoveMerges
<1> HIDE DEF M
<1>8. \A L : Materialized(L).qty = OpenQty(ReplayOf(L).lots)
  BY DEF Materialized
<1>9. holding[a].qty = OpenQty(ReplayOf(Book(txn, a)).lots)
  BY <1>1, <1>3, <1>8 DEF Sound, Faithful
<1>10. holding[b].qty = OpenQty(ReplayOf(Book(txn, b)).lots)
  <2>1. CASE holding[b].there
    BY <1>1, <1>8, <2>1 DEF Sound, Faithful
  <2>2. CASE ~holding[b].there
    <3>1. holding[b] = NoHolding /\ Ledger(txn, b) = {}
      BY <1>1, <2>2 DEF Sound, Faithful, Empties
    <3>2. holding[b].qty = 0
      BY <3>1 DEF NoHolding
    <3>3. DOMAIN Book(txn, b) = {}
      BY <3>1 DEF Book
    <3> QED
      BY <3>2, <3>3, NothingOpen
  <2> QED
    BY <2>1, <2>2
<1> QED
  BY <1>4, <1>6, <1>7, <1>8, <1>9, <1>10

\* While overlapping requests concern different accounts, moving a position
\* between books that tell one story of the market, and whose splits and bonuses
\* all multiply by whole numbers, leaves the user as many shares as before,
\* however many sells and dropped duplicates lie between (movePositionWithinTx,
\* R1 of transfer.ts).
THEOREM MovesKeepShares == Spec /\ []Apart => MoveConserves
<1>1. Init => MoveInv
  BY MoveInit
<1>2. Apart /\ MoveInv /\ [Next]_vars => MoveInv'
  BY MoveStep
<1>3. MoveInv /\ [Next]_vars =>
        [\A a, b \in Accts :
            /\ a # b /\ Moves(a, b) /\ SameMarket(a, b)
            /\ WholeActions(a) /\ WholeActions(b)
            => holding'[b].qty = holding[a].qty + holding[b].qty]_vars
  <2> SUFFICES ASSUME MoveInv, Next, NEW a \in Accts, NEW b \in Accts,
                      a # b, Moves(a, b), SameMarket(a, b), WholeActions(a), WholeActions(b)
               PROVE  holding'[b].qty = holding[a].qty + holding[b].qty
    OBVIOUS
  <2>1. holding' # holding
    BY DEF Moves
  <2>2. PICK h \in Slots : Commit(h)
    BY <2>1 DEF Next, BeginAdd, ReadForEdit, BeginPatch, BeginDelete, BeginTransfer, Rollback, Refused, Transact
  <2> QED
    BY <2>2, CommitConserves
<1> QED
  BY <1>1, <1>2, <1>3, PTL DEF Spec, MoveConserves

-----------------------------------------------------------------------------
(* Which lots are open: the youngest.  A sell takes from the lots of the
   oldest rows, so what is open of all rows up to some row is what was bought
   by then less all that was ever sold. *)

\* The shares of each lot that comes from a row in D.
SharesIn(lots, D) == [k \in 1 .. Len(lots) |-> IF lots[k].src \in D THEN lots[k].qty ELSE 0]

\* They are numbers, ...
LEMMA SharesInType ==
    ASSUME NEW C \in SUBSET Int, NEW I, NEW lots \in Seq(Lot(C, I)), NEW D
    PROVE  SharesIn(lots, D) \in [1 .. Len(lots) -> Int]
           /\ \A k \in 1 .. Len(lots) : SharesIn(lots, D)[k] >= 0
<1>1. \A k \in 1 .. Len(lots) : lots[k] \in Lot(C, I)
  OBVIOUS
<1>2. \A k \in 1 .. Len(lots) : lots[k].qty \in Nat
  BY <1>1 DEF Lot
<1> QED
  BY <1>2 DEF SharesIn

\* ... and OpenIn is their sum.
LEMMA OpenInSteps ==
    ASSUME NEW C \in SUBSET Int, NEW I, NEW lots \in Seq(Lot(C, I)), NEW D
    PROVE  \E f : Sums(f, Len(lots), SharesIn(lots, D)) /\ OpenIn(lots, D) = f[Len(lots)]
<1> DEFINE n == Len(lots)
           w == SharesIn(lots, D)
           G(f) == [s \in SUBSET (1 .. n) |-> IF s = {} THEN 0 ELSE f[s \ {Max(s)}] + w[Max(s)]]
           H(f) == [s \in SUBSET DOMAIN lots |->
                       IF s = {} THEN 0
                       ELSE f[s \ {Max(s)}] + (IF lots[Max(s)].src \in D THEN lots[Max(s)].qty ELSE 0)]
           after == CHOOSE f : f = H(f)
<1>1. n \in Nat /\ DOMAIN lots = 1 .. n /\ w \in [1 .. n -> Int]
  BY SharesInType
<1>2. \A s \in SUBSET (1 .. n) :
        s # {} => w[Max(s)] = IF lots[Max(s)].src \in D THEN lots[Max(s)].qty ELSE 0
  BY <1>1, MaxIsLast DEF SharesIn
<1>3. \A f : G(f) = H(f)
  <2> HIDE DEF w, n
  <2> QED
    BY <1>1, <1>2
<1>4. \E f : f = G(f)
  <2>1. \E f : IsSum(f, n, w)
    <3> HIDE DEF n, w
    <3> QED
      BY <1>1, SumExists
  <2> QED
    BY <2>1 DEF IsSum
<1>5. after = H(after)
  <2>1. \E f : f = H(f)
    <3> HIDE DEF G, H
    <3> QED
      BY <1>3, <1>4
  <2> HIDE DEF H
  <2> QED
    BY <2>1
<1>6. OpenIn(lots, D) = after[DOMAIN lots]
  BY DEF OpenIn, FoldLeft, MapThenFoldSet
<1>7. IsSum(after, n, w)
  BY <1>3, <1>5 DEF IsSum
<1> DEFINE f == [k \in 0 .. n |-> after[1 .. k]]
<1>8. Sums(f, n, w)
  <2> HIDE DEF n, w, after
  <2> QED
    BY <1>1, <1>7, SumSteps
<1>9. f[n] = OpenIn(lots, D)
  BY <1>1, <1>6
<1> QED
  BY <1>8, <1>9

\* Nothing comes from an empty register, ...
LEMMA OpenInNone == ASSUME NEW D PROVE OpenIn(<<>>, D) = 0
<1>1. <<>> \in Seq(Lot(Int, {})) /\ Len(<<>>) = 0
  OBVIOUS
<1>2. \E f : Sums(f, Len(<<>>), SharesIn(<<>>, D)) /\ OpenIn(<<>>, D) = f[Len(<<>>)]
  BY <1>1, OpenInSteps
<1> QED
  BY <1>1, <1>2 DEF Sums

\* ... no lot owes shares, ...
LEMMA OpenInIsNat ==
    ASSUME NEW C \in SUBSET Int, NEW I, NEW lots \in Seq(Lot(C, I)), NEW D
    PROVE  OpenIn(lots, D) \in Nat
<1> DEFINE n == Len(lots)
           w == SharesIn(lots, D)
<1>1. PICK f : Sums(f, n, w) /\ OpenIn(lots, D) = f[n]
  BY OpenInSteps
<1>2. n \in Nat /\ w \in [1 .. n -> Int] /\ \A k \in 1 .. n : w[k] >= 0
  BY SharesInType
<1> HIDE DEF n, w
<1> DEFINE Good == {k \in 0 .. n : f[k] \in Nat}
<1>3. 0 \in Good
  BY <1>1, <1>2 DEF Sums
<1>4. ASSUME NEW k \in 0 .. n - 1, k \in Good PROVE k + 1 \in Good
  <2>1. k + 1 \in 1 .. n /\ k + 1 \in 0 .. n /\ (k + 1) - 1 = k
    BY <1>2
  <2>2. f[k + 1] = f[k] + w[k + 1] /\ w[k + 1] \in Int /\ w[k + 1] >= 0
    BY <1>1, <1>2, <2>1 DEF Sums
  <2>3. f[k] \in Nat
    BY <1>4
  <2>4. f[k + 1] \in Nat
    BY <2>2, <2>3
  <2> QED
    BY <2>1, <2>4
<1> HIDE DEF Good
<1>5. 0 .. n \subseteq Good
  BY <1>2, <1>3, <1>4, UpTo
<1> QED
  BY <1>1, <1>2, <1>5 DEF Good

\* ... and a lot appended counts if it comes from D.
LEMMA OpenInAppend ==
    ASSUME NEW C \in SUBSET Int, NEW I, NEW lots \in Seq(Lot(C, I)), NEW lot \in Lot(C, I), NEW D
    PROVE  OpenIn(Append(lots, lot), D) = OpenIn(lots, D) + (IF lot.src \in D THEN lot.qty ELSE 0)
<1> DEFINE more == Append(lots, lot)
           n == Len(lots)
           w == SharesIn(lots, D)
           v == SharesIn(more, D)
<1>1. more \in Seq(Lot(C, I)) /\ n \in Nat /\ Len(more) = n + 1 /\ more[n + 1] = lot
      /\ \A k \in 1 .. n : more[k] = lots[k]
  OBVIOUS
<1>2. n \in 0 .. n /\ n + 1 \in 1 .. n + 1 /\ (n + 1) - 1 = n /\ \A k \in 1 .. n : k \in 1 .. n + 1
  BY <1>1
<1>3. PICK f : Sums(f, n, w) /\ OpenIn(lots, D) = f[n]
  BY OpenInSteps
<1>4. PICK g : Sums(g, n + 1, v) /\ OpenIn(more, D) = g[n + 1]
  BY <1>1, OpenInSteps
<1>5. (\A k \in 1 .. n : w[k] = v[k]) /\ v[n + 1] = IF lot.src \in D THEN lot.qty ELSE 0
  <2> HIDE DEF more
  <2> QED
    BY <1>1, <1>2 DEF SharesIn
<1> HIDE DEF w, v, more, n
<1>6. f[n] = g[n]
  BY <1>1, <1>2, <1>3, <1>4, <1>5, SumsAgree
<1>7. g[n + 1] = g[n] + v[n + 1]
  BY <1>2, <1>4 DEF Sums
<1> QED
  BY <1>3, <1>4, <1>5, <1>6, <1>7 DEF more

\* If every lot comes from D, OpenIn is all that is open.
LEMMA OpenInAll ==
    ASSUME NEW C \in SUBSET Int, NEW I, NEW lots \in Seq(Lot(C, I)), NEW D,
           \A k \in 1 .. Len(lots) : lots[k].src \in D
    PROVE  OpenIn(lots, D) = OpenQty(lots)
<1> DEFINE n == Len(lots)
           w == SharesIn(lots, D)
           v == [k \in 1 .. n |-> lots[k].qty]
<1>1. PICK f : Sums(f, n, w) /\ OpenIn(lots, D) = f[n]
  BY OpenInSteps
<1>2. PICK g : Sums(g, n, v) /\ OpenQty(lots) = g[n]
  BY OpenQtySteps
<1>3. n \in Nat /\ n \in 0 .. n /\ \A k \in 1 .. n : w[k] = v[k]
  BY DEF SharesIn
<1> HIDE DEF n, w, v
<1>4. f[n] = g[n]
  BY <1>1, <1>2, <1>3, SumsAgree
<1> QED
  BY <1>1, <1>2, <1>4

\* What comes from one more row is added.
LEMMA OpenInSplit ==
    ASSUME NEW C \in SUBSET Int, NEW I, NEW lots \in Seq(Lot(C, I)), NEW D, NEW i, i \notin D
    PROVE  OpenIn(lots, D \cup {i}) = OpenIn(lots, D) + OpenIn(lots, {i})
<1> DEFINE n == Len(lots)
           w == SharesIn(lots, D)
           u == SharesIn(lots, {i})
           v == SharesIn(lots, D \cup {i})
<1>1. PICK f : Sums(f, n, w) /\ OpenIn(lots, D) = f[n]
  BY OpenInSteps
<1>2. PICK e : Sums(e, n, u) /\ OpenIn(lots, {i}) = e[n]
  BY OpenInSteps
<1>3. PICK g : Sums(g, n, v) /\ OpenIn(lots, D \cup {i}) = g[n]
  BY OpenInSteps
<1>4. /\ n \in Nat /\ w \in [1 .. n -> Int] /\ u \in [1 .. n -> Int]
  BY SharesInType
<1>5. ASSUME NEW k \in 1 .. n PROVE v[k] = w[k] + u[k]
  <2>1. lots[k] \in Lot(C, I)
    OBVIOUS
  <2>2. lots[k].qty \in Int
    BY <2>1 DEF Lot
  <2> QED
    BY <2>2 DEF SharesIn
<1> HIDE DEF n, w, u, v
<1> DEFINE Good == {k \in 0 .. n : g[k] = f[k] + e[k]}
<1>6. 0 \in Good
  BY <1>1, <1>2, <1>3, <1>4 DEF Sums
<1>7. ASSUME NEW k \in 0 .. n - 1, k \in Good PROVE k + 1 \in Good
  <2>1. k + 1 \in 1 .. n /\ k + 1 \in 0 .. n /\ (k + 1) - 1 = k /\ k \in 0 .. n
    BY <1>4
  <2>2. f[k + 1] = f[k] + w[k + 1] /\ e[k + 1] = e[k] + u[k + 1] /\ g[k + 1] = g[k] + v[k + 1]
    BY <1>1, <1>2, <1>3, <2>1 DEF Sums
  <2>3. f[k] \in Int /\ e[k] \in Int /\ w[k + 1] \in Int /\ u[k + 1] \in Int
    BY <1>1, <1>2, <1>4, <2>1 DEF Sums
  <2>4. g[k] = f[k] + e[k] /\ v[k + 1] = w[k + 1] + u[k + 1]
    BY <1>5, <1>7, <2>1
  <2>5. g[k + 1] = f[k + 1] + e[k + 1]
    BY <2>2, <2>3, <2>4
  <2> QED
    BY <2>1, <2>5
<1> HIDE DEF Good
<1>8. 0 .. n \subseteq Good
  BY <1>4, <1>6, <1>7, UpTo
<1>9. n \in Good
  BY <1>4, <1>8
<1> QED
  BY <1>1, <1>2, <1>3, <1>9 DEF Good

\* n less m, but never below nothing.
Beyond(n, m) == IF n <= m THEN 0 ELSE n - m

\* Every two lots stand in the order P.
LotsIn(lots, P) == \A k, l \in 1 .. Len(lots) : k < l => <<lots[k].src, lots[l].src>> \in P
\* The lots of the rows in D come before all others.
Leads(lots, D) == \A k, l \in 1 .. Len(lots) : k < l /\ lots[l].src \in D => lots[k].src \in D

\* A lot appended behind those it follows keeps the order.
LEMMA AppendInOrder ==
    ASSUME NEW C, NEW I, NEW lots \in Seq(Lot(C, I)), NEW lot \in Lot(C, I), NEW P, LotsIn(lots, P),
           \A k \in 1 .. Len(lots) : <<lots[k].src, lot.src>> \in P
    PROVE  LotsIn(Append(lots, lot), P)
<1> DEFINE more == Append(lots, lot)
           n == Len(lots)
<1>1. n \in Nat /\ Len(more) = n + 1 /\ more[n + 1] = lot /\ \A k \in 1 .. n : more[k] = lots[k]
  OBVIOUS
<1> HIDE DEF more
<1>2. ASSUME NEW k \in 1 .. n + 1, NEW l \in 1 .. n + 1, k < l
      PROVE  <<more[k].src, more[l].src>> \in P
  <2>1. k \in 1 .. n /\ more[k] = lots[k]
    BY <1>1, <1>2
  <2>2. CASE l = n + 1
    BY <1>1, <2>1, <2>2
  <2>3. CASE l # n + 1
    <3>1. l \in 1 .. n /\ more[l] = lots[l]
      BY <1>1, <2>3
    <3> QED
      BY <1>2, <2>1, <3>1 DEF LotsIn
  <2> QED
    BY <2>2, <2>3
<1> QED
  BY <1>1, <1>2 DEF LotsIn, more

\* One lot leaves rest of its shares behind in a sell that goes from acc to next.
Leaves(C, I, acc, lot, rest, next) ==
    /\ rest = Beyond(lot.qty, acc.left)
    /\ next.left = Beyond(acc.left, lot.qty)
    /\ rest = 0 => next.lots = acc.lots
    /\ rest # 0 => \E left \in Lot(C, I) :
                      left.src = lot.src /\ left.qty = rest /\ next.lots = Append(acc.lots, left)

\* Consume does that.
LEMMA ConsumeLeaves ==
    ASSUME NEW C \in SUBSET Int, NEW I, NEW price \in Int, NEW acc \in Selling(C, I), NEW lot \in Lot(C, I)
    PROVE  Leaves(C, I, acc, lot, Beyond(lot.qty, acc.left), Consume(price, acc, lot))
<1> DEFINE n == Consumed(lot, acc.left)
           next == Consume(price, acc, lot)
           rest == [lot EXCEPT !.qty = @ - n]
           gain == acc.gain + (price - lot.cost) * n
<1>1. acc.left \in Nat /\ lot.qty \in Nat /\ lot.qty > 0
  BY DEF Selling, Lot
<1>2. n \in Nat /\ Beyond(lot.qty, acc.left) = lot.qty - n /\ Beyond(acc.left, lot.qty) = acc.left - n
  BY <1>1 DEF Consumed, Beyond
<1>3. n # lot.qty => lot.qty - n \in Nat \ {0}
  BY <1>1 DEF Consumed
<1> HIDE DEF n
<1>4. next = [left |-> acc.left - n, gain |-> gain,
              lots |-> IF n = lot.qty THEN acc.lots ELSE Append(acc.lots, rest)]
  BY DEF Consume, n
<1> HIDE DEF next, gain
<1>5. next.left = acc.left - n /\ next.lots = IF n = lot.qty THEN acc.lots ELSE Append(acc.lots, rest)
  BY <1>4
<1>6. n # lot.qty => rest \in Lot(C, I) /\ rest.src = lot.src /\ rest.qty = lot.qty - n
  BY <1>3 DEF Lot
<1> HIDE DEF rest
<1>7. Beyond(lot.qty, acc.left) = 0 <=> n = lot.qty
  BY <1>1, <1>2
<1> DEFINE r == Beyond(lot.qty, acc.left)
<1>8. r = Beyond(lot.qty, acc.left) /\ next.left = Beyond(acc.left, lot.qty)
  BY <1>2, <1>5
<1>9. r = 0 => next.lots = acc.lots
  BY <1>5, <1>7
<1>10. r # 0 => \E left \in Lot(C, I) : left.src = lot.src /\ left.qty = r /\ next.lots = Append(acc.lots, left)
  <2>1. ASSUME r # 0 PROVE \E left \in Lot(C, I) : left.src = lot.src /\ left.qty = r /\ next.lots = Append(acc.lots, left)
    <3>1. n # lot.qty
      BY <1>7, <2>1
    <3>2. rest \in Lot(C, I) /\ rest.src = lot.src /\ rest.qty = r /\ next.lots = Append(acc.lots, rest)
      BY <1>2, <1>5, <1>6, <3>1
    <3> QED
      BY <3>2
  <2> QED
    BY <2>1
<1> HIDE DEF r
<1>11. Leaves(C, I, acc, lot, r, next)
  BY <1>8, <1>9, <1>10 DEF Leaves
<1> QED
  BY <1>11 DEF next, r

\* A sell keeps the lots it leaves in order.
LEMMA SellInOrder ==
    ASSUME NEW C \in SUBSET Int, NEW I, NEW lots \in Seq(Lot(C, I)), NEW price \in Int, NEW shares \in Nat,
           NEW P, LotsIn(lots, P)
    PROVE  LotsIn(Sold(lots, price, shares).lots, P)
<1> DEFINE n == Len(lots)
           Kept(k, x) == \A m \in 1 .. Len(x) : \E j \in 1 .. k : x[m].src = lots[j].src
<1>1. PICK f : SellSteps(C, I, f, lots, price, shares) /\ f[n] = Sold(lots, price, shares)
  BY SellIsSteps
<1>2. /\ f \in [0 .. n -> Selling(C, I)] /\ f[0] = [left |-> shares, gain |-> 0, lots |-> <<>>]
      /\ \A k \in 1 .. n : f[k] = Consume(price, f[k - 1], lots[k])
  BY <1>1 DEF SellSteps
<1>3. n \in Nat /\ \A k \in 1 .. n : lots[k] \in Lot(C, I)
  OBVIOUS
<1>4. \A k, l \in 1 .. n : k < l => <<lots[k].src, lots[l].src>> \in P
  BY DEF LotsIn
<1> HIDE DEF n
<1> DEFINE Good == {k \in 0 .. n : LotsIn(f[k].lots, P) /\ Kept(k, f[k].lots)}
<1>5. 0 \in Good
  <2>1. f[0].lots = <<>> /\ 0 \in 0 .. n
    BY <1>2, <1>3
  <2> QED
    BY <2>1 DEF LotsIn
<1>6. ASSUME NEW k \in 0 .. n - 1, k \in Good PROVE k + 1 \in Good
  <2> DEFINE lot == lots[k + 1]
             acc == f[k]
             next == f[k + 1]
             rest == Beyond(lot.qty, acc.left)
  <2>1. k + 1 \in 1 .. n /\ k + 1 \in 0 .. n /\ (k + 1) - 1 = k /\ k \in 0 .. n
    BY <1>3
  <2>2. acc \in Selling(C, I) /\ lot \in Lot(C, I) /\ next = Consume(price, acc, lot)
    BY <1>2, <1>3, <2>1
  <2>3. LotsIn(acc.lots, P) /\ Kept(k, acc.lots)
    BY <1>6
  <2>4. acc.lots \in Seq(Lot(C, I))
    BY <2>2 DEF Selling
  <2>r. rest = Beyond(lot.qty, acc.left)
    OBVIOUS
  <2> HIDE DEF rest, acc, next
  <2>5. Leaves(C, I, acc, lot, rest, next)
    BY <2>2, <2>r, ConsumeLeaves
  <2>6. CASE rest = 0
    <3>1. next.lots = acc.lots
      BY <2>5, <2>6 DEF Leaves
    <3>2. Kept(k + 1, acc.lots)
      BY <1>3, <2>1, <2>3
    <3> QED
      BY <2>1, <2>3, <3>1, <3>2 DEF next
  <2>7. CASE rest # 0
    <3>1. PICK left \in Lot(C, I) : left.src = lot.src /\ next.lots = Append(acc.lots, left)
      BY <2>5, <2>7 DEF Leaves
    <3>2. ASSUME NEW m \in 1 .. Len(acc.lots) PROVE <<acc.lots[m].src, left.src>> \in P
      <4>1. PICK j \in 1 .. k : acc.lots[m].src = lots[j].src
        BY <2>3
      <4>2. j \in 1 .. n /\ j < k + 1
        BY <1>3, <2>1
      <4> QED
        BY <1>4, <2>1, <3>1, <4>1, <4>2
    <3>3. LotsIn(next.lots, P)
      BY <2>3, <2>4, <3>1, <3>2, AppendInOrder
    <3>4. Kept(k + 1, next.lots)
      <4>1. ASSUME NEW m \in 1 .. Len(acc.lots) + 1
            PROVE  \E j \in 1 .. k + 1 : Append(acc.lots, left)[m].src = lots[j].src
        <5>1. CASE m = Len(acc.lots) + 1
          <6>1. Append(acc.lots, left)[m].src = lots[k + 1].src /\ k + 1 \in 1 .. k + 1
            BY <2>1, <2>4, <3>1, <5>1
          <6> QED
            BY <6>1
        <5>2. CASE m # Len(acc.lots) + 1
          <6>1. m \in 1 .. Len(acc.lots) /\ Append(acc.lots, left)[m] = acc.lots[m]
            BY <2>4, <5>2
          <6>2. PICK j \in 1 .. k : acc.lots[m].src = lots[j].src
            BY <2>3, <6>1
          <6>3. j \in 1 .. k + 1
            BY <2>1
          <6> QED
            BY <6>1, <6>2, <6>3
        <5> QED
          BY <5>1, <5>2
      <4>2. Len(Append(acc.lots, left)) = Len(acc.lots) + 1
        BY <2>4
      <4> QED
        BY <3>1, <4>1, <4>2
    <3> QED
      BY <2>1, <3>3, <3>4 DEF next
  <2> QED
    BY <2>6, <2>7
<1> HIDE DEF Good
<1>7. 0 .. n \subseteq Good
  BY <1>3, <1>5, <1>6, UpTo
<1>8. LotsIn(f[n].lots, P)
  BY <1>3, <1>7 DEF Good
<1> QED
  BY <1>1, <1>8 DEF n

\* A sell takes from the lots that come first.
LEMMA SellTakesOldest ==
    ASSUME NEW C \in SUBSET Int, NEW I, NEW lots \in Seq(Lot(C, I)), NEW price \in Int, NEW shares \in Nat,
           NEW D, Leads(lots, D)
    PROVE  OpenIn(Sold(lots, price, shares).lots, D) = Beyond(OpenIn(lots, D), shares)
<1> DEFINE n == Len(lots)
           w == SharesIn(lots, D)
           First(k) == \A j \in 1 .. k : lots[j].src \in D
<1>1. PICK f : SellSteps(C, I, f, lots, price, shares) /\ f[n] = Sold(lots, price, shares)
  BY SellIsSteps
<1>2. PICK q : Sums(q, n, w) /\ OpenIn(lots, D) = q[n]
  BY OpenInSteps
<1>3. /\ f \in [0 .. n -> Selling(C, I)] /\ f[0] = [left |-> shares, gain |-> 0, lots |-> <<>>]
      /\ \A k \in 1 .. n : f[k] = Consume(price, f[k - 1], lots[k])
  BY <1>1 DEF SellSteps
<1>4. n \in Nat /\ \A k \in 1 .. n : lots[k] \in Lot(C, I)
  OBVIOUS
<1>5. ASSUME NEW k \in 1 .. n
      PROVE  w[k] = (IF lots[k].src \in D THEN lots[k].qty ELSE 0) /\ (lots[k].src \in D => First(k))
  <2>1. w[k] = IF lots[k].src \in D THEN lots[k].qty ELSE 0
    BY DEF SharesIn
  <2>2. ASSUME lots[k].src \in D, NEW j \in 1 .. k PROVE lots[j].src \in D
    <3>1. j \in 1 .. n /\ (j < k \/ j = k)
      BY <1>4
    <3> QED
      BY <2>2, <3>1 DEF Leads
  <2> QED
    BY <2>1, <2>2
<1> HIDE DEF n, w
<1>6. /\ q \in [0 .. n -> Int] /\ q[0] = 0
      /\ \A k \in 1 .. n : q[k] = q[k - 1] + (IF lots[k].src \in D THEN lots[k].qty ELSE 0)
  BY <1>2, <1>5 DEF Sums
<1> DEFINE Reached(k) == /\ OpenIn(f[k].lots, D) = Beyond(q[k], shares)
                         /\ First(k) => f[k].left = Beyond(shares, q[k])
           Good == {k \in 0 .. n : q[k] >= 0 /\ Reached(k)}
<1>7. 0 \in Good
  <2>1. Beyond(0, shares) = 0 /\ Beyond(shares, 0) = shares
    BY DEF Beyond
  <2>2. f[0].lots = <<>> /\ f[0].left = shares /\ q[0] = 0 /\ 0 \in 0 .. n
    BY <1>3, <1>4, <1>6
  <2>3. OpenIn(<<>>, D) = 0
    BY OpenInNone
  <2> QED
    BY <2>1, <2>2, <2>3
<1>8. ASSUME NEW k \in 0 .. n - 1, k \in Good PROVE k + 1 \in Good
  <2> DEFINE lot == lots[k + 1]
             acc == f[k]
             next == f[k + 1]
             rest == Beyond(lot.qty, acc.left)
             open == OpenIn(acc.lots, D)
             after == OpenIn(next.lots, D)
             r == q[k]
             t == q[k + 1]
  <2>1. k + 1 \in 1 .. n /\ k + 1 \in 0 .. n /\ (k + 1) - 1 = k /\ k \in 0 .. n
    BY <1>4
  <2>2. acc \in Selling(C, I) /\ lot \in Lot(C, I) /\ next = Consume(price, acc, lot)
    BY <1>3, <1>4, <2>1
  <2>3. r \in Int /\ r >= 0 /\ t = r + (IF lot.src \in D THEN lot.qty ELSE 0)
    BY <1>6, <1>8, <2>1
  <2>4. open = Beyond(r, shares) /\ (First(k) => acc.left = Beyond(shares, r))
    BY <1>8
  <2>5. lot.src \in D => First(k)
    <3>1. lot.src \in D => First(k + 1)
      BY <1>5, <2>1
    <3>2. \A j \in 1 .. k : j \in 1 .. k + 1
      BY <2>1
    <3> QED
      BY <3>1, <3>2
  <2>6. First(k + 1) => lot.src \in D
    <3>1. k + 1 \in 1 .. k + 1
      BY <2>1
    <3> QED
      BY <3>1
  <2>7. acc.left \in Nat /\ lot.qty \in Nat /\ lot.qty > 0 /\ acc.lots \in Seq(Lot(C, I))
    BY <2>2 DEF Selling, Lot
  <2>r. rest = Beyond(lot.qty, acc.left)
    OBVIOUS
  <2>s. open = OpenIn(acc.lots, D) /\ after = OpenIn(next.lots, D)
    OBVIOUS
  <2>8. open \in Int
    BY <2>7, OpenInIsNat
  <2> HIDE DEF rest, acc, next, open, after, lot, First
  <2>9. Leaves(C, I, acc, lot, rest, next)
    BY <2>2, <2>r, ConsumeLeaves
  <2>10. rest \in Nat /\ after = open + (IF lot.src \in D THEN rest ELSE 0)
    <3>1. rest \in Nat
      BY <2>7, <2>r DEF Beyond
    <3>2. CASE rest = 0
      <4>1. next.lots = acc.lots
        BY <2>9, <3>2 DEF Leaves
      <4> QED
        BY <2>8, <2>s, <3>2, <4>1
    <3>3. CASE rest # 0
      <4>1. PICK left \in Lot(C, I) : left.src = lot.src /\ left.qty = rest /\ next.lots = Append(acc.lots, left)
        BY <2>9, <3>3 DEF Leaves
      <4>2. after = open + (IF left.src \in D THEN left.qty ELSE 0)
        BY <2>7, <2>s, <4>1, OpenInAppend
      <4> QED
        BY <3>1, <4>1, <4>2
    <3> QED
      BY <3>1, <3>2, <3>3
  <2>11. next.left = Beyond(acc.left, lot.qty)
    BY <2>9 DEF Leaves
  <2> HIDE DEF r, t
  <2>12. t \in Int /\ t >= 0
    BY <2>3, <2>7
  <2>13. after = Beyond(t, shares) /\ (First(k + 1) => next.left = Beyond(shares, t))
    <3>1. CASE lot.src \in D
      <4>1. acc.left = Beyond(shares, r) /\ after = open + rest /\ t = r + lot.qty
        BY <2>3, <2>4, <2>5, <2>10, <3>1
      <4>2. open + rest = Beyond(t, shares) /\ next.left = Beyond(shares, t)
        BY <2>3, <2>4, <2>7, <2>r, <2>11, <4>1 DEF Beyond
      <4> QED
        BY <4>1, <4>2
    <3>2. CASE lot.src \notin D
      <4>1. after = open /\ t = r /\ ~First(k + 1)
        BY <2>3, <2>6, <2>8, <2>10, <3>2
      <4> QED
        BY <2>4, <4>1
    <3> QED
      BY <3>1, <3>2
  <2> QED
    BY <2>1, <2>12, <2>13 DEF t, after, next
<1> HIDE DEF Good
<1>9. 0 .. n \subseteq Good
  BY <1>4, <1>7, <1>8, UpTo
<1>10. OpenIn(f[n].lots, D) = Beyond(q[n], shares)
  BY <1>4, <1>9 DEF Good
<1> QED
  BY <1>1, <1>2, <1>10
\* Of lots, more has whole tails: a lot and all that stand behind it.
HasTails(lots, more) ==
    \A m \in 1 .. Len(more) : \E j \in 1 .. Len(lots) :
        /\ more[m].src = lots[j].src
        /\ \A i \in j .. Len(lots) : \E l \in 1 .. Len(more) : more[l].src = lots[i].src

\* Behind a lot that a sell leaves all lots are left: the sell has found its
\* shares by then.
LEMMA SellKeepsYounger ==
    ASSUME NEW C \in SUBSET Int, NEW I, NEW lots \in Seq(Lot(C, I)), NEW price \in Int, NEW shares \in Nat,
           NEW more, more = Sold(lots, price, shares).lots
    PROVE  HasTails(lots, more)
<1> DEFINE n == Len(lots)
           Has(x, i) == \E l \in 1 .. Len(x) : x[l].src = lots[i].src
           From(k, x) == \A m \in 1 .. Len(x) : \E j \in 1 .. k :
                             x[m].src = lots[j].src /\ \A i \in j .. k : Has(x, i)
<1>1. PICK f : SellSteps(C, I, f, lots, price, shares) /\ f[n] = Sold(lots, price, shares)
  BY SellIsSteps
<1>2. /\ f \in [0 .. n -> Selling(C, I)] /\ f[0] = [left |-> shares, gain |-> 0, lots |-> <<>>]
      /\ \A k \in 1 .. n : f[k] = Consume(price, f[k - 1], lots[k])
  BY <1>1 DEF SellSteps
<1>3. n \in Nat /\ \A k \in 1 .. n : lots[k] \in Lot(C, I)
  OBVIOUS
<1> HIDE DEF n
<1> DEFINE Good == {k \in 0 .. n : (f[k].lots # <<>> => f[k].left = 0) /\ From(k, f[k].lots)}
<1>4. 0 \in Good
  <2>1. f[0].lots = <<>> /\ 0 \in 0 .. n /\ Len(<<>>) = 0
    BY <1>2, <1>3
  <2> QED
    BY <2>1
<1>5. ASSUME NEW k \in 0 .. n - 1, k \in Good PROVE k + 1 \in Good
  <2> DEFINE lot == lots[k + 1]
             acc == f[k]
             next == f[k + 1]
             rest == Beyond(lot.qty, acc.left)
             x == acc.lots
  <2>1. k + 1 \in 1 .. n /\ k + 1 \in 0 .. n /\ (k + 1) - 1 = k /\ k \in 0 .. n
    BY <1>3
  <2>2. acc \in Selling(C, I) /\ lot \in Lot(C, I) /\ next = Consume(price, acc, lot)
    BY <1>2, <1>3, <2>1
  <2>3. (x # <<>> => acc.left = 0) /\ From(k, x)
    BY <1>5
  <2>4. x \in Seq(Lot(C, I)) /\ acc.left \in Nat /\ lot.qty \in Nat /\ lot.qty > 0
    BY <2>2 DEF Selling, Lot
  <2>r. rest = Beyond(lot.qty, acc.left)
    OBVIOUS
  <2> HIDE DEF rest, acc, next
  <2>5. Leaves(C, I, acc, lot, rest, next)
    BY <2>2, <2>r, ConsumeLeaves
  <2>6. CASE rest = 0
    <3>1. x = <<>>
      BY <2>3, <2>4, <2>6, <2>r DEF Beyond
    <3>2. next.lots = <<>> /\ Len(<<>>) = 0
      BY <2>5, <2>6, <3>1 DEF Leaves
    <3> QED
      BY <2>1, <3>2 DEF next
  <2>7. CASE rest # 0
    <3>1. PICK left \in Lot(C, I) : left.src = lot.src /\ next.lots = Append(x, left)
      BY <2>5, <2>7 DEF Leaves
    <3> DEFINE y == Append(x, left)
               p == Len(x)
    <3>2. p \in Nat /\ Len(y) = p + 1 /\ y[p + 1] = left /\ \A m \in 1 .. p : y[m] = x[m]
      BY <2>4
    <3>3. next.left = 0
      BY <2>4, <2>5, <2>7, <2>r DEF Leaves, Beyond
    <3> HIDE DEF y, x, lot
    <3>4. p + 1 \in 1 .. Len(y) /\ y[p + 1].src = lots[k + 1].src
      BY <3>1, <3>2 DEF lot
    <3>5. Has(y, k + 1)
      BY <3>4
    <3>6. ASSUME NEW m \in 1 .. Len(y)
          PROVE  \E j \in 1 .. k + 1 : y[m].src = lots[j].src /\ \A i \in j .. k + 1 : Has(y, i)
      <4>1. CASE m = p + 1
        <5>1. k + 1 \in 1 .. k + 1 /\ \A i \in (k + 1) .. (k + 1) : i = k + 1
          BY <2>1
        <5> QED
          BY <3>4, <3>5, <4>1, <5>1
      <4>2. CASE m # p + 1
        <5>1. m \in 1 .. p /\ y[m] = x[m]
          BY <3>2, <4>2
        <5>2. PICK j \in 1 .. k : x[m].src = lots[j].src /\ \A i \in j .. k : Has(x, i)
          BY <2>3, <5>1
        <5>3. ASSUME NEW i \in j .. k + 1 PROVE Has(y, i)
          <6>1. CASE i = k + 1
            BY <3>5, <6>1
          <6>2. CASE i # k + 1
            <7>1. i \in j .. k
              BY <2>1, <6>2
            <7>2. PICK l \in 1 .. p : x[l].src = lots[i].src
              BY <5>2, <7>1
            <7>3. l \in 1 .. Len(y) /\ y[l].src = lots[i].src
              BY <3>2, <7>2
            <7> QED
              BY <7>3
          <6> QED
            BY <6>1, <6>2
        <5>4. j \in 1 .. k + 1
          BY <2>1
        <5> QED
          BY <5>1, <5>2, <5>3, <5>4
      <4> QED
        BY <4>1, <4>2
    <3>7. From(k + 1, y)
      BY <3>6
    <3>8. f[k + 1].lots = y /\ f[k + 1].left = 0
      BY <3>1, <3>3 DEF next, y
    <3> HIDE DEF From
    <3> QED
      BY <2>1, <3>7, <3>8
  <2> QED
    BY <2>6, <2>7
<1> HIDE DEF Good
<1>6. 0 .. n \subseteq Good
  BY <1>3, <1>4, <1>5, UpTo
<1> HIDE DEF From
<1>7. From(n, f[n].lots)
  BY <1>3, <1>6 DEF Good
<1>8. f[n].lots = more
  BY <1>1
<1>9. From(n, more)
  BY <1>7, <1>8
<1> QED
  BY <1>9 DEF n, From, HasTails

\* A split or a bonus keeps every lot and its row; by a whole number it
\* multiplies what is open of each.
LEMMA ScaledLots ==
    ASSUME NEW I, NEW s \in State(Nat, I),
           NEW e \in Entries, IsAction(e), NEW lots, lots = s.lots, NEW more, more = Scale(s, e).lots
    PROVE  /\ Len(more) = Len(lots) /\ more \in Seq(Lot(Nat, I))
           /\ \A k \in 1 .. Len(lots) : more[k].src = lots[k].src
           /\ Whole(e) => \A k \in 1 .. Len(lots) : more[k].qty = lots[k].qty * Times(e)
<1> DEFINE n == Len(lots)
           scaled == [k \in DOMAIN lots |-> Multiplied(lots[k], e)]
           z == s.slack + ScaleSlack(lots, e)
<1>1. lots \in Seq(Lot(Nat, I))
  BY DEF State
<1>2. n \in Nat /\ DOMAIN lots = 1 .. n /\ \A k \in 1 .. n : lots[k] \in Lot(Nat, I)
  BY <1>1
<1>3. more = scaled
  <2>1. Scale(s, e) = WithLots(s, [k \in DOMAIN s.lots |-> Multiplied(s.lots[k], e)], s.slack + ScaleSlack(s.lots, e))
    BY Zenon DEF Scale, WithLots
  <2>2. Scale(s, e) = WithLots(s, scaled, z)
    BY <2>1
  <2> HIDE DEF scaled, z
  <2>3. WithLots(s, scaled, z) = [ok |-> s.ok, lots |-> scaled, realized |-> s.realized, slack |-> z]
    BY OtherLots
  <2> QED
    BY <2>2, <2>3
<1> HIDE DEF n
<1>4. ASSUME NEW k \in 1 .. n
      PROVE  /\ scaled[k] \in Lot(Nat, I) /\ scaled[k].src = lots[k].src
             /\ Whole(e) => scaled[k].qty = lots[k].qty * Times(e)
  <2>1. scaled[k] = Multiplied(lots[k], e) /\ lots[k] \in Lot(Nat, I)
    BY <1>2
  <2> HIDE DEF scaled
  <2> QED
    BY <2>1, OneScaled
<1>5. scaled \in Seq(Lot(Nat, I)) /\ Len(scaled) = n
  <2>1. DOMAIN scaled = 1 .. n /\ scaled = [k \in 1 .. n |-> scaled[k]]
    BY <1>2
  <2>2. \A k \in 1 .. n : scaled[k] \in Lot(Nat, I)
    BY <1>4
  <2> HIDE DEF scaled
  <2> QED
    BY <1>2, <2>1, <2>2
<1> HIDE DEF scaled
<1> QED
  BY <1>3, <1>4, <1>5 DEF n

\* So what is open of any rows is multiplied.
LEMMA ScaledIn ==
    ASSUME NEW I, NEW lots \in Seq(Lot(Nat, I)), NEW more \in Seq(Lot(Nat, I)), Len(more) = Len(lots),
           NEW F \in Nat,
           \A k \in 1 .. Len(lots) : more[k].src = lots[k].src /\ more[k].qty = lots[k].qty * F,
           NEW D
    PROVE  OpenIn(more, D) = OpenIn(lots, D) * F
<1> DEFINE n == Len(lots)
           w == SharesIn(lots, D)
           v == SharesIn(more, D)
<1>0. Nat \in SUBSET Int
  OBVIOUS
<1>1. PICK f : Sums(f, n, w) /\ OpenIn(lots, D) = f[n]
  BY <1>0, OpenInSteps
<1>2. PICK g : Sums(g, n, v) /\ OpenIn(more, D) = g[n]
  BY <1>0, OpenInSteps
<1>3. n \in Nat /\ w \in [1 .. n -> Int]
  BY <1>0, SharesInType
<1>4. ASSUME NEW k \in 1 .. n PROVE v[k] = w[k] * F
  <2>1. lots[k] \in Lot(Nat, I)
    OBVIOUS
  <2>2. lots[k].qty \in Int /\ 0 * F = 0
    BY <2>1 DEF Lot
  <2> QED
    BY <2>2 DEF SharesIn
<1> HIDE DEF n, w, v
<1> DEFINE Good == {k \in 0 .. n : g[k] = f[k] * F}
<1>5. 0 \in Good
  BY <1>1, <1>2, <1>3 DEF Sums
<1>6. ASSUME NEW k \in 0 .. n - 1, k \in Good PROVE k + 1 \in Good
  <2>1. k + 1 \in 1 .. n /\ k + 1 \in 0 .. n /\ (k + 1) - 1 = k /\ k \in 0 .. n
    BY <1>3
  <2>2. f[k + 1] = f[k] + w[k + 1] /\ g[k + 1] = g[k] + v[k + 1] /\ f[k] \in Int
    BY <1>1, <1>2, <2>1 DEF Sums
  <2>3. g[k] = f[k] * F /\ v[k + 1] = w[k + 1] * F /\ w[k + 1] \in Int /\ F \in Int
    BY <1>3, <1>4, <1>6, <2>1
  <2>4. (f[k] + w[k + 1]) * F = f[k] * F + w[k + 1] * F
    BY <2>2, <2>3, Distribute
  <2>5. g[k + 1] = f[k + 1] * F
    BY <2>2, <2>3, <2>4
  <2> QED
    BY <2>1, <2>5
<1> HIDE DEF Good
<1>7. 0 .. n \subseteq Good
  BY <1>3, <1>5, <1>6, UpTo
<1>8. n \in Good
  BY <1>3, <1>7
<1> QED
  BY <1>1, <1>2, <1>8 DEF Good

\* What is open of the rows in D becomes with row i, which says e.
InAfter(n, i, e, D) ==
    IF e.type = "buy" THEN n + (IF i \in D THEN e.qty ELSE 0)
    ELSE IF e.type = "sell" THEN Beyond(n, e.qty)
    ELSE IF IsAction(e) THEN n * Times(e) ELSE n

\* Where a lot of one of the buys in I is open, so are all of them that follow
\* in the order P.
Younger(lots, I, P) ==
    \A k \in 1 .. Len(lots), j \in I :
        <<lots[k].src, j>> \in P => \E l \in 1 .. Len(lots) : lots[l].src = j

InQueue(lots, I, P) == LotsIn(lots, P) /\ Younger(lots, I, P)
Strict(P) == \A x, y : <<x, y>> \in P => <<y, x>> \notin P

\* Replaying row i, which says e and comes last of the buys in I, takes lots to
\* more.
Ages(lots, more, i, e, P, I) ==
    /\ InQueue(more, IF e.type = "buy" THEN I \cup {i} ELSE I, P)
    /\ WholeRow(e) => \A D : Leads(lots, D) => OpenIn(more, D) = InAfter(OpenIn(lots, D), i, e, D)

\* A buy does.
LEMMA BuyAges ==
    ASSUME NEW I, NEW s \in State(Nat, I), NEW i, NEW e \in Entries, e.type = "buy",
           NEW P, Strict(P), InQueue(s.lots, I, P), \A j \in I : <<j, i>> \in P
    PROVE  Ages(s.lots, Buy(s, i, e).lots, i, e, P, I)
<1> DEFINE J == I \cup {i}
           C == Nat
           lots == s.lots
           lot == [qty |-> e.qty, cost |-> UnitCost(e), src |-> i]
           p == Len(lots)
           more == Append(lots, lot)
           z == s.slack + SlackOf(e.fees * Unit, e.qty, e.qty)
<1>0. C \in SUBSET Int
  OBVIOUS
<1>1. e.qty \in Nat \ {0} /\ UnitCost(e) \in Nat
  <2>1. e.qty \in Nat \ {0} /\ e.price \in Nat /\ e.fees * Unit \in Nat
    BY LedgerAssumption
  <2>2. RoundDiv(e.fees * Unit, e.qty) \in Nat
    <3> DEFINE m == e.fees * Unit
    <3>1. m \in Nat
      BY <2>1
    <3> HIDE DEF m
    <3> QED
      BY <2>1, <3>1, Rounds DEF m
  <2> QED
    BY <2>1, <2>2 DEF UnitCost
<1>2. s \in State(C, J)
  <2>1. s \in State(C, I) /\ I \subseteq J
    OBVIOUS
  <2> HIDE DEF C, J
  <2> QED
    BY <2>1, StateOfMore
<1>3. lots \in Seq(Lot(C, J)) /\ lots \in Seq(Lot(C, I))
  BY <1>2 DEF State
<1>4. lot \in Lot(C, J) /\ lot.src = i /\ lot.qty = e.qty
  BY <1>1 DEF Lot
<1>5. Buy(s, i, e).lots = more
  <2>1. Buy(s, i, e) = WithLots(s, more, z)
    BY Zenon DEF Buy, WithLots, Enqueue
  <2> HIDE DEF more, z
  <2>2. WithLots(s, more, z) = [ok |-> s.ok, lots |-> more, realized |-> s.realized, slack |-> z]
    BY OtherLots
  <2> QED
    BY <2>1, <2>2
<1>6. \A k \in 1 .. p : lots[k].src \in I
  <2>1. \A k \in 1 .. p : lots[k] \in Lot(C, I)
    BY <1>3
  <2> QED
    BY <2>1 DEF Lot
<1>7. p \in Nat /\ Len(more) = p + 1 /\ more[p + 1] = lot /\ \A k \in 1 .. p : more[k] = lots[k]
  BY <1>3
<1> HIDE DEF C, J, lots, lot, p, more
<1>8. LotsIn(more, P)
  <2>1. \A k \in 1 .. Len(lots) : <<lots[k].src, lot.src>> \in P
    BY <1>4, <1>6 DEF p
  <2> QED
    BY <1>3, <1>4, <2>1, AppendInOrder DEF lots, more, InQueue
<1>9. ASSUME NEW k \in 1 .. p + 1, NEW j \in J, <<more[k].src, j>> \in P
      PROVE  \E l \in 1 .. p + 1 : more[l].src = j
  <2>1. CASE j = i
    BY <1>4, <1>7, <2>1
  <2>2. CASE j # i
    <3>1. j \in I
      BY <2>2 DEF J
    <3>2. k # p + 1
      BY <1>4, <1>7, <1>9, <3>1 DEF Strict
    <3>3. k \in 1 .. p /\ <<lots[k].src, j>> \in P
      BY <1>7, <1>9, <3>2
    <3>4. PICK l \in 1 .. p : lots[l].src = j
      BY <3>1, <3>3 DEF InQueue, Younger, lots, p
    <3>5. l \in 1 .. p + 1 /\ more[l].src = j
      BY <1>7, <3>4
    <3> QED
      BY <3>5
  <2> QED
    BY <2>1, <2>2
<1>10. Younger(more, J, P)
  BY <1>7, <1>9 DEF Younger
<1>11. ASSUME NEW D PROVE OpenIn(more, D) = InAfter(OpenIn(lots, D), i, e, D)
  <2>1. OpenIn(more, D) = OpenIn(lots, D) + (IF lot.src \in D THEN lot.qty ELSE 0)
    BY <1>0, <1>3, <1>4, OpenInAppend DEF more
  <2> QED
    BY <1>4, <2>1 DEF InAfter
<1> QED
  BY <1>5, <1>8, <1>10, <1>11 DEF Ages, InQueue, lots, J

\* So does a sell that finds its shares, ...
LEMMA SellAges ==
    ASSUME NEW I, NEW s \in State(Nat, I), NEW i, NEW e \in Entries, e.type = "sell", Sell(s, e).ok,
           NEW P, Strict(P), InQueue(s.lots, I, P)
    PROVE  Ages(s.lots, Sell(s, e).lots, i, e, P, I)
<1> DEFINE C == Nat
           lots == s.lots
           sold == Sold(lots, e.price, e.qty)
           more == sold.lots
           price == e.price
           shares == e.qty
<1>1. lots \in Seq(Lot(C, I)) /\ s = [ok |-> s.ok, lots |-> lots, realized |-> s.realized, slack |-> s.slack]
  BY DEF State
<1>2. e.qty \in Nat /\ e.price \in Int
  BY LedgerAssumption
<1>3. Sell(s, e).lots = more
  <2>1. CASE e.qty > OpenQty(s.lots)
    <3>1. Sell(s, e) = [ok |-> FALSE, lots |-> s.lots, realized |-> s.realized, slack |-> s.slack]
      BY <1>1, <2>1 DEF Sell
    <3> QED
      BY <3>1
  <2>2. CASE ~(e.qty > OpenQty(s.lots))
    <3>1. Sell(s, e) = [ok |-> s.ok, lots |-> sold.lots, realized |-> s.realized + sold.gain - e.fees * Unit, slack |-> s.slack]
      BY <1>1, <2>2 DEF Sell, Sold
    <3> QED
      BY <3>1
  <2> QED
    BY <2>1, <2>2
<1>4. lots \in Seq(Lot(C, I)) /\ price \in Int /\ shares \in Nat /\ more = Sold(lots, price, shares).lots
      /\ LotsIn(lots, P) /\ Younger(lots, I, P) /\ C \in SUBSET Int
  BY <1>1, <1>2 DEF InQueue
<1> HIDE DEF C, lots, sold, more, price, shares
<1>5. LotsIn(more, P)
  BY <1>4, SellInOrder
<1>6. ASSUME NEW D, Leads(lots, D) PROVE OpenIn(more, D) = InAfter(OpenIn(lots, D), i, e, D)
  <2>1. OpenIn(more, D) = Beyond(OpenIn(lots, D), shares)
    BY <1>4, <1>6, SellTakesOldest
  <2> QED
    BY <2>1 DEF InAfter, shares
<1>k. HasTails(lots, more)
  BY <1>4, SellKeepsYounger
<1>7. ASSUME NEW m \in 1 .. Len(more), NEW b \in I, <<more[m].src, b>> \in P
      PROVE  \E l \in 1 .. Len(more) : more[l].src = b
  <2>1. PICK j \in 1 .. Len(lots) :
           /\ more[m].src = lots[j].src
           /\ \A k \in j .. Len(lots) : \E l \in 1 .. Len(more) : more[l].src = lots[k].src
    BY <1>k DEF HasTails
  <2>2. PICK k \in 1 .. Len(lots) : lots[k].src = b
    BY <1>4, <1>7, <2>1 DEF Younger
  <2>3. ~(k < j)
    BY <1>4, <1>7, <2>1, <2>2 DEF LotsIn, Strict
  <2>4. k \in j .. Len(lots)
    BY <1>4, <2>3
  <2> QED
    BY <2>1, <2>2, <2>4
<1>8. Younger(more, I, P)
  BY <1>7 DEF Younger
<1> QED
  BY <1>3, <1>5, <1>6, <1>8 DEF Ages, InQueue, lots

\* ... and a split or a bonus.
LEMMA ScaleAges ==
    ASSUME NEW I, NEW s \in State(Nat, I), NEW i, NEW e \in Entries, IsAction(e),
           NEW P, InQueue(s.lots, I, P)
    PROVE  Ages(s.lots, Scale(s, e).lots, i, e, P, I)
<1> DEFINE lots == s.lots
           more == Scale(s, e).lots
           T == Times(e)
<1>1. lots \in Seq(Lot(Nat, I)) /\ T \in Nat
  BY FactorIsPositive DEF State
<1>2. /\ Len(more) = Len(lots) /\ more \in Seq(Lot(Nat, I))
      /\ \A k \in 1 .. Len(lots) : more[k].src = lots[k].src
      /\ Whole(e) => \A k \in 1 .. Len(lots) : more[k].qty = lots[k].qty * T
  BY <1>1, ScaledLots
<1> HIDE DEF more, T
<1>3. LotsIn(more, P)
  BY <1>2 DEF LotsIn, InQueue
<1>4. Younger(more, I, P)
  BY <1>2 DEF Younger, InQueue
<1>5. e.type # "buy" /\ e.type # "sell"
  BY DEF IsAction
<1>6. ASSUME WholeRow(e), NEW D PROVE OpenIn(more, D) = InAfter(OpenIn(lots, D), i, e, D)
  <2>1. \A k \in 1 .. Len(lots) : more[k].src = lots[k].src /\ more[k].qty = lots[k].qty * T
    BY <1>2, <1>6 DEF WholeRow
  <2>2. OpenIn(more, D) = OpenIn(lots, D) * T
    <3> HIDE DEF lots
    <3> QED
      BY <1>1, <1>2, <2>1, ScaledIn
  <2> QED
    BY <1>5, <2>2 DEF InAfter, T
<1> QED
  BY <1>3, <1>4, <1>5, <1>6 DEF Ages, InQueue, more

\* A row that comes after all that went before: the lots stay in order, and the
\* oldest are sold first.
LEMMA RowAges ==
    ASSUME NEW I, NEW s \in State(Nat, I), NEW i, NEW e \in Entries, Apply(s, i, e).ok,
           NEW P, Strict(P), InQueue(s.lots, I, P), \A j \in I : <<j, i>> \in P
    PROVE  s.ok /\ Ages(s.lots, Apply(s, i, e).lots, i, e, P, I)
<1> DEFINE t == Apply(s, i, e)
<1>0. s.ok
  <2>1. ~s.ok => t = s
    BY DEF Apply
  <2> QED
    BY <2>1
<1>1. CASE e.type = "buy"
  <2>1. t = Buy(s, i, e)
    BY <1>0, <1>1 DEF Apply, IsAction
  <2> QED
    BY <1>0, <1>1, <2>1, BuyAges
<1>2. CASE e.type = "sell"
  <2>1. t = Sell(s, e)
    BY <1>0, <1>2 DEF Apply, IsAction
  <2> QED
    BY <1>0, <1>2, <2>1, SellAges
<1>3. CASE IsAction(e)
  <2>1. t = Scale(s, e)
    BY <1>0, <1>3 DEF Apply, IsAction
  <2> QED
    BY <1>0, <1>3, <2>1, ScaleAges
<1>4. CASE e.type = "dividend"
  <2>1. t = s
    BY <1>0, <1>4 DEF Apply, IsAction
  <2>2. \A D : InAfter(OpenIn(s.lots, D), i, e, D) = OpenIn(s.lots, D)
    BY <1>4 DEF InAfter, IsAction
  <2> QED
    BY <1>0, <1>4, <2>1, <2>2 DEF Ages
<1>5. e.type \in {"buy", "sell", "dividend"} \/ IsAction(e)
  BY LedgerAssumption DEF IsAction
<1> QED
  BY <1>1, <1>2, <1>3, <1>4, <1>5

\* The order of the rows of a ledger, as a set of pairs.
ByDay(L) == {p \in (DOMAIN L) \X (DOMAIN L) : Before(L, p[1], p[2])}
\* Rows with all rows that come before one of them.
Closed(L, D) == \A j \in D, i \in DOMAIN L : Before(L, i, j) => i \in D

\* Which pairs these are.
LEMMA InByDay ==
    ASSUME NEW L, NEW i, NEW j
    PROVE  <<i, j>> \in ByDay(L) <=> i \in DOMAIN L /\ j \in DOMAIN L /\ Before(L, i, j)
<1> DEFINE p == <<i, j>>
<1>1. p[1] = i /\ p[2] = j
  OBVIOUS
<1>2. p \in ByDay(L) <=> p \in (DOMAIN L) \X (DOMAIN L) /\ Before(L, p[1], p[2])
  BY Zenon DEF ByDay
<1>3. p \in (DOMAIN L) \X (DOMAIN L) <=> i \in DOMAIN L /\ j \in DOMAIN L
  OBVIOUS
<1> QED
  BY <1>1, <1>2, <1>3

\* What the engine makes of rows of L, with any row as source.
LEMMA ReplayType ==
    ASSUME NEW L, IsBook(L), NEW f, Replays(f, L), NEW S \in SUBSET DOMAIN L
    PROVE  /\ f[S] \in State(Nat, BuysIn(L, S))
           /\ f[S].lots \in Seq(Lot(Nat, BuysIn(L, S)))
           /\ f[S].lots \in Seq(Lot(Nat, DOMAIN L))
           /\ OpenQty(f[S].lots) \in Nat
           /\ \A D : OpenIn(f[S].lots, D) \in Nat
<1> DEFINE C == Nat
           I == BuysIn(L, S)
           J == DOMAIN L
           t == f[S]
           lots == t.lots
<1>1. t \in State(C, I) /\ I \subseteq J /\ C \in SUBSET Int
  <2>1. t \in State(C, I)
    BY DEF Replays
  <2> QED
    BY <2>1 DEF BuysIn
<1> HIDE DEF C, I, J, t
<1>2. t \in State(C, J)
  BY <1>1, StateOfMore
<1>3. lots \in Seq(Lot(C, I)) /\ lots \in Seq(Lot(C, J))
  BY <1>1, <1>2 DEF State
<1> HIDE DEF lots
<1>4. \A D : OpenIn(lots, D) \in Nat
  BY <1>1, <1>3, OpenInIsNat
<1>5. OpenQty(lots) \in Nat
  <2>1. \A k \in 1 .. Len(lots) : lots[k].src \in J
    <3>1. \A k \in 1 .. Len(lots) : lots[k] \in Lot(C, J)
      BY <1>3
    <3> QED
      BY <3>1 DEF Lot
  <2>2. OpenIn(lots, J) = OpenQty(lots)
    BY <1>1, <1>3, <2>1, OpenInAll
  <2> QED
    BY <1>4, <2>2
<1> QED
  BY <1>1, <1>3, <1>4, <1>5 DEF lots, t, C, I, J

\* A day's order is strict.
LEMMA ByDayIsStrict == ASSUME NEW L, IsBook(L) PROVE Strict(ByDay(L))
<1>1. ASSUME NEW x, NEW y, <<x, y>> \in ByDay(L), <<y, x>> \in ByDay(L) PROVE FALSE
  <2>1. x \in DOMAIN L /\ y \in DOMAIN L /\ Before(L, x, y) /\ Before(L, y, x)
    BY <1>1, InByDay
  <2> QED
    BY <2>1, RowsAreOrdered
<1> QED
  BY <1>1 DEF Strict

\* One more row of a replay, if the lots before it are in order.
LEMMA ReplayAges ==
    ASSUME NEW L, IsBook(L), NEW f, Replays(f, L), NEW S \in SUBSET DOMAIN L, S # {}, f[S].ok,
           NEW x, x = LatestOf(L, S), NEW R, R = S \ {x},
           InQueue(f[R].lots, BuysIn(L, R), ByDay(L))
    PROVE  Ages(f[R].lots, f[S].lots, x, L[x].entry, ByDay(L), BuysIn(L, R))
<1> DEFINE I == BuysIn(L, R)
           e == L[x].entry
           P == ByDay(L)
<1>1. x \in S /\ e \in Entries /\ f[S] = Apply(f[R], x, e)
  BY RowBooks
<1>2. R \in SUBSET DOMAIN L /\ f[R] \in State(Nat, I)
  <2>1. R \in SUBSET DOMAIN L
    OBVIOUS
  <2> QED
    BY <2>1, ReplayType
<1>3. \A j \in R : Before(L, j, x)
  BY LastRow
<1>4. \A j \in I : <<j, x>> \in P
  <2>1. x \in DOMAIN L /\ \A j \in I : j \in R /\ j \in DOMAIN L
    BY <1>1, <1>2 DEF BuysIn
  <2> HIDE DEF I, P
  <2> QED
    BY <1>3, <2>1, InByDay DEF P
<1>5. Strict(P)
  BY ByDayIsStrict
<1> HIDE DEF I, e, P
<1> DEFINE s == f[R]
<1>6. s \in State(Nat, I) /\ Apply(s, x, e).ok /\ InQueue(s.lots, I, P) /\ f[S] = Apply(s, x, e)
  BY <1>1, <1>2 DEF P, I
<1> HIDE DEF s
<1>7. Ages(s.lots, Apply(s, x, e).lots, x, e, P, I)
  BY <1>1, <1>4, <1>5, <1>6, RowAges
<1> QED
  BY <1>6, <1>7 DEF s, e, P, I

\* The lots of a replay stand in the order of their rows, and none of a buy that
\* is closed is older than one still open.
LEMMA ReplayInOrder ==
    ASSUME NEW L, IsBook(L), NEW f, Replays(f, L), NEW T \in SUBSET DOMAIN L, f[T].ok
    PROVE  InQueue(f[T].lots, BuysIn(L, T), ByDay(L))
<1> DEFINE A == DOMAIN L
           Good == {S \in SUBSET A : f[S].ok => InQueue(f[S].lots, BuysIn(L, S), ByDay(L))}
<1>1. IsFiniteSet(A)
  BY RowsAreOrdered
<1>2. ASSUME NEW S \in SUBSET A, \A R \in SUBSET S : R # S => R \in Good PROVE S \in Good
  <2> SUFFICES ASSUME f[S].ok PROVE InQueue(f[S].lots, BuysIn(L, S), ByDay(L))
    OBVIOUS
  <2>1. CASE S = {}
    <3>1. f[S] = Opening
      BY <2>1 DEF Replays
    <3>2. f[S].lots = <<>> /\ BuysIn(L, S) = {} /\ Len(<<>>) = 0
      BY <2>1, <3>1 DEF Opening, BuysIn
    <3> QED
      BY <3>2 DEF InQueue, LotsIn, Younger
  <2>2. CASE S # {}
    <3> DEFINE x == LatestOf(L, S)
               R == S \ {x}
    <3>1. x \in S /\ Books(f[R], f[S], L[x].entry)
      BY <2>2, RowBooks
    <3> HIDE DEF x
    <3>2. f[R].ok
      BY <3>1 DEF Books
    <3>3. R \in SUBSET S /\ R # S
      BY <3>1
    <3>4. InQueue(f[R].lots, BuysIn(L, R), ByDay(L))
      BY <1>2, <3>2, <3>3
    <3>5. Ages(f[R].lots, f[S].lots, x, L[x].entry, ByDay(L), BuysIn(L, R))
      <4>1. x = LatestOf(L, S) /\ R = S \ {x}
        BY DEF x
      <4> HIDE DEF R
      <4> QED
        BY <2>2, <3>4, <4>1, ReplayAges
    <3>6. BuysIn(L, S) = IF L[x].entry.type = "buy" THEN BuysIn(L, R) \cup {x} ELSE BuysIn(L, R)
      BY <3>1 DEF BuysIn
    <3> QED
      BY <3>5, <3>6 DEF Ages
  <2> QED
    BY <2>1, <2>2
<1> HIDE DEF Good
<1>3. SUBSET A \subseteq Good
  BY <1>1, <1>2, SetInduction
<1> QED
  BY <1>3 DEF Good

\* Rows with all that come before them have their lots in front.
LEMMA ClosedLead ==
    ASSUME NEW L, NEW lots, LotsIn(lots, ByDay(L)), NEW D, Closed(L, D)
    PROVE  Leads(lots, D)
<1>1. ASSUME NEW k \in 1 .. Len(lots), NEW l \in 1 .. Len(lots), k < l, lots[l].src \in D
      PROVE  lots[k].src \in D
  <2>1. <<lots[k].src, lots[l].src>> \in ByDay(L)
    BY <1>1 DEF LotsIn
  <2>2. lots[k].src \in DOMAIN L /\ Before(L, lots[k].src, lots[l].src)
    BY <2>1, InByDay
  <2> QED
    BY <1>1, <2>2 DEF Closed
<1> QED
  BY <1>1 DEF Leads

\* Splits and bonuses never make fewer shares.
LEMMA GrowthIsNat ==
    ASSUME NEW L, IsBook(L), NEW g, ProductsOver(g, Actions(L), Growth(L)), NEW T \in SUBSET Actions(L)
    PROVE  g[T] \in Nat
<1> DEFINE A == Actions(L)
           Good == {S \in SUBSET A : g[S] \in Nat}
<1>1. IsFiniteSet(A)
  <2>1. IsFiniteSet(DOMAIN L) /\ A \subseteq DOMAIN L
    BY RowsAreOrdered DEF Actions
  <2> QED
    BY <2>1, FS_Subset
<1>2. \A x \in A : Growth(L)[x] \in Nat
  <2>1. \A x \in A : x \in DOMAIN L /\ L[x].entry \in Entries
    BY DEF Actions, IsBook
  <2>2. \A x \in A : Growth(L)[x] = Times(L[x].entry)
    BY <2>1 DEF Growth
  <2>3. \A e \in Entries : Times(e) \in Nat
    BY FactorIsPositive
  <2> QED
    BY <2>1, <2>2, <2>3
<1>3. ASSUME NEW S \in SUBSET A, \A R \in SUBSET S : R # S => R \in Good PROVE S \in Good
  <2>1. CASE S = {}
    BY <2>1 DEF ProductsOver
  <2>2. CASE S # {}
    <3>1. PICK x \in S : TRUE
      BY <2>2
    <3>2. S \ {x} \in Good
      BY <1>3, <3>1
    <3>3. g[S] = g[S \ {x}] * Growth(L)[x] /\ g[S \ {x}] \in Nat /\ Growth(L)[x] \in Nat
      BY <1>2, <3>1, <3>2 DEF ProductsOver
    <3>4. \A m, n \in Nat : m * n \in Nat
      OBVIOUS
    <3> QED
      BY <3>3, <3>4
  <2> QED
    BY <2>1, <2>2
<1> HIDE DEF Good
<1>4. SUBSET A \subseteq Good
  BY <1>1, <1>3, SetInduction
<1> QED
  BY <1>4 DEF Good

\* Multiplying both sides multiplies what is beyond.
LEMMA BeyondTimes ==
    ASSUME NEW n \in Nat, NEW m \in Nat, NEW p \in Nat
    PROVE  Beyond(n, m) * p = Beyond(n * p, m * p)
<1>1. \A a, c \in Nat : a * c \in Nat
  OBVIOUS
<1>2. CASE n <= m
  <2>1. m - n \in Nat
    BY <1>2
  <2>2. (m - n) * p \in Nat /\ (m - n) * p = m * p - n * p /\ m * p \in Nat /\ n * p \in Nat
    BY <1>1, <2>1, Distribute
  <2>3. n * p <= m * p /\ 0 * p = 0
    BY <2>2
  <2> QED
    BY <1>2, <2>3 DEF Beyond
<1>3. CASE ~(n <= m)
  <2>1. n - m \in Nat
    BY <1>3
  <2>2. (n - m) * p \in Nat /\ (n - m) * p = n * p - m * p /\ m * p \in Nat /\ n * p \in Nat
    BY <1>1, <2>1, Distribute
  <2>3. Beyond(n, m) = n - m
    BY <1>3 DEF Beyond
  <2>4. Beyond(n * p, m * p) = n * p - m * p
    BY <2>2 DEF Beyond
  <2> QED
    BY <2>2, <2>3, <2>4
<1> QED
  BY <1>2, <1>3

\* To take m and then p is to take both.
LEMMA BeyondTwice ==
    ASSUME NEW n \in Int, NEW m \in Int, NEW p \in Nat
    PROVE  Beyond(Beyond(n, m), p) = Beyond(n, m + p)
  BY DEF Beyond

\* Of rows whose followers are all missing, what is open is what was bought less
\* what was sold.
PrefixesCount(L, f, g, b, s) ==
    \A U \in SUBSET DOMAIN L : Prefix(L, U) /\ f[U].ok =>
        OpenQty(f[U].lots) * g[Actions(L) \ U] = b[U \cap Buys(L)] - s[U \cap Sells(L)]

\* It is so in every replay.
LEMMA AllPrefixesCount ==
    ASSUME NEW L, IsBook(L), WholeBook(L), NEW f, Replays(f, L),
           NEW g, ProductsOver(g, Actions(L), Growth(L)),
           NEW b, SumsOver(b, Buys(L), InToday(L, g)), NEW s, SumsOver(s, Sells(L), InToday(L, g))
    PROVE  PrefixesCount(L, f, g, b, s)
<1>1. ASSUME NEW U \in SUBSET DOMAIN L, Prefix(L, U), f[U].ok
      PROVE  OpenQty(f[U].lots) * g[Actions(L) \ U] = b[U \cap Buys(L)] - s[U \cap Sells(L)]
  BY <1>1, PrefixCounts
<1> QED
  BY <1>1 DEF PrefixesCount

\* What FIFO leaves of the oldest rows, in shares of today: what was bought with
\* them, less all that was sold.
LEMMA OldestLeft ==
    ASSUME NEW L, IsBook(L), WholeBook(L), NEW f, Replays(f, L), f[DOMAIN L].ok,
           NEW g, ProductsOver(g, Actions(L), Growth(L)),
           NEW b, SumsOver(b, Buys(L), InToday(L, g)), NEW s, SumsOver(s, Sells(L), InToday(L, g)),
           NEW K \in SUBSET DOMAIN L, Closed(L, K)
    PROVE  OpenIn(f[DOMAIN L].lots, K) = Beyond(b[K \cap Buys(L)], s[Sells(L)])
<1> DEFINE D == DOMAIN L
           A == Actions(L)
           B == Buys(L)
           C == Sells(L)
           w == InToday(L, g)
           Left(S) == OpenIn(f[S].lots, K)
           Good == {S \in SUBSET D : Prefix(L, S) /\ f[S].ok =>
                      Left(S) * g[A \ S] = Beyond(b[K \cap (S \cap B)], s[S \cap C])}
<1>1. IsFiniteSet(D)
  BY RowsAreOrdered
<1>2. /\ A = {i \in D : IsAction(L[i].entry)} /\ B = {i \in D : L[i].entry.type = "buy"}
      /\ C = {i \in D : L[i].entry.type = "sell"}
      /\ A \cap B = {} /\ A \cap C = {} /\ B \cap C = {}
  BY DEF Actions, Buys, Sells, IsAction
<1>3. /\ \A S \in SUBSET B : b[S] \in Int
      /\ \A S \in SUBSET C : s[S] \in Int
      /\ b[{}] = 0 /\ \A S, T \in SUBSET B : \A x \in S : S \ {x} = T => b[S] = b[T] + w[x]
      /\ s[{}] = 0 /\ \A S, T \in SUBSET C : \A x \in S : S \ {x} = T => s[S] = s[T] + w[x]
      /\ g[{}] = 1 /\ \A S, T \in SUBSET A : \A x \in S : S \ {x} = T => g[S] = g[T] * Growth(L)[x]
  BY DEF SumsOver, ProductsOver
<1>4. \A i \in D : /\ w[i] = L[i].entry.qty * g[After(L, i)] /\ L[i].entry.qty \in Nat
                   /\ Growth(L)[i] = Times(L[i].entry) /\ Times(L[i].entry) \in Nat
  <2>1. \A i \in D : w[i] = L[i].entry.qty * g[After(L, i)] /\ Growth(L)[i] = Times(L[i].entry)
    BY TodayIsInt
  <2>2. \A i \in D : L[i].entry \in Entries
    BY DEF IsBook
  <2>3. \A e \in Entries : e.qty \in Nat /\ Times(e) \in Nat
    BY LedgerAssumption, FactorIsPositive
  <2> QED
    BY <2>1, <2>2, <2>3
<1>5. \A S \in SUBSET D : Left(S) \in Nat /\ OpenQty(f[S].lots) \in Nat
  BY ReplayType
<1>6. \A S \in SUBSET D : g[A \ S] \in Nat
  BY GrowthIsNat
<1>7. \A S \in SUBSET D : K \cap (S \cap B) \in SUBSET B /\ S \cap B \in SUBSET B /\ S \cap C \in SUBSET C
  OBVIOUS
<1>8. \A a, c \in Nat : a * c \in Nat
  OBVIOUS
<1>p. PrefixesCount(L, f, g, b, s)
  BY AllPrefixesCount
<1> HIDE DEF A, B, C, w, D, Left
<1>9. ASSUME NEW S \in SUBSET D, \A R \in SUBSET S : R # S => R \in Good PROVE S \in Good
  <2> SUFFICES ASSUME Prefix(L, S), f[S].ok
               PROVE  Left(S) * g[A \ S] = Beyond(b[K \cap (S \cap B)], s[S \cap C])
    OBVIOUS
  <2>1. CASE S = {}
    <3>1. f[S] = Opening
      BY <2>1 DEF Replays
    <3>2. Left(S) = 0
      BY <3>1, OpenInNone DEF Left, Opening
    <3>3. K \cap (S \cap B) = {} /\ S \cap C = {}
      BY <2>1
    <3>4. b[K \cap (S \cap B)] = 0 /\ s[S \cap C] = 0
      BY <1>3, <3>3
    <3>5. g[A \ S] \in Nat
      BY <1>6
    <3> QED
      BY <3>2, <3>4, <3>5 DEF Beyond
  <2>2. CASE S # {}
    <3> DEFINE x == LatestOf(L, S)
               R == S \ {x}
               e == L[x].entry
               p == g[A \ S]
               n == Left(R)
               bought == b[K \cap (R \cap B)]
               brought == s[R \cap C]
    <3>1. /\ x \in S /\ Prefix(L, R) /\ \A j \in R : Before(L, j, x)
          /\ x \in A => /\ S \cap B = R \cap B /\ S \cap C = R \cap C
                        /\ (A \ R) \ {x} = A \ S /\ x \in A \ R
          /\ x \notin A => A \ R = A \ S /\ After(L, x) = A \ S
      BY <2>2, PrefixStep DEF A, B, C, D
    <3>2. e \in Entries /\ f[R].ok
      BY <2>2, RowBooks DEF D, Books
    <3>3. Left(S) = InAfter(n, x, e, K)
      <4>1. InQueue(f[R].lots, BuysIn(L, R), ByDay(L))
        <5>1. R \in SUBSET DOMAIN L
          BY DEF D
        <5> HIDE DEF R
        <5> QED
          BY <3>2, <5>1, ReplayInOrder
      <4>2. x = LatestOf(L, S) /\ R = S \ {x} /\ WholeRow(L[x].entry)
        BY <3>1 DEF WholeBook, D
      <4> HIDE DEF x, R
      <4>3. Ages(f[R].lots, f[S].lots, x, L[x].entry, ByDay(L), BuysIn(L, R))
        BY <2>2, <4>1, <4>2, ReplayAges DEF D
      <4>4. Leads(f[R].lots, K)
        BY <4>1, ClosedLead DEF InQueue
      <4> QED
        BY <4>2, <4>3, <4>4 DEF Ages, Left
    <3> HIDE DEF x
    <3>4. R \in SUBSET S /\ R # S /\ R \in SUBSET D /\ x \in D
      BY <3>1
    <3>5. n * g[A \ R] = Beyond(bought, brought)
      BY <1>9, <3>1, <3>2, <3>4
    <3>6. /\ n \in Nat /\ p \in Nat /\ bought \in Int /\ brought \in Int /\ e.qty \in Nat /\ Times(e) \in Nat
          /\ e.qty * p \in Nat
      BY <1>3, <1>4, <1>5, <1>6, <1>7, <1>8, <3>4
    <3>7. x \notin A => g[A \ R] = p /\ w[x] = e.qty * p
      BY <1>4, <3>1, <3>4
    <3>8. CASE x \in A
      <4>1. A \ R \in SUBSET A /\ A \ S \in SUBSET A
        OBVIOUS
      <4>2. g[A \ R] = p * Times(e)
        BY <1>3, <1>4, <3>1, <3>4, <3>8, <4>1
      <4>3. IsAction(e) /\ e.type # "buy" /\ e.type # "sell"
        BY <1>2, <3>8 DEF IsAction
      <4>4. Left(S) = n * Times(e)
        BY <3>3, <4>3 DEF InAfter
      <4>5. b[K \cap (S \cap B)] = bought /\ s[S \cap C] = brought
        BY <3>1, <3>8
      <4> DEFINE F == Times(e)
      <4>6. F \in Nat /\ n * (p * F) = Beyond(bought, brought) /\ Left(S) = n * F
        BY <3>5, <3>6, <4>2, <4>4
      <4> HIDE DEF F, p, n, bought, brought
      <4>7. (n * F) * p = n * (p * F)
        BY <3>6, <4>6
      <4> QED
        BY <4>5, <4>6, <4>7 DEF p
    <3>9. CASE x \in B /\ x \in K
      <4>1. /\ x \notin A /\ e.type = "buy" /\ S \cap C = R \cap C
            /\ (K \cap (S \cap B)) \ {x} = K \cap (R \cap B) /\ x \in K \cap (S \cap B)
        BY <1>2, <3>1, <3>9
      <4>2. b[K \cap (S \cap B)] = bought + e.qty * p /\ s[S \cap C] = brought
        <5>1. b[K \cap (S \cap B)] = bought + w[x]
          BY <1>3, <1>7, <3>4, <4>1
        <5> QED
          BY <3>7, <4>1, <5>1
      <4>3. Left(S) = n + e.qty
        BY <3>3, <3>9, <4>1 DEF InAfter
      <4>4. bought - brought >= 0
        <5>1. K \cap (R \cap B) = R \cap B
          <6>1. \A j \in R : j \in K
            BY <3>1, <3>4, <3>9 DEF Closed, D
          <6> QED
            BY <6>1
        <5>2. OpenQty(f[R].lots) * g[A \ R] = b[R \cap B] - s[R \cap C]
          <6>1. R \in SUBSET DOMAIN L /\ Prefix(L, R) /\ f[R].ok
            BY <3>1, <3>2, <3>4 DEF D
          <6> HIDE DEF R
          <6>2. OpenQty(f[R].lots) * g[Actions(L) \ R] = b[R \cap Buys(L)] - s[R \cap Sells(L)]
            BY <1>p, <6>1 DEF PrefixesCount
          <6> QED
            BY <6>2 DEF A, B, C
        <5>3. OpenQty(f[R].lots) * g[A \ R] \in Nat
          BY <1>5, <1>6, <1>8, <3>4
        <5>4. bought = b[R \cap B] /\ brought = s[R \cap C]
          BY <5>1
        <5>5. bought - brought \in Nat
          BY <5>2, <5>3, <5>4
        <5> QED
          BY <5>5
      <4>5. n * p = Beyond(bought, brought)
        BY <3>5, <3>7, <4>1
      <4> DEFINE more == e.qty
      <4>6. more \in Nat /\ more * p \in Nat
        BY <3>6
      <4> HIDE DEF p, n, bought, brought, more
      <4>7. (n + more) * p = n * p + more * p
        BY <3>6, <4>6, Distribute
      <4>8. n * p = bought - brought
        BY <3>6, <4>4, <4>5 DEF Beyond
      <4>9. (n + more) * p = Beyond(bought + more * p, brought)
        BY <3>6, <4>4, <4>6, <4>7, <4>8 DEF Beyond
      <4> QED
        BY <4>2, <4>3, <4>9 DEF p, more
    <3>10. CASE x \in B /\ x \notin K
      <4>1. /\ x \notin A /\ e.type = "buy" /\ S \cap C = R \cap C
            /\ K \cap (S \cap B) = K \cap (R \cap B)
        BY <1>2, <3>1, <3>10
      <4>2. Left(S) = n
        BY <3>3, <3>6, <3>10, <4>1 DEF InAfter
      <4> QED
        BY <3>5, <3>7, <4>1, <4>2
    <3>11. CASE x \in C
      <4>1. /\ x \notin A /\ e.type = "sell" /\ S \cap B = R \cap B
            /\ (S \cap C) \ {x} = R \cap C /\ x \in S \cap C
        BY <1>2, <3>1, <3>11
      <4>2. b[K \cap (S \cap B)] = bought /\ s[S \cap C] = brought + e.qty * p
        <5>1. s[S \cap C] = brought + w[x]
          BY <1>3, <1>7, <3>4, <4>1
        <5> QED
          BY <3>7, <4>1, <5>1
      <4>3. Left(S) = Beyond(n, e.qty)
        BY <3>3, <4>1 DEF InAfter
      <4>4. n * p = Beyond(bought, brought)
        BY <3>5, <3>7, <4>1
      <4> DEFINE less == e.qty
      <4>5. less \in Nat /\ less * p \in Nat /\ Left(S) = Beyond(n, less)
        BY <3>6, <4>3
      <4> HIDE DEF p, n, bought, brought, less
      <4>6. Beyond(n, less) * p = Beyond(n * p, less * p)
        BY <3>6, <4>5, BeyondTimes
      <4>7. Beyond(Beyond(bought, brought), less * p) = Beyond(bought, brought + less * p)
        BY <3>6, <4>5, BeyondTwice
      <4>8. Beyond(n, less) * p = Beyond(bought, brought + less * p)
        BY <4>4, <4>6, <4>7
      <4> QED
        BY <4>2, <4>5, <4>8 DEF p, less
    <3>12. CASE x \notin A \cup B \cup C
      <4>1. S \cap B = R \cap B /\ S \cap C = R \cap C /\ x \notin A
        BY <3>12
      <4>2. e.type # "buy" /\ e.type # "sell" /\ ~IsAction(e)
        BY <1>2, <3>4, <3>12
      <4>3. Left(S) = n
        BY <3>3, <4>2 DEF InAfter
      <4> QED
        BY <3>5, <3>7, <4>1, <4>3
    <3> QED
      BY <3>8, <3>9, <3>10, <3>11, <3>12
  <2> QED
    BY <2>1, <2>2
<1> HIDE DEF Good
<1>10. SUBSET D \subseteq Good
  BY <1>1, <1>9, SetInduction
<1>11. Prefix(L, D) /\ f[D].ok
  BY DEF Prefix, D
<1>12. Left(D) * g[A \ D] = Beyond(b[K \cap (D \cap B)], s[D \cap C])
  <2>1. D \in Good
    BY <1>10
  <2> QED
    BY <1>11, <2>1 DEF Good
<1>13. A \ D = {} /\ D \cap B = B /\ D \cap C = C
  BY <1>2
<1>14. g[A \ D] = 1
  BY <1>3, <1>13
<1>15. Left(D) \in Nat
  BY <1>5
<1>16. Left(D) * 1 = Left(D)
  BY <1>15
<1> QED
  BY <1>12, <1>13, <1>14, <1>16 DEF Left, D, B, C

-----------------------------------------------------------------------------
\* A sum, or a product, over some rows is the same in any table of sums that
\* has their terms.
LEMMA SumsMatch ==
    ASSUME NEW T, IsFiniteSet(T), NEW B, T \subseteq B, NEW u, NEW w, \A i \in T : u[i] = w[i],
           NEW h, SumsOver(h, T, u), NEW b, SumsOver(b, B, w)
    PROVE  h[T] = b[T]
<1> DEFINE Good == {S \in SUBSET T : h[S] = b[S]}
<1>1. ASSUME NEW S \in SUBSET T, \A R \in SUBSET S : R # S => R \in Good PROVE S \in Good
  <2>1. CASE S = {}
    BY <2>1 DEF SumsOver
  <2>2. CASE S # {}
    <3>1. PICK x \in S : TRUE
      BY <2>2
    <3>2. S \ {x} \in Good
      BY <1>1, <3>1
    <3>3. S \in SUBSET B /\ x \in T
      BY <3>1
    <3>4. h[S] = h[S \ {x}] + u[x] /\ b[S] = b[S \ {x}] + w[x]
      BY <3>1, <3>3 DEF SumsOver
    <3> QED
      BY <3>2, <3>3, <3>4
  <2> QED
    BY <2>1, <2>2
<1> HIDE DEF Good
<1>2. SUBSET T \subseteq Good
  BY <1>1, SetInduction
<1> QED
  BY <1>2 DEF Good

\* A product likewise.
LEMMA ProductsMatch ==
    ASSUME NEW T, IsFiniteSet(T), NEW B, T \subseteq B, NEW u, NEW w, \A i \in T : u[i] = w[i],
           NEW h, ProductsOver(h, T, u), NEW b, ProductsOver(b, B, w)
    PROVE  h[T] = b[T]
<1> DEFINE Good == {S \in SUBSET T : h[S] = b[S]}
<1>1. ASSUME NEW S \in SUBSET T, \A R \in SUBSET S : R # S => R \in Good PROVE S \in Good
  <2>1. CASE S = {}
    BY <2>1 DEF ProductsOver
  <2>2. CASE S # {}
    <3>1. PICK x \in S : TRUE
      BY <2>2
    <3>2. S \ {x} \in Good
      BY <1>1, <3>1
    <3>3. S \in SUBSET B /\ x \in T
      BY <3>1
    <3>4. h[S] = h[S \ {x}] * u[x] /\ b[S] = b[S \ {x}] * w[x]
      BY <3>1, <3>3 DEF ProductsOver
    <3> QED
      BY <3>2, <3>3, <3>4
  <2> QED
    BY <2>1, <2>2
<1> HIDE DEF Good
<1>2. SUBSET T \subseteq Good
  BY <1>1, SetInduction
<1> QED
  BY <1>2 DEF Good

\* The events that came after row i.
Since(a, i) == {j \in Ledger(txn, a) : IsAction(txn[j].entry) /\ Before(txn, i, j)}

\* GrownBy is a product over them, ...
LEMMA GrownByIsProduct ==
    ASSUME NEW a, NEW i, NEW w, IsFiniteSet(Since(a, i)), w \in [Since(a, i) -> Int],
           \A j \in Since(a, i) : w[j] = Times(txn[j].entry)
    PROVE  \E g : ProductsOver(g, Since(a, i), w) /\ GrownBy(a, i) = g[Since(a, i)]
<1> DEFINE B == Since(a, i)
           H(f) == [S \in SUBSET B |->
                       IF S = {} THEN 1
                       ELSE f[S \ {CHOOSE x \in S : TRUE}] * Times(txn[CHOOSE x \in S : TRUE].entry)]
           total == CHOOSE f : f = H(f)
<1>1. \E g : IsSetProduct(g, B, w)
  BY SetProductExists
<1>2. \A f : H(f) = [S \in SUBSET B |-> IF S = {} THEN 1 ELSE f[S \ {Picked(S)}] * w[Picked(S)]]
  BY DEF Picked
<1>3. GrownBy(a, i) = total[B]
  BY DEF GrownBy, FoldSet, MapThenFoldSet, Since
<1> HIDE DEF H
<1>4. total = H(total)
  BY <1>1, <1>2 DEF IsSetProduct
<1> HIDE DEF total
<1>5. IsSetProduct(total, B, w)
  BY <1>2, <1>4 DEF IsSetProduct
<1> QED
  BY <1>3, <1>5, AnyProductOrder

\* ... and InTodaysShares a sum.
LEMMA TodaysIsSum ==
    ASSUME NEW a, NEW B, NEW w, IsFiniteSet(B), w \in [B -> Int],
           \A i \in B : w[i] = txn[i].entry.qty * GrownBy(a, i)
    PROVE  \E g : SumsOver(g, B, w) /\ InTodaysShares(a, B) = g[B]
<1> DEFINE H(f) == [S \in SUBSET B |->
                       IF S = {} THEN 0
                       ELSE f[S \ {CHOOSE x \in S : TRUE}]
                            + txn[CHOOSE x \in S : TRUE].entry.qty * GrownBy(a, CHOOSE x \in S : TRUE)]
           total == CHOOSE f : f = H(f)
<1>1. \E g : IsSetSum(g, B, w)
  BY SetSumExists
<1>2. \A f : H(f) = [S \in SUBSET B |-> IF S = {} THEN 0 ELSE f[S \ {Picked(S)}] + w[Picked(S)]]
  BY DEF Picked
<1>3. InTodaysShares(a, B) = total[B]
  BY DEF InTodaysShares, FoldSet, MapThenFoldSet
<1> HIDE DEF H
<1>4. total = H(total)
  BY <1>1, <1>2 DEF IsSetSum
<1> HIDE DEF total
<1>5. IsSetSum(total, B, w)
  BY <1>2, <1>4 DEF IsSetSum
<1> QED
  BY <1>3, <1>5, AnyOrder

\* L is the book of account a.
BookIs(L, a) ==
    /\ IsBook(L) /\ DOMAIN L = Ledger(txn, a)
    /\ \A i \in DOMAIN L : L[i] = txn[i]

\* The shares of today a row has become.
LEMMA GrownByIs ==
    ASSUME NEW a, NEW L, BookIs(L, a), NEW g, ProductsOver(g, Actions(L), Growth(L)), NEW i \in DOMAIN L
    PROVE  GrownBy(a, i) = g[After(L, i)] /\ InToday(L, g)[i] = txn[i].entry.qty * GrownBy(a, i)
<1> DEFINE T == Since(a, i)
           w == [j \in T |-> Times(txn[j].entry)]
<1>0. IsBook(L) /\ DOMAIN L = Ledger(txn, a) /\ \A j \in DOMAIN L : L[j] = txn[j]
  BY DEF BookIs
<1>1. T = After(L, i) /\ T \subseteq Actions(L) /\ T \subseteq DOMAIN L
  BY <1>0 DEF Since, After, Actions, Before
<1>2. IsFiniteSet(T)
  <2>1. IsFiniteSet(DOMAIN L)
    BY <1>0, RowsAreOrdered
  <2> QED
    BY <1>1, <2>1, FS_Subset
<1>3. \A j \in DOMAIN L : Times(txn[j].entry) \in Int /\ Growth(L)[j] = Times(txn[j].entry)
  <2>1. \A j \in DOMAIN L : Growth(L)[j] \in Int /\ Growth(L)[j] = Times(L[j].entry)
    BY <1>0, TodayIsInt
  <2> QED
    BY <1>0, <2>1
<1>4. w \in [T -> Int] /\ (\A j \in T : w[j] = Times(txn[j].entry)) /\ (\A j \in T : w[j] = Growth(L)[j])
  BY <1>1, <1>3
<1> HIDE DEF T, w
<1>5. PICK h : ProductsOver(h, T, w) /\ GrownBy(a, i) = h[T]
  BY <1>2, <1>4, GrownByIsProduct DEF T
<1>6. h[T] = g[T]
  BY <1>1, <1>2, <1>4, <1>5, ProductsMatch
<1>7. InToday(L, g)[i] = L[i].entry.qty * g[After(L, i)] /\ L[i] = txn[i]
  BY <1>0 DEF InToday
<1> QED
  BY <1>1, <1>5, <1>6, <1>7

\* The shares of today a set of trades has become.
LEMMA TodaysAre ==
    ASSUME NEW a, NEW L, BookIs(L, a), NEW g, ProductsOver(g, Actions(L), Growth(L)),
           NEW B \in SUBSET DOMAIN L, NEW T \in SUBSET B, NEW b, SumsOver(b, B, InToday(L, g))
    PROVE  InTodaysShares(a, T) = b[T]
<1> DEFINE w == [i \in T |-> InToday(L, g)[i]]
<1>0. IsBook(L) /\ T \subseteq DOMAIN L
  BY DEF BookIs
<1>1. IsFiniteSet(T)
  <2>1. IsFiniteSet(DOMAIN L)
    BY <1>0, RowsAreOrdered
  <2> QED
    BY <1>0, <2>1, FS_Subset
<1>2. \A i \in T : InToday(L, g)[i] \in Int
  BY <1>0, TodayIsInt
<1>3. \A i \in T : InToday(L, g)[i] = txn[i].entry.qty * GrownBy(a, i)
  BY <1>0, GrownByIs
<1>4. w \in [T -> Int] /\ (\A i \in T : w[i] = txn[i].entry.qty * GrownBy(a, i)) /\ \A i \in T : w[i] = InToday(L, g)[i]
  BY <1>2, <1>3
<1> HIDE DEF w
<1>5. PICK h : SumsOver(h, T, w) /\ InTodaysShares(a, T) = h[T]
  BY <1>1, <1>4, TodaysIsSum
<1>6. h[T] = b[T]
  BY <1>1, <1>4, <1>5, SumsMatch
<1> QED
  BY <1>5, <1>6

\* The rows up to row i, and those before it, are closed.
LEMMA UpToRow ==
    ASSUME NEW L, IsBook(L), NEW i \in DOMAIN L,
           NEW K, K = {j \in DOMAIN L : ~Before(L, i, j)}, NEW J, J = K \ {i}
    PROVE  Closed(L, K) /\ Closed(L, J) /\ i \in K
<1>1. \A j \in DOMAIN L : j \in Int /\ L[j].date \in Int
  <2>1. MaxTxns \in Nat
    BY LedgerAssumption
  <2> QED
    BY <2>1 DEF IsBook, Ids
<1>2. ~Before(L, i, i)
  BY <1>1 DEF Before
<1>3. ASSUME NEW j \in K, NEW k \in DOMAIN L, Before(L, k, j) PROVE k \in K /\ k # i
  <2>1. ~Before(L, i, j) /\ j \in DOMAIN L
    OBVIOUS
  <2>2. k # i
    BY <1>3, <2>1
  <2>3. ~Before(L, i, k)
    BY <1>1, <1>3, <2>1 DEF Before
  <2> QED
    BY <2>2, <2>3
<1>4. Closed(L, K)
  BY <1>3 DEF Closed
<1>5. Closed(L, J)
  BY <1>3 DEF Closed
<1> QED
  BY <1>2, <1>4, <1>5

\* What is open of one buy.
LEMMA BuyRemains ==
    ASSUME NEW a, NEW L, BookIs(L, a), WholeBook(L), ReplayOf(L).ok, NEW i \in OfType(a, "buy")
    PROVE  Remaining(a, i) = OpenIn(ReplayOf(L).lots, {i})
<1> DEFINE D == DOMAIN L
           A == Actions(L)
           B == Buys(L)
           C == Sells(L)
           K == {j \in DOMAIN L : ~Before(L, i, j)}
           J == K \ {i}
           lots == ReplayOf(L).lots
<1>1. IsBook(L) /\ D = Ledger(txn, a) /\ \A j \in D : L[j] = txn[j]
  BY DEF BookIs
<1>2. B = OfType(a, "buy") /\ C = OfType(a, "sell") /\ i \in B /\ i \in D
      /\ B \subseteq DOMAIN L /\ C \subseteq DOMAIN L /\ A \subseteq DOMAIN L
  BY <1>1 DEF OfType, Buys, Sells, Actions
<1>3. PICK f : Replays(f, L) /\ ReplayOf(L) = f[D]
  BY <1>1, ReplaySteps
<1>4. IsFiniteSet(D)
  BY <1>1, RowsAreOrdered
<1>5. IsFiniteSet(A) /\ IsFiniteSet(B) /\ IsFiniteSet(C)
  BY <1>2, <1>4, FS_Subset
<1>6. PICK g : ProductsOver(g, A, Growth(L))
  <2>1. \A j \in D : Growth(L)[j] \in Int
    <3>1. \A j \in D : L[j].entry \in Entries /\ Growth(L)[j] = Times(L[j].entry)
      BY <1>1 DEF IsBook, Growth
    <3>2. \A e \in Entries : Times(e) \in Int
      BY FactorIsPositive
    <3> QED
      BY <3>1, <3>2
  <2> QED
    BY <1>2, <1>5, <2>1, TotalsExist
<1> DEFINE w == InToday(L, g)
<1>7. \A j \in D : w[j] \in Int
  BY <1>1, <1>6, TodayIsInt
<1>8. PICK b : SumsOver(b, B, w)
  BY <1>2, <1>5, <1>7, TotalsExist
<1>9. PICK s : SumsOver(s, C, w)
  BY <1>2, <1>5, <1>7, TotalsExist
<1>10. Closed(L, K) /\ Closed(L, J) /\ i \in K /\ K \in SUBSET D /\ J \in SUBSET D
  BY <1>1, <1>2, UpToRow
<1>11. OpenIn(lots, K) = Beyond(b[K \cap B], s[C]) /\ OpenIn(lots, J) = Beyond(b[J \cap B], s[C])
  <2> DEFINE open == f[D].lots
  <2>0. lots = open /\ f[D].ok
    BY <1>3
  <2> HIDE DEF K, J, lots
  <2>1. OpenIn(open, K) = Beyond(b[K \cap B], s[C])
    BY <1>1, <1>3, <1>6, <1>8, <1>9, <1>10, <2>0, OldestLeft
  <2>2. OpenIn(open, J) = Beyond(b[J \cap B], s[C])
    BY <1>1, <1>3, <1>6, <1>8, <1>9, <1>10, <2>0, OldestLeft
  <2> QED
    BY <2>0, <2>1, <2>2
<1>12. OpenIn(lots, K) = OpenIn(lots, J) + OpenIn(lots, {i})
  <2>1. K = J \cup {i} /\ i \notin J
    BY <1>10
  <2> DEFINE M == Nat
  <2>2. lots \in Seq(Lot(M, D)) /\ M \in SUBSET Int
    BY <1>1, <1>3, ReplayType
  <2> HIDE DEF K, J, lots, M
  <2> QED
    BY <2>1, <2>2, OpenInSplit
<1>13. OpenIn(lots, {i}) \in Nat /\ OpenIn(lots, J) \in Nat
  BY <1>1, <1>3, ReplayType
<1>14. b[K \cap B] = b[J \cap B] + w[i] /\ b[J \cap B] \in Int /\ b[K \cap B] \in Int /\ s[C] \in Int
  <2>1. i \in K \cap B /\ (K \cap B) \ {i} = J \cap B /\ K \cap B \in SUBSET B /\ J \cap B \in SUBSET B
    BY <1>2, <1>10
  <2> QED
    BY <1>8, <1>9, <2>1 DEF SumsOver
<1>15. BoughtBy(a, i) = b[K \cap B]
  <2>1. {j \in OfType(a, "buy") : ~Before(txn, i, j)} = K \cap B
    <3>1. \A j \in B : Before(txn, i, j) <=> Before(L, i, j)
      BY <1>1, <1>2 DEF Before
    <3> QED
      BY <1>2, <3>1
  <2>2. InTodaysShares(a, K \cap B) = b[K \cap B]
    <3> DEFINE T == K \cap B
    <3>1. T \in SUBSET B /\ B \in SUBSET DOMAIN L /\ ProductsOver(g, Actions(L), Growth(L)) /\ SumsOver(b, B, InToday(L, g))
      BY <1>2, <1>6, <1>8
    <3> HIDE DEF T, B, K
    <3>2. InTodaysShares(a, T) = b[T]
      BY <3>1, TodaysAre
    <3> QED
      BY <3>2 DEF T
  <2> QED
    BY <2>1, <2>2 DEF BoughtBy
<1>16. InTodaysShares(a, OfType(a, "sell")) = s[C]
  <2>1. C \in SUBSET C /\ C \in SUBSET DOMAIN L /\ ProductsOver(g, Actions(L), Growth(L)) /\ SumsOver(s, C, InToday(L, g))
    BY <1>2, <1>6, <1>9
  <2> HIDE DEF C
  <2>2. InTodaysShares(a, C) = s[C]
    BY <2>1, TodaysAre
  <2> QED
    BY <1>2, <2>2
<1>17. txn[i].entry.qty * GrownBy(a, i) = w[i]
  BY <1>2, <1>6, GrownByIs
<1>18. w[i] \in Nat
  <2>1. After(L, i) \in SUBSET A
    BY DEF After
  <2>2. g[After(L, i)] \in Nat
    BY <1>1, <1>6, <2>1, GrowthIsNat
  <2>3. w[i] = L[i].entry.qty * g[After(L, i)]
    BY <1>1, <1>2, <1>6, TodayIsInt
  <2>4. L[i].entry.qty \in Nat
    BY <1>1, <1>2, LedgerAssumption DEF IsBook
  <2>5. \A m, n \in Nat : m * n \in Nat
    OBVIOUS
  <2> QED
    BY <2>2, <2>3, <2>4, <2>5
<1> DEFINE past == b[K \cap B] - s[C]
           own == w[i]
<1>19. Remaining(a, i) = IF past <= 0 THEN 0 ELSE IF past < own THEN past ELSE own
  BY <1>15, <1>16, <1>17 DEF Remaining
<1> DEFINE later == b[K \cap B]
           sold == s[C]
           before == b[J \cap B]
           one == OpenIn(lots, {i})
<1>20. /\ Beyond(later, sold) = Beyond(before, sold) + one /\ later = before + own
       /\ later \in Int /\ sold \in Int /\ own \in Nat /\ one \in Nat /\ before \in Int /\ past = later - sold
  BY <1>11, <1>12, <1>13, <1>14, <1>18
<1> HIDE DEF later, sold, before, one, own, past
<1>21. one = IF past <= 0 THEN 0 ELSE IF past < own THEN past ELSE own
  BY <1>20 DEF Beyond
<1> QED
  BY <1>19, <1>21 DEF one

\* While overlapping requests concern different accounts, the open lots are the
\* youngest: in the order they were bought, and no buy is closed while an older
\* one is open, whatever the ratios of the splits and bonuses.  What is open of
\* each buy is exactly what FIFO must leave of it in an account whose splits and
\* bonuses all multiply by whole numbers; a fraction rounds every quantity it
\* makes, and nothing exact is claimed (replayFifo in fifo-engine.ts).
THEOREM LotsStayYoungest == Spec /\ []Apart => []LotsAreYoungest
<1>1. LedgerInv => LotsAreYoungest
  <2> SUFFICES ASSUME LedgerInv, NEW a \in Accts, holding[a].there
               PROVE  LET lots == holding[a].lots
                          open == {lots[k].src : k \in DOMAIN lots}
                      IN
                      /\ \A k \in DOMAIN lots : lots[k].qty > 0 /\ lots[k].src \in OfType(a, "buy")
                      /\ \A k, l \in DOMAIN lots : k < l => Before(txn, lots[k].src, lots[l].src)
                      /\ \A i, j \in OfType(a, "buy") : Before(txn, i, j) /\ i \in open => j \in open
                      /\ WholeActions(a) => \A i \in OfType(a, "buy") : Remaining(a, i) = OpenIn(lots, {i})
    BY DEF LotsAreYoungest
  <2> DEFINE L == Book(txn, a)
             D == DOMAIN L
             lots == ReplayOf(L).lots
             open == {lots[k].src : k \in DOMAIN lots}
  <2>1. holding[a] = Materialized(L) /\ ReplayOf(L).ok
    BY DEF LedgerInv, Sound, Faithful, Accepted
  <2>2. BookIs(L, a)
    BY TableBook DEF LedgerInv, Tables, BookIs
  <2>3. holding[a].lots = lots
    BY <2>1 DEF Materialized
  <2> HIDE DEF L
  <2>5. IsBook(L) /\ D = Ledger(txn, a) /\ \A i \in D : L[i] = txn[i]
    BY <2>2 DEF BookIs
  <2>4. ASSUME WholeActions(a) PROVE \A i \in OfType(a, "buy") : Remaining(a, i) = OpenIn(lots, {i})
    <3>1. WholeBook(L)
      BY <2>4, <2>5 DEF WholeBook, WholeRow, WholeActions
    <3> QED
      BY <2>1, <2>2, <3>1, BuyRemains
  <2>6. PICK f : Replays(f, L) /\ ReplayOf(L) = f[D]
    BY <2>5, ReplaySteps
  <2>7. lots \in Seq(Lot(Nat, BuysIn(L, D))) /\ BuysIn(L, D) = OfType(a, "buy")
    <3>1. lots \in Seq(Lot(Nat, BuysIn(L, D)))
      BY <2>5, <2>6, ReplayType
    <3>2. BuysIn(L, D) = OfType(a, "buy")
      BY <2>5 DEF BuysIn, OfType
    <3> QED
      BY <3>1, <3>2
  <2>8. LotsIn(lots, ByDay(L)) /\ Younger(lots, BuysIn(L, D), ByDay(L))
    BY <2>1, <2>5, <2>6, ReplayInOrder DEF InQueue
  <2> HIDE DEF lots
  <2>9. DOMAIN lots = 1 .. Len(lots)
    BY <2>7
  <2>10. ASSUME NEW k \in DOMAIN lots PROVE lots[k].qty > 0 /\ lots[k].src \in OfType(a, "buy")
    <3>1. lots[k] \in Lot(Nat, OfType(a, "buy"))
      BY <2>7, <2>9
    <3> QED
      BY <3>1 DEF Lot
  <2>11. ASSUME NEW k \in DOMAIN lots, NEW l \in DOMAIN lots, k < l
         PROVE  Before(txn, lots[k].src, lots[l].src)
    <3>1. <<lots[k].src, lots[l].src>> \in ByDay(L)
      BY <2>8, <2>9, <2>11 DEF LotsIn
    <3>2. lots[k].src \in D /\ lots[l].src \in D /\ Before(L, lots[k].src, lots[l].src)
      BY <3>1, InByDay
    <3> QED
      BY <2>5, <3>2 DEF Before
  <2>12. ASSUME NEW i \in OfType(a, "buy"), NEW j \in OfType(a, "buy"), Before(txn, i, j), i \in open
         PROVE  j \in open
    <3>1. i \in D /\ j \in D /\ Before(L, i, j)
      BY <2>5, <2>12 DEF OfType, Before
    <3>2. PICK k \in 1 .. Len(lots) : lots[k].src = i
      BY <2>9, <2>12
    <3>3. <<lots[k].src, j>> \in ByDay(L)
      BY <3>1, <3>2, InByDay
    <3>4. \E l \in 1 .. Len(lots) : lots[l].src = j
      BY <2>7, <2>8, <3>3 DEF Younger
    <3> QED
      BY <2>9, <3>4
  <2> QED
    BY <2>3, <2>4, <2>10, <2>11, <2>12
<1>2. Init => LedgerInv
  BY InitKeeps
<1>3. Apart /\ LedgerInv /\ [Next]_vars => LedgerInv'
  BY StepKeeps
<1> QED
  BY <1>1, <1>2, <1>3, PTL DEF Spec
=============================================================================
