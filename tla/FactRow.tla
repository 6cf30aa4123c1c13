------------------------------- MODULE FactRow -------------------------------
(***************************************************************************)
(* One stored row of a fundamentals table (the live period of one stock)   *)
(* and the two paths that write it: the cited raw-field correction of an   *)
(* admin (fill/raw-field-edit.ts with fill/re-derive.ts) and the guarded   *)
(* write of a filing (ingesters/guarded-write.ts, dispatch.ts).  Rescore   *)
(* adds what both set off.                                                 *)
(*                                                                         *)
(* The derived columns are one ratio that needs every cell; it is          *)
(* represented by the reading it was computed from, << >> when null.       *)
(***************************************************************************)
EXTENDS Integers, FiniteSets

CONSTANTS
  Cells,     \* the raw columns
  Values,    \* the numbers they hold
  Blank,     \* null
  Workers,   \* worker processes
  Workbook,  \* may the row be one the workbook loader wrote
  MaxEdits,  \* bound: corrections
  MaxFilings \* bound: filings ingested

ASSUME FactRowAssumption ==
  Blank \notin Values /\ Workbook \in BOOLEAN /\ MaxEdits \in Nat /\ MaxFilings \in Nat

VARIABLES
  row,      \* the raw cells as stored
  derived,  \* the derived columns as stored
  edited,   \* the cells with a raw_field_edits row
  manual,   \* the row carries source = 'manual_workbook'
  ingest,   \* per worker: the guarded write under way
  edits, filings,
  stands    \* history: per cell the value entered by hand, blank if there is none

factVars == <<row, derived, edited, manual, ingest, edits, filings, stands>>

Reading == [Cells -> Values \cup {Blank}]

\* deriveIndAsAnnual and its sisters: null without their inputs.
Derive(r) == IF \A c \in Cells : r[c] # Blank THEN r ELSE << >>
Derived == [Cells -> Values] \cup {<< >>}

\* A guarded write between its reads and its update: the parsed filing, the row
\* it read and, once "ready", the protected cells.
NoIngest == [at |-> "none"]
Ingest == [at : {"read", "ready"}, full : BOOLEAN, filing : Reading,
           before : Reading, ratio : Derived, prot : SUBSET Cells]

\* The workbook loader stores raw cells and derives nothing; its rows were
\* re-derived later.
FactInit ==
  /\ row \in Reading /\ manual \in {FALSE, Workbook}
  /\ derived \in {Derive(row)} \cup (IF manual THEN {<< >>} ELSE {})
  /\ stands = [c \in Cells |-> IF manual THEN row[c] ELSE Blank]
  /\ edited = {} /\ edits = 0 /\ filings = 0
  /\ ingest = [w \in Workers |-> NoIngest]

-----------------------------------------------------------------------------
(* Corrections. *)

Racing == \E w \in Workers : ingest[w].at # "none"

\* The cells in C move by hand to what `after` says; the row is re-derived and
\* audited in the same transaction.  A value counts as standing unless its cell
\* held none by hand yet and a guarded write is under way.
Corrected(C, after) ==
  /\ edits < MaxEdits
  /\ row' = after
  /\ derived' = Derive(after)
  /\ edited' = edited \cup C
  /\ stands' = [c \in Cells |-> IF c \notin C THEN stands[c]
                               ELSE IF Racing /\ stands[c] = Blank THEN Blank
                               ELSE after[c]]
  /\ edits' = edits + 1
  /\ UNCHANGED <<manual, ingest, filings>>

\* applyRawFieldEdit: `only` is what the predicate of the UPDATE lets the cell
\* hold: anything, null (onlyIfNull) or one value (onlyIfExactly).
EditLands(c, v, only) ==
  /\ row[c] \in only
  /\ Corrected({c}, [row EXCEPT ![c] = v])

\* applyRawFieldEditsForRow: each cell under its own null-only predicate.
BulkLands(values) ==
  LET landed == {c \in Cells : row[c] = Blank /\ values[c] # Blank}
  IN  /\ landed # {}
      /\ Corrected(landed, [c \in Cells |-> IF c \in landed THEN values[c] ELSE row[c]])

-----------------------------------------------------------------------------
(* The guarded write.  The row was there before (an absent row is inserted, *)
(* and there is nothing to guard).                                          *)

\* The filing is parsed and derived; the row is read (for the diff and for the
\* fence, one step here).  full: decideIngest saw a newer filing (refresh); else
\* fill_null_only, for a row another worker inserted since decideIngest looked.
IngestRead(w, filing, full) ==
  /\ filings < MaxFilings
  /\ ingest' = [ingest EXCEPT ![w] =
       [at |-> "read", full |-> full, filing |-> filing,
        before |-> row, ratio |-> derived, prot |-> {}]]
  /\ filings' = filings + 1
  /\ UNCHANGED <<row, derived, edited, manual, edits, stands>>

\* protectedCells: the whole row, or the cells with a raw_field_edits row.
Protected_Edited == edited
Protected == IF manual THEN Cells ELSE edited

ProtRead(w) ==
  /\ ingest[w].at = "read"
  /\ ingest' = [ingest EXCEPT ![w].at = "ready", ![w].prot = Protected]
  /\ UNCHANGED <<row, derived, edited, manual, edits, filings, stands>>

\* Fence first, then the mode.  Derived columns have no raw_field_edits row:
\* only a manual row protects them.
Writable_ModeFirst(g) == {c \in Cells : g.full \/ g.before[c] = Blank}
Writable(g) ==
  {c \in Cells : /\ g.before[c] = Blank \/ c \notin g.prot
                 /\ g.full \/ g.before[c] = Blank}
RatioWritable(g) == g.ratio = << >> \/ (g.full /\ ~manual)

Written(g) == [c \in Cells |-> IF c \in Writable(g) THEN g.filing[c] ELSE row[c]]

\* The update names the row only: what it overwrites is what stands there now.
IngestWrite(w) ==
  LET g == ingest[w]
  IN  /\ g.at = "ready"
      /\ row' = Written(g)
      /\ derived' = IF RatioWritable(g) THEN Derive(g.filing) ELSE derived
      /\ ingest' = [ingest EXCEPT ![w] = NoIngest]
      /\ UNCHANGED <<edited, manual, edits, filings, stands>>

\* Nothing writable: the write returns what it read and checks nothing.
Untouched(g) == Writable(g) = {} /\ ~RatioWritable(g)

\* assertProtectedCellsUnmoved, on the row the update returned.
Layer3Throws(w) ==
  LET g == ingest[w]
  IN  /\ ~Untouched(g)
      /\ \/ \E c \in g.prot : g.before[c] # Blank /\ Written(g)[c] # g.before[c]
         \/ manual /\ g.ratio # << >> /\ derived' # g.ratio

\* diffScoreRelevant.
ScoreRelevant(w) ==
  /\ ~Untouched(ingest[w])
  /\ Written(ingest[w]) # ingest[w].before \/ derived' # ingest[w].ratio

IngestDies(w) ==
  /\ ingest[w].at # "none"
  /\ ingest' = [ingest EXCEPT ![w] = NoIngest]
  /\ UNCHANGED <<row, derived, edited, manual, edits, filings, stands>>

-----------------------------------------------------------------------------
(* Properties.  An operator named X_Y is operator X with the mistake Y.     *)

\* guarded-write.ts, THE FENCE: a value a person entered, by a correction, an
\* import or the workbook, stands until a person changes it, through any number
\* of filings of either mode and any order of their reads, updates and deaths
\* with corrections.  Left out (see `stands`): the first value of a cell when it
\* is entered between the reads and the update of a guarded write.
HandValuesStand == \A c \in Cells : stands[c] # Blank => row[c] = stands[c]

\* re-derive.ts:7-10: once an admin has corrected a raw cell, the stored ratios
\* are those of the stored cells, "what a fresh ingest would have produced from
\* the (now corrected) raw columns".
CorrectedRatiosFollow == edited # {} => derived = Derive(row)
=============================================================================
