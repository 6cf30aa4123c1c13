---------------------------- MODULE RescoreProofs ----------------------------
(***************************************************************************)
(* The chain of score snapshots never forks and the values entered by hand *)
(* stand, for every number of workers and operators and all cells, values  *)
(* and bounds.                                                             *)
(*                                                                         *)
(* Neither is inductive.  An insert appends above the version its job read *)
(* some steps ago: that version is one of the chain (Reads), so that the   *)
(* unique key lets the insert through only if it is the last.  A guarded   *)
(* write overwrites what it has not seen: a cell that holds a hand-entered *)
(* value was already full when the row was read, and among the protected   *)
(* cells once these were (Guards).                                         *)
(***************************************************************************)
EXTENDS Rescore, FiniteSetTheorems, TLAPS

Jobs(d) ==
  {NoJob} \cup [pc : {"compute"}, kind : Kinds]
          \cup [pc : {"check", "live"}, kind : Kinds, got : d]
          \cup [pc : {"insert"}, kind : Kinds, got : d, base : Nat]

\* The versions of the chain are 1 .. Cardinality(chain).
Top == Cardinality(chain)

\* A job about to insert knows a version the chain has, and another score.
Reads ==
  \A w \in Workers : job[w].pc = "insert" =>
    /\ job[w].base \in 0 .. Top
    /\ \A s \in chain : s.ver = job[w].base => s.of # job[w].got

\* What a hand-entered value has behind it, in the row and in each guarded write.
Backed == \A c \in Cells :
  stands[c] # Blank => row[c] = stands[c] /\ (manual \/ c \in edited)
Guards == \A w \in Workers, c \in Cells :
  ingest[w].at # "none" /\ stands[c] # Blank
  => /\ ingest[w].before[c] # Blank
     /\ ingest[w].at = "ready" => c \in ingest[w].prot
Standing == Backed /\ Guards

Chain ==
  /\ IsFiniteSet(chain) /\ ChainIsLinear
  /\ \A s, t \in chain : s.ver = t.ver => s = t
  /\ Reads

-----------------------------------------------------------------------------
(* Types. *)

LEMMA DeriveType == \A r \in Reading : Derive(r) \in Derived
  BY RescoreAssumption, FactRowAssumption DEF Derive, Derived, Reading

FactTypes ==
  /\ row \in Reading /\ derived \in Derived /\ edited \subseteq Cells
  /\ manual \in BOOLEAN /\ stands \in Reading
  /\ ingest \in [Workers -> Ingest \cup {NoIngest}]
  /\ edits \in Nat /\ filings \in Nat

QueueTypes ==
  /\ ask \in [Askers -> Ask \cup {NoAsk}]
  /\ queued \in [Kinds -> Nat]
  /\ \A s \in chain : s \in Snapshot
  /\ job \in [Workers -> Jobs(Derived)]

Types == FactTypes /\ QueueTypes

LEMMA InitTypes == Init => Types
  <1> SUFFICES ASSUME Init PROVE Types
    OBVIOUS
  <1>1. FactTypes
    <2>1. << >> \in Derived /\ stands \in Reading
      BY DEF Init, FactInit, Derived, Reading
    <2> QED BY <2>1, DeriveType, FactRowAssumption DEF Init, FactInit, FactTypes
  <1>2. /\ ask \in [Askers -> Ask \cup {NoAsk}]
        /\ queued \in [Kinds -> Nat] /\ chain = {}
    BY DEF Init
  <1>3. job \in [Workers -> Jobs(Derived)]
    BY DEF Init, Jobs
  <1>4. QueueTypes
    BY <1>2, <1>3 DEF QueueTypes
  <1> QED BY <1>1, <1>4 DEF Types

LEMMA CorrectedTypes ==
  ASSUME FactTypes, NEW C \in SUBSET Cells, NEW after \in Reading, Corrected(C, after)
  PROVE  FactTypes'
  <1>1. stands' \in Reading
    BY DEF FactTypes, Corrected, Reading
  <1> QED BY <1>1, DeriveType DEF FactTypes, Corrected

LEMMA EditedReading ==
  ASSUME FactTypes, NEW c \in Cells, NEW v \in Values \cup {Blank}
  PROVE  [row EXCEPT ![c] = v] \in Reading
  BY DEF FactTypes, Reading

LEMMA EditTypes ==
  ASSUME FactTypes, NEW c \in Cells, NEW v \in Values \cup {Blank}, NEW only,
         EditLands(c, v, only)
  PROVE  FactTypes'
  BY EditedReading, CorrectedTypes DEF EditLands

\* A bulk import is one correction of the cells it lands in.
LEMMA BulkIsCorrection ==
  ASSUME FactTypes, NEW values \in Reading, BulkLands(values)
  PROVE  \E C \in SUBSET Cells, after \in Reading :
           /\ \A c \in Cells \ C : after[c] = row[c]
           /\ Corrected(C, after)
  <1> DEFINE landed == {c \in Cells : row[c] = Blank /\ values[c] # Blank}
             after == [c \in Cells |-> IF c \in landed THEN values[c] ELSE row[c]]
  <1>1. after \in Reading /\ landed \in SUBSET Cells
    BY DEF FactTypes, Reading
  <1>2. Corrected(landed, after)
    BY DEF BulkLands
  <1>3. \A c \in Cells \ landed : after[c] = row[c]
    OBVIOUS
  <1> HIDE DEF landed, after
  <1> QED BY <1>1, <1>2, <1>3

LEMMA BulkTypes ==
  ASSUME FactTypes, NEW values \in Reading, BulkLands(values)
  PROVE  FactTypes'
  BY BulkIsCorrection, CorrectedTypes

LEMMA IngestReadTypes ==
  ASSUME FactTypes, NEW w \in Workers, NEW filing \in Reading, NEW full \in BOOLEAN,
         IngestRead(w, filing, full)
  PROVE  FactTypes'
  <1> DEFINE new == [at |-> "read", full |-> full, filing |-> filing,
                     before |-> row, ratio |-> derived, prot |-> {}]
  <1>1. new \in Ingest
    BY DEF FactTypes, Ingest
  <1>2. ingest' = [ingest EXCEPT ![w] = new] /\ filings' = filings + 1
        /\ UNCHANGED <<row, derived, edited, manual, edits, stands>>
    BY DEF IngestRead
  <1> HIDE DEF new
  <1> QED BY <1>1, <1>2 DEF FactTypes

LEMMA ProtReadTypes ==
  ASSUME FactTypes, NEW w \in Workers, ProtRead(w)
  PROVE  FactTypes'
  <1>1. ingest[w] \in Ingest
    BY DEF FactTypes, ProtRead, NoIngest
  <1>2. Protected \subseteq Cells
    BY DEF FactTypes, Protected
  <1>3. [ingest[w] EXCEPT !.at = "ready", !.prot = Protected] \in Ingest
    BY <1>1, <1>2 DEF Ingest
  <1>4. ingest' = [ingest EXCEPT ![w] = [ingest[w] EXCEPT !.at = "ready", !.prot = Protected]]
    BY DEF ProtRead
  <1> QED BY <1>3, <1>4 DEF FactTypes, ProtRead

LEMMA IngestWriteTypes ==
  ASSUME FactTypes, NEW w \in Workers, IngestWrite(w)
  PROVE  FactTypes'
  <1>1. ingest[w] \in Ingest
    BY DEF FactTypes, IngestWrite, NoIngest
  <1>2. Written(ingest[w]) \in Reading
    BY <1>1 DEF Written, FactTypes, Ingest, Reading
  <1>3. derived' \in Derived
    BY <1>1, DeriveType DEF IngestWrite, FactTypes, Ingest
  <1> QED BY <1>2, <1>3 DEF IngestWrite, FactTypes

LEMMA IngestDiesTypes ==
  ASSUME FactTypes, NEW w \in Workers, IngestDies(w)
  PROVE  FactTypes'
  BY DEF FactTypes, IngestDies

LEMMA FactStutter ==
  ASSUME FactTypes, UNCHANGED factVars
  PROVE  FactTypes'
  BY DEF FactTypes, factVars

\* Everything but the fact row's own steps: who asks, what is queued, what runs.
LEMMA AskTypes ==
  ASSUME QueueTypes, NEW p \in Askers,
         \/ Coalesce(p) \/ ListedNone(p) \/ Enqueue(p) \/ AskLost(p)
         \/ \E k \in Kinds : Asked(p, k) /\ UNCHANGED <<queued, job, chain>>
  PROVE  QueueTypes'
  <1>1. CASE Coalesce(p) \/ AskLost(p)
    BY <1>1 DEF QueueTypes, Coalesce, AskLost
  <1>2. CASE ListedNone(p)
    <2>1. ask[p] \in Ask
      BY <1>2 DEF QueueTypes, ListedNone
    <2>2. [ask[p] EXCEPT !.at = "create"] \in Ask
      BY <2>1 DEF Ask
    <2> QED BY <1>2, <2>2 DEF QueueTypes, ListedNone
  <1>3. CASE Enqueue(p)
    <2>1. ask[p].kind \in Kinds
      BY <1>3 DEF QueueTypes, Enqueue, Ask
    <2>2. queued' \in [Kinds -> Nat]
      BY <1>3, <2>1 DEF QueueTypes, Enqueue
    <2> QED BY <1>3, <2>2 DEF QueueTypes, Enqueue
  <1>4. ASSUME NEW k \in Kinds, Asked(p, k), UNCHANGED <<queued, job, chain>>
        PROVE  QueueTypes'
    <2>1. [at |-> "list", kind |-> k] \in Ask
      BY DEF Ask
    <2> QED BY <1>4, <2>1 DEF QueueTypes, Asked
  <1> QED BY <1>1, <1>2, <1>3, <1>4

\* A job ends or moves on.
LEMMA StepsTypes ==
  ASSUME Types, NEW w \in Workers, NEW j \in Jobs(Derived), Steps(w, j),
         queued' \in [Kinds -> Nat], \A s \in chain' : s \in Snapshot
  PROVE  Types'
  <1>1. FactTypes'
    BY FactStutter DEF Types, Steps
  <1>2. QueueTypes'
    BY DEF Types, QueueTypes, Steps
  <1> QED BY <1>1, <1>2 DEF Types

LEMMA JobKinds ==
  ASSUME Types, NEW w \in Workers, job[w].pc # "idle"
  PROVE  job[w].kind \in Kinds
  BY DEF Types, QueueTypes, Jobs, NoJob

LEMMA ClaimTypes ==
  ASSUME Types, NEW w \in Workers, NEW k \in Kinds, Claim(w, k)
  PROVE  Types'
  <1>1. [pc |-> "compute", kind |-> k] \in Jobs(Derived)
    BY DEF Jobs
  <1>2. queued' \in [Kinds -> Nat]
    BY DEF Claim, Types, QueueTypes
  <1> QED BY <1>1, <1>2, StepsTypes DEF Claim, Types, QueueTypes

LEMMA ComputeTypes ==
  ASSUME Types, NEW w \in Workers, Compute(w)
  PROVE  Types'
  <1> DEFINE j == [pc |-> IF job[w].kind = "rescore" THEN "check" ELSE "live",
                   kind |-> job[w].kind, got |-> derived]
  <1>1. j \in Jobs(Derived)
    BY JobKinds DEF Jobs, Compute, Types, FactTypes
  <1>2. Steps(w, j)
    BY DEF Compute
  <1> HIDE DEF j
  <1> QED BY <1>1, <1>2, StepsTypes DEF Compute, Types, QueueTypes

\* What a job that has computed carries.
LEMMA GotTypes ==
  ASSUME Types, NEW w \in Workers, job[w].pc \in {"check", "live", "insert"}
  PROVE  job[w].got \in Derived
  BY DEF Types, QueueTypes, Jobs, NoJob

LEMMA PreCheckTypes ==
  ASSUME Types, NEW w \in Workers, NEW others \in BOOLEAN, PreCheck(w, others)
  PROVE  Types'
  <1>1. job[w] \in [pc : {"check", "live"}, kind : Kinds, got : Derived]
    BY DEF PreCheck, Types, QueueTypes, Jobs, NoJob
  <1>2. [job[w] EXCEPT !.pc = "live"] \in Jobs(Derived) /\ NoJob \in Jobs(Derived)
    BY <1>1 DEF Jobs
  <1>3. Steps(w, NoJob) \/ Steps(w, [job[w] EXCEPT !.pc = "live"])
    BY DEF PreCheck
  <1> QED BY <1>2, <1>3, StepsTypes DEF PreCheck, Types, QueueTypes

LEMMA EndsTypes ==
  ASSUME Types, NEW w \in Workers, job[w].pc # "idle", Ends(w)
  PROVE  Types'
  <1>1. queued' \in [Kinds -> Nat]
    BY JobKinds DEF Ends, Types, QueueTypes
  <1> QED BY <1>1, StepsTypes DEF Ends, Types, QueueTypes, Jobs

LEMMA LiveReadTypes ==
  ASSUME Types, Version \in Nat, NEW w \in Workers, LiveRead(w)
  PROVE  Types'
  <1> DEFINE j == IF ~Scored(job[w].got) \/ (chain # {} /\ Head.of = job[w].got) THEN NoJob
                  ELSE [pc |-> "insert", kind |-> job[w].kind, got |-> job[w].got,
                        base |-> Version]
  <1>1. job[w].got \in Derived /\ job[w].kind \in Kinds
    BY GotTypes, JobKinds DEF LiveRead
  <1>2. j \in Jobs(Derived)
    BY <1>1 DEF Jobs
  <1>3. Steps(w, j)
    BY DEF LiveRead
  <1> HIDE DEF j
  <1> QED BY <1>2, <1>3, StepsTypes DEF LiveRead, Types, QueueTypes

LEMMA BaseType ==
  ASSUME Types, NEW w \in Workers, job[w].pc = "insert"
  PROVE  job[w].base \in Nat
  BY DEF Types, QueueTypes, Jobs, NoJob

LEMMA InsertTypes ==
  ASSUME Types, NEW w \in Workers, Insert(w)
  PROVE  Types'
  <1>1. Appended(w) \in Snapshot
    BY GotTypes, BaseType DEF Insert, Appended, Snapshot
  <1>2. \A s \in chain' : s \in Snapshot
    BY <1>1 DEF Insert, Types, QueueTypes
  <1> QED BY <1>2, StepsTypes DEF Insert, Types, QueueTypes, Jobs

\* The steps that run no job.
Elsewhere ==
  \/ \E x \in Admins :
       \/ RescoreButton(x)
       \/ \E c \in Cells, v \in Values \cup {Blank}, only \in Only :
            Correct(x, c, v, only)
  \/ \E r \in Reading : BulkImport(r)
  \/ \E p \in Askers : Coalesce(p) \/ ListedNone(p) \/ Enqueue(p) \/ AskLost(p)
  \/ \E w \in Workers :
       \/ PricesDone(w) \/ FenceIngest(w) \/ FinishIngest(w) \/ AbortIngest(w)
       \/ \E r \in Reading, full \in BOOLEAN : StartIngest(w, r, full)
  \/ UNCHANGED vars

LEMMA QueueStutter ==
  ASSUME QueueTypes, UNCHANGED <<ask, queued, job, chain>>
  PROVE  QueueTypes'
  BY DEF QueueTypes

LEMMA ElsewhereTypes ==
  ASSUME Types, Elsewhere
  PROVE  Types' /\ UNCHANGED <<job, chain>>
  <1> USE DEF Types
  <1>1. ASSUME NEW x \in Admins, RescoreButton(x)
        PROVE  Types' /\ UNCHANGED <<job, chain>>
    BY <1>1, FactStutter, AskTypes DEF RescoreButton, Askers, Kinds
  <1>2. ASSUME NEW x \in Admins, NEW c \in Cells, NEW v \in Values \cup {Blank},
               NEW only \in Only, Correct(x, c, v, only)
        PROVE  Types' /\ UNCHANGED <<job, chain>>
    BY <1>2, EditTypes, AskTypes DEF Correct, Askers, Kinds
  <1>3. ASSUME NEW r \in Reading, BulkImport(r)
        PROVE  Types' /\ UNCHANGED <<job, chain>>
    BY <1>3, BulkTypes, QueueStutter DEF BulkImport, rescoreVars
  <1>4. ASSUME NEW p \in Askers, Coalesce(p) \/ ListedNone(p) \/ Enqueue(p) \/ AskLost(p)
        PROVE  Types' /\ UNCHANGED <<job, chain>>
    <2>1. UNCHANGED factVars /\ UNCHANGED <<job, chain>>
      BY <1>4 DEF Coalesce, ListedNone, Enqueue, AskLost
    <2> QED BY <1>4, <2>1, FactStutter, AskTypes
  <1>5. ASSUME NEW w \in Workers, PricesDone(w)
        PROVE  Types' /\ UNCHANGED <<job, chain>>
    BY <1>5, FactStutter, AskTypes DEF PricesDone, Askers, Kinds
  <1>5a. ASSUME NEW w \in Workers, FenceIngest(w)
         PROVE  Types' /\ UNCHANGED <<job, chain>>
    BY <1>5a, ProtReadTypes, QueueStutter DEF FenceIngest, rescoreVars
  <1>6. ASSUME NEW w \in Workers, FinishIngest(w)
        PROVE  Types' /\ UNCHANGED <<job, chain>>
    <2>1. FactTypes'
      BY <1>6, IngestWriteTypes DEF FinishIngest
    <2>2. UNCHANGED <<queued, job, chain>> /\ (Asked(w, "rescore") \/ UNCHANGED ask)
      BY <1>6 DEF FinishIngest
    <2>3. QueueTypes'
      BY <2>2, AskTypes, QueueStutter DEF Askers, Kinds
    <2> QED BY <2>1, <2>2, <2>3
  <1>7. ASSUME NEW w \in Workers, AbortIngest(w)
        PROVE  Types' /\ UNCHANGED <<job, chain>>
    BY <1>7, IngestDiesTypes, QueueStutter DEF AbortIngest
  <1>8. ASSUME NEW w \in Workers, NEW r \in Reading, NEW full \in BOOLEAN,
               StartIngest(w, r, full)
        PROVE  Types' /\ UNCHANGED <<job, chain>>
    BY <1>8, IngestReadTypes, QueueStutter DEF StartIngest, rescoreVars
  <1>9. CASE UNCHANGED vars
    BY <1>9, FactStutter, QueueStutter DEF vars, factVars
  <1> QED BY <1>1, <1>2, <1>3, <1>4, <1>5, <1>5a, <1>6, <1>7, <1>8, <1>9 DEF Elsewhere

LEMMA JobTypes ==
  ASSUME Types, Version \in Nat, NEW w \in Workers,
         \/ \E k \in Kinds : Claim(w, k)
         \/ Compute(w) \/ (\E others \in BOOLEAN : PreCheck(w, others)) \/ LiveRead(w) \/ Insert(w)
         \/ Conflict(w) \/ JobLost(w)
  PROVE  Types'
  <1>1. CASE Conflict(w) \/ JobLost(w)
    BY <1>1, EndsTypes DEF Conflict, JobLost
  <1> QED BY <1>1, ClaimTypes, ComputeTypes, PreCheckTypes, LiveReadTypes, InsertTypes

-----------------------------------------------------------------------------
(* The chain. *)

LEMMA VersionIsTop ==
  ASSUME Chain, \A s \in chain : s \in Snapshot
  PROVE  /\ Top \in Nat /\ Version = Top
         /\ chain # {} => \A s \in chain : s.ver = Top => s = Head
  <1>1. Top \in Nat
    BY FS_CardinalityType DEF Chain, Top
  <1>2. CASE chain = {}
    BY <1>2, FS_EmptySet DEF Top, Version
  <1>3. CASE chain # {}
    <2> DEFINE vers == {s.ver : s \in chain}
    <2>1. vers = 1 .. Top
      BY DEF Chain, ChainIsLinear, Top
    <2>2. Top \in vers /\ \A s \in chain : s.ver \in 1 .. Top
      <3>1. \A s \in chain : s.ver \in vers
        OBVIOUS
      <3> HIDE DEF vers
      <3> QED BY <1>1, <1>3, <2>1, <3>1
    <2>3. \A n \in vers : (\A s \in chain : s.ver <= n) => n = Top
      <3>1. PICK s \in chain : s.ver = Top
        BY <2>2
      <3> QED BY <3>1, <2>1, <1>1
    <2>4. Version = Top
      <3>1. \E n \in vers : \A s \in chain : s.ver <= n
        BY <2>2, <1>1
      <3>2. Version = CHOOSE n \in vers : \A s \in chain : s.ver <= n
        BY <1>3 DEF Version
      <3> HIDE DEF vers
      <3> QED BY <3>1, <3>2, <2>3
    <2>5. Head \in chain /\ Head.ver = Top
      BY <2>2, <2>4 DEF Head
    <2> QED BY <1>1, <2>4, <2>5 DEF Chain
  <1> QED BY <1>1, <1>2, <1>3

\* While the chain stands, the jobs that do not come to the insert disturb nothing.
LEMMA ChainStands ==
  ASSUME Chain, chain' = chain,
         \A w \in Workers : job'[w] = job[w] \/ job'[w].pc # "insert"
  PROVE  Chain'
  <1>1. Reads'
    BY DEF Chain, Reads, Top
  <1>2. ChainIsLinear'
    BY DEF Chain, ChainIsLinear
  <1> QED BY <1>1, <1>2 DEF Chain

LEMMA StepsChain ==
  ASSUME Types, Chain, chain' = chain, NEW w \in Workers, NEW j, Steps(w, j),
         j.pc # "insert"
  PROVE  Chain'
  <1>1. \A u \in Workers : job'[u] = IF u = w THEN j ELSE job[u]
    BY DEF Types, QueueTypes, Steps
  <1> QED BY <1>1, ChainStands

LEMMA LiveReadChain ==
  ASSUME Types, Chain, NEW w \in Workers, LiveRead(w)
  PROVE  Chain'
  <1>1. CASE ~Scored(job[w].got) \/ (chain # {} /\ Head.of = job[w].got)
    <2>1. Steps(w, NoJob) /\ chain' = chain
      BY <1>1 DEF LiveRead
    <2> QED BY <2>1, StepsChain DEF NoJob
  <1>2. CASE Scored(job[w].got) /\ ~(chain # {} /\ Head.of = job[w].got)
    <2> DEFINE j == [pc |-> "insert", kind |-> job[w].kind, got |-> job[w].got,
                     base |-> Version]
    <2>1. Steps(w, j) /\ chain' = chain
      BY <1>2 DEF LiveRead
    <2>2. \A u \in Workers : job'[u] = IF u = w THEN j ELSE job[u]
      BY <2>1 DEF Types, QueueTypes, Steps
    <2>3. Version = Top /\ Top \in Nat
      BY VersionIsTop DEF Types, QueueTypes
    <2>4. \A s \in chain : s.ver = Version => s.of # job[w].got
      BY <1>2, VersionIsTop DEF Types, QueueTypes
    <2>5. j.base \in 0 .. Top /\ \A s \in chain : s.ver = j.base => s.of # j.got
      BY <2>3, <2>4
    <2> HIDE DEF j
    <2>6. Reads'
      BY <2>1, <2>2, <2>5 DEF Chain, Reads, Top
    <2>7. ChainIsLinear'
      BY <2>1 DEF Chain, ChainIsLinear
    <2> QED BY <2>1, <2>6, <2>7 DEF Chain
  <1> QED BY <1>1, <1>2

\* The unique key on the version lets an insert through only at the end.
LEMMA InsertChain ==
  ASSUME Types, Chain, NEW w \in Workers, Insert(w)
  PROVE  Chain'
  <1> DEFINE new == Appended(w)
  <1>1. Top \in Nat
    BY VersionIsTop DEF Types, QueueTypes
  <1>2. /\ job[w].base \in 0 .. Top
        /\ \A s \in chain : s.ver = job[w].base => s.of # job[w].got
    BY DEF Insert, Chain, Reads
  <1>3. \A s \in chain : s.ver \in 1 .. Top /\ s.sup = s.ver - 1
    BY DEF Chain, ChainIsLinear, Top
  <1>4. \A n \in 1 .. Top : \E s \in chain : s.ver = n
    <2> SUFFICES ASSUME NEW n \in 1 .. Top PROVE n \in {s.ver : s \in chain}
      OBVIOUS
    <2> QED BY DEF Chain, ChainIsLinear, Top
  <1>5. \A s \in chain : s.ver # job[w].base + 1
    BY DEF Insert, Unique, Appended
  <1>6. job[w].base = Top
    BY <1>1, <1>2, <1>4, <1>5
  <1>7. new.ver = Top + 1 /\ new.sup = Top /\ new.of = job[w].got
    BY <1>6 DEF Appended
  <1>8. chain' = chain \cup {new} /\ new \notin chain
    BY <1>1, <1>3, <1>7 DEF Insert
  <1>9. IsFiniteSet(chain') /\ Cardinality(chain') = Top + 1
    BY <1>8, FS_AddElement DEF Chain, Top
  <1> HIDE DEF new
  <1>10. ChainIsLinear'
    <2>1. {s.ver : s \in chain'} = 1 .. Cardinality(chain')
      <3>1. \A s \in chain' : s.ver \in 1 .. Top + 1
        BY <1>1, <1>3, <1>7, <1>8
      <3>2. \A n \in 1 .. Top + 1 : \E s \in chain' : s.ver = n
        BY <1>1, <1>4, <1>7, <1>8
      <3> QED BY <1>9, <3>1, <3>2
    <2>2. \A s \in chain' : s.sup = s.ver - 1
      BY <1>1, <1>3, <1>7, <1>8
    <2>3. ASSUME NEW s \in chain', NEW t \in chain', t.sup = s.ver
          PROVE  t.of # s.of
      <3>1. CASE s \in chain /\ t \in chain
        BY <2>3, <3>1 DEF Chain, ChainIsLinear
      <3>2. CASE s \in chain /\ t = new
        BY <2>3, <3>2, <1>2, <1>6, <1>7
      <3>3. CASE s = new
        BY <2>3, <3>3, <1>1, <1>3, <1>7, <1>8
      <3> QED BY <1>8, <3>1, <3>2, <3>3
    <2> QED BY <2>1, <2>2, <2>3 DEF ChainIsLinear
  <1>11. \A s, t \in chain' : s.ver = t.ver => s = t
    BY <1>1, <1>3, <1>7, <1>8 DEF Chain
  <1>12. Reads'
    <2>1. \A u \in Workers : job'[u] = IF u = w THEN NoJob ELSE job[u]
      BY DEF Insert, Types, QueueTypes, Steps
    <2>2. Top' = Top + 1
      BY <1>9 DEF Top
    <2> SUFFICES ASSUME NEW u \in Workers, job'[u].pc = "insert"
        PROVE  /\ job'[u].base \in 0 .. Top'
               /\ \A s \in chain' : s.ver = job'[u].base => s.of # job'[u].got
      BY DEF Reads
    <2>3. job'[u] = job[u]
      BY <2>1 DEF NoJob
    <2>4. /\ job[u].base \in 0 .. Top
          /\ \A s \in chain : s.ver = job[u].base => s.of # job[u].got
      BY <2>3 DEF Chain, Reads
    <2> QED BY <1>1, <1>7, <1>8, <2>2, <2>3, <2>4
  <1> QED BY <1>9, <1>10, <1>11, <1>12 DEF Chain

LEMMA JobChain ==
  ASSUME Types, Chain, NEW w \in Workers,
         \/ \E k \in Kinds : Claim(w, k)
         \/ Compute(w) \/ (\E others \in BOOLEAN : PreCheck(w, others)) \/ LiveRead(w) \/ Insert(w)
         \/ Conflict(w) \/ JobLost(w)
  PROVE  Chain'
  <1>1. ASSUME NEW k \in Kinds, Claim(w, k)
        PROVE  Chain'
    BY <1>1, StepsChain DEF Claim
  <1>2. CASE Compute(w)
    <2> DEFINE j == [pc |-> IF job[w].kind = "rescore" THEN "check" ELSE "live",
                     kind |-> job[w].kind, got |-> derived]
    <2>1. j.pc # "insert"
      OBVIOUS
    <2>2. Steps(w, j) /\ chain' = chain
      BY <1>2 DEF Compute
    <2> HIDE DEF j
    <2> QED BY <2>1, <2>2, StepsChain
  <1>3. ASSUME NEW others \in BOOLEAN, PreCheck(w, others)
        PROVE  Chain'
    <2>1. job[w] \in [pc : {"check", "live"}, kind : Kinds, got : Derived]
      BY <1>3 DEF PreCheck, Types, QueueTypes, Jobs, NoJob
    <2>2. [job[w] EXCEPT !.pc = "live"].pc # "insert" /\ NoJob.pc # "insert"
      BY <2>1 DEF NoJob
    <2>3. /\ Steps(w, NoJob) \/ Steps(w, [job[w] EXCEPT !.pc = "live"])
          /\ chain' = chain
      BY <1>3 DEF PreCheck
    <2> QED BY <2>2, <2>3, StepsChain
  <1>4. CASE Conflict(w) \/ JobLost(w)
    <2>1. Steps(w, NoJob) /\ chain' = chain
      BY <1>4 DEF Conflict, JobLost, Ends
    <2> QED BY <2>1, StepsChain DEF NoJob
  <1> QED BY <1>1, <1>2, <1>3, <1>4, LiveReadChain, InsertChain

LEMMA InitChain == Init => Chain
  <1> SUFFICES ASSUME Init PROVE Chain
    OBVIOUS
  <1>1. chain = {} /\ IsFiniteSet(chain) /\ Cardinality(chain) = 0
    BY FS_EmptySet DEF Init
  <1>2. Reads
    BY DEF Init, Reads, NoJob
  <1>3. ChainIsLinear
    BY <1>1 DEF ChainIsLinear
  <1> QED BY <1>1, <1>2, <1>3 DEF Chain

LEMMA NextKeeps == Types /\ Chain /\ [Next]_vars => Types' /\ Chain'
  <1> SUFFICES ASSUME Types, Chain, [Next]_vars PROVE Types' /\ Chain'
    OBVIOUS
  <1>1. CASE Elsewhere
    BY <1>1, ElsewhereTypes, ChainStands
  <1>2. ASSUME NEW w \in Workers,
               \/ \E k \in Kinds : Claim(w, k)
               \/ Compute(w) \/ (\E others \in BOOLEAN : PreCheck(w, others)) \/ LiveRead(w) \/ Insert(w)
               \/ Conflict(w) \/ JobLost(w)
        PROVE  Types' /\ Chain'
    <2>1. Version \in Nat
      BY VersionIsTop DEF Types, QueueTypes
    <2> QED BY <1>2, <2>1, JobTypes, JobChain
  <1> QED BY <1>1, <1>2 DEF Next, Elsewhere

-----------------------------------------------------------------------------
(* The values entered by hand. *)

LEMMA CorrectedStanding ==
  ASSUME FactTypes, Standing, NEW C \in SUBSET Cells, NEW after \in Reading,
         Corrected(C, after), \A c \in Cells \ C : after[c] = row[c]
  PROVE  Standing'
  <1>1. \A c \in Cells : stands'[c] = IF c \notin C THEN stands[c]
                                     ELSE IF Racing /\ stands[c] = Blank THEN Blank
                                     ELSE after[c]
    BY DEF Corrected
  <1>2. /\ row' = after /\ edited' = edited \cup C
        /\ UNCHANGED <<manual, ingest>>
    BY DEF Corrected
  <1>3. Backed'
    BY <1>1, <1>2 DEF Standing, Backed
  <1>4. Guards'
    <2> SUFFICES ASSUME NEW w \in Workers, NEW c \in Cells,
                        ingest[w].at # "none", stands'[c] # Blank
                 PROVE  /\ ingest[w].before[c] # Blank
                        /\ ingest[w].at = "ready" => c \in ingest[w].prot
      BY <1>2 DEF Guards
    <2>1. Racing
      BY DEF Racing
    <2>2. stands[c] # Blank
      BY <1>1, <2>1
    <2> QED BY <2>2 DEF Standing, Guards
  <1> QED BY <1>3, <1>4 DEF Standing

LEMMA IngestReadStanding ==
  ASSUME FactTypes, Standing, NEW w \in Workers, NEW filing, NEW full,
         IngestRead(w, filing, full)
  PROVE  Standing'
  <1>1. /\ \A u \in Workers : u # w => ingest'[u] = ingest[u]
        /\ ingest'[w].at = "read" /\ ingest'[w].before = row
        /\ UNCHANGED <<row, edited, manual, stands>>
    BY DEF IngestRead, FactTypes
  <1> QED BY <1>1 DEF Standing, Backed, Guards

LEMMA ProtReadStanding ==
  ASSUME FactTypes, Standing, NEW w \in Workers, ProtRead(w)
  PROVE  Standing'
  <1>1. ingest[w] \in Ingest /\ ingest[w].at = "read"
    BY DEF FactTypes, ProtRead, NoIngest
  <1>2. /\ \A u \in Workers : u # w => ingest'[u] = ingest[u]
        /\ ingest'[w].before = ingest[w].before /\ ingest'[w].prot = Protected
        /\ UNCHANGED <<row, edited, manual, stands>>
    BY <1>1 DEF ProtRead, FactTypes, Ingest
  <1>3. \A c \in Cells : stands[c] # Blank => c \in Protected
    BY DEF Standing, Backed, Protected
  <1> QED BY <1>1, <1>2, <1>3 DEF Standing, Backed, Guards

LEMMA IngestWriteStanding ==
  ASSUME FactTypes, Standing, NEW w \in Workers, IngestWrite(w)
  PROVE  Standing'
  <1>1. /\ \A u \in Workers : u # w => ingest'[u] = ingest[u]
        /\ ingest'[w].at = "none" /\ ingest[w].at = "ready"
        /\ row' = Written(ingest[w])
        /\ UNCHANGED <<edited, manual, stands>>
    BY DEF IngestWrite, FactTypes, NoIngest
  <1>2. ASSUME NEW c \in Cells, stands[c] # Blank
        PROVE  row'[c] = row[c]
    <2>1. c \notin Writable(ingest[w])
      BY <1>1, <1>2 DEF Standing, Guards, Writable
    <2> QED BY <1>1, <2>1 DEF Written
  <1> QED BY <1>1, <1>2 DEF Standing, Backed, Guards

LEMMA IngestDiesStanding ==
  ASSUME FactTypes, Standing, NEW w \in Workers, IngestDies(w)
  PROVE  Standing'
  <1>1. /\ \A u \in Workers : u # w => ingest'[u] = ingest[u]
        /\ ingest'[w].at = "none"
        /\ UNCHANGED <<row, edited, manual, stands>>
    BY DEF IngestDies, FactTypes, NoIngest
  <1> QED BY <1>1 DEF Standing, Backed, Guards

LEMMA FactKeepsStanding ==
  ASSUME Standing, UNCHANGED factVars
  PROVE  Standing'
  BY DEF Standing, Backed, Guards, factVars

\* Corrections, imports and guarded writes; every other step leaves the row alone.
LEMMA NextStanding == Types /\ Standing /\ [Next]_vars => Standing'
  <1> SUFFICES ASSUME Types, Standing, [Next]_vars PROVE Standing'
    OBVIOUS
  <1> USE DEF Types
  <1>1. ASSUME NEW x \in Admins, NEW c \in Cells, NEW v \in Values \cup {Blank},
               NEW only, Correct(x, c, v, only)
        PROVE  Standing'
    <2> DEFINE after == [row EXCEPT ![c] = v]
    <2>1. Corrected({c}, after) /\ after \in Reading
      BY <1>1, EditedReading DEF Correct, EditLands
    <2>2. \A d \in Cells \ {c} : after[d] = row[d]
      BY DEF FactTypes, Reading
    <2> HIDE DEF after
    <2> QED BY <2>1, <2>2, CorrectedStanding
  <1>2. ASSUME NEW r \in Reading, BulkImport(r)
        PROVE  Standing'
    BY <1>2, BulkIsCorrection, CorrectedStanding DEF BulkImport
  <1>3. ASSUME NEW w \in Workers,
               \/ FenceIngest(w) \/ FinishIngest(w) \/ AbortIngest(w)
               \/ \E r \in Reading, full \in BOOLEAN : StartIngest(w, r, full)
        PROVE  Standing'
    BY <1>3, IngestReadStanding, ProtReadStanding, IngestWriteStanding, IngestDiesStanding
       DEF FenceIngest, FinishIngest, AbortIngest, StartIngest
  <1>4. ASSUME NEW w \in Workers,
               \/ \E k \in Kinds : Claim(w, k)
               \/ Compute(w) \/ (\E others \in BOOLEAN : PreCheck(w, others))
               \/ LiveRead(w) \/ Insert(w) \/ Conflict(w) \/ JobLost(w)
        PROVE  Standing'
    BY <1>4, FactKeepsStanding
       DEF Claim, Compute, PreCheck, LiveRead, Insert, Conflict, JobLost, Ends, Steps
  <1>5. ASSUME NEW p \in Askers,
               \/ Coalesce(p) \/ ListedNone(p) \/ Enqueue(p) \/ AskLost(p)
               \/ RescoreButton(p) \/ PricesDone(p)
        PROVE  Standing'
    BY <1>5, FactKeepsStanding
       DEF Coalesce, ListedNone, Enqueue, AskLost, RescoreButton, PricesDone
  <1>6. CASE UNCHANGED vars
    BY <1>6, FactKeepsStanding DEF vars, factVars
  <1> QED BY <1>1, <1>2, <1>3, <1>4, <1>5, <1>6 DEF Next, Askers

LEMMA InitStanding == Init => Standing
  <1> SUFFICES ASSUME Init PROVE Standing
    OBVIOUS
  <1>1. Backed
    BY DEF Init, FactInit, Backed
  <1>2. Guards
    BY DEF Init, FactInit, Guards, NoIngest
  <1> QED BY <1>1, <1>2 DEF Standing

LEMMA Invariance == Spec => [](Types /\ Chain /\ Standing)
  BY InitTypes, InitChain, InitStanding, NextKeeps, NextStanding, PTL DEF Spec

-----------------------------------------------------------------------------
(* Theorems. *)

\* Every variable has its type whatever jobs, corrections and filings overlap; in
\* particular a snapshot is of a reading the derivation can have produced.
THEOREM RescoreTypesHold == Spec => []TypeOK
  <1>1. Types => TypeOK
    BY DEF Types, FactTypes, QueueTypes, TypeOK
  <1> QED BY <1>1, Invariance, PTL

\* persistMember's snapshots of a stock and period are one line of versions, each
\* superseding the one below it with another score, for any number of workers.
THEOREM ChainNeverForks == Spec => []ChainIsLinear
  <1>1. Chain => ChainIsLinear
    BY DEF Chain
  <1> QED BY <1>1, Invariance, PTL

\* guarded-write.ts, THE FENCE: whatever filings of either mode are read, fenced,
\* written or abandoned by however many workers, in any order with corrections
\* and imports, a value entered by hand (and not while a guarded write was under
\* way on a cell that held none) is what the row holds until a person changes it.
THEOREM HandValuesHold == Spec => []HandValuesStand
  <1>1. Standing => HandValuesStand
    BY DEF Standing, Backed, HandValuesStand
  <1> QED BY <1>1, Invariance, PTL
=============================================================================
