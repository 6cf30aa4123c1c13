------------------------------- MODULE Rescore -------------------------------
(***************************************************************************)
(* From a changed row to a published score: the triggers that enqueue      *)
(* rescoring jobs (jobs/scoring-triggers.ts, the hook of worker.ts, the    *)
(* tail of applyRawFieldEdit, the admin's re-score button), the two kinds  *)
(* of job (pg-rescore.handler.ts; general-cascade.ts and                   *)
(* banking-cascade.ts, which for the current period run one live step) and *)
(* the chain of score snapshots persistMember appends to.                  *)
(*                                                                         *)
(* The queue itself is JobQueue's: here a job is pending, running or gone. *)
(***************************************************************************)
EXTENDS FactRow

CONSTANTS
  Admins,   \* HTTP requests of operators
  Weighty,  \* the cells whose move shows in the composite; other moves net out
  NoAsk,    \* not asking for a rescore
  Essential, \* TRUE: without the ratio too few pillars are left for a composite
  MaxLosses \* bound: hooks, jobs and ingestions cut short

ASSUME RescoreAssumption == Weighty \subseteq Cells /\ Essential \in BOOLEAN /\ MaxLosses \in Nat

VARIABLES
  ask,     \* per request or hook: the job it wants, and how far it is
  queued,  \* per kind: how many jobs for this peer group are pending
  job,     \* per worker: the rescoring job it runs
  chain,   \* the score_snapshots of this stock and period
  losses

rescoreVars == <<ask, queued, job, chain, losses>>
vars == <<row, derived, edited, manual, ingest, edits, filings, stands,
          ask, queued, job, chain, losses>>

Kinds == {"rescore", "cascade"}
Askers == Admins \cup Workers

Ask == [at : {"list", "create"}, kind : Kinds]
NoJob == [pc |-> "idle"]

\* A snapshot: what it was computed from, its version, the version it supersedes.
Snapshot == [of : Derived, ver : Nat, sup : Nat]
Version == IF chain = {} THEN 0
           ELSE CHOOSE n \in {s.ver : s \in chain} : \A s \in chain : s.ver <= n
Head == CHOOSE s \in chain : s.ver = Version

\* The composite fingerprint: subtotals at four decimals.
Comp(d) == [c \in Weighty \cap DOMAIN d |-> d[c]]
\* composite.state; an unavailable composite has no snapshot.
Scored(d) == d # << >> \/ ~Essential

Init ==
  /\ FactInit
  /\ ask = [p \in Askers |-> NoAsk]
  /\ queued = [k \in Kinds |-> 0]
  /\ job = [w \in Workers |-> NoJob]
  /\ chain = {} /\ losses = 0

-----------------------------------------------------------------------------
(* What sets a rescore off. *)

WorkerIdle(w) == ingest[w] = NoIngest /\ ask[w] = NoAsk /\ job[w] = NoJob
Asked(p, k) == ask' = [ask EXCEPT ![p] = [at |-> "list", kind |-> k]]

\* A correction of a fundamentals row asks for the cascade of its period.
Correct(x, c, v, only) ==
  /\ ask[x] = NoAsk
  /\ EditLands(c, v, only)
  /\ Asked(x, "cascade")
  /\ UNCHANGED <<queued, job, chain, losses>>

\* skipCascade: the bulk import asks for nothing.
BulkImport(values) == BulkLands(values) /\ UNCHANGED rescoreVars

RescoreButton(x) ==
  /\ ask[x] = NoAsk
  /\ Asked(x, "rescore")
  /\ UNCHANGED <<queued, job, chain, losses>> /\ UNCHANGED factVars

\* EOD_PRICES_DAILY with new rows: the hook after the success asks for all groups.
PricesDone(w) ==
  /\ WorkerIdle(w)
  /\ Asked(w, "rescore")
  /\ UNCHANGED <<queued, job, chain, losses>> /\ UNCHANGED factVars

StartIngest(w, filing, full) ==
  /\ WorkerIdle(w)
  /\ IngestRead(w, filing, full)
  /\ UNCHANGED rescoreVars

FenceIngest(w) == ProtRead(w) /\ UNCHANGED rescoreVars

\* RESULTS_SCAN: the hook asks if a column the scorer reads moved; a symbol on
\* which the fence check threw counts as failed.
FinishIngest(w) ==
  /\ IngestWrite(w)
  /\ IF ScoreRelevant(w) /\ ~Layer3Throws(w) THEN Asked(w, "rescore")
     ELSE UNCHANGED ask
  /\ UNCHANGED <<queued, job, chain, losses>>

Loses == losses < MaxLosses /\ losses' = losses + 1

AbortIngest(w) ==
  /\ Loses /\ IngestDies(w)
  /\ UNCHANGED <<ask, queued, job, chain>>

-----------------------------------------------------------------------------
(* Enqueueing: list the active jobs, then create one. *)

Runs(w, k) == job[w].pc # "idle" /\ job[w].kind = k
InFlight(k) == queued[k] > 0 \/ \E w \in Workers : Runs(w, k)

Coalesce(p) ==
  /\ ask[p] # NoAsk /\ ask[p].at = "list" /\ InFlight(ask[p].kind)
  /\ ask' = [ask EXCEPT ![p] = NoAsk]
  /\ UNCHANGED <<queued, job, chain, losses>> /\ UNCHANGED factVars

ListedNone(p) ==
  /\ ask[p] # NoAsk /\ ask[p].at = "list" /\ ~InFlight(ask[p].kind)
  /\ ask' = [ask EXCEPT ![p].at = "create"]
  /\ UNCHANGED <<queued, job, chain, losses>> /\ UNCHANGED factVars

Enqueue(p) ==
  /\ ask[p] # NoAsk /\ ask[p].at = "create"
  /\ queued' = [queued EXCEPT ![ask[p].kind] = @ + 1]
  /\ ask' = [ask EXCEPT ![p] = NoAsk]
  /\ UNCHANGED <<job, chain, losses>> /\ UNCHANGED factVars

\* The asking process dies, or the database refuses: the triggers are best effort.
AskLost(p) ==
  /\ ask[p] # NoAsk /\ Loses
  /\ ask' = [ask EXCEPT ![p] = NoAsk]
  /\ UNCHANGED <<queued, job, chain>> /\ UNCHANGED factVars

-----------------------------------------------------------------------------
(* The job. *)

Steps(w, j) ==
  /\ job' = [job EXCEPT ![w] = j]
  /\ UNCHANGED ask /\ UNCHANGED factVars

Claim(w, k) ==
  /\ WorkerIdle(w) /\ queued[k] > 0
  /\ queued' = [queued EXCEPT ![k] = @ - 1]
  /\ Steps(w, [pc |-> "compute", kind |-> k])
  /\ UNCHANGED <<chain, losses>>

\* computePgScores: pure reads, outside any transaction.
Compute(w) ==
  /\ job[w].pc = "compute"
  /\ Steps(w, [pc |-> IF job[w].kind = "rescore" THEN "check" ELSE "live",
               kind |-> job[w].kind, got |-> derived])
  /\ UNCHANGED <<queued, chain, losses>>

\* The pre-check compares the composite fingerprints only, with the head's, and
\* goes on if that of any member of the group differs: this one's, or another's.
SameAsHead_First(got) ==
  chain # {} /\ Comp((CHOOSE s \in chain : s.ver = 1).of) = Comp(got)
SameAsHead(got) == chain # {} /\ Comp(Head.of) = Comp(got)

PreCheck(w, others) ==
  /\ job[w].pc = "check"
  /\ Steps(w, IF others \/ (Scored(job[w].got) /\ ~SameAsHead(job[w].got))
              THEN [job[w] EXCEPT !.pc = "live"] ELSE NoJob)
  /\ UNCHANGED <<queued, chain, losses>>

\* persistMember: the head of the chain is read, and an identical one, leaf by
\* leaf, is kept.
LiveRead(w) ==
  /\ job[w].pc = "live"
  /\ Steps(w, IF ~Scored(job[w].got) \/ (chain # {} /\ Head.of = job[w].got) THEN NoJob
              ELSE [pc |-> "insert", kind |-> job[w].kind, got |-> job[w].got,
                    base |-> Version])
  /\ UNCHANGED <<queued, chain, losses>>

\* The two unique keys of score_snapshots.
Unique_Absent(s) == TRUE
Unique(s) == \A t \in chain : t.ver # s.ver /\ (s.sup # 0 => t.sup # s.sup)

Appended(w) == [of |-> job[w].got, ver |-> job[w].base + 1, sup |-> job[w].base]

Insert(w) ==
  /\ job[w].pc = "insert" /\ Unique(Appended(w))
  /\ chain' = chain \cup {Appended(w)}
  /\ Steps(w, NoJob)
  /\ UNCHANGED <<queued, losses>>

\* A job that ends without its effect rolls its transaction back, and is queued
\* again or, its attempts spent or cancelled, gone.
Ends(w) ==
  /\ \/ queued' = [queued EXCEPT ![job[w].kind] = @ + 1]
     \/ UNCHANGED queued
  /\ Steps(w, NoJob)
  /\ UNCHANGED chain

Conflict(w) ==
  /\ job[w].pc = "insert" /\ ~Unique(Appended(w))
  /\ Ends(w) /\ UNCHANGED losses

JobLost(w) == job[w].pc # "idle" /\ Loses /\ Ends(w)

-----------------------------------------------------------------------------

Only == {Values \cup {Blank}} \cup {{v} : v \in Values \cup {Blank}}

Next ==
  \/ \E x \in Admins :
       \/ RescoreButton(x)
       \/ \E c \in Cells, v \in Values \cup {Blank}, only \in Only :
            Correct(x, c, v, only)
  \/ \E r \in Reading : BulkImport(r)
  \/ \E p \in Askers : Coalesce(p) \/ ListedNone(p) \/ Enqueue(p) \/ AskLost(p)
  \/ \E w \in Workers :
       \/ PricesDone(w) \/ FenceIngest(w) \/ FinishIngest(w) \/ AbortIngest(w)
       \/ \E r \in Reading, full \in BOOLEAN : StartIngest(w, r, full)
       \/ \E k \in Kinds : Claim(w, k)
       \/ \E others \in BOOLEAN : PreCheck(w, others)
       \/ Compute(w) \/ LiveRead(w) \/ Insert(w)
       \/ Conflict(w) \/ JobLost(w)

Spec == Init /\ [][Next]_vars

\* Prices are ingested every trading day, no job hangs, and a worker with pending
\* jobs in the queue does not leave them for ever.
Fairness ==
  \A w \in Workers :
    /\ WF_vars(PricesDone(w)) /\ SF_vars(\E k \in Kinds : Claim(w, k))
    /\ WF_vars(FenceIngest(w) \/ FinishIngest(w))
    /\ WF_vars(Coalesce(w) \/ ListedNone(w) \/ Enqueue(w))
    /\ WF_vars(\/ Compute(w) \/ \E others \in BOOLEAN : PreCheck(w, others)
               \/ LiveRead(w) \/ Insert(w) \/ Conflict(w))

FairSpec == Spec /\ Fairness

-----------------------------------------------------------------------------
(* Properties. *)

TypeOK ==
  /\ row \in Reading /\ derived \in Derived /\ edited \subseteq Cells
  /\ manual \in BOOLEAN /\ stands \in Reading
  /\ ingest \in [Workers -> Ingest \cup {NoIngest}]
  /\ edits \in Nat /\ filings \in Nat
  /\ ask \in [Askers -> Ask \cup {NoAsk}]
  /\ queued \in [Kinds -> Nat]
  /\ \A s \in chain : s \in Snapshot

\* persistMember's chain: whatever jobs overlap on two workers, with results read
\* in any order, the versions are 1 to n, each supersedes the one below it, and
\* no version repeats the one it supersedes.
ChainIsLinear ==
  /\ {s.ver : s \in chain} = 1 .. Cardinality(chain)
  /\ \A s \in chain : s.sup = s.ver - 1
  /\ \A s, t \in chain : t.sup = s.ver => t.of # s.of

\* The published composite catches up with the row: whatever hooks are lost, asks
\* coalesced, jobs interrupted or beaten by another, and whatever bulk import
\* asked for nothing, the live snapshot comes to say what the row says, whenever
\* the row has a score.
ScoreCatchesUp == []<>(Scored(derived) => chain # {} /\ Comp(Head.of) = Comp(derived))
=============================================================================
