--------------------------- MODULE JobQueueProofs ---------------------------
(***************************************************************************)
(* Theorems about JobQueue for every set of jobs and processes, every      *)
(* retry and restart policy and every bound: the types, the bookkeeping of *)
(* attempts and reclaims, the bounds on runs and what success means (with  *)
(* one process), and the safety of a live run from the reaper.             *)
(***************************************************************************)
EXTENDS JobQueue, TLAPS

-----------------------------------------------------------------------------
(* The writes to a row. *)

\* Every write to a row yields a row.
LEMMA RowWrites ==
  ASSUME NEW r \in Row
  PROVE  /\ \A n \in Nat : Created(r, n) \in Row
         /\ Claimed(r) \in Row
         /\ \A m \in Marker : Requeued(r, m) \in Row /\ Abandoned(r, m) \in Row
         /\ Succeeded(r) \in Row /\ Healed(r) \in Row
              /\ AfterHeal(r) \in Row /\ CancelledRow(r) \in Row
         /\ \A s \in Status : FailedRow(r, s) \in Row
         /\ [r EXCEPT !.cancelReq = TRUE] \in Row
         /\ \A b \in Beat : [r EXCEPT !.beat = b] \in Row
<1>1. {"pending", "running", "succeeded", "cancelled", "abandoned"}
        \subseteq Status
  BY DEF Status
<1>2. {"null", "fresh"} \subseteq Beat /\ {"none", "thrown"} \subseteq Marker
  BY DEF Beat, Marker
<1>3. /\ r.attempts + 1 \in Int /\ r.attempts - 1 \in Int
      /\ r.reclaims + 1 \in Int /\ r.reclaims - 1 \in Int
  BY DEF Row
<1>4. \A n \in Nat : Created(r, n) \in Row
  BY <1>1 DEF Row, Created
<1>5. Claimed(r) \in Row
  BY <1>1, <1>2, <1>3 DEF Row, Claimed
<1>6. \A m \in Marker : Requeued(r, m) \in Row
  BY <1>1, <1>2, <1>3 DEF Row, Requeued
<1>7. \A m \in Marker : Abandoned(r, m) \in Row
  BY <1>1, <1>3 DEF Row, Abandoned
<1>8. Succeeded(r) \in Row /\ CancelledRow(r) \in Row
  BY <1>1 DEF Row, Succeeded, CancelledRow
<1>9. Healed(r) \in Row
  BY <1>1, <1>2, <1>3 DEF Row, Healed
<1>9a. AfterHeal(r) \in Row
  BY <1>9 DEF AfterHeal
<1>10. \A s \in Status : FailedRow(r, s) \in Row
  BY <1>2 DEF Row, FailedRow
<1>11. /\ [r EXCEPT !.cancelReq = TRUE] \in Row
       /\ \A b \in Beat : [r EXCEPT !.beat = b] \in Row
  BY DEF Row
<1>12. QED
  BY <1>4, <1>5, <1>6, <1>7, <1>8, <1>9, <1>9a, <1>10, <1>11

\* The constants the actions pass to these writes are in their sets.
LEMMA Literals ==
  /\ {"interrupted", "reclaimed"} \subseteq Marker
  /\ \A w : Outcome(w) \in Status
  /\ "failed" \in Status
  /\ \A b \in Beat : Older[b] \in Beat
  /\ \A r, j : ReapDecision(r, j) \in {"requeue", "abandon"}
<1>1. {"interrupted", "reclaimed"} \subseteq Marker
  BY DEF Marker
<1>2. "failed" \in Status /\ \A w : Outcome(w) \in Status
  BY DEF Outcome, Status
<1>3. \A b \in Beat : Older[b] \in Beat
  BY DEF Older, Beat
<1>4. \A r, j : ReapDecision(r, j) \in {"requeue", "abandon"}
  BY DEF ReapDecision
<1>5. QED
  BY <1>1, <1>2, <1>3, <1>4

-----------------------------------------------------------------------------
(* The writes to a process. *)

\* What the types alone do not say: a process that is busy with a job, or
\* about to hand one back, holds a row of the table, and so does a poll.
Holding == InRun \cup {"selected", "claimed"}
Deciding == {"read", "requeue", "abandon"}

OwningWorker ==
  {w \in Worker : /\ w.pc \in Holding => w.job \in Jobs
                  /\ w.sd \in Deciding => w.sjob \in Jobs}
OwningPoll == {q \in Poll : q.stage # "none" => q.job \in Jobs}

\* A process that starts holds nothing.
LEMMA FreshWorkers ==
  ASSUME NEW pc \in PC \ Holding
  PROVE  FreshWorker(pc) \in OwningWorker /\ FreshWorker(pc).pc = pc
<1>1. "up" \in Shut \ Deciding
  BY DEF Shut, Deciding
<1>2. QED
  BY <1>1 DEF Worker, FreshWorker, OwningWorker

\* Every write to a process keeps it owning what it holds.
LEMMA WorkerWrites ==
  ASSUME NEW w \in OwningWorker
  PROVE  /\ LoopAgain(w) \in OwningWorker
         /\ \A pc \in PC : (pc \in Holding => w.job \in Jobs)
                           => Go(w, pc) \in OwningWorker
         /\ \A sd \in Shut : (sd \in Deciding => w.sjob \in Jobs)
                             => Leave(w, sd) \in OwningWorker
<1>1. {"idle", "stopped"} \subseteq PC \ Holding
  BY DEF PC, Holding, InRun
<1>2. LoopAgain(w) \in OwningWorker
  <2> DEFINE pc == IF w.sd = "up" THEN "idle" ELSE "stopped"
  <2>1. pc \in PC \ Holding
    BY <1>1
  <2>2. FreshWorker(pc) \in OwningWorker /\ FreshWorker(pc).pc = pc
    BY <2>1, FreshWorkers
  <2>3. LoopAgain(w) = [FreshWorker(pc) EXCEPT !.sd = w.sd, !.sjob = w.sjob]
    BY DEF LoopAgain
  <2> HIDE DEF pc
  <2>4. QED
    BY <2>1, <2>2, <2>3 DEF OwningWorker, Worker
<1>3. \A pc \in PC : (pc \in Holding => w.job \in Jobs)
                     => Go(w, pc) \in OwningWorker
  BY DEF Go, OwningWorker, Worker
<1>4. \A sd \in Shut : (sd \in Deciding => w.sjob \in Jobs)
                       => Leave(w, sd) \in OwningWorker
  BY DEF Leave, OwningWorker, Worker
<1>5. QED
  BY <1>2, <1>3, <1>4

\* A poll stays a poll of the same job, or is dropped.
LEMMA PollWrites ==
  /\ NoPoll \in OwningPoll
  /\ \A q \in OwningPoll : Detached(q) \in OwningPoll
  BY DEF OwningPoll, Poll, Detached, NoPoll

\* The reaper's passes.
LEMMA ReapWrites ==
  /\ NoReap \in Reap
  /\ \A m \in {"boot", "timer"} : Scan(m) \in Reap
  /\ \A r \in Reap, j \in Jobs : Handled(r, j) \in Reap
<1>1. NoReap \in Reap
  BY DEF NoReap, Reap
<1>2. ASSUME NEW m \in {"boot", "timer"} PROVE Scan(m) \in Reap
  BY Literals DEF Scan, Reap
<1>3. ASSUME NEW r \in Reap, NEW j \in Jobs PROVE Handled(r, j) \in Reap
  BY <1>1 DEF Handled, Reap
<1>4. QED
  BY <1>1, <1>2, <1>3

-----------------------------------------------------------------------------
(* Types. *)

TypeInv ==
  /\ row \in [Jobs -> Row] /\ wk \in [Procs -> OwningWorker]
  /\ poll \in [Procs -> OwningPoll] /\ reap \in [Procs -> Reap]
  /\ cancel \in [Jobs -> {"none", "pending", "running", "done"}]
  /\ created \in Nat /\ boots \in Nat /\ faults \in Nat
  /\ claims \in [Jobs -> Nat] /\ abandons \in [Jobs -> Nat]
  /\ done \in [Jobs -> BOOLEAN] /\ hooked \in [Jobs -> Nat]

\* What a process and its job may be used as.
LEMMA Held ==
  ASSUME TypeInv, NEW p \in Procs
  PROVE  /\ wk[p] \in OwningWorker /\ wk[p] \in Worker
         /\ poll[p] \in OwningPoll /\ reap[p] \in Reap
         /\ wk[p].pc \in Holding => wk[p].job \in Jobs
         /\ wk[p].sd \in Deciding => wk[p].sjob \in Jobs
         /\ poll[p].stage # "none" => poll[p].job \in Jobs
  BY DEF TypeInv, OwningWorker, OwningPoll

\* A variable keeps its type when one entry of it is replaced.
LEMMA Puts ==
  ASSUME TypeInv
  PROVE  /\ \A j, r : r \in Row => [row EXCEPT ![j] = r] \in [Jobs -> Row]
         /\ \A p \in Procs, w \in OwningWorker :
              [wk EXCEPT ![p] = w] \in [Procs -> OwningWorker]
         /\ \A p \in Procs, q \in OwningPoll :
              [poll EXCEPT ![p] = q] \in [Procs -> OwningPoll]
         /\ \A p \in Procs, r \in Reap : [reap EXCEPT ![p] = r]
              \in [Procs -> Reap]
         /\ \A f \in [Jobs -> Nat], j \in Jobs :
              [f EXCEPT ![j] = f[j] + 1] \in [Jobs -> Nat]
<1>1. \A j, r : r \in Row => [row EXCEPT ![j] = r] \in [Jobs -> Row]
  BY DEF TypeInv
<1>2. /\ \A p \in Procs, w \in OwningWorker :
           [wk EXCEPT ![p] = w] \in [Procs -> OwningWorker]
      /\ \A p \in Procs, q \in OwningPoll :
           [poll EXCEPT ![p] = q] \in [Procs -> OwningPoll]
      /\ \A p \in Procs, r \in Reap : [reap EXCEPT ![p] = r]
           \in [Procs -> Reap]
  BY DEF TypeInv
<1>3. ASSUME NEW f \in [Jobs -> Nat], NEW j \in Jobs
      PROVE  [f EXCEPT ![j] = f[j] + 1] \in [Jobs -> Nat]
  OBVIOUS
<1>4. QED
  BY <1>1, <1>2, <1>3

\* The states named by the actions.
LEMMA States ==
  /\ Holding \subseteq PC
  /\ {"selected", "claimed", "noHandler", "running", "succWrite", "hooks",
      "late", "heal", "failWrite"} \subseteq Holding
  /\ {"idle", "stopped", "off", "boot"} \subseteq PC \ Holding
  /\ {"leaving", "drained", "up"} \subseteq Shut \ Deciding
  /\ Deciding \subseteq Shut
  BY DEF Holding, InRun, PC, Shut, Deciding

\* Enqueue keeps the types.
LEMMA Enqueue_Type ==
  ASSUME TypeInv, NEW j \in Jobs, Enqueue(j)
  PROVE  TypeInv'
<1>1. created + 1 \in Nat
  BY  DEF TypeInv
<1>2. Created(row[j], created + 1) \in Row
  BY <1>1, RowWrites DEF TypeInv
<1>3. row' \in [Jobs -> Row]
  BY <1>2, Puts DEF Enqueue
<1>4. QED
  BY <1>1, <1>2, <1>3 DEF TypeInv, Enqueue, history

\* CancelRead keeps the types.
LEMMA CancelRead_Type ==
  ASSUME TypeInv, NEW j \in Jobs, CancelRead(j)
  PROVE  TypeInv'
<1>1. cancel' \in [Jobs -> {"none", "pending", "running", "done"}]
  BY  DEF TypeInv, CancelRead
<1>2. QED
  BY <1>1 DEF TypeInv, CancelRead, history

\* CancelWrite keeps the types.
LEMMA CancelWrite_Type ==
  ASSUME TypeInv, NEW j \in Jobs, CancelWrite(j)
  PROVE  TypeInv'
<1>1. CancelledRow(row[j]) \in Row /\ [row[j] EXCEPT !.cancelReq = TRUE]
     \in Row
  BY RowWrites DEF TypeInv
<1>2. row' \in [Jobs -> Row]
  BY <1>1, Puts DEF CancelWrite
<1>3. cancel' \in [Jobs -> {"none", "pending", "running", "done"}]
  BY  DEF TypeInv, CancelWrite
<1>4. QED
  BY <1>1, <1>2, <1>3 DEF TypeInv, CancelWrite, history

\* Age keeps the types.
LEMMA Age_Type ==
  ASSUME TypeInv, NEW j \in Jobs, Age(j)
  PROVE  TypeInv'
<1>1. row[j] \in Row /\ row[j].beat \in Beat
  BY  DEF TypeInv, Row
<1>2. [row[j] EXCEPT !.beat = Older[row[j].beat]] \in Row
  BY <1>1, RowWrites, Literals
<1>3. row' \in [Jobs -> Row]
  BY <1>2, Puts DEF Age
<1>4. QED
  BY <1>1, <1>2, <1>3 DEF TypeInv, Age, history

\* Heartbeat keeps the types.
LEMMA Heartbeat_Type ==
  ASSUME TypeInv, NEW p \in Procs, Heartbeat(p)
  PROVE  TypeInv'
<1>1. wk[p].job \in Jobs
  BY Held DEF Heartbeat, Holding
<1>2. [row[wk[p].job] EXCEPT !.beat = "fresh"] \in Row
  BY <1>1, RowWrites DEF TypeInv, Beat
<1>3. row' \in [Jobs -> Row]
  BY <1>2, Puts DEF Heartbeat
<1>4. QED
  BY <1>1, <1>2, <1>3 DEF TypeInv, Heartbeat, history

\* TimerScan keeps the types.
LEMMA TimerScan_Type ==
  ASSUME TypeInv, NEW p \in Procs, TimerScan(p)
  PROVE  TypeInv'
<1>1. reap' \in [Procs -> Reap]
  BY Puts, ReapWrites DEF TimerScan
<1>2. QED
  BY <1>1 DEF TypeInv, TimerScan, history

\* ReapWrite keeps the types.
LEMMA ReapWrite_Type ==
  ASSUME TypeInv, NEW p \in Procs, NEW j \in Jobs, ReapWrite(p, j)
  PROVE  TypeInv'
<1>1. Requeued(row[j], "reclaimed") \in Row /\ Abandoned(row[j],
     "reclaimed") \in Row
  BY RowWrites, Literals DEF TypeInv
<1>2. row' \in [Jobs -> Row]
  BY <1>1, Puts DEF ReapWrite, TypeInv
<1>3. abandons' \in [Jobs -> Nat]
  BY Puts DEF ReapWrite, TypeInv
<1>4. reap' \in [Procs -> Reap]
  BY Puts, ReapWrites, Held DEF ReapWrite
<1>5. QED
  BY <1>1, <1>2, <1>3, <1>4 DEF TypeInv, ReapWrite, history

\* ReapWriteFails keeps the types.
LEMMA ReapWriteFails_Type ==
  ASSUME TypeInv, NEW p \in Procs, NEW j \in Jobs, ReapWriteFails(p, j)
  PROVE  TypeInv'
<1>1. reap' \in [Procs -> Reap]
  BY Puts, ReapWrites, Held DEF ReapWriteFails
<1>2. QED
  BY <1>1 DEF TypeInv, ReapWriteFails, history

\* Boot keeps the types.
LEMMA Boot_Type ==
  ASSUME TypeInv, NEW p \in Procs, Boot(p)
  PROVE  TypeInv'
<1>1. wk' \in [Procs -> OwningWorker]
  BY Puts, FreshWorkers, States DEF Boot
<1>2. reap' \in [Procs -> Reap]
  BY Puts, ReapWrites DEF Boot
<1>3. QED
  BY <1>1, <1>2 DEF TypeInv, Boot, history

\* BootDone keeps the types.
LEMMA BootDone_Type ==
  ASSUME TypeInv, NEW p \in Procs, BootDone(p)
  PROVE  TypeInv'
<1>1. wk' \in [Procs -> OwningWorker]
  BY Puts, WorkerWrites, Held, States DEF BootDone
<1>2. reap' \in [Procs -> Reap]
  BY Puts, ReapWrites DEF BootDone
<1>3. QED
  BY <1>1, <1>2 DEF TypeInv, BootDone, history

\* ClaimSelect keeps the types.
LEMMA ClaimSelect_Type ==
  ASSUME TypeInv, NEW p \in Procs, ClaimSelect(p)
  PROVE  TypeInv'
<1>1. \A j \in Jobs : [wk[p] EXCEPT !.pc = "selected", !.job = j]
     \in OwningWorker
  BY Held, States DEF OwningWorker, Worker, ClaimSelect
<1>2. PICK j \in Jobs : wk' = [wk EXCEPT ![p] = [wk[p] EXCEPT !.pc =
     "selected", !.job = j]]
  BY  DEF ClaimSelect
<1>3. wk' \in [Procs -> OwningWorker]
  BY <1>1, <1>2, Puts
<1>4. QED
  BY <1>1, <1>2, <1>3 DEF TypeInv, ClaimSelect, history

\* ClaimWrite keeps the types.
LEMMA ClaimWrite_Type ==
  ASSUME TypeInv, NEW p \in Procs, ClaimWrite(p)
  PROVE  TypeInv'
<1>1. wk[p].job \in Jobs
  BY Held, States DEF ClaimWrite
<1>2. Claimed(row[wk[p].job]) \in Row
  BY <1>1, RowWrites DEF TypeInv
<1>3. row' \in [Jobs -> Row]
  BY <1>2, Puts DEF ClaimWrite, Claim
<1>4. claims' \in [Jobs -> Nat]
  BY <1>1, Puts DEF ClaimWrite, Claim, TypeInv
<1>5. row[wk[p].job].attempts + 1 \in Int
  BY <1>1 DEF TypeInv, Row
<1>6. [wk[p] EXCEPT !.pc = "claimed", !.att =
     row[wk[p].job].attempts + 1] \in OwningWorker
  BY <1>1, <1>5, Held, States DEF OwningWorker, Worker
<1>7. wk' \in [Procs -> OwningWorker]
  BY <1>6, Puts DEF ClaimWrite
<1>8. QED
  BY <1>1, <1>2, <1>3, <1>4, <1>5, <1>6, <1>7 DEF TypeInv, ClaimWrite, history

\* ClaimFails keeps the types.
LEMMA ClaimFails_Type ==
  ASSUME TypeInv, NEW p \in Procs, NEW applied \in BOOLEAN, ClaimFails(p,
       applied)
  PROVE  TypeInv'
<1>1. wk[p].job \in Jobs
  BY Held, States DEF ClaimFails
<1>2. Claimed(row[wk[p].job]) \in Row
  BY <1>1, RowWrites DEF TypeInv
<1>3. row' \in [Jobs -> Row]
  <2>1. CASE applied
    BY <1>2, <2>1, Puts DEF ClaimFails, Claim
  <2>2. CASE ~applied
    BY <2>2 DEF ClaimFails, TypeInv
  <2> QED
    BY <2>1, <2>2
<1>4. claims' \in [Jobs -> Nat]
  BY <1>1, Puts DEF ClaimFails, Claim, TypeInv
<1>5. wk' \in [Procs -> OwningWorker]
  BY Puts, WorkerWrites, Held DEF ClaimFails
<1>6. faults' \in Nat
  BY  DEF ClaimFails, TypeInv
<1>7. QED
  BY <1>1, <1>2, <1>3, <1>4, <1>5, <1>6 DEF TypeInv, ClaimFails, history

\* ClaimResume keeps the types.
LEMMA ClaimResume_Type ==
  ASSUME TypeInv, NEW p \in Procs, ClaimResume(p)
  PROVE  TypeInv'
<1>1. wk[p].job \in Jobs
  BY Held, States DEF ClaimResume
<1>2. PICK pc \in {"running", "noHandler"} : wk' = [wk EXCEPT ![p] = Go(@, pc)]
  BY DEF ClaimResume
<1>3. Go(wk[p], pc) \in OwningWorker
  BY <1>1, WorkerWrites, Held, States
<1>4. wk' \in [Procs -> OwningWorker]
  BY <1>2, <1>3, Puts
<1>5. QED
  BY <1>4 DEF TypeInv, ClaimResume, history

\* MissingHandler keeps the types.
LEMMA MissingHandler_Type ==
  ASSUME TypeInv, NEW p \in Procs, MissingHandler(p)
  PROVE  TypeInv'
<1>1. LoopAgain(wk[p]) \in OwningWorker /\ Detached(poll[p]) \in OwningPoll
  BY Held, WorkerWrites, PollWrites
<1>2. wk' \in [Procs -> OwningWorker] /\ poll' \in [Procs -> OwningPoll]
  BY <1>1, Puts DEF MissingHandler, EndRun
<1>3. wk[p].job \in Jobs
  BY Held, States DEF MissingHandler
<1>4. FailedRow(row[wk[p].job], "failed") \in Row
  BY <1>3, RowWrites, Literals DEF TypeInv
<1>5. row' \in [Jobs -> Row]
  BY <1>4, Puts DEF MissingHandler
<1>6. QED
  BY <1>1, <1>2, <1>3, <1>4, <1>5 DEF TypeInv, MissingHandler, history

\* HandlerReturns keeps the types.
LEMMA HandlerReturns_Type ==
  ASSUME TypeInv, NEW p \in Procs, HandlerReturns(p)
  PROVE  TypeInv'
<1>1. LoopAgain(wk[p]) \in OwningWorker /\ Detached(poll[p]) \in OwningPoll
  BY Held, WorkerWrites, PollWrites
<1>2. wk[p].job \in Jobs
  BY Held, States DEF HandlerReturns
<1>3. Go(wk[p], "succWrite") \in OwningWorker
  BY <1>2, Held, WorkerWrites, States
<1>4. wk' \in [Procs -> OwningWorker] /\ poll' \in [Procs -> OwningPoll]
  BY <1>1, <1>3, Puts DEF HandlerReturns, EndRun, TypeInv
<1>5. done' \in [Jobs -> BOOLEAN]
  BY <1>2, Puts DEF HandlerReturns, TypeInv
<1>6. QED
  BY <1>1, <1>2, <1>3, <1>4, <1>5 DEF TypeInv, HandlerReturns, history

\* HandlerThrows keeps the types.
LEMMA HandlerThrows_Type ==
  ASSUME TypeInv, NEW p \in Procs, NEW e \in {"error", "cancel"},
       HandlerThrows(p, e)
  PROVE  TypeInv'
<1>1. LoopAgain(wk[p]) \in OwningWorker /\ Detached(poll[p]) \in OwningPoll
  BY Held, WorkerWrites, PollWrites
<1>2. wk[p].job \in Jobs
  BY Held, States DEF HandlerThrows
<1>3. [wk[p] EXCEPT !.pc = "failWrite", !.err = e] \in OwningWorker
  BY <1>2, Held, States DEF OwningWorker, Worker
<1>4. wk' \in [Procs -> OwningWorker] /\ poll' \in [Procs -> OwningPoll]
  BY <1>1, <1>3, Puts DEF HandlerThrows, Catch, EndRun, TypeInv
<1>5. QED
  BY <1>1, <1>2, <1>3, <1>4 DEF TypeInv, HandlerThrows, history

\* SuccWrite keeps the types.
LEMMA SuccWrite_Type ==
  ASSUME TypeInv, NEW p \in Procs, SuccWrite(p)
  PROVE  TypeInv'
<1>1. wk[p].job \in Jobs
  BY Held, States DEF SuccWrite
<1>2. Succeeded(row[wk[p].job]) \in Row
  BY <1>1, RowWrites DEF TypeInv
<1>3. row' \in [Jobs -> Row]
  BY <1>2, Puts DEF SuccWrite, TypeInv
<1>4. Go(wk[p], "hooks") \in OwningWorker /\ Go(wk[p], "late") \in OwningWorker
  BY <1>1, Held, WorkerWrites, States
<1>5. wk' \in [Procs -> OwningWorker]
  BY <1>4, Puts DEF SuccWrite
<1>6. QED
  BY <1>1, <1>2, <1>3, <1>4, <1>5 DEF TypeInv, SuccWrite, history

\* SuccWriteFails keeps the types.
LEMMA SuccWriteFails_Type ==
  ASSUME TypeInv, NEW p \in Procs, NEW applied \in BOOLEAN, SuccWriteFails(p,
       applied)
  PROVE  TypeInv'
<1>1. LoopAgain(wk[p]) \in OwningWorker /\ Detached(poll[p]) \in OwningPoll
  BY Held, WorkerWrites, PollWrites
<1>2. wk[p].job \in Jobs
  BY Held, States DEF SuccWriteFails
<1>3. [wk[p] EXCEPT !.pc = "failWrite", !.err = "error"] \in OwningWorker
  BY <1>2, Held, States DEF OwningWorker, Worker
<1>4. wk' \in [Procs -> OwningWorker] /\ poll' \in [Procs -> OwningPoll]
  BY <1>1, <1>3, Puts DEF SuccWriteFails, Catch, EndRun, TypeInv
<1>5. Succeeded(row[wk[p].job]) \in Row
  BY <1>2, RowWrites DEF TypeInv
<1>6. row' \in [Jobs -> Row]
  BY <1>5, Puts DEF SuccWriteFails, TypeInv
<1>7. faults' \in Nat
  BY  DEF SuccWriteFails, TypeInv
<1>8. QED
  BY <1>1, <1>2, <1>3, <1>4, <1>5, <1>6, <1>7
       DEF TypeInv, SuccWriteFails, history

\* RunHooks keeps the types.
LEMMA RunHooks_Type ==
  ASSUME TypeInv, NEW p \in Procs, RunHooks(p)
  PROVE  TypeInv'
<1>1. LoopAgain(wk[p]) \in OwningWorker /\ Detached(poll[p]) \in OwningPoll
  BY Held, WorkerWrites, PollWrites
<1>2. wk' \in [Procs -> OwningWorker] /\ poll' \in [Procs -> OwningPoll]
  BY <1>1, Puts DEF RunHooks, EndRun
<1>3. wk[p].job \in Jobs
  BY Held, States DEF RunHooks
<1>4. hooked' \in [Jobs -> Nat]
  BY <1>3, Puts DEF RunHooks, TypeInv
<1>5. QED
  BY <1>1, <1>2, <1>3, <1>4 DEF TypeInv, RunHooks, history

\* LateCompletion keeps the types.
LEMMA LateCompletion_Type ==
  ASSUME TypeInv, NEW p \in Procs, LateCompletion(p)
  PROVE  TypeInv'
<1>1. LoopAgain(wk[p]) \in OwningWorker /\ Detached(poll[p]) \in OwningPoll
  BY Held, WorkerWrites, PollWrites
<1>2. wk[p].job \in Jobs
  BY Held, States DEF LateCompletion
<1>3. Go(wk[p], "heal") \in OwningWorker
  BY <1>2, Held, WorkerWrites, States
<1>4. wk' \in [Procs -> OwningWorker] /\ poll' \in [Procs -> OwningPoll]
  BY <1>1, <1>3, Puts DEF LateCompletion, EndRun, TypeInv
<1>5. QED
  BY <1>1, <1>2, <1>3, <1>4 DEF TypeInv, LateCompletion, history

\* HealWrite keeps the types.
LEMMA HealWrite_Type ==
  ASSUME TypeInv, NEW p \in Procs, HealWrite(p)
  PROVE  TypeInv'
<1>1. LoopAgain(wk[p]) \in OwningWorker /\ Detached(poll[p]) \in OwningPoll
  BY Held, WorkerWrites, PollWrites
<1>2. wk' \in [Procs -> OwningWorker] /\ poll' \in [Procs -> OwningPoll]
  BY <1>1, Puts DEF HealWrite, EndRun
<1>3. wk[p].job \in Jobs
  BY Held, States DEF HealWrite
<1>4. AfterHeal(row[wk[p].job]) \in Row
  BY <1>3, RowWrites DEF TypeInv
<1>5. row' \in [Jobs -> Row]
  BY <1>4, Puts DEF HealWrite
<1>6. QED
  BY <1>1, <1>2, <1>3, <1>4, <1>5 DEF TypeInv, HealWrite, history

\* HealFails keeps the types.
LEMMA HealFails_Type ==
  ASSUME TypeInv, NEW p \in Procs, NEW applied \in BOOLEAN,
         HealFails(p, applied)
  PROVE  TypeInv'
<1>1. LoopAgain(wk[p]) \in OwningWorker /\ Detached(poll[p]) \in OwningPoll
  BY Held, WorkerWrites, PollWrites
<1>2. wk[p].job \in Jobs
  BY Held, States DEF HealFails
<1>3. [wk[p] EXCEPT !.pc = "failWrite", !.err = "error"] \in OwningWorker
  BY <1>2, Held, States DEF OwningWorker, Worker
<1>4. wk' \in [Procs -> OwningWorker] /\ poll' \in [Procs -> OwningPoll]
  BY <1>1, <1>3, Puts DEF HealFails, Catch, EndRun, TypeInv
<1>5. AfterHeal(row[wk[p].job]) \in Row
  BY <1>2, RowWrites DEF TypeInv
<1>6. row' \in [Jobs -> Row]
  BY <1>5, Puts DEF HealFails, TypeInv
<1>7. faults' \in Nat
  BY DEF HealFails, TypeInv
<1>8. QED
  BY <1>4, <1>6, <1>7 DEF TypeInv, HealFails, history

\* FailWrite keeps the types.
LEMMA FailWrite_Type ==
  ASSUME TypeInv, NEW p \in Procs, FailWrite(p)
  PROVE  TypeInv'
<1>1. LoopAgain(wk[p]) \in OwningWorker /\ Detached(poll[p]) \in OwningPoll
  BY Held, WorkerWrites, PollWrites
<1>2. wk' \in [Procs -> OwningWorker] /\ poll' \in [Procs -> OwningPoll]
  BY <1>1, Puts DEF FailWrite, EndRun
<1>3. wk[p].job \in Jobs
  BY Held, States DEF FailWrite
<1>4. row[wk[p].job] \in Row /\ FailedRow(row[wk[p].job],
     Outcome(wk[p])) \in Row
  BY <1>3, RowWrites, Literals DEF TypeInv
<1>5. row' \in [Jobs -> Row]
  BY <1>4, Puts DEF FailWrite
<1>6. QED
  BY <1>1, <1>2, <1>3, <1>4, <1>5 DEF TypeInv, FailWrite, history

\* TerminalWriteFails keeps the types.
LEMMA TerminalWriteFails_Type ==
  ASSUME TypeInv, NEW p \in Procs, TerminalWriteFails(p)
  PROVE  TypeInv'
<1>1. LoopAgain(wk[p]) \in OwningWorker /\ Detached(poll[p]) \in OwningPoll
  BY Held, WorkerWrites, PollWrites
<1>2. wk' \in [Procs -> OwningWorker] /\ poll' \in [Procs -> OwningPoll]
  BY <1>1, Puts DEF TerminalWriteFails, EndRun
<1>3. faults' \in Nat
  BY  DEF TerminalWriteFails, TypeInv
<1>4. QED
  BY <1>1, <1>2, <1>3 DEF TypeInv, TerminalWriteFails, history

\* PollRead keeps the types.
LEMMA PollRead_Type ==
  ASSUME TypeInv, NEW p \in Procs, PollRead(p)
  PROVE  TypeInv'
<1>1. wk[p].job \in Jobs
  BY Held, States DEF PollRead
<1>2. [stage |-> "read", job |-> wk[p].job, live |-> TRUE] \in OwningPoll
  BY <1>1 DEF OwningPoll, Poll
<1>3. poll' \in [Procs -> OwningPoll]
  BY <1>2, Puts DEF PollRead
<1>4. QED
  BY <1>1, <1>2, <1>3 DEF TypeInv, PollRead, history

\* PollResume keeps the types.
LEMMA PollResume_Type ==
  ASSUME TypeInv, NEW p \in Procs, PollResume(p)
  PROVE  TypeInv'
<1>1. [poll[p] EXCEPT !.stage = "write"] \in OwningPoll
  BY Held DEF PollResume, OwningPoll, Poll
<1>2. poll' = [poll EXCEPT ![p] = [poll[p] EXCEPT !.stage = "write"]]
  BY  DEF PollResume
<1>3. poll' \in [Procs -> OwningPoll]
  BY <1>1, <1>2, Puts
<1>4. [wk[p] EXCEPT !.midRun = TRUE, !.aborted = TRUE] \in OwningWorker
  BY Held DEF OwningWorker, Worker
<1>5. wk' \in [Procs -> OwningWorker]
  BY <1>4, Puts DEF PollResume, TypeInv
<1>6. QED
  BY <1>1, <1>2, <1>3, <1>4, <1>5 DEF TypeInv, PollResume, history

\* PollWrite keeps the types.
LEMMA PollWrite_Type ==
  ASSUME TypeInv, NEW p \in Procs, PollWrite(p)
  PROVE  TypeInv'
<1>1. poll[p].job \in Jobs
  BY Held DEF PollWrite
<1>2. CancelledRow(row[poll[p].job]) \in Row
  BY <1>1, RowWrites DEF TypeInv
<1>3. row' \in [Jobs -> Row]
  BY <1>2, Puts DEF PollWrite
<1>4. poll' \in [Procs -> OwningPoll]
  BY PollWrites, Puts DEF PollWrite
<1>5. QED
  BY <1>1, <1>2, <1>3, <1>4 DEF TypeInv, PollWrite, history

\* PollWriteFails keeps the types.
LEMMA PollWriteFails_Type ==
  ASSUME TypeInv, NEW p \in Procs, PollWriteFails(p)
  PROVE  TypeInv'
<1>1. poll' \in [Procs -> OwningPoll]
  BY PollWrites, Puts DEF PollWriteFails
<1>2. faults' \in Nat
  BY DEF PollWriteFails, TypeInv
<1>3. QED
  BY <1>1, <1>2 DEF TypeInv, PollWriteFails, history

\* Sigterm keeps the types.
LEMMA Sigterm_Type ==
  ASSUME TypeInv, NEW p \in Procs, Sigterm(p)
  PROVE  TypeInv'
<1>1. Leave(wk[p], "leaving") \in OwningWorker
  BY Held, WorkerWrites, States
<1>2. wk[p].pc \in InRun => [wk[p] EXCEPT !.sd = "read", !.sjob =
     wk[p].job] \in OwningWorker
  BY Held, States DEF OwningWorker, Worker, Holding, Deciding
<1>3. wk' \in [Procs -> OwningWorker]
  BY <1>1, <1>2, Puts DEF Sigterm
<1>4. QED
  BY <1>1, <1>2, <1>3 DEF TypeInv, Sigterm, history

\* ShutRead keeps the types.
LEMMA ShutRead_Type ==
  ASSUME TypeInv, NEW p \in Procs, ShutRead(p)
  PROVE  TypeInv'
<1>1. Leave(wk[p], ReapDecision(row[wk[p].sjob], wk[p].sjob)) \in OwningWorker
  BY Held, WorkerWrites, States, Literals DEF ShutRead, Deciding
<1>2. wk' \in [Procs -> OwningWorker]
  BY <1>1, Puts DEF ShutRead
<1>3. QED
  BY <1>1, <1>2 DEF TypeInv, ShutRead, history

\* ShutWrite keeps the types.
LEMMA ShutWrite_Type ==
  ASSUME TypeInv, NEW p \in Procs, ShutWrite(p)
  PROVE  TypeInv'
<1>1. wk[p].sjob \in Jobs
  BY Held DEF ShutWrite, Deciding
<1>2. /\ row[wk[p].sjob] \in Row
      /\ Requeued(row[wk[p].sjob], "interrupted") \in Row
      /\ Abandoned(row[wk[p].sjob], "interrupted") \in Row
  BY <1>1, RowWrites, Literals DEF TypeInv
<1>3. row' \in [Jobs -> Row]
  BY <1>2, Puts DEF ShutWrite
<1>4. abandons' \in [Jobs -> Nat]
  BY <1>1, Puts DEF ShutWrite, TypeInv
<1>5. Leave(wk[p], "leaving") \in OwningWorker
  BY Held, WorkerWrites, States
<1>6. wk' \in [Procs -> OwningWorker]
  BY <1>5, Puts DEF ShutWrite
<1>7. QED
  BY <1>1, <1>2, <1>3, <1>4, <1>5, <1>6 DEF TypeInv, ShutWrite, history

\* ShutFails keeps the types.
LEMMA ShutFails_Type ==
  ASSUME TypeInv, NEW p \in Procs, ShutFails(p)
  PROVE  TypeInv'
<1>1. Leave(wk[p], "leaving") \in OwningWorker
  BY Held, WorkerWrites, States
<1>2. wk' \in [Procs -> OwningWorker]
  BY <1>1, Puts DEF ShutFails
<1>3. faults' \in Nat
  BY  DEF ShutFails, TypeInv
<1>4. QED
  BY <1>1, <1>2, <1>3 DEF TypeInv, ShutFails, history

\* ShutReturns keeps the types.
LEMMA ShutReturns_Type ==
  ASSUME TypeInv, NEW p \in Procs, ShutReturns(p)
  PROVE  TypeInv'
<1>1. Leave(wk[p], "drained") \in OwningWorker
  BY Held, WorkerWrites, States
<1>2. [wk[p] EXCEPT !.sd = "drained", !.interrupted = TRUE, !.aborted =
     TRUE] \in OwningWorker
  BY Held, States DEF OwningWorker, Worker
<1>3. wk' \in [Procs -> OwningWorker]
  BY <1>1, <1>2, Puts DEF ShutReturns
<1>4. QED
  BY <1>1, <1>2, <1>3 DEF TypeInv, ShutReturns, history

\* Gone keeps the types.
LEMMA Gone_Type ==
  ASSUME TypeInv, NEW p \in Procs, Gone(p)
  PROVE  TypeInv'
<1>1. wk' \in [Procs -> OwningWorker]
  BY FreshWorkers, States, Puts DEF Gone
<1>2. poll' \in [Procs -> OwningPoll] /\ reap' \in [Procs -> Reap]
  BY PollWrites, ReapWrites, Puts DEF Gone
<1>3. QED
  BY <1>1, <1>2 DEF TypeInv, Gone, history

\* Each step of the system keeps the types.
LEMMA TypeStep == TypeInv /\ [Next]_vars => TypeInv'
<1> SUFFICES ASSUME TypeInv, [Next]_vars PROVE TypeInv'
  OBVIOUS
<1>1. ASSUME NEW j \in Jobs,
             Enqueue(j) \/ CancelRead(j) \/ CancelWrite(j) \/ Age(j)
      PROVE  TypeInv'
  BY <1>1, Enqueue_Type, CancelRead_Type, CancelWrite_Type, Age_Type
<1>2. ASSUME NEW p \in Procs, Heartbeat(p) PROVE TypeInv'
  BY <1>2, Heartbeat_Type
<1>3. ASSUME NEW p \in Procs, Reaper(p) PROVE TypeInv'
  BY <1>3, TimerScan_Type, Boot_Type, BootDone_Type, ReapWrite_Type,
     ReapWriteFails_Type DEF Reaper
<1>4. ASSUME NEW p \in Procs, ClaimStep(p) PROVE TypeInv'
  BY <1>4, ClaimSelect_Type, ClaimWrite_Type, ClaimResume_Type, ClaimFails_Type
     DEF ClaimStep
<1>5. ASSUME NEW p \in Procs, RunStep(p) PROVE TypeInv'
  BY <1>5, MissingHandler_Type, HandlerReturns_Type, HandlerThrows_Type,
     SuccWrite_Type, SuccWriteFails_Type, RunHooks_Type, LateCompletion_Type,
     HealWrite_Type, HealFails_Type, FailWrite_Type, TerminalWriteFails_Type
     DEF RunStep
<1>6. ASSUME NEW p \in Procs, CancelPoll(p) PROVE TypeInv'
  BY <1>6, PollRead_Type, PollResume_Type, PollWrite_Type, PollWriteFails_Type
     DEF CancelPoll
<1>7. ASSUME NEW p \in Procs, Shutdown(p) PROVE TypeInv'
  BY <1>7, Sigterm_Type, ShutRead_Type, ShutWrite_Type, ShutFails_Type,
     ShutReturns_Type, Gone_Type DEF Shutdown, Exit, Crash
<1>8. CASE UNCHANGED vars
  BY <1>8 DEF vars, TypeInv
<1>9. QED
  BY <1>1, <1>2, <1>3, <1>4, <1>5, <1>6, <1>7, <1>8 DEF Next

\* The first state is typed.
LEMMA TypeInit == Init => TypeInv
<1> SUFFICES ASSUME Init PROVE TypeInv
  OBVIOUS
<1>1. "absent" \in Status /\ "running" \in Status
      /\ "null" \in Beat /\ "none" \in Marker
  BY DEF Status, Beat, Marker
<1>2. row \in [Jobs -> Row]
  <2>1. AbsentRow \in Row
    BY <1>1 DEF AbsentRow, Row
  <2>2. [AbsentRow EXCEPT !.status = "running", !.attempts = 1] \in Row
    <3>1. ASSUME NEW r \in Row, NEW n \in Int
          PROVE  [r EXCEPT !.status = "running", !.attempts = n] \in Row
      BY <1>1 DEF Row
    <3>2. 1 \in Int
      OBVIOUS
    <3>3. QED
      BY <2>1, <3>1, <3>2
  <2>3. QED
    BY <2>1, <2>2 DEF Init
<1>3. wk \in [Procs -> OwningWorker]
  BY FreshWorkers, States DEF Init
<1>4. poll \in [Procs -> OwningPoll] /\ reap \in [Procs -> Reap]
  BY PollWrites, ReapWrites DEF Init
<1>5. QED
  BY <1>2, <1>3, <1>4 DEF Init, TypeInv

\* Every variable keeps its type, and nothing is done for a job that is not a
\* row of the table: a claim, a shutdown or a cancel poll always has one.
THEOREM TypeCorrect == Spec => []TypeOK
<1>1. TypeInv => TypeOK
  BY DEF TypeInv, TypeOK, OwningWorker, OwningPoll
<1>2. QED
  BY <1>1, TypeInit, TypeStep, PTL DEF Spec

-----------------------------------------------------------------------------
(* Bookkeeping. *)

\* Bookkeeping of one row, and what makes it inductive: the mark a shutdown
\* leaves on a row outlives the next claim, but never the reclaim it stands
\* for, so the heal can only walk back a reclaim that was counted.
Balanced(r, c, a) ==
  /\ c + a = r.attempts + r.reclaims
  /\ r.attempts >= 0 /\ r.reclaims >= 0
  /\ r.status = "running" => r.attempts >= 1
  /\ r.marker = "interrupted" => r.reclaims >= 1

BooksInv == \A j \in Jobs : Balanced(row[j], claims[j], abandons[j])

\* Each write to a row, with what it adds to the history, keeps the balance.
LEMMA BalancedWrites ==
  ASSUME NEW r \in Row, NEW c \in Nat, NEW a \in Nat, Balanced(r, c, a)
  PROVE  /\ \A n \in Nat : Balanced(Created(r, n), c, a)
         /\ Balanced(Claimed(r), c + 1, a)
         /\ r.status = "running" =>
              \A m \in Marker : /\ Balanced(Requeued(r, m), c, a)
                                /\ Balanced(Abandoned(r, m), c, a + 1)
         /\ Balanced(Succeeded(r), c, a) /\ Balanced(CancelledRow(r), c, a)
         /\ r.marker = "interrupted" => Balanced(Healed(r), c, a)
         /\ \A s \in Status \ {"running"} : Balanced(FailedRow(r, s), c, a)
         /\ Balanced([r EXCEPT !.cancelReq = TRUE], c, a)
         /\ \A b \in Beat : Balanced([r EXCEPT !.beat = b], c, a)
<1>1. \A n \in Nat : Balanced(Created(r, n), c, a)
  BY DEF Balanced, Row, Created
<1>2. Balanced(Claimed(r), c + 1, a)
  BY DEF Balanced, Row, Claimed
<1>3. ASSUME r.status = "running", NEW m \in Marker
      PROVE  Balanced(Requeued(r, m), c, a)
  BY <1>3 DEF Balanced, Row, Requeued
<1>4. ASSUME r.status = "running", NEW m \in Marker
      PROVE  Balanced(Abandoned(r, m), c, a + 1)
  BY <1>4 DEF Balanced, Row, Abandoned
<1>5. Balanced(Succeeded(r), c, a)
  BY DEF Balanced, Row, Succeeded
<1>6. Balanced(CancelledRow(r), c, a)
  BY DEF Balanced, Row, CancelledRow
<1>7. ASSUME r.marker = "interrupted" PROVE Balanced(Healed(r), c, a)
  BY <1>7 DEF Balanced, Row, Healed
<1>8. \A s \in Status \ {"running"} : Balanced(FailedRow(r, s), c, a)
  BY DEF Balanced, Row, FailedRow
<1>9. /\ Balanced([r EXCEPT !.cancelReq = TRUE], c, a)
      /\ \A b \in Beat : Balanced([r EXCEPT !.beat = b], c, a)
  BY DEF Balanced, Row
<1>10. QED
  BY <1>1, <1>2, <1>3, <1>4, <1>5, <1>6, <1>7, <1>8, <1>9

\* A step that writes one balanced row, and counts for no other, keeps them.
LEMMA BooksPut ==
  ASSUME TypeInv, BooksInv, NEW j \in Jobs, NEW r,
         row' = [row EXCEPT ![j] = r],
         Balanced(r, claims'[j], abandons'[j]),
         \A k \in Jobs \ {j} : /\ claims'[k] = claims[k]
                               /\ abandons'[k] = abandons[k]
  PROVE  BooksInv'
  BY DEF TypeInv, BooksInv

\* A step that writes no row and counts nothing keeps the books.
LEMMA BooksKept ==
  ASSUME BooksInv, UNCHANGED <<row, claims, abandons>>
  PROVE  BooksInv'
  BY DEF BooksInv

\* The typed and balanced row of a job.
LEMMA Row_Books ==
  ASSUME TypeInv, BooksInv, NEW j \in Jobs
  PROVE  /\ row[j] \in Row /\ claims[j] \in Nat /\ abandons[j] \in Nat
         /\ Balanced(row[j], claims[j], abandons[j])
  BY DEF TypeInv, BooksInv

\* Enqueue keeps every row balanced.
LEMMA Enqueue_Books ==
  ASSUME TypeInv, BooksInv, NEW j \in Jobs, Enqueue(j)
  PROVE  BooksInv'
<1>1. /\ row[j] \in Row /\ claims[j] \in Nat /\ abandons[j] \in Nat
      /\ Balanced(row[j], claims[j], abandons[j])
  BY Row_Books
<1>2. BooksInv'
  <2>1. row' = [row EXCEPT ![j] = Created(row[j], created + 1)]
    BY <1>1 DEF Enqueue, history
  <2>2. Balanced(Created(row[j], created + 1), claims'[j], abandons'[j])
    <3>1. created + 1 \in Nat
      BY DEF TypeInv
    <3>2. claims'[j] = claims[j] /\ abandons'[j] = abandons[j]
      BY <1>1 DEF Enqueue, TypeInv, history
    <3>3. Balanced(Created(row[j], created + 1), claims[j], abandons[j])
      BY <1>1, <3>1, BalancedWrites, Literals
    <3>4. QED
      BY <3>2, <3>3
  <2>3. \A k \in Jobs \ {j} : /\ claims'[k] = claims[k]
                              /\ abandons'[k] = abandons[k]
    BY SMT DEF Enqueue, TypeInv, history
  <2>4. QED
    BY <2>1, <2>2, <2>3, BooksPut
<1>3. QED
  BY <1>2 DEF Enqueue

\* CancelWrite keeps every row balanced.
LEMMA CancelWrite_Books ==
  ASSUME TypeInv, BooksInv, NEW j \in Jobs, CancelWrite(j)
  PROVE  BooksInv'
<1>1. /\ row[j] \in Row /\ claims[j] \in Nat /\ abandons[j] \in Nat
      /\ Balanced(row[j], claims[j], abandons[j])
  BY Row_Books
<1>2. CASE cancel[j] = "pending"
  <2>1. row' = [row EXCEPT ![j] = CancelledRow(row[j])]
    BY <1>2, <1>1 DEF CancelWrite, history
  <2>2. Balanced(CancelledRow(row[j]), claims'[j], abandons'[j])
    BY <1>2, <1>1, BalancedWrites, Literals DEF CancelWrite, TypeInv, history
  <2>3. \A k \in Jobs \ {j} : /\ claims'[k] = claims[k]
                              /\ abandons'[k] = abandons[k]
    BY <1>2, SMT DEF CancelWrite, TypeInv, history
  <2>4. QED
    BY <2>1, <2>2, <2>3, BooksPut
<1>3. CASE cancel[j] # "pending"
  <2>1. row' = [row EXCEPT ![j] = [row[j] EXCEPT !.cancelReq = TRUE]]
    BY <1>3, <1>1 DEF CancelWrite, history
  <2>2. Balanced([row[j] EXCEPT !.cancelReq = TRUE], claims'[j], abandons'[j])
    BY <1>3, <1>1, BalancedWrites, Literals DEF CancelWrite, TypeInv, history
  <2>3. \A k \in Jobs \ {j} : /\ claims'[k] = claims[k]
                              /\ abandons'[k] = abandons[k]
    BY <1>3, SMT DEF CancelWrite, TypeInv, history
  <2>4. QED
    BY <2>1, <2>2, <2>3, BooksPut
<1>4. QED
  BY <1>2, <1>3 DEF CancelWrite

\* Age keeps every row balanced.
LEMMA Age_Books ==
  ASSUME TypeInv, BooksInv, NEW j \in Jobs, Age(j)
  PROVE  BooksInv'
<1>1. /\ row[j] \in Row /\ claims[j] \in Nat /\ abandons[j] \in Nat
      /\ Balanced(row[j], claims[j], abandons[j])
  BY Row_Books
<1>2. BooksInv'
  <2>1. row' = [row EXCEPT ![j] = [row[j] EXCEPT !.beat = Older[row[j].beat]]]
    BY <1>1 DEF Age, history
  <2>2. Balanced([row[j] EXCEPT !.beat = Older[row[j].beat]], claims'[j],
       abandons'[j])
    BY <1>1, BalancedWrites, Literals DEF Age, TypeInv, history, Row
  <2>3. \A k \in Jobs \ {j} : /\ claims'[k] = claims[k]
                              /\ abandons'[k] = abandons[k]
    BY SMT DEF Age, TypeInv, history
  <2>4. QED
    BY <2>1, <2>2, <2>3, BooksPut
<1>3. QED
  BY <1>2 DEF Age

\* Heartbeat keeps every row balanced.
LEMMA Heartbeat_Books ==
  ASSUME TypeInv, BooksInv, NEW p \in Procs, Heartbeat(p)
  PROVE  BooksInv'
<1> DEFINE j == wk[p].job
<1>1. j \in Jobs
  BY Held, States DEF Heartbeat, Deciding, Holding
<1>2. /\ row[j] \in Row /\ claims[j] \in Nat /\ abandons[j] \in Nat
      /\ Balanced(row[j], claims[j], abandons[j])
  BY <1>1, Row_Books
<1>3. BooksInv'
  <2>1. row' = [row EXCEPT ![j] = [row[j] EXCEPT !.beat = "fresh"]]
    BY <1>2 DEF Heartbeat, history
  <2>2. Balanced([row[j] EXCEPT !.beat = "fresh"], claims'[j], abandons'[j])
    BY <1>1, <1>2, BalancedWrites, Literals
         DEF Heartbeat, TypeInv, history, Beat
  <2>3. \A k \in Jobs \ {j} : /\ claims'[k] = claims[k]
                              /\ abandons'[k] = abandons[k]
    BY <1>1, SMT DEF Heartbeat, TypeInv, history
  <2>4. QED
    BY <1>1, <2>1, <2>2, <2>3, BooksPut
<1>4. QED
  BY <1>3 DEF Heartbeat

\* ReapWrite keeps every row balanced.
LEMMA ReapWrite_Books ==
  ASSUME TypeInv, BooksInv, NEW p \in Procs, NEW j \in Jobs, ReapWrite(p, j)
  PROVE  BooksInv'
<1>1. /\ row[j] \in Row /\ claims[j] \in Nat /\ abandons[j] \in Nat
      /\ Balanced(row[j], claims[j], abandons[j])
  BY Row_Books
<1>2. CASE ~Stalled(j, reap[p].mode)
  BY <1>2, BooksKept DEF ReapWrite, history
<1>3. CASE Stalled(j, reap[p].mode) /\ reap[p].todo[j] = "requeue"
  <2>1. row' = [row EXCEPT ![j] = Requeued(row[j], "reclaimed")]
    BY <1>3, <1>1 DEF ReapWrite, history
  <2>2. Balanced(Requeued(row[j], "reclaimed"), claims'[j], abandons'[j])
    BY <1>3, <1>1, BalancedWrites, Literals
         DEF ReapWrite, TypeInv, history, Stalled
  <2>3. \A k \in Jobs \ {j} : /\ claims'[k] = claims[k]
                              /\ abandons'[k] = abandons[k]
    BY <1>3, SMT DEF ReapWrite, TypeInv, history
  <2>4. QED
    BY <2>1, <2>2, <2>3, BooksPut
<1>4. CASE Stalled(j, reap[p].mode) /\ reap[p].todo[j] # "requeue"
  <2>1. row' = [row EXCEPT ![j] = Abandoned(row[j], "reclaimed")]
    BY <1>4, <1>1 DEF ReapWrite, history
  <2>2. Balanced(Abandoned(row[j], "reclaimed"), claims'[j], abandons'[j])
    <3>1. row[j].status = "running"
      BY <1>4, SMT DEF ReapWrite, Stalled, StillRunning
    <3>2. claims'[j] = claims[j] /\ abandons'[j] = abandons[j] + 1
      BY <1>4, <1>1 DEF ReapWrite, TypeInv, history, Stalled, Reap
    <3>3. Balanced(Abandoned(row[j], "reclaimed"), claims[j], abandons[j] + 1)
      BY <1>1, <3>1, BalancedWrites, Literals
    <3>4. QED
      BY <3>2, <3>3
  <2>3. \A k \in Jobs \ {j} : /\ claims'[k] = claims[k]
                              /\ abandons'[k] = abandons[k]
    BY <1>4, SMT DEF ReapWrite, TypeInv, history
  <2>4. QED
    BY <2>1, <2>2, <2>3, BooksPut
<1>5. QED
  BY <1>2, <1>3, <1>4 DEF ReapWrite

\* ClaimWrite keeps every row balanced.
LEMMA ClaimWrite_Books ==
  ASSUME TypeInv, BooksInv, NEW p \in Procs, ClaimWrite(p)
  PROVE  BooksInv'
<1> DEFINE j == wk[p].job
<1>1. j \in Jobs
  BY Held, States DEF ClaimWrite, Deciding, Holding
<1>2. /\ row[j] \in Row /\ claims[j] \in Nat /\ abandons[j] \in Nat
      /\ Balanced(row[j], claims[j], abandons[j])
  BY <1>1, Row_Books
<1>3. BooksInv'
  <2>1. row' = [row EXCEPT ![j] = Claimed(row[j])]
    BY <1>2 DEF ClaimWrite, Claim, history
  <2>2. Balanced(Claimed(row[j]), claims'[j], abandons'[j])
    <3>1. claims'[j] = claims[j] + 1 /\ abandons'[j] = abandons[j]
      BY <1>1, <1>2 DEF ClaimWrite, TypeInv, Claim, history
    <3>2. Balanced(Claimed(row[j]), claims[j] + 1, abandons[j])
      BY <1>2, BalancedWrites, Literals
    <3>3. QED
      BY <3>1, <3>2
  <2>3. \A k \in Jobs \ {j} : /\ claims'[k] = claims[k]
                              /\ abandons'[k] = abandons[k]
    BY <1>1, SMT DEF ClaimWrite, TypeInv, Claim, history
  <2>4. QED
    BY <1>1, <2>1, <2>2, <2>3, BooksPut
<1>4. QED
  BY <1>3 DEF ClaimWrite

\* ClaimFails keeps every row balanced.
LEMMA ClaimFails_Books ==
  ASSUME TypeInv, BooksInv, NEW p \in Procs, NEW applied \in BOOLEAN,
       ClaimFails(p, applied)
  PROVE  BooksInv'
<1> DEFINE j == wk[p].job
<1>1. j \in Jobs
  BY Held, States DEF ClaimFails, Deciding, Holding
<1>2. /\ row[j] \in Row /\ claims[j] \in Nat /\ abandons[j] \in Nat
      /\ Balanced(row[j], claims[j], abandons[j])
  BY <1>1, Row_Books
<1>3. CASE ~applied
  BY <1>3, BooksKept DEF ClaimFails, Claim, history
<1>4. CASE applied
  <2>1. row' = [row EXCEPT ![j] = Claimed(row[j])]
    BY <1>4, <1>2 DEF ClaimFails, Claim, history
  <2>2. Balanced(Claimed(row[j]), claims'[j], abandons'[j])
    <3>1. claims'[j] = claims[j] + 1 /\ abandons'[j] = abandons[j]
      BY <1>4, <1>1, <1>2 DEF ClaimFails, TypeInv, Claim, history
    <3>2. Balanced(Claimed(row[j]), claims[j] + 1, abandons[j])
      BY <1>2, BalancedWrites, Literals
    <3>3. QED
      BY <3>1, <3>2
  <2>3. \A k \in Jobs \ {j} : /\ claims'[k] = claims[k]
                              /\ abandons'[k] = abandons[k]
    BY <1>4, <1>1, SMT DEF ClaimFails, TypeInv, Claim, history
  <2>4. QED
    BY <1>1, <2>1, <2>2, <2>3, BooksPut
<1>5. QED
  BY <1>3, <1>4 DEF ClaimFails

\* MissingHandler keeps every row balanced.
LEMMA MissingHandler_Books ==
  ASSUME TypeInv, BooksInv, NEW p \in Procs, MissingHandler(p)
  PROVE  BooksInv'
<1> DEFINE j == wk[p].job
<1>1. j \in Jobs
  BY Held, States DEF MissingHandler, Deciding, Holding
<1>2. /\ row[j] \in Row /\ claims[j] \in Nat /\ abandons[j] \in Nat
      /\ Balanced(row[j], claims[j], abandons[j])
  BY <1>1, Row_Books
<1>3. BooksInv'
  <2>1. row' = [row EXCEPT ![j] = FailedRow(row[j], "failed")]
    BY <1>2 DEF MissingHandler, history
  <2>2. Balanced(FailedRow(row[j], "failed"), claims'[j], abandons'[j])
    <3>1. "failed" \in Status \ {"running"}
      BY Literals DEF Outcome
    <3>2. claims'[j] = claims[j] /\ abandons'[j] = abandons[j]
      BY <1>1, <1>2 DEF MissingHandler, TypeInv, history
    <3>3. Balanced(FailedRow(row[j], "failed"), claims[j], abandons[j])
      BY <1>2, <3>1, BalancedWrites, Literals
    <3>4. QED
      BY <3>2, <3>3
  <2>3. \A k \in Jobs \ {j} : /\ claims'[k] = claims[k]
                              /\ abandons'[k] = abandons[k]
    BY <1>1, SMT DEF MissingHandler, TypeInv, history
  <2>4. QED
    BY <1>1, <2>1, <2>2, <2>3, BooksPut
<1>4. QED
  BY <1>3 DEF MissingHandler

\* SuccWrite keeps every row balanced.
LEMMA SuccWrite_Books ==
  ASSUME TypeInv, BooksInv, NEW p \in Procs, SuccWrite(p)
  PROVE  BooksInv'
<1> DEFINE j == wk[p].job
<1>1. j \in Jobs
  BY Held, States DEF SuccWrite, Deciding, Holding
<1>2. /\ row[j] \in Row /\ claims[j] \in Nat /\ abandons[j] \in Nat
      /\ Balanced(row[j], claims[j], abandons[j])
  BY <1>1, Row_Books
<1>3. CASE ~StillRunning(j)
  BY <1>3, BooksKept DEF SuccWrite, history
<1>4. CASE StillRunning(j)
  <2>1. row' = [row EXCEPT ![j] = Succeeded(row[j])]
    BY <1>4, <1>2 DEF SuccWrite, history
  <2>2. Balanced(Succeeded(row[j]), claims'[j], abandons'[j])
    BY <1>4, <1>1, <1>2, BalancedWrites, Literals
         DEF SuccWrite, TypeInv, history
  <2>3. \A k \in Jobs \ {j} : /\ claims'[k] = claims[k]
                              /\ abandons'[k] = abandons[k]
    BY <1>4, <1>1, SMT DEF SuccWrite, TypeInv, history
  <2>4. QED
    BY <1>1, <2>1, <2>2, <2>3, BooksPut
<1>5. QED
  BY <1>3, <1>4 DEF SuccWrite

\* SuccWriteFails keeps every row balanced.
LEMMA SuccWriteFails_Books ==
  ASSUME TypeInv, BooksInv, NEW p \in Procs, NEW applied \in BOOLEAN,
       SuccWriteFails(p, applied)
  PROVE  BooksInv'
<1> DEFINE j == wk[p].job
<1>1. j \in Jobs
  BY Held, States DEF SuccWriteFails, Deciding, Holding
<1>2. /\ row[j] \in Row /\ claims[j] \in Nat /\ abandons[j] \in Nat
      /\ Balanced(row[j], claims[j], abandons[j])
  BY <1>1, Row_Books
<1>3. CASE ~(applied /\ StillRunning(j))
  BY <1>3, BooksKept DEF SuccWriteFails, history
<1>4. CASE applied /\ StillRunning(j)
  <2>1. row' = [row EXCEPT ![j] = Succeeded(row[j])]
    BY <1>4, <1>2 DEF SuccWriteFails, history
  <2>2. Balanced(Succeeded(row[j]), claims'[j], abandons'[j])
    BY <1>4, <1>1, <1>2, BalancedWrites, Literals
         DEF SuccWriteFails, TypeInv, history
  <2>3. \A k \in Jobs \ {j} : /\ claims'[k] = claims[k]
                              /\ abandons'[k] = abandons[k]
    BY <1>4, <1>1, SMT DEF SuccWriteFails, TypeInv, history
  <2>4. QED
    BY <1>1, <2>1, <2>2, <2>3, BooksPut
<1>5. QED
  BY <1>3, <1>4 DEF SuccWriteFails

\* HealWrite keeps every row balanced.
LEMMA HealWrite_Books ==
  ASSUME TypeInv, BooksInv, NEW p \in Procs, HealWrite(p)
  PROVE  BooksInv'
<1> DEFINE j == wk[p].job
<1>1. j \in Jobs
  BY Held, States DEF HealWrite, Deciding, Holding
<1>2. Balanced(AfterHeal(row[j]), claims[j], abandons[j])
  BY <1>1, Row_Books, BalancedWrites DEF AfterHeal
<1>3. QED
  BY <1>1, <1>2, BooksPut DEF HealWrite, history

\* HealFails keeps every row balanced.
LEMMA HealFails_Books ==
  ASSUME TypeInv, BooksInv, NEW p \in Procs, NEW applied \in BOOLEAN,
         HealFails(p, applied)
  PROVE  BooksInv'
<1> DEFINE j == wk[p].job
<1>1. j \in Jobs
  BY Held, States DEF HealFails, Deciding, Holding
<1>2. Balanced(AfterHeal(row[j]), claims[j], abandons[j])
  BY <1>1, Row_Books, BalancedWrites DEF AfterHeal
<1>3. CASE applied
  BY <1>1, <1>2, <1>3, BooksPut DEF HealFails, history
<1>4. CASE ~applied
  BY <1>4, BooksKept DEF HealFails, history
<1>5. QED
  BY <1>3, <1>4

\* FailWrite keeps every row balanced.
LEMMA FailWrite_Books ==
  ASSUME TypeInv, BooksInv, NEW p \in Procs, FailWrite(p)
  PROVE  BooksInv'
<1> DEFINE j == wk[p].job
<1>1. j \in Jobs
  BY Held, States DEF FailWrite, Deciding, Holding
<1>2. /\ row[j] \in Row /\ claims[j] \in Nat /\ abandons[j] \in Nat
      /\ Balanced(row[j], claims[j], abandons[j])
  BY <1>1, Row_Books
<1>3. CASE StillRunning(j)
  <2>1. row' = [row EXCEPT ![j] = FailedRow(row[j], Outcome(wk[p]))]
    BY <1>3, <1>2 DEF FailWrite, history
  <2>2. Balanced(FailedRow(row[j], Outcome(wk[p])), claims'[j], abandons'[j])
    <3>1. Outcome(wk[p]) \in Status \ {"running"}
      BY Literals DEF Outcome
    <3>2. claims'[j] = claims[j] /\ abandons'[j] = abandons[j]
      BY <1>3, <1>1, <1>2 DEF FailWrite, TypeInv, history
    <3>3. Balanced(FailedRow(row[j], Outcome(wk[p])), claims[j], abandons[j])
      BY <1>2, <3>1, BalancedWrites, Literals
    <3>4. QED
      BY <3>2, <3>3
  <2>3. \A k \in Jobs \ {j} : /\ claims'[k] = claims[k]
                              /\ abandons'[k] = abandons[k]
    BY <1>3, <1>1, SMT DEF FailWrite, TypeInv, history
  <2>4. QED
    BY <1>1, <2>1, <2>2, <2>3, BooksPut
<1>4. CASE ~StillRunning(j)
  <2>1. row' = [row EXCEPT ![j] = row[j]]
    BY <1>4, <1>2 DEF FailWrite, history
  <2>2. Balanced(row[j], claims'[j], abandons'[j])
    BY <1>4, <1>1, <1>2, BalancedWrites, Literals
         DEF FailWrite, TypeInv, history
  <2>3. \A k \in Jobs \ {j} : /\ claims'[k] = claims[k]
                              /\ abandons'[k] = abandons[k]
    BY <1>4, <1>1, SMT DEF FailWrite, TypeInv, history
  <2>4. QED
    BY <1>1, <2>1, <2>2, <2>3, BooksPut
<1>5. QED
  BY <1>3, <1>4 DEF FailWrite

\* PollWrite keeps every row balanced.
LEMMA PollWrite_Books ==
  ASSUME TypeInv, BooksInv, NEW p \in Procs, PollWrite(p)
  PROVE  BooksInv'
<1> DEFINE j == poll[p].job
<1>1. j \in Jobs
  BY Held, States DEF PollWrite, Deciding, Holding
<1>2. /\ row[j] \in Row /\ claims[j] \in Nat /\ abandons[j] \in Nat
      /\ Balanced(row[j], claims[j], abandons[j])
  BY <1>1, Row_Books
<1>3. BooksInv'
  <2>1. row' = [row EXCEPT ![j] = CancelledRow(row[j])]
    BY <1>2 DEF PollWrite, history
  <2>2. Balanced(CancelledRow(row[j]), claims'[j], abandons'[j])
    BY <1>1, <1>2, BalancedWrites, Literals DEF PollWrite, TypeInv, history
  <2>3. \A k \in Jobs \ {j} : /\ claims'[k] = claims[k]
                              /\ abandons'[k] = abandons[k]
    BY <1>1, SMT DEF PollWrite, TypeInv, history
  <2>4. QED
    BY <1>1, <2>1, <2>2, <2>3, BooksPut
<1>4. QED
  BY <1>3 DEF PollWrite

\* ShutWrite keeps every row balanced.
LEMMA ShutWrite_Books ==
  ASSUME TypeInv, BooksInv, NEW p \in Procs, ShutWrite(p)
  PROVE  BooksInv'
<1> DEFINE j == wk[p].sjob
<1>1. j \in Jobs
  BY Held, States DEF ShutWrite, Deciding, Holding
<1>2. /\ row[j] \in Row /\ claims[j] \in Nat /\ abandons[j] \in Nat
      /\ Balanced(row[j], claims[j], abandons[j])
  BY <1>1, Row_Books
<1>3. CASE ~StillRunning(j)
  <2>1. row' = [row EXCEPT ![j] = row[j]]
    BY <1>3, <1>2 DEF ShutWrite, history
  <2>2. Balanced(row[j], claims'[j], abandons'[j])
    BY <1>3, <1>1, <1>2, BalancedWrites, Literals
         DEF ShutWrite, TypeInv, history
  <2>3. \A k \in Jobs \ {j} : /\ claims'[k] = claims[k]
                              /\ abandons'[k] = abandons[k]
    BY <1>3, <1>1, SMT DEF ShutWrite, TypeInv, history
  <2>4. QED
    BY <1>1, <2>1, <2>2, <2>3, BooksPut
<1>4. CASE StillRunning(j) /\ wk[p].sd = "requeue"
  <2>1. row' = [row EXCEPT ![j] = Requeued(row[j], "interrupted")]
    BY <1>4, <1>2 DEF ShutWrite, history
  <2>2. Balanced(Requeued(row[j], "interrupted"), claims'[j], abandons'[j])
    BY <1>4, <1>1, <1>2, BalancedWrites, Literals
         DEF ShutWrite, TypeInv, history, StillRunning
  <2>3. \A k \in Jobs \ {j} : /\ claims'[k] = claims[k]
                              /\ abandons'[k] = abandons[k]
    BY <1>4, <1>1, SMT DEF ShutWrite, TypeInv, history
  <2>4. QED
    BY <1>1, <2>1, <2>2, <2>3, BooksPut
<1>5. CASE StillRunning(j) /\ wk[p].sd # "requeue"
  <2>1. row' = [row EXCEPT ![j] = Abandoned(row[j], "interrupted")]
    BY <1>5, <1>2 DEF ShutWrite, history
  <2>2. Balanced(Abandoned(row[j], "interrupted"), claims'[j], abandons'[j])
    <3>1. row[j].status = "running"
      BY <1>5, SMT DEF ShutWrite, Stalled, StillRunning
    <3>2. claims'[j] = claims[j] /\ abandons'[j] = abandons[j] + 1
      BY <1>5, <1>1, <1>2 DEF ShutWrite, TypeInv, history, StillRunning
    <3>3. Balanced(Abandoned(row[j], "interrupted"), claims[j],
         abandons[j] + 1)
      BY <1>2, <3>1, BalancedWrites, Literals
    <3>4. QED
      BY <3>2, <3>3
  <2>3. \A k \in Jobs \ {j} : /\ claims'[k] = claims[k]
                              /\ abandons'[k] = abandons[k]
    BY <1>5, <1>1, SMT DEF ShutWrite, TypeInv, history
  <2>4. QED
    BY <1>1, <2>1, <2>2, <2>3, BooksPut
<1>6. QED
  BY <1>3, <1>4, <1>5 DEF ShutWrite

\* Each step of the system keeps every row balanced.
LEMMA BooksStep == TypeInv /\ BooksInv /\ [Next]_vars => BooksInv'
<1> SUFFICES ASSUME TypeInv, BooksInv, [Next]_vars PROVE BooksInv'
  OBVIOUS
<1>1. ASSUME NEW j \in Jobs,
             Enqueue(j) \/ CancelRead(j) \/ CancelWrite(j) \/ Age(j)
      PROVE  BooksInv'
  <2>1. CASE CancelRead(j)
    BY <2>1, BooksKept DEF CancelRead, history
  <2>2. QED
    BY <1>1, <2>1, Enqueue_Books, CancelWrite_Books, Age_Books
<1>2. ASSUME NEW p \in Procs, Heartbeat(p) PROVE BooksInv'
  BY <1>2, Heartbeat_Books
<1>3. ASSUME NEW p \in Procs, Reaper(p) PROVE BooksInv'
  <2>1. CASE TimerScan(p) \/ Boot(p) \/ BootDone(p)
    BY <2>1, BooksKept DEF TimerScan, Boot, BootDone, history
  <2>2. ASSUME NEW j \in Jobs, ReapWriteFails(p, j) PROVE BooksInv'
    BY <2>2, BooksKept DEF ReapWriteFails, history
  <2>3. QED
    BY <1>3, <2>1, <2>2, ReapWrite_Books DEF Reaper
<1>4. ASSUME NEW p \in Procs, ClaimStep(p) PROVE BooksInv'
  <2>1. CASE ClaimSelect(p) \/ ClaimResume(p)
    BY <2>1, BooksKept DEF ClaimSelect, ClaimResume, history
  <2>2. QED
    BY <1>4, <2>1, ClaimWrite_Books, ClaimFails_Books DEF ClaimStep
<1>5. ASSUME NEW p \in Procs, RunStep(p) PROVE BooksInv'
  <2>1. CASE HandlerReturns(p) \/ RunHooks(p) \/ LateCompletion(p)
             \/ TerminalWriteFails(p)
    BY <2>1, BooksKept DEF HandlerReturns, RunHooks, LateCompletion,
       TerminalWriteFails, history
  <2>2. ASSUME NEW e \in {"error", "cancel"}, HandlerThrows(p,
       e) PROVE BooksInv'
    BY <2>2, BooksKept DEF HandlerThrows, history
  <2>3. QED
    BY <1>5, <2>1, <2>2, MissingHandler_Books, SuccWrite_Books,
       SuccWriteFails_Books, HealWrite_Books, HealFails_Books, FailWrite_Books
       DEF RunStep
<1>6. ASSUME NEW p \in Procs, CancelPoll(p) PROVE BooksInv'
  <2>1. CASE PollRead(p) \/ PollResume(p) \/ PollWriteFails(p)
    BY <2>1, BooksKept DEF PollRead, PollResume, PollWriteFails, history
  <2>2. QED
    BY <1>6, <2>1, PollWrite_Books DEF CancelPoll
<1>7. ASSUME NEW p \in Procs, Shutdown(p) PROVE BooksInv'
  <2>1. CASE Sigterm(p) \/ ShutRead(p) \/ ShutFails(p) \/ ShutReturns(p)
             \/ Gone(p)
    BY <2>1, BooksKept DEF Sigterm, ShutRead, ShutFails, ShutReturns, Gone,
       history
  <2>2. QED
    BY <1>7, <2>1, ShutWrite_Books DEF Shutdown, Exit, Crash
<1>8. CASE UNCHANGED vars
  BY <1>8, BooksKept DEF vars
<1>9. QED
  BY <1>1, <1>2, <1>3, <1>4, <1>5, <1>6, <1>7, <1>8 DEF Next

\* The first state is balanced: a legacy row was claimed once.
LEMMA BooksInit == Init => BooksInv
<1> SUFFICES ASSUME Init, NEW j \in Jobs
             PROVE  Balanced(row[j], claims[j], abandons[j])
  BY DEF BooksInv
<1>1. CASE j \in Legacy
  <2>1. /\ row[j] = [AbsentRow EXCEPT !.status = "running", !.attempts = 1]
        /\ claims[j] = 1 /\ abandons[j] = 0
    BY <1>1 DEF Init
  <2>2. /\ row[j].attempts = 1 /\ row[j].reclaims = 0
        /\ row[j].marker = "none"
    BY <2>1 DEF AbsentRow
  <2>3. QED
    BY <2>1, <2>2 DEF Balanced
<1>2. CASE j \notin Legacy
  BY <1>2 DEF Init, Balanced, AbsentRow
<1>3. QED
  BY <1>1, <1>2

\* For any number of overlapping processes and every interleaving of claims,
\* retries, reclaims, shutdowns, heals, cancels and lost calls, the counters of
\* a row account for every time it was claimed, and neither underflows: the
\* decrement of the reaper and of shutdown() only ever meets a row that was
\* claimed (worker.ts, reaper.ts).
THEOREM BookkeepingHolds == Spec => []Bookkeeping
<1>1. BooksInv => Bookkeeping
  BY DEF BooksInv, Balanced, Bookkeeping
<1>2. TypeInv /\ BooksInv /\ [Next]_vars => TypeInv' /\ BooksInv'
  BY TypeStep, BooksStep
<1>3. Init => TypeInv /\ BooksInv
  BY TypeInit, BooksInit
<1>4. QED
  BY <1>1, <1>2, <1>3, PTL DEF Spec
-----------------------------------------------------------------------------
(* One process.  What it may have in hand, and what its reaper pass and its  *)
(* shutdown have decided, still fits the row when they write it.             *)

OneProcess == Procs # {} /\ \A p, q \in Procs : p = q

\* What RESTART_POLICIES and MAX_RECLAIMS allow a job.
Cap(j) == IF j \in Requeueable THEN MaxReclaims ELSE 0

\* The attempts of a row, and what its worker believes of them.
Tries(r, j) ==
  /\ r.attempts <= MaxAttempts[j]
  /\ r.status \in {"absent", "pending"} => r.attempts < MaxAttempts[j]
InHand(w, r) ==
  /\ w.pc = "selected" => /\ r.status \in {"pending", "cancelled"}
                          /\ r.attempts < MaxAttempts[w.job]
  /\ w.pc \in InRun \cup {"claimed"} /\ r.status = "running" => r.attempts = w.att
\* A pending row may be tried once more, and so may the one just selected.
TriesInv ==
  /\ \A j \in Jobs : Tries(row[j], j)
  /\ \A p \in Procs : wk[p].pc \in Holding => InHand(wk[p], row[wk[p].job])

\* What was decided to be handed back is still allowed to be: a write in between
\* leaves the row not running, or not stalled.
MayRequeue(r, j) == j \in Requeueable /\ r.reclaims < MaxReclaims
SparesInv ==
  /\ \A j \in Jobs : row[j].reclaims - abandons[j] <= Cap(j)
  /\ \A p \in Procs :
       /\ wk[p].sd \in Deciding => wk[p].pc \in InRun \cup {"stopped"}
       /\ wk[p].sd = "requeue" /\ row[wk[p].sjob].status = "running"
          => MayRequeue(row[wk[p].sjob], wk[p].sjob)
       /\ \A j \in Jobs : reap[p].todo[j] = "requeue" /\ Stalled(j, reap[p].mode)
                          => MayRequeue(row[j], j)

\* A job nobody asks to cancel: its hooks, its row and its run agree.
Undisturbed(r, h, w, j) ==
  /\ ~r.cancelReq
  /\ h <= 1 /\ (h = 1 => r.status = "succeeded")
  /\ w.job = j =>
       /\ w.pc = "selected" => r.status = "pending"
       /\ w.pc = "hooks" => r.status = "succeeded" /\ h = 0
       /\ w.pc \in {"claimed", "noHandler"} => r.status # "succeeded"
SuccessInv ==
  /\ \A j \in Jobs : row[j].status = "succeeded" => done[j]
  /\ \A p \in Procs : wk[p].pc \in {"succWrite", "hooks", "late", "heal"}
                      => done[wk[p].job]
  /\ \A p \in Procs : poll[p].stage # "none" => cancel[poll[p].job] # "none"
  /\ \A j \in Jobs, p \in Procs :
       cancel[j] = "none" => Undisturbed(row[j], hooked[j], wk[p], j)

SettledStep ==
  \A j \in Jobs : row[j].status \in {"succeeded", "failed", "abandoned"}
                  => row'[j].status \notin {"pending", "running"}

\* The row of a run in progress has a fresh heartbeat while it is RUNNING.
LiveInv ==
  \A p \in Procs :
    wk[p].pc \in InRun \cup {"claimed"}
    => \/ row[wk[p].job].status # "running"
       \/ row[wk[p].job].beat = "fresh"
SparedStep ==
  \A j \in Jobs :
    (row'[j].reclaims > row[j].reclaims /\ row'[j].marker = "reclaimed")
    => \A p \in Procs : ~Executes(p, j)

-----------------------------------------------------------------------------
(* The steps with alternatives, one alternative at a time. *)

\* What a step does to its worker or to its row.
Moves(p, pc) == wk' = [wk EXCEPT ![p] = Go(@, pc)] /\ UNCHANGED poll
Throws(p, e) ==
  /\ wk' = [wk EXCEPT ![p] = [@ EXCEPT !.pc = "failWrite", !.err = e]]
  /\ UNCHANGED poll
Succeeds(p) ==
  /\ row[wk[p].job].status = "running"
  /\ row' = [row EXCEPT ![wk[p].job] = Succeeded(@)]
Heals(p) ==
  /\ row[wk[p].job].status = "pending"
  /\ row[wk[p].job].marker = "interrupted"
  /\ row' = [row EXCEPT ![wk[p].job] = Healed(@)]
Reclaims(p, j) ==
  /\ Stalled(j, reap[p].mode) /\ reap[p].todo[j] = "requeue"
  /\ row' = [row EXCEPT ![j] = Requeued(@, "reclaimed")]
  /\ abandons' = [abandons EXCEPT ![j] = @]
GivesUp(p, j) ==
  /\ Stalled(j, reap[p].mode)
  /\ row' = [row EXCEPT ![j] = Abandoned(@, "reclaimed")]
  /\ abandons' = [abandons EXCEPT ![j] = @ + 1]

\* What HandlerReturns does.
EffectOfHandlerReturns(p) ==
  /\ wk[p].pc = "running" /\ done' = [done EXCEPT ![wk[p].job] = TRUE]
  /\ EndRun(p) \/ Moves(p, "succWrite")
  /\ UNCHANGED <<row, reap, cancel, claims, abandons, hooked>>

\* It does no more than that.
LEMMA HandlerReturns_Effect ==
  ASSUME NEW p \in Procs, HandlerReturns(p)
  PROVE  EffectOfHandlerReturns(p)
  BY DEF HandlerReturns, Moves, history, EffectOfHandlerReturns

\* What HandlerThrows does.
EffectOfHandlerThrows(p, e) ==
  /\ wk[p].pc = "running" /\ (EndRun(p) \/ Throws(p, e))
  /\ UNCHANGED <<row, reap, cancel, claims, abandons, done, hooked>>

\* It does no more than that.
LEMMA HandlerThrows_Effect ==
  ASSUME NEW p \in Procs, NEW e, HandlerThrows(p, e)
  PROVE  EffectOfHandlerThrows(p, e)
  BY DEF HandlerThrows, Catch, Throws, history, EffectOfHandlerThrows

\* What LateCompletion does.
EffectOfLateCompletion(p) ==
  /\ wk[p].pc = "late" /\ (EndRun(p) \/ Moves(p, "heal"))
  /\ UNCHANGED <<row, reap, cancel, claims, abandons, done, hooked>>

\* It does no more than that.
LEMMA LateCompletion_Effect ==
  ASSUME NEW p \in Procs, LateCompletion(p)
  PROVE  EffectOfLateCompletion(p)
  BY DEF LateCompletion, Moves, history, EffectOfLateCompletion

\* What SuccWrite does.
EffectOfSuccWrite(p) ==
  /\ wk[p].pc = "succWrite"
  /\ \/ Succeeds(p) /\ Moves(p, "hooks")
     \/ UNCHANGED row /\ Moves(p, "late")
  /\ UNCHANGED <<reap, cancel, claims, abandons, done, hooked>>

\* It does no more than that.
LEMMA SuccWrite_Effect ==
  ASSUME NEW p \in Procs, SuccWrite(p)
  PROVE  EffectOfSuccWrite(p)
  BY DEF SuccWrite, StillRunning, Succeeds, Moves, history, EffectOfSuccWrite

\* What SuccWriteFails does.
EffectOfSuccWriteFails(p) ==
  /\ wk[p].pc = "succWrite"
  /\ \/ Succeeds(p) /\ EndRun(p)
     \/ Succeeds(p) /\ Throws(p, "error")
     \/ UNCHANGED row /\ EndRun(p)
     \/ UNCHANGED row /\ Throws(p, "error")
  /\ UNCHANGED <<reap, cancel, claims, abandons, done, hooked>>

\* It does no more than that.
LEMMA SuccWriteFails_Effect ==
  ASSUME NEW p \in Procs, NEW applied \in BOOLEAN, SuccWriteFails(p, applied)
  PROVE  EffectOfSuccWriteFails(p)
<1>1. Succeeds(p) \/ UNCHANGED row
  BY DEF SuccWriteFails, StillRunning, Succeeds
<1>2. EndRun(p) \/ Throws(p, "error")
  BY DEF SuccWriteFails, Catch, Throws
<1>3. QED
  BY <1>1, <1>2 DEF SuccWriteFails, history, EffectOfSuccWriteFails

\* What HealFails does.
EffectOfHealFails(p) ==
  /\ wk[p].pc = "heal"
  /\ \/ Heals(p) /\ EndRun(p)
     \/ Heals(p) /\ Throws(p, "error")
     \/ UNCHANGED row /\ EndRun(p)
     \/ UNCHANGED row /\ Throws(p, "error")
  /\ UNCHANGED <<reap, cancel, claims, abandons, done, hooked>>

\* It does no more than that.
LEMMA HealFails_Effect ==
  ASSUME TypeInv, NEW p \in Procs, NEW applied \in BOOLEAN,
         HealFails(p, applied)
  PROVE  EffectOfHealFails(p)
<1>1. row = [row EXCEPT ![wk[p].job] = @]
  BY DEF TypeInv
<1>2. Heals(p) \/ UNCHANGED row
  BY <1>1 DEF HealFails, AfterHeal, Heals
<1>3. EndRun(p) \/ Throws(p, "error")
  BY DEF HealFails, Catch, Throws
<1>4. QED
  BY <1>2, <1>3 DEF HealFails, history, EffectOfHealFails

\* What ReapWrite does.
EffectOfReapWrite(p, j) ==
  /\ reap[p].todo[j] # "none"
  /\ reap' = [reap EXCEPT ![p] = Handled(@, j)]
  /\ \/ UNCHANGED <<row, abandons>>
     \/ Reclaims(p, j)
     \/ GivesUp(p, j)
  /\ UNCHANGED <<wk, poll, cancel, claims, done, hooked>>

\* It does no more than that.
LEMMA ReapWrite_Effect ==
  ASSUME TypeInv, NEW p \in Procs, NEW j \in Jobs, ReapWrite(p, j)
  PROVE  EffectOfReapWrite(p, j)
<1>1. reap[p].todo[j] \in {"none", "requeue", "abandon"}
  BY DEF TypeInv, Reap
<1>2. QED
  BY <1>1 DEF ReapWrite, Reclaims, GivesUp, EffectOfReapWrite

\* What ClaimFails does.
EffectOfClaimFails(p) ==
  /\ wk[p].pc = "selected" /\ wk' = [wk EXCEPT ![p] = LoopAgain(@)]
  /\ Claim(wk[p].job) \/ UNCHANGED row
  /\ UNCHANGED <<poll, reap, cancel, abandons, done, hooked>>

\* It does no more than that.
LEMMA ClaimFails_Effect ==
  ASSUME NEW p \in Procs, NEW applied \in BOOLEAN, ClaimFails(p, applied)
  PROVE  EffectOfClaimFails(p)
  BY DEF ClaimFails, EffectOfClaimFails

\* A heartbeat just written is stale in no mode of the reaper.
LEMMA FreshIsLive == \A m : "fresh" \notin StaleIn(m)
  BY DEF StaleIn

\* The steps that write no row.
LEMMA RowKept ==
  /\ \A j \in Jobs : CancelRead(j) => UNCHANGED row
  /\ \A p \in Procs :
       \/ TimerScan(p) \/ Boot(p) \/ BootDone(p)
       \/ \E j \in Jobs : ReapWriteFails(p, j)
       \/ ClaimSelect(p) \/ ClaimResume(p)
       \/ HandlerReturns(p) \/ \E e \in {"error", "cancel"} : HandlerThrows(p, e)
       \/ RunHooks(p) \/ LateCompletion(p) \/ TerminalWriteFails(p)
       \/ PollRead(p) \/ PollResume(p) \/ PollWriteFails(p)
       \/ Sigterm(p) \/ ShutRead(p) \/ ShutFails(p) \/ ShutReturns(p) \/ Gone(p)
       => UNCHANGED row
  BY DEF CancelRead, TimerScan, Boot, BootDone, ReapWriteFails, ClaimSelect,
         ClaimResume, HandlerReturns, HandlerThrows, RunHooks, LateCompletion,
         TerminalWriteFails, PollRead, PollResume, PollWriteFails, Sigterm,
         ShutRead, ShutFails, ShutReturns, Gone

\* One process: no row is tried more often than it may be.
LEMMA TriesStep ==
  ASSUME OneProcess, ConstantsAssumption, TypeInv, TriesInv, [Next]_vars
  PROVE  TriesInv'
<1> USE DEF TypeInv, Row, OwningWorker, Worker, OwningPoll, Poll, Reap, InRun,
     Holding, Deciding, OneProcess, TriesInv, Tries, InHand
<1>1. ASSUME NEW j \in Jobs, Enqueue(j)
      PROVE  TriesInv'
  BY <1>1 DEF Enqueue, Created, history
<1>2. ASSUME NEW j \in Jobs, CancelRead(j)
      PROVE  TriesInv'
  BY <1>2 DEF CancelRead, history
<1>3. ASSUME NEW j \in Jobs, CancelWrite(j)
      PROVE  TriesInv'
  BY <1>3 DEF CancelWrite, CancelledRow, history
<1>4. ASSUME NEW j \in Jobs, Age(j)
      PROVE  TriesInv'
  BY <1>4 DEF Age, Executes, history
<1>5. ASSUME NEW p \in Procs, Heartbeat(p)
      PROVE  TriesInv'
  BY <1>5 DEF Heartbeat, StillRunning, history
<1>6. ASSUME NEW p \in Procs, TimerScan(p)
      PROVE  TriesInv'
  BY <1>6 DEF TimerScan, Scan, ReapDecision, history
<1>7. ASSUME NEW p \in Procs, Boot(p)
      PROVE  TriesInv'
  BY <1>7 DEF Boot, FreshWorker, Scan, ReapDecision, history
<1>8. ASSUME NEW p \in Procs, BootDone(p)
      PROVE  TriesInv'
  BY <1>8 DEF BootDone, Go, NoReap, history
<1>9. ASSUME NEW p \in Procs, NEW j \in Jobs, ReapWrite(p, j)
      PROVE  TriesInv'
  <2>1. EffectOfReapWrite(p, j)
    BY <1>9, ReapWrite_Effect
  <2>2. CASE UNCHANGED <<row, abandons>>
    BY <2>1, <2>2 DEF EffectOfReapWrite, Handled, NoReap
  <2>3. CASE Reclaims(p, j)
    BY <2>1, <2>3 DEF EffectOfReapWrite, Reclaims, Requeued, Handled, NoReap,
         Stalled
  <2>4. CASE GivesUp(p, j)
    BY <2>1, <2>4 DEF EffectOfReapWrite, GivesUp, Abandoned, Handled, NoReap,
         Stalled
  <2>5. QED
    BY <2>1, <2>2, <2>3, <2>4 DEF EffectOfReapWrite
<1>10. ASSUME NEW p \in Procs, NEW j \in Jobs, ReapWriteFails(p, j)
       PROVE  TriesInv'
  BY <1>10 DEF ReapWriteFails, Handled, NoReap, history
<1>11. ASSUME NEW p \in Procs, ClaimSelect(p)
       PROVE  TriesInv'
  BY <1>11 DEF ClaimSelect, NextPending, history
<1>12. ASSUME NEW p \in Procs, ClaimWrite(p)
       PROVE  TriesInv'
  BY <1>12 DEF ClaimWrite, Claim, Claimed, history
<1>13. ASSUME NEW p \in Procs, ClaimResume(p)
       PROVE  TriesInv'
  BY <1>13 DEF ClaimResume, Go, history
<1>14. ASSUME NEW p \in Procs, NEW applied \in BOOLEAN, ClaimFails(p, applied)
       PROVE  TriesInv'
  <2>1. EffectOfClaimFails(p)
    BY <1>14, ClaimFails_Effect
  <2>2. CASE Claim(wk[p].job)
    BY <2>1, <2>2 DEF EffectOfClaimFails, Claim, Claimed, LoopAgain,
         FreshWorker
  <2>3. CASE UNCHANGED row
    BY <2>1, <2>3 DEF EffectOfClaimFails, LoopAgain, FreshWorker
  <2>4. QED
    BY <2>1, <2>2, <2>3 DEF EffectOfClaimFails
<1>15. ASSUME NEW p \in Procs, MissingHandler(p)
       PROVE  TriesInv'
  BY <1>15 DEF MissingHandler, EndRun, LoopAgain, FreshWorker, Detached,
       NoPoll, FailedRow, history
<1>16. ASSUME NEW p \in Procs, HandlerReturns(p)
       PROVE  TriesInv'
  <2>1. EffectOfHandlerReturns(p)
    BY <1>16, HandlerReturns_Effect
  <2>2. CASE EndRun(p)
    BY <2>1, <2>2 DEF EffectOfHandlerReturns, EndRun, LoopAgain, FreshWorker,
         Detached, NoPoll
  <2>3. CASE Moves(p, "succWrite")
    BY <2>1, <2>3 DEF EffectOfHandlerReturns, Moves, Go
  <2>4. QED
    BY <2>1, <2>2, <2>3 DEF EffectOfHandlerReturns
<1>17. ASSUME NEW p \in Procs, NEW e \in {"error", "cancel"}, HandlerThrows(p, e)
       PROVE  TriesInv'
  <2>1. EffectOfHandlerThrows(p, e)
    BY <1>17, HandlerThrows_Effect
  <2>2. CASE EndRun(p)
    BY <2>1, <2>2 DEF EffectOfHandlerThrows, EndRun, LoopAgain, FreshWorker,
         Detached, NoPoll
  <2>3. CASE Throws(p, e)
    BY <2>1, <2>3 DEF EffectOfHandlerThrows, Throws
  <2>4. QED
    BY <2>1, <2>2, <2>3 DEF EffectOfHandlerThrows
<1>18. ASSUME NEW p \in Procs, SuccWrite(p)
       PROVE  TriesInv'
  <2>1. EffectOfSuccWrite(p)
    BY <1>18, SuccWrite_Effect
  <2>2. CASE Succeeds(p) /\ Moves(p, "hooks")
    BY <2>1, <2>2 DEF EffectOfSuccWrite, Succeeds, Succeeded, Moves, Go
  <2>3. CASE UNCHANGED row /\ Moves(p, "late")
    BY <2>1, <2>3 DEF EffectOfSuccWrite, Moves, Go
  <2>4. QED
    BY <2>1, <2>2, <2>3 DEF EffectOfSuccWrite
<1>19. ASSUME NEW p \in Procs, NEW applied \in BOOLEAN, SuccWriteFails(p, applied)
       PROVE  TriesInv'
  <2>1. EffectOfSuccWriteFails(p)
    BY <1>19, SuccWriteFails_Effect
  <2>2. CASE Succeeds(p) /\ EndRun(p)
    BY <2>1, <2>2 DEF EffectOfSuccWriteFails, Succeeds, Succeeded, EndRun,
         LoopAgain, FreshWorker, Detached, NoPoll
  <2>3. CASE Succeeds(p) /\ Throws(p, "error")
    BY <2>1, <2>3 DEF EffectOfSuccWriteFails, Succeeds, Succeeded, Throws
  <2>4. CASE UNCHANGED row /\ EndRun(p)
    BY <2>1, <2>4 DEF EffectOfSuccWriteFails, EndRun, LoopAgain, FreshWorker,
         Detached, NoPoll
  <2>5. CASE UNCHANGED row /\ Throws(p, "error")
    BY <2>1, <2>5 DEF EffectOfSuccWriteFails, Throws
  <2>6. QED
    BY <2>1, <2>2, <2>3, <2>4, <2>5 DEF EffectOfSuccWriteFails
<1>20. ASSUME NEW p \in Procs, RunHooks(p)
       PROVE  TriesInv'
  BY <1>20 DEF RunHooks, EndRun, LoopAgain, FreshWorker, Detached, NoPoll,
       history
<1>21. ASSUME NEW p \in Procs, LateCompletion(p)
       PROVE  TriesInv'
  <2>1. EffectOfLateCompletion(p)
    BY <1>21, LateCompletion_Effect
  <2>2. CASE EndRun(p)
    BY <2>1, <2>2 DEF EffectOfLateCompletion, EndRun, LoopAgain, FreshWorker,
         Detached, NoPoll
  <2>3. CASE Moves(p, "heal")
    BY <2>1, <2>3 DEF EffectOfLateCompletion, Moves, Go
  <2>4. QED
    BY <2>1, <2>2, <2>3 DEF EffectOfLateCompletion
<1>22. ASSUME NEW p \in Procs, HealWrite(p)
       PROVE  TriesInv'
  BY <1>22 DEF HealWrite, EndRun, LoopAgain, FreshWorker,
       Detached, NoPoll, AfterHeal, Healed, history
<1>22a. ASSUME NEW p \in Procs, NEW applied \in BOOLEAN, HealFails(p, applied)
        PROVE  TriesInv'
  <2>1. EffectOfHealFails(p)
    BY <1>22a, HealFails_Effect
  <2>2. CASE Heals(p) /\ EndRun(p)
    BY <2>1, <2>2 DEF EffectOfHealFails, Heals, Healed, EndRun,
         LoopAgain, FreshWorker, Detached, NoPoll
  <2>3. CASE Heals(p) /\ Throws(p, "error")
    BY <2>1, <2>3 DEF EffectOfHealFails, Heals, Healed, Throws
  <2>4. CASE UNCHANGED row /\ EndRun(p)
    BY <2>1, <2>4 DEF EffectOfHealFails, EndRun, LoopAgain,
         FreshWorker, Detached, NoPoll
  <2>5. CASE UNCHANGED row /\ Throws(p, "error")
    BY <2>1, <2>5 DEF EffectOfHealFails, Throws
  <2>6. QED
    BY <2>1, <2>2, <2>3, <2>4, <2>5 DEF EffectOfHealFails
<1>23. ASSUME NEW p \in Procs, FailWrite(p)
       PROVE  TriesInv'
  BY <1>23 DEF FailWrite, EndRun, LoopAgain, FreshWorker, Detached, NoPoll,
       Outcome, FailedRow, StillRunning, history
<1>24. ASSUME NEW p \in Procs, TerminalWriteFails(p)
       PROVE  TriesInv'
  BY <1>24 DEF TerminalWriteFails, EndRun, LoopAgain, FreshWorker, Detached,
       NoPoll, history
<1>25. ASSUME NEW p \in Procs, PollRead(p)
       PROVE  TriesInv'
  BY <1>25 DEF PollRead, history
<1>26. ASSUME NEW p \in Procs, PollResume(p)
       PROVE  TriesInv'
  BY <1>26 DEF PollResume, history
<1>27. ASSUME NEW p \in Procs, PollWrite(p)
       PROVE  TriesInv'
  BY <1>27 DEF PollWrite, NoPoll, CancelledRow, history
<1>27a. ASSUME NEW p \in Procs, PollWriteFails(p)
        PROVE  TriesInv'
  BY <1>27a DEF PollWriteFails, NoPoll, history
<1>28. ASSUME NEW p \in Procs, Sigterm(p)
       PROVE  TriesInv'
  BY <1>28 DEF Sigterm, Leave, history
<1>29. ASSUME NEW p \in Procs, ShutRead(p)
       PROVE  TriesInv'
  BY <1>29 DEF ShutRead, Leave, ReapDecision, history
<1>30. ASSUME NEW p \in Procs, ShutWrite(p)
       PROVE  TriesInv'
  BY <1>30 DEF ShutWrite, StillRunning, Requeued, Abandoned, Leave, history
<1>31. ASSUME NEW p \in Procs, ShutFails(p)
       PROVE  TriesInv'
  BY <1>31 DEF ShutFails, Leave, history
<1>32. ASSUME NEW p \in Procs, ShutReturns(p)
       PROVE  TriesInv'
  BY <1>32 DEF ShutReturns, Leave, history
<1>33. ASSUME NEW p \in Procs, Gone(p)
       PROVE  TriesInv'
  BY <1>33 DEF Gone, FreshWorker, NoPoll, NoReap, history
<1>34. CASE UNCHANGED vars
  BY <1>34 DEF vars, history
<1> HIDE DEF TypeInv, Row, OwningWorker, Worker, OwningPoll, Poll, Reap,
     InRun, Holding, Deciding, OneProcess, TriesInv, Tries, InHand
<1>35. ASSUME NEW p \in Procs, Reaper(p) PROVE TriesInv'
  BY <1>35, <1>6, <1>7, <1>8, <1>9, <1>10 DEF Reaper
<1>36. ASSUME NEW p \in Procs, ClaimStep(p) PROVE TriesInv'
  BY <1>36, <1>11, <1>12, <1>13, <1>14 DEF ClaimStep
<1>37. ASSUME NEW p \in Procs, RunStep(p) PROVE TriesInv'
  BY <1>37, <1>15, <1>16, <1>17, <1>18, <1>19, <1>20, <1>21, <1>22, <1>22a,
       <1>23, <1>24 DEF RunStep
<1>38. ASSUME NEW p \in Procs, CancelPoll(p) PROVE TriesInv'
  BY <1>38, <1>25, <1>26, <1>27, <1>27a DEF CancelPoll
<1>39. ASSUME NEW p \in Procs, Shutdown(p) PROVE TriesInv'
  BY <1>39, <1>28, <1>29, <1>30, <1>31, <1>32, <1>33 DEF Shutdown, Exit, Crash
<1>40. QED
  BY <1>1, <1>2, <1>3, <1>4, <1>5, <1>34, <1>35, <1>36, <1>37, <1>38, <1>39
       DEF Next

\* One process: no row is handed back more often than its policy allows.
LEMMA SparesStep ==
  ASSUME OneProcess, ConstantsAssumption, TypeInv, SparesInv, [Next]_vars
  PROVE  SparesInv'
<1> USE DEF TypeInv, Row, OwningWorker, Worker, OwningPoll, Poll, Reap, InRun,
     Holding, Deciding, OneProcess, SparesInv, MayRequeue, Cap, Stalled
<1>1. ASSUME NEW j \in Jobs, Enqueue(j)
      PROVE  SparesInv'
  BY <1>1, FreshIsLive DEF Enqueue, Created, history
<1>2. ASSUME NEW j \in Jobs, CancelRead(j)
      PROVE  SparesInv'
  BY <1>2, FreshIsLive DEF CancelRead, history
<1>3. ASSUME NEW j \in Jobs, CancelWrite(j)
      PROVE  SparesInv'
  BY <1>3, FreshIsLive DEF CancelWrite, CancelledRow, history
<1>4. ASSUME NEW j \in Jobs, Age(j)
      PROVE  SparesInv'
  BY <1>4, FreshIsLive DEF Age, Executes, history
<1>5. ASSUME NEW p \in Procs, Heartbeat(p)
      PROVE  SparesInv'
  BY <1>5, FreshIsLive DEF Heartbeat, StillRunning, history
<1>6. ASSUME NEW p \in Procs, TimerScan(p)
      PROVE  SparesInv'
  BY <1>6, FreshIsLive DEF TimerScan, Scan, ReapDecision, history
<1>7. ASSUME NEW p \in Procs, Boot(p)
      PROVE  SparesInv'
  BY <1>7, FreshIsLive DEF Boot, FreshWorker, Scan, ReapDecision, history
<1>8. ASSUME NEW p \in Procs, BootDone(p)
      PROVE  SparesInv'
  BY <1>8, FreshIsLive DEF BootDone, Go, NoReap, history
<1>9. ASSUME NEW p \in Procs, NEW j \in Jobs, ReapWrite(p, j)
      PROVE  SparesInv'
  <2>1. EffectOfReapWrite(p, j)
    BY <1>9, ReapWrite_Effect
  <2>2. CASE UNCHANGED <<row, abandons>>
    BY <2>1, <2>2, FreshIsLive DEF EffectOfReapWrite, Handled, NoReap
  <2>3. CASE Reclaims(p, j)
    BY <2>1, <2>3, FreshIsLive DEF EffectOfReapWrite, Reclaims, Requeued,
         Handled, NoReap, Stalled
  <2>4. CASE GivesUp(p, j)
    BY <2>1, <2>4, FreshIsLive DEF EffectOfReapWrite, GivesUp, Abandoned,
         Handled, NoReap, Stalled
  <2>5. QED
    BY <2>1, <2>2, <2>3, <2>4 DEF EffectOfReapWrite
<1>10. ASSUME NEW p \in Procs, NEW j \in Jobs, ReapWriteFails(p, j)
       PROVE  SparesInv'
  BY <1>10, FreshIsLive DEF ReapWriteFails, Handled, NoReap, history
<1>11. ASSUME NEW p \in Procs, ClaimSelect(p)
       PROVE  SparesInv'
  BY <1>11, FreshIsLive DEF ClaimSelect, NextPending, history
<1>12. ASSUME NEW p \in Procs, ClaimWrite(p)
       PROVE  SparesInv'
  BY <1>12, FreshIsLive DEF ClaimWrite, Claim, Claimed, history
<1>13. ASSUME NEW p \in Procs, ClaimResume(p)
       PROVE  SparesInv'
  BY <1>13, FreshIsLive DEF ClaimResume, Go, history
<1>14. ASSUME NEW p \in Procs, NEW applied \in BOOLEAN, ClaimFails(p, applied)
       PROVE  SparesInv'
  <2>1. EffectOfClaimFails(p)
    BY <1>14, ClaimFails_Effect
  <2>2. CASE Claim(wk[p].job)
    <3>1. /\ row' = [row EXCEPT ![wk[p].job] = Claimed(@)]
          /\ wk' = [wk EXCEPT ![p] = LoopAgain(@)] /\ wk[p].pc = "selected"
          /\ UNCHANGED <<poll, reap, cancel, abandons, done, hooked>>
      BY <2>1, <2>2 DEF EffectOfClaimFails, Claim
    <3>2. QED
      BY <3>1, FreshIsLive DEF Claimed, LoopAgain, FreshWorker
  <2>3. CASE UNCHANGED row
    BY <2>1, <2>3, FreshIsLive DEF EffectOfClaimFails, LoopAgain, FreshWorker
  <2>4. QED
    BY <2>1, <2>2, <2>3 DEF EffectOfClaimFails
<1>15. ASSUME NEW p \in Procs, MissingHandler(p)
       PROVE  SparesInv'
  BY <1>15, FreshIsLive DEF MissingHandler, EndRun, LoopAgain, FreshWorker,
       Detached, NoPoll, FailedRow, history
<1>16. ASSUME NEW p \in Procs, HandlerReturns(p)
       PROVE  SparesInv'
  <2>1. EffectOfHandlerReturns(p)
    BY <1>16, HandlerReturns_Effect
  <2>2. CASE EndRun(p)
    BY <2>1, <2>2, FreshIsLive DEF EffectOfHandlerReturns, EndRun, LoopAgain,
         FreshWorker, Detached, NoPoll
  <2>3. CASE Moves(p, "succWrite")
    BY <2>1, <2>3, FreshIsLive DEF EffectOfHandlerReturns, Moves, Go
  <2>4. QED
    BY <2>1, <2>2, <2>3 DEF EffectOfHandlerReturns
<1>17. ASSUME NEW p \in Procs, NEW e \in {"error", "cancel"}, HandlerThrows(p, e)
       PROVE  SparesInv'
  <2>1. EffectOfHandlerThrows(p, e)
    BY <1>17, HandlerThrows_Effect
  <2>2. CASE EndRun(p)
    BY <2>1, <2>2, FreshIsLive DEF EffectOfHandlerThrows, EndRun, LoopAgain,
         FreshWorker, Detached, NoPoll
  <2>3. CASE Throws(p, e)
    BY <2>1, <2>3, FreshIsLive DEF EffectOfHandlerThrows, Throws
  <2>4. QED
    BY <2>1, <2>2, <2>3 DEF EffectOfHandlerThrows
<1>18. ASSUME NEW p \in Procs, SuccWrite(p)
       PROVE  SparesInv'
  <2>1. EffectOfSuccWrite(p)
    BY <1>18, SuccWrite_Effect
  <2>2. CASE Succeeds(p) /\ Moves(p, "hooks")
    BY <2>1, <2>2, FreshIsLive DEF EffectOfSuccWrite, Succeeds, Succeeded,
         Moves, Go
  <2>3. CASE UNCHANGED row /\ Moves(p, "late")
    BY <2>1, <2>3, FreshIsLive DEF EffectOfSuccWrite, Moves, Go
  <2>4. QED
    BY <2>1, <2>2, <2>3 DEF EffectOfSuccWrite
<1>19. ASSUME NEW p \in Procs, NEW applied \in BOOLEAN, SuccWriteFails(p, applied)
       PROVE  SparesInv'
  <2>1. EffectOfSuccWriteFails(p)
    BY <1>19, SuccWriteFails_Effect
  <2>2. CASE Succeeds(p) /\ EndRun(p)
    BY <2>1, <2>2, FreshIsLive DEF EffectOfSuccWriteFails, Succeeds,
         Succeeded, EndRun, LoopAgain, FreshWorker, Detached, NoPoll
  <2>3. CASE Succeeds(p) /\ Throws(p, "error")
    BY <2>1, <2>3, FreshIsLive DEF EffectOfSuccWriteFails, Succeeds,
         Succeeded, Throws
  <2>4. CASE UNCHANGED row /\ EndRun(p)
    BY <2>1, <2>4, FreshIsLive DEF EffectOfSuccWriteFails, EndRun, LoopAgain,
         FreshWorker, Detached, NoPoll
  <2>5. CASE UNCHANGED row /\ Throws(p, "error")
    BY <2>1, <2>5, FreshIsLive DEF EffectOfSuccWriteFails, Throws
  <2>6. QED
    BY <2>1, <2>2, <2>3, <2>4, <2>5 DEF EffectOfSuccWriteFails
<1>20. ASSUME NEW p \in Procs, RunHooks(p)
       PROVE  SparesInv'
  BY <1>20, FreshIsLive DEF RunHooks, EndRun, LoopAgain, FreshWorker,
       Detached, NoPoll, history
<1>21. ASSUME NEW p \in Procs, LateCompletion(p)
       PROVE  SparesInv'
  <2>1. EffectOfLateCompletion(p)
    BY <1>21, LateCompletion_Effect
  <2>2. CASE EndRun(p)
    BY <2>1, <2>2, FreshIsLive DEF EffectOfLateCompletion, EndRun, LoopAgain,
         FreshWorker, Detached, NoPoll
  <2>3. CASE Moves(p, "heal")
    BY <2>1, <2>3, FreshIsLive DEF EffectOfLateCompletion, Moves, Go
  <2>4. QED
    BY <2>1, <2>2, <2>3 DEF EffectOfLateCompletion
<1>22. ASSUME NEW p \in Procs, HealWrite(p)
       PROVE  SparesInv'
  BY <1>22, FreshIsLive DEF HealWrite, EndRun, LoopAgain, FreshWorker,
       Detached, NoPoll, AfterHeal, Healed, history
<1>22a. ASSUME NEW p \in Procs, NEW applied \in BOOLEAN, HealFails(p, applied)
        PROVE  SparesInv'
  <2>1. EffectOfHealFails(p)
    BY <1>22a, HealFails_Effect
  <2>2. CASE Heals(p) /\ EndRun(p)
    BY <2>1, <2>2, FreshIsLive DEF EffectOfHealFails, Heals, Healed, EndRun,
         LoopAgain, FreshWorker, Detached, NoPoll
  <2>3. CASE Heals(p) /\ Throws(p, "error")
    BY <2>1, <2>3, FreshIsLive DEF EffectOfHealFails, Heals, Healed, Throws
  <2>4. CASE UNCHANGED row /\ EndRun(p)
    BY <2>1, <2>4, FreshIsLive DEF EffectOfHealFails, EndRun, LoopAgain,
         FreshWorker, Detached, NoPoll
  <2>5. CASE UNCHANGED row /\ Throws(p, "error")
    BY <2>1, <2>5, FreshIsLive DEF EffectOfHealFails, Throws
  <2>6. QED
    BY <2>1, <2>2, <2>3, <2>4, <2>5 DEF EffectOfHealFails
<1>23. ASSUME NEW p \in Procs, FailWrite(p)
       PROVE  SparesInv'
  BY <1>23, FreshIsLive DEF FailWrite, EndRun, LoopAgain, FreshWorker,
       Detached, NoPoll, Outcome, FailedRow, StillRunning, history
<1>24. ASSUME NEW p \in Procs, TerminalWriteFails(p)
       PROVE  SparesInv'
  BY <1>24, FreshIsLive DEF TerminalWriteFails, EndRun, LoopAgain,
       FreshWorker, Detached, NoPoll, history
<1>25. ASSUME NEW p \in Procs, PollRead(p)
       PROVE  SparesInv'
  BY <1>25, FreshIsLive DEF PollRead, history
<1>26. ASSUME NEW p \in Procs, PollResume(p)
       PROVE  SparesInv'
  BY <1>26, FreshIsLive DEF PollResume, history
<1>27. ASSUME NEW p \in Procs, PollWrite(p)
       PROVE  SparesInv'
  BY <1>27, FreshIsLive DEF PollWrite, NoPoll, CancelledRow, history
<1>27a. ASSUME NEW p \in Procs, PollWriteFails(p)
        PROVE  SparesInv'
  BY <1>27a, FreshIsLive DEF PollWriteFails, NoPoll, history
<1>28. ASSUME NEW p \in Procs, Sigterm(p)
       PROVE  SparesInv'
  BY <1>28, FreshIsLive DEF Sigterm, Leave, history
<1>29. ASSUME NEW p \in Procs, ShutRead(p)
       PROVE  SparesInv'
  BY <1>29, FreshIsLive DEF ShutRead, Leave, ReapDecision, history
<1>30. ASSUME NEW p \in Procs, ShutWrite(p)
       PROVE  SparesInv'
  BY <1>30, FreshIsLive DEF ShutWrite, StillRunning, Requeued, Abandoned,
       Leave, history
<1>31. ASSUME NEW p \in Procs, ShutFails(p)
       PROVE  SparesInv'
  BY <1>31, FreshIsLive DEF ShutFails, Leave, history
<1>32. ASSUME NEW p \in Procs, ShutReturns(p)
       PROVE  SparesInv'
  BY <1>32, FreshIsLive DEF ShutReturns, Leave, history
<1>33. ASSUME NEW p \in Procs, Gone(p)
       PROVE  SparesInv'
  BY <1>33, FreshIsLive DEF Gone, FreshWorker, NoPoll, NoReap, history
<1>34. CASE UNCHANGED vars
  BY <1>34 DEF vars, history
<1> HIDE DEF TypeInv, Row, OwningWorker, Worker, OwningPoll, Poll, Reap,
     InRun, Holding, Deciding, OneProcess, SparesInv, MayRequeue, Cap, Stalled
<1>35. ASSUME NEW p \in Procs, Reaper(p) PROVE SparesInv'
  BY <1>35, <1>6, <1>7, <1>8, <1>9, <1>10 DEF Reaper
<1>36. ASSUME NEW p \in Procs, ClaimStep(p) PROVE SparesInv'
  BY <1>36, <1>11, <1>12, <1>13, <1>14 DEF ClaimStep
<1>37. ASSUME NEW p \in Procs, RunStep(p) PROVE SparesInv'
  BY <1>37, <1>15, <1>16, <1>17, <1>18, <1>19, <1>20, <1>21, <1>22, <1>22a,
       <1>23, <1>24 DEF RunStep
<1>38. ASSUME NEW p \in Procs, CancelPoll(p) PROVE SparesInv'
  BY <1>38, <1>25, <1>26, <1>27, <1>27a DEF CancelPoll
<1>39. ASSUME NEW p \in Procs, Shutdown(p) PROVE SparesInv'
  BY <1>39, <1>28, <1>29, <1>30, <1>31, <1>32, <1>33 DEF Shutdown, Exit, Crash
<1>40. QED
  BY <1>1, <1>2, <1>3, <1>4, <1>5, <1>34, <1>35, <1>36, <1>37, <1>38, <1>39
       DEF Next

\* One process: success and the hooks follow a completed run.
LEMMA SuccessStep ==
  ASSUME OneProcess, ConstantsAssumption, TypeInv, SuccessInv, [Next]_vars
  PROVE  SuccessInv'
<1> USE DEF TypeInv, Row, OwningWorker, Worker, OwningPoll, Poll, Reap, InRun,
     Holding, Deciding, OneProcess, SuccessInv, Undisturbed
<1>1. ASSUME NEW j \in Jobs, Enqueue(j)
      PROVE  SuccessInv'
  BY <1>1 DEF Enqueue, Created, history
<1>2. ASSUME NEW j \in Jobs, CancelRead(j)
      PROVE  SuccessInv'
  BY <1>2 DEF CancelRead, history
<1>3. ASSUME NEW j \in Jobs, CancelWrite(j)
      PROVE  SuccessInv'
  BY <1>3 DEF CancelWrite, CancelledRow, history
<1>4. ASSUME NEW j \in Jobs, Age(j)
      PROVE  SuccessInv'
  BY <1>4 DEF Age, Executes, history
<1>5. ASSUME NEW p \in Procs, Heartbeat(p)
      PROVE  SuccessInv'
  BY <1>5 DEF Heartbeat, StillRunning, history
<1>6. ASSUME NEW p \in Procs, TimerScan(p)
      PROVE  SuccessInv'
  BY <1>6 DEF TimerScan, Scan, ReapDecision, history
<1>7. ASSUME NEW p \in Procs, Boot(p)
      PROVE  SuccessInv'
  BY <1>7 DEF Boot, FreshWorker, Scan, ReapDecision, history
<1>8. ASSUME NEW p \in Procs, BootDone(p)
      PROVE  SuccessInv'
  BY <1>8 DEF BootDone, Go, NoReap, history
<1>9. ASSUME NEW p \in Procs, NEW j \in Jobs, ReapWrite(p, j)
      PROVE  SuccessInv'
  <2>1. EffectOfReapWrite(p, j)
    BY <1>9, ReapWrite_Effect
  <2>2. CASE UNCHANGED <<row, abandons>>
    BY <2>1, <2>2 DEF EffectOfReapWrite, Handled, NoReap
  <2>3. CASE Reclaims(p, j)
    BY <2>1, <2>3 DEF EffectOfReapWrite, Reclaims, Requeued, Handled, NoReap,
         Stalled
  <2>4. CASE GivesUp(p, j)
    BY <2>1, <2>4 DEF EffectOfReapWrite, GivesUp, Abandoned, Handled, NoReap,
         Stalled
  <2>5. QED
    BY <2>1, <2>2, <2>3, <2>4 DEF EffectOfReapWrite
<1>10. ASSUME NEW p \in Procs, NEW j \in Jobs, ReapWriteFails(p, j)
       PROVE  SuccessInv'
  BY <1>10 DEF ReapWriteFails, Handled, NoReap, history
<1>11. ASSUME NEW p \in Procs, ClaimSelect(p)
       PROVE  SuccessInv'
  BY <1>11 DEF ClaimSelect, NextPending, history
<1>12. ASSUME NEW p \in Procs, ClaimWrite(p)
       PROVE  SuccessInv'
  BY <1>12 DEF ClaimWrite, Claim, Claimed, history
<1>13. ASSUME NEW p \in Procs, ClaimResume(p)
       PROVE  SuccessInv'
  BY <1>13 DEF ClaimResume, Go, history
<1>14. ASSUME NEW p \in Procs, NEW applied \in BOOLEAN, ClaimFails(p, applied)
       PROVE  SuccessInv'
  <2>1. EffectOfClaimFails(p)
    BY <1>14, ClaimFails_Effect
  <2>2. CASE Claim(wk[p].job)
    BY <2>1, <2>2 DEF EffectOfClaimFails, Claim, Claimed, LoopAgain,
         FreshWorker
  <2>3. CASE UNCHANGED row
    BY <2>1, <2>3 DEF EffectOfClaimFails, LoopAgain, FreshWorker
  <2>4. QED
    BY <2>1, <2>2, <2>3 DEF EffectOfClaimFails
<1>15. ASSUME NEW p \in Procs, MissingHandler(p)
       PROVE  SuccessInv'
  BY <1>15 DEF MissingHandler, EndRun, LoopAgain, FreshWorker, Detached,
       NoPoll, FailedRow, history
<1>16. ASSUME NEW p \in Procs, HandlerReturns(p)
       PROVE  SuccessInv'
  <2>1. EffectOfHandlerReturns(p)
    BY <1>16, HandlerReturns_Effect
  <2>2. CASE EndRun(p)
    BY <2>1, <2>2 DEF EffectOfHandlerReturns, EndRun, LoopAgain, FreshWorker,
         Detached, NoPoll
  <2>3. CASE Moves(p, "succWrite")
    BY <2>1, <2>3 DEF EffectOfHandlerReturns, Moves, Go
  <2>4. QED
    BY <2>1, <2>2, <2>3 DEF EffectOfHandlerReturns
<1>17. ASSUME NEW p \in Procs, NEW e \in {"error", "cancel"}, HandlerThrows(p, e)
       PROVE  SuccessInv'
  <2>1. EffectOfHandlerThrows(p, e)
    BY <1>17, HandlerThrows_Effect
  <2>2. CASE EndRun(p)
    BY <2>1, <2>2 DEF EffectOfHandlerThrows, EndRun, LoopAgain, FreshWorker,
         Detached, NoPoll
  <2>3. CASE Throws(p, e)
    BY <2>1, <2>3 DEF EffectOfHandlerThrows, Throws
  <2>4. QED
    BY <2>1, <2>2, <2>3 DEF EffectOfHandlerThrows
<1>18. ASSUME NEW p \in Procs, SuccWrite(p)
       PROVE  SuccessInv'
  <2>1. EffectOfSuccWrite(p)
    BY <1>18, SuccWrite_Effect
  <2>2. CASE Succeeds(p) /\ Moves(p, "hooks")
    <3> DEFINE j == wk[p].job
    <3>1. /\ wk[p].pc = "succWrite" /\ j \in Jobs
          /\ wk' = [wk EXCEPT ![p] = [@ EXCEPT !.pc = "hooks"]]
          /\ row' = [row EXCEPT ![j] = Succeeded(@)] /\ row[j].status = "running"
          /\ UNCHANGED <<poll, cancel, done, hooked>>
      BY <2>1, <2>2 DEF EffectOfSuccWrite, Succeeds, Moves, Go
    <3>2. done[j] /\ hooked[j] \in Nat
      BY <3>1
    <3>3. row'[j] = Succeeded(row[j]) /\ \A k \in Jobs \ {j} : row'[k] = row[k]
      BY <3>1
    <3>4. /\ Succeeded(row[j]).status = "succeeded"
          /\ Succeeded(row[j]).cancelReq = row[j].cancelReq
      BY <3>1 DEF Succeeded
    <3>5. wk'[p].pc = "hooks" /\ wk'[p].job = j
      BY <3>1
    <3> HIDE DEF j
    <3>6. ASSUME NEW k \in Jobs, NEW z \in Procs, cancel[k] = "none"
          PROVE  Undisturbed(row'[k], hooked[k], wk'[z], k)
      <4>1. z = p /\ Undisturbed(row[k], hooked[k], wk[p], k)
        BY <3>6
      <4>2. CASE k = j
        <5>1. hooked[j] = 0
          <6>1. row[j].status = "running"
            BY <3>1
          <6>2. hooked[j] <= 1 /\ (hooked[j] = 1 => row[j].status = "succeeded")
            BY <4>1, <4>2
          <6>3. hooked[j] \in Nat
            BY <3>2
          <6> HIDE DEF TypeInv
          <6>4. QED
            BY <6>1, <6>2, <6>3
        <5>2. ~Succeeded(row[j]).cancelReq
          BY <3>4, <4>1, <4>2
        <5>3. /\ row'[k] = Succeeded(row[j]) /\ hooked[k] = 0
              /\ wk'[z].pc = "hooks"
          BY <3>3, <3>5, <4>1, <4>2, <5>1
        <5> HIDE DEF TypeInv
        <5>4. QED
          BY <3>4, <5>2, <5>3
      <4>3. CASE k # j
        BY <3>3, <3>5, <4>1, <4>3
      <4>4. QED
        BY <4>2, <4>3
    <3>7. QED
      BY <3>1, <3>2, <3>3, <3>5, <3>6
  <2>3. CASE UNCHANGED row /\ Moves(p, "late")
    BY <2>1, <2>3 DEF EffectOfSuccWrite, Moves, Go
  <2>4. QED
    BY <2>1, <2>2, <2>3 DEF EffectOfSuccWrite
<1>19. ASSUME NEW p \in Procs, NEW applied \in BOOLEAN, SuccWriteFails(p, applied)
       PROVE  SuccessInv'
  <2>1. EffectOfSuccWriteFails(p)
    BY <1>19, SuccWriteFails_Effect
  <2>2. CASE Succeeds(p) /\ EndRun(p)
    BY <2>1, <2>2 DEF EffectOfSuccWriteFails, Succeeds, Succeeded, EndRun,
         LoopAgain, FreshWorker, Detached, NoPoll
  <2>3. CASE Succeeds(p) /\ Throws(p, "error")
    BY <2>1, <2>3 DEF EffectOfSuccWriteFails, Succeeds, Succeeded, Throws
  <2>4. CASE UNCHANGED row /\ EndRun(p)
    BY <2>1, <2>4 DEF EffectOfSuccWriteFails, EndRun, LoopAgain, FreshWorker,
         Detached, NoPoll
  <2>5. CASE UNCHANGED row /\ Throws(p, "error")
    BY <2>1, <2>5 DEF EffectOfSuccWriteFails, Throws
  <2>6. QED
    BY <2>1, <2>2, <2>3, <2>4, <2>5 DEF EffectOfSuccWriteFails
<1>20. ASSUME NEW p \in Procs, RunHooks(p)
       PROVE  SuccessInv'
  BY <1>20 DEF RunHooks, EndRun, LoopAgain, FreshWorker, Detached, NoPoll,
       history
<1>21. ASSUME NEW p \in Procs, LateCompletion(p)
       PROVE  SuccessInv'
  <2>1. EffectOfLateCompletion(p)
    BY <1>21, LateCompletion_Effect
  <2>2. CASE EndRun(p)
    BY <2>1, <2>2 DEF EffectOfLateCompletion, EndRun, LoopAgain, FreshWorker,
         Detached, NoPoll
  <2>3. CASE Moves(p, "heal")
    BY <2>1, <2>3 DEF EffectOfLateCompletion, Moves, Go
  <2>4. QED
    BY <2>1, <2>2, <2>3 DEF EffectOfLateCompletion
<1>22. ASSUME NEW p \in Procs, HealWrite(p)
       PROVE  SuccessInv'
  BY <1>22 DEF HealWrite, EndRun, LoopAgain, FreshWorker,
       Detached, NoPoll, AfterHeal, Healed, history
<1>22a. ASSUME NEW p \in Procs, NEW applied \in BOOLEAN, HealFails(p, applied)
        PROVE  SuccessInv'
  <2>1. EffectOfHealFails(p)
    BY <1>22a, HealFails_Effect
  <2>2. CASE Heals(p) /\ EndRun(p)
    BY <2>1, <2>2 DEF EffectOfHealFails, Heals, Healed, EndRun,
         LoopAgain, FreshWorker, Detached, NoPoll
  <2>3. CASE Heals(p) /\ Throws(p, "error")
    BY <2>1, <2>3 DEF EffectOfHealFails, Heals, Healed, Throws
  <2>4. CASE UNCHANGED row /\ EndRun(p)
    BY <2>1, <2>4 DEF EffectOfHealFails, EndRun, LoopAgain,
         FreshWorker, Detached, NoPoll
  <2>5. CASE UNCHANGED row /\ Throws(p, "error")
    BY <2>1, <2>5 DEF EffectOfHealFails, Throws
  <2>6. QED
    BY <2>1, <2>2, <2>3, <2>4, <2>5 DEF EffectOfHealFails
<1>23. ASSUME NEW p \in Procs, FailWrite(p)
       PROVE  SuccessInv'
  BY <1>23 DEF FailWrite, EndRun, LoopAgain, FreshWorker, Detached, NoPoll,
       Outcome, FailedRow, StillRunning, history
<1>24. ASSUME NEW p \in Procs, TerminalWriteFails(p)
       PROVE  SuccessInv'
  BY <1>24 DEF TerminalWriteFails, EndRun, LoopAgain, FreshWorker, Detached,
       NoPoll, history
<1>25. ASSUME NEW p \in Procs, PollRead(p)
       PROVE  SuccessInv'
  BY <1>25 DEF PollRead, history
<1>26. ASSUME NEW p \in Procs, PollResume(p)
       PROVE  SuccessInv'
  BY <1>26 DEF PollResume, history
<1>27. ASSUME NEW p \in Procs, PollWrite(p)
       PROVE  SuccessInv'
  BY <1>27 DEF PollWrite, NoPoll, CancelledRow, history
<1>27a. ASSUME NEW p \in Procs, PollWriteFails(p)
        PROVE  SuccessInv'
  BY <1>27a DEF PollWriteFails, NoPoll, history
<1>28. ASSUME NEW p \in Procs, Sigterm(p)
       PROVE  SuccessInv'
  BY <1>28 DEF Sigterm, Leave, history
<1>29. ASSUME NEW p \in Procs, ShutRead(p)
       PROVE  SuccessInv'
  BY <1>29 DEF ShutRead, Leave, ReapDecision, history
<1>30. ASSUME NEW p \in Procs, ShutWrite(p)
       PROVE  SuccessInv'
  BY <1>30 DEF ShutWrite, StillRunning, Requeued, Abandoned, Leave, history
<1>31. ASSUME NEW p \in Procs, ShutFails(p)
       PROVE  SuccessInv'
  BY <1>31 DEF ShutFails, Leave, history
<1>32. ASSUME NEW p \in Procs, ShutReturns(p)
       PROVE  SuccessInv'
  BY <1>32 DEF ShutReturns, Leave, history
<1>33. ASSUME NEW p \in Procs, Gone(p)
       PROVE  SuccessInv'
  BY <1>33 DEF Gone, FreshWorker, NoPoll, NoReap, history
<1>34. CASE UNCHANGED vars
  BY <1>34 DEF vars, history
<1> HIDE DEF TypeInv, Row, OwningWorker, Worker, OwningPoll, Poll, Reap,
     InRun, Holding, Deciding, OneProcess, SuccessInv, Undisturbed
<1>35. ASSUME NEW p \in Procs, Reaper(p) PROVE SuccessInv'
  BY <1>35, <1>6, <1>7, <1>8, <1>9, <1>10 DEF Reaper
<1>36. ASSUME NEW p \in Procs, ClaimStep(p) PROVE SuccessInv'
  BY <1>36, <1>11, <1>12, <1>13, <1>14 DEF ClaimStep
<1>37. ASSUME NEW p \in Procs, RunStep(p) PROVE SuccessInv'
  BY <1>37, <1>15, <1>16, <1>17, <1>18, <1>19, <1>20, <1>21, <1>22, <1>22a,
       <1>23, <1>24 DEF RunStep
<1>38. ASSUME NEW p \in Procs, CancelPoll(p) PROVE SuccessInv'
  BY <1>38, <1>25, <1>26, <1>27, <1>27a DEF CancelPoll
<1>39. ASSUME NEW p \in Procs, Shutdown(p) PROVE SuccessInv'
  BY <1>39, <1>28, <1>29, <1>30, <1>31, <1>32, <1>33 DEF Shutdown, Exit, Crash
<1>40. QED
  BY <1>1, <1>2, <1>3, <1>4, <1>5, <1>34, <1>35, <1>36, <1>37, <1>38, <1>39
       DEF Next

\* One process: no write decided on an older reading hits a settled row.
LEMMA SettledHolds ==
  ASSUME OneProcess, TypeInv, TriesInv, [Next]_vars
  PROVE  SettledStep
<1> USE DEF TypeInv, Row, OwningWorker, Worker, OwningPoll, Poll, Reap, InRun,
     Holding, Deciding, OneProcess, SettledStep, TriesInv, InHand
<1>1. ASSUME NEW j \in Jobs, Enqueue(j)
      PROVE  SettledStep
  BY <1>1 DEF Enqueue, Created, history
<1>2. ASSUME NEW j \in Jobs, CancelWrite(j)
      PROVE  SettledStep
  BY <1>2 DEF CancelWrite, CancelledRow, history
<1>3. ASSUME NEW j \in Jobs, Age(j)
      PROVE  SettledStep
  BY <1>3 DEF Age, Executes, history
<1>4. ASSUME NEW p \in Procs, Heartbeat(p)
      PROVE  SettledStep
  BY <1>4 DEF Heartbeat, StillRunning, history
<1>5. ASSUME NEW p \in Procs, NEW j \in Jobs, ReapWrite(p, j)
      PROVE  SettledStep
  <2>1. EffectOfReapWrite(p, j)
    BY <1>5, ReapWrite_Effect
  <2>2. CASE UNCHANGED <<row, abandons>>
    BY <2>1, <2>2 DEF EffectOfReapWrite, Handled, NoReap
  <2>3. CASE Reclaims(p, j)
    BY <2>1, <2>3 DEF EffectOfReapWrite, Reclaims, Requeued, Handled, NoReap,
         Stalled
  <2>4. CASE GivesUp(p, j)
    BY <2>1, <2>4 DEF EffectOfReapWrite, GivesUp, Abandoned, Handled, NoReap,
         Stalled
  <2>5. QED
    BY <2>1, <2>2, <2>3, <2>4 DEF EffectOfReapWrite
<1>6. ASSUME NEW p \in Procs, ClaimWrite(p)
      PROVE  SettledStep
  BY <1>6 DEF ClaimWrite, Claim, Claimed, history
<1>7. ASSUME NEW p \in Procs, NEW applied \in BOOLEAN, ClaimFails(p, applied)
      PROVE  SettledStep
  <2>1. EffectOfClaimFails(p)
    BY <1>7, ClaimFails_Effect
  <2>2. CASE Claim(wk[p].job)
    BY <2>1, <2>2 DEF EffectOfClaimFails, Claim, Claimed, LoopAgain,
         FreshWorker
  <2>3. CASE UNCHANGED row
    BY <2>1, <2>3 DEF EffectOfClaimFails, LoopAgain, FreshWorker
  <2>4. QED
    BY <2>1, <2>2, <2>3 DEF EffectOfClaimFails
<1>8. ASSUME NEW p \in Procs, MissingHandler(p)
      PROVE  SettledStep
  BY <1>8 DEF MissingHandler, EndRun, LoopAgain, FreshWorker, Detached,
       NoPoll, FailedRow, history
<1>9. ASSUME NEW p \in Procs, SuccWrite(p)
      PROVE  SettledStep
  <2>1. EffectOfSuccWrite(p)
    BY <1>9, SuccWrite_Effect
  <2>2. CASE Succeeds(p) /\ Moves(p, "hooks")
    BY <2>1, <2>2 DEF EffectOfSuccWrite, Succeeds, Succeeded, Moves, Go
  <2>3. CASE UNCHANGED row /\ Moves(p, "late")
    BY <2>1, <2>3 DEF EffectOfSuccWrite, Moves, Go
  <2>4. QED
    BY <2>1, <2>2, <2>3 DEF EffectOfSuccWrite
<1>10. ASSUME NEW p \in Procs, NEW applied \in BOOLEAN, SuccWriteFails(p, applied)
       PROVE  SettledStep
  <2>1. EffectOfSuccWriteFails(p)
    BY <1>10, SuccWriteFails_Effect
  <2>2. CASE Succeeds(p) /\ EndRun(p)
    BY <2>1, <2>2 DEF EffectOfSuccWriteFails, Succeeds, Succeeded, EndRun,
         LoopAgain, FreshWorker, Detached, NoPoll
  <2>3. CASE Succeeds(p) /\ Throws(p, "error")
    BY <2>1, <2>3 DEF EffectOfSuccWriteFails, Succeeds, Succeeded, Throws
  <2>4. CASE UNCHANGED row /\ EndRun(p)
    BY <2>1, <2>4 DEF EffectOfSuccWriteFails, EndRun, LoopAgain, FreshWorker,
         Detached, NoPoll
  <2>5. CASE UNCHANGED row /\ Throws(p, "error")
    BY <2>1, <2>5 DEF EffectOfSuccWriteFails, Throws
  <2>6. QED
    BY <2>1, <2>2, <2>3, <2>4, <2>5 DEF EffectOfSuccWriteFails
<1>11. ASSUME NEW p \in Procs, HealWrite(p)
       PROVE  SettledStep
  BY <1>11 DEF HealWrite, EndRun, LoopAgain, FreshWorker,
       Detached, NoPoll, AfterHeal, Healed, history
<1>11a. ASSUME NEW p \in Procs, NEW applied \in BOOLEAN, HealFails(p, applied)
        PROVE  SettledStep
  <2>1. EffectOfHealFails(p)
    BY <1>11a, HealFails_Effect
  <2>2. CASE Heals(p) /\ EndRun(p)
    BY <2>1, <2>2 DEF EffectOfHealFails, Heals, Healed, EndRun,
         LoopAgain, FreshWorker, Detached, NoPoll
  <2>3. CASE Heals(p) /\ Throws(p, "error")
    BY <2>1, <2>3 DEF EffectOfHealFails, Heals, Healed, Throws
  <2>4. CASE UNCHANGED row /\ EndRun(p)
    BY <2>1, <2>4 DEF EffectOfHealFails, EndRun, LoopAgain,
         FreshWorker, Detached, NoPoll
  <2>5. CASE UNCHANGED row /\ Throws(p, "error")
    BY <2>1, <2>5 DEF EffectOfHealFails, Throws
  <2>6. QED
    BY <2>1, <2>2, <2>3, <2>4, <2>5 DEF EffectOfHealFails
<1>12. ASSUME NEW p \in Procs, FailWrite(p)
       PROVE  SettledStep
  BY <1>12 DEF FailWrite, EndRun, LoopAgain, FreshWorker, Detached, NoPoll,
       Outcome, FailedRow, StillRunning, history
<1>13. ASSUME NEW p \in Procs, PollWrite(p)
       PROVE  SettledStep
  BY <1>13 DEF PollWrite, NoPoll, CancelledRow, history
<1>14. ASSUME NEW p \in Procs, ShutWrite(p)
       PROVE  SettledStep
  BY <1>14 DEF ShutWrite, StillRunning, Requeued, Abandoned, Leave, history
<1>15. ASSUME UNCHANGED row PROVE SettledStep
  BY <1>15
<1> HIDE DEF TypeInv, Row, OwningWorker, Worker, OwningPoll, Poll, Reap,
     InRun, Holding, Deciding, OneProcess, SettledStep, TriesInv, InHand
<1>16. ASSUME NEW p \in Procs, Reaper(p) PROVE SettledStep
  BY <1>16, <1>5, RowKept, <1>15 DEF Reaper
<1>17. ASSUME NEW p \in Procs, ClaimStep(p) PROVE SettledStep
  BY <1>17, <1>6, <1>7, RowKept, <1>15 DEF ClaimStep
<1>18. ASSUME NEW p \in Procs, RunStep(p) PROVE SettledStep
  BY <1>18, <1>8, <1>9, <1>10, <1>11, <1>11a, <1>12, RowKept, <1>15 DEF RunStep
<1>19. ASSUME NEW p \in Procs, CancelPoll(p) PROVE SettledStep
  BY <1>19, <1>13, RowKept, <1>15 DEF CancelPoll
<1>20. ASSUME NEW p \in Procs, Shutdown(p) PROVE SettledStep
  BY <1>20, <1>14, RowKept, <1>15 DEF Shutdown, Exit, Crash
<1>21. QED
  BY <1>1, <1>2, <1>3, <1>4, RowKept, <1>15, <1>15, <1>16, <1>17, <1>18,
       <1>19, <1>20 DEF Next, vars

\* Any processes: the row of a live run is fresh.
LEMMA LiveStep ==
  ASSUME ~BeatLoss, TypeInv, LiveInv, [Next]_vars
  PROVE  LiveInv'
<1> USE DEF TypeInv, Row, OwningWorker, Worker, OwningPoll, Poll, Reap, InRun,
     Holding, Deciding, LiveInv
<1>1. ASSUME NEW j \in Jobs, Enqueue(j)
      PROVE  LiveInv'
  BY <1>1 DEF Enqueue, Created, history
<1>2. ASSUME NEW j \in Jobs, CancelRead(j)
      PROVE  LiveInv'
  BY <1>2 DEF CancelRead, history
<1>3. ASSUME NEW j \in Jobs, CancelWrite(j)
      PROVE  LiveInv'
  BY <1>3 DEF CancelWrite, CancelledRow, history
<1>4. ASSUME NEW j \in Jobs, Age(j)
      PROVE  LiveInv'
  BY <1>4 DEF Age, Executes, history
<1>5. ASSUME NEW p \in Procs, Heartbeat(p)
      PROVE  LiveInv'
  BY <1>5 DEF Heartbeat, StillRunning, history
<1>6. ASSUME NEW p \in Procs, TimerScan(p)
      PROVE  LiveInv'
  BY <1>6 DEF TimerScan, Scan, ReapDecision, history
<1>7. ASSUME NEW p \in Procs, Boot(p)
      PROVE  LiveInv'
  BY <1>7 DEF Boot, FreshWorker, Scan, ReapDecision, history
<1>8. ASSUME NEW p \in Procs, BootDone(p)
      PROVE  LiveInv'
  BY <1>8 DEF BootDone, Go, NoReap, history
<1>9. ASSUME NEW p \in Procs, NEW j \in Jobs, ReapWrite(p, j)
      PROVE  LiveInv'
  <2>1. EffectOfReapWrite(p, j)
    BY <1>9, ReapWrite_Effect
  <2>2. CASE UNCHANGED <<row, abandons>>
    BY <2>1, <2>2 DEF EffectOfReapWrite, Handled, NoReap
  <2>3. CASE Reclaims(p, j)
    BY <2>1, <2>3 DEF EffectOfReapWrite, Reclaims, Requeued, Handled, NoReap,
         Stalled
  <2>4. CASE GivesUp(p, j)
    BY <2>1, <2>4 DEF EffectOfReapWrite, GivesUp, Abandoned, Handled, NoReap,
         Stalled
  <2>5. QED
    BY <2>1, <2>2, <2>3, <2>4 DEF EffectOfReapWrite
<1>10. ASSUME NEW p \in Procs, NEW j \in Jobs, ReapWriteFails(p, j)
       PROVE  LiveInv'
  BY <1>10 DEF ReapWriteFails, Handled, NoReap, history
<1>11. ASSUME NEW p \in Procs, ClaimSelect(p)
       PROVE  LiveInv'
  BY <1>11 DEF ClaimSelect, NextPending, history
<1>12. ASSUME NEW p \in Procs, ClaimWrite(p)
       PROVE  LiveInv'
  BY <1>12 DEF ClaimWrite, Claim, Claimed, history
<1>13. ASSUME NEW p \in Procs, ClaimResume(p)
       PROVE  LiveInv'
  BY <1>13 DEF ClaimResume, Go, history
<1>14. ASSUME NEW p \in Procs, NEW applied \in BOOLEAN, ClaimFails(p, applied)
       PROVE  LiveInv'
  <2>1. EffectOfClaimFails(p)
    BY <1>14, ClaimFails_Effect
  <2>2. CASE Claim(wk[p].job)
    BY <2>1, <2>2 DEF EffectOfClaimFails, Claim, Claimed, LoopAgain,
         FreshWorker
  <2>3. CASE UNCHANGED row
    BY <2>1, <2>3 DEF EffectOfClaimFails, LoopAgain, FreshWorker
  <2>4. QED
    BY <2>1, <2>2, <2>3 DEF EffectOfClaimFails
<1>15. ASSUME NEW p \in Procs, MissingHandler(p)
       PROVE  LiveInv'
  BY <1>15 DEF MissingHandler, EndRun, LoopAgain, FreshWorker, Detached,
       NoPoll, FailedRow, history
<1>16. ASSUME NEW p \in Procs, HandlerReturns(p)
       PROVE  LiveInv'
  <2>1. EffectOfHandlerReturns(p)
    BY <1>16, HandlerReturns_Effect
  <2>2. CASE EndRun(p)
    BY <2>1, <2>2 DEF EffectOfHandlerReturns, EndRun, LoopAgain, FreshWorker,
         Detached, NoPoll
  <2>3. CASE Moves(p, "succWrite")
    BY <2>1, <2>3 DEF EffectOfHandlerReturns, Moves, Go
  <2>4. QED
    BY <2>1, <2>2, <2>3 DEF EffectOfHandlerReturns
<1>17. ASSUME NEW p \in Procs, NEW e \in {"error", "cancel"}, HandlerThrows(p, e)
       PROVE  LiveInv'
  <2>1. EffectOfHandlerThrows(p, e)
    BY <1>17, HandlerThrows_Effect
  <2>2. CASE EndRun(p)
    BY <2>1, <2>2 DEF EffectOfHandlerThrows, EndRun, LoopAgain, FreshWorker,
         Detached, NoPoll
  <2>3. CASE Throws(p, e)
    BY <2>1, <2>3 DEF EffectOfHandlerThrows, Throws
  <2>4. QED
    BY <2>1, <2>2, <2>3 DEF EffectOfHandlerThrows
<1>18. ASSUME NEW p \in Procs, SuccWrite(p)
       PROVE  LiveInv'
  <2>1. EffectOfSuccWrite(p)
    BY <1>18, SuccWrite_Effect
  <2>2. CASE Succeeds(p) /\ Moves(p, "hooks")
    BY <2>1, <2>2 DEF EffectOfSuccWrite, Succeeds, Succeeded, Moves, Go
  <2>3. CASE UNCHANGED row /\ Moves(p, "late")
    BY <2>1, <2>3 DEF EffectOfSuccWrite, Moves, Go
  <2>4. QED
    BY <2>1, <2>2, <2>3 DEF EffectOfSuccWrite
<1>19. ASSUME NEW p \in Procs, NEW applied \in BOOLEAN, SuccWriteFails(p, applied)
       PROVE  LiveInv'
  <2>1. EffectOfSuccWriteFails(p)
    BY <1>19, SuccWriteFails_Effect
  <2>2. CASE Succeeds(p) /\ EndRun(p)
    BY <2>1, <2>2 DEF EffectOfSuccWriteFails, Succeeds, Succeeded, EndRun,
         LoopAgain, FreshWorker, Detached, NoPoll
  <2>3. CASE Succeeds(p) /\ Throws(p, "error")
    BY <2>1, <2>3 DEF EffectOfSuccWriteFails, Succeeds, Succeeded, Throws
  <2>4. CASE UNCHANGED row /\ EndRun(p)
    BY <2>1, <2>4 DEF EffectOfSuccWriteFails, EndRun, LoopAgain, FreshWorker,
         Detached, NoPoll
  <2>5. CASE UNCHANGED row /\ Throws(p, "error")
    BY <2>1, <2>5 DEF EffectOfSuccWriteFails, Throws
  <2>6. QED
    BY <2>1, <2>2, <2>3, <2>4, <2>5 DEF EffectOfSuccWriteFails
<1>20. ASSUME NEW p \in Procs, RunHooks(p)
       PROVE  LiveInv'
  BY <1>20 DEF RunHooks, EndRun, LoopAgain, FreshWorker, Detached, NoPoll,
       history
<1>21. ASSUME NEW p \in Procs, LateCompletion(p)
       PROVE  LiveInv'
  <2>1. EffectOfLateCompletion(p)
    BY <1>21, LateCompletion_Effect
  <2>2. CASE EndRun(p)
    BY <2>1, <2>2 DEF EffectOfLateCompletion, EndRun, LoopAgain, FreshWorker,
         Detached, NoPoll
  <2>3. CASE Moves(p, "heal")
    BY <2>1, <2>3 DEF EffectOfLateCompletion, Moves, Go
  <2>4. QED
    BY <2>1, <2>2, <2>3 DEF EffectOfLateCompletion
<1>22. ASSUME NEW p \in Procs, HealWrite(p)
       PROVE  LiveInv'
  BY <1>22 DEF HealWrite, EndRun, LoopAgain, FreshWorker,
       Detached, NoPoll, AfterHeal, Healed, history
<1>22a. ASSUME NEW p \in Procs, NEW applied \in BOOLEAN, HealFails(p, applied)
        PROVE  LiveInv'
  <2>1. EffectOfHealFails(p)
    BY <1>22a, HealFails_Effect
  <2>2. CASE Heals(p) /\ EndRun(p)
    BY <2>1, <2>2 DEF EffectOfHealFails, Heals, Healed, EndRun,
         LoopAgain, FreshWorker, Detached, NoPoll
  <2>3. CASE Heals(p) /\ Throws(p, "error")
    BY <2>1, <2>3 DEF EffectOfHealFails, Heals, Healed, Throws
  <2>4. CASE UNCHANGED row /\ EndRun(p)
    BY <2>1, <2>4 DEF EffectOfHealFails, EndRun, LoopAgain,
         FreshWorker, Detached, NoPoll
  <2>5. CASE UNCHANGED row /\ Throws(p, "error")
    BY <2>1, <2>5 DEF EffectOfHealFails, Throws
  <2>6. QED
    BY <2>1, <2>2, <2>3, <2>4, <2>5 DEF EffectOfHealFails
<1>23. ASSUME NEW p \in Procs, FailWrite(p)
       PROVE  LiveInv'
  BY <1>23 DEF FailWrite, EndRun, LoopAgain, FreshWorker, Detached, NoPoll,
       Outcome, FailedRow, StillRunning, history
<1>24. ASSUME NEW p \in Procs, TerminalWriteFails(p)
       PROVE  LiveInv'
  BY <1>24 DEF TerminalWriteFails, EndRun, LoopAgain, FreshWorker, Detached,
       NoPoll, history
<1>25. ASSUME NEW p \in Procs, PollRead(p)
       PROVE  LiveInv'
  BY <1>25 DEF PollRead, history
<1>26. ASSUME NEW p \in Procs, PollResume(p)
       PROVE  LiveInv'
  BY <1>26 DEF PollResume, history
<1>27. ASSUME NEW p \in Procs, PollWrite(p)
       PROVE  LiveInv'
  BY <1>27 DEF PollWrite, NoPoll, CancelledRow, history
<1>27a. ASSUME NEW p \in Procs, PollWriteFails(p)
        PROVE  LiveInv'
  BY <1>27a DEF PollWriteFails, NoPoll, history
<1>28. ASSUME NEW p \in Procs, Sigterm(p)
       PROVE  LiveInv'
  BY <1>28 DEF Sigterm, Leave, history
<1>29. ASSUME NEW p \in Procs, ShutRead(p)
       PROVE  LiveInv'
  BY <1>29 DEF ShutRead, Leave, ReapDecision, history
<1>30. ASSUME NEW p \in Procs, ShutWrite(p)
       PROVE  LiveInv'
  BY <1>30 DEF ShutWrite, StillRunning, Requeued, Abandoned, Leave, history
<1>31. ASSUME NEW p \in Procs, ShutFails(p)
       PROVE  LiveInv'
  BY <1>31 DEF ShutFails, Leave, history
<1>32. ASSUME NEW p \in Procs, ShutReturns(p)
       PROVE  LiveInv'
  BY <1>32 DEF ShutReturns, Leave, history
<1>33. ASSUME NEW p \in Procs, Gone(p)
       PROVE  LiveInv'
  BY <1>33 DEF Gone, FreshWorker, NoPoll, NoReap, history
<1>34. CASE UNCHANGED vars
  BY <1>34 DEF vars, history
<1> HIDE DEF TypeInv, Row, OwningWorker, Worker, OwningPoll, Poll, Reap,
     InRun, Holding, Deciding, LiveInv
<1>35. ASSUME NEW p \in Procs, Reaper(p) PROVE LiveInv'
  BY <1>35, <1>6, <1>7, <1>8, <1>9, <1>10 DEF Reaper
<1>36. ASSUME NEW p \in Procs, ClaimStep(p) PROVE LiveInv'
  BY <1>36, <1>11, <1>12, <1>13, <1>14 DEF ClaimStep
<1>37. ASSUME NEW p \in Procs, RunStep(p) PROVE LiveInv'
  BY <1>37, <1>15, <1>16, <1>17, <1>18, <1>19, <1>20, <1>21, <1>22, <1>22a,
       <1>23, <1>24 DEF RunStep
<1>38. ASSUME NEW p \in Procs, CancelPoll(p) PROVE LiveInv'
  BY <1>38, <1>25, <1>26, <1>27, <1>27a DEF CancelPoll
<1>39. ASSUME NEW p \in Procs, Shutdown(p) PROVE LiveInv'
  BY <1>39, <1>28, <1>29, <1>30, <1>31, <1>32, <1>33 DEF Shutdown, Exit, Crash
<1>40. QED
  BY <1>1, <1>2, <1>3, <1>4, <1>5, <1>34, <1>35, <1>36, <1>37, <1>38, <1>39
       DEF Next

\* Any processes: what the reaper takes nobody executes.
LEMMA SparedHolds ==
  ASSUME TypeInv, LiveInv, [Next]_vars
  PROVE  SparedStep
<1> USE DEF TypeInv, Row, OwningWorker, Worker, OwningPoll, Poll, Reap, InRun,
     Holding, Deciding, SparedStep, LiveInv, Executes, Stalled
<1>1. ASSUME NEW j \in Jobs, Enqueue(j)
      PROVE  SparedStep
  BY <1>1, FreshIsLive DEF Enqueue, Created, history
<1>2. ASSUME NEW j \in Jobs, CancelWrite(j)
      PROVE  SparedStep
  BY <1>2, FreshIsLive DEF CancelWrite, CancelledRow, history
<1>3. ASSUME NEW j \in Jobs, Age(j)
      PROVE  SparedStep
  BY <1>3, FreshIsLive DEF Age, Executes, history
<1>4. ASSUME NEW p \in Procs, Heartbeat(p)
      PROVE  SparedStep
  BY <1>4, FreshIsLive DEF Heartbeat, StillRunning, history
<1>5. ASSUME NEW p \in Procs, NEW j \in Jobs, ReapWrite(p, j)
      PROVE  SparedStep
  <2>1. EffectOfReapWrite(p, j)
    BY <1>5, ReapWrite_Effect
  <2>2. CASE UNCHANGED <<row, abandons>>
    BY <2>1, <2>2, FreshIsLive DEF EffectOfReapWrite, Handled, NoReap
  <2>3. CASE Reclaims(p, j)
    BY <2>1, <2>3, FreshIsLive DEF EffectOfReapWrite, Reclaims, Requeued,
         Handled, NoReap, Stalled
  <2>4. CASE GivesUp(p, j)
    BY <2>1, <2>4, FreshIsLive DEF EffectOfReapWrite, GivesUp, Abandoned,
         Handled, NoReap, Stalled
  <2>5. QED
    BY <2>1, <2>2, <2>3, <2>4 DEF EffectOfReapWrite
<1>6. ASSUME NEW p \in Procs, ClaimWrite(p)
      PROVE  SparedStep
  BY <1>6, FreshIsLive DEF ClaimWrite, Claim, Claimed, history
<1>7. ASSUME NEW p \in Procs, NEW applied \in BOOLEAN, ClaimFails(p, applied)
      PROVE  SparedStep
  <2>1. EffectOfClaimFails(p)
    BY <1>7, ClaimFails_Effect
  <2>2. CASE Claim(wk[p].job)
    BY <2>1, <2>2, FreshIsLive DEF EffectOfClaimFails, Claim, Claimed,
         LoopAgain, FreshWorker
  <2>3. CASE UNCHANGED row
    BY <2>1, <2>3, FreshIsLive DEF EffectOfClaimFails, LoopAgain, FreshWorker
  <2>4. QED
    BY <2>1, <2>2, <2>3 DEF EffectOfClaimFails
<1>8. ASSUME NEW p \in Procs, MissingHandler(p)
      PROVE  SparedStep
  BY <1>8, FreshIsLive DEF MissingHandler, EndRun, LoopAgain, FreshWorker,
       Detached, NoPoll, FailedRow, history
<1>9. ASSUME NEW p \in Procs, SuccWrite(p)
      PROVE  SparedStep
  <2>1. EffectOfSuccWrite(p)
    BY <1>9, SuccWrite_Effect
  <2>2. CASE Succeeds(p) /\ Moves(p, "hooks")
    BY <2>1, <2>2, FreshIsLive DEF EffectOfSuccWrite, Succeeds, Succeeded,
         Moves, Go
  <2>3. CASE UNCHANGED row /\ Moves(p, "late")
    BY <2>1, <2>3, FreshIsLive DEF EffectOfSuccWrite, Moves, Go
  <2>4. QED
    BY <2>1, <2>2, <2>3 DEF EffectOfSuccWrite
<1>10. ASSUME NEW p \in Procs, NEW applied \in BOOLEAN, SuccWriteFails(p, applied)
       PROVE  SparedStep
  <2>1. EffectOfSuccWriteFails(p)
    BY <1>10, SuccWriteFails_Effect
  <2>2. CASE Succeeds(p) /\ EndRun(p)
    BY <2>1, <2>2, FreshIsLive DEF EffectOfSuccWriteFails, Succeeds,
         Succeeded, EndRun, LoopAgain, FreshWorker, Detached, NoPoll
  <2>3. CASE Succeeds(p) /\ Throws(p, "error")
    BY <2>1, <2>3, FreshIsLive DEF EffectOfSuccWriteFails, Succeeds,
         Succeeded, Throws
  <2>4. CASE UNCHANGED row /\ EndRun(p)
    BY <2>1, <2>4, FreshIsLive DEF EffectOfSuccWriteFails, EndRun, LoopAgain,
         FreshWorker, Detached, NoPoll
  <2>5. CASE UNCHANGED row /\ Throws(p, "error")
    BY <2>1, <2>5, FreshIsLive DEF EffectOfSuccWriteFails, Throws
  <2>6. QED
    BY <2>1, <2>2, <2>3, <2>4, <2>5 DEF EffectOfSuccWriteFails
<1>11. ASSUME NEW p \in Procs, HealWrite(p)
       PROVE  SparedStep
  BY <1>11, FreshIsLive DEF HealWrite, EndRun, LoopAgain, FreshWorker,
       Detached, NoPoll, AfterHeal, Healed, history
<1>11a. ASSUME NEW p \in Procs, NEW applied \in BOOLEAN, HealFails(p, applied)
        PROVE  SparedStep
  <2>1. EffectOfHealFails(p)
    BY <1>11a, HealFails_Effect
  <2>2. CASE Heals(p) /\ EndRun(p)
    BY <2>1, <2>2, FreshIsLive DEF EffectOfHealFails, Heals, Healed, EndRun,
         LoopAgain, FreshWorker, Detached, NoPoll
  <2>3. CASE Heals(p) /\ Throws(p, "error")
    BY <2>1, <2>3, FreshIsLive DEF EffectOfHealFails, Heals, Healed, Throws
  <2>4. CASE UNCHANGED row /\ EndRun(p)
    BY <2>1, <2>4, FreshIsLive DEF EffectOfHealFails, EndRun, LoopAgain,
         FreshWorker, Detached, NoPoll
  <2>5. CASE UNCHANGED row /\ Throws(p, "error")
    BY <2>1, <2>5, FreshIsLive DEF EffectOfHealFails, Throws
  <2>6. QED
    BY <2>1, <2>2, <2>3, <2>4, <2>5 DEF EffectOfHealFails
<1>12. ASSUME NEW p \in Procs, FailWrite(p)
       PROVE  SparedStep
  BY <1>12, FreshIsLive DEF FailWrite, EndRun, LoopAgain, FreshWorker,
       Detached, NoPoll, Outcome, FailedRow, StillRunning, history
<1>13. ASSUME NEW p \in Procs, PollWrite(p)
       PROVE  SparedStep
  BY <1>13, FreshIsLive DEF PollWrite, NoPoll, CancelledRow, history
<1>14. ASSUME NEW p \in Procs, ShutWrite(p)
       PROVE  SparedStep
  BY <1>14, FreshIsLive DEF ShutWrite, StillRunning, Requeued, Abandoned,
       Leave, history
<1>15. ASSUME UNCHANGED row PROVE SparedStep
  BY <1>15
<1> HIDE DEF TypeInv, Row, OwningWorker, Worker, OwningPoll, Poll, Reap,
     InRun, Holding, Deciding, SparedStep, LiveInv, Executes, Stalled
<1>16. ASSUME NEW p \in Procs, Reaper(p) PROVE SparedStep
  BY <1>16, <1>5, RowKept, <1>15 DEF Reaper
<1>17. ASSUME NEW p \in Procs, ClaimStep(p) PROVE SparedStep
  BY <1>17, <1>6, <1>7, RowKept, <1>15 DEF ClaimStep
<1>18. ASSUME NEW p \in Procs, RunStep(p) PROVE SparedStep
  BY <1>18, <1>8, <1>9, <1>10, <1>11, <1>11a, <1>12, RowKept, <1>15 DEF RunStep
<1>19. ASSUME NEW p \in Procs, CancelPoll(p) PROVE SparedStep
  BY <1>19, <1>13, RowKept, <1>15 DEF CancelPoll
<1>20. ASSUME NEW p \in Procs, Shutdown(p) PROVE SparedStep
  BY <1>20, <1>14, RowKept, <1>15 DEF Shutdown, Exit, Crash
<1>21. QED
  BY <1>1, <1>2, <1>3, <1>4, RowKept, <1>15, <1>15, <1>16, <1>17, <1>18,
       <1>19, <1>20 DEF Next, vars

\* The first states.
LEMMA SoloInit ==
  ASSUME ConstantsAssumption, Init
  PROVE  TriesInv /\ SparesInv /\ SuccessInv
<1> USE DEF Init, FreshWorker, NoPoll, NoReap, AbsentRow, Holding, InRun
<1>1. TriesInv
  BY DEF TriesInv, Tries, InHand, ConstantsAssumption
<1>2. SparesInv
  BY DEF SparesInv, Cap, Deciding, ConstantsAssumption
<1>3. SuccessInv
  BY DEF SuccessInv, Undisturbed
<1>4. QED
  BY <1>1, <1>2, <1>3

\* A row is claimed as often as its attempts and reclaims say, and both are
\* bounded.
LEMMA BoundedRuns ==
  ASSUME ConstantsAssumption, TypeInv, BooksInv, TriesInv, SparesInv
  PROVE  RunsBounded
<1> SUFFICES ASSUME NEW j \in Jobs
             PROVE  claims[j] <= MaxAttempts[j] + Cap(j)
  BY DEF RunsBounded, Cap
<1>1. /\ claims[j] \in Nat /\ abandons[j] \in Nat
      /\ row[j].attempts \in Int /\ row[j].reclaims \in Int
      /\ MaxAttempts[j] \in Nat /\ Cap(j) \in Nat
  BY DEF TypeInv, Row, ConstantsAssumption, Cap
<1>2. claims[j] + abandons[j] = row[j].attempts + row[j].reclaims
  BY DEF BooksInv, Balanced
<1>3. /\ row[j].attempts <= MaxAttempts[j]
      /\ row[j].reclaims - abandons[j] <= Cap(j)
  BY DEF TriesInv, Tries, SparesInv
<1>4. QED
  BY <1>1, <1>2, <1>3

\* worker.ts and reaper.ts with one process, for any jobs, policies, crashes,
\* lost calls and cancels: a job is started at most maxAttempts times, and once
\* more for each permitted reclaim if its policy is "requeue".
THEOREM StartsAreBounded == ASSUME OneProcess PROVE Spec => []RunsBounded
<1>1. Init => TypeInv /\ BooksInv /\ TriesInv /\ SparesInv
  BY TypeInit, BooksInit, SoloInit, ConstantsAssumption
<1>2. TypeInv /\ BooksInv /\ TriesInv /\ SparesInv /\ [Next]_vars
      => (TypeInv /\ BooksInv /\ TriesInv /\ SparesInv)'
  BY TypeStep, BooksStep, TriesStep, SparesStep, ConstantsAssumption
<1>3. TypeInv /\ BooksInv /\ TriesInv /\ SparesInv => RunsBounded
  BY BoundedRuns, ConstantsAssumption
<1>4. QED
  BY <1>1, <1>2, <1>3, PTL DEF Spec

\* runJob with one process: a row says "succeeded" only after its handler
\* returned, and the downstream triggers of a job nobody cancels fire at most
\* once, for a row that stays succeeded.
THEOREM HooksAreEarned == ASSUME OneProcess PROVE Spec => []HooksFollowSuccess
<1>1. TypeInv /\ SuccessInv => HooksFollowSuccess
  <2> SUFFICES ASSUME TypeInv, SuccessInv, NEW j \in Jobs
               PROVE  /\ row[j].status = "succeeded" => done[j]
                      /\ cancel[j] = "none" => /\ hooked[j] <= 1
                                               /\ hooked[j] = 1
                                                  => row[j].status = "succeeded"
    BY DEF HooksFollowSuccess
  <2>1. row[j].status = "succeeded" => done[j]
    BY DEF SuccessInv
  <2>2. PICK p \in Procs : TRUE
    BY DEF OneProcess
  <2>3. cancel[j] = "none" => Undisturbed(row[j], hooked[j], wk[p], j)
    BY DEF SuccessInv
  <2>4. QED
    BY <2>1, <2>3 DEF Undisturbed
<1>2. Init => TypeInv /\ SuccessInv
  BY TypeInit, SoloInit, ConstantsAssumption
<1>3. TypeInv /\ SuccessInv /\ [Next]_vars => (TypeInv /\ SuccessInv)'
  BY TypeStep, SuccessStep, ConstantsAssumption
<1>4. QED
  BY <1>1, <1>2, <1>3, PTL DEF Spec

\* The guards of the writes in worker.ts and reaper.ts, with one process: a row
\* that succeeded, failed or was abandoned is never queued or run again.
THEOREM SettledIsFinal == ASSUME OneProcess PROVE Spec => SettledStaysSettled
<1>1. Init => TypeInv /\ TriesInv
  BY TypeInit, SoloInit, ConstantsAssumption
<1>2. TypeInv /\ TriesInv /\ [Next]_vars => (TypeInv /\ TriesInv)'
  BY TypeStep, TriesStep, ConstantsAssumption
<1>3. TypeInv /\ TriesInv /\ [Next]_vars => [SettledStep]_vars
  BY SettledHolds
<1>4. SettledStaysSettled <=> [][SettledStep]_vars
  BY DEF SettledStaysSettled, SettledStep
<1>5. QED
  BY <1>1, <1>2, <1>3, <1>4, PTL DEF Spec

\* The heartbeat and the reaper's windows, for any number of processes: while
\* a live run's beats arrive, no pass of any process takes its row.
THEOREM LiveRunsAreSpared ==
  ASSUME ~BeatLoss PROVE Spec => LiveRunNotReclaimed
<1>1. Init => TypeInv /\ LiveInv
  BY TypeInit DEF Init, LiveInv, FreshWorker, InRun
<1>2. TypeInv /\ LiveInv /\ [Next]_vars => (TypeInv /\ LiveInv)'
  BY TypeStep, LiveStep
<1>3. TypeInv /\ LiveInv /\ [Next]_vars => [SparedStep]_vars
  BY SparedHolds
<1>4. LiveRunNotReclaimed <=> [][SparedStep]_vars
  BY DEF LiveRunNotReclaimed, SparedStep
<1>5. QED
  BY <1>1, <1>2, <1>3, <1>4, PTL DEF Spec
=============================================================================
