------------------------------ MODULE JobQueue ------------------------------
(***************************************************************************)
(* The background-job queue: the background_jobs table, the worker loop of *)
(* each server process (jobs/worker.ts), the stalled-job reaper that runs  *)
(* at boot and on a two-minute timer (jobs/reaper.ts), job creation and    *)
(* cancellation (jobs/enqueue.ts) and the SIGTERM path (server.ts).        *)
(*                                                                         *)
(* One action is one database round trip together with the JavaScript that *)
(* runs before the next await; between two actions every other process,    *)
(* timer callback and HTTP handler may run.                                *)
(***************************************************************************)
EXTENDS Integers, FiniteSets

CONSTANTS
  Jobs,         \* identities of rows of background_jobs
  Procs,        \* server processes (two of them during a rolling deploy)
  NoJob,        \* null
  MaxAttempts,  \* [Jobs -> Nat]: the row's maxAttempts (RETRY_POLICIES)
  Prio,         \* [Jobs -> Nat]: the row's priority, lower is sooner
  Requeueable,  \* jobs whose RESTART_POLICIES entry is "requeue"
  NoHandler,    \* jobs whose type some of the builds running know no handler for
  Legacy,       \* rows running with a NULL heartbeat before the first boot
  Cancellable,  \* jobs for which an operator calls the cancel route
  MaxReclaims,  \* MAX_RECLAIMS
  MaxBoots,     \* bound: process starts
  MaxFaults,    \* bound: database calls that throw
  BeatLoss,     \* TRUE: the heartbeats of a live worker may all fail
  Grace         \* TRUE: the process outlives shutdown(), as in the
                \* durability harness; FALSE: server.ts, which exits at once

ASSUME ConstantsAssumption ==
  /\ NoJob \notin Jobs
  /\ MaxAttempts \in [Jobs -> Nat \ {0}]
  /\ Prio \in [Jobs -> Nat]
  /\ Requeueable \subseteq Jobs /\ NoHandler \subseteq Jobs
  /\ Legacy \subseteq Jobs /\ Cancellable \subseteq Jobs
  /\ MaxReclaims \in Nat /\ MaxBoots \in Nat /\ MaxFaults \in Nat
  /\ BeatLoss \in BOOLEAN /\ Grace \in BOOLEAN

VARIABLES
  row,      \* the background_jobs table
  wk,       \* per process: worker loop, current run, shutdown
  poll,     \* per process: the cancel poll in flight
  reap,     \* per process: the reaper pass in flight
  cancel,   \* per job: the cancel request in flight
  created,  \* rows created so far, the source of createdAt
  boots, faults,                  \* bounded by MaxBoots, MaxFaults
  claims, abandons, hooked,       \* history: how often
  done                            \* history: did a run ever complete

vars == <<row, wk, poll, reap, cancel, created, boots, faults,
          claims, abandons, done, hooked>>

history == <<claims, abandons, done, hooked>>

-----------------------------------------------------------------------------
(* Rows. *)

Status == {"absent", "pending", "running", "succeeded", "failed",
           "cancelled", "abandoned"}
Terminal == {"succeeded", "failed", "cancelled", "abandoned"}

\* lastHeartbeatAt as the reaper tells it apart: NULL (on a row that started
\* less or more than LEGACY_BOOT_STALE_AFTER_MS ago), younger than
\* BOOT_STALE_AFTER_MS, between it and STALE_AFTER_MS, older than that.
Beat == {"null", "nullOld", "fresh", "boot", "stale"}

\* errorMessage, by its prefix.
Marker == {"none", "interrupted", "reclaimed", "thrown"}

Row == [status : Status, attempts : Int, reclaims : Int, cancelReq : BOOLEAN,
        beat : Beat, marker : Marker, at : Nat]

AbsentRow == [status |-> "absent", attempts |-> 0, reclaims |-> 0,
              cancelReq |-> FALSE, beat |-> "null", marker |-> "none",
              at |-> 0]

\* The data of each write to a row.
Created(r, n) == [r EXCEPT !.status = "pending", !.at = n]
Claimed_NoStamp(r) == [r EXCEPT !.status = "running", !.attempts = @ + 1]
Claimed(r) == [r EXCEPT !.status = "running", !.attempts = @ + 1,
                        !.beat = "fresh"]
Requeued_KeepsAttempt(r, why) ==
  [r EXCEPT !.status = "pending", !.reclaims = @ + 1, !.beat = "null",
            !.marker = why]
Requeued(r, why) == [r EXCEPT !.status = "pending", !.attempts = @ - 1,
                              !.reclaims = @ + 1, !.beat = "null",
                              !.marker = why]
Abandoned(r, why) == [r EXCEPT !.status = "abandoned", !.reclaims = @ + 1,
                               !.marker = why]
Succeeded(r) == [r EXCEPT !.status = "succeeded"]
Healed(r) == [r EXCEPT !.status = "succeeded", !.attempts = @ + 1,
                       !.reclaims = @ - 1, !.marker = "none"]
CancelledRow(r) == [r EXCEPT !.status = "cancelled"]
FailedRow(r, s) == [r EXCEPT !.status = s, !.marker = "thrown"]

\* The guard of every updateMany of the worker on its own job.
StillRunning_Dropped(j) == TRUE
StillRunning(j) == row[j].status = "running"

\* claimNextJob's orderBy.
Sooner(j, k) ==
  \/ Prio[j] < Prio[k]
  \/ Prio[j] = Prio[k] /\ row[j].at <= row[k].at

NextPending(j) ==
  /\ row[j].status = "pending"
  /\ \A k \in Jobs : row[k].status = "pending" => Sooner(j, k)

-----------------------------------------------------------------------------
(* Processes. *)

\* Where the process stands.  In the states of InRun currentJobId is set; in
\* "claimed" the claim is in the table and currentJobId still null.
PC == {"off", "boot", "idle", "selected", "claimed", "noHandler", "running",
       "succWrite", "hooks", "late", "heal", "failWrite", "stopped"}
InRun == {"noHandler", "running", "succWrite", "hooks", "late", "heal",
          "failWrite"}

\* Progress of shutdown() for its jobId (sjob): not called, reading the row,
\* decided, returned (the process exits), returned with the process kept alive
\* by the harness.
Shut == {"up", "read", "requeue", "abandon", "leaving", "drained"}

Worker == [pc : PC, job : Jobs \cup {NoJob}, att : Int, midRun : BOOLEAN,
           aborted : BOOLEAN, interrupted : BOOLEAN,
           err : {"none", "error", "cancel"}, sd : Shut,
           sjob : Jobs \cup {NoJob}]

FreshWorker(pc) ==
  [pc |-> pc, job |-> NoJob, att |-> 0, midRun |-> FALSE, aborted |-> FALSE,
   interrupted |-> FALSE, err |-> "none", sd |-> "up", sjob |-> NoJob]

\* runJob returned or threw: the loop clears currentJobId and, unless
\* shutdown() cleared `running`, goes round again.
LoopAgain_Stops(w) ==
  [FreshWorker("stopped") EXCEPT !.sd = w.sd, !.sjob = w.sjob]
LoopAgain(w) ==
  [FreshWorker(IF w.sd = "up" THEN "idle" ELSE "stopped")
     EXCEPT !.sd = w.sd, !.sjob = w.sjob]

Go(w, pc) == [w EXCEPT !.pc = pc]
Leave(w, sd) == [w EXCEPT !.sd = sd]

\* A cancel poll is "live" while the run that started it lasts; after that it
\* can no longer reach the run's cancelledMidRun, but its write still lands.
Poll == [stage : {"none", "read", "write"}, job : Jobs \cup {NoJob},
         live : BOOLEAN]
NoPoll == [stage |-> "none", job |-> NoJob, live |-> FALSE]
Detached(q) == IF q.stage = "none" THEN NoPoll ELSE [q EXCEPT !.live = FALSE]

\* A reaper pass: its mode and what it decided for each row it selected.
Reap == [mode : {"none", "boot", "timer"},
         todo : [Jobs -> {"none", "requeue", "abandon"}]]
NoReap == [mode |-> "none", todo |-> [j \in Jobs |-> "none"]]

\* The process is still executing job j, or has just claimed it.
Executes(p, j) == wk[p].job = j /\ wk[p].pc \in InRun \cup {"claimed"}

-----------------------------------------------------------------------------
Init ==
  /\ row = [j \in Jobs |->
              IF j \in Legacy
              THEN [AbsentRow EXCEPT !.status = "running", !.attempts = 1]
              ELSE AbsentRow]
  /\ wk = [p \in Procs |-> FreshWorker("off")]
  /\ poll = [p \in Procs |-> NoPoll]
  /\ reap = [p \in Procs |-> NoReap]
  /\ cancel = [j \in Jobs |-> "none"]
  /\ created = 0 /\ boots = 0 /\ faults = 0
  /\ claims = [j \in Jobs |-> IF j \in Legacy THEN 1 ELSE 0]
  /\ abandons = [j \in Jobs |-> 0]
  /\ done = [j \in Jobs |-> FALSE]
  /\ hooked = [j \in Jobs |-> 0]

-----------------------------------------------------------------------------
(* HTTP handlers and cron ticks: enqueueJob, requestCancel. *)

Enqueue(j) ==
  /\ row[j].status = "absent"
  /\ row' = [row EXCEPT ![j] = Created(@, created + 1)]
  /\ created' = created + 1
  /\ UNCHANGED <<wk, poll, reap, cancel, boots, faults, history>>

\* requestCancel reads the row; on a terminal row it does nothing.
CancelRead(j) ==
  /\ j \in Cancellable /\ cancel[j] = "none"
  /\ row[j].status \in {"pending", "running"}
  /\ cancel' = [cancel EXCEPT ![j] = row[j].status]
  /\ UNCHANGED <<row, wk, poll, reap, created, boots, faults, history>>

\* ... and then writes by id, whatever the row has become meanwhile.
CancelWrite(j) ==
  /\ cancel[j] \in {"pending", "running"}
  /\ row' = [row EXCEPT ![j] = IF cancel[j] = "pending" THEN CancelledRow(@)
                               ELSE [@ EXCEPT !.cancelReq = TRUE]]
  /\ cancel' = [cancel EXCEPT ![j] = "done"]
  /\ UNCHANGED <<wk, poll, reap, created, boots, faults, history>>

-----------------------------------------------------------------------------
(* Time and the heartbeat. *)

Older == [null |-> "nullOld", nullOld |-> "nullOld", fresh |-> "boot",
          boot |-> "stale", stale |-> "stale"]

\* A heartbeat grows old: 90 seconds pass, or ten minutes, or for a NULL one
\* thirty minutes since the start.  Without BeatLoss the row of a live run is
\* beaten every 30 seconds and a run whose process is shutting down is gone
\* within 28.  A reaper pass is short against these windows.
Age(j) ==
  /\ row[j].status \in {"pending", "running"}
  /\ Older[row[j].beat] # row[j].beat
  /\ row[j].beat = "null" => row[j].status = "running"
  /\ BeatLoss \/ \A p \in Procs : ~Executes(p, j)
  /\ \A p \in Procs : reap[p].todo[j] = "none"
  /\ row' = [row EXCEPT ![j].beat = Older[@]]
  /\ UNCHANGED <<wk, poll, reap, cancel, created, boots, faults, history>>

\* The worker's heartbeat timer.
Heartbeat(p) ==
  /\ wk[p].pc \in InRun /\ wk[p].sd = "up"
  /\ StillRunning(wk[p].job) /\ row[wk[p].job].beat # "fresh"
  /\ row' = [row EXCEPT ![wk[p].job].beat = "fresh"]
  /\ UNCHANGED <<wk, poll, reap, cancel, created, boots, faults, history>>

-----------------------------------------------------------------------------
(* reapStalledJobs. *)

\* The staleness predicate of each mode; only a boot pass has the legacy arm.
StaleIn_BootOnly(mode) ==
  IF mode = "boot" THEN {"boot", "stale", "nullOld"} ELSE {}
StaleIn(mode) ==
  IF mode = "boot" THEN {"boot", "stale", "nullOld"} ELSE {"stale"}

Stalled(j, mode) == row[j].status = "running" /\ row[j].beat \in StaleIn(mode)

ReapDecision_NoPolicy(r, j) ==
  IF ~r.cancelReq /\ r.reclaims < MaxReclaims THEN "requeue" ELSE "abandon"
ReapDecision(r, j) ==
  IF ~r.cancelReq /\ j \in Requeueable /\ r.reclaims < MaxReclaims
  THEN "requeue" ELSE "abandon"

Scan(mode) ==
  [mode |-> mode,
   todo |-> [j \in Jobs |-> IF Stalled(j, mode) THEN ReapDecision(row[j], j)
                            ELSE "none"]]

\* The two-minute cron tick, in any process that is up.  A tick that selects
\* no row changes nothing and is left out.
TimerScan(p) ==
  /\ wk[p].pc # "off" /\ reap[p].mode = "none"
  /\ \E j \in Jobs : Stalled(j, "timer")
  /\ reap' = [reap EXCEPT ![p] = Scan("timer")]
  /\ UNCHANGED <<row, wk, poll, cancel, created, boots, faults, history>>

\* What is left of a pass once row j is handled.
Handled(r, j) ==
  LET left == [r.todo EXCEPT ![j] = "none"]
  IN  IF r.mode = "timer" /\ \A k \in Jobs : left[k] = "none"
      THEN NoReap ELSE [r EXCEPT !.todo = left]

\* The guarded write for one selected row: it re-asserts the predicate.
ReapWrite(p, j) ==
  /\ reap[p].todo[j] # "none"
  /\ reap' = [reap EXCEPT ![p] = Handled(@, j)]
  /\ IF Stalled(j, reap[p].mode)
     THEN /\ row' = [row EXCEPT ![j] =
                       IF reap[p].todo[j] = "requeue"
                       THEN Requeued(@, "reclaimed")
                       ELSE Abandoned(@, "reclaimed")]
          /\ abandons' = [abandons EXCEPT ![j] =
                            IF reap[p].todo[j] = "abandon" THEN @ + 1 ELSE @]
     ELSE UNCHANGED <<row, abandons>>
  /\ UNCHANGED <<wk, poll, cancel, created, boots, faults, claims, done,
                 hooked>>

\* The write throws: the row is left as it is until a later pass.
ReapWriteFails(p, j) ==
  /\ reap[p].todo[j] # "none" /\ faults < MaxFaults
  /\ faults' = faults + 1
  /\ reap' = [reap EXCEPT ![p] = Handled(@, j)]
  /\ UNCHANGED <<row, wk, poll, cancel, created, boots, history>>

-----------------------------------------------------------------------------
(* start(): the boot pass, then the loop. *)

Boot(p) ==
  /\ wk[p].pc = "off" /\ boots < MaxBoots
  /\ boots' = boots + 1
  /\ wk' = [wk EXCEPT ![p] = FreshWorker("boot")]
  /\ reap' = [reap EXCEPT ![p] = Scan("boot")]
  /\ UNCHANGED <<row, poll, cancel, created, faults, history>>

BootDone(p) ==
  /\ wk[p].pc = "boot" /\ \A j \in Jobs : reap[p].todo[j] = "none"
  /\ wk' = [wk EXCEPT ![p] = Go(@, IF @.sd = "up" THEN "idle" ELSE "stopped")]
  /\ reap' = [reap EXCEPT ![p] = NoReap]
  /\ UNCHANGED <<row, poll, cancel, created, boots, faults, history>>

-----------------------------------------------------------------------------
(* claimNextJob: a SELECT, then an UPDATE by id. *)

ClaimSelect(p) ==
  /\ wk[p].pc = "idle" /\ wk[p].sd = "up"
  /\ \E j \in Jobs :
       /\ NextPending(j)
       /\ wk' = [wk EXCEPT ![p] = [@ EXCEPT !.pc = "selected", !.job = j]]
  /\ UNCHANGED <<row, poll, reap, cancel, created, boots, faults, history>>

Claim(j) ==
  /\ row' = [row EXCEPT ![j] = Claimed(@)]
  /\ claims' = [claims EXCEPT ![j] = @ + 1]

ClaimWrite(p) ==
  /\ wk[p].pc = "selected"
  /\ Claim(wk[p].job)
  /\ wk' = [wk EXCEPT ![p] = [@ EXCEPT !.pc = "claimed",
                                        !.att = row[wk[p].job].attempts + 1]]
  /\ UNCHANGED <<poll, reap, cancel, created, boots, faults, abandons, done,
                 hooked>>

\* The UPDATE throws, before or after it took effect: the loop's catch.
ClaimFails(p, applied) ==
  /\ wk[p].pc = "selected" /\ faults < MaxFaults
  /\ faults' = faults + 1
  /\ IF applied THEN Claim(wk[p].job) ELSE UNCHANGED <<row, claims>>
  /\ wk' = [wk EXCEPT ![p] = LoopAgain(@)]
  /\ UNCHANGED <<poll, reap, cancel, created, boots, abandons, done, hooked>>

\* The claim has returned: currentJobId is set and runJob looks for a handler.
ClaimResume(p) ==
  /\ wk[p].pc = "claimed"
  /\ \E pc \in {"running"} \cup (IF wk[p].job \in NoHandler THEN {"noHandler"} ELSE {}) :
       wk' = [wk EXCEPT ![p] = Go(@, pc)]
  /\ UNCHANGED <<row, poll, reap, cancel, created, boots, faults, history>>

-----------------------------------------------------------------------------
(* runJob. *)

\* The run ends: an in-flight poll of it is cut off from the worker's state.
EndRun(p) ==
  /\ wk' = [wk EXCEPT ![p] = LoopAgain(@)]
  /\ poll' = [poll EXCEPT ![p] = Detached(@)]

MissingHandler(p) ==
  /\ wk[p].pc = "noHandler"
  /\ row' = [row EXCEPT ![wk[p].job] = FailedRow(@, "failed")]
  /\ EndRun(p)
  /\ UNCHANGED <<reap, cancel, created, boots, faults, history>>

\* `await handler(ctx)` returned.
HandlerReturns(p) ==
  /\ wk[p].pc = "running"
  /\ done' = [done EXCEPT ![wk[p].job] = TRUE]
  /\ IF wk[p].midRun
     THEN EndRun(p)
     ELSE /\ wk' = [wk EXCEPT ![p] = Go(@, "succWrite")]
          /\ UNCHANGED poll
  /\ UNCHANGED <<row, reap, cancel, created, boots, faults, claims, abandons,
                 hooked>>

\* The catch block before its await: nothing to write after a cancel poll.
Catch(p, e) ==
  IF wk[p].midRun
  THEN EndRun(p)
  ELSE /\ wk' = [wk EXCEPT ![p] = [@ EXCEPT !.pc = "failWrite", !.err = e]]
       /\ UNCHANGED poll

\* The handler threw: an error, or JobCancelledError / AbortError, which it
\* raises when its signal is aborted or shouldCancel() read cancelRequested.
HandlerThrows(p, e) ==
  /\ wk[p].pc = "running"
  /\ e = "cancel" => wk[p].aborted \/ row[wk[p].job].cancelReq
  /\ Catch(p, e)
  /\ UNCHANGED <<row, reap, cancel, created, boots, faults, history>>

\* The SUCCEEDED write, guarded on RUNNING.
SuccWrite(p) ==
  /\ wk[p].pc = "succWrite"
  /\ IF StillRunning(wk[p].job)
     THEN /\ row' = [row EXCEPT ![wk[p].job] = Succeeded(@)]
          /\ wk' = [wk EXCEPT ![p] = Go(@, "hooks")]
     ELSE /\ wk' = [wk EXCEPT ![p] = Go(@, "late")]
          /\ UNCHANGED row
  /\ UNCHANGED <<poll, reap, cancel, created, boots, faults, history>>

\* It throws, before or after it took effect: runJob's own catch.
SuccWriteFails(p, applied) ==
  /\ wk[p].pc = "succWrite" /\ faults < MaxFaults
  /\ faults' = faults + 1
  /\ row' = IF applied /\ StillRunning(wk[p].job)
            THEN [row EXCEPT ![wk[p].job] = Succeeded(@)] ELSE row
  /\ Catch(p, "error")
  /\ UNCHANGED <<reap, cancel, created, boots, history>>

\* Scoring trigger, filing trigger, portfolio-health refresh, resolve-on-heal.
RunHooks(p) ==
  /\ wk[p].pc = "hooks"
  /\ hooked' = [hooked EXCEPT ![wk[p].job] = @ + 1]
  /\ EndRun(p)
  /\ UNCHANGED <<row, reap, cancel, created, boots, faults, claims, abandons,
                 done>>

\* count = 0: only a run that shutdown() interrupted tries to heal its row.
LateCompletion(p) ==
  /\ wk[p].pc = "late"
  /\ IF wk[p].interrupted
     THEN /\ wk' = [wk EXCEPT ![p] = Go(@, "heal")]
          /\ UNCHANGED poll
     ELSE EndRun(p)
  /\ UNCHANGED <<row, reap, cancel, created, boots, faults, history>>

\* Guarded on the mark of this process's own interruption.
AfterHeal(r) ==
  IF r.status = "pending" /\ r.marker = "interrupted" THEN Healed(r) ELSE r

HealWrite(p) ==
  /\ wk[p].pc = "heal"
  /\ row' = [row EXCEPT ![wk[p].job] = AfterHeal(@)]
  /\ EndRun(p)
  /\ UNCHANGED <<reap, cancel, created, boots, faults, history>>

\* The heal throws, before or after it took effect: runJob's own catch again.
HealFails(p, applied) ==
  /\ wk[p].pc = "heal" /\ faults < MaxFaults
  /\ faults' = faults + 1
  /\ row' = IF applied THEN [row EXCEPT ![wk[p].job] = AfterHeal(@)] ELSE row
  /\ Catch(p, "error")
  /\ UNCHANGED <<reap, cancel, created, boots, history>>

\* The status the catch block writes.
Outcome_Other(w) ==
  IF w.err = "cancel" THEN "cancelled"
  ELSE IF w.att < MaxAttempts[w.job] THEN "retrying" ELSE "failed"
Outcome(w) ==
  IF w.err = "cancel" THEN "cancelled"
  ELSE IF w.att < MaxAttempts[w.job] THEN "pending" ELSE "failed"

FailWrite(p) ==
  /\ wk[p].pc = "failWrite"
  /\ row' = [row EXCEPT ![wk[p].job] =
               IF StillRunning(wk[p].job) THEN FailedRow(@, Outcome(wk[p]))
               ELSE @]
  /\ EndRun(p)
  /\ UNCHANGED <<reap, cancel, created, boots, faults, history>>

\* A terminal write throws out of runJob: the loop's catch leaves a ghost.
TerminalWriteFails(p) ==
  /\ wk[p].pc \in {"failWrite", "noHandler"} /\ faults < MaxFaults
  /\ faults' = faults + 1
  /\ EndRun(p)
  /\ UNCHANGED <<row, reap, cancel, created, boots, history>>

-----------------------------------------------------------------------------
(* The two-second cancel poll of a run. *)

PollRead(p) ==
  /\ wk[p].pc = "running" /\ ~wk[p].midRun /\ poll[p].stage = "none"
  /\ row[wk[p].job].cancelReq /\ row[wk[p].job].status = "running"
  /\ poll' = [poll EXCEPT ![p] = [stage |-> "read", job |-> wk[p].job,
                                  live |-> TRUE]]
  /\ UNCHANGED <<row, wk, reap, cancel, created, boots, faults, history>>

\* The read returned: cancelledMidRun := true, abort(), then the write.
PollResume(p) ==
  /\ poll[p].stage = "read"
  /\ poll' = [poll EXCEPT ![p].stage = "write"]
  /\ wk' = IF poll[p].live
           THEN [wk EXCEPT ![p] = [@ EXCEPT !.midRun = TRUE, !.aborted = TRUE]]
           ELSE wk
  /\ UNCHANGED <<row, reap, cancel, created, boots, faults, history>>

PollWrite(p) ==
  /\ poll[p].stage = "write"
  /\ row' = [row EXCEPT ![poll[p].job] = CancelledRow(@)]
  /\ poll' = [poll EXCEPT ![p] = NoPoll]
  /\ UNCHANGED <<wk, reap, cancel, created, boots, faults, history>>

\* The write throws: the poll swallows it, and the run still ends silently.
PollWriteFails(p) ==
  /\ poll[p].stage = "write" /\ faults < MaxFaults
  /\ faults' = faults + 1
  /\ poll' = [poll EXCEPT ![p] = NoPoll]
  /\ UNCHANGED <<row, wk, reap, cancel, created, boots, history>>

-----------------------------------------------------------------------------
(* SIGTERM: shutdown(), markInterrupted, and the exit of server.ts. *)

Sigterm(p) ==
  /\ wk[p].pc # "off" /\ wk[p].sd = "up" /\ boots < MaxBoots
  /\ wk' = [wk EXCEPT ![p] =
              IF wk[p].pc \in InRun
              THEN [@ EXCEPT !.sd = "read", !.sjob = wk[p].job]
              ELSE Leave(@, "leaving")]
  /\ UNCHANGED <<row, poll, reap, cancel, created, boots, faults, history>>

ShutRead(p) ==
  /\ wk[p].sd = "read"
  /\ wk' = [wk EXCEPT ![p] = Leave(@, ReapDecision(row[@.sjob], @.sjob))]
  /\ UNCHANGED <<row, poll, reap, cancel, created, boots, faults, history>>

\* Guarded on RUNNING: a run that ended meanwhile keeps its outcome.
ShutWrite(p) ==
  /\ wk[p].sd \in {"requeue", "abandon"}
  /\ LET j == wk[p].sjob
         hit == StillRunning(j)
     IN  /\ row' = [row EXCEPT ![j] =
                      IF ~hit THEN @
                      ELSE IF wk[p].sd = "requeue" THEN Requeued(@, "interrupted")
                      ELSE Abandoned(@, "interrupted")]
         /\ abandons' = [abandons EXCEPT ![j] =
                           IF hit /\ wk[p].sd = "abandon" THEN @ + 1 ELSE @]
  /\ wk' = [wk EXCEPT ![p] = Leave(@, "leaving")]
  /\ UNCHANGED <<poll, reap, cancel, created, boots, faults, claims, done,
                 hooked>>

\* The read or the write throws: the row is left as it is.
ShutFails(p) ==
  /\ wk[p].sd \in {"read", "requeue", "abandon"} /\ faults < MaxFaults
  /\ faults' = faults + 1
  /\ wk' = [wk EXCEPT ![p] = Leave(@, "leaving")]
  /\ UNCHANGED <<row, poll, reap, cancel, created, boots, history>>

\* The harness only: shutdown() returns into a process that lives on, with
\* interruptedJobId set and the signal aborted.
ShutReturns(p) ==
  /\ Grace /\ wk[p].sd = "leaving"
  /\ wk' = [wk EXCEPT ![p] =
              IF wk[p].sjob = NoJob THEN Leave(@, "drained")
              ELSE [@ EXCEPT !.sd = "drained", !.interrupted = TRUE,
                             !.aborted = TRUE]]
  /\ UNCHANGED <<row, poll, reap, cancel, created, boots, faults, history>>

Gone(p) ==
  /\ wk' = [wk EXCEPT ![p] = FreshWorker("off")]
  /\ poll' = [poll EXCEPT ![p] = NoPoll]
  /\ reap' = [reap EXCEPT ![p] = NoReap]
  /\ UNCHANGED <<row, cancel, created, boots, faults, history>>

\* server.ts calls process.exit as soon as shutdown() has returned.
Exit(p) == wk[p].sd = (IF Grace THEN "drained" ELSE "leaving") /\ Gone(p)

\* SIGKILL, OOM, the 28-second forced exit.
Crash(p) == wk[p].pc # "off" /\ boots < MaxBoots /\ Gone(p)

-----------------------------------------------------------------------------
Shutdown(p) == Sigterm(p) \/ ShutRead(p) \/ ShutWrite(p) \/ ShutFails(p)
               \/ ShutReturns(p) \/ Exit(p) \/ Crash(p)

CancelPoll(p) ==
  PollRead(p) \/ PollResume(p) \/ PollWrite(p) \/ PollWriteFails(p)

RunStep(p) ==
  \/ MissingHandler(p) \/ HandlerReturns(p)
  \/ \E e \in {"error", "cancel"} : HandlerThrows(p, e)
  \/ SuccWrite(p) \/ \E applied \in BOOLEAN : SuccWriteFails(p, applied)
  \/ RunHooks(p) \/ LateCompletion(p)
  \/ HealWrite(p) \/ \E applied \in BOOLEAN : HealFails(p, applied)
  \/ FailWrite(p) \/ TerminalWriteFails(p)

ClaimStep(p) ==
  \/ ClaimSelect(p) \/ ClaimWrite(p) \/ ClaimResume(p)
  \/ \E applied \in BOOLEAN : ClaimFails(p, applied)

Reaper(p) ==
  \/ TimerScan(p) \/ Boot(p) \/ BootDone(p)
  \/ \E j \in Jobs : ReapWrite(p, j) \/ ReapWriteFails(p, j)

Next ==
  \/ \E j \in Jobs : Enqueue(j) \/ CancelRead(j) \/ CancelWrite(j) \/ Age(j)
  \/ \E p \in Procs : \/ Heartbeat(p) \/ Reaper(p) \/ ClaimStep(p)
                      \/ RunStep(p) \/ CancelPoll(p) \/ Shutdown(p)

Spec == Init /\ [][Next]_vars

\* What the platform and the event loop guarantee: a process that went away is
\* started again (while boots last), its loop and its in-flight calls go on,
\* the cron ticks, and time passes.  Nobody need enqueue, cancel, send a
\* signal, crash or lose a call, and a handler need never return.
Fairness ==
  /\ \A p \in Procs :
       /\ WF_vars(Boot(p)) /\ WF_vars(BootDone(p)) /\ WF_vars(TimerScan(p))
       /\ WF_vars(\E j \in Jobs : ReapWrite(p, j))
       /\ WF_vars(ClaimSelect(p) \/ ClaimWrite(p) \/ ClaimResume(p))
       /\ WF_vars(MissingHandler(p) \/ SuccWrite(p) \/ RunHooks(p)
                  \/ LateCompletion(p) \/ HealWrite(p) \/ FailWrite(p))
       /\ WF_vars(PollResume(p) \/ PollWrite(p))
       /\ WF_vars(ShutRead(p) \/ ShutWrite(p) \/ ShutReturns(p) \/ Exit(p))
  /\ \A j \in Jobs : WF_vars(CancelWrite(j)) /\ WF_vars(Age(j))

FairSpec == Spec /\ Fairness

\* No handler hangs: an assumption of its own, there is no per-job timeout.
HandlersEnd ==
  \A p \in Procs : WF_vars(HandlerReturns(p) \/ HandlerThrows(p, "error"))

-----------------------------------------------------------------------------
(* Properties.  An operator named X_Y is operator X with the mistake Y; no     *)
(* definition of the model uses it.                                         *)

\* Every variable has its type.  The counters are integers here: that they
\* never underflow is part of Bookkeeping.
TypeOK ==
  /\ row \in [Jobs -> Row] /\ wk \in [Procs -> Worker]
  /\ poll \in [Procs -> Poll] /\ reap \in [Procs -> Reap]
  /\ cancel \in [Jobs -> {"none", "pending", "running", "done"}]
  /\ created \in Nat /\ boots \in Nat /\ faults \in Nat
  /\ claims \in [Jobs -> Nat] /\ abandons \in [Jobs -> Nat]
  /\ done \in [Jobs -> BOOLEAN] /\ hooked \in [Jobs -> Nat]

\* The two counters of a row always add up to what happened to it: a claim
\* costs one attempt, an interruption gives it back and is one reclaim, and
\* only abandoning adds a reclaim without giving the attempt back.  No counter
\* underflows: "a running row was claimed, so attempts >= 1" (reaper.ts), and
\* the heal of worker.ts only walks back a reclaim that happened.
Bookkeeping ==
  \A j \in Jobs :
    /\ claims[j] + abandons[j] = row[j].attempts + row[j].reclaims
    /\ row[j].attempts >= 0 /\ row[j].reclaims >= 0
    /\ row[j].status = "running" => row[j].attempts >= 1

\* With one worker, a job is started at most maxAttempts times, and once more
\* for each permitted reclaim only if RESTART_POLICIES says "requeue"; so a
\* retention_prune (maxAttempts 1, policy "fail") never runs twice.
RunsBounded ==
  \A j \in Jobs :
    claims[j] <= MaxAttempts[j] + (IF j \in Requeueable THEN MaxReclaims ELSE 0)

\* With one worker, a row that succeeded, failed or was abandoned is never put
\* back in the queue or run again by a reaper pass, a shutdown, a heal, a retry
\* or a late claim decided on an older reading of it.
SettledStaysSettled ==
  [][\A j \in Jobs : row[j].status \in {"succeeded", "failed", "abandoned"}
                     => row'[j].status \notin {"pending", "running"}]_vars

\* The reaper takes no row from a live run, neither in the process's own timer
\* pass nor in the boot pass of the next instance during a rolling deploy.
LiveRunNotReclaimed ==
  [][\A j \in Jobs :
       (row'[j].reclaims > row[j].reclaims /\ row'[j].marker = "reclaimed")
       => \A p \in Procs : ~Executes(p, j)]_vars

\* Success is what really happened: a succeeded row has a completed run behind
\* it, and, while nobody asks to cancel the job, its downstream triggers fire
\* at most once and only for a row that stays succeeded (one worker).
HooksFollowSuccess ==
  \A j \in Jobs :
    /\ row[j].status = "succeeded" => done[j]
    /\ cancel[j] = "none" => /\ hooked[j] <= 1
                             /\ hooked[j] = 1 => row[j].status = "succeeded"

\* A row left running by a process that died, exited or lost its terminal
\* write does not stay so: no restart of the process is needed (reaper.ts).
\* Rows that predate the heartbeat column are the boot pass's business alone.
GhostsReclaimed ==
  \A j \in Jobs :
    LET Ghost == /\ row[j].status = "running"
                 /\ row[j].beat \notin {"null", "nullOld"}
                 /\ \A p \in Procs : ~Executes(p, j)
    IN  Ghost ~> ~Ghost

\* If handlers end, every job that was enqueued settles: no retry, reclaim or
\* cancel cycle goes on for ever and nothing is left in the queue.
EveryJobSettles ==
  HandlersEnd => \A j \in Jobs :
                   row[j].status = "pending" ~> row[j].status \in Terminal
=============================================================================
