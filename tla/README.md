# Verification of the Vytal backend

Vytal's backend is a TypeScript/Express service over PostgreSQL (Prisma). It
ingests Indian market data, scores peer groups of stocks, keeps users'
portfolios (typed by hand or synced from their brokers), and answers questions
with language models. Requests run interleaved in one Node process; background
work runs in an in-process job worker, and two processes overlap during a
deploy. All shared state is in the database, mostly in single statements and
READ COMMITTED transactions, so what is hard to get right is what happens
between two of them. That is what these modules are about.

Paths below are relative to `src/src/` unless they start with `prisma/`.

## 1. Inventory

| part | state it keeps | operations | meets | what is hard | what makes it correct |
|---|---|---|---|---|---|
| job queue: `jobs/worker.ts`, `reaper.ts`, `enqueue.ts`, `server.ts` | `background_jobs` rows; per process the loop, the run, the cancel poll, the reaper pass | enqueue, claim, run, retry, cancel, beat, reap, boot, SIGTERM, heal | every handler; the scheduler; admin routes | writes by id on stale reads, a crash or a lost call between two writes, two processes at once, timers that outlive a run | every claim is accounted for; attempts and runs are bounded; settled rows stay settled; no live run is reclaimed; no ghost row stays; every job settles |
| broker connections and accounts: `brokers/lifecycle.ts`, `brokers/security/state-store.ts`, `controllers/me/accounts-controller.ts`, the rescue in `portfolio/transfer.ts` | `broker_connections`, `broker_holdings`, `broker_auth_states`, `portfolio_accounts` | initiate, complete, integrate, sync, deactivate, activate, clear, link, unlink, create, delete, retag, rescue | the poll sweep (a job), the ledger, the broker's API | a sync holds a row across a broker call; two tabs; OAuth callbacks twice or late; multi-statement clears | one account per connection; no unusable account, no unreachable rows, no broker row lost, no account list emptied |
| manual ledger: `portfolio/fifo-engine.ts`, `replay.ts`, `transactions-service.ts`, `transfer.ts` | `transactions`, `holdings`, `holding_lots` | add, correct, delete, transfer; replay | accounts (which are writable), analytics | back-dated facts change every later lot; two requests replay without each other; merging two books | a holding is the replay of its ledger; no ledger oversells; no rupee and no share is invented |
| AI quota: `ai/core/quota.ts` | `ai_usage_counters` | check-and-consume, token record | chat, insight jobs, router | many callers at the last unit; two counters that must move together; midnight; fail-closed errors | limits hold; both or neither; a denial is due; every call is answered |
| scoring triggers and scheduler: `jobs/scoring-triggers.ts`, `lib/scheduler.ts`, `filing/triggers.ts` | none of their own (rows of the queue) | read-then-create deduplication, hooks, cron ticks | job queue, ingestions, scores | an edit during the rescore that should have picked it up; a hook lost with its process | the published score comes back to what the data say |
| alerts: `alerts/` | `alerts`, `alert_events` | create, edit, delete, evaluate, deliver | prices, scores, e-mail | a pass writes back what it read; a crash between send and mark; a deleted alert aborts the pass | one firing per crossing, none left behind, no mail twice |
| reminders: `reminders/` | `event_reminders` and firings | create, pause, resolve, evaluate, deliver | corporate events, e-mail | two passes on one day; a missed day; a moved date | once per occurrence, in every open window |
| chat: `chat/sessions.ts`, `engine.ts`, `reader/memory.ts` | sessions, messages, pending proposal, stated memories | append, deny, retry, edit, title, distill | quota, tools that write | two tabs on one transcript, an edit planned on an older one, time stamps from two clocks | order of the transcript; nothing survives a cut; a "yes" refers to the proposal shown |
| raw-field edits and rescoring: `fill/`, the guarded write of `ingestions/quaterly-results/ingesters/`, `jobs/handlers/pg-rescore.handler.ts`, `scoring/rescore/`, `scoring/composite/score-pass.ts` | fundamentals rows, edit log, score snapshots | correct, import, ingest, re-derive, rescore, supersede | job queue, retention | a filing parsed before a correction and written after it; two jobs at the head of one chain | a hand-entered value stands; one linear chain per stock and period |
| retention: `retention/` | policies, audit rows | prune by depth, time, supersede | score snapshots, chat | deletes across foreign keys while others write | keeps the floors; deletes nothing referenced |
| scoring algorithms: `scoring/` | none | pure functions over decimals | ingested data | numeric edges | documented mechanisms |
| ingestions: `ingestions/`; filing pass: `filing/`; quarter brief: `insight/` | market and filing tables | fetch, parse, upsert | exchanges | formats, partial fetches | idempotent upserts |
| portfolio analytics: `portfolio/nav`, `phs`, `history`, `xirr.ts` | price series, score history | read-only computation, refresh | ledger, prices | numeric edges | identities of return and value |
| answer composition: `router/`, `compose/`, `composition/`, `resolve/`, `section/`, `catalogue/`, `relational/` | caches | route, plan, execute, phrase | language models | wording | contracts checked by `harness/` |
| watchlist, tracking, discovery, results season | single tables | single-statement writes, views | | | unique keys |
| HTTP surface, schema, scripts | none | routing, migration, audits | | | |

## 2. Plan

Order of work; each module comes with its TLC instances, and the ones marked
(P) are written to be proved about (no RECURSIVE operator, parameters as
constants with named assumptions, invariants as conjunctions of named parts).

1. `JobQueue` (P): the worker everything else runs in. **Done.**
2. `BrokerLifecycle` (P): the longest-lived state machine a user drives. **Done.**
3. `PortfolioLedger` (P): FIFO engine as operators, requests around it. **Done.**
4. `AiBudget` and `AiQuota` (P): an abstract budget and the gate that implements
   it. **Done.**
5. `MailDrain`, `Alerts`, `Reminders` (P): one drain, two evaluation passes on
   top of it. **Done.**
6. `FactRow` (P) and `Rescore` (P) over it: the row, the two paths that write
   it, the triggers, the jobs and the chain of snapshots. **Done** for the
   current period.
7. `ChatTranscript`: append, deny, retry, edit from two tabs; the proposal slot.
   Not started (section 8).
8. Past periods of a cascade and retention over the chain. Not started.

Every module above has proofs: each safety invariant a run checks, and each action
property except `EveryWindowFires`, is stated by a theorem (section 6). What else is
left to TLC is liveness.
With steps 7 and 8 come the theorems worth proving about them: that an edit
deletes no reply it has not seen, unless tabs overlap, and that a cascade over
past periods leaves every period's chain linear.

## 3. Modules and the code

Common conventions. One action is one database statement, transaction or
external call together with the JavaScript up to the next `await`; between two
actions anybody else may run. A definition named `X_Y` is `X` with a plausible
mistake `Y`; nothing in the models uses it, it serves to confirm that the
properties notice the mistake. Each `MC…` module only gives constants values.

### JobQueue

Variables: `row` (the table), `wk` (loop and run of each process), `poll` (the
cancel poll in flight), `reap` (the reaper pass in flight), `cancel` (a cancel
request between its read and its write), `created` (source of `createdAt`);
`boots` and `faults` are bounded; `claims`, `abandons`, `hooked` (counts) and
`done` (did a run ever complete) are history and read by no action.

| code | actions |
|---|---|
| `enqueueJob`, `requestCancel` (`enqueue.ts`) | `Enqueue`; `CancelRead`, `CancelWrite` |
| `claimNextJob`: a SELECT, then an UPDATE by id (`worker.ts`) | `ClaimSelect`, `ClaimWrite`, `ClaimFails`, `ClaimResume` |
| `runJob` | `MissingHandler`, `HandlerReturns`, `HandlerThrows`, `SuccWrite(Fails)`, `RunHooks`, `LateCompletion`, `HealWrite`, `HealFails`, `FailWrite`, `TerminalWriteFails` |
| the two-second cancel poll | `PollRead`, `PollResume`, `PollWrite`, `PollWriteFails` |
| `startHeartbeat` and the clock | `Heartbeat`, `Age` |
| `reapStalledJobs`: at boot, every two minutes | `Boot`, `BootDone`, `TimerScan`, `ReapWrite`, `ReapWriteFails` |
| `shutdown`, `markInterrupted`, `server.ts` | `Sigterm`, `ShutRead`, `ShutWrite`, `ShutFails`, `ShutReturns`, `Exit`, `Crash` |

Abstractions. A time stamp is its age class: fresh, past the boot threshold
(90 s), past the timer threshold (10 min), or NULL (rows older than the
heartbeat column, which only a boot pass reclaims). `BeatLoss = FALSE` states
the arithmetic of the windows: a live run beats every 30 s and a shutdown takes
at most 28 s, so its row does not age; `TRUE` drops that. `Grace = FALSE` is
`server.ts`, which exits when `shutdown()` resolves; `TRUE` is the durability
harness (`scripts/verify-job-durability.ts`), where the process lives on and a
late completion can heal its row. Which of the builds running know a handler is
open for the job types in `NoHandler`. Progress text, pruning and listing are left
out. One cancel request per job, one poll in flight per process.

### BrokerLifecycle

Variables: `conn` (connections with their holdings rows), `acct` (accounts with
the positions their ledger has), `auth` (OAuth states), `req` (requests in
flight, each with the locals it read), history `spent`, `rescues`. A request of
the user takes an `Http` slot, the sweep job a `Sweeps` slot; how many slots
there are is how much can overlap.

| code | actions |
|---|---|
| `beginIntegration`, `completeIntegration`, `integrate`, `persistSession` | `Initiate`, `StateExpires`, `Complete`, `ExpectRead`, `Integrate`, `Authenticate`, `Upsert`, `Relink` |
| `syncHoldings`, by hand and from `broker-poll-sync.handler.ts` | `SyncNow`, `SweepSelect`, `SweepNext`, `SyncBound`, `Fetch`, `MarkDead`, `SnapDelete`, `SnapCommit` |
| `severConnection`, `unlinkAccount`, `activate`, `clearData` | `Deactivate`, `Unlink`, `Sever`, `Activate`, `Clear`, `ClearMark`, `ClearCommit` |
| `accounts-controller.ts` | `Create`, `LinkRead`, `LinkClaim`, `Link`, `Delete`, `DeleteCount`, `DeleteWrite`, `Retag`, `RetagWrite` |
| `addTransaction`, transfers, `rescueLinkedAccount` | `AddEntry`, `EntryWrite`, `Transfer`, `TransferWrite`, `Rescue`, `RescueRead`, `RescueCommit` |
| the broker and the platform (external) | `TokenDies`, `Dies` |

Abstractions. Names and their uniqueness, the disclaimer gate and the two-hour
cadence are left out (which due connections a sweep finds is open); the broker
answers with any set of positions; a ledger is the set of positions it has
rows on (the rows are `PortfolioLedger`'s). Single-transaction requests are one
step, except the clear and the snapshot, whose statements another transaction
can fall between at READ COMMITTED.

### PortfolioLedger

One instrument in several manual accounts. Variables: `txn` (the rows; ids in
`createdAt` order), `holding` (projection and open lots), `req`. The FIFO
engine is the operator `ReplayOf`, a fold over the rows in ledger order
(`Buy`, `Sell`, `Consume`, `Scale`); `Materialized` is what
`replayAndMaterialize` upserts. A request is two steps, as at READ COMMITTED:
`BeginAdd`, `BeginPatch`, `BeginDelete`, `BeginTransfer` write inside an open
transaction and replay what it sees, `Commit` publishes rows and projection
together; `Rollback` is any failure in between, `ReadForEdit` the read that
PATCH and DELETE make before their transaction.

Abstractions. The engine's decimals keep 20 significant digits and round what
does not fit. Here a quantity, a price or a unit cost keeps a fixed number of
decimals, `Unit` being one in last digits: the charge per share, the factor (a +
b) / b and what a split makes of a lot's quantity and cost are rounded to that
(`RoundDiv`), half up as decimal.js does, and ratios are any "a:b". Money,
quantity times unit cost, is kept exact; that the code rounds it too, at its
20th significant digit, is left out. Every other rounding enters `slack`, a
history field of the replay: twice what it can add to the worth of the lots or
take from it. The second rounding, to the columns of `holdings` and
`holding_lots`, average cost (invested / quantity), notes and the refresh of the
health score after a commit are left out; no request reads those columns back.
Whether an account may be written is `BrokerLifecycle`'s state machine;
`transferAllManualPositions` is the same move for each instrument.

### AiBudget, AiQuota

`AiBudget` says what is promised: a call is charged to the user and to the key
in one step, or to the key alone for our own jobs, never past a limit.
`AiQuota` is `checkAndConsumeAiCall` for one metered model: `Start` fixes scopes
and the Pacific date, `Ensure` is the `createMany`, `Take`/`Deny` one guarded
update each with its row lock, `Commit`, `Report` (the read after the commit),
`Fail` and `CommitUnheard` (a call that throws, without or with effect),
`Midnight`. Refinement: `spent` and `pool` are the two halves of `calls`.
The kill switch and the mock provider skip the gate; the token counts that
`recordAiTokens` adds are read by no gate.

### MailDrain

`alerts/deliver.ts` and `reminders/deliver.ts` are one algorithm over two
tables. Variables: `log` (the event table), `run`, `todo`, `sending` (per
worker: the pass, the events it has still to send, the one sent and not yet
flipped), `keys` (what the provider remembers), `day`; `mailed` and `mails` are
history.

| code | actions |
|---|---|
| `runAlertsDeliverPass`, `runRemindersDeliverPass` | `DrainStart`, `Send`, `SendUnheard`, `SendRefused`, `Flip`, `FlipFails`, `DrainEnd`, `DrainDies` |
| Resend's idempotency keys (external) | `Accept`, `ForgetKey` |
| the calendar | `Midnight` |

A key is remembered on the day it was first used and may be forgotten later,
which is all the code's comments rely on ("bounded by their key-retention
window", `jobs/types.ts`). The rendering of mails is left out: it can only fail,
which is `SendRefused`.

### Alerts

Extends `MailDrain` with `alert` (the table), `reading` (what the data say of
each target), `pass` (what the evaluation pass of a worker read and decided),
bounds `edits` and `changes`, history `told`.

| code | actions |
|---|---|
| `createAlert`, `deleteAlert`, `updateAlert` | `Create`, `Delete`, `Pause`, `Activate`, `Retarget`, `SetRepeat` |
| `runAlertsEvalPass`, `transition` | `EvalStart`, `Fire`, `Rearm`, `EvalGone`, `EvalEnd`, `EvalDies` |
| new closes, scores, filings | `NewReading` |

A condition (a price against a threshold, a band, a finding) is true, false or
not evaluable. All of a pass's decisions are taken from its reads, which come
before its first write; each write is by id. The cap of alerts per user is left
out.

### Reminders

Extends `MailDrain` with `rem`, `calendar` (dates of the pair's
`corporate_events` rows), `announced` (the date the company last gave) and
`pass`.

| code | actions |
|---|---|
| `createReminder`, `updateReminder`, `deleteReminder` | `Create`, `Reaffirm`, `Pause`, `Resume`, `Delete` |
| `upsertEvents` | `Announce` |
| `runRemindersEvalPass`, `resolveNextEvents`, `reminderFireDecision` | `EvalStart`, `Fire`, `Deduped`, `FireGone`, `EvalEnd`, `EvalDies` |

The three reads of a pass are one step: what another pass inserts between them
is caught by the unique key, and what a user changes between them amounts to the
same change before or after the pass.

### FactRow

One stored row of a fundamentals table: `row` (raw cells), `derived` (the
ratios, represented by the reading they were computed from), `edited` (the
`raw_field_edits` rows), `manual` (its `source` is `manual_workbook`: the fence
protects the whole row, ratios included) and `ingest` (per worker, a guarded
write: the filing, the row it read, then the protected cells it read). `stands` is
history: the value each cell was last given by hand. `Workbook = FALSE` restricts
an instance to rows the scanners wrote.

| code | operators |
|---|---|
| `applyRawFieldEdit`, `applyRawFieldEditsForRow`, `reDeriveFundamentalAnnual` | `EditLands`, `BulkLands`, `Corrected` |
| `guardedWrite`, `assertProtectedCellsUnmoved`, `diffScoreRelevant` | `IngestRead`, `ProtRead`, `Protected`, `IngestWrite`, `Writable`, `RatioWritable`, `Written`, `Untouched`, `Layer3Throws`, `ScoreRelevant`, `IngestDies` |

`FactRow` has no behaviour of its own; `Rescore` composes its steps with what
they set off.

### Rescore

Extends `FactRow` with `ask` (a request or hook between listing the active jobs
and creating one), `queued` and `job` (an abstraction of `JobQueue`: pending,
running, gone or back), `chain` (the snapshots of one stock and period).

| code | actions |
|---|---|
| corrections, import, re-score button | `Correct`, `BulkImport`, `RescoreButton` |
| `RESULTS_SCAN` and its hook, `EOD_PRICES_DAILY` and its hook | `StartIngest`, `FenceIngest`, `FinishIngest`, `AbortIngest`, `PricesDone` |
| `enqueuePgRescore` and its sisters | `Coalesce`, `ListedNone`, `Enqueue`, `AskLost` |
| `handlePgRescore`, the live step of both cascades | `Claim`, `Compute`, `PreCheck`, `LiveRead`, `JobLost` |
| `persistMember` under the unique keys of `score_snapshots` | `Insert`, `Conflict` |

A score is represented by what it was computed from; `Comp` keeps of it what the
composite fingerprint keeps. Of the peer group one stock is followed; whether
the pre-check finds a change in another member first is open (`PreCheck`). With
`Essential` a stock without the ratio has no composite and gets no snapshot
(`Scored`). Past periods, findings and peer statistics are left out. The
sequence after the scan of the chain's head is one transaction whose only
visible effect is the insert.

## 4. Runs

| run | shows | distinct states (about) |
|---|---|---|
| `jobs_server` | one process that may outlive its shutdown, a retryable job left running by an older build (it predates the heartbeat) and a never-rerun job without a handler in some builds; two boots, a crash or SIGTERM at any step, a lost database call, lost heartbeats, a cancel, two permitted reclaims: counters add up, runs are bounded, settled stays settled, hooks fire once and only after success | 2 604 000 |
| `jobs_rolling` | two processes overlap over one job that may be retried once, handed back once and cancelled at any moment; two boots, one lost call; with fairness: no live run is reclaimed, a row left running by a dead process or a lost write is reclaimed even if handlers hang, and if handlers end the job settles | 653 000 |
| `broker_alone` | one request at a time, with token deaths and crashes between its steps; two connections, accounts and OAuth states, a mapped and an unmapped position: reconnects are exact, severed rows are frozen, dead means dead, a rescue destroys nothing it did not convert, an account changes connection only when its own is deleted, no account is unusable, no linked account has a ledger, no synced row is unreachable or forgotten by accident, the last account is kept | 363 000 |
| `broker_tabs` | two requests and the sweep overlap at every step: one account per connection, a state spent once, a connection rescued once | 680 000 |
| `ledger_book` | four rows, two accounts, one request at a time, one decimal place: a buy whose charge does not divide, a 1:1 bonus, a 1:3 split, two sells: holdings are replays, no oversell, no money lost but for roundings, FIFO order, moves conserve shares | 817 000 |
| `quota_gate` | two users, our own jobs, two calls at a time, midnight, one failing database call: the limits hold, the gate implements `AiBudget`, denials are due, allowed calls are paid, every call is answered | 283 000 |
| `alerts_nightly` | two alerts on one target, one worker, an edit at any step of a pass, a change of the readings, deaths and aborted passes: one event per crossing; with fairness the pipeline catches up again and again | 196 000 |
| `reminders_nightly` | one reminder, two workers evaluating and draining side by side over three days, a moved date: one row per occurrence, no mail twice on a day, every open window fires | 378 000 |
| `reminders_reschedule` | counterexample, section 7 | |
| `rescore_live` | two workers, an operator, a correction, a bulk import, one loss, no filings: the chain is linear; with fairness the published composite catches up with the row | 569 000 |
| `rescore_fence` | two workers, a correction or import and two filings of either mode, each with its two reads and its update anywhere between the others', on a scanned or a workbook row, one ingestion cut short: hand-entered values stand | 1 987 000 |
| `rescore_restated` | counterexample, section 7 | |

Why the bounds are enough. The hazards need two actors and few rows. Two jobs
let one wait behind the other, be retried, and be of the other policy; two boots
let one process die and another, beside it or after it, clean up; one lost call
hits every write once, the cancel poll's and the heal included. One permitted
reclaim distinguishes "reclaimed once" from "out of reclaims"; two, in
`jobs_server`, let a row that was reclaimed by the reaper be interrupted and
healed after that (the code's limit is 3, a parameter). A single job is what two
processes need to meet on one row; it has one retry, one reclaim and one cancel,
so that it can go through all three in any order before it settles. Two
connections and accounts are the least that can be confused. Ids are never
reused, so `CHECK_DEADLOCK FALSE` is set for brokers and ledger, where a finite
run out of ids may stop, for the queue, where settled rows with no boots left
are the end, and for the notification and rescoring runs, whose histories and
bounds run out; the quota run checks deadlock. In the ledger four rows give a
buy, a partial sell, a corporate action and a late correction, or two books of
two rows to merge; with one decimal place the charge of a buy, the factor of the
split and a lot's cost after it all leave a remainder. Two alerts are needed so
that a deleted one can stand before one that is still due; three event rows let
one of them fire, re-arm and fire again. A reminder needs two dates of the event
and a lead time of two days, so that a missed day leaves the window open; two
workers are what a deploy gives. A row of one weighty and one other cell lets
the composite agree where the ratios differ; one cell is what two filings and a
correction need to meet on; two writers at the head of a chain suffice to fork
it. The quota has two callers for the last unit of a limit of one and of two,
and a day to pass between any two steps. Symmetry is used over interchangeable
ids and processes only where no liveness is checked. A crash or SIGTERM needs a
boot left, so the last boot of a run is never taken away and liveness is about a
system that is eventually left alone.

Where a property is stated for one request or one worker at a time
(`broker_alone`, `ledger_book`, `alerts_nightly`) that is because the code does
not keep it when two overlap: section 7 says which and how.

## 5. Fairness

`JobQueue`: weak fairness on the steps of processes that are up (boot, loop,
in-flight calls, the cron tick) and on time passing; nobody needs to enqueue,
cancel, send signals, crash or lose a call. Boots are fair while they last:
the platform restarts a process that went away. A handler need not return,
since the code has no per-job timeout; `EveryJobSettles` carries `HandlersEnd`
as its premise and `GhostsReclaimed` does not. `AiQuota`: weak fairness on a
call's own steps, strong fairness on `Take`/`Deny` because PostgreSQL queues the
waiters of a row lock, so a waiter is not overtaken for ever. `Alerts`: the
evaluation and the drain are daily jobs that are requeued when their process
dies, so each is started again and again and some pass gets through: strong
fairness on starting a pass, on its writes, on a successful send and flip (a
provider or database that fails for ever is not assumed away by anything in the
code, but nothing could be delivered then); no fairness on the user, on new
readings or on deaths. `Rescore`: weak fairness on the worker's own steps and on
the daily price job, whose hook asks for every peer group whatever else was
lost; strong fairness on claiming, because a pending job competes with other
work for the worker but the queue orders by priority and age. Nobody needs to
correct, import or lose anything. The other modules check safety only.

## 6. Proofs

`JobQueueProofs`, for every set of jobs and processes and every policy and bound:

- `TypeCorrect`: `Spec => []TypeOK`. The types alone are not inductive: a write
  `row[wk[p].job]` must hit the table. `TypeInv` adds that a process holding or
  handing back a job, and a poll in flight, name a row (`OwningWorker`,
  `OwningPoll`). One lemma per action.
- `BookkeepingHolds`: `Spec => []Bookkeeping`. `Balanced` adds, per row, that a
  pending row marked "interrupted" has at least one reclaim to walk back: the
  heal of a late completion is the only decrement of that counter.
- `StartsAreBounded` (`RunsBounded`), `HooksAreEarned` (`HooksFollowSuccess`) and
  `SettledIsFinal` (`SettledStaysSettled`), under `OneProcess`: with two, both may
  claim one row (section 7). Every write by id was decided earlier, so the
  invariants say that the decision still fits when it is written: the selected
  row has an attempt left (`TriesInv`); what the reaper or the shutdown decided to
  hand back is stalled or running only while it still may be (`SparesInv`); the
  row of a run past its handler was completed, and that of a run at its hooks is
  succeeded with no hook fired yet (`SuccessInv`). The run bound then follows from
  `Balanced`.
- `LiveRunsAreSpared` (`LiveRunNotReclaimed`), for any number of processes under
  `~BeatLoss`: a row is claimed with a fresh beat and does not age while anybody
  executes it (`LiveInv`), and fresh is stale in no mode (`FreshIsLive`).

`PortfolioLedgerProofs`, for any accounts, dates, entries and number of rows, and
any number of requests at a time as long as those that overlap concern different
accounts (`Apart`; a move concerns both of its accounts). It is needed: two
requests on one account oversell (`transactions-service.ts:241`, section 7).

- `HoldingsAreReplays`, `LedgersReplay`: every holding is the replay of its ledger
  and no committed ledger oversells. The invariant `LedgerInv` has the tables'
  types, the claim itself for the committed tables (`Sound`), what an edit in
  progress still knows (`Edits`), that an open transaction would leave faithful
  holdings if it committed now (`OpenOnes`), and that a row has one writer
  (`Locks`). The engine is used only as a function of the rows it is given, plus
  one fact: an empty ledger replays.
- `LedgersBalance` (`CashIdentity`). From here on the proofs are about the
  engine. `SetInduction` is induction over the subsets of a finite set, stated
  for a set of good subsets instead of a predicate; with it, that a recursion
  over subsets exists (`RecursionExists`), so that the replay and the folds over
  lots can be unfolded (`ReplaySteps`, `FoldExists`), and that a sum over a set
  does not depend on the order of its terms (`AnyOrder`). Above that: what one
  lot gives to a sell (`ConsumeOnce`), a whole sell (`SellConserves`), what a
  rounding can cost (`RoundSlack`, `LotDrift`), one row (`ApplyBooks`), all rows
  (`ReplayConserves`). The ratios are arbitrary and divisions round; the theorem
  bounds what money can drift by the roundings that took place, zero where every
  division came out even.
- `MovesKeepShares` (`MoveConserves`). Shares are compared in shares of today:
  what is open after a replay is what was bought less what was sold, each row
  multiplied by the splits and bonuses after it (`PrefixCounts`,
  `ReplayCounts`). A ledger that merges the trades of two others under
  counterparts of the same events then has open what the two have (`MergeAdds`),
  and a move of books with `SameMarket` merges in that sense (`MoveMerges`). All
  this is about books whose corporate actions multiply by whole numbers
  (`WholeActions`, a premise of the property): with 3:2 or 1:3 share counts
  round, and a merged queue rounds other pieces. `MoveInv` adds to `LedgerInv`
  what an open move has written, so that the step that makes it visible can be
  told from the others.
- `LotsStayYoungest` (`LotsAreYoungest`). Lots stand in the order of their rows
  (`ReplayInOrder`), so the lots of all rows up to some row come first, and a
  sell takes from those first (`SellTakesOldest`): what is open of them is what
  was bought by then less everything that was ever sold, or nothing
  (`OldestLeft`). One buy is the difference of two such sets (`BuyRemains`). The
  order of the lots, and that no buy is closed while an older one is open, hold
  for any ratios; the exact remainder under `WholeActions`.

`AiQuotaProofs`, for any users, keys, callers, limits and days:

- `QuotaTypes`, `NeverOverspent` (`WithinLimits`), and `QuotaImplementsBudget`
  (`Spec => BudgetSpec`). The invariant: types; a call takes its counters in
  order without skipping (`InOrder`); no two calls hold one row (`Exclusive`);
  a held row has room left (`Roomy`). A commit is then exactly one charge, and
  every other step leaves the counters alone.
- `GrantsArePaid` (`AllowedIsPaid`) and `RefusalsAreDue` (`DenialsAreDue`). The
  counters alone do not say which calls they were raised for; `Paid` counts them:
  what was granted on a row, plus the committed calls that have not been answered
  yet, is at most the counter. `Shape` ties a call's scopes to its caller and date.

`BrokerLifecycleProofs`, for any connections, accounts, states and any number of
requests and sweeps at a time: `BrokerTypesHold`, `OneSessionPerState`
(`StateSpentOnce`), `OneAccountEach` (`OneAccountPerConnection`), `OneRescueEach`
(`RescuedOnce`). The invariant `IInv` adds that a rescue that reads holdings has a
connection (`Anchored`), that a consumed state has either one login under way or
one stored session (`LoginsApart`), and that no two accounts are bound to one
live connection (`OneEach`). Four actions can disturb it (`Complete`, `Upsert`,
`Link`, `RescueCommit`); for all others one lemma, `Minor`, says so.

About `SerialSpec` (requests and sweeps one after the other, for any number of
slots; with one slot, as in `broker_alone`, it is `Spec`): `SerialNoZombie`,
`SerialBrokerOnly`, `SerialNothingStranded`, `SerialDeadIsDead`, and the action
properties `SerialKeepsAnAccount`, `SerialAnchor`, `SerialReconnect`,
`SerialForgets`, `SerialRescueKeeps`, `SerialFrozen`. The invariant is
`SerialInv`: the tables are as the four invariants say and a little more
(`Tables`: whose rows a connection has, one row each, what a dead session
implies), and every request still knows, at each of its steps, what it read
before (`Knows`: that an account it is about to link has neither a ledger it has
not seen nor a connection, that the rows a rescue converts are all that are
there, that a session it marks dead has a dead token). Between two steps of one
request only tokens die and OAuth states come and go, so what a request knows
cannot go stale; `Good` says that of each of its own steps, one lemma per group
of handlers. When requests overlap it can go stale, and section 7 lists what
follows.

`MailDrainProofs` holds the lemmas about the drain that the two pipelines share;
`KeysKeep` is the invariant: what was mailed today is remembered by the provider
and counted once. `Workers` and all tables are arbitrary.

- `RemindersProofs`: `ReminderTypesHold`; `FiresOnce` (`OneRowPerOccurrence`), for
  any number of overlapping passes, which is what the unique key is for;
  `MailsOnceADay` (`MailedOnceADay`).
- `AlertsProofs`: `AlertTypesHold`; `AlertsMailOnceADay`, for any number of workers;
  `FiresOncePerCrossing` (`NoRefire`) under `OneWorker`. Its invariant `Quiet` says
  that an alert that fired and was not re-armed is disarmed, and that no pass in
  flight has decided to fire it: with a second worker that pass exists (section 7).

`RescoreProofs`, for any cells, values, workers, asks and losses:

- `RescoreTypesHold`; `ChainNeverForks` (`ChainIsLinear`). The invariant `Chain` has
  the chain finite, linear and its versions unique, and says what a job that is
  about to insert still knows (`Reads`): its base is a version of the chain whose
  snapshot has another score. The unique key then lets it through only at the end.
- `HandValuesHold` (`HandValuesStand`). Nothing is locked between the reads of a
  guarded write and its update, so the invariant `Standing` says why old reads do no
  harm: a value entered by hand has an edit row or stands on a workbook row
  (`Backed`), and a write under way that would touch such a cell has read it as held
  and, once it is "ready", as protected (`Guards`). An edit row is never removed and
  a workbook row stays one, so a protection read late is still complete; a cell held
  when it was read may be changed by hand meanwhile, but is then not writable
  either. What it cannot cover is the first value of a cell in between (section 7).

Assumptions: the named ones of each module on its constants, which TLC evaluates
on every run; `Apart`, `OneProcess`, `~BeatLoss` and `OneWorker` where stated;
and for the theorems named `Serial…` that the specification is `SerialSpec`.
Nothing else is assumed.

Only model-checked: liveness and the fairness behind it, since reasoning with
ENABLED is beyond the provers used (`EveryJobSettles`, `GhostsReclaimed`,
`EveryCallAnswers`, `CatchesUp`, `ScoreCatchesUp`), and the action property
`EveryWindowFires`. No module uses
RECURSIVE: the replay is a recursive function, and the library's induction
theorems, which take an operator the provers cannot instantiate, are replaced by
`SetInduction` and `UpTo`, which take a set. For the same reason `OpenIn` is a fold
over the lots and not a filter: `SelectSeq` is a RECURSIVE definition of the
standard library.

## 7. Where the code and its comments disagree

Two runs end in a counterexample:

- `reminders_reschedule` (`ingestions/corporate-events/ingest-events.ts:214`):
  a postponed event is a new calendar row, the old one stays, and the resolver
  takes the soonest: the reminder fires for the date the company gave up.
  `reminders/resolve.ts:7-10` says "the reminder never pins to a stale one".
- `rescore_restated` (`ingestions/quaterly-results/ingesters/guarded-write.ts:142`):
  a refresh withholds corrected raw cells but writes the derived columns of the
  filing, so a corrected row has ratios that are not those of its raw columns;
  `fill/re-derive.ts:6-9` says they are what a fresh ingest would have produced
  from the corrected columns.

The following were met while modelling and are behaviours of the modules too,
but have no run of their own; the runs stay clear of them as named.

- Queue. `server.ts:83` exits as soon as `shutdown()` resolves, so a handler
  that returns while its row is being handed back never reaches the heal and the
  next process runs the job again (`worker.ts:146-149`: "no work is silently
  repeated"). A cancel of a pending row between the claim's SELECT and UPDATE is
  lost (`worker.ts:416`); a late cancel poll overwrites a succeeded row
  (`worker.ts:486`, hence `HooksFollowSuccess` speaks of uncancelled jobs); a
  retry ignores a requested cancel (`worker.ts:664`); two processes claim one
  row (`worker.ts:409`, hence the run bound for one process), and then `attempts`
  may exceed its maximum.
- Rescue. `transfer.ts:639` reads the broker rows before the transaction that
  deletes their connection; rows a sync commits in between are deleted with it
  and written nowhere (`transfer.ts:50-51`: "It never silently drops a position
  the user actually owns").
- Brokers, with two requests or a request and a sync overlapping: linking a
  severed connection shows it live (`accounts-controller.ts:340`); a sync in
  flight overwrites a severed connection's rows, or appends to another's
  snapshot (`lifecycle.ts:619`); a refusal of an old token marks a reconnected
  session dead (`:556`); a link between clear's two statements leaves a live
  account without a connection (`:784`); an entry beside a link gives a mixed
  book (`accounts-controller.ts:321`); two deletes leave no account (`:574`);
  a clear can hit a connection activated meanwhile (`lifecycle.ts:760`); a
  reconnect can re-create a cleared connection (`:316`). One request is enough for
  this: a login that ends between `persistSession`'s upsert and its re-linking of the
  account (`lifecycle.ts:335`) leaves the connection enabled and its account
  `linked_stale` until the next reconnect.
- Ledger. A corporate action whose factor has no finite decimal loses shares: 3
  shares and a 1:3 bonus make 3.9999999999999999999, so a sell of 4 is an
  oversell (`fifo-engine.ts:90`, `:123`, `:142`), and money drifts by last
  digits where unit costs round (`:15-16`: "no float drift across the repeated
  divisions a split introduces"). `CashIdentity` bounds the drift by the
  roundings. Two requests on one instrument replay without each other's
  uncommitted row (`transactions-service.ts:241`): both sells pass and the
  ledger oversells, after which every write to it is refused
  (`transactions-controller.ts:13-15` promises a consistent ledger). A
  correction writes back the account it read before a transfer
  (`transactions-controller.ts:144`), so one row returns to the old account;
  overlapping adds leave a holding that is no replay. A merge conserves shares
  only if both books spell a corporate action alike ("2:2" and "1:1", split and
  bonus are different rows) and no trade shares its day (`MoveConserves` states
  that as its precondition).
- Quota. The read that reports what is left runs after the commit, inside the
  same `try` (`quota.ts:384`): when it throws, a paid call is answered as
  denied, a state `quota.ts:305-306` excludes. `recordAiTokens` adds tokens to a
  row scoped by the bare model name (`quota.ts:506`) while the gate's global
  scope carries the key's fingerprint.
- Alerts. A pass writes `active` and `armed` from the row it read
  (`alerts/eval-pass.ts:338`): a pause or a re-arming by the user in between is
  undone, and two overlapping passes both fire one crossing, since
  `alert_events` has no unique key. The drain mails the alert's threshold as it
  is then, not as it was when it fired.
- Reminders. An event of today hides a later one of the same type until
  tomorrow; a mail that fails for days is sent after its event.
- Guarded write. A correction that commits between the read of the protected
  cells and the update (`guarded-write.ts:140-159`) is overwritten by the filing,
  and Layer 3 compares against the protection read before; `:26-31` calls the
  fence absolute. This can happen only to the first value entered into a cell while
  a filing is under way; `HandValuesStand` is about all others.
- Rescoring. An ask is dropped in favour of a running job that has already read
  its inputs (`scoring-triggers.ts:28-31` holds that the running one picks the
  change up); the daily price sweep repairs it, which is what `ScoreCatchesUp`
  shows. The pre-check compares the composites only
  (`pg-rescore.handler.ts:94-105`: "the same identity persistMember uses"), so a
  change that moves leaves under an equal composite waits for a cascade.

## 8. Not modelled

Chat sessions: their order rests on the time stamps of two clocks, their edits
on a plan made from what a language model answered; the code promises no
property of two tabs on one transcript that a model could be held against
(the hazard is listed). Recomputing past periods and retention: what may be
deleted depends on the former, whose numbers come from decimal arithmetic over
years of filings. Left out for good: the numeric mechanisms of scoring and
analytics (sequential decimal arithmetic with harnesses of their own), fetching
and parsing of exchange files, language-model calls and wording, routing and
validation, one-off scripts. Of the modelled parts, what is abstracted is listed
with each module in section 3.
