# TLA+ models of fin-core

fin-core is a single-installation research assistant: it captures articles,
keeps a semantic research state in SQLite, answers questions through an LLM
runtime, and four times each trading day prepares a *Daily Workspace* product
and delivers it to a chat. There is no server that serialises this: systemd
timers, commands typed by the owner and chat entry points are separate
processes that share databases. The models in this directory are about what
those processes do to each other, and about what a crash between two writes
leaves behind.

Part 1 is the inventory, part 2 the plan, parts 3 to 6 describe what exists.

## 1. Inventory

Paths are below `src/fin_analyse/` unless they begin with `scripts/`.

### Daily Workspace delivery (modelled)
`operations/daily_workspace_delivery.py`, the obligation half of
`guo_teacher_research/semantic_state.py`, `runtime/public_entry_ledger.py`.

* State: one obligation per product (`PENDING`, `CLAIMED` under a token,
  `SETTLED` with an outcome) in the semantic database; one outbox row
  (`DISPATCHING`, `DELIVERED`, `FAILED`, with message id, acceptance outcome
  and settlement) in a second one; a *dispatched* event per claim in a third;
  and what the messaging platform did, which no database knows.
* Operations: `dispatch` and the recovery inside it, `claim_delivery`,
  `settle_delivery`, `record_delivery_event`, and the lookup of a workspace by
  message id.
* Hard: no transaction spans two stores; the send may time out and be accepted
  later; several processes dispatch the same product; any of them may die
  between any two writes.
* Correct means: the platform accepts at most one copy; a retry is authorised
  only by proof that nothing was and nothing will be accepted; a `DELIVERED`
  row is true; a recorded outcome is eventually settled.

### Daily Workspace checkpoints and chain (modelled)
`operations/daily_workspace_runner.py`, `consultation/daily_workspace.py`,
`consultation/daily_workspace_schedule.py`, the chain half of
`semantic_state.py`, `scripts/run_daily_workspace_checkpoint.py`,
`scripts/run_daily_workspace_scheduled_checkpoint.py`,
`scripts/render_daily_workspace_services.py`.

* State: the day's versions and their obligations; unbound claims on
  idempotency keys; systemd's view of the prepare unit; the clock.
* Operations: prepare (look up, claim, read the parent, generate, append,
  release), deliver (look up, wait for the prepare unit, look up, freeze a
  failure notice or dispatch), the timer's second attempt, `ask`.
* Interaction: a result and a failure notice have different keys, so nothing
  but the order of look-ups keeps a notice from following a result; delivery
  dispatches through the component above.
* Hard: a prepare run may overrun its target, hang, or be killed with its
  claim in place; claims carry no owner; runs read a parent, work for minutes
  and append.
* Correct means: the chain is linear; no notice after a result; one product
  per checkpoint when the timers alone run; a delivery ends with a product.

### Reconciliation and alerts (not modelled)
`scripts/reconcile_daily_workspace_day.py`, `scripts/alert_daily_workspace.py`:
read-only reports over the stores above.

### Research job queue (modelled)
`semantic_state.py`: `admit_research`, `continue_research`, `claim_next`,
`heartbeat`, `finalize`, `read`, `close`, `append_feedback`,
`reconcile_terminal_jobs`.

* State: chains with at most one active job; jobs with a lease (owner, attempt,
  fencing token, expiry) and a deadline; the chain's log of numbered versions
  and its numbered products; request keys bound to jobs; and what each worker
  thread believes to hold.
* Interaction: a worker's result is only a candidate. It becomes public when a
  read, a reconciliation or the closing of the chain coordinates it: product,
  version, the job's version number and the chain's active job change together.
* Hard: a worker past its lease, also one whose successor uses the same
  `worker_id`; a deadline that passes while a result is on its way; callers
  read their clocks before the transaction starts; a chain closed under a
  running job.
* Correct means: one result per job, by the latest attempt; one open job per
  chain; a log without gaps that announces each result once; nothing after
  closing; every admitted job ends.

### Answer turns and routes (modelled); sessions (not modelled)
`semantic_state.py`: `create_answer`, `find_answer_replay_bound`,
`begin_answer_turn`, `renew_answer_turn`, `release_answer_turn`,
`append_answer`, `resolve_route`, `reconcile_runtime_session_deleted`.

* State: a chain's turn (turn id, expiry, fencing token), its products, the
  conversation's route (generation, chain, revision, generations seen), request
  keys bound to products; what each client has read.
* Hard: answers take minutes and are appended to what has changed meanwhile: by
  another turn, by research, by a client without a turn or without a route, by a
  rotation of the route, by the closing of the chain, by the janitor.
* Correct means: one answer per request; every answer follows the product it
  was generated on; while a turn is held only its holder answers; no
  answer asked through a route is added once the route has moved on.

The archive of runtime sessions (`guo_teacher_research/codex_session_store.py`,
the runtime handle and the table `runtime_session_gc`) is not modelled. Reading
it showed two places worth a model: `upsert_runtime_session_gc` replaces a row
without comparing what it replaces, and a turn that lost may capture the
archive of a version first, whereupon the capture of the winner fails with
`AlreadyExists` and is swallowed (`codex_runtime.py:1660-1714`).

### Investment memory (not modelled)
`semantic_state.py` from `append_memory` on, `investment_memory.py`: append,
tombstone, recall, purge. Correct means: a tombstoned memory is never recalled.

### Capture runtime lease and page health (modelled)
`scraper/runtime_repository.py`, `scraper/module.py`.

* State: one lease row (run or probe, owner, heartbeat, deadline); the runs'
  statuses; health observations, open episodes, outbox rows.
* Hard: who finds the heartbeat stale or the deadline reached takes the lease
  while its former owner still works; probes never renew, so one that takes
  longer than the two minutes can be taken over; clocks are read before the
  lock is granted.
* Correct means: the running run is the one with the lease; a run ends once;
  health is the latest observation; no lease stays behind.

A process that lost the lease may go on driving the browser until its next
checkpoint. That is what the code does; it writes nothing to the ledger.

### Capture ingest and publication (modelled)
`scraper/capture_ingest.py`, `scraper/cdp_runtime.py`,
`guo_teacher_research/g_working_set.py`, `scraper/scheduler_handoff_lock.py`,
`scraper/scheduled_run.py`.

* State: the staged file and the archive; the row of `capture_ingests` with its
  four phases, business run and publication plan; the published manifest; the
  sources it is made from; whose run holds the lease.
* Interaction: the ingest's replay is a run under the lease above; live runs
  publish the same manifest. Scheduled runs and ingests exclude each other
  through the handoff lock; other writers of the same user do not take it.
* Hard: files and database are written in turn, and the ingest may stop between
  any two writes; a plan is made from a clock, a manifest and sources that may
  all have changed when it is published.
* Correct means: a claimed capture is staged or archived; its business run
  counts once and its plan stays; the manifest never goes back; every capture
  ends.

### Adjudication inbox (modelled)
`adjudication/inbox.py`, `adjudication/push.py`, `adjudication/producers.py`,
`adjudication/cli.py`, `adjudication/mcp_server.py`, and the producers' callers
such as `scripts/consume_zsxq_capture_folder.py`.

* State: open and resolved items in a store with an event log; the digests sent
  today, by fingerprint, with their times.
* Operations: producers look at a truth outside (records to review, batches to
  annotate) and reconcile their item with it; the owner adds and resolves; a
  daily timer and commands push a digest of what is open, once a day unless it
  changed and something was opened since.
* Hard: a producer's look and its reconciliation are apart; a digest may be
  accepted unnoticed, or the push may die or outlast its day before it is
  recorded; the next push decides from the record alone.
* Correct means: a push that sends nothing withholds nothing the owner has not
  seen; what is pending is told in the end.

### Portfolio reviews and owner-only snapshots (modelled); watchlist and journal (not)
`portfolio/portfolio_review.py`, `portfolio/pending_review_store.py`,
`portfolio/portfolio_review_types.py`, `portfolio/actual_advisory.py`,
`common/owner_only_snapshot.py`, `scripts/manage_actual_advisory_portfolio.py`.

* State: one snapshot file; one pending review per principal with its
  candidate, the snapshot it was compared with, session, turn and expiry; lock
  files.
* Operations: preview and save in one turn, confirm in a later one (load,
  publish, consume); publications from the command line.
* Hard: minutes lie between a comparison and the write; the locks on the review
  file guard an inode that is replaced by rename; a crash or an error after the
  file was replaced leaves the review pending.
* Correct means: nobody overwrites a snapshot he has not compared with; a
  confirmation publishes the latest preview of its session; a confirmed review
  takes effect once.

The watchlist (`portfolio/watchlist_write.py`) keeps its confirmation token in
one process and writes with one compare-and-set in SQLite; the decision journal
is append-only. Neither is modelled.

### Capability broker, process supervision (not modelled)
`guo_teacher_research/capability_broker.py`, `local_capability_transport.py`,
`common/stall_watchdog.py`, `common/bounded_process.py`: requests and answers
over a local socket, and threads that watch and kill a child.

### Left out
Provider health and degradation policy (pure functions), deep-read artifacts
and working set (write-once files), the multi-model engine, LLM backends, market, margin and official
records (readers and calculators), browser and CDP capture (the page's
behaviour), rendering and product content. `PROJECT.json` gives the reason for
each.

## 2. Plan

Done, in this order: `DailyDelivery` with `AtMostOnceDelivery` and
`DailyCheckpoint` (a message that was sent cannot be taken back),
`ResearchQueue` with `DecidedOnce`, `AnswerTurns`, `CaptureLease`,
`CaptureIngest`, `PortfolioReview` and `AdjudicationInbox`, each with a TLC
instance and proofs.

| next | module | composes | properties | runs |
|---|---|---|---|---|
| 1 | `SessionStore` | archive files and the versions of `AnswerTurns` | a referenced archive exists; collection removes nothing referenced | 2 versions, 1 crash |
| 2 | `CapabilityBroker`, `StallWatchdog` | - | a late answer is not taken for another request | 2 requests, 1 timeout |

Modules to be proved about have no recursive operator, one action per
operation and named assumptions on their constants.

## 3. Modules

### AtMostOnceDelivery
What delivery promises, with no stores, processes or tokens: an attempt is
authorised, is in doubt, and ends acknowledged, unknown or proved not sent;
the platform accepts while the attempt is in doubt or after it was written off,
and never twice.

### DailyDelivery
`dispatch` for one product, run by any number of processes. Each process has a
label `pc` (its place in the method) and a record `job` (the locals that
matter). Each action is one transaction on one store or one external call,
with the whole of the method's reaction to it.

| variable | code |
|---|---|
| `obl` | row of `daily_workspace_obligations` |
| `row` | row of `daily_workspace_delivery_outbox` (`NONE`: absent) |
| `ledger` | the *dispatched* event, per claim token |
| `issued` | the claim tokens handed out so far (tokens are random and fresh) |
| `net`, `accepted` | sends started and undecided, sends accepted |
| `faults` | crashes and store failures so far |

| actions | code |
|---|---|
| `Lookup`, `Recover` | the two look-ups and `_recover_known_dispatch` |
| `Claim`, `ClaimRefused` | `claim_delivery` and the handling of its refusal |
| `Stage`, `StageConflict`, `StageFails` | the staging transaction |
| `Send`, `SendAcked`, `SendAckedWithoutId`, `SendRefused`, `SendUnknown` | `HermesCliMessageSender.send` and the four ways `dispatch` reads its answer |
| `Persist`, `PersistFails`, `Intent`, `RecordAcceptance...`, `Replace`, `RecordOutcome`, `Settle`, `Finalize`, `Mark` | the methods of the same names |
| `Abort` | a process dies, or an error reaches the top |
| `PlatformAccepts` | external: a started send is accepted at any later time |

A send is identified by its claim token, and so is the message id it yields.
Rendering and identity checks of stored bytes appear only as `StageConflict`
(a later release renders another text).

### DailyCheckpoint
A trading day: `chain` (versions with checkpoint, kind, parent and phase of
their obligation), `claim` (since when an unbound row exists per key), `fired`
(timers that have fired), `now`. A run is a process whose `job` holds what the
methods keep in locals. The action names follow the steps of
`DailyWorkspaceService.scheduled` (prepare), `_deliver` with
`_freeze_delivery_fallback` (deliver), and `ask`. A dispatch is one step, to
any phase `AtMostOnceDelivery` can reach. Timer processes (`Scheduled`) run
each unit once and obey its time limit; the others are commands typed by hand,
which systemd neither sees nor limits. Clock readings are kept apart where the
code keeps them apart: a timer's prepare run and a second attempt use the time
they were started at, every other run reads the clock again.

`ask` has no production entry point at this commit; it is modelled because the
service offers it and it appends to the same chain.

Some properties need something of the schedule. `ClaimsOutliveRuns` and
`CheckpointsApart` say what, as conditions on the constants;
`MCDailyCheckpoint` evaluates both, in its `ScheduleAssumption`, for the
instances and for the code's own numbers in minutes (`Real`: targets 9:20,
10:00, 14:20 and 15:30, leads of 10 or 5, a window of 15, limits of 35 and 40, a
time-to-live of 360). The tightest pair is 9:20 and 10:00: a preparation
admitted before 9:20 is killed by 9:55, which is when the next one starts, and
the delivery that waited for it is then a matter of moments.

### DecidedOnce
What the queue promises about a job: it is decided at most once and announced
at most once, not before it is decided.

### ResearchQueue
Every public method is one transaction and one action, whose guard and updates
are those of its SQL statements. `ClaimNext` ends all overdue jobs and leases
the one its `ORDER BY` selects; `Finalize` and `Heartbeat` share `LiveLease`
(`_require_live_lease`); `Coordinate` is `_coordinate_terminal` for a set of
jobs, in the order of `seq`, used by `Read`, `ReconcileTerminalJobs` and
`Close`. `held` is the `JobLease` a thread keeps in memory; `WorkerDies`
forgets it. A product is identified by the attempt that made it. A caller's
clock reading `t` may be up to `Lag` ticks old when its transaction starts.
No worker in this repository calls the queue (only its tests do), so nothing is
assumed about callers: any thread may claim, renew, finish and read at any time.
With clocks that are late, two workers can take a job from one another several
times at one instant; `MaxAttempts` bounds this.

### AnswerTurns
A client's request goes through look-up, optional turn, answer and release in
the order these methods are made for; each transaction is one action. A request
may name a route (`StartRequest`) or none (`StartUnrouted`), as `route_key` is
optional: without it, it creates a chain that no route names, or goes on with any
open chain whose continuation token it brings, and neither `create_answer` nor
`append_answer` looks at the route. `RouteMovesOn` is therefore about requests
that name the route; the other properties are about both kinds.
`chain.products` is the sequence of products with their authors and the product
each was generated on; `bound` the idempotency table; `route` the conversation's
route with its revision. `ContinueResearch` and `CoordinateTerminal` stand for
the queue on the same chain (`busy` is its active job), `Close` for the method,
`ReconcileSessionDeleted` for the janitor, which may come at any time because
what the archives hold is not modelled. Again only tests call these methods in
this tree.

### CaptureLease
`proc` are the processes inside `ZsxqScraperModule.run` and `.health`.
`owner_token` is a fresh uuid known to one call; the process stands for it.
A process reads its clock after its last step (`since`) and at most `Lag`
before the transaction. `RecordObservation` writes observation, episode and
outbox row as the code's single transaction does; a page state is one that is
ready, needs the user, or neither.

### CaptureIngest
`Claim` to `RemoveStage` are the steps of `_run_ingest_with_recovery` and of
`_run_capture_once_with_adapter` that change a store, each a transaction or one
file operation that is atomic (rename, link). `NextStep` tells where an
invocation goes on with a row left by an earlier one. The knowledge base is a
number that grows when the sources change; a manifest is the time and the
sources it was made from, a plan also the manifest it expects to replace.
`Live` are runs of the scheduler and `Outsiders` those that do not take the
handoff lock, of which its module says that it "does not claim to exclude a
non-cooperating same-UID writer" (`scheduler_handoff_lock.py:3-5`). The lease
appears with its effect only, as `CaptureLease` describes it.

What the model shows of the code, beyond the properties: a failed business run
is completed and archived as rejected; a plan that is refused is completed as
not published; and a completion may say "not published" although the manifest
was published just before a crash or an error.

### PortfolioReview
Turns of conversations and runs of the command line replace one snapshot file.
`job` holds the candidate and the revision it was compared with, `holder` the
lock file of each principal, `directory` the lock on the snapshot's directory.

| actions | code |
|---|---|
| `Inspect`, `LockForSave`, `ClearExpired`, `Save` | `review_full_replacement`: the preview without a lock, then the save under the principal's |
| `LockForConfirm`, `Load` | `confirm_latest_review` up to its early returns |
| `OperatorPreview` | the preview of `manage_actual_advisory_portfolio.py` |
| `Check`, `LockDirectory`, `Recheck`, `Write`, `WriteFails` | `publish` of the owner-only snapshot: both comparisons, the exact replay, the replacement that may fail before or after it took effect |
| `Consume`, `ConsumeFails` | `consume`, still under the principal's lock |
| `Crash` | a process ends; its `flock` locks end with it |

A revision is a hash of the file's bytes. The bytes of a preview contain the
time it was made, so every preview is a new revision; an operator's file may be
an old one, and `returned` remembers that somebody brought one back.

### AdjudicationInbox
An item is told by the count in its title; `truth` is what a producer would
find now. `Scan` (or `Add` by the owner) and `Reconcile` are the look and the
transaction of a writer; `Fire` and `OnDemand` start a push by `List`, whose
further steps are the look-ups of `push` (`Compare`, `LastSent`, `Debounce`),
the send and the `Record`. `ledger` is `sent_log` of the current day, `inbox`
the open items and the time of the last opening. Clock readings may be up to
`Lag` instants old when a transaction starts. `told` and `old` are not in the
code: what the owner was shown today, and what has been open since before
today.

A day ends with `NextDay`. The look-ups of a push take moments and do not span
midnight; a send may, except that of the timer, which fires in the morning. The
record of a push that outlasted its day is made under the day it began on. A
process that dies outside of a send leaves nothing behind and needs no action
of its own; one that dies during it is `SendUnknown`.

### MC modules and defects
The `MC...` modules give the constants values. Operators introduced by a
comment `Defect:` are plausible mistakes in the definition that
follows them. They are not used by the specifications; with one of them put in
place of its original, the property named in `PROJECT.json` fails, which shows
that the property depends on that piece of code.

## 4. Runs

| run | what it asks | bounds |
|---|---|---|
| `Delivery` | a delivery implements `AtMostOnceDelivery`, retries are safe, the stores agree, recorded outcomes are settled and bound | 2 processes, 3 claims, 3 faults |
| `DeliveryCrashAfterSend` | expected to fail, see below | 2 processes, 2 claims, 1 fault |
| `CheckpointDay` | linear chain, no notice after a result, one holder per claim | 1 checkpoint, 1 timer and 2 manual processes, 1 question, 1 fault, 7 instants |
| `CheckpointLiveness` | one product, nothing lost at the last step, a delivery ends with a product | 2 checkpoints, 2 timer processes, 11 instants |
| `CheckpointLeakedClaim` | expected to fail, see below | 2 checkpoints, 1 timer and 1 manual process |
| `Queue` | one result per job, complete logs, `DecidedOnce`; every admitted job ends and is announced | 2 chains, 2 jobs, 2 keys, 2 threads of one name, 2 attempts, 4 instants, clocks 1 tick late |
| `AnswerTurns` | one answer per request, on the right product, by the holder of the turn, and, if asked through the route, while that names its chain | 2 clients, 3 requests with a route (2 generations) or without, 2 chains, 3 products on one and 4 in all, 2 turns, any number of crashes |
| `CaptureLease` | one running run, ended once; true health; no lease left behind | 2 processes, 2 runs, 2 observations, 4 instants, clocks 1 tick late, 1 crash |
| `CaptureIngest` | nothing lost, manifest forward, business once, every capture ends | 1 artifact, 2 live runs (1 outside the lock), 3 states of the sources, 2 faults |
| `PortfolioReview` | nobody overwrites an unseen snapshot, a confirmation publishes the latest preview, once | 3 turns of 2 sessions, 1 operator, 3 revisions, 3 instants, 2 faults |
| `Inbox` | a silent push withholds nothing old; what is pending is told | 1 scanned and 1 manual item, 1 writer, the timer and 1 push on demand, 2 instants a day, clocks 1 tick late |
| `InboxDebounced` | expected to fail, see below | the same with exact clocks |

Why the bounds suffice. Three claims allow an attempt, its retry and a third
one that meets the leftovers of both; two processes are a sender and a recovery
or a second sender; three faults are one crash in each attempt. The interesting
conflicts in the day are between two runs and a third that overtakes them. Only
the order of instants matters, so the schedule is scaled down: preparation
starts one tick before the target, the window is one tick, the time limits are
larger than the window as 35 and 40 minutes are larger than 15.

In the queue, a job that is leased, expires, is taken over and then finished by
either thread needs two threads and two attempts; two jobs on one chain show
that the second is admitted only after the first is announced, two chains that coordination keeps
them apart. A lease is one tick and a budget two, so that expiry comes before
the deadline or with it. In `AnswerTurns` two requests compete for one chain
and a third follows a rotation or names no route; three products are a first
answer and two that compete or follow one another, a fourth is the first answer of
the second chain; two turns are one that expires and one that takes over, and
both are counted on all chains together. In `CaptureLease` staleness comes before the
deadline, and a second run or probe meets what the first left. In
`CaptureIngest` one artifact is enough because only one can be staged; the
sources may change between any two steps of the ingest, through a live run that
the lock excludes and one that it does not.

In `PortfolioReview` two turns of one session are a preview and its
confirmation, each may also do both, the third turn competes from another
session; of three revisions one is published, one replaces it and one comes
after or brings the first back. In `Inbox` an item of a producer can be closed
and reopened by stale looks, the manual one lets a digest change, the second
push meets the timer's at every step; two instants are before and after an
event of the same day, and days repeat without end.

* In the runs of the day time stands still while a run is in a step that takes
  moments (`Prompt`); it passes while a run waits or generates. The
  time-to-live exceeds every admission window, as in the code. `SoleHolder`
  holds because no admitted run is late enough to take over a living claim; a
  `--trade-date` of an earlier day given by hand is outside the model. Without
  `Prompt` it is proved for the timers, whose runs have limits; a command typed
  by hand that hangs for hours between its admission and its reading of the
  clock could take over a claim, and that is not claimed otherwise.
* In `CheckpointLiveness` the two checkpoints are
  apart, as 10:00 and 14:20 are, and no faults occur: with a failed
  `systemctl`, or a prepare run started by hand, the code does send a notice
  before a late result, and that is not claimed otherwise.
* `Delivery`, `PortfolioReview` and `Inbox` check deadlock: a dispatch, a
  confirmation and a push can always start. The others say
  `CHECK_DEADLOCK FALSE`: the day ends; instants, jobs, products and
  observations are bounded, and with them every step. `InboxDebounced` looks
  for one step only.
* A job whose deadline lies beyond the last instant is not admitted in the
  instances (`deadline <= MaxTime` in `Queue`), so that the liveness run sees
  every deadline pass.

Fairness. A dispatch or a run that is not killed keeps taking steps (weak
fairness of `Step`): each is straight-line code whose external calls have time
limits. `RetrySpec` adds that somebody dispatches again, which is the timer's
retry or the owner's command; faults are finite, because `faults` is bounded.
`FairSpec` of the day adds that time passes and that systemd kills overdue
units; nothing is assumed of the generation, which may hang, or of the
platform. `RerunSpec` also assumes that generation ends and that a prepare run
is started whenever one is admitted; it is used for the failing run only, where
more fairness makes the statement easier to satisfy.

The queue's `FairSpec` assumes that time passes, that somebody asks for work
and that terminal jobs are reconciled; nothing of those who hold a lease, who
may stop for ever. The lease's assumes that time passes, that triggers keep
coming and that a process at work goes on or dies (the adapter's waits are
bounded). The ingest's assumes that it is started again as long as a stage is
left, which the folder watcher does, that live runs end (their number is
bounded by `MaxLiveRuns`: an endless stream of live runs could keep an ingest
from ever getting the lease), and that a dead lease is taken over.

The inbox's `FairSpec` assumes that a producer that can run again and again does
and finishes, that days pass, that the timer fires on infinitely many of them (it
may miss days: its unit is not `Persistent`), that a push at work goes on, and
that a digest pushed day after day is accepted some day. The safety properties
of the run need none of this.

### Where a document and the code disagree

* `DeliveryCrashAfterSend`. `docs/design/daily-delivery.md` (line 83) says that
  after a power loss between the send and the settlement the recovery aligns
  row and obligation. If the crash comes before the first record of the
  outcome, `_recover_known_dispatch` finds no settlement and raises, and the
  claim remains for ever. That is the safe choice (the row may be a living
  sender's); the recovery starts only with the settlement intent.
* `CheckpointLeakedClaim`. The comment at `semantic_state.py:65` and BUG-034 in
  `docs/pm/BUGS.md` say that a later shift of the same day reclaims the claim
  of a killed prepare run. The claim's key names the checkpoint and a prepare
  run of it is admitted only in the five or ten minutes before the target, so
  no run of that day ever does.

* `InboxDebounced`. The comment at `adjudication/push.py:120-121` says that
  transitions before the latest send are already contained in the previous
  digest. The time of a digest is that of its record (`push.py:157`), up to half
  a minute after its items were listed; an item opened in between is in no
  digest of the day, and later pushes of the day are debounced although it is
  listed. It is told on the next day, which is what `OldItemsAreTold` and
  `PendingIsTold` state.

## 5. Proofs

TLC checks the instances above; the proofs hold for every value of the
constants, under `ConstantsAssumption` (the null value is no token, the fault
bound is a number), `DayAssumption` (the types of the schedule) and the like
assumptions of the other modules: types of the bounds, positive lease times,
and null values that are not members of the sets.

`DailyDeliveryProofs`: `IInv` is inductive (`Inductive`). At-most-once alone is
not: one has to know that an obligation in `PENDING` has nothing outstanding,
that until its answer arrives a sender is the only process that works on its
token and that the outbox row gives nobody a reason to pick that token up, and
that whoever carries `EXPLICIT_NOT_SENT` or `POSITIVE_ACK` (the row, the
obligation, or a process between two writes) carries the truth about that
send. From it follow `Typing`, `RetryIsSafe`, `DeliveredAtMostOnce`,
`SenderKeepsClaim`; with a step argument `StagingKeepsEvidence`; and
`Implementation`: the initial state and every step map to `AtMostOnceDelivery`,
where the phase is read off the obligation and the copies are the accepted
sends. A second invariant, `Agreement`, follows an acknowledgement through the
stores in the order in which they are written, and gives `StoresStayConsistent`:
the row binds the message before the obligation is settled, the ledger has it
before the row records the acceptance, and no other process can write the row
in between, because the accepted send is the obligation's.

Three theorems say what a crash costs, for any later dispatches, recoveries and
faults. A process that dies between its claim and the answer of the send command
leaves a claim that no process works on and no settlement of the row hands on
(`DeadSenderOrphansItsClaim`); such a claim is never settled or released
(`OrphanedClaimIsNeverSettled`, the general case of the run
`DeliveryCrashAfterSend`); and if it died before the send, nothing is ever sent
for the product (`OrphanedClaimIsNeverSent`). At-most-once is paid for with a
product that may be lost silently.

`DailyCheckpointProofs` has five invariants, each for what the one before it
does not give.

* `CInv` is about versions. That the chain is linear (`ChainIsLinear`) needs
  only the comparison inside the appending transaction. That a notice never
  follows a result (`NoticeIsHonest`) needs that a run about to freeze a notice
  has seen no result up to its parent, and that its parent is the latest version
  when it appends; neither claims nor time play a part, so it holds for any
  schedule, any time-to-live and any number of runs. `Typing` is proved on the
  way. `ChainOnlyGrows` says for each step that nothing is lost or rewritten.
* `OInv` is about who waits for whom: once a deliver run is past its wait, no
  unit prepares its checkpoint, and none will, because the target has passed.
  `OneMessagePerCheckpoint` follows for every schedule, under a condition on
  the behaviour (`UnitsAreVisible`): prepare runs are the timer's, and the state
  of a unit can be determined. Both are needed, and neither is more than the
  units give: `RefuseManualStart=yes` keeps others from being started, but the
  command line and a failing `systemctl` do break the promise.
  `TimersSendOneMessage` is the case of timers only.
* `DInv` follows what a run has found or made: `DeliveriesAreTheirOwn`. That it
  is inductive rests on `ChainOnlyGrows`, since a run carries only a version's
  number.
* `KInv`, with timers only and `CheckpointsApart`, says which runs can be there
  at once: of one checkpoint, one of each kind, and not past the wait while the
  other prepares. So nobody appends between a run's reading of its parent and
  its own append, which is `NoRaceIsLost`.
* `HInv`, under `ClaimsOutliveRuns`, says that every claim carries the time of a
  run that was admitted, that a run that can still claim was admitted less than
  the time-to-live later, and that the key of a run in the claimed block stays
  claimed or is bound. Claims name no owner, so all three are needed for
  `ClaimsAreExclusive`; crashes, failing look-ups and leaked claims are allowed.

`DispatchIsSound` joins the two parts of the daily workspace: the phases that
`AtMostOnceDelivery` reaches from a phase in any number of steps are among those
that `DailyCheckpoint` lets a dispatch reach in one. With `Implementation` and
`DeliveredAtMostOnce` of `DailyDeliveryProofs` it says that one product of a
checkpoint is one message.

`ResearchQueueProofs` (under `QueueAssumption`) has two layers. `QInv` says of
each job which columns go with which state, that a chain's active job is the
one that was not announced (`OneOpenJobPerChain`), and that a thread whose
numbers are those of a running job's row is the only one, because a claim
always raises them (`OneWorkerFinishes`, `StaleWorkersWriteNothing`).
`NothingAfterClose` follows for each step. `LInv` adds that versions and
products are numbered without gaps and which row refers to which; its step
needs the counting of the rows that a coordination of several jobs adds, which
is most of the proof. `ChainsAreLogged` and the refinement
`EachJobIsDecidedOnce` follow.

`AnswerTurnsProofs` (under `TurnAssumption`): the invariant relates keys to
products in both directions, bounds what a client may carry by what the chain
has been (its token is not above the chain's, so that two clients with a
chain's current token are one), and says that a chain's products follow one
another. All six properties of the run are proved.

`PortfolioReviewProofs` (under `ReviewAssumption`): a review does not change
while its principal is locked and the snapshot does not while its directory is,
which gives `NothingIsLost` and `ConfirmsWhatIsPending` although nothing is
locked between preview and confirmation. `TakesEffectOnce` needs the history of
candidates: until it is published a candidate is compared with one snapshot
only, and once it is, that snapshot is gone and can only come back through an
operator; whatever a turn or a review still keeps of it fails its comparison.

`AdjudicationInboxProofs` (under `InboxAssumption`): what was open when the day
began can only be resolved during the day, so every list taken today contains
what is left of it, and a record under today's date stands for an accepted list
of today (`SilenceIsInformed`).

`CaptureLeaseProofs` (under `LeaseAssumption`): the invariant says that a
process inside a call works on a run of its own that nobody else has, and that
clock readings are not older than the last step, from which the order of the
observations follows. `CaptureIngestProofs` (under `IngestAssumption`): the
invariant says at which step of the ingest which phase, file and lease can be,
and that a plan was made when the manifest it names was there.

Proved only: that two copies are never accepted (`AtMostOnce`), that a sender
keeps its claim (`SenderHoldsClaim`), `DispatchesOwnProduct`, `VersionsStay`,
`OneLiveWorker`, `ActiveIsUnannounced`, `OneLiveTurn` and the type invariants of `AnswerTurns` and `CaptureIngest` hold
for all values of the constants and are not repeated in the runs.

Every safety invariant and action property of the runs is stated by a theorem.
Only model-checked: the liveness properties, which with fairness and `ENABLED`
are beyond the prover. Induction over data is not needed: no module has a
recursive operator.

## 6. What the models leave out

Rendering, product content and its validation, file modes and path checks,
schema migration, the ledger's own attempts, the wording of errors, and exit
codes other than the one that triggers the second attempt. A product, its text
and its hash are one thing. SQLite transactions are atomic and isolated, as
`BEGIN IMMEDIATE` makes them. The platform is assumed to honour return code 2
of the send command as "not and never accepted", which is how `dispatch` uses
it. Message ids are unique.

Of the semantic state: content and hashes of contracts, inputs and products,
principals (each acts on chains of its own), the guidance revision checked at
admission, the runtime handle and session rows, investment memory, the run
ledger. Of the capture: the browser and the page, the derivation of the working
set from the sources, the audit, captures that failed on their own side, the
identity checks on files and directories, schema migration and the operator's
tools.

Of portfolio reviews: how a candidate is read from a screenshot or a message,
its validation and rendering, mode, owner and identity checks of files, the
audit of receipts. Of the inbox: the contents and rendering of items and
digests, the audit lines, and the tools that act on scores and drafts once the
owner has decided.

The components listed as not modelled in `PROJECT.json` are either pure
functions and I/O, or candidates of the plan.
