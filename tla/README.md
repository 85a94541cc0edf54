# A TLA+ verification of Hivy (hiveloop)

This directory holds TLA+ models of the parts of Hivy whose correctness depends on the order in
which concurrent things happen, the TLC runs that check them on small instances, and TLAPS proofs
of all the safety properties these runs find to hold, and of the refinement between the two ledger
modules, for every size of instance. `PROJECT.json` is the index: which
definition models which source lines, which run checks which property, which mutation of the model
each property catches, and the hazards of the code.

## 1. The system

Hivy is a Go control plane (`src/internal`, `src/cmd/server`) with a PostgreSQL database, Redis and
an asynq task queue, a Next.js web application (`src/apps/web`), and a Rust runtime that executes
agents inside sandboxes (`src/sandboxes/runtime/crates`). API servers, workers and periodic tasks
run as many processes; they meet in PostgreSQL rows, Redis keys and the task queue.

| Component | State | Operations | What is hard |
|---|---|---|---|
| Subscription life cycle (`billing/subscription`, `handler/billing*.go`, `tasks/billing_renewal.go`) | `subscriptions`, `subscription_change_quotes`, `orgs.plan_slug`, the renewal task | hourly sweep, renew, cancel, resume, preview, init-upgrade, apply, checkout, verify | charge before lock, unlocked reads saved back, repeated requests, tasks that die |
| Credit ledger (`billing/credits*.go`) | append-only `credit_ledger_entries` | grant, spend, balance, expiry sweep by replay | concurrent spends, retries, grants that become visible late |
| LLM usage billing (`tasks/billing_batch_*.go`) | `generations`, ledger debits | select a batch, lock orgs, debit, mark rows | concurrent batches, rounding, lock order, short balances |
| Event bus (`streaming/bus*.go`) | Redis stream per conversation, taps and subscribers per pod | publish, subscribe, backfill, broadcast, evict, detach | attach against broadcast, teardown against attach, slow readers |
| Stream flusher, chunks, cleanup (`streaming/flusher*.go`, `cleanup.go`) | consumer groups, accumulators | move events to PostgreSQL, trim | crash between copy and trim |
| RAG ingestion (`rag/scheduler`, `rag/tasks`, `handler/rag_sources_*.go`) | `rag_sources`, `rag_index_attempts`, the task queue, the vector store | scan, reserve, enqueue, claim, ad hoc sync, batch, finalise, watchdog, prune, pause, delete | crash between reserve and claim, watchdog against slow worker, delete before write, moving window |
| Credential cache (`cache`, `proxy/director.go`, `credentials/global_llm_seed.go`) | memory tiers per pod, Redis, `credentials` | look up, promote, rotate, revoke, invalidate, expire | repopulation after invalidation, lost pub/sub, shared lookups |
| Employee sandboxes (`sandbox/orchestrator*.go`, `tasks/employee_sandbox_*.go`, `handler/employees_{upgrade,sync}*.go`, `tasks/employee_trigger_dispatch.go`) | `sandboxes`, `employee_sandbox_upgrades`, provider resources, the database inside each sandbox | upgrade in eight phases, roll back, retire, deliver, sync, health check | a failure in any phase, racing requests, stale health answers, a deletion a day later |
| Runtime sessions and scheduler (Rust: `runtime/src/{session_coordinator,handler,scheduler}.rs`, `storage/src/sqlite/cron.rs`) | session map in memory, `cron_jobs` in SQLite | submit or queue, run a turn, delegate, notify, complete, drain, finish, poll, dispatch, clean up | look-up and insert in two steps, notification against completion, leases, restarts |
| Request counters (`counter`, `middleware/remaining.go`, `mcpserver/builder.go`) | Redis counters, `remaining` and `last_refill_at` of tokens and credentials | seed, decrement, undo, lazy refill | racing refills, a late seeding or undo, lost replies, fail-open |
| Specialist tasks (`specialisttasks`) | task rows, runtime sessions | launch, message, terminate | one step of several failing |
| Gateway, outbox, warm pool | routes, outbox rows, warm slots | routing, delivery, claiming | at-least-once delivery, restarts |

Components interact through the database (Verify, renewal and apply all write the subscription and
the org row), through the ledger (renewals and upgrades grant what batch billing and RAG ingestion
spend) and through Redis (cached credentials and request counters of all API servers, the event
streams that pods fan out).

What makes each modelled component correct:

- *Subscription*: a payment is turned into credits and a plan change once; the org's plan slug is
  backed by a live subscription; a due subscription is eventually settled.
- *Ledger*: the balance never goes negative; a key debits once; the replay that decides what a sweep
  forfeits accounts for every credit.
- *Batch billing*: what an org pays is the rounded sum of what it was billed for; rows and ledger
  agree; batches cannot deadlock.
- *Event bus*: order, no duplicates, losses only where the client can recover; no leaked reader, no
  subscriber left on a dead one.
- *RAG ingestion*: one run writes a source at a time; what the index lacks is read by the next run;
  attempts end and due sources are served.
- *Credential cache*: a rotated or revoked key disappears from every tier; a lookup ends, with the
  key it resolved.
- *Request counters*: no counter lets more requests pass than its cap and its refills; a refused
  request costs nothing.
- *Employee sandboxes*: what a runtime accepted survives upgrades, rollbacks and retirements; an
  active upgrade is always somebody's to settle.
- *Runtime sessions*: a delegate's result reaches the conversation that waits for it; a reserved
  session has a handler; jobs run as often as asked; handlers end.

## 2. Modules

| Module | Models | Used by |
|---|---|---|
| `Subscription` | the whole life of one org's subscriptions | `MCSubscription`, `SubscriptionProofs` |
| `CreditAccount` | what the ledger promises: a balance and used keys | `CreditLedger` (INSTANCE) |
| `CreditLedger` | one org's ledger | run directly, `BillingProofs` |
| `BillingBatch` | the batch worker | `MCBillingBatch`, `BillingProofs` |
| `EventTap` | one conversation on one pod | run directly, `EventTapProofs` |
| `RagIngest` | one RAG source, its workers and its upstream | run directly, `RagIngestProofs` |
| `SandboxUpgrade` | one employee's sandboxes | run directly, `SandboxUpgradeProofs` |
| `CredentialCache` | one credential on several pods | run directly, `ProxyProofs` |
| `RequestCounter` | the request caps of a credential and its proxy tokens | `MCRequestCounter`, `ProxyProofs` |
| `SessionTurns` | one runtime process and its job table | run directly, `SessionTurnsProofs` |
| `<component>Proofs` | theorems about the component's module, with the lemmas they rest on | - |
| `BillingProofs` | the same for `CreditLedger` and `BillingBatch` | - |
| `ProxyProofs` | the same for `CredentialCache` and `RequestCounter` | - |
| `Sums` | lemmas about sums over finite sets | `BillingProofs` |

`CreditLedger` and `RequestCounter` name their specification `LedgerSpec` and `CounterSpec` (and so
on for `Init`, `Next`, `vars` and `TypeOK`), because their proofs share a module with another
component's.

Definitions keep the names of the Go functions where one action models one function. An operator
whose comment starts with "Mutant:" is a plausible bug, defined next to what it would replace and
used by nothing else.

### Subscription

A step is what other transactions cannot see inside: a transaction that takes its row locks before
it reads is one step; a read without a lock is a step of its own, and the value read travels in the
request (`call`) or the worker (`job`) and may be stale when it is used.

- `row`, `org`, `quote`, `granted`: the tables. `row[s].end` is the ticks left of the period, `tried`
  says that `last_renewal_attempt_at` is within the last hour, `auth` that a reusable authorization
  is stored.
- `job[s]`: the task `billing-renew-<id>`. asynq's `TaskID` admits one per subscription in any queue
  state; `MaxRetry(0)` archives one whose worker dies (`Crash`). `RenewLoad` is `Renew` up to its
  decision, the other worker actions are the functions it calls. `chargeAuthorization` is the
  provider call, before any lock. A database fault after the load is logged and ends the task
  (`RenewError`).
- `call[c]`: an API request. Verify is `VerifyLoad` (unlocked read of the existing row), `VerifyLock`
  (save of the row and update of the org, which lock both, then the ledger look-up) and
  `upsertFreshSubscription` (insert and commit), or `VerifyAbort`. Apply, Cancel and Resume are a
  load and a write.
- `pay[r]`: what the provider will say of a reference. `PayCheckout` and `PayUpgrade` are the
  customer paying what `CreateCheckout` and `InitUpgrade` asked for; amounts are prorated as in
  `proration.go`, rounded half to even.
- `applied`, `prepaid`: history variables, read by properties only.

Time is relative and one tick is `RenewalRetryInterval` (an hour): longer than any request, a worker
run (two minutes) or a quote (15 minutes), so `Tick` waits for running requests and workers and
expires open quotes. `PreviewChange` also chooses a half tick so that proration has more than whole
values.

### CreditLedger

`entries` is the ledger in `created_at` order. Spend and the sweep lock the org row first, so each
is one step. A grant locks nothing: it takes its place when inserted (`GrantWithTx`) and becomes
visible when the caller commits (`GrantCommits`), maybe after later entries. `deductSpend` gives the
cascade over buckets in closed form; `replayed` is the buckets after each entry, got by applying
`replayEntry` one entry after the other as the Go loop does. `SweepOrgExpiredGrants` appends an expiry entry
for every bucket that has expired with something left, in the order of the grants.

`CreditAccount` is the abstract specification: deposits and withdrawals at most once per key, no
overdraft, forfeits from what is there. The ledger implements it under the mapping *balance* = the
sum of the visible entries, *deposited* and *withdrawn* = the keys of visible grants and spends; an
uncommitted grant, the clock and the buckets are invisible to the account.

### BillingBatch

A worker selects rows with `FOR UPDATE SKIP LOCKED`, then locks one org per step in id order,
reading and deciding under the lock, then commits everything (`Commit`) or nothing (`Rollback`).
`ChangeBalance` stands for the ledger's other writers. Costs are whole parts of a credit.

### EventTap

One tap's loop (`XRead`, `broadcast`, `Advance`, `Exit`), and one `Subscribe` goroutine per client.
Every critical section, channel operation or Redis call is a step: in particular a broadcast and the
cursor update that follows it are two, and `detachSubscriber` is three. An ended tap nobody refers
to may be used again as a new one, which keeps the instance small.

### RagIngest

A step is one transaction or statement, one vector-store call or one document read from the
connector. `source` and `attempt` are the tables (all terminal attempt statuses are `ended`, a
settled row nobody holds is reused as the next new one), `tasks` the queue, `worker` the ingest
workers, `upstream` and `index` the two copies of the documents. `HandleIngest` is `LoadSource`
(the row is read before the attempt is opened and its status written back at the end), the claim or
ad hoc creation under the source's row lock, `FetchDocument`, `ClearStaleParts` and `UpsertBatch` per
batch, and `FinalizeAttempt` and `FinalizeSource`, which are two statements. Ages are in ticks; the
poll window is kept as the set of documents whose last change the next window covers (`reach`).
`blame` and `orphans` are history: the documents and reservations the code gives up, one way each.

### SandboxUpgrade

`box` has, for each sandbox, its row, its provider resource and the messages in its database. The
upgrade worker's phases are actions in the order of `run`; each may fail (`PhaseFails`), after which
`UndoNew` and `UndoOld` are `fail()`; `WorkerCrashes` and `WorkerTimesOut` skip them. `slot` is the
one task asynq admits for the employee. `StartSandboxUpgrade` is check, clear, create and enqueue.
Deliveries read the newest row without error, start it if it is stopped and post, in separate steps.
The health check writes an answer that may be old.

### CredentialCache

A key is its version number. A request reads the row (`ById`), then the pod's memory, and on a miss
leads or joins the pod's flight; the leader reads Redis, then the database, stores and promotes.
`buf` says whose result buffer a request holds, so that the director's zeroing of a shared buffer is
visible. The seeding invalidates before it commits, the revocation after; either may lose Redis or
pub/sub. Entries age with `Tick` and leave at their expiry.

### RequestCounter

A step is one call of Redis or Postgres. `counter` is the Redis values, `quota` the rows: `refills`
counts the writes of `last_refill_at`, which is all its optimistic lock compares, and `due` says that
the interval since then has ended. A request (`call`) is the middleware `RemainingCheck`: `Decrement`
is the Lua script on the token's counter and then on the credential's; a counter at zero leads to
`LoadRow`, `UpdateRow`, `SeedRefill` (`CheckAndRefillToken`, `CheckAndRefillCredential`) and one retry;
`Undo` gives the token's unit back when the credential refuses, or cannot be asked and the request is
served all the same. An MCP call asks the token's counter only and refills nothing. A missing key lets
a request pass. `DecrementFails`, `RefillFails`, `UndoFails`, a failed seeding, `ReplyLost` (the Redis
client repeats a command), `CounterLost` (a dropped key or an expired TTL), `Reseed` (the start of
another server) and `Crash` are the failures. `call[c].paid`, `extra` and `lost` are history: who has
taken a unit of which counter, units a reseeding or a repeated command added, keys that went.

### SessionTurns

`map` is the coordinator's session map, whose look-up and insert are two steps. One handler task per
event runs turns until the queue is empty, no delegate is active and no background process runs.
During a turn of the main session jobs of every kind may be created or managed. The scheduler
advances, dispatches and cleans up one job after the other. A restart empties everything but
`cron_jobs`. `disturbed` is history: which of the six situations the code gives no guarantee in has
occurred.

## 3. Runs

| Run | Question | Result |
|---|---|---|
| `sub_safety` | two rows, two payments, one quote, two concurrent requests: types, validity of carried reads, single grants, slug backing | holds, 1.0M states |
| `sub_live` | two requests race to apply one quote; a due row is settled | holds, 0.18M states |
| `sub_charge` | is Renew idempotent across replays, as `renew.go` says? | no |
| `ledger` | refinement of the account, replay, expiry | holds, 0.14M states |
| `batch` | cumulative debit, allocation, overdraft, lock order | holds, 0.6M states |
| `tap` | order and losses, teardown, leaks; caught up or closed | holds, 0.56M states |
| `rag` | one writer, nothing missed by the window; attempts end, due sources are served | holds, 0.1M states |
| `upgrade` | durability, hand-over, driven upgrades | holds, 3.2M states |
| `cache` | nobody waits for a flight without a leader; stale keys die out, lookups end | holds, 0.18M states |
| `cache_wipe` | does every caller get the resolved credential, as `cache.go` says? | no |
| `turns` | results, repetitions, ownership, termination | holds, 31k states |
| `counter` | caps hold in racing refills, refusals are free | holds, 0.17M states |

The two negative answers are recorded under "findings" with the sentences they contradict:

1. A charge whose bookkeeping fails is taken again by the next sweep.
2. Requests that share a singleflight lookup share its key buffer, and the first director zeroes it.

**Bounds.** `sub_safety` has two rows because several behaviours need a second active one (a checkout
for another plan, a cancel that picks the newest), two references and two requests in flight because every race is
between two, and three API calls, enough for two racing requests and the one that set the scene.
`Period` 1 and `MaxOverdue` 0 let periods end often. `sub_live` takes one row, one payment, one quote
and the four calls a race to apply needs (verify, preview, two applies), with two in flight, a period
of two and at most one tick overdue: a renewal extends the old period end, so only an outage shorter
than a period lets one charge catch up. One payment presented for two quotes needs a fifth call and
is left to the theorem `UpgradesOnce`. Retries are capped at two instead of five. `ledger` allows
four inserts besides the expiry entries (a late grant, another grant, spends) and three instants
around two expiries. `batch` has five generations of two orgs with costs of 0, 1, 3 and 5 quarters of
a credit and batches of two, so every org is billed in several batches whose fractions do not add up
to whole credits. `tap` has two clients and two taps (one ending while its successor runs), a
channel of capacity one and reads of two, with the three events a hole in the middle
needs. `rag` has two workers and two attempt rows, the
least that lets a second run start while the first is still about to update the source, one document
(documents do not interact but for the batch) and one event (user calls, prunes, upstream changes,
failures, crashes), which is what its liveness properties can be checked with in minutes. Every way to
lose a document needs at most two events: its safety properties were also checked with two (0.9M
states) and three (4.8M), with two documents and one event (0.5M), and are proved for any number. `upgrade` has three sandboxes, two upgrades, two requests, one message and three
faults: an upgrade on top of an upgrade while the first one's retirement is due, and the three faults
it takes to bring a superseded sandbox back into use. `cache` has two
pods, of which one rotates and revokes, two requests, two key versions and one fault. `turns` has one
message, one job of any kind, three dispatches and one fault; its safety properties were also checked
with two messages (1.0M states). `counter` has one token and its credential, which allow two requests
and one and are refilled by one: three requests exhaust both and race to refill them, two intervals
let a late seeding or undo meet a second refill, and two failures let one hide another. `CHECK_DEADLOCK FALSE` is set except for `RagIngest`, whose clock
always goes on, because bounded calls, events and deposits run out.

**Fairness.** `Subscription`: the periodic sweep, the workers and time go on (WF), requests finish
(WF), and what every attempt is ready to do is done by one of them in the end (SF on `Charge` and
`Settle`), because a database that faults on every attempt for ever is an outage and not a schedule. No fairness on
customers, crashes or archive trimming: `DueSettles` therefore admits the archived task, which really
does block the row. `EventTap`: goroutines are scheduled and a connected client reads (WF); nobody
has to publish, join or leave. `RagIngest`: the scan, the watchdog, workers and the clock go on (WF)
and Redis is not down at every enqueue for ever (SF); failures, crashes and users are not obliged.
`CredentialCache`: calls return, the subscriber loop runs, time passes (WF). `SessionTurns`: tasks and
the poll run and leases end (WF), and background processes are not found running at every look for
ever (SF of `CheckIdle`). `RequestCounter`: a handler that was started goes on (WF). `BillingBatch`, `CreditLedger`,
`SandboxUpgrade` and `RequestCounter` are checked for safety only: an upgrade whose worker died really
never ends.

**Exceptions the properties name.** Several properties admit cases the code does not handle, by
name and no wider; each is a behaviour of the code worth knowing.

- Subscription: a worker or request that read a row while it was active writes `active` over a
  cancellation; an upgrade applied to a past-due row re-activates it with its attempts used up, and
  the sweep's filter then hides it.
- Batch billing: a batch the balance cannot pay is written off as a whole, so the split of the same
  generations over ticks decides what is charged.
- Event bus: an event broadcast between another subscriber's attach and the cursor update is lost to
  it.
- RAG (`IndexCatchesUp`, `DueIsServed`): a run longer than the overlap moves the window past what
  changed meanwhile, because the time stamped is that of the finalisation; a non-full `TriggerSync`
  after a finished run resumes a finished checkpoint, reads nothing and moves the window; a recorded
  listing error moves it too; a run that dies between clearing and writing, and a prune that listed
  upstream before a document came, leave it out of the index until it changes; a reservation whose
  scan, connector or worker failed before the claim blocks its source, since the watchdog looks at
  `in_progress` only. A status read at the start and written at the end undoes a pause. Deleting a
  source leaves its points: `rag_sources_delete.go` leaves them to a prune that selects existing
  sources only. `OneWriter` rests on `TaskTimeout <= WatchdogTimeout`, which is an assumption of the
  module: asynq's default of 30 minutes against `RAG_WATCHDOG_TIMEOUT`.
- Upgrades (`lost`, `fallen`, `exempt`): a crash, a timeout, or a racing request that deletes the
  first one's pending task leaves an upgrade active for ever; a crash before the restore leaves an
  empty new sandbox current; messages accepted between backup and hand-over stay in the old sandbox.
  A sandbox that was replaced can come back into use (its successor is lost and it is the newest row
  without error), and the retirement that is still due a day later deletes it if it finds it stopped:
  because a health check calls it so, because a second upgrade has paused it, or because that upgrade
  gave up and left it paused.
- Request counters (`extra`, `lost`, and `failures` in `RefusalsAreFree`): a dropped key or one whose
  first seeding failed lets everything pass until the next refill; a command that Redis ran and the
  client repeats, and a server start that reseeds the credential, add units. Two things are no
  violation of the caps, because they err on the other side: the loser of a race to refill, and who
  read the row just after another's refill, is refused although the counter has been refilled (only the
  winner tries again); and a refill whose seeding fails has used up its interval all the same.
- Runtime (`disturbed`): an entry may be inserted over the one of a handler at work, by a second
  message between look-up and insert or by a late notification, and takes its queue (`overlap`); a
  notification that finds its session idle reserves it with nobody running, and later messages are
  queued for ever (`unanswered`, the only exception of `ReservedIsOwned`); a restart forgets what was
  queued (`restart`); an unreadable job table counts as no delegates (`unreadable`); the sub-agent of
  a delegate that left the registry after an earlier run was sent completes it silently (`missing`);
  cancelling, pausing or resuming a delegate drops or repeats it (`managed`); a stale recurring job
  never runs again.

## 4. Proofs

Each theorem holds for every value of the constants that the module's own named `ASSUME` admits, and
uses no other assumption. Each component's theorems follow from one inductive invariant (`IndInv`;
`LedgerIndInv`, `CounterInv` and `CacheInv` where two components share a module),
proved initial and preserved with one lemma per action (and, where an invariant has several parts, per
part). None of the properties is inductive alone; what follows says what has to be added, and why.

| Module | Theorem | States |
|---|---|---|
| `SubscriptionProofs` | `Invariance` | `Spec => []IndInv` |
| | `TypeCorrectness` | `Spec => []TypeOK` |
| | `ReadsStayValid` | `Spec => []CarriedFacts` |
| | `PlanSlugIsBacked` | `Spec => []PaidPlanIsBacked` |
| | `GrantsOnce` | `Spec => []OneGrantPerReference` |
| | `UpgradesOnce` | `Spec => []UpgradeAppliedOnce` |
| `BillingProofs` | `LedgerTypeCorrect` | `LedgerSpec => []LedgerTypeOK` |
| | `ReplayConservesBalanceHolds` | `LedgerSpec => []ReplayConservesBalance` |
| | `SweepIsExactHolds` | `LedgerSpec => SweepIsExact` (an action property) |
| | `ImplementsAccountHolds` | `LedgerSpec => ImplementsAccount` (the refinement of `CreditAccount`) |
| | `TypeCorrect` | `Spec => []TypeOK` (here and below, of `BillingBatch`) |
| | `LocksAreOrderedHolds` | `Spec => []LocksAreOrdered` |
| | `BalanceNonNegativeHolds` | `Spec => []BalanceNonNegative` |
| | `DebitIsCumulativeHolds` | `Spec => []DebitIsCumulative` |
| | `RowCreditsMatchLedgerHolds` | `Spec => []RowCreditsMatchLedger` |
| `EventTapProofs` | `TypeCorrect` | `Spec => []TypeOK` |
| | `LossOnlyAtAttachHolds` | `Spec => []LossOnlyAtAttach` |
| | `NoLeakedTapHolds` | `Spec => []NoLeakedTap` |
| `RagIngestProofs` | `TypeCorrect` | `Spec => []TypeOK` |
| | `OneWriterHolds` | `Spec => []OneWriter` |
| | `IndexCatchesUpHolds` | `Spec => []IndexCatchesUp` |
| `SandboxUpgradeProofs` | `TypeCorrect` | `Spec => []TypeOK` |
| | `ActiveUpgradeIsDrivenHolds` | `Spec => []ActiveUpgradeIsDriven` |
| | `AcceptedIsDurableHolds` | `Spec => []AcceptedIsDurable` |
| | `CurrentHasEverythingHolds` | `Spec => []CurrentHasEverything` |
| `SessionTurnsProofs` | `TypeCorrect` | `Spec => []TypeOK` |
| | `ReservedIsOwnedHolds` | `Spec => []ReservedIsOwned` |
| | `ResultReachesParentHolds` | `Spec => []ResultReachesParent` |
| | `NoExtraRunsHolds` | `Spec => []NoExtraRuns` |
| `ProxyProofs` | `CounterTypeCorrect` | `CounterSpec => []CounterTypeOK` |
| | `QuotaHoldsAlways` | `CounterSpec => []QuotaHolds` |
| | `RefusalsAreFreeAlways` | `CounterSpec => []RefusalsAreFree` |
| | `CacheTypeCorrect` | `Spec => []TypeOK` (of `CredentialCache`) |
| | `WaitersAreLedAlways` | `Spec => []WaitersAreLed` (a conjunct of that `TypeOK`) |

**Subscription** (`TypeOK /\ CarriedFacts /\ PaidPlanIsBacked /\ OneGrantPerReference /\ AppliedFacts`).
A write uses a row, quote or reference read earlier, so even types need `RequestFacts` and
`QuoteFacts`. `PaidPlanIsBacked` needs that the row a Verify saves back was active and of the paid
plan, and that a worker on its way to the free plan carries that plan. `OneGrantPerReference` needs
`LockFacts`: a Verify past its org update is the holder of the org row, and what it read of the ledger
is still true, since the only other writers wait for that row. `UpgradeAppliedOnce` needs
`AppliedFacts`: a plan change left its mark on a consumed quote, and the reference that paid for it is
stored there, where the unique index sees it.

**CreditLedger** (`Wellformed /\ Covered /\ OneGrant`, and the range of the clock). A replay loses
credit only where a spend finds less in the buckets than it takes, or an expiry more than its bucket
holds. `Covered` says that neither happens at any entry. A spend or a sweep appends entries it has
just computed from the replay, so it is covered; the hard step is a grant that commits *behind* later
entries and so changes the replay of all of them. `Monotone` shows that a grant more leaves every
bucket at every later entry with at least as much as before, which keeps every later entry covered.
From `Covered`, `Conserves` gives that the buckets sum to the balance (`ReplayConservesBalance`), and
`SweepReplay` and `SweepLeaves` that the rows a sweep appends empty the expired buckets and touch no
other (`SweepIsExact`). The refinement maps `GrantCommits` to a deposit (a key is deposited once by
`OneGrant`), a spend to a withdrawal and a sweep to a forfeit; an insert not yet committed, an abort
and the clock are stutters. The balance of the account is a sum over the entries, so the lemmas of
`Sums` carry most of it.

**BillingBatch** (`TypeOK /\ Exclusive /\ Locked /\ Planned /\ Unpaid` with the three ledger
properties). A worker's plan is made org by org and used at the commit. `Exclusive` says that no two
workers hold the same row or the same org, `Locked` which orgs a worker has locked and which are left,
all greater, and `Planned` that a delta it computed is still what its rows cost and what the balance
can pay: the org's lock kept everyone else from changing either. `LocksAreOrdered` follows from
`Locked`: a worker waits only for orgs greater than those it holds. `RowCreditsMatchLedger` needs that
the fractions allocated to rows sum to the whole debit, which is `DebitRange` (the debit is at
least the whole credits of the rows and at most one more for each of them), `RankCount` (exactly k rows
have fewer than k rows before them in the order of the fractions) and `Allocation` (so every credit
of the debit is handed out once).

**EventTap** (`TypeOK /\ Registered /\ Ordered`). `Registered` ties the two ends of a subscription
together: a client listed in a tap has that tap, and a tap whose loop runs has a client; `NoLeakedTap`
follows from it. `Ordered` says what is on its way: the channel holds consecutive events, the first
follows what the client got, and the next broadcast follows the last, with one gap allowed where the
client attached (`LossOnlyAtAttach`).

**RagIngest** (`TypeOK /\ Exclusion /\ Coverage`). The watchdog only sees how long an attempt has been
idle. `Guarded` says that this is never longer than the age of the run that owns the attempt, so with
`TaskTimeout <= WatchdogTimeout` a run ends before its attempt can be taken from it, and `OneWriter`
follows. `IndexCatchesUp` needs what a run still has to write for every document the index lacks
(`LoadedCovers`, `RunCovers`), and `OneWriter` itself for the batch it has cleared and not yet written
(`Cleared`).

**SandboxUpgrade** (`TypeOK /\ Tasked /\ Made /\ Saved /\ Durable /\ Current`). `Tasked` says which
upgrade the queue, the requests and the worker refer to. `Made` says which sandboxes each actor has in
hand, and that the worker's new one is nobody else's. `Saved` says that the backup covers the old
sandbox until the new one does. `Durable` strengthens `AcceptedIsDurable`: each message is in a sandbox
that nobody may delete any more, now or when its retirement comes. `Current` says that, as long as
nothing has changed which sandbox is current, the one deliveries reach has every message.

**SessionTurns** (`TypeOK /\ Numbered /\ Owned /\ Results /\ Paid`). `Numbered` gives each dispatch of
a job its number, and what the scheduler has listed its row. `Owned` is stronger than `ReservedIsOwned`:
a job's own session has a handler also after a notification that nobody answered. `Results` says that a handler which delegates keeps the conversation's entry
until no delegate is active and is alone with it, so that a recorded result finds somebody to take it.
`Paid` is an account: a delegate that can be listed again has paid a fault for every run so far,
unless a run under way is sure to complete it.

**RequestCounter** (`CounterTypeOK /\ CallsInOrder /\ RefillsInOrder`, and `Balanced` and `Conserved` of
every counter). A cap is a claim about who passed, and the code nowhere keeps that: the units are in the
row, in a request that has claimed a refill and not yet seeded it, in Redis, or with a request.
`Balanced` bounds the sum of all four by the cap and the refills claimed; a seeding or an undo that comes
late does not break it, since a seeding overwrites whatever it finds and an undo adds only the unit its
request still holds. `RefillsInOrder` says that each claim used up an interval: whoever still holds the
version of the row has seen it due, so two requests cannot both claim it, and `QuotaHolds` follows.
`Conserved` is the converse until the first refill: a unit missing from Redis is with a request that
was or may be served, or a failure took it (`RefusalsAreFree`). `CallsInOrder` is what makes both
inductive: a request has not yet paid the counter it asks, and undoes only what it has paid.

**CredentialCache** (`LookupsOK /\ TiersOK`). A pod's flight and the requests that wait for it are
separate state: `Led` says that a pod's flight is led by exactly the request that resolves there, and
`WaitersAreLed` that somebody leads it as long as anybody waits; the two hold together, over every way a
lookup may end (`FlightLands`). `HeldKeys` says that a returned key is in some request's buffer. `TiersOK`
is the types of the rest: no entry of a tier outlives its expiry, and a seeding knows the version it
will commit.

**Sums.** What `SumFunctionOnSet` computes for any finite set: one element removed, a set split in
two, two functions compared, bounds. The fold's order is fixed by `CHOOSE` and plays no part. The
inductions, here and over the entries of a ledger, are on the least natural number for which the claim
would fail, so they need no induction rule with an operator parameter.

Two results of the proofs went back into the models. `AcceptedIsDurable` was not inductive: the
strengthening failed where a superseded sandbox is in use again and its old retirement is due, and TLC
then found the loss with three faults (now in `exempt`, and the bound of the run). `ReservedIsOwned`
turned out to hold also when two handlers were given one session, and its exemption for that was
dropped.

Only model-checked:

- liveness: `DueSettles`, `DeliveredOrClosed`, `RunsEnd`, `DueIsServed`, `StaleKeysDieOut`, `LookupsEnd`,
  `HandlersEnd`, `DelegatesSettle`. Fairness and `ENABLED` are out of the prover's reach.

Every invariant and action property of a passing run is a theorem.

## 5. Not modelled

- Several orgs, currencies, card data, error texts, HTTP status codes: no property depends on them.
  Orgs share no rows; `BillingBatch` has several because its locks do span them.
- Clock skew between servers (ledger order), int64 overflow of proration (bounded by the comment in
  `proration.go`), floating-point cost sums (costs are exact parts).
- Stream trimming under a running backfill, and a panic inside a tap.
- RAG: permission sync, website credits, embedding budgets, connectors other than GitHub's.
- Sandboxes: the warm pool, specialist sandboxes, templates, URL refresh, quota of the provider.
- Cache: the DEK tier (a cached DEK of another version fails to decrypt and is replaced, so it shows
  only as a KMS call), API-key and other caches.
- Runtime: the text of turns, SSE streams of a turn, the SQLite backup, panics inside a turn.
- Stream flusher, chunk accumulator and stream cleanup: they empty the streams that `EventBus.Publish`
  fills, and nothing outside the tests calls that at this commit.
- The runtime's outbox and event queue, specialist tasks, the warm pool and refresh-token rotation: they
  have a protocol, and are candidates for further modules.
- Every other component with status `not_modelled` in `PROJECT.json`, each with its reason. The API
  handlers are CRUD over single rows; generated clients, the model registry, the web application and
  the agent's tools hold no protocol of their own. They are most of the repository's lines.

## 6. Plan

1. Done: `Subscription`, `CreditLedger` with `CreditAccount`, `BillingBatch`, `EventTap`, `RagIngest`,
   `SandboxUpgrade`, `CredentialCache`, `SessionTurns`, `RequestCounter`, and the proofs of all their
   safety properties.
2. Proofs left: only the safety facts on which `StaleKeysDieOut` rests (an entry older than the row
   is in no tier once its expiry has passed) would bring the proofs closer to the liveness properties.
3. Candidates for further modules: the Rust outbox with `DatabaseEventQueue`, specialist tasks, the warm
   pool, refresh-token rotation, and the stream flusher composed with `EventTap` once something
   publishes.
