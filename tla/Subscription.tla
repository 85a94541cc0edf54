---------------------------- MODULE Subscription ----------------------------
(***************************************************************************)
(* The life of one organisation's paid subscriptions: the hourly renewal   *)
(* sweep and its workers (internal/billing/subscription/renew.go,          *)
(* internal/tasks/billing_renewal.go), the API calls that verify a         *)
(* checkout, change the plan, cancel and resume (internal/handler/         *)
(* billing_verify.go, apply.go, cancel.go), the payment provider and the   *)
(* task queue.                                                             *)
(*                                                                         *)
(* A step is one database statement sequence that other transactions       *)
(* cannot see inside: a transaction that takes its row locks first is one  *)
(* step; a read without a lock is a step of its own, and what it read may  *)
(* be stale by the next one.                                               *)
(*                                                                         *)
(* Time is relative.  The unit, one tick, is RenewalRetryInterval (1h):    *)
(* longer than any request, any worker run (asynq Timeout 2m) and QuoteTTL *)
(* (15m).  A row's `end' is the ticks left in its period, <= 0 once due.   *)
(***************************************************************************)
EXTENDS Integers, FiniteSets, FiniteSetsExt

CONSTANTS
  MaxSubs,            \* bound: rows the org may ever have
  Plans, Free,        \* plan ids; Free is the plan with price 0
  NoPlan,             \* SQL NULL in pending_plan_id
  Price,              \* plans.price_cents
  MonthlyCredits,     \* plans.monthly_credits
  Refs,               \* provider references of customer-made payments
  NoRef,
  Quotes,             \* ids of subscription_change_quotes
  NoQuote,
  Callers,            \* API requests that may be in flight at once
  NoOne,
  Period,             \* RenewalPeriod / MonthlyPeriod, in ticks
  MaxRenewalAttempts,
  MaxOverdue,         \* bound: a period overdue by more counts as this much
  MaxCalls            \* bound: API calls made in a behaviour

Subs == 1 .. MaxSubs
NoSub == 0

ASSUME ConstantsOK ==
  /\ MaxSubs \in Nat \ {0}
  /\ Free \in Plans /\ NoPlan \notin Plans
  /\ Price \in [Plans -> Nat] /\ \A p \in Plans : Price[p] = 0 <=> p = Free
  /\ MonthlyCredits \in [Plans -> Nat]
  /\ NoRef \notin Refs /\ NoQuote \notin Quotes /\ NoOne \notin Callers
  /\ Refs \cap Quotes = {}
  /\ Period \in Nat \ {0} /\ MaxRenewalAttempts \in Nat \ {0}
  /\ MaxOverdue \in Nat /\ MaxCalls \in Nat

VARIABLES
  row,      \* the subscriptions table; status "none" is a row not yet inserted
  org,      \* orgs.plan_slug
  quote,    \* the subscription_change_quotes table
  granted,  \* credit ledger: grant entries per reference or quote id
  pay,      \* the provider's record of customer-made payments
  job,      \* the renewal task of each subscription: queue state or worker pc
  call,     \* each API request: its pc and what it has read
  holder,   \* the request whose transaction holds the org row's lock
  calls,    \* API calls still to be made (bound)
  applied,  \* history: plan changes made for each reference and quote
  prepaid   \* history: a renewal charge was taken for the current period end

vars == <<row, org, quote, granted, pay, job, call, holder, calls, applied, prepaid>>
-----------------------------------------------------------------------------
Clamp(t) == IF t < -MaxOverdue THEN -MaxOverdue ELSE t

Row == [plan : Plans, status : {"none", "active", "past_due", "canceled"},
        pend : Plans \cup {NoPlan}, end : Int, atEnd : BOOLEAN,
        attempts : Nat, tried : BOOLEAN, auth : BOOLEAN]

Quote == [st : {"none", "open", "expired", "consumed"}, sub : Subs \cup {NoSub},
          kind : {"upgrade", "downgrade"}, to : Plans, amount : Nat, credit : BOOLEAN,
          ref : Refs \cup {NoRef}]

Payment == [st : {"unpaid", "checkout", "upgrade"}, plan : Plans,
            amount : Nat, end : Int, auth : BOOLEAN]

JobPC == {"none", "queued", "archived", "cancel", "free", "past_due",
          "charge", "declined", "charged"}
Job == [pc : JobPC, target : Plans, attempts : Nat, end : Int]

CallPC == {"idle", "cancelEnd", "cancelNow", "resume", "verify", "verifyLocked",
           "upgrade", "downgrade"}
Call == [pc : CallPC, sub : Subs \cup {NoSub}, ref : Refs \cup {NoRef},
         quote : Quotes \cup {NoQuote}, snap : Row, seen : BOOLEAN]

NewRow == [plan |-> Free, status |-> "none", pend |-> NoPlan, end |-> 0, atEnd |-> FALSE,
           attempts |-> 0, tried |-> FALSE, auth |-> FALSE]
Idle == [pc |-> "idle", sub |-> NoSub, ref |-> NoRef, quote |-> NoQuote, snap |-> NewRow,
         seen |-> FALSE]
NoJob == [pc |-> "none", target |-> Free, attempts |-> 0, end |-> 0]

Init ==
  /\ row = [s \in Subs |-> NewRow]
  /\ org = Free
  /\ quote = [q \in Quotes |-> [st |-> "none", sub |-> NoSub, kind |-> "downgrade",
                                to |-> Free, amount |-> 0, credit |-> FALSE,
                                ref |-> NoRef]]
  /\ granted = [x \in Refs \cup Quotes |-> 0]
  /\ pay = [r \in Refs |-> [st |-> "unpaid", plan |-> Free, amount |-> 0,
                            end |-> 0, auth |-> FALSE]]
  /\ job = [s \in Subs |-> NoJob]
  /\ call = [c \in Callers |-> Idle]
  /\ holder = NoOne
  /\ calls = MaxCalls
  /\ applied = [x \in Refs \cup Quotes |-> 0]
  /\ prepaid = [s \in Subs |-> FALSE]
-----------------------------------------------------------------------------
(* Rows and locks.  A Verify transaction in flight has written its         *)
(* subscription row and the org row: another writer of either one waits.   *)

Active == {s \in Subs : row[s].status = "active"}
Due(s) == row[s].status = "active" /\ row[s].end <= 0

RowFree(s) == holder # NoOne => call[holder].sub # s
OrgFree == holder = NoOne

\* activeSubscription: newest active row; rows are inserted in index order.
activeSubscription == Max(Active)

Start(c, next) == /\ call[c].pc = "idle" /\ calls > 0
                  /\ calls' = calls - 1
                  /\ call' = [call EXCEPT ![c] = next]
Return(c) == call' = [call EXCEPT ![c] = Idle]

\* GrantWithTx: insert unless the look-up of (reason, ref_type, ref_id) found an entry.
ledgerEntryExists(x) == granted[x] > 0
GrantWithTx(x, seen) == granted' = [granted EXCEPT ![x] = IF seen THEN @ ELSE @ + 1]
-----------------------------------------------------------------------------
(* The sweep and the queue.  The task id billing-renew-<id> admits one     *)
(* task per subscription in any queue state, so Enqueue fails while a task *)
(* is queued, running or archived.                                         *)

\* Mutant: rows that end with their period are left to someone else.
DueUnlessCancelling ==
  {s \in Active : /\ row[s].end <= 0 /\ ~row[s].atEnd
                  /\ row[s].attempts < MaxRenewalAttempts /\ ~row[s].tried}

DueSubscriptionIDs ==
  {s \in Active : row[s].end <= 0 /\ row[s].attempts < MaxRenewalAttempts /\ ~row[s].tried}

Sweep(s) ==
  /\ s \in DueSubscriptionIDs
  /\ job[s].pc = "none"
  /\ job' = [job EXCEPT ![s] = [NoJob EXCEPT !.pc = "queued"]]
  /\ UNCHANGED <<row, org, quote, granted, pay, call, holder, calls, applied, prepaid>>

Running(s) == job[s].pc \notin {"none", "queued", "archived"}

\* A worker that dies or overruns its timeout: MaxRetry(0) archives the task.
Crash(s) ==
  /\ Running(s)
  /\ job' = [job EXCEPT ![s] = [NoJob EXCEPT !.pc = "archived"]]
  /\ UNCHANGED <<row, org, quote, granted, pay, call, holder, calls, applied, prepaid>>

\* A database fault after the load: the handler logs the error and the task ends.
RenewError(s) ==
  /\ Running(s)
  /\ job' = [job EXCEPT ![s] = NoJob]
  /\ UNCHANGED <<row, org, quote, granted, pay, call, holder, calls, applied, prepaid>>

\* An archived task is deleted by an operator or by archive trimming.
PurgeArchive(s) ==
  /\ job[s].pc = "archived"
  /\ job' = [job EXCEPT ![s] = NoJob]
  /\ UNCHANGED <<row, org, quote, granted, pay, call, holder, calls, applied, prepaid>>
-----------------------------------------------------------------------------
(* Renew: load without a lock, decide, then act on what was loaded.        *)

Target(r) == IF r.pend # NoPlan THEN r.pend ELSE r.plan

DecideRenewal(r) ==
  CASE r.status # "active"   -> "none"
    [] r.end > 0             -> "none"
    [] r.atEnd               -> "cancel"
    [] Price[Target(r)] = 0  -> "free"
    [] ~r.auth               -> "past_due"
    [] OTHER                 -> "charge"

RenewLoad(s) ==
  /\ job[s].pc = "queued"
  /\ job' = [job EXCEPT ![s] =
               IF DecideRenewal(row[s]) = "none" THEN NoJob
               ELSE [pc |-> DecideRenewal(row[s]), target |-> Target(row[s]),
                     attempts |-> row[s].attempts, end |-> row[s].end]]
  /\ UNCHANGED <<row, org, quote, granted, pay, call, holder, calls, applied, prepaid>>

Done(s) == job' = [job EXCEPT ![s] = NoJob]

\* Mutant: the org's plan is cleared instead of set to the free plan.
finalizeCancelClearsPlan(s) ==
  /\ job[s].pc = "cancel" /\ RowFree(s) /\ OrgFree
  /\ row' = [row EXCEPT ![s] = [@ EXCEPT !.status = "canceled", !.atEnd = FALSE, !.attempts = 0]]
  /\ org' = NoPlan
  /\ Done(s)
  /\ UNCHANGED <<quote, granted, pay, call, holder, calls, applied, prepaid>>

finalizeCancel(s) ==
  /\ job[s].pc = "cancel" /\ RowFree(s) /\ OrgFree
  /\ row' = [row EXCEPT ![s] = [@ EXCEPT !.status = "canceled", !.atEnd = FALSE, !.attempts = 0]]
  /\ org' = Free
  /\ Done(s)
  /\ UNCHANGED <<quote, granted, pay, call, holder, calls, applied, prepaid>>

transitionToFree(s) ==
  /\ job[s].pc = "free" /\ RowFree(s) /\ OrgFree
  /\ row' = [row EXCEPT ![s] = [@ EXCEPT !.status = "canceled", !.plan = job[s].target,
                                         !.pend = NoPlan, !.atEnd = FALSE, !.attempts = 0]]
  /\ org' = job[s].target
  /\ Done(s)
  /\ UNCHANGED <<quote, granted, pay, call, holder, calls, applied, prepaid>>

markPastDue(s) ==
  /\ job[s].pc = "past_due" /\ RowFree(s)
  /\ row' = [row EXCEPT ![s] = [@ EXCEPT !.status = "past_due", !.tried = TRUE]]
  /\ Done(s)
  /\ UNCHANGED <<org, quote, granted, pay, call, holder, calls, applied, prepaid>>

\* ChargeAuthorization, before any lock and without an idempotency key.
chargeAuthorization(s, ok) ==
  /\ job[s].pc = "charge"
  /\ job' = [job EXCEPT ![s].pc = IF ok THEN "charged" ELSE "declined"]
  /\ prepaid' = [prepaid EXCEPT ![s] = @ \/ ok]
  /\ UNCHANGED <<row, org, quote, granted, pay, call, holder, calls, applied>>

FailedRow(r, attempts) ==
  [r EXCEPT !.attempts = attempts, !.tried = TRUE,
            !.status = IF attempts >= MaxRenewalAttempts THEN "past_due" ELSE @]

\* The attempt count comes from the row as it was loaded.
recordChargeFailure(s) ==
  /\ job[s].pc = "declined" /\ RowFree(s)
  /\ row' = [row EXCEPT ![s] = FailedRow(@, job[s].attempts + 1)]
  /\ Done(s)
  /\ UNCHANGED <<org, quote, granted, pay, call, holder, calls, applied, prepaid>>

\* applySuccessfulRenewal locks the row; a period already advanced wins.
\* The grant's reference is the charge's own, never seen before.
applySuccessfulRenewal(s, auth) ==
  /\ job[s].pc = "charged" /\ RowFree(s)
  /\ IF row[s].end > 0
     THEN UNCHANGED <<row, org, prepaid>>
     ELSE /\ OrgFree
          /\ row' = [row EXCEPT ![s] =
                       [@ EXCEPT !.plan = job[s].target, !.status = "active", !.pend = NoPlan,
                                 !.end = job[s].end + Period, !.attempts = 0, !.tried = TRUE,
                                 !.auth = auth]]
          /\ org' = job[s].target
          /\ prepaid' = [prepaid EXCEPT ![s] = FALSE]
  /\ Done(s)
  /\ UNCHANGED <<quote, granted, pay, call, holder, calls, applied>>
-----------------------------------------------------------------------------
(* The customer pays: a checkout for a plan, or an upgrade quote.          *)

PayCheckout(r, p, auth) ==
  /\ pay[r].st = "unpaid" /\ p # Free
  /\ pay' = [pay EXCEPT ![r] = [st |-> "checkout", plan |-> p, amount |-> Price[p],
                                end |-> Period, auth |-> auth]]
  /\ UNCHANGED <<row, org, quote, granted, job, call, holder, calls, applied, prepaid>>

PayUpgrade(r, q) ==
  /\ pay[r].st = "unpaid" /\ quote[q].st = "open" /\ quote[q].kind = "upgrade"
  /\ pay' = [pay EXCEPT ![r] = [st |-> "upgrade", plan |-> quote[q].to,
                                amount |-> quote[q].amount, end |-> Period, auth |-> TRUE]]
  /\ UNCHANGED <<row, org, quote, granted, job, call, holder, calls, applied, prepaid>>
-----------------------------------------------------------------------------
(* Verify: the existing row is read without a lock (First orders by a      *)
(* random uuid: any match), the whole stale row is saved back, and the     *)
(* update of the org row is what serialises two verifications.             *)

\* Mutant: any active row of the org is taken for the one that was paid.
VerifyLoadAnyPlan(c, r) ==
  /\ pay[r].st = "checkout"
  /\ \/ Active = {} /\ Start(c, [Idle EXCEPT !.pc = "verify", !.ref = r])
     \/ \E s \in Active :
          Start(c, [Idle EXCEPT !.pc = "verify", !.ref = r, !.sub = s, !.snap = row[s]])
  /\ UNCHANGED <<row, org, quote, granted, pay, job, holder, applied, prepaid>>

VerifyLoad(c, r) ==
  /\ pay[r].st = "checkout"
  /\ LET existing == {s \in Active : row[s].plan = pay[r].plan}
     IN \/ /\ existing = {}
           /\ Start(c, [Idle EXCEPT !.pc = "verify", !.ref = r])
        \/ \E s \in existing :
             Start(c, [Idle EXCEPT !.pc = "verify", !.ref = r, !.sub = s, !.snap = row[s]])
  /\ UNCHANGED <<row, org, quote, granted, pay, job, holder, applied, prepaid>>

\* Mutant: the org row is not locked before the ledger is read.
VerifyUnlocked(c) ==
  /\ call[c].pc = "verify"
  /\ holder' = c
  /\ call' = [call EXCEPT ![c] = [@ EXCEPT !.pc = "verifyLocked",
                                          !.seen = ledgerEntryExists(call[c].ref)]]
  /\ UNCHANGED <<row, org, quote, granted, pay, job, calls, applied, prepaid>>

\* The row is saved and the org updated, which locks both; then the ledger is read.
VerifyLock(c) ==
  /\ call[c].pc = "verify" /\ OrgFree
  /\ holder' = c
  /\ call' = [call EXCEPT ![c] = [@ EXCEPT !.pc = "verifyLocked",
                                          !.seen = ledgerEntryExists(call[c].ref)]]
  /\ UNCHANGED <<row, org, quote, granted, pay, job, calls, applied, prepaid>>

upsertFreshSubscription(c) ==
  LET r == call[c].ref
      fresh == [NewRow EXCEPT !.status = "active", !.plan = pay[r].plan]
      saved == IF call[c].sub = NoSub THEN fresh ELSE call[c].snap
      unused == {s \in Subs : row[s].status = "none"}
      s == IF call[c].sub = NoSub THEN Min(unused) ELSE call[c].sub
  IN /\ call[c].pc = "verifyLocked"
     /\ call[c].sub = NoSub => unused # {}
     /\ row' = [row EXCEPT ![s] = [saved EXCEPT !.end = pay[r].end, !.auth = pay[r].auth]]
     /\ org' = pay[r].plan
     /\ IF MonthlyCredits[pay[r].plan] > 0
        THEN GrantWithTx(r, call[c].seen) ELSE UNCHANGED granted
     /\ prepaid' = [prepaid EXCEPT ![s] = FALSE]
     /\ holder' = NoOne
     /\ Return(c)
     /\ UNCHANGED <<quote, pay, job, calls, applied>>

\* A transaction that fails, or a server that dies, rolls back.
VerifyAbort(c) ==
  /\ call[c].pc \in {"verify", "verifyLocked"}
  /\ holder' = IF holder = c THEN NoOne ELSE holder
  /\ Return(c)
  /\ UNCHANGED <<row, org, quote, granted, pay, job, calls, applied, prepaid>>
-----------------------------------------------------------------------------
(* Cancel and Resume: find the active row, then update it by id.           *)

CancelLoad(c, op) ==
  /\ Active # {}
  /\ op \in {"cancelEnd", "cancelNow"}
  /\ Start(c, [Idle EXCEPT !.pc = op, !.sub = activeSubscription])
  /\ UNCHANGED <<row, org, quote, granted, pay, job, holder, applied, prepaid>>

CancelAtPeriodEnd(c) ==
  /\ call[c].pc = "cancelEnd" /\ RowFree(call[c].sub)
  /\ row' = [row EXCEPT ![call[c].sub].atEnd = TRUE]
  /\ Return(c)
  /\ UNCHANGED <<org, quote, granted, pay, job, holder, calls, applied, prepaid>>

\* Mutant: the immediate cancel forgets the org row.
CancelNowRowOnly(c) ==
  /\ call[c].pc = "cancelNow" /\ RowFree(call[c].sub) /\ OrgFree
  /\ row' = [row EXCEPT ![call[c].sub] = [@ EXCEPT !.status = "canceled", !.atEnd = FALSE]]
  /\ Return(c)
  /\ UNCHANGED <<org, quote, granted, pay, job, holder, calls, applied, prepaid>>

CancelNow(c) ==
  /\ call[c].pc = "cancelNow" /\ RowFree(call[c].sub) /\ OrgFree
  /\ row' = [row EXCEPT ![call[c].sub] = [@ EXCEPT !.status = "canceled", !.atEnd = FALSE]]
  /\ org' = Free
  /\ Return(c)
  /\ UNCHANGED <<quote, granted, pay, job, holder, calls, applied, prepaid>>

ResumeLoad(c) ==
  /\ Active # {} /\ row[activeSubscription].atEnd
  /\ Start(c, [Idle EXCEPT !.pc = "resume", !.sub = activeSubscription])
  /\ UNCHANGED <<row, org, quote, granted, pay, job, holder, applied, prepaid>>

Resume(c) ==
  /\ call[c].pc = "resume" /\ RowFree(call[c].sub)
  /\ row' = [row EXCEPT ![call[c].sub].atEnd = FALSE]
  /\ Return(c)
  /\ UNCHANGED <<org, quote, granted, pay, job, holder, calls, applied, prepaid>>
-----------------------------------------------------------------------------
(* PreviewChange stores a quote; ApplyChange consumes it.                  *)

\* Time within a tick matters here: `half' is a half tick already used of the last one.
\* ProrationFraction: half ticks left, within 0 .. the whole period.
ProrationFraction(r, half) ==
  LET left == 2 * r.end - half
  IN IF left < 0 THEN 0 ELSE IF left > 2 * Period THEN 2 * Period ELSE left

\* Fraction.Apply: amount * num / denom, rounded half to even.
Apply(amount, num, denom) ==
  LET q == (amount * num) \div denom
      twice == 2 * ((amount * num) % denom)
  IN IF twice > denom \/ (twice = denom /\ q % 2 = 1) THEN q + 1 ELSE q

\* The pure PreviewChange: what the change costs and whether it grants credits.
Preview(r, to, half) ==
  LET left == ProrationFraction(r, half)
      priceDelta == Price[to] - Price[r.plan]
      creditDelta == MonthlyCredits[to] - MonthlyCredits[r.plan]
  IN [kind |-> IF priceDelta > 0 THEN "upgrade" ELSE "downgrade",
      amount |-> IF priceDelta > 0 THEN Apply(priceDelta, left, 2 * Period) ELSE 0,
      credit |-> priceDelta > 0 /\ creditDelta > 0 /\ Apply(creditDelta, left, 2 * Period) > 0]

\* ErrSamePlan, ErrPeriodEnded and ErrFreeUpgrade store nothing.
PreviewChange(q, to, half) ==
  /\ quote[q].st = "none" /\ calls > 0 /\ Active # {}
  /\ LET s == activeSubscription
         p == Preview(row[s], to, half)
     IN /\ to # row[s].plan
        /\ 2 * row[s].end >= half
        /\ ~(row[s].plan = Free /\ to # Free)
        /\ quote' = [quote EXCEPT ![q] =
             [st |-> "open", sub |-> s, to |-> to, ref |-> NoRef,
              kind |-> p.kind, amount |-> p.amount, credit |-> p.credit]]
  /\ calls' = calls - 1
  /\ UNCHANGED <<row, org, granted, pay, job, call, holder, applied, prepaid>>

\* ApplyChange up to the transaction: quote loaded, reference resolved and compared.
ApplyLoad(c, q, r) ==
  /\ quote[q].st = "open"
  /\ \/ /\ quote[q].kind = "upgrade" /\ r \in Refs
        /\ pay[r].st # "unpaid" /\ pay[r].amount = quote[q].amount
     \/ quote[q].kind = "downgrade" /\ r = NoRef
  /\ Start(c, [Idle EXCEPT !.pc = quote[q].kind, !.quote = q, !.ref = r, !.sub = quote[q].sub])
  /\ UNCHANGED <<row, org, quote, granted, pay, job, holder, applied, prepaid>>

\* Mutant: the quote is not looked at again under its lock.
NeverConsumed(q) == FALSE

\* The quote re-read under its lock has been consumed meanwhile.
Consumed(q) == quote[q].st = "consumed"

\* The unique index on paystack_reference, or ErrAlreadyRecorded, rolls back.
Refused(q, r) ==
  \/ \E o \in Quotes \ {q} : quote[o].ref = r
  \/ quote[q].credit /\ ledgerEntryExists(q)

applyUpgrade(c) ==
  LET q == call[c].quote
      s == call[c].sub
      r == call[c].ref
  IN /\ call[c].pc = "upgrade" /\ RowFree(s) /\ OrgFree
     /\ IF Consumed(q) \/ Refused(q, r)
        THEN UNCHANGED <<row, org, quote, granted, applied>>
        ELSE /\ row' = [row EXCEPT ![s] = [@ EXCEPT !.plan = quote[q].to, !.status = "active",
                                                    !.pend = NoPlan, !.auth = pay[r].auth]]
             /\ org' = quote[q].to
             /\ IF quote[q].credit
                THEN GrantWithTx(q, ledgerEntryExists(q)) ELSE UNCHANGED granted
             /\ quote' = [quote EXCEPT ![q] = [@ EXCEPT !.st = "consumed", !.ref = r]]
             /\ applied' = [applied EXCEPT ![r] = @ + 1, ![q] = @ + 1]
     /\ Return(c)
     /\ UNCHANGED <<pay, job, holder, calls, prepaid>>

applyDowngrade(c) ==
  LET q == call[c].quote
  IN /\ call[c].pc = "downgrade" /\ RowFree(call[c].sub)
     /\ IF Consumed(q)
        THEN UNCHANGED <<row, quote, applied>>
        ELSE /\ row' = [row EXCEPT ![call[c].sub].pend = quote[q].to]
             /\ quote' = [quote EXCEPT ![q].st = "consumed"]
             /\ applied' = [applied EXCEPT ![q] = @ + 1]
     /\ Return(c)
     /\ UNCHANGED <<org, granted, pay, job, holder, calls, prepaid>>
-----------------------------------------------------------------------------
\* One retry interval passes; no request or worker run lasts that long.
Tick ==
  /\ \A s \in Subs : ~Running(s)
  /\ \A c \in Callers : call[c].pc = "idle"
  /\ row' = [s \in Subs |-> [row[s] EXCEPT !.end = Clamp(@ - 1), !.tried = FALSE]]
  /\ pay' = [r \in Refs |-> [pay[r] EXCEPT !.end = Clamp(@ - 1)]]
  /\ quote' = [q \in Quotes |-> [quote[q] EXCEPT !.st = IF @ = "open" THEN "expired" ELSE @]]
  /\ UNCHANGED <<org, granted, job, call, holder, calls, applied, prepaid>>

Charge(s) == \E ok \in BOOLEAN : chargeAuthorization(s, ok)

Settle(s) ==
  \/ finalizeCancel(s) \/ transitionToFree(s) \/ markPastDue(s) \/ recordChargeFailure(s)
  \/ \E auth \in BOOLEAN : applySuccessfulRenewal(s, auth)

Worker(s) == RenewLoad(s) \/ Charge(s) \/ Settle(s)

Proceed(c) ==
  \/ VerifyLock(c) \/ upsertFreshSubscription(c) \/ VerifyAbort(c)
  \/ CancelAtPeriodEnd(c) \/ CancelNow(c) \/ Resume(c)
  \/ applyUpgrade(c) \/ applyDowngrade(c)

Request(c) ==
  \/ \E r \in Refs : VerifyLoad(c, r)
  \/ \E op \in {"cancelEnd", "cancelNow"} : CancelLoad(c, op)
  \/ ResumeLoad(c)
  \/ \E q \in Quotes, r \in Refs \cup {NoRef} : ApplyLoad(c, q, r)

Next ==
  \/ \E s \in Subs : Sweep(s) \/ Worker(s) \/ Crash(s) \/ RenewError(s) \/ PurgeArchive(s)
  \/ \E c \in Callers : Request(c) \/ Proceed(c)
  \/ \E r \in Refs, p \in Plans, auth \in BOOLEAN : PayCheckout(r, p, auth)
  \/ \E r \in Refs, q \in Quotes : PayUpgrade(r, q)
  \/ \E q \in Quotes, to \in Plans, half \in 0 .. 1 : PreviewChange(q, to, half)
  \/ Tick

\* The periodic sweep, the workers and the database keep running and time passes.
\* A database fault ends a task and the next sweep tries again, so what every attempt
\* is ready to do is done by one of them in the end (SF).  Nobody has to call, pay or
\* purge.
Fairness ==
  /\ \A s \in Subs : /\ WF_vars(Sweep(s)) /\ WF_vars(Worker(s))
                     /\ SF_vars(Charge(s)) /\ SF_vars(Settle(s))
  /\ \A c \in Callers : WF_vars(Proceed(c))
  /\ WF_vars(Tick)

Spec == Init /\ [][Next]_vars /\ Fairness
-----------------------------------------------------------------------------
(* The tables, the queue and the requests hold values of their types.      *)
TypeOK ==
  /\ row \in [Subs -> Row]
  /\ org \in Plans
  /\ quote \in [Quotes -> Quote]
  /\ granted \in [Refs \cup Quotes -> Nat]
  /\ pay \in [Refs -> Payment]
  /\ job \in [Subs -> Job]
  /\ call \in [Callers -> Call]
  /\ holder \in Callers \cup {NoOne}
  /\ calls \in Nat
  /\ applied \in [Refs \cup Quotes -> Nat]
  /\ prepaid \in [Subs -> BOOLEAN]

RequestFacts ==
  \A c \in Callers :
    /\ call[c].pc \in {"cancelEnd", "cancelNow", "resume", "upgrade", "downgrade"}
         => call[c].sub \in Subs
    /\ call[c].pc \in {"upgrade", "downgrade"} => call[c].quote \in Quotes
    /\ call[c].pc = "upgrade" => call[c].ref \in Refs
    /\ call[c].pc \in {"verify", "verifyLocked"} =>
         /\ call[c].ref \in Refs /\ pay[call[c].ref].st = "checkout"
         /\ call[c].sub # NoSub => /\ call[c].snap.status = "active"
                                   /\ call[c].snap.plan = pay[call[c].ref].plan

WorkerFacts == \A s \in Subs : job[s].pc = "free" => job[s].target = Free

QuoteFacts ==
  \A q \in Quotes : /\ quote[q].st = "open" => quote[q].sub \in Subs
                    /\ quote[q].ref # NoRef => quote[q].st = "consumed"

LockFacts ==
  \A c \in Callers : call[c].pc = "verifyLocked" =>
    holder = c /\ call[c].seen = ledgerEntryExists(call[c].ref)

(* What a request or a worker carries from its reads to its write is still  *)
(* good when it writes: the row, quote and reference it names exist, the    *)
(* row a Verify saves back is one of the plan that was paid for, what it    *)
(* read of the ledger is still so when it inserts, a worker that moves a    *)
(* row to the free plan has that plan as its target, and a reference is     *)
(* only recorded on a quote that is used up.                                *)
CarriedFacts == RequestFacts /\ WorkerFacts /\ QuoteFacts /\ LockFacts

(* A payment reference or quote is granted credits at most once, though     *)
(* GrantWithTx is check-then-insert and no unique index backs it: two       *)
(* Verify requests for one reference are serialised by their update of the  *)
(* org row, two ApplyChange requests by their row locks.                    *)
OneGrantPerReference == \A x \in Refs \cup Quotes : granted[x] <= 1

(* However many ApplyChange requests race, a quote changes the plan at most *)
(* once, and one reference pays for at most one quote.                      *)
UpgradeAppliedOnce == \A x \in Refs \cup Quotes : applied[x] <= 1

(* An org on a paid plan has a subscription of that plan which is active or *)
(* past due: the denormalised orgs.plan_slug that spend checks read is      *)
(* never left behind by a cancellation, a plan change or a renewal.         *)
PaidPlanIsBacked ==
  org # Free => \E s \in Subs : row[s].plan = org /\ row[s].status \in {"active", "past_due"}

(* A subscription the sweep can see is eventually renewed, canceled or      *)
(* marked past due, or its crashed task sits in the archive, where its task *)
(* id keeps the sweep from enqueuing another.                               *)
DueSettles ==
  \A s \in Subs : (Due(s) /\ row[s].attempts < MaxRenewalAttempts)
                  ~> (~Due(s) \/ job[s].pc = "archived")

(* What renew.go says of Renew, "Idempotent across replays": no renewal     *)
(* charge is taken while one already taken for this period end has not been *)
(* turned into a period.                                                    *)
OneChargePerPeriod ==
  [][\A s \in Subs : prepaid[s] => ~(job[s].pc = "charge" /\ job'[s].pc = "charged")]_vars
=============================================================================
