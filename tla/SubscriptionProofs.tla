------------------------- MODULE SubscriptionProofs -------------------------
(***************************************************************************)
(* Proofs about Subscription, for any number of rows, references, quotes   *)
(* and concurrent requests, any prices and any number of retries.          *)
(*                                                                         *)
(* IndInv is the inductive invariant.  Type correctness needs CarriedFacts *)
(* (a request that is about to write names a row and a quote that exist),  *)
(* PaidPlanIsBacked needs it too (the row a Verify saves back is active    *)
(* and of the plan paid for), and UpgradeAppliedOnce needs AppliedFacts    *)
(* (a plan change is on record in the quote it consumed).                  *)
(***************************************************************************)
EXTENDS Subscription, WellFoundedInduction, TLAPS

(* A non-empty set of naturals has a least element.                        *)
LEMMA LeastExists ==
  ASSUME NEW T \in SUBSET Nat, T # {}
  PROVE  \E x \in T : \A y \in T : x <= y
<1>1. PICK x \in T : \A y \in T : ~(<<y, x>> \in OpToRel(<, Nat))
  BY WFMin, NatLessThanWellFounded
<1>2. ASSUME NEW y \in T PROVE x <= y
  <2>1. x \in Nat /\ y \in Nat
    OBVIOUS
  <2>2. ~(y < x)
    BY <1>1, <2>1 DEF OpToRel
  <2>3. QED
    BY <2>1, <2>2
<1>3. QED
  BY <1>2

(* The least unused row id, the one an insert takes, is one of the set.    *)
LEMMA MinInSet ==
  ASSUME NEW T \in SUBSET Subs, T # {}
  PROVE  Min(T) \in T
<1>1. T \in SUBSET Nat
  BY ConstantsOK DEF Subs
<1>2. \E x \in T : \A y \in T : x <= y
  BY <1>1, LeastExists
<1>3. QED
  BY <1>2 DEF Min

(* The newest of a non-empty set of rows is one of them.                   *)
LEMMA MaxInSet ==
  ASSUME NEW T \in SUBSET Subs, T # {}
  PROVE  Max(T) \in T
<1> DEFINE D == {d \in Nat : \E t \in T : d = MaxSubs - t}
<1>1. \A t \in T : MaxSubs - t \in D
  BY ConstantsOK DEF Subs
<1> D \in SUBSET Nat /\ D # {}
  BY <1>1
<1>2. PICK d \in D : \A e \in D : d <= e
  BY LeastExists
<1>3. PICK x \in T : d = MaxSubs - x
  BY <1>2
<1>4. ASSUME NEW y \in T PROVE x >= y
  <2>1. d <= MaxSubs - y
    BY <1>1, <1>2
  <2>2. QED
    BY <1>3, <2>1, ConstantsOK DEF Subs
<1>5. QED
  BY <1>4 DEF Max
-----------------------------------------------------------------------------
(* Type correctness.                                                       *)

(* The empty queue slot is a task record.                                  *)
LEMMA NoJobType == NoJob \in Job
BY ConstantsOK DEF NoJob, Job, JobPC

(* A row about to be inserted is a row.                                    *)
LEMMA NewRowType == NewRow \in Row
BY ConstantsOK DEF NewRow, Row

(* A request slot with no request in flight is a request record.           *)
LEMMA IdleType == Idle \in Call
BY ConstantsOK, NewRowType DEF Idle, Call, CallPC

(* The empty tables are well typed.                                        *)
LEMMA InitType == Init => TypeOK
<1> SUFFICES ASSUME Init PROVE TypeOK
  OBVIOUS
<1>1. quote \in [Quotes -> Quote]
  BY ConstantsOK DEF Init, Quote
<1>2. pay \in [Refs -> Payment]
  BY ConstantsOK DEF Init, Payment
<1>3. QED
  BY ConstantsOK, NewRowType, NoJobType, IdleType, <1>1, <1>2 DEF Init, TypeOK

(* A request starts with a well-typed record.                              *)
LEMMA StartType ==
  ASSUME TypeOK, NEW c \in Callers, NEW next \in Call, Start(c, next)
  PROVE  call' \in [Callers -> Call] /\ calls' \in Nat
BY DEF TypeOK, Start

(* A request that returns leaves a well-typed slot.                        *)
LEMMA ReturnType ==
  ASSUME TypeOK, NEW c \in Callers, Return(c)
  PROVE  call' \in [Callers -> Call]
BY IdleType DEF TypeOK, Return

(* A worker that ends leaves an empty queue slot.                          *)
LEMMA DoneType ==
  ASSUME TypeOK, NEW s \in Subs, Done(s)
  PROVE  job' \in [Subs -> Job]
BY NoJobType DEF TypeOK, Done

(* A grant keeps the ledger counts natural numbers.                        *)
LEMMA GrantType ==
  ASSUME TypeOK, NEW x \in Refs \cup Quotes, NEW seen, GrantWithTx(x, seen)
  PROVE  granted' \in [Refs \cup Quotes -> Nat]
BY DEF TypeOK, GrantWithTx

(* A proration of naturals, rounded half to even, is a natural.            *)
LEMMA ApplyType ==
  ASSUME NEW amount \in Nat, NEW num \in Nat, NEW denom \in Nat, denom > 0
  PROVE  Apply(amount, num, denom) \in Nat
<1>1. amount * num \in Nat
  OBVIOUS
<1>2. (amount * num) \div denom \in Nat
  BY <1>1
<1>3. QED
  BY <1>2 DEF Apply

(* A previewed change has a kind, a natural amount and a credit flag.      *)
LEMMA PreviewType ==
  ASSUME NEW r \in Row, NEW to \in Plans, NEW half \in 0 .. 1
  PROVE  /\ Preview(r, to, half).kind \in {"upgrade", "downgrade"}
         /\ Preview(r, to, half).amount \in Nat
         /\ Preview(r, to, half).credit \in BOOLEAN
<1> DEFINE left == ProrationFraction(r, half)
           priceDelta == Price[to] - Price[r.plan]
<1>1. left \in Nat /\ 2 * Period \in Nat /\ 2 * Period > 0
  BY ConstantsOK DEF Row, ProrationFraction
<1>2. priceDelta \in Int
  BY ConstantsOK DEF Row
<1>3. priceDelta > 0 => Apply(priceDelta, left, 2 * Period) \in Nat
  BY <1>1, <1>2, ApplyType
<1>4. QED
  BY <1>3 DEF Preview

(* Every action keeps every table well typed; writes need CarriedFacts.    *)
LEMMA TypeStep == TypeOK /\ CarriedFacts /\ [Next]_vars => TypeOK'
<1> SUFFICES ASSUME TypeOK, CarriedFacts, [Next]_vars
             PROVE  TypeOK'
  OBVIOUS
<1>1. ASSUME NEW s \in Subs, Sweep(s) PROVE TypeOK'
  BY <1>1, NoJobType DEF TypeOK, Sweep, Job, JobPC
<1>2. ASSUME NEW s \in Subs, Crash(s) PROVE TypeOK'
  BY <1>2, NoJobType DEF TypeOK, Crash, Job, JobPC
<1>3. ASSUME NEW s \in Subs, PurgeArchive(s) \/ RenewError(s) PROVE TypeOK'
  BY <1>3, NoJobType DEF TypeOK, PurgeArchive, RenewError
<1>4. ASSUME NEW s \in Subs, RenewLoad(s) PROVE TypeOK'
  BY <1>4, ConstantsOK DEF TypeOK, RenewLoad, NoJob, Job, JobPC, DecideRenewal, Target, Row
<1>5. ASSUME NEW s \in Subs, finalizeCancel(s) PROVE TypeOK'
  <2> DEFINE new == [row[s] EXCEPT !.status = "canceled", !.atEnd = FALSE, !.attempts = 0]
  <2>1. row[s] \in Row
    BY DEF TypeOK
  <2>2. new \in Row
    BY <2>1 DEF Row
  <2>3. row' = [row EXCEPT ![s] = new]
    BY <1>5 DEF finalizeCancel
  <2>4. row' \in [Subs -> Row]
    BY <2>2, <2>3 DEF TypeOK
  <2>5. QED
    BY <1>5, <2>4, DoneType, ConstantsOK DEF TypeOK, finalizeCancel
<1>6. ASSUME NEW s \in Subs, transitionToFree(s) PROVE TypeOK'
  <2> DEFINE new == [row[s] EXCEPT !.status = "canceled", !.plan = job[s].target,
                                   !.pend = NoPlan, !.atEnd = FALSE, !.attempts = 0]
  <2>1. job[s].target \in Plans /\ row[s] \in Row
    BY DEF TypeOK, Job
  <2>2. new \in Row
    BY <2>1 DEF Row
  <2>3. row' = [row EXCEPT ![s] = new]
    BY <1>6 DEF transitionToFree
  <2>4. row' \in [Subs -> Row]
    BY <2>2, <2>3 DEF TypeOK
  <2>5. QED
    BY <1>6, <2>1, <2>4, DoneType DEF TypeOK, transitionToFree
<1>7. ASSUME NEW s \in Subs, markPastDue(s) PROVE TypeOK'
  <2> DEFINE new == [row[s] EXCEPT !.status = "past_due", !.tried = TRUE]
  <2>1. row[s] \in Row
    BY DEF TypeOK
  <2>2. new \in Row
    BY <2>1 DEF Row
  <2>3. row' = [row EXCEPT ![s] = new]
    BY <1>7 DEF markPastDue
  <2>4. row' \in [Subs -> Row]
    BY <2>2, <2>3 DEF TypeOK
  <2>5. QED
    BY <1>7, <2>4, DoneType DEF TypeOK, markPastDue
<1>8. ASSUME NEW s \in Subs, NEW ok \in BOOLEAN, chargeAuthorization(s, ok) PROVE TypeOK'
  <2>1. job' \in [Subs -> Job]
    <3> DEFINE new == [job[s] EXCEPT !.pc = IF ok THEN "charged" ELSE "declined"]
    <3>1. job[s] \in Job
      BY DEF TypeOK
    <3>2. new \in Job
      BY <3>1 DEF Job, JobPC
    <3>3. job' = [job EXCEPT ![s] = new]
      BY <1>8 DEF chargeAuthorization
    <3>4. QED
      BY <3>2, <3>3 DEF TypeOK
  <2>2. prepaid' \in [Subs -> BOOLEAN]
    BY <1>8 DEF TypeOK, chargeAuthorization
  <2>3. QED
    BY <1>8, <2>1, <2>2 DEF TypeOK, chargeAuthorization
<1>9. ASSUME NEW s \in Subs, recordChargeFailure(s) PROVE TypeOK'
  <2>1. row[s] \in Row /\ job[s].attempts + 1 \in Nat
    BY DEF TypeOK, Job
  <2>2. FailedRow(row[s], job[s].attempts + 1) \in Row
    BY <2>1 DEF Row, FailedRow
  <2>3. row' \in [Subs -> Row]
    BY <1>9, <2>2 DEF TypeOK, recordChargeFailure
  <2>4. QED
    BY <1>9, <2>3, DoneType DEF TypeOK, recordChargeFailure
<1>10. ASSUME NEW s \in Subs, NEW auth \in BOOLEAN, applySuccessfulRenewal(s, auth)
       PROVE  TypeOK'
  <2>1. CASE row[s].end > 0
    BY <1>10, <2>1, DoneType DEF TypeOK, applySuccessfulRenewal
  <2>2. CASE ~(row[s].end > 0)
    <3> DEFINE new == [row[s] EXCEPT !.plan = job[s].target, !.status = "active",
                         !.pend = NoPlan, !.end = job[s].end + Period, !.attempts = 0,
                         !.tried = TRUE, !.auth = auth]
    <3>1. row[s] \in Row /\ job[s].target \in Plans /\ job[s].end + Period \in Int
      BY ConstantsOK DEF TypeOK, Job
    <3>2. new \in Row
      BY <3>1 DEF Row
    <3>3. row' = [row EXCEPT ![s] = new]
      BY <1>10, <2>2 DEF applySuccessfulRenewal
    <3>4. row' \in [Subs -> Row]
      BY <3>2, <3>3 DEF TypeOK
    <3>5. QED
      BY <1>10, <2>2, <3>1, <3>4, DoneType DEF TypeOK, applySuccessfulRenewal
  <2>3. QED
    BY <2>1, <2>2
<1>11. ASSUME NEW r \in Refs, NEW p \in Plans, NEW auth \in BOOLEAN, PayCheckout(r, p, auth)
       PROVE  TypeOK'
  <2>1. [st |-> "checkout", plan |-> p, amount |-> Price[p], end |-> Period, auth |-> auth]
          \in Payment
    BY ConstantsOK DEF Payment
  <2>2. QED
    BY <1>11, <2>1 DEF TypeOK, PayCheckout
<1>12. ASSUME NEW r \in Refs, NEW q \in Quotes, PayUpgrade(r, q) PROVE TypeOK'
  <2>1. [st |-> "upgrade", plan |-> quote[q].to, amount |-> quote[q].amount,
         end |-> Period, auth |-> TRUE] \in Payment
    BY ConstantsOK DEF TypeOK, Quote, Payment
  <2>2. QED
    BY <1>12, <2>1 DEF TypeOK, PayUpgrade
<1>13. ASSUME NEW c \in Callers, NEW r \in Refs, VerifyLoad(c, r) PROVE TypeOK'
  <2>1. [Idle EXCEPT !.pc = "verify", !.ref = r] \in Call
    BY IdleType DEF Call, CallPC
  <2>2. ASSUME NEW s \in Subs
        PROVE  [Idle EXCEPT !.pc = "verify", !.ref = r, !.sub = s, !.snap = row[s]] \in Call
    <3>1. row[s] \in Row
      BY DEF TypeOK
    <3>2. QED
      BY IdleType, <3>1 DEF Call, CallPC
  <2>3. call' \in [Callers -> Call] /\ calls' \in Nat
    BY <1>13, <2>1, <2>2, StartType DEF VerifyLoad, Active
  <2>4. QED
    BY <1>13, <2>3 DEF TypeOK, VerifyLoad
<1>14. ASSUME NEW c \in Callers, VerifyLock(c) PROVE TypeOK'
  <2> DEFINE new == [call[c] EXCEPT !.pc = "verifyLocked",
                                    !.seen = ledgerEntryExists(call[c].ref)]
  <2>1. call[c] \in Call /\ ledgerEntryExists(call[c].ref) \in BOOLEAN
    BY DEF TypeOK, ledgerEntryExists
  <2>2. new \in Call
    BY <2>1 DEF Call, CallPC
  <2>3. call' = [call EXCEPT ![c] = new]
    BY <1>14 DEF VerifyLock
  <2>4. call' \in [Callers -> Call]
    BY <2>2, <2>3 DEF TypeOK
  <2>5. QED
    BY <1>14, <2>4 DEF TypeOK, VerifyLock
<1>15. ASSUME NEW c \in Callers, upsertFreshSubscription(c) PROVE TypeOK'
  <2> DEFINE r == call[c].ref
             unused == {s \in Subs : row[s].status = "none"}
             s == IF call[c].sub = NoSub THEN Min(unused) ELSE call[c].sub
             saved == IF call[c].sub = NoSub
                      THEN [NewRow EXCEPT !.status = "active", !.plan = pay[r].plan]
                      ELSE call[c].snap
             new == [saved EXCEPT !.end = pay[r].end, !.auth = pay[r].auth]
  <2>1. /\ call[c] \in Call /\ r \in Refs /\ pay[r] \in Payment
    BY <1>15 DEF TypeOK, CarriedFacts, RequestFacts, upsertFreshSubscription
  <2>2. s \in Subs
    <3>1. CASE call[c].sub = NoSub
      <4>1. unused \in SUBSET Subs /\ unused # {}
        BY <1>15, <3>1 DEF upsertFreshSubscription
      <4>2. QED
        BY <3>1, <4>1, MinInSet
    <3>2. CASE call[c].sub # NoSub
      BY <2>1, <3>2 DEF Call
    <3>3. QED
      BY <3>1, <3>2
  <2>3. saved \in Row
    BY <2>1, NewRowType DEF Call, Row, Payment
  <2>4. new \in Row
    BY <2>1, <2>3 DEF Row, Payment
  <2>5. row' = [row EXCEPT ![s] = new]
    BY <1>15 DEF upsertFreshSubscription
  <2>6. row' \in [Subs -> Row]
    BY <2>2, <2>4, <2>5 DEF TypeOK
  <2>7. granted' \in [Refs \cup Quotes -> Nat]
    <3>1. CASE GrantWithTx(r, call[c].seen)
      BY <2>1, <3>1, GrantType
    <3>2. CASE UNCHANGED granted
      BY <3>2 DEF TypeOK
    <3>3. QED
      BY <1>15, <3>1, <3>2 DEF upsertFreshSubscription
  <2>8. prepaid' \in [Subs -> BOOLEAN]
    BY <1>15 DEF TypeOK, upsertFreshSubscription
  <2>9. org' \in Plans
    BY <1>15, <2>1 DEF upsertFreshSubscription, Payment
  <2>10. QED
    BY <1>15, <2>6, <2>7, <2>8, <2>9, ReturnType DEF TypeOK, upsertFreshSubscription
<1>16. ASSUME NEW c \in Callers, VerifyAbort(c) PROVE TypeOK'
  BY <1>16, ReturnType DEF TypeOK, VerifyAbort
<1>17. ASSUME NEW c \in Callers, NEW op \in {"cancelEnd", "cancelNow"}, CancelLoad(c, op)
       PROVE  TypeOK'
  <2>1. activeSubscription \in Subs
    BY <1>17, MaxInSet DEF CancelLoad, Active, activeSubscription
  <2>2. [Idle EXCEPT !.pc = op, !.sub = activeSubscription] \in Call
    BY <2>1, IdleType DEF Call, CallPC
  <2>3. QED
    BY <1>17, <2>2, StartType DEF TypeOK, CancelLoad
<1>18. ASSUME NEW c \in Callers, CancelAtPeriodEnd(c) PROVE TypeOK'
  <2> DEFINE s == call[c].sub
             new == [row[s] EXCEPT !.atEnd = TRUE]
  <2>1. s \in Subs
    BY <1>18 DEF CancelAtPeriodEnd, CarriedFacts, RequestFacts
  <2>2. row[s] \in Row
    BY <2>1 DEF TypeOK
  <2>3. new \in Row
    BY <2>2 DEF Row
  <2>4. row' = [row EXCEPT ![s] = new]
    BY <1>18, <2>1 DEF TypeOK, CancelAtPeriodEnd
  <2>5. row' \in [Subs -> Row]
    BY <2>3, <2>4 DEF TypeOK
  <2>6. QED
    BY <1>18, <2>5, ReturnType DEF TypeOK, CancelAtPeriodEnd
<1>19. ASSUME NEW c \in Callers, CancelNow(c) PROVE TypeOK'
  <2> DEFINE s == call[c].sub
             new == [row[s] EXCEPT !.status = "canceled", !.atEnd = FALSE]
  <2>1. s \in Subs
    BY <1>19 DEF CancelNow, CarriedFacts, RequestFacts
  <2>2. row[s] \in Row
    BY <2>1 DEF TypeOK
  <2>3. new \in Row
    BY <2>2 DEF Row
  <2>4. row' = [row EXCEPT ![s] = new]
    BY <1>19, <2>1 DEF TypeOK, CancelNow
  <2>5. row' \in [Subs -> Row]
    BY <2>3, <2>4 DEF TypeOK
  <2>6. QED
    BY <1>19, <2>5, ReturnType, ConstantsOK DEF TypeOK, CancelNow
<1>20. ASSUME NEW c \in Callers, ResumeLoad(c) PROVE TypeOK'
  <2>1. activeSubscription \in Subs
    BY <1>20, MaxInSet DEF ResumeLoad, Active, activeSubscription
  <2>2. [Idle EXCEPT !.pc = "resume", !.sub = activeSubscription] \in Call
    BY <2>1, IdleType DEF Call, CallPC
  <2>3. QED
    BY <1>20, <2>2, StartType DEF TypeOK, ResumeLoad
<1>21. ASSUME NEW c \in Callers, Resume(c) PROVE TypeOK'
  <2> DEFINE s == call[c].sub
             new == [row[s] EXCEPT !.atEnd = FALSE]
  <2>1. s \in Subs
    BY <1>21 DEF Resume, CarriedFacts, RequestFacts
  <2>2. row[s] \in Row
    BY <2>1 DEF TypeOK
  <2>3. new \in Row
    BY <2>2 DEF Row
  <2>4. row' = [row EXCEPT ![s] = new]
    BY <1>21, <2>1 DEF TypeOK, Resume
  <2>5. row' \in [Subs -> Row]
    BY <2>3, <2>4 DEF TypeOK
  <2>6. QED
    BY <1>21, <2>5, ReturnType DEF TypeOK, Resume
<1>22. ASSUME NEW q \in Quotes, NEW to \in Plans, NEW half \in 0 .. 1, PreviewChange(q, to, half)
       PROVE  TypeOK'
  <2> DEFINE s == activeSubscription
             p == Preview(row[s], to, half)
             new == [st |-> "open", sub |-> s, to |-> to, ref |-> NoRef,
                     kind |-> p.kind, amount |-> p.amount, credit |-> p.credit]
  <2>1. s \in Subs
    BY <1>22, MaxInSet DEF PreviewChange, Active, activeSubscription
  <2>2. row[s] \in Row
    BY <2>1 DEF TypeOK
  <2>3. /\ p.kind \in {"upgrade", "downgrade"}
        /\ p.amount \in Nat /\ p.credit \in BOOLEAN
    BY <2>2, PreviewType
  <2>4. new \in Quote
    BY <2>1, <2>3 DEF Quote
  <2>5. quote' = [quote EXCEPT ![q] = new]
    BY <1>22 DEF PreviewChange
  <2>6. quote' \in [Quotes -> Quote]
    BY <2>4, <2>5 DEF TypeOK
  <2>7. calls' \in Nat
    BY <1>22 DEF TypeOK, PreviewChange
  <2>8. QED
    BY <1>22, <2>6, <2>7 DEF TypeOK, PreviewChange
<1>23. ASSUME NEW c \in Callers, NEW q \in Quotes, NEW r \in Refs \cup {NoRef}, ApplyLoad(c, q, r)
       PROVE  TypeOK'
  <2>1. quote[q].kind \in {"upgrade", "downgrade"} /\ quote[q].sub \in Subs \cup {NoSub}
    BY DEF TypeOK, Quote
  <2>2. [Idle EXCEPT !.pc = quote[q].kind, !.quote = q, !.ref = r, !.sub = quote[q].sub] \in Call
    BY <2>1, IdleType DEF Call, CallPC
  <2>3. QED
    BY <1>23, <2>2, StartType DEF TypeOK, ApplyLoad
<1>24. ASSUME NEW c \in Callers, applyUpgrade(c) PROVE TypeOK'
  <2> DEFINE q == call[c].quote
             s == call[c].sub
             r == call[c].ref
             new == [row[s] EXCEPT !.plan = quote[q].to, !.status = "active",
                                   !.pend = NoPlan, !.auth = pay[r].auth]
  <2>1. q \in Quotes /\ s \in Subs /\ r \in Refs
    BY <1>24 DEF applyUpgrade, CarriedFacts, RequestFacts
  <2>2. CASE Consumed(q) \/ Refused(q, r)
    BY <1>24, <2>2, ReturnType DEF TypeOK, applyUpgrade
  <2>3. CASE ~(Consumed(q) \/ Refused(q, r))
    <3>1. quote[q].to \in Plans /\ pay[r].auth \in BOOLEAN /\ row[s] \in Row
      BY <2>1 DEF TypeOK, Quote, Payment
    <3>2. new \in Row
      BY <3>1 DEF Row
    <3>3. row' = [row EXCEPT ![s] = new]
      BY <1>24, <2>3 DEF applyUpgrade
    <3>4. row' \in [Subs -> Row]
      BY <2>1, <3>2, <3>3 DEF TypeOK
    <3>5. quote' \in [Quotes -> Quote]
      <4>1. quote[q] \in Quote
        BY <2>1 DEF TypeOK
      <4>2. [quote[q] EXCEPT !.st = "consumed", !.ref = r] \in Quote
        BY <2>1, <4>1 DEF Quote
      <4>3. quote' = [quote EXCEPT ![q] = [quote[q] EXCEPT !.st = "consumed", !.ref = r]]
        BY <1>24, <2>3 DEF applyUpgrade
      <4>4. QED
        BY <4>2, <4>3 DEF TypeOK
    <3>6. granted' \in [Refs \cup Quotes -> Nat]
      BY <1>24, <2>1, <2>3, GrantType DEF TypeOK, applyUpgrade
    <3>7. applied' \in [Refs \cup Quotes -> Nat]
      BY <1>24, <2>1, <2>3 DEF TypeOK, applyUpgrade
    <3>8. QED
      BY <1>24, <2>3, <3>1, <3>4, <3>5, <3>6, <3>7, ReturnType DEF TypeOK, applyUpgrade
  <2>4. QED
    BY <2>2, <2>3
<1>25. ASSUME NEW c \in Callers, applyDowngrade(c) PROVE TypeOK'
  <2>1. call[c].quote \in Quotes /\ call[c].sub \in Subs
    BY <1>25 DEF applyDowngrade, CarriedFacts, RequestFacts
  <2>2. quote[call[c].quote].to \in Plans
    BY <2>1 DEF TypeOK, Quote
  <2> DEFINE newRow == [row[call[c].sub] EXCEPT !.pend = quote[call[c].quote].to]
             newQuote == [quote[call[c].quote] EXCEPT !.st = "consumed"]
  <2>3. row' \in [Subs -> Row]
    <3>1. row[call[c].sub] \in Row
      BY <2>1 DEF TypeOK
    <3>2. newRow \in Row
      BY <2>2, <3>1 DEF Row
    <3>3. row' = row \/ row' = [row EXCEPT ![call[c].sub] = newRow]
      BY <1>25, <2>1 DEF TypeOK, applyDowngrade
    <3>4. QED
      BY <3>2, <3>3 DEF TypeOK
  <2>4. quote' \in [Quotes -> Quote]
    <3>1. quote[call[c].quote] \in Quote
      BY <2>1 DEF TypeOK
    <3>2. newQuote \in Quote
      BY <3>1 DEF Quote
    <3>3. quote' = quote \/ quote' = [quote EXCEPT ![call[c].quote] = newQuote]
      BY <1>25, <2>1 DEF TypeOK, applyDowngrade
    <3>4. QED
      BY <3>2, <3>3 DEF TypeOK
  <2>5. applied' \in [Refs \cup Quotes -> Nat]
    BY <1>25, <2>1 DEF TypeOK, applyDowngrade
  <2>6. QED
    BY <1>25, <2>3, <2>4, <2>5, ReturnType DEF TypeOK, applyDowngrade
<1>26. ASSUME Tick PROVE TypeOK'
  <2>1. row' \in [Subs -> Row]
    <3>1. ASSUME NEW s \in Subs
          PROVE  [row[s] EXCEPT !.end = Clamp(@ - 1), !.tried = FALSE] \in Row
      <4>1. row[s] \in Row
        BY DEF TypeOK
      <4>2. row[s].end \in Int
        BY <4>1 DEF Row
      <4>3. Clamp(row[s].end - 1) \in Int
        BY <4>2, ConstantsOK DEF Clamp
      <4>4. QED
        BY <4>1, <4>3 DEF Row
    <3>2. QED
      BY <1>26, <3>1 DEF Tick
  <2>2. pay' \in [Refs -> Payment]
    <3>1. ASSUME NEW r \in Refs PROVE [pay[r] EXCEPT !.end = Clamp(@ - 1)] \in Payment
      <4>1. pay[r] \in Payment
        BY DEF TypeOK
      <4>2. pay[r].end \in Int
        BY <4>1 DEF Payment
      <4>3. Clamp(pay[r].end - 1) \in Int
        BY <4>2, ConstantsOK DEF Clamp
      <4>4. QED
        BY <4>1, <4>3 DEF Payment
    <3>2. QED
      BY <1>26, <3>1 DEF Tick
  <2>3. quote' \in [Quotes -> Quote]
    <3>1. ASSUME NEW q \in Quotes
          PROVE  [quote[q] EXCEPT !.st = IF @ = "open" THEN "expired" ELSE @] \in Quote
      <4>1. quote[q] \in Quote
        BY DEF TypeOK
      <4>2. QED
        BY <4>1 DEF Quote
    <3>2. QED
      BY <1>26, <3>1 DEF Tick
  <2>4. QED
    BY <1>26, <2>1, <2>2, <2>3 DEF TypeOK, Tick
<1>27. CASE UNCHANGED vars
  BY <1>27 DEF TypeOK, vars
<1>28. QED
  BY <1>1, <1>2, <1>3, <1>4, <1>5, <1>6, <1>7, <1>8, <1>9, <1>10, <1>11, <1>12, <1>13, <1>14,
     <1>15, <1>16, <1>17, <1>18, <1>19, <1>20, <1>21, <1>22, <1>23, <1>24, <1>25, <1>26, <1>27
  DEF Next, Worker, Charge, Settle, Request, Proceed
-----------------------------------------------------------------------------
(* CarriedFacts, one part at a time.                                       *)

(* Nothing is carried at the start.                                        *)
LEMMA InitCarried == Init => CarriedFacts
BY DEF Init, CarriedFacts, RequestFacts, WorkerFacts, QuoteFacts, LockFacts, Idle, NoJob

(* A step that touches no request and no payment keeps RequestFacts.       *)
LEMMA RequestFrame ==
  ASSUME RequestFacts, UNCHANGED <<call, pay>>
  PROVE  RequestFacts'
BY DEF RequestFacts

(* A request that returns carries nothing.                                 *)
LEMMA RequestReturn ==
  ASSUME TypeOK, RequestFacts, NEW c \in Callers, Return(c), UNCHANGED pay
  PROVE  RequestFacts'
<1>1. call' = [call EXCEPT ![c] = Idle] /\ call \in [Callers -> Call]
  BY DEF Return, TypeOK
<1>2. Idle.pc = "idle"
  BY DEF Idle
<1>3. QED
  BY <1>1, <1>2 DEF RequestFacts

(* What a request carries stays valid under every action.                  *)
LEMMA RequestStep ==
  ASSUME TypeOK, CarriedFacts, [Next]_vars
  PROVE  RequestFacts'
<1> USE DEF CarriedFacts
<1>1. ASSUME NEW s \in Subs, Sweep(s) \/ Worker(s) \/ Crash(s) \/ RenewError(s) \/ PurgeArchive(s)
      PROVE  RequestFacts'
  BY <1>1, RequestFrame
  DEF Sweep, Worker, Charge, Settle, Crash, RenewError, PurgeArchive, RenewLoad,
      finalizeCancel, transitionToFree, markPastDue, chargeAuthorization,
      recordChargeFailure, applySuccessfulRenewal
<1>2. ASSUME NEW r \in Refs, NEW p \in Plans, NEW auth \in BOOLEAN, PayCheckout(r, p, auth)
      PROVE  RequestFacts'
  BY <1>2 DEF TypeOK, PayCheckout, RequestFacts
<1>3. ASSUME NEW r \in Refs, NEW q \in Quotes, PayUpgrade(r, q) PROVE RequestFacts'
  BY <1>3 DEF TypeOK, PayUpgrade, RequestFacts
<1>4. ASSUME NEW c \in Callers, NEW r \in Refs, VerifyLoad(c, r) PROVE RequestFacts'
  <2>1. /\ pay[r].st = "checkout" /\ UNCHANGED pay
        /\ call \in [Callers -> Call]
    BY <1>4 DEF VerifyLoad, TypeOK
  <2>2. ASSUME NEW next, call' = [call EXCEPT ![c] = next], next.pc = "verify", next.ref = r,
               next.sub # NoSub => next.snap.status = "active" /\ next.snap.plan = pay[r].plan
        PROVE  RequestFacts'
    BY <2>1, <2>2 DEF RequestFacts
  <2>3. CASE Start(c, [Idle EXCEPT !.pc = "verify", !.ref = r])
    <3> DEFINE next == [Idle EXCEPT !.pc = "verify", !.ref = r]
    <3>1. next.pc = "verify" /\ next.ref = r /\ next.sub = NoSub
      BY DEF Idle
    <3>2. call' = [call EXCEPT ![c] = next]
      BY <2>3 DEF Start
    <3> HIDE DEF next
    <3>3. QED
      BY <2>2, <3>1, <3>2
  <2>4. ASSUME NEW s \in Active, row[s].plan = pay[r].plan,
               Start(c, [Idle EXCEPT !.pc = "verify", !.ref = r, !.sub = s, !.snap = row[s]])
        PROVE  RequestFacts'
    <3> DEFINE next == [Idle EXCEPT !.pc = "verify", !.ref = r, !.sub = s, !.snap = row[s]]
    <3>1. next.pc = "verify" /\ next.ref = r /\ next.snap = row[s]
      BY DEF Idle
    <3>2. call' = [call EXCEPT ![c] = next]
      BY <2>4 DEF Start
    <3>3. row[s].status = "active"
      BY DEF Active
    <3> HIDE DEF next
    <3>4. QED
      BY <2>2, <2>4, <3>1, <3>2, <3>3
  <2>5. QED
    BY <1>4, <2>3, <2>4 DEF VerifyLoad
<1>5. ASSUME NEW c \in Callers, VerifyLock(c) PROVE RequestFacts'
  <2>1. call[c] \in Call /\ call \in [Callers -> Call]
    BY DEF TypeOK
  <2>2. /\ call' = [call EXCEPT ![c] = [call[c] EXCEPT !.pc = "verifyLocked",
                                            !.seen = ledgerEntryExists(call[c].ref)]]
        /\ call[c].pc = "verify" /\ UNCHANGED pay
    BY <1>5, <2>1 DEF VerifyLock
  <2>3. QED
    BY <2>1, <2>2 DEF RequestFacts, Call
<1>6. ASSUME NEW c \in Callers,
             \/ upsertFreshSubscription(c) \/ VerifyAbort(c) \/ CancelAtPeriodEnd(c)
             \/ CancelNow(c) \/ Resume(c) \/ applyUpgrade(c) \/ applyDowngrade(c)
      PROVE  RequestFacts'
  <2>1. Return(c) /\ UNCHANGED pay
    BY <1>6 DEF upsertFreshSubscription, VerifyAbort, CancelAtPeriodEnd, CancelNow, Resume,
                applyUpgrade, applyDowngrade
  <2>2. QED
    BY <2>1, RequestReturn
<1>7. ASSUME NEW c \in Callers, NEW op \in {"cancelEnd", "cancelNow"}, CancelLoad(c, op)
      PROVE  RequestFacts'
  <2>1. activeSubscription \in Subs
    BY <1>7, MaxInSet DEF CancelLoad, Active, activeSubscription
  <2> DEFINE next == [Idle EXCEPT !.pc = op, !.sub = activeSubscription]
  <2>2. next.pc = op /\ next.sub \in Subs
    BY <2>1 DEF Idle
  <2>3. call' = [call EXCEPT ![c] = next] /\ UNCHANGED pay
    BY <1>7 DEF CancelLoad, Start
  <2> HIDE DEF next
  <2>4. QED
    BY <2>2, <2>3 DEF TypeOK, RequestFacts
<1>8. ASSUME NEW c \in Callers, ResumeLoad(c) PROVE RequestFacts'
  <2>1. activeSubscription \in Subs
    BY <1>8, MaxInSet DEF ResumeLoad, Active, activeSubscription
  <2> DEFINE next == [Idle EXCEPT !.pc = "resume", !.sub = activeSubscription]
  <2>2. next.pc = "resume" /\ next.sub \in Subs
    BY <2>1 DEF Idle
  <2>3. call' = [call EXCEPT ![c] = next] /\ UNCHANGED pay
    BY <1>8 DEF ResumeLoad, Start
  <2> HIDE DEF next
  <2>4. QED
    BY <2>2, <2>3 DEF TypeOK, RequestFacts
<1>9. ASSUME NEW c \in Callers, NEW q \in Quotes, NEW r \in Refs \cup {NoRef}, ApplyLoad(c, q, r)
      PROVE  RequestFacts'
  <2>1. quote[q].kind \in {"upgrade", "downgrade"} /\ quote[q].sub \in Subs
    BY <1>9 DEF TypeOK, Quote, QuoteFacts, ApplyLoad
  <2>2. quote[q].kind = "upgrade" => r \in Refs
    BY <1>9 DEF ApplyLoad
  <2> DEFINE next == [Idle EXCEPT !.pc = quote[q].kind, !.quote = q, !.ref = r,
                                  !.sub = quote[q].sub]
  <2>3. next.pc = quote[q].kind /\ next.quote = q /\ next.ref = r /\ next.sub = quote[q].sub
    BY DEF Idle
  <2>4. call' = [call EXCEPT ![c] = next] /\ UNCHANGED pay
    BY <1>9 DEF ApplyLoad, Start
  <2> HIDE DEF next
  <2>5. QED
    BY <2>1, <2>2, <2>3, <2>4 DEF TypeOK, RequestFacts
<1>10. ASSUME NEW q \in Quotes, NEW to \in Plans, NEW half \in 0 .. 1, PreviewChange(q, to, half)
       PROVE  RequestFacts'
  BY <1>10, RequestFrame DEF PreviewChange
<1>11. ASSUME Tick PROVE RequestFacts'
  BY <1>11 DEF Tick, RequestFacts
<1>12. CASE UNCHANGED vars
  BY <1>12, RequestFrame DEF vars
<1>13. QED
  BY <1>1, <1>2, <1>3, <1>4, <1>5, <1>6, <1>7, <1>8, <1>9, <1>10, <1>11, <1>12
  DEF Next, Request, Proceed

(* A worker that will move its row to the free plan loaded that target.    *)
LEMMA WorkerStep ==
  ASSUME TypeOK, CarriedFacts, [Next]_vars
  PROVE  WorkerFacts'
<1>1. WorkerFacts /\ job \in [Subs -> Job]
  BY DEF CarriedFacts, TypeOK
<1>2. ASSUME UNCHANGED job PROVE WorkerFacts'
  BY <1>1, <1>2 DEF WorkerFacts
<1>3. ASSUME NEW s \in Subs, NEW next, next.pc # "free", job' = [job EXCEPT ![s] = next]
      PROVE  WorkerFacts'
  BY <1>1, <1>3 DEF WorkerFacts
<1>4. ASSUME NEW s \in Subs, RenewLoad(s) PROVE WorkerFacts'
  <2>1. CASE DecideRenewal(row[s]) = "free"
    <3>1. row[s] \in Row
      BY DEF TypeOK
    <3>2. Target(row[s]) \in Plans
      BY <3>1 DEF Row, Target
    <3>3. Target(row[s]) = Free
      BY <2>1, <3>2, ConstantsOK DEF DecideRenewal
    <3>4. QED
      BY <1>1, <1>4, <2>1, <3>3 DEF RenewLoad, WorkerFacts
  <2>2. CASE DecideRenewal(row[s]) # "free"
    BY <1>1, <1>4, <2>2 DEF RenewLoad, WorkerFacts, NoJob
  <2>3. QED
    BY <2>1, <2>2
<1>5. ASSUME NEW s \in Subs, NEW ok \in BOOLEAN, chargeAuthorization(s, ok) PROVE WorkerFacts'
  BY <1>1, <1>5 DEF chargeAuthorization, WorkerFacts, Job
<1>6. ASSUME NEW s \in Subs, Sweep(s) \/ Crash(s) \/ RenewError(s) \/ PurgeArchive(s)
      PROVE  WorkerFacts'
  BY <1>1, <1>6 DEF Sweep, Crash, RenewError, PurgeArchive, WorkerFacts, NoJob
<1>7. ASSUME NEW s \in Subs, Done(s) PROVE WorkerFacts'
  BY <1>1, <1>7 DEF Done, WorkerFacts, NoJob
<1>8. ASSUME NEW s \in Subs, Worker(s) PROVE WorkerFacts'
  BY <1>4, <1>5, <1>7, <1>8
  DEF Worker, Charge, Settle, finalizeCancel, transitionToFree, markPastDue, recordChargeFailure,
      applySuccessfulRenewal
<1>9. ASSUME NEW c \in Callers, Request(c) \/ Proceed(c) PROVE WorkerFacts'
  BY <1>2, <1>9
  DEF Request, Proceed, VerifyLoad, CancelLoad, ResumeLoad, ApplyLoad, VerifyLock,
      upsertFreshSubscription, VerifyAbort, CancelAtPeriodEnd, CancelNow, Resume,
      applyUpgrade, applyDowngrade
<1>10. CASE UNCHANGED vars
  BY <1>2, <1>10 DEF vars
<1>11. QED
  BY <1>2, <1>6, <1>8, <1>9, <1>10 DEF Next, PayCheckout, PayUpgrade, PreviewChange, Tick

(* A quote names a row from the moment it exists, and a reference only     *)
(* once it is consumed; no step takes either back.                         *)
LEMMA QuoteStep ==
  ASSUME TypeOK, CarriedFacts, [Next]_vars
  PROVE  QuoteFacts'
<1>1. QuoteFacts /\ quote \in [Quotes -> Quote]
  BY DEF CarriedFacts, TypeOK
<1>2. ASSUME UNCHANGED quote PROVE QuoteFacts'
  BY <1>1, <1>2 DEF QuoteFacts
<1>3. ASSUME NEW q \in Quotes, NEW to \in Plans, NEW half \in 0 .. 1, PreviewChange(q, to, half)
      PROVE  QuoteFacts'
  <2>1. activeSubscription \in Subs
    BY <1>3, MaxInSet DEF PreviewChange, Active, activeSubscription
  <2>2. /\ quote'[q].sub = activeSubscription /\ quote'[q].ref = NoRef
        /\ \A o \in Quotes \ {q} : quote'[o] = quote[o]
    BY <1>1, <1>3 DEF PreviewChange
  <2>3. QED
    BY <1>1, <2>1, <2>2 DEF QuoteFacts
<1>4. ASSUME NEW c \in Callers, applyUpgrade(c) PROVE QuoteFacts'
  <2> DEFINE q == call[c].quote
             r == call[c].ref
  <2>1. q \in Quotes
    BY <1>4 DEF applyUpgrade, CarriedFacts, RequestFacts
  <2>2. CASE UNCHANGED quote
    BY <1>2, <2>2
  <2>3. CASE /\ ~Consumed(q)
             /\ quote' = [quote EXCEPT ![q] = [quote[q] EXCEPT !.st = "consumed", !.ref = r]]
    <3>1. quote[q] \in Quote
      BY <1>1, <2>1
    <3>2. QED
      BY <1>1, <2>1, <2>3, <3>1 DEF QuoteFacts, Quote
  <2>4. QED
    BY <1>4, <2>2, <2>3 DEF applyUpgrade
<1>5. ASSUME NEW c \in Callers, applyDowngrade(c) PROVE QuoteFacts'
  <2> DEFINE q == call[c].quote
  <2>1. q \in Quotes
    BY <1>5 DEF applyDowngrade, CarriedFacts, RequestFacts
  <2>2. quote[q] \in Quote
    BY <1>1, <2>1
  <2>3. \/ UNCHANGED quote
        \/ quote' = [quote EXCEPT ![q] = [quote[q] EXCEPT !.st = "consumed"]]
    BY <1>1, <1>5, <2>1 DEF applyDowngrade
  <2>4. QED
    BY <1>1, <1>2, <2>1, <2>2, <2>3 DEF QuoteFacts, Quote
<1>6. ASSUME Tick PROVE QuoteFacts'
  <2>1. ASSUME NEW q \in Quotes
        PROVE  /\ quote'[q].sub = quote[q].sub /\ quote'[q].ref = quote[q].ref
               /\ quote[q].st = "consumed" => quote'[q].st = "consumed"
               /\ quote'[q].st # "open"
    <3>1. quote[q] \in Quote
      BY <1>1
    <3>2. quote'[q] = [quote[q] EXCEPT !.st = IF @ = "open" THEN "expired" ELSE @]
      BY <1>6 DEF Tick
    <3>3. QED
      BY <3>1, <3>2 DEF Quote
  <2>2. QED
    BY <1>1, <2>1 DEF QuoteFacts
<1>7. ASSUME NEW s \in Subs, Sweep(s) \/ Worker(s) \/ Crash(s) \/ RenewError(s) \/ PurgeArchive(s)
      PROVE  QuoteFacts'
  BY <1>2, <1>7
  DEF Sweep, Worker, Charge, Settle, Crash, RenewError, PurgeArchive, RenewLoad,
      finalizeCancel, transitionToFree, markPastDue, chargeAuthorization,
      recordChargeFailure, applySuccessfulRenewal
<1>8. ASSUME NEW c \in Callers, Request(c) \/ Proceed(c) PROVE QuoteFacts'
  BY <1>2, <1>4, <1>5, <1>8
  DEF Request, Proceed, VerifyLoad, CancelLoad, ResumeLoad, ApplyLoad, VerifyLock,
      upsertFreshSubscription, VerifyAbort, CancelAtPeriodEnd, CancelNow, Resume
<1>9. CASE UNCHANGED vars
  BY <1>2, <1>9 DEF vars
<1>10. QED
  BY <1>2, <1>3, <1>6, <1>7, <1>8, <1>9 DEF Next, PayCheckout, PayUpgrade

(* A step that leaves the ledger and the org row's lock alone, and lets no *)
(* request into its locked section, keeps what the lock protects.          *)
LEMMA LockFrame ==
  ASSUME LockFacts, UNCHANGED <<granted, holder>>,
         \A c \in Callers : call'[c].pc = "verifyLocked" => call'[c] = call[c]
  PROVE  LockFacts'
BY DEF LockFacts, ledgerEntryExists

(* Between the look-up of a Verify and its insert nobody else inserts: the *)
(* other writers of the ledger wait for the org row.                       *)
LEMMA LockStep ==
  ASSUME TypeOK, CarriedFacts, [Next]_vars
  PROVE  LockFacts'
<1>1. LockFacts /\ call \in [Callers -> Call] /\ NoOne \notin Callers
  BY ConstantsOK DEF CarriedFacts, TypeOK
<1>2. ASSUME UNCHANGED <<granted, holder, call>> PROVE LockFacts'
  BY <1>1, <1>2, LockFrame
<1>3. ASSUME NEW c \in Callers, Return(c) PROVE call'[c].pc = "idle" /\
             \A d \in Callers : d # c => call'[d] = call[d]
  BY <1>1, <1>3 DEF Return, Idle
<1>4. ASSUME NEW c \in Callers, NEW next, Start(c, next), next.pc # "verifyLocked",
             UNCHANGED <<granted, holder>>
      PROVE  LockFacts'
  BY <1>1, <1>4, LockFrame DEF Start
<1>5. ASSUME NEW c \in Callers, Return(c), UNCHANGED <<granted, holder>> PROVE LockFacts'
  BY <1>1, <1>3, <1>5, LockFrame
<1>6. ASSUME NEW c \in Callers, Request(c) PROVE LockFacts'
  <2>1. ASSUME NEW r \in Refs, VerifyLoad(c, r) PROVE LockFacts'
    <3>1. ASSUME NEW s, NEW snap
          PROVE  [Idle EXCEPT !.pc = "verify", !.ref = r, !.sub = s, !.snap = snap].pc = "verify"
      BY DEF Idle
    <3>2. [Idle EXCEPT !.pc = "verify", !.ref = r].pc = "verify"
      BY DEF Idle
    <3>3. QED
      BY <1>4, <2>1, <3>1, <3>2 DEF VerifyLoad
  <2>2. ASSUME NEW op \in {"cancelEnd", "cancelNow"}, CancelLoad(c, op) PROVE LockFacts'
    <3>1. [Idle EXCEPT !.pc = op, !.sub = activeSubscription].pc = op
      BY DEF Idle
    <3>2. QED
      BY <1>4, <2>2, <3>1 DEF CancelLoad
  <2>3. ASSUME ResumeLoad(c) PROVE LockFacts'
    <3>1. [Idle EXCEPT !.pc = "resume", !.sub = activeSubscription].pc = "resume"
      BY DEF Idle
    <3>2. QED
      BY <1>4, <2>3, <3>1 DEF ResumeLoad
  <2>4. ASSUME NEW q \in Quotes, NEW r \in Refs \cup {NoRef}, ApplyLoad(c, q, r)
        PROVE  LockFacts'
    <3>1. quote[q].kind # "verifyLocked"
      BY DEF TypeOK, Quote
    <3>2. [Idle EXCEPT !.pc = quote[q].kind, !.quote = q, !.ref = r,
                       !.sub = quote[q].sub].pc = quote[q].kind
      BY DEF Idle
    <3>3. QED
      BY <1>4, <2>4, <3>1, <3>2 DEF ApplyLoad
  <2>5. QED
    BY <1>6, <2>1, <2>2, <2>3, <2>4 DEF Request
<1>7. ASSUME NEW c \in Callers, VerifyLock(c) PROVE LockFacts'
  <2>1. call[c] \in Call /\ holder = NoOne /\ holder' = c /\ UNCHANGED granted
    BY <1>1, <1>7 DEF VerifyLock, OrgFree
  <2>2. call' = [call EXCEPT ![c] = [call[c] EXCEPT !.pc = "verifyLocked",
                                       !.seen = ledgerEntryExists(call[c].ref)]]
    BY <1>7 DEF VerifyLock
  <2>3. /\ call'[c].seen = ledgerEntryExists(call[c].ref) /\ call'[c].ref = call[c].ref
        /\ \A d \in Callers : d # c => call'[d] = call[d] /\ call[d].pc # "verifyLocked"
    BY <1>1, <2>1, <2>2 DEF Call, LockFacts
  <2>4. QED
    BY <2>1, <2>3 DEF LockFacts, ledgerEntryExists
<1>8. ASSUME NEW c \in Callers, upsertFreshSubscription(c) PROVE LockFacts'
  <2>1. \A d \in Callers : d # c => call[d].pc # "verifyLocked"
    BY <1>1, <1>8 DEF upsertFreshSubscription, LockFacts
  <2>2. QED
    BY <1>3, <1>8, <2>1 DEF upsertFreshSubscription, LockFacts
<1>9. ASSUME NEW c \in Callers, VerifyAbort(c) PROVE LockFacts'
  BY <1>1, <1>3, <1>9 DEF VerifyAbort, LockFacts, ledgerEntryExists
<1>10. ASSUME NEW c \in Callers, applyUpgrade(c) PROVE LockFacts'
  <2>1. \A d \in Callers : call[d].pc # "verifyLocked"
    BY <1>1, <1>10 DEF applyUpgrade, OrgFree, LockFacts
  <2>2. QED
    BY <1>3, <1>10, <2>1 DEF applyUpgrade, LockFacts
<1>11. ASSUME NEW c \in Callers,
              CancelAtPeriodEnd(c) \/ CancelNow(c) \/ Resume(c) \/ applyDowngrade(c)
       PROVE  LockFacts'
  BY <1>5, <1>11 DEF CancelAtPeriodEnd, CancelNow, Resume, applyDowngrade
<1>12. ASSUME NEW s \in Subs, Sweep(s) \/ Worker(s) \/ Crash(s) \/ RenewError(s) \/ PurgeArchive(s)
       PROVE  LockFacts'
  BY <1>2, <1>12
  DEF Sweep, Worker, Charge, Settle, Crash, RenewError, PurgeArchive, RenewLoad,
      finalizeCancel, transitionToFree, markPastDue, chargeAuthorization,
      recordChargeFailure, applySuccessfulRenewal
<1>13. CASE UNCHANGED vars
  BY <1>2, <1>13 DEF vars
<1>14. QED
  BY <1>2, <1>6, <1>7, <1>8, <1>9, <1>10, <1>11, <1>12, <1>13
  DEF Next, Proceed, PayCheckout, PayUpgrade, PreviewChange, Tick

(* Every part of CarriedFacts is preserved.                                *)
LEMMA CarriedStep == TypeOK /\ CarriedFacts /\ [Next]_vars => CarriedFacts'
BY RequestStep, WorkerStep, QuoteStep, LockStep DEF CarriedFacts
-----------------------------------------------------------------------------
(* orgs.plan_slug against the subscriptions.                               *)

(* A step that keeps the slug, every plan and every live row.              *)
LEMMA BackedFrame ==
  ASSUME PaidPlanIsBacked, UNCHANGED org,
         \A s \in Subs : /\ row'[s].plan = row[s].plan
                         /\ row[s].status \in {"active", "past_due"}
                              => row'[s].status \in {"active", "past_due"}
  PROVE  PaidPlanIsBacked'
BY DEF PaidPlanIsBacked

(* A slug that names the plan of an active row is backed.                  *)
LEMMA BackedByActive ==
  ASSUME NEW s \in Subs, row'[s].plan = org', row'[s].status = "active"
  PROVE  PaidPlanIsBacked'
BY DEF PaidPlanIsBacked

(* No step leaves orgs.plan_slug on a paid plan nobody holds.              *)
LEMMA BackedStep ==
  ASSUME TypeOK, CarriedFacts, PaidPlanIsBacked, [Next]_vars
  PROVE  PaidPlanIsBacked'
<1>1. row \in [Subs -> Row]
  BY DEF TypeOK
<1>2. ASSUME UNCHANGED <<row, org>> PROVE PaidPlanIsBacked'
  BY <1>2, BackedFrame
<1>3. ASSUME NEW s \in Subs, finalizeCancel(s) PROVE PaidPlanIsBacked'
  BY <1>3 DEF finalizeCancel, PaidPlanIsBacked
<1>4. ASSUME NEW s \in Subs, transitionToFree(s) PROVE PaidPlanIsBacked'
  <2>1. job[s].target = Free
    BY <1>4 DEF transitionToFree, CarriedFacts, WorkerFacts
  <2>2. QED
    BY <1>4, <2>1 DEF transitionToFree, PaidPlanIsBacked
<1>5. ASSUME NEW s \in Subs, markPastDue(s) PROVE PaidPlanIsBacked'
  <2>1. ASSUME NEW t \in Subs
        PROVE  /\ row'[t].plan = row[t].plan
               /\ row[t].status \in {"active", "past_due"}
                    => row'[t].status \in {"active", "past_due"}
    <3>1. row[t] \in Row
      BY <1>1
    <3>2. row'[t] = IF t = s THEN [row[s] EXCEPT !.status = "past_due", !.tried = TRUE] ELSE row[t]
      BY <1>1, <1>5 DEF markPastDue
    <3>3. QED
      BY <3>1, <3>2 DEF Row
  <2>2. QED
    BY <1>5, <2>1, BackedFrame DEF markPastDue
<1>6. ASSUME NEW s \in Subs, recordChargeFailure(s) PROVE PaidPlanIsBacked'
  <2>1. ASSUME NEW t \in Subs
        PROVE  /\ row'[t].plan = row[t].plan
               /\ row[t].status \in {"active", "past_due"}
                    => row'[t].status \in {"active", "past_due"}
    <3>1. row[t] \in Row
      BY <1>1
    <3>2. row'[t] = IF t = s THEN FailedRow(row[s], job[s].attempts + 1) ELSE row[t]
      BY <1>1, <1>6 DEF recordChargeFailure
    <3>3. QED
      BY <3>1, <3>2 DEF Row, FailedRow
  <2>2. QED
    BY <1>6, <2>1, BackedFrame DEF recordChargeFailure
<1>7. ASSUME NEW s \in Subs, NEW auth \in BOOLEAN, applySuccessfulRenewal(s, auth)
      PROVE  PaidPlanIsBacked'
  <2>1. CASE row[s].end > 0
    BY <1>2, <1>7, <2>1 DEF applySuccessfulRenewal
  <2>2. CASE ~(row[s].end > 0)
    <3>1. row[s] \in Row
      BY <1>1
    <3>2. /\ org' = job[s].target
          /\ row'[s] = [row[s] EXCEPT !.plan = job[s].target, !.status = "active",
                          !.pend = NoPlan, !.end = job[s].end + Period, !.attempts = 0,
                          !.tried = TRUE, !.auth = auth]
      BY <1>1, <1>7, <2>2 DEF applySuccessfulRenewal
    <3>3. row'[s].plan = org' /\ row'[s].status = "active"
      BY <3>1, <3>2 DEF Row
    <3>4. QED
      BY <3>3, BackedByActive
  <2>3. QED
    BY <2>1, <2>2
<1>8. ASSUME NEW c \in Callers, upsertFreshSubscription(c) PROVE PaidPlanIsBacked'
  <2> DEFINE r == call[c].ref
             unused == {s \in Subs : row[s].status = "none"}
             s == IF call[c].sub = NoSub THEN Min(unused) ELSE call[c].sub
             saved == IF call[c].sub = NoSub
                      THEN [NewRow EXCEPT !.status = "active", !.plan = pay[r].plan]
                      ELSE call[c].snap
  <2>1. call[c] \in Call /\ r \in Refs /\ pay[r] \in Payment
    BY <1>8 DEF TypeOK, CarriedFacts, RequestFacts, upsertFreshSubscription
  <2>2. s \in Subs
    <3>1. CASE call[c].sub = NoSub
      <4>1. unused \in SUBSET Subs /\ unused # {}
        BY <1>8, <3>1 DEF upsertFreshSubscription
      <4>2. QED
        BY <3>1, <4>1, MinInSet
    <3>2. CASE call[c].sub # NoSub
      BY <2>1, <3>2 DEF Call
    <3>3. QED
      BY <3>1, <3>2
  <2>3. saved \in Row /\ saved.status = "active" /\ saved.plan = pay[r].plan
    <3>1. CASE call[c].sub = NoSub
      BY <2>1, <3>1, NewRowType DEF Row, Payment
    <3>2. CASE call[c].sub # NoSub
      BY <1>8, <2>1, <3>2
      DEF Call, upsertFreshSubscription, CarriedFacts, RequestFacts
    <3>3. QED
      BY <3>1, <3>2
  <2>4. /\ org' = pay[r].plan
        /\ row' = [row EXCEPT ![s] = [saved EXCEPT !.end = pay[r].end, !.auth = pay[r].auth]]
    BY <1>8 DEF upsertFreshSubscription
  <2>5. row'[s] = [saved EXCEPT !.end = pay[r].end, !.auth = pay[r].auth]
    BY <1>1, <2>2, <2>4
  <2>6. row'[s].plan = org' /\ row'[s].status = "active"
    <3> HIDE DEF saved, s, r
    <3>1. /\ [saved EXCEPT !.end = pay[r].end, !.auth = pay[r].auth].plan = saved.plan
          /\ [saved EXCEPT !.end = pay[r].end, !.auth = pay[r].auth].status = saved.status
      BY <2>3 DEF Row
    <3>2. QED
      BY <2>3, <2>4, <2>5, <3>1
  <2>7. QED
    BY <2>2, <2>6, BackedByActive
<1>9. ASSUME NEW c \in Callers, CancelNow(c) PROVE PaidPlanIsBacked'
  BY <1>9 DEF CancelNow, PaidPlanIsBacked
<1>10. ASSUME NEW c \in Callers, CancelAtPeriodEnd(c) \/ Resume(c) \/ applyDowngrade(c)
       PROVE  PaidPlanIsBacked'
  <2>1. ASSUME NEW t \in Subs
        PROVE  row'[t].plan = row[t].plan /\ row'[t].status = row[t].status
    <3>1. row[t] \in Row
      BY <1>1
    <3>2. CASE CancelAtPeriodEnd(c)
      BY <1>1, <3>1, <3>2 DEF CancelAtPeriodEnd, Row
    <3>3. CASE Resume(c)
      BY <1>1, <3>1, <3>3 DEF Resume, Row
    <3>4. CASE applyDowngrade(c)
      BY <1>1, <3>1, <3>4 DEF applyDowngrade, Row
    <3>5. QED
      BY <1>10, <3>2, <3>3, <3>4
  <2>2. UNCHANGED org
    BY <1>10 DEF CancelAtPeriodEnd, Resume, applyDowngrade
  <2>3. QED
    BY <2>1, <2>2, BackedFrame
<1>11. ASSUME NEW c \in Callers, applyUpgrade(c) PROVE PaidPlanIsBacked'
  <2> DEFINE q == call[c].quote
             s == call[c].sub
             r == call[c].ref
  <2>1. CASE Consumed(q) \/ Refused(q, r)
    BY <1>2, <1>11, <2>1 DEF applyUpgrade
  <2>2. CASE ~(Consumed(q) \/ Refused(q, r))
    <3>1. s \in Subs /\ row[s] \in Row
      BY <1>1, <1>11 DEF applyUpgrade, CarriedFacts, RequestFacts
    <3>2. /\ org' = quote[q].to
          /\ row'[s] = [row[s] EXCEPT !.plan = quote[q].to, !.status = "active",
                                      !.pend = NoPlan, !.auth = pay[r].auth]
      BY <1>1, <1>11, <2>2, <3>1 DEF applyUpgrade
    <3>3. row'[s].plan = org' /\ row'[s].status = "active"
      BY <3>1, <3>2 DEF Row
    <3>4. QED
      BY <3>1, <3>3, BackedByActive
  <2>3. QED
    BY <2>1, <2>2
<1>12. ASSUME Tick PROVE PaidPlanIsBacked'
  <2>1. ASSUME NEW t \in Subs
        PROVE  row'[t].plan = row[t].plan /\ row'[t].status = row[t].status
    <3>1. row[t] \in Row
      BY <1>1
    <3>2. row'[t] = [row[t] EXCEPT !.end = Clamp(@ - 1), !.tried = FALSE]
      BY <1>12 DEF Tick
    <3>3. QED
      BY <3>1, <3>2 DEF Row
  <2>2. QED
    BY <1>12, <2>1, BackedFrame DEF Tick
<1>13. ASSUME NEW s \in Subs, Sweep(s) \/ Worker(s) \/ Crash(s) \/ RenewError(s) \/ PurgeArchive(s)
       PROVE  PaidPlanIsBacked'
  BY <1>2, <1>3, <1>4, <1>5, <1>6, <1>7, <1>13
  DEF Sweep, Worker, Charge, Settle, Crash, RenewError, PurgeArchive, RenewLoad, chargeAuthorization
<1>14. ASSUME NEW c \in Callers, Request(c) \/ Proceed(c) PROVE PaidPlanIsBacked'
  BY <1>2, <1>8, <1>9, <1>10, <1>11, <1>14
  DEF Request, Proceed, VerifyLoad, CancelLoad, ResumeLoad, ApplyLoad, VerifyLock, VerifyAbort
<1>15. CASE UNCHANGED vars
  BY <1>2, <1>15 DEF vars
<1>16. QED
  BY <1>2, <1>12, <1>13, <1>14, <1>15 DEF Next, PayCheckout, PayUpgrade, PreviewChange
-----------------------------------------------------------------------------
(* Credits and plan changes happen once.                                   *)

(* The look-up a grant relies on is current: it inserts at most once.      *)
LEMMA GrantStep ==
  ASSUME TypeOK, CarriedFacts, OneGrantPerReference, [Next]_vars
  PROVE  OneGrantPerReference'
<1>1. ASSUME UNCHANGED granted PROVE OneGrantPerReference'
  BY <1>1 DEF OneGrantPerReference
<1>2. ASSUME NEW x \in Refs \cup Quotes, GrantWithTx(x, ledgerEntryExists(x))
      PROVE  OneGrantPerReference'
  BY <1>2 DEF GrantWithTx, ledgerEntryExists, OneGrantPerReference, TypeOK
<1>3. ASSUME NEW c \in Callers, Request(c) \/ Proceed(c) PROVE OneGrantPerReference'
  <2>1. ASSUME upsertFreshSubscription(c)
        PROVE  /\ call[c].ref \in Refs
               /\ call[c].seen = ledgerEntryExists(call[c].ref)
    BY <2>1 DEF upsertFreshSubscription, CarriedFacts, RequestFacts, LockFacts
  <2>2. ASSUME upsertFreshSubscription(c) PROVE OneGrantPerReference'
    BY <1>1, <1>2, <2>1, <2>2 DEF upsertFreshSubscription
  <2>3. ASSUME applyUpgrade(c) PROVE OneGrantPerReference'
    <3>1. call[c].quote \in Quotes
      BY <2>3 DEF applyUpgrade, CarriedFacts, RequestFacts
    <3>2. QED
      BY <1>1, <1>2, <2>3, <3>1 DEF applyUpgrade
  <2>4. QED
    BY <1>1, <1>3, <2>2, <2>3
    DEF Request, Proceed, VerifyLoad, CancelLoad, ResumeLoad, ApplyLoad, VerifyLock,
        VerifyAbort, CancelAtPeriodEnd, CancelNow, Resume, applyDowngrade
<1>4. ASSUME NEW s \in Subs, Sweep(s) \/ Worker(s) \/ Crash(s) \/ RenewError(s) \/ PurgeArchive(s)
      PROVE  OneGrantPerReference'
  BY <1>1, <1>4
  DEF Sweep, Worker, Charge, Settle, Crash, RenewError, PurgeArchive, RenewLoad,
      finalizeCancel, transitionToFree, markPastDue, chargeAuthorization,
      recordChargeFailure, applySuccessfulRenewal
<1>5. CASE UNCHANGED vars
  BY <1>1, <1>5 DEF vars
<1>6. QED
  BY <1>1, <1>3, <1>4, <1>5 DEF Next, PayCheckout, PayUpgrade, PreviewChange, Tick

(* A plan change is on record: the quote it used is consumed, and the      *)
(* reference that paid for it is the one stored on such a quote.           *)
AppliedFacts ==
  /\ \A q \in Quotes : applied[q] <= 1 /\ (quote[q].st # "consumed" => applied[q] = 0)
  /\ \A r \in Refs : applied[r] <= 1
                    /\ ((\A q \in Quotes : quote[q].ref # r) => applied[r] = 0)

(* A step that changes no history and un-consumes nothing.                 *)
LEMMA AppliedFrame ==
  ASSUME AppliedFacts, UNCHANGED applied,
         \A q \in Quotes : /\ quote[q].st = "consumed" => quote'[q].st = "consumed"
                           /\ quote[q].ref # NoRef => quote'[q].ref = quote[q].ref
  PROVE  AppliedFacts'
<1>1. ASSUME NEW q \in Quotes
      PROVE  applied'[q] <= 1 /\ (quote'[q].st # "consumed" => applied'[q] = 0)
  BY DEF AppliedFacts
<1>2. ASSUME NEW r \in Refs
      PROVE  applied'[r] <= 1 /\ ((\A q \in Quotes : quote'[q].ref # r) => applied'[r] = 0)
  <2>1. applied[r] <= 1 /\ r # NoRef
    BY ConstantsOK DEF AppliedFacts
  <2>2. ASSUME \A q \in Quotes : quote'[q].ref # r PROVE applied[r] = 0
    <3>1. \A q \in Quotes : quote[q].ref # r
      BY <2>1, <2>2
    <3>2. QED
      BY <3>1 DEF AppliedFacts
  <2>3. QED
    BY <2>1, <2>2
<1>3. QED
  BY <1>1, <1>2 DEF AppliedFacts

(* A plan change consumes its quote and records its reference.             *)
LEMMA AppliedStep ==
  ASSUME TypeOK, CarriedFacts, AppliedFacts, [Next]_vars
  PROVE  AppliedFacts'
<1>1. /\ quote \in [Quotes -> Quote] /\ applied \in [Refs \cup Quotes -> Nat]
      /\ QuoteFacts /\ Refs \cap Quotes = {} /\ NoRef \notin Refs
  BY ConstantsOK DEF TypeOK, CarriedFacts
<1>2. ASSUME UNCHANGED <<quote, applied>> PROVE AppliedFacts'
  BY <1>2, AppliedFrame
<1>3. ASSUME NEW q \in Quotes, NEW to \in Plans, NEW half \in 0 .. 1, PreviewChange(q, to, half)
      PROVE  AppliedFacts'
  <2>1. /\ quote[q].st = "none" /\ quote[q].ref = NoRef
        /\ \A o \in Quotes \ {q} : quote'[o] = quote[o]
        /\ UNCHANGED applied
    BY <1>1, <1>3 DEF PreviewChange, QuoteFacts
  <2>2. QED
    BY <2>1, AppliedFrame
<1>4. ASSUME NEW c \in Callers, applyUpgrade(c) PROVE AppliedFacts'
  <2> DEFINE q == call[c].quote
             r == call[c].ref
  <2>1. q \in Quotes /\ r \in Refs
    BY <1>4 DEF applyUpgrade, CarriedFacts, RequestFacts
  <2>2. CASE Consumed(q) \/ Refused(q, r)
    BY <1>2, <1>4, <2>2 DEF applyUpgrade
  <2>3. CASE ~(Consumed(q) \/ Refused(q, r))
    <3>1. /\ applied' = [applied EXCEPT ![r] = @ + 1, ![q] = @ + 1]
          /\ quote' = [quote EXCEPT ![q] = [quote[q] EXCEPT !.st = "consumed", !.ref = r]]
      BY <1>4, <2>3 DEF applyUpgrade
    <3>2. quote'[q].st = "consumed" /\ quote'[q].ref = r
      BY <1>1, <2>1, <3>1 DEF Quote
    <3>3. \A o \in Quotes \ {q} : quote'[o] = quote[o]
      BY <1>1, <3>1
    <3>4. quote[q].st # "consumed" /\ quote[q].ref = NoRef
      BY <1>1, <2>1, <2>3 DEF Consumed, QuoteFacts
    <3>5. \A o \in Quotes : quote[o].ref # r
      BY <1>1, <2>1, <2>3, <3>4 DEF Refused
    <3>6. applied[q] = 0 /\ applied[r] = 0
      BY <2>1, <3>4, <3>5 DEF AppliedFacts
    <3>7. q # r
      BY <1>1, <2>1
    <3>8. applied'[q] = 1 /\ applied'[r] = 1
      BY <1>1, <2>1, <3>1, <3>6, <3>7
    <3>9. \A x \in (Refs \cup Quotes) \ {q, r} : applied'[x] = applied[x]
      BY <1>1, <3>1
    <3> HIDE DEF q, r
    <3>10. ASSUME NEW o \in Quotes
           PROVE  applied'[o] <= 1 /\ (quote'[o].st # "consumed" => applied'[o] = 0)
      <4>1. CASE o = q
        BY <3>2, <3>8, <4>1
      <4>2. CASE o # q
        <5>1. o # r
          BY <1>1, <2>1
        <5>2. QED
          BY <3>3, <3>9, <4>2, <5>1 DEF AppliedFacts
      <4>3. QED
        BY <4>1, <4>2
    <3>11. ASSUME NEW t \in Refs
           PROVE  /\ applied'[t] <= 1
                  /\ (\A o \in Quotes : quote'[o].ref # t) => applied'[t] = 0
      <4>1. CASE t = r
        BY <2>1, <3>2, <3>8, <4>1
      <4>2. CASE t # r
        <5>1. t # q /\ t # NoRef
          BY <1>1, <2>1
        <5>2. applied'[t] = applied[t]
          BY <3>9, <4>2, <5>1
        <5>3. (\A o \in Quotes : quote'[o].ref # t) => (\A o \in Quotes : quote[o].ref # t)
          BY <2>1, <3>3, <3>4, <5>1
        <5>4. QED
          BY <5>2, <5>3 DEF AppliedFacts
      <4>3. QED
        BY <4>1, <4>2
    <3>12. QED
      BY <3>10, <3>11 DEF AppliedFacts
  <2>4. QED
    BY <2>2, <2>3
<1>5. ASSUME NEW c \in Callers, applyDowngrade(c) PROVE AppliedFacts'
  <2> DEFINE q == call[c].quote
  <2>1. q \in Quotes
    BY <1>5 DEF applyDowngrade, CarriedFacts, RequestFacts
  <2>2. CASE Consumed(q)
    BY <1>2, <1>5, <2>2 DEF applyDowngrade
  <2>3. CASE ~Consumed(q)
    <3>1. /\ applied' = [applied EXCEPT ![q] = @ + 1]
          /\ quote' = [quote EXCEPT ![q] = [quote[q] EXCEPT !.st = "consumed"]]
      BY <1>1, <1>5, <2>1, <2>3 DEF applyDowngrade
    <3>2. quote'[q].st = "consumed" /\ quote'[q].ref = quote[q].ref
      BY <1>1, <2>1, <3>1 DEF Quote
    <3>3. \A o \in Quotes \ {q} : quote'[o] = quote[o]
      BY <1>1, <3>1
    <3>4. applied[q] = 0
      BY <2>1, <2>3 DEF AppliedFacts, Consumed
    <3>5. applied'[q] = 1 /\ \A x \in (Refs \cup Quotes) \ {q} : applied'[x] = applied[x]
      BY <1>1, <2>1, <3>1, <3>4
    <3>6. \A t \in Refs : t # q
      BY <1>1, <2>1
    <3> HIDE DEF q
    <3>7. ASSUME NEW o \in Quotes
          PROVE  applied'[o] <= 1 /\ (quote'[o].st # "consumed" => applied'[o] = 0)
      BY <3>2, <3>3, <3>5 DEF AppliedFacts
    <3>8. ASSUME NEW t \in Refs
          PROVE  /\ applied'[t] <= 1
                 /\ (\A o \in Quotes : quote'[o].ref # t) => applied'[t] = 0
      <4>1. applied'[t] = applied[t]
        BY <3>5, <3>6
      <4>2. (\A o \in Quotes : quote'[o].ref # t) => (\A o \in Quotes : quote[o].ref # t)
        BY <3>2, <3>3
      <4>3. QED
        BY <4>1, <4>2 DEF AppliedFacts
    <3>9. QED
      BY <3>7, <3>8 DEF AppliedFacts
  <2>4. QED
    BY <2>2, <2>3
<1>6. ASSUME Tick PROVE AppliedFacts'
  <2>1. ASSUME NEW q \in Quotes
        PROVE  /\ quote[q].st = "consumed" => quote'[q].st = "consumed"
               /\ quote'[q].ref = quote[q].ref
    <3>1. quote[q] \in Quote
      BY <1>1
    <3>2. quote'[q] = [quote[q] EXCEPT !.st = IF @ = "open" THEN "expired" ELSE @]
      BY <1>6 DEF Tick
    <3>3. QED
      BY <3>1, <3>2 DEF Quote
  <2>2. QED
    BY <1>6, <2>1, AppliedFrame DEF Tick
<1>7. ASSUME NEW s \in Subs, Sweep(s) \/ Worker(s) \/ Crash(s) \/ RenewError(s) \/ PurgeArchive(s)
      PROVE  AppliedFacts'
  BY <1>2, <1>7
  DEF Sweep, Worker, Charge, Settle, Crash, RenewError, PurgeArchive, RenewLoad,
      finalizeCancel, transitionToFree, markPastDue, chargeAuthorization,
      recordChargeFailure, applySuccessfulRenewal
<1>8. ASSUME NEW c \in Callers, Request(c) \/ Proceed(c) PROVE AppliedFacts'
  BY <1>2, <1>4, <1>5, <1>8
  DEF Request, Proceed, VerifyLoad, CancelLoad, ResumeLoad, ApplyLoad, VerifyLock,
      upsertFreshSubscription, VerifyAbort, CancelAtPeriodEnd, CancelNow, Resume
<1>9. CASE UNCHANGED vars
  BY <1>2, <1>9 DEF vars
<1>10. QED
  BY <1>2, <1>3, <1>6, <1>7, <1>8, <1>9 DEF Next, PayCheckout, PayUpgrade
-----------------------------------------------------------------------------
(* The inductive invariant and what follows from it.                       *)

IndInv == /\ TypeOK /\ CarriedFacts
          /\ PaidPlanIsBacked /\ OneGrantPerReference /\ AppliedFacts

(* The inductive invariant holds at the start.                             *)
LEMMA InitInd == Init => IndInv
<1> SUFFICES ASSUME Init PROVE IndInv
  OBVIOUS
<1>1. PaidPlanIsBacked
  BY DEF Init, PaidPlanIsBacked
<1>2. OneGrantPerReference
  BY DEF Init, OneGrantPerReference
<1>3. AppliedFacts
  BY DEF Init, AppliedFacts
<1>4. QED
  BY <1>1, <1>2, <1>3, InitType, InitCarried DEF IndInv

(* Every step keeps the inductive invariant.                               *)
LEMMA NextInd == IndInv /\ [Next]_vars => IndInv'
BY TypeStep, CarriedStep, BackedStep, GrantStep, AppliedStep DEF IndInv

(* Every conjunct of the inductive invariant holds in every reachable      *)
(* state of the renewal workers, the API requests and the provider.        *)
THEOREM Invariance == Spec => []IndInv
<1>1. Init => IndInv
  BY InitInd
<1>2. IndInv /\ [Next]_vars => IndInv'
  BY NextInd
<1>3. QED
  BY <1>1, <1>2, PTL DEF Spec

(* The tables, the task queue and the requests in flight are well typed.   *)
THEOREM TypeCorrectness == Spec => []TypeOK
<1>1. IndInv => TypeOK
  BY DEF IndInv
<1>2. QED
  BY <1>1, Invariance, PTL

(* What applyUpgrade, Verify and the renewal worker carry from an unlocked *)
(* read to their write is still valid when they write.                     *)
THEOREM ReadsStayValid == Spec => []CarriedFacts
<1>1. IndInv => CarriedFacts
  BY DEF IndInv
<1>2. QED
  BY <1>1, Invariance, PTL

(* orgs.plan_slug never names a paid plan that no active or past-due       *)
(* subscription backs, whatever requests and renewals interleave.          *)
THEOREM PlanSlugIsBacked == Spec => []PaidPlanIsBacked
<1>1. IndInv => PaidPlanIsBacked
  BY DEF IndInv
<1>2. QED
  BY <1>1, Invariance, PTL

(* GrantWithTx credits a payment reference or a quote at most once.        *)
THEOREM GrantsOnce == Spec => []OneGrantPerReference
<1>1. IndInv => OneGrantPerReference
  BY DEF IndInv
<1>2. QED
  BY <1>1, Invariance, PTL

(* Racing ApplyChange requests change the plan once per quote, and one     *)
(* payment pays for one quote.                                             *)
THEOREM UpgradesOnce == Spec => []UpgradeAppliedOnce
<1>1. IndInv => UpgradeAppliedOnce
  BY DEF IndInv, AppliedFacts, UpgradeAppliedOnce
<1>2. QED
  BY <1>1, Invariance, PTL
=============================================================================
