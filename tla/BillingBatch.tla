---------------------------- MODULE BillingBatch ----------------------------
(***************************************************************************)
(* The LLM-usage billing worker (internal/tasks/billing_batch_process.go,  *)
(* billing_batch_debits.go).  Every 30 s a task selects unbilled           *)
(* generations with FOR UPDATE SKIP LOCKED, locks each org concerned in    *)
(* id order, debits the org so that its LLM debits add up to the rounded   *)
(* cumulative cost, and marks the rows billed, all in one transaction.     *)
(*                                                                         *)
(* Costs are whole parts of a credit, PartsPerCredit to one.  A worker's   *)
(* locks and plan are visible to nobody until it commits; each org is read *)
(* in the step that locks it.                                              *)
(***************************************************************************)
EXTENDS Integers, FiniteSets, FiniteSetsExt, Functions

CONSTANTS
  Gens,            \* generations, numbered in created_at order
  OrgOf, Cost,     \* their org and cost in parts of a credit; 0: free, or unpriceable
  Orgs,            \* org ids, ordered
  Workers,         \* tasks that may run at once
  BatchSize,       \* billingBatchSize
  PartsPerCredit,
  Deposits,        \* amounts an org's balance may change by outside billing
  MaxDeposits      \* bound: such changes per behaviour

ASSUME BatchConstants ==
  /\ Gens \subseteq Nat /\ IsFiniteSet(Gens)
  /\ Orgs \subseteq Nat /\ IsFiniteSet(Orgs)
  /\ OrgOf \in [Gens -> Orgs] /\ Cost \in [Gens -> Nat]
  /\ BatchSize \in Nat \ {0} /\ PartsPerCredit \in Nat \ {0}
  /\ Deposits \subseteq Int /\ MaxDeposits \in Nat

VARIABLES
  gen,       \* the generations table: billing state and credits_debited
  balance,   \* sum of each org's ledger
  debited,   \* sum of each org's llm_tokens debits
  worker,    \* each task: the rows it locked, the orgs left to lock, its plan
  deposits   \* balance changes still to be made (bound)

vars == <<gen, balance, debited, worker, deposits>>

Gen == [st : {"absent", "unbilled", "billed", "insufficient"}, credits : Nat]
Batch == [pc : {"idle", "plan"}, rows : SUBSET Gens, todo : SUBSET Orgs,
          held : SUBSET Orgs, delta : [Orgs -> Nat], short : SUBSET Orgs]

NoBatch == [pc |-> "idle", rows |-> {}, todo |-> {}, held |-> {},
            delta |-> [o \in Orgs |-> 0], short |-> {}]

Init ==
  /\ gen = [g \in Gens |-> [st |-> "absent", credits |-> 0]]
  /\ balance = [o \in Orgs |-> 0]
  /\ debited = [o \in Orgs |-> 0]
  /\ worker = [w \in Workers |-> NoBatch]
  /\ deposits = MaxDeposits
-----------------------------------------------------------------------------
\* CostUSDToCredits: round up to whole credits.
CostToCredits(c) == (c + PartsPerCredit - 1) \div PartsPerCredit

SumCost(S) == SumFunctionOnSet(Cost, S)

\* Mutant: each batch is priced on its own.
NothingBilledBefore(o) == 0

successfulBilledCost(o) == SumCost({g \in Gens : OrgOf[g] = o /\ gen[g].st = "billed"})

\* successfulRowsByOrg: rows without a cost are marked billed and debit nothing.
RowsOf(rows, o) == {g \in rows : OrgOf[g] = o /\ Cost[g] > 0}
LockedRows == UNION {worker[w].rows : w \in Workers}
OrgHeld(o) == \E w \in Workers : o \in worker[w].held

\* Drain order of the fractional credits: largest fraction first, then row order.
FractionFirst(g, h) ==
  LET f(x) == Cost[x] % PartsPerCredit
  IN f(g) > f(h) \/ (f(g) = f(h) /\ g < h)

\* Mutant: fractions of a credit are never handed out.
AllocateWholeOnly(rows, delta) == [g \in rows |-> Cost[g] \div PartsPerCredit]

\* allocateCurrentRowCredits: each row its whole credits, then one more by fraction.
allocateCurrentRowCredits(rows, delta) ==
  LET whole == [g \in rows |-> Cost[g] \div PartsPerCredit]
      extra == delta - SumFunctionOnSet(whole, rows)
      rank(g) == Cardinality({h \in rows : FractionFirst(h, g)})
  IN [g \in rows |-> whole[g] + IF rank(g) < extra THEN 1 ELSE 0]
-----------------------------------------------------------------------------
\* A system generation is recorded by the proxy of some pod, not always in order.
Record(g) ==
  /\ gen[g].st = "absent"
  /\ gen' = [gen EXCEPT ![g].st = "unbilled"]
  /\ UNCHANGED <<balance, debited, worker, deposits>>

\* Grants, and spends and expiries that lock the org and never overdraw it.
ChangeBalance(o, d) ==
  /\ deposits > 0 /\ deposits' = deposits - 1
  /\ d < 0 => ~OrgHeld(o) /\ balance[o] + d >= 0
  /\ balance' = [balance EXCEPT ![o] = @ + d]
  /\ UNCHANGED <<gen, debited, worker>>

\* selectUnbilledBatch: the oldest unbilled rows nobody has locked, up to the limit.
selectUnbilledBatch(w) ==
  LET free == {g \in Gens : gen[g].st = "unbilled"} \ LockedRows
      rows == {g \in free : Cardinality({h \in free : h < g}) < BatchSize}
  IN /\ worker[w].pc = "idle" /\ rows # {}
     /\ worker' = [worker EXCEPT ![w] =
          [NoBatch EXCEPT !.pc = "plan", !.rows = rows,
                          !.todo = {o \in Orgs : RowsOf(rows, o) # {}}]]
     /\ UNCHANGED <<gen, balance, debited, deposits>>

\* Mutant: orgs are locked in the order of their oldest row, not sorted.
OrgOfOldestRow(w) == OrgOf[Min({g \in worker[w].rows : OrgOf[g] \in worker[w].todo})]

\* The sorted org ids: the next one is the least.
NextOrg(w) == Min(worker[w].todo)

\* Mutant: the sum leaves out the LLM debits.
BalanceBeforeDebits(o) == balance[o] + debited[o]

ledgerBalance(o) == balance[o]

\* Mutant: rows are noted where orgs are expected.
NoteRows(b, o) == b.short \cup RowsOf(b.rows, o)

\* markRowsInsufficient: the org's costed rows of this batch debit nothing.
markRowsInsufficient(b, o) == b.short \cup {o}

\* One turn of planCumulativeDebits' loop: lock the org, then read and decide.
planCumulativeDebits(w) ==
  /\ worker[w].pc = "plan" /\ worker[w].todo # {} /\ ~OrgHeld(NextOrg(w))
  /\ LET b == worker[w]
         o == NextOrg(w)
         target == CostToCredits(successfulBilledCost(o) + SumCost(RowsOf(b.rows, o)))
         delta == target - debited[o]
     IN worker' = [worker EXCEPT ![w] =
          [b EXCEPT !.todo = b.todo \ {o}, !.held = b.held \cup {o},
                    !.delta = [b.delta EXCEPT ![o] =
                                 IF delta > 0 /\ ledgerBalance(o) >= delta THEN delta ELSE 0],
                    !.short = IF delta > 0 /\ ledgerBalance(o) < delta
                              THEN markRowsInsufficient(b, o) ELSE b.short]]
  /\ UNCHANGED <<gen, balance, debited, deposits>>

\* The ledger entries are inserted, every row is marked, the transaction commits.
Commit(w) ==
  LET b == worker[w]
      short(g) == OrgOf[g] \in b.short /\ Cost[g] > 0
      credits(g) == IF b.delta[OrgOf[g]] > 0 /\ Cost[g] > 0
                    THEN allocateCurrentRowCredits(RowsOf(b.rows, OrgOf[g]), b.delta[OrgOf[g]])[g]
                    ELSE IF short(g) THEN 0 ELSE Cost[g] \div PartsPerCredit
  IN /\ b.pc = "plan" /\ b.todo = {}
     /\ gen' = [g \in Gens |->
          IF g \in b.rows
          THEN [st |-> IF short(g) THEN "insufficient" ELSE "billed",
                credits |-> credits(g)]
          ELSE gen[g]]
     /\ balance' = [o \in Orgs |-> balance[o] - b.delta[o]]
     /\ debited' = [o \in Orgs |-> debited[o] + b.delta[o]]
     /\ worker' = [worker EXCEPT ![w] = NoBatch]
     /\ UNCHANGED deposits

\* An error, the timeout or a crash rolls the transaction back.
Rollback(w) ==
  /\ worker[w].pc = "plan"
  /\ worker' = [worker EXCEPT ![w] = NoBatch]
  /\ UNCHANGED <<gen, balance, debited, deposits>>

Next ==
  \/ \E g \in Gens : Record(g)
  \/ \E o \in Orgs, d \in Deposits : ChangeBalance(o, d)
  \/ \E w \in Workers :
       selectUnbilledBatch(w) \/ planCumulativeDebits(w) \/ Commit(w) \/ Rollback(w)

Spec == Init /\ [][Next]_vars
-----------------------------------------------------------------------------
(* Rows, balances and plans have their types.                              *)
TypeOK ==
  /\ gen \in [Gens -> Gen]
  /\ balance \in [Orgs -> Int] /\ debited \in [Orgs -> Nat]
  /\ worker \in [Workers -> Batch] /\ deposits \in 0 .. MaxDeposits

(* No interleaving of workers, spends and deposits overdraws an org.       *)
BalanceNonNegative == \A o \in Orgs : balance[o] >= 0

(* The cumulative debit: however the generations were split over batches   *)
(* and concurrent workers, an org has been charged the rounded-up cost of  *)
(* all it was billed for, and not a credit for rounding each batch.        *)
DebitIsCumulative ==
  \A o \in Orgs : debited[o] = CostToCredits(successfulBilledCost(o))

(* credits_debited over an org's generations adds up to its ledger debits: *)
(* the per-row allocation loses and invents no credit, though each row     *)
(* rounds down and the org's total rounds up across batches.               *)
RowCreditsMatchLedger ==
  \A o \in Orgs :
    SumFunctionOnSet([g \in Gens |-> gen[g].credits], {g \in Gens : OrgOf[g] = o}) = debited[o]

(* Two workers never hold one row or one org, and never wait for each      *)
(* other's orgs: the orgs are locked in id order.                          *)
LocksAreOrdered ==
  \A v, w \in Workers : v # w =>
    /\ worker[v].rows \cap worker[w].rows = {} /\ worker[v].held \cap worker[w].held = {}
    /\ ~(/\ worker[v].todo # {} /\ NextOrg(v) \in worker[w].held
         /\ worker[w].todo # {} /\ NextOrg(w) \in worker[v].held)
=============================================================================
