---------------------------- MODULE BillingProofs ----------------------------
(***************************************************************************)
(* Proofs about the two billing components: the usage-billing worker       *)
(* (BillingBatch), for any generations, costs, orgs and workers and any    *)
(* batch size, and the credit ledger (CreditLedger), for any keys,         *)
(* amounts, expiries and any number of entries.                            *)
(***************************************************************************)
EXTENDS BillingBatch, CreditLedger, Sums, SequenceTheorems

-----------------------------------------------------------------------------
(***************************************************************************)
(* The billing worker.                                                     *)
(*                                                                         *)
(* A worker's plan is made org by org and used at the commit.  It is still *)
(* right then because the org's lock kept every other worker, and every    *)
(* spend, from what it was computed from (Planned); the locks are          *)
(* exclusive because a plan takes only what nobody holds (Exclusive).      *)
(***************************************************************************)
\* The credits an org has to have been debited once w's rows are billed
Target(w, o) ==
  CostToCredits(successfulBilledCost(o) + SumCost(RowsOf(worker[w].rows, o)))

\* A plan: rows that wait for it, orgs locked in order, debits that can be paid
Locked(w) ==
  /\ worker[w].pc = "idle" => worker[w].rows = {}
  /\ \A g \in worker[w].rows : gen[g].st = "unbilled"
  /\ \A o \in Orgs : RowsOf(worker[w].rows, o) # {} <=> o \in worker[w].todo \cup worker[w].held
  /\ \A o \in worker[w].held, p \in worker[w].todo : o < p

Planned(w) ==
  \A o \in Orgs :
    /\ worker[w].delta[o] # 0 \/ o \in worker[w].short => o \in worker[w].held
    /\ o \in worker[w].short => worker[w].delta[o] = 0
    /\ o \in worker[w].held => worker[w].delta[o] <= balance[o]
    /\ o \in worker[w].held \ worker[w].short => debited[o] + worker[w].delta[o] = Target(w, o)

Exclusive ==
  \A v, w \in Workers : v # w =>
    worker[v].rows \cap worker[w].rows = {} /\ worker[v].held \cap worker[w].held = {}

\* Only what was billed carries credits
Unpaid == \A g \in Gens : gen[g].st # "billed" => gen[g].credits = 0

IndInv ==
  /\ TypeOK /\ Exclusive /\ (\A w \in Workers : Locked(w) /\ Planned(w))
  /\ BalanceNonNegative /\ DebitIsCumulative /\ Unpaid /\ RowCreditsMatchLedger
-----------------------------------------------------------------------------
(* A multiplication by a positive number can be taken off a comparison.    *)
LEMMA Cancel ==
  ASSUME NEW p \in Nat \ {0}, NEW a \in Int, NEW b \in Int, p * a < p * (b + 1)
  PROVE  a <= b
<1>1. SUFFICES ASSUME b + 1 <= a PROVE FALSE
  OBVIOUS
<1>2. PICK d \in Nat : a = (b + 1) + d
  <2>1. a - (b + 1) \in Nat /\ a = (b + 1) + (a - (b + 1))
    BY <1>1
  <2> QED
    BY <2>1
<1>3. p * a = p * (b + 1) + p * d
  BY <1>2
<1>4. p * d \in Nat /\ p * (b + 1) \in Int
  OBVIOUS
<1> QED
  BY <1>3, <1>4

(* What division leaves.                                                   *)
LEMMA Division ==
  ASSUME NEW p \in Nat \ {0}, NEW a \in Nat
  PROVE  /\ a \div p \in Nat /\ a % p \in Nat
         /\ a % p <= p - 1 /\ a = (a % p) + p * (a \div p)
OBVIOUS

(* CostToCredits rounds up, by less than a credit.                         *)
LEMMA Rounding ==
  ASSUME NEW c \in Nat
  PROVE  /\ CostToCredits(c) \in Nat
         /\ c <= PartsPerCredit * CostToCredits(c)
         /\ PartsPerCredit * CostToCredits(c) <= c + PartsPerCredit - 1
<1>1. PartsPerCredit \in Nat \ {0}
  BY BatchConstants
<1> DEFINE a == c + PartsPerCredit - 1
<1>2. a \in Nat
  BY <1>1
<1> HIDE DEF a
<1>3. /\ a \div PartsPerCredit \in Nat /\ a % PartsPerCredit \in Nat
      /\ a % PartsPerCredit <= PartsPerCredit - 1
      /\ a = (a % PartsPerCredit) + PartsPerCredit * (a \div PartsPerCredit)
  BY <1>1, <1>2, Division
<1>4. PartsPerCredit * (a \div PartsPerCredit) \in Int
  BY <1>1, <1>3
<1>5. a - (PartsPerCredit - 1) = c
  BY <1>1 DEF a
<1> QED
  BY <1>1, <1>2, <1>3, <1>4, <1>5 DEF CostToCredits, a

\* The whole credits of some rows
Wholes(R) == [g \in R |-> Cost[g] \div PartsPerCredit]
WholeSum(R) == SumFunctionOnSet(Wholes(R), R)

(* Sets of rows are finite and cost a whole number of parts.               *)
LEMMA CostTyped ==
  ASSUME NEW R \in SUBSET Gens
  PROVE  /\ IsFiniteSet(R) /\ Cardinality(R) \in Nat
         /\ SumCost(R) \in Nat /\ \A g \in R : Cost[g] \in Nat
<1>1. IsFiniteSet(R) /\ \A g \in R : Cost[g] \in Nat
  BY BatchConstants, FS_Subset
<1>2. Cardinality(R) \in Nat
  BY <1>1, FS_CardinalityType
<1>3. SumCost(R) \in Nat
  BY <1>1, SumNat DEF SumCost
<1> QED
  BY <1>1, <1>2, <1>3

(* A cost is its whole credits and less than one credit more for each row. *)
LEMMA WholeAndParts ==
  ASSUME NEW R \in SUBSET Gens
  PROVE  /\ WholeSum(R) \in Int
         /\ PartsPerCredit * WholeSum(R) <= SumCost(R)
         /\ SumCost(R) <= PartsPerCredit * WholeSum(R) + (PartsPerCredit - 1) * Cardinality(R)
<1>1. PartsPerCredit \in Nat \ {0} /\ PartsPerCredit - 1 \in Nat /\ PartsPerCredit \in Int
  BY BatchConstants
<1>2. IsFiniteSet(R) /\ Cardinality(R) \in Nat /\ SumCost(R) \in Nat /\ \A g \in R : Cost[g] \in Nat
  BY CostTyped
<1> DEFINE parts == [g \in R |-> Cost[g] % PartsPerCredit]
<1> DEFINE e == Wholes(R)
<1>3. ASSUME NEW g \in R
      PROVE  /\ parts[g] \in Int /\ e[g] \in Int /\ 0 <= parts[g] /\ parts[g] <= PartsPerCredit - 1
             /\ Cost[g] = parts[g] + PartsPerCredit * e[g]
  <2>1. e[g] = Cost[g] \div PartsPerCredit /\ parts[g] = Cost[g] % PartsPerCredit
    BY DEF Wholes
  <2> QED
    BY <1>1, <1>2, <2>1, Division
<1> HIDE DEF parts, e
<1>4. SumFunctionOnSet(Cost, R) =
        SumFunctionOnSet(parts, R) + PartsPerCredit * SumFunctionOnSet(e, R)
  BY <1>1, <1>2, <1>3, SumLinear
<1>5. /\ 0 <= SumFunctionOnSet(parts, R)
      /\ SumFunctionOnSet(parts, R) <= (PartsPerCredit - 1) * Cardinality(R)
  BY <1>1, <1>2, <1>3, SumBounds
<1>6. SumFunctionOnSet(e, R) \in Int /\ SumFunctionOnSet(parts, R) \in Int
  BY <1>2, <1>3, SumTyped
<1>7. /\ PartsPerCredit * SumFunctionOnSet(e, R) \in Int
      /\ (PartsPerCredit - 1) * Cardinality(R) \in Int
  BY <1>1, <1>2, <1>6
<1>8. SumFunctionOnSet(e, R) = WholeSum(R) /\ SumFunctionOnSet(Cost, R) = SumCost(R)
  BY DEF e, WholeSum, SumCost
<1> QED
  BY <1>4, <1>5, <1>6, <1>7, <1>8

(* A debit is at least the whole credits of its rows, and at most one more *)
(* for each of them.                                                       *)
LEMMA DebitRange ==
  ASSUME NEW R \in SUBSET Gens, NEW c \in Nat, NEW d \in Int,
         CostToCredits(c) + d = CostToCredits(c + SumCost(R))
  PROVE  WholeSum(R) <= d /\ d <= WholeSum(R) + Cardinality(R)
<1> DEFINE P == PartsPerCredit
           W == WholeSum(R)
           n == Cardinality(R)
           s == SumCost(R)
           x == CostToCredits(c)
           y == CostToCredits(c + s)
<1>1. P \in Nat \ {0} /\ P - 1 \in Nat
  BY BatchConstants
<1>2. n \in Nat /\ s \in Nat
  BY CostTyped
<1>3. W \in Int /\ P * W <= s /\ s <= P * W + (P - 1) * n
  BY WholeAndParts
<1>4. x \in Nat /\ c <= P * x /\ P * x <= c + P - 1
  BY Rounding
<1>5. y \in Nat /\ c + s <= P * y /\ P * y <= c + s + P - 1
  <2>1. c + s \in Nat
    BY <1>2
  <2> QED
    BY <2>1, Rounding
<1>6. d = y - x
  BY <1>4, <1>5
<1> HIDE DEF P, W, n, s, x, y
<1>7. /\ P * x \in Int /\ P * y \in Int /\ P * W \in Int /\ (P - 1) * n \in Int /\ P * n \in Int
      /\ P * d = P * y - P * x
  BY <1>1, <1>2, <1>3, <1>4, <1>5, <1>6
<1>8. W <= d
  <2>1. P * W < P * y - P * x + P
    BY <1>1, <1>2, <1>3, <1>4, <1>5, <1>7
  <2>2. P * (d + 1) = P * d + P
    BY <1>1
  <2> QED
    BY <1>1, <1>3, <1>7, <2>1, <2>2, Cancel
<1>9. d <= W + n
  <2>1. P * d <= s + (P - 1)
    BY <1>1, <1>2, <1>4, <1>5, <1>7
  <2>2. (P - 1) * n = P * n - n
    BY <1>1, <1>2
  <2>3. P * ((W + n) + 1) = P * W + P * n + P
    BY <1>1, <1>2, <1>3
  <2>4. P * d < P * ((W + n) + 1)
    BY <1>1, <1>2, <1>3, <1>7, <2>1, <2>2, <2>3
  <2> QED
    BY <1>1, <1>2, <1>3, <2>4, Cancel
<1> QED
  BY <1>8, <1>9 DEF W, n

(* FractionFirst orders any rows in a line.                                *)
LEMMA FractionOrder ==
  /\ \A g \in Gens : ~FractionFirst(g, g)
  /\ \A g, h \in Gens : g # h => FractionFirst(g, h) \/ FractionFirst(h, g)
  /\ \A g, h \in Gens : ~(FractionFirst(g, h) /\ FractionFirst(h, g))
  /\ \A g, h, k \in Gens : FractionFirst(g, h) /\ FractionFirst(h, k) => FractionFirst(g, k)
<1>1. PartsPerCredit \in Nat \ {0} /\ \A g \in Gens : g \in Nat /\ Cost[g] \in Nat
  BY BatchConstants
<1>2. \A g \in Gens : Cost[g] % PartsPerCredit \in Nat
  BY <1>1, Division
<1> QED
  BY <1>1, <1>2 DEF FractionFirst

(* Some row comes last.                                                    *)
LEMMA LastRow ==
  ASSUME NEW R \in SUBSET Gens, R # {}
  PROVE  \E m \in R : \A h \in R \ {m} : FractionFirst(h, m)
<1> DEFINE Has(s) == \E m \in s : \A h \in s \ {m} : FractionFirst(h, m)
           U == {s \in SUBSET R : s # {} /\ ~Has(s)}
<1>1. SUFFICES ASSUME U # {} PROVE FALSE
  OBVIOUS
<1>2. IsFiniteSet(R)
  BY CostTyped
<1>3. U \in SUBSET (SUBSET R)
  OBVIOUS
<1> HIDE DEF U
<1>4. PICK s \in U : \A x \in s : s \ {x} \notin U
  BY <1>1, <1>2, <1>3, LeastSet
<1>5. s \in SUBSET R /\ s # {} /\ ~Has(s)
  BY DEF U
<1>6. PICK x \in s : TRUE
  BY <1>5
<1>7. s \ {x} # {}
  <2>1. SUFFICES ASSUME s \ {x} = {} PROVE FALSE
    OBVIOUS
  <2>2. Has(s)
    BY <1>6, <2>1
  <2> QED
    BY <1>5, <2>2
<1>8. PICK y \in s \ {x} : \A h \in (s \ {x}) \ {y} : FractionFirst(h, y)
  <2>1. Has(s \ {x})
    BY <1>4, <1>5, <1>6, <1>7 DEF U
  <2> QED
    BY <2>1
<1>9. x \in Gens /\ y \in Gens /\ x # y /\ y \in s /\ \A h \in s : h \in Gens
  BY <1>5, <1>6, <1>8
<1>10. CASE FractionFirst(x, y)
  <2>1. \A h \in s \ {y} : FractionFirst(h, y)
    BY <1>8, <1>10
  <2> QED
    BY <1>5, <1>9, <2>1
<1>11. CASE FractionFirst(y, x)
  <2>1. \A h \in s \ {x} : FractionFirst(h, x)
    BY <1>8, <1>9, <1>11, FractionOrder
  <2> QED
    BY <1>5, <1>6, <2>1
<1> QED
  BY <1>9, <1>10, <1>11, FractionOrder

\* How many rows come before one, and the rows with fewer than k before them
Rank(R, g) == Cardinality({h \in R : FractionFirst(h, g)})
Ahead(R, k) == {g \in R : Rank(R, g) < k}

(* k rows have fewer than k rows before them: the fractional credits are   *)
(* handed to exactly as many rows as there are credits to hand out.        *)
LEMMA RankCount ==
  ASSUME NEW R \in SUBSET Gens, NEW k \in Nat, k <= Cardinality(R)
  PROVE  Cardinality(Ahead(R, k)) = k
<1> DEFINE Good(s) == \A n \in Nat : n <= Cardinality(s) => Cardinality(Ahead(s, n)) = n
           U == {s \in SUBSET R : ~Good(s)}
<1>1. SUFFICES ASSUME U # {} PROVE FALSE
  OBVIOUS
<1>2. IsFiniteSet(R)
  BY CostTyped
<1>3. U \in SUBSET (SUBSET R)
  OBVIOUS
<1> HIDE DEF U
<1>4. PICK s \in U : \A x \in s : s \ {x} \notin U
  BY <1>1, <1>2, <1>3, LeastSet
<1>5. s \in SUBSET R /\ s \in SUBSET Gens /\ ~Good(s) /\ IsFiniteSet(s) /\ Cardinality(s) \in Nat
  BY <1>2, <1>4, FS_Subset, FS_CardinalityType DEF U
<1>6. PICK n \in Nat : n <= Cardinality(s) /\ Cardinality(Ahead(s, n)) # n
  BY <1>5
<1>7. ASSUME NEW g \in s PROVE Rank(s, g) \in Nat /\ Rank(s, g) < Cardinality(s)
  <2> DEFINE B == {h \in s : FractionFirst(h, g)}
  <2>1. B \in SUBSET (s \ {g})
    BY <1>5, FractionOrder
  <2>2. IsFiniteSet(s \ {g}) /\ Cardinality(s \ {g}) = Cardinality(s) - 1
    BY <1>5, <1>7, FS_RemoveElement
  <2> HIDE DEF B
  <2>3. IsFiniteSet(B) /\ Cardinality(B) <= Cardinality(s \ {g})
    BY <2>1, <2>2, FS_Subset
  <2>4. Cardinality(B) \in Nat
    BY <2>3, FS_CardinalityType
  <2>5. Rank(s, g) = Cardinality(B)
    BY DEF Rank, B
  <2> QED
    BY <1>5, <2>2, <2>3, <2>4, <2>5
<1>8. CASE n = Cardinality(s)
  <2>1. Ahead(s, n) = s
    BY <1>5, <1>7, <1>8 DEF Ahead
  <2> QED
    BY <1>6, <1>8, <2>1
<1>9. CASE n # Cardinality(s)
  <2>1. s # {}
    <3>1. SUFFICES ASSUME s = {} PROVE FALSE
      OBVIOUS
    <3>2. Cardinality(s) = 0
      BY <3>1, FS_EmptySet
    <3> QED
      BY <1>6, <1>9, <3>2
  <2>2. PICK m \in s : \A h \in s \ {m} : FractionFirst(h, m)
    BY <1>5, <2>1, LastRow
  <2> DEFINE r == s \ {m}
  <2>3. Cardinality(r) = Cardinality(s) - 1 /\ IsFiniteSet(r)
    BY <1>5, <2>2, FS_RemoveElement
  <2>4. n <= Cardinality(r)
    BY <1>5, <1>6, <1>9, <2>3
  <2>5. Good(r)
    BY <1>4, <1>5, <2>2 DEF U
  <2>6. Cardinality(Ahead(r, n)) = n
    BY <2>4, <2>5
  <2>7. ASSUME NEW g \in r PROVE Rank(s, g) = Rank(r, g)
    <3>1. FractionFirst(g, m) /\ ~FractionFirst(m, g)
      BY <1>5, <2>2, <2>7, FractionOrder
    <3>2. {h \in s : FractionFirst(h, g)} = {h \in r : FractionFirst(h, g)}
      BY <3>1
    <3> QED
      BY <3>2 DEF Rank
  <2>8. Rank(s, m) = Cardinality(s) - 1
    <3>1. {h \in s : FractionFirst(h, m)} = r
      BY <1>5, <2>2, FractionOrder
    <3> QED
      BY <2>3, <3>1 DEF Rank
  <2>9. ~(Rank(s, m) < n)
    BY <1>5, <1>6, <2>3, <2>4, <2>8
  <2>10. Ahead(s, n) = Ahead(r, n)
    BY <2>7, <2>9 DEF Ahead
  <2> QED
    BY <1>6, <2>6, <2>10
<1> QED
  BY <1>8, <1>9

(* The allocation hands out the debit to the last credit: whole credits    *)
(* first, then one each by fraction.                                       *)
LEMMA Allocation ==
  ASSUME NEW R \in SUBSET Gens, NEW d \in Int,
         WholeSum(R) <= d, d <= WholeSum(R) + Cardinality(R)
  PROVE  /\ \A g \in R : allocateCurrentRowCredits(R, d)[g] \in Nat
         /\ SumFunctionOnSet(allocateCurrentRowCredits(R, d), R) = d
<1> DEFINE e == Wholes(R)
           k == d - WholeSum(R)
           one == [g \in R |-> IF Rank(R, g) < k THEN 1 ELSE 0]
           a == allocateCurrentRowCredits(R, d)
<1>1. PartsPerCredit \in Nat \ {0}
  BY BatchConstants
<1>2. IsFiniteSet(R) /\ Cardinality(R) \in Nat /\ \A g \in R : Cost[g] \in Nat
  BY CostTyped
<1>3. WholeSum(R) \in Int
  BY WholeAndParts
<1>4. k \in Nat /\ k <= Cardinality(R)
  BY <1>2, <1>3
<1>5. a = [g \in R |-> e[g] + one[g]]
  BY DEF allocateCurrentRowCredits, WholeSum, Wholes, Rank
<1>6. \A g \in R : e[g] \in Nat
  BY <1>1, <1>2, Division DEF Wholes
<1>7. \A g \in R : one[g] \in Nat
  OBVIOUS
<1>8. \A x \in Ahead(R, k) : one[x] = 1
  BY DEF Ahead
<1>9. \A x \in R \ Ahead(R, k) : one[x] = 0
  BY DEF Ahead
<1>10. Ahead(R, k) \in SUBSET R
  BY DEF Ahead
<1> HIDE DEF one, k, e, a
<1>11. SumFunctionOnSet(one, R) = Cardinality(Ahead(R, k))
  BY <1>2, <1>8, <1>9, <1>10, SumOnes
<1>12. Cardinality(Ahead(R, k)) = k
  BY <1>4, RankCount
<1>13. \A g \in R : e[g] \in Int /\ one[g] \in Int /\ a[g] = e[g] + 1 * one[g]
  BY <1>5, <1>6, <1>7
<1>14. SumFunctionOnSet(a, R) = SumFunctionOnSet(e, R) + 1 * SumFunctionOnSet(one, R)
  BY <1>2, <1>13, SumLinear
<1>15. SumFunctionOnSet(e, R) = WholeSum(R)
  BY DEF e, WholeSum
<1>16. SumFunctionOnSet(a, R) = d
  BY <1>3, <1>4, <1>11, <1>12, <1>14, <1>15 DEF k
<1>17. \A g \in R : a[g] \in Nat
  BY <1>5, <1>6, <1>7
<1> QED
  BY <1>16, <1>17 DEF a
-----------------------------------------------------------------------------
(* The types of the parts of the state.                                    *)
LEMMA Typed ==
  ASSUME TypeOK
  PROVE  /\ \A w \in Workers :
              /\ worker[w].pc \in {"idle", "plan"} /\ worker[w].rows \in SUBSET Gens
              /\ worker[w].todo \in SUBSET Orgs /\ worker[w].held \in SUBSET Orgs
              /\ worker[w].delta \in [Orgs -> Nat] /\ worker[w].short \in SUBSET Orgs
         /\ \A g \in Gens : /\ gen[g].st \in {"absent", "unbilled", "billed", "insufficient"}
                            /\ gen[g].credits \in Nat
         /\ \A o \in Orgs : /\ balance[o] \in Int /\ debited[o] \in Nat
                            /\ successfulBilledCost(o) \in Nat
<1>1. \A w \in Workers : worker[w] \in Batch
  BY DEF TypeOK
<1>2. \A g \in Gens : gen[g] \in Gen
  BY DEF TypeOK
<1>3. \A o \in Orgs : balance[o] \in Int /\ debited[o] \in Nat
  BY DEF TypeOK
<1>4. ASSUME NEW o \in Orgs PROVE successfulBilledCost(o) \in Nat
  <2> DEFINE R == {g \in Gens : OrgOf[g] = o /\ gen[g].st = "billed"}
  <2>1. R \in SUBSET Gens
    OBVIOUS
  <2> HIDE DEF R
  <2>2. SumCost(R) \in Nat
    BY <2>1, CostTyped
  <2> QED
    BY <2>2 DEF successfulBilledCost, R
<1> QED
  BY <1>1, <1>2, <1>3, <1>4 DEF Batch, Gen

(* The constants of a single part.                                         *)
LEMMA Constants ==
  /\ PartsPerCredit \in Nat \ {0} /\ Orgs \in SUBSET Nat /\ Gens \in SUBSET Nat
  /\ OrgOf \in [Gens -> Orgs] /\ Cost \in [Gens -> Nat] /\ Deposits \in SUBSET Int
  /\ MaxDeposits \in Nat
BY BatchConstants

(* A worker that a step does not concern keeps a plan that is right, when  *)
(* the step leaves alone what the plan was made from.                      *)
LEMMA KeptPlan ==
  ASSUME NEW w \in Workers, worker'[w] = worker[w], Locked(w), Planned(w),
         \A g \in worker[w].rows : gen'[g].st = "unbilled",
         \A o \in Orgs : o \in worker[w].held =>
           /\ worker[w].delta[o] <= balance[o] => worker[w].delta[o] <= balance'[o]
           /\ debited'[o] = debited[o]
           /\ successfulBilledCost(o)' = successfulBilledCost(o)
  PROVE  Locked(w)' /\ Planned(w)'
<1>1. Locked(w)'
  BY DEF Locked, RowsOf
<1>2. ASSUME NEW o \in Orgs, o \in worker[w].held PROVE Target(w, o)' = Target(w, o)
  <2>1. RowsOf(worker[w].rows, o)' = RowsOf(worker[w].rows, o)
    BY DEF RowsOf
  <2> QED
    BY <1>2, <2>1 DEF Target, SumCost, CostToCredits
<1>3. Planned(w)'
  BY <1>2 DEF Planned
<1> QED
  BY <1>1, <1>3

(* A worker without a batch holds nothing.                                 *)
LEMMA IdlePlan ==
  ASSUME NEW w \in Workers, worker'[w] = NoBatch
  PROVE  Locked(w)' /\ Planned(w)' /\ NoBatch \in Batch
<1>1. /\ worker'[w].rows = {} /\ worker'[w].todo = {} /\ worker'[w].held = {}
      /\ worker'[w].short = {} /\ \A o \in Orgs : worker'[w].delta[o] = 0
  BY DEF NoBatch
<1>2. Locked(w)'
  BY <1>1 DEF Locked, RowsOf
<1>3. Planned(w)'
  BY <1>1 DEF Planned
<1>4. NoBatch \in Batch
  BY DEF NoBatch, Batch
<1> QED
  BY <1>2, <1>3, <1>4

(* What holds of the ledger follows from the rows and their credits.       *)
LEMMA KeptLedger ==
  ASSUME IndInv, debited' = debited,
         \A g \in Gens : /\ gen'[g].credits = gen[g].credits
                         /\ gen'[g].st = "billed" <=> gen[g].st = "billed"
  PROVE  /\ DebitIsCumulative' /\ Unpaid' /\ RowCreditsMatchLedger'
         /\ \A o \in Orgs : successfulBilledCost(o)' = successfulBilledCost(o)
<1>1. ASSUME NEW o \in Orgs PROVE successfulBilledCost(o)' = successfulBilledCost(o)
  <2>1. {g \in Gens : OrgOf[g] = o /\ gen[g].st = "billed"}'
          = {g \in Gens : OrgOf[g] = o /\ gen[g].st = "billed"}
    OBVIOUS
  <2> QED
    BY <2>1 DEF successfulBilledCost, SumCost
<1>2. DebitIsCumulative'
  BY <1>1 DEF IndInv, DebitIsCumulative, CostToCredits
<1>3. Unpaid'
  BY DEF IndInv, Unpaid
<1>4. [g \in Gens |-> gen'[g].credits] = [g \in Gens |-> gen[g].credits]
  OBVIOUS
<1>5. RowCreditsMatchLedger'
  BY <1>4 DEF IndInv, RowCreditsMatchLedger
<1> QED
  BY <1>1, <1>2, <1>3, <1>5

(* The first state: nothing recorded, nobody at work.                      *)
LEMMA InitInv == Init => IndInv
<1> SUFFICES ASSUME Init PROVE IndInv
  OBVIOUS
<1>1. NoBatch \in Batch
  BY DEF NoBatch, Batch
<1>2. TypeOK
  BY <1>1, Constants DEF Init, TypeOK, Gen
<1>3. Exclusive
  BY DEF Init, Exclusive, NoBatch
<1>4. ASSUME NEW w \in Workers PROVE Locked(w) /\ Planned(w)
  <2>1. /\ worker[w].rows = {} /\ worker[w].todo = {} /\ worker[w].held = {}
        /\ worker[w].short = {} /\ \A o \in Orgs : worker[w].delta[o] = 0
    BY DEF Init, NoBatch
  <2> QED
    BY <2>1 DEF Locked, Planned, RowsOf
<1>5. BalanceNonNegative /\ Unpaid
  BY DEF Init, BalanceNonNegative, Unpaid
<1>6. DebitIsCumulative
  <2>1. ASSUME NEW o \in Orgs PROVE successfulBilledCost(o) = 0
    <3>1. {g \in Gens : OrgOf[g] = o /\ gen[g].st = "billed"} = {}
      BY DEF Init
    <3>2. SumCost({}) = 0
      BY CostTyped, SumTyped DEF SumCost
    <3> QED
      BY <3>1, <3>2 DEF successfulBilledCost
  <2>2. CostToCredits(0) = 0
    <3>1. /\ CostToCredits(0) \in Nat
          /\ PartsPerCredit * CostToCredits(0) <= 0 + PartsPerCredit - 1
      BY Rounding
    <3>2. PartsPerCredit * CostToCredits(0) < PartsPerCredit * (0 + 1)
      BY <3>1, Constants
    <3> QED
      BY <3>1, <3>2, Constants, Cancel
  <2> QED
    BY <2>1, <2>2 DEF Init, DebitIsCumulative
<1>7. RowCreditsMatchLedger
  <2> DEFINE f == [g \in Gens |-> gen[g].credits]
  <2>1. \A g \in Gens : f[g] = 0
    BY DEF Init
  <2>2. ASSUME NEW o \in Orgs
        PROVE  SumFunctionOnSet(f, {g \in Gens : OrgOf[g] = o}) = 0
    <3> DEFINE R == {g \in Gens : OrgOf[g] = o}
    <3>1. R \in SUBSET Gens
      OBVIOUS
    <3>2. \A g \in R : f[g] = 0
      BY <2>1
    <3> HIDE DEF R, f
    <3>3. SumFunctionOnSet(f, R) = 0
      BY <3>1, <3>2, CostTyped, SumZero
    <3> QED
      BY <3>3 DEF R
  <2> QED
    BY <2>2 DEF Init, RowCreditsMatchLedger
<1> QED
  BY <1>2, <1>3, <1>4, <1>5, <1>6, <1>7 DEF IndInv

(* Recording a generation puts nothing in a plan and bills nobody.         *)
LEMMA RecordInv ==
  ASSUME IndInv, NEW g \in Gens, Record(g)
  PROVE  IndInv'
<1>1. /\ \A h \in Gens : h # g => gen'[h] = gen[h]
      /\ gen'[g].st = "unbilled" /\ gen'[g].credits = gen[g].credits /\ gen[g].st = "absent"
  BY DEF Record, IndInv, TypeOK, Gen
<1>2. TypeOK'
  BY DEF Record, IndInv, TypeOK, Gen
<1>3. \A h \in Gens : /\ gen'[h].credits = gen[h].credits
                      /\ gen'[h].st = "billed" <=> gen[h].st = "billed"
  BY <1>1
<1>4. debited' = debited /\ balance' = balance /\ worker' = worker
  BY DEF Record
<1>5. /\ DebitIsCumulative' /\ Unpaid' /\ RowCreditsMatchLedger'
      /\ \A o \in Orgs : successfulBilledCost(o)' = successfulBilledCost(o)
  BY <1>3, <1>4, KeptLedger
<1>6. ASSUME NEW w \in Workers PROVE Locked(w)' /\ Planned(w)'
  <2>1. Locked(w) /\ Planned(w) /\ worker[w].rows \in SUBSET Gens
    BY Typed DEF IndInv
  <2>2. \A h \in worker[w].rows : gen'[h].st = "unbilled"
    BY <1>1, <2>1 DEF Locked
  <2> QED
    BY <1>4, <1>5, <2>1, <2>2, KeptPlan
<1>7. Exclusive' /\ BalanceNonNegative'
  BY <1>4 DEF IndInv, Exclusive, BalanceNonNegative
<1> QED
  BY <1>2, <1>5, <1>6, <1>7 DEF IndInv

(* A deposit only adds; a spend takes from an org that nobody plans for.   *)
LEMMA ChangeBalanceInv ==
  ASSUME IndInv, NEW o \in Orgs, NEW d \in Deposits, ChangeBalance(o, d)
  PROVE  IndInv'
<1>1. /\ d \in Int /\ MaxDeposits \in Nat
  BY Constants
<1>2. /\ gen' = gen /\ debited' = debited /\ worker' = worker
      /\ deposits > 0 /\ deposits' = deposits - 1
      /\ d < 0 => ~OrgHeld(o) /\ balance[o] + d >= 0
      /\ balance' = [balance EXCEPT ![o] = @ + d]
  BY DEF ChangeBalance
<1>3. TypeOK'
  BY <1>1, <1>2 DEF IndInv, TypeOK
<1>4. \A p \in Orgs : balance[p] \in Int /\ balance[p] >= 0
  BY Typed DEF IndInv, BalanceNonNegative
<1>5. balance'[o] = balance[o] + d /\ \A p \in Orgs : p # o => balance'[p] = balance[p]
  BY <1>2 DEF IndInv, TypeOK
<1>6. BalanceNonNegative'
  BY <1>1, <1>2, <1>4, <1>5 DEF BalanceNonNegative
<1>7. /\ DebitIsCumulative' /\ Unpaid' /\ RowCreditsMatchLedger'
      /\ \A p \in Orgs : successfulBilledCost(p)' = successfulBilledCost(p)
  BY <1>2, KeptLedger
<1>8. ASSUME NEW w \in Workers PROVE Locked(w)' /\ Planned(w)'
  <2>1. /\ Locked(w) /\ Planned(w) /\ worker[w].rows \in SUBSET Gens
        /\ \A p \in Orgs : worker[w].delta[p] \in Nat
    BY Typed DEF IndInv
  <2>2. \A h \in worker[w].rows : gen'[h].st = "unbilled"
    BY <1>2, <2>1 DEF Locked
  <2>3. o \in worker[w].held => d >= 0
    BY <1>1, <1>2 DEF OrgHeld
  <2>4. \A p \in Orgs : p \in worker[w].held =>
          (worker[w].delta[p] <= balance[p] => worker[w].delta[p] <= balance'[p])
    BY <1>1, <1>4, <1>5, <2>1, <2>3
  <2> QED
    BY <1>2, <1>7, <2>1, <2>2, <2>4, KeptPlan
<1>9. Exclusive'
  BY <1>2 DEF IndInv, Exclusive
<1> QED
  BY <1>3, <1>6, <1>7, <1>8, <1>9 DEF IndInv

(* A rollback gives up the locks and changes nothing else.                 *)
LEMMA RollbackInv ==
  ASSUME IndInv, NEW w \in Workers, Rollback(w)
  PROVE  IndInv'
<1>1. /\ gen' = gen /\ debited' = debited /\ balance' = balance /\ deposits' = deposits
      /\ worker'[w] = NoBatch /\ \A v \in Workers : v # w => worker'[v] = worker[v]
      /\ worker' \in [Workers -> Batch]
  <2>1. NoBatch \in Batch
    BY DEF NoBatch, Batch
  <2> QED
    BY <2>1 DEF Rollback, IndInv, TypeOK
<1>2. TypeOK'
  BY <1>1 DEF IndInv, TypeOK
<1>3. /\ DebitIsCumulative' /\ Unpaid' /\ RowCreditsMatchLedger'
      /\ \A o \in Orgs : successfulBilledCost(o)' = successfulBilledCost(o)
  BY <1>1, KeptLedger
<1>4. ASSUME NEW v \in Workers PROVE Locked(v)' /\ Planned(v)'
  <2>1. CASE v = w
    BY <1>1, <2>1, IdlePlan
  <2>2. CASE v # w
    <3>1. Locked(v) /\ Planned(v) /\ worker[v].rows \in SUBSET Gens /\ worker'[v] = worker[v]
      BY <1>1, <2>2, Typed DEF IndInv
    <3>2. \A h \in worker[v].rows : gen'[h].st = "unbilled"
      BY <1>1, <3>1 DEF Locked
    <3> QED
      BY <1>1, <1>3, <3>1, <3>2, KeptPlan
  <2> QED
    BY <2>1, <2>2
<1>5. Exclusive'
  <2>1. worker'[w].rows = {} /\ worker'[w].held = {}
    BY <1>1 DEF NoBatch
  <2> QED
    BY <1>1, <2>1 DEF IndInv, Exclusive
<1>6. BalanceNonNegative'
  BY <1>1 DEF IndInv, BalanceNonNegative
<1> QED
  BY <1>2, <1>3, <1>4, <1>5, <1>6 DEF IndInv

\* What selecting rows and what locking one more org write into a batch
Selected(a, r, t) == [a EXCEPT !.pc = "plan", !.rows = r, !.todo = t]
Turn(a, t, h, e, s) == [a EXCEPT !.todo = t, !.held = h, !.delta = e, !.short = s]

(* The fields of a batch, once selected and after a turn of the plan.      *)
LEMMA BatchSelected ==
  ASSUME NEW a \in Batch, NEW r \in SUBSET Gens, NEW t \in SUBSET Orgs,
         NEW u, u = Selected(a, r, t)
  PROVE  /\ u \in Batch /\ u.pc = "plan" /\ u.rows = r /\ u.todo = t
         /\ u.held = a.held /\ u.delta = a.delta /\ u.short = a.short
BY DEF Batch, Selected

(* As BatchSelected, for the turn that locks one more org.                 *)
LEMMA BatchPlanned ==
  ASSUME NEW a \in Batch, NEW t \in SUBSET Orgs, NEW h \in SUBSET Orgs,
         NEW e \in [Orgs -> Nat], NEW s \in SUBSET Orgs,
         NEW u, u = Turn(a, t, h, e, s)
  PROVE  /\ u \in Batch /\ u.pc = a.pc /\ u.rows = a.rows /\ u.todo = t
         /\ u.held = h /\ u.delta = e /\ u.short = s
<1>1. u.pc = a.pc /\ u.rows = a.rows
  BY DEF Batch, Turn
<1>2. u.todo = t /\ u.held = h /\ u.delta = e /\ u.short = s
  BY DEF Batch, Turn
<1>3. u \in Batch
  BY DEF Batch, Turn
<1> QED
  BY <1>1, <1>2, <1>3

(* SKIP LOCKED: a batch is made of rows that no other worker has locked.   *)
LEMMA SelectInv ==
  ASSUME IndInv, NEW w \in Workers, selectUnbilledBatch(w)
  PROVE  IndInv'
<1> DEFINE free == {g \in Gens : gen[g].st = "unbilled"} \ LockedRows
           rows == {g \in free : Cardinality({h \in free : h < g}) < BatchSize}
           todo == {o \in Orgs : RowsOf(rows, o) # {}}
           b == [NoBatch EXCEPT !.pc = "plan", !.rows = rows, !.todo = todo]
<1>1. /\ rows \in SUBSET Gens /\ \A g \in rows : gen[g].st = "unbilled" /\ g \notin LockedRows
      /\ todo \in SUBSET Orgs /\ \A o \in Orgs : o \in todo <=> RowsOf(rows, o) # {}
  OBVIOUS
<1>2. /\ gen' = gen /\ debited' = debited /\ balance' = balance /\ deposits' = deposits
      /\ worker' = [worker EXCEPT ![w] = b]
  BY DEF selectUnbilledBatch
<1> HIDE DEF free, rows, todo
<1>3. /\ b \in Batch /\ b.rows = rows /\ b.todo = todo /\ b.held = {} /\ b.pc = "plan"
      /\ b.short = {} /\ \A o \in Orgs : b.delta[o] = 0
  <2>1. /\ NoBatch \in Batch /\ NoBatch.held = {} /\ NoBatch.short = {}
        /\ NoBatch.delta = [o \in Orgs |-> 0]
    BY DEF NoBatch, Batch
  <2> HIDE DEF b
  <2>2. /\ b \in Batch /\ b.pc = "plan" /\ b.rows = rows /\ b.todo = todo
        /\ b.held = NoBatch.held /\ b.delta = NoBatch.delta /\ b.short = NoBatch.short
    <3>1. b = Selected(NoBatch, rows, todo)
      BY DEF b, Selected
    <3> QED
      BY <1>1, <2>1, <3>1, BatchSelected
  <2> QED
    BY <2>1, <2>2
<1> HIDE DEF b
<1>4. worker'[w] = b /\ \A v \in Workers : v # w => worker'[v] = worker[v]
  BY <1>2 DEF IndInv, TypeOK
<1>5. TypeOK'
  BY <1>2, <1>3 DEF IndInv, TypeOK
<1>6. /\ DebitIsCumulative' /\ Unpaid' /\ RowCreditsMatchLedger'
      /\ \A o \in Orgs : successfulBilledCost(o)' = successfulBilledCost(o)
  BY <1>2, KeptLedger
<1>7. ASSUME NEW v \in Workers PROVE Locked(v)' /\ Planned(v)'
  <2>1. CASE v = w
    <3>1. worker'[v] = b
      BY <1>4, <2>1
    <3>2. Locked(v)'
      BY <1>1, <1>2, <1>3, <3>1 DEF Locked, RowsOf
    <3>3. Planned(v)'
      BY <1>3, <3>1 DEF Planned
    <3> QED
      BY <3>2, <3>3
  <2>2. CASE v # w
    <3>1. Locked(v) /\ Planned(v) /\ worker[v].rows \in SUBSET Gens /\ worker'[v] = worker[v]
      BY <1>4, <2>2, Typed DEF IndInv
    <3>2. \A h \in worker[v].rows : gen'[h].st = "unbilled"
      BY <1>2, <3>1 DEF Locked
    <3> QED
      BY <1>2, <1>6, <3>1, <3>2, KeptPlan
  <2> QED
    BY <2>1, <2>2
<1>8. Exclusive'
  <2>1. \A v \in Workers : worker[v].rows \cap rows = {}
    BY <1>1 DEF LockedRows
  <2> QED
    BY <1>3, <1>4, <2>1 DEF IndInv, Exclusive
<1>9. BalanceNonNegative'
  BY <1>2 DEF IndInv, BalanceNonNegative
<1> QED
  BY <1>5, <1>6, <1>7, <1>8, <1>9 DEF IndInv

(* The next org to lock is the least of those left.                        *)
LEMMA NextOrgLeast ==
  ASSUME TypeOK, NEW w \in Workers, worker[w].todo # {}
  PROVE  NextOrg(w) \in worker[w].todo /\ \A p \in worker[w].todo : NextOrg(w) <= p
<1>1. worker[w].todo \in SUBSET Nat
  BY Typed, Constants
<1>2. \E n \in worker[w].todo : \A m \in worker[w].todo : n <= m
  BY <1>1, LeastNat
<1> QED
  BY <1>2 DEF NextOrg, Min

(* Billing more rows never asks for less than was debited already.         *)
LEMMA TargetGrows ==
  ASSUME NEW c \in Nat, NEW s \in Nat
  PROVE  /\ CostToCredits(c) \in Nat /\ CostToCredits(c + s) \in Nat
         /\ CostToCredits(c) <= CostToCredits(c + s)
<1> DEFINE P == PartsPerCredit
           x == CostToCredits(c)
           y == CostToCredits(c + s)
<1>1. P \in Nat \ {0}
  BY Constants
<1>2. x \in Nat /\ c <= P * x /\ P * x <= c + P - 1
  BY Rounding
<1>3. y \in Nat /\ c + s <= P * y /\ P * y <= c + s + P - 1
  <2>1. c + s \in Nat
    OBVIOUS
  <2> QED
    BY <2>1, Rounding
<1> HIDE DEF P, x, y
<1>4. P * x \in Int /\ P * y \in Int /\ P * (y + 1) = P * y + P
  BY <1>1, <1>2, <1>3
<1>5. P * x < P * (y + 1)
  BY <1>1, <1>2, <1>3, <1>4
<1>6. x <= y
  BY <1>1, <1>2, <1>3, <1>5, Cancel
<1> QED
  BY <1>2, <1>3, <1>6 DEF x, y

(* Locking an org and reading it in one step: the debit that is planned is *)
(* what the org's rows come to, and the org can pay it.                    *)
LEMMA PlanInv ==
  ASSUME IndInv, NEW w \in Workers, planCumulativeDebits(w)
  PROVE  IndInv'
<1> DEFINE o == NextOrg(w)
           t == Target(w, o)
           d == t - debited[o]
           b == worker'[w]
           a == worker[w]
<1>1. a.pc = "plan" /\ a.todo # {} /\ ~OrgHeld(o)
  BY DEF planCumulativeDebits
<1>2. /\ gen' = gen /\ debited' = debited /\ balance' = balance /\ deposits' = deposits
      /\ worker' = [worker EXCEPT ![w] =
           [a EXCEPT !.todo = a.todo \ {o}, !.held = a.held \cup {o},
                     !.delta = [a.delta EXCEPT ![o] = IF d > 0 /\ balance[o] >= d THEN d ELSE 0],
                     !.short = IF d > 0 /\ balance[o] < d THEN a.short \cup {o} ELSE a.short]]
  BY DEF planCumulativeDebits, Target, ledgerBalance, markRowsInsufficient
<1>3. TypeOK /\ a \in Batch /\ o \in a.todo /\ \A p \in a.todo : o <= p
  BY <1>1, NextOrgLeast DEF IndInv, TypeOK
<1>4. /\ a.rows \in SUBSET Gens /\ a.todo \in SUBSET Orgs /\ a.held \in SUBSET Orgs
      /\ a.delta \in [Orgs -> Nat] /\ a.short \in SUBSET Orgs /\ o \in Orgs
      /\ balance[o] \in Int /\ debited[o] \in Nat /\ successfulBilledCost(o) \in Nat
  BY <1>3, Typed
<1>5. t \in Nat /\ debited[o] <= t
  <2>1. RowsOf(a.rows, o) \in SUBSET Gens
    BY <1>4 DEF RowsOf
  <2>2. SumCost(RowsOf(a.rows, o)) \in Nat
    BY <2>1, CostTyped
  <2>3. debited[o] = CostToCredits(successfulBilledCost(o))
    BY <1>4 DEF IndInv, DebitIsCumulative
  <2> QED
    BY <1>4, <2>2, <2>3, TargetGrows DEF Target
<1> HIDE DEF t, o
<1>6. d \in Nat /\ debited[o] + d = t
  BY <1>4, <1>5
<1> DEFINE s == IF d > 0 /\ balance[o] < d THEN a.short \cup {o} ELSE a.short
           e == [a.delta EXCEPT ![o] = IF d > 0 /\ balance[o] >= d THEN d ELSE 0]
<1>7. \A v \in Workers : v # w => worker'[v] = worker[v]
  BY <1>2, <1>3 DEF TypeOK
<1>8. b = Turn(a, a.todo \ {o}, a.held \cup {o}, e, s)
  BY <1>2, <1>3 DEF TypeOK, Turn
<1> HIDE DEF d
<1>9. /\ e \in [Orgs -> Nat] /\ \A p \in Orgs : p # o => e[p] = a.delta[p]
      /\ e[o] = IF d > 0 /\ balance[o] >= d THEN d ELSE 0
      /\ s \in SUBSET Orgs
  BY <1>4, <1>6
<1> HIDE DEF e
<1>10. /\ b \in Batch /\ b.pc = a.pc /\ b.rows = a.rows /\ b.todo = a.todo \ {o}
       /\ b.held = a.held \cup {o} /\ b.delta = e /\ b.short = s
  <2>1. a.todo \ {o} \in SUBSET Orgs /\ a.held \cup {o} \in SUBSET Orgs
    BY <1>4
  <2> HIDE DEF a, b, s
  <2> QED
    BY <1>3, <1>8, <1>9, <2>1, BatchPlanned
<1>11. TypeOK'
  <2>1. worker' \in [Workers -> Batch]
    BY <1>2, <1>3, <1>7, <1>10 DEF TypeOK
  <2> QED
    BY <1>2, <1>3, <2>1 DEF TypeOK
<1>12. /\ DebitIsCumulative' /\ Unpaid' /\ RowCreditsMatchLedger'
       /\ \A p \in Orgs : successfulBilledCost(p)' = successfulBilledCost(p)
  BY <1>2, KeptLedger
<1>13. Locked(w) /\ Planned(w)
  BY DEF IndInv
<1>14. o \notin a.held /\ \A p \in a.held : p \in Nat
  BY <1>1, <1>4, Constants DEF OrgHeld
<1>15. Locked(w)'
  <2>1. \A g \in b.rows : gen'[g].st = "unbilled"
    BY <1>2, <1>10, <1>13 DEF Locked
  <2>2. \A p \in Orgs : RowsOf(b.rows, p) # {} <=> p \in b.todo \cup b.held
    BY <1>3, <1>10, <1>13 DEF Locked
  <2>3. \A p \in b.held, q \in b.todo : p < q
    <3>1. \A q \in a.todo : q \in Nat
      BY <1>4, Constants
    <3>2. \A p \in a.held, q \in a.todo : p < q
      BY <1>13 DEF Locked
    <3> QED
      BY <1>3, <1>10, <3>1, <3>2
  <2>4. b.pc # "idle"
    BY <1>1, <1>10
  <2> QED
    BY <2>1, <2>2, <2>3, <2>4 DEF Locked, RowsOf
<1>16. ASSUME NEW p \in Orgs PROVE Target(w, p)' = Target(w, p)
  BY <1>10, <1>12 DEF Target, RowsOf, SumCost, CostToCredits
<1>17. Planned(w)'
  <2>1. ASSUME NEW p \in Orgs
        PROVE  /\ b.delta[p] # 0 \/ p \in b.short => p \in b.held
               /\ p \in b.short => b.delta[p] = 0
               /\ p \in b.held => b.delta[p] <= balance[p]
               /\ p \in b.held \ b.short => debited[p] + b.delta[p] = Target(w, p)
    <3>0. /\ a.delta[p] # 0 \/ p \in a.short => p \in a.held
          /\ p \in a.short => a.delta[p] = 0
          /\ p \in a.held => a.delta[p] <= balance[p]
          /\ p \in a.held \ a.short => debited[p] + a.delta[p] = Target(w, p)
      BY <1>13 DEF Planned
    <3>1. CASE p # o
      <4>1. /\ b.delta[p] = a.delta[p]
            /\ p \in b.held <=> p \in a.held
            /\ p \in b.short <=> p \in a.short
        BY <1>9, <1>10, <3>1
      <4> QED
        BY <3>0, <4>1
    <3>2. CASE p = o
      <4>1. balance[o] >= 0
        BY <1>4 DEF IndInv, BalanceNonNegative
      <4>2. o \in b.held /\ o \notin a.short
        BY <1>10, <1>14, <3>0, <3>2
      <4>3. o \in b.short <=> (d > 0 /\ balance[o] < d)
        BY <1>10, <4>2
      <4>4. debited[o] + d = Target(w, o)
        BY <1>6 DEF t
      <4> QED
        BY <1>4, <1>6, <1>9, <1>10, <3>2, <4>1, <4>2, <4>3, <4>4
    <3> QED
      BY <3>1, <3>2
  <2> QED
    BY <1>2, <1>16, <2>1 DEF Planned
<1>18. ASSUME NEW v \in Workers PROVE Locked(v)' /\ Planned(v)'
  <2>1. CASE v = w
    BY <1>15, <1>17, <2>1
  <2>2. CASE v # w
    <3>1. Locked(v) /\ Planned(v) /\ worker[v].rows \in SUBSET Gens /\ worker'[v] = worker[v]
      BY <1>7, <2>2, Typed DEF IndInv
    <3>2. \A h \in worker[v].rows : gen'[h].st = "unbilled"
      BY <1>2, <3>1 DEF Locked
    <3> QED
      BY <1>2, <1>12, <3>1, <3>2, KeptPlan
  <2> QED
    BY <2>1, <2>2
<1>19. Exclusive'
  <2>1. \A v \in Workers : o \notin worker[v].held
    BY <1>1 DEF OrgHeld
  <2> QED
    BY <1>7, <1>10, <2>1 DEF IndInv, Exclusive
<1>20. BalanceNonNegative'
  BY <1>2 DEF IndInv, BalanceNonNegative
<1> QED
  BY <1>11, <1>12, <1>18, <1>19, <1>20 DEF IndInv

\* The rows of an org that a commit bills and that cost something
Paid(w, o) == IF o \in worker[w].short THEN {} ELSE RowsOf(worker[w].rows, o)

\* The credits a commit writes into a row
RowCredits(w, g) ==
  IF worker[w].delta[OrgOf[g]] > 0 /\ Cost[g] > 0
  THEN allocateCurrentRowCredits(RowsOf(worker[w].rows, OrgOf[g]), worker[w].delta[OrgOf[g]])[g]
  ELSE IF OrgOf[g] \in worker[w].short /\ Cost[g] > 0 THEN 0 ELSE Cost[g] \div PartsPerCredit

(* What a commit writes.                                                   *)
LEMMA Commits ==
  ASSUME IndInv, NEW w \in Workers, Commit(w)
  PROVE  /\ worker[w].todo = {} /\ worker[w].pc = "plan" /\ deposits' = deposits
         /\ \A g \in Gens : g \notin worker[w].rows => gen'[g] = gen[g]
         /\ \A g \in worker[w].rows :
              /\ g \in Gens /\ OrgOf[g] \in Orgs /\ Cost[g] \in Nat
              /\ gen[g].st = "unbilled" /\ gen[g].credits = 0
              /\ RowCredits(w, g) \in Nat => gen'[g] \in Gen
              /\ gen'[g].st = "billed" <=> ~(OrgOf[g] \in worker[w].short /\ Cost[g] > 0)
              /\ gen'[g].credits = RowCredits(w, g)
         /\ balance' = [o \in Orgs |-> balance[o] - worker[w].delta[o]]
         /\ debited' = [o \in Orgs |-> debited[o] + worker[w].delta[o]]
         /\ worker'[w] = NoBatch /\ \A v \in Workers : v # w => worker'[v] = worker[v]
         /\ worker' \in [Workers -> Batch]
<1>1. worker[w].rows \in SUBSET Gens /\ TypeOK
  BY Typed DEF IndInv
<1>2. \A g \in worker[w].rows : /\ g \in Gens /\ OrgOf[g] \in Orgs /\ Cost[g] \in Nat
                                /\ gen[g].st = "unbilled" /\ gen[g].credits = 0
  BY <1>1, Constants DEF IndInv, Locked, Unpaid
<1>3. gen' = [g \in Gens |->
                IF g \in worker[w].rows
                THEN [st |-> IF OrgOf[g] \in worker[w].short /\ Cost[g] > 0
                             THEN "insufficient" ELSE "billed",
                      credits |-> RowCredits(w, g)]
                ELSE gen[g]]
  BY DEF Commit, RowCredits
<1>4. /\ worker'[w] = NoBatch /\ \A v \in Workers : v # w => worker'[v] = worker[v]
      /\ worker' \in [Workers -> Batch]
  <2>1. NoBatch \in Batch
    BY DEF NoBatch, Batch
  <2>2. worker' = [worker EXCEPT ![w] = NoBatch]
    BY DEF Commit
  <2> QED
    BY <1>1, <2>1, <2>2 DEF TypeOK
<1>5. /\ worker[w].todo = {} /\ worker[w].pc = "plan" /\ deposits' = deposits
      /\ balance' = [o \in Orgs |-> balance[o] - worker[w].delta[o]]
      /\ debited' = [o \in Orgs |-> debited[o] + worker[w].delta[o]]
  BY DEF Commit
<1> HIDE DEF RowCredits
<1>6. \A g \in Gens : g \notin worker[w].rows => gen'[g] = gen[g]
  BY <1>3
<1>7. ASSUME NEW g \in worker[w].rows
      PROVE  /\ RowCredits(w, g) \in Nat => gen'[g] \in Gen
             /\ gen'[g].st = "billed" <=> ~(OrgOf[g] \in worker[w].short /\ Cost[g] > 0)
             /\ gen'[g].credits = RowCredits(w, g)
  <2>1. gen'[g] = [st |-> IF OrgOf[g] \in worker[w].short /\ Cost[g] > 0
                          THEN "insufficient" ELSE "billed",
                   credits |-> RowCredits(w, g)]
    BY <1>2, <1>3, <1>7
  <2> QED
    BY <2>1 DEF Gen
<1> QED
  BY <1>2, <1>4, <1>5, <1>6, <1>7

(* A commit adds the cost of the rows it bills to what its org was billed. *)
LEMMA CommitBilled ==
  ASSUME IndInv, NEW w \in Workers, Commit(w), NEW o \in Orgs
  PROVE  successfulBilledCost(o)' = successfulBilledCost(o) + SumCost(Paid(w, o))
<1> DEFINE R == worker[w].rows
           B == {g \in Gens : OrgOf[g] = o /\ gen[g].st = "billed"}
           C == {g \in Gens : OrgOf[g] = o /\ gen'[g].st = "billed"}
           D == Paid(w, o)
<1>1. /\ \A g \in Gens : g \notin R => gen'[g] = gen[g]
      /\ \A g \in R : /\ g \in Gens /\ Cost[g] \in Nat /\ gen[g].st = "unbilled"
                      /\ gen'[g].st = "billed" <=> ~(OrgOf[g] \in worker[w].short /\ Cost[g] > 0)
  BY Commits
<1>2. B \in SUBSET C /\ D \in SUBSET (C \ B) /\ C \in SUBSET Gens
  BY <1>1 DEF Paid, RowsOf
<1>3. ASSUME NEW g \in (C \ B) \ D PROVE Cost[g] = 0
  <2>1. g \in R
    BY <1>1, <1>3
  <2>2. ~(OrgOf[g] \in worker[w].short /\ Cost[g] > 0) /\ OrgOf[g] = o /\ Cost[g] \in Nat
    BY <1>1, <1>3, <2>1
  <2>3. ~(Cost[g] > 0)
    BY <1>3, <2>1, <2>2 DEF Paid, RowsOf
  <2> QED
    BY <2>2, <2>3
<1>4. successfulBilledCost(o)' = SumCost(C) /\ successfulBilledCost(o) = SumCost(B)
  BY DEF successfulBilledCost, SumCost
<1> HIDE DEF B, C, D, R
<1>5. /\ IsFiniteSet(C) /\ \A g \in C : Cost[g] \in Int
      /\ IsFiniteSet(C \ B) /\ \A g \in C \ B : Cost[g] \in Int
      /\ IsFiniteSet((C \ B) \ D)
  <2>1. C \in SUBSET Gens /\ C \ B \in SUBSET Gens /\ (C \ B) \ D \in SUBSET Gens
    BY <1>2
  <2> QED
    BY <2>1, CostTyped
<1>6. SumCost(C) = SumCost(B) + SumCost(C \ B)
  BY <1>2, <1>5, SumSplit DEF SumCost
<1>7. SumCost(C \ B) = SumCost(D) + SumCost((C \ B) \ D)
  BY <1>2, <1>5, SumSplit DEF SumCost
<1>8. SumCost((C \ B) \ D) = 0
  BY <1>3, <1>5, SumZero DEF SumCost
<1>9. SumCost(D) \in Int
  <2>1. D \in SUBSET Gens
    BY <1>2
  <2> QED
    BY <2>1, CostTyped
<1> QED
  BY <1>4, <1>6, <1>7, <1>8, <1>9 DEF D

(* The plan of an org at the commit: nothing where nothing was planned;    *)
(* otherwise a debit its rows can share.                                   *)
LEMMA CommitPlan ==
  ASSUME IndInv, NEW w \in Workers, Commit(w), NEW o \in Orgs
  PROVE  LET R == RowsOf(worker[w].rows, o)
             d == worker[w].delta[o]
         IN  /\ R \in SUBSET Gens /\ d \in Nat /\ d <= balance[o]
             /\ o \notin worker[w].held => R = {} /\ d = 0 /\ o \notin worker[w].short
             /\ o \in worker[w].short => d = 0
             /\ debited[o] + d = CostToCredits(successfulBilledCost(o) + SumCost(Paid(w, o)))
             /\ o \notin worker[w].short =>
                  WholeSum(R) <= d /\ d <= WholeSum(R) + Cardinality(R)
<1> DEFINE R == RowsOf(worker[w].rows, o)
           d == worker[w].delta[o]
           c == successfulBilledCost(o)
<1>1. /\ TypeOK /\ d \in Nat /\ worker[w].rows \in SUBSET Gens
      /\ balance[o] \in Int /\ balance[o] >= 0 /\ debited[o] \in Nat /\ c \in Nat
  BY Typed DEF IndInv, BalanceNonNegative
<1>2. R \in SUBSET Gens
  BY <1>1 DEF RowsOf
<1>3. /\ R # {} <=> o \in worker[w].held
      /\ d # 0 \/ o \in worker[w].short => o \in worker[w].held
      /\ o \in worker[w].short => d = 0
      /\ o \in worker[w].held => d <= balance[o]
      /\ o \in worker[w].held \ worker[w].short => debited[o] + d = CostToCredits(c + SumCost(R))
  <2>1. worker[w].todo = {}
    BY Commits
  <2>2. Locked(w) /\ Planned(w)
    BY DEF IndInv
  <2>3. R # {} <=> o \in worker[w].held
    BY <2>1, <2>2 DEF Locked
  <2> QED
    BY <2>2, <2>3 DEF Planned, Target
<1>4. debited[o] = CostToCredits(c)
  BY DEF IndInv, DebitIsCumulative
<1>5. SumCost({}) = 0 /\ SumCost(R) \in Nat
  <2>1. IsFiniteSet(R) /\ SumCost(R) \in Nat /\ \A g \in R : Cost[g] \in Nat
    BY <1>2, CostTyped
  <2> QED
    BY <2>1, SumTyped DEF SumCost
<1>6. debited[o] + d = CostToCredits(c + SumCost(Paid(w, o)))
  <2>1. CASE o \in worker[w].short
    <3>1. SumCost(Paid(w, o)) = 0
      BY <1>5, <2>1 DEF Paid
    <3>2. c + 0 = c
      BY <1>1
    <3> QED
      BY <1>1, <1>3, <1>4, <2>1, <3>1, <3>2
  <2>2. CASE o \notin worker[w].short /\ o \in worker[w].held
    BY <1>3, <2>2 DEF Paid
  <2>3. CASE o \notin worker[w].held
    <3>1. R = {} /\ d = 0 /\ o \notin worker[w].short
      BY <1>3, <2>3
    <3>2. SumCost(Paid(w, o)) = 0 /\ c + 0 = c
      BY <1>1, <1>5, <3>1 DEF Paid
    <3> QED
      BY <1>1, <1>4, <3>1, <3>2
  <2> QED
    BY <2>1, <2>2, <2>3
<1>7. ASSUME o \notin worker[w].short
      PROVE  WholeSum(R) <= d /\ d <= WholeSum(R) + Cardinality(R)
  <2>1. CostToCredits(c) + d = CostToCredits(c + SumCost(R))
    BY <1>4, <1>6, <1>7 DEF Paid
  <2> HIDE DEF R, d, c
  <2>2. d \in Int
    BY <1>1
  <2> QED
    BY <1>1, <1>2, <2>1, <2>2, DebitRange
<1> QED
  BY <1>1, <1>2, <1>3, <1>6, <1>7

(* The rows of an org share out exactly what the org is debited.           *)
LEMMA CommitCredits ==
  ASSUME IndInv, NEW w \in Workers, Commit(w), NEW o \in Orgs
  PROVE  /\ \A g \in worker[w].rows : OrgOf[g] = o => gen'[g].credits \in Nat
         /\ SumFunctionOnSet([g \in Gens |-> gen'[g].credits], {g \in Gens : OrgOf[g] = o})
              = SumFunctionOnSet([g \in Gens |-> gen[g].credits], {g \in Gens : OrgOf[g] = o})
                + worker[w].delta[o]
<1> DEFINE R == RowsOf(worker[w].rows, o)
           d == worker[w].delta[o]
           X == {g \in worker[w].rows : OrgOf[g] = o}
           Y == {g \in Gens : OrgOf[g] = o}
           e == [g \in Gens |-> gen[g].credits]
           f == [g \in Gens |-> gen'[g].credits]
           a == allocateCurrentRowCredits(R, d)
<1>1. /\ R \in SUBSET Gens /\ d \in Nat
      /\ o \in worker[w].short => d = 0
      /\ o \notin worker[w].short => WholeSum(R) <= d /\ d <= WholeSum(R) + Cardinality(R)
  BY CommitPlan
<1>2. /\ \A g \in worker[w].rows : /\ g \in Gens /\ Cost[g] \in Nat /\ gen[g].credits = 0
                                   /\ gen'[g].credits = RowCredits(w, g)
      /\ \A g \in Gens : g \notin worker[w].rows => gen'[g] = gen[g]
  BY Commits
<1>3. R \in SUBSET X /\ X \in SUBSET Y /\ Y \in SUBSET Gens
  BY <1>2 DEF RowsOf
<1>4. PartsPerCredit \in Nat \ {0}
  BY Constants
<1>5. \A g \in X \ R : f[g] = 0
  <2>1. SUFFICES ASSUME NEW g \in X \ R PROVE f[g] = 0
    OBVIOUS
  <2>2. Cost[g] = 0 /\ g \in Gens /\ gen'[g].credits = RowCredits(w, g)
    BY <1>2, <2>1 DEF RowsOf
  <2>3. 0 \div PartsPerCredit = 0
    BY <1>4
  <2> QED
    BY <2>2, <2>3 DEF RowCredits
<1>6. \A g \in R : f[g] = IF d > 0 THEN a[g]
                          ELSE IF o \in worker[w].short THEN 0 ELSE Cost[g] \div PartsPerCredit
  BY <1>2, <1>3 DEF RowCredits, RowsOf
<1>7. \A g \in X : e[g] = 0
  BY <1>2
<1>8. \A g \in Y \ X : f[g] = e[g]
  BY <1>2, <1>3
<1>9. \A g \in Y : e[g] \in Int
  BY Typed DEF IndInv
<1>10. \A g \in R : f[g] = gen'[g].credits
  BY <1>1
<1> HIDE DEF e, f, X, Y, R, d, a
<1>11. IsFiniteSet(R) /\ IsFiniteSet(X) /\ IsFiniteSet(Y) /\ IsFiniteSet(X \ R) /\ IsFiniteSet(Y \ X)
  <2>1. X \in SUBSET Gens /\ X \ R \in SUBSET Gens /\ Y \ X \in SUBSET Gens
    BY <1>3
  <2> QED
    BY <1>1, <1>3, <2>1, CostTyped
<1>12. (\A g \in R : f[g] \in Nat) /\ SumFunctionOnSet(f, R) = d
  <2>1. CASE o \in worker[w].short
    <3>1. d = 0 /\ \A g \in R : f[g] = 0
      BY <1>1, <1>6, <2>1
    <3> QED
      BY <1>11, <3>1, SumZero
  <2>2. CASE o \notin worker[w].short /\ d > 0
    <3>1. d \in Int
      BY <1>1
    <3>2. (\A g \in R : a[g] \in Nat) /\ SumFunctionOnSet(a, R) = d
      BY <1>1, <2>2, <3>1, Allocation DEF a
    <3>3. \A g \in R : a[g] \in Int /\ f[g] = a[g]
      BY <1>6, <2>2, <3>2
    <3> QED
      BY <1>11, <3>2, <3>3, SumSame
  <2>3. CASE o \notin worker[w].short /\ ~(d > 0)
    <3> DEFINE h == Wholes(R)
    <3>1. \A g \in R : h[g] \in Nat /\ f[g] = h[g]
      BY <1>1, <1>4, <1>6, <2>3, CostTyped, Division DEF Wholes
    <3>2. h = Wholes(R)
      OBVIOUS
    <3> HIDE DEF h
    <3>3. SumFunctionOnSet(f, R) = WholeSum(R)
      BY <1>11, <3>1, <3>2, SumSame DEF WholeSum
    <3>4. WholeSum(R) \in Int /\ WholeSum(R) <= 0 /\ d = 0
      BY <1>1, <2>3, WholeAndParts
    <3>5. SumFunctionOnSet(f, R) \in Nat
      BY <1>11, <3>1, SumNat
    <3> QED
      BY <3>1, <3>3, <3>4, <3>5
  <2> QED
    BY <2>1, <2>2, <2>3
<1>13. SumFunctionOnSet(f, X) = d
  <2>1. \A g \in X : f[g] \in Int
    BY <1>5, <1>12
  <2>2. SumFunctionOnSet(f, X) = SumFunctionOnSet(f, R) + SumFunctionOnSet(f, X \ R)
    BY <1>3, <1>11, <2>1, SumSplit
  <2>3. SumFunctionOnSet(f, X \ R) = 0
    BY <1>5, <1>11, SumZero
  <2> QED
    BY <1>1, <1>12, <2>2, <2>3
<1>14. SumFunctionOnSet(f, Y) = d + SumFunctionOnSet(e, Y \ X)
  <2>1. \A g \in Y : f[g] \in Int
    BY <1>5, <1>8, <1>9, <1>12
  <2>2. SumFunctionOnSet(f, Y) = SumFunctionOnSet(f, X) + SumFunctionOnSet(f, Y \ X)
    BY <1>3, <1>11, <2>1, SumSplit
  <2>3. \A g \in Y \ X : e[g] \in Int /\ f[g] = e[g]
    BY <1>8, <1>9
  <2>4. SumFunctionOnSet(f, Y \ X) = SumFunctionOnSet(e, Y \ X)
    BY <1>11, <2>3, SumSame
  <2> QED
    BY <1>13, <2>2, <2>4
<1>15. SumFunctionOnSet(e, Y) = 0 + SumFunctionOnSet(e, Y \ X)
  <2>1. SumFunctionOnSet(e, Y) = SumFunctionOnSet(e, X) + SumFunctionOnSet(e, Y \ X)
    BY <1>3, <1>9, <1>11, SumSplit
  <2>2. SumFunctionOnSet(e, X) = 0
    BY <1>7, <1>11, SumZero
  <2> QED
    BY <2>1, <2>2
<1>16. SumFunctionOnSet(e, Y \ X) \in Int
  <2>1. \A g \in Y \ X : e[g] \in Int
    BY <1>9
  <2> QED
    BY <1>11, <2>1, SumTyped
<1>17. SumFunctionOnSet(f, Y) = SumFunctionOnSet(e, Y) + d
  BY <1>1, <1>14, <1>15, <1>16
<1>18. \A g \in X : f[g] \in Nat
  BY <1>5, <1>12
<1>19. \A g \in worker[w].rows : OrgOf[g] = o => gen'[g].credits \in Nat
  BY <1>2, <1>18 DEF X, f
<1> QED
  BY <1>17, <1>19 DEF e, f, Y, d

(* A commit: each org it held is charged what its rows come to, and the    *)
(* plans of the others stand, for they are about other orgs.               *)
LEMMA CommitInv ==
  ASSUME IndInv, NEW w \in Workers, Commit(w)
  PROVE  IndInv'
<1> DEFINE a == worker[w]
<1>1. /\ deposits' = deposits
      /\ \A g \in Gens : g \notin a.rows => gen'[g] = gen[g]
      /\ \A g \in a.rows :
           /\ g \in Gens /\ OrgOf[g] \in Orgs
           /\ RowCredits(w, g) \in Nat => gen'[g] \in Gen
           /\ gen'[g].st = "billed" <=> ~(OrgOf[g] \in a.short /\ Cost[g] > 0)
           /\ gen'[g].credits = RowCredits(w, g)
      /\ balance' = [o \in Orgs |-> balance[o] - a.delta[o]]
      /\ debited' = [o \in Orgs |-> debited[o] + a.delta[o]]
      /\ worker'[w] = NoBatch /\ \A v \in Workers : v # w => worker'[v] = worker[v]
      /\ worker' \in [Workers -> Batch]
  BY Commits
<1>2. /\ TypeOK /\ a.rows \in SUBSET Gens
      /\ \A o \in Orgs : balance[o] \in Int /\ debited[o] \in Nat /\ successfulBilledCost(o) \in Nat
  BY Typed DEF IndInv
<1>3. ASSUME NEW o \in Orgs
      PROVE  /\ a.delta[o] \in Nat /\ a.delta[o] <= balance[o]
             /\ o \notin a.held => a.delta[o] = 0 /\ Paid(w, o) = {}
             /\ debited[o] + a.delta[o] =
                  CostToCredits(successfulBilledCost(o) + SumCost(Paid(w, o)))
  BY CommitPlan DEF Paid
<1>4. \A g \in a.rows : gen'[g].credits \in Nat
  BY <1>1, CommitCredits
<1>5. TypeOK'
  <2>1. gen' \in [Gens -> Gen]
    <3>1. \A g \in Gens : gen'[g] \in Gen
      BY <1>1, <1>2, <1>4 DEF TypeOK
    <3>2. gen' = [g \in Gens |-> gen'[g]]
      BY DEF Commit
    <3> QED
      BY <3>1, <3>2
  <2>2. balance' \in [Orgs -> Int] /\ debited' \in [Orgs -> Nat]
    BY <1>1, <1>2, <1>3
  <2> QED
    BY <1>1, <1>2, <2>1, <2>2 DEF TypeOK
<1>6. BalanceNonNegative'
  <2>1. \A o \in Orgs : balance'[o] = balance[o] - a.delta[o]
    BY <1>1
  <2> QED
    BY <1>2, <1>3, <2>1 DEF BalanceNonNegative
<1>7. DebitIsCumulative'
  <2>1. ASSUME NEW o \in Orgs PROVE debited'[o] = CostToCredits(successfulBilledCost(o)')
    <3>1. debited'[o] = debited[o] + a.delta[o]
      BY <1>1
    <3>2. successfulBilledCost(o)' = successfulBilledCost(o) + SumCost(Paid(w, o))
      BY CommitBilled
    <3> QED
      BY <1>3, <3>1, <3>2
  <2> QED
    BY <2>1 DEF DebitIsCumulative, CostToCredits
<1>8. Unpaid'
  <2>1. ASSUME NEW g \in Gens, gen'[g].st # "billed" PROVE gen'[g].credits = 0
    <3>1. CASE g \notin a.rows
      BY <1>1, <2>1, <3>1 DEF IndInv, Unpaid
    <3>2. CASE g \in a.rows
      <4>1. OrgOf[g] \in a.short /\ OrgOf[g] \in Orgs /\ gen'[g].credits = RowCredits(w, g)
        BY <1>1, <2>1, <3>2
      <4>2. a.delta[OrgOf[g]] = 0
        BY <4>1, CommitPlan
      <4>3. OrgOf[g] \in a.short /\ Cost[g] > 0
        BY <1>1, <2>1, <3>2
      <4> QED
        BY <4>1, <4>2, <4>3 DEF RowCredits
    <3> QED
      BY <3>1, <3>2
  <2> QED
    BY <2>1 DEF Unpaid
<1>9. RowCreditsMatchLedger'
  <2>1. ASSUME NEW o \in Orgs
        PROVE  SumFunctionOnSet([g \in Gens |-> gen'[g].credits], {g \in Gens : OrgOf[g] = o})
                 = debited'[o]
    <3>1. debited'[o] = debited[o] + a.delta[o]
      BY <1>1
    <3>2. SumFunctionOnSet([g \in Gens |-> gen[g].credits], {g \in Gens : OrgOf[g] = o}) = debited[o]
      BY DEF IndInv, RowCreditsMatchLedger
    <3> QED
      BY <3>1, <3>2, CommitCredits
  <2> QED
    BY <2>1 DEF RowCreditsMatchLedger
<1>10. Exclusive'
  <2>1. worker'[w].rows = {} /\ worker'[w].held = {}
    BY <1>1 DEF NoBatch
  <2> QED
    BY <1>1, <2>1 DEF IndInv, Exclusive
<1>11. ASSUME NEW v \in Workers PROVE Locked(v)' /\ Planned(v)'
  <2>1. CASE v = w
    BY <1>1, <2>1, IdlePlan
  <2>2. CASE v # w
    <3>1. /\ Locked(v) /\ Planned(v) /\ worker[v].rows \in SUBSET Gens /\ worker'[v] = worker[v]
          /\ worker[v].rows \cap a.rows = {} /\ worker[v].held \cap a.held = {}
      BY <1>1, <2>2, Typed DEF IndInv, Exclusive
    <3>2. \A h \in worker[v].rows : gen'[h].st = "unbilled"
      BY <1>1, <3>1 DEF Locked
    <3>3. ASSUME NEW o \in Orgs, o \in worker[v].held
          PROVE  /\ balance'[o] = balance[o] /\ debited'[o] = debited[o]
                 /\ successfulBilledCost(o)' = successfulBilledCost(o)
      <4>1. a.delta[o] = 0 /\ Paid(w, o) = {}
        BY <1>3, <3>1, <3>3
      <4>2. balance'[o] = balance[o] /\ debited'[o] = debited[o]
        BY <1>1, <1>2, <4>1
      <4>3. SumCost({}) = 0
        BY CostTyped, SumTyped DEF SumCost
      <4>4. successfulBilledCost(o)' = successfulBilledCost(o) + 0
        BY <4>1, <4>3, CommitBilled
      <4> QED
        BY <1>2, <4>2, <4>4
    <3> QED
      BY <3>1, <3>2, <3>3, KeptPlan
  <2> QED
    BY <2>1, <2>2
<1> QED
  BY <1>5, <1>6, <1>7, <1>8, <1>9, <1>10, <1>11 DEF IndInv
-----------------------------------------------------------------------------
(* Every step keeps the invariant.                                         *)
LEMMA NextInv == IndInv /\ [Next]_vars => IndInv'
<1> SUFFICES ASSUME IndInv, [Next]_vars PROVE IndInv'
  OBVIOUS
<1>1. CASE \E g \in Gens : Record(g)
  BY <1>1, RecordInv
<1>2. CASE \E o \in Orgs, d \in Deposits : ChangeBalance(o, d)
  BY <1>2, ChangeBalanceInv
<1>3. ASSUME NEW w \in Workers, selectUnbilledBatch(w) PROVE IndInv'
  BY <1>3, SelectInv
<1>4. ASSUME NEW w \in Workers, planCumulativeDebits(w) PROVE IndInv'
  BY <1>4, PlanInv
<1>5. ASSUME NEW w \in Workers, Commit(w) PROVE IndInv'
  BY <1>5, CommitInv
<1>6. ASSUME NEW w \in Workers, Rollback(w) PROVE IndInv'
  BY <1>6, RollbackInv
<1>7. CASE UNCHANGED vars
  <2>1. /\ gen' = gen /\ balance' = balance /\ debited' = debited /\ worker' = worker
        /\ deposits' = deposits
    BY <1>7 DEF vars
  <2>2. TypeOK' /\ Exclusive' /\ BalanceNonNegative'
    BY <2>1 DEF IndInv, TypeOK, Exclusive, BalanceNonNegative
  <2>3. /\ DebitIsCumulative' /\ Unpaid' /\ RowCreditsMatchLedger'
        /\ \A o \in Orgs : successfulBilledCost(o)' = successfulBilledCost(o)
    BY <2>1, KeptLedger
  <2>4. ASSUME NEW w \in Workers PROVE Locked(w)' /\ Planned(w)'
    <3>1. Locked(w) /\ Planned(w)
      BY DEF IndInv
    <3>2. \A h \in worker[w].rows : gen'[h].st = "unbilled"
      BY <2>1, <3>1 DEF Locked
    <3> QED
      BY <2>1, <2>3, <3>1, <3>2, KeptPlan
  <2> QED
    BY <2>2, <2>3, <2>4 DEF IndInv
<1> QED
  BY <1>1, <1>2, <1>3, <1>4, <1>5, <1>6, <1>7 DEF Next

(* The invariant holds of every state of the billing worker.               *)
THEOREM Inductive == Spec => []IndInv
<1> QED
  BY InitInv, NextInv, PTL DEF Spec

(* Two workers that wait for each other would each hold an org above the   *)
(* one it waits for.                                                       *)
LEMMA NoDeadlock == IndInv => LocksAreOrdered
<1> SUFFICES ASSUME IndInv, NEW v \in Workers, NEW w \in Workers, v # w,
                    worker[v].todo # {}, NextOrg(v) \in worker[w].held,
                    worker[w].todo # {}, NextOrg(w) \in worker[v].held
             PROVE  FALSE
  BY DEF IndInv, Exclusive, LocksAreOrdered
<1>1. NextOrg(v) \in worker[v].todo /\ NextOrg(w) \in worker[w].todo
  BY NextOrgLeast DEF IndInv
<1>2. NextOrg(v) < NextOrg(w) /\ NextOrg(w) < NextOrg(v)
  BY <1>1 DEF IndInv, Locked
<1>3. NextOrg(v) \in Nat /\ NextOrg(w) \in Nat
  BY <1>1, Typed, Constants DEF IndInv
<1> QED
  BY <1>2, <1>3

(* Rows, balances and plans keep their types: no debit is negative and no  *)
(* row is given part of a credit.                                          *)
THEOREM TypeCorrect == Spec => []TypeOK
<1>1. IndInv => TypeOK
  BY DEF IndInv
<1> QED
  BY <1>1, Inductive, PTL

(* However many workers run, no row and no org is locked twice and no two  *)
(* workers wait for each other (the sorted org ids of                      *)
(* planCumulativeDebits).                                                  *)
THEOREM LocksAreOrderedHolds == Spec => []LocksAreOrdered
BY Inductive, NoDeadlock, PTL

(* The balance read under the org's lock still covers the debit at the     *)
(* commit: billing overdraws nobody.                                       *)
THEOREM BalanceNonNegativeHolds == Spec => []BalanceNonNegative
<1>1. IndInv => BalanceNonNegative
  BY DEF IndInv
<1> QED
  BY <1>1, Inductive, PTL

(* However rows are split over batches and workers, an org is charged the  *)
(* rounded-up cost of all it was billed for.                               *)
THEOREM DebitIsCumulativeHolds == Spec => []DebitIsCumulative
<1>1. IndInv => DebitIsCumulative
  BY DEF IndInv
<1> QED
  BY <1>1, Inductive, PTL

(* allocateCurrentRowCredits hands out each debit to the last credit, so   *)
(* the rows' credits_debited always add up to the org's ledger debits.     *)
THEOREM RowCreditsMatchLedgerHolds == Spec => []RowCreditsMatchLedger
<1>1. IndInv => RowCreditsMatchLedger
  BY DEF IndInv
<1> QED
  BY <1>1, Inductive, PTL
-----------------------------------------------------------------------------
(***************************************************************************)
(* The ledger.                                                             *)
(*                                                                         *)
(* A replay loses a credit only where a spend finds less than it takes or  *)
(* an expiry more than is left in its bucket.  Covered says that neither   *)
(* happens at any entry.  It survives a grant that commits late because    *)
(* one grant more leaves every bucket at every later entry with at least   *)
(* as much as before (Monotone).                                           *)
(***************************************************************************)
\* What the rows of a ledger are: only grants are ever uncommitted, an expiry
\* names an earlier row
Wellformed(es) ==
  /\ es \in Seq(Entry)
  /\ \A i \in 1 .. Len(es) :
       /\ es[i].kind = "grant" => i <= MaxEntries
       /\ es[i].kind # "grant" => es[i].st = "done" /\ es[i].amount < 0
       /\ es[i].kind = "grant" /\ es[i].st # "void" => es[i].amount \in GrantAmounts
       /\ es[i].kind = "expiry" => es[i].of \in 1 .. i - 1

Total(r) == SumFunctionOnSet(r, DOMAIN r)

\* The replay has in its buckets what entry n takes from them
CoveredAt(es, n) ==
  es[n].st = "done" =>
    /\ es[n].kind = "spend" => -es[n].amount <= Total(replayed(es)[n - 1])
    /\ es[n].kind = "expiry" => -es[n].amount <= replayed(es)[n - 1][es[n].of]

Covered(es) == \A n \in 1 .. Len(es) : CoveredAt(es, n)

LedgerIndInv ==
  /\ Wellformed(entries) /\ Covered(entries)
  /\ now \in 0 .. MaxNow
-----------------------------------------------------------------------------
Zeros(es) == [i \in DOMAIN es |-> 0]

\* The buckets after each of the first k entries
Trace(es, k, f) == f = [n \in 0 .. k |-> IF n = 0 THEN Zeros(es) ELSE replayEntry(es, f[n - 1], n)]

(* The replay is defined entry by entry.                                   *)
LEMMA Replayed ==
  ASSUME NEW es \in Seq(Entry)
  PROVE  /\ replayed(es)[0] = Zeros(es)
         /\ \A n \in 1 .. Len(es) : replayed(es)[n] = replayEntry(es, replayed(es)[n - 1], n)
<1>1. Len(es) \in Nat
  OBVIOUS
<1> DEFINE T == {k \in Nat : ~\E f : Trace(es, k, f)}
<1>2. T = {}
  <2>1. SUFFICES ASSUME T # {} PROVE FALSE
    OBVIOUS
  <2>2. T \in SUBSET Nat
    OBVIOUS
  <2> HIDE DEF T
  <2>3. PICK k \in T : \A m \in T : k <= m
    BY <2>1, <2>2, LeastNat
  <2>4. k \in Nat /\ ~\E f : Trace(es, k, f)
    BY DEF T
  <2>5. k # 0
    <3> DEFINE f == [n \in 0 .. 0 |-> Zeros(es)]
    <3>1. Trace(es, 0, f)
      BY DEF Trace
    <3> QED
      BY <2>4, <3>1
  <2>6. k - 1 \in Nat /\ k - 1 \notin T
    BY <2>3, <2>4, <2>5
  <2>7. PICK f : Trace(es, k - 1, f)
    BY <2>6 DEF T
  <2> DEFINE g == [n \in 0 .. k |-> IF n = k THEN replayEntry(es, f[k - 1], k) ELSE f[n]]
  <2>8. \A n \in 0 .. k - 1 : f[n] = IF n = 0 THEN Zeros(es) ELSE replayEntry(es, f[n - 1], n)
    BY <2>7 DEF Trace
  <2>9. \A n \in 0 .. k : g[n] = IF n = 0 THEN Zeros(es) ELSE replayEntry(es, g[n - 1], n)
    BY <2>4, <2>5, <2>8
  <2>10. g = [n \in 0 .. k |-> g[n]]
    OBVIOUS
  <2> HIDE DEF g
  <2>11. Trace(es, k, g)
    BY <2>9, <2>10 DEF Trace
  <2> QED
    BY <2>4, <2>11
<1>3. \E f : Trace(es, Len(es), f)
  BY <1>1, <1>2
<1>4. replayed(es) = CHOOSE f : Trace(es, Len(es), f)
  BY DEF replayed, Trace, Zeros
<1>5. Trace(es, Len(es), replayed(es))
  BY <1>3, <1>4
<1> HIDE DEF T
<1> QED
  BY <1>1, <1>5 DEF Trace

(* The types of a row, and what its kind says of its amount.               *)
LEMMA Row ==
  ASSUME NEW es, Wellformed(es)
  PROVE  /\ Len(es) \in Nat /\ DOMAIN es = 1 .. Len(es) /\ IsFiniteSet(1 .. Len(es))
         /\ es \in Seq(Entry)
         /\ \A i \in 1 .. Len(es) :
              /\ es[i] \in Entry /\ es[i].kind \in {"grant", "spend", "expiry"}
              /\ es[i].st \in {"open", "done", "void"}
              /\ es[i].amount \in Int /\ es[i].expires \in Int
              /\ es[i].kind = "grant" /\ es[i].st # "void" => es[i].amount \in Nat \ {0}
              /\ es[i].kind # "grant" => es[i].st = "done" /\ -es[i].amount \in Nat \ {0}
              /\ es[i].kind = "expiry" => es[i].of \in 1 .. i - 1
<1>1. es \in Seq(Entry) /\ Len(es) \in Nat /\ DOMAIN es = 1 .. Len(es)
  BY DEF Wellformed
<1>2. IsFiniteSet(1 .. Len(es))
  BY <1>1, FS_Interval
<1>3. ASSUME NEW i \in 1 .. Len(es)
      PROVE  /\ es[i] \in Entry /\ es[i].kind \in {"grant", "spend", "expiry"}
             /\ es[i].st \in {"open", "done", "void"}
             /\ es[i].amount \in Int /\ es[i].expires \in Int
  <2>1. es[i] \in Entry
    BY <1>1
  <2>2. Never \in Nat
    BY LedgerConstants DEF Never
  <2> QED
    BY <2>1, <2>2 DEF Entry
<1>4. GrantAmounts \in SUBSET (Nat \ {0})
  BY LedgerConstants
<1> QED
  BY <1>1, <1>2, <1>3, <1>4 DEF Wellformed

(* Buckets are drained one after the other.                                *)
LEMMA BucketOrder ==
  ASSUME NEW es, Wellformed(es)
  PROVE  /\ \A i \in 1 .. Len(es) : ~Precedes(es, i, i)
         /\ \A i, j \in 1 .. Len(es) : i # j => Precedes(es, i, j) \/ Precedes(es, j, i)
         /\ \A i, j \in 1 .. Len(es) : ~(Precedes(es, i, j) /\ Precedes(es, j, i))
         /\ \A i, j, k \in 1 .. Len(es) :
              Precedes(es, i, j) /\ Precedes(es, j, k) => Precedes(es, i, k)
<1>1. \A i \in 1 .. Len(es) : i \in Int /\ es[i].expires \in Int
  BY Row
<1> QED
  BY <1>1 DEF Precedes

(* Of some buckets one is the last.                                        *)
LEMMA LastBucket ==
  ASSUME NEW es, Wellformed(es), NEW D \in SUBSET (1 .. Len(es)), D # {}
  PROVE  \E m \in D : \A h \in D \ {m} : Precedes(es, h, m)
<1> DEFINE Has(s) == \E m \in s : \A h \in s \ {m} : Precedes(es, h, m)
           U == {s \in SUBSET D : s # {} /\ ~Has(s)}
<1>1. SUFFICES ASSUME U # {} PROVE FALSE
  OBVIOUS
<1>2. IsFiniteSet(D)
  BY Row, FS_Subset
<1>3. U \in SUBSET (SUBSET D)
  OBVIOUS
<1> HIDE DEF U
<1>4. PICK s \in U : \A x \in s : s \ {x} \notin U
  BY <1>1, <1>2, <1>3, LeastSet
<1>5. s \in SUBSET D /\ s # {} /\ ~Has(s)
  BY DEF U
<1>6. PICK x \in s : TRUE
  BY <1>5
<1>7. s \ {x} # {}
  <2>1. SUFFICES ASSUME s \ {x} = {} PROVE FALSE
    OBVIOUS
  <2>2. Has(s)
    BY <1>6, <2>1
  <2> QED
    BY <1>5, <2>2
<1>8. PICK y \in s \ {x} : \A h \in (s \ {x}) \ {y} : Precedes(es, h, y)
  <2>1. Has(s \ {x})
    BY <1>4, <1>5, <1>6, <1>7 DEF U
  <2> QED
    BY <2>1
<1>9. /\ x \in 1 .. Len(es) /\ y \in 1 .. Len(es) /\ x # y /\ y \in s
      /\ \A h \in s : h \in 1 .. Len(es)
  BY <1>5, <1>6, <1>8
<1>10. CASE Precedes(es, x, y)
  <2>1. \A h \in s \ {y} : Precedes(es, h, y)
    BY <1>8, <1>10
  <2> QED
    BY <1>5, <1>9, <2>1
<1>11. CASE Precedes(es, y, x)
  <2>1. \A h \in s \ {x} : Precedes(es, h, x)
    BY <1>8, <1>9, <1>11, BucketOrder
  <2> QED
    BY <1>5, <1>6, <2>1
<1> QED
  BY <1>9, <1>10, <1>11, BucketOrder

\* What the buckets of S before bucket j hold, and what a spend leaves in j
Before(es, r, S, j) == SumFunctionOnSet(r, {i \in S : Precedes(es, i, j)})
Rest(x, a, before) ==
  LET left == IF a > before THEN a - before ELSE 0
  IN IF x > left THEN x - left ELSE 0
Left(es, r, S, a, j) == Rest(r[j], a, Before(es, r, S, j))

(* deductSpend takes from each bucket what is left of the spend for it.    *)
LEMMA DeductIs ==
  ASSUME NEW es, NEW D, NEW r \in [D -> Nat], NEW a
  PROVE  deductSpend(es, r, a) = [j \in D |-> Left(es, r, D, a, j)]
BY DEF deductSpend, Left, Rest, Before

(* What the buckets before one hold is a number of credits.                *)
LEMMA BeforeTyped ==
  ASSUME NEW es, NEW D, IsFiniteSet(D), NEW r \in [D -> Nat], NEW a \in Nat, NEW j \in D
  PROVE  /\ Before(es, r, D, j) \in Nat /\ Left(es, r, D, a, j) \in Nat
         /\ Left(es, r, D, a, j) <= r[j] /\ r[j] \in Nat
<1> DEFINE B == {i \in D : Precedes(es, i, j)}
<1>1. B \in SUBSET D
  OBVIOUS
<1> HIDE DEF B
<1>2. IsFiniteSet(B) /\ \A x \in B : r[x] \in Nat
  BY <1>1, FS_Subset
<1>3. SumFunctionOnSet(r, B) \in Nat
  BY <1>2, SumNat
<1>4. Before(es, r, D, j) \in Nat
  BY <1>3 DEF Before, B
<1> QED
  BY <1>4 DEF Left, Rest

(* A spend takes its amount from the buckets together, as far as they go.  *)
LEMMA DeductSum ==
  ASSUME NEW es, Wellformed(es), NEW r \in [1 .. Len(es) -> Nat], NEW a \in Nat
  PROVE  /\ deductSpend(es, r, a) \in [1 .. Len(es) -> Nat]
         /\ Total(r) \in Nat
         /\ Total(deductSpend(es, r, a)) = IF Total(r) > a THEN Total(r) - a ELSE 0
<1> DEFINE D == 1 .. Len(es)
           L(s) == [j \in s |-> Left(es, r, s, a, j)]
           Whole(s) == SumFunctionOnSet(r, s)
           Good(s) == SumFunctionOnSet(L(s), s) = IF Whole(s) > a THEN Whole(s) - a ELSE 0
           U == {s \in SUBSET D : ~Good(s)}
<1>1. IsFiniteSet(D)
  BY Row
<1>2. Good(D)
  <2>1. SUFFICES ASSUME U # {} PROVE FALSE
    OBVIOUS
  <2>2. U \in SUBSET (SUBSET D)
    OBVIOUS
  <2> HIDE DEF U
  <2>3. PICK s \in U : \A x \in s : s \ {x} \notin U
    BY <1>1, <2>1, <2>2, LeastSet
  <2>4. s \in SUBSET D /\ ~Good(s) /\ IsFiniteSet(s)
    BY <1>1, FS_Subset DEF U
  <2>5. s # {}
    <3>1. SUFFICES ASSUME s = {} PROVE FALSE
      OBVIOUS
    <3> DEFINE l == L(s)
    <3>2. \A x \in s : l[x] = 0 /\ r[x] = 0
      BY <3>1
    <3> HIDE DEF l
    <3>3. SumFunctionOnSet(l, s) = 0 /\ SumFunctionOnSet(r, s) = 0
      BY <2>4, <3>2, SumZero
    <3> QED
      BY <2>4, <3>3 DEF l
  <2>6. PICK m \in s : \A h \in s \ {m} : Precedes(es, h, m)
    BY <2>4, <2>5, LastBucket
  <2> DEFINE t == s \ {m}
             f == L(s)
             g == L(t)
  <2>7. /\ t \in SUBSET D /\ IsFiniteSet(t) /\ Good(t)
    BY <2>3, <2>4, <2>6, FS_Subset DEF U
  <2>8. ASSUME NEW j \in t PROVE Before(es, r, s, j) = Before(es, r, t, j)
    <3>1. ~Precedes(es, m, j)
      BY <2>4, <2>6, <2>8, BucketOrder
    <3>2. {i \in s : Precedes(es, i, j)} = {i \in t : Precedes(es, i, j)}
      BY <3>1
    <3> QED
      BY <3>2 DEF Before
  <2>9. Before(es, r, s, m) = Whole(t)
    <3>1. {i \in s : Precedes(es, i, m)} = t
      BY <2>4, <2>6, BucketOrder
    <3> QED
      BY <3>1 DEF Before
  <2>10. \A x \in t : r[x] \in Nat
    BY <2>7
  <2>11. r[m] \in Nat
    BY <2>4, <2>6
  <2>12. Whole(t) \in Nat
    BY <2>7, <2>10, SumNat
  <2>13. Whole(s) = r[m] + Whole(t)
    <3>1. \A x \in s : r[x] \in Int
      BY <2>4
    <3> QED
      BY <2>4, <2>6, <3>1, SumRemove
  <2>14. \A j \in t : g[j] \in Int /\ f[j] = g[j]
    <3>1. SUFFICES ASSUME NEW j \in t PROVE g[j] \in Int /\ f[j] = g[j]
      OBVIOUS
    <3>2. f[j] = Left(es, r, s, a, j) /\ g[j] = Left(es, r, t, a, j)
      OBVIOUS
    <3>3. Before(es, r, t, j) \in Nat
      <4> DEFINE B == {i \in t : Precedes(es, i, j)}
      <4>1. B \in SUBSET t
        OBVIOUS
      <4> HIDE DEF B
      <4>2. IsFiniteSet(B) /\ \A x \in B : r[x] \in Nat
        BY <2>7, <2>10, <4>1, FS_Subset
      <4>3. SumFunctionOnSet(r, B) \in Nat
        BY <4>2, SumNat
      <4> QED
        BY <4>3 DEF Before, B
    <3> HIDE DEF f, g
    <3>4. Left(es, r, t, a, j) \in Int /\ Left(es, r, s, a, j) = Left(es, r, t, a, j)
      <4>1. Rest(r[j], a, Before(es, r, t, j)) \in Int
        BY <2>10, <3>3 DEF Rest
      <4> QED
        BY <2>8, <4>1 DEF Left
    <3> QED
      BY <3>2, <3>4
  <2>15. f[m] = LET left == IF a > Whole(t) THEN a - Whole(t) ELSE 0
                IN IF r[m] > left THEN r[m] - left ELSE 0
    BY <2>6, <2>9 DEF Left, Rest
  <2>16. f[m] \in Int /\ \A j \in s : f[j] \in Int
    BY <2>11, <2>12, <2>14, <2>15
  <2> HIDE DEF f, g
  <2>17. SumFunctionOnSet(f, s) = f[m] + SumFunctionOnSet(f, t)
    BY <2>4, <2>6, <2>16, SumRemove
  <2>18. SumFunctionOnSet(f, t) = SumFunctionOnSet(g, t)
    BY <2>7, <2>14, SumSame
  <2>19. SumFunctionOnSet(g, t) = IF Whole(t) > a THEN Whole(t) - a ELSE 0
    BY <2>7 DEF g
  <2> HIDE DEF Whole
  <2>20. SumFunctionOnSet(f, s) = IF Whole(s) > a THEN Whole(s) - a ELSE 0
    BY <2>11, <2>12, <2>13, <2>15, <2>17, <2>18, <2>19
  <2> QED
    BY <2>4, <2>20 DEF f
<1>3. deductSpend(es, r, a) = L(D)
  BY DeductIs
<1>4. L(D) \in [D -> Nat]
  BY <1>1, BeforeTyped
<1>5. Total(r) = Whole(D) /\ Total(L(D)) = SumFunctionOnSet(L(D), D)
  BY DEF Total
<1>6. Whole(D) \in Nat
  BY <1>1, SumNat
<1> QED
  BY <1>2, <1>3, <1>4, <1>5, <1>6

\* What entry n does to the buckets r
Effect(es, r, n, q) ==
  /\ q \in [1 .. Len(es) -> Nat]
  /\ es[n].st # "done" => q = r
  /\ es[n].st = "done" /\ es[n].kind = "grant" =>
       \A j \in 1 .. Len(es) : q[j] = IF j = n THEN es[n].amount ELSE r[j]
  /\ es[n].kind = "expiry" =>
       /\ es[n].of \in 1 .. Len(es) /\ es[n].of < n
       /\ \A j \in 1 .. Len(es) :
            q[j] = IF j = es[n].of
                   THEN IF r[j] + es[n].amount < 0 THEN 0 ELSE r[j] + es[n].amount
                   ELSE r[j]
  /\ es[n].kind = "spend" =>
       /\ q = deductSpend(es, r, -es[n].amount)
       /\ \A j \in 1 .. Len(es) : /\ q[j] = Left(es, r, 1 .. Len(es), -es[n].amount, j)
                                  /\ q[j] <= r[j]

(* replayEntry has that effect.                                            *)
LEMMA EntryTyped ==
  ASSUME NEW es, Wellformed(es), NEW r \in [1 .. Len(es) -> Nat], NEW n \in 1 .. Len(es),
         NEW q, q = replayEntry(es, r, n)
  PROVE  Effect(es, r, n, q)
<1>1. /\ es[n].kind \in {"grant", "spend", "expiry"} /\ es[n].amount \in Int /\ Len(es) \in Nat
      /\ es[n].kind = "grant" /\ es[n].st # "void" => es[n].amount \in Nat \ {0}
      /\ es[n].kind # "grant" => es[n].st = "done" /\ -es[n].amount \in Nat \ {0}
      /\ es[n].kind = "expiry" => es[n].of \in 1 .. n - 1
  BY Row
<1>2. CASE es[n].st # "done"
  BY <1>1, <1>2 DEF replayEntry, Effect
<1>3. CASE es[n].st = "done" /\ es[n].kind = "grant"
  <2>1. q = [r EXCEPT ![n] = es[n].amount]
    BY <1>1, <1>3 DEF replayEntry
  <2> QED
    BY <1>1, <1>3, <2>1 DEF Effect
<1>4. CASE es[n].kind = "expiry"
  <2>1. es[n].of \in 1 .. Len(es) /\ es[n].of < n /\ es[n].st = "done"
    BY <1>1, <1>4
  <2>2. q = [r EXCEPT ![es[n].of] = IF r[es[n].of] + es[n].amount < 0 THEN 0
                                    ELSE r[es[n].of] + es[n].amount]
    BY <1>1, <1>4, <2>1 DEF replayEntry
  <2>3. PICK o \in 1 .. Len(es) : o = es[n].of
    BY <2>1
  <2>4. PICK x \in Int : x = es[n].amount
    BY <1>1
  <2>5. q = [r EXCEPT ![o] = IF r[o] + x < 0 THEN 0 ELSE r[o] + x]
    BY <2>2, <2>3, <2>4
  <2>6. q \in [1 .. Len(es) -> Nat]
    BY <2>5
  <2>7. \A j \in 1 .. Len(es) : q[j] = IF j = o THEN IF r[j] + x < 0 THEN 0 ELSE r[j] + x ELSE r[j]
    BY <2>5
  <2> QED
    BY <1>4, <2>1, <2>3, <2>4, <2>6, <2>7 DEF Effect
<1>5. CASE es[n].kind = "spend"
  <2>1. q = deductSpend(es, r, -es[n].amount)
    BY <1>1, <1>5 DEF replayEntry
  <2>2. PICK a \in Nat : a = -es[n].amount
    BY <1>1, <1>5
  <2>3. deductSpend(es, r, a) \in [1 .. Len(es) -> Nat]
    BY DeductSum
  <2>4. deductSpend(es, r, a) = [j \in 1 .. Len(es) |-> Left(es, r, 1 .. Len(es), a, j)]
    BY DeductIs
  <2>5. \A j \in 1 .. Len(es) : Left(es, r, 1 .. Len(es), a, j) <= r[j]
    <3>1. IsFiniteSet(1 .. Len(es))
      BY Row
    <3> QED
      BY <3>1, BeforeTyped
  <2> QED
    BY <1>1, <1>5, <2>1, <2>2, <2>3, <2>4, <2>5 DEF Effect
<1> QED
  BY <1>1, <1>2, <1>3, <1>4, <1>5

\* The buckets after n entries
After(es, n) == replayed(es)[n]

(* All along the replay the buckets hold numbers of credits, and only the  *)
(* committed grants replayed so far hold any.                              *)
LEMMA ReplayTyped ==
  ASSUME NEW es, Wellformed(es), NEW k \in 0 .. Len(es)
  PROVE  /\ After(es, k) \in [1 .. Len(es) -> Nat]
         /\ \A j \in 1 .. Len(es) : After(es, k)[j] # 0 =>
              j <= k /\ es[j].kind = "grant" /\ es[j].st = "done"
<1> DEFINE Good(n) == /\ After(es, n) \in [1 .. Len(es) -> Nat]
                      /\ \A j \in 1 .. Len(es) : After(es, n)[j] # 0 =>
                           j <= n /\ es[j].kind = "grant" /\ es[j].st = "done"
           T == {n \in 0 .. Len(es) : ~Good(n)}
<1>1. SUFFICES ASSUME T # {} PROVE FALSE
  OBVIOUS
<1>2. Len(es) \in Nat /\ DOMAIN es = 1 .. Len(es) /\ es \in Seq(Entry)
  BY Row
<1>3. T \in SUBSET Nat
  BY <1>2
<1> HIDE DEF T
<1>4. PICK n \in T : \A m \in T : n <= m
  BY <1>1, <1>3, LeastNat
<1>5. n \in 0 .. Len(es) /\ ~Good(n)
  BY DEF T
<1>6. After(es, 0) = [j \in 1 .. Len(es) |-> 0]
  BY <1>2, Replayed DEF After, Zeros
<1>7. n # 0
  <2>1. Good(0)
    BY <1>6
  <2> QED
    BY <1>5, <2>1
<1>8. n - 1 \in 0 .. Len(es) /\ n \in 1 .. Len(es) /\ n - 1 \notin T
  BY <1>2, <1>4, <1>5, <1>7
<1> DEFINE r == After(es, n - 1)
           q == After(es, n)
<1>9. Good(n - 1)
  BY <1>8 DEF T
<1>10. q = replayEntry(es, r, n)
  BY <1>2, <1>8, Replayed DEF After
<1> HIDE DEF q, r
<1>11. r \in [1 .. Len(es) -> Nat]
  BY <1>9 DEF r
<1>e. Effect(es, r, n, q)
  BY <1>8, <1>10, <1>11, EntryTyped
<1>12. q \in [1 .. Len(es) -> Nat]
  BY <1>e DEF Effect
<1>13. ASSUME NEW j \in 1 .. Len(es), q[j] # 0
       PROVE  j <= n /\ es[j].kind = "grant" /\ es[j].st = "done"
  <2>1. r[j] # 0 => j <= n /\ es[j].kind = "grant" /\ es[j].st = "done"
    BY <1>2, <1>8, <1>9 DEF r
  <2>2. es[n].kind \in {"grant", "spend", "expiry"} /\ es[n].amount \in Int
    BY <1>8, Row
  <2>3. CASE es[n].st # "done"
    <3>1. q = r
      BY <1>e, <2>3 DEF Effect
    <3> QED
      BY <1>13, <2>1, <3>1
  <2>4. CASE es[n].st = "done" /\ es[n].kind = "grant"
    <3>1. q[j] = IF j = n THEN es[n].amount ELSE r[j]
      BY <1>e, <2>4 DEF Effect
    <3> QED
      BY <1>8, <1>13, <2>1, <2>4, <3>1
  <2>5. CASE es[n].kind = "expiry"
    <3>0. \A i \in 1 .. Len(es) :
            q[i] = IF i = es[n].of
                   THEN IF r[i] + es[n].amount < 0 THEN 0 ELSE r[i] + es[n].amount
                   ELSE r[i]
      BY <1>e, <2>5 DEF Effect
    <3>1. q[j] = IF j = es[n].of
                 THEN IF r[j] + es[n].amount < 0 THEN 0 ELSE r[j] + es[n].amount
                 ELSE r[j]
      BY <3>0, Zenon
    <3>2. es[n].amount < 0 /\ r[j] \in Nat
      BY <1>8, <1>11, <2>5 DEF Wellformed
    <3>3. r[j] # 0
      BY <1>13, <2>2, <3>1, <3>2
    <3> QED
      BY <2>1, <3>3
  <2>6. CASE es[n].kind = "spend"
    <3>1. q[j] <= r[j]
      BY <1>e, <2>6 DEF Effect
    <3>2. q[j] \in Nat /\ r[j] \in Nat
      BY <1>11, <1>12
    <3> QED
      BY <1>13, <2>1, <3>1, <3>2
  <2> QED
    BY <2>2, <2>3, <2>4, <2>5, <2>6
<1>14. Good(n)
  BY <1>12, <1>13 DEF q
<1> QED
  BY <1>5, <1>14

\* Of their first m rows, fs has the committed ones of es and perhaps more grants
Grows(es, fs, m) ==
  /\ m <= Len(es) /\ m <= Len(fs)
  /\ \A j \in 1 .. m :
       /\ es[j].st = "done" => fs[j] = es[j]
       /\ fs[j].st = "done" /\ es[j].st # "done" => fs[j].kind = "grant"

(* More left in a bucket and more before it, more left after a spend.      *)
LEMMA RestMonotone ==
  ASSUME NEW x \in Nat, NEW y \in Nat, NEW b \in Nat, NEW c \in Nat, NEW a \in Nat,
         x <= y, b <= c
  PROVE  Rest(x, a, b) <= Rest(y, a, c)
BY DEF Rest

(* A grant more leaves every bucket with at least as much.                 *)
LEMMA SpendMonotone ==
  ASSUME NEW es, NEW fs, Wellformed(es), Wellformed(fs), NEW m \in Nat, Grows(es, fs, m),
         NEW r \in [1 .. Len(es) -> Nat], NEW u \in [1 .. Len(fs) -> Nat],
         \A x \in 1 .. Len(es) : r[x] # 0 =>
           x <= m /\ es[x].st = "done" /\ r[x] <= u[x],
         NEW a \in Nat, NEW j \in 1 .. m, es[j].st = "done"
  PROVE  Left(es, r, 1 .. Len(es), a, j) <= Left(fs, u, 1 .. Len(fs), a, j)
<1> DEFINE D == 1 .. Len(es)
           F == 1 .. Len(fs)
           S == {i \in D : Precedes(es, i, j)}
           T == {i \in F : Precedes(fs, i, j)}
<1>1. /\ Len(es) \in Nat /\ IsFiniteSet(D) /\ Len(fs) \in Nat /\ IsFiniteSet(F)
      /\ m <= Len(es) /\ m <= Len(fs)
  BY Row DEF Grows
<1>2. j \in D /\ j \in F /\ fs[j] = es[j]
  BY <1>1 DEF Grows
<1>3. S \in SUBSET D /\ T \in SUBSET F
  OBVIOUS
<1>4. IsFiniteSet(S) /\ IsFiniteSet(T)
  BY <1>1, <1>3, FS_Subset
<1>5. ASSUME NEW x \in S, r[x] # 0 PROVE x \in T /\ r[x] <= u[x]
  <2>1. x \in D /\ x <= m /\ es[x].st = "done" /\ r[x] <= u[x]
    BY <1>3, <1>5
  <2>2. x \in 1 .. m /\ fs[x] = es[x]
    BY <1>1, <2>1 DEF Grows
  <2>3. Precedes(fs, x, j)
    BY <1>2, <2>2 DEF Precedes
  <2> QED
    BY <1>1, <2>1, <2>2, <2>3
<1>6. (\A x \in S : r[x] \in Nat) /\ (\A x \in T : u[x] \in Nat)
  BY <1>3
<1> HIDE DEF S, T
<1>7. /\ SumFunctionOnSet(r, S) \in Nat /\ SumFunctionOnSet(u, T) \in Nat
      /\ SumFunctionOnSet(r, S) <= SumFunctionOnSet(u, T)
  BY <1>4, <1>5, <1>6, SumBelow
<1>8. Before(es, r, D, j) = SumFunctionOnSet(r, S) /\ Before(fs, u, F, j) = SumFunctionOnSet(u, T)
  BY DEF Before, S, T
<1>9. r[j] \in Nat /\ u[j] \in Nat /\ r[j] <= u[j]
  BY <1>1, <1>2
<1>10. Rest(r[j], a, Before(es, r, D, j)) <= Rest(u[j], a, Before(fs, u, F, j))
  BY <1>7, <1>8, <1>9, RestMonotone
<1> QED
  BY <1>10 DEF Left

(* A grant more leaves every bucket at every entry with at least as much.  *)
LEMMA Monotone ==
  ASSUME NEW es, NEW fs, Wellformed(es), Wellformed(fs), NEW m \in Nat, Grows(es, fs, m),
         NEW k \in 0 .. m
  PROVE  \A j \in 1 .. m : After(es, k)[j] <= After(fs, k)[j]
<1> DEFINE Good(n) == \A j \in 1 .. m : After(es, n)[j] <= After(fs, n)[j]
           T == {n \in 0 .. m : ~Good(n)}
<1>1. SUFFICES ASSUME T # {} PROVE FALSE
  OBVIOUS
<1>2. /\ Len(es) \in Nat /\ DOMAIN es = 1 .. Len(es) /\ es \in Seq(Entry)
      /\ Len(fs) \in Nat /\ DOMAIN fs = 1 .. Len(fs) /\ fs \in Seq(Entry)
      /\ m <= Len(es) /\ m <= Len(fs)
  BY Row DEF Grows
<1>3. T \in SUBSET Nat
  OBVIOUS
<1> HIDE DEF T
<1>4. PICK n \in T : \A i \in T : n <= i
  BY <1>1, <1>3, LeastNat
<1>5. n \in 0 .. m /\ ~Good(n)
  BY DEF T
<1>6. n # 0
  <2>1. After(es, 0) = [j \in 1 .. Len(es) |-> 0] /\ After(fs, 0) = [j \in 1 .. Len(fs) |-> 0]
    BY <1>2, Replayed DEF After, Zeros
  <2>2. ASSUME NEW j \in 1 .. m PROVE After(es, 0)[j] <= After(fs, 0)[j]
    <3>1. j \in 1 .. Len(es) /\ j \in 1 .. Len(fs)
      BY <1>2
    <3>2. After(es, 0)[j] = 0 /\ After(fs, 0)[j] = 0
      BY <2>1, <3>1
    <3> QED
      BY <3>2
  <2> QED
    BY <1>5, <2>2
<1>7. /\ n - 1 \in 0 .. m /\ n \in 1 .. m /\ n - 1 \notin T
      /\ n \in 1 .. Len(es) /\ n \in 1 .. Len(fs)
      /\ n - 1 \in 0 .. Len(es) /\ n - 1 \in 0 .. Len(fs)
  BY <1>2, <1>4, <1>5, <1>6
<1> DEFINE r == After(es, n - 1)
           q == After(es, n)
           u == After(fs, n - 1)
           v == After(fs, n)
<1>8. \A j \in 1 .. m : r[j] <= u[j]
  BY <1>7 DEF T
<1>9. q = replayEntry(es, r, n) /\ v = replayEntry(fs, u, n)
  BY <1>2, <1>7, Replayed DEF After
<1>10. /\ r \in [1 .. Len(es) -> Nat]
       /\ \A j \in 1 .. Len(es) :
            r[j] # 0 => j <= n - 1 /\ es[j].kind = "grant" /\ es[j].st = "done"
  BY <1>7, ReplayTyped
<1>11. u \in [1 .. Len(fs) -> Nat]
  BY <1>7, ReplayTyped
<1>12. SUFFICES ASSUME NEW j \in 1 .. m PROVE q[j] <= v[j]
  BY <1>5
<1> HIDE DEF q, r, u, v
<1>13. j \in 1 .. Len(es) /\ j \in 1 .. Len(fs) /\ r[j] <= u[j] /\ r[j] \in Nat /\ u[j] \in Nat
  <2>1. j \in 1 .. Len(es) /\ j \in 1 .. Len(fs)
    BY <1>2
  <2> QED
    BY <1>8, <1>10, <1>11, <2>1
<1>14. es[n].kind \in {"grant", "spend", "expiry"} /\ es[n].amount \in Int
  BY <1>7, Row
<1>e. Effect(es, r, n, q)
  BY <1>7, <1>9, <1>10, EntryTyped
<1>f. Effect(fs, u, n, v)
  BY <1>7, <1>9, <1>11, EntryTyped
<1>15. q \in [1 .. Len(es) -> Nat] /\ v \in [1 .. Len(fs) -> Nat]
  BY <1>e, <1>f DEF Effect
<1>16. CASE es[n].st # "done"
  <2>1. q = r
    BY <1>e, <1>16 DEF Effect
  <2>2. CASE fs[n].st # "done"
    <3>1. v = u
      BY <1>f, <2>2 DEF Effect
    <3> QED
      BY <1>13, <2>1, <3>1
  <2>3. CASE fs[n].st = "done"
    <3>1. fs[n].kind = "grant"
      BY <1>7, <1>16, <2>3 DEF Grows
    <3>2. \A i \in 1 .. Len(fs) : v[i] = IF i = n THEN fs[n].amount ELSE u[i]
      BY <1>f, <2>3, <3>1 DEF Effect
    <3>3. j = n => r[j] = 0
      BY <1>7, <1>10, <1>13
    <3>4. v[j] \in Nat
      BY <1>13, <1>15
    <3> QED
      BY <1>13, <2>1, <3>2, <3>3, <3>4
  <2> QED
    BY <2>2, <2>3
<1>17. CASE es[n].st = "done"
  <2>1. fs[n] = es[n]
    BY <1>7, <1>17 DEF Grows
  <2>2. CASE es[n].kind = "grant"
    <3>1. \A i \in 1 .. Len(es) : q[i] = IF i = n THEN es[n].amount ELSE r[i]
      BY <1>e, <1>17, <2>2 DEF Effect
    <3>2. \A i \in 1 .. Len(fs) : v[i] = IF i = n THEN es[n].amount ELSE u[i]
      BY <1>f, <1>17, <2>1, <2>2 DEF Effect
    <3> QED
      BY <1>13, <1>14, <3>1, <3>2
  <2>3. CASE es[n].kind = "expiry"
    <3>1. PICK x \in Int : x = es[n].amount
      BY <1>14
    <3>2. PICK o : o = es[n].of
      OBVIOUS
    <3>3. \A i \in 1 .. Len(es) :
            q[i] = IF i = es[n].of
                   THEN IF r[i] + es[n].amount < 0 THEN 0 ELSE r[i] + es[n].amount
                   ELSE r[i]
      BY <1>e, <2>3 DEF Effect
    <3>4. \A i \in 1 .. Len(fs) :
            v[i] = IF i = fs[n].of
                   THEN IF u[i] + fs[n].amount < 0 THEN 0 ELSE u[i] + fs[n].amount
                   ELSE u[i]
      <4>1. fs[n].kind = "expiry"
        BY <2>1, <2>3
      <4> QED
        BY <1>f, <4>1 DEF Effect
    <3>5. q[j] = IF j = o THEN IF r[j] + x < 0 THEN 0 ELSE r[j] + x ELSE r[j]
      BY <1>13, <3>1, <3>2, <3>3, Zenon
    <3>6. v[j] = IF j = o THEN IF u[j] + x < 0 THEN 0 ELSE u[j] + x ELSE u[j]
      BY <1>13, <2>1, <3>1, <3>2, <3>4, Zenon
    <3> QED
      BY <1>13, <3>5, <3>6
  <2>4. CASE es[n].kind = "spend"
    <3>1. PICK a \in Nat : a = -es[n].amount
      BY <1>7, <2>4, Row
    <3>2. q[j] = Left(es, r, 1 .. Len(es), -es[n].amount, j) /\ q[j] <= r[j]
      BY <1>e, <1>13, <2>4 DEF Effect
    <3>3. v[j] = Left(fs, u, 1 .. Len(fs), -fs[n].amount, j)
      <4>1. fs[n].kind = "spend"
        BY <2>1, <2>4
      <4> QED
        BY <1>f, <1>13, <4>1 DEF Effect
    <3>4. CASE r[j] = 0
      <4>1. q[j] \in Nat /\ v[j] \in Nat
        BY <1>13, <1>15
      <4> QED
        BY <3>2, <3>4, <4>1
    <3>5. CASE r[j] # 0
      <4>1. \A x \in 1 .. Len(es) : r[x] # 0 => x <= m /\ es[x].st = "done" /\ r[x] <= u[x]
        BY <1>2, <1>7, <1>8, <1>10
      <4>2. es[j].st = "done"
        BY <1>10, <1>13, <3>5
      <4>3. Left(es, r, 1 .. Len(es), a, j) <= Left(fs, u, 1 .. Len(fs), a, j)
        BY <1>10, <1>11, <4>1, <4>2, SpendMonotone
      <4> QED
        BY <2>1, <3>1, <3>2, <3>3, <4>3
    <3> QED
      BY <3>4, <3>5
  <2> QED
    BY <1>14, <2>2, <2>3, <2>4
<1> QED
  BY <1>16, <1>17

(* A grant more leaves at least as much in all the buckets together.       *)
LEMMA TotalMonotone ==
  ASSUME NEW es, NEW fs, Wellformed(es), Wellformed(fs), NEW m \in Nat, Grows(es, fs, m),
         NEW k \in 0 .. m
  PROVE  /\ Total(After(es, k)) \in Nat /\ Total(After(fs, k)) \in Nat
         /\ Total(After(es, k)) <= Total(After(fs, k))
<1> DEFINE D == 1 .. Len(es)
           F == 1 .. Len(fs)
           r == After(es, k)
           u == After(fs, k)
<1>1. /\ Len(es) \in Nat /\ IsFiniteSet(D) /\ Len(fs) \in Nat /\ IsFiniteSet(F)
      /\ m <= Len(es) /\ m <= Len(fs)
  BY Row DEF Grows
<1>2. k \in 0 .. Len(es) /\ k \in 0 .. Len(fs)
  BY <1>1
<1>3. r \in [D -> Nat] /\ u \in [F -> Nat] /\ \A x \in D : r[x] # 0 => x <= k
  BY <1>2, ReplayTyped
<1>4. \A x \in 1 .. m : r[x] <= u[x]
  BY Monotone
<1> HIDE DEF r, u
<1>5. \A x \in D : r[x] # 0 => x \in F /\ r[x] <= u[x]
  <2>1. SUFFICES ASSUME NEW x \in D, r[x] # 0 PROVE x \in F /\ r[x] <= u[x]
    OBVIOUS
  <2>2. x <= k
    BY <1>3, <2>1
  <2>3. x \in 1 .. m /\ x \in F
    BY <1>1, <2>2
  <2> QED
    BY <1>4, <2>3
<1>6. (\A x \in D : r[x] \in Nat) /\ (\A x \in F : u[x] \in Nat) /\ DOMAIN r = D /\ DOMAIN u = F
  BY <1>3
<1>7. /\ SumFunctionOnSet(r, D) \in Nat /\ SumFunctionOnSet(u, F) \in Nat
      /\ SumFunctionOnSet(r, D) <= SumFunctionOnSet(u, F)
  BY <1>1, <1>5, <1>6, SumBelow
<1> QED
  BY <1>6, <1>7 DEF Total, r, u

(* A spend or an expiry that was covered stays so when a grant is added.   *)
LEMMA CoveredKept ==
  ASSUME NEW es, NEW fs, Wellformed(es), Wellformed(fs), NEW m \in Nat, Grows(es, fs, m),
         \A n \in 1 .. m : CoveredAt(es, n)
  PROVE  \A n \in 1 .. m : CoveredAt(fs, n)
<1>1. SUFFICES ASSUME NEW n \in 1 .. m, fs[n].st = "done", fs[n].kind # "grant"
               PROVE  CoveredAt(fs, n)
  BY DEF CoveredAt
<1>2. es[n].st = "done" /\ fs[n] = es[n]
  BY <1>1 DEF Grows
<1>3. /\ Len(es) \in Nat /\ Len(fs) \in Nat /\ m <= Len(es) /\ m <= Len(fs)
  BY Row DEF Grows
<1>4. n \in 1 .. Len(fs) /\ n - 1 \in 0 .. m /\ n - 1 \in 0 .. Len(es) /\ n - 1 \in 0 .. Len(fs)
      /\ n \in 1 .. Len(es) /\ n - 1 \in Nat
  BY <1>3
<1> DEFINE r == After(es, n - 1)
           u == After(fs, n - 1)
<1>5. es[n].amount \in Int /\ es[n].kind = "expiry" => es[n].of \in 1 .. n - 1
  BY <1>4, Row
<1>6. /\ es[n].kind = "spend" => -es[n].amount <= Total(r)
      /\ es[n].kind = "expiry" => -es[n].amount <= r[es[n].of]
  BY <1>2 DEF CoveredAt, After
<1>7. Total(r) \in Nat /\ Total(u) \in Nat /\ Total(r) <= Total(u)
  BY <1>4, TotalMonotone
<1>8. \A j \in 1 .. m : r[j] <= u[j]
  BY <1>4, Monotone
<1>9. r \in [1 .. Len(es) -> Nat] /\ u \in [1 .. Len(fs) -> Nat]
  BY <1>4, ReplayTyped
<1> HIDE DEF r, u
<1>10. fs[n].kind = "spend" => -fs[n].amount <= Total(u)
  <2>1. es[n].amount \in Int
    BY <1>4, Row
  <2> QED
    BY <1>2, <1>6, <1>7, <2>1
<1>11. ASSUME fs[n].kind = "expiry" PROVE -fs[n].amount <= u[fs[n].of]
  <2>1. es[n].amount \in Int
    BY <1>4, Row
  <2>2. PICK o \in 1 .. m : o = es[n].of
    BY <1>2, <1>4, <1>5, <1>11, <2>1
  <2>3. o \in 1 .. Len(es) /\ o \in 1 .. Len(fs)
    BY <1>3
  <2>4. r[o] \in Nat /\ u[o] \in Nat /\ r[o] <= u[o]
    BY <1>8, <1>9, <2>3
  <2>5. -es[n].amount <= r[o]
    BY <1>2, <1>6, <1>11, <2>2
  <2>6. -es[n].amount <= u[o]
    BY <2>1, <2>4, <2>5
  <2> QED
    BY <1>2, <2>2, <2>6
<1> QED
  BY <1>10, <1>11 DEF CoveredAt, u, After

(* Changing one bucket changes the total by as much.                       *)
LEMMA OneBucket ==
  ASSUME NEW D, IsFiniteSet(D), NEW r \in [D -> Nat], NEW q \in [D -> Nat], NEW o \in D,
         \A j \in D : j # o => q[j] = r[j]
  PROVE  Total(r) \in Nat /\ Total(q) = Total(r) + q[o] - r[o]
<1> DEFINE R == D \ {o}
<1>1. IsFiniteSet(R)
  BY FS_Subset
<1>2. /\ \A j \in D : r[j] \in Int /\ q[j] \in Int /\ r[j] \in Nat /\ q[j] \in Nat
      /\ \A j \in R : r[j] \in Int /\ q[j] = r[j]
      /\ DOMAIN r = D /\ DOMAIN q = D
  OBVIOUS
<1>3. /\ SumFunctionOnSet(r, D) = r[o] + SumFunctionOnSet(r, D \ {o})
      /\ SumFunctionOnSet(q, D) = q[o] + SumFunctionOnSet(q, D \ {o})
  BY <1>2, SumRemove
<1> HIDE DEF R
<1>4. SumFunctionOnSet(q, R) = SumFunctionOnSet(r, R) /\ SumFunctionOnSet(r, R) \in Int
  BY <1>1, <1>2, SumSame, SumTyped
<1>5. SumFunctionOnSet(r, D) \in Nat
  BY <1>2, SumNat
<1> QED
  BY <1>2, <1>3, <1>4, <1>5 DEF Total, R

(* A covered entry changes the total by its amount.                        *)
LEMMA EntryTotal ==
  ASSUME NEW es, Wellformed(es), NEW n \in 1 .. Len(es), CoveredAt(es, n)
  PROVE  /\ Total(After(es, n - 1)) \in Int
         /\ Total(After(es, n)) =
              Total(After(es, n - 1)) + (IF es[n].st = "done" THEN es[n].amount ELSE 0)
<1> DEFINE D == 1 .. Len(es)
           r == After(es, n - 1)
           q == After(es, n)
<1>1. /\ Len(es) \in Nat /\ es \in Seq(Entry) /\ IsFiniteSet(D)
      /\ es[n].kind \in {"grant", "spend", "expiry"} /\ es[n].amount \in Int
      /\ es[n].kind # "grant" => es[n].st = "done" /\ -es[n].amount \in Nat \ {0}
  BY Row
<1>2. n - 1 \in 0 .. Len(es)
  BY <1>1
<1>3. q = replayEntry(es, r, n)
  BY <1>1, Replayed DEF After
<1>4. r \in [D -> Nat] /\ \A j \in D : r[j] # 0 => j <= n - 1
  BY <1>2, ReplayTyped
<1>5. /\ es[n].kind = "spend" => -es[n].amount <= Total(r)
      /\ es[n].kind = "expiry" => -es[n].amount <= r[es[n].of]
  BY <1>1 DEF CoveredAt, After
<1> HIDE DEF r, q
<1>e. Effect(es, r, n, q)
  BY <1>3, <1>4, EntryTyped
<1>6. q \in [D -> Nat] /\ DOMAIN r = D
  BY <1>4, <1>e DEF Effect
<1>7. Total(r) \in Nat
  <2>1. \A j \in D : r[j] \in Nat
    BY <1>4
  <2> QED
    BY <1>1, <1>6, <2>1, SumNat DEF Total
<1>8. CASE es[n].st # "done"
  <2>1. q = r
    BY <1>e, <1>8 DEF Effect
  <2> QED
    BY <1>7, <1>8, <2>1 DEF r, q
<1>9. CASE es[n].st = "done" /\ es[n].kind = "grant"
  <2>1. \A j \in D : q[j] = IF j = n THEN es[n].amount ELSE r[j]
    BY <1>e, <1>9 DEF Effect
  <2>2. r[n] = 0
    BY <1>1, <1>4
  <2>3. \A j \in D : j # n => q[j] = r[j]
    BY <2>1
  <2>4. Total(q) = Total(r) + q[n] - r[n]
    <3>1. IsFiniteSet(D) /\ r \in [D -> Nat] /\ q \in [D -> Nat] /\ n \in D
      BY <1>1, <1>4, <1>6
    <3> HIDE DEF D
    <3> QED
      BY <2>3, <3>1, OneBucket
  <2>5. q[n] = es[n].amount
    BY <2>1
  <2> QED
    BY <1>1, <1>7, <1>9, <2>2, <2>4, <2>5 DEF r, q
<1>10. CASE es[n].kind = "expiry"
  <2>1. es[n].of \in D
    BY <1>e, <1>10 DEF Effect
  <2>2. \A j \in D :
          q[j] = IF j = es[n].of
                 THEN IF r[j] + es[n].amount < 0 THEN 0 ELSE r[j] + es[n].amount
                 ELSE r[j]
    BY <1>e, <1>10 DEF Effect
  <2>3. PICK o \in D : o = es[n].of
    BY <2>1
  <2>4. PICK x \in Int : x = es[n].amount
    BY <1>1
  <2>5. \A j \in D : q[j] = IF j = o THEN IF r[j] + x < 0 THEN 0 ELSE r[j] + x ELSE r[j]
    BY <2>2, <2>3, <2>4, Zenon
  <2>6. r[o] \in Nat /\ -x <= r[o]
    BY <1>4, <1>5, <1>10, <2>3, <2>4
  <2>7. q[o] = r[o] + x
    BY <2>5, <2>6
  <2>8. \A j \in D : j # o => q[j] = r[j]
    BY <2>5
  <2>9. Total(q) = Total(r) + q[o] - r[o]
    <3>1. IsFiniteSet(D) /\ r \in [D -> Nat] /\ q \in [D -> Nat] /\ o \in D
      BY <1>1, <1>4, <1>6
    <3> HIDE DEF D
    <3> QED
      BY <2>8, <3>1, OneBucket
  <2>10. Total(q) = Total(r) + x
    BY <1>7, <2>6, <2>7, <2>9
  <2> QED
    BY <1>1, <1>7, <1>10, <2>4, <2>10 DEF r, q
<1>11. CASE es[n].kind = "spend"
  <2>1. q = deductSpend(es, r, -es[n].amount)
    BY <1>e, <1>11 DEF Effect
  <2>2. PICK a \in Nat : a = -es[n].amount
    BY <1>1, <1>11
  <2>3. Total(deductSpend(es, r, a)) = IF Total(r) > a THEN Total(r) - a ELSE 0
    BY <1>4, DeductSum
  <2>4. Total(q) = Total(r) - a
    BY <1>5, <1>7, <1>11, <2>1, <2>2, <2>3
  <2>5. es[n].st = "done" /\ es[n].amount = -a
    BY <1>1, <1>11, <2>2
  <2> QED
    BY <1>7, <2>4, <2>5 DEF r, q
<1> QED
  BY <1>1, <1>8, <1>9, <1>10, <1>11

\* The committed entries among the first k
Done(es, k) == {i \in 1 .. Len(es) : es[i].st = "done" /\ i <= k}
Amounts(es) == [i \in DOMAIN es |-> es[i].amount]

(* The replay of a covered ledger keeps every credit, entry by entry.      *)
LEMMA Conserves ==
  ASSUME NEW es, Wellformed(es), Covered(es), NEW k \in 0 .. Len(es)
  PROVE  Total(After(es, k)) = SumFunctionOnSet(Amounts(es), Done(es, k))
<1> DEFINE A == Amounts(es)
           Good(n) == Total(After(es, n)) = SumFunctionOnSet(A, Done(es, n))
           T == {n \in 0 .. Len(es) : ~Good(n)}
<1>1. SUFFICES ASSUME T # {} PROVE FALSE
  OBVIOUS
<1>2. /\ Len(es) \in Nat /\ DOMAIN es = 1 .. Len(es) /\ es \in Seq(Entry)
      /\ IsFiniteSet(1 .. Len(es))
  BY Row
<1>3. T \in SUBSET Nat
  BY <1>2
<1> HIDE DEF T
<1>4. PICK n \in T : \A m \in T : n <= m
  BY <1>1, <1>3, LeastNat
<1>5. n \in 0 .. Len(es) /\ ~Good(n)
  BY DEF T
<1>6. n # 0
  <2>1. After(es, 0) = [j \in 1 .. Len(es) |-> 0]
    BY <1>2, Replayed DEF After, Zeros
  <2> DEFINE z == After(es, 0)
  <2>2. (\A j \in 1 .. Len(es) : z[j] = 0) /\ DOMAIN z = 1 .. Len(es)
    BY <2>1
  <2> HIDE DEF z
  <2>3. Total(z) = 0
    BY <1>2, <2>2, SumZero DEF Total
  <2>4. Done(es, 0) = {}
    BY <1>2 DEF Done
  <2>5. SumFunctionOnSet(A, {}) = 0
    <3>1. IsFiniteSet({}) /\ \A x \in {} : A[x] = 0
      BY FS_EmptySet
    <3> HIDE DEF A
    <3> QED
      BY <3>1, SumZero
  <2> QED
    BY <1>5, <2>3, <2>4, <2>5 DEF z
<1>7. n - 1 \in 0 .. Len(es) /\ n \in 1 .. Len(es) /\ n - 1 \notin T
  BY <1>2, <1>4, <1>5, <1>6
<1>8. Good(n - 1)
  BY <1>7 DEF T
<1>9. /\ Total(After(es, n - 1)) \in Int
      /\ Total(After(es, n)) =
           Total(After(es, n - 1)) + (IF es[n].st = "done" THEN es[n].amount ELSE 0)
  BY <1>7, EntryTotal DEF Covered
<1>10. \A i \in 1 .. Len(es) : A[i] = es[i].amount /\ A[i] \in Int
  BY <1>2, Row DEF Amounts
<1>11. /\ IsFiniteSet(Done(es, n)) /\ IsFiniteSet(Done(es, n - 1))
       /\ Done(es, n) \in SUBSET (1 .. Len(es))
  BY <1>2, FS_Subset DEF Done
<1> HIDE DEF A
<1>12. CASE es[n].st # "done"
  <2>1. Done(es, n) = Done(es, n - 1)
    BY <1>2, <1>7, <1>12 DEF Done
  <2> QED
    BY <1>5, <1>8, <1>9, <1>12, <2>1
<1>13. CASE es[n].st = "done"
  <2>1. n \in Done(es, n) /\ Done(es, n) \ {n} = Done(es, n - 1)
    BY <1>2, <1>7, <1>13 DEF Done
  <2>2. \A x \in Done(es, n) : A[x] \in Int
    BY <1>10, <1>11
  <2>3. SumFunctionOnSet(A, Done(es, n)) = A[n] + SumFunctionOnSet(A, Done(es, n) \ {n})
    BY <1>11, <2>1, <2>2, SumRemove
  <2>4. A[n] = es[n].amount /\ A[n] \in Int
    BY <1>7, <1>10
  <2> QED
    <3>1. Total(After(es, n - 1)) = SumFunctionOnSet(A, Done(es, n - 1))
      BY <1>8
    <3>2. Total(After(es, n)) = Total(After(es, n - 1)) + es[n].amount
      BY <1>9, <1>13
    <3>3. SumFunctionOnSet(A, Done(es, n)) = A[n] + SumFunctionOnSet(A, Done(es, n - 1))
      BY <2>1, <2>3, Zenon
    <3>4. Total(After(es, n)) = SumFunctionOnSet(A, Done(es, n))
      BY <1>9, <2>4, <3>1, <3>2, <3>3
    <3> QED
      BY <1>5, <3>4
<1> QED
  BY <1>12, <1>13

(* What the replay says is left is the balance.                            *)
LEMMA BalanceIs ==
  ASSUME NEW es, Wellformed(es), Covered(es)
  PROVE  /\ sumBalance(es) = Total(After(es, Len(es))) /\ sumBalance(es) \in Nat
         /\ SumFunction(replayBuckets(es)) = sumBalance(es)
<1>1. Len(es) \in Nat /\ DOMAIN es = 1 .. Len(es) /\ IsFiniteSet(1 .. Len(es))
  BY Row
<1>2. Len(es) \in 0 .. Len(es)
  BY <1>1
<1>3. Visible(es) = Done(es, Len(es))
  BY <1>1 DEF Visible, Done
<1>4. sumBalance(es) = Total(After(es, Len(es)))
  BY <1>2, <1>3, Conserves DEF sumBalance, Amounts
<1> DEFINE r == After(es, Len(es))
<1>5. r \in [1 .. Len(es) -> Nat]
  BY <1>2, ReplayTyped
<1> HIDE DEF r
<1>6. Total(r) \in Nat
  <2>1. (\A j \in 1 .. Len(es) : r[j] \in Nat) /\ DOMAIN r = 1 .. Len(es)
    BY <1>5
  <2> QED
    BY <1>1, <2>1, SumNat DEF Total
<1>7. SumFunction(r) = Total(r)
  BY DEF SumFunction, Total
<1> QED
  BY <1>4, <1>6, <1>7 DEF r, After, replayBuckets

(* Ledgers with the same committed rows replay alike.                      *)
LEMMA Same ==
  ASSUME NEW es, NEW fs, Wellformed(es), Wellformed(fs), NEW m \in Nat,
         Grows(es, fs, m), Grows(fs, es, m), NEW k \in 0 .. m
  PROVE  /\ \A j \in 1 .. m : After(fs, k)[j] = After(es, k)[j]
         /\ Total(After(fs, k)) = Total(After(es, k))
<1>1. /\ Total(After(es, k)) \in Nat /\ Total(After(fs, k)) \in Nat
      /\ Total(After(es, k)) <= Total(After(fs, k)) /\ Total(After(fs, k)) <= Total(After(es, k))
  BY TotalMonotone
<1>2. \A j \in 1 .. m : After(es, k)[j] <= After(fs, k)[j]
  BY Monotone
<1>3. \A j \in 1 .. m : After(fs, k)[j] <= After(es, k)[j]
  BY Monotone
<1>4. Len(es) \in Nat /\ Len(fs) \in Nat /\ m <= Len(es) /\ m <= Len(fs)
  BY Row DEF Grows
<1>5. k \in 0 .. Len(es) /\ k \in 0 .. Len(fs)
  BY <1>4
<1> DEFINE r == After(es, k)
           u == After(fs, k)
<1>6. r \in [1 .. Len(es) -> Nat] /\ u \in [1 .. Len(fs) -> Nat]
  BY <1>5, ReplayTyped
<1> HIDE DEF r, u
<1>7. \A j \in 1 .. m : r[j] \in Nat /\ u[j] \in Nat
  BY <1>4, <1>6
<1>8. \A j \in 1 .. m : u[j] = r[j]
  BY <1>2, <1>3, <1>7 DEF r, u
<1> QED
  BY <1>1, <1>8 DEF r, u

\* An increasing sequence of members of S, as many as S has
Increasing(S, s) ==
  /\ s \in [1 .. Cardinality(S) -> S]
  /\ \A m, n \in 1 .. Cardinality(S) : m < n => s[m] < s[n]

(* A set of numbers has a greatest one.                                    *)
LEMMA GreatestNat ==
  ASSUME NEW L \in Nat, NEW S \in SUBSET (1 .. L), S # {}
  PROVE  \E x \in S : \A y \in S : y <= x
<1> DEFINE T == {n \in Nat : L - n \in S}
<1>1. PICK x \in S : TRUE
  OBVIOUS
<1>2. L - x \in Nat /\ L - (L - x) = x
  OBVIOUS
<1>3. T \in SUBSET Nat /\ T # {}
  BY <1>1, <1>2
<1> HIDE DEF T
<1>4. PICK n \in T : \A m \in T : n <= m
  BY <1>3, LeastNat
<1>5. n \in Nat /\ L - n \in S
  BY DEF T
<1>6. ASSUME NEW y \in S PROVE y <= L - n
  <2>1. L - y \in Nat /\ L - (L - y) = y
    OBVIOUS
  <2>2. L - y \in T
    BY <2>1 DEF T
  <2> QED
    BY <1>4, <1>5, <2>1, <2>2
<1> QED
  BY <1>5, <1>6

(* Some numbers can be listed in order.                                    *)
LEMMA Ordered ==
  ASSUME NEW L \in Nat, NEW S \in SUBSET (1 .. L)
  PROVE  \E s : Increasing(S, s)
<1> DEFINE U == {A \in SUBSET (1 .. L) : ~\E s : Increasing(A, s)}
<1>1. SUFFICES ASSUME U # {} PROVE FALSE
  OBVIOUS
<1>2. IsFiniteSet(1 .. L) /\ U \in SUBSET (SUBSET (1 .. L))
  BY FS_Interval
<1> HIDE DEF U
<1>3. PICK A \in U : \A x \in A : A \ {x} \notin U
  BY <1>1, <1>2, LeastSet
<1>4. A \in SUBSET (1 .. L) /\ ~\E s : Increasing(A, s)
  BY DEF U
<1>5. IsFiniteSet(A)
  BY <1>2, <1>4, FS_Subset
<1>6. A # {}
  <2>1. SUFFICES ASSUME A = {} PROVE FALSE
    OBVIOUS
  <2>2. Cardinality(A) = 0
    BY <2>1, FS_EmptySet
  <2> DEFINE e == [i \in 1 .. Cardinality(A) |-> 0]
  <2>3. 1 .. Cardinality(A) = {}
    BY <2>2
  <2>4. e \in [1 .. Cardinality(A) -> A]
    BY <2>3
  <2>5. Increasing(A, e)
    BY <2>3, <2>4 DEF Increasing
  <2> QED
    BY <1>4, <2>5
<1>7. PICK x \in A : \A y \in A : y <= x
  BY <1>4, <1>6, GreatestNat
<1> DEFINE B == A \ {x}
           c == Cardinality(A)
<1>8. Cardinality(B) = c - 1 /\ c \in Nat /\ IsFiniteSet(B) /\ Cardinality(B) \in Nat
  BY <1>5, FS_RemoveElement, FS_CardinalityType
<1>9. PICK e : Increasing(B, e)
  BY <1>3, <1>4 DEF U
<1> DEFINE f == [i \in 1 .. c |-> IF i = c THEN x ELSE e[i]]
<1> HIDE DEF c
<1>10. e \in [1 .. c - 1 -> B] /\ \A m, n \in 1 .. c - 1 : m < n => e[m] < e[n]
  BY <1>8, <1>9 DEF Increasing
<1>11. \A m \in 1 .. c - 1 : e[m] \in A /\ e[m] # x /\ e[m] < x
  <2>1. SUFFICES ASSUME NEW m \in 1 .. c - 1 PROVE e[m] \in A /\ e[m] # x /\ e[m] < x
    OBVIOUS
  <2>2. e[m] \in B
    BY <1>10
  <2>3. \A y \in A : y \in Int
    BY <1>4
  <2>4. e[m] \in A /\ e[m] # x /\ e[m] \in Int /\ x \in Int
    BY <2>2, <2>3
  <2> QED
    BY <1>7, <2>4
<1>12. f \in [1 .. c -> A]
  BY <1>8, <1>11
<1>13. ASSUME NEW m \in 1 .. c, NEW n \in 1 .. c, m < n PROVE f[m] < f[n]
  <2>1. m \in 1 .. c - 1 /\ (n # c => n \in 1 .. c - 1)
    BY <1>8, <1>13
  <2>2. f[m] = e[m] /\ f[n] = IF n = c THEN x ELSE e[n]
    BY <1>8, <1>13, <2>1
  <2> HIDE DEF f
  <2> QED
    BY <1>10, <1>11, <1>13, <2>1, <2>2
<1> HIDE DEF f
<1>14. Increasing(A, f)
  BY <1>12, <1>13 DEF Increasing, c
<1> QED
  BY <1>4, <1>14

(* The sweep goes through the buckets it forfeits one by one.              *)
LEMMA InOrderIs ==
  ASSUME NEW L \in Nat, NEW S \in SUBSET (1 .. L)
  PROVE  /\ Cardinality(S) \in Nat /\ InOrder(S) \in [1 .. Cardinality(S) -> S]
         /\ \A m, n \in 1 .. Cardinality(S) : m # n => InOrder(S)[m] # InOrder(S)[n]
         /\ \A x \in S : \E n \in 1 .. Cardinality(S) : InOrder(S)[n] = x
<1>1. IsFiniteSet(S)
  <2>1. IsFiniteSet(1 .. L)
    BY FS_Interval
  <2> QED
    BY <2>1, FS_Subset
<1> DEFINE c == Cardinality(S)
           s == InOrder(S)
<1>2. c \in Nat
  BY <1>1, FS_CardinalityType
<1>3. PICK e : Increasing(S, e)
  BY Ordered
<1>4. s \in [1 .. c -> S] /\ \A m, n \in 1 .. c : m < n => s[m] < s[n]
  BY <1>3 DEF InOrder, Increasing
<1> HIDE DEF c, s
<1>5. ASSUME NEW m \in 1 .. c, NEW n \in 1 .. c, m # n PROVE s[m] # s[n]
  <2>1. m < n \/ n < m
    BY <1>2, <1>5
  <2>2. s[m] \in S /\ s[n] \in S
    BY <1>4
  <2>3. \A y \in S : y \in Int
    OBVIOUS
  <2>4. s[m] \in Int /\ s[n] \in Int
    BY <2>2, <2>3
  <2> QED
    BY <1>4, <2>1, <2>4
<1>6. ASSUME NEW x \in S, \A n \in 1 .. c : s[n] # x PROVE FALSE
  <2>1. s \in [1 .. c -> S \ {x}]
    BY <1>4, <1>6
  <2>2. Cardinality(S \ {x}) = c - 1 /\ IsFiniteSet(S \ {x})
    BY <1>1, <1>6, FS_RemoveElement DEF c
  <2>3. Cardinality(1 .. c) = c /\ IsFiniteSet(1 .. c)
    BY <1>2, FS_Interval
  <2>4. Cardinality(S \ {x}) < Cardinality(1 .. c)
    BY <1>2, <2>2, <2>3
  <2> DEFINE I == 1 .. c
             J == S \ {x}
  <2> HIDE DEF I, J
  <2>5. \E m, n \in I : m # n /\ s[m] = s[n]
    <3>1. s \in [I -> J] /\ IsFiniteSet(I) /\ IsFiniteSet(J) /\ Cardinality(J) < Cardinality(I)
      BY <2>1, <2>2, <2>3, <2>4 DEF I, J
    <3> QED
      BY <3>1, FS_PigeonHole
  <2>6. \E m, n \in 1 .. c : m # n /\ s[m] = s[n]
    BY <2>5 DEF I
  <2> QED
    BY <1>5, <2>6
<1> QED
  BY <1>2, <1>4, <1>5, <1>6 DEF c, s
-----------------------------------------------------------------------------
\* A row that may stand at position i
RowOk(e, i) ==
  /\ e \in Entry
  /\ e.kind = "grant" => i <= MaxEntries
  /\ e.kind # "grant" => e.st = "done" /\ e.amount < 0
  /\ e.kind = "grant" /\ e.st # "void" => e.amount \in GrantAmounts
  /\ e.kind = "expiry" => e.of \in 1 .. i - 1

(* A ledger is well-formed row by row.                                     *)
LEMMA RowByRow ==
  ASSUME NEW es \in Seq(Entry)
  PROVE  Wellformed(es) <=> \A i \in 1 .. Len(es) : RowOk(es[i], i)
<1>1. \A i \in 1 .. Len(es) : es[i] \in Entry
  OBVIOUS
<1> QED
  BY <1>1 DEF Wellformed, RowOk

\* fs is es with a row added, or with row i settled as e
Adds(es, e, fs) ==
  /\ Wellformed(fs) /\ Covered(fs)
  /\ Len(fs) = Len(es) + 1 /\ \A j \in 1 .. Len(es) : fs[j] = es[j]
  /\ fs[Len(es) + 1] = e
  /\ sumBalance(es) \in Nat
  /\ sumBalance(fs) = sumBalance(es) + (IF e.st = "done" THEN e.amount ELSE 0)
Sets(es, i, e, fs) == fs = [es EXCEPT ![i] = e]
Settles(es, i, e, fs) ==
  /\ Wellformed(fs) /\ Covered(fs)
  /\ Len(fs) = Len(es) /\ \A j \in 1 .. Len(es) : fs[j] = IF j = i THEN e ELSE es[j]
  /\ sumBalance(es) \in Nat
  /\ sumBalance(fs) = sumBalance(es) + (IF e.st = "done" THEN e.amount ELSE 0)

(* A grant or a spend is added at the end.                                 *)
LEMMA Appended ==
  ASSUME NEW es, Wellformed(es), Covered(es), NEW e \in Entry, RowOk(e, Len(es) + 1),
         e.kind # "expiry", e.kind = "spend" => -e.amount <= sumBalance(es),
         NEW fs, fs = Append(es, e)
  PROVE  Adds(es, e, fs)
<1> DEFINE L == Len(es)
<1>1. L \in Nat /\ es \in Seq(Entry)
  BY Row
<1>2. /\ fs \in Seq(Entry) /\ Len(fs) = L + 1 /\ (\A j \in 1 .. L : fs[j] = es[j])
      /\ fs[L + 1] = e
  BY <1>1, AppendProperties
<1>3. \A i \in 1 .. L : RowOk(es[i], i)
  BY <1>1, RowByRow
<1>4. \A i \in 1 .. L + 1 : i \in 1 .. L \/ i = L + 1
  BY <1>1
<1>5. \A i \in 1 .. Len(fs) : RowOk(fs[i], i)
  BY <1>2, <1>3, <1>4
<1>6. Wellformed(fs)
  BY <1>2, <1>5, RowByRow
<1> HIDE DEF L
<1>7. Grows(es, fs, L) /\ Grows(fs, es, L)
  BY <1>1, <1>2 DEF Grows, L
<1>8. \A n \in 1 .. L : CoveredAt(fs, n)
  BY <1>1, <1>6, <1>7, CoveredKept DEF Covered, L
<1>9. Total(After(fs, L)) = Total(After(es, L))
  <2>1. L \in 0 .. L
    BY <1>1
  <2> QED
    BY <1>1, <1>6, <1>7, <2>1, Same
<1>10. sumBalance(es) = Total(After(es, L)) /\ sumBalance(es) \in Nat
  BY BalanceIs DEF L
<1>11. (L + 1) - 1 = L
  BY <1>1
<1>12. CoveredAt(fs, L + 1)
  BY <1>2, <1>9, <1>10, <1>11 DEF CoveredAt, After
<1>13. Covered(fs)
  BY <1>2, <1>4, <1>8, <1>12 DEF Covered
<1>14. sumBalance(fs) = Total(After(fs, L + 1))
  BY <1>2, <1>6, <1>13, BalanceIs
<1>15. L + 1 \in 1 .. Len(fs)
  BY <1>1, <1>2
<1>16. Total(After(fs, L + 1)) =
         Total(After(fs, (L + 1) - 1)) + (IF fs[L + 1].st = "done" THEN fs[L + 1].amount ELSE 0)
  BY <1>6, <1>12, <1>15, EntryTotal
<1>17. sumBalance(fs) = sumBalance(es) + (IF e.st = "done" THEN e.amount ELSE 0)
  BY <1>2, <1>9, <1>10, <1>11, <1>14, <1>16
<1> QED
  BY <1>2, <1>6, <1>10, <1>13, <1>17 DEF L, Adds

(* A grant that is not committed yet commits or is rolled back.            *)
LEMMA Settled ==
  ASSUME NEW es, Wellformed(es), Covered(es), NEW i \in 1 .. Len(es), es[i].st = "open",
         NEW e \in Entry, RowOk(e, i), e.kind = "grant",
         NEW fs, Sets(es, i, e, fs)
  PROVE  Settles(es, i, e, fs)
<1> DEFINE L == Len(es)
<1>1. L \in Nat /\ es \in Seq(Entry) /\ DOMAIN es = 1 .. L /\ IsFiniteSet(1 .. L)
  BY Row
<1>2. /\ fs \in Seq(Entry) /\ Len(fs) = L
      /\ \A j \in 1 .. L : fs[j] = IF j = i THEN e ELSE es[j]
  BY <1>1, ExceptSeq DEF Sets
<1>3. \A j \in 1 .. L : RowOk(es[j], j)
  BY <1>1, RowByRow
<1>4. \A j \in 1 .. Len(fs) : RowOk(fs[j], j)
  BY <1>2, <1>3
<1>5. Wellformed(fs)
  BY <1>2, <1>4, RowByRow
<1> HIDE DEF L
<1>6. Grows(es, fs, L)
  BY <1>1, <1>2 DEF Grows, L
<1>7. \A n \in 1 .. L : CoveredAt(fs, n)
  BY <1>1, <1>5, <1>6, CoveredKept DEF Covered, L
<1>8. Covered(fs)
  BY <1>2, <1>7 DEF Covered
<1>9. sumBalance(es) \in Nat
  BY BalanceIs
<1> DEFINE A == Amounts(es)
           B == Amounts(fs)
           V == Visible(es)
           W == Visible(fs)
<1>10. DOMAIN fs = 1 .. L
  BY <1>2, <1>5, Row
<1>11. /\ V \in SUBSET (1 .. L) /\ i \notin V /\ i \in 1 .. L
       /\ W = IF e.st = "done" THEN V \cup {i} ELSE V
  BY <1>1, <1>2, <1>10 DEF Visible, L
<1>12. \A j \in 1 .. L : B[j] \in Int /\ A[j] \in Int
  <2>1. \A j \in 1 .. L : es[j].amount \in Int
    BY Row DEF L
  <2>2. \A j \in 1 .. L : fs[j].amount \in Int
    BY <1>2, <1>5, Row
  <2> QED
    BY <1>1, <1>10, <2>1, <2>2 DEF Amounts
<1>13. \A j \in V : B[j] = A[j]
  BY <1>1, <1>2, <1>10, <1>11 DEF Amounts
<1>14. B[i] = e.amount
  BY <1>2, <1>10, <1>11 DEF Amounts
<1>15. sumBalance(es) = SumFunctionOnSet(A, V) /\ sumBalance(fs) = SumFunctionOnSet(B, W)
  BY DEF sumBalance, Amounts
<1> HIDE DEF A, B, V, W
<1>16. IsFiniteSet(V)
  BY <1>1, <1>11, FS_Subset
<1>17. \A j \in V : A[j] \in Int /\ B[j] = A[j]
  BY <1>11, <1>12, <1>13
<1>18. SumFunctionOnSet(B, V) = SumFunctionOnSet(A, V)
  BY <1>16, <1>17, SumSame
<1>19. CASE e.st # "done"
  BY <1>2, <1>5, <1>8, <1>9, <1>11, <1>15, <1>18, <1>19 DEF L, Settles
<1>20. CASE e.st = "done"
  <2>1. W = V \cup {i} /\ i \in W /\ W \ {i} = V
    BY <1>11, <1>20
  <2>2. IsFiniteSet(W)
    BY <1>16, <2>1, FS_AddElement
  <2>3. \A j \in W : B[j] \in Int
    BY <1>11, <1>12, <2>1
  <2>4. SumFunctionOnSet(B, W) = B[i] + SumFunctionOnSet(B, W \ {i})
    BY <2>1, <2>2, <2>3, SumRemove
  <2>5. SumFunctionOnSet(B, W) = B[i] + SumFunctionOnSet(A, V)
    BY <1>18, <2>1, <2>4, Zenon
  <2>6. B[i] \in Int
    BY <1>11, <1>12
  <2>7. sumBalance(fs) = sumBalance(es) + e.amount
    BY <1>9, <1>14, <1>15, <2>5, <2>6
  <2> QED
    BY <1>2, <1>5, <1>8, <1>9, <1>20, <2>7 DEF L, Settles
<1> QED
  BY <1>19, <1>20

\* fs is es after a sweep that expires the buckets of s
Sweeps(es, fs, c, s) ==
  /\ Len(fs) = Len(es) + c /\ \A j \in 1 .. Len(es) : fs[j] = es[j]
  /\ s \in [1 .. c -> 1 .. Len(es)] /\ \A m, n \in 1 .. c : m # n => s[m] # s[n]
  /\ \A k \in 1 .. c : /\ fs[Len(es) + k].kind = "expiry" /\ fs[Len(es) + k].st = "done"
                       /\ fs[Len(es) + k].of = s[k]
                       /\ fs[Len(es) + k].amount = -After(es, Len(es))[s[k]]

\* The first k expiries have emptied their buckets and left the others alone
Emptied(es, fs, s, k) ==
  \A j \in 1 .. Len(es) :
    After(fs, Len(es) + k)[j] = IF \E i \in 1 .. k : s[i] = j THEN 0 ELSE After(es, Len(es))[j]

(* Each expiry empties its bucket and leaves the others alone.             *)
LEMMA SweepReplay ==
  ASSUME NEW es, Wellformed(es), NEW fs, Wellformed(fs), NEW c \in Nat, NEW s,
         Sweeps(es, fs, c, s), NEW k \in 0 .. c
  PROVE  Emptied(es, fs, s, k)
<1> DEFINE L == Len(es)
           r == After(es, L)
           Good(n) == \A j \in 1 .. L :
                        After(fs, L + n)[j] = IF \E i \in 1 .. n : s[i] = j THEN 0 ELSE r[j]
           T == {n \in 0 .. c : ~Good(n)}
<1>1. SUFFICES ASSUME T # {} PROVE FALSE
  BY DEF Emptied
<1>2. L \in Nat /\ Len(fs) = L + c /\ fs \in Seq(Entry)
  BY Row DEF Sweeps
<1>3. r \in [1 .. L -> Nat]
  <2>1. L \in 0 .. Len(es)
    BY <1>2
  <2> QED
    BY <2>1, ReplayTyped
<1>4. T \in SUBSET Nat
  OBVIOUS
<1> HIDE DEF T
<1>5. PICK n \in T : \A m \in T : n <= m
  BY <1>1, <1>4, LeastNat
<1>6. n \in 0 .. c /\ ~Good(n)
  BY DEF T
<1> HIDE DEF r, L
<1>7. n # 0
  <2>1. Grows(es, fs, L) /\ Grows(fs, es, L)
    BY <1>2 DEF Grows, Sweeps, L
  <2>2. L \in 0 .. L /\ L + 0 = L /\ 1 .. 0 = {}
    BY <1>2
  <2>3. \A j \in 1 .. L : After(fs, L)[j] = After(es, L)[j]
    BY <1>2, <2>1, <2>2, Same
  <2>4. Good(0)
    BY <2>2, <2>3 DEF r
  <2> QED
    BY <1>6, <2>4
<1>8. n - 1 \in 0 .. c /\ n \in 1 .. c /\ n - 1 \notin T /\ n \in Nat
  BY <1>5, <1>6, <1>7
<1>9. Good(n - 1)
  BY <1>8 DEF T
<1> DEFINE p == L + n
           u == After(fs, p - 1)
           v == After(fs, p)
<1>10. p \in 1 .. Len(fs) /\ p - 1 = L + (n - 1) /\ p - 1 \in 0 .. Len(fs)
  BY <1>2, <1>8
<1>11. /\ fs[p].kind = "expiry" /\ fs[p].of = s[n] /\ fs[p].amount = -r[s[n]]
       /\ s[n] \in 1 .. L /\ \A i \in 1 .. c : i # n => s[i] # s[n]
  BY <1>8 DEF Sweeps, L, r
<1>12. u \in [1 .. Len(fs) -> Nat]
  BY <1>10, ReplayTyped
<1>13. v = replayEntry(fs, u, p)
  BY <1>2, <1>10, Replayed DEF After
<1>14. \A j \in 1 .. L : u[j] = IF \E i \in 1 .. n - 1 : s[i] = j THEN 0 ELSE r[j]
  BY <1>9, <1>10
<1> HIDE DEF p, u, v
<1>e. Effect(fs, u, p, v)
  BY <1>10, <1>12, <1>13, EntryTyped
<1>15. \A i \in 1 .. Len(fs) :
         v[i] = IF i = fs[p].of
                THEN IF u[i] + fs[p].amount < 0 THEN 0 ELSE u[i] + fs[p].amount
                ELSE u[i]
  BY <1>11, <1>e DEF Effect
<1>16. PICK o \in 1 .. L : o = s[n]
  BY <1>11
<1>17. r[o] \in Nat /\ fs[p].of = o /\ fs[p].amount = -r[o]
  BY <1>3, <1>11, <1>16
<1>18. PICK x \in Int : x = -r[o]
  BY <1>17
<1>19. \A j \in 1 .. L :
         v[j] = IF j = o THEN IF u[j] + x < 0 THEN 0 ELSE u[j] + x ELSE u[j]
  <2>1. \A j \in 1 .. L : j \in 1 .. Len(fs)
    BY <1>2
  <2> QED
    BY <1>15, <1>17, <1>18, <2>1, Zenon
<1>20. \A i \in 1 .. n - 1 : i \in 1 .. c /\ i # n /\ i \in 1 .. n
  BY <1>8
<1>21. u[o] = r[o]
  BY <1>11, <1>14, <1>16, <1>20
<1>22. v[o] = 0
  BY <1>17, <1>18, <1>19, <1>21
<1>23. \A j \in 1 .. L : (\E i \in 1 .. n : s[i] = j) <=> (j = o \/ \E i \in 1 .. n - 1 : s[i] = j)
  <2>1. \A i \in 1 .. n : i = n \/ i \in 1 .. n - 1
    BY <1>8
  <2>2. n \in 1 .. n
    BY <1>8
  <2> QED
    BY <1>16, <1>20, <2>1, <2>2
<1>24. \A j \in 1 .. L : v[j] = IF \E i \in 1 .. n : s[i] = j THEN 0 ELSE r[j]
  <2>1. SUFFICES ASSUME NEW j \in 1 .. L
                 PROVE  v[j] = IF \E i \in 1 .. n : s[i] = j THEN 0 ELSE r[j]
    OBVIOUS
  <2>2. CASE j = o
    BY <1>22, <1>23, <2>2
  <2>3. CASE j # o
    <3>1. v[j] = u[j]
      BY <1>19, <2>3
    <3>2. u[j] = IF \E i \in 1 .. n - 1 : s[i] = j THEN 0 ELSE r[j]
      BY <1>14
    <3>3. (\E i \in 1 .. n : s[i] = j) <=> \E i \in 1 .. n - 1 : s[i] = j
      BY <1>23, <2>3
    <3> QED
      BY <3>1, <3>2, <3>3
  <2> QED
    BY <2>2, <2>3
<1> QED
  BY <1>6, <1>24 DEF v, p

(* A sweep takes from each bucket what is in it.                           *)
LEMMA SweepCovered ==
  ASSUME NEW es, Wellformed(es), Covered(es), NEW fs, Wellformed(fs), NEW c \in Nat, NEW s,
         Sweeps(es, fs, c, s)
  PROVE  Covered(fs)
<1> DEFINE L == Len(es)
           r == After(es, L)
<1>1. L \in Nat /\ Len(fs) = L + c
  BY Row DEF Sweeps
<1>2. r \in [1 .. L -> Nat]
  <2>1. L \in 0 .. Len(es)
    BY <1>1
  <2> QED
    BY <2>1, ReplayTyped
<1>3. Grows(es, fs, L)
  BY <1>1 DEF Grows, Sweeps
<1>4. \A n \in 1 .. L : CoveredAt(fs, n)
  BY <1>1, <1>3, CoveredKept DEF Covered
<1> HIDE DEF r, L
<1>5. ASSUME NEW n \in 1 .. Len(fs), n \notin 1 .. L PROVE CoveredAt(fs, n)
  <2>1. PICK k \in 1 .. c : n = L + k
    <3>1. n - L \in 1 .. c /\ n = L + (n - L)
      BY <1>1, <1>5
    <3> QED
      BY <3>1
  <2>2. k - 1 \in 0 .. c /\ n - 1 = L + (k - 1) /\ \A i \in 1 .. k - 1 : i \in 1 .. c /\ i # k
    BY <1>1, <2>1
  <2>3. /\ fs[n].kind = "expiry" /\ fs[n].of = s[k] /\ fs[n].amount = -r[s[k]]
        /\ s[k] \in 1 .. L /\ \A i \in 1 .. c : i # k => s[i] # s[k]
    BY <2>1 DEF Sweeps, L, r
  <2>4. \A j \in 1 .. L :
          After(fs, L + (k - 1))[j] = IF \E i \in 1 .. k - 1 : s[i] = j THEN 0 ELSE r[j]
    <3>1. PICK h \in 0 .. c : h = k - 1
      BY <2>2
    <3>2. Emptied(es, fs, s, h)
      BY SweepReplay
    <3> QED
      BY <3>1, <3>2 DEF Emptied, L, r
  <2>5. After(fs, n - 1)[s[k]] = r[s[k]]
    BY <2>2, <2>3, <2>4
  <2>6. r[s[k]] \in Nat
    BY <1>2, <2>3
  <2>7. -fs[n].amount <= After(fs, n - 1)[fs[n].of]
    BY <2>3, <2>5, <2>6
  <2> QED
    BY <2>3, <2>7 DEF CoveredAt, After
<1> QED
  BY <1>4, <1>5 DEF Covered

(* What SweepOrgExpiredGrants appends.                                     *)
LEMMA SweepRows ==
  ASSUME Wellformed(entries), now \in 0 .. MaxNow, SweepOrgExpiredGrants,
         NEW S, S = Forfeit(entries), NEW c, c = Cardinality(S), NEW s, s = InOrder(S),
         NEW fs, fs = entries'
  PROVE  /\ S \in SUBSET (1 .. Len(entries)) /\ S # {} /\ c \in Nat /\ now' = now
         /\ Sweeps(entries, fs, c, s) /\ Wellformed(fs)
         /\ \A x \in S : \E n \in 1 .. c : s[n] = x
         /\ s \in [1 .. c -> S]
         /\ \A k \in 1 .. c : fs[Len(entries) + k] = ExpiryEntry(s[k])
<1> DEFINE L == Len(entries)
           r == After(entries, L)
<1>1. L \in Nat /\ entries \in Seq(Entry) /\ DOMAIN entries = 1 .. L
  BY Row
<1>2. L \in 0 .. L /\ replayBuckets(entries) = r
  BY <1>1 DEF replayBuckets, After
<1>3. /\ r \in [1 .. L -> Nat]
      /\ \A j \in 1 .. L : r[j] # 0 => entries[j].kind = "grant" /\ entries[j].st = "done"
  BY <1>2, ReplayTyped
<1> HIDE DEF r
<1>4. S = {i \in 1 .. L : entries[i].expires < now /\ r[i] > 0}
  BY <1>1, <1>2 DEF Forfeit
<1>5. S \in SUBSET (1 .. L)
  BY <1>4
<1>6. /\ c \in Nat /\ s \in [1 .. c -> S] /\ \A m, n \in 1 .. c : m # n => s[m] # s[n]
      /\ \A x \in S : \E n \in 1 .. c : s[n] = x
  <2>1. /\ Cardinality(S) \in Nat /\ InOrder(S) \in [1 .. Cardinality(S) -> S]
        /\ \A m, n \in 1 .. Cardinality(S) : m # n => InOrder(S)[m] # InOrder(S)[n]
        /\ \A x \in S : \E n \in 1 .. Cardinality(S) : InOrder(S)[n] = x
    BY <1>1, <1>5, InOrderIs, Zenon
  <2> QED
    BY <2>1, Zenon
<1> DEFINE X(i) == ExpiryEntry(i)
           t == [n \in 1 .. c |-> X(s[n])]
<1>7. S # {} /\ fs = entries \o t /\ now' = now
  BY DEF SweepOrgExpiredGrants
<1>8. ASSUME NEW i \in S
      PROVE  /\ X(i) \in Entry /\ X(i).kind = "expiry" /\ X(i).st = "done" /\ X(i).of = i
             /\ X(i).amount = -r[i] /\ X(i).amount < 0 /\ i \in 1 .. L
  <2>1. i \in 1 .. L /\ r[i] \in Nat /\ r[i] > 0
    BY <1>3, <1>4, <1>8
  <2>2. entries[i].kind = "grant"
    BY <1>3, <2>1
  <2>3. i \in 0 .. MaxEntries /\ Never \in 0 .. Never
    BY <1>1, <2>1, <2>2, LedgerConstants DEF Wellformed, Never
  <2>4. PICK x \in Int : x = -r[i]
    BY <2>1
  <2>5. X(i) = [kind |-> "expiry", amount |-> x, key |-> NoKey,
                expires |-> Never, of |-> i, st |-> "done"]
    BY <1>2, <2>4 DEF ExpiryEntry
  <2>6. X(i) \in Entry
    BY <2>3, <2>5 DEF Entry
  <2>7. x < 0
    BY <2>1, <2>4
  <2> QED
    BY <2>1, <2>4, <2>5, <2>6, <2>7
<1>9. \A n \in 1 .. c : s[n] \in S
  BY <1>6
<1> HIDE DEF X
<1>10. t \in [1 .. c -> Entry] /\ \A n \in 1 .. c : t[n] = X(s[n])
  BY <1>8, <1>9
<1> HIDE DEF t
<1>11. t \in Seq(Entry)
  BY <1>6, <1>10, SeqDef
<1>12. Len(t) = c
  BY <1>6, <1>10, <1>11, LenProperties
<1>13. /\ fs \in Seq(Entry) /\ Len(fs) = L + c
       /\ \A i \in 1 .. L + c : fs[i] = IF i <= L THEN entries[i] ELSE t[i - L]
  <2>1. /\ entries \o t \in Seq(Entry)
        /\ Len(entries \o t) = Len(entries) + Len(t)
        /\ \A i \in 1 .. Len(entries) + Len(t) :
             (entries \o t)[i] = IF i <= Len(entries) THEN entries[i] ELSE t[i - Len(entries)]
    BY <1>1, <1>11, ConcatProperties, Zenon
  <2> QED
    BY <1>7, <1>12, <2>1, Zenon
<1>14. \A j \in 1 .. L : j \in 1 .. L + c /\ j <= L
  BY <1>1, <1>6
<1>15. \A j \in 1 .. L : fs[j] = entries[j]
  BY <1>13, <1>14
<1>16. \A k \in 1 .. c : fs[L + k] = X(s[k])
  <2>1. SUFFICES ASSUME NEW k \in 1 .. c PROVE fs[L + k] = X(s[k])
    OBVIOUS
  <2>2. L + k \in 1 .. L + c /\ ~(L + k <= L) /\ (L + k) - L = k
    BY <1>1, <1>6
  <2> QED
    BY <1>10, <1>13, <2>2
<1>17. s \in [1 .. c -> 1 .. L]
  BY <1>5, <1>6
<1>18. Sweeps(entries, fs, c, s)
  <2>1. ASSUME NEW k \in 1 .. c
        PROVE  /\ fs[L + k].kind = "expiry" /\ fs[L + k].st = "done"
               /\ fs[L + k].of = s[k] /\ fs[L + k].amount = -r[s[k]]
    BY <1>8, <1>9, <1>16
  <2>2. Len(fs) = L + c
    BY <1>13
  <2> QED
    BY <1>6, <1>15, <1>17, <2>1, <2>2, Zenon DEF Sweeps, r
<1>19. \A i \in 1 .. Len(fs) : RowOk(fs[i], i)
  <2>1. SUFFICES ASSUME NEW i \in 1 .. L + c PROVE RowOk(fs[i], i)
    BY <1>13
  <2>2. CASE i \in 1 .. L
    BY <1>1, <1>15, <2>2, RowByRow
  <2>3. CASE i \notin 1 .. L
    <3>1. i - L \in 1 .. c /\ L + (i - L) = i
      BY <1>1, <1>6, <2>3
    <3>2. PICK k \in 1 .. c : i = L + k
      BY <3>1
    <3>3. s[k] \in S /\ s[k] \in 1 .. L
      BY <1>8, <1>9
    <3>4. s[k] \in 1 .. i - 1
      BY <1>1, <3>2, <3>3
    <3>5. fs[i] = X(s[k])
      BY <1>16, <3>2
    <3> QED
      BY <1>8, <3>3, <3>4, <3>5 DEF RowOk
  <2> QED
    BY <2>2, <2>3
<1>20. Wellformed(fs)
  BY <1>13, <1>19, RowByRow
<1> QED
  BY <1>5, <1>6, <1>7, <1>16, <1>18, <1>20 DEF X

\* The grants that have not expired, and what a sweep leaves in the buckets
Lasting == {i \in 1 .. Len(entries) : entries[i].expires >= now}
Leaves(es, fs, r, v, K) ==
  /\ Covered(fs) /\ v \in [1 .. Len(fs) -> Nat] /\ r \in [1 .. Len(es) -> Nat]
  /\ K \in SUBSET (1 .. Len(fs)) /\ K \in SUBSET (1 .. Len(es))
  /\ \A j \in K : v[j] = r[j]
  /\ \A j \in (1 .. Len(fs)) \ K : v[j] = 0
  /\ \E j \in (1 .. Len(es)) \ K : r[j] > 0

(* After a sweep every expired bucket is empty and the others are as they  *)
(* were.                                                                   *)
LEMMA SweepLeaves ==
  ASSUME Wellformed(entries), Covered(entries), now \in 0 .. MaxNow, SweepOrgExpiredGrants,
         NEW r, r = After(entries, Len(entries)), NEW fs, fs = entries',
         NEW v, v = After(fs, Len(fs)),
         NEW K, K = Lasting
  PROVE  Leaves(entries, fs, r, v, K)
<1> DEFINE L == Len(entries)
           S == Forfeit(entries)
           c == Cardinality(S)
           s == InOrder(S)
<1>1. /\ S \in SUBSET (1 .. L) /\ S # {} /\ c \in Nat
      /\ Sweeps(entries, fs, c, s) /\ Wellformed(fs)
      /\ \A x \in S : \E n \in 1 .. c : s[n] = x
      /\ s \in [1 .. c -> S]
  BY SweepRows
<1>2. L \in Nat /\ DOMAIN entries = 1 .. L
  BY Row
<1>3. L \in 0 .. L /\ replayBuckets(entries) = r
  BY <1>2 DEF replayBuckets, After
<1>4. r \in [1 .. L -> Nat]
  BY <1>3, ReplayTyped
<1>5. S = {i \in 1 .. L : entries[i].expires < now /\ r[i] > 0}
  BY <1>2, <1>3 DEF Forfeit
<1> HIDE DEF S, c, s, L
<1>6. Covered(fs)
  BY <1>1, SweepCovered
<1>7. Len(fs) = L + c /\ Len(fs) \in Nat
  BY <1>1, <1>2 DEF Sweeps, L
<1>8. /\ v \in [1 .. Len(fs) -> Nat]
      /\ \A j \in 1 .. Len(fs) : v[j] # 0 => fs[j].kind = "grant"
  <2>1. Len(fs) \in 0 .. Len(fs)
    BY <1>7
  <2> QED
    BY <1>1, <2>1, ReplayTyped
<1>9. \A j \in 1 .. L : v[j] = IF \E i \in 1 .. c : s[i] = j THEN 0 ELSE r[j]
  <2>1. c \in 0 .. c
    BY <1>1
  <2>2. Emptied(entries, fs, s, c)
    BY <1>1, <2>1, SweepReplay
  <2> QED
    BY <1>7, <2>2 DEF Emptied, L
<1>10. \A j \in 1 .. L : (\E i \in 1 .. c : s[i] = j) <=> j \in S
  BY <1>1
<1>11. \A j \in 1 .. L : v[j] = IF j \in S THEN 0 ELSE r[j]
  BY <1>9, <1>10
<1>12. \A j \in 1 .. L : entries[j].expires \in Int /\ now \in Int /\ r[j] \in Nat
  BY <1>4, Row DEF L
<1>13. K \in SUBSET (1 .. L) /\ (\A j \in 1 .. L : j \in K <=> entries[j].expires >= now)
  BY DEF L, Lasting
<1>14. K \in SUBSET (1 .. Len(fs))
  BY <1>1, <1>2, <1>7, <1>13
<1>15. ASSUME NEW j \in K PROVE v[j] = r[j]
  <2>1. j \in 1 .. L
    BY <1>13
  <2>2. j \notin S
    BY <1>5, <1>12, <1>13, <2>1
  <2> QED
    BY <1>11, <2>1, <2>2
<1>16. ASSUME NEW j \in (1 .. Len(fs)) \ K PROVE v[j] = 0
  <2>1. CASE j \in 1 .. L
    <3>1. entries[j].expires < now
      BY <1>12, <1>13, <2>1, <1>16
    <3>2. CASE j \in S
      BY <1>11, <2>1, <3>2
    <3>3. CASE j \notin S
      <4>1. r[j] = 0
        BY <1>5, <1>12, <2>1, <3>1, <3>3
      <4> QED
        BY <1>11, <2>1, <3>3, <4>1
    <3> QED
      BY <3>2, <3>3
  <2>2. CASE j \notin 1 .. L
    <3>1. j - L \in 1 .. c /\ L + (j - L) = j
      BY <1>1, <1>2, <1>7, <2>2
    <3>2. fs[j].kind = "expiry"
      <4>1. PICK k \in 1 .. c : j = L + k
        BY <3>1
      <4> QED
        BY <1>1, <4>1 DEF Sweeps, L
    <3> QED
      BY <1>8, <3>2
  <2> QED
    BY <2>1, <2>2
<1>17. \E j \in (1 .. L) \ K : r[j] > 0
  <2>1. PICK j \in S : TRUE
    BY <1>1
  <2>2. j \in 1 .. L /\ entries[j].expires < now /\ r[j] > 0
    BY <1>5, <2>1
  <2>3. j \notin K
    BY <1>12, <1>13, <2>2
  <2> QED
    BY <2>2, <2>3
<1> QED
  BY <1>4, <1>6, <1>8, <1>13, <1>14, <1>15, <1>16, <1>17 DEF L, Leaves

(* A sweep takes the expired part of the balance, and all of it.           *)
LEMMA SweepBalance ==
  ASSUME Wellformed(entries), Covered(entries), now \in 0 .. MaxNow, SweepOrgExpiredGrants
  PROVE  /\ sumBalance(entries') =
              SumFunctionOnSet(replayBuckets(entries),
                               {i \in DOMAIN entries : entries[i].expires >= now})
         /\ sumBalance(entries') \in Nat /\ sumBalance(entries') < sumBalance(entries)
         /\ sumBalance(entries) \in Nat
         /\ Forfeit(entries)' = {}
<1> DEFINE L == Len(entries)
           r == After(entries, L)
           fs == entries'
           v == After(fs, Len(fs))
           K == {i \in 1 .. L : entries[i].expires >= now}
           M == 1 .. Len(fs)
           D == 1 .. L
<1>1. /\ Covered(fs) /\ v \in [M -> Nat] /\ r \in [D -> Nat]
      /\ K \in SUBSET M /\ K \in SUBSET D /\ (\A j \in K : v[j] = r[j])
      /\ (\A j \in M \ K : v[j] = 0) /\ \E j \in D \ K : r[j] > 0
  <2>1. PICK q : q = After(entries, Len(entries))
    OBVIOUS
  <2>2. PICK gs : gs = entries'
    OBVIOUS
  <2>3. PICK w : w = After(gs, Len(gs))
    OBVIOUS
  <2>4. PICK H : H = Lasting
    OBVIOUS
  <2>5. Leaves(entries, gs, q, w, H)
    BY <2>1, <2>2, <2>3, <2>4, SweepLeaves
  <2> QED
    BY <2>1, <2>2, <2>3, <2>4, <2>5 DEF Leaves, Lasting
<1>2. Wellformed(fs) /\ now' = now
  BY SweepRows
<1>3. DOMAIN entries = D /\ IsFiniteSet(D) /\ DOMAIN fs = M /\ IsFiniteSet(M)
  BY <1>2, Row
<1>4. /\ sumBalance(entries) = Total(r) /\ sumBalance(fs) = Total(v)
      /\ sumBalance(entries) \in Nat /\ sumBalance(fs) \in Nat
  BY <1>1, <1>2, BalanceIs
<1>5. replayBuckets(entries) = r /\ replayBuckets(fs) = v
  BY DEF replayBuckets, After
<1>6. {i \in DOMAIN entries : entries[i].expires >= now} = K
  BY <1>3
<1>7. \A j \in K : fs[j] = entries[j] /\ j \in 1 .. L
  BY <1>1, SweepRows DEF Sweeps
<1>8. Forfeit(entries)' = {i \in M : fs[i].expires < now /\ v[i] > 0}
  BY <1>2, <1>3, <1>5 DEF Forfeit
<1>9. \A j \in K : entries[j].expires \in Int /\ now \in Int /\ entries[j].expires >= now
  BY Row
<1> HIDE DEF r, v, K, fs, M, D
<1>10. Forfeit(entries)' = {}
  <2>1. SUFFICES ASSUME NEW i \in M, fs[i].expires < now, v[i] > 0 PROVE FALSE
    BY <1>8
  <2>2. i \in K
    BY <1>1, <2>1
  <2> QED
    BY <1>7, <1>9, <2>1, <2>2
<1>11. \A j \in M : v[j] \in Int
  BY <1>1
<1>12. IsFiniteSet(K) /\ IsFiniteSet(M \ K) /\ IsFiniteSet(D \ K)
  BY <1>1, <1>3, FS_Subset
<1>13. SumFunctionOnSet(v, M) = SumFunctionOnSet(v, K) + SumFunctionOnSet(v, M \ K)
  BY <1>1, <1>3, <1>11, SumSplit
<1>14. SumFunctionOnSet(v, M \ K) = 0
  BY <1>1, <1>12, SumZero
<1>15. \A j \in K : r[j] \in Nat /\ r[j] \in Int /\ v[j] = r[j]
  BY <1>1
<1>16. SumFunctionOnSet(v, K) = SumFunctionOnSet(r, K) /\ SumFunctionOnSet(r, K) \in Nat
  <2>1. SumFunctionOnSet(v, K) = SumFunctionOnSet(r, K)
    BY <1>12, <1>15, SumSame
  <2>2. SumFunctionOnSet(r, K) \in Nat
    BY <1>12, <1>15, SumNat
  <2> QED
    BY <2>1, <2>2
<1>17. sumBalance(fs) = SumFunctionOnSet(r, K)
  <2>1. Total(v) = SumFunctionOnSet(v, M)
    BY <1>1 DEF Total
  <2> QED
    BY <1>4, <1>13, <1>14, <1>16, <2>1
<1>18. sumBalance(fs) < sumBalance(entries)
  <2>1. Total(r) = SumFunctionOnSet(r, D)
    BY <1>1 DEF Total
  <2>2. \A j \in D : r[j] \in Int /\ r[j] \in Nat
    BY <1>1
  <2>3. SumFunctionOnSet(r, D) = SumFunctionOnSet(r, K) + SumFunctionOnSet(r, D \ K)
    BY <1>1, <1>3, <2>2, SumSplit
  <2>4. PICK j \in D \ K : r[j] > 0
    BY <1>1
  <2> DEFINE E == D \ K
             R == E \ {j}
  <2>5. IsFiniteSet(R)
    BY <1>12, FS_Subset
  <2>6. (\A x \in E : r[x] \in Int) /\ (\A x \in R : r[x] \in Nat)
    BY <2>2
  <2> HIDE DEF E, R
  <2>7. SumFunctionOnSet(r, R) \in Nat
    BY <2>5, <2>6, SumNat
  <2>8. SumFunctionOnSet(r, E) = r[j] + SumFunctionOnSet(r, R)
    BY <1>12, <2>4, <2>6, SumRemove DEF E, R
  <2>9. r[j] \in Nat /\ r[j] > 0
    BY <2>2, <2>4
  <2> QED
    BY <1>4, <1>16, <1>17, <2>1, <2>3, <2>7, <2>8, <2>9 DEF E
<1> QED
  BY <1>4, <1>5, <1>6, <1>10, <1>17, <1>18 DEF fs
-----------------------------------------------------------------------------
\* A visible entry of the kind has key x
Used(es, kind, x) ==
  x # NoKey /\ \E i \in 1 .. Len(es) : es[i].st = "done" /\ es[i].kind = kind /\ es[i].key = x

(* The keys of a kind, now and after a step.                               *)
LEMMA KeysAre ==
  ASSUME Wellformed(entries), NEW fs, fs = entries', Wellformed(fs), NEW kind
  PROVE  /\ \A x : x \in KeysOf(kind) <=> Used(entries, kind, x)
         /\ \A x : x \in KeysOf(kind)' <=> Used(fs, kind, x)
<1>1. DOMAIN entries = 1 .. Len(entries) /\ DOMAIN fs = 1 .. Len(fs)
  BY Row
<1>2. \A x : x \in KeysOf(kind) <=> Used(entries, kind, x)
  BY <1>1 DEF KeysOf, Used, Visible
<1>3. \A x : x \in KeysOf(kind)' <=> Used(fs, kind, x)
  BY <1>1 DEF KeysOf, Used, Visible
<1> QED
  BY <1>2, <1>3

(* Keys stay as they are when the visible rows that have one do.           *)
LEMMA KeysKept ==
  ASSUME Wellformed(entries), NEW fs, fs = entries', Wellformed(fs),
         NEW kind, kind \in {"grant", "spend"},
         Len(entries) <= Len(fs),
         \A i \in 1 .. Len(entries) :
           fs[i] # entries[i] => entries[i].st # "done" /\ (fs[i].st = "done" => fs[i].kind # kind),
         \A i \in 1 .. Len(fs) : i \notin 1 .. Len(entries) =>
           (fs[i].st = "done" => fs[i].kind # kind)
  PROVE  KeysOf(kind)' = KeysOf(kind)
<1>0. Len(entries) \in Nat /\ Len(fs) \in Nat /\ \A i \in 1 .. Len(entries) : i \in 1 .. Len(fs)
  BY Row
<1>1. \A x : Used(fs, kind, x) <=> Used(entries, kind, x)
  <2>1. ASSUME NEW x, Used(entries, kind, x) PROVE Used(fs, kind, x)
    BY <1>0, <2>1 DEF Used
  <2>2. ASSUME NEW x, Used(fs, kind, x) PROVE Used(entries, kind, x)
    BY <2>2 DEF Used
  <2> QED
    BY <2>1, <2>2
<1>2. \A x : x \in KeysOf(kind)' <=> x \in KeysOf(kind)
  BY <1>1, KeysAre
<1> QED
  BY <1>2

\* What row i asks the account for, and what the open rows ask for
RequestOf(es, i) == [id |-> i, amount |-> es[i].amount, key |-> es[i].key]
Asks(es, r) == \E i \in 1 .. Len(es) : es[i].st = "open" /\ r = RequestOf(es, i)

(* The open requests, now and after a step.                                *)
LEMMA AskedAre ==
  ASSUME Wellformed(entries), NEW fs, fs = entries', Wellformed(fs)
  PROVE  /\ \A r : r \in OpenGrants <=> Asks(entries, r)
         /\ \A r : r \in OpenGrants' <=> Asks(fs, r)
<1>1. DOMAIN entries = 1 .. Len(entries) /\ DOMAIN fs = 1 .. Len(fs)
  BY Row
<1>2. \A r : r \in OpenGrants <=> Asks(entries, r)
  BY <1>1 DEF OpenGrants, Asks, RequestOf
<1>3. \A r : r \in OpenGrants' <=> Asks(fs, r)
  BY <1>1 DEF OpenGrants, Asks, RequestOf
<1> QED
  BY <1>2, <1>3

(* Rows that are written committed ask for nothing.                        *)
LEMMA AskedKept ==
  ASSUME Wellformed(entries), NEW fs, fs = entries', Wellformed(fs),
         Len(entries) <= Len(fs),
         \A i \in 1 .. Len(entries) : fs[i] = entries[i],
         \A i \in 1 .. Len(fs) : i \notin 1 .. Len(entries) => fs[i].st # "open"
  PROVE  OpenGrants' = OpenGrants
<1>0. Len(entries) \in Nat /\ Len(fs) \in Nat /\ \A i \in 1 .. Len(entries) : i \in 1 .. Len(fs)
  BY Row
<1>1. \A r : Asks(fs, r) <=> Asks(entries, r)
  <2>1. ASSUME NEW r, Asks(entries, r) PROVE Asks(fs, r)
    BY <1>0, <2>1 DEF Asks, RequestOf
  <2>2. ASSUME NEW r, Asks(fs, r) PROVE Asks(entries, r)
    BY <2>2 DEF Asks, RequestOf
  <2> QED
    BY <2>1, <2>2
<1>2. \A r : r \in OpenGrants' <=> r \in OpenGrants
  BY <1>1, AskedAre
<1> QED
  BY <1>2

(* An open row whose transaction ends asks for nothing any more.           *)
LEMMA AskedSettled ==
  ASSUME Wellformed(entries), NEW fs, fs = entries', Wellformed(fs),
         Len(fs) = Len(entries), NEW i \in 1 .. Len(entries),
         entries[i].st = "open", fs[i].st # "open",
         \A j \in 1 .. Len(entries) : j # i => fs[j] = entries[j]
  PROVE  /\ RequestOf(entries, i) \in OpenGrants
         /\ OpenGrants' = OpenGrants \ {RequestOf(entries, i)}
<1>1. \A r : Asks(fs, r) <=> (Asks(entries, r) /\ r # RequestOf(entries, i))
  <2>1. ASSUME NEW r, Asks(entries, r), r # RequestOf(entries, i) PROVE Asks(fs, r)
    BY <2>1 DEF Asks, RequestOf
  <2>2. ASSUME NEW r, Asks(fs, r) PROVE Asks(entries, r) /\ r # RequestOf(entries, i)
    <3>1. PICK j \in 1 .. Len(fs) : fs[j].st = "open" /\ r = RequestOf(fs, j)
      BY <2>2 DEF Asks
    <3>2. j # i /\ fs[j] = entries[j]
      BY <3>1
    <3>3. r.id = j /\ RequestOf(entries, i).id = i
      BY <3>1 DEF RequestOf
    <3> QED
      BY <3>1, <3>2, <3>3 DEF Asks, RequestOf
  <2> QED
    BY <2>1, <2>2
<1>2. /\ \A r : r \in OpenGrants <=> Asks(entries, r)
      /\ \A r : r \in OpenGrants' <=> Asks(fs, r)
  BY AskedAre
<1>3. Asks(entries, RequestOf(entries, i))
  BY DEF Asks
<1>4. \A r : r \in OpenGrants' <=> r \in OpenGrants \ {RequestOf(entries, i)}
  BY <1>1, <1>2
<1> QED
  BY <1>2, <1>3, <1>4
-----------------------------------------------------------------------------
(* A new grant or spend is a row.                                          *)
LEMMA NewEntryTyped ==
  ASSUME NEW kind \in {"grant", "spend"}, NEW a \in Int, NEW k \in Keys \cup {NoKey},
         NEW x \in 0 .. Never, NEW st \in {"open", "done", "void"},
         NEW e, e = NewEntry(kind, a, k, x, st)
  PROVE  /\ e \in Entry /\ e.kind = kind /\ e.amount = a /\ e.key = k /\ e.st = st
<1>1. 0 \in 0 .. MaxEntries
  BY LedgerConstants
<1> QED
  BY <1>1 DEF NewEntry, Entry

(* GrantWithTx: the row is not visible yet, and no visible grant has its   *)
(* key.                                                                    *)
LEMMA GrantStep ==
  ASSUME LedgerIndInv, NEW a \in GrantAmounts, NEW k \in Keys \cup {NoKey}, NEW x \in Expiries,
         GrantWithTx(a, k, x), NEW fs, fs = entries'
  PROVE  /\ Wellformed(fs) /\ Covered(fs) /\ now' = now
         /\ sumBalance(fs) = sumBalance(entries)
         /\ KeysOf("grant")' = KeysOf("grant") /\ KeysOf("spend")' = KeysOf("spend")
         /\ k \notin KeysOf("grant") /\ Len(entries) + 1 \in 1 .. MaxEntries
         /\ \A r \in OpenGrants : r.id # Len(entries) + 1
         /\ OpenGrants' = OpenGrants \cup {[id |-> Len(entries) + 1, amount |-> a, key |-> k]}
<1> DEFINE L == Len(entries)
<1>1. Wellformed(entries) /\ Covered(entries)
  BY DEF LedgerIndInv
<1>2. L \in Nat /\ DOMAIN entries = 1 .. L
  BY <1>1, Row
<1>3. a \in Nat \ {0} /\ x \in 0 .. Never /\ MaxEntries \in Nat
  BY LedgerConstants
<1>4. PICK e : e = NewEntry("grant", a, k, x, "open")
  OBVIOUS
<1>5. e \in Entry /\ e.kind = "grant" /\ e.amount = a /\ e.key = k /\ e.st = "open"
  BY <1>3, <1>4, NewEntryTyped
<1>6. fs = Append(entries, e) /\ now' = now /\ L < MaxEntries
  BY <1>4 DEF GrantWithTx, Insert
<1>7. RowOk(e, L + 1)
  BY <1>2, <1>3, <1>5, <1>6 DEF RowOk
<1>8. /\ Wellformed(fs) /\ Covered(fs)
      /\ Len(fs) = L + 1 /\ (\A j \in 1 .. L : fs[j] = entries[j])
      /\ fs[L + 1] = e
      /\ sumBalance(entries) \in Nat
      /\ sumBalance(fs) = sumBalance(entries) + (IF e.st = "done" THEN e.amount ELSE 0)
  <2>1. Adds(entries, e, fs)
    BY <1>1, <1>5, <1>6, <1>7, Appended
  <2> QED
    BY <2>1 DEF Adds
<1>9. sumBalance(fs) = sumBalance(entries)
  BY <1>5, <1>8
<1>10. \A j \in 1 .. L + 1 : j \in 1 .. L \/ j = L + 1
  BY <1>2
<1>11. ASSUME NEW kind, kind \in {"grant", "spend"} PROVE KeysOf(kind)' = KeysOf(kind)
  <2>1. \A i \in 1 .. Len(fs) : i \notin 1 .. L => fs[i].st # "done"
    BY <1>5, <1>8, <1>10
  <2>2. L <= Len(fs)
    BY <1>2, <1>8
  <2> QED
    BY <1>1, <1>8, <1>11, <2>1, <2>2, KeysKept
<1>12. k \notin KeysOf("grant")
  <2>1. SUFFICES ASSUME Used(entries, "grant", k) PROVE FALSE
    BY <1>1, <1>8, KeysAre
  <2> QED
    BY <1>2, <2>1 DEF Used, GrantWithTx, ledgerEntryExists, Visible
<1>13. /\ \A r : r \in OpenGrants <=> Asks(entries, r)
       /\ \A r : r \in OpenGrants' <=> Asks(fs, r)
  BY <1>1, <1>8, AskedAre
<1>14. \A r \in OpenGrants : r.id # L + 1
  <2>1. SUFFICES ASSUME NEW r, Asks(entries, r) PROVE r.id # L + 1
    BY <1>13
  <2> QED
    BY <1>2, <2>1 DEF Asks, RequestOf
<1>15. \A r : Asks(fs, r) <=> (Asks(entries, r) \/ r = [id |-> L + 1, amount |-> a, key |-> k])
  <2>1. ASSUME NEW r, Asks(entries, r) PROVE Asks(fs, r)
    BY <1>2, <1>8, <2>1 DEF Asks, RequestOf
  <2>2. Asks(fs, [id |-> L + 1, amount |-> a, key |-> k])
    BY <1>2, <1>5, <1>8 DEF Asks, RequestOf
  <2>3. ASSUME NEW r, Asks(fs, r), r # [id |-> L + 1, amount |-> a, key |-> k]
        PROVE  Asks(entries, r)
    <3>1. PICK j \in 1 .. L + 1 : fs[j].st = "open" /\ r = RequestOf(fs, j)
      BY <1>8, <2>3 DEF Asks
    <3>2. j # L + 1
      BY <1>5, <1>8, <2>3, <3>1 DEF RequestOf
    <3> QED
      BY <1>8, <1>10, <3>1, <3>2 DEF Asks, RequestOf
  <2> QED
    BY <2>1, <2>2, <2>3
<1>16. OpenGrants' = OpenGrants \cup {[id |-> L + 1, amount |-> a, key |-> k]}
  <2>1. \A r : r \in OpenGrants' <=>
               r \in OpenGrants \cup {[id |-> L + 1, amount |-> a, key |-> k]}
    BY <1>13, <1>15
  <2> QED
    BY <2>1
<1>17. L + 1 \in 1 .. MaxEntries
  BY <1>2, <1>3, <1>6
<1> QED
  BY <1>6, <1>8, <1>9, <1>11, <1>12, <1>14, <1>16, <1>17

(* A grant that commits is in the balance from then on, under its key.     *)
LEMMA CommitStep ==
  ASSUME LedgerIndInv, NEW i \in DOMAIN entries, GrantCommits(i), NEW fs, fs = entries'
  PROVE  /\ Wellformed(fs) /\ Covered(fs) /\ now' = now
         /\ RequestOf(entries, i) \in OpenGrants
         /\ OpenGrants' = OpenGrants \ {RequestOf(entries, i)}
         /\ sumBalance(fs) = sumBalance(entries) + entries[i].amount
         /\ KeysOf("grant")' = KeysOf("grant") \cup ({entries[i].key} \ {NoKey})
         /\ KeysOf("spend")' = KeysOf("spend")
<1> DEFINE L == Len(entries)
           e == [entries[i] EXCEPT !.st = "done"]
<1>1. Wellformed(entries) /\ Covered(entries)
  BY DEF LedgerIndInv
<1>2. L \in Nat /\ DOMAIN entries = 1 .. L /\ i \in 1 .. L /\ entries[i] \in Entry
  BY <1>1, Row
<1>3. entries[i].st = "open" /\ now' = now
  BY DEF GrantCommits
<1>4. entries[i].kind = "grant" /\ entries[i].amount \in GrantAmounts /\ i <= MaxEntries
  BY <1>1, <1>2, <1>3 DEF Wellformed
<1>5. /\ e \in Entry /\ e.kind = "grant" /\ e.st = "done"
      /\ e.amount = entries[i].amount /\ e.key = entries[i].key
  BY <1>2, <1>4 DEF Entry
<1>6. Sets(entries, i, e, fs)
  BY <1>2 DEF GrantCommits, Sets
<1> HIDE DEF e
<1>7. RowOk(e, i)
  BY <1>4, <1>5 DEF RowOk
<1>8. /\ Wellformed(fs) /\ Covered(fs)
      /\ Len(fs) = L /\ (\A j \in 1 .. L : fs[j] = IF j = i THEN e ELSE entries[j])
      /\ sumBalance(entries) \in Nat
      /\ sumBalance(fs) = sumBalance(entries) + (IF e.st = "done" THEN e.amount ELSE 0)
  <2>1. Settles(entries, i, e, fs)
    BY <1>1, <1>2, <1>3, <1>5, <1>6, <1>7, Settled
  <2> QED
    BY <2>1 DEF Settles
<1>10. KeysOf("spend")' = KeysOf("spend")
  <2>1. \A j \in 1 .. L :
          fs[j] # entries[j] =>
            entries[j].st # "done" /\ (fs[j].st = "done" => fs[j].kind # "spend")
    BY <1>3, <1>5, <1>8
  <2>2. L <= Len(fs) /\ \A j \in 1 .. Len(fs) : j \in 1 .. L
    BY <1>2, <1>8
  <2> QED
    BY <1>1, <1>8, <2>1, <2>2, KeysKept
<1>11. /\ RequestOf(entries, i) \in OpenGrants
       /\ OpenGrants' = OpenGrants \ {RequestOf(entries, i)}
  <2>1. fs[i].st # "open" /\ \A j \in 1 .. L : j # i => fs[j] = entries[j]
    BY <1>2, <1>5, <1>8
  <2> QED
    BY <1>1, <1>2, <1>3, <1>8, <2>1, AskedSettled
<1>12. \A x : Used(fs, "grant", x) <=>
              (Used(entries, "grant", x) \/ (x # NoKey /\ x = entries[i].key))
  <2>1. ASSUME NEW x, Used(entries, "grant", x) PROVE Used(fs, "grant", x)
    <3>1. PICK j \in 1 .. L : entries[j].st = "done" /\ entries[j].kind = "grant" /\
                              entries[j].key = x
      BY <2>1 DEF Used
    <3>2. fs[j] = entries[j] /\ j \in 1 .. Len(fs)
      BY <1>3, <1>8, <3>1
    <3> QED
      BY <2>1, <3>1, <3>2 DEF Used
  <2>2. ASSUME NEW x, x # NoKey, x = entries[i].key PROVE Used(fs, "grant", x)
    <3>1. fs[i] = e /\ i \in 1 .. Len(fs)
      BY <1>2, <1>8
    <3> QED
      BY <1>5, <2>2, <3>1 DEF Used
  <2>3. ASSUME NEW x, Used(fs, "grant", x), x # entries[i].key PROVE Used(entries, "grant", x)
    <3>1. PICK j \in 1 .. L : fs[j].st = "done" /\ fs[j].kind = "grant" /\ fs[j].key = x
      BY <1>8, <2>3 DEF Used
    <3>2. fs[j] = entries[j]
      BY <1>5, <1>8, <2>3, <3>1
    <3> QED
      BY <2>3, <3>1, <3>2 DEF Used
  <2>4. SUFFICES ASSUME NEW x
                 PROVE  Used(fs, "grant", x) <=>
                          (Used(entries, "grant", x) \/ (x # NoKey /\ x = entries[i].key))
    OBVIOUS
  <2>5. Used(fs, "grant", x) => x # NoKey
    BY DEF Used
  <2> QED
    BY <2>1, <2>2, <2>3, <2>5
<1>13. KeysOf("grant")' = KeysOf("grant") \cup ({entries[i].key} \ {NoKey})
  <2>1. /\ \A x : x \in KeysOf("grant") <=> Used(entries, "grant", x)
        /\ \A x : x \in KeysOf("grant")' <=> Used(fs, "grant", x)
    BY <1>1, <1>8, KeysAre
  <2>2. \A x : x \in KeysOf("grant")' <=>
               (x \in KeysOf("grant") \/ (x # NoKey /\ x = entries[i].key))
    BY <1>12, <2>1, Zenon
  <2> QED
    BY <2>2
<1>14. sumBalance(fs) = sumBalance(entries) + entries[i].amount
  BY <1>5, <1>8
<1> QED
  BY <1>3, <1>8, <1>10, <1>11, <1>13, <1>14

(* A grant that is rolled back leaves nothing behind.                      *)
LEMMA AbortStep ==
  ASSUME LedgerIndInv, NEW i \in DOMAIN entries, GrantAborts(i), NEW fs, fs = entries'
  PROVE  /\ Wellformed(fs) /\ Covered(fs) /\ now' = now
         /\ sumBalance(fs) = sumBalance(entries)
         /\ KeysOf("grant")' = KeysOf("grant") /\ KeysOf("spend")' = KeysOf("spend")
         /\ RequestOf(entries, i) \in OpenGrants
         /\ OpenGrants' = OpenGrants \ {RequestOf(entries, i)}
<1> DEFINE L == Len(entries)
<1>1. Wellformed(entries) /\ Covered(entries)
  BY DEF LedgerIndInv
<1>2. L \in Nat /\ DOMAIN entries = 1 .. L /\ i \in 1 .. L
  BY <1>1, Row
<1>3. entries[i].st = "open" /\ now' = now
  BY DEF GrantAborts
<1>4. i <= MaxEntries
  BY <1>1, <1>2, <1>3 DEF Wellformed
<1>5. PICK e : e = NewEntry("grant", 0, NoKey, Never, "void")
  OBVIOUS
<1>6. e \in Entry /\ e.kind = "grant" /\ e.st = "void"
  <2>1. Never \in 0 .. Never /\ 0 \in 0 .. MaxEntries
    BY LedgerConstants DEF Never
  <2> QED
    BY <1>5, <2>1 DEF NewEntry, Entry
<1>7. RowOk(e, i) /\ Sets(entries, i, e, fs)
  BY <1>4, <1>5, <1>6 DEF RowOk, Sets, GrantAborts
<1>8. /\ Wellformed(fs) /\ Covered(fs)
      /\ Len(fs) = L /\ (\A j \in 1 .. L : fs[j] = IF j = i THEN e ELSE entries[j])
      /\ sumBalance(fs) = sumBalance(entries)
  <2>1. Settles(entries, i, e, fs)
    BY <1>1, <1>2, <1>3, <1>6, <1>7, Settled
  <2> QED
    BY <1>6, <2>1 DEF Settles
<1>10. ASSUME NEW kind, kind \in {"grant", "spend"} PROVE KeysOf(kind)' = KeysOf(kind)
  <2>1. \A j \in 1 .. L :
          fs[j] # entries[j] => entries[j].st # "done" /\ (fs[j].st = "done" => fs[j].kind # kind)
    BY <1>3, <1>6, <1>8
  <2>2. L <= Len(fs) /\ \A j \in 1 .. Len(fs) : j \in 1 .. L
    BY <1>2, <1>8
  <2> QED
    BY <1>1, <1>8, <1>10, <2>1, <2>2, KeysKept
<1>11. /\ RequestOf(entries, i) \in OpenGrants
       /\ OpenGrants' = OpenGrants \ {RequestOf(entries, i)}
  <2>1. fs[i].st # "open" /\ \A j \in 1 .. L : j # i => fs[j] = entries[j]
    BY <1>2, <1>6, <1>8
  <2> QED
    BY <1>1, <1>2, <1>3, <1>8, <2>1, AskedSettled
<1> QED
  BY <1>3, <1>8, <1>10, <1>11

(* SpendWithTx takes no more than there is, once per key.                  *)
LEMMA SpendStep ==
  ASSUME LedgerIndInv, NEW a \in SpendAmounts, NEW k \in Keys \cup {NoKey}, Spend(a, k),
         NEW fs, fs = entries'
  PROVE  /\ Wellformed(fs) /\ Covered(fs) /\ now' = now
         /\ a <= sumBalance(entries) /\ sumBalance(fs) = sumBalance(entries) - a
         /\ k \notin KeysOf("spend")
         /\ KeysOf("spend")' = KeysOf("spend") \cup ({k} \ {NoKey})
         /\ KeysOf("grant")' = KeysOf("grant") /\ OpenGrants' = OpenGrants
<1> DEFINE L == Len(entries)
<1>1. Wellformed(entries) /\ Covered(entries)
  BY DEF LedgerIndInv
<1>2. L \in Nat /\ DOMAIN entries = 1 .. L
  BY <1>1, Row
<1>3. a \in Nat \ {0} /\ Never \in 0 .. Never
  BY LedgerConstants DEF Never
<1>4. PICK e : e = NewEntry("spend", -a, k, Never, "done")
  OBVIOUS
<1>5. e \in Entry /\ e.kind = "spend" /\ e.amount = -a /\ e.key = k /\ e.st = "done"
  <2>1. -a \in Int /\ 0 \in 0 .. MaxEntries
    BY <1>3, LedgerConstants
  <2> QED
    BY <1>3, <1>4, <2>1 DEF NewEntry, Entry
<1>6. fs = Append(entries, e) /\ now' = now /\ sumBalance(entries) >= a
  BY <1>4 DEF Spend, Insert
<1>7. sumBalance(entries) \in Nat
  BY <1>1, BalanceIs
<1>8. RowOk(e, L + 1) /\ -e.amount <= sumBalance(entries)
  BY <1>3, <1>5, <1>6, <1>7 DEF RowOk
<1>9. /\ Wellformed(fs) /\ Covered(fs)
      /\ Len(fs) = L + 1 /\ (\A j \in 1 .. L : fs[j] = entries[j])
      /\ fs[L + 1] = e
      /\ sumBalance(fs) = sumBalance(entries) - a
  <2>1. Adds(entries, e, fs)
    BY <1>1, <1>5, <1>6, <1>8, Appended
  <2> QED
    BY <1>3, <1>5, <1>7, <2>1 DEF Adds
<1>10. \A j \in 1 .. L + 1 : j \in 1 .. L \/ j = L + 1
  BY <1>2
<1>12. KeysOf("grant")' = KeysOf("grant")
  <2>1. \A i \in 1 .. Len(fs) : i \notin 1 .. L => fs[i].kind # "grant"
    BY <1>5, <1>9, <1>10
  <2>2. L <= Len(fs)
    BY <1>2, <1>9
  <2> QED
    BY <1>1, <1>9, <2>1, <2>2, KeysKept
<1>13. /\ \A x : x \in KeysOf("spend") <=> Used(entries, "spend", x)
       /\ \A x : x \in KeysOf("spend")' <=> Used(fs, "spend", x)
  BY <1>1, <1>9, KeysAre
<1>14. k \notin KeysOf("spend")
  <2>1. SUFFICES ASSUME Used(entries, "spend", k) PROVE FALSE
    BY <1>13
  <2> QED
    BY <1>2, <2>1 DEF Used, Spend, ledgerEntryExists, Visible
<1>15. ASSUME NEW x
       PROVE  Used(fs, "spend", x) <=> (Used(entries, "spend", x) \/ (x # NoKey /\ x = k))
  <2>1. ASSUME Used(entries, "spend", x) PROVE Used(fs, "spend", x)
    <3>1. PICK j \in 1 .. L : entries[j].st = "done" /\ entries[j].kind = "spend" /\
                              entries[j].key = x
      BY <2>1 DEF Used
    <3>2. fs[j] = entries[j] /\ j \in 1 .. Len(fs)
      BY <1>2, <1>9
    <3> QED
      BY <2>1, <3>1, <3>2 DEF Used
  <2>2. ASSUME x # NoKey, x = k PROVE Used(fs, "spend", x)
    <3>1. fs[L + 1] = e /\ L + 1 \in 1 .. Len(fs)
      BY <1>2, <1>9
    <3> QED
      BY <1>5, <2>2, <3>1 DEF Used
  <2>3. ASSUME Used(fs, "spend", x), x # k PROVE Used(entries, "spend", x)
    <3>1. PICK j \in 1 .. L + 1 : fs[j].st = "done" /\ fs[j].kind = "spend" /\ fs[j].key = x
      BY <1>9, <2>3 DEF Used
    <3>2. j \in 1 .. L /\ fs[j] = entries[j]
      BY <1>5, <1>9, <1>10, <2>3, <3>1
    <3> QED
      BY <2>3, <3>1, <3>2 DEF Used
  <2>4. Used(fs, "spend", x) => x # NoKey
    BY DEF Used
  <2> QED
    BY <2>1, <2>2, <2>3, <2>4
<1>16. KeysOf("spend")' = KeysOf("spend") \cup ({k} \ {NoKey})
  <2>1. \A x : x \in KeysOf("spend")' <=> (x \in KeysOf("spend") \/ (x # NoKey /\ x = k))
    BY <1>13, <1>15, Zenon
  <2> QED
    BY <2>1
<1>17. a <= sumBalance(entries)
  BY <1>3, <1>6, <1>7
<1>18. OpenGrants' = OpenGrants
  <2>1. \A i \in 1 .. Len(fs) : i \notin 1 .. L => fs[i].st # "open"
    BY <1>5, <1>9, <1>10
  <2>2. L <= Len(fs)
    BY <1>2, <1>9
  <2> QED
    BY <1>1, <1>9, <2>1, <2>2, AskedKept
<1> QED
  BY <1>6, <1>9, <1>12, <1>14, <1>16, <1>17, <1>18

(* A sweep takes from what is there and touches no key.                    *)
LEMMA SweepStep ==
  ASSUME LedgerIndInv, SweepOrgExpiredGrants, NEW fs, fs = entries'
  PROVE  /\ Wellformed(fs) /\ Covered(fs) /\ now' = now
         /\ sumBalance(fs) \in Nat /\ sumBalance(fs) < sumBalance(entries)
         /\ KeysOf("grant")' = KeysOf("grant") /\ KeysOf("spend")' = KeysOf("spend")
         /\ OpenGrants' = OpenGrants
<1> DEFINE L == Len(entries)
<1>1. Wellformed(entries) /\ Covered(entries) /\ now \in 0 .. MaxNow
  BY DEF LedgerIndInv
<1>2. PICK S : S = Forfeit(entries)
  OBVIOUS
<1>3. PICK c : c = Cardinality(S)
  OBVIOUS
<1>4. PICK s : s = InOrder(S)
  OBVIOUS
<1>5. c \in Nat /\ now' = now /\ Sweeps(entries, fs, c, s) /\ Wellformed(fs)
  BY <1>1, <1>2, <1>3, <1>4, SweepRows
<1>6. Covered(fs)
  BY <1>1, <1>5, SweepCovered
<1>7. sumBalance(fs) \in Nat /\ sumBalance(fs) < sumBalance(entries)
  BY <1>1, SweepBalance
<1>8. /\ L \in Nat /\ Len(fs) = L + c /\ L <= Len(fs)
      /\ \A j \in 1 .. L : fs[j] = entries[j]
      /\ \A j \in 1 .. c : fs[L + j].kind = "expiry" /\ fs[L + j].st = "done"
  <2>1. L \in Nat
    BY <1>1, Row
  <2>2. Len(fs) = L + c /\ L <= Len(fs)
    BY <1>5, <2>1 DEF Sweeps
  <2>3. \A j \in 1 .. L : fs[j] = entries[j]
    BY <1>5 DEF Sweeps
  <2>4. \A j \in 1 .. c : fs[L + j].kind = "expiry" /\ fs[L + j].st = "done"
    BY <1>5 DEF Sweeps
  <2> QED
    BY <2>1, <2>2, <2>3, <2>4
<1>9. ASSUME NEW i \in 1 .. Len(fs), i \notin 1 .. L PROVE fs[i].kind = "expiry" /\ fs[i].st = "done"
  <2>1. i - L \in 1 .. c /\ L + (i - L) = i
    BY <1>5, <1>8, <1>9
  <2>2. PICK j \in 1 .. c : i = L + j
    BY <2>1
  <2> QED
    BY <1>8, <2>2
<1>11. ASSUME NEW kind, kind \in {"grant", "spend"} PROVE KeysOf(kind)' = KeysOf(kind)
  <2>1. \A i \in 1 .. Len(fs) : i \notin 1 .. L => fs[i].kind # kind
    BY <1>9, <1>11
  <2> QED
    BY <1>1, <1>5, <1>8, <1>11, <2>1, KeysKept
<1>12. OpenGrants' = OpenGrants
  <2>1. \A i \in 1 .. Len(fs) : i \notin 1 .. L => fs[i].st # "open"
    BY <1>9
  <2> QED
    BY <1>1, <1>5, <1>8, <2>1, AskedKept
<1> QED
  BY <1>5, <1>6, <1>7, <1>11, <1>12
-----------------------------------------------------------------------------
(* LedgerIndInv is an inductive invariant.                                       *)
THEOREM LedgerInductive == LedgerSpec => []LedgerIndInv
<1>1. LedgerInit => LedgerIndInv
  <2>1. SUFFICES ASSUME LedgerInit PROVE LedgerIndInv
    OBVIOUS
  <2>2. entries \in Seq(Entry) /\ Len(entries) = 0 /\ 1 .. 0 = {}
    BY <2>1 DEF LedgerInit
  <2>3. now \in 0 .. MaxNow
    BY <2>1, LedgerConstants DEF LedgerInit
  <2> QED
    BY <2>2, <2>3 DEF LedgerIndInv, Wellformed, Covered
<1>2. LedgerIndInv /\ [LedgerNext]_ledgerVars => LedgerIndInv'
  <2>1. SUFFICES ASSUME LedgerIndInv, [LedgerNext]_ledgerVars PROVE LedgerIndInv'
    OBVIOUS
  <2>2. PICK fs : fs = entries'
    OBVIOUS
  <2>3. now \in 0 .. MaxNow /\ MaxNow \in Nat
    BY <2>1, LedgerConstants DEF LedgerIndInv
  <2>4. ASSUME Wellformed(fs), Covered(fs), now' = now PROVE LedgerIndInv'
    BY <2>2, <2>3, <2>4 DEF LedgerIndInv
  <2>5. ASSUME NEW a \in GrantAmounts, NEW k \in Keys \cup {NoKey}, NEW x \in Expiries,
               GrantWithTx(a, k, x)
        PROVE  LedgerIndInv'
    BY <2>1, <2>2, <2>4, <2>5, GrantStep
  <2>6. ASSUME NEW i \in DOMAIN entries, GrantCommits(i) PROVE LedgerIndInv'
    BY <2>1, <2>2, <2>4, <2>6, CommitStep
  <2>7. ASSUME NEW i \in DOMAIN entries, GrantAborts(i) PROVE LedgerIndInv'
    BY <2>1, <2>2, <2>4, <2>7, AbortStep
  <2>8. ASSUME NEW a \in SpendAmounts, NEW k \in Keys \cup {NoKey}, Spend(a, k) PROVE LedgerIndInv'
    BY <2>1, <2>2, <2>4, <2>8, SpendStep
  <2>9. CASE SweepOrgExpiredGrants
    BY <2>1, <2>2, <2>4, <2>9, SweepStep
  <2>10. CASE Tick
    <3>1. entries' = entries /\ now' \in 0 .. MaxNow
      BY <2>3, <2>10 DEF Tick
    <3> QED
      BY <2>1, <3>1 DEF LedgerIndInv
  <2>11. CASE UNCHANGED ledgerVars
    BY <2>1, <2>11 DEF LedgerIndInv, ledgerVars
  <2> QED
    BY <2>1, <2>5, <2>6, <2>7, <2>8, <2>9, <2>10, <2>11 DEF LedgerNext
<1> QED
  BY <1>1, <1>2, PTL DEF LedgerSpec

(* Every entry is a well-formed ledger row, whatever commits late and      *)
(* however often the sweep runs.                                           *)
THEOREM LedgerTypeCorrect == LedgerSpec => []LedgerTypeOK
<1>1. LedgerIndInv => LedgerTypeOK
  <2>1. SUFFICES ASSUME LedgerIndInv PROVE LedgerTypeOK
    OBVIOUS
  <2>2. Wellformed(entries) /\ now \in 0 .. MaxNow
    BY <2>1 DEF LedgerIndInv
  <2>3. \A i \in Visible(entries) :
          i \in 1 .. Len(entries) /\ entries[i].st = "done"
    BY <2>2, Row DEF Visible
  <2>4. ASSUME NEW i \in Visible(entries)
        PROVE  entries[i].amount > 0 <=> entries[i].kind = "grant"
    <3>1. /\ entries[i].amount \in Int
          /\ entries[i].kind = "grant" => entries[i].amount \in Nat \ {0}
          /\ entries[i].kind # "grant" => -entries[i].amount \in Nat \ {0}
      BY <2>2, <2>3, Row
    <3> QED
      BY <3>1
  <2>5. entries \in Seq(Entry)
    BY <2>2, Row
  <2> QED
    BY <2>2, <2>4, <2>5 DEF LedgerTypeOK
<1> QED
  BY <1>1, LedgerInductive, PTL

(* replayBuckets accounts for every credit: what it leaves in the buckets  *)
(* is sumBalance, for any ledger the code can write, grants that become    *)
(* visible after spends created later than them included.                  *)
THEOREM ReplayConservesBalanceHolds == LedgerSpec => []ReplayConservesBalance
<1>1. LedgerIndInv => ReplayConservesBalance
  BY BalanceIs DEF LedgerIndInv, ReplayConservesBalance
<1> QED
  BY <1>1, LedgerInductive, PTL

(* SweepOrgExpiredGrants takes back exactly the expired part of the        *)
(* balance, and a second sweep at the same time finds nothing.             *)
THEOREM SweepIsExactHolds == LedgerSpec => SweepIsExact
<1> DEFINE Exact == SweepOrgExpiredGrants =>
                      /\ Forfeit(entries)' = {}
                      /\ sumBalance(entries') =
                           SumFunctionOnSet(replayBuckets(entries),
                                            {i \in DOMAIN entries : entries[i].expires >= now})
<1>1. LedgerIndInv => Exact
  BY SweepBalance DEF LedgerIndInv
<1>2. LedgerIndInv /\ [LedgerNext]_ledgerVars => [Exact]_ledgerVars
  BY <1>1
<1> HIDE DEF Exact
<1>3. LedgerSpec => [][Exact]_ledgerVars
  BY <1>2, LedgerInductive, PTL DEF LedgerSpec
<1> QED
  BY <1>3, PTL DEF SweepIsExact, Exact

(* The ledger is an account: a withdrawal counts once per key and never    *)
(* exceeds the balance, no grant starts under a key that a committed grant *)
(* has, whoever has not committed yet, and a sweep takes no more than      *)
(* there is.  Two grants of one key that overlap both count.               *)
THEOREM ImplementsAccountHolds == LedgerSpec => ImplementsAccount
<1>1. LedgerInit => Account!Init
  <2>1. SUFFICES ASSUME LedgerInit PROVE Account!Init
    OBVIOUS
  <2>2. Visible(entries) = {}
    BY <2>1 DEF LedgerInit, Visible
  <2>3. KeysOf("grant") = {} /\ KeysOf("spend") = {}
    BY <2>2 DEF KeysOf
  <2>5. OpenGrants = {}
    BY <2>1 DEF LedgerInit, OpenGrants
  <2>4. sumBalance(entries) = 0
    <3> DEFINE A == [i \in DOMAIN entries |-> entries[i].amount]
    <3>1. IsFiniteSet({}) /\ \A x \in {} : A[x] = 0
      BY FS_EmptySet
    <3> HIDE DEF A
    <3>2. SumFunctionOnSet(A, {}) = 0
      BY <3>1, SumZero
    <3> QED
      BY <2>2, <3>2 DEF sumBalance, A
  <2> QED
    BY <2>3, <2>4, <2>5 DEF Account!Init
<1>2. LedgerIndInv /\ [LedgerNext]_ledgerVars => [Account!Next]_(Account!vars)
  <2>1. SUFFICES ASSUME LedgerIndInv, [LedgerNext]_ledgerVars PROVE [Account!Next]_(Account!vars)
    OBVIOUS
  <2>2. PICK fs : fs = entries'
    OBVIOUS
  <2>3. ASSUME sumBalance(fs) = sumBalance(entries),
               KeysOf("grant")' = KeysOf("grant"), KeysOf("spend")' = KeysOf("spend"),
               OpenGrants' = OpenGrants
        PROVE  UNCHANGED Account!vars
    BY <2>2, <2>3 DEF Account!vars, sumBalance, Visible
  <2>4. ASSUME NEW a \in GrantAmounts, NEW k \in Keys \cup {NoKey}, NEW x \in Expiries,
               GrantWithTx(a, k, x)
        PROVE  Account!Next
    <3>1. /\ sumBalance(fs) = sumBalance(entries)
          /\ KeysOf("grant")' = KeysOf("grant") /\ KeysOf("spend")' = KeysOf("spend")
          /\ k \notin KeysOf("grant") /\ Len(entries) + 1 \in 1 .. MaxEntries
          /\ \A r \in OpenGrants : r.id # Len(entries) + 1
          /\ OpenGrants' = OpenGrants \cup {[id |-> Len(entries) + 1, amount |-> a, key |-> k]}
      BY <2>1, <2>2, <2>4, GrantStep
    <3>2. Account!Ask(Len(entries) + 1, a, k)
      BY <2>2, <3>1 DEF Account!Ask, sumBalance, Visible
    <3> QED
      BY <3>1, <3>2 DEF Account!Next
  <2>5. ASSUME NEW i \in DOMAIN entries, GrantCommits(i) PROVE Account!Next
    <3>1. /\ RequestOf(entries, i) \in OpenGrants
          /\ OpenGrants' = OpenGrants \ {RequestOf(entries, i)}
          /\ sumBalance(fs) = sumBalance(entries) + entries[i].amount
          /\ KeysOf("grant")' = KeysOf("grant") \cup ({entries[i].key} \ {NoKey})
          /\ KeysOf("spend")' = KeysOf("spend")
      BY <2>1, <2>2, <2>5, CommitStep
    <3>2. /\ RequestOf(entries, i).amount = entries[i].amount
          /\ RequestOf(entries, i).key = entries[i].key
      BY DEF RequestOf
    <3>3. Account!Deposit(RequestOf(entries, i))
      BY <2>2, <3>1, <3>2 DEF Account!Deposit, sumBalance, Visible
    <3> QED
      BY <3>1, <3>3 DEF Account!Next
  <2>6. ASSUME NEW i \in DOMAIN entries, GrantAborts(i) PROVE Account!Next
    <3>1. /\ RequestOf(entries, i) \in OpenGrants
          /\ OpenGrants' = OpenGrants \ {RequestOf(entries, i)}
          /\ sumBalance(fs) = sumBalance(entries)
          /\ KeysOf("grant")' = KeysOf("grant") /\ KeysOf("spend")' = KeysOf("spend")
      BY <2>1, <2>2, <2>6, AbortStep
    <3>2. Account!GiveUp(RequestOf(entries, i))
      BY <2>2, <3>1 DEF Account!GiveUp, sumBalance, Visible
    <3> QED
      BY <3>1, <3>2 DEF Account!Next
  <2>7. ASSUME NEW a \in SpendAmounts, NEW k \in Keys \cup {NoKey}, Spend(a, k)
        PROVE  Account!Next
    <3>1. /\ a <= sumBalance(entries) /\ sumBalance(fs) = sumBalance(entries) - a
          /\ k \notin KeysOf("spend")
          /\ KeysOf("spend")' = KeysOf("spend") \cup ({k} \ {NoKey})
          /\ KeysOf("grant")' = KeysOf("grant") /\ OpenGrants' = OpenGrants
      BY <2>1, <2>2, <2>7, SpendStep
    <3>2. Account!Withdraw(a, k)
      BY <2>2, <3>1 DEF Account!Withdraw, sumBalance, Visible
    <3> QED
      BY <3>2 DEF Account!Next
  <2>8. CASE SweepOrgExpiredGrants
    <3>1. /\ sumBalance(fs) \in Nat /\ sumBalance(fs) < sumBalance(entries)
          /\ KeysOf("grant")' = KeysOf("grant") /\ KeysOf("spend")' = KeysOf("spend")
          /\ OpenGrants' = OpenGrants
      BY <2>1, <2>2, <2>8, SweepStep
    <3>2. sumBalance(fs) >= 0
      BY <3>1
    <3>3. Account!Forfeit
      BY <2>2, <3>1, <3>2 DEF Account!Forfeit, sumBalance, Visible
    <3> QED
      BY <3>3 DEF Account!Next
  <2>9. CASE Tick
    <3>1. entries' = entries
      BY <2>9 DEF Tick
    <3> QED
      BY <2>2, <2>3, <3>1 DEF KeysOf, OpenGrants, Visible
  <2>10. CASE UNCHANGED ledgerVars
    BY <2>2, <2>3, <2>10 DEF ledgerVars, KeysOf, OpenGrants, Visible
  <2> QED
    BY <2>1, <2>4, <2>5, <2>6, <2>7, <2>8, <2>9, <2>10 DEF LedgerNext
<1> QED
  BY <1>1, <1>2, LedgerInductive, PTL DEF LedgerSpec, ImplementsAccount, Account!Spec
==============================================================================
