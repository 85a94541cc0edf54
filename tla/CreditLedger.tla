---------------------------- MODULE CreditLedger ----------------------------
(***************************************************************************)
(* One organisation's append-only credit ledger (internal/billing/         *)
(* credits.go, credits_buckets.go): grants, spends, and the periodic sweep *)
(* that forfeits what is left of expired grants by replaying the ledger.   *)
(*                                                                         *)
(* An entry takes its place in created_at order when it is inserted and    *)
(* becomes visible when its transaction commits.  Spend and the sweep hold *)
(* the org row's lock from their first read to their commit, so each is    *)
(* one step; a grant takes no lock, so it may commit after entries that    *)
(* were created later.                                                     *)
(***************************************************************************)
EXTENDS Integers, Sequences, FiniteSets, Functions

CONSTANTS
  Keys,        \* non-empty (reason, ref_type, ref_id) tuples of grants and spends
  NoKey,       \* the empty ref_id, which is never looked up
  GrantAmounts, SpendAmounts,
  Expiries,    \* values of expires_at; Never is one of them
  MaxNow,      \* bound: the last instant
  MaxEntries   \* bound: entries ever inserted

Never == MaxNow + 1   \* expires_at IS NULL; the order puts it last

ASSUME LedgerConstants ==
  /\ NoKey \notin Keys /\ Expiries \subseteq 1 .. Never
  /\ GrantAmounts \subseteq Nat \ {0} /\ SpendAmounts \subseteq Nat \ {0}
  /\ MaxNow \in Nat /\ MaxEntries \in Nat

VARIABLES
  entries,   \* credit_ledger_entries ordered by created_at
  now

ledgerVars == <<entries, now>>

Entry == [kind : {"grant", "spend", "expiry"}, amount : Int, key : Keys \cup {NoKey},
          expires : 0 .. Never, of : 0 .. MaxEntries, st : {"open", "done", "void"}]

LedgerInit == entries = <<>> /\ now = 0

\* What a statement of another transaction sees.
Visible(es) == {i \in DOMAIN es : es[i].st = "done"}

sumBalance(es) == SumFunctionOnSet([i \in DOMAIN es |-> es[i].amount], Visible(es))

ledgerEntryExists(kind, k) ==
  k # NoKey /\ \E i \in Visible(entries) : entries[i].kind = kind /\ entries[i].key = k
-----------------------------------------------------------------------------
(* Replay: one bucket per grant, spends attributed earliest expiry first.  *)

\* Bucket i is drained before bucket j.
Precedes(es, i, j) ==
  \/ es[i].expires < es[j].expires
  \/ es[i].expires = es[j].expires /\ i < j

\* Mutant: every bucket pays the whole spend.
DeductFromEach(es, remaining, amount) ==
  [j \in DOMAIN remaining |-> IF remaining[j] > amount THEN remaining[j] - amount ELSE 0]

\* A spend cascades: each bucket gives what the buckets before it could not.
deductSpend(es, remaining, amount) ==
  [j \in DOMAIN remaining |->
     LET before == SumFunctionOnSet(remaining, {i \in DOMAIN remaining : Precedes(es, i, j)})
         left == IF amount > before THEN amount - before ELSE 0
     IN IF remaining[j] > left THEN remaining[j] - left ELSE 0]

\* One entry of the replay; remaining is 0 at a position that is not (yet) a bucket.
replayEntry(es, remaining, i) ==
  IF es[i].st # "done" THEN remaining
  ELSE CASE es[i].kind = "grant"  -> [remaining EXCEPT ![i] = es[i].amount]
         [] es[i].kind = "expiry" ->
              [remaining EXCEPT ![es[i].of] = IF @ + es[i].amount < 0 THEN 0 ELSE @ + es[i].amount]
         [] es[i].kind = "spend"  -> deductSpend(es, remaining, -es[i].amount)

\* What is left in each bucket after the first n entries.
replayed(es) ==
  LET after[n \in 0 .. Len(es)] ==
        IF n = 0 THEN [i \in DOMAIN es |-> 0] ELSE replayEntry(es, after[n - 1], n)
  IN after

replayBuckets(es) == replayed(es)[Len(es)]
-----------------------------------------------------------------------------
Insert(e) == entries' = Append(entries, e)

NewEntry(kind, amount, k, expires, st) ==
  [kind |-> kind, amount |-> amount, key |-> k, expires |-> expires, of |-> 0, st |-> st]

\* Mutant: a grant is not looked up.
GrantUnchecked(a, k, expires) ==
  /\ Len(entries) < MaxEntries
  /\ Insert(NewEntry("grant", a, k, expires, "open"))
  /\ UNCHANGED now

\* GrantWithTx in its caller's transaction: read, then insert.  It takes no lock and
\* no index on the key is unique, so it sees nothing of a transaction still open.
GrantWithTx(a, k, expires) ==
  /\ Len(entries) < MaxEntries
  /\ ~ledgerEntryExists("grant", k)
  /\ Insert(NewEntry("grant", a, k, expires, "open"))
  /\ UNCHANGED now

GrantCommits(i) ==
  /\ entries[i].st = "open"
  /\ entries' = [entries EXCEPT ![i].st = "done"]
  /\ UNCHANGED now

\* The caller's transaction rolls back: the row was never there.
GrantAborts(i) ==
  /\ entries[i].st = "open"
  /\ entries' = [entries EXCEPT ![i] = NewEntry("grant", 0, NoKey, Never, "void")]
  /\ UNCHANGED now

\* Mutant: the debit is recorded with the wrong sign.
SpendUnsigned(a, k) ==
  /\ Len(entries) < MaxEntries
  /\ sumBalance(entries) >= a
  /\ ~ledgerEntryExists("spend", k)
  /\ Insert(NewEntry("spend", a, k, Never, "done"))
  /\ UNCHANGED now

\* SpendWithTx; ErrInsufficientCredits and ErrAlreadyRecorded write nothing.
Spend(a, k) ==
  /\ Len(entries) < MaxEntries
  /\ sumBalance(entries) >= a
  /\ ~ledgerEntryExists("spend", k)
  /\ Insert(NewEntry("spend", -a, k, Never, "done"))
  /\ UNCHANGED now

\* Grants the sweep forfeits: expired, with something left.
Forfeit(es) == {i \in DOMAIN es : es[i].expires < now /\ replayBuckets(es)[i] > 0}

\* Mutant: the whole grant is taken back, whatever was spent of it.
ExpireWholeGrant(i) ==
  [kind |-> "expiry", amount |-> -entries[i].amount, key |-> NoKey,
   expires |-> Never, of |-> i, st |-> "done"]

ExpiryEntry(i) ==
  [kind |-> "expiry", amount |-> -replayBuckets(entries)[i], key |-> NoKey,
   expires |-> Never, of |-> i, st |-> "done"]

\* The buckets in the order of their grants.
InOrder(S) ==
  CHOOSE s \in [1 .. Cardinality(S) -> S] : \A m, n \in 1 .. Cardinality(S) : m < n => s[m] < s[n]

SweepOrgExpiredGrants ==
  LET order == InOrder(Forfeit(entries))
  IN /\ Forfeit(entries) # {}
     /\ entries' = entries \o [n \in 1 .. Cardinality(Forfeit(entries)) |-> ExpiryEntry(order[n])]
     /\ UNCHANGED now

Tick == now < MaxNow /\ now' = now + 1 /\ UNCHANGED entries

LedgerNext ==
  \/ \E a \in GrantAmounts, k \in Keys \cup {NoKey}, e \in Expiries : GrantWithTx(a, k, e)
  \/ \E i \in DOMAIN entries : GrantCommits(i) \/ GrantAborts(i)
  \/ \E a \in SpendAmounts, k \in Keys \cup {NoKey} : Spend(a, k)
  \/ SweepOrgExpiredGrants
  \/ Tick

LedgerSpec == LedgerInit /\ [][LedgerNext]_ledgerVars
-----------------------------------------------------------------------------
(* Every entry is a well-formed ledger row: "grants are positive, spends    *)
(* are negative".                                                           *)
LedgerTypeOK ==
  /\ entries \in Seq(Entry) /\ now \in 0 .. MaxNow
  /\ \A i \in Visible(entries) : entries[i].amount > 0 <=> entries[i].kind = "grant"

KeysOf(kind) == {entries[i].key : i \in {n \in Visible(entries) : entries[n].kind = kind}} \ {NoKey}

\* The grants whose transactions are still open, by their place in the ledger.
OpenGrants ==
  {[id |-> i, amount |-> entries[i].amount, key |-> entries[i].key] :
     i \in {n \in DOMAIN entries : entries[n].st = "open"}}

Account == INSTANCE CreditAccount WITH
  Requests <- 1 .. MaxEntries,
  balance <- sumBalance(entries), asked <- OpenGrants,
  deposited <- KeysOf("grant"), withdrawn <- KeysOf("spend")

(* The ledger implements the account: "we never oversubscribe the balance", *)
(* a spend counts once, a grant retried after the first one committed is    *)
(* refused, so that only grants whose transactions overlap can both count,  *)
(* and a sweep takes back no more than there is, for every interleaving of  *)
(* spends, sweeps and grants that commit late.                              *)
ImplementsAccount == Account!Spec

(* The replay accounts for every credit: what it says is left in the        *)
(* buckets is the balance, so a sweep can neither forfeit credits that were *)
(* spent nor leave expired ones behind, even when a grant becomes visible   *)
(* after spends created later than it.                                      *)
ReplayConservesBalance ==
  SumFunction(replayBuckets(entries)) = sumBalance(entries)

(* A sweep forfeits exactly the expired part of the balance: afterwards a   *)
(* second sweep finds nothing, and what is left is what has not expired.    *)
SweepIsExact ==
  [][SweepOrgExpiredGrants =>
       /\ Forfeit(entries)' = {}
       /\ sumBalance(entries') =
            SumFunctionOnSet(replayBuckets(entries),
                             {i \in DOMAIN entries : entries[i].expires >= now})]_ledgerVars
=============================================================================
