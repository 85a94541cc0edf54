--------------------------- MODULE CreditAccount ----------------------------
(***************************************************************************)
(* What the credit ledger promises to the rest of the control plane: an    *)
(* account with a balance.  A withdrawal is made at most once per          *)
(* idempotency key and never exceeds the balance.  A deposit is asked for  *)
(* first and made later: none is asked for under a key that has one, but   *)
(* those already asked for are made all the same.  Credits that expire are *)
(* taken from what is there.  Entries, buckets, their order and the clock  *)
(* are not part of it.                                                     *)
(***************************************************************************)
EXTENDS Naturals

CONSTANTS Requests, Keys, NoKey, GrantAmounts, SpendAmounts

VARIABLES
  balance,
  asked,                 \* deposits asked for and not yet made or given up
  deposited, withdrawn   \* keys already used by deposits and by withdrawals

vars == <<balance, asked, deposited, withdrawn>>

Init == balance = 0 /\ asked = {} /\ deposited = {} /\ withdrawn = {}

Ask(i, a, k) ==
  /\ k \notin deposited /\ \A r \in asked : r.id # i
  /\ asked' = asked \cup {[id |-> i, amount |-> a, key |-> k]}
  /\ UNCHANGED <<balance, deposited, withdrawn>>

Deposit(r) ==
  /\ asked' = asked \ {r}
  /\ balance' = balance + r.amount
  /\ deposited' = deposited \cup ({r.key} \ {NoKey})
  /\ UNCHANGED withdrawn

GiveUp(r) ==
  /\ asked' = asked \ {r}
  /\ UNCHANGED <<balance, deposited, withdrawn>>

Withdraw(a, k) ==
  /\ k \notin withdrawn /\ a <= balance
  /\ balance' = balance - a
  /\ withdrawn' = withdrawn \cup ({k} \ {NoKey})
  /\ UNCHANGED <<asked, deposited>>

Forfeit ==
  /\ balance' < balance /\ balance' >= 0
  /\ UNCHANGED <<asked, deposited, withdrawn>>

Next ==
  \/ \E i \in Requests, a \in GrantAmounts, k \in Keys \cup {NoKey} : Ask(i, a, k)
  \/ \E r \in asked : Deposit(r) \/ GiveUp(r)
  \/ \E a \in SpendAmounts, k \in Keys \cup {NoKey} : Withdraw(a, k)
  \/ Forfeit

Spec == Init /\ [][Next]_vars
=============================================================================
