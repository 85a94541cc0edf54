--------------------------- MODULE RequestCounter ---------------------------
(***************************************************************************)
(* The request caps of the proxy tokens of one credential and of the       *)
(* credential itself: counters in Redis, refilled lazily from Postgres     *)
(* (internal/counter/counter.go) by the proxied requests and MCP calls     *)
(* that find them exhausted (internal/middleware/remaining.go,             *)
(* internal/mcpserver/builder.go).                                         *)
(*                                                                         *)
(* A step is one call of Redis or Postgres.  Any of them may fail, and the *)
(* Redis client repeats a command whose reply was lost.                    *)
(***************************************************************************)
EXTENDS Integers, FiniteSets

CONSTANTS
  Tokens,        \* capped proxy tokens of the credential
  Cred,          \* the credential, capped too
  Calls,         \* requests that may be made, MCP tool calls included
  Initial,       \* remaining, per counter
  Amount,        \* refill_amount
  Refillable,    \* counters with a refill_amount and a refill_interval
  MaxIntervals,  \* bound: times a refill falls due, per counter
  MaxFailures    \* bound: failed calls, crashes, lost replies and keys, reseedings

Keys == Tokens \cup {Cred}

ASSUME CounterConstants ==
  /\ Cred \notin Tokens /\ IsFiniteSet(Calls)
  /\ Initial \in [Keys -> Nat] /\ Amount \in [Keys -> Nat]
  /\ Refillable \subseteq Keys
  /\ MaxIntervals \in Nat /\ MaxFailures \in Nat

VARIABLES
  counter,    \* the Redis values
  quota,      \* the rows: refills counts the writes of last_refill_at, due is its age
  stage,      \* of each key: no row, a row, a row whose seeding is over
  call,       \* the requests
  intervals,  \* refill intervals that have ended, per counter
  extra,      \* units that a reseeding or a repeated command added
  lost,       \* keys that Redis dropped or never got
  failures    \* what MaxFailures bounds

counterVars == <<counter, quota, stage, call, intervals, extra, lost, failures>>
-----------------------------------------------------------------------------
Missing == -1
Units(k) == IF counter[k] = Missing THEN 0 ELSE counter[k]

\* paid: counters the request took a unit from and has not given it back.
\* A request that has not arrived has no token; Cred stands in for it
IdleCall == [pc |-> "idle", tok |-> Cred, mcp |-> FALSE, key |-> Cred, ver |-> 0, paid |-> {}]
Running == {"decrement", "load", "update", "seed", "retry", "undoServe", "undoRefuse"}

CounterInit ==
  /\ counter = [k \in Keys |-> Missing]
  /\ quota = [k \in Keys |-> [refills |-> 0, due |-> FALSE]]
  /\ stage = [k \in Keys |-> "none"]
  /\ call = [c \in Calls |-> IdleCall]
  /\ intervals = [k \in Keys |-> 0]
  /\ extra = [k \in Keys |-> 0]
  /\ lost = {} /\ failures = 0

Fails == failures < MaxFailures /\ failures' = failures + 1
Succeeds == UNCHANGED failures

Set(k, v) == counter' = [counter EXCEPT ![k] = v]
Becomes(c, pc) == call' = [call EXCEPT ![c].pc = pc]

Key(c) == call[c].key
HoldsToken(c) == Key(c) = Cred /\ call[c].tok \in call[c].paid

\* Mutant: a unit goes back whether or not the token's counter gave one.
RefuseUndoing(c) == Becomes(c, IF Key(c) = Cred THEN "undoRefuse" ELSE "refused")

\* A verdict on the request; a unit of the token goes back when the credential says no,
\* or cannot be asked
Refuse(c) == Becomes(c, IF HoldsToken(c) THEN "undoRefuse" ELSE "refused")
FailOpen(c) == Becomes(c, IF HoldsToken(c) THEN "undoServe" ELSE "served")

\* The counter let the request pass: on to the credential's, or upstream
Passes(c, paid) ==
  call' = [call EXCEPT ![c] =
    IF Key(c) = Cred \/ @.mcp THEN [@ EXCEPT !.pc = "served", !.paid = paid]
    ELSE [@ EXCEPT !.pc = "decrement", !.key = Cred, !.paid = paid]]
-----------------------------------------------------------------------------
(* Minting a token, creating a credential.                                 *)

Create(k) ==
  /\ stage[k] = "none"
  /\ k # Cred => stage[Cred] # "none"
  /\ stage' = [stage EXCEPT ![k] = "row"]
  /\ Succeeds
  /\ UNCHANGED <<counter, quota, call, intervals, extra, lost>>

\* The handlers drop the error of SeedToken and SeedCredential
SeedNew(k) ==
  /\ stage[k] = "row"
  /\ stage' = [stage EXCEPT ![k] = "live"]
  /\ \/ Set(k, Initial[k]) /\ UNCHANGED lost /\ Succeeds
     \/ lost' = lost \cup {k} /\ UNCHANGED counter /\ Fails
  /\ UNCHANGED <<quota, call, intervals, extra>>

\* The manifest of global credentials differs from the row, if only because a refill
\* wrote remaining: the row is updated and the counter starts afresh
Reseed ==
  /\ stage[Cred] = "live"
  /\ Set(Cred, Initial[Cred])
  /\ extra' = [extra EXCEPT ![Cred] = @ + Initial[Cred]]
  /\ Fails
  /\ UNCHANGED <<quota, stage, call, intervals, lost>>

CounterLost(k) ==
  /\ counter[k] # Missing
  /\ Set(k, Missing) /\ lost' = lost \cup {k}
  /\ Fails
  /\ UNCHANGED <<quota, stage, call, intervals, extra>>

IntervalEnds(k) ==
  /\ k \in Refillable /\ stage[k] # "none"
  /\ ~quota[k].due /\ intervals[k] < MaxIntervals
  /\ quota' = [quota EXCEPT ![k].due = TRUE]
  /\ intervals' = [intervals EXCEPT ![k] = @ + 1]
  /\ Succeeds
  /\ UNCHANGED <<counter, stage, call, extra, lost>>
-----------------------------------------------------------------------------
(* A request.  An MCP call asks the token's counter only, and refills       *)
(* nothing.                                                                 *)

Arrives(c, t, mcp) ==
  /\ call[c].pc = "idle" /\ stage[t] = "live"
  /\ call' = [call EXCEPT ![c] =
       [IdleCall EXCEPT !.pc = "decrement", !.tok = t, !.mcp = mcp, !.key = t]]
  /\ Succeeds
  /\ UNCHANGED <<counter, quota, stage, intervals, extra, lost>>

\* decrementScript: 1, 0 or -1
Decrement(c) ==
  LET k == Key(c) IN
  /\ call[c].pc \in {"decrement", "retry"}
  /\ \/ counter[k] > 0 /\ Set(k, counter[k] - 1) /\ Passes(c, call[c].paid \cup {k})
     \/ counter[k] = Missing /\ UNCHANGED counter /\ Passes(c, call[c].paid)
     \/ /\ counter[k] = 0 /\ UNCHANGED counter
        /\ IF call[c].pc = "retry" \/ call[c].mcp THEN Refuse(c) ELSE Becomes(c, "load")
  /\ Succeeds
  /\ UNCHANGED <<quota, stage, intervals, extra, lost>>

\* The script may have run all the same
DecrementFails(c) ==
  /\ call[c].pc \in {"decrement", "retry"} /\ Fails
  /\ \/ UNCHANGED counter
     \/ counter[Key(c)] > 0 /\ Set(Key(c), counter[Key(c)] - 1)
  /\ FailOpen(c)
  /\ UNCHANGED <<quota, stage, intervals, extra, lost>>

\* CheckAndRefillToken, CheckAndRefillCredential: the row is read, a refill that is due
\* is claimed by the last_refill_at that was read, and whoever wins seeds the counter
LoadRow(c) ==
  /\ call[c].pc = "load"
  /\ IF Key(c) \in Refillable /\ quota[Key(c)].due
       THEN call' = [call EXCEPT ![c].pc = "update", ![c].ver = quota[Key(c)].refills]
       ELSE Refuse(c)
  /\ Succeeds
  /\ UNCHANGED <<counter, quota, stage, intervals, extra, lost>>

Refilled(k) == quota' = [quota EXCEPT ![k] = [refills |-> @.refills + 1, due |-> FALSE]]

\* Mutant: the update does not look at last_refill_at.
UpdateUnlocked(c) ==
  /\ call[c].pc = "update"
  /\ Refilled(Key(c)) /\ Becomes(c, "seed")
  /\ Succeeds
  /\ UNCHANGED <<counter, stage, intervals, extra, lost>>

UpdateRow(c) ==
  /\ call[c].pc = "update"
  /\ IF quota[Key(c)].refills = call[c].ver
       THEN Refilled(Key(c)) /\ Becomes(c, "seed")
       ELSE Refuse(c) /\ UNCHANGED quota
  /\ Succeeds
  /\ UNCHANGED <<counter, stage, intervals, extra, lost>>

\* The row cannot be read or updated, or nobody hears that it was updated: no refill
RefillFails(c) ==
  /\ call[c].pc \in {"load", "update"} /\ Fails
  /\ \/ UNCHANGED quota
     \/ call[c].pc = "update" /\ quota[Key(c)].refills = call[c].ver /\ Refilled(Key(c))
  /\ Refuse(c)
  /\ UNCHANGED <<counter, stage, intervals, extra, lost>>

\* A seeding that failed counts as a refill: the decrement is tried again
SeedRefill(c) ==
  /\ call[c].pc = "seed"
  /\ \/ Set(Key(c), Amount[Key(c)]) /\ Succeeds
     \/ UNCHANGED counter /\ Fails
  /\ Becomes(c, "retry")
  /\ UNCHANGED <<quota, stage, intervals, extra, lost>>

Settled(pc) == IF pc = "undoServe" THEN "served" ELSE "refused"

\* Mutant: the unit is not given back.
UndoNothing(c) ==
  /\ call[c].pc \in {"undoServe", "undoRefuse"}
  /\ Becomes(c, Settled(call[c].pc))
  /\ Succeeds
  /\ UNCHANGED <<counter, quota, stage, intervals, extra, lost>>

\* Undo: INCR, which creates a key that is gone
Undo(c) ==
  LET t == call[c].tok IN
  /\ call[c].pc \in {"undoServe", "undoRefuse"}
  /\ Set(t, Units(t) + 1)
  /\ call' = [call EXCEPT ![c].pc = Settled(@), ![c].paid = @ \ {t}]
  /\ Succeeds
  /\ UNCHANGED <<quota, stage, intervals, extra, lost>>

UndoFails(c) ==
  /\ call[c].pc \in {"undoServe", "undoRefuse"} /\ Fails
  /\ Becomes(c, Settled(call[c].pc))
  /\ UNCHANGED <<counter, quota, stage, intervals, extra, lost>>

\* Redis ran the command but its reply was lost: the client sends it again
ReplyLost(c) ==
  /\ \/ /\ call[c].pc \in {"decrement", "retry"} /\ counter[Key(c)] > 0
        /\ Set(Key(c), counter[Key(c)] - 1)
        /\ UNCHANGED extra
     \/ /\ call[c].pc = "seed"
        /\ Set(Key(c), Amount[Key(c)])
        /\ extra' = [extra EXCEPT ![Key(c)] = @ + Amount[Key(c)]]
     \/ /\ call[c].pc \in {"undoServe", "undoRefuse"}
        /\ Set(call[c].tok, Units(call[c].tok) + 1)
        /\ extra' = [extra EXCEPT ![call[c].tok] = @ + 1]
  /\ Fails
  /\ UNCHANGED <<quota, stage, call, intervals, lost>>

\* The server process dies
Crash(c) ==
  /\ call[c].pc \in Running /\ Fails
  /\ Becomes(c, "dead")
  /\ UNCHANGED <<counter, quota, stage, intervals, extra, lost>>
-----------------------------------------------------------------------------
CallStep(c) == Decrement(c) \/ LoadRow(c) \/ UpdateRow(c) \/ SeedRefill(c) \/ Undo(c)

CounterNext ==
  \/ \E k \in Keys : Create(k) \/ SeedNew(k) \/ CounterLost(k) \/ IntervalEnds(k)
  \/ Reseed
  \/ \E c \in Calls :
       \/ \E t \in Tokens, mcp \in BOOLEAN : Arrives(c, t, mcp)
       \/ CallStep(c)
       \/ DecrementFails(c) \/ RefillFails(c) \/ UndoFails(c) \/ ReplyLost(c) \/ Crash(c)

\* A handler that was started goes on
CounterSpec ==
  CounterInit /\ [][CounterNext]_counterVars /\ \A c \in Calls : WF_counterVars(CallStep(c))
-----------------------------------------------------------------------------
\* Types; what a request holds is from the counters it asked, and it undoes only
\* what it took from its token.
CounterTypeOK ==
  /\ counter \in [Keys -> Nat \cup {Missing}]
  /\ quota \in [Keys -> [refills : Nat, due : BOOLEAN]]
  /\ stage \in [Keys -> {"none", "row", "live"}]
  /\ call \in [Calls -> [pc : Running \cup {"idle", "served", "refused", "dead"}, tok : Keys,
                         mcp : BOOLEAN, key : Keys, ver : Nat, paid : SUBSET Keys]]
  /\ \A c \in Calls :
       /\ call[c].pc # "idle" => call[c].tok \in Tokens /\ Key(c) \in {call[c].tok, Cred}
       /\ call[c].paid \subseteq {call[c].tok, Cred}
       /\ call[c].pc \in {"undoServe", "undoRefuse"} => HoldsToken(c) /\ ~call[c].mcp
  /\ intervals \in [Keys -> 0 .. MaxIntervals]
  /\ extra \in [Keys -> Nat]
  /\ lost \subseteq Keys /\ failures \in 0 .. MaxFailures

Payers(k) == {c \in Calls : k \in call[c].paid}

\* A counter lets no more requests pass than its cap and one refill for each interval
\* that ended: not when many requests find it exhausted at once and all try to refill
\* it (CheckAndRefillToken's optimistic lock), not when a refill or an Undo arrives
\* late, after others have refilled it again.
QuotaHolds ==
  \A k \in Keys :
    Cardinality(Payers(k)) <= Initial[k] + Amount[k] * intervals[k] + extra[k]

Charged(k) == {c \in Payers(k) : call[c].pc \notin {"refused", "dead"}}

\* A request that is refused costs nothing ("the token decrement is rolled back"): until
\* a counter is refilled, every unit it is short of belongs to a request that was served
\* or may still be, or was lost to a failure.
RefusalsAreFree ==
  \A k \in Keys \ lost :
    stage[k] = "live" /\ quota[k].refills = 0 =>
      counter[k] + Cardinality(Charged(k)) + failures >= Initial[k]
=============================================================================
