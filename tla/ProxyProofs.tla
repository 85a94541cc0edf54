----------------------------- MODULE ProxyProofs -----------------------------
(***************************************************************************)
(* Proofs about the two components behind the LLM proxy: the request       *)
(* counters (RequestCounter), for any tokens, requests, caps, refill       *)
(* amounts and numbers of intervals and failures, and the credential cache *)
(* (CredentialCache), for any pods and requests.                           *)
(*                                                                         *)
(* A counter is kept in two places.  Balanced follows its units from the   *)
(* row's refill through the request that is about to seed it to the Redis  *)
(* value and to the request that takes it; it does not grow when a seeding *)
(* or an Undo comes late because a seeding overwrites what it finds.       *)
(* In the cache, LookupsOK relates the requests to the flights they lead   *)
(* or wait for, and TiersOK is about the rest.                             *)
(***************************************************************************)
EXTENDS CredentialCache, RequestCounter, FiniteSetTheorems, TLAPS

Undoing == {"undoServe", "undoRefuse"}
Seeders(k) == {c \in Calls : call[c].pc = "seed" /\ Key(c) = k}
Unborn(k) == IF stage[k] = "live" THEN 0 ELSE Initial[k]

\* A request on its way has not paid the counter it is asking
CallsInOrder ==
  \A c \in Calls :
    /\ call[c].pc = "idle" => call[c].paid = {}
    /\ call[c].pc # "idle" => stage[call[c].tok] = "live" /\ (call[c].mcp => Key(c) # Cred)
    /\ call[c].pc \in Running => call[c].paid \subseteq {call[c].tok} /\ Key(c) \notin call[c].paid

\* A refill is claimed once: whoever still holds the row's version found it due
RefillsInOrder ==
  /\ \A c \in Calls :
       /\ call[c].pc = "update" => call[c].ver <= quota[Key(c)].refills
       /\ call[c].pc = "update" /\ call[c].ver = quota[Key(c)].refills => quota[Key(c)].due
       /\ call[c].pc = "seed" => quota[Key(c)].refills > 0
  /\ \A k \in Keys : quota[k].refills + (IF quota[k].due THEN 1 ELSE 0) <= intervals[k]

\* Units never come from nowhere
Balanced(k) ==
  Cardinality(Payers(k)) + Units(k) + Amount[k] * Cardinality(Seeders(k)) + Unborn(k)
    <= Initial[k] + Amount[k] * quota[k].refills + extra[k]

\* And go nowhere, until the first refill overwrites some
Conserved(k) ==
  k \notin lost /\ stage[k] = "live" =>
    /\ counter[k] # Missing
    /\ quota[k].refills = 0 => counter[k] + Cardinality(Charged(k)) + failures >= Initial[k]

CounterInv ==
  /\ CounterTypeOK /\ CallsInOrder /\ RefillsInOrder
  /\ \A k \in Keys : Balanced(k) /\ Conserved(k)
-----------------------------------------------------------------------------
\* The conjuncts of CounterTypeOK about the requests
CallTypeOK ==
  /\ call \in [Calls -> [pc : Running \cup {"idle", "served", "refused", "dead"}, tok : Keys,
                         mcp : BOOLEAN, key : Keys, ver : Nat, paid : SUBSET Keys]]
  /\ \A c \in Calls :
       /\ call[c].pc # "idle" => call[c].tok \in Tokens /\ Key(c) \in {call[c].tok, Cred}
       /\ call[c].paid \subseteq {call[c].tok, Cred}
       /\ call[c].pc \in {"undoServe", "undoRefuse"} => HoldsToken(c) /\ ~call[c].mcp

(* A request that is on its way stays in order when only its pc changes.   *)
LEMMA StepTaken ==
  ASSUME CallTypeOK, CallsInOrder, NEW c \in Calls, call[c].pc \in Running, UNCHANGED stage,
         NEW pc \in Running \cup {"served", "refused", "dead"}, Becomes(c, pc),
         pc \in Undoing => HoldsToken(c)
  PROVE  CallTypeOK' /\ CallsInOrder'
<1>1. HoldsToken(c) => ~call[c].mcp
  BY DEF CallsInOrder, HoldsToken, Running
<1>2. CallTypeOK'
  BY <1>1 DEF Becomes, CallTypeOK, Running, Undoing, Key, HoldsToken
<1>3. CallsInOrder'
  BY <1>1, CounterConstants DEF Becomes, CallsInOrder, CallTypeOK, Running, Undoing, Key, Keys
<1> QED
  BY <1>2, <1>3

(* A verdict undoes what the request holds of its token, and no more.      *)
LEMMA Verdict ==
  ASSUME CallTypeOK, CallsInOrder, NEW c \in Calls, call[c].pc \in Running, UNCHANGED stage,
         Refuse(c) \/ FailOpen(c)
  PROVE  CallTypeOK' /\ CallsInOrder'
<1>1. PICK pc \in {"undoRefuse", "refused", "undoServe", "served"} :
        Becomes(c, pc) /\ (pc \in Undoing => HoldsToken(c))
  BY DEF Refuse, FailOpen, Undoing
<1> QED
  BY <1>1, StepTaken DEF Running

LEMMA PassTaken ==
  ASSUME CallTypeOK, NEW c \in Calls, NEW paid, Passes(c, paid)
  PROVE  /\ call'[c].pc \in {"served", "decrement"} /\ call'[c].paid = paid
         /\ \A d \in Calls \ {c} : call'[d] = call[d]
<1>1. call'[c] = IF Key(c) = Cred \/ call[c].mcp THEN [call[c] EXCEPT !.pc = "served", !.paid = paid]
                 ELSE [call[c] EXCEPT !.pc = "decrement", !.key = Cred, !.paid = paid]
  BY DEF Passes, CallTypeOK
<1>2. \A d \in Calls \ {c} : call'[d] = call[d]
  BY DEF Passes, CallTypeOK
<1>3. DOMAIN call[c] = {"pc", "tok", "mcp", "key", "ver", "paid"}
  BY DEF CallTypeOK
<1>4. CASE Key(c) = Cred \/ call[c].mcp
  <2>1. call'[c] = [call[c] EXCEPT !.pc = "served", !.paid = paid]
    BY <1>1, <1>4
  <2> QED
    BY <1>2, <1>3, <2>1
<1>5. CASE ~(Key(c) = Cred \/ call[c].mcp)
  <2>1. call'[c] = [call[c] EXCEPT !.pc = "decrement", !.key = Cred, !.paid = paid]
    BY <1>1, <1>5
  <2> QED
    BY <1>2, <1>3, <2>1
<1> QED
  BY <1>4, <1>5

(* A request that passes its token's counter asks the credential's next.   *)
LEMMA Passed ==
  ASSUME CallTypeOK, CallsInOrder, NEW c \in Calls, call[c].pc \in {"decrement", "retry"},
         UNCHANGED stage, NEW paid, paid \in {call[c].paid, call[c].paid \cup {Key(c)}}, Passes(c, paid)
  PROVE  CallTypeOK' /\ CallsInOrder'
<1>1. call'[c] = IF Key(c) = Cred \/ call[c].mcp THEN [call[c] EXCEPT !.pc = "served", !.paid = paid]
                 ELSE [call[c] EXCEPT !.pc = "decrement", !.key = Cred, !.paid = paid]
  BY DEF Passes, CallTypeOK
<1>2. /\ call[c] \in [pc : Running \cup {"idle", "served", "refused", "dead"}, tok : Keys,
                      mcp : BOOLEAN, key : Keys, ver : Nat, paid : SUBSET Keys]
      /\ call[c].tok \in Tokens /\ Key(c) \in {call[c].tok, Cred} /\ call[c].paid \subseteq {call[c].tok}
      /\ call[c].mcp => Key(c) # Cred
      /\ stage[call[c].tok] = "live" /\ Cred \in Keys /\ Cred \notin Tokens
  BY CounterConstants DEF CallTypeOK, CallsInOrder, Running, Keys
<1>3. paid \subseteq {call[c].tok, Cred} /\ paid \in SUBSET Keys
  BY <1>2 DEF Keys
<1>4. ~(Key(c) = Cred \/ call[c].mcp) => paid \subseteq {call[c].tok}
  BY <1>2 DEF Keys
<1>5. /\ call'[c] \in [pc : Running \cup {"idle", "served", "refused", "dead"}, tok : Keys,
                       mcp : BOOLEAN, key : Keys, ver : Nat, paid : SUBSET Keys]
      /\ call'[c].pc \in {"served", "decrement"} /\ call'[c].tok = call[c].tok
      /\ call'[c].key \in {call[c].tok, Cred} /\ call'[c].paid = paid /\ call'[c].mcp = call[c].mcp
      /\ call'[c].mcp => call'[c].key # Cred
      /\ call'[c].pc = "decrement" => call'[c].key = Cred /\ paid \subseteq {call[c].tok}
  <2>1. CASE Key(c) = Cred \/ call[c].mcp
    <3>1. call'[c] = [call[c] EXCEPT !.pc = "served", !.paid = paid]
      BY <1>1, <2>1
    <3> QED
      BY <1>2, <1>3, <3>1 DEF Key
  <2>2. CASE ~(Key(c) = Cred \/ call[c].mcp)
    <3>1. call'[c] = [call[c] EXCEPT !.pc = "decrement", !.key = Cred, !.paid = paid]
      BY <1>1, <2>2
    <3> QED
      BY <1>2, <1>3, <1>4, <2>2, <3>1 DEF Running
  <2> QED
    BY <2>1, <2>2
<1>6. \A d \in Calls \ {c} : call'[d] = call[d]
  BY DEF Passes, CallTypeOK
<1>7. call' \in [Calls -> [pc : Running \cup {"idle", "served", "refused", "dead"}, tok : Keys,
                           mcp : BOOLEAN, key : Keys, ver : Nat, paid : SUBSET Keys]]
  BY <1>5, <1>6 DEF Passes, CallTypeOK
<1>8. CallTypeOK'
  BY <1>2, <1>3, <1>5, <1>6, <1>7 DEF CallTypeOK, Key, HoldsToken
<1>9. CallsInOrder'
  BY <1>2, <1>3, <1>5, <1>6, <1>7 DEF CallsInOrder, Key, Running
<1> QED
  BY <1>8, <1>9

\* The conjuncts about everything else
RestTypeOK ==
  /\ counter \in [Keys -> Nat \cup {Missing}]
  /\ quota \in [Keys -> [refills : Nat, due : BOOLEAN]]
  /\ stage \in [Keys -> {"none", "row", "live"}]
  /\ intervals \in [Keys -> 0 .. MaxIntervals]
  /\ extra \in [Keys -> Nat]
  /\ lost \subseteq Keys /\ failures \in 0 .. MaxFailures

LEMMA TypeParts == CounterTypeOK <=> RestTypeOK /\ CallTypeOK
  BY DEF CounterTypeOK, RestTypeOK, CallTypeOK

(* What a refill and the end of an interval write.                         *)
LEMMA RowWritten ==
  ASSUME RestTypeOK, NEW k \in Keys,
         Refilled(k) \/ quota' = [quota EXCEPT ![k].due = TRUE]
  PROVE  /\ quota' \in [Keys -> [refills : Nat, due : BOOLEAN]]
         /\ \A j \in Keys \ {k} : quota'[j] = quota[j]
         /\ Refilled(k) => quota'[k].refills = quota[k].refills + 1 /\ ~quota'[k].due
         /\ ~Refilled(k) => quota'[k].refills = quota[k].refills /\ quota'[k].due
<1>1. quota[k] \in [refills : Nat, due : BOOLEAN] /\ quota \in [Keys -> [refills : Nat, due : BOOLEAN]]
  BY DEF RestTypeOK
<1>2. CASE Refilled(k)
  <2> DEFINE r == [refills |-> quota[k].refills + 1, due |-> FALSE]
  <2>1. r \in [refills : Nat, due : BOOLEAN] /\ r.refills = quota[k].refills + 1 /\ ~r.due
    BY <1>1
  <2>2. quota' = [quota EXCEPT ![k] = r]
    BY <1>2 DEF Refilled
  <2> HIDE DEF r
  <2> QED
    BY <1>1, <1>2, <2>1, <2>2
<1>3. CASE quota' = [quota EXCEPT ![k].due = TRUE] /\ ~Refilled(k)
  <2> DEFINE r == [quota[k] EXCEPT !.due = TRUE]
  <2>1. r \in [refills : Nat, due : BOOLEAN] /\ r.refills = quota[k].refills /\ r.due
    BY <1>1
  <2>2. quota' = [quota EXCEPT ![k] = r]
    BY <1>3
  <2> HIDE DEF r
  <2> QED
    BY <1>1, <1>3, <2>1, <2>2
<1> QED
  BY <1>2, <1>3

(* Every step keeps the types and the order of a request's steps.          *)
LEMMA TypesKept ==
  ASSUME RestTypeOK, CallTypeOK, CallsInOrder, CounterNext
  PROVE  RestTypeOK' /\ CallTypeOK' /\ CallsInOrder'
<1>0. Cred \in Keys /\ Cred \notin Tokens /\ Tokens \subseteq Keys
      /\ Initial \in [Keys -> Nat] /\ Amount \in [Keys -> Nat]
      /\ MaxIntervals \in Nat /\ MaxFailures \in Nat
  BY CounterConstants DEF Keys
<1>1. ASSUME NEW k \in Keys, Create(k)
      PROVE  RestTypeOK' /\ CallTypeOK' /\ CallsInOrder'
  <2>1. RestTypeOK'
    BY <1>0, <1>1 DEF Create, RestTypeOK, CallTypeOK, Missing, Key, Succeeds, Fails
  <2>2. CallTypeOK'
    BY <1>0, <1>1 DEF Create, CallTypeOK, CallsInOrder, RestTypeOK, Running, Key, HoldsToken
  <2>3. CallsInOrder'
    BY <1>0, <1>1 DEF Create, CallTypeOK, CallsInOrder, RestTypeOK, Running, Key, HoldsToken
  <2> QED
    BY <2>1, <2>2, <2>3
<1>2. ASSUME NEW k \in Keys, SeedNew(k)
      PROVE  RestTypeOK' /\ CallTypeOK' /\ CallsInOrder'
  <2>1. RestTypeOK'
    <3>1. counter' \in [Keys -> Nat \cup {Missing}] /\ failures' \in 0 .. MaxFailures
      BY <1>0, <1>2 DEF SeedNew, Set, Succeeds, Fails, RestTypeOK
    <3> QED
      BY <1>2, <3>1 DEF SeedNew, RestTypeOK, Succeeds
  <2>2. CallTypeOK'
    BY <1>0, <1>2 DEF SeedNew, CallTypeOK, Key, HoldsToken
  <2>3. CallsInOrder'
    BY <1>0, <1>2 DEF SeedNew, CallTypeOK, CallsInOrder, RestTypeOK, Key
  <2> QED
    BY <2>1, <2>2, <2>3
<1>3. ASSUME NEW k \in Keys, CounterLost(k)
      PROVE  RestTypeOK' /\ CallTypeOK' /\ CallsInOrder'
  <2>1. RestTypeOK'
    BY <1>0, <1>3 DEF Set, Fails, Missing, CounterLost, RestTypeOK, CallTypeOK, Key, Succeeds
  <2>2. CallTypeOK'
    BY <1>0, <1>3 DEF Set, Fails, Missing, CounterLost, CallTypeOK, CallsInOrder, RestTypeOK,
                      Running, Key, HoldsToken
  <2>3. CallsInOrder'
    BY <1>0, <1>3 DEF Set, Fails, Missing, CounterLost, CallTypeOK, CallsInOrder, RestTypeOK,
                      Running, Key, HoldsToken
  <2> QED
    BY <2>1, <2>2, <2>3
<1>4. ASSUME NEW k \in Keys, IntervalEnds(k)
      PROVE  RestTypeOK' /\ CallTypeOK' /\ CallsInOrder'
  <2>1. RestTypeOK'
    <3>1. quota' \in [Keys -> [refills : Nat, due : BOOLEAN]]
      BY <1>4, RowWritten DEF IntervalEnds
    <3>2. intervals' \in [Keys -> 0 .. MaxIntervals]
      <4>1. intervals[k] + 1 \in 0 .. MaxIntervals
        BY <1>0, <1>4 DEF IntervalEnds, RestTypeOK
      <4>2. intervals' = [intervals EXCEPT ![k] = intervals[k] + 1]
        BY <1>4 DEF IntervalEnds
      <4> QED
        BY <4>1, <4>2 DEF RestTypeOK
    <3> QED
      BY <1>4, <3>1, <3>2 DEF IntervalEnds, RestTypeOK, Succeeds
  <2>2. CallTypeOK'
    BY <1>0, <1>4 DEF IntervalEnds, CallTypeOK, Key, HoldsToken
  <2>3. CallsInOrder'
    BY <1>0, <1>4 DEF IntervalEnds, CallTypeOK, CallsInOrder, RestTypeOK, Key
  <2> QED
    BY <2>1, <2>2, <2>3
<1>5. ASSUME Reseed
      PROVE  RestTypeOK' /\ CallTypeOK' /\ CallsInOrder'
  <2>1. RestTypeOK'
    BY <1>0, <1>5 DEF Set, Fails, Reseed, RestTypeOK, CallTypeOK, Missing, Key, Succeeds
  <2>2. CallTypeOK'
    BY <1>0, <1>5 DEF Set, Fails, Reseed, CallTypeOK, CallsInOrder, RestTypeOK, Running, Key,
                      HoldsToken
  <2>3. CallsInOrder'
    BY <1>0, <1>5 DEF Set, Fails, Reseed, CallTypeOK, CallsInOrder, RestTypeOK, Running, Key,
                      HoldsToken
  <2> QED
    BY <2>1, <2>2, <2>3
<1>6. ASSUME NEW c \in Calls, NEW t \in Tokens, NEW mcp \in BOOLEAN, Arrives(c, t, mcp)
      PROVE  RestTypeOK' /\ CallTypeOK' /\ CallsInOrder'
  <2>1. RestTypeOK'
    BY <1>0, <1>6 DEF IdleCall, Arrives, RestTypeOK, CallTypeOK, Missing, Key, Succeeds, Fails
  <2>2. CallTypeOK'
    BY <1>0, <1>6 DEF IdleCall, Arrives, CallTypeOK, CallsInOrder, RestTypeOK, Running, Key,
                      HoldsToken
  <2>3. CallsInOrder'
    BY <1>0, <1>6 DEF IdleCall, Arrives, CallTypeOK, CallsInOrder, RestTypeOK, Running, Key,
                      HoldsToken
  <2> QED
    BY <2>1, <2>2, <2>3
<1>7. ASSUME NEW c \in Calls, Decrement(c)
      PROVE  RestTypeOK' /\ CallTypeOK' /\ CallsInOrder'
  <2>1. RestTypeOK'
    <3>1. Key(c) \in Keys
      BY DEF CallTypeOK, Key
    <3> QED
      BY <1>7, <3>1 DEF Decrement, Set, RestTypeOK, Missing, Succeeds
  <2>2. CASE Refuse(c)
    BY <1>7, <2>1, <2>2, Verdict DEF Decrement, Running, Undoing
  <2>3. CASE Becomes(c, "load") /\ call[c].pc = "decrement" /\ ~call[c].mcp
    <3>1. CallTypeOK' /\ CallsInOrder'
      BY <1>7, <2>3 DEF Decrement, Becomes, CallTypeOK, CallsInOrder, Running, Key, HoldsToken
    <3> QED
      BY <2>1, <3>1
  <2>4. CASE Passes(c, call[c].paid) \/ Passes(c, call[c].paid \cup {Key(c)})
    BY <1>7, <2>1, <2>4, Passed DEF Decrement
  <2> QED
    BY <1>7, <2>2, <2>3, <2>4 DEF Decrement
<1>8. ASSUME NEW c \in Calls, LoadRow(c)
      PROVE  RestTypeOK' /\ CallTypeOK' /\ CallsInOrder'
  <2>1. RestTypeOK'
    BY <1>8 DEF LoadRow, RestTypeOK, Succeeds
  <2>2. CASE Refuse(c)
    BY <1>8, <2>1, <2>2, Verdict DEF LoadRow, Running, Undoing
  <2>3. CASE call' = [call EXCEPT ![c].pc = "update", ![c].ver = quota[Key(c)].refills]
    <3>1. quota[Key(c)].refills \in Nat
      BY DEF RestTypeOK, CallTypeOK, Key
    <3> DEFINE v == quota[Key(c)].refills
    <3>2. call' = [call EXCEPT ![c].pc = "update", ![c].ver = v] /\ call[c].pc = "load" /\ UNCHANGED stage
      BY <1>8, <2>3 DEF LoadRow
    <3> HIDE DEF v
    <3>3. v \in Nat
      BY <3>1 DEF v
    <3>4. CallTypeOK'
      <4>1. call' \in [Calls -> [pc : Running \cup {"idle", "served", "refused", "dead"}, tok : Keys,
                             mcp : BOOLEAN, key : Keys, ver : Nat, paid : SUBSET Keys]]
        <5> DEFINE r == [call[c] EXCEPT !.pc = "update", !.ver = v]
        <5>1. r \in [pc : Running \cup {"idle", "served", "refused", "dead"}, tok : Keys,
                   mcp : BOOLEAN, key : Keys, ver : Nat, paid : SUBSET Keys]
          BY <3>3 DEF CallTypeOK, Running
        <5>2. call' = [call EXCEPT ![c] = r]
          BY <3>2
        <5> HIDE DEF r
        <5> QED
          BY <5>1, <5>2 DEF CallTypeOK
      <4> QED
        BY <3>2, <4>1 DEF CallTypeOK, Key, HoldsToken
    <3>5. CallsInOrder'
      BY <3>2, <3>3 DEF CallTypeOK, CallsInOrder, Running, Key
    <3> QED
      BY <2>1, <3>4, <3>5
  <2> QED
    BY <1>8, <2>2, <2>3 DEF LoadRow
<1>9. ASSUME NEW c \in Calls, UpdateRow(c)
      PROVE  RestTypeOK' /\ CallTypeOK' /\ CallsInOrder'
  <2>0. Key(c) \in Keys
    BY DEF CallTypeOK, Key
  <2>1. RestTypeOK'
    <3>1. quota' \in [Keys -> [refills : Nat, due : BOOLEAN]]
      BY <1>9, <2>0, RowWritten DEF UpdateRow, RestTypeOK
    <3> QED
      BY <1>9, <3>1 DEF UpdateRow, RestTypeOK, Succeeds
  <2>2. CASE Refuse(c)
    BY <1>9, <2>1, <2>2, Verdict DEF UpdateRow, Running, Undoing
  <2>3. CASE Becomes(c, "seed")
    <3>1. CallTypeOK' /\ CallsInOrder'
      BY <1>9, <2>3, StepTaken DEF UpdateRow, Running, Undoing
    <3> QED
      BY <2>1, <3>1
  <2> QED
    BY <1>9, <2>2, <2>3 DEF UpdateRow
<1>10. ASSUME NEW c \in Calls, SeedRefill(c)
      PROVE  RestTypeOK' /\ CallTypeOK' /\ CallsInOrder'
  <2>0. Key(c) \in Keys
    BY DEF CallTypeOK, Key
  <2>1. RestTypeOK'
    <3>1. counter' \in [Keys -> Nat \cup {Missing}] /\ failures' \in 0 .. MaxFailures
      BY <1>0, <1>10, <2>0 DEF SeedRefill, Set, Succeeds, Fails, RestTypeOK
    <3> QED
      BY <1>10, <3>1 DEF SeedRefill, RestTypeOK
  <2>2. call[c].pc \in Running /\ UNCHANGED stage /\ Becomes(c, "retry")
    BY <1>10 DEF SeedRefill, Running
  <2> QED
    BY <2>1, <2>2, StepTaken DEF Running, Undoing
<1>11. ASSUME NEW c \in Calls, Undo(c)
      PROVE  RestTypeOK' /\ CallTypeOK' /\ CallsInOrder'
  <2>1. RestTypeOK'
    BY <1>0, <1>11 DEF Set, Units, Settled, Undo, RestTypeOK, CallTypeOK, Missing, Key, Succeeds,
                       Fails
  <2>2. CallTypeOK'
    BY <1>0, <1>11 DEF Set, Units, Settled, Undo, CallTypeOK, CallsInOrder, RestTypeOK, Running,
                       Key, HoldsToken
  <2>3. CallsInOrder'
    BY <1>0, <1>11 DEF Set, Units, Settled, Undo, CallTypeOK, CallsInOrder, RestTypeOK, Running,
                       Key, HoldsToken
  <2> QED
    BY <2>1, <2>2, <2>3
<1>12. ASSUME NEW c \in Calls, DecrementFails(c)
      PROVE  RestTypeOK' /\ CallTypeOK' /\ CallsInOrder'
  <2>0. Key(c) \in Keys
    BY DEF CallTypeOK, Key
  <2>1. RestTypeOK'
    BY <1>0, <1>12, <2>0 DEF DecrementFails, Set, Fails, RestTypeOK, Missing
  <2> QED
    BY <1>12, <2>1, Verdict DEF DecrementFails, Running, Undoing
<1>13. ASSUME NEW c \in Calls, RefillFails(c)
      PROVE  RestTypeOK' /\ CallTypeOK' /\ CallsInOrder'
  <2>0. Key(c) \in Keys
    BY DEF CallTypeOK, Key
  <2>1. RestTypeOK'
    <3>1. quota' \in [Keys -> [refills : Nat, due : BOOLEAN]]
      BY <1>13, <2>0, RowWritten DEF RefillFails, RestTypeOK
    <3> QED
      BY <1>0, <1>13, <3>1 DEF RefillFails, RestTypeOK, Fails
  <2> QED
    BY <1>13, <2>1, Verdict DEF RefillFails, Running, Undoing
<1>14. ASSUME NEW c \in Calls, UndoFails(c)
      PROVE  RestTypeOK' /\ CallTypeOK' /\ CallsInOrder'
  <2>0. Key(c) \in Keys
    BY DEF CallTypeOK, Key
  <2>1. RestTypeOK'
    BY <1>0, <1>14 DEF UndoFails, Fails, RestTypeOK
  <2>2. call[c].pc \in Running /\ UNCHANGED stage /\ Becomes(c, Settled(call[c].pc))
    BY <1>14 DEF UndoFails, Running
  <2>3. Settled(call[c].pc) \in {"served", "refused"}
    BY DEF Settled
  <2> QED
    BY <2>1, <2>2, <2>3, StepTaken DEF Running, Undoing
<1>15. ASSUME NEW c \in Calls, ReplyLost(c)
      PROVE  RestTypeOK' /\ CallTypeOK' /\ CallsInOrder'
  <2>1. RestTypeOK'
    BY <1>0, <1>15 DEF Set, Units, Fails, ReplyLost, RestTypeOK, CallTypeOK, Missing, Key,
                       Succeeds
  <2>2. CallTypeOK'
    BY <1>0, <1>15 DEF Set, Units, Fails, ReplyLost, CallTypeOK, CallsInOrder, RestTypeOK,
                       Running, Key, HoldsToken
  <2>3. CallsInOrder'
    BY <1>0, <1>15 DEF Set, Units, Fails, ReplyLost, CallTypeOK, CallsInOrder, RestTypeOK,
                       Running, Key, HoldsToken
  <2> QED
    BY <2>1, <2>2, <2>3
<1>16. ASSUME NEW c \in Calls, Crash(c)
      PROVE  RestTypeOK' /\ CallTypeOK' /\ CallsInOrder'
  <2>0. Key(c) \in Keys
    BY DEF CallTypeOK, Key
  <2>1. RestTypeOK'
    BY <1>0, <1>16 DEF Crash, Fails, RestTypeOK
  <2>2. call[c].pc \in Running /\ UNCHANGED stage /\ Becomes(c, "dead")
    BY <1>16 DEF Crash, Running
  <2> QED
    BY <2>1, <2>2, StepTaken DEF Running, Undoing
<1> QED
  BY <1>1, <1>2, <1>3, <1>4, <1>5, <1>6, <1>7, <1>8, <1>9, <1>10, <1>11, <1>12, <1>13, <1>14, <1>15, <1>16 DEF CounterNext, CallStep

-----------------------------------------------------------------------------
LEMMA RefillsKept ==
  ASSUME RestTypeOK, CallTypeOK, CallsInOrder, RefillsInOrder, CounterNext
  PROVE  RefillsInOrder'
<1>0. \A c \in Calls : Key(c) \in Keys
  BY DEF CallTypeOK, Key
<1>1. /\ quota \in [Keys -> [refills : Nat, due : BOOLEAN]] /\ intervals \in [Keys -> Nat]
      /\ \A k \in Keys : quota[k].refills \in Nat /\ quota[k].due \in BOOLEAN
  BY CounterConstants DEF RestTypeOK
\* A request that does not begin to update or seed leaves the order of the refills alone
<1>2. ASSUME UNCHANGED <<quota, intervals>>, NEW c \in Calls,
             call'[c].pc \notin {"update", "seed"}, \A d \in Calls \ {c} : call'[d] = call[d]
      PROVE  RefillsInOrder'
  BY <1>2 DEF RefillsInOrder, Key
<1>3. ASSUME NEW k \in Keys, IntervalEnds(k) PROVE RefillsInOrder'
  <2>1. /\ \A j \in Keys \ {k} : quota'[j] = quota[j] /\ intervals'[j] = intervals[j]
        /\ quota'[k].refills = quota[k].refills /\ quota'[k].due /\ ~quota[k].due
        /\ intervals'[k] = intervals[k] + 1
    <3>1. quota' = [quota EXCEPT ![k].due = TRUE] /\ ~quota[k].due
          /\ intervals' = [intervals EXCEPT ![k] = @ + 1]
      BY <1>3 DEF IntervalEnds
    <3>2. quota'[k].refills = quota[k].refills /\ quota'[k].due
      BY <1>1, <3>1
    <3> QED
      BY <1>1, <3>1, <3>2
  <2>2. UNCHANGED call
    BY <1>3 DEF IntervalEnds
  <2>3. \A j \in Keys : quota'[j].refills = quota[j].refills /\ (quota[j].due => quota'[j].due)
    BY <2>1
  <2>4. \A j \in Keys : quota'[j].refills + (IF quota'[j].due THEN 1 ELSE 0) <= intervals'[j]
    <3> TAKE j \in Keys
    <3>1. quota[j].refills + (IF quota[j].due THEN 1 ELSE 0) <= intervals[j]
      BY DEF RefillsInOrder
    <3> QED
      BY <1>1, <2>1, <3>1
  <2> QED
    BY <1>0, <2>2, <2>3, <2>4 DEF RefillsInOrder, Key
<1>4. ASSUME NEW c \in Calls, call[c].pc = "update", call[c].ver = quota[Key(c)].refills, Refilled(Key(c)),
             NEW pc, pc \notin {"update"}, Becomes(c, pc), UNCHANGED intervals
      PROVE  RefillsInOrder'
  <2> DEFINE k == Key(c)
  <2>1. quota[k].due /\ quota[k].refills + 1 <= intervals[k] /\ k \in Keys
    BY <1>0, <1>4 DEF RefillsInOrder
  <2>2. /\ \A j \in Keys \ {k} : quota'[j] = quota[j]
        /\ quota'[k].refills = quota[k].refills + 1 /\ ~quota'[k].due
    BY <1>0, <1>4, RowWritten
  <2>3. /\ \A d \in Calls : Key(d)' = Key(d) /\ call'[d].ver = call[d].ver
        /\ \A d \in Calls \ {c} : call'[d].pc = call[d].pc
        /\ call'[c].pc = pc
    BY <1>4 DEF Becomes, CallTypeOK, Key
  <2>4. \A d \in Calls : call'[d].pc = "update" =>
          /\ call[d].ver <= quota'[Key(d)].refills
          /\ call[d].ver = quota'[Key(d)].refills => quota'[Key(d)].due
    <3> SUFFICES ASSUME NEW d \in Calls, call'[d].pc = "update"
                 PROVE  /\ call[d].ver <= quota'[Key(d)].refills
                        /\ call[d].ver = quota'[Key(d)].refills => quota'[Key(d)].due
      OBVIOUS
    <3>1. d # c /\ call[d].pc = "update" /\ Key(d) \in Keys /\ call[d].ver \in Nat
      BY <1>0, <1>4, <2>3 DEF CallTypeOK
    <3>2. call[d].ver <= quota[Key(d)].refills /\ (call[d].ver = quota[Key(d)].refills => quota[Key(d)].due)
      BY <3>1 DEF RefillsInOrder
    <3> QED
      BY <1>1, <2>1, <2>2, <3>1, <3>2
  <2>5. \A d \in Calls : call'[d].pc = "seed" => quota'[Key(d)].refills > 0
    <3> SUFFICES ASSUME NEW d \in Calls, call'[d].pc = "seed" PROVE quota'[Key(d)].refills > 0
      OBVIOUS
    <3>1. CASE Key(d) = k
      BY <1>1, <2>1, <2>2, <3>1
    <3>2. CASE Key(d) # k
      <4>1. d # c /\ Key(d) \in Keys \ {k} /\ call[d].pc = "seed"
        BY <1>0, <2>3, <3>2
      <4> QED
        BY <2>2, <4>1 DEF RefillsInOrder
    <3> QED
      BY <3>1, <3>2
  <2>6. \A j \in Keys : quota'[j].refills + (IF quota'[j].due THEN 1 ELSE 0) <= intervals'[j]
    BY <1>1, <1>4, <2>1, <2>2 DEF RefillsInOrder
  <2> QED
    BY <2>3, <2>4, <2>5, <2>6 DEF RefillsInOrder
<1>5. CASE \E k \in Keys : Create(k) \/ SeedNew(k) \/ CounterLost(k)
  BY <1>5 DEF Create, SeedNew, CounterLost, RefillsInOrder, Key
<1>6. CASE Reseed
  BY <1>6 DEF Reseed, RefillsInOrder, Key
<1>7. ASSUME NEW c \in Calls,
             \/ \E t \in Tokens, mcp \in BOOLEAN : Arrives(c, t, mcp)
             \/ Decrement(c) \/ SeedRefill(c) \/ Undo(c)
             \/ DecrementFails(c) \/ UndoFails(c) \/ Crash(c) \/ ReplyLost(c)
      PROVE  RefillsInOrder'
  <2>1. UNCHANGED <<quota, intervals>>
    BY <1>7 DEF Arrives, Decrement, SeedRefill, Undo, DecrementFails, UndoFails, Crash, ReplyLost
  <2>2. CASE ReplyLost(c)
    BY <2>1, <2>2 DEF ReplyLost, RefillsInOrder, Key
  <2>3. CASE \E t \in Tokens, mcp \in BOOLEAN : Arrives(c, t, mcp)
    <3>1. call'[c].pc = "decrement" /\ \A d \in Calls \ {c} : call'[d] = call[d]
      BY <2>3 DEF Arrives, IdleCall, CallTypeOK
    <3> QED
      BY <1>2, <2>1, <3>1
  <2>4. CASE Decrement(c)
    <3>1. /\ call'[c].pc \in {"served", "decrement", "undoRefuse", "refused", "load"}
          /\ \A d \in Calls \ {c} : call'[d] = call[d]
      <4>1. CASE Passes(c, call[c].paid) \/ Passes(c, call[c].paid \cup {Key(c)})
        BY <4>1, PassTaken
      <4>2. CASE Refuse(c) \/ Becomes(c, "load")
        BY <4>2 DEF Refuse, Becomes, CallTypeOK
      <4> QED
        BY <2>4, <4>1, <4>2 DEF Decrement
    <3> QED
      BY <1>2, <2>1, <3>1
  <2>5. CASE SeedRefill(c) \/ Undo(c) \/ DecrementFails(c) \/ UndoFails(c) \/ Crash(c)
    <3>1. /\ call'[c].pc \in {"retry", "served", "refused", "undoServe", "dead"}
          /\ \A d \in Calls \ {c} : call'[d] = call[d]
      BY <2>5 DEF SeedRefill, Undo, DecrementFails, UndoFails, Crash, Becomes, FailOpen, Settled, CallTypeOK
    <3> QED
      BY <1>2, <2>1, <3>1
  <2> QED
    BY <1>7, <2>2, <2>3, <2>4, <2>5
<1>8. ASSUME NEW c \in Calls, LoadRow(c) PROVE RefillsInOrder'
  <2>1. UNCHANGED <<quota, intervals>>
    BY <1>8 DEF LoadRow
  <2>2. CASE Refuse(c)
    <3>1. call'[c].pc \in {"refused", "undoRefuse"} /\ \A d \in Calls \ {c} : call'[d] = call[d]
      BY <2>2 DEF Refuse, Becomes, CallTypeOK
    <3> QED
      BY <1>2, <2>1, <3>1
  <2>3. CASE ~Refuse(c)
    <3>1. /\ quota[Key(c)].due /\ call'[c].ver = quota[Key(c)].refills
          /\ call'[c].pc = "update" /\ Key(c)' = Key(c)
          /\ \A d \in Calls \ {c} : call'[d] = call[d]
      BY <1>8, <2>3 DEF LoadRow, CallTypeOK, Key
    <3> QED
      BY <1>0, <1>1, <2>1, <3>1 DEF RefillsInOrder, Key
  <2> QED
    BY <2>2, <2>3
<1>9. ASSUME NEW c \in Calls, UpdateRow(c) \/ RefillFails(c) PROVE RefillsInOrder'
  <2>1. UNCHANGED intervals /\ call[c].pc \in {"load", "update"}
    BY <1>9 DEF UpdateRow, RefillFails
  <2>2. CASE Refuse(c) /\ UNCHANGED quota
    <3>1. call'[c].pc \in {"refused", "undoRefuse"} /\ \A d \in Calls \ {c} : call'[d] = call[d]
      BY <2>2 DEF Refuse, Becomes, CallTypeOK
    <3> QED
      BY <1>2, <2>1, <2>2, <3>1
  <2>3. CASE ~(Refuse(c) /\ UNCHANGED quota)
    <3>1. /\ call[c].pc = "update" /\ call[c].ver = quota[Key(c)].refills /\ Refilled(Key(c))
          /\ \E pc \in {"seed", "refused", "undoRefuse"} : Becomes(c, pc)
      BY <1>9, <2>3 DEF UpdateRow, RefillFails, Refuse
    <3> QED
      BY <1>4, <2>1, <3>1
  <2> QED
    BY <2>2, <2>3
<1> QED
  BY <1>3, <1>5, <1>6, <1>7, <1>8, <1>9 DEF CounterNext, CallStep
-----------------------------------------------------------------------------
(* What one request has of a counter, as numbers.                          *)
paying(c, k) == IF k \in call[c].paid THEN 1 ELSE 0
seeding(c, k) == IF call[c].pc = "seed" /\ Key(c) = k THEN 1 ELSE 0
charging(c, k) == IF k \in call[c].paid /\ call[c].pc \notin {"refused", "dead"} THEN 1 ELSE 0

(* A set that changes in one element only.                                 *)
LEMMA OneMoves ==
  ASSUME NEW S, NEW T, NEW c, IsFiniteSet(S), S \ {c} = T \ {c}
  PROVE  /\ IsFiniteSet(T)
         /\ Cardinality(S) \in Nat /\ Cardinality(T) \in Nat
         /\ Cardinality(T) + (IF c \in S THEN 1 ELSE 0) = Cardinality(S) + (IF c \in T THEN 1 ELSE 0)
<1> DEFINE U == S \ {c}
<1>1. IsFiniteSet(U) /\ c \notin U /\ Cardinality(U) \in Nat
      /\ Cardinality(U) = IF c \in S THEN Cardinality(S) - 1 ELSE Cardinality(S)
  BY FS_RemoveElement, FS_CardinalityType
<1>2. IsFiniteSet(U \cup {c}) /\ Cardinality(U \cup {c}) = Cardinality(U) + 1
  BY <1>1, FS_AddElement
<1>3. T = U \/ T = U \cup {c}
  OBVIOUS
<1>4. c \in T <=> T # U
  BY <1>1, <1>3
<1>5. IsFiniteSet(T) /\ Cardinality(T) = IF c \in T THEN Cardinality(U) + 1 ELSE Cardinality(U)
  BY <1>1, <1>2, <1>3, <1>4
<1>6. Cardinality(S) \in Nat
  BY FS_CardinalityType
<1> HIDE DEF U
<1> QED
  BY <1>1, <1>5, <1>6

LEMMA Finite ==
  ASSUME NEW k
  PROVE  IsFiniteSet(Payers(k)) /\ IsFiniteSet(Seeders(k)) /\ IsFiniteSet(Charged(k))
         /\ Cardinality(Payers(k)) \in Nat /\ Cardinality(Seeders(k)) \in Nat /\ Cardinality(Charged(k)) \in Nat
<1>1. Payers(k) \in SUBSET Calls /\ Seeders(k) \in SUBSET Calls /\ Charged(k) \in SUBSET Calls
  BY DEF Payers, Seeders, Charged
<1>2. IsFiniteSet(Calls)
  BY CounterConstants
<1>3. IsFiniteSet(Payers(k)) /\ IsFiniteSet(Seeders(k)) /\ IsFiniteSet(Charged(k))
  BY <1>1, <1>2, FS_Subset
<1> QED
  BY <1>3, FS_CardinalityType

LEMMA Counted ==
  ASSUME NEW c \in Calls, \A d \in Calls \ {c} : call'[d] = call[d], NEW k
  PROVE  /\ Cardinality(Payers(k)') \in Nat /\ Cardinality(Seeders(k)') \in Nat
         /\ Cardinality(Charged(k)') \in Nat
         /\ Cardinality(Payers(k)') + paying(c, k) = Cardinality(Payers(k)) + paying(c, k)'
         /\ Cardinality(Seeders(k)') + seeding(c, k) = Cardinality(Seeders(k)) + seeding(c, k)'
         /\ Cardinality(Charged(k)') + charging(c, k) = Cardinality(Charged(k)) + charging(c, k)'
<1>1. /\ Payers(k) \ {c} = Payers(k)' \ {c}
      /\ Seeders(k) \ {c} = Seeders(k)' \ {c}
      /\ Charged(k) \ {c} = Charged(k)' \ {c}
  BY DEF Payers, Seeders, Charged, Key
<1>2. /\ Cardinality(Payers(k)') \in Nat
      /\ Cardinality(Payers(k)') + (IF c \in Payers(k) THEN 1 ELSE 0) =
           Cardinality(Payers(k)) + (IF c \in Payers(k)' THEN 1 ELSE 0)
  BY <1>1, Finite, OneMoves
<1>3. /\ Cardinality(Seeders(k)') \in Nat
      /\ Cardinality(Seeders(k)') + (IF c \in Seeders(k) THEN 1 ELSE 0) =
           Cardinality(Seeders(k)) + (IF c \in Seeders(k)' THEN 1 ELSE 0)
  BY <1>1, Finite, OneMoves
<1>4. /\ Cardinality(Charged(k)') \in Nat
      /\ Cardinality(Charged(k)') + (IF c \in Charged(k) THEN 1 ELSE 0) =
           Cardinality(Charged(k)) + (IF c \in Charged(k)' THEN 1 ELSE 0)
  BY <1>1, Finite, OneMoves
<1>5. /\ c \in Payers(k) <=> k \in call[c].paid
      /\ c \in Payers(k)' <=> k \in call'[c].paid
      /\ c \in Seeders(k) <=> call[c].pc = "seed" /\ Key(c) = k
      /\ c \in Seeders(k)' <=> call'[c].pc = "seed" /\ Key(c)' = k
      /\ c \in Charged(k) <=> k \in call[c].paid /\ call[c].pc \notin {"refused", "dead"}
      /\ c \in Charged(k)' <=> k \in call'[c].paid /\ call'[c].pc \notin {"refused", "dead"}
  BY DEF Payers, Seeders, Charged
<1> QED
  BY <1>2, <1>3, <1>4, <1>5 DEF paying, seeding, charging

(* The sums that follow, with a refill amount of a.                        *)
LEMMA SumsLinear ==
  \A P, P2, U, U2, S, S2, B, B2, I, R, r, E, E2, p, p2, s, s2 \in Int :
    /\ P2 + p = P + p2 /\ S2 + s = S + s2
    /\ P + U + S + B <= I + R + E
    /\ p2 + U2 + s2 + B2 + E <= p + U + s + B + r + E2
    => P2 + U2 + S2 + B2 <= I + (R + r) + E2
OBVIOUS

LEMMA SumsKept ==
  ASSUME NEW a \in Nat, NEW P \in Nat, NEW P2 \in Nat, NEW U \in Nat, NEW U2 \in Nat,
         NEW S \in Nat, NEW S2 \in Nat, NEW B \in Nat, NEW B2 \in Nat, NEW I \in Nat,
         NEW R \in Nat, NEW r \in Nat, NEW E \in Nat, NEW E2 \in Nat,
         NEW p \in Nat, NEW p2 \in Nat, NEW s \in Nat, NEW s2 \in Nat,
         P2 + p = P + p2, S2 + s = S + s2, P + U + a * S + B <= I + a * R + E,
         p2 + U2 + a * s2 + B2 + E <= p + U + a * s + B + a * r + E2
  PROVE  P2 + U2 + a * S2 + B2 <= I + a * (R + r) + E2
<1>1. a * (S2 + s) = a * S2 + a * s /\ a * (S + s2) = a * S + a * s2 /\ a * (R + r) = a * R + a * r
  OBVIOUS
<1>2. a * S2 \in Nat /\ a * s \in Nat /\ a * S \in Nat /\ a * s2 \in Nat /\ a * R \in Nat /\ a * r \in Nat
  OBVIOUS
<1>3. a * S2 + a * s = a * S + a * s2
  BY <1>1
<1>4. P2 + U2 + a * S2 + B2 <= I + (a * R + a * r) + E2
  BY <1>2, <1>3, SumsLinear
<1> QED
  BY <1>1, <1>4

(* A step of one request keeps the balance of a counter when what the      *)
(* request and Redis have of it grows by no more than the row and the      *)
(* repeated commands account for, and shrinks only by a failure.           *)
StepOn(c, k) ==
  /\ quota'[k].refills \in Nat /\ quota[k].refills <= quota'[k].refills
  /\ paying(c, k)' + Units(k)' + Amount[k] * seeding(c, k)' + extra[k]
       <= paying(c, k) + Units(k) + Amount[k] * seeding(c, k)
            + Amount[k] * (quota'[k].refills - quota[k].refills) + extra'[k]
  /\ counter[k] # Missing => counter'[k] # Missing
  /\ k \notin lost /\ quota'[k].refills = 0 /\ counter[k] # Missing =>
       Units(k)' + charging(c, k)' + failures' >= Units(k) + charging(c, k) + failures

LEMMA UnitsAreNatural ==
  ASSUME RestTypeOK, NEW k \in Keys
  PROVE  Units(k) \in Nat /\ Unborn(k) \in Nat /\ (counter[k] # Missing => Units(k) = counter[k])
BY CounterConstants DEF RestTypeOK, Units, Unborn, Missing

LEMMA StepKeeps ==
  ASSUME RestTypeOK, RestTypeOK', NEW c \in Calls, \A d \in Calls \ {c} : call'[d] = call[d],
         UNCHANGED <<stage, lost>>, NEW k \in Keys, StepOn(c, k), Balanced(k), Conserved(k)
  PROVE  Balanced(k)' /\ Conserved(k)'
<1>1. /\ Units(k) \in Nat /\ Units(k)' \in Nat /\ Unborn(k) \in Nat /\ Unborn(k)' = Unborn(k)
      /\ counter[k] # Missing => Units(k) = counter[k]
      /\ counter'[k] # Missing => Units(k)' = counter'[k]
  <2>1. Units(k) \in Nat /\ Unborn(k) \in Nat /\ (counter[k] # Missing => Units(k) = counter[k])
    BY UnitsAreNatural
  <2>2. Units(k)' \in Nat /\ (counter'[k] # Missing => Units(k)' = counter'[k])
    BY DEF RestTypeOK, Units, Missing
  <2> QED
    BY <2>1, <2>2 DEF Unborn
<1>2. /\ Initial[k] \in Nat /\ Amount[k] \in Nat /\ extra[k] \in Nat /\ extra'[k] \in Nat
      /\ failures \in Nat /\ failures' \in Nat
      /\ quota[k].refills \in Nat /\ quota'[k].refills \in Nat
      /\ quota'[k].refills - quota[k].refills \in Nat
  BY CounterConstants DEF RestTypeOK, StepOn
<1>3. /\ paying(c, k) \in {0, 1} /\ paying(c, k)' \in {0, 1}
      /\ seeding(c, k) \in {0, 1} /\ seeding(c, k)' \in {0, 1}
      /\ charging(c, k) \in {0, 1} /\ charging(c, k)' \in {0, 1}
  BY DEF paying, seeding, charging
<1>4. /\ Cardinality(Payers(k)) \in Nat /\ Cardinality(Seeders(k)) \in Nat /\ Cardinality(Charged(k)) \in Nat
      /\ Cardinality(Payers(k)') \in Nat /\ Cardinality(Seeders(k)') \in Nat
      /\ Cardinality(Charged(k)') \in Nat
      /\ Cardinality(Payers(k)') + paying(c, k) = Cardinality(Payers(k)) + paying(c, k)'
      /\ Cardinality(Seeders(k)') + seeding(c, k) = Cardinality(Seeders(k)) + seeding(c, k)'
      /\ Cardinality(Charged(k)') + charging(c, k) = Cardinality(Charged(k)) + charging(c, k)'
  BY Finite, Counted
<1>5. Balanced(k)'
  <2> DEFINE r == quota'[k].refills - quota[k].refills
             P == Cardinality(Payers(k))
             P2 == Cardinality(Payers(k)')
             S == Cardinality(Seeders(k))
             S2 == Cardinality(Seeders(k)')
             p == paying(c, k)
             p2 == paying(c, k)'
             s == seeding(c, k)
             s2 == seeding(c, k)'
             U2 == Units(k)'
  <2>1. p2 + U2 + Amount[k] * s2 + extra[k] <= p + Units(k) + Amount[k] * s + Amount[k] * r + extra'[k]
    BY DEF StepOn
  <2>2. P + Units(k) + Amount[k] * S + Unborn(k) <= Initial[k] + Amount[k] * quota[k].refills + extra[k]
    BY DEF Balanced
  <2>3. /\ P \in Nat /\ P2 \in Nat /\ S \in Nat /\ S2 \in Nat /\ r \in Nat /\ U2 \in Nat
        /\ p \in Nat /\ p2 \in Nat /\ s \in Nat /\ s2 \in Nat
        /\ P2 + p = P + p2 /\ S2 + s = S + s2
    BY <1>1, <1>2, <1>3, <1>4
  <2>4. quota[k].refills + r = quota'[k].refills
    BY <1>2
  <2> HIDE DEF r, P, P2, S, S2, p, p2, s, s2, U2
  <2>5. p2 + U2 + Amount[k] * s2 + Unborn(k) + extra[k]
          <= p + Units(k) + Amount[k] * s + Unborn(k) + Amount[k] * r + extra'[k]
    <3>1. Amount[k] * s2 \in Nat /\ Amount[k] * s \in Nat /\ Amount[k] * r \in Nat
      BY <1>2, <2>3
    <3> QED
      BY <1>1, <1>2, <2>1, <2>3, <3>1
  <2>6. P2 + U2 + Amount[k] * S2 + Unborn(k) <= Initial[k] + Amount[k] * (quota[k].refills + r) + extra'[k]
    BY <1>1, <1>2, <2>2, <2>3, <2>5, SumsKept
  <2> QED
    BY <1>1, <2>4, <2>6 DEF Balanced, P2, U2, S2
<1>6. Conserved(k)'
  <2>1. SUFFICES ASSUME k \notin lost, stage[k] = "live"
                 PROVE  /\ counter'[k] # Missing
                        /\ quota'[k].refills = 0 =>
                             counter'[k] + Cardinality(Charged(k)') + failures' >= Initial[k]
    BY DEF Conserved
  <2>2. counter[k] # Missing /\ counter'[k] # Missing
    BY <2>1 DEF Conserved, StepOn
  <2>3. ASSUME quota'[k].refills = 0
        PROVE  counter'[k] + Cardinality(Charged(k)') + failures' >= Initial[k]
    <3>1. quota[k].refills = 0
      BY <1>2, <2>3
    <3>2. counter[k] + Cardinality(Charged(k)) + failures >= Initial[k]
      BY <2>1, <3>1 DEF Conserved
    <3>3. Units(k)' + charging(c, k)' + failures' >= Units(k) + charging(c, k) + failures
      BY <2>1, <2>2, <2>3 DEF StepOn
    <3> DEFINE h == charging(c, k)
               h2 == charging(c, k)'
               C == Cardinality(Charged(k))
               C2 == Cardinality(Charged(k)')
               u2 == Units(k)'
    <3>4. /\ h \in Nat /\ h2 \in Nat /\ C \in Nat /\ C2 \in Nat /\ C2 + h = C + h2
          /\ Units(k) + C + failures >= Initial[k] /\ u2 + h2 + failures' >= Units(k) + h + failures
          /\ u2 = counter'[k]
      BY <1>1, <1>3, <1>4, <2>2, <3>2, <3>3
    <3>5. u2 \in Nat
      BY <1>1
    <3> HIDE DEF h, h2, C, C2, u2
    <3>6. u2 + C2 + failures' >= Initial[k]
      BY <1>1, <1>2, <3>4, <3>5
    <3> QED
      BY <3>4, <3>6 DEF C2
  <2> QED
    BY <2>2, <2>3
<1> QED
  BY <1>5, <1>6

\* A step of c that leaves every counter with what it had
Still(c) ==
  /\ \A d \in Calls \ {c} : call'[d] = call[d]
  /\ UNCHANGED <<stage, lost>>

LEMMA Facts ==
  ASSUME RestTypeOK, RestTypeOK', CallTypeOK, NEW c \in Calls, NEW k \in Keys
  PROVE  /\ Key(c) \in Keys /\ call[c].tok \in Keys
         /\ counter[k] \in Nat \cup {Missing} /\ Units(k) \in Nat /\ (counter[k] # Missing => Units(k) = counter[k])
         /\ counter'[k] \in Nat \cup {Missing} /\ Units(k)' \in Nat
         /\ (counter'[k] # Missing => Units(k)' = counter'[k])
         /\ quota[k].refills \in Nat /\ quota'[k].refills \in Nat
         /\ extra[k] \in Nat /\ extra'[k] \in Nat /\ failures \in Nat /\ failures' \in Nat
         /\ Amount[k] \in Nat /\ Amount[k] * 0 = 0 /\ Amount[k] * 1 = Amount[k]
<1>1. Units(k) \in Nat /\ (counter[k] # Missing => Units(k) = counter[k])
  BY UnitsAreNatural
<1>2. Units(k)' \in Nat /\ (counter'[k] # Missing => Units(k)' = counter'[k])
  BY DEF RestTypeOK, Units, Missing
<1> QED
  BY <1>1, <1>2, CounterConstants DEF RestTypeOK, CallTypeOK, Key

(* What a verdict leaves the request with: a unit of its token if it is to *)
(* be undone, and none if it was refused.                                  *)
LEMMA VerdictIsFree ==
  ASSUME CallTypeOK, CallsInOrder, NEW c \in Calls, call[c].pc \in Running \ (Undoing \cup {"seed"}),
         Refuse(c) \/ FailOpen(c), NEW k \in Keys
  PROVE  /\ \A d \in Calls \ {c} : call'[d] = call[d]
         /\ paying(c, k)' = paying(c, k) /\ charging(c, k)' = charging(c, k)
         /\ seeding(c, k) = 0 /\ seeding(c, k)' = 0
<1>1. PICK pc \in {"undoRefuse", "refused", "undoServe", "served"} :
        Becomes(c, pc) /\ (pc = "refused" => ~HoldsToken(c))
  BY DEF Refuse, FailOpen
<1>2. /\ call'[c].pc = pc /\ call'[c].paid = call[c].paid /\ Key(c)' = Key(c)
      /\ \A d \in Calls \ {c} : call'[d] = call[d]
  BY <1>1 DEF Becomes, CallTypeOK, Key
<1>3. pc = "refused" => k \notin call[c].paid
  BY <1>1 DEF CallTypeOK, CallsInOrder, HoldsToken, Running, Undoing
<1> QED
  BY <1>2, <1>3 DEF paying, charging, seeding, Running, Undoing

(* Nothing but the request's pc changes, and no unit goes anywhere.        *)
LEMMA NothingMoves ==
  ASSUME RestTypeOK, RestTypeOK', CallTypeOK, NEW c \in Calls, NEW k \in Keys,
         paying(c, k)' = paying(c, k), seeding(c, k) = 0, seeding(c, k)' = 0,
         charging(c, k)' + failures' >= charging(c, k) + failures,
         counter'[k] = counter[k], extra'[k] = extra[k], quota[k].refills <= quota'[k].refills
  PROVE  StepOn(c, k)
<1>1. Units(k)' = Units(k)
  BY DEF Units
<1>2. paying(c, k) \in Nat /\ charging(c, k) \in Nat /\ charging(c, k)' \in Nat
  BY DEF paying, charging
<1>3. Amount[k] * (quota'[k].refills - quota[k].refills) \in Nat
  <2>1. quota'[k].refills - quota[k].refills \in Nat /\ Amount[k] \in Nat
    BY Facts
  <2> QED
    BY <2>1
<1>4. paying(c, k)' + Units(k)' + Amount[k] * seeding(c, k)' + extra[k]
       <= paying(c, k) + Units(k) + Amount[k] * seeding(c, k)
            + Amount[k] * (quota'[k].refills - quota[k].refills) + extra'[k]
  <2> DEFINE m == Amount[k] * (quota'[k].refills - quota[k].refills)
             z == Amount[k] * 0
  <2>1. z = 0 /\ m \in Nat /\ Units(k) \in Nat /\ extra[k] \in Nat
    BY <1>3, Facts
  <2> HIDE DEF m, z
  <2>2. paying(c, k) + Units(k) + z + extra[k] <= paying(c, k) + Units(k) + z + m + extra[k]
    BY <1>2, <2>1
  <2> QED
    BY <1>1, <2>2 DEF m, z
<1>5. Units(k)' + charging(c, k)' + failures' >= Units(k) + charging(c, k) + failures
  BY <1>1, <1>2, Facts
<1> QED
  BY <1>4, <1>5, Facts DEF StepOn

(* The row stays as it is; seeding with the whole amount is the only other *)
(* way to move more than one unit.                                         *)
LEMMA UnitsMove ==
  ASSUME RestTypeOK, RestTypeOK', CallTypeOK, NEW c \in Calls, NEW k \in Keys,
         quota'[k].refills = quota[k].refills, seeding(c, k)' = 0,
         paying(c, k)' + Units(k)' + extra[k]
           <= paying(c, k) + Units(k) + (IF seeding(c, k) = 1 THEN Amount[k] ELSE 0) + extra'[k],
         counter[k] # Missing => counter'[k] # Missing,
         k \notin lost /\ quota'[k].refills = 0 /\ counter[k] # Missing =>
           Units(k)' + charging(c, k)' + failures' >= Units(k) + charging(c, k) + failures
  PROVE  StepOn(c, k)
<1>1. quota'[k].refills - quota[k].refills = 0
  BY Facts
<1>2. Amount[k] * seeding(c, k) = IF seeding(c, k) = 1 THEN Amount[k] ELSE 0
  BY Facts DEF seeding
<1>3. Amount[k] * seeding(c, k)' = 0 /\ Amount[k] * (quota'[k].refills - quota[k].refills) = 0
  BY <1>1, Facts
<1>4. paying(c, k)' + Units(k)' + Amount[k] * seeding(c, k)' + extra[k]
       <= paying(c, k) + Units(k) + Amount[k] * seeding(c, k)
            + Amount[k] * (quota'[k].refills - quota[k].refills) + extra'[k]
  <2>1. paying(c, k) \in Nat /\ paying(c, k)' \in Nat
    BY DEF paying
  <2> DEFINE w == Amount[k] * seeding(c, k)
             w2 == Amount[k] * seeding(c, k)'
             m == Amount[k] * (quota'[k].refills - quota[k].refills)
             e == IF seeding(c, k) = 1 THEN Amount[k] ELSE 0
  <2>2. w = e /\ w2 = 0 /\ m = 0 /\ e \in Nat
    BY <1>2, <1>3, Facts
  <2>3. paying(c, k)' + Units(k)' + extra[k] <= paying(c, k) + Units(k) + e + extra'[k]
    OBVIOUS
  <2> HIDE DEF w, w2, m, e
  <2>4. paying(c, k)' + Units(k)' + w2 + extra[k] <= paying(c, k) + Units(k) + w + m + extra'[k]
    BY <2>1, <2>2, <2>3, Facts
  <2> QED
    BY <2>4 DEF w, w2, m
<1> QED
  BY <1>4, Facts DEF StepOn

LEMMA CallSteps ==
  ASSUME RestTypeOK, RestTypeOK', CallTypeOK, CallsInOrder, RefillsInOrder, NEW c \in Calls,
         \/ \E t \in Tokens, mcp \in BOOLEAN : Arrives(c, t, mcp)
         \/ CallStep(c)
         \/ DecrementFails(c) \/ RefillFails(c) \/ UndoFails(c) \/ ReplyLost(c) \/ Crash(c),
         NEW k \in Keys
  PROVE  Still(c) /\ StepOn(c, k)
<1>1. UNCHANGED <<stage, lost>>
  BY DEF Arrives, CallStep, Decrement, LoadRow, UpdateRow, SeedRefill, Undo,
         DecrementFails, RefillFails, UndoFails, ReplyLost, Crash
<1>2. SUFFICES (\A d \in Calls \ {c} : call'[d] = call[d]) /\ StepOn(c, k)
  BY <1>1 DEF Still
<1>3. ASSUME NEW t \in Tokens, NEW mcp \in BOOLEAN, Arrives(c, t, mcp)
      PROVE  (\A d \in Calls \ {c} : call'[d] = call[d]) /\ StepOn(c, k)
  <2>1. /\ call'[c].pc = "decrement" /\ call'[c].paid = {} /\ call[c].pc = "idle" /\ call[c].paid = {}
        /\ \A d \in Calls \ {c} : call'[d] = call[d]
    BY <1>3 DEF Arrives, IdleCall, CallTypeOK, CallsInOrder
  <2>2. UNCHANGED <<counter, quota, extra, failures>>
    BY <1>3 DEF Arrives, Succeeds
  <2>3. paying(c, k) = 0 /\ paying(c, k)' = 0 /\ seeding(c, k) = 0 /\ seeding(c, k)' = 0
        /\ charging(c, k) = 0 /\ charging(c, k)' = 0
    BY <2>1 DEF paying, seeding, charging
  <2> QED
    BY <2>1, <2>2, <2>3, NothingMoves, Facts
<1>4. ASSUME Decrement(c)
      PROVE  (\A d \in Calls \ {c} : call'[d] = call[d]) /\ StepOn(c, k)
  <2>1. UNCHANGED <<quota, extra, failures>> /\ call[c].pc \in {"decrement", "retry"}
        /\ Key(c) \notin call[c].paid
    BY <1>4 DEF Decrement, Succeeds, CallsInOrder, Running
  <2>2. seeding(c, k) = 0
    BY <2>1 DEF seeding
  <2>3. CASE counter[Key(c)] > 0 /\ Set(Key(c), counter[Key(c)] - 1) /\ Passes(c, call[c].paid \cup {Key(c)})
    <3>1. /\ call'[c].pc \in {"served", "decrement"} /\ call'[c].paid = call[c].paid \cup {Key(c)}
          /\ \A d \in Calls \ {c} : call'[d] = call[d]
      BY <2>3, PassTaken
    <3>2. seeding(c, k)' = 0
      BY <3>1 DEF seeding
    <3>3. CASE k = Key(c)
      <4>1. counter'[k] = counter[k] - 1 /\ counter[k] > 0
        BY <2>3, <3>3 DEF Set, RestTypeOK
      <4>2. Units(k)' = Units(k) - 1 /\ counter'[k] # Missing
        BY <4>1, Facts DEF Missing
      <4>3. paying(c, k) = 0 /\ paying(c, k)' = 1 /\ charging(c, k) = 0 /\ charging(c, k)' = 1
        BY <2>1, <3>1, <3>3 DEF paying, charging
      <4> QED
        BY <2>1, <2>2, <3>1, <3>2, <4>2, <4>3, UnitsMove, Facts
    <3>4. CASE k # Key(c)
      <4>1. counter'[k] = counter[k]
        BY <2>3, <3>4 DEF Set, RestTypeOK
      <4>2. paying(c, k)' = paying(c, k) /\ charging(c, k)' = charging(c, k)
        BY <2>1, <3>1, <3>4 DEF paying, charging
      <4>3. charging(c, k) \in Nat
        BY DEF charging
      <4> QED
        BY <2>1, <2>2, <3>1, <3>2, <4>1, <4>2, <4>3, NothingMoves, Facts
    <3> QED
      BY <3>3, <3>4
  <2>4. CASE UNCHANGED counter /\ Passes(c, call[c].paid)
    <3>1. /\ call'[c].pc \in {"served", "decrement"} /\ call'[c].paid = call[c].paid
          /\ \A d \in Calls \ {c} : call'[d] = call[d]
      BY <2>4, PassTaken
    <3>2. seeding(c, k)' = 0 /\ paying(c, k)' = paying(c, k) /\ charging(c, k)' = charging(c, k)
          /\ charging(c, k) \in Nat
      BY <2>1, <3>1 DEF seeding, paying, charging
    <3> QED
      BY <2>1, <2>2, <2>4, <3>1, <3>2, NothingMoves, Facts
  <2>5. CASE UNCHANGED counter /\ Refuse(c)
    <3>1. /\ \A d \in Calls \ {c} : call'[d] = call[d]
          /\ paying(c, k)' = paying(c, k) /\ charging(c, k)' = charging(c, k) /\ seeding(c, k)' = 0
      BY <2>1, <2>5, VerdictIsFree DEF Running, Undoing
    <3>2. charging(c, k) \in Nat
      BY DEF charging
    <3> QED
      BY <2>1, <2>2, <2>5, <3>1, <3>2, NothingMoves, Facts
  <2>6. CASE UNCHANGED counter /\ Becomes(c, "load")
    <3>1. /\ call'[c].pc = "load" /\ call'[c].paid = call[c].paid
          /\ \A d \in Calls \ {c} : call'[d] = call[d]
      BY <2>6 DEF Becomes, CallTypeOK
    <3>2. seeding(c, k)' = 0 /\ paying(c, k)' = paying(c, k) /\ charging(c, k)' = charging(c, k)
          /\ charging(c, k) \in Nat
      BY <2>1, <3>1 DEF seeding, paying, charging
    <3> QED
      BY <2>1, <2>2, <2>6, <3>1, <3>2, NothingMoves, Facts
  <2> QED
    BY <1>4, <2>3, <2>4, <2>5, <2>6 DEF Decrement
<1>5. ASSUME DecrementFails(c)
      PROVE  (\A d \in Calls \ {c} : call'[d] = call[d]) /\ StepOn(c, k)
  <2>1. UNCHANGED <<quota, extra>> /\ failures' = failures + 1 /\ call[c].pc \in {"decrement", "retry"}
        /\ FailOpen(c)
    BY <1>5 DEF DecrementFails, Fails
  <2>2. /\ \A d \in Calls \ {c} : call'[d] = call[d]
        /\ paying(c, k)' = paying(c, k) /\ charging(c, k)' = charging(c, k)
        /\ seeding(c, k) = 0 /\ seeding(c, k)' = 0
    BY <2>1, VerdictIsFree DEF Running, Undoing
  <2>3. charging(c, k) \in Nat /\ paying(c, k) \in Nat
    BY DEF charging, paying
  <2>4. CASE counter'[k] = counter[k]
    BY <2>1, <2>2, <2>3, <2>4, NothingMoves, Facts
  <2>5. CASE counter'[k] # counter[k]
    <3>1. counter[k] > 0 /\ counter'[k] = counter[k] - 1
      BY <1>5, <2>5 DEF DecrementFails, Set, RestTypeOK
    <3>2. Units(k)' = Units(k) - 1 /\ counter'[k] # Missing
      BY <3>1, Facts DEF Missing
    <3> QED
      BY <2>1, <2>2, <2>3, <3>2, UnitsMove, Facts
  <2> QED
    BY <2>2, <2>4, <2>5
<1>6. ASSUME LoadRow(c)
      PROVE  (\A d \in Calls \ {c} : call'[d] = call[d]) /\ StepOn(c, k)
  <2>1. UNCHANGED <<counter, quota, extra, failures>> /\ call[c].pc = "load"
    BY <1>6 DEF LoadRow, Succeeds
  <2>2. charging(c, k) \in Nat /\ seeding(c, k) = 0
    BY <2>1 DEF charging, seeding
  <2>3. CASE Refuse(c)
    <3>1. /\ \A d \in Calls \ {c} : call'[d] = call[d]
          /\ paying(c, k)' = paying(c, k) /\ charging(c, k)' = charging(c, k) /\ seeding(c, k)' = 0
      BY <2>1, <2>3, VerdictIsFree DEF Running, Undoing
    <3> QED
      BY <2>1, <2>2, <3>1, NothingMoves, Facts
  <2>4. CASE call' = [call EXCEPT ![c].pc = "update", ![c].ver = quota[Key(c)].refills]
    <3>1. /\ call'[c].pc = "update" /\ call'[c].paid = call[c].paid
          /\ \A d \in Calls \ {c} : call'[d] = call[d]
      BY <2>4 DEF CallTypeOK
    <3>2. seeding(c, k)' = 0 /\ paying(c, k)' = paying(c, k) /\ charging(c, k)' = charging(c, k)
      BY <2>1, <3>1 DEF seeding, paying, charging
    <3> QED
      BY <2>1, <2>2, <3>1, <3>2, NothingMoves, Facts
  <2> QED
    BY <1>6, <2>3, <2>4 DEF LoadRow
<1>7. ASSUME RefillFails(c)
      PROVE  (\A d \in Calls \ {c} : call'[d] = call[d]) /\ StepOn(c, k)
  <2>1. UNCHANGED <<counter, extra>> /\ failures' = failures + 1 /\ call[c].pc \in {"load", "update"} /\ Refuse(c)
    BY <1>7 DEF RefillFails, Fails
  <2>2. /\ \A d \in Calls \ {c} : call'[d] = call[d]
        /\ paying(c, k)' = paying(c, k) /\ charging(c, k)' = charging(c, k)
        /\ seeding(c, k) = 0 /\ seeding(c, k)' = 0
    BY <2>1, VerdictIsFree DEF Running, Undoing
  <2>3. quota[k].refills <= quota'[k].refills
    <3>1. CASE UNCHANGED quota
      BY <3>1, Facts
    <3>2. CASE Refilled(Key(c))
      BY <3>2, RowWritten, Facts
    <3> QED
      BY <1>7, <3>1, <3>2 DEF RefillFails
  <2>4. charging(c, k) \in Nat
    BY DEF charging
  <2> QED
    BY <2>1, <2>2, <2>3, <2>4, NothingMoves, Facts
<1>8. ASSUME UpdateRow(c)
      PROVE  (\A d \in Calls \ {c} : call'[d] = call[d]) /\ StepOn(c, k)
  <2>1. UNCHANGED <<counter, extra, failures>> /\ call[c].pc = "update"
    BY <1>8 DEF UpdateRow, Succeeds
  <2>2. charging(c, k) \in Nat /\ seeding(c, k) = 0
    BY <2>1 DEF charging, seeding
  <2>3. CASE Refuse(c) /\ UNCHANGED quota
    <3>1. /\ \A d \in Calls \ {c} : call'[d] = call[d]
          /\ paying(c, k)' = paying(c, k) /\ charging(c, k)' = charging(c, k) /\ seeding(c, k)' = 0
      BY <2>1, <2>3, VerdictIsFree DEF Running, Undoing
    <3> QED
      BY <2>1, <2>2, <2>3, <3>1, NothingMoves, Facts
  <2>4. CASE Refilled(Key(c)) /\ Becomes(c, "seed")
    <3>1. /\ call'[c].pc = "seed" /\ call'[c].paid = call[c].paid /\ Key(c)' = Key(c)
          /\ \A d \in Calls \ {c} : call'[d] = call[d]
      BY <2>4 DEF Becomes, CallTypeOK, Key
    <3>2. paying(c, k)' = paying(c, k) /\ charging(c, k)' = charging(c, k)
      BY <2>1, <3>1 DEF paying, charging
    <3>3. CASE k # Key(c)
      <4>1. seeding(c, k)' = 0
        BY <3>1, <3>3 DEF seeding
      <4>2. quota'[k] = quota[k]
        BY <2>4, <3>3, RowWritten, Facts
      <4> QED
        BY <2>1, <2>2, <3>1, <3>2, <4>1, <4>2, NothingMoves, Facts
    <3>4. CASE k = Key(c)
      <4>1. seeding(c, k)' = 1
        BY <3>1, <3>4 DEF seeding
      <4>2. quota'[k].refills = quota[k].refills + 1
        BY <2>4, <3>4, RowWritten
      <4>3. quota'[k].refills - quota[k].refills = 1
        BY <4>2, Facts
      <4>4. Units(k)' = Units(k)
        BY <2>1 DEF Units
      <4>5. paying(c, k) \in Nat
        BY DEF paying
      <4>6. paying(c, k)' + Units(k)' + Amount[k] * seeding(c, k)' + extra[k]
              <= paying(c, k) + Units(k) + Amount[k] * seeding(c, k)
                   + Amount[k] * (quota'[k].refills - quota[k].refills) + extra'[k]
        <5>1. Amount[k] * seeding(c, k)' = Amount[k] /\ Amount[k] * seeding(c, k) = 0
              /\ Amount[k] * (quota'[k].refills - quota[k].refills) = Amount[k]
          BY <2>2, <4>1, <4>3, Facts
        <5>2. paying(c, k) + Units(k) + Amount[k] + extra[k]
                <= paying(c, k) + Units(k) + 0 + Amount[k] + extra[k]
          BY <4>5, Facts
        <5> QED
          BY <2>1, <3>2, <4>4, <5>1, <5>2
      <4>7. quota'[k].refills # 0
        BY <4>2, Facts
      <4> QED
        BY <2>1, <3>1, <4>2, <4>6, <4>7, Facts DEF StepOn
    <3> QED
      BY <3>3, <3>4
  <2> QED
    BY <1>8, <2>3, <2>4 DEF UpdateRow
<1>9. ASSUME SeedRefill(c)
      PROVE  (\A d \in Calls \ {c} : call'[d] = call[d]) /\ StepOn(c, k)
  <2>1. UNCHANGED <<quota, extra>> /\ failures' >= failures /\ call[c].pc = "seed" /\ Becomes(c, "retry")
    BY <1>9, Facts DEF SeedRefill, Succeeds, Fails
  <2>2. /\ call'[c].pc = "retry" /\ call'[c].paid = call[c].paid
        /\ \A d \in Calls \ {c} : call'[d] = call[d]
    BY <2>1 DEF Becomes, CallTypeOK
  <2>3. paying(c, k)' = paying(c, k) /\ charging(c, k)' = charging(c, k) /\ seeding(c, k)' = 0
        /\ paying(c, k) \in Nat /\ charging(c, k) \in Nat
    BY <2>1, <2>2 DEF paying, charging, seeding
  <2>4. CASE k # Key(c)
    <3>1. counter'[k] = counter[k] /\ seeding(c, k) = 0
      BY <1>9, <2>4 DEF SeedRefill, Set, RestTypeOK, seeding
    <3> QED
      BY <2>1, <2>2, <2>3, <3>1, NothingMoves, Facts
  <2>5. CASE k = Key(c)
    <3>1. seeding(c, k) = 1 /\ quota[k].refills > 0
      BY <2>1, <2>5 DEF seeding, RefillsInOrder
    <3>2. counter'[k] = counter[k] \/ counter'[k] = Amount[k]
      BY <1>9, <2>5 DEF SeedRefill, Set, RestTypeOK
    <3>3. counter[k] # Missing => counter'[k] # Missing
      BY <3>2, Facts DEF Missing
    <3>4. Units(k)' <= Units(k) + Amount[k]
      <4>1. CASE counter'[k] = counter[k]
        <5>1. Units(k)' = Units(k)
          BY <4>1 DEF Units
        <5> QED
          BY <5>1, Facts
      <4>2. CASE counter'[k] = Amount[k]
        BY <4>2, Facts DEF Missing
      <4> QED
        BY <3>2, <4>1, <4>2
    <3> QED
      BY <2>1, <2>2, <2>3, <3>1, <3>3, <3>4, UnitsMove, Facts
  <2> QED
    BY <2>4, <2>5
<1>10. ASSUME Undo(c)
      PROVE  (\A d \in Calls \ {c} : call'[d] = call[d]) /\ StepOn(c, k)
  <2> DEFINE t == call[c].tok
  <2>0. UNCHANGED <<quota, extra, failures>>
    BY <1>10 DEF Undo, Succeeds
  <2>1. call[c].pc \in Undoing /\ Set(t, Units(t) + 1)
        /\ call' = [call EXCEPT ![c].pc = Settled(@), ![c].paid = @ \ {t}]
    BY <1>10 DEF Undo, Undoing
  <2>2. t \in call[c].paid /\ call[c].paid \subseteq {t} /\ t \in Keys
    BY <2>1 DEF CallTypeOK, CallsInOrder, HoldsToken, Undoing, Running
  <2> HIDE DEF t
  <2>3. /\ call'[c].pc \in {"served", "refused"} /\ call'[c].paid = {}
        /\ \A d \in Calls \ {c} : call'[d] = call[d]
    BY <2>1, <2>2 DEF CallTypeOK, Settled
  <2>4. paying(c, k)' = 0 /\ charging(c, k)' = 0 /\ seeding(c, k) = 0 /\ seeding(c, k)' = 0
    BY <2>1, <2>3 DEF paying, charging, seeding, Undoing
  <2>5. CASE k = t
    <3>1. counter'[k] = Units(k) + 1
      BY <2>1, <2>2, <2>5 DEF Set, RestTypeOK
    <3>2. Units(k)' = Units(k) + 1 /\ counter'[k] # Missing
      BY <3>1, Facts DEF Missing
    <3>3. paying(c, k) = 1 /\ charging(c, k) = 1
      BY <2>1, <2>2, <2>5 DEF paying, charging, Undoing
    <3> QED
      BY <2>0, <2>3, <2>4, <3>2, <3>3, UnitsMove, Facts
  <2>6. CASE k # t
    <3>1. counter'[k] = counter[k]
      BY <2>1, <2>6 DEF Set, RestTypeOK
    <3>2. paying(c, k) = 0 /\ charging(c, k) = 0
      BY <2>2, <2>6 DEF paying, charging
    <3> QED
      BY <2>0, <2>3, <2>4, <3>1, <3>2, NothingMoves, Facts
  <2> QED
    BY <2>5, <2>6
<1>11. ASSUME UndoFails(c) \/ Crash(c)
      PROVE  (\A d \in Calls \ {c} : call'[d] = call[d]) /\ StepOn(c, k)
  <2>1. UNCHANGED <<counter, quota, extra>> /\ failures' = failures + 1
        /\ \E pc \in {"served", "refused", "dead"} : Becomes(c, pc)
    BY <1>11 DEF UndoFails, Crash, Fails, Settled
  <2>2. /\ call'[c].pc \in {"served", "refused", "dead"} /\ call'[c].paid = call[c].paid
        /\ \A d \in Calls \ {c} : call'[d] = call[d]
    BY <2>1 DEF Becomes, CallTypeOK
  <2>3. paying(c, k)' = paying(c, k) /\ charging(c, k)' \in {0, 1} /\ charging(c, k) \in {0, 1}
        /\ seeding(c, k)' = 0 /\ paying(c, k) \in Nat /\ Units(k)' = Units(k)
    BY <2>1, <2>2 DEF paying, charging, seeding, Units
  <2>4. paying(c, k)' + Units(k)' + extra[k]
          <= paying(c, k) + Units(k) + (IF seeding(c, k) = 1 THEN Amount[k] ELSE 0) + extra'[k]
    <3>1. (IF seeding(c, k) = 1 THEN Amount[k] ELSE 0) \in Nat
      BY Facts
    <3> DEFINE e == IF seeding(c, k) = 1 THEN Amount[k] ELSE 0
    <3>2. e \in Nat
      BY <3>1
    <3> HIDE DEF e
    <3>3. paying(c, k) + Units(k) + extra[k] <= paying(c, k) + Units(k) + e + extra[k]
      BY <2>3, <3>2, Facts
    <3> QED
      BY <2>1, <2>3, <3>3 DEF e
  <2>5. Units(k)' + charging(c, k)' + failures' >= Units(k) + charging(c, k) + failures
    BY <2>1, <2>3, Facts
  <2> QED
    BY <2>1, <2>2, <2>3, <2>4, <2>5, UnitsMove, Facts
<1>12. ASSUME ReplyLost(c)
      PROVE  (\A d \in Calls \ {c} : call'[d] = call[d]) /\ StepOn(c, k)
  <2>1. UNCHANGED <<quota, call>> /\ failures' = failures + 1
    BY <1>12 DEF ReplyLost, Fails
  <2>2. /\ paying(c, k)' = paying(c, k) /\ charging(c, k)' = charging(c, k) /\ seeding(c, k)' = seeding(c, k)
        /\ paying(c, k) \in Nat /\ charging(c, k) \in Nat /\ \A d \in Calls \ {c} : call'[d] = call[d]
    BY <2>1 DEF paying, charging, seeding, Key
  <2>3. Units(k)' + extra[k] <= Units(k) + extra'[k]
        /\ (counter[k] # Missing => counter'[k] # Missing)
        /\ (quota[k].refills = 0 => Units(k)' + 1 >= Units(k))
    <3>1. CASE /\ call[c].pc \in {"decrement", "retry"} /\ counter[Key(c)] > 0
               /\ Set(Key(c), counter[Key(c)] - 1) /\ UNCHANGED extra
      <4>1. CASE k = Key(c)
        <5>1. counter'[k] = counter[k] - 1 /\ counter[k] > 0
          BY <3>1, <4>1 DEF Set, RestTypeOK
        <5> QED
          BY <3>1, <5>1, Facts DEF Missing
      <4>2. CASE k # Key(c)
        <5>1. counter'[k] = counter[k] /\ Units(k)' = Units(k)
          BY <3>1, <4>2 DEF Set, RestTypeOK, Units
        <5> QED
          BY <3>1, <5>1, Facts
      <4> QED
        BY <4>1, <4>2
    <3>2. CASE /\ call[c].pc = "seed" /\ Set(Key(c), Amount[Key(c)])
               /\ extra' = [extra EXCEPT ![Key(c)] = @ + Amount[Key(c)]]
      <4>1. CASE k = Key(c)
        <5>1. counter'[k] = Amount[k] /\ extra'[k] = extra[k] + Amount[k] /\ quota[k].refills > 0
          BY <3>2, <4>1 DEF Set, RestTypeOK, RefillsInOrder
        <5> QED
          BY <5>1, Facts DEF Missing
      <4>2. CASE k # Key(c)
        <5>1. counter'[k] = counter[k] /\ Units(k)' = Units(k) /\ extra'[k] = extra[k]
          BY <3>2, <4>2 DEF Set, RestTypeOK, Units
        <5> QED
          BY <5>1, Facts
      <4> QED
        BY <4>1, <4>2
    <3>3. CASE /\ Set(call[c].tok, Units(call[c].tok) + 1)
               /\ extra' = [extra EXCEPT ![call[c].tok] = @ + 1]
      <4>1. CASE k = call[c].tok
        <5>1. counter'[k] = Units(k) + 1 /\ extra'[k] = extra[k] + 1
          BY <3>3, <4>1 DEF Set, RestTypeOK
        <5> QED
          BY <5>1, Facts DEF Missing
      <4>2. CASE k # call[c].tok
        <5>1. counter'[k] = counter[k] /\ Units(k)' = Units(k) /\ extra'[k] = extra[k]
          BY <3>3, <4>2 DEF Set, RestTypeOK, Units
        <5> QED
          BY <5>1, Facts
      <4> QED
        BY <4>1, <4>2
    <3> QED
      BY <1>12, <3>1, <3>2, <3>3 DEF ReplyLost
  <2>4. Amount[k] * (quota'[k].refills - quota[k].refills) = 0
    <3>1. quota'[k].refills - quota[k].refills = 0
      BY <2>1, Facts
    <3> QED
      BY <3>1, Facts
  <2>5. paying(c, k)' + Units(k)' + Amount[k] * seeding(c, k)' + extra[k]
          <= paying(c, k) + Units(k) + Amount[k] * seeding(c, k)
               + Amount[k] * (quota'[k].refills - quota[k].refills) + extra'[k]
    <3> DEFINE w == Amount[k] * seeding(c, k)
    <3>1. w \in Nat
      <4>1. seeding(c, k) \in {0, 1}
        BY DEF seeding
      <4> QED
        BY <4>1, Facts
    <3> HIDE DEF w
    <3>2. paying(c, k) + Units(k)' + w + extra[k] <= paying(c, k) + Units(k) + w + 0 + extra'[k]
      BY <2>2, <2>3, <3>1, Facts
    <3> QED
      BY <2>2, <2>4, <3>2 DEF w
  <2>6. quota'[k].refills = 0 => Units(k)' + charging(c, k)' + failures' >= Units(k) + charging(c, k) + failures
    BY <2>1, <2>2, <2>3, Facts
  <2> QED
    BY <2>1, <2>2, <2>3, <2>5, <2>6, Facts DEF StepOn
<1> QED
  BY <1>2, <1>3, <1>4, <1>5, <1>6, <1>7, <1>8, <1>9, <1>10, <1>11, <1>12 DEF CallStep

(* Steps that no request takes.                                            *)
LEMMA OtherSteps ==
  ASSUME RestTypeOK, RestTypeOK', CallTypeOK, CallsInOrder, NEW k \in Keys, Balanced(k), Conserved(k),
         (\E j \in Keys : Create(j) \/ SeedNew(j) \/ CounterLost(j) \/ IntervalEnds(j)) \/ Reseed
  PROVE  Balanced(k)' /\ Conserved(k)'
<1>0. DOMAIN counter = Keys /\ counter = [i \in Keys |-> counter[i]]
  BY DEF RestTypeOK
<1>1. UNCHANGED call /\ lost \subseteq lost' /\ failures <= failures'
  BY CounterConstants
     DEF Create, SeedNew, CounterLost, IntervalEnds, Reseed, Fails, Succeeds, RestTypeOK
<1>2. Payers(k)' = Payers(k) /\ Seeders(k)' = Seeders(k) /\ Charged(k)' = Charged(k)
  BY <1>1 DEF Payers, Seeders, Charged, Key
<1>3. quota'[k].refills = quota[k].refills
  <2>1. CASE UNCHANGED quota
    BY <2>1
  <2>2. ASSUME NEW j \in Keys, IntervalEnds(j) PROVE quota'[k].refills = quota[k].refills
    <3>1. quota' = [quota EXCEPT ![j].due = TRUE] /\ ~quota[j].due
      BY <2>2 DEF IntervalEnds
    <3>2. ~Refilled(j)
      <4>1. quota'[j].due
        BY <3>1 DEF RestTypeOK
      <4> QED
        BY <4>1 DEF Refilled, RestTypeOK
    <3> QED
      BY <3>1, <3>2, RowWritten
  <2> QED
    BY <2>1, <2>2 DEF Create, SeedNew, CounterLost, Reseed
<1>4. /\ Units(k) \in Nat /\ Units(k)' \in Nat /\ Unborn(k) \in Nat /\ Unborn(k)' \in Nat
      /\ (counter[k] # Missing => Units(k) = counter[k])
  <2>1. Units(k) \in Nat /\ Unborn(k) \in Nat /\ (counter[k] # Missing => Units(k) = counter[k])
    BY UnitsAreNatural
  <2>2. Units(k)' \in Nat /\ Unborn(k)' \in Nat
    BY CounterConstants DEF RestTypeOK, Units, Unborn, Missing
  <2> QED
    BY <2>1, <2>2
<1>5. /\ Initial[k] \in Nat /\ Amount[k] \in Nat /\ extra[k] \in Nat /\ extra'[k] \in Nat
      /\ failures \in Nat /\ failures' \in Nat /\ counter[k] \in Nat \cup {Missing}
  BY CounterConstants DEF RestTypeOK
\* What the counter holds, will be seeded with and was given on top moves together
<1>6. /\ Units(k)' + Unborn(k)' + extra[k] <= Units(k) + Unborn(k) + extra'[k]
      /\ k \notin lost' /\ stage'[k] = "live" =>
           \/ counter'[k] = Initial[k]
           \/ counter'[k] = counter[k] /\ stage[k] = "live"
  <2>1. CASE UNCHANGED <<counter, stage, extra>>
    BY <2>1, <1>4, <1>5 DEF Units, Unborn
  <2>2. ASSUME NEW j \in Keys, Create(j) PROVE <1>6!:
    <3>1. stage'[k] = "live" <=> stage[k] = "live"
      BY <2>2 DEF Create, RestTypeOK
    <3>2. Units(k)' = Units(k) /\ Unborn(k)' = Unborn(k) /\ extra' = extra /\ counter' = counter
      BY <2>2, <3>1 DEF Create, Units, Unborn
    <3> QED
      BY <1>4, <1>5, <3>1, <3>2
  <2>3. ASSUME NEW j \in Keys, SeedNew(j) PROVE <1>6!:
    <3>1. CASE j = k
      <4>a. stage[k] # "live" /\ stage'[k] = "live" /\ extra' = extra
        BY <2>3, <3>1 DEF SeedNew, RestTypeOK
      <4>b. counter'[k] = Initial[k] \/ (counter'[k] = counter[k] /\ k \in lost')
        <5>1. CASE Set(k, Initial[k])
          BY <1>0, <5>1 DEF Set
        <5>2. CASE lost' = lost \cup {k} /\ UNCHANGED counter
          BY <5>2
        <5> QED
          BY <2>3, <3>1, <5>1, <5>2 DEF SeedNew
      <4>1. stage[k] # "live" /\ stage'[k] = "live" /\ extra' = extra
            /\ (counter'[k] = Initial[k] \/ (counter'[k] = counter[k] /\ k \in lost'))
        BY <4>a, <4>b
      <4>2. Unborn(k) = Initial[k] /\ Unborn(k)' = 0
        BY <4>1 DEF Unborn
      <4>3. Units(k)' = Initial[k] \/ Units(k)' = Units(k)
        BY <1>5, <4>1 DEF Units, Missing
      <4> QED
        BY <1>4, <1>5, <4>1, <4>2, <4>3
    <3>2. CASE j # k
      <4>1. stage'[k] = stage[k] /\ counter'[k] = counter[k] /\ extra' = extra
        BY <2>3, <3>2 DEF SeedNew, Set, RestTypeOK
      <4>2. Units(k)' = Units(k) /\ Unborn(k)' = Unborn(k)
        BY <4>1 DEF Units, Unborn
      <4> QED
        BY <1>4, <1>5, <4>1, <4>2
    <3> QED
      BY <3>1, <3>2
  <2>4. ASSUME NEW j \in Keys, CounterLost(j) PROVE <1>6!:
    <3>1. stage' = stage /\ extra' = extra
          /\ (counter'[k] = counter[k] \/ (counter'[k] = Missing /\ k \in lost'))
      <4>0. stage' = stage /\ extra' = extra /\ counter' = [counter EXCEPT ![j] = Missing] /\ lost' = lost \cup {j}
        BY <2>4 DEF CounterLost, Set
      <4>1. CASE j = k
        BY <1>0, <4>0, <4>1
      <4>2. CASE j # k
        BY <1>0, <4>0, <4>2
      <4> QED
        BY <4>0, <4>1, <4>2
    <3>2. Unborn(k)' = Unborn(k) /\ Units(k)' <= Units(k)
      <4>1. Units(k)' = Units(k) \/ Units(k)' = 0
        BY <3>1 DEF Units
      <4> QED
        BY <1>4, <3>1, <4>1 DEF Unborn
    <3> QED
      BY <1>4, <1>5, <3>1, <3>2
  <2>5. ASSUME Reseed PROVE <1>6!:
    <3>1. stage' = stage /\ Unborn(k)' = Unborn(k)
      BY <2>5 DEF Reseed, Unborn
    <3>2. CASE k = Cred
      <4>1. counter'[k] = Initial[k] /\ extra'[k] = extra[k] + Initial[k]
        BY <2>5, <3>2 DEF Reseed, Set, RestTypeOK
      <4>2. Units(k)' = Initial[k]
        BY <1>5, <4>1 DEF Units, Missing
      <4> QED
        BY <1>4, <1>5, <3>1, <4>1, <4>2
    <3>3. CASE k # Cred
      <4>1. counter'[k] = counter[k] /\ extra'[k] = extra[k]
        BY <2>5, <3>3 DEF Reseed, Set, RestTypeOK
      <4>2. Units(k)' = Units(k)
        BY <4>1 DEF Units
      <4> QED
        BY <1>4, <1>5, <3>1, <4>1, <4>2
    <3> QED
      BY <3>2, <3>3
  <2> QED
    BY <2>1, <2>2, <2>3, <2>4, <2>5 DEF IntervalEnds
<1>7. Cardinality(Payers(k)) \in Nat /\ Cardinality(Seeders(k)) \in Nat /\ Cardinality(Charged(k)) \in Nat
  BY Finite
<1>8. Balanced(k)'
  <2> DEFINE aS == Amount[k] * Cardinality(Seeders(k))
             aR == Amount[k] * quota[k].refills
             P == Cardinality(Payers(k))
  <2>1. aS \in Nat /\ aR \in Nat
    BY <1>5, <1>7 DEF RestTypeOK
  <2>2. P + Units(k) + aS + Unborn(k) <= Initial[k] + aR + extra[k] /\ P \in Nat
    BY <1>7 DEF Balanced
  <2> HIDE DEF aS, aR, P
  <2>3. P + Units(k)' + aS + Unborn(k)' <= Initial[k] + aR + extra'[k]
    BY <1>4, <1>5, <1>6, <2>1, <2>2
  <2> QED
    BY <1>2, <1>3, <2>3 DEF Balanced, aS, aR, P
<1>9. Conserved(k)'
  BY <1>1, <1>2, <1>3, <1>4, <1>5, <1>6, <1>7 DEF Conserved, Missing
<1> QED
  BY <1>8, <1>9

LEMMA CounterInductive == CounterSpec => []CounterInv
<1>1. CounterInit => CounterInv
  <2> SUFFICES ASSUME CounterInit PROVE CounterInv
    OBVIOUS
  <2>1. CounterTypeOK /\ CallsInOrder /\ RefillsInOrder
    BY CounterConstants DEF CounterInit, CounterTypeOK, CallsInOrder, RefillsInOrder, IdleCall, Missing,
                            Keys, Key, Running, HoldsToken
  <2>2. ASSUME NEW k \in Keys PROVE Balanced(k) /\ Conserved(k)
    <3>1. Payers(k) = {} /\ Seeders(k) = {} /\ stage[k] = "none" /\ quota[k].refills = 0
          /\ counter[k] = Missing /\ extra[k] = 0
      BY <2>2 DEF CounterInit, Payers, Seeders, IdleCall
    <3>2. Cardinality({}) = 0 /\ Units(k) = 0 /\ Unborn(k) = Initial[k]
          /\ Initial[k] \in Nat /\ Amount[k] \in Nat /\ Amount[k] * 0 = 0
      BY <3>1, FS_EmptySet, CounterConstants DEF Units, Unborn
    <3> QED
      BY <3>1, <3>2 DEF Balanced, Conserved
  <2> QED
    BY <2>1, <2>2 DEF CounterInv
<1>2. CounterInv /\ [CounterNext]_counterVars => CounterInv'
  <2> SUFFICES ASSUME CounterInv, [CounterNext]_counterVars PROVE CounterInv'
    OBVIOUS
  <2>1. CASE CounterNext
    <3>1. RestTypeOK /\ CallTypeOK /\ CallsInOrder /\ RefillsInOrder
          /\ \A k \in Keys : Balanced(k) /\ Conserved(k)
      BY TypeParts DEF CounterInv
    <3>2. RestTypeOK' /\ CallTypeOK' /\ CallsInOrder'
      BY <2>1, <3>1, TypesKept
    <3>3. RefillsInOrder'
      BY <2>1, <3>1, RefillsKept
    <3>4. ASSUME NEW k \in Keys PROVE Balanced(k)' /\ Conserved(k)'
      <4>1. CASE (\E j \in Keys : Create(j) \/ SeedNew(j) \/ CounterLost(j) \/ IntervalEnds(j)) \/ Reseed
        BY <3>1, <3>2, <3>4, <4>1, OtherSteps
      <4>2. ASSUME NEW c \in Calls,
                   \/ \E t \in Tokens, mcp \in BOOLEAN : Arrives(c, t, mcp)
                   \/ CallStep(c)
                   \/ DecrementFails(c) \/ RefillFails(c) \/ UndoFails(c) \/ ReplyLost(c) \/ Crash(c)
            PROVE  Balanced(k)' /\ Conserved(k)'
        <5>1. Still(c) /\ StepOn(c, k)
          BY <3>1, <3>2, <3>4, <4>2, CallSteps
        <5> QED
          BY <3>1, <3>2, <3>4, <5>1, StepKeeps DEF Still
      <4> QED
        BY <2>1, <4>1, <4>2 DEF CounterNext
    <3>5. CounterTypeOK'
      BY <3>2 DEF RestTypeOK, CallTypeOK, CounterTypeOK
    <3> QED
      BY <3>2, <3>3, <3>4, <3>5 DEF CounterInv
  <2>2. CASE UNCHANGED counterVars
    <3>1. /\ counter' = counter /\ quota' = quota /\ stage' = stage /\ call' = call
          /\ intervals' = intervals /\ extra' = extra /\ lost' = lost /\ failures' = failures
      BY <2>2 DEF counterVars
    <3>2. CounterTypeOK'
      BY <3>1 DEF CounterInv, CounterTypeOK, HoldsToken, Key
    <3>3. CallsInOrder' /\ RefillsInOrder'
      BY <3>1 DEF CounterInv, CallsInOrder, RefillsInOrder, Key
    <3>4. ASSUME NEW k \in Keys PROVE Balanced(k)' /\ Conserved(k)'
      <4>1. Payers(k)' = Payers(k) /\ Seeders(k)' = Seeders(k) /\ Charged(k)' = Charged(k)
            /\ Units(k)' = Units(k) /\ Unborn(k)' = Unborn(k)
        BY <3>1 DEF Payers, Seeders, Charged, Units, Unborn, Key
      <4> QED
        BY <3>1, <4>1 DEF CounterInv, Balanced, Conserved
    <3> QED
      BY <3>2, <3>3, <3>4 DEF CounterInv
  <2> QED
    BY <2>1, <2>2
<1> QED
  BY <1>1, <1>2, PTL DEF CounterSpec
-----------------------------------------------------------------------------
\* Types of the counters, the rows, the requests and what they hold, for any numbers of them.
THEOREM CounterTypeCorrect == CounterSpec => []CounterTypeOK
<1>1. CounterInv => CounterTypeOK
  BY DEF CounterInv
<1> QED
  BY <1>1, CounterInductive, PTL

\* However many requests race to refill a counter (CheckAndRefillToken,
\* CheckAndRefillCredential) and however late their seedings and Undos come, the counter
\* lets no more requests pass than its cap and one refill for each interval that ended.
THEOREM QuotaHoldsAlways == CounterSpec => []QuotaHolds
<1>1. CounterInv => QuotaHolds
  <2> SUFFICES ASSUME CounterInv, NEW k \in Keys
               PROVE  Cardinality(Payers(k)) <= Initial[k] + Amount[k] * intervals[k] + extra[k]
    BY DEF QuotaHolds
  <2>0. RestTypeOK /\ RefillsInOrder /\ Balanced(k)
    BY TypeParts DEF CounterInv
  <2>1. /\ Initial[k] \in Nat /\ Amount[k] \in Nat /\ intervals[k] \in Nat /\ quota[k].refills \in Nat
        /\ extra[k] \in Nat /\ quota[k].refills <= intervals[k]
    BY <2>0, CounterConstants DEF RestTypeOK, RefillsInOrder
  <2>2. Amount[k] * quota[k].refills <= Amount[k] * intervals[k]
    <3>1. PICK d \in Nat : intervals[k] = quota[k].refills + d
      <4>1. intervals[k] - quota[k].refills \in Nat
            /\ intervals[k] = quota[k].refills + (intervals[k] - quota[k].refills)
        BY <2>1
      <4> QED
        BY <4>1
    <3>2. Amount[k] * intervals[k] = Amount[k] * quota[k].refills + Amount[k] * d /\ Amount[k] * d \in Nat
      BY <2>1, <3>1
    <3>3. Amount[k] * quota[k].refills \in Nat
      BY <2>1
    <3> DEFINE x == Amount[k] * quota[k].refills
               y == Amount[k] * d
               z == Amount[k] * intervals[k]
    <3>4. z = x + y /\ y \in Nat /\ x \in Nat
      BY <3>2, <3>3
    <3> HIDE DEF x, y, z
    <3>5. x <= z
      BY <3>4
    <3> QED
      BY <3>5 DEF x, z
  <2>3. /\ Cardinality(Payers(k)) \in Nat /\ Units(k) \in Nat /\ Unborn(k) \in Nat
        /\ Amount[k] * Cardinality(Seeders(k)) \in Nat
        /\ Amount[k] * quota[k].refills \in Nat /\ Amount[k] * intervals[k] \in Nat
    BY <2>0, <2>1, Finite, UnitsAreNatural
  <2> DEFINE s == Amount[k] * Cardinality(Seeders(k))
             x == Amount[k] * quota[k].refills
             z == Amount[k] * intervals[k]
             P == Cardinality(Payers(k))
  <2>4. P + Units(k) + s + Unborn(k) <= Initial[k] + x + extra[k]
    BY <2>0 DEF Balanced
  <2>5. x <= z /\ s \in Nat /\ x \in Nat /\ z \in Nat /\ P \in Nat
    BY <2>2, <2>3
  <2> HIDE DEF s, x, z, P
  <2>6. P <= Initial[k] + z + extra[k]
    BY <2>1, <2>3, <2>4, <2>5
  <2> QED
    BY <2>6 DEF P, z
<1> QED
  BY <1>1, CounterInductive, PTL

\* A refused request has given back what RemainingCheck took from its token: until the
\* first refill a counter is short only of the requests that passed it, and of what
\* failures cost.
THEOREM RefusalsAreFreeAlways == CounterSpec => []RefusalsAreFree
<1>1. CounterInv => RefusalsAreFree
  BY DEF CounterInv, Conserved, RefusalsAreFree
<1> QED
  BY <1>1, CounterInductive, PTL
-----------------------------------------------------------------------------
(* The credential cache.                                                   *)

LookingUp == Resolving \cup {"l1", "wait"}

HeldKeys == \A r \in Requests : req[r].pc = "attach" => req[r].buf \in Requests

\* Who is looking up is on a pod; a key that was returned is in some request's buffer
CacheInv ==
  /\ TypeOK
  /\ flight \in [Pods -> Requests \cup {NoRequest}]
  /\ \A r \in Requests : req[r].pc \in LookingUp => Pod(r) \in Pods
  /\ HeldKeys
  /\ admin.op = "seed" => admin.ver \in Versions

Requesting ==
  [pc : Resolving \cup {"idle", "l1", "wait", "attach"}, pod : Pods \cup {"none"},
   ver : 0 .. MaxVersion, buf : Requests \cup {NoRequest}]
RedisEntry == [ver : 0 .. MaxVersion, age : 0 .. RedisTTL - 1]
L1Entry == [ver : 0 .. MaxVersion, age : 0 .. Life - 1]
Led == \A p \in Pods : \A r \in Requests : (flight[p] = r) <=> (Pod(r) = p /\ req[r].pc \in Resolving)

\* The parts of CacheInv: what the requests and the flights are, and the rest
LookupsOK ==
  /\ req \in [Requests -> Requesting]
  /\ flight \in [Pods -> Requests \cup {NoRequest}]
  /\ Led
  /\ \A r \in Requests : req[r].pc \in LookingUp => Pod(r) \in Pods
  /\ WaitersAreLed /\ HeldKeys
AdminOK ==
  /\ admin \in [pc : {"idle", "local", "redis", "publish", "end"}, op : {"none", "seed", "revoke"},
                pod : Pods \cup {"none"}, ver : 0 .. MaxVersion]
  /\ admin.op = "seed" => admin.ver \in Versions
TiersOK ==
  /\ row \in [ver : Versions, revoked : BOOLEAN]
  /\ redis \in RedisEntry
  /\ l1 \in [Pods -> L1Entry]
  /\ wiped \subseteq Requests
  /\ AdminOK
  /\ inbox \subseteq Pods /\ faults \in 0 .. MaxFaults

LEMMA CacheInvParts == CacheInv <=> LookupsOK /\ TiersOK
  BY DEF CacheInv, TypeOK, LookupsOK, TiersOK, AdminOK, Led, Requesting, RedisEntry, L1Entry

LEMMA Entries ==
  /\ Life \in Nat \ {0} /\ Empty \in RedisEntry /\ Empty \in L1Entry
  /\ \A v \in 0 .. MaxVersion : Entry(v) \in RedisEntry /\ Entry(v) \in L1Entry
  /\ \A e \in RedisEntry : Older(e, RedisTTL) \in RedisEntry
  /\ \A e \in L1Entry : Older(e, Life) \in L1Entry
<1>1. Life \in Nat \ {0} /\ RedisTTL \in Nat \ {0} /\ MaxVersion \in Nat \ {0}
  BY CacheConstants DEF Life
<1>2. ASSUME NEW ttl \in Nat \ {0}, NEW e \in [ver : 0 .. MaxVersion, age : 0 .. ttl - 1]
      PROVE  Older(e, ttl) \in [ver : 0 .. MaxVersion, age : 0 .. ttl - 1]
  <2>1. CASE e.ver = 0 \/ e.age + 1 >= ttl
    BY <1>1, <2>1 DEF Older, Empty
  <2>2. CASE ~(e.ver = 0 \/ e.age + 1 >= ttl)
    <3>1. e.age + 1 \in 0 .. ttl - 1
      BY <2>2
    <3> QED
      BY <2>2, <3>1 DEF Older
  <2> QED
    BY <2>1, <2>2
<1>3. ASSUME NEW ttl \in Nat \ {0}, NEW v \in 0 .. MaxVersion
      PROVE  Entry(v) \in [ver : 0 .. MaxVersion, age : 0 .. ttl - 1]
  BY DEF Entry
<1>4. ASSUME NEW ttl \in Nat \ {0}
      PROVE  Empty \in [ver : 0 .. MaxVersion, age : 0 .. ttl - 1]
  BY <1>1 DEF Empty
<1> QED
  BY <1>1, <1>2, <1>3, <1>4 DEF RedisEntry, L1Entry

LEMMA IdleReqType == IdleReq \in Requesting /\ IdleReq.pc = "idle"
<1>1. 0 \in 0 .. MaxVersion
  BY CacheConstants
<1> QED
  BY <1>1 DEF IdleReq, Requesting

LEMMA HasKeyType ==
  ASSUME NEW b \in Requests
  PROVE  HasKey(b) \in Requesting /\ HasKey(b).pc = "attach" /\ HasKey(b).buf = b
BY IdleReqType DEF HasKey, Requesting

(* The request r moves, leading nothing before or after, or still resolving. *)
LEMMA RequestMoves ==
  ASSUME LookupsOK, NEW r \in Requests, NEW q \in Requesting, req' = [req EXCEPT ![r] = q],
         UNCHANGED flight,
         q.pc \in Resolving <=> req[r].pc \in Resolving,
         q.pc \in Resolving => q.pod = Pod(r),
         q.pc \in LookingUp => q.pod \in Pods,
         q.pc = "wait" => flight[q.pod] # NoRequest,
         q.pc = "attach" => q.buf \in Requests
  PROVE  LookupsOK'
<1>1. req' \in [Requests -> Requesting]
  BY DEF LookupsOK
<1>2. req'[r] = q /\ \A s \in Requests \ {r} : req'[s] = req[s]
  BY DEF LookupsOK
<1>3. Led'
  BY <1>2 DEF LookupsOK, Led, Pod
<1>4. \A s \in Requests : req'[s].pc \in LookingUp => req'[s].pod \in Pods
  BY <1>2 DEF LookupsOK, Pod
<1>5. WaitersAreLed' /\ HeldKeys'
  BY <1>2 DEF LookupsOK, Pod, WaitersAreLed, HeldKeys
<1> QED
  BY <1>1, <1>3, <1>4, <1>5 DEF LookupsOK, Pod

(* A flight lands: all who share it leave it.                              *)
LEMMA FlightLands ==
  ASSUME LookupsOK, NEW r \in Requests, req[r].pc \in Resolving,
         NEW k \in Requesting, k.pc \notin LookingUp,
         k.pc = "attach" => k.buf \in Requests,
         req' = [q \in Requests |-> IF q \in Shares(r) THEN k ELSE req[q]],
         flight' = [flight EXCEPT ![Pod(r)] = NoRequest]
  PROVE  LookupsOK'
<1>1. Pod(r) \in Pods /\ flight[Pod(r)] = r /\ r \in Shares(r)
  BY DEF LookupsOK, Led, LookingUp, Shares
<1>2. req' \in [Requests -> Requesting] /\ flight' \in [Pods -> Requests \cup {NoRequest}]
  BY <1>1 DEF LookupsOK
<1>3. \A q \in Requests : req'[q] = IF q \in Shares(r) THEN k ELSE req[q]
  OBVIOUS
<1>4. flight'[Pod(r)] = NoRequest /\ \A p \in Pods \ {Pod(r)} : flight'[p] = flight[p]
  BY <1>1 DEF LookupsOK
<1>5. Led'
  <2> SUFFICES ASSUME NEW p \in Pods, NEW q \in Requests
               PROVE  flight'[p] = q <=> (req'[q].pod = p /\ req'[q].pc \in Resolving)
    BY DEF Led, Pod
  <2>1. k.pc \notin Resolving
    BY DEF LookingUp
  <2>2. flight[p] = q <=> (req[q].pod = p /\ req[q].pc \in Resolving)
    BY DEF LookupsOK, Led, Pod
  <2>3. CASE p = Pod(r)
    <3>1. flight'[p] # q
      BY <1>4, <2>3, CacheConstants
    <3>2. q \notin Shares(r) => ~(req[q].pod = p /\ req[q].pc \in Resolving)
      BY <1>1, <2>2, <2>3
    <3> QED
      BY <1>3, <2>1, <3>1, <3>2
  <2>4. CASE p # Pod(r)
    <3>1. q \in Shares(r) => flight[p] # q
      BY <2>2, <2>4 DEF Shares, Resolving, Pod
    <3> QED
      BY <1>3, <1>4, <2>1, <2>2, <2>4, <3>1
  <2> QED
    BY <2>3, <2>4
<1>6. \A s \in Requests : req'[s].pc \in LookingUp => req'[s].pod \in Pods
  BY <1>3 DEF LookupsOK, Pod
<1>7. WaitersAreLed'
  <2> SUFFICES ASSUME NEW q \in Requests, req'[q].pc = "wait"
               PROVE  flight'[req'[q].pod] # NoRequest
    BY DEF WaitersAreLed, Pod
  <2>1. q \notin Shares(r) /\ req'[q] = req[q]
    BY <1>3 DEF LookingUp
  <2>2. Pod(q) # Pod(r) /\ Pod(q) \in Pods /\ flight[Pod(q)] # NoRequest
    BY <2>1 DEF Shares, LookupsOK, WaitersAreLed, LookingUp
  <2> QED
    BY <1>4, <2>1, <2>2 DEF Pod
<1>8. HeldKeys'
  BY <1>3 DEF LookupsOK, HeldKeys
<1> QED
  BY <1>2, <1>5, <1>6, <1>7, <1>8 DEF LookupsOK, Pod

LEMMA RequestStepsKept ==
  ASSUME LookupsOK, TiersOK, NEW r \in Requests,
         (\E p \in Pods : ById(r, p)) \/ RequestStep(r) \/ ReadRedisFails(r) \/ FlightFails(r)
  PROVE  LookupsOK' /\ TiersOK'
<1>1. req[r] \in Requesting /\ faults \in 0 .. MaxFaults /\ redis \in RedisEntry /\ row.ver \in Versions
  BY DEF LookupsOK, TiersOK
<1>2. ASSUME NoFault \/ Fault PROVE faults' \in 0 .. MaxFaults
  BY <1>1, <1>2, CacheConstants DEF NoFault, Fault
<1>3. ASSUME NEW p \in Pods, ById(r, p) PROVE LookupsOK' /\ TiersOK'
  <2> DEFINE q == [IdleReq EXCEPT !.pc = "l1", !.pod = p]
  <2>1. q \in Requesting /\ q.pc = "l1" /\ q.pod = p
    BY IdleReqType DEF Requesting
  <2>2. req' = [req EXCEPT ![r] = q] /\ UNCHANGED flight /\ req[r].pc = "idle"
    BY <1>3 DEF ById
  <2> HIDE DEF q
  <2>3. LookupsOK'
    BY <2>1, <2>2, RequestMoves DEF LookingUp, Resolving
  <2> QED
    BY <1>2, <1>3, <2>3 DEF ById, TiersOK, AdminOK
<1>4. CASE LookupL1(r)
  <2>1. Pod(r) \in Pods /\ req[r].pc = "l1"
    BY <1>4 DEF LookupL1, LookupsOK, LookingUp
  <2>2. TiersOK'
    BY <1>2, <1>4 DEF LookupL1, TiersOK, AdminOK
  <2>3. CASE l1[Pod(r)].ver # 0 /\ req' = [req EXCEPT ![r] = HasKey(r)] /\ UNCHANGED flight
    <3> DEFINE q == HasKey(r)
    <3>1. q \in Requesting /\ q.pc = "attach" /\ q.buf = r /\ req' = [req EXCEPT ![r] = q]
      BY <2>3, HasKeyType
    <3> HIDE DEF q
    <3> QED
      BY <2>1, <2>2, <2>3, <3>1, RequestMoves DEF Resolving, LookingUp
  <2>4. CASE Goto(r, "redis") /\ flight[Pod(r)] = NoRequest /\ flight' = [flight EXCEPT ![Pod(r)] = r]
    <3> DEFINE q == [req[r] EXCEPT !.pc = "redis"]
    <3>1. q \in Requesting /\ q.pc = "redis" /\ q.pod = Pod(r)
      BY <1>1 DEF Requesting, Resolving, Pod
    <3>2. req' = [req EXCEPT ![r] = q]
      BY <2>4 DEF Goto
    <3> HIDE DEF q
    <3>3. req'[r] = q /\ \A s \in Requests \ {r} : req'[s] = req[s]
      BY <3>2 DEF LookupsOK
    <3>4. flight'[Pod(r)] = r /\ \A p \in Pods \ {Pod(r)} : flight'[p] = flight[p]
      BY <2>1, <2>4 DEF LookupsOK
    <3>5. req' \in [Requests -> Requesting] /\ flight' \in [Pods -> Requests \cup {NoRequest}]
      BY <2>4, <3>1, <3>2 DEF LookupsOK
    <3>6. Led'
      <4> SUFFICES ASSUME NEW p \in Pods, NEW s \in Requests
                   PROVE  flight'[p] = s <=> (req'[s].pod = p /\ req'[s].pc \in Resolving)
        BY DEF Led, Pod
      <4>1. flight[p] = s <=> (req[s].pod = p /\ req[s].pc \in Resolving)
        BY DEF LookupsOK, Led, Pod
      <4>2. CASE s = r
        <5>1. req'[s].pod = Pod(r) /\ req'[s].pc \in Resolving
          BY <3>1, <3>3, <4>2 DEF Resolving
        <5>2. flight[p] # r
          BY <2>1, <4>1, <4>2 DEF Resolving
        <5> QED
          BY <3>4, <4>2, <5>1, <5>2
      <4>3. CASE s # r
        <5>1. flight[Pod(r)] # s
          BY <2>4, CacheConstants
        <5> QED
          BY <3>3, <3>4, <4>1, <4>3, <5>1
      <4> QED
        BY <4>2, <4>3
    <3>7. \A s \in Requests : req'[s].pc \in LookingUp => req'[s].pod \in Pods
      BY <2>1, <3>1, <3>3 DEF LookupsOK, Pod
    <3>8. WaitersAreLed'
      <4> SUFFICES ASSUME NEW s \in Requests, req'[s].pc = "wait"
                   PROVE  flight'[req'[s].pod] # NoRequest
        BY DEF WaitersAreLed, Pod
      <4>1. s # r /\ req'[s] = req[s]
        BY <3>1, <3>3
      <4>2. Pod(s) \in Pods /\ flight[Pod(s)] # NoRequest
        BY <4>1 DEF LookupsOK, WaitersAreLed, LookingUp
      <4> QED
        BY <3>4, <4>1, <4>2, CacheConstants DEF Pod
    <3>9. HeldKeys'
      BY <3>1, <3>3 DEF LookupsOK, HeldKeys
    <3> QED
      BY <2>2, <3>5, <3>6, <3>7, <3>8, <3>9 DEF LookupsOK, Pod
  <2>5. CASE Goto(r, "wait") /\ flight[Pod(r)] # NoRequest /\ UNCHANGED flight
    <3> DEFINE q == [req[r] EXCEPT !.pc = "wait"]
    <3>1. q \in Requesting /\ q.pc = "wait" /\ q.pod = Pod(r)
      BY <1>1 DEF Requesting, Pod
    <3>2. req' = [req EXCEPT ![r] = q]
      BY <2>5 DEF Goto
    <3> HIDE DEF q
    <3> QED
      BY <2>1, <2>2, <2>5, <3>1, <3>2, RequestMoves DEF Resolving
  <2> QED
    BY <1>4, <2>2, <2>3, <2>4, <2>5 DEF LookupL1
\* The lookup goes on, perhaps with a version
<1>5. ASSUME NEW pc \in Resolving, NEW v \in 0 .. MaxVersion, req[r].pc \in Resolving, UNCHANGED flight,
             req' = [req EXCEPT ![r] = [@ EXCEPT !.pc = pc, !.ver = v]]
      PROVE  LookupsOK'
  <2> DEFINE q == [req[r] EXCEPT !.pc = pc, !.ver = v]
  <2>1. q \in Requesting /\ q.pc = pc /\ q.pod = Pod(r)
    BY <1>1 DEF Requesting, Pod
  <2>2. req' = [req EXCEPT ![r] = q]
    BY <1>5
  <2> HIDE DEF q
  <2>3. Pod(r) \in Pods /\ pc # "wait" /\ pc # "attach"
    BY <1>5 DEF LookupsOK, LookingUp, Resolving
  <2> QED
    BY <1>5, <2>1, <2>2, <2>3, RequestMoves
<1>6. ASSUME NEW pc \in Resolving, req[r].pc \in Resolving, UNCHANGED flight, Goto(r, pc)
      PROVE  LookupsOK'
  <2> DEFINE q == [req[r] EXCEPT !.pc = pc]
  <2>1. q \in Requesting /\ q.pc = pc /\ q.pod = Pod(r)
    BY <1>1 DEF Requesting, Pod
  <2>2. req' = [req EXCEPT ![r] = q]
    BY <1>6 DEF Goto
  <2> HIDE DEF q
  <2>3. Pod(r) \in Pods /\ pc # "wait" /\ pc # "attach"
    BY <1>6 DEF LookupsOK, LookingUp, Resolving
  <2> QED
    BY <1>6, <2>1, <2>2, <2>3, RequestMoves
<1>7. ASSUME req[r].pc \in Resolving, Failed(r) \/ Returned(r) PROVE LookupsOK'
  <2>1. CASE Failed(r)
    BY <1>7, <2>1, IdleReqType, FlightLands DEF Failed, LookingUp, Resolving
  <2>2. CASE Returned(r)
    BY <1>7, <2>2, HasKeyType, FlightLands DEF Returned, LookingUp, Resolving
  <2> QED
    BY <1>7, <2>1, <2>2
<1>8. CASE ReadRedis(r)
  <2>1. LookupsOK'
    BY <1>1, <1>5, <1>6, <1>8 DEF ReadRedis, Resolving, RedisEntry
  <2> QED
    BY <1>2, <1>8, <2>1 DEF ReadRedis, TiersOK, AdminOK
<1>9. CASE ReadRedisFails(r)
  <2>1. LookupsOK'
    BY <1>6, <1>9 DEF ReadRedisFails, Resolving
  <2>2. redis' \in RedisEntry
    BY <1>1, <1>9, Entries DEF ReadRedisFails
  <2> QED
    BY <1>2, <1>9, <2>1, <2>2 DEF ReadRedisFails, TiersOK, AdminOK
<1>10. CASE ReadDB(r)
  <2>1. LookupsOK'
    <3>1. row.ver \in 0 .. MaxVersion
      BY <1>1 DEF Versions
    <3> QED
      BY <1>5, <1>7, <1>10, <3>1 DEF ReadDB, Resolving
  <2> QED
    BY <1>2, <1>10, <2>1 DEF ReadDB, TiersOK, AdminOK
<1>11. CASE StoreRedis(r)
  <2>1. LookupsOK'
    BY <1>6, <1>11 DEF StoreRedis, Resolving
  <2>2. redis' \in RedisEntry
    BY <1>1, <1>11, Entries DEF StoreRedis, Requesting
  <2> QED
    BY <1>2, <1>11, <2>1, <2>2 DEF StoreRedis, TiersOK, AdminOK
<1>12. CASE PromoteToL1(r)
  <2>1. LookupsOK'
    BY <1>7, <1>12 DEF PromoteToL1, Resolving
  <2>2. l1' \in [Pods -> L1Entry]
    BY <1>1, <1>12, Entries DEF PromoteToL1, TiersOK, Requesting
  <2> QED
    BY <1>2, <1>12, <2>1, <2>2 DEF PromoteToL1, TiersOK, AdminOK
<1>13. CASE FlightFails(r)
  <2>1. LookupsOK'
    BY <1>7, <1>13 DEF FlightFails
  <2> QED
    BY <1>2, <1>13, <2>1 DEF FlightFails, TiersOK, AdminOK
<1>14. CASE AttachAndWipe(r)
  <2>1. LookupsOK'
    BY <1>14, IdleReqType, RequestMoves DEF AttachAndWipe, Resolving, LookingUp
  <2>2. wiped' \subseteq Requests
    <3>1. CASE \E q \in Requests \ {r} : req[q].buf = req[r].buf
      <4>1. req[r].buf \in Requests
        BY <1>14 DEF AttachAndWipe, LookupsOK, HeldKeys
      <4> QED
        BY <1>14, <3>1, <4>1 DEF AttachAndWipe, TiersOK, AdminOK
    <3>2. CASE ~\E q \in Requests \ {r} : req[q].buf = req[r].buf
      BY <1>14, <3>2 DEF AttachAndWipe, TiersOK, AdminOK
    <3> QED
      BY <3>1, <3>2
  <2> QED
    BY <1>2, <1>14, <2>1, <2>2 DEF AttachAndWipe, TiersOK, AdminOK
<1> QED
  BY <1>3, <1>4, <1>8, <1>9, <1>10, <1>11, <1>12, <1>13, <1>14 DEF RequestStep

LEMMA IdleAdminType ==
  /\ IdleAdmin \in [pc : {"idle", "local", "redis", "publish", "end"}, op : {"none", "seed", "revoke"},
                    pod : Pods \cup {"none"}, ver : 0 .. MaxVersion]
  /\ IdleAdmin.op = "none"
<1>1. 0 \in 0 .. MaxVersion
  BY CacheConstants
<1> QED
  BY <1>1 DEF IdleAdmin

LEMMA AdminStepsKept ==
  ASSUME LookupsOK, TiersOK,
         \/ \E p \in AdminPods : SeedUpdate(p) \/ Revoke(p)
         \/ \E p \in Pods : Receive(p) \/ Evict(p)
         \/ AdminStep
         \/ Tick
  PROVE  LookupsOK' /\ TiersOK'
<1>1. UNCHANGED <<req, flight, wiped>>
  BY DEF SeedUpdate, Revoke, Receive, Evict, AdminStep, InvalidateLocal, InvalidateRedis, Publish, Finish, Tick
<1>2. LookupsOK'
  BY <1>1 DEF LookupsOK, Led, HeldKeys, WaitersAreLed, Pod
<1>3. faults' \in 0 .. MaxFaults
  <2>1. NoFault \/ Fault
    BY DEF SeedUpdate, Revoke, Receive, Evict, AdminStep, InvalidateLocal, InvalidateRedis, Publish, Finish, Tick
  <2> QED
    BY <2>1, CacheConstants DEF NoFault, Fault, TiersOK
<1>4. MaxVersion \in Nat \ {0} /\ AdminPods \subseteq Pods
  BY CacheConstants
<1>5. ASSUME NEW p \in AdminPods, SeedUpdate(p) PROVE TiersOK'
  <2>1. row.ver + 1 \in Versions /\ row.ver + 1 \in 0 .. MaxVersion
    BY <1>4, <1>5 DEF SeedUpdate, TiersOK, Versions
  <2>2. p \in Pods
    BY <1>4
  <2> QED
    BY <1>3, <1>5, <2>1, <2>2 DEF SeedUpdate, TiersOK, AdminOK
<1>6. ASSUME NEW p \in AdminPods, Revoke(p) PROVE TiersOK'
  <2>1. row.ver \in 0 .. MaxVersion /\ p \in Pods
    BY <1>4 DEF TiersOK, Versions
  <2>2. row' \in [ver : Versions, revoked : BOOLEAN]
    BY <1>6 DEF Revoke, TiersOK
  <2> QED
    BY <1>3, <1>6, <2>1, <2>2 DEF Revoke, TiersOK, AdminOK
<1>7. ASSUME NEW p \in Pods, Receive(p) \/ Evict(p) PROVE TiersOK'
  <2>1. l1' \in [Pods -> L1Entry] /\ inbox' \subseteq Pods
    BY <1>7, Entries DEF Receive, Evict, TiersOK
  <2> QED
    BY <1>3, <1>7, <2>1 DEF Receive, Evict, TiersOK, AdminOK
\* The call goes on, or is over
<1>8. ASSUME NEW pc \in {"redis", "publish", "end"}, admin' = [admin EXCEPT !.pc = pc] PROVE AdminOK'
  BY <1>8 DEF TiersOK, AdminOK
<1>9. CASE InvalidateLocal
  <2>1. l1' \in [Pods -> L1Entry]
    BY <1>9, Entries DEF InvalidateLocal, TiersOK
  <2>2. AdminOK'
    BY <1>8, <1>9 DEF InvalidateLocal
  <2> QED
    BY <1>1, <1>2, <1>3, <1>9, <2>1, <2>2 DEF InvalidateLocal, TiersOK
<1>10. CASE InvalidateRedis
  <2>1. redis' \in RedisEntry
    BY <1>10, Entries DEF InvalidateRedis, TiersOK
  <2>2. AdminOK'
    BY <1>8, <1>10 DEF InvalidateRedis
  <2> QED
    BY <1>1, <1>2, <1>3, <1>10, <2>1, <2>2 DEF InvalidateRedis, TiersOK
<1>11. CASE Publish
  <2>1. inbox' \subseteq Pods
    BY <1>11 DEF Publish, TiersOK
  <2>2. AdminOK'
    BY <1>8, <1>11 DEF Publish
  <2> QED
    BY <1>1, <1>2, <1>3, <1>11, <2>1, <2>2 DEF Publish, TiersOK
<1>12. CASE Finish
  <2>1. row' \in [ver : Versions, revoked : BOOLEAN]
    <3>1. CASE row' = [ver |-> admin.ver, revoked |-> FALSE] /\ admin.op = "seed"
      BY <3>1 DEF TiersOK, AdminOK
    <3>2. CASE UNCHANGED row
      BY <3>2 DEF TiersOK
    <3> QED
      BY <1>12, <3>1, <3>2 DEF Finish
  <2>2. AdminOK'
    BY <1>12, IdleAdminType DEF Finish, AdminOK
  <2> QED
    BY <1>1, <1>2, <1>3, <1>12, <2>1, <2>2 DEF Finish, TiersOK
<1>13. CASE Tick
  <2>1. redis' \in RedisEntry
    BY <1>13, Entries DEF Tick, TiersOK
  <2>2. l1' \in [Pods -> L1Entry]
    BY <1>13, Entries DEF Tick, TiersOK
  <2> QED
    BY <1>1, <1>2, <1>3, <1>13, <2>1, <2>2 DEF Tick, TiersOK, AdminOK
<1> QED
  BY <1>2, <1>5, <1>6, <1>7, <1>9, <1>10, <1>11, <1>12, <1>13 DEF AdminStep

LEMMA CacheInductive == Spec => []CacheInv
<1>1. Init => CacheInv
  <2> SUFFICES ASSUME Init PROVE CacheInv
    OBVIOUS
  <2>1. MaxVersion \in Nat \ {0}
    BY CacheConstants
  <2>2. LookupsOK
    <3>1. \A r \in Requests : req[r] = IdleReq
      BY DEF Init
    <3> QED
      BY <3>1, IdleReqType, CacheConstants
         DEF Init, LookupsOK, Led, HeldKeys, WaitersAreLed, LookingUp, Resolving
  <2>3. TiersOK
    <3>1. row \in [ver : Versions, revoked : BOOLEAN]
      BY <2>1 DEF Init, Versions
    <3>2. AdminOK
      BY IdleAdminType DEF Init, AdminOK
    <3>3. faults \in 0 .. MaxFaults
      BY CacheConstants DEF Init
    <3> QED
      BY <3>1, <3>2, <3>3, Entries DEF Init, TiersOK
  <2> QED
    BY <2>2, <2>3, CacheInvParts
<1>2. CacheInv /\ [Next]_vars => CacheInv'
  <2> SUFFICES ASSUME CacheInv, [Next]_vars PROVE CacheInv'
    OBVIOUS
  <2>1. LookupsOK /\ TiersOK
    BY CacheInvParts
  <2>2. LookupsOK' /\ TiersOK'
    <3>1. CASE Next
      BY <2>1, <3>1, RequestStepsKept, AdminStepsKept DEF Next
    <3>2. CASE UNCHANGED vars
      BY <2>1, <3>2 DEF vars, LookupsOK, TiersOK, AdminOK, Led, HeldKeys, WaitersAreLed, Pod
    <3> QED
      BY <3>1, <3>2
  <2> QED
    BY <2>2, CacheInvParts DEF CacheInv, TypeOK, LookupsOK, TiersOK, AdminOK, Led, Requesting, RedisEntry, L1Entry
<1> QED
  BY <1>1, <1>2, PTL DEF Spec

\* Types of the tiers, the requests, the flights and the administration, for any pods and
\* requests; a flight has one leader, and no tier keeps an entry past its expiry.
THEOREM CacheTypeCorrect == Spec => []TypeOK
<1>1. CacheInv => TypeOK
  BY DEF CacheInv
<1> QED
  BY <1>1, CacheInductive, PTL

\* No request waits for a flight that is gone (Manager.flight), however many joined it and
\* however its leader's lookup ended.
THEOREM WaitersAreLedAlways == Spec => []WaitersAreLed
<1>1. CacheInv => WaitersAreLed
  BY DEF CacheInv, TypeOK
<1> QED
  BY <1>1, CacheInductive, PTL
=============================================================================
