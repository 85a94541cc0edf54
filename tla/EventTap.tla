------------------------------ MODULE EventTap ------------------------------
(***************************************************************************)
(* Fan-out of one conversation's Redis stream to the SSE subscribers of    *)
(* one pod (internal/streaming/bus.go, bus_tap.go, bus_subscribe.go).      *)
(*                                                                         *)
(* A tap is one XREAD loop.  Subscribe finds or creates it under tapsMu,   *)
(* attaches under tap.mu, replays (from, cursor at attach] with XRANGE and *)
(* then forwards what the tap broadcasts.  The last subscriber to leave    *)
(* unregisters the tap and stops it.  A step is one critical section, one  *)
(* channel operation or one Redis call.                                    *)
(*                                                                         *)
(* Event ids are 1, 2, 3, ...; id 0 is the empty position "0-0".           *)
(***************************************************************************)
EXTENDS Integers, Sequences, FiniteSets

CONSTANTS
  Clients,     \* bound: Subscribe calls in flight at once on this pod
  Taps,        \* bound: taps alive at once; a tap nobody refers to is reused
  NoTap,
  MaxEvents,   \* bound: events published
  Cursors,     \* ids a client may ask to resume after
  BufSize,     \* capacity of subscriber.ch (64)
  ReadCount    \* Count of XREAD (50)

ASSUME ConstantsOK ==
  /\ NoTap \notin Taps
  /\ Cursors \subseteq Nat
  /\ MaxEvents \in Nat /\ BufSize \in Nat \ {0} /\ ReadCount \in Nat \ {0}

VARIABLES
  published,   \* last id in the stream
  reg,         \* b.taps[convID]
  tap,         \* every tap
  sub          \* every Subscribe call: its goroutine, channel and output

vars == <<published, reg, tap, sub>>
-----------------------------------------------------------------------------
LiveOnly == -1                       \* the cursor "$"
Froms == {LiveOnly} \cup Cursors

\* pc "send" is before a broadcast, "advance" between it and the cursor update.
Tap == [pc : {"read", "send", "advance", "done"}, cursor : Nat, last : Nat,
        stop : BOOLEAN, subs : SUBSET Clients]

Sub == [pc : {"idle", "attach", "backfill", "live", "detach", "unregister", "cancel",
              "wait"},
        tap : Taps \cup {NoTap}, from : Froms, upTo : Nat, next : Nat,
        ch : Seq(Nat), chClosed : BOOLEAN, evicted : BOOLEAN, failed : BOOLEAN,
        got : Seq(Nat)]

\* A tap whose loop has ended; a client with no Subscribe call in flight.
Done == [pc |-> "done", cursor |-> 0, last |-> 0, stop |-> TRUE, subs |-> {}]
Idle == [pc |-> "idle", tap |-> NoTap, from |-> LiveOnly, upTo |-> 0, next |-> 0, ch |-> << >>,
         chClosed |-> FALSE, evicted |-> FALSE, failed |-> FALSE, got |-> << >>]

Init ==
  /\ published = 0
  /\ reg = NoTap
  /\ tap = [t \in Taps |-> Done]
  /\ sub = [c \in Clients |-> Idle]

Publish ==
  /\ published < MaxEvents
  /\ published' = published + 1
  /\ UNCHANGED <<reg, tap, sub>>
-----------------------------------------------------------------------------
(* The tap's loop.                                                         *)

\* XREAD after the cursor; a Redis error or an empty answer goes round again.
XRead(t) ==
  /\ tap[t].pc = "read" /\ ~tap[t].stop /\ tap[t].cursor < published
  /\ \E n \in 1 .. ReadCount :
       /\ tap[t].cursor + n <= published
       /\ n = ReadCount \/ tap[t].cursor + n = published
       /\ tap' = [tap EXCEPT ![t].pc = "send", ![t].last = tap[t].cursor + n]
  /\ UNCHANGED <<published, reg, sub>>

\* Mutant: the send ignores the channel's capacity.
broadcastUnbounded(t) ==
  /\ tap[t].pc = "send"
  /\ tap' = [tap EXCEPT ![t].pc = "advance"]
  /\ sub' = [c \in Clients |->
               IF c \in tap[t].subs THEN [sub[c] EXCEPT !.ch = Append(@, tap[t].cursor + 1)]
               ELSE sub[c]]
  /\ UNCHANGED <<published, reg>>

\* A full channel: the subscriber is dropped and its channels are closed.
broadcast(t) ==
  LET evt == tap[t].cursor + 1
      slow == {c \in tap[t].subs : Len(sub[c].ch) = BufSize}
  IN /\ tap[t].pc = "send"
     /\ tap' = [tap EXCEPT ![t].pc = "advance", ![t].subs = @ \ slow]
     /\ sub' = [c \in Clients |->
                  IF c \in slow THEN [sub[c] EXCEPT !.chClosed = TRUE, !.evicted = TRUE]
                  ELSE IF c \in tap[t].subs THEN [sub[c] EXCEPT !.ch = Append(@, evt)]
                  ELSE sub[c]]
     /\ UNCHANGED <<published, reg>>

Advance(t) ==
  LET next == tap[t].cursor + 1
  IN /\ tap[t].pc = "advance"
     /\ tap' = [tap EXCEPT ![t] =
                 IF next = @.last THEN [@ EXCEPT !.pc = "read", !.cursor = next, !.last = 0]
                 ELSE [@ EXCEPT !.pc = "send", !.cursor = next]]
     /\ UNCHANGED <<published, reg, sub>>

\* Mutant: the loop ends without closing the channels.
ExitSilently(t) ==
  /\ tap[t].pc = "read" /\ tap[t].stop
  /\ tap' = [tap EXCEPT ![t] = Done]
  /\ UNCHANGED <<published, reg, sub>>

\* The loop sees stopCtx done; its defers close every channel still attached.
Exit(t) ==
  /\ tap[t].pc = "read" /\ tap[t].stop
  /\ tap' = [tap EXCEPT ![t] = Done]
  /\ sub' = [c \in Clients |-> IF c \in tap[t].subs THEN [sub[c] EXCEPT !.chClosed = TRUE]
                               ELSE sub[c]]
  /\ UNCHANGED <<published, reg>>
-----------------------------------------------------------------------------
(* Subscribe's goroutine.                                                  *)

\* The call only has to detach: what it has sent no longer matters.
Leave(c) == sub' = [sub EXCEPT ![c] = [@ EXCEPT !.pc = "detach", !.got = << >>, !.from = LiveOnly,
                                                !.upTo = 0, !.next = 0, !.failed = FALSE]]
Goto(c, pc) == sub' = [sub EXCEPT ![c].pc = pc]
CloseUserCh(c) == sub' = [sub EXCEPT ![c] = Idle]

Unused(t) == tap[t].pc = "done" /\ \A c \in Clients : sub[c].tap # t

\* A failed XREVRANGE, the caller's cancelled context included, starts the tap at 0-0.
getOrCreateTap(c, from) ==
  /\ sub[c].pc = "idle" /\ from <= published
  /\ \/ /\ reg # NoTap
        /\ sub' = [sub EXCEPT ![c].pc = "attach", ![c].tap = reg, ![c].from = from]
        /\ UNCHANGED <<reg, tap>>
     \/ /\ reg = NoTap
        /\ \E t \in Taps, cursor \in {0, published} :
             /\ Unused(t)
             /\ reg' = t
             /\ tap' = [tap EXCEPT ![t] = [Done EXCEPT !.pc = "read", !.cursor = cursor,
                                                       !.stop = FALSE]]
             /\ sub' = [sub EXCEPT ![c].pc = "attach", ![c].tap = t, ![c].from = from]
  /\ UNCHANGED published

\* Once the loop has ended subscribers is nil: the insert panics, Subscribe recovers.
attach(c) ==
  LET t == sub[c].tap
  IN /\ sub[c].pc = "attach"
     /\ IF tap[t].pc = "done"
        THEN CloseUserCh(c) /\ UNCHANGED tap
        ELSE /\ tap' = [tap EXCEPT ![t].subs = @ \cup {c}]
             /\ sub' = [sub EXCEPT ![c].pc = IF sub[c].from = LiveOnly THEN "live" ELSE "backfill",
                                   ![c].upTo = tap[t].cursor,
                                   ![c].next = IF sub[c].from = LiveOnly THEN 0
                                               ELSE sub[c].from + 1]
     /\ UNCHANGED <<published, reg>>

\* Mutant: the replay runs to the end of the stream, not to the cursor at attach.
backfillToEnd(c) ==
  /\ sub[c].pc = "backfill"
  /\ IF sub[c].next <= published
     THEN sub' = [sub EXCEPT ![c].got = Append(@, sub[c].next), ![c].next = @ + 1]
     ELSE sub' = [sub EXCEPT ![c].pc = "live", ![c].next = 0]
  /\ UNCHANGED <<published, reg, tap>>

backfill(c) ==
  /\ sub[c].pc = "backfill"
  /\ IF sub[c].next <= sub[c].upTo
     THEN sub' = [sub EXCEPT ![c].got = Append(@, sub[c].next), ![c].next = @ + 1]
     ELSE sub' = [sub EXCEPT ![c].pc = "live", ![c].next = 0]
  /\ UNCHANGED <<published, reg, tap>>

\* XRANGE fails: a warning is logged and the subscriber goes live without its backfill.
BackfillError(c) ==
  /\ sub[c].pc = "backfill" /\ sub[c].got = << >> /\ sub[c].next <= sub[c].upTo
  /\ sub' = [sub EXCEPT ![c].pc = "live", ![c].next = 0, ![c].failed = TRUE]
  /\ UNCHANGED <<published, reg, tap>>

Forward(c) ==
  /\ sub[c].pc = "live" /\ sub[c].ch # << >>
  /\ sub' = [sub EXCEPT ![c].got = Append(@, Head(sub[c].ch)), ![c].ch = Tail(@)]
  /\ UNCHANGED <<published, reg, tap>>

\* select is random: eviction may be seen before what is still buffered.
SeeClosed(c) ==
  /\ sub[c].pc = "live"
  /\ sub[c].evicted \/ (sub[c].chClosed /\ sub[c].ch = << >>)
  /\ Leave(c)
  /\ UNCHANGED <<published, reg, tap>>

CtxDone(c) ==
  /\ sub[c].pc \in {"backfill", "live"}
  /\ Leave(c)
  /\ UNCHANGED <<published, reg, tap>>

\* Mutant: emptiness is read before the subscriber is deleted.
DetachReadsFirst(c) ==
  LET t == sub[c].tap
  IN /\ sub[c].pc = "detach"
     /\ tap' = [tap EXCEPT ![t].subs = @ \ {c}]
     /\ IF tap[t].subs = {}
        THEN sub' = [sub EXCEPT ![c] = [Idle EXCEPT !.pc = "unregister", !.tap = t]]
        ELSE CloseUserCh(c)
     /\ UNCHANGED <<published, reg>>

\* detachSubscriber, in its three critical sections.
Detach(c) ==
  LET t == sub[c].tap
  IN /\ sub[c].pc = "detach"
     /\ tap' = [tap EXCEPT ![t].subs = @ \ {c}]
     /\ IF tap[t].subs \ {c} = {}
        THEN sub' = [sub EXCEPT ![c] = [Idle EXCEPT !.pc = "unregister", !.tap = t]]
        ELSE CloseUserCh(c)
     /\ UNCHANGED <<published, reg>>

Unregister(c) ==
  /\ sub[c].pc = "unregister"
  /\ reg' = IF reg = sub[c].tap THEN NoTap ELSE reg
  /\ Goto(c, "cancel")
  /\ UNCHANGED <<published, tap>>

Cancel(c) ==
  /\ sub[c].pc = "cancel"
  /\ tap' = [tap EXCEPT ![sub[c].tap].stop = TRUE]
  /\ Goto(c, "wait")
  /\ UNCHANGED <<published, reg>>

Wait(c) ==
  /\ sub[c].pc = "wait" /\ tap[sub[c].tap].pc = "done"
  /\ CloseUserCh(c)
  /\ UNCHANGED <<published, reg, tap>>
-----------------------------------------------------------------------------
run(t) == XRead(t) \/ broadcast(t) \/ Advance(t) \/ Exit(t)

Subscribe(c) ==
  \/ attach(c) \/ backfill(c) \/ Forward(c) \/ SeeClosed(c)
  \/ Detach(c) \/ Unregister(c) \/ Cancel(c) \/ Wait(c)

Next ==
  \/ Publish
  \/ \E t \in Taps : run(t)
  \/ \E c \in Clients :
       \/ \E from \in Froms : getOrCreateTap(c, from)
       \/ Subscribe(c) \/ BackfillError(c) \/ CtxDone(c)

\* Goroutines are scheduled and a client reads what it is sent until it leaves;
\* nobody has to publish, subscribe or leave, and Redis need not fail.
Fairness ==
  /\ \A t \in Taps : WF_vars(run(t))
  /\ \A c \in Clients : WF_vars(Subscribe(c))

Spec == Init /\ [][Next]_vars /\ Fairness
-----------------------------------------------------------------------------
(* The taps, channels and outputs hold values of their types.              *)
TypeOK ==
  /\ published \in 0 .. MaxEvents
  /\ reg \in Taps \cup {NoTap}
  /\ tap \in [Taps -> Tap]
  /\ \A t \in Taps : tap[t].cursor <= published /\ tap[t].last <= published
  /\ sub \in [Clients -> Sub]
  /\ \A c \in Clients : Len(sub[c].ch) <= BufSize

Adjacent(c, i) == sub[c].got[i + 1] = sub[c].got[i] + 1

\* Subscribe has a replay to send: the client resumes before the tap's cursor.
ReplayOwed(c) == sub[c].from # LiveOnly /\ sub[c].from < sub[c].upTo

(* What a client is sent is a run of consecutive events that starts right   *)
(* after its cursor, except in three ways, whatever the interleaving of the *)
(* loop, the replay, evictions and teardown.  First, the one event the tap  *)
(* was broadcasting when the client attached may be missing, at the seam of *)
(* replay and live events or in front of them.  Second, after a failed      *)
(* XRANGE the whole replay is missing.  Third, a client whose cursor is     *)
(* ahead of the tap's is sent what lies between the two once more.  These   *)
(* are where the code falls short of bus.go:13-16, "There are no duplicates *)
(* and no gaps".  A full channel, a closing tap and the random select cost  *)
(* a suffix, never an event in the middle, and nothing is out of order.     *)
OnlyNamedGaps ==
  \A c \in Clients :
    LET s == sub[c]
    IN /\ \A i \in 1 .. Len(s.got) - 1 :
            Adjacent(c, i) \/ (s.got[i] = s.upTo /\ s.got[i + 1] = s.upTo + 2)
       /\ s.got # << >> =>
            s.got[1] \in IF ReplayOwed(c) /\ ~s.failed THEN {s.from + 1}
                         ELSE {s.upTo + 1, s.upTo + 2}

(* A client that keeps reading catches up with the stream (bar the event    *)
(* being broadcast when it attached), or its channel is closed so that it   *)
(* reconnects: it never hangs on a tap that was torn down under it.         *)
DeliveredOrClosed ==
  \A c \in Clients :
    sub[c].pc = "live" ~>
      \/ sub[c].pc = "idle"
      \/ published <= sub[c].upTo + 1
      \/ sub[c].got # << >> /\ sub[c].got[Len(sub[c].got)] = published

(* Taps do not leak: when no Subscribe call is left, no XREAD loop is.      *)
NoLeakedTap ==
  (\A c \in Clients : sub[c].pc = "idle") => (\A t \in Taps : tap[t].pc = "done")
=============================================================================
