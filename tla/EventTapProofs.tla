--------------------------- MODULE EventTapProofs ---------------------------
(***************************************************************************)
(* Proofs about EventTap, for any number of clients, taps and events, any  *)
(* channel capacity and any read count.                                    *)
(*                                                                         *)
(* NoLeakedTap needs who holds a tap (Registered): a client listed in a    *)
(* tap has it, and a tap whose loop runs has a client.  OnlyNamedGaps needs *)
(* what is on its way to a client (Ordered): the channel is a run of       *)
(* consecutive events that continues what the client got, and the tap's    *)
(* next broadcast continues the channel.                                   *)
(***************************************************************************)
EXTENDS EventTap, TLAPS

\* Who holds a tap
Holds(c) == IF sub[c].pc = "idle" THEN sub[c].tap = NoTap ELSE sub[c].tap \in Taps
Listed(t) == \A c \in tap[t].subs : /\ sub[c].tap = t
                                    /\ sub[c].pc \in {"backfill", "live", "detach"}
Kept(t) == tap[t].pc # "done" => \E c \in Clients : sub[c].tap = t

Registered ==
  /\ \A c \in Clients : Holds(c)
  /\ \A t \in Taps : Listed(t) /\ Kept(t)

\* The batch a tap has read is not empty before it has sent all of it
Reading(t) == tap[t].pc \in {"send", "advance"} => tap[t].cursor < tap[t].last

\* The event the tap sends next, and what may follow what a client got
NextSent(t) == IF tap[t].pc = "advance" THEN tap[t].cursor + 2 ELSE tap[t].cursor + 1
Follows(c, e) ==
  LET got == sub[c].got u == sub[c].upTo IN
  IF got = << >> \/ sub[c].pc = "backfill" THEN e \in {u + 1, u + 2}
  ELSE e = got[Len(got)] + 1 \/ (got[Len(got)] = u /\ e = u + 2)

\* The channel continues what the client got, and the tap the channel
Consecutive(s) == \A i \in 1 .. Len(s) - 1 : s[i + 1] = s[i] + 1
Queued(c) ==
  LET ch == sub[c].ch t == sub[c].tap IN
  /\ Consecutive(ch)
  /\ ch # << >> => Follows(c, ch[1])
  /\ c \in tap[t].subs =>
       IF ch = << >> THEN Follows(c, NextSent(t)) ELSE NextSent(t) = ch[Len(ch)] + 1

\* What the replay has sent, and where it goes on
Replaying(c) ==
  LET got == sub[c].got IN
  /\ sub[c].from \in Cursors /\ ~sub[c].failed
  /\ IF got = << >> THEN sub[c].next = sub[c].from + 1
     ELSE /\ sub[c].from < sub[c].upTo /\ sub[c].next <= sub[c].upTo + 1
          /\ sub[c].next = got[Len(got)] + 1
          /\ \A i \in 1 .. Len(got) - 1 : got[i + 1] = got[i] + 1

Replayed(c) == ReplayOwed(c) /\ ~sub[c].failed

\* Between calls there is nothing to send, and a live client that got nothing was
\* owed no replay
Settled(c) ==
  /\ sub[c].pc \notin {"backfill", "live"} => sub[c].got = << >>
  /\ sub[c].pc \in {"idle", "attach"} => sub[c].ch = << >> /\ ~sub[c].failed
  /\ sub[c].pc = "live" /\ Replayed(c) => sub[c].got # << >>

\* OnlyNamedGaps, of one client
Gapless(c) ==
  /\ \A i \in 1 .. Len(sub[c].got) - 1 :
       Adjacent(c, i) \/ (sub[c].got[i] = sub[c].upTo /\ sub[c].got[i + 1] = sub[c].upTo + 2)
  /\ sub[c].got # << >> =>
       sub[c].got[1] \in IF Replayed(c) THEN {sub[c].from + 1}
                         ELSE {sub[c].upTo + 1, sub[c].upTo + 2}

InOrder(c) == /\ Settled(c) /\ Gapless(c)
              /\ sub[c].pc \in {"backfill", "live"} => Queued(c)
              /\ sub[c].pc = "backfill" => Replaying(c)

Ordered == (\A t \in Taps : Reading(t)) /\ (\A c \in Clients : InOrder(c))

IndInv == TypeOK /\ Registered /\ Ordered
-----------------------------------------------------------------------------
(* The records a call and a tap start from have their types.               *)
LEMMA StartTyped == Idle \in Sub /\ Done \in Tap /\ Froms \subseteq Int /\ LiveOnly \in Froms
<1>1. Idle \in Sub
  BY DEF Idle, Sub, Froms
<1>2. Done \in Tap
  BY DEF Done, Tap
<1> QED
  BY <1>1, <1>2, ConstantsOK DEF Froms, LiveOnly

(* Lemmas on sequences: a number appended after the last one, and the rest *)
(* of a channel once its head is taken.                                    *)
LEMMA AppendChain ==
  ASSUME NEW s \in Seq(Nat), NEW x \in Nat
  PROVE  /\ Append(s, x) \in Seq(Nat) /\ Len(Append(s, x)) = Len(s) + 1
         /\ Append(s, x) # << >>
         /\ Append(s, x)[Len(s) + 1] = x
         /\ \A i \in 1 .. Len(s) : Append(s, x)[i] = s[i]
         /\ s # << >> => Append(s, x)[1] = s[1] /\ Len(s) \in Nat \ {0}
         /\ s = << >> => Append(s, x)[1] = x
OBVIOUS

LEMMA TailChain ==
  ASSUME NEW s \in Seq(Nat), s # << >>, Consecutive(s)
  PROVE  /\ Head(s) = s[1] /\ s[1] \in Nat /\ Tail(s) \in Seq(Nat)
         /\ Len(Tail(s)) = Len(s) - 1
         /\ Consecutive(Tail(s))
         /\ Tail(s) = << >> => s[Len(s)] = s[1]
         /\ Tail(s) # << >> => Tail(s)[1] = s[1] + 1 /\ Tail(s)[Len(Tail(s))] = s[Len(s)]
<1>1. /\ Len(s) \in Nat \ {0} /\ Len(Tail(s)) = Len(s) - 1 /\ Tail(s) \in Seq(Nat)
      /\ \A i \in 1 .. Len(Tail(s)) : Tail(s)[i] = s[i + 1]
      /\ Head(s) = s[1] /\ s[1] \in Nat
  OBVIOUS
<1>2. Consecutive(Tail(s))
  BY <1>1 DEF Consecutive
<1>3. ASSUME Tail(s) = << >> PROVE s[Len(s)] = s[1]
  <2>1. Len(<< >>) = 0
    OBVIOUS
  <2>2. Len(Tail(s)) = 0
    BY <1>3, <2>1, Zenon
  <2> QED
    BY <1>1, <2>2
<1>4. ASSUME Tail(s) # << >> PROVE Tail(s)[1] = s[1] + 1 /\ Tail(s)[Len(Tail(s))] = s[Len(s)]
  <2>1. Len(s) > 1
    BY <1>1, <1>4
  <2> QED
    BY <1>1, <2>1 DEF Consecutive
<1> QED
  BY <1>1, <1>2, <1>3, <1>4

(* What the steps of a call do to its record.                              *)
LEMMA GotoEffect ==
  ASSUME TypeOK, NEW c \in Clients, NEW pc \in {"cancel", "wait"}, Goto(c, pc)
  PROVE  /\ sub'[c].pc = pc /\ sub'[c].tap = sub[c].tap /\ sub'[c].from = sub[c].from
         /\ sub'[c].upTo = sub[c].upTo /\ sub'[c].next = sub[c].next
         /\ sub'[c].ch = sub[c].ch /\ sub'[c].failed = sub[c].failed
         /\ sub'[c].got = sub[c].got
         /\ sub'[c] \in Sub
         /\ \A v \in Clients \ {c} : sub'[v] = sub[v]
         /\ sub' \in [Clients -> Sub]
<1> DEFINE u == [sub[c] EXCEPT !.pc = pc]
<1>1. sub[c] \in Sub /\ c \in Clients
  BY DEF TypeOK, Goto
<1>2. sub' = [sub EXCEPT ![c] = u]
  BY <1>1 DEF Goto, TypeOK, Sub
<1>3. sub'[c] = u /\ \A v \in Clients \ {c} : sub'[v] = sub[v]
  BY <1>1, <1>2 DEF TypeOK
<1>4. /\ u.pc = pc /\ u.tap = sub[c].tap /\ u.from = sub[c].from /\ u.upTo = sub[c].upTo
      /\ u.next = sub[c].next /\ u.ch = sub[c].ch /\ u.failed = sub[c].failed
      /\ u.got = sub[c].got
  BY <1>1 DEF Sub
<1>5. u \in Sub
  BY <1>1 DEF Sub
<1>6. sub' \in [Clients -> Sub]
  BY <1>2, <1>5 DEF TypeOK
<1> QED
  BY <1>3, <1>4, <1>5, <1>6

(* The empty channel and output, and the record Leave leaves behind.       *)
LEMMA EmptyTyped == << >> \in Seq(Nat)
OBVIOUS

LEMMA LeftTyped ==
  ASSUME NEW r \in Sub, NEW s \in Seq(Nat), NEW f \in Froms
  PROVE  [r EXCEPT !.pc = "detach", !.got = s, !.from = f, !.upTo = 0, !.next = 0,
                   !.failed = FALSE] \in Sub
BY DEF Sub

(* Leave drops what a call was to send.                                    *)
LEMMA LeaveEffect ==
  ASSUME TypeOK, NEW c \in Clients, Leave(c)
  PROVE  /\ sub'[c].pc = "detach" /\ sub'[c].tap = sub[c].tap /\ sub'[c].from = LiveOnly
         /\ sub'[c].upTo = 0 /\ sub'[c].next = 0 /\ sub'[c].ch = sub[c].ch
         /\ sub'[c].failed = FALSE /\ sub'[c].got = << >>
         /\ sub'[c] \in Sub
         /\ \A v \in Clients \ {c} : sub'[v] = sub[v]
         /\ sub' \in [Clients -> Sub]
<1> DEFINE u == [sub[c] EXCEPT !.pc = "detach", !.got = << >>, !.from = LiveOnly,
                             !.upTo = 0, !.next = 0, !.failed = FALSE]
<1>1. sub[c] \in Sub /\ c \in Clients
  BY DEF TypeOK, Leave
<1>2. sub' = [sub EXCEPT ![c] = u]
  BY <1>1 DEF Leave, TypeOK, Sub
<1>3. sub'[c] = u /\ \A v \in Clients \ {c} : sub'[v] = sub[v]
  BY <1>1, <1>2 DEF TypeOK
<1>4. /\ u.pc = "detach" /\ u.tap = sub[c].tap /\ u.from = LiveOnly /\ u.upTo = 0
      /\ u.next = 0 /\ u.ch = sub[c].ch /\ u.failed = FALSE /\ u.got = << >>
  BY <1>1 DEF Sub
<1>5. u \in Sub
  BY <1>1, LeftTyped, EmptyTyped, StartTyped
<1>6. sub' \in [Clients -> Sub]
  BY <1>2, <1>5 DEF TypeOK
<1> QED
  BY <1>3, <1>4, <1>5, <1>6

(* getOrCreateTap, once it has the tap.                                    *)
LEMMA AcquireEffect ==
  ASSUME TypeOK, NEW c \in Clients, NEW t \in Taps, NEW from \in Froms, 
         sub' = [sub EXCEPT ![c].pc = "attach", ![c].tap = t, ![c].from = from]
  PROVE  /\ sub'[c].pc = "attach" /\ sub'[c].tap = t /\ sub'[c].from = from
         /\ sub'[c].upTo = sub[c].upTo /\ sub'[c].next = sub[c].next
         /\ sub'[c].ch = sub[c].ch /\ sub'[c].failed = sub[c].failed
         /\ sub'[c].got = sub[c].got
         /\ sub'[c] \in Sub
         /\ \A v \in Clients \ {c} : sub'[v] = sub[v]
         /\ sub' \in [Clients -> Sub]
<1> DEFINE u == [sub[c] EXCEPT !.pc = "attach", !.tap = t, !.from = from]
<1>1. sub[c] \in Sub /\ c \in Clients
  BY DEF TypeOK, Sub
<1>2. sub' = [sub EXCEPT ![c] = u]
  BY <1>1 DEF Sub, TypeOK, Sub
<1>3. sub'[c] = u /\ \A v \in Clients \ {c} : sub'[v] = sub[v]
  BY <1>1, <1>2 DEF TypeOK
<1>4. /\ u.pc = "attach" /\ u.tap = t /\ u.from = from /\ u.upTo = sub[c].upTo
      /\ u.next = sub[c].next /\ u.ch = sub[c].ch /\ u.failed = sub[c].failed
      /\ u.got = sub[c].got
  BY <1>1 DEF Sub
<1>5. u \in Sub
  BY <1>1 DEF Sub
<1>6. sub' \in [Clients -> Sub]
  BY <1>2, <1>5 DEF TypeOK
<1> QED
  BY <1>3, <1>4, <1>5, <1>6

(* backfill, a replayed event                                              *)
LEMMA ReplayEffect ==
  ASSUME TypeOK, NEW c \in Clients, 
         sub' = [sub EXCEPT ![c].got = Append(@, sub[c].next), ![c].next = @ + 1]
  PROVE  /\ sub'[c].pc = sub[c].pc /\ sub'[c].tap = sub[c].tap
         /\ sub'[c].from = sub[c].from /\ sub'[c].upTo = sub[c].upTo
         /\ sub'[c].next = sub[c].next + 1 /\ sub'[c].ch = sub[c].ch
         /\ sub'[c].failed = sub[c].failed
         /\ sub'[c].got = Append(sub[c].got, sub[c].next)
         /\ sub'[c] \in Sub
         /\ \A v \in Clients \ {c} : sub'[v] = sub[v]
         /\ sub' \in [Clients -> Sub]
<1> DEFINE u == [sub[c] EXCEPT !.got = Append(@, sub[c].next), !.next = @ + 1]
<1>1. sub[c] \in Sub /\ c \in Clients
  BY DEF TypeOK, Sub
<1>2. sub' = [sub EXCEPT ![c] = u]
  BY <1>1 DEF Sub, TypeOK, Sub
<1>3. sub'[c] = u /\ \A v \in Clients \ {c} : sub'[v] = sub[v]
  BY <1>1, <1>2 DEF TypeOK
<1>4. /\ u.pc = sub[c].pc /\ u.tap = sub[c].tap /\ u.from = sub[c].from
      /\ u.upTo = sub[c].upTo /\ u.next = sub[c].next + 1 /\ u.ch = sub[c].ch
      /\ u.failed = sub[c].failed /\ u.got = Append(sub[c].got, sub[c].next)
  BY <1>1 DEF Sub
<1>5. u \in Sub
  <2>1. Append(sub[c].got, sub[c].next) \in Seq(Nat) /\ sub[c].next + 1 \in Nat
    BY <1>1, AppendChain DEF Sub
  <2> QED
    BY <1>1, <2>1 DEF Sub
<1>6. sub' \in [Clients -> Sub]
  BY <1>2, <1>5 DEF TypeOK
<1> QED
  BY <1>3, <1>4, <1>5, <1>6

(* and its end.                                                            *)
LEMMA LiveEffect ==
  ASSUME TypeOK, NEW c \in Clients, 
         sub' = [sub EXCEPT ![c].pc = "live", ![c].next = 0]
  PROVE  /\ sub'[c].pc = "live" /\ sub'[c].tap = sub[c].tap /\ sub'[c].from = sub[c].from
         /\ sub'[c].upTo = sub[c].upTo /\ sub'[c].next = 0 /\ sub'[c].ch = sub[c].ch
         /\ sub'[c].failed = sub[c].failed /\ sub'[c].got = sub[c].got
         /\ sub'[c] \in Sub
         /\ \A v \in Clients \ {c} : sub'[v] = sub[v]
         /\ sub' \in [Clients -> Sub]
<1> DEFINE u == [sub[c] EXCEPT !.pc = "live", !.next = 0]
<1>1. sub[c] \in Sub /\ c \in Clients
  BY DEF TypeOK, Sub
<1>2. sub' = [sub EXCEPT ![c] = u]
  BY <1>1 DEF Sub, TypeOK, Sub
<1>3. sub'[c] = u /\ \A v \in Clients \ {c} : sub'[v] = sub[v]
  BY <1>1, <1>2 DEF TypeOK
<1>4. /\ u.pc = "live" /\ u.tap = sub[c].tap /\ u.from = sub[c].from
      /\ u.upTo = sub[c].upTo /\ u.next = 0 /\ u.ch = sub[c].ch
      /\ u.failed = sub[c].failed /\ u.got = sub[c].got
  BY <1>1 DEF Sub
<1>5. u \in Sub
  BY <1>1 DEF Sub
<1>6. sub' \in [Clients -> Sub]
  BY <1>2, <1>5 DEF TypeOK
<1> QED
  BY <1>3, <1>4, <1>5, <1>6

(* BackfillError.                                                          *)
LEMMA SkipEffect ==
  ASSUME TypeOK, NEW c \in Clients, BackfillError(c)
  PROVE  /\ sub'[c].pc = "live" /\ sub'[c].tap = sub[c].tap /\ sub'[c].from = sub[c].from
         /\ sub'[c].upTo = sub[c].upTo /\ sub'[c].next = 0 /\ sub'[c].ch = sub[c].ch
         /\ sub'[c].failed = TRUE /\ sub'[c].got = sub[c].got
         /\ sub'[c] \in Sub
         /\ \A v \in Clients \ {c} : sub'[v] = sub[v]
         /\ sub' \in [Clients -> Sub]
<1> DEFINE u == [sub[c] EXCEPT !.pc = "live", !.next = 0, !.failed = TRUE]
<1>1. sub[c] \in Sub /\ c \in Clients
  BY DEF TypeOK, BackfillError
<1>2. sub' = [sub EXCEPT ![c] = u]
  BY <1>1 DEF BackfillError, TypeOK, Sub
<1>3. sub'[c] = u /\ \A v \in Clients \ {c} : sub'[v] = sub[v]
  BY <1>1, <1>2 DEF TypeOK
<1>4. /\ u.pc = "live" /\ u.tap = sub[c].tap /\ u.from = sub[c].from
      /\ u.upTo = sub[c].upTo /\ u.next = 0 /\ u.ch = sub[c].ch /\ u.failed = TRUE
      /\ u.got = sub[c].got
  BY <1>1 DEF Sub
<1>5. u \in Sub
  BY <1>1 DEF Sub
<1>6. sub' \in [Clients -> Sub]
  BY <1>2, <1>5 DEF TypeOK
<1> QED
  BY <1>3, <1>4, <1>5, <1>6

(* The record Forward leaves behind.                                       *)
LEMMA ForwardTyped ==
  ASSUME NEW r \in Sub, NEW s \in Seq(Nat), NEW q \in Seq(Nat)
  PROVE  [r EXCEPT !.got = s, !.ch = q] \in Sub
BY DEF Sub

(* Forward.                                                                *)
LEMMA ForwardEffect ==
  ASSUME TypeOK, NEW c \in Clients, Forward(c), Consecutive(sub[c].ch)
  PROVE  /\ sub'[c].pc = sub[c].pc /\ sub'[c].tap = sub[c].tap
         /\ sub'[c].from = sub[c].from /\ sub'[c].upTo = sub[c].upTo
         /\ sub'[c].next = sub[c].next /\ sub'[c].ch = Tail(sub[c].ch)
         /\ sub'[c].failed = sub[c].failed
         /\ sub'[c].got = Append(sub[c].got, Head(sub[c].ch))
         /\ sub'[c] \in Sub
         /\ \A v \in Clients \ {c} : sub'[v] = sub[v]
         /\ sub' \in [Clients -> Sub]
<1> DEFINE u == [sub[c] EXCEPT !.got = Append(@, Head(sub[c].ch)), !.ch = Tail(@)]
<1>1. sub[c] \in Sub /\ c \in Clients
  BY DEF TypeOK, Forward
<1>2. sub' = [sub EXCEPT ![c] = u]
  BY <1>1 DEF Forward, TypeOK, Sub
<1>3. sub'[c] = u /\ \A v \in Clients \ {c} : sub'[v] = sub[v]
  BY <1>1, <1>2 DEF TypeOK
<1>4. /\ u.pc = sub[c].pc /\ u.tap = sub[c].tap /\ u.from = sub[c].from
      /\ u.upTo = sub[c].upTo /\ u.next = sub[c].next /\ u.ch = Tail(sub[c].ch)
      /\ u.failed = sub[c].failed /\ u.got = Append(sub[c].got, Head(sub[c].ch))
  BY <1>1 DEF Sub
<1>5. u \in Sub
  <2>1. sub[c].ch # << >> /\ sub[c].ch \in Seq(Nat) /\ sub[c].got \in Seq(Nat)
    BY <1>1 DEF Forward, Sub
  <2>2. Tail(sub[c].ch) \in Seq(Nat) /\ Head(sub[c].ch) \in Nat
    BY <2>1, TailChain
  <2>3. Append(sub[c].got, Head(sub[c].ch)) \in Seq(Nat)
    BY <2>1, <2>2, AppendChain
  <2> QED
    BY <1>1, <2>2, <2>3, ForwardTyped
<1>6. sub' \in [Clients -> Sub]
  BY <1>2, <1>5 DEF TypeOK
<1> QED
  BY <1>3, <1>4, <1>5, <1>6

(* CloseUserCh, and Detach of the last subscriber, start a new record.     *)
LEMMA CloseEffect ==
  ASSUME TypeOK, NEW c \in Clients, CloseUserCh(c)
  PROVE  /\ sub'[c].pc = "idle" /\ sub'[c].tap = NoTap /\ sub'[c].ch = << >>
         /\ sub'[c].got = << >> /\ ~sub'[c].failed /\ sub'[c] \in Sub
         /\ \A v \in Clients \ {c} : sub'[v] = sub[v]
         /\ sub' \in [Clients -> Sub]
BY StartTyped DEF CloseUserCh, Idle, TypeOK

LEMMA LastEffect ==
  ASSUME TypeOK, NEW c \in Clients, NEW t \in Taps,
         sub' = [sub EXCEPT ![c] = [Idle EXCEPT !.pc = "unregister", !.tap = t]]
  PROVE  /\ sub'[c].pc = "unregister" /\ sub'[c].tap = t /\ sub'[c].ch = << >>
         /\ sub'[c].got = << >> /\ ~sub'[c].failed /\ sub'[c] \in Sub
         /\ \A v \in Clients \ {c} : sub'[v] = sub[v]
         /\ sub' \in [Clients -> Sub]
<1> DEFINE u == [Idle EXCEPT !.pc = "unregister", !.tap = t]
<1>1. u \in Sub
  BY StartTyped DEF Sub
<1>2. u.pc = "unregister" /\ u.tap = t /\ u.ch = << >> /\ u.got = << >> /\ ~u.failed
  BY DEF Idle
<1> QED
  BY <1>1, <1>2 DEF TypeOK

(* What the steps of a loop, and of the calls, do to a tap: XRead,         *)
LEMMA XReadEffect ==
  ASSUME TypeOK, NEW t \in Taps, NEW n \in Nat, 
         tap' = [tap EXCEPT ![t].pc = "send", ![t].last = n]
  PROVE  /\ tap'[t].pc = "send" /\ tap'[t].cursor = tap[t].cursor /\ tap'[t].last = n
         /\ tap'[t].stop = tap[t].stop /\ tap'[t].subs = tap[t].subs
         /\ tap'[t] \in Tap
         /\ \A v \in Taps \ {t} : tap'[v] = tap[v]
         /\ tap' \in [Taps -> Tap]
<1> DEFINE u == [tap[t] EXCEPT !.pc = "send", !.last = n]
<1>1. tap[t] \in Tap /\ t \in Taps
  BY DEF TypeOK, Tap
<1>2. tap' = [tap EXCEPT ![t] = u]
  BY <1>1 DEF Tap, TypeOK, Tap
<1>3. tap'[t] = u /\ \A v \in Taps \ {t} : tap'[v] = tap[v]
  BY <1>1, <1>2 DEF TypeOK
<1>4. /\ u.pc = "send" /\ u.cursor = tap[t].cursor /\ u.last = n /\ u.stop = tap[t].stop
      /\ u.subs = tap[t].subs
  BY <1>1 DEF Tap
<1>5. u \in Tap
  BY <1>1 DEF Tap
<1>6. tap' \in [Taps -> Tap]
  BY <1>2, <1>5 DEF TypeOK
<1> QED
  BY <1>3, <1>4, <1>5, <1>6

(* broadcast,                                                              *)
LEMMA SendEffect ==
  ASSUME TypeOK, NEW t \in Taps, NEW D, 
         tap' = [tap EXCEPT ![t].pc = "advance", ![t].subs = @ \ D]
  PROVE  /\ tap'[t].pc = "advance" /\ tap'[t].cursor = tap[t].cursor
         /\ tap'[t].last = tap[t].last /\ tap'[t].stop = tap[t].stop
         /\ tap'[t].subs = tap[t].subs \ D
         /\ tap'[t] \in Tap
         /\ \A v \in Taps \ {t} : tap'[v] = tap[v]
         /\ tap' \in [Taps -> Tap]
<1> DEFINE u == [tap[t] EXCEPT !.pc = "advance", !.subs = @ \ D]
<1>1. tap[t] \in Tap /\ t \in Taps
  BY DEF TypeOK, Tap
<1>2. tap' = [tap EXCEPT ![t] = u]
  BY <1>1 DEF Tap, TypeOK, Tap
<1>3. tap'[t] = u /\ \A v \in Taps \ {t} : tap'[v] = tap[v]
  BY <1>1, <1>2 DEF TypeOK
<1>4. /\ u.pc = "advance" /\ u.cursor = tap[t].cursor /\ u.last = tap[t].last
      /\ u.stop = tap[t].stop /\ u.subs = tap[t].subs \ D
  BY <1>1 DEF Tap
<1>5. u \in Tap
  BY <1>1 DEF Tap
<1>6. tap' \in [Taps -> Tap]
  BY <1>2, <1>5 DEF TypeOK
<1> QED
  BY <1>3, <1>4, <1>5, <1>6

(* attach and Detach,                                                      *)
LEMMA ListEffect ==
  ASSUME TypeOK, NEW t \in Taps, NEW D \in SUBSET Clients, tap' = [tap EXCEPT ![t].subs = D]
  PROVE  /\ tap'[t].pc = tap[t].pc /\ tap'[t].cursor = tap[t].cursor
         /\ tap'[t].last = tap[t].last /\ tap'[t].stop = tap[t].stop /\ tap'[t].subs = D
         /\ tap'[t] \in Tap
         /\ \A v \in Taps \ {t} : tap'[v] = tap[v]
         /\ tap' \in [Taps -> Tap]
<1> DEFINE u == [tap[t] EXCEPT !.subs = D]
<1>1. tap[t] \in Tap /\ t \in Taps
  BY DEF TypeOK, Tap
<1>2. tap' = [tap EXCEPT ![t] = u]
  BY <1>1 DEF Tap, TypeOK, Tap
<1>3. tap'[t] = u /\ \A v \in Taps \ {t} : tap'[v] = tap[v]
  BY <1>1, <1>2 DEF TypeOK
<1>4. /\ u.pc = tap[t].pc /\ u.cursor = tap[t].cursor /\ u.last = tap[t].last
      /\ u.stop = tap[t].stop /\ u.subs = D
  BY <1>1 DEF Tap
<1>5. u \in Tap
  BY <1>1 DEF Tap
<1>6. tap' \in [Taps -> Tap]
  BY <1>2, <1>5 DEF TypeOK
<1> QED
  BY <1>3, <1>4, <1>5, <1>6

(* Cancel.                                                                 *)
LEMMA StopEffect ==
  ASSUME TypeOK, NEW t \in Taps, tap' = [tap EXCEPT ![t].stop = TRUE]
  PROVE  /\ tap'[t].pc = tap[t].pc /\ tap'[t].cursor = tap[t].cursor
         /\ tap'[t].last = tap[t].last /\ tap'[t].stop = TRUE
         /\ tap'[t].subs = tap[t].subs
         /\ tap'[t] \in Tap
         /\ \A v \in Taps \ {t} : tap'[v] = tap[v]
         /\ tap' \in [Taps -> Tap]
<1> DEFINE u == [tap[t] EXCEPT !.stop = TRUE]
<1>1. tap[t] \in Tap /\ t \in Taps
  BY DEF TypeOK, Tap
<1>2. tap' = [tap EXCEPT ![t] = u]
  BY <1>1 DEF Tap, TypeOK, Tap
<1>3. tap'[t] = u /\ \A v \in Taps \ {t} : tap'[v] = tap[v]
  BY <1>1, <1>2 DEF TypeOK
<1>4. /\ u.pc = tap[t].pc /\ u.cursor = tap[t].cursor /\ u.last = tap[t].last
      /\ u.stop = TRUE /\ u.subs = tap[t].subs
  BY <1>1 DEF Tap
<1>5. u \in Tap
  BY <1>1 DEF Tap
<1>6. tap' \in [Taps -> Tap]
  BY <1>2, <1>5 DEF TypeOK
<1> QED
  BY <1>3, <1>4, <1>5, <1>6

(* Advance goes on with the batch or reads the next one.                   *)
LEMMA AdvanceEffect ==
  ASSUME TypeOK, NEW t \in Taps, Advance(t)
  PROVE  /\ tap'[t].pc = IF tap[t].cursor + 1 = tap[t].last THEN "read" ELSE "send"
         /\ tap'[t].cursor = tap[t].cursor + 1 /\ tap'[t].subs = tap[t].subs
         /\ tap'[t].last = IF tap[t].cursor + 1 = tap[t].last THEN 0 ELSE tap[t].last
         /\ tap'[t] \in Tap
         /\ \A v \in Taps \ {t} : tap'[v] = tap[v]
         /\ tap' \in [Taps -> Tap]
<1> DEFINE next == tap[t].cursor + 1
           a == [tap[t] EXCEPT !.pc = "read", !.cursor = next, !.last = 0]
           b == [tap[t] EXCEPT !.pc = "send", !.cursor = next]
<1>1. tap[t] \in Tap /\ next \in Nat
  BY DEF TypeOK, Tap
<1>2. tap' = [tap EXCEPT ![t] = IF next = tap[t].last THEN a ELSE b]
  BY DEF Advance
<1>3. /\ tap'[t] = IF next = tap[t].last THEN a ELSE b
      /\ \A v \in Taps \ {t} : tap'[v] = tap[v]
  BY <1>2 DEF TypeOK
<1>4. /\ a.pc = "read" /\ a.cursor = next /\ a.last = 0 /\ a.subs = tap[t].subs
      /\ b.pc = "send" /\ b.cursor = next /\ b.last = tap[t].last /\ b.subs = tap[t].subs
  BY <1>1 DEF Tap
<1>5. a \in Tap /\ b \in Tap
  BY <1>1 DEF Tap
<1>6. tap' \in [Taps -> Tap]
  BY <1>2, <1>5 DEF TypeOK
<1> QED
  BY <1>3, <1>4, <1>5, <1>6

(* broadcast and Exit touch the channels of the listed clients only.       *)
LEMMA BroadcastEffect ==
  ASSUME TypeOK, NEW t \in Taps, broadcast(t), NEW c \in Clients
  PROVE  /\ sub'[c].pc = sub[c].pc /\ sub'[c].tap = sub[c].tap /\ sub'[c].from = sub[c].from
         /\ sub'[c].upTo = sub[c].upTo /\ sub'[c].next = sub[c].next
         /\ sub'[c].failed = sub[c].failed /\ sub'[c].got = sub[c].got
         /\ sub'[c].ch = IF c \in tap[t].subs /\ Len(sub[c].ch) # BufSize
                         THEN Append(sub[c].ch, tap[t].cursor + 1) ELSE sub[c].ch
         /\ sub'[c] \in Sub
<1> DEFINE s == [sub[c] EXCEPT !.chClosed = TRUE, !.evicted = TRUE]
           u == [sub[c] EXCEPT !.ch = Append(@, tap[t].cursor + 1)]
<1>1. sub[c] \in Sub /\ tap[t].cursor + 1 \in Nat
  BY DEF TypeOK, Tap
<1>2. /\ c \in tap[t].subs /\ Len(sub[c].ch) = BufSize => sub'[c] = s
      /\ c \in tap[t].subs /\ Len(sub[c].ch) # BufSize => sub'[c] = u
      /\ c \notin tap[t].subs => sub'[c] = sub[c]
  BY DEF broadcast
<1>3. /\ s.pc = sub[c].pc /\ s.tap = sub[c].tap /\ s.from = sub[c].from
      /\ s.upTo = sub[c].upTo
      /\ s.next = sub[c].next /\ s.failed = sub[c].failed /\ s.got = sub[c].got
      /\ s.ch = sub[c].ch
  BY <1>1 DEF Sub
<1>4. /\ u.pc = sub[c].pc /\ u.tap = sub[c].tap /\ u.from = sub[c].from
      /\ u.upTo = sub[c].upTo
      /\ u.next = sub[c].next /\ u.failed = sub[c].failed /\ u.got = sub[c].got
      /\ u.ch = Append(sub[c].ch, tap[t].cursor + 1)
  BY <1>1 DEF Sub
<1>5. s \in Sub
  BY <1>1 DEF Sub
<1>6. u \in Sub
  <2>1. sub[c].ch \in Seq(Nat) /\ sub[c].got \in Seq(Nat)
    BY <1>1 DEF Sub
  <2>2. Append(sub[c].ch, tap[t].cursor + 1) \in Seq(Nat)
    BY <1>1, <2>1, AppendChain
  <2> QED
    BY <1>1, <2>2 DEF Sub
<1> QED
  BY <1>1, <1>2, <1>3, <1>4, <1>5, <1>6

LEMMA ExitEffect ==
  ASSUME TypeOK, NEW t \in Taps, Exit(t), NEW c \in Clients
  PROVE  /\ sub'[c].pc = sub[c].pc /\ sub'[c].tap = sub[c].tap /\ sub'[c].from = sub[c].from
         /\ sub'[c].upTo = sub[c].upTo /\ sub'[c].next = sub[c].next
         /\ sub'[c].failed = sub[c].failed /\ sub'[c].got = sub[c].got
         /\ sub'[c].ch = sub[c].ch /\ sub'[c] \in Sub
<1> DEFINE s == [sub[c] EXCEPT !.chClosed = TRUE]
<1>1. sub[c] \in Sub
  BY DEF TypeOK
<1>2. sub'[c] \in {s, sub[c]}
  BY DEF Exit
<1>3. /\ s.pc = sub[c].pc /\ s.tap = sub[c].tap /\ s.from = sub[c].from
      /\ s.upTo = sub[c].upTo
      /\ s.next = sub[c].next /\ s.failed = sub[c].failed /\ s.got = sub[c].got
      /\ s.ch = sub[c].ch
  BY <1>1 DEF Sub
<1>4. s \in Sub
  BY <1>1 DEF Sub
<1> QED
  BY <1>1, <1>2, <1>3, <1>4

(* A client whose record a step leaves alone stays in order, as long as    *)
(* its tap's next broadcast stays the same.                                *)
LEMMA OthersInOrder ==
  ASSUME TypeOK, NEW c \in Clients, InOrder(c), Holds(c), sub'[c] = sub[c],
         sub[c].tap \in Taps /\ c \in tap'[sub[c].tap].subs =>
           /\ c \in tap[sub[c].tap].subs
           /\ NextSent(sub[c].tap)' = NextSent(sub[c].tap)
  PROVE  InOrder(c)'
<1>1. Settled(c)' /\ Gapless(c)' /\ (sub[c].pc = "backfill" => Replaying(c)')
  BY DEF InOrder, Settled, Replayed, ReplayOwed, Gapless, Adjacent, Replaying
<1>2. ASSUME sub[c].pc \in {"backfill", "live"} PROVE Queued(c)'
  <2>1. sub[c].tap \in Taps
    BY <1>2 DEF Holds
  <2>2. \A e : Follows(c, e)' <=> Follows(c, e)
    BY DEF Follows
  <2>3. Queued(c)
    BY <1>2 DEF InOrder
  <2> QED
    BY <2>1, <2>2, <2>3 DEF Queued
<1> QED
  BY <1>1, <1>2 DEF InOrder

(* A step of a call that keeps its tap keeps the registration.             *)
LEMMA CallRegistered ==
  ASSUME TypeOK, Registered, NEW c \in Clients, tap' = tap,
         sub'[c].tap = sub[c].tap, sub[c].pc # "idle", sub'[c].pc # "idle",
         \/ sub'[c].pc \in {"backfill", "live", "detach"}
         \/ sub[c].pc \notin {"backfill", "live", "detach"},
         \A v \in Clients \ {c} : sub'[v] = sub[v]
  PROVE  Registered'
<1>1. \A v \in Clients : Holds(v)'
  BY DEF Registered, Holds
<1>2. \A t \in Taps : tap[t].subs \subseteq Clients
  BY DEF TypeOK, Tap
<1>3. \A t \in Taps : Listed(t)'
  BY <1>2 DEF Registered, Listed
<1>4. \A t \in Taps : Kept(t)'
  BY DEF Registered, Kept
<1> QED
  BY <1>1, <1>3, <1>4 DEF Registered

(* What a client that has got nothing needs to be in order.                *)
LEMMA NothingYet ==
  ASSUME NEW c \in Clients, sub'[c].got = << >>, sub'[c].pc \notin {"backfill", "live"},
         sub'[c].pc \in {"idle", "attach"} => sub'[c].ch = << >> /\ ~sub'[c].failed
  PROVE  InOrder(c)'
<1>1. Len(<< >>) = 0
  OBVIOUS
<1>2. Gapless(c)'
  BY <1>1 DEF Gapless
<1> QED
  BY <1>2 DEF InOrder, Settled

(* Publish keeps the inductive invariant,                                  *)
LEMMA PublishKeeps ==
  ASSUME IndInv, Publish PROVE IndInv'
<1>0. TypeOK /\ Registered /\ Ordered
  BY DEF IndInv
<1>1. UNCHANGED <<reg, tap, sub>> /\ published' = published + 1 /\ published < MaxEvents
  BY DEF Publish
<1>2. published \in Nat /\ \A t \in Taps : tap[t].cursor \in Nat /\ tap[t].last \in Nat
  BY <1>0 DEF TypeOK, Tap
<1>3. TypeOK'
  BY <1>0, <1>1, <1>2, ConstantsOK DEF TypeOK
<1>4. Registered'
  BY <1>0, <1>1 DEF Registered, Holds, Listed, Kept
<1>5. \A c \in Clients : InOrder(c)'
  BY <1>0, <1>1, OthersInOrder DEF Registered, Ordered, NextSent
<1> QED
  BY <1>0, <1>1, <1>3, <1>4, <1>5 DEF IndInv, Ordered, Reading

(* and so do the steps of a tap,                                           *)
LEMMA XReadKeeps ==
  ASSUME IndInv, NEW t \in Taps, XRead(t) PROVE IndInv'
<1>0. TypeOK /\ Registered /\ Ordered
  BY DEF IndInv
<1>1. PICK n \in 1 .. ReadCount :
        /\ tap[t].cursor + n <= published
        /\ tap' = [tap EXCEPT ![t].pc = "send", ![t].last = tap[t].cursor + n]
  BY DEF XRead
<1>2. UNCHANGED <<published, reg, sub>> /\ tap[t].pc = "read"
  BY DEF XRead
<1>3. tap[t].cursor \in Nat /\ n \in Nat \ {0} /\ tap[t].cursor + n \in Nat
  BY <1>0, ConstantsOK DEF TypeOK, Tap
<1>4. /\ tap'[t].pc = "send" /\ tap'[t].cursor = tap[t].cursor
      /\ tap'[t].last = tap[t].cursor + n /\ tap'[t].subs = tap[t].subs
      /\ \A v \in Taps \ {t} : tap'[v] = tap[v]
      /\ tap' \in [Taps -> Tap]
  BY <1>0, <1>1, <1>3, XReadEffect
<1>5. TypeOK'
  BY <1>0, <1>1, <1>2, <1>4 DEF TypeOK
<1>6. Registered'
  BY <1>0, <1>2, <1>4 DEF Registered, Holds, Listed, Kept
<1>7. \A v \in Taps : NextSent(v)' = NextSent(v) /\ tap'[v].subs = tap[v].subs
  BY <1>2, <1>4 DEF NextSent
<1>8. \A c \in Clients : InOrder(c)'
  BY <1>0, <1>2, <1>7, OthersInOrder DEF Registered, Ordered
<1>9. \A v \in Taps : Reading(v)'
  BY <1>0, <1>3, <1>4 DEF Ordered, Reading
<1> QED
  BY <1>5, <1>6, <1>8, <1>9 DEF IndInv, Ordered

(* broadcast: a listed channel gets the next event or is no longer listed, *)
LEMMA BroadcastKeeps ==
  ASSUME IndInv, NEW t \in Taps, broadcast(t) PROVE IndInv'
<1>0. TypeOK /\ Registered /\ Ordered
  BY DEF IndInv
<1> DEFINE slow == {c \in tap[t].subs : Len(sub[c].ch) = BufSize}
           evt == tap[t].cursor + 1
<1>1. /\ tap' = [tap EXCEPT ![t].pc = "advance", ![t].subs = @ \ slow]
      /\ UNCHANGED <<published, reg>> /\ tap[t].pc = "send"
  BY DEF broadcast
<1>2. /\ tap'[t].pc = "advance" /\ tap'[t].cursor = tap[t].cursor
      /\ tap'[t].last = tap[t].last
      /\ tap'[t].subs = tap[t].subs \ slow /\ \A v \in Taps \ {t} : tap'[v] = tap[v]
      /\ tap' \in [Taps -> Tap]
  BY <1>0, <1>1, SendEffect
<1>3. \A c \in Clients :
        /\ sub'[c].pc = sub[c].pc /\ sub'[c].tap = sub[c].tap
        /\ sub'[c].ch = IF c \in tap[t].subs /\ Len(sub[c].ch) # BufSize
                        THEN Append(sub[c].ch, evt) ELSE sub[c].ch
        /\ sub'[c] \in Sub
  BY <1>0, BroadcastEffect
<1>4. \A c \in Clients :
        /\ sub'[c].from = sub[c].from /\ sub'[c].upTo = sub[c].upTo
        /\ sub'[c].next = sub[c].next /\ sub'[c].failed = sub[c].failed
        /\ sub'[c].got = sub[c].got
  BY <1>0, BroadcastEffect
<1>5. \A c \in Clients : sub[c].ch \in Seq(Nat) /\ sub[c].got \in Seq(Nat)
  BY <1>0 DEF TypeOK, Sub
<1>6. evt \in Nat /\ tap[t].cursor \in Nat /\ tap[t].subs \subseteq Clients
  BY <1>0 DEF TypeOK, Tap
<1>7. TypeOK'
  <2>1. sub' \in [Clients -> Sub]
    BY <1>3 DEF broadcast
  <2>2. ASSUME NEW c \in Clients PROVE Len(sub'[c].ch) <= BufSize
    <3>1. Len(sub[c].ch) <= BufSize /\ Len(sub[c].ch) \in Nat
      BY <1>0, <1>5 DEF TypeOK
    <3>2. Len(Append(sub[c].ch, evt)) = Len(sub[c].ch) + 1
      BY <1>5, <1>6, AppendChain
    <3>3. sub'[c].ch = sub[c].ch \/ (sub'[c].ch = Append(sub[c].ch, evt) /\ Len(sub[c].ch) # BufSize)
      BY <1>3
    <3> QED
      BY <3>1, <3>2, <3>3, ConstantsOK
  <2> QED
    BY <1>0, <1>1, <1>2, <2>1, <2>2 DEF TypeOK
<1>8. Registered'
  <2>1. \A c \in Clients : sub'[c].pc = sub[c].pc /\ sub'[c].tap = sub[c].tap
    BY <1>3
  <2>2. \A v \in Taps : /\ tap'[v].subs \subseteq tap[v].subs /\ tap[v].subs \subseteq Clients
                        /\ tap'[v].pc # "done" => tap[v].pc # "done"
    BY <1>0, <1>1, <1>2 DEF TypeOK, Tap
  <2>3. \A v \in Taps : Listed(v)' /\ Kept(v)'
    BY <1>0, <2>1, <2>2 DEF Registered, Listed, Kept
  <2> QED
    BY <1>0, <2>1, <2>3 DEF Registered, Holds
<1>9. ASSUME NEW c \in Clients PROVE InOrder(c)'
  <2>1. InOrder(c) /\ Holds(c)
    BY <1>0 DEF Ordered, Registered
  <2>2. Gapless(c)' /\ (sub[c].pc = "backfill" => Replaying(c)') /\ \A e : Follows(c, e)' <=> Follows(c, e)
    BY <1>3, <1>4, <2>1 DEF InOrder, Replayed, ReplayOwed, Gapless, Adjacent, Replaying, Follows
  <2>3. Settled(c)'
    <3>1. c \in tap[t].subs => sub[c].pc \in {"backfill", "live", "detach"}
      BY <1>0 DEF Registered, Listed
    <3> QED
      BY <1>3, <1>4, <2>1, <3>1 DEF InOrder, Settled, Replayed, ReplayOwed
  <2>4. ASSUME sub[c].pc \in {"backfill", "live"} PROVE Queued(c)'
    <3>1. sub[c].tap \in Taps /\ Queued(c)
      BY <2>1, <2>4 DEF Holds, InOrder
    <3>2. CASE c \notin tap[t].subs
      <4>1. sub'[c].ch = sub[c].ch /\ sub'[c].tap = sub[c].tap
        BY <1>3, <3>2
      <4>2. c \in tap'[sub[c].tap].subs =>
              c \in tap[sub[c].tap].subs /\ NextSent(sub[c].tap)' = NextSent(sub[c].tap)
        BY <1>2, <3>1, <3>2, <4>1 DEF NextSent
      <4> QED
        BY <2>2, <3>1, <4>1, <4>2 DEF Queued
    <3>3. CASE c \in slow
      <4>1. sub'[c].ch = sub[c].ch /\ sub'[c].tap = sub[c].tap
        BY <1>3, <3>3
      <4>2. sub[c].tap = t /\ c \notin tap'[t].subs
        BY <1>0, <1>2, <3>3 DEF Registered, Listed
      <4> QED
        BY <2>2, <3>1, <4>1, <4>2 DEF Queued
    <3>4. CASE c \in tap[t].subs \ slow
      <4> DEFINE ch == sub[c].ch
                 new == Append(ch, evt)
      <4>1. sub'[c].ch = new /\ sub'[c].tap = sub[c].tap
        BY <1>3, <3>4
      <4>2. sub[c].tap = t
        BY <1>0, <3>4 DEF Registered, Listed
      <4>3. NextSent(t) = evt /\ NextSent(t)' = evt + 1
        BY <1>1, <1>2, <1>6 DEF NextSent
      <4>4. /\ Consecutive(ch) /\ (ch # << >> => Follows(c, ch[1]))
            /\ IF ch = << >> THEN Follows(c, evt) ELSE evt = ch[Len(ch)] + 1
        BY <3>1, <3>4, <4>2, <4>3 DEF Queued
      <4>5. /\ ch \in Seq(Nat) /\ Len(ch) \in Nat /\ new # << >> /\ Len(new) = Len(ch) + 1
            /\ new[Len(ch) + 1] = evt /\ \A i \in 1 .. Len(ch) : new[i] = ch[i]
            /\ ch # << >> => new[1] = ch[1] /\ Len(ch) \in Nat \ {0}
            /\ ch = << >> => new[1] = evt
        <5>1. ch \in Seq(Nat) /\ evt \in Nat /\ Len(ch) \in Nat
          BY <1>5, <1>6
        <5> HIDE DEF ch, evt
        <5> QED
          BY <5>1, AppendChain
      <4>6. Consecutive(new)
        <5> SUFFICES ASSUME NEW i \in 1 .. Len(new) - 1 PROVE new[i + 1] = new[i] + 1
          BY DEF Consecutive
        <5>1. ch # << >>
          <6>1. Len(<< >>) = 0
            OBVIOUS
          <6> QED
            BY <4>5, <6>1
        <5>2. CASE i = Len(ch)
          BY <4>4, <4>5, <5>1, <5>2
        <5>3. CASE i # Len(ch)
          BY <4>4, <4>5, <5>3 DEF Consecutive
        <5> QED
          BY <5>2, <5>3
      <4>7. Follows(c, new[1]) /\ NextSent(t)' = new[Len(new)] + 1
        BY <4>3, <4>4, <4>5
      <4> HIDE DEF new, evt
      <4>8. Follows(c, sub[c].ch[1])'
        BY <1>3, <1>4, <4>1, <4>7 DEF Follows
      <4> QED
        BY <4>1, <4>2, <4>5, <4>6, <4>7, <4>8 DEF Queued, Consecutive
    <3> QED
      BY <3>2, <3>3, <3>4
  <2> QED
    BY <1>3, <2>2, <2>3, <2>4 DEF InOrder
<1>10. \A v \in Taps : Reading(v)'
  BY <1>0, <1>1, <1>2 DEF Ordered, Reading
<1> QED
  BY <1>7, <1>8, <1>9, <1>10 DEF IndInv, Ordered

(* Advance,                                                                *)
LEMMA AdvanceKeeps ==
  ASSUME IndInv, NEW t \in Taps, Advance(t) PROVE IndInv'
<1>0. TypeOK /\ Registered /\ Ordered
  BY DEF IndInv
<1>1. UNCHANGED <<published, reg, sub>> /\ tap[t].pc = "advance"
  BY DEF Advance
<1>2. tap[t].cursor \in Nat /\ tap[t].last \in Nat /\ tap[t].cursor < tap[t].last
  BY <1>0, <1>1 DEF TypeOK, Tap, Ordered, Reading
<1>3. /\ tap'[t].pc = IF tap[t].cursor + 1 = tap[t].last THEN "read" ELSE "send"
      /\ tap'[t].cursor = tap[t].cursor + 1 /\ tap'[t].subs = tap[t].subs
      /\ tap'[t].last = IF tap[t].cursor + 1 = tap[t].last THEN 0 ELSE tap[t].last
      /\ \A v \in Taps \ {t} : tap'[v] = tap[v]
      /\ tap' \in [Taps -> Tap]
  BY <1>0, AdvanceEffect
<1>4. TypeOK'
  <2>1. published \in Nat /\ tap[t].last <= published
    BY <1>0 DEF TypeOK
  <2>2. \A v \in Taps : tap'[v].cursor <= published /\ tap'[v].last <= published
    BY <1>0, <1>2, <1>3, <2>1 DEF TypeOK
  <2> QED
    BY <1>0, <1>1, <1>3, <2>2 DEF TypeOK
<1>5. Registered'
  BY <1>0, <1>1, <1>3 DEF Registered, Holds, Listed, Kept
<1>6. \A v \in Taps : NextSent(v)' = NextSent(v) /\ tap'[v].subs = tap[v].subs
  BY <1>1, <1>2, <1>3 DEF NextSent
<1>7. \A c \in Clients : InOrder(c)'
  BY <1>0, <1>1, <1>6, OthersInOrder DEF Registered, Ordered
<1>8. \A v \in Taps : Reading(v)'
  BY <1>0, <1>2, <1>3 DEF Ordered, Reading
<1> QED
  BY <1>4, <1>5, <1>7, <1>8 DEF IndInv, Ordered

(* Exit,                                                                   *)
LEMMA ExitKeeps ==
  ASSUME IndInv, NEW t \in Taps, Exit(t) PROVE IndInv'
<1>0. TypeOK /\ Registered /\ Ordered
  BY DEF IndInv
<1>1. UNCHANGED <<published, reg>> /\ tap' = [tap EXCEPT ![t] = Done]
  BY DEF Exit
<1>2. /\ tap'[t] = Done /\ \A v \in Taps \ {t} : tap'[v] = tap[v]
      /\ tap' \in [Taps -> Tap]
  BY <1>0, <1>1, StartTyped DEF TypeOK
<1>3. \A c \in Clients : /\ sub'[c].pc = sub[c].pc /\ sub'[c].tap = sub[c].tap
                         /\ sub'[c].ch = sub[c].ch /\ sub'[c] \in Sub
  BY <1>0, ExitEffect
<1>4. \A c \in Clients :
        /\ sub'[c].from = sub[c].from /\ sub'[c].upTo = sub[c].upTo
        /\ sub'[c].next = sub[c].next /\ sub'[c].failed = sub[c].failed
        /\ sub'[c].got = sub[c].got
  BY <1>0, ExitEffect
<1>5. TypeOK'
  <2>1. sub' \in [Clients -> Sub]
    BY <1>3 DEF Exit
  <2>2. published \in Nat
    BY <1>0 DEF TypeOK
  <2>3. \A v \in Taps : tap'[v].cursor <= published /\ tap'[v].last <= published
    BY <1>0, <1>2, <2>2 DEF TypeOK, Done
  <2> QED
    BY <1>0, <1>1, <1>2, <1>3, <2>1, <2>3 DEF TypeOK
<1>6. Registered'
  <2>1. \A v \in Taps : /\ tap'[v].subs \subseteq tap[v].subs /\ tap[v].subs \subseteq Clients
                        /\ tap'[v].pc # "done" => tap[v].pc # "done"
    BY <1>0, <1>2 DEF TypeOK, Tap, Done
  <2>2. \A v \in Taps : Listed(v)' /\ Kept(v)'
    BY <1>0, <1>3, <2>1 DEF Registered, Listed, Kept
  <2> QED
    BY <1>0, <1>3, <2>2 DEF Registered, Holds
<1>7. ASSUME NEW c \in Clients PROVE InOrder(c)'
  <2>1. InOrder(c) /\ Holds(c)
    BY <1>0 DEF Ordered, Registered
  <2>2. /\ Gapless(c)' /\ Settled(c)' /\ (sub[c].pc = "backfill" => Replaying(c)')
        /\ \A e : Follows(c, e)' <=> Follows(c, e)
    BY <1>3, <1>4, <2>1 DEF InOrder, Replayed, ReplayOwed, Gapless, Settled, Adjacent, Replaying,
      Follows
  <2>3. ASSUME sub[c].pc \in {"backfill", "live"} PROVE Queued(c)'
    <3>1. sub[c].tap \in Taps /\ Queued(c)
      BY <2>1, <2>3 DEF Holds, InOrder
    <3>2. sub'[c].ch = sub[c].ch /\ sub'[c].tap = sub[c].tap
      BY <1>3
    <3>3. c \in tap'[sub[c].tap].subs =>
            c \in tap[sub[c].tap].subs /\ NextSent(sub[c].tap)' = NextSent(sub[c].tap)
      BY <1>2, <3>1, <3>2 DEF NextSent, Done
    <3> QED
      BY <2>2, <3>1, <3>2, <3>3 DEF Queued
  <2> QED
    BY <1>3, <2>2, <2>3 DEF InOrder
<1>8. \A v \in Taps : Reading(v)'
  BY <1>0, <1>2 DEF Ordered, Reading, Done
<1> QED
  BY <1>5, <1>6, <1>7, <1>8 DEF IndInv, Ordered

(* and those of a call: getOrCreateTap,                                    *)
LEMMA AcquireKeeps ==
  ASSUME IndInv, NEW c \in Clients, NEW from \in Froms, getOrCreateTap(c, from) PROVE IndInv'
<1>0. TypeOK /\ Registered /\ Ordered
  BY DEF IndInv
<1>1. sub[c].pc = "idle" /\ published' = published
  BY DEF getOrCreateTap
<1>2. PICK t \in Taps :
        /\ reg' = t
        /\ sub' = [sub EXCEPT ![c].pc = "attach", ![c].tap = t, ![c].from = from]
        /\ \/ tap' = tap
           \/ \E cursor \in {0, published} :
                /\ Unused(t)
                /\ tap' = [tap EXCEPT ![t] = [Done EXCEPT !.pc = "read", !.cursor = cursor,
                                                          !.stop = FALSE]]
  BY <1>0 DEF getOrCreateTap, TypeOK
<1>3. /\ sub'[c].pc = "attach" /\ sub'[c].tap = t /\ sub'[c].ch = sub[c].ch
      /\ sub'[c].failed = sub[c].failed /\ sub'[c].got = sub[c].got
      /\ \A v \in Clients \ {c} : sub'[v] = sub[v]
      /\ sub' \in [Clients -> Sub]
  BY <1>0, <1>2, AcquireEffect
<1>4. /\ tap' \in [Taps -> Tap] /\ \A v \in Taps \ {t} : tap'[v] = tap[v]
      /\ \/ tap'[t] = tap[t]
         \/ /\ Unused(t) /\ tap'[t].pc = "read" /\ tap'[t].subs = {}
            /\ tap'[t].cursor <= published /\ tap'[t].last <= published
  <2>1. CASE tap' = tap
    BY <1>0, <2>1 DEF TypeOK
  <2>2. CASE tap' # tap
    <3>1. PICK cursor \in {0, published} :
            /\ Unused(t)
            /\ tap' = [tap EXCEPT ![t] = [Done EXCEPT !.pc = "read", !.cursor = cursor,
                                                      !.stop = FALSE]]
      BY <1>2, <2>2
    <3> DEFINE u == [Done EXCEPT !.pc = "read", !.cursor = cursor, !.stop = FALSE]
    <3>2. published \in Nat /\ cursor \in Nat /\ cursor <= published
      BY <1>0 DEF TypeOK
    <3>3. u \in Tap /\ u.pc = "read" /\ u.subs = {} /\ u.cursor = cursor /\ u.last = 0
      BY <3>2 DEF Done, Tap
    <3>4. tap'[t] = u /\ \A v \in Taps \ {t} : tap'[v] = tap[v]
      BY <1>0, <3>1 DEF TypeOK
    <3>5. tap' \in [Taps -> Tap]
      BY <1>0, <3>1, <3>3 DEF TypeOK
    <3> QED
      BY <3>1, <3>2, <3>3, <3>4, <3>5
  <2> QED
    BY <2>1, <2>2
<1>5. Settled(c) /\ sub[c].tap = NoTap
  BY <1>0, <1>1 DEF Ordered, InOrder, Registered, Holds
<1>6. TypeOK'
  <2>1. \A v \in Clients : Len(sub'[v].ch) <= BufSize
    BY <1>0, <1>3 DEF TypeOK
  <2>2. \A v \in Taps : tap'[v].cursor <= published /\ tap'[v].last <= published
    BY <1>0, <1>4 DEF TypeOK
  <2> QED
    BY <1>0, <1>1, <1>2, <1>3, <1>4, <2>1, <2>2 DEF TypeOK
<1>7. Registered'
  <2>1. \A v \in Clients : Holds(v)'
    BY <1>0, <1>3 DEF Registered, Holds
  <2>2. \A v \in Taps : c \notin tap[v].subs /\ tap[v].subs \subseteq Clients
    BY <1>0, <1>1 DEF Registered, Listed, TypeOK, Tap
  <2>3. \A v \in Taps : tap'[v].subs \in {{}, tap[v].subs}
    BY <1>4
  <2>4. \A v \in Taps : Listed(v)'
    BY <1>0, <1>3, <2>2, <2>3 DEF Registered, Listed
  <2>5. \A v \in Taps : Kept(v)'
    BY <1>0, <1>3, <1>4, <1>5, ConstantsOK DEF Registered, Kept
  <2> QED
    BY <2>1, <2>4, <2>5 DEF Registered
<1>8. ASSUME NEW v \in Clients PROVE InOrder(v)'
  <2>1. CASE v = c
    BY <1>1, <1>3, <1>5, <2>1, NothingYet DEF Settled
  <2>2. CASE v # c
    <3>1. sub'[v] = sub[v] /\ InOrder(v) /\ Holds(v)
      BY <1>0, <1>3, <2>2 DEF Ordered, Registered
    <3>2. sub[v].tap \in Taps => tap'[sub[v].tap] = tap[sub[v].tap]
      BY <1>4 DEF Unused
    <3> QED
      BY <1>0, <3>1, <3>2, OthersInOrder DEF NextSent
  <2> QED
    BY <2>1, <2>2
<1>9. \A v \in Taps : Reading(v)'
  BY <1>0, <1>4 DEF Ordered, Reading
<1> QED
  BY <1>6, <1>7, <1>8, <1>9 DEF IndInv, Ordered

(* A step of a call that leaves the taps alone only has to keep its own    *)
(* record in order, and the registration.                                  *)
LEMMA CallKeeps ==
  ASSUME IndInv, NEW c \in Clients, UNCHANGED <<published, tap>>,
         reg' \in Taps \cup {NoTap}, sub' \in [Clients -> Sub], Len(sub'[c].ch) <= BufSize,
         \A v \in Clients \ {c} : sub'[v] = sub[v],
         Registered', InOrder(c)'
  PROVE  IndInv'
<1>0. TypeOK /\ Registered /\ Ordered
  BY DEF IndInv
<1>1. TypeOK'
  BY <1>0 DEF TypeOK
<1>2. \A v \in Taps : Reading(v)' /\ NextSent(v)' = NextSent(v)
  BY <1>0 DEF Ordered, Reading, NextSent
<1>3. ASSUME NEW v \in Clients PROVE InOrder(v)'
  BY <1>0, <1>2, OthersInOrder DEF Ordered, Registered
<1> QED
  BY <1>1, <1>2, <1>3 DEF IndInv, Ordered

(* attach,                                                                 *)
LEMMA AttachKeeps ==
  ASSUME IndInv, NEW c \in Clients, attach(c) PROVE IndInv'
<1>0. TypeOK /\ Registered /\ Ordered
  BY DEF IndInv
<1> DEFINE t == sub[c].tap
<1>1. sub[c].pc = "attach" /\ UNCHANGED <<published, reg>>
  BY DEF attach
<1>2. t \in Taps /\ InOrder(c) /\ sub[c].got = << >> /\ sub[c].ch = << >> /\ ~sub[c].failed
  BY <1>0, <1>1 DEF Registered, Holds, Ordered, InOrder, Settled
<1>3. \A v \in Taps : c \notin tap[v].subs /\ tap[v].subs \subseteq Clients
  BY <1>0, <1>1 DEF Registered, Listed, TypeOK, Tap
<1>4. CASE tap[t].pc = "done"
  <2>1. CloseUserCh(c) /\ tap' = tap
    BY <1>4 DEF attach
  <2>2. /\ sub'[c].pc = "idle" /\ sub'[c].tap = NoTap /\ sub'[c].ch = << >>
        /\ sub'[c].got = << >> /\ ~sub'[c].failed
        /\ \A v \in Clients \ {c} : sub'[v] = sub[v]
        /\ sub' \in [Clients -> Sub]
    BY <1>0, <2>1, CloseEffect
  <2>3. \A v \in Clients : Holds(v)'
    BY <1>0, <2>2 DEF Registered, Holds
  <2>4. \A v \in Taps : Listed(v)'
    BY <1>0, <1>3, <2>1, <2>2 DEF Registered, Listed
  <2>5. \A v \in Taps : Kept(v)'
    BY <1>0, <1>4, <2>1, <2>2 DEF Registered, Kept
  <2>6. Registered'
    BY <2>3, <2>4, <2>5 DEF Registered
  <2>7. InOrder(c)'
    BY <2>2, NothingYet
  <2>8. Len(sub'[c].ch) <= BufSize
    BY <1>0, <1>2, <2>2 DEF TypeOK
  <2> QED
    BY <1>0, <1>1, <2>1, <2>2, <2>6, <2>7, <2>8, CallKeeps DEF TypeOK
<1>5. CASE tap[t].pc # "done"
  <2> DEFINE pc == IF sub[c].from = LiveOnly THEN "live" ELSE "backfill"
             next == IF sub[c].from = LiveOnly THEN 0 ELSE sub[c].from + 1
             cursor == tap[t].cursor
             D == tap[t].subs \cup {c}
  <2>1. /\ tap' = [tap EXCEPT ![t].subs = D]
        /\ sub' = [sub EXCEPT ![c].pc = pc, ![c].upTo = cursor, ![c].next = next]
    BY <1>5 DEF attach
  <2>2. sub[c].from \in Froms /\ cursor \in Nat /\ D \in SUBSET Clients
    BY <1>0, <1>2 DEF TypeOK, Sub, Tap
  <2>3. pc \in {"live", "backfill"} /\ next \in Nat
    <3>1. sub[c].from # LiveOnly => sub[c].from \in Nat
      BY <2>2, ConstantsOK DEF Froms
    <3>2. sub[c].from # LiveOnly => sub[c].from + 1 \in Nat
      BY <3>1
    <3> QED
      BY <3>2
  <2>4. /\ sub'[c].pc = pc /\ sub'[c].tap = t /\ sub'[c].from = sub[c].from
        /\ sub'[c].upTo = tap[t].cursor /\ sub'[c].next = next /\ sub'[c].ch = << >>
        /\ sub'[c].failed = sub[c].failed /\ sub'[c].got = << >>
        /\ \A v \in Clients \ {c} : sub'[v] = sub[v]
        /\ sub' \in [Clients -> Sub]
    <3> HIDE DEF pc, next, cursor
    <3> DEFINE u == [sub[c] EXCEPT !.pc = pc, !.upTo = cursor, !.next = next]
    <3>1. sub[c] \in Sub
      BY <1>0 DEF TypeOK
    <3>2. sub' = [sub EXCEPT ![c] = u]
      BY <1>0, <2>1 DEF TypeOK, Sub
    <3>3. /\ u.pc = pc /\ u.tap = sub[c].tap /\ u.from = sub[c].from /\ u.upTo = cursor
          /\ u.next = next /\ u.ch = sub[c].ch /\ u.failed = sub[c].failed
          /\ u.got = sub[c].got
      BY <3>1 DEF Sub
    <3>4. u \in Sub
      BY <2>2, <2>3, <3>1 DEF Sub
    <3>5. sub' \in [Clients -> Sub] /\ sub'[c] = u /\ \A v \in Clients \ {c} : sub'[v] = sub[v]
      BY <1>0, <3>2, <3>4 DEF TypeOK
    <3> QED
      BY <1>2, <3>3, <3>5 DEF cursor
  <2>5. /\ tap'[t].pc = tap[t].pc /\ tap'[t].cursor = tap[t].cursor
        /\ tap'[t].last = tap[t].last
        /\ tap'[t].subs = tap[t].subs \cup {c}
        /\ \A v \in Taps \ {t} : tap'[v] = tap[v]
        /\ tap' \in [Taps -> Tap]
    <3> HIDE DEF D, t
    <3>1. /\ tap'[t].pc = tap[t].pc /\ tap'[t].cursor = tap[t].cursor
          /\ tap'[t].last = tap[t].last /\ tap'[t].subs = D
          /\ \A v \in Taps \ {t} : tap'[v] = tap[v]
          /\ tap' \in [Taps -> Tap]
      BY <1>0, <1>2, <2>1, <2>2, ListEffect
    <3> QED
      BY <3>1 DEF D
  <2>6. Len(<< >>) = 0
    OBVIOUS
  <2>7. TypeOK'
    <3>1. \A v \in Taps : tap'[v].cursor <= published /\ tap'[v].last <= published
      BY <1>0, <2>5 DEF TypeOK
    <3>2. \A v \in Clients : Len(sub'[v].ch) <= BufSize
      BY <1>0, <2>4, <2>6, ConstantsOK DEF TypeOK
    <3> QED
      BY <1>0, <1>1, <2>4, <2>5, <3>1, <3>2 DEF TypeOK
  <2>8. Registered'
    <3>1. \A v \in Clients : Holds(v)'
      BY <1>0, <1>2, <2>3, <2>4 DEF Registered, Holds
    <3>2. \A v \in Taps : Listed(v)'
      BY <1>0, <1>3, <2>3, <2>4, <2>5 DEF Registered, Listed
    <3>3. \A v \in Taps : Kept(v)'
      BY <1>0, <1>2, <2>4, <2>5 DEF Registered, Kept
    <3> QED
      BY <3>1, <3>2, <3>3 DEF Registered
  <2>9. \A v \in Taps : NextSent(v)' = NextSent(v) /\ Reading(v)'
    BY <1>0, <2>5 DEF NextSent, Ordered, Reading
  <2>10. InOrder(c)'
    <3>1. Settled(c)' /\ Gapless(c)'
      BY <1>2, <2>3, <2>4, <2>6 DEF Settled, Gapless, Replayed, ReplayOwed
    <3>2. sub'[c].pc = "backfill" => Replaying(c)'
      BY <1>2, <2>2, <2>4 DEF Replaying, Froms
    <3>3. NextSent(t)' \in {tap[t].cursor + 1, tap[t].cursor + 2}
      BY <2>4, <2>5 DEF NextSent
    <3>4. Consecutive(sub[c].ch)'
      BY <2>4, <2>6 DEF Consecutive
    <3>5. Follows(c, NextSent(sub[c].tap))'
      BY <2>4, <3>3 DEF Follows
    <3> QED
      BY <2>4, <3>1, <3>2, <3>4, <3>5 DEF InOrder, Queued
  <2>11. ASSUME NEW v \in Clients \ {c} PROVE InOrder(v)'
    <3>1. sub'[v] = sub[v] /\ InOrder(v) /\ Holds(v)
      BY <1>0, <2>4 DEF Ordered, Registered
    <3>2. sub[v].tap \in Taps /\ v \in tap'[sub[v].tap].subs =>
            /\ v \in tap[sub[v].tap].subs
            /\ NextSent(sub[v].tap)' = NextSent(sub[v].tap)
      BY <2>5, <2>9, <3>1
    <3> QED
      BY <1>0, <3>1, <3>2, OthersInOrder
  <2> QED
    BY <2>7, <2>8, <2>9, <2>10, <2>11 DEF IndInv, Ordered
<1> QED
  BY <1>4, <1>5

(* backfill,                                                               *)
LEMMA BackfillKeeps ==
  ASSUME IndInv, NEW c \in Clients, backfill(c) PROVE IndInv'
<1>0. TypeOK /\ Registered /\ Ordered
  BY DEF IndInv
<1>1. sub[c].pc = "backfill" /\ UNCHANGED <<published, reg, tap>>
  BY DEF backfill
<1>2. /\ InOrder(c) /\ Queued(c) /\ Replaying(c) /\ Gapless(c) /\ sub[c].tap \in Taps
      /\ Len(sub[c].ch) <= BufSize /\ reg \in Taps \cup {NoTap}
  BY <1>0, <1>1 DEF Ordered, InOrder, Registered, Holds, TypeOK
<1>3. /\ sub[c].got \in Seq(Nat) /\ sub[c].next \in Nat /\ sub[c].upTo \in Nat
      /\ sub[c].from \in Int /\ Len(sub[c].got) \in Nat
  <2>1. sub[c] \in Sub
    BY <1>0 DEF TypeOK
  <2>2. /\ sub[c].got \in Seq(Nat) /\ sub[c].next \in Nat /\ sub[c].upTo \in Nat
        /\ sub[c].from \in Froms
    BY <2>1 DEF Sub
  <2>3. sub[c].from \in Int
    BY <2>2, StartTyped
  <2>4. Len(sub[c].got) \in Nat
    BY <2>2
  <2> QED
    BY <2>2, <2>3, <2>4
<1>4. CASE sub[c].next <= sub[c].upTo
  <2>1. sub' = [sub EXCEPT ![c].got = Append(@, sub[c].next), ![c].next = @ + 1]
    BY <1>4 DEF backfill
  <2> DEFINE got == sub[c].got
             new == Append(got, sub[c].next)
  <2>2. /\ sub'[c].pc = "backfill" /\ sub'[c].tap = sub[c].tap /\ sub'[c].from = sub[c].from
        /\ sub'[c].upTo = sub[c].upTo /\ sub'[c].next = sub[c].next + 1
        /\ sub'[c].ch = sub[c].ch /\ sub'[c].failed = sub[c].failed /\ sub'[c].got = new
        /\ \A v \in Clients \ {c} : sub'[v] = sub[v]
        /\ sub' \in [Clients -> Sub]
    BY <1>0, <1>1, <2>1, ReplayEffect
  <2>3. Registered'
    BY <1>0, <1>1, <2>2, CallRegistered
  <2>4. /\ new # << >> /\ Len(new) = Len(got) + 1 /\ new[Len(got) + 1] = sub[c].next
        /\ \A i \in 1 .. Len(got) : new[i] = got[i]
        /\ got # << >> => new[1] = got[1] /\ Len(got) \in Nat \ {0}
        /\ got = << >> => new[1] = sub[c].next /\ Len(got) = 0
    <3> DEFINE n == sub[c].next
    <3>1. got \in Seq(Nat) /\ n \in Nat
      BY <1>3
    <3> HIDE DEF got, n
    <3> QED
      BY <3>1, AppendChain DEF n
  <2> HIDE DEF new
  <2>5. \A i \in 1 .. Len(new) - 1 : new[i + 1] = new[i] + 1
    <3> SUFFICES ASSUME NEW i \in 1 .. Len(new) - 1 PROVE new[i + 1] = new[i] + 1
      OBVIOUS
    <3>1. i \in 1 .. Len(got) /\ got # << >>
      BY <1>3, <2>4
    <3>2. CASE i = Len(got)
      BY <1>2, <2>4, <3>1, <3>2 DEF Replaying
    <3>3. CASE i # Len(got)
      <4>1. i \in 1 .. Len(got) - 1 /\ i + 1 \in 1 .. Len(got)
        BY <1>3, <3>1, <3>3
      <4>2. got[i + 1] = got[i] + 1
        BY <1>2, <3>1, <4>1 DEF Replaying
      <4> QED
        BY <2>4, <3>1, <4>1, <4>2
    <3> QED
      BY <3>2, <3>3
  <2>6. new[1] = sub[c].from + 1 /\ Replayed(c)
    <3>1. CASE got = << >>
      BY <1>2, <1>3, <1>4, <2>4, <3>1, ConstantsOK DEF Replaying, Replayed, ReplayOwed, LiveOnly
    <3>2. CASE got # << >>
      <4>1. Replayed(c)
        BY <1>2, <1>3, <3>2, ConstantsOK DEF Replaying, Replayed, ReplayOwed, LiveOnly
      <4> QED
        BY <1>2, <2>4, <3>2, <4>1 DEF Gapless
    <3> QED
      BY <3>1, <3>2
  <2>7. Replaying(c)' /\ Settled(c)' /\ Gapless(c)'
    <3>1. Gapless(c)'
      BY <2>2, <2>4, <2>5, <2>6 DEF Gapless, Adjacent, Replayed, ReplayOwed
    <3>2. Replaying(c)'
      BY <1>2, <1>3, <1>4, <2>2, <2>4, <2>5 DEF Replaying
    <3> QED
      BY <2>2, <3>1, <3>2 DEF Settled
  <2>8. Queued(c)'
    BY <1>1, <1>2, <2>2 DEF Queued, Follows, NextSent, Consecutive
  <2>9. InOrder(c)'
    BY <2>7, <2>8 DEF InOrder
  <2> QED
    BY <1>1, <1>2, <2>2, <2>3, <2>9, CallKeeps
<1>5. CASE sub[c].next > sub[c].upTo
  <2>1. sub' = [sub EXCEPT ![c].pc = "live", ![c].next = 0]
    BY <1>3, <1>5 DEF backfill
  <2>2. /\ sub'[c].pc = "live" /\ sub'[c].tap = sub[c].tap /\ sub'[c].from = sub[c].from
        /\ sub'[c].upTo = sub[c].upTo /\ sub'[c].ch = sub[c].ch
        /\ sub'[c].failed = sub[c].failed /\ sub'[c].got = sub[c].got
        /\ \A v \in Clients \ {c} : sub'[v] = sub[v]
        /\ sub' \in [Clients -> Sub]
    BY <1>0, <2>1, LiveEffect
  <2>3. Registered'
    BY <1>0, <1>1, <2>2, CallRegistered
  <2>4. Gapless(c)'
    BY <1>2, <2>2 DEF Gapless, Adjacent, Replayed, ReplayOwed
  <2>5. Settled(c)'
    BY <1>2, <1>3, <1>5, <2>2 DEF Settled, Replayed, ReplayOwed, Replaying
  <2>6. sub[c].got # << >> => sub[c].got[Len(sub[c].got)] = sub[c].upTo
    <3>1. sub[c].got # << >> => sub[c].got[Len(sub[c].got)] \in Nat
      BY <1>3
    <3> QED
      BY <1>2, <1>3, <1>5, <3>1 DEF Replaying
  <2>7. Queued(c)'
    <3>1. \A e : Follows(c, e) => Follows(c, e)'
      BY <1>1, <1>3, <2>2, <2>6 DEF Follows
    <3> QED
      BY <1>1, <1>2, <2>2, <3>1 DEF Queued, NextSent, Consecutive
  <2>8. InOrder(c)'
    BY <2>2, <2>4, <2>5, <2>7 DEF InOrder
  <2> QED
    BY <1>1, <1>2, <2>2, <2>3, <2>8, CallKeeps
<1> QED
  BY <1>3, <1>4, <1>5

(* BackfillError,                                                          *)
LEMMA SkipKeeps ==
  ASSUME IndInv, NEW c \in Clients, BackfillError(c) PROVE IndInv'
<1>0. TypeOK /\ Registered /\ Ordered
  BY DEF IndInv
<1>1. sub[c].pc = "backfill" /\ sub[c].got = << >> /\ UNCHANGED <<published, reg, tap>>
  BY DEF BackfillError
<1>2. /\ Queued(c) /\ Len(sub[c].ch) <= BufSize /\ reg \in Taps \cup {NoTap}
  BY <1>0, <1>1 DEF Ordered, InOrder, TypeOK
<1>3. /\ sub'[c].pc = "live" /\ sub'[c].tap = sub[c].tap /\ sub'[c].upTo = sub[c].upTo
      /\ sub'[c].ch = sub[c].ch /\ sub'[c].failed = TRUE /\ sub'[c].got = << >>
      /\ \A v \in Clients \ {c} : sub'[v] = sub[v]
      /\ sub' \in [Clients -> Sub]
  BY <1>0, <1>1, SkipEffect
<1>4. Registered'
  BY <1>0, <1>1, <1>3, CallRegistered
<1>5. Len(<< >>) = 0
  OBVIOUS
<1>6. Gapless(c)' /\ Settled(c)'
  BY <1>3, <1>5 DEF Gapless, Settled, Replayed, ReplayOwed
<1>7. Queued(c)'
  BY <1>1, <1>2, <1>3 DEF Queued, Follows, NextSent, Consecutive
<1>8. InOrder(c)'
  BY <1>3, <1>6, <1>7 DEF InOrder
<1> QED
  BY <1>1, <1>2, <1>3, <1>4, <1>8, CallKeeps

(* Forward,                                                                *)
LEMMA ForwardKeeps ==
  ASSUME IndInv, NEW c \in Clients, Forward(c) PROVE IndInv'
<1>0. TypeOK /\ Registered /\ Ordered
  BY DEF IndInv
<1> DEFINE got == sub[c].got
           ch == sub[c].ch
           new == Append(got, Head(ch))
<1>1. sub[c].pc = "live" /\ ch # << >> /\ UNCHANGED <<published, reg, tap>>
  BY DEF Forward
<1>2. /\ InOrder(c) /\ Queued(c) /\ Gapless(c) /\ Settled(c) /\ sub[c].tap \in Taps
      /\ Len(ch) <= BufSize /\ reg \in Taps \cup {NoTap} /\ Consecutive(ch)
  BY <1>0, <1>1 DEF Ordered, InOrder, Queued, Registered, Holds, TypeOK
<1>3. got \in Seq(Nat) /\ ch \in Seq(Nat) /\ sub[c].upTo \in Nat
  BY <1>0 DEF TypeOK, Sub
<1>4. Len(got) \in Nat /\ Len(ch) \in Nat
  BY <1>3
<1>5. /\ Head(ch) = ch[1] /\ ch[1] \in Nat /\ Len(Tail(ch)) = Len(ch) - 1
      /\ Consecutive(Tail(ch))
      /\ Tail(ch) = << >> => ch[Len(ch)] = ch[1]
      /\ Tail(ch) # << >> => /\ Tail(ch)[1] = ch[1] + 1
                             /\ Tail(ch)[Len(Tail(ch))] = ch[Len(ch)]
  <2>1. ch \in Seq(Nat) /\ ch # << >> /\ Consecutive(ch)
    BY <1>1, <1>2, <1>3
  <2> HIDE DEF ch
  <2> QED
    BY <2>1, TailChain
<1>6. /\ sub'[c].pc = "live" /\ sub'[c].tap = sub[c].tap /\ sub'[c].from = sub[c].from
      /\ sub'[c].upTo = sub[c].upTo /\ sub'[c].failed = sub[c].failed
      /\ sub'[c].ch = Tail(ch) /\ sub'[c].got = new
      /\ \A v \in Clients \ {c} : sub'[v] = sub[v]
      /\ sub' \in [Clients -> Sub]
  BY <1>0, <1>1, <1>2, ForwardEffect
<1>7. /\ new # << >> /\ Len(new) = Len(got) + 1 /\ new[Len(got) + 1] = ch[1]
      /\ \A i \in 1 .. Len(got) : new[i] = got[i]
      /\ got # << >> => new[1] = got[1] /\ Len(got) \in Nat \ {0}
      /\ got = << >> => new[1] = ch[1] /\ Len(got) = 0
  <2> DEFINE h == Head(ch)
  <2>1. got \in Seq(Nat) /\ h \in Nat /\ h = ch[1]
    BY <1>3, <1>5
  <2>2. Len(<< >>) = 0
    OBVIOUS
  <2> HIDE DEF got, h
  <2>3. /\ Append(got, h) # << >> /\ Len(Append(got, h)) = Len(got) + 1
        /\ Append(got, h)[Len(got) + 1] = h
        /\ \A i \in 1 .. Len(got) : Append(got, h)[i] = got[i]
        /\ got # << >> => Append(got, h)[1] = got[1] /\ Len(got) \in Nat \ {0}
        /\ got = << >> => Append(got, h)[1] = h /\ Len(got) = 0
    BY <2>1, <2>2, AppendChain
  <2> QED
    BY <2>1, <2>3 DEF h
<1> HIDE DEF new
<1>8. Registered'
  BY <1>0, <1>1, <1>6, CallRegistered
<1>9. Follows(c, ch[1])
  BY <1>1, <1>2 DEF Queued
<1>10. Gapless(c)'
  <2>1. \A i \in 1 .. Len(new) - 1 :
          new[i + 1] = new[i] + 1 \/ (new[i] = sub[c].upTo /\ new[i + 1] = sub[c].upTo + 2)
    <3> SUFFICES ASSUME NEW i \in 1 .. Len(new) - 1
                 PROVE  \/ new[i + 1] = new[i] + 1
                        \/ new[i] = sub[c].upTo /\ new[i + 1] = sub[c].upTo + 2
      OBVIOUS
    <3>1. i \in 1 .. Len(got) /\ got # << >>
      BY <1>4, <1>7
    <3>2. CASE i = Len(got)
      BY <1>1, <1>7, <1>9, <3>1, <3>2 DEF Follows
    <3>3. CASE i # Len(got)
      <4>1. i \in 1 .. Len(got) - 1 /\ i + 1 \in 1 .. Len(got)
        BY <1>4, <3>1, <3>3
      <4>2. got[i + 1] = got[i] + 1 \/ (got[i] = sub[c].upTo /\ got[i + 1] = sub[c].upTo + 2)
        BY <1>2, <4>1 DEF Gapless, Adjacent
      <4> QED
        BY <1>7, <3>1, <4>1, <4>2
    <3> QED
      BY <3>2, <3>3
  <2>2. new[1] \in IF Replayed(c) THEN {sub[c].from + 1} ELSE {sub[c].upTo + 1, sub[c].upTo + 2}
    <3>1. CASE got = << >>
      BY <1>1, <1>2, <1>7, <1>9, <3>1 DEF Follows, Settled
    <3>2. CASE got # << >>
      BY <1>2, <1>7, <3>2 DEF Gapless
    <3> QED
      BY <3>1, <3>2
  <2> QED
    BY <1>6, <2>1, <2>2 DEF Gapless, Adjacent, Replayed, ReplayOwed
<1>11. Settled(c)'
  BY <1>6, <1>7 DEF Settled
<1>12. \A e : e = ch[1] + 1 => Follows(c, e)'
  BY <1>6, <1>7 DEF Follows
<1>13. Queued(c)'
  <2>1. Consecutive(sub[c].ch)'
    BY <1>5, <1>6 DEF Consecutive
  <2>2. sub'[c].ch # << >> => Follows(c, sub[c].ch[1])'
    BY <1>5, <1>6, <1>7 DEF Follows
  <2>3. c \in tap[sub[c].tap].subs => NextSent(sub[c].tap) = ch[Len(ch)] + 1
    BY <1>1, <1>2 DEF Queued
  <2>4. NextSent(sub[c].tap)' = NextSent(sub[c].tap)
    BY <1>1, <1>6 DEF NextSent
  <2>5. c \in tap[sub[c].tap].subs /\ sub'[c].ch = << >> => Follows(c, NextSent(sub[c].tap))'
    <3>1. c \in tap[sub[c].tap].subs /\ sub'[c].ch = << >> => NextSent(sub[c].tap) = ch[1] + 1
      BY <1>5, <1>6, <2>3
    <3> QED
      BY <1>6, <1>7, <2>4, <3>1 DEF Follows
  <2>6. c \in tap[sub[c].tap].subs /\ sub'[c].ch # << >> =>
          NextSent(sub[c].tap)' = sub'[c].ch[Len(sub'[c].ch)] + 1
    BY <1>5, <1>6, <2>3, <2>4
  <2> QED
    BY <1>1, <1>6, <2>1, <2>2, <2>5, <2>6 DEF Queued
<1>14. InOrder(c)'
  BY <1>6, <1>10, <1>11, <1>13 DEF InOrder
<1>15. Len(sub'[c].ch) <= BufSize
  BY <1>2, <1>4, <1>5, <1>6, ConstantsOK
<1> QED
  BY <1>1, <1>2, <1>6, <1>8, <1>14, <1>15, CallKeeps

(* SeeClosed and CtxDone,                                                  *)
LEMMA LeaveKeeps ==
  ASSUME IndInv, NEW c \in Clients, Leave(c), sub[c].pc \in {"backfill", "live"},
         UNCHANGED <<published, reg, tap>> PROVE IndInv'
<1>0. TypeOK /\ Registered /\ Ordered
  BY DEF IndInv
<1>1. /\ sub'[c].pc = "detach" /\ sub'[c].tap = sub[c].tap /\ sub'[c].ch = sub[c].ch
      /\ sub'[c].got = << >> /\ \A v \in Clients \ {c} : sub'[v] = sub[v]
      /\ sub' \in [Clients -> Sub]
  BY <1>0, LeaveEffect
<1>2. Registered'
  BY <1>0, <1>1, CallRegistered
<1>3. InOrder(c)'
  BY <1>1, NothingYet
<1>4. Len(sub'[c].ch) <= BufSize /\ reg \in Taps \cup {NoTap}
  BY <1>0, <1>1 DEF TypeOK
<1> QED
  BY <1>1, <1>2, <1>3, <1>4, CallKeeps

(* Detach,                                                                 *)
LEMMA DetachKeeps ==
  ASSUME IndInv, NEW c \in Clients, Detach(c) PROVE IndInv'
<1>0. TypeOK /\ Registered /\ Ordered
  BY DEF IndInv
<1> DEFINE t == sub[c].tap
           D == tap[t].subs \ {c}
<1>1. /\ sub[c].pc = "detach" /\ UNCHANGED <<published, reg>>
      /\ tap' = [tap EXCEPT ![t].subs = D]
  BY DEF Detach
<1>2. t \in Taps /\ D \in SUBSET Clients
  BY <1>0, <1>1 DEF Registered, Holds, TypeOK, Tap
<1>3. /\ tap'[t].pc = tap[t].pc /\ tap'[t].cursor = tap[t].cursor
      /\ tap'[t].last = tap[t].last
      /\ tap'[t].subs = D /\ \A v \in Taps \ {t} : tap'[v] = tap[v]
      /\ tap' \in [Taps -> Tap]
  <2> HIDE DEF D, t
  <2> QED
    BY <1>0, <1>1, <1>2, ListEffect
<1>4. /\ sub'[c].ch = << >> /\ sub'[c].got = << >> /\ ~sub'[c].failed
      /\ \A v \in Clients \ {c} : sub'[v] = sub[v]
      /\ sub' \in [Clients -> Sub]
      /\ IF D = {} THEN sub'[c].pc = "unregister" /\ sub'[c].tap = t
                   ELSE sub'[c].pc = "idle" /\ sub'[c].tap = NoTap
  <2>1. CASE D = {}
    <3>1. sub' = [sub EXCEPT ![c] = [Idle EXCEPT !.pc = "unregister", !.tap = t]]
      BY <2>1 DEF Detach
    <3> HIDE DEF t, D
    <3> QED
      BY <1>0, <1>2, <2>1, <3>1, LastEffect
  <2>2. CASE D # {}
    <3>1. CloseUserCh(c)
      BY <2>2 DEF Detach
    <3> HIDE DEF t, D
    <3> QED
      BY <1>0, <2>2, <3>1, CloseEffect
  <2> QED
    BY <2>1, <2>2
<1>5. Len(<< >>) = 0
  OBVIOUS
<1>6. TypeOK'
  <2>1. \A v \in Taps : tap'[v].cursor <= published /\ tap'[v].last <= published
    BY <1>0, <1>3 DEF TypeOK
  <2>2. \A v \in Clients : Len(sub'[v].ch) <= BufSize
    BY <1>0, <1>4, <1>5, ConstantsOK DEF TypeOK
  <2> QED
    BY <1>0, <1>1, <1>3, <1>4, <2>1, <2>2 DEF TypeOK
<1>7. Registered'
  <2>1. \A v \in Clients : Holds(v)'
    BY <1>0, <1>2, <1>4 DEF Registered, Holds
  <2>2. ASSUME NEW v \in Taps PROVE Listed(v)'
    <3>1. c \notin tap'[v].subs /\ tap'[v].subs \subseteq tap[v].subs /\ tap[v].subs \subseteq Clients
      BY <1>0, <1>3 DEF Registered, Listed, TypeOK, Tap
    <3> QED
      BY <1>0, <1>4, <3>1 DEF Registered, Listed
  <2>3. ASSUME NEW v \in Taps PROVE Kept(v)'
    <3>1. CASE v # t
      BY <1>0, <1>3, <1>4, <3>1 DEF Registered, Kept
    <3>2. CASE v = t /\ D = {}
      BY <1>4, <3>2 DEF Kept
    <3>3. CASE v = t /\ D # {}
      <4>1. PICK d \in D : TRUE
        BY <3>3
      <4>2. d \in Clients \ {c} /\ sub[d].tap = t
        BY <1>0, <1>2, <4>1 DEF Registered, Listed
      <4>3. sub'[d].tap = t
        BY <1>4, <4>2
      <4> QED
        BY <3>3, <4>2, <4>3 DEF Kept
    <3> QED
      BY <3>1, <3>2, <3>3
  <2> QED
    BY <2>1, <2>2, <2>3 DEF Registered
<1>8. \A v \in Taps : NextSent(v)' = NextSent(v) /\ Reading(v)' /\ tap'[v].subs \subseteq tap[v].subs
  BY <1>0, <1>3 DEF NextSent, Ordered, Reading
<1>9. InOrder(c)'
  BY <1>4, NothingYet
<1>10. ASSUME NEW v \in Clients \ {c} PROVE InOrder(v)'
  <2>1. sub'[v] = sub[v] /\ InOrder(v) /\ Holds(v)
    BY <1>0, <1>4 DEF Ordered, Registered
  <2> QED
    BY <1>0, <1>8, <2>1, OthersInOrder
<1> QED
  BY <1>6, <1>7, <1>8, <1>9, <1>10 DEF IndInv, Ordered

(* Unregister,                                                             *)
LEMMA UnregisterKeeps ==
  ASSUME IndInv, NEW c \in Clients, Unregister(c) PROVE IndInv'
<1>0. TypeOK /\ Registered /\ Ordered
  BY DEF IndInv
<1>1. sub[c].pc = "unregister" /\ UNCHANGED <<published, tap>> /\ Goto(c, "cancel")
  BY DEF Unregister
<1>2. /\ sub'[c].pc = "cancel" /\ sub'[c].tap = sub[c].tap /\ sub'[c].ch = sub[c].ch
      /\ sub'[c].got = sub[c].got /\ \A v \in Clients \ {c} : sub'[v] = sub[v]
      /\ sub' \in [Clients -> Sub]
  BY <1>0, <1>1, GotoEffect
<1>3. reg' \in Taps \cup {NoTap} /\ Len(sub'[c].ch) <= BufSize
  BY <1>0, <1>2 DEF Unregister, TypeOK
<1>4. Registered'
  BY <1>0, <1>1, <1>2, CallRegistered
<1>5. sub[c].got = << >>
  BY <1>0, <1>1 DEF Ordered, InOrder, Settled
<1>6. InOrder(c)'
  BY <1>2, <1>5, NothingYet
<1> QED
  BY <1>1, <1>2, <1>3, <1>4, <1>6, CallKeeps

(* Cancel,                                                                 *)
LEMMA CancelKeeps ==
  ASSUME IndInv, NEW c \in Clients, Cancel(c) PROVE IndInv'
<1>0. TypeOK /\ Registered /\ Ordered
  BY DEF IndInv
<1> DEFINE t == sub[c].tap
<1>1. /\ sub[c].pc = "cancel" /\ UNCHANGED <<published, reg>> /\ Goto(c, "wait")
      /\ tap' = [tap EXCEPT ![t].stop = TRUE]
  BY DEF Cancel
<1>2. /\ sub'[c].pc = "wait" /\ sub'[c].tap = t /\ sub'[c].ch = sub[c].ch
      /\ sub'[c].got = sub[c].got /\ \A v \in Clients \ {c} : sub'[v] = sub[v]
      /\ sub' \in [Clients -> Sub]
  BY <1>0, <1>1, GotoEffect
<1>3. t \in Taps /\ sub[c].got = << >>
  BY <1>0, <1>1 DEF Registered, Holds, Ordered, InOrder, Settled
<1>4. /\ tap' \in [Taps -> Tap]
      /\ \A v \in Taps : /\ tap'[v].pc = tap[v].pc /\ tap'[v].cursor = tap[v].cursor
                         /\ tap'[v].last = tap[v].last /\ tap'[v].subs = tap[v].subs
  <2> HIDE DEF t
  <2>1. /\ tap'[t].pc = tap[t].pc /\ tap'[t].cursor = tap[t].cursor
        /\ tap'[t].last = tap[t].last
        /\ tap'[t].subs = tap[t].subs /\ \A v \in Taps \ {t} : tap'[v] = tap[v]
        /\ tap' \in [Taps -> Tap]
    BY <1>0, <1>1, <1>3, StopEffect
  <2> QED
    BY <2>1
<1>5. TypeOK'
  BY <1>0, <1>1, <1>2, <1>4 DEF TypeOK
<1>6. Registered'
  <2>1. \A v \in Clients : Holds(v)'
    BY <1>0, <1>1, <1>2, <1>3 DEF Registered, Holds
  <2>2. \A v \in Taps : c \notin tap[v].subs /\ tap[v].subs \subseteq Clients
    BY <1>0, <1>1 DEF Registered, Listed, TypeOK, Tap
  <2>3. \A v \in Taps : Listed(v)'
    BY <1>0, <1>2, <1>4, <2>2 DEF Registered, Listed
  <2>4. \A v \in Clients : sub'[v].tap = sub[v].tap
    BY <1>2
  <2>5. \A v \in Taps : Kept(v)'
    BY <1>0, <1>4, <2>4 DEF Registered, Kept
  <2> QED
    BY <2>1, <2>3, <2>5 DEF Registered
<1>7. \A v \in Taps : NextSent(v)' = NextSent(v) /\ Reading(v)'
  BY <1>0, <1>4 DEF NextSent, Ordered, Reading
<1>8. InOrder(c)'
  BY <1>2, <1>3, NothingYet
<1>9. ASSUME NEW v \in Clients \ {c} PROVE InOrder(v)'
  <2>1. sub'[v] = sub[v] /\ InOrder(v) /\ Holds(v)
    BY <1>0, <1>2 DEF Ordered, Registered
  <2> QED
    BY <1>0, <1>4, <1>7, <2>1, OthersInOrder
<1> QED
  BY <1>5, <1>6, <1>7, <1>8, <1>9 DEF IndInv, Ordered

(* and Wait, which leaves a tap whose loop has ended.                      *)
LEMMA WaitKeeps ==
  ASSUME IndInv, NEW c \in Clients, Wait(c) PROVE IndInv'
<1>0. TypeOK /\ Registered /\ Ordered
  BY DEF IndInv
<1>1. /\ sub[c].pc = "wait" /\ tap[sub[c].tap].pc = "done" /\ CloseUserCh(c)
      /\ UNCHANGED <<published, reg, tap>>
  BY DEF Wait
<1>2. /\ sub'[c].pc = "idle" /\ sub'[c].tap = NoTap /\ sub'[c].ch = << >>
      /\ sub'[c].got = << >> /\ ~sub'[c].failed
      /\ \A v \in Clients \ {c} : sub'[v] = sub[v]
      /\ sub' \in [Clients -> Sub]
  BY <1>0, <1>1, CloseEffect
<1>3. Registered'
  <2>1. \A v \in Clients : Holds(v)'
    BY <1>0, <1>2 DEF Registered, Holds
  <2>2. \A v \in Taps : c \notin tap[v].subs /\ tap[v].subs \subseteq Clients
    BY <1>0, <1>1 DEF Registered, Listed, TypeOK, Tap
  <2>3. \A v \in Taps : Listed(v)'
    BY <1>0, <1>1, <1>2, <2>2 DEF Registered, Listed
  <2>4. \A v \in Taps : Kept(v)'
    BY <1>0, <1>1, <1>2 DEF Registered, Kept
  <2> QED
    BY <2>1, <2>3, <2>4 DEF Registered
<1>4. InOrder(c)'
  BY <1>2, NothingYet
<1>5. Len(<< >>) = 0
  OBVIOUS
<1>6. Len(sub'[c].ch) <= BufSize /\ reg' \in Taps \cup {NoTap}
  BY <1>0, <1>1, <1>2, <1>5, ConstantsOK DEF TypeOK
<1> QED
  BY <1>1, <1>2, <1>3, <1>4, <1>6, CallKeeps

(* IndInv holds at the start, every step keeps it, and so it always holds. *)
LEMMA InitInd == Init => IndInv
<1> SUFFICES ASSUME Init PROVE IndInv
  OBVIOUS
<1>1. /\ \A t \in Taps : tap[t] = Done
      /\ \A c \in Clients : sub[c] = Idle
  BY DEF Init
<1>2. Len(<< >>) = 0
  OBVIOUS
<1>3. TypeOK
  <2>1. tap \in [Taps -> Tap] /\ sub \in [Clients -> Sub]
    BY StartTyped DEF Init
  <2>2. \A t \in Taps : tap[t].cursor <= 0 /\ tap[t].last <= 0
    BY <1>1 DEF Done
  <2>3. \A c \in Clients : Len(sub[c].ch) <= BufSize
    BY <1>1, <1>2, ConstantsOK DEF Idle
  <2>4. published = 0 /\ reg = NoTap /\ 0 \in 0 .. MaxEvents
    BY ConstantsOK DEF Init
  <2> QED
    BY <2>1, <2>2, <2>3, <2>4 DEF TypeOK
<1>4. Registered
  BY <1>1 DEF Registered, Holds, Listed, Kept, Done, Idle
<1>5. \A c \in Clients : InOrder(c)
  <2> SUFFICES ASSUME NEW c \in Clients PROVE InOrder(c)
    OBVIOUS
  <2>1. sub[c].pc = "idle" /\ sub[c].got = << >> /\ sub[c].ch = << >> /\ ~sub[c].failed
    BY <1>1 DEF Idle
  <2> QED
    BY <1>2, <2>1 DEF InOrder, Settled, Gapless
<1>6. \A t \in Taps : Reading(t)
  BY <1>1 DEF Reading, Done
<1> QED
  BY <1>3, <1>4, <1>5, <1>6 DEF IndInv, Ordered

LEMMA IndStep == IndInv /\ [Next]_vars => IndInv'
<1> SUFFICES ASSUME IndInv, [Next]_vars PROVE IndInv'
  OBVIOUS
<1>1. CASE Publish
  BY <1>1, PublishKeeps
<1>2. ASSUME NEW t \in Taps, run(t) PROVE IndInv'
  BY <1>2, XReadKeeps, BroadcastKeeps, AdvanceKeeps, ExitKeeps DEF run
<1>3. ASSUME NEW c \in Clients, NEW from \in Froms, getOrCreateTap(c, from) PROVE IndInv'
  BY <1>3, AcquireKeeps
<1>4. ASSUME NEW c \in Clients, SeeClosed(c) \/ CtxDone(c) PROVE IndInv'
  <2>1. Leave(c) /\ sub[c].pc \in {"backfill", "live"} /\ UNCHANGED <<published, reg, tap>>
    BY <1>4 DEF SeeClosed, CtxDone
  <2> QED
    BY <2>1, LeaveKeeps
<1>5. ASSUME NEW c \in Clients, BackfillError(c) PROVE IndInv'
  BY <1>5, SkipKeeps
<1>6. ASSUME NEW c \in Clients, Subscribe(c) PROVE IndInv'
  BY <1>4, <1>6, AttachKeeps, BackfillKeeps, ForwardKeeps, DetachKeeps, UnregisterKeeps,
     CancelKeeps, WaitKeeps DEF Subscribe
<1>7. CASE UNCHANGED vars
  <2>1. TypeOK /\ Registered /\ Ordered /\ UNCHANGED <<published, reg, tap, sub>>
    BY <1>7 DEF IndInv, vars
  <2>2. TypeOK'
    BY <2>1 DEF TypeOK
  <2>3. Registered'
    BY <2>1 DEF Registered, Holds, Listed, Kept
  <2>4. \A c \in Clients : InOrder(c)'
    BY <2>1, OthersInOrder DEF Registered, Ordered, NextSent
  <2> QED
    BY <2>1, <2>2, <2>3, <2>4 DEF IndInv, Ordered, Reading
<1> QED
  BY <1>1, <1>2, <1>3, <1>4, <1>5, <1>6, <1>7 DEF Next

LEMMA IndInvHolds == Spec => []IndInv
BY InitInd, IndStep, PTL DEF Spec

(* The taps, channels and outputs always hold values of their types; in    *)
(* particular no channel ever holds more than its capacity.                *)
THEOREM TypeCorrect == Spec => []TypeOK
<1>1. IndInv => TypeOK
  BY DEF IndInv
<1> QED
  BY <1>1, IndInvHolds, PTL

(* What a client got is a run of consecutive events from right after its   *)
(* cursor, except for the event being broadcast when it attached, a replay *)
(* whose XRANGE failed, and the events sent again to a client ahead of the *)
(* tap (bus_tap.go, bus_subscribe.go).                                     *)
THEOREM OnlyNamedGapsHolds == Spec => []OnlyNamedGaps
<1>1. IndInv => OnlyNamedGaps
  BY DEF IndInv, Ordered, InOrder, Gapless, Replayed, ReplayOwed, OnlyNamedGaps
<1> QED
  BY <1>1, IndInvHolds, PTL

(* The three critical sections of detachSubscriber leave no tap behind:    *)
(* once every Subscribe call has returned, every XREAD loop has ended.     *)
THEOREM NoLeakedTapHolds == Spec => []NoLeakedTap
<1>1. IndInv => NoLeakedTap
  BY ConstantsOK DEF IndInv, Registered, Holds, Kept, NoLeakedTap
<1> QED
  BY <1>1, IndInvHolds, PTL
=============================================================================
