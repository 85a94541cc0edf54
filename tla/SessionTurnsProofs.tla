------------------------- MODULE SessionTurnsProofs -------------------------
(***************************************************************************)
(* Proofs about SessionTurns, for any set of messages and jobs, any repeat *)
(* count and any bound.                                                    *)
(*                                                                         *)
(* The types rest on what the scheduler has listed and on the numbers of a *)
(* job's dispatches (Scheduling, Counted, Shaped).  ReservedIsOwned is     *)
(* inductive.  ResultReachesParent holds because the handler that          *)
(* delegates keeps its session's entry until no delegate of the session is *)
(* active (Told), and is alone with it in a session that is not crossed    *)
(* (Alone).  NoExtraRuns is an account: a delegate that can be listed      *)
(* again has slipped once for every run before, unless a run is sure to    *)
(* complete it (Delegated); any other job counts its runs (Plain).         *)
(***************************************************************************)
EXTENDS SessionTurns, TLAPS

Runs == 1 .. MaxRuns

\* What the scheduler is about to send, and what it has just sent
Picked(j) == j \in sched.todo \/ (sched.pc = "send" /\ sched.job = j)
Sending(j) == sched.pc = "cleanup" /\ sched.job = j

Scheduling ==
  /\ sched.pc = "idle" => sched.todo = {}
  /\ sched.pc \in {"idle", "pick"} => sched.job = Main
  /\ sched.pc \in {"send", "cleanup"} => sched.job \in Jobs \ sched.todo

\* A job's dispatches are numbered, and a row that was never made has none
Counted(j) ==
  /\ job[j].state = "none" <=> job[j].kind = "none"
  /\ job[j].state = "none" => job[j].sent = 0
  /\ job[j].rep <= job[j].sent
  /\ Picked(j) => job[j].state # "none" /\ job[j].sent < MaxRuns
  /\ Sending(j) => job[j].kind \notin {"none", "delegate"} /\ job[j].rep < job[j].sent
  /\ \A n \in Runs : n > job[j].sent => task[Dispatch(j, n)].pc = "none"

\* Only the handler of a scheduled event notifies a parent
Shaped(t) ==
  /\ task[t].pc \in {"none", "submit", "insert"} => task[t].turn # "batch"
  /\ task[t].pc \in {"note_insert", "complete"} => Scheduled(t)

Numbered == Scheduling /\ (\A j \in Jobs : Counted(j)) /\ (\A t \in Tasks : Shaped(t))

\* In a session that is not crossed a handler is alone, and the entry is its own
Single(s) == \A t, u \in Tasks : Live(t) /\ Live(u) /\ Sess(t) = s /\ Sess(u) = s => t = u
Entered(s) == \A t \in Tasks : Live(t) /\ task[t].pc # "reserve" /\ Sess(t) = s => map[s].in
Alone == \A s \in Sessions \ crossed : Single(s) /\ Entered(s)

\* The handler that waits for a delegate; a handler that will drain its queue
Waiting == {"turn", "note_insert", "complete", "drain", "delegates"}
Awaited(s) == \E t \in Tasks : task[t].pc \in Waiting /\ Sess(t) = s
Held(s) == \E t \in Tasks : Live(t) /\ task[t].pc # "reserve" /\ Sess(t) = s

\* A notification that is in a turn, or in a queue somebody will drain
Reached(j) == \E n \in Runs :
  Note(j, n) \in taken \/ (Note(j, n) \in map[job[j].by].q /\ Held(job[j].by))

Told(j) ==
  /\ job[j].by \notin crossed
  /\ job[j].state # "paused"
  /\ job[j].state = "completed" => job[j].result
  /\ job[j].state = "active" /\ ~job[j].result => Awaited(job[j].by)
  /\ job[j].result => Reached(j)
  /\ \A n \in Runs :
     /\ task[Dispatch(j, n)].pc = "note_insert" => job[j].result \/ job[j].state = "deleted"
     /\ task[Dispatch(j, n)].pc = "complete" =>
          job[j].result \/ job[j].state = "deleted" \/ Reached(j)

Results ==
  /\ \A j \in Jobs : job[j].result => job[j].kind = "delegate"
  /\ \A j \in Jobs \ excused : job[j].kind = "delegate" => Told(j)

\* A run that ends by completing its delegate, or with a slip, if its text is not blank
Certain(t) == \/ task[t].pc \in {"submit", "insert", "note_insert", "complete"}
              \/ task[t].pc = "turn" /\ task[t].turn = "own"
Sure(j) == \E n \in Runs : Certain(Dispatch(j, n))
Clear(t) == task[t].pc = "none" \/ task[t].turn # "blank"

Limit(j) == IF job[j].kind = "cron" /\ job[j].ivl = "some" THEN job[j].limit ELSE 1
Endless(j) == job[j].kind = "cron" /\ Limit(j) = 0

\* Every dispatch but the last was paid for by a slip or is counted in rep
Plain(j) ==
  /\ job[j].state \in {"active", "deleted"}
  /\ Picked(j) \/ Sending(j) => job[j].state = "active" /\ sched.list[j].ivl = job[j].ivl
  /\ job[j].state = "active" =>
       /\ job[j].rep < Limit(j)
       /\ job[j].sent <= job[j].rep + job[j].slips + (IF Sending(j) THEN 1 ELSE 0)
  /\ job[j].sent <= Limit(j) + job[j].slips

Delegated(j) ==
  /\ job[j].state \in {"active", "completed"}
  /\ \A n \in Runs : Clear(Dispatch(j, n))
  /\ Picked(j) => job[j].run # "leased" /\ job[j].sent <= job[j].slips /\ ~sched.list[j].blank
  /\ job[j].state = "active" =>
       (job[j].run = "leased" /\ Sure(j)) \/ job[j].sent <= job[j].slips
  /\ job[j].sent <= 1 + job[j].slips

PaidFor(j) ==
  /\ job[j].kind = "cron" => job[j].ivl # "none"
  /\ job[j].kind \in {"wake", "cron"} /\ ~Endless(j) => Plain(j)
  /\ job[j].kind = "delegate" /\ ~job[j].blank => Delegated(j)

Paid == \A j \in Jobs \ managed : PaidFor(j)

IndInv == TypeOK /\ Numbered /\ ReservedIsOwned /\ Alone /\ Results /\ Paid
-----------------------------------------------------------------------------
(* Tasks and their sessions.                                               *)

(* A dispatch is a task, is no message, and tells its job and number.      *)
LEMMA DispatchFacts ==
  ASSUME NEW j \in Jobs, NEW n \in Runs
  PROVE  /\ Dispatch(j, n) \in Tasks /\ Dispatch(j, n) \in Dispatches
         /\ Dispatch(j, n) \notin Messages
         /\ Dispatch(j, n)[2] = j /\ Dispatch(j, n)[3] = n
         /\ Note(j, n) \in Notes /\ Note(j, n) \in Events
BY TurnConstants DEF Dispatch, Tasks, Dispatches, Runs, Note, Notes, Events

(* The dispatches of different jobs, or numbers, are different.            *)
LEMMA DispatchOne ==
  ASSUME NEW j \in Jobs, NEW n \in Runs, NEW i \in Jobs, NEW m \in Runs,
         Dispatch(j, n) = Dispatch(i, m)
  PROVE  j = i /\ n = m
BY DispatchFacts

(* A dispatch is the one of its job and number.                            *)
LEMMA DispatchIs ==
  ASSUME NEW t \in Dispatches
  PROVE  /\ t \in Tasks /\ t \notin Messages /\ t[2] \in Jobs /\ t[3] \in Runs
         /\ t = Dispatch(t[2], t[3])
<1>1. PICK j \in Jobs, n \in Runs : t = Dispatch(j, n)
  BY DEF Dispatches, Runs
<1> QED
  BY <1>1, DispatchFacts

(* A task is a message or a dispatch.                                      *)
LEMMA TaskCases ==
  ASSUME NEW t \in Tasks
  PROVE  \/ t \in Messages /\ t \notin Dispatches
         \/ t \in Dispatches /\ t \notin Messages
<1>1. CASE t \in Messages
  <2>1. t \notin Dispatches
    BY <1>1, DispatchFacts DEF Dispatches, Runs
  <2> QED
    BY <1>1, <2>1
<1>2. CASE t \notin Messages
  BY <1>2 DEF Tasks
<1> QED
  BY <1>1, <1>2

(* The session of a task.                                                  *)
LEMMA SessTyped ==
  ASSUME TypeOK, NEW t \in Tasks
  PROVE  Sess(t) \in Sessions
<1>1. CASE t \in Messages
  BY <1>1 DEF Sess, Sessions
<1>2. CASE t \in Dispatches
  BY <1>2, DispatchIs DEF Sess, JobSession, Sessions, TypeOK, Row
<1> QED
  BY <1>1, <1>2, TaskCases

(* The session that created a job, which a scheduled event notifies.       *)
LEMMA ParentTyped ==
  ASSUME TypeOK, NEW j \in Jobs
  PROVE  job[j].by \in Sessions
BY DEF TypeOK, Row

\* What no step changes of a job
Lasting(j) ==
  job[j].state # "none" => /\ job'[j].state # "none" /\ (job[j].result => job'[j].result)
                           /\ job'[j].kind = job[j].kind /\ job'[j].by = job[j].by

(* The job of a dispatch that is under way exists.                         *)
LEMMA SentExists ==
  ASSUME TypeOK, Numbered, NEW j \in Jobs, NEW n \in Runs, task[Dispatch(j, n)].pc # "none"
  PROVE  job[j].state # "none" /\ job[j].kind # "none" /\ n <= job[j].sent
<1>1. job[j].sent \in Nat /\ n \in Nat /\ n > 0
  BY DEF TypeOK, Row, Runs
<1>2. ~(n > job[j].sent)
  BY DEF Numbered, Counted
<1> QED
  BY <1>1, <1>2 DEF Numbered, Counted

(* A task that has begun keeps its session.                                *)
LEMMA SessKeeps ==
  ASSUME TypeOK, Numbered, \A j \in Jobs : Lasting(j)
  PROVE  \A t \in Tasks : task[t].pc # "none" => Sess(t)' = Sess(t)
<1> SUFFICES ASSUME NEW t \in Tasks, task[t].pc # "none" PROVE Sess(t)' = Sess(t)
  OBVIOUS
<1>1. CASE t \in Messages
  BY <1>1 DEF Sess
<1>2. CASE t \in Dispatches
  BY <1>2, DispatchIs, SentExists DEF Sess, JobSession, Lasting
<1> QED
  BY <1>1, <1>2, TaskCases
-----------------------------------------------------------------------------
(* What the parts of the actions do to the records.                        *)

(* The constant records have their types.                                  *)
LEMMA StartTyped ==
  /\ IdleTask \in Handler /\ Empty \in Session /\ Fresh \in Session
  /\ NoRow \in Row /\ IdleSched \in Sched
<1>1. IdleTask \in Handler
  BY DEF IdleTask, Handler
<1>2. Empty \in Session /\ Fresh \in Session
  BY DEF Empty, Fresh, Session
<1>3. NoRow \in Row
  BY TurnConstants DEF NoRow, Row, Sessions, Intervals
<1>4. IdleSched \in Sched
  BY DEF IdleSched, Sched, Sessions, NoCopy, Intervals
<1> QED
  BY <1>1, <1>2, <1>3, <1>4

(* One handler moves.                                                      *)
LEMMA MoveEffect ==
  ASSUME TypeOK, NEW t \in Tasks, NEW r \in Handler, task' = [task EXCEPT ![t] = r]
  PROVE  /\ task'[t] = r /\ task' \in [Tasks -> Handler]
         /\ \A u \in Tasks \ {t} : task'[u] = task[u]
BY DEF TypeOK

(* Goto moves one handler.                                                 *)
LEMMA GotoEffect ==
  ASSUME TypeOK, NEW t \in Tasks,
         NEW pc \in Owning \cup {"none", "submit", "insert", "ended"}, Goto(t, pc)
  PROVE  /\ task'[t].pc = pc /\ task'[t].turn = task[t].turn
         /\ \A u \in Tasks \ {t} : task'[u] = task[u]
         /\ task' \in [Tasks -> Handler]
<1> DEFINE r == [task[t] EXCEPT !.pc = pc]
<1>1. task[t] \in Handler
  BY DEF TypeOK
<1>2. task' = [task EXCEPT ![t] = r]
  BY DEF Goto
<1>3. r \in Handler /\ r.pc = pc /\ r.turn = task[t].turn
  BY <1>1 DEF Handler
<1> HIDE DEF r
<1> QED
  BY <1>2, <1>3, MoveEffect

(* Ends stops one handler, and forgets what its turn was.                  *)
LEMMA EndsEffect ==
  ASSUME TypeOK, NEW t \in Tasks, Ends(t)
  PROVE  /\ task'[t].pc = "ended" /\ task'[t].turn = "own"
         /\ \A u \in Tasks \ {t} : task'[u] = task[u]
         /\ task' \in [Tasks -> Handler]
<1> DEFINE r == [IdleTask EXCEPT !.pc = "ended"]
<1>1. task' = [task EXCEPT ![t] = r]
  BY DEF Ends
<1>2. r \in Handler /\ r.pc = "ended" /\ r.turn = "own"
  BY DEF Handler, IdleTask
<1> HIDE DEF r
<1> QED
  BY <1>1, <1>2, MoveEffect

(* NextTurn starts a turn of a merged batch.                               *)
LEMMA NextTurnEffect ==
  ASSUME TypeOK, NEW t \in Tasks, NEW events, NEW pc \in Owning, NextTurn(t, events, pc)
  PROVE  /\ task'[t].pc = pc /\ task'[t].turn = "batch"
         /\ \A u \in Tasks \ {t} : task'[u] = task[u]
         /\ task' \in [Tasks -> Handler]
         /\ taken' = taken \cup events
<1> DEFINE r == [pc |-> pc, turn |-> "batch", waited |-> FALSE]
<1>1. task' = [task EXCEPT ![t] = r]
  BY DEF NextTurn
<1>2. r \in Handler /\ r.pc = pc /\ r.turn = "batch"
  BY DEF Handler
<1> HIDE DEF r
<1> QED
  BY <1>1, <1>2, MoveEffect DEF NextTurn

(* Wait sends one handler back to its queue.                               *)
LEMMA WaitEffect ==
  ASSUME TypeOK, NEW t \in Tasks, Wait(t)
  PROVE  /\ task'[t].pc = "drain" /\ task'[t].turn = task[t].turn
         /\ \A u \in Tasks \ {t} : task'[u] = task[u]
         /\ task' \in [Tasks -> Handler]
<1> DEFINE r == [task[t] EXCEPT !.pc = "drain", !.waited = TRUE]
<1>1. task[t] \in Handler
  BY DEF TypeOK
<1>2. task' = [task EXCEPT ![t] = r]
  BY DEF Wait, TypeOK
<1>3. r \in Handler /\ r.pc = "drain" /\ r.turn = task[t].turn
  BY <1>1 DEF Handler, Owning
<1> HIDE DEF r
<1> QED
  BY <1>2, <1>3, MoveEffect

(* A dispatch goes into the inbound channel.                               *)
LEMMA DispatchEffect ==
  ASSUME TypeOK, NEW t \in Tasks, NEW turn \in {"own", "blank"},
         task' = [task EXCEPT ![t] = [IdleTask EXCEPT !.pc = "submit", !.turn = turn]]
  PROVE  /\ task'[t].pc = "submit" /\ task'[t].turn = turn
         /\ \A u \in Tasks \ {t} : task'[u] = task[u]
         /\ task' \in [Tasks -> Handler]
<1> DEFINE r == [IdleTask EXCEPT !.pc = "submit", !.turn = turn]
<1>1. r \in Handler /\ r.pc = "submit" /\ r.turn = turn
  BY DEF Handler, IdleTask
<1>2. task' = [task EXCEPT ![t] = r]
  OBVIOUS
<1> HIDE DEF r
<1> QED
  BY <1>1, <1>2, MoveEffect

(* The coordinator's map: a push, a new entry, a drain.                    *)
LEMMA PushedEffect ==
  ASSUME TypeOK, NEW s \in Sessions, map[s].in, NEW e \in Events, Pushed(s, e)
  PROVE  /\ map'[s].in /\ map'[s].stray = map[s].stray /\ map'[s].q = map[s].q \cup {e}
         /\ \A v \in Sessions \ {s} : map'[v] = map[v]
         /\ map' \in [Sessions -> Session] /\ \A v \in Sessions : ~map'[v].in => map'[v].q = {}
<1> DEFINE r == [map[s] EXCEPT !.q = @ \cup {e}]
<1>1. map[s] \in Session
  BY DEF TypeOK
<1>2. map' = [map EXCEPT ![s] = r]
  BY DEF Pushed, TypeOK
<1>3. r \in Session /\ r.in = map[s].in /\ r.stray = map[s].stray /\ r.q = map[s].q \cup {e}
  BY <1>1 DEF Session
<1> HIDE DEF r
<1> QED
  BY <1>2, <1>3 DEF TypeOK

(* A new entry replaces the one that was there, and its queue.             *)
LEMMA EntryEffect ==
  ASSUME TypeOK, NEW s \in Sessions, NEW r \in Session, r.q = {}, map' = [map EXCEPT ![s] = r]
  PROVE  /\ map'[s] = r
         /\ \A v \in Sessions \ {s} : map'[v] = map[v]
         /\ map' \in [Sessions -> Session] /\ \A v \in Sessions : ~map'[v].in => map'[v].q = {}
BY DEF TypeOK

(* The three entries that are put there.                                   *)
LEMMA EntryTyped ==
  LET stray == [Fresh EXCEPT !.stray = TRUE] IN
  /\ Empty \in Session /\ Empty.q = {} /\ ~Empty.in
  /\ Fresh \in Session /\ Fresh.q = {} /\ Fresh.in /\ ~Fresh.stray
  /\ stray \in Session /\ stray.q = {} /\ stray.in /\ stray.stray
BY DEF Empty, Fresh, Session

(* A drained entry stays.                                                  *)
LEMMA DrainedEffect ==
  ASSUME TypeOK, NEW s \in Sessions, map' = [map EXCEPT ![s].q = {}]
  PROVE  /\ map'[s].in = map[s].in /\ map'[s].stray = map[s].stray /\ map'[s].q = {}
         /\ \A v \in Sessions \ {s} : map'[v] = map[v]
         /\ map' \in [Sessions -> Session] /\ \A v \in Sessions : ~map'[v].in => map'[v].q = {}
<1> DEFINE r == [map[s] EXCEPT !.q = {}]
<1>1. map[s] \in Session
  BY DEF TypeOK
<1>2. map' = [map EXCEPT ![s] = r]
  BY DEF TypeOK
<1>3. r \in Session /\ r.in = map[s].in /\ r.stray = map[s].stray /\ r.q = {}
  BY <1>1 DEF Session
<1> HIDE DEF r
<1> QED
  BY <1>2, <1>3 DEF TypeOK

(* A job changes its state,                                                *)
LEMMA StateRow ==
  ASSUME TypeOK, NEW j \in Jobs, NEW st \in {"deleted", "paused", "active", "completed"},
         job' = [job EXCEPT ![j].state = st]
  PROVE  /\ job'[j].state = st /\ job'[j].kind = job[j].kind /\ job'[j].by = job[j].by
         /\ job'[j].ivl = job[j].ivl /\ job'[j].limit = job[j].limit /\ job'[j].blank = job[j].blank
         /\ job'[j].next = job[j].next /\ job'[j].run = job[j].run /\ job'[j].rep = job[j].rep
         /\ job'[j].result = job[j].result /\ job'[j].sent = job[j].sent /\ job'[j].slips = job[j].slips
         /\ \A i \in Jobs \ {j} : job'[i] = job[i]
         /\ job' \in [Jobs -> Row]
<1> DEFINE u == [job[j] EXCEPT !.state = st]
<1>1. job[j] \in Row
  BY DEF TypeOK
<1>2. job' = [job EXCEPT ![j] = u]
  BY <1>1 DEF TypeOK
<1>3. /\ u.state = st /\ u.kind = job[j].kind /\ u.by = job[j].by
      /\ u.ivl = job[j].ivl /\ u.limit = job[j].limit /\ u.blank = job[j].blank
      /\ u.next = job[j].next /\ u.run = job[j].run /\ u.rep = job[j].rep
      /\ u.result = job[j].result /\ u.sent = job[j].sent /\ u.slips = job[j].slips
  BY <1>1 DEF Row
<1>4. u \in Row
  BY <1>1, TurnConstants DEF Row, Kinds, Intervals
<1> HIDE DEF u
<1> QED
  BY <1>2, <1>3, <1>4 DEF TypeOK

(* its prompt,                                                             *)
LEMMA BlankRow ==
  ASSUME TypeOK, NEW j \in Jobs, NEW b \in BOOLEAN,
         job' = [job EXCEPT ![j].blank = b]
  PROVE  /\ job'[j].state = job[j].state /\ job'[j].kind = job[j].kind /\ job'[j].by = job[j].by
         /\ job'[j].ivl = job[j].ivl /\ job'[j].limit = job[j].limit /\ job'[j].blank = b
         /\ job'[j].next = job[j].next /\ job'[j].run = job[j].run /\ job'[j].rep = job[j].rep
         /\ job'[j].result = job[j].result /\ job'[j].sent = job[j].sent /\ job'[j].slips = job[j].slips
         /\ \A i \in Jobs \ {j} : job'[i] = job[i]
         /\ job' \in [Jobs -> Row]
<1> DEFINE u == [job[j] EXCEPT !.blank = b]
<1>1. job[j] \in Row
  BY DEF TypeOK
<1>2. job' = [job EXCEPT ![j] = u]
  BY <1>1 DEF TypeOK
<1>3. /\ u.state = job[j].state /\ u.kind = job[j].kind /\ u.by = job[j].by
      /\ u.ivl = job[j].ivl /\ u.limit = job[j].limit /\ u.blank = b
      /\ u.next = job[j].next /\ u.run = job[j].run /\ u.rep = job[j].rep
      /\ u.result = job[j].result /\ u.sent = job[j].sent /\ u.slips = job[j].slips
  BY <1>1 DEF Row
<1>4. u \in Row
  BY <1>1, TurnConstants DEF Row, Kinds, Intervals
<1> HIDE DEF u
<1> QED
  BY <1>2, <1>3, <1>4 DEF TypeOK

(* or its interval;                                                        *)
LEMMA IntervalRow ==
  ASSUME TypeOK, NEW j \in Jobs, NEW iv \in Intervals,
         job' = [job EXCEPT ![j].ivl = iv]
  PROVE  /\ job'[j].state = job[j].state /\ job'[j].kind = job[j].kind /\ job'[j].by = job[j].by
         /\ job'[j].ivl = iv /\ job'[j].limit = job[j].limit /\ job'[j].blank = job[j].blank
         /\ job'[j].next = job[j].next /\ job'[j].run = job[j].run /\ job'[j].rep = job[j].rep
         /\ job'[j].result = job[j].result /\ job'[j].sent = job[j].sent /\ job'[j].slips = job[j].slips
         /\ \A i \in Jobs \ {j} : job'[i] = job[i]
         /\ job' \in [Jobs -> Row]
<1> DEFINE u == [job[j] EXCEPT !.ivl = iv]
<1>1. job[j] \in Row
  BY DEF TypeOK
<1>2. job' = [job EXCEPT ![j] = u]
  BY <1>1 DEF TypeOK
<1>3. /\ u.state = job[j].state /\ u.kind = job[j].kind /\ u.by = job[j].by
      /\ u.ivl = iv /\ u.limit = job[j].limit /\ u.blank = job[j].blank
      /\ u.next = job[j].next /\ u.run = job[j].run /\ u.rep = job[j].rep
      /\ u.result = job[j].result /\ u.sent = job[j].sent /\ u.slips = job[j].slips
  BY <1>1 DEF Row
<1>4. u \in Row
  BY <1>1, TurnConstants DEF Row, Kinds, Intervals
<1> HIDE DEF u
<1> QED
  BY <1>2, <1>3, <1>4 DEF TypeOK

(* its result is recorded,                                                 *)
LEMMA ResultRow ==
  ASSUME TypeOK, NEW j \in Jobs,
         job' = [job EXCEPT ![j].state = "completed", ![j].run = "no", ![j].result = TRUE]
  PROVE  /\ job'[j].state = "completed" /\ job'[j].kind = job[j].kind /\ job'[j].by = job[j].by
         /\ job'[j].ivl = job[j].ivl /\ job'[j].limit = job[j].limit /\ job'[j].blank = job[j].blank
         /\ job'[j].next = job[j].next /\ job'[j].run = "no" /\ job'[j].rep = job[j].rep
         /\ job'[j].result /\ job'[j].sent = job[j].sent /\ job'[j].slips = job[j].slips
         /\ \A i \in Jobs \ {j} : job'[i] = job[i]
         /\ job' \in [Jobs -> Row]
<1> DEFINE u == [job[j] EXCEPT !.state = "completed", !.run = "no", !.result = TRUE]
<1>1. job[j] \in Row
  BY DEF TypeOK
<1>2. job' = [job EXCEPT ![j] = u]
  BY <1>1 DEF TypeOK
<1>3. /\ u.state = "completed" /\ u.kind = job[j].kind /\ u.by = job[j].by
      /\ u.ivl = job[j].ivl /\ u.limit = job[j].limit /\ u.blank = job[j].blank
      /\ u.next = job[j].next /\ u.run = "no" /\ u.rep = job[j].rep
      /\ u.result /\ u.sent = job[j].sent /\ u.slips = job[j].slips
  BY <1>1 DEF Row
<1>4. u \in Row
  BY <1>1, TurnConstants DEF Row, Kinds, Intervals
<1> HIDE DEF u
<1> QED
  BY <1>2, <1>3, <1>4 DEF TypeOK

(* or that its sub-agent is gone;                                          *)
LEMMA FailedRow ==
  ASSUME TypeOK, NEW j \in Jobs,
         job' = [job EXCEPT ![j].state = "completed", ![j].run = "no"]
  PROVE  /\ job'[j].state = "completed" /\ job'[j].kind = job[j].kind /\ job'[j].by = job[j].by
         /\ job'[j].ivl = job[j].ivl /\ job'[j].limit = job[j].limit /\ job'[j].blank = job[j].blank
         /\ job'[j].next = job[j].next /\ job'[j].run = "no" /\ job'[j].rep = job[j].rep
         /\ job'[j].result = job[j].result /\ job'[j].sent = job[j].sent /\ job'[j].slips = job[j].slips
         /\ \A i \in Jobs \ {j} : job'[i] = job[i]
         /\ job' \in [Jobs -> Row]
<1> DEFINE u == [job[j] EXCEPT !.state = "completed", !.run = "no"]
<1>1. job[j] \in Row
  BY DEF TypeOK
<1>2. job' = [job EXCEPT ![j] = u]
  BY <1>1 DEF TypeOK
<1>3. /\ u.state = "completed" /\ u.kind = job[j].kind /\ u.by = job[j].by
      /\ u.ivl = job[j].ivl /\ u.limit = job[j].limit /\ u.blank = job[j].blank
      /\ u.next = job[j].next /\ u.run = "no" /\ u.rep = job[j].rep
      /\ u.result = job[j].result /\ u.sent = job[j].sent /\ u.slips = job[j].slips
  BY <1>1 DEF Row
<1>4. u \in Row
  BY <1>1, TurnConstants DEF Row, Kinds, Intervals
<1> HIDE DEF u
<1> QED
  BY <1>2, <1>3, <1>4 DEF TypeOK

(* it slips;                                                               *)
LEMMA SlipRow ==
  ASSUME TypeOK, NEW j \in Jobs,
         job' = [job EXCEPT ![j].slips = @ + 1]
  PROVE  /\ job'[j].state = job[j].state /\ job'[j].kind = job[j].kind /\ job'[j].by = job[j].by
         /\ job'[j].ivl = job[j].ivl /\ job'[j].limit = job[j].limit /\ job'[j].blank = job[j].blank
         /\ job'[j].next = job[j].next /\ job'[j].run = job[j].run /\ job'[j].rep = job[j].rep
         /\ job'[j].result = job[j].result /\ job'[j].sent = job[j].sent /\ job'[j].slips = job[j].slips + 1
         /\ \A i \in Jobs \ {j} : job'[i] = job[i]
         /\ job' \in [Jobs -> Row]
<1> DEFINE u == [job[j] EXCEPT !.slips = @ + 1]
<1>1. job[j] \in Row
  BY DEF TypeOK
<1>2. job' = [job EXCEPT ![j] = u]
  BY <1>1 DEF TypeOK
<1>3. /\ u.state = job[j].state /\ u.kind = job[j].kind /\ u.by = job[j].by
      /\ u.ivl = job[j].ivl /\ u.limit = job[j].limit /\ u.blank = job[j].blank
      /\ u.next = job[j].next /\ u.run = job[j].run /\ u.rep = job[j].rep
      /\ u.result = job[j].result /\ u.sent = job[j].sent /\ u.slips = job[j].slips + 1
  BY <1>1 DEF Row
<1>4. u \in Row
  <2>1. job[j].slips + 1 \in Nat
    BY <1>1 DEF Row
  <2> QED
    BY <1>1, <2>1, TurnConstants DEF Row, Kinds, Intervals
<1> HIDE DEF u
<1> QED
  BY <1>2, <1>3, <1>4 DEF TypeOK

(* its next run changes,                                                   *)
LEMMA NextRow ==
  ASSUME TypeOK, NEW j \in Jobs, NEW n \in {"future", "due", "stale"},
         job' = [job EXCEPT ![j].next = n]
  PROVE  /\ job'[j].state = job[j].state /\ job'[j].kind = job[j].kind /\ job'[j].by = job[j].by
         /\ job'[j].ivl = job[j].ivl /\ job'[j].limit = job[j].limit /\ job'[j].blank = job[j].blank
         /\ job'[j].next = n /\ job'[j].run = job[j].run /\ job'[j].rep = job[j].rep
         /\ job'[j].result = job[j].result /\ job'[j].sent = job[j].sent /\ job'[j].slips = job[j].slips
         /\ \A i \in Jobs \ {j} : job'[i] = job[i]
         /\ job' \in [Jobs -> Row]
<1> DEFINE u == [job[j] EXCEPT !.next = n]
<1>1. job[j] \in Row
  BY DEF TypeOK
<1>2. job' = [job EXCEPT ![j] = u]
  BY <1>1 DEF TypeOK
<1>3. /\ u.state = job[j].state /\ u.kind = job[j].kind /\ u.by = job[j].by
      /\ u.ivl = job[j].ivl /\ u.limit = job[j].limit /\ u.blank = job[j].blank
      /\ u.next = n /\ u.run = job[j].run /\ u.rep = job[j].rep
      /\ u.result = job[j].result /\ u.sent = job[j].sent /\ u.slips = job[j].slips
  BY <1>1 DEF Row
<1>4. u \in Row
  BY <1>1, TurnConstants DEF Row, Kinds, Intervals
<1> HIDE DEF u
<1> QED
  BY <1>2, <1>3, <1>4 DEF TypeOK

(* its lease runs out,                                                     *)
LEMMA ExpiredRow ==
  ASSUME TypeOK, NEW j \in Jobs,
         job' = [job EXCEPT ![j].run = "expired"]
  PROVE  /\ job'[j].state = job[j].state /\ job'[j].kind = job[j].kind /\ job'[j].by = job[j].by
         /\ job'[j].ivl = job[j].ivl /\ job'[j].limit = job[j].limit /\ job'[j].blank = job[j].blank
         /\ job'[j].next = job[j].next /\ job'[j].run = "expired" /\ job'[j].rep = job[j].rep
         /\ job'[j].result = job[j].result /\ job'[j].sent = job[j].sent /\ job'[j].slips = job[j].slips
         /\ \A i \in Jobs \ {j} : job'[i] = job[i]
         /\ job' \in [Jobs -> Row]
<1> DEFINE u == [job[j] EXCEPT !.run = "expired"]
<1>1. job[j] \in Row
  BY DEF TypeOK
<1>2. job' = [job EXCEPT ![j] = u]
  BY <1>1 DEF TypeOK
<1>3. /\ u.state = job[j].state /\ u.kind = job[j].kind /\ u.by = job[j].by
      /\ u.ivl = job[j].ivl /\ u.limit = job[j].limit /\ u.blank = job[j].blank
      /\ u.next = job[j].next /\ u.run = "expired" /\ u.rep = job[j].rep
      /\ u.result = job[j].result /\ u.sent = job[j].sent /\ u.slips = job[j].slips
  BY <1>1 DEF Row
<1>4. u \in Row
  BY <1>1, TurnConstants DEF Row, Kinds, Intervals
<1> HIDE DEF u
<1> QED
  BY <1>2, <1>3, <1>4 DEF TypeOK

(* under a run;                                                            *)
LEMMA OverrunRow ==
  ASSUME TypeOK, NEW j \in Jobs,
         job' = [job EXCEPT ![j].run = "expired", ![j].slips = @ + 1]
  PROVE  /\ job'[j].state = job[j].state /\ job'[j].kind = job[j].kind /\ job'[j].by = job[j].by
         /\ job'[j].ivl = job[j].ivl /\ job'[j].limit = job[j].limit /\ job'[j].blank = job[j].blank
         /\ job'[j].next = job[j].next /\ job'[j].run = "expired" /\ job'[j].rep = job[j].rep
         /\ job'[j].result = job[j].result /\ job'[j].sent = job[j].sent /\ job'[j].slips = job[j].slips + 1
         /\ \A i \in Jobs \ {j} : job'[i] = job[i]
         /\ job' \in [Jobs -> Row]
<1> DEFINE u == [job[j] EXCEPT !.run = "expired", !.slips = @ + 1]
<1>1. job[j] \in Row
  BY DEF TypeOK
<1>2. job' = [job EXCEPT ![j] = u]
  BY <1>1 DEF TypeOK
<1>3. /\ u.state = job[j].state /\ u.kind = job[j].kind /\ u.by = job[j].by
      /\ u.ivl = job[j].ivl /\ u.limit = job[j].limit /\ u.blank = job[j].blank
      /\ u.next = job[j].next /\ u.run = "expired" /\ u.rep = job[j].rep
      /\ u.result = job[j].result /\ u.sent = job[j].sent /\ u.slips = job[j].slips + 1
  BY <1>1 DEF Row
<1>4. u \in Row
  <2>1. job[j].slips + 1 \in Nat
    BY <1>1 DEF Row
  <2> QED
    BY <1>1, <2>1, TurnConstants DEF Row, Kinds, Intervals
<1> HIDE DEF u
<1> QED
  BY <1>2, <1>3, <1>4 DEF TypeOK

\* A dispatch, and the lease it leaves the job under
SentUnder(j, r) == [job EXCEPT ![j].sent = @ + 1, ![j].run = r]

(* it is dispatched, under a lease or none,                                *)
LEMMA SentRow ==
  ASSUME TypeOK, NEW j \in Jobs, NEW r \in {"no", "leased", "expired"},
         job[j].sent < MaxRuns,
         job' = SentUnder(j, r)
  PROVE  /\ job'[j].state = job[j].state /\ job'[j].kind = job[j].kind /\ job'[j].by = job[j].by
         /\ job'[j].ivl = job[j].ivl /\ job'[j].limit = job[j].limit /\ job'[j].blank = job[j].blank
         /\ job'[j].next = job[j].next /\ job'[j].run = r /\ job'[j].rep = job[j].rep
         /\ job'[j].result = job[j].result /\ job'[j].sent = job[j].sent + 1 /\ job'[j].slips = job[j].slips
         /\ \A i \in Jobs \ {j} : job'[i] = job[i]
         /\ job' \in [Jobs -> Row]
<1> DEFINE u == [job[j] EXCEPT !.sent = job[j].sent + 1, !.run = r]
<1>1. job[j] \in Row
  BY DEF TypeOK
<1>2. job' = [job EXCEPT ![j] = u]
  BY <1>1 DEF TypeOK, SentUnder
<1>3. /\ u.state = job[j].state /\ u.kind = job[j].kind /\ u.by = job[j].by
      /\ u.ivl = job[j].ivl /\ u.limit = job[j].limit /\ u.blank = job[j].blank
      /\ u.next = job[j].next /\ u.run = r /\ u.rep = job[j].rep
      /\ u.result = job[j].result /\ u.sent = job[j].sent + 1 /\ u.slips = job[j].slips
  BY <1>1 DEF Row
<1>4. u \in Row
  <2>1. job[j].sent + 1 \in 0 .. MaxRuns
    BY <1>1, TurnConstants DEF Row
  <2> QED
    BY <1>1, <2>1, TurnConstants DEF Row, Kinds, Intervals
<1> HIDE DEF u
<1> QED
  BY <1>2, <1>3, <1>4 DEF TypeOK

(* or with a slip;                                                         *)
LEMMA UnrecordedRow ==
  ASSUME TypeOK, NEW j \in Jobs,
         job[j].sent < MaxRuns,
         job' = [job EXCEPT ![j].sent = job[j].sent + 1, ![j].slips = @ + 1]
  PROVE  /\ job'[j].state = job[j].state /\ job'[j].kind = job[j].kind /\ job'[j].by = job[j].by
         /\ job'[j].ivl = job[j].ivl /\ job'[j].limit = job[j].limit /\ job'[j].blank = job[j].blank
         /\ job'[j].next = job[j].next /\ job'[j].run = job[j].run /\ job'[j].rep = job[j].rep
         /\ job'[j].result = job[j].result /\ job'[j].sent = job[j].sent + 1 /\ job'[j].slips = job[j].slips + 1
         /\ \A i \in Jobs \ {j} : job'[i] = job[i]
         /\ job' \in [Jobs -> Row]
<1> DEFINE u == [job[j] EXCEPT !.sent = job[j].sent + 1, !.slips = @ + 1]
<1>1. job[j] \in Row
  BY DEF TypeOK
<1>2. job' = [job EXCEPT ![j] = u]
  BY <1>1 DEF TypeOK
<1>3. /\ u.state = job[j].state /\ u.kind = job[j].kind /\ u.by = job[j].by
      /\ u.ivl = job[j].ivl /\ u.limit = job[j].limit /\ u.blank = job[j].blank
      /\ u.next = job[j].next /\ u.run = job[j].run /\ u.rep = job[j].rep
      /\ u.result = job[j].result /\ u.sent = job[j].sent + 1 /\ u.slips = job[j].slips + 1
  BY <1>1 DEF Row
<1>4. u \in Row
  <2>1. job[j].sent + 1 \in 0 .. MaxRuns /\ job[j].slips + 1 \in Nat
    BY <1>1, TurnConstants DEF Row
  <2> QED
    BY <1>1, <2>1, TurnConstants DEF Row, Kinds, Intervals
<1> HIDE DEF u
<1> QED
  BY <1>2, <1>3, <1>4 DEF TypeOK

-----------------------------------------------------------------------------
(* What each action does; the types and the numbering survive it.          *)

\* A step that keeps the types, the numbers and what lasts of the jobs
Steady == TypeOK' /\ Numbered' /\ \A j \in Jobs : Lasting(j)

\* A job whose kind, numbers and existence stay
Kept(j) == /\ job'[j].state = "none" <=> job[j].state = "none"
           /\ job'[j].kind = job[j].kind /\ job'[j].by = job[j].by
           /\ job'[j].sent = job[j].sent /\ job'[j].rep = job[j].rep
           /\ job[j].result => job'[j].result

\* The variables that only history, bounds and background processes need
Rest == /\ procs' \subseteq Sessions /\ load' \in 0 .. MaxLoad
        /\ crossed' \subseteq Sessions /\ excused' \subseteq Jobs /\ managed' \subseteq Jobs

(* The load stays within its bound, and Calm changes nothing of the rest.  *)
LEMMA RestFacts ==
  ASSUME TypeOK
  PROVE  /\ Spend \/ UNCHANGED load => load' \in 0 .. MaxLoad
         /\ Known => /\ procs' = procs /\ crossed' = crossed
                     /\ excused' = excused /\ managed' = managed
         /\ Known /\ load' \in 0 .. MaxLoad => Rest
         /\ Calm => Rest /\ Known
<1>1. load \in 0 .. MaxLoad /\ MaxLoad \in Nat
  BY TurnConstants DEF TypeOK
<1>2. Spend \/ UNCHANGED load => load' \in 0 .. MaxLoad
  BY <1>1 DEF Spend
<1>3. Known => /\ procs' = procs /\ crossed' = crossed
               /\ excused' = excused /\ managed' = managed
  BY DEF Known
<1> QED
  BY <1>2, <1>3 DEF TypeOK, Rest, Calm

(* Inserting an entry keeps the types of the history.                      *)
LEMMA InsertedFacts ==
  ASSUME TypeOK, NEW s \in Sessions, Inserted(s)
  PROVE  /\ crossed \subseteq crossed' /\ crossed' \subseteq crossed \cup {s}
         /\ crossed' \subseteq Sessions
         /\ excused \subseteq excused' /\ excused' \subseteq Jobs
         /\ Handled(s) => s \in crossed' /\ CreatedBy(s) \subseteq excused'
         /\ ~Handled(s) => crossed' = crossed /\ excused' = excused
<1>1. CreatedBy(s) \subseteq Jobs
  BY DEF CreatedBy
<1> QED
  BY <1>1 DEF TypeOK, Inserted

(* TypeOK is a conjunction of facts of the single variables.               *)
LEMMA TypeFrame ==
  ASSUME TypeOK,
         map' = map \/ (/\ map' \in [Sessions -> Session]
                        /\ \A s \in Sessions : ~map'[s].in => map'[s].q = {}),
         task' = task \/ task' \in [Tasks -> Handler],
         job' = job \/ job' \in [Jobs -> Row],
         sched' = sched \/ sched' \in Sched,
         taken' = taken \/ taken' \subseteq Events,
         Rest
  PROVE  TypeOK'
BY DEF TypeOK, Rest

(* What the numbers and shapes need of a step that leaves the scheduler.   *)
LEMMA KeptFrame ==
  ASSUME TypeOK, Numbered, sched' = sched, \A j \in Jobs : Kept(j),
         \A t \in Dispatches : task[t].pc = "none" => task'[t].pc = "none",
         \A t \in Tasks : Shaped(t)'
  PROVE  Numbered' /\ \A j \in Jobs : Lasting(j)
<1>1. Scheduling'
  BY DEF Numbered, Scheduling
<1>2. ASSUME NEW j \in Jobs PROVE Counted(j)'
  <2>1. ASSUME NEW n \in Runs, n > job[j].sent PROVE task'[Dispatch(j, n)].pc = "none"
    BY <2>1, DispatchFacts DEF Numbered, Counted
  <2> QED
    BY <2>1 DEF Numbered, Counted, Kept, Picked, Sending, Runs
<1>3. \A j \in Jobs : Lasting(j)
  BY DEF Kept, Lasting
<1> QED
  BY <1>1, <1>2, <1>3 DEF Numbered

(* A step of one task that has begun.                                      *)
LEMMA TaskFrame ==
  ASSUME TypeOK, Numbered, NEW t \in Tasks, task[t].pc # "none",
         task' \in [Tasks -> Handler], \A u \in Tasks \ {t} : task'[u] = task[u], Shaped(t)',
         map' = map \/ (/\ map' \in [Sessions -> Session]
                        /\ \A s \in Sessions : ~map'[s].in => map'[s].q = {}),
         job' = job \/ (job' \in [Jobs -> Row] /\ \A j \in Jobs : Kept(j)),
         sched' = sched, taken' = taken \/ taken' \subseteq Events, Rest
  PROVE  Steady
<1>1. TypeOK'
  BY TypeFrame
<1>2. \A j \in Jobs : Kept(j)
  BY DEF Kept
<1>3. \A u \in Dispatches : task[u].pc = "none" => task'[u].pc = "none"
  BY DispatchIs
<1>4. ASSUME NEW u \in Tasks PROVE Shaped(u)'
  <2>1. CASE u = t
    BY <2>1
  <2>2. CASE u # t
    BY <2>2 DEF Numbered, Shaped, Scheduled
  <2> QED
    BY <2>1, <2>2
<1> QED
  BY <1>1, <1>2, <1>3, <1>4, KeptFrame DEF Steady

(* A step that leaves the tasks, the map and the scheduler alone.          *)
LEMMA RowFrame ==
  ASSUME TypeOK, Numbered, UNCHANGED <<map, task, sched, taken>>, Rest,
         job' = job \/ (job' \in [Jobs -> Row] /\ \A j \in Jobs : Kept(j))
  PROVE  Steady
<1>1. TypeOK'
  BY TypeFrame
<1>2. \A j \in Jobs : Kept(j)
  BY DEF Kept
<1>3. \A t \in Tasks : Shaped(t)'
  BY DEF Numbered, Shaped, Scheduled
<1> QED
  BY <1>1, <1>2, <1>3, KeptFrame DEF Steady

(* A message is submitted.                                                 *)
LEMMA InjectEffect ==
  ASSUME TypeOK, Numbered, InjectMessage
  PROVE  /\ \E m \in Messages : /\ task[m].pc = "none" /\ task'[m].pc = "submit"
                                /\ task'[m].turn = task[m].turn
                                /\ \A u \in Tasks \ {m} : task'[u] = task[u]
         /\ UNCHANGED <<map, job, sched, taken, load>> /\ Known
         /\ Steady
<1> DEFINE new == {m \in Messages : task[m].pc = "none"}
<1>1. PICK m \in Messages : task[m].pc = "none" /\ Goto(m, "submit")
  <2>1. new # {} /\ Goto(CHOOSE m \in new : TRUE, "submit")
    BY DEF InjectMessage
  <2>2. (CHOOSE m \in new : TRUE) \in new
    BY <2>1
  <2> QED
    BY <2>1, <2>2
<1>2. m \in Tasks
  BY DEF Tasks
<1>3. /\ task'[m].pc = "submit" /\ task'[m].turn = task[m].turn
      /\ \A u \in Tasks \ {m} : task'[u] = task[u]
      /\ task' \in [Tasks -> Handler]
  BY <1>1, <1>2, GotoEffect
<1>4. UNCHANGED <<map, job, sched, taken, load>> /\ Known /\ Rest
  BY RestFacts DEF InjectMessage, Calm
<1>5. TypeOK'
  BY <1>3, <1>4, TypeFrame
<1>6. \A t \in Dispatches : task'[t] = task[t]
  BY <1>3, DispatchIs
<1>7. ASSUME NEW u \in Tasks PROVE Shaped(u)'
  <2>1. CASE u = m
    BY <1>1, <1>2, <1>3, <2>1 DEF Numbered, Shaped
  <2>2. CASE u # m
    BY <1>3, <2>2 DEF Numbered, Shaped, Scheduled
  <2> QED
    BY <2>1, <2>2
<1>8. \A j \in Jobs : Kept(j)
  BY <1>4 DEF Kept
<1>9. Numbered' /\ \A j \in Jobs : Lasting(j)
  BY <1>4, <1>6, <1>7, <1>8, KeptFrame
<1> QED
  BY <1>1, <1>3, <1>4, <1>5, <1>9 DEF Steady

(* A row that slips is the row it was but for that.                        *)
LEMMA SlipKept ==
  ASSUME TypeOK, NEW j \in Jobs, job' = Slip(j)
  PROVE  /\ \A i \in Jobs : Kept(i)
         /\ job' \in [Jobs -> Row]
BY SlipRow DEF Slip, Kept

(* submit_or_queue: the event is queued, or has yet to be inserted.        *)
LEMMA SubmitEffect ==
  ASSUME TypeOK, Numbered, NEW t \in Tasks, SubmitOrQueue(t)
  PROVE  /\ task[t].pc = "submit"
         /\ \/ /\ map[Sess(t)].in /\ task'[t].pc = "ended" /\ task'[t].turn = "own"
               /\ job' = IF t \in Messages THEN job ELSE Slip(t[2])
            \/ /\ ~map[Sess(t)].in /\ task'[t].pc = "insert" /\ task'[t].turn = task[t].turn
               /\ job' = job
         /\ \A u \in Tasks \ {t} : task'[u] = task[u]
         /\ \A s \in Sessions : /\ map'[s].in = map[s].in /\ map'[s].stray = map[s].stray
                                /\ map[s].q \subseteq map'[s].q
         /\ UNCHANGED <<sched, taken, load>> /\ Known
         /\ Steady
<1>1. task[t].pc = "submit" /\ UNCHANGED <<sched, taken, load>> /\ Known /\ Rest
  BY RestFacts DEF SubmitOrQueue, Calm
<1>2. Sess(t) \in Sessions /\ t \in Events
  BY SessTyped DEF Events
<1>3. task[t].turn # "batch"
  BY <1>1 DEF Numbered, Shaped
<1>4. CASE /\ map[Sess(t)].in /\ Pushed(Sess(t), t) /\ Ends(t)
           /\ job' = IF t \in Messages THEN job ELSE Slip(t[2])
  <2>1. /\ task'[t].pc = "ended" /\ task'[t].turn = "own"
        /\ \A u \in Tasks \ {t} : task'[u] = task[u]
        /\ task' \in [Tasks -> Handler]
    BY <1>4, EndsEffect
  <2>2. /\ map'[Sess(t)].in /\ map'[Sess(t)].stray = map[Sess(t)].stray
        /\ map'[Sess(t)].q = map[Sess(t)].q \cup {t}
        /\ \A v \in Sessions \ {Sess(t)} : map'[v] = map[v]
        /\ map' \in [Sessions -> Session] /\ \A v \in Sessions : ~map'[v].in => map'[v].q = {}
    BY <1>2, <1>4, PushedEffect
  <2>3. ASSUME NEW s \in Sessions
        PROVE  /\ map'[s].in = map[s].in /\ map'[s].stray = map[s].stray
               /\ map[s].q \subseteq map'[s].q
    <3>1. CASE s = Sess(t)
      <4>1. map[s].in = TRUE /\ map'[s].in = TRUE
        BY <1>2, <1>4, <2>2, <3>1 DEF TypeOK, Session
      <4> QED
        BY <2>2, <3>1, <4>1
    <3>2. CASE s # Sess(t)
      BY <2>2, <3>2
    <3> QED
      BY <3>1, <3>2
  <2>4. Shaped(t)'
    BY <2>1 DEF Shaped
  <2>5. job' = job \/ (job' \in [Jobs -> Row] /\ \A j \in Jobs : Kept(j))
    <3>1. CASE t \in Messages
      BY <1>4, <3>1
    <3>2. CASE t \notin Messages
      <4>1. t[2] \in Jobs /\ job' = Slip(t[2])
        BY <1>4, <3>2, TaskCases, DispatchIs
      <4> QED
        BY <4>1, SlipKept
    <3> QED
      BY <3>1, <3>2
  <2>6. Steady
    BY <1>1, <2>1, <2>2, <2>4, <2>5, TaskFrame
  <2> QED
    BY <1>1, <1>4, <2>1, <2>3, <2>6
<1>5. CASE ~map[Sess(t)].in /\ Goto(t, "insert") /\ UNCHANGED <<map, job>>
  <2>1. /\ task'[t].pc = "insert" /\ task'[t].turn = task[t].turn
        /\ \A u \in Tasks \ {t} : task'[u] = task[u]
        /\ task' \in [Tasks -> Handler]
    BY <1>5, GotoEffect
  <2>2. Shaped(t)'
    BY <1>3, <2>1 DEF Shaped
  <2>3. Steady
    BY <1>1, <1>5, <2>1, <2>2, TaskFrame
  <2> QED
    BY <1>1, <1>5, <2>1, <2>3
<1> QED
  BY <1>4, <1>5 DEF SubmitOrQueue

(* submit_or_queue says RunNow: the handler owns a new entry.              *)
LEMMA RunNowEffect ==
  ASSUME TypeOK, Numbered, NEW t \in Tasks, RunNow(t)
  PROVE  /\ task[t].pc = "insert" /\ task'[t].pc = "turn" /\ task'[t].turn = task[t].turn
         /\ \A u \in Tasks \ {t} : task'[u] = task[u]
         /\ map'[Sess(t)] = Fresh /\ \A s \in Sessions \ {Sess(t)} : map'[s] = map[s]
         /\ taken' = taken \cup {t} /\ Inserted(Sess(t))
         /\ UNCHANGED <<job, sched, load, managed>>
         /\ Steady
<1>1. /\ task[t].pc = "insert" /\ map' = [map EXCEPT ![Sess(t)] = Fresh] /\ Goto(t, "turn")
      /\ taken' = taken \cup {t} /\ Inserted(Sess(t))
      /\ UNCHANGED <<job, sched, procs, load, managed>>
  BY DEF RunNow
<1>2. /\ task'[t].pc = "turn" /\ task'[t].turn = task[t].turn
      /\ \A u \in Tasks \ {t} : task'[u] = task[u]
      /\ task' \in [Tasks -> Handler]
  BY <1>1, GotoEffect DEF Owning
<1>3. task[t].turn # "batch"
  BY <1>1 DEF Numbered, Shaped
<1>4. /\ map'[Sess(t)] = Fresh
      /\ \A v \in Sessions \ {Sess(t)} : map'[v] = map[v]
      /\ map' \in [Sessions -> Session] /\ \A v \in Sessions : ~map'[v].in => map'[v].q = {}
  BY <1>1, SessTyped, EntryTyped, EntryEffect
<1>5. taken' \subseteq Events
  BY <1>1 DEF TypeOK, Events
<1>6. Rest
  BY <1>1, SessTyped, InsertedFacts DEF Rest, TypeOK
<1>7. Shaped(t)'
  BY <1>2 DEF Shaped
<1>8. Steady
  BY <1>1, <1>2, <1>4, <1>5, <1>6, <1>7, TaskFrame
<1> QED
  BY <1>1, <1>2, <1>4, <1>8

(* The handler of a scheduled event queues its notification, or finds the  *)
(* session that created the job idle.                                      *)
LEMMA NotifyEffect ==
  ASSUME TypeOK, Numbered, NEW t \in Tasks, NotifyParent(t)
  PROVE  /\ task[t].pc = "turn" /\ Scheduled(t)
         /\ t[2] \in Jobs /\ t[3] \in Runs /\ t = Dispatch(t[2], t[3]) /\ Parent(t) \in Sessions
         /\ \/ /\ map[Parent(t)].in /\ task'[t].pc = "complete"
               /\ Note(t[2], t[3]) \in map'[Parent(t)].q
            \/ ~map[Parent(t)].in /\ task'[t].pc = "note_insert"
         /\ task'[t].turn = task[t].turn
         /\ \A u \in Tasks \ {t} : task'[u] = task[u]
         /\ \A s \in Sessions : /\ map'[s].in = map[s].in /\ map'[s].stray = map[s].stray
                                /\ map[s].q \subseteq map'[s].q
         /\ UNCHANGED <<job, sched, taken, load>> /\ Known
         /\ Steady
<1>1. /\ task[t].pc = "turn" /\ Scheduled(t) /\ UNCHANGED <<job, sched, taken, load>>
      /\ Known /\ Rest
  BY RestFacts DEF NotifyParent, Calm
<1>2. t \in Dispatches /\ t[2] \in Jobs /\ t[3] \in Runs /\ t = Dispatch(t[2], t[3])
  BY <1>1, DispatchIs DEF Scheduled
<1>3. Parent(t) \in Sessions
  BY <1>2, ParentTyped DEF Parent
<1>4. Note(t[2], t[3]) \in Events
  BY <1>2, DispatchFacts
<1>5. CASE map[Parent(t)].in /\ Pushed(Parent(t), Note(t[2], t[3])) /\ Goto(t, "complete")
  <2>1. /\ task'[t].pc = "complete" /\ task'[t].turn = task[t].turn
        /\ \A u \in Tasks \ {t} : task'[u] = task[u]
        /\ task' \in [Tasks -> Handler]
    BY <1>5, GotoEffect DEF Owning
  <2> DEFINE p == Parent(t)
             e == Note(t[2], t[3])
  <2>2. /\ map'[p].in /\ map'[p].stray = map[p].stray
        /\ map'[p].q = map[p].q \cup {e}
        /\ \A v \in Sessions \ {p} : map'[v] = map[v]
        /\ map' \in [Sessions -> Session] /\ \A v \in Sessions : ~map'[v].in => map'[v].q = {}
    BY <1>3, <1>4, <1>5, PushedEffect
  <2>3. p \in Sessions /\ map[p].in = TRUE /\ map'[p].in = TRUE
    BY <1>3, <1>5, <2>2 DEF TypeOK, Session
  <2>4. Shaped(t)'
    BY <1>1, <2>1 DEF Shaped, Scheduled
  <2>5. Steady
    BY <1>1, <2>1, <2>2, <2>4, TaskFrame
  <2>6. e \in map'[p].q
    BY <2>2
  <2> HIDE DEF p, e
  <2>7. ASSUME NEW s \in Sessions
        PROVE  /\ map'[s].in = map[s].in /\ map'[s].stray = map[s].stray
               /\ map[s].q \subseteq map'[s].q
    <3>1. CASE s = p
      BY <2>2, <2>3, <3>1
    <3>2. CASE s # p
      BY <2>2, <3>2
    <3> QED
      BY <3>1, <3>2
  <2> QED
    BY <1>1, <1>2, <1>3, <1>5, <2>1, <2>5, <2>6, <2>7 DEF p, e
<1>6. CASE ~map[Parent(t)].in /\ UNCHANGED map /\ Goto(t, "note_insert")
  <2>1. /\ task'[t].pc = "note_insert" /\ task'[t].turn = task[t].turn
        /\ \A u \in Tasks \ {t} : task'[u] = task[u]
        /\ task' \in [Tasks -> Handler]
    BY <1>6, GotoEffect DEF Owning
  <2>2. Shaped(t)'
    BY <1>1, <2>1 DEF Shaped, Scheduled
  <2>3. Steady
    BY <1>1, <1>6, <2>1, <2>2, TaskFrame
  <2> QED
    BY <1>1, <1>2, <1>3, <1>6, <2>1, <2>3
<1> QED
  BY <1>5, <1>6 DEF NotifyParent

(* The notification that found it idle inserts an entry nobody owns.       *)
LEMMA NotifyInsertsEffect ==
  ASSUME TypeOK, Numbered, NEW t \in Tasks, NotifyInserts(t)
  PROVE  /\ task[t].pc = "note_insert" /\ task'[t].pc = "complete" /\ Scheduled(t)
         /\ t[2] \in Jobs /\ t[3] \in Runs /\ t = Dispatch(t[2], t[3]) /\ Parent(t) \in Sessions
         /\ task'[t].turn = task[t].turn
         /\ \A u \in Tasks \ {t} : task'[u] = task[u]
         /\ map'[Parent(t)] = [Fresh EXCEPT !.stray = TRUE]
         /\ \A s \in Sessions \ {Parent(t)} : map'[s] = map[s]
         /\ Inserted(Parent(t))
         /\ UNCHANGED <<job, sched, taken, load, managed>>
         /\ Steady
<1> DEFINE stray == [Fresh EXCEPT !.stray = TRUE]
<1>1. /\ task[t].pc = "note_insert" /\ map' = [map EXCEPT ![Parent(t)] = stray]
      /\ Goto(t, "complete") /\ Inserted(Parent(t))
      /\ UNCHANGED <<job, sched, procs, load, taken, managed>>
  BY DEF NotifyInserts
<1>2. /\ task'[t].pc = "complete" /\ task'[t].turn = task[t].turn
      /\ \A u \in Tasks \ {t} : task'[u] = task[u]
      /\ task' \in [Tasks -> Handler]
  BY <1>1, GotoEffect DEF Owning
<1>3. Scheduled(t) /\ t[2] \in Jobs /\ t[3] \in Runs /\ t = Dispatch(t[2], t[3])
  BY <1>1, DispatchIs DEF Numbered, Shaped, Scheduled
<1>4. Parent(t) \in Sessions
  BY <1>3, ParentTyped DEF Parent
<1>5. stray \in Session /\ stray.q = {}
  BY EntryTyped
<1> HIDE DEF stray
<1>6. /\ map'[Parent(t)] = stray
      /\ \A v \in Sessions \ {Parent(t)} : map'[v] = map[v]
      /\ map' \in [Sessions -> Session] /\ \A v \in Sessions : ~map'[v].in => map'[v].q = {}
  BY <1>1, <1>4, <1>5, EntryEffect
<1>7. Rest
  BY <1>1, <1>4, InsertedFacts DEF Rest, TypeOK
<1>8. Shaped(t)'
  BY <1>2, <1>3 DEF Shaped, Scheduled
<1>9. Steady
  BY <1>1, <1>2, <1>6, <1>7, <1>8, TaskFrame
<1> QED
  BY <1>1, <1>2, <1>3, <1>4, <1>6, <1>9 DEF stray

(* complete_delegate_result: the delegate is completed, or the statement   *)
(* fails.                                                                  *)
LEMMA CompleteEffect ==
  ASSUME TypeOK, Numbered, NEW t \in Tasks, CompleteDelegate(t)
  PROVE  /\ task[t].pc = "complete" /\ task'[t].pc = "drain" /\ Scheduled(t)
         /\ t[2] \in Jobs /\ t[3] \in Runs /\ t = Dispatch(t[2], t[3])
         /\ task'[t].turn = task[t].turn
         /\ \A u \in Tasks \ {t} : task'[u] = task[u]
         /\ \/ job' = job /\ (job[t[2]].kind = "delegate" => ~Exists(t[2]))
            \/ job' = Slip(t[2])
            \/ /\ Exists(t[2]) /\ job[t[2]].kind = "delegate"
               /\ job' = [job EXCEPT ![t[2]].state = "completed", ![t[2]].run = "no",
                                     ![t[2]].result = TRUE]
         /\ UNCHANGED <<map, sched, taken>> /\ Known
         /\ Steady
<1>1. /\ task[t].pc = "complete" /\ Goto(t, "drain")
      /\ UNCHANGED <<map, sched, taken>> /\ Known /\ (Spend \/ UNCHANGED load)
  BY DEF CompleteDelegate
<1>2. /\ task'[t].pc = "drain" /\ task'[t].turn = task[t].turn
      /\ \A u \in Tasks \ {t} : task'[u] = task[u]
      /\ task' \in [Tasks -> Handler]
  BY <1>1, GotoEffect DEF Owning
<1>3. Scheduled(t) /\ t[2] \in Jobs /\ t[3] \in Runs /\ t = Dispatch(t[2], t[3])
  BY <1>1, DispatchIs DEF Numbered, Shaped, Scheduled
<1>4. Shaped(t)'
  BY <1>2 DEF Shaped
<1>5. Rest
  BY <1>1, RestFacts
<1> DEFINE j == t[2]
<1>6. \/ job' = job /\ (job[j].kind = "delegate" => ~Exists(j))
      \/ job' = Slip(j)
      \/ /\ Exists(j) /\ job[j].kind = "delegate"
         /\ job' = [job EXCEPT ![j].state = "completed", ![j].run = "no", ![j].result = TRUE]
  BY DEF CompleteDelegate
<1>7. j \in Jobs
  BY <1>3
<1>8. job' = job \/ (job' \in [Jobs -> Row] /\ \A i \in Jobs : Kept(i))
  <2> HIDE DEF j
  <2>1. CASE job' = Slip(j)
    BY <1>7, <2>1, SlipKept
  <2>2. CASE /\ Exists(j) /\ job[j].kind = "delegate"
             /\ job' = [job EXCEPT ![j].state = "completed", ![j].run = "no", ![j].result = TRUE]
    <3>1. job[j].state # "none"
      BY <2>2 DEF Exists
    <3>2. ASSUME NEW i \in Jobs PROVE Kept(i)
      BY <1>7, <2>2, <3>1, ResultRow DEF Kept
    <3> QED
      BY <1>7, <2>2, <3>2, ResultRow
  <2> QED
    BY <1>6, <2>1, <2>2
<1>9. Steady
  BY <1>1, <1>2, <1>4, <1>5, <1>8, TaskFrame
<1> QED
  BY <1>1, <1>2, <1>3, <1>6, <1>9 DEF j

(* drain_queued: a batch becomes the next turn, or the queue was empty.    *)
LEMMA DrainEffect ==
  ASSUME TypeOK, Numbered, NEW t \in Tasks, DrainQueued(t)
  PROVE  /\ AtDrain(t)
         /\ \/ /\ task'[t].pc = "turn" /\ task'[t].turn = "batch"
            \/ /\ task'[t].pc = (IF task[t].pc = "redrain" THEN "finish" ELSE "delegates")
               /\ task'[t].turn = task[t].turn
         /\ \A u \in Tasks \ {t} : task'[u] = task[u]
         /\ \A s \in Sessions : /\ map'[s].in = map[s].in /\ map'[s].stray = map[s].stray
                                /\ map[s].q \subseteq map'[s].q \cup taken'
         /\ taken \subseteq taken'
         /\ UNCHANGED <<job, sched, load>> /\ Known
         /\ Steady
<1>1. AtDrain(t) /\ UNCHANGED <<job, sched, load>> /\ Known /\ Rest
  BY RestFacts DEF DrainQueued, Calm
<1>2. task[t].pc # "none" /\ Sess(t) \in Sessions
  BY <1>1, SessTyped DEF AtDrain
<1>3. CASE map[Sess(t)].q # {}
  <2>1. NextTurn(t, map[Sess(t)].q, "turn") /\ map' = [map EXCEPT ![Sess(t)].q = {}]
    BY <1>3 DEF DrainQueued
  <2>2. /\ task'[t].pc = "turn" /\ task'[t].turn = "batch"
        /\ \A u \in Tasks \ {t} : task'[u] = task[u]
        /\ task' \in [Tasks -> Handler]
        /\ taken' = taken \cup map[Sess(t)].q
    BY <2>1, NextTurnEffect DEF Owning
  <2>3. /\ map'[Sess(t)].in = map[Sess(t)].in /\ map'[Sess(t)].stray = map[Sess(t)].stray
        /\ \A v \in Sessions \ {Sess(t)} : map'[v] = map[v]
        /\ map' \in [Sessions -> Session] /\ \A v \in Sessions : ~map'[v].in => map'[v].q = {}
    BY <1>2, <2>1, DrainedEffect
  <2>4. taken' \subseteq Events
    BY <1>2, <2>2 DEF TypeOK, Session
  <2>5. Shaped(t)'
    BY <2>2 DEF Shaped
  <2>6. Steady
    BY <1>1, <1>2, <2>2, <2>3, <2>4, <2>5, TaskFrame
  <2>7. ASSUME NEW s \in Sessions
        PROVE  /\ map'[s].in = map[s].in /\ map'[s].stray = map[s].stray
               /\ map[s].q \subseteq map'[s].q \cup taken'
    <3>1. CASE s = Sess(t)
      BY <2>2, <2>3, <3>1
    <3>2. CASE s # Sess(t)
      BY <2>3, <3>2
    <3> QED
      BY <3>1, <3>2
  <2> QED
    BY <1>1, <2>2, <2>6, <2>7
<1>4. CASE map[Sess(t)].q = {}
  <2> DEFINE pc == IF task[t].pc = "redrain" THEN "finish" ELSE "delegates"
  <2>1. Goto(t, pc) /\ map' = map /\ taken' = taken
    BY <1>4 DEF DrainQueued
  <2>2. pc \in {"finish", "delegates"}
    OBVIOUS
  <2> HIDE DEF pc
  <2>3. /\ task'[t].pc = pc /\ task'[t].turn = task[t].turn
        /\ \A u \in Tasks \ {t} : task'[u] = task[u]
        /\ task' \in [Tasks -> Handler]
    BY <2>1, <2>2, GotoEffect DEF Owning
  <2>4. Shaped(t)'
    BY <2>2, <2>3 DEF Shaped
  <2>5. Steady
    BY <1>1, <1>2, <2>1, <2>3, <2>4, TaskFrame
  <2> QED
    BY <1>1, <2>1, <2>3, <2>5 DEF pc
<1> QED
  BY <1>3, <1>4

(* session_has_active_delegates: an active delegate keeps the handler.     *)
LEMMA CheckIdleEffect ==
  ASSUME TypeOK, Numbered, NEW t \in Tasks, CheckIdle(t)
  PROVE  /\ task[t].pc = "delegates" /\ task'[t].pc \in {"drain", "redrain", "finish"}
         /\ task'[t].turn = task[t].turn
         /\ \A u \in Tasks \ {t} : task'[u] = task[u]
         /\ \/ task'[t].pc = "drain"
            \/ ActiveDelegates(Sess(t)) = {}
            \/ ActiveDelegates(Sess(t)) \subseteq excused'
         /\ excused \subseteq excused'
         /\ UNCHANGED <<map, job, sched, taken, crossed, managed>>
         /\ Steady
<1>1. /\ task[t].pc = "delegates" /\ UNCHANGED <<map, job, sched, taken, procs, crossed, managed>>
      /\ excused' = excused \/ excused' = excused \cup ActiveDelegates(Sess(t))
      /\ (Spend \/ UNCHANGED load)
  BY DEF CheckIdle, Calm, Known
<1>2. /\ Wait(t) \/ IdleNow(t)
      /\ \/ Wait(t)
         \/ ActiveDelegates(Sess(t)) = {}
         \/ ActiveDelegates(Sess(t)) \subseteq excused'
  <2>1. CASE (IF Sess(t) \in procs \/ ActiveDelegates(Sess(t)) # {} THEN Wait(t) ELSE IdleNow(t))
    BY <2>1
  <2>2. CASE /\ IF Sess(t) \in procs THEN Wait(t) ELSE IdleNow(t)
             /\ excused' = excused \cup ActiveDelegates(Sess(t))
    BY <2>2
  <2> QED
    BY <2>1, <2>2 DEF CheckIdle
<1>3. /\ Wait(t) => task'[t].pc = "drain"
      /\ task'[t].pc \in {"drain", "redrain", "finish"} /\ task'[t].turn = task[t].turn
      /\ \A u \in Tasks \ {t} : task'[u] = task[u]
      /\ task' \in [Tasks -> Handler]
  <2>1. CASE Wait(t)
    BY <2>1, WaitEffect
  <2>2. CASE IdleNow(t) /\ ~Wait(t)
    <3>1. PICK pc \in {"redrain", "finish"} : Goto(t, pc)
      BY <2>2 DEF IdleNow
    <3>2. /\ task'[t].pc = pc /\ task'[t].turn = task[t].turn
          /\ \A u \in Tasks \ {t} : task'[u] = task[u]
          /\ task' \in [Tasks -> Handler]
      BY <3>1, GotoEffect DEF Owning
    <3> QED
      BY <2>2, <3>2
  <2> QED
    BY <1>2, <2>1, <2>2
<1>4. Rest
  <2>1. load' \in 0 .. MaxLoad
    BY <1>1, RestFacts
  <2>2. excused' \subseteq Jobs
    BY <1>1 DEF TypeOK, ActiveDelegates
  <2> QED
    BY <1>1, <2>1, <2>2 DEF Rest, TypeOK
<1>5. Shaped(t)'
  BY <1>3 DEF Shaped
<1>6. Steady
  BY <1>1, <1>3, <1>4, <1>5, TaskFrame
<1> QED
  BY <1>1, <1>2, <1>3, <1>6

(* finish_turn: the entry is removed, and what was queued in it is kept.   *)
LEMMA FinishEffect ==
  ASSUME TypeOK, Numbered, NEW t \in Tasks, FinishTurn(t)
  PROVE  /\ task[t].pc = "finish"
         /\ \/ /\ map[Sess(t)].q = {} /\ taken' = taken
               /\ task'[t].pc = "ended" /\ task'[t].turn = "own"
               /\ \/ crossed' = crossed
                  \/ /\ crossed' = crossed \ {Sess(t)}
                     /\ \A u \in Tasks \ {t} : ~(Live(u) /\ Sess(u) = Sess(t))
            \/ /\ taken' = taken \cup map[Sess(t)].q /\ crossed' = crossed
               /\ task'[t].pc = "reserve" /\ task'[t].turn = "batch"
         /\ \A u \in Tasks \ {t} : task'[u] = task[u]
         /\ map'[Sess(t)] = Empty
         /\ \A s \in Sessions \ {Sess(t)} : map'[s] = map[s]
         /\ UNCHANGED <<job, sched, load, excused, managed>>
         /\ Steady
<1>1. /\ task[t].pc = "finish" /\ map' = [map EXCEPT ![Sess(t)] = Empty]
      /\ UNCHANGED <<job, sched, procs, load, excused, managed>>
  BY DEF FinishTurn
<1>2. Sess(t) \in Sessions
  BY SessTyped
<1>3. /\ map'[Sess(t)] = Empty
      /\ \A v \in Sessions \ {Sess(t)} : map'[v] = map[v]
      /\ map' \in [Sessions -> Session] /\ \A v \in Sessions : ~map'[v].in => map'[v].q = {}
  BY <1>1, <1>2, EntryTyped, EntryEffect
<1>4. /\ \/ /\ map[Sess(t)].q = {} /\ taken' = taken
            /\ task'[t].pc = "ended" /\ task'[t].turn = "own"
            /\ \/ crossed' = crossed
               \/ /\ crossed' = crossed \ {Sess(t)}
                  /\ \A u \in Tasks \ {t} : ~(Live(u) /\ Sess(u) = Sess(t))
         \/ /\ taken' = taken \cup map[Sess(t)].q /\ crossed' = crossed
            /\ task'[t].pc = "reserve" /\ task'[t].turn = "batch"
      /\ \A u \in Tasks \ {t} : task'[u] = task[u]
      /\ task' \in [Tasks -> Handler]
  <2>1. CASE map[Sess(t)].q # {}
    <3>1. NextTurn(t, map[Sess(t)].q, "reserve") /\ crossed' = crossed
      BY <2>1 DEF FinishTurn
    <3> QED
      BY <3>1, NextTurnEffect DEF Owning
  <2>2. CASE map[Sess(t)].q = {}
    <3>1. /\ Ends(t) /\ taken' = taken
          /\ crossed' = IF \E u \in Tasks \ {t} : Live(u) /\ Sess(u) = Sess(t)
                          THEN crossed ELSE crossed \ {Sess(t)}
      BY <2>2 DEF FinishTurn
    <3>2. \/ crossed' = crossed
          \/ /\ crossed' = crossed \ {Sess(t)}
             /\ \A u \in Tasks \ {t} : ~(Live(u) /\ Sess(u) = Sess(t))
      BY <3>1
    <3> QED
      BY <2>2, <3>1, <3>2, EndsEffect
  <2> QED
    BY <2>1, <2>2
<1>5. taken' \subseteq Events
  BY <1>2, <1>4 DEF TypeOK, Session
<1>6. Rest
  BY <1>1, <1>4 DEF TypeOK, Rest
<1>7. Shaped(t)'
  BY <1>4 DEF Shaped
<1>8. Steady
  BY <1>1, <1>3, <1>4, <1>5, <1>6, <1>7, TaskFrame
<1> QED
  BY <1>1, <1>3, <1>4, <1>8

(* The session is inserted again for what was queued.                      *)
LEMMA ReserveEffect ==
  ASSUME TypeOK, Numbered, NEW t \in Tasks, Reserve(t)
  PROVE  /\ task[t].pc = "reserve" /\ task'[t].pc = "turn"
         /\ task'[t].turn = task[t].turn
         /\ \A u \in Tasks \ {t} : task'[u] = task[u]
         /\ map'[Sess(t)] = Fresh
         /\ \A s \in Sessions \ {Sess(t)} : map'[s] = map[s]
         /\ UNCHANGED <<job, sched, taken, load>> /\ Known
         /\ Steady
<1>1. /\ task[t].pc = "reserve" /\ map' = [map EXCEPT ![Sess(t)] = Fresh] /\ Goto(t, "turn")
      /\ UNCHANGED <<job, sched, taken, load>> /\ Known /\ Rest
  BY RestFacts DEF Reserve, Calm
<1>2. /\ task'[t].pc = "turn" /\ task'[t].turn = task[t].turn
      /\ \A u \in Tasks \ {t} : task'[u] = task[u]
      /\ task' \in [Tasks -> Handler]
  BY <1>1, GotoEffect DEF Owning
<1>3. /\ map'[Sess(t)] = Fresh
      /\ \A v \in Sessions \ {Sess(t)} : map'[v] = map[v]
      /\ map' \in [Sessions -> Session] /\ \A v \in Sessions : ~map'[v].in => map'[v].q = {}
  BY <1>1, SessTyped, EntryTyped, EntryEffect
<1>4. Shaped(t)'
  BY <1>2 DEF Shaped
<1>5. Steady
  BY <1>1, <1>2, <1>3, <1>4, TaskFrame
<1> QED
  BY <1>1, <1>2, <1>3, <1>5

(* A background process starts or ends.                                    *)
LEMMA ProcessEffect ==
  ASSUME TypeOK, Numbered,
         (\E t \in Tasks : SpawnProcess(t)) \/ (\E s \in Sessions : ProcessEnds(s))
  PROVE  UNCHANGED <<map, task, job, sched, taken, crossed, excused, managed>> /\ Steady
<1>1. /\ UNCHANGED <<map, task, job, sched, taken, crossed, excused, managed>>
      /\ procs' \subseteq Sessions /\ (Spend \/ UNCHANGED load)
  <2>1. ASSUME NEW t \in Tasks, SpawnProcess(t)
        PROVE  /\ UNCHANGED <<map, task, job, sched, taken, crossed, excused, managed>>
               /\ procs' \subseteq Sessions /\ Spend
    BY <2>1, SessTyped DEF SpawnProcess, TypeOK
  <2>2. ASSUME NEW s \in Sessions, ProcessEnds(s)
        PROVE  /\ UNCHANGED <<map, task, job, sched, taken, crossed, excused, managed>>
               /\ procs' \subseteq Sessions /\ UNCHANGED load
    BY <2>2 DEF ProcessEnds, TypeOK
  <2> QED
    BY <2>1, <2>2
<1>2. Rest
  BY <1>1, RestFacts DEF Rest, TypeOK
<1>3. Steady
  BY <1>1, <1>2, RowFrame
<1> QED
  BY <1>1, <1>3
-----------------------------------------------------------------------------
(* The rows and the scheduler.                                             *)

\* A row of which at most next changes
Same(j) == /\ job'[j].state = job[j].state /\ job'[j].kind = job[j].kind
           /\ job'[j].by = job[j].by /\ job'[j].ivl = job[j].ivl
           /\ job'[j].limit = job[j].limit /\ job'[j].blank = job[j].blank
           /\ job'[j].run = job[j].run /\ job'[j].rep = job[j].rep
           /\ job'[j].result = job[j].result /\ job'[j].sent = job[j].sent
           /\ job'[j].slips = job[j].slips

\* What a tool inserts
NewRow(s, new) ==
  [NoRow EXCEPT !.state = "active", !.by = s, !.kind = new.kind,
     !.ivl = new.ivl, !.limit = new.limit, !.next = new.next, !.blank = new.blank]

(* A tool inserts a row.                                                   *)
LEMMA CreatedRow ==
  ASSUME TypeOK, NEW j \in Jobs, NEW s \in Sessions, NEW new \in Asked,
         job' = [job EXCEPT ![j] = NewRow(s, new)]
  PROVE  /\ job'[j].state = "active" /\ job'[j].by = s /\ job'[j].kind = new.kind
         /\ job'[j].ivl = new.ivl /\ job'[j].limit = new.limit /\ job'[j].blank = new.blank
         /\ job'[j].run = "no" /\ job'[j].rep = 0 /\ ~job'[j].result
         /\ job'[j].sent = 0 /\ job'[j].slips = 0
         /\ job'[j].kind \in Kinds
         /\ job'[j].kind = "cron" => job'[j].ivl # "none"
         /\ job'[j].kind = "delegate" => job'[j].ivl = "none"
         /\ \A i \in Jobs \ {j} : job'[i] = job[i]
         /\ job' \in [Jobs -> Row]
<1> DEFINE u == [NoRow EXCEPT !.state = "active", !.by = s, !.kind = new.kind,
                  !.ivl = new.ivl, !.limit = new.limit, !.next = new.next, !.blank = new.blank]
<1>1. new \in NewRows
  BY TurnConstants
<1>2. /\ new.kind \in Kinds /\ new.ivl \in Intervals /\ new.limit \in {0, 1, RepeatCount}
      /\ new.next \in {"future", "due"} /\ new.blank \in BOOLEAN
      /\ new.kind = "cron" => new.ivl # "none"
      /\ new.kind = "delegate" => new.ivl = "none"
  BY <1>1 DEF NewRows, Kinds, Intervals
<1>3. /\ u.state = "active" /\ u.by = s /\ u.kind = new.kind
      /\ u.ivl = new.ivl /\ u.limit = new.limit /\ u.blank = new.blank
      /\ u.run = "no" /\ u.rep = 0 /\ u.result = FALSE /\ u.sent = 0 /\ u.slips = 0
      /\ u \in Row
  <2>1. /\ u.state = "active" /\ u.by = s /\ u.kind = new.kind
        /\ u.ivl = new.ivl /\ u.limit = new.limit /\ u.blank = new.blank
        /\ u.run = "no" /\ u.rep = 0 /\ u.result = FALSE /\ u.sent = 0 /\ u.slips = 0
    BY DEF NoRow
  <2>2. NoRow \in Row
    BY StartTyped
  <2>3. u \in Row
    BY <1>2, <2>2 DEF Row
  <2> QED
    BY <2>1, <2>3
<1>4. job' = [job EXCEPT ![j] = u]
  BY DEF NewRow
<1> HIDE DEF u
<1>5. job'[j] = u /\ job' \in [Jobs -> Row] /\ \A i \in Jobs \ {j} : job'[i] = job[i]
  BY <1>3, <1>4 DEF TypeOK
<1> QED
  BY <1>2, <1>3, <1>5

\* A row as cleanup_after_dispatch leaves it
Cleaned(j, r, st) == [job EXCEPT ![j].rep = r, ![j].state = st]

(* cleanup_after_dispatch counts a run or deletes the row.                 *)
LEMMA CleanRow ==
  ASSUME TypeOK, NEW j \in Jobs, NEW r \in 0 .. MaxRuns,
         NEW st \in {"none", "active", "paused", "completed", "deleted"},
         job' = Cleaned(j, r, st)
  PROVE  /\ job'[j].state = st /\ job'[j].kind = job[j].kind /\ job'[j].by = job[j].by
         /\ job'[j].ivl = job[j].ivl /\ job'[j].limit = job[j].limit /\ job'[j].blank = job[j].blank
         /\ job'[j].run = job[j].run /\ job'[j].rep = r
         /\ job'[j].result = job[j].result /\ job'[j].sent = job[j].sent /\ job'[j].slips = job[j].slips
         /\ \A i \in Jobs \ {j} : job'[i] = job[i]
         /\ job' \in [Jobs -> Row]
<1> DEFINE u == [job[j] EXCEPT !.rep = r, !.state = st]
<1>1. job[j] \in Row
  BY DEF TypeOK
<1>2. job' = [job EXCEPT ![j] = u]
  BY <1>1 DEF TypeOK, Cleaned
<1>3. /\ u.state = st /\ u.kind = job[j].kind /\ u.by = job[j].by
      /\ u.ivl = job[j].ivl /\ u.limit = job[j].limit /\ u.blank = job[j].blank
      /\ u.run = job[j].run /\ u.rep = r
      /\ u.result = job[j].result /\ u.sent = job[j].sent /\ u.slips = job[j].slips
  BY <1>1 DEF Row
<1>4. u \in Row
  BY <1>1, TurnConstants DEF Row, Kinds, Intervals
<1> HIDE DEF u
<1> QED
  BY <1>2, <1>3, <1>4 DEF TypeOK

(* A turn creates a job.                                                   *)
LEMMA CreateEffect ==
  ASSUME TypeOK, Numbered, NEW t \in Tasks, NEW new \in Asked, CreateJob(t, new)
  PROVE  \E j \in Jobs :
         /\ task[t].pc = "turn" /\ Sess(t) \in Sessions
         /\ job[j].state = "none" /\ job[j].kind = "none" /\ job[j].sent = 0
         /\ job'[j].state = "active" /\ job'[j].by = Sess(t) /\ job'[j].kind \in Kinds
         /\ job'[j].kind = "cron" => job'[j].ivl # "none"
         /\ job'[j].run = "no" /\ job'[j].rep = 0 /\ ~job'[j].result
         /\ job'[j].sent = 0 /\ job'[j].slips = 0
         /\ \A i \in Jobs \ {j} : job'[i] = job[i]
         /\ excused' = IF Sess(t) \in crossed THEN excused \cup {j} ELSE excused
         /\ UNCHANGED <<map, task, sched, taken, crossed, managed>>
         /\ ~Picked(j)' /\ ~Sending(j)'
         /\ Steady
<1> DEFINE free == {i \in Jobs : job[i].state = "none"}
<1>1. /\ HasTools(t) /\ Spend /\ UNCHANGED <<map, task, sched, procs, taken, crossed, managed>>
  BY DEF CreateJob
<1>2. PICK j \in free :
        /\ job' = [job EXCEPT ![j] = [NoRow EXCEPT !.state = "active", !.by = Sess(t),
             !.kind = new.kind, !.ivl = new.ivl, !.limit = new.limit, !.next = new.next,
             !.blank = new.blank]]
        /\ excused' = IF Sess(t) \in crossed THEN excused \cup {j} ELSE excused
  <2>1. free # {}
    BY DEF CreateJob
  <2>2. (CHOOSE i \in free : TRUE) \in free
    BY <2>1
  <2> QED
    BY <2>2 DEF CreateJob
<1>3. j \in Jobs /\ job[j].state = "none"
  OBVIOUS
<1>4. task[t].pc = "turn" /\ Sess(t) \in Sessions
  BY <1>1, SessTyped DEF HasTools
<1>5. /\ job'[j].state = "active" /\ job'[j].by = Sess(t) /\ job'[j].kind \in Kinds
      /\ job'[j].kind = "cron" => job'[j].ivl # "none"
      /\ job'[j].run = "no" /\ job'[j].rep = 0 /\ ~job'[j].result
      /\ job'[j].sent = 0 /\ job'[j].slips = 0
      /\ \A i \in Jobs \ {j} : job'[i] = job[i]
      /\ job' \in [Jobs -> Row]
  <2> DEFINE s == Sess(t)
  <2>1. s \in Sessions
    BY <1>4
  <2>2. job' = [job EXCEPT ![j] = NewRow(s, new)]
    BY <1>2 DEF NewRow
  <2>3. PICK v \in Sessions : v = s
    BY <2>1
  <2> HIDE DEF s
  <2>4. job' = [job EXCEPT ![j] = NewRow(v, new)]
    BY <2>2, <2>3
  <2>5. /\ job'[j].state = "active" /\ job'[j].by = v /\ job'[j].kind \in Kinds
        /\ job'[j].kind = "cron" => job'[j].ivl # "none"
        /\ job'[j].run = "no" /\ job'[j].rep = 0 /\ ~job'[j].result
        /\ job'[j].sent = 0 /\ job'[j].slips = 0
        /\ \A i \in Jobs \ {j} : job'[i] = job[i]
        /\ job' \in [Jobs -> Row]
    BY <1>3, <2>4, CreatedRow
  <2> QED
    BY <2>3, <2>5 DEF s
<1>7. Counted(j) /\ job[j].sent = 0 /\ job[j].kind = "none"
  BY <1>3 DEF Numbered, Counted
<1>8. ~Picked(j) /\ ~Sending(j)
  BY <1>3, <1>7 DEF Counted
<1>9. ~Picked(j)' /\ ~Sending(j)'
  BY <1>1, <1>8 DEF Picked, Sending
<1>10. Rest
  <2>1. load' \in 0 .. MaxLoad
    BY <1>1, RestFacts
  <2>2. excused' \subseteq Jobs
    BY <1>2, <1>3 DEF TypeOK
  <2> QED
    BY <1>1, <2>1, <2>2 DEF Rest, TypeOK
<1>11. TypeOK'
  BY <1>1, <1>5, <1>10, TypeFrame
<1>12. ASSUME NEW i \in Jobs PROVE Counted(i)'
  <2>1. CASE i = j
    <3>1. \A n \in Runs : n > 0 => task'[Dispatch(j, n)].pc = "none"
      BY <1>1, <1>7 DEF Counted
    <3>2. job'[j].kind # "none"
      BY <1>5 DEF Kinds
    <3> QED
      BY <1>5, <1>9, <2>1, <3>1, <3>2 DEF Counted, Runs
  <2>2. CASE i # j
    BY <1>1, <1>5, <2>2 DEF Numbered, Counted, Picked, Sending, Runs
  <2> QED
    BY <2>1, <2>2
<1>13. \A u \in Tasks : Shaped(u)'
  BY <1>1 DEF Numbered, Shaped, Scheduled
<1>14. Scheduling'
  BY <1>1 DEF Numbered, Scheduling
<1>15. ASSUME NEW i \in Jobs PROVE Lasting(i)
  <2>1. CASE i = j
    BY <1>3, <1>5, <2>1 DEF Lasting
  <2>2. CASE i # j
    BY <1>5, <2>2 DEF Lasting
  <2> QED
    BY <2>1, <2>2
<1>16. Steady
  BY <1>11, <1>12, <1>13, <1>14, <1>15 DEF Numbered, Steady
<1> QED
  BY <1>1, <1>2, <1>3, <1>4, <1>5, <1>7, <1>9, <1>16

(* A turn cancels, pauses, resumes or updates a job.                       *)
LEMMA ManageEffect ==
  ASSUME TypeOK, Numbered, NEW t \in Tasks, NEW j \in Jobs, ManageJob(t, j)
  PROVE  /\ job'[j].kind = job[j].kind /\ job'[j].by = job[j].by
         /\ job'[j].result = job[j].result
         /\ \/ job'[j].state \in {"deleted", job[j].state}
            \/ job[j].state # "active" /\ job'[j].state = "active"
            \/ j \in excused'
         /\ Exists(j)
         /\ \A i \in Jobs \ {j} : job'[i] = job[i]
         /\ excused \subseteq excused' /\ managed' = managed \cup {j}
         /\ UNCHANGED <<map, task, sched, taken, crossed>>
         /\ Steady
<1>1. /\ Exists(j) /\ Spend /\ excused' \in {excused, excused \cup {j}}
      /\ UNCHANGED <<map, task, sched, procs, taken, crossed>> /\ managed' = managed \cup {j}
  BY DEF ManageJob
<1>2. /\ job'[j].kind = job[j].kind /\ job'[j].by = job[j].by
      /\ job'[j].result = job[j].result /\ job'[j].sent = job[j].sent /\ job'[j].rep = job[j].rep
      /\ \/ job'[j].state \in {"deleted", job[j].state}
         \/ job[j].state # "active" /\ job'[j].state = "active"
         \/ job'[j].state # "none" /\ j \in excused'
      /\ \A i \in Jobs \ {j} : job'[i] = job[i]
      /\ job' \in [Jobs -> Row]
  <2>1. CASE job' = [job EXCEPT ![j].state = "deleted"]
    BY <2>1, StateRow
  <2>2. CASE job[j].state # "active" /\ job' = [job EXCEPT ![j].state = "active"]
    BY <2>2, StateRow
  <2>3. CASE \E b \in BOOLEAN \ {job[j].blank} : job' = [job EXCEPT ![j].blank = b]
    BY <2>3, BlankRow
  <2>4. CASE \E i \in {"zero", "some"} \ {job[j].ivl} : job' = [job EXCEPT ![j].ivl = i]
    BY <2>4, IntervalRow DEF Intervals
  <2>5. CASE job' = [job EXCEPT ![j].state = "paused"] /\ excused' = excused \cup {j}
    BY <2>5, StateRow
  <2> QED
    BY <2>1, <2>2, <2>3, <2>4, <2>5 DEF ManageJob
<1>3. job[j].state # "none"
  BY <1>1 DEF Exists
<1>4. ASSUME NEW i \in Jobs PROVE Kept(i)
  <2>1. CASE i = j
    BY <1>2, <1>3, <2>1 DEF Kept
  <2>2. CASE i # j
    BY <1>2, <2>2 DEF Kept
  <2> QED
    BY <2>1, <2>2
<1>5. Rest
  <2>1. load' \in 0 .. MaxLoad
    BY <1>1, RestFacts
  <2> QED
    BY <1>1, <2>1 DEF Rest, TypeOK
<1>6. Steady
  BY <1>1, <1>2, <1>4, <1>5, RowFrame
<1> QED
  BY <1>1, <1>2, <1>3, <1>6

(* The rows and the scheduler change, and the tasks do not.                *)
LEMMA SchedFrame ==
  ASSUME TypeOK, Numbered, UNCHANGED <<map, task, taken>>, Rest,
         sched' \in Sched, Scheduling', job' \in [Jobs -> Row],
         \A j \in Jobs : /\ job'[j].state = "none" <=> job[j].state = "none"
                         /\ job'[j].kind = job[j].kind /\ job'[j].by = job[j].by
                         /\ job'[j].sent = job[j].sent
                         /\ job[j].result => job'[j].result,
         \A j \in Jobs : Picked(j)' => Picked(j) \/ (job[j].state # "none" /\ job[j].sent < MaxRuns),
         \A j \in Jobs : ~Sending(j)',
         \A j \in Jobs : job'[j].rep = job[j].rep \/ job'[j].rep <= job[j].sent
  PROVE  Steady
<1>1. TypeOK'
  BY TypeFrame
<1>2. ASSUME NEW j \in Jobs PROVE Counted(j)'
  BY DEF Numbered, Counted, Runs
<1>3. \A t \in Tasks : Shaped(t)'
  BY DEF Numbered, Shaped, Scheduled
<1>4. \A j \in Jobs : Lasting(j)
  BY DEF Lasting
<1> QED
  BY <1>1, <1>2, <1>3, <1>4 DEF Numbered, Steady

(* Next1 goes on with the list, or ends it.                                *)
LEMMA NextOneEffect ==
  ASSUME TypeOK, Numbered, NEW todo \in SUBSET sched.todo, sched' = Next1(todo)
  PROVE  /\ sched' \in Sched /\ Scheduling'
         /\ \A j \in Jobs : Picked(j)' <=> j \in todo
         /\ \A j \in Jobs : Picked(j)' => Picked(j) /\ sched'.list[j] = sched.list[j]
         /\ \A j \in Jobs : ~Sending(j)'
<1>1. todo \in SUBSET Jobs /\ sched \in Sched
  BY DEF TypeOK, Sched
<1>2. /\ sched' \in Sched /\ sched'.todo = todo /\ sched'.job = Main
      /\ sched'.pc \in {"idle", "pick"} /\ (sched'.pc = "idle" => todo = {})
      /\ todo # {} => sched'.list = sched.list
  <2>1. CASE todo = {}
    <3>1. sched' = IdleSched
      BY <2>1 DEF Next1
    <3>2. IdleSched.todo = {} /\ IdleSched.job = Main /\ IdleSched.pc = "idle"
      BY DEF IdleSched
    <3> QED
      BY <2>1, <3>1, <3>2, StartTyped
  <2>2. CASE todo # {}
    <3> DEFINE u == [sched EXCEPT !.pc = "pick", !.todo = todo, !.job = Main]
    <3>1. u \in Sched /\ u.todo = todo /\ u.job = Main /\ u.pc = "pick" /\ u.list = sched.list
      BY <1>1 DEF Sched, Sessions
    <3>2. sched' = u
      BY <2>2 DEF Next1
    <3> HIDE DEF u
    <3> QED
      BY <2>2, <3>1, <3>2
  <2> QED
    BY <2>1, <2>2
<1> QED
  BY <1>2 DEF Scheduling, Picked, Sending

(* It takes a job from the list, and turns to what follows a dispatch.     *)
LEMMA PickedFacts ==
  ASSUME NEW r \in Sched, NEW j \in Jobs
  PROVE  LET u == [r EXCEPT !.pc = "send", !.todo = @ \ {j}, !.job = j]
         IN u \in Sched /\ u.pc = "send" /\ u.todo = r.todo \ {j} /\ u.job = j /\ u.list = r.list
BY DEF Sched, Sessions

(* The scheduler turns to what follows a dispatch.                         *)
LEMMA CleaningFacts ==
  ASSUME NEW r \in Sched
  PROVE  LET u == [r EXCEPT !.pc = "cleanup"]
         IN /\ u \in Sched /\ u.pc = "cleanup" /\ u.todo = r.todo /\ u.job = r.job
            /\ u.list = r.list
BY DEF Sched

(* The scheduler lists what is due.                                        *)
LEMMA ListEffect ==
  ASSUME TypeOK, Numbered, ListDue
  PROVE  /\ \A j \in Jobs : /\ Picked(j)' <=> j \in DueJobs
                            /\ Picked(j)' => sched'.list[j] = Copy(j)
                            /\ ~Sending(j)' /\ ~Sending(j)
         /\ UNCHANGED <<map, task, job, taken, load>> /\ Known
         /\ Steady
<1>1. /\ sched.pc = "idle" /\ UNCHANGED <<map, task, job, taken, load>> /\ Known /\ Rest
      /\ \A j \in DueJobs : job[j].sent < MaxRuns
  BY RestFacts DEF ListDue, Calm
<1> DEFINE list == [j \in Jobs |-> IF j \in DueJobs THEN Copy(j) ELSE NoCopy]
           u == [IdleSched EXCEPT !.pc = "pick", !.todo = DueJobs, !.list = list]
<1>2. DueJobs \in SUBSET Jobs
  BY DEF DueJobs
<1>3. list \in [Jobs -> [ivl : Intervals, blank : BOOLEAN]]
  BY DEF Copy, NoCopy, TypeOK, Row, Intervals
<1>4. \A j \in DueJobs : list[j] = Copy(j)
  BY <1>2
<1> HIDE DEF list
<1>5. u \in Sched /\ u.pc = "pick" /\ u.todo = DueJobs /\ u.job = Main /\ u.list = list
  BY <1>2, <1>3 DEF IdleSched, Sched, Sessions
<1>6. sched' = u
  BY DEF ListDue, list
<1> HIDE DEF u
<1>7. /\ sched' \in Sched /\ sched'.pc = "pick" /\ sched'.todo = DueJobs
      /\ sched'.job = Main /\ sched'.list = list
  BY <1>5, <1>6
<1>8. Scheduling'
  BY <1>7 DEF Scheduling
<1>9. \A j \in Jobs : /\ Picked(j)' <=> j \in DueJobs
                      /\ Picked(j)' => sched'.list[j] = Copy(j)
                      /\ ~Sending(j)' /\ ~Sending(j)
  BY <1>1, <1>4, <1>7 DEF Picked, Sending
<1>10. \A j \in Jobs : Picked(j)' => job[j].state # "none" /\ job[j].sent < MaxRuns
  BY <1>1, <1>9 DEF DueJobs
<1>11. job' \in [Jobs -> Row]
  BY <1>1 DEF TypeOK
<1>12. Steady
  BY <1>1, <1>7, <1>8, <1>9, <1>10, <1>11, SchedFrame
<1> QED
  BY <1>1, <1>9, <1>12

(* A stale recurring job is passed over.                                   *)
LEMMA FastForwardEffect ==
  ASSUME TypeOK, Numbered, NEW j \in Jobs, FastForward(j)
  PROVE  /\ \A i \in Jobs : /\ Picked(i)' => Picked(i) /\ sched'.list[i] = sched.list[i]
                            /\ ~Sending(i)' /\ ~Sending(i)
         /\ UNCHANGED <<map, task, job, taken, load>> /\ Known
         /\ Steady
<1>1. /\ sched' = Next1(sched.todo \ {j}) /\ UNCHANGED <<map, task, job, taken, load>>
      /\ sched.pc = "pick" /\ Known /\ Rest
  BY RestFacts DEF FastForward, Calm
<1>2. /\ sched' \in Sched /\ Scheduling'
      /\ \A i \in Jobs : /\ Picked(i)' => Picked(i) /\ sched'.list[i] = sched.list[i]
                         /\ ~Sending(i)'
  BY <1>1, NextOneEffect
<1>3. job' \in [Jobs -> Row]
  BY <1>1 DEF TypeOK
<1>4. Steady
  BY <1>1, <1>2, <1>3, SchedFrame
<1> QED
  BY <1>1, <1>2, <1>4 DEF Sending

(* update_next_run: a job goes on to be sent, or is given up for this      *)
(* poll.                                                                   *)
LEMMA AdvanceEffect ==
  ASSUME TypeOK, Numbered, NEW j \in Jobs, AdvanceNextRun(j)
  PROVE  /\ \A i \in Jobs : /\ Picked(i)' => Picked(i) /\ sched'.list[i] = sched.list[i]
                            /\ ~Sending(i)' /\ ~Sending(i) /\ Same(i)
         /\ UNCHANGED <<map, task, taken>> /\ Known
         /\ Steady
<1>1. /\ sched.pc = "pick" /\ j \in sched.todo /\ UNCHANGED <<map, task, taken>>
      /\ sched \in Sched /\ sched.todo \subseteq Jobs /\ Known /\ (Spend \/ UNCHANGED load)
  BY DEF AdvanceNextRun, TypeOK, Sched
<1>2. (\A i \in Jobs : Same(i)) /\ job' \in [Jobs -> Row]
  <2>1. CASE job' = job
    BY <2>1 DEF TypeOK, Same
  <2>2. CASE job' = [job EXCEPT ![j].next = "future"]
    BY <2>2, NextRow DEF Same
  <2> QED
    BY <2>1, <2>2 DEF AdvanceNextRun
<1>3. Rest
  BY <1>1, RestFacts
<1>4. /\ sched' \in Sched /\ Scheduling'
      /\ \A i \in Jobs : /\ Picked(i)' => Picked(i) /\ sched'.list[i] = sched.list[i]
                         /\ ~Sending(i)'
  <2>1. CASE sched' = [sched EXCEPT !.pc = "send", !.todo = @ \ {j}, !.job = j]
    <3>1. /\ sched' \in Sched /\ sched'.pc = "send" /\ sched'.todo = sched.todo \ {j}
          /\ sched'.job = j /\ sched'.list = sched.list
      BY <1>1, <2>1, PickedFacts
    <3> QED
      BY <1>1, <3>1 DEF Scheduling, Picked, Sending
  <2>2. CASE sched' = Next1(sched.todo \ {j})
    BY <2>2, NextOneEffect
  <2> QED
    BY <2>1, <2>2 DEF AdvanceNextRun
<1>5. Steady
  BY <1>1, <1>2, <1>3, <1>4, SchedFrame DEF Same
<1> QED
  BY <1>1, <1>2, <1>4, <1>5 DEF Sending

(* The delegate whose sub-agent is gone is completed without a result.     *)
LEMMA MissingEffect ==
  ASSUME TypeOK, Numbered, AgentMissing, NEW j, j = sched.job
  PROVE  /\ j \in Jobs /\ job[j].kind = "delegate" /\ Picked(j)
         /\ \/ job' = job
            \/ /\ Exists(j)
               /\ job' = [job EXCEPT ![j].state = "completed", ![j].run = "no"]
         /\ \A i \in Jobs : /\ Picked(i)' => Picked(i) /\ sched'.list[i] = sched.list[i]
                            /\ ~Sending(i)' /\ ~Sending(i)
         /\ ~Picked(j)'
         /\ excused' = excused \cup {j}
         /\ UNCHANGED <<map, task, taken, crossed, managed>>
         /\ Steady
<1>1. /\ sched.pc = "send" /\ job[j].kind = "delegate" /\ sched' = Next1(sched.todo)
      /\ excused' = excused \cup {j} /\ UNCHANGED <<map, task, taken, procs, crossed, managed>>
      /\ Spend
  BY DEF AgentMissing
<1>2. j \in Jobs /\ j \notin sched.todo /\ Picked(j)
  BY <1>1 DEF Numbered, Scheduling, Picked
<1>3. \/ job' = job
      \/ /\ Exists(j)
         /\ job' = [job EXCEPT ![j].state = "completed", ![j].run = "no"]
  BY DEF AgentMissing
<1>4. /\ \A i \in Jobs : /\ job'[i].state = "none" <=> job[i].state = "none"
                         /\ job'[i].kind = job[i].kind /\ job'[i].by = job[i].by
                         /\ job'[i].sent = job[i].sent /\ job'[i].rep = job[i].rep
                         /\ job[i].result => job'[i].result
      /\ job' \in [Jobs -> Row]
  <2>1. CASE job' = job
    BY <2>1 DEF TypeOK
  <2>2. CASE Exists(j) /\ job' = [job EXCEPT ![j].state = "completed", ![j].run = "no"]
    <3>1. job[j].state # "none"
      BY <2>2 DEF Exists
    <3> QED
      BY <1>2, <2>2, <3>1, FailedRow
  <2> QED
    BY <1>3, <2>1, <2>2
<1>5. /\ sched' \in Sched /\ Scheduling'
      /\ \A i \in Jobs : /\ Picked(i)' => Picked(i) /\ sched'.list[i] = sched.list[i]
                         /\ ~Sending(i)'
      /\ ~Picked(j)'
  BY <1>1, <1>2, NextOneEffect
<1>6. Rest
  <2>1. load' \in 0 .. MaxLoad
    BY <1>1, RestFacts
  <2> QED
    BY <1>1, <1>2, <2>1 DEF Rest, TypeOK
<1>7. Steady
  BY <1>1, <1>4, <1>5, <1>6, SchedFrame
<1> QED
  BY <1>1, <1>2, <1>3, <1>5, <1>7 DEF Sending

(* The next dispatch of the job goes into the channel.                     *)
LEMMA SendEffect ==
  ASSUME TypeOK, Numbered, SendInbound, NEW j, j = sched.job
  PROVE  /\ j \in Jobs /\ Picked(j) /\ sched.pc = "send"
         /\ job[j].sent + 1 \in Runs
         /\ task[Dispatch(j, job[j].sent + 1)].pc = "none"
         /\ task'[Dispatch(j, job[j].sent + 1)].pc = "submit"
         /\ task'[Dispatch(j, job[j].sent + 1)].turn =
              (IF sched.list[j].blank THEN "blank" ELSE "own")
         /\ \A u \in Tasks \ {Dispatch(j, job[j].sent + 1)} : task'[u] = task[u]
         /\ /\ job'[j].state = job[j].state /\ job'[j].kind = job[j].kind
            /\ job'[j].by = job[j].by /\ job'[j].ivl = job[j].ivl
            /\ job'[j].limit = job[j].limit /\ job'[j].blank = job[j].blank
            /\ job'[j].rep = job[j].rep /\ job'[j].result = job[j].result
            /\ job'[j].sent = job[j].sent + 1
         /\ \/ /\ job'[j].slips = job[j].slips
               /\ job'[j].run = (IF Exists(j) /\ job[j].kind = "delegate" THEN "leased"
                                 ELSE job[j].run)
            \/ job[j].kind = "delegate" /\ job'[j].slips = job[j].slips + 1
         /\ \A i \in Jobs \ {j} : job'[i] = job[i]
         /\ \A i \in Jobs : /\ Picked(i)' => Picked(i) /\ i # j
                            /\ Picked(i)' \/ Sending(i)' => sched'.list[i] = sched.list[i]
                            /\ ~Sending(i)
                            /\ Sending(i)' => i = j
         /\ job[j].kind # "delegate" => Sending(j)'
         /\ UNCHANGED <<map, taken>> /\ Known
         /\ Steady
<1>1. /\ sched.pc = "send" /\ UNCHANGED <<map, taken>> /\ Known /\ (Spend \/ UNCHANGED load)
      /\ sched \in Sched
  BY DEF SendInbound, TypeOK
<1>2. j \in Jobs /\ j \notin sched.todo /\ Picked(j)
  BY <1>1 DEF Numbered, Scheduling, Picked
<1>3. Counted(j) /\ job[j].sent < MaxRuns /\ job[j].sent \in Nat /\ job[j].rep \in Nat
  BY <1>2, TurnConstants DEF Numbered, Counted, TypeOK, Row
<1> DEFINE n == job[j].sent + 1
           t == Dispatch(j, n)
           turn == IF sched.list[j].blank THEN "blank" ELSE "own"
<1>4. n \in Runs /\ n > job[j].sent /\ n \in Nat
  BY <1>3, TurnConstants DEF Runs
<1>5. t \in Tasks /\ task[t].pc = "none"
  BY <1>2, <1>3, <1>4, DispatchFacts DEF Counted
<1>6. task' = [task EXCEPT ![t] = [IdleTask EXCEPT !.pc = "submit", !.turn = turn]]
  BY DEF SendInbound
<1>7. turn \in {"own", "blank"}
  OBVIOUS
<1>8. /\ task'[t].pc = "submit" /\ task'[t].turn = turn
      /\ \A u \in Tasks \ {t} : task'[u] = task[u]
      /\ task' \in [Tasks -> Handler]
  <2> DEFINE r == [IdleTask EXCEPT !.pc = "submit", !.turn = turn]
  <2> HIDE DEF t, turn
  <2>1. r \in Handler /\ r.pc = "submit" /\ r.turn = turn
    BY <1>7 DEF Handler, IdleTask
  <2>2. task' = [task EXCEPT ![t] = r]
    BY <1>6
  <2> HIDE DEF r
  <2> QED
    BY <1>5, <2>1, <2>2 DEF TypeOK
<1>9. /\ \/ /\ job'[j].slips = job[j].slips
            /\ job'[j].run = (IF Exists(j) /\ job[j].kind = "delegate" THEN "leased"
                              ELSE job[j].run)
         \/ job[j].kind = "delegate" /\ job'[j].slips = job[j].slips + 1
      /\ /\ job'[j].state = job[j].state /\ job'[j].kind = job[j].kind
         /\ job'[j].by = job[j].by /\ job'[j].ivl = job[j].ivl
         /\ job'[j].limit = job[j].limit /\ job'[j].blank = job[j].blank
         /\ job'[j].rep = job[j].rep /\ job'[j].result = job[j].result
         /\ job'[j].sent = n
      /\ \A i \in Jobs \ {j} : job'[i] = job[i]
      /\ job' \in [Jobs -> Row]
  <2>1. CASE job' = [job EXCEPT ![j].sent = n,
                       ![j].run = IF Exists(j) /\ job[j].kind = "delegate" THEN "leased" ELSE @]
    <3>1. PICK r \in {"no", "leased", "expired"} :
             r = (IF Exists(j) /\ job[j].kind = "delegate" THEN "leased" ELSE job[j].run)
      BY <1>2 DEF TypeOK, Row
    <3>2. job' = SentUnder(j, r)
      BY <2>1, <3>1 DEF SentUnder
    <3> QED
      BY <1>2, <1>3, <3>1, <3>2, SentRow
  <2>2. CASE /\ job[j].kind = "delegate"
             /\ job' = [job EXCEPT ![j].sent = n, ![j].slips = @ + 1]
    <3>1. job' = [job EXCEPT ![j].sent = job[j].sent + 1, ![j].slips = @ + 1]
      BY <2>2
    <3> QED
      BY <1>2, <1>3, <2>2, <3>1, UnrecordedRow
  <2> QED
    BY <2>1, <2>2 DEF SendInbound
<1>10. Rest
  BY <1>1, RestFacts
<1>11. /\ sched' \in Sched /\ Scheduling'
       /\ \A i \in Jobs : /\ Picked(i)' => i \in sched.todo
                          /\ Sending(i)' => i = j
                          /\ Picked(i)' \/ Sending(i)' => sched'.list[i] = sched.list[i]
       /\ Sending(j)' => job[j].kind # "delegate"
       /\ job[j].kind # "delegate" => Sending(j)'
  <2>1. CASE job[j].kind = "delegate"
    <3>1. sched' = Next1(sched.todo)
      BY <2>1 DEF SendInbound
    <3> QED
      BY <1>2, <2>1, <3>1, NextOneEffect
  <2>2. CASE job[j].kind # "delegate"
    <3>1. sched' = [sched EXCEPT !.pc = "cleanup"]
      BY <2>2 DEF SendInbound
    <3>2. /\ sched' \in Sched /\ sched'.pc = "cleanup" /\ sched'.todo = sched.todo
          /\ sched'.job = sched.job /\ sched'.list = sched.list
      BY <1>1, <3>1, CleaningFacts
    <3> QED
      BY <1>2, <2>2, <3>2 DEF Scheduling, Picked, Sending
  <2> QED
    BY <2>1, <2>2
<1>12. TypeOK'
  <2> HIDE DEF n, t, turn
  <2> QED
    BY <1>1, <1>8, <1>9, <1>10, <1>11, TypeFrame
<1>13. ASSUME NEW i \in Jobs PROVE Counted(i)'
  <2>1. ASSUME NEW m \in Runs, m > job'[i].sent PROVE task'[Dispatch(i, m)].pc = "none"
    <3>1. m > job[i].sent /\ (i = j => m # n)
      <4>1. job[i].sent \in Nat /\ m \in Nat
        BY DEF TypeOK, Row, Runs
      <4>2. CASE i = j
        BY <1>3, <1>4, <1>9, <2>1, <4>1, <4>2
      <4>3. CASE i # j
        BY <1>9, <2>1, <4>3
      <4> QED
        BY <4>2, <4>3
    <3>2. Dispatch(i, m) # t
      <4>1. PICK k \in Runs : k = n
        BY <1>4
      <4> QED
        BY <1>2, <3>1, <4>1, DispatchOne
    <3>3. task[Dispatch(i, m)].pc = "none"
      BY <3>1 DEF Numbered, Counted
    <3> QED
      BY <1>8, <3>2, <3>3, DispatchFacts
  <2>2. Picked(i)' => job'[i].state # "none" /\ job'[i].sent < MaxRuns
    <3>1. SUFFICES ASSUME Picked(i)' PROVE job'[i].state # "none" /\ job'[i].sent < MaxRuns
      OBVIOUS
    <3>2. Picked(i) /\ i # j
      BY <1>2, <1>11, <3>1 DEF Picked
    <3> QED
      BY <1>9, <3>2 DEF Numbered, Counted
  <2>3. Sending(i)' => job'[i].kind \notin {"none", "delegate"} /\ job'[i].rep < job'[i].sent
    BY <1>2, <1>3, <1>4, <1>9, <1>11 DEF Counted
  <2>4. /\ job'[i].state = "none" <=> job'[i].kind = "none"
        /\ job'[i].state = "none" => job'[i].sent = 0
        /\ job'[i].rep <= job'[i].sent
    <3>1. CASE i = j
      BY <1>2, <1>3, <1>4, <1>9, <3>1 DEF Counted
    <3>2. CASE i # j
      BY <1>9, <3>2 DEF Numbered, Counted
    <3> QED
      BY <3>1, <3>2
  <2> QED
    BY <2>1, <2>2, <2>3, <2>4 DEF Counted, Runs
<1>14. ASSUME NEW u \in Tasks PROVE Shaped(u)'
  <2>1. CASE u = t
    <3> HIDE DEF t, turn
    <3> QED
      BY <1>7, <1>8, <2>1 DEF Shaped
  <2>2. CASE u # t
    BY <1>8, <2>2 DEF Numbered, Shaped, Scheduled
  <2> QED
    BY <2>1, <2>2
<1>15. \A i \in Jobs : Lasting(i)
  BY <1>9 DEF Lasting
<1>16. Steady
  BY <1>11, <1>12, <1>13, <1>14, <1>15 DEF Numbered, Steady
<1>17. \A i \in Jobs : (Picked(i)' => Picked(i) /\ i # j) /\ ~Sending(i)
  BY <1>1, <1>2, <1>11 DEF Picked, Sending
<1> QED
  BY <1>1, <1>2, <1>4, <1>5, <1>8, <1>9, <1>11, <1>16, <1>17

\* What Cleanup takes a job for
RunsOnce(j) == sched.list[j].ivl = "zero" \/ job[j].kind = "wake"
IsCounted(j) == ~RunsOnce(j) /\ job[j].limit > 0
IsLast(j) == RunsOnce(j) \/ (IsCounted(j) /\ job[j].rep + 1 >= job[j].limit)

(* The job is counted, deleted or left as it is.                           *)
LEMMA CleanupEffect ==
  ASSUME TypeOK, Numbered, Cleanup, NEW j, j = sched.job
  PROVE  /\ j \in Jobs /\ Sending(j) /\ job[j].kind \notin {"none", "delegate"}
         /\ job[j].rep < job[j].sent
         /\ \/ /\ job'[j].slips = job[j].slips
               /\ job'[j].rep = (IF IsCounted(j) THEN job[j].rep + 1 ELSE job[j].rep)
               /\ job'[j].state = (IF IsLast(j) THEN "deleted" ELSE job[j].state)
            \/ /\ job'[j].slips = job[j].slips + 1
               /\ job'[j].rep = job[j].rep /\ job'[j].state = job[j].state
         /\ /\ job'[j].kind = job[j].kind
            /\ job'[j].by = job[j].by /\ job'[j].ivl = job[j].ivl
            /\ job'[j].limit = job[j].limit /\ job'[j].blank = job[j].blank
            /\ job'[j].run = job[j].run /\ job'[j].result = job[j].result
            /\ job'[j].sent = job[j].sent
         /\ \A i \in Jobs \ {j} : job'[i] = job[i]
         /\ \A i \in Jobs : /\ Picked(i)' => Picked(i) /\ sched'.list[i] = sched.list[i] /\ i # j
                            /\ ~Sending(i)' /\ (Sending(i) => i = j)
         /\ UNCHANGED <<map, task, taken>> /\ Known
         /\ Steady
<1>1. /\ sched.pc = "cleanup" /\ sched' = Next1(sched.todo)
      /\ UNCHANGED <<map, task, taken>> /\ Known /\ (Spend \/ UNCHANGED load)
  BY DEF Cleanup
<1>2. j \in Jobs /\ j \notin sched.todo /\ Sending(j)
  BY <1>1 DEF Numbered, Scheduling, Sending
<1>3. /\ job[j].kind \notin {"none", "delegate"} /\ job[j].rep < job[j].sent
      /\ job[j].sent \in 0 .. MaxRuns /\ job[j].rep \in Nat
  BY <1>2, TurnConstants DEF Numbered, Counted, TypeOK, Row
<1>4. job[j].rep < MaxRuns /\ MaxRuns \in Nat
  BY <1>3, TurnConstants
<1>5. job[j].state \in {"none", "active", "paused", "completed", "deleted"}
  BY <1>2 DEF TypeOK, Row
<1>6. /\ \/ /\ job'[j].slips = job[j].slips
            /\ job'[j].rep = (IF IsCounted(j) THEN job[j].rep + 1 ELSE job[j].rep)
            /\ job'[j].state = (IF IsLast(j) THEN "deleted" ELSE job[j].state)
         \/ /\ job'[j].slips = job[j].slips + 1
            /\ job'[j].rep = job[j].rep /\ job'[j].state = job[j].state
      /\ /\ job'[j].kind = job[j].kind
         /\ job'[j].by = job[j].by /\ job'[j].ivl = job[j].ivl
         /\ job'[j].limit = job[j].limit /\ job'[j].blank = job[j].blank
         /\ job'[j].run = job[j].run /\ job'[j].result = job[j].result
         /\ job'[j].sent = job[j].sent
      /\ \A i \in Jobs \ {j} : job'[i] = job[i]
      /\ job' \in [Jobs -> Row]
  <2>1. CASE job' = [job EXCEPT ![j].rep = IF IsCounted(j) THEN @ + 1 ELSE @,
                                ![j].state = IF IsLast(j) THEN "deleted" ELSE @]
    <3> DEFINE r == IF IsCounted(j) THEN job[j].rep + 1 ELSE job[j].rep
               st == IF IsLast(j) THEN "deleted" ELSE job[j].state
    <3>1. r \in 0 .. MaxRuns
      BY <1>3, <1>4
    <3>2. st \in {"none", "active", "paused", "completed", "deleted"}
      BY <1>5
    <3>3. PICK q \in 0 .. MaxRuns, sv \in {"none", "active", "paused", "completed", "deleted"} :
             q = r /\ sv = st
      BY <3>1, <3>2
    <3>4. job' = Cleaned(j, q, sv)
      BY <2>1, <3>3 DEF Cleaned
    <3> HIDE DEF r, st
    <3>5. job'[j].rep = r /\ job'[j].state = st /\ job'[j].slips = job[j].slips
      BY <1>2, <3>3, <3>4, CleanRow
    <3>6. /\ /\ job'[j].kind = job[j].kind
             /\ job'[j].by = job[j].by /\ job'[j].ivl = job[j].ivl
             /\ job'[j].limit = job[j].limit /\ job'[j].blank = job[j].blank
             /\ job'[j].run = job[j].run /\ job'[j].result = job[j].result
             /\ job'[j].sent = job[j].sent
          /\ \A i \in Jobs \ {j} : job'[i] = job[i]
          /\ job' \in [Jobs -> Row]
      BY <1>2, <3>4, CleanRow
    <3> QED
      BY <3>5, <3>6 DEF r, st
  <2>2. CASE job' = Slip(j)
    BY <1>2, <2>2, SlipRow DEF Slip
  <2> QED
    BY <2>1, <2>2 DEF Cleanup, IsCounted, IsLast, RunsOnce
<1>7. Rest
  BY <1>1, RestFacts
<1>8. /\ sched' \in Sched /\ Scheduling'
      /\ \A i \in Jobs : /\ Picked(i)' => Picked(i) /\ sched'.list[i] = sched.list[i] /\ i # j
                         /\ ~Sending(i)' /\ (Sending(i) => i = j)
  <2>1. \A i \in Jobs : Sending(i) => i = j
    BY DEF Sending
  <2> QED
    BY <1>1, <1>2, <2>1, NextOneEffect
<1>9. ASSUME NEW i \in Jobs
      PROVE  /\ job'[i].state = "none" <=> job[i].state = "none"
             /\ job'[i].rep = job[i].rep \/ job'[i].rep <= job[i].sent
  <2>1. CASE i = j
    <3>1. job[j].state # "none"
      BY <1>2, <1>3 DEF Numbered, Counted
    <3>2. job[j].rep + 1 <= job[j].sent
      BY <1>3
    <3>3. job'[j].rep \in {job[j].rep, job[j].rep + 1} /\ job'[j].state \in {job[j].state, "deleted"}
      BY <1>6
    <3> QED
      BY <2>1, <3>1, <3>2, <3>3
  <2>2. CASE i # j
    BY <1>6, <2>2
  <2> QED
    BY <2>1, <2>2
<1>10. ASSUME NEW i \in Jobs
       PROVE  /\ job'[i].kind = job[i].kind /\ job'[i].by = job[i].by
              /\ job'[i].sent = job[i].sent /\ (job[i].result => job'[i].result)
  BY <1>6
<1>11. Steady
  BY <1>1, <1>6, <1>7, <1>8, <1>9, <1>10, SchedFrame
<1> QED
  BY <1>1, <1>2, <1>3, <1>6, <1>8, <1>11

(* Time passes for one job.                                                *)
LEMMA TimeEffect ==
  ASSUME TypeOK, Numbered, NEW j \in Jobs, NextRunComes(j) \/ PollIsLate(j) \/ LeaseExpires(j)
  PROVE  /\ job'[j].state = job[j].state /\ job'[j].kind = job[j].kind
         /\ job'[j].by = job[j].by /\ job'[j].ivl = job[j].ivl
         /\ job'[j].limit = job[j].limit /\ job'[j].blank = job[j].blank
         /\ job'[j].rep = job[j].rep /\ job'[j].result = job[j].result
         /\ job'[j].sent = job[j].sent
         /\ \/ Same(j)
            \/ /\ LeaseExpires(j) /\ job[j].run = "leased" /\ job'[j].run = "expired"
               /\ \/ ~Underway(j) /\ job'[j].slips = job[j].slips
                  \/ job'[j].slips = job[j].slips + 1
         /\ \A i \in Jobs \ {j} : job'[i] = job[i]
         /\ UNCHANGED <<map, task, sched, taken>> /\ Known
         /\ Steady
<1>1. /\ job'[j].state = job[j].state /\ job'[j].kind = job[j].kind
      /\ job'[j].by = job[j].by /\ job'[j].ivl = job[j].ivl
      /\ job'[j].limit = job[j].limit /\ job'[j].blank = job[j].blank
      /\ job'[j].rep = job[j].rep /\ job'[j].result = job[j].result
      /\ job'[j].sent = job[j].sent
      /\ \/ Same(j)
         \/ /\ LeaseExpires(j) /\ job[j].run = "leased" /\ job'[j].run = "expired"
            /\ \/ ~Underway(j) /\ job'[j].slips = job[j].slips
               \/ job'[j].slips = job[j].slips + 1
      /\ \A i \in Jobs \ {j} : job'[i] = job[i]
      /\ job' \in [Jobs -> Row]
  <2>1. CASE NextRunComes(j)
    <3>1. job' = [job EXCEPT ![j].next = "due"]
      BY <2>1 DEF NextRunComes, SetNext
    <3> QED
      BY <3>1, NextRow DEF Same
  <2>2. CASE PollIsLate(j)
    <3>1. job' = [job EXCEPT ![j].next = "stale"]
      BY <2>2 DEF PollIsLate, SetNext
    <3> QED
      BY <3>1, NextRow DEF Same
  <2>3. CASE LeaseExpires(j)
    <3>1. job[j].run = "leased"
      BY <2>3 DEF LeaseExpires, Leased
    <3>2. CASE ~Underway(j) /\ job' = [job EXCEPT ![j].run = "expired"]
      BY <2>3, <3>1, <3>2, ExpiredRow
    <3>3. CASE job' = [job EXCEPT ![j].run = "expired", ![j].slips = @ + 1]
      BY <2>3, <3>1, <3>3, OverrunRow
    <3> QED
      BY <2>3, <3>2, <3>3 DEF LeaseExpires
  <2> QED
    BY <2>1, <2>2, <2>3
<1>2. UNCHANGED <<map, task, sched, taken>> /\ Known /\ (Spend \/ UNCHANGED load)
  BY DEF NextRunComes, PollIsLate, LeaseExpires, Calm
<1>3. Rest
  BY <1>2, RestFacts
<1>4. ASSUME NEW i \in Jobs PROVE Kept(i)
  <2>1. CASE i = j
    BY <1>1, <2>1 DEF Kept
  <2>2. CASE i # j
    BY <1>1, <2>2 DEF Kept
  <2> QED
    BY <2>1, <2>2
<1>5. Steady
  BY <1>1, <1>2, <1>3, <1>4, RowFrame
<1> QED
  BY <1>1, <1>2, <1>5

(* A restart ends every handler, empties the map and is a slip of every    *)
(* job.                                                                    *)
LEMMA RestartEffect ==
  ASSUME TypeOK, Numbered, Restart
  PROVE  /\ \A t \in Tasks : task'[t].pc \in {"none", "ended"} /\ task'[t].turn = "own"
         /\ \A s \in Sessions : ~map'[s].in
         /\ \A j \in Jobs : ~Picked(j)' /\ ~Sending(j)'
         /\ \A j \in Jobs :
              /\ job'[j].state = job[j].state /\ job'[j].kind = job[j].kind
              /\ job'[j].by = job[j].by /\ job'[j].ivl = job[j].ivl
              /\ job'[j].limit = job[j].limit /\ job'[j].blank = job[j].blank
              /\ job'[j].run = job[j].run /\ job'[j].rep = job[j].rep
              /\ job'[j].result = job[j].result /\ job'[j].sent = job[j].sent
              /\ job'[j].slips = (IF Exists(j) THEN job[j].slips + 1 ELSE job[j].slips)
         /\ excused' = excused \cup {j \in Jobs : job[j].state # "none"}
         /\ crossed' = {} /\ managed' = managed /\ taken' = taken
         /\ Steady
<1>1. /\ map' = [s \in Sessions |-> Empty] /\ sched' = IdleSched
      /\ task' = [t \in Tasks |-> IF task[t].pc = "none" THEN IdleTask
                                  ELSE [IdleTask EXCEPT !.pc = "ended"]]
      /\ job' = [j \in Jobs |-> IF Exists(j) THEN [job[j] EXCEPT !.slips = @ + 1] ELSE job[j]]
      /\ procs' = {} /\ crossed' = {} /\ UNCHANGED <<taken, managed>>
      /\ excused' = excused \cup {j \in Jobs : job[j].state # "none"}
      /\ Spend
  BY DEF Restart
<1>2. \A t \in Tasks : /\ task'[t] \in Handler /\ task'[t].turn = "own"
                       /\ task'[t].pc = IF task[t].pc = "none" THEN "none" ELSE "ended"
  BY <1>1 DEF IdleTask, Handler
<1>3. task' \in [Tasks -> Handler]
  <2>1. task' = [t \in Tasks |-> task'[t]]
    BY <1>1
  <2> QED
    BY <1>2, <2>1
<1>4. /\ map' \in [Sessions -> Session]
      /\ \A s \in Sessions : ~map'[s].in /\ map'[s].q = {}
  BY <1>1, StartTyped DEF Empty
<1>5. sched'.pc = "idle" /\ sched'.todo = {} /\ sched'.job = Main /\ sched' \in Sched
  BY <1>1, StartTyped DEF IdleSched
<1>6. ASSUME NEW j \in Jobs
      PROVE  /\ job'[j].state = job[j].state /\ job'[j].kind = job[j].kind
             /\ job'[j].by = job[j].by /\ job'[j].ivl = job[j].ivl
             /\ job'[j].limit = job[j].limit /\ job'[j].blank = job[j].blank
             /\ job'[j].run = job[j].run /\ job'[j].rep = job[j].rep
             /\ job'[j].result = job[j].result /\ job'[j].sent = job[j].sent
             /\ job'[j].slips = (IF Exists(j) THEN job[j].slips + 1 ELSE job[j].slips)
             /\ job'[j] \in Row
  <2> DEFINE u == [job[j] EXCEPT !.slips = @ + 1]
  <2>1. job[j] \in Row
    BY DEF TypeOK
  <2>2. /\ u.state = job[j].state /\ u.kind = job[j].kind
        /\ u.by = job[j].by /\ u.ivl = job[j].ivl
        /\ u.limit = job[j].limit /\ u.blank = job[j].blank
        /\ u.run = job[j].run /\ u.rep = job[j].rep
        /\ u.result = job[j].result /\ u.sent = job[j].sent /\ u.slips = job[j].slips + 1
    BY <2>1 DEF Row
  <2>3. u \in Row
    <3>1. job[j].slips + 1 \in Nat
      BY <2>1 DEF Row
    <3> QED
      BY <2>1, <3>1 DEF Row
  <2>4. job'[j] = IF Exists(j) THEN u ELSE job[j]
    BY <1>1
  <2> HIDE DEF u
  <2> QED
    BY <2>1, <2>2, <2>3, <2>4
<1>7. job' \in [Jobs -> Row]
  <2>1. job' = [j \in Jobs |-> job'[j]]
    BY <1>1
  <2> QED
    BY <1>6, <2>1
<1>8. Rest
  <2>1. load' \in 0 .. MaxLoad
    BY <1>1, RestFacts
  <2> QED
    BY <1>1, <2>1 DEF Rest, TypeOK
<1>9. TypeOK'
  BY <1>1, <1>3, <1>4, <1>5, <1>7, <1>8, TypeFrame
<1>10. \A j \in Jobs : ~Picked(j)' /\ ~Sending(j)'
  BY <1>5 DEF Picked, Sending
<1>11. ASSUME NEW j \in Jobs PROVE Counted(j)'
  <2>1. ASSUME NEW n \in Runs, n > job'[j].sent PROVE task'[Dispatch(j, n)].pc = "none"
    BY <1>2, <1>6, <2>1, DispatchFacts DEF Numbered, Counted
  <2> QED
    BY <1>6, <1>10, <2>1 DEF Numbered, Counted, Runs
<1>12. \A t \in Tasks : Shaped(t)'
  BY <1>2 DEF Shaped
<1>13. Scheduling'
  BY <1>5 DEF Scheduling
<1>14. \A j \in Jobs : Lasting(j)
  BY <1>6 DEF Lasting
<1>15. Steady
  BY <1>9, <1>11, <1>12, <1>13, <1>14 DEF Numbered, Steady
<1> QED
  BY <1>1, <1>2, <1>4, <1>6, <1>10, <1>15

(* No step moves a handler to another session.                             *)
LEMMA SessSteady ==
  ASSUME TypeOK, Numbered, Steady
  PROVE  \A t \in Tasks : task[t].pc # "none" => Sess(t)' = Sess(t)
BY SessKeeps DEF Steady
-----------------------------------------------------------------------------
(* A session's entry and its handler.                                      *)

Owned == ReservedIsOwned /\ Alone

\* A step that starts and ends no handler, and puts and removes no entry
Quiet ==
  /\ \A t \in Tasks : /\ Live(t)' <=> Live(t)
                      /\ task'[t].pc = "reserve" <=> task[t].pc = "reserve"
  /\ \A s \in Sessions : map'[s].in = map[s].in /\ map'[s].stray = map[s].stray
  /\ crossed' = crossed

\* A handler that stays one
StaysLive(t) == task[t].pc \in Owning \ {"reserve"} /\ task'[t].pc \in Owning \ {"reserve"}
StaysIdle(t) == task[t].pc \notin Owning /\ task'[t].pc \notin Owning

(* One task moves, and stays what it is.                                   *)
LEMMA QuietMove ==
  ASSUME NEW t \in Tasks, \A u \in Tasks \ {t} : task'[u] = task[u],
         StaysLive(t) \/ StaysIdle(t),
         \A s \in Sessions : map'[s].in = map[s].in /\ map'[s].stray = map[s].stray,
         Known
  PROVE  Quiet
<1>1. ASSUME NEW u \in Tasks
      PROVE  /\ Live(u)' <=> Live(u)
             /\ task'[u].pc = "reserve" <=> task[u].pc = "reserve"
  <2>1. CASE u = t
    BY <2>1 DEF StaysLive, StaysIdle, Live, Owning
  <2>2. CASE u # t
    BY <2>2 DEF Live
  <2> QED
    BY <2>1, <2>2
<1> QED
  BY <1>1 DEF Quiet, Known

(* No task moves and no entry changes.                                     *)
LEMMA QuietStay ==
  ASSUME UNCHANGED <<map, task, crossed>>
  PROVE  Quiet
BY DEF Quiet, Live

(* Every step keeps the types and the numbers; most are quiet.             *)
LEMMA StepCases ==
  ASSUME TypeOK, Numbered, Next
  PROVE  /\ Steady
         /\ \/ Quiet \/ Restart
            \/ \E t \in Tasks : RunNow(t) \/ NotifyInserts(t) \/ FinishTurn(t) \/ Reserve(t)
<1> DEFINE Good == /\ Steady
                   /\ \/ Quiet \/ Restart
                      \/ \E t \in Tasks :
                           RunNow(t) \/ NotifyInserts(t) \/ FinishTurn(t) \/ Reserve(t)
<1> SUFFICES Good
  OBVIOUS
<1>1. ASSUME InjectMessage PROVE Good
  <2>1. PICK m \in Messages : /\ task[m].pc = "none" /\ task'[m].pc = "submit"
                              /\ \A u \in Tasks \ {m} : task'[u] = task[u]
    BY <1>1, InjectEffect
  <2>2. m \in Tasks /\ StaysIdle(m)
    BY <2>1 DEF Tasks, StaysIdle, Owning
  <2> QED
    BY <1>1, <2>1, <2>2, InjectEffect, QuietMove
<1>2. ASSUME NEW t \in Tasks, SubmitOrQueue(t) PROVE Good
  <2>1. StaysIdle(t)
    BY <1>2, SubmitEffect DEF StaysIdle, Owning
  <2> QED
    BY <1>2, <2>1, SubmitEffect, QuietMove
<1>3. ASSUME NEW t \in Tasks, RunNow(t) PROVE Good
  BY <1>3, RunNowEffect
<1>4. ASSUME NEW t \in Tasks, NotifyParent(t) PROVE Good
  <2>1. StaysLive(t)
    BY <1>4, NotifyEffect DEF StaysLive, Owning
  <2> QED
    BY <1>4, <2>1, NotifyEffect, QuietMove
<1>5. ASSUME NEW t \in Tasks, NotifyInserts(t) PROVE Good
  BY <1>5, NotifyInsertsEffect
<1>6. ASSUME NEW t \in Tasks, CompleteDelegate(t) PROVE Good
  <2>1. StaysLive(t) /\ map' = map
    BY <1>6, CompleteEffect DEF StaysLive, Owning
  <2> QED
    BY <1>6, <2>1, CompleteEffect, QuietMove
<1>7. ASSUME NEW t \in Tasks, DrainQueued(t) PROVE Good
  <2>1. StaysLive(t)
    BY <1>7, DrainEffect DEF StaysLive, Owning, AtDrain
  <2> QED
    BY <1>7, <2>1, DrainEffect, QuietMove
<1>8. ASSUME NEW t \in Tasks, CheckIdle(t) PROVE Good
  <2>1. task[t].pc = "delegates" /\ task'[t].pc \in {"drain", "redrain", "finish"}
    BY <1>8, CheckIdleEffect
  <2>2. /\ \A u \in Tasks \ {t} : task'[u] = task[u]
        /\ map' = map /\ crossed' = crossed /\ Steady
    BY <1>8, CheckIdleEffect
  <2>3. \A u \in Tasks : /\ Live(u)' <=> Live(u)
                         /\ task'[u].pc = "reserve" <=> task[u].pc = "reserve"
    BY <2>1, <2>2 DEF Live, Owning
  <2> QED
    BY <2>2, <2>3 DEF Quiet
<1>9. ASSUME NEW t \in Tasks, FinishTurn(t) PROVE Good
  BY <1>9, FinishEffect
<1>10. ASSUME NEW t \in Tasks, Reserve(t) PROVE Good
  BY <1>10, ReserveEffect
<1>11. ASSUME NEW t \in Tasks, NEW new \in Asked, CreateJob(t, new) PROVE Good
  BY <1>11, CreateEffect, QuietStay
<1>12. ASSUME NEW t \in Tasks, NEW j \in Jobs, ManageJob(t, j) PROVE Good
  BY <1>12, ManageEffect, QuietStay
<1>13. ASSUME (\E t \in Tasks : SpawnProcess(t)) \/ (\E s \in Sessions : ProcessEnds(s)) PROVE Good
  BY <1>13, ProcessEffect, QuietStay
<1>14. ASSUME ListDue PROVE Good
  BY <1>14, ListEffect, QuietStay DEF Known
<1>15. ASSUME NEW j \in Jobs, FastForward(j) PROVE Good
  BY <1>15, FastForwardEffect, QuietStay DEF Known
<1>16. ASSUME NEW j \in Jobs, AdvanceNextRun(j) PROVE Good
  BY <1>16, AdvanceEffect, QuietStay DEF Known
<1>17. ASSUME AgentMissing PROVE Good
  BY <1>17, MissingEffect, QuietStay
<1>18. ASSUME SendInbound PROVE Good
  <2> DEFINE t == Dispatch(sched.job, job[sched.job].sent + 1)
  <2>1. /\ sched.job \in Jobs /\ job[sched.job].sent + 1 \in Runs
        /\ task[t].pc = "none" /\ task'[t].pc = "submit"
        /\ \A u \in Tasks \ {t} : task'[u] = task[u]
        /\ map' = map /\ Known /\ Steady
    BY <1>18, SendEffect
  <2>2. \A u \in Tasks : /\ Live(u)' <=> Live(u)
                         /\ task'[u].pc = "reserve" <=> task[u].pc = "reserve"
    <3> HIDE DEF t
    <3> QED
      BY <2>1 DEF Live, Owning
  <2> QED
    BY <2>1, <2>2 DEF Quiet, Known
<1>19. ASSUME Cleanup PROVE Good
  BY <1>19, CleanupEffect, QuietStay DEF Known
<1>20. ASSUME NEW j \in Jobs, NextRunComes(j) \/ PollIsLate(j) \/ LeaseExpires(j) PROVE Good
  BY <1>20, TimeEffect, QuietStay DEF Known
<1>21. ASSUME Restart PROVE Good
  BY <1>21, RestartEffect
<1> HIDE DEF Good
<1> QED
  BY <1>1, <1>2, <1>3, <1>4, <1>5, <1>6, <1>7, <1>8, <1>9, <1>10, <1>11, <1>12, <1>13,
    <1>14, <1>15, <1>16, <1>17, <1>18, <1>19, <1>20, <1>21 DEF Next, TaskStep,
    SchedulerStep

(* A handler has begun.                                                    *)
LEMMA LiveBegun ==
  ASSUME NEW t \in Tasks, Live(t)
  PROVE  task[t].pc # "none"
BY DEF Live, Owning

(* Who is live, and where, after a quiet step.                             *)
LEMMA QuietFacts ==
  ASSUME TypeOK, Numbered, Steady, Quiet
  PROVE  /\ \A t \in Tasks : Live(t)' <=> Live(t)
         /\ \A t \in Tasks : Live(t) => Sess(t)' = Sess(t)
         /\ \A s \in Sessions : (Handled(s)' <=> Handled(s)) /\ (Held(s)' <=> Held(s))
<1>1. \A t \in Tasks : Live(t)' <=> Live(t)
  BY DEF Quiet
<1>2. \A t \in Tasks : Live(t) => Sess(t)' = Sess(t)
  BY LiveBegun, SessSteady
<1>3. \A s \in Sessions : Handled(s)' <=> Handled(s)
  BY <1>1, <1>2 DEF Handled
<1>4. \A s \in Sessions : Held(s)' <=> Held(s)
  BY <1>1, <1>2 DEF Held, Quiet
<1> QED
  BY <1>1, <1>2, <1>3, <1>4

(* A quiet step changes nothing of it.                                     *)
LEMMA OwnedFrame ==
  ASSUME TypeOK, Numbered, Owned, Steady, Quiet
  PROVE  Owned'
<1>1. ReservedIsOwned'
  BY QuietFacts DEF ReservedIsOwned, Owned, Quiet
<1>2. ASSUME NEW s \in Sessions \ crossed' PROVE Single(s)' /\ Entered(s)'
  <2>1. s \in Sessions \ crossed /\ Single(s) /\ Entered(s) /\ map'[s].in = map[s].in
    BY <1>2 DEF Owned, Alone, Quiet
  <2>2. \A t \in Tasks : Live(t)' => Live(t) /\ Sess(t)' = Sess(t)
    BY QuietFacts
  <2>3. Single(s)'
    BY <2>1, <2>2 DEF Single
  <2>4. \A t \in Tasks : task'[t].pc = "reserve" <=> task[t].pc = "reserve"
    BY DEF Quiet
  <2>5. Entered(s)'
    BY <2>1, <2>2, <2>4 DEF Entered
  <2> QED
    BY <2>3, <2>5
<1> QED
  BY <1>1, <1>2 DEF Owned, Alone

(* Where the live tasks of a step are that moves one task which has begun. *)
LEMMA MovedFacts ==
  ASSUME TypeOK, Numbered, Steady, NEW t \in Tasks, task[t].pc # "none",
         \A u \in Tasks \ {t} : task'[u] = task[u]
  PROVE  /\ Sess(t)' = Sess(t) /\ Sess(t) \in Sessions
         /\ \A u \in Tasks \ {t} : /\ Live(u)' <=> Live(u)
                                   /\ Live(u) => Sess(u)' = Sess(u)
<1>1. \A u \in Tasks \ {t} : Live(u)' <=> Live(u)
  BY DEF Live
<1> QED
  BY <1>1, SessSteady, SessTyped, LiveBegun

(* A handler starts.                                                       *)
LEMMA RunNowOwned ==
  ASSUME TypeOK, Numbered, Owned, NEW t \in Tasks, RunNow(t)
  PROVE  Owned'
<1>1. /\ task[t].pc = "insert" /\ task'[t].pc = "turn"
      /\ \A u \in Tasks \ {t} : task'[u] = task[u]
      /\ map'[Sess(t)].in /\ \A s \in Sessions \ {Sess(t)} : map'[s] = map[s]
      /\ Inserted(Sess(t)) /\ Steady
  BY RunNowEffect, EntryTyped
<1>2. /\ Sess(t)' = Sess(t) /\ Sess(t) \in Sessions
      /\ \A u \in Tasks \ {t} : (Live(u)' <=> Live(u)) /\ (Live(u) => Sess(u)' = Sess(u))
  BY <1>1, MovedFacts
<1>3. Live(t)' /\ ~Live(t)
  BY <1>1 DEF Live, Owning
<1>4. ASSUME NEW s \in Sessions, map'[s].in, ~map'[s].stray PROVE Handled(s)'
  <2>1. CASE s = Sess(t)
    BY <1>2, <1>3, <2>1 DEF Handled
  <2>2. CASE s # Sess(t)
    <3>1. Handled(s)
      BY <1>1, <1>4, <2>2 DEF Owned, ReservedIsOwned
    <3> QED
      BY <1>2, <1>3, <3>1 DEF Handled
  <2> QED
    BY <2>1, <2>2
<1>5. ASSUME NEW s \in Sessions \ crossed' PROVE Single(s)' /\ Entered(s)'
  <2>1. s \notin crossed /\ (s = Sess(t) => ~Handled(s))
    BY <1>1, <1>2, InsertedFacts
  <2>2. Single(s) /\ Entered(s)
    BY <2>1 DEF Owned, Alone
  <2>3. Single(s)'
    BY <1>2, <1>3, <2>1, <2>2 DEF Single, Handled
  <2>4. Entered(s)'
    <3>1. CASE s = Sess(t)
      BY <1>1, <3>1 DEF Entered
    <3>2. CASE s # Sess(t)
      <4>1. map'[s].in = map[s].in
        BY <1>1, <3>2
      <4> QED
        BY <1>1, <1>2, <2>2, <3>2, <4>1 DEF Entered
    <3> QED
      BY <3>1, <3>2
  <2> QED
    BY <2>3, <2>4
<1> QED
  BY <1>4, <1>5 DEF Owned, ReservedIsOwned, Alone

(* A notification inserts an entry, which is a stray one.                  *)
LEMMA NotifyInsertsOwned ==
  ASSUME TypeOK, Numbered, Owned, NEW t \in Tasks, NotifyInserts(t)
  PROVE  Owned'
<1> DEFINE p == Parent(t)
<1>1. /\ task[t].pc = "note_insert" /\ task'[t].pc = "complete"
      /\ \A u \in Tasks \ {t} : task'[u] = task[u]
      /\ map'[p].in /\ map'[p].stray /\ \A s \in Sessions \ {p} : map'[s] = map[s]
      /\ Inserted(p) /\ Steady /\ p \in Sessions
  BY NotifyInsertsEffect, EntryTyped
<1> HIDE DEF p
<1>2. /\ Sess(t)' = Sess(t)
      /\ \A u \in Tasks \ {t} : (Live(u)' <=> Live(u)) /\ (Live(u) => Sess(u)' = Sess(u))
  BY <1>1, MovedFacts
<1>3. Live(t)' /\ Live(t)
  BY <1>1 DEF Live, Owning
<1>4. ASSUME NEW s \in Sessions, map'[s].in, ~map'[s].stray PROVE Handled(s)'
  <2>1. s # p /\ map'[s] = map[s]
    BY <1>1, <1>4
  <2>2. Handled(s)
    BY <1>4, <2>1 DEF Owned, ReservedIsOwned
  <2> QED
    BY <1>2, <1>3, <2>2 DEF Handled
<1>5. ASSUME NEW s \in Sessions \ crossed' PROVE Single(s)' /\ Entered(s)'
  <2>1. Single(s) /\ Entered(s)
    BY <1>1, InsertedFacts DEF Owned, Alone
  <2>2. Single(s)'
    BY <1>2, <1>3, <2>1 DEF Single
  <2>3. Entered(s)'
    <3>1. CASE s = p
      BY <1>1, <3>1 DEF Entered
    <3>2. CASE s # p
      <4>1. map'[s].in = map[s].in
        BY <1>1, <3>2
      <4> QED
        BY <1>1, <1>2, <1>3, <2>1, <4>1 DEF Entered
    <3> QED
      BY <3>1, <3>2
  <2> QED
    BY <2>2, <2>3
<1> QED
  BY <1>4, <1>5 DEF Owned, ReservedIsOwned, Alone

(* A handler removes its entry.                                            *)
LEMMA FinishOwned ==
  ASSUME TypeOK, Numbered, Owned, NEW t \in Tasks, FinishTurn(t)
  PROVE  Owned'
<1>1. /\ task[t].pc = "finish" /\ task'[t].pc \in {"reserve", "ended"}
      /\ \A u \in Tasks \ {t} : task'[u] = task[u]
      /\ ~map'[Sess(t)].in /\ \A s \in Sessions \ {Sess(t)} : map'[s] = map[s]
      /\ \/ crossed' = crossed
         \/ /\ crossed' = crossed \ {Sess(t)} /\ task'[t].pc = "ended"
            /\ \A u \in Tasks \ {t} : ~(Live(u) /\ Sess(u) = Sess(t))
      /\ Steady
  BY FinishEffect, EntryTyped
<1>2. /\ Sess(t)' = Sess(t) /\ Sess(t) \in Sessions
      /\ \A u \in Tasks \ {t} : (Live(u)' <=> Live(u)) /\ (Live(u) => Sess(u)' = Sess(u))
  BY <1>1, MovedFacts
<1>3. Live(t) /\ (task'[t].pc = "ended" => ~Live(t)')
  BY <1>1 DEF Live, Owning
<1>4. ASSUME NEW s \in Sessions, map'[s].in, ~map'[s].stray PROVE Handled(s)'
  <2>1. s # Sess(t) /\ map'[s] = map[s]
    BY <1>1, <1>4
  <2>2. Handled(s)
    BY <1>4, <2>1 DEF Owned, ReservedIsOwned
  <2> QED
    BY <1>2, <2>1, <2>2 DEF Handled
<1>5. ASSUME NEW s \in Sessions \ crossed' PROVE Single(s)' /\ Entered(s)'
  <2>1. CASE s = Sess(t)
    <3>1. \A u \in Tasks \ {t} : ~(Live(u) /\ Sess(u) = s)
      <4>1. CASE s \in crossed
        BY <1>1, <1>5, <2>1, <4>1
      <4>2. CASE s \notin crossed
        <5>1. Single(s)
          BY <4>2 DEF Owned, Alone
        <5> QED
          BY <1>3, <2>1, <5>1 DEF Single
      <4> QED
        BY <4>1, <4>2
    <3>2. \A u \in Tasks : Live(u)' /\ Sess(u)' = s => u = t
      BY <1>2, <3>1
    <3>3. task'[t].pc = "reserve" \/ ~Live(t)'
      BY <1>1, <1>3
    <3> QED
      BY <3>2, <3>3 DEF Single, Entered
  <2>2. CASE s # Sess(t)
    <3>1. Single(s) /\ Entered(s) /\ map'[s].in = map[s].in
      BY <1>1, <1>5, <2>2 DEF Owned, Alone
    <3>2. \A u \in Tasks : Live(u)' /\ Sess(u)' = s => u # t /\ Live(u) /\ Sess(u) = s
      BY <1>2, <2>2
    <3> QED
      BY <1>1, <3>1, <3>2 DEF Single, Entered
  <2> QED
    BY <2>1, <2>2
<1> QED
  BY <1>4, <1>5 DEF Owned, ReservedIsOwned, Alone

(* And puts another one there for what was queued.                         *)
LEMMA ReserveOwned ==
  ASSUME TypeOK, Numbered, Owned, NEW t \in Tasks, Reserve(t)
  PROVE  Owned'
<1>1. /\ task[t].pc = "reserve" /\ task'[t].pc = "turn"
      /\ \A u \in Tasks \ {t} : task'[u] = task[u]
      /\ map'[Sess(t)].in /\ \A s \in Sessions \ {Sess(t)} : map'[s] = map[s]
      /\ crossed' = crossed /\ Steady
  BY ReserveEffect, EntryTyped DEF Known
<1>2. /\ Sess(t)' = Sess(t) /\ Sess(t) \in Sessions
      /\ \A u \in Tasks \ {t} : (Live(u)' <=> Live(u)) /\ (Live(u) => Sess(u)' = Sess(u))
  BY <1>1, MovedFacts
<1>3. Live(t) /\ Live(t)'
  BY <1>1 DEF Live, Owning
<1>4. ASSUME NEW s \in Sessions, map'[s].in, ~map'[s].stray PROVE Handled(s)'
  <2>1. CASE s = Sess(t)
    BY <1>2, <1>3, <2>1 DEF Handled
  <2>2. CASE s # Sess(t)
    <3>1. Handled(s)
      BY <1>1, <1>4, <2>2 DEF Owned, ReservedIsOwned
    <3> QED
      BY <1>2, <1>3, <3>1 DEF Handled
  <2> QED
    BY <2>1, <2>2
<1>5. ASSUME NEW s \in Sessions \ crossed' PROVE Single(s)' /\ Entered(s)'
  <2>1. Single(s) /\ Entered(s)
    BY <1>1, <1>5 DEF Owned, Alone
  <2>2. Single(s)'
    BY <1>2, <1>3, <2>1 DEF Single
  <2>3. Entered(s)'
    <3>1. CASE s = Sess(t)
      BY <1>1, <3>1 DEF Entered
    <3>2. CASE s # Sess(t)
      <4>1. map'[s].in = map[s].in
        BY <1>1, <3>2
      <4> QED
        BY <1>1, <1>2, <2>1, <3>2, <4>1 DEF Entered
    <3> QED
      BY <3>1, <3>2
  <2> QED
    BY <2>2, <2>3
<1> QED
  BY <1>4, <1>5 DEF Owned, ReservedIsOwned, Alone

(* A restart leaves no entry and no handler.                               *)
LEMMA RestartOwned ==
  ASSUME TypeOK, Numbered, Restart
  PROVE  Owned'
<1>1. /\ \A t \in Tasks : task'[t].pc \in {"none", "ended"}
      /\ \A s \in Sessions : ~map'[s].in
  BY RestartEffect
<1>2. \A t \in Tasks : ~Live(t)'
  BY <1>1 DEF Live, Owning
<1> QED
  BY <1>1, <1>2 DEF Owned, ReservedIsOwned, Alone, Single, Entered

(* Owned is inductive.                                                     *)
LEMMA OwnedStep ==
  ASSUME TypeOK, Numbered, Owned, Next
  PROVE  Owned'
BY StepCases, OwnedFrame, RunNowOwned, NotifyInsertsOwned, FinishOwned, ReserveOwned, RestartOwned
-----------------------------------------------------------------------------
(* The result of a delegate.                                               *)

(* Every task that waits goes on waiting.                                  *)
LEMMA AwaitedFrame ==
  ASSUME TypeOK, Numbered, Steady,
         \A t \in Tasks : task[t].pc \in Waiting => task'[t].pc \in Waiting
  PROVE  \A s \in Sessions : Awaited(s) => Awaited(s)'
<1> SUFFICES ASSUME NEW s \in Sessions, NEW t \in Tasks, task[t].pc \in Waiting, Sess(t) = s
             PROVE  Awaited(s)'
  BY DEF Awaited
<1>1. task[t].pc # "none"
  BY DEF Waiting
<1>2. Sess(t)' = s
  BY <1>1, SessSteady
<1> QED
  BY <1>2 DEF Awaited

(* A handler that waits, or holds its entry, is a handler.                 *)
LEMMA AwaitedHandled ==
  ASSUME NEW s \in Sessions
  PROVE  (Awaited(s) => Held(s)) /\ (Held(s) => Handled(s))
BY DEF Awaited, Held, Handled, Live, Owning, Waiting

(* A job's session and its place in the map stay the same.                 *)
LEMMA JobStays ==
  ASSUME TypeOK, Numbered, Steady, NEW j \in Jobs, job[j].kind = "delegate"
  PROVE  /\ job[j].state # "none" /\ job'[j].by = job[j].by /\ job'[j].kind = "delegate"
         /\ job[j].by \in Sessions
BY ParentTyped DEF Steady, Lasting, Numbered, Counted

(* What was reached stays so in a quiet step.                              *)
LEMMA ReachedFrame ==
  ASSUME TypeOK, Numbered, Steady, Quiet, taken \subseteq taken',
         \A s \in Sessions : map[s].q \subseteq map'[s].q \cup taken',
         NEW j \in Jobs, job[j].kind = "delegate"
  PROVE  Reached(j) => Reached(j)'
<1>1. job'[j].by = job[j].by /\ job[j].by \in Sessions
  BY JobStays
<1>2. Held(job[j].by)' <=> Held(job[j].by)
  <2> DEFINE s == job[j].by
  <2>1. PICK v \in Sessions : v = s
    BY <1>1
  <2>2. Held(v)' <=> Held(v)
    BY QuietFacts
  <2> QED
    BY <1>1, <2>1, <2>2 DEF Held
<1> QED
  BY <1>1, <1>2 DEF Reached

(* What a step has to leave alone of a delegate.                           *)
LEMMA ToldFrame ==
  ASSUME TypeOK, Numbered, Steady, NEW j \in Jobs, job[j].kind = "delegate", Told(j),
         job[j].by \notin crossed',
         \/ job'[j].state \in {"deleted", job[j].state}
         \/ Exists(j) /\ job[j].state # "active" /\ job'[j].state = "active",
         job'[j].result = job[j].result,
         Reached(j) => Reached(j)',
         job[j].state = "active" /\ Awaited(job[j].by) => \E s \in Sessions : s = job[j].by /\ Awaited(s)',
         \A n \in Runs : task'[Dispatch(j, n)].pc \in {"note_insert", "complete"} =>
                           task'[Dispatch(j, n)].pc = task[Dispatch(j, n)].pc
  PROVE  Told(j)'
<1>1. /\ job'[j].by = job[j].by /\ job[j].state # "none" /\ job[j].by \in Sessions
      /\ job[j].state \in {"active", "paused", "completed", "deleted"}
  BY JobStays DEF TypeOK, Row
<1>2. job'[j].state = "active" /\ ~job'[j].result => Awaited(job[j].by)'
  <2>1. SUFFICES ASSUME job'[j].state = "active", ~job'[j].result PROVE Awaited(job[j].by)'
    OBVIOUS
  <2>2. job[j].state = "active"
    BY <1>1, <2>1 DEF Told, Exists
  <2>3. PICK s \in Sessions : s = job[j].by /\ Awaited(s)'
    BY <2>1, <2>2 DEF Told
  <2> QED
    BY <1>1, <2>3 DEF Awaited
<1>3. job'[j].state # "paused" /\ (job'[j].state = "completed" => job'[j].result)
  BY <1>1 DEF Told
<1>4. job'[j].result => Reached(j)'
  BY DEF Told
<1>5. ASSUME NEW n \in Runs
      PROVE  /\ task'[Dispatch(j, n)].pc = "note_insert" =>
                  job'[j].result \/ job'[j].state = "deleted"
             /\ task'[Dispatch(j, n)].pc = "complete" =>
                  job'[j].result \/ job'[j].state = "deleted" \/ Reached(j)'
  <2>1. job[j].state = "deleted" => job'[j].state = "deleted"
    BY <1>1 DEF Exists
  <2> QED
    BY <2>1 DEF Told
<1>6. job'[j].by \notin crossed'
  BY <1>1
<1> QED
  BY <1>2, <1>3, <1>4, <1>5, <1>6 DEF Told

(* Results, when no job is created and none gets a result.                 *)
LEMMA ResultsFrame ==
  ASSUME TypeOK, Numbered, Results, Steady, excused \subseteq excused',
         \A j \in Jobs : job'[j].result = job[j].result /\ job'[j].kind = job[j].kind,
         \A j \in Jobs \ excused' : job[j].kind = "delegate" /\ Told(j) => Told(j)'
  PROVE  Results'
BY DEF Results

(* Results, when the step is quiet too, and notifies nobody.               *)
LEMMA CalmFrame ==
  ASSUME TypeOK, Numbered, Results, Steady, Quiet, excused \subseteq excused',
         taken \subseteq taken',
         \A s \in Sessions : map[s].q \subseteq map'[s].q \cup taken',
         \A j \in Jobs : job'[j].result = job[j].result /\ job'[j].kind = job[j].kind,
         \A j \in Jobs \ excused' : job[j].kind = "delegate" =>
            \/ job'[j].state \in {"deleted", job[j].state}
            \/ Exists(j) /\ job[j].state # "active" /\ job'[j].state = "active",
         \A t \in Dispatches : task'[t].pc \in {"note_insert", "complete"} =>
                                 task'[t].pc = task[t].pc,
         \A t \in Tasks : task[t].pc \in Waiting =>
            \/ task'[t].pc \in Waiting
            \/ \A j \in Jobs \ excused' : job[j].kind = "delegate" /\ job[j].state = "active" =>
                                            job[j].by # Sess(t)
  PROVE  Results'
<1>1. ASSUME NEW j \in Jobs \ excused', job[j].kind = "delegate", Told(j) PROVE Told(j)'
  <2>1. Reached(j) => Reached(j)'
    BY <1>1, ReachedFrame
  <2>2. job[j].by \notin crossed' /\ job[j].by \in Sessions
    BY <1>1, JobStays DEF Told, Quiet
  <2>3. ASSUME job[j].state = "active", Awaited(job[j].by)
        PROVE  \E s \in Sessions : s = job[j].by /\ Awaited(s)'
    <3>1. PICK t \in Tasks : task[t].pc \in Waiting /\ Sess(t) = job[j].by
      BY <2>3 DEF Awaited
    <3>2. task'[t].pc \in Waiting
      BY <1>1, <2>3, <3>1
    <3>3. Sess(t)' = Sess(t)
      BY <3>1, SessSteady DEF Waiting
    <3>4. PICK s \in Sessions : s = job[j].by
      BY <2>2
    <3>5. Awaited(s)'
      BY <3>1, <3>2, <3>3, <3>4 DEF Awaited
    <3> QED
      BY <3>4, <3>5
  <2>4. \A n \in Runs : task'[Dispatch(j, n)].pc \in {"note_insert", "complete"} =>
                          task'[Dispatch(j, n)].pc = task[Dispatch(j, n)].pc
    BY DispatchFacts
  <2> QED
    BY <1>1, <2>1, <2>2, <2>3, <2>4, ToldFrame
<1> QED
  BY <1>1, ResultsFrame

(* A handler starts: the entry it replaces was nobody's.                   *)
LEMMA RunNowResults ==
  ASSUME TypeOK, Numbered, Owned, Results, NEW t \in Tasks, RunNow(t)
  PROVE  Results'
<1>1. /\ task[t].pc = "insert" /\ task'[t].pc = "turn"
      /\ \A u \in Tasks \ {t} : task'[u] = task[u]
      /\ \A s \in Sessions \ {Sess(t)} : map'[s] = map[s]
      /\ taken \subseteq taken' /\ Inserted(Sess(t)) /\ job' = job /\ Steady
  BY RunNowEffect
<1>2. /\ Sess(t)' = Sess(t) /\ Sess(t) \in Sessions
      /\ \A u \in Tasks \ {t} : (Live(u)' <=> Live(u)) /\ (Live(u) => Sess(u)' = Sess(u))
  BY <1>1, MovedFacts
<1>3. /\ crossed' \subseteq crossed \cup {Sess(t)} /\ excused \subseteq excused'
      /\ Handled(Sess(t)) => CreatedBy(Sess(t)) \subseteq excused'
      /\ ~Handled(Sess(t)) => crossed' = crossed
  BY <1>1, <1>2, InsertedFacts
<1>4. \A s \in Sessions : Awaited(s) => Awaited(s)'
  <2>1. \A u \in Tasks : task[u].pc \in Waiting => task'[u].pc \in Waiting
    BY <1>1 DEF Waiting
  <2> QED
    BY <1>1, <2>1, AwaitedFrame
<1>5. ASSUME NEW j \in Jobs \ excused', job[j].kind = "delegate", Told(j) PROVE Told(j)'
  <2>1. job[j].state # "none" /\ job[j].by \in Sessions
    BY <1>1, <1>5, JobStays
  <2>2. PICK b \in Sessions : b = job[j].by
    BY <2>1
  <2>3. b = Sess(t) => ~Handled(b)
    BY <1>3, <1>5, <2>1, <2>2 DEF CreatedBy
  <2>4. b \notin crossed'
    BY <1>3, <1>5, <2>2, <2>3 DEF Told
  <2>5. Reached(j) => Reached(j)'
    <3>1. ASSUME b # Sess(t), Held(b) PROVE Held(b)'
      <4>1. PICK u \in Tasks : Live(u) /\ task[u].pc # "reserve" /\ Sess(u) = b
        BY <3>1 DEF Held
      <4>2. u # t
        BY <1>1, <4>1 DEF Live, Owning
      <4> QED
        BY <1>1, <1>2, <4>1, <4>2 DEF Held
    <3>2. b # Sess(t) => map'[b] = map[b]
      BY <1>1
    <3>3. b = Sess(t) => ~Held(b)
      BY <2>3, AwaitedHandled
    <3>4. (Held(job[j].by)' <=> Held(b)') /\ (Held(job[j].by) <=> Held(b)) /\ job'[j].by = b
      BY <1>1, <2>2 DEF Held
    <3> QED
      BY <1>1, <2>2, <3>1, <3>2, <3>3, <3>4 DEF Reached
  <2>6. \A n \in Runs : task'[Dispatch(j, n)].pc \in {"note_insert", "complete"} =>
                          task'[Dispatch(j, n)].pc = task[Dispatch(j, n)].pc
    BY <1>1, DispatchFacts
  <2>7. Awaited(job[j].by) => Awaited(b)'
    BY <1>4, <2>2 DEF Awaited
  <2> QED
    BY <1>1, <1>5, <2>2, <2>4, <2>5, <2>6, <2>7, ToldFrame
<1> QED
  BY <1>1, <1>3, <1>5, ResultsFrame

(* A scheduled event notifies its parent, who waits for it.                *)
LEMMA NotifyResults ==
  ASSUME TypeOK, Numbered, Owned, Results, NEW t \in Tasks, NotifyParent(t)
  PROVE  Results'
<1> DEFINE p == Parent(t)
           i == t[2]
           m == t[3]
<1>1. /\ task[t].pc = "turn" /\ i \in Jobs /\ m \in Runs /\ t = Dispatch(i, m)
      /\ p \in Sessions /\ p = job[i].by
      /\ \/ map[p].in /\ task'[t].pc = "complete" /\ Note(i, m) \in map'[p].q
         \/ ~map[p].in /\ task'[t].pc = "note_insert"
      /\ \A u \in Tasks \ {t} : task'[u] = task[u]
      /\ \A s \in Sessions : map[s].q \subseteq map'[s].q
      /\ UNCHANGED <<job, taken, crossed, excused>> /\ Steady
  BY NotifyEffect DEF Known, Parent
<1> HIDE DEF p, i, m
<1>2. Quiet
  <2>1. StaysLive(t)
    BY <1>1 DEF StaysLive, Owning
  <2> QED
    BY <2>1, NotifyEffect, QuietMove
<1>3. \A s \in Sessions : Awaited(s) => Awaited(s)'
  <2>1. \A u \in Tasks : task[u].pc \in Waiting => task'[u].pc \in Waiting
    BY <1>1 DEF Waiting
  <2> QED
    BY <1>1, <2>1, AwaitedFrame
<1>4. ASSUME NEW j \in Jobs \ excused', job[j].kind = "delegate", Told(j) PROVE Told(j)'
  <2>1. job[j].by \in Sessions /\ job[j].state # "none" /\ job[j].by \notin crossed
    BY <1>1, <1>4, JobStays DEF Told
  <2>2. PICK b \in Sessions : b = job[j].by
    BY <2>1
  <2>3. Awaited(job[j].by) => Awaited(b)'
    BY <1>3, <2>2 DEF Awaited
  <2>4. Reached(j) => Reached(j)'
    BY <1>1, <1>2, <1>4, ReachedFrame
  <2>5. CASE j # i
    <3>1. \A n \in Runs : task'[Dispatch(j, n)].pc = task[Dispatch(j, n)].pc
      BY <1>1, <2>5, DispatchFacts, DispatchOne
    <3> QED
      BY <1>1, <1>4, <2>1, <2>2, <2>3, <2>4, <3>1, ToldFrame
  <2>6. CASE j = i
    <3>1. p = b /\ job' = job
      BY <1>1, <2>2, <2>6
    <3>2. Awaited(b) => map[b].in /\ Held(b)'
      <4>1. Awaited(b) => map[b].in
        <5>1. Entered(b)
          BY <2>1, <2>2 DEF Owned, Alone
        <5> QED
          BY <5>1 DEF Awaited, Entered, Live, Owning, Waiting
      <4> QED
        BY <1>3, <4>1, AwaitedHandled DEF Awaited, Held, Live, Owning, Waiting
    <3>3. job[j].state \in {"active", "completed", "deleted"}
      BY <1>4, <2>1 DEF Told, TypeOK, Row
    <3>4. job[j].result \/ job[j].state = "deleted" \/ Awaited(b)
      <4>1. Awaited(job[j].by) => Awaited(b)
        BY <2>2 DEF Awaited
      <4> QED
        BY <1>4, <3>3, <4>1 DEF Told
    <3>5. ASSUME task'[t].pc = "note_insert" PROVE job[j].result \/ job[j].state = "deleted"
      BY <1>1, <3>1, <3>2, <3>4, <3>5
    <3>6. ASSUME task'[t].pc = "complete"
          PROVE  job[j].result \/ job[j].state = "deleted" \/ Reached(j)'
      <4>1. CASE Awaited(b)
        <5>1. Held(b)' /\ Note(j, m) \in map'[b].q
          BY <1>1, <2>6, <3>1, <3>2, <3>6, <4>1
        <5>2. (Held(job[j].by)' <=> Held(b)') /\ job'[j].by = b
          BY <2>2, <3>1 DEF Held
        <5> QED
          BY <1>1, <5>1, <5>2 DEF Reached
      <4> QED
        BY <3>4, <4>1
    <3>7. ASSUME NEW n \in Runs
          PROVE  /\ task'[Dispatch(j, n)].pc = "note_insert" =>
                      job'[j].result \/ job'[j].state = "deleted"
                 /\ task'[Dispatch(j, n)].pc = "complete" =>
                      job'[j].result \/ job'[j].state = "deleted" \/ Reached(j)'
      <4>1. CASE Dispatch(j, n) = t
        BY <3>1, <3>5, <3>6, <4>1
      <4>2. CASE Dispatch(j, n) # t
        <5>1. task'[Dispatch(j, n)] = task[Dispatch(j, n)]
          BY <1>1, <4>2, DispatchFacts
        <5> QED
          BY <1>4, <2>4, <3>1, <5>1 DEF Told
      <4> QED
        BY <4>1, <4>2
    <3>8. job'[j].state = "active" /\ ~job'[j].result => Awaited(job[j].by)'
      <4>1. Awaited(b)' => Awaited(job[j].by)'
        BY <2>2, <3>1 DEF Awaited
      <4> QED
        BY <1>4, <2>3, <3>1, <4>1 DEF Told
    <3> QED
      BY <1>1, <1>4, <2>4, <3>1, <3>7, <3>8 DEF Told
  <2> QED
    BY <2>5, <2>6
<1> QED
  BY <1>1, <1>4, ResultsFrame

(* A notification inserts an entry where nobody waits.                     *)
LEMMA NotifyInsertsResults ==
  ASSUME TypeOK, Numbered, Owned, Results, NEW t \in Tasks, NotifyInserts(t)
  PROVE  Results'
<1> DEFINE p == Parent(t)
           i == t[2]
           m == t[3]
<1>1. /\ task[t].pc = "note_insert" /\ task'[t].pc = "complete"
      /\ i \in Jobs /\ m \in Runs /\ t = Dispatch(i, m)
      /\ p \in Sessions /\ \A s \in Sessions \ {p} : map'[s] = map[s]
      /\ \A u \in Tasks \ {t} : task'[u] = task[u]
      /\ Inserted(p) /\ UNCHANGED <<job, taken>> /\ Steady
  BY NotifyInsertsEffect
<1> HIDE DEF p, i, m
<1>2. /\ Sess(t)' = Sess(t)
      /\ \A u \in Tasks \ {t} : (Live(u)' <=> Live(u)) /\ (Live(u) => Sess(u)' = Sess(u))
  BY <1>1, MovedFacts
<1>3. /\ crossed' \subseteq crossed \cup {p} /\ excused \subseteq excused'
      /\ Handled(p) => CreatedBy(p) \subseteq excused'
      /\ ~Handled(p) => crossed' = crossed
  BY <1>1, InsertedFacts
<1>4. \A s \in Sessions : Awaited(s) => Awaited(s)'
  <2>1. \A u \in Tasks : task[u].pc \in Waiting => task'[u].pc \in Waiting
    BY <1>1 DEF Waiting
  <2> QED
    BY <1>1, <2>1, AwaitedFrame
<1>5. ASSUME NEW j \in Jobs \ excused', job[j].kind = "delegate", Told(j) PROVE Told(j)'
  <2>1. job[j].state # "none" /\ job[j].by \in Sessions
    BY <1>1, <1>5, JobStays
  <2>2. PICK b \in Sessions : b = job[j].by
    BY <2>1
  <2>3. b = p => ~Handled(b)
    BY <1>3, <1>5, <2>1, <2>2 DEF CreatedBy
  <2>4. b \notin crossed'
    BY <1>3, <1>5, <2>2, <2>3 DEF Told
  <2>5. Reached(j) => Reached(j)'
    <3>1. ASSUME Held(b) PROVE Held(b)'
      <4>1. PICK u \in Tasks : Live(u) /\ task[u].pc # "reserve" /\ Sess(u) = b
        BY <3>1 DEF Held
      <4>2. Live(t)' /\ task'[t].pc # "reserve"
        BY <1>1 DEF Live, Owning
      <4> QED
        BY <1>1, <1>2, <4>1, <4>2 DEF Held
    <3>2. b # p => map'[b] = map[b]
      BY <1>1
    <3>3. b = p => ~Held(b)
      BY <2>3, AwaitedHandled
    <3>4. (Held(job[j].by)' <=> Held(b)') /\ (Held(job[j].by) <=> Held(b)) /\ job'[j].by = b
      BY <1>1, <2>2 DEF Held
    <3> QED
      BY <1>1, <2>2, <3>1, <3>2, <3>3, <3>4 DEF Reached
  <2>6. Awaited(job[j].by) => Awaited(b)'
    BY <1>4, <2>2 DEF Awaited
  <2>7. CASE j # i
    <3>1. \A n \in Runs : task'[Dispatch(j, n)].pc = task[Dispatch(j, n)].pc
      BY <1>1, <2>7, DispatchFacts, DispatchOne
    <3> QED
      BY <1>1, <1>5, <2>2, <2>4, <2>5, <2>6, <3>1, ToldFrame
  <2>8. CASE j = i
    <3>1. job[j].result \/ job[j].state = "deleted"
      BY <1>1, <1>5, <2>8 DEF Told
    <3>2. job' = job
      BY <1>1
    <3>3. job'[j].state = "active" /\ ~job'[j].result => Awaited(job[j].by)'
      BY <3>1, <3>2
    <3>4. job'[j].by \notin crossed'
      BY <2>2, <2>4, <3>2
    <3> QED
      BY <1>1, <1>5, <2>5, <3>1, <3>2, <3>3, <3>4 DEF Told
  <2> QED
    BY <2>7, <2>8
<1> QED
  BY <1>1, <1>3, <1>5, ResultsFrame

(* A handler finishes: what was queued is its next turn.                   *)
LEMMA FinishResults ==
  ASSUME TypeOK, Numbered, Owned, Results, NEW t \in Tasks, FinishTurn(t)
  PROVE  Results'
<1>1. /\ task[t].pc = "finish" /\ task'[t].pc \in {"reserve", "ended"}
      /\ \A u \in Tasks \ {t} : task'[u] = task[u]
      /\ \A s \in Sessions \ {Sess(t)} : map'[s] = map[s]
      /\ taken \subseteq taken' /\ map[Sess(t)].q \subseteq taken'
      /\ crossed' \subseteq crossed /\ UNCHANGED <<job, excused>> /\ Steady
  BY FinishEffect
<1>2. /\ Sess(t)' = Sess(t) /\ Sess(t) \in Sessions
      /\ \A u \in Tasks \ {t} : (Live(u)' <=> Live(u)) /\ (Live(u) => Sess(u)' = Sess(u))
  BY <1>1, MovedFacts
<1>3. \A s \in Sessions : Awaited(s) => Awaited(s)'
  <2>1. \A u \in Tasks : task[u].pc \in Waiting => task'[u].pc \in Waiting
    BY <1>1 DEF Waiting
  <2> QED
    BY <1>1, <2>1, AwaitedFrame
<1>4. ASSUME NEW j \in Jobs \ excused', job[j].kind = "delegate", Told(j) PROVE Told(j)'
  <2>1. job[j].by \in Sessions
    BY <1>1, <1>4, JobStays
  <2>2. PICK b \in Sessions : b = job[j].by
    BY <2>1
  <2>3. b \notin crossed'
    BY <1>1, <1>4, <2>2 DEF Told
  <2>4. Reached(j) => Reached(j)'
    <3>1. ASSUME b # Sess(t), Held(b) PROVE Held(b)'
      <4>1. PICK u \in Tasks : Live(u) /\ task[u].pc # "reserve" /\ Sess(u) = b
        BY <3>1 DEF Held
      <4>2. u # t
        BY <3>1, <4>1
      <4> QED
        BY <1>1, <1>2, <4>1, <4>2 DEF Held
    <3>2. b # Sess(t) => map'[b] = map[b]
      BY <1>1
    <3>3. (Held(job[j].by)' <=> Held(b)') /\ (Held(job[j].by) <=> Held(b)) /\ job'[j].by = b
      BY <1>1, <2>2 DEF Held
    <3> QED
      BY <1>1, <2>2, <3>1, <3>2, <3>3 DEF Reached
  <2>5. \A n \in Runs : task'[Dispatch(j, n)].pc \in {"note_insert", "complete"} =>
                          task'[Dispatch(j, n)].pc = task[Dispatch(j, n)].pc
    BY <1>1, DispatchFacts
  <2>6. Awaited(job[j].by) => Awaited(b)'
    BY <1>3, <2>2 DEF Awaited
  <2> QED
    BY <1>1, <1>4, <2>2, <2>3, <2>4, <2>5, <2>6, ToldFrame
<1> QED
  BY <1>1, <1>4, ResultsFrame

(* A handler puts its entry back; in its session it is alone.              *)
LEMMA ReserveResults ==
  ASSUME TypeOK, Numbered, Owned, Results, NEW t \in Tasks, Reserve(t)
  PROVE  Results'
<1>1. /\ task[t].pc = "reserve" /\ task'[t].pc = "turn"
      /\ \A u \in Tasks \ {t} : task'[u] = task[u]
      /\ \A s \in Sessions \ {Sess(t)} : map'[s] = map[s]
      /\ UNCHANGED <<job, taken, crossed, excused>> /\ Steady
  BY ReserveEffect DEF Known
<1>2. /\ Sess(t)' = Sess(t) /\ Sess(t) \in Sessions
      /\ \A u \in Tasks \ {t} : (Live(u)' <=> Live(u)) /\ (Live(u) => Sess(u)' = Sess(u))
  BY <1>1, MovedFacts
<1>3. \A s \in Sessions : Awaited(s) => Awaited(s)'
  <2>1. \A u \in Tasks : task[u].pc \in Waiting => task'[u].pc \in Waiting
    BY <1>1 DEF Waiting
  <2> QED
    BY <1>1, <2>1, AwaitedFrame
<1>4. ASSUME NEW j \in Jobs \ excused', job[j].kind = "delegate", Told(j) PROVE Told(j)'
  <2>1. job[j].by \in Sessions /\ job[j].by \notin crossed
    BY <1>1, <1>4, JobStays DEF Told
  <2>2. PICK b \in Sessions : b = job[j].by
    BY <2>1
  <2>3. b \notin crossed' /\ b \notin crossed
    BY <1>1, <2>1, <2>2
  <2>4. Reached(j) => Reached(j)'
    <3>1. ASSUME b # Sess(t), Held(b) PROVE Held(b)'
      <4>1. PICK u \in Tasks : Live(u) /\ task[u].pc # "reserve" /\ Sess(u) = b
        BY <3>1 DEF Held
      <4>2. u # t
        BY <3>1, <4>1
      <4> QED
        BY <1>1, <1>2, <4>1, <4>2 DEF Held
    <3>2. b # Sess(t) => map'[b] = map[b]
      BY <1>1
    <3>3. b = Sess(t) => ~Held(b)
      <4>1. Single(b)
        BY <2>3 DEF Owned, Alone
      <4>2. Live(t)
        BY <1>1 DEF Live, Owning
      <4> QED
        BY <1>1, <4>1, <4>2 DEF Single, Held
    <3>4. (Held(job[j].by)' <=> Held(b)') /\ (Held(job[j].by) <=> Held(b)) /\ job'[j].by = b
      BY <1>1, <2>2 DEF Held
    <3> QED
      BY <1>1, <2>2, <3>1, <3>2, <3>3, <3>4 DEF Reached
  <2>5. \A n \in Runs : task'[Dispatch(j, n)].pc \in {"note_insert", "complete"} =>
                          task'[Dispatch(j, n)].pc = task[Dispatch(j, n)].pc
    BY <1>1, DispatchFacts
  <2>6. Awaited(job[j].by) => Awaited(b)'
    BY <1>3, <2>2 DEF Awaited
  <2> QED
    BY <1>1, <1>4, <2>2, <2>3, <2>4, <2>5, <2>6, ToldFrame
<1> QED
  BY <1>1, <1>4, ResultsFrame

(* A delegate is completed after its parent was notified.                  *)
LEMMA CompleteResults ==
  ASSUME TypeOK, Numbered, Owned, Results, NEW t \in Tasks, CompleteDelegate(t)
  PROVE  Results'
<1> DEFINE i == t[2]
           m == t[3]
<1>1. /\ task[t].pc = "complete" /\ task'[t].pc = "drain"
      /\ i \in Jobs /\ m \in Runs /\ t = Dispatch(i, m)
      /\ \A u \in Tasks \ {t} : task'[u] = task[u]
      /\ \/ job' = job
         \/ job' = Slip(i)
         \/ /\ Exists(i) /\ job[i].kind = "delegate"
            /\ job' = [job EXCEPT ![i].state = "completed", ![i].run = "no", ![i].result = TRUE]
      /\ UNCHANGED <<map, taken, crossed, excused>> /\ Steady
  BY CompleteEffect DEF Known
<1> HIDE DEF i, m
<1>2. Quiet
  <2>1. StaysLive(t) /\ map' = map
    BY <1>1 DEF StaysLive, Owning
  <2> QED
    BY <2>1, CompleteEffect, QuietMove
<1>3. \A u \in Tasks : task[u].pc \in Waiting => task'[u].pc \in Waiting
  BY <1>1 DEF Waiting
<1>4. \A u \in Tasks : task'[u].pc \in {"note_insert", "complete"} => task'[u].pc = task[u].pc
  BY <1>1
<1>5. CASE job' = job \/ job' = Slip(i)
  <2>1. \A j \in Jobs : /\ job'[j].result = job[j].result /\ job'[j].kind = job[j].kind
                        /\ job'[j].state = job[j].state
    <3>1. CASE job' = Slip(i)
      BY <1>1, <3>1, SlipRow DEF Slip
    <3> QED
      BY <1>5, <3>1
  <2>2. \A u \in Dispatches : task'[u].pc \in {"note_insert", "complete"} =>
                                task'[u].pc = task[u].pc
    BY <1>4, DispatchIs
  <2> QED
    BY <1>1, <1>2, <1>3, <2>1, <2>2, CalmFrame
<1>6. CASE /\ Exists(i) /\ job[i].kind = "delegate"
           /\ job' = [job EXCEPT ![i].state = "completed", ![i].run = "no", ![i].result = TRUE]
  <2>1. /\ job'[i].state = "completed" /\ job'[i].kind = job[i].kind /\ job'[i].by = job[i].by
        /\ job'[i].result /\ \A j \in Jobs \ {i} : job'[j] = job[j]
    BY <1>1, <1>6, ResultRow
  <2>2. ASSUME NEW j \in Jobs \ excused', job'[j].kind = "delegate" PROVE Told(j)'
    <3>1. job[j].kind = "delegate" /\ job'[j].by = job[j].by
      BY <2>1, <2>2
    <3>2. Told(j) /\ job[j].by \in Sessions
      BY <1>1, <2>2, <3>1, JobStays DEF Results
    <3>3. Reached(j) => Reached(j)'
      BY <1>1, <1>2, <3>1, ReachedFrame
    <3>4. job'[j].by \notin crossed'
      BY <1>1, <3>1, <3>2 DEF Told
    <3>5. CASE j = i
      <4>1. job[j].result \/ Reached(j)
        BY <1>1, <1>6, <3>2, <3>5 DEF Told, Exists
      <4>2. Reached(j)'
        BY <3>2, <3>3, <4>1 DEF Told
      <4>3. job'[j].result /\ job'[j].state = "completed"
        BY <2>1, <3>5
      <4> QED
        BY <3>4, <4>2, <4>3 DEF Told
    <3>6. CASE j # i
      <4>1. job'[j] = job[j]
        BY <2>1, <3>6
      <4>2. PICK b \in Sessions : b = job[j].by
        BY <3>2
      <4>3. Awaited(job[j].by) => Awaited(b)'
        <5>1. Awaited(b) => Awaited(b)'
          BY <1>1, <1>3, AwaitedFrame
        <5> QED
          BY <4>2, <5>1 DEF Awaited
      <4>4. \A n \in Runs : task'[Dispatch(j, n)].pc \in {"note_insert", "complete"} =>
                              task'[Dispatch(j, n)].pc = task[Dispatch(j, n)].pc
        BY <1>4, DispatchFacts
      <4> QED
        BY <1>1, <3>1, <3>2, <3>3, <3>4, <4>1, <4>2, <4>3, <4>4, ToldFrame
    <3> QED
      BY <3>5, <3>6
  <2>3. \A j \in Jobs : job'[j].result => job'[j].kind = "delegate"
    BY <1>6, <2>1 DEF Results
  <2> QED
    BY <2>2, <2>3 DEF Results
<1> QED
  BY <1>1, <1>5, <1>6

(* The session that creates a delegate waits for it.                       *)
LEMMA CreateResults ==
  ASSUME TypeOK, Numbered, Owned, Results, NEW t \in Tasks, NEW new \in Asked, CreateJob(t, new)
  PROVE  Results'
<1>1. PICK i \in Jobs :
         /\ task[t].pc = "turn" /\ Sess(t) \in Sessions
         /\ job[i].state = "none" /\ job[i].kind = "none"
         /\ job'[i].state = "active" /\ job'[i].by = Sess(t) /\ job'[i].kind \in Kinds
         /\ ~job'[i].result /\ job'[i].sent = 0
         /\ \A j \in Jobs \ {i} : job'[j] = job[j]
         /\ excused' = (IF Sess(t) \in crossed THEN excused \cup {i} ELSE excused)
         /\ UNCHANGED <<map, task, taken, crossed>>
         /\ Steady
  BY CreateEffect
<1>2. Quiet
  BY <1>1, QuietStay
<1>3. \A s \in Sessions : Awaited(s) => Awaited(s)'
  BY <1>1, AwaitedFrame
<1>4. ASSUME NEW j \in Jobs \ excused', job'[j].kind = "delegate" PROVE Told(j)'
  <2>1. CASE j = i
    <3>1. Sess(t) \notin crossed
      BY <1>1, <1>4, <2>1
    <3>2. Sess(t)' = Sess(t) /\ task'[t].pc = "turn"
      BY <1>1, SessSteady
    <3>3. Awaited(job[j].by)'
      BY <1>1, <2>1, <3>2 DEF Awaited, Waiting
    <3>4. \A n \in Runs : task'[Dispatch(j, n)].pc = "none"
      <4>1. \A n \in Runs : n > job'[j].sent
        BY <1>1, <2>1 DEF Runs
      <4>2. Counted(j)'
        BY <1>1 DEF Steady, Numbered
      <4> QED
        BY <4>1, <4>2 DEF Counted, Runs
    <3> QED
      BY <1>1, <2>1, <3>1, <3>3, <3>4 DEF Told
  <2>2. CASE j # i
    <3>1. job'[j] = job[j] /\ j \notin excused /\ job[j].kind = "delegate"
      BY <1>1, <1>4, <2>2
    <3>2. Told(j) /\ job[j].by \in Sessions
      BY <1>1, <3>1, JobStays DEF Results
    <3>3. Reached(j) => Reached(j)'
      BY <1>1, <1>2, <3>1, ReachedFrame
    <3>4. PICK b \in Sessions : b = job[j].by
      BY <3>2
    <3>5. Awaited(job[j].by) => Awaited(b)'
      BY <1>3, <3>4 DEF Awaited
    <3>6. job[j].by \notin crossed'
      BY <1>1, <3>2 DEF Told
    <3> QED
      BY <1>1, <3>1, <3>2, <3>3, <3>4, <3>5, <3>6, ToldFrame
  <2> QED
    BY <2>1, <2>2
<1>5. \A j \in Jobs : job'[j].result => job'[j].kind = "delegate"
  BY <1>1 DEF Results
<1> QED
  BY <1>4, <1>5 DEF Results

(* A restart excuses every job there is.                                   *)
LEMMA RestartResults ==
  ASSUME TypeOK, Numbered, Results, Restart
  PROVE  Results'
<1>1. \A j \in Jobs : /\ job'[j].result = job[j].result /\ job'[j].kind = job[j].kind
                      /\ job'[j].state = job[j].state
  BY RestartEffect
<1>2. excused' = excused \cup {j \in Jobs : job[j].state # "none"} /\ Steady
  BY RestartEffect
<1>3. \A j \in Jobs \ excused' : job'[j].kind # "delegate"
  BY <1>1, <1>2 DEF Numbered, Counted
<1> QED
  BY <1>1, <1>3 DEF Results

(* A step that touches no task and no result, and completes and pauses no job. *)
LEMMA StillResults ==
  ASSUME TypeOK, Numbered, Results, Steady, UNCHANGED <<map, task, taken, crossed>>,
         excused \subseteq excused',
         \A j \in Jobs : job'[j].result = job[j].result /\ job'[j].kind = job[j].kind,
         \A j \in Jobs \ excused' : job[j].kind = "delegate" =>
            \/ job'[j].state \in {"deleted", job[j].state}
            \/ Exists(j) /\ job[j].state # "active" /\ job'[j].state = "active"
  PROVE  Results'
BY QuietStay, CalmFrame

(* Every action keeps the results on their way.                            *)
LEMMA ResultsStep ==
  ASSUME TypeOK, Numbered, Owned, Results, Next
  PROVE  Results'
<1>1. ASSUME InjectMessage PROVE Results'
  <2>1. PICK m \in Messages : /\ task[m].pc = "none" /\ task'[m].pc = "submit"
                              /\ \A u \in Tasks \ {m} : task'[u] = task[u]
    BY <1>1, InjectEffect
  <2>2. m \in Tasks /\ StaysIdle(m)
    BY <2>1 DEF Tasks, StaysIdle, Owning
  <2>3. Quiet /\ Steady /\ UNCHANGED <<map, job, taken, excused>>
    BY <1>1, <2>1, <2>2, InjectEffect, QuietMove DEF Known
  <2>4. \A u \in Tasks : /\ task[u].pc \in Waiting => task'[u].pc \in Waiting
                         /\ task'[u].pc \in {"note_insert", "complete"} => task'[u].pc = task[u].pc
    BY <2>1 DEF Waiting
  <2> QED
    BY <2>3, <2>4, DispatchIs, CalmFrame
<1>2. ASSUME NEW t \in Tasks, SubmitOrQueue(t) PROVE Results'
  <2>1. /\ task[t].pc = "submit" /\ task'[t].pc \in {"ended", "insert"}
        /\ \A u \in Tasks \ {t} : task'[u] = task[u]
        /\ \A s \in Sessions : /\ map'[s].in = map[s].in /\ map'[s].stray = map[s].stray
                               /\ map[s].q \subseteq map'[s].q
        /\ job' = job \/ (t \notin Messages /\ job' = Slip(t[2]))
        /\ Known /\ Steady /\ taken' = taken /\ excused' = excused
    BY <1>2, SubmitEffect DEF Known
  <2>2. Quiet
    BY <2>1, QuietMove DEF StaysIdle, Owning
  <2>3. \A j \in Jobs : /\ job'[j].result = job[j].result /\ job'[j].kind = job[j].kind
                        /\ job'[j].state = job[j].state
    <3>1. CASE t \notin Messages /\ job' = Slip(t[2])
      <4>1. t[2] \in Jobs
        BY <3>1, TaskCases, DispatchIs
      <4> QED
        BY <3>1, <4>1, SlipRow DEF Slip
    <3> QED
      BY <2>1, <3>1
  <2>4. \A u \in Tasks : /\ task[u].pc \in Waiting => task'[u].pc \in Waiting
                         /\ task'[u].pc \in {"note_insert", "complete"} => task'[u].pc = task[u].pc
    BY <2>1 DEF Waiting
  <2> QED
    BY <2>1, <2>2, <2>3, <2>4, DispatchIs, CalmFrame
<1>3. ASSUME NEW t \in Tasks, RunNow(t) PROVE Results'
  BY <1>3, RunNowResults
<1>4. ASSUME NEW t \in Tasks, NotifyParent(t) PROVE Results'
  BY <1>4, NotifyResults
<1>5. ASSUME NEW t \in Tasks, NotifyInserts(t) PROVE Results'
  BY <1>5, NotifyInsertsResults
<1>6. ASSUME NEW t \in Tasks, CompleteDelegate(t) PROVE Results'
  BY <1>6, CompleteResults
<1>7. ASSUME NEW t \in Tasks, DrainQueued(t) PROVE Results'
  <2>1. /\ task[t].pc \in {"turn", "drain", "redrain"}
        /\ task'[t].pc \in {"turn", "finish", "delegates"}
        /\ task[t].pc # "redrain" => task'[t].pc \in {"turn", "delegates"}
        /\ \A u \in Tasks \ {t} : task'[u] = task[u]
        /\ \A s \in Sessions : /\ map'[s].in = map[s].in /\ map'[s].stray = map[s].stray
                               /\ map[s].q \subseteq map'[s].q \cup taken'
        /\ taken \subseteq taken' /\ job' = job /\ Known /\ Steady /\ excused' = excused
    BY <1>7, DrainEffect DEF Known, AtDrain
  <2>2. Quiet
    BY <2>1, QuietMove DEF StaysLive, Owning
  <2>3. \A u \in Tasks : /\ task[u].pc \in Waiting => task'[u].pc \in Waiting
                         /\ task'[u].pc \in {"note_insert", "complete"} => task'[u].pc = task[u].pc
    BY <2>1 DEF Waiting
  <2> QED
    BY <2>1, <2>2, <2>3, DispatchIs, CalmFrame
<1>8. ASSUME NEW t \in Tasks, CheckIdle(t) PROVE Results'
  <2>1. /\ task[t].pc = "delegates" /\ task'[t].pc \in {"drain", "redrain", "finish"}
        /\ \A u \in Tasks \ {t} : task'[u] = task[u]
        /\ \/ task'[t].pc = "drain"
           \/ ActiveDelegates(Sess(t)) = {}
           \/ ActiveDelegates(Sess(t)) \subseteq excused'
        /\ excused \subseteq excused'
        /\ UNCHANGED <<map, job, taken, crossed>> /\ Steady
    BY <1>8, CheckIdleEffect
  <2>2. Quiet
    BY <2>1 DEF Quiet, Live, Owning
  <2>3. \A u \in Tasks : task'[u].pc \in {"note_insert", "complete"} => task'[u].pc = task[u].pc
    BY <2>1
  <2>4. ASSUME NEW u \in Tasks, task[u].pc \in Waiting
        PROVE  \/ task'[u].pc \in Waiting
               \/ \A j \in Jobs \ excused' :
                    job[j].kind = "delegate" /\ job[j].state = "active" => job[j].by # Sess(u)
    <3>1. CASE u # t
      BY <2>1, <2>4, <3>1
    <3>2. CASE u = t
      BY <2>1, <3>2 DEF ActiveDelegates, Waiting
    <3> QED
      BY <3>1, <3>2
  <2> QED
    BY <2>1, <2>2, <2>3, <2>4, DispatchIs, CalmFrame
<1>9. ASSUME NEW t \in Tasks, FinishTurn(t) PROVE Results'
  BY <1>9, FinishResults
<1>10. ASSUME NEW t \in Tasks, Reserve(t) PROVE Results'
  BY <1>10, ReserveResults
<1>11. ASSUME NEW t \in Tasks, NEW new \in Asked, CreateJob(t, new) PROVE Results'
  BY <1>11, CreateResults
<1>12. ASSUME NEW t \in Tasks, NEW j \in Jobs, ManageJob(t, j) PROVE Results'
  BY <1>12, ManageEffect, StillResults
<1>13. ASSUME (\E t \in Tasks : SpawnProcess(t)) \/ (\E s \in Sessions : ProcessEnds(s))
       PROVE  Results'
  BY <1>13, ProcessEffect, StillResults
<1>14. ASSUME ListDue PROVE Results'
  BY <1>14, ListEffect, StillResults DEF Known
<1>15. ASSUME NEW j \in Jobs, FastForward(j) PROVE Results'
  BY <1>15, FastForwardEffect, StillResults DEF Known
<1>16. ASSUME NEW j \in Jobs, AdvanceNextRun(j) PROVE Results'
  BY <1>16, AdvanceEffect, StillResults DEF Known, Same
<1>17. ASSUME AgentMissing PROVE Results'
  <2> DEFINE i == sched.job
  <2>1. /\ i \in Jobs
        /\ \/ job' = job
           \/ job' = [job EXCEPT ![i].state = "completed", ![i].run = "no"]
        /\ excused' = excused \cup {i} /\ UNCHANGED <<map, task, taken, crossed>> /\ Steady
    BY <1>17, MissingEffect
  <2> HIDE DEF i
  <2>2. \A j \in Jobs : /\ job'[j].result = job[j].result /\ job'[j].kind = job[j].kind
                        /\ j # i => job'[j].state = job[j].state
    <3>1. CASE job' = [job EXCEPT ![i].state = "completed", ![i].run = "no"]
      BY <2>1, <3>1, FailedRow
    <3> QED
      BY <2>1, <3>1
  <2> QED
    BY <2>1, <2>2, StillResults
<1>18. ASSUME SendInbound PROVE Results'
  <2> DEFINE i == sched.job
             t == Dispatch(i, job[i].sent + 1)
  <2>1. /\ i \in Jobs /\ job[i].sent + 1 \in Runs
        /\ task[t].pc = "none" /\ task'[t].pc = "submit"
        /\ \A u \in Tasks \ {t} : task'[u] = task[u]
        /\ job'[i].state = job[i].state /\ job'[i].kind = job[i].kind
        /\ job'[i].result = job[i].result
        /\ \A j \in Jobs \ {i} : job'[j] = job[j]
        /\ map' = map /\ taken' = taken /\ Known /\ Steady
    BY <1>18, SendEffect
  <2>2. t \in Tasks
    BY <2>1, DispatchFacts
  <2> HIDE DEF i, t
  <2>3. Quiet
    BY <2>1, <2>2, QuietMove DEF StaysIdle, Owning
  <2>4. \A u \in Tasks : /\ task[u].pc \in Waiting => task'[u].pc \in Waiting
                         /\ task'[u].pc \in {"note_insert", "complete"} => task'[u].pc = task[u].pc
    BY <2>1 DEF Waiting
  <2>5. \A j \in Jobs : /\ job'[j].result = job[j].result /\ job'[j].kind = job[j].kind
                        /\ job'[j].state = job[j].state
    BY <2>1
  <2> QED
    BY <2>1, <2>3, <2>4, <2>5, DispatchIs, CalmFrame DEF Known
<1>19. ASSUME Cleanup PROVE Results'
  <2> DEFINE i == sched.job
  <2>1. /\ i \in Jobs /\ job[i].kind # "delegate"
        /\ job'[i].kind = job[i].kind /\ job'[i].result = job[i].result
        /\ \A j \in Jobs \ {i} : job'[j] = job[j]
        /\ UNCHANGED <<map, task, taken>> /\ Known /\ Steady
    BY <1>19, CleanupEffect
  <2> HIDE DEF i
  <2> QED
    BY <2>1, StillResults DEF Known
<1>20. ASSUME NEW j \in Jobs, NextRunComes(j) \/ PollIsLate(j) \/ LeaseExpires(j) PROVE Results'
  BY <1>20, TimeEffect, StillResults DEF Known
<1>21. ASSUME Restart PROVE Results'
  BY <1>21, RestartResults
<1> QED
  BY <1>1, <1>2, <1>3, <1>4, <1>5, <1>6, <1>7, <1>8, <1>9, <1>10, <1>11, <1>12, <1>13,
    <1>14, <1>15, <1>16, <1>17, <1>18, <1>19, <1>20, <1>21 DEF Next, TaskStep,
    SchedulerStep
-----------------------------------------------------------------------------
(* NoExtraRuns.                                                            *)

(* Numbers are numbers.                                                    *)
LEMMA RowNumbers ==
  ASSUME TypeOK, NEW j \in Jobs
  PROVE  /\ job[j].sent \in Nat /\ job[j].rep \in Nat /\ job[j].slips \in Nat
         /\ job[j].limit \in Nat /\ Limit(j) \in Nat
BY TurnConstants DEF TypeOK, Row, Limit

(* A run that is sure is underway.                                         *)
LEMMA SureUnderway ==
  ASSUME NEW j \in Jobs
  PROVE  Sure(j) => Underway(j)
BY DEF Sure, Certain, Underway, Runs

\* What is picked was picked before, and what is sent was sent
SchedKept(j) ==
  /\ Picked(j)' => Picked(j) /\ sched'.list[j] = sched.list[j]
  /\ Sending(j)' <=> Sending(j)
  /\ Sending(j)' => sched'.list[j] = sched.list[j]

(* The frame of a job's account.                                           *)
LEMMA PlainFrame ==
  ASSUME TypeOK, NEW j \in Jobs, Plain(j), SchedKept(j),
         job'[j].kind = job[j].kind, job'[j].ivl = job[j].ivl, job'[j].limit = job[j].limit,
         job'[j].state = job[j].state, job'[j].rep = job[j].rep, job'[j].sent = job[j].sent,
         job'[j].slips \in Nat, job[j].slips <= job'[j].slips
  PROVE  Plain(j)'
<1>1. /\ job[j].sent \in Nat /\ job[j].rep \in Nat /\ job[j].slips \in Nat /\ Limit(j) \in Nat
  BY RowNumbers
<1>2. Limit(j)' = Limit(j)
  BY DEF Limit
<1>3. /\ job[j].sent <= Limit(j) + job[j].slips => job[j].sent <= Limit(j) + job'[j].slips
      /\ job[j].sent <= job[j].rep + job[j].slips + 1
           => job[j].sent <= job[j].rep + job'[j].slips + 1
      /\ job[j].sent <= job[j].rep + job[j].slips + 0
           => job[j].sent <= job[j].rep + job'[j].slips + 0
  BY <1>1
<1>4. Picked(j)' \/ Sending(j)' => job'[j].state = "active" /\ sched'.list[j].ivl = job'[j].ivl
  BY DEF Plain, SchedKept
<1>5. job[j].sent <= job[j].rep + job[j].slips + (IF Sending(j) THEN 1 ELSE 0)
        => job[j].sent <= job[j].rep + job'[j].slips + (IF Sending(j)' THEN 1 ELSE 0)
  BY <1>3 DEF SchedKept
<1> QED
  BY <1>2, <1>3, <1>4, <1>5 DEF Plain

(* The frame of a delegate's, whose runs stay sure or cost a slip.         *)
LEMMA DelegatedFrame ==
  ASSUME TypeOK, NEW j \in Jobs, Delegated(j), SchedKept(j),
         job'[j].state = job[j].state, job'[j].run = job[j].run, job'[j].sent = job[j].sent,
         job'[j].slips \in Nat, job[j].slips <= job'[j].slips,
         \A n \in Runs : Clear(Dispatch(j, n)) => Clear(Dispatch(j, n))',
         Sure(j) => Sure(j)' \/ job[j].slips < job'[j].slips
  PROVE  Delegated(j)'
<1>1. job[j].sent \in Nat /\ job[j].slips \in Nat
  BY RowNumbers
<1>2. /\ job[j].sent <= job[j].slips => job[j].sent <= job'[j].slips
      /\ job[j].sent <= 1 + job[j].slips => job[j].sent <= 1 + job'[j].slips
      /\ job[j].sent <= 1 + job[j].slips /\ job[j].slips < job'[j].slips
           => job[j].sent <= job'[j].slips
  BY <1>1
<1>3. Picked(j)' => /\ job'[j].run # "leased" /\ job'[j].sent <= job'[j].slips
                    /\ ~sched'.list[j].blank
  BY <1>2 DEF Delegated, SchedKept
<1>4. job'[j].state = "active" =>
        (job'[j].run = "leased" /\ Sure(j)') \/ job'[j].sent <= job'[j].slips
  BY <1>2 DEF Delegated
<1> QED
  BY <1>2, <1>3, <1>4 DEF Delegated

(* Both, for a job of any kind.                                            *)
LEMMA RowPaid ==
  ASSUME TypeOK, NEW j \in Jobs, PaidFor(j), SchedKept(j),
         job'[j].kind = job[j].kind, job'[j].ivl = job[j].ivl, job'[j].limit = job[j].limit,
         job'[j].blank = job[j].blank, job'[j].state = job[j].state, job'[j].run = job[j].run,
         job'[j].rep = job[j].rep, job'[j].sent = job[j].sent,
         job'[j].slips \in Nat, job[j].slips <= job'[j].slips,
         job[j].kind = "delegate" /\ Delegated(j) =>
           /\ \A n \in Runs : Clear(Dispatch(j, n)) => Clear(Dispatch(j, n))'
           /\ Sure(j) => Sure(j)' \/ job[j].slips < job'[j].slips
  PROVE  PaidFor(j)'
<1>1. Endless(j)' <=> Endless(j)
  BY DEF Endless, Limit
<1>2. Plain(j) => Plain(j)'
  BY PlainFrame
<1>3. job[j].kind = "delegate" /\ Delegated(j) => Delegated(j)'
  BY DelegatedFrame
<1> QED
  BY <1>1, <1>2, <1>3 DEF PaidFor

(* Paid is a conjunction of facts of the single jobs.                      *)
LEMMA PaidFrame ==
  ASSUME Paid, managed \subseteq managed',
         \A j \in Jobs \ managed' : PaidFor(j) => PaidFor(j)'
  PROVE  Paid'
BY DEF Paid

(* A job that nothing was done to, whose tasks stayed where they were.     *)
LEMMA OtherPaid ==
  ASSUME TypeOK, NEW j \in Jobs, job'[j] = job[j], SchedKept(j),
         \A n \in Runs : task'[Dispatch(j, n)] = task[Dispatch(j, n)]
  PROVE  PaidFor(j) => PaidFor(j)'
<1>1. job[j].slips \in Nat
  BY RowNumbers
<1>2. /\ \A n \in Runs : Clear(Dispatch(j, n)) => Clear(Dispatch(j, n))'
      /\ Sure(j) => Sure(j)'
  BY DEF Clear, Sure, Certain
<1> QED
  BY <1>1, <1>2, RowPaid

(* The scheduler stays where it is.                                        *)
LEMMA SchedStays == sched' = sched => \A j \in Jobs : SchedKept(j)
BY DEF SchedKept, Picked, Sending

(* The scheduler drops some of what it had picked.                         *)
LEMMA SchedDrops ==
  ASSUME NEW j \in Jobs, Picked(j)' => Picked(j) /\ sched'.list[j] = sched.list[j],
         ~Sending(j)', ~Sending(j)
  PROVE  SchedKept(j)
BY DEF SchedKept

(* Steps that touch no row's account.                                      *)
LEMMA QuietPaid ==
  ASSUME TypeOK, Paid, task' = task, managed \subseteq managed',
         \A j \in Jobs \ managed' : Same(j) /\ SchedKept(j)
  PROVE  Paid'
<1>1. ASSUME NEW j \in Jobs \ managed', PaidFor(j) PROVE PaidFor(j)'
  <2>1. /\ \A n \in Runs : Clear(Dispatch(j, n)) => Clear(Dispatch(j, n))'
        /\ Sure(j) => Sure(j)'
    BY DEF Clear, Sure, Certain
  <2>2. job[j].slips \in Nat
    BY RowNumbers
  <2>3. job[j].slips <= job'[j].slips /\ job'[j].slips \in Nat
    BY <2>2 DEF Same
  <2> QED
    BY <1>1, <2>1, <2>3, RowPaid DEF Same
<1> QED
  BY <1>1, PaidFrame

(* One task moves: a scheduled event that was sure stays so.               *)
LEMMA TaskPaid ==
  ASSUME TypeOK, Paid, UNCHANGED <<job, sched, managed>>, NEW t \in Tasks,
         \A u \in Tasks \ {t} : task'[u] = task[u],
         t \in Dispatches => /\ Clear(t) => Clear(t)'
                             /\ Clear(t) /\ Certain(t) => Certain(t)'
  PROVE  Paid'
<1>1. ASSUME NEW j \in Jobs \ managed', PaidFor(j) PROVE PaidFor(j)'
  <2>1. ASSUME NEW n \in Runs
        PROVE  /\ Clear(Dispatch(j, n)) => Clear(Dispatch(j, n))'
               /\ Clear(Dispatch(j, n)) /\ Certain(Dispatch(j, n)) => Certain(Dispatch(j, n))'
    <3>1. CASE Dispatch(j, n) = t
      BY <3>1, DispatchFacts
    <3>2. CASE Dispatch(j, n) # t
      <4>1. task'[Dispatch(j, n)] = task[Dispatch(j, n)]
        BY <3>2, DispatchFacts
      <4> QED
        BY <4>1 DEF Certain, Clear
    <3> QED
      BY <3>1, <3>2
  <2>2. Delegated(j) => (Sure(j) => Sure(j)')
    BY <2>1 DEF Sure, Delegated
  <2>3. SchedKept(j) /\ job'[j] = job[j] /\ job[j].slips \in Nat
    BY SchedStays, RowNumbers
  <2> QED
    BY <1>1, <2>1, <2>2, <2>3, RowPaid
<1> QED
  BY <1>1, PaidFrame

(* A run that joins a batch is a slip.                                     *)
LEMMA SubmitPaid ==
  ASSUME TypeOK, Numbered, Paid, NEW t \in Tasks, SubmitOrQueue(t)
  PROVE  Paid'
<1>1. /\ task[t].pc = "submit"
      /\ \/ /\ task'[t].pc = "ended" /\ task'[t].turn = "own"
            /\ job' = IF t \in Messages THEN job ELSE Slip(t[2])
         \/ /\ task'[t].pc = "insert" /\ task'[t].turn = task[t].turn
            /\ job' = job
      /\ \A u \in Tasks \ {t} : task'[u] = task[u]
      /\ sched' = sched /\ managed' = managed
  BY SubmitEffect DEF Known
<1>2. CASE job' = job /\ (t \in Messages \/ task'[t].pc = "insert")
  <2>1. t \in Dispatches => task'[t].pc = "insert" /\ task'[t].turn = task[t].turn
    BY <1>1, <1>2, TaskCases
  <2> QED
    BY <1>1, <1>2, <2>1, TaskPaid DEF Clear, Certain
<1>3. CASE t \notin Messages /\ task'[t].pc = "ended" /\ task'[t].turn = "own" /\ job' = Slip(t[2])
  <2>1. PICK c \in Jobs, m \in Runs : t = Dispatch(c, m) /\ t[2] = c
    BY <1>3, TaskCases, DispatchIs
  <2>2. job' = [job EXCEPT ![c].slips = @ + 1]
    BY <1>3, <2>1 DEF Slip
  <2>3. ASSUME NEW j \in Jobs \ managed', PaidFor(j) PROVE PaidFor(j)'
    <3>1. SchedKept(j)
      BY <1>1, SchedStays
    <3>2. CASE j = c
      <4>1. \A n \in Runs : Clear(Dispatch(j, n)) => Clear(Dispatch(j, n))'
        <5> SUFFICES ASSUME NEW n \in Runs, Clear(Dispatch(j, n))
                     PROVE  Clear(Dispatch(j, n))'
          OBVIOUS
        <5>1. CASE Dispatch(j, n) = t
          BY <1>3, <5>1 DEF Clear
        <5>2. CASE Dispatch(j, n) # t
          BY <1>1, <5>2, DispatchFacts DEF Clear
        <5> QED
          BY <5>1, <5>2
      <4>2. job[j].slips \in Nat
        BY RowNumbers
      <4>3. job'[j].slips \in Nat /\ job[j].slips < job'[j].slips /\ job[j].slips <= job'[j].slips
        <5>1. job'[j].slips = job[j].slips + 1
          BY <2>2, <3>2, SlipRow
        <5> QED
          BY <4>2, <5>1
      <4> QED
        BY <2>2, <2>3, <3>1, <3>2, <4>1, <4>3, SlipRow, RowPaid
    <3>3. CASE j # c
      <4>1. job'[j] = job[j]
        BY <2>2, <3>3, SlipRow
      <4>2. \A n \in Runs : task'[Dispatch(j, n)] = task[Dispatch(j, n)]
        BY <1>1, <2>1, <3>3, DispatchFacts, DispatchOne
      <4> QED
        BY <2>3, <3>1, <4>1, <4>2, OtherPaid
    <3> QED
      BY <3>2, <3>3
  <2> QED
    BY <1>1, <2>3, PaidFrame
<1> QED
  BY <1>1, <1>2, <1>3

(* A completion settles the delegate, or is a slip.                        *)
LEMMA CompletePaid ==
  ASSUME TypeOK, Numbered, Paid, NEW t \in Tasks, CompleteDelegate(t)
  PROVE  Paid'
<1>1. PICK c \in Jobs, m \in Runs :
         /\ task[t].pc = "complete" /\ task'[t].pc = "drain" /\ task'[t].turn = task[t].turn
         /\ t = Dispatch(c, m)
         /\ \A u \in Tasks \ {t} : task'[u] = task[u]
         /\ \/ job' = job /\ (job[c].kind = "delegate" => ~Exists(c))
            \/ job' = Slip(c)
            \/ /\ Exists(c) /\ job[c].kind = "delegate"
               /\ job' = [job EXCEPT ![c].state = "completed", ![c].run = "no", ![c].result = TRUE]
         /\ sched' = sched /\ managed' = managed
  BY CompleteEffect DEF Known
<1>2. \A j \in Jobs, n \in Runs : Clear(Dispatch(j, n)) => Clear(Dispatch(j, n))'
  <2> SUFFICES ASSUME NEW j \in Jobs, NEW n \in Runs, Clear(Dispatch(j, n))
               PROVE  Clear(Dispatch(j, n))'
    OBVIOUS
  <2>1. CASE Dispatch(j, n) = t
    BY <1>1, <2>1 DEF Clear
  <2>2. CASE Dispatch(j, n) # t
    BY <1>1, <2>2, DispatchFacts DEF Clear
  <2> QED
    BY <2>1, <2>2
<1>3. ASSUME NEW j \in Jobs \ managed', PaidFor(j) PROVE PaidFor(j)'
  <2>1. SchedKept(j) /\ job[j].slips \in Nat
    BY <1>1, SchedStays, RowNumbers
  <2>2. CASE j # c
    <3>1. job'[j] = job[j]
      BY <1>1, <2>2, SlipRow, ResultRow DEF Slip
    <3>2. \A n \in Runs : task'[Dispatch(j, n)] = task[Dispatch(j, n)]
      BY <1>1, <2>2, DispatchFacts, DispatchOne
    <3> QED
      BY <1>3, <2>1, <3>1, <3>2, OtherPaid
  <2>3. CASE j = c /\ job' = job /\ (job[c].kind = "delegate" => ~Exists(c))
    <3>1. ~(job[j].kind = "delegate" /\ Delegated(j))
      BY <2>3 DEF Delegated, Exists
    <3> QED
      BY <1>3, <2>1, <2>3, <3>1, RowPaid
  <2>4. CASE j = c /\ job' = Slip(c)
    <3>1. job' = [job EXCEPT ![c].slips = @ + 1]
      BY <2>4 DEF Slip
    <3>2. job'[j].slips \in Nat /\ job[j].slips < job'[j].slips /\ job[j].slips <= job'[j].slips
      <4>1. job'[j].slips = job[j].slips + 1
        BY <2>4, <3>1, SlipRow
      <4> QED
        BY <2>1, <4>1
    <3> QED
      BY <1>2, <1>3, <2>1, <2>4, <3>1, <3>2, SlipRow, RowPaid
  <2>5. CASE /\ j = c /\ Exists(c) /\ job[c].kind = "delegate"
             /\ job' = [job EXCEPT ![c].state = "completed", ![c].run = "no", ![c].result = TRUE]
    <3>1. /\ job'[j].state = "completed" /\ job'[j].kind = "delegate" /\ job'[j].run = "no"
          /\ job'[j].sent = job[j].sent /\ job'[j].slips = job[j].slips
          /\ job'[j].blank = job[j].blank
      BY <2>5, ResultRow
    <3>2. Delegated(j) => Delegated(j)'
      BY <1>2, <2>1, <3>1 DEF Delegated, SchedKept
    <3> QED
      BY <1>3, <2>5, <3>1, <3>2 DEF PaidFor
  <2> QED
    BY <1>1, <2>2, <2>3, <2>4, <2>5
<1> QED
  BY <1>1, <1>3, PaidFrame

(* A new job owes nothing.                                                 *)
LEMMA CreatePaid ==
  ASSUME TypeOK, Numbered, Paid, NEW t \in Tasks, NEW new \in Asked, CreateJob(t, new)
  PROVE  Paid'
<1>1. PICK c \in Jobs :
         /\ job'[c].state = "active" /\ job'[c].kind \in Kinds
         /\ job'[c].kind = "cron" => job'[c].ivl # "none"
         /\ job'[c].run = "no" /\ job'[c].rep = 0 /\ ~job'[c].result
         /\ job'[c].sent = 0 /\ job'[c].slips = 0
         /\ \A i \in Jobs \ {c} : job'[i] = job[i]
         /\ UNCHANGED <<map, task, sched, taken, crossed, managed>>
         /\ ~Picked(c)' /\ ~Sending(c)'
         /\ Steady
  BY CreateEffect
<1>2. PaidFor(c)'
  <2>1. \A n \in Runs : task'[Dispatch(c, n)].pc = "none"
    <3>1. Counted(c)'
      BY <1>1 DEF Steady, Numbered
    <3> QED
      BY <1>1, <3>1 DEF Counted, Runs
  <2>2. Limit(c)' \in Nat
    <3>1. job'[c] \in Row
      BY <1>1 DEF Steady, TypeOK
    <3> QED
      BY <3>1, TurnConstants DEF Limit, Row
  <2>3. job'[c].kind \in {"wake", "cron"} /\ ~Endless(c)' => Limit(c)' # 0
    BY DEF Endless, Limit
  <2>4. job'[c].kind \in {"wake", "cron"} /\ ~Endless(c)' => Plain(c)'
    BY <1>1, <2>2, <2>3 DEF Plain
  <2>5. Delegated(c)'
    BY <1>1, <2>1 DEF Delegated, Clear
  <2> QED
    BY <1>1, <2>4, <2>5 DEF PaidFor
<1>3. ASSUME NEW j \in Jobs \ managed', PaidFor(j) PROVE PaidFor(j)'
  BY <1>1, <1>2, <1>3, SchedStays, OtherPaid
<1> QED
  BY <1>1, <1>3, PaidFrame

(* What is due and not leased was paid for.                                *)
LEMMA ListPaid ==
  ASSUME TypeOK, Numbered, Paid, ListDue
  PROVE  Paid'
<1>1. /\ \A j \in Jobs : /\ Picked(j)' <=> j \in DueJobs
                         /\ Picked(j)' => sched'.list[j] = Copy(j)
                         /\ ~Sending(j)' /\ ~Sending(j)
      /\ task' = task /\ job' = job /\ managed' = managed
  BY ListEffect DEF Known
<1>2. ASSUME NEW j \in Jobs \ managed', PaidFor(j) PROVE PaidFor(j)'
  <2>0. /\ Picked(j)' => /\ job[j].state = "active" /\ ~Leased(j)
                         /\ sched'.list[j].ivl = job[j].ivl
                         /\ sched'.list[j].blank = job[j].blank
        /\ ~Sending(j)' /\ ~Sending(j) /\ job'[j] = job[j]
    <3>1. Picked(j)' => j \in DueJobs /\ sched'.list[j] = Copy(j)
      BY <1>1
    <3>2. Copy(j).ivl = job[j].ivl /\ Copy(j).blank = job[j].blank
      BY DEF Copy
    <3>3. j \in DueJobs => job[j].state = "active" /\ ~Leased(j)
      BY DEF DueJobs
    <3>4. ~Sending(j)' /\ ~Sending(j) /\ job'[j] = job[j]
      BY <1>1
    <3> QED
      BY <3>1, <3>2, <3>3, <3>4
  <2>1. ASSUME Plain(j) PROVE Plain(j)'
    <3>1. Limit(j)' = Limit(j)
      BY <2>0 DEF Limit
    <3>2. Picked(j)' \/ Sending(j)' => job'[j].state = "active" /\ sched'.list[j].ivl = job'[j].ivl
      BY <2>0
    <3> QED
      BY <2>0, <2>1, <3>1, <3>2 DEF Plain
  <2>2. ASSUME job[j].kind = "delegate", ~job[j].blank, Delegated(j) PROVE Delegated(j)'
    <3>1. Picked(j)' => /\ job'[j].run # "leased" /\ job'[j].sent <= job'[j].slips
                        /\ ~sched'.list[j].blank
      BY <2>0, <2>2 DEF Delegated, Leased
    <3>2. (Sure(j)' <=> Sure(j)) /\ \A n \in Runs : Clear(Dispatch(j, n))' <=> Clear(Dispatch(j, n))
      BY <1>1 DEF Clear, Sure, Certain
    <3> QED
      BY <2>0, <2>2, <3>1, <3>2 DEF Delegated
  <2>3. Endless(j)' <=> Endless(j)
    BY <1>1 DEF Endless, Limit
  <2> QED
    BY <1>1, <1>2, <2>1, <2>2, <2>3 DEF PaidFor
<1> QED
  BY <1>1, <1>2, PaidFrame

(* A delegate whose sub-agent left is settled.                             *)
LEMMA MissingPaid ==
  ASSUME TypeOK, Numbered, Paid, AgentMissing
  PROVE  Paid'
<1>1. PICK c : c = sched.job
  OBVIOUS
<1>2. /\ c \in Jobs /\ job[c].kind = "delegate" /\ Picked(c)
      /\ job' = job \/ job' = [job EXCEPT ![c].state = "completed", ![c].run = "no"]
      /\ \A i \in Jobs : /\ Picked(i)' => Picked(i) /\ sched'.list[i] = sched.list[i]
                         /\ ~Sending(i)' /\ ~Sending(i)
      /\ ~Picked(c)'
      /\ task' = task /\ managed' = managed
  BY <1>1, MissingEffect
<1>3. ASSUME NEW j \in Jobs \ managed', PaidFor(j) PROVE PaidFor(j)'
  <2>1. SchedKept(j)
    BY <1>2, SchedDrops
  <2>2. CASE job'[j] = job[j]
    BY <1>2, <1>3, <2>1, <2>2, OtherPaid
  <2>3. CASE j = c /\ job' = [job EXCEPT ![c].state = "completed", ![c].run = "no"]
    <3>1. /\ job'[j].state = "completed" /\ job'[j].kind = "delegate"
          /\ job'[j].sent = job[j].sent /\ job'[j].slips = job[j].slips
          /\ job'[j].blank = job[j].blank
      BY <1>2, <2>3, FailedRow
    <3>2. Delegated(j) => Delegated(j)'
      BY <1>2, <2>3, <3>1 DEF Delegated, Clear
    <3> QED
      BY <1>2, <1>3, <2>3, <3>1, <3>2 DEF PaidFor
  <2> QED
    BY <1>2, <2>2, <2>3, FailedRow
<1> QED
  BY <1>2, <1>3, PaidFrame

(* Only the last of a job's runs is still unpaid when it is sent.          *)
LEMMA SendPaid ==
  ASSUME TypeOK, Numbered, Paid, SendInbound
  PROVE  Paid'
<1>1. PICK c, r : c = sched.job /\ r = job[c].sent + 1
  OBVIOUS
<1> DEFINE d == Dispatch(c, r)
<1>2. /\ c \in Jobs /\ Picked(c) /\ r = job[c].sent + 1 /\ r \in Runs
      /\ task[d].pc = "none" /\ task'[d].pc = "submit"
      /\ task'[d].turn = (IF sched.list[c].blank THEN "blank" ELSE "own")
      /\ \A u \in Tasks \ {d} : task'[u] = task[u]
      /\ job'[c].state = job[c].state /\ job'[c].kind = job[c].kind
      /\ job'[c].ivl = job[c].ivl /\ job'[c].limit = job[c].limit
      /\ job'[c].blank = job[c].blank
      /\ job'[c].rep = job[c].rep /\ job'[c].sent = job[c].sent + 1
      /\ \/ /\ job'[c].slips = job[c].slips
            /\ job'[c].run = (IF Exists(c) /\ job[c].kind = "delegate" THEN "leased"
                              ELSE job[c].run)
         \/ job[c].kind = "delegate" /\ job'[c].slips = job[c].slips + 1
      /\ \A i \in Jobs \ {c} : job'[i] = job[i]
      /\ \A i \in Jobs : /\ Picked(i)' => Picked(i) /\ i # c
                         /\ Picked(i)' \/ Sending(i)' => sched'.list[i] = sched.list[i]
                         /\ ~Sending(i)
                         /\ Sending(i)' => i = c
      /\ job[c].kind # "delegate" => Sending(c)'
      /\ managed' = managed
  BY <1>1, SendEffect DEF Known
<1>3. d \in Tasks /\ \A i \in Jobs \ {c}, n \in Runs : Dispatch(i, n) # d
  BY <1>2, DispatchFacts, DispatchOne
<1>4. /\ job[c].sent \in Nat /\ job[c].rep \in Nat /\ job[c].slips \in Nat /\ Limit(c) \in Nat
  BY <1>2, RowNumbers
<1>5. ASSUME NEW j \in Jobs \ {c}, PaidFor(j) PROVE PaidFor(j)'
  <2>1. \A n \in Runs : task'[Dispatch(j, n)] = task[Dispatch(j, n)]
    BY <1>2, <1>3, DispatchFacts
  <2>2. SchedKept(j) /\ job'[j] = job[j]
    BY <1>2 DEF SchedKept
  <2> QED
    BY <1>5, <2>1, <2>2, OtherPaid
<1>6. ASSUME job[c].kind # "delegate", Plain(c) PROVE Plain(c)'
  <2>1. /\ job[c].state = "active" /\ sched.list[c].ivl = job[c].ivl /\ job[c].rep < Limit(c)
        /\ job[c].sent <= job[c].rep + job[c].slips
    BY <1>2, <1>4, <1>6 DEF Plain
  <2>2. Limit(c)' = Limit(c)
    BY <1>2 DEF Limit
  <2>3. /\ job[c].sent + 1 <= job[c].rep + job[c].slips + 1
        /\ job[c].sent + 1 <= Limit(c) + job[c].slips
    BY <1>4, <2>1
  <2>4. Sending(c)' /\ sched'.list[c].ivl = job'[c].ivl
    BY <1>2, <1>6, <2>1
  <2> QED
    BY <1>2, <1>6, <2>1, <2>2, <2>3, <2>4 DEF Plain
<1>7. ASSUME job[c].kind = "delegate", Delegated(c) PROVE Delegated(c)'
  <2>1. job[c].sent <= job[c].slips /\ ~sched.list[c].blank /\ Exists(c)
    BY <1>2, <1>7 DEF Delegated, Exists
  <2>2. ASSUME NEW n \in Runs PROVE Clear(Dispatch(c, n))'
    <3>1. CASE Dispatch(c, n) = d
      BY <1>2, <2>1, <3>1 DEF Clear
    <3>2. CASE Dispatch(c, n) # d
      BY <1>2, <1>7, <3>2, DispatchFacts DEF Delegated, Clear
    <3> QED
      BY <3>1, <3>2
  <2>3. Sure(c)'
    BY <1>2 DEF Sure, Certain
  <2>4. /\ job'[c].sent <= 1 + job'[c].slips
        /\ job'[c].run = "leased" \/ job'[c].sent <= job'[c].slips
    BY <1>2, <1>4, <1>7, <2>1
  <2> QED
    BY <1>2, <1>7, <2>2, <2>3, <2>4 DEF Delegated
<1>8. ASSUME PaidFor(c) PROVE PaidFor(c)'
  <2>1. Endless(c)' <=> Endless(c)
    BY <1>2 DEF Endless, Limit
  <2> QED
    BY <1>2, <1>6, <1>7, <1>8, <2>1 DEF PaidFor
<1> QED
  BY <1>2, <1>5, <1>8, PaidFrame

(* Cleanup counts the run that was sent, or deletes the job.               *)
LEMMA CleanupPaid ==
  ASSUME TypeOK, Numbered, Paid, Cleanup
  PROVE  Paid'
<1>1. PICK c : c = sched.job
  OBVIOUS
<1>2. /\ c \in Jobs /\ Sending(c) /\ job[c].kind \notin {"none", "delegate"}
      /\ \/ /\ job'[c].slips = job[c].slips
            /\ job'[c].rep = (IF IsCounted(c) THEN job[c].rep + 1 ELSE job[c].rep)
            /\ job'[c].state = (IF IsLast(c) THEN "deleted" ELSE job[c].state)
         \/ /\ job'[c].slips = job[c].slips + 1
            /\ job'[c].rep = job[c].rep /\ job'[c].state = job[c].state
      /\ job'[c].kind = job[c].kind /\ job'[c].ivl = job[c].ivl
      /\ job'[c].limit = job[c].limit /\ job'[c].sent = job[c].sent
      /\ \A i \in Jobs \ {c} : job'[i] = job[i]
      /\ \A i \in Jobs : /\ Picked(i)' => Picked(i) /\ sched'.list[i] = sched.list[i] /\ i # c
                         /\ ~Sending(i)' /\ (Sending(i) => i = c)
      /\ task' = task /\ managed' = managed
  BY <1>1, CleanupEffect DEF Known
<1>3. ASSUME NEW j \in Jobs \ {c}, PaidFor(j) PROVE PaidFor(j)'
  BY <1>2, <1>3, OtherPaid DEF SchedKept
<1>4. job[c].kind \in {"wake", "cron"}
  BY <1>2 DEF TypeOK, Row, Kinds
<1>5. /\ job[c].sent \in Nat /\ job[c].rep \in Nat /\ job[c].slips \in Nat /\ Limit(c) \in Nat
      /\ job[c].limit \in Nat
  BY <1>2, RowNumbers
<1>6. Limit(c)' = Limit(c) /\ (Endless(c)' <=> Endless(c))
  BY <1>2 DEF Limit, Endless
<1>7. ASSUME Plain(c), ~Endless(c), job[c].kind = "cron" => job[c].ivl # "none" PROVE Plain(c)'
  <2>1. /\ job[c].state = "active" /\ sched.list[c].ivl = job[c].ivl /\ job[c].rep < Limit(c)
        /\ job[c].sent <= job[c].rep + job[c].slips + 1
        /\ job[c].sent <= Limit(c) + job[c].slips
    BY <1>2, <1>7 DEF Plain
  <2>2. ~Picked(c)' /\ ~Sending(c)'
    BY <1>2
  <2>3. CASE job'[c].slips = job[c].slips + 1 /\ job'[c].rep = job[c].rep /\ job'[c].state = job[c].state
    BY <1>2, <1>5, <1>6, <2>1, <2>2, <2>3 DEF Plain
  <2>4. CASE IsLast(c) /\ job'[c].slips = job[c].slips /\ job'[c].state = "deleted"
    BY <1>2, <1>6, <2>1, <2>2, <2>4 DEF Plain
  <2>5. CASE /\ ~IsLast(c) /\ job'[c].slips = job[c].slips /\ job'[c].state = job[c].state
             /\ job'[c].rep = (IF IsCounted(c) THEN job[c].rep + 1 ELSE job[c].rep)
    <3>1. job[c].kind = "cron" /\ job[c].ivl # "zero"
      BY <1>4, <2>1, <2>5 DEF IsLast, RunsOnce
    <3>2. job[c].ivl = "some"
      BY <1>2, <1>7, <3>1 DEF TypeOK, Row, Intervals
    <3>3. Limit(c) = job[c].limit /\ job[c].limit # 0
      BY <1>7, <3>1, <3>2 DEF Limit, Endless
    <3>4. IsCounted(c)
      BY <1>5, <2>5, <3>3 DEF IsLast, IsCounted
    <3>5. job[c].rep + 1 < Limit(c) /\ job'[c].rep = job[c].rep + 1
      BY <1>5, <2>5, <3>3, <3>4 DEF IsLast
    <3>6. job[c].sent <= (job[c].rep + 1) + job[c].slips + 0
      BY <1>5, <2>1
    <3> QED
      BY <1>2, <1>6, <2>1, <2>2, <2>5, <3>5, <3>6 DEF Plain
  <2> QED
    BY <1>2, <2>3, <2>4, <2>5
<1>8. ASSUME PaidFor(c) PROVE PaidFor(c)'
  BY <1>2, <1>4, <1>6, <1>7, <1>8 DEF PaidFor
<1> QED
  BY <1>2, <1>3, <1>8, PaidFrame

(* A lease that runs out under a run is a slip; else nothing was sure.     *)
LEMMA TimePaid ==
  ASSUME TypeOK, Numbered, Paid, NEW c \in Jobs,
         NextRunComes(c) \/ PollIsLate(c) \/ LeaseExpires(c)
  PROVE  Paid'
<1>1. /\ job'[c].state = job[c].state /\ job'[c].kind = job[c].kind
      /\ job'[c].blank = job[c].blank /\ job'[c].sent = job[c].sent
      /\ \/ Same(c)
         \/ /\ LeaseExpires(c) /\ job[c].run = "leased" /\ job'[c].run = "expired"
            /\ \/ ~Underway(c) /\ job'[c].slips = job[c].slips
               \/ job'[c].slips = job[c].slips + 1
      /\ \A i \in Jobs \ {c} : job'[i] = job[i]
      /\ task' = task /\ sched' = sched /\ managed' = managed
  BY TimeEffect DEF Known
<1>2. CASE Same(c)
  <2>1. \A j \in Jobs : Same(j) /\ SchedKept(j)
    BY <1>1, <1>2, SchedStays DEF Same
  <2> QED
    BY <1>1, <2>1, QuietPaid
<1>3. CASE /\ LeaseExpires(c) /\ job[c].run = "leased" /\ job'[c].run = "expired"
           /\ \/ ~Underway(c) /\ job'[c].slips = job[c].slips
              \/ job'[c].slips = job[c].slips + 1
  <2>1. job[c].kind = "delegate"
    BY <1>3 DEF LeaseExpires, Leased
  <2>2. job[c].sent \in Nat /\ job[c].slips \in Nat
    BY RowNumbers
  <2>3. ASSUME Delegated(c) PROVE Delegated(c)'
    <3>1. ~Picked(c)'
      BY <1>1, <1>3, <2>3 DEF Delegated, Picked
    <3>2. job[c].state = "active" => job[c].sent <= job'[c].slips
      BY <1>3, <2>2, <2>3, SureUnderway DEF Delegated
    <3>3. job[c].sent <= 1 + job'[c].slips
      BY <1>3, <2>2, <2>3 DEF Delegated
    <3>4. \A n \in Runs : Clear(Dispatch(c, n))'
      BY <1>1, <2>3 DEF Delegated, Clear
    <3> QED
      BY <1>1, <2>3, <3>1, <3>2, <3>3, <3>4 DEF Delegated
  <2>4. PaidFor(c) => PaidFor(c)'
    BY <1>1, <2>1, <2>3 DEF PaidFor
  <2>5. ASSUME NEW j \in Jobs \ {c}, PaidFor(j) PROVE PaidFor(j)'
    BY <1>1, <2>5, SchedStays, OtherPaid
  <2> QED
    BY <1>1, <2>4, <2>5, PaidFrame
<1> QED
  BY <1>1, <1>2, <1>3

(* A restart is a slip of every job there is.                              *)
LEMMA RestartPaid ==
  ASSUME TypeOK, Numbered, Paid, Restart
  PROVE  Paid'
<1>1. /\ \A t \in Tasks : task'[t].turn = "own"
      /\ \A j \in Jobs : ~Picked(j)' /\ ~Sending(j)'
      /\ \A j \in Jobs :
           /\ job'[j].state = job[j].state /\ job'[j].kind = job[j].kind
           /\ job'[j].ivl = job[j].ivl /\ job'[j].limit = job[j].limit
           /\ job'[j].blank = job[j].blank /\ job'[j].rep = job[j].rep
           /\ job'[j].sent = job[j].sent
           /\ job'[j].slips = (IF Exists(j) THEN job[j].slips + 1 ELSE job[j].slips)
      /\ managed' = managed
  BY RestartEffect
<1>2. ASSUME NEW j \in Jobs, PaidFor(j) PROVE PaidFor(j)'
  <2>1. /\ job[j].sent \in Nat /\ job[j].rep \in Nat /\ job[j].slips \in Nat /\ Limit(j) \in Nat
    BY RowNumbers
  <2>2. Limit(j)' = Limit(j) /\ (Endless(j)' <=> Endless(j))
    BY <1>1 DEF Limit, Endless
  <2>3. ASSUME Plain(j) PROVE Plain(j)'
    <3>1. CASE job[j].state = "active"
      <4>1. /\ job[j].rep < Limit(j) /\ job[j].sent <= job[j].rep + job[j].slips + 1
            /\ job[j].sent <= Limit(j) + job[j].slips
        BY <2>1, <2>3, <3>1 DEF Plain
      <4>2. job'[j].slips = job[j].slips + 1
        BY <1>1, <3>1 DEF Exists
      <4> QED
        BY <1>1, <2>1, <2>2, <3>1, <4>1, <4>2 DEF Plain
    <3>2. CASE job[j].state = "deleted"
      BY <1>1, <2>2, <2>3, <3>2 DEF Plain, Exists
    <3> QED
      BY <2>3, <3>1, <3>2 DEF Plain
  <2>4. ASSUME Delegated(j) PROVE Delegated(j)'
    <3>1. job'[j].slips = job[j].slips + 1 /\ job[j].sent <= 1 + job[j].slips
      BY <1>1, <2>4 DEF Delegated, Exists
    <3>2. \A n \in Runs : Clear(Dispatch(j, n))'
      BY <1>1, DispatchFacts DEF Clear
    <3> QED
      BY <1>1, <2>1, <2>4, <3>1, <3>2 DEF Delegated
  <2> QED
    BY <1>1, <1>2, <2>2, <2>3, <2>4 DEF PaidFor
<1> QED
  BY <1>1, <1>2, PaidFrame

(* What was queued becomes a turn; the turn of a scheduled event is over.  *)
LEMMA DrainPaid ==
  ASSUME TypeOK, Numbered, Paid, NEW t \in Tasks, DrainQueued(t)
  PROVE  Paid'
<1>1. /\ AtDrain(t)
      /\ task'[t].turn = "batch" \/ task'[t].turn = task[t].turn
      /\ task'[t].pc # "none"
      /\ UNCHANGED <<job, sched, managed>> /\ \A u \in Tasks \ {t} : task'[u] = task[u]
  BY DrainEffect DEF Known
<1>2. t \in Dispatches => ~Certain(t)
  BY <1>1 DEF AtDrain, Scheduled, Certain
<1>3. Clear(t) => Clear(t)'
  BY <1>1 DEF Clear, AtDrain
<1> QED
  BY <1>1, <1>2, <1>3, TaskPaid

(* Every action keeps the accounts.                                        *)
LEMMA PaidStep ==
  ASSUME TypeOK, Numbered, Paid, Next
  PROVE  Paid'
<1>1. ASSUME InjectMessage PROVE Paid'
  <2>1. PICK m \in Messages : \A u \in Tasks \ {m} : task'[u] = task[u]
    BY <1>1, InjectEffect
  <2>2. m \in Tasks /\ m \notin Dispatches
    BY DispatchFacts DEF Tasks, Dispatches, Runs
  <2>3. UNCHANGED <<job, sched, managed>>
    BY <1>1, InjectEffect DEF Known
  <2> QED
    BY <2>1, <2>2, <2>3, TaskPaid
<1>2. ASSUME NEW t \in Tasks, SubmitOrQueue(t) PROVE Paid'
  BY <1>2, SubmitPaid
<1>3. ASSUME NEW t \in Tasks, RunNow(t) PROVE Paid'
  <2>1. /\ task[t].pc = "insert" /\ task'[t].pc = "turn" /\ task'[t].turn = task[t].turn
        /\ \A u \in Tasks \ {t} : task'[u] = task[u]
        /\ UNCHANGED <<job, sched, managed>>
    BY <1>3, RunNowEffect
  <2>2. task[t].turn \in {"own", "blank"}
    <3>1. task[t].turn \in {"own", "blank", "batch"}
      BY DEF TypeOK, Handler
    <3> QED
      BY <2>1, <3>1 DEF Numbered, Shaped
  <2> QED
    BY <2>1, <2>2, TaskPaid DEF Clear, Certain
<1>4. ASSUME NEW t \in Tasks, NotifyParent(t) PROVE Paid'
  <2>1. /\ task'[t].pc \in {"complete", "note_insert"} /\ task'[t].turn = task[t].turn
        /\ task[t].pc = "turn"
        /\ \A u \in Tasks \ {t} : task'[u] = task[u]
        /\ UNCHANGED <<job, sched, managed>>
    BY <1>4, NotifyEffect DEF Known
  <2> QED
    BY <2>1, TaskPaid DEF Clear, Certain
<1>5. ASSUME NEW t \in Tasks, NotifyInserts(t) PROVE Paid'
  <2>1. /\ task'[t].pc = "complete" /\ task'[t].turn = task[t].turn
        /\ task[t].pc = "note_insert"
        /\ \A u \in Tasks \ {t} : task'[u] = task[u]
        /\ UNCHANGED <<job, sched, managed>>
    BY <1>5, NotifyInsertsEffect
  <2> QED
    BY <2>1, TaskPaid DEF Clear, Certain
<1>6. ASSUME NEW t \in Tasks, CompleteDelegate(t) PROVE Paid'
  BY <1>6, CompletePaid
<1>7. ASSUME NEW t \in Tasks, DrainQueued(t) PROVE Paid'
  BY <1>7, DrainPaid
<1>8. ASSUME NEW t \in Tasks, CheckIdle(t) PROVE Paid'
  <2>1. /\ task[t].pc = "delegates" /\ task'[t].turn = task[t].turn
        /\ \A u \in Tasks \ {t} : task'[u] = task[u]
        /\ UNCHANGED <<job, sched, managed>>
    BY <1>8, CheckIdleEffect
  <2> QED
    BY <2>1, TaskPaid DEF Clear, Certain
<1>9. ASSUME NEW t \in Tasks, FinishTurn(t) PROVE Paid'
  <2>1. /\ task[t].pc = "finish" /\ task'[t].turn \in {"own", "batch"}
        /\ \A u \in Tasks \ {t} : task'[u] = task[u]
        /\ UNCHANGED <<job, sched, managed>>
    BY <1>9, FinishEffect
  <2> QED
    BY <2>1, TaskPaid DEF Clear, Certain
<1>10. ASSUME NEW t \in Tasks, Reserve(t) PROVE Paid'
  <2>1. /\ task[t].pc = "reserve" /\ task'[t].turn = task[t].turn
        /\ \A u \in Tasks \ {t} : task'[u] = task[u]
        /\ UNCHANGED <<job, sched, managed>>
    BY <1>10, ReserveEffect DEF Known
  <2> QED
    BY <2>1, TaskPaid DEF Clear, Certain
<1>11. ASSUME NEW t \in Tasks, NEW new \in Asked, CreateJob(t, new) PROVE Paid'
  BY <1>11, CreatePaid
<1>12. ASSUME NEW t \in Tasks, NEW c \in Jobs, ManageJob(t, c) PROVE Paid'
  <2>1. /\ \A i \in Jobs \ {c} : job'[i] = job[i]
        /\ managed' = managed \cup {c} /\ task' = task /\ sched' = sched
    BY <1>12, ManageEffect
  <2>2. \A j \in Jobs \ managed' : Same(j) /\ SchedKept(j)
    BY <2>1, SchedStays DEF Same
  <2> QED
    BY <2>1, <2>2, QuietPaid
<1>13. ASSUME (\E t \in Tasks : SpawnProcess(t)) \/ (\E s \in Sessions : ProcessEnds(s))
       PROVE  Paid'
  BY <1>13, ProcessEffect, SchedStays, QuietPaid DEF Same
<1>14. ASSUME ListDue PROVE Paid'
  BY <1>14, ListPaid
<1>15. ASSUME NEW j \in Jobs, FastForward(j) PROVE Paid'
  BY <1>15, FastForwardEffect, SchedDrops, QuietPaid DEF Same, Known
<1>16. ASSUME NEW j \in Jobs, AdvanceNextRun(j) PROVE Paid'
  BY <1>16, AdvanceEffect, SchedDrops, QuietPaid DEF Known
<1>17. ASSUME AgentMissing PROVE Paid'
  BY <1>17, MissingPaid
<1>18. ASSUME SendInbound PROVE Paid'
  BY <1>18, SendPaid
<1>19. ASSUME Cleanup PROVE Paid'
  BY <1>19, CleanupPaid
<1>20. ASSUME NEW j \in Jobs, NextRunComes(j) \/ PollIsLate(j) \/ LeaseExpires(j) PROVE Paid'
  BY <1>20, TimePaid
<1>21. ASSUME Restart PROVE Paid'
  BY <1>21, RestartPaid
<1> QED
  BY <1>1, <1>2, <1>3, <1>4, <1>5, <1>6, <1>7, <1>8, <1>9, <1>10, <1>11, <1>12, <1>13,
    <1>14, <1>15, <1>16, <1>17, <1>18, <1>19, <1>20, <1>21 DEF Next, TaskStep,
    SchedulerStep
-----------------------------------------------------------------------------
(* The inductive invariant, and the theorems.                              *)

(* Nothing has happened yet.                                               *)
LEMMA InitInv == Init => IndInv
<1> SUFFICES ASSUME Init PROVE IndInv
  OBVIOUS
<1>1. /\ map = [s \in Sessions |-> Empty] /\ task = [t \in Tasks |-> IdleTask]
      /\ job = [j \in Jobs |-> NoRow] /\ sched = IdleSched
      /\ procs = {} /\ load = 0 /\ taken = {} /\ crossed = {} /\ excused = {} /\ managed = {}
  BY DEF Init
<1>2. TypeOK
  <2>1. /\ map \in [Sessions -> Session] /\ task \in [Tasks -> Handler]
        /\ job \in [Jobs -> Row] /\ sched \in Sched
    BY <1>1, StartTyped
  <2>2. \A s \in Sessions : ~map[s].in => map[s].q = {}
    BY <1>1 DEF Empty
  <2>3. load \in 0 .. MaxLoad
    BY <1>1, TurnConstants
  <2> QED
    BY <1>1, <2>1, <2>2, <2>3 DEF TypeOK
<1>3. \A t \in Tasks : task[t].pc = "none" /\ task[t].turn = "own"
  BY <1>1 DEF IdleTask
<1>4. \A j \in Jobs : /\ job[j].state = "none" /\ job[j].kind = "none"
                      /\ job[j].sent = 0 /\ job[j].rep = 0 /\ ~job[j].result
  BY <1>1 DEF NoRow
<1>5. /\ sched.pc = "idle" /\ sched.todo = {} /\ sched.job = Main
      /\ \A j \in Jobs : ~Picked(j) /\ ~Sending(j)
  BY <1>1 DEF IdleSched, Picked, Sending
<1>6. Numbered
  <2>1. Scheduling
    BY <1>5 DEF Scheduling
  <2>2. ASSUME NEW j \in Jobs PROVE Counted(j)
    BY <1>3, <1>4, <1>5, DispatchFacts DEF Counted
  <2>3. \A t \in Tasks : Shaped(t)
    BY <1>3 DEF Shaped
  <2> QED
    BY <2>1, <2>2, <2>3 DEF Numbered
<1>7. ReservedIsOwned
  BY <1>1 DEF ReservedIsOwned, Empty
<1>8. Alone
  BY <1>3 DEF Alone, Single, Entered, Live, Owning
<1>9. Results
  BY <1>4 DEF Results
<1>10. Paid
  BY <1>4 DEF Paid, PaidFor
<1> QED
  BY <1>2, <1>6, <1>7, <1>8, <1>9, <1>10 DEF IndInv

(* Every step keeps the inductive invariant.                               *)
LEMMA NextInv == IndInv /\ [Next]_vars => IndInv'
<1> SUFFICES ASSUME IndInv, [Next]_vars PROVE IndInv'
  OBVIOUS
<1>1. CASE Next
  <2>1. TypeOK /\ Numbered /\ Owned /\ Results /\ Paid
    BY DEF IndInv, Owned
  <2>2. TypeOK' /\ Numbered'
    BY <1>1, <2>1, StepCases DEF Steady
  <2>3. Owned' /\ Results' /\ Paid'
    BY <1>1, <2>1, OwnedStep, ResultsStep, PaidStep
  <2> QED
    BY <2>2, <2>3 DEF IndInv, Owned
<1>2. CASE UNCHANGED vars
  <2>1. UNCHANGED <<map, task, job, sched, procs, load, taken, crossed, excused, managed>>
    BY <1>2 DEF vars
  <2>2. TypeOK'
    BY <2>1 DEF IndInv, TypeOK
  <2>3. Numbered'
    BY <2>1 DEF IndInv, Numbered, Scheduling, Counted, Shaped, Picked, Sending, Scheduled
  <2>4. \A t \in Tasks : (Live(t)' <=> Live(t)) /\ Sess(t)' = Sess(t)
    BY <2>1 DEF Live, Sess, JobSession
  <2>5. ReservedIsOwned' /\ Alone'
    BY <2>1, <2>4 DEF IndInv, ReservedIsOwned, Handled, Alone, Single, Entered
  <2>6. Results'
    BY <2>1, <2>4 DEF IndInv, Results, Told, Reached, Awaited, Held
  <2>7. Paid'
    <3>1. \A j \in Jobs \ managed : PaidFor(j) => PaidFor(j)'
      BY <2>1 DEF PaidFor, Plain, Delegated, Endless, Limit, Picked, Sending, Sure, Certain, Clear
    <3> QED
      BY <2>1, <3>1 DEF IndInv, Paid
  <2> QED
    BY <2>2, <2>3, <2>5, <2>6, <2>7 DEF IndInv
<1> QED
  BY <1>1, <1>2

(* The inductive invariant holds in every state.                           *)
LEMMA Inductive == Spec => []IndInv
<1> QED
  BY InitInv, NextInv, PTL DEF Spec

(* The variables have their types: a job is never dispatched more often    *)
(* than there are numbers for its runs, and the queue of a session that is *)
(* not in the coordinator's map is empty.                                  *)
THEOREM TypeCorrect == Spec => []TypeOK
<1>1. IndInv => TypeOK
  BY DEF IndInv
<1> QED
  BY <1>1, Inductive, PTL

(* A session in the coordinator's map has a handler that will drain its    *)
(* queue, unless a notification found the session idle.                    *)
THEOREM ReservedIsOwnedHolds == Spec => []ReservedIsOwned
<1>1. IndInv => ReservedIsOwned
  BY DEF IndInv
<1> QED
  BY <1>1, Inductive, PTL

(* A result that complete_delegate_result recorded was given to a turn of  *)
(* the session that delegated the task, or is in its queue; the exceptions *)
(* are single jobs, for one of five causes each.                           *)
THEOREM ResultReachesParentHolds == Spec => []ResultReachesParent
<1>1. IndInv => ResultReachesParent
  BY DEF IndInv, Results, Told, Reached, ResultReachesParent, Runs
<1> QED
  BY <1>1, Inductive, PTL

(* dispatch_job sends a job as often as it was meant to be, and once more  *)
(* for each of its slips, whatever its lease, its count or its deletion    *)
(* went through.                                                           *)
THEOREM NoExtraRunsHolds == Spec => []NoExtraRuns
<1>1. ASSUME IndInv PROVE NoExtraRuns
  <2> SUFFICES ASSUME NEW j \in Jobs \ managed, job[j].kind # "none",
                      ~(job[j].kind = "delegate" /\ job[j].blank), ~Endless(j)
               PROVE  job[j].sent <= Limit(j) + job[j].slips
    BY DEF NoExtraRuns, Limit, Endless
  <2>1. PaidFor(j) /\ job[j].kind \in {"delegate", "wake", "cron"}
    BY <1>1 DEF IndInv, Paid, TypeOK, Row, Kinds
  <2>2. CASE job[j].kind = "delegate"
    BY <2>1, <2>2 DEF PaidFor, Delegated, Limit
  <2>3. CASE job[j].kind # "delegate"
    BY <2>1, <2>3 DEF PaidFor, Plain
  <2> QED
    BY <2>2, <2>3
<1> QED
  BY <1>1, Inductive, PTL
=============================================================================
