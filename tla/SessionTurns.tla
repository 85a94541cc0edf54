---------------------------- MODULE SessionTurns ----------------------------
(***************************************************************************)
(* The sandbox runtime's turns (sandboxes/runtime/crates/runtime): the     *)
(* session coordinator that queues what arrives while a turn runs, the     *)
(* handler of an inbound event, the scheduler that dispatches cron jobs,   *)
(* wake-ups and delegated tasks, and the job table in SQLite, which alone  *)
(* outlives a restart.                                                     *)
(*                                                                         *)
(* Every inbound event has a tokio task of its own; a step is one          *)
(* operation on the coordinator's map or one statement.  Time is kept per  *)
(* job: when its next run is due and whether its lease has run out.        *)
(***************************************************************************)
EXTENDS Naturals, FiniteSets

CONSTANTS
  Main,         \* the conversation the users write to
  Messages,     \* what they write
  Jobs,         \* rows of cron_jobs
  Asked,        \* the jobs that turns ask for
  RepeatCount,  \* repeat_count of a recurring job that has one
  MaxRuns,      \* bound: dispatches of one job
  MaxBlank,     \* bound: dispatches of one whose prompt is blank
  MaxRecur,     \* bound: times the next run of one job comes
  MaxLoad       \* bound: jobs, background processes, jobs changed through the cron tool,
                \* and faults: restarts, failed statements, overlong turns, late polls

Kinds == {"delegate", "wake", "cron"}
\* interval_seconds: NULL, zero, more; a job with more of it is recurring, whatever it is
Intervals == {"none", "zero", "some"}

\* What the tools delegate, wake and cron create insert; none refuses a blank prompt
NewRows ==
  [kind : {"delegate"}, ivl : {"none"}, limit : {1}, next : {"due"}, blank : BOOLEAN]
    \cup [kind : {"wake"}, ivl : {"none"}, limit : {1}, next : {"future"}, blank : BOOLEAN]
    \cup [kind : {"cron"}, ivl : {"zero", "some"}, limit : {0, RepeatCount},
          next : {"future"}, blank : BOOLEAN]

ASSUME TurnConstants ==
  /\ RepeatCount \in Nat \ {0} /\ MaxRuns \in Nat \ {0}
  /\ MaxRecur \in 1 .. MaxRuns /\ MaxBlank \in 1 .. MaxRuns /\ MaxLoad \in Nat
  /\ Main \notin Jobs /\ IsFiniteSet(Jobs) /\ Asked \subseteq NewRows
  /\ \A j \in Jobs, n \in 1 .. MaxRuns : <<"run", j, n>> \notin Messages

VARIABLES
  map,        \* SessionCoordinator.sessions: entry present, events queued in it
  task,       \* each event and its handler task; submit: in the channel or spawned
  job,        \* cron_jobs
  sched,      \* the scheduler task
  procs,      \* sessions with a background process that runs
  load,       \* what MaxLoad bounds
  \* history
  taken,      \* events that were given to a turn
  crossed,    \* sessions that were given a second handler while one is at work
  excused,    \* jobs whose result may not reach its parent: see ResultReachesParent
  managed     \* jobs that were changed through the cron tool

vars == <<map, task, job, sched, procs, load, taken, crossed, excused, managed>>
-----------------------------------------------------------------------------
(* Events, sessions and jobs.                                              *)

Dispatch(j, n) == <<"run", j, n>>
Note(j, n) == <<"note", j, n>>
Dispatches == {Dispatch(j, n) : j \in Jobs, n \in 1 .. MaxRuns}
Notes == {Note(j, n) : j \in Jobs, n \in 1 .. MaxRuns}
Tasks == Messages \cup Dispatches
Events == Tasks \cup Notes

\* Jobs are created by the users' conversation and by delegates' sessions.  A job's own
\* session goes by the job's name; a wake-up runs in the session that asked for it
Sessions == {Main} \cup Jobs
JobSession(j) == IF job[j].kind = "wake" THEN job[j].by ELSE j
Sess(t) == IF t \in Messages THEN Main ELSE JobSession(t[2])

\* by: created_by_session; limit: repeat_count, 0 for NULL; blank: the prompt is blank
\* slips: history, what can make the job run once more than it was meant to
NoRow == [state |-> "none", kind |-> "none", by |-> Main, ivl |-> "none", limit |-> 0,
          blank |-> FALSE, next |-> "future", run |-> "no", rep |-> 0, result |-> FALSE,
          sent |-> 0, slips |-> 0]
Row == [state : {"none", "active", "paused", "completed", "deleted"}, kind : Kinds \cup {"none"},
        by : Sessions, ivl : Intervals, limit : {0, 1, RepeatCount}, blank : BOOLEAN,
        next : {"future", "due", "stale"}, run : {"no", "leased", "expired"},
        rep : 0 .. MaxRuns, result : BOOLEAN, sent : 0 .. MaxRuns, slips : Nat]
Exists(j) == job[j].state \notin {"none", "deleted"}

\* list: what the poll read of each job, in the columns that can change under it
Copy(j) == [ivl |-> job[j].ivl, blank |-> job[j].blank]
NoCopy == [ivl |-> "none", blank |-> FALSE]
IdleSched == [pc |-> "idle", todo |-> {}, job |-> Main, list |-> [j \in Jobs |-> NoCopy]]
Sched == [pc : {"idle", "pick", "send", "cleanup"}, todo : SUBSET Jobs, job : Sessions,
          list : [Jobs -> [ivl : Intervals, blank : BOOLEAN]]]

\* turn: the text of the current turn is the event's own, blank, or that of a merged batch,
\* whose metadata name no job
\* waited: the handler has waited for delegates or processes since that turn
IdleTask == [pc |-> "none", turn |-> "own", waited |-> FALSE]
Owning == {"turn", "note_insert", "complete", "drain", "delegates", "redrain", "finish", "reserve"}
Handler == [pc : Owning \cup {"none", "submit", "insert", "ended"},
            turn : {"own", "blank", "batch"}, waited : BOOLEAN]
Live(t) == task[t].pc \in Owning
Handled(s) == \E t \in Tasks : Live(t) /\ Sess(t) = s

\* stray: the entry was inserted by a notification, for which nobody runs a turn
Empty == [in |-> FALSE, q |-> {}, stray |-> FALSE]
Fresh == [in |-> TRUE, q |-> {}, stray |-> FALSE]
Session == [in : BOOLEAN, q : SUBSET Events, stray : BOOLEAN]

\* The entry that is inserted in s replaces the one of a handler that is at work
CreatedBy(s) == {j \in Jobs : job[j].state # "none" /\ job[j].by = s}
Inserted(s) ==
  /\ crossed' = IF Handled(s) THEN crossed \cup {s} ELSE crossed
  /\ excused' = IF Handled(s) THEN excused \cup CreatedBy(s) ELSE excused

Spend == load < MaxLoad /\ load' = load + 1
Slip(j) == [job EXCEPT ![j].slips = @ + 1]
Goto(t, pc) == task' = [task EXCEPT ![t].pc = pc]
Ends(t) == task' = [task EXCEPT ![t] = [IdleTask EXCEPT !.pc = "ended"]]
Known == UNCHANGED <<procs, crossed, excused, managed>>
Calm == Known /\ UNCHANGED load

Init ==
  /\ map = [s \in Sessions |-> Empty]
  /\ task = [t \in Tasks |-> IdleTask]
  /\ job = [j \in Jobs |-> NoRow]
  /\ sched = IdleSched
  /\ procs = {} /\ load = 0
  /\ taken = {} /\ crossed = {} /\ excused = {} /\ managed = {}
-----------------------------------------------------------------------------
(* A message arrives; the event loop spawns a task for it.  Which message  *)
(* comes first is the same to the runtime.                                 *)

InjectMessage ==
  LET new == {m \in Messages : task[m].pc = "none"} IN
  /\ new # {}
  /\ Goto(CHOOSE m \in new : TRUE, "submit")
  /\ Calm
  /\ UNCHANGED <<map, job, sched, taken>>

\* SessionCoordinator::submit_or_queue looks the session up, and inserts it in a second step
Pushed(s, e) == map' = [map EXCEPT ![s].q = @ \cup {e}]

SubmitOrQueue(t) ==
  /\ task[t].pc = "submit"
  /\ \/ /\ map[Sess(t)].in /\ Pushed(Sess(t), t) /\ Ends(t)
        /\ job' = IF t \in Messages THEN job ELSE Slip(t[2])    \* the run joins a batch
     \/ ~map[Sess(t)].in /\ Goto(t, "insert") /\ UNCHANGED <<map, job>>
  /\ Calm
  /\ UNCHANGED <<sched, taken>>

RunNow(t) ==
  /\ task[t].pc = "insert"
  /\ map' = [map EXCEPT ![Sess(t)] = Fresh]
  /\ Goto(t, "turn")
  /\ taken' = taken \cup {t}
  /\ Inserted(Sess(t))
  /\ UNCHANGED <<job, sched, procs, load, managed>>
-----------------------------------------------------------------------------
(* process_single_turn.                                                    *)

\* The tools that reach the jobs are given to every session but those of cron jobs
HasTools(t) == /\ task[t].pc = "turn" /\ task[t].turn # "blank"
               /\ Sess(t) \in {Main} \cup {j \in Jobs : job[j].kind = "delegate"}

\* delegate, wake, cron create.  The next free row
CreateJob(t, new) ==
  LET free == {j \in Jobs : job[j].state = "none"}
      j == CHOOSE i \in free : TRUE IN
  /\ HasTools(t) /\ free # {} /\ Spend
  /\ job' = [job EXCEPT ![j] = [NoRow EXCEPT !.state = "active", !.by = Sess(t), !.kind = new.kind,
               !.ivl = new.ivl, !.limit = new.limit, !.next = new.next, !.blank = new.blank]]
  /\ excused' = IF Sess(t) \in crossed THEN excused \cup {j} ELSE excused
  /\ UNCHANGED <<map, task, sched, procs, taken, crossed, managed>>

\* cron cancel, pause, resume, update of the prompt and of the interval: any job whose id
\* is known, delegated ones too
ManageJob(t, j) ==
  /\ HasTools(t) /\ Exists(j)
  /\ \/ /\ \/ job' = [job EXCEPT ![j].state = "deleted"]
           \/ job[j].state # "active" /\ job' = [job EXCEPT ![j].state = "active"]
           \/ \E b \in BOOLEAN \ {job[j].blank} : job' = [job EXCEPT ![j].blank = b]
           \/ \E i \in {"zero", "some"} \ {job[j].ivl} : job' = [job EXCEPT ![j].ivl = i]
        /\ UNCHANGED excused
     \/ /\ job[j].state # "paused" /\ job' = [job EXCEPT ![j].state = "paused"]
        /\ excused' = excused \cup {j}
  /\ managed' = managed \cup {j}
  /\ Spend
  /\ UNCHANGED <<map, task, sched, procs, taken, crossed>>

\* The turn of one scheduled event that was run: process_single_turn returns at once
\* when the text is blank, and a merged batch is no job's
Scheduled(t) == t \in Dispatches /\ task[t].turn = "own"
Parent(t) == job[t[2]].by

\* Mutant: the job is completed before the notification is queued.
NotifyAfterComplete(t) ==
  LET j == t[2] IN
  /\ task[t].pc = "turn" /\ Scheduled(t)
  /\ \/ /\ job[j].kind = "delegate" /\ Exists(j) /\ ~job[j].result
        /\ job' = [job EXCEPT ![j].state = "completed", ![j].run = "no", ![j].result = TRUE]
        /\ UNCHANGED <<map, task>>
     \/ /\ job[j].kind = "delegate" => job[j].result \/ ~Exists(j)
        /\ UNCHANGED job
        /\ \/ map[Parent(t)].in /\ Pushed(Parent(t), Note(t[2], t[3])) /\ Goto(t, "complete")
           \/ ~map[Parent(t)].in /\ UNCHANGED map /\ Goto(t, "note_insert")
  /\ Calm
  /\ UNCHANGED <<sched, taken>>

\* Mutant: the notification is queued without a look-up.
NotifyUnchecked(t) ==
  /\ task[t].pc = "turn" /\ Scheduled(t)
  /\ Pushed(Parent(t), Note(t[2], t[3])) /\ Goto(t, "complete")
  /\ Calm
  /\ UNCHANGED <<job, sched, taken>>

\* When its turn is over, the handler of a scheduled event notifies the session that
\* created the job: all do, not only delegates, because the scheduler gives every event a
\* parent.  The submission's answer is dropped: where it says RunNow, nobody runs the turn
NotifyParent(t) ==
  /\ task[t].pc = "turn" /\ Scheduled(t)
  /\ \/ map[Parent(t)].in /\ Pushed(Parent(t), Note(t[2], t[3])) /\ Goto(t, "complete")
     \/ ~map[Parent(t)].in /\ UNCHANGED map /\ Goto(t, "note_insert")
  /\ Calm
  /\ UNCHANGED <<job, sched, taken>>

NotifyInserts(t) ==
  /\ task[t].pc = "note_insert"
  /\ map' = [map EXCEPT ![Parent(t)] = [Fresh EXCEPT !.stray = TRUE]]
  /\ Goto(t, "complete")
  /\ Inserted(Parent(t))
  /\ UNCHANGED <<job, sched, procs, load, taken, managed>>

\* complete_delegate_result: the statement names the delegates only
CompleteDelegate(t) ==
  LET j == t[2] IN
  /\ task[t].pc = "complete"
  /\ \/ /\ job' = IF Exists(j) /\ job[j].kind = "delegate"
                    THEN [job EXCEPT ![j].state = "completed", ![j].run = "no", ![j].result = TRUE]
                    ELSE job
        /\ UNCHANGED load
     \/ Spend /\ job' = Slip(j)
  /\ Goto(t, "drain")
  /\ Known
  /\ UNCHANGED <<map, sched, taken>>
-----------------------------------------------------------------------------
(* handle_inbound after a turn: what was queued becomes the next turn; the *)
(* session is kept while delegates or background processes are active.     *)

NextTurn(t, events, pc) ==
  /\ task' = [task EXCEPT ![t] = [pc |-> pc, turn |-> "batch", waited |-> FALSE]]
  /\ taken' = taken \cup events

\* drain_queued: after a turn, while waiting, and once more after a wait
AtDrain(t) == task[t].pc \in {"drain", "redrain"} \/ (task[t].pc = "turn" /\ ~Scheduled(t))

DrainQueued(t) ==
  /\ AtDrain(t)
  /\ IF map[Sess(t)].q # {}
       THEN /\ NextTurn(t, map[Sess(t)].q, "turn")
            /\ map' = [map EXCEPT ![Sess(t)].q = {}]
       ELSE /\ Goto(t, IF task[t].pc = "redrain" THEN "finish" ELSE "delegates")
            /\ UNCHANGED <<map, taken>>
  /\ Calm
  /\ UNCHANGED <<job, sched>>

Wait(t) == task' = [task EXCEPT ![t].pc = "drain", ![t].waited = TRUE]

\* session_has_active_delegates: an unreadable table counts as no delegates
ActiveDelegates(s) ==
  {j \in Jobs : job[j].by = s /\ job[j].kind = "delegate" /\ job[j].state = "active"}

IdleNow(t) == Goto(t, IF task[t].waited THEN "redrain" ELSE "finish")

CheckIdle(t) ==
  LET waits == Sess(t) \in procs IN
  /\ task[t].pc = "delegates"
  /\ \/ (IF waits \/ ActiveDelegates(Sess(t)) # {} THEN Wait(t) ELSE IdleNow(t)) /\ Calm
     \/ /\ Spend /\ (IF waits THEN Wait(t) ELSE IdleNow(t))
        /\ excused' = excused \cup ActiveDelegates(Sess(t))
        /\ UNCHANGED <<procs, crossed, managed>>
  /\ UNCHANGED <<map, job, sched, taken>>

\* ProcessRegistry::spawn; a process is killed when its timeout has run out
SpawnProcess(t) ==
  /\ task[t].pc = "turn" /\ task[t].turn # "blank" /\ Sess(t) \notin procs
  /\ procs' = procs \cup {Sess(t)}
  /\ Spend
  /\ UNCHANGED <<map, task, job, sched, taken, crossed, excused, managed>>

ProcessEnds(s) ==
  /\ s \in procs
  /\ procs' = procs \ {s}
  /\ UNCHANGED <<map, task, job, sched, load, taken, crossed, excused, managed>>

\* Mutant: the entry is only removed when something was queued in it.
FinishKeepsEntry(t) ==
  /\ task[t].pc = "finish"
  /\ IF map[Sess(t)].q # {}
       THEN map' = [map EXCEPT ![Sess(t)] = Empty] /\ NextTurn(t, map[Sess(t)].q, "reserve")
       ELSE Ends(t) /\ UNCHANGED <<map, taken>>
  /\ Calm
  /\ UNCHANGED <<job, sched>>

\* finish_turn removes the entry; what was queued since is processed under a new one
FinishTurn(t) ==
  LET s == Sess(t) IN
  /\ task[t].pc = "finish"
  /\ map' = [map EXCEPT ![s] = Empty]
  /\ IF map[s].q # {}
       THEN NextTurn(t, map[s].q, "reserve") /\ UNCHANGED crossed
       ELSE /\ Ends(t) /\ UNCHANGED taken
            /\ crossed' = IF \E u \in Tasks \ {t} : Live(u) /\ Sess(u) = s
                            THEN crossed ELSE crossed \ {s}
  /\ UNCHANGED <<job, sched, procs, load, excused, managed>>

Reserve(t) ==
  /\ task[t].pc = "reserve"
  /\ map' = [map EXCEPT ![Sess(t)] = Fresh]
  /\ Goto(t, "turn")
  /\ Calm
  /\ UNCHANGED <<job, sched, taken>>
-----------------------------------------------------------------------------
(* The scheduler: one task, one job after the other.                       *)

\* Mutants: a lease that never runs out, none at all, and jobs that are due once.
LeaseForEver(j) == job[j].kind = "delegate" /\ job[j].run # "no"
NoLease(j) == FALSE
Leased(j) == job[j].kind = "delegate" /\ job[j].run = "leased"

DueOnce == {j \in Jobs : job[j].state = "active" /\ job[j].next # "future" /\ job[j].sent = 0}
DueJobs == {j \in Jobs : job[j].state = "active" /\ job[j].next # "future" /\ ~Leased(j)}

ListDue ==
  /\ sched.pc = "idle" /\ DueJobs # {}
  /\ \A j \in DueJobs : job[j].sent < MaxRuns
  /\ sched' = [IdleSched EXCEPT !.pc = "pick", !.todo = DueJobs,
                !.list = [j \in Jobs |-> IF j \in DueJobs THEN Copy(j) ELSE NoCopy]]
  /\ Calm
  /\ UNCHANGED <<map, task, job, taken>>

\* dispatch_job returned: on to the next of the list
Next1(todo) == IF todo = {} THEN IdleSched ELSE [sched EXCEPT !.pc = "pick", !.todo = todo, !.job = Main]

Recurring(j) == sched.list[j].ivl = "some"
Stale(j) == Recurring(j) /\ job[j].next = "stale"

\* fast_forward_if_stale: a stale recurring job is passed over, and left as it is
FastForward(j) ==
  /\ sched.pc = "pick" /\ j \in sched.todo /\ Stale(j)
  /\ sched' = Next1(sched.todo \ {j})
  /\ Calm
  /\ UNCHANGED <<map, task, job, taken>>

\* update_next_run, for all recurring jobs but wake-ups; the row may be gone or paused by
\* now, the listed copy goes on
AdvanceNextRun(j) ==
  LET advances == Recurring(j) /\ job[j].kind # "wake" IN
  /\ sched.pc = "pick" /\ j \in sched.todo /\ ~Stale(j)
  /\ \/ /\ job' = IF advances THEN [job EXCEPT ![j].next = "future"] ELSE job
        /\ sched' = [sched EXCEPT !.pc = "send", !.todo = @ \ {j}, !.job = j]
        /\ UNCHANGED load
     \/ /\ advances /\ Spend
        /\ sched' = Next1(sched.todo \ {j}) /\ UNCHANGED job
  /\ Known
  /\ UNCHANGED <<map, task, taken>>

\* The sub-agent of a delegate left the registry: failed, and nobody is told
AgentMissing ==
  LET j == sched.job IN
  /\ sched.pc = "send" /\ job[j].kind = "delegate" /\ Spend
  /\ job' = IF Exists(j) THEN [job EXCEPT ![j].state = "completed", ![j].run = "no"] ELSE job
  /\ sched' = Next1(sched.todo)
  /\ excused' = excused \cup {j}
  /\ UNCHANGED <<map, task, procs, taken, crossed, managed>>

\* record_run("running") starts the lease, which only delegates have; its failure is only
\* logged.  The event, with the prompt that was listed, goes into the inbound channel
SendInbound ==
  LET j == sched.job
      n == job[j].sent + 1
      delegate == Exists(j) /\ job[j].kind = "delegate" IN
  /\ sched.pc = "send"
  /\ \/ /\ job' = [job EXCEPT ![j].sent = n, ![j].run = IF delegate THEN "leased" ELSE @]
        /\ UNCHANGED load
     \/ /\ delegate /\ Spend
        /\ job' = [job EXCEPT ![j].sent = n, ![j].slips = @ + 1]
  /\ task' = [task EXCEPT ![Dispatch(j, n)] =
                [IdleTask EXCEPT !.pc = "submit", !.turn = IF sched.list[j].blank THEN "blank" ELSE "own"]]
  /\ sched' = IF job[j].kind = "delegate" THEN Next1(sched.todo) ELSE [sched EXCEPT !.pc = "cleanup"]
  /\ Known
  /\ UNCHANGED <<map, taken>>

\* One-shot jobs and wake-ups are deleted, counted ones when their count is reached
Cleanup ==
  LET j == sched.job
      once == sched.list[j].ivl = "zero" \/ job[j].kind = "wake"
      counted == ~once /\ job[j].limit > 0
      last == once \/ (counted /\ job[j].rep + 1 >= job[j].limit) IN
  /\ sched.pc = "cleanup"
  /\ \/ /\ job' = [job EXCEPT ![j].rep = IF counted THEN @ + 1 ELSE @,
                              ![j].state = IF last THEN "deleted" ELSE @]
        /\ UNCHANGED load
     \/ (once \/ counted) /\ Spend /\ job' = Slip(j)
  /\ sched' = Next1(sched.todo)
  /\ Known
  /\ UNCHANGED <<map, task, taken>>
-----------------------------------------------------------------------------
(* Time and restarts.                                                      *)

SetNext(j, from, to) == job[j].next = from /\ job' = [job EXCEPT ![j].next = to]

NextRunComes(j) ==
  /\ Exists(j) /\ job[j].sent < MaxRecur
  /\ SetNext(j, "future", "due")
  /\ Calm
  /\ UNCHANGED <<map, task, sched, taken>>

\* The scheduler was down or held up for longer than the interval
PollIsLate(j) ==
  /\ Exists(j) /\ job[j].ivl = "some" /\ Spend
  /\ SetNext(j, "due", "stale")
  /\ Known
  /\ UNCHANGED <<map, task, sched, taken>>

Underway(j) == \E n \in 1 .. MaxRuns : task[Dispatch(j, n)].pc \notin {"none", "ended"}

\* Half an hour after the run was recorded
LeaseExpires(j) ==
  /\ Exists(j) /\ Leased(j) /\ (job[j].blank => job[j].sent < MaxBlank)
  /\ \/ /\ ~Underway(j) /\ UNCHANGED load
        /\ job' = [job EXCEPT ![j].run = "expired"]
     \/ /\ Underway(j) /\ Spend
        /\ job' = [job EXCEPT ![j].run = "expired", ![j].slips = @ + 1]
  /\ Known
  /\ UNCHANGED <<map, task, sched, taken>>

\* Everything but cron_jobs is in memory
Restart ==
  /\ \E t \in Tasks : task[t].pc \notin {"none", "ended"}
  /\ Spend
  /\ map' = [s \in Sessions |-> Empty]
  /\ task' = [t \in Tasks |-> IF task[t].pc = "none" THEN IdleTask ELSE [IdleTask EXCEPT !.pc = "ended"]]
  /\ sched' = IdleSched
  /\ job' = [j \in Jobs |-> IF Exists(j) THEN [job[j] EXCEPT !.slips = @ + 1] ELSE job[j]]
  /\ procs' = {} /\ crossed' = {}
  /\ excused' = excused \cup {j \in Jobs : job[j].state # "none"}
  /\ UNCHANGED <<taken, managed>>
-----------------------------------------------------------------------------
TaskStep(t) == \/ SubmitOrQueue(t) \/ RunNow(t)
               \/ NotifyParent(t) \/ NotifyInserts(t) \/ CompleteDelegate(t)
               \/ DrainQueued(t) \/ CheckIdle(t)
               \/ FinishTurn(t) \/ Reserve(t)
SchedulerStep == \/ ListDue \/ SendInbound \/ Cleanup
                 \/ \E j \in Jobs : FastForward(j) \/ AdvanceNextRun(j)

Next ==
  \/ InjectMessage
  \/ \E t \in Tasks : \/ TaskStep(t) \/ SpawnProcess(t)
                      \/ \E new \in Asked : CreateJob(t, new)
                      \/ \E j \in Jobs : ManageJob(t, j)
  \/ \E s \in Sessions : ProcessEnds(s)
  \/ SchedulerStep \/ AgentMissing
  \/ \E j \in Jobs : NextRunComes(j) \/ PollIsLate(j) \/ LeaseExpires(j)
  \/ Restart

\* Tasks and the scheduler's poll run, a process ends or is killed when its timeout has run
\* out, and so does the half hour of a lease
Fairness == /\ \A t \in Tasks : WF_vars(TaskStep(t))
            /\ WF_vars(SchedulerStep)
            /\ \A s \in Sessions : WF_vars(ProcessEnds(s))
            /\ \A j \in Jobs : WF_vars(LeaseExpires(j))

Spec == Init /\ [][Next]_vars
LiveSpec == Spec /\ Fairness
-----------------------------------------------------------------------------
\* The types of the variables; only a session in the coordinator's map has a queue.
TypeOK ==
  /\ map \in [Sessions -> Session]
  /\ \A s \in Sessions : ~map[s].in => map[s].q = {}
  /\ task \in [Tasks -> Handler]
  /\ job \in [Jobs -> Row]
  /\ sched \in Sched
  /\ procs \subseteq Sessions /\ load \in 0 .. MaxLoad
  /\ taken \subseteq Events /\ crossed \subseteq Sessions
  /\ excused \subseteq Jobs /\ managed \subseteq Jobs

\* The result of a delegated task reaches the session that waits for it: when the result
\* is on record, the notification is queued there or was given to a turn.  Five things can
\* lose it, and excuse this job alone: the runtime was restarted after it was created; its
\* session had two handlers, then or when it was created; the session's handler could not
\* read the job table while the job was active; the sub-agent left the registry; and the
\* job was paused through the cron tool.
ResultReachesParent ==
  \A j \in Jobs : job[j].result /\ j \notin excused =>
    \E n \in 1 .. MaxRuns : Note(j, n) \in taken \cup map[job[j].by].q

\* A job that is to run once, or a fixed number of times, is dispatched no more often than
\* that, and once more for each of its own slips: a run that outlived its lease, was lost
\* in a restart or joined another turn's batch, or a statement about it that failed.  A
\* lease keeps a delegate from being dispatched by every poll, and the others are deleted
\* before the next poll.  Two kinds of job are dispatched again without any slip: one that
\* was changed through the cron tool, and a delegate whose goal is blank, which nothing
\* completes.
NoExtraRuns ==
  \A j \in Jobs \ managed :
    LET planned == IF job[j].kind = "cron" /\ job[j].ivl = "some" THEN job[j].limit ELSE 1
        unending == \/ job[j].kind = "delegate" /\ job[j].blank
                    \/ job[j].kind = "cron" /\ planned = 0 IN
    job[j].kind # "none" /\ ~unending => job[j].sent <= planned + job[j].slips

\* A delegate that may never be settled: nothing completes one whose goal is blank, and one
\* that was given an interval through the cron tool is dispatched no more once it is stale
Hopeless(j) == job[j].blank \/ job[j].ivl = "some"

\* A session's handlers end, once no more messages come: they are not left waiting for a
\* delegate whose run was lost, or whose completion could not be written.  They wait for
\* ever only for a delegate of their session whose goal is blank or that was given an
\* interval.
HandlersEnd == \A s \in Sessions :
  Handled(s) ~> (~Handled(s) \/ \E j \in ActiveDelegates(s) : Hopeless(j))

\* A delegated task is settled, also when the runtime restarts in the middle of it, unless
\* its goal is blank or it was given an interval.
DelegatesSettle == \A j \in Jobs :
  (job[j].kind = "delegate" /\ job[j].state = "active")
    ~> (job[j].state # "active" \/ Hopeless(j))

\* A session in the coordinator's map belongs to a handler that will drain its queue, so
\* what is queued there is worked on after the current turn, also when two handlers were
\* given the same session.  One thing can leave it without one, and every later message
\* queued for ever: a notification that found the session idle.
ReservedIsOwned ==
  \A s \in Sessions : map[s].in /\ ~map[s].stray => Handled(s)
=============================================================================
