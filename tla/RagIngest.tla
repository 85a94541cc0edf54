----------------------------- MODULE RagIngest ------------------------------
(***************************************************************************)
(* One RAG source and its documents: the periodic scans that reserve       *)
(* ingest attempts and enqueue prunes (internal/rag/scheduler), the ingest *)
(* and prune workers (internal/rag/tasks), the API calls on the source     *)
(* (internal/handler/rag_sources_*.go) and the upstream it copies.         *)
(*                                                                         *)
(* A step is one database transaction or statement, one call of the vector *)
(* store, or one document read from the connector (here GitHub's, whose    *)
(* checkpoint of a finished run says "done").                              *)
(*                                                                         *)
(* Times are ages, counted in ticks.  What the poll window compares is     *)
(* kept per document: a document is in reach when its last change is not   *)
(* before the start of the window the next run computes, and in a worker's *)
(* late when the change came after the end of that worker's window.  What  *)
(* the settings ask for is kept per document too: config holds the         *)
(* documents of the configured repositories, floor those last changed      *)
(* before indexing_start.                                                  *)
(***************************************************************************)
EXTENDS Naturals, FiniteSets

CONSTANTS
  Docs,             \* upstream document ids
  Attempts,         \* bound: attempt rows kept at once; settled ones are reused
  NoAttempt,
  Workers,          \* ingest workers that may run at once
  BatchSize,        \* Deps.BatchSize
  PollOverlap,      \* pollOverlap of computeIngestWindow and of the connector
  RefreshFreq,      \* bound: the longest refresh_freq_seconds; a source starts with it
  TaskTimeout,      \* asynq's timeout of a task that sets none
  WatchdogTimeout,  \* RAG_WATCHDOG_TIMEOUT
  MaxEvents         \* bound: user calls, prunes, upstream changes, failures and crashes

ASSUME ConstantsOK ==
  /\ NoAttempt \notin Attempts
  /\ BatchSize \in Nat \ {0} /\ PollOverlap \in Nat /\ RefreshFreq \in Nat
  /\ TaskTimeout \in Nat \ {0} /\ WatchdogTimeout \in Nat
  /\ TaskTimeout <= WatchdogTimeout
  /\ MaxEvents \in Nat

VARIABLES
  source,    \* the rag_sources row, with its settings
  attempt,   \* the rag_index_attempts rows
  scan,      \* the reservation the ingest scan has yet to enqueue
  tasks,     \* ingest tasks in the queue
  worker,    \* ingest workers
  prune,     \* the prune task: its pc and the documents upstream listed
  upstream,  \* each document: does it exist, age of its last change
  index,     \* the vector store: "none", "old" or "cur" version of a document
  reach,     \* documents whose last change the next window covers
  blame,     \* history: documents something kept from being indexed since their last change
  orphans,   \* history: reservations whose scan, task or worker was lost before the claim
  events     \* what MaxEvents bounds

vars == <<source, attempt, scan, tasks, worker, prune, upstream, index, reach, blame,
          orphans, events>>
-----------------------------------------------------------------------------
Active == {"not_started", "in_progress"}    \* the terminal statuses are all "ended"
Schedulable == {"ACTIVE", "INITIAL_INDEXING"}
Versions == {"none", "old", "cur"}
SourceStatus == Schedulable \cup {"PAUSED", "ERROR", "deleted"}

Row(st) == [st |-> st, idle |-> 0]
NoTask == [att |-> NoAttempt, full |-> FALSE]
Nothing == [d \in Docs |-> "none"]
Idle == [pc |-> "idle", task |-> NoTask, att |-> NoAttempt, st |-> "ACTIVE", age |-> 0,
         config |-> {}, todo |-> {}, late |-> {}, batch |-> Nothing,
         batched |-> FALSE, failed |-> FALSE, resumed |-> FALSE]
NoPrune == [pc |-> "idle", keep |-> {}]

Older(age, cap) == IF age >= cap THEN cap ELSE age + 1
Exists == {d \in Docs : upstream[d].exists}
Wanted == (Exists \cap source.config) \ source.floor
Alive == source.st # "deleted"
Running(w) == worker[w].pc \notin {"idle", "loaded"}

\* sourceHasActiveIngestAttempt and activeAttemptExists: both count these rows
ActiveAttempts == {a \in Attempts : attempt[a].st \in Active}
\* A settled row nobody holds stands for the next one the code creates
Held == {scan} \cup {t.att : t \in tasks} \cup {worker[w].att : w \in Workers}
          \cup {worker[w].task.att : w \in Workers}
Free == {a \in Attempts : attempt[a].st \notin Active} \ Held
NewRow == CHOOSE a \in Free : TRUE

\* A floor is a date: what changed later than a document above it is above it,
\* and it does not lie in the future
Floors == {D \in SUBSET Docs : \A d \in D, e \in Docs \ D : upstream[d].age >= upstream[e].age}

\* A source just created, or one that has been indexed and left in peace since
Init ==
  /\ upstream \in [Docs -> [exists : BOOLEAN, age : {PollOverlap + 1}]]
  /\ \E never \in BOOLEAN, config \in SUBSET Docs :
       /\ source = [st |-> IF never THEN "INITIAL_INDEXING" ELSE "ACTIVE", never |-> never,
                    cp |-> ~never, age |-> 0, config |-> config, floor |-> {},
                    freq |-> RefreshFreq]
       /\ index = [d \in Docs |-> IF d \in Exists \cap config /\ ~never THEN "cur" ELSE "none"]
       /\ tasks \in IF never THEN {{}, {NoTask}} ELSE {{}}   \* dispatchInitialIngest may fail to enqueue
  /\ attempt = [a \in Attempts |-> Row("none")]
  /\ scan = NoAttempt
  /\ worker = [w \in Workers |-> Idle]
  /\ prune = NoPrune
  /\ reach = {}
  /\ blame = {}
  /\ orphans = {}
  /\ events = 0
-----------------------------------------------------------------------------
(* The ingest scan and the watchdog.                                       *)

\* selectIngestDueSourceIDs and sourceIngestDue
IngestDue == /\ source.st \in Schedulable
             /\ source.never \/ source.age > source.freq

ReserveIngestAttempt ==
  /\ scan = NoAttempt /\ IngestDue /\ ActiveAttempts = {} /\ Free # {}
  /\ attempt' = [attempt EXCEPT ![NewRow] = Row("not_started")]
  /\ scan' = NewRow
  /\ UNCHANGED <<source, tasks, worker, prune, upstream, index, reach, blame, orphans>>

\* Mutant: the uniqueness key is the source alone, and the task counts as a duplicate.
SwallowIngest ==
  /\ scan # NoAttempt
  /\ scan' = NoAttempt
  /\ UNCHANGED <<source, attempt, tasks, worker, prune, upstream, index, reach, blame, orphans>>

EnqueueIngest ==
  /\ scan # NoAttempt
  /\ tasks' = tasks \cup {[att |-> scan, full |-> FALSE]}
  /\ scan' = NoAttempt
  /\ UNCHANGED <<source, attempt, worker, prune, upstream, index, reach, blame, orphans>>

FailIngestReservation ==
  /\ scan # NoAttempt
  /\ attempt' = IF attempt[scan].st = "not_started"
                THEN [attempt EXCEPT ![scan] = Row("ended")] ELSE attempt
  /\ scan' = NoAttempt
  /\ UNCHANGED <<source, tasks, worker, prune, upstream, index, reach, blame, orphans>>

\* The process ends between the reservation and the enqueue
ScanCrash ==
  /\ scan # NoAttempt
  /\ scan' = NoAttempt
  /\ orphans' = orphans \cup {scan}
  /\ UNCHANGED <<source, attempt, tasks, worker, prune, upstream, index, reach, blame>>

\* Mutants: a timeout shorter than a task may take, and none.
StuckEarly(a) == attempt[a].st = "in_progress" /\ attempt[a].idle > 0
NeverStuck(a) == attempt[a].st = "in_progress" /\ FALSE
Stuck(a) == attempt[a].st = "in_progress" /\ attempt[a].idle > WatchdogTimeout

ScanStuckAttempts ==
  /\ \E a \in Attempts : Stuck(a)
  /\ attempt' = [a \in Attempts |->
                   IF Stuck(a) THEN Row("ended") ELSE attempt[a]]
  /\ UNCHANGED <<source, scan, tasks, worker, prune, upstream, index, reach, blame, orphans>>
-----------------------------------------------------------------------------
(* The ingest worker.                                                      *)

Goto(w, next) == worker' = [worker EXCEPT ![w].pc = next]
Leave(w) == worker' = [worker EXCEPT ![w] = Idle]

\* computeIngestWindow, as the documents whose last change it starts before;
\* the source was read before the attempt was opened
Window(full) == (IF full \/ source.never THEN Docs ELSE reach) \ source.floor

\* What finalizeAttempt tells apart of the status read with the source
Read(st) == IF st \in {"INITIAL_INDEXING", "ERROR"} THEN st ELSE "ACTIVE"

\* HandleIngest up to openAttempt: the task is gone even when the source is
LoadSource(t) ==
  LET w == CHOOSE v \in Workers : worker[v].pc = "idle" IN
  /\ \E v \in Workers : worker[v].pc = "idle"
  /\ tasks' = tasks \ {t}
  /\ worker' = IF Alive
               THEN [worker EXCEPT ![w] = [Idle EXCEPT !.pc = "loaded", !.task = t,
                                           !.st = Read(source.st), !.config = source.config,
                                           !.todo = Window(t.full)]]
               ELSE worker
  /\ UNCHANGED <<source, attempt, scan, prune, upstream, index, reach, blame, orphans>>

\* buildConnector fails before the attempt is claimed, and MaxRetry is 0
BuildConnectorFails(t) ==
  /\ Alive
  /\ tasks' = tasks \ {t}
  /\ orphans' = orphans \cup ({t.att} \ {NoAttempt})
  /\ UNCHANGED <<source, attempt, scan, worker, prune, upstream, index, reach, blame>>

\* The run begins: the window ends now, the connector lists the repositories
\* read with the source, and a checkpoint of a finished run makes it emit nothing
Begin(w, a, resumed) ==
  worker' = [worker EXCEPT ![w] = [@ EXCEPT !.pc = "fetch", !.att = a, !.task = NoTask, !.resumed = resumed,
                !.todo = IF resumed THEN {} ELSE worker[w].todo \cap Exists \cap worker[w].config]]

ClaimReservedAttempt(w) ==
  LET a == worker[w].task.att IN
  /\ worker[w].pc = "loaded" /\ a # NoAttempt
  /\ IF Alive /\ ActiveAttempts \subseteq {a} /\ attempt[a].st = "not_started"
     THEN /\ attempt' = [attempt EXCEPT ![a] = Row("in_progress")]
          /\ Begin(w, a, FALSE)
     ELSE UNCHANGED attempt /\ Leave(w)
  /\ UNCHANGED <<source, scan, tasks, prune, upstream, index, reach, blame, orphans>>

CreateAdHocAttempt(w) ==
  /\ worker[w].pc = "loaded" /\ worker[w].task.att = NoAttempt
  /\ IF ~Alive \/ ActiveAttempts # {}
     THEN UNCHANGED attempt /\ Leave(w)
     ELSE /\ Free # {}
          /\ attempt' = [attempt EXCEPT ![NewRow] = Row("in_progress")]
          /\ Begin(w, NewRow, ~worker[w].task.full /\ source.cp)
  /\ UNCHANGED <<source, scan, tasks, prune, upstream, index, reach, blame, orphans>>

InBatch(w) == {d \in Docs : worker[w].batch[d] # "none"}
BatchReady(w) == \/ Cardinality(InBatch(w)) >= BatchSize
                 \/ worker[w].todo = {} /\ InBatch(w) # {}

\* One document of the connector's stream; a change after the window's end
\* takes it out of the window
FetchDocument(w, d) ==
  /\ worker[w].pc = "fetch" /\ ~BatchReady(w) /\ d \in worker[w].todo
  /\ worker' = [worker EXCEPT ![w].todo = @ \ {d},
                  ![w].batch[d] = IF d \in worker[w].late \/ d \notin Exists THEN "none" ELSE "cur"]
  /\ UNCHANGED <<source, attempt, scan, tasks, prune, upstream, index, reach, blame, orphans>>

\* A page of the listing fails: an error row, and the rest of the listing is skipped
RecordAttemptError(w) ==
  /\ worker[w].pc = "fetch" /\ ~BatchReady(w)
  /\ worker' = [worker EXCEPT ![w].todo = {}]
  /\ blame' = blame \cup worker[w].todo
  /\ UNCHANGED <<source, attempt, scan, tasks, prune, upstream, index, reach, orphans>>

\* flushBatch: the stale parts are deleted, then the new ones embedded and written
ClearStaleParts(w) ==
  /\ worker[w].pc = "fetch" /\ BatchReady(w)
  /\ index' = [d \in Docs |-> IF d \in InBatch(w) THEN "none" ELSE index[d]]
  /\ blame' = blame \cup InBatch(w)
  /\ Goto(w, "upsert")
  /\ UNCHANGED <<source, attempt, scan, tasks, prune, upstream, reach, orphans>>

\* Upsert, then bumpAttemptProgress
UpsertBatch(w) ==
  LET b == worker[w].batch a == worker[w].att IN
  /\ worker[w].pc = "upsert"
  /\ index' = [d \in Docs |-> IF d \in InBatch(w) THEN b[d] ELSE index[d]]
  /\ blame' = blame \ {d \in Docs : b[d] = "cur"}
  /\ attempt' = [attempt EXCEPT ![a].idle = 0]
  /\ worker' = [worker EXCEPT ![w].pc = "fetch", ![w].batched = TRUE, ![w].batch = Nothing]
  /\ UNCHANGED <<source, scan, tasks, prune, upstream, reach, orphans>>

\* A fatal error: opening the stream, splitting, clearing, embedding or writing
RunFails(w) ==
  /\ worker[w].pc \in {"fetch", "upsert"}
  /\ worker' = [worker EXCEPT ![w] = [@ EXCEPT !.pc = "finalize", !.failed = TRUE,
                                       !.todo = {}, !.late = {}, !.batch = Nothing]]
  /\ UNCHANGED <<source, attempt, scan, tasks, prune, upstream, index, reach, blame, orphans>>

\* Mutant: what is batched when the stream ends is not flushed.
StreamEndsUnflushed(w) ==
  /\ worker[w].pc = "fetch" /\ worker[w].todo = {}
  /\ Goto(w, "finalize")
  /\ UNCHANGED <<source, attempt, scan, tasks, prune, upstream, index, reach, blame, orphans>>

StreamEnds(w) ==
  /\ worker[w].pc = "fetch" /\ worker[w].todo = {} /\ InBatch(w) = {}
  /\ Goto(w, "finalize")
  /\ UNCHANGED <<source, attempt, scan, tasks, prune, upstream, index, reach, blame, orphans>>

\* finalizeAttempt, its first statement
FinalizeAttempt(w) ==
  LET a == worker[w].att IN
  /\ worker[w].pc = "finalize"
  /\ attempt' = IF attempt[a].st = "none" THEN attempt ELSE [attempt EXCEPT ![a] = Row("ended")]
  /\ source' = IF worker[w].failed THEN source ELSE [source EXCEPT !.cp = TRUE]
  /\ Goto(w, "source")
  /\ UNCHANGED <<scan, tasks, prune, upstream, index, reach, blame, orphans>>

Advances(w) == ~worker[w].failed /\ (worker[w].batched \/ worker[w].st # "INITIAL_INDEXING")

\* What the window start of the next run will cover once
\* last_successful_index_time is now
Covered == {d \in Docs : upstream[d].age <= PollOverlap}

\* finalizeAttempt, its update of the source, from the status read at the start
FinalizeSource(w) ==
  LET r == worker[w]
      st == IF r.failed /\ r.st = "INITIAL_INDEXING" THEN "ERROR"
            ELSE IF ~r.failed /\ r.st \in {"INITIAL_INDEXING", "ERROR"} /\ r.batched THEN "ACTIVE"
            ELSE source.st IN
  /\ r.pc = "source"
  /\ Leave(w)
  /\ IF Alive
     THEN /\ source' = IF Advances(w) THEN [source EXCEPT !.st = st, !.never = FALSE, !.age = 0]
                       ELSE [source EXCEPT !.st = st]
          /\ reach' = IF Advances(w) THEN Covered ELSE reach
          /\ blame' = IF Advances(w) THEN blame \cup ((IF r.resumed THEN Docs ELSE r.late) \ Covered)
                      ELSE blame
     ELSE UNCHANGED <<source, reach, blame>>
  /\ UNCHANGED <<attempt, scan, tasks, prune, upstream, index, orphans>>

\* A worker that goes before it has claimed its reservation leaves it behind
Orphan(w) == orphans' = orphans \cup ({worker[w].task.att} \ {NoAttempt})

\* The context ends after TaskTimeout and every later statement fails
TimeOut(w) ==
  /\ worker[w].pc # "idle" /\ worker[w].age >= TaskTimeout
  /\ Leave(w)
  /\ Orphan(w)
  /\ UNCHANGED <<source, attempt, scan, tasks, prune, upstream, index, reach, blame>>

Crash(w) ==
  /\ worker[w].pc # "idle"
  /\ Leave(w)
  /\ Orphan(w)
  /\ UNCHANGED <<source, attempt, scan, tasks, prune, upstream, index, reach, blame>>
-----------------------------------------------------------------------------
(* The prune task: due, or asked for with TriggerPrune.                    *)

DrainSlim ==
  /\ prune.pc = "idle" /\ Alive
  /\ prune' = [pc |-> "listed", keep |-> Exists \cap source.config]
  /\ UNCHANGED <<source, attempt, scan, tasks, worker, upstream, index, reach, blame, orphans>>

StalePoints == {d \in Docs : index[d] # "none"} \ prune.keep

\* scrollStalePoints and DeleteByIDs: a document's point keeps its id for ever
DeleteStalePoints ==
  /\ prune.pc = "listed"
  /\ index' = [d \in Docs |-> IF d \in StalePoints THEN "none" ELSE index[d]]
  /\ blame' = blame \cup (StalePoints \cap Wanted)
  /\ prune' = NoPrune
  /\ UNCHANGED <<source, attempt, scan, tasks, worker, upstream, reach, orphans>>

PruneFails ==
  /\ prune.pc # "idle"
  /\ prune' = NoPrune
  /\ UNCHANGED <<source, attempt, scan, tasks, worker, upstream, index, reach, blame, orphans>>
-----------------------------------------------------------------------------
(* The API.                                                                *)

TriggerSync(full) ==
  /\ Alive
  /\ tasks' = tasks \cup {[att |-> NoAttempt, full |-> full]}
  /\ UNCHANGED <<source, attempt, scan, worker, prune, upstream, index, reach, blame, orphans>>

\* What comes into scope is older than the windows of the runs under way and
\* of the next one, unless it changed lately or nothing was indexed yet
UpdateTo(st, config, floor, freq) ==
  LET wider == (config \ floor) \ (source.config \ source.floor) IN
  /\ source' = [source EXCEPT !.st = st, !.config = config, !.floor = floor, !.freq = freq]
  /\ blame' = IF source.never THEN blame ELSE blame \cup (wider \ reach)
  /\ worker' = [w \in Workers |->
       IF worker[w].pc = "idle" \/ (Running(w) /\ worker[w].failed) THEN worker[w]
       ELSE [worker[w] EXCEPT !.late = @ \cup (wider \ (worker[w].todo \cap worker[w].config))]]

\* A PATCH of any of the settings; enabled = false keeps the scan away just as
\* PAUSED does, and a prune may be due at any time whatever its frequency
Update ==
  /\ Alive
  /\ \E st \in {source.st, "ACTIVE", "PAUSED"}, config \in SUBSET Docs,
        floor \in Floors \cup {source.floor}, freq \in 0 .. RefreshFreq :
       UpdateTo(st, config, floor, freq)
  /\ UNCHANGED <<attempt, scan, tasks, prune, upstream, index, reach, orphans>>

\* The attempts go with the row; the vector store is left as it is
Delete ==
  /\ Alive
  /\ source' = [source EXCEPT !.st = "deleted"]
  /\ attempt' = [a \in Attempts |-> Row("none")]
  /\ orphans' = {}
  /\ UNCHANGED <<scan, tasks, worker, prune, upstream, index, reach, blame>>
-----------------------------------------------------------------------------
(* Upstream, as long as somebody reads it, and the clock.                  *)

\* A document is created or edited: whatever was read of it is now old
Change(d) ==
  /\ Alive
  /\ upstream' = [upstream EXCEPT ![d] = [exists |-> TRUE, age |-> 0]]
  /\ index' = [index EXCEPT ![d] = IF @ = "cur" THEN "old" ELSE @]
  /\ worker' = [w \in Workers |->
       CASE worker[w].pc = "idle" \/ (Running(w) /\ worker[w].failed) -> worker[w]
         [] worker[w].pc = "loaded" /\ d \in worker[w].config -> [worker[w] EXCEPT !.todo = @ \cup {d}]
         [] OTHER -> [worker[w] EXCEPT !.late = @ \cup {d},
                                       !.batch[d] = IF @ = "cur" THEN "old" ELSE @]]
  /\ source' = [source EXCEPT !.floor = @ \ {d}]
  /\ reach' = reach \cup {d}
  /\ blame' = blame \ {d}
  /\ UNCHANGED <<attempt, scan, tasks, prune, orphans>>

Remove(d) ==
  /\ Alive /\ d \in Exists
  /\ upstream' = [upstream EXCEPT ![d].exists = FALSE]
  /\ UNCHANGED <<source, attempt, scan, tasks, worker, prune, index, reach, blame, orphans>>

\* Mutant: tasks have no timeout.
TickUntimed ==
  /\ worker' = [w \in Workers |-> IF worker[w].pc = "idle" THEN worker[w]
                                  ELSE [worker[w] EXCEPT !.age = @ + 1]]
  /\ UNCHANGED <<source, attempt, upstream, scan, tasks, prune, index, reach, blame, orphans>>

Tick ==
  /\ \A w \in Workers : worker[w].pc # "idle" => worker[w].age < TaskTimeout
  /\ worker' = [w \in Workers |-> IF worker[w].pc = "idle" THEN worker[w]
                                  ELSE [worker[w] EXCEPT !.age = @ + 1]]
  /\ source' = IF source.never THEN source ELSE [source EXCEPT !.age = Older(@, RefreshFreq + 1)]
  /\ attempt' = [a \in Attempts |-> IF attempt[a].st = "in_progress"
                   THEN [attempt[a] EXCEPT !.idle = Older(@, WatchdogTimeout + 1)] ELSE attempt[a]]
  /\ upstream' = [d \in Docs |-> [upstream[d] EXCEPT !.age = Older(@, PollOverlap + 1)]]
  /\ UNCHANGED <<scan, tasks, prune, index, reach, blame, orphans>>

WorkerStep(w) ==
  \/ ClaimReservedAttempt(w) \/ CreateAdHocAttempt(w)
  \/ \E d \in Docs : FetchDocument(w, d)
  \/ ClearStaleParts(w) \/ UpsertBatch(w) \/ StreamEnds(w)
  \/ FinalizeAttempt(w) \/ FinalizeSource(w) \/ TimeOut(w)

SystemStep ==
  \/ ReserveIngestAttempt \/ EnqueueIngest \/ ScanStuckAttempts
  \/ \E t \in tasks : LoadSource(t)
  \/ \E w \in Workers : WorkerStep(w)
  \/ DeleteStalePoints
  \/ Tick

Event ==
  \/ FailIngestReservation \/ ScanCrash
  \/ DrainSlim \/ PruneFails
  \/ \E t \in tasks : BuildConnectorFails(t)
  \/ \E w \in Workers : RecordAttemptError(w) \/ RunFails(w) \/ Crash(w)
  \/ \E full \in BOOLEAN : TriggerSync(full)
  \/ Update \/ Delete
  \/ \E d \in Docs : Change(d) \/ Remove(d)

Next == \/ SystemStep /\ UNCHANGED events
        \/ events < MaxEvents /\ Event /\ events' = events + 1

Spec == Init /\ [][Next]_vars

\* Redis is not down for ever (SF of the enqueue); workers, the watchdog and
\* time go on.  Crashes, failures and what users do are never obliged.
Quiet(A) == A /\ UNCHANGED events
Fairness ==
  /\ WF_vars(Quiet(ReserveIngestAttempt)) /\ SF_vars(Quiet(EnqueueIngest))
  /\ WF_vars(Quiet(ScanStuckAttempts)) /\ WF_vars(Quiet(Tick))
  /\ \A w \in Workers : WF_vars(Quiet(WorkerStep(w)))
  /\ WF_vars(Quiet(\E t \in tasks : LoadSource(t)))

LiveSpec == Spec /\ Fairness
-----------------------------------------------------------------------------
(* Properties.                                                             *)

SourceState == [st : SourceStatus, never : BOOLEAN, cp : BOOLEAN, age : 0 .. RefreshFreq + 1,
                config : SUBSET Docs, floor : SUBSET Docs, freq : 0 .. RefreshFreq]
AttemptState == [st : Active \cup {"none", "ended"}, idle : 0 .. WatchdogTimeout + 1]
Task == [att : Attempts \cup {NoAttempt}, full : BOOLEAN]
WorkerState ==
  [pc : {"idle", "loaded", "fetch", "upsert", "finalize", "source"},
   task : Task, att : Attempts \cup {NoAttempt}, st : SourceStatus, age : 0 .. TaskTimeout,
   config : SUBSET Docs, todo : SUBSET Docs, late : SUBSET Docs, batch : [Docs -> Versions],
   batched : BOOLEAN, failed : BOOLEAN, resumed : BOOLEAN]

\* The types of the variables
TypeOK ==
  /\ source \in SourceState
  /\ attempt \in [Attempts -> AttemptState]
  /\ scan \in Attempts \cup {NoAttempt}
  /\ tasks \subseteq Task
  /\ worker \in [Workers -> WorkerState]
  /\ prune \in [pc : {"idle", "listed"}, keep : SUBSET Docs]
  /\ upstream \in [Docs -> [exists : BOOLEAN, age : 0 .. PollOverlap + 1]]
  /\ index \in [Docs -> Versions]
  /\ reach \subseteq Docs
  /\ blame \subseteq Docs
  /\ orphans \subseteq Attempts
  /\ events \in 0 .. MaxEvents

\* Only one run writes a source's documents at a time, and it holds the only
\* active attempt: reservations and ad hoc attempts exclude each other under
\* the source's row lock, and the watchdog, which knows nothing of workers,
\* never fails the attempt of one that is still writing
\* (ingest_loop.go, ingest_attempt.go, watchdog.go).
OneWriter ==
  /\ Cardinality(ActiveAttempts) <= 1
  /\ \A w \in Workers : worker[w].pc \in {"fetch", "upsert", "finalize"} /\ Alive =>
       attempt[worker[w].att].st = "in_progress"
  /\ \A w1, w2 \in Workers : Running(w1) /\ Running(w2) /\ w1 # w2 =>
       "source" \in {worker[w1].pc, worker[w2].pc}

\* A document the settings ask for and the index lacks, or holds an old version
\* of, is in the window of the next run, unless one of six things kept it out
\* since its last change: the run that should have read it outlived the overlap,
\* resumed from the checkpoint of a finished run, recorded an error, or died
\* between clearing and writing it, a prune that listed upstream before it was
\* created or added removed it, or it came into scope when its last change was
\* out of the window, because its repository was added or indexing_start moved
\* back (computeIngestWindow, finalizeAttempt, flushBatch, HandlePrune, Update).
IndexCatchesUp ==
  \A d \in Wanted : index[d] = "cur" \/ source.never \/ d \in reach \/ d \in blame \/ ~Alive

\* An attempt in progress ends, whether its worker finishes, fails, times out
\* or crashes (ScanStuckAttempts).
RunsEnd == \A a \in Attempts : attempt[a].st = "in_progress" ~> attempt[a].st # "in_progress"

\* A source that is due gets a run, or stops being due, unless a reservation
\* lost its scan, task or worker before it was claimed: neither the scan nor the
\* watchdog looks at it again (reserveIngestAttempt, HandleIngest, ScanStuckAttempts).
DueIsServed == IngestDue ~> (~IngestDue \/ orphans # {}
                             \/ \E a \in Attempts : attempt[a].st = "in_progress")
=============================================================================
