-------------------------- MODULE RagIngestProofs ---------------------------
(***************************************************************************)
(* Proofs about RagIngest, for any number of documents, workers, attempts, *)
(* events and any timeouts with TaskTimeout <= WatchdogTimeout.            *)
(*                                                                         *)
(* OneWriter needs the worker's age against the attempt's idle time        *)
(* (Guarded): the watchdog only looks at the latter.  IndexCatchesUp needs *)
(* what a worker still has to write for every document (LoadedCovers,      *)
(* RunCovers), and OneWriter for the batch it has cleared (Cleared).       *)
(***************************************************************************)
EXTENDS RagIngest, FiniteSetTheorems, TLAPS

Writing(w) == worker[w].pc \in {"fetch", "upsert", "finalize"}

\* A run has an attempt of its own; while the source is there it is in progress, and
\* has been idle for no longer than the run is old.
Owns(w) == Writing(w) => worker[w].att \in Attempts
Guarded(w) == Writing(w) /\ Alive =>
  /\ attempt[worker[w].att].st = "in_progress"
  /\ attempt[worker[w].att].idle <= worker[w].age

Exclusion ==
  /\ \A a, b \in Attempts : attempt[a].st \in Active /\ attempt[b].st \in Active => a = b
  /\ \A w \in Workers : Owns(w) /\ Guarded(w)
  /\ \A v, w \in Workers : Writing(v) /\ Writing(w) => v = w

Indexed(d) == index[d] = "cur" \/ d \in blame

\* What is asked for and not indexed is in the window a worker has read, and then
\* still to be fetched or written, or it changed after the window's end or came
\* into scope after the worker read the settings.
LoadedCovers(w) == worker[w].pc = "loaded" /\ Alive =>
  \A d \in Wanted : \/ Indexed(d) \/ d \in worker[w].late
                    \/ (d \in worker[w].todo /\ d \in worker[w].config)
RunCovers(w) == Running(w) /\ ~worker[w].failed /\ ~worker[w].resumed /\ Alive =>
  \A d \in Wanted : \/ Indexed(d) \/ d \in worker[w].late
                    \/ d \in worker[w].todo \/ worker[w].batch[d] = "cur"

Cleared(w) == worker[w].pc = "upsert" => \A d \in InBatch(w) : index[d] = "none"
Drained(w) == worker[w].pc \in {"finalize", "source"} =>
  worker[w].todo = {} /\ \A d \in Docs : worker[w].batch[d] = "none"

Coverage ==
  /\ IndexCatchesUp
  /\ \A w \in Workers : LoadedCovers(w) /\ RunCovers(w) /\ Cleared(w) /\ Drained(w)

IndInv == TypeOK /\ Exclusion /\ Coverage
-----------------------------------------------------------------------------
(* The record an idle worker starts from has its type.                     *)
LEMMA IdleTyped == Idle \in WorkerState
BY ConstantsOK DEF Idle, WorkerState, Task, NoTask, Nothing, Versions, SourceStatus,
  Schedulable

(* The fields of a worker's record have theirs.                            *)
LEMMA FieldsTyped ==
  ASSUME NEW r \in WorkerState
  PROVE  /\ r.task \in Task /\ r.task.att \in Attempts \cup {NoAttempt}
         /\ r.task.full \in BOOLEAN
         /\ r.config \subseteq Docs /\ r.todo \subseteq Docs /\ r.late \subseteq Docs /\ r.batch \in [Docs -> Versions]
         /\ r.age \in 0 .. TaskTimeout /\ r.att \in Attempts \cup {NoAttempt}
         /\ r.pc \in {"idle", "loaded", "fetch", "upsert", "finalize", "source"}
         /\ r.failed \in BOOLEAN /\ r.resumed \in BOOLEAN /\ r.batched \in BOOLEAN
BY DEF WorkerState, Task

(* A step of a worker that only moves its pc keeps its record's type.      *)
LEMMA GotoTyped ==
  ASSUME NEW r \in WorkerState, NEW pc \in {"fetch", "upsert", "finalize", "source"}
  PROVE  [r EXCEPT !.pc = pc] \in WorkerState
BY DEF WorkerState

(* LoadSource gives the worker a record of the type.                       *)
LEMMA LoadedTyped ==
  ASSUME NEW t \in Task, NEW st \in SourceStatus, NEW C \in SUBSET Docs, NEW D \in SUBSET Docs
  PROVE  [Idle EXCEPT !.pc = "loaded", !.task = t, !.st = st, !.config = C, !.todo = D]
           \in WorkerState
BY IdleTyped DEF WorkerState

(* So does the begin of a run,                                             *)
LEMMA BegunTyped ==
  ASSUME NEW r \in WorkerState, NEW a \in Attempts, NEW b \in BOOLEAN, NEW D \in SUBSET Docs
  PROVE  [r EXCEPT !.pc = "fetch", !.att = a, !.task = NoTask, !.resumed = b, !.todo = D]
           \in WorkerState
BY DEF WorkerState, NoTask, Task

(* a document fetched,                                                     *)
LEMMA FetchedTyped ==
  ASSUME NEW r \in WorkerState, NEW d \in Docs, NEW v \in Versions
  PROVE  [r EXCEPT !.todo = @ \ {d}, !.batch[d] = v] \in WorkerState
BY DEF WorkerState

(* the rest of a listing skipped,                                          *)
LEMMA SkippedTyped ==
  ASSUME NEW r \in WorkerState
  PROVE  [r EXCEPT !.todo = {}] \in WorkerState
BY DEF WorkerState

(* a batch written,                                                        *)
LEMMA FlushedTyped ==
  ASSUME NEW r \in WorkerState
  PROVE  [r EXCEPT !.pc = "fetch", !.batched = TRUE, !.batch = Nothing] \in WorkerState
BY DEF WorkerState, Nothing, Versions

(* a run that fails,                                                       *)
LEMMA FailedTyped ==
  ASSUME NEW r \in WorkerState
  PROVE  [r EXCEPT !.pc = "finalize", !.failed = TRUE, !.todo = {}, !.late = {}, !.batch = Nothing]
           \in WorkerState
BY DEF WorkerState, Nothing, Versions

(* an upstream change, of which the worker's record keeps track,           *)
LEMMA ChangedTyped ==
  ASSUME NEW r \in WorkerState, NEW d \in Docs
  PROVE  /\ [r EXCEPT !.todo = @ \cup {d}] \in WorkerState
         /\ [r EXCEPT !.late = @ \cup {d}, !.batch[d] = IF @ = "cur" THEN "old" ELSE @]
              \in WorkerState
<1>1. [r EXCEPT !.todo = @ \cup {d}] \in WorkerState
  BY DEF WorkerState
<1>2. [r EXCEPT !.late = @ \cup {d}, !.batch[d] = IF @ = "cur" THEN "old" ELSE @]
        \in WorkerState
  BY DEF WorkerState, Versions
<1> QED
  BY <1>1, <1>2

(* a change of the settings,                                               *)
LEMMA LateTyped ==
  ASSUME NEW r \in WorkerState, NEW D \in SUBSET Docs
  PROVE  [r EXCEPT !.late = @ \cup D] \in WorkerState
BY DEF WorkerState

(* and the clock, as long as the task has not timed out.                   *)
LEMMA AgedTyped ==
  ASSUME NEW r \in WorkerState, r.age < TaskTimeout
  PROVE  [r EXCEPT !.age = @ + 1] \in WorkerState
BY ConstantsOK DEF WorkerState

(* The rows an attempt goes through have its type.                         *)
LEMMA RowTyped ==
  /\ Row("none") \in AttemptState /\ Row("not_started") \in AttemptState
  /\ Row("in_progress") \in AttemptState /\ Row("ended") \in AttemptState
BY ConstantsOK DEF Row, AttemptState, Active

(* bumpAttemptProgress keeps the type of a row.                            *)
LEMMA ProgressTyped ==
  ASSUME NEW r \in AttemptState
  PROVE  [r EXCEPT !.idle = 0] \in AttemptState
BY ConstantsOK DEF AttemptState

(* finalizeAttempt keeps the type of the source's row.                     *)
LEMMA SettledTyped ==
  ASSUME NEW r \in SourceState, NEW st \in SourceStatus
  PROVE  /\ [r EXCEPT !.st = st] \in SourceState
         /\ [r EXCEPT !.st = st, !.never = FALSE, !.age = 0] \in SourceState
<1>1. [r EXCEPT !.st = st] \in SourceState
  BY DEF SourceState
<1>2. [r EXCEPT !.st = st, !.never = FALSE, !.age = 0] \in SourceState
  <2>1. 0 \in 0 .. RefreshFreq + 1
    BY ConstantsOK
  <2> QED
    BY <2>1 DEF SourceState
<1> QED
  BY <1>1, <1>2

(* Update and Change do too.                                               *)
LEMMA SettingsTyped ==
  ASSUME NEW r \in SourceState, NEW st \in SourceStatus, NEW C \in SUBSET Docs,
         NEW F \in SUBSET Docs, NEW q \in 0 .. RefreshFreq
  PROVE  /\ [r EXCEPT !.st = st, !.config = C, !.floor = F, !.freq = q] \in SourceState
         /\ [r EXCEPT !.floor = F] \in SourceState
<1>1. [r EXCEPT !.st = st, !.config = C, !.floor = F, !.freq = q] \in SourceState
  BY DEF SourceState
<1>2. [r EXCEPT !.floor = F] \in SourceState
  BY DEF SourceState
<1> QED
  BY <1>1, <1>2

(* The row a new attempt takes is one that is not active.                  *)
LEMMA NewRowTyped ==
  ASSUME Free # {}
  PROVE  NewRow \in Attempts /\ attempt[NewRow].st \notin Active
BY DEF NewRow, Free

(* Every step keeps the types.                                              *)
LEMMA TypeStep == TypeOK /\ [Next]_vars => TypeOK'
<1> SUFFICES ASSUME TypeOK, [Next]_vars PROVE TypeOK'
  OBVIOUS
<1> events' \in 0 .. MaxEvents
  BY ConstantsOK DEF Next, vars, TypeOK
<1> USE DEF TypeOK
<1>1. ASSUME ReserveIngestAttempt PROVE TypeOK'
  <2>1. attempt' \in [Attempts -> AttemptState]
    BY <1>1, RowTyped, NewRowTyped DEF ReserveIngestAttempt
  <2> QED
    BY <1>1, <2>1, NewRowTyped DEF ReserveIngestAttempt
<1>2. ASSUME EnqueueIngest PROVE TypeOK'
  <2>1. scan # NoAttempt => [att |-> scan, full |-> FALSE] \in Task
    BY DEF Task
  <2> QED
    BY <1>2, <2>1 DEF EnqueueIngest
<1>3. ASSUME FailIngestReservation PROVE TypeOK'
  <2>1. attempt' \in [Attempts -> AttemptState]
    BY <1>3, RowTyped DEF FailIngestReservation
  <2> QED
    BY <1>3, <2>1, ConstantsOK DEF FailIngestReservation
<1>4. ASSUME ScanCrash PROVE TypeOK'
  BY <1>4 DEF ScanCrash
<1>5. ASSUME ScanStuckAttempts PROVE TypeOK'
  <2>1. attempt' \in [Attempts -> AttemptState]
    BY <1>5, RowTyped DEF ScanStuckAttempts
  <2> QED
    BY <1>5, <2>1 DEF ScanStuckAttempts
<1>6. ASSUME NEW t \in tasks, LoadSource(t) PROVE TypeOK'
  <2>1. Window(t.full) \subseteq Docs /\ source.config \subseteq Docs
    BY DEF Window, SourceState
  <2>2. Read(source.st) \in SourceStatus
    BY DEF Read, SourceState, SourceStatus, Schedulable
  <2> DEFINE u == [Idle EXCEPT !.pc = "loaded", !.task = t, !.st = Read(source.st),
                      !.config = source.config, !.todo = Window(t.full)]
  <2>3. u \in WorkerState
    BY LoadedTyped, <2>1, <2>2
  <2> QED
    BY <1>6, <2>1, <2>2, <2>3 DEF LoadSource
<1>7. ASSUME NEW t \in tasks, BuildConnectorFails(t) PROVE TypeOK'
  BY <1>7 DEF BuildConnectorFails, Task
<1>8. ASSUME NEW w \in Workers, ClaimReservedAttempt(w) PROVE TypeOK'
  <2> DEFINE u == [worker[w] EXCEPT !.pc = "fetch", !.att = worker[w].task.att, !.task = NoTask,
                      !.resumed = FALSE, !.todo = worker[w].todo \cap Exists \cap worker[w].config]
  <2>1. worker[w].task.att \in Attempts \cup {NoAttempt} /\ worker[w].todo \subseteq Docs
    BY FieldsTyped
  <2>2. worker[w].task.att \in Attempts => u \in WorkerState
    BY BegunTyped, <2>1
  <2>3. attempt' \in [Attempts -> AttemptState]
    BY <1>8, RowTyped, <2>1, <2>2 DEF ClaimReservedAttempt
  <2>4. worker' \in [Workers -> WorkerState]
    BY <1>8, IdleTyped, <2>1, <2>2, <2>3 DEF ClaimReservedAttempt, Begin, Leave
  <2> QED
    BY <1>8, <2>1, <2>2, <2>3, <2>4 DEF ClaimReservedAttempt
<1>9. ASSUME NEW w \in Workers, CreateAdHocAttempt(w) PROVE TypeOK'
  <2>1. Free # {} => NewRow \in Attempts
    BY NewRowTyped
  <2>2. worker[w].task.full \in BOOLEAN /\ worker[w].todo \subseteq Docs
    BY FieldsTyped
  <2> DEFINE u(full) == [worker[w] EXCEPT !.pc = "fetch", !.att = NewRow, !.task = NoTask,
                      !.resumed = ~full /\ source.cp,
                      !.todo = IF ~full /\ source.cp THEN {}
                               ELSE worker[w].todo \cap Exists \cap worker[w].config]
  <2>3. Free # {} => \A full \in BOOLEAN : u(full) \in WorkerState
    BY BegunTyped, <2>1, <2>2 DEF Exists, SourceState
  <2>4. attempt' \in [Attempts -> AttemptState]
    BY <1>9, RowTyped, <2>1, <2>2, <2>3 DEF CreateAdHocAttempt
  <2>5. worker' \in [Workers -> WorkerState]
    BY <1>9, IdleTyped, <2>1, <2>2, <2>3, <2>4 DEF CreateAdHocAttempt, Begin, Leave
  <2> QED
    BY <1>9, <2>1, <2>2, <2>3, <2>4, <2>5 DEF CreateAdHocAttempt
<1>10. ASSUME NEW w \in Workers, NEW d \in Docs, FetchDocument(w, d) PROVE TypeOK'
  <2> DEFINE u == [worker[w] EXCEPT !.todo = @ \ {d},
              !.batch[d] = IF d \in worker[w].late \/ d \notin Exists THEN "none" ELSE "cur"]
  <2>1. u \in WorkerState
    BY FetchedTyped DEF Versions
  <2>2. worker' = [worker EXCEPT ![w] = u]
    BY <1>10 DEF FetchDocument
  <2> QED
    BY <1>10, <2>1, <2>2 DEF FetchDocument
<1>11. ASSUME NEW w \in Workers, RecordAttemptError(w) PROVE TypeOK'
  <2> DEFINE u == [worker[w] EXCEPT !.todo = {}]
  <2>1. u \in WorkerState /\ worker[w].todo \subseteq Docs
    BY SkippedTyped, FieldsTyped
  <2>2. worker' = [worker EXCEPT ![w] = u]
    BY <1>11 DEF RecordAttemptError
  <2> QED
    BY <1>11, <2>1, <2>2 DEF RecordAttemptError
<1>12. ASSUME NEW w \in Workers, ClearStaleParts(w) PROVE TypeOK'
  <2> DEFINE u == [worker[w] EXCEPT !.pc = "upsert"]
  <2>1. u \in WorkerState
    BY GotoTyped
  <2>2. worker' = [worker EXCEPT ![w] = u]
    BY <1>12 DEF ClearStaleParts, Goto
  <2> QED
    BY <1>12, <2>1, <2>2 DEF ClearStaleParts, Versions, InBatch
<1>13. ASSUME NEW w \in Workers, UpsertBatch(w) PROVE TypeOK'
  <2> DEFINE u == [worker[w] EXCEPT !.pc = "fetch", !.batched = TRUE, !.batch = Nothing]
  <2>1. u \in WorkerState /\ worker[w].batch \in [Docs -> Versions]
    BY FlushedTyped, FieldsTyped
  <2>2. worker' = [worker EXCEPT ![w] = u]
    BY <1>13 DEF UpsertBatch
  <2>3. attempt' \in [Attempts -> AttemptState]
    BY <1>13, ProgressTyped DEF UpsertBatch
  <2>4. index' \in [Docs -> Versions]
    BY <1>13, <2>1, <2>2, <2>3 DEF UpsertBatch, InBatch
  <2> QED
    BY <1>13, <2>1, <2>2, <2>3, <2>4 DEF UpsertBatch
<1>14. ASSUME NEW w \in Workers, RunFails(w) PROVE TypeOK'
  <2> DEFINE u == [worker[w] EXCEPT !.pc = "finalize", !.failed = TRUE, !.todo = {},
                      !.late = {}, !.batch = Nothing]
  <2>1. u \in WorkerState
    BY FailedTyped
  <2>2. worker' = [worker EXCEPT ![w] = u]
    BY <1>14 DEF RunFails
  <2> QED
    BY <1>14, <2>1, <2>2 DEF RunFails
<1>15. ASSUME NEW w \in Workers, StreamEnds(w) PROVE TypeOK'
  <2> DEFINE u == [worker[w] EXCEPT !.pc = "finalize"]
  <2>1. u \in WorkerState
    BY GotoTyped
  <2>2. worker' = [worker EXCEPT ![w] = u]
    BY <1>15 DEF StreamEnds, Goto
  <2> QED
    BY <1>15, <2>1, <2>2 DEF StreamEnds
<1>16. ASSUME NEW w \in Workers, FinalizeAttempt(w) PROVE TypeOK'
  <2> DEFINE u == [worker[w] EXCEPT !.pc = "source"]
  <2>1. u \in WorkerState
    BY GotoTyped
  <2>2. worker' = [worker EXCEPT ![w] = u]
    BY <1>16 DEF FinalizeAttempt, Goto
  <2>3. attempt' \in [Attempts -> AttemptState]
    BY <1>16, RowTyped DEF FinalizeAttempt
  <2>4. source' \in SourceState
    BY <1>16 DEF FinalizeAttempt, SourceState
  <2> QED
    BY <1>16, <2>1, <2>2, <2>3, <2>4 DEF FinalizeAttempt
<1>17. ASSUME NEW w \in Workers, FinalizeSource(w) PROVE TypeOK'
  <2>1. worker' \in [Workers -> WorkerState]
    BY <1>17, IdleTyped DEF FinalizeSource, Leave
  <2>2. worker[w].late \subseteq Docs
    BY FieldsTyped
  <2> DEFINE st == IF worker[w].failed /\ worker[w].st = "INITIAL_INDEXING" THEN "ERROR"
               ELSE IF /\ ~worker[w].failed /\ worker[w].st \in {"INITIAL_INDEXING", "ERROR"}
                       /\ worker[w].batched
                    THEN "ACTIVE" ELSE source.st
  <2>3. st \in SourceStatus
    BY DEF SourceState, SourceStatus, Schedulable
  <2>4. source' \in {source, [source EXCEPT !.st = st],
                       [source EXCEPT !.st = st, !.never = FALSE, !.age = 0]}
    BY <1>17 DEF FinalizeSource
  <2> HIDE DEF st
  <2>5. source \in SourceState
    OBVIOUS
  <2>6. [source EXCEPT !.st = st] \in SourceState
    BY SettledTyped, <2>5, <2>3
  <2>7. [source EXCEPT !.st = st, !.never = FALSE, !.age = 0] \in SourceState
    BY SettledTyped, <2>5, <2>3
  <2>8. source' \in SourceState
    BY <2>1, <2>2, <2>3, <2>4, <2>5, <2>6, <2>7
  <2>9. reach' \subseteq Docs /\ blame' \subseteq Docs
    BY <1>17, <2>1, <2>2, <2>3, <2>4, <2>5, <2>6, <2>7, <2>8 DEF FinalizeSource, Covered
  <2> QED
    BY <1>17, <2>1, <2>2, <2>3, <2>4, <2>5, <2>6, <2>7, <2>8, <2>9 DEF FinalizeSource
<1>18. ASSUME NEW w \in Workers, TimeOut(w) PROVE TypeOK'
  <2>1. worker' \in [Workers -> WorkerState]
    BY <1>18, IdleTyped DEF TimeOut, Leave
  <2>2. worker[w].task.att \in Attempts \cup {NoAttempt}
    BY FieldsTyped
  <2> QED
    BY <1>18, <2>1, <2>2 DEF TimeOut, Orphan
<1>19. ASSUME NEW w \in Workers, Crash(w) PROVE TypeOK'
  <2>1. worker' \in [Workers -> WorkerState]
    BY <1>19, IdleTyped DEF Crash, Leave
  <2>2. worker[w].task.att \in Attempts \cup {NoAttempt}
    BY FieldsTyped
  <2> QED
    BY <1>19, <2>1, <2>2 DEF Crash, Orphan
<1>20. ASSUME DrainSlim PROVE TypeOK'
  BY <1>20 DEF DrainSlim, Exists
<1>21. ASSUME DeleteStalePoints PROVE TypeOK'
  BY <1>21 DEF DeleteStalePoints, Versions, StalePoints, NoPrune
<1>22. ASSUME PruneFails PROVE TypeOK'
  BY <1>22 DEF PruneFails, NoPrune
<1>23. ASSUME NEW full \in BOOLEAN, TriggerSync(full) PROVE TypeOK'
  BY <1>23 DEF TriggerSync, Task
<1>24. ASSUME Update PROVE TypeOK'
  <2>1. PICK st \in {source.st, "ACTIVE", "PAUSED"}, config \in SUBSET Docs,
             floor \in Floors \cup {source.floor}, freq \in 0 .. RefreshFreq : UpdateTo(st, config, floor, freq)
    BY <1>24 DEF Update
  <2>2. st \in SourceStatus /\ floor \subseteq Docs /\ source \in SourceState
    BY DEF SourceState, SourceStatus, Schedulable, Floors
  <2>3. source' \in SourceState
    BY <2>1, <2>2, SettingsTyped DEF UpdateTo
  <2> DEFINE wider == (config \ floor) \ (source.config \ source.floor)
             u(w) == [worker[w] EXCEPT !.late = @ \cup (wider \ (worker[w].todo \cap worker[w].config))]
  <2>4. \A w \in Workers : u(w) \in WorkerState
    BY LateTyped
  <2>5. worker' \in [Workers -> WorkerState]
    BY <2>1, <2>4 DEF UpdateTo
  <2>6. blame' \subseteq Docs
    BY <2>1 DEF UpdateTo
  <2> QED
    BY <1>24, <2>3, <2>5, <2>6 DEF Update
<1>25. ASSUME Delete PROVE TypeOK'
  <2>1. attempt' \in [Attempts -> AttemptState]
    BY <1>25, RowTyped DEF Delete
  <2>2. source' \in SourceState
    BY <1>25 DEF Delete, SourceState, SourceStatus
  <2> QED
    BY <1>25, <2>1, <2>2 DEF Delete
<1>26. ASSUME NEW d \in Docs, Change(d) PROVE TypeOK'
  <2> DEFINE loaded(w) == [worker[w] EXCEPT !.todo = @ \cup {d}]
  <2>0. source' \in SourceState
    <3>1. source \in SourceState /\ source.floor \ {d} \subseteq Docs
      BY DEF SourceState
    <3>2. [source EXCEPT !.floor = source.floor \ {d}] \in SourceState
      BY <3>1, SettingsTyped, ConstantsOK DEF SourceState
    <3> QED
      BY <1>26, <3>2 DEF Change
  <2> DEFINE running(w) == [worker[w] EXCEPT !.late = @ \cup {d}, !.batch[d] = IF @ = "cur" THEN "old" ELSE @]
  <2>1. \A w \in Workers : loaded(w) \in WorkerState
    BY ChangedTyped
  <2>2. \A w \in Workers : running(w) \in WorkerState
    BY ChangedTyped
  <2>3. worker' \in [Workers -> WorkerState]
    BY <1>26, <2>1, <2>2 DEF Change
  <2>4. [exists |-> TRUE, age |-> 0] \in [exists : BOOLEAN, age : 0 .. PollOverlap + 1]
    BY ConstantsOK
  <2>5. upstream' \in [Docs -> [exists : BOOLEAN, age : 0 .. PollOverlap + 1]]
    BY <1>26, <2>1, <2>2, <2>3, <2>4 DEF Change
  <2>6. index' \in [Docs -> Versions]
    BY <1>26 DEF Change, Versions
  <2> QED
    BY <1>26, <2>0, <2>1, <2>2, <2>3, <2>4, <2>5, <2>6 DEF Change
<1>27. ASSUME NEW d \in Docs, Remove(d) PROVE TypeOK'
  BY <1>27 DEF Remove
<1>28. ASSUME Tick PROVE TypeOK'
  <2> DEFINE u(w) == [worker[w] EXCEPT !.age = @ + 1]
  <2>1. \A w \in Workers : worker[w].pc # "idle" => u(w) \in WorkerState
    BY <1>28, AgedTyped DEF Tick
  <2>2. worker' \in [Workers -> WorkerState]
    BY <1>28, <2>1 DEF Tick
  <2>3. source' \in SourceState
    BY <1>28, ConstantsOK DEF Tick, SourceState, Older
  <2>4. attempt' \in [Attempts -> AttemptState]
    BY <1>28, ConstantsOK DEF Tick, AttemptState, Older
  <2>5. upstream' \in [Docs -> [exists : BOOLEAN, age : 0 .. PollOverlap + 1]]
    BY <1>28, ConstantsOK DEF Tick, Older
  <2> QED
    BY <1>28, <2>1, <2>2, <2>3, <2>4, <2>5 DEF Tick
<1>29. CASE UNCHANGED vars
  BY <1>29 DEF vars
<1> QED
  BY <1>1, <1>2, <1>3, <1>4, <1>5, <1>6, <1>7, <1>8, <1>9, <1>10, <1>11, <1>12, <1>13,
    <1>14, <1>15, <1>16, <1>17, <1>18, <1>19, <1>20, <1>21, <1>22, <1>23, <1>24, <1>25,
    <1>26, <1>27, <1>28, <1>29
     DEF Next, SystemStep, Event, WorkerStep

(* What a step does to the records of the workers: Goto,                   *)
LEMMA GotoEffect ==
  ASSUME TypeOK, NEW w \in Workers, NEW pc, Goto(w, pc)
  PROVE  /\ worker'[w].pc = pc /\ worker'[w].att = worker[w].att
         /\ worker'[w].age = worker[w].age /\ worker'[w].todo = worker[w].todo
         /\ worker'[w].late = worker[w].late /\ worker'[w].batch = worker[w].batch
         /\ worker'[w].failed = worker[w].failed
         /\ worker'[w].resumed = worker[w].resumed
         /\ \A v \in Workers \ {w} : worker'[v] = worker[v]
<1> DEFINE u == [worker[w] EXCEPT !.pc = pc]
<1>1. worker[w] \in WorkerState
  BY DEF TypeOK
<1>2. worker' = [worker EXCEPT ![w] = u]
  BY <1>1 DEF Goto, TypeOK, WorkerState
<1>3. worker'[w] = u /\ \A v \in Workers \ {w} : worker'[v] = worker[v]
  BY <1>2 DEF TypeOK
<1>4. /\ u.pc = pc /\ u.att = worker[w].att /\ u.age = worker[w].age
      /\ u.todo = worker[w].todo /\ u.late = worker[w].late /\ u.batch = worker[w].batch
      /\ u.failed = worker[w].failed /\ u.resumed = worker[w].resumed
  BY <1>1 DEF WorkerState
<1> QED
  BY <1>3, <1>4

(* FetchDocument,                                                          *)
LEMMA FetchEffect ==
  ASSUME TypeOK, NEW w \in Workers, NEW d \in Docs, FetchDocument(w, d)
  PROVE  /\ worker'[w].pc = worker[w].pc /\ worker'[w].att = worker[w].att
         /\ worker'[w].age = worker[w].age /\ worker'[w].todo = worker[w].todo \ {d}
         /\ worker'[w].late = worker[w].late
         /\ worker'[w].batch = [worker[w].batch EXCEPT
              ![d] = IF d \in worker[w].late \/ d \notin Exists THEN "none" ELSE "cur"]
         /\ worker'[w].failed = worker[w].failed
         /\ worker'[w].resumed = worker[w].resumed
         /\ \A v \in Workers \ {w} : worker'[v] = worker[v]
<1> DEFINE u == [worker[w] EXCEPT !.todo = @ \ {d},
       !.batch[d] = IF d \in worker[w].late \/ d \notin Exists THEN "none" ELSE "cur"]
<1>1. worker[w] \in WorkerState
  BY DEF TypeOK
<1>2. worker' = [worker EXCEPT ![w] = u]
  BY <1>1 DEF FetchDocument, TypeOK, WorkerState
<1>3. worker'[w] = u /\ \A v \in Workers \ {w} : worker'[v] = worker[v]
  BY <1>2 DEF TypeOK
<1>4. /\ u.pc = worker[w].pc /\ u.att = worker[w].att /\ u.age = worker[w].age
      /\ u.todo = worker[w].todo \ {d} /\ u.late = worker[w].late
      /\ u.batch = [worker[w].batch EXCEPT
              ![d] = IF d \in worker[w].late \/ d \notin Exists THEN "none" ELSE "cur"]
      /\ u.failed = worker[w].failed /\ u.resumed = worker[w].resumed
  BY <1>1 DEF WorkerState
<1> QED
  BY <1>3, <1>4

(* RecordAttemptError,                                                     *)
LEMMA ErrorEffect ==
  ASSUME TypeOK, NEW w \in Workers, RecordAttemptError(w)
  PROVE  /\ worker'[w].pc = worker[w].pc /\ worker'[w].att = worker[w].att
         /\ worker'[w].age = worker[w].age /\ worker'[w].todo = {}
         /\ worker'[w].late = worker[w].late /\ worker'[w].batch = worker[w].batch
         /\ worker'[w].failed = worker[w].failed
         /\ worker'[w].resumed = worker[w].resumed
         /\ \A v \in Workers \ {w} : worker'[v] = worker[v]
<1> DEFINE u == [worker[w] EXCEPT !.todo = {}]
<1>1. worker[w] \in WorkerState
  BY DEF TypeOK
<1>2. worker' = [worker EXCEPT ![w] = u]
  BY <1>1 DEF RecordAttemptError, TypeOK, WorkerState
<1>3. worker'[w] = u /\ \A v \in Workers \ {w} : worker'[v] = worker[v]
  BY <1>2 DEF TypeOK
<1>4. /\ u.pc = worker[w].pc /\ u.att = worker[w].att /\ u.age = worker[w].age
      /\ u.todo = {} /\ u.late = worker[w].late /\ u.batch = worker[w].batch
      /\ u.failed = worker[w].failed /\ u.resumed = worker[w].resumed
  BY <1>1 DEF WorkerState
<1> QED
  BY <1>3, <1>4

(* UpsertBatch,                                                            *)
LEMMA UpsertEffect ==
  ASSUME TypeOK, NEW w \in Workers, UpsertBatch(w)
  PROVE  /\ worker'[w].pc = "fetch" /\ worker'[w].att = worker[w].att
         /\ worker'[w].age = worker[w].age /\ worker'[w].todo = worker[w].todo
         /\ worker'[w].late = worker[w].late /\ worker'[w].batch = Nothing
         /\ worker'[w].failed = worker[w].failed
         /\ worker'[w].resumed = worker[w].resumed
         /\ \A v \in Workers \ {w} : worker'[v] = worker[v]
<1> DEFINE u == [worker[w] EXCEPT !.pc = "fetch", !.batched = TRUE, !.batch = Nothing]
<1>1. worker[w] \in WorkerState
  BY DEF TypeOK
<1>2. worker' = [worker EXCEPT ![w] = u]
  BY <1>1 DEF UpsertBatch, TypeOK, WorkerState
<1>3. worker'[w] = u /\ \A v \in Workers \ {w} : worker'[v] = worker[v]
  BY <1>2 DEF TypeOK
<1>4. /\ u.pc = "fetch" /\ u.att = worker[w].att /\ u.age = worker[w].age
      /\ u.todo = worker[w].todo /\ u.late = worker[w].late /\ u.batch = Nothing
      /\ u.failed = worker[w].failed /\ u.resumed = worker[w].resumed
  BY <1>1 DEF WorkerState
<1> QED
  BY <1>3, <1>4

(* RunFails,                                                               *)
LEMMA FailEffect ==
  ASSUME TypeOK, NEW w \in Workers, RunFails(w)
  PROVE  /\ worker'[w].pc = "finalize" /\ worker'[w].att = worker[w].att
         /\ worker'[w].age = worker[w].age /\ worker'[w].todo = {}
         /\ worker'[w].late = {} /\ worker'[w].batch = Nothing
         /\ worker'[w].failed = TRUE /\ worker'[w].resumed = worker[w].resumed
         /\ \A v \in Workers \ {w} : worker'[v] = worker[v]
<1> DEFINE u == [worker[w] EXCEPT !.pc = "finalize", !.failed = TRUE, !.todo = {},
                              !.late = {}, !.batch = Nothing]
<1>1. worker[w] \in WorkerState
  BY DEF TypeOK
<1>2. worker' = [worker EXCEPT ![w] = u]
  BY <1>1 DEF RunFails, TypeOK, WorkerState
<1>3. worker'[w] = u /\ \A v \in Workers \ {w} : worker'[v] = worker[v]
  BY <1>2 DEF TypeOK
<1>4. /\ u.pc = "finalize" /\ u.att = worker[w].att /\ u.age = worker[w].age
      /\ u.todo = {} /\ u.late = {} /\ u.batch = Nothing /\ u.failed = TRUE
      /\ u.resumed = worker[w].resumed
  BY <1>1 DEF WorkerState
<1> QED
  BY <1>3, <1>4

(* ClaimReservedAttempt begins a run with a new attempt in progress, or gives up.     *)
LEMMA ClaimEffect ==
  ASSUME TypeOK, NEW w \in Workers, ClaimReservedAttempt(w)
  PROVE  \/ Leave(w) /\ attempt' = attempt
         \/ /\ Alive /\ ActiveAttempts \subseteq {worker[w].task.att}
            /\ worker[w].task.att \in Attempts
            /\ attempt[worker[w].task.att].st # "in_progress"
            /\ attempt' = [attempt EXCEPT ![worker[w].task.att] = Row("in_progress")]
            /\ worker'[w].pc = "fetch" /\ worker'[w].att = worker[w].task.att
            /\ worker'[w].age = worker[w].age /\ worker'[w].late = worker[w].late
            /\ worker'[w].batch = worker[w].batch /\ worker'[w].failed = worker[w].failed
            /\ ~worker'[w].resumed
            /\ worker'[w].todo = worker[w].todo \cap Exists \cap worker[w].config
            /\ \A v \in Workers \ {w} : worker'[v] = worker[v]
<1> DEFINE D == worker[w].todo \cap Exists \cap worker[w].config
<1>1. CASE /\ Alive /\ ActiveAttempts \subseteq {worker[w].task.att}
           /\ attempt[worker[w].task.att].st = "not_started"
  <2>1. Alive /\ ActiveAttempts \subseteq {worker[w].task.att}
    BY <1>1
  <2>2. attempt' = [attempt EXCEPT ![worker[w].task.att] = Row("in_progress")]
    BY <1>1 DEF ClaimReservedAttempt
  <2> DEFINE u == [worker[w] EXCEPT !.pc = "fetch", !.att = worker[w].task.att, !.task = NoTask,
                                    !.resumed = FALSE, !.todo = D]
  <2>3. worker' = [worker EXCEPT ![w] = u]
    BY <1>1 DEF ClaimReservedAttempt, Begin
  <2>4. worker[w].task.att \in Attempts /\ attempt[worker[w].task.att].st # "in_progress"
    BY <1>1, FieldsTyped DEF ClaimReservedAttempt, TypeOK
  <2> HIDE DEF D
  <2>5. /\ worker'[w].pc = "fetch" /\ worker'[w].att = worker[w].task.att
        /\ worker'[w].age = worker[w].age /\ worker'[w].late = worker[w].late
        /\ worker'[w].batch = worker[w].batch /\ worker'[w].failed = worker[w].failed
        /\ worker'[w].todo = D /\ (~worker'[w].resumed)
        /\ \A v \in Workers \ {w} : worker'[v] = worker[v]
    <3>1. worker[w] \in WorkerState
      BY DEF TypeOK
    <3>2. worker'[w] = u /\ \A v \in Workers \ {w} : worker'[v] = worker[v]
      BY <2>3 DEF TypeOK
    <3>3. /\ u.pc = "fetch" /\ u.att = worker[w].task.att /\ u.age = worker[w].age
          /\ u.late = worker[w].late /\ u.batch = worker[w].batch
          /\ u.failed = worker[w].failed /\ u.todo = D /\ (~u.resumed)
      BY <3>1 DEF WorkerState
    <3> QED
      BY <3>2, <3>3
  <2> QED
    BY <2>1, <2>2, <2>4, <2>5 DEF D
<1>2. CASE ~(/\ Alive /\ ActiveAttempts \subseteq {worker[w].task.att}
             /\ attempt[worker[w].task.att].st = "not_started")
  BY <1>2 DEF ClaimReservedAttempt
<1> QED
  BY <1>1, <1>2

(* CreateAdHocAttempt begins a run with a new attempt in progress, or gives up.     *)
LEMMA AdHocEffect ==
  ASSUME TypeOK, NEW w \in Workers, CreateAdHocAttempt(w)
  PROVE  \/ Leave(w) /\ attempt' = attempt
         \/ /\ Alive /\ ActiveAttempts = {}
            /\ NewRow \in Attempts /\ attempt[NewRow].st # "in_progress"
            /\ attempt' = [attempt EXCEPT ![NewRow] = Row("in_progress")]
            /\ worker'[w].pc = "fetch" /\ worker'[w].att = NewRow
            /\ worker'[w].age = worker[w].age /\ worker'[w].late = worker[w].late
            /\ worker'[w].batch = worker[w].batch /\ worker'[w].failed = worker[w].failed
            /\ \/ worker'[w].resumed
               \/ worker'[w].todo = worker[w].todo \cap Exists \cap worker[w].config
            /\ \A v \in Workers \ {w} : worker'[v] = worker[v]
<1> DEFINE D == IF ~worker[w].task.full /\ source.cp THEN {}
               ELSE worker[w].todo \cap Exists \cap worker[w].config
<1>1. CASE Alive /\ ActiveAttempts = {}
  <2>1. Alive /\ ActiveAttempts = {}
    BY <1>1
  <2>2. attempt' = [attempt EXCEPT ![NewRow] = Row("in_progress")]
    BY <1>1 DEF CreateAdHocAttempt
  <2> DEFINE u == [worker[w] EXCEPT !.pc = "fetch", !.att = NewRow, !.task = NoTask,
                                    !.resumed = ~worker[w].task.full /\ source.cp, !.todo = D]
  <2>3. worker' = [worker EXCEPT ![w] = u]
    BY <1>1 DEF CreateAdHocAttempt, Begin
  <2>4. NewRow \in Attempts /\ attempt[NewRow].st # "in_progress"
    BY <1>1, NewRowTyped DEF CreateAdHocAttempt, Active
  <2> HIDE DEF D
  <2>5. /\ worker'[w].pc = "fetch" /\ worker'[w].att = NewRow
        /\ worker'[w].age = worker[w].age /\ worker'[w].late = worker[w].late
        /\ worker'[w].batch = worker[w].batch /\ worker'[w].failed = worker[w].failed
        /\ worker'[w].todo = D /\ (worker'[w].resumed <=> (~worker[w].task.full /\ source.cp))
        /\ \A v \in Workers \ {w} : worker'[v] = worker[v]
    <3>1. worker[w] \in WorkerState
      BY DEF TypeOK
    <3>2. worker'[w] = u /\ \A v \in Workers \ {w} : worker'[v] = worker[v]
      BY <2>3 DEF TypeOK
    <3>3. /\ u.pc = "fetch" /\ u.att = NewRow /\ u.age = worker[w].age
          /\ u.late = worker[w].late /\ u.batch = worker[w].batch
          /\ u.failed = worker[w].failed /\ u.todo = D
          /\ (u.resumed <=> (~worker[w].task.full /\ source.cp))
      BY <3>1 DEF WorkerState
    <3> QED
      BY <3>2, <3>3
  <2> QED
    BY <2>1, <2>2, <2>4, <2>5 DEF D
<1>2. CASE ~(Alive /\ ActiveAttempts = {})
  BY <1>2 DEF CreateAdHocAttempt
<1> QED
  BY <1>1, <1>2

(* Leave,                                                                  *)
LEMMA LeaveEffect ==
  ASSUME TypeOK, NEW w \in Workers, Leave(w)
  PROVE  worker'[w].pc = "idle" /\ \A v \in Workers \ {w} : worker'[v] = worker[v]
BY DEF Leave, Idle, TypeOK

(* LoadSource,                                                             *)
LEMMA LoadEffect ==
  ASSUME TypeOK, NEW t \in tasks, LoadSource(t), Alive
  PROVE  \E w \in Workers : /\ worker[w].pc = "idle" /\ worker'[w].pc = "loaded"
                             /\ worker'[w].todo = Window(t.full)
                             /\ worker'[w].config = source.config
                             /\ \A v \in Workers \ {w} : worker'[v] = worker[v]
<1> DEFINE w == CHOOSE v \in Workers : worker[v].pc = "idle"
           u == [Idle EXCEPT !.pc = "loaded", !.task = t, !.st = Read(source.st),
                    !.config = source.config, !.todo = Window(t.full)]
<1>1. w \in Workers /\ worker[w].pc = "idle"
  BY DEF LoadSource
<1>2. worker' = [worker EXCEPT ![w] = u]
  BY DEF LoadSource
<1>3. u.pc = "loaded" /\ u.todo = Window(t.full) /\ u.config = source.config
  BY DEF Idle
<1>4. worker'[w] = u /\ \A v \in Workers \ {w} : worker'[v] = worker[v]
  BY <1>1, <1>2 DEF TypeOK
<1> QED
  BY <1>1, <1>3, <1>4

(* Change, for every worker,                                               *)
LEMMA ChangeEffect ==
  ASSUME TypeOK, NEW d \in Docs, Change(d), NEW w \in Workers
  PROVE  /\ worker'[w].pc = worker[w].pc /\ worker'[w].att = worker[w].att
         /\ worker'[w].age = worker[w].age /\ worker'[w].failed = worker[w].failed
         /\ worker'[w].resumed = worker[w].resumed
         /\ worker[w].pc = "loaded" =>
              /\ worker'[w].config = worker[w].config
              /\ worker[w].todo \subseteq worker'[w].todo /\ worker[w].late \subseteq worker'[w].late
              /\ d \in worker'[w].late \/ (d \in worker'[w].todo /\ d \in worker[w].config)
         /\ Running(w) => worker'[w].todo = worker[w].todo
         /\ Running(w) /\ ~worker[w].failed => worker'[w].late = worker[w].late \cup {d}
         /\ Running(w) => \A e \in Docs :
              /\ worker'[w].batch[e] = "none" <=> worker[w].batch[e] = "none"
              /\ e # d => worker'[w].batch[e] = worker[w].batch[e]
<1> DEFINE l == [worker[w] EXCEPT !.todo = @ \cup {d}]
           r == [worker[w] EXCEPT !.late = @ \cup {d}, !.batch[d] = IF @ = "cur" THEN "old" ELSE @]
<1>1. worker[w] \in WorkerState
  BY DEF TypeOK
<1>2. worker'[w] = CASE worker[w].pc = "idle" \/ (Running(w) /\ worker[w].failed) -> worker[w]
                     [] worker[w].pc = "loaded" /\ d \in worker[w].config -> l
                     [] OTHER -> r
  BY DEF Change
<1>3. CASE worker[w].pc = "idle"
  BY <1>1, <1>2, <1>3 DEF Running
<1>4. CASE worker[w].pc = "loaded" /\ d \in worker[w].config
  <2>1. worker'[w] = l
    BY <1>2, <1>4 DEF Running
  <2>2. /\ l.pc = worker[w].pc /\ l.att = worker[w].att /\ l.age = worker[w].age
        /\ l.failed = worker[w].failed /\ l.resumed = worker[w].resumed
        /\ l.todo = worker[w].todo \cup {d} /\ l.late = worker[w].late
        /\ l.config = worker[w].config
    BY <1>1 DEF WorkerState
  <2> QED
    BY <1>4, <2>1, <2>2 DEF Running
<1>5. CASE worker[w].pc \notin {"idle", "loaded"} /\ worker[w].failed
  BY <1>1, <1>2, <1>5 DEF Running
<1>6. CASE \/ worker[w].pc \notin {"idle", "loaded"} /\ ~worker[w].failed
           \/ worker[w].pc = "loaded" /\ d \notin worker[w].config
  <2>1. worker'[w] = r
    BY <1>2, <1>6 DEF Running
  <2>2. /\ r.pc = worker[w].pc /\ r.att = worker[w].att /\ r.age = worker[w].age
        /\ r.failed = worker[w].failed /\ r.resumed = worker[w].resumed
        /\ r.todo = worker[w].todo /\ r.late = worker[w].late \cup {d}
        /\ r.config = worker[w].config
        /\ r.batch = [worker[w].batch EXCEPT ![d] = IF @ = "cur" THEN "old" ELSE @]
    BY <1>1 DEF WorkerState
  <2>3. \A e \in Docs : /\ r.batch[e] = "none" <=> worker[w].batch[e] = "none"
                        /\ e # d => r.batch[e] = worker[w].batch[e]
    <3>1. worker[w].batch \in [Docs -> Versions]
      BY <1>1, FieldsTyped
    <3> QED
      BY <2>2, <3>1
  <2> HIDE DEF r
  <2> QED
    BY <1>6, <2>1, <2>2, <2>3 DEF Running
<1> QED
  BY <1>3, <1>4, <1>5, <1>6

(* Update, for every worker that has not failed,                           *)
LEMMA UpdateEffect ==
  ASSUME TypeOK, NEW st, NEW config, NEW floor, NEW freq, UpdateTo(st, config, floor, freq),
         NEW w \in Workers
  PROVE  /\ worker'[w].pc = worker[w].pc /\ worker'[w].att = worker[w].att
         /\ worker'[w].age = worker[w].age /\ worker'[w].failed = worker[w].failed
         /\ worker'[w].resumed = worker[w].resumed /\ worker'[w].todo = worker[w].todo
         /\ worker'[w].config = worker[w].config /\ worker'[w].batch = worker[w].batch
         /\ worker[w].late \subseteq worker'[w].late
         /\ \/ worker[w].pc = "idle" \/ (Running(w) /\ worker[w].failed)
            \/ \A d \in (config \ floor) \ (source.config \ source.floor) :
                 d \in worker'[w].late \/ (d \in worker[w].todo /\ d \in worker[w].config)
<1> DEFINE D == ((config \ floor) \ (source.config \ source.floor))
                  \ (worker[w].todo \cap worker[w].config)
           u == [worker[w] EXCEPT !.late = @ \cup D]
<1>1. worker[w] \in WorkerState
  BY DEF TypeOK
<1>2. worker'[w] = IF worker[w].pc = "idle" \/ (Running(w) /\ worker[w].failed)
                   THEN worker[w] ELSE u
  BY DEF UpdateTo
<1> HIDE DEF D
<1>3. /\ u.pc = worker[w].pc /\ u.att = worker[w].att /\ u.age = worker[w].age
      /\ u.failed = worker[w].failed /\ u.resumed = worker[w].resumed
      /\ u.todo = worker[w].todo /\ u.config = worker[w].config /\ u.batch = worker[w].batch
      /\ u.late = worker[w].late \cup D
  BY <1>1 DEF WorkerState
<1>4. CASE worker[w].pc = "idle" \/ (Running(w) /\ worker[w].failed)
  BY <1>2, <1>4
<1>5. CASE ~(worker[w].pc = "idle" \/ (Running(w) /\ worker[w].failed))
  <2>1. worker'[w] = u
    BY <1>2, <1>5
  <2>2. worker'[w].late = worker[w].late \cup D
    BY <2>1, <1>3
  <2>3. \A d \in (config \ floor) \ (source.config \ source.floor) :
          d \in worker'[w].late \/ (d \in worker[w].todo /\ d \in worker[w].config)
    BY <2>2 DEF D
  <2> QED
    BY <2>1, <2>2, <2>3, <1>3
<1> QED
  BY <1>4, <1>5

(* and Tick, for every worker.                                             *)
LEMMA TickEffect ==
  ASSUME TypeOK, Tick, NEW w \in Workers
  PROVE  /\ worker'[w].pc = worker[w].pc /\ worker'[w].att = worker[w].att
         /\ worker'[w].failed = worker[w].failed /\ worker'[w].resumed = worker[w].resumed
         /\ worker'[w].todo = worker[w].todo /\ worker'[w].late = worker[w].late
         /\ worker'[w].batch = worker[w].batch /\ worker'[w].config = worker[w].config
         /\ worker[w].pc # "idle" => worker'[w].age = worker[w].age + 1
<1> DEFINE u == [worker[w] EXCEPT !.age = @ + 1]
<1>1. worker[w] \in WorkerState
  BY DEF TypeOK
<1>2. worker'[w] = IF worker[w].pc = "idle" THEN worker[w] ELSE u
  BY DEF Tick
<1>3. /\ u.pc = worker[w].pc /\ u.att = worker[w].att /\ u.failed = worker[w].failed
      /\ u.resumed = worker[w].resumed /\ u.todo = worker[w].todo /\ u.late = worker[w].late
      /\ u.batch = worker[w].batch /\ u.config = worker[w].config
      /\ u.age = worker[w].age + 1
  BY <1>1 DEF WorkerState
<1> QED
  BY <1>2, <1>3

(* Every step keeps the exclusion of runs.                                 *)
LEMMA ExclusionStep == TypeOK /\ Exclusion /\ [Next]_vars => Exclusion'
<1> SUFFICES ASSUME TypeOK, Exclusion, [Next]_vars PROVE Exclusion'
  OBVIOUS
<1> USE DEF Exclusion, Owns, Guarded, Writing, Alive, Row, Idle, Active
<1>1. ASSUME ReserveIngestAttempt PROVE Exclusion'
  <2>1. \A a \in Attempts : attempt[a].st \notin Active
    BY <1>1 DEF ReserveIngestAttempt, ActiveAttempts
  <2>2. NewRow \in Attempts
    BY <1>1, NewRowTyped DEF ReserveIngestAttempt
  <2>3. ~Alive \/ \A w \in Workers : ~Writing(w)
    BY <2>1
  <2> QED
    BY <1>1, <2>1, <2>2, <2>3 DEF ReserveIngestAttempt, TypeOK
<1>2. ASSUME FailIngestReservation PROVE Exclusion'
  BY <1>2, ConstantsOK DEF FailIngestReservation, TypeOK, Goto, Leave
<1>3. ASSUME ScanStuckAttempts PROVE Exclusion'
  <2>1. ASSUME NEW w \in Workers, Writing(w), Alive
        PROVE  ~Stuck(worker[w].att)
    <3>1. worker[w].age \in 0 .. TaskTimeout /\ worker[w].att \in Attempts
      BY <2>1, FieldsTyped DEF TypeOK
    <3>2. attempt[worker[w].att].idle \in Nat
      BY <3>1, ConstantsOK DEF TypeOK, AttemptState
    <3> QED
      BY <2>1, <3>1, <3>2, ConstantsOK DEF Stuck
  <2> QED
    BY <1>3, <2>1 DEF ScanStuckAttempts, TypeOK
<1>4. ASSUME NEW t \in tasks, LoadSource(t) PROVE Exclusion'
  BY <1>4, ConstantsOK DEF LoadSource, TypeOK, Goto, Leave
<1>5. ASSUME NEW w \in Workers, ClaimReservedAttempt(w) PROVE Exclusion'
  <2>1. CASE Leave(w) /\ attempt' = attempt
    BY <1>5, <2>1, LeaveEffect DEF ClaimReservedAttempt
  <2>2. CASE ~(Leave(w) /\ attempt' = attempt)
    <3>1. /\ Alive /\ worker[w].task.att \in Attempts
          /\ attempt[worker[w].task.att].st # "in_progress"
          /\ \A b \in Attempts : attempt[b].st \in Active => b = worker[w].task.att
          /\ attempt' = [attempt EXCEPT ![worker[w].task.att] = Row("in_progress")]
          /\ source' = source
          /\ worker'[w].pc = "fetch" /\ worker'[w].att = worker[w].task.att
          /\ worker'[w].age = worker[w].age
          /\ \A v \in Workers \ {w} : worker'[v] = worker[v]
      BY <1>5, <2>2, ClaimEffect DEF ActiveAttempts, ClaimReservedAttempt
    <3>2. \A v \in Workers : ~Writing(v)
      BY <3>1
    <3>3. worker[w].age \in Nat
      BY FieldsTyped, ConstantsOK DEF TypeOK
    <3>4. /\ attempt'[worker[w].task.att].st = "in_progress"
          /\ attempt'[worker[w].task.att].idle = 0
          /\ \A b \in Attempts \ {worker[w].task.att} : attempt'[b] = attempt[b]
      BY <3>1 DEF TypeOK, Row
    <3> QED
      BY <3>1, <3>2, <3>3, <3>4
  <2> QED
    BY <2>1, <2>2
<1>6. ASSUME NEW w \in Workers, CreateAdHocAttempt(w) PROVE Exclusion'
  <2>1. CASE Leave(w) /\ attempt' = attempt
    BY <1>6, <2>1, LeaveEffect DEF CreateAdHocAttempt
  <2>2. CASE ~(Leave(w) /\ attempt' = attempt)
    <3>1. /\ Alive /\ NewRow \in Attempts /\ attempt[NewRow].st # "in_progress"
          /\ \A b \in Attempts : attempt[b].st \in Active => FALSE
          /\ attempt' = [attempt EXCEPT ![NewRow] = Row("in_progress")] /\ source' = source
          /\ worker'[w].pc = "fetch" /\ worker'[w].att = NewRow
          /\ worker'[w].age = worker[w].age
          /\ \A v \in Workers \ {w} : worker'[v] = worker[v]
      BY <1>6, <2>2, AdHocEffect DEF ActiveAttempts, CreateAdHocAttempt
    <3>2. \A v \in Workers : ~Writing(v)
      BY <3>1
    <3>3. worker[w].age \in Nat
      BY FieldsTyped, ConstantsOK DEF TypeOK
    <3>4. /\ attempt'[NewRow].st = "in_progress" /\ attempt'[NewRow].idle = 0
          /\ \A b \in Attempts \ {NewRow} : attempt'[b] = attempt[b]
      BY <3>1 DEF TypeOK, Row
    <3> QED
      BY <3>1, <3>2, <3>3, <3>4
  <2> QED
    BY <2>1, <2>2
<1>7. ASSUME NEW w \in Workers, NEW d \in Docs, FetchDocument(w, d) PROVE Exclusion'
  BY <1>7, ConstantsOK DEF FetchDocument, TypeOK, Goto, Leave
<1>8. ASSUME NEW w \in Workers, RecordAttemptError(w) PROVE Exclusion'
  BY <1>8, ConstantsOK DEF RecordAttemptError, TypeOK, Goto, Leave
<1>9. ASSUME NEW w \in Workers, ClearStaleParts(w) PROVE Exclusion'
  BY <1>9, ConstantsOK DEF ClearStaleParts, TypeOK, Goto, Leave
<1>10. ASSUME NEW w \in Workers, UpsertBatch(w) PROVE Exclusion'
  <2>1. \A v \in Workers : worker[v].age \in Nat
    BY FieldsTyped, ConstantsOK DEF TypeOK
  <2>2. \A v \in Workers : /\ worker'[v].att = worker[v].att /\ worker'[v].age = worker[v].age
                           /\ Writing(v)' <=> Writing(v)
    BY <1>10, UpsertEffect DEF UpsertBatch
  <2>3. \A a \in Attempts : /\ attempt'[a].st = attempt[a].st
                            /\ attempt'[a].idle \in {0, attempt[a].idle}
    BY <1>10 DEF UpsertBatch, TypeOK, AttemptState
  <2>4. source' = source
    BY <1>10 DEF UpsertBatch
  <2> QED
    BY <2>1, <2>2, <2>3, <2>4
<1>11. ASSUME NEW w \in Workers, RunFails(w) PROVE Exclusion'
  BY <1>11, ConstantsOK DEF RunFails, TypeOK, Goto, Leave
<1>12. ASSUME NEW w \in Workers, StreamEnds(w) PROVE Exclusion'
  BY <1>12, ConstantsOK DEF StreamEnds, TypeOK, Goto, Leave
<1>13. ASSUME NEW w \in Workers, FinalizeAttempt(w) PROVE Exclusion'
  BY <1>13, ConstantsOK DEF FinalizeAttempt, TypeOK, Goto, Leave
<1>14. ASSUME NEW w \in Workers, FinalizeSource(w) PROVE Exclusion'
  BY <1>14, ConstantsOK DEF FinalizeSource, TypeOK, Goto, Leave
<1>15. ASSUME NEW w \in Workers, TimeOut(w) PROVE Exclusion'
  BY <1>15, ConstantsOK DEF TimeOut, TypeOK, Goto, Leave
<1>16. ASSUME NEW w \in Workers, Crash(w) PROVE Exclusion'
  BY <1>16, ConstantsOK DEF Crash, TypeOK, Goto, Leave
<1>17. ASSUME Update PROVE Exclusion'
  <2>1. PICK st \in {source.st, "ACTIVE", "PAUSED"}, config \in SUBSET Docs,
             floor \in Floors \cup {source.floor}, freq \in 0 .. RefreshFreq : UpdateTo(st, config, floor, freq)
    BY <1>17 DEF Update
  <2>2. \A v \in Workers : /\ worker'[v].pc = worker[v].pc /\ worker'[v].att = worker[v].att
                           /\ worker'[v].age = worker[v].age
    BY <2>1, UpdateEffect
  <2>3. attempt' = attempt /\ Alive
    BY <1>17 DEF Update
  <2> QED
    BY <2>2, <2>3
<1>18. ASSUME Delete PROVE Exclusion'
  BY <1>18, ConstantsOK DEF Delete, TypeOK, Goto, Leave
<1>19. ASSUME NEW d \in Docs, Change(d) PROVE Exclusion'
  <2>1. \A v \in Workers : /\ worker'[v].pc = worker[v].pc /\ worker'[v].att = worker[v].att
                           /\ worker'[v].age = worker[v].age
    BY <1>19, ChangeEffect
  <2>2. attempt' = attempt /\ source'.st = source.st
    BY <1>19 DEF Change, TypeOK, SourceState
  <2> QED
    BY <2>1, <2>2
<1>20. ASSUME Tick PROVE Exclusion'
  <2>1. \A v \in Workers : /\ worker'[v].pc = worker[v].pc /\ worker'[v].att = worker[v].att
                           /\ Writing(v) => worker'[v].age = worker[v].age + 1
    BY <1>20, TickEffect
  <2>2. \A a \in Attempts :
          /\ attempt'[a].st = attempt[a].st
          /\ attempt'[a].idle <= attempt[a].idle + 1
    BY <1>20, ConstantsOK DEF Tick, TypeOK, AttemptState, Older
  <2>3. Alive' = Alive
    BY <1>20 DEF Tick, TypeOK, SourceState
  <2>4. /\ \A v \in Workers : worker[v].age \in Nat
        /\ \A a \in Attempts : attempt[a].idle \in Nat /\ attempt'[a].idle \in Nat
    BY <1>20, FieldsTyped, ConstantsOK DEF Tick, TypeOK, AttemptState, Older
  <2>5. \A v \in Workers : Owns(v)' /\ Guarded(v)'
    BY <2>1, <2>2, <2>3, <2>4
  <2> QED
    BY <2>1, <2>2, <2>5
<1>21. CASE UNCHANGED <<attempt, source, worker>>
  BY <1>21
<1> QED
  BY <1>1, <1>2, <1>3, <1>4, <1>5, <1>6, <1>7, <1>8, <1>9, <1>10, <1>11, <1>12, <1>13,
    <1>14, <1>15, <1>16, <1>17, <1>18, <1>19, <1>20, <1>21
     DEF Next, vars, SystemStep, Event, WorkerStep, BuildConnectorFails,
       DeleteStalePoints, DrainSlim, EnqueueIngest, PruneFails, Remove, ScanCrash,
       TriggerSync

(* Every step keeps the coverage.                                          *)
LEMMA CoverageStep == IndInv /\ [Next]_vars => Coverage'
<1> SUFFICES ASSUME IndInv, [Next]_vars PROVE Coverage'
  OBVIOUS
<1> USE DEF IndInv, Alive, Coverage, IndexCatchesUp, Indexed, LoadedCovers, RunCovers,
  Cleared, Drained, Running, Wanted, Exists, InBatch, Idle
<1>1. ASSUME NEW t \in tasks, LoadSource(t) PROVE Coverage'
  <2>1. CASE ~Alive
    BY <1>1, <2>1 DEF LoadSource
  <2>2. CASE Alive
    <3>1. PICK w \in Workers : /\ worker[w].pc = "idle" /\ worker'[w].pc = "loaded"
                               /\ worker'[w].todo = Window(t.full)
                               /\ worker'[w].config = source.config
                               /\ \A v \in Workers \ {w} : worker'[v] = worker[v]
      BY <1>1, <2>2, LoadEffect
    <3>2. \A d \in Wanted : Indexed(d) \/ (d \in Window(t.full) /\ d \in source.config)
      BY <2>2 DEF Window
    <3>3. UNCHANGED <<source, upstream, index, reach, blame>>
      BY <1>1 DEF LoadSource
    <3> QED
      BY <3>1, <3>2, <3>3
  <2> QED
    BY <2>1, <2>2
<1>2. ASSUME NEW w \in Workers, ClaimReservedAttempt(w) PROVE Coverage'
  <2>1. UNCHANGED <<source, upstream, index, reach, blame>> /\ worker[w].pc = "loaded"
    BY <1>2 DEF ClaimReservedAttempt
  <2>2. CASE Leave(w) /\ attempt' = attempt
    BY <2>1, <2>2, LeaveEffect
  <2>3. CASE ~(Leave(w) /\ attempt' = attempt)
    <3>1. /\ Alive /\ worker'[w].pc = "fetch"
          /\ worker'[w].late = worker[w].late /\ worker'[w].failed = worker[w].failed
          /\ \/ worker'[w].resumed
             \/ worker'[w].todo = worker[w].todo \cap Exists \cap worker[w].config
          /\ \A v \in Workers \ {w} : worker'[v] = worker[v]
      BY <1>2, <2>3, ClaimEffect
    <3> QED
      BY <2>1, <3>1
  <2> QED
    BY <2>2, <2>3
<1>3. ASSUME NEW w \in Workers, CreateAdHocAttempt(w) PROVE Coverage'
  <2>1. UNCHANGED <<source, upstream, index, reach, blame>> /\ worker[w].pc = "loaded"
    BY <1>3 DEF CreateAdHocAttempt
  <2>2. CASE Leave(w) /\ attempt' = attempt
    BY <2>1, <2>2, LeaveEffect
  <2>3. CASE ~(Leave(w) /\ attempt' = attempt)
    <3>1. /\ Alive /\ worker'[w].pc = "fetch"
          /\ worker'[w].late = worker[w].late /\ worker'[w].failed = worker[w].failed
          /\ \/ worker'[w].resumed
             \/ worker'[w].todo = worker[w].todo \cap Exists \cap worker[w].config
          /\ \A v \in Workers \ {w} : worker'[v] = worker[v]
      BY <1>3, <2>3, AdHocEffect
    <3> QED
      BY <2>1, <3>1
  <2> QED
    BY <2>2, <2>3
<1>4. ASSUME NEW w \in Workers, NEW d \in Docs, FetchDocument(w, d) PROVE Coverage'
  <2>1. UNCHANGED <<source, upstream, index, reach, blame>> /\ worker[w].pc = "fetch"
    BY <1>4 DEF FetchDocument
  <2>2. /\ worker'[w].pc = "fetch" /\ worker'[w].late = worker[w].late
        /\ worker'[w].failed = worker[w].failed /\ worker'[w].resumed = worker[w].resumed
        /\ worker'[w].todo = worker[w].todo \ {d}
        /\ \A v \in Workers \ {w} : worker'[v] = worker[v]
    BY <1>4, FetchEffect, <2>1
  <2>3. worker'[w].batch = [worker[w].batch EXCEPT
          ![d] = IF d \in worker[w].late \/ d \notin Exists THEN "none" ELSE "cur"]
    BY <1>4, FetchEffect
  <2>4. worker[w].batch \in [Docs -> Versions]
    BY FieldsTyped DEF TypeOK
  <2>5. /\ \A e \in Docs \ {d} : worker'[w].batch[e] = worker[w].batch[e]
        /\ d \in Exists => d \in worker'[w].late \/ worker'[w].batch[d] = "cur"
    BY <2>2, <2>3, <2>4
  <2>6. RunCovers(w)'
    BY <2>1, <2>2, <2>5
  <2> QED
    BY <2>1, <2>2, <2>6
<1>5. ASSUME NEW w \in Workers, RecordAttemptError(w) PROVE Coverage'
  BY <1>5, ConstantsOK DEF RecordAttemptError, TypeOK, Exclusion, Owns, Writing, Goto, Leave
<1>6. ASSUME NEW w \in Workers, ClearStaleParts(w) PROVE Coverage'
  BY <1>6, ConstantsOK DEF ClearStaleParts, TypeOK, Exclusion, Owns, Writing, Goto, Leave
<1>7. ASSUME NEW w \in Workers, UpsertBatch(w) PROVE Coverage'
  BY <1>7, ConstantsOK DEF UpsertBatch, TypeOK, Exclusion, Owns, Writing, Goto, Leave
<1>8. ASSUME NEW w \in Workers, RunFails(w) PROVE Coverage'
  <2>1. UNCHANGED <<source, upstream, index, reach, blame>>
    BY <1>8 DEF RunFails
  <2>2. /\ worker'[w].pc = "finalize" /\ worker'[w].failed /\ worker'[w].todo = {}
        /\ worker'[w].batch = Nothing /\ \A v \in Workers \ {w} : worker'[v] = worker[v]
    BY <1>8, FailEffect
  <2> QED
    BY <2>1, <2>2 DEF Nothing
<1>9. ASSUME NEW w \in Workers, StreamEnds(w) PROVE Coverage'
  BY <1>9, ConstantsOK DEF StreamEnds, TypeOK, Exclusion, Owns, Writing, Goto, Leave
<1>10. ASSUME NEW w \in Workers, FinalizeAttempt(w) PROVE Coverage'
  BY <1>10, ConstantsOK DEF FinalizeAttempt, TypeOK, Exclusion, Owns, Writing, Goto, Leave
<1>11. ASSUME NEW w \in Workers, FinalizeSource(w) PROVE Coverage'
  <2>1. /\ UNCHANGED <<upstream, index>> /\ worker[w].pc = "source"
        /\ worker'[w].pc = "idle" /\ \A v \in Workers \ {w} : worker'[v] = worker[v]
    BY <1>11, LeaveEffect DEF FinalizeSource
  <2>2. blame \subseteq blame' /\ (Alive' => Alive)
    BY <1>11 DEF FinalizeSource, TypeOK, SourceState
  <2>0. source'.config = source.config /\ source'.floor = source.floor
    <3> DEFINE st == IF worker[w].failed /\ worker[w].st = "INITIAL_INDEXING" THEN "ERROR"
                     ELSE IF /\ ~worker[w].failed
                             /\ worker[w].st \in {"INITIAL_INDEXING", "ERROR"}
                             /\ worker[w].batched
                          THEN "ACTIVE" ELSE source.st
    <3>1. source' \in {source, [source EXCEPT !.st = st],
                        [source EXCEPT !.st = st, !.never = FALSE, !.age = 0]}
      BY <1>11 DEF FinalizeSource
    <3> HIDE DEF st
    <3>2. source \in SourceState
      BY DEF TypeOK
    <3> QED
      BY <3>1, <3>2 DEF SourceState
  <2>9. Wanted' = Wanted
    BY <2>0, <2>1
  <2>3. \A v \in Workers : LoadedCovers(v)' /\ RunCovers(v)' /\ Cleared(v)' /\ Drained(v)'
    <3> HIDE DEF Wanted
    <3> QED
      BY <2>1, <2>2, <2>9
  <2>4. CASE Advances(w) /\ Alive
    <3>1. /\ reach' = Covered
          /\ blame' = blame \cup ((IF worker[w].resumed THEN Docs ELSE worker[w].late) \ Covered)
      BY <1>11, <2>4 DEF FinalizeSource
    <3>2. \A d \in Wanted : Indexed(d) \/ d \in worker[w].late \/ worker[w].resumed
      BY <2>1, <2>4 DEF Advances
    <3> HIDE DEF Wanted
    <3>3. \A d \in Wanted : index[d] = "cur" \/ d \in reach' \/ d \in blame'
      <4> SUFFICES ASSUME NEW d \in Wanted PROVE index[d] = "cur" \/ d \in reach' \/ d \in blame'
        OBVIOUS
      <4>1. d \in Docs
        BY DEF Wanted
      <4> QED
        BY <3>1, <3>2, <4>1
    <3>4. IndexCatchesUp'
      BY <2>1, <2>9, <3>3
    <3> QED
      BY <2>3, <3>4
  <2>5. CASE ~Advances(w) /\ Alive
    <3>1. UNCHANGED <<reach, blame>> /\ source'.never = source.never
      BY <1>11, <2>5 DEF FinalizeSource, TypeOK, SourceState
    <3> HIDE DEF Wanted
    <3> QED
      BY <2>1, <2>2, <2>3, <2>9, <3>1
  <2>6. CASE ~Alive
    BY <2>1, <2>2, <2>3, <2>6
  <2> QED
    BY <2>4, <2>5, <2>6
<1>12. ASSUME NEW w \in Workers, TimeOut(w) PROVE Coverage'
  BY <1>12, ConstantsOK DEF TimeOut, TypeOK, Exclusion, Owns, Writing, Goto, Leave
<1>13. ASSUME NEW w \in Workers, Crash(w) PROVE Coverage'
  BY <1>13, ConstantsOK DEF Crash, TypeOK, Exclusion, Owns, Writing, Goto, Leave
<1>14. ASSUME DeleteStalePoints PROVE Coverage'
  BY <1>14, ConstantsOK DEF DeleteStalePoints, TypeOK, Exclusion, Owns, Writing, Goto, Leave
<1>15. ASSUME Update PROVE Coverage'
  <2>1. PICK st \in {source.st, "ACTIVE", "PAUSED"}, config \in SUBSET Docs,
             floor \in Floors \cup {source.floor}, freq \in 0 .. RefreshFreq : UpdateTo(st, config, floor, freq)
    BY <1>15 DEF Update
  <2> DEFINE wider == (config \ floor) \ (source.config \ source.floor)
  <2>2. /\ UNCHANGED <<index, upstream, reach>> /\ Alive
        /\ source'.never = source.never /\ source'.config = config /\ source'.floor = floor
        /\ blame' = IF source.never THEN blame ELSE blame \cup (wider \ reach)
    BY <1>15, <2>1 DEF Update, UpdateTo, TypeOK, SourceState
  <2>3. Wanted' \subseteq Wanted \cup wider
    BY <2>2
  <2>4. IndexCatchesUp'
    BY <2>2, <2>3
  <2>5. \A w \in Workers : LoadedCovers(w)' /\ RunCovers(w)'
    <3> SUFFICES ASSUME NEW w \in Workers PROVE LoadedCovers(w)' /\ RunCovers(w)'
      OBVIOUS
    <3> HIDE DEF wider, Wanted
    <3>1. /\ worker'[w].pc = worker[w].pc /\ worker'[w].failed = worker[w].failed
          /\ worker'[w].resumed = worker[w].resumed /\ worker'[w].todo = worker[w].todo
          /\ worker'[w].config = worker[w].config /\ worker'[w].batch = worker[w].batch
          /\ worker[w].late \subseteq worker'[w].late
          /\ \/ worker[w].pc = "idle" \/ (Running(w) /\ worker[w].failed)
             \/ \A d \in wider : d \in worker'[w].late \/ (d \in worker[w].todo /\ d \in worker[w].config)
      BY <2>1, UpdateEffect DEF wider
    <3> QED
      BY <2>2, <2>3, <3>1
  <2>6. \A w \in Workers : Cleared(w)' /\ Drained(w)'
    BY <2>1, <2>2, UpdateEffect
  <2> QED
    BY <2>4, <2>5, <2>6
<1>16. ASSUME Delete PROVE Coverage'
  BY <1>16, ConstantsOK DEF Delete, TypeOK, Exclusion, Owns, Writing, Goto, Leave
<1>17. ASSUME NEW d \in Docs, Change(d) PROVE Coverage'
  <2>1. /\ source'.st = source.st /\ source'.never = source.never /\ source'.config = source.config
        /\ reach' = reach \cup {d} /\ blame' = blame \ {d}
        /\ \A e \in Docs \ {d} : index'[e] = index[e] /\ (e \in Wanted' <=> e \in Wanted)
        /\ index[d] = "none" => index'[d] = "none"
    <3>1. /\ source'.st = source.st /\ source'.never = source.never
          /\ source'.config = source.config /\ source'.floor = source.floor \ {d}
      BY <1>17 DEF Change, TypeOK, SourceState
    <3>2. /\ reach' = reach \cup {d} /\ blame' = blame \ {d}
          /\ \A e \in Docs \ {d} : index'[e] = index[e] /\ upstream'[e] = upstream[e]
          /\ index[d] = "none" => index'[d] = "none"
      BY <1>17 DEF Change, TypeOK
    <3> QED
      BY <3>1, <3>2
  <2>2. \A w \in Workers : /\ worker'[w].pc = worker[w].pc
                           /\ worker'[w].failed = worker[w].failed
                           /\ worker'[w].resumed = worker[w].resumed
    BY <1>17, ChangeEffect
  <2>3. \A w \in Workers :
          /\ worker[w].pc = "loaded" =>
               /\ worker'[w].config = worker[w].config
               /\ worker[w].todo \subseteq worker'[w].todo /\ worker[w].late \subseteq worker'[w].late
               /\ d \in worker'[w].late \/ (d \in worker'[w].todo /\ d \in worker[w].config)
          /\ Running(w) => worker'[w].todo = worker[w].todo
          /\ Running(w) /\ ~worker[w].failed => worker'[w].late = worker[w].late \cup {d}
    BY <1>17, ChangeEffect
  <2>4. \A w \in Workers : Running(w) => \A e \in Docs :
          /\ worker'[w].batch[e] = "none" <=> worker[w].batch[e] = "none"
          /\ e # d => worker'[w].batch[e] = worker[w].batch[e]
    BY <1>17, ChangeEffect
  <2>5. IndexCatchesUp'
    BY <2>1
  <2>6. \A w \in Workers : LoadedCovers(w)'
    BY <2>1, <2>2, <2>3
  <2>7. \A w \in Workers : RunCovers(w)'
    BY <2>1, <2>2, <2>3, <2>4
  <2>8. \A w \in Workers : Cleared(w)' /\ Drained(w)'
    BY <2>1, <2>2, <2>3, <2>4
  <2> QED
    BY <2>5, <2>6, <2>7, <2>8
<1>18. ASSUME NEW d \in Docs, Remove(d) PROVE Coverage'
  BY <1>18, ConstantsOK DEF Remove, TypeOK, Exclusion, Owns, Writing, Goto, Leave
<1>19. ASSUME Tick PROVE Coverage'
  BY <1>19, ConstantsOK DEF Tick, TypeOK, Exclusion, Owns, Writing, Goto, Leave
<1>20. CASE UNCHANGED <<blame, index, reach, source, upstream, worker>>
  BY <1>20
<1> QED
  BY <1>1, <1>2, <1>3, <1>4, <1>5, <1>6, <1>7, <1>8, <1>9, <1>10, <1>11, <1>12, <1>13,
    <1>14, <1>15, <1>16, <1>17, <1>18, <1>19, <1>20
     DEF Next, vars, SystemStep, Event, WorkerStep, BuildConnectorFails, DrainSlim,
       EnqueueIngest, FailIngestReservation, PruneFails, ReserveIngestAttempt,
       ScanCrash, ScanStuckAttempts, TriggerSync

(* The initial states satisfy the inductive invariant.                     *)
LEMMA InitInd == Init => IndInv
<1> SUFFICES ASSUME Init PROVE IndInv
  OBVIOUS
<1>1. \A w \in Workers : worker[w] = Idle
  BY DEF Init
<1>2. worker \in [Workers -> WorkerState]
  BY IdleTyped DEF Init
<1>3. attempt \in [Attempts -> AttemptState]
  BY RowTyped DEF Init
<1>4. source \in SourceState
  BY ConstantsOK DEF Init, SourceState, SourceStatus, Schedulable
<1>5. upstream \in [Docs -> [exists : BOOLEAN, age : 0 .. PollOverlap + 1]]
  BY ConstantsOK DEF Init
<1>6. tasks \subseteq Task
  <2>1. NoTask \in Task
    BY DEF NoTask, Task
  <2> QED
    BY <2>1 DEF Init
<1>7. TypeOK
  BY <1>2, <1>3, <1>4, <1>5, <1>6, ConstantsOK DEF Init, TypeOK, NoPrune, Nothing, Versions
<1>8. Exclusion
  BY <1>1 DEF Init, Exclusion, Owns, Guarded, Writing, Idle, Row, Active
<1>9. Coverage
  <2>1. IndexCatchesUp
    BY DEF Init, IndexCatchesUp, Wanted, Exists
  <2> QED
    BY <1>1, <2>1 DEF Coverage, LoadedCovers, RunCovers, Cleared, Drained, Running, Idle
<1> QED
  BY <1>7, <1>8, <1>9 DEF IndInv

(* IndInv is an invariant of the specification.                            *)
LEMMA IndInvHolds == Spec => []IndInv
<1>1. IndInv /\ [Next]_vars => IndInv'
  BY TypeStep, ExclusionStep, CoverageStep DEF IndInv
<1> QED
  BY InitInd, <1>1, PTL DEF Spec

(* The variables keep their types.                                         *)
THEOREM TypeCorrect == Spec => []TypeOK
<1>1. IndInv => TypeOK
  BY DEF IndInv
<1> QED
  BY <1>1, IndInvHolds, PTL

(* At any time one run writes a source's documents, and it holds the only  *)
(* active attempt, which the watchdog leaves alone, however many workers,  *)
(* scans and ad hoc tasks race for it.                                     *)
THEOREM OneWriterHolds == Spec => []OneWriter
<1>1. IndInv => OneWriter
  <2> SUFFICES ASSUME IndInv PROVE OneWriter
    OBVIOUS
  <2>1. Cardinality(ActiveAttempts) <= 1
    <3>1. \A a, b \in ActiveAttempts : a = b
      BY DEF IndInv, Exclusion, ActiveAttempts
    <3>2. CASE ActiveAttempts = {}
      BY <3>2, FS_EmptySet
    <3>3. CASE ActiveAttempts # {}
      <4>1. PICK a \in ActiveAttempts : ActiveAttempts = {a}
        BY <3>1, <3>3
      <4> QED
        BY <4>1, FS_Singleton
    <3> QED
      BY <3>2, <3>3
  <2>2. \A w \in Workers : worker[w].pc \in {"fetch", "upsert", "finalize"} /\ Alive =>
          attempt[worker[w].att].st = "in_progress"
    BY DEF IndInv, Exclusion, Guarded, Writing
  <2>3. ASSUME NEW v \in Workers, NEW w \in Workers, Running(v), Running(w), v # w
        PROVE  "source" \in {worker[v].pc, worker[w].pc}
    <3>1. /\ worker[v].pc \in {"idle", "loaded", "fetch", "upsert", "finalize", "source"}
          /\ worker[w].pc \in {"idle", "loaded", "fetch", "upsert", "finalize", "source"}
      BY FieldsTyped DEF IndInv, TypeOK
    <3>2. ~(Writing(v) /\ Writing(w))
      BY <2>3 DEF IndInv, Exclusion
    <3> QED
      BY <2>3, <3>1, <3>2 DEF Running, Writing
  <2> QED
    BY <2>1, <2>2, <2>3 DEF OneWriter
<1> QED
  BY <1>1, IndInvHolds, PTL

(* What the index lacks, the next run's window covers, or one of the six   *)
(* causes in blame kept it out since its last change: no interleaving of   *)
(* runs, prunes, crashes and upstream changes loses a document otherwise.  *)
THEOREM IndexCatchesUpHolds == Spec => []IndexCatchesUp
<1>1. IndInv => IndexCatchesUp
  BY DEF IndInv, Coverage
<1> QED
  BY <1>1, IndInvHolds, PTL
=============================================================================
